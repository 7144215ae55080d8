----------------------------- MODULE TotalsProofs -----------------------------
(***************************************************************************)
(* What the sum over a finite set is, whatever is summed.  Total is a fold *)
(* of the community modules: it chooses an element, and goes on with the   *)
(* rest.  These lemmas say that the choice does not matter: any element    *)
(* may be taken out, put in or changed.                                    *)
(***************************************************************************)
EXTENDS Integers, FiniteSets, Totals, FiniteSetTheorems, WellFoundedInduction, TLAPS

Chosen(s)     == CHOOSE x \in s : TRUE
Unfolded(g, f, s) == IF s = {} THEN 0 ELSE f[Chosen(s)] + g[s \ {Chosen(s)}]
Sums(g, f, S) == g = [s \in SUBSET S |-> Unfolded(g, f, s)]
Summing(f, S) == CHOOSE g : Sums(g, f, S)

LEMMA TotalIs == ASSUME NEW f, NEW S PROVE Total(f, S) = Summing(f, S)[S]
  BY Zenon DEF Total, MapThenSumSet, MapThenFoldSet, Summing, Sums, Unfolded, Chosen

(* Induction over natural numbers and over the subsets of a finite set.    *)
LEMMA OverNumbers ==
  ASSUME NEW N, 0 \in N, \A n \in Nat : n \in N => n + 1 \in N
  PROVE  Nat \subseteq N
<1> DEFINE Less == {p \in Nat \X Nat : p[1] < p[2]}
<1> SUFFICES ASSUME NEW m \in Nat \ N PROVE FALSE
  OBVIOUS
<1>1. IsWellFoundedOn(Less, Nat)
  BY NatLessThanWellFounded DEF OpToRel
<1> HIDE DEF Less
<1>2. PICK n \in Nat \ N : \A k \in Nat \ N : <<k, n>> \notin Less
  <2>1. Nat \ N \subseteq Nat /\ Nat \ N # {}
    OBVIOUS
  <2> HIDE <1>1
  <2> QED BY <1>1, <2>1, WFMin
<1>3. \A k \in Nat : k < n => k \in N
  BY <1>2 DEF Less
<1>4. n - 1 \in Nat /\ n - 1 < n /\ (n - 1) + 1 = n
  <2>1. n # 0
    BY <1>2
  <2> QED BY <1>2, <2>1
<1> QED BY <1>2, <1>3, <1>4

LEMMA OverSubsets ==
  ASSUME NEW S, IsFiniteSet(S), NEW Good, 
         \A s \in SUBSET S : (\A x \in s : s \ {x} \in Good) => s \in Good
  PROVE  SUBSET S \subseteq Good
<1> DEFINE N == {n \in Nat : \A s \in SUBSET S : Cardinality(s) <= n => s \in Good}
<1>1. \A s \in SUBSET S : IsFiniteSet(s) /\ Cardinality(s) \in Nat
  BY FS_Subset, FS_CardinalityType
<1>2. \A s \in SUBSET S : \A x \in s : Cardinality(s \ {x}) = Cardinality(s) - 1
  BY <1>1, FS_RemoveElement
<1>3. 0 \in N
  <2>1. \A s \in SUBSET S : Cardinality(s) <= 0 => s = {}
    BY <1>1, FS_EmptySet
  <2>2. {} \in Good
    OBVIOUS
  <2> QED BY <2>1, <2>2
<1>4. \A n \in Nat : n \in N => n + 1 \in N
  <2> SUFFICES ASSUME NEW n \in Nat, n \in N, NEW s \in SUBSET S, Cardinality(s) <= n + 1
               PROVE  s \in Good
    OBVIOUS
  <2>1. \A x \in s : s \ {x} \in SUBSET S /\ Cardinality(s \ {x}) <= n
    BY <1>1, <1>2
  <2> QED BY <2>1
<1>5. Nat \subseteq N
  <2> HIDE DEF N
  <2> QED BY <1>3, <1>4, OverNumbers
<1> QED BY <1>1, <1>5

(* There is a function that sums.                                          *)
LEMMA SummingSums ==
  ASSUME NEW f, NEW S, IsFiniteSet(S)
  PROVE  Sums(Summing(f, S), f, S)
<1> DEFINE UpTo(g, n) == /\ g = [s \in SUBSET S |-> g[s]]
                         /\ \A s \in SUBSET S : Cardinality(s) <= n => g[s] = Unfolded(g, f, s)
           N == {n \in Nat : \E g : UpTo(g, n)}
<1>1. \A s \in SUBSET S : IsFiniteSet(s) /\ Cardinality(s) \in Nat
  BY FS_Subset, FS_CardinalityType
<1>2. \A s \in SUBSET S : s # {} => /\ Chosen(s) \in s /\ s \ {Chosen(s)} \in SUBSET S
                                    /\ Cardinality(s \ {Chosen(s)}) = Cardinality(s) - 1
  BY <1>1, FS_RemoveElement DEF Chosen
<1>3. 0 \in N
  <2>1. \A s \in SUBSET S : Cardinality(s) <= 0 => s = {}
    BY <1>1, FS_EmptySet
  <2>2. UpTo([s \in SUBSET S |-> 0], 0)
    BY <2>1 DEF Unfolded
  <2> QED BY <2>2
<1>4. \A n \in Nat : n \in N => n + 1 \in N
  <2> SUFFICES ASSUME NEW n \in Nat, NEW g, UpTo(g, n) PROVE \E h : UpTo(h, n + 1)
    <3> HIDE DEF UpTo
    <3> QED OBVIOUS
  <2> DEFINE h == [s \in SUBSET S |-> Unfolded(g, f, s)]
  <2>1. \A s \in SUBSET S : h[s] = Unfolded(g, f, s)
    OBVIOUS
  <2>2. \A s \in SUBSET S : Cardinality(s) <= n => h[s] = g[s]
    BY <2>1
  <2>3. ASSUME NEW s \in SUBSET S, Cardinality(s) <= n + 1 PROVE h[s] = Unfolded(h, f, s)
    <3>1. CASE s = {}
      BY <2>1, <3>1 DEF Unfolded
    <3>2. CASE s # {}
      <4>1. s \ {Chosen(s)} \in SUBSET S /\ Cardinality(s \ {Chosen(s)}) <= n
        <5>1. s \ {Chosen(s)} \in SUBSET S /\ Cardinality(s \ {Chosen(s)}) = Cardinality(s) - 1
          BY <1>2, <3>2
        <5>2. Cardinality(s) \in Nat
          BY <1>1
        <5> HIDE DEF h, UpTo, N
        <5> QED BY <2>3, <5>1, <5>2
      <4>2. h[s \ {Chosen(s)}] = g[s \ {Chosen(s)}]
        BY <2>2, <4>1
      <4> HIDE DEF h
      <4> QED BY <2>1, <3>2, <4>2 DEF Unfolded
    <3> QED BY <3>1, <3>2
  <2>4. h = [s \in SUBSET S |-> h[s]]
    OBVIOUS
  <2> QED BY <2>3, <2>4
<1>5. Cardinality(S) \in N
  <2> HIDE DEF N
  <2> QED BY <1>1, <1>3, <1>4, OverNumbers
<1>6. PICK g : UpTo(g, Cardinality(S))
  BY <1>5
<1>7. \A s \in SUBSET S : g[s] = Unfolded(g, f, s)
  BY <1>1, <1>6, FS_Subset
<1>8. Sums(g, f, S)
  BY <1>6, <1>7 DEF Sums
<1> QED BY <1>8 DEF Summing

LEMMA SummingAt ==
  ASSUME NEW f, NEW S, IsFiniteSet(S), NEW s \in SUBSET S
  PROVE  Summing(f, S)[s] = Unfolded(Summing(f, S), f, s)
<1> DEFINE g == Summing(f, S)
<1>1. Sums(g, f, S)
  BY SummingSums
<1> HIDE DEF g
<1>2. g = [r \in SUBSET S |-> Unfolded(g, f, r)]
  BY <1>1 DEF Sums
<1>3. g[s] = Unfolded(g, f, s)
  BY <1>2
<1> QED BY <1>3 DEF g

LEMMA SumsAgree ==
  ASSUME NEW f, NEW h, NEW S, NEW T, IsFiniteSet(S), IsFiniteSet(T)
  PROVE  \A s \in SUBSET (S \cap T) :
           (\A x \in s : f[x] = h[x]) => Summing(f, S)[s] = Summing(h, T)[s]
<1> DEFINE Good == {s \in SUBSET (S \cap T) :
                      (\A x \in s : f[x] = h[x]) => Summing(f, S)[s] = Summing(h, T)[s]}
<1>1. IsFiniteSet(S \cap T)
  BY FS_Subset
<1>2. ASSUME NEW s \in SUBSET (S \cap T), \A x \in s : s \ {x} \in Good PROVE s \in Good
  <2>0. SUFFICES ASSUME \A x \in s : f[x] = h[x] PROVE Summing(f, S)[s] = Summing(h, T)[s]
    OBVIOUS
  <2>1. /\ Summing(f, S)[s] = Unfolded(Summing(f, S), f, s)
        /\ Summing(h, T)[s] = Unfolded(Summing(h, T), h, s)
    <3> HIDE DEF Good
    <3> QED BY SummingAt
  <2>2. CASE s = {}
    BY <2>1, <2>2 DEF Unfolded
  <2>3. CASE s # {}
    <3>1. Chosen(s) \in s
      BY <2>3 DEF Chosen
    <3>2. Summing(f, S)[s \ {Chosen(s)}] = Summing(h, T)[s \ {Chosen(s)}]
      BY <1>2, <2>0, <3>1
    <3> QED BY <2>0, <2>1, <2>3, <3>1, <3>2 DEF Unfolded
  <2> QED BY <2>2, <2>3
<1> QED
  <2> HIDE DEF Good
  <2>1. SUBSET (S \cap T) \subseteq Good
    BY <1>1, <1>2, OverSubsets
  <2> QED BY <2>1 DEF Good

(* What is not summed does not matter.                                     *)
LEMMA TotalSame ==
  ASSUME NEW f, NEW h, NEW S, IsFiniteSet(S), \A x \in S : f[x] = h[x]
  PROVE  Total(f, S) = Total(h, S)
  BY SumsAgree, TotalIs

LEMMA TotalEmpty == ASSUME NEW f PROVE Total(f, {}) = 0
<1>1. IsFiniteSet({})
  BY FS_EmptySet
<1>2. {} \in SUBSET {}
  OBVIOUS
<1>3. Summing(f, {})[{}] = Unfolded(Summing(f, {}), f, {})
  BY <1>1, <1>2, SummingAt
<1>4. Unfolded(Summing(f, {}), f, {}) = 0
  BY DEF Unfolded
<1> QED BY <1>3, <1>4, TotalIs

LEMMA TotalChosen ==
  ASSUME NEW f, NEW S, IsFiniteSet(S), S # {}
  PROVE  Chosen(S) \in S /\ Total(f, S) = f[Chosen(S)] + Total(f, S \ {Chosen(S)})
<1> DEFINE R == S \ {Chosen(S)}
<1>1. Chosen(S) \in S /\ IsFiniteSet(R) /\ R \in SUBSET (S \cap R)
  BY FS_Subset DEF Chosen
<1>2. Summing(f, S)[S] = f[Chosen(S)] + Summing(f, S)[R]
  <2>1. S \in SUBSET S
    OBVIOUS
  <2>2. Summing(f, S)[S] = Unfolded(Summing(f, S), f, S)
    BY <2>1, SummingAt
  <2> QED BY <2>2 DEF Unfolded
<1>3. Summing(f, S)[R] = Summing(f, R)[R]
  BY <1>1, SumsAgree
<1> HIDE DEF R
<1>4. Total(f, S) = f[Chosen(S)] + Total(f, R)
  BY <1>2, <1>3, TotalIs
<1> QED BY <1>1, <1>4 DEF R

LEMMA TotalType ==
  ASSUME NEW f, NEW S, IsFiniteSet(S), \A x \in S : f[x] \in Int
  PROVE  Total(f, S) \in Int
<1> DEFINE Good == {s \in SUBSET S : Total(f, s) \in Int}
<1>1. ASSUME NEW s \in SUBSET S, \A x \in s : s \ {x} \in Good PROVE s \in Good
  <2>1. CASE s = {}
    BY <2>1, TotalEmpty
  <2>2. CASE s # {}
    <3>1. Chosen(s) \in s /\ Total(f, s) = f[Chosen(s)] + Total(f, s \ {Chosen(s)})
      BY <2>2, TotalChosen, FS_Subset
    <3>2. Total(f, s \ {Chosen(s)}) \in Int /\ f[Chosen(s)] \in Int
      BY <1>1, <3>1
    <3> QED BY <3>1, <3>2
  <2> QED BY <2>1, <2>2
<1> HIDE DEF Good
<1>2. SUBSET S \subseteq Good
  BY <1>1, OverSubsets
<1> QED BY <1>2 DEF Good

(* Any element may be taken out.                                           *)
LEMMA TotalWithout ==
  ASSUME NEW f, NEW S, IsFiniteSet(S), \A x \in S : f[x] \in Int, NEW e \in S
  PROVE  Total(f, S) = f[e] + Total(f, S \ {e})
<1> DEFINE Good == {s \in SUBSET S : \A x \in s : Total(f, s) = f[x] + Total(f, s \ {x})}
<1>1. ASSUME NEW s \in SUBSET S, \A x \in s : s \ {x} \in Good PROVE s \in Good
  <2> SUFFICES ASSUME NEW x \in s PROVE Total(f, s) = f[x] + Total(f, s \ {x})
    OBVIOUS
  <2> DEFINE y == Chosen(s)
  <2>0. IsFiniteSet(s) /\ IsFiniteSet(s \ {x}) /\ IsFiniteSet(s \ {y}) /\ IsFiniteSet((s \ {y}) \ {x})
    BY FS_Subset
  <2>1. y \in s /\ Total(f, s) = f[y] + Total(f, s \ {y})
    BY <2>0, TotalChosen
  <2>2. CASE x = y
    BY <2>1, <2>2
  <2>3. CASE x # y
    <3>1. Total(f, s \ {y}) = f[x] + Total(f, (s \ {y}) \ {x})
      BY <1>1, <2>1, <2>3
    <3>2. Total(f, s \ {x}) = f[y] + Total(f, (s \ {x}) \ {y})
      BY <1>1, <2>1, <2>3
    <3>3. (s \ {x}) \ {y} = (s \ {y}) \ {x}
      OBVIOUS
    <3>4. Total(f, (s \ {y}) \ {x}) \in Int /\ f[x] \in Int /\ f[y] \in Int
      BY <2>0, <2>1, TotalType
    <3> DEFINE rest == Total(f, (s \ {y}) \ {x})
    <3>5. /\ Total(f, s) = f[y] + (f[x] + rest)
          /\ Total(f, s \ {x}) = f[y] + rest
      BY <2>1, <3>1, <3>2, <3>3
    <3>6. rest \in Int /\ f[x] \in Int /\ f[y] \in Int
      BY <3>4
    <3> HIDE DEF y, rest, Good
    <3> QED BY <3>5, <3>6
  <2> QED BY <2>2, <2>3
<1> HIDE DEF Good
<1>2. SUBSET S \subseteq Good
  BY <1>1, OverSubsets
<1>3. S \in Good
  BY <1>2
<1> QED BY <1>3 DEF Good

LEMMA TotalWith ==
  ASSUME NEW f, NEW S, IsFiniteSet(S), \A x \in S : f[x] \in Int, NEW e, e \notin S, f[e] \in Int
  PROVE  Total(f, S \cup {e}) = Total(f, S) + f[e]
<1>1. IsFiniteSet(S \cup {e}) /\ (S \cup {e}) \ {e} = S
  BY FS_AddElement
<1>2. Total(f, S \cup {e}) = f[e] + Total(f, S)
  BY <1>1, TotalWithout
<1> QED BY <1>2, TotalType

(* One value is changed.                                                   *)
LEMMA TotalChanged ==
  ASSUME NEW f, NEW h, NEW S, IsFiniteSet(S), NEW e \in S,
         \A x \in S : f[x] \in Int /\ h[x] \in Int, \A x \in S \ {e} : h[x] = f[x]
  PROVE  Total(h, S) = Total(f, S) + (h[e] - f[e])
<1>1. IsFiniteSet(S \ {e}) /\ \A x \in S \ {e} : f[x] \in Int
  BY FS_Subset
<1>2. Total(f, S) = f[e] + Total(f, S \ {e}) /\ Total(h, S) = h[e] + Total(h, S \ {e})
  BY TotalWithout
<1>3. Total(h, S \ {e}) = Total(f, S \ {e}) /\ Total(f, S \ {e}) \in Int
  BY <1>1, TotalSame, TotalType
<1> QED BY <1>2, <1>3

(* A sum of natural numbers is one, and no less than any of them.          *)
LEMMA TotalBounds ==
  ASSUME NEW f, NEW S, IsFiniteSet(S), \A x \in S : f[x] \in Nat
  PROVE  Total(f, S) \in Nat /\ \A x \in S : f[x] <= Total(f, S)
<1> DEFINE Good == {s \in SUBSET S : Total(f, s) \in Nat}
<1>1. ASSUME NEW s \in SUBSET S, \A x \in s : s \ {x} \in Good PROVE s \in Good
  <2>1. CASE s = {}
    BY <2>1, TotalEmpty
  <2>2. CASE s # {}
    <3>1. Chosen(s) \in s /\ Total(f, s) = f[Chosen(s)] + Total(f, s \ {Chosen(s)})
      BY <2>2, TotalChosen, FS_Subset
    <3>2. Total(f, s \ {Chosen(s)}) \in Nat /\ f[Chosen(s)] \in Nat
      BY <1>1, <3>1
    <3> QED BY <3>1, <3>2
  <2> QED BY <2>1, <2>2
<1>2. SUBSET S \subseteq Good
  <2> HIDE DEF Good
  <2> QED BY <1>1, OverSubsets
<1>3. Total(f, S) \in Nat
  BY <1>2
<1>4. ASSUME NEW x \in S PROVE f[x] <= Total(f, S)
  <2>1. Total(f, S \ {x}) \in Nat
    BY <1>2
  <2>2. Total(f, S) = f[x] + Total(f, S \ {x})
    BY TotalWithout
  <2> QED BY <2>1, <2>2
<1> QED BY <1>3, <1>4

LEMMA TotalOfNothing ==
  ASSUME NEW f, NEW S, IsFiniteSet(S), \A x \in S : f[x] = 0
  PROVE  Total(f, S) = 0
<1> DEFINE Zeros == {s \in SUBSET S : Total(f, s) = 0}
<1>1. ASSUME NEW s \in SUBSET S, \A x \in s : s \ {x} \in Zeros PROVE s \in Zeros
  <2>1. CASE s = {}
    BY <2>1, TotalEmpty
  <2>2. CASE s # {}
    <3>1. Chosen(s) \in s /\ Total(f, s) = f[Chosen(s)] + Total(f, s \ {Chosen(s)})
      BY <2>2, TotalChosen, FS_Subset
    <3>2. Total(f, s \ {Chosen(s)}) = 0 /\ f[Chosen(s)] = 0
      BY <1>1, <3>1
    <3> QED BY <3>1, <3>2
  <2> QED BY <2>1, <2>2
<1>2. SUBSET S \subseteq Zeros
  <2> HIDE DEF Zeros
  <2> QED BY <1>1, OverSubsets
<1> QED BY <1>2
=============================================================================
