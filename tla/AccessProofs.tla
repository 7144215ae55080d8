----------------------------- MODULE AccessProofs -----------------------------
(***************************************************************************)
(* Members and lists agree, no rule outlives what it names, and listings   *)
(* show what may be used, for any objects, rules and numbers of requests.  *)
(*                                                                         *)
(* What makes it inductive is which containers list an object at each step *)
(* of the request about it, that nobody else works on the object or takes  *)
(* the container away meanwhile, and that a datastore that is still being  *)
(* made, and may be dropped again, can have no image.                      *)
(***************************************************************************)
EXTENDS Access, TLAPS

Careful  == {"SAME_OBJECT", "CONTAINER_DELETED"} \cap Rash = {}
RulesToo == Careful /\ "RULE_FOR_DELETED" \notin Rash

-----------------------------------------------------------------------------
(* The inductive invariant *)

ListedBy(o) == {k \in Container : o \in members[k]}
Lists(c)    == IF c.step \in {"JOIN", "BACK"} THEN {c.from} \ {Nowhere}
               ELSE IF c.step = "LEAVE" THEN {c.from, c.to} \ {Nowhere} ELSE {}

(* What a request is about, and how far it is.                             *)
MoveFits(c) ==
  /\ c.step \in {"JOIN", "LEAVE", "BACK"} /\ c.obj \in Clusterables
  /\ c.step \in {"JOIN", "BACK"} => c.to # Nowhere
  /\ c.step = "LEAVE" => c.from # Nowhere
ChgrpFits(c) ==
  /\ c.step \in {"JOIN", "LEAVE"} /\ c.obj \in User /\ c.to # Nowhere
  /\ c.step = "LEAVE" => c.from # Nowhere
AllocateFits(c) ==
  /\ c.step \in {"JOIN", "DROP"} /\ c.from = Nowhere /\ c.to # Nowhere
  /\ c.step = "DROP" => c.obj \in Datastore /\ c.system
DeleteFits(c) ==
  /\ c.step \in {"LEAVE", "RULES"} /\ c.to = Nowhere
  /\ c.step = "LEAVE" => c.from # Nowhere
CallFits(c) ==
  /\ {c.to, c.from} \subseteq Homes(c.obj) \cup {Nowhere}
  /\ c.from # Nowhere => c.from # c.to
  /\ c.job = "MOVE"     => MoveFits(c)
  /\ c.job = "CHGRP"    => ChgrpFits(c)
  /\ c.job = "ALLOCATE" => AllocateFits(c) /\ c.obj \notin Reserved
  /\ c.job = "DELETE"   => DeleteFits(c) /\ life[c.obj] \in {"LEAVING", "GONE"}
  /\ c.job # "DELETE"   => Live(c.obj) /\ in[c.obj] = c.to
  /\ c.step = "JOIN" /\ c.job # "MOVE" => Live(c.to)

OneCall == \A c, d \in calls : c.obj = d.obj => c = d

(* Which containers list an object.                                        *)
ListsFit ==
  /\ \A c \in calls : ListedBy(c.obj) = Lists(c)
  /\ \A o \in Object : ~Busy(o) => ListedBy(o) = IF Live(o) THEN {in[o]} \ {Nowhere} ELSE {}
  /\ \A k \in Container : members[k] # {} => Live(k)
AtHome ==
  /\ \A o \in Object : in[o] \in Homes(o) \cup {Nowhere}
  /\ \A u \in User : Live(u) => in[u] # Nowhere

(* The system datastores of clusters; of a system datastore that is being  *)
(* made nobody makes an image.                                             *)
SystemListed == \A k \in Cluster :
  SystemDS \notin members[k] /\ (system_ds[k] = SystemDS \/ system_ds[k] \in members[k])
SystemAgrees == \A k \in Cluster : \A d \in members[k] \cap Datastore :
  \/ d \in systems <=> system_ds[k] = d
  \/ \E c \in calls : c.obj = d /\ c.step = "LEAVE" /\ c.to = Nowhere
JoinsKnow == \A c \in calls :
  c.step = "JOIN" /\ c.obj \in Datastore => (c.system <=> c.obj \in systems)
NewHasNone == \A c \in calls : c.job = "ALLOCATE" /\ c.system =>
  /\ c.obj \in systems
  /\ c.obj \in Datastore => members[c.obj] = {} /\ \A d \in calls : d.to # c.obj
SystemsFit == SystemListed /\ SystemAgrees /\ JoinsKnow /\ NewHasNone

(* What is there from the start stays.                                     *)
OldOnes == /\ \A o \in Reserved : life[o] = "LIVE"
           /\ \A d \in systems : life[d] # "NONE"

IInv ==
  /\ TypeOK /\ AtHome /\ OldOnes
  /\ \A c \in calls : CallFits(c)
  /\ OneCall /\ ListsFit /\ SystemsFit

(* The rules about an object go with it.                                   *)
RulesFit == \A o \in Object, r \in acl_rules : About(r, o) =>
  \/ Live(o) /\ \A c \in calls : c.obj = o => c.job # "ALLOCATE"
  \/ \E c \in calls : c.obj = o /\ c.job = "DELETE"
RulesInv == IInv /\ RulesFit
-----------------------------------------------------------------------------
(* Lemmas *)

(* The kinds of objects, and of the containers they are in.                *)
LEMMA Kinds ==
  /\ Nowhere \notin Object /\ Nowhere \notin Container /\ Container \subseteq Object
  /\ User \cap Container = {} /\ User \cap Clusterables = {} /\ Cluster \cap Clusterables = {}
  /\ Cluster \cap Datastore = {} /\ Cluster \cap Group = {} /\ Group \cap Clusterables = {}
  /\ Cluster \subseteq Container /\ Datastore \subseteq Container /\ Group \subseteq Container
  /\ Datastore \subseteq Clusterables /\ Network \subseteq Clusterables
  /\ Clusterables \subseteq Object /\ User \subseteq Object
  /\ \A o \in Object : Homes(o) \subseteq Container /\ Kind[o] \in {"USER", "IMAGE", "HOST", "NET", "DATASTORE", "GROUP", "CLUSTER"}
  /\ \A o \in Clusterables : Homes(o) = Cluster /\ Kind[o] \notin {"USER", "IMAGE"}
  /\ \A o \in User : Homes(o) = Group /\ Kind[o] = "USER"
  /\ \A o \in Object : Homeless(o) => Homes(o) = {} /\ o \notin Clusterables /\ o \notin User
  /\ \A o \in Object : Kind[o] = "IMAGE" => Homes(o) = Datastore /\ o \notin Container
  /\ \A o \in Object : o \in Container => Homeless(o) \/ o \in Datastore
  /\ \A o \in Object : o \in Clusterables \/ o \in User \/ Homeless(o) \/ Kind[o] = "IMAGE"
  /\ \A d \in Datastore : d \notin Cluster /\ Kind[d] = "DATASTORE"
<1>1. DOMAIN ContainerKind = {"USER", "IMAGE", "HOST", "NET", "DATASTORE"}
  BY DEF ContainerKind
<1>2. /\ ContainerKind["USER"] = "GROUP" /\ ContainerKind["IMAGE"] = "DATASTORE"
      /\ ContainerKind["HOST"] = "CLUSTER" /\ ContainerKind["NET"] = "CLUSTER"
      /\ ContainerKind["DATASTORE"] = "CLUSTER"
  BY DEF ContainerKind
<1>3. \A o \in Object : Kind[o] \in {"USER", "IMAGE", "HOST", "NET", "DATASTORE", "GROUP", "CLUSTER"}
  BY <1>1, AccessAssumption
<1> HIDE DEF ContainerKind
<1>4. Nowhere \notin Object
  BY AccessAssumption DEF Nowhere
<1>5. QED
  BY <1>2, <1>3, <1>4
  DEF Container, User, Clusterables, Cluster, Datastore, Group, Network, Of, Homes, Homeless

(* What the invariant says of a request.                                   *)
LEMMA CallTypes ==
  ASSUME IInv, NEW c \in calls
  PROVE  /\ c.job \in {"MOVE", "CHGRP", "ALLOCATE", "DELETE"}
         /\ c.step \in {"JOIN", "LEAVE", "BACK", "DROP", "RULES"}
         /\ c.obj \in Object /\ c.to \in Container \cup {Nowhere} /\ c.from \in Container \cup {Nowhere}
         /\ CallFits(c) /\ c.system \in BOOLEAN
         /\ ListedBy(c.obj) = Lists(c)
         /\ \A d \in calls : d.obj = c.obj => d = c
BY DEF IInv, TypeOK, OneCall, ListsFit, Calls

(* A new request, and one that goes on, has these fields.                  *)
LEMMA NewCall ==
  ASSUME NEW job, NEW step, NEW o, NEW to, NEW from
  PROVE  LET c == Call(job, step, o, to, from)
         IN  /\ c.job = job /\ c.step = step /\ c.obj = o /\ c.to = to /\ c.from = from
             /\ c.system = (o \in systems) /\ DOMAIN c = {"job", "step", "obj", "to", "from", "system"}
BY DEF Call
LEMMA GoesOn ==
  ASSUME IInv, NEW c \in calls, NEW st
  PROVE  LET e == [c EXCEPT !.step = st]
         IN  /\ e.job = c.job /\ e.step = st /\ e.obj = c.obj /\ e.to = c.to
             /\ e.from = c.from /\ e.system = c.system
             /\ st \in {"JOIN", "LEAVE", "BACK", "DROP", "RULES"} => e \in Calls
BY DEF IInv, TypeOK, Calls


-----------------------------------------------------------------------------
(* Steps *)

(* A request goes on fitting while others work.                            *)
LEMMA OtherCalls ==
  ASSUME IInv, NEW d \in calls, in'[d.obj] = in[d.obj], life'[d.obj] = life[d.obj],
         d.step = "JOIN" /\ d.job # "MOVE" /\ Live(d.to) => life'[d.to] = "LIVE"
  PROVE  CallFits(d)'
<1>1. CallFits(d)
  BY CallTypes
<1>2. Live(d.obj)' <=> Live(d.obj)
  BY DEF Live
<1>3. d.step = "JOIN" /\ d.job # "MOVE" /\ Live(d.to) => Live(d.to)'
  BY DEF Live
<1>4. /\ MoveFits(d)' <=> MoveFits(d)
      /\ ChgrpFits(d)' <=> ChgrpFits(d)
      /\ AllocateFits(d)' <=> AllocateFits(d)
      /\ DeleteFits(d)' <=> DeleteFits(d)
  BY DEF MoveFits, ChgrpFits, AllocateFits, DeleteFits
<1>5. QED BY <1>1, <1>2, <1>3, <1>4 DEF CallFits

LEMMA SetClusterKeeps ==
  ASSUME IInv, Careful, NEW o \in Object, NEW k \in Homes(o) \cup {Nowhere}, set_cluster(o, k)
  PROVE  IInv'
<1>0. PICK c : c = Call("MOVE", AfterSet(o, k), o, k, in[o])
  OBVIOUS
<1>1. /\ ~Busy(o) /\ Live(o) /\ o \in Clusterables /\ in[o] # k
      /\ k = Nowhere \/ Live(k)
      /\ in' = [in EXCEPT ![o] = k] /\ calls' = calls \cup {c}
      /\ UNCHANGED <<life, members, system_ds, systems, owned, acl_rules>>
  BY <1>0 DEF set_cluster, Starts, Undisturbed, Careful
<1>2. /\ c.job = "MOVE" /\ c.obj = o /\ c.to = k /\ c.from = in[o] /\ c.system = (o \in systems)
      /\ c.step = IF k = Nowhere THEN "LEAVE" ELSE "JOIN"
  BY <1>0, NewCall DEF AfterSet
<1>3. /\ in[o] \in Homes(o) \cup {Nowhere} /\ Homes(o) = Cluster /\ Homes(o) \subseteq Container
      /\ o \notin User /\ Nowhere \notin Object
  BY <1>1, Kinds DEF IInv, AtHome
<1>4. TypeOK'
  <2>1. c \in Calls
    BY <1>0, <1>2, <1>3 DEF Call, AfterSet, Calls
  <2>2. QED BY <2>1, <1>1, <1>3, Kinds DEF IInv, TypeOK
<1>5. AtHome'
  BY <1>1, <1>3, Kinds DEF IInv, TypeOK, AtHome, Live
<1>6. ASSUME NEW d \in calls PROVE d.obj # o /\ d # c
  BY <1>1, <1>2 DEF Busy
<1>7. ASSUME NEW d \in calls' PROVE CallFits(d)'
  <2>1. CASE d = c
    <3>1. in'[o] = k /\ life'[o] = "LIVE"
      BY <1>1 DEF Live, IInv, TypeOK
    <3>2. {c.to, c.from} \subseteq Homes(c.obj) \cup {Nowhere}
      BY <1>2, <1>3
    <3>3. MoveFits(c)'
      BY <1>1, <1>2 DEF MoveFits
    <3>4. QED BY <2>1, <3>1, <3>2, <3>3, <1>1, <1>2, <1>3 DEF CallFits, Live
  <2>2. CASE d # c
    <3>1. d \in calls /\ d.obj # o /\ d.obj \in Object
      BY <2>2, <1>1, <1>6, CallTypes
    <3>2. in'[d.obj] = in[d.obj]
      BY <3>1, <1>1 DEF IInv, TypeOK
    <3>3. QED BY <3>1, <3>2, <1>1, OtherCalls DEF Live
  <2>3. QED BY <2>1, <2>2
<1>8. OneCall'
  BY <1>1, <1>2, <1>6 DEF IInv, OneCall
<1>9. ListsFit'
  <2>1. ListedBy(o) = {in[o]} \ {Nowhere}
    BY <1>1 DEF IInv, ListsFit
  <2>2. Lists(c) = {in[o]} \ {Nowhere}
    BY <1>2 DEF Lists
  <2>3. QED BY <2>1, <2>2, <1>1, <1>2, <1>3, <1>6 DEF IInv, ListsFit, ListedBy, Busy, Live, Lists
<1>10. SystemsFit'
  <2>1. SystemListed'
    BY <1>1 DEF IInv, SystemsFit, SystemListed
  <2>2. SystemAgrees'
    BY <1>1 DEF IInv, SystemsFit, SystemAgrees
  <2>3. JoinsKnow'
    BY <1>1, <1>2 DEF IInv, SystemsFit, JoinsKnow
  <2>4. NewHasNone'
    BY <1>1, <1>2, <1>3, Kinds DEF IInv, SystemsFit, NewHasNone
  <2>5. QED BY <2>1, <2>2, <2>3, <2>4 DEF SystemsFit
<1>11. OldOnes'
  BY <1>1 DEF IInv, OldOnes
<1>12. QED BY <1>4, <1>5, <1>7, <1>8, <1>9, <1>10, <1>11 DEF IInv

LEMMA SetGroupKeeps ==
  ASSUME IInv, Careful, NEW u \in Object, NEW g \in Homes(u) \cup {Nowhere}, set_group(u, g)
  PROVE  IInv'
<1>0. PICK c : c = Call("CHGRP", "JOIN", u, g, in[u])
  OBVIOUS
<1>1. /\ ~Busy(u) /\ Live(u) /\ u \in User /\ Live(g) /\ in[u] # g
      /\ in' = [in EXCEPT ![u] = g] /\ calls' = calls \cup {c}
      /\ UNCHANGED <<life, members, system_ds, systems, owned, acl_rules>>
  BY <1>0 DEF set_group, Starts, Undisturbed, Careful
<1>2. /\ c.job = "CHGRP" /\ c.obj = u /\ c.to = g /\ c.from = in[u] /\ c.step = "JOIN"
  BY <1>0, NewCall
<1>3. /\ in[u] \in Group /\ g \in Group /\ Homes(u) = Group /\ Group \subseteq Container
      /\ u \notin Clusterables /\ Nowhere \notin Object /\ u \notin Datastore
      /\ g # Nowhere /\ g \notin Datastore /\ in[u] # Nowhere
  BY <1>1, Kinds DEF IInv, AtHome, Live
<1>4. TypeOK'
  <2>1. c \in Calls
    BY <1>0, <1>2, <1>3 DEF Call, Calls
  <2>2. QED BY <2>1, <1>1, <1>3, Kinds DEF IInv, TypeOK
<1>5. AtHome'
  BY <1>1, <1>3, Kinds DEF IInv, TypeOK, AtHome, Live
<1>6. ASSUME NEW d \in calls PROVE d.obj # u /\ d # c
  BY <1>1, <1>2 DEF Busy
<1>7. ASSUME NEW d \in calls' PROVE CallFits(d)'
  <2>1. CASE d = c
    <3>1. in'[u] = g /\ life'[u] = "LIVE" /\ life'[g] = "LIVE"
      BY <1>1 DEF Live, IInv, TypeOK
    <3>2. {c.to, c.from} \subseteq Homes(c.obj) \cup {Nowhere}
      BY <1>2, <1>3
    <3>3. ChgrpFits(c)
      BY <1>1, <1>2, <1>3 DEF ChgrpFits
    <3>4. QED BY <2>1, <3>1, <3>2, <3>3, <1>1, <1>2, <1>3 DEF CallFits, Live
  <2>2. CASE d # c
    <3>1. d \in calls /\ d.obj # u /\ d.obj \in Object
      BY <2>2, <1>1, <1>6, CallTypes
    <3>2. in'[d.obj] = in[d.obj]
      BY <3>1, <1>1 DEF IInv, TypeOK
    <3>3. QED BY <3>1, <3>2, <1>1, OtherCalls DEF Live
  <2>3. QED BY <2>1, <2>2
<1>8. OneCall'
  BY <1>1, <1>2, <1>6 DEF IInv, OneCall
<1>9. ListsFit'
  <2>1. ListedBy(u) = {in[u]}
    BY <1>1, <1>3 DEF IInv, ListsFit
  <2>2. Lists(c) = {in[u]}
    BY <1>2, <1>3 DEF Lists
  <2>3. QED BY <2>1, <2>2, <1>1, <1>2, <1>3, <1>6 DEF IInv, ListsFit, ListedBy, Busy, Live, Lists
<1>10. SystemsFit'
  <2>1. SystemListed'
    BY <1>1 DEF IInv, SystemsFit, SystemListed
  <2>2. SystemAgrees'
    BY <1>1 DEF IInv, SystemsFit, SystemAgrees
  <2>3. JoinsKnow'
    BY <1>1, <1>2, <1>3 DEF IInv, SystemsFit, JoinsKnow
  <2>4. NewHasNone'
    BY <1>1, <1>2, <1>3, Kinds DEF IInv, SystemsFit, NewHasNone
  <2>5. QED BY <2>1, <2>2, <2>3, <2>4 DEF SystemsFit
<1>11. OldOnes'
  BY <1>1 DEF IInv, OldOnes
<1>12. QED BY <1>4, <1>5, <1>7, <1>8, <1>9, <1>10, <1>11 DEF IInv

(* What leaves members, requests and lives alone.                          *)
LEMMA SmallSteps ==
  ASSUME IInv, [\/ \E d \in Object : set_type(d) \/ chown(d) \/ chmod(d) \/ rm_action(d)
                \/ \E r \in AclRules : add_rule(r)
                \/ \E r \in acl_rules : del_rule(r)]_vars
  PROVE  IInv'
<1>1. CASE \E d \in Object : set_type(d)
  <2>1. PICK d \in Object : set_type(d)
    BY <1>1
  <2>2. /\ Live(d) /\ d \in Datastore \ {SystemDS} /\ in[d] = Nowhere
        /\ UNCHANGED <<life, in, members, system_ds, owned, acl_rules, calls>>
        /\ systems' \in SUBSET Datastore /\ \A e : e # d => (e \in systems' <=> e \in systems)
    BY <2>1 DEF set_type, IInv, TypeOK
  <2>3. TypeOK' /\ AtHome' /\ OneCall' /\ ListsFit' /\ \A c \in calls' : CallFits(c)'
    <3>1. TypeOK' /\ AtHome' /\ OneCall'
      BY <2>2 DEF IInv, TypeOK, AtHome, OneCall, Live
    <3>2. ListsFit'
      BY <2>2 DEF IInv, ListsFit, ListedBy, Lists, Busy, Live
    <3>3. \A c \in calls' : CallFits(c)'
      BY <2>2, OtherCalls DEF Live
    <3>4. QED BY <3>1, <3>2, <3>3
  <2>4. ASSUME NEW c \in calls, c.obj = d
        PROVE  c.step # "JOIN" /\ c.job # "ALLOCATE" /\ c.to = Nowhere
    <3>1. c.job # "DELETE"
      BY <2>2, <2>4, CallTypes DEF CallFits, Live
    <3>2. c.to = Nowhere
      BY <2>2, <2>4, <3>1, CallTypes DEF CallFits
    <3>3. QED BY <3>1, <3>2, CallTypes DEF CallFits, MoveFits, ChgrpFits, AllocateFits
  <2>5. SystemListed' /\ JoinsKnow' /\ NewHasNone'
    BY <2>2, <2>4 DEF IInv, SystemsFit, SystemListed, JoinsKnow, NewHasNone
  <2>6. SystemAgrees'
    <3>1. ASSUME NEW k \in Cluster, NEW e \in members[k] \cap Datastore
          PROVE  (e \in systems' <=> system_ds[k] = e) \/ \E c \in calls : c.obj = e /\ c.step = "LEAVE" /\ c.to = Nowhere
      <4>1. CASE e # d
        BY <4>1, <2>2 DEF IInv, SystemsFit, SystemAgrees
      <4>2. CASE e = d
        <5>1. k \in ListedBy(d) /\ d \in Object /\ Nowhere \notin Object
          BY <4>2, Kinds DEF ListedBy
        <5>2. Busy(d)
          BY <5>1, <2>2 DEF IInv, ListsFit
        <5>3. PICK c \in calls : c.obj = d
          BY <5>2 DEF Busy
        <5>4. Lists(c) # {} /\ c.to = Nowhere /\ c.job # "DELETE"
          BY <5>1, <5>3, <2>2, <2>4, CallTypes DEF CallFits, Live
        <5>5. c.step = "LEAVE"
          BY <5>3, <5>4, <2>4, CallTypes DEF Lists, CallFits, MoveFits, ChgrpFits, AllocateFits
        <5>6. QED BY <4>2, <5>3, <5>4, <5>5
      <4>3. QED BY <4>1, <4>2
    <3>2. QED BY <3>1, <2>2 DEF SystemAgrees
  <2>7. OldOnes'
    BY <2>2 DEF IInv, OldOnes, Live
  <2>8. QED BY <2>3, <2>5, <2>6, <2>7 DEF IInv, SystemsFit
<1>2. CASE \E n \in Object : chown(n) \/ chmod(n)
  <2>1. PICK n \in Object : chown(n) \/ chmod(n)
    BY <1>2
  <2>2. owned' \in [Network -> [uid : User, gid : Group, bits : Grants]]
    BY <2>1, AccessAssumption DEF chown, chmod, IInv, TypeOK
  <2>3. UNCHANGED <<life, in, members, system_ds, systems, acl_rules, calls>>
    BY <2>1 DEF chown, chmod
  <2>4. QED
    BY <2>2, <2>3, OtherCalls
    DEF IInv, TypeOK, AtHome, OldOnes, OneCall, ListsFit, ListedBy, Lists, Busy, Live,
        SystemsFit, SystemListed, SystemAgrees, JoinsKnow, NewHasNone
<1>3. CASE \E o \in Object : rm_action(o)
  <2>1. PICK o \in Object : rm_action(o)
    BY <1>3
  <2>2. /\ life[o] = "LEAVING" /\ life' = [life EXCEPT ![o] = "GONE"]
        /\ UNCHANGED <<in, members, system_ds, systems, owned, acl_rules, calls>>
    BY <2>1 DEF rm_action
  <2>3. life' \in [Object -> {"NONE", "LIVE", "LEAVING", "GONE"}] /\ \A p \in Object : Live(p)' <=> Live(p)
    BY <2>2 DEF IInv, TypeOK, Live
  <2>4. ASSUME NEW c \in calls PROVE CallFits(c)'
    <3>1. CallFits(c) /\ c.obj \in Object /\ c.to \in Object \cup {Nowhere}
      BY CallTypes, Kinds
    <3>2. (Live(c.obj)' <=> Live(c.obj)) /\ (c.to # Nowhere => (Live(c.to)' <=> Live(c.to)))
      BY <3>1, <2>3
    <3>3. life[c.obj] \in {"LEAVING", "GONE"} => life'[c.obj] \in {"LEAVING", "GONE"}
      BY <3>1, <2>2 DEF IInv, TypeOK
    <3>4. Live(c.to) => Live(c.to)'
      BY <3>2 DEF Live
    <3>5. QED BY <3>1, <3>2, <3>3, <3>4, <2>2 DEF CallFits, MoveFits, ChgrpFits, AllocateFits, DeleteFits
  <2>5. TypeOK' /\ AtHome' /\ OneCall'
    BY <2>2, <2>3, Kinds DEF IInv, TypeOK, AtHome, OneCall
  <2>6. ListsFit'
    BY <2>2, <2>3, Kinds DEF IInv, ListsFit, ListedBy, Lists, Busy
  <2>7. SystemsFit'
    BY <2>2 DEF IInv, SystemsFit, SystemListed, SystemAgrees, JoinsKnow, NewHasNone
  <2>8. OldOnes'
    BY <2>2, AccessAssumption, Kinds DEF IInv, OldOnes, TypeOK
  <2>9. QED BY <2>2, <2>4, <2>5, <2>6, <2>7, <2>8 DEF IInv
<1>4. CASE \/ \E r \in AclRules : add_rule(r)
           \/ \E r \in acl_rules : del_rule(r)
           \/ UNCHANGED vars
  <2>1. UNCHANGED <<life, in, members, system_ds, systems, owned, calls>> /\ acl_rules' \subseteq AclRules
    BY <1>4 DEF add_rule, del_rule, vars, IInv, TypeOK
  <2>2. TypeOK' /\ AtHome' /\ OneCall'
    BY <2>1 DEF IInv, TypeOK, AtHome, OneCall, Live
  <2>3. ListsFit'
    BY <2>1 DEF IInv, ListsFit, ListedBy, Lists, Busy, Live
  <2>4. \A c \in calls' : CallFits(c)'
    BY <2>1, OtherCalls DEF Live
  <2>5. SystemsFit'
    BY <2>1 DEF IInv, SystemsFit, SystemListed, SystemAgrees, JoinsKnow, NewHasNone
  <2>6. OldOnes'
    BY <2>1 DEF IInv, OldOnes
  <2>7. QED BY <2>2, <2>3, <2>4, <2>5, <2>6 DEF IInv
<1>5. QED BY <1>1, <1>2, <1>3, <1>4

LEMMA DeleteKeeps ==
  ASSUME IInv, Careful, NEW o \in Object, delete(o)
  PROVE  IInv'
<1>0. PICK c : c = Call("DELETE", AfterDrop(o), o, Nowhere, in[o])
  OBVIOUS
<1>1. /\ ~Busy(o) /\ Live(o) /\ o \notin Reserved /\ (o \in Container => members[o] = {})
      /\ ~Awaited(o) /\ calls' = calls \cup {c}
      /\ UNCHANGED <<in, members, system_ds, systems, owned, acl_rules>>
  BY <1>0 DEF delete, Starts, Undisturbed, Careful, CanDrop
<1>2. PICK l \in {"LEAVING", "GONE"} : life' = [life EXCEPT ![o] = l]
  BY DEF delete
<1>3. /\ c.job = "DELETE" /\ c.obj = o /\ c.to = Nowhere /\ c.from = in[o]
      /\ c.step = IF in[o] = Nowhere THEN "RULES" ELSE "LEAVE"
  BY <1>0, NewCall DEF AfterDrop
<1>4. /\ in[o] \in Homes(o) \cup {Nowhere} /\ in[o] \in Container \cup {Nowhere}
      /\ Nowhere \notin Object /\ Container \subseteq Object
  BY Kinds DEF IInv, AtHome
<1>5. \A p \in Object : life'[p] = IF p = o THEN l ELSE life[p]
  BY <1>2 DEF IInv, TypeOK
<1>6. TypeOK'
  <2>1. c \in Calls
    BY <1>0, <1>3, <1>4 DEF Call, Calls, AfterDrop
  <2>2. QED BY <2>1, <1>1, <1>2 DEF IInv, TypeOK
<1>7. AtHome'
  BY <1>1, <1>5, Kinds DEF IInv, AtHome, Live
<1>8. ASSUME NEW d \in calls PROVE d.obj # o /\ d # c
  BY <1>1, <1>3 DEF Busy
<1>9. ASSUME NEW d \in calls' PROVE CallFits(d)'
  <2>1. CASE d = c
    <3>1. life'[c.obj] \in {"LEAVING", "GONE"}
      BY <1>3, <1>5
    <3>2. {c.to, c.from} \subseteq Homes(c.obj) \cup {Nowhere}
      BY <1>3, <1>4
    <3>3. DeleteFits(c)
      BY <1>3 DEF DeleteFits
    <3>4. QED BY <2>1, <3>1, <3>2, <3>3, <1>1, <1>3, <1>4 DEF CallFits
  <2>2. CASE d # c
    <3>1. d \in calls /\ d.obj # o /\ d.obj \in Object
      BY <2>2, <1>1, <1>8, CallTypes
    <3>2. life'[d.obj] = life[d.obj] /\ in'[d.obj] = in[d.obj]
      BY <3>1, <1>1, <1>5
    <3>3. d.step = "JOIN" /\ d.job # "MOVE" /\ Live(d.to) => life'[d.to] = "LIVE"
      BY <3>1, <1>1, <1>4, <1>5, CallTypes DEF Awaited, Live
    <3>4. QED BY <3>1, <3>2, <3>3, OtherCalls
  <2>3. QED BY <2>1, <2>2
<1>10. OneCall'
  BY <1>1, <1>3, <1>8 DEF IInv, OneCall
<1>11. ListsFit'
  <2>1. ListedBy(o) = {in[o]} \ {Nowhere}
    BY <1>1 DEF IInv, ListsFit
  <2>2. Lists(c) = {in[o]} \ {Nowhere}
    BY <1>3 DEF Lists
  <2>3. \A d \in calls' : ListedBy(d.obj) = Lists(d)
    BY <2>1, <2>2, <1>1, <1>3 DEF IInv, ListsFit
  <2>4. \A p \in Object \ {o} : ~Busy(p)' => ListedBy(p) = IF Live(p)' THEN {in[p]} \ {Nowhere} ELSE {}
    BY <1>1, <1>5 DEF IInv, ListsFit, Busy, Live
  <2>5. Busy(o)'
    BY <1>1, <1>3 DEF Busy
  <2>6. \A k \in Container : members[k] # {} => Live(k)'
    BY <1>1, <1>4, <1>5 DEF IInv, ListsFit, Live
  <2>7. QED BY <2>3, <2>4, <2>5, <2>6, <1>1 DEF ListsFit, ListedBy, Lists
<1>12. SystemsFit'
  <2>1. SystemListed'
    BY <1>1 DEF IInv, SystemsFit, SystemListed
  <2>2. SystemAgrees'
    BY <1>1 DEF IInv, SystemsFit, SystemAgrees
  <2>3. JoinsKnow'
    BY <1>1, <1>3 DEF IInv, SystemsFit, JoinsKnow
  <2>4. NewHasNone'
    BY <1>1, <1>3, <1>4, Kinds DEF IInv, SystemsFit, NewHasNone
  <2>5. QED BY <2>1, <2>2, <2>3, <2>4 DEF SystemsFit
<1>13. OldOnes'
  BY <1>1, <1>5, AccessAssumption, Kinds DEF IInv, OldOnes, TypeOK
<1>14. QED BY <1>6, <1>7, <1>9, <1>10, <1>11, <1>12, <1>13 DEF IInv

(* What is not there yet nobody knows of.                                  *)
LEMMA Unknown ==
  ASSUME IInv, NEW o \in Object, life[o] = "NONE"
  PROVE  /\ ~Busy(o) /\ ~Live(o) /\ ListedBy(o) = {}
         /\ o \in Container => members[o] = {}
         /\ o \in Datastore => \A d \in calls : d.to # o
<1>1. ~Busy(o) /\ ~Live(o)
  BY CallTypes DEF Busy, CallFits, Live
<1>2. ListedBy(o) = {} /\ (o \in Container => members[o] = {})
  BY <1>1 DEF IInv, ListsFit
<1>3. ASSUME o \in Datastore, NEW d \in calls PROVE d.to # o
  <2>1. SUFFICES ASSUME d.to = o PROVE FALSE
    OBVIOUS
  <2>2. o \in Object /\ Nowhere \notin Object /\ o \notin Cluster /\ o \notin Group
    BY <1>3, Kinds DEF Datastore, Cluster, Group, Of
  <2>3. o \in Homes(d.obj) /\ d.obj \in Object
    BY <2>1, <2>2, CallTypes DEF CallFits
  <2>4. d.job = "ALLOCATE"
    BY <2>1, <2>2, <2>3, CallTypes, Kinds DEF CallFits, MoveFits, ChgrpFits, DeleteFits
  <2>5. d.step = "JOIN"
    BY <2>2, <2>3, <2>4, CallTypes, Kinds DEF CallFits, AllocateFits
  <2>6. QED BY <1>1, <2>1, <2>4, <2>5, CallTypes DEF CallFits
<1>4. QED BY <1>1, <1>2, <1>3

LEMMA AllocateKeeps ==
  ASSUME IInv, Careful, NEW o \in Object, allocate(o)
  PROVE  IInv'
<1>1. PICK k \in Homes(o) \cup {Nowhere}, isSystem \in BOOLEAN :
        /\ k = Nowhere => Homeless(o) \/ o \in Clusterables
        /\ k # Nowhere => Live(k)
        /\ Kind[o] = "IMAGE" => k \notin systems
        /\ isSystem => Kind[o] = "DATASTORE"
        /\ in' = [in EXCEPT ![o] = k]
        /\ systems' = IF isSystem THEN systems \cup {o} ELSE systems
        /\ IF k = Nowhere THEN UNCHANGED calls
           ELSE Starts([Call("ALLOCATE", "JOIN", o, k, Nowhere) EXCEPT !.system = isSystem])
  BY DEF allocate
<1>2. PICK c : c = [Call("ALLOCATE", "JOIN", o, k, Nowhere) EXCEPT !.system = isSystem]
  OBVIOUS
<1>3. /\ calls' = IF k = Nowhere THEN calls ELSE calls \cup {c}
      /\ life[o] = "NONE" /\ life' = [life EXCEPT ![o] = "LIVE"]
      /\ UNCHANGED <<members, system_ds, acl_rules>>
  BY <1>1, <1>2 DEF allocate, Starts
<1>4. /\ c.job = "ALLOCATE" /\ c.obj = o /\ c.to = k /\ c.from = Nowhere /\ c.step = "JOIN"
      /\ c.system = isSystem
  BY <1>2 DEF Call
<1>5. /\ ~Busy(o) /\ ~Live(o) /\ ListedBy(o) = {} /\ (o \in Container => members[o] = {})
      /\ (o \in Datastore => \A d \in calls : d.to # o)
  BY <1>3, Unknown
<1>6. /\ k \in Homes(o) \cup {Nowhere} /\ k \in Container \cup {Nowhere}
      /\ Nowhere \notin Object /\ Container \subseteq Object /\ k # o
  BY Kinds, <1>1, <1>5
<1>7. /\ \A p \in Object : life'[p] = IF p = o THEN "LIVE" ELSE life[p]
      /\ \A p \in Object : in'[p] = IF p = o THEN k ELSE in[p]
      /\ \A p : p # o => (p \in systems' <=> p \in systems)
      /\ isSystem <=> (o \in systems' /\ isSystem)
  BY <1>1, <1>3 DEF IInv, TypeOK
<1>8. TypeOK'
  <2>1. c \in Calls
    BY <1>2, <1>6 DEF Call, Calls
  <2>2. owned' \in [Network -> [uid : User, gid : Group, bits : Grants]]
    <3>1. CASE o \notin Network
      BY <3>1 DEF allocate, IInv, TypeOK
    <3>2. CASE o \in Network
      <4>1. PICK u \in User, b \in Bits : Live(u) /\ owned' = [owned EXCEPT ![o] = [uid |-> u, gid |-> in[u], bits |-> b]]
        BY <3>2 DEF allocate
      <4>2. in[u] \in Group /\ b \in Grants
        BY <4>1, Kinds, AccessAssumption DEF IInv, AtHome
      <4>3. QED BY <4>1, <4>2 DEF IInv, TypeOK
    <3>3. QED BY <3>1, <3>2
  <2>3. systems' \subseteq Datastore
    BY <1>1 DEF IInv, TypeOK, Datastore, Of
  <2>4. life' \in [Object -> {"NONE", "LIVE", "LEAVING", "GONE"}] /\ in' \in [Object -> Container \cup {Nowhere}]
    BY <1>1, <1>3, <1>6 DEF IInv, TypeOK
  <2>5. calls' \subseteq Calls
    BY <2>1, <1>3 DEF IInv, TypeOK
  <2>6. QED BY <2>2, <2>3, <2>4, <2>5, <1>3 DEF IInv, TypeOK
<1>9. AtHome'
  <2>1. o \in User => k # Nowhere
    BY <1>1, Kinds
  <2>2. QED BY <2>1, <1>1, <1>6, <1>7, Kinds DEF IInv, AtHome, Live
<1>10. ASSUME NEW d \in calls PROVE d.obj # o /\ d # c
  BY <1>4, <1>5 DEF Busy
<1>11. ASSUME NEW d \in calls' PROVE CallFits(d)'
  <2>1. CASE d \in calls
    <3>1. d.obj # o /\ d.obj \in Object /\ d.to \in Object \cup {Nowhere}
      BY <2>1, <1>6, <1>10, CallTypes
    <3>2. life'[d.obj] = life[d.obj] /\ in'[d.obj] = in[d.obj]
      BY <3>1, <1>7
    <3>3. d.step = "JOIN" /\ d.job # "MOVE" /\ Live(d.to) => life'[d.to] = "LIVE"
      BY <3>1, <1>6, <1>7 DEF Live
    <3>4. QED BY <2>1, <3>2, <3>3, OtherCalls
  <2>2. CASE d \notin calls
    <3>1. d = c /\ k # Nowhere
      BY <2>2, <1>3
    <3>2. life'[o] = "LIVE" /\ in'[o] = k /\ life'[k] = "LIVE"
      BY <3>1, <1>1, <1>6, <1>7 DEF Live
    <3>3. {c.to, c.from} \subseteq Homes(c.obj) \cup {Nowhere}
      BY <1>4, <1>6
    <3>4. AllocateFits(c)
      BY <1>4, <3>1 DEF AllocateFits
    <3>5. o \notin Reserved
      BY <1>3 DEF IInv, OldOnes
    <3>6. QED BY <3>1, <3>2, <3>3, <3>4, <3>5, <1>4, <1>6 DEF CallFits, Live
  <2>3. QED BY <2>1, <2>2
<1>12. OneCall'
  BY <1>3, <1>4, <1>10 DEF IInv, OneCall
<1>13. ListsFit'
  <2>1. Lists(c) = {}
    BY <1>4 DEF Lists
  <2>2. \A d \in calls' : ListedBy(d.obj) = Lists(d)
    BY <2>1, <1>3, <1>4, <1>5 DEF IInv, ListsFit
  <2>3. \A p \in Object \ {o} : ~Busy(p)' => ListedBy(p) = IF Live(p)' THEN {in'[p]} \ {Nowhere} ELSE {}
    BY <1>3, <1>7 DEF IInv, ListsFit, Busy, Live
  <2>4. k # Nowhere => Busy(o)'
    BY <1>3, <1>4 DEF Busy
  <2>5. \A q \in Container : members[q] # {} => Live(q)'
    BY <1>5, <1>6, <1>7 DEF IInv, ListsFit, Live
  <2>6. QED BY <2>2, <2>3, <2>4, <2>5, <1>3, <1>5, <1>7 DEF ListsFit, ListedBy, Lists
<1>14. SystemsFit'
  <2>1. SystemListed'
    BY <1>3 DEF IInv, SystemsFit, SystemListed
  <2>2. SystemAgrees'
    <3>1. ASSUME NEW q \in Cluster, NEW d \in members[q] \cap Datastore
          PROVE  (d \in systems' <=> system_ds[q] = d) \/ \E e \in calls' : e.obj = d /\ e.step = "LEAVE" /\ e.to = Nowhere
      <4>1. d # o
        BY <1>5, Kinds DEF ListedBy
      <4>2. QED BY <4>1, <1>3, <1>7 DEF IInv, SystemsFit, SystemAgrees
    <3>2. QED BY <3>1, <1>3 DEF SystemAgrees
  <2>3. JoinsKnow'
    <3>1. ASSUME NEW d \in calls', d.step = "JOIN", d.obj \in Datastore
          PROVE  d.system <=> d.obj \in systems'
      <4>1. CASE d \in calls
        BY <4>1, <3>1, <1>7, <1>10 DEF IInv, SystemsFit, JoinsKnow
      <4>2. CASE d \notin calls
        <5>1. d = c
          BY <4>2, <1>3
        <5>2. o \notin systems
          BY <1>3 DEF IInv, OldOnes
        <5>3. QED BY <5>1, <5>2, <1>1, <1>4
      <4>3. QED BY <4>1, <4>2
    <3>2. QED BY <3>1 DEF JoinsKnow
  <2>4. NewHasNone'
    <3>1. ASSUME NEW d \in calls', d.job = "ALLOCATE", d.system
          PROVE  d.obj \in systems' /\ (d.obj \in Datastore => members[d.obj] = {} /\ \A e \in calls' : e.to # d.obj)
      <4>1. CASE d \in calls
        <5>1. d.obj \in systems /\ (d.obj \in Datastore => members[d.obj] = {} /\ \A e \in calls : e.to # d.obj)
          BY <4>1, <3>1 DEF IInv, SystemsFit, NewHasNone
        <5>2. d.obj \in Datastore => k # d.obj
          BY <5>1, <1>1, <1>6, Kinds
        <5>3. QED BY <5>1, <5>2, <4>1, <1>3, <1>4, <1>7, <1>10
      <4>2. CASE d \notin calls
        <5>1. d = c
          BY <4>2, <1>3
        <5>2. isSystem /\ k # Nowhere /\ o \in systems'
          BY <5>1, <3>1, <1>1, <1>3, <1>4, <4>2
        <5>3. o \in Datastore => members[o] = {} /\ \A e \in calls' : e.to # o
          BY <1>3, <1>4, <1>5, <1>6, Kinds
        <5>4. QED BY <5>1, <5>2, <5>3, <1>4
      <4>3. QED BY <4>1, <4>2
    <3>2. QED BY <3>1, <1>3 DEF NewHasNone
  <2>5. QED BY <2>1, <2>2, <2>3, <2>4 DEF SystemsFit
<1>15. OldOnes'
  BY <1>3, <1>7, <1>8, AccessAssumption, Kinds DEF IInv, OldOnes, TypeOK
<1>16. QED BY <1>8, <1>9, <1>11, <1>12, <1>13, <1>14, <1>15 DEF IInv

(* A request ends, or goes on to another part.                             *)
LEMMA Ended ==
  ASSUME IInv, NEW c \in calls, Goes(c)
  PROVE  OneCall' /\ ~Busy(c.obj)' /\ \A d \in calls' : d \in calls /\ d.obj # c.obj
BY CallTypes DEF Goes, IInv, OneCall, Busy
LEMMA WentOn ==
  ASSUME IInv, NEW c \in calls, NEW st, Continues(c, st)
  PROVE  /\ OneCall' /\ Busy(c.obj)'
         /\ calls' = (calls \ {c}) \cup {[c EXCEPT !.step = st]}
         /\ \A d \in calls' : d = [c EXCEPT !.step = st] \/ (d \in calls /\ d.obj # c.obj)
<1>1. PICK e : e = [c EXCEPT !.step = st]
  OBVIOUS
<1>2. calls' = (calls \ {c}) \cup {e}
  BY <1>1 DEF Continues
<1>3. e.obj = c.obj
  BY <1>1, GoesOn
<1>4. \A d \in calls : d # c => d.obj # c.obj
  BY CallTypes
<1>5. OneCall'
  BY <1>2, <1>3, <1>4 DEF IInv, OneCall
<1>6. Busy(c.obj)'
  BY <1>2, <1>3 DEF Busy
<1>7. QED BY <1>1, <1>2, <1>4, <1>5, <1>6

LEMMA RollbackKeeps ==
  ASSUME IInv, NEW c \in calls, rollback(c)
  PROVE  IInv'
<1>1. /\ c.obj \in Object /\ c.job = "MOVE" /\ Live(c.obj) /\ c.obj \in Clusterables
      /\ c.from \in Homes(c.obj) \cup {Nowhere} /\ c.from \in Container \cup {Nowhere}
      /\ ListedBy(c.obj) = {c.from} \ {Nowhere} /\ c.obj \notin User
  BY CallTypes, Kinds DEF rollback, CallFits, MoveFits, ChgrpFits, AllocateFits, DeleteFits, Lists
<1>2. /\ in' = [in EXCEPT ![c.obj] = c.from] /\ calls' = calls \ {c}
      /\ UNCHANGED <<life, members, system_ds, systems, owned, acl_rules>>
  BY <1>1 DEF rollback, Goes
<1>3. OneCall' /\ ~Busy(c.obj)' /\ \A d \in calls' : d \in calls /\ d.obj # c.obj
  BY Ended DEF rollback
<1>4. in' \in [Object -> Container \cup {Nowhere}] /\ \A p \in Object : in'[p] = IF p = c.obj THEN c.from ELSE in[p]
  BY <1>1, <1>2 DEF IInv, TypeOK
<1>5. TypeOK' /\ OldOnes'
  BY <1>2, <1>4 DEF IInv, TypeOK, OldOnes
<1>6. AtHome'
  BY <1>1, <1>2, <1>4, Kinds DEF IInv, AtHome, Live
<1>7. ASSUME NEW d \in calls' PROVE CallFits(d)'
  BY <1>2, <1>3, <1>4, CallTypes, OtherCalls DEF Live
<1>8. ListsFit'
  <2>1. \A d \in calls' : ListedBy(d.obj) = Lists(d)
    BY <1>3 DEF IInv, ListsFit
  <2>2. \A p \in Object \ {c.obj} : ~Busy(p)' => ListedBy(p) = IF Live(p) THEN {in'[p]} \ {Nowhere} ELSE {}
    BY <1>2, <1>4 DEF IInv, ListsFit, Busy
  <2>3. QED BY <2>1, <2>2, <1>1, <1>2, <1>4 DEF IInv, ListsFit, ListedBy, Lists, Live
<1>9. SystemsFit'
  <2>1. c.step # "LEAVE"
    BY DEF rollback
  <2>2. QED BY <2>1, <1>2 DEF IInv, SystemsFit, SystemListed, SystemAgrees, JoinsKnow, NewHasNone
<1>10. QED BY <1>3, <1>5, <1>6, <1>7, <1>8, <1>9 DEF IInv

LEMMA DelRulesKeeps ==
  ASSUME IInv, NEW c \in calls, del_rules(c)
  PROVE  IInv'
<1>1. /\ c.obj \in Object /\ c.job = "DELETE" /\ ~Live(c.obj) /\ ListedBy(c.obj) = {}
  BY CallTypes, Kinds DEF del_rules, CallFits, MoveFits, ChgrpFits, AllocateFits, DeleteFits, Lists, Live
<1>2. /\ calls' = calls \ {c} /\ acl_rules' \subseteq acl_rules
      /\ UNCHANGED <<life, in, members, system_ds, systems, owned>>
  BY DEF del_rules, Goes
<1>3. OneCall' /\ ~Busy(c.obj)' /\ \A d \in calls' : d \in calls /\ d.obj # c.obj
  BY Ended DEF del_rules
<1>4. TypeOK' /\ OldOnes' /\ AtHome'
  BY <1>2 DEF IInv, TypeOK, OldOnes, AtHome, Live
<1>5. ASSUME NEW d \in calls' PROVE CallFits(d)'
  BY <1>2, <1>3, OtherCalls DEF Live
<1>6. ListsFit'
  <2>1. \A d \in calls' : ListedBy(d.obj) = Lists(d)
    BY <1>3 DEF IInv, ListsFit
  <2>2. \A p \in Object \ {c.obj} : ~Busy(p)' => ListedBy(p) = IF Live(p) THEN {in[p]} \ {Nowhere} ELSE {}
    BY <1>2 DEF IInv, ListsFit, Busy
  <2>3. QED BY <2>1, <2>2, <1>1, <1>2 DEF IInv, ListsFit, ListedBy, Lists, Live
<1>7. SystemsFit'
  <2>1. c.step # "LEAVE"
    BY DEF del_rules
  <2>2. QED BY <2>1, <1>2 DEF IInv, SystemsFit, SystemListed, SystemAgrees, JoinsKnow, NewHasNone
<1>8. QED BY <1>3, <1>4, <1>5, <1>6, <1>7 DEF IInv

LEMMA DropNewKeeps ==
  ASSUME IInv, NEW c \in calls, drop_new(c)
  PROVE  IInv'
<1>1. /\ c.obj \in Object /\ c.job = "ALLOCATE" /\ Live(c.obj) /\ ListedBy(c.obj) = {}
      /\ c.obj \in Datastore /\ c.system /\ c.obj \notin Reserved /\ c.obj \notin User
  BY CallTypes, Kinds DEF drop_new, CallFits, MoveFits, ChgrpFits, AllocateFits, DeleteFits, Lists
<1>2. members[c.obj] = {} /\ \A d \in calls : d.to # c.obj
  BY <1>1 DEF IInv, SystemsFit, NewHasNone
<1>3. /\ life' = [life EXCEPT ![c.obj] = "GONE"] /\ calls' = calls \ {c}
      /\ UNCHANGED <<in, members, system_ds, systems, owned, acl_rules>>
  BY <1>1, <1>2 DEF drop_new, Goes, CanDrop
<1>4. OneCall' /\ ~Busy(c.obj)' /\ \A d \in calls' : d \in calls /\ d.obj # c.obj
  BY Ended DEF drop_new
<1>5. /\ life' \in [Object -> {"NONE", "LIVE", "LEAVING", "GONE"}]
      /\ \A p \in Object : life'[p] = IF p = c.obj THEN "GONE" ELSE life[p]
  BY <1>1, <1>3 DEF IInv, TypeOK
<1>6. TypeOK' /\ OldOnes'
  BY <1>1, <1>3, <1>5, AccessAssumption, Kinds DEF IInv, TypeOK, OldOnes
<1>7. AtHome'
  BY <1>1, <1>3, <1>5, Kinds DEF IInv, AtHome, Live
<1>8. ASSUME NEW d \in calls' PROVE CallFits(d)'
  <2>1. d \in calls /\ d.obj # c.obj /\ d.obj \in Object /\ d.to # c.obj /\ d.to \in Object \cup {Nowhere}
    BY <1>2, <1>4, CallTypes, Kinds
  <2>2. QED BY <2>1, <1>3, <1>5, OtherCalls, Kinds DEF Live
<1>9. ListsFit'
  <2>1. \A d \in calls' : ListedBy(d.obj) = Lists(d)
    BY <1>4 DEF IInv, ListsFit
  <2>2. \A p \in Object \ {c.obj} : ~Busy(p)' => ListedBy(p) = IF Live(p)' THEN {in[p]} \ {Nowhere} ELSE {}
    BY <1>3, <1>5 DEF IInv, ListsFit, Busy, Live
  <2>3. \A k \in Container : members[k] # {} => Live(k)'
    BY <1>2, <1>5, Kinds DEF IInv, ListsFit, Live
  <2>4. ~Live(c.obj)'
    BY <1>1, <1>5 DEF Live
  <2>5. QED BY <2>1, <2>2, <2>3, <2>4, <1>1, <1>3 DEF ListsFit, ListedBy, Lists
<1>10. SystemsFit'
  <2>1. c.step # "LEAVE"
    BY DEF drop_new
  <2>2. QED BY <2>1, <1>3 DEF IInv, SystemsFit, SystemListed, SystemAgrees, JoinsKnow, NewHasNone
<1>11. QED BY <1>4, <1>6, <1>7, <1>8, <1>9, <1>10 DEF IInv

(* The container that an object leaves has it.                             *)
LEMMA LeaveKeeps ==
  ASSUME IInv, NEW c \in calls, leave(c)
  PROVE  IInv'
<1>1. /\ c.obj \in Object /\ c.from \in Container /\ c.obj \in members[c.from] /\ Live(c.from)
      /\ c.from \in Homes(c.obj) /\ c.from # c.to /\ c.from # Nowhere /\ c.step = "LEAVE"
      /\ ListedBy(c.obj) = {c.from, c.to} \ {Nowhere}
      /\ c.job \in {"MOVE", "CHGRP", "DELETE"}
  <2>1. c.step = "LEAVE" /\ c.from # Nowhere /\ c.obj \in Object /\ c.job \in {"MOVE", "CHGRP", "DELETE"}
    BY CallTypes DEF leave, CallFits, MoveFits, ChgrpFits, AllocateFits, DeleteFits
  <2>2. ListedBy(c.obj) = {c.from, c.to} \ {Nowhere} /\ c.from \in Homes(c.obj) /\ c.from \in Container /\ c.from # c.to
    BY <2>1, CallTypes DEF Lists, CallFits
  <2>3. c.obj \in members[c.from]
    BY <2>1, <2>2 DEF ListedBy
  <2>4. QED BY <2>1, <2>2, <2>3 DEF IInv, ListsFit
<1>2. /\ del_from_container(c) /\ AfterLeave(c) /\ UNCHANGED <<life, in, systems, owned, acl_rules>>
  BY <1>1 DEF leave
<1>3. /\ members' \in [Container -> SUBSET Object]
      /\ \A k \in Container : members'[k] = IF k = c.from THEN members[k] \ {c.obj} ELSE members[k]
  BY <1>2, <1>1 DEF del_from_container, IInv, TypeOK
<1>4. /\ system_ds' \in [Cluster -> Datastore]
      /\ \A k \in Cluster : system_ds'[k] = IF k = c.from /\ system_ds[k] = c.obj THEN SystemDS ELSE system_ds[k]
  BY <1>2, AccessAssumption DEF del_from_container, IInv, TypeOK
<1>5. /\ c.job = "DELETE" => Continues(c, "RULES")
      /\ c.job # "DELETE" => Goes(c)
  BY <1>2 DEF AfterLeave
<1>6. PICK e : e = [c EXCEPT !.step = "RULES"]
  OBVIOUS
<1>7. /\ e.job = c.job /\ e.step = "RULES" /\ e.obj = c.obj /\ e.to = c.to /\ e.from = c.from
      /\ e.system = c.system /\ e \in Calls
  BY <1>6, GoesOn
<1>8. /\ OneCall'
      /\ \A d \in calls' : d = e \/ (d \in calls /\ d.obj # c.obj)
      /\ \A d \in calls : d # c => d \in calls'
      /\ c.job = "DELETE" <=> e \in calls'
      /\ c.job = "DELETE" <=> Busy(c.obj)'
  <2>1. CASE c.job = "DELETE"
    BY <2>1, <1>5, <1>6, WentOn DEF Continues
  <2>2. CASE c.job # "DELETE"
    BY <2>2, <1>5, <1>7, Ended DEF Goes
  <2>3. QED BY <2>1, <2>2
<1>9. TypeOK' /\ OldOnes'
  BY <1>2, <1>3, <1>4, <1>7, <1>8 DEF IInv, TypeOK, OldOnes
<1>10. AtHome'
  BY <1>2 DEF IInv, AtHome, Live
<1>11. ASSUME NEW d \in calls' PROVE CallFits(d)'
  <2>1. CASE d = e
    <3>1. c.job = "DELETE"
      BY <2>1, <1>8
    <3>2. CallFits(c) /\ life'[c.obj] = life[c.obj]
      BY <1>2, CallTypes
    <3>3. QED BY <2>1, <3>1, <3>2, <1>7 DEF CallFits, DeleteFits
  <2>2. CASE d # e
    BY <2>2, <1>2, <1>8, OtherCalls DEF Live
  <2>3. QED BY <2>1, <2>2
<1>12. ListsFit'
  <2>1. \A p \in Object \ {c.obj} : ListedBy(p)' = ListedBy(p)
    BY <1>3 DEF ListedBy
  <2>2. ListedBy(c.obj)' = {c.to} \ {Nowhere}
    BY <1>1, <1>3 DEF ListedBy
  <2>3. ASSUME NEW d \in calls' PROVE ListedBy(d.obj)' = Lists(d)
    <3>1. CASE d = e
      <4>1. c.to = Nowhere
        BY <3>1, <1>8, CallTypes DEF CallFits, DeleteFits
      <4>2. QED BY <3>1, <4>1, <2>2, <1>7 DEF Lists
    <3>2. CASE d # e
      <4>1. d \in calls /\ d.obj # c.obj /\ d.obj \in Object
        BY <3>2, <1>8, CallTypes
      <4>2. QED BY <4>1, <2>1, CallTypes
    <3>3. QED BY <3>1, <3>2
  <2>4. ASSUME NEW p \in Object, ~Busy(p)' PROVE ListedBy(p)' = IF Live(p) THEN {in[p]} \ {Nowhere} ELSE {}
    <3>1. CASE p = c.obj
      <4>1. c.job # "DELETE"
        BY <3>1, <2>4, <1>8
      <4>2. Live(c.obj) /\ in[c.obj] = c.to
        BY <4>1, CallTypes DEF CallFits
      <4>3. QED BY <3>1, <4>2, <2>2
    <3>2. CASE p # c.obj
      <4>1. ~Busy(p)
        BY <3>2, <2>4, <1>8 DEF Busy
      <4>2. QED BY <3>2, <4>1, <2>1 DEF IInv, ListsFit
    <3>3. QED BY <3>1, <3>2
  <2>5. \A k \in Container : members'[k] # {} => Live(k)
    BY <1>3 DEF IInv, ListsFit
  <2>6. QED BY <2>3, <2>4, <2>5, <1>2 DEF ListsFit, Lists, Live
<1>13. SystemsFit'
  <2>1. SystemListed'
    BY <1>3, <1>4, Kinds DEF IInv, SystemsFit, SystemListed
  <2>2. SystemAgrees'
    <3>1. ASSUME NEW k \in Cluster, NEW d \in members'[k] \cap Datastore
          PROVE  (d \in systems <=> system_ds'[k] = d) \/ \E f \in calls' : f.obj = d /\ f.step = "LEAVE" /\ f.to = Nowhere
      <4>1. d \in members[k] /\ k \in Container /\ (k = c.from => d # c.obj)
        BY <1>3, Kinds
      <4>2. CASE \E f \in calls : f.obj = d /\ f.step = "LEAVE" /\ f.to = Nowhere
        <5>1. PICK f \in calls : f.obj = d /\ f.step = "LEAVE" /\ f.to = Nowhere
          BY <4>2
        <5>2. f # c
          <6>1. SUFFICES ASSUME f = c PROVE FALSE
            OBVIOUS
          <6>2. ListedBy(d) = {c.from} /\ k \in ListedBy(d)
            BY <6>1, <5>1, <4>1, <1>1 DEF ListedBy
          <6>3. QED BY <6>1, <6>2, <4>1, <5>1
        <5>3. QED BY <5>1, <5>2, <1>8
      <4>3. CASE ~\E f \in calls : f.obj = d /\ f.step = "LEAVE" /\ f.to = Nowhere
        <5>1. d \in systems <=> system_ds[k] = d
          BY <4>1, <4>3 DEF IInv, SystemsFit, SystemAgrees
        <5>2. d # SystemDS
          BY <4>1 DEF IInv, SystemsFit, SystemListed
        <5>3. QED BY <5>1, <5>2, <4>1, <1>4
      <4>4. QED BY <4>2, <4>3
    <3>2. QED BY <3>1, <1>2 DEF SystemAgrees
  <2>3. JoinsKnow'
    BY <1>2, <1>7, <1>8 DEF IInv, SystemsFit, JoinsKnow
  <2>4. NewHasNone'
    <3>1. ASSUME NEW d \in calls', d.job = "ALLOCATE", d.system
          PROVE  d.obj \in systems /\ (d.obj \in Datastore => members'[d.obj] = {} /\ \A f \in calls' : f.to # d.obj)
      <4>1. d \in calls /\ d.obj \in Object
        BY <3>1, <1>1, <1>7, <1>8, CallTypes
      <4>2. d.obj \in systems /\ (d.obj \in Datastore => members[d.obj] = {} /\ \A f \in calls : f.to # d.obj)
        BY <3>1, <4>1 DEF IInv, SystemsFit, NewHasNone
      <4>3. d.obj \in Datastore => members'[d.obj] = {}
        BY <4>2, <1>3, Kinds
      <4>4. QED BY <4>2, <4>3, <1>7, <1>8
    <3>2. QED BY <3>1, <1>2 DEF NewHasNone
  <2>5. QED BY <2>1, <2>2, <2>3, <2>4 DEF SystemsFit
<1>14. QED BY <1>8, <1>9, <1>10, <1>11, <1>12, <1>13 DEF IInv

(* A container is gone or refuses, which only a move of a clusterable or   *)
(* the making of a system datastore meets, or it lists the object.         *)
LEMMA JoinRefusedKeeps ==
  ASSUME IInv, NEW c \in calls, c.step = "JOIN",
         NEW st \in {"BACK", "DROP"}, Continues(c, st),
         st = "BACK" => c.job = "MOVE",
         st = "DROP" => c.job = "ALLOCATE" /\ c.obj \in Datastore /\ c.system,
         UNCHANGED <<life, in, members, system_ds, systems, owned, acl_rules>>
  PROVE  IInv'
<1>1. PICK e : e = [c EXCEPT !.step = st]
  OBVIOUS
<1>2. /\ e.job = c.job /\ e.step = st /\ e.obj = c.obj /\ e.to = c.to /\ e.from = c.from
      /\ e.system = c.system /\ e \in Calls
  BY <1>1, GoesOn
<1>3. /\ OneCall' /\ Busy(c.obj)' /\ calls' = (calls \ {c}) \cup {e}
      /\ \A d \in calls' : d = e \/ (d \in calls /\ d.obj # c.obj)
  BY <1>1, WentOn
<1>4. TypeOK' /\ OldOnes' /\ AtHome'
  BY <1>2, <1>3 DEF IInv, TypeOK, OldOnes, AtHome, Live
<1>5. ASSUME NEW d \in calls' PROVE CallFits(d)'
  <2>1. CASE d = e
    <3>1. CallFits(c)
      BY CallTypes
    <3>2. c.job = "MOVE" => MoveFits(e)
      BY <3>1, <1>2 DEF CallFits, MoveFits
    <3>3. c.job = "ALLOCATE" => AllocateFits(e)
      BY <3>1, <1>2 DEF CallFits, AllocateFits
    <3>4. QED BY <2>1, <3>1, <3>2, <3>3, <1>2 DEF CallFits, Live
  <2>2. CASE d # e
    BY <2>2, <1>3, OtherCalls DEF Live
  <2>3. QED BY <2>1, <2>2
<1>6. ListsFit'
  <2>1. ListedBy(c.obj) = Lists(e)
    <3>1. ListedBy(c.obj) = {c.from} \ {Nowhere}
      BY CallTypes DEF Lists
    <3>2. c.job = "ALLOCATE" => c.from = Nowhere
      BY CallTypes DEF CallFits, AllocateFits
    <3>3. QED BY <3>1, <3>2, <1>2 DEF Lists
  <2>2. \A d \in calls' : ListedBy(d.obj) = Lists(d)
    BY <2>1, <1>2, <1>3 DEF IInv, ListsFit
  <2>3. \A p \in Object : ~Busy(p)' => ~Busy(p)
    BY <1>2, <1>3 DEF Busy
  <2>4. QED BY <2>2, <2>3 DEF IInv, ListsFit, ListedBy, Lists, Live
<1>7. SystemsFit'
  <2>1. SystemListed'
    BY DEF IInv, SystemsFit, SystemListed
  <2>2. SystemAgrees'
    BY <1>3 DEF IInv, SystemsFit, SystemAgrees
  <2>3. JoinsKnow'
    BY <1>2, <1>3 DEF IInv, SystemsFit, JoinsKnow
  <2>4. NewHasNone'
    BY <1>2, <1>3 DEF IInv, SystemsFit, NewHasNone
  <2>5. QED BY <2>1, <2>2, <2>3, <2>4 DEF SystemsFit
<1>8. QED BY <1>3, <1>4, <1>5, <1>6, <1>7 DEF IInv

LEMMA JoinedKeeps ==
  ASSUME IInv, NEW c \in calls, c.step = "JOIN", Live(c.to),
         ~(c.to \in Cluster /\ refuses(c)), add_to_container(c), AfterJoin(c),
         UNCHANGED <<life, in, systems, owned, acl_rules>>
  PROVE  IInv'
<1>1. /\ c.obj \in Object /\ c.to \in Container /\ c.to \in Homes(c.obj) /\ c.to # c.from /\ c.to # Nowhere
      /\ ListedBy(c.obj) = {c.from} \ {Nowhere} /\ c.obj \notin members[c.to]
      /\ Live(c.obj) /\ in[c.obj] = c.to /\ c.job \in {"MOVE", "CHGRP", "ALLOCATE"}
      /\ c.job = "ALLOCATE" => c.from = Nowhere
  <2>1. c.obj \in Object /\ c.to # Nowhere /\ c.to \in Homes(c.obj) /\ c.to \in Container
    BY CallTypes DEF CallFits, Live
  <2>2. c.job \in {"MOVE", "CHGRP", "ALLOCATE"} /\ (c.job = "ALLOCATE" => c.from = Nowhere)
    BY CallTypes DEF CallFits, DeleteFits, AllocateFits
  <2>3. Live(c.obj) /\ in[c.obj] = c.to /\ c.to # c.from
    BY <2>1, <2>2, CallTypes DEF CallFits
  <2>4. ListedBy(c.obj) = {c.from} \ {Nowhere}
    BY CallTypes DEF Lists
  <2>5. QED BY <2>1, <2>2, <2>3, <2>4 DEF ListedBy
<1>2. /\ members' \in [Container -> SUBSET Object]
      /\ \A k \in Container : members'[k] = IF k = c.to THEN members[k] \cup {c.obj} ELSE members[k]
  BY <1>1 DEF add_to_container, IInv, TypeOK
<1>3. c.obj \in Datastore => c.to \in Cluster
  BY <1>1, Kinds
<1>4. /\ system_ds' \in [Cluster -> Datastore]
      /\ \A k \in Cluster : system_ds'[k] = IF k = c.to /\ c.obj \in Datastore /\ c.system THEN c.obj ELSE system_ds[k]
  BY <1>3 DEF add_to_container, AddsSystem, IInv, TypeOK
<1>5. PICK e : e = [c EXCEPT !.step = "LEAVE"]
  OBVIOUS
<1>6. /\ e.job = c.job /\ e.step = "LEAVE" /\ e.obj = c.obj /\ e.to = c.to /\ e.from = c.from
      /\ e.system = c.system /\ e \in Calls
  BY <1>5, GoesOn
<1>7. /\ OneCall'
      /\ \A d \in calls' : d = e \/ (d \in calls /\ d.obj # c.obj)
      /\ \A d \in calls : d # c => d \in calls'
      /\ c.from # Nowhere <=> e \in calls'
      /\ c.from # Nowhere <=> Busy(c.obj)'
  <2>1. CASE c.from # Nowhere
    BY <2>1, <1>5, WentOn DEF Continues, AfterJoin
  <2>2. CASE c.from = Nowhere
    BY <2>2, <1>6, Ended DEF Goes, AfterJoin
  <2>3. QED BY <2>1, <2>2
<1>8. TypeOK' /\ OldOnes'
  BY <1>2, <1>4, <1>6, <1>7 DEF IInv, TypeOK, OldOnes
<1>9. AtHome'
  BY DEF IInv, AtHome, Live
<1>10. ASSUME NEW d \in calls' PROVE CallFits(d)'
  <2>1. CASE d = e
    <3>1. CallFits(c) /\ c.from # Nowhere /\ c.job # "ALLOCATE" /\ c.job # "DELETE"
      BY <2>1, <1>1, <1>7, CallTypes
    <3>2. c.job = "MOVE" => MoveFits(e)
      BY <3>1, <1>6 DEF CallFits, MoveFits
    <3>3. c.job = "CHGRP" => ChgrpFits(e)
      BY <3>1, <1>6 DEF CallFits, ChgrpFits
    <3>4. QED BY <2>1, <3>1, <3>2, <3>3, <1>1, <1>6 DEF CallFits, Live
  <2>2. CASE d # e
    BY <2>2, <1>7, OtherCalls DEF Live
  <2>3. QED BY <2>1, <2>2
<1>11. ListsFit'
  <2>1. \A p \in Object \ {c.obj} : ListedBy(p)' = ListedBy(p)
    BY <1>2 DEF ListedBy
  <2>2. ListedBy(c.obj)' = {c.from, c.to} \ {Nowhere}
    BY <1>1, <1>2 DEF ListedBy
  <2>3. ASSUME NEW d \in calls' PROVE ListedBy(d.obj)' = Lists(d)
    <3>1. CASE d = e
      BY <3>1, <2>2, <1>6 DEF Lists
    <3>2. CASE d # e
      <4>1. d \in calls /\ d.obj # c.obj /\ d.obj \in Object
        BY <3>2, <1>7, CallTypes
      <4>2. QED BY <4>1, <2>1, CallTypes
    <3>3. QED BY <3>1, <3>2
  <2>4. ASSUME NEW p \in Object, ~Busy(p)' PROVE ListedBy(p)' = IF Live(p) THEN {in[p]} \ {Nowhere} ELSE {}
    <3>1. CASE p = c.obj
      BY <3>1, <2>2, <2>4, <1>1, <1>7
    <3>2. CASE p # c.obj
      <4>1. ~Busy(p)
        BY <3>2, <2>4, <1>7 DEF Busy
      <4>2. QED BY <3>2, <4>1, <2>1 DEF IInv, ListsFit
    <3>3. QED BY <3>1, <3>2
  <2>5. \A k \in Container : members'[k] # {} => Live(k)
    BY <1>2 DEF IInv, ListsFit
  <2>6. QED BY <2>3, <2>4, <2>5 DEF ListsFit, Lists, Live
<1>12. c.to \in Cluster => /\ c.obj # SystemDS
                           /\ c.obj \in Datastore /\ c.system => system_ds[c.to] = SystemDS
  BY DEF refuses
<1>13. SystemsFit'
  <2>1. SystemListed'
    BY <1>2, <1>4, <1>12, Kinds DEF IInv, SystemsFit, SystemListed
  <2>2. SystemAgrees'
    <3>1. ASSUME NEW k \in Cluster, NEW d \in members'[k] \cap Datastore
          PROVE  (d \in systems <=> system_ds'[k] = d) \/ \E f \in calls' : f.obj = d /\ f.step = "LEAVE" /\ f.to = Nowhere
      <4>1. k \in Container
        BY Kinds
      <4>2. CASE d \in members[k]
        <5>1. k = c.to => d # c.obj
          BY <4>2, <1>1
        <5>2. CASE \E f \in calls : f.obj = d /\ f.step = "LEAVE" /\ f.to = Nowhere
          BY <5>2, <1>7
        <5>3. CASE ~\E f \in calls : f.obj = d /\ f.step = "LEAVE" /\ f.to = Nowhere
          <6>1. d \in systems <=> system_ds[k] = d
            BY <4>2, <5>3 DEF IInv, SystemsFit, SystemAgrees
          <6>2. d # SystemDS
            BY <4>2 DEF IInv, SystemsFit, SystemListed
          <6>3. QED BY <5>1, <6>1, <6>2, <1>4, <1>12
        <5>4. QED BY <5>2, <5>3
      <4>3. CASE d \notin members[k]
        <5>1. k = c.to /\ d = c.obj
          BY <4>1, <4>3, <1>2
        <5>2. c.system <=> d \in systems
          BY <5>1 DEF IInv, SystemsFit, JoinsKnow
        <5>3. system_ds[k] # d
          BY <5>1, <4>3, <1>12 DEF IInv, SystemsFit, SystemListed
        <5>4. QED BY <5>1, <5>2, <5>3, <1>4
      <4>4. QED BY <4>2, <4>3
    <3>2. QED BY <3>1 DEF SystemAgrees
  <2>3. JoinsKnow'
    BY <1>6, <1>7 DEF IInv, SystemsFit, JoinsKnow
  <2>4. NewHasNone'
    <3>1. ASSUME NEW d \in calls', d.job = "ALLOCATE", d.system
          PROVE  d.obj \in systems /\ (d.obj \in Datastore => members'[d.obj] = {} /\ \A f \in calls' : f.to # d.obj)
      <4>1. d \in calls /\ d.obj \in Object
        BY <3>1, <1>1, <1>6, <1>7, CallTypes
      <4>2. d.obj \in systems /\ (d.obj \in Datastore => members[d.obj] = {} /\ \A f \in calls : f.to # d.obj)
        BY <3>1, <4>1 DEF IInv, SystemsFit, NewHasNone
      <4>3. d.obj \in Datastore => members'[d.obj] = {}
        BY <4>2, <1>2, Kinds
      <4>4. QED BY <4>2, <4>3, <1>6, <1>7
    <3>2. QED BY <3>1 DEF NewHasNone
  <2>5. QED BY <2>1, <2>2, <2>3, <2>4 DEF SystemsFit
<1>14. QED BY <1>7, <1>8, <1>9, <1>10, <1>11, <1>13 DEF IInv

LEMMA JoinKeeps ==
  ASSUME IInv, NEW c \in calls, join(c)
  PROVE  IInv'
<1>1. c.step = "JOIN" /\ UNCHANGED <<life, in, systems, owned, acl_rules>>
  BY DEF join
<1>2. c.job \in {"MOVE", "CHGRP", "ALLOCATE"} /\ c.obj \in Object
  BY <1>1, CallTypes DEF CallFits, DeleteFits
<1>3. CASE ~Live(c.to) /\ UNCHANGED <<members, system_ds>>
           /\ IF c.job = "MOVE" THEN Continues(c, "BACK") ELSE Goes(c)
  <2>1. c.job = "MOVE"
    BY <1>1, <1>3, CallTypes DEF CallFits
  <2>2. QED BY <2>1, <1>1, <1>3, JoinRefusedKeeps
<1>4. CASE Live(c.to) /\ c.to \in Cluster /\ refuses(c) /\ AfterRefusal(c) /\ UNCHANGED <<members, system_ds>>
  <2>1. CASE c.job = "MOVE"
    BY <2>1, <1>1, <1>4, JoinRefusedKeeps DEF AfterRefusal
  <2>2. CASE c.job # "MOVE"
    <3>1. c.job = "ALLOCATE"
      BY <2>2, <1>1, <1>2, <1>4, CallTypes, Kinds DEF CallFits, ChgrpFits, Live
    <3>2. c.obj \notin members[c.to]
      <4>1. ListedBy(c.obj) = {}
        BY <1>1, <3>1, CallTypes DEF CallFits, AllocateFits, Lists
      <4>2. QED BY <4>1, <1>4, Kinds DEF ListedBy
    <3>3. c.obj # SystemDS
      BY <3>1, AccessAssumption, CallTypes DEF CallFits
    <3>4. c.obj \in Datastore /\ c.system
      BY <3>2, <3>3, <1>4 DEF refuses
    <3>5. QED BY <2>2, <3>1, <3>4, <1>1, <1>4, JoinRefusedKeeps DEF AfterRefusal
  <2>3. QED BY <2>1, <2>2
<1>5. CASE Live(c.to) /\ ~(c.to \in Cluster /\ refuses(c)) /\ add_to_container(c) /\ AfterJoin(c)
  BY <1>1, <1>5, JoinedKeeps
<1>6. QED BY <1>3, <1>4, <1>5 DEF join

LEMMA InitHolds == Init => IInv
<1> SUFFICES ASSUME Init PROVE IInv
  OBVIOUS
<1>1. PICK w \in Worlds :
        life = [o \in Object |-> IF o \in Reserved THEN "LIVE" ELSE IF o \in w THEN "NONE" ELSE "GONE"]
  BY DEF Init
<1>2. /\ in = [o \in Object |-> FirstHome(o)]
      /\ members = [k \in Container |-> {o \in Object : FirstHome(o) = k}]
      /\ system_ds = [k \in Cluster |-> SystemDS] /\ systems = {SystemDS}
      /\ owned = [n \in Network |-> NoPermissions] /\ acl_rules = {} /\ calls = {}
  BY DEF Init
<1>3. /\ Oneadmin \in User /\ Oneadmin \in Reserved /\ OneadminGroup \in Group /\ OneadminGroup \in Reserved
      /\ SystemDS \in Datastore /\ SystemDS \in Reserved /\ Oneadmin \in Object
      /\ SystemDS # Oneadmin /\ Nowhere \notin Container /\ Group \subseteq Container
      /\ \A u \in User : u \in Reserved => u = Oneadmin
      /\ Homes(Oneadmin) = Group /\ Container \subseteq Object
  BY AccessAssumption, Kinds
<1>4. \A o \in Object : FirstHome(o) = IF o = Oneadmin THEN OneadminGroup ELSE Nowhere
  BY DEF FirstHome
<1>5. \A k \in Container : members[k] = IF k = OneadminGroup THEN {Oneadmin} ELSE {}
  BY <1>2, <1>3, <1>4
<1>6. TypeOK
  <2>1. NoPermissions \in [uid : User, gid : Group, bits : Grants]
    BY <1>3 DEF NoPermissions, Grants
  <2>2. in \in [Object -> Container \cup {Nowhere}]
    BY <1>2, <1>3, <1>4
  <2>3. members \in [Container -> SUBSET Object]
    BY <1>2
  <2>4. life \in [Object -> {"NONE", "LIVE", "LEAVING", "GONE"}]
    BY <1>1
  <2>5. QED BY <2>1, <2>2, <2>3, <2>4, <1>2, <1>3 DEF TypeOK
<1>7. AtHome
  BY <1>1, <1>2, <1>3, <1>4, Kinds DEF AtHome, Live
<1>8. OldOnes
  BY <1>1, <1>2, <1>3, Kinds, AccessAssumption DEF OldOnes
<1>9. ListsFit
  <2>1. ASSUME NEW o \in Object PROVE ListedBy(o) = IF Live(o) THEN {in[o]} \ {Nowhere} ELSE {}
    <3>1. CASE o = Oneadmin
      <4>1. ListedBy(o) = {OneadminGroup} /\ in[o] = OneadminGroup /\ life[o] = "LIVE"
        BY <3>1, <1>1, <1>2, <1>3, <1>4, <1>5 DEF ListedBy
      <4>2. QED BY <4>1, <1>3, Kinds DEF Live
    <3>2. CASE o # Oneadmin
      BY <3>2, <1>2, <1>3, <1>4, <1>5 DEF ListedBy
    <3>3. QED BY <3>1, <3>2
  <2>2. \A k \in Container : members[k] # {} => Live(k)
    BY <1>1, <1>3, <1>5 DEF Live
  <2>3. QED BY <2>1, <2>2, <1>2 DEF ListsFit
<1>10. SystemsFit
  BY <1>2, <1>3, <1>5, Kinds DEF SystemsFit, SystemListed, SystemAgrees, JoinsKnow, NewHasNone
<1>11. QED BY <1>2, <1>6, <1>7, <1>8, <1>9, <1>10 DEF IInv, OneCall

LEMMA NextKeeps == Careful /\ IInv /\ [Next]_vars => IInv'
<1> SUFFICES ASSUME Careful, IInv, [Next]_vars PROVE IInv'
  OBVIOUS
<1>1. CASE \E o \in Object : allocate(o) \/ delete(o)
  BY <1>1, AllocateKeeps, DeleteKeeps
<1>2. CASE \E o \in Object : rm_action(o) \/ set_type(o) \/ chown(o) \/ chmod(o)
  BY <1>2, SmallSteps
<1>3. CASE \E o \in Object : \E k \in Homes(o) \cup {Nowhere} : set_cluster(o, k) \/ set_group(o, k)
  BY <1>3, SetClusterKeeps, SetGroupKeeps
<1>4. CASE \E r \in AclRules : add_rule(r)
  BY <1>4, SmallSteps
<1>5. CASE \E r \in acl_rules : del_rule(r)
  BY <1>5, SmallSteps
<1>6. CASE \E c \in calls : CallStep(c)
  BY <1>6, JoinKeeps, RollbackKeeps, LeaveKeeps, DropNewKeeps, DelRulesKeeps DEF CallStep
<1>7. CASE UNCHANGED vars
  BY <1>7, SmallSteps
<1>8. QED BY <1>1, <1>2, <1>3, <1>4, <1>5, <1>6, <1>7 DEF Next

LEMMA MembersFit == IInv => FsckMembers
<1> SUFFICES ASSUME IInv PROVE FsckMembers
  OBVIOUS
<1>1. OldClusterLives
  <2>1. ASSUME NEW c \in calls, c.step \in {"BACK", "LEAVE"}, c.from # Nowhere
        PROVE  Live(c.from) /\ c.obj \in members[c.from]
    BY <2>1, CallTypes DEF Lists, ListedBy, IInv, ListsFit
  <2>2. QED BY <2>1 DEF OldClusterLives
<1>2. SystemDatastoreKnown
  BY DEF SystemDatastoreKnown, IInv, SystemsFit, SystemListed, SystemAgrees, Busy
<1>3. ASSUME NEW o \in Object, Live(o), ~Busy(o), in[o] # Nowhere
      PROVE  Live(in[o]) /\ o \in members[in[o]]
  BY <1>3 DEF IInv, ListsFit, ListedBy
<1>4. ASSUME NEW k \in Container, NEW o \in members[k]
      PROVE  Busy(o) \/ (Live(o) /\ in[o] = k)
  <2>1. o \in Object /\ k \in ListedBy(o)
    BY <1>4 DEF IInv, TypeOK, ListedBy
  <2>2. QED BY <2>1 DEF IInv, ListsFit
<1>5. QED BY <1>1, <1>2, <1>3, <1>4 DEF FsckMembers, IInv

(* As long as no two requests are about one object, and no container is    *)
(* deleted while an object is made in it or a user moves to it: members    *)
(* and the lists of clusters, groups and datastores agree, the old         *)
(* cluster of an object that moves is there to take it back, and every     *)
(* cluster knows its system datastore.                                     *)
THEOREM MembersAreListed ==
  ASSUME Careful
  PROVE  Spec => []FsckMembers
<1>1. Init => IInv
  BY InitHolds
<1>2. IInv /\ [Next]_vars => IInv'
  BY NextKeeps, Careful
<1>3. IInv => FsckMembers
  BY MembersFit
<1>4. QED BY <1>1, <1>2, <1>3, PTL DEF Spec

-----------------------------------------------------------------------------
(* Rules *)

LEMMA RulesInit == Init => RulesFit
BY DEF Init, RulesFit

(* A deletion goes on to the rules about its object.                       *)
LEMMA LeavesList ==
  ASSUME IInv, NEW c \in calls, leave(c), c.job = "DELETE"
  PROVE  Continues(c, "RULES")
<1>1. c.step = "LEAVE" /\ c.from # Nowhere /\ c.from \in Container
  BY CallTypes DEF leave, CallFits, DeleteFits
<1>2. c.obj \in members[c.from]
  BY <1>1, CallTypes DEF Lists, ListedBy
<1>3. QED BY <1>1, <1>2 DEF leave, AfterLeave, IInv, ListsFit

(* Requests keep their jobs, and all but the deletions' last step leave    *)
(* the rules alone.                                                        *)
LEMMA CallsKeepJobs ==
  ASSUME IInv, NEW c \in calls, join(c) \/ rollback(c) \/ leave(c)
  PROVE  /\ \A d \in calls' : \E e \in calls : e.obj = d.obj /\ e.job = d.job
         /\ \A d \in calls : d.job = "DELETE" => \E e \in calls' : e.obj = d.obj /\ e.job = "DELETE"
         /\ acl_rules' = acl_rules /\ life' = life
<1>1. acl_rules' = acl_rules /\ life' = life
  BY DEF join, rollback, leave
<1>2. Goes(c) \/ \E st \in {"LEAVE", "BACK", "DROP", "RULES"} : Continues(c, st)
  BY DEF join, rollback, leave, AfterJoin, AfterRefusal, AfterLeave
<1>3. c.job = "DELETE" => ~Goes(c) \/ c \in calls'
  <2>1. CASE c.job = "DELETE"
    <3>1. leave(c)
      BY <2>1, CallTypes DEF join, rollback, CallFits, DeleteFits
    <3>2. Continues(c, "RULES")
      BY <2>1, <3>1, LeavesList
    <3>3. PICK e : e = [c EXCEPT !.step = "RULES"] /\ e \in calls'
      BY <3>2 DEF Continues
    <3>4. e.obj = c.obj
      BY <3>3, GoesOn
    <3>5. QED BY <3>3, <3>4, CallTypes DEF Goes
  <2>2. QED BY <2>1
<1>4. CASE Goes(c)
  BY <1>1, <1>3, <1>4 DEF Goes
<1>5. CASE \E st \in {"LEAVE", "BACK", "DROP", "RULES"} : Continues(c, st)
  <2>1. PICK st \in {"LEAVE", "BACK", "DROP", "RULES"} : Continues(c, st)
    BY <1>5
  <2>2. PICK e : e = [c EXCEPT !.step = st]
    OBVIOUS
  <2>3. calls' = (calls \ {c}) \cup {e} /\ e.obj = c.obj /\ e.job = c.job
    BY <2>1, <2>2, GoesOn DEF Continues
  <2>4. QED BY <1>1, <2>3
<1>6. QED BY <1>2, <1>4, <1>5

LEMMA RulesStep ==
  ASSUME RulesToo, IInv, RulesFit, [Next]_vars
  PROVE  RulesFit'
<1> USE DEF RulesFit, Live
<1>1. CASE \E o \in Object : allocate(o)
  <2>1. PICK o \in Object : allocate(o)
    BY <1>1
  <2>2. /\ life[o] = "NONE" /\ acl_rules' = acl_rules /\ Nowhere \notin Object
        /\ \A p \in Object : p # o => life'[p] = life[p]
    BY <2>1, Kinds DEF allocate, IInv, TypeOK
  <2>3. /\ \A d \in calls : d \in calls'
        /\ \A d \in calls' : d \in calls \/ d.obj = o
    BY <2>1 DEF allocate, Starts, Call
  <2>4. ~Busy(o)
    BY <2>2, Unknown
  <2>5. \A r \in acl_rules : ~About(r, o)
    BY <2>2, <2>4 DEF Busy
  <2>6. QED BY <2>2, <2>3, <2>5
<1>2. CASE \E o \in Object : delete(o)
  <2>1. PICK o \in Object : delete(o)
    BY <1>2
  <2>2. PICK c : c = Call("DELETE", AfterDrop(o), o, Nowhere, in[o])
    OBVIOUS
  <2>3. c.obj = o /\ c.job = "DELETE" /\ calls' = calls \cup {c} /\ acl_rules' = acl_rules
    BY <2>1, <2>2, NewCall DEF delete, Starts
  <2>4. \A p \in Object : p # o => life'[p] = life[p]
    BY <2>1 DEF delete, IInv, TypeOK
  <2>5. QED BY <2>3, <2>4
<1>3. CASE \E o \in Object : \E k \in Homes(o) \cup {Nowhere} : set_cluster(o, k) \/ set_group(o, k)
  <2>1. PICK o \in Object : \E k \in Homes(o) \cup {Nowhere} : set_cluster(o, k) \/ set_group(o, k)
    BY <1>3
  <2>2. PICK c : calls' = calls \cup {c} /\ c.job # "ALLOCATE"
    <3>1. PICK k \in Homes(o) \cup {Nowhere} : set_cluster(o, k) \/ set_group(o, k)
      BY <2>1
    <3>2. CASE set_cluster(o, k)
      <4>1. calls' = calls \cup {Call("MOVE", AfterSet(o, k), o, k, in[o])}
        BY <3>2 DEF set_cluster, Starts
      <4>2. QED BY <4>1, NewCall
    <3>3. CASE set_group(o, k)
      <4>1. calls' = calls \cup {Call("CHGRP", "JOIN", o, k, in[o])}
        BY <3>3 DEF set_group, Starts
      <4>2. QED BY <4>1, NewCall
    <3>4. QED BY <3>1, <3>2, <3>3
  <2>3. acl_rules' = acl_rules /\ life' = life
    BY <2>1 DEF set_cluster, set_group
  <2>4. QED BY <2>2, <2>3
<1>4. CASE \E o \in Object : rm_action(o)
  <2>1. PICK o \in Object : life[o] = "LEAVING" /\ life' = [life EXCEPT ![o] = "GONE"] /\ UNCHANGED <<acl_rules, calls>>
    BY <1>4 DEF rm_action
  <2>2. \A p \in Object : life[p] = "LIVE" => life'[p] = "LIVE"
    BY <2>1 DEF IInv, TypeOK
  <2>3. QED BY <2>1, <2>2
<1>5. CASE \E r \in AclRules : add_rule(r)
  <2>1. PICK r \in AclRules : add_rule(r)
    BY <1>5
  <2>2. acl_rules' = acl_rules \cup {r} /\ UNCHANGED <<life, calls>>
    BY <2>1 DEF add_rule
  <2>3. ASSUME NEW o \in Object, About(r, o)
        PROVE  Live(o) /\ \A c \in calls : c.obj = o => c.job # "ALLOCATE"
    <3>1. o \in Named(r)
      BY <2>3 DEF About, AsUser, AsHome, AsResource, Named, By
    <3>2. QED BY <2>1, <3>1 DEF add_rule, RulesToo, Ending
  <2>4. QED BY <2>2, <2>3
<1>6. CASE \/ \E r \in acl_rules : del_rule(r)
           \/ \E o \in Object : set_type(o) \/ chown(o) \/ chmod(o)
           \/ UNCHANGED vars
  <2>1. UNCHANGED <<life, calls>> /\ acl_rules' \subseteq acl_rules
    BY <1>6 DEF del_rule, set_type, chown, chmod, vars
  <2>2. QED BY <2>1
<1>7. CASE \E c \in calls : join(c) \/ rollback(c) \/ leave(c)
  <2>1. PICK c \in calls : join(c) \/ rollback(c) \/ leave(c)
    BY <1>7
  <2>2. /\ \A d \in calls' : \E e \in calls : e.obj = d.obj /\ e.job = d.job
        /\ \A d \in calls : d.job = "DELETE" => \E e \in calls' : e.obj = d.obj /\ e.job = "DELETE"
        /\ acl_rules' = acl_rules /\ life' = life
    BY <2>1, CallsKeepJobs
  <2>3. QED BY <2>2
<1>8. CASE \E c \in calls : drop_new(c)
  <2>1. PICK c \in calls : drop_new(c)
    BY <1>8
  <2>2. c.job = "ALLOCATE" /\ c.obj \in Object
    BY <2>1, CallTypes DEF drop_new, CallFits, MoveFits, ChgrpFits, DeleteFits
  <2>3. /\ calls' = calls \ {c} /\ acl_rules' = acl_rules
        /\ \A p \in Object : p # c.obj => life'[p] = life[p]
    BY <2>1 DEF drop_new, Goes, IInv, TypeOK
  <2>4. \A r \in acl_rules : ~About(r, c.obj)
    BY <2>2, CallTypes
  <2>5. QED BY <2>2, <2>3, <2>4
<1>9. CASE \E c \in calls : del_rules(c)
  <2>1. PICK c \in calls : del_rules(c)
    BY <1>9
  <2>2. /\ calls' = calls \ {c} /\ life' = life /\ acl_rules' = {r \in acl_rules : ~About(r, c.obj)}
    BY <2>1 DEF del_rules, Goes
  <2>3. QED BY <2>2
<1>10. QED BY <1>1, <1>2, <1>3, <1>4, <1>5, <1>6, <1>7, <1>8, <1>9 DEF Next, CallStep

(* As long as, besides, no rule is made about what is not there or is      *)
(* being deleted: the rules that name an object go with it.                *)
THEOREM RulesGoWithObjects ==
  ASSUME RulesToo
  PROVE  Spec => []RulesLive
<1>1. Init => RulesInv
  BY InitHolds, RulesInit DEF RulesInv
<1>2. RulesInv /\ [Next]_vars => RulesInv'
  BY NextKeeps, RulesStep, RulesToo DEF RulesInv, RulesToo
<1>3. RulesInv => RulesLive
  BY DEF RulesInv, RulesFit, RulesLive, Busy, Live
<1>4. QED BY <1>1, <1>2, <1>3, PTL DEF Spec

-----------------------------------------------------------------------------
(* Listings *)

RulesTyped == acl_rules \subseteq AclRules /\ \A r \in acl_rules : ~malformed(r)

LEMMA RulesStayTyped == RulesTyped /\ [Next]_vars => RulesTyped'
<1> SUFFICES ASSUME RulesTyped, [Next]_vars PROVE RulesTyped'
  OBVIOUS
<1>1. CASE \E r \in AclRules : add_rule(r)
  <2>1. PICK r \in AclRules : ~malformed(r) /\ acl_rules' = acl_rules \cup {r}
    BY <1>1 DEF add_rule
  <2>2. QED BY <2>1 DEF RulesTyped
<1>2. CASE acl_rules' \subseteq acl_rules
  BY <1>2 DEF RulesTyped
<1>3. QED
  BY <1>1, <1>2
  DEF Next, CallStep, vars, allocate, delete, rm_action, set_type, chown, chmod, set_cluster, set_group,
      del_rule, join, rollback, leave, drop_new, del_rules

(* What a rule of the ACL manager applies to.                              *)
LEMMA AppliesTo ==
  ASSUME RulesTyped, NEW n \in Object, NEW r \in acl_rules
  PROVE  Applies(r, Row(n)) <=>
           /\ "NET" \in r.types
           /\ \/ r.on.by = "ALL"
              \/ r.on.by = "GROUP" /\ r.on.id = owned[n].gid
              \/ r.on.by = "ID" /\ r.on.id = n
              \/ r.on.by = "CLUSTER" /\ r.on.id = in[n]
<1>1. r.on \in Selectors /\ r \in acl_rules
  BY AccessAssumption DEF RulesTyped
<1>2. r.on.by # "ALL" => r.on.id # NoId
  BY DEF RulesTyped, malformed
<1>3. \A id : \A kind \in {"ALL", "USER", "GROUP", "ID", "CLUSTER"} :
        r.on = By(kind, id) <=> r.on.by = kind /\ r.on.id = id
  BY <1>1 DEF By, Selectors
<1>4. /\ Row(n).type = "NET" /\ Row(n).gid = owned[n].gid /\ Row(n).oid = n /\ Row(n).cid = in[n]
  BY DEF Row
<1>5. QED BY <1>2, <1>3, <1>4 DEF Applies

(* What the WHERE clause finds by rules is what the ACL manager allows by  *)
(* them.                                                                   *)
LEMMA FoundIsAllowed ==
  ASSUME RulesTyped, NEW u \in Object, NEW n \in Object
  PROVE  acl_filter_all(As(u), "NET", acl_rules) \/ acl_filter(As(u), Row(n), acl_rules) <=>
           Administrator(As(u)) \/ \E user \in UserSelectors(As(u)) : match_rules(user, Row(n), "USE", acl_rules)
<1> DEFINE Mine == Found(As(u), "NET", "USE", acl_rules)
<1>1. (\E user \in UserSelectors(As(u)) : match_rules(user, Row(n), "USE", acl_rules))
        <=> \E r \in Mine : Applies(r, Row(n))
  <2>1. \A r \in acl_rules : Applies(r, Row(n)) => "NET" \in r.types
    BY AppliesTo
  <2>2. QED BY <2>1 DEF match_rules, Found
<1>2. Mine \subseteq acl_rules /\ \A r \in Mine : "NET" \in r.types
  BY DEF Found
<1>3. reverse_search_all(As(u), "NET", "USE", acl_rules) <=> \E r \in Mine : r.on.by = "ALL"
  BY DEF reverse_search_all
<1>4. \A kind : ~reverse_search_all(As(u), "NET", "USE", acl_rules) =>
        reverse_search(kind, As(u), "NET", "USE", acl_rules) = {r.on.id : r \in {s \in Mine : s.on.by = kind}}
  BY DEF reverse_search
<1>5. \A kind : reverse_search_all(As(u), "NET", "USE", acl_rules) =>
        reverse_search(kind, As(u), "NET", "USE", acl_rules) = {}
  BY DEF reverse_search
<1>6. Row(n).type = "NET" /\ Row(n).gid = owned[n].gid /\ Row(n).oid = n /\ Row(n).cid = in[n]
  BY DEF Row
<1> HIDE DEF Mine
<1>7. CASE reverse_search_all(As(u), "NET", "USE", acl_rules)
  BY <1>1, <1>2, <1>3, <1>7, AppliesTo DEF acl_filter_all
<1>8. CASE ~reverse_search_all(As(u), "NET", "USE", acl_rules)
  <2>1. acl_filter(As(u), Row(n), acl_rules) <=>
          ~Administrator(As(u)) /\ \E r \in Mine :
             \/ r.on.by = "ID" /\ r.on.id = n
             \/ r.on.by = "GROUP" /\ r.on.id = owned[n].gid
             \/ r.on.by = "CLUSTER" /\ r.on.id = in[n]
    BY <1>4, <1>6, <1>8 DEF acl_filter
  <2>2. \A r \in Mine : r.on.by # "ALL"
    BY <1>3, <1>8
  <2>3. (\E r \in Mine : Applies(r, Row(n))) <=> \E r \in Mine :
             \/ r.on.by = "ID" /\ r.on.id = n
             \/ r.on.by = "GROUP" /\ r.on.id = owned[n].gid
             \/ r.on.by = "CLUSTER" /\ r.on.id = in[n]
    BY <1>2, <2>2, AppliesTo
  <2>4. QED BY <2>1, <2>3, <1>1, <1>8 DEF acl_filter_all
<1>9. QED BY <1>7, <1>8

(* The permissions of an object, as rules.                                 *)
LEMMA PermissionsAllow ==
  ASSUME NEW u \in Object, NEW n \in Object
  PROVE  (\E user \in UserSelectors(As(u)) : match_rules(user, Row(n), "USE", get_acl_rules(Row(n)))) <=>
           \/ owned[n].uid = u /\ "USE" \in owned[n].bits.owner
           \/ Shared(As(u), Row(n)) \/ Public(Row(n))
<1>1. /\ Row(n).type = "NET" /\ Row(n).gid = owned[n].gid /\ Row(n).oid = n /\ Row(n).uid = owned[n].uid
      /\ Row(n).owner_rights = owned[n].bits.owner /\ Row(n).group_rights = owned[n].bits.group
      /\ Row(n).other_rights = owned[n].bits.other
  BY DEF Row
<1>2. As(u).uid = u /\ As(u).gid = in[u]
  BY DEF As
<1>3. n # NoId
  BY AccessAssumption
<1>4. \A user, rights : LET r == Rule(user, {"NET"}, By("ID", n), rights)
                        IN  r.user = user /\ r.rights = rights /\ Applies(r, Row(n))
  BY <1>1, <1>3 DEF Applies, Rule
<1>5. get_acl_rules(Row(n)) =
        {Rule(By("USER", owned[n].uid), {"NET"}, By("ID", n), owned[n].bits.owner),
         Rule(By("GROUP", owned[n].gid), {"NET"}, By("ID", n), owned[n].bits.group),
         Rule(Everyone, {"NET"}, By("ID", n), owned[n].bits.other)}
  BY <1>1 DEF get_acl_rules
<1>6. \A user : match_rules(user, Row(n), "USE", get_acl_rules(Row(n))) <=>
        \/ user = By("USER", owned[n].uid) /\ "USE" \in owned[n].bits.owner
        \/ user = By("GROUP", owned[n].gid) /\ "USE" \in owned[n].bits.group
        \/ user = Everyone /\ "USE" \in owned[n].bits.other
  BY <1>4, <1>5 DEF match_rules
<1>7. \A i, j : \A k1, k2 \in {"ALL", "USER", "GROUP"} : By(k1, i) = By(k2, j) <=> k1 = k2 /\ i = j
  BY DEF By
<1>8. QED BY <1>1, <1>2, <1>6, <1>7 DEF UserSelectors, Everyone, Shared, Public

(* Whatever happens to members, owners, permissions and rules: a listing   *)
(* shows a user exactly what he owns or is authorized to use.              *)
THEOREM ListingsShowWhatMayBeUsed == Spec => []ListsWhatMayBeUsed
<1>1. Init => RulesTyped
  BY DEF Init, RulesTyped
<1>2. RulesTyped /\ [Next]_vars => RulesTyped'
  BY RulesStayTyped
<1>3. RulesTyped => ListsWhatMayBeUsed
  <2> SUFFICES ASSUME RulesTyped, NEW u \in User, NEW n \in Network
               PROVE  LET Shown(flag) == usr_filter(As(u), flag, Row(n), acl_rules)
                          May         == Allowed(As(u), Row(n), "USE", acl_rules)
                      IN  /\ Shown("ALL") <=> owned[n].uid = u \/ May
                          /\ \A flag \in User : Shown(flag) <=> owned[n].uid = flag /\ (flag = u \/ May)
                          /\ Shown("MINE") \/ Shown("MINE_GROUP") => Shown("ALL")
    BY DEF ListsWhatMayBeUsed
  <2> DEFINE May     == Allowed(As(u), Row(n), "USE", acl_rules)
             FoundBy == acl_filter_all(As(u), "NET", acl_rules) \/ acl_filter(As(u), Row(n), acl_rules)
             Open    == Shared(As(u), Row(n)) \/ Public(Row(n))
  <2>1. u \in Object /\ n \in Object /\ \A flag \in User : flag \notin {"MINE", "MINE_GROUP", "ALL"}
    BY Kinds, AccessAssumption
  <2>2. May <=> FoundBy \/ Open \/ (owned[n].uid = u /\ "USE" \in owned[n].bits.owner)
    BY <2>1, FoundIsAllowed, PermissionsAllow DEF Allowed, authorize
  <2>3. Row(n).uid = owned[n].uid /\ As(u).uid = u /\ Row(n).type = "NET"
    BY DEF Row, As
  <2>4. \A flag : usr_filter(As(u), flag, Row(n), acl_rules) <=>
          \/ flag = "MINE" /\ owned[n].uid = u
          \/ flag = "MINE_GROUP" /\ (owned[n].uid = u \/ Shared(As(u), Row(n)))
          \/ flag = "ALL" /\ (owned[n].uid = u \/ Open \/ FoundBy)
          \/ flag \notin {"MINE", "MINE_GROUP", "ALL"} /\ owned[n].uid = flag /\ (flag = u \/ Open \/ FoundBy)
    BY <2>3 DEF usr_filter
  <2> HIDE DEF May, FoundBy
  <2>5. QED BY <2>1, <2>2, <2>4 DEF May
<1>4. QED BY <1>1, <1>2, <1>3, PTL DEF Spec
=============================================================================
