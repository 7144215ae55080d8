------------------------------- MODULE MCAccess -------------------------------
(***************************************************************************)
(* Two clusters with two datastores; two groups with two users and rules   *)
(* about them; a user, his group and a network in a cluster with rules of  *)
(* every kind; an image in a datastore.                                    *)
(***************************************************************************)
EXTENDS Access, TLC

CONSTANTS ds0, oneadmin, ogroup, c1, c2, h1, d1, d2, n1, i1, g1, g2, u1, u2

MCKind == [o \in {c1, c2} |-> "CLUSTER"] @@ [o \in {ds0, d1, d2} |-> "DATASTORE"]
          @@ [o \in {ogroup, g1, g2} |-> "GROUP"] @@ [o \in {oneadmin, u1, u2} |-> "USER"]
          @@ h1 :> "HOST" @@ n1 :> "NET" @@ i1 :> "IMAGE"
MCObject == DOMAIN MCKind
MCWorlds == {{c1, c2, d1, d2}, {c1, h1, d1}, {g1, g2, u1, u2}, {g1, u1, c1, n1}, {d1, d2, i1}}

MCRules ==
  {Rule(By("GROUP", g), {"NET"}, Everyone, {"USE"}) : g \in {g1, g2}}
  \cup {Rule(By("USER", u), {"USER"}, By("GROUP", g1), {"ADMIN"}) : u \in {u1, u2}}
  \cup {Rule(Everyone, {"NET", "HOST"}, By("CLUSTER", c1), {"USE", "MANAGE"}),
        Rule(By("USER", u1), {"NET"}, By("ID", n1), {"USE"}),
        Rule(By("GROUP", g1), {"NET"}, By("GROUP", g1), {"USE"}),
        Rule(Everyone, {"IMAGE"}, By("ID", i1), {"USE"}),
        Rule(Everyone, {"IMAGE"}, By("CLUSTER", c1), {"USE"})}

Grant(own, grp, oth) == [owner |-> own, group |-> grp, other |-> oth]
MCBits == {Grant({"USE", "MANAGE"}, {}, {}), Grant({}, {"USE"}, {}), Grant({"USE"}, {}, {"USE"})}

Alike == Permutations({c1, c2}) \cup Permutations({d1, d2})
=============================================================================
