--------------------------------- MODULE Access ---------------------------------
(***************************************************************************)
(* Users in groups; hosts, networks and datastores in clusters; images in  *)
(* datastores; and the rules that name any of them.                        *)
(*                                                                         *)
(* A membership is written down twice, in the member and in the list of    *)
(* its container, and a request locks one object at a time: it changes the *)
(* member, then the new container, then the old one, and puts the member   *)
(* back when the new container refuses it or is gone.  A call is such a    *)
(* request between two locks.  Requests are those of an administrator, who *)
(* is authorized for all of them.                                          *)
(***************************************************************************)
EXTENDS Acl, FiniteSets

CONSTANTS Object,       \* everything that may be made
          Kind,         \* the type of each object
          Reserved,     \* identifiers below 100: there from the start, never deleted
          SystemDS,     \* datastore 0
          Worlds,       \* sets of objects: an instance uses one of them
          AclRules,     \* the rules that users add
          Bits,         \* the permissions they give: a set of [owner, group, other]
          MaxCalls,     \* bound: requests under way
          Rash          \* what users do although it goes wrong, see below

(* The kinds of Rash: two requests about one object; a container that is   *)
(* deleted while an object is made in it or a user moves to it; a rule     *)
(* about an object that is not there or is being deleted.                  *)
RashKinds == {"SAME_OBJECT", "CONTAINER_DELETED", "RULE_FOR_DELETED"}

VARIABLES life,       \* of each object: NONE, LIVE, LEAVING, GONE
          in,         \* the container a member names
          members,    \* the list of each container
          system_ds,  \* SYSTEM_DS of each cluster
          systems,    \* the datastores of TYPE SYSTEM_DS
          owned,      \* owner, group and permissions of each network
          acl_rules,  \* of the ACL manager
          calls       \* requests under way

vars == <<life, in, members, system_ds, systems, owned, acl_rules, calls>>

Nowhere       == NoId    \* cluster -1
Of(kinds)     == {o \in Object : Kind[o] \in kinds}
User          == Of({"USER"})
Group         == Of({"GROUP"})
Cluster       == Of({"CLUSTER"})
Datastore     == Of({"DATASTORE"})
Network       == Of({"NET"})
Container     == Group \cup Cluster \cup Datastore
Clusterables  == Of({"HOST", "NET", "DATASTORE"})
Live(o)       == o # Nowhere /\ life[o] = "LIVE"
ContainerKind == [USER |-> "GROUP", IMAGE |-> "DATASTORE", HOST |-> "CLUSTER",
                  NET |-> "CLUSTER", DATASTORE |-> "CLUSTER"]
Homes(o)      == IF Kind[o] \in {"GROUP", "CLUSTER"} THEN {}
                 ELSE {k \in Container : Kind[k] = ContainerKind[Kind[o]]}

Grants    == [owner : SUBSET Rights, group : SUBSET Rights, other : SUBSET Rights]
Selectors == [by : {"ALL", "USER", "GROUP", "ID", "CLUSTER"}, id : Object \cup {NoId}]

ASSUME AccessAssumption ==
  /\ Kind \in [Object -> DOMAIN ContainerKind \cup {"GROUP", "CLUSTER"}]
  /\ Object \cap {NoId, "MINE", "MINE_GROUP", "ALL"} = {}
  /\ SystemDS \in Datastore /\ OneadminGroup \in Group /\ User \cap Reserved = {Oneadmin}
  /\ {SystemDS, OneadminGroup} \subseteq Reserved /\ Reserved \subseteq Object
  /\ Bits \subseteq Grants
  /\ AclRules \subseteq [user : Selectors, types : SUBSET Type, on : Selectors, rights : SUBSET Rights]

-----------------------------------------------------------------------------
(* Calls: the next step is JOIN the list of "to", LEAVE that of "from",    *)
(* put the object BACK, DROP it, or delete the RULES about it.             *)

Calls == [job  : {"MOVE", "CHGRP", "ALLOCATE", "DELETE"},
          step : {"JOIN", "LEAVE", "BACK", "DROP", "RULES"}, obj : Object,
          to : Container \cup {Nowhere}, from : Container \cup {Nowhere}, system : BOOLEAN]
Call(job, step, o, to, from) ==
  [job |-> job, step |-> step, obj |-> o, to |-> to, from |-> from, system |-> o \in systems]
Starts(c)        == Cardinality(calls) < MaxCalls /\ calls' = calls \cup {c}
Goes(c)          == calls' = calls \ {c}
Continues(c, st) == calls' = (calls \ {c}) \cup {[c EXCEPT !.step = st]}

Busy(o)       == \E c \in calls : c.obj = o
Undisturbed(o) == Busy(o) => "SAME_OBJECT" \in Rash
Awaited(k)    == \E c \in calls : c.to = k /\ c.step = "JOIN" /\ c.job # "MOVE"

(* Cluster::add_datastore, and add_host and add_vnet.                      *)
refuses(c) ==
  \/ c.obj \in members[c.to]
  \/ c.obj = SystemDS
  \/ c.obj \in Datastore /\ c.system /\ system_ds[c.to] # SystemDS

AddsSystem(c) == c.obj \in Datastore /\ c.system
add_to_container(c) ==
  /\ members' = [members EXCEPT ![c.to] = @ \cup {c.obj}]
  /\ system_ds' = IF AddsSystem(c) THEN [system_ds EXCEPT ![c.to] = c.obj] ELSE system_ds

del_from_container(c) ==
  /\ members' = [members EXCEPT ![c.from] = @ \ {c.obj}]
  /\ system_ds' = IF c.from \in Cluster /\ system_ds[c.from] = c.obj
                  THEN [system_ds EXCEPT ![c.from] = SystemDS] ELSE system_ds

-----------------------------------------------------------------------------
(* Moves *)

(* RequestManagerCluster::add_generic                                      *)
AfterSet(o, to) == IF to = Nowhere THEN "LEAVE" ELSE "JOIN"
set_cluster(o, k) ==
  /\ Live(o) /\ o \in Clusterables /\ Undisturbed(o)
  /\ k = Nowhere \/ Live(k)
  /\ in[o] # k
  /\ in' = [in EXCEPT ![o] = k]
  /\ Starts(Call("MOVE", AfterSet(o, k), o, k, in[o]))
  /\ UNCHANGED <<life, members, system_ds, systems, owned, acl_rules>>

(* UserChown                                                               *)
set_group(u, g) ==
  /\ Live(u) /\ u \in User \ Reserved /\ Undisturbed(u)
  /\ Live(g) /\ in[u] # g
  /\ in' = [in EXCEPT ![u] = g]
  /\ Starts(Call("CHGRP", "JOIN", u, g, in[u]))
  /\ UNCHANGED <<life, members, system_ds, systems, owned, acl_rules>>

(* A cluster may refuse, a group or a datastore does not look at the       *)
(* result; only a move between clusters is rolled back.                    *)
AfterJoin(c)    == IF c.from = Nowhere THEN Goes(c) ELSE Continues(c, "LEAVE")
AfterRefusal(c) == IF c.job = "MOVE" THEN Continues(c, "BACK") ELSE Continues(c, "DROP")
join(c) ==
  /\ c.step = "JOIN"
  /\ \/ /\ ~Live(c.to)
        /\ IF c.job = "MOVE" THEN Continues(c, "BACK") ELSE Goes(c)
        /\ UNCHANGED <<members, system_ds>>
     \/ /\ Live(c.to) /\ c.to \in Cluster /\ refuses(c)
        /\ AfterRefusal(c)
        /\ UNCHANGED <<members, system_ds>>
     \/ /\ Live(c.to) /\ ~(c.to \in Cluster /\ refuses(c))
        /\ add_to_container(c)
        /\ AfterJoin(c)
  /\ UNCHANGED <<life, in, systems, owned, acl_rules>>

rollback_none(c) ==   \* mutant
  /\ c.step = "BACK"
  /\ Goes(c)
  /\ UNCHANGED <<life, in, members, system_ds, systems, owned, acl_rules>>
rollback(c) ==
  /\ c.step = "BACK"
  /\ in' = IF Live(c.obj) THEN [in EXCEPT ![c.obj] = c.from] ELSE in
  /\ Goes(c)
  /\ UNCHANGED <<life, members, system_ds, systems, owned, acl_rules>>

(* A deletion that finds its object in no list ends there, with the rules  *)
(* about the object left as they are.                                      *)
AfterLeave(c) == IF c.job = "DELETE" THEN Continues(c, "RULES") ELSE Goes(c)
leave(c) ==
  /\ c.step = "LEAVE"
  /\ \/ ~Live(c.from) /\ AfterLeave(c) /\ UNCHANGED <<members, system_ds>>
     \/ /\ Live(c.from) /\ c.from \in Cluster /\ c.obj \notin members[c.from]
        /\ Goes(c)
        /\ UNCHANGED <<members, system_ds>>
     \/ /\ Live(c.from) /\ (c.from \in Cluster => c.obj \in members[c.from])
        /\ del_from_container(c)
        /\ AfterLeave(c)
  /\ UNCHANGED <<life, in, systems, owned, acl_rules>>

-----------------------------------------------------------------------------
(* Objects are made and deleted *)

(* A new object names its container from the first; then it joins it.      *)
(* Images are made in datastores that are no system datastores.            *)
Homeless(o) == Kind[o] \in {"GROUP", "CLUSTER"}
allocate(o) ==
  /\ life[o] = "NONE"
  /\ life' = [life EXCEPT ![o] = "LIVE"]
  /\ \E k \in Homes(o) \cup {Nowhere}, isSystem \in BOOLEAN :
       /\ k = Nowhere => Homeless(o) \/ o \in Clusterables
       /\ k # Nowhere => Live(k)
       /\ Kind[o] = "IMAGE" => k \notin systems
       /\ isSystem => Kind[o] = "DATASTORE"
       /\ in' = [in EXCEPT ![o] = k]
       /\ systems' = IF isSystem THEN systems \cup {o} ELSE systems
       /\ IF k = Nowhere THEN UNCHANGED calls
          ELSE Starts([Call("ALLOCATE", "JOIN", o, k, Nowhere) EXCEPT !.system = isSystem])
  /\ IF o \notin Network THEN UNCHANGED owned
     ELSE \E u \in User, b \in Bits :
            Live(u) /\ owned' = [owned EXCEPT ![o] = [uid |-> u, gid |-> in[u], bits |-> b]]
  /\ UNCHANGED <<members, system_ds, acl_rules>>

(* drop of the pools of clusters, groups and datastores: nothing reserved, *)
(* nothing with members.                                                   *)
CanDrop(o) == o \notin Reserved /\ (o \in Container => members[o] = {})

drop_new(c) ==
  /\ c.step = "DROP"
  /\ life' = [life EXCEPT ![c.obj] = IF Live(c.obj) /\ CanDrop(c.obj) THEN "GONE" ELSE @]
  /\ Goes(c)
  /\ UNCHANGED <<in, members, system_ds, systems, owned, acl_rules>>

(* RequestManagerDelete::drop; an image stays for its driver's answer.     *)
AfterDrop(o) == IF in[o] = Nowhere THEN "RULES" ELSE "LEAVE"
delete(o) ==
  /\ Live(o) /\ CanDrop(o)
  /\ Undisturbed(o) /\ (Awaited(o) => "CONTAINER_DELETED" \in Rash)
  /\ \E l \in (IF Kind[o] = "IMAGE" THEN {"LEAVING", "GONE"} ELSE {"GONE"}) :
       life' = [life EXCEPT ![o] = l]
  /\ Starts(Call("DELETE", AfterDrop(o), o, Nowhere, in[o]))
  /\ UNCHANGED <<in, members, system_ds, systems, owned, acl_rules>>

rm_action(o) ==
  /\ life[o] = "LEAVING"
  /\ life' = [life EXCEPT ![o] = "GONE"]
  /\ UNCHANGED <<in, members, system_ds, systems, owned, acl_rules, calls>>

(* Rules about an object, as del_uid_rules, del_gid_rules, del_cid_rules   *)
(* and del_resource_rules find them; a rule about several types of objects *)
(* stays.                                                                  *)
AsUser(r, o)     == Kind[o] \in {"USER", "GROUP"} /\ r.user = By(Kind[o], o)
AsHome(r, o)     == Kind[o] \in {"GROUP", "CLUSTER"} /\ r.on = By(Kind[o], o)
AsResource(r, o) == r.types = {Kind[o]} /\ r.on = By("ID", o)
About(r, o)      == AsUser(r, o) \/ AsHome(r, o) \/ AsResource(r, o)

del_rules_of_resource(c) ==   \* mutant
  /\ c.step = "RULES"
  /\ acl_rules' = {r \in acl_rules : ~AsResource(r, c.obj)}
  /\ Goes(c)
  /\ UNCHANGED <<life, in, members, system_ds, systems, owned>>
del_rules(c) ==
  /\ c.step = "RULES"
  /\ acl_rules' = {r \in acl_rules : ~About(r, c.obj)}
  /\ Goes(c)
  /\ UNCHANGED <<life, in, members, system_ds, systems, owned>>

-----------------------------------------------------------------------------
(* What is changed in one step *)

(* Datastore::replace_template: a datastore in a cluster does not become   *)
(* the system datastore, nor cease to be one.                              *)
set_type(d) ==
  /\ Live(d) /\ d \in Datastore \ {SystemDS} /\ in[d] = Nowhere
  /\ systems' = IF d \in systems THEN systems \ {d} ELSE systems \cup {d}
  /\ UNCHANGED <<life, in, members, system_ds, owned, acl_rules, calls>>

chown(n) ==
  /\ Live(n) /\ n \in Network
  /\ \/ \E u \in User : Live(u) /\ owned' = [owned EXCEPT ![n].uid = u]
     \/ \E g \in Group : Live(g) /\ owned' = [owned EXCEPT ![n].gid = g]
  /\ UNCHANGED <<life, in, members, system_ds, systems, acl_rules, calls>>

chmod(n) ==
  /\ Live(n) /\ n \in Network
  /\ \E b \in Bits : owned' = [owned EXCEPT ![n].bits = b]
  /\ UNCHANGED <<life, in, members, system_ds, systems, acl_rules, calls>>

Named(r)  == {r.user.id, r.on.id} \cap Object
Ending(o) == \E c \in calls : c.obj = o /\ c.job \in {"DELETE", "ALLOCATE"}
add_rule(r) ==
  /\ r \notin acl_rules /\ ~malformed(r)
  /\ (\E o \in Named(r) : ~Live(o) \/ Ending(o)) => "RULE_FOR_DELETED" \in Rash
  /\ acl_rules' = acl_rules \cup {r}
  /\ UNCHANGED <<life, in, members, system_ds, systems, owned, calls>>

del_rule(r) ==
  /\ acl_rules' = acl_rules \ {r}
  /\ UNCHANGED <<life, in, members, system_ds, systems, owned, calls>>

-----------------------------------------------------------------------------
FirstHome(o) == IF o = Oneadmin THEN OneadminGroup ELSE Nowhere
NoPermissions == [uid |-> Oneadmin, gid |-> OneadminGroup,
                  bits |-> [owner |-> {}, group |-> {}, other |-> {}]]

Init ==
  /\ \E w \in Worlds : life = [o \in Object |-> IF o \in Reserved THEN "LIVE"
                                                 ELSE IF o \in w THEN "NONE" ELSE "GONE"]
  /\ in = [o \in Object |-> FirstHome(o)]
  /\ members = [k \in Container |-> {o \in Object : FirstHome(o) = k}]
  /\ system_ds = [k \in Cluster |-> SystemDS]
  /\ systems = {SystemDS}
  /\ owned = [n \in Network |-> NoPermissions]
  /\ acl_rules = {} /\ calls = {}

CallStep(c) == join(c) \/ rollback(c) \/ leave(c) \/ drop_new(c) \/ del_rules(c)

Next ==
  \/ \E o \in Object : \/ allocate(o) \/ delete(o) \/ rm_action(o)
                       \/ set_type(o) \/ chown(o) \/ chmod(o)
                       \/ \E k \in Homes(o) \cup {Nowhere} : set_cluster(o, k) \/ set_group(o, k)
  \/ \E r \in AclRules : add_rule(r)
  \/ \E r \in acl_rules : del_rule(r)
  \/ \E c \in calls : CallStep(c)

Spec == Init /\ [][Next]_vars

-----------------------------------------------------------------------------
TypeOK ==
  /\ life \in [Object -> {"NONE", "LIVE", "LEAVING", "GONE"}]
  /\ in \in [Object -> Container \cup {Nowhere}]
  /\ members \in [Container -> SUBSET Object]
  /\ system_ds \in [Cluster -> Datastore]
  /\ systems \subseteq Datastore
  /\ owned \in [Network -> [uid : User, gid : Group, bits : Grants]]
  /\ acl_rules \subseteq AclRules
  /\ calls \subseteq Calls

(* "This point should be unreachable": the old cluster of an object that   *)
(* moves still lists it, and cannot be deleted before the last step.       *)
OldClusterLives == \A c \in calls :
  c.step \in {"BACK", "LEAVE"} /\ c.from # Nowhere =>
    Live(c.from) /\ c.obj \in members[c.from]

(* A cluster knows its system datastore, has at most one, and it is one of *)
(* its members: moves, rollbacks, changes of type and deletions agree.     *)
SystemDatastoreKnown == \A k \in Cluster : Live(k) =>
  /\ system_ds[k] # SystemDS => system_ds[k] \in members[k]
  /\ \A d \in members[k] \cap Datastore :
       ~Busy(d) => (d \in systems <=> system_ds[k] = d)

(* What onedb fsck checks of users, clusters and datastores, for all that  *)
(* no request is about: a container that is named exists and lists who     *)
(* names it, and it lists nobody else.                                     *)
FsckMembers ==
  /\ TypeOK /\ OldClusterLives /\ SystemDatastoreKnown
  /\ \A o \in Object : Live(o) /\ ~Busy(o) /\ in[o] # Nowhere =>
       Live(in[o]) /\ o \in members[in[o]]
  /\ \A k \in Container : Live(k) =>
       \A o \in members[k] : Busy(o) \/ (Live(o) /\ in[o] = k)

(* When a deletion has ended no rule names what is gone, so that a rule    *)
(* cannot apply to another object.                                         *)
RulesLive == \A o \in Object, r \in acl_rules :
  life[o] \in {"LEAVING", "GONE"} /\ About(r, o) => Busy(o)

(* A listing shows exactly what its user owns or is authorized to use: the *)
(* WHERE clause and the ACL manager read rules and permissions alike.      *)
As(u)  == [uid |-> u, gid |-> in[u]]
Row(n) == [type |-> "NET", oid |-> n, uid |-> owned[n].uid, gid |-> owned[n].gid,
           cid |-> in[n], owner_rights |-> owned[n].bits.owner,
           group_rights |-> owned[n].bits.group, other_rights |-> owned[n].bits.other]
ListsWhatMayBeUsed == \A u \in User, n \in Network : Live(u) /\ Live(n) =>
  LET Shown(flag) == usr_filter(As(u), flag, Row(n), acl_rules)
      May         == Allowed(As(u), Row(n), "USE", acl_rules) IN
  /\ Shown("ALL") <=> owned[n].uid = u \/ May
  /\ \A flag \in User : Shown(flag) <=> owned[n].uid = flag /\ (flag = u \/ May)
  /\ Shown("MINE") \/ Shown("MINE_GROUP") => Shown("ALL")
=============================================================================
