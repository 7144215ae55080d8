---------------------------------- MODULE Acl ----------------------------------
(***************************************************************************)
(* Who may do what to which object, and what the listing of a pool shows:  *)
(* the rules of the ACL manager, the permission bits of an object, which   *)
(* are turned into rules, and the WHERE clause of a pool listing, which is *)
(* made of the same rules by another piece of code.                        *)
(*                                                                         *)
(* The code packs a user, a resource or the rights into the bits of a long *)
(* integer: the kind of the selector, the types, the identifier.  Here a   *)
(* selector is a record, types and rights are sets.                        *)
(***************************************************************************)
EXTENDS Integers

CONSTANTS Oneadmin, OneadminGroup,   \* user 0 and group 0
          NoId                       \* an identifier of -1, and that of *

Type   == {"VM", "HOST", "NET", "IMAGE", "USER", "TEMPLATE", "GROUP", "ACL",
           "DATASTORE", "CLUSTER", "DOCUMENT"}
Rights == {"USE", "MANAGE", "ADMIN", "CREATE"}
INVALID_CLUSTER_OBJECTS == Type \ {"HOST", "NET", "DATASTORE"}

(* A selector of users or of resources, and a rule.                        *)
By(kind, id)                  == [by |-> kind, id |-> id]
Everyone                      == By("ALL", NoId)
Rule(user, types, on, rights) == [user |-> user, types |-> types, on |-> on, rights |-> rights]

malformed(r) ==
  \/ \E s \in {r.user, r.on} : s.by = "ALL" <=> s.id # NoId
  \/ r.on.by = "CLUSTER" /\ r.types \cap INVALID_CLUSTER_OBJECTS # {}
  \/ r.types = {} \/ r.rights = {}

-----------------------------------------------------------------------------
(* An object as its permissions show it: its type, identifier, owner,      *)
(* group and cluster, and the rights of owner, group and others.           *)

get_acl_rules(obj) ==
  {Rule(By("USER", obj.uid), {obj.type}, By("ID", obj.oid), obj.owner_rights),
   Rule(By("GROUP", obj.gid), {obj.type}, By("ID", obj.oid), obj.group_rights),
   Rule(Everyone, {obj.type}, By("ID", obj.oid), obj.other_rights)}

Applies(r, obj) ==
  /\ obj.type \in r.types
  /\ \/ r.on.by = "ALL"
     \/ obj.gid # NoId /\ r.on = By("GROUP", obj.gid)
     \/ obj.oid # NoId /\ r.on = By("ID", obj.oid)
     \/ obj.cid # NoId /\ r.on = By("CLUSTER", obj.cid)

match_rules(user, obj, op, rules) ==
  \E r \in rules : r.user = user /\ op \in r.rights /\ Applies(r, obj)

(* The selectors of a user: everyone, his own, that of his group.          *)
UserSelectors(u) == {Everyone, By("USER", u.uid), By("GROUP", u.gid)}

authorize_without_permissions(u, obj, op, rules) ==   \* mutant
  \E user \in UserSelectors(u) : match_rules(user, obj, op, rules)
authorize(u, obj, op, rules) ==
  \E user \in UserSelectors(u) :
    match_rules(user, obj, op, get_acl_rules(obj)) \/ match_rules(user, obj, op, rules)

Administrator(u) == u.uid = Oneadmin \/ u.gid = OneadminGroup

(* AuthRequest::add_auth and core_authorize                                *)
Allowed(u, obj, op, rules) == Administrator(u) \/ authorize(u, obj, op, rules)

-----------------------------------------------------------------------------
(* Listings.  A row of a pool's table has the columns oid, uid, gid, cid,  *)
(* owner_u, group_u and other_u.                                           *)

Found(u, type, op, rules) ==
  {r \in rules : r.user \in UserSelectors(u) /\ op \in r.rights /\ type \in r.types}

reverse_search_all(u, type, op, rules) == \E r \in Found(u, type, op, rules) : r.on.by = "ALL"
reverse_search(kind, u, type, op, rules) ==
  IF reverse_search_all(u, type, op, rules) THEN {}
  ELSE {r.on.id : r \in {s \in Found(u, type, op, rules) : s.on.by = kind}}

acl_filter_all(u, type, rules) == Administrator(u) \/ reverse_search_all(u, type, "USE", rules)
acl_filter(u, row, rules) ==
  /\ ~Administrator(u)
  /\ \/ row.oid \in reverse_search("ID", u, row.type, "USE", rules)
     \/ row.gid \in reverse_search("GROUP", u, row.type, "USE", rules)
     \/ row.cid \in reverse_search("CLUSTER", u, row.type, "USE", rules)

(* The filter flags: MINE, MINE_GROUP, ALL, or the identifier of a user.   *)
Shared(u, row) == row.gid = u.gid /\ "USE" \in row.group_rights
Public(row)    == "USE" \in row.other_rights

usr_filter(u, flag, row, rules) ==
  LET found == acl_filter_all(u, row.type, rules) \/ acl_filter(u, row, rules)
      own   == row.uid = u.uid
      open  == Shared(u, row) \/ Public(row)
  IN  \/ flag = "MINE" /\ own
      \/ flag = "MINE_GROUP" /\ (own \/ Shared(u, row))
      \/ flag = "ALL" /\ (own \/ open \/ found)
      \/ /\ flag \notin {"MINE", "MINE_GROUP", "ALL"} /\ row.uid = flag
         /\ flag = u.uid \/ open \/ found
=============================================================================
