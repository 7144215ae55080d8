------------------------------- MODULE MCQuotas -------------------------------
(***************************************************************************)
(* Two users in a group each.  Alice may have one lease and CPU for one    *)
(* big VM and a small one, her group one VM; Bob and his group have no     *)
(* limits but the default ones.  Bob asks for the resizes, of Alice's VM or *)
(* of his; one is rolled back.  The daemon is killed once, at any moment.  *)
(***************************************************************************)
EXTENDS CoreState, TLC

CONSTANTS alice, bob, staff, guests

MCUser    == {alice, bob}
MCGroup   == {staff, guests}
MCGroupOf == alice :> staff @@ bob :> guests
ByDefault == [m \in Metric |-> TheDefault]
MCFirstLimits == alice :> [ByDefault EXCEPT !["CPU"] = 3, !["LEASES"] = 1]
                 @@ staff :> [ByDefault EXCEPT !["VMS"] = 1]
                 @@ bob :> ByDefault @@ guests :> ByDefault
                 @@ "USERS" :> [[m \in Metric |-> Unlimited] EXCEPT !["VMS"] = 1]
                 @@ "GROUPS" :> [m \in Metric |-> Unlimited]
MCAskers == {Owner(bob, guests)}
MCSettings ==
  {[to |-> alice, family |-> "VM", limit |-> [VMS |-> TheDefault, CPU |-> NoLimit]],
   [to |-> staff, family |-> "VM", limit |-> [VMS |-> 1, CPU |-> 1]],
   [to |-> "USERS", family |-> "VM", limit |-> [VMS |-> NoLimit, CPU |-> Unlimited]]}
(* Any statement that makes a table may fail, but that for the numbers.    *)
Unsure == ToSet(Bootstrap) \ {"pool_control"}
=============================================================================
