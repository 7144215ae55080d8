------------------------------ MODULE CoreState ------------------------------
(***************************************************************************)
(* What the core keeps in its database, in two parts that are looked at by *)
(* themselves: the ledgers of users and groups, which requests change; and *)
(* the objects and numbers of a pool, which the daemon makes, finds again  *)
(* when it is restarted, and serves to users.                              *)
(***************************************************************************)
EXTENDS Quotas, Daemon

VARIABLE present     \* the accounts, or the pool whose objects users make

account_vars == vars
state_vars   == <<account_vars, daemon_vars, present>>

AccountStep(A) == present = "ACCOUNTS" /\ A /\ UNCHANGED <<daemon_vars, present>>
DaemonStep(A)  == present \in Stored /\ A /\ UNCHANGED <<account_vars, present>>

StateInit == Init /\ DaemonInit /\ present \in {"ACCOUNTS"} \cup Stored
StateNext == AccountStep(Next) \/ DaemonStep(DaemonNext({present}))
StateSpec == StateInit /\ [][StateNext]_state_vars
=============================================================================
