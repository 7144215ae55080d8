---------------------------- MODULE ActionManager ----------------------------
(***************************************************************************)
(* The event loop of a manager: actions are triggered by any thread and    *)
(* handled one at a time by the thread of the manager, which waits on a    *)
(* condition while there are none, until the timer of the manager is due.  *)
(*                                                                         *)
(* The mutex of the queue is held only while a thread looks at it: what a  *)
(* thread does under it is one step.                                       *)
(***************************************************************************)
EXTENDS Integers, Sequences

CONSTANTS Manager, Action,
          Timed,         \* the managers whose loop has a timer
          MaxActions,    \* bound: actions in a queue
          TIMER, FINALIZE, NoAction

ASSUME ActionAssumption ==
  /\ Timed \subseteq Manager /\ MaxActions \in Nat
  /\ TIMER # FINALIZE /\ NoAction \notin {TIMER, FINALIZE} /\ {TIMER, FINALIZE, NoAction} \cap Action = {}

VARIABLES actions,   \* the queue
          loop,      \* where the thread of the manager is
          acting,    \* the action that do_action has
          due        \* whether the time of the timer has come

am_vars == <<actions, loop, acting, due>>

Events  == Action \cup {TIMER, FINALIZE}
Loop    == {"LOOK",      \* to lock the queue and look at it
            "WAIT",      \* in pthread_cond_wait
            "TIMEDOUT",  \* out of pthread_cond_timedwait, without the mutex yet
            "ACT",       \* in do_action
            "ENDED"}

AmTypeOK ==
  /\ actions \in [Manager -> Seq(Events)]
  /\ loop \in [Manager -> Loop]
  /\ acting \in [Manager -> Events \cup {NoAction}]
  /\ due \in [Manager -> BOOLEAN]

AmInit ==
  /\ actions = [m \in Manager |-> <<>>]
  /\ loop = [m \in Manager |-> "LOOK"]
  /\ acting = [m \in Manager |-> NoAction]
  /\ due = [m \in Manager |-> FALSE]

HasRoom(m) == Len(actions[m]) < MaxActions

trigger_unsignalled(m, a) ==   \* mutant
  /\ actions' = [actions EXCEPT ![m] = Append(@, a)]
  /\ UNCHANGED <<loop, acting, due>>
trigger(m, a) ==
  /\ actions' = [actions EXCEPT ![m] = Append(@, a)]
  /\ loop' = [loop EXCEPT ![m] = IF @ = "WAIT" THEN "LOOK" ELSE @]
  /\ UNCHANGED <<acting, due>>

(* The wait releases the mutex in the same step.                           *)
wait(m) ==
  /\ loop[m] = "LOOK" /\ actions[m] = <<>>
  /\ loop' = [loop EXCEPT ![m] = "WAIT"]
  /\ UNCHANGED <<actions, acting, due>>

take(m) ==
  /\ loop[m] = "LOOK" /\ actions[m] # <<>>
  /\ acting' = [acting EXCEPT ![m] = Head(actions[m])]
  /\ actions' = [actions EXCEPT ![m] = Tail(@)]
  /\ loop' = [loop EXCEPT ![m] = "ACT"]
  /\ UNCHANGED due

(* The timer is looked at nowhere but in the wait.                         *)
time_out(m) ==
  /\ loop[m] = "WAIT" /\ m \in Timed /\ due[m]
  /\ loop' = [loop EXCEPT ![m] = "TIMEDOUT"]
  /\ UNCHANGED <<actions, acting, due>>

push_timer(m) ==
  /\ loop[m] = "TIMEDOUT"
  /\ actions' = [actions EXCEPT ![m] = Append(@, TIMER)]
  /\ loop' = [loop EXCEPT ![m] = "LOOK"]
  /\ UNCHANGED <<acting, due>>

(* do_action is back.                                                      *)
acted(m) ==
  /\ loop[m] = "ACT"
  /\ loop' = [loop EXCEPT ![m] = IF acting[m] = FINALIZE THEN "ENDED" ELSE "LOOK"]
  /\ due' = [due EXCEPT ![m] = IF acting[m] = TIMER THEN FALSE ELSE @]
  /\ acting' = [acting EXCEPT ![m] = NoAction]
  /\ UNCHANGED actions

time_passes(m) ==
  /\ m \in Timed /\ ~due[m]
  /\ due' = [due EXCEPT ![m] = TRUE]
  /\ UNCHANGED <<actions, loop, acting>>

LoopStep(m) == wait(m) \/ take(m) \/ time_out(m) \/ push_timer(m)

(* Actions that are queued, none of them behind the FINALIZE.              *)
Queued(m, a) ==
  /\ loop[m] # "ENDED" /\ acting[m] # FINALIZE
  /\ \E i \in 1..Len(actions[m]) : actions[m][i] = a /\ \A j \in 1..(i - 1) : actions[m][j] # FINALIZE
=============================================================================
