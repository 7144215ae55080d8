--------------------------- MODULE TransferManager ---------------------------
(***************************************************************************)
(* The TM thread writes a transfer script for the action it is given and   *)
(* has the driver run it.  The driver answers TRANSFER, success or         *)
(* failure, whatever the script was for: the answer is taken to belong to  *)
(* the LCM state the VM is in when it arrives.                             *)
(***************************************************************************)
EXTENDS VMCore

PrologScripts == {"PROLOG", "PROLOG_MIGR", "PROLOG_RESUME"}
EpilogScripts == {"EPILOG", "EPILOG_STOP", "EPILOG_DELETE", "EPILOG_DELETE_STOP",
                  "EPILOG_DELETE_BOTH"}
Scripts    == PrologScripts \cup EpilogScripts \cup {"SAVEAS_HOT"}
TmActions  == Scripts \cup {"DRIVER_CANCEL"}

(* The script of the action is handed to the driver.                       *)
tm_transfer ==
  \E s \in Scripts :
    /\ Receive("TM", s)
    /\ Issue("TM", s)
    /\ Handled("TM")

(* The VM has no history, or the driver or a file is not there.            *)
tm_error ==
  \E s \in Scripts :
    /\ Receive("TM", s)
    /\ HandledTo("TM", "LCM", <<CASE s \in PrologScripts -> "PROLOG_FAILURE"
                                  [] s \in EpilogScripts -> "EPILOG_FAILURE"
                                  [] OTHER -> "SAVEAS_HOT_DONE">>)
    /\ UNCHANGED driver

tm_driver_cancel ==
  /\ Receive("TM", "DRIVER_CANCEL")
  /\ \E left \in Cancelled(driver["TM"]) :
       driver' = [driver EXCEPT !["TM"] = left]
  /\ Handled("TM")

-----------------------------------------------------------------------------
Meaning_not_cleaning(success) ==              \* mutant
  CASE vm.lcm \in PrologStates ->
         <<IF success THEN "PROLOG_SUCCESS" ELSE "PROLOG_FAILURE">>
    [] vm.lcm \in EpilogStates ->
         <<IF success THEN "EPILOG_SUCCESS" ELSE "EPILOG_FAILURE">>
    [] OTHER -> <<>>

(* What a TRANSFER answer means in the LCM state the VM is in; in all the  *)
(* other states it is logged as an error.                                  *)
Meaning(success) ==
  CASE vm.lcm \in PrologStates ->
         <<IF success THEN "PROLOG_SUCCESS" ELSE "PROLOG_FAILURE">>
    [] vm.lcm \in EpilogStates \cup {"CLEANUP_RESUBMIT"} ->
         <<IF success THEN "EPILOG_SUCCESS" ELSE "EPILOG_FAILURE">>
    [] vm.lcm \in SaveasStates -> <<"SAVEAS_HOT_DONE">>
    [] OTHER -> <<>>

tm_answered(i, success) ==
  /\ ~locked
  /\ Answer("TM", i)
  /\ trigger("LCM", Meaning(success))

tm_answer ==
  \E i \in 1..Len(driver["TM"]), success \in BOOLEAN : tm_answered(i, success)

(* The driver process died and is started again: its scripts are lost.     *)
tm_driver_lost ==
  /\ driver["TM"] # <<>>
  /\ driver' = [driver EXCEPT !["TM"] = <<>>]
  /\ UNCHANGED queue

TmCommand == tm_transfer \/ tm_driver_cancel

TmFrame == UNCHANGED <<vm, capacity, rm, locked, released>>
=============================================================================
