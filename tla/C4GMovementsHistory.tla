------------------------ MODULE C4GMovementsHistory ------------------------
(***************************************************************************)
(* C4GMovements with a memory of aborts: two variables that no step of the  *)
(* program reads.                                                          *)
(***************************************************************************)
EXTENDS C4GMovements

VARIABLES
  void,    \* the PATH was aborted after its beginPath
  hit      \* how an abort met the motion of the call in progress

history     == <<void, hit>>
historyVars == <<movementVars, history>>

(* "stopped": the arm was stopped; "late": in front of a MOVEFLY that is    *)
(* past its check; "restarted": by this MOVEFLY the arm was started again.  *)
Hits == {"no", "stopped", "late", "restarted"}

PastItsCheck == /\ service = "admitted"
                /\ call.op \in {"beginPath", "commitPath", "executePath"}

InMotion == arm # "none" /\ service \in {"moving", "flycheck", "flymove"}

AbortRemembered ==
  /\ void' = (void \/ ~PastItsCheck)
  /\ hit' = IF ~InMotion THEN hit
            ELSE IF service = "flymove" THEN "late" ELSE "stopped"

Begun == service = "admitted" /\ call.op = "beginPath" /\ service' # "admitted"

StepRemembered ==
  /\ void' = (void /\ ~Begun)
  /\ hit' = IF service' = "idle" THEN "no"
            ELSE IF hit = "late" /\ service' # "flymove" THEN "restarted" ELSE hit

HistoryInit == Init /\ void = FALSE /\ hit = "no"

HistoryNext ==
  \/ request_abort /\ AbortRemembered
  \/ (MainStep \/ ArmStep \/ ControlStep \/ Interrupt) /\ StepRemembered

HistorySpec == HistoryInit /\ [][HistoryNext]_historyVars

-----------------------------------------------------------------------------
(* A PATH aborted during its upload or its motion never moves the arm      *)
(* until it is begun again, although the next command clears the abort     *)
(* flag: request_abort closes the upload and the READY state.  An abort    *)
(* between the checks of beginPath, commitPath or executePath and their    *)
(* assignments (PastItsCheck) is overwritten by them and not counted.      *)
AbortedPathStaysDown == [][arm # "path" /\ arm' = "path" => ~void]_historyVars

(* A motion command that an abort has stopped the arm in, and that returns, *)
(* returns ABORTED, and until then the arm stands still.  The exception is   *)
(* an abort between check_aborted and its MOVEFLY: this one starts the arm   *)
(* once more, which may still move when the command has returned, and none  *)
(* follows it.                                                              *)
AbortedMotionIsReported ==
  /\ hit # "no" /\ service = "returned" => returned = "ABORTED"
  /\ hit \in {"stopped", "late"} => arm = "none"
  /\ hit = "restarted" => service # "flymove"
=============================================================================
