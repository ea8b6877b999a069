----------------------------- MODULE PathUpload -----------------------------
(***************************************************************************)
(* The upload of a PATH: execute_path_callback of the arm action server     *)
(* sends the commands path_protocol.py makes of a goal it has accepted, one *)
(* after the other, and the movement service serves them, while abort       *)
(* handlers, pauses and continues come in between.                         *)
(*                                                                         *)
(* An answer that is not OK ends the upload and the connection, which the   *)
(* controller takes no second time; a cancel is looked for in front of each *)
(* command but executePath.  ArmExecuteActionServer has the connection and  *)
(* the deadlines; here the commands and what is checked of them meet.       *)
(***************************************************************************)
EXTENDS C4GMovementsHistory, Sequences

CONSTANTS
  MaxId,      \* the largest positive INTEGER of the controller
  PathGoals   \* the PATH goals of clients

P == INSTANCE PathProtocol

ASSUME UploadAssumption == \A g \in PathGoals : g \in P!PathGoal

VARIABLES
  goal,       \* the PATH of the upload
  uploaded,   \* how many of its commands were sent
  upload      \* "sending", or "over" after a failure or a cancel

bridgeVars == <<goal, uploaded, upload>>
pathUploadVars == <<historyVars, bridgeVars>>

PathUploadTypeOK ==
  /\ goal \in PathGoals /\ uploaded \in Nat /\ upload \in {"sending", "over"}

-----------------------------------------------------------------------------
UploadOf(g) == Append(P!build_upload_commands(g), P!execute_path_command(g))

UploadInit ==
  /\ HistoryInit
  /\ goal \in {g \in PathGoals : P!BridgeAccepts(g)}
  /\ uploaded = 0 /\ upload = "sending"

(* _perform_command of the next command. *)
SendNext ==
  /\ service = "cleared"
  /\ upload = "sending" /\ uploaded < Len(UploadOf(goal))
  /\ call_service(UploadOf(goal)[uploaded + 1])
  /\ uploaded' = uploaded + 1 /\ UNCHANGED upload

(* _best_effort_abort_path of a canceled goal. *)
Withdraw ==
  /\ service = "cleared"
  /\ upload = "sending" /\ uploaded + 1 < Len(UploadOf(goal))
  /\ call_service([op |-> "abortPathUpload", id |-> goal.path_id])
  /\ upload' = "over" /\ UNCHANGED uploaded

(* An answer that is not "Movement finished" raises. *)
TakeAnswer ==
  /\ TakeResult
  /\ upload' = IF returned = "OK" THEN upload ELSE "over"
  /\ UNCHANGED uploaded

UploadServed ==
  /\ \/ reset_abort \/ ApplyRoutine \/ execute_path \/ MoveReturns \/ CheckAfterMove
  /\ UNCHANGED <<uploaded, upload>>

UploadStep ==
  \/ SendNext \/ Withdraw \/ TakeAnswer \/ UploadServed
  \/ (ArmStep \/ ControlStep \/ Interrupt) /\ UNCHANGED <<uploaded, upload>>

UploadNext ==
  /\ \/ request_abort /\ AbortRemembered /\ UNCHANGED <<uploaded, upload>>
     \/ UploadStep /\ StepRemembered
  /\ UNCHANGED goal

UploadSpec == UploadInit /\ [][UploadNext]_pathUploadVars

-----------------------------------------------------------------------------
(* What the bridge has accepted the controller does not refuse: the checks  *)
(* of path_protocol.py:56-229 leave nothing to those of begin_path ..       *)
(* commit_path and execute_path, whatever interrupts come in between.  The  *)
(* exception is a JOINT PATH with a table of frames, which the bridge       *)
(* accepts and set_path_frame refuses.                                     *)
UploadIsAccepted ==
  /\ upload = "sending" /\ ~void /\ service = "returned" /\ returned # "ABORTED"
  /\ goal.path_type = "JOINT" => goal.frames = <<>>
  => returned = "OK"
=============================================================================
