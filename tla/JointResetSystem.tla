--------------------------- MODULE JointResetSystem ---------------------------
(***************************************************************************)
(* JointResetSystem: the Gazebo plugin that puts the joints of the robot    *)
(* somewhere at once.  Its two services share one handler, which switches   *)
(* the controllers off, hands the request to PreUpdate, waits and switches  *)
(* them on again; PreUpdate runs in Gazebo's own thread.  The service of    *)
(* the offline editor pauses the world, that of the C4G mirror does not.    *)
(*                                                                         *)
(* External: the controller manager.  A switch it does not answer in time   *)
(* may still happen later.  The arm and passive controllers count as one.   *)
(***************************************************************************)
EXTENDS Naturals, Sequences

CONSTANT MaxResets   \* bound: calls of the two services

ASSUME JointResetAssumption == MaxResets \in Nat \ {0}

Calls  == 1 .. MaxResets
NoCall == 0

VARIABLES
  resets,        \* calls the handler has not begun
  handler,       \* where it is, and with which call
  answers,       \* of every call
  restore,       \* controllers_to_restore is not empty
  controllers,   \* external: the controllers are active
  late_switch,   \* external: a switch that was given up and is still to come
  phase, completed, applied,
  world_paused

answerVars  == <<resets, handler, answers, restore>>
managerVars == <<controllers, late_switch>>
phaseVars   == <<phase, completed, applied, world_paused>>
resetVars   == <<answerVars, managerVars, phaseVars>>

Request == [call : Calls, pause : BOOLEAN, valid : BOOLEAN]
Handling == {"idle", "list", "deactivate", "begin", "waiting", "reactivate"}

ResetTypeOK ==
  /\ resets \in Seq(Request)
  /\ handler \in [at : Handling, call : Calls \cup {NoCall}, pause : BOOLEAN]
  /\ answers \in [Calls -> {"none", "ok", "failed"}]
  /\ restore \in BOOLEAN /\ controllers \in BOOLEAN
  /\ late_switch \in {"none", "activate", "deactivate"}
  /\ phase \in {"IDLE", "REQUEST_PAUSE", "WAIT_PAUSED", "WAIT_UNPAUSED"}
  /\ completed \in {"no", "ok", "failed"}
  /\ applied \in BOOLEAN /\ world_paused \in BOOLEAN

Resting == [at |-> "idle", call |-> NoCall, pause |-> FALSE]

(* The controllers may still have to be spawned.                           *)
ResetInit ==
  /\ resets = <<>> /\ handler = Resting
  /\ answers = [c \in Calls |-> "none"]
  /\ restore = FALSE /\ controllers \in BOOLEAN
  /\ late_switch = IF controllers THEN "none" ELSE "activate"
  /\ phase = "IDLE" /\ completed = "no" /\ applied = FALSE
  /\ world_paused = FALSE

-----------------------------------------------------------------------------
(***************************************************************************)
(* The handler.                                                            *)
(***************************************************************************)
At(step) == handler.at = step /\ UNCHANGED resets
Go(step) == handler' = [handler EXCEPT !.at = step] /\ UNCHANGED answers
Answer(call, ok) ==
  /\ answers' = [answers EXCEPT ![call] = IF ok THEN "ok" ELSE "failed"]
  /\ handler' = Resting

(* Both services are in one callback group: one call after the other.       *)
TakeRequest ==
  /\ handler.at = "idle" /\ resets # <<>>
  /\ resets' = Tail(resets)
  /\ LET r == Head(resets) IN
       IF r.valid THEN /\ handler' = [at |-> "list", call |-> r.call, pause |-> r.pause]
                       /\ UNCHANGED answers
                  ELSE Answer(r.call, FALSE)
  /\ UNCHANGED <<restore, managerVars, phaseVars>>

(* SwitchControllers: what it returns, and what the manager does.  A list   *)
(* of no controllers is no call; calls are served in turn.                 *)
SwitchControllers(on, ok) ==
  \/ ~restore' /\ ok /\ UNCHANGED managerVars
  \/ /\ restore' /\ ok /\ late_switch = "none"
     /\ controllers' = on /\ UNCHANGED late_switch
  \/ /\ restore' /\ ~ok /\ UNCHANGED controllers
     /\ \/ UNCHANGED late_switch
        \/ /\ late_switch = "none"
           /\ late_switch' = IF on THEN "activate" ELSE "deactivate"

ActiveResetControllers ==
  /\ At("list")
  /\ \/ restore' = controllers /\ Go("deactivate")
     \/ UNCHANGED restore /\ Answer(handler.call, FALSE)
  /\ UNCHANGED <<managerVars, phaseVars>>

(* A switch that fails is not taken back.                                  *)
DeactivateControllers ==
  /\ At("deactivate") /\ UNCHANGED restore
  /\ \/ SwitchControllers(FALSE, TRUE) /\ Go("begin")
     \/ SwitchControllers(FALSE, FALSE) /\ Answer(handler.call, FALSE)
  /\ UNCHANGED phaseVars

(* A reset still pending in PreUpdate would refuse this one.               *)
BeginReset ==
  /\ At("begin") /\ UNCHANGED restore
  /\ IF phase # "IDLE"
       THEN /\ controllers' \in BOOLEAN /\ Answer(handler.call, FALSE)
            /\ UNCHANGED <<late_switch, phaseVars>>
       ELSE /\ phase' = "REQUEST_PAUSE" /\ completed' = "no"
            /\ applied' = FALSE /\ Go("waiting")
            /\ UNCHANGED <<managerVars, world_paused>>

WaitEnds ==
  /\ At("waiting") /\ completed # "no"
  /\ Go("reactivate")
  /\ UNCHANGED <<restore, managerVars, phaseVars>>

(* Mutant: a wait that is given up leaves the request to PreUpdate.         *)
RequestStays == UNCHANGED <<phase, world_paused>>

(* What is taken back when the wait of five seconds is given up.           *)
RequestWithdrawn ==
  /\ phase' = "IDLE"
  /\ world_paused' = (world_paused /\ ~handler.pause)

WaitTimesOut ==
  /\ At("waiting") /\ completed = "no"
  /\ completed' = "failed" /\ RequestWithdrawn
  /\ Go("reactivate")
  /\ UNCHANGED <<restore, managerVars, applied>>

ReactivateControllers ==
  /\ At("reactivate") /\ UNCHANGED restore
  /\ \E ok \in BOOLEAN : /\ SwitchControllers(TRUE, ok)
                         /\ Answer(handler.call, ok /\ completed = "ok")
  /\ UNCHANGED phaseVars

(* External: the manager carries out the switch that was given up, or the   *)
(* controllers are spawned.                                                *)
LateSwitch ==
  /\ late_switch # "none"
  /\ controllers' = (late_switch = "activate") /\ late_switch' = "none"
  /\ UNCHANGED <<answerVars, phaseVars>>

-----------------------------------------------------------------------------
(***************************************************************************)
(* PreUpdate, once per simulation step.                                    *)
(***************************************************************************)
PreUpdateRest == UNCHANGED <<answerVars, managerVars>>

RequestPause ==
  /\ phase = "REQUEST_PAUSE" /\ handler.pause
  /\ world_paused' = TRUE /\ phase' = "WAIT_PAUSED"
  /\ UNCHANGED <<completed, applied>> /\ PreUpdateRest

(* A joint may be unknown.  The world need not be paused for the mirror.    *)
ApplyReset ==
  /\ \/ phase = "REQUEST_PAUSE" /\ ~handler.pause
     \/ phase = "WAIT_PAUSED" /\ world_paused
  /\ applied' \in BOOLEAN
  /\ world_paused' = (world_paused /\ ~handler.pause) /\ phase' = "WAIT_UNPAUSED"
  /\ UNCHANGED completed /\ PreUpdateRest

(* Once the joints have settled they match, or have not matched in time.    *)
CompleteReset ==
  /\ phase = "WAIT_UNPAUSED"
  /\ completed' \in IF applied THEN {"ok", "failed"} ELSE {"failed"}
  /\ phase' = "IDLE"
  /\ UNCHANGED <<applied, world_paused>> /\ PreUpdateRest

HandlerStep ==
  \/ TakeRequest \/ ActiveResetControllers \/ DeactivateControllers
  \/ BeginReset \/ WaitEnds \/ WaitTimesOut \/ ReactivateControllers

PreUpdate == RequestPause \/ ApplyReset \/ CompleteReset

ResetStep == HandlerStep \/ LateSwitch \/ PreUpdate
=============================================================================
