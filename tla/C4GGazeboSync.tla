---------------------------- MODULE C4GGazeboSync ----------------------------
(***************************************************************************)
(* C4GGazeboSyncNode: makes Gazebo mirror the controller.  A teleport pauses *)
(* the passive joint solver, resets all joints, verifies the pose, resumes  *)
(* the solver and only then follows the feedback live.  The node runs one   *)
(* callback at a time; its calls to the solver and to the reset system are  *)
(* asynchronous and the timer polls their futures.                         *)
(*                                                                         *)
(* Left out: positions, and with them the limit check and the pose checks,  *)
(* which may go either way; clocks, so that a timeout may come at any time. *)
(* set_enabled of the solver always succeeds.                              *)
(***************************************************************************)
EXTENDS JointResetSystem

CONSTANT Setups   \* parameters: initial_sync_mode, require_initial_gazebo_pose,
                  \* require_passive_solver_handover, and whether the service
                  \* of the solver can be away

ASSUME SyncAssumption ==
  Setups \subseteq [mode : {"blend", "teleport"}, pose : BOOLEAN,
                    handover : BOOLEAN, away : BOOLEAN]

States == {"DISABLED", "ERROR", "WAIT_INITIAL_GAZEBO", "WAIT_C4G_FEEDBACK",
           "PREPARE_TELEPORT", "RESET_TO_REAL", "VERIFY_RESET",
           "RESUME_PASSIVE_SOLVER", "BLEND_TO_REAL", "LIVE_SYNC"}

VARIABLES
  setup,
  state,
  reset_future,           \* the call of the node whose answer it wants
  sent,                   \* calls of the two services so far
  solver,                 \* GazeboPassiveJointController06._solver_enabled
  solver_calls,           \* set_enabled calls on their way
  passive_solver_future,
  passive_solver_paused

solverVars == <<solver, solver_calls, passive_solver_future, passive_solver_paused>>
nodeVars   == <<state, reset_future, sent>>
mirrorVars == <<setup, nodeVars, solverVars, resetVars>>

TypeOK ==
  /\ ResetTypeOK
  /\ setup \in Setups /\ state \in States
  /\ reset_future \in Calls \cup {NoCall} /\ sent \in 0 .. MaxResets
  /\ solver \in BOOLEAN /\ solver_calls \in Seq(BOOLEAN)
  /\ passive_solver_future \in {"none", "pending", "done"}
  /\ passive_solver_paused \in BOOLEAN

_initial_sync_wait_state ==
  IF setup.pose THEN "WAIT_INITIAL_GAZEBO" ELSE "WAIT_C4G_FEEDBACK"

Init ==
  /\ ResetInit
  /\ setup \in Setups
  /\ state \in {"DISABLED", _initial_sync_wait_state}
  /\ reset_future = NoCall /\ sent = 0
  /\ solver = TRUE /\ solver_calls = <<>>
  /\ passive_solver_future = "none" /\ passive_solver_paused = FALSE

-----------------------------------------------------------------------------
In(s)    == state = s /\ UNCHANGED <<setup, sent>>
Enter(s) == state' = s
Rest     == UNCHANGED resetVars

(* call_async of the solver's service.                                     *)
CallSolver(on) ==
  /\ solver_calls' = Append(solver_calls, on)
  /\ passive_solver_future' = "pending"
  /\ UNCHANGED solver

(* ~/enable, when the node is disabled or in error.                        *)
_enable_sync ==
  /\ state \in {"DISABLED", "ERROR"}
  /\ Enter(_initial_sync_wait_state)
  /\ reset_future' = NoCall /\ passive_solver_future' = "none"
  /\ UNCHANGED <<setup, sent, solver, solver_calls, passive_solver_paused>>
  /\ Rest

(* Gazebo has kept its initial pose for long enough.                       *)
InitialPoseReached ==
  /\ In("WAIT_INITIAL_GAZEBO")
  /\ Enter("WAIT_C4G_FEEDBACK")
  /\ UNCHANGED <<reset_future, solverVars>> /\ Rest

Blend ==
  /\ In("WAIT_C4G_FEEDBACK") /\ setup.mode = "blend"
  /\ Enter("BLEND_TO_REAL")
  /\ UNCHANGED <<reset_future, solverVars>> /\ Rest

Blended ==
  /\ In("BLEND_TO_REAL") /\ Enter("LIVE_SYNC")
  /\ UNCHANGED <<reset_future, solverVars>> /\ Rest

(* The target is outside the joint limits, or the solver is away.          *)
_prepare_teleport ==
  /\ In("WAIT_C4G_FEEDBACK") /\ setup.mode = "teleport" /\ sent < MaxResets
  /\ \/ Enter("ERROR") /\ UNCHANGED solverVars
     \/ /\ Enter("PREPARE_TELEPORT")
        /\ IF setup.handover
             THEN CallSolver(FALSE) /\ UNCHANGED passive_solver_paused
             ELSE UNCHANGED solverVars
  /\ UNCHANGED reset_future /\ Rest

(* Mutant: the pause is not waited for.                                    *)
PauseAsked == TRUE

PauseAnswered == passive_solver_future # "pending"

(* _poll_teleport_prepare; _start_joint_reset tries again as long as the    *)
(* reset service is away.                                                  *)
_poll_teleport_prepare ==
  /\ state = "PREPARE_TELEPORT" /\ PauseAnswered /\ UNCHANGED setup
  /\ passive_solver_future' = "none"
  /\ passive_solver_paused' = (passive_solver_paused \/ passive_solver_future = "done")
  /\ \/ /\ sent' = sent + 1 /\ reset_future' = sent + 1
        /\ resets' = Append(resets, [call |-> sent + 1, pause |-> FALSE, valid |-> TRUE])
        /\ Enter("RESET_TO_REAL")
     \/ UNCHANGED <<sent, reset_future, resets, state>>
  /\ UNCHANGED <<solver, solver_calls, handler, answers, restore, managerVars,
                 phaseVars>>

(* Mutant: a solver that is paused stays so.                                *)
ResumeNever == FALSE

ResumeWanted == passive_solver_paused

(* The enable call is not looked at again, and is not made when the service *)
(* of the solver is away.                                                  *)
_abort_teleport ==
  /\ Enter("ERROR")
  /\ passive_solver_paused' = FALSE
  /\ \/ ResumeWanted /\ CallSolver(TRUE)
     \/ /\ ResumeWanted => setup.away
        /\ UNCHANGED <<solver, solver_calls, passive_solver_future>>

(* Mutant: any answer of the reset service is taken for the awaited one.    *)
LastAnswer ==
  IF \E c \in Calls : answers[c] # "none"
    THEN answers[CHOOSE c \in Calls : /\ answers[c] # "none"
                                      /\ \A d \in Calls : d > c => answers[d] = "none"]
    ELSE "none"

ResetAnswer == IF reset_future = NoCall THEN "none" ELSE answers[reset_future]

(* The handover goes to the passive controller and to the arm.             *)
ResetAnswered ==
  /\ In("RESET_TO_REAL") /\ ResetAnswer # "none"
  /\ reset_future' = NoCall
  /\ IF ResetAnswer = "ok" THEN Enter("VERIFY_RESET") /\ UNCHANGED solverVars
                           ELSE _abort_teleport
  /\ Rest

ResetTimesOut ==
  /\ In("RESET_TO_REAL") /\ ResetAnswer = "none"
  /\ reset_future' = NoCall /\ _abort_teleport
  /\ Rest

(* Stable for long enough, or not in time.                                 *)
Verify ==
  /\ In("VERIFY_RESET") /\ UNCHANGED reset_future
  /\ \/ ~setup.handover /\ Enter("LIVE_SYNC") /\ UNCHANGED solverVars
     \/ /\ setup.handover /\ Enter("RESUME_PASSIVE_SOLVER")
        /\ CallSolver(TRUE) /\ UNCHANGED passive_solver_paused
     \/ setup.handover /\ setup.away /\ Enter("ERROR") /\ UNCHANGED solverVars
     \/ _abort_teleport
  /\ Rest

ResumeAnswered == passive_solver_future = "done"

Resumed ==
  /\ In("RESUME_PASSIVE_SOLVER") /\ ResumeAnswered
  /\ passive_solver_future' = "none" /\ passive_solver_paused' = FALSE
  /\ Enter("LIVE_SYNC")
  /\ UNCHANGED <<reset_future, solver, solver_calls>> /\ Rest

(* set_enabled_callback of the solver; the node looks at the answer of its  *)
(* last call only.                                                         *)
set_enabled_callback ==
  /\ solver_calls # <<>>
  /\ solver' = Head(solver_calls) /\ solver_calls' = Tail(solver_calls)
  /\ passive_solver_future' =
       IF Len(solver_calls) = 1 /\ passive_solver_future = "pending"
         THEN "done" ELSE passive_solver_future
  /\ UNCHANGED <<setup, nodeVars, passive_solver_paused>> /\ Rest

(* The sequence manager (OfflineSequenceManager) resets the joints of the   *)
(* same robot when a segment is rejected or the sequence previewed.         *)
EditorReset(ok) ==
  /\ sent < MaxResets /\ sent' = sent + 1
  /\ state # "PREPARE_TELEPORT"   \* the bound keeps a call for the node
  /\ resets' = Append(resets, [call |-> sent + 1, pause |-> TRUE, valid |-> ok])
  /\ UNCHANGED <<setup, state, reset_future, solverVars, handler, answers,
                 restore, managerVars, phaseVars>>

NodeStep ==
  \/ InitialPoseReached \/ Blend \/ Blended \/ _prepare_teleport
  \/ _poll_teleport_prepare \/ ResetAnswered \/ ResetTimesOut \/ Verify \/ Resumed

System == ResetStep /\ UNCHANGED <<setup, nodeVars, solverVars>>

Next ==
  \/ NodeStep \/ _enable_sync \/ set_enabled_callback \/ System
  \/ \E ok \in BOOLEAN : EditorReset(ok)

(* The timer fires, the services are there in the end, the solver and the   *)
(* plugin answer; the operator need not enable the node again.             *)
Fairness ==
  /\ WF_mirrorVars(NodeStep) /\ WF_mirrorVars(set_enabled_callback)
  /\ WF_mirrorVars(HandlerStep /\ System) /\ WF_mirrorVars(PreUpdate /\ System)

Spec == Init /\ [][Next]_mirrorVars /\ Fairness

-----------------------------------------------------------------------------
(* While the joints are being put in place and until the pose is verified,  *)
(* the passive solver is at rest: no call that would resume it is on its    *)
(* way, not even one of an earlier teleport that was given up.              *)
SolverRests ==
  setup.handover /\ state \in {"RESET_TO_REAL", "VERIFY_RESET"}
    => ~solver /\ solver_calls = <<>>

(* Gazebo follows the controller only with its solver running and with no   *)
(* reset of the node left in Gazebo, also after resets that were given up.  *)
LiveIsClean ==
  state = "LIVE_SYNC" =>
    /\ solver /\ \A i \in DOMAIN solver_calls : solver_calls[i]
    /\ handler.at = "idle" \/ handler.pause
    /\ \A i \in DOMAIN resets : resets[i].pause

(* The plugin never leaves the world paused, whenever it gives up waiting   *)
(* for PreUpdate.                                                          *)
WorldResumes == handler.at \in {"idle", "reactivate"} => ~world_paused

(* A solver whose service stays up does not remain paused, however the      *)
(* teleport ends.                                                          *)
SolverReturns == (~solver /\ ~setup.away) ~> solver
=============================================================================
