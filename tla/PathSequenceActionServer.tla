---------------------- MODULE PathSequenceActionServer ----------------------
(***************************************************************************)
(* PathSequenceActionServer: executes a sequence of PATHs through the       *)
(* ExecutePath action of the arm bridge, one PATH after the other, with a   *)
(* check of the joint feedback before each and an optional wait after each.*)
(*                                                                         *)
(* The node spins in a MultiThreadedExecutor with a reentrant callback      *)
(* group: the execution, the cancel callbacks, the services and the joint   *)
(* feedback run in parallel.  The steps of the execution and of a cancel    *)
(* callback are separate actions wherever they touch shared state without   *)
(* one lock around both.                                                   *)
(***************************************************************************)
EXTENDS Naturals, Sequences

CONSTANTS
  Ids,         \* sequence_id of the sequences
  Places,      \* joint positions, up to start_tolerance_deg
  Requests,    \* the sequence goals sent to the server
  MaxPaths,    \* bound on the PATHs of a sequence
  MaxGoals     \* bound on the goals accepted

Block == [start : Places, end : Places, wait_after : BOOLEAN]

ASSUME SequenceAssumption ==
  /\ Requests \subseteq [id : Ids, checked : BOOLEAN, blocks : Seq(Block)]
  /\ \A r \in Requests : Len(r.blocks) \in 1 .. MaxPaths
  /\ Ids \subseteq Nat \ {0} /\ Places # {} /\ MaxGoals \in Nat /\ MaxPaths \in Nat

Goals == 1 .. MaxGoals
NoGoal == 0
NoSequence == 0

(* What the feedback says besides a place.                                 *)
CONSTANT Stale
ASSUME StaleAssumption == Stale \notin Places

(* The steps of an execution; each names the code it runs next.            *)
Steps == {"idle", "start", "top", "check", "send", "sending", "running",
          "completed", "waiting", "polling", "forget", "release_state",
          "release_server", "ended"}
Outcomes == {"none", "succeeded", "aborted", "canceled"}
PathStates == {"none", "sent", "rejected", "accepted",
               "succeeded", "failed", "canceled"}
CancelSteps == {"no", "check", "forward", "flag", "state", "done", "died"}

VARIABLES
  busy,
  active_path_goal,  \* the goal whose PATH it refers to, or NoGoal
  active_sequence_id, waiting_after_path, continue_requested,
  request,           \* [g \in Goals]: what goal g asks for
  step, index,       \* [g \in Goals]: next step, number of the PATH
  outcome,           \* [g \in Goals]: the state the goal ended in
  cancel_requested,  \* [g \in Goals]: goal_handle.is_cancel_requested
  cancel,            \* [g \in Goals]: step of its cancel callback
  path,              \* [g \in Goals]: the PATH it last sent to the arm bridge
  path_cancel,       \* [g \in Goals]: a cancel of that PATH was sent
  finished,          \* [g \in Goals]: number of its PATHs the arm finished
  arm,               \* where the arm is
  feedback           \* what a fresh feedback says, or Stale

stateVars  == <<active_sequence_id, waiting_after_path, continue_requested>>
execVars   == <<step, index, outcome>>
cancelVars == <<cancel_requested, cancel>>
pathVars   == <<path, path_cancel, finished>>
armVars    == <<arm, feedback>>
sequenceVars == <<busy, request, active_path_goal, stateVars, execVars,
                  cancelVars, pathVars, armVars>>

BlocksOf(g) == request[g].blocks
BlockOf(g)  == BlocksOf(g)[index[g]]

TypeOK ==
  /\ busy \in BOOLEAN
  /\ active_path_goal \in Goals \cup {NoGoal}
  /\ active_sequence_id \in Ids \cup {NoSequence}
  /\ waiting_after_path \in Nat
  /\ continue_requested \in BOOLEAN
  /\ request \in [Goals -> Requests]
  /\ step \in [Goals -> Steps] /\ index \in [Goals -> 1 .. MaxPaths]
  /\ outcome \in [Goals -> Outcomes]
  /\ cancel_requested \in [Goals -> BOOLEAN]
  /\ cancel \in [Goals -> CancelSteps]
  /\ path \in [Goals -> PathStates] /\ path_cancel \in [Goals -> BOOLEAN]
  /\ finished \in [Goals -> Nat]
  /\ arm \in Places /\ feedback \in Places \cup {Stale}

Init ==
  /\ busy = FALSE /\ active_path_goal = NoGoal
  /\ active_sequence_id = NoSequence /\ waiting_after_path = 0
  /\ continue_requested = FALSE
  /\ request \in [Goals -> Requests]
  /\ step = [g \in Goals |-> "idle"] /\ index = [g \in Goals |-> 1]
  /\ outcome = [g \in Goals |-> "none"]
  /\ cancel_requested = [g \in Goals |-> FALSE]
  /\ cancel = [g \in Goals |-> "no"]
  /\ path = [g \in Goals |-> "none"]
  /\ path_cancel = [g \in Goals |-> FALSE]
  /\ finished = [g \in Goals |-> 0]
  /\ arm \in Places /\ feedback = Stale

-----------------------------------------------------------------------------
(***************************************************************************)
(* Goals and services.                                                     *)
(***************************************************************************)

(* Bound: goals are numbered as they are accepted.                         *)
goal_callback(g) ==
  /\ ~busy
  /\ step[g] = "idle" /\ \A h \in 1 .. g - 1 : step[h] # "idle"
  /\ busy' = TRUE
  /\ step' = [step EXCEPT ![g] = "start"]
  /\ UNCHANGED <<request, active_path_goal, stateVars, index, outcome,
                 cancelVars, pathVars, armVars>>

(* A continue is accepted for the wait point it names; expected_path 0      *)
(* names any.                                                              *)
signal_sequence(id, expected_path) ==
  /\ active_sequence_id # NoSequence /\ id = active_sequence_id
  /\ waiting_after_path # 0
  /\ expected_path \in {0, waiting_after_path}
  /\ continue_requested' = TRUE
  /\ UNCHANGED <<busy, request, active_path_goal, active_sequence_id,
                 waiting_after_path, execVars, cancelVars, pathVars, armVars>>

joint_state_callback ==
  /\ feedback' = arm
  /\ UNCHANGED <<busy, request, active_path_goal, stateVars, execVars,
                 cancelVars, pathVars, arm>>

(* Time passes without a message.                                          *)
FeedbackTimeout ==
  /\ feedback' = Stale
  /\ UNCHANGED <<busy, request, active_path_goal, stateVars, execVars,
                 cancelVars, pathVars, arm>>

-----------------------------------------------------------------------------
(***************************************************************************)
(* cancel_callback, and what rclpy does around it: a goal that has not      *)
(* ended is passed to the callback, and is_cancel_requested is set only     *)
(* after the callback has accepted.                                        *)
(***************************************************************************)
SetCancel(g, s) == cancel' = [cancel EXCEPT ![g] = s]

CancelArrives(g) ==
  /\ step[g] # "idle" /\ outcome[g] = "none" /\ cancel[g] = "no"
  /\ SetCancel(g, "check")
  /\ UNCHANGED <<busy, request, active_path_goal, stateVars, execVars,
                 cancel_requested, pathVars, armVars>>

CancelChecks(g) ==
  /\ cancel[g] = "check"
  /\ SetCancel(g, IF active_path_goal # NoGoal THEN "forward" ELSE "flag")
  /\ UNCHANGED <<busy, request, active_path_goal, stateVars, execVars,
                 cancel_requested, pathVars, armVars>>

(* The attribute is read again: the execution may have set it to None, and  *)
(* the callback then ends with an exception.                               *)
CancelForwards(g) ==
  /\ cancel[g] = "forward"
  /\ IF active_path_goal = NoGoal
       THEN SetCancel(g, "died") /\ UNCHANGED path_cancel
       ELSE /\ SetCancel(g, "flag")
            /\ path_cancel' = [path_cancel EXCEPT ![active_path_goal] = TRUE]
  /\ UNCHANGED <<busy, request, active_path_goal, stateVars, execVars,
                 cancel_requested, path, finished, armVars>>

CancelFlags(g) ==
  /\ cancel[g] = "flag"
  /\ continue_requested' = TRUE
  /\ SetCancel(g, "state")
  /\ UNCHANGED <<busy, request, active_path_goal, active_sequence_id,
                 waiting_after_path, execVars, cancel_requested, pathVars,
                 armVars>>

CancelAccepted(g) ==
  /\ cancel[g] = "state"
  /\ SetCancel(g, "done")
  /\ cancel_requested' = [cancel_requested EXCEPT ![g] = (outcome[g] = "none")]
  /\ UNCHANGED <<busy, request, active_path_goal, stateVars, execVars, pathVars,
                 armVars>>

cancel_callback(g) ==
  CancelChecks(g) \/ CancelForwards(g) \/ CancelFlags(g) \/ CancelAccepted(g)

-----------------------------------------------------------------------------
(***************************************************************************)
(* execute_callback of goal g.                                             *)
(***************************************************************************)
Go(g, s) == step' = [step EXCEPT ![g] = s] /\ UNCHANGED <<index, outcome>>

NextPath(g) ==
  /\ step' = [step EXCEPT ![g] = "top"]
  /\ index' = [index EXCEPT ![g] = @ + 1]
  /\ UNCHANGED outcome

(* The goal ends: the finally block follows.                               *)
End(g, how) ==
  /\ outcome' = [outcome EXCEPT ![g] = how]
  /\ step' = [step EXCEPT ![g] = "forget"]
  /\ UNCHANGED index

(* The state is reset before the goal is validated, and before the arm      *)
(* bridge is waited for: either may abort the sequence.                    *)
StartExecution(g) ==
  /\ step[g] = "start"
  /\ active_sequence_id' = request[g].id
  /\ waiting_after_path' = 0 /\ continue_requested' = FALSE
  /\ Go(g, "top") \/ End(g, "aborted")
  /\ UNCHANGED <<busy, request, active_path_goal, cancelVars, pathVars, armVars>>

(* Mutant: a cancel is not looked at between two PATHs.                     *)
TopIgnoringCancel(g) == Go(g, "check")

TopOfLoop(g) ==
  IF cancel_requested[g] THEN End(g, "canceled") ELSE Go(g, "check")

NextBlock(g) ==
  /\ step[g] = "top"
  /\ TopOfLoop(g)
  /\ UNCHANGED <<busy, request, active_path_goal, stateVars, cancelVars, pathVars,
                 armVars>>

(* Mutant: only the first PATH is checked.                                  *)
FirstStartFits(g) == index[g] > 1 \/ feedback = BlockOf(g).start

StartFits(g) == feedback = BlockOf(g).start

check_start(g) ==
  /\ step[g] = "check"
  /\ IF request[g].checked /\ ~StartFits(g)
       THEN End(g, "aborted") ELSE Go(g, "send")
  /\ UNCHANGED <<busy, request, active_path_goal, stateVars, cancelVars, pathVars,
                 armVars>>

SendPath(g) ==
  /\ step[g] = "send"
  /\ path' = [path EXCEPT ![g] = "sent"]
  /\ path_cancel' = [path_cancel EXCEPT ![g] = FALSE]
  /\ Go(g, "sending")
  /\ UNCHANGED <<busy, request, active_path_goal, stateVars, cancelVars, finished,
                 armVars>>

AnswerOfPath(g) ==
  IF path[g] = "rejected" THEN End(g, "aborted") ELSE Go(g, "running")

PathAnswered(g) ==
  /\ step[g] = "sending" /\ path[g] # "sent"
  /\ active_path_goal' = g
  /\ AnswerOfPath(g)
  /\ UNCHANGED <<busy, request, stateVars, cancelVars, pathVars, armVars>>

(* Mutant: the status and the success of the result are not looked at.      *)
AnyResult(g) == Go(g, "completed")

ResultOfPath(g) ==
  IF path[g] = "succeeded" THEN Go(g, "completed") ELSE End(g, "aborted")

(* Mutant: a cancelled sequence does not wait for the result of its PATH.   *)
ResultOrCancel(g) ==
  path[g] \in {"succeeded", "failed", "canceled"} \/ cancel_requested[g]

ResultHere(g) == path[g] \in {"succeeded", "failed", "canceled"}

PathResult(g) ==
  /\ step[g] = "running" /\ ResultHere(g)
  /\ active_path_goal' = NoGoal
  /\ ResultOfPath(g)
  /\ UNCHANGED <<busy, request, stateVars, cancelVars, pathVars, armVars>>

BeginWait(g) ==
  /\ waiting_after_path' = index[g] /\ continue_requested' = FALSE
  /\ UNCHANGED active_sequence_id

WaitsAfter(g) == BlockOf(g).wait_after /\ index[g] < Len(BlocksOf(g))

PathCompleted(g) ==
  /\ step[g] = "completed"
  /\ \/ /\ WaitsAfter(g)
        /\ BeginWait(g) /\ Go(g, "waiting")
     \/ /\ ~WaitsAfter(g) /\ index[g] < Len(BlocksOf(g))
        /\ NextPath(g) /\ UNCHANGED stateVars
     \/ /\ ~WaitsAfter(g) /\ index[g] = Len(BlocksOf(g))
        /\ End(g, "succeeded") /\ UNCHANGED stateVars
  /\ UNCHANGED <<busy, request, active_path_goal, cancelVars, pathVars, armVars>>

(* Mutant: only the continue flag ends a wait.                              *)
WaitForFlagOnly(g) == Go(g, "polling")

(* The loop of the wait: first the goal, then, under the lock, the flag.    *)
CancelEndsWait(g) ==
  IF cancel_requested[g] THEN End(g, "canceled") ELSE Go(g, "polling")

WaitChecksCancel(g) ==
  /\ step[g] = "waiting"
  /\ CancelEndsWait(g)
  /\ UNCHANGED <<busy, request, active_path_goal, stateVars, cancelVars, pathVars,
                 armVars>>

WaitPolls(g) ==
  /\ step[g] = "polling"
  /\ IF continue_requested
       THEN /\ waiting_after_path' = 0 /\ continue_requested' = FALSE
            /\ UNCHANGED active_sequence_id
            /\ NextPath(g)
       ELSE Go(g, "waiting") /\ UNCHANGED stateVars
  /\ UNCHANGED <<busy, request, active_path_goal, cancelVars, pathVars, armVars>>

(* Mutant: the next goal is accepted before the state is released.          *)
BusyReleasedFirst == busy' = FALSE

BusyUntilReleased == UNCHANGED busy

ForgetPath(g) ==
  /\ step[g] = "forget"
  /\ active_path_goal' = NoGoal
  /\ BusyUntilReleased
  /\ Go(g, "release_state")
  /\ UNCHANGED <<request, stateVars, cancelVars, pathVars, armVars>>

ReleaseState(g) ==
  /\ step[g] = "release_state"
  /\ active_sequence_id' = NoSequence
  /\ waiting_after_path' = 0 /\ continue_requested' = FALSE
  /\ Go(g, "release_server")
  /\ UNCHANGED <<busy, request, active_path_goal, cancelVars, pathVars, armVars>>

ReleaseServer(g) ==
  /\ step[g] = "release_server"
  /\ busy' = FALSE
  /\ Go(g, "ended")
  /\ UNCHANGED <<request, active_path_goal, stateVars, cancelVars, pathVars,
                 armVars>>

execute_callback(g) ==
  \/ StartExecution(g) \/ NextBlock(g) \/ check_start(g) \/ SendPath(g)
  \/ PathAnswered(g) \/ PathResult(g) \/ PathCompleted(g)
  \/ WaitChecksCancel(g) \/ WaitPolls(g)
  \/ ForgetPath(g) \/ ReleaseState(g) \/ ReleaseServer(g)

-----------------------------------------------------------------------------
(***************************************************************************)
(* The arm bridge, the server of the ExecutePath action, and the arm.      *)
(***************************************************************************)

(* One PATH at a time; any may be refused.                                 *)
BridgeAnswers(g) ==
  /\ path[g] = "sent"
  /\ \E answer \in {"accepted", "rejected"} :
       /\ answer = "accepted" => \A h \in Goals : path[h] # "accepted"
       /\ path' = [path EXCEPT ![g] = answer]
  /\ UNCHANGED <<busy, request, active_path_goal, stateVars, execVars,
                 cancelVars, path_cancel, finished, armVars>>

(* A motion takes longer than feedback stays fresh: what the feedback said  *)
(* before it is stale after it.                                            *)
BridgeFinishes(g) ==
  /\ path[g] = "accepted"
  /\ feedback' = Stale
  /\ \/ /\ path' = [path EXCEPT ![g] = "succeeded"]
        /\ arm' = BlockOf(g).end
        /\ finished' = [finished EXCEPT ![g] = @ + 1]
     \/ /\ \/ path' = [path EXCEPT ![g] = "failed"]
           \/ path_cancel[g] /\ path' = [path EXCEPT ![g] = "canceled"]
        /\ arm' \in Places
        /\ UNCHANGED finished
  /\ UNCHANGED <<busy, request, active_path_goal, stateVars, execVars,
                 cancelVars, path_cancel>>

(* Others move the arm while no sequence is executed, or while one waits    *)
(* between two PATHs and was not continued.                                *)
OtherMotion ==
  /\ ~busy \/ (waiting_after_path # 0 /\ ~continue_requested)
  /\ arm' \in Places /\ feedback' = Stale
  /\ UNCHANGED <<busy, request, active_path_goal, stateVars, execVars,
                 cancelVars, pathVars>>

Environment ==
  \/ joint_state_callback \/ FeedbackTimeout \/ OtherMotion
  \/ \E g \in Goals : BridgeAnswers(g) \/ BridgeFinishes(g)

(* Bound: wait points are named up to MaxPaths.                             *)
Next ==
  \/ \E g \in Goals : \/ goal_callback(g) \/ execute_callback(g)
                       \/ CancelArrives(g) \/ cancel_callback(g)
  \/ \E id \in Ids, expected_path \in 0 .. MaxPaths :
       signal_sequence(id, expected_path)
  \/ Environment

(* The executor has a thread left for every callback, and the arm bridge    *)
(* answers a PATH and ends it.                                             *)
Fairness ==
  \A g \in Goals :
    /\ WF_sequenceVars(execute_callback(g))
    /\ WF_sequenceVars(cancel_callback(g))
    /\ WF_sequenceVars(BridgeAnswers(g)) /\ WF_sequenceVars(BridgeFinishes(g))

Spec == Init /\ [][Next]_sequenceVars /\ Fairness

-----------------------------------------------------------------------------
Executing(g) == step[g] \notin {"idle", "ended"}

(* The state shared with the services belongs to the one goal that is       *)
(* executed: the end of an execution never resets the state of the next.    *)
StateIsOwn ==
  /\ \A g, h \in Goals : Executing(g) /\ Executing(h) => g = h
  /\ \A g \in Goals :
       Executing(g) /\ step[g] \notin {"start", "release_server"} =>
         /\ active_sequence_id = request[g].id
         /\ step[g] \in {"waiting", "polling"} => waiting_after_path = index[g]
         /\ step[g] = "running" => active_path_goal = g

(* A sequence goal has an outcome only when the arm follows no PATH of it.  *)
NoOrphanPath ==
  \A g \in Goals : outcome[g] # "none" => path[g] \notin {"sent", "accepted"}

(* A sequence succeeds only if the arm finished each of its PATHs.          *)
SuccessMeansAll ==
  \A g \in Goals : outcome[g] = "succeeded" => finished[g] = Len(BlocksOf(g))

(* A checked PATH begins where it was planned to begin, also after a wait   *)
(* during which the arm was moved.                                         *)
PathStartsInPlace ==
  \A g \in Goals :
    path[g] = "accepted" /\ request[g].checked => arm = BlockOf(g).start

(* A cancelled sequence ends, wherever the cancel finds it.                 *)
CancelEnds == \A g \in Goals : cancel_requested[g] ~> step[g] = "ended"
=============================================================================
