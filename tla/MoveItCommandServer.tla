------------------------ MODULE MoveItCommandServer ------------------------
(***************************************************************************)
(* MoveItCommandServer: the two actions that move the simulated arm.  main  *)
(* runs one callback of the node after the other; every accepted goal runs  *)
(* in a detached thread beside them.  A cancel callback takes several steps *)
(* for the threads: it raises its flags, forwards the cancel, stops the     *)
(* arm, and only when it has returned does rclcpp mark the goal as          *)
(* canceling.                                                              *)
(*                                                                         *)
(* Threads stands for goals that are alive together: a thread that has      *)
(* ended takes the next goal.  Speed settings, poses and trajectories are   *)
(* left out; planners and the arm succeed or fail at will.                 *)
(***************************************************************************)
EXTENDS PathModel

CONSTANTS
  Threads,     \* bound: goals whose threads run at the same time
  Requests,    \* the commands and PATHs clients send
  Frames,      \* values of the base and user frame
  MaxFly       \* max_fly_points

ASSUME CommandServerAssumption ==
  /\ Threads \subseteq Nat \ {0} /\ Requests # {} /\ Frames # {}
  /\ \A r \in Requests : r.op = "path" => r.path \in PathGoal
  /\ MaxFly \in Nat \ {0}

NoThread == 0

Fatal    == {"aborted", "canceled"}
Outcomes == {"none", "succeeded"} \cup Fatal
Steps == {"idle", "start", "send", "planning", "planned", "execute", "moving",
          "record", "batch", "wait", "waiting", "asleep", "done", "succeed",
          "catch", "conclude", "finish", "deliver", "busy", "active"}

VARIABLES
  alive,                 \* the process
  busy, motion_active,   \* motion_active: as last published
  request, step,         \* of every thread
  batch,                 \* number of the batch the thread is at
  verdict, outcome,      \* how a command ends; how rclcpp saw the goal end
  canceling,             \* rclcpp has marked the goal
  callback,              \* the cancel callback in progress
  active_sequence_goal,  \* whose planning a cancel would be forwarded to
  unasked,               \* external: plannings accepted in time and under
                         \* way, which nobody has cancelled
  path_flags,            \* the variables under path_state_mutex_
  active_path_node,
  fly_queue, fly_mode, frame,
  signals, passes        \* history, per thread

goalVars  == <<request, step, batch, verdict, outcome, canceling>>
planVars  == <<active_sequence_goal, unasked>>
pathVars  == <<path_flags, active_path_node>>
flyVars   == <<fly_queue, fly_mode, frame>>
history   == <<signals, passes>>
serverVars == <<alive, busy, motion_active, goalVars, callback, planVars,
                pathVars, flyVars, history>>

PathOf(t)    == request[t].path
BatchesOf(t) == partition_path_at_waits(PathOf(t))
BatchOf(t)   == BatchesOf(t)[batch[t]]
LastNode(t)  == BatchOf(t)[Len(BatchOf(t))]
IsPath(t)    == request[t].op = "path"

TypeOK ==
  /\ alive \in BOOLEAN /\ busy \in BOOLEAN /\ motion_active \in BOOLEAN
  /\ request \in [Threads -> Requests] /\ step \in [Threads -> Steps]
  /\ batch \in [Threads -> Nat]
  /\ verdict \in [Threads -> Outcomes] /\ outcome \in [Threads -> Outcomes]
  /\ canceling \in [Threads -> BOOLEAN]
  /\ callback \in [thread : Threads \cup {NoThread},
                   at : {"none", "forward", "stop", "accept"}]
  /\ active_sequence_goal \in Threads \cup {NoThread}
  /\ unasked \subseteq Threads
  /\ path_flags \in [id : 0 .. MaxId, waiting : BOOLEAN,
                     continue : BOOLEAN, cancel : BOOLEAN,
                     state : {"EMPTY", "PLANNING", "EXECUTING", "WAITING",
                              "CANCELING", "DONE", "CANCELED", "ERROR"}]
  /\ active_path_node \in Nat
  /\ fly_queue \in Seq([kind : {"LINEAR", "CIRCULAR", "JOINT"},
                        frame : Frames])
  /\ Len(fly_queue) <= MaxFly
  /\ fly_mode \in {"NORMAL", "CARTESIAN"} /\ frame \in Frames
  /\ signals \in [Threads -> Nat] /\ passes \in [Threads -> Nat]

Init ==
  /\ alive = TRUE /\ busy = FALSE /\ motion_active = FALSE
  /\ request = [t \in Threads |-> CHOOSE r \in Requests : TRUE]
  /\ step = [t \in Threads |-> "idle"] /\ batch = [t \in Threads |-> 1]
  /\ verdict = [t \in Threads |-> "none"]
  /\ outcome = [t \in Threads |-> "none"]
  /\ canceling = [t \in Threads |-> FALSE]
  /\ callback = [thread |-> NoThread, at |-> "none"]
  /\ active_sequence_goal = NoThread /\ unasked = {}
  /\ path_flags = [id |-> 0, waiting |-> FALSE, continue |-> FALSE,
                   cancel |-> FALSE, state |-> "EMPTY"]
  /\ active_path_node = 0
  /\ fly_queue = <<>> /\ fly_mode = "NORMAL" /\ frame \in Frames
  /\ signals = [t \in Threads |-> 0] /\ passes = [t \in Threads |-> 0]

-----------------------------------------------------------------------------
(***************************************************************************)
(* Callbacks of the node.                                                  *)
(***************************************************************************)
Go(t, s)    == step' = [step EXCEPT ![t] = s]
NoCallback  == callback.at = "none"

Canceled(t) == canceling[t] \/ path_flags.cancel

(* Mutant: notify_all is forgotten.                                        *)
WakeNobody == step' = step

(* A condition variable: notify_all wakes the thread that waits on it.      *)
NotifyAll == step' = [t \in Threads |->
               IF step[t] = "asleep" THEN "waiting" ELSE step[t]]

(* Mutant: the callback does not look at busy_.                            *)
FreeAlways == TRUE

Free == ~busy

(* handle_goal, handle_accepted and their PATH twins.  Only the threads     *)
(* clear busy_, so the second look at it in handle_accepted finds it clear. *)
handle_goal(t, r) ==
  /\ NoCallback /\ Free
  /\ r.op = "path" => validate_path_goal(r.path)
  /\ step[t] = "idle" /\ \A u \in Threads : u < t => step[u] # "idle"
  /\ busy' = TRUE /\ motion_active' = TRUE
  /\ request' = [request EXCEPT ![t] = r]
  /\ Go(t, "start")
  /\ UNCHANGED <<alive, batch, verdict, outcome, canceling, callback,
                 planVars, pathVars, flyVars, history>>

(* A goal that has ended or is canceling already is not passed on.  The     *)
(* callback of a PATH first raises its flags and wakes its thread.          *)
CancelArrives(t) ==
  /\ NoCallback
  /\ step[t] # "idle" /\ outcome[t] = "none" /\ ~canceling[t]
  /\ callback' = [thread |-> t, at |-> "forward"]
  /\ IF IsPath(t)
       THEN /\ path_flags' = [path_flags EXCEPT !.cancel = TRUE,
                   !.continue = TRUE, !.waiting = FALSE, !.state = "CANCELING"]
            /\ NotifyAll
       ELSE UNCHANGED <<path_flags, step>>
  /\ UNCHANGED <<alive, busy, motion_active, request, batch, verdict, outcome,
                 canceling, planVars, active_path_node, flyVars, history>>

CancelForwards ==
  /\ callback.at = "forward"
  /\ unasked' = unasked \ {active_sequence_goal}
  /\ callback' = [callback EXCEPT !.at = "stop"]
  /\ UNCHANGED <<alive, busy, motion_active, goalVars, active_sequence_goal,
                 pathVars, flyVars, history>>

(* stop() ends the motion under way, if there is one.                      *)
CancelStops ==
  /\ callback.at = "stop"
  /\ step' = [t \in Threads |-> IF step[t] # "moving" THEN step[t]
                ELSE IF IsPath(t) THEN "catch" ELSE "finish"]
  /\ verdict' = [t \in Threads |->
                  IF step[t] = "moving" THEN "aborted" ELSE verdict[t]]
  /\ callback' = [callback EXCEPT !.at = "accept"]
  /\ UNCHANGED <<alive, busy, motion_active, request, batch, outcome,
                 canceling, planVars, pathVars, flyVars, history>>

(* The callback has returned ACCEPT; a goal that has ended meanwhile stays  *)
(* as it is.                                                               *)
CancelAccepted ==
  /\ callback.at = "accept"
  /\ canceling' = [t \in Threads |-> canceling[t] \/
                    (t = callback.thread /\ step[t] # "idle"
                     /\ outcome[t] = "none")]
  /\ callback' = [thread |-> NoThread, at |-> "none"]
  /\ UNCHANGED <<alive, busy, motion_active, request, step, batch, verdict,
                 outcome, planVars, pathVars, flyVars, history>>

(* Mutant: an accepted continue leaves the PATH open for another.          *)
ContinueAgain(flags) == [flags EXCEPT !.continue = TRUE, !.state = "EXECUTING"]

ContinueFlags(flags) == [flags EXCEPT !.continue = TRUE, !.waiting = FALSE,
                                      !.state = "EXECUTING"]

(* Node 0 stands for whichever node the PATH waits at.                     *)
signal_path(id, node) ==
  /\ NoCallback
  /\ id = path_flags.id /\ path_flags.waiting
  /\ node \in {0, active_path_node}
  /\ path_flags' = ContinueFlags(path_flags)
  /\ NotifyAll
  /\ signals' = [t \in Threads |->
                  signals[t] + IF step[t] \in {"waiting", "asleep"} THEN 1 ELSE 0]
  /\ UNCHANGED <<alive, busy, motion_active, request, batch, verdict, outcome,
                 canceling, callback, planVars, active_path_node, flyVars,
                 passes>>

NodeCallback ==
  /\ alive
  /\ \/ \E t \in Threads, r \in Requests : handle_goal(t, r)
     \/ \E t \in Threads : CancelArrives(t)
     \/ CancelForwards \/ CancelStops \/ CancelAccepted
     \/ \E id \in 0 .. MaxId, node \in 0 .. MaxNodes : signal_path(id, node)

-----------------------------------------------------------------------------
(***************************************************************************)
(* The thread of a command: dispatch and the functions it calls.           *)
(***************************************************************************)
End(t, v)    == verdict' = [verdict EXCEPT ![t] = v] /\ Go(t, "finish")
Ended(ok)    == IF ok THEN "succeeded" ELSE "aborted"
Doing(t, op) == step[t] = "start" /\ request[t].op = op
goalRest     == <<alive, busy, motion_active, request, batch, outcome,
                  canceling, callback, planVars, pathVars, history>>

(* Getters, Hello, speeds and orientation; setTool always fails.           *)
read_or_set(t) ==
  /\ Doing(t, "query")
  /\ \E ok \in BOOLEAN : End(t, Ended(ok))
  /\ UNCHANGED <<goalRest, flyVars>>

FrameIsFree == fly_queue = <<>>

set_frame(t) ==
  /\ Doing(t, "set_frame")
  /\ frame' = IF FrameIsFree THEN request[t].frame ELSE frame
  /\ End(t, Ended(FrameIsFree))
  /\ UNCHANGED <<goalRest, fly_queue, fly_mode>>

(* set_fly_norm changes the mode before it finds the percentage invalid.   *)
set_fly(t) ==
  /\ Doing(t, "set_fly")
  /\ \E ok \in BOOLEAN :
       /\ fly_mode' = IF ok \/ request[t].mode = "NORMAL" THEN request[t].mode ELSE fly_mode
       /\ End(t, Ended(ok))
  /\ UNCHANGED <<goalRest, fly_queue, frame>>

clear_fly_queue(t) ==
  /\ Doing(t, "clear_fly")
  /\ fly_queue' = <<>> /\ End(t, "succeeded")
  /\ UNCHANGED <<goalRest, fly_mode, frame>>

(* FlyQueue::type().                                                       *)
QueueType(kind) == IF kind = "JOINT" THEN "JOINT" ELSE "CARTESIAN"

(* FlyQueue::add; kind and frame are what the segment was taken with.      *)
add_fly_segment(t) ==
  LET kind == request[t].kind
      fits == /\ Len(fly_queue) < MaxFly
              /\ \A i \in DOMAIN fly_queue :
                   QueueType(fly_queue[i].kind) = QueueType(kind)
  IN  /\ Doing(t, "add_fly")
      /\ fly_queue' = IF fits
                        THEN Append(fly_queue, [kind |-> kind, frame |-> frame])
                        ELSE fly_queue
      /\ End(t, Ended(fits))
      /\ UNCHANGED <<goalRest, fly_mode, frame>>

(* The functions that move: targets, planning and retiming may fail.       *)
move(t) ==
  /\ Doing(t, "move")
  /\ \/ Go(t, "planned") /\ UNCHANGED verdict
     \/ End(t, "aborted")
  /\ UNCHANGED <<goalRest, flyVars>>

(* build_pilz_sequence wants the FLY mode of the queue.                    *)
QueueFitsMode ==
  Len(fly_queue) > 1 =>
    fly_mode = IF QueueType(fly_queue[1].kind) = "JOINT" THEN "NORMAL"
                                                         ELSE "CARTESIAN"

execute_fly_queue(t) ==
  /\ Doing(t, "execute_fly")
  /\ \/ Len(fly_queue) > 1 /\ QueueFitsMode /\ Go(t, "send") /\ UNCHANGED verdict
     \/ End(t, "aborted")
  /\ UNCHANGED <<goalRest, flyVars>>

-----------------------------------------------------------------------------
(***************************************************************************)
(* Planning and motion, of commands and PATHs.                             *)
(***************************************************************************)

(* Leave by the exception handler of the thread.                           *)
Throw(t) == IF IsPath(t) THEN Go(t, "catch") /\ UNCHANGED verdict
                         ELSE End(t, "aborted")

(* The sequence server is away, rejects the goal or answers too late: then  *)
(* it may plan all the same, which nothing here depends on.                *)
SendFails(t) ==
  /\ step[t] = "send"
  /\ Throw(t)
  /\ UNCHANGED <<goalRest, flyVars>>

SendSequence(t) ==
  /\ step[t] = "send"
  /\ active_sequence_goal' = t /\ unasked' = unasked \cup {t}
  /\ Go(t, "planning")
  /\ UNCHANGED <<alive, busy, motion_active, request, batch, verdict, outcome,
                 canceling, callback, pathVars, flyVars, history>>

(* Mutant: the thread leaves its planning to the cancel callback.          *)
StillUnasked(t) == unasked

(* async_cancel_goal of the thread that polls.                             *)
AskedToCancel(t) == unasked \ {t}

(* A FLY queue looks at its goal handle only, and forgets the planning.     *)
PlanningCanceled(t) ==
  /\ step[t] = "planning"
  /\ canceling[t] \/ (IsPath(t) /\ path_flags.cancel)
  /\ unasked' = AskedToCancel(t)
  /\ active_sequence_goal' = IF IsPath(t) THEN active_sequence_goal ELSE NoThread
  /\ Throw(t)
  /\ UNCHANGED <<alive, busy, motion_active, request, batch, outcome,
                 canceling, callback, pathVars, flyVars, history>>

(* The result is there; it, or retiming it, may be a failure.              *)
PlanningEnds(t) ==
  /\ step[t] = "planning"
  /\ active_sequence_goal' = NoThread /\ unasked' = unasked \ {t}
  /\ \/ Go(t, "planned") /\ UNCHANGED verdict
     \/ Throw(t)
  /\ UNCHANGED <<alive, busy, motion_active, request, batch, outcome,
                 canceling, callback, pathVars, flyVars, history>>

(* A command looks at its goal handle before it moves, a PATH does not.     *)
Planned(t) ==
  /\ step[t] = "planned"
  /\ IF IsPath(t)
       THEN /\ path_flags' = [path_flags EXCEPT !.state = "EXECUTING"]
            /\ Go(t, "execute") /\ UNCHANGED verdict
       ELSE /\ UNCHANGED path_flags
            /\ IF canceling[t] THEN End(t, "succeeded")
                               ELSE Go(t, "execute") /\ UNCHANGED verdict
  /\ UNCHANGED <<alive, busy, motion_active, request, batch, outcome,
                 canceling, callback, planVars, active_path_node, flyVars,
                 history>>

BeginMotion(t) ==
  /\ step[t] = "execute"
  /\ Go(t, "moving")
  /\ UNCHANGED <<goalRest, verdict, flyVars>>

EndMotion(t) ==
  /\ step[t] = "moving"
  /\ \/ Go(t, "record") /\ UNCHANGED verdict
     \/ Throw(t)
  /\ UNCHANGED <<goalRest, flyVars>>

(* What was executed is published for the PATH editor, which may fail; an   *)
(* executed FLY queue is then cleared.                                     *)
RecordCommand(t) ==
  /\ step[t] = "record" /\ ~IsPath(t)
  /\ \E ok \in BOOLEAN :
       /\ fly_queue' = IF ok /\ request[t].op = "execute_fly"
                         THEN <<>> ELSE fly_queue
       /\ End(t, Ended(ok))
  /\ UNCHANGED <<goalRest, fly_mode, frame>>

(* is_canceling, then the goal handle is told; then both flags of the node. *)
FinishCommand(t) ==
  /\ step[t] = "finish"
  /\ verdict' = [verdict EXCEPT ![t] = IF canceling[t] THEN "canceled" ELSE @]
  /\ Go(t, "deliver")
  /\ UNCHANGED <<goalRest, flyVars>>

finish_goal(t) ==
  /\ step[t] = "deliver"
  /\ outcome' = [outcome EXCEPT ![t] = verdict[t]]
  /\ Go(t, "busy")
  /\ UNCHANGED <<alive, busy, motion_active, request, batch, verdict,
                 canceling, callback, planVars, pathVars, flyVars, history>>

ClearBusy(t) ==
  /\ step[t] = "busy"
  /\ busy' = FALSE /\ Go(t, "active")
  /\ UNCHANGED <<alive, motion_active, request, batch, verdict, outcome,
                 canceling, callback, planVars, pathVars, flyVars, history>>

(* The thread ends; what is only about its goal returns to its first value. *)
ClearActive(t) ==
  /\ step[t] = "active"
  /\ motion_active' = FALSE
  /\ Go(t, "idle")
  /\ request' = [request EXCEPT ![t] = CHOOSE r \in Requests : TRUE]
  /\ batch' = [batch EXCEPT ![t] = 1]
  /\ verdict' = [verdict EXCEPT ![t] = "none"]
  /\ outcome' = [outcome EXCEPT ![t] = "none"]
  /\ canceling' = [canceling EXCEPT ![t] = FALSE]
  /\ signals' = [signals EXCEPT ![t] = 0] /\ passes' = [passes EXCEPT ![t] = 0]
  /\ UNCHANGED <<alive, busy, callback, planVars, pathVars, flyVars>>

-----------------------------------------------------------------------------
(***************************************************************************)
(* The thread of a PATH: execute_path_goal.                                *)
(***************************************************************************)
pathRest == <<alive, busy, motion_active, request, verdict, canceling,
              callback, planVars, flyVars>>

BeginPath(t) ==
  /\ Doing(t, "path")
  /\ path_flags' = [id |-> PathOf(t).path_id, waiting |-> FALSE,
                    continue |-> FALSE, cancel |-> FALSE, state |-> "PLANNING"]
  /\ active_path_node' = 0
  /\ Go(t, "batch")
  /\ UNCHANGED <<pathRest, batch, outcome, history>>

(* The state of the arm may be missing and the request may not be built.    *)
PrepareBatch(t) ==
  /\ step[t] = "batch"
  /\ IF Canceled(t)
       THEN Go(t, "catch") /\ UNCHANGED active_path_node
       ELSE /\ active_path_node' = BatchOf(t)[1]
            /\ \/ BatchSupported(PathOf(t), BatchOf(t)) /\ Go(t, "send")
               \/ Go(t, "catch")
  /\ UNCHANGED <<pathRest, path_flags, batch, outcome, history>>

(* Publishing the block may fail.  A node with a wait ends its batch; the   *)
(* last batch needs no continue.                                           *)
RecordBatch(t) ==
  /\ step[t] = "record" /\ IsPath(t)
  /\ \/ /\ active_path_node' = LastNode(t)
        /\ Go(t, IF batch[t] = Len(BatchesOf(t)) THEN "done" ELSE "wait")
     \/ Go(t, "catch") /\ UNCHANGED active_path_node
  /\ UNCHANGED <<pathRest, path_flags, batch, outcome, history>>

WaitFlags(flags) == [flags EXCEPT !.waiting = TRUE, !.continue = FALSE,
                                  !.state = "WAITING"]

BeginWait(t) ==
  /\ step[t] = "wait"
  /\ path_flags' = WaitFlags(path_flags)
  /\ Go(t, "waiting")
  /\ UNCHANGED <<pathRest, active_path_node, batch, outcome, history>>

(* The predicate of the wait, evaluated under the mutex.                   *)
Wait(t) ==
  /\ step[t] = "waiting"
  /\ IF Canceled(t) THEN /\ Go(t, "catch")
                         /\ UNCHANGED <<path_flags, batch, passes>>
     ELSE IF path_flags.continue
       THEN /\ path_flags' = [path_flags EXCEPT !.waiting = FALSE,
                                 !.continue = FALSE, !.state = "EXECUTING"]
            /\ batch' = [batch EXCEPT ![t] = @ + 1]
            /\ passes' = [passes EXCEPT ![t] = @ + 1]
            /\ Go(t, "batch")
       ELSE Go(t, "asleep") /\ UNCHANGED <<path_flags, batch, passes>>
  /\ UNCHANGED <<pathRest, active_path_node, outcome, signals>>

SpuriousWakeup(t) ==
  /\ step[t] = "asleep" /\ Go(t, "waiting")
  /\ UNCHANGED <<pathRest, pathVars, batch, outcome, history>>

PathDone(t) ==
  /\ step[t] = "done"
  /\ path_flags' = [path_flags EXCEPT !.waiting = FALSE, !.state = "DONE"]
  /\ Go(t, "succeed")
  /\ UNCHANGED <<pathRest, active_path_node, batch, outcome, history>>

(* A goal that is canceling may succeed.                                   *)
PathSucceeds(t) ==
  /\ step[t] = "succeed"
  /\ outcome' = [outcome EXCEPT ![t] = "succeeded"]
  /\ Go(t, "busy")
  /\ UNCHANGED <<pathRest, pathVars, batch, history>>

PathFails(t) ==
  /\ step[t] = "catch"
  /\ path_flags' = [path_flags EXCEPT !.waiting = FALSE,
                       !.state = IF Canceled(t) THEN "CANCELED" ELSE "ERROR"]
  /\ Go(t, "conclude")
  /\ UNCHANGED <<pathRest, active_path_node, batch, outcome, history>>

(* rclcpp throws from canceled() for a goal that is not canceling yet;      *)
(* nothing catches that in the detached thread, and the process ends.       *)
ConcludePath(t) ==
  /\ step[t] = "conclude"
  /\ IF Canceled(t) /\ ~canceling[t]
       THEN alive' = FALSE /\ UNCHANGED <<outcome, step>>
       ELSE /\ outcome' = [outcome EXCEPT ![t] =
                  IF canceling[t] THEN "canceled" ELSE "aborted"]
            /\ Go(t, "busy") /\ UNCHANGED alive
  /\ UNCHANGED <<busy, motion_active, request, batch, verdict, canceling,
                 callback, planVars, pathVars, flyVars, history>>

-----------------------------------------------------------------------------
CommandStep(t) ==
  \/ read_or_set(t) \/ set_frame(t) \/ set_fly(t) \/ clear_fly_queue(t)
  \/ add_fly_segment(t) \/ move(t) \/ execute_fly_queue(t)
  \/ RecordCommand(t) \/ FinishCommand(t) \/ finish_goal(t)

MotionStep(t) ==
  \/ SendFails(t) \/ SendSequence(t) \/ PlanningCanceled(t) \/ PlanningEnds(t)
  \/ Planned(t) \/ BeginMotion(t) \/ EndMotion(t)
  \/ ClearBusy(t) \/ ClearActive(t)

PathStep(t) ==
  \/ BeginPath(t) \/ PrepareBatch(t) \/ RecordBatch(t) \/ BeginWait(t)
  \/ Wait(t) \/ PathDone(t) \/ PathSucceeds(t) \/ PathFails(t)
  \/ ConcludePath(t)

ThreadStep(t) == alive /\ (CommandStep(t) \/ MotionStep(t) \/ PathStep(t))
Wakeup(t)     == alive /\ SpuriousWakeup(t)

Next == NodeCallback \/ \E t \in Threads : ThreadStep(t) \/ Wakeup(t)

(* Threads run, plannings and motions end, and a callback that has begun    *)
(* is carried through; nothing says that a client sends a continue.         *)
Fairness ==
  /\ \A t \in Threads : WF_serverVars(ThreadStep(t))
  /\ WF_serverVars(alive /\ (CancelForwards \/ CancelStops \/ CancelAccepted))

Spec == Init /\ [][Next]_serverVars /\ Fairness

-----------------------------------------------------------------------------
(* busy_ and its two looks keep two goals from moving the arm at a time,    *)
(* and from being handled by the same flags of the node.                   *)
Working(t) == step[t] \notin {"idle", "active"}
OneGoal ==
  \A t, u \in Threads : Working(t) /\ Working(u) => t = u /\ busy

(* What the simulation records of a batch it has executed can be executed   *)
(* again: it passes the checks of a PATH goal.  Only a PATH that runs       *)
(* forward promises it: a single CIRCULAR node of a PATH that runs          *)
(* backwards counts as a forward batch, which its block does not allow.     *)
RecordedIsValid ==
  \A t \in Threads :
    (step[t] = "record" /\ IsPath(t) /\ StartOf(PathOf(t)) <= EndOf(PathOf(t)))
      => validate_path_goal(RecordedBlock(PathOf(t), BatchOf(t)))

(* signal_path is not queued: a PATH passes a wait only after a signal     *)
(* sent while it was waiting there, and one signal passes one wait.         *)
WaitsAreSignaled ==
  \A t \in Threads : passes[t] <= signals[t] /\ signals[t] <= passes[t] + 1

(* No thread leaves a planning under way that nobody told to stop, if the   *)
(* planner accepted it in time; one accepted after the timeout of           *)
(* async_send_goal is left to itself, and no handle of it is kept.          *)
NoOrphanPlanning == \A t \in unasked : step[t] = "planning"

(* A cancel that finds the thread of a PATH past its first assignments ends *)
(* it, also from within a wait, unless it ends the process.                 *)
PathCancelEnds ==
  \A t \in Threads :
    (IsPath(t) /\ Working(t) /\ step[t] # "start" /\ path_flags.cancel)
      ~> (step[t] = "idle" \/ ~alive)

(* An error of ROS communication does not end the process.                 *)
ServerSurvives == alive
=============================================================================
