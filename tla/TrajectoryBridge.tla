--------------------------- MODULE TrajectoryBridge ---------------------------
(***************************************************************************)
(* MoveItGazeboTrajectoryBridge: an action server that takes trajectories   *)
(* of MoveIt, rewrites the coupled joint_7 as joint_3 and has the           *)
(* controller in Gazebo follow them, one at a time.  Its callbacks run on   *)
(* four threads in a reentrant group, so that the execution of one goal,    *)
(* the arrival of another and the answers to cancel requests interleave.    *)
(*                                                                         *)
(* Of a point only the values of joint_2 and joint_7 are kept; the other    *)
(* joints are copied.  They are integers, as are the limits.  The controller *)
(* may be behind the point it was commanded to.                             *)
(***************************************************************************)
EXTENDS Integers, Sequences, SequencesExt

CONSTANTS
  Goals,              \* identities of the goals
  Requests,           \* what is asked for: see the assumption below
  NoGoal,
  coupling_offset, joint_7_min, joint_7_max, joint_3_min, joint_3_max,
  joint_3_max_velocity,
  Lags                \* how far the arm may be behind: of joint_2 and joint_3

\* of joint_2 and joint_7, or joint_3; there may be no velocities or accelerations
Pairs == Int \X Int
Rates == Pairs \cup {<<>>}
Points == [time : Int, positions : Pairs, velocities : Rates, accelerations : Rates,
           readable : BOOLEAN, effort : BOOLEAN]
Targets == [positions : Pairs, velocities : Rates, accelerations : Rates]
Feedback == [desired : Targets, actual : Pairs, error : Pairs]

ASSUME BridgeAssumption ==
  /\ NoGoal \notin Goals
  /\ \A r \in Requests :
       /\ DOMAIN r = {"joints", "unsupported", "points", "tolerances"}
       /\ r.points \in Seq(Points)
  /\ coupling_offset \in Int /\ joint_3_max_velocity \in Int
  /\ joint_7_min \in Int /\ joint_7_max \in Int
  /\ joint_3_min \in Int /\ joint_3_max \in Int
  /\ Lags \subseteq Pairs

VARIABLES
  request,            \* the request of each goal, once it is sent
  status,             \* what rclpy knows of the goal
  pc,                 \* how far execute_callback is, for each goal
  cpc,                \* how far the cancel callback is, for each goal
  heard,              \* a cancel of the goal found the controller's handle
  busy,               \* self._busy
  handle,             \* self._downstream_goal_handle: the goal it stands for
  ctl,                \* the controller's goal, for each goal
  stop,               \* the controller has a cancel request for the goal
  at,                 \* the point the arm was last commanded to, or 0
  shown               \* the last feedback MoveIt got for each goal, in a set

vars == <<request, status, pc, cpc, heard, busy, handle, ctl, stop, at, shown>>

Ended   == {"succeeded", "aborted", "canceled"}
Stopped == {"succeeded", "aborted", "canceled"}     \* of the controller

TrajectoryTypeOK ==
  /\ request \in [Goals -> Requests]
  /\ status \in [Goals -> {"none", "refused", "executing", "canceling"} \cup Ended]
  /\ pc \in [Goals -> {"idle", "convert", "find", "sent", "assigned",
                       "canceling", "result", "clear", "done"}]
  /\ cpc \in [Goals -> {"none", "asked", "read", "done"}]
  /\ heard \in [Goals -> BOOLEAN] /\ busy \in BOOLEAN
  /\ handle \in Goals \cup {NoGoal}
  /\ ctl \in [Goals -> {"none", "asked", "rejected", "moving"} \cup Stopped]
  /\ stop \in [Goals -> BOOLEAN]
  /\ at \in [Goals -> Nat] /\ shown \in [Goals -> SUBSET Feedback]

TrajectoryInit ==
  /\ request \in [Goals -> Requests]
  /\ status = [g \in Goals |-> "none"] /\ pc = [g \in Goals |-> "idle"]
  /\ cpc = [g \in Goals |-> "none"] /\ heard = [g \in Goals |-> FALSE]
  /\ busy = FALSE /\ handle = NoGoal
  /\ ctl = [g \in Goals |-> "none"] /\ stop = [g \in Goals |-> FALSE]
  /\ at = [g \in Goals |-> 0] /\ shown = [g \in Goals |-> {}]

-----------------------------------------------------------------------------
(* The rewriting of a trajectory                                            *)

\* the pair joint_2, joint_3 for a pair joint_2, joint_7, and back
_moveit_to_gazebo_values(v, offset) == <<v[1], v[2] - v[1] - offset>>

_gazebo_to_moveit_values(v, offset) == <<v[1], v[1] + v[2] + offset>>

\* Mutant: a rate is converted as a position is.
OffsetRate(v) == IF v = <<>> THEN v ELSE _moveit_to_gazebo_values(v, coupling_offset)

\* velocities and accelerations, in which the offset cancels out
GazeboRate(v) == IF v = <<>> THEN v ELSE _moveit_to_gazebo_values(v, 0)

MoveItRate(v) == IF v = <<>> THEN v ELSE _gazebo_to_moveit_values(v, 0)

Abs(x) == IF x < 0 THEN -x ELSE x

\* what makes transform_goal raise.  A point is readable when it has positions
\* and each vector it has has six finite values; velocities may be <<>>.
PointRefused(point, previous_time) ==
  \/ point.time < 0 \/ point.time <= previous_time
  \/ ~ point.readable \/ point.effort
  \/ point.positions[2] \notin joint_7_min .. joint_7_max
  \/ _moveit_to_gazebo_values(point.positions, coupling_offset)[2]
       \notin joint_3_min .. joint_3_max
  \/ /\ point.velocities # <<>> /\ joint_3_max_velocity > 0
     /\ Abs(GazeboRate(point.velocities)[2]) > joint_3_max_velocity

TransformRefuses(r) ==
  \/ r.joints # "moveit" \/ r.points = <<>> \/ r.unsupported
  \/ \E i \in 1 .. Len(r.points) :
       PointRefused(r.points[i], IF i = 1 THEN -1 ELSE r.points[i - 1].time)
  \/ ~ r.tolerances \subseteq {"joint_1", "joint_2", "joint_7"}

transform_goal(r) ==
  [i \in 1 .. Len(r.points) |->
     [positions     |-> _moveit_to_gazebo_values(r.points[i].positions, coupling_offset),
      velocities    |-> GazeboRate(r.points[i].velocities),
      accelerations |-> GazeboRate(r.points[i].accelerations)]]

_transform_feedback_point(point, offset) ==
  [positions     |-> _gazebo_to_moveit_values(point.positions, offset),
   velocities    |-> MoveItRate(point.velocities),
   accelerations |-> MoveItRate(point.accelerations)]

Plus(v, w)  == <<v[1] + w[1], v[2] + w[2]>>
Minus(v, w) == <<v[1] - w[1], v[2] - w[2]>>

\* of the actual state and the error only the positions are kept
transform_feedback(desired, lag) ==
  [desired |-> _transform_feedback_point(desired, coupling_offset),
   actual  |-> _gazebo_to_moveit_values(Minus(desired.positions, lag), coupling_offset),
   error   |-> _gazebo_to_moveit_values(lag, 0)]

-----------------------------------------------------------------------------
is_cancel_requested(g) == status[g] = "canceling"
is_active(g) == status[g] \in {"executing", "canceling"}

\* goal_callback with rclpy's answer; the goal is executed when it is accepted
BusyRejects == busy

goal_callback(g) ==
  /\ status[g] = "none"
  /\ IF TransformRefuses(request[g]) \/ BusyRejects
     THEN /\ status' = [status EXCEPT ![g] = "refused"]
          /\ UNCHANGED <<pc, busy>>
     ELSE /\ status' = [status EXCEPT ![g] = "executing"]
          /\ pc' = [pc EXCEPT ![g] = "convert"]
          /\ busy' = TRUE
  /\ UNCHANGED <<request, cpc, heard, handle, ctl, stop, at, shown>>

\* rclpy finds the goal active and calls cancel_callback
CancelArrives(g) ==
  /\ is_active(g) /\ cpc[g] = "none"
  /\ cpc' = [cpc EXCEPT ![g] = "asked"]
  /\ UNCHANGED <<request, status, pc, heard, busy, handle, ctl, stop, at, shown>>

\* the callback looks at the one handle there is, whichever goal it is of
cancel_callback(g) ==
  /\ cpc[g] = "asked" /\ cpc' = [cpc EXCEPT ![g] = "read"]
  /\ heard' = [heard EXCEPT ![g] = handle = g]
  /\ stop' = IF handle = NoGoal THEN stop ELSE [stop EXCEPT ![handle] = TRUE]
  /\ UNCHANGED <<request, status, pc, busy, handle, ctl, at, shown>>

\* after ACCEPT rclpy marks the goal, if it has not ended meanwhile
CancelAccepted(g) ==
  /\ cpc[g] = "read" /\ cpc' = [cpc EXCEPT ![g] = "done"]
  /\ status' = [status EXCEPT ![g] = IF @ = "executing" THEN "canceling" ELSE @]
  /\ UNCHANGED <<request, pc, heard, busy, handle, ctl, stop, at, shown>>

-----------------------------------------------------------------------------
(* execute_callback                                                         *)

Ends(g, as) == status' = [status EXCEPT ![g] = as]
Moves(g, to) == pc' = [pc EXCEPT ![g] = to]

ConvertGoal(g) ==
  /\ pc[g] = "convert"
  /\ IF is_cancel_requested(g)
     THEN Ends(g, "canceled") /\ Moves(g, "clear")
     ELSE UNCHANGED status /\ Moves(g, "find")
  /\ UNCHANGED <<request, cpc, heard, busy, handle, ctl, stop, at, shown>>

\* wait_for_server
ServerMissing(g) ==
  /\ pc[g] = "find" /\ Ends(g, "aborted") /\ Moves(g, "clear")
  /\ UNCHANGED <<request, cpc, heard, busy, handle, ctl, stop, at, shown>>

SendGoal(g) ==
  /\ pc[g] = "find" /\ Moves(g, "sent")
  /\ ctl' = [ctl EXCEPT ![g] = "asked"]
  /\ UNCHANGED <<request, status, cpc, heard, busy, handle, stop, at, shown>>

GoalRejected(g) ==
  /\ pc[g] = "sent" /\ ctl[g] = "rejected"
  /\ Ends(g, "aborted") /\ Moves(g, "clear")
  /\ UNCHANGED <<request, cpc, heard, busy, handle, ctl, stop, at, shown>>

GoalAccepted(g) ==
  /\ pc[g] = "sent" /\ ctl[g] \notin {"asked", "rejected"}
  /\ Moves(g, "assigned") /\ handle' = g
  /\ UNCHANGED <<request, status, cpc, heard, busy, ctl, stop, at, shown>>

\* Mutant: a cancel accepted before the handle was there is forgotten.
SkipCancel(g) ==
  /\ pc[g] = "assigned" /\ Moves(g, "result")
  /\ UNCHANGED <<request, status, cpc, heard, busy, handle, ctl, stop, at, shown>>

CheckCancel(g) ==
  /\ pc[g] = "assigned"
  /\ IF is_cancel_requested(g)
     THEN stop' = [stop EXCEPT ![g] = TRUE] /\ Moves(g, "canceling")
     ELSE UNCHANGED stop /\ Moves(g, "result")
  /\ UNCHANGED <<request, status, cpc, heard, busy, handle, ctl, at, shown>>

\* Mutant: the goal is canceled before the controller has taken the request.
AnswerCancel(g) ==
  /\ pc[g] = "canceling" /\ Ends(g, "canceled") /\ Moves(g, "clear")
  /\ UNCHANGED <<request, cpc, heard, busy, handle, ctl, stop, at, shown>>

AwaitCancel(g) ==
  /\ pc[g] = "canceling" /\ ~ stop[g] /\ Moves(g, "result")
  /\ UNCHANGED <<request, status, cpc, heard, busy, handle, ctl, stop, at, shown>>

\* canceled() raises unless a cancel was accepted; the handler aborts
Outcome(g) ==
  IF ctl[g] = "succeeded" THEN "succeeded"
  ELSE IF is_cancel_requested(g) THEN "canceled" ELSE "aborted"

GetResult(g) ==
  /\ pc[g] = "result" /\ ctl[g] \in Stopped
  /\ Ends(g, Outcome(g)) /\ Moves(g, "clear")
  /\ UNCHANGED <<request, cpc, heard, busy, handle, ctl, stop, at, shown>>

Finally(g) ==
  /\ pc[g] = "clear" /\ Moves(g, "done") /\ handle' = NoGoal /\ busy' = FALSE
  /\ UNCHANGED <<request, status, cpc, heard, ctl, stop, at, shown>>

-----------------------------------------------------------------------------
(* The controller in Gazebo                                                 *)

ControllerAnswers(g) ==
  /\ ctl[g] = "asked" /\ ctl' \in {[ctl EXCEPT ![g] = a] : a \in {"moving", "rejected"}}
  /\ UNCHANGED <<request, status, pc, cpc, heard, busy, handle, stop, at, shown>>

ControllerMoves(g) ==
  /\ ctl[g] = "moving" /\ at[g] < Len(request[g].points)
  /\ at' = [at EXCEPT ![g] = @ + 1]
  /\ UNCHANGED <<request, status, pc, cpc, heard, busy, handle, ctl, stop, shown>>

ControllerEnds(g) ==
  /\ ctl[g] = "moving"
  /\ \/ at[g] = Len(request[g].points) /\ ctl' = [ctl EXCEPT ![g] = "succeeded"]
     \/ ctl' = [ctl EXCEPT ![g] = "aborted"]
  /\ UNCHANGED <<request, status, pc, cpc, heard, busy, handle, stop, at, shown>>

ControllerCancels(g) ==
  /\ stop[g] /\ stop' = [stop EXCEPT ![g] = FALSE]
  /\ ctl' = [ctl EXCEPT ![g] = IF @ = "moving" THEN "canceled" ELSE @]
  /\ UNCHANGED <<request, status, pc, cpc, heard, busy, handle, at, shown>>

\* feedback of the controller; it may come when the goal has ended
_forward_feedback(g) ==
  /\ at[g] > 0
  /\ IF is_active(g)
       THEN \E lag \in Lags :
              shown' = [shown EXCEPT ![g] =
                          {transform_feedback(transform_goal(request[g])[at[g]], lag)}]
       ELSE UNCHANGED shown
  /\ UNCHANGED <<request, status, pc, cpc, heard, busy, handle, ctl, stop, at>>

-----------------------------------------------------------------------------
Execute(g) ==
  \/ ConvertGoal(g) \/ ServerMissing(g) \/ SendGoal(g)
  \/ GoalRejected(g) \/ GoalAccepted(g)
  \/ CheckCancel(g) \/ AwaitCancel(g) \/ GetResult(g) \/ Finally(g)

Cancel(g) == CancelArrives(g) \/ cancel_callback(g) \/ CancelAccepted(g)

Controller(g) ==
  ControllerAnswers(g) \/ ControllerMoves(g) \/ ControllerEnds(g) \/ ControllerCancels(g)

TrajectoryNext == \E g \in Goals :
  goal_callback(g) \/ Execute(g) \/ Cancel(g) \/ Controller(g) \/ _forward_feedback(g)

\* The executor runs every callback that is ready and the controller answers
\* requests.  It need not ever reach the end of a trajectory.
TrajectoryFairness == \A g \in Goals :
  /\ WF_vars(Execute(g)) /\ WF_vars(cancel_callback(g)) /\ WF_vars(CancelAccepted(g))
  /\ WF_vars(ControllerAnswers(g)) /\ WF_vars(ControllerCancels(g))

TrajectorySpec == TrajectoryInit /\ [][TrajectoryNext]_vars /\ TrajectoryFairness

-----------------------------------------------------------------------------
\* The controller is never asked to follow a trajectory of the bridge while it
\* follows, or is being asked to follow, another one.
OneTrajectory ==
  \A g, h \in Goals : ctl[g] \in {"asked", "moving"} /\ ctl[h] \in {"asked", "moving"} => g = h

\* MoveIt is told that a goal has ended only when the arm no longer follows it
\* (moveit_gazebo_trajectory_bridge.py:490-502).
EndedMeansStill == \A g \in Goals : status[g] \in Ended => ctl[g] \notin {"asked", "moving"}

\* The point "to" keeps the limits, and where its velocity or acceleration leads
\* is, back in MoveIt's joints, where the one of the point asked for leads.
Follows(to, asked) ==
  /\ to.positions[2] \in joint_3_min .. joint_3_max
  /\ asked.positions[2] \in joint_7_min .. joint_7_max
  /\ to.velocities # <<>> /\ joint_3_max_velocity > 0 =>
       Abs(to.velocities[2]) <= joint_3_max_velocity
  /\ asked.velocities # <<>> =>
       _gazebo_to_moveit_values(Plus(to.positions, to.velocities), coupling_offset)
         = Plus(asked.positions, asked.velocities)
  /\ asked.accelerations # <<>> =>
       _gazebo_to_moveit_values(Plus(to.positions, to.accelerations), coupling_offset)
         = Plus(asked.positions, asked.accelerations)

AskedFor(desired, asked) ==
  /\ desired.positions = asked.positions
  /\ desired.velocities = asked.velocities
  /\ desired.accelerations = asked.accelerations

\* Whatever the controller follows has the limits of joint_7 and joint_3 and the
\* motion of the request: its positions and, without the offset, its velocities
\* and accelerations.  MoveIt is shown points it asked for in that goal, and an
\* error that is their distance from where it is shown the arm
\* (moveit_gazebo_trajectory_bridge.py:77-108, 204-245 and 261-330).
TracksRequest ==
  \A g \in Goals :
    /\ \A i \in 1 .. at[g] : Follows(transform_goal(request[g])[i], request[g].points[i])
    /\ \A f \in shown[g] :
         /\ \E i \in 1 .. at[g] : AskedFor(f.desired, request[g].points[i])
         /\ Plus(f.actual, f.error) = f.desired.positions

\* A cancel that finds the controller's handle, or is accepted before
\* execute_callback looks for one, ends the goal although the controller would
\* go on for ever (moveit_gazebo_trajectory_bridge.py:437-443 and 487-488).
CancelEnds ==
  \A g \in Goals :
    \/ heard[g]
    \/ is_cancel_requested(g) /\ pc[g] \in {"convert", "find", "sent", "assigned"}
    ~> status[g] \in Ended
===============================================================================
