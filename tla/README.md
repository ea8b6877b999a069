# Verification of the Comau C4G bridge

TLA+ models of the programs in this repository that move the robot, the TLC
instances that check them, and TLAPS proofs of the properties that should hold
for every instance. Paths are relative to the repository.

## 1. The system

A Comau robot with a C4G controller is driven from ROS 2. Programs in PDL2 run
on the controller, a package of Python nodes bridges them to ROS 2, and a
simulation (Gazebo, MoveIt) serves planning.

```
 editor (OfflineSequenceManager) ---> MoveItCommandServer ---> trajectory bridge ---> Gazebo
        |  ExecutePathSequence             (preview)                                    ^
        v                                                                               |
 PathSequenceActionServer                                            c4g_gazebo_sync_node
        |  ExecutePath                                                                  ^
        v                        MotionControlNode            joint_feedback_node ------+
 ArmExecuteActionServer             |   |                              ^
        | TcpClient, port 8000      |   | TcpClient, port 8002         | port 8001
        v                           v   v                              |
 PDL2_ROS2_main_1 <--events-- ROS2_MOTION_COMMAND_1        ROS2_JOINT_FEEDBACK_1
        |  call_service             |  signal_path_segment
        v                           v
              ROS2_MOVEMENTS_1  -->  the arm
```

### Inventory

| Component | State it keeps | Operations | What is hard | What makes it correct |
|---|---|---|---|---|
| C4G movement service, `C4G_PDL2/ROS2_MOVEMENTS_1.txt` | the native PATH variables, an upload transaction, the FLY queue, the abort flag, the wait flag | `call_service`, `signal_path_segment`, `request_abort`, `report_path_wait`, `report_path_event` | three tasks and the condition handlers run its routines at once; the abort flag is cleared by the next command | only complete PATHs move the arm; an abort stays in force; a continue finds the arm held |
| C4G main program, `PDL2_ROS2_main_1.txt` | a state (setup, idle, permission, movement, error), one client | echo, "start", call, answer | never accepts a second client; condition handlers interrupt it | stays in step with the client |
| C4G control program, `ROS2_MOTION_COMMAND_1.txt` | one client | pause, resume, abort, continue, query | one client, two programs want it | commands become events in order |
| TCP client, `tcp_client.py` | socket, receive buffer, lock | connect, close, send, receive | socket calls run outside the lock; answers with and without LF share the stream | messages in order, none in parts |
| Arm action server, `action_server.py` | busy flag, two connections, one thread per goal | goal, cancel, upload, execute, withdraw | cancels and deadlines against late answers on a half-duplex connection | results are those of the goal; an abandoned PATH is stopped |
| Motion control node, `motion_control_node.py` | one connection | pause, resume, abort, signal, state | late answers | an answer belongs to its request |
| PATH sequence action server, `path_sequence_action_server.py` | busy flag, current PATH goal, wait point, continue flag | goal, cancel, `signal_sequence` | reentrant callbacks in several threads | state is that of the running goal; success means every PATH was done |
| Offline editor, `offline_sequence_manager.py` | recorded PATHs, draft, active goals | record, accept, reject, undo, clear, waits, export, preview, send | callbacks between a send and its answer; merges change shared objects | no PATH the arm cannot leave |
| MoveIt command server, `moveit_command_server.cpp` | busy and motion_active, the flags of the executing PATH, the planning to cancel, FLY queue and mode | goals and cancels of two actions, `signal_path`, FLY queue | a detached thread per goal, a cancel callback in between, two mutexes and atomics | one goal at a time, a wait passed by one signal, no planning left to itself |
| MoveIt PATH model and builders, `path_model.cpp`, `path_sequence_builder.cpp`; PATH protocol, `path_protocol.py` | none (pure) | validate, partition at waits, build requests or upload commands | boundaries, arcs, direction | what one side accepts or records the other does not refuse |
| Gazebo mirror, `c4g_gazebo_sync_node.py` | teleport state, two pending futures, paused solver | enable, feedback, timer | two services in sequence, deadlines, answers of calls given up | live means nothing is pending |
| Gazebo joint reset, `joint_reset_system.cpp` | request, phase, paused world, controllers to restore | two services, PreUpdate | a handler thread and Gazebo's own thread share a request with a deadline | the world runs again after every outcome |
| Trajectory bridge, `moveit_gazebo_trajectory_bridge.py` | busy flag, the controller's goal handle | goal, cancel, execute, feedback | four threads; a cancel while the controller is accepting | one trajectory; ended means still; limits and motion of the coupled joint |
| Process orchestrator, `process_orchestrator_node.py` | a run lock, steps, latest states, subscriptions | start, steps, waits, time limits | waits fed by late and reordered messages; answers after the time limit | the arm moves in a prepared cell; every run ends |
| Peripheral simulation, `peripheral_sim_node.py` | fixture, spindle, clamp | commands, simulation and publish timers | commands between two steps of the simulation | `running` is out of date only after a slowdown |
| Joint feedback node, `joint_feedback_node.py`, with `ROS2_JOINT_FEEDBACK_1.txt` | one TcpClient of a worker thread, the stop event | connect, receive, parse, publish; destroy | WRITEs without a delimiter, a lost connection, a second thread that closes the socket | what is published is one WRITE, and a later one |
| Command builders and FLY queue sender, `command_builder.py`, `fly_queue_sender_template.py` | the list of commands, the place in it | check, print, send, stop at the first failure | printing rounds; a queue is built by several goals, with aborts and earlier starts between them | what is built is served; the motion is the script's |
| Environment boxes, `moveit_environment_boxes.py` | one pending call, a timer | load, send, take the answer | a scene refused, or lost with its server; nested poses | every obstacle is where it is |
| Trajectory processing, passive joints, sensors, sequence files, PATH senders, recording, launch files | little or none | numeric relays, text, start-up | -- | -- |

The last row is not modelled, except the one service of the passive controller
that the mirror calls: it is floating-point geometry, formatting, one-shot
clients or start-up without state that a later step depends on.
`PROJECT.json` lists every component with its status and the hazards with their
lines.

## 2. Modules

| Module | Models | Extends / composes |
|---|---|---|
| `C4GMovements` | the movement service with its interrupts and the arm | |
| `PathModel` | what the simulation accepts as a PATH, the order of its nodes, its batches | |
| `PathProtocol` | what the bridge accepts, and the commands it uploads a goal with | `PathModel` |
| `C4GMovementsHistory` | the service with a memory of aborts | `C4GMovements` |
| `CommandBuilder` | the builders of movement commands, and what the service asks of the parameters they print | |
| `FlyQueueSender` | the FLY queue sender and the service that serves it | `C4GMovements`, `CommandBuilder` |
| `PathUpload` | the upload of a goal by the bridge and the service that serves it | `C4GMovementsHistory`, `PathProtocol` |
| `MCC4GMovements` | instances: clients that send any commands, the uploads of the bridge, the sender | `PathUpload`, `FlyQueueSender` |
| `C4GPrograms` | main and control program; the movement service as its clients see it | |
| `ArmExecuteActionServer` | both actions, threads, cancels, deadlines | `C4GPrograms` |
| `MotionControlNode` | the trigger services, second client of port 8002 | `C4GPrograms` |
| `CommandBridge` | the three above together, network losses, operator restarts | both |
| `TcpClient` | the client with a step for every locked part | |
| `MessageChannel` | abstract: a queue of messages read in order | |
| `TcpChannel` | the mapping under which a client implements it: the messages in what was received and what is on the wire | `TcpClient`, `MessageChannel` |
| `JointFeedback` | the joint feedback node: its worker, its main thread, the program that feeds it | `TcpClient` |
| `MCTcpClient` | instances for two users of the client, the feedback node and the command bridge | `JointFeedback`, `TcpChannel` |
| `PathSequenceActionServer` | the sequence server, its cancel callbacks and services | |
| `PathSequenceHistory` | the same with a memory of cancels and signals | `PathSequenceActionServer` |
| `OfflineSequenceManager` | the editor and the action servers it uses | |
| `MoveItCommandServer` | the command server of the simulation: callbacks, threads, PATH waits, FLY queue | `PathModel` |
| `JointResetSystem` | the reset plugin: its handler and PreUpdate | |
| `C4GGazeboSync` | the mirror, the solver it pauses, other users of the plugin | `JointResetSystem` |
| `TrajectoryBridge` | the trajectory bridge and the controller in Gazebo | |
| `EnvironmentBoxes` | the environment boxes node and move_group's scene | |
| `MCGazeboNodes` | instances of the mirror, the trajectory bridge and the boxes; they share no state, so a behaviour of one beside the others at rest is a behaviour of it | `C4GGazeboSync`, `TrajectoryBridge`, `EnvironmentBoxes` |
| `PeripheralSim` | the devices | |
| `ProcessOrchestrator` | the process thread, its messages and calls, an operator, the arm | `PeripheralSim` |
| `MC*` | instances of the module they are named after | |
| `*_proofs` | theorems about the module they are named after and about those that compose or extend it; `GazeboNodes_proofs` is about `C4GGazeboSync`, `TrajectoryBridge` and `EnvironmentBoxes`, `ProcessOrchestrator_proofs` also about `PeripheralSim` | |

### How state and actions correspond to the code

Variables and actions keep the names of the source where TLA+ allows it
(`path_upload_active`, `_reserve_server`, `goal_callback`, `signal_sequence`);
`PROJECT.json` maps each definition to its lines.

**C4GMovements.** A call of `call_service` is several steps: the checks of the
routine (`call_service`), its assignments (`ApplyRoutine`), the MOVE statement
(`StartMove`, `execute_path`, `execute_fly_queue`), the return of the motion and
the check after it. An interrupt can fall between any two of them, as PDL2
condition handlers do. `signal_path_segment`, which runs in the control program,
is split between SIGNAL SEGMENT and the assignments after it. The handlers
themselves are atomic. The arm is a node number and whether it is held there.
An index outside an array stops the program (`service = "fault"`).

**C4GPrograms, ArmExecuteActionServer, MotionControlNode.** A command carries
the goal it belongs to, which the code does not send; only history variables and
properties look at it, so that "the answer of another goal" can be stated. Each
goal has a thread with a program counter `pc` and the command it is at, `op`. An
upload is `beginPath` and `commitPath`: the commands between them are sent,
answered and cancelled in the same way. `Exception` and `AfterException` collect
the except blocks, which close the connection before anything else is sent. The
cancel callback is two steps, because its thread waits for the answer of the
control program while the goal's thread goes on.

**TcpClient.** A step is what runs between two uses of `self._lock`, or a
socket call outside it. The wire is a sequence of bytes that remember where a
WRITE of the controller ended.

**JointFeedback.** The worker's program counter is the place in `_feedback_loop`;
inside a call of its `TcpClient` it takes that module's steps. The main thread
is in spin or at one of the three things `destroy_node` does. The nth WRITE of
the controller has the digit of n in each value; the parser looks at the prefix
and the number of values, as `_parse_joint_message` does.

**CommandBuilder, FlyQueueSender.** A number is a multiple of a small unit, so
that printing with six or three digits can be the rounding it is. `Builds` is
that the builder raises nothing, `Text` is what it prints, `ParametersServed` is
what the routine asks of the numbers when it has read them. The sender is `main`
of the template: build all, send one, wait for its result, stop at the first
failure; `SendFails` stands for every way in which the action server or the wait
for it may end without the controller's answer. It may be started again.

**EnvironmentBoxes.** `BoxInit` is the constructor, which loads the configuration
or fails; the timer (`_try_apply`) and the answer (`_applied`) are the node's
callbacks, the other actions are move_group. Poses have a position in a plane
and quarter turns, for which `_compose_pose_chain` is exact.

**PathSequenceActionServer.** One step per access to shared state: the wait loop
looks for a cancel and for the continue flag in separate steps, the cancel
callback forwards, raises the flag and returns in separate steps, and the
finally block is three steps because it takes two locks.

**OfflineSequenceManager.** The node has a single-threaded executor, so a
callback is one step; a goal is on its way, answered or finished between them.
Blocks are numbered objects that lists refer to, because a merge changes the
object and not the list.

**PathModel, PathProtocol.** Both validations are pure and are written as the
conjunction of the checks the code makes one by one; order and wording of the
errors are left out. A node keeps the fields they look at; a number is reduced
to whether it is finite and in its range. The upload commands have the form
`C4GMovements` takes, so that the acceptance of the bridge is compared with the
checks of the controller and not with a copy of itself.

**PathUpload.** The loop of `execute_path_callback` over these commands, and
executePath after it, with `call_service` of the controller as the other end:
`SendNext` is one turn, `Withdraw` the abortPathUpload of a cancel that the loop
has seen, `TakeAnswer` the comparison with FINAL_OK. Connection and deadlines are
those of `ArmExecuteActionServer`.

**MoveItCommandServer.** The node's callbacks exclude each other, the threads of
the goals run beside them. `step` is where a thread is; one step is what happens
between two accesses to what others write: the flags under `path_state_mutex_`,
`busy_`, `motion_active`, the goal handle. A cancel callback is three steps
(flags, forwarding, stop), and rclcpp marks the goal in a fourth, after the
callback has returned. A condition variable is a thread "asleep" that
`NotifyAll` or a spurious wake-up returns to its predicate.

**JointResetSystem, C4GGazeboSync.** The handler is one step per call it makes
or lock it takes (list, deactivate, begin, wait, reactivate); PreUpdate is one
step per iteration of Gazebo. A step of the mirror is a firing of its timer in
one of its states. Every call has a number, so that the answer to a call that
was given up can be told from the awaited one; the code has a future per call.

**TrajectoryBridge.** `pc` is where `execute_callback` is, `cpc` where the cancel
callback of a goal is; the controller may answer, move, end or cancel at any
time. Positions, velocities and accelerations are integers, converted and limited
as in the code. Feedback has the point commanded to and the distance the arm is
behind it; of each goal the last one is kept.

**PeripheralSim, ProcessOrchestrator.** A command, a step of the simulation
timer and a publication are one step each, as the node's lock makes them. A
state message on its way is a value in a set, from which it may be stored in any
order and more than once. The process thread is at a step of the process, and in
it before the call, waiting for its answer, waiting for a state, or in a delay.
A command the node does not know, or whose speed is no number, is refused.

## 3. Runs

TLC must find no error in a "holds" run, and a counterexample to the one
property of a "violated" run.

| Run | Shows | Expected |
|---|---|---|
| `c4g` | only complete PATHs move the arm (`MotionOnCompletePath`), an accepted continue finds the arm held (`WaitingMeansHeld`), a motion met by an abort returns ABORTED and the arm stands still until then, except for the one MOVEFLY that was past its check (`AbortedMotionIsReported`), an aborted PATH stays down until its next beginPath, unless the abort falls between a routine's checks and its assignments (`AbortedPathStaysDown`), an abort releases the call even when held or paused (`AbortReleasesCall`), a goal the bridge accepts is not refused by the controller (`UploadIsAccepted`), a FLY motion follows the elements of the script that ordered it (`ExecutesTheScript`), a command that was built is not refused for its parameters (`BuiltIsServed`) | holds |
| `offline` | no dangling wait is left, sent or exported (`StoppedIsFinal`, `SentToArmIsFinal`) | holds |
| `sequence` | shared state belongs to the running goal (`StateIsOwn`), no PATH outlives its goal (`NoOrphanPath`), success is complete (`SuccessMeansAll`), the start check is not stale (`PathStartsInPlace`), at most one PATH after a cancel (`CancelSendsAtMostOne`), cancels end (`CancelEnds`) | holds |
| `tcp` | no self-deadlock (`NeverSelfBlocked`), the client of the bridge implements `MessageChannel` (`ImplementsChannel`), the feedback node publishes whole WRITEs in order (`PublishesInOrder`) | holds |
| `bridge` | the two ends of port 8000 keep step (`InStep`), success is the goal's own (`SuccessIsOwn`), a canceled goal is still (`CanceledIsStill`), an abandoned PATH is stopped (`AbandonedPathIsStopped`), control answers are not exchanged (`AnswerIsOwn`), every goal ends (`GoalsEnd`) | holds |
| `moveit` | one goal at a time (`OneGoal`), what is recorded can be executed again (`RecordedIsValid`), one signal passes one wait (`WaitsAreSignaled`), no planning is left to itself (`NoOrphanPlanning`), a cancel ends a PATH or the process (`PathCancelEnds`) | holds |
| `gazebo` | the solver is at rest while the joints are placed (`SolverRests`), live means nothing pending (`LiveIsClean`), the world runs again (`WorldResumes`), so does a solver whose service stays up (`SolverReturns`); ended means still (`EndedMeansStill`), the controller is given the limits and the motion of the request, with its velocities and accelerations, and MoveIt is shown its own points and the true error (`TracksRequest`), a cancel that is heard ends the goal (`CancelEnds`); the obstacles are in the planning scene, where and as large as they should be (`EveryBoxIsInTheScene`) | holds |
| `peripherals` | the arm of the first run moves with the workpiece clamped and the spindle at speed (`RobotMeetsPreparedCell`), `running` is out of date only when a spindle at speed was given a lower one, until the next step of the simulation (`OnlySlowingOutdatesRunning`) | holds |
| `c4g_lost_wait` | a continue can erase the next wait: the arm is held, and no continue is accepted | violated |
| `sequence_cancel_continues` | the cancel of a waiting sequence can start its next PATH | violated |
| `moveit_cancel_kills` | the cancel of a PATH can end the command server's process | violated |
| `spindle_slower` | a spindle reported as running need not have its commanded speed (`RunningIsAtSpeed`) | violated |

### Bounds, and why they are enough

- `c4g`: four menus of commands. "path": one path id, nodes 1..2, a Cartesian
  PATH run forward and a joint PATH run backward, with waits, failing targets and
  wrong node numbers. Two nodes give a first, a last and a next node, which is
  what the counters, the range check and the hand-over of a wait distinguish; the
  two kinds give two PATH variables of which one may be stale. "fly": `MaxFly` 3,
  so that a queue can be empty, have an inner segment (MOVEFLY), a last one
  (MOVE), and be full. "upload": 24 goals of at most two nodes, each valid or
  breaking one rule of the validation at its boundary, canceled in front of any
  command. "sender": eleven scripts
  (the template, a queue of joints, a mixed and a too long one, limits of the
  ranges, numbers that vanish in printing, arguments that are refused), started
  twice, so that one start leaves a queue to the next; 81 units to 1.0, of which
  three and nine make the last digits.
- `offline`: two drafts out of three prepared PATHs, `MaxPathNodes` 2: a merge
  that fits, one that would exceed the limit, and one refused for the type; and
  one goal (a second one before the first has ended is described in section 5).
- `sequence`: two goals, so that one ends while the next begins, of two PATHs
  each, one wait between them and one after the last. Two places: where the arm
  should be and elsewhere. The first accepted goal is the one with the wait
  (`MCInit`).
- `tcp`: a reader and a second thread, two connections, three WRITEs, chunks of
  4 bytes and messages of up to 7. Three WRITEs are more than two chunks hold; two
  connections let bytes of the first meet the second. The feedback node has one
  chunk of 12, which holds two of its messages and a part of the third, and the
  same number of messages and connections.
- `bridge`: budgets choose what comes from outside in one behaviour: two goals
  with the same path_id; or one goal with two control requests; or one goal with
  a lost connection; each with one restart. `MaxEvents` 1 and `MaxControl` 2
  bound PATH_EVENTs under way and control messages when a cancel is sent. Every
  property is about at most two goals or two requests. Two goals together with
  losses are not checked by TLC; the theorems on the handshake have no budget.

- `moveit`: two threads are a goal that ends while the next begins; a third would
  need `busy_` free twice. PATHs of three and four nodes, with a wait at the
  first, in the middle and at the end, an arc inside a batch, alone in one, run
  backwards, and with a wait at its via; `MaxFly` 2 for a queue that is empty,
  executable and full. Clients of one behaviour use one of three menus.
- `gazebo`, the mirror: three resets: one that was given up, the one asked for after it, and
  one of the editor in any place. The four set-ups are blend, teleport with and
  without the solver's handover, and with a solver whose service may be away.
- `gazebo`, the other nodes: two goals, of which the first makes one of ten mistakes or
  none, in the latter case with or without velocities and accelerations; two
  points; limits so small that every check is met on both sides; an arm that is
  behind in both joints, by different amounts. Of
  the boxes: a box and a cylinder in every orientation, with and without
  padding, no box, and configurations that break one rule each; two restarts of
  move_group and two refusals, so that one of each falls between two others.
- `peripherals`: `MaxRuns` 2, a run after one that failed; three speeds (stopped,
  below and at the nominal one), so that accelerating takes a step in between;
  one command of an operator at a time before the first run, among them a lower
  speed and commands that are refused.

Runs that check liveness are finite because the inputs are. `tcp`, `bridge`,
`moveit`, `moveit_cancel_kills`, `gazebo`, `peripherals` and `spindle_slower` do not
check deadlock, because
there everything may have ended: all messages, goals, the budget of resets or
runs, or the process itself; the other runs check it.

### Fairness

- `C4GMovements`: a running program, the arm, a raised wait condition and the
  second half of `signal_path_segment` take their steps. Nobody has to send a
  command, continue, resume or abort.
- `PathSequenceActionServer`: the executor has a thread for every callback
  (`MultiThreadedExecutor`, reentrant group); the arm bridge answers a PATH and
  ends it. Nobody continues a wait.
- `CommandBridge`: only the threads of the action server, and their deadlines.
  The controller, the network and the operator owe nothing, so `GoalsEnd` says
  that deadlines alone are enough.
- `OfflineSequenceManager`, `TcpClient`, `JointFeedback`, `FlyQueueSender`,
  `EnvironmentBoxes`, `ProcessOrchestrator`: no fairness, no liveness is stated.
- `MoveItCommandServer`: threads take their steps (a planning and a motion end),
  and a callback that has begun is carried through. No client sends a continue,
  and no spurious wake-up is owed.
- `C4GGazeboSync`: the timer fires, the solver answers, handler and PreUpdate
  run. The node need not be enabled again after an error.
- `TrajectoryBridge`: the executor runs callbacks, the controller answers goals
  and cancels. It need not ever reach the end of a trajectory, so that
  `CancelEnds` is about the cancel alone.

Where a property asks for a step nobody owes (a continue, a reconnection), it
is not stated as liveness.

## 4. Assumptions

Taken from PDL2 and rclpy, whose sources are not in the repository:

- READ waits while the connection lives and returns '' when it is lost; WRITE to
  a lost connection disappears.
- CANCEL ALL ends a motion, also a locked one; condition handlers are not
  interrupted.
- rclpy and rclcpp mark a goal as cancelling after the cancel callback has
  returned; rclcpp throws from `canceled()` for a goal that is not cancelling.
- A service call that was given up may still be carried out, also a switch of
  controllers; a service handles its calls in order.
- A wait on the last node of a PATH: whether the arm is held there is left open.

Choices of the models:

- `echo check` is on (its default); the getPose query behaves as getJoints.
- The control port is modelled with one client, as ACCEPT is called once. Which
  of the two programs gets it is open.
- Parameter validity is one Boolean, or a choice to refuse.
- In `PathSequenceActionServer` a motion lasts longer than feedback stays fresh,
  and others move the arm only while no sequence runs or one waits.
- In `OfflineSequenceManager` the Gazebo resets after reject and undo are left
  out; `get_status` changes nothing.
- `ImplementsChannel` assumes one reader, WRITEs that are not split and have LF
  only at their end, and that only WRITEs ending in LF are joined
  (`WholeMessages`). Section 5 says what happens otherwise.
  `NeverSelfBlocked` assumes one reader and `max_message_bytes` of at least two
  chunks, which the defaults of the other nodes satisfy; for the feedback node,
  whose limit is one chunk (1024), it rests on what that node receives: WRITEs
  without a delimiter.
- In `JointFeedback` the WRITEs are told apart by their digit, and a joint
  message has three of them, for six numbers. `PublishesInOrder` is about WRITEs
  that arrive whole, alone or several together.
- In `CommandBuilder` a number is a multiple of a unit: 1.0 is `One` units, and
  the last digits that are printed are `Micro` and `Milli`; halves are rounded up.
  A script is a list of calls of builders with arguments of their
  types. `ExecutesTheScript` is about scripts that clear the queue first, as the
  template does, and `BuiltIsServed` excepts what vanishes in print (section 5).
- In `EnvironmentBoxes` positions are in a plane and rotations are quarter
  turns; poses and sizes in the SDF have the right number of values.
- In `PathProtocol` a number in its range is written as one that is in its
  range; section 5 names the exception.
- In `C4GGazeboSync` checks of a pose may go either way and `set_enabled` of the
  solver always succeeds. `SolverReturns` is about a solver whose service stays
  up.
- `CancelEnds` of `TrajectoryBridge` is about a cancel whose callback finds the
  controller's handle, or that is accepted before the execution looks for one.
- `RobotMeetsPreparedCell` is about the first run and an operator who gives
  commands before it only.
- `RecordedIsValid` is about PATHs that run forward, whose fields have the types
  of the action definition (`PathGoal`).

## 5. Findings

The four "violated" runs, with the text they contradict, are in `PROJECT.json`.
What follows are behaviours met while modelling that no run isolates. Where a
text of the repository speaks of them it is named.

Controller:

- An abort inside `addFly` after its checks leaves one entry in a queue of no
  kind. An abort in front of the last MOVE of a JOINT queue makes it read index
  0 and stops the program. An abort just after the check in front of a MOVEFLY
  does not stop that segment (`ROS2_MOVEMENTS_1.txt:969-975`): the MOVEFLY starts
  the arm, which may still move when ABORTED is returned.
- An abort between the checks of `commit_path` and its assignments is
  overwritten: the PATH becomes READY and can be executed, complete but aborted.
  The same window exists in `beginPath`, and in `executePath` before its MOVE.
  `AbortedPathStaysDown` does not count an abort that falls into one of them
  (`PastItsCheck`), and holds for all others.
- A cancel that reaches the controller before `reset_abort` of its command is
  forgotten, and `is_cancel_requested` is not looked at between the last upload
  command and executePath.
- An abort between two commands of a sender empties the FLY queue, and nobody is
  told: the elements that follow start a queue of their own, and its execution
  succeeds (`ROS2_MOVEMENTS_1.txt:139-140`).
- In `ROS2_JOINT_FEEDBACK_1.txt` nothing leaves SEND_STATE, so that its
  ERROR_STATE is never reached: after a lost client the program has to be
  restarted.
- After a lost client neither controller program accepts a new one until it is
  restarted; `arm_tcp_bridge.launch.py` starts two clients for port 8002, which
  takes one.

Bridge:

- A JOINT PATH with a table of frames is accepted by `path_protocol.py` and
  refused by `set_path_frame`: the upload fails in the middle. `UploadIsAccepted`
  excepts it.
- A `segment_override` above 0 that is smaller than half a millionth passes the
  check (`path_protocol.py:138`) and is written as 0, which the controller
  refuses.
- The builders check a number before they print it: a speed of `setSpeedLin`, the
  vector of `moveRelative` and the axis or angle of `moveAbout` that are not zero
  may be printed as zero, which the controller refuses. `BuiltIsServed` excepts
  them.
- A sender waits for its server and for its answers without a time limit
  (`fly_queue_sender_template.py`): a server that goes away leaves it waiting.
- A connection that the worker of the feedback node makes after `destroy_node`
  has closed the client stays open until the process ends.
- The bridge lets a SEG_VIA node wait; `path_model.cpp` refuses it, and
  `docs/offline_path_sequence.md:55-56` says that it cannot.
- A single command that misses its deadline is given up without abortMotion: the
  arm goes on, and the next goal waits for it.
- A recv that ends inside a message returns the part as a message, although
  `tcp_client.py:187-189` says that messages are complete. An unframed answer
  received together with a preceding PATH_EVENT stays in the buffer until the
  deadline.
- In the sequence server a cancel between the check of `_active_path_goal` and
  its use ends with an AttributeError, and a cancel that waits long enough can
  meet the PATH of the next sequence.
- A second send makes the editor forget the goal that executes
  (`offline_sequence_manager.py:642`, 497, 437); its preview refers to blocks
  that an accept may still merge into.

Simulation:

- In the command server a sequence goal that the planner accepts after the
  timeout (`moveit_command_server.cpp:590`) is planned to its end, as nothing
  keeps its handle. `NoOrphanPlanning` is about goals accepted in time.
- `busy_` is cleared before `motion_active` (752): a goal accepted in between
  moves the arm while the last message says false, which the editor takes for
  the end of a motion (`docs/offline_path_sequence.md:73`).
- The thread of a PATH clears `path_cancel_requested_` (642) after its goal could
  already be cancelled; such a cancel is noticed only where the goal handle is
  looked at.
- A batch of one node has no direction (`path_sequence_builder.cpp:151`): the
  CIRCULAR node of a PATH run backwards is executed through its via, and recorded
  as a block that no check accepts.
- In the trajectory bridge a cancel whose callback finds no handle (440) and that
  is marked after the check of 487 is forwarded by neither.
- A controller switch that was given up after three seconds
  (`joint_reset_system.cpp:361`) may still happen, also after the next one.
- When the solver's service is away as a teleport is given up
  (`c4g_gazebo_sync_node.py:748`), its flag is cleared and nothing tries again:
  the solver stays paused until the next teleport.
- A request for the boxes that is lost with `move_group` is never answered, and
  the node, which has one call at a time, makes no other
  (`moveit_environment_boxes.py:249`); once it has cancelled its timer, a restart
  of `move_group` leaves the scene empty. `EveryBoxIsInTheScene` excepts the
  latter.
- A process that fails leaves the devices as they are
  (`process_orchestrator_node.py:180`), and a wait (284) may be satisfied by the
  state of an earlier run. In the first run the process subscribes only when it
  waits, so what it receives was published after the command before the wait.

## 6. Proofs

TLAPS checks these for all constants that satisfy the named assumptions: any
number of goals, nodes, PATHs, messages, losses and restarts. Every invariant
and every action property of the passing runs is stated by one of them; what is
left to TLC is at the end of this section.

| Module | Theorems | Inductive invariant |
|---|---|---|
| `C4GMovements_proofs` | `TypeCorrect`, `CompletePathOnly`, `WaitingIsHeld` | `TypeOK`, and `RangeInv` (start and end lie in the announced range), `ReadyInv` (READY or executing implies complete), `CallInv` (what the call has checked still holds, whatever interrupted it), `ArmInv` (where the arm is). The property alone is not inductive: it says nothing before the arm moves, and the completeness was established by earlier commands. `WaitingIsHeld` adds that the flag implies a reported arm. |
| | `AbortIsReported`, `AbortedStaysDown` | over the history of aborts (`HistorySpec`): `HitInv` (a motion met by an abort goes on only to the checks of the flag, which nothing clears before the call has returned; from a MOVEFLY past its check it starts the arm first, once, and everywhere else the arm stays stopped) and `VoidInv` (after the abort the upload is closed, and no routine that would change that is past its checks) |
| | `UploadsAreAccepted` | over the upload and the controller (`UploadSpec`): `UploadInv`. After p commands the controller has come as far as `Arrived(p)` says (announced, m nodes committed, r parts of the next one set, or READY), what `Arrived(p)` says admits command p + 1, and carrying it out arrives at p + 1. Before executePath no PATH moves the arm and no continue is under way (`Quiet`), so only an abort can disturb this; and one that the remaining commands do not notice fell between the checks and the assignments of beginPath, commitPath or executePath, which set all that they need. |
| | `SenderRunsItsScript`, `BuiltCommandsAreServed` | over sender and controller (`SenderSpec`). `SInv`: the queue holds the elements of the script in front of its position, or fewer after an abort, between commands, while one is served and when it has been taken for the motion. `BuiltInv`: a script under way has passed all its builders; the lemmas say that rounding never crosses a multiple of its unit, so that limits survive printing and only zero can be newly met. |
| `OfflineSequenceManager_proofs` | `TypeCorrect`, `StoppedReviewed`, `SentFinal` | adds `PathsDistinct` (no list holds a block twice, so a merge changes one position) and `ResetIsPreview` |
| `PathSequenceActionServer_proofs` | `TypeCorrect`, `OwnState`, `NoOrphan`, `SuccessIsComplete`, `CheckedStart` | `LockInv` (one executing goal, and it holds busy), `StateInv`, `PathInv` (the step of a goal determines how far its PATH can be), `CountInv`, `PlaceInv` (fresh feedback is where the arm is) |
| | `LatePathIsTheLast` | `LateInv`: an accepted cancel stays accepted, and a goal that has sent a PATH after it never comes back to the sending, because the way there leads past the check at the top of the loop |
| `TcpClient_proofs` | `TypeCorrect`, `NoSelfBlock` | `ReaderLooked` (the reader has found no delimiter in what is buffered), `ShortChunks`, `ShortBuffer`: together they bound the buffer by less than two chunks. Assumes `OneReader` and `TwoChunks`. |
| | `FeedbackTypeCorrect`, `FeedbackNoSelfBlock`, `FeedbackInOrder` | over the feedback node (`FeedbackSpec`). `PlainFeedInv`: no byte is a delimiter, so the buffer stays empty and one chunk is enough. `OrderInv`: on the wire are the last WRITEs in their order, what was received is the next of them or too long to be parsed, what is published has left the wire. The last theorem assumes `~Splits`. |
| | `ClientIsAChannel` | the refinement: `Spec => ImplementsChannel` of `TcpChannel`, under `WholeMessages`. The run checks the same of the client of the bridge, which it instantiates beside the feedback node; the feedback node's own WRITEs have no LF and are no `WholeMessages`. `ChannelInv`: on the wire are whole WRITEs, of which those that may be joined end in LF; the buffer is empty or ends in LF; only the reader holds a chunk, and then the buffer is empty. The lemmas before it are about the messages in a sequence of bytes, which are counted by the ends in it: more bytes with one more end add a message (`OneMore`), taking them up to the first end takes the first one (`OneLess`), a prefix has the first ones (`FirstMessages`), and bytes that move from the wire into a chunk keep all of them (`Moved`). |
| `CommandBridge_proofs` | `TypeCorrect`, `HandshakeInStep`, `OwnAnswers`, `SuccessIsTrue`, `CanceledGoalsAreStill`, `AbandonedPathsAreStopped` | `Handshake`: `OneThread` (busy admits one thread), `ClientEnd` (what may be on its way to a waiting thread), `MainEnd` (what may be on its way to the main program), `SamePlace` (both ends are at the same command while the connection is open); `NodeOwns` for the control port; and on top of the handshake `Outcomes`: a final answer is the last thing of its command and means what it says (`FinalIsLast`, `FinishedIsKept`), a thread past its beginPath finds its own PATH (`PathIsOwn`), a motion command under way is the last one of its goal (`MotionIsLast`), and an abandoned executePath meets an abort before or after it is admitted (`Stops`) |
| `MoveItCommandServer_proofs` | `OneGoalAtATime`, `PlanningIsOver`, `SignalPassesOneWait` | `OneGoal` itself is inductive; `SignalInv` ties the flags of the node to the one thread that waits: an open wait has used up its signals, and a signalled one is not open. It needs `OneGoal`, because every thread writes these flags. |
| | `RecordedBlocksAreValid` | `BatchInv` (a thread is at a batch its PATH has, and waits only before another one), and the lemma that every batch of a valid PATH that runs forward is a valid PATH: the batches are the stretches between cuts, and as a via cannot wait, no cut parts a CIRCULAR node from its via |
| `GazeboNodes_proofs` | `WorldRuns`, `SolverIsAtRest`, `LiveClean` | of the mirror: `WorldInv` (PreUpdate works for a handler that waits), `SolverInv` (what may be on its way to the solver in each state), `OrderInv` (calls are answered in the order they were made), `OwnInv` (which calls of the node may be unserved): an answer to the awaited call says that all before it are over, also those given up |
| | `OneAtATime`, `EndIsStill`, `RequestTracked` | of the trajectory bridge: `LockInv` (busy admits one execution), `FollowInv` (what the controller can be doing at each step of it), `AcceptInv` (only accepted trajectories are followed, not beyond their end), `ShownInv` (what MoveIt was shown is a point commanded in that goal, converted back), and the lemmas that the conversions of positions and of rates are inverse to each other, that a converted rate leads where the rate does (`RateLeads`: the offset is in positions only), and that the error shown is the distance (`ErrorIsDistance`) |
| | `BoxesInTheScene` | of the boxes: `BoxInv` (once applied, the obstacles are in the scene until it is lost), and the lemmas that a chain of poses puts a point where its poses do one after the other, and that a diff of distinct identifiers leaves each of them there |
| `ProcessOrchestrator_proofs` | `TypeCorrect`, `RunningOutdated`, `PreparedCell` | `BaseInv` (types, what messages can say, which phases follow each other), `Outdated` (a spindle whose `running` is out of date turns, faster than it should), `GoalsInv` (before a run nothing was called; in the first one at most the command of the current step is under way), `CellInv` (for each preparing command and wait: what has been done stays done, and a message that satisfies the wait was published after the command). `PreparedCell` assumes `ProcessPrepares`: in front of a robot step the process clamps, starts the spindle and waits for both; the run checks it of the demo process. |

The argument for the handshake: one thread at a time writes to the connection;
it writes only after it has read what it waited for; every exception closes the
connection, which empties what is on its way back; so what is in the connection
always belongs to the one waiting thread. `InStep` alone is not inductive because
it does not say which messages may exist when nobody waits.

Why an abandoned PATH is stopped: the abort clears `path_state`, so executePath is
refused when it is read after the abort, although `reset_abort` has cleared
`motion_aborted` in between; and once executePath is admitted nothing clears
`motion_aborted` any more. `Harmless` states these two halves. Why success is the
goal's own: "Movement finished" is written only after the check of `motion_aborted`,
and only a thread that holds busy can have replaced the PATH by another beginPath.

Each proof shows Init => Inv, Inv /\ [Next] => Inv', Inv => property, with one
step per action, and closes with propositional temporal logic.

### Only model-checked

- All liveness (`AbortReleasesCall`, `GoalsEnd`, `CancelEnds` of the sequence
  server and of the trajectory bridge, `PathCancelEnds`, `SolverReturns`):
  fairness and ENABLED are outside TLAPS's reach here.

The mapping of `TcpChannel` finds the messages by the rank of their ends and not
by recursion over the bytes: induction over data is outside reach too.

## 7. Not modelled

Floating-point geometry and trajectory processing, text of commands, YAML, launch
files, sensor simulation, the one-shot senders other than the one of the FLY
queue, message definitions, the reading and writing helpers of PDL2, recording
analysis and archived versions of programs.
They have no state that a later step depends on, or none but the connection
that other modules have.

Within modelled components: positions, speeds, frames, condition tables, ROS
feedback messages, logging, the display of the teach pendant, and `Hello`. Of the
control program `getPathState` only reads; of the motion control node
`signal_path` and `get_path_state` use the connection as the Trigger services
do. Of the builders of MoveIt requests only what they refuse and record is
modelled, of the command parser only the commands it returns.

## 8. What is left

- Two further abstract specifications: the main program as the client sees it
  (one command, one answer), implemented by `CommandBridge`; a robot that carries
  out one PATH at a time, implemented by `PathSequenceActionServer`.
- The editor and the command server together: `motion_active` as the editor reads
  it, and the blocks it is sent.
