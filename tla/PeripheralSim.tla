---------------------------- MODULE PeripheralSim ----------------------------
(***************************************************************************)
(* PeripheralSimNode: a passive fixture, a spindle and a pneumatic clamp,   *)
(* each with an action server for commands and a topic for its state.       *)
(* Commands, the simulation timer and publishing take the node's lock one   *)
(* by one but otherwise interleave.                                         *)
(*                                                                         *)
(* Speeds are levels, Nominal being the speed of the process; one step of   *)
(* the simulation changes the speed by a level.  A state message is cut to  *)
(* the value the process may wait for.  self._lock is held for one action.  *)
(***************************************************************************)
EXTENDS Integers, Sequences

CONSTANT Nominal      \* the rpm of process_demo.yaml, in levels

ASSUME PeripheralAssumption == Nominal \in Nat \ {0}

Devices == {"fixture", "spindle", "clamp"}
Speeds  == 0 .. Nominal
NotSpeed == -1        \* an rpm that is no number, or negative

VARIABLES
  fixture,            \* the PeripheralDevice of each type; fault is never set
  spindle,
  clamp,
  arriving            \* what the state messages on their way tell the process

deviceVars == <<fixture, spindle, clamp>>

DevicesTypeOK ==
  /\ fixture \in [ready : BOOLEAN, safe : BOOLEAN]
  /\ spindle \in [state : {"idle", "accelerating", "running", "decelerating", "ready"},
                  target_rpm : Speeds, actual_rpm : Speeds, running : BOOLEAN,
                  commanded_running : BOOLEAN]
  /\ clamp \in [state : {"clamping", "clamped", "releasing", "released", "ready"},
                clamped : BOOLEAN, target_clamped : BOOLEAN, moving : BOOLEAN]
  /\ \A d \in Devices : arriving[d] \subseteq IF d = "spindle" THEN Speeds ELSE BOOLEAN

\* peripherals.yaml
DevicesInit ==
  /\ fixture = [ready |-> TRUE, safe |-> TRUE]
  /\ spindle = [state |-> "idle", target_rpm |-> 0, actual_rpm |-> 0,
                running |-> FALSE, commanded_running |-> FALSE]
  /\ clamp = [state |-> "released", clamped |-> FALSE,
              target_clamped |-> FALSE, moving |-> FALSE]
  /\ arriving = [d \in Devices |-> {}]

-----------------------------------------------------------------------------
(* The commands, with the parameter rpm where there is one                  *)

\* Mutant: a new target leaves running as it is.
SpeedSet(rpm) ==
  spindle' = [spindle EXCEPT !.target_rpm = rpm,
                !.actual_rpm = IF spindle.commanded_running THEN @ ELSE 0]

\* what a device understands besides the commands that every device has
Supported == [fixture |-> {"enable", "disable"},
              spindle |-> {"set_speed", "start", "stop"},
              clamp   |-> {"clamp", "release"}]

_handle_passive_fixture(command) ==
  /\ command.name \in Supported.fixture
  /\ fixture' = [fixture EXCEPT !.ready = command.name = "enable"]
  /\ UNCHANGED <<spindle, clamp>>

set_speed(rpm) ==
  LET stopped == ~ spindle.commanded_running
      slower  == spindle.actual_rpm < rpm
  IN spindle' = [spindle EXCEPT
       !.target_rpm = rpm,
       !.actual_rpm = IF stopped THEN 0 ELSE @,
       !.running    = @ /\ ~ stopped /\ ~ slower,
       !.state      = IF ~ stopped /\ slower THEN "accelerating" ELSE @]

_handle_spindle(command) ==
  /\ \/ command.name = "set_speed" /\ command.rpm # NotSpeed /\ set_speed(command.rpm)
     \/ /\ command.name = "start" /\ spindle.target_rpm > 0
        /\ spindle' = [spindle EXCEPT !.commanded_running = TRUE,
                         !.state = "accelerating", !.running = FALSE]
     \/ /\ command.name = "stop"
        /\ spindle' = [spindle EXCEPT !.commanded_running = FALSE,
                         !.state = "decelerating", !.running = FALSE]
  /\ UNCHANGED <<fixture, clamp>>

_handle_pneumatic(command) ==
  /\ command.name \in Supported.clamp
  /\ clamp' = [clamp EXCEPT !.target_clamped = command.name = "clamp", !.moving = TRUE,
                 !.state = IF command.name = "clamp" THEN "clamping" ELSE "releasing"]
  /\ UNCHANGED <<fixture, spindle>>

\* commands that every device has
WaitReady(command) ==
  /\ command.name = "wait_ready" /\ (command.device = "fixture" => fixture.ready)
  /\ UNCHANGED deviceVars

ResetFault(command) ==
  /\ command.name = "reset_fault"
  /\ fixture' = IF command.device = "fixture" THEN [fixture EXCEPT !.ready = TRUE] ELSE fixture
  /\ spindle' = IF command.device = "spindle" THEN [spindle EXCEPT !.state = "ready"] ELSE spindle
  /\ clamp' = IF command.device = "clamp" THEN [clamp EXCEPT !.state = "ready"] ELSE clamp

Handled(command) ==
  \/ WaitReady(command)
  \/ ResetFault(command)
  \/ command.device = "fixture" /\ _handle_passive_fixture(command)
  \/ command.device = "spindle" /\ _handle_spindle(command)
  \/ command.device = "clamp" /\ _handle_pneumatic(command)

\* what makes a handler raise: the goal is aborted and nothing changes
Raises(command) ==
  \/ command.name = "wait_ready" /\ command.device = "fixture" /\ ~ fixture.ready
  \/ command.device = "spindle" /\ \/ command.name = "start" /\ spindle.target_rpm = 0
                                   \/ command.name = "set_speed" /\ command.rpm = NotSpeed
  \/ command.name \notin Supported[command.device] \cup {"wait_ready", "reset_fault"}

_dispatch(command, success) ==
  \/ success /\ Handled(command)
  \/ ~ success /\ Raises(command) /\ UNCHANGED deviceVars

-----------------------------------------------------------------------------
(* The simulation timer                                                     *)

_update_spindle ==
  LET up   == IF spindle.actual_rpm + 1 < spindle.target_rpm
              THEN spindle.actual_rpm + 1 ELSE spindle.target_rpm
      down == IF spindle.actual_rpm = 0 THEN 0 ELSE spindle.actual_rpm - 1
  IN IF spindle.commanded_running
     THEN [spindle EXCEPT !.actual_rpm = up,
             !.running = spindle.target_rpm > 0 /\ up = spindle.target_rpm,
             !.state = IF spindle.target_rpm = 0 THEN "idle"
                       ELSE IF up = spindle.target_rpm THEN "running" ELSE "accelerating"]
     ELSE [spindle EXCEPT !.actual_rpm = down, !.running = FALSE,
             !.state = IF down = 0 THEN "idle" ELSE "decelerating"]

\* once the transition time is over; the clamp may also still be on its way
_update_pneumatic ==
  {[clamp EXCEPT !.clamped = clamp.target_clamped, !.moving = FALSE,
      !.state = IF clamp.target_clamped THEN "clamped" ELSE "released"]}
  \cup (IF clamp.moving THEN {clamp} ELSE {})

_update_simulated_devices ==
  /\ spindle' = _update_spindle
  /\ clamp' \in _update_pneumatic
  /\ UNCHANGED <<fixture, arriving>>

-----------------------------------------------------------------------------
ValueOf(d) == CASE d = "fixture" -> fixture.safe
                [] d = "spindle" -> spindle.actual_rpm
                [] d = "clamp"   -> clamp.clamped

\* published after each command and by a timer, to whoever has subscribed
_publish_state(d, subscribed) ==
  /\ d \in subscribed
  /\ arriving' = [arriving EXCEPT ![d] = @ \cup {ValueOf(d)}]
  /\ UNCHANGED deviceVars

-----------------------------------------------------------------------------
\* What peripheral_value_schema.yaml:21-23 says of the value running: true only
\* after the spindle reaches its commanded speed.
RunningIsAtSpeed ==
  spindle.running => spindle.commanded_running /\ spindle.actual_rpm = spindle.target_rpm

\* The one way in which that fails, whatever commands come between two steps of
\* the simulation: a spindle at speed was given a lower one, it still turns with
\* the speed it had, and the simulation has made no step since
\* (peripheral_sim_node.py:294-316 and 372-390).
OnlySlowingOutdatesRunning ==
  [][~ RunningIsAtSpeed' =>
       /\ spindle'.commanded_running /\ spindle'.actual_rpm > spindle'.target_rpm
       /\ ~ RunningIsAtSpeed \/ spindle'.target_rpm < spindle.target_rpm
       /\ spindle'.actual_rpm = spindle.actual_rpm]_deviceVars
===============================================================================
