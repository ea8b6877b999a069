--------------------- MODULE ProcessOrchestrator_proofs ---------------------
(***************************************************************************)
(* Theorems about the process orchestrator and the devices it commands.     *)
(*                                                                         *)
(* That the robot meets a prepared cell is shown for every process that     *)
(* prepares it (ProcessPrepares, a condition on the list of steps alone     *)
(* that the process of process_demo.yaml meets).  The clamp and the spindle *)
(* have the same argument: once the command was carried out its target      *)
(* stays; no message of the device is on its way before the process waits   *)
(* for it; so a message that tells the awaited value was sent when, and     *)
(* since then, the device had it.                                           *)
(***************************************************************************)
EXTENDS ProcessOrchestrator, TLAPS

LEMMA Lengths == 1 \in 1 .. Len(Process) + 1 /\ MaxRuns \in Nat /\ 0 \in 0 .. MaxRuns
  BY ProcessAssumption

\* A step that is not the last is followed by one; a run that may start counts.
LEMMA Counting ==
  /\ \A i \in 1 .. Len(Process) + 1 : i <= Len(Process) => i + 1 \in 1 .. Len(Process) + 1
  /\ \A n \in 0 .. MaxRuns : n < MaxRuns => n + 1 \in 0 .. MaxRuns
  BY ProcessAssumption

Goals == [command : Commands, own : BOOLEAN, done : BOOLEAN, ok : BOOLEAN]

-----------------------------------------------------------------------------
(* Types                                                                    *)

Fixtures == [ready : BOOLEAN, safe : BOOLEAN]
Spindles == [state : {"idle", "accelerating", "running", "decelerating", "ready"},
             target_rpm : Speeds, actual_rpm : Speeds, running : BOOLEAN,
             commanded_running : BOOLEAN]
Clamps == [state : {"clamping", "clamped", "releasing", "released", "ready"},
           clamped : BOOLEAN, target_clamped : BOOLEAN, moving : BOOLEAN]

DeviceTypes == fixture \in Fixtures /\ spindle \in Spindles /\ clamp \in Clamps
MessageTypes ==
  \A d \in Devices : arriving[d] \subseteq IF d = "spindle" THEN Speeds ELSE BOOLEAN
ProcessTypes ==
  /\ running \in BOOLEAN /\ runs \in 0 .. MaxRuns
  /\ step \in 1 .. Len(Process) + 1
  /\ phase \in {"idle", "ready", "called", "waiting", "failed"}
  /\ call \in {"none", "open", "ok", "failed"}
  /\ goals \subseteq Goals
  /\ arm \in BOOLEAN /\ subscribed \subseteq Devices

LEMMA TypeParts == TypeOK <=> DeviceTypes /\ MessageTypes /\ ProcessTypes
  BY DEF TypeOK, DevicesTypeOK, DeviceTypes, MessageTypes, ProcessTypes, Fixtures, Spindles,
         Clamps, Goals

\* What is known or on its way is filed by device; nothing of a device that the
\* process has not subscribed to (process_orchestrator_node.py:294-313).
MessagesInv ==
  /\ arriving = [d \in Devices |-> arriving[d]]
  /\ known = [d \in Devices |-> known[d]]
  /\ \A d \in Devices : d \notin subscribed => arriving[d] = {} /\ known[d] = {}

\* A step is executed by its own kind of code; the thread runs until the process
\* has ended (process_orchestrator_node.py:187-217).
PhaseInv ==
  /\ running <=> phase # "idle"
  /\ phase = "called" => step <= Len(Process) /\ Current.type \in {"peripheral", "robot"}
  /\ phase = "waiting" => step <= Len(Process) /\ Current.type = "wait_state"

\* A handler leaves devices in states of theirs (peripheral_sim_node.py:254-370).
LEMMA DispatchTypes ==
  ASSUME DeviceTypes, NEW c \in Commands, NEW success \in BOOLEAN, _dispatch(c, success)
  PROVE  DeviceTypes'
  <1> USE PeripheralAssumption
  <1>1. ASSUME c.rpm # NotSpeed, set_speed(c.rpm) PROVE spindle' \in Spindles
    <2>1. c.rpm \in Speeds /\ 0 \in Speeds
      BY <1>1 DEF Commands, Speeds
    <2>2. spindle \in Spindles
      BY DEF DeviceTypes
    <2>3. \A b \in BOOLEAN : b \in BOOLEAN => (b /\ ~ (~ spindle.commanded_running)
                              /\ ~ (spindle.actual_rpm < c.rpm)) \in BOOLEAN
      OBVIOUS
    <2> QED BY <1>1, <2>1, <2>2, <2>3 DEF set_speed, Spindles
  <1>2. ASSUME _handle_spindle(c) PROVE DeviceTypes'
    BY <1>1, <1>2 DEF _handle_spindle, DeviceTypes, Spindles
  <1>3. ASSUME _handle_passive_fixture(c) PROVE DeviceTypes'
    BY <1>3 DEF _handle_passive_fixture, DeviceTypes, Fixtures
  <1>4. ASSUME _handle_pneumatic(c) PROVE DeviceTypes'
    BY <1>4 DEF _handle_pneumatic, DeviceTypes, Clamps
  <1>5. ASSUME ResetFault(c) PROVE DeviceTypes'
    BY <1>5 DEF ResetFault, DeviceTypes, Fixtures, Spindles, Clamps
  <1>6. ASSUME UNCHANGED deviceVars PROVE DeviceTypes'
    BY <1>6 DEF deviceVars, DeviceTypes
  <1> QED BY <1>2, <1>3, <1>4, <1>5, <1>6 DEF _dispatch, Handled, WaitReady

\* So does the simulation timer (peripheral_sim_node.py:372-414).
LEMMA SimulationTypes ==
  ASSUME DeviceTypes, _update_simulated_devices
  PROVE  DeviceTypes'
  <1>1. spindle' \in Spindles
    <2> DEFINE up == IF spindle.actual_rpm + 1 < spindle.target_rpm
                     THEN spindle.actual_rpm + 1 ELSE spindle.target_rpm
               down == IF spindle.actual_rpm = 0 THEN 0 ELSE spindle.actual_rpm - 1
    <2>1. spindle.actual_rpm \in Speeds /\ spindle.target_rpm \in Speeds
          /\ spindle.commanded_running \in BOOLEAN
      BY DEF DeviceTypes, Spindles
    <2>2. up \in Speeds /\ down \in Speeds
      BY <2>1, PeripheralAssumption DEF Speeds
    <2>3. spindle' = IF spindle.commanded_running
             THEN [spindle EXCEPT !.actual_rpm = up,
                     !.running = spindle.target_rpm > 0 /\ up = spindle.target_rpm,
                     !.state = IF spindle.target_rpm = 0 THEN "idle"
                               ELSE IF up = spindle.target_rpm THEN "running"
                               ELSE "accelerating"]
             ELSE [spindle EXCEPT !.actual_rpm = down, !.running = FALSE,
                     !.state = IF down = 0 THEN "idle" ELSE "decelerating"]
      BY DEF _update_simulated_devices, _update_spindle
    <2> HIDE DEF up, down
    <2>4. spindle \in Spindles
      BY DEF DeviceTypes
    <2> QED BY <2>2, <2>3, <2>4 DEF Spindles
  <1>2. clamp' \in Clamps
    BY DEF _update_simulated_devices, _update_pneumatic, DeviceTypes, Clamps
  <1> QED BY <1>1, <1>2 DEF _update_simulated_devices, DeviceTypes

\* A state message tells a value of the device (peripheral_sim_node.py:416-446).
LEMMA PublishTypes ==
  ASSUME DeviceTypes, MessageTypes, MessagesInv, NEW d \in Devices,
         _publish_state(d, subscribed), UNCHANGED <<known, subscribed>>
  PROVE  DeviceTypes' /\ MessageTypes' /\ MessagesInv'
  <1>1. ValueOf(d) \in IF d = "spindle" THEN Speeds ELSE BOOLEAN
    BY DEF ValueOf, Devices, DeviceTypes, Fixtures, Spindles, Clamps
  <1>2. DeviceTypes'
    BY DEF _publish_state, deviceVars, DeviceTypes
  <1>3. MessageTypes'
    BY <1>1 DEF _publish_state, MessageTypes, MessagesInv
  <1>4. MessagesInv'
    BY DEF _publish_state, MessagesInv
  <1> QED BY <1>2, <1>3, <1>4

\* Types and the filing of messages, for every step of Next.
LEMMA TypeInit == Init => TypeOK /\ MessagesInv /\ PhaseInv
  <1> SUFFICES ASSUME Init PROVE TypeOK /\ MessagesInv /\ PhaseInv
    OBVIOUS
  <1>1. DevicesTypeOK
    BY PeripheralAssumption DEF Init, DevicesInit, DevicesTypeOK, Speeds
  <1>2. MessagesInv
    BY DEF Init, DevicesInit, MessagesInv
  <1>3. ProcessTypes
    BY Lengths DEF Init, ProcessTypes
  <1>4. PhaseInv
    BY DEF Init, PhaseInv
  <1> QED BY <1>1, <1>2, <1>3, <1>4 DEF TypeOK, ProcessTypes, Goals

LEMMA TypeNext ==
  TypeOK /\ MessagesInv /\ PhaseInv /\ [Next]_vars => TypeOK' /\ MessagesInv'
  <1> SUFFICES ASSUME TypeOK, MessagesInv, PhaseInv, [Next]_vars
               PROVE  TypeOK' /\ MessagesInv'
    OBVIOUS
  <1>0. DeviceTypes /\ MessageTypes /\ ProcessTypes
    BY TypeParts
  <1> DEFINE Kept == DeviceTypes' /\ MessageTypes' /\ ProcessTypes' /\ MessagesInv'
             Still == UNCHANGED <<deviceVars, arriving, known, subscribed>>
  <1>1. ASSUME Still PROVE DeviceTypes' /\ MessageTypes' /\ MessagesInv'
    BY <1>0, <1>1 DEF DeviceTypes, MessageTypes, MessagesInv, deviceVars
  <1>2. ASSUME UNCHANGED processVars PROVE ProcessTypes'
    BY <1>0, <1>2 DEF ProcessTypes, processVars
  <1> HIDE DEF Still
  <1>3. ASSUME _start_background_run PROVE Kept
    <2>1. Still
      BY <1>3 DEF _start_background_run, Still
    <2> QED BY <1>0, <1>1, <2>1, <1>3, Lengths, Counting DEF _start_background_run, ProcessTypes
  <1>4. ASSUME _execute_peripheral_step PROVE Kept
    <2>1. Still
      BY <1>4 DEF _execute_peripheral_step, Still
    <2>2. Current \in Commands
      BY <1>0, <1>4, ProcessAssumption
      DEF _execute_peripheral_step, AtStep, Current, ProcessTypes
    <2> DEFINE goal == [command |-> Current, own |-> TRUE, done |-> FALSE, ok |-> FALSE]
    <2>a. goal \in Goals
      BY <2>2 DEF Goals
    <2>b. goals' = goals \cup {goal}
      BY <1>4 DEF _execute_peripheral_step
    <2>3. goals' \subseteq Goals
      BY <1>0, <2>a, <2>b DEF ProcessTypes
    <2> QED BY <1>0, <1>1, <2>1, <2>3, <1>4 DEF _execute_peripheral_step, ProcessTypes
  <1>5. ASSUME _execute_robot_step PROVE Kept
    <2>1. Still
      BY <1>5 DEF _execute_robot_step, Still
    <2> QED BY <1>0, <1>1, <2>1, <1>5 DEF _execute_robot_step, ProcessTypes
  <1>6. ASSUME CallFails PROVE Kept
    <2>1. Still
      BY <1>6 DEF CallFails, Still
    <2>2. {[g EXCEPT !.own = FALSE] : g \in goals} \subseteq Goals
      BY <1>0 DEF ProcessTypes, Goals
    <2> QED BY <1>0, <1>1, <2>1, <2>2, <1>6 DEF CallFails, ProcessTypes
  <1>7. ASSUME _execute_wait_state_step PROVE Kept
    <2>1. Current.device \in Devices
      BY <1>0, <1>7, ProcessAssumption
      DEF _execute_wait_state_step, AtStep, Current, ProcessTypes
    <2>2. DeviceTypes' /\ MessageTypes'
      BY <1>0, <1>7 DEF _execute_wait_state_step, DeviceTypes, MessageTypes, deviceVars
    <2>3. MessagesInv'
      BY <1>7 DEF _execute_wait_state_step, MessagesInv
    <2> QED BY <1>0, <2>1, <2>2, <2>3, <1>7 DEF _execute_wait_state_step, ProcessTypes
  <1>8. ASSUME WaitTimesOut PROVE Kept
    <2>1. Still
      BY <1>8 DEF WaitTimesOut, Still
    <2> QED BY <1>0, <1>1, <2>1, <1>8 DEF WaitTimesOut, ProcessTypes
  <1>9. ASSUME ProcessEnds PROVE Kept
    <2>1. Still
      BY <1>9 DEF ProcessEnds, Still
    <2> QED BY <1>0, <1>1, <2>1, <1>9, Lengths DEF ProcessEnds, ProcessTypes
  <1>10. ASSUME OperatorGives PROVE Kept
    <2>1. Still
      BY <1>10 DEF OperatorGives, Still
    <2>2. goals' \subseteq Goals
      BY <1>10, ProcessAssumption DEF OperatorGives, Goals
    <2> QED BY <1>0, <1>1, <2>1, <2>2, <1>10 DEF OperatorGives, ProcessTypes
  <1>11. ASSUME NEW g \in goals, Dispatch(g) PROVE Kept
    <2> PICK success \in BOOLEAN :
             /\ _dispatch(g.command, success)
             /\ goals' = (goals \ {g}) \cup {[g EXCEPT !.done = TRUE, !.ok = success]}
      BY <1>11 DEF Dispatch
    <2>1. g \in Goals /\ g.command \in Commands
      BY <1>0 DEF ProcessTypes, Goals
    <2>2. DeviceTypes'
      BY <1>0, <2>1, DispatchTypes
    <2>3. goals' \subseteq Goals
      BY <1>0, <2>1 DEF ProcessTypes, Goals
    <2> QED BY <1>0, <2>2, <2>3, <1>11 DEF Dispatch, ProcessTypes, MessageTypes, MessagesInv
  <1>12. ASSUME NEW g \in goals, CommandEnds(g) PROVE Kept
    <2>1. g.command.device \in Devices
      BY <1>0 DEF ProcessTypes, Goals, Commands
    <2>2. DeviceTypes' /\ MessageTypes' /\ MessagesInv'
      BY <1>0, <1>1, <1>12, <2>1, PublishTypes DEF CommandEnds, Still
    <2> QED BY <1>0, <2>2, <1>12 DEF CommandEnds, ProcessTypes
  <1>13. ASSUME NEW d \in Devices, _state_callback(d) PROVE Kept
    <2>1. DeviceTypes' /\ ProcessTypes'
      BY <1>0, <1>13 DEF _state_callback, DeviceTypes, ProcessTypes, deviceVars
    <2>2. MessageTypes'
      BY <1>0, <1>13 DEF _state_callback, MessageTypes, MessagesInv
    <2>3. MessagesInv'
      BY <1>13 DEF _state_callback, MessagesInv
    <2> QED BY <2>1, <2>2, <2>3
  <1>14. ASSUME PublishTimer PROVE Kept
    BY <1>0, <1>2, <1>14, PublishTypes DEF PublishTimer, processVars
  <1>15. ASSUME SimulationTimer PROVE Kept
    <2>1. UNCHANGED <<arriving, processVars>>
      BY <1>15 DEF SimulationTimer, _update_simulated_devices
    <2> QED BY <1>0, <1>2, <2>1, <1>15, SimulationTypes
        DEF SimulationTimer, MessageTypes, MessagesInv, processVars
  <1>16. ASSUME NEW success \in BOOLEAN, ArmEnds(success) PROVE Kept
    <2>1. Still
      BY <1>16 DEF ArmEnds, Still
    <2> QED BY <1>0, <1>1, <2>1, <1>16 DEF ArmEnds, ProcessTypes
  <1>17. ASSUME StepDone, step <= Len(Process),
                call' \in {"none", call}, Still, UNCHANGED <<running, runs, goals, arm>>
         PROVE  Kept
    <2>1. step' \in 1 .. Len(Process) + 1 /\ phase' = "ready"
      BY <1>0, <1>17, Counting DEF ProcessTypes, StepDone
    <2>2. subscribed' = subscribed /\ call' \in {"none", "open", "ok", "failed"}
      BY <1>0, <1>17 DEF ProcessTypes, Still
    <2> QED BY <1>0, <1>1, <1>17, <2>1, <2>2 DEF ProcessTypes
  <1>18. ASSUME CallSucceeds PROVE Kept
    <2>1. Still
      BY <1>18 DEF CallSucceeds, Still
    <2> QED BY <1>17, <1>18, <2>1 DEF CallSucceeds, PhaseInv
  <1>19. ASSUME WaitMatches PROVE Kept
    <2>1. Still
      BY <1>19 DEF WaitMatches, Still
    <2> QED BY <1>17, <1>19, <2>1 DEF WaitMatches, PhaseInv
  <1>20. ASSUME DelayEnds PROVE Kept
    <2>1. Still
      BY <1>20 DEF DelayEnds, Still
    <2> QED BY <1>17, <1>20, <2>1 DEF DelayEnds, AtStep
  <1>21. ASSUME UNCHANGED vars PROVE Kept
    BY <1>0, <1>1, <1>2, <1>21 DEF vars, processVars, deviceVars, Still
  <1>22. Kept
    BY <1>3, <1>4, <1>5, <1>6, <1>7, <1>8, <1>9, <1>10, <1>11, <1>12, <1>13, <1>14, <1>15,
       <1>16, <1>18, <1>19, <1>20, <1>21
    DEF Next, Worker
  <1> QED BY <1>22, TypeParts DEF TypeOK, DevicesTypeOK, DeviceTypes, MessageTypes,
          ProcessTypes, Fixtures, Spindles, Clamps, Goals

LEMMA PhaseNext == TypeOK /\ PhaseInv /\ [Next]_vars => PhaseInv'
  <1> SUFFICES ASSUME TypeOK, PhaseInv, [Next]_vars PROVE PhaseInv'
    OBVIOUS
  <1>1. ASSUME UNCHANGED <<running, step, phase>> PROVE PhaseInv'
    BY <1>1 DEF PhaseInv, Current
  <1>2. ASSUME running, phase' = "failed", running' = running PROVE PhaseInv'
    BY <1>2 DEF PhaseInv
  <1>3. ASSUME phase # "idle", phase' = "ready", running' = running
        PROVE  PhaseInv'
    BY <1>3 DEF PhaseInv
  <1>4. ASSUME _start_background_run PROVE PhaseInv'
    BY <1>4 DEF _start_background_run, PhaseInv
  <1>5. ASSUME _execute_peripheral_step PROVE PhaseInv'
    BY <1>5 DEF _execute_peripheral_step, AtStep, Current, PhaseInv
  <1>6. ASSUME _execute_robot_step PROVE PhaseInv'
    BY <1>6 DEF _execute_robot_step, AtStep, Current, PhaseInv
  <1>7. ASSUME _execute_wait_state_step PROVE PhaseInv'
    BY <1>7 DEF _execute_wait_state_step, AtStep, Current, PhaseInv
  <1>8. ASSUME CallSucceeds \/ WaitMatches \/ DelayEnds PROVE PhaseInv'
    BY <1>3, <1>8 DEF CallSucceeds, WaitMatches, DelayEnds, AtStep, StepDone
  <1>9. ASSUME CallFails \/ WaitTimesOut PROVE PhaseInv'
    BY <1>2, <1>9 DEF CallFails, WaitTimesOut, PhaseInv
  <1>10. ASSUME ProcessEnds PROVE PhaseInv'
    BY <1>10 DEF ProcessEnds, PhaseInv
  <1>11. ASSUME NEW g \in goals, Dispatch(g) \/ CommandEnds(g) PROVE PhaseInv'
    BY <1>1, <1>11 DEF Dispatch, CommandEnds
  <1>12. ASSUME \/ OperatorGives \/ PublishTimer \/ SimulationTimer
                \/ \E d \in Devices : _state_callback(d)
                \/ \E success \in BOOLEAN : ArmEnds(success)
         PROVE  PhaseInv'
    BY <1>1, <1>12 DEF OperatorGives, PublishTimer, SimulationTimer, _state_callback, ArmEnds,
                       processVars
  <1>13. ASSUME UNCHANGED vars PROVE PhaseInv'
    BY <1>1, <1>13 DEF vars, processVars
  <1> QED BY <1>4, <1>5, <1>6, <1>7, <1>8, <1>9, <1>10, <1>11, <1>12, <1>13 DEF Next, Worker

BaseInv == TypeOK /\ MessagesInv /\ PhaseInv

LEMMA BaseAlways == Spec => []BaseInv
  BY TypeInit, TypeNext, PhaseNext, PTL DEF Spec, BaseInv

\* The process, its calls, the devices and the messages have the types TypeOK
\* gives them: in particular no speed leaves the range of the commands
\* (process_orchestrator_node.py and peripheral_sim_node.py).
THEOREM TypeCorrect == Spec => []TypeOK
  BY BaseAlways, PTL DEF BaseInv

-----------------------------------------------------------------------------
(* The spindle's running                                                    *)

\* What the claim of the schema says falsely, and what is never false.
Outdated ==
  ~ RunningIsAtSpeed => spindle.commanded_running /\ spindle.actual_rpm > spindle.target_rpm

\* What a step does to a running spindle.
Slowing ==
  ~ RunningIsAtSpeed' =>
    /\ spindle'.commanded_running /\ spindle'.actual_rpm > spindle'.target_rpm
    /\ ~ RunningIsAtSpeed \/ spindle'.target_rpm < spindle.target_rpm
    /\ spindle'.actual_rpm = spindle.actual_rpm

LEMMA RunningNext == BaseInv /\ Outdated /\ [Next]_vars => Slowing \/ UNCHANGED deviceVars
  <1> SUFFICES ASSUME BaseInv, Outdated, [Next]_vars PROVE Slowing \/ UNCHANGED deviceVars
    OBVIOUS
  <1>0. /\ spindle \in Spindles /\ goals \subseteq Goals
        /\ spindle.actual_rpm \in Int /\ spindle.target_rpm \in Int
        /\ \A g \in goals : g.command \in Commands
    BY TypeParts DEF BaseInv, DeviceTypes, ProcessTypes, Spindles, Goals, Speeds
  <1>1. ASSUME UNCHANGED <<spindle.running, spindle.commanded_running,
                           spindle.actual_rpm, spindle.target_rpm>>
        PROVE  Slowing
    BY <1>1 DEF Slowing, Outdated, RunningIsAtSpeed
  <1>2. ASSUME NEW g \in goals, Dispatch(g) PROVE Slowing
    <2> PICK success \in BOOLEAN : _dispatch(g.command, success)
      BY <1>2 DEF Dispatch
    <2>1. ASSUME g.command.rpm # NotSpeed, set_speed(g.command.rpm) PROVE Slowing
      <3> DEFINE rpm == g.command.rpm
      <3>1. rpm \in Int
        BY <1>0, <2>1 DEF Commands, Speeds
      <3>2. /\ spindle'.target_rpm = rpm
            /\ spindle'.commanded_running = spindle.commanded_running
            /\ spindle.commanded_running => spindle'.actual_rpm = spindle.actual_rpm
            /\ spindle'.running => /\ spindle.running /\ spindle.commanded_running
                                   /\ ~ (spindle.actual_rpm < rpm)
        BY <1>0, <2>1 DEF set_speed, Spindles
      <3> HIDE DEF rpm
      <3> QED BY <1>0, <3>1, <3>2 DEF Slowing, RunningIsAtSpeed
    <2>2. ASSUME _handle_spindle(g.command) PROVE Slowing
      BY <1>0, <2>1, <2>2 DEF _handle_spindle, Slowing, RunningIsAtSpeed, Spindles
    <2>3. ASSUME ResetFault(g.command) PROVE Slowing
      BY <1>0, <1>1, <2>3 DEF ResetFault, Spindles
    <2>4. ASSUME _handle_passive_fixture(g.command) \/ _handle_pneumatic(g.command)
                 \/ UNCHANGED deviceVars
          PROVE  Slowing
      BY <1>1, <2>4 DEF _handle_passive_fixture, _handle_pneumatic, deviceVars
    <2> QED BY <2>2, <2>3, <2>4 DEF _dispatch, Handled, WaitReady
  <1>3. ASSUME SimulationTimer PROVE Slowing
    <2>1. RunningIsAtSpeed'
      BY <1>0, <1>3
      DEF SimulationTimer, _update_simulated_devices, _update_spindle, RunningIsAtSpeed,
          Spindles
    <2> QED BY <2>1 DEF Slowing
  <1>4. ASSUME NEW g \in goals, CommandEnds(g) PROVE UNCHANGED deviceVars
    BY <1>4 DEF CommandEnds, _publish_state, deviceVars
  <1>5. ASSUME PublishTimer PROVE UNCHANGED deviceVars
    BY <1>5 DEF PublishTimer, _publish_state, deviceVars
  <1>6. ASSUME \/ _start_background_run \/ Worker \/ OperatorGives
               \/ \E d \in Devices : _state_callback(d)
               \/ \E success \in BOOLEAN : ArmEnds(success)
               \/ UNCHANGED vars
        PROVE  UNCHANGED deviceVars
    BY <1>6
    DEF _start_background_run, Worker, _execute_peripheral_step, _execute_robot_step,
        CallSucceeds, CallFails, _execute_wait_state_step, WaitMatches, WaitTimesOut,
        DelayEnds, ProcessEnds, OperatorGives, _state_callback, ArmEnds, vars
  <1> QED BY <1>2, <1>3, <1>4, <1>5, <1>6 DEF Next

\* A spindle that says it runs and is not at its commanded speed is started and
\* turns faster than that; it was given the lower speed since the last step of
\* the simulation and still turns as before
\* (peripheral_sim_node.py:294-316 and 372-390), for every process and every
\* sequence of commands.
THEOREM RunningOutdated == Spec => OnlySlowingOutdatesRunning
  <1>1. Init => Outdated
    BY DEF Init, DevicesInit, Outdated, RunningIsAtSpeed
  <1>2. BaseInv /\ Outdated /\ [Next]_vars => Outdated'
    <2>1. Outdated /\ UNCHANGED deviceVars => Outdated'
      BY DEF Outdated, RunningIsAtSpeed, deviceVars
    <2> QED BY <2>1, RunningNext DEF Slowing, Outdated
  <1>3. BaseInv /\ Outdated /\ [Next]_vars =>
          [~ RunningIsAtSpeed' =>
             /\ spindle'.commanded_running /\ spindle'.actual_rpm > spindle'.target_rpm
             /\ ~ RunningIsAtSpeed \/ spindle'.target_rpm < spindle.target_rpm
             /\ spindle'.actual_rpm = spindle.actual_rpm]_deviceVars
    BY RunningNext DEF Slowing
  <1> QED BY <1>1, <1>2, <1>3, BaseAlways, PTL DEF Spec, OnlySlowingOutdatesRunning

-----------------------------------------------------------------------------
(* The commands being executed                                              *)

\* the first run goes on: nobody but the process gives commands
Active == running /\ runs = 1 /\ phase # "failed"

\* Before a run nothing was subscribed or called.  During the first run at most
\* the command of the current step is being executed, as long as the call of it
\* is open (process_orchestrator_node.py:183-243).
IdleInv == runs = 0 => /\ phase = "idle" /\ subscribed = {} /\ call = "none"
                       /\ \A g \in goals : ~ g.own
OwnCommand(g) ==
  g.own /\ phase = "called" /\ call = "open" /\ Current.type = "peripheral" /\ g.command = Current
CallInv ==
  Active => /\ \A g \in goals : OwnCommand(g)
            /\ \A g, h \in goals : g = h
            /\ phase # "called" => call = "none"

GoalsInv == IdleInv /\ CallInv

LEMMA GoalsNext == BaseInv /\ GoalsInv /\ [Next]_vars => GoalsInv'
  <1> SUFFICES ASSUME BaseInv, GoalsInv, [Next]_vars PROVE GoalsInv'
    OBVIOUS
  <1>0. PhaseInv /\ ProcessTypes
    BY TypeParts DEF BaseInv
  <1>1. ASSUME UNCHANGED <<running, runs, step, phase, call, goals, subscribed>>
        PROVE  GoalsInv'
    BY <1>1 DEF GoalsInv, IdleInv, CallInv, Active, OwnCommand, Current
  <1>2. ASSUME ~ Active', runs' # 0 PROVE GoalsInv'
    BY <1>2 DEF GoalsInv, IdleInv, CallInv
  <1>3. ASSUME phase # "idle" PROVE runs # 0
    BY <1>3 DEF GoalsInv, IdleInv
  <1>4. ASSUME runs = 0 => goals = {}, _start_background_run PROVE GoalsInv'
    <2>1. runs' = runs + 1 /\ runs \in Nat /\ goals' = goals /\ call' = call
      BY <1>0, <1>4, Lengths DEF _start_background_run, ProcessTypes
    <2>2. runs' # 0 /\ (runs' = 1 => goals' = {} /\ call' = "none")
      BY <2>1, <1>4 DEF GoalsInv, IdleInv
    <2> QED BY <2>2 DEF GoalsInv, IdleInv, CallInv, Active
  <1>5. ASSUME _execute_peripheral_step PROVE GoalsInv'
    <2> DEFINE goal == [command |-> Current, own |-> TRUE, done |-> FALSE, ok |-> FALSE]
    <2>1. /\ phase = "ready" /\ phase' = "called" /\ call' = "open" /\ step' = step
          /\ goals' = goals \cup {goal} /\ Current.type = "peripheral"
          /\ running' = running /\ runs' = runs
      BY <1>5 DEF _execute_peripheral_step, AtStep
    <2>2. runs # 0
      BY <1>3, <2>1
    <2>3. Active' => goals = {}
      BY <2>1 DEF Active, GoalsInv, CallInv, OwnCommand
    <2>4. goal.own /\ goal.command = Current /\ Current' = Current
      BY <2>1 DEF Current
    <2> HIDE DEF goal
    <2>5. Active' => goals' = {goal}
      BY <2>1, <2>3
    <2> QED BY <2>1, <2>2, <2>4, <2>5 DEF GoalsInv, IdleInv, CallInv, OwnCommand
  <1>6. ASSUME _execute_robot_step PROVE GoalsInv'
    <2>1. Active' => goals' = {}
      BY <1>6 DEF _execute_robot_step, AtStep, Active, GoalsInv, CallInv, OwnCommand
    <2>2. runs' # 0 /\ phase' = "called"
      BY <1>3, <1>6 DEF _execute_robot_step, AtStep
    <2> QED BY <2>1, <2>2 DEF GoalsInv, IdleInv, CallInv
  <1>7. ASSUME CallSucceeds PROVE GoalsInv'
    <2>1. Active' => goals' = {}
      BY <1>7 DEF CallSucceeds, StepDone, Active, GoalsInv, CallInv, OwnCommand
    <2>2. runs' # 0 /\ call' = "none"
      BY <1>3, <1>7 DEF CallSucceeds
    <2> QED BY <2>1, <2>2 DEF GoalsInv, IdleInv, CallInv
  <1>8. ASSUME CallFails \/ WaitTimesOut \/ ProcessEnds PROVE GoalsInv'
    <2>1. ~ Active' /\ runs' = runs
      BY <1>8 DEF CallFails, WaitTimesOut, ProcessEnds, Active
    <2>2. runs # 0
      BY <1>3, <1>8 DEF CallFails, WaitTimesOut, ProcessEnds
    <2> QED BY <1>2, <2>1, <2>2
  <1>9. ASSUME _execute_wait_state_step \/ WaitMatches \/ DelayEnds PROVE GoalsInv'
    <2>1. /\ phase \in {"ready", "waiting"} /\ phase' \in {"ready", "waiting"}
          /\ UNCHANGED <<running, runs, call, goals>>
      BY <1>9 DEF _execute_wait_state_step, AtStep, WaitMatches, DelayEnds, StepDone
    <2>2. Active' => goals' = {} /\ call' = "none"
      BY <2>1 DEF Active, GoalsInv, CallInv, OwnCommand
    <2>3. runs' # 0
      BY <1>3, <2>1
    <2> QED BY <2>2, <2>3 DEF GoalsInv, IdleInv, CallInv
  <1>10. ASSUME OperatorGives PROVE GoalsInv'
    BY <1>0, <1>10 DEF OperatorGives, GoalsInv, IdleInv, CallInv, Active
  <1>11. ASSUME NEW g \in goals, Dispatch(g) PROVE GoalsInv'
    <2> PICK success \in BOOLEAN :
             goals' = (goals \ {g}) \cup {[g EXCEPT !.done = TRUE, !.ok = success]}
      BY <1>11 DEF Dispatch
    <2> DEFINE h == [g EXCEPT !.done = TRUE, !.ok = success]
    <2>1. h.own = g.own /\ h.command = g.command
      BY <1>0 DEF ProcessTypes, Goals
    <2> HIDE DEF h
    <2>2. UNCHANGED <<running, runs, step, phase, call, subscribed>>
      BY <1>11 DEF Dispatch
    <2>3. goals' = (goals \ {g}) \cup {h}
      BY DEF h
    <2>4. IdleInv'
      BY <2>1, <2>2, <2>3 DEF GoalsInv, IdleInv
    <2>5. Active' => goals' = {h} /\ OwnCommand(g)
      BY <2>2, <2>3 DEF GoalsInv, CallInv, Active
    <2>6. CallInv'
      BY <2>1, <2>2, <2>5 DEF CallInv, OwnCommand, Current
    <2> QED BY <2>4, <2>6 DEF GoalsInv
  <1>12. ASSUME NEW g \in goals, CommandEnds(g) PROVE GoalsInv'
    <2>1. /\ UNCHANGED <<running, runs, step, phase, subscribed>>
          /\ goals' = goals \ {g}
          /\ ~ g.own => call' = call
      BY <1>12 DEF CommandEnds
    <2>2. IdleInv'
      BY <2>1 DEF GoalsInv, IdleInv
    <2>3. Active' => goals' = {} /\ phase' = "called"
      BY <2>1 DEF Active, GoalsInv, CallInv, OwnCommand
    <2> QED BY <2>2, <2>3 DEF GoalsInv, CallInv
  <1>13. ASSUME NEW success \in BOOLEAN, ArmEnds(success) PROVE GoalsInv'
    <2>1. /\ UNCHANGED <<running, runs, step, phase, goals, subscribed>>
          /\ call' # call => phase = "called" /\ Current.type = "robot"
      BY <1>13 DEF ArmEnds
    <2>2. CASE call' = call
      BY <1>1, <2>1, <2>2
    <2>3. CASE call' # call
      <3>1. Active => goals = {}
        BY <2>1, <2>3 DEF GoalsInv, CallInv, OwnCommand
      <3> QED BY <1>3, <2>1, <2>3, <3>1 DEF GoalsInv, IdleInv, CallInv, Active
    <2> QED BY <2>2, <2>3
  <1>14. ASSUME \/ PublishTimer \/ SimulationTimer
                \/ \E d \in Devices : _state_callback(d)
                \/ UNCHANGED vars
         PROVE  GoalsInv'
    BY <1>1, <1>14 DEF PublishTimer, SimulationTimer, _state_callback, vars, processVars
  <1> QED BY <1>4, <1>5, <1>6, <1>7, <1>8, <1>9, <1>10, <1>11, <1>12, <1>13, <1>14
          DEF Next, Worker

-----------------------------------------------------------------------------
(* What a step of the first run does                                        *)

\* command i has been carried out
Done(i) == step > i \/ (step = i /\ (call = "ok" \/ \E g \in goals : g.done /\ g.ok))

Messages(d) == arriving[d] \cup known[d]

RunStarts == ~ Active /\ step' = 1 /\ goals' = {} /\ call' = "none" /\ subscribed' = {}

Advances ==
  /\ Active /\ step' = step + 1
  /\ UNCHANGED <<deviceVars, arriving, known, subscribed>>
  /\ goals' = {} /\ call' = "none"
  /\ Current.type = "wait_state" => _state_matches(Current, known[Current.device])
  /\ Current.type = "peripheral" => Done(step)

Subscribes ==
  /\ Active /\ step' = step
  /\ UNCHANGED <<deviceVars, arriving, known, call, goals>>
  /\ step <= Len(Process) /\ Current.type = "wait_state"
  /\ subscribed' = subscribed \cup {Current.device}

CarriesOut ==
  /\ Active /\ step' = step /\ step <= Len(Process) /\ Current.type = "peripheral"
  /\ ~ Done(step) /\ Handled(Current)
  /\ UNCHANGED <<arriving, known, subscribed>>

Tells ==
  /\ Active /\ step' = step
  /\ UNCHANGED <<deviceVars, subscribed>>
  /\ \A d \in Devices :
       Messages(d)' \subseteq Messages(d) \cup (IF d \in subscribed THEN {ValueOf(d)} ELSE {})
  /\ \A i \in 1 .. Len(Process) : Process[i].type = "peripheral" => (Done(i)' => Done(i))

Simulates == Active /\ _update_simulated_devices /\ UNCHANGED processVars

\* During the first run a step is of one of these six kinds.
LEMMA ActiveStep ==
  ASSUME BaseInv, GoalsInv, [Next]_vars, Active'
  PROVE  RunStarts \/ Advances \/ Subscribes \/ CarriesOut \/ Tells \/ Simulates
  <1> DEFINE Kind == RunStarts \/ Advances \/ Subscribes \/ CarriesOut \/ Tells \/ Simulates
  <1>0. PhaseInv /\ ProcessTypes /\ MessagesInv /\ step \in Int
    BY TypeParts, Lengths DEF BaseInv, ProcessTypes
  <1>1. ASSUME UNCHANGED <<deviceVars, subscribed, step>>, Active,
               \A d \in Devices : Messages(d)' \subseteq
                 Messages(d) \cup (IF d \in subscribed THEN {ValueOf(d)} ELSE {}),
               \/ UNCHANGED <<call, goals>>
               \/ goals' = {} /\ (call' = "ok" => Done(step))
               \/ goals = {} /\ call' = "open" /\ \A g \in goals' : ~ g.done
               \/ goals' = goals /\ Current.type = "robot"
        PROVE  Tells
    <2> SUFFICES ASSUME NEW i \in 1 .. Len(Process), Process[i].type = "peripheral", Done(i)'
                 PROVE  Done(i)
      BY <1>1 DEF Tells
    <2> QED BY <1>1 DEF Done, Current
  <1>2. ASSUME UNCHANGED <<arriving, known>>
        PROVE  \A d \in Devices : Messages(d)' \subseteq
                 Messages(d) \cup (IF d \in subscribed THEN {ValueOf(d)} ELSE {})
    BY <1>2 DEF Messages
  <1>3. ASSUME runs = 0 => goals = {}, _start_background_run PROVE RunStarts
    <2>1. runs = 0 /\ ~ Active
      BY <1>0, <1>3 DEF _start_background_run, Active, ProcessTypes
    <2> QED BY <1>3, <2>1 DEF _start_background_run, RunStarts, GoalsInv, IdleInv
  <1>4. ASSUME _execute_peripheral_step PROVE Tells
    <2> DEFINE goal == [command |-> Current, own |-> TRUE, done |-> FALSE, ok |-> FALSE]
    <2>1. ~ goal.done /\ goals' = goals \cup {goal}
      BY <1>4 DEF _execute_peripheral_step
    <2> HIDE DEF goal
    <2>2. Active /\ goals = {}
      BY <1>4 DEF _execute_peripheral_step, AtStep, Active, GoalsInv, CallInv, OwnCommand
    <2>3. UNCHANGED <<deviceVars, subscribed, step, arriving, known>> /\ call' = "open"
      BY <1>4 DEF _execute_peripheral_step
    <2> QED BY <1>1, <1>2, <2>1, <2>2, <2>3
  <1>5. ASSUME _execute_robot_step PROVE Tells
    <2>1. Active /\ UNCHANGED <<deviceVars, subscribed, step, arriving, known, goals>>
          /\ Current.type = "robot"
      BY <1>5 DEF _execute_robot_step, AtStep, Active
    <2> QED BY <1>1, <1>2, <2>1
  <1>6. ASSUME CallSucceeds PROVE Advances
    <2>1. Active /\ goals = {} /\ Current.type \in {"peripheral", "robot"}
      BY <1>0, <1>6 DEF CallSucceeds, StepDone, Active, GoalsInv, CallInv, OwnCommand, PhaseInv
    <2> QED BY <1>6, <2>1 DEF CallSucceeds, StepDone, Advances, Done
  <1>7. ASSUME WaitMatches PROVE Advances
    <2>1. Active /\ goals = {} /\ call = "none" /\ Current.type = "wait_state"
      BY <1>0, <1>7 DEF WaitMatches, StepDone, Active, GoalsInv, CallInv, OwnCommand, PhaseInv
    <2> QED BY <1>7, <2>1 DEF WaitMatches, StepDone, Advances
  <1>e. ASSUME DelayEnds PROVE Advances
    <2>1. Active /\ goals = {} /\ call = "none" /\ Current.type = "delay"
      BY <1>0, <1>e DEF DelayEnds, AtStep, StepDone, Active, GoalsInv, CallInv, OwnCommand
    <2> QED BY <1>e, <2>1 DEF DelayEnds, StepDone, Advances
  <1>8. ~ (CallFails \/ WaitTimesOut \/ ProcessEnds)
    BY DEF CallFails, WaitTimesOut, ProcessEnds, Active
  <1>9. ASSUME _execute_wait_state_step PROVE Subscribes
    BY <1>9 DEF _execute_wait_state_step, AtStep, Subscribes, Active
  <1>10. ~ OperatorGives
    <2>1. OperatorGives => runs = 0 /\ runs' = runs
      BY DEF OperatorGives
    <2>2. runs' = 1
      BY DEF Active
    <2> QED BY <2>1, <2>2
  <1>11. ASSUME NEW g \in goals, Dispatch(g) PROVE CarriesOut \/ Tells
    <2> PICK success \in BOOLEAN :
             /\ _dispatch(g.command, success)
             /\ goals' = (goals \ {g}) \cup {[g EXCEPT !.done = TRUE, !.ok = success]}
      BY <1>11 DEF Dispatch
    <2>1. UNCHANGED <<running, runs, step, phase, call, arriving, known, subscribed>> /\ ~ g.done
      BY <1>11 DEF Dispatch
    <2>2. Active
      BY <2>1 DEF Active
    <2>3. goals = {g} /\ g.command = Current /\ call = "open" /\ phase = "called"
          /\ Current.type = "peripheral"
      BY <2>2 DEF GoalsInv, CallInv, OwnCommand
    <2>4. CASE success
      <3>1. Handled(Current)
        BY <2>3, <2>4 DEF _dispatch
      <3>2. ~ Done(step)
        BY <1>0, <2>1, <2>3 DEF Done
      <3> QED BY <1>0, <2>1, <2>2, <2>3, <3>1, <3>2 DEF CarriesOut, PhaseInv
    <2>5. CASE ~ success
      <3> DEFINE h == [g EXCEPT !.done = TRUE, !.ok = success]
      <3>1. ~ h.ok
        BY <1>0, <2>5 DEF ProcessTypes, Goals
      <3>2. goals' = {h}
        BY <2>3
      <3> HIDE DEF h
      <3>3. UNCHANGED deviceVars
        BY <2>5 DEF _dispatch
      <3>4. ASSUME NEW i \in 1 .. Len(Process), Done(i)' PROVE Done(i)
        BY <2>1, <3>1, <3>2, <3>4 DEF Done
      <3> QED BY <1>2, <2>1, <2>2, <3>3, <3>4 DEF Tells
    <2> QED BY <2>4, <2>5
  <1>12. ASSUME NEW g \in goals, CommandEnds(g) PROVE Tells
    <2>1. Active /\ g.own /\ goals = {g} /\ g.command = Current
      BY <1>12 DEF CommandEnds, Active, GoalsInv, CallInv, OwnCommand
    <2>2. goals' = {} /\ UNCHANGED <<deviceVars, subscribed, step, known>>
          /\ (call' = "ok" => g.done /\ g.ok)
      BY <1>12, <2>1 DEF CommandEnds, _publish_state
    <2>3. call' = "ok" => Done(step)
      BY <2>1, <2>2 DEF Done
    <2>4. ASSUME NEW d \in Devices
          PROVE  Messages(d)' \subseteq
                   Messages(d) \cup (IF d \in subscribed THEN {ValueOf(d)} ELSE {})
      BY <1>0, <1>12, <2>2 DEF CommandEnds, _publish_state, Messages, MessagesInv
    <2> QED BY <1>1, <2>1, <2>2, <2>3, <2>4
  <1>13. ASSUME NEW d \in Devices, _state_callback(d) PROVE Tells
    <2>1. Active /\ UNCHANGED <<deviceVars, subscribed, step, call, goals>>
      BY <1>13 DEF _state_callback, Active
    <2>2. ASSUME NEW e \in Devices PROVE Messages(e)' \subseteq Messages(e)
      BY <1>0, <1>13 DEF _state_callback, Messages, MessagesInv
    <2> QED BY <1>1, <2>1, <2>2
  <1>14. ASSUME PublishTimer PROVE Tells
    <2>1. Active /\ UNCHANGED <<deviceVars, subscribed, step, call, goals, known>>
      BY <1>14 DEF PublishTimer, _publish_state, processVars, Active
    <2>2. ASSUME NEW d \in Devices
          PROVE  Messages(d)' \subseteq
                   Messages(d) \cup (IF d \in subscribed THEN {ValueOf(d)} ELSE {})
      BY <1>0, <1>14, <2>1 DEF PublishTimer, _publish_state, Messages, MessagesInv
    <2> QED BY <1>1, <2>1, <2>2
  <1>15. ASSUME SimulationTimer PROVE Simulates
    BY <1>15 DEF SimulationTimer, Simulates, Active, processVars
  <1>16. ASSUME NEW success \in BOOLEAN, ArmEnds(success) PROVE Tells
    <2>1. Active /\ UNCHANGED <<deviceVars, subscribed, step, goals, arriving, known>>
      BY <1>16 DEF ArmEnds, Active
    <2>2. call' = call \/ Current.type = "robot"
      BY <1>16 DEF ArmEnds
    <2> QED BY <1>1, <1>2, <2>1, <2>2
  <1>17. ASSUME UNCHANGED vars PROVE Tells
    <2>1. Active /\ UNCHANGED <<deviceVars, subscribed, step, call, goals, arriving, known>>
      BY <1>17 DEF vars, processVars, Active
    <2> QED BY <1>1, <1>2, <2>1
  <1> QED BY <1>3, <1>4, <1>5, <1>6, <1>7, <1>8, <1>9, <1>10, <1>11, <1>12, <1>13, <1>14,
             <1>15, <1>16, <1>17, <1>e
          DEF Next, Worker

-----------------------------------------------------------------------------
(* The prepared cell                                                        *)

Steps == 1 .. Len(Process)

\* In the first run up to step r, prepared as ClampPrepared says: once clamp was
\* carried out the target stays; what tells the process that the clamp has
\* clamped was and is so, and nothing of the clamp was asked for before step w.
ClampCell(r, c, w) ==
  Active /\ step <= r =>
    /\ Done(c) => clamp.target_clamped
    /\ step > w => clamp.clamped
    /\ TRUE \in Messages("clamp") => clamp.clamped
    /\ "clamp" \in subscribed => step >= w

\* The same for the spindle and SpindlePrepared.
SpindleCell(r, s, t, v) ==
  Active /\ step <= r =>
    /\ Done(s) => spindle.target_rpm = Nominal
    /\ Done(t) => spindle.commanded_running
    /\ step > v => spindle.actual_rpm = Nominal
    /\ Nominal \in Messages("spindle") => spindle.actual_rpm = Nominal
    /\ "spindle" \in subscribed => step >= v

CellInv ==
  \A r \in Steps : Process[r].type = "robot" =>
    /\ \A c, w \in 1 .. r - 1 : ClampPrepared(r, c, w) => ClampCell(r, c, w)
    /\ \A s, t, v \in 1 .. r - 1 : SpindlePrepared(r, s, t, v) => SpindleCell(r, s, t, v)

\* A command carried out stays so until the next run.
LEMMA DoneStays ==
  ASSUME BaseInv, NEW i \in Steps
  PROVE  /\ RunStarts => ~ Done(i)' \/ step' > i
         /\ step > i => Done(i)
         /\ Subscribes \/ Simulates => (Done(i)' => Done(i))
         /\ Advances /\ Process[i].type = "peripheral" => (Done(i)' => Done(i))
         /\ Tells /\ Process[i].type = "peripheral" => (Done(i)' => Done(i))
         /\ CarriesOut /\ step # i => (Done(i)' => Done(i))
  <1>1. i \in Int /\ step \in Int
    BY TypeParts, Lengths DEF BaseInv, ProcessTypes, Steps
  <1>2. RunStarts => ~ Done(i)' \/ step' > i
    BY DEF RunStarts, Done
  <1>3. step > i => Done(i)
    BY DEF Done
  <1>4. Subscribes \/ Simulates => (Done(i)' => Done(i))
    BY DEF Subscribes, Simulates, processVars, Done
  <1>5. Advances /\ Process[i].type = "peripheral" => (Done(i)' => Done(i))
    BY <1>1 DEF Advances, Done, Current
  <1>6. Tells /\ Process[i].type = "peripheral" => (Done(i)' => Done(i))
    BY DEF Tells, Steps
  <1>7. CarriesOut /\ step # i => (Done(i)' => Done(i))
    BY <1>1 DEF CarriesOut, Done
  <1> QED BY <1>2, <1>3, <1>4, <1>5, <1>6, <1>7

LEMMA ClampNext ==
  ASSUME BaseInv, GoalsInv, [Next]_vars,
         NEW r \in Steps, Process[r].type = "robot",
         NEW c \in 1 .. r - 1, NEW w \in 1 .. r - 1,
         ClampPrepared(r, c, w), ClampCell(r, c, w)
  PROVE  ClampCell(r, c, w)'
  <1> SUFFICES ASSUME Active', step' <= r PROVE ClampCell(r, c, w)'
    BY DEF ClampCell
  <1>1. /\ r \in Int /\ c \in Steps /\ w \in Steps /\ c < w /\ w < r
        /\ step \in Int /\ 1 <= c /\ 1 <= step /\ c \in Int /\ w \in Int
    BY TypeParts, Lengths, ProcessAssumption DEF BaseInv, ProcessTypes, Steps, ClampPrepared
  <1>2. MessagesInv /\ MessagesInv' /\ DeviceTypes /\ "clamp" \in Devices
    BY TypeNext, TypeParts DEF BaseInv, Devices
  <1>3. Process[c].type = "peripheral"
    BY DEF ClampPrepared, IsCommand
  <1>d. /\ RunStarts => ~ Done(c)' \/ step' > c
        /\ step > c => Done(c)
        /\ Subscribes \/ Simulates \/ Advances \/ Tells => (Done(c)' => Done(c))
        /\ CarriesOut /\ step # c => (Done(c)' => Done(c))
    BY <1>1, <1>3, DoneStays
  <1>4. TRUE \in Messages("clamp") /\ Active /\ step <= r => clamp.target_clamped
    <2>1. TRUE \in Messages("clamp") => "clamp" \in subscribed
      BY <1>2 DEF MessagesInv, Messages
    <2> QED BY <1>1, <1>d, <2>1 DEF ClampCell
  <1>5. ASSUME RunStarts PROVE ClampCell(r, c, w)'
    <2>1. TRUE \notin Messages("clamp")' /\ "clamp" \notin subscribed' /\ step' = 1
      BY <1>2, <1>5 DEF RunStarts, Messages, MessagesInv
    <2>2. ~ (step' > c) /\ ~ (step' > w)
      BY <1>1, <2>1
    <2> QED BY <1>5, <1>d, <2>1, <2>2 DEF ClampCell
  <1>6. ASSUME Advances PROVE ClampCell(r, c, w)'
    <2>1. Active /\ step <= r /\ UNCHANGED <<clamp, subscribed, Messages("clamp")>>
          /\ step' = step + 1
      BY <1>1, <1>6 DEF Advances, deviceVars, Messages
    <2>2. step = w => clamp.clamped
      BY <1>6, <2>1 DEF Advances, ClampPrepared, IsWait, Current, _state_matches, ClampCell,
                        Messages
    <2>3. step' > w => step > w \/ step = w
      BY <1>1, <2>1
    <2>4. step >= w => step' >= w
      BY <1>1, <2>1
    <2>5. TRUE \in Messages("clamp")' => TRUE \in Messages("clamp")
      BY <2>1
    <2> QED BY <1>6, <1>d, <2>1, <2>2, <2>3, <2>4, <2>5 DEF ClampCell
  <1>7. ASSUME Subscribes PROVE ClampCell(r, c, w)'
    <2>1. Active /\ step <= r /\ UNCHANGED <<clamp, step, Messages("clamp")>>
      BY <1>1, <1>7 DEF Subscribes, deviceVars, Messages
    <2>2. "clamp" \in subscribed' => "clamp" \in subscribed \/ IsWait(step, "clamp")
      BY <1>7 DEF Subscribes, IsWait, Current
    <2>3. IsWait(step, "clamp") => step >= w
      BY <1>1 DEF ClampPrepared
    <2> QED BY <1>1, <1>7, <1>d, <2>1, <2>2, <2>3 DEF ClampCell
  <1>8. ASSUME CarriesOut PROVE ClampCell(r, c, w)'
    <2>1. Active /\ step <= r /\ UNCHANGED <<step, subscribed, Messages("clamp")>>
      BY <1>8 DEF CarriesOut, Messages
    <2>2. clamp'.clamped = clamp.clamped
      BY <1>2, <1>8 DEF CarriesOut, Handled, WaitReady, ResetFault, _handle_passive_fixture,
                        _handle_spindle, _handle_pneumatic, deviceVars, DeviceTypes, Clamps
    <2>3. clamp'.target_clamped # clamp.target_clamped =>
            /\ Current.device = "clamp" /\ Current.name \in {"clamp", "release"}
            /\ clamp'.target_clamped = (Current.name = "clamp")
      BY <1>2, <1>8 DEF CarriesOut, Handled, WaitReady, ResetFault, _handle_passive_fixture,
                        _handle_spindle, _handle_pneumatic, Supported, deviceVars,
                        DeviceTypes, Clamps
    <2>4. CASE step = c
      <3>1. Current.device = "clamp" /\ Current.name = "clamp"
        BY <2>4 DEF ClampPrepared, IsCommand, Current
      <3>2. clamp'.target_clamped
        BY <1>2, <1>8, <3>1 DEF CarriesOut, Handled, WaitReady, ResetFault,
           _handle_passive_fixture, _handle_spindle, _handle_pneumatic, DeviceTypes, Clamps
      <3> QED BY <1>1, <2>1, <2>2, <2>4, <3>2 DEF ClampCell
    <2>5. CASE step # c
      <3>1. Done(c)' => Done(c)
        BY <1>8, <1>d, <2>5
      <3>2. Done(c) => step \in c + 1 .. r - 1
        BY <1>1, <1>8, <2>1, <2>5 DEF Done, CarriesOut, Current
      <3>3. Done(c) => clamp'.target_clamped
        BY <1>8, <2>1, <2>3, <3>2 DEF ClampCell, ClampPrepared, IsCommand, CarriesOut, Current
      <3> QED BY <1>1, <2>1, <2>2, <3>1, <3>3 DEF ClampCell
    <2> QED BY <2>4, <2>5
  <1>9. ASSUME Tells PROVE ClampCell(r, c, w)'
    <2>1. Active /\ step <= r /\ UNCHANGED <<clamp, step, subscribed>>
      BY <1>9 DEF Tells, deviceVars
    <2>2. TRUE \in Messages("clamp")' => TRUE \in Messages("clamp") \/ clamp.clamped
      BY <1>2, <1>9 DEF Tells, ValueOf, DeviceTypes, Clamps
    <2> QED BY <1>1, <1>9, <1>d, <2>1, <2>2 DEF ClampCell
  <1>10. ASSUME Simulates PROVE ClampCell(r, c, w)'
    <2>1. Active /\ step <= r /\ UNCHANGED <<step, subscribed, Messages("clamp")>>
      BY <1>10 DEF Simulates, processVars, _update_simulated_devices, Messages
    <2>2. clamp'.target_clamped = clamp.target_clamped
          /\ clamp'.clamped \in {clamp.clamped, clamp.target_clamped}
      BY <1>2, <1>10 DEF Simulates, _update_simulated_devices, _update_pneumatic, DeviceTypes,
                         Clamps
    <2>3. step > w => clamp.target_clamped
      BY <1>1, <1>d, <2>1 DEF ClampCell
    <2> QED BY <1>1, <1>4, <1>10, <1>d, <2>1, <2>2, <2>3 DEF ClampCell
  <1> QED BY <1>5, <1>6, <1>7, <1>8, <1>9, <1>10, ActiveStep

\* What the commands do to the spindle (peripheral_sim_node.py:254-346).
LEMMA SpindleHandled ==
  ASSUME spindle \in Spindles, NEW c, Handled(c)
  PROVE  LET is(name) == c.device = "spindle" /\ c.name = name
         IN /\ ~ is("set_speed") => /\ spindle'.actual_rpm = spindle.actual_rpm
                                    /\ spindle'.target_rpm = spindle.target_rpm
            /\ ~ is("stop") /\ spindle.commanded_running => spindle'.commanded_running
            /\ is("set_speed") => spindle'.target_rpm = c.rpm
            /\ is("start") => spindle'.commanded_running
  <1>1. ASSUME c.device # "spindle" PROVE UNCHANGED spindle
    BY <1>1 DEF Handled, WaitReady, ResetFault, _handle_passive_fixture, _handle_pneumatic,
                deviceVars
  <1>2. ASSUME c.device = "spindle"
        PROVE  \/ c.name = "wait_ready" /\ UNCHANGED spindle
               \/ c.name = "reset_fault" /\ spindle' = [spindle EXCEPT !.state = "ready"]
               \/ _handle_spindle(c)
    BY <1>2 DEF Handled, WaitReady, ResetFault, deviceVars
  <1>3. ASSUME c.name = "set_speed", set_speed(c.rpm)
        PROVE  /\ spindle'.target_rpm = c.rpm
               /\ spindle'.commanded_running = spindle.commanded_running
    BY <1>3 DEF set_speed, Spindles
  <1> QED BY <1>1, <1>2, <1>3 DEF _handle_spindle, Spindles

LEMMA SpindleNext ==
  ASSUME BaseInv, GoalsInv, [Next]_vars,
         NEW r \in Steps, Process[r].type = "robot",
         NEW s \in 1 .. r - 1, NEW t \in 1 .. r - 1, NEW v \in 1 .. r - 1,
         SpindlePrepared(r, s, t, v), SpindleCell(r, s, t, v)
  PROVE  SpindleCell(r, s, t, v)'
  <1> DEFINE Cell == SpindleCell(r, s, t, v)
             told == Nominal \in Messages("spindle")
  <1> SUFFICES ASSUME Active', step' <= r PROVE Cell'
    BY DEF SpindleCell
  <1>1. /\ r \in Int /\ s \in Steps /\ t \in Steps /\ v \in Steps /\ s < v /\ t < v /\ v < r
        /\ step \in Int /\ 1 <= s /\ 1 <= t /\ 1 <= step
        /\ s \in Int /\ t \in Int /\ v \in Int
    BY TypeParts, Lengths, ProcessAssumption DEF BaseInv, ProcessTypes, Steps, SpindlePrepared
  <1>2. MessagesInv /\ MessagesInv' /\ "spindle" \in Devices
    BY TypeNext DEF BaseInv, Devices
  <1>3. /\ spindle \in Spindles /\ spindle.actual_rpm \in Int /\ spindle.target_rpm \in Int
        /\ Nominal \in Int /\ Nominal > 0
    BY TypeParts, PeripheralAssumption DEF BaseInv, DeviceTypes, Spindles, Speeds
  <1>4. /\ Process[s].type = "peripheral" /\ Process[t].type = "peripheral"
    BY DEF SpindlePrepared, IsCommand
  <1>d. \A i \in {s, t} :
          /\ RunStarts => ~ Done(i)' \/ step' > i
          /\ step > i => Done(i)
          /\ Subscribes \/ Simulates \/ Advances \/ Tells => (Done(i)' => Done(i))
          /\ CarriesOut /\ step # i => (Done(i)' => Done(i))
    BY <1>1, <1>4, DoneStays
  <1>5. (told \/ step > v) /\ Active /\ step <= r =>
           spindle.target_rpm = Nominal /\ spindle.commanded_running
    <2>1. told => "spindle" \in subscribed
      BY <1>2 DEF MessagesInv, Messages
    <2>2. step >= v => step > s /\ step > t
      BY <1>1
    <2> QED BY <1>1, <1>d, <2>1, <2>2 DEF SpindleCell
  <1>6. ASSUME RunStarts PROVE Cell'
    <2>1. ~ told' /\ "spindle" \notin subscribed' /\ step' = 1
      BY <1>2, <1>6 DEF RunStarts, Messages, MessagesInv
    <2>2. ~ (step' > s) /\ ~ (step' > t) /\ ~ (step' > v)
      BY <1>1, <2>1
    <2> QED BY <1>6, <1>d, <2>1, <2>2 DEF SpindleCell
  <1>7. ASSUME Advances PROVE Cell'
    <2>1. /\ Active /\ step <= r /\ UNCHANGED <<spindle, subscribed>>
          /\ step' = step + 1 /\ (told' => told)
      BY <1>1, <1>7 DEF Advances, deviceVars, Messages
    <2>2. step = v => spindle.actual_rpm = Nominal
      BY <1>7, <2>1 DEF Advances, SpindlePrepared, IsWait, Current, _state_matches,
                        SpindleCell, Messages
    <2>3. (step' > v => step > v \/ step = v) /\ (step >= v => step' >= v)
      BY <1>1, <2>1
    <2> QED BY <1>7, <1>d, <2>1, <2>2, <2>3 DEF SpindleCell
  <1>8. ASSUME Subscribes PROVE Cell'
    <2>1. Active /\ step <= r /\ UNCHANGED <<spindle, step>> /\ (told' => told)
      BY <1>1, <1>8 DEF Subscribes, deviceVars, Messages
    <2>2. "spindle" \in subscribed' => "spindle" \in subscribed \/ IsWait(step, "spindle")
      BY <1>8 DEF Subscribes, IsWait, Current
    <2>3. IsWait(step, "spindle") => step >= v
      BY <1>1 DEF SpindlePrepared
    <2> QED BY <1>1, <1>8, <1>d, <2>1, <2>2, <2>3 DEF SpindleCell
  <1>9. ASSUME CarriesOut PROVE Cell'
    <2>1. /\ Active /\ step <= r /\ UNCHANGED <<step, subscribed>> /\ (told' => told)
          /\ Handled(Current)
      BY <1>9 DEF CarriesOut, Messages
    <2>2. step < r
      BY <1>1, <1>9, <2>1 DEF CarriesOut, Current
    <2>3. ASSUME ~ IsCommand(step, "spindle", "set_speed")
          PROVE  UNCHANGED <<spindle.actual_rpm, spindle.target_rpm>>
      BY <1>3, <1>9, <2>1, <2>3, SpindleHandled DEF CarriesOut, IsCommand, Current
    <2>4. ASSUME ~ IsCommand(step, "spindle", "stop"), spindle.commanded_running
          PROVE  spindle'.commanded_running
      BY <1>3, <1>9, <2>1, <2>4, SpindleHandled DEF CarriesOut, IsCommand, Current
    <2>5. ASSUME step = s PROVE spindle'.target_rpm = Nominal
      BY <1>3, <2>1, <2>5, SpindleHandled DEF SpindlePrepared, IsCommand, Current
    <2>6. ASSUME step = t PROVE spindle'.commanded_running
      BY <1>3, <2>1, <2>6, SpindleHandled DEF SpindlePrepared, IsCommand, Current
    <2>7. Done(s)' => spindle'.target_rpm = Nominal
      <3>1. ASSUME step # s, Done(s)' PROVE spindle'.target_rpm = Nominal
        <4>1. Done(s)
          BY <1>9, <1>d, <3>1
        <4>2. step \in s + 1 .. r - 1
          BY <1>1, <1>9, <2>2, <3>1, <4>1 DEF Done, CarriesOut
        <4> QED BY <2>1, <2>3, <4>1, <4>2 DEF SpindleCell, SpindlePrepared
      <3> QED BY <2>5, <3>1
    <2>8. Done(t)' => spindle'.commanded_running
      <3>1. ASSUME step # t, Done(t)' PROVE spindle'.commanded_running
        <4>1. Done(t)
          BY <1>9, <1>d, <3>1
        <4>2. step \in t + 1 .. r - 1
          BY <1>1, <1>9, <2>2, <3>1, <4>1 DEF Done, CarriesOut
        <4> QED BY <2>1, <2>4, <4>1, <4>2 DEF SpindleCell, SpindlePrepared
      <3> QED BY <2>6, <3>1
    <2>9. ASSUME step >= v PROVE spindle'.actual_rpm = spindle.actual_rpm
      <3>1. step \in s + 1 .. r - 1
        BY <1>1, <2>2, <2>9
      <3> QED BY <2>3, <3>1 DEF SpindlePrepared
    <2>10. told => step >= v
      BY <1>2, <2>1 DEF MessagesInv, Messages, SpindleCell
    <2>11. step > v => step >= v
      BY <1>1
    <2> QED BY <2>1, <2>7, <2>8, <2>9, <2>10, <2>11 DEF SpindleCell
  <1>10. ASSUME Tells PROVE Cell'
    <2>1. Active /\ step <= r /\ UNCHANGED <<spindle, step, subscribed>>
      BY <1>10 DEF Tells, deviceVars
    <2>2. told' => told \/ spindle.actual_rpm = Nominal
      BY <1>2, <1>10 DEF Tells, ValueOf
    <2> QED BY <1>10, <1>d, <2>1, <2>2 DEF SpindleCell
  <1>11. ASSUME Simulates PROVE Cell'
    <2>1. Active /\ step <= r /\ UNCHANGED <<step, subscribed>> /\ (told' => told)
      BY <1>11 DEF Simulates, processVars, _update_simulated_devices, Messages
    <2>2. spindle'.target_rpm = spindle.target_rpm
          /\ spindle'.commanded_running = spindle.commanded_running
      BY <1>3, <1>11 DEF Simulates, _update_simulated_devices, _update_spindle, Spindles
    <2>3. ASSUME spindle.commanded_running, spindle.target_rpm = Nominal,
                 spindle.actual_rpm = Nominal
          PROVE  spindle'.actual_rpm = Nominal
      <3>1. spindle'.actual_rpm = IF spindle.actual_rpm + 1 < spindle.target_rpm
                                  THEN spindle.actual_rpm + 1 ELSE spindle.target_rpm
        BY <1>3, <1>11, <2>3
        DEF Simulates, _update_simulated_devices, _update_spindle, Spindles
      <3> QED BY <1>3, <2>3, <3>1
    <2> QED BY <1>5, <1>11, <1>d, <2>1, <2>2, <2>3 DEF SpindleCell
  <1> QED BY <1>6, <1>7, <1>8, <1>9, <1>10, <1>11, ActiveStep

Inv == BaseInv /\ GoalsInv /\ CellInv

LEMMA InvInit == Init => Inv
  <1> SUFFICES ASSUME Init PROVE Inv
    OBVIOUS
  <1>1. ~ Active /\ IdleInv
    BY DEF Init, Active, IdleInv
  <1>2. GoalsInv /\ CellInv
    BY <1>1 DEF GoalsInv, CallInv, CellInv, ClampCell, SpindleCell
  <1> QED BY <1>2, TypeInit DEF Inv, BaseInv

LEMMA InvNext == Inv /\ [Next]_vars => Inv'
  <1> SUFFICES ASSUME Inv, [Next]_vars PROVE Inv'
    OBVIOUS
  <1>0. BaseInv /\ GoalsInv
    BY DEF Inv
  <1>1. BaseInv'
    BY <1>0, TypeNext, PhaseNext DEF BaseInv
  <1>2. ASSUME NEW r \in Steps, Process[r].type = "robot",
               NEW c \in 1 .. r - 1, NEW w \in 1 .. r - 1, ClampPrepared(r, c, w)
        PROVE  ClampCell(r, c, w)'
    BY <1>0, <1>2, ClampNext DEF Inv, CellInv
  <1>3. ASSUME NEW r \in Steps, Process[r].type = "robot",
               NEW s \in 1 .. r - 1, NEW t \in 1 .. r - 1, NEW v \in 1 .. r - 1,
               SpindlePrepared(r, s, t, v)
        PROVE  SpindleCell(r, s, t, v)'
    BY <1>0, <1>3, SpindleNext DEF Inv, CellInv
  <1>4. CellInv'
    BY <1>2, <1>3
    DEF CellInv, ClampPrepared, SpindlePrepared, IsCommand, IsWait, Steps
  <1> QED BY <1>0, <1>1, <1>4, GoalsNext DEF Inv

LEMMA InvAlways == Spec => []Inv
  BY InvInit, InvNext, PTL DEF Spec

\* While the first run has the arm move, the workpiece is clamped and the
\* spindle at speed (process_orchestrator_node.py:271-292), for every process that
\* prepares its robot steps and waits for what it commanded, every number of
\* steps, levels of speed and runs, and every operator before the run.
THEOREM PreparedCell ==
  ASSUME ProcessPrepares
  PROVE  Spec => []RobotMeetsPreparedCell
  <1>1. Inv => RobotMeetsPreparedCell
    <2> SUFFICES ASSUME Inv, runs = 1, running, phase = "called", Current.type = "robot"
                 PROVE  clamp.clamped /\ spindle.actual_rpm = Nominal
      BY DEF RobotMeetsPreparedCell
    <2>1. Active /\ step \in Steps /\ Process[step].type = "robot"
      BY TypeParts, Lengths, ProcessAssumption
      DEF Inv, BaseInv, PhaseInv, ProcessTypes, Active, Current, Steps
    <2>2. PICK c, w \in 1 .. step - 1 : ClampPrepared(step, c, w)
      BY <2>1 DEF ProcessPrepares, Steps
    <2>3. PICK s, t, v \in 1 .. step - 1 : SpindlePrepared(step, s, t, v)
      BY <2>1 DEF ProcessPrepares, Steps
    <2>4. ClampCell(step, c, w) /\ SpindleCell(step, s, t, v)
      BY <2>1, <2>2, <2>3 DEF Inv, CellInv
    <2>5. step > w /\ step > v /\ step <= step
      BY <2>1, ProcessAssumption DEF Steps
    <2> QED BY <2>1, <2>4, <2>5 DEF ClampCell, SpindleCell
  <1> QED BY <1>1, InvAlways, PTL
=============================================================================
