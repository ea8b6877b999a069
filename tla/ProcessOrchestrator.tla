------------------------- MODULE ProcessOrchestrator -------------------------
(***************************************************************************)
(* ProcessOrchestratorNode: a thread that runs the steps of a process one   *)
(* after the other, with a time limit for each, while the executor takes    *)
(* the state messages of the devices and requests to start.  It fails at    *)
(* the first step that fails and leaves the devices as they are.            *)
(*                                                                         *)
(* The arm's action server, modelled by MoveItCommandServer, is here only   *)
(* its answer: it may reject, fail, or go on after the process has given    *)
(* up.  An operator gives commands, one after the other, before the first   *)
(* run.  State callbacks are of a reentrant group: of the messages on their *)
(* way any may be stored next, and several may tell the same.               *)
(***************************************************************************)
EXTENDS PeripheralSim

CONSTANTS
  Process,            \* the steps
  OperatorCommands,
  MaxRuns             \* bound: runs of the process

Commands == [type : {"peripheral"}, device : Devices, name : STRING,
             rpm : Speeds \cup {NotSpeed}]

\* what _run_process_thread tells apart by the type of a step
ASSUME ProcessAssumption ==
  /\ Len(Process) \in Nat /\ MaxRuns \in Nat
  /\ OperatorCommands \subseteq Commands
  /\ \A i \in 1 .. Len(Process) :
       /\ Process[i].type \in {"peripheral", "robot", "wait_state", "delay"}
       /\ Process[i].type = "peripheral" => Process[i] \in Commands
       /\ Process[i].type = "wait_state" => Process[i].device \in Devices

VARIABLES
  running,            \* self._running
  runs,
  step,               \* the step being executed
  phase,              \* how far it is
  call,               \* the process's call: "none", "open", "ok" or "failed"
  goals,              \* peripheral commands being executed
  arm,                \* the arm executes a command
  known,              \* self._latest_states: a set with the value, or empty
  subscribed          \* self._state_subscriptions

processVars == <<running, runs, step, phase, call, goals, arm, known, subscribed>>
vars == <<deviceVars, arriving, processVars>>

TypeOK ==
  /\ DevicesTypeOK
  /\ running \in BOOLEAN /\ runs \in 0 .. MaxRuns
  /\ step \in 1 .. Len(Process) + 1
  /\ phase \in {"idle", "ready", "called", "waiting", "failed"}
  /\ call \in {"none", "open", "ok", "failed"}
  /\ goals \subseteq [command : Commands, own : BOOLEAN, done : BOOLEAN, ok : BOOLEAN]
  /\ arm \in BOOLEAN /\ subscribed \subseteq Devices

Init ==
  /\ DevicesInit
  /\ running = FALSE /\ runs = 0 /\ step = 1 /\ phase = "idle" /\ call = "none"
  /\ goals = {} /\ arm = FALSE
  /\ known = [d \in Devices |-> {}] /\ subscribed = {}

Current == Process[step]
AtStep(type) == phase = "ready" /\ step <= Len(Process) /\ Current.type = type

-----------------------------------------------------------------------------
_start_background_run ==
  /\ runs < MaxRuns /\ ~ running
  /\ running' = TRUE /\ runs' = runs + 1 /\ step' = 1 /\ phase' = "ready"
  /\ UNCHANGED <<deviceVars, arriving, call, goals, arm, known, subscribed>>

StepDone == step' = step + 1 /\ phase' = "ready"

\* send_goal_async of a peripheral or, when that is the step, of the arm
_execute_peripheral_step ==
  /\ AtStep("peripheral") /\ phase' = "called" /\ call' = "open"
  /\ goals' = goals \cup {[command |-> Current, own |-> TRUE, done |-> FALSE, ok |-> FALSE]}
  /\ UNCHANGED <<deviceVars, arriving, running, runs, step, arm, known, subscribed>>

_execute_robot_step ==
  /\ AtStep("robot") /\ phase' = "called" /\ call' = "open"
  /\ arm' = TRUE
  /\ UNCHANGED <<deviceVars, arriving, running, runs, step, goals, known, subscribed>>

\* the futures of the call are done, before or after the time limit is checked
CallSucceeds ==
  /\ phase = "called" /\ call = "ok" /\ StepDone /\ call' = "none"
  /\ UNCHANGED <<deviceVars, arriving, running, runs, goals, arm, known, subscribed>>

\* an error, a rejection or a timeout; the answer is then never looked at
CallFails ==
  /\ phase = "called" /\ call \in {"open", "failed"}
  /\ phase' = "failed" /\ call' = "none"
  /\ goals' = {[g EXCEPT !.own = FALSE] : g \in goals}
  /\ UNCHANGED <<deviceVars, arriving, running, runs, step, arm, known, subscribed>>

\* Mutant: a device that has not yet told its state is taken as matching.
MatchesUnknown(wait, values) == \A v \in values : v \in wait.accept

_state_matches(wait, values) == \E v \in values : v \in wait.accept

_execute_wait_state_step ==
  /\ AtStep("wait_state") /\ phase' = "waiting"
  /\ subscribed' = subscribed \cup {Current.device}
  /\ UNCHANGED <<deviceVars, arriving, running, runs, step, call, goals, arm, known>>

WaitMatches ==
  /\ phase = "waiting" /\ _state_matches(Current, known[Current.device]) /\ StepDone
  /\ UNCHANGED <<deviceVars, arriving, running, runs, call, goals, arm, known, subscribed>>

WaitTimesOut ==
  /\ phase = "waiting" /\ ~ _state_matches(Current, known[Current.device])
  /\ phase' = "failed"
  /\ UNCHANGED <<deviceVars, arriving, running, runs, step, call, goals, arm, known,
                 subscribed>>

\* time.sleep is over
DelayEnds ==
  /\ AtStep("delay") /\ StepDone
  /\ UNCHANGED <<deviceVars, arriving, running, runs, call, goals, arm, known, subscribed>>

\* the end of _run_process_thread, with its finally
ProcessEnds ==
  /\ phase = "failed" \/ (phase = "ready" /\ step > Len(Process))
  /\ phase' = "idle" /\ running' = FALSE /\ step' = 1
  /\ UNCHANGED <<deviceVars, arriving, runs, call, goals, arm, known, subscribed>>

_state_callback(d) ==
  /\ \E v \in arriving[d] :
       /\ known' = [known EXCEPT ![d] = {v}]
       /\ arriving' \in {arriving, [arriving EXCEPT ![d] = @ \ {v}]}
  /\ UNCHANGED <<deviceVars, running, runs, step, phase, call, goals, arm, subscribed>>

-----------------------------------------------------------------------------
(* The action servers                                                       *)

OperatorGives ==
  /\ runs = 0 /\ goals = {}
  /\ \E c \in OperatorCommands :
       goals' = {[command |-> c, own |-> FALSE, done |-> FALSE, ok |-> FALSE]}
  /\ UNCHANGED <<deviceVars, arriving, running, runs, step, phase, call, arm, known,
                 subscribed>>

\* _execute_command up to and with _dispatch
Dispatch(g) ==
  /\ ~ g.done
  /\ \E success \in BOOLEAN :
       /\ _dispatch(g.command, success)
       /\ goals' = (goals \ {g}) \cup {[g EXCEPT !.done = TRUE, !.ok = success]}
  /\ UNCHANGED <<arriving, running, runs, step, phase, call, arm, known, subscribed>>

\* the rest of it: the state is published and the result goes to the caller
CommandEnds(g) ==
  /\ g.done /\ goals' = goals \ {g}
  /\ call' = IF g.own THEN (IF g.ok THEN "ok" ELSE "failed") ELSE call
  /\ IF g.command.device \in subscribed
     THEN _publish_state(g.command.device, subscribed)
     ELSE UNCHANGED <<deviceVars, arriving>>
  /\ UNCHANGED <<running, runs, step, phase, arm, known, subscribed>>

PublishTimer ==
  /\ \E d \in Devices : _publish_state(d, subscribed)
  /\ UNCHANGED processVars

SimulationTimer == _update_simulated_devices /\ UNCHANGED processVars

\* the result of the arm's goal, which the process may have given up
ArmEnds(success) ==
  /\ arm /\ arm' = FALSE
  /\ call' = IF phase = "called" /\ Current.type = "robot" /\ call = "open"
             THEN (IF success THEN "ok" ELSE "failed") ELSE call
  /\ UNCHANGED <<deviceVars, arriving, running, runs, step, phase, goals, known, subscribed>>

-----------------------------------------------------------------------------
Worker ==
  \/ _execute_peripheral_step \/ _execute_robot_step \/ CallSucceeds \/ CallFails
  \/ _execute_wait_state_step \/ WaitMatches \/ WaitTimesOut \/ DelayEnds \/ ProcessEnds

Next ==
  \/ (runs = 0 => goals = {}) /\ _start_background_run
  \/ Worker \/ OperatorGives
  \/ \E g \in goals : Dispatch(g) \/ CommandEnds(g)
  \/ \E d \in Devices : _state_callback(d)
  \/ PublishTimer \/ SimulationTimer
  \/ \E success \in BOOLEAN : ArmEnds(success)

Spec == Init /\ [][Next]_vars

-----------------------------------------------------------------------------
IsCommand(i, device, name) ==
  Process[i].type = "peripheral" /\ Process[i].device = device /\ Process[i].name = name

IsWait(i, device) == Process[i].type = "wait_state" /\ Process[i].device = device

\* Before step r the workpiece is clamped at c, the process waits for that at w
\* and not earlier, and nothing releases it.
ClampPrepared(r, c, w) ==
  /\ c < w /\ IsCommand(c, "clamp", "clamp")
  /\ IsWait(w, "clamp") /\ Process[w].accept = {TRUE}
  /\ \A i \in c + 1 .. r - 1 : ~ IsCommand(i, "clamp", "release")
  /\ \A i \in 1 .. w - 1 : ~ IsWait(i, "clamp")

\* Before step r the spindle gets its speed at s and is started at t, the process
\* waits for the speed at v and not earlier, and nothing changes or stops it.
SpindlePrepared(r, s, t, v) ==
  /\ s < v /\ t < v
  /\ IsCommand(s, "spindle", "set_speed") /\ Process[s].rpm = Nominal
  /\ IsCommand(t, "spindle", "start")
  /\ IsWait(v, "spindle") /\ Process[v].accept = {Nominal}
  /\ \A i \in s + 1 .. r - 1 : ~ IsCommand(i, "spindle", "set_speed")
  /\ \A i \in t + 1 .. r - 1 : ~ IsCommand(i, "spindle", "stop")
  /\ \A i \in 1 .. v - 1 : ~ IsWait(i, "spindle")

ProcessPrepares ==
  \A r \in 1 .. Len(Process) :
    Process[r].type = "robot" =>
      /\ \E c, w \in 1 .. r - 1 : ClampPrepared(r, c, w)
      /\ \E s, t, v \in 1 .. r - 1 : SpindlePrepared(r, s, t, v)

\* While the first run has the arm move, the workpiece is clamped and the
\* spindle at speed, although both were commanded asynchronously and were seen
\* through messages that may be late and out of order
\* (process_orchestrator_node.py:271-292).
RobotMeetsPreparedCell ==
  runs = 1 /\ running /\ phase = "called" /\ Current.type = "robot" =>
    clamp.clamped /\ spindle.actual_rpm = Nominal
===============================================================================
