------------------------ MODULE MCProcessOrchestrator ------------------------
(******************************************************************************)
(* process_demo.yaml with one fixture, without the wait for its value safe,   *)
(* which nothing changes, and with a delay.  Commands of an operator come     *)
(* before it, those among them that no device understands.                    *)
(******************************************************************************)
EXTENDS ProcessOrchestrator

Step(d, name)      == [type |-> "peripheral", device |-> d, name |-> name, rpm |-> 0]
SetSpeed(rpm)      == [Step("spindle", "set_speed") EXCEPT !.rpm = rpm]
WaitFor(d, accept) == [type |-> "wait_state", device |-> d, accept |-> accept]

MCProcess ==
  << Step("fixture", "wait_ready"),
     Step("clamp", "clamp"), WaitFor("clamp", {TRUE}),
     SetSpeed(Nominal), Step("spindle", "start"), WaitFor("spindle", {Nominal}),
     [type |-> "robot"], [type |-> "delay"],
     Step("spindle", "stop"), WaitFor("spindle", {0}),
     Step("clamp", "release"), WaitFor("clamp", {FALSE}) >>

\* The process of process_demo.yaml prepares its robot step.
ASSUME DemoPrepares == ProcessPrepares

MCOperator ==
  {SetSpeed(Nominal), SetSpeed(1), SetSpeed(NotSpeed), Step("spindle", "start"),
   Step("fixture", "reset_fault"), Step("fixture", "disable"), Step("fixture", "enable"),
   Step("clamp", "open")}
===============================================================================
