----------------------- MODULE ArmExecuteActionServer -----------------------
(***************************************************************************)
(* The action servers arm/execute and arm/execute_path of action_server.py *)
(* on top of the controller programs.  Every accepted goal runs in a       *)
(* thread of its own; what keeps two of them off the one command           *)
(* connection is the busy flag.  The goal and cancel callbacks exclude     *)
(* each other (one callback group) but not the threads of the goals.       *)
(*                                                                         *)
(* A PATH is uploaded with beginPath and commitPath; the commands between  *)
(* them are sent and answered in the same way.  Frames, nodes and the      *)
(* validation of the goal are left out.                                    *)
(***************************************************************************)
EXTENDS C4GPrograms

CONSTANTS
  Bridge,        \* this program, as a client of the control port
  MaxControl     \* bound: control commands and answers under way

ASSUME ServerAssumption == Bridge \in Clients /\ MaxControl \in Nat

GoalKinds == {"query", "move", "unknown", "path"}
FirstOp   == [query |-> "getJoints", move |-> "move", unknown |-> "unknown",
              path  |-> "beginPath"]
NextOp    == [beginPath |-> "commitPath", commitPath |-> "executePath"]
Ended     == {"succeeded", "aborted", "canceled"}

VARIABLES
  control_enabled,   \* enable_motion_control
  busy,
  goal,              \* the status of every goal
  kind,              \* "path": a goal of arm/execute_path
  is_cancel_requested,
  pc, op,            \* the thread of every goal and the command it is at
  outcome,           \* how the goal ends after its abortPathUpload
  cmd_sock, ctl_sock,\* the two TcpClient objects are connected
  canceling,         \* the goal whose cancel callback waits for its answer
  stop_refused       \* history: the goals whose abortMotion was not sent

goalVars   == <<goal, kind, is_cancel_requested, outcome>>
threadVars == <<pc, op>>
serverVars == <<control_enabled, busy, goalVars, threadVars, cmd_sock,
                ctl_sock, canceling, stop_refused>>

ServerTypeOK ==
  /\ control_enabled \in BOOLEAN /\ busy \in BOOLEAN
  /\ goal \in [Goals -> {"new", "rejected", "executing"} \cup Ended]
  /\ kind \in [Goals -> GoalKinds]
  /\ is_cancel_requested \in [Goals -> BOOLEAN]
  /\ pc \in [Goals -> {"none", "next", "echo", "final", "stop", "stopping",
                       "finally"}]
  /\ op \in [Goals -> Ops]
  /\ outcome \in [Goals -> {"aborted", "canceled"}]
  /\ cmd_sock \in BOOLEAN /\ ctl_sock \in BOOLEAN
  /\ canceling \in Goals \cup {NoGoal}
  /\ stop_refused \subseteq Goals

ServerInit ==
  /\ control_enabled \in BOOLEAN /\ busy = FALSE
  /\ goal = [g \in Goals |-> "new"]
  /\ kind = [g \in Goals |-> "query"]
  /\ is_cancel_requested = [g \in Goals |-> FALSE]
  /\ pc = [g \in Goals |-> "none"] /\ op = [g \in Goals |-> "getJoints"]
  /\ outcome = [g \in Goals |-> "aborted"]
  /\ cmd_sock = FALSE /\ ctl_sock = FALSE
  /\ canceling = NoGoal /\ stop_refused = {}

Cmd(g) == [op |-> op[g], goal |-> g]

-----------------------------------------------------------------------------
(***************************************************************************)
(* Goals.                                                                  *)
(***************************************************************************)

(* Mutant: the flag is set but not looked at.                              *)
ReserveAlways == busy' = TRUE

_reserve_server == ~busy /\ busy' = TRUE

goal_callback(g, k) ==
  /\ goal[g] = "new" /\ canceling = NoGoal
  /\ kind' = [kind EXCEPT ![g] = k]
  /\ \/ /\ _reserve_server
        /\ goal' = [goal EXCEPT ![g] = "executing"]
        /\ pc' = [pc EXCEPT ![g] = "next"]
        /\ op' = [op EXCEPT ![g] = FirstOp[k]]
     \/ /\ busy
        /\ goal' = [goal EXCEPT ![g] = "rejected"]
        /\ UNCHANGED <<busy, threadVars>>
  /\ UNCHANGED <<control_enabled, is_cancel_requested, outcome, cmd_sock,
                 ctl_sock, canceling, stop_refused, programVars>>

(* succeed(), abort() or canceled(): the result follows when the thread    *)
(* has left its finally block.                                             *)
End(g, status) ==
  /\ goal' = [goal EXCEPT ![g] = status]
  /\ pc' = [pc EXCEPT ![g] = "finally"]
  /\ UNCHANGED <<op, outcome, kind, is_cancel_requested>>

_set_not_busy(g) ==
  /\ pc[g] = "finally"
  /\ pc' = [pc EXCEPT ![g] = "none"]
  /\ busy' = FALSE
  /\ UNCHANGED <<control_enabled, goalVars, op, cmd_sock, ctl_sock, canceling,
                 stop_refused, programVars>>

-----------------------------------------------------------------------------
(***************************************************************************)
(* One command: connect, send it, compare the echo, send "start", wait for *)
(* the answer.                                                             *)
(***************************************************************************)

(* The thread of a goal changes nothing else of the server.                *)
ThreadFrame == UNCHANGED <<control_enabled, busy, canceling, stop_refused,
                           ctl_sock>>

Goto(g, label, o) ==
  /\ pc' = [pc EXCEPT ![g] = label]
  /\ op' = [op EXCEPT ![g] = o]
  /\ UNCHANGED goalVars

CloseCommand == cmd_sock' = FALSE /\ CommandClosed

(* _best_effort_abort_path, and how the goal ends after it                 *)
Withdraw(g, status) ==
  /\ pc' = [pc EXCEPT ![g] = "next"]
  /\ op' = [op EXCEPT ![g] = "abortPathUpload"]
  /\ outcome' = [outcome EXCEPT ![g] = status]
  /\ UNCHANGED <<goal, kind, is_cancel_requested>>

(* Mutants: the PATH goes on moving; a cancelled goal ends at once.         *)
AfterExceptionNoStop(g) ==
  IF op[g] \in UploadOps THEN Withdraw(g, "aborted") ELSE End(g, "aborted")

AfterExceptionCanceled(g) ==
  End(g, IF is_cancel_requested[g] THEN "canceled" ELSE "aborted")

(* Where the except blocks lead: a PATH that is not uploaded is withdrawn  *)
(* on a new connection, one that may be moving is stopped over the control *)
(* connection, and a failed withdrawal ends the goal.                      *)
AfterException(g) ==
  CASE op[g] \in UploadOps       -> Withdraw(g, "aborted")
    [] op[g] = "abortPathUpload" -> End(g, outcome[g])
    [] op[g] = "executePath" /\ control_enabled -> Goto(g, "stop", op[g])
    [] OTHER                     -> End(g, "aborted")

Exception(g) == CloseCommand /\ AfterException(g)

(* The loop over the upload commands looks for a cancel in front of each.  *)
CancelSeen(g) ==
  pc[g] = "next" /\ op[g] \in UploadOps /\ is_cancel_requested[g]

cancel_upload(g) ==
  /\ CancelSeen(g)
  /\ Withdraw(g, "canceled")
  /\ ThreadFrame
  /\ UNCHANGED <<cmd_sock, programVars>>

(* A message sent on a connection that is lost already disappears or       *)
(* raises; the connection attempts end in an exception.                    *)
Send(g, m) == cmd_in' = IF lun = "open" THEN Append(cmd_in, m) ELSE cmd_in

send_command(g) ==
  /\ pc[g] = "next" /\ ~CancelSeen(g)
  /\ \/ /\ cmd_sock
        /\ Send(g, Cmd(g)) /\ Goto(g, "echo", op[g])
        /\ UNCHANGED <<cmd_sock, state, lun, cmd_out>>
     \/ /\ ~cmd_sock /\ Accepting /\ setup
        /\ cmd_in' = <<Cmd(g)>> /\ Goto(g, "echo", op[g])
        /\ cmd_sock' = TRUE
     \/ /\ IF cmd_sock THEN lun # "open" ELSE ~Accepting
        /\ Exception(g) /\ UNCHANGED <<state, cmd_in>>
  /\ ThreadFrame
  /\ UNCHANGED <<command, serviceVars, controlVars>>

TakeAnswer == cmd_out # <<>> /\ cmd_sock

recv_echo(g) ==
  /\ pc[g] = "echo" /\ TakeAnswer
  /\ LET m == Head(cmd_out) IN
     \/ /\ m.kind = "echo" /\ m.of.op = op[g]
        /\ Send(g, [op |-> "start", goal |-> g]) /\ Goto(g, "final", op[g])
        /\ cmd_out' = Tail(cmd_out) /\ UNCHANGED <<cmd_sock, lun>>
     \/ /\ ~(m.kind = "echo" /\ m.of.op = op[g]) \/ lun # "open"
        /\ Exception(g) /\ UNCHANGED cmd_in
  /\ ThreadFrame
  /\ UNCHANGED <<state, command, serviceVars, controlVars>>

(* Mutant: only an answer that says so is a failure.                       *)
SingleAnswerLenient(g, m) ==
  IF m \in {"ERROR", "Movement unavailable"}
    THEN End(g, "aborted") /\ CloseCommand
    ELSE End(g, "succeeded") /\ UNCHANGED <<cmd_sock, lun>>

(* What an answer means to the goal: the end of a single command, ..       *)
SingleAnswer(g, m) ==
  CASE m \in {"Movement finished", "JOINTS"} ->
         End(g, "succeeded") /\ UNCHANGED <<cmd_sock, lun>>
    [] m = "Motion aborted" ->
         /\ End(g, IF is_cancel_requested[g] THEN "canceled" ELSE "aborted")
         /\ UNCHANGED <<cmd_sock, lun>>
    [] m = "Movement unavailable" ->
         End(g, "aborted") /\ UNCHANGED <<cmd_sock, lun>>
    [] OTHER -> End(g, "aborted") /\ CloseCommand

(* .. of an upload command, of executePath and of abortPathUpload.         *)
PathAnswer(g, m) ==
  CASE op[g] = "abortPathUpload" ->
         End(g, outcome[g]) /\ UNCHANGED <<cmd_sock, lun>>
    [] op[g] \in UploadOps /\ m = "Movement finished" ->
         Goto(g, "next", NextOp[op[g]]) /\ UNCHANGED <<cmd_sock, lun>>
    [] op[g] = "executePath" /\ m = "Movement finished" ->
         End(g, "succeeded") /\ UNCHANGED <<cmd_sock, lun>>
    [] op[g] = "executePath" /\ m = "Motion aborted" ->
         /\ End(g, IF is_cancel_requested[g] THEN "canceled" ELSE "aborted")
         /\ UNCHANGED <<cmd_sock, lun>>
    [] op[g] = "executePath" /\ m \notin Finals ->
         UNCHANGED <<goalVars, threadVars, cmd_sock, lun>>
    [] OTHER -> Exception(g)

recv_final(g) ==
  /\ pc[g] = "final" /\ TakeAnswer
  /\ IF kind[g] = "path" THEN PathAnswer(g, Head(cmd_out).kind)
                         ELSE SingleAnswer(g, Head(cmd_out).kind)
  /\ cmd_out' = IF cmd_sock' THEN Tail(cmd_out) ELSE <<>>
  /\ ThreadFrame
  /\ UNCHANGED <<state, command, cmd_in, serviceVars, controlVars>>

(* Mutant: the wait for an answer has no deadline.                         *)
WaitingForever(g) == pc[g] \in {"echo", "final"} /\ lun # "open"

Waiting(g) == pc[g] \in {"echo", "final"}

(* The deadline of _recv_with_deadline, or the connection is lost.         *)
recv_fails(g) ==
  /\ Waiting(g)
  /\ Exception(g)
  /\ ThreadFrame
  /\ UNCHANGED <<state, command, cmd_in, serviceVars, controlVars>>

-----------------------------------------------------------------------------
(***************************************************************************)
(* abortMotion on the control connection, from the thread of a goal ..     *)
(***************************************************************************)

ControlConnected == ctl_sock /\ control = Bridge

SendAbort ==
  \/ /\ ControlConnected
     /\ ctl_in' = Append(ctl_in, "abortMotion")
     /\ UNCHANGED <<control, ctl_out, ctl_sock>>
  \/ /\ ~ctl_sock /\ setup_connection(Bridge)
     /\ ctl_in' = <<"abortMotion">> /\ ctl_sock' = TRUE

CannotSendAbort == IF ctl_sock THEN control # Bridge ELSE control # "none"

stop_motion(g) ==
  /\ pc[g] = "stop"
  /\ \/ SendAbort /\ Goto(g, "stopping", op[g]) /\ UNCHANGED stop_refused
     \/ /\ CannotSendAbort
        /\ ctl_sock' = FALSE
        /\ stop_refused' = stop_refused \cup {g}
        /\ End(g, "aborted")
        /\ UNCHANGED <<ctl_in, ctl_out, control>>
  /\ UNCHANGED <<control_enabled, busy, canceling, cmd_sock, mainVars,
                 serviceVars, events>>

stop_answered(g) ==
  /\ pc[g] = "stopping"
  /\ \/ /\ ControlConnected /\ ctl_out # <<>>
        /\ ctl_out' = Tail(ctl_out) /\ UNCHANGED <<control, ctl_sock>>
     \/ ctl_sock' = FALSE /\ ControlClosed(Bridge)
  /\ End(g, "aborted")
  /\ UNCHANGED <<control_enabled, busy, canceling, stop_refused, cmd_sock,
                 mainVars, serviceVars, ctl_in, events>>

(***************************************************************************)
(* .. and from the cancel callback.  Its failures leave the connection     *)
(* open, and a late answer in it.                                          *)
(***************************************************************************)

cancel_callback(g) ==
  /\ goal[g] = "executing" /\ ~is_cancel_requested[g]
  /\ canceling = NoGoal /\ control_enabled
  /\ Len(ctl_in) + Len(ctl_out) < MaxControl
  /\ SendAbort
  /\ canceling' = g
  /\ UNCHANGED <<control_enabled, busy, goalVars, threadVars, cmd_sock,
                 stop_refused, mainVars, serviceVars, events>>

cancel_accepted ==
  /\ canceling # NoGoal /\ ControlConnected /\ ctl_out # <<>>
  /\ ctl_out' = Tail(ctl_out)
  /\ is_cancel_requested' =
       [is_cancel_requested EXCEPT
          ![canceling] = (goal[canceling] = "executing")]
  /\ canceling' = NoGoal
  /\ UNCHANGED <<control_enabled, busy, goal, kind, outcome, threadVars,
                 cmd_sock, ctl_sock, stop_refused, mainVars, serviceVars,
                 control, ctl_in, events>>

(* recv_msg closes a lost connection, a deadline closes nothing.           *)
cancel_rejected ==
  /\ canceling # NoGoal
  /\ ctl_sock' = (ctl_sock /\ control = Bridge)
  /\ canceling' = NoGoal
  /\ UNCHANGED <<control_enabled, busy, goalVars, threadVars, cmd_sock,
                 stop_refused, programVars>>

-----------------------------------------------------------------------------
Thread(g) ==
  \/ cancel_upload(g) \/ send_command(g)
  \/ recv_echo(g) \/ recv_final(g) \/ recv_fails(g)
  \/ stop_motion(g) \/ stop_answered(g) \/ _set_not_busy(g)

ServerStep ==
  \/ \E g \in Goals : Thread(g)
  \/ \E g \in Goals : cancel_callback(g)
  \/ cancel_accepted \/ cancel_rejected

(* The threads of the goals go on, and a deadline passes whatever is        *)
(* received meanwhile.  Nobody has to send a goal or to cancel one.         *)
ServerFairness ==
  \A g \in Goals : /\ WF_<<serverVars, programVars>>(Thread(g))
                   /\ WF_<<serverVars, programVars>>(recv_fails(g))
=============================================================================
