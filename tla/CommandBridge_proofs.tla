------------------------- MODULE CommandBridge_proofs -------------------------
(***************************************************************************)
(* Proofs about CommandBridge: the types, the handshake on the command     *)
(* connection, the answers on the control connection and what the end of a *)
(* goal says of the arm, for every number of goals, requests, lost         *)
(* connections and restarts.                                               *)
(***************************************************************************)
EXTENDS CommandBridge, TLAPS, SequenceTheorems

Types == /\ ProgramsTypeOK /\ ServerTypeOK /\ NodeTypeOK
         /\ left \in BudgetType /\ dropped \in BOOLEAN

-----------------------------------------------------------------------------
(***************************************************************************)
(* The inductive invariant of the handshake.                               *)
(***************************************************************************)

PathOps == UploadOps \cup {"executePath", "abortPathUpload"}

(* At most one thread runs, and it holds the server busy; its command is   *)
(* one of its kind of goal.                                                *)
OneThread ==
  /\ \A g \in Goals : pc[g] # "none" => busy
  /\ \A g, h \in Goals : pc[g] # "none" /\ pc[h] # "none" => g = h
  /\ \A g \in Goals : goal[g] = "new" => pc[g] = "none"
  /\ \A g \in Goals : pc[g] # "none" =>
       (kind[g] = "path" <=> op[g] \in PathOps)

NoneWaiting == \A g \in Goals : ~Waiting(g)

Echo(g)  == [kind |-> "echo", of |-> Cmd(g)]
Go(g)    == [op |-> "start", goal |-> g]

(* What a thread that waits for the end of its command may still receive:  *)
(* PATH_EVENTs, and after them the answer.                                 *)
FinalShape(g) ==
  \A i \in 1 .. Len(cmd_out) :
    /\ cmd_out[i].of = Cmd(g)
    /\ cmd_out[i].kind # "echo"
    /\ i < Len(cmd_out) => cmd_out[i].kind = "PATH_EVENT"
    /\ cmd_out[i].kind = "PATH_EVENT" => op[g] = "executePath"
    /\ cmd_out[i].kind = "JOINTS" => op[g] \in QueryOps

(* The client's end of the connection.                                     *)
ClientEnd ==
  /\ \A g \in Goals : Waiting(g) => cmd_sock
  /\ lun = "open" => cmd_sock
  /\ cmd_sock /\ NoneWaiting => cmd_out = <<>>
  /\ \A g \in Goals : pc[g] = "echo" => cmd_out \in {<<>>, <<Echo(g)>>}
  /\ \A g \in Goals : pc[g] = "final" => FinalShape(g)
  /\ Len(cmd_out) <= MaxEvents + 1

(* The controller's end, connected or not.                                 *)
MainEnd ==
  /\ Len(cmd_in) <= 1
  /\ cmd_in # <<>> => \/ state = "echoed"
                      \/ state = "idle" /\ Head(cmd_in).op # "start"
  /\ state \notin {"setup", "idle"} => command \in Command
  /\ arm # NoGoal => state = "moving" /\ command.goal = arm

Serving == {"movement", "cleared", "admitted", "moving"}

(* While they are connected the two ends are at the same place.            *)
EchoPlace(g) ==
  \/ state = "idle" /\ cmd_in = <<Cmd(g)>> /\ cmd_out = <<>>
  \/ state = "permission" /\ command = Cmd(g) /\ cmd_in = <<>> /\ cmd_out = <<>>
  \/ state = "echoed" /\ command = Cmd(g) /\ cmd_in = <<>>

FinalPlace(g) ==
  \/ /\ state = "echoed" /\ command = Cmd(g)
     /\ cmd_in = <<Go(g)>> /\ cmd_out = <<>>
  \/ /\ state \in Serving /\ command = Cmd(g) /\ cmd_in = <<>>
     /\ Len(cmd_out) <= MaxEvents
     /\ \A i \in 1 .. Len(cmd_out) : cmd_out[i].kind = "PATH_EVENT"
  \/ /\ state \in {"idle", "error"} /\ cmd_in = <<>> /\ cmd_out # <<>>
     /\ cmd_out[Len(cmd_out)].kind # "PATH_EVENT"
     /\ state = "error" => /\ op[g] = "unknown"
                           /\ cmd_out[Len(cmd_out)].kind = "ERROR"

SamePlace ==
  lun = "open" =>
    /\ NoneWaiting => state = "idle" /\ cmd_in = <<>>
    /\ \A g \in Goals : pc[g] = "echo" => EchoPlace(g)
    /\ \A g \in Goals : pc[g] = "final" => FinalPlace(g)

Handshake == OneThread /\ ClientEnd /\ MainEnd /\ SamePlace

-----------------------------------------------------------------------------
(* The inductive invariant of the control connection: while the node owns  *)
(* it, its only message is the command served or the answer to it.         *)
NodeOwns ==
  /\ control = Node => node_sock
  /\ control = Node /\ serving = "none" => ctl_in = <<>> /\ ctl_out = <<>>
  /\ control = Node /\ serving # "none" =>
       \/ ctl_in = <<serving>> /\ ctl_out = <<>>
       \/ ctl_in = <<>> /\ ctl_out = <<serving>>
  /\ AnswerIsOwn

-----------------------------------------------------------------------------
(***************************************************************************)
(* Types.                                                                  *)
(***************************************************************************)

LEMMA ShortSequences ==
  /\ <<>> \in Seq(Message) /\ <<>> \in Seq(Events)
  /\ <<>> \in Seq(Command \cup Start)
  /\ \A e \in Events : <<e>> \in Seq(Events)
  /\ \A q \in Seq(Events), e \in Events : Append(q, e) \in Seq(Events)
  /\ \A q \in Seq(Events) : q # <<>> => /\ Tail(q) \in Seq(Events)
                                      /\ Head(q) \in Events
BY EmptySeq DEF Events

(* The messages the programs exchange.                                     *)
LEMMA WrittenType ==
  ASSUME Types, MainEnd, state \notin {"setup", "idle"},
         NEW k \in Finals \cup {"echo", "JOINTS", "PATH_EVENT"}
  PROVE  Written([kind |-> k, of |-> command]) \in Seq(Message)
<1>1. [kind |-> k, of |-> command] \in Message
  BY DEF MainEnd, Message
<1>2. cmd_out \in Seq(Message)
  BY DEF Types, ProgramsTypeOK
<1> QED
  BY <1>1, <1>2 DEF Written

LEMMA InitTypes == Init => Types
<1> SUFFICES ASSUME Init PROVE Types
  OBVIOUS
<1>1. ProgramsTypeOK
  BY ShortSequences DEF Init, ProgramsInit, ProgramsTypeOK
<1>2. ServerTypeOK
  BY DEF Init, ServerInit, ServerTypeOK, GoalKinds, Ops, QueryOps
<1>3. NodeTypeOK
  BY DEF Init, NodeInit, NodeTypeOK
<1>4. left \in BudgetType /\ dropped \in BOOLEAN
  BY BridgeAssumption DEF Init
<1> QED
  BY <1>1, <1>2, <1>3, <1>4 DEF Types

LEMMA SpendType ==
  ASSUME left \in BudgetType, NEW what \in {"calls", "losses", "restarts"},
         Spend(what)
  PROVE  left' \in BudgetType
BY DEF BudgetType, Spend

(* The requests and the accidents.                                         *)
LEMMA OutsideTypes ==
  ASSUME Types,
         \/ \E g \in Goals, k \in GoalKinds : RequestGoal(g, k)
         \/ \E e \in Events : RequestControl(e)
         \/ Restart \/ Lose
  PROVE  Types'
<1> USE DEF Types
<1>1. ASSUME NEW g \in Goals, NEW k \in GoalKinds, RequestGoal(g, k)
      PROVE  Types'
  <2>1. FirstOp[k] \in Ops
    BY DEF GoalKinds, FirstOp, Ops, QueryOps, MotionOps, UploadOps
  <2>2. ServerTypeOK'
    BY <1>1, <2>1 DEF RequestGoal, goal_callback, _reserve_server, ServerTypeOK,
       threadVars
  <2>3. ProgramsTypeOK'
    BY <1>1 DEF RequestGoal, goal_callback, ProgramsTypeOK,
       programVars, mainVars, serviceVars, controlVars
  <2>4. NodeTypeOK' /\ left' \in BudgetType /\ dropped' \in BOOLEAN
    BY <1>1 DEF RequestGoal, NodeTypeOK, nodeVars, BudgetType
  <2> QED
    BY <2>2, <2>3, <2>4
<1>2. ASSUME NEW e \in Events, RequestControl(e) PROVE Types'
  <2>1. ServerTypeOK' /\ dropped' \in BOOLEAN
    BY <1>2 DEF RequestControl, ServerTypeOK, serverVars, goalVars, threadVars
  <2>2. ProgramsTypeOK'
    <3>1. /\ ctl_in' \in Seq(Events) /\ ctl_out' \in Seq(Events)
          /\ control' \in Clients \cup {"none", "lost"}
      BY <1>2, NodeAssumption, ShortSequences
         DEF RequestControl, _handle_trigger, setup_connection, ProgramsTypeOK
    <3> QED
      BY <1>2, <3>1 DEF RequestControl, _handle_trigger, NodeFrame,
         ProgramsTypeOK, mainVars, serviceVars
  <2>3. NodeTypeOK'
    BY <1>2 DEF RequestControl, _handle_trigger, NodeTypeOK
  <2>4. left' \in BudgetType
    BY <1>2, SpendType DEF RequestControl
  <2> QED
    BY <2>1, <2>2, <2>3, <2>4
<1>3. CASE Restart
  <2>1. ServerTypeOK' /\ NodeTypeOK' /\ dropped' \in BOOLEAN
    BY <1>3 DEF Restart, ServerTypeOK, serverVars, goalVars, threadVars,
       NodeTypeOK, nodeVars
  <2>2. ProgramsTypeOK'
    BY <1>3 DEF Restart, OperatorRestarts, ProgramsTypeOK, mainVars,
       serviceVars, controlVars
  <2> QED
    BY <1>3, <2>1, <2>2, SpendType DEF Restart
<1>4. CASE Lose
  <2>1. ServerTypeOK' /\ NodeTypeOK' /\ dropped' \in BOOLEAN
    BY <1>4 DEF Lose, ServerTypeOK, serverVars, goalVars, threadVars,
       NodeTypeOK, nodeVars
  <2>2. ProgramsTypeOK'
    <3>1. /\ lun' \in {"none", "open", "lost"}
          /\ cmd_in' \in Seq(Command \cup Start) /\ cmd_out' \in Seq(Message)
      BY <1>4, ShortSequences DEF Lose, LoseConnection, ProgramsTypeOK, mainVars
    <3>2. /\ control' \in Clients \cup {"none", "lost"}
          /\ ctl_in' \in Seq(Events) /\ ctl_out' \in Seq(Events) /\ events' = events
      BY <1>4, ShortSequences DEF Lose, LoseConnection, ProgramsTypeOK, controlVars
    <3>3. UNCHANGED <<state, command, serviceVars>>
      BY <1>4 DEF Lose, LoseConnection, mainVars
    <3> QED BY <3>1, <3>2, <3>3 DEF ProgramsTypeOK, serviceVars
  <2> QED
    BY <1>4, <2>1, <2>2, SpendType DEF Lose
<1> QED
  BY <1>1, <1>2, <1>3, <1>4

(* A thread.                                                               *)
LEMMA ThreadTypes ==
  ASSUME Types, NEW g \in Goals, Thread(g),
         UNCHANGED <<nodeVars, left, dropped>>
  PROVE  Types'
<1> USE DEF Types
<1>0. NodeTypeOK' /\ left' \in BudgetType /\ dropped' \in BOOLEAN
  BY DEF nodeVars, NodeTypeOK
<1>1. /\ Cmd(g) \in Command
      /\ [op |-> "start", goal |-> g] \in Start
      /\ "abortPathUpload" \in Ops
      /\ \A o \in UploadOps : NextOp[o] \in Ops
  BY DEF ServerTypeOK, Cmd, Command, Start, Ops, UploadOps, NextOp, MotionOps
<1>2. CASE cancel_upload(g)
  BY <1>0, <1>1, <1>2 DEF cancel_upload, Withdraw, ThreadFrame, ServerTypeOK,
     ProgramsTypeOK, programVars, mainVars, serviceVars, controlVars
<1>3. \A s \in Ended : End(g, s) => /\ goal' \in [Goals -> {"new", "rejected", "executing"} \cup Ended]
                                   /\ pc' \in [Goals -> {"none", "next", "echo", "final", "stop", "stopping", "finally"}]
                                   /\ UNCHANGED <<op, outcome, kind, is_cancel_requested>>
  BY DEF End, ServerTypeOK
<1>4. ASSUME Exception(g), state' = state, command' = command, ThreadFrame,
             UNCHANGED <<serviceVars, controlVars>>, cmd_in' \in Seq(Command \cup Start)
      PROVE  Types'
  <2>1. ServerTypeOK'
    <3>1. CASE Withdraw(g, "aborted")
      BY <3>1, <1>1, <1>4 DEF Exception, Withdraw, CloseCommand, ThreadFrame, ServerTypeOK
    <3>2. CASE End(g, outcome[g])
      BY <3>2, <1>3, <1>4 DEF Exception, CloseCommand, ThreadFrame, ServerTypeOK, Ended
    <3>3. CASE Goto(g, "stop", op[g])
      BY <3>3, <1>4 DEF Exception, Goto, CloseCommand, ThreadFrame, ServerTypeOK, goalVars
    <3>4. CASE End(g, "aborted")
      BY <3>4, <1>3, <1>4 DEF Exception, CloseCommand, ThreadFrame, ServerTypeOK, Ended
    <3> QED
      BY <1>4, <3>1, <3>2, <3>3, <3>4 DEF Exception, AfterException
  <2>2. ProgramsTypeOK'
    BY <1>4 DEF Exception, CloseCommand, CommandClosed, ProgramsTypeOK,
       serviceVars, controlVars
  <2> QED
    BY <1>0, <2>1, <2>2
<1>5. Tail(cmd_out) \in Seq(Message) \/ cmd_out = <<>>
  BY DEF ProgramsTypeOK
<1>6. CASE send_command(g)
  <2>1. CASE cmd_sock /\ Send(g, Cmd(g)) /\ Goto(g, "echo", op[g])
             /\ UNCHANGED <<cmd_sock, state, lun, cmd_out>>
    BY <1>0, <1>1, <1>6, <2>1 DEF send_command, Send, Goto, ThreadFrame, goalVars,
       ServerTypeOK, ProgramsTypeOK, serviceVars, controlVars
  <2>2. CASE /\ ~cmd_sock /\ Accepting /\ setup
             /\ cmd_in' = <<Cmd(g)>> /\ Goto(g, "echo", op[g])
             /\ cmd_sock' = TRUE
    BY <1>0, <1>1, <1>6, <2>2 DEF send_command, setup, Goto, ThreadFrame, goalVars,
       ServerTypeOK, ProgramsTypeOK, serviceVars, controlVars
  <2>3. CASE Exception(g) /\ UNCHANGED <<state, cmd_in>>
    BY <1>4, <1>6, <2>3 DEF send_command, ProgramsTypeOK
  <2> QED
    BY <1>6, <2>1, <2>2, <2>3 DEF send_command
<1>7. CASE recv_echo(g)
  <2>1. CASE /\ Send(g, [op |-> "start", goal |-> g]) /\ Goto(g, "final", op[g])
             /\ cmd_out' = Tail(cmd_out) /\ UNCHANGED <<cmd_sock, lun>>
    BY <1>0, <1>1, <1>5, <1>7, <2>1 DEF recv_echo, TakeAnswer, Send, Goto, ThreadFrame,
       goalVars, ServerTypeOK, ProgramsTypeOK, serviceVars, controlVars
  <2>2. CASE Exception(g) /\ UNCHANGED cmd_in
    BY <1>4, <1>7, <2>2 DEF recv_echo, ProgramsTypeOK
  <2> QED
    BY <1>7, <2>1, <2>2 DEF recv_echo
<1>8. CASE recv_fails(g)
  BY <1>4, <1>8 DEF recv_fails, ProgramsTypeOK
<1>9. CASE recv_final(g)
  <2> DEFINE m == Head(cmd_out).kind
  <2>1. CASE Exception(g)
    BY <1>4, <1>9, <2>1 DEF recv_final, ProgramsTypeOK
  <2>2. ASSUME NEW s \in Ended, End(g, s), UNCHANGED <<cmd_sock, lun>> PROVE Types'
    BY <1>0, <1>3, <1>5, <1>9, <2>2 DEF recv_final, TakeAnswer, ThreadFrame,
       ServerTypeOK, ProgramsTypeOK, serviceVars, controlVars
  <2>3. ASSUME NEW s \in Ended, End(g, s), CloseCommand PROVE Types'
    <3>1. ServerTypeOK'
      BY <1>3, <1>9, <2>3 DEF recv_final, ThreadFrame, CloseCommand, ServerTypeOK
    <3>2. ProgramsTypeOK'
      BY <1>9, <2>3, ShortSequences DEF recv_final, CloseCommand, CommandClosed,
         ProgramsTypeOK, serviceVars, controlVars
    <3> QED
      BY <1>0, <3>1, <3>2
  <2>4. CASE /\ op[g] \in UploadOps
             /\ Goto(g, "next", NextOp[op[g]]) /\ UNCHANGED <<cmd_sock, lun>>
    BY <1>0, <1>1, <1>5, <1>9, <2>4 DEF recv_final, TakeAnswer, Goto, ThreadFrame,
       goalVars, ServerTypeOK, ProgramsTypeOK, serviceVars, controlVars
  <2>5. CASE UNCHANGED <<goalVars, threadVars, cmd_sock, lun>>
    BY <1>0, <1>5, <1>9, <2>5 DEF recv_final, TakeAnswer, ThreadFrame, goalVars,
       threadVars, ServerTypeOK, ProgramsTypeOK, serviceVars, controlVars
  <2>6. outcome[g] \in Ended /\ {"aborted", "succeeded", "canceled"} \subseteq Ended
    BY DEF ServerTypeOK, Ended
  <2>7. CASE PathAnswer(g, m)
    BY <2>1, <2>2, <2>4, <2>5, <2>6, <2>7 DEF PathAnswer
  <2>8. CASE SingleAnswer(g, m)
    BY <2>2, <2>3, <2>6, <2>8 DEF SingleAnswer
  <2> QED
    BY <1>9, <2>7, <2>8 DEF recv_final
<1>10. CASE stop_motion(g)
  <2>1. CASE SendAbort /\ Goto(g, "stopping", op[g]) /\ UNCHANGED stop_refused
    <3>1. ServerTypeOK'
      BY <1>10, <2>1 DEF stop_motion, SendAbort, Goto, goalVars, ServerTypeOK
    <3>2. "abortMotion" \in Events
      BY DEF Events
    <3>3. /\ ctl_in' \in Seq(Events) /\ ctl_out' \in Seq(Events)
          /\ control' \in Clients \cup {"none", "lost"}
      BY <2>1, <3>2, ServerAssumption, ShortSequences
         DEF SendAbort, setup_connection, ProgramsTypeOK
    <3>4. UNCHANGED <<mainVars, serviceVars, events>>
      BY <1>10 DEF stop_motion
    <3>5. ProgramsTypeOK'
      BY <3>3, <3>4 DEF ProgramsTypeOK, mainVars, serviceVars
    <3> QED
      BY <1>0, <3>1, <3>5
  <2>2. CASE /\ ctl_sock' = FALSE
             /\ stop_refused' = stop_refused \cup {g}
             /\ End(g, "aborted")
             /\ UNCHANGED <<ctl_in, ctl_out, control>>
    <3>1. ServerTypeOK'
      BY <1>3, <1>10, <2>2 DEF stop_motion, Ended, ServerTypeOK
    <3>2. UNCHANGED <<mainVars, serviceVars, events>>
      BY <1>10 DEF stop_motion
    <3>3. ProgramsTypeOK'
      BY <2>2, <3>2 DEF ProgramsTypeOK, mainVars, serviceVars
    <3> QED
      BY <1>0, <3>1, <3>3
  <2> QED
    BY <1>10, <2>1, <2>2 DEF stop_motion
<1>11. CASE stop_answered(g)
  <2>1. ServerTypeOK'
    BY <1>3, <1>11 DEF stop_answered, Ended, ServerTypeOK
  <2>2. /\ ctl_out' \in Seq(Events)
        /\ control' \in Clients \cup {"none", "lost"}
    BY <1>11, ShortSequences DEF stop_answered, ControlClosed, ProgramsTypeOK
  <2>3. UNCHANGED <<mainVars, serviceVars, ctl_in, events>>
    BY <1>11 DEF stop_answered
  <2>4. ProgramsTypeOK'
    BY <2>2, <2>3 DEF ProgramsTypeOK, mainVars, serviceVars
  <2> QED
    BY <1>0, <2>1, <2>4
<1>12. CASE _set_not_busy(g)
  <2>1. ServerTypeOK'
    BY <1>12 DEF _set_not_busy, goalVars, ServerTypeOK
  <2>2. ProgramsTypeOK'
    BY <1>12 DEF _set_not_busy, ProgramsTypeOK, programVars, mainVars,
       serviceVars, controlVars
  <2> QED
    BY <1>0, <2>1, <2>2
<1> QED
  BY <1>2, <1>6, <1>7, <1>8, <1>9, <1>10, <1>11, <1>12 DEF Thread

(* The cancel callback and the node.                                       *)
LEMMA CallbackTypes ==
  ASSUME Types, UNCHANGED <<left, dropped>>,
         \/ \E g \in Goals : cancel_callback(g) /\ UNCHANGED nodeVars
         \/ (cancel_accepted \/ cancel_rejected) /\ UNCHANGED nodeVars
         \/ NodeStep /\ UNCHANGED serverVars
  PROVE  Types'
<1> USE DEF Types
<1>1. ASSUME NEW g \in Goals, cancel_callback(g), UNCHANGED nodeVars PROVE Types'
  <2>1. ServerTypeOK' /\ NodeTypeOK'
    BY <1>1 DEF cancel_callback, SendAbort, goalVars, threadVars, ServerTypeOK,
       nodeVars, NodeTypeOK
  <2>2. "abortMotion" \in Events
    BY DEF Events
  <2>3. /\ ctl_in' \in Seq(Events) /\ ctl_out' \in Seq(Events)
        /\ control' \in Clients \cup {"none", "lost"}
    BY <1>1, <2>2, ServerAssumption, ShortSequences
       DEF cancel_callback, SendAbort, setup_connection, ProgramsTypeOK
  <2>4. ProgramsTypeOK'
    BY <1>1, <2>3 DEF cancel_callback, ProgramsTypeOK, mainVars, serviceVars
  <2> QED
    BY <2>1, <2>4
<1>2. CASE cancel_accepted /\ UNCHANGED nodeVars
  <2>1. ServerTypeOK' /\ NodeTypeOK'
    BY <1>2 DEF cancel_accepted, threadVars, ServerTypeOK, nodeVars, NodeTypeOK
  <2>2. ProgramsTypeOK'
    BY <1>2, ShortSequences DEF cancel_accepted, ProgramsTypeOK, mainVars,
       serviceVars
  <2> QED
    BY <2>1, <2>2
<1>3. CASE cancel_rejected /\ UNCHANGED nodeVars
  <2>1. ServerTypeOK' /\ NodeTypeOK'
    BY <1>3 DEF cancel_rejected, goalVars, threadVars, ServerTypeOK, nodeVars,
       NodeTypeOK
  <2>2. ProgramsTypeOK'
    BY <1>3 DEF cancel_rejected, ProgramsTypeOK, programVars, mainVars,
       serviceVars, controlVars
  <2> QED
    BY <2>1, <2>2
<1>4. CASE NodeStep /\ UNCHANGED serverVars
  <2>1. ServerTypeOK'
    BY <1>4 DEF serverVars, goalVars, threadVars, ServerTypeOK
  <2>2. NodeTypeOK'
    <3>1. CASE control_answered
      BY <3>1, ShortSequences DEF control_answered, NodeTypeOK, ProgramsTypeOK
    <3>2. CASE control_fails
      BY <3>2 DEF control_fails, CloseControl, NodeTypeOK
    <3> QED
      BY <1>4, <3>1, <3>2 DEF NodeStep
  <2>3. ProgramsTypeOK'
    <3>1. /\ control' \in Clients \cup {"none", "lost"}
          /\ ctl_in' = ctl_in /\ ctl_out' \in Seq(Events)
      BY <1>4, ShortSequences DEF NodeStep, control_answered, control_fails,
         CloseControl, ControlClosed, ProgramsTypeOK
    <3>2. UNCHANGED <<mainVars, serviceVars, events>>
      BY <1>4 DEF NodeStep, control_answered, control_fails, NodeFrame
    <3> QED BY <3>1, <3>2 DEF ProgramsTypeOK, mainVars, serviceVars
  <2> QED
    BY <2>1, <2>2, <2>3
<1> QED
  BY <1>1, <1>2, <1>3, <1>4

(* The controller programs.                                                *)
LEMMA ProgramTypes ==
  ASSUME Types, MainEnd, ProgramStep,
         UNCHANGED <<serverVars, nodeVars, left, dropped>>
  PROVE  Types'
<1>0. ServerTypeOK' /\ NodeTypeOK' /\ left' \in BudgetType /\ dropped' \in BOOLEAN
  BY DEF Types, serverVars, goalVars, threadVars, ServerTypeOK, nodeVars,
     NodeTypeOK
<1> SUFFICES ProgramsTypeOK'
  BY <1>0 DEF Types
<1>1. /\ ProgramsTypeOK
      /\ command \in Command \/ state \in {"setup", "idle"}
  BY DEF Types, MainEnd
<1>2. ASSUME NEW k \in Finals \cup {"JOINTS", "PATH_EVENT"}, Answer(k),
             state \notin {"setup", "idle"}
      PROVE  cmd_out' \in Seq(Message)
  BY <1>2, WrittenType DEF Answer
<1> USE DEF ProgramsTypeOK
<1>3. CASE get_command
  <2>1. Head(cmd_in) \in Command \cup Start /\ Head(cmd_in).op # "start"
    BY <1>1, <1>3 DEF get_command, MainEnd
  <2>2. command' \in Command
    BY <1>3, <2>1 DEF get_command, Command, Start
  <2>3. cmd_in' \in Seq(Command \cup Start)
    BY <1>1, <1>3 DEF get_command
  <2> QED
    BY <1>1, <1>3, <2>2, <2>3 DEF get_command, serviceVars, controlVars
<1>4. CASE SendEcho
  <2>1. cmd_out' \in Seq(Message)
    BY <1>4, WrittenType DEF SendEcho
  <2> QED
    BY <1>1, <1>4, <2>1 DEF SendEcho, serviceVars, controlVars
<1>5. CASE can_start
  <2>1. cmd_in' \in Seq(Command \cup Start)
    <3>1. CASE cmd_in # <<>> /\ cmd_in' = Tail(cmd_in)
      BY <1>1, <3>1
    <3> QED
      BY <1>1, <1>5, <3>1 DEF can_start
  <2> QED
    BY <1>1, <1>5, <2>1 DEF can_start, serviceVars, controlVars
<1>6. CASE SendQueried
  BY <1>1, <1>2, <1>6 DEF SendQueried, serviceVars, controlVars
<1>7. CASE reset_abort
  BY <1>1, <1>7 DEF reset_abort, controlVars
<1>8. CASE call_service
  <2>1. cmd_out' \in Seq(Message) /\ state' \in {"error", "idle", "admitted"}
    BY <1>1, <1>2, <1>8 DEF call_service, CallRefused, CallAborted, CallAdmitted,
       Finals
  <2> QED
    BY <1>1, <1>8, <2>1 DEF call_service, serviceVars, controlVars
<1>9. CASE ApplyUpload
  <2>1. cmd_out' \in Seq(Message)
    BY <1>2, <1>9 DEF ApplyUpload, Finals
  <2>2. command.goal \in Goals /\ PathId[command.goal] \in Nat
    BY <1>1, <1>9, ProgramsAssumption DEF ApplyUpload, Command
  <2>3. /\ path_state' \in {"none", "uploading", "ready"}
        /\ active_path_id' \in Nat /\ path_goal' \in Goals \cup {NoGoal}
    BY <1>1, <1>9, <2>2 DEF ApplyUpload
  <2> QED
    BY <1>1, <1>9, <2>1, <2>3 DEF ApplyUpload, controlVars
<1>10. CASE StartMotion
  <2>1. command.goal \in Goals
    BY <1>1, <1>10 DEF StartMotion, Command
  <2> QED
    BY <1>1, <1>10, <2>1 DEF StartMotion, controlVars
<1>11. CASE MotionReturns
  <2>1. ResultOfMotion \in Finals
    BY DEF ResultOfMotion, Finals
  <2>2. cmd_out' \in Seq(Message)
    BY <1>2, <1>11, <2>1 DEF MotionReturns
  <2> QED
    BY <1>1, <1>11, <2>2 DEF MotionReturns, serviceVars, controlVars
<1>12. CASE ReachTarget
  BY <1>1, <1>12 DEF ReachTarget, mainVars, controlVars
<1>13. CASE report_path_event
  <2>1. cmd_out' \in Seq(Message)
    BY <1>2, <1>13 DEF report_path_event, MainEnd
  <2> QED
    BY <1>1, <1>13, <2>1 DEF report_path_event, serviceVars, controlVars
<1>14. CASE ConditionHandler
  <2>1. CASE request_abort  BY <1>1, <2>1 DEF request_abort, mainVars
  <2>2. ASSUME NEW e \in Events, NEW l \in BOOLEAN, LockHandler(e, l) PROVE ProgramsTypeOK'
    BY <1>1, <2>2 DEF LockHandler, mainVars
  <2>3. "pauseMotion" \in Events /\ "resumeMotion" \in Events
    BY DEF Events
  <2> QED BY <1>14, <2>1, <2>2, <2>3 DEF ConditionHandler
<1>15. CASE process_control_command
  <2>1. ctl_in' \in Seq(Events) /\ ctl_out' \in Seq(Events) /\ events' \subseteq Events
    BY <1>1, <1>15, ShortSequences DEF process_control_command
  <2> QED
    BY <1>1, <1>15, <2>1 DEF process_control_command, mainVars, serviceVars
<1>16. CASE OperatorResumes
  BY <1>1, <1>16 DEF OperatorResumes, serviceVars, controlVars
<1> QED
  BY <1>3, <1>4, <1>5, <1>6, <1>7, <1>8, <1>9, <1>10, <1>11, <1>12, <1>13,
     <1>14, <1>15, <1>16 DEF ProgramStep, MainStep

(* The threads, the callbacks, the programs and what comes from outside.   *)
LEMMA TypesStep ==
  ASSUME Types, MainEnd, [Next]_vars
  PROVE  Types'
<1>1. CASE UNCHANGED vars
  BY <1>1 DEF vars, programVars, mainVars, serviceVars, controlVars, serverVars,
     goalVars, threadVars, nodeVars, Types, ProgramsTypeOK, ServerTypeOK,
     NodeTypeOK
<1>2. CASE ServerStep /\ UNCHANGED <<nodeVars, left, dropped>>
  BY <1>2, ThreadTypes, CallbackTypes DEF ServerStep
<1>3. CASE NodeStep /\ UNCHANGED <<serverVars, left, dropped>>
  BY <1>3, CallbackTypes
<1>4. CASE ProgramStep /\ UNCHANGED <<serverVars, nodeVars, left, dropped>>
  BY <1>4, ProgramTypes
<1> QED
  BY <1>1, <1>2, <1>3, <1>4, OutsideTypes DEF Next

-----------------------------------------------------------------------------
(***************************************************************************)
(* One thread at a time.                                                   *)
(***************************************************************************)

(* A step of a thread changes the place of this thread only, keeps the     *)
(* server busy until it is gone and stays with the commands of its goal.   *)
LEMMA ThreadEffect ==
  ASSUME Types, OneThread, NEW g \in Goals, Thread(g)
  PROVE  /\ pc[g] # "none" /\ kind' = kind
         /\ \A h \in Goals \ {g} : /\ pc'[h] = pc[h] /\ op'[h] = op[h]
                                   /\ goal'[h] = goal[h]
         /\ goal'[g] = "new" => goal[g] = "new"
         /\ pc'[g] # "none" => /\ busy' = busy
                               /\ op'[g] \in PathOps <=> op[g] \in PathOps
<1> DEFINE Kept ==
       /\ pc[g] # "none" /\ kind' = kind /\ busy' = busy
       /\ \A h \in Goals \ {g} : /\ pc'[h] = pc[h] /\ op'[h] = op[h]
                                 /\ goal'[h] = goal[h]
       /\ goal'[g] = "new" => goal[g] = "new"
       /\ op'[g] \in PathOps <=> op[g] \in PathOps
<1> USE DEF Types, ServerTypeOK
<1>1. ASSUME NEW s \in Ended, End(g, s), pc[g] # "none", busy' = busy PROVE Kept
  BY <1>1 DEF End, Ended
<1>2. ASSUME NEW s, Withdraw(g, s), op[g] \in UploadOps, pc[g] # "none", busy' = busy
      PROVE  Kept
  BY <1>2 DEF Withdraw, PathOps
<1>3. ASSUME NEW l, NEW o, Goto(g, l, o), pc[g] # "none", busy' = busy,
             o \in PathOps <=> op[g] \in PathOps
      PROVE  Kept
  BY <1>3 DEF Goto, goalVars
<1>4. ASSUME Exception(g), pc[g] # "none", busy' = busy PROVE Kept
  BY <1>1, <1>2, <1>3, <1>4 DEF Exception, AfterException, Ended
<1>5. \A o \in UploadOps : NextOp[o] \in PathOps /\ o \in PathOps
  BY DEF UploadOps, NextOp, PathOps
<1>6. ASSUME UNCHANGED <<goalVars, threadVars>>, pc[g] # "none", busy' = busy PROVE Kept
  BY <1>6 DEF goalVars, threadVars
<1> HIDE DEF Kept
<1>7. ASSUME cancel_upload(g) PROVE Kept
  BY <1>2, <1>7 DEF cancel_upload, CancelSeen, ThreadFrame
<1>8. ASSUME send_command(g) PROVE Kept
  BY <1>3, <1>4, <1>8 DEF send_command, ThreadFrame
<1>9. ASSUME recv_echo(g) PROVE Kept
  BY <1>3, <1>4, <1>9 DEF recv_echo, ThreadFrame
<1>10. ASSUME recv_fails(g) PROVE Kept
  BY <1>4, <1>10 DEF recv_fails, Waiting, ThreadFrame
<1>11. ASSUME recv_final(g) PROVE Kept
  <2>1. pc[g] # "none" /\ busy' = busy
    BY <1>11 DEF recv_final, ThreadFrame
  <2>2. CASE PathAnswer(g, Head(cmd_out).kind)
    BY <1>1, <1>3, <1>4, <1>5, <1>6, <2>1, <2>2 DEF PathAnswer, Ended
  <2>3. CASE SingleAnswer(g, Head(cmd_out).kind)
    BY <1>1, <2>1, <2>3 DEF SingleAnswer, Ended
  <2> QED
    BY <1>11, <2>2, <2>3 DEF recv_final
<1>12. ASSUME stop_motion(g) PROVE Kept
  BY <1>1, <1>3, <1>12 DEF stop_motion, Ended
<1>13. ASSUME stop_answered(g) PROVE Kept
  BY <1>1, <1>13 DEF stop_answered, Ended
<1>14. CASE _set_not_busy(g)
  BY <1>14 DEF _set_not_busy, goalVars
<1> QED
  BY <1>7, <1>8, <1>9, <1>10, <1>11, <1>12, <1>13, <1>14 DEF Thread, Kept

LEMMA OneThreadStep ==
  ASSUME Types, OneThread, [Next]_vars
  PROVE  OneThread'
<1> USE DEF Types, ServerTypeOK
<1>1. CASE UNCHANGED <<busy, goal, kind, pc, op>>
  BY <1>1 DEF OneThread
<1>2. ASSUME NEW g \in Goals, NEW k \in GoalKinds, RequestGoal(g, k)
      PROVE  OneThread'
  <2>1. k = "path" <=> FirstOp[k] \in PathOps
    BY DEF GoalKinds, FirstOp, PathOps, UploadOps
  <2>2. goal[g] = "new" /\ kind' = [kind EXCEPT ![g] = k]
    BY <1>2 DEF RequestGoal, goal_callback
  <2>3. CASE /\ _reserve_server
             /\ goal' = [goal EXCEPT ![g] = "executing"]
             /\ pc' = [pc EXCEPT ![g] = "next"]
             /\ op' = [op EXCEPT ![g] = FirstOp[k]]
    BY <2>1, <2>2, <2>3 DEF _reserve_server, OneThread
  <2>4. CASE busy /\ goal' = [goal EXCEPT ![g] = "rejected"]
             /\ UNCHANGED <<busy, threadVars>>
    BY <2>2, <2>4 DEF OneThread, threadVars
  <2> QED
    BY <1>2, <2>3, <2>4 DEF RequestGoal, goal_callback
<1>3. ASSUME NEW g \in Goals, Thread(g) PROVE OneThread'
  BY <1>3, ThreadEffect DEF OneThread
<1>4. CASE \E e \in Events : RequestControl(e)
  BY <1>1, <1>4 DEF RequestControl, serverVars, goalVars, threadVars
<1>5. CASE Restart \/ Lose \/ UNCHANGED vars
  BY <1>1, <1>5 DEF Restart, Lose, vars, serverVars, goalVars, threadVars
<1>6. CASE \E g \in Goals : cancel_callback(g)
  BY <1>1, <1>6 DEF cancel_callback, goalVars, threadVars
<1>7. CASE cancel_accepted \/ cancel_rejected
  BY <1>1, <1>7 DEF cancel_accepted, cancel_rejected, goalVars, threadVars
<1>8. CASE (NodeStep \/ ProgramStep) /\ UNCHANGED serverVars
  BY <1>1, <1>8 DEF serverVars, goalVars, threadVars
<1> QED
  BY <1>2, <1>3, <1>4, <1>5, <1>6, <1>7, <1>8 DEF Next, ServerStep

-----------------------------------------------------------------------------
(***************************************************************************)
(* The handshake: what the client does.                                    *)
(***************************************************************************)

Ends == ClientEnd /\ MainEnd /\ SamePlace

LEMMA OneWaits ==
  ASSUME OneThread, NEW g \in Goals, pc[g] # "none"
  PROVE  \A h \in Goals : Waiting(h) => h = g
BY DEF OneThread, Waiting

(* A step that leaves the connection and every waiting thread alone.        *)
LEMMA QuietStep ==
  ASSUME Ends, UNCHANGED <<cmd_sock, lun, cmd_in, cmd_out, state, command>>,
         arm' \in {arm, NoGoal},
         \A h \in Goals : \/ pc'[h] = pc[h] /\ op'[h] = op[h]
                          \/ ~Waiting(h) /\ ~Waiting(h)'
  PROVE  Ends'
<1>1. \A h \in Goals : /\ Waiting(h)' <=> Waiting(h)
                       /\ Waiting(h) => pc'[h] = pc[h] /\ op'[h] = op[h]
  BY DEF Waiting
<1>2. NoneWaiting' <=> NoneWaiting
  BY <1>1 DEF NoneWaiting
<1>3. \A h \in Goals : pc[h] = "echo" \/ pc[h] = "final" <=> Waiting(h)
  BY DEF Waiting
<1>4. \A h \in Goals : pc'[h] = "echo" \/ pc'[h] = "final" <=> Waiting(h)'
  BY DEF Waiting
<1>5. ClientEnd'
  BY <1>1, <1>2, <1>3, <1>4 DEF Ends, ClientEnd, FinalShape, Echo, Cmd
<1>6. MainEnd'
  BY DEF Ends, MainEnd
<1>7. SamePlace'
  BY <1>1, <1>2, <1>3, <1>4 DEF Ends, SamePlace, EchoPlace, FinalPlace, Cmd, Go
<1> QED
  BY <1>5, <1>6, <1>7 DEF Ends

(* A step that closes the connection while no other thread waits.          *)
LEMMA ClosedStep ==
  ASSUME Ends, CloseCommand, UNCHANGED <<cmd_in, state, command, arm>>,
         NoneWaiting', MaxEvents \in Nat
  PROVE  Ends'
<1>1. cmd_sock' = FALSE /\ lun' # "open" /\ cmd_out' = <<>>
  BY DEF CloseCommand, CommandClosed
<1>2. \A h \in Goals : pc'[h] # "echo" /\ pc'[h] # "final"
  BY DEF NoneWaiting, Waiting
<1> QED
  BY <1>1, <1>2 DEF Ends, ClientEnd, MainEnd, SamePlace, Waiting

LEMMA ExceptionStep ==
  ASSUME Types, OneThread, Ends, NEW g \in Goals, pc[g] # "none", Exception(g),
         UNCHANGED <<cmd_in, state, command, arm>>
  PROVE  Ends'
<1>1. \A h \in Goals \ {g} : pc[h] = "none"
  BY DEF OneThread
<1>2. NoneWaiting'
  BY <1>1 DEF Exception, AfterException, Withdraw, End, Goto, NoneWaiting,
     Waiting, Types, ServerTypeOK
<1> QED
  BY <1>2, ClosedStep, ProgramsAssumption DEF Exception

LEMMA SendStep ==
  ASSUME Types, OneThread, Ends, NEW g \in Goals, send_command(g)
  PROVE  Ends'
<1> USE ProgramsAssumption
<1>1. /\ pc[g] = "next" /\ UNCHANGED <<command, arm>>
      /\ Cmd(g) \in Command /\ op[g] # "start"
  BY DEF send_command, serviceVars, Types, ServerTypeOK, Cmd, Command, Ops,
     QueryOps, MotionOps, UploadOps
<1>2. NoneWaiting
  BY <1>1, OneWaits DEF NoneWaiting, Waiting
<1>3. ASSUME Goto(g, "echo", op[g])
      PROVE  /\ \A h \in Goals : Waiting(h)' <=> h = g
             /\ pc'[g] = "echo" /\ op' = op /\ ~NoneWaiting'
  BY <1>2, <1>3 DEF Goto, NoneWaiting, Waiting, Types, ServerTypeOK
<1>4. \A h \in Goals : pc'[h] \in {"echo", "final"} <=> Waiting(h)'
  BY DEF Waiting
<1>5. CASE /\ cmd_sock /\ Send(g, Cmd(g)) /\ Goto(g, "echo", op[g])
           /\ UNCHANGED <<cmd_sock, state, lun, cmd_out>>
  <2>1. cmd_out = <<>> /\ (lun = "open" => state = "idle" /\ cmd_in = <<>>)
    BY <1>2, <1>5 DEF Ends, ClientEnd, SamePlace
  <2>2. lun = "open" => cmd_in' = <<Cmd(g)>>
    BY <1>5, <2>1 DEF Send
  <2>3. lun # "open" => cmd_in' = cmd_in
    BY <1>5 DEF Send
  <2>4. ClientEnd'
    BY <1>3, <1>4, <1>5, <2>1 DEF Ends, ClientEnd
  <2>5. MainEnd'
    <3>1. CASE lun = "open"
      <4>1. Len(cmd_in') <= 1 /\ Head(cmd_in').op # "start"
        BY <1>1, <2>2, <3>1 DEF Cmd
      <4> QED
        BY <1>1, <1>5, <2>1, <3>1, <4>1 DEF Ends, MainEnd
    <3>2. CASE lun # "open"
      BY <1>1, <1>5, <2>3, <3>2 DEF Ends, MainEnd
    <3> QED
      BY <3>1, <3>2
  <2>6. SamePlace'
    BY <1>3, <1>4, <1>5, <2>1, <2>2 DEF SamePlace, EchoPlace, Cmd
  <2> QED
    BY <2>4, <2>5, <2>6 DEF Ends
<1>6. CASE /\ ~cmd_sock /\ Accepting /\ setup
           /\ cmd_in' = <<Cmd(g)>> /\ Goto(g, "echo", op[g])
           /\ cmd_sock' = TRUE
  <2>1. state = "setup" /\ state' = "idle" /\ lun' = "open" /\ cmd_out' = <<>>
    BY <1>6 DEF Accepting, setup
  <2>2. ClientEnd'
    BY <1>3, <1>4, <1>6, <2>1 DEF ClientEnd
  <2>3. MainEnd'
    BY <1>1, <1>6, <2>1 DEF Ends, MainEnd, Cmd
  <2>4. SamePlace'
    BY <1>3, <1>4, <1>6, <2>1 DEF SamePlace, EchoPlace, Cmd
  <2> QED
    BY <2>2, <2>3, <2>4 DEF Ends
<1>7. CASE Exception(g) /\ UNCHANGED <<state, cmd_in>>
  BY <1>1, <1>7, ExceptionStep
<1> QED
  BY <1>5, <1>6, <1>7 DEF send_command

LEMMA EchoStep ==
  ASSUME Types, OneThread, Ends, NEW g \in Goals, recv_echo(g)
  PROVE  Ends'
<1> USE ProgramsAssumption
<1>1. /\ pc[g] = "echo" /\ UNCHANGED <<state, command, arm>>
      /\ cmd_sock /\ cmd_out = <<Echo(g)>>
  BY DEF recv_echo, TakeAnswer, serviceVars, Ends, ClientEnd
<1>2. CASE Exception(g) /\ UNCHANGED cmd_in
  BY <1>1, <1>2, ExceptionStep
<1>3. CASE /\ Send(g, [op |-> "start", goal |-> g]) /\ Goto(g, "final", op[g])
           /\ cmd_out' = Tail(cmd_out) /\ UNCHANGED <<cmd_sock, lun>>
  <2>1. /\ \A h \in Goals : Waiting(h)' <=> h = g
        /\ pc'[g] = "final" /\ op' = op /\ ~NoneWaiting'
    BY <1>1, <1>3, OneWaits DEF Goto, NoneWaiting, Waiting, Types, ServerTypeOK
  <2>2. \A h \in Goals : pc'[h] \in {"echo", "final"} <=> Waiting(h)'
    BY DEF Waiting
  <2>3. cmd_out' = <<>>
    BY <1>1, <1>3
  <2>4. lun = "open" => state = "echoed" /\ command = Cmd(g) /\ cmd_in = <<>>
    BY <1>1 DEF Ends, SamePlace, EchoPlace
  <2>5. lun = "open" => cmd_in' = <<Go(g)>>
    BY <1>3, <2>4 DEF Send, Go
  <2>6. lun # "open" => cmd_in' = cmd_in
    BY <1>3 DEF Send
  <2>7. ClientEnd'
    BY <1>1, <1>3, <2>1, <2>2, <2>3 DEF Ends, ClientEnd, FinalShape
  <2>8. MainEnd'
    <3>1. CASE lun = "open"
      <4>1. Len(<<Go(g)>>) = 1
        OBVIOUS
      <4>2. Len(cmd_in') = 1
        BY <2>5, <3>1, <4>1, Zenon
      <4>3. state' = "echoed" /\ command' \in Command /\ arm' = NoGoal
        BY <1>1, <2>4, <3>1 DEF Ends, MainEnd
      <4> QED
        BY <4>2, <4>3, SMT DEF MainEnd
    <3>2. CASE lun # "open"
      BY <1>1, <2>6, <3>2 DEF Ends, MainEnd
    <3> QED
      BY <3>1, <3>2
  <2>9. SamePlace'
    BY <1>1, <1>3, <2>1, <2>2, <2>3, <2>4, <2>5 DEF SamePlace, FinalPlace, Cmd, Go
  <2> QED
    BY <2>7, <2>8, <2>9 DEF Ends
<1> QED
  BY <1>2, <1>3 DEF recv_echo

(* An answer other than a PATH_EVENT is the last message there is.         *)
LEMMA LastAnswer ==
  ASSUME Types, Ends, NEW g \in Goals, pc[g] = "final", cmd_sock, cmd_out # <<>>,
         Head(cmd_out).kind # "PATH_EVENT"
  PROVE  /\ Tail(cmd_out) = <<>>
         /\ lun = "open" => /\ state \in {"idle", "error"} /\ cmd_in = <<>>
                            /\ state = "error" => /\ op[g] = "unknown"
                                                  /\ Head(cmd_out).kind = "ERROR"
<1>1. cmd_out \in Seq(Message) /\ Len(cmd_out) \in Nat /\ Len(cmd_out) > 0
      /\ Head(cmd_out) = cmd_out[1]
  BY EmptySeq, LenProperties DEF Types, ProgramsTypeOK
<1>2. FinalShape(g)
  BY DEF Ends, ClientEnd
<1>3. Len(cmd_out) = 1
  <2>1. 1 \in 1 .. Len(cmd_out) /\ cmd_out[1].kind # "PATH_EVENT"
    BY <1>1
  <2>2. ~(1 < Len(cmd_out))
    BY <1>2, <2>1 DEF FinalShape
  <2>3. \A n \in Nat : n > 0 /\ ~(1 < n) => n = 1
    OBVIOUS
  <2> QED
    BY <1>1, <2>2, <2>3
<1>4. Tail(cmd_out) = <<>>
  <2>1. Tail(cmd_out) \in Seq(Message) /\ Len(Tail(cmd_out)) = 0
    BY <1>1, <1>3
  <2> QED
    BY <2>1, EmptySeq
<1>5. lun = "open" => FinalPlace(g)
  BY DEF Ends, SamePlace
<1> QED
  BY <1>1, <1>3, <1>4, <1>5 DEF FinalPlace

(* The answer is taken and the thread waits no more.                       *)
LEMMA FinalTaken ==
  ASSUME Types, OneThread, Ends, NEW g \in Goals, pc[g] = "final", cmd_sock,
         cmd_out # <<>>, Head(cmd_out).kind # "PATH_EVENT",
         lun = "open" => state # "error", ~Waiting(g)',
         \A h \in Goals \ {g} : pc'[h] = pc[h],
         UNCHANGED <<cmd_sock, lun, cmd_in, state, command, arm>>,
         cmd_out' = Tail(cmd_out), MaxEvents \in Nat
  PROVE  Ends'
<1>1. \A h \in Goals : ~Waiting(h)'
  BY OneWaits DEF Waiting
<1>2. NoneWaiting' /\ \A h \in Goals : pc'[h] # "echo" /\ pc'[h] # "final"
  BY <1>1 DEF NoneWaiting, Waiting
<1>3. Tail(cmd_out) = <<>> /\ (lun = "open" => state = "idle" /\ cmd_in = <<>>)
  BY LastAnswer
<1>4. cmd_out' = <<>> /\ Len(cmd_out') = 0
  BY <1>3
<1> QED
  BY <1>1, <1>2, <1>3, <1>4 DEF Ends, ClientEnd, MainEnd, SamePlace

(* A PATH_EVENT is taken and the thread waits on.                          *)
LEMMA EventTaken ==
  ASSUME Types, OneThread, Ends, NEW g \in Goals, pc[g] = "final", cmd_sock,
         cmd_out # <<>>, Head(cmd_out).kind = "PATH_EVENT",
         UNCHANGED <<pc, op, cmd_sock, lun, cmd_in, state, command, arm>>,
         cmd_out' = Tail(cmd_out), MaxEvents \in Nat
  PROVE  Ends'
<1>1. cmd_out \in Seq(Message) /\ Len(cmd_out) \in Nat /\ Len(cmd_out) > 0
      /\ Head(cmd_out) = cmd_out[1]
  BY EmptySeq, LenProperties DEF Types, ProgramsTypeOK
<1>2. /\ Len(cmd_out') = Len(cmd_out) - 1
      /\ \A i \in 1 .. Len(cmd_out') : cmd_out'[i] = cmd_out[i + 1]
                                     /\ i + 1 \in 1 .. Len(cmd_out)
  BY <1>1, HeadTailProperties
<1>3. \A h \in Goals : Waiting(h) <=> h = g
  BY OneWaits DEF Waiting
<1>4. \A h \in Goals : /\ Waiting(h)' <=> h = g
                       /\ pc'[h] \in {"echo", "final"} <=> h = g
                       /\ pc[h] \in {"echo", "final"} <=> h = g
  BY <1>3 DEF Waiting
<1>5. ~NoneWaiting' /\ ~NoneWaiting
  BY <1>3, <1>4 DEF NoneWaiting
<1>6. FinalShape(g) /\ (lun = "open" => FinalPlace(g))
  BY DEF Ends, ClientEnd, SamePlace
<1>7. FinalShape(g)'
  BY <1>1, <1>2, <1>6 DEF FinalShape, Cmd
<1>8. lun = "open" => FinalPlace(g)'
  <2> SUFFICES ASSUME lun = "open" PROVE FinalPlace(g)'
    OBVIOUS
  <2>1. state # "echoed"
    BY <1>6 DEF FinalPlace, Serving
  <2>2. CASE state \in Serving
    BY <1>1, <1>2, <1>6, <2>2 DEF FinalPlace, Cmd, Serving
  <2>3. CASE state \in {"idle", "error"}
    <3>1. /\ cmd_in = <<>> /\ cmd_out[Len(cmd_out)].kind # "PATH_EVENT"
          /\ state = "error" => /\ op[g] = "unknown"
                                /\ cmd_out[Len(cmd_out)].kind = "ERROR"
      BY <1>6, <2>3 DEF FinalPlace, Serving
    <3>2. Len(cmd_out) > 1
      BY <1>1, <3>1
    <3>3. /\ cmd_out' # <<>> /\ Len(cmd_out') \in 1 .. Len(cmd_out')
          /\ cmd_out'[Len(cmd_out')] = cmd_out[Len(cmd_out)]
      <4>1. Len(cmd_out') = Len(cmd_out) - 1 /\ Len(cmd_out') > 0
            /\ Len(cmd_out') \in Nat
        BY <1>1, <1>2, <3>2
      <4>2. Len(cmd_out') \in 1 .. Len(cmd_out') /\ Len(cmd_out') + 1 = Len(cmd_out)
        BY <1>1, <4>1
      <4>3. cmd_out'[Len(cmd_out')] = cmd_out[Len(cmd_out)]
        BY <1>2, <4>2
      <4>4. cmd_out' # <<>>
        BY <4>1
      <4> QED
        BY <4>2, <4>3, <4>4
    <3> QED
      BY <2>3, <3>1, <3>3 DEF FinalPlace
  <2> QED
    BY <1>6, <2>1, <2>2, <2>3 DEF FinalPlace
<1>9. Len(cmd_out') <= MaxEvents + 1
  BY <1>1, <1>2 DEF Ends, ClientEnd
<1> QED
  BY <1>4, <1>5, <1>7, <1>8, <1>9 DEF Ends, ClientEnd, MainEnd, SamePlace

LEMMA FinalStep ==
  ASSUME Types, OneThread, Ends, NEW g \in Goals, recv_final(g)
  PROVE  Ends'
<1> DEFINE m == Head(cmd_out)
<1>1. /\ pc[g] = "final" /\ cmd_sock /\ cmd_out # <<>>
      /\ UNCHANGED <<cmd_in, state, command, arm>>
      /\ cmd_out' = IF cmd_sock' THEN Tail(cmd_out) ELSE <<>>
  BY DEF recv_final, TakeAnswer, serviceVars
<1>2. /\ m.kind = "PATH_EVENT" => op[g] = "executePath"
      /\ m.kind = "JOINTS" => op[g] \in QueryOps
      /\ m.kind # "echo" /\ m \in Message
  <2>1. cmd_out \in Seq(Message) /\ 1 \in 1 .. Len(cmd_out) /\ m = cmd_out[1]
    BY <1>1, EmptySeq, LenProperties DEF Types, ProgramsTypeOK
  <2>2. FinalShape(g)
    BY <1>1 DEF Ends, ClientEnd
  <2> QED
    BY <2>1, <2>2 DEF FinalShape
<1>3. kind[g] = "path" <=> op[g] \in PathOps
  BY <1>1 DEF OneThread
<1> HIDE DEF m
<1>4. ASSUME UNCHANGED <<cmd_sock, lun>>, m.kind # "PATH_EVENT",
             m.kind # "ERROR" \/ op[g] # "unknown",
             \/ \E s \in Ended : End(g, s)
             \/ \E o \in Ops : Goto(g, "next", o)
      PROVE  Ends'
  <2>1. ~Waiting(g)' /\ \A h \in Goals \ {g} : pc'[h] = pc[h]
    BY <1>1, <1>4 DEF End, Goto, Waiting, Types, ServerTypeOK
  <2>2. lun = "open" => state # "error"
    BY <1>1, <1>4, LastAnswer DEF m
  <2> QED
    BY <1>1, <1>4, <2>1, <2>2, FinalTaken, ProgramsAssumption DEF m
<1>5. ASSUME \E s \in Ended : End(g, s), CloseCommand PROVE Ends'
  <2>1. NoneWaiting'
    BY <1>1, <1>5, OneWaits DEF End, NoneWaiting, Waiting, Types, ServerTypeOK
  <2> QED
    BY <1>1, <1>5, <2>1, ClosedStep, ProgramsAssumption
<1>6. ASSUME Exception(g) PROVE Ends'
  BY <1>1, <1>6, ExceptionStep
<1>7. {"succeeded", "aborted", "canceled"} \subseteq Ended /\ outcome[g] \in Ended
      /\ \A o \in UploadOps : NextOp[o] \in Ops
  BY DEF Ended, Types, ServerTypeOK, UploadOps, NextOp, Ops, MotionOps
<1>8. CASE kind[g] = "path" /\ PathAnswer(g, m.kind)
  <2>1. op[g] \in PathOps /\ op[g] # "unknown"
    BY <1>3, <1>8 DEF PathOps, UploadOps
  <2>2. CASE op[g] = "abortPathUpload"
    BY <1>2, <1>4, <1>7, <1>8, <2>2 DEF PathAnswer
  <2>3. CASE op[g] \in UploadOps
    <3>1. CASE m.kind = "Movement finished"
      BY <1>4, <1>7, <1>8, <2>3, <3>1 DEF PathAnswer, UploadOps
    <3>2. CASE m.kind # "Movement finished"
      BY <1>6, <1>8, <2>3, <3>2 DEF PathAnswer, UploadOps
    <3> QED
      BY <3>1, <3>2
  <2>4. CASE op[g] = "executePath"
    <3>1. CASE m.kind \in {"Movement finished", "Motion aborted"}
      <4>1. CASE m.kind = "Movement finished"
        <5>1. End(g, "succeeded") /\ UNCHANGED <<cmd_sock, lun>>
          BY <1>8, <2>4, <4>1 DEF PathAnswer, UploadOps, Finals
        <5> QED
          BY <1>4, <1>7, <2>4, <4>1, <5>1
      <4>2. CASE m.kind = "Motion aborted"
        <5>1. /\ End(g, IF is_cancel_requested[g] THEN "canceled" ELSE "aborted")
              /\ UNCHANGED <<cmd_sock, lun>>
          BY <1>8, <2>4, <4>2 DEF PathAnswer, UploadOps, Finals
        <5>2. (IF is_cancel_requested[g] THEN "canceled" ELSE "aborted") \in Ended
          BY <1>7
        <5> QED
          BY <1>4, <2>4, <4>2, <5>1, <5>2
      <4> QED
        BY <3>1, <4>1, <4>2
    <3>2. CASE m.kind \notin Finals
      <4>1. m.kind = "PATH_EVENT"
        BY <1>2, <2>4, <3>2 DEF Message, QueryOps
      <4>2. UNCHANGED <<goalVars, threadVars, cmd_sock, lun>>
        BY <1>8, <2>4, <3>2 DEF PathAnswer, UploadOps, Finals
      <4> QED
        BY <1>1, <4>1, <4>2, EventTaken, ProgramsAssumption DEF m, threadVars
    <3>3. CASE m.kind \in {"ERROR", "Movement unavailable"}
      BY <1>6, <1>8, <2>4, <3>3 DEF PathAnswer, UploadOps, Finals
    <3> QED
      BY <3>1, <3>2, <3>3 DEF Finals
  <2> QED
    BY <2>1, <2>2, <2>3, <2>4 DEF PathOps
<1>9. CASE kind[g] # "path" /\ SingleAnswer(g, m.kind)
  <2>1. CASE m.kind \in {"Movement finished", "JOINTS", "Motion aborted",
                         "Movement unavailable"}
    BY <1>4, <1>7, <1>9, <2>1 DEF SingleAnswer
  <2>2. CASE m.kind \notin {"Movement finished", "JOINTS", "Motion aborted",
                            "Movement unavailable"}
    BY <1>5, <1>7, <1>9, <2>2 DEF SingleAnswer
  <2> QED
    BY <2>1, <2>2
<1> QED
  BY <1>8, <1>9 DEF recv_final, m

LEMMA ThreadEnds ==
  ASSUME Types, OneThread, Ends, NEW g \in Goals, Thread(g)
  PROVE  Ends'
<1>1. CASE cancel_upload(g)
  <2>1. /\ UNCHANGED <<cmd_sock, lun, cmd_in, cmd_out, state, command, arm>>
        /\ \A h \in Goals : pc'[h] = pc[h] /\ (h # g => op'[h] = op[h])
        /\ ~Waiting(g) /\ ~Waiting(g)'
    BY <1>1 DEF cancel_upload, CancelSeen, Withdraw, programVars, mainVars,
       serviceVars, Waiting, Types, ServerTypeOK
  <2> QED
    BY <2>1, QuietStep
<1>2. CASE send_command(g)
  BY <1>2, SendStep
<1>3. CASE recv_echo(g)
  BY <1>3, EchoStep
<1>4. CASE recv_final(g)
  BY <1>4, FinalStep
<1>5. CASE recv_fails(g)
  BY <1>5, ExceptionStep DEF recv_fails, Waiting, serviceVars
<1>6. CASE stop_motion(g) \/ stop_answered(g) \/ _set_not_busy(g)
  <2>1. /\ UNCHANGED <<cmd_sock, lun, cmd_in, cmd_out, state, command, arm>>
        /\ pc[g] \in {"stop", "stopping", "finally"}
        /\ pc'[g] \in {"stopping", "finally", "none"}
        /\ \A h \in Goals \ {g} : pc'[h] = pc[h] /\ op'[h] = op[h]
    BY <1>6 DEF stop_motion, stop_answered, _set_not_busy, Goto, End, goalVars,
       programVars, mainVars, serviceVars, Types, ServerTypeOK
  <2>2. ~Waiting(g) /\ ~Waiting(g)'
    BY <2>1 DEF Waiting
  <2> QED
    BY <2>1, <2>2, QuietStep
<1> QED
  BY <1>1, <1>2, <1>3, <1>4, <1>5, <1>6 DEF Thread

-----------------------------------------------------------------------------
(***************************************************************************)
(* The handshake: what the main program does.                              *)
(***************************************************************************)

NoThreadMoves == UNCHANGED <<cmd_sock, pc, op>>

(* While the program serves a connected client, this client waits.         *)
LEMMA ServedClientWaits ==
  ASSUME Ends, lun = "open", state \in Serving
  PROVE  /\ ~NoneWaiting
         /\ \A g \in Goals : pc[g] # "echo"
         /\ \A g \in Goals : pc[g] = "final" =>
              /\ command = Cmd(g) /\ cmd_in = <<>> /\ Len(cmd_out) <= MaxEvents
              /\ \A i \in 1 .. Len(cmd_out) : cmd_out[i].kind = "PATH_EVENT"
BY DEF Ends, SamePlace, EchoPlace, FinalPlace, Serving

(* An answer, after the PATH_EVENTs there may be.                           *)
LEMMA AnswerShape ==
  ASSUME Types, Ends, state \in Serving, MaxEvents \in Nat,
         NEW k \in Finals \cup {"JOINTS", "PATH_EVENT"}, Answer(k), lun = "open",
         k = "JOINTS" => command.op \in QueryOps,
         k = "PATH_EVENT" => command.op = "executePath" /\ Len(cmd_out) < MaxEvents,
         NoThreadMoves
  PROVE  /\ cmd_out' # <<>> /\ Len(cmd_out') = Len(cmd_out) + 1
         /\ cmd_out'[Len(cmd_out')].kind = k
         /\ \A i \in 1 .. Len(cmd_out) : cmd_out'[i] = cmd_out[i]
         /\ ClientEnd'
<1> DEFINE m == [kind |-> k, of |-> command]
<1>1. cmd_out \in Seq(Message) /\ Len(cmd_out) \in Nat
  BY LenProperties DEF Types, ProgramsTypeOK
<1>2. m \in Message
  BY DEF Ends, MainEnd, Serving, Message
<1>3. cmd_out' = Append(cmd_out, m)
  BY DEF Answer, Written
<1> HIDE DEF m
<1>4. /\ Len(cmd_out') = Len(cmd_out) + 1
      /\ \A i \in 1 .. Len(cmd_out) : cmd_out'[i] = cmd_out[i]
      /\ cmd_out'[Len(cmd_out')] = m
  BY <1>1, <1>2, <1>3, AppendProperties
<1>5. cmd_out' # <<>>
  BY <1>1, <1>4
<1>6. m.kind = k /\ m.of = command
  BY DEF m
<1>7. ASSUME NEW g \in Goals, pc[g] = "final" PROVE FinalShape(g)'
  <2>1. /\ command = Cmd(g) /\ op[g] = command.op /\ Cmd(g)' = Cmd(g)
        /\ \A i \in 1 .. Len(cmd_out) : cmd_out[i].kind = "PATH_EVENT"
    BY <1>7, ServedClientWaits DEF Cmd, NoThreadMoves
  <2>2. FinalShape(g)
    BY <1>7 DEF Ends, ClientEnd
  <2>3. ASSUME NEW i \in 1 .. Len(cmd_out)
        PROVE  /\ cmd_out'[i].of = Cmd(g) /\ cmd_out'[i].kind = "PATH_EVENT"
               /\ op[g] = "executePath"
    BY <1>4, <2>1, <2>2, <2>3 DEF FinalShape
  <2>4. k # "echo"
    BY DEF Finals
  <2>5. \A i \in 1 .. Len(cmd_out') : i \in 1 .. Len(cmd_out) \/ i = Len(cmd_out')
    BY <1>1, <1>4
  <2>6. op'[g] = op[g]
    BY DEF NoThreadMoves
  <2>7. ASSUME NEW i \in 1 .. Len(cmd_out')
        PROVE  /\ cmd_out'[i].of = Cmd(g)
               /\ cmd_out'[i].kind # "echo"
               /\ i < Len(cmd_out') => cmd_out'[i].kind = "PATH_EVENT"
               /\ cmd_out'[i].kind = "PATH_EVENT" => op[g] = "executePath"
               /\ cmd_out'[i].kind = "JOINTS" => op[g] \in QueryOps
    <3>1. CASE i \in 1 .. Len(cmd_out)
      BY <2>3, <3>1
    <3>2. CASE i = Len(cmd_out')
      BY <1>1, <1>4, <1>6, <2>1, <2>4, <3>2
    <3> QED
      BY <2>5, <3>1, <3>2
  <2> QED
    BY <2>1, <2>6, <2>7 DEF FinalShape
<1>8. \A g \in Goals : /\ pc[g] = "final" => Len(cmd_out) <= MaxEvents
                       /\ pc'[g] = pc[g] /\ (Waiting(g)' <=> Waiting(g))
  BY ServedClientWaits DEF NoThreadMoves, Waiting
<1>9. Len(cmd_out') <= MaxEvents + 1
  BY <1>1, <1>4, <1>8, ServedClientWaits DEF NoneWaiting, Waiting
<1> QED
  BY <1>4, <1>5, <1>6, <1>7, <1>8, <1>9, ServedClientWaits
     DEF Ends, ClientEnd, NoneWaiting, NoThreadMoves

(* The program answers and is done with the command.                       *)
LEMMA AnswerStep ==
  ASSUME Types, Ends, state \in Serving, arm = NoGoal, MaxEvents \in Nat,
         NEW k \in Finals \cup {"JOINTS"}, Answer(k),
         state' \in {"idle", "error"},
         state' = "error" => k = "ERROR" /\ command.op = "unknown",
         k = "JOINTS" => command.op \in QueryOps,
         UNCHANGED <<command, lun, cmd_in, arm>>, NoThreadMoves
  PROVE  Ends'
<1>1. cmd_in = <<>>
  BY DEF Ends, MainEnd, Serving
<1>2. MainEnd'
  BY <1>1 DEF Ends, MainEnd, Serving
<1>3. CASE lun = "open"
  <2>1. k # "PATH_EVENT"
    BY DEF Finals
  <2>2. /\ cmd_out' # <<>> /\ cmd_out'[Len(cmd_out')].kind = k /\ ClientEnd'
    BY <1>3, <2>1, AnswerShape
  <2>3. \A g \in Goals : pc'[g] = pc[g] /\ (Waiting(g)' <=> Waiting(g)) /\ op'[g] = op[g]
    BY DEF NoThreadMoves, Waiting
  <2>4. ~NoneWaiting' /\ \A g \in Goals : pc'[g] # "echo"
    BY <1>3, <2>3, ServedClientWaits DEF NoneWaiting
  <2>5. ASSUME NEW g \in Goals, pc'[g] = "final" PROVE FinalPlace(g)'
    <3>1. command.op = op'[g]
      BY <1>3, <2>3, <2>5, ServedClientWaits DEF Cmd
    <3> QED
      BY <1>1, <2>1, <2>2, <3>1 DEF FinalPlace
  <2>6. SamePlace'
    BY <2>4, <2>5 DEF SamePlace
  <2> QED
    BY <1>2, <2>2, <2>6 DEF Ends
<1>4. CASE lun # "open"
  BY <1>2, <1>4 DEF Answer, Written, Ends, ClientEnd, SamePlace, FinalShape,
     NoneWaiting, Waiting, Cmd, Echo, NoThreadMoves
<1> QED
  BY <1>3, <1>4

(* The program goes on with the command.                                   *)
LEMMA ServingStep ==
  ASSUME Ends, state \in Serving, state' \in Serving, MaxEvents \in Nat,
         arm' # NoGoal => state' = "moving" /\ command.goal = arm',
         UNCHANGED <<command, lun, cmd_in, cmd_out>>, NoThreadMoves
  PROVE  Ends'
<1>1. ClientEnd'
  BY DEF Ends, ClientEnd, FinalShape, NoneWaiting, Waiting, Cmd, Echo, NoThreadMoves
<1>2. MainEnd'
  BY DEF Ends, MainEnd, Serving
<1>3. SamePlace'
  BY ServedClientWaits DEF SamePlace, FinalPlace, NoneWaiting, Waiting, Cmd,
     NoThreadMoves
<1> QED
  BY <1>1, <1>2, <1>3 DEF Ends

LEMMA EventStep ==
  ASSUME Types, Ends, report_path_event, NoThreadMoves, MaxEvents \in Nat
  PROVE  Ends'
<1>1. /\ state \in Serving /\ lun = "open" /\ Answer("PATH_EVENT")
      /\ command.op = "executePath" /\ Len(cmd_out) < MaxEvents
      /\ UNCHANGED <<state, command, lun, cmd_in, arm>>
  BY DEF report_path_event, Ends, MainEnd, Serving, serviceVars
<1>2. /\ Len(cmd_out') = Len(cmd_out) + 1
      /\ cmd_out'[Len(cmd_out')].kind = "PATH_EVENT"
      /\ \A i \in 1 .. Len(cmd_out) : cmd_out'[i] = cmd_out[i]
      /\ ClientEnd'
  BY <1>1, AnswerShape
<1>3. cmd_out \in Seq(Message) /\ Len(cmd_out) \in Nat
  BY LenProperties DEF Types, ProgramsTypeOK
<1>4. \A g \in Goals : pc'[g] = pc[g] /\ (Waiting(g)' <=> Waiting(g))
  BY DEF NoThreadMoves, Waiting
<1>5. ~NoneWaiting' /\ \A g \in Goals : pc'[g] # "echo"
  BY <1>1, <1>4, ServedClientWaits DEF NoneWaiting
<1>6. ASSUME NEW g \in Goals, pc'[g] = "final" PROVE FinalPlace(g)'
  <2>1. /\ command = Cmd(g) /\ Cmd(g)' = Cmd(g) /\ cmd_in = <<>>
        /\ \A i \in 1 .. Len(cmd_out) : cmd_out[i].kind = "PATH_EVENT"
    BY <1>1, <1>4, <1>6, ServedClientWaits DEF Cmd, NoThreadMoves
  <2>2. Len(cmd_out') <= MaxEvents
    BY <1>1, <1>2, <1>3
  <2>3. \A i \in 1 .. Len(cmd_out') : cmd_out'[i].kind = "PATH_EVENT"
    <3>1. \A i \in 1 .. Len(cmd_out') : i \in 1 .. Len(cmd_out) \/ i = Len(cmd_out')
      BY <1>2, <1>3
    <3> QED
      BY <1>2, <2>1, <3>1
  <2> QED
    BY <1>1, <2>1, <2>2, <2>3 DEF FinalPlace
<1>7. MainEnd' /\ SamePlace'
  BY <1>1, <1>5, <1>6 DEF Ends, MainEnd, SamePlace
<1> QED
  BY <1>2, <1>7 DEF Ends

(* The program reads and echoes.                                           *)
LEMMA LastRead ==
  ASSUME Types, MainEnd, cmd_in # <<>>
  PROVE  Tail(cmd_in) = <<>> /\ Len(Tail(cmd_in)) = 0
<1>1. cmd_in \in Seq(Command \cup Start) /\ Len(cmd_in) \in Nat /\ Len(cmd_in) > 0
  BY EmptySeq, LenProperties DEF Types, ProgramsTypeOK
<1>2. Len(cmd_in) = 1
  <2>1. \A n \in Nat : n > 0 /\ n <= 1 => n = 1
    OBVIOUS
  <2> QED
    BY <1>1, <2>1 DEF MainEnd
<1>3. Tail(cmd_in) \in Seq(Command \cup Start) /\ Len(Tail(cmd_in)) = 0
  BY <1>1, <1>2
<1> QED
  BY <1>3, EmptySeq

LEMMA GetCommandStep ==
  ASSUME Types, Ends, get_command, NoThreadMoves, MaxEvents \in Nat
  PROVE  Ends'
<1>1. /\ state = "idle" /\ state' = "permission" /\ cmd_in # <<>>
      /\ cmd_in' = <<>> /\ Len(cmd_in') = 0
      /\ UNCHANGED <<lun, cmd_out, arm>>
      /\ command' = [op |-> Head(cmd_in).op, goal |-> Head(cmd_in).goal]
  BY LastRead DEF get_command, Ends, serviceVars
<1>2. command' \in Command
  <2>1. Head(cmd_in) \in Command \cup Start /\ Head(cmd_in).op # "start"
    BY <1>1, EmptySeq DEF Types, ProgramsTypeOK, Ends, MainEnd
  <2> QED
    BY <1>1, <2>1 DEF Command, Start
<1>3. ClientEnd'
  BY <1>1 DEF Ends, ClientEnd, FinalShape, NoneWaiting, Waiting, Cmd, Echo,
     NoThreadMoves
<1>4. MainEnd'
  BY <1>1, <1>2 DEF Ends, MainEnd
<1>5. ASSUME NEW g \in Goals, lun = "open"
      PROVE  /\ pc[g] # "final"
             /\ pc[g] = "echo" => command' = Cmd(g) /\ cmd_out = <<>>
  <2>1. CASE pc[g] = "final"
    BY <1>1, <1>5, <2>1 DEF Ends, SamePlace, FinalPlace, Serving
  <2>2. CASE pc[g] = "echo"
    <3>1. cmd_in = <<Cmd(g)>> /\ cmd_out = <<>>
      BY <1>1, <1>5, <2>2 DEF Ends, SamePlace, EchoPlace
    <3>2. Head(cmd_in) = Cmd(g)
      BY <3>1
    <3> QED
      BY <1>1, <2>2, <3>1, <3>2 DEF Cmd
  <2> QED
    BY <2>1, <2>2
<1>6. lun = "open" => ~NoneWaiting
  BY <1>1 DEF Ends, SamePlace
<1>7. SamePlace'
  BY <1>1, <1>5, <1>6 DEF SamePlace, EchoPlace, NoneWaiting, Waiting, Cmd,
     NoThreadMoves
<1> QED
  BY <1>3, <1>4, <1>7 DEF Ends

LEMMA SendEchoStep ==
  ASSUME Types, Ends, SendEcho, NoThreadMoves, MaxEvents \in Nat
  PROVE  Ends'
<1>1. /\ state = "permission" /\ state' = "echoed" /\ cmd_in = <<>>
      /\ UNCHANGED <<command, lun, cmd_in, arm>>
  BY DEF SendEcho, Ends, MainEnd, serviceVars
<1>2. MainEnd'
  BY <1>1 DEF Ends, MainEnd
<1>3. \A g \in Goals : /\ pc'[g] = pc[g] /\ op'[g] = op[g]
                       /\ Cmd(g)' = Cmd(g) /\ (Waiting(g)' <=> Waiting(g))
  BY DEF NoThreadMoves, Waiting, Cmd
<1>4. CASE lun = "open"
  <2>1. ASSUME NEW g \in Goals
        PROVE  /\ pc[g] # "final"
               /\ pc[g] = "echo" => command = Cmd(g) /\ cmd_out = <<>>
    BY <1>1, <1>4 DEF Ends, SamePlace, EchoPlace, FinalPlace, Serving
  <2>2. cmd_out' = Append(cmd_out, [kind |-> "echo", of |-> command])
    BY <1>4 DEF SendEcho, Written
  <2>3. ~NoneWaiting /\ ~NoneWaiting'
    BY <1>1, <1>3, <1>4 DEF Ends, SamePlace, NoneWaiting
  <2>4. ASSUME NEW g \in Goals, pc[g] = "echo" PROVE cmd_out' = <<Echo(g)>>'
    <3>1. cmd_out' = Append(<<>>, Echo(g)) /\ Echo(g)' = Echo(g)
      BY <1>3, <2>1, <2>2, <2>4 DEF Echo
    <3>2. \A e : Append(<<>>, e) = <<e>>
      OBVIOUS
    <3> QED
      BY <3>1, <3>2
  <2>5. Len(cmd_out') <= MaxEvents + 1
    <3>1. PICK g \in Goals : pc[g] = "echo"
      BY <2>1, <2>3 DEF NoneWaiting, Waiting
    <3>2. Len(<<Echo(g)>>') = 1
      OBVIOUS
    <3>3. Len(cmd_out') = 1
      BY <2>4, <3>1, <3>2, Zenon
    <3> QED
      BY <3>3
  <2>6. ClientEnd'
    BY <1>1, <1>3, <2>1, <2>3, <2>4, <2>5 DEF Ends, ClientEnd, NoThreadMoves
  <2>7. SamePlace'
    BY <1>1, <1>3, <2>1, <2>3 DEF SamePlace, EchoPlace
  <2> QED
    BY <1>2, <2>6, <2>7 DEF Ends
<1>5. CASE lun # "open"
  BY <1>1, <1>2, <1>5 DEF SendEcho, Written, Ends, ClientEnd, SamePlace,
     FinalShape, NoneWaiting, Waiting, Cmd, Echo, NoThreadMoves
<1> QED
  BY <1>4, <1>5

LEMMA CanStartStep ==
  ASSUME Types, Ends, can_start, NoThreadMoves, MaxEvents \in Nat
  PROVE  Ends'
<1>1. /\ state = "echoed" /\ state' \in {"movement", "idle"}
      /\ UNCHANGED <<command, lun, cmd_out, arm>>
      /\ cmd_in' = <<>> /\ Len(cmd_in') = 0
  BY EmptySeq, LastRead DEF can_start, ReadsNothing, Ends, serviceVars
<1>2. ClientEnd'
  BY <1>1 DEF Ends, ClientEnd, FinalShape, NoneWaiting, Waiting, Cmd, Echo,
     NoThreadMoves
<1>3. MainEnd'
  BY <1>1 DEF Ends, MainEnd
<1>4. ASSUME NEW g \in Goals, lun = "open"
      PROVE  /\ pc[g] # "echo"
             /\ pc[g] = "final" => /\ state' = "movement" /\ command = Cmd(g)
                                   /\ cmd_out = <<>>
  <2>1. cmd_in # <<>> /\ state' = IF Head(cmd_in).op = "start" THEN "movement" ELSE "idle"
    BY <1>4 DEF can_start, ReadsNothing
  <2>2. pc[g] # "echo"
    BY <1>1, <1>4, <2>1 DEF Ends, SamePlace, EchoPlace
  <2>3. CASE pc[g] = "final"
    <3>1. cmd_in = <<Go(g)>> /\ command = Cmd(g) /\ cmd_out = <<>>
      BY <1>1, <1>4, <2>3 DEF Ends, SamePlace, FinalPlace, Serving
    <3>2. Head(cmd_in) = Go(g)
      BY <3>1
    <3>3. Head(cmd_in).op = "start"
      BY <3>2 DEF Go
    <3> QED
      BY <2>1, <2>2, <3>1, <3>3
  <2> QED
    BY <2>2, <2>3
<1>5. lun = "open" => ~NoneWaiting
  BY <1>1 DEF Ends, SamePlace
<1>6. ASSUME NEW g \in Goals, lun = "open", pc[g] = "final"
      PROVE  FinalPlace(g)'
  <2>1. Len(cmd_out') = 0 /\ state' = "movement" /\ cmd_out' = <<>>
    BY <1>1, <1>4, <1>6, EmptySeq
  <2> QED
    BY <1>1, <1>4, <1>6, <2>1 DEF FinalPlace, Serving, Cmd, NoThreadMoves
<1>7. SamePlace'
  BY <1>1, <1>4, <1>5, <1>6 DEF SamePlace, NoneWaiting, Waiting, NoThreadMoves
<1> QED
  BY <1>2, <1>3, <1>7 DEF Ends

LEMMA ProgramEnds ==
  ASSUME Types, Ends, ProgramStep, NoThreadMoves
  PROVE  Ends'
<1>0. MaxEvents \in Nat
  BY ProgramsAssumption
<1>1. CASE get_command \/ SendEcho \/ can_start
  BY <1>0, <1>1, GetCommandStep, SendEchoStep, CanStartStep
<1>2. CASE SendQueried
  <2>1. state \in Serving /\ arm = NoGoal
    BY <1>2 DEF SendQueried, Ends, MainEnd, Serving
  <2> QED
    BY <1>0, <1>2, <2>1, AnswerStep DEF SendQueried, serviceVars
<1>3. CASE reset_abort
  BY <1>0, <1>3, ServingStep DEF reset_abort, Ends, MainEnd, Serving
<1>4. CASE call_service
  <2>1. state \in Serving /\ arm = NoGoal /\ UNCHANGED <<command, lun, cmd_in, arm>>
    BY <1>4 DEF call_service, serviceVars, Ends, MainEnd, Serving
  <2>2. CASE CallAdmitted
    BY <1>0, <2>1, <2>2, ServingStep DEF CallAdmitted, Serving
  <2>3. CASE CallRefused
    BY <1>0, <2>1, <2>3, AnswerStep DEF CallRefused, Finals
  <2>4. CASE CallAborted
    BY <1>0, <2>1, <2>4, AnswerStep DEF CallAborted, Finals
  <2> QED
    BY <1>4, <2>2, <2>3, <2>4 DEF call_service
<1>5. CASE ApplyUpload
  <2>1. state \in Serving /\ arm = NoGoal /\ "Movement finished" \in Finals
    BY <1>5 DEF ApplyUpload, Ends, MainEnd, Serving, Finals
  <2> QED
    BY <1>0, <1>5, <2>1, AnswerStep DEF ApplyUpload
<1>6. CASE StartMotion
  BY <1>0, <1>6, ServingStep DEF StartMotion, Serving
<1>7. CASE MotionReturns
  <2>1. /\ state \in Serving /\ ResultOfMotion \in Finals
        /\ ResultOfMotion # "JOINTS"
    BY <1>7 DEF MotionReturns, Serving, ResultOfMotion, Finals
  <2> QED
    BY <1>0, <1>7, <2>1, AnswerStep DEF MotionReturns, serviceVars
<1>8. CASE ReachTarget \/ ConditionHandler \/ process_control_command
  BY <1>8, QuietStep DEF ReachTarget, ConditionHandler, request_abort, LockHandler,
     process_control_command, mainVars, serviceVars, NoThreadMoves
<1>9. CASE report_path_event
  BY <1>0, <1>9, EventStep
<1>10. CASE OperatorResumes
  <2>1. /\ state = "error" /\ state' = "idle" /\ cmd_in = <<>>
        /\ UNCHANGED <<command, lun, cmd_in, cmd_out, arm>>
    BY <1>10 DEF OperatorResumes, serviceVars, Ends, MainEnd
  <2>2. ClientEnd'
    BY <2>1 DEF Ends, ClientEnd, FinalShape, NoneWaiting, Waiting, Cmd, Echo,
       NoThreadMoves
  <2>3. MainEnd'
    BY <2>1 DEF Ends, MainEnd
  <2>4. SamePlace'
    BY <2>1 DEF Ends, SamePlace, EchoPlace, FinalPlace, Serving, NoneWaiting,
       Waiting, NoThreadMoves
  <2> QED
    BY <2>2, <2>3, <2>4 DEF Ends
<1> QED
  BY <1>1, <1>2, <1>3, <1>4, <1>5, <1>6, <1>7, <1>8, <1>9, <1>10
     DEF ProgramStep, MainStep

-----------------------------------------------------------------------------
(***************************************************************************)
(* The handshake: every step.                                              *)
(***************************************************************************)

LEMMA OutsideEnds ==
  ASSUME Types, Ends,
         \/ \E g \in Goals, k \in GoalKinds : RequestGoal(g, k)
         \/ \E e \in Events : RequestControl(e)
         \/ Restart \/ Lose,
         OneThread
  PROVE  Ends'
<1>1. ASSUME NEW g \in Goals, NEW k \in GoalKinds, RequestGoal(g, k)
      PROVE  Ends'
  <2>1. pc[g] = "none"
    BY <1>1 DEF RequestGoal, goal_callback, OneThread
  <2>2. /\ UNCHANGED <<cmd_sock, lun, cmd_in, cmd_out, state, command, arm>>
        /\ pc'[g] \in {"none", "next"}
        /\ \A h \in Goals \ {g} : pc'[h] = pc[h] /\ op'[h] = op[h]
    BY <1>1, <2>1 DEF RequestGoal, goal_callback, programVars, mainVars,
       serviceVars, threadVars, Types, ServerTypeOK
  <2>3. ~Waiting(g) /\ ~Waiting(g)'
    BY <2>1, <2>2 DEF Waiting
  <2> QED
    BY <2>2, <2>3, QuietStep
<1>2. CASE \E e \in Events : RequestControl(e)
  BY <1>2, QuietStep DEF RequestControl, _handle_trigger, NodeFrame, mainVars,
     serviceVars, serverVars, threadVars
<1>3. CASE Restart
  <2>1. CASE /\ state = "idle" /\ ReadsNothing
             /\ state' = "setup" /\ lun' = "none"
             /\ UNCHANGED <<command, cmd_in, cmd_out, serviceVars, controlVars>>
    <3>1. UNCHANGED <<cmd_sock, pc, op, arm>>
      BY <1>3, <2>1 DEF Restart, serverVars, threadVars, serviceVars
    <3> QED
      BY <2>1, <3>1 DEF ReadsNothing, Ends, ClientEnd, MainEnd, SamePlace,
         FinalShape, NoneWaiting, Waiting, Cmd, Echo
  <2>2. CASE UNCHANGED <<mainVars, serviceVars>>
    BY <1>3, <2>2, QuietStep DEF Restart, serverVars, threadVars, mainVars, serviceVars
  <2> QED
    BY <1>3, <2>1, <2>2 DEF Restart, OperatorRestarts
<1>4. CASE Lose
  <2>1. UNCHANGED <<cmd_sock, pc, op>>
    BY <1>4 DEF Lose, serverVars, threadVars
  <2>2. CASE /\ lun = "open" /\ lun' = "lost"
             /\ cmd_in' \in {cmd_in, <<>>} /\ cmd_out' \in {cmd_out, <<>>}
             /\ UNCHANGED <<state, command, serviceVars, controlVars>>
    <3>1. Len(<<>>) = 0
      BY EmptySeq
    <3>2. ClientEnd'
      BY <2>1, <2>2, <3>1, ProgramsAssumption DEF Ends, ClientEnd, FinalShape,
         NoneWaiting, Waiting, Cmd, Echo
    <3> QED
      BY <2>2, <3>1, <3>2 DEF Ends, MainEnd, SamePlace, serviceVars
  <2>3. CASE UNCHANGED <<mainVars, serviceVars>>
    BY <2>1, <2>3, QuietStep DEF mainVars, serviceVars
  <2> QED
    BY <1>4, <2>2, <2>3 DEF Lose, LoseConnection
<1> QED
  BY <1>1, <1>2, <1>3, <1>4

LEMMA HandshakeStep ==
  ASSUME Types, Handshake, [Next]_vars
  PROVE  Types' /\ Handshake'
<1>1. Ends /\ OneThread
  BY DEF Handshake, Ends
<1>2. Types' /\ OneThread'
  BY <1>1, TypesStep, OneThreadStep DEF Ends
<1>3. Ends'
  <2>1. CASE UNCHANGED vars
    BY <1>1, <2>1, QuietStep DEF vars, programVars, mainVars, serviceVars,
       serverVars, threadVars
  <2>2. CASE ServerStep
    <3>1. CASE \E g \in Goals : Thread(g)
      BY <1>1, <3>1, ThreadEnds
    <3>2. CASE cancel_accepted \/ cancel_rejected \/ \E g \in Goals : cancel_callback(g)
      BY <1>1, <3>2, QuietStep DEF cancel_accepted, cancel_rejected,
         cancel_callback, programVars, mainVars, serviceVars, threadVars
    <3> QED
      BY <2>2, <3>1, <3>2 DEF ServerStep
  <2>3. CASE NodeStep /\ UNCHANGED serverVars
    BY <1>1, <2>3, QuietStep DEF NodeStep, control_answered, control_fails,
       NodeFrame, mainVars, serviceVars, serverVars, threadVars
  <2>4. CASE ProgramStep /\ UNCHANGED serverVars
    BY <1>1, <2>4, ProgramEnds DEF NoThreadMoves, serverVars, threadVars
  <2> QED
    BY <1>1, <2>1, <2>2, <2>3, <2>4, OutsideEnds DEF Next
<1> QED
  BY <1>2, <1>3 DEF Handshake, Ends

LEMMA InitHandshake == Init => Handshake
<1> SUFFICES ASSUME Init PROVE Handshake
  OBVIOUS
<1>1. Len(<<>>) = 0 /\ MaxEvents \in Nat
  BY EmptySeq, ProgramsAssumption
<1>2. /\ \A g \in Goals : pc[g] = "none" /\ ~Waiting(g)
      /\ cmd_in = <<>> /\ cmd_out = <<>> /\ lun = "none" /\ cmd_sock = FALSE
      /\ state = "setup" /\ arm = NoGoal
  BY DEF Init, ServerInit, ProgramsInit, Waiting
<1> QED
  BY <1>1, <1>2 DEF Handshake, OneThread, ClientEnd, MainEnd, SamePlace

LEMMA HandshakeInvariant == Spec => [](Types /\ Handshake)
<1>1. Init => Types /\ Handshake
  BY InitTypes, InitHandshake
<1>2. Types /\ Handshake /\ [Next]_vars => (Types /\ Handshake)'
  BY HandshakeStep
<1> QED
  BY <1>1, <1>2, PTL DEF Spec

(* All variables keep their types, at most one message is on its way to     *)
(* the main program and besides PATH_EVENTs one from it.                    *)
THEOREM TypeCorrect == Spec => []TypeOK
<1>1. Types /\ Handshake => TypeOK
  BY DEF Types, Handshake, ClientEnd, MainEnd, TypeOK
<1> QED
  BY <1>1, HandshakeInvariant, PTL

(* The two ends of the command connection never lose step.                 *)
THEOREM HandshakeInStep == Spec => []InStep
<1>1. ASSUME Types, Handshake PROVE InStep
  <2>1. state = "idle" /\ cmd_in # <<>> => Head(cmd_in).op # "start"
    BY <1>1 DEF Handshake, MainEnd
  <2>2. ASSUME NEW g \in Goals, Waiting(g), cmd_out # <<>>
        PROVE  /\ Head(cmd_out).of = Cmd(g)
               /\ pc[g] = "echo" => Head(cmd_out).kind = "echo"
               /\ pc[g] = "final" => Head(cmd_out).kind # "echo"
    <3>1. CASE pc[g] = "echo"
      <4>1. cmd_out = <<Echo(g)>>
        BY <1>1, <2>2, <3>1 DEF Handshake, ClientEnd
      <4>2. Head(cmd_out) = Echo(g)
        BY <4>1
      <4> QED
        BY <3>1, <4>2 DEF Echo
    <3>2. CASE pc[g] = "final"
      <4>1. 1 \in 1 .. Len(cmd_out) /\ Head(cmd_out) = cmd_out[1]
        BY <1>1, <2>2, EmptySeq, LenProperties DEF Types, ProgramsTypeOK
      <4>2. FinalShape(g)
        BY <1>1, <3>2 DEF Handshake, ClientEnd
      <4> QED
        BY <3>2, <4>1, <4>2 DEF FinalShape
    <3> QED
      BY <2>2, <3>1, <3>2 DEF Waiting
  <2> QED
    BY <2>1, <2>2 DEF InStep
<1> QED
  BY <1>1, HandshakeInvariant, PTL

-----------------------------------------------------------------------------
(***************************************************************************)
(* The answers on the control connection.                                  *)
(***************************************************************************)

(* Whatever the bridge, the network or an operator does to the connection, *)
(* it leaves it alone while the node owns it, or takes it from the node.   *)
LEMMA NodeKeeps ==
  ASSUME NodeOwns, UNCHANGED nodeVars,
         control' = Node => UNCHANGED <<control, ctl_in, ctl_out>>
  PROVE  NodeOwns'
BY DEF NodeOwns, nodeVars, AnswerIsOwn

LEMMA NodeOwnsStep ==
  ASSUME Types, NodeOwns, [Next]_vars
  PROVE  NodeOwns'
<1> USE BridgeAssumption, NodeAssumption
<1>0. Node # "none" /\ Node # "lost" /\ Bridge # Node
  OBVIOUS
<1>1. CASE UNCHANGED <<nodeVars, control, ctl_in, ctl_out>>
  BY <1>1, NodeKeeps
<1>2. ASSUME NEW e \in Events, RequestControl(e) PROVE NodeOwns'
  <2>1. serving = "none" /\ responded' = responded /\ e # "none"
    BY <1>2 DEF RequestControl, _handle_trigger, Events
  <2>2. CASE /\ node_sock /\ control = Node
             /\ ctl_in' = Append(ctl_in, e) /\ serving' = e
             /\ UNCHANGED <<node_sock, control, ctl_out>>
    <3>1. ctl_in' = <<e>>
      BY <2>1, <2>2 DEF NodeOwns
    <3> QED
      BY <2>1, <2>2, <3>1 DEF NodeOwns, AnswerIsOwn
  <2>3. CASE /\ ~node_sock /\ setup_connection(Node)
             /\ ctl_in' = <<e>> /\ serving' = e /\ node_sock' = TRUE
    BY <2>1, <2>3 DEF setup_connection, NodeOwns, AnswerIsOwn
  <2>4. CASE /\ IF node_sock THEN control # Node ELSE control # "none"
             /\ node_sock' = FALSE
             /\ UNCHANGED <<serving, control, ctl_in, ctl_out>>
    BY <2>1, <2>4 DEF NodeOwns, AnswerIsOwn
  <2> QED
    BY <1>2, <2>2, <2>3, <2>4 DEF RequestControl, _handle_trigger
<1>3. CASE control_answered
  <2>1. ctl_in = <<>> /\ ctl_out = <<serving>>
    BY <1>3 DEF control_answered, NodeOwns
  <2>2. Head(ctl_out) = serving /\ Tail(ctl_out) = <<>>
    BY <2>1
  <2> QED
    BY <1>3, <2>1, <2>2 DEF control_answered, NodeOwns, AnswerIsOwn
<1>4. CASE control_fails
  BY <1>0, <1>4 DEF control_fails, CloseControl, ControlClosed, NodeOwns, AnswerIsOwn
<1>5. CASE process_control_command /\ UNCHANGED nodeVars
  <2>1. CASE control = Node
    <3>1. ctl_in = <<serving>> /\ ctl_out = <<>> /\ serving # "none"
      BY <1>5, <2>1 DEF process_control_command, NodeOwns
    <3>2. ctl_in' = <<>> /\ ctl_out' = <<serving>>
      BY <1>0, <1>5, <2>1, <3>1 DEF process_control_command
    <3> QED
      BY <1>5, <2>1, <3>1, <3>2 DEF process_control_command, NodeOwns,
         AnswerIsOwn, nodeVars
  <2>2. CASE control # Node
    BY <1>5, <2>2, NodeKeeps DEF process_control_command
  <2> QED
    BY <2>1, <2>2
<1>6. ASSUME SendAbort, UNCHANGED nodeVars PROVE NodeOwns'
  BY <1>0, <1>6, NodeKeeps DEF SendAbort, ControlConnected, setup_connection
<1>7. ASSUME NEW g \in Goals, Thread(g), UNCHANGED nodeVars PROVE NodeOwns'
  <2>1. CASE cancel_upload(g) \/ send_command(g) \/ recv_echo(g) \/ recv_final(g)
             \/ recv_fails(g) \/ _set_not_busy(g)
    BY <1>1, <1>7, <2>1 DEF cancel_upload, send_command, recv_echo, recv_final,
       recv_fails, _set_not_busy, programVars, controlVars
  <2>2. CASE stop_motion(g)
    BY <1>1, <1>6, <1>7, <2>2 DEF stop_motion
  <2>3. CASE stop_answered(g)
    BY <1>0, <1>7, <2>3, NodeKeeps DEF stop_answered, ControlConnected, ControlClosed
  <2> QED
    BY <1>7, <2>1, <2>2, <2>3 DEF Thread
<1>8. CASE ServerStep /\ UNCHANGED nodeVars
  <2>1. CASE \E g \in Goals : Thread(g)
    BY <1>7, <1>8, <2>1
  <2>2. CASE \E g \in Goals : cancel_callback(g)
    BY <1>6, <1>8, <2>2 DEF cancel_callback
  <2>3. CASE cancel_accepted
    BY <1>0, <1>8, <2>3, NodeKeeps DEF cancel_accepted, ControlConnected
  <2>4. CASE cancel_rejected
    BY <1>1, <1>8, <2>4 DEF cancel_rejected, programVars, controlVars
  <2> QED
    BY <1>8, <2>1, <2>2, <2>3, <2>4 DEF ServerStep
<1>9. CASE ProgramStep /\ UNCHANGED nodeVars
  <2>1. CASE MainStep \/ ReachTarget \/ report_path_event \/ OperatorResumes
    BY <1>1, <1>9, <2>1 DEF MainStep, get_command, SendEcho, can_start, SendQueried,
       reset_abort, call_service, ApplyUpload, StartMotion, MotionReturns,
       ReachTarget, report_path_event, OperatorResumes, controlVars
  <2>2. CASE ConditionHandler
    BY <1>1, <1>9, <2>2 DEF ConditionHandler, request_abort, LockHandler
  <2> QED
    BY <1>5, <1>9, <2>1, <2>2 DEF ProgramStep
<1>10. CASE Restart \/ Lose
  BY <1>0, <1>1, <1>10, NodeKeeps DEF Restart, Lose, OperatorRestarts,
     LoseConnection, controlVars
<1>11. CASE \E g \in Goals, k \in GoalKinds : RequestGoal(g, k)
  BY <1>1, <1>11 DEF RequestGoal, goal_callback, programVars, controlVars
<1>12. CASE UNCHANGED vars
  BY <1>1, <1>12 DEF vars, programVars, controlVars
<1> QED
  BY <1>2, <1>3, <1>4, <1>8, <1>9, <1>10, <1>11, <1>12 DEF Next, NodeStep

(* The answer a service of the motion control node reports is the answer   *)
(* to its own command.                                                     *)
THEOREM OwnAnswers == Spec => []AnswerIsOwn
<1>1. Init => NodeOwns
  BY BridgeAssumption, NodeAssumption DEF Init, ProgramsInit, NodeInit, NodeOwns, AnswerIsOwn
<1>2. Types /\ NodeOwns /\ [Next]_vars => NodeOwns'
  BY NodeOwnsStep
<1>3. NodeOwns => AnswerIsOwn
  BY DEF NodeOwns
<1> QED
  BY <1>1, <1>2, <1>3, HandshakeInvariant, PTL DEF Spec

-----------------------------------------------------------------------------
(***************************************************************************)
(* The inductive invariant of the goals: what a thread is told and what it *)
(* leaves behind.                                                          *)
(***************************************************************************)

Talking(g) == pc[g] \in {"next", "echo", "final"}

(* The goals and the commands of their threads.                            *)
Places ==
  \A g \in Goals :
    /\ goal[g] = "new" => op[g] = "getJoints"
    /\ op[g] = "move" => kind[g] = "move"
    /\ pc[g] # "none" /\ kind[g] = "move" => op[g] = "move"
    /\ Talking(g) \/ pc[g] \in {"stop", "stopping"} => goal[g] = "executing"

(* The main program is done with the command it has given a final answer   *)
(* to, and "Movement finished" means what it says.                         *)
MainOps == /\ state = "error" => command.op = "unknown"
           /\ state = "moving" => command.op \in MotionOps

FinalIsLast ==
  \A i \in 1 .. Len(cmd_out) : cmd_out[i].kind \in Finals =>
    state \in {"idle", "error", "setup"} /\ cmd_in = <<>>

Kept(c) == /\ c.op = "beginPath" => path_goal = c.goal
           /\ c.op \in MotionOps => c.goal \in finished

FinishedIsKept ==
  \A i \in 1 .. Len(cmd_out) :
    cmd_out[i].kind = "Movement finished" => Kept(cmd_out[i].of)

(* A thread past its beginPath finds its own PATH in the controller, and   *)
(* no beginPath can come before its next command.                          *)
PathIsOwn ==
  \A g \in Goals : Talking(g) /\ op[g] \in {"commitPath", "executePath"} =>
    /\ path_goal = g
    /\ cmd_in # <<>> => Head(cmd_in).op # "beginPath"
    /\ state \notin {"setup", "idle"} => command.op # "beginPath"

MovedIsFinished ==
  lun = "open" /\ state = "moving" /\ arm = NoGoal /\ ~motion_aborted =>
    command.goal \in finished

(* A motion command under way is the last command of its goal, which was   *)
(* not canceled.                                                           *)
Sent(g, o) == cmd_in # <<>> /\ Head(cmd_in).op = o /\ Head(cmd_in).goal = g
Served(g, o) ==
  command.op = o /\ command.goal = g /\ state \notin {"setup", "idle"}

MotionIsLast ==
  \A g \in Goals, o \in MotionOps : Sent(g, o) \/ Served(g, o) =>
    op[g] = o /\ goal[g] \notin {"new", "canceled"}

(* A PATH that was given up: an abortMotion is to come, or has come, and   *)
(* then executePath is refused or its motion cut short.                    *)
Abandoned(g) ==
  /\ op[g] = "executePath" /\ (pc[g] = "stopping" \/ goal[g] = "aborted")
  /\ control_enabled /\ g \notin stop_refused /\ ~dropped

AbortComing == \/ \E i \in 1 .. Len(ctl_in) : ctl_in[i] = "abortMotion"
               \/ "abortMotion" \in events

Harmless(g) ==
  Sent(g, "executePath") \/ Served(g, "executePath") =>
    IF state \in {"admitted", "moving"} THEN motion_aborted
                                        ELSE path_state # "ready"

Stops == /\ control = "none" => ctl_in = <<>>
         /\ \A g \in Goals : Abandoned(g) => AbortComing \/ Harmless(g)

Outcomes == /\ Places /\ MainOps /\ FinalIsLast /\ FinishedIsKept /\ PathIsOwn
            /\ MovedIsFinished /\ MotionIsLast /\ Stops /\ SuccessIsOwn

-----------------------------------------------------------------------------
(***************************************************************************)
(* What a thread does to its goal and to the connections.                  *)
(***************************************************************************)

Told(g, k) == /\ pc[g] = "final" /\ cmd_out # <<>>
              /\ Head(cmd_out).kind = k /\ Head(cmd_out).of = Cmd(g)

Stays(g) ==
  /\ op'[g] = op[g] /\ goal'[g] = goal[g]
  /\ Talking(g)' \/ pc'[g] = "stop" => Talking(g)
  /\ pc'[g] = "stopping" => pc[g] = "stop" /\ AbortComing'

Withdrawn(g) == /\ Talking(g) /\ op[g] \in UploadOps
                /\ op'[g] = "abortPathUpload" /\ goal'[g] = goal[g]

Continues(g) == /\ Told(g, "Movement finished") /\ op[g] \in UploadOps
                /\ op'[g] = NextOp[op[g]] /\ goal'[g] = goal[g]
                /\ pc'[g] = "next"

Reason(g, s) ==
  \/ /\ s = "succeeded"
     /\ \/ /\ Told(g, "Movement finished")
           /\ kind[g] = "path" => op[g] = "executePath"
        \/ op[g] \in QueryOps
  \/ /\ s = "canceled"
     /\ Told(g, "Motion aborted") \/ op[g] = "abortPathUpload"
  \/ /\ s = "aborted"
     /\ \/ op[g] # "executePath" \/ ~control_enabled \/ g \in stop_refused'
        \/ pc[g] = "stopping" \/ Told(g, "Motion aborted")

IsOver(g) == /\ op'[g] = op[g] /\ pc'[g] = "finally"
             /\ \E s \in Ended : goal'[g] = s /\ Reason(g, s)

Moves(g) == Stays(g) \/ Withdrawn(g) \/ Continues(g) \/ IsOver(g)

(* What a thread that receives has before it.                               *)
LEMMA HeadOfAnswers ==
  ASSUME Types, Ends, NEW g \in Goals, pc[g] = "final", cmd_out # <<>>
  PROVE  /\ Told(g, Head(cmd_out).kind)
         /\ Head(cmd_out).kind = "JOINTS" => op[g] \in QueryOps
<1>1. cmd_out \in Seq(Message) /\ 1 \in 1 .. Len(cmd_out) /\ Head(cmd_out) = cmd_out[1]
  BY EmptySeq, LenProperties DEF Types, ProgramsTypeOK
<1>2. FinalShape(g)
  BY DEF Ends, ClientEnd
<1> QED
  BY <1>1, <1>2 DEF FinalShape, Told

LEMMA AbortIsComing ==
  ASSUME Types, SendAbort
  PROVE  AbortComing' /\ (control' # "none")
<1>1. ctl_in \in Seq(Events) /\ "abortMotion" \in Events
  BY DEF Types, ProgramsTypeOK, Events
<1>2. CASE ControlConnected /\ ctl_in' = Append(ctl_in, "abortMotion")
           /\ UNCHANGED <<control, ctl_out, ctl_sock>>
  <2>1. Len(ctl_in') = Len(ctl_in) + 1 /\ ctl_in'[Len(ctl_in')] = "abortMotion"
        /\ Len(ctl_in) \in Nat
    BY <1>1, <1>2, AppendProperties, LenProperties
  <2>2. Len(ctl_in') \in 1 .. Len(ctl_in')
    BY <2>1
  <2> QED
    BY <1>2, <2>1, <2>2, BridgeAssumption, ServerAssumption DEF AbortComing, ControlConnected
<1>3. CASE ~ctl_sock /\ setup_connection(Bridge) /\ ctl_in' = <<"abortMotion">>
  <2>1. Len(ctl_in') = 1 /\ ctl_in'[1] = "abortMotion" /\ 1 \in 1 .. Len(ctl_in')
    BY <1>3
  <2> QED
    BY <1>3, <2>1, BridgeAssumption, ServerAssumption DEF AbortComing, setup_connection
<1> QED
  BY <1>2, <1>3 DEF SendAbort

LEMMA ThreadMoves ==
  ASSUME Types, OneThread, Ends, NEW g \in Goals, Thread(g)
  PROVE  Moves(g)
<1> USE DEF Types, ServerTypeOK
<1>1. ASSUME End(g, "aborted"),
             \/ op[g] # "executePath" \/ ~control_enabled \/ g \in stop_refused'
             \/ pc[g] = "stopping" \/ Told(g, "Motion aborted")
      PROVE  Moves(g)
  BY <1>1 DEF End, Moves, IsOver, Reason, Ended
<1>2. ASSUME NEW s, Withdraw(g, s), op[g] \in UploadOps, Talking(g) PROVE Moves(g)
  BY <1>2 DEF Withdraw, Moves, Withdrawn
<1>3. ASSUME End(g, outcome[g]), op[g] = "abortPathUpload" PROVE Moves(g)
  <2>1. outcome[g] \in {"aborted", "canceled"}
    OBVIOUS
  <2> QED
    BY <1>3, <2>1 DEF End, Moves, IsOver, Reason, Ended
<1>4. ASSUME NEW l \in {"echo", "final", "stop"}, Goto(g, l, op[g]), Talking(g)
      PROVE  Moves(g)
  BY <1>4 DEF Goto, goalVars, Moves, Stays, Talking
<1>5. ASSUME Exception(g), Talking(g) PROVE Moves(g)
  BY <1>1, <1>2, <1>3, <1>4, <1>5 DEF Exception, AfterException
<1>6. CASE cancel_upload(g)
  BY <1>2, <1>6 DEF cancel_upload, CancelSeen, Talking
<1>7. CASE send_command(g)
  BY <1>4, <1>5, <1>7 DEF send_command, Talking
<1>8. CASE recv_echo(g)
  BY <1>4, <1>5, <1>8 DEF recv_echo, Talking
<1>9. CASE recv_fails(g)
  BY <1>5, <1>9 DEF recv_fails, Waiting, Talking
<1>10. CASE recv_final(g)
  <2> DEFINE k == Head(cmd_out).kind
  <2>1. Told(g, k) /\ Talking(g) /\ (k = "JOINTS" => op[g] \in QueryOps)
    BY <1>10, HeadOfAnswers DEF recv_final, TakeAnswer, Talking
  <2> HIDE DEF k
  <2>2. CASE kind[g] = "path" /\ PathAnswer(g, k)
    <3>1. ASSUME op[g] \in UploadOps, k = "Movement finished",
                 Goto(g, "next", NextOp[op[g]])
          PROVE  Moves(g)
      BY <2>1, <3>1 DEF Goto, goalVars, Moves, Continues
    <3>2. ASSUME op[g] = "executePath", k = "Movement finished", End(g, "succeeded")
          PROVE  Moves(g)
      BY <2>1, <3>2 DEF End, Moves, IsOver, Reason, Ended
    <3>3. ASSUME NEW s \in {"canceled", "aborted"}, k = "Motion aborted", End(g, s)
          PROVE  Moves(g)
      BY <2>1, <3>3 DEF End, Moves, IsOver, Reason, Ended
    <3>4. ASSUME UNCHANGED <<goalVars, threadVars>> PROVE Moves(g)
      BY <2>1, <3>4 DEF goalVars, threadVars, Moves, Stays, Talking
    <3> QED
      BY <1>3, <1>5, <2>1, <2>2, <3>1, <3>2, <3>3, <3>4 DEF PathAnswer
  <2>3. CASE kind[g] # "path" /\ SingleAnswer(g, k)
    <3>0. op[g] # "executePath"
      BY <1>10, <2>3 DEF recv_final, OneThread, PathOps
    <3>1. CASE k \in {"Movement finished", "JOINTS"}
      BY <2>1, <2>3, <3>1 DEF SingleAnswer, End, Moves, IsOver, Reason, Ended
    <3>2. CASE k = "Motion aborted"
      BY <2>1, <2>3, <3>2 DEF SingleAnswer, End, Moves, IsOver, Reason, Ended
    <3>3. CASE k \notin {"Movement finished", "JOINTS", "Motion aborted"}
      <4>1. End(g, "aborted")
        BY <2>3, <3>3 DEF SingleAnswer
      <4> QED
        BY <1>1, <3>0, <4>1
    <3> QED
      BY <3>1, <3>2, <3>3
  <2> QED
    BY <1>10, <2>2, <2>3 DEF recv_final, k
<1>11. CASE stop_motion(g)
  <2>1. CASE SendAbort /\ Goto(g, "stopping", op[g]) /\ UNCHANGED stop_refused
    BY <1>11, <2>1, AbortIsComing
       DEF stop_motion, Goto, goalVars, Moves, Stays, Talking
  <2>2. CASE /\ stop_refused' = stop_refused \cup {g}
             /\ End(g, "aborted")
    BY <1>1, <2>2
  <2> QED
    BY <1>11, <2>1, <2>2 DEF stop_motion
<1>12. CASE stop_answered(g)
  BY <1>1, <1>12 DEF stop_answered
<1>13. CASE _set_not_busy(g)
  BY <1>13 DEF _set_not_busy, goalVars, Moves, Stays, Talking
<1> QED
  BY <1>6, <1>7, <1>8, <1>9, <1>10, <1>11, <1>12, <1>13 DEF Thread

(* The answers left are some of those there were.                          *)
Fewer == \A i \in 1 .. Len(cmd_out') :
           \E j \in 1 .. Len(cmd_out) : cmd_out'[i] = cmd_out[j]

(* All a thread changes of the connections: it sends on a connection that  *)
(* holds nothing, it takes an answer, it closes the connection.            *)
SendsOnly(g) ==
  /\ UNCHANGED <<command, serviceVars, events, control_enabled, dropped>>
  /\ state' = state \/ (state = "setup" /\ state' = "idle")
  /\ lun' = "open" => lun = "open" \/ state' = "idle"
  /\ Fewer
  /\ \/ cmd_in' = cmd_in
     \/ /\ cmd_in' # <<>> /\ Head(cmd_in') \in {Cmd(g), Go(g)}
        /\ cmd_out' = <<>> /\ Talking(g) /\ op' = op /\ goal' = goal
  /\ stop_refused \subseteq stop_refused'
  /\ AbortComing => AbortComing'
  /\ control' = "none" => control = "none" /\ ctl_in' = ctl_in

LEMMA AnswersLeft ==
  ASSUME Types, \/ cmd_out' = cmd_out \/ cmd_out' = <<>>
                \/ cmd_out # <<>> /\ cmd_out' = Tail(cmd_out)
  PROVE  Fewer
<1>1. cmd_out \in Seq(Message) /\ Len(cmd_out) \in Nat
  BY LenProperties DEF Types, ProgramsTypeOK
<1>2. CASE cmd_out # <<>> /\ cmd_out' = Tail(cmd_out)
  <2>1. Len(cmd_out') = Len(cmd_out) - 1 /\ Len(cmd_out) > 0
    BY <1>1, <1>2, EmptySeq, LenProperties, HeadTailProperties
  <2>2. \A i \in 1 .. Len(cmd_out') : cmd_out'[i] = cmd_out[i + 1]
    BY <1>1, <1>2, HeadTailProperties
  <2>3. \A i \in 1 .. Len(cmd_out') : i + 1 \in 1 .. Len(cmd_out)
    BY <1>1, <2>1
  <2> QED
    BY <2>2, <2>3 DEF Fewer
<1>3. CASE cmd_out' = <<>>
  <2>1. Len(cmd_out') = 0
    BY <1>3
  <2> QED
    BY <2>1 DEF Fewer
<1>4. CASE cmd_out' = cmd_out
  BY <1>4 DEF Fewer
<1> QED
  BY <1>2, <1>3, <1>4

LEMMA ThreadSends ==
  ASSUME Types, OneThread, Ends, NEW g \in Goals, Thread(g), dropped' = dropped
  PROVE  SendsOnly(g)
<1> USE DEF serviceVars, mainVars, controlVars, programVars
<1>1. ASSUME UNCHANGED <<control, ctl_in, events>>
      PROVE  /\ AbortComing => AbortComing'
             /\ control' = "none" => control = "none" /\ ctl_in' = ctl_in
  BY <1>1 DEF AbortComing
<1>2. ASSUME ThreadFrame, UNCHANGED <<command, serviceVars, controlVars>>
      PROVE  /\ UNCHANGED <<command, serviceVars, events, control_enabled, dropped>>
             /\ stop_refused \subseteq stop_refused'
             /\ AbortComing => AbortComing'
             /\ control' = "none" => control = "none" /\ ctl_in' = ctl_in
  BY <1>1, <1>2 DEF ThreadFrame
<1>3. ASSUME CloseCommand PROVE lun' # "open" /\ Fewer
  BY <1>3, AnswersLeft DEF CloseCommand, CommandClosed
<1>4. ASSUME UNCHANGED <<state, cmd_in>>, ThreadFrame, Exception(g),
             UNCHANGED <<command, serviceVars, controlVars>>
      PROVE  SendsOnly(g)
  BY <1>2, <1>3, <1>4 DEF Exception, SendsOnly
<1>5. ASSUME Talking(g), lun = "open" => cmd_in = <<>>, NEW m \in {Cmd(g), Go(g)},
             Send(g, m), cmd_out' = <<>>, NEW l, Goto(g, l, op[g]), ThreadFrame,
             UNCHANGED <<command, serviceVars, controlVars>>, UNCHANGED <<state, lun>>
      PROVE  SendsOnly(g)
  <2>1. op' = op /\ goal' = goal
    BY <1>5 DEF Goto, goalVars, Types, ServerTypeOK
  <2>2. CASE lun = "open"
    <3>1. cmd_in' = Append(<<>>, m)
      BY <1>5, <2>2 DEF Send
    <3>2. cmd_in' = <<m>>
      BY <3>1
    <3>3. cmd_in' # <<>> /\ Head(cmd_in') = m
      BY <3>2
    <3> QED
      BY <1>2, <1>5, <2>1, <3>3, AnswersLeft DEF SendsOnly
  <2>3. CASE lun # "open"
    BY <1>2, <1>5, <2>3, AnswersLeft DEF SendsOnly, Send
  <2> QED
    BY <2>2, <2>3
<1>6. CASE cancel_upload(g)
  <2>1. UNCHANGED <<programVars>> /\ ThreadFrame
    BY <1>6 DEF cancel_upload
  <2> QED
    BY <1>2, <2>1, AnswersLeft DEF SendsOnly
<1>7. CASE send_command(g)
  <2>0. pc[g] = "next" /\ ThreadFrame /\ UNCHANGED <<command, serviceVars, controlVars>>
    BY <1>7 DEF send_command
  <2>1. NoneWaiting
    BY <2>0, OneWaits DEF NoneWaiting, Waiting
  <2>2. CASE /\ cmd_sock /\ Send(g, Cmd(g)) /\ Goto(g, "echo", op[g])
             /\ UNCHANGED <<cmd_sock, state, lun, cmd_out>>
    <3>1. cmd_out = <<>> /\ (lun = "open" => cmd_in = <<>>)
      BY <2>1, <2>2 DEF Ends, ClientEnd, SamePlace
    <3> QED
      BY <1>5, <2>0, <2>2, <3>1 DEF Talking
  <2>3. CASE /\ ~cmd_sock /\ Accepting /\ setup
             /\ cmd_in' = <<Cmd(g)>> /\ Goto(g, "echo", op[g])
             /\ cmd_sock' = TRUE
    <3>1. op' = op /\ goal' = goal
      BY <2>3 DEF Goto, goalVars, Types, ServerTypeOK
    <3>2. cmd_in' # <<>> /\ Head(cmd_in') = Cmd(g)
      BY <2>3
    <3> QED
      BY <1>2, <2>0, <2>3, <3>1, <3>2, AnswersLeft
         DEF SendsOnly, setup, Accepting, Talking
  <2>4. CASE Exception(g) /\ UNCHANGED <<state, cmd_in>>
    BY <1>4, <2>0, <2>4
  <2> QED
    BY <1>7, <2>2, <2>3, <2>4 DEF send_command
<1>8. CASE recv_echo(g)
  <2>0. /\ pc[g] = "echo" /\ ThreadFrame /\ UNCHANGED <<state, command, serviceVars, controlVars>>
        /\ cmd_out = <<Echo(g)>>
    BY <1>8 DEF recv_echo, TakeAnswer, Ends, ClientEnd
  <2>1. CASE /\ Send(g, [op |-> "start", goal |-> g]) /\ Goto(g, "final", op[g])
             /\ cmd_out' = Tail(cmd_out) /\ UNCHANGED <<cmd_sock, lun>>
    <3>1. lun = "open" => cmd_in = <<>>
      BY <2>0 DEF Ends, SamePlace, EchoPlace
    <3>2. cmd_out' = <<>>
      BY <2>0, <2>1
    <3> QED
      BY <1>5, <2>0, <2>1, <3>1, <3>2 DEF Talking, Go
  <2>2. CASE Exception(g) /\ UNCHANGED cmd_in
    BY <1>4, <2>0, <2>2
  <2> QED
    BY <1>8, <2>1, <2>2 DEF recv_echo
<1>9. CASE recv_fails(g)
  BY <1>4, <1>9 DEF recv_fails
<1>10. CASE recv_final(g)
  <2>1. /\ ThreadFrame /\ UNCHANGED <<state, command, cmd_in, serviceVars, controlVars>>
        /\ cmd_out' = IF cmd_sock' THEN Tail(cmd_out) ELSE <<>>
        /\ cmd_out # <<>>
    BY <1>10 DEF recv_final, TakeAnswer
  <2>2. Fewer
    BY <2>1, AnswersLeft
  <2>3. CASE UNCHANGED <<cmd_sock, lun>>
    BY <1>2, <2>1, <2>2, <2>3 DEF SendsOnly
  <2>4. CASE CloseCommand
    BY <1>2, <1>3, <2>1, <2>2, <2>4 DEF SendsOnly
  <2>5. CASE PathAnswer(g, Head(cmd_out).kind)
    BY <2>3, <2>4, <2>5 DEF PathAnswer, Exception
  <2>6. CASE SingleAnswer(g, Head(cmd_out).kind)
    BY <2>3, <2>4, <2>6 DEF SingleAnswer
  <2> QED
    BY <1>10, <2>5, <2>6 DEF recv_final
<1>11. CASE stop_motion(g)
  <2>1. /\ UNCHANGED <<mainVars, serviceVars, events, control_enabled>>
        /\ stop_refused \subseteq stop_refused'
    BY <1>11 DEF stop_motion
  <2>2. CASE SendAbort
    BY <2>1, <2>2, AbortIsComing, AnswersLeft DEF SendsOnly
  <2>3. CASE UNCHANGED <<ctl_in, ctl_out, control>>
    BY <1>1, <2>1, <2>3, AnswersLeft DEF SendsOnly
  <2> QED
    BY <1>11, <2>2, <2>3 DEF stop_motion
<1>12. CASE stop_answered(g)
  <2>1. UNCHANGED <<mainVars, serviceVars, events, control_enabled, stop_refused, ctl_in>>
    BY <1>12 DEF stop_answered
  <2>2. control' = "none" => control = "none"
    BY <1>12 DEF stop_answered, ControlClosed
  <2> QED
    BY <2>1, <2>2, AnswersLeft DEF SendsOnly, AbortComing
<1>13. CASE _set_not_busy(g)
  BY <1>1, <1>13, AnswersLeft DEF _set_not_busy, SendsOnly
<1> QED
  BY <1>6, <1>7, <1>8, <1>9, <1>10, <1>11, <1>12, <1>13 DEF Thread

-----------------------------------------------------------------------------
(***************************************************************************)
(* The threads preserve the invariant.                                     *)
(***************************************************************************)

(* A thread told the end of its command left nothing to come.              *)
LEMMA ToldIsDone ==
  ASSUME Types, MainOps, FinalIsLast, FinishedIsKept, NEW g \in Goals,
         NEW k \in Finals, Told(g, k)
  PROVE  /\ cmd_in = <<>>
         /\ state \notin {"setup", "idle"} => command.op = "unknown"
         /\ \A h \in Goals, o \in MotionOps : ~Sent(h, o) /\ ~Served(h, o)
         /\ k = "Movement finished" => Kept(Cmd(g))
<1>1. cmd_out \in Seq(Message) /\ 1 \in 1 .. Len(cmd_out) /\ Head(cmd_out) = cmd_out[1]
  BY EmptySeq, LenProperties DEF Told, Types, ProgramsTypeOK
<1>2. cmd_in = <<>> /\ state \in {"idle", "error", "setup"}
  BY <1>1 DEF Told, FinalIsLast
<1>3. state \notin {"setup", "idle"} => command.op = "unknown"
  BY <1>2 DEF MainOps
<1>4. k = "Movement finished" => Kept(Cmd(g))
  BY <1>1 DEF Told, FinishedIsKept
<1> QED
  BY <1>2, <1>3, <1>4 DEF Sent, Served, MotionOps

LEMMA ThreadOutcomes ==
  ASSUME Types, OneThread, Ends, Outcomes, NEW g \in Goals, Thread(g),
         dropped' = dropped
  PROVE  Outcomes'
<1>1. Moves(g) /\ SendsOnly(g)
  BY ThreadMoves, ThreadSends
<1>2. /\ pc[g] # "none" /\ kind' = kind
      /\ \A h \in Goals \ {g} : /\ pc[h] = "none" /\ pc'[h] = "none"
                                /\ op'[h] = op[h] /\ goal'[h] = goal[h]
  BY ThreadEffect DEF OneThread
<1>3. /\ Places /\ MainOps /\ FinalIsLast /\ FinishedIsKept /\ PathIsOwn
      /\ MovedIsFinished /\ MotionIsLast /\ Stops /\ SuccessIsOwn
  BY DEF Outcomes
<1>4. \A k \in Finals : Told(g, k) =>
        /\ cmd_in = <<>>
        /\ state \notin {"setup", "idle"} => command.op = "unknown"
        /\ \A h \in Goals, o \in MotionOps : ~Sent(h, o) /\ ~Served(h, o)
        /\ k = "Movement finished" => Kept(Cmd(g))
  BY <1>3, ToldIsDone
<1>5. {"Movement finished", "Motion aborted"} \subseteq Finals
  BY DEF Finals
<1>6. /\ UNCHANGED <<command, path_goal, finished, motion_aborted, path_state, arm>>
      /\ state' = state \/ (state = "setup" /\ state' = "idle")
  BY <1>1 DEF SendsOnly, serviceVars
<1>7. \/ cmd_in' = cmd_in
      \/ /\ cmd_in' # <<>> /\ Head(cmd_in').goal = g
         /\ Head(cmd_in').op \in {op[g], "start"}
         /\ cmd_out' = <<>> /\ Talking(g) /\ op' = op /\ goal' = goal
  BY <1>1 DEF SendsOnly, Cmd, Go
<1>8. Talking(g) => goal[g] = "executing"
  BY <1>3 DEF Places
<1>9. /\ \A o \in UploadOps : /\ o \notin MotionOps
                              /\ NextOp[o] \in {"commitPath", "executePath"}
                              /\ NextOp[o] # o
      /\ "start" \notin MotionOps /\ "abortPathUpload" \notin MotionOps
  BY DEF UploadOps, MotionOps, NextOp
<1>10. Told(g, "Movement finished") => Talking(g)
  BY DEF Told, Talking
<1>11. Places'
  <2>1. ASSUME NEW h \in Goals, h # g PROVE ~Talking(h)' /\ pc'[h] \notin {"stop", "stopping"}
    BY <1>2, <2>1 DEF Talking
  <2>2. /\ goal'[g] = "new" => op'[g] = "getJoints"
        /\ op'[g] = "move" => kind[g] = "move"
        /\ pc'[g] # "none" /\ kind[g] = "move" => op'[g] = "move"
        /\ Talking(g)' \/ pc'[g] \in {"stop", "stopping"} => goal'[g] = "executing"
    <3>0. UploadOps \cap {"move"} = {}
      BY DEF UploadOps
    <3>1. CASE Stays(g)
      BY <1>2, <1>3, <3>1 DEF Stays, Places
    <3>2. CASE Withdrawn(g)
      BY <1>2, <1>3, <1>8, <3>0, <3>2 DEF Withdrawn, Places
    <3>3. CASE Continues(g)
      BY <1>2, <1>3, <1>8, <1>9, <1>10, <3>0, <3>3 DEF Continues, Places
    <3>4. CASE IsOver(g)
      BY <1>2, <1>3, <3>4 DEF IsOver, Places, Talking, Ended
    <3> QED
      BY <1>1, <3>1, <3>2, <3>3, <3>4 DEF Moves
  <2> QED
    BY <1>2, <1>3, <2>1, <2>2 DEF Places
<1>12. MainOps'
  BY <1>3, <1>6 DEF MainOps
<1>13. FinalIsLast'
  <2>1. CASE cmd_out' = <<>>
    <3>1. Len(cmd_out') = 0
      BY <2>1
    <3> QED
      BY <3>1 DEF FinalIsLast
  <2>2. CASE cmd_in' = cmd_in
    BY <1>1, <1>3, <1>6, <2>2 DEF SendsOnly, Fewer, FinalIsLast
  <2> QED
    BY <1>7, <2>1, <2>2
<1>14. FinishedIsKept'
  BY <1>1, <1>3, <1>6 DEF SendsOnly, Fewer, FinishedIsKept, Kept
<1>15. PathIsOwn'
  <2> SUFFICES ASSUME Talking(g)', op'[g] \in {"commitPath", "executePath"}
               PROVE  /\ path_goal = g
                      /\ cmd_in' # <<>> => Head(cmd_in').op # "beginPath"
                      /\ state' \notin {"setup", "idle"} => command.op # "beginPath"
    BY <1>2, <1>6 DEF PathIsOwn, Talking
  <2>1. CASE Stays(g)
    BY <1>3, <1>6, <1>7, <2>1 DEF Stays, PathIsOwn
  <2>2. CASE Continues(g)
    <3>1. Told(g, "Movement finished") /\ cmd_in' = cmd_in
      BY <1>7, <1>9, <2>2 DEF Continues
    <3>2. path_goal = g
      <4>1. CASE op[g] = "beginPath"
        BY <1>4, <1>5, <3>1, <4>1 DEF Kept, Cmd
      <4>2. CASE op[g] = "commitPath"
        BY <1>3, <1>10, <3>1, <4>2 DEF PathIsOwn
      <4> QED
        BY <2>2, <4>1, <4>2 DEF Continues, UploadOps
    <3> QED
      BY <1>4, <1>5, <1>6, <3>1, <3>2
  <2>3. CASE Withdrawn(g) \/ IsOver(g)
    BY <2>3 DEF Withdrawn, IsOver, Talking
  <2> QED
    BY <1>1, <2>1, <2>2, <2>3 DEF Moves
<1>16. MovedIsFinished'
  BY <1>1, <1>3, <1>6 DEF SendsOnly, MovedIsFinished
<1>17. MotionIsLast'
  <2> SUFFICES ASSUME NEW h \in Goals, NEW o \in MotionOps, Sent(h, o)' \/ Served(h, o)'
               PROVE  op'[h] = o /\ goal'[h] \notin {"new", "canceled"}
    BY DEF MotionIsLast
  <2>1. CASE cmd_in' # cmd_in /\ Sent(h, o)'
    BY <1>7, <1>8, <1>9, <2>1 DEF Sent
  <2>2. CASE ~(cmd_in' # cmd_in /\ Sent(h, o)')
    <3>1. Sent(h, o) \/ Served(h, o)
      BY <1>6, <2>2 DEF Sent, Served
    <3>2. op[h] = o /\ goal[h] \notin {"new", "canceled"}
      BY <1>3, <3>1 DEF MotionIsLast
    <3>3. CASE h # g
      BY <1>2, <3>2, <3>3
    <3>4. CASE h = g /\ Stays(g)
      BY <3>2, <3>4 DEF Stays
    <3>5. CASE h = g /\ (Withdrawn(g) \/ Continues(g))
      BY <1>9, <3>2, <3>5 DEF Withdrawn, Continues
    <3>6. CASE h = g /\ IsOver(g)
      BY <1>4, <1>5, <1>9, <3>1, <3>2, <3>6 DEF IsOver, Reason, Ended
    <3> QED
      BY <1>1, <3>3, <3>4, <3>5, <3>6 DEF Moves
  <2> QED
    BY <2>1, <2>2
<1>18. Stops'
  <2>1. control' = "none" => ctl_in' = <<>>
    BY <1>1, <1>3 DEF SendsOnly, Stops
  <2>2. AbortComing => AbortComing'
    BY <1>1 DEF SendsOnly
  <2>3. ASSUME NEW h \in Goals, Harmless(h), ~(h = g /\ cmd_in' # cmd_in)
        PROVE  Harmless(h)'
    BY <1>6, <1>7, <2>3 DEF Harmless, Sent, Served
  <2>4. ASSUME NEW h \in Goals, h # g, Abandoned(h)' PROVE AbortComing' \/ Harmless(h)'
    BY <1>1, <1>2, <1>3, <2>2, <2>3, <2>4 DEF Abandoned, SendsOnly, Stops
  <2>5. ASSUME Abandoned(g)' PROVE AbortComing' \/ Harmless(g)'
    <3>0. /\ g \notin stop_refused' /\ g \notin stop_refused /\ control_enabled /\ ~dropped
          /\ op'[g] = "executePath"
      BY <1>1, <2>5 DEF Abandoned, SendsOnly
    <3>1. ASSUME Abandoned(g), ~Talking(g) PROVE AbortComing' \/ Harmless(g)'
      BY <1>3, <1>7, <2>2, <2>3, <3>1 DEF Stops
    <3>2. CASE Stays(g) /\ pc'[g] = "stopping"
      BY <3>2 DEF Stays
    <3>3. CASE Stays(g) /\ pc'[g] # "stopping"
      <4>1. goal[g] = "aborted" /\ op[g] = "executePath"
        BY <2>5, <3>3 DEF Stays, Abandoned
      <4> QED
        BY <1>8, <3>0, <3>1, <4>1 DEF Abandoned
    <3>4. CASE Withdrawn(g) \/ Continues(g)
      BY <1>8, <1>10, <2>5, <3>0, <3>4 DEF Withdrawn, Continues, Abandoned
    <3>5. CASE IsOver(g)
      <4>1. goal'[g] = "aborted" /\ Reason(g, "aborted") /\ op[g] = "executePath"
        BY <2>5, <3>5 DEF IsOver, Abandoned
      <4>2. CASE pc[g] = "stopping"
        BY <3>0, <3>1, <4>1, <4>2 DEF Abandoned, Talking
      <4>3. CASE Told(g, "Motion aborted")
        <5>1. cmd_in' = cmd_in /\ Harmless(g)
          <6>1. goal[g] = "executing"
            BY <1>8, <4>3 DEF Told, Talking
          <6> QED
            BY <1>4, <1>5, <1>7, <4>1, <4>3, <6>1 DEF Harmless, MotionOps
        <5> QED
          BY <2>3, <5>1
      <4> QED
        BY <3>0, <4>1, <4>2, <4>3 DEF Reason
    <3> QED
      BY <1>1, <3>2, <3>3, <3>4, <3>5 DEF Moves
  <2> QED
    BY <2>1, <2>4, <2>5 DEF Stops
<1>19. SuccessIsOwn'
  <2>1. ASSUME IsOver(g), goal'[g] = "succeeded", kind[g] \in {"move", "path"}
        PROVE  g \in finished
    <3>1. Reason(g, "succeeded")
      BY <2>1 DEF IsOver
    <3>2. op[g] \notin QueryOps
      BY <1>2, <1>3, <2>1 DEF OneThread, Places, QueryOps, PathOps, UploadOps
    <3>3. /\ Told(g, "Movement finished")
          /\ kind[g] = "path" => op[g] = "executePath"
      BY <3>1, <3>2 DEF Reason
    <3>4. op[g] \in MotionOps
      BY <1>2, <1>3, <2>1, <3>3 DEF Places, MotionOps
    <3> QED
      BY <1>4, <1>5, <3>3, <3>4 DEF Kept, Cmd
  <2>2. goal'[g] = goal[g] \/ IsOver(g)
    BY <1>1 DEF Moves, Stays, Withdrawn, Continues
  <2> QED
    BY <1>2, <1>3, <1>6, <2>1, <2>2 DEF SuccessIsOwn
<1> QED
  BY <1>11, <1>12, <1>13, <1>14, <1>15, <1>16, <1>17, <1>18, <1>19 DEF Outcomes

-----------------------------------------------------------------------------
(***************************************************************************)
(* The programs preserve the invariant.                                    *)
(***************************************************************************)

(* A step of the control connection alone.                                 *)
LEMMA ControlOutcomes ==
  ASSUME Outcomes, AbortComing => AbortComing' \/ dropped',
         control' = "none" => ctl_in' = <<>>, ~dropped' => ~dropped,
         UNCHANGED <<mainVars, serviceVars, pc, op, goal, kind,
                     control_enabled, stop_refused>>
  PROVE  Outcomes'
<1> USE DEF Outcomes, mainVars, serviceVars
<1>1. Places' /\ MainOps' /\ FinalIsLast' /\ FinishedIsKept'
  BY DEF Places, Talking, MainOps, FinalIsLast, FinishedIsKept, Kept
<1>2. PathIsOwn' /\ MovedIsFinished'
  BY DEF PathIsOwn, Talking, MovedIsFinished
<1>3. MotionIsLast' /\ \A g \in Goals : Harmless(g) => Harmless(g)'
  BY DEF MotionIsLast, Harmless, Sent, Served
<1>4. \A g \in Goals : Abandoned(g)' => Abandoned(g) /\ ~dropped'
  BY DEF Abandoned
<1>5. Stops'
  BY <1>3, <1>4 DEF Stops
<1>6. SuccessIsOwn'
  BY DEF SuccessIsOwn
<1> QED
  BY <1>1, <1>2, <1>3, <1>5, <1>6

(* While a program step leaves the threads alone, the part of the          *)
(* invariant that concerns the main program and the movement service is    *)
(* enough.                                                                 *)
Rest == UNCHANGED <<pc, op, goal, kind, control_enabled, stop_refused, dropped>>

LEMMA RestOutcomes ==
  ASSUME Outcomes, Rest, finished \subseteq finished',
         control' = "none" => ctl_in' = <<>>,
         AbortComing => AbortComing',
         \A g \in Goals : Harmless(g) => Harmless(g)' \/ AbortComing',
         \A g \in Goals, o \in MotionOps :
            Sent(g, o)' \/ Served(g, o)' => Sent(g, o) \/ Served(g, o),
         MainOps', FinalIsLast', FinishedIsKept', PathIsOwn', MovedIsFinished'
  PROVE  Outcomes'
<1> USE DEF Outcomes, Rest
<1>1. Places'
  BY DEF Places, Talking
<1>2. MotionIsLast'
  BY DEF MotionIsLast
<1>3. \A g \in Goals : Abandoned(g)' => Abandoned(g)
  BY DEF Abandoned
<1>4. Stops'
  BY <1>3 DEF Stops
<1>5. SuccessIsOwn'
  BY DEF SuccessIsOwn
<1> QED
  BY <1>1, <1>2, <1>4, <1>5

(* The answers there are after a message of the main program.              *)
Added(m) == \A i \in 1 .. Len(cmd_out') :
              \/ cmd_out'[i] = m /\ lun = "open"
              \/ \E j \in 1 .. Len(cmd_out) : cmd_out'[i] = cmd_out[j]

LEMMA AnswerAdded ==
  ASSUME Types, MainEnd, state \notin {"setup", "idle"},
         NEW k \in Finals \cup {"echo", "JOINTS", "PATH_EVENT"},
         cmd_out' = Written([kind |-> k, of |-> command])
  PROVE  Added([kind |-> k, of |-> command])
<1> DEFINE m == [kind |-> k, of |-> command]
<1>1. cmd_out \in Seq(Message) /\ Len(cmd_out) \in Nat /\ m \in Message
  BY LenProperties DEF Types, ProgramsTypeOK, MainEnd, Message
<1>2. CASE lun = "open"
  <2>1. cmd_out' = Append(cmd_out, m)
    BY <1>2 DEF Written
  <2> HIDE DEF m
  <2>2. /\ Len(cmd_out') = Len(cmd_out) + 1 /\ cmd_out'[Len(cmd_out')] = m
        /\ \A i \in 1 .. Len(cmd_out) : cmd_out'[i] = cmd_out[i]
    BY <1>1, <2>1, AppendProperties
  <2>3. \A i \in 1 .. Len(cmd_out') : i \in 1 .. Len(cmd_out) \/ i = Len(cmd_out')
    BY <1>1, <2>2
  <2> QED
    BY <1>2, <2>2, <2>3 DEF Added, m
<1>3. CASE lun # "open"
  BY <1>3 DEF Written, Added
<1> QED
  BY <1>2, <1>3

(* A message that ends no command.                                         *)
LEMMA OtherAnswer ==
  ASSUME FinalIsLast, FinishedIsKept, state \notin {"idle", "error", "setup"},
         NEW k \in {"echo", "PATH_EVENT"}, Added([kind |-> k, of |-> command]),
         UNCHANGED <<path_goal, finished>>
  PROVE  FinalIsLast' /\ FinishedIsKept'
<1>1. k \notin Finals /\ "Movement finished" \in Finals
  BY DEF Finals
<1>2. ASSUME NEW i \in 1 .. Len(cmd_out')
      PROVE  cmd_out'[i].kind \notin Finals
  <2> DEFINE m == [kind |-> k, of |-> command]
  <2>1. m.kind = k /\ Added(m)
    OBVIOUS
  <2> HIDE DEF m
  <2>2. CASE cmd_out'[i] = m
    BY <1>1, <2>1, <2>2
  <2>3. CASE \E j \in 1 .. Len(cmd_out) : cmd_out'[i] = cmd_out[j]
    BY <2>3 DEF FinalIsLast
  <2> QED
    BY <2>1, <2>2, <2>3 DEF Added
<1> QED
  BY <1>1, <1>2 DEF FinalIsLast, FinishedIsKept

(* An answer that ends a command which is not a motion still running.      *)
LEMMA AnswerOutcomes ==
  ASSUME Types, Ends, Outcomes, Rest, UNCHANGED controlVars,
         state \in Serving, state' \in {"idle", "error"},
         state' = "error" => command.op = "unknown",
         NEW k \in Finals \cup {"JOINTS"}, Answer(k),
         UNCHANGED <<command, lun, cmd_in, finished>>,
         path_goal' = path_goal \/ command.op = "beginPath",
         k = "Movement finished" /\ lun = "open" => Kept(command)'
  PROVE  Outcomes'
<1>1. cmd_in = <<>> /\ Added([kind |-> k, of |-> command])
  BY AnswerAdded DEF Answer, Ends, MainEnd, Serving, Finals
<1>2. /\ FinalIsLast /\ FinishedIsKept /\ PathIsOwn /\ Stops
  BY DEF Outcomes
<1>3. MainOps' /\ MovedIsFinished'
  BY DEF MainOps, MovedIsFinished
<1>4. FinalIsLast'
  BY <1>1, <1>2 DEF FinalIsLast
<1>5. \A i \in 1 .. Len(cmd_out) : cmd_out[i].kind # "Movement finished"
  BY <1>2 DEF FinalIsLast, Serving, Finals
<1>6. FinishedIsKept'
  <2>1. ASSUME NEW i \in 1 .. Len(cmd_out'), cmd_out'[i].kind = "Movement finished"
        PROVE  /\ cmd_out'[i].of = command /\ k = "Movement finished" /\ lun = "open"
    <3> DEFINE m == [kind |-> k, of |-> command]
    <3>1. m.kind = k /\ m.of = command /\ Added(m)
      BY <1>1
    <3> HIDE DEF m
    <3>2. cmd_out'[i] = m /\ lun = "open"
      BY <1>5, <2>1, <3>1 DEF Added
    <3> QED
      BY <2>1, <3>1, <3>2
  <2> QED
    BY <2>1 DEF FinishedIsKept, Kept
<1>7. PathIsOwn'
  BY <1>1, <1>2 DEF PathIsOwn, Talking, Rest, Serving
<1>8. \A g \in Goals, o \in MotionOps : ~Sent(g, o)' /\ ~Served(g, o)'
  BY <1>1 DEF Sent, Served, MotionOps
<1>9. \A g \in Goals : Harmless(g)'
  BY <1>8 DEF Harmless, MotionOps
<1>10. /\ AbortComing => AbortComing'
       /\ control' = "none" => ctl_in' = <<>>
  BY <1>2 DEF AbortComing, controlVars, Stops
<1> QED
  BY <1>3, <1>4, <1>6, <1>7, <1>8, <1>9, <1>10, RestOutcomes

LEMMA ProgramOutcomes ==
  ASSUME Types, Ends, Outcomes, ProgramStep, UNCHANGED <<serverVars, dropped>>
  PROVE  Outcomes'
<1>0. Rest
  BY DEF Rest, serverVars, goalVars, threadVars
<1>1. /\ MainOps /\ FinalIsLast /\ FinishedIsKept /\ PathIsOwn
      /\ MovedIsFinished /\ MotionIsLast /\ Stops
  BY DEF Outcomes
<1>2. ASSUME UNCHANGED controlVars
      PROVE  /\ AbortComing => AbortComing'
             /\ control' = "none" => ctl_in' = <<>>
  BY <1>1, <1>2 DEF AbortComing, controlVars, Stops
<1>3. CASE get_command
  <2>1. /\ state = "idle" /\ state' = "permission" /\ cmd_in # <<>>
        /\ cmd_in' = <<>> /\ UNCHANGED <<lun, cmd_out, serviceVars, controlVars>>
        /\ command'.op = Head(cmd_in).op /\ command'.goal = Head(cmd_in).goal
    BY <1>3, LastRead DEF get_command, Ends
  <2>2. MainOps' /\ FinalIsLast' /\ FinishedIsKept' /\ MovedIsFinished'
    BY <1>1, <2>1 DEF MainOps, FinalIsLast, FinishedIsKept, MovedIsFinished,
       serviceVars, Kept
  <2>3. PathIsOwn'
    BY <1>0, <1>1, <2>1 DEF PathIsOwn, Talking, Rest, serviceVars
  <2>4. \A g \in Goals, o \in Ops : Sent(g, o)' \/ Served(g, o)' => Sent(g, o)
    BY <2>1 DEF Sent, Served
  <2>5. \A g \in Goals : Harmless(g) => Harmless(g)'
    BY <2>1, <2>4 DEF Harmless, Ops, MotionOps, serviceVars
  <2>6. finished' = finished /\ MotionOps \subseteq Ops
    BY <2>1 DEF serviceVars, Ops
  <2> QED
    BY <1>0, <1>2, <2>1, <2>2, <2>3, <2>4, <2>5, <2>6, RestOutcomes
<1>4. CASE SendEcho
  <2>1. /\ state = "permission" /\ state' = "echoed"
        /\ UNCHANGED <<command, lun, cmd_in, serviceVars, controlVars>>
        /\ Added([kind |-> "echo", of |-> command])
    BY <1>4, AnswerAdded DEF SendEcho, Ends
  <2>2. FinalIsLast' /\ FinishedIsKept'
    BY <2>1, OtherAnswer DEF Outcomes, serviceVars
  <2>3. MainOps' /\ MovedIsFinished' /\ PathIsOwn'
    BY <1>0, <1>1, <2>1 DEF MainOps, MovedIsFinished, PathIsOwn, Talking, Rest,
       serviceVars
  <2>4. /\ \A g \in Goals, o \in MotionOps :
             Sent(g, o)' \/ Served(g, o)' => Sent(g, o) \/ Served(g, o)
        /\ \A g \in Goals : Harmless(g) => Harmless(g)'
    BY <2>1 DEF Harmless, Sent, Served, serviceVars
  <2>5. finished' = finished
    BY <2>1 DEF serviceVars
  <2> QED
    BY <1>0, <1>2, <2>1, <2>2, <2>3, <2>4, <2>5, RestOutcomes
<1>5. CASE can_start
  <2>1. /\ state = "echoed" /\ state' \in {"movement", "idle"} /\ cmd_in' = <<>>
        /\ UNCHANGED <<command, lun, cmd_out, serviceVars, controlVars>>
    BY <1>5, LastRead DEF can_start, ReadsNothing, Ends
  <2>2. FinalIsLast' /\ FinishedIsKept'
    BY <1>1, <2>1 DEF FinalIsLast, FinishedIsKept, Kept, serviceVars
  <2>3. MainOps' /\ MovedIsFinished' /\ PathIsOwn'
    BY <1>0, <1>1, <2>1 DEF MainOps, MovedIsFinished, PathIsOwn, Talking, Rest,
       serviceVars
  <2>4. /\ \A g \in Goals, o \in MotionOps :
             Sent(g, o)' \/ Served(g, o)' => Sent(g, o) \/ Served(g, o)
        /\ \A g \in Goals : Harmless(g) => Harmless(g)'
    BY <2>1 DEF Harmless, Sent, Served, serviceVars
  <2>5. finished' = finished
    BY <2>1 DEF serviceVars
  <2> QED
    BY <1>0, <1>2, <2>1, <2>2, <2>3, <2>4, <2>5, RestOutcomes
<1>6. CASE SendQueried
  <2>1. state \in Serving /\ "JOINTS" # "Movement finished"
    BY <1>6 DEF SendQueried, Serving
  <2> QED
    BY <1>0, <1>6, <2>1, AnswerOutcomes DEF SendQueried, serviceVars
<1>7. ASSUME state \in Serving, state' \in Serving,
             UNCHANGED <<command, lun, cmd_in, cmd_out, path_goal, finished, controlVars>>,
             state' = "moving" => command.op \in MotionOps,
             state' # "moving" \/ arm' # NoGoal,
             \A g \in Goals : Harmless(g) => Harmless(g)'
      PROVE  Outcomes'
  <2>1. state \notin {"setup", "idle", "error"} /\ state' \notin {"setup", "idle", "error"}
    BY <1>7 DEF Serving
  <2>2. FinalIsLast' /\ FinishedIsKept'
    BY <1>1, <1>7, <2>1 DEF FinalIsLast, FinishedIsKept, Kept
  <2>3. MainOps' /\ MovedIsFinished' /\ PathIsOwn'
    BY <1>0, <1>1, <1>7, <2>1 DEF MainOps, MovedIsFinished, PathIsOwn, Talking, Rest
  <2>4. \A g \in Goals, o \in MotionOps : /\ Sent(g, o)' => Sent(g, o)
                                          /\ Served(g, o)' => Served(g, o)
    BY <1>7, <2>1 DEF Sent, Served
  <2> QED
    BY <1>0, <1>2, <1>7, <2>2, <2>3, <2>4, RestOutcomes
<1>8. CASE reset_abort
  <2>1. \A g \in Goals : Harmless(g) => Harmless(g)'
    BY <1>8 DEF reset_abort, Harmless, Sent, Served
  <2> QED
    BY <1>7, <1>8, <2>1 DEF reset_abort, Serving
<1>9. CASE call_service
  <2>1. /\ state = "cleared"
        /\ UNCHANGED <<command, lun, cmd_in, serviceVars, controlVars>>
    BY <1>9 DEF call_service
  <2>2. CASE CallAdmitted
    <3>1. \A g \in Goals : Harmless(g) => Harmless(g)'
      <4>1. command.op = "executePath" => path_state = "ready"
        BY <2>2 DEF CallAdmitted, Admits
      <4>2. cmd_in = <<>>
        BY <2>1 DEF Ends, MainEnd
      <4> QED
        BY <2>1, <4>1, <4>2 DEF Harmless, Sent, Served
    <3> QED
      BY <1>7, <2>1, <2>2, <3>1 DEF CallAdmitted, Serving, serviceVars
  <2>3. CASE CallRefused
    BY <1>0, <2>1, <2>3, AnswerOutcomes DEF CallRefused, Finals, Serving, serviceVars
  <2>4. CASE CallAborted
    BY <1>0, <2>1, <2>4, AnswerOutcomes DEF CallAborted, Finals, Serving, serviceVars
  <2> QED
    BY <1>9, <2>2, <2>3, <2>4 DEF call_service
<1>10. CASE ApplyUpload
  <2>1. /\ state = "admitted" /\ state' = "idle" /\ command.op \notin MotionOps
        /\ Answer("Movement finished")
        /\ UNCHANGED <<command, lun, cmd_in, finished, controlVars>>
    BY <1>10 DEF ApplyUpload
  <2>2. IF command.op = "beginPath" THEN path_goal' = command.goal
                                    ELSE path_goal' = path_goal
    BY <1>10 DEF ApplyUpload
  <2>3. Kept(command)' /\ state \in Serving /\ "Movement finished" \in Finals
    BY <2>1, <2>2 DEF Kept, Serving, Finals
  <2> QED
    BY <1>0, <2>1, <2>2, <2>3, AnswerOutcomes
<1>11. CASE StartMotion
  <2>1. arm' # NoGoal
    BY <1>11, ProgramsAssumption DEF StartMotion, Ends, MainEnd, Command
  <2>2. \A g \in Goals : Harmless(g) => Harmless(g)'
    BY <1>11 DEF StartMotion, Harmless, Sent, Served
  <2> QED
    BY <1>7, <1>11, <2>1, <2>2 DEF StartMotion, Serving
<1>12. CASE MotionReturns
  <2>1. /\ state = "moving" /\ command.op \in MotionOps /\ state \in Serving
        /\ ResultOfMotion \in Finals
    BY <1>1, <1>12 DEF MotionReturns, MainOps, Serving, ResultOfMotion, Finals
  <2>2. ResultOfMotion = "Movement finished" /\ lun = "open" => Kept(command)'
    BY <1>1, <1>12, <2>1 DEF MotionReturns, ResultOfMotion, MovedIsFinished, Kept,
       serviceVars, MotionOps
  <2> QED
    BY <1>0, <1>12, <2>1, <2>2, AnswerOutcomes DEF MotionReturns, serviceVars
<1>13. CASE ReachTarget
  <2>1. /\ state = "moving" /\ command.goal = arm /\ arm \in Goals
        /\ UNCHANGED <<state, command, lun, cmd_in, cmd_out, motion_aborted,
                       path_state, path_goal, controlVars>>
        /\ finished \subseteq finished'
    BY <1>13, ProgramsAssumption
       DEF ReachTarget, Ends, MainEnd, mainVars, Types, ProgramsTypeOK
  <2>2. MainOps' /\ FinalIsLast' /\ FinishedIsKept' /\ PathIsOwn'
    BY <1>0, <1>1, <2>1 DEF MainOps, FinalIsLast, FinishedIsKept, Kept, PathIsOwn,
       Talking, Rest
  <2>3. MovedIsFinished'
    <3>1. ASSUME lun = "open", command.op = "executePath" PROVE path_goal = arm
      <4>1. PICK g \in Goals : pc[g] = "final" /\ command = Cmd(g)
        BY <2>1, <3>1, ServedClientWaits DEF Serving, NoneWaiting, Waiting
      <4> QED
        BY <1>1, <2>1, <3>1, <4>1 DEF PathIsOwn, Talking, Cmd
    <3> QED
      BY <1>13, <2>1, <3>1 DEF ReachTarget, MovedIsFinished
  <2>4. /\ \A g \in Goals, o \in MotionOps :
             Sent(g, o)' \/ Served(g, o)' => Sent(g, o) \/ Served(g, o)
        /\ \A g \in Goals : Harmless(g) => Harmless(g)'
    BY <2>1 DEF Harmless, Sent, Served
  <2> QED
    BY <1>0, <1>2, <2>1, <2>2, <2>3, <2>4, RestOutcomes
<1>14. CASE report_path_event
  <2>1. /\ state = "moving"
        /\ UNCHANGED <<state, command, lun, cmd_in, serviceVars, controlVars>>
        /\ Answer("PATH_EVENT")
    BY <1>14 DEF report_path_event, Ends, MainEnd
  <2>2. Added([kind |-> "PATH_EVENT", of |-> command])
    BY <2>1, AnswerAdded DEF Answer, Ends
  <2>3. FinalIsLast' /\ FinishedIsKept'
    BY <2>1, <2>2, OtherAnswer DEF Outcomes, serviceVars
  <2>4. MainOps' /\ MovedIsFinished' /\ PathIsOwn'
    BY <1>0, <1>1, <2>1 DEF MainOps, MovedIsFinished, PathIsOwn, Talking, Rest,
       serviceVars
  <2>5. /\ \A g \in Goals, o \in MotionOps :
             Sent(g, o)' \/ Served(g, o)' => Sent(g, o) \/ Served(g, o)
        /\ \A g \in Goals : Harmless(g) => Harmless(g)'
    BY <2>1 DEF Harmless, Sent, Served, serviceVars
  <2>6. finished' = finished
    BY <2>1 DEF serviceVars
  <2> QED
    BY <1>0, <1>2, <2>1, <2>3, <2>4, <2>5, <2>6, RestOutcomes
<1>15. CASE request_abort
  <2>1. /\ UNCHANGED <<mainVars, path_goal, finished, control, ctl_in>>
        /\ motion_aborted' = TRUE /\ path_state' = "none"
    BY <1>15 DEF request_abort
  <2>2. \A g \in Goals : Harmless(g)'
    BY <2>1 DEF Harmless
  <2>3. MainOps' /\ FinalIsLast' /\ FinishedIsKept' /\ PathIsOwn' /\ MovedIsFinished'
    BY <1>0, <1>1, <2>1 DEF MainOps, FinalIsLast, FinishedIsKept, Kept, PathIsOwn,
       Talking, Rest, MovedIsFinished, mainVars
  <2>4. Places' /\ SuccessIsOwn'
    BY <1>0, <2>1 DEF Outcomes, Places, Talking, SuccessIsOwn, Rest
  <2>5. MotionIsLast' /\ Stops'
    BY <1>0, <1>1, <2>1, <2>2 DEF MotionIsLast, Stops, Sent, Served, Rest, mainVars
  <2> QED
    BY <2>3, <2>4, <2>5 DEF Outcomes
<1>16. ASSUME NEW e, NEW lock, LockHandler(e, lock), e # "abortMotion" PROVE Outcomes'
  <2>1. /\ UNCHANGED <<mainVars, motion_aborted, path_state, arm, path_goal,
                       finished, control, ctl_in>>
        /\ AbortComing => AbortComing'
    BY <1>16 DEF LockHandler, AbortComing
  <2>2. MainOps' /\ FinalIsLast' /\ FinishedIsKept' /\ PathIsOwn' /\ MovedIsFinished'
    BY <1>0, <1>1, <2>1 DEF MainOps, FinalIsLast, FinishedIsKept, Kept, PathIsOwn,
       Talking, Rest, MovedIsFinished, mainVars
  <2>3. /\ \A g \in Goals, o \in MotionOps :
             Sent(g, o)' \/ Served(g, o)' => Sent(g, o) \/ Served(g, o)
        /\ \A g \in Goals : Harmless(g) => Harmless(g)'
    BY <2>1 DEF Harmless, Sent, Served, mainVars
  <2>4. control' = "none" => ctl_in' = <<>>
    BY <1>1, <2>1 DEF Stops
  <2> QED
    BY <1>0, <2>1, <2>2, <2>3, <2>4, RestOutcomes
<1>17. CASE process_control_command
  <2>1. ctl_in \in Seq(Events) /\ Len(ctl_in) \in Nat /\ ctl_in # <<>>
    BY <1>17, LenProperties DEF process_control_command, Types, ProgramsTypeOK
  <2>2. /\ Len(ctl_in') = Len(ctl_in) - 1 /\ Head(ctl_in) = ctl_in[1]
        /\ \A i \in 1 .. Len(ctl_in') : ctl_in'[i] = ctl_in[i + 1]
    BY <1>17, <2>1, HeadTailProperties DEF process_control_command
  <2>3. events' = events \cup {ctl_in[1]}
    BY <1>17, <2>2 DEF process_control_command
  <2>4. ASSUME NEW i \in 1 .. Len(ctl_in), ctl_in[i] = "abortMotion"
        PROVE  AbortComing'
    <3>1. CASE i = 1
      BY <2>3, <2>4, <3>1 DEF AbortComing
    <3>2. CASE i # 1
      <4>1. i - 1 \in 1 .. Len(ctl_in') /\ (i - 1) + 1 = i
        BY <2>1, <2>2, <3>2
      <4>2. ctl_in'[i - 1] = "abortMotion"
        BY <2>2, <2>4, <4>1
      <4> QED
        BY <4>1, <4>2 DEF AbortComing
    <3> QED
      BY <3>1, <3>2
  <2>5. AbortComing => AbortComing'
    <3>1. "abortMotion" \in events => AbortComing'
      BY <2>3 DEF AbortComing
    <3> QED
      BY <2>4, <3>1 DEF AbortComing
  <2>6. control' # "none"
    BY <1>1, <1>17 DEF process_control_command, Stops
  <2> QED
    BY <1>0, <1>17, <2>5, <2>6, ControlOutcomes DEF process_control_command, Rest
<1>18. CASE OperatorResumes
  <2>1. /\ state = "error" /\ state' = "idle"
        /\ UNCHANGED <<command, lun, cmd_in, cmd_out, serviceVars, controlVars>>
    BY <1>18 DEF OperatorResumes
  <2>2. MainOps' /\ FinalIsLast' /\ FinishedIsKept' /\ PathIsOwn' /\ MovedIsFinished'
    BY <1>0, <1>1, <2>1 DEF MainOps, FinalIsLast, FinishedIsKept, Kept, PathIsOwn,
       Talking, Rest, MovedIsFinished, serviceVars
  <2>3. /\ \A g \in Goals, o \in MotionOps :
             Sent(g, o)' \/ Served(g, o)' => Sent(g, o) \/ Served(g, o)
        /\ \A g \in Goals : Harmless(g) => Harmless(g)'
    BY <2>1 DEF Harmless, Sent, Served, serviceVars
  <2>4. finished' = finished
    BY <2>1 DEF serviceVars
  <2> QED
    BY <1>0, <1>2, <2>1, <2>2, <2>3, <2>4, RestOutcomes
<1> QED
  BY <1>3, <1>4, <1>5, <1>6, <1>8, <1>9, <1>10, <1>11, <1>12, <1>13, <1>14,
     <1>15, <1>16, <1>17, <1>18 DEF ProgramStep, MainStep, ConditionHandler

-----------------------------------------------------------------------------
(***************************************************************************)
(* Every step preserves the invariant.                                     *)
(***************************************************************************)

LEMMA OutsideOutcomes ==
  ASSUME Types, OneThread, Ends, Outcomes,
         \/ \E g \in Goals, k \in GoalKinds : RequestGoal(g, k)
         \/ \E e \in Events : RequestControl(e)
         \/ Restart \/ Lose
  PROVE  Outcomes'
<1>0. /\ Places /\ MainOps /\ FinalIsLast /\ FinishedIsKept /\ PathIsOwn
      /\ MovedIsFinished /\ MotionIsLast /\ Stops /\ SuccessIsOwn
  BY DEF Outcomes
<1>1. ASSUME NEW g \in Goals, NEW k \in GoalKinds, RequestGoal(g, k)
      PROVE  Outcomes'
  <2>1. /\ goal[g] = "new" /\ pc[g] = "none" /\ op[g] = "getJoints"
        /\ goal' \in [Goals -> {"new", "rejected", "executing"} \cup Ended]
        /\ goal'[g] \in {"rejected", "executing"} /\ kind'[g] = k
        /\ \/ pc'[g] = "next" /\ op'[g] = FirstOp[k] /\ goal'[g] = "executing"
           \/ pc'[g] = "none" /\ op'[g] = "getJoints"
        /\ \A h \in Goals \ {g} : /\ pc'[h] = pc[h] /\ op'[h] = op[h]
                                  /\ goal'[h] = goal[h] /\ kind'[h] = kind[h]
    BY <1>0, <1>1 DEF RequestGoal, goal_callback, threadVars, OneThread, Places,
       Types, ServerTypeOK, Ended
  <2>2. UNCHANGED <<programVars, control_enabled, stop_refused, dropped>>
    BY <1>1 DEF RequestGoal, goal_callback
  <2>3. /\ k = "move" <=> FirstOp[k] = "move"
        /\ FirstOp[k] \notin {"commitPath", "executePath"}
    BY DEF GoalKinds, FirstOp
  <2> USE DEF programVars, mainVars, serviceVars, controlVars
  <2>4. Places'
    BY <1>0, <2>1, <2>3 DEF Places, Talking
  <2>5. MainOps' /\ FinalIsLast' /\ FinishedIsKept' /\ MovedIsFinished'
    BY <1>0, <2>2 DEF MainOps, FinalIsLast, FinishedIsKept, Kept, MovedIsFinished
  <2>6. PathIsOwn'
    BY <1>0, <2>1, <2>2, <2>3 DEF PathIsOwn, Talking
  <2>7. \A h \in Goals, o \in MotionOps : Sent(h, o)' \/ Served(h, o)' => h # g
    BY <1>0, <2>1, <2>2 DEF MotionIsLast, Sent, Served
  <2>8. MotionIsLast'
    <3>1. \A h \in Goals, o \in MotionOps :
            Sent(h, o)' \/ Served(h, o)' => Sent(h, o) \/ Served(h, o)
      BY <2>2 DEF Sent, Served
    <3> QED
      BY <1>0, <2>1, <2>7, <3>1 DEF MotionIsLast
  <2>9. Stops'
    <3>1. \A h \in Goals : Abandoned(h)' => Abandoned(h)
      BY <2>1, <2>2, <2>3 DEF Abandoned
    <3>2. \A h \in Goals : Harmless(h) => Harmless(h)'
      BY <2>2 DEF Harmless, Sent, Served
    <3>3. AbortComing => AbortComing'
      BY <2>2 DEF AbortComing
    <3> QED
      BY <1>0, <2>2, <3>1, <3>2, <3>3 DEF Stops
  <2>10. SuccessIsOwn'
    BY <1>0, <2>1, <2>2 DEF SuccessIsOwn
  <2> QED
    BY <2>4, <2>5, <2>6, <2>8, <2>9, <2>10 DEF Outcomes
<1>2. ASSUME NEW e \in Events, RequestControl(e) PROVE Outcomes'
  <2>1. UNCHANGED <<serverVars, dropped, mainVars, serviceVars, events>>
    BY <1>2 DEF RequestControl, _handle_trigger, NodeFrame
  <2>2. /\ AbortComing => AbortComing'
        /\ control' = "none" => ctl_in' = <<>>
    <3>1. CASE control = Node /\ ctl_in' = Append(ctl_in, e) /\ control' = control
      <4>1. /\ Len(ctl_in') = Len(ctl_in) + 1 /\ Len(ctl_in) \in Nat
            /\ \A i \in 1 .. Len(ctl_in) : ctl_in'[i] = ctl_in[i]
        BY <3>1, AppendProperties, LenProperties DEF Types, ProgramsTypeOK
      <4>2. \A i \in 1 .. Len(ctl_in) : i \in 1 .. Len(ctl_in')
        BY <4>1
      <4> QED
        BY <2>1, <3>1, <4>1, <4>2, BridgeAssumption, NodeAssumption DEF AbortComing
    <3>2. CASE setup_connection(Node)
      <4>1. Len(ctl_in) = 0 /\ control' # "none"
        BY <1>0, <3>2, BridgeAssumption, NodeAssumption DEF setup_connection, Stops
      <4> QED
        BY <2>1, <4>1 DEF AbortComing
    <3>3. CASE UNCHANGED <<control, ctl_in>>
      BY <1>0, <2>1, <3>3 DEF AbortComing, Stops
    <3> QED
      BY <1>2, <3>1, <3>2, <3>3 DEF RequestControl, _handle_trigger
  <2> QED
    BY <2>1, <2>2, ControlOutcomes DEF serverVars, goalVars, threadVars
<1>3. CASE Restart
  <2>0. UNCHANGED <<serverVars, dropped>>
    BY <1>3 DEF Restart
  <2>1. CASE /\ state = "idle" /\ ReadsNothing
             /\ state' = "setup" /\ lun' = "none"
             /\ UNCHANGED <<command, cmd_in, cmd_out, serviceVars, controlVars>>
    <3>1. Rest /\ finished' = finished /\ cmd_in = <<>>
      BY <2>0, <2>1 DEF Rest, serverVars, goalVars, threadVars, serviceVars, ReadsNothing
    <3>2. MainOps' /\ FinalIsLast' /\ FinishedIsKept' /\ PathIsOwn' /\ MovedIsFinished'
      BY <1>0, <2>1, <3>1 DEF MainOps, FinalIsLast, FinishedIsKept, Kept, PathIsOwn,
         Talking, Rest, MovedIsFinished, serviceVars
    <3>3. /\ \A g \in Goals, o \in MotionOps :
               Sent(g, o)' \/ Served(g, o)' => Sent(g, o) \/ Served(g, o)
          /\ \A g \in Goals : Harmless(g) => Harmless(g)'
      BY <2>1 DEF Harmless, Sent, Served, serviceVars
    <3>4. /\ AbortComing => AbortComing'
          /\ control' = "none" => ctl_in' = <<>>
      BY <1>0, <2>1 DEF AbortComing, controlVars, Stops
    <3> QED
      BY <3>1, <3>2, <3>3, <3>4, RestOutcomes
  <2>2. CASE /\ control = "lost" /\ ctl_in = <<>>
             /\ control' = "none"
             /\ UNCHANGED <<mainVars, serviceVars, ctl_in, ctl_out, events>>
    BY <2>0, <2>2, ControlOutcomes DEF AbortComing, serverVars, goalVars, threadVars
  <2> QED
    BY <1>3, <2>1, <2>2 DEF Restart, OperatorRestarts
<1>4. CASE Lose
  <2>0. UNCHANGED serverVars /\ dropped' = (dropped \/ ctl_in' # ctl_in)
    BY <1>4 DEF Lose
  <2>1. CASE /\ lun = "open" /\ lun' = "lost"
             /\ cmd_in' \in {cmd_in, <<>>} /\ cmd_out' \in {cmd_out, <<>>}
             /\ UNCHANGED <<state, command, serviceVars, controlVars>>
    <3>0. ctl_in' = ctl_in /\ dropped' = dropped
      BY <2>0, <2>1 DEF controlVars, Types
    <3>1. Rest /\ finished' = finished
      BY <2>0, <2>1, <3>0 DEF Rest, serverVars, goalVars, threadVars, serviceVars
    <3>2. Fewer
      BY <2>1, AnswersLeft
    <3>3. MainOps' /\ PathIsOwn' /\ MovedIsFinished'
      BY <1>0, <2>1, <3>1 DEF MainOps, PathIsOwn, Talking, Rest, MovedIsFinished,
         serviceVars
    <3>4. FinalIsLast' /\ FinishedIsKept'
      BY <1>0, <2>1, <3>2 DEF Fewer, FinalIsLast, FinishedIsKept, Kept, serviceVars
    <3>5. /\ \A g \in Goals, o \in MotionOps :
               Sent(g, o)' \/ Served(g, o)' => Sent(g, o) \/ Served(g, o)
          /\ \A g \in Goals : Harmless(g) => Harmless(g)'
      BY <2>1 DEF Harmless, Sent, Served, serviceVars
    <3>6. /\ AbortComing => AbortComing'
          /\ control' = "none" => ctl_in' = <<>>
      BY <1>0, <2>1 DEF AbortComing, controlVars, Stops
    <3> QED
      BY <3>1, <3>3, <3>4, <3>5, <3>6, RestOutcomes
  <2>2. CASE /\ control \in Clients /\ control' = "lost"
             /\ ctl_in' \in {ctl_in, <<>>} /\ ctl_out' = <<>>
             /\ UNCHANGED <<mainVars, serviceVars, events>>
    <3>1. AbortComing => AbortComing' \/ dropped'
      BY <2>0, <2>2 DEF AbortComing
    <3> QED
      BY <2>0, <2>2, <3>1, ControlOutcomes DEF serverVars, goalVars, threadVars
  <2> QED
    BY <1>4, <2>1, <2>2 DEF Lose, LoseConnection
<1> QED
  BY <1>1, <1>2, <1>3, <1>4

LEMMA OutcomesStep ==
  ASSUME Types, Handshake, Outcomes, [Next]_vars
  PROVE  Outcomes'
<1>0. OneThread /\ Ends /\ Stops
  BY DEF Handshake, Ends, Outcomes
<1>1. ASSUME UNCHANGED <<control, ctl_in, events>>
      PROVE  /\ AbortComing => AbortComing'
             /\ control' = "none" => ctl_in' = <<>>
  BY <1>0, <1>1 DEF AbortComing, Stops
<1>2. CASE UNCHANGED vars
  BY <1>1, <1>2, ControlOutcomes DEF vars, programVars, controlVars, serverVars,
     goalVars, threadVars
<1>3. ASSUME NEW g \in Goals, Thread(g), UNCHANGED dropped PROVE Outcomes'
  BY <1>0, <1>3, ThreadOutcomes
<1>4. ASSUME NEW g \in Goals, cancel_callback(g), UNCHANGED dropped PROVE Outcomes'
  BY <1>4, AbortIsComing, ControlOutcomes DEF cancel_callback, goalVars, threadVars
<1>5. CASE (cancel_accepted \/ cancel_rejected) /\ UNCHANGED dropped
  BY <1>1, <1>5, ControlOutcomes DEF cancel_accepted, cancel_rejected, goalVars,
     threadVars, programVars, controlVars
<1>6. CASE NodeStep /\ UNCHANGED <<serverVars, dropped>>
  <2>1. UNCHANGED <<mainVars, serviceVars, ctl_in, events>>
        /\ (control' = "none" => control = "none")
    BY <1>6 DEF NodeStep, control_answered, control_fails, CloseControl,
       ControlClosed, NodeFrame
  <2> QED
    BY <1>0, <1>6, <2>1, ControlOutcomes DEF AbortComing, Stops, serverVars,
       goalVars, threadVars
<1>7. CASE ProgramStep /\ UNCHANGED <<serverVars, dropped>>
  BY <1>0, <1>7, ProgramOutcomes
<1>8. CASE \/ \E g \in Goals, k \in GoalKinds : RequestGoal(g, k)
           \/ \E e \in Events : RequestControl(e)
           \/ Restart \/ Lose
  BY <1>0, <1>8, OutsideOutcomes
<1> QED
  BY <1>2, <1>3, <1>4, <1>5, <1>6, <1>7, <1>8 DEF Next, ServerStep

LEMMA InitOutcomes == Init => Outcomes
<1> SUFFICES ASSUME Init PROVE Outcomes
  OBVIOUS
<1>1. /\ state = "setup" /\ lun = "none" /\ cmd_in = <<>> /\ Len(cmd_out) = 0
      /\ arm = NoGoal /\ ctl_in = <<>> /\ control = "none"
      /\ \A g \in Goals : /\ goal[g] = "new" /\ kind[g] = "query"
                          /\ pc[g] = "none" /\ op[g] = "getJoints"
  BY DEF Init, ProgramsInit, ServerInit
<1>2. Places /\ MainOps /\ FinalIsLast /\ FinishedIsKept
  BY <1>1 DEF Places, Talking, MainOps, FinalIsLast, FinishedIsKept
<1>3. PathIsOwn /\ MovedIsFinished /\ SuccessIsOwn
  BY <1>1 DEF PathIsOwn, Talking, MovedIsFinished, SuccessIsOwn
<1>4. MotionIsLast /\ Stops
  BY <1>1 DEF MotionIsLast, Sent, Served, Stops, Abandoned
<1> QED
  BY <1>2, <1>3, <1>4 DEF Outcomes

LEMMA OutcomesInvariant == Spec => [](Types /\ Handshake /\ Outcomes)
<1>1. Init => Outcomes
  BY InitOutcomes
<1>2. Types /\ Handshake /\ Outcomes /\ [Next]_vars => Outcomes'
  BY OutcomesStep
<1> QED
  BY <1>1, <1>2, HandshakeInvariant, PTL DEF Spec

(* A motion or PATH goal that succeeds was carried out to its end: neither *)
(* a late answer nor the PATH of another goal is taken for it.             *)
THEOREM SuccessIsTrue == Spec => []SuccessIsOwn
<1>1. Outcomes => SuccessIsOwn
  BY DEF Outcomes
<1> QED
  BY <1>1, OutcomesInvariant, PTL

(* No motion of a canceled goal is under way or can still begin.           *)
THEOREM CanceledGoalsAreStill == Spec => []CanceledIsStill
<1>1. ASSUME Types, Handshake, Outcomes PROVE CanceledIsStill
  <2> SUFFICES ASSUME NEW g \in Goals, goal[g] = "canceled"
               PROVE  /\ arm # g
                      /\ ~ /\ command.goal = g /\ command.op \in MotionOps
                           /\ state \in {"movement", "cleared", "admitted", "moving"}
    BY DEF CanceledIsStill
  <2>1. \A o \in MotionOps : ~Served(g, o)
    BY <1>1 DEF Outcomes, MotionIsLast
  <2>2. arm = g => state = "moving" /\ command.goal = g /\ command.op \in MotionOps
    BY <1>1, ProgramsAssumption DEF Handshake, MainEnd, Outcomes, MainOps
  <2> QED
    BY <2>1, <2>2 DEF Served
<1> QED
  BY <1>1, OutcomesInvariant, PTL

(* A PATH whose goal was given up while it may be moving does not move on  *)
(* unattended.                                                             *)
THEOREM AbandonedPathsAreStopped == Spec => []AbandonedPathIsStopped
<1>1. ASSUME Types, Handshake, Outcomes PROVE AbandonedPathIsStopped
  <2> SUFFICES ASSUME NEW g \in Goals, goal[g] = "aborted", kind[g] = "path",
                      arm = g, control_enabled, g \notin stop_refused, ~dropped
               PROVE  AbortOnItsWay
    BY DEF AbandonedPathIsStopped
  <2>1. state = "moving" /\ command.goal = g /\ command.op \in MotionOps
    BY <1>1, ProgramsAssumption DEF Handshake, MainEnd, Outcomes, MainOps
  <2>2. Served(g, command.op)
    BY <2>1 DEF Served
  <2>3. op[g] = command.op
    BY <1>1, <2>1, <2>2 DEF Outcomes, MotionIsLast
  <2>4. op[g] = "executePath"
    BY <1>1, <2>1, <2>3 DEF Outcomes, Places, MotionOps
  <2>5. AbortComing \/ Harmless(g)
    BY <1>1, <2>4 DEF Outcomes, Stops, Abandoned
  <2>6. Harmless(g) => motion_aborted
    BY <2>1, <2>2, <2>3, <2>4 DEF Harmless
  <2> QED
    BY <2>5, <2>6 DEF AbortComing, AbortOnItsWay
<1> QED
  BY <1>1, OutcomesInvariant, PTL
=============================================================================
