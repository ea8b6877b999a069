-------------------------- MODULE MotionControlNode --------------------------
(***************************************************************************)
(* The services pause_motion, resume_motion and abort_motion of            *)
(* motion_control_node.py, a second client of the control port.  The node  *)
(* serves one request at a time and closes its connection whenever a       *)
(* command fails, so that no late answer can meet a later request.         *)
(* signal_path and get_path_state use the connection in the same way; what *)
(* they tell the movement service is in C4GMovements.                      *)
(***************************************************************************)
EXTENDS C4GPrograms

CONSTANT
  Node        \* this program, as a client of the control port

ASSUME NodeAssumption == Node \in Clients

VARIABLES
  node_sock,     \* its TcpClient is connected
  serving,       \* the command that waits for an answer, or "none"
  responded      \* the last command and the answer it was given

nodeVars == <<node_sock, serving, responded>>

NodeTypeOK ==
  /\ node_sock \in BOOLEAN
  /\ serving \in Events \cup {"none"}
  /\ responded \in [command : Events \cup {"none"},
                    message : Events \cup {"none"}]

NodeInit ==
  /\ node_sock = FALSE /\ serving = "none"
  /\ responded = [command |-> "none", message |-> "none"]

NodeFrame == UNCHANGED <<mainVars, serviceVars, events>>

(* The command is sent, connecting first when need be; when no connection  *)
(* can be had, the request has failed.                                     *)
_handle_trigger(e) ==
  /\ serving = "none"
  /\ \/ /\ node_sock /\ control = Node
        /\ ctl_in' = Append(ctl_in, e) /\ serving' = e
        /\ UNCHANGED <<node_sock, control, ctl_out>>
     \/ /\ ~node_sock /\ setup_connection(Node)
        /\ ctl_in' = <<e>> /\ serving' = e /\ node_sock' = TRUE
     \/ /\ IF node_sock THEN control # Node ELSE control # "none"
        /\ node_sock' = FALSE
        /\ UNCHANGED <<serving, control, ctl_in, ctl_out>>
  /\ UNCHANGED responded
  /\ NodeFrame

(* Mutant: the connection stays open after a missed deadline.              *)
KeepControl == UNCHANGED <<node_sock, control, ctl_out>>

CloseControl == node_sock' = FALSE /\ ControlClosed(Node)

control_answered ==
  /\ serving # "none" /\ node_sock /\ control = Node /\ ctl_out # <<>>
  /\ responded' = [command |-> serving, message |-> Head(ctl_out)]
  /\ ctl_out' = Tail(ctl_out)
  /\ serving' = "none"
  /\ UNCHANGED <<node_sock, control, ctl_in>>
  /\ NodeFrame

(* The deadline of _recv_with_deadline, or the connection is lost.         *)
control_fails ==
  /\ serving # "none"
  /\ CloseControl
  /\ serving' = "none"
  /\ UNCHANGED <<ctl_in, responded>>
  /\ NodeFrame

NodeStep == control_answered \/ control_fails

-----------------------------------------------------------------------------
(* The answer a service request reports is the answer to its own command:  *)
(* the answers carry no identifier, only their order tells whose they are. *)
AnswerIsOwn == responded.message = responded.command
=============================================================================
