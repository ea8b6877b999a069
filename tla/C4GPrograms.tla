---------------------------- MODULE C4GPrograms ----------------------------
(***************************************************************************)
(* The two server programs of the robot controller:                        *)
(*   - PDL2_ROS2_main_1 takes one command at a time on the command         *)
(*     connection (port 8000): it echoes the command, waits for "start",   *)
(*     has the movement service carry it out and answers;                  *)
(*   - ROS2_MOTION_COMMAND_1 takes pause, resume and abort on the control  *)
(*     connection (port 8002) and turns them into events, which condition  *)
(*     handlers of the main program serve.                                 *)
(* Each program accepts one client and never a second one: after a lost    *)
(* connection it reads nothing until an operator restarts it.              *)
(*                                                                         *)
(* The movement service is reduced to what its clients can tell: a PATH is *)
(* uploaded, ready or gone, a motion ends or is aborted.  C4GMovements     *)
(* models it in full.  READ waits for a message as long as the connection  *)
(* lives and returns '' when it is lost.                                   *)
(***************************************************************************)
EXTENDS Naturals, Sequences

CONSTANTS
  Goals,       \* the goals of the ROS actions, numbered as they arrive; a
               \* command carries its goal
  PathId,      \* the path_id of each goal, chosen by the clients
  NoGoal,
  Clients,     \* the programs that may connect to the control port
  MaxEvents    \* bound: PATH_EVENT messages under way

ASSUME ProgramsAssumption ==
  /\ Goals \subseteq Nat /\ NoGoal \notin Goals
  /\ PathId \in [Goals -> Nat \ {0}]
  /\ MaxEvents \in Nat

QueryOps   == {"getJoints"}
MotionOps  == {"move", "executePath"}
UploadOps  == {"beginPath", "commitPath"}
Ops        == QueryOps \cup MotionOps \cup UploadOps
                \cup {"abortPathUpload", "unknown"}
Events     == {"pauseMotion", "resumeMotion", "abortMotion"}
Finals     == {"Movement finished", "Movement unavailable", "ERROR",
               "Motion aborted"}

Command    == [op : Ops, goal : Goals]
Start      == [op : {"start"}, goal : Goals]
NoCommand  == [op |-> "none", goal |-> NoGoal]
Message    == [kind : Finals \cup {"echo", "JOINTS", "PATH_EVENT"},
               of : Command]

VARIABLES
  \* the main program and its connection
  state, command, lun, cmd_in, cmd_out,
  \* the movement service and the arm
  motion_aborted, path_state, active_path_id, arm, locked,
  \* the control program and its connection
  control, ctl_in, ctl_out, events,
  \* history: the goal of the last beginPath, the goals carried out in full
  path_goal, finished

mainVars    == <<state, command, lun, cmd_in, cmd_out>>
serviceVars == <<motion_aborted, path_state, active_path_id, arm, locked,
                 path_goal, finished>>
controlVars == <<control, ctl_in, ctl_out, events>>
programVars == <<mainVars, serviceVars, controlVars>>

ProgramsTypeOK ==
  /\ state \in {"setup", "idle", "permission", "echoed", "movement",
                "cleared", "admitted", "moving", "error"}
  /\ command \in Command \cup {NoCommand}
  /\ lun \in {"none", "open", "lost"}
  /\ cmd_in \in Seq(Command \cup Start)
  /\ cmd_out \in Seq(Message)
  /\ motion_aborted \in BOOLEAN
  /\ path_state \in {"none", "uploading", "ready"}
  /\ active_path_id \in Nat
  /\ arm \in Goals \cup {NoGoal}
  /\ locked \in BOOLEAN
  /\ control \in Clients \cup {"none", "lost"}
  /\ ctl_in \in Seq(Events) /\ ctl_out \in Seq(Events)
  /\ events \subseteq Events
  /\ path_goal \in Goals \cup {NoGoal}
  /\ finished \subseteq Goals

ProgramsInit ==
  /\ state = "setup" /\ command = NoCommand
  /\ lun = "none" /\ cmd_in = <<>> /\ cmd_out = <<>>
  /\ motion_aborted = FALSE /\ path_state = "none" /\ active_path_id = 0
  /\ arm = NoGoal /\ locked = FALSE
  /\ control = "none" /\ ctl_in = <<>> /\ ctl_out = <<>> /\ events = {}
  /\ path_goal = NoGoal /\ finished = {}

-----------------------------------------------------------------------------
(***************************************************************************)
(* The connections, as a client sees them.                                 *)
(***************************************************************************)

Accepting == state = "setup"

(* What the main program writes reaches a client only while it is there.   *)
Written(m) == IF lun = "open" THEN Append(cmd_out, m) ELSE cmd_out

(* The client closes the command connection: what it sent may still be     *)
(* read, what is on its way to it is gone.                                 *)
CommandClosed ==
  /\ lun' = IF lun = "open" THEN "lost" ELSE lun
  /\ cmd_out' = <<>>

ControlClosed(client) ==
  IF control = client
    THEN control' = "lost" /\ ctl_out' = <<>>
    ELSE UNCHANGED <<control, ctl_out>>

-----------------------------------------------------------------------------
(***************************************************************************)
(* PDL2_ROS2_main_1.  A client that connects finds it in SETUP_STATE.      *)
(***************************************************************************)

setup ==
  /\ state' = "idle"
  /\ lun' = "open"
  /\ cmd_out' = <<>>

ReadsNothing == cmd_in = <<>> /\ lun = "lost"

get_command ==
  /\ state = "idle" /\ cmd_in # <<>>
  /\ command' = [op |-> Head(cmd_in).op, goal |-> Head(cmd_in).goal]
  /\ cmd_in' = Tail(cmd_in)
  /\ state' = "permission"
  /\ UNCHANGED <<lun, cmd_out, serviceVars, controlVars>>

SendEcho ==
  /\ state = "permission"
  /\ cmd_out' = Written([kind |-> "echo", of |-> command])
  /\ state' = "echoed"
  /\ UNCHANGED <<command, lun, cmd_in, serviceVars, controlVars>>

can_start ==
  /\ state = "echoed"
  /\ \/ /\ cmd_in # <<>>
        /\ cmd_in' = Tail(cmd_in)
        /\ state' = IF Head(cmd_in).op = "start" THEN "movement" ELSE "idle"
     \/ /\ ReadsNothing
        /\ state' = "idle" /\ UNCHANGED cmd_in
  /\ UNCHANGED <<command, lun, cmd_out, serviceVars, controlVars>>

Answer(kind) == cmd_out' = Written([kind |-> kind, of |-> command])

SendQueried ==
  /\ state = "movement" /\ command.op \in QueryOps
  /\ Answer("JOINTS")
  /\ state' = "idle"
  /\ UNCHANGED <<command, lun, cmd_in, serviceVars, controlVars>>

reset_abort ==
  /\ state = "movement" /\ command.op \notin QueryOps
  /\ motion_aborted' = FALSE
  /\ state' = "cleared"
  /\ UNCHANGED <<command, lun, cmd_in, cmd_out, path_state, active_path_id,
                 arm, locked, path_goal, finished, controlVars>>

(* The movement service: its checks, ..                                     *)
Admits(c) ==
  CASE c.op = "commitPath"      -> /\ path_state = "uploading"
                                   /\ active_path_id = PathId[c.goal]
    [] c.op = "executePath"     -> /\ path_state = "ready"
                                   /\ active_path_id = PathId[c.goal]
    [] c.op = "abortPathUpload" -> active_path_id = PathId[c.goal]
    [] c.op = "unknown"         -> FALSE
    [] OTHER                    -> TRUE

(* A command may also be refused for its parameters.                       *)
CallRefused ==
  /\ ~Admits(command) \/ command.op \in {"beginPath", "commitPath", "move"}
  /\ IF command.op = "unknown"
       THEN Answer("ERROR") /\ state' = "error"
       ELSE Answer("Movement unavailable") /\ state' = "idle"

CallAborted ==
  /\ Admits(command) /\ command.op \in MotionOps /\ motion_aborted
  /\ Answer("Motion aborted") /\ state' = "idle"

CallAdmitted ==
  /\ Admits(command)
  /\ ~(command.op \in MotionOps /\ motion_aborted)
  /\ state' = "admitted" /\ UNCHANGED cmd_out

call_service ==
  /\ state = "cleared"
  /\ CallRefused \/ CallAborted \/ CallAdmitted
  /\ UNCHANGED <<command, lun, cmd_in, serviceVars, controlVars>>

(* .. its assignments, which an abort may precede, ..                       *)
ApplyUpload ==
  /\ state = "admitted" /\ command.op \notin MotionOps
  /\ CASE command.op = "beginPath" ->
            /\ path_state' = "uploading"
            /\ active_path_id' = PathId[command.goal]
            /\ path_goal' = command.goal
       [] command.op = "commitPath" ->
            path_state' = "ready" /\ UNCHANGED <<active_path_id, path_goal>>
       [] OTHER ->
            path_state' = "none" /\ UNCHANGED <<active_path_id, path_goal>>
  /\ Answer("Movement finished") /\ state' = "idle"
  /\ UNCHANGED <<command, lun, cmd_in, motion_aborted, arm, locked, finished,
                 controlVars>>

StartMotion ==
  /\ state = "admitted" /\ command.op \in MotionOps
  /\ arm' = command.goal
  /\ path_state' = IF command.op = "executePath" THEN "none" ELSE path_state
  /\ state' = "moving"
  /\ UNCHANGED <<command, lun, cmd_in, cmd_out, motion_aborted,
                 active_path_id, locked, path_goal, finished, controlVars>>

(* .. and the check that follows a motion.                                 *)
ResultOfMotion == IF motion_aborted THEN "Motion aborted"
                                    ELSE "Movement finished"

MotionReturns ==
  /\ state = "moving" /\ arm = NoGoal
  /\ Answer(ResultOfMotion) /\ state' = "idle"
  /\ UNCHANGED <<command, lun, cmd_in, serviceVars, controlVars>>

ReachTarget ==
  /\ arm # NoGoal /\ ~locked
  /\ arm' = NoGoal
  /\ finished' = IF command.op = "executePath" /\ path_goal # arm
                   THEN finished ELSE finished \cup {arm}
  /\ UNCHANGED <<mainVars, motion_aborted, path_state, active_path_id, locked,
                 path_goal, controlVars>>

report_path_event ==
  /\ arm # NoGoal /\ command.op = "executePath"
  /\ Len(cmd_out) < MaxEvents
  /\ Answer("PATH_EVENT")
  /\ lun = "open"
  /\ UNCHANGED <<state, command, lun, cmd_in, serviceVars, controlVars>>

-----------------------------------------------------------------------------
(***************************************************************************)
(* The condition handlers of the main program.                             *)
(***************************************************************************)

request_abort ==
  /\ "abortMotion" \in events
  /\ events' = events \ {"abortMotion"}
  /\ motion_aborted' = TRUE
  /\ path_state' = "none"
  /\ arm' = NoGoal
  /\ UNCHANGED <<mainVars, active_path_id, locked, path_goal, finished,
                 control, ctl_in, ctl_out>>

LockHandler(e, lock) ==
  /\ e \in events
  /\ events' = events \ {e}
  /\ locked' = lock
  /\ UNCHANGED <<mainVars, motion_aborted, path_state, active_path_id, arm,
                 path_goal, finished, control, ctl_in, ctl_out>>

ConditionHandler == \/ request_abort
                    \/ LockHandler("pauseMotion", TRUE)
                    \/ LockHandler("resumeMotion", FALSE)

-----------------------------------------------------------------------------
(***************************************************************************)
(* ROS2_MOTION_COMMAND_1.                                                  *)
(***************************************************************************)

setup_connection(client) ==
  /\ control = "none"
  /\ control' = client /\ ctl_out' = <<>>

process_control_command ==
  /\ ctl_in # <<>>
  /\ events' = events \cup {Head(ctl_in)}
  /\ ctl_in' = Tail(ctl_in)
  /\ ctl_out' = IF control = "lost" THEN ctl_out
                                    ELSE Append(ctl_out, Head(ctl_in))
  /\ UNCHANGED <<mainVars, serviceVars, control>>

-----------------------------------------------------------------------------
(***************************************************************************)
(* What happens to the programs from outside: an operator resumes or       *)
(* restarts a program, the network drops a connection.                     *)
(***************************************************************************)

OperatorResumes ==
  /\ state = "error" /\ state' = "idle"
  /\ UNCHANGED <<command, lun, cmd_in, cmd_out, serviceVars, controlVars>>

OperatorRestarts ==
  \/ /\ state = "idle" /\ ReadsNothing
     /\ state' = "setup" /\ lun' = "none"
     /\ UNCHANGED <<command, cmd_in, cmd_out, serviceVars, controlVars>>
  \/ /\ control = "lost" /\ ctl_in = <<>>
     /\ control' = "none"
     /\ UNCHANGED <<mainVars, serviceVars, ctl_in, ctl_out, events>>

LoseConnection ==
  \/ /\ lun = "open" /\ lun' = "lost"
     /\ cmd_in' \in {cmd_in, <<>>} /\ cmd_out' \in {cmd_out, <<>>}
     /\ UNCHANGED <<state, command, serviceVars, controlVars>>
  \/ /\ control \in Clients /\ control' = "lost"
     /\ ctl_in' \in {ctl_in, <<>>} /\ ctl_out' = <<>>
     /\ UNCHANGED <<mainVars, serviceVars, events>>

-----------------------------------------------------------------------------
MainStep ==
  \/ get_command \/ SendEcho \/ can_start \/ SendQueried \/ reset_abort
  \/ call_service \/ ApplyUpload \/ StartMotion \/ MotionReturns

ProgramStep ==
  \/ MainStep
  \/ ReachTarget \/ report_path_event
  \/ ConditionHandler
  \/ process_control_command
  \/ OperatorResumes
=============================================================================
