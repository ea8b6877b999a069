---------------------------- MODULE C4GMovements ----------------------------
(***************************************************************************)
(* The movement service of the robot controller: PDL2 program              *)
(* ROS2_MOVEMENTS_1.  It owns the native PATH variables, the upload        *)
(* transaction that fills them, the FLY queue and the abort flag.          *)
(*                                                                         *)
(* Three tasks run its routines at the same time:                          *)
(*   - PDL2_ROS2_main_1 calls call_service, one command at a time;         *)
(*   - ROS2_MOTION_COMMAND_1 calls signal_path_segment;                    *)
(*   - condition handlers (interrupts) call request_abort,                 *)
(*     report_path_wait and report_path_event, and LOCK / UNLOCK the arm.  *)
(*                                                                         *)
(* A call of call_service takes several steps, so that an interrupt can    *)
(* fall between the checks of a routine and its assignments, before a MOVE *)
(* statement, during the motion and before the check that follows it.      *)
(* Positions, speeds, frames and condition tables are data the routines    *)
(* store and never branch on; they are left out.                           *)
(***************************************************************************)
EXTENDS Naturals

CONSTANTS
  PathIds,    \* path identifiers a client may use
  MaxNodes,   \* bound on the node counts and node indices clients send,
              \* and on the nodes that failed targets leave behind
  MaxFly,     \* max_fly_points, the capacity of the FLY queue
  Commands    \* the commands clients send, a subset of CommandType

Kinds    == {"CART", "JOINT"}
States   == {"EMPTY", "UPLOADING", "READY", "EXECUTING", "WAITING",
             "DONE", "ABORTED"}
Results  == {"OK", "UNAVAILABLE", "ABORTED", "ERROR"}
Parts    == {"target", "motion", "blend", "sync"}
Indices  == 0 .. MaxNodes + 1

(* The commands of call_service.  "ok" says that the remaining parameters  *)
(* have the number and the ranges the routine asks for.                    *)
BeginCommands ==
  [op : {"beginPath"}, id : PathIds, kind : Kinds, count : 0 .. MaxNodes,
   first : Indices, last : Indices]
TableCommands ==
  [op : {"setPathFrame", "setPathCondition"}, id : PathIds, ok : BOOLEAN]
TargetCommands ==
  [op : {"pathNodeTarget"}, id : PathIds, index : Indices,
   motion : {"joint", "cartesian", "invalid"}]
PartCommands ==
  [op : {"pathNodeMotion", "pathNodeBlend"}, id : PathIds, index : Indices,
   ok : BOOLEAN]
SyncCommands ==
  [op : {"pathNodeSync"}, id : PathIds, index : Indices, ok : BOOLEAN,
   frames : BOOLEAN, wait : BOOLEAN]
CommitCommands ==
       [op : {"commitPathNode"}, id : PathIds, index : Indices]
  \cup [op : {"commitPath"}, id : PathIds, count : Indices]
ExecuteCommands ==
  [op : {"executePath"}, id : PathIds, first : Indices, last : Indices]
OtherCommands ==
       [op : {"abortPathUpload"}, id : PathIds]
  \cup [op : {"move", "setting"}, ok : BOOLEAN]
  \cup [op : {"clearFlyQueue", "executeFlyQueue", "unknown"}]
SetFlyCommands == [op : {"setFly"}, mode : {"FLY_NORM", "FLY_CART"},
                   ok : BOOLEAN]
AddFlyCommands == [op : {"addFly"}, kind : Kinds, ok : BOOLEAN]

CommandType ==
  BeginCommands \cup TableCommands \cup TargetCommands \cup PartCommands
    \cup SyncCommands \cup CommitCommands \cup ExecuteCommands
    \cup OtherCommands \cup SetFlyCommands \cup AddFlyCommands

ASSUME MovementsAssumption ==
  /\ PathIds \subseteq Nat \ {0}
  /\ MaxNodes \in Nat \ {0}
  /\ MaxFly \in Nat \ {0}
  /\ Commands \subseteq CommandType

NoCommand == [op |-> "none"]

VARIABLES
  motion_aborted,
  \* the PATH being uploaded or executed
  path_upload_active, path_node_pending, path_is_waiting, path_state,
  active_path_id, active_path_type, expected_path_nodes,
  committed_path_nodes, pending_path_node, path_start_index,
  path_end_index, path_current_node,
  node_parts,        \* path_target_set .. path_sync_set, as a set
  path_len,          \* PATH_LEN of cart_path and of joint_path
  seg_wait,          \* the nodes with $SEG_WAIT
  \* the FLY queue
  fly_queue_type, fly_queue_count, fly_segment, fly_type,
  \* the call in progress
  service, call, returned, fly_index, fly_last,
  fly_joint,         \* execute_fly_queue is in its JOINT branch
  signaling,         \* signal_path_segment is between SIGNAL and its flags
  \* the arm
  arm, arm_node, arm_wait, locked

uploadVars == <<path_upload_active, path_node_pending, active_path_id,
                active_path_type, expected_path_nodes, committed_path_nodes,
                pending_path_node, path_start_index, path_end_index,
                node_parts, path_len, seg_wait>>
statusVars == <<path_is_waiting, path_state, path_current_node>>
flyVars    == <<fly_queue_type, fly_queue_count, fly_segment, fly_type>>
loopVars   == <<fly_index, fly_last, fly_joint>>
callVars   == <<service, call, returned, loopVars>>
armVars    == <<arm, arm_node, arm_wait>>
movementVars == <<motion_aborted, uploadVars, statusVars, flyVars, callVars,
                  signaling, armVars, locked>>

FlagsOK ==
  /\ motion_aborted \in BOOLEAN
  /\ path_upload_active \in BOOLEAN
  /\ path_node_pending \in BOOLEAN
  /\ path_is_waiting \in BOOLEAN
  /\ fly_joint \in BOOLEAN
  /\ signaling \in BOOLEAN
  /\ locked \in BOOLEAN

TypeOK ==
  /\ FlagsOK
  /\ path_state \in States
  /\ active_path_id \in Nat /\ active_path_type \in Kinds
  /\ expected_path_nodes \in Nat /\ committed_path_nodes \in Nat
  /\ pending_path_node \in Nat /\ path_current_node \in Nat
  /\ path_start_index \in Nat /\ path_end_index \in Nat
  /\ node_parts \subseteq Parts
  /\ path_len \in [Kinds -> Nat]
  /\ seg_wait \subseteq Nat
  /\ fly_queue_type \in Kinds \cup {"NONE"}
  /\ fly_queue_count \in 0 .. MaxFly
  /\ fly_segment \in [1 .. MaxFly -> Kinds \cup {"NONE"}]
  /\ fly_type \in {"FLY_NORM", "FLY_CART"}
  /\ service \in {"idle", "cleared", "admitted", "moving", "moved",
                  "flycheck", "flymove", "fault", "returned"}
  /\ call \in Commands \cup {NoCommand}
  /\ returned \in Results
  /\ fly_index \in 0 .. MaxFly /\ fly_last \in 0 .. MaxFly
  /\ arm \in {"none", "single", "fly", "path"}
  /\ arm_node \in Nat
  /\ arm_wait \in {"no", "held", "reported"}

Init ==
  /\ motion_aborted = FALSE
  /\ path_upload_active = FALSE /\ path_node_pending = FALSE
  /\ path_is_waiting = FALSE    /\ path_state = "EMPTY"
  /\ active_path_id = 0         /\ active_path_type = "CART"
  /\ expected_path_nodes = 0    /\ committed_path_nodes = 0
  /\ pending_path_node = 0      /\ path_current_node = 0
  /\ path_start_index = 0       /\ path_end_index = 0
  /\ node_parts = {}            /\ seg_wait = {}
  /\ path_len = [k \in Kinds |-> 0]
  /\ fly_queue_type = "NONE"    /\ fly_queue_count = 0
  /\ fly_segment = [i \in 1 .. MaxFly |-> "NONE"]
  /\ fly_type = "FLY_NORM"
  /\ service = "idle" /\ call = NoCommand /\ returned = "OK"
  /\ fly_index = 0 /\ fly_last = 0 /\ fly_joint = FALSE
  /\ signaling = FALSE
  /\ arm = "none" /\ arm_node = 0 /\ arm_wait = "no" /\ locked = FALSE

-----------------------------------------------------------------------------
(***************************************************************************)
(* What the routines check before they change anything.                    *)
(***************************************************************************)

Uploading(c) == path_upload_active /\ c.id = active_path_id

NodeOpen(c)  == /\ path_node_pending
                /\ c.id = active_path_id
                /\ c.index = pending_path_node

PathComplete == /\ committed_path_nodes = expected_path_nodes
                /\ path_len[active_path_type] = expected_path_nodes

(* Mutant: commit_path trusts the counter and does not look at PATH_LEN.    *)
CommitWithoutPathLen(c) ==
  /\ c.op = "commitPath"
  /\ Uploading(c) /\ ~path_node_pending
  /\ c.count = expected_path_nodes
  /\ committed_path_nodes = expected_path_nodes

AdmitsCommitPath(c) ==
  /\ c.op = "commitPath"
  /\ Uploading(c) /\ ~path_node_pending
  /\ c.count = expected_path_nodes
  /\ committed_path_nodes = expected_path_nodes
  /\ path_len[active_path_type] = expected_path_nodes

AdmitsPathCommand(c) ==
  \/ /\ c.op = "beginPath"
     /\ c.count > 0
     /\ c.first \in 1 .. c.count
     /\ c.last \in 1 .. c.count
  \/ /\ c.op = "setPathFrame"
     /\ Uploading(c) /\ active_path_type = "CART" /\ c.ok
  \/ /\ c.op = "setPathCondition"
     /\ Uploading(c) /\ c.ok
  \/ /\ c.op = "pathNodeTarget"
     /\ Uploading(c) /\ ~path_node_pending
     /\ c.index = committed_path_nodes + 1
     /\ c.index <= expected_path_nodes
     /\ active_path_type = "JOINT" => c.motion = "joint"
  \/ /\ c.op \in {"pathNodeMotion", "pathNodeBlend"}
     /\ NodeOpen(c) /\ c.ok
  \/ /\ c.op = "pathNodeSync"
     /\ NodeOpen(c) /\ c.ok
     /\ active_path_type = "JOINT" => ~c.frames
  \/ /\ c.op = "commitPathNode"
     /\ NodeOpen(c) /\ node_parts = Parts
  \/ AdmitsCommitPath(c)
  \/ /\ c.op = "abortPathUpload"
     /\ c.id = active_path_id
  \/ /\ c.op = "executePath"
     /\ path_state = "READY"
     /\ c.id = active_path_id
     /\ c.first = path_start_index
     /\ c.last = path_end_index

(* The FLY queue takes its kind from the first element; the assignment     *)
(* comes before the check for mixed kinds.                                 *)
FlyTypeAfter(c) == IF fly_queue_type = "NONE" THEN c.kind ELSE fly_queue_type

FlyQueueFits == \/ fly_queue_type = "CART"  /\ fly_type = "FLY_CART"
                \/ fly_queue_type = "JOINT" /\ fly_type = "FLY_NORM"

AdmitsAddFly(c) ==
  c.op = "addFly" /\ c.ok /\ fly_queue_count < MaxFly /\ FlyTypeAfter(c) = c.kind

AdmitsOther(c) ==
  \/ c.op \in {"move", "setting", "setFly"} /\ c.ok
  \/ AdmitsAddFly(c)
  \/ c.op = "clearFlyQueue"
  \/ c.op = "executeFlyQueue" /\ fly_queue_count >= 2

Admits(c) == AdmitsPathCommand(c) \/ AdmitsOther(c)

IsMotion(c) == c.op \in {"executePath", "move", "executeFlyQueue"}

Return(res) == service' = "returned" /\ returned' = res

ClearFlyQueue == /\ fly_queue_type' = "NONE"
                 /\ fly_queue_count' = 0
                 /\ UNCHANGED <<fly_segment, fly_type>>

-----------------------------------------------------------------------------
(***************************************************************************)
(* The checks of call_service(c).                                          *)
(***************************************************************************)

(* The caller clears the abort flag in front of every call_service.        *)
reset_abort ==
  /\ service = "idle"
  /\ service' = "cleared"
  /\ motion_aborted' = FALSE
  /\ UNCHANGED <<uploadVars, statusVars, flyVars, call, returned, loopVars,
                 signaling, armVars, locked>>

(* addFly has set the kind of the queue before it refuses a mixed one, and *)
(* setFlyCart $FLY_TYPE before it refuses an invalid FLY_TRAJ mode.        *)
CallRefused(c) ==
  /\ ~Admits(c)
  /\ Return(IF c.op = "unknown" THEN "ERROR" ELSE "UNAVAILABLE")
  /\ IF c.op = "addFly" /\ c.ok /\ fly_queue_count < MaxFly
       THEN fly_queue_type' = FlyTypeAfter(c)
       ELSE fly_queue_type' = fly_queue_type
  /\ fly_type' \in {fly_type} \cup {m \in {"FLY_CART"} :
                                     c.op = "setFly" /\ c.mode = m}
  /\ UNCHANGED <<fly_queue_count, fly_segment>>

CallAborted(c) ==
  /\ Admits(c) /\ IsMotion(c) /\ motion_aborted
  /\ Return("ABORTED")
  /\ IF c.op = "executeFlyQueue" THEN ClearFlyQueue ELSE UNCHANGED flyVars

CallAdmitted(c) ==
  /\ Admits(c)
  /\ ~(IsMotion(c) /\ motion_aborted)
  /\ IF c.op = "executeFlyQueue" /\ ~FlyQueueFits
       THEN Return("UNAVAILABLE")
       ELSE service' = "admitted" /\ returned' = returned
  /\ fly_queue_type' = IF c.op = "addFly" THEN FlyTypeAfter(c)
                                          ELSE fly_queue_type
  /\ UNCHANGED <<fly_queue_count, fly_segment, fly_type>>

(* Bound: failed targets leave at most one node more than MaxNodes.        *)
WithinBounds(c) ==
  c.op = "pathNodeTarget" => path_len[active_path_type] <= MaxNodes

call_service(c) ==
  /\ service = "cleared"
  /\ WithinBounds(c)
  /\ CallRefused(c) \/ CallAborted(c) \/ CallAdmitted(c)
  /\ call' = c
  /\ UNCHANGED <<motion_aborted, uploadVars, statusVars, loopVars, signaling,
                 armVars, locked>>

-----------------------------------------------------------------------------
(***************************************************************************)
(* The assignments of the routine that call_service selected.              *)
(***************************************************************************)

clear_native_paths == /\ path_len' = [k \in Kinds |-> 0]
                      /\ seg_wait' = {}

begin_path ==
  /\ call.op = "beginPath"
  /\ clear_native_paths
  /\ active_path_id' = call.id
  /\ active_path_type' = call.kind
  /\ expected_path_nodes' = call.count
  /\ committed_path_nodes' = 0
  /\ pending_path_node' = 0
  /\ path_start_index' = call.first
  /\ path_end_index' = call.last
  /\ path_current_node' = 0
  /\ path_upload_active' = TRUE
  /\ path_node_pending' = FALSE
  /\ path_is_waiting' = FALSE
  /\ path_state' = "UPLOADING"
  /\ Return("OK")
  /\ UNCHANGED <<node_parts, flyVars>>

(* A Cartesian node is appended before its motion type is checked.         *)
path_node_target ==
  /\ call.op = "pathNodeTarget"
  /\ path_len' = [path_len EXCEPT ![active_path_type] = @ + 1]
  /\ IF call.motion = "invalid"
       THEN /\ Return("UNAVAILABLE")
            /\ UNCHANGED <<pending_path_node, path_node_pending, node_parts>>
       ELSE /\ Return("OK")
            /\ pending_path_node' = call.index
            /\ path_node_pending' = TRUE
            /\ node_parts' = {"target"}
  /\ UNCHANGED <<path_upload_active, active_path_id, active_path_type,
                 expected_path_nodes, committed_path_nodes, path_start_index,
                 path_end_index, seg_wait, statusVars, flyVars>>

PartOf == [pathNodeMotion |-> "motion", pathNodeBlend |-> "blend",
           pathNodeSync |-> "sync"]

path_node_part ==
  /\ call.op \in DOMAIN PartOf
  /\ node_parts' = node_parts \cup {PartOf[call.op]}
  /\ seg_wait' = IF call.op # "pathNodeSync" THEN seg_wait
                 ELSE IF call.wait THEN seg_wait \cup {call.index}
                 ELSE seg_wait \ {call.index}
  /\ Return("OK")
  /\ UNCHANGED <<path_upload_active, path_node_pending, active_path_id,
                 active_path_type, expected_path_nodes, committed_path_nodes,
                 pending_path_node, path_start_index, path_end_index,
                 path_len, statusVars, flyVars>>

commit_path_node ==
  /\ call.op = "commitPathNode"
  /\ committed_path_nodes' = committed_path_nodes + 1
  /\ path_node_pending' = FALSE
  /\ pending_path_node' = 0
  /\ Return("OK")
  /\ UNCHANGED <<path_upload_active, active_path_id, active_path_type,
                 expected_path_nodes, path_start_index, path_end_index,
                 node_parts, path_len, seg_wait, statusVars, flyVars>>

commit_path ==
  /\ call.op = "commitPath"
  /\ path_upload_active' = FALSE
  /\ path_state' = "READY"
  /\ Return("OK")
  /\ UNCHANGED <<path_node_pending, active_path_id, active_path_type,
                 expected_path_nodes, committed_path_nodes,
                 pending_path_node, path_start_index, path_end_index,
                 node_parts, path_len, seg_wait, path_is_waiting,
                 path_current_node, flyVars>>

abort_path_upload ==
  /\ call.op = "abortPathUpload"
  /\ clear_native_paths
  /\ path_upload_active' = FALSE
  /\ path_node_pending' = FALSE
  /\ path_is_waiting' = FALSE
  /\ expected_path_nodes' = 0
  /\ committed_path_nodes' = 0
  /\ path_current_node' = 0
  /\ path_state' = "ABORTED"
  /\ Return("OK")
  /\ UNCHANGED <<active_path_id, active_path_type, pending_path_node,
                 path_start_index, path_end_index, node_parts, flyVars>>

(* The FLY queue, the $FLY_TYPE setting and the settings left out.         *)
other_routine ==
  /\ \/ /\ call.op = "addFly"
        /\ fly_queue_count' = fly_queue_count + 1
        /\ fly_segment' = [fly_segment EXCEPT ![fly_queue_count + 1] = call.kind]
        /\ UNCHANGED <<fly_queue_type, fly_type>>
     \/ call.op = "clearFlyQueue" /\ ClearFlyQueue
     \/ /\ call.op = "setFly"
        /\ fly_type' = call.mode
        /\ UNCHANGED <<fly_queue_type, fly_queue_count, fly_segment>>
     \/ call.op \in {"setting", "setPathFrame", "setPathCondition"}
        /\ UNCHANGED flyVars
  /\ Return("OK")
  /\ UNCHANGED <<uploadVars, statusVars>>

ApplyRoutine ==
  /\ service = "admitted"
  /\ \/ begin_path      \/ path_node_target \/ path_node_part
     \/ commit_path_node \/ commit_path     \/ abort_path_upload
     \/ other_routine
  /\ UNCHANGED <<motion_aborted, call, loopVars, signaling, armVars, locked>>

-----------------------------------------------------------------------------
(***************************************************************************)
(* The motion commands: a MOVE statement, and the check after it.          *)
(***************************************************************************)

StartMove ==
  /\ service = "admitted" /\ call.op = "move"
  /\ arm' = "single"
  /\ service' = "moving"
  /\ UNCHANGED <<motion_aborted, uploadVars, statusVars, flyVars, call,
                 returned, loopVars, signaling, arm_node, arm_wait, locked>>

execute_path ==
  /\ service = "admitted" /\ call.op = "executePath"
  /\ path_state' = "EXECUTING"
  /\ path_is_waiting' = FALSE
  /\ path_current_node' = path_start_index
  /\ arm' = "path" /\ arm_node' = path_start_index /\ arm_wait' = "no"
  /\ service' = "moving"
  /\ UNCHANGED <<motion_aborted, uploadVars, flyVars, call, returned,
                 loopVars, signaling, locked>>

execute_fly_queue ==
  /\ service = "admitted" /\ call.op = "executeFlyQueue"
  /\ service' = "flycheck"
  /\ fly_index' = 1
  /\ fly_last' = fly_queue_count
  /\ fly_joint' = (fly_queue_type = "JOINT")
  /\ UNCHANGED <<motion_aborted, uploadVars, statusVars, flyVars, call,
                 returned, signaling, armVars, locked>>

(* check_aborted in front of every MOVEFLY and of the last MOVE            *)
FlyCheck ==
  /\ service = "flycheck"
  /\ IF motion_aborted
       THEN Return("ABORTED") /\ ClearFlyQueue
       ELSE service' = "flymove" /\ UNCHANGED <<returned, flyVars>>
  /\ UNCHANGED <<motion_aborted, uploadVars, statusVars, call, loopVars,
                 signaling, armVars, locked>>

(* MOVEFLY .. ADVANCE does not wait for the motion, the last MOVE does.    *)
(* The last JOINT move indexes the queue with fly_queue_count itself: an    *)
(* abort that has just emptied the queue makes it an access to element 0.   *)
FlyMove ==
  /\ service = "flymove"
  /\ IF fly_index < fly_last
       THEN service' = "flycheck" /\ fly_index' = fly_index + 1 /\ arm' = "fly"
       ELSE /\ UNCHANGED fly_index
            /\ IF fly_joint /\ fly_queue_count = 0
                 THEN service' = "fault" /\ UNCHANGED arm
                 ELSE service' = "moving" /\ arm' = "fly"
  /\ UNCHANGED <<motion_aborted, uploadVars, statusVars, flyVars, call,
                 returned, fly_last, fly_joint, signaling, arm_node,
                 arm_wait, locked>>

MoveReturns ==
  /\ service = "moving" /\ arm = "none"
  /\ service' = "moved"
  /\ UNCHANGED <<motion_aborted, uploadVars, statusVars, flyVars, call,
                 returned, loopVars, signaling, armVars, locked>>

(* Mutant: the check after the MOVE is missing.                            *)
UncheckedMove == "OK"

ResultOfMove == IF motion_aborted THEN "ABORTED" ELSE "OK"

CheckAfterMove ==
  /\ service = "moved"
  /\ Return(ResultOfMove)
  /\ IF call.op = "executePath"
       THEN /\ path_state' = IF motion_aborted THEN "ABORTED" ELSE "DONE"
            /\ path_current_node' = IF motion_aborted THEN path_current_node
                                                      ELSE path_end_index
            /\ path_is_waiting' = path_is_waiting
       ELSE UNCHANGED statusVars
  /\ IF call.op = "executeFlyQueue" THEN ClearFlyQueue ELSE UNCHANGED flyVars
  /\ UNCHANGED <<motion_aborted, uploadVars, call, loopVars, signaling,
                 armVars, locked>>

(* The caller empties the FLY queue of an aborted command once more.       *)
TakeResult ==
  /\ service = "returned"
  /\ service' = "idle" /\ call' = NoCommand
  /\ IF returned = "ABORTED" THEN ClearFlyQueue ELSE UNCHANGED flyVars
  /\ UNCHANGED <<motion_aborted, uploadVars, statusVars, returned, loopVars,
                 signaling, armVars, locked>>

-----------------------------------------------------------------------------
(***************************************************************************)
(* The arm.  arm_node is the node of the PATH it moves to or stands at; at *)
(* a node with $SEG_WAIT it is held until SIGNAL SEGMENT.  Whether it is   *)
(* also held at the last node is left open.                                *)
(***************************************************************************)

NextNode == IF path_start_index <= path_end_index THEN arm_node + 1
                                                  ELSE arm_node - 1

PassNode == /\ arm_wait' = "no"
            /\ IF arm_node = path_end_index
                 THEN arm' = "none" /\ arm_node' = arm_node
                 ELSE arm' = arm /\ arm_node' = NextNode

ReachNode ==
  /\ arm = "path" /\ arm_wait = "no" /\ ~locked
  /\ \/ /\ arm_node \in seg_wait
        /\ arm_wait' = "held" /\ UNCHANGED <<arm, arm_node>>
     \/ /\ arm_node \notin seg_wait \/ arm_node = path_end_index
        /\ PassNode
  /\ UNCHANGED <<motion_aborted, uploadVars, statusVars, flyVars, callVars,
                 signaling, locked>>

ReachTarget ==
  /\ arm \in {"single", "fly"} /\ ~locked
  /\ arm' = "none"
  /\ UNCHANGED <<motion_aborted, uploadVars, statusVars, flyVars, callVars,
                 signaling, arm_node, arm_wait, locked>>

-----------------------------------------------------------------------------
(***************************************************************************)
(* Condition handlers, and the routine of the control program.             *)
(***************************************************************************)

(* Mutants: the upload, or the wait flag, survives the abort.              *)
AbortFlagsUploadKept ==
  /\ motion_aborted' = TRUE /\ path_node_pending' = FALSE
  /\ path_state' = "ABORTED" /\ path_is_waiting' = FALSE
  /\ UNCHANGED path_upload_active

AbortFlagsWaitKept ==
  /\ motion_aborted' = TRUE /\ path_upload_active' = FALSE
  /\ path_node_pending' = FALSE /\ path_state' = "ABORTED"
  /\ UNCHANGED path_is_waiting

AbortFlags ==
  /\ motion_aborted' = TRUE
  /\ path_upload_active' = FALSE
  /\ path_node_pending' = FALSE
  /\ path_state' = "ABORTED"
  /\ path_is_waiting' = FALSE

(* Mutant: only a waiting PATH is released.                                *)
ReleaseWaitingOnly ==
  /\ arm' = IF path_is_waiting THEN "none" ELSE arm
  /\ arm_wait' = IF path_is_waiting THEN "no" ELSE arm_wait

(* SIGNAL SEGMENT for a waiting PATH, and CANCEL ALL for every motion.      *)
CancelAll == arm' = "none" /\ arm_wait' = "no"

request_abort ==
  /\ AbortFlags
  /\ CancelAll
  /\ fly_queue_type' = "NONE" /\ fly_queue_count' = 0
  /\ UNCHANGED <<active_path_id, active_path_type, expected_path_nodes,
                 committed_path_nodes, pending_path_node, path_start_index,
                 path_end_index, path_current_node, node_parts, path_len,
                 seg_wait, fly_segment, fly_type, callVars, signaling,
                 arm_node, locked>>

report_path_wait ==
  /\ arm = "path" /\ arm_wait = "held"
  /\ arm_wait' = "reported"
  /\ path_is_waiting' = TRUE
  /\ path_state' = "WAITING"
  /\ path_current_node' = arm_node
  /\ UNCHANGED <<motion_aborted, uploadVars, flyVars, callVars, signaling,
                 arm, arm_node, locked>>

report_path_event ==
  /\ arm = "path"
  /\ path_current_node' = arm_node
  /\ UNCHANGED <<motion_aborted, uploadVars, path_is_waiting, path_state,
                 flyVars, callVars, signaling, armVars, locked>>

LOCK ==
  /\ ~locked /\ locked' = TRUE
  /\ UNCHANGED <<motion_aborted, uploadVars, statusVars, flyVars, callVars,
                 signaling, armVars>>

UNLOCK ==
  /\ locked /\ locked' = FALSE
  /\ UNCHANGED <<motion_aborted, uploadVars, statusVars, flyVars, callVars,
                 signaling, armVars>>

SignalAccepted(id, node) == /\ id = active_path_id
                            /\ path_is_waiting
                            /\ node \in {0, path_current_node}

(* First half: the checks and SIGNAL SEGMENT.  The arm may leave the node, *)
(* and reach the next one, before the flags follow.                        *)
signal_path_segment(id, node) ==
  /\ ~signaling
  /\ SignalAccepted(id, node)
  /\ signaling' = TRUE
  /\ IF arm = "path" /\ arm_wait # "no" THEN PassNode ELSE UNCHANGED armVars
  /\ UNCHANGED <<motion_aborted, uploadVars, statusVars, flyVars, callVars,
                 locked>>

(* Second half: the flags.                                                 *)
SegmentSignaled ==
  /\ signaling
  /\ signaling' = FALSE
  /\ path_is_waiting' = FALSE
  /\ path_state' = "EXECUTING"
  /\ UNCHANGED <<motion_aborted, uploadVars, path_current_node, flyVars,
                 callVars, armVars, locked>>

-----------------------------------------------------------------------------
MainStep ==
  \/ reset_abort
  \/ \E c \in Commands : call_service(c)
  \/ ApplyRoutine \/ StartMove      \/ execute_path \/ execute_fly_queue
  \/ FlyCheck     \/ FlyMove        \/ MoveReturns  \/ CheckAfterMove
  \/ TakeResult

ArmStep == ReachNode \/ ReachTarget

ControlStep ==
  \/ \E id \in PathIds, node \in 0 .. MaxNodes : signal_path_segment(id, node)
  \/ SegmentSignaled

Interrupt == report_path_wait \/ report_path_event \/ LOCK \/ UNLOCK

Next == MainStep \/ ArmStep \/ ControlStep \/ Interrupt \/ request_abort

(* The steps of a running program, the arm and a raised condition happen.   *)
(* Nobody has to send a command, to continue, to resume or to abort.        *)
Fairness ==
  /\ WF_movementVars(ApplyRoutine \/ StartMove \/ execute_path
                     \/ execute_fly_queue \/ FlyCheck \/ FlyMove
                     \/ MoveReturns \/ CheckAfterMove \/ TakeResult)
  /\ WF_movementVars(ArmStep)
  /\ WF_movementVars(SegmentSignaled)
  /\ WF_movementVars(report_path_wait)

Spec == Init /\ [][Next]_movementVars /\ Fairness

-----------------------------------------------------------------------------
(* The arm follows a PATH only when every announced node is uploaded and   *)
(* committed, and only along existing nodes of the announced range: what   *)
(* the counters, PATH_LEN and the check of commit_path are for, also when   *)
(* an abort falls between the checks and the assignments of a routine.     *)
MotionOnCompletePath ==
  arm = "path" =>
    /\ PathComplete
    /\ arm_node \in 1 .. path_len[active_path_type]
    /\ \/ arm_node \in path_start_index .. path_end_index
       \/ arm_node \in path_end_index .. path_start_index

(* signal_path_segment accepts a continue only while the arm is held, and   *)
(* only for the node it is held at: path_is_waiting is never stale, except *)
(* between the two halves of signal_path_segment.                          *)
WaitingMeansHeld ==
  path_is_waiting /\ ~signaling =>
    /\ arm = "path" /\ arm_wait = "reported"
    /\ path_current_node = arm_node

(* While the arm is held and has reported it, a continue for the node is   *)
(* accepted.                                                               *)
HeldCanContinue ==
  arm_wait = "reported" /\ ~signaling => path_is_waiting
=============================================================================
