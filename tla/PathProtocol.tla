----------------------------- MODULE PathProtocol -----------------------------
(***************************************************************************)
(* path_protocol.py: which PATH goals the bridge to the real robot accepts, *)
(* and the commands it uploads an accepted goal with.  The commands are     *)
(* those of C4GMovements; a goal is a path of PathModel.                   *)
(*                                                                         *)
(* Numbers are written with six decimals; here a number that is in its      *)
(* range is written as one that is.                                        *)
(***************************************************************************)
EXTENDS PathModel, Integers

\* Mutant: the nodes are not compared with the type of the PATH.
AcceptsAnyNode(path) ==
  /\ HeaderValid(path) /\ TablesValid(path)
  /\ \A i \in DOMAIN path.nodes : NumbersValid(path.nodes[i])
  /\ ViaBeforeCircular(path) /\ RangeValid(path)

\* validate_path_goal and the conversions of the commands, which refuse what
\* is not finite.  Unlike the simulation it lets a via point wait.
BridgeAccepts(path) ==
  /\ HeaderValid(path)
  /\ TablesValid(path)
  /\ \A i \in DOMAIN path.nodes :
       NodeFits(path, path.nodes[i]) /\ NumbersValid(path.nodes[i])
  /\ ViaBeforeCircular(path)
  /\ RangeValid(path)

-----------------------------------------------------------------------------
Kind(path) == IF path.path_type = "CARTESIAN" THEN "CART" ELSE "JOINT"

BeginPath(path) ==
  [op |-> "beginPath", id |-> path.path_id, kind |-> Kind(path),
   count |-> Len(path.nodes), first |-> StartOf(path), last |-> EndOf(path)]

FrameCommands(path) ==
  [i \in DOMAIN path.frames |->
     [op |-> "setPathFrame", id |-> path.path_id, ok |-> path.frames[i] \in 1 .. 7]]

ConditionCommands(path) ==
  [i \in DOMAIN path.conditions |->
     [op |-> "setPathCondition", id |-> path.path_id,
      ok |-> path.conditions[i].slot \in 1 .. 32 /\ path.conditions[i].handler_id > 0]]

MotionOf(node) == IF node.motion_type = "JOINT" THEN "joint"
                  ELSE IF node.motion_type \in Motions THEN "cartesian"
                  ELSE "invalid"

\* the five transactions of a node
NodeCommands(path, i) ==
  LET node == path.nodes[i]
      fits == node.parameters_in_range
  IN << [op |-> "pathNodeTarget", id |-> path.path_id, index |-> i,
         motion |-> MotionOf(node)],
        [op |-> "pathNodeMotion", id |-> path.path_id, index |-> i, ok |-> fits],
        [op |-> "pathNodeBlend", id |-> path.path_id, index |-> i, ok |-> fits],
        [op |-> "pathNodeSync", id |-> path.path_id, index |-> i, ok |-> fits,
         frames |-> {node.reference_index, node.tool_index} # {0}, wait |-> node.wait],
        [op |-> "commitPathNode", id |-> path.path_id, index |-> i] >>

AllNodeCommands(path) ==
  [k \in 1 .. 5 * Len(path.nodes) |->
     NodeCommands(path, 1 + ((k - 1) \div 5))[1 + ((k - 1) % 5)]]

CommitPath(path) ==
  [op |-> "commitPath", id |-> path.path_id, count |-> Len(path.nodes)]

build_upload_commands(path) ==
  <<BeginPath(path)>> \o FrameCommands(path) \o ConditionCommands(path)
    \o AllNodeCommands(path) \o <<CommitPath(path)>>

execute_path_command(path) ==
  [op |-> "executePath", id |-> path.path_id,
   first |-> StartOf(path), last |-> EndOf(path)]
===============================================================================
