------------------------------ MODULE PathModel ------------------------------
(***************************************************************************)
(* path_model.cpp and the part of path_sequence_builder.cpp that refuses a  *)
(* batch: what the simulation accepts as a PATH, in which order it visits   *)
(* the nodes and where it cuts the visit into batches.                     *)
(*                                                                         *)
(* A node keeps what these functions look at; its numbers are reduced to    *)
(* whether they are finite and whether they are in the range checked.       *)
(* Condition masks are sets of slots.                                      *)
(***************************************************************************)
EXTENDS Naturals, Sequences, SequencesExt, FiniteSets

CONSTANTS
  MaxNodes,    \* max_path_nodes
  MaxId        \* the largest positive INTEGER of the controller

ASSUME PathModelAssumption == MaxNodes \in Nat \ {0} /\ MaxId \in Nat \ {0}

(* The messages of a goal.  A frame is its index, or 0 when its pose is not *)
(* finite: both are refused for it.                                        *)
NodeType ==
  [motion_type : STRING, wait : BOOLEAN, fly : BOOLEAN, fly_type : Nat,
   reference_index : Nat, tool_index : Nat, mask : SUBSET Nat, mask_back : SUBSET Nat,
   target_finite : BOOLEAN, settings_finite : BOOLEAN,
   parameters_in_range : BOOLEAN, fly_percent_in_range : BOOLEAN]

PathGoal ==
  [path_id : Nat, path_type : STRING, start_index : Nat, end_index : Nat,
   frames : Seq(Nat), conditions : Seq([slot : Nat, handler_id : Nat]),
   nodes : Seq(NodeType)]

PathTypes == {"CARTESIAN", "JOINT"}
Motions   == {"JOINT", "LINEAR", "CIRCULAR", "SEG_VIA"}

(* An index 0 in a goal stands for the first or the last node.             *)
StartOf(path) == IF path.start_index = 0 THEN 1 ELSE path.start_index
EndOf(path)   == IF path.end_index = 0 THEN Len(path.nodes) ELSE path.end_index

AllDiffer(s) == \A i, j \in DOMAIN s : i # j => s[i] # s[j]
Slots(path)  == {path.conditions[i].slot : i \in DOMAIN path.conditions}

HeaderValid(path) ==
  /\ path.path_id \in 1 .. MaxId
  /\ path.path_type \in PathTypes
  /\ Len(path.nodes) \in 1 .. MaxNodes
  /\ StartOf(path) \in 1 .. Len(path.nodes)
  /\ EndOf(path) \in 1 .. Len(path.nodes)

TablesValid(path) ==
  /\ \A i \in DOMAIN path.frames : path.frames[i] \in 1 .. 7
  /\ AllDiffer(path.frames)
  /\ \A i \in DOMAIN path.conditions :
       /\ path.conditions[i].slot \in 1 .. 32
       /\ path.conditions[i].handler_id > 0
  /\ AllDiffer([i \in DOMAIN path.conditions |-> path.conditions[i].slot])

(* A CIRCULAR node follows the SEG_VIA it passes through, and only it does. *)
ViaBeforeCircular(path) ==
  \A i \in DOMAIN path.nodes :
    /\ path.nodes[i].motion_type = "CIRCULAR"
         => i > 1 /\ path.nodes[i - 1].motion_type = "SEG_VIA"
    /\ path.nodes[i].motion_type = "SEG_VIA"
         => i < Len(path.nodes) /\ path.nodes[i + 1].motion_type = "CIRCULAR"

NodeFits(path, node) ==
  /\ node.motion_type \in Motions
  /\ path.path_type = "JOINT" =>
       /\ node.motion_type = "JOINT"
       /\ node.reference_index = 0 /\ node.tool_index = 0
       /\ node.fly => node.fly_type = 0
  /\ {node.reference_index, node.tool_index} \ {0} \subseteq ToSet(path.frames)
  /\ node.mask \cup node.mask_back \subseteq Slots(path)

(* Mutant: the check of a wait at a via point is missing.                  *)
WaitAnywhere(path) == TRUE

NoWaitAtVia(path) ==
  path.path_type = "CARTESIAN" =>
    \A i \in DOMAIN path.nodes :
      ~(path.nodes[i].wait /\ path.nodes[i].motion_type = "SEG_VIA")

RangeValid(path) ==
  /\ path.nodes[StartOf(path)].motion_type # "CIRCULAR"
  /\ path.nodes[EndOf(path)].motion_type # "SEG_VIA"

(* Speeds, tolerance and stress must be finite here.                       *)
NumbersValid(node) ==
  /\ node.target_finite /\ node.settings_finite
  /\ node.parameters_in_range
  /\ node.fly => node.fly_percent_in_range

validate_path_goal(path) ==
  /\ HeaderValid(path)
  /\ TablesValid(path)
  /\ \A i \in DOMAIN path.nodes :
       NodeFits(path, path.nodes[i]) /\ NumbersValid(path.nodes[i])
  /\ ViaBeforeCircular(path)
  /\ NoWaitAtVia(path)
  /\ RangeValid(path)

-----------------------------------------------------------------------------
(***************************************************************************)
(* Execution order and batches.                                            *)
(***************************************************************************)

execution_node_indexes(path) ==
  LET first == StartOf(path)
      last  == EndOf(path)
  IN  IF first <= last
        THEN [k \in 1 .. last - first + 1 |-> first + k - 1]
        ELSE [k \in 1 .. first - last + 1 |-> first - k + 1]

(* Every node with a wait ends a batch, and the last node does: the places   *)
(* in the order where a batch ends, and the bth of them, which has b of     *)
(* them up to it.  The order begins after a cut of its own.                *)
Cuts(path) ==
  LET order == execution_node_indexes(path) IN
  {k \in DOMAIN order : k = Len(order) \/ path.nodes[order[k]].wait}

Cut(path, b) ==
  CHOOSE k \in {0} \cup Cuts(path) : Cardinality({j \in Cuts(path) : j <= k}) = b

partition_path_at_waits(path) ==
  [b \in 1 .. Cardinality(Cuts(path)) |->
     SubSeq(execution_node_indexes(path), Cut(path, b - 1) + 1, Cut(path, b))]

(* The direction of a batch is taken from its first and last node: a batch  *)
(* of one node counts as forward.                                          *)
Forward(batch) == Len(batch) < 2 \/ batch[1] < batch[Len(batch)]

Arc == {"CIRCULAR", "SEG_VIA"}

(* The nodes of a batch for which the planner gets a request of its own.   *)
ItemIndexes(path, batch) ==
  SelectSeq(batch, LAMBDA i : path.nodes[i].motion_type # "SEG_VIA")

(* The checks of build_path_sequence_batch.                                *)
BatchSupported(path, batch) ==
  /\ ~Forward(batch) =>
       \A k \in DOMAIN batch : path.nodes[batch[k]].motion_type \notin Arc
  /\ ItemIndexes(path, batch) # <<>>

(* publish_native_path: what is recorded of an executed batch.             *)
RecordedBlock(path, batch) ==
  [path EXCEPT !.nodes = [k \in DOMAIN batch |-> path.nodes[batch[k]]],
               !.start_index = 1, !.end_index = Len(batch)]
=============================================================================
