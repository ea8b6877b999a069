---------------------- MODULE MCOfflineSequenceManager ----------------------
(* Instances of OfflineSequenceManager. *)
EXTENDS OfflineSequenceManager

MCBlock(t, nodes, from, to) ==
  [type |-> t, nodes |-> nodes, wait_after |-> FALSE, start |-> from, end |-> to]

(* A Cartesian segment that may merge with itself, one of two nodes the end *)
(* of which cannot wait, and a joint one that merges with nothing.         *)
MCPrepared ==
  {MCBlock("cart", <<"fly">>, "a", "a"),
   MCBlock("cart", <<"stop", "via">>, "a", "a"),
   MCBlock("joint", <<"stop">>, "a", "b")}
=============================================================================
