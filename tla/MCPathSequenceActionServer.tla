--------------------- MODULE MCPathSequenceActionServer ---------------------
(* Instances of PathSequenceActionServer. *)
EXTENDS PathSequenceHistory

CONSTANTS Home, Away

PathTo(from, to, wait) == [start |-> from, end |-> to, wait_after |-> wait]

Checked(id, b) == [id |-> id, checked |-> TRUE, blocks |-> b]

(* There and back with a wait in between, and two PATHs of which the last   *)
(* asks for a wait that has nothing to follow it.                          *)
MCRequests ==
  {Checked(1, <<PathTo(Home, Away, TRUE), PathTo(Away, Home, FALSE)>>),
   Checked(2, <<PathTo(Home, Home, FALSE), PathTo(Home, Away, TRUE)>>)}

MCWaitingRequests ==
  {Checked(1, <<PathTo(Home, Away, TRUE), PathTo(Away, Home, FALSE)>>)}

(* The sequence with the wait comes first.                                 *)
MCInit == HistoryInit /\ \A g \in Goals : request[g].id = g

MCSpec == MCInit /\ [][HistoryNext]_historyVars

MCFairSpec == MCSpec /\ Fairness
=============================================================================
