--------------------------- MODULE MCCommandBridge ---------------------------
(***************************************************************************)
(* Two goals with the same path_id, or one goal and two requests to the    *)
(* motion control node, or one goal and one lost connection, each with a   *)
(* restart by the operator.                                                *)
(***************************************************************************)
EXTENDS CommandBridge

MCPathId == [g \in Goals |-> 1]

Budget(g, k, c, l, r) ==
  [goals |-> g, kinds |-> k, calls |-> c, losses |-> l, restarts |-> r]

MCBudgets ==
  {Budget({1, 2}, {"move", "path"}, 0, 0, 1),
   Budget({1}, {"unknown", "path"}, 2, 0, 1),
   Budget({1}, {"query", "path"}, 0, 1, 1)}
=============================================================================
