------------------------ MODULE MCMoveItCommandServer ------------------------
(***************************************************************************)
(* Two threads; the clients send a PATH that waits at its nodes and moves,  *)
(* or PATHs with arcs and queries, or the commands of the FLY queue.        *)
(***************************************************************************)
EXTENDS MoveItCommandServer

Node(motion, waits) ==
  [motion_type |-> motion, wait |-> waits, fly |-> FALSE, fly_type |-> 0,
   reference_index |-> 0, tool_index |-> 0, mask |-> {}, mask_back |-> {},
   target_finite |-> TRUE, settings_finite |-> TRUE,
   parameters_in_range |-> TRUE, fly_percent_in_range |-> TRUE]

Path(id, nodes, first, last) ==
  [path_id |-> id, path_type |-> "CARTESIAN", start_index |-> first,
   end_index |-> last, frames |-> <<>>, conditions |-> <<>>, nodes |-> nodes]

WaitingPath == Path(1, <<Node("LINEAR", FALSE), Node("LINEAR", TRUE),
                         Node("LINEAR", TRUE)>>, 1, 3)

(* Visited as 4 | 3 | 2, 1: the batch of the CIRCULAR node counts as        *)
(* forward, the last one is refused as an arc run backwards.               *)
ReversePath == Path(2, <<Node("LINEAR", TRUE), Node("SEG_VIA", FALSE),
                         Node("CIRCULAR", TRUE), Node("LINEAR", TRUE)>>, 4, 1)

(* An arc passed without a stop, and one refused for the wait at its via.   *)
ArcPath(waits) == Path(2, <<Node("LINEAR", ~waits), Node("SEG_VIA", waits),
                            Node("CIRCULAR", TRUE)>>, 1, 3)

FlyRequests ==
       [op : {"set_frame"}, frame : {"F1"}]
  \cup [op : {"set_fly"}, mode : {"CARTESIAN", "NORMAL"}]
  \cup [op : {"add_fly"}, kind : {"LINEAR", "JOINT"}]
  \cup [op : {"clear_fly", "execute_fly"}]

(* What the clients of a behaviour send: bounds the requests.              *)
MCMenus == {[op : {"path"}, path : {WaitingPath}] \cup [op : {"move"}],
            [op : {"path"}, path : {ReversePath, ArcPath(FALSE), ArcPath(TRUE)}]
              \cup [op : {"query"}],
            FlyRequests}

MCRequests == UNION MCMenus

VARIABLE menu

MCInit == Init /\ frame = "F0" /\ menu \in MCMenus

MCNext == /\ Next
          /\ \A t \in Threads : step[t] # step'[t] /\ step'[t] = "start" =>
                                 request'[t] \in menu
          /\ UNCHANGED menu

MCSpec == MCInit /\ [][MCNext]_<<serverVars, menu>> /\ Fairness
=============================================================================
