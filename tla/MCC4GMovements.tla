--------------------------- MODULE MCC4GMovements ---------------------------
(***************************************************************************)
(* Instances of C4GMovements.  A behaviour has one menu: "path" and "fly"   *)
(* send any commands of a set in any order, "upload" is the upload of a PATH  *)
(* by the bridge, and "sender" is the FLY queue sender.                     *)
(***************************************************************************)
EXTENDS PathUpload, FlyQueueSender

VARIABLE menu    \* who sends which commands

allVars == <<historyVars, menu, bridgeVars, senderVars>>

-----------------------------------------------------------------------------
(* One Cartesian and one joint PATH of two nodes, the joint one run         *)
(* backwards, with a wait at either node, failing targets, wrong node       *)
(* numbers and the upload abort.                                           *)
MCPathCommands ==
       {[op |-> "beginPath", id |-> 1, kind |-> "CART", count |-> 2,
         first |-> 1, last |-> 2],
        [op |-> "beginPath", id |-> 1, kind |-> "JOINT", count |-> 2,
         first |-> 2, last |-> 1],
        [op |-> "executePath", id |-> 1, first |-> 1, last |-> 2],
        [op |-> "executePath", id |-> 1, first |-> 2, last |-> 1],
        [op |-> "setPathFrame", id |-> 1, ok |-> TRUE],
        [op |-> "setPathCondition", id |-> 1, ok |-> TRUE],
        [op |-> "commitPath", id |-> 1, count |-> 2],
        [op |-> "abortPathUpload", id |-> 1]}
  \cup [op : {"pathNodeTarget"}, id : {1}, index : {1, 2},
        motion : {"joint", "invalid"}]
  \cup [op : {"pathNodeMotion", "pathNodeBlend"}, id : {1}, index : {1, 2},
        ok : {TRUE}]
  \cup [op : {"pathNodeSync"}, id : {1}, index : {1, 2}, ok : {TRUE},
        frames : {FALSE}, wait : BOOLEAN]
  \cup [op : {"commitPathNode"}, id : {1}, index : {1, 2}]

(* Moves and FLY queues of both kinds. *)
MCFlyCommands ==
       [op : {"move", "setting"}, ok : {TRUE}]
  \cup [op : {"setFly"}, mode : {"FLY_NORM", "FLY_CART"}, ok : BOOLEAN]
  \cup [op : {"addFly"}, kind : Kinds, ok : {TRUE}]
  \cup [op : {"clearFlyQueue", "executeFlyQueue", "unknown"}]

(* Goals of one and two nodes that are valid or break one rule each; those  *)
(* that the bridge accepts are uploaded.                                   *)
Node(motion) ==
  [motion_type |-> motion, wait |-> FALSE, fly |-> FALSE, fly_type |-> 0,
   reference_index |-> 0, tool_index |-> 0, mask |-> {}, mask_back |-> {},
   target_finite |-> TRUE, settings_finite |-> TRUE,
   parameters_in_range |-> TRUE, fly_percent_in_range |-> TRUE]

Arc  == [path_id |-> 1, path_type |-> "CARTESIAN", start_index |-> 0, end_index |-> 0,
         nodes |-> <<Node("SEG_VIA"), Node("CIRCULAR")>>,
         frames |-> <<7>>, conditions |-> <<[slot |-> 32, handler_id |-> 10]>>]
Line == [Arc EXCEPT !.nodes = <<Node("LINEAR"), Node("JOINT")>>]
Bend == [Line EXCEPT !.path_type = "JOINT", !.frames = <<>>,
                     !.nodes = <<Node("JOINT"), Node("JOINT")>>]

MCGoals ==
  {Arc, Line, Bend,
   [Arc EXCEPT !.nodes[1].wait = TRUE], [Arc EXCEPT !.nodes[1].reference_index = 7],
   [Arc EXCEPT !.nodes[2].mask = {32}], [Arc EXCEPT !.nodes[2].mask = {1}],
   [Arc EXCEPT !.frames = <<8>>], [Arc EXCEPT !.frames = <<7, 7>>],
   [Arc EXCEPT !.conditions[1].slot = 0], [Arc EXCEPT !.conditions[1].handler_id = 0],
   [Arc EXCEPT !.nodes[2].motion_type = "invalid"], [Arc EXCEPT !.start_index = 2],
   [Line EXCEPT !.nodes[2].parameters_in_range = FALSE], [Line EXCEPT !.nodes = <<>>],
   [Line EXCEPT !.start_index = 2, !.end_index = 1], [Line EXCEPT !.end_index = 3],
   [Bend EXCEPT !.nodes[1].wait = TRUE], [Bend EXCEPT !.nodes[1].tool_index = 7],
   [Bend EXCEPT !.frames = <<7>>, !.nodes[2].tool_index = 7],
   [Bend EXCEPT !.frames = <<7>>],
   [Bend EXCEPT !.nodes[2].motion_type = "LINEAR"],
   [Bend EXCEPT !.start_index = 2, !.end_index = 1], [Bend EXCEPT !.start_index = 3]}

MCUploadCommands ==
  UNION {{UploadOf(g)[i] : i \in DOMAIN UploadOf(g)} : g \in MCGoals} \cap CommandType

MCCommands == MCPathCommands \cup MCFlyCommands \cup MCUploadCommands

CommandsOf == [path |-> MCPathCommands, fly |-> MCFlyCommands]

-----------------------------------------------------------------------------
(* The template of the sender, and what it may be edited to: joint elements, *)
(* a joint element among Cartesian ones, one element more than fits, and    *)
(* settings and motions at the limits of their ranges.                     *)
Point(name, k) == Call(name, Pose(k))

JointScript ==
  <<Call("setFlyNorm", <<50 * One>>), Call("clearFlyQueue", <<>>),
    Point("addFlyJoint", 1), Point("addFlyJoint", 2),
    Call("executeFlyQueue", <<>>)>>

MixedScript ==
  <<Call("setFlyCart", <<One, 3 * One, 0>>), Call("clearFlyQueue", <<>>),
    Point("addFlyLin", 1), Point("addFlyJoint", 2), Point("addFlyLin", 3),
    Call("executeFlyQueue", <<>>)>>

LongScript ==
  <<Call("clearFlyQueue", <<>>), Point("addFlyLin", 1), Point("addFlyLin", 2),
    Point("addFlyLin", 3), Point("addFlyLin", 4), Call("executeFlyQueue", <<>>)>>

LimitScript ==
  <<Point("setTool", 0), Call("setJointOverrides", Pose(100)),
    Call("setOrientation", <<3 * One>>), Call("setTermination", <<4 * One>>),
    Point("moveJoint", 0), Call("moveCircular", Pose(1) \o Pose(2)),
    Call("moveAbout", <<0, 0, Micro, -Micro, 2 * One>>),
    Call("moveRelative", <<0, 0, -Micro, 0>>)>>

(* Numbers that vanish in printing, and arguments the builders refuse.      *)
Single(name, args) == <<Call(name, args)>>

MCScripts ==
  {build_commands, JointScript, MixedScript, LongScript, LimitScript,
   Single("setSpeedLin", <<1>>), Single("moveRelative", <<1, 0, 0, One>>),
   Single("setSpeedJnt", <<One \div 2>>), Single("setFlyNorm", <<NotFinite>>),
   Single("moveAbout", <<0, 0, 0, One, 0>>), Single("moveLin", <<0, 0>>)}

-----------------------------------------------------------------------------
NoSender ==
  /\ script = <<>> /\ position = 1 /\ sender = "finished"
  /\ sent = NoCommand /\ runs = MaxRuns /\ interrupted = FALSE

NoUpload == goal = Line /\ uploaded = 0 /\ upload = "over"

MCInit ==
  \/ HistoryInit /\ NoSender /\ NoUpload /\ menu \in {"path", "fly"}
  \/ UploadInit /\ NoSender /\ menu = "upload"
  \/ SenderInit /\ NoUpload /\ void = FALSE /\ hit = "no" /\ menu = "sender"

(* The client chooses the command of the next call.                        *)
ClientStep ==
  /\ MainStep
  /\ service = "cleared" => call' \in CommandsOf[menu]

MenuTurn ==
  /\ \/ request_abort /\ AbortRemembered
     \/ (ClientStep \/ ArmStep \/ ControlStep \/ Interrupt) /\ StepRemembered
  /\ UNCHANGED <<bridgeVars, senderVars>>

UploadTurn == UploadNext /\ UNCHANGED senderVars

SenderTurn ==
  /\ (Abort /\ AbortRemembered) \/ (SenderStep /\ StepRemembered)
  /\ UNCHANGED bridgeVars

MCNext ==
  /\ \/ menu \in {"path", "fly"} /\ MenuTurn
     \/ menu = "upload" /\ UploadTurn
     \/ menu = "sender" /\ SenderTurn
  /\ UNCHANGED menu

MCSpec == MCInit /\ [][MCNext]_allVars /\ Fairness

-----------------------------------------------------------------------------
(* An abort releases a motion command it stopped the arm of, even one that *)
(* is held at a node or locked by a pause.  In a FLY queue a MOVEFLY that   *)
(* was checked before the abort still starts, and may then be paused for    *)
(* ever.                                                                   *)
AbortReleasesCall == hit # "no" /\ menu \in {"path", "upload"} ~> service = "idle"
=============================================================================
