---------------------------- MODULE MCGazeboNodes ----------------------------
(******************************************************************************)
(* The nodes of the simulation: the mirror with the reset plugin, the         *)
(* trajectory bridge and the environment boxes.  They share no state, so an   *)
(* interleaving of them is a behaviour of each: a behaviour here is one of    *)
(* the node that is launched, and the others have nothing to do.              *)
(******************************************************************************)
EXTENDS C4GGazeboSync, TrajectoryBridge, EnvironmentBoxes

VARIABLE launched

allVars == <<mirrorVars, vars, boxVars, launched>>

(* Four set-ups of the mirror.                                                *)

Setup(mode, pose, handover, away) ==
  [mode |-> mode, pose |-> pose, handover |-> handover, away |-> away]

Blending == Setup("blend", TRUE, TRUE, FALSE)

MCSetups == {Blending,
             Setup("teleport", TRUE, TRUE, FALSE),
             Setup("teleport", FALSE, TRUE, TRUE),
             Setup("teleport", FALSE, FALSE, FALSE)}

(* Two goals: one whose request is valid or breaks one rule, one valid.       *)

Point(time, j2, j7) ==
  [time |-> time, positions |-> <<j2, j7>>, velocities |-> <<>>, accelerations |-> <<>>,
   readable |-> TRUE, effort |-> FALSE]

Valid == [joints |-> "moveit", unsupported |-> FALSE, tolerances |-> {"joint_7"},
          points |-> <<Point(0, 0, 1), Point(2, 1, 2)>>]

MCRequests ==
  {Valid,
   [Valid EXCEPT !.joints = "other"], [Valid EXCEPT !.points = <<>>],
   [Valid EXCEPT !.unsupported = TRUE], [Valid EXCEPT !.tolerances = {"joint_3"}],
   [Valid EXCEPT !.points[2].time = 0], [Valid EXCEPT !.points[1].readable = FALSE],
   [Valid EXCEPT !.points[2].effort = TRUE],
   [Valid EXCEPT !.points[2].positions = <<1, 4>>],
   [Valid EXCEPT !.points[2].positions = <<-3, 3>>],
   [Valid EXCEPT !.points[2].velocities = <<1, 3>>],
   [Valid EXCEPT !.points[1].velocities = <<1, 0>>, !.points[2].velocities = <<1, 2>>,
                 !.points[2].accelerations = <<-1, 3>>]}

CONSTANTS a, b

MCLags == {<<1, -2>>}

JointSevenMin == -3
JointThreeMin == -4

(* Configurations of the boxes that load, and that break one rule.            *)
Shape(type, dims) ==
  <<[type |-> type, dims |-> dims, model |-> <<0, 4, 3>>, link |-> <<1, 0, 1>>,
     collision |-> <<2, 3, 0>>]>>

Box      == Shape("box", <<2, 3, 4>>)
Cylinder == Shape("cylinder", <<5, 1>>)

Entry(id, sdf, turn) == [id |-> id, sdf |-> sdf, pose |-> <<10, -5, turn>>]

Config(frame, padding, boxes) ==
  [frame_id |-> frame, planning_padding |-> padding, boxes |-> boxes]

Loading ==
  {Config("base", p, <<Entry("a", Box, t), Entry("b", Cylinder, u)>>) :
     p \in 0 .. 1, t \in 0 .. 3, u \in {0, 2}} \cup {Config("base", 0, <<>>)}

Bad(sdf) == Config("base", 1, <<Entry("a", sdf, 0)>>)

MCConfigs ==
  Loading \cup
  {Config(NoName, 0, <<>>), Config("base", -1, <<>>), Config("base", NotFinite, <<>>),
   Config("base", 0, <<Entry("a", Box, 0), Entry("a", Cylinder, 0)>>),
   Config("base", 0, <<Entry(NoName, Box, 0)>>),
   Bad(<<>>), Bad(Box \o Cylinder), Bad(Shape("box", <<1, 2>>)),
   Bad(Shape("cylinder", <<1, 0>>)), Bad(Shape("box", <<1, 2, NotFinite>>))}

MirrorRests == Init /\ setup = Blending /\ state = "DISABLED" /\ controllers

BridgeRests == TrajectoryInit /\ request = [g \in Goals |-> Valid]

BoxesRest ==
  /\ config = Config("base", 0, <<>>) /\ node = "failed" /\ future = "none"
  /\ group = "down" /\ received = FALSE /\ scene = NoObjects
  /\ history = [restarts |-> 0, refused |-> 0, forgot |-> FALSE]

MCInit ==
  \/ /\ launched = "mirror" /\ Init
     /\ BridgeRests /\ BoxesRest
  \/ /\ launched = "bridge" /\ TrajectoryInit /\ request[b] = Valid
     /\ MirrorRests /\ BoxesRest
  \/ /\ launched = "boxes" /\ BoxInit
     /\ MirrorRests /\ BridgeRests

MCNext ==
  /\ \/ launched = "mirror" /\ Next           /\ UNCHANGED <<vars, boxVars>>
     \/ launched = "bridge" /\ TrajectoryNext /\ UNCHANGED <<mirrorVars, boxVars>>
     \/ launched = "boxes"  /\ BoxNext        /\ UNCHANGED <<mirrorVars, vars>>
  /\ UNCHANGED launched

MCSpec == MCInit /\ [][MCNext]_allVars /\ Fairness /\ TrajectoryFairness
===============================================================================
