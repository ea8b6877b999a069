-------------------------- MODULE EnvironmentBoxes --------------------------
(***************************************************************************)
(* The environment boxes node: it reads the obstacles of the cell from a    *)
(* configuration and SDF files, and a timer sends them to MoveIt's planning *)
(* scene until MoveIt has accepted them once.                              *)
(*                                                                         *)
(* Poses are <<x, y, turn>> with turn a number of quarter turns about z,    *)
(* the only rotations whose sines are integers; lengths are integers.      *)
(***************************************************************************)
EXTENDS Integers, Sequences

CONSTANTS
  Configs,       \* configurations, [frame_id, planning_padding, boxes]
  NoName,        \* an empty identifier or frame
  NotFinite,     \* NaN and the infinities
  MaxRestarts,   \* bound on the restarts of move_group
  MaxRejects     \* bound on the scenes it refuses and on failed calls

Poses == Int \X Int \X (0 .. 3)

ASSUME EnvironmentAssumption ==
  /\ MaxRestarts \in Nat /\ MaxRejects \in Nat
  /\ \A c \in Configs :
       /\ c.planning_padding \in Int \cup {NotFinite}
       /\ \A i \in 1 .. Len(c.boxes) :
            /\ c.boxes[i].pose \in Poses
            /\ c.boxes[i].sdf \in Seq(
                 [type : {"box", "cylinder"}, dims : Seq(Int \cup {NotFinite}),
                  model : Poses, link : Poses, collision : Poses])

VARIABLES
  config,     \* the configuration of this start
  node,       \* "failed", "running" (timer active) or "cancelled"
  future,     \* _future: "none", "waiting", or the answer to be handled
  group,      \* move_group: "down", "starting" or "up"
  received,   \* move_group has the request and has not answered it
  scene,      \* its collision objects, by identifier
  history     \* restarts, refused or failed calls, and whether the scene was
              \* lost after it had been accepted

boxVars == <<config, node, future, group, received, scene, history>>

NoObjects == << >>

-----------------------------------------------------------------------------
(* A vector turned by a number of quarter turns.                           *)
Turn(t, v) ==
  IF t % 4 = 0 THEN v
  ELSE IF t % 4 = 1 THEN <<-v[2], v[1]>>
  ELSE IF t % 4 = 2 THEN <<-v[1], -v[2]>>
  ELSE <<v[2], -v[1]>>

(* One round of _compose_pose_chain.                                       *)
Compose(p, q) ==
  LET r == Turn(p[3], <<q[1], q[2]>>) IN
  <<p[1] + r[1], p[2] + r[2], (p[3] + q[3]) % 4>>

(* Of the four poses it is called with.                                    *)
_compose_pose_chain(poses) ==
  Compose(Compose(Compose(Compose(<<0, 0, 0>>, poses[1]), poses[2]), poses[3]),
          poses[4])

(* _parse_sdf_shape: exactly one supported shape, with positive sizes.  A   *)
(* file that does not exist is one without a shape.                        *)
DimensionCount == [box |-> 3, cylinder |-> 2]

ParsesSdf(sdf) ==
  /\ Len(sdf) = 1
  /\ Len(sdf[1].dims) = DimensionCount[sdf[1].type]
  /\ \A i \in 1 .. Len(sdf[1].dims) : sdf[1].dims[i] \in Nat \ {0}

(* Mutant: identifiers may be used twice.                                  *)
AnyIdentifier(boxes, i) == boxes[i].id # NoName

NewIdentifier(boxes, i) ==
  boxes[i].id # NoName /\ \A j \in 1 .. i - 1 : boxes[j].id # boxes[i].id

Loads(c) ==
  /\ c.frame_id # NoName /\ c.planning_padding \in Nat
  /\ \A i \in 1 .. Len(c.boxes) :
       NewIdentifier(c.boxes, i) /\ ParsesSdf(c.boxes[i].sdf)

(* The padded sizes: both ends of a box, the ends and the radius of a       *)
(* cylinder.                                                               *)
PaddedDimensions(type, dims, padding) ==
  IF type = "box" THEN [i \in 1 .. 3 |-> dims[i] + 2 * padding]
                  ELSE <<dims[1] + 2 * padding, dims[2] + padding>>

collision_object(box, padding) ==
  LET shape == box.sdf[1] IN
  [type |-> shape.type,
   dims |-> PaddedDimensions(shape.type, shape.dims, padding),
   pose |-> _compose_pose_chain(
             <<box.pose, shape.model, shape.link, shape.collision>>)]

(* The diff adds its objects in order, and ADD replaces an object with the   *)
(* same identifier: of two in one diff the later one stays.                *)
AddedAs(id) == {i \in 1 .. Len(config.boxes) : config.boxes[i].id = id}

Latest(indices) == CHOOSE i \in indices : \A j \in indices : j <= i

WithDiff(objects) ==
  [id \in DOMAIN objects \cup {config.boxes[i].id : i \in 1 .. Len(config.boxes)} |->
     IF AddedAs(id) = {} THEN objects[id]
     ELSE collision_object(config.boxes[Latest(AddedAs(id))],
                           config.planning_padding)]

-----------------------------------------------------------------------------
BoxInit ==
  /\ config \in Configs
  /\ node = IF Loads(config) THEN "running" ELSE "failed"
  /\ future = "none" /\ group = "down" /\ received = FALSE
  /\ scene = NoObjects
  /\ history = [restarts |-> 0, refused |-> 0, forgot |-> FALSE]

_try_apply ==
  /\ node = "running" /\ future = "none" /\ group = "up"
  /\ future' = "waiting" /\ received' = TRUE
  /\ UNCHANGED <<config, node, group, scene, history>>

_applied ==
  /\ future \in {"applied", "refused", "error"}
  /\ future' = "none"
  /\ node' = IF future = "applied" THEN "cancelled" ELSE node
  /\ UNCHANGED <<config, group, received, scene, history>>

-----------------------------------------------------------------------------
(* move_group applies the diff and answers.                                *)
GroupApplies ==
  /\ group = "up" /\ received
  /\ scene' = WithDiff(scene)
  /\ future' = "applied" /\ received' = FALSE
  /\ UNCHANGED <<config, node, group, history>>

(* Bound: it refuses a scene, or a call fails, MaxRejects times.           *)
GroupRefuses ==
  /\ group = "up" /\ received /\ history.refused < MaxRejects
  /\ future' \in {"refused", "error"} /\ received' = FALSE
  /\ history' = [history EXCEPT !.refused = @ + 1]
  /\ UNCHANGED <<config, node, group, scene>>

GroupStarts ==
  /\ group = "down" /\ group' = "up"
  /\ UNCHANGED <<config, node, future, received, scene, history>>

(* Bound: move_group goes down MaxRestarts times.  Its scene is lost, and    *)
(* so is a request it has not answered: nothing ends that future.          *)
GroupStops ==
  /\ group = "up" /\ history.restarts < MaxRestarts
  /\ group' = "down" /\ received' = FALSE /\ scene' = NoObjects
  /\ history' = [history EXCEPT !.restarts = @ + 1,
                                !.forgot = @ \/ future = "applied"
                                             \/ node = "cancelled"]
  /\ UNCHANGED <<config, node, future>>

BoxNext ==
  \/ _try_apply \/ _applied
  \/ GroupApplies \/ GroupRefuses \/ GroupStarts \/ GroupStops

BoxSpec == BoxInit /\ [][BoxNext]_boxVars

-----------------------------------------------------------------------------
(* What a shape measures along each of its directions.                     *)
Extents(type, dims) ==
  IF type = "box" THEN <<dims[1], dims[2], dims[3]>>
                  ELSE <<dims[1], 2 * dims[2], 2 * dims[2]>>

(* Where a link's or a model's pose puts a point.                          *)
Put(pose, v) ==
  LET r == Turn(pose[3], v) IN <<pose[1] + r[1], pose[2] + r[2]>>

IsObstacle(box, object) ==
  LET shape == box.sdf[1]
      inner == Extents(shape.type, shape.dims)
      outer == Extents(object.type, object.dims)
  IN /\ object.type = shape.type
     /\ \A i \in 1 .. 3 : outer[i] >= inner[i] + 2 * config.planning_padding
     /\ <<object.pose[1], object.pose[2]>> =
          Put(box.pose, Put(shape.model,
            Put(shape.link, <<shape.collision[1], shape.collision[2]>>)))

(* When the node has cancelled its timer every box of the configuration is  *)
(* in MoveIt's scene, under an identifier of its own, where its SDF puts    *)
(* it, and larger by the padding on every side, unless move_group has       *)
(* lost the scene since: a restart after the acceptance is not noticed.    *)
EveryBoxIsInTheScene ==
  node = "cancelled" /\ ~history.forgot =>
    \A i \in 1 .. Len(config.boxes) :
      LET box == config.boxes[i] IN
      box.id \in DOMAIN scene /\ IsObstacle(box, scene[box.id])
=============================================================================
