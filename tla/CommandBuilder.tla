--------------------------- MODULE CommandBuilder ---------------------------
(***************************************************************************)
(* command_builder: the functions that check their arguments and print a    *)
(* command, and what the routines of ROS2_MOVEMENTS_1 ask of its            *)
(* parameters when they have read them.                                    *)
(*                                                                         *)
(* A number is a multiple of a small unit, One of which make 1.0; printing  *)
(* rounds it to six or to three digits, which are coarser than the unit.   *)
(***************************************************************************)
EXTENDS Integers, Sequences

CONSTANTS
  One,         \* 1.0
  Micro,       \* the last digit of {:.6f}
  Milli,       \* the last digit of {:.3f}
  NotFinite    \* NaN and the infinities

ASSUME UnitsAssumption ==
  /\ {One, Micro, Milli} \subseteq Nat \ {0}
  /\ Micro > 1 /\ Milli % Micro = 0 /\ One % Milli = 0
  /\ NotFinite \notin Int

(* The arguments a builder admits, one set for each.                       *)
Values(n)  == [i \in 1 .. n |-> Int]
Percent    == One .. 100 * One
Modes(max) == {m * One : m \in 0 .. max}

PlainCommands == [n \in {"clearFlyQueue", "executeFlyQueue"} |-> <<>>]

FrameCommands == [n \in {"setBase", "setTool", "setUframe"} |-> Values(6)]

(* Mutant: an override of zero percent is allowed.                         *)
LooseSpeedCommands ==
  [setSpeedJnt |-> <<0 .. 100 * One>>, setSpeedLin |-> <<Nat \ {0}>>,
   setJointOverrides |-> [i \in 1 .. 6 |-> Percent],
   setAcceleration |-> <<Percent>>, setDeceleration |-> <<Percent>>]

SpeedCommands ==
  [setSpeedJnt |-> <<Percent>>, setSpeedLin |-> <<Nat \ {0}>>,
   setJointOverrides |-> [i \in 1 .. 6 |-> Percent],
   setAcceleration |-> <<Percent>>, setDeceleration |-> <<Percent>>]

ModeCommands == [setOrientation |-> <<Modes(3)>>, setTermination |-> <<Modes(4)>>]

FlySettings ==
  [setFlyNorm |-> <<Percent>>, setFlyCart |-> <<Percent, Modes(3), Nat>>]

MoveCommands ==
  [moveJoint |-> Values(6), moveLin |-> Values(6), moveCircular |-> Values(12),
   moveRelative |-> <<Int, Int, Int, Modes(2)>>,
   moveAbout |-> <<Int, Int, Int, Int, Modes(2)>>]

FlyQueueCommands ==
  [addFlyLin |-> Values(6), addFlyCirc |-> Values(12), addFlyJoint |-> Values(6)]

Builders ==
  UNION {DOMAIN PlainCommands, DOMAIN FrameCommands, DOMAIN SpeedCommands,
         DOMAIN ModeCommands, DOMAIN FlySettings, DOMAIN MoveCommands,
         DOMAIN FlyQueueCommands}

Signature(name) ==
  IF name \in DOMAIN PlainCommands THEN PlainCommands[name]
  ELSE IF name \in DOMAIN FrameCommands THEN FrameCommands[name]
  ELSE IF name \in DOMAIN SpeedCommands THEN SpeedCommands[name]
  ELSE IF name \in DOMAIN ModeCommands THEN ModeCommands[name]
  ELSE IF name \in DOMAIN FlySettings THEN FlySettings[name]
  ELSE IF name \in DOMAIN MoveCommands THEN MoveCommands[name]
  ELSE FlyQueueCommands[name]

Call(name, args) == [name |-> name, args |-> args]

IsZero(args, n) == \A i \in 1 .. n : args[i] = 0

(* move_relative and move_about refuse a zero vector and a zero angle.      *)
MovesNothing(c) ==
  \/ c.name \in {"moveRelative", "moveAbout"} /\ IsZero(c.args, 3)
  \/ c.name = "moveAbout" /\ c.args[4] = 0

(* The builder raises no ValueError.                                       *)
Builds(c) ==
  /\ Len(c.args) = Len(Signature(c.name))
  /\ \A i \in 1 .. Len(c.args) : c.args[i] \in Signature(c.name)[i]
  /\ ~MovesNothing(c)

-----------------------------------------------------------------------------
Round(v, unit) == ((v + unit \div 2) \div unit) * unit

(* Modes and frames are printed as they are; they are multiples of One.    *)
UnitOf(name) ==
  IF name \in {"setSpeedJnt", "setAcceleration", "setDeceleration"}
                \cup DOMAIN FlySettings
    THEN Milli ELSE Micro

Text(c) ==
  [name |-> c.name,
   params |-> [i \in 1 .. Len(c.args) |-> Round(c.args[i], UnitOf(c.name))]]

-----------------------------------------------------------------------------
(* check_par_num and the ranges the routine of the command asks for.       *)
RequiredNumber(name) ==
  IF name \in {"setSpeedJnt", "setSpeedLin", "setAcceleration", "setDeceleration",
              "setOrientation", "setTermination", "setFlyNorm"} THEN 1
  ELSE IF name = "setFlyCart" THEN 3
  ELSE IF name = "moveRelative" THEN 4
  ELSE IF name = "moveAbout" THEN 5
  ELSE IF name \in {"moveCircular", "addFlyCirc"} THEN 12
  ELSE 6

InRange(name, p) ==
  /\ name \in {"setSpeedJnt", "setJointOverrides", "setAcceleration",
              "setDeceleration", "setFlyNorm"} =>
       \A i \in DOMAIN p : p[i] >= One /\ p[i] <= 100 * One
  /\ name = "setSpeedLin" => p[1] > 0
  /\ name = "setOrientation" => p[1] \in {0, One, 2 * One, 3 * One}
  /\ name = "setTermination" => p[1] \in {0, One, 2 * One, 3 * One, 4 * One}
  /\ name = "setFlyCart" =>
       /\ p[1] >= One /\ p[1] <= 100 * One /\ p[3] >= 0
       /\ p[2] \in {0, One, 2 * One, 3 * One}
  /\ name = "moveRelative" => ~IsZero(p, 3) /\ p[4] \in {0, One, 2 * One}
  /\ name = "moveAbout" =>
       ~IsZero(p, 3) /\ p[4] # 0 /\ p[5] \in {0, One, 2 * One}

ParametersServed(m) ==
  m.name \notin DOMAIN PlainCommands =>
    Len(m.params) = RequiredNumber(m.name) /\ InRange(m.name, m.params)

(* A number that is not zero is printed as zero.                           *)
Vanishes(c) ==
  \E i \in 1 .. Len(c.args) : c.args[i] # 0 /\ Text(c).params[i] = 0
=============================================================================
