--------------------------- MODULE FlyQueueSender ---------------------------
(***************************************************************************)
(* The FLY queue sender: it builds a list of commands, sends them one after *)
(* the other to the arm action server and stops at the first that fails.   *)
(* It is composed with the movement service that serves them, while        *)
(* condition handlers may abort and the sender may be started again.       *)
(*                                                                         *)
(* The arm action server is the way of a goal and its answer; that it       *)
(* rejects a goal, or answers before the controller does (a lost            *)
(* connection, a timeout), may happen to every command.                    *)
(***************************************************************************)
EXTENDS C4GMovements, CommandBuilder, FiniteSets

CONSTANTS
  Scripts,   \* what build_commands may be edited to: lists of builder calls
  MaxRuns    \* bound on the starts of the sender

ASSUME ScriptsAssumption ==
  Scripts \subseteq Seq([name : Builders, args : Seq(Int \cup {NotFinite})])

VARIABLES
  script,       \* the builder calls of this run
  position,     \* the command the loop of main is at
  sender,       \* where the sender is
  sent,         \* the command of the last goal, as call_service sees it
  runs,         \* starts of the sender
  interrupted   \* an abort came since this start of the sender

senderVars == <<script, position, sender, sent, runs, interrupted>>
flySenderVars == <<movementVars, senderVars>>

SenderTypeOK ==
  /\ script \in Scripts
  /\ sender \in {"ready", "waiting", "stopped", "finished"}
  /\ position \in 1 .. Len(script) + 1
  /\ sent \in Commands \cup {NoCommand}
  /\ runs \in 1 .. MaxRuns /\ interrupted \in BOOLEAN

-----------------------------------------------------------------------------
Pose(k) == [i \in 1 .. 6 |-> k * One]

(* The commands of the template; the poses are data.                       *)
build_commands ==
  <<Call("setSpeedJnt", <<5 * One>>), Call("setSpeedLin", <<One \div 20>>),
    Call("setAcceleration", <<10 * One>>), Call("setDeceleration", <<10 * One>>),
    Call("setFlyCart", <<10 * One, 0, 5 * One>>),
    Call("clearFlyQueue", <<>>),
    Call("addFlyLin", Pose(1)), Call("addFlyCirc", Pose(2) \o Pose(3)),
    Call("addFlyLin", Pose(4)),
    Call("executeFlyQueue", <<>>)>>

AddFlyKind == [addFlyLin |-> "CART", addFlyCirc |-> "CART", addFlyJoint |-> "JOINT"]
SetFlyMode == [setFlyNorm |-> "FLY_NORM", setFlyCart |-> "FLY_CART"]

(* The command as call_service selects it: its routine and whether its      *)
(* parameters are as the routine asks.                                     *)
CommandOf(c) ==
  LET ok == ParametersServed(Text(c)) IN
  IF c.name \in DOMAIN PlainCommands THEN [op |-> c.name]
  ELSE IF c.name \in DOMAIN AddFlyKind
    THEN [op |-> "addFly", kind |-> AddFlyKind[c.name], ok |-> ok]
  ELSE IF c.name \in DOMAIN SetFlyMode
    THEN [op |-> "setFly", mode |-> SetFlyMode[c.name], ok |-> ok]
  ELSE [op |-> IF c.name \in DOMAIN MoveCommands THEN "move" ELSE "setting", ok |-> ok]

(* All commands are built before the first is sent.                        *)
AllBuild(s) == \A i \in 1 .. Len(s) : Builds(s[i])

StartOf(s) == IF AllBuild(s) THEN "ready" ELSE "stopped"

SenderInit ==
  /\ Init
  /\ script \in Scripts /\ position = 1 /\ sender = StartOf(script)
  /\ sent = NoCommand /\ runs = 1 /\ interrupted = FALSE

-----------------------------------------------------------------------------
(* send_goal_async of a goal the action server accepts; the controller      *)
(* takes the command when it serves no other.                              *)
SendGoal ==
  /\ sender = "ready" /\ position <= Len(script)
  /\ reset_abort
  /\ sent' = CommandOf(script[position])
  /\ sender' = "waiting"
  /\ UNCHANGED <<script, position, runs, interrupted>>

(* No goal handle, a rejected goal, no result, or a result without success. *)
SendFails ==
  /\ sender \in {"ready", "waiting"} /\ position <= Len(script)
  /\ sender' = "stopped"
  /\ UNCHANGED <<movementVars, script, position, sent, runs, interrupted>>

Serve == service = "cleared" /\ call_service(sent) /\ UNCHANGED senderVars

(* Mutant: the loop goes on after a command that failed.                   *)
GoesOn(r) == TRUE

Succeeded(r) == r = "OK"

(* The result of the command; a sender that has stopped does not get it.   *)
GetResult ==
  /\ TakeResult
  /\ \/ /\ sender = "waiting" /\ Succeeded(returned)
        /\ position' = position + 1 /\ sender' = "ready"
     \/ /\ sender = "waiting" /\ ~Succeeded(returned)
        /\ sender' = "stopped" /\ UNCHANGED position
     \/ sender # "waiting" /\ UNCHANGED <<position, sender>>
  /\ UNCHANGED <<script, sent, runs, interrupted>>

LoopEnds ==
  /\ sender = "ready" /\ position = Len(script) + 1
  /\ sender' = "finished"
  /\ UNCHANGED <<movementVars, script, position, sent, runs, interrupted>>

(* Bound: the sender is started MaxRuns times.                             *)
StartAgain ==
  /\ sender \in {"stopped", "finished"} /\ runs < MaxRuns
  /\ script' \in Scripts /\ sender' = StartOf(script')
  /\ position' = 1 /\ runs' = runs + 1 /\ interrupted' = FALSE
  /\ UNCHANGED <<movementVars, sent>>

Abort ==
  /\ request_abort
  /\ interrupted' = TRUE
  /\ UNCHANGED <<script, position, sender, sent, runs>>

ControllerStep ==
  /\ \/ ApplyRoutine \/ StartMove \/ execute_fly_queue \/ FlyCheck \/ FlyMove
     \/ MoveReturns \/ CheckAfterMove \/ ReachTarget
  /\ UNCHANGED senderVars

SenderStep ==
  \/ SendGoal \/ SendFails \/ Serve \/ GetResult \/ LoopEnds \/ StartAgain
  \/ ControllerStep

SenderNext == SenderStep \/ Abort

SenderSpec == SenderInit /\ [][SenderNext]_flySenderVars

-----------------------------------------------------------------------------
(* The commands that leave an empty queue when they succeed.               *)
Empties == {"clearFlyQueue", "executeFlyQueue"}

EmptiedBefore(s, i) == \E j \in 1 .. i - 1 : s[j].name \in Empties

(* The elements the script has put into the queue in front of position i.   *)
AddedBefore(s, i) ==
  {k \in 1 .. i - 1 : /\ s[k].name \in DOMAIN FlyQueueCommands
                      /\ \A j \in k .. i - 1 : s[j].name \notin Empties}

(* The controller runs the queue of this start of the sender.              *)
RunsTheQueue ==
  /\ sender = "waiting" /\ sent.op = "executeFlyQueue"
  /\ service \in {"flycheck", "flymove", "moving"}

(* A FLY motion of a script that empties the queue first follows exactly the *)
(* elements of the script: after every failure the sender stops, and the    *)
(* next start clears what it has left.  Elements are missing only if an     *)
(* abort has emptied the queue between two commands, of which the sender is *)
(* not told.                                                               *)
ExecutesTheScript ==
  RunsTheQueue /\ EmptiedBefore(script, position) =>
    LET added == Cardinality(AddedBefore(script, position)) IN
      fly_last <= added /\ (~interrupted => fly_last = added)

(* What a builder has checked and printed the controller's routine serves,  *)
(* as far as its parameters go; the exception is a number the builder finds *)
(* to be greater than, or different from, zero and prints as zero.         *)
BuiltIsServed ==
  sender = "waiting" /\ "ok" \in DOMAIN sent =>
    sent.ok \/ (sent.op \in {"move", "setting"} /\ Vanishes(script[position]))
=============================================================================
