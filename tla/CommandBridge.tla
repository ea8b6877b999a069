---------------------------- MODULE CommandBridge ----------------------------
(***************************************************************************)
(* The action servers and the motion control node, both clients of the     *)
(* controller programs, with an operator who restarts a program that lost  *)
(* its client and a network that drops connections.                        *)
(***************************************************************************)
EXTENDS ArmExecuteActionServer, MotionControlNode

CONSTANT Budgets    \* bounds: how often a run may see each of the events
                    \* that come from outside

BudgetType == [goals : SUBSET Goals, kinds : SUBSET GoalKinds, calls : Nat,
               losses : Nat, restarts : Nat]

ASSUME BridgeAssumption ==
  /\ Budgets \subseteq BudgetType
  /\ Bridge # Node
  /\ "none" \notin Clients /\ "lost" \notin Clients

VARIABLES
  left,       \* what is left of the budget
  dropped     \* history: the network has lost a control command

vars == <<programVars, serverVars, nodeVars, left, dropped>>

Init == /\ ProgramsInit /\ ServerInit /\ NodeInit
        /\ left \in Budgets /\ dropped = FALSE

Spend(what) == left[what] > 0 /\ left' = [left EXCEPT ![what] = @ - 1]

RequestGoal(g, k) ==
  /\ goal_callback(g, k)
  /\ g \in left.goals /\ \A h \in left.goals : g <= h
  /\ k \in left.kinds
  /\ left' = [left EXCEPT !.goals = @ \ {g}]
  /\ UNCHANGED <<nodeVars, dropped>>

RequestControl(e) ==
  /\ _handle_trigger(e) /\ Spend("calls")
  /\ UNCHANGED <<serverVars, dropped>>

Restart ==
  /\ OperatorRestarts /\ Spend("restarts")
  /\ UNCHANGED <<serverVars, nodeVars, dropped>>

Lose ==
  /\ LoseConnection /\ Spend("losses")
  /\ dropped' = (dropped \/ ctl_in' # ctl_in)
  /\ UNCHANGED <<serverVars, nodeVars>>

Next ==
  \/ \E g \in Goals, k \in GoalKinds : RequestGoal(g, k)
  \/ \E e \in Events : RequestControl(e)
  \/ Restart \/ Lose
  \/ ServerStep  /\ UNCHANGED <<nodeVars, left, dropped>>
  \/ NodeStep    /\ UNCHANGED <<serverVars, left, dropped>>
  \/ ProgramStep /\ UNCHANGED <<serverVars, nodeVars, left, dropped>>

(* The action servers go on; nothing is asked of the controller, of the    *)
(* motion control node or of the network.                                  *)
Spec == Init /\ [][Next]_vars /\ ServerFairness

-----------------------------------------------------------------------------
(* The handshake is half-duplex: at most one message to the controller,    *)
(* and besides PATH_EVENTs one from it.                                     *)
TypeOK ==
  /\ ProgramsTypeOK /\ ServerTypeOK /\ NodeTypeOK
  /\ left \in BudgetType /\ dropped \in BOOLEAN
  /\ Len(cmd_in) <= 1 /\ Len(cmd_out) <= MaxEvents + 1

(* The two ends of the command connection never lose step: the main        *)
(* program never takes a "start" for a command, and every message the      *)
(* bridge receives answers the command it is waiting for.  What makes it   *)
(* so is the busy flag and that every exception closes the connection.     *)
InStep ==
  /\ state = "idle" /\ cmd_in # <<>> => Head(cmd_in).op # "start"
  /\ \A g \in Goals :
       Waiting(g) /\ cmd_out # <<>> =>
         /\ Head(cmd_out).of = Cmd(g)
         /\ pc[g] = "echo" => Head(cmd_out).kind = "echo"
         /\ pc[g] = "final" => Head(cmd_out).kind # "echo"

(* A motion or PATH goal succeeds only when the arm has carried out what    *)
(* this goal asked for up to its end.                                      *)
SuccessIsOwn ==
  \A g \in Goals : goal[g] = "succeeded" /\ kind[g] \in {"move", "path"}
                     => g \in finished

(* No motion of a canceled goal is under way, or can still begin.          *)
CanceledIsStill ==
  \A g \in Goals : goal[g] = "canceled" =>
    /\ arm # g
    /\ ~ /\ command.goal = g /\ command.op \in MotionOps
         /\ state \in {"movement", "cleared", "admitted", "moving"}

(* A PATH whose goal was given up while it may be moving does not move on  *)
(* unattended: an abort is on its way, unless it could not be sent or came *)
(* in the moment between the last check and the motion.                    *)
AbortOnItsWay == \/ \E i \in 1 .. Len(ctl_in) : ctl_in[i] = "abortMotion"
                 \/ "abortMotion" \in events
                 \/ motion_aborted

AbandonedPathIsStopped ==
  \A g \in Goals :
    /\ goal[g] = "aborted" /\ kind[g] = "path" /\ arm = g
    /\ control_enabled /\ g \notin stop_refused /\ ~dropped
    => AbortOnItsWay

(* Every accepted goal ends, whatever the controller and the network do,   *)
(* and its thread leaves the server to the next one.                        *)
GoalsEnd ==
  \A g \in Goals : goal[g] = "executing" ~> goal[g] \in Ended /\ pc[g] = "none"
=============================================================================
