------------------------- MODULE GazeboNodes_proofs -------------------------
(***************************************************************************)
(* Proofs about the two nodes that move the arm of Gazebo: the mirror of    *)
(* the controller (C4GGazeboSync, with the joint reset system) and the      *)
(* bridge that takes trajectories of MoveIt (TrajectoryBridge); and about   *)
(* the one that tells MoveIt of the obstacles (EnvironmentBoxes).           *)
(***************************************************************************)
EXTENDS C4GGazeboSync, TrajectoryBridge, EnvironmentBoxes, TLAPS

-----------------------------------------------------------------------------
(***************************************************************************)
(* The world is never left paused, the solver is at rest while the joints   *)
(* are put in place, and live means that nothing is pending: proofs for any *)
(* number of resets and any set-ups.  The plugin serves its calls in order, *)
(* so the answer of a reset says that those before it are over; a pause or  *)
(* resume of the solver that was answered is the last one that was sent.    *)
(***************************************************************************)
USE JointResetAssumption, SyncAssumption DEF Calls, NoCall

(* PreUpdate works on the request of a handler that still waits.           *)
WorldInv ==
  /\ phase # "IDLE" => handler.at = "waiting" /\ completed = "no"
  /\ phase = "WAIT_PAUSED" => handler.pause
  /\ world_paused => phase = "WAIT_PAUSED"

(* The bound on the resets keeps one for a teleport that has begun.         *)
BoundInv == state = "PREPARE_TELEPORT" => sent < MaxResets

Teleporting == {"PREPARE_TELEPORT", "RESET_TO_REAL", "VERIFY_RESET",
                "RESUME_PASSIVE_SOLVER"}

(* What is on its way to the solver at each step of a teleport.             *)
SolverInv ==
  /\ setup.mode = "blend" => state \notin Teleporting
  /\ setup.mode = "blend" \/ ~setup.handover =>
       /\ solver /\ solver_calls = <<>>
       /\ passive_solver_future = "none" /\ ~passive_solver_paused
  /\ setup.handover /\ state = "PREPARE_TELEPORT" =>
       IF passive_solver_future = "pending"
         THEN solver_calls # <<>> /\ ~solver_calls[Len(solver_calls)]
         ELSE ~solver /\ solver_calls = <<>>
  /\ setup.handover /\ state \in {"RESET_TO_REAL", "VERIFY_RESET"} =>
       ~solver /\ solver_calls = <<>>
  /\ state = "RESUME_PASSIVE_SOLVER" =>
       \/ solver_calls = <<TRUE>>
       \/ solver_calls = <<>> /\ solver
  /\ state = "RESUME_PASSIVE_SOLVER" /\ passive_solver_future = "done" =>
       solver_calls = <<>> /\ solver
  /\ state \in {"BLEND_TO_REAL", "LIVE_SYNC"} => solver /\ solver_calls = <<>>
  /\ state = "BLEND_TO_REAL" => setup.mode = "blend"

(* The calls of the plugin are answered in the order they were made.        *)
OrderInv ==
  /\ handler.at = "idle" <=> handler.call = NoCall
  /\ handler.call <= sent
  /\ \A i \in DOMAIN resets : resets[i].call <= sent /\ handler.call < resets[i].call
  /\ \A i, j \in DOMAIN resets : i < j => resets[i].call < resets[j].call
  /\ \A c \in Calls : answers[c] # "none" =>
       /\ c <= sent
       /\ handler.call # NoCall => c < handler.call
       /\ \A i \in DOMAIN resets : c < resets[i].call

(* Calls of the node that are still to be served, or being served.          *)
Own(last) ==
  /\ \A i \in DOMAIN resets : ~resets[i].pause => resets[i].call <= last
  /\ handler.at # "idle" /\ ~handler.pause => handler.call <= last

OwnInv ==
  /\ setup.mode = "blend" => Own(NoCall)
  /\ state \in {"VERIFY_RESET", "RESUME_PASSIVE_SOLVER", "LIVE_SYNC"} => Own(NoCall)
  /\ state = "RESET_TO_REAL" => Own(reset_future)

Inv == TypeOK /\ WorldInv /\ BoundInv /\ SolverInv /\ OrderInv /\ OwnInv

-----------------------------------------------------------------------------
LEMMA InitInv == Init => Inv
<1> SUFFICES ASSUME Init PROVE Inv
  OBVIOUS
<1> USE DEF Init, ResetInit, Resting
<1>1. TypeOK
  <2>1. handler \in [at : Handling, call : Calls \cup {NoCall}, pause : BOOLEAN]
    BY DEF Handling
  <2>2. ResetTypeOK
    <3>1. resets \in Seq(Request) /\ answers \in [Calls -> {"none", "ok", "failed"}]
      OBVIOUS
    <3>2. late_switch \in {"none", "activate", "deactivate"}
      OBVIOUS
    <3> QED BY <2>1, <3>1, <3>2 DEF ResetTypeOK
  <2>3. state \in States
    BY DEF States, _initial_sync_wait_state
  <2>4. sent \in 0 .. MaxResets /\ solver_calls \in Seq(BOOLEAN)
    OBVIOUS
  <2> QED BY <2>2, <2>3, <2>4 DEF TypeOK
<1>2. WorldInv /\ BoundInv
  BY DEF WorldInv, BoundInv, _initial_sync_wait_state
<1>3. SolverInv
  BY DEF SolverInv, Teleporting, _initial_sync_wait_state
<1>4. OrderInv
  BY DEF OrderInv
<1>5. OwnInv
  BY DEF OwnInv, Own, _initial_sync_wait_state
<1> QED BY <1>1, <1>2, <1>3, <1>4, <1>5 DEF Inv

(* A step is one of the node, of the solver or of the plugin, or a call of  *)
(* the editor; only two of them call the plugin.                           *)
LEMMA Steps ==
  ASSUME [Next]_mirrorVars
  PROVE  \/ UNCHANGED mirrorVars
         \/ System
         \/ _poll_teleport_prepare
         \/ \E ok \in BOOLEAN : EditorReset(ok)
         \/ /\ UNCHANGED <<resetVars, sent, setup>>
            /\ \/ InitialPoseReached \/ Blend \/ Blended \/ _prepare_teleport
               \/ ResetAnswered \/ ResetTimesOut \/ Verify \/ Resumed
               \/ _enable_sync \/ set_enabled_callback
BY DEF Next, NodeStep, In, Rest, InitialPoseReached, Blend, Blended, _prepare_teleport,
       ResetAnswered, ResetTimesOut, Verify, Resumed, _enable_sync,
       set_enabled_callback, nodeVars

(* What the plugin's steps do to its calls.                                *)
LEMMA ServedInOrder ==
  ASSUME TypeOK, System
  PROVE  \/ UNCHANGED <<resets, answers, handler>>
         \/ /\ UNCHANGED <<resets, answers>>
            /\ handler.at # "idle" /\ handler'.at # "idle"
            /\ handler'.call = handler.call /\ handler'.pause = handler.pause
         \/ /\ UNCHANGED resets /\ handler.at # "idle" /\ handler' = Resting
            /\ \E a \in {"ok", "failed"} :
                 answers' = [answers EXCEPT ![handler.call] = a]
         \/ /\ handler.at = "idle" /\ resets # <<>> /\ resets' = Tail(resets)
            /\ \/ /\ UNCHANGED answers
                  /\ handler' = [at |-> "list", call |-> Head(resets).call,
                                 pause |-> Head(resets).pause]
               \/ /\ handler' = Resting
                  /\ \E a \in {"ok", "failed"} :
                       answers' = [answers EXCEPT ![Head(resets).call] = a]
<1> USE DEF TypeOK, ResetTypeOK, At, Go, Answer
<1>1. CASE TakeRequest            BY <1>1 DEF TakeRequest
<1>2. CASE ActiveResetControllers BY <1>2 DEF ActiveResetControllers
<1>3. CASE DeactivateControllers  BY <1>3 DEF DeactivateControllers
<1>4. CASE BeginReset             BY <1>4 DEF BeginReset
<1>5. CASE WaitEnds               BY <1>5 DEF WaitEnds
<1>6. CASE WaitTimesOut           BY <1>6 DEF WaitTimesOut
<1>7. CASE ReactivateControllers  BY <1>7 DEF ReactivateControllers
<1>8. CASE LateSwitch             BY <1>8 DEF LateSwitch, answerVars
<1>9. CASE PreUpdate
  BY <1>9 DEF PreUpdate, RequestPause, ApplyReset, CompleteReset, PreUpdateRest, answerVars
<1> QED
  BY <1>1, <1>2, <1>3, <1>4, <1>5, <1>6, <1>7, <1>8, <1>9
  DEF System, ResetStep, HandlerStep

-----------------------------------------------------------------------------
LEMMA NextWorld == TypeOK /\ WorldInv /\ [Next]_mirrorVars => WorldInv'
<1> SUFFICES ASSUME TypeOK, WorldInv, [Next]_mirrorVars PROVE WorldInv'
  OBVIOUS
<1> USE DEF WorldInv, TypeOK, ResetTypeOK
<1>1. CASE UNCHANGED <<handler, phaseVars>>
  BY <1>1 DEF phaseVars
<1>2. CASE System
  <2> USE DEF At, Go, Answer, Resting, managerVars, answerVars, phaseVars
  <2>1. CASE TakeRequest            BY <2>1 DEF TakeRequest
  <2>2. CASE ActiveResetControllers BY <2>2 DEF ActiveResetControllers
  <2>3. CASE DeactivateControllers  BY <2>3 DEF DeactivateControllers
  <2>4. CASE BeginReset             BY <2>4 DEF BeginReset
  <2>5. CASE WaitEnds               BY <2>5 DEF WaitEnds
  <2>6. CASE WaitTimesOut           BY <2>6 DEF WaitTimesOut, RequestWithdrawn
  <2>7. CASE ReactivateControllers  BY <2>7 DEF ReactivateControllers
  <2>8. CASE LateSwitch             BY <2>8 DEF LateSwitch
  <2>9. CASE RequestPause           BY <2>9 DEF RequestPause, PreUpdateRest
  <2>10. CASE ApplyReset            BY <2>10 DEF ApplyReset, PreUpdateRest
  <2>11. CASE CompleteReset         BY <2>11 DEF CompleteReset, PreUpdateRest
  <2> QED
    BY <1>2, <2>1, <2>2, <2>3, <2>4, <2>5, <2>6, <2>7, <2>8, <2>9, <2>10, <2>11
    DEF System, ResetStep, HandlerStep, PreUpdate
<1> QED
  BY <1>1, <1>2, Steps
  DEF mirrorVars, resetVars, answerVars, _poll_teleport_prepare, EditorReset

(* Types of the plugin's variables.                                        *)
LEMMA CallTypes ==
  ASSUME ResetTypeOK
  PROVE  /\ Len(resets) \in Nat /\ DOMAIN resets = 1 .. Len(resets)
         /\ \A i \in DOMAIN resets : resets[i] \in Request /\ resets[i].call \in Nat
         /\ handler.at \in Handling /\ handler.pause \in BOOLEAN
         /\ handler.call \in Calls \cup {NoCall} /\ handler.call \in Nat
<1>1. resets \in Seq(Request)
  BY DEF ResetTypeOK
<1>2. \A i \in 1 .. Len(resets) : resets[i] \in Request
  BY <1>1
<1>3. \A r \in Request : r.call \in Nat
  BY DEF Request
<1> QED BY <1>1, <1>2, <1>3 DEF ResetTypeOK

LEMMA SystemType == ResetTypeOK /\ ResetStep => ResetTypeOK'
<1> SUFFICES ASSUME ResetTypeOK, ResetStep PROVE ResetTypeOK'
  OBVIOUS
<1> DEFINE Handlers == [at : Handling, call : Calls \cup {NoCall}, pause : BOOLEAN]
           Answers  == [Calls -> {"none", "ok", "failed"}]
<1>1. resets \in Seq(Request) /\ handler \in Handlers /\ answers \in Answers
  BY DEF ResetTypeOK
<1>2. \A s \in Handling : Go(s) => handler' \in Handlers /\ answers' \in Answers
  BY <1>1 DEF Go
<1>3. \A c \in Calls \cup {NoCall}, ok \in BOOLEAN :
        Answer(c, ok) => handler' \in Handlers /\ answers' \in Answers
  <2>1. Resting \in Handlers
    BY DEF Resting, Handling
  <2> HIDE DEF Handlers, ResetTypeOK
  <2>2. ASSUME NEW c \in Calls \cup {NoCall}, NEW v \in {"ok", "failed"}
        PROVE  [answers EXCEPT ![c] = v] \in Answers
    BY <1>1, <2>2
  <2>3. ASSUME NEW c \in Calls \cup {NoCall}, NEW ok \in BOOLEAN, Answer(c, ok)
        PROVE  handler' \in Handlers /\ answers' \in Answers
    <3>1. (IF ok THEN "ok" ELSE "failed") \in {"ok", "failed"}
      OBVIOUS
    <3> QED BY <2>1, <2>2, <2>3, <3>1 DEF Answer
  <2> QED BY <2>3
<1>4. handler.call \in Calls \cup {NoCall}
  BY <1>1
<1>5. ASSUME NEW on \in BOOLEAN, NEW ok \in BOOLEAN, SwitchControllers(on, ok)
      PROVE  controllers' \in BOOLEAN
             /\ late_switch' \in {"none", "activate", "deactivate"}
  BY <1>5 DEF ResetTypeOK, SwitchControllers, managerVars
<1>6. CASE UNCHANGED <<handler, answers, resets, restore, managerVars>>
           /\ PreUpdate
  BY <1>6 DEF ResetTypeOK, PreUpdate, RequestPause, ApplyReset, CompleteReset, managerVars
<1>7. CASE TakeRequest
  <2>1. Head(resets) \in Request /\ Tail(resets) \in Seq(Request)
    BY <1>1, <1>7 DEF TakeRequest
  <2>2. handler' \in Handlers /\ answers' \in Answers
    <3>1. Head(resets).call \in Calls /\ Head(resets).pause \in BOOLEAN
      BY <2>1 DEF Request
    <3>2. [at |-> "list", call |-> Head(resets).call, pause |-> Head(resets).pause]
            \in Handlers
      BY <3>1 DEF Handling
    <3> QED BY <1>1, <1>3, <1>7, <3>1, <3>2 DEF TakeRequest
  <2> QED BY <1>7, <2>1, <2>2 DEF TakeRequest, ResetTypeOK, managerVars, phaseVars
<1>8. CASE ActiveResetControllers
  <2>1. handler' \in Handlers /\ answers' \in Answers
    BY <1>2, <1>3, <1>4, <1>8 DEF ActiveResetControllers, Handling
  <2>2. restore' \in BOOLEAN
    BY <1>8 DEF ActiveResetControllers, ResetTypeOK
  <2> QED
    BY <1>8, <2>1, <2>2 DEF ActiveResetControllers, At, ResetTypeOK, managerVars, phaseVars
<1>9. CASE DeactivateControllers
  <2>1. handler' \in Handlers /\ answers' \in Answers
    BY <1>2, <1>3, <1>4, <1>9 DEF DeactivateControllers, Handling
  <2> QED
    BY <1>5, <1>9, <2>1 DEF DeactivateControllers, At, ResetTypeOK, phaseVars
<1>10. CASE BeginReset
  <2>1. handler' \in Handlers /\ answers' \in Answers
    BY <1>2, <1>3, <1>4, <1>10 DEF BeginReset, Handling
  <2> QED
    BY <1>10, <2>1 DEF BeginReset, At, ResetTypeOK, managerVars, phaseVars
<1>11. CASE WaitEnds
  <2>1. handler' \in Handlers /\ answers' \in Answers
    BY <1>2, <1>11 DEF WaitEnds, Handling
  <2> QED BY <1>11, <2>1 DEF WaitEnds, At, ResetTypeOK, managerVars, phaseVars
<1>12. CASE WaitTimesOut
  <2>1. handler' \in Handlers /\ answers' \in Answers
    BY <1>2, <1>12 DEF WaitTimesOut, Handling
  <2> QED
    BY <1>12, <2>1 DEF WaitTimesOut, RequestWithdrawn, At, ResetTypeOK, managerVars
<1>13. CASE ReactivateControllers
  <2>1. PICK ok \in BOOLEAN : /\ SwitchControllers(TRUE, ok)
                              /\ Answer(handler.call, ok /\ completed = "ok")
    BY <1>13 DEF ReactivateControllers
  <2>2. handler' \in Handlers /\ answers' \in Answers
    BY <1>3, <1>4, <2>1
  <2> QED
    BY <1>5, <1>13, <2>1, <2>2 DEF ReactivateControllers, At, ResetTypeOK, phaseVars
<1>14. CASE LateSwitch
  BY <1>14 DEF LateSwitch, ResetTypeOK, answerVars, phaseVars
<1> QED
  BY <1>6, <1>7, <1>8, <1>9, <1>10, <1>11, <1>12, <1>13, <1>14
  DEF ResetStep, HandlerStep, PreUpdate, RequestPause, ApplyReset, CompleteReset,
      PreUpdateRest, answerVars

LEMMA NextType == TypeOK /\ BoundInv /\ [Next]_mirrorVars => TypeOK' /\ BoundInv'
<1> SUFFICES ASSUME TypeOK, BoundInv, [Next]_mirrorVars PROVE TypeOK' /\ BoundInv'
  OBVIOUS
<1>1. ResetTypeOK'
  <2>1. CASE System
    BY <2>1, SystemType DEF System, TypeOK
  <2>2. CASE UNCHANGED resetVars
    BY <2>2 DEF TypeOK, ResetTypeOK, resetVars, answerVars, managerVars, phaseVars
  <2>3. ASSUME NEW r \in Request, resets' = Append(resets, r),
               UNCHANGED <<handler, answers, restore, managerVars, phaseVars>>
        PROVE  ResetTypeOK'
    BY <2>3 DEF TypeOK, ResetTypeOK, managerVars, phaseVars
  <2>4. \A ok \in BOOLEAN, pause \in BOOLEAN : sent < MaxResets =>
          [call |-> sent + 1, pause |-> pause, valid |-> ok] \in Request
    BY DEF TypeOK, Request
  <2>5. CASE _poll_teleport_prepare
    BY <2>2, <2>3, <2>4, <2>5
    DEF _poll_teleport_prepare, BoundInv, resetVars, answerVars
  <2>6. ASSUME NEW ok \in BOOLEAN, EditorReset(ok) PROVE ResetTypeOK'
    BY <2>3, <2>4, <2>6 DEF EditorReset
  <2> QED BY <2>1, <2>2, <2>5, <2>6, Steps DEF mirrorVars
<1> USE DEF TypeOK, BoundInv
<1>2. CASE UNCHANGED <<setup, nodeVars, solverVars>>
  BY <1>1, <1>2 DEF nodeVars, solverVars
<1>3. ASSUME NEW on \in BOOLEAN, CallSolver(on)
      PROVE  solver_calls' \in Seq(BOOLEAN) /\ solver' \in BOOLEAN
             /\ passive_solver_future' \in {"none", "pending", "done"}
  BY <1>3 DEF CallSolver
<1>4. ASSUME _abort_teleport
      PROVE  /\ state' = "ERROR" /\ passive_solver_paused' \in BOOLEAN
             /\ solver_calls' \in Seq(BOOLEAN) /\ solver' \in BOOLEAN
             /\ passive_solver_future' \in {"none", "pending", "done"}
  BY <1>3, <1>4 DEF _abort_teleport, Enter
<1> USE DEF In, Enter, States, solverVars
<1>5. CASE InitialPoseReached \/ Blend \/ Blended \/ Resumed
  BY <1>1, <1>5 DEF InitialPoseReached, Blend, Blended, Resumed
<1>6. CASE _prepare_teleport
  BY <1>1, <1>3, <1>6 DEF _prepare_teleport
<1>7. CASE _poll_teleport_prepare
  BY <1>1, <1>7 DEF _poll_teleport_prepare
<1>8. CASE ResetAnswered
  BY <1>1, <1>4, <1>8 DEF ResetAnswered
<1>9. CASE ResetTimesOut
  BY <1>1, <1>4, <1>9 DEF ResetTimesOut
<1>10. CASE Verify
  BY <1>1, <1>3, <1>4, <1>10 DEF Verify
<1>11. CASE _enable_sync
  BY <1>1, <1>11 DEF _enable_sync, _initial_sync_wait_state
<1>12. CASE set_enabled_callback
  <2>1. Head(solver_calls) \in BOOLEAN /\ Tail(solver_calls) \in Seq(BOOLEAN)
    BY <1>12 DEF set_enabled_callback
  <2> QED BY <1>1, <1>12, <2>1 DEF set_enabled_callback, nodeVars
<1>13. ASSUME NEW ok \in BOOLEAN, EditorReset(ok) PROVE TypeOK' /\ BoundInv'
  BY <1>1, <1>13 DEF EditorReset
<1> QED
  BY <1>2, <1>5, <1>6, <1>7, <1>8, <1>9, <1>10, <1>11, <1>12, <1>13, Steps
  DEF System, mirrorVars

-----------------------------------------------------------------------------
LEMMA NextOrder == TypeOK /\ TypeOK' /\ OrderInv /\ [Next]_mirrorVars => OrderInv'
<1> SUFFICES ASSUME TypeOK, TypeOK', OrderInv, [Next]_mirrorVars PROVE OrderInv'
  OBVIOUS
<1>0. ResetTypeOK /\ ResetTypeOK' /\ sent \in Nat /\ sent' \in Nat
  BY DEF TypeOK
<1>t. /\ Len(resets) \in Nat /\ DOMAIN resets = 1 .. Len(resets)
      /\ \A i \in DOMAIN resets : resets[i] \in Request /\ resets[i].call \in Nat
      /\ handler.call \in Nat
  BY <1>0, CallTypes
<1>u. /\ \A i \in DOMAIN resets' : resets'[i].call \in Nat
      /\ handler'.call \in Nat
  <2>1. resets' \in Seq(Request)
    BY <1>0 DEF ResetTypeOK
  <2>2. \A i \in DOMAIN resets' : resets'[i] \in Request
    BY <2>1
  <2>3. \A r \in Request : r.call \in Nat
    BY DEF Request
  <2>4. handler'.call \in Calls \cup {NoCall}
    BY <1>0 DEF ResetTypeOK
  <2> QED BY <2>2, <2>3, <2>4
<1>1. CASE UNCHANGED <<resetVars, sent>>
  BY <1>1 DEF OrderInv, resetVars, answerVars
<1>2. ASSUME NEW r \in Request, resets' = Append(resets, r), sent' = sent + 1,
             r.call = sent + 1, UNCHANGED <<handler, answers>>
      PROVE  OrderInv'
  <2>1. DOMAIN resets' = 1 .. Len(resets) + 1
    BY <1>2, <1>0 DEF ResetTypeOK
  <2>2. \A i \in DOMAIN resets : resets'[i] = resets[i]
    BY <1>2, <1>0 DEF ResetTypeOK
  <2>3. resets'[Len(resets) + 1] = r
    BY <1>2, <1>0 DEF ResetTypeOK
  <2>4. \A i \in DOMAIN resets' : i \in DOMAIN resets \/ i = Len(resets) + 1
    BY <1>t, <2>1
  <2>5. \A i \in DOMAIN resets' :
          resets'[i].call <= sent' /\ handler'.call < resets'[i].call
    BY <1>0, <1>t, <1>2, <2>2, <2>3, <2>4 DEF OrderInv
  <2>6. \A i, j \in DOMAIN resets' : i < j => resets'[i].call < resets'[j].call
    BY <1>0, <1>t, <1>2, <2>1, <2>2, <2>3, <2>4 DEF OrderInv
  <2>7. \A c \in Calls : answers'[c] # "none" =>
          c <= sent' /\ \A i \in DOMAIN resets' : c < resets'[i].call
    BY <1>0, <1>t, <1>2, <2>2, <2>3, <2>4 DEF OrderInv
  <2> QED BY <1>0, <1>t, <1>2, <2>5, <2>6, <2>7 DEF OrderInv
<1>3. CASE System
  <2>0. sent' = sent
    BY <1>3 DEF System, nodeVars
  <2>1. CASE UNCHANGED <<resets, answers>> /\ handler'.call = handler.call
             /\ (handler'.at = "idle" <=> handler.at = "idle")
    BY <2>0, <2>1 DEF OrderInv
  <2>2. ASSUME UNCHANGED resets, handler.at # "idle", handler' = Resting,
               NEW a \in {"ok", "failed"}, answers' = [answers EXCEPT ![handler.call] = a]
        PROVE  OrderInv'
    <3>1. \A c \in Calls : answers'[c] # "none" => c = handler.call \/ answers[c] # "none"
      BY <2>2, <1>0 DEF ResetTypeOK
    <3>2. handler'.call = 0 /\ handler'.at = "idle"
      BY <2>2 DEF Resting
    <3>3. \A i \in DOMAIN resets : handler'.call < resets'[i].call
      BY <1>t, <2>2, <3>2 DEF OrderInv
    <3> QED BY <1>0, <1>t, <2>0, <2>2, <3>1, <3>2, <3>3 DEF OrderInv
  <2>3. ASSUME handler.at = "idle", resets # <<>>, resets' = Tail(resets)
        PROVE  OrderInv'
    <3>1. /\ Len(resets) >= 1 /\ Head(resets) = resets[1]
          /\ DOMAIN resets' = 1 .. Len(resets) - 1
          /\ \A i \in DOMAIN resets' : resets'[i] = resets[i + 1]
      BY <1>0, <2>3 DEF ResetTypeOK
    <3>2. 1 \in DOMAIN resets /\ \A i \in DOMAIN resets' : i + 1 \in DOMAIN resets
      BY <1>t, <3>1
    <3>3. resets[1].call \in Calls /\ resets[1].call <= sent
      BY <1>t, <3>2 DEF Request, OrderInv
    <3>4. \A i \in DOMAIN resets' : /\ resets'[i].call <= sent
                                    /\ resets[1].call < resets'[i].call
      BY <1>t, <3>1, <3>2 DEF OrderInv
    <3>5. \A i, j \in DOMAIN resets' : i < j => resets'[i].call < resets'[j].call
      BY <1>t, <3>1, <3>2 DEF OrderInv
    <3>6. \A c \in Calls : answers[c] # "none" =>
            /\ c <= sent /\ c < resets[1].call
            /\ \A i \in DOMAIN resets' : c < resets'[i].call
      BY <1>t, <3>1, <3>2 DEF OrderInv
    <3>7. CASE UNCHANGED answers /\ handler' = [at |-> "list", call |-> resets[1].call,
                                               pause |-> resets[1].pause]
      BY <1>0, <1>u, <2>0, <3>3, <3>4, <3>5, <3>6, <3>7 DEF OrderInv
    <3>8. ASSUME handler' = Resting, NEW a \in {"ok", "failed"},
                 answers' = [answers EXCEPT ![resets[1].call] = a]
          PROVE  OrderInv'
      <4>1. \A c \in Calls : answers'[c] # "none" =>
              c = resets[1].call \/ answers[c] # "none"
        BY <3>8, <1>0 DEF ResetTypeOK
      <4>2. handler'.call = 0 /\ handler'.at = "idle"
        BY <3>8 DEF Resting
      <4>3. \A i \in DOMAIN resets' : 0 < resets'[i].call
        BY <1>u, <3>3, <3>4
      <4> QED
        BY <1>0, <1>u, <2>0, <3>3, <3>4, <3>5, <3>6, <4>1, <4>2, <4>3 DEF OrderInv
    <3>9. resets' # resets
      BY <1>t, <3>1
    <3> QED BY <1>3, <2>3, <3>1, <3>7, <3>8, <3>9, ServedInOrder
  <2> QED BY <1>3, <2>1, <2>2, <2>3, ServedInOrder
<1>4. CASE _poll_teleport_prepare
  <2>1. CASE UNCHANGED <<resets, sent>>
    BY <1>1, <1>4, <2>1 DEF _poll_teleport_prepare, resetVars, answerVars
  <2>2. CASE sent' = sent + 1 /\ resets' = Append(resets,
               [call |-> sent + 1, pause |-> FALSE, valid |-> TRUE])
    <3>1. [call |-> sent + 1, pause |-> FALSE, valid |-> TRUE] \in Request
      BY <2>2 DEF TypeOK, Request
    <3> QED BY <1>2, <1>4, <2>2, <3>1 DEF _poll_teleport_prepare
  <2> QED BY <1>4, <2>1, <2>2 DEF _poll_teleport_prepare
<1>5. ASSUME NEW ok \in BOOLEAN, EditorReset(ok) PROVE OrderInv'
  <2>1. [call |-> sent + 1, pause |-> TRUE, valid |-> ok] \in Request
    BY <1>5 DEF EditorReset, Request, TypeOK
  <2> QED BY <1>2, <1>5, <2>1 DEF EditorReset
<1> QED BY <1>1, <1>3, <1>4, <1>5, Steps DEF mirrorVars, nodeVars

-----------------------------------------------------------------------------
LEMMA NextSolver == TypeOK /\ SolverInv /\ [Next]_mirrorVars => SolverInv'
<1> SUFFICES ASSUME TypeOK, SolverInv, [Next]_mirrorVars PROVE SolverInv'
  OBVIOUS
<1>1. CASE UNCHANGED <<setup, state, solverVars>>
  BY <1>1 DEF SolverInv, solverVars
<1>0. /\ setup \in Setups /\ setup.mode \in {"blend", "teleport"}
      /\ setup.handover \in BOOLEAN /\ setup.pose \in BOOLEAN
      /\ solver_calls \in Seq(BOOLEAN) /\ Len(solver_calls) \in Nat
  BY DEF TypeOK
<1>2. ASSUME NEW on \in BOOLEAN, CallSolver(on)
      PROVE  /\ solver_calls' # <<>> /\ solver_calls'[Len(solver_calls')] = on
             /\ solver_calls = <<>> => solver_calls' = <<on>>
             /\ passive_solver_future' = "pending" /\ solver' = solver
  <2>1. solver_calls' = Append(solver_calls, on) /\ on \in BOOLEAN
    BY <1>2 DEF CallSolver
  <2>2. /\ Len(solver_calls') = Len(solver_calls) + 1
        /\ solver_calls'[Len(solver_calls) + 1] = on
    BY <1>0, <2>1
  <2>3. solver_calls = <<>> => solver_calls' = <<on>>
    BY <2>1
  <2>4. solver_calls' # <<>>
    BY <1>0, <2>2
  <2> QED BY <1>2, <2>2, <2>3, <2>4 DEF CallSolver
<1>3. ASSUME _abort_teleport, setup.mode = "teleport", UNCHANGED setup
      PROVE  SolverInv'
  BY <1>3 DEF _abort_teleport, ResumeWanted, Enter, SolverInv, Teleporting
<1> USE DEF In, Enter, Teleporting
<1>4. CASE InitialPoseReached
  BY <1>4 DEF InitialPoseReached, SolverInv, solverVars
<1>5. CASE Blend
  BY <1>5 DEF Blend, SolverInv, solverVars
<1>6. CASE Blended
  BY <1>6 DEF Blended, SolverInv, solverVars
<1>7. CASE _prepare_teleport
  BY <1>0, <1>2, <1>7 DEF _prepare_teleport, SolverInv, solverVars
<1>8. CASE _poll_teleport_prepare
  BY <1>0, <1>8 DEF _poll_teleport_prepare, PauseAnswered, SolverInv
<1>9. CASE ResetAnswered
  BY <1>0, <1>3, <1>9 DEF ResetAnswered, SolverInv, solverVars
<1>10. CASE ResetTimesOut
  BY <1>0, <1>3, <1>10 DEF ResetTimesOut, SolverInv
<1>11. CASE Verify
  <2>1. UNCHANGED setup /\ state = "VERIFY_RESET" /\ setup.mode = "teleport"
    BY <1>0, <1>11 DEF Verify, SolverInv
  <2>2. CASE ~setup.handover /\ Enter("LIVE_SYNC") /\ UNCHANGED solverVars
    BY <2>1, <2>2 DEF SolverInv, solverVars
  <2>3. CASE /\ setup.handover /\ Enter("RESUME_PASSIVE_SOLVER")
             /\ CallSolver(TRUE) /\ UNCHANGED passive_solver_paused
    <3>1. solver_calls' = <<TRUE>> /\ passive_solver_future' = "pending"
      BY <1>2, <2>1, <2>3 DEF SolverInv
    <3> QED BY <2>1, <2>3, <3>1 DEF SolverInv
  <2>4. CASE Enter("ERROR") /\ UNCHANGED solverVars
    BY <2>1, <2>4 DEF SolverInv, solverVars
  <2>5. CASE _abort_teleport
    BY <1>3, <2>1, <2>5
  <2> QED BY <1>11, <2>2, <2>3, <2>4, <2>5 DEF Verify
<1>12. CASE Resumed
  <2>1. /\ state = "RESUME_PASSIVE_SOLVER" /\ passive_solver_future = "done"
        /\ UNCHANGED <<setup, solver, solver_calls>> /\ state' = "LIVE_SYNC"
        /\ passive_solver_future' = "none" /\ passive_solver_paused' = FALSE
    BY <1>12 DEF Resumed, ResumeAnswered
  <2>2. solver_calls = <<>> /\ solver
    BY <2>1 DEF SolverInv
  <2> QED BY <2>1, <2>2 DEF SolverInv
<1>13. CASE _enable_sync
  BY <1>0, <1>13 DEF _enable_sync, _initial_sync_wait_state, SolverInv
<1>14. CASE set_enabled_callback
  <2>0. /\ solver_calls # <<>> /\ solver' = Head(solver_calls)
        /\ solver_calls' = Tail(solver_calls)
    BY <1>14 DEF set_enabled_callback
  <2>1. /\ Len(solver_calls) >= 1 /\ solver' = solver_calls[1]
        /\ Len(solver_calls) = 1 => solver_calls' = <<>>
        /\ Len(solver_calls) # 1 =>
             /\ solver_calls' # <<>>
             /\ solver_calls'[Len(solver_calls')] = solver_calls[Len(solver_calls)]
    <3>1. Len(solver_calls) >= 1 /\ solver' = solver_calls[1]
      BY <1>0, <2>0
    <3>2. Len(solver_calls') = Len(solver_calls) - 1
      BY <1>0, <2>0
    <3>3. \A i \in 1 .. Len(solver_calls) - 1 : solver_calls'[i] = solver_calls[i + 1]
      BY <1>0, <2>0
    <3>4. solver_calls' \in Seq(BOOLEAN)
      BY <1>0, <2>0
    <3>5. Len(solver_calls) = 1 => solver_calls' = <<>>
      BY <1>0, <3>2, <3>4
    <3>6. ASSUME Len(solver_calls) # 1
          PROVE  /\ solver_calls' # <<>>
                 /\ solver_calls'[Len(solver_calls')] = solver_calls[Len(solver_calls)]
      <4>0. PICK n \in Nat : n = Len(solver_calls)
        BY <1>0
      <4>1. Len(solver_calls) - 1 \in 1 .. Len(solver_calls) - 1
        BY <3>1, <3>6, <4>0
      <4>2. solver_calls'[Len(solver_calls')] = solver_calls[(Len(solver_calls) - 1) + 1]
        BY <3>2, <3>3, <4>1
      <4>3. (Len(solver_calls) - 1) + 1 = Len(solver_calls)
        BY <1>0
      <4>4. Len(solver_calls') # 0
        BY <3>2, <3>6, <4>0
      <4> QED BY <4>2, <4>3, <4>4
    <3> QED BY <3>1, <3>5, <3>6
  <2>2. solver_calls = <<TRUE>> => Len(solver_calls) = 1 /\ solver_calls[1] = TRUE
    OBVIOUS
  <2>3. UNCHANGED <<setup, state, passive_solver_paused>>
    BY <1>14 DEF set_enabled_callback, nodeVars
  <2>4. passive_solver_future' =
          IF Len(solver_calls) = 1 /\ passive_solver_future = "pending"
            THEN "done" ELSE passive_solver_future
    BY <1>14 DEF set_enabled_callback
  <2>5. CASE Len(solver_calls) = 1
    BY <2>0, <2>1, <2>2, <2>3, <2>4, <2>5 DEF SolverInv
  <2>6. CASE Len(solver_calls) # 1
    <3>1. solver_calls # <<TRUE>> /\ passive_solver_future' = passive_solver_future
      <4>1. solver_calls # <<TRUE>>
        BY <2>2, <2>6
      <4>2. passive_solver_future' = passive_solver_future
        BY <2>4, <2>6
      <4> QED BY <4>1, <4>2
    <3> QED BY <2>0, <2>1, <2>3, <2>6, <3>1 DEF SolverInv
  <2> QED BY <2>5, <2>6
<1>15. ASSUME NEW ok \in BOOLEAN, EditorReset(ok) PROVE SolverInv'
  BY <1>1, <1>15 DEF EditorReset
<1> QED
  BY <1>1, <1>4, <1>5, <1>6, <1>7, <1>8, <1>9, <1>10, <1>11, <1>12, <1>13, <1>14,
     <1>15, Steps
  DEF System, mirrorVars, nodeVars

-----------------------------------------------------------------------------
(* A step of the plugin adds no call of the node.                          *)
LEMMA SystemKeepsOwn ==
  ASSUME TypeOK, System, NEW last \in Nat, Own(last)
  PROVE  Own(last)'
<1>1. CASE UNCHANGED resets
  BY <1>1, ServedInOrder DEF Own, Resting
<1>2. CASE handler.at = "idle" /\ resets # <<>> /\ resets' = Tail(resets)
  <2>1. /\ Head(resets) = resets[1] /\ 1 \in DOMAIN resets
        /\ \A i \in DOMAIN resets' : i + 1 \in DOMAIN resets /\ resets'[i] = resets[i + 1]
    BY <1>2 DEF TypeOK, ResetTypeOK
  <2>2. handler'.at # "idle" =>
          handler'.call = resets[1].call /\ handler'.pause = resets[1].pause
    BY <1>2, <2>1, ServedInOrder DEF Resting
  <2> QED BY <2>1, <2>2 DEF Own
<1> QED BY <1>1, <1>2, ServedInOrder

LEMMA NextOwn == TypeOK /\ TypeOK' /\ OrderInv /\ SolverInv /\ OwnInv /\ [Next]_mirrorVars
                   => OwnInv'
<1> SUFFICES ASSUME TypeOK, TypeOK', OrderInv, SolverInv, OwnInv, [Next]_mirrorVars
             PROVE  OwnInv'
  OBVIOUS
<1>0. /\ ResetTypeOK /\ sent \in Nat /\ setup.mode \in {"blend", "teleport"}
      /\ reset_future \in Nat
  BY DEF TypeOK
<1>t. /\ Len(resets) \in Nat /\ DOMAIN resets = 1 .. Len(resets)
      /\ \A i \in DOMAIN resets : resets[i] \in Request /\ resets[i].call \in Nat
      /\ handler.call \in Nat
  BY <1>0, CallTypes
<1>1. ASSUME NEW last \in Nat, Own(last), UNCHANGED resetVars PROVE Own(last)'
  BY <1>1 DEF Own, resetVars, answerVars
<1>2. ASSUME NEW r \in Request, resets' = Append(resets, r), UNCHANGED handler,
             NEW last \in Nat, Own(last), ~r.pause => r.call <= last
      PROVE  Own(last)'
  <2>1. DOMAIN resets' = 1 .. Len(resets) + 1
    BY <1>2, <1>0 DEF ResetTypeOK
  <2>2. \A i \in DOMAIN resets : resets'[i] = resets[i]
    BY <1>2, <1>0 DEF ResetTypeOK
  <2>3. resets'[Len(resets) + 1] = r
    BY <1>2, <1>0 DEF ResetTypeOK
  <2>4. \A i \in DOMAIN resets' : i \in DOMAIN resets \/ i = Len(resets) + 1
    BY <1>t, <2>1
  <2> QED BY <1>2, <2>2, <2>3, <2>4 DEF Own
<1>3. CASE System
  BY <1>0, <1>3, SystemKeepsOwn DEF OwnInv, System, nodeVars
<1>4. CASE _poll_teleport_prepare
  <2>1. state = "PREPARE_TELEPORT" /\ setup' = setup /\ setup.mode = "teleport"
    BY <1>0, <1>4 DEF _poll_teleport_prepare, SolverInv, Teleporting
  <2>2. CASE state' = state
    BY <2>1, <2>2 DEF OwnInv
  <2>3. CASE /\ state' = "RESET_TO_REAL" /\ sent' = sent + 1 /\ reset_future' = sent + 1
             /\ resets' = Append(resets,
                            [call |-> sent + 1, pause |-> FALSE, valid |-> TRUE])
    <3>1. [call |-> sent + 1, pause |-> FALSE, valid |-> TRUE] \in Request
      BY <2>3 DEF TypeOK, Request
    <3>2. PICK n \in Nat : n = sent + 1
      BY <1>0
    <3>3. \A i \in DOMAIN resets : resets[i].call <= n
      BY <1>0, <1>t, <3>2 DEF OrderInv
    <3>4. handler.call <= n
      BY <1>0, <1>t, <3>2 DEF OrderInv
    <3>5. Own(n)
      BY <3>3, <3>4 DEF Own
    <3>6. handler' = handler
      BY <1>4 DEF _poll_teleport_prepare
    <3>7. Own(n)'
      BY <1>2, <2>3, <3>1, <3>2, <3>5, <3>6
    <3>8. Own(reset_future)'
      BY <2>3, <3>2, <3>7 DEF Own
    <3> QED BY <2>1, <2>3, <3>8 DEF OwnInv
  <2> QED BY <1>4, <2>2, <2>3 DEF _poll_teleport_prepare, Enter
<1>5. ASSUME NEW ok \in BOOLEAN, EditorReset(ok) PROVE OwnInv'
  <2>1. [call |-> sent + 1, pause |-> TRUE, valid |-> ok] \in Request
    BY <1>5 DEF EditorReset, Request, TypeOK
  <2>2. ASSUME NEW last \in Nat, Own(last) PROVE Own(last)'
    BY <1>2, <1>5, <2>1, <2>2 DEF EditorReset
  <2>3. UNCHANGED <<setup, state, reset_future>>
    BY <1>5 DEF EditorReset
  <2> QED BY <1>0, <2>2, <2>3 DEF OwnInv
<1>6. ASSUME UNCHANGED <<resetVars, setup, state, reset_future>> PROVE OwnInv'
  BY <1>0, <1>1, <1>6 DEF OwnInv
<1>7. ASSUME UNCHANGED <<resetVars, setup>>,
             state' \notin {"VERIFY_RESET", "RESUME_PASSIVE_SOLVER", "LIVE_SYNC",
                           "RESET_TO_REAL"}
      PROVE  OwnInv'
  BY <1>0, <1>1, <1>7 DEF OwnInv
<1>8. ASSUME UNCHANGED <<resetVars, setup>>, Own(NoCall), state' # "RESET_TO_REAL"
      PROVE  OwnInv'
  BY <1>0, <1>1, <1>8 DEF OwnInv
<1> USE DEF In, Enter, Rest
<1>9. CASE InitialPoseReached BY <1>7, <1>9 DEF InitialPoseReached
<1>10. CASE Blend             BY <1>7, <1>10 DEF Blend
<1>11. CASE _prepare_teleport BY <1>7, <1>11 DEF _prepare_teleport
<1>12. CASE ResetTimesOut     BY <1>7, <1>12 DEF ResetTimesOut, _abort_teleport
<1>13. CASE _enable_sync
  BY <1>7, <1>13 DEF _enable_sync, _initial_sync_wait_state
<1>14. CASE ResetAnswered
  <2>1. UNCHANGED <<resetVars, setup>>
    BY <1>14 DEF ResetAnswered
  <2>2. CASE ResetAnswer = "ok"
    <3>1. reset_future \in Calls /\ answers[reset_future] # "none"
      BY <2>2 DEF ResetAnswer, TypeOK
    <3>2. Own(reset_future)
      BY <1>14 DEF ResetAnswered, OwnInv
    <3>3. \A i \in DOMAIN resets : resets[i].pause
      BY <1>0, <1>t, <3>1, <3>2 DEF Own, OrderInv
    <3>4. handler.at # "idle" => handler.pause
      BY <1>0, <1>t, <3>1, <3>2 DEF Own, OrderInv
    <3>5. Own(NoCall)
      BY <3>3, <3>4 DEF Own
    <3>6. state' = "VERIFY_RESET"
      BY <1>14, <2>2 DEF ResetAnswered
    <3> QED BY <1>8, <2>1, <3>5, <3>6
  <2>3. CASE ResetAnswer # "ok"
    <3>1. state' = "ERROR"
      BY <1>14, <2>3 DEF ResetAnswered, _abort_teleport
    <3> QED BY <1>7, <2>1, <3>1
  <2> QED BY <2>2, <2>3
<1>15. CASE Blended
  <2>1. Own(NoCall)
    BY <1>15 DEF Blended, SolverInv, OwnInv
  <2> QED BY <1>8, <1>15, <2>1 DEF Blended
<1>16. CASE Verify
  <2>1. Own(NoCall)
    BY <1>16 DEF Verify, OwnInv
  <2> QED BY <1>8, <1>16, <2>1 DEF Verify, _abort_teleport
<1>17. CASE Resumed
  <2>1. Own(NoCall)
    BY <1>17 DEF Resumed, OwnInv
  <2> QED BY <1>8, <1>17, <2>1 DEF Resumed
<1>18. CASE set_enabled_callback
  BY <1>6, <1>18 DEF set_enabled_callback, nodeVars
<1>19. CASE UNCHANGED mirrorVars
  BY <1>6, <1>19 DEF mirrorVars, nodeVars
<1> QED
  BY <1>3, <1>4, <1>5, <1>9, <1>10, <1>11, <1>12, <1>13, <1>14, <1>15, <1>16, <1>17,
     <1>18, <1>19, Steps

LEMMA NextInv == Inv /\ [Next]_mirrorVars => Inv'
BY NextType, NextWorld, NextSolver, NextOrder, NextOwn DEF Inv

(* Every variable of the mirror and of the plugin keeps its type.           *)
THEOREM Invariance == Spec => []Inv
BY InitInv, NextInv, PTL DEF Spec

(* When the plugin gives up waiting, in whatever phase PreUpdate is, the    *)
(* world runs.                                                             *)
THEOREM WorldRuns == Spec => []WorldResumes
<1>1. Inv => WorldResumes
  BY DEF Inv, WorldInv, WorldResumes
<1> QED BY <1>1, Invariance, PTL

(* The solver is at rest until the pose is verified, whatever calls of      *)
(* earlier teleports were still on their way when it was paused.           *)
THEOREM SolverIsAtRest == Spec => []SolverRests
<1>1. Inv => SolverRests
  BY DEF Inv, SolverInv, SolverRests
<1> QED BY <1>1, Invariance, PTL

(* Following the controller live, the solver runs and no reset of the node  *)
(* is pending, not even one that was given up and asked for again.         *)
THEOREM LiveClean == Spec => []LiveIsClean
<1>1. ASSUME Inv PROVE LiveIsClean
  <2>1. CASE state = "LIVE_SYNC"
    <3>1. solver /\ solver_calls = <<>> /\ Own(NoCall)
      BY <1>1, <2>1 DEF Inv, SolverInv, OwnInv
    <3>2. /\ \A i \in DOMAIN resets : resets[i] \in Request /\ resets[i].call \in Calls
          /\ handler.call \in Calls \cup {NoCall}
      BY <1>1, CallTypes DEF Inv, TypeOK, Request
    <3>3. \A i \in DOMAIN resets : resets[i].pause
      BY <3>1, <3>2 DEF Own
    <3>4. handler.at = "idle" \/ handler.pause
      BY <1>1, <3>1, <3>2 DEF Own, Inv, OrderInv
    <3> QED BY <3>1, <3>3, <3>4 DEF LiveIsClean
  <2> QED BY <2>1 DEF LiveIsClean
<1> QED BY <1>1, Invariance, PTL

-----------------------------------------------------------------------------
(***************************************************************************)
(* One trajectory at a time, ended when the arm is still, within its limits *)
(* and shown to MoveIt as it was asked for: proofs for any number of goals  *)
(* and any trajectories.  The busy flag admits one execution; how far that  *)
(* is says what the controller can be doing.                               *)
(***************************************************************************)
HIDE JointResetAssumption DEF Calls, NoCall
HIDE SyncAssumption
USE BridgeAssumption

Executing(g) == pc[g] \notin {"idle", "done"}

(* busy is a lock.                                                         *)
LockInv ==
  /\ \A g \in Goals : Executing(g) => busy
  /\ \A g, h \in Goals : Executing(g) /\ Executing(h) => g = h

(* What the execution has come to, seen from rclpy and the controller.      *)
FollowInv ==
  \A g \in Goals :
    /\ ctl[g] \in {"asked", "moving"} =>
         pc[g] \in {"sent", "assigned", "canceling", "result"}
    /\ status[g] \in Ended => pc[g] \in {"clear", "done"}
    /\ ctl[g] # "none" => pc[g] # "idle"
    /\ pc[g] # "idle" => status[g] \notin {"none", "refused"}

(* Only accepted trajectories are followed, and not beyond their end.       *)
AcceptInv ==
  \A g \in Goals :
    /\ status[g] \notin {"none", "refused"} => ~TransformRefuses(request[g])
    /\ at[g] > 0 => ctl[g] # "none"
    /\ at[g] <= Len(request[g].points)

TrajectoryInv == TrajectoryTypeOK /\ LockInv /\ FollowInv /\ AcceptInv

-----------------------------------------------------------------------------
LEMMA TrajectoryInitInv == TrajectoryInit => TrajectoryInv
<1> SUFFICES ASSUME TrajectoryInit PROVE TrajectoryInv
  OBVIOUS
<1>1. TrajectoryTypeOK
  BY DEF TrajectoryInit, TrajectoryTypeOK
<1>2. LockInv
  BY DEF TrajectoryInit, LockInv, Executing
<1>3. FollowInv
  BY DEF TrajectoryInit, FollowInv, Ended
<1>4. AcceptInv
  <2>1. SUFFICES ASSUME NEW g \in Goals
                 PROVE  Len(request[g].points) >= 0
    BY DEF TrajectoryInit, AcceptInv
  <2>2. request[g].points \in Seq(Points)
    BY DEF TrajectoryInit
  <2> QED BY <2>2
<1> QED BY <1>1, <1>2, <1>3, <1>4 DEF TrajectoryInv

(* What every point of the request has, and what the bridge makes of it.    *)
LEMMA PointTypes ==
  ASSUME TrajectoryTypeOK, NEW g \in Goals, NEW i \in 1 .. Len(request[g].points)
  PROVE  /\ request[g].points[i] \in Points
         /\ transform_goal(request[g])[i].positions =
              _moveit_to_gazebo_values(request[g].points[i].positions, coupling_offset)
         /\ transform_goal(request[g])[i].velocities =
              GazeboRate(request[g].points[i].velocities)
         /\ transform_goal(request[g])[i].accelerations =
              GazeboRate(request[g].points[i].accelerations)
<1>1. request[g].points \in Seq(Points)
  BY DEF TrajectoryTypeOK
<1> DEFINE asked == request[g].points[i]
<1>2. transform_goal(request[g])[i] =
        [positions     |-> _moveit_to_gazebo_values(asked.positions, coupling_offset),
         velocities    |-> GazeboRate(asked.velocities),
         accelerations |-> GazeboRate(asked.accelerations)]
  BY <1>1 DEF transform_goal
<1> QED BY <1>1, <1>2

(* The conversion of a pair and of a rate, and back.                        *)
LEMMA PairBack ==
  ASSUME NEW v \in Pairs, NEW offset \in Int
  PROVE  /\ _moveit_to_gazebo_values(v, offset) \in Pairs
         /\ _gazebo_to_moveit_values(v, offset) \in Pairs
         /\ _gazebo_to_moveit_values(_moveit_to_gazebo_values(v, offset), offset) = v
<1>1. PICK x \in Int, y \in Int : v = <<x, y>>
  BY DEF Pairs
<1>2. _moveit_to_gazebo_values(v, offset) = <<x, y - x - offset>>
  BY <1>1 DEF _moveit_to_gazebo_values
<1>3. _gazebo_to_moveit_values(v, offset) = <<x, x + y + offset>>
  BY <1>1 DEF _gazebo_to_moveit_values
<1>4. _gazebo_to_moveit_values(<<x, y - x - offset>>, offset)
        = <<x, x + (y - x - offset) + offset>>
  BY DEF _gazebo_to_moveit_values
<1>5. x + (y - x - offset) + offset = y
  BY <1>1
<1> QED BY <1>1, <1>2, <1>3, <1>4, <1>5 DEF Pairs

LEMMA RateBack ==
  ASSUME NEW v \in Rates
  PROVE  /\ GazeboRate(v) \in Rates /\ MoveItRate(GazeboRate(v)) = v
         /\ v # <<>> => v \in Pairs /\ GazeboRate(v) = _moveit_to_gazebo_values(v, 0)
         /\ v = <<>> <=> GazeboRate(v) = <<>>
<1>1. CASE v = <<>>
  BY <1>1 DEF GazeboRate, MoveItRate, Rates
<1>2. CASE v # <<>>
  <2>1. v \in Pairs
    BY <1>2 DEF Rates
  <2>2. GazeboRate(v) = _moveit_to_gazebo_values(v, 0)
    BY <1>2 DEF GazeboRate
  <2>3. _moveit_to_gazebo_values(v, 0) # <<>>
    BY DEF _moveit_to_gazebo_values
  <2> QED BY <1>2, <2>1, <2>2, <2>3, PairBack DEF MoveItRate, Rates
<1> QED BY <1>1, <1>2

(* A position that goes on with a converted rate is where it is with the    *)
(* rate, converted: the offset is in the position only.                     *)
LEMMA RateLeads ==
  ASSUME NEW p \in Pairs, NEW v \in Pairs
  PROVE  _gazebo_to_moveit_values(Plus(_moveit_to_gazebo_values(p, coupling_offset),
                                       _moveit_to_gazebo_values(v, 0)), coupling_offset)
           = Plus(p, v)
<1>1. PICK x \in Int, y \in Int : p = <<x, y>>
  BY DEF Pairs
<1>2. PICK dx \in Int, dy \in Int : v = <<dx, dy>>
  BY DEF Pairs
<1>3. /\ _moveit_to_gazebo_values(p, coupling_offset) = <<x, y - x - coupling_offset>>
      /\ _moveit_to_gazebo_values(v, 0) = <<dx, dy - dx - 0>>
  BY <1>1, <1>2 DEF _moveit_to_gazebo_values
<1>4. /\ Plus(<<x, y - x - coupling_offset>>, <<dx, dy - dx - 0>>)
           = <<x + dx, (y - x - coupling_offset) + (dy - dx - 0)>>
      /\ Plus(p, v) = <<x + dx, y + dy>>
  BY <1>1, <1>2 DEF Plus
<1>5. _gazebo_to_moveit_values(<<x + dx, (y - x - coupling_offset) + (dy - dx - 0)>>,
                               coupling_offset)
        = <<x + dx, (x + dx) + ((y - x - coupling_offset) + (dy - dx - 0))
                      + coupling_offset>>
  BY DEF _gazebo_to_moveit_values
<1>6. (x + dx) + ((y - x - coupling_offset) + (dy - dx - 0)) + coupling_offset = y + dy
  BY <1>1, <1>2
<1> QED BY <1>3, <1>4, <1>5, <1>6

(* What the arm lacks is the same in both coordinates.                      *)
LEMMA ErrorIsDistance ==
  ASSUME NEW p \in Pairs, NEW lag \in Pairs
  PROVE  Plus(_gazebo_to_moveit_values(Minus(p, lag), coupling_offset),
              _gazebo_to_moveit_values(lag, 0))
           = _gazebo_to_moveit_values(p, coupling_offset)
<1>1. PICK x \in Int, y \in Int : p = <<x, y>>
  BY DEF Pairs
<1>2. PICK dx \in Int, dy \in Int : lag = <<dx, dy>>
  BY DEF Pairs
<1>3. /\ _gazebo_to_moveit_values(Minus(p, lag), coupling_offset)
           = <<x - dx, (x - dx) + (y - dy) + coupling_offset>>
      /\ _gazebo_to_moveit_values(lag, 0) = <<dx, dx + dy + 0>>
      /\ _gazebo_to_moveit_values(p, coupling_offset) = <<x, x + y + coupling_offset>>
  BY <1>1, <1>2 DEF _gazebo_to_moveit_values, Minus
<1>4. Plus(<<x - dx, (x - dx) + (y - dy) + coupling_offset>>, <<dx, dx + dy + 0>>)
        = <<x - dx + dx, (x - dx) + (y - dy) + coupling_offset + (dx + dy + 0)>>
  BY DEF Plus
<1>5. /\ x - dx + dx = x
      /\ (x - dx) + (y - dy) + coupling_offset + (dx + dy + 0) = x + y + coupling_offset
  BY <1>1, <1>2
<1> QED BY <1>3, <1>4, <1>5

(* A point of a request that is not refused keeps the limits and the motion. *)
LEMMA PointFollows ==
  ASSUME TrajectoryTypeOK, NEW g \in Goals, ~TransformRefuses(request[g]),
         NEW i \in 1 .. Len(request[g].points)
  PROVE  Follows(transform_goal(request[g])[i], request[g].points[i])
<1> DEFINE asked == request[g].points[i]
           to    == transform_goal(request[g])[i]
<1>1. ~PointRefused(asked, IF i = 1 THEN -1 ELSE request[g].points[i - 1].time)
  BY DEF TransformRefuses
<1>2. /\ asked.positions \in Pairs /\ asked.velocities \in Rates
      /\ asked.accelerations \in Rates
  BY PointTypes DEF Points
<1>3. /\ to.positions = _moveit_to_gazebo_values(asked.positions, coupling_offset)
      /\ to.velocities = GazeboRate(asked.velocities)
      /\ to.accelerations = GazeboRate(asked.accelerations)
  BY PointTypes
<1> HIDE DEF asked, to
<1>4. /\ to.positions[2] \in joint_3_min .. joint_3_max
      /\ asked.positions[2] \in joint_7_min .. joint_7_max
  BY <1>1, <1>3 DEF PointRefused
<1>5. to.velocities # <<>> /\ joint_3_max_velocity > 0 =>
        Abs(to.velocities[2]) <= joint_3_max_velocity
  <2> SUFFICES ASSUME to.velocities # <<>>, joint_3_max_velocity > 0
               PROVE  Abs(to.velocities[2]) <= joint_3_max_velocity
    OBVIOUS
  <2>1. asked.velocities # <<>>
    BY <1>2, <1>3, RateBack
  <2>2. ~ (Abs(to.velocities[2]) > joint_3_max_velocity)
    BY <1>1, <1>3, <2>1 DEF PointRefused
  <2>3. to.velocities \in Pairs
    BY <1>2, <1>3, RateBack DEF Rates
  <2>4. Abs(to.velocities[2]) \in Int
    BY <2>3 DEF Pairs, Abs
  <2> QED BY <2>2, <2>4, BridgeAssumption
<1>6. asked.velocities # <<>> =>
        _gazebo_to_moveit_values(Plus(to.positions, to.velocities), coupling_offset)
          = Plus(asked.positions, asked.velocities)
  BY <1>2, <1>3, RateBack, RateLeads
<1>7. asked.accelerations # <<>> =>
        _gazebo_to_moveit_values(Plus(to.positions, to.accelerations), coupling_offset)
          = Plus(asked.positions, asked.accelerations)
  BY <1>2, <1>3, RateBack, RateLeads
<1>8. Follows(to, asked)
  BY <1>4, <1>5, <1>6, <1>7 DEF Follows
<1> QED BY <1>8 DEF to, asked

(* What was converted for the controller is shown as what was asked for.    *)
LEMMA RoundTrip ==
  ASSUME TrajectoryTypeOK, NEW g \in Goals, NEW i \in 1 .. Len(request[g].points),
         NEW lag \in Lags
  PROVE  LET f == transform_feedback(transform_goal(request[g])[i], lag) IN
         /\ f \in Feedback /\ AskedFor(f.desired, request[g].points[i])
         /\ Plus(f.actual, f.error) = f.desired.positions
<1> DEFINE asked == request[g].points[i]
           to    == transform_goal(request[g])[i]
           back  == _transform_feedback_point(to, coupling_offset)
           f     == transform_feedback(to, lag)
<1>1. /\ asked.positions \in Pairs /\ asked.velocities \in Rates
      /\ asked.accelerations \in Rates
  BY PointTypes DEF Points
<1>2. /\ to.positions = _moveit_to_gazebo_values(asked.positions, coupling_offset)
      /\ to.velocities = GazeboRate(asked.velocities)
      /\ to.accelerations = GazeboRate(asked.accelerations)
  BY PointTypes
<1>3. to.positions \in Pairs /\ lag \in Pairs
  BY <1>1, <1>2, PairBack, BridgeAssumption
<1>4. Minus(to.positions, lag) \in Pairs
  BY <1>3 DEF Minus, Pairs
<1> HIDE DEF asked, to
<1>5. /\ back.positions = asked.positions /\ back.velocities = asked.velocities
      /\ back.accelerations = asked.accelerations
  BY <1>1, <1>2, PairBack, RateBack, BridgeAssumption DEF _transform_feedback_point
<1>6. back \in Targets
  BY <1>1, <1>5 DEF Targets, _transform_feedback_point
<1>7. /\ f.desired = back
      /\ f.actual = _gazebo_to_moveit_values(Minus(to.positions, lag), coupling_offset)
      /\ f.error = _gazebo_to_moveit_values(lag, 0)
  BY DEF transform_feedback
<1>8. f.actual \in Pairs /\ f.error \in Pairs
  BY <1>3, <1>4, <1>7, PairBack, BridgeAssumption
<1>9. f \in Feedback
  BY <1>6, <1>7, <1>8 DEF Feedback, transform_feedback
<1>10. back.positions = _gazebo_to_moveit_values(to.positions, coupling_offset)
  BY DEF _transform_feedback_point
<1>11. Plus(f.actual, f.error) = f.desired.positions
  BY <1>3, <1>7, <1>10, ErrorIsDistance
<1>12. AskedFor(f.desired, asked)
  BY <1>5, <1>7 DEF AskedFor
<1> QED BY <1>9, <1>11, <1>12 DEF asked, to

-----------------------------------------------------------------------------
LEMMA TrajectoryNextType == TrajectoryTypeOK /\ AcceptInv /\ [TrajectoryNext]_vars => TrajectoryTypeOK'
<1> SUFFICES ASSUME TrajectoryTypeOK, AcceptInv, [TrajectoryNext]_vars PROVE TrajectoryTypeOK'
  OBVIOUS
<1>1. CASE UNCHANGED vars
  BY <1>1 DEF TrajectoryTypeOK, vars
<1>2. ASSUME NEW g \in Goals, goal_callback(g) PROVE TrajectoryTypeOK'
  BY <1>2, Zenon DEF TrajectoryTypeOK, goal_callback
<1>3. ASSUME NEW g \in Goals, Execute(g) PROVE TrajectoryTypeOK'
  <2>1. CASE ConvertGoal(g)   BY <2>1 DEF TrajectoryTypeOK, ConvertGoal, Ends, Moves, Ended
  <2>2. CASE ServerMissing(g) BY <2>2 DEF TrajectoryTypeOK, ServerMissing, Ends, Moves, Ended
  <2>3. CASE SendGoal(g)      BY <2>3 DEF TrajectoryTypeOK, SendGoal, Moves
  <2>4. CASE GoalRejected(g)  BY <2>4 DEF TrajectoryTypeOK, GoalRejected, Ends, Moves, Ended
  <2>5. CASE GoalAccepted(g)  BY <2>5 DEF TrajectoryTypeOK, GoalAccepted, Moves
  <2>6. CASE CheckCancel(g)   BY <2>6 DEF TrajectoryTypeOK, CheckCancel, Moves
  <2>7. CASE AwaitCancel(g)   BY <2>7 DEF TrajectoryTypeOK, AwaitCancel, Moves
  <2>8. CASE GetResult(g)
    BY <2>8 DEF TrajectoryTypeOK, GetResult, Ends, Moves, Ended, Outcome
  <2>9. CASE Finally(g)       BY <2>9 DEF TrajectoryTypeOK, Finally, Moves
  <2> QED BY <1>3, <2>1, <2>2, <2>3, <2>4, <2>5, <2>6, <2>7, <2>8, <2>9 DEF Execute
<1>4. ASSUME NEW g \in Goals, Cancel(g) PROVE TrajectoryTypeOK'
  <2>1. CASE CancelArrives(g)   BY <2>1 DEF TrajectoryTypeOK, CancelArrives
  <2>2. CASE cancel_callback(g)
    <3>1. heard' \in [Goals -> BOOLEAN] /\ stop' \in [Goals -> BOOLEAN]
      BY <2>2 DEF TrajectoryTypeOK, cancel_callback
    <3> QED BY <2>2, <3>1 DEF TrajectoryTypeOK, cancel_callback
  <2>3. CASE CancelAccepted(g)  BY <2>3 DEF TrajectoryTypeOK, CancelAccepted
  <2> QED BY <1>4, <2>1, <2>2, <2>3 DEF Cancel
<1>5. ASSUME NEW g \in Goals, Controller(g) PROVE TrajectoryTypeOK'
  <2>1. CASE ControllerAnswers(g) BY <2>1 DEF TrajectoryTypeOK, ControllerAnswers
  <2>2. CASE ControllerMoves(g)   BY <2>2 DEF TrajectoryTypeOK, ControllerMoves
  <2>3. CASE ControllerEnds(g)    BY <2>3 DEF TrajectoryTypeOK, ControllerEnds, Stopped
  <2>4. CASE ControllerCancels(g) BY <2>4 DEF TrajectoryTypeOK, ControllerCancels, Stopped
  <2> QED BY <1>5, <2>1, <2>2, <2>3, <2>4 DEF Controller
<1>6. ASSUME NEW g \in Goals, _forward_feedback(g) PROVE TrajectoryTypeOK'
  <2>1. at[g] \in 1 .. Len(request[g].points)
    BY <1>6 DEF TrajectoryTypeOK, AcceptInv, _forward_feedback
  <2>2. \A lag \in Lags : transform_feedback(transform_goal(request[g])[at[g]], lag) \in Feedback
    BY <2>1, RoundTrip
  <2>3. PICK new \in SUBSET Feedback : shown' = shown \/ shown' = [shown EXCEPT ![g] = new]
    <3>1. CASE is_active(g)
      <4>1. PICK lag \in Lags :
              shown' = [shown EXCEPT ![g] =
                {transform_feedback(transform_goal(request[g])[at[g]], lag)}]
        BY <1>6, <3>1 DEF _forward_feedback
      <4> QED BY <2>2, <4>1
    <3>2. CASE ~is_active(g)
      BY <1>6, <3>2 DEF _forward_feedback
    <3> QED BY <3>1, <3>2
  <2>4. shown \in [Goals -> SUBSET Feedback]
    BY DEF TrajectoryTypeOK
  <2> HIDE DEF Feedback
  <2>5. shown' \in [Goals -> SUBSET Feedback]
    BY <2>3, <2>4
  <2> QED BY <1>6, <2>5 DEF TrajectoryTypeOK, _forward_feedback
<1> QED BY <1>1, <1>2, <1>3, <1>4, <1>5, <1>6 DEF TrajectoryNext

LEMMA NextLock == TrajectoryTypeOK /\ LockInv /\ [TrajectoryNext]_vars => LockInv'
<1> SUFFICES ASSUME TrajectoryTypeOK, LockInv, [TrajectoryNext]_vars PROVE LockInv'
  OBVIOUS
<1> USE DEF TrajectoryTypeOK, LockInv, Executing
<1>1. CASE UNCHANGED vars
  BY <1>1 DEF vars
<1>2. ASSUME NEW g \in Goals, goal_callback(g) PROVE LockInv'
  BY <1>2 DEF goal_callback, BusyRejects
<1>3. ASSUME NEW g \in Goals, Execute(g) PROVE LockInv'
  <2>1. CASE ConvertGoal(g)   BY <2>1 DEF ConvertGoal, Moves
  <2>2. CASE ServerMissing(g) BY <2>2 DEF ServerMissing, Moves
  <2>3. CASE SendGoal(g)      BY <2>3 DEF SendGoal, Moves
  <2>4. CASE GoalRejected(g)  BY <2>4 DEF GoalRejected, Moves
  <2>5. CASE GoalAccepted(g)  BY <2>5 DEF GoalAccepted, Moves
  <2>6. CASE CheckCancel(g)   BY <2>6 DEF CheckCancel, Moves
  <2>7. CASE AwaitCancel(g)   BY <2>7 DEF AwaitCancel, Moves
  <2>8. CASE GetResult(g)     BY <2>8 DEF GetResult, Moves
  <2>9. CASE Finally(g)       BY <2>9 DEF Finally, Moves
  <2> QED BY <1>3, <2>1, <2>2, <2>3, <2>4, <2>5, <2>6, <2>7, <2>8, <2>9 DEF Execute
<1>4. ASSUME NEW g \in Goals, Cancel(g) PROVE LockInv'
  BY <1>4 DEF Cancel, CancelArrives, cancel_callback, CancelAccepted
<1>5. ASSUME NEW g \in Goals, Controller(g) PROVE LockInv'
  BY <1>5 DEF Controller, ControllerAnswers, ControllerMoves, ControllerEnds,
              ControllerCancels
<1>6. ASSUME NEW g \in Goals, _forward_feedback(g) PROVE LockInv'
  BY <1>6 DEF _forward_feedback
<1> QED BY <1>1, <1>2, <1>3, <1>4, <1>5, <1>6 DEF TrajectoryNext

LEMMA NextFollow == TrajectoryTypeOK /\ FollowInv /\ [TrajectoryNext]_vars => FollowInv'
<1> SUFFICES ASSUME TrajectoryTypeOK, FollowInv, [TrajectoryNext]_vars PROVE FollowInv'
  OBVIOUS
<1> USE DEF TrajectoryTypeOK, FollowInv, Ended
<1>1. CASE UNCHANGED vars
  BY <1>1 DEF vars
<1>2. ASSUME NEW g \in Goals, goal_callback(g) PROVE FollowInv'
  BY <1>2 DEF goal_callback
<1>3. ASSUME NEW g \in Goals, Execute(g) PROVE FollowInv'
  <2>1. CASE ConvertGoal(g)   BY <2>1 DEF ConvertGoal, Ends, Moves
  <2>2. CASE ServerMissing(g) BY <2>2 DEF ServerMissing, Ends, Moves
  <2>3. CASE SendGoal(g)      BY <2>3 DEF SendGoal, Moves
  <2>4. CASE GoalRejected(g)  BY <2>4 DEF GoalRejected, Ends, Moves
  <2>5. CASE GoalAccepted(g)  BY <2>5 DEF GoalAccepted, Moves
  <2>6. CASE CheckCancel(g)
    <3>1. pc' \in {[pc EXCEPT ![g] = to] : to \in {"canceling", "result"}}
      BY <2>6 DEF CheckCancel, Moves
    <3>2. UNCHANGED <<status, ctl>> /\ pc[g] = "assigned"
      BY <2>6 DEF CheckCancel
    <3> QED BY <3>1, <3>2
  <2>7. CASE AwaitCancel(g)   BY <2>7 DEF AwaitCancel, Moves
  <2>8. CASE GetResult(g)
    BY <2>8 DEF GetResult, Ends, Moves, Outcome, Stopped
  <2>9. CASE Finally(g)       BY <2>9 DEF Finally, Moves
  <2> QED BY <1>3, <2>1, <2>2, <2>3, <2>4, <2>5, <2>6, <2>7, <2>8, <2>9 DEF Execute
<1>4. ASSUME NEW g \in Goals, Cancel(g) PROVE FollowInv'
  BY <1>4 DEF Cancel, CancelArrives, cancel_callback, CancelAccepted
<1>5. ASSUME NEW g \in Goals, Controller(g) PROVE FollowInv'
  <2>1. CASE ControllerAnswers(g) BY <2>1 DEF ControllerAnswers
  <2>2. CASE ControllerMoves(g)   BY <2>2 DEF ControllerMoves
  <2>3. CASE ControllerEnds(g)    BY <2>3 DEF ControllerEnds
  <2>4. CASE ControllerCancels(g) BY <2>4 DEF ControllerCancels
  <2> QED BY <1>5, <2>1, <2>2, <2>3, <2>4 DEF Controller
<1>6. ASSUME NEW g \in Goals, _forward_feedback(g) PROVE FollowInv'
  BY <1>6 DEF _forward_feedback
<1> QED BY <1>1, <1>2, <1>3, <1>4, <1>5, <1>6 DEF TrajectoryNext

LEMMA NextAccept == TrajectoryTypeOK /\ FollowInv /\ AcceptInv /\ [TrajectoryNext]_vars => AcceptInv'
<1> SUFFICES ASSUME TrajectoryTypeOK, FollowInv, AcceptInv, [TrajectoryNext]_vars PROVE AcceptInv'
  OBVIOUS
<1> USE DEF TrajectoryTypeOK, AcceptInv, FollowInv, Ended
<1>1. CASE UNCHANGED vars
  BY <1>1 DEF vars
<1>2. ASSUME NEW g \in Goals, goal_callback(g) PROVE AcceptInv'
  BY <1>2 DEF goal_callback
<1>3. ASSUME NEW g \in Goals, Execute(g) PROVE AcceptInv'
  <2>1. CASE ConvertGoal(g)   BY <2>1 DEF ConvertGoal, Ends, is_cancel_requested
  <2>2. CASE ServerMissing(g) BY <2>2 DEF ServerMissing, Ends
  <2>3. CASE SendGoal(g)      BY <2>3 DEF SendGoal
  <2>4. CASE GoalRejected(g)  BY <2>4 DEF GoalRejected, Ends
  <2>5. CASE GoalAccepted(g)  BY <2>5 DEF GoalAccepted
  <2>6. CASE CheckCancel(g)   BY <2>6 DEF CheckCancel
  <2>7. CASE AwaitCancel(g)   BY <2>7 DEF AwaitCancel
  <2>8. CASE GetResult(g)     BY <2>8 DEF GetResult, Ends
  <2>9. CASE Finally(g)       BY <2>9 DEF Finally
  <2> QED BY <1>3, <2>1, <2>2, <2>3, <2>4, <2>5, <2>6, <2>7, <2>8, <2>9 DEF Execute
<1>4. ASSUME NEW g \in Goals, Cancel(g) PROVE AcceptInv'
  BY <1>4 DEF Cancel, CancelArrives, cancel_callback, CancelAccepted
<1>5. ASSUME NEW g \in Goals, Controller(g) PROVE AcceptInv'
  <2>1. CASE ControllerAnswers(g) BY <2>1 DEF ControllerAnswers
  <2>2. CASE ControllerMoves(g)
    <3>1. Len(request[g].points) \in Nat
      BY DEF TrajectoryTypeOK
    <3> QED BY <2>2, <3>1 DEF ControllerMoves
  <2>3. CASE ControllerEnds(g)    BY <2>3 DEF ControllerEnds
  <2>4. CASE ControllerCancels(g) BY <2>4 DEF ControllerCancels
  <2> QED BY <1>5, <2>1, <2>2, <2>3, <2>4 DEF Controller
<1>6. ASSUME NEW g \in Goals, _forward_feedback(g) PROVE AcceptInv'
  BY <1>6 DEF _forward_feedback
<1> QED BY <1>1, <1>2, <1>3, <1>4, <1>5, <1>6 DEF TrajectoryNext

LEMMA TrajectoryNextInv == TrajectoryInv /\ [TrajectoryNext]_vars => TrajectoryInv'
BY TrajectoryNextType, NextLock, NextFollow, NextAccept DEF TrajectoryInv

(* The same for the trajectory bridge.                                      *)
THEOREM TrajectoryInvariance == TrajectorySpec => []TrajectoryInv
BY TrajectoryInitInv, TrajectoryNextInv, PTL DEF TrajectorySpec

-----------------------------------------------------------------------------
(* The controller is asked for one trajectory at a time, whichever goals    *)
(* arrive, are cancelled and end meanwhile.                                *)
THEOREM OneAtATime == TrajectorySpec => []OneTrajectory
<1>1. TrajectoryInv => OneTrajectory
  BY DEF TrajectoryInv, LockInv, FollowInv, OneTrajectory, Executing
<1> QED BY <1>1, TrajectoryInvariance, PTL

(* A goal that MoveIt knows to have ended is not followed by the arm.       *)
THEOREM EndIsStill == TrajectorySpec => []EndedMeansStill
<1>1. TrajectoryInv => EndedMeansStill
  BY DEF TrajectoryInv, FollowInv, EndedMeansStill
<1> QED BY <1>1, TrajectoryInvariance, PTL

(* What is shown is what was asked for, at the points reached so far.       *)
ShownInv ==
  \A g \in Goals : \A f \in shown[g] :
    /\ \E i \in 1 .. at[g] : AskedFor(f.desired, request[g].points[i])
    /\ Plus(f.actual, f.error) = f.desired.positions

LEMMA NextShown == TrajectoryInv /\ ShownInv /\ [TrajectoryNext]_vars => ShownInv'
<1> SUFFICES ASSUME TrajectoryInv, ShownInv, [TrajectoryNext]_vars PROVE ShownInv'
  OBVIOUS
<1>1. request' = request
  BY DEF TrajectoryNext, vars, goal_callback, Execute, ConvertGoal, ServerMissing, SendGoal,
         GoalRejected, GoalAccepted, CheckCancel, AwaitCancel, GetResult, Finally,
         Cancel, CancelArrives, cancel_callback, CancelAccepted, Controller,
         ControllerAnswers, ControllerMoves, ControllerEnds, ControllerCancels,
         _forward_feedback
<1>2. CASE UNCHANGED <<at, shown>>
  BY <1>1, <1>2 DEF ShownInv
<1>3. ASSUME NEW g \in Goals, ControllerMoves(g) PROVE ShownInv'
  <2>1. \A h \in Goals : at[h] \in Nat /\ at'[h] \in Nat /\ at[h] <= at'[h]
    BY <1>3 DEF TrajectoryInv, TrajectoryTypeOK, ControllerMoves
  <2>2. shown' = shown
    BY <1>3 DEF ControllerMoves
  <2>3. \A h \in Goals : 1 .. at[h] \subseteq 1 .. at'[h]
    BY <2>1
  <2> QED BY <1>1, <2>2, <2>3 DEF ShownInv
<1>4. ASSUME NEW g \in Goals, _forward_feedback(g) PROVE ShownInv'
  <2>1. at[g] \in 1 .. Len(request[g].points) /\ at[g] \in 1 .. at[g]
    BY <1>4 DEF TrajectoryInv, TrajectoryTypeOK, AcceptInv, _forward_feedback
  <2>2. at' = at
    BY <1>4 DEF _forward_feedback
  <2>3. CASE ~is_active(g)
    BY <1>1, <1>4, <2>2, <2>3 DEF ShownInv, _forward_feedback
  <2>4. CASE is_active(g)
    <3> DEFINE f(lag) == transform_feedback(transform_goal(request[g])[at[g]], lag)
    <3>1. PICK lag \in Lags : shown' = [shown EXCEPT ![g] = {f(lag)}]
      BY <1>4, <2>4 DEF _forward_feedback
    <3>2. /\ AskedFor(f(lag).desired, request[g].points[at[g]])
          /\ Plus(f(lag).actual, f(lag).error) = f(lag).desired.positions
      BY <2>1, RoundTrip DEF TrajectoryInv
    <3> HIDE DEF f
    <3>3. \A h \in Goals : shown'[h] = IF h = g THEN {f(lag)} ELSE shown[h]
      BY <3>1 DEF TrajectoryInv, TrajectoryTypeOK
    <3> QED BY <1>1, <2>1, <2>2, <3>2, <3>3 DEF ShownInv
  <2> QED BY <2>3, <2>4
<1> QED
  BY <1>2, <1>3, <1>4 DEF TrajectoryNext, vars, goal_callback, Execute, ConvertGoal,
     ServerMissing, SendGoal, GoalRejected, GoalAccepted, CheckCancel, AwaitCancel,
     GetResult, Finally, Cancel, CancelArrives, cancel_callback, CancelAccepted,
     Controller, ControllerAnswers, ControllerEnds, ControllerCancels

(* The arm is never commanded out of the limits of the coupled joints, its  *)
(* velocities and accelerations are those of the positions asked for, and   *)
(* the feedback MoveIt gets undoes the conversion, for all limits, offsets, *)
(* trajectories and distances of the arm from them                          *)
(* (moveit_gazebo_trajectory_bridge.py:77-108, 204-245 and 261-330).         *)
THEOREM RequestTracked == TrajectorySpec => []TracksRequest
<1>1. TrajectoryInit => ShownInv
  BY DEF TrajectoryInit, ShownInv
<1>2. TrajectoryInv /\ ShownInv => TracksRequest
  <2> SUFFICES ASSUME TrajectoryInv, ShownInv, NEW g \in Goals, NEW i \in 1 .. at[g]
               PROVE  Follows(transform_goal(request[g])[i], request[g].points[i])
    BY DEF TracksRequest, ShownInv
  <2>1. at[g] \in Nat /\ at[g] > 0 /\ at[g] <= Len(request[g].points)
    BY DEF TrajectoryInv, TrajectoryTypeOK, AcceptInv
  <2>2. ~TransformRefuses(request[g])
    BY <2>1 DEF TrajectoryInv, FollowInv, AcceptInv
  <2>3. Len(request[g].points) \in Nat
    BY DEF TrajectoryInv, TrajectoryTypeOK
  <2>4. i \in 1 .. Len(request[g].points)
    BY <2>1, <2>3
  <2> QED BY <2>2, <2>4, PointFollows DEF TrajectoryInv
<1> QED BY <1>1, <1>2, TrajectoryInvariance, NextShown, PTL DEF TrajectorySpec

-----------------------------------------------------------------------------
(***************************************************************************)
(* The environment boxes.  A chain of poses puts a point where its poses    *)
(* put it one after the other, so an object is where its SDF puts it; and   *)
(* as no two boxes share an identifier, a diff leaves every one of them in  *)
(* the scene, where it stays until move_group loses it.                    *)
(***************************************************************************)
Places == Int \X Int

Position(pose) == <<pose[1], pose[2]>>

LEMMA TurnIsPoint ==
  ASSUME NEW t \in 0 .. 3, NEW v \in Places
  PROVE  Turn(t, v) \in Places
BY DEF Turn, Places

LEMMA TurnsAdd ==
  ASSUME NEW t \in 0 .. 3, NEW u \in 0 .. 3, NEW v \in Places
  PROVE  Turn((t + u) % 4, v) = Turn(t, Turn(u, v))
BY DEF Turn, Places

LEMMA TurnOfSum ==
  ASSUME NEW t \in 0 .. 3, NEW v \in Places, NEW w \in Places
  PROVE  Turn(t, <<v[1] + w[1], v[2] + w[2]>>) =
           <<Turn(t, v)[1] + Turn(t, w)[1], Turn(t, v)[2] + Turn(t, w)[2]>>
BY DEF Turn, Places

LEMMA PutIsPoint ==
  ASSUME NEW p \in Poses, NEW v \in Places
  PROVE  Put(p, v) \in Places
BY TurnIsPoint DEF Put, Places, Poses

LEMMA ComposeIsPose ==
  ASSUME NEW p \in Poses, NEW q \in Poses
  PROVE  Compose(p, q) \in Poses
<1>1. Turn(p[3], <<q[1], q[2]>>) \in Places  BY TurnIsPoint DEF Poses, Places
<1>2. (p[3] + q[3]) % 4 \in 0 .. 3  BY DEF Poses
<1> QED  BY <1>1, <1>2 DEF Compose, Poses, Places

(* A composed pose puts a point where the second pose, then the first do.   *)
LEMMA ComposePuts ==
  ASSUME NEW p \in Poses, NEW q \in Poses, NEW v \in Places
  PROVE  Put(Compose(p, q), v) = Put(p, Put(q, v))
<1> DEFINE r == Turn(p[3], <<q[1], q[2]>>)
           u == Turn(q[3], v)
<1>1. p[3] \in 0 .. 3 /\ q[3] \in 0 .. 3 /\ <<q[1], q[2]>> \in Places
      /\ p[1] \in Int /\ p[2] \in Int /\ q[1] \in Int /\ q[2] \in Int
  BY DEF Poses, Places
<1>2. r \in Places /\ u \in Places  BY <1>1, TurnIsPoint
<1>3. Turn((p[3] + q[3]) % 4, v) = Turn(p[3], u)  BY <1>1, TurnsAdd
<1>4. Turn(p[3], u) \in Places  BY <1>1, <1>2, TurnIsPoint
<1>5. Put(Compose(p, q), v) =
        <<p[1] + r[1] + Turn(p[3], u)[1], p[2] + r[2] + Turn(p[3], u)[2]>>
  BY <1>3 DEF Put, Compose
<1>6. Put(q, v) = <<q[1] + u[1], q[2] + u[2]>>  BY DEF Put
<1>7. Turn(p[3], <<q[1] + u[1], q[2] + u[2]>>) =
        <<r[1] + Turn(p[3], u)[1], r[2] + Turn(p[3], u)[2]>>
  BY <1>1, <1>2, TurnOfSum
<1>8. Put(p, Put(q, v)) =
        <<p[1] + (r[1] + Turn(p[3], u)[1]), p[2] + (r[2] + Turn(p[3], u)[2])>>
  BY <1>6, <1>7 DEF Put
<1> HIDE DEF r, u
<1> QED  BY <1>1, <1>2, <1>4, <1>5, <1>8 DEF Places

LEMMA ComposedPosition ==
  ASSUME NEW p \in Poses, NEW q \in Poses
  PROVE  Position(Compose(p, q)) = Put(p, Position(q))
BY DEF Position, Compose, Put

LEMMA ChainPosition ==
  ASSUME NEW p \in Poses, NEW q \in Poses, NEW r \in Poses, NEW s \in Poses
  PROVE  Position(_compose_pose_chain(<<p, q, r, s>>)) =
           Put(p, Put(q, Put(r, Position(s))))
<1> DEFINE zero == <<0, 0, 0>>
           one == Compose(zero, p)
           two == Compose(one, q)
           three == Compose(two, r)
           x == Position(s)
<1>1. zero \in Poses /\ x \in Places  BY DEF Poses, Places, Position
<1>2. one \in Poses /\ two \in Poses /\ three \in Poses
  BY <1>1, ComposeIsPose
<1>3. Position(_compose_pose_chain(<<p, q, r, s>>)) = Put(three, x)
  BY <1>2, ComposedPosition DEF _compose_pose_chain
<1>4. Put(r, x) \in Places /\ Put(q, Put(r, x)) \in Places
      /\ Put(p, Put(q, Put(r, x))) \in Places
  BY <1>1, PutIsPoint
<1>5. Put(three, x) = Put(two, Put(r, x))  BY <1>1, <1>2, ComposePuts
<1>6. Put(two, Put(r, x)) = Put(one, Put(q, Put(r, x)))
  BY <1>2, <1>4, ComposePuts
<1>7. Put(one, Put(q, Put(r, x))) = Put(zero, Put(p, Put(q, Put(r, x))))
  BY <1>1, <1>4, ComposePuts
<1>8. ASSUME NEW v \in Places PROVE Put(zero, v) = v  BY DEF Put, Turn, Places
<1> QED  BY <1>3, <1>4, <1>5, <1>6, <1>7, <1>8

(* What a configuration that loads says of a box.                          *)
LEMMA LoadedBox ==
  ASSUME config \in Configs, Loads(config), NEW i \in 1 .. Len(config.boxes)
  PROVE  LET box == config.boxes[i]
             shape == box.sdf[1]
         IN /\ box.pose \in Poses /\ shape.model \in Poses
            /\ shape.link \in Poses /\ shape.collision \in Poses
            /\ shape.type \in {"box", "cylinder"}
            /\ \A k \in 1 .. DimensionCount[shape.type] : shape.dims[k] \in Nat
            /\ config.planning_padding \in Nat
<1> DEFINE box == config.boxes[i]
           Shapes == [type : {"box", "cylinder"}, dims : Seq(Int \cup {NotFinite}),
                      model : Poses, link : Poses, collision : Poses]
<1>1. box.pose \in Poses /\ box.sdf \in Seq(Shapes)  BY EnvironmentAssumption
<1>2. ParsesSdf(box.sdf) /\ config.planning_padding \in Nat  BY DEF Loads
<1>3. box.sdf[1] \in Shapes
  <2>1. Len(box.sdf) = 1  BY <1>2 DEF ParsesSdf
  <2> HIDE DEF box, Shapes
  <2> QED  BY <1>1, <2>1
<1> QED  BY <1>1, <1>2, <1>3 DEF ParsesSdf

LEMMA ObjectIsObstacle ==
  ASSUME config \in Configs, Loads(config), NEW i \in 1 .. Len(config.boxes)
  PROVE  IsObstacle(config.boxes[i],
                    collision_object(config.boxes[i], config.planning_padding))
<1> DEFINE box == config.boxes[i]
           shape == box.sdf[1]
           padding == config.planning_padding
           object == collision_object(box, padding)
           inner == Extents(shape.type, shape.dims)
           outer == Extents(object.type, object.dims)
<1>1. box.pose \in Poses /\ shape.model \in Poses
      /\ shape.link \in Poses /\ shape.collision \in Poses
      /\ shape.type \in {"box", "cylinder"}
      /\ (\A k \in 1 .. DimensionCount[shape.type] : shape.dims[k] \in Nat)
      /\ padding \in Nat
  BY LoadedBox
<1>2. object.type = shape.type
      /\ object.dims = PaddedDimensions(shape.type, shape.dims, padding)
      /\ object.pose = _compose_pose_chain(
                         <<box.pose, shape.model, shape.link, shape.collision>>)
  BY DEF collision_object
<1>3. \A k \in 1 .. 3 : outer[k] >= inner[k] + 2 * padding
  <2>1. CASE shape.type = "box"
    <3>1. shape.dims[1] \in Nat /\ shape.dims[2] \in Nat /\ shape.dims[3] \in Nat
      BY <1>1, <2>1 DEF DimensionCount
    <3> HIDE DEF shape, padding
    <3> QED  BY <1>1, <1>2, <2>1, <3>1 DEF Extents, PaddedDimensions
  <2>2. CASE shape.type = "cylinder"
    <3>1. shape.dims[1] \in Nat /\ shape.dims[2] \in Nat
      BY <1>1, <2>2 DEF DimensionCount
    <3> HIDE DEF shape, padding
    <3> QED  BY <1>1, <1>2, <2>2, <3>1 DEF Extents, PaddedDimensions
  <2> QED  BY <1>1, <2>1, <2>2
<1>4. Position(object.pose) =
        Put(box.pose, Put(shape.model, Put(shape.link, Position(shape.collision))))
  BY <1>1, <1>2, ChainPosition
<1> QED  BY <1>2, <1>3, <1>4 DEF IsObstacle, Position

Obstacles(objects) ==
  \A i \in 1 .. Len(config.boxes) :
    /\ config.boxes[i].id \in DOMAIN objects
    /\ IsObstacle(config.boxes[i], objects[config.boxes[i].id])

(* A diff leaves all boxes in the scene: each is the only one of its name.  *)
LEMMA DiffAddsAll ==
  ASSUME config \in Configs, Loads(config), NEW objects
  PROVE  Obstacles(WithDiff(objects))
<1> SUFFICES ASSUME NEW i \in 1 .. Len(config.boxes)
             PROVE  /\ config.boxes[i].id \in DOMAIN WithDiff(objects)
                    /\ IsObstacle(config.boxes[i], WithDiff(objects)[config.boxes[i].id])
  BY DEF Obstacles
<1> DEFINE id == config.boxes[i].id
<1>1. \A j \in 1 .. Len(config.boxes) : config.boxes[j].id = id => j = i
  <2> SUFFICES ASSUME NEW j \in 1 .. Len(config.boxes), config.boxes[j].id = id, j # i
               PROVE  FALSE
    OBVIOUS
  <2>1. NewIdentifier(config.boxes, i) /\ NewIdentifier(config.boxes, j)  BY DEF Loads
  <2>2. i \in 1 .. j - 1 \/ j \in 1 .. i - 1  OBVIOUS
  <2> QED  BY <2>1, <2>2 DEF NewIdentifier
<1>2. AddedAs(id) = {i}  BY <1>1 DEF AddedAs
<1>3. Latest({i}) = i  BY DEF Latest
<1>4. id \in DOMAIN WithDiff(objects)
      /\ WithDiff(objects)[id] = collision_object(config.boxes[i], config.planning_padding)
  BY <1>2, <1>3 DEF WithDiff
<1> QED  BY <1>4, ObjectIsObstacle

BoxInv ==
  /\ config \in Configs
  /\ node # "failed" \/ future # "none" \/ received => Loads(config)
  /\ history \in [restarts : Nat, refused : Nat, forgot : BOOLEAN]
  /\ (future = "applied" \/ node = "cancelled") /\ ~history.forgot => Obstacles(scene)

LEMMA BoxInitInv == BoxInit => BoxInv
BY DEF BoxInit, BoxInv

LEMMA BoxNextInv == BoxInv /\ [BoxNext]_boxVars => BoxInv'
<1> SUFFICES ASSUME BoxInv, [BoxNext]_boxVars PROVE BoxInv'
  OBVIOUS
<1>1. config' = config  BY DEF BoxNext, boxVars, _try_apply, _applied, GroupApplies,
                             GroupRefuses, GroupStarts, GroupStops
<1>2. ASSUME scene' = scene PROVE Obstacles(scene)' <=> Obstacles(scene)
  BY <1>1, <1>2 DEF Obstacles, IsObstacle
<1>3. Loads(config)' <=> Loads(config)  BY <1>1
<1>4. CASE _try_apply
  BY <1>1, <1>2, <1>3, <1>4 DEF BoxInv, _try_apply
<1>5. CASE _applied
  BY <1>1, <1>2, <1>3, <1>5 DEF BoxInv, _applied
<1>6. CASE GroupApplies
  <2>1. Loads(config)  BY <1>6 DEF BoxInv, GroupApplies
  <2>2. Obstacles(WithDiff(scene))  BY <2>1, DiffAddsAll DEF BoxInv
  <2>3. Obstacles(scene)'  BY <1>1, <1>6, <2>2 DEF Obstacles, IsObstacle, GroupApplies
  <2> QED  BY <1>1, <1>3, <1>6, <2>1, <2>3 DEF BoxInv, GroupApplies
<1>7. CASE GroupRefuses
  BY <1>1, <1>2, <1>3, <1>7 DEF BoxInv, GroupRefuses
<1>8. CASE GroupStarts
  BY <1>1, <1>2, <1>3, <1>8 DEF BoxInv, GroupStarts
<1>9. CASE GroupStops
  <2>1. history' \in [restarts : Nat, refused : Nat, forgot : BOOLEAN]
        /\ (future = "applied" \/ node = "cancelled" => history'.forgot)
    <3> DEFINE lost == history.forgot \/ future = "applied" \/ node = "cancelled"
    <3>1. history' = [history EXCEPT !.restarts = @ + 1, !.forgot = lost]
      BY <1>9 DEF GroupStops
    <3>2. history'.restarts = history.restarts + 1 /\ history'.refused = history.refused
          /\ history'.forgot = lost
          /\ history' = [restarts |-> history'.restarts, refused |-> history'.refused,
                         forgot |-> history'.forgot]
      BY <3>1, Zenon DEF BoxInv
    <3>3. lost \in BOOLEAN  OBVIOUS
    <3> HIDE DEF lost
    <3>4. history'.forgot \in BOOLEAN  BY <3>2, <3>3
    <3>5. history'.restarts \in Nat /\ history'.refused \in Nat  BY <3>2 DEF BoxInv
    <3>6. history' \in [restarts : Nat, refused : Nat, forgot : BOOLEAN]
      BY <3>2, <3>4, <3>5
    <3>7. lost <=> history.forgot \/ future = "applied" \/ node = "cancelled"
      BY DEF lost
    <3> QED  BY <3>2, <3>6, <3>7, Zenon
  <2> QED  BY <1>1, <1>3, <1>9, <2>1 DEF BoxInv, GroupStops
<1>10. CASE UNCHANGED boxVars
  BY <1>1, <1>2, <1>3, <1>10 DEF BoxInv, boxVars
<1> QED
  BY <1>4, <1>5, <1>6, <1>7, <1>8, <1>9, <1>10 DEF BoxNext

(* The node cancels its timer only when every box is an obstacle of MoveIt's *)
(* scene, and none leaves it unless move_group loses the scene.            *)
THEOREM BoxesInTheScene == BoxSpec => []EveryBoxIsInTheScene
<1>1. BoxInv => EveryBoxIsInTheScene  BY DEF BoxInv, Obstacles, EveryBoxIsInTheScene
<1> QED  BY BoxInitInv, BoxNextInv, <1>1, PTL DEF BoxSpec
=============================================================================
