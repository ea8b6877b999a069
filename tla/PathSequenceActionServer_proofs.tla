------------------- MODULE PathSequenceActionServer_proofs -------------------
(***************************************************************************)
(* One sequence at a time, in its own state, on a checked start: proofs for *)
(* every number of goals and every set of sequences.  The argument is that  *)
(* of a lock: busy is true as long as a goal is executed, so every shared   *)
(* variable is written by one execution only, up to the continue flag,      *)
(* which cancel callbacks and services write too.                          *)
(***************************************************************************)
EXTENDS PathSequenceHistory, TLAPS

USE SequenceAssumption, StaleAssumption DEF Goals, NoGoal

(* busy is a lock.                                                         *)
LockInv ==
  /\ ~busy => \A g \in Goals : ~Executing(g)
  /\ \A g, h \in Goals : Executing(g) /\ Executing(h) => g = h

(* What the shared state is at each step of the execution.                 *)
StateInv ==
  /\ \A g \in Goals :
       Executing(g) /\ step[g] \notin {"start", "release_server"} =>
         active_sequence_id = request[g].id
  /\ \A g \in Goals : step[g] \in {"waiting", "polling"} => waiting_after_path = index[g]
  /\ \A g \in Goals : step[g] = "running" => active_path_goal = g
  /\ waiting_after_path # 0 =>
       \E g \in Goals : step[g] \in {"waiting", "polling", "forget", "release_state"}

(* A PATH is on its way only while its sequence waits for its result.      *)
PathIsAwaited(g) ==
  /\ path[g] \in {"sent", "accepted"} => step[g] \in {"sending", "running"}
  /\ step[g] = "running" => path[g] \notin {"none", "sent", "rejected"}
  /\ step[g] = "sending" => path[g] # "none"
  /\ outcome[g] # "none" =>
       step[g] \in {"forget", "release_state", "release_server", "ended"}

PathInv == \A g \in Goals : PathIsAwaited(g)

(* The PATHs before the current one are finished.                          *)
CountIsIndex(g) ==
  /\ index[g] \in 1 .. Len(BlocksOf(g))
  /\ step[g] \in {"idle", "start", "top", "check", "send"} => finished[g] = index[g] - 1
  /\ step[g] \in {"sending", "running"} =>
       finished[g] = IF path[g] = "succeeded" THEN index[g] ELSE index[g] - 1
  /\ step[g] \in {"completed", "waiting", "polling"} => finished[g] = index[g]
  /\ step[g] \in {"waiting", "polling"} => index[g] < Len(BlocksOf(g))

CountInv == \A g \in Goals : CountIsIndex(g)

(* A fresh feedback says where the arm is, and a checked arm stays there.   *)
PlaceInv ==
  /\ feedback # Stale => feedback = arm
  /\ \A g \in Goals : request[g].checked =>
       /\ step[g] = "send" => arm = BlockOf(g).start
       /\ path[g] = "sent" => arm = BlockOf(g).start

Inv == /\ TypeOK /\ LockInv /\ StateInv /\ PathInv /\ CountInv
       /\ PlaceInv /\ PathStartsInPlace /\ SuccessMeansAll

-----------------------------------------------------------------------------
(* A request is a record, its sequence has between one and MaxPaths PATHs.  *)
LEMMA RequestFields ==
  ASSUME TypeOK, NEW g \in Goals
  PROVE  /\ request[g].id \in Ids /\ request[g].checked \in BOOLEAN
         /\ BlocksOf(g) \in Seq(Block)
         /\ Len(BlocksOf(g)) \in Nat /\ Len(BlocksOf(g)) >= 1
<1>1. request[g] \in Requests
  BY DEF TypeOK
<1>2. Len(request[g].blocks) \in 1 .. MaxPaths
  BY <1>1
<1>3. request[g] \in [id : Ids, checked : BOOLEAN, blocks : Seq(Block)]
  BY <1>1
<1> QED BY <1>2, <1>3 DEF BlocksOf

LEMMA BlockFields ==
  ASSUME TypeOK, CountInv, NEW g \in Goals
  PROVE  BlockOf(g).start \in Places /\ BlockOf(g).end \in Places
<1>1. BlockOf(g) \in Block
  BY RequestFields DEF CountInv, CountIsIndex, BlockOf
<1> QED BY <1>1 DEF Block

-----------------------------------------------------------------------------
LEMMA InitInv == Init => Inv
<1> SUFFICES ASSUME Init PROVE Inv
  OBVIOUS
<1>1. TypeOK
  <2>1. busy \in BOOLEAN /\ continue_requested \in BOOLEAN
    BY DEF Init
  <2>2. /\ cancel_requested \in [Goals -> BOOLEAN]
        /\ path_cancel \in [Goals -> BOOLEAN]
    BY DEF Init
  <2>3. /\ step \in [Goals -> Steps] /\ index \in [Goals -> 1 .. MaxPaths]
        /\ outcome \in [Goals -> Outcomes] /\ cancel \in [Goals -> CancelSteps]
        /\ path \in [Goals -> PathStates] /\ finished \in [Goals -> Nat]
    BY DEF Init, Steps, Outcomes, PathStates, CancelSteps
  <2>4. /\ active_path_goal \in Goals \cup {NoGoal}
        /\ active_sequence_id \in Ids \cup {NoSequence}
        /\ waiting_after_path \in Nat /\ request \in [Goals -> Requests]
        /\ arm \in Places /\ feedback \in Places \cup {Stale}
    BY DEF Init
  <2> QED BY <2>1, <2>2, <2>3, <2>4 DEF TypeOK
<1>2. LockInv /\ StateInv /\ PathInv
  BY DEF Init, LockInv, StateInv, PathInv, PathIsAwaited, Executing
<1>3. CountInv
  BY <1>1, RequestFields DEF Init, CountInv, CountIsIndex
<1>4. PlaceInv /\ PathStartsInPlace /\ SuccessMeansAll
  BY DEF Init, PlaceInv, PathStartsInPlace, SuccessMeansAll
<1> QED BY <1>1, <1>2, <1>3, <1>4 DEF Inv

(* The ways an execution goes on keep its types.                            *)
LEMMA ExecTypes ==
  ASSUME TypeOK, NEW g \in Goals
  PROVE  /\ \A s \in Steps : Go(g, s) => /\ step' \in [Goals -> Steps]
                                        /\ index' \in [Goals -> 1 .. MaxPaths]
                                        /\ outcome' \in [Goals -> Outcomes]
         /\ \A how \in Outcomes : End(g, how) => /\ step' \in [Goals -> Steps]
                                                /\ index' \in [Goals -> 1 .. MaxPaths]
                                                /\ outcome' \in [Goals -> Outcomes]
         /\ NextPath(g) /\ index[g] < Len(BlocksOf(g)) =>
                           /\ step' \in [Goals -> Steps]
                           /\ index' \in [Goals -> 1 .. MaxPaths]
                           /\ outcome' \in [Goals -> Outcomes]
<1>1. "forget" \in Steps /\ "top" \in Steps
  BY DEF Steps
<1>2. index[g] < Len(BlocksOf(g)) => index[g] + 1 \in 1 .. MaxPaths
  <2>1. Len(BlocksOf(g)) \in 1 .. MaxPaths
    BY DEF TypeOK, BlocksOf
  <2>2. index[g] \in 1 .. MaxPaths
    BY DEF TypeOK
  <2> QED BY <2>1, <2>2
<1>3. /\ step \in [Goals -> Steps] /\ index \in [Goals -> 1 .. MaxPaths]
      /\ outcome \in [Goals -> Outcomes]
  BY DEF TypeOK
<1>4. ASSUME NEW s \in Steps, Go(g, s)
      PROVE  /\ step' \in [Goals -> Steps] /\ index' \in [Goals -> 1 .. MaxPaths]
             /\ outcome' \in [Goals -> Outcomes]
  BY <1>3, <1>4 DEF Go
<1>5. ASSUME NEW how \in Outcomes, End(g, how)
      PROVE  /\ step' \in [Goals -> Steps] /\ index' \in [Goals -> 1 .. MaxPaths]
             /\ outcome' \in [Goals -> Outcomes]
  BY <1>1, <1>3, <1>5 DEF End
<1>6. ASSUME NextPath(g), index[g] < Len(BlocksOf(g))
      PROVE  /\ step' \in [Goals -> Steps] /\ index' \in [Goals -> 1 .. MaxPaths]
             /\ outcome' \in [Goals -> Outcomes]
  <2> DEFINE n == index[g] + 1
  <2>1. n \in 1 .. MaxPaths /\ index' = [index EXCEPT ![g] = n]
    BY <1>2, <1>3, <1>6 DEF NextPath
  <2> HIDE DEF n
  <2>2. index' \in [Goals -> 1 .. MaxPaths]
    BY <1>3, <2>1
  <2> QED BY <1>1, <1>3, <1>6, <2>2 DEF NextPath
<1> QED BY <1>4, <1>5, <1>6

LEMMA TypeStep == Inv /\ [Next]_sequenceVars => TypeOK'
<1> SUFFICES ASSUME Inv, [Next]_sequenceVars PROVE TypeOK'
  OBVIOUS
<1> USE DEF Inv, TypeOK, stateVars, execVars, cancelVars, pathVars, armVars
<1>1. ASSUME NEW g \in Goals, goal_callback(g) PROVE TypeOK'
  BY <1>1 DEF goal_callback, Steps
<1>2. ASSUME NEW id \in Ids, NEW p \in 0 .. MaxPaths, signal_sequence(id, p)
      PROVE  TypeOK'
  BY <1>2 DEF signal_sequence
<1>3. ASSUME NEW g \in Goals, CancelArrives(g) \/ cancel_callback(g) PROVE TypeOK'
  BY <1>3 DEF CancelArrives, cancel_callback, CancelChecks, CancelForwards,
              CancelFlags, CancelAccepted, SetCancel, CancelSteps
<1>4. ASSUME NEW g \in Goals, execute_callback(g) PROVE TypeOK'
  <2> USE DEF Steps, Outcomes, PathStates
  <2>1. CASE StartExecution(g)
    BY <2>1, RequestFields, ExecTypes DEF StartExecution
  <2>2. CASE NextBlock(g)        BY <2>2, ExecTypes DEF NextBlock, TopOfLoop
  <2>3. CASE check_start(g)      BY <2>3, ExecTypes DEF check_start
  <2>4. CASE SendPath(g)         BY <2>4, ExecTypes DEF SendPath
  <2>5. CASE PathAnswered(g)     BY <2>5, ExecTypes DEF PathAnswered, AnswerOfPath
  <2>6. CASE PathResult(g)       BY <2>6, ExecTypes DEF PathResult, ResultOfPath
  <2>7. CASE PathCompleted(g)
    <3>1. continue_requested' \in BOOLEAN
      BY <2>7 DEF PathCompleted, WaitsAfter, BeginWait
    <3>2. /\ step' \in [Goals -> Steps] /\ index' \in [Goals -> 1 .. MaxPaths]
          /\ outcome' \in [Goals -> Outcomes]
      BY <2>7, ExecTypes DEF PathCompleted, WaitsAfter
    <3>3. waiting_after_path' \in Nat /\ active_sequence_id' = active_sequence_id
      BY <2>7 DEF PathCompleted, WaitsAfter, BeginWait
    <3> QED BY <2>7, <3>1, <3>2, <3>3 DEF PathCompleted
  <2>8. CASE WaitChecksCancel(g) BY <2>8, ExecTypes DEF WaitChecksCancel, CancelEndsWait
  <2>9. CASE WaitPolls(g)
    <3>1. continue_requested' \in BOOLEAN
      BY <2>9 DEF WaitPolls
    <3>2. /\ step' \in [Goals -> Steps] /\ index' \in [Goals -> 1 .. MaxPaths]
          /\ outcome' \in [Goals -> Outcomes]
      BY <2>9, ExecTypes DEF WaitPolls, CountInv, CountIsIndex
    <3>3. waiting_after_path' \in Nat /\ active_sequence_id' = active_sequence_id
      BY <2>9 DEF WaitPolls
    <3> QED BY <2>9, <3>1, <3>2, <3>3 DEF WaitPolls
  <2>10. CASE ForgetPath(g)      BY <2>10, ExecTypes DEF ForgetPath, BusyUntilReleased
  <2>11. CASE ReleaseState(g)    BY <2>11, ExecTypes DEF ReleaseState
  <2>12. CASE ReleaseServer(g)   BY <2>12, ExecTypes DEF ReleaseServer
  <2> QED BY <1>4, <2>1, <2>2, <2>3, <2>4, <2>5, <2>6, <2>7, <2>8, <2>9,
             <2>10, <2>11, <2>12 DEF execute_callback
<1>5. ASSUME NEW g \in Goals, BridgeAnswers(g) PROVE TypeOK'
  BY <1>5 DEF BridgeAnswers, PathStates
<1>6. ASSUME NEW g \in Goals, BridgeFinishes(g) PROVE TypeOK'
  <2>1. /\ path \in [Goals -> PathStates] /\ finished \in [Goals -> Nat]
        /\ BlockOf(g).end \in Places
    BY BlockFields DEF TypeOK
  <2> HIDE DEF TypeOK
  <2>2. path' \in [Goals -> PathStates]
    <3>1. {"succeeded", "failed", "canceled"} \subseteq PathStates
      BY DEF PathStates
    <3> QED BY <1>6, <2>1, <3>1 DEF BridgeFinishes
  <2>3. finished[g] + 1 \in Nat
    BY <2>1
  <2>4. finished' \in [Goals -> Nat]
    BY <1>6, <2>1, <2>3 DEF BridgeFinishes
  <2>5. arm' \in Places /\ feedback' \in Places \cup {Stale}
    BY <1>6, <2>1 DEF BridgeFinishes
  <2> QED BY <1>6, <2>2, <2>4, <2>5 DEF BridgeFinishes, TypeOK, execVars, cancelVars, stateVars
<1>7. CASE joint_state_callback \/ FeedbackTimeout \/ OtherMotion
  BY <1>7 DEF joint_state_callback, FeedbackTimeout, OtherMotion
<1>8. CASE UNCHANGED sequenceVars
  BY <1>8 DEF sequenceVars
<1> QED
  BY <1>1, <1>2, <1>3, <1>4, <1>5, <1>6, <1>7, <1>8 DEF Next, Environment
-----------------------------------------------------------------------------
(* The execution of one goal changes no other goal, and no other is         *)
(* executed.                                                               *)
LEMMA OnlyExecuting ==
  ASSUME Inv, NEW g \in Goals, execute_callback(g)
  PROVE  /\ Executing(g) /\ busy
         /\ request' = request /\ finished' = finished
         /\ arm' = arm /\ feedback' = feedback
         /\ \A h \in Goals \ {g} :
              /\ ~Executing(h)
              /\ step'[h] = step[h] /\ index'[h] = index[h]
              /\ outcome'[h] = outcome[h] /\ path'[h] = path[h]
<1>1. execute_callback(g) /\ TypeOK /\ LockInv
  BY DEF Inv
<1>2. Executing(g) /\ request' = request /\ finished' = finished /\ arm' = arm
      /\ feedback' = feedback
  BY <1>1 DEF execute_callback, StartExecution, NextBlock, check_start, SendPath,
     PathAnswered, PathResult, PathCompleted, WaitChecksCancel, WaitPolls,
     ForgetPath, ReleaseState, ReleaseServer, Executing, pathVars, armVars
<1>3. ASSUME NEW h \in Goals \ {g}
      PROVE  /\ step'[h] = step[h] /\ index'[h] = index[h]
             /\ outcome'[h] = outcome[h] /\ path'[h] = path[h]
  <2> USE DEF TypeOK, Go, End, NextPath, pathVars
  <2>1. CASE StartExecution(g)
    BY <2>1, <1>1 DEF StartExecution
  <2>2. CASE NextBlock(g)
    BY <2>2, <1>1 DEF NextBlock, TopOfLoop
  <2>3. CASE check_start(g)
    BY <2>3, <1>1 DEF check_start
  <2>4. CASE SendPath(g)
    BY <2>4, <1>1 DEF SendPath
  <2>5. CASE PathAnswered(g)
    BY <2>5, <1>1 DEF PathAnswered, AnswerOfPath
  <2>6. CASE PathResult(g)
    BY <2>6, <1>1 DEF PathResult, ResultOfPath, ResultHere
  <2>7. CASE PathCompleted(g)
    BY <2>7, <1>1 DEF PathCompleted, WaitsAfter, BeginWait
  <2>8. CASE WaitChecksCancel(g)
    BY <2>8, <1>1 DEF WaitChecksCancel, CancelEndsWait
  <2>9. CASE WaitPolls(g)
    BY <2>9, <1>1 DEF WaitPolls
  <2>10. CASE ForgetPath(g)
    BY <2>10, <1>1 DEF ForgetPath, BusyUntilReleased
  <2>11. CASE ReleaseState(g)
    BY <2>11, <1>1 DEF ReleaseState
  <2>12. CASE ReleaseServer(g)
    BY <2>12, <1>1 DEF ReleaseServer
  <2> QED BY <1>1, <2>1, <2>2, <2>3, <2>4, <2>5, <2>6, <2>7, <2>8, <2>9, <2>10, <2>11, <2>12 DEF execute_callback
<1> QED BY <1>1, <1>2, <1>3 DEF LockInv

LEMMA LockStep == Inv /\ [Next]_sequenceVars => LockInv'
<1> SUFFICES ASSUME Inv, [Next]_sequenceVars PROVE LockInv'
  OBVIOUS
<1> USE DEF Inv, LockInv, Executing
<1>1. ASSUME NEW g \in Goals, goal_callback(g) PROVE LockInv'
  BY <1>1 DEF goal_callback, TypeOK
<1>2. ASSUME NEW g \in Goals, execute_callback(g) PROVE LockInv'
  <2>1. /\ Executing(g) /\ busy
        /\ \A h \in Goals \ {g} : ~Executing(h) /\ step'[h] = step[h]
    BY <1>2, OnlyExecuting
  <2>2. ~busy' => step'[g] = "ended"
    BY <1>2, <2>1 DEF execute_callback, StartExecution, NextBlock, check_start,
       SendPath, PathAnswered, PathResult, PathCompleted, WaitChecksCancel,
       WaitPolls, ForgetPath, BusyUntilReleased, ReleaseState, ReleaseServer,
       Go, TypeOK
  <2> QED BY <2>1, <2>2
<1>3. ASSUME UNCHANGED <<busy, step>> PROVE LockInv'
  BY <1>3
<1>4. ASSUME NEW id, NEW p, signal_sequence(id, p) PROVE LockInv'
  BY <1>3, <1>4 DEF signal_sequence, execVars
<1>5. ASSUME NEW g \in Goals, CancelArrives(g) \/ cancel_callback(g) PROVE LockInv'
  BY <1>3, <1>5 DEF CancelArrives, cancel_callback, CancelChecks,
     CancelForwards, CancelFlags, CancelAccepted, execVars
<1>6. CASE Environment
  BY <1>3, <1>6 DEF Environment, joint_state_callback, FeedbackTimeout,
     OtherMotion, BridgeAnswers, BridgeFinishes, execVars
<1>7. CASE UNCHANGED sequenceVars
  BY <1>3, <1>7 DEF sequenceVars, execVars
<1> QED BY <1>1, <1>2, <1>4, <1>5, <1>6, <1>7 DEF Next

(* What the finally block, the wait and the services do to the shared state.*)
LEMMA StateStep == Inv /\ [Next]_sequenceVars => StateInv'
<1> SUFFICES ASSUME Inv, [Next]_sequenceVars PROVE StateInv'
  OBVIOUS
<1>0. /\ step \in [Goals -> Steps] /\ index \in [Goals -> Nat \ {0}]
      /\ StateInv
  BY DEF Inv, TypeOK
<1> USE DEF StateInv, Executing
<1>1. ASSUME NEW g \in Goals, goal_callback(g) PROVE StateInv'
  <2>1. waiting_after_path = 0
    <3>1. \A h \in Goals : ~Executing(h)
      BY <1>1 DEF goal_callback, Inv, LockInv
    <3> QED BY <1>0, <3>1
  <2> QED BY <1>0, <1>1, <2>1 DEF goal_callback, stateVars
<1>2. ASSUME NEW g \in Goals, execute_callback(g) PROVE StateInv'
  <2>0. /\ Executing(g) /\ request' = request
        /\ \A h \in Goals \ {g} : ~Executing(h) /\ step'[h] = step[h]
                                  /\ index'[h] = index[h]
    BY <1>2, OnlyExecuting
  <2>1. CASE StartExecution(g)
    BY <1>0, <2>0, <2>1 DEF StartExecution, Go, End, NextPath, stateVars
  <2>2. CASE NextBlock(g)
    BY <1>0, <2>0, <2>2 DEF NextBlock, TopOfLoop, Go, End, NextPath, stateVars
  <2>3. CASE check_start(g)
    BY <1>0, <2>0, <2>3 DEF check_start, Go, End, NextPath, stateVars
  <2>4. CASE SendPath(g)
    BY <1>0, <2>0, <2>4 DEF SendPath, Go, End, NextPath, stateVars
  <2>5. CASE PathAnswered(g)
    BY <1>0, <2>0, <2>5 DEF PathAnswered, AnswerOfPath, Go, End, NextPath, stateVars
  <2>6. CASE PathResult(g)
    BY <1>0, <2>0, <2>6 DEF PathResult, ResultOfPath, ResultHere, Go, End, NextPath, stateVars
  <2>7. CASE PathCompleted(g)
    BY <1>0, <2>0, <2>7 DEF PathCompleted, WaitsAfter, BeginWait, Go, End, NextPath, stateVars
  <2>8. CASE WaitChecksCancel(g)
    BY <1>0, <2>0, <2>8 DEF WaitChecksCancel, CancelEndsWait, Go, End, NextPath, stateVars
  <2>9. CASE WaitPolls(g)
    BY <1>0, <2>0, <2>9 DEF WaitPolls, Go, End, NextPath, stateVars
  <2>10. CASE ForgetPath(g)
    BY <1>0, <2>0, <2>10 DEF ForgetPath, BusyUntilReleased, Go, End, NextPath, stateVars
  <2>11. CASE ReleaseState(g)
    BY <1>0, <2>0, <2>11 DEF ReleaseState, Go, End, NextPath, stateVars
  <2>12. CASE ReleaseServer(g)
    BY <1>0, <2>0, <2>12 DEF ReleaseServer, Go, End, NextPath, stateVars
  <2> QED BY <1>2, <2>1, <2>2, <2>3, <2>4, <2>5, <2>6, <2>7, <2>8, <2>9, <2>10, <2>11, <2>12 DEF execute_callback
<1>3. ASSUME UNCHANGED <<request, step, index, active_path_goal, active_sequence_id,
                         waiting_after_path>> PROVE StateInv'
  BY <1>0, <1>3
<1>4. ASSUME NEW id, NEW p, signal_sequence(id, p) PROVE StateInv'
  BY <1>3, <1>4 DEF signal_sequence, execVars, pathVars, armVars
<1>5. ASSUME NEW g \in Goals, CancelArrives(g) \/ cancel_callback(g) PROVE StateInv'
  BY <1>3, <1>5 DEF CancelArrives, cancel_callback, CancelChecks,
     CancelForwards, CancelFlags, CancelAccepted, stateVars, execVars, pathVars, armVars
<1>6. CASE Environment
  BY <1>3, <1>6 DEF Environment, joint_state_callback, FeedbackTimeout,
     OtherMotion, BridgeAnswers, BridgeFinishes, stateVars, execVars
<1>7. CASE UNCHANGED sequenceVars
  BY <1>3, <1>7 DEF sequenceVars, stateVars, execVars
<1> QED BY <1>1, <1>2, <1>4, <1>5, <1>6, <1>7 DEF Next

(* Where a step of an execution leaves its own goal: it sends a PATH only    *)
(* after the check, and goes on to the next one only after a wait or the    *)
(* result of the last.                                                     *)
LEMMA ExecMoves ==
  ASSUME TypeOK, NEW g \in Goals, execute_callback(g)
  PROVE  /\ index'[g] = index[g] \/ step[g] \in {"completed", "polling"}
         /\ step'[g] = "send" =>
              step[g] = "check" /\ (request[g].checked => StartFits(g))
         /\ path'[g] = path[g] \/ (step[g] = "send" /\ path'[g] = "sent")
         /\ step'[g] \notin {"idle", "start"}
         /\ step'[g] = "check" => ~cancel_requested[g]
         /\ step'[g] = "sending" => step[g] = "send"
         /\ UNCHANGED cancelVars
<1> USE DEF TypeOK, Go, End, NextPath, pathVars
<1>1. CASE StartExecution(g)
  BY <1>1 DEF StartExecution
<1>2. CASE NextBlock(g)
  BY <1>2 DEF NextBlock, TopOfLoop
<1>3. CASE check_start(g)
  BY <1>3 DEF check_start
<1>4. CASE SendPath(g)
  BY <1>4 DEF SendPath
<1>5. CASE PathAnswered(g)
  BY <1>5 DEF PathAnswered, AnswerOfPath
<1>6. CASE PathResult(g)
  BY <1>6 DEF PathResult, ResultOfPath, ResultHere
<1>7. CASE PathCompleted(g)
  BY <1>7 DEF PathCompleted
<1>8. CASE WaitChecksCancel(g)
  BY <1>8 DEF WaitChecksCancel, CancelEndsWait
<1>9. CASE WaitPolls(g)
  BY <1>9 DEF WaitPolls
<1>10. CASE ForgetPath(g)
  BY <1>10 DEF ForgetPath
<1>11. CASE ReleaseState(g)
  BY <1>11 DEF ReleaseState
<1>12. CASE ReleaseServer(g)
  BY <1>12 DEF ReleaseServer
<1> QED BY <1>1, <1>2, <1>3, <1>4, <1>5, <1>6, <1>7, <1>8, <1>9,
           <1>10, <1>11, <1>12 DEF execute_callback

LEMMA PathStep == Inv /\ [Next]_sequenceVars => PathInv'
<1> SUFFICES ASSUME Inv, [Next]_sequenceVars PROVE PathInv'
  OBVIOUS
<1>0. /\ step \in [Goals -> Steps] /\ outcome \in [Goals -> Outcomes]
      /\ path \in [Goals -> PathStates] /\ PathInv
  BY DEF Inv, TypeOK
<1> USE DEF PathInv, PathIsAwaited
<1>1. ASSUME NEW g \in Goals, goal_callback(g) PROVE PathInv'
  BY <1>0, <1>1 DEF goal_callback, pathVars
<1>2. ASSUME NEW g \in Goals, execute_callback(g) PROVE PathInv'
  <2>0. \A h \in Goals \ {g} : /\ step'[h] = step[h] /\ path'[h] = path[h]
                               /\ outcome'[h] = outcome[h]
    BY <1>2, OnlyExecuting
  <2> SUFFICES PathIsAwaited(g)'
    <3>1. \A h \in Goals \ {g} : PathIsAwaited(h)'
      BY <1>0, <2>0
    <3> QED BY <3>1 DEF PathIsAwaited
  <2>g. PathIsAwaited(g)
    BY <1>0
  <2> USE <1>0, <2>g DEF Go, End, NextPath, pathVars
  <2> HIDE DEF PathInv
  <2>1. CASE StartExecution(g)
    BY <2>1 DEF StartExecution
  <2>2. CASE NextBlock(g)
    BY <2>2 DEF NextBlock, TopOfLoop
  <2>3. CASE check_start(g)
    BY <2>3 DEF check_start
  <2>4. CASE SendPath(g)
    BY <2>4 DEF SendPath
  <2>5. CASE PathAnswered(g)
    BY <2>5 DEF PathAnswered, AnswerOfPath
  <2>6. CASE PathResult(g)
    BY <2>6 DEF PathResult, ResultOfPath, ResultHere
  <2>7. CASE PathCompleted(g)
    BY <2>7 DEF PathCompleted
  <2>8. CASE WaitChecksCancel(g)
    BY <2>8 DEF WaitChecksCancel, CancelEndsWait
  <2>9. CASE WaitPolls(g)
    BY <2>9 DEF WaitPolls
  <2>10. CASE ForgetPath(g)
    BY <2>10 DEF ForgetPath
  <2>11. CASE ReleaseState(g)
    BY <2>11 DEF ReleaseState
  <2>12. CASE ReleaseServer(g)
    BY <2>12 DEF ReleaseServer
  <2> QED BY <1>2, <2>1, <2>2, <2>3, <2>4, <2>5, <2>6, <2>7, <2>8, <2>9, <2>10,
             <2>11, <2>12 DEF execute_callback
<1>3. ASSUME UNCHANGED <<step, path, outcome>> PROVE PathInv'
  BY <1>0, <1>3
<1>4. ASSUME NEW id, NEW p, signal_sequence(id, p) PROVE PathInv'
  BY <1>3, <1>4 DEF signal_sequence, execVars, pathVars, armVars
<1>5. ASSUME NEW g \in Goals, CancelArrives(g) \/ cancel_callback(g) PROVE PathInv'
  BY <1>3, <1>5 DEF CancelArrives, cancel_callback, CancelChecks,
     CancelForwards, CancelFlags, CancelAccepted, stateVars, execVars, pathVars, armVars
<1>6. ASSUME NEW g \in Goals, BridgeAnswers(g) \/ BridgeFinishes(g) PROVE PathInv'
  BY <1>0, <1>6 DEF BridgeAnswers, BridgeFinishes, execVars
<1>7. CASE joint_state_callback \/ FeedbackTimeout \/ OtherMotion
  BY <1>3, <1>7 DEF joint_state_callback, FeedbackTimeout, OtherMotion,
     execVars, pathVars
<1>8. CASE UNCHANGED sequenceVars
  BY <1>3, <1>8 DEF sequenceVars, execVars, pathVars
<1> QED BY <1>1, <1>2, <1>4, <1>5, <1>6, <1>7, <1>8 DEF Next, Environment

(* The count of finished PATHs follows the index.                          *)
LEMMA CountStep == Inv /\ [Next]_sequenceVars => CountInv'
<1> SUFFICES ASSUME Inv, [Next]_sequenceVars PROVE CountInv'
  OBVIOUS
<1>0. /\ step \in [Goals -> Steps] /\ index \in [Goals -> Nat \ {0}]
      /\ path \in [Goals -> PathStates] /\ finished \in [Goals -> Nat]
      /\ outcome \in [Goals -> Outcomes]
      /\ PathInv /\ CountInv
      /\ \A g \in Goals : Len(request[g].blocks) \in Nat
  BY RequestFields DEF Inv, TypeOK, BlocksOf
<1> USE DEF CountInv, CountIsIndex, BlocksOf
<1>1. ASSUME NEW g \in Goals, goal_callback(g) PROVE CountInv'
  BY <1>0, <1>1 DEF goal_callback, pathVars
<1>2. ASSUME NEW g \in Goals, execute_callback(g) PROVE CountInv'
  <2>0. /\ request' = request /\ finished' = finished
        /\ \A h \in Goals \ {g} : /\ step'[h] = step[h] /\ path'[h] = path[h]
                                  /\ index'[h] = index[h]
    BY <1>2, OnlyExecuting
  <2> SUFFICES CountIsIndex(g)'
    <3>1. \A h \in Goals \ {g} : CountIsIndex(h)'
      BY <1>0, <2>0
    <3> QED BY <3>1 DEF CountIsIndex
  <2>g. CountIsIndex(g) /\ PathIsAwaited(g) /\ Len(BlocksOf(g)) \in Nat
    BY <1>0 DEF PathInv
  <2> HIDE DEF CountInv
  <2> USE <1>0, <2>0, <2>g DEF Go, End, pathVars
  <2>1. CASE StartExecution(g)
    BY <2>1 DEF StartExecution
  <2>2. CASE NextBlock(g)
    BY <2>2 DEF NextBlock, TopOfLoop
  <2>3. CASE check_start(g)
    BY <2>3 DEF check_start
  <2>4. CASE SendPath(g)
    BY <2>4 DEF SendPath
  <2>5. CASE PathAnswered(g)
    BY <2>5 DEF PathAnswered, AnswerOfPath, PathIsAwaited
  <2>6. CASE PathResult(g)
    BY <2>6 DEF PathResult, ResultOfPath, PathIsAwaited
  <2>7. CASE PathCompleted(g)
    <3>1. step[g] = "completed" /\ finished[g] = index[g] /\ path' = path
      BY <2>7 DEF PathCompleted
    <3>2. CASE WaitsAfter(g) /\ Go(g, "waiting")
      BY <3>1, <3>2 DEF WaitsAfter
    <3>3. CASE index[g] < Len(BlocksOf(g)) /\ NextPath(g)
      <4>1. index[g] + 1 \in 1 .. Len(BlocksOf(g))
        BY <3>3
      <4> QED BY <3>1, <3>3, <4>1 DEF NextPath
    <3>4. CASE End(g, "succeeded")
      BY <3>1, <3>4
    <3> QED BY <2>7, <3>2, <3>3, <3>4 DEF PathCompleted
  <2>8. CASE WaitChecksCancel(g)
    BY <2>8 DEF WaitChecksCancel, CancelEndsWait
  <2>9. CASE WaitPolls(g)
    <3>1. /\ step[g] = "polling" /\ finished[g] = index[g]
          /\ index[g] + 1 \in 1 .. Len(BlocksOf(g))
      BY <2>9 DEF WaitPolls
    <3>2. CASE NextPath(g)
      BY <3>1, <3>2 DEF NextPath
    <3>3. CASE Go(g, "waiting")
      BY <3>1, <3>3
    <3> QED BY <2>9, <3>2, <3>3 DEF WaitPolls
  <2>10. CASE ForgetPath(g)     BY <2>10 DEF ForgetPath
  <2>11. CASE ReleaseState(g)   BY <2>11 DEF ReleaseState
  <2>12. CASE ReleaseServer(g)  BY <2>12 DEF ReleaseServer
  <2> QED BY <1>2, <2>1, <2>2, <2>3, <2>4, <2>5, <2>6, <2>7, <2>8, <2>9, <2>10, <2>11, <2>12 DEF execute_callback
<1>3. ASSUME UNCHANGED <<request, step, index, path, finished>> PROVE CountInv'
  BY <1>0, <1>3
<1>4. ASSUME NEW id, NEW p, signal_sequence(id, p) PROVE CountInv'
  BY <1>3, <1>4 DEF signal_sequence, execVars, pathVars, armVars
<1>5. ASSUME NEW g \in Goals, CancelArrives(g) \/ cancel_callback(g) PROVE CountInv'
  BY <1>3, <1>5 DEF CancelArrives, cancel_callback, CancelChecks,
     CancelForwards, CancelFlags, CancelAccepted, stateVars, execVars, pathVars, armVars
<1>6. ASSUME NEW g \in Goals, BridgeAnswers(g) \/ BridgeFinishes(g) PROVE CountInv'
  <2>1. step[g] \in {"sending", "running"} /\ path[g] \in {"sent", "accepted"}
    BY <1>0, <1>6 DEF BridgeAnswers, BridgeFinishes, PathInv, PathIsAwaited
  <2>2. UNCHANGED <<request, step, index>>
    BY <1>6 DEF BridgeAnswers, BridgeFinishes, execVars
  <2>3. \A h \in Goals \ {g} : path'[h] = path[h] /\ finished'[h] = finished[h]
    BY <1>0, <1>6 DEF BridgeAnswers, BridgeFinishes
  <2>4. finished'[g] = IF path'[g] = "succeeded" THEN finished[g] + 1 ELSE finished[g]
    BY <1>0, <1>6 DEF BridgeAnswers, BridgeFinishes
  <2>5. CountIsIndex(g)'
    BY <1>0, <2>1, <2>2, <2>4
  <2>6. \A h \in Goals \ {g} : CountIsIndex(h)'
    BY <1>0, <2>2, <2>3
  <2> QED BY <2>5, <2>6 DEF CountIsIndex
<1>7. CASE joint_state_callback \/ FeedbackTimeout \/ OtherMotion
  BY <1>3, <1>7 DEF joint_state_callback, FeedbackTimeout, OtherMotion,
     execVars, pathVars
<1>8. CASE UNCHANGED sequenceVars
  BY <1>3, <1>8 DEF sequenceVars, execVars, pathVars
<1> QED BY <1>1, <1>2, <1>4, <1>5, <1>6, <1>7, <1>8 DEF Next, Environment

LEMMA SuccessStep == Inv /\ [Next]_sequenceVars => SuccessMeansAll'
<1> SUFFICES ASSUME Inv, [Next]_sequenceVars PROVE SuccessMeansAll'
  OBVIOUS
<1>0. /\ step \in [Goals -> Steps] /\ outcome \in [Goals -> Outcomes]
      /\ finished \in [Goals -> Nat]
      /\ PathInv /\ CountInv /\ SuccessMeansAll
  BY DEF Inv, TypeOK
<1> USE DEF SuccessMeansAll, BlocksOf
<1>1. ASSUME NEW g \in Goals, goal_callback(g) PROVE SuccessMeansAll'
  BY <1>0, <1>1 DEF goal_callback, pathVars
<1>2. ASSUME NEW g \in Goals, execute_callback(g) PROVE SuccessMeansAll'
  <2>0. /\ request' = request /\ finished' = finished
        /\ \A h \in Goals \ {g} : outcome'[h] = outcome[h]
    BY <1>2, OnlyExecuting
  <2>1. CASE StartExecution(g)
    BY <1>0, <2>0, <2>1 DEF StartExecution, Go, End, NextPath, CountInv, CountIsIndex
  <2>2. CASE NextBlock(g)
    BY <1>0, <2>0, <2>2 DEF NextBlock, TopOfLoop, Go, End, NextPath, CountInv, CountIsIndex
  <2>3. CASE check_start(g)
    BY <1>0, <2>0, <2>3 DEF check_start, Go, End, NextPath, CountInv, CountIsIndex
  <2>4. CASE SendPath(g)
    BY <1>0, <2>0, <2>4 DEF SendPath, Go, End, NextPath, CountInv, CountIsIndex
  <2>5. CASE PathAnswered(g)
    BY <1>0, <2>0, <2>5 DEF PathAnswered, AnswerOfPath, Go, End, NextPath, CountInv, CountIsIndex
  <2>6. CASE PathResult(g)
    BY <1>0, <2>0, <2>6 DEF PathResult, ResultOfPath, ResultHere, Go, End, NextPath, CountInv, CountIsIndex
  <2>7. CASE PathCompleted(g)
    BY <1>0, <2>0, <2>7 DEF PathCompleted, WaitsAfter, BeginWait, Go, End, NextPath, CountInv, CountIsIndex
  <2>8. CASE WaitChecksCancel(g)
    BY <1>0, <2>0, <2>8 DEF WaitChecksCancel, CancelEndsWait, Go, End, NextPath, CountInv, CountIsIndex
  <2>9. CASE WaitPolls(g)
    BY <1>0, <2>0, <2>9 DEF WaitPolls, Go, End, NextPath, CountInv, CountIsIndex
  <2>10. CASE ForgetPath(g)
    BY <1>0, <2>0, <2>10 DEF ForgetPath, BusyUntilReleased, Go, End, NextPath, CountInv, CountIsIndex
  <2>11. CASE ReleaseState(g)
    BY <1>0, <2>0, <2>11 DEF ReleaseState, Go, End, NextPath, CountInv, CountIsIndex
  <2>12. CASE ReleaseServer(g)
    BY <1>0, <2>0, <2>12 DEF ReleaseServer, Go, End, NextPath, CountInv, CountIsIndex
  <2> QED BY <1>2, <2>1, <2>2, <2>3, <2>4, <2>5, <2>6, <2>7, <2>8, <2>9, <2>10, <2>11, <2>12 DEF execute_callback
<1>3. ASSUME UNCHANGED <<request, outcome, finished>> PROVE SuccessMeansAll'
  BY <1>0, <1>3
<1>4. ASSUME NEW id, NEW p, signal_sequence(id, p) PROVE SuccessMeansAll'
  BY <1>3, <1>4 DEF signal_sequence, execVars, pathVars, armVars
<1>5. ASSUME NEW g \in Goals, CancelArrives(g) \/ cancel_callback(g) PROVE SuccessMeansAll'
  BY <1>3, <1>5 DEF CancelArrives, cancel_callback, CancelChecks,
     CancelForwards, CancelFlags, CancelAccepted, stateVars, execVars, pathVars, armVars
<1>6. ASSUME NEW g \in Goals, BridgeAnswers(g) \/ BridgeFinishes(g)
      PROVE  SuccessMeansAll'
  <2>1. outcome[g] = "none"
    BY <1>0, <1>6 DEF BridgeAnswers, BridgeFinishes, PathInv, PathIsAwaited
  <2> QED BY <1>0, <1>6, <2>1 DEF BridgeAnswers, BridgeFinishes, execVars
<1>7. CASE joint_state_callback \/ FeedbackTimeout \/ OtherMotion
  BY <1>3, <1>7 DEF joint_state_callback, FeedbackTimeout, OtherMotion,
     execVars, pathVars
<1>8. CASE UNCHANGED sequenceVars
  BY <1>3, <1>8 DEF sequenceVars, execVars, pathVars
<1> QED BY <1>1, <1>2, <1>4, <1>5, <1>6, <1>7, <1>8 DEF Next, Environment

(* The arm is moved by others only while no PATH is checked, sent or        *)
(* followed.                                                               *)
LEMMA PlaceStep == Inv /\ [Next]_sequenceVars => PlaceInv' /\ PathStartsInPlace'
<1> SUFFICES ASSUME Inv, [Next]_sequenceVars
             PROVE  PlaceInv' /\ PathStartsInPlace'
  OBVIOUS
<1>0. /\ step \in [Goals -> Steps] /\ index \in [Goals -> Nat \ {0}]
      /\ path \in [Goals -> PathStates] /\ PathInv /\ LockInv /\ StateInv
      /\ PlaceInv /\ PathStartsInPlace
  BY DEF Inv, TypeOK
<1>a. \A g \in Goals : request[g].checked => BlockOf(g).start # Stale
  BY BlockFields DEF Inv
<1> USE DEF PlaceInv, PathStartsInPlace, BlockOf, BlocksOf
<1>1. ASSUME NEW g \in Goals, goal_callback(g)
      PROVE  PlaceInv' /\ PathStartsInPlace'
  BY <1>0, <1>1 DEF goal_callback, pathVars, armVars
<1>2. ASSUME NEW g \in Goals, execute_callback(g)
      PROVE  PlaceInv' /\ PathStartsInPlace'
  <2>1. /\ request' = request /\ arm' = arm /\ feedback' = feedback
        /\ \A h \in Goals \ {g} : /\ step'[h] = step[h] /\ path'[h] = path[h]
                                  /\ index'[h] = index[h]
    BY <1>2, OnlyExecuting
  <2>2. /\ index'[g] = index[g] \/ step[g] \in {"completed", "polling"}
        /\ step'[g] = "send" =>
             step[g] = "check" /\ (request[g].checked => StartFits(g))
        /\ path'[g] = path[g] \/ (step[g] = "send" /\ path'[g] = "sent")
    BY <1>2, ExecMoves DEF Inv
  <2>3. path[g] \in {"sent", "accepted"} => step[g] \in {"sending", "running"}
    BY <1>0 DEF PathInv, PathIsAwaited
  <2>4. request[g].checked /\ step'[g] = "send" => arm' = BlockOf(g)'.start
    BY <1>0, <1>a, <2>1, <2>2 DEF StartFits
  <2>5. request[g].checked /\ path'[g] \in {"sent", "accepted"} =>
          arm' = BlockOf(g)'.start
    BY <1>0, <2>1, <2>2, <2>3
  <2>6. ASSUME NEW h \in Goals \ {g}, request[h].checked
        PROVE  /\ step'[h] = "send" => arm' = BlockOf(h)'.start
               /\ path'[h] \in {"sent", "accepted"} => arm' = BlockOf(h)'.start
    BY <1>0, <2>1, <2>6
  <2>7. feedback' # Stale => feedback' = arm'
    BY <1>0, <2>1
  <2> QED BY <2>1, <2>4, <2>5, <2>6, <2>7
<1>3. ASSUME UNCHANGED <<request, step, index, path, arm, feedback>> PROVE PlaceInv' /\ PathStartsInPlace'
  BY <1>0, <1>3
<1>4. ASSUME NEW id, NEW p, signal_sequence(id, p) PROVE PlaceInv' /\ PathStartsInPlace'
  BY <1>3, <1>4 DEF signal_sequence, execVars, pathVars, armVars
<1>5. ASSUME NEW g \in Goals, CancelArrives(g) \/ cancel_callback(g) PROVE PlaceInv' /\ PathStartsInPlace'
  BY <1>3, <1>5 DEF CancelArrives, cancel_callback, CancelChecks,
     CancelForwards, CancelFlags, CancelAccepted, stateVars, execVars, pathVars, armVars
<1>6. ASSUME NEW g \in Goals, BridgeAnswers(g) PROVE PlaceInv' /\ PathStartsInPlace'
  BY <1>0, <1>6 DEF BridgeAnswers, execVars, armVars
<1>7. ASSUME NEW g \in Goals, BridgeFinishes(g) PROVE PlaceInv' /\ PathStartsInPlace'
  <2>1. step[g] \in {"sending", "running"}
    BY <1>0, <1>7 DEF BridgeFinishes, PathInv, PathIsAwaited
  <2>2. \A h \in Goals \ {g} : step[h] # "send" /\ path[h] \notin {"sent", "accepted"}
    BY <1>0, <2>1 DEF LockInv, Executing, PathInv, PathIsAwaited
  <2> QED BY <1>0, <1>7, <2>1, <2>2 DEF BridgeFinishes, execVars
<1>8. CASE joint_state_callback \/ FeedbackTimeout
  BY <1>0, <1>8 DEF joint_state_callback, FeedbackTimeout, execVars, pathVars
<1>9. CASE OtherMotion
  <2>1. \A g \in Goals : step[g] \notin {"send", "sending", "running"}
    <3>1. CASE ~busy
      BY <1>0, <3>1 DEF LockInv, Executing
    <3>2. CASE waiting_after_path # 0
      BY <1>0, <3>2 DEF LockInv, StateInv, Executing
    <3> QED BY <1>9, <3>1, <3>2 DEF OtherMotion
  <2>2. \A g \in Goals : path[g] \notin {"sent", "accepted"}
    BY <1>0, <2>1 DEF PathInv, PathIsAwaited
  <2> QED BY <1>0, <1>9, <2>1, <2>2 DEF OtherMotion, execVars, pathVars
<1>10. CASE UNCHANGED sequenceVars
  BY <1>3, <1>10 DEF sequenceVars, execVars, pathVars, armVars
<1> QED BY <1>1, <1>2, <1>4, <1>5, <1>6, <1>7, <1>8, <1>9, <1>10
        DEF Next, Environment

-----------------------------------------------------------------------------
LEMMA InvStep == Inv /\ [Next]_sequenceVars => Inv'
BY TypeStep, LockStep, StateStep, PathStep, CountStep, SuccessStep, PlaceStep
DEF Inv

LEMMA InvAlways == Spec => []Inv
<1> QED BY InvStep, InitInv, PTL DEF Spec

(* Every variable of the server keeps its type.                             *)
THEOREM TypeCorrect == Spec => []TypeOK
<1> QED BY InvAlways, PTL DEF Inv

(* One sequence is executed at a time, and the shared state is its own.     *)
THEOREM OwnState == Spec => []StateIsOwn
<1>1. Inv => StateIsOwn
  BY DEF Inv, LockInv, StateInv, StateIsOwn, Executing
<1> QED BY <1>1, InvAlways, PTL

(* No PATH of a sequence that has ended is on its way to the arm.           *)
THEOREM NoOrphan == Spec => []NoOrphanPath
<1>1. Inv => NoOrphanPath
  BY DEF Inv, PathInv, PathIsAwaited, NoOrphanPath
<1> QED BY <1>1, InvAlways, PTL

(* A sequence that succeeded was followed to its end.                       *)
THEOREM SuccessIsComplete == Spec => []SuccessMeansAll
<1> QED BY InvAlways, PTL DEF Inv

(* A checked PATH begins where it was planned to begin.                     *)
THEOREM CheckedStart == Spec => []PathStartsInPlace
<1> QED BY InvAlways, PTL DEF Inv

-----------------------------------------------------------------------------
(* A cancel that was accepted stays accepted, and a goal that has sent a    *)
(* PATH after it never comes back to the sending of one: the way there      *)
(* leads through the top of the loop, which looks at the cancel.            *)
Sending == {"idle", "start", "check", "send"}

LateOf(g) ==
  /\ cancel_requested[g] => cancel[g] = "done"
  /\ sent_late[g] \in {0, 1}
  /\ sent_late[g] = 1 => cancel_requested[g] /\ step[g] \notin Sending

LateInv == \A g \in Goals : LateOf(g)

HistoryInv == Inv /\ LateInv /\ sent_late \in [Goals -> Nat]

(* What a step does to the step and to the cancel of a goal.                *)
StepStays(g)   == step'[g] = step[g]
CancelStays(g) == cancel_requested'[g] = cancel_requested[g] /\ cancel'[g] = cancel[g]

Advances(g) ==
  \/ step[g] = "idle" /\ step'[g] = "start"
  \/ /\ step'[g] \in Sending =>
          step[g] \in Sending \/ ~cancel_requested[g]
     /\ step'[g] = "sending" => step[g] = "send"

CancelMoves(g) ==
  /\ cancel[g] # "done"
  /\ cancel'[g] = "done" \/ cancel_requested'[g] = cancel_requested[g]

LEMMA GoalMoves ==
  ASSUME Inv, Next, NEW g \in Goals
  PROVE  \/ CancelStays(g) /\ (StepStays(g) \/ Advances(g))
         \/ CancelMoves(g) /\ StepStays(g)
<1>0. /\ cancel_requested \in [Goals -> BOOLEAN] /\ cancel \in [Goals -> CancelSteps]
      /\ step \in [Goals -> Steps]
  BY DEF Inv, TypeOK
<1>1. ASSUME NEW h \in Goals, goal_callback(h)
      PROVE  CancelStays(g) /\ (StepStays(g) \/ Advances(g))
  BY <1>0, <1>1 DEF goal_callback, cancelVars, CancelStays, StepStays, Advances
<1>2. ASSUME NEW h \in Goals, execute_callback(h)
      PROVE  CancelStays(g) /\ (StepStays(g) \/ Advances(g))
  <2>1. /\ h = g => /\ step'[g] = "send" => step[g] = "check"
                    /\ step'[g] \notin {"idle", "start"}
                    /\ step'[g] = "check" => ~cancel_requested[g]
                    /\ step'[g] = "sending" => step[g] = "send"
        /\ UNCHANGED cancelVars
    BY <1>2, ExecMoves DEF Inv
  <2>2. h # g => step'[g] = step[g]
    BY <1>2, OnlyExecuting
  <2>3. CancelStays(g)
    BY <2>1 DEF cancelVars, CancelStays
  <2>4. CASE h # g
    BY <2>2, <2>3, <2>4 DEF StepStays
  <2>5. CASE h = g
    <3>1. /\ step'[g] = "send" => step[g] = "check"
          /\ step'[g] \notin {"idle", "start"}
          /\ step'[g] = "check" => ~cancel_requested[g]
          /\ step'[g] = "sending" => step[g] = "send"
      BY <2>1, <2>5
    <3>2. step'[g] \in Sending => step[g] \in Sending \/ ~cancel_requested[g]
      BY <3>1 DEF Sending
    <3> QED BY <2>3, <3>1, <3>2 DEF Advances
  <2> QED BY <2>4, <2>5
<1>3. ASSUME NEW h \in Goals, CancelArrives(h) \/ cancel_callback(h)
      PROVE  StepStays(g) /\ (CancelStays(g) \/ CancelMoves(g))
  <2>1. StepStays(g)
    BY <1>3 DEF CancelArrives, cancel_callback, CancelChecks, CancelForwards,
       CancelFlags, CancelAccepted, execVars, StepStays
  <2>2. CASE CancelAccepted(h)
    BY <1>0, <2>1, <2>2 DEF CancelAccepted, SetCancel, CancelStays, CancelMoves
  <2>3. CASE CancelArrives(h)
    BY <1>0, <2>1, <2>3 DEF CancelArrives, SetCancel, CancelStays, CancelMoves
  <2>4. CASE CancelChecks(h)
    BY <1>0, <2>1, <2>4 DEF CancelChecks, SetCancel, CancelStays, CancelMoves
  <2>5. CASE CancelForwards(h)
    BY <1>0, <2>1, <2>5 DEF CancelForwards, SetCancel, CancelStays, CancelMoves
  <2>6. CASE CancelFlags(h)
    BY <1>0, <2>1, <2>6 DEF CancelFlags, SetCancel, CancelStays, CancelMoves
  <2> QED BY <1>3, <2>1, <2>2, <2>3, <2>4, <2>5, <2>6 DEF cancel_callback
<1>4. ASSUME NEW id, NEW p, signal_sequence(id, p)
      PROVE  CancelStays(g) /\ StepStays(g)
  BY <1>4 DEF signal_sequence, execVars, cancelVars, CancelStays, StepStays
<1>5. CASE Environment
  BY <1>5 DEF Environment, joint_state_callback, FeedbackTimeout, OtherMotion,
     BridgeAnswers, BridgeFinishes, execVars, cancelVars, CancelStays, StepStays
<1> QED BY <1>1, <1>2, <1>3, <1>4, <1>5 DEF Next

LEMMA LateStep == HistoryInv /\ [HistoryNext]_historyVars => LateInv' /\ sent_late' \in [Goals -> Nat]
<1> SUFFICES ASSUME HistoryInv, [HistoryNext]_historyVars
             PROVE  LateInv' /\ sent_late' \in [Goals -> Nat]
  OBVIOUS
<1>1. CASE UNCHANGED historyVars
  BY <1>1 DEF HistoryInv, historyVars, sequenceVars, cancelVars, execVars, LateInv, LateOf
<1>2. CASE HistoryNext
  <2>1. sent_late' \in [Goals -> Nat]
    BY <1>2 DEF HistoryInv, HistoryNext
  <2>2. ASSUME NEW g \in Goals PROVE LateOf(g)'
    <3>1. \/ CancelStays(g) /\ (StepStays(g) \/ Advances(g))
          \/ CancelMoves(g) /\ StepStays(g)
      BY <1>2, GoalMoves DEF HistoryInv, HistoryNext
    <3>2. LateOf(g)
      BY DEF HistoryInv, LateInv
    <3>3. sent_late'[g] = IF SendsLate(g) THEN sent_late[g] + 1 ELSE sent_late[g]
      BY <1>2 DEF HistoryInv, HistoryNext
    <3>4. CASE CancelMoves(g) /\ StepStays(g)
      BY <3>2, <3>3, <3>4 DEF LateOf, CancelMoves, StepStays, SendsLate
    <3>5. CASE CancelStays(g) /\ StepStays(g)
      BY <3>2, <3>3, <3>5 DEF LateOf, CancelStays, StepStays, SendsLate
    <3>6. CASE CancelStays(g) /\ Advances(g)
      BY <3>2, <3>3, <3>6 DEF LateOf, CancelStays, Advances, SendsLate, Sending
    <3> QED BY <3>1, <3>4, <3>5, <3>6
  <2> QED BY <2>1, <2>2 DEF LateInv
<1> QED BY <1>1, <1>2

(* After its cancel is accepted a sequence sends at most the PATH it was    *)
(* about to send.                                                          *)
THEOREM LatePathIsTheLast == HistorySpec => []CancelSendsAtMostOne
<1>1. HistoryInit => HistoryInv
  <2> SUFFICES ASSUME HistoryInit PROVE HistoryInv
    OBVIOUS
  <2>1. Init /\ sent_late = [g \in Goals |-> 0]
    BY DEF HistoryInit
  <2>2. LateInv /\ sent_late \in [Goals -> Nat]
    BY <2>1 DEF Init, LateInv, LateOf
  <2> QED BY <2>1, <2>2, InitInv DEF HistoryInv
<1>2. HistoryInv /\ [HistoryNext]_historyVars => HistoryInv'
  <2>1. [HistoryNext]_historyVars => [Next]_sequenceVars
    BY DEF HistoryNext, historyVars
  <2> QED BY <2>1, InvStep, LateStep DEF HistoryInv
<1>3. HistoryInv => CancelSendsAtMostOne
  BY DEF HistoryInv, LateInv, LateOf, CancelSendsAtMostOne
<1> QED BY <1>1, <1>2, <1>3, PTL DEF HistorySpec

=============================================================================
