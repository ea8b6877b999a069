---------------------- MODULE MoveItCommandServer_proofs ----------------------
(***************************************************************************)
(* One goal moves the arm at a time, no planning is left to itself, a wait   *)
(* is passed by one signal and what is recorded of a PATH can be executed   *)
(* again: proofs for any number of threads and any requests.  The first is  *)
(* what the others about the flags of the node rest on: they are about the  *)
(* goal of one thread only, though every thread writes them.                *)
(***************************************************************************)
EXTENDS MoveItCommandServer, TLAPS, FiniteSetTheorems, WellFoundedInduction

USE CommandServerAssumption, PathModelAssumption

Flags == [id : 0 .. MaxId, waiting : BOOLEAN, continue : BOOLEAN, cancel : BOOLEAN,
          state : {"EMPTY", "PLANNING", "EXECUTING", "WAITING", "CANCELING", "DONE",
                   "CANCELED", "ERROR"}]

(* Types, and the goal of a thread was validated before it was accepted.   *)
TypeInv ==
  /\ busy \in BOOLEAN
  /\ request \in [Threads -> Requests] /\ step \in [Threads -> Steps]
  /\ path_flags \in Flags
  /\ signals \in [Threads -> Nat] /\ passes \in [Threads -> Nat]
  /\ \A t \in Threads : step[t] # "idle" /\ IsPath(t) => validate_path_goal(PathOf(t))

AtWait == {"waiting", "asleep"}
Over   == {"catch", "conclude", "busy", "active"}

(* A thread at a wait that is open has used up every signal; once signalled *)
(* the wait is not open any more, and the signal is used at most once.      *)
SignalOk(t) ==
  /\ passes[t] <= signals[t] /\ signals[t] <= passes[t] + 1
  /\ step[t] \notin AtWait \cup Over => signals[t] = passes[t]
  /\ step[t] \in AtWait =>
       /\ path_flags.waiting => signals[t] = passes[t]
       /\ path_flags.continue /\ ~path_flags.cancel => signals[t] = passes[t] + 1

SignalInv == \A t \in Threads : SignalOk(t)

OrphanInv == unasked \subseteq Threads /\ NoOrphanPlanning

Inv == TypeInv /\ OneGoal /\ OrphanInv /\ SignalInv

-----------------------------------------------------------------------------
LEMMA InitInv == Init => Inv
<1> SUFFICES ASSUME Init PROVE Inv
  OBVIOUS
<1> USE DEF Init
<1>1. TypeInv
  <2>1. path_flags \in Flags
    BY DEF Flags
  <2>2. (CHOOSE r \in Requests : TRUE) \in Requests
    OBVIOUS
  <2>3. request \in [Threads -> Requests] /\ step \in [Threads -> Steps]
    BY <2>2 DEF Steps
  <2>4. \A t \in Threads : step[t] = "idle"
    OBVIOUS
  <2> QED BY <2>1, <2>3, <2>4 DEF TypeInv
<1>2. OneGoal /\ OrphanInv
  BY DEF OneGoal, Working, OrphanInv, NoOrphanPlanning
<1>3. SignalInv
  BY DEF SignalInv, SignalOk, AtWait, Over
<1> QED BY <1>1, <1>2, <1>3 DEF Inv

(* A thread's step moves that thread alone; it changes nothing of the node's *)
(* busy flag and of its request except as said here.                       *)
LEMMA ThreadMoves ==
  ASSUME TypeInv, NEW t \in Threads, ThreadStep(t) \/ Wakeup(t)
  PROVE  /\ step[t] # "idle"
         /\ \E s \in Steps : step' = [step EXCEPT ![t] = s]
         /\ UNCHANGED busy \/ (step[t] = "busy" /\ busy' = FALSE)
         /\ \/ UNCHANGED request
            \/ /\ step'[t] = "idle" /\ request' \in [Threads -> Requests]
               /\ \A u \in Threads \ {t} : request'[u] = request[u]
         /\ step'[t] \in {"idle", "active"} => step[t] \in {"busy", "active"}
         /\ step[t] = "busy" => step'[t] = "active"
         /\ step[t] = "active" => step'[t] = "idle"
<1> USE DEF TypeInv, Go, End, Throw, Doing, Steps, goalRest, pathRest, pathVars,
            history, planVars, flyVars, goalVars
<1>1. CASE CommandStep(t)
  BY <1>1 DEF CommandStep, read_or_set, set_frame, set_fly, clear_fly_queue,
              add_fly_segment, move, execute_fly_queue, RecordCommand, FinishCommand,
              finish_goal
<1>2. CASE MotionStep(t)
  <2>1. CASE ClearActive(t)
    <3>1. request' \in [Threads -> Requests]
      BY <2>1 DEF ClearActive
    <3> QED BY <2>1, <3>1 DEF ClearActive
  <2>2. CASE ClearBusy(t)
    BY <2>2 DEF ClearBusy
  <2> QED
    BY <1>2, <2>1, <2>2
    DEF MotionStep, SendFails, SendSequence, PlanningCanceled, PlanningEnds, Planned,
        BeginMotion, EndMotion
<1>3. CASE PathStep(t) \/ SpuriousWakeup(t)
  <2>1. CASE ConcludePath(t)
    BY <2>1 DEF ConcludePath
  <2> QED
    BY <1>3, <2>1
    DEF PathStep, BeginPath, PrepareBatch, RecordBatch, BeginWait, Wait, PathDone,
        PathSucceeds, PathFails, SpuriousWakeup
<1> QED BY <1>1, <1>2, <1>3 DEF ThreadStep, Wakeup

(* What a callback does to the threads: one may get a goal, one that sleeps *)
(* may be woken and one that moves may be stopped.                         *)
LEMMA CallbackMoves ==
  ASSUME TypeInv, NodeCallback
  PROVE  /\ step' \in [Threads -> Steps]
         /\ \/ \E t \in Threads, r \in Requests :
                 /\ step' = [step EXCEPT ![t] = "start"] /\ step[t] = "idle"
                 /\ ~busy /\ busy' = TRUE /\ request' = [request EXCEPT ![t] = r]
                 /\ r.op = "path" => validate_path_goal(r.path)
                 /\ UNCHANGED <<path_flags, signals, passes, unasked>>
            \/ /\ UNCHANGED <<busy, request, passes>> /\ unasked' \subseteq unasked
               /\ \A t \in Threads :
                    \/ step'[t] = step[t]
                    \/ step[t] = "asleep" /\ step'[t] = "waiting"
                    \/ step[t] = "moving" /\ step'[t] \in {"catch", "finish"}
<1> USE DEF TypeInv, Go, Steps
<1>1. ASSUME NEW t \in Threads, NEW r \in Requests, handle_goal(t, r)
      PROVE  /\ step' = [step EXCEPT ![t] = "start"] /\ step[t] = "idle"
             /\ ~busy /\ busy' = TRUE /\ request' = [request EXCEPT ![t] = r]
             /\ r.op = "path" => validate_path_goal(r.path)
             /\ UNCHANGED <<path_flags, signals, passes, unasked>>
             /\ step' \in [Threads -> Steps]
  BY <1>1 DEF handle_goal, Free, pathVars, history, planVars
<1>2. CASE \E t \in Threads : CancelArrives(t)
  BY <1>2 DEF CancelArrives, NotifyAll, planVars, history
<1>3. CASE CancelForwards \/ CancelStops \/ CancelAccepted
  BY <1>3 DEF CancelForwards, CancelStops, CancelAccepted, goalVars, planVars, history
<1>4. CASE \E id \in 0 .. MaxId, node \in 0 .. MaxNodes : signal_path(id, node)
  BY <1>4 DEF signal_path, NotifyAll, planVars
<1> QED BY <1>1, <1>2, <1>3, <1>4 DEF NodeCallback

(* What a thread does to its flags and to its counts.                      *)
LEMMA ThreadFlags ==
  ASSUME TypeInv, NEW t \in Threads, ThreadStep(t) \/ Wakeup(t)
  PROVE  /\ path_flags' \in Flags
         /\ signals' \in [Threads -> Nat] /\ passes' \in [Threads -> Nat]
<1> USE DEF TypeInv, Go, End, Throw, goalRest, pathRest, pathVars, history, Flags
<1>1. CASE UNCHANGED <<path_flags, history>>
  BY <1>1
<1>2. CASE Planned(t) \/ BeginWait(t) \/ PathDone(t) \/ PathFails(t)
  <2>1. CASE Planned(t)    BY <2>1 DEF Planned
  <2>2. CASE BeginWait(t)  BY <2>2 DEF BeginWait, WaitFlags
  <2>3. CASE PathDone(t)   BY <2>3 DEF PathDone
  <2>4. CASE PathFails(t)  BY <2>4 DEF PathFails
  <2> QED BY <1>2, <2>1, <2>2, <2>3, <2>4
<1>3. CASE Wait(t)
  <2>1. \/ UNCHANGED <<path_flags, passes>>
        \/ /\ path_flags' = [path_flags EXCEPT !.waiting = FALSE, !.continue = FALSE,
                                                !.state = "EXECUTING"]
           /\ passes' = [passes EXCEPT ![t] = @ + 1]
    BY <1>3 DEF Wait
  <2>2. UNCHANGED signals
    BY <1>3 DEF Wait
  <2>3. path_flags' \in Flags
    BY <2>1
  <2>4. passes' \in [Threads -> Nat]
    <3>1. passes[t] + 1 \in Nat
      OBVIOUS
    <3> QED BY <2>1, <3>1
  <2> QED BY <2>2, <2>3, <2>4
<1>4. CASE BeginPath(t)
  <2>1. PathOf(t).path_id \in 0 .. MaxId
    BY <1>4 DEF BeginPath, Doing, IsPath, validate_path_goal, HeaderValid
  <2> QED BY <1>4, <2>1 DEF BeginPath
<1>5. CASE ClearActive(t)
  BY <1>5 DEF ClearActive
<1> QED
  BY <1>1, <1>2, <1>3, <1>4, <1>5
  DEF ThreadStep, Wakeup, CommandStep, MotionStep, PathStep, read_or_set, set_frame,
      set_fly, clear_fly_queue, add_fly_segment, move, execute_fly_queue,
      RecordCommand, FinishCommand, finish_goal, SendFails, SendSequence,
      PlanningCanceled, PlanningEnds, BeginMotion, EndMotion, ClearBusy,
      PrepareBatch, RecordBatch, PathSucceeds, ConcludePath, SpuriousWakeup

LEMMA CallbackFlags ==
  ASSUME TypeInv, NodeCallback
  PROVE  path_flags' \in Flags /\ signals' \in [Threads -> Nat]
<1> USE DEF TypeInv, history, pathVars, Flags
<1>1. CASE \E id \in 0 .. MaxId, node \in 0 .. MaxNodes : signal_path(id, node)
  <2>1. path_flags' = [path_flags EXCEPT !.continue = TRUE, !.waiting = FALSE,
                                         !.state = "EXECUTING"]
    BY <1>1 DEF signal_path, ContinueFlags
  <2>2. signals' = [t \in Threads |->
          signals[t] + IF step[t] \in {"waiting", "asleep"} THEN 1 ELSE 0]
    BY <1>1 DEF signal_path
  <2>3. signals' \in [Threads -> Nat]
    BY <2>2
  <2>4. path_flags' \in Flags
    BY <2>1
  <2> QED BY <2>3, <2>4
<1>2. CASE \E t \in Threads : CancelArrives(t)
  BY <1>2 DEF CancelArrives
<1>3. CASE \E t \in Threads, r \in Requests : handle_goal(t, r)
  BY <1>3 DEF handle_goal
<1> QED
  BY <1>1, <1>2, <1>3 DEF NodeCallback, CancelForwards, CancelStops, CancelAccepted

-----------------------------------------------------------------------------
LEMMA NextType == TypeInv /\ [Next]_serverVars => TypeInv'
<1> SUFFICES ASSUME TypeInv, [Next]_serverVars PROVE TypeInv'
  OBVIOUS
<1>1. CASE UNCHANGED serverVars
  BY <1>1 DEF serverVars, goalVars, pathVars, history, TypeInv, IsPath, PathOf
<1>2. ASSUME NEW t \in Threads, ThreadStep(t) \/ Wakeup(t) PROVE TypeInv'
  <2>1. busy' \in BOOLEAN /\ request' \in [Threads -> Requests]
        /\ step' \in [Threads -> Steps]
    <3>1. busy' \in BOOLEAN
      BY <1>2, ThreadMoves DEF TypeInv
    <3>2. request' \in [Threads -> Requests]
      BY <1>2, ThreadMoves DEF TypeInv
    <3>3. PICK s \in Steps : step' = [step EXCEPT ![t] = s]
      BY <1>2, ThreadMoves
    <3> QED BY <3>1, <3>2, <3>3 DEF TypeInv
  <2>2. ASSUME NEW u \in Threads, step'[u] # "idle"
        PROVE  step[u] # "idle" /\ request'[u] = request[u]
    <3>1. PICK s \in Steps : step' = [step EXCEPT ![t] = s]
      BY <1>2, ThreadMoves
    <3>2. CASE u = t
      BY <1>2, <2>2, <3>2, ThreadMoves
    <3>3. CASE u # t
      <4>1. step'[u] = step[u]
        BY <3>1, <3>3 DEF TypeInv
      <4>2. request'[u] = request[u]
        BY <1>2, <3>3, ThreadMoves
      <4> QED BY <2>2, <4>1, <4>2
    <3> QED BY <3>2, <3>3
  <2>3. \A u \in Threads : step'[u] # "idle" /\ IsPath(u)' => validate_path_goal(PathOf(u)')
    BY <2>2 DEF TypeInv, IsPath, PathOf
  <2> QED BY <1>2, <2>1, <2>3, ThreadFlags DEF TypeInv
<1>3. CASE NodeCallback
  <2>1. busy' \in BOOLEAN /\ request' \in [Threads -> Requests]
        /\ passes' \in [Threads -> Nat]
    BY <1>3, CallbackMoves DEF TypeInv
  <2>2. \A u \in Threads : step'[u] # "idle" /\ IsPath(u)' => validate_path_goal(PathOf(u)')
    BY <1>3, CallbackMoves DEF TypeInv, IsPath, PathOf
  <2> QED BY <1>3, <2>1, <2>2, CallbackMoves, CallbackFlags DEF TypeInv
<1> QED BY <1>1, <1>2, <1>3 DEF Next

LEMMA NextOneGoal == TypeInv /\ OneGoal /\ [Next]_serverVars => OneGoal'
<1> SUFFICES ASSUME TypeInv, OneGoal, [Next]_serverVars PROVE OneGoal'
  OBVIOUS
<1> USE DEF OneGoal, Working, TypeInv
<1>1. CASE UNCHANGED serverVars
  BY <1>1 DEF serverVars, goalVars
<1>2. ASSUME NEW t \in Threads, ThreadStep(t) \/ Wakeup(t) PROVE OneGoal'
  <2>0. PICK s \in Steps : step' = [step EXCEPT ![t] = s]
    BY <1>2, ThreadMoves
  <2>1. ASSUME NEW u \in Threads, Working(u)' PROVE Working(u)
    <3>1. u # t => step'[u] = step[u]
      BY <2>0
    <3>2. step[t] # "idle" /\ (step[t] = "active" => step'[t] = "idle")
      BY <1>2, ThreadMoves
    <3> QED BY <2>1, <3>1, <3>2
  <2>2. ASSUME NEW u \in Threads, Working(u)' PROVE busy'
    <3>1. Working(u) /\ busy
      BY <2>1, <2>2
    <3>2. CASE UNCHANGED busy
      BY <3>1, <3>2
    <3>3. CASE step[t] = "busy"
      <4>1. t = u
        BY <3>1, <3>3
      <4>2. step'[t] = "active"
        BY <1>2, <3>3, ThreadMoves
      <4> QED BY <2>2, <4>1, <4>2
    <3> QED BY <1>2, <3>2, <3>3, ThreadMoves
  <2> QED BY <2>1, <2>2
<1>3. CASE NodeCallback
  BY <1>3, CallbackMoves
<1> QED BY <1>1, <1>2, <1>3 DEF Next

LEMMA NextOrphan == TypeInv /\ OrphanInv /\ [Next]_serverVars => OrphanInv'
<1> SUFFICES ASSUME TypeInv, OrphanInv, [Next]_serverVars PROVE OrphanInv'
  OBVIOUS
<1> USE DEF OrphanInv, NoOrphanPlanning
<1>1. CASE UNCHANGED serverVars
  BY <1>1 DEF serverVars, goalVars, planVars
<1>2. ASSUME NEW t \in Threads, ThreadStep(t) \/ Wakeup(t) PROVE OrphanInv'
  <2>1. PICK s \in Steps : step' = [step EXCEPT ![t] = s]
    BY <1>2, ThreadMoves
  <2>2. step \in [Threads -> Steps]
    BY DEF TypeInv
  <2>3. ASSUME UNCHANGED unasked, step[t] # "planning" PROVE OrphanInv'
    BY <2>1, <2>2, <2>3
  <2>4. CASE SendSequence(t)
    BY <2>2, <2>4 DEF SendSequence, Go
  <2>5. CASE PlanningCanceled(t) \/ PlanningEnds(t)
    BY <2>1, <2>2, <2>5 DEF PlanningCanceled, PlanningEnds, AskedToCancel
  <2> QED
    BY <1>2, <2>3, <2>4, <2>5
    DEF ThreadStep, Wakeup, CommandStep, MotionStep, PathStep, read_or_set, set_frame,
        set_fly, clear_fly_queue, add_fly_segment, move, execute_fly_queue,
        RecordCommand, FinishCommand, finish_goal, SendFails, Planned,
        BeginMotion, EndMotion, ClearBusy, ClearActive, BeginPath, PrepareBatch,
        RecordBatch, BeginWait, Wait, PathDone, PathSucceeds, PathFails, ConcludePath,
        SpuriousWakeup, Doing, goalRest, pathRest, planVars
<1>3. CASE NodeCallback
  <2>1. unasked' \subseteq unasked
    BY <1>3, CallbackMoves
  <2>2. ASSUME NEW t \in unasked PROVE step'[t] = "planning"
    <3>1. step[t] = "planning" /\ t \in Threads
      BY <2>2
    <3> QED BY <1>3, <3>1, CallbackMoves DEF TypeInv
  <2> QED BY <2>1, <2>2
<1> QED BY <1>1, <1>2, <1>3 DEF Next

-----------------------------------------------------------------------------
(* The counts of the thread that takes the step.                           *)
LEMMA OwnSignals ==
  ASSUME TypeInv, NEW t \in Threads, SignalOk(t), ThreadStep(t) \/ Wakeup(t)
  PROVE  SignalOk(t)'
<1> USE DEF Go, End, Throw, Doing, goalRest, pathRest, pathVars, history, AtWait, Over
<1>0. /\ step \in [Threads -> Steps] /\ path_flags \in Flags
      /\ signals \in [Threads -> Nat] /\ passes \in [Threads -> Nat]
  BY DEF TypeInv
<1>1. ASSUME UNCHANGED history, step[t] \notin AtWait, step'[t] \notin AtWait,
             step[t] \in Over => step'[t] \in Over
      PROVE  SignalOk(t)'
  BY <1>1 DEF SignalOk
<1>2. CASE CommandStep(t)
  BY <1>0, <1>1, <1>2
  DEF CommandStep, read_or_set, set_frame, set_fly, clear_fly_queue, add_fly_segment,
      move, execute_fly_queue, RecordCommand, FinishCommand, finish_goal
<1>3. CASE ClearActive(t)
  BY <1>0, <1>3 DEF ClearActive, SignalOk
<1>4. CASE MotionStep(t) /\ ~ClearActive(t)
  BY <1>0, <1>1, <1>4
  DEF MotionStep, SendFails, SendSequence, PlanningCanceled, PlanningEnds, Planned,
      BeginMotion, EndMotion, ClearBusy
<1>5. CASE BeginWait(t)
  <2>1. signals[t] = passes[t] /\ UNCHANGED history
    BY <1>5 DEF BeginWait, SignalOk
  <2>2. step'[t] = "waiting" /\ path_flags'.waiting /\ ~path_flags'.continue
    BY <1>0, <1>5 DEF BeginWait, WaitFlags, Flags
  <2> QED BY <1>0, <2>1, <2>2 DEF SignalOk
<1>6. CASE Wait(t)
  <2>1. UNCHANGED signals /\ step[t] = "waiting"
    BY <1>6 DEF Wait
  <2>2. CASE Canceled(t)
    <3>1. step'[t] = "catch" /\ UNCHANGED passes
      BY <1>0, <1>6, <2>2 DEF Wait
    <3> QED BY <2>1, <3>1 DEF SignalOk
  <2>3. CASE ~Canceled(t) /\ path_flags.continue
    <3>1. step'[t] = "batch" /\ passes'[t] = passes[t] + 1
      BY <1>0, <1>6, <2>3 DEF Wait
    <3>2. signals[t] = passes[t] + 1
      BY <2>1, <2>3 DEF SignalOk, Canceled
    <3> QED BY <1>0, <2>1, <3>1, <3>2 DEF SignalOk
  <2>4. CASE ~Canceled(t) /\ ~path_flags.continue
    <3>1. step'[t] = "asleep" /\ UNCHANGED <<passes, path_flags>>
      BY <1>0, <1>6, <2>4 DEF Wait
    <3> QED BY <2>1, <3>1 DEF SignalOk
  <2> QED BY <2>2, <2>3, <2>4
<1>7. CASE SpuriousWakeup(t)
  BY <1>0, <1>7 DEF SpuriousWakeup, SignalOk
<1>8. CASE PathStep(t) /\ ~BeginWait(t) /\ ~Wait(t)
  BY <1>0, <1>1, <1>8
  DEF PathStep, BeginPath, PrepareBatch, RecordBatch, PathDone, PathSucceeds, PathFails,
      ConcludePath
<1> QED
  BY <1>2, <1>3, <1>4, <1>5, <1>6, <1>7, <1>8 DEF ThreadStep, Wakeup, MotionStep

(* The counts of the other threads; only a thread that works writes the     *)
(* flags.                                                                  *)
LEMMA OtherSignals ==
  ASSUME TypeInv, NEW t \in Threads, ThreadStep(t) \/ Wakeup(t), NEW u \in Threads \ {t}
  PROVE  /\ step'[u] = step[u] /\ signals'[u] = signals[u] /\ passes'[u] = passes[u]
         /\ step[t] = "active" => UNCHANGED path_flags
<1>1. PICK s \in Steps : step' = [step EXCEPT ![t] = s]
  BY ThreadMoves
<1>2. step'[u] = step[u]
  BY <1>1 DEF TypeInv
<1>3. signals'[u] = signals[u] /\ passes'[u] = passes[u]
  <2>1. CASE UNCHANGED history
    BY <2>1 DEF history
  <2>2. CASE ClearActive(t)
    BY <2>2 DEF ClearActive, TypeInv
  <2>3. CASE Wait(t)
    BY <2>3 DEF Wait, TypeInv
  <2> QED
    BY <2>1, <2>2, <2>3
    DEF ThreadStep, Wakeup, CommandStep, MotionStep, PathStep, read_or_set, set_frame,
        set_fly, clear_fly_queue, add_fly_segment, move, execute_fly_queue,
        RecordCommand, FinishCommand, finish_goal, SendFails, SendSequence,
        PlanningCanceled, PlanningEnds, Planned, BeginMotion, EndMotion, ClearBusy,
        BeginPath, PrepareBatch, RecordBatch, BeginWait, PathDone, PathSucceeds,
        PathFails, ConcludePath, SpuriousWakeup, goalRest, pathRest
<1>4. step[t] = "active" => UNCHANGED path_flags
  BY DEF ThreadStep, Wakeup, CommandStep, MotionStep, PathStep, read_or_set, set_frame,
         set_fly, clear_fly_queue, add_fly_segment, move, execute_fly_queue,
         RecordCommand, FinishCommand, finish_goal, SendFails, SendSequence,
         PlanningCanceled, PlanningEnds, Planned, BeginMotion, EndMotion, ClearBusy,
         ClearActive, BeginPath, PrepareBatch, RecordBatch, BeginWait, Wait, PathDone,
         PathSucceeds, PathFails, ConcludePath, SpuriousWakeup, Doing, goalRest,
         pathVars
<1> QED BY <1>2, <1>3, <1>4

LEMMA NextSignal == TypeInv /\ OneGoal /\ SignalInv /\ [Next]_serverVars => SignalInv'
<1> SUFFICES ASSUME TypeInv, OneGoal, SignalInv, [Next]_serverVars,
                    NEW u \in Threads
             PROVE  SignalOk(u)'
  BY DEF SignalInv
<1>0. /\ SignalOk(u) /\ path_flags \in Flags
      /\ signals \in [Threads -> Nat] /\ passes \in [Threads -> Nat]
  BY DEF SignalInv, TypeInv
<1>1. CASE UNCHANGED serverVars
  BY <1>0, <1>1 DEF serverVars, goalVars, pathVars, history, SignalOk
<1>2. ASSUME NEW t \in Threads, ThreadStep(t) \/ Wakeup(t) PROVE SignalOk(u)'
  <2>1. CASE u = t
    BY <1>0, <1>2, <2>1, OwnSignals
  <2>2. CASE u # t
    <3>1. /\ step'[u] = step[u] /\ signals'[u] = signals[u] /\ passes'[u] = passes[u]
          /\ step[t] = "active" => UNCHANGED path_flags
      BY <1>2, <2>2, OtherSignals
    <3>2. step[t] # "idle"
      BY <1>2, ThreadMoves
    <3>3. step[u] \in AtWait => UNCHANGED path_flags
      BY <2>2, <3>1, <3>2 DEF OneGoal, Working, AtWait
    <3> QED BY <1>0, <3>1, <3>3 DEF SignalOk
  <2> QED BY <2>1, <2>2
<1>3. ASSUME NEW t \in Threads, NEW r \in Requests, handle_goal(t, r)
      PROVE  SignalOk(u)'
  BY <1>0, <1>3 DEF handle_goal, Go, pathVars, history, SignalOk, AtWait, Over, TypeInv
<1>4. ASSUME NEW t \in Threads, CancelArrives(t) PROVE SignalOk(u)'
  <2>1. UNCHANGED history
    BY <1>4 DEF CancelArrives
  <2>2. \/ UNCHANGED <<path_flags, step>>
        \/ /\ path_flags'.cancel /\ ~path_flags'.waiting
           /\ step'[u] = IF step[u] = "asleep" THEN "waiting" ELSE step[u]
    BY <1>0, <1>4 DEF CancelArrives, NotifyAll, Flags
  <2> QED BY <1>0, <2>1, <2>2 DEF SignalOk, history, AtWait, Over
<1>5. CASE CancelForwards \/ CancelStops \/ CancelAccepted
  <2>1. UNCHANGED <<path_flags, signals, passes>>
    BY <1>5 DEF CancelForwards, CancelStops, CancelAccepted, goalVars, pathVars, history
  <2>2. step'[u] = step[u] \/ (step[u] = "moving" /\ step'[u] \in {"catch", "finish"})
    BY <1>5 DEF CancelForwards, CancelStops, CancelAccepted, goalVars
  <2> QED BY <1>0, <2>1, <2>2 DEF SignalOk, AtWait, Over
<1>6. ASSUME NEW id \in 0 .. MaxId, NEW node \in 0 .. MaxNodes, signal_path(id, node)
      PROVE  SignalOk(u)'
  <2>1. path_flags.waiting /\ path_flags'.continue /\ ~path_flags'.waiting
    BY <1>0, <1>6 DEF signal_path, ContinueFlags, Flags
  <2>2. step'[u] = IF step[u] = "asleep" THEN "waiting" ELSE step[u]
    BY <1>6 DEF signal_path, NotifyAll
  <2>3. UNCHANGED passes
    BY <1>6 DEF signal_path
  <2>4. CASE step[u] \in AtWait
    <3>1. signals'[u] = signals[u] + 1 /\ signals[u] = passes[u]
      BY <1>0, <1>6, <2>1, <2>4 DEF signal_path, AtWait, SignalOk
    <3> QED BY <1>0, <2>1, <2>2, <2>3, <2>4, <3>1 DEF SignalOk, AtWait, Over
  <2>5. CASE step[u] \notin AtWait
    <3>1. signals'[u] = signals[u] + 0
      BY <1>6, <2>5 DEF signal_path, AtWait
    <3>2. signals'[u] = signals[u] /\ step'[u] = step[u]
      BY <1>0, <2>2, <2>5, <3>1 DEF AtWait
    <3> QED BY <1>0, <2>3, <2>5, <3>2 DEF SignalOk
  <2> QED BY <2>4, <2>5
<1> QED BY <1>1, <1>2, <1>3, <1>4, <1>5, <1>6 DEF Next, NodeCallback

LEMMA NextInv == Inv /\ [Next]_serverVars => Inv'
BY NextType, NextOneGoal, NextOrphan, NextSignal DEF Inv

(* The parts of the invariant hold together in every state of the server.   *)
THEOREM Invariance == Spec => []Inv
BY InitInv, NextInv, PTL DEF Spec

(* Two goals never move the arm, nor write the flags of the node, at a      *)
(* time: busy_ outlives everything a thread does for its goal but the last  *)
(* motion_active message.                                                  *)
THEOREM OneGoalAtATime == Spec => []OneGoal
<1>1. Inv => OneGoal
  BY DEF Inv
<1> QED BY <1>1, Invariance, PTL

(* Whoever cancels, and when: a planning the thread has left was cancelled  *)
(* or had ended.                                                           *)
THEOREM PlanningIsOver == Spec => []NoOrphanPlanning
<1>1. Inv => NoOrphanPlanning
  BY DEF Inv, OrphanInv
<1> QED BY <1>1, Invariance, PTL

(* A wait is passed by one signal sent while the PATH waited there, also    *)
(* with cancels, spurious wakeups and other goals in between.              *)
THEOREM SignalPassesOneWait == Spec => []WaitsAreSignaled
<1>1. Inv => WaitsAreSignaled
  BY DEF Inv, SignalInv, SignalOk, WaitsAreSignaled
<1> QED BY <1>1, Invariance, PTL

-----------------------------------------------------------------------------
(***************************************************************************)
(* Where a PATH is cut into batches, and what is recorded of one.          *)
(***************************************************************************)

HIDE CommandServerAssumption

(* Among numbers that end with n there is, for every b up to their number,  *)
(* one that has b of them up to it; for b = 0 it is 0.                      *)
LEMMA OneHasSoMany ==
  ASSUME NEW n \in Nat, NEW ends \in SUBSET (1 .. n), n \in ends,
         NEW b \in 0 .. Cardinality(ends)
  PROVE  \E k \in {0} \cup ends : Cardinality({j \in ends : j <= k}) = b
<1> DEFINE UpTo(k) == {j \in ends : j <= k}
           Size(k) == Cardinality(UpTo(k))
<1>0. \A j \in ends : j \in Nat /\ 1 <= j /\ j <= n
  OBVIOUS
<1>1. IsFiniteSet(ends) /\ Cardinality(ends) \in Nat /\ b \in Nat
  <2>1. IsFiniteSet(1 .. n)
    BY FS_Interval
  <2>2. IsFiniteSet(ends)
    BY <2>1, FS_Subset
  <2>3. Cardinality(ends) \in Nat
    BY <2>2, FS_CardinalityType
  <2> QED BY <2>2, <2>3
<1>2. ASSUME NEW k \in Nat PROVE IsFiniteSet(UpTo(k)) /\ Size(k) \in Nat
  <2>1. UpTo(k) \in SUBSET ends
    OBVIOUS
  <2>2. IsFiniteSet(UpTo(k))
    BY <1>1, <2>1, FS_Subset
  <2> QED BY <2>2, FS_CardinalityType
<1>3. \A j, k : j \in UpTo(k) <=> j \in ends /\ j <= k
  OBVIOUS
<1>4. Size(0) = 0
  <2>1. ASSUME NEW j \in UpTo(0) PROVE FALSE
    <3>1. j \in Nat /\ 1 <= j /\ j <= 0
      BY <1>0
    <3> QED BY <3>1
  <2>2. UpTo(0) = {}
    BY <2>1
  <2> QED BY <2>2, FS_EmptySet
<1>5. CASE b = 0
  BY <1>4, <1>5
<1>6. CASE b # 0
  <2> DEFINE Enough == {k \in Nat : Size(k) >= b}
  <2>1. n \in Enough
    <3>1. UpTo(n) = ends
      <4> HIDE DEF UpTo
      <4> QED BY <1>0, <1>3
    <3>2. Size(n) >= b
      BY <1>1, <3>1
    <3> QED BY <3>2
  <2>2. Enough \subseteq Nat
    OBVIOUS
  <2>3. PICK k \in Enough : \A j \in Enough : ~(<<j, k>> \in OpToRel(<, Nat))
    <3> HIDE DEF Enough
    <3> QED BY <2>1, <2>2, NatLessThanWellFounded, WFMin
  <2>4. k \in Nat /\ Size(k) >= b
    OBVIOUS
  <2>5. k # 0
    <3> HIDE DEF Size
    <3> QED BY <1>1, <1>4, <1>6, <2>4
  <2>6. k - 1 \in Nat /\ k - 1 < k
    BY <2>4, <2>5
  <2>7. ~(Size(k - 1) >= b)
    <3> SUFFICES ASSUME Size(k - 1) >= b PROVE FALSE
      OBVIOUS
    <3>1. k - 1 \in Enough
      BY <2>6
    <3>2. <<k - 1, k>> \in OpToRel(<, Nat)
      BY <2>4, <2>6 DEF OpToRel
    <3> HIDE DEF Enough
    <3> QED BY <2>3, <3>1, <3>2
  <2>8. \A j \in ends : j <= k <=> j <= k - 1 \/ j = k
    BY <1>0, <2>4
  <2>9. k \in ends
    <3> SUFFICES ASSUME k \notin ends PROVE FALSE
      OBVIOUS
    <3>1. UpTo(k) = UpTo(k - 1)
      <4>1. \A j : j \in UpTo(k) <=> j \in UpTo(k - 1)
        BY <2>8
      <4> HIDE DEF UpTo
      <4> QED BY <4>1
    <3>2. Size(k) = Size(k - 1)
      BY <3>1
    <3> QED BY <2>4, <2>7, <3>2
  <2>10. Size(k) = Size(k - 1) + 1
    <3>1. UpTo(k) = UpTo(k - 1) \cup {k} /\ k \notin UpTo(k - 1)
      <4>1. ~(k <= k - 1)
        BY <2>4
      <4> HIDE DEF UpTo
      <4> QED BY <1>3, <2>8, <2>9, <4>1
    <3>2. IsFiniteSet(UpTo(k - 1))
      BY <1>2, <2>6
    <3> HIDE DEF UpTo
    <3> QED BY <3>1, <3>2, FS_AddElement
  <2>11. Size(k) = b
    <3>1. Size(k - 1) \in Nat /\ Size(k) \in Nat
      BY <1>2, <2>4, <2>6
    <3> HIDE DEF Size
    <3> QED BY <1>1, <2>4, <2>7, <2>10, <3>1
  <2> QED BY <2>9, <2>11
<1> QED BY <1>5, <1>6

LEMMA IsSequence ==
  ASSUME NEW S, NEW n \in Nat, NEW f \in [1 .. n -> S]
  PROVE  f \in Seq(S) /\ Len(f) = n
OBVIOUS

(* The order of a valid PATH, and its ends.                                *)
LEMMA OrderOfPath ==
  ASSUME NEW path \in PathGoal, validate_path_goal(path)
  PROVE  LET order == execution_node_indexes(path) IN
         /\ order \in Seq(1 .. Len(path.nodes))
         /\ Len(order) \in 1 .. Len(path.nodes)
         /\ Cuts(path) \in SUBSET (1 .. Len(order)) /\ Len(order) \in Cuts(path)
         /\ IsFiniteSet(Cuts(path)) /\ Cardinality(Cuts(path)) \in Nat \ {0}
         /\ StartOf(path) <= EndOf(path) =>
              /\ Len(order) = EndOf(path) - StartOf(path) + 1
              /\ \A k \in 1 .. Len(order) : order[k] = StartOf(path) + k - 1
<1> DEFINE order == execution_node_indexes(path)
           first == StartOf(path)
           last  == EndOf(path)
           len   == Len(path.nodes)
<1>1. len \in Nat /\ first \in 1 .. len /\ last \in 1 .. len
  BY DEF validate_path_goal, HeaderValid, PathGoal
<1>2. order = IF first <= last THEN [k \in 1 .. last - first + 1 |-> first + k - 1]
                               ELSE [k \in 1 .. first - last + 1 |-> first - k + 1]
  BY DEF execution_node_indexes
<1> HIDE DEF order, first, last, len
<1>3. /\ order \in Seq(1 .. len) /\ Len(order) \in 1 .. len
      /\ first <= last => /\ Len(order) = last - first + 1
                          /\ \A k \in 1 .. Len(order) : order[k] = first + k - 1
  <2>1. CASE first <= last
    <3>1. order = [k \in 1 .. last - first + 1 |-> first + k - 1]
      BY <1>2, <2>1
    <3>2. last - first + 1 \in 1 .. len
      BY <1>1, <2>1
    <3>3. \A k \in 1 .. last - first + 1 : first + k - 1 \in 1 .. len
      BY <1>1, <2>1
    <3> DEFINE n == last - first + 1
    <3>4. Len(order) = n /\ order \in Seq(1 .. len)
      <4>1. n \in Nat
        BY <3>2
      <4>2. order \in [1 .. n -> 1 .. len]
        BY <3>1, <3>3
      <4> HIDE DEF n
      <4> QED BY <4>1, <4>2, IsSequence
    <3>5. \A k \in 1 .. Len(order) : order[k] = first + k - 1
      BY <3>1, <3>4
    <3> QED BY <2>1, <3>2, <3>4, <3>5
  <2>2. CASE ~(first <= last)
    <3>1. order = [k \in 1 .. first - last + 1 |-> first - k + 1]
      BY <1>2, <2>2
    <3>2. first - last + 1 \in 1 .. len
      BY <1>1, <2>2
    <3>3. \A k \in 1 .. first - last + 1 : first - k + 1 \in 1 .. len
      BY <1>1, <2>2
    <3> DEFINE n == first - last + 1
    <3>4. Len(order) = n /\ order \in Seq(1 .. len)
      <4>1. n \in Nat
        BY <3>2
      <4>2. order \in [1 .. n -> 1 .. len]
        BY <3>1, <3>3
      <4> HIDE DEF n
      <4> QED BY <4>1, <4>2, IsSequence
    <3> QED BY <2>2, <3>2, <3>4
  <2> QED BY <2>1, <2>2
<1>4. Cuts(path) \in SUBSET (1 .. Len(order)) /\ Len(order) \in Cuts(path)
  BY <1>1, <1>3 DEF Cuts, order
<1>5. IsFiniteSet(Cuts(path)) /\ Cardinality(Cuts(path)) \in Nat
  <2>1. IsFiniteSet(1 .. Len(order))
    BY <1>1, <1>3, FS_Interval
  <2>2. IsFiniteSet(Cuts(path))
    BY <1>4, <2>1, FS_Subset
  <2> QED BY <2>2, FS_CardinalityType
<1>6. Cardinality(Cuts(path)) # 0
  BY <1>4, <1>5, FS_EmptySet
<1> QED BY <1>3, <1>4, <1>5, <1>6 DEF order, first, last, len

(* The bth batch goes from behind one end to the next.                     *)
LEMMA CutsOfBatch ==
  ASSUME NEW path \in PathGoal, validate_path_goal(path),
         NEW b \in 1 .. Cardinality(Cuts(path))
  PROVE  /\ Cut(path, b - 1) \in {0} \cup Cuts(path)
         /\ Cut(path, b) \in Cuts(path)
         /\ Cut(path, b - 1) < Cut(path, b)
<1> DEFINE ends == Cuts(path)
           n == Len(execution_node_indexes(path))
           UpTo(k) == {j \in ends : j <= k}
           Here(k, c) == k \in {0} \cup ends /\ Cardinality(UpTo(k)) = c
<1>1. n \in Nat /\ ends \in SUBSET (1 .. n) /\ n \in ends
      /\ IsFiniteSet(ends) /\ Cardinality(ends) \in Nat
  <2>1. Len(path.nodes) \in Nat
    BY DEF PathGoal
  <2> QED BY <2>1, OrderOfPath
<1>2. ASSUME NEW c \in 0 .. Cardinality(ends) PROVE Here(Cut(path, c), c)
  <2>1. \E k \in {0} \cup ends : Cardinality({j \in ends : j <= k}) = c
    <3> HIDE DEF ends, n
    <3> QED BY <1>1, OneHasSoMany
  <2> QED BY <2>1 DEF Cut
<1>3. b \in 0 .. Cardinality(ends) /\ b - 1 \in 0 .. Cardinality(ends)
  BY <1>1
<1>4. Here(Cut(path, b), b) /\ Here(Cut(path, b - 1), b - 1)
  BY <1>2, <1>3
<1> HIDE DEF ends, n
<1> HIDE DEF UpTo
<1>5. Cut(path, b) # 0
  <2> SUFFICES ASSUME Cut(path, b) = 0 PROVE FALSE
    OBVIOUS
  <2>1. UpTo(0) = {}
    <3>1. \A j \in ends : j \in Nat /\ 1 <= j
      BY <1>1
    <3>2. \A j : j \notin UpTo(0)
      BY <3>1 DEF UpTo
    <3> QED BY <3>2
  <2>2. Cardinality(UpTo(0)) = 0
    BY <2>1, FS_EmptySet
  <2> QED BY <1>3, <1>4, <2>2
<1>6. Cut(path, b - 1) < Cut(path, b)
  <2> SUFFICES ASSUME ~(Cut(path, b - 1) < Cut(path, b)) PROVE FALSE
    OBVIOUS
  <2>1. UpTo(Cut(path, b)) \subseteq UpTo(Cut(path, b - 1))
    <3>1. \A j \in ends : j \in Nat
      BY <1>1
    <3>2. Cut(path, b) \in Nat /\ Cut(path, b - 1) \in Nat
      BY <1>4, <3>1
    <3> QED BY <3>1, <3>2 DEF UpTo
  <2>2. UpTo(Cut(path, b - 1)) \in SUBSET ends
    BY DEF UpTo
  <2>3. IsFiniteSet(UpTo(Cut(path, b - 1)))
    BY <1>1, <2>2, FS_Subset
  <2>4. Cardinality(UpTo(Cut(path, b))) <= Cardinality(UpTo(Cut(path, b - 1)))
    BY <2>1, <2>3, FS_Subset
  <2> QED BY <1>1, <1>3, <1>4, <2>4
<1> QED BY <1>4, <1>5, <1>6 DEF ends

(* The batches of a valid PATH that runs forward: nodes that follow each    *)
(* other, not beginning with a CIRCULAR node and not ending with a via.     *)
LEMMA ForwardBatch ==
  ASSUME NEW path \in PathGoal, validate_path_goal(path), StartOf(path) <= EndOf(path),
         NEW b \in 1 .. Cardinality(Cuts(path))
  PROVE  \E i \in 1 .. Len(path.nodes), n \in 1 .. Len(path.nodes) :
           LET batch_b == partition_path_at_waits(path)[b] IN
           /\ batch_b = [k \in 1 .. n |-> i + k - 1] /\ Len(batch_b) = n
           /\ i + n - 1 \in 1 .. Len(path.nodes)
           /\ path.nodes[i].motion_type # "CIRCULAR"
           /\ path.nodes[i + n - 1].motion_type # "SEG_VIA"
<1> DEFINE order == execution_node_indexes(path)
           first == StartOf(path)
           lo    == Cut(path, b - 1)
           hi    == Cut(path, b)
           len   == Len(path.nodes)
           i     == first + lo
           n     == hi - lo
           node(k) == path.nodes[k]
<1>1. /\ len \in Nat /\ first \in 1 .. len /\ EndOf(path) \in 1 .. len
      /\ path.nodes \in Seq(NodeType)
  BY DEF validate_path_goal, HeaderValid, PathGoal
<1>2. /\ Len(order) \in 1 .. len /\ order \in Seq(1 .. len)
      /\ Len(order) = EndOf(path) - first + 1
      /\ \A k \in 1 .. Len(order) : order[k] = first + k - 1
      /\ Cuts(path) \in SUBSET (1 .. Len(order))
  BY OrderOfPath
<1>3. lo \in {0} \cup Cuts(path) /\ hi \in Cuts(path) /\ lo < hi
  BY CutsOfBatch
<1>4. partition_path_at_waits(path)[b] = SubSeq(order, lo + 1, hi)
  BY DEF partition_path_at_waits
<1> HIDE DEF order, first, lo, hi, len
<1>5. /\ lo \in Nat /\ hi \in 1 .. Len(order) /\ i \in 1 .. len /\ n \in 1 .. len
      /\ i + n - 1 = first + hi - 1 /\ i + n - 1 \in 1 .. len
  <2>1. lo \in Nat /\ hi \in 1 .. Len(order) /\ Len(order) \in Nat
    BY <1>1, <1>2, <1>3
  <2>2. first \in Nat /\ EndOf(path) \in Nat /\ first >= 1 /\ EndOf(path) <= len
    BY <1>1
  <2>3. hi <= EndOf(path) - first + 1 /\ hi >= 1
    BY <1>2, <2>1
  <2> QED BY <1>1, <1>3, <2>1, <2>2, <2>3
<1>6. /\ SubSeq(order, lo + 1, hi) = [k \in 1 .. n |-> i + k - 1]
      /\ Len(SubSeq(order, lo + 1, hi)) = n
  <2>1. SubSeq(order, lo + 1, hi) = [k \in 1 .. n |-> order[lo + k]]
    BY <1>2, <1>3, <1>5
  <2>2. \A k \in 1 .. n : order[lo + k] = i + k - 1
    BY <1>1, <1>2, <1>5
  <2>3. Len(SubSeq(order, lo + 1, hi)) = n
    BY <1>2, <1>3, <1>5
  <2> HIDE DEF i, n
  <2> QED BY <2>1, <2>2, <2>3
<1>7. \A k \in 1 .. len : node(k).wait /\ node(k).motion_type = "SEG_VIA" => FALSE
  <2> SUFFICES ASSUME NEW k \in 1 .. len, node(k).wait, node(k).motion_type = "SEG_VIA"
               PROVE  FALSE
    OBVIOUS
  <2>1. k \in DOMAIN path.nodes
    BY <1>1 DEF len
  <2>2. path.path_type = "CARTESIAN"
    BY <2>1 DEF validate_path_goal, HeaderValid, PathTypes, NodeFits
  <2> QED BY <2>1, <2>2 DEF validate_path_goal, NoWaitAtVia
<1>8. node(i).motion_type # "CIRCULAR"
  <2> SUFFICES ASSUME node(i).motion_type = "CIRCULAR" PROVE FALSE
    OBVIOUS
  <2>1. i > 1 /\ node(i - 1).motion_type = "SEG_VIA"
    <3>1. \A j \in 1 .. len : node(j).motion_type = "CIRCULAR"
            => j > 1 /\ node(j - 1).motion_type = "SEG_VIA"
      <4>1. DOMAIN path.nodes = 1 .. len
        BY <1>1 DEF len
      <4>2. ViaBeforeCircular(path)
        BY DEF validate_path_goal
      <4> QED BY <4>1, <4>2 DEF ViaBeforeCircular
    <3> QED BY <1>5, <3>1
  <2>2. CASE lo = 0
    <3>1. i = first
      BY <1>1, <2>2
    <3> QED BY <3>1 DEF validate_path_goal, RangeValid, first
  <2>3. CASE lo # 0
    <3>1. lo \in Cuts(path) /\ lo \in 1 .. Len(order) /\ lo # Len(order)
      BY <1>2, <1>3, <1>5, <2>3
    <3>2. path.nodes[order[lo]].wait
      BY <3>1 DEF Cuts, order
    <3>3. order[lo] = first + lo - 1
      BY <1>2, <3>1
    <3>4. i - 1 = first + lo - 1 /\ i - 1 \in 1 .. len
      <4>1. first \in Nat /\ lo \in Nat /\ len \in Nat /\ i > 1 /\ i <= len
        BY <1>1, <1>5, <2>1
      <4> QED BY <4>1
    <3> QED BY <1>7, <2>1, <3>2, <3>3, <3>4
  <2> QED BY <2>2, <2>3
<1>9. node(i + n - 1).motion_type # "SEG_VIA"
  <2> DEFINE j == first + hi - 1
  <2>1. j \in 1 .. len /\ order[hi] = j
    BY <1>2, <1>5
  <2>2. hi = Len(order) \/ node(order[hi]).wait
    BY <1>3 DEF Cuts, order
  <2>3. CASE hi = Len(order)
    <3>1. j = EndOf(path)
      BY <1>1, <1>2, <2>3
    <3> QED BY <1>5, <3>1 DEF validate_path_goal, RangeValid
  <2>4. CASE node(order[hi]).wait
    BY <1>5, <1>7, <2>1, <2>4
  <2> QED BY <2>2, <2>3, <2>4
<1>10. i \in 1 .. len /\ n \in 1 .. len /\ i + n - 1 \in 1 .. len
  BY <1>5
<1> HIDE DEF i, n
<1> QED BY <1>4, <1>6, <1>8, <1>9, <1>10 DEF len, order, lo, hi

(* Such a part of a valid PATH, as it is recorded, is a valid PATH.         *)
LEMMA BlockIsValid ==
  ASSUME NEW path \in PathGoal, validate_path_goal(path),
         NEW i \in 1 .. Len(path.nodes), NEW n \in 1 .. Len(path.nodes),
         NEW part, part = [k \in 1 .. n |-> i + k - 1], Len(part) = n,
         i + n - 1 \in 1 .. Len(path.nodes),
         path.nodes[i].motion_type # "CIRCULAR",
         path.nodes[i + n - 1].motion_type # "SEG_VIA"
  PROVE  validate_path_goal(RecordedBlock(path, part))
<1> DEFINE block == RecordedBlock(path, part)
           len   == Len(path.nodes)
<1>1. /\ block.path_id = path.path_id /\ block.path_type = path.path_type
      /\ block.frames = path.frames /\ block.conditions = path.conditions
      /\ block.start_index = 1 /\ block.end_index = n
      /\ block.nodes = [k \in 1 .. n |-> path.nodes[i + k - 1]]
  <2>1. DOMAIN part = 1 .. n /\ \A k \in 1 .. n : part[k] = i + k - 1
    OBVIOUS
  <2>2. [k \in DOMAIN part |-> path.nodes[part[k]]] = [k \in 1 .. n |-> path.nodes[i + k - 1]]
    BY <2>1
  <2>3. block = [path EXCEPT !.nodes = [k \in 1 .. n |-> path.nodes[i + k - 1]],
                             !.start_index = 1, !.end_index = n]
    BY <2>2 DEF RecordedBlock
  <2> QED BY <2>3 DEF PathGoal
<1>2. /\ len \in Nat /\ path.nodes \in Seq(NodeType) /\ DOMAIN path.nodes = 1 .. len
      /\ i \in Nat /\ n \in Nat /\ n >= 1 /\ i >= 1 /\ n <= len /\ i + n - 1 <= len
  BY DEF PathGoal
<1> HIDE DEF block, len
<1>3. /\ DOMAIN block.nodes = 1 .. n /\ Len(block.nodes) = n
      /\ \A k \in 1 .. n : /\ i + k - 1 \in 1 .. len
                           /\ block.nodes[k] = path.nodes[i + k - 1]
  <2>1. \A k \in 1 .. n : i + k - 1 \in 1 .. len
    BY <1>2
  <2>2. block.nodes \in [1 .. n -> NodeType]
    BY <1>1, <1>2, <2>1
  <2>3. Len(block.nodes) = n
    BY <1>2, <2>2, IsSequence
  <2> QED BY <1>1, <2>1, <2>3
<1>4. StartOf(block) = 1 /\ EndOf(block) = n
  BY <1>1, <1>2 DEF StartOf, EndOf
<1>5. HeaderValid(block)
  <2>1. path.path_id \in 1 .. MaxId /\ path.path_type \in PathTypes /\ len <= MaxNodes
    BY DEF validate_path_goal, HeaderValid, len
  <2>2. MaxNodes \in Nat
    BY PathModelAssumption
  <2> QED BY <1>1, <1>2, <1>3, <1>4, <2>1, <2>2 DEF HeaderValid
<1>6. TablesValid(block)
  BY <1>1 DEF validate_path_goal, TablesValid
<1>7. ASSUME NEW k \in DOMAIN block.nodes
      PROVE  NodeFits(block, block.nodes[k]) /\ NumbersValid(block.nodes[k])
  <2>1. i + k - 1 \in DOMAIN path.nodes /\ block.nodes[k] = path.nodes[i + k - 1]
    BY <1>2, <1>3, <1>7
  <2>2. NodeFits(path, block.nodes[k]) /\ NumbersValid(block.nodes[k])
    BY <2>1 DEF validate_path_goal
  <2> QED BY <1>1, <2>2 DEF NodeFits, Slots
<1>8. ASSUME NEW k \in 1 .. n
      PROVE  /\ block.nodes[k].motion_type = "CIRCULAR"
                  => k > 1 /\ block.nodes[k - 1].motion_type = "SEG_VIA"
             /\ block.nodes[k].motion_type = "SEG_VIA"
                  => k < n /\ block.nodes[k + 1].motion_type = "CIRCULAR"
  <2>0. \A j \in DOMAIN path.nodes :
          /\ path.nodes[j].motion_type = "CIRCULAR"
               => path.nodes[j - 1].motion_type = "SEG_VIA"
          /\ path.nodes[j].motion_type = "SEG_VIA"
               => path.nodes[j + 1].motion_type = "CIRCULAR"
    BY DEF validate_path_goal, ViaBeforeCircular
  <2>1. i + k - 1 \in DOMAIN path.nodes /\ block.nodes[k] = path.nodes[i + k - 1]
    BY <1>2, <1>3
  <2>2. CASE block.nodes[k].motion_type = "CIRCULAR"
    <3>1. k # 1
      <4> SUFFICES ASSUME k = 1 PROVE FALSE
        OBVIOUS
      <4>1. i + k - 1 = i
        BY <1>2
      <4> QED BY <2>1, <2>2, <4>1
    <3>2. PICK j \in DOMAIN path.nodes :
            j = i + k - 1 /\ path.nodes[j].motion_type = "CIRCULAR"
      BY <2>1, <2>2
    <3>3. path.nodes[j - 1].motion_type = "SEG_VIA"
      BY <2>0, <3>2
    <3>4. k - 1 \in 1 .. n /\ i + (k - 1) - 1 = j - 1 /\ k > 1
      BY <1>2, <3>1, <3>2
    <3>5. block.nodes[k - 1] = path.nodes[j - 1]
      BY <1>3, <3>4
    <3> QED BY <2>2, <3>3, <3>4, <3>5
  <2>3. CASE block.nodes[k].motion_type = "SEG_VIA"
    <3>1. k # n
      BY <2>1, <2>3
    <3>2. PICK j \in DOMAIN path.nodes :
            j = i + k - 1 /\ path.nodes[j].motion_type = "SEG_VIA"
      BY <2>1, <2>3
    <3>3. path.nodes[j + 1].motion_type = "CIRCULAR"
      BY <2>0, <3>2
    <3>4. k + 1 \in 1 .. n /\ i + (k + 1) - 1 = j + 1 /\ k < n
      BY <1>2, <3>1, <3>2
    <3>5. block.nodes[k + 1] = path.nodes[j + 1]
      BY <1>3, <3>4
    <3> QED BY <2>3, <3>3, <3>4, <3>5
  <2> QED BY <2>2, <2>3
<1>9. ViaBeforeCircular(block)
  BY <1>3, <1>8 DEF ViaBeforeCircular
<1>10. NoWaitAtVia(block)
  <2> SUFFICES ASSUME block.path_type = "CARTESIAN", NEW k \in 1 .. n,
                      block.nodes[k].wait, block.nodes[k].motion_type = "SEG_VIA"
               PROVE  FALSE
    BY <1>3 DEF NoWaitAtVia
  <2>1. i + k - 1 \in DOMAIN path.nodes /\ block.nodes[k] = path.nodes[i + k - 1]
    BY <1>2, <1>3
  <2> QED BY <1>1, <2>1 DEF validate_path_goal, NoWaitAtVia
<1>11. RangeValid(block)
  <2>1. 1 \in 1 .. n /\ n \in 1 .. n /\ ~(1 > 1) /\ ~(n < n)
    BY <1>2
  <2> QED BY <1>4, <1>8, <2>1 DEF RangeValid
<1> QED
  BY <1>5, <1>6, <1>7, <1>9, <1>10, <1>11 DEF validate_path_goal, block

(* A thread is at a batch its PATH has, and it waits only before another.   *)
Batches(t) == Cardinality(Cuts(PathOf(t)))
Waits      == {"wait", "waiting", "asleep"}

BatchOk(t) ==
  /\ step[t] = "idle" => batch[t] = 1
  /\ step[t] # "idle" /\ IsPath(t) =>
       /\ batch[t] \in 1 .. Batches(t)
       /\ step[t] \in Waits => batch[t] # Batches(t)

BatchInv == batch \in [Threads -> Nat] /\ \A t \in Threads : BatchOk(t)

LEMMA PathsAreValid ==
  ASSUME TypeInv, NEW t \in Threads, step[t] # "idle", IsPath(t)
  PROVE  /\ PathOf(t) \in PathGoal /\ validate_path_goal(PathOf(t))
         /\ Batches(t) \in Nat \ {0} /\ Len(BatchesOf(t)) = Batches(t)
<1>1. PathOf(t) \in PathGoal /\ validate_path_goal(PathOf(t))
  BY CommandServerAssumption DEF TypeInv, IsPath, PathOf
<1>2. Batches(t) \in Nat \ {0}
  <2> HIDE DEF PathOf
  <2> QED BY <1>1, OrderOfPath DEF Batches
<1>3. Len(BatchesOf(t)) = Batches(t)
  <2> HIDE DEF PathOf
  <2> QED BY <1>2 DEF BatchesOf, partition_path_at_waits, Batches
<1> QED BY <1>1, <1>2, <1>3

(* The batch of the thread that takes a step.                              *)
LEMMA OwnBatch ==
  ASSUME TypeInv, BatchInv, NEW t \in Threads, ThreadStep(t) \/ Wakeup(t)
  PROVE  /\ batch' \in [Threads -> Nat] /\ BatchOk(t)'
         /\ \A u \in Threads \ {t} : batch'[u] = batch[u]
<1> USE DEF Go, End, Throw, Doing, goalRest, pathRest, pathVars, history
<1>0. /\ step \in [Threads -> Steps] /\ batch \in [Threads -> Nat] /\ BatchOk(t)
      /\ step[t] # "idle"
  BY ThreadMoves DEF TypeInv, BatchInv
<1>1. ASSUME UNCHANGED <<batch, request>>, step'[t] # "idle",
             step'[t] \in Waits => step[t] \in Waits
      PROVE  batch' \in [Threads -> Nat] /\ BatchOk(t)'
             /\ \A u \in Threads \ {t} : batch'[u] = batch[u]
  BY <1>0, <1>1 DEF BatchOk, Batches, PathOf, IsPath
<1>2. CASE CommandStep(t)
  <2>1. UNCHANGED <<batch, request>> /\ step'[t] \in {"finish", "deliver", "busy", "planned", "send"}
    BY <1>0, <1>2
    DEF CommandStep, read_or_set, set_frame, set_fly, clear_fly_queue, add_fly_segment,
        move, execute_fly_queue, RecordCommand, FinishCommand, finish_goal
  <2> QED BY <1>1, <2>1 DEF Waits
<1>3. CASE ClearActive(t)
  <2>1. step'[t] = "idle" /\ batch' = [batch EXCEPT ![t] = 1]
    BY <1>0, <1>3 DEF ClearActive
  <2> QED BY <1>0, <2>1 DEF BatchOk
<1>4. CASE MotionStep(t) /\ ~ClearActive(t)
  <2>1. UNCHANGED <<batch, request>>
        /\ step'[t] \in {"catch", "finish", "planning", "planned", "execute", "moving",
                         "record", "active"}
    BY <1>0, <1>4
    DEF MotionStep, SendFails, SendSequence, PlanningCanceled, PlanningEnds, Planned,
        BeginMotion, EndMotion, ClearBusy
  <2> QED BY <1>1, <2>1 DEF Waits
<1>5. CASE RecordBatch(t)
  <2>1. UNCHANGED <<batch, request>> /\ IsPath(t)
        /\ \/ step'[t] \in {"done", "catch"}
           \/ step'[t] = "wait" /\ batch[t] # Len(BatchesOf(t))
    BY <1>0, <1>5 DEF RecordBatch
  <2>2. Len(BatchesOf(t)) = Batches(t)
    BY <1>0, <2>1, PathsAreValid
  <2>3. batch[t] \in 1 .. Batches(t)
    BY <1>0, <2>1 DEF BatchOk
  <2>4. UNCHANGED <<Batches(t), IsPath(t)>>
    BY <2>1 DEF Batches, PathOf, IsPath
  <2>5. step'[t] \in Waits => batch[t] # Batches(t)
    BY <2>1, <2>2 DEF Waits
  <2>6. step'[t] # "idle"
    BY <2>1
  <2> QED BY <1>0, <2>1, <2>3, <2>4, <2>5, <2>6 DEF BatchOk
<1>6. CASE Wait(t)
  <2>1. step[t] = "waiting" /\ UNCHANGED request
    BY <1>6 DEF Wait
  <2>2. CASE UNCHANGED batch
    <3>1. step'[t] # "idle"
      BY <1>0, <1>6 DEF Wait
    <3> QED BY <1>1, <2>1, <2>2, <3>1 DEF Waits
  <2>3. CASE ~UNCHANGED batch
    <3>1. batch' = [batch EXCEPT ![t] = @ + 1] /\ step'[t] = "batch"
      BY <1>0, <1>6, <2>3 DEF Wait
    <3>2. batch'[t] = batch[t] + 1 /\ batch' \in [Threads -> Nat]
      BY <1>0, <3>1
    <3>3. IsPath(t) => batch[t] + 1 \in 1 .. Batches(t)
      <4> SUFFICES ASSUME IsPath(t) PROVE batch[t] + 1 \in 1 .. Batches(t)
        OBVIOUS
      <4>1. Batches(t) \in Nat \ {0}
        BY <1>0, PathsAreValid
      <4>2. batch[t] \in 1 .. Batches(t) /\ batch[t] # Batches(t)
        BY <1>0, <2>1 DEF BatchOk, Waits
      <4> QED BY <4>1, <4>2
    <3>4. UNCHANGED <<Batches(t), IsPath(t)>>
      BY <2>1 DEF Batches, PathOf, IsPath
    <3>5. step'[t] # "idle" /\ step'[t] \notin Waits
      BY <3>1 DEF Waits
    <3>6. BatchOk(t)'
      BY <3>2, <3>3, <3>4, <3>5 DEF BatchOk
    <3> QED BY <1>0, <3>1, <3>2, <3>6
  <2> QED BY <2>2, <2>3
<1>7. CASE PathStep(t) /\ ~RecordBatch(t) /\ ~Wait(t)
  <2>1. UNCHANGED <<batch, request>>
        /\ \/ step'[t] \in {"batch", "catch", "send", "succeed", "busy", "conclude"}
           \/ step'[t] = "waiting" /\ step[t] = "wait"
    BY <1>0, <1>7
    DEF PathStep, BeginPath, PrepareBatch, BeginWait, PathDone, PathSucceeds, PathFails,
        ConcludePath
  <2> QED BY <1>1, <2>1 DEF Waits
<1>8. CASE SpuriousWakeup(t)
  <2>1. UNCHANGED <<batch, request>> /\ step[t] = "asleep" /\ step'[t] = "waiting"
    BY <1>0, <1>8 DEF SpuriousWakeup
  <2> QED BY <1>1, <2>1 DEF Waits
<1> QED
  BY <1>2, <1>3, <1>4, <1>5, <1>6, <1>7, <1>8 DEF ThreadStep, Wakeup, MotionStep

LEMMA NextBatch == TypeInv /\ BatchInv /\ [Next]_serverVars => BatchInv'
<1> SUFFICES ASSUME TypeInv, BatchInv, [Next]_serverVars PROVE BatchInv'
  OBVIOUS
<1>0. /\ step \in [Threads -> Steps] /\ batch \in [Threads -> Nat]
      /\ request \in [Threads -> Requests]
      /\ \A u \in Threads : BatchOk(u)
  BY DEF TypeInv, BatchInv
<1>1. CASE UNCHANGED serverVars
  BY <1>0, <1>1 DEF serverVars, goalVars, BatchInv, BatchOk, Batches, PathOf, IsPath
<1>2. ASSUME NEW t \in Threads, ThreadStep(t) \/ Wakeup(t) PROVE BatchInv'
  <2>1. ASSUME NEW u \in Threads \ {t} PROVE BatchOk(u)'
    <3>1. step'[u] = step[u]
      BY <1>2, OtherSignals
    <3>2. batch'[u] = batch[u]
      BY <1>2, OwnBatch
    <3>3. step[u] # "idle" => request'[u] = request[u]
      BY <1>2, ThreadMoves
    <3> QED BY <1>0, <3>1, <3>2, <3>3 DEF BatchOk, Batches, PathOf, IsPath
  <2> QED BY <1>2, <2>1, OwnBatch DEF BatchInv
<1>3. ASSUME NEW t \in Threads, NEW r \in Requests, handle_goal(t, r) PROVE BatchInv'
  <2>1. /\ UNCHANGED batch /\ step[t] = "idle"
        /\ step' = [step EXCEPT ![t] = "start"]
        /\ request' = [request EXCEPT ![t] = r]
        /\ r.op = "path" => validate_path_goal(r.path)
    BY <1>3 DEF handle_goal, Go
  <2>2. ASSUME NEW u \in Threads \ {t} PROVE BatchOk(u)'
    <3>1. step'[u] = step[u] /\ batch'[u] = batch[u] /\ request'[u] = request[u]
      BY <1>0, <2>1
    <3> QED BY <1>0, <3>1 DEF BatchOk, Batches, PathOf, IsPath
  <2>3. BatchOk(t)'
    <3>1. step'[t] = "start" /\ batch'[t] = 1 /\ request'[t] = r
      BY <1>0, <2>1 DEF BatchOk
    <3>2. r.op = "path" => Cardinality(Cuts(r.path)) \in Nat \ {0}
      <4> SUFFICES ASSUME r.op = "path" PROVE Cardinality(Cuts(r.path)) \in Nat \ {0}
        OBVIOUS
      <4>1. r.path \in PathGoal /\ validate_path_goal(r.path)
        BY <2>1, CommandServerAssumption
      <4> QED BY <4>1, OrderOfPath
    <3>3. r.op = "path" => 1 \in 1 .. Cardinality(Cuts(r.path))
      BY <3>2
    <3> QED BY <3>1, <3>3 DEF BatchOk, Batches, PathOf, IsPath, Waits
  <2> QED BY <1>0, <2>1, <2>2, <2>3 DEF BatchInv
<1>4. ASSUME NodeCallback, ~\E t \in Threads, r \in Requests : handle_goal(t, r)
      PROVE  BatchInv'
  <2>1. UNCHANGED <<batch, request>>
    BY <1>4 DEF NodeCallback, CancelArrives, CancelForwards, CancelStops,
                CancelAccepted, signal_path, goalVars
  <2>2. ASSUME NEW u \in Threads PROVE BatchOk(u)'
    <3>1. \/ step'[u] = step[u]
          \/ step[u] = "asleep" /\ step'[u] = "waiting"
          \/ step[u] = "moving" /\ step'[u] \in {"catch", "finish"}
      BY <1>4 DEF NodeCallback, CancelArrives, NotifyAll, CancelForwards, CancelStops,
                  CancelAccepted, signal_path, goalVars
    <3>2. step'[u] = "idle" => step[u] = "idle"
      BY <3>1
    <3>3. step[u] = "idle" => step'[u] = "idle"
      BY <3>1
    <3>4. step'[u] \in Waits => step[u] \in Waits
      BY <3>1 DEF Waits
    <3> QED BY <1>0, <2>1, <3>2, <3>3, <3>4 DEF BatchOk, Batches, PathOf, IsPath
  <2> QED BY <1>0, <2>1, <2>2 DEF BatchInv
<1> QED BY <1>1, <1>2, <1>3, <1>4 DEF Next

(* Whatever block of a PATH that runs forward the simulation records after   *)
(* it has executed it, the editor may ask it to execute again: cutting at   *)
(* the waits never separates a CIRCULAR node from its via, as a via cannot  *)
(* wait.                                                                   *)
THEOREM RecordedBlocksAreValid == Spec => []RecordedIsValid
<1>1. Init => BatchInv
  BY DEF Init, BatchInv, BatchOk
<1>2. TypeInv /\ BatchInv => RecordedIsValid
  <2> SUFFICES ASSUME TypeInv, BatchInv, NEW t \in Threads, step[t] = "record",
                      IsPath(t), StartOf(PathOf(t)) <= EndOf(PathOf(t))
               PROVE  validate_path_goal(RecordedBlock(PathOf(t), BatchOf(t)))
    BY DEF RecordedIsValid
  <2> DEFINE path == PathOf(t)
             part == partition_path_at_waits(path)[batch[t]]
  <2>1. path \in PathGoal /\ validate_path_goal(path) /\ StartOf(path) <= EndOf(path)
    BY PathsAreValid
  <2>2. batch[t] \in 1 .. Cardinality(Cuts(path))
    BY DEF BatchInv, BatchOk, Batches
  <2>3. BatchOf(t) = part
    BY DEF BatchOf, BatchesOf
  <2> HIDE DEF path
  <2>4. \E i \in 1 .. Len(path.nodes), n \in 1 .. Len(path.nodes) :
          /\ part = [k \in 1 .. n |-> i + k - 1] /\ Len(part) = n
          /\ i + n - 1 \in 1 .. Len(path.nodes)
          /\ path.nodes[i].motion_type # "CIRCULAR"
          /\ path.nodes[i + n - 1].motion_type # "SEG_VIA"
    BY <2>1, <2>2, ForwardBatch
  <2> HIDE DEF part
  <2>5. validate_path_goal(RecordedBlock(path, part))
    BY <2>1, <2>4, BlockIsValid
  <2> QED BY <2>3, <2>5 DEF path
<1>3. Inv => TypeInv
  BY DEF Inv
<1> QED BY <1>1, <1>2, <1>3, NextBatch, Invariance, PTL DEF Spec
==============================================================================
