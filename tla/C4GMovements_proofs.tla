------------------------ MODULE C4GMovements_proofs ------------------------
(***************************************************************************)
(* Theorems about the movement service, for every set of commands, every    *)
(* node count and every capacity of the FLY queue, whatever the interrupts *)
(* do between the checks and the assignments of a routine: only complete   *)
(* PATHs move the arm (C4GMovements), aborts stay in force                 *)
(* (C4GMovementsHistory), the sender runs its script (FlyQueueSender), and *)
(* an accepted PATH is served (PathUpload).                                *)
(***************************************************************************)
EXTENDS FlyQueueSender, PathUpload, FiniteSetTheorems, TLAPS

USE MovementsAssumption DEF MovementsAssumption

(* The announced range is a range of nodes, whenever nodes are announced.  *)
RangeInv ==
  /\ expected_path_nodes > 0 => /\ path_start_index \in 1 .. expected_path_nodes
                                /\ path_end_index \in 1 .. expected_path_nodes
  /\ path_upload_active => expected_path_nodes > 0

(* A PATH ready to run stays as it was committed.                          *)
ReadyInv ==
  path_state = "READY" => /\ PathComplete /\ expected_path_nodes > 0
                          /\ ~path_upload_active /\ ~path_node_pending

(* What the checks of a routine found still holds at its assignments,      *)
(* where the routine relies on it.                                         *)
CallInv ==
  service = "admitted" =>
    /\ call \in Commands
    /\ call.op = "beginPath" => /\ call.first \in 1 .. call.count
                                /\ call.last \in 1 .. call.count
    /\ call.op \in {"pathNodeTarget", "commitPathNode"} => path_state # "READY"
    /\ call.op = "commitPath" => /\ PathComplete /\ expected_path_nodes > 0
                                 /\ ~path_node_pending
    /\ call.op = "executePath" => PathComplete /\ expected_path_nodes > 0
    /\ call.op = "addFly" => fly_queue_count < MaxFly

(* The arm follows a PATH only during its execute_path.                    *)
ArmInv ==
  arm = "path" => /\ service = "moving"
                  /\ PathComplete /\ expected_path_nodes > 0
                  /\ \/ arm_node \in path_start_index .. path_end_index
                     \/ arm_node \in path_end_index .. path_start_index

Inv == TypeOK /\ RangeInv /\ ReadyInv /\ CallInv /\ ArmInv

-----------------------------------------------------------------------------
(* The parameters a routine stores have the types of the variables.        *)
LEMMA CommandFields ==
  ASSUME NEW c \in Commands
  PROVE  /\ c.op = "beginPath" => /\ c.id \in Nat /\ c.kind \in Kinds
                                  /\ c.count \in Nat
                                  /\ c.first \in Nat /\ c.last \in Nat
         /\ c.op \in {"pathNodeTarget", "pathNodeMotion", "pathNodeBlend",
                      "pathNodeSync"} => c.index \in Nat
         /\ c.op = "addFly" => c.kind \in Kinds
         /\ c.op = "setFly" => c.mode \in {"FLY_NORM", "FLY_CART"}
<1>1. CASE c \in BeginCommands
  <2>1. /\ c.op = "beginPath" /\ c.kind \in Kinds /\ c.id \in PathIds
        /\ c.count \in 0 .. MaxNodes /\ c.first \in Indices /\ c.last \in Indices
    BY <1>1 DEF BeginCommands
  <2>2. c.id \in Nat
    BY <2>1
  <2> QED BY <2>1, <2>2 DEF Indices
<1>2. CASE c \in TableCommands   BY <1>2 DEF TableCommands
<1>3. CASE c \in TargetCommands  BY <1>3 DEF TargetCommands, Indices
<1>4. CASE c \in PartCommands    BY <1>4 DEF PartCommands, Indices
<1>5. CASE c \in SyncCommands    BY <1>5 DEF SyncCommands, Indices
<1>6. CASE c \in CommitCommands  BY <1>6 DEF CommitCommands
<1>7. CASE c \in ExecuteCommands BY <1>7 DEF ExecuteCommands
<1>8. CASE c \in OtherCommands   BY <1>8 DEF OtherCommands
<1>9. CASE c \in SetFlyCommands  BY <1>9 DEF SetFlyCommands
<1>10. CASE c \in AddFlyCommands BY <1>10 DEF AddFlyCommands
<1> QED BY <1>1, <1>2, <1>3, <1>4, <1>5, <1>6, <1>7, <1>8, <1>9, <1>10
        DEF CommandType

-----------------------------------------------------------------------------
(* The flags keep their type.                                              *)
LEMMA FlagsStep == Inv /\ [Next]_movementVars => FlagsOK'
<1> SUFFICES ASSUME FlagsOK, [Next]_movementVars PROVE FlagsOK'
  BY Zenon DEF Inv, TypeOK
<1> USE DEF FlagsOK, uploadVars, statusVars, flyVars, callVars, loopVars
<1>1. CASE reset_abort       BY <1>1, Zenon DEF reset_abort
<1>2. ASSUME NEW c \in Commands, call_service(c) PROVE FlagsOK'
  BY <1>2, Zenon DEF call_service
<1>3. CASE ApplyRoutine
  <2>1. CASE begin_path
    BY <1>3, <2>1, Zenon DEF ApplyRoutine, begin_path
  <2>2. CASE path_node_target
    BY <1>3, <2>2, Zenon DEF ApplyRoutine, path_node_target
  <2>3. CASE path_node_part
    BY <1>3, <2>3, Zenon DEF ApplyRoutine, path_node_part
  <2>4. CASE commit_path_node
    BY <1>3, <2>4, Zenon DEF ApplyRoutine, commit_path_node
  <2>5. CASE commit_path
    BY <1>3, <2>5, Zenon DEF ApplyRoutine, commit_path
  <2>6. CASE abort_path_upload
    BY <1>3, <2>6, Zenon DEF ApplyRoutine, abort_path_upload
  <2>7. CASE other_routine
    BY <1>3, <2>7, Zenon DEF ApplyRoutine, other_routine
  <2> QED BY <1>3, <2>1, <2>2, <2>3, <2>4, <2>5, <2>6, <2>7 DEF ApplyRoutine
<1>4. CASE StartMove         BY <1>4, Zenon DEF StartMove
<1>5. CASE execute_path      BY <1>5, Zenon DEF execute_path
<1>6. CASE execute_fly_queue BY <1>6, Zenon DEF execute_fly_queue
<1>7. CASE FlyCheck          BY <1>7, Zenon DEF FlyCheck
<1>8. CASE FlyMove           BY <1>8, Zenon DEF FlyMove
<1>9. CASE MoveReturns       BY <1>9, Zenon DEF MoveReturns
<1>10. CASE CheckAfterMove   BY <1>10, Zenon DEF CheckAfterMove
<1>11. CASE TakeResult       BY <1>11, Zenon DEF TakeResult
<1>12. CASE ReachNode        BY <1>12, Zenon DEF ReachNode
<1>13. CASE ReachTarget      BY <1>13, Zenon DEF ReachTarget
<1>14. ASSUME NEW id, NEW node, signal_path_segment(id, node) PROVE FlagsOK'
  BY <1>14, Zenon DEF signal_path_segment
<1>15. CASE SegmentSignaled   BY <1>15, Zenon DEF SegmentSignaled
<1>16. CASE report_path_wait  BY <1>16, Zenon DEF report_path_wait
<1>17. CASE report_path_event BY <1>17, Zenon DEF report_path_event
<1>18. CASE LOCK              BY <1>18, Zenon DEF LOCK
<1>19. CASE UNLOCK            BY <1>19, Zenon DEF UNLOCK
<1>20. CASE request_abort     BY <1>20, Zenon DEF request_abort, AbortFlags
<1>21. CASE UNCHANGED movementVars BY <1>21, Zenon DEF movementVars
<1> QED
  BY <1>1, <1>2, <1>3, <1>4, <1>5, <1>6, <1>7, <1>8, <1>9, <1>10, <1>11,
     <1>12, <1>13, <1>14, <1>15, <1>16, <1>17, <1>18, <1>19, <1>20, <1>21
  DEF Next, MainStep, ArmStep, ControlStep, Interrupt

(* Every variable keeps its type.                                          *)
LEMMA TypeStep == Inv /\ [Next]_movementVars => TypeOK'
<1> SUFFICES ASSUME Inv, [Next]_movementVars, FlagsOK' PROVE TypeOK'
  BY FlagsStep
<1> USE DEF Inv, TypeOK, uploadVars, statusVars, flyVars, callVars, loopVars,
            armVars, Kinds, States, Results, Parts, Return, ClearFlyQueue
<1>1. CASE reset_abort
  BY <1>1 DEF reset_abort
<1>2. ASSUME NEW c \in Commands, call_service(c) PROVE TypeOK'
  <2>1. FlyTypeAfter(c) \in Kinds \cup {"NONE"} \/ c.op # "addFly"
    BY CommandFields DEF FlyTypeAfter
  <2>2. CASE CallRefused(c)
    BY <1>2, <2>1, <2>2 DEF call_service, CallRefused
  <2>3. CASE CallAborted(c)
    BY <1>2, <2>3 DEF call_service, CallAborted
  <2>4. CASE CallAdmitted(c)
    BY <1>2, <2>1, <2>4 DEF call_service, CallAdmitted
  <2> QED BY <1>2, <2>2, <2>3, <2>4 DEF call_service
<1>3. CASE ApplyRoutine
  <2>1. call \in Commands
    BY <1>3 DEF ApplyRoutine, CallInv
  <2>2. CASE begin_path
    BY <1>3, <2>1, <2>2, CommandFields DEF ApplyRoutine, begin_path,
       clear_native_paths
  <2>3. CASE path_node_target
    <3>1. call.index \in Nat
      BY <2>1, <2>3, CommandFields DEF path_node_target
    <3>2. path_len' \in [Kinds -> Nat]
      BY <2>3 DEF path_node_target
    <3>3. pending_path_node' \in Nat /\ node_parts' \subseteq Parts
      BY <2>3, <3>1 DEF path_node_target
    <3> QED BY <1>3, <2>3, <3>2, <3>3 DEF ApplyRoutine, path_node_target
  <2>4. CASE path_node_part
    <3>1. call.op \in {"pathNodeMotion", "pathNodeBlend", "pathNodeSync"}
      BY <2>4 DEF path_node_part, PartOf
    <3>2. PartOf[call.op] \in Parts
      BY <3>1 DEF PartOf
    <3>3. node_parts' \subseteq Parts
      BY <2>4, <3>2 DEF path_node_part
    <3>4. call.index \in Nat
      BY <2>1, <3>1, CommandFields
    <3>5. seg_wait' \subseteq Nat
      BY <2>4, <3>4 DEF path_node_part
    <3> QED BY <1>3, <2>4, <3>3, <3>5 DEF ApplyRoutine, path_node_part
  <2>5. CASE commit_path_node
    BY <1>3, <2>5 DEF ApplyRoutine, commit_path_node
  <2>6. CASE commit_path
    BY <1>3, <2>6 DEF ApplyRoutine, commit_path
  <2>7. CASE abort_path_upload
    BY <1>3, <2>7 DEF ApplyRoutine, abort_path_upload, clear_native_paths
  <2>8. CASE other_routine
    BY <1>3, <2>1, <2>8, CommandFields DEF ApplyRoutine, other_routine, CallInv
  <2> QED BY <1>3, <2>2, <2>3, <2>4, <2>5, <2>6, <2>7, <2>8 DEF ApplyRoutine
<1>4. CASE StartMove         BY <1>4 DEF StartMove
<1>5. CASE execute_path      BY <1>5 DEF execute_path
<1>6. CASE execute_fly_queue BY <1>6 DEF execute_fly_queue
<1>7. CASE FlyCheck          BY <1>7 DEF FlyCheck
<1>8. CASE FlyMove           BY <1>8 DEF FlyMove
<1>9. CASE MoveReturns       BY <1>9 DEF MoveReturns
<1>10. CASE CheckAfterMove   BY <1>10 DEF CheckAfterMove, ResultOfMove
<1>11. CASE TakeResult       BY <1>11 DEF TakeResult
<1>12. CASE ReachNode
  <2>1. arm = "path" => NextNode \in Nat \/ arm_node = path_end_index
    BY DEF ArmInv, NextNode
  <2> QED BY <1>12, <2>1 DEF ReachNode, PassNode
<1>13. CASE ReachTarget      BY <1>13 DEF ReachTarget
<1>14. ASSUME NEW id, NEW node, signal_path_segment(id, node) PROVE TypeOK'
  <2>1. arm = "path" => NextNode \in Nat \/ arm_node = path_end_index
    BY DEF ArmInv, NextNode
  <2> QED BY <1>14, <2>1 DEF signal_path_segment, PassNode
<1>15. CASE SegmentSignaled   BY <1>15 DEF SegmentSignaled
<1>16. CASE report_path_wait  BY <1>16 DEF report_path_wait
<1>17. CASE report_path_event BY <1>17 DEF report_path_event
<1>18. CASE LOCK              BY <1>18 DEF LOCK
<1>19. CASE UNLOCK            BY <1>19 DEF UNLOCK
<1>20. CASE request_abort     BY <1>20 DEF request_abort, AbortFlags, CancelAll
<1>21. CASE UNCHANGED movementVars BY <1>21 DEF movementVars
<1> QED
  BY <1>1, <1>2, <1>3, <1>4, <1>5, <1>6, <1>7, <1>8, <1>9, <1>10, <1>11,
     <1>12, <1>13, <1>14, <1>15, <1>16, <1>17, <1>18, <1>19, <1>20, <1>21
  DEF Next, MainStep, ArmStep, ControlStep, Interrupt

-----------------------------------------------------------------------------
(* The four other parts of the invariant, together: each routine disturbs  *)
(* only what it writes, and each interrupt leaves the counters alone.      *)
LEMMA PathStep ==
  Inv /\ [Next]_movementVars => (RangeInv /\ ReadyInv /\ CallInv /\ ArmInv)'
<1> SUFFICES ASSUME Inv, [Next]_movementVars
             PROVE  (RangeInv /\ ReadyInv /\ CallInv /\ ArmInv)'
  OBVIOUS
<1> DEFINE Goal == (RangeInv /\ ReadyInv /\ CallInv /\ ArmInv)'
<1> USE DEF Inv, TypeOK, RangeInv, ReadyInv, CallInv, ArmInv, PathComplete,
            uploadVars, statusVars, flyVars, callVars, loopVars, armVars,
            Return, ClearFlyQueue
<1>1. CASE reset_abort
  BY <1>1 DEF reset_abort
<1>2. ASSUME NEW c \in Commands, call_service(c) PROVE Goal
  <2>1. CASE CallRefused(c)
    BY <1>2, <2>1 DEF call_service, CallRefused
  <2>2. CASE CallAborted(c)
    BY <1>2, <2>2 DEF call_service, CallAborted
  <2>3. CASE CallAdmitted(c)
    <3>1. Admits(c) /\ call' = c
      BY <1>2, <2>3 DEF call_service, CallAdmitted
    <3>2. c.op = "beginPath" => c.first \in 1 .. c.count /\ c.last \in 1 .. c.count
      BY <3>1 DEF Admits, AdmitsPathCommand, AdmitsOther, AdmitsCommitPath,
                  AdmitsAddFly
    <3>3. c.op = "pathNodeTarget" => path_upload_active
      BY <3>1 DEF Admits, AdmitsPathCommand, AdmitsOther, AdmitsCommitPath,
                  AdmitsAddFly, Uploading
    <3>4. c.op = "commitPathNode" => path_node_pending
      BY <3>1 DEF Admits, AdmitsPathCommand, AdmitsOther, AdmitsCommitPath,
                  AdmitsAddFly, NodeOpen
    <3>5. c.op = "commitPath" => path_upload_active /\ ~path_node_pending
                                 /\ PathComplete
      BY <3>1 DEF Admits, AdmitsPathCommand, AdmitsOther, AdmitsCommitPath,
                  AdmitsAddFly, Uploading
    <3>6. c.op = "executePath" => path_state = "READY"
      BY <3>1 DEF Admits, AdmitsPathCommand, AdmitsOther, AdmitsCommitPath,
                  AdmitsAddFly
    <3>7. c.op = "addFly" => fly_queue_count < MaxFly
      BY <3>1 DEF Admits, AdmitsPathCommand, AdmitsOther, AdmitsCommitPath,
                  AdmitsAddFly
    <3> QED BY <1>2, <2>3, <3>1, <3>2, <3>3, <3>4, <3>5, <3>6, <3>7
            DEF call_service, CallAdmitted
  <2> QED BY <1>2, <2>1, <2>2, <2>3 DEF call_service
<1>3. CASE ApplyRoutine
  <2>1. call \in Commands
    BY <1>3 DEF ApplyRoutine
  <2>2. CASE begin_path
    BY <1>3, <2>1, <2>2, CommandFields DEF ApplyRoutine, begin_path
  <2>3. CASE path_node_target
    BY <1>3, <2>3 DEF ApplyRoutine, path_node_target
  <2>4. CASE path_node_part
    BY <1>3, <2>4 DEF ApplyRoutine, path_node_part
  <2>5. CASE commit_path_node
    BY <1>3, <2>5 DEF ApplyRoutine, commit_path_node
  <2>6. CASE commit_path
    BY <1>3, <2>6 DEF ApplyRoutine, commit_path
  <2>7. CASE abort_path_upload
    BY <1>3, <2>7 DEF ApplyRoutine, abort_path_upload
  <2>8. CASE other_routine
    BY <1>3, <2>8 DEF ApplyRoutine, other_routine
  <2> QED BY <1>3, <2>2, <2>3, <2>4, <2>5, <2>6, <2>7, <2>8 DEF ApplyRoutine
<1>4. CASE StartMove         BY <1>4 DEF StartMove
<1>5. CASE execute_path      BY <1>5 DEF execute_path
<1>6. CASE execute_fly_queue BY <1>6 DEF execute_fly_queue
<1>7. CASE FlyCheck          BY <1>7 DEF FlyCheck
<1>8. CASE FlyMove           BY <1>8 DEF FlyMove
<1>9. CASE MoveReturns       BY <1>9 DEF MoveReturns
<1>10. CASE CheckAfterMove   BY <1>10 DEF CheckAfterMove, ResultOfMove
<1>11. CASE TakeResult       BY <1>11 DEF TakeResult
<1>12. CASE ReachNode        BY <1>12 DEF ReachNode, PassNode, NextNode
<1>13. CASE ReachTarget      BY <1>13 DEF ReachTarget
<1>14. ASSUME NEW id, NEW node, signal_path_segment(id, node) PROVE Goal
  BY <1>14 DEF signal_path_segment, PassNode, NextNode
<1>15. CASE SegmentSignaled   BY <1>15 DEF SegmentSignaled
<1>16. CASE report_path_wait  BY <1>16 DEF report_path_wait
<1>17. CASE report_path_event BY <1>17 DEF report_path_event
<1>18. CASE LOCK              BY <1>18 DEF LOCK
<1>19. CASE UNLOCK            BY <1>19 DEF UNLOCK
<1>20. CASE request_abort     BY <1>20 DEF request_abort, AbortFlags, CancelAll
<1>21. CASE UNCHANGED movementVars BY <1>21 DEF movementVars
<1> QED
  BY <1>1, <1>2, <1>3, <1>4, <1>5, <1>6, <1>7, <1>8, <1>9, <1>10, <1>11,
     <1>12, <1>13, <1>14, <1>15, <1>16, <1>17, <1>18, <1>19, <1>20, <1>21
  DEF Next, MainStep, ArmStep, ControlStep, Interrupt

-----------------------------------------------------------------------------
LEMMA InvInit == Init => Inv
<1> SUFFICES ASSUME Init PROVE Inv
  OBVIOUS
<1>1. TypeOK
  <2>1. FlagsOK
    BY Zenon DEF Init, FlagsOK
  <2> QED BY <2>1 DEF Init, TypeOK, States, Kinds, Results, Parts
<1>2. RangeInv /\ ReadyInv /\ CallInv /\ ArmInv
  BY DEF Init, RangeInv, ReadyInv, CallInv, ArmInv
<1> QED BY <1>1, <1>2 DEF Inv

LEMMA InvAlways == Spec => []Inv
<1>1. Inv /\ [Next]_movementVars => Inv'
  BY TypeStep, PathStep DEF Inv
<1> QED BY InvInit, <1>1, PTL DEF Spec

(* Every variable of the movement service keeps its type; in particular the *)
(* FLY queue never holds more than its capacity, although an abort may      *)
(* empty it while an element is added.                                      *)
THEOREM TypeCorrect == Spec => []TypeOK
<1>1. Inv => TypeOK
  BY DEF Inv
<1> QED BY InvAlways, <1>1, PTL

(* The arm follows a PATH only when every announced node is uploaded and    *)
(* committed, along existing nodes of the announced range.                  *)
THEOREM CompletePathOnly == Spec => []MotionOnCompletePath
<1>1. Inv => MotionOnCompletePath
  BY DEF Inv, TypeOK, RangeInv, ArmInv, PathComplete, MotionOnCompletePath
<1> QED BY InvAlways, <1>1, PTL

-----------------------------------------------------------------------------
(* A waiting PATH stays held at the reported node until it is signaled or   *)
(* aborted: no other routine moves the arm or the node while it waits,      *)
(* because none runs beside execute_path.                                   *)
LEMMA WaitStep ==
  Inv /\ WaitingMeansHeld /\ [Next]_movementVars => WaitingMeansHeld'
<1> SUFFICES ASSUME Inv, WaitingMeansHeld, [Next]_movementVars
             PROVE  WaitingMeansHeld'
  OBVIOUS
<1> USE DEF WaitingMeansHeld, uploadVars, statusVars, flyVars, callVars,
            loopVars, armVars
<1>0. arm = "path" => service = "moving"
  BY DEF Inv, ArmInv
<1>1. CASE reset_abort
  BY <1>1 DEF reset_abort
<1>2. ASSUME NEW c \in Commands, call_service(c) PROVE WaitingMeansHeld'
  BY <1>2 DEF call_service
<1>3. CASE ApplyRoutine
  <2>1. service = "admitted" /\ UNCHANGED <<signaling, arm, arm_node, arm_wait>>
    BY <1>3 DEF ApplyRoutine
  <2>2. path_is_waiting /\ ~signaling => FALSE
    BY <1>0, <2>1
  <2>3. path_is_waiting' => path_is_waiting
    BY <1>3 DEF ApplyRoutine, begin_path, path_node_target, path_node_part,
       commit_path_node, commit_path, abort_path_upload, other_routine
  <2> QED BY <2>1, <2>2, <2>3
<1>4. CASE StartMove         BY <1>0, <1>4 DEF StartMove
<1>5. CASE execute_path      BY <1>5 DEF execute_path
<1>6. CASE execute_fly_queue BY <1>6 DEF execute_fly_queue
<1>7. CASE FlyCheck          BY <1>7 DEF FlyCheck
<1>8. CASE FlyMove           BY <1>0, <1>8 DEF FlyMove
<1>9. CASE MoveReturns       BY <1>9 DEF MoveReturns
<1>10. CASE CheckAfterMove   BY <1>0, <1>10 DEF CheckAfterMove
<1>11. CASE TakeResult       BY <1>11 DEF TakeResult
<1>12. CASE ReachNode        BY <1>12 DEF ReachNode
<1>13. CASE ReachTarget      BY <1>13 DEF ReachTarget
<1>14. ASSUME NEW id, NEW node, signal_path_segment(id, node)
       PROVE  WaitingMeansHeld'
  BY <1>14 DEF signal_path_segment
<1>15. CASE SegmentSignaled   BY <1>15 DEF SegmentSignaled
<1>16. CASE report_path_wait  BY <1>16 DEF report_path_wait
<1>17. CASE report_path_event BY <1>17 DEF report_path_event
<1>18. CASE LOCK              BY <1>18 DEF LOCK
<1>19. CASE UNLOCK            BY <1>19 DEF UNLOCK
<1>20. CASE request_abort     BY <1>20 DEF request_abort, AbortFlags, CancelAll
<1>21. CASE UNCHANGED movementVars BY <1>21 DEF movementVars
<1> QED
  BY <1>1, <1>2, <1>3, <1>4, <1>5, <1>6, <1>7, <1>8, <1>9, <1>10, <1>11,
     <1>12, <1>13, <1>14, <1>15, <1>16, <1>17, <1>18, <1>19, <1>20, <1>21
  DEF Next, MainStep, ArmStep, ControlStep, Interrupt

(* signal_path_segment accepts a continue only while the arm is held, and   *)
(* for the node it is held at.                                              *)
THEOREM WaitingIsHeld == Spec => []WaitingMeansHeld
<1>1. Init => WaitingMeansHeld
  BY DEF Init, WaitingMeansHeld
<1> QED BY InvAlways, <1>1, WaitStep, PTL DEF Spec

-----------------------------------------------------------------------------
(* What an abort stops                                                      *)

LEMMA HistoryIsStep == [HistoryNext]_historyVars => [Next]_movementVars
  BY Zenon DEF HistoryNext, Next, historyVars

(* During the motion it stopped, an aborted call goes on only to the checks *)
(* of the abort flag, which no routine clears before the call has returned; *)
(* only from "flymove" it starts the arm first.                             *)
HitInv ==
  /\ hit \in Hits
  /\ hit # "no" =>
       /\ motion_aborted
       /\ service \in {"moving", "flycheck", "flymove", "fault", "moved", "returned"}
       /\ service = "returned" => returned = "ABORTED"
  /\ hit = "late" <=> hit # "no" /\ service = "flymove"
  /\ hit \in {"stopped", "late"} => arm = "none"

(* After the abort the upload is closed and the PATH not READY, and no      *)
(* routine that would change that is past its checks.                       *)
VoidInv ==
  void => /\ ~path_upload_active /\ path_state # "READY"
          /\ service = "admitted" => call.op \notin {"commitPath", "executePath"}

LEMMA HitStep == Inv /\ HitInv /\ [HistoryNext]_historyVars => HitInv'
<1> SUFFICES ASSUME Inv, HitInv, [HistoryNext]_historyVars PROVE HitInv'
  OBVIOUS
<1>1. CASE request_abort /\ AbortRemembered
  <2>1. motion_aborted' /\ arm' = "none" /\ UNCHANGED <<service, returned>>
    BY <1>1 DEF request_abort, AbortFlags, CancelAll, callVars
  <2>2. CASE ~InMotion
    BY <1>1, <2>1, <2>2 DEF AbortRemembered, HitInv
  <2>3. CASE InMotion
    BY <1>1, <2>1, <2>3 DEF AbortRemembered, HitInv, InMotion, Hits
  <2> QED BY <2>2, <2>3
<1>2. CASE UNCHANGED historyVars
  BY <1>2 DEF historyVars, history, movementVars, callVars, armVars, HitInv
<1>3. ASSUME MainStep \/ ArmStep \/ ControlStep \/ Interrupt, StepRemembered, hit' # "no"
      PROVE  HitInv'
  <2>1. hit # "no" /\ motion_aborted /\ service' # "idle"
        /\ service \in {"moving", "flycheck", "flymove", "fault", "moved", "returned"}
        /\ (service = "returned" => returned = "ABORTED")
    BY <1>3 DEF StepRemembered, HitInv
  <2>2. /\ hit \in {"stopped", "late", "restarted"}
        /\ hit' = IF hit = "late" /\ service' # "flymove" THEN "restarted" ELSE hit
        /\ hit = "late" <=> service = "flymove"
        /\ hit \in {"stopped", "late"} => arm = "none"
    BY <1>3, <2>1 DEF StepRemembered, HitInv, Hits
  <2> DEFINE Stays == UNCHANGED <<motion_aborted, service, returned>>
             Still == arm = "none" => arm' = "none"
  <2>3. ASSUME Stays, Still PROVE HitInv'
    BY <2>1, <2>2, <2>3 DEF HitInv, Hits
  <2>4. ASSUME motion_aborted' = motion_aborted, service # "flymove", Still,
               service' \in {"moving", "flycheck", "fault", "moved"}
        PROVE  HitInv'
    BY <2>1, <2>2, <2>4 DEF HitInv, Hits
  <2>5. ASSUME motion_aborted' = motion_aborted, service # "flymove", Still,
               Return("ABORTED")
        PROVE HitInv'
    BY <2>1, <2>2, <2>5 DEF HitInv, Hits, Return
  <2>6. ~ reset_abort /\ (\A c \in Commands : ~ call_service(c))
    BY <2>1 DEF reset_abort, call_service
  <2>7. ~ ApplyRoutine /\ ~ StartMove /\ ~ execute_path /\ ~ execute_fly_queue /\ ~ TakeResult
    BY <2>1 DEF ApplyRoutine, StartMove, execute_path, execute_fly_queue, TakeResult
  <2>8. ASSUME FlyCheck PROVE HitInv'
    BY <2>1, <2>5, <2>8 DEF FlyCheck, armVars
  <2>9. ASSUME FlyMove PROVE HitInv'
    <3>1. /\ service = "flymove" /\ motion_aborted' = motion_aborted
          /\ service' \in {"moving", "flycheck", "fault"}
      BY <2>9 DEF FlyMove
    <3>2. hit' = "restarted"
      BY <2>2, <3>1
    <3> QED BY <2>1, <3>1, <3>2 DEF HitInv, Hits
  <2>10. ASSUME MoveReturns PROVE HitInv'
    BY <2>4, <2>10 DEF MoveReturns, armVars
  <2>11. ASSUME CheckAfterMove PROVE HitInv'
    BY <2>1, <2>5, <2>11 DEF CheckAfterMove, ResultOfMove, armVars
  <2>12. ASSUME ArmStep PROVE Stays /\ Still
    BY <2>12 DEF ArmStep, ReachNode, ReachTarget, callVars
  <2>13. ASSUME ControlStep PROVE Stays /\ Still
    BY <2>13 DEF ControlStep, signal_path_segment, SegmentSignaled, callVars, armVars
  <2>14. ASSUME Interrupt PROVE Stays /\ Still
    BY <2>14 DEF Interrupt, report_path_wait, report_path_event, LOCK, UNLOCK, callVars, armVars
  <2> QED
    BY <1>3, <2>3, <2>6, <2>7, <2>8, <2>9, <2>10, <2>11, <2>12, <2>13, <2>14 DEF MainStep
<1>4. ASSUME StepRemembered, hit' = "no" PROVE HitInv'
  BY <1>4 DEF HitInv, Hits
<1> QED BY <1>1, <1>2, <1>3, <1>4 DEF HistoryNext

LEMMA VoidStep == Inv /\ VoidInv /\ [HistoryNext]_historyVars => VoidInv'
<1> SUFFICES ASSUME Inv, VoidInv, [HistoryNext]_historyVars PROVE VoidInv'
  OBVIOUS
<1>1. CASE request_abort /\ AbortRemembered
  <2>1. ~path_upload_active' /\ path_state' = "ABORTED" /\ UNCHANGED <<service, call>>
    BY <1>1 DEF request_abort, AbortFlags, callVars
  <2>2. void' => void \/ ~PastItsCheck
    BY <1>1 DEF AbortRemembered
  <2> QED BY <2>1, <2>2 DEF VoidInv, PastItsCheck
<1>2. CASE UNCHANGED historyVars
  BY <1>2 DEF historyVars, history, movementVars, uploadVars, statusVars, callVars, VoidInv
<1>3. ASSUME MainStep \/ ArmStep \/ ControlStep \/ Interrupt, StepRemembered, void'
      PROVE  VoidInv'
  <2>1. void /\ ~Begun /\ ~path_upload_active /\ path_state # "READY"
        /\ (service = "admitted" => call.op \notin {"commitPath", "executePath"})
    BY <1>3 DEF StepRemembered, VoidInv
  <2>2. ASSUME path_upload_active' = path_upload_active, path_state' # "READY",
               \/ UNCHANGED <<service, call>> \/ service' # "admitted"
        PROVE  VoidInv'
    BY <2>1, <2>2 DEF VoidInv
  <2>3. ASSUME UNCHANGED <<path_upload_active, path_state>>,
               \/ UNCHANGED <<service, call>> \/ service' # "admitted"
        PROVE  VoidInv'
    BY <2>1, <2>2, <2>3
  <2>4. ASSUME reset_abort PROVE VoidInv'
    BY <2>3, <2>4 DEF reset_abort, uploadVars, statusVars
  <2>5. ASSUME NEW c \in Commands, call_service(c) PROVE VoidInv'
    <3>1. UNCHANGED <<path_upload_active, path_state>> /\ call' = c
      BY <2>5 DEF call_service, uploadVars, statusVars
    <3>2. service' = "admitted" => Admits(c)
      BY <2>5 DEF call_service, CallRefused, CallAborted, CallAdmitted, Return
    <3>3. c.op \in {"commitPath", "executePath"} => ~Admits(c)
      BY <2>1 DEF Admits, AdmitsPathCommand, AdmitsCommitPath, AdmitsOther, AdmitsAddFly, Uploading
    <3> QED BY <2>1, <3>1, <3>2, <3>3 DEF VoidInv
  <2>6. ASSUME ApplyRoutine PROVE VoidInv'
    <3>1. call.op # "commitPath" /\ service = "admitted"
      BY <2>1, <2>6 DEF ApplyRoutine
    <3>2. ~begin_path
      BY <2>1, <3>1 DEF begin_path, Begun, Return
    <3>3. ASSUME abort_path_upload PROVE VoidInv'
      BY <2>1, <3>3 DEF abort_path_upload, VoidInv, Return
    <3>4. ASSUME path_node_target PROVE VoidInv'
      BY <2>3, <3>4 DEF path_node_target, statusVars, Return
    <3>5. ASSUME path_node_part \/ commit_path_node \/ other_routine PROVE VoidInv'
      BY <2>3, <3>5 DEF path_node_part, commit_path_node, other_routine, uploadVars, statusVars,
                        Return
    <3> QED BY <2>6, <3>1, <3>2, <3>3, <3>4, <3>5 DEF ApplyRoutine, commit_path
  <2>7. ASSUME StartMove \/ execute_fly_queue \/ FlyCheck \/ FlyMove \/ MoveReturns \/ TakeResult
        PROVE  VoidInv'
    BY <2>3, <2>7 DEF StartMove, execute_fly_queue, FlyCheck, FlyMove, MoveReturns, TakeResult,
                      Return, uploadVars, statusVars
  <2>8. ~ execute_path
    BY <2>1 DEF execute_path
  <2>9. ASSUME CheckAfterMove PROVE VoidInv'
    BY <2>1, <2>2, <2>9 DEF CheckAfterMove, Return, uploadVars, statusVars
  <2>10. ASSUME ArmStep PROVE VoidInv'
    BY <2>3, <2>10 DEF ArmStep, ReachNode, ReachTarget, callVars, uploadVars, statusVars
  <2>11. ASSUME ControlStep PROVE VoidInv'
    BY <2>2, <2>1, <2>11 DEF ControlStep, signal_path_segment, SegmentSignaled, callVars,
                             uploadVars, statusVars
  <2>12. ASSUME Interrupt PROVE VoidInv'
    BY <2>2, <2>1, <2>12 DEF Interrupt, report_path_wait, report_path_event, LOCK, UNLOCK,
                             callVars, uploadVars, statusVars
  <2> QED BY <1>3, <2>4, <2>5, <2>6, <2>7, <2>8, <2>9, <2>10, <2>11, <2>12 DEF MainStep
<1>4. ASSUME ~void' PROVE VoidInv'
  BY <1>4 DEF VoidInv
<1> QED BY <1>1, <1>2, <1>3, <1>4 DEF HistoryNext

LEMMA HistoryAlways == HistorySpec => [](Inv /\ HitInv /\ VoidInv)
<1>1. HistoryInit => Inv /\ HitInv /\ VoidInv
  BY InvInit DEF HistoryInit, HitInv, Hits, VoidInv, Init
<1>2. Inv /\ [HistoryNext]_historyVars => Inv'
  BY HistoryIsStep, TypeStep, PathStep DEF Inv
<1> QED BY <1>1, <1>2, HitStep, VoidStep, PTL DEF HistorySpec

(* A motion command the arm was stopped in by an abort answers ABORTED if it *)
(* answers, and leaves the arm at rest until then; only a MOVEFLY between    *)
(* whose check and start the abort falls moves it once more                 *)
(* (ROS2_MOVEMENTS_1.txt:134-158, 678-683, 968-1058 and 1544-1554).          *)
THEOREM AbortIsReported == HistorySpec => []AbortedMotionIsReported
<1>1. HitInv => AbortedMotionIsReported
  BY DEF HitInv, AbortedMotionIsReported
<1> QED BY HistoryAlways, <1>1, PTL

(* An aborted PATH never moves the arm until it is begun again               *)
(* (ROS2_MOVEMENTS_1.txt:134-142 and 1450-1548).                             *)
THEOREM AbortedStaysDown == HistorySpec => AbortedPathStaysDown
<1>1. Inv /\ VoidInv /\ [HistoryNext]_historyVars
        => [arm # "path" /\ arm' = "path" => ~void]_historyVars
  <2> SUFFICES ASSUME VoidInv, Inv, HistoryNext, arm # "path", arm' = "path" PROVE ~void
    OBVIOUS
  <2>1. execute_path
    <3>1. ~ request_abort
      BY DEF request_abort, CancelAll
    <3>2. ~ ArmStep /\ ~ ControlStep /\ ~ Interrupt
      BY DEF ArmStep, ReachNode, ReachTarget, PassNode, ControlStep, signal_path_segment,
         SegmentSignaled, Interrupt, report_path_wait, report_path_event, LOCK, UNLOCK, armVars
    <3>3. ~ reset_abort /\ (\A c \in Commands : ~ call_service(c)) /\ ~ ApplyRoutine
      BY DEF reset_abort, call_service, ApplyRoutine, armVars
    <3>4. ~ StartMove /\ ~ execute_fly_queue /\ ~ FlyCheck /\ ~ FlyMove /\ ~ MoveReturns
          /\ ~ CheckAfterMove /\ ~ TakeResult
      BY DEF StartMove, execute_fly_queue, FlyCheck, FlyMove, MoveReturns, CheckAfterMove,
         TakeResult, armVars
    <3> QED BY <3>1, <3>2, <3>3, <3>4 DEF HistoryNext, MainStep
  <2> QED BY <2>1 DEF execute_path, VoidInv
<1> QED BY <1>1, HistoryAlways, PTL DEF HistorySpec, AbortedPathStaysDown

-----------------------------------------------------------------------------
(***************************************************************************)
(* The FLY queue sender: a script whose commands empty the queue before     *)
(* they fill it runs exactly its own elements.  In the order of the loop    *)
(* the queue holds what the script has added since it was emptied last      *)
(* (BetweenInv); the routine of a command changes it as the next command of *)
(* the script says (ServedInv); and execute_fly_queue keeps what it has     *)
(* taken (TakenInv).  An abort may only take elements away.                 *)
(***************************************************************************)

(* The queue holds the elements of the script in front of position i.      *)
Holds(count, i) ==
  LET added == Cardinality(AddedBefore(script, i)) IN
    count <= added /\ (~interrupted => count = added)

Moving == {"moving", "moved"}

(* The queue, between the commands, ... *)
BetweenInv ==
  sender = "ready" =>
    /\ position > 1 => service = "idle"
    /\ EmptiedBefore(script, position) => Holds(fly_queue_count, position)

(* ... and while a command of the sender is served.                        *)
ServedInv ==
  sender = "waiting" =>
    /\ service # "idle" /\ position <= Len(script)
    /\ sent = CommandOf(script[position])
    /\ service # "cleared" => call = sent
    /\ EmptiedBefore(script, position) /\ service \in {"cleared", "admitted"} =>
         Holds(fly_queue_count, position)
    /\ EmptiedBefore(script, position) /\ sent.op = "move" /\ service \in Moving =>
         Holds(fly_queue_count, position)
    /\ EmptiedBefore(script, position + 1) /\ service = "returned" /\ returned = "OK" =>
         Holds(fly_queue_count, position + 1)

(* What execute_fly_queue has taken from the queue.                        *)
TakenInv ==
  RunsTheQueue /\ EmptiedBefore(script, position) => Holds(fly_last, position)

(* Who is in the loop of the MOVEFLYs, or moves, serves a motion command.   *)
LoopInv ==
  /\ service \in {"flycheck", "flymove", "fault"} => call.op = "executeFlyQueue"
  /\ service \in Moving => call.op \in {"move", "executePath", "executeFlyQueue"}

CountInv ==
  /\ fly_queue_count \in Nat /\ fly_last \in Nat
  /\ position \in Nat \ {0}

SInv == CountInv /\ LoopInv /\ BetweenInv /\ ServedInv /\ TakenInv

-----------------------------------------------------------------------------
(* What a command of the script is for the controller.                     *)
LEMMA CommandOps ==
  ASSUME NEW c
  PROVE  /\ c.name \in Empties => CommandOf(c).op = c.name
         /\ c.name \in DOMAIN FlyQueueCommands => CommandOf(c).op = "addFly"
         /\ c.name \notin Empties \cup DOMAIN FlyQueueCommands =>
              CommandOf(c).op \in {"setFly", "move", "setting"}
<1>1. /\ DOMAIN PlainCommands = Empties
      /\ DOMAIN FlyQueueCommands = DOMAIN AddFlyKind
      /\ Empties \cap DOMAIN AddFlyKind = {}
  BY DEF PlainCommands, Empties, FlyQueueCommands, AddFlyKind
<1> QED
  BY <1>1 DEF CommandOf

LEMMA AddedFinite ==
  ASSUME NEW s, NEW i \in Nat \ {0}
  PROVE  IsFiniteSet(AddedBefore(s, i)) /\ Cardinality(AddedBefore(s, i)) \in Nat
<1>1. IsFiniteSet(1 .. i - 1)
  BY FS_Interval
<1>2. AddedBefore(s, i) \subseteq 1 .. i - 1
  BY DEF AddedBefore
<1>3. IsFiniteSet(AddedBefore(s, i))
  BY <1>1, <1>2, FS_Subset
<1> QED
  BY <1>3, FS_CardinalityType

(* One command further: an element more, none, or those there were.        *)
LEMMA AddedNext ==
  ASSUME NEW s, NEW i \in Nat \ {0}
  PROVE  /\ s[i].name \in Empties =>
              /\ EmptiedBefore(s, i + 1)
              /\ Cardinality(AddedBefore(s, i + 1)) = 0
         /\ s[i].name \notin Empties =>
              (EmptiedBefore(s, i + 1) <=> EmptiedBefore(s, i))
         /\ s[i].name \in DOMAIN FlyQueueCommands =>
              /\ s[i].name \notin Empties
              /\ Cardinality(AddedBefore(s, i + 1)) = Cardinality(AddedBefore(s, i)) + 1
         /\ s[i].name \notin Empties \cup DOMAIN FlyQueueCommands =>
              AddedBefore(s, i + 1) = AddedBefore(s, i)
<1>1. ASSUME s[i].name \in Empties
      PROVE  /\ EmptiedBefore(s, i + 1) 
             /\ Cardinality(AddedBefore(s, i + 1)) = 0
  <2>1. i \in 1 .. (i + 1) - 1 /\ \A k \in 1 .. (i + 1) - 1 : i \in k .. (i + 1) - 1
    OBVIOUS
  <2>2. AddedBefore(s, i + 1) = {}
    BY <1>1, <2>1 DEF AddedBefore
  <2> QED
    BY <1>1, <2>1, <2>2, FS_EmptySet DEF EmptiedBefore
<1>2. (i + 1) - 1 = i /\ 1 .. i = (1 .. i - 1) \cup {i} /\ i \notin 1 .. i - 1
  OBVIOUS
<1>3. ASSUME s[i].name \notin Empties
      PROVE  EmptiedBefore(s, i + 1) <=> EmptiedBefore(s, i)
  <2>1. ASSUME EmptiedBefore(s, i + 1) PROVE EmptiedBefore(s, i)
    <3>1. PICK j \in 1 .. (i + 1) - 1 : s[j].name \in Empties
      BY <2>1 DEF EmptiedBefore
    <3>2. j # i
      BY <1>3, <3>1
    <3>3. j \in 1 .. i - 1
      BY <3>2
    <3> QED
      BY <3>1, <3>3 DEF EmptiedBefore
  <2>2. ASSUME EmptiedBefore(s, i) PROVE EmptiedBefore(s, i + 1)
    <3>1. PICK j \in 1 .. i - 1 : s[j].name \in Empties
      BY <2>2 DEF EmptiedBefore
    <3>2. j \in 1 .. (i + 1) - 1
      OBVIOUS
    <3> QED
      BY <3>1, <3>2 DEF EmptiedBefore
  <2> QED
    BY <2>1, <2>2
<1>4. \A k \in 1 .. i - 1 : k .. i = (k .. i - 1) \cup {i}
  OBVIOUS
<1>5. i .. i - 1 = {} /\ i .. i = {i}
  OBVIOUS
<1>6. ASSUME s[i].name \notin Empties
      PROVE  AddedBefore(s, i + 1)
               = AddedBefore(s, i) \cup {k \in {i} : s[i].name \in DOMAIN FlyQueueCommands}
  <2> DEFINE Kept(k, n) == \A j \in k .. n : s[j].name \notin Empties
  <2>1. \A k \in 1 .. i - 1 : Kept(k, i) <=> Kept(k, i - 1)
    <3> SUFFICES ASSUME NEW k \in 1 .. i - 1
                 PROVE  Kept(k, i) <=> Kept(k, i - 1)
      OBVIOUS
    <3>1. k .. i = (k .. i - 1) \cup {i}
      BY <1>4
    <3>2. ASSUME Kept(k, i - 1), NEW j \in k .. i
          PROVE  s[j].name \notin Empties
      <4>1. j \in k .. i - 1 \/ j = i
        BY <3>1
      <4> QED
        BY <4>1, <3>2, <1>6
    <3>3. ASSUME Kept(k, i), NEW j \in k .. i - 1
          PROVE  s[j].name \notin Empties
      BY <3>1, <3>3
    <3> QED
      BY <3>2, <3>3
  <2>2. Kept(i, i)
    BY <1>5, <1>6, Zenon
  <2>3. AddedBefore(s, i + 1)
          = {k \in 1 .. i : s[k].name \in DOMAIN FlyQueueCommands /\ Kept(k, i)}
    BY <1>2, Zenon DEF AddedBefore
  <2>4. AddedBefore(s, i)
          = {k \in 1 .. i - 1 : s[k].name \in DOMAIN FlyQueueCommands /\ Kept(k, i - 1)}
    BY Zenon DEF AddedBefore
  <2> HIDE DEF Kept
  <2> QED
    BY <1>2, <2>1, <2>2, <2>3, <2>4
<1>7. ASSUME s[i].name \in DOMAIN FlyQueueCommands
      PROVE  /\ s[i].name \notin Empties
             /\ Cardinality(AddedBefore(s, i + 1)) = Cardinality(AddedBefore(s, i)) + 1
  <2>1. s[i].name \notin Empties
    BY <1>7 DEF FlyQueueCommands, Empties
  <2>2. AddedBefore(s, i + 1) = AddedBefore(s, i) \cup {i}
    BY <1>6, <1>7, <2>1
  <2>3. i \notin AddedBefore(s, i)
    BY <1>2 DEF AddedBefore
  <2>4. IsFiniteSet(AddedBefore(s, i))
    BY AddedFinite
  <2> QED
    BY <2>1, <2>2, <2>3, <2>4, FS_AddElement
<1>8. ASSUME s[i].name \notin Empties \cup DOMAIN FlyQueueCommands
      PROVE  AddedBefore(s, i + 1) = AddedBefore(s, i)
  BY <1>6, <1>8
<1> QED
  BY <1>1, <1>3, <1>7, <1>8

(* What the command in call_service says of the script.                     *)
LEMMA SentIs ==
  ASSUME NEW c, NEW o, o = CommandOf(c).op
  PROVE  /\ o \in {"clearFlyQueue", "executeFlyQueue", "addFly",
                   "setFly", "move", "setting"}
         /\ o = "addFly" => c.name \in DOMAIN FlyQueueCommands
         /\ o \in Empties => c.name \in Empties
         /\ o \in {"setFly", "move", "setting"} =>
              c.name \notin Empties \cup DOMAIN FlyQueueCommands
<1>1. CASE c.name \in Empties
  BY <1>1, CommandOps DEF Empties
<1>2. CASE c.name \in DOMAIN FlyQueueCommands
  BY <1>2, CommandOps DEF Empties
<1>3. CASE c.name \notin Empties \cup DOMAIN FlyQueueCommands
  BY <1>3, CommandOps DEF Empties
<1> QED
  BY <1>1, <1>2, <1>3

(* Nothing has emptied the queue in front of the first command.             *)
LEMMA NothingBefore == \A s : ~EmptiedBefore(s, 1)
BY DEF EmptiedBefore

(* The queue after one command more.                                       *)
LEMMA HoldsNext ==
  ASSUME NEW n \in Nat, NEW i \in Nat \ {0}
  PROVE  /\ script[i].name \in Empties => Holds(0, i + 1)
         /\ script[i].name \in DOMAIN FlyQueueCommands /\ Holds(n, i) =>
              Holds(n + 1, i + 1)
         /\ script[i].name \notin Empties \cup DOMAIN FlyQueueCommands /\ Holds(n, i) =>
              Holds(n, i + 1)
<1> DEFINE B == Cardinality(AddedBefore(script, i))
           A == Cardinality(AddedBefore(script, i + 1))
<1>1. /\ script[i].name \in Empties => A = 0
      /\ script[i].name \in DOMAIN FlyQueueCommands => A = B + 1
      /\ script[i].name \notin Empties \cup DOMAIN FlyQueueCommands => A = B
  BY AddedNext
<1>2. A \in Nat /\ B \in Nat
  BY AddedFinite
<1>3. \A m : /\ Holds(m, i) <=> m <= B /\ (~interrupted => m = B)
             /\ Holds(m, i + 1) <=> m <= A /\ (~interrupted => m = A)
  BY DEF Holds
<1> HIDE DEF A, B
<1>4. CASE script[i].name \in Empties
  <2>1. script[i].name \notin DOMAIN FlyQueueCommands
    BY <1>4 DEF Empties, FlyQueueCommands
  <2> QED
    BY <1>1, <1>3, <1>4, <2>1
<1>5. CASE script[i].name \in DOMAIN FlyQueueCommands
  <2>1. script[i].name \notin Empties
    BY <1>5 DEF Empties, FlyQueueCommands
  <2>2. A = B + 1
    BY <1>1, <1>5
  <2>3. Holds(n, i) => Holds(n + 1, i + 1)
    BY <1>2, <1>3, <2>2
  <2> QED
    BY <1>5, <2>1, <2>3
<1>6. CASE script[i].name \notin Empties \cup DOMAIN FlyQueueCommands
  BY <1>1, <1>3, <1>6
<1> QED
  BY <1>4, <1>5, <1>6

(* An abort empties the queue, and counts as one.                          *)
LEMMA EmptyHolds ==
  ASSUME NEW i \in Nat \ {0}, interrupted
  PROVE  Holds(0, i)
BY AddedFinite DEF Holds

-----------------------------------------------------------------------------
LEMMA SenderInitInv == SenderInit => SInv
<1> SUFFICES ASSUME SenderInit PROVE SInv
  OBVIOUS
<1> USE DEF SenderInit, Init, StartOf
<1>1. CountInv
  BY DEF CountInv
<1>2. LoopInv
  BY DEF LoopInv, Moving
<1>3. BetweenInv
  BY NothingBefore DEF BetweenInv
<1>4. ServedInv /\ TakenInv
  BY DEF ServedInv, TakenInv, RunsTheQueue
<1> QED
  BY <1>1, <1>2, <1>3, <1>4 DEF SInv

(* The steps of the sender itself.                                         *)
LEMMA SenderMoves ==
  SInv /\ (SendGoal \/ SendFails \/ LoopEnds \/ StartAgain) => SInv'
<1> SUFFICES ASSUME SInv PROVE SendGoal \/ SendFails \/ LoopEnds \/ StartAgain => SInv'
  OBVIOUS
<1> USE DEF SInv
<1>1. ASSUME SendGoal PROVE SInv'
  <2>1. /\ sender = "ready" /\ position <= Len(script) /\ service = "idle"
        /\ service' = "cleared" /\ sender' = "waiting"
        /\ sent' = CommandOf(script[position])
        /\ UNCHANGED <<fly_queue_count, fly_last, script, position, interrupted, call>>
    BY <1>1 DEF SendGoal, reset_abort, flyVars, loopVars
  <2>2. CountInv' /\ LoopInv'
    BY <2>1 DEF CountInv, LoopInv, Moving
  <2>3. BetweenInv' /\ TakenInv'
    BY <2>1 DEF BetweenInv, TakenInv, RunsTheQueue
  <2>4. ServedInv'
    BY <2>1 DEF ServedInv, BetweenInv, Holds, Moving
  <2> QED
    BY <2>2, <2>3, <2>4
<1>2. ASSUME SendFails \/ LoopEnds PROVE SInv'
  <2>1. /\ sender' \in {"stopped", "finished"}
        /\ UNCHANGED <<fly_queue_count, fly_last, script, position, interrupted,
                       service, call>>
    BY <1>2 DEF SendFails, LoopEnds, movementVars, flyVars, callVars, loopVars
  <2>2. CountInv' /\ LoopInv'
    BY <2>1 DEF CountInv, LoopInv, Moving
  <2>3. BetweenInv' /\ TakenInv' /\ ServedInv'
    BY <2>1 DEF BetweenInv, TakenInv, ServedInv, RunsTheQueue
  <2> QED
    BY <2>2, <2>3
<1>3. ASSUME StartAgain PROVE SInv'
  <2>1. /\ sender' \in {"ready", "stopped"} /\ position' = 1 /\ interrupted' = FALSE
        /\ UNCHANGED <<fly_queue_count, fly_last, service, call>>
    BY <1>3 DEF StartAgain, StartOf, movementVars, flyVars, callVars, loopVars
  <2>2. CountInv' /\ LoopInv'
    BY <2>1 DEF CountInv, LoopInv, Moving
  <2>3. BetweenInv'
    BY <2>1, NothingBefore DEF BetweenInv
  <2>4. TakenInv' /\ ServedInv'
    BY <2>1 DEF TakenInv, ServedInv, RunsTheQueue
  <2> QED
    BY <2>2, <2>3, <2>4
<1> QED
  BY <1>1, <1>2, <1>3

(* The checks of call_service: what it refuses returns no RESULT_OK.       *)
LEMMA ServeStep == SInv /\ Serve => SInv'
<1> SUFFICES ASSUME SInv, Serve PROVE SInv'
  OBVIOUS
<1> USE DEF SInv
<1>1. /\ service = "cleared" /\ call' = sent /\ fly_last' = fly_last
      /\ UNCHANGED <<script, position, sender, sent, interrupted>>
  BY DEF Serve, call_service, senderVars, loopVars
<1>2. \/ /\ service' = "returned" /\ returned' # "OK"
         /\ fly_queue_count' \in {fly_queue_count, 0}
      \/ service' = "admitted" /\ fly_queue_count' = fly_queue_count
  <2>1. CASE CallRefused(sent)
    BY <2>1 DEF CallRefused, Return
  <2>2. CASE CallAborted(sent)
    <3>1. /\ service' = "returned" /\ returned' = "ABORTED"
          /\ ClearFlyQueue \/ UNCHANGED flyVars
      BY <2>2 DEF CallAborted, Return
    <3>2. fly_queue_count' \in {fly_queue_count, 0}
      <4>1. CASE ClearFlyQueue
        BY <4>1 DEF ClearFlyQueue
      <4>2. CASE UNCHANGED flyVars
        BY <4>2 DEF flyVars
      <4> QED
        BY <3>1, <4>1, <4>2
    <3> QED
      BY <3>1, <3>2
  <2>3. CASE CallAdmitted(sent)
    BY <2>3 DEF CallAdmitted, Return
  <2> QED
    BY <2>1, <2>2, <2>3 DEF Serve, call_service
<1>3. CountInv' /\ LoopInv'
  BY <1>1, <1>2 DEF CountInv, LoopInv, Moving
<1>4. TakenInv'
  BY <1>1, <1>2 DEF TakenInv, RunsTheQueue
<1>6. BetweenInv'
  <2> SUFFICES ASSUME sender' = "ready" PROVE BetweenInv'
    BY DEF BetweenInv
  <2>1. position = 1
    BY <1>1 DEF BetweenInv, CountInv
  <2> QED
    BY <1>1, <2>1, NothingBefore DEF BetweenInv
<1>5. ServedInv'
  <2> SUFFICES ASSUME sender' = "waiting" PROVE ServedInv'
    BY DEF ServedInv
  <2>1. /\ position <= Len(script) /\ sent = CommandOf(script[position])
        /\ EmptiedBefore(script, position) => Holds(fly_queue_count, position)
    BY <1>1 DEF ServedInv
  <2> QED
    BY <1>1, <1>2, <2>1 DEF ServedInv, Moving, Holds
<1> QED
  BY <1>3, <1>4, <1>5, <1>6

LEMMA ResultStep == SInv /\ GetResult => SInv'
<1> SUFFICES ASSUME SInv, GetResult PROVE SInv'
  OBVIOUS
<1> USE DEF SInv
<1>1. /\ service = "returned" /\ service' = "idle"
      /\ fly_queue_count' \in {fly_queue_count, 0}
      /\ returned # "ABORTED" => fly_queue_count' = fly_queue_count
      /\ UNCHANGED <<fly_last, script, interrupted>>
  BY DEF GetResult, TakeResult, ClearFlyQueue, flyVars, loopVars
<1>2. \/ /\ sender = "waiting" /\ returned = "OK"
         /\ position' = position + 1 /\ sender' = "ready"
      \/ sender' # "waiting" /\ sender' # "ready" /\ position' = position
      \/ sender # "waiting" /\ sender' = sender /\ position' = position
  BY DEF GetResult, Succeeded
<1>3. CountInv' /\ LoopInv'
  BY <1>1, <1>2 DEF CountInv, LoopInv, Moving
<1>4. TakenInv' /\ ServedInv'
  BY <1>1, <1>2 DEF TakenInv, ServedInv, RunsTheQueue
<1>5. BetweenInv'
  <2>1. ASSUME sender = "waiting", returned = "OK", position' = position + 1
        PROVE  EmptiedBefore(script, position)' => Holds(fly_queue_count, position)'
    <3>1. EmptiedBefore(script, position + 1) => Holds(fly_queue_count, position + 1)
      BY <1>1, <2>1 DEF ServedInv
    <3> QED
      BY <1>1, <2>1, <3>1 DEF Holds
  <2>2. ASSUME sender # "waiting", sender' = "ready", sender' = sender,
               position' = position
        PROVE  position = 1
    BY <1>1, <2>2 DEF BetweenInv, CountInv
  <2> QED
    BY <1>1, <1>2, <2>1, <2>2, NothingBefore DEF BetweenInv
<1> QED
  BY <1>3, <1>4, <1>5

(* An abort empties the queue; what the controller has taken is taken.     *)
LEMMA AbortStep == SInv /\ Abort => SInv'
<1> SUFFICES ASSUME SInv, Abort PROVE SInv'
  OBVIOUS
<1> USE DEF SInv
<1>1. /\ fly_queue_count' = 0 /\ interrupted'
      /\ UNCHANGED <<fly_last, service, call, returned, script, position, sender, sent>>
  BY DEF Abort, request_abort, callVars, loopVars
<1>2. \A i \in Nat \ {0} : Cardinality(AddedBefore(script, i)) \in Nat
  BY AddedFinite
<1>3. CountInv' /\ LoopInv'
  BY <1>1 DEF CountInv, LoopInv, Moving
<1>4. TakenInv'
  BY <1>1 DEF TakenInv, RunsTheQueue, Holds
<1>5. /\ fly_queue_count' <= Cardinality(AddedBefore(script', position'))
      /\ fly_queue_count' <= Cardinality(AddedBefore(script', position' + 1))
  <2>1. position \in Nat \ {0} /\ position + 1 \in Nat \ {0}
    BY DEF CountInv
  <2>2. /\ Cardinality(AddedBefore(script, position)) \in Nat
        /\ Cardinality(AddedBefore(script, position + 1)) \in Nat
    BY <1>2, <2>1
  <2> QED
    BY <1>1, <2>2
<1>6. BetweenInv'
  BY <1>1, <1>5 DEF BetweenInv, Holds
<1>7. ServedInv'
  BY <1>1, <1>5 DEF ServedInv, Moving, Holds
<1> QED
  BY <1>3, <1>4, <1>6, <1>7

(* The assignments of the routine: an element more, none, or those before. *)
LEMMA RoutineStep == SInv /\ ApplyRoutine /\ UNCHANGED senderVars => SInv'
<1> SUFFICES ASSUME SInv, ApplyRoutine, UNCHANGED senderVars PROVE SInv'
  OBVIOUS
<1> USE DEF SInv
<1>1. /\ service = "admitted" /\ service' = "returned"
      /\ UNCHANGED <<fly_last, call, script, position, sender, sent, interrupted>>
  <2>1. service' = "returned"
    BY DEF ApplyRoutine, begin_path, path_node_target, path_node_part,
           commit_path_node, commit_path, abort_path_upload, other_routine, Return
  <2> QED
    BY <2>1 DEF ApplyRoutine, loopVars, senderVars
<1>2. \/ call.op = "addFly" /\ fly_queue_count' = fly_queue_count + 1
      \/ call.op = "clearFlyQueue" /\ fly_queue_count' = 0
      \/ call.op \notin {"addFly", "clearFlyQueue", "executeFlyQueue"}
           /\ fly_queue_count' = fly_queue_count
  <2>1. CASE other_routine
    BY <2>1 DEF other_routine, ClearFlyQueue, flyVars
  <2>2. CASE begin_path \/ path_node_target
    BY <2>2 DEF begin_path, path_node_target, flyVars
  <2>3. CASE path_node_part
    BY <2>3 DEF path_node_part, PartOf, flyVars
  <2>4. CASE commit_path_node \/ commit_path \/ abort_path_upload
    BY <2>4 DEF commit_path_node, commit_path, abort_path_upload, flyVars
  <2> QED
    BY <2>1, <2>2, <2>3, <2>4 DEF ApplyRoutine
<1>3. CountInv' /\ LoopInv'
  BY <1>1, <1>2 DEF CountInv, LoopInv, Moving
<1>4. TakenInv'
  BY <1>1 DEF TakenInv, RunsTheQueue
<1>5. BetweenInv'
  <2> SUFFICES ASSUME sender' = "ready" PROVE BetweenInv'
    BY DEF BetweenInv
  <2>1. position = 1
    BY <1>1 DEF BetweenInv, CountInv
  <2> QED
    BY <1>1, <2>1, NothingBefore DEF BetweenInv
<1>6. ServedInv'
  <2> SUFFICES ASSUME sender = "waiting", EmptiedBefore(script, position + 1)
               PROVE  Holds(fly_queue_count', position + 1)
    BY <1>1 DEF ServedInv, Moving, Holds
  <2> DEFINE c == script[position]
  <2>1. /\ call = sent /\ sent = CommandOf(c)
        /\ EmptiedBefore(script, position) => Holds(fly_queue_count, position)
    BY <1>1 DEF ServedInv
  <2>2. position \in Nat \ {0} /\ fly_queue_count \in Nat
    BY DEF CountInv
  <2> HIDE DEF c
  <2>3. CASE call.op = "clearFlyQueue"
    <3>1. c.name \in Empties
      BY <2>1, <2>3, SentIs DEF Empties
    <3>2. fly_queue_count' = 0
      BY <1>2, <2>3
    <3> QED
      BY <2>2, <3>1, <3>2, HoldsNext DEF c
  <2>4. CASE call.op = "addFly"
    <3>1. c.name \in DOMAIN FlyQueueCommands
      BY <2>1, <2>4, SentIs
    <3>2. EmptiedBefore(script, position)
      BY <2>2, <3>1, AddedNext DEF c
    <3>3. fly_queue_count' = fly_queue_count + 1
      BY <1>2, <2>4
    <3> QED
      BY <2>1, <2>2, <3>1, <3>2, <3>3, HoldsNext DEF c
  <2>5. CASE call.op \notin {"addFly", "clearFlyQueue"}
    <3>1. /\ call.op \notin {"addFly", "clearFlyQueue", "executeFlyQueue"}
          /\ fly_queue_count' = fly_queue_count
      BY <1>2, <2>5
    <3>2. c.name \notin Empties \cup DOMAIN FlyQueueCommands
      <4>1. call.op \in {"setFly", "move", "setting"}
        BY <2>1, <3>1, SentIs
      <4> QED
        BY <2>1, <4>1, SentIs
    <3>3. EmptiedBefore(script, position)
      BY <2>2, <3>2, AddedNext DEF c
    <3> QED
      BY <2>1, <2>2, <3>1, <3>2, <3>3, HoldsNext DEF c
  <2> QED
    BY <2>3, <2>4, <2>5
<1> QED
  BY <1>3, <1>4, <1>5, <1>6

(* The motions: execute_fly_queue takes the queue, nobody adds to it or     *)
(* takes from it until the check after the last MOVE empties it.           *)
LEMMA MotionStep ==
  /\ SInv /\ UNCHANGED senderVars
  /\ StartMove \/ execute_fly_queue \/ FlyCheck \/ FlyMove \/ MoveReturns \/ ReachTarget
  => SInv'
<1> SUFFICES ASSUME SInv, UNCHANGED senderVars
             PROVE  StartMove \/ execute_fly_queue \/ FlyCheck \/ FlyMove
                      \/ MoveReturns \/ ReachTarget => SInv'
  OBVIOUS
<1> USE DEF SInv
<1>1. UNCHANGED <<script, position, sender, sent, interrupted>>
  BY DEF senderVars
<1>2. ASSUME service # "idle"
      PROVE  BetweenInv'
  <2>1. sender = "ready" => position = 1
    BY <1>2 DEF BetweenInv, CountInv
  <2> QED
    BY <1>1, <2>1, NothingBefore DEF BetweenInv
<1>3. ASSUME sender = "waiting", service # "cleared"
      PROVE  call = sent
  BY <1>3 DEF ServedInv
<1>4. ASSUME StartMove PROVE SInv'
  <2>1. /\ service = "admitted" /\ call.op = "move" /\ service' = "moving"
        /\ UNCHANGED <<fly_queue_count, fly_last, call>>
    BY <1>4 DEF StartMove, flyVars, loopVars
  <2>2. CountInv' /\ LoopInv'
    BY <1>1, <2>1 DEF CountInv, LoopInv, Moving
  <2>3. TakenInv'
    BY <1>1, <1>3, <2>1 DEF TakenInv, RunsTheQueue
  <2>4. ServedInv'
    BY <1>1, <2>1 DEF ServedInv, Moving, Holds
  <2>9. BetweenInv'
    BY <1>2, <2>1
  <2> QED
    BY <2>2, <2>3, <2>4, <2>9
<1>5. ASSUME execute_fly_queue PROVE SInv'
  <2>1. /\ service = "admitted" /\ call.op = "executeFlyQueue" /\ service' = "flycheck"
        /\ fly_last' = fly_queue_count
        /\ UNCHANGED <<fly_queue_count, call>>
    BY <1>5 DEF execute_fly_queue, flyVars
  <2>2. CountInv' /\ LoopInv'
    BY <1>1, <2>1 DEF CountInv, LoopInv, Moving
  <2>3. TakenInv'
    BY <1>1, <2>1 DEF TakenInv, RunsTheQueue, ServedInv, Holds
  <2>4. ServedInv'
    BY <1>1, <2>1 DEF ServedInv, Moving
  <2>9. BetweenInv'
    BY <1>2, <2>1
  <2> QED
    BY <2>2, <2>3, <2>4, <2>9
<1>6. ASSUME FlyCheck PROVE SInv'
  <2>1. /\ service = "flycheck" /\ UNCHANGED <<fly_last, call>>
        /\ \/ /\ service' = "returned" /\ returned' = "ABORTED"
              /\ fly_queue_count' = 0
           \/ service' = "flymove" /\ fly_queue_count' = fly_queue_count
    BY <1>6 DEF FlyCheck, Return, ClearFlyQueue, flyVars, loopVars
  <2>2. CountInv' /\ LoopInv'
    BY <1>1, <2>1 DEF CountInv, LoopInv, Moving
  <2>3. TakenInv'
    BY <1>1, <2>1 DEF TakenInv, RunsTheQueue, Holds
  <2>4. ServedInv'
    BY <1>1, <2>1 DEF ServedInv, Moving
  <2>9. BetweenInv'
    BY <1>2, <2>1
  <2> QED
    BY <2>2, <2>3, <2>4, <2>9
<1>7. ASSUME FlyMove PROVE SInv'
  <2>1. /\ service = "flymove" /\ service' \in {"flycheck", "fault", "moving"}
        /\ UNCHANGED <<fly_queue_count, fly_last, call>>
    BY <1>7 DEF FlyMove, flyVars
  <2>2. call.op = "executeFlyQueue"
    BY <2>1 DEF LoopInv
  <2>3. CountInv' /\ LoopInv'
    BY <1>1, <2>1, <2>2 DEF CountInv, LoopInv, Moving
  <2>4. TakenInv'
    BY <1>1, <2>1 DEF TakenInv, RunsTheQueue, Holds
  <2>5. ServedInv'
    BY <1>1, <2>1, <2>2 DEF ServedInv, Moving
  <2>9. BetweenInv'
    BY <1>2, <2>1
  <2> QED
    BY <2>3, <2>4, <2>5, <2>9
<1>8. ASSUME MoveReturns PROVE SInv'
  <2>1. /\ service = "moving" /\ service' = "moved"
        /\ UNCHANGED <<fly_queue_count, fly_last, call>>
    BY <1>8 DEF MoveReturns, flyVars, loopVars
  <2>2. CountInv' /\ LoopInv'
    BY <1>1, <2>1 DEF CountInv, LoopInv, Moving
  <2>3. TakenInv'
    BY <1>1, <2>1 DEF TakenInv, RunsTheQueue
  <2>4. ServedInv'
    BY <1>1, <2>1 DEF ServedInv, Moving, Holds
  <2>9. BetweenInv'
    BY <1>2, <2>1
  <2> QED
    BY <2>2, <2>3, <2>4, <2>9
<1>9. ASSUME ReachTarget PROVE SInv'
  <2>1. UNCHANGED <<fly_queue_count, fly_last, call, service, returned>>
    BY <1>9 DEF ReachTarget, flyVars, callVars, loopVars
  <2>2. CountInv' /\ LoopInv'
    BY <1>1, <2>1 DEF CountInv, LoopInv
  <2>3. TakenInv'
    BY <1>1, <2>1 DEF TakenInv, RunsTheQueue, Holds
  <2>4. ServedInv' /\ BetweenInv'
    BY <1>1, <2>1 DEF ServedInv, BetweenInv, Holds
  <2> QED
    BY <2>2, <2>3, <2>4
<1> QED
  BY <1>4, <1>5, <1>6, <1>7, <1>8, <1>9

LEMMA LastMoveStep == SInv /\ CheckAfterMove /\ UNCHANGED senderVars => SInv'
<1> SUFFICES ASSUME SInv, CheckAfterMove, UNCHANGED senderVars PROVE SInv'
  OBVIOUS
<1> USE DEF SInv
<1>1. /\ service = "moved" /\ service' = "returned"
      /\ UNCHANGED <<fly_last, call, script, position, sender, sent, interrupted>>
  BY DEF CheckAfterMove, Return, loopVars, senderVars
<1>2. fly_queue_count' = IF call.op = "executeFlyQueue" THEN 0 ELSE fly_queue_count
  BY DEF CheckAfterMove, ClearFlyQueue, flyVars
<1>3. CountInv' /\ LoopInv'
  BY <1>1, <1>2 DEF CountInv, LoopInv, Moving
<1>4. TakenInv'
  BY <1>1 DEF TakenInv, RunsTheQueue
<1>5. BetweenInv'
  <2> SUFFICES ASSUME sender' = "ready" PROVE BetweenInv'
    BY DEF BetweenInv
  <2>1. position = 1
    BY <1>1 DEF BetweenInv, CountInv
  <2> QED
    BY <1>1, <2>1, NothingBefore DEF BetweenInv
<1>6. ServedInv'
  <2> SUFFICES ASSUME sender = "waiting", EmptiedBefore(script, position + 1)
               PROVE  Holds(fly_queue_count', position + 1)
    BY <1>1 DEF ServedInv, Moving, Holds
  <2> DEFINE c == script[position]
  <2>1. /\ call = sent /\ sent = CommandOf(c)
        /\ EmptiedBefore(script, position) /\ sent.op = "move" =>
             Holds(fly_queue_count, position)
    BY <1>1 DEF ServedInv, Moving
  <2>2. position \in Nat \ {0} /\ fly_queue_count \in Nat
    BY DEF CountInv
  <2>3. call.op \in {"move", "executePath", "executeFlyQueue"}
    BY <1>1 DEF LoopInv, Moving
  <2> HIDE DEF c
  <2>4. call.op \in {"move", "executeFlyQueue"}
    BY <2>1, <2>3, SentIs
  <2>5. CASE call.op = "executeFlyQueue"
    <3>1. c.name \in Empties
      BY <2>1, <2>5, SentIs DEF Empties
    <3>2. fly_queue_count' = 0
      BY <1>2, <2>5
    <3> QED
      BY <2>2, <3>1, <3>2, HoldsNext DEF c
  <2>6. CASE call.op = "move"
    <3>1. c.name \notin Empties \cup DOMAIN FlyQueueCommands
      BY <2>1, <2>6, SentIs
    <3>2. EmptiedBefore(script, position)
      BY <2>2, <3>1, AddedNext DEF c
    <3>3. fly_queue_count' = fly_queue_count
      BY <1>2, <2>6
    <3> QED
      BY <2>1, <2>2, <2>6, <3>1, <3>2, <3>3, HoldsNext DEF c
  <2> QED
    BY <2>4, <2>5, <2>6
<1> QED
  BY <1>3, <1>4, <1>5, <1>6

LEMMA SenderNextInv == SInv /\ [SenderNext]_flySenderVars => SInv'
<1> SUFFICES ASSUME SInv, [SenderNext]_flySenderVars PROVE SInv'
  OBVIOUS
<1>1. CASE SendGoal \/ SendFails \/ LoopEnds \/ StartAgain
  BY <1>1, SenderMoves
<1>2. CASE Serve
  BY <1>2, ServeStep
<1>3. CASE GetResult
  BY <1>3, ResultStep
<1>4. CASE Abort
  BY <1>4, AbortStep
<1>5. CASE ControllerStep
  BY <1>5, RoutineStep, MotionStep, LastMoveStep DEF ControllerStep
<1>6. CASE UNCHANGED flySenderVars
  <2>1. UNCHANGED <<fly_queue_count, fly_last, call, service, returned,
                    script, position, sender, sent, interrupted>>
    BY <1>6 DEF flySenderVars, movementVars, senderVars, flyVars, callVars, loopVars
  <2> QED
    BY <2>1 DEF SInv, CountInv, LoopInv, BetweenInv, ServedInv, TakenInv, Holds,
                RunsTheQueue, Moving
<1> QED
  BY <1>1, <1>2, <1>3, <1>4, <1>5, <1>6 DEF SenderNext, SenderStep

(* A FLY motion of the sender runs what its script has added, for every set *)
(* of scripts and every number of starts.                                  *)
THEOREM SenderRunsItsScript == SenderSpec => []ExecutesTheScript
<1>1. SInv => ExecutesTheScript
  BY DEF SInv, TakenInv, Holds, ExecutesTheScript
<1> QED
  BY <1>1, SenderInitInv, SenderNextInv, PTL DEF SenderSpec

-----------------------------------------------------------------------------
(***************************************************************************)
(* What the builders print is served.  Rounding to a unit never crosses a   *)
(* multiple of it; the limits of all ranges are multiples of both units,    *)
(* so a number that is in its range is printed as one that is.              *)
(***************************************************************************)
LEMMA TimesMonotone ==
  ASSUME NEW m \in Int, NEW n \in Int, NEW u \in Nat, m <= n
  PROVE  m * u <= n * u
OBVIOUS

LEMMA Division ==
  ASSUME NEW v \in Int, NEW u \in Nat \ {0}
  PROVE  /\ v \div u \in Int
         /\ (v \div u) * u <= v
         /\ v < (v \div u) * u + u
OBVIOUS

LEMMA RoundsBetween ==
  ASSUME NEW v \in Int, NEW u \in Nat \ {0}, NEW m \in Int
  PROVE  /\ Round(v, u) \in Int
         /\ m * u <= v => m * u <= Round(v, u)
         /\ v <= m * u => Round(v, u) <= m * u
<1> DEFINE h == u \div 2
           q == (v + h) \div u
<1>1. h \in Int /\ 0 <= h /\ h < u  OBVIOUS
<1>2. q \in Int /\ q * u <= v + h /\ v + h < q * u + u
  BY <1>1, Division
<1>3. Round(v, u) = q * u  BY DEF Round
<1> HIDE DEF h, q
<1>4. q * u \in Int /\ m * u \in Int  BY <1>2
<1>5. (q + 1) * u = q * u + u /\ (m + 1) * u = m * u + u  BY <1>2
<1>6. ASSUME m * u <= v PROVE m <= q
  <2>1. ~(q + 1 <= m)
    <3> SUFFICES ASSUME q + 1 <= m PROVE FALSE
      OBVIOUS
    <3>1. (q + 1) * u <= m * u  BY <1>2, TimesMonotone
    <3> QED  BY <1>1, <1>2, <1>4, <1>5, <1>6, <3>1
  <2> QED  BY <1>2, <2>1
<1>7. ASSUME v <= m * u PROVE q <= m
  <2>1. ~(m + 1 <= q)
    <3> SUFFICES ASSUME m + 1 <= q PROVE FALSE
      OBVIOUS
    <3>1. (m + 1) * u <= q * u  BY <1>2, TimesMonotone
    <3> QED  BY <1>1, <1>2, <1>4, <1>5, <1>7, <3>1
  <2> QED  BY <1>2, <2>1
<1>8. m * u <= v => m * u <= q * u  BY <1>2, <1>6, TimesMonotone
<1>9. v <= m * u => q * u <= m * u  BY <1>2, <1>7, TimesMonotone
<1> QED  BY <1>3, <1>4, <1>8, <1>9

Units == {Micro, Milli}

LEMMA UnitDividesOne ==
  ASSUME NEW u \in Units
  PROVE  u \in Nat \ {0} /\ \E m \in Int : One = m * u
<1>1. One \in Nat /\ Milli \in Nat \ {0} /\ Micro \in Nat \ {0}
      /\ One % Milli = 0 /\ Milli % Micro = 0
  BY UnitsAssumption
<1>2. ASSUME NEW x \in Nat, NEW y \in Nat \ {0}, x % y = 0
      PROVE  x \div y \in Int /\ x = (x \div y) * y
  BY <1>2
<1>3. PICK m \in Int : One = m * Milli  BY <1>1, <1>2
<1>4. PICK n \in Int : Milli = n * Micro  BY <1>1, <1>2
<1>5. m * (n * Micro) = (m * n) * Micro /\ m * n \in Int  BY <1>1
<1>6. One = (m * n) * Micro  BY <1>3, <1>4, <1>5
<1> QED  BY <1>1, <1>3, <1>5, <1>6 DEF Units

(* A limit of a range stays one in print.                                  *)
LEMMA LimitsHold ==
  ASSUME NEW v \in Int, NEW u \in Units, NEW k \in Int
  PROVE  /\ Round(v, u) \in Int
         /\ k * One <= v => k * One <= Round(v, u)
         /\ v <= k * One => Round(v, u) <= k * One
<1>1. PICK m \in Int : One = m * u  BY UnitDividesOne
<1>2. u \in Nat \ {0}  BY UnitDividesOne
<1>3. k * (m * u) = (k * m) * u /\ k * m \in Int  BY <1>2
<1>4. k * One = (k * m) * u  BY <1>1, <1>3
<1> QED  BY <1>2, <1>3, <1>4, RoundsBetween

CallType == [name : Builders, args : Seq(Int \cup {NotFinite})]

(* What the controller reads of a command: every number, rounded.           *)
LEMMA Printed ==
  ASSUME NEW c \in CallType, Builds(c)
  PROVE  LET p == Text(c).params IN
         /\ Text(c).name = c.name
         /\ Len(p) = Len(Signature(c.name)) /\ DOMAIN p = 1 .. Len(Signature(c.name))
         /\ Len(c.args) = Len(Signature(c.name))
         /\ \A i \in 1 .. Len(Signature(c.name)) :
              /\ c.args[i] \in Signature(c.name)[i]
              /\ p[i] = Round(c.args[i], UnitOf(c.name))
         /\ UnitOf(c.name) \in Units
<1> DEFINE n == Len(c.args)
           p == [i \in 1 .. n |-> Round(c.args[i], UnitOf(c.name))]
<1>1. n \in Nat  BY DEF CallType
<1>2. Text(c).params = p /\ Text(c).name = c.name  BY DEF Text
<1>3. Len(p) = n /\ DOMAIN p = 1 .. n  BY <1>1
<1>4. n = Len(Signature(c.name)) /\ \A i \in 1 .. n : c.args[i] \in Signature(c.name)[i]
  BY DEF Builds
<1>5. UnitOf(c.name) \in Units  BY DEF UnitOf, Units
<1> QED  BY <1>2, <1>3, <1>4, <1>5

Vectors == {"setBase", "setTool", "setUframe", "moveJoint", "moveLin", "addFlyLin",
            "addFlyJoint"}
Arcs == {"moveCircular", "addFlyCirc"}
Percents == {"setSpeedJnt", "setAcceleration", "setDeceleration", "setFlyNorm"}

LEMMA Signatures ==
  /\ \A x \in Vectors : Signature(x) = Values(6)
  /\ \A x \in Arcs : Signature(x) = Values(12)
  /\ \A x \in Percents : Signature(x) = <<Percent>>
  /\ Signature("setJointOverrides") = [i \in 1 .. 6 |-> Percent]
  /\ Signature("setSpeedLin") = <<Nat \ {0}>>
  /\ Signature("setOrientation") = <<Modes(3)>>
  /\ Signature("setTermination") = <<Modes(4)>>
  /\ Signature("setFlyCart") = <<Percent, Modes(3), Nat>>
  /\ Signature("moveRelative") = <<Int, Int, Int, Modes(2)>>
  /\ Signature("moveAbout") = <<Int, Int, Int, Int, Modes(2)>>
<1> USE DEF Signature, PlainCommands, FrameCommands, SpeedCommands, ModeCommands,
            FlySettings, MoveCommands, FlyQueueCommands
<1>1. \A x \in Vectors : Signature(x) = Values(6)  BY DEF Vectors
<1>2. \A x \in Arcs : Signature(x) = Values(12)  BY DEF Arcs
<1>3. \A x \in Percents : Signature(x) = <<Percent>>  BY DEF Percents
<1>4. Signature("setJointOverrides") = [i \in 1 .. 6 |-> Percent]
      /\ Signature("setSpeedLin") = <<Nat \ {0}>>
  OBVIOUS
<1>5. Signature("setOrientation") = <<Modes(3)>>
      /\ Signature("setTermination") = <<Modes(4)>>
      /\ Signature("setFlyCart") = <<Percent, Modes(3), Nat>>
  OBVIOUS
<1>6. Signature("moveRelative") = <<Int, Int, Int, Modes(2)>>
      /\ Signature("moveAbout") = <<Int, Int, Int, Int, Modes(2)>>
  OBVIOUS
<1> QED  BY <1>1, <1>2, <1>3, <1>4, <1>5, <1>6

LEMMA PercentPrinted ==
  ASSUME NEW v \in Percent, NEW u \in Units
  PROVE  Round(v, u) >= One /\ Round(v, u) <= 100 * One
<1>1. One \in Nat  BY UnitsAssumption
<1>2. v \in Int /\ 1 * One <= v /\ v <= 100 * One  BY <1>1 DEF Percent
<1>3. 1 * One <= Round(v, u) /\ Round(v, u) <= 100 * One /\ Round(v, u) \in Int
  BY <1>2, LimitsHold
<1> QED  BY <1>1, <1>3

LEMMA ModePrinted ==
  ASSUME NEW max \in 2 .. 4, NEW v \in Modes(max), NEW u \in Units
  PROVE  Round(v, u) \in {0, One, 2 * One, 3 * One, 4 * One}
         /\ (max = 3 => Round(v, u) \in {0, One, 2 * One, 3 * One})
         /\ (max = 2 => Round(v, u) \in {0, One, 2 * One})
<1>1. One \in Nat  BY UnitsAssumption
<1>2. PICK m \in 0 .. max : v = m * One  BY DEF Modes
<1>3. v \in Int /\ m \in Int  BY <1>1, <1>2
<1>4. Round(v, u) \in Int /\ m * One <= Round(v, u) /\ Round(v, u) <= m * One
  BY <1>1, <1>2, <1>3, LimitsHold
<1>5. Round(v, u) = m * One  BY <1>1, <1>3, <1>4
<1>6. /\ m \in {0, 1, 2, 3, 4}
      /\ max = 3 => m \in {0, 1, 2, 3}
      /\ max = 2 => m \in {0, 1, 2}
  OBVIOUS
<1> QED  BY <1>1, <1>5, <1>6

(* The commands whose range excludes zero by itself.                       *)
NonZero == {"setSpeedLin", "moveRelative", "moveAbout"}

LEMMA PrintedIsServed ==
  ASSUME NEW c \in CallType, Builds(c), ~Vanishes(c) \/ c.name \notin NonZero
  PROVE  ParametersServed(Text(c))
<1> DEFINE x == c.name
           a == c.args
           p == Text(c).params
           u == UnitOf(c.name)
<1>1. /\ Text(c).name = x
      /\ Len(p) = Len(Signature(x)) /\ DOMAIN p = 1 .. Len(Signature(x))
      /\ Len(a) = Len(Signature(x))
      /\ \A i \in 1 .. Len(Signature(x)) :
           a[i] \in Signature(x)[i] /\ p[i] = Round(a[i], u)
      /\ u \in Units
  BY Printed
<1>2. SUFFICES \/ Len(p) = RequiredNumber(x) /\ InRange(x, p)
               \/ x \in DOMAIN PlainCommands
  BY <1>1 DEF ParametersServed
<1>3. ASSUME x \in NonZero, NEW i \in 1 .. Len(Signature(x)), a[i] # 0
      PROVE  p[i] # 0
  BY <1>1, <1>3 DEF Vanishes
<1>4. x \in Builders /\ ~MovesNothing(c)  BY DEF CallType, Builds
<1> HIDE DEF x, a, p, u
<1>5. CASE x \in Vectors
  <2>1. Len(Signature(x)) = 6  BY <1>5, Signatures DEF Values
  <2> QED  BY <1>1, <1>5, <2>1 DEF Vectors, RequiredNumber, InRange
<1>6. CASE x \in Arcs
  <2>1. Len(Signature(x)) = 12  BY <1>6, Signatures DEF Values
  <2> QED  BY <1>1, <1>6, <2>1 DEF Arcs, RequiredNumber, InRange
<1>7. CASE x \in Percents
  <2>1. Len(Signature(x)) = 1 /\ Signature(x)[1] = Percent  BY <1>7, Signatures
  <2>2. p[1] >= One /\ p[1] <= 100 * One  BY <1>1, <2>1, PercentPrinted
  <2> QED  BY <1>1, <1>7, <2>1, <2>2 DEF Percents, RequiredNumber, InRange
<1>8. CASE x = "setJointOverrides"
  <2>1. Len(Signature(x)) = 6 /\ \A i \in 1 .. 6 : Signature(x)[i] = Percent
    BY <1>8, Signatures
  <2>2. \A i \in 1 .. 6 : p[i] >= One /\ p[i] <= 100 * One
    BY <1>1, <2>1, PercentPrinted
  <2> QED  BY <1>1, <1>8, <2>1, <2>2 DEF RequiredNumber, InRange
<1>9. CASE x = "setSpeedLin"
  <2>1. Len(Signature(x)) = 1 /\ Signature(x)[1] = Nat \ {0}  BY <1>9, Signatures
  <2>2. a[1] \in Nat \ {0} /\ p[1] = Round(a[1], u)  BY <1>1, <2>1
  <2>3. p[1] # 0  BY <1>3, <1>9, <2>1, <2>2 DEF NonZero
  <2>4. 0 * One <= a[1]  BY <2>2, UnitsAssumption
  <2>5. p[1] \in Int /\ 0 * One <= p[1]  BY <1>1, <2>2, <2>4, LimitsHold
  <2>6. p[1] > 0  BY <2>3, <2>5, UnitsAssumption
  <2> QED  BY <1>1, <1>9, <2>1, <2>6 DEF RequiredNumber, InRange
<1>10. CASE x = "setOrientation"
  <2>1. Len(Signature(x)) = 1 /\ Signature(x)[1] = Modes(3)  BY <1>10, Signatures
  <2>2. p[1] \in {0, One, 2 * One, 3 * One}
    <3>1. a[1] \in Modes(3) /\ p[1] = Round(a[1], u)  BY <1>1, <2>1
    <3>2. 3 \in 2 .. 4 /\ u \in Units  BY <1>1
    <3> QED  BY <3>1, <3>2, ModePrinted
  <2> QED  BY <1>1, <1>10, <2>1, <2>2 DEF RequiredNumber, InRange
<1>11. CASE x = "setTermination"
  <2>1. Len(Signature(x)) = 1 /\ Signature(x)[1] = Modes(4)  BY <1>11, Signatures
  <2>2. p[1] \in {0, One, 2 * One, 3 * One, 4 * One}
    <3>1. a[1] \in Modes(4) /\ p[1] = Round(a[1], u)  BY <1>1, <2>1
    <3>2. 4 \in 2 .. 4 /\ u \in Units  BY <1>1
    <3> QED  BY <3>1, <3>2, ModePrinted
  <2> QED  BY <1>1, <1>11, <2>1, <2>2 DEF RequiredNumber, InRange
<1>12. CASE x = "setFlyCart"
  <2>1. /\ Len(Signature(x)) = 3
        /\ Signature(x)[1] = Percent /\ Signature(x)[2] = Modes(3)
        /\ Signature(x)[3] = Nat
    BY <1>12, Signatures
  <2>2. p[1] >= One /\ p[1] <= 100 * One  BY <1>1, <2>1, PercentPrinted
  <2>3. p[2] \in {0, One, 2 * One, 3 * One}
    <3>1. a[2] \in Modes(3) /\ p[2] = Round(a[2], u)  BY <1>1, <2>1
    <3>2. 3 \in 2 .. 4 /\ u \in Units  BY <1>1
    <3> QED  BY <3>1, <3>2, ModePrinted
  <2>4. a[3] \in Nat /\ p[3] = Round(a[3], u)  BY <1>1, <2>1
  <2>5. 0 * One <= a[3]  BY <2>4, UnitsAssumption
  <2>6. p[3] \in Int /\ 0 * One <= p[3]  BY <1>1, <2>4, <2>5, LimitsHold
  <2>7. p[3] >= 0  BY <2>6, UnitsAssumption
  <2> QED  BY <1>1, <1>12, <2>1, <2>2, <2>3, <2>7 DEF RequiredNumber, InRange
<1>13. CASE x = "moveRelative"
  <2>1. Len(Signature(x)) = 4 /\ Signature(x)[4] = Modes(2)  BY <1>13, Signatures
  <2>2. p[4] \in {0, One, 2 * One}
    <3>1. a[4] \in Modes(2) /\ p[4] = Round(a[4], u)  BY <1>1, <2>1
    <3>2. 2 \in 2 .. 4 /\ u \in Units  BY <1>1
    <3> QED  BY <3>1, <3>2, ModePrinted
  <2>3. PICK i \in 1 .. 3 : a[i] # 0
    BY <1>4, <1>13 DEF MovesNothing, IsZero, x, a
  <2>4. p[i] # 0  BY <1>3, <1>13, <2>1, <2>3 DEF NonZero
  <2>5. ~IsZero(p, 3)  BY <2>4 DEF IsZero
  <2> QED  BY <1>1, <1>13, <2>1, <2>2, <2>5 DEF RequiredNumber, InRange
<1>14. CASE x = "moveAbout"
  <2>1. Len(Signature(x)) = 5 /\ Signature(x)[5] = Modes(2)  BY <1>14, Signatures
  <2>2. p[5] \in {0, One, 2 * One}
    <3>1. a[5] \in Modes(2) /\ p[5] = Round(a[5], u)  BY <1>1, <2>1
    <3>2. 2 \in 2 .. 4 /\ u \in Units  BY <1>1
    <3> QED  BY <3>1, <3>2, ModePrinted
  <2>3. (\E i \in 1 .. 3 : a[i] # 0) /\ a[4] # 0
    BY <1>4, <1>14 DEF MovesNothing, IsZero, x, a
  <2>4. PICK i \in 1 .. 3 : a[i] # 0  BY <2>3
  <2>5. p[i] # 0 /\ p[4] # 0  BY <1>3, <1>14, <2>1, <2>3, <2>4 DEF NonZero
  <2>6. ~IsZero(p, 3)  BY <2>5 DEF IsZero
  <2> QED  BY <1>1, <1>14, <2>1, <2>2, <2>5, <2>6 DEF RequiredNumber, InRange
<1> QED
  BY <1>4, <1>5, <1>6, <1>7, <1>8, <1>9, <1>10, <1>11, <1>12, <1>13, <1>14
  DEF Builders, Vectors, Arcs, Percents, PlainCommands, FrameCommands, SpeedCommands,
      ModeCommands, FlySettings, MoveCommands, FlyQueueCommands

-----------------------------------------------------------------------------
(* The sender sends only what all its builders have passed.                *)
BuiltInv ==
  /\ script \in Scripts /\ position \in Nat \ {0}
  /\ sender # "stopped" => AllBuild(script)
  /\ sender = "waiting" =>
       position <= Len(script) /\ sent = CommandOf(script[position])

LEMMA BuiltInit == SenderInit => BuiltInv
BY DEF SenderInit, BuiltInv, StartOf

LEMMA BuiltNext == BuiltInv /\ [SenderNext]_flySenderVars => BuiltInv'
<1> SUFFICES ASSUME BuiltInv, [SenderNext]_flySenderVars PROVE BuiltInv'
  OBVIOUS
<1> USE DEF BuiltInv
<1>1. CASE SendGoal
  BY <1>1 DEF SendGoal, AllBuild
<1>2. CASE SendFails \/ LoopEnds
  BY <1>2 DEF SendFails, LoopEnds, AllBuild
<1>3. CASE StartAgain
  BY <1>3 DEF StartAgain, StartOf, AllBuild
<1>4. CASE GetResult
  BY <1>4 DEF GetResult, AllBuild
<1>5. CASE Serve \/ ControllerStep
  BY <1>5 DEF Serve, ControllerStep, senderVars, AllBuild
<1>6. CASE Abort
  BY <1>6 DEF Abort, AllBuild
<1>7. CASE UNCHANGED flySenderVars
  BY <1>7 DEF flySenderVars, senderVars, AllBuild
<1> QED
  BY <1>1, <1>2, <1>3, <1>4, <1>5, <1>6, <1>7 DEF SenderNext, SenderStep

LEMMA BuiltServed == BuiltInv => BuiltIsServed
<1> SUFFICES ASSUME BuiltInv, sender = "waiting", "ok" \in DOMAIN sent
             PROVE  sent.ok \/ (/\ sent.op \in {"move", "setting"}
                                /\ Vanishes(script[position]))
  BY DEF BuiltIsServed
<1> DEFINE c == script[position]
<1>1. script \in Seq(CallType) /\ position \in 1 .. Len(script)
  <2>1. script \in Seq(CallType)
    <3>1. script \in Scripts  BY DEF BuiltInv
    <3>2. Scripts \subseteq Seq(CallType)  BY ScriptsAssumption DEF CallType
    <3> QED  BY <3>1, <3>2
  <2>2. position \in Nat \ {0} /\ position <= Len(script)  BY DEF BuiltInv
  <2>3. Len(script) \in Nat  BY <2>1
  <2> QED  BY <2>1, <2>2, <2>3
<1>2. c \in CallType /\ Builds(c) /\ sent = CommandOf(c)
  BY <1>1 DEF BuiltInv, AllBuild
<1> HIDE DEF c
<1>3. c.name \notin DOMAIN PlainCommands
  BY <1>2 DEF CommandOf
<1>4. sent.ok = ParametersServed(Text(c))
  BY <1>2, <1>3 DEF CommandOf
<1>5. CASE c.name \in NonZero
  <2>1. sent.op \in {"move", "setting"}
    BY <1>2, <1>3, <1>5 DEF CommandOf, NonZero, AddFlyKind, SetFlyMode
  <2> QED  BY <1>2, <1>4, <2>1, PrintedIsServed DEF c
<1>6. CASE c.name \notin NonZero
  BY <1>2, <1>4, <1>6, PrintedIsServed
<1> QED  BY <1>5, <1>6

(* Of the numbers a builder admits the controller refuses none, except one   *)
(* that is not zero and vanishes in print, whatever the script and the      *)
(* digits that are printed.                                                *)
THEOREM BuiltCommandsAreServed == SenderSpec => []BuiltIsServed
BY BuiltInit, BuiltNext, BuiltServed, PTL DEF SenderSpec

-----------------------------------------------------------------------------
(***************************************************************************)
(* The upload of a PATH: how far the controller has come is a function of   *)
(* how many commands it has carried out, as long as no abort has voided     *)
(* them; and what it has come to admits the next.                          *)
(***************************************************************************)
Tables == 1 + Len(goal.frames) + Len(goal.conditions)
Nodes  == Len(goal.nodes)
Total  == Tables + 5 * Nodes + 2

(* The PATH announced by beginPath is the one of the goal.                  *)
Announced ==
  /\ active_path_id = goal.path_id /\ active_path_type = P!Kind(goal)
  /\ expected_path_nodes = Nodes
  /\ path_start_index = P!StartOf(goal) /\ path_end_index = P!EndOf(goal)

PartsAfter(r) == {<<"target", "motion", "blend", "sync">>[k] : k \in 1 .. r}

(* m nodes are committed, and r commands of the next one carried out.       *)
NodesAre(m, r) ==
  /\ committed_path_nodes = m
  /\ (path_node_pending <=> r > 0)
  /\ path_len[active_path_type] = IF r > 0 THEN m + 1 ELSE m
  /\ r > 0 => pending_path_node = m + 1 /\ node_parts = PartsAfter(r)

(* The first p commands are carried out.                                   *)
Arrived(p) ==
  /\ p \in 1 .. Total - 1 => Announced
  /\ p \in 1 .. Total - 2 => path_upload_active
  /\ p \in 1 .. Tables => NodesAre(0, 0)
  /\ \A m \in 0 .. Nodes, r \in 0 .. 4 :
       p = Tables + 5 * m + r /\ p < Total - 1 => NodesAre(m, r)
  /\ p = Total - 1 => path_state = "READY"

(* No PATH moves the arm, and no continue is under way, before executePath. *)
Quiet == ~path_is_waiting /\ ~signaling /\ arm # "path"

Serving == {"admitted", "moving", "moved", "returned"}

Excepted == goal.path_type = "JOINT" /\ goal.frames # <<>>

SendingInv ==
  /\ uploaded <= Total
  /\ uploaded < Total \/ service = "admitted" => Quiet
  /\ service \in Serving => uploaded >= 1 /\ call = UploadOf(goal)[uploaded]
  /\ service \in {"moving", "moved"} => uploaded = Total
  /\ service \in {"idle", "cleared"} /\ ~void => Arrived(uploaded)
  /\ service = "admitted" /\ ~void =>
       /\ uploaded \in 2 .. Total - 2 => Arrived(uploaded - 1)
       /\ uploaded = Total - 1 => Announced
  /\ service = "returned" /\ ~void =>
       /\ returned = "OK" => Arrived(uploaded)
       /\ ~Excepted => returned \in {"OK", "ABORTED"}

UploadInv ==
  /\ goal \in PathGoals /\ P!BridgeAccepts(goal) /\ uploaded \in Nat
  /\ path_len \in [Kinds -> Nat]
  /\ upload = "sending" => SendingInv

LEMMA ListOf ==
  ASSUME NEW S, NEW n \in Nat, NEW f \in [1 .. n -> S]
  PROVE  f \in Seq(S) /\ Len(f) = n
OBVIOUS

LEMMA Joined ==
  ASSUME NEW S, NEW s \in Seq(S), NEW t \in Seq(S)
  PROVE  /\ s \o t \in Seq(S) /\ Len(s \o t) = Len(s) + Len(t)
         /\ \A i \in 1 .. Len(s) : (s \o t)[i] = s[i]
         /\ \A i \in 1 .. Len(t) : (s \o t)[Len(s) + i] = t[i]
OBVIOUS

LEMMA GoalFields ==
  ASSUME goal \in PathGoals
  PROVE  /\ goal.frames \in Seq(Nat) /\ Len(goal.frames) \in Nat
         /\ DOMAIN goal.frames = 1 .. Len(goal.frames)
         /\ Len(goal.conditions) \in Nat
         /\ DOMAIN goal.conditions = 1 .. Len(goal.conditions)
         /\ DOMAIN goal.nodes = 1 .. Len(goal.nodes)
         /\ Nodes \in Nat /\ Tables \in Nat \ {0} /\ Total \in Nat /\ Total >= Tables + 2
         /\ \A i \in 1 .. Nodes : goal.nodes[i] \in P!NodeType
<1>1. /\ goal.frames \in Seq(Nat)
      /\ goal.conditions \in Seq([slot : Nat, handler_id : Nat])
      /\ goal.nodes \in Seq(P!NodeType)
  BY UploadAssumption DEF P!PathGoal
<1>2. /\ Len(goal.frames) \in Nat /\ Len(goal.conditions) \in Nat /\ Len(goal.nodes) \in Nat
      /\ DOMAIN goal.frames = 1 .. Len(goal.frames)
      /\ DOMAIN goal.conditions = 1 .. Len(goal.conditions)
      /\ DOMAIN goal.nodes = 1 .. Len(goal.nodes)
  BY <1>1
<1>3. \A i \in 1 .. Len(goal.nodes) : goal.nodes[i] \in P!NodeType
  BY <1>1
<1>4. /\ Nodes \in Nat /\ Tables \in Nat \ {0} /\ Total \in Nat /\ Total >= Tables + 2
  <2>1. Nodes \in Nat  BY <1>2 DEF Nodes
  <2>2. Tables \in Nat \ {0}
    <3>1. ASSUME NEW a \in Nat, NEW b \in Nat PROVE 1 + a + b \in Nat \ {0}  OBVIOUS
    <3> QED  BY <1>2, <3>1 DEF Tables
  <2> QED  BY <2>1, <2>2 DEF Total
<1> QED  BY <1>1, <1>2, <1>3, <1>4 DEF Nodes

(* The commands of the goal, in their order.                               *)
LEMMA UploadList ==
  ASSUME goal \in PathGoals
  PROVE  LET u == UploadOf(goal)
             f == Len(goal.frames)
         IN  /\ Len(u) = Total
             /\ u[1] = P!BeginPath(goal)
             /\ \A i \in 1 .. f : u[1 + i] = P!FrameCommands(goal)[i]
             /\ \A i \in 1 .. Len(goal.conditions) :
                  u[1 + f + i] = P!ConditionCommands(goal)[i]
             /\ \A i \in 1 .. 5 * Nodes : u[Tables + i] = P!AllNodeCommands(goal)[i]
             /\ u[Total - 1] = P!CommitPath(goal)
             /\ u[Total] = P!execute_path_command(goal)
<1> DEFINE f == Len(goal.frames)
           c == Len(goal.conditions)
           n == 5 * Nodes
           B == P!BeginPath(goal)
           F == P!FrameCommands(goal)
           C == P!ConditionCommands(goal)
           A == P!AllNodeCommands(goal)
           E == P!CommitPath(goal)
           X == P!execute_path_command(goal)
           S == {B, E, X} \cup {F[i] : i \in 1 .. f} \cup {C[i] : i \in 1 .. c}
                  \cup {A[i] : i \in 1 .. n}
           u2 == <<B>> \o F
           u3 == u2 \o C
           u4 == u3 \o A
           u5 == u4 \o <<E>>
<1>1. f \in Nat /\ c \in Nat /\ n \in Nat
      /\ Tables = 1 + f + c /\ Total = Tables + n + 2
  BY GoalFields DEF Tables, Total
<1>2. /\ F \in [1 .. f -> S] /\ C \in [1 .. c -> S] /\ A \in [1 .. n -> S]
  <2>1. F = [i \in 1 .. f |-> F[i]]  BY GoalFields DEF P!FrameCommands
  <2>2. C = [i \in 1 .. c |-> C[i]]  BY GoalFields DEF P!ConditionCommands
  <2>3. A = [i \in 1 .. n |-> A[i]]  BY DEF P!AllNodeCommands, Nodes
  <2> HIDE DEF F, C, A, B, E, X, f, c, n
  <2> QED  BY <2>1, <2>2, <2>3
<1>3. UploadOf(goal) = Append(u5, X)
  BY DEF UploadOf, P!build_upload_commands
<1>4. B \in S /\ E \in S /\ X \in S
  OBVIOUS
<1> HIDE DEF S, F, C, A, B, E, X, f, c, n
<1>5. F \in Seq(S) /\ Len(F) = f /\ C \in Seq(S) /\ Len(C) = c /\ A \in Seq(S) /\ Len(A) = n
  BY <1>1, <1>2, ListOf
<1>6. <<B>> \in Seq(S) /\ Len(<<B>>) = 1 /\ <<B>>[1] = B
      /\ <<E>> \in Seq(S) /\ Len(<<E>>) = 1 /\ <<E>>[1] = E
  BY <1>4
<1>7. /\ u2 \in Seq(S) /\ Len(u2) = 1 + f /\ u2[1] = B
      /\ \A i \in 1 .. f : u2[1 + i] = F[i]
  <2>1. /\ u2 \in Seq(S) /\ Len(u2) = Len(<<B>>) + Len(F)
        /\ \A i \in 1 .. Len(<<B>>) : u2[i] = <<B>>[i]
        /\ \A i \in 1 .. Len(F) : u2[Len(<<B>>) + i] = F[i]
    BY <1>5, <1>6, Joined
  <2> QED  BY <1>5, <1>6, <2>1
<1> HIDE DEF u2
<1>8. /\ u3 \in Seq(S) /\ Len(u3) = 1 + f + c
      /\ \A i \in 1 .. 1 + f : u3[i] = u2[i]
      /\ \A i \in 1 .. c : u3[1 + f + i] = C[i]
  <2>0. u2 \in Seq(S) /\ C \in Seq(S)  BY <1>5, <1>7
  <2>1. /\ u3 \in Seq(S) /\ Len(u3) = Len(u2) + Len(C)
        /\ \A i \in 1 .. Len(u2) : u3[i] = u2[i]
        /\ \A i \in 1 .. Len(C) : u3[Len(u2) + i] = C[i]
    BY <2>0, Joined
  <2> QED  BY <1>5, <1>7, <2>1
<1> HIDE DEF u3
<1>9. /\ u4 \in Seq(S) /\ Len(u4) = Tables + n
      /\ \A i \in 1 .. Tables : u4[i] = u3[i]
      /\ \A i \in 1 .. n : u4[Tables + i] = A[i]
  <2>0. u3 \in Seq(S) /\ A \in Seq(S)  BY <1>5, <1>8
  <2>1. /\ u4 \in Seq(S) /\ Len(u4) = Len(u3) + Len(A)
        /\ \A i \in 1 .. Len(u3) : u4[i] = u3[i]
        /\ \A i \in 1 .. Len(A) : u4[Len(u3) + i] = A[i]
    BY <2>0, Joined
  <2> QED  BY <1>1, <1>5, <1>8, <2>1
<1> HIDE DEF u4
<1>10. /\ u5 \in Seq(S) /\ Len(u5) = Tables + n + 1
       /\ \A i \in 1 .. Tables + n : u5[i] = u4[i]
       /\ u5[Tables + n + 1] = E
  <2>1. /\ u5 \in Seq(S) /\ Len(u5) = Len(u4) + Len(<<E>>)
        /\ \A i \in 1 .. Len(u4) : u5[i] = u4[i]
        /\ \A i \in 1 .. Len(<<E>>) : u5[Len(u4) + i] = <<E>>[i]
    BY <1>6, <1>9, Joined
  <2> QED  BY <1>6, <1>9, <2>1
<1> HIDE DEF u5
<1>11. /\ Len(UploadOf(goal)) = Total
       /\ \A i \in 1 .. Total - 1 : UploadOf(goal)[i] = u5[i]
       /\ UploadOf(goal)[Total] = X
  BY <1>1, <1>3, <1>4, <1>10
<1>12. UploadOf(goal)[1] = B
  BY <1>1, <1>7, <1>8, <1>9, <1>10, <1>11
<1>13. \A i \in 1 .. f : UploadOf(goal)[1 + i] = F[i]
  <2> SUFFICES ASSUME NEW i \in 1 .. f PROVE UploadOf(goal)[1 + i] = F[i]  OBVIOUS
  <2>1. /\ 1 + i \in 1 .. 1 + f /\ 1 + i \in 1 .. Tables /\ 1 + i \in 1 .. Tables + n
        /\ 1 + i \in 1 .. Total - 1
    BY <1>1
  <2> QED  BY <1>7, <1>8, <1>9, <1>10, <1>11, <2>1
<1>14. \A i \in 1 .. c : UploadOf(goal)[1 + f + i] = C[i]
  <2> SUFFICES ASSUME NEW i \in 1 .. c PROVE UploadOf(goal)[1 + f + i] = C[i]  OBVIOUS
  <2>1. /\ 1 + f + i \in 1 .. Tables /\ 1 + f + i \in 1 .. Tables + n
        /\ 1 + f + i \in 1 .. Total - 1
    BY <1>1
  <2> QED  BY <1>8, <1>9, <1>10, <1>11, <2>1
<1>15. \A i \in 1 .. n : UploadOf(goal)[Tables + i] = A[i]
  <2> SUFFICES ASSUME NEW i \in 1 .. n PROVE UploadOf(goal)[Tables + i] = A[i]  OBVIOUS
  <2>1. Tables + i \in 1 .. Tables + n /\ Tables + i \in 1 .. Total - 1
    BY <1>1
  <2> QED  BY <1>9, <1>10, <1>11, <2>1
<1>16. UploadOf(goal)[Total - 1] = E
  <2>1. Total - 1 = Tables + n + 1 /\ Total - 1 \in 1 .. Total - 1
    BY <1>1
  <2> QED  BY <1>10, <1>11, <2>1
<1> QED  BY <1>11, <1>12, <1>13, <1>14, <1>15, <1>16 DEF B, F, C, A, E, X, f, c, n

(* A command is the first, of a table, of a node, or one of the last two.   *)
LEMMA PlaceOfCommand ==
  ASSUME goal \in PathGoals, NEW p \in 1 .. Total
  PROVE  \/ p = 1 \/ p \in 2 .. Tables
         \/ \E m \in 0 .. Nodes - 1, r \in 0 .. 4 : p = Tables + 5 * m + r + 1
         \/ p = Total - 1 \/ p = Total
<1>1. Nodes \in Nat /\ Tables \in Nat \ {0} /\ Total = Tables + 5 * Nodes + 2
  BY GoalFields DEF Total
<1>2. ASSUME p > Tables, p < Total - 1
      PROVE  \E m \in 0 .. Nodes - 1, r \in 0 .. 4 : p = Tables + 5 * m + r + 1
  <2> DEFINE m == (p - Tables - 1) \div 5
             r == (p - Tables - 1) % 5
  <2>1. m \in 0 .. Nodes - 1 /\ r \in 0 .. 4 /\ p = Tables + 5 * m + r + 1
    BY <1>1, <1>2
  <2> QED  BY <2>1
<1> QED  BY <1>1, <1>2

LEMMA PlaceIsOne ==
  ASSUME NEW m \in Nat, NEW r \in 0 .. 4, NEW k \in Nat, NEW q \in 0 .. 4, 5 * m + r = 5 * k + q
  PROVE  m = k /\ r = q
OBVIOUS

(* What the bridge has found of the nodes it uploads.                       *)
LEMMA NodeCommandIs ==
  ASSUME goal \in PathGoals, P!BridgeAccepts(goal), NEW m \in 0 .. Nodes - 1
  PROVE  LET c == P!NodeCommands(goal, m + 1) IN
         /\ \A r \in 0 .. 4 : c[r + 1].id = goal.path_id /\ c[r + 1].index = m + 1
         /\ c[1].op = "pathNodeTarget" /\ c[1].motion # "invalid"
         /\ c[2].op = "pathNodeMotion" /\ c[2].ok /\ c[3].op = "pathNodeBlend" /\ c[3].ok
         /\ c[4].op = "pathNodeSync" /\ c[4].ok /\ c[5].op = "commitPathNode"
         /\ P!Kind(goal) = "JOINT" => c[1].motion = "joint" /\ ~c[4].frames
<1> DEFINE i == m + 1
           node == goal.nodes[i]
           c == P!NodeCommands(goal, i)
<1>1. i \in DOMAIN goal.nodes
  BY GoalFields DEF Nodes
<1>2. P!NodeFits(goal, node) /\ P!NumbersValid(node) /\ P!HeaderValid(goal)
  BY <1>1 DEF P!BridgeAccepts
<1>3. /\ node.motion_type \in P!Motions /\ node.parameters_in_range
      /\ goal.path_type \in {"CARTESIAN", "JOINT"}
      /\ goal.path_type = "JOINT" =>
           node.motion_type = "JOINT" /\ node.reference_index = 0 /\ node.tool_index = 0
  BY <1>2 DEF P!NodeFits, P!NumbersValid, P!HeaderValid, P!PathTypes
<1>4. /\ P!MotionOf(node) # "invalid"
      /\ node.motion_type = "JOINT" => P!MotionOf(node) = "joint"
  BY <1>3 DEF P!MotionOf
<1>5. P!Kind(goal) = "JOINT" => goal.path_type = "JOINT"
  BY <1>3 DEF P!Kind
<1>6. /\ c[1] = [op |-> "pathNodeTarget", id |-> goal.path_id, index |-> i,
                 motion |-> P!MotionOf(node)]
      /\ c[2] = [op |-> "pathNodeMotion", id |-> goal.path_id, index |-> i,
                 ok |-> node.parameters_in_range]
      /\ c[3] = [op |-> "pathNodeBlend", id |-> goal.path_id, index |-> i,
                 ok |-> node.parameters_in_range]
      /\ c[4] = [op |-> "pathNodeSync", id |-> goal.path_id, index |-> i,
                 ok |-> node.parameters_in_range,
                 frames |-> {node.reference_index, node.tool_index} # {0}, wait |-> node.wait]
      /\ c[5] = [op |-> "commitPathNode", id |-> goal.path_id, index |-> i]
  BY DEF P!NodeCommands
<1> HIDE DEF c, node, i
<1>7. \A r \in 0 .. 4 : c[r + 1].id = goal.path_id /\ c[r + 1].index = i
  <2> SUFFICES ASSUME NEW r \in 0 .. 4
               PROVE  c[r + 1].id = goal.path_id /\ c[r + 1].index = i
    OBVIOUS
  <2>1. r + 1 \in {1, 2, 3, 4, 5}  OBVIOUS
  <2> QED  BY <1>6, <2>1
<1>8. goal.path_type = "JOINT" => ~c[4].frames
  <2>1. goal.path_type = "JOINT" => {node.reference_index, node.tool_index} = {0}
    BY <1>3
  <2>2. c[4].frames = ({node.reference_index, node.tool_index} # {0})
    BY <1>6
  <2> QED  BY <2>1, <2>2
<1> QED  BY <1>3, <1>4, <1>5, <1>6, <1>7, <1>8 DEF c, i

(* The command at each place.                                              *)
LEMMA CommandAt ==
  ASSUME goal \in PathGoals, P!BridgeAccepts(goal), NEW p \in 1 .. Total
  PROVE  LET u == UploadOf(goal)[p] IN
         /\ p = 1 => u = P!BeginPath(goal)
         /\ p \in 2 .. Tables =>
              /\ u.op \in {"setPathFrame", "setPathCondition"} /\ u.id = goal.path_id
              /\ u.ok
              /\ u.op = "setPathFrame" => goal.frames # <<>>
         /\ \A m \in 0 .. Nodes - 1, r \in 0 .. 4 :
              p = Tables + 5 * m + r + 1 => u = P!NodeCommands(goal, m + 1)[r + 1]
         /\ p = Total - 1 => u = P!CommitPath(goal)
         /\ p = Total => u = P!execute_path_command(goal)
<1> DEFINE u == UploadOf(goal)
           f == Len(goal.frames)
           d == Len(goal.conditions)
<1>1. /\ f \in Nat /\ d \in Nat /\ Tables = 1 + f + d
      /\ DOMAIN goal.frames = 1 .. f /\ DOMAIN goal.conditions = 1 .. d
      /\ f > 0 => goal.frames # <<>>
  BY GoalFields DEF Tables
<1>0. /\ \A i \in 1 .. f : u[1 + i] = P!FrameCommands(goal)[i]
      /\ \A i \in 1 .. d : u[1 + f + i] = P!ConditionCommands(goal)[i]
  BY UploadList
<1> HIDE DEF f, d, u
<1>2. ASSUME p \in 2 .. Tables
      PROVE  /\ u[p].op \in {"setPathFrame", "setPathCondition"} /\ u[p].id = goal.path_id
             /\ u[p].ok
             /\ u[p].op = "setPathFrame" => goal.frames # <<>>
  <2>1. P!TablesValid(goal)
    BY DEF P!BridgeAccepts
  <2>2. CASE p - 1 \in 1 .. f
    <3>1. u[1 + (p - 1)] = P!FrameCommands(goal)[p - 1]
      BY <1>0, <2>2
    <3>2. 1 + (p - 1) = p /\ p - 1 \in DOMAIN goal.frames
      BY <1>1, <2>2
    <3>3. P!FrameCommands(goal)[p - 1] =
            [op |-> "setPathFrame", id |-> goal.path_id, ok |-> goal.frames[p - 1] \in 1 .. 7]
      BY <3>2 DEF P!FrameCommands
    <3>4. goal.frames[p - 1] \in 1 .. 7
      BY <2>1, <3>2 DEF P!TablesValid
    <3>5. goal.frames # <<>>
      BY <1>1, <2>2
    <3>6. u[p] = P!FrameCommands(goal)[p - 1]
      BY <3>1, <3>2
    <3>7. /\ u[p].op = "setPathFrame" /\ u[p].id = goal.path_id
          /\ u[p].ok = (goal.frames[p - 1] \in 1 .. 7)
      BY <3>3, <3>6
    <3> QED  BY <3>4, <3>5, <3>7
  <2>3. CASE p - 1 - f \in 1 .. d
    <3>1. u[1 + f + (p - 1 - f)] = P!ConditionCommands(goal)[p - 1 - f]
      BY <1>0, <2>3
    <3>2. 1 + f + (p - 1 - f) = p /\ p - 1 - f \in DOMAIN goal.conditions
      BY <1>1, <2>3
    <3>3. P!ConditionCommands(goal)[p - 1 - f] =
            [op |-> "setPathCondition", id |-> goal.path_id,
             ok |-> /\ goal.conditions[p - 1 - f].slot \in 1 .. 32
                    /\ goal.conditions[p - 1 - f].handler_id > 0]
      BY <3>2 DEF P!ConditionCommands
    <3>4. /\ goal.conditions[p - 1 - f].slot \in 1 .. 32
          /\ goal.conditions[p - 1 - f].handler_id > 0
      BY <2>1, <3>2 DEF P!TablesValid
    <3> QED  BY <3>1, <3>2, <3>3, <3>4
  <2> QED  BY <1>1, <1>2, <2>2, <2>3
<1>3. ASSUME NEW m \in 0 .. Nodes - 1, NEW r \in 0 .. 4, p = Tables + 5 * m + r + 1
      PROVE  u[p] = P!NodeCommands(goal, m + 1)[r + 1]
  <2> DEFINE k == 5 * m + r + 1
  <2>0. Nodes \in Nat /\ Tables \in Nat
    BY GoalFields
  <2>1. k \in 1 .. 5 * Nodes /\ p = Tables + k
    BY <1>3, <2>0
  <2>2. 1 + ((k - 1) \div 5) = m + 1 /\ 1 + ((k - 1) % 5) = r + 1
    BY <2>0
  <2> HIDE DEF k
  <2>3. u[p] = P!AllNodeCommands(goal)[k]
    BY <2>1, UploadList DEF u
  <2>4. P!AllNodeCommands(goal)[k] =
          P!NodeCommands(goal, 1 + ((k - 1) \div 5))[1 + ((k - 1) % 5)]
    BY <2>1 DEF P!AllNodeCommands, Nodes
  <2> QED  BY <2>2, <2>3, <2>4
<1>4. /\ p = 1 => u[p] = P!BeginPath(goal)
      /\ p = Total - 1 => u[p] = P!CommitPath(goal)
      /\ p = Total => u[p] = P!execute_path_command(goal)
  BY UploadList DEF u
<1> QED  BY <1>2, <1>3, <1>4 DEF u

LEMMA AllParts ==
  /\ PartsAfter(4) = Parts /\ PartsAfter(1) = {"target"}
  /\ \A r \in 1 .. 3 :
       PartsAfter(r + 1) = PartsAfter(r) \cup {<<"target", "motion", "blend", "sync">>[r + 1]}
<1>1. PartsAfter(4) = Parts /\ PartsAfter(1) = {"target"}
  BY DEF PartsAfter, Parts
<1>2. ASSUME NEW r \in 1 .. 3
      PROVE  PartsAfter(r + 1) =
               PartsAfter(r) \cup {<<"target", "motion", "blend", "sync">>[r + 1]}
  <2>1. \A k : k \in 1 .. r + 1 <=> k \in 1 .. r \/ k = r + 1
    OBVIOUS
  <2> QED  BY <2>1 DEF PartsAfter
<1> QED  BY <1>1, <1>2

(* What the bridge has found of the goal.                                   *)
LEMMA HeaderIs ==
  ASSUME goal \in PathGoals, P!BridgeAccepts(goal)
  PROVE  /\ Nodes > 0 /\ P!StartOf(goal) \in 1 .. Nodes /\ P!EndOf(goal) \in 1 .. Nodes
         /\ P!Kind(goal) \in Kinds
         /\ goal.path_type = "JOINT" <=> P!Kind(goal) = "JOINT"
<1>1. P!HeaderValid(goal)
  BY DEF P!BridgeAccepts
<1>2. Nodes \in Nat
  BY GoalFields
<1> QED  BY <1>1, <1>2 DEF P!HeaderValid, P!Kind, P!PathTypes, Nodes, Kinds

(* After the first commands the controller admits the next one.            *)
LEMMA NextAdmitted ==
  ASSUME goal \in PathGoals, P!BridgeAccepts(goal), uploaded \in Nat, uploaded < Total,
         Arrived(uploaded), ~Excepted
  PROVE  Admits(UploadOf(goal)[uploaded + 1])
<1> DEFINE p == uploaded + 1
           c == UploadOf(goal)[p]
<1>0. /\ Nodes \in Nat /\ Tables \in Nat \ {0} /\ Total = Tables + 5 * Nodes + 2
      /\ p \in 1 .. Total
  BY GoalFields DEF Total
<1>1. /\ p - 1 \in 1 .. Total - 1 => Announced
      /\ p - 1 \in 1 .. Total - 2 => path_upload_active
      /\ \A m \in 0 .. Nodes, r \in 0 .. 4 :
           p - 1 = Tables + 5 * m + r /\ p - 1 < Total - 1 => NodesAre(m, r)
      /\ p - 1 = Total - 1 => path_state = "READY"
  BY <1>0 DEF Arrived
<1>2. /\ p = 1 => c = P!BeginPath(goal)
      /\ p \in 2 .. Tables =>
              /\ c.op \in {"setPathFrame", "setPathCondition"} /\ c.id = goal.path_id
              /\ c.ok
              /\ c.op = "setPathFrame" => goal.frames # <<>>
      /\ \A m \in 0 .. Nodes - 1, r \in 0 .. 4 :
              p = Tables + 5 * m + r + 1 => c = P!NodeCommands(goal, m + 1)[r + 1]
      /\ p = Total - 1 => c = P!CommitPath(goal)
      /\ p = Total => c = P!execute_path_command(goal)
  BY <1>0, CommandAt
<1> SUFFICES AdmitsPathCommand(c)
  BY DEF Admits
<1> HIDE DEF c, p
<1>3. CASE p = 1
  <2>1. c = P!BeginPath(goal) /\ Nodes > 0 /\ P!StartOf(goal) \in 1 .. Nodes
        /\ P!EndOf(goal) \in 1 .. Nodes
    BY <1>2, <1>3, HeaderIs
  <2>2. c.op = "beginPath" /\ c.count = Nodes /\ c.first = P!StartOf(goal)
        /\ c.last = P!EndOf(goal)
    BY <2>1 DEF P!BeginPath, Nodes
  <2> QED  BY <2>1, <2>2 DEF AdmitsPathCommand
<1>4. CASE p \in 2 .. Tables
  <2>1. Announced /\ path_upload_active
    BY <1>0, <1>1, <1>4
  <2>2. c.op = "setPathFrame" => active_path_type = "CART"
    BY <1>2, <1>4, <2>1, HeaderIs DEF Excepted, Announced, Kinds
  <2> QED  BY <1>2, <1>4, <2>1, <2>2 DEF AdmitsPathCommand, Uploading, Announced
<1>5. ASSUME NEW m \in 0 .. Nodes - 1, NEW r \in 0 .. 4, p = Tables + 5 * m + r + 1
      PROVE  AdmitsPathCommand(c)
  <2> DEFINE d == P!NodeCommands(goal, m + 1)
  <2>1. /\ \A k \in 0 .. 4 : d[k + 1].id = goal.path_id /\ d[k + 1].index = m + 1
        /\ d[1].op = "pathNodeTarget" /\ d[1].motion # "invalid"
        /\ d[2].op = "pathNodeMotion" /\ d[2].ok /\ d[3].op = "pathNodeBlend" /\ d[3].ok
        /\ d[4].op = "pathNodeSync" /\ d[4].ok /\ d[5].op = "commitPathNode"
        /\ P!Kind(goal) = "JOINT" => d[1].motion = "joint" /\ ~d[4].frames
    BY NodeCommandIs
  <2>2. c = d[r + 1]
    BY <1>2, <1>5
  <2> HIDE DEF d
  <2>3. c.id = goal.path_id /\ c.index = m + 1
    BY <2>1, <2>2
  <2>4. Announced /\ path_upload_active /\ NodesAre(m, r)
    <3>1. m \in 0 .. Nodes /\ p - 1 = Tables + 5 * m + r /\ p - 1 < Total - 1
          /\ p - 1 \in 1 .. Total - 2
      BY <1>0, <1>5
    <3> QED  BY <1>0, <1>1, <3>1
  <2>5. CASE r = 0
    <3>1. c = d[1]  BY <2>2, <2>5
    <3> QED  BY <1>0, <2>1, <2>3, <2>4, <2>5, <3>1
         DEF AdmitsPathCommand, Uploading, Announced, NodesAre
  <2>6. CASE r \in 1 .. 3
    <3>1. NodeOpen(c)
      BY <2>3, <2>4, <2>6 DEF NodeOpen, Announced, NodesAre
    <3>2. c \in {d[2], d[3], d[4]}  BY <2>2, <2>6
    <3>3. \/ c.op \in {"pathNodeMotion", "pathNodeBlend"} /\ c.ok
          \/ c.op = "pathNodeSync" /\ c.ok /\ (active_path_type = "JOINT" => ~c.frames)
      BY <2>1, <2>4, <3>2 DEF Announced
    <3> QED  BY <3>1, <3>3 DEF AdmitsPathCommand
  <2>7. CASE r = 4
    <3>1. c.op = "commitPathNode"  BY <2>1, <2>2, <2>7
    <3>2. NodeOpen(c)
      BY <2>3, <2>4, <2>7 DEF NodeOpen, Announced, NodesAre
    <3>3. node_parts = Parts
      BY <2>4, <2>7, AllParts DEF NodesAre
    <3> QED  BY <3>1, <3>2, <3>3 DEF AdmitsPathCommand
  <2> QED  BY <2>5, <2>6, <2>7
<1>6. CASE p = Total - 1
  <2>1. Announced /\ path_upload_active /\ NodesAre(Nodes, 0)
    <3>1. p - 1 = Tables + 5 * Nodes + 0 /\ p - 1 < Total - 1 /\ p - 1 \in 1 .. Total - 2
      BY <1>0, <1>6
    <3> QED  BY <1>0, <1>1, <3>1
  <2>2. c.op = "commitPath" /\ c.id = goal.path_id /\ c.count = Nodes
    BY <1>2, <1>6 DEF P!CommitPath, Nodes
  <2> QED  BY <2>1, <2>2 DEF AdmitsPathCommand, AdmitsCommitPath, Uploading, Announced, NodesAre
<1>7. CASE p = Total
  <2>1. Announced /\ path_state = "READY"
    BY <1>0, <1>1, <1>7
  <2>2. c.op = "executePath" /\ c.id = goal.path_id /\ c.first = P!StartOf(goal)
        /\ c.last = P!EndOf(goal)
    BY <1>2, <1>7 DEF P!execute_path_command
  <2> QED  BY <2>1, <2>2 DEF AdmitsPathCommand, Announced
<1> QED  BY <1>0, <1>3, <1>4, <1>5, <1>6, <1>7, PlaceOfCommand

(* Where the controller is after a command, by the place of the command.    *)
Kept == UNCHANGED <<goal, uploaded>>

SameUpload ==
  UNCHANGED <<path_upload_active, path_node_pending, active_path_id, active_path_type,
              expected_path_nodes, committed_path_nodes, pending_path_node,
              path_start_index, path_end_index, node_parts, path_len, path_state>>

LEMMA StillArrived ==
  ASSUME Kept, SameUpload
  PROVE  /\ Announced' <=> Announced
         /\ Arrived(uploaded)' <=> Arrived(uploaded)
         /\ Arrived(uploaded - 1)' <=> Arrived(uploaded - 1)
BY DEF Kept, SameUpload, Arrived, Announced, NodesAre, Tables, Nodes, Total

LEMMA TableArrived ==
  ASSUME goal \in PathGoals, P!BridgeAccepts(goal), Kept, uploaded \in 1 .. Tables,
         Announced', path_upload_active', NodesAre(0, 0)'
  PROVE  Arrived(uploaded)'
<1>1. /\ Nodes \in Nat \ {0} /\ Tables \in Nat \ {0} /\ Total = Tables + 5 * Nodes + 2
  BY GoalFields, HeaderIs DEF Total
<1>2. /\ Tables' = Tables /\ Nodes' = Nodes /\ Total' = Total /\ uploaded' = uploaded
  BY DEF Kept, Tables, Nodes, Total
<1>3. \A m \in 0 .. Nodes, r \in 0 .. 4 : uploaded = Tables + 5 * m + r => m = 0 /\ r = 0
  BY <1>1
<1>4. uploaded # Total - 1
  BY <1>1
<1> QED  BY <1>2, <1>3, <1>4 DEF Arrived

LEMMA NodeArrived ==
  ASSUME goal \in PathGoals, P!BridgeAccepts(goal), Kept,
         NEW k \in 0 .. Nodes, NEW q \in 0 .. 4, uploaded = Tables + 5 * k + q,
         uploaded < Total - 1, Announced', path_upload_active', NodesAre(k, q)'
  PROVE  Arrived(uploaded)'
<1>1. /\ Nodes \in Nat \ {0} /\ Tables \in Nat \ {0} /\ Total = Tables + 5 * Nodes + 2
  BY GoalFields, HeaderIs DEF Total
<1>2. /\ Tables' = Tables /\ Nodes' = Nodes /\ Total' = Total /\ uploaded' = uploaded
  BY DEF Kept, Tables, Nodes, Total
<1>3. \A m \in 0 .. Nodes, r \in 0 .. 4 : uploaded = Tables + 5 * m + r => m = k /\ r = q
  <2> SUFFICES ASSUME NEW m \in 0 .. Nodes, NEW r \in 0 .. 4, uploaded = Tables + 5 * m + r
               PROVE  m = k /\ r = q
    OBVIOUS
  <2>1. 5 * m + r = 5 * k + q /\ m \in Nat /\ k \in Nat
    BY <1>1
  <2> QED  BY <2>1, PlaceIsOne
<1>4. uploaded \in 1 .. Tables => k = 0 /\ q = 0
  BY <1>1
<1>5. uploaded # Total - 1
  BY <1>1
<1> QED  BY <1>2, <1>3, <1>4, <1>5 DEF Arrived

LEMMA ReadyArrived ==
  ASSUME goal \in PathGoals, P!BridgeAccepts(goal), Kept, uploaded = Total - 1,
         Announced', path_state' = "READY"
  PROVE  Arrived(uploaded)'
<1>1. /\ Nodes \in Nat \ {0} /\ Tables \in Nat \ {0} /\ Total = Tables + 5 * Nodes + 2
  BY GoalFields, HeaderIs DEF Total
<1>2. /\ Tables' = Tables /\ Nodes' = Nodes /\ Total' = Total /\ uploaded' = uploaded
  BY DEF Kept, Tables, Nodes, Total
<1>3. uploaded \notin 1 .. Tables /\ uploaded \notin 1 .. Total - 2 /\ ~(uploaded < Total - 1)
  BY <1>1
<1> QED  BY <1>2, <1>3 DEF Arrived

(* The assignments of a routine of the upload.                             *)
LEMMA RoutineArrives ==
  ASSUME goal \in PathGoals, P!BridgeAccepts(goal), Kept, uploaded \in 1 .. Total,
         path_len \in [Kinds -> Nat], call = UploadOf(goal)[uploaded],
         uploaded \in 2 .. Total - 2 => Arrived(uploaded - 1),
         uploaded = Total - 1 => Announced,
         ApplyRoutine
  PROVE  returned' = "OK" /\ Arrived(uploaded)'
<1>0. /\ Nodes \in Nat \ {0} /\ Tables \in Nat \ {0} /\ Total = Tables + 5 * Nodes + 2
  BY GoalFields, HeaderIs DEF Total
<1>1. /\ uploaded = 1 => call = P!BeginPath(goal)
      /\ uploaded \in 2 .. Tables =>
           call.op \in {"setPathFrame", "setPathCondition"}
      /\ \A m \in 0 .. Nodes - 1, r \in 0 .. 4 :
           uploaded = Tables + 5 * m + r + 1 => call = P!NodeCommands(goal, m + 1)[r + 1]
      /\ uploaded = Total - 1 => call = P!CommitPath(goal)
      /\ uploaded = Total => call = P!execute_path_command(goal)
  BY CommandAt
<1>2. CASE uploaded = 1
  <2>1. call.op = "beginPath" /\ call = P!BeginPath(goal)
    BY <1>1, <1>2 DEF P!BeginPath
  <2>2. begin_path
    BY <2>1 DEF ApplyRoutine, path_node_target, path_node_part, PartOf, commit_path_node,
                commit_path, abort_path_upload, other_routine
  <2>3. Announced' /\ path_upload_active' /\ NodesAre(0, 0)'
    <3>1. /\ active_path_id' = goal.path_id /\ active_path_type' = P!Kind(goal)
          /\ expected_path_nodes' = Nodes /\ path_start_index' = P!StartOf(goal)
          /\ path_end_index' = P!EndOf(goal) /\ path_upload_active'
          /\ committed_path_nodes' = 0 /\ ~path_node_pending'
          /\ path_len' = [k \in Kinds |-> 0] /\ P!Kind(goal) \in Kinds
      BY <2>1, <2>2, HeaderIs DEF begin_path, P!BeginPath, clear_native_paths, Nodes
    <3>2. path_len'[active_path_type'] = 0
      BY <3>1
    <3> QED  BY <3>1, <3>2 DEF Announced, NodesAre, Kept, Nodes
  <2>4. returned' = "OK"
    BY <2>2 DEF begin_path, Return
  <2> QED  BY <1>0, <1>2, <2>3, <2>4, TableArrived
<1>3. CASE uploaded \in 2 .. Tables
  <2>1. call.op \in {"setPathFrame", "setPathCondition"}
    BY <1>1, <1>3
  <2>2. other_routine
    BY <2>1 DEF ApplyRoutine, begin_path, path_node_target, path_node_part, PartOf,
                commit_path_node, commit_path, abort_path_upload
  <2>3. returned' = "OK" /\ SameUpload
    BY <2>2 DEF other_routine, Return, SameUpload, uploadVars, statusVars
  <2>4. Announced /\ path_upload_active /\ NodesAre(0, 0)
    <3>1. Arrived(uploaded - 1) /\ uploaded - 1 \in 1 .. Tables
          /\ uploaded - 1 \in 1 .. Total - 1 /\ uploaded - 1 \in 1 .. Total - 2
      BY <1>0, <1>3
    <3> QED  BY <3>1 DEF Arrived
  <2>5. Announced' /\ path_upload_active' /\ NodesAre(0, 0)'
    BY <2>3, <2>4 DEF SameUpload, Announced, NodesAre, Kept, Nodes
  <2> QED  BY <1>0, <1>3, <2>3, <2>5, TableArrived
<1>4. ASSUME NEW m \in 0 .. Nodes - 1, NEW r \in 0 .. 4, uploaded = Tables + 5 * m + r + 1
      PROVE  returned' = "OK" /\ Arrived(uploaded)'
  <2> DEFINE d == P!NodeCommands(goal, m + 1)
  <2>1. /\ \A k \in 0 .. 4 : d[k + 1].id = goal.path_id /\ d[k + 1].index = m + 1
        /\ d[1].op = "pathNodeTarget" /\ d[1].motion # "invalid"
        /\ d[2].op = "pathNodeMotion" /\ d[3].op = "pathNodeBlend"
        /\ d[4].op = "pathNodeSync" /\ d[5].op = "commitPathNode"
    BY NodeCommandIs
  <2>2. call = d[r + 1]
    BY <1>1, <1>4
  <2> HIDE DEF d
  <2>3. call.index = m + 1
    BY <2>1, <2>2
  <2>4. Announced /\ path_upload_active /\ NodesAre(m, r)
    <3>1. /\ uploaded - 1 = Tables + 5 * m + r /\ uploaded - 1 < Total - 1 /\ m \in 0 .. Nodes
          /\ uploaded - 1 \in 1 .. Total - 1 /\ uploaded - 1 \in 1 .. Total - 2
          /\ uploaded \in 2 .. Total - 2
      BY <1>0, <1>4
    <3>2. Arrived(uploaded - 1)
      BY <3>1
    <3> QED  BY <3>1, <3>2 DEF Arrived
  <2>5. active_path_type \in Kinds
    BY <2>4, HeaderIs DEF Announced
  <2>6. uploaded < Total - 1 /\ m \in 0 .. Nodes /\ m + 1 \in 0 .. Nodes
    BY <1>0, <1>4
  <2>7. CASE r = 0
    <3>1. call.op = "pathNodeTarget" /\ call.motion # "invalid"
      BY <2>1, <2>2, <2>7
    <3>2. path_node_target
      BY <3>1 DEF ApplyRoutine, begin_path, path_node_part, PartOf,
                  commit_path_node, commit_path, abort_path_upload, other_routine
    <3>3. /\ returned' = "OK" /\ pending_path_node' = m + 1 /\ path_node_pending'
          /\ node_parts' = PartsAfter(1)
          /\ path_len' = [path_len EXCEPT ![active_path_type] = @ + 1]
          /\ UNCHANGED <<path_upload_active, active_path_id, active_path_type,
                         expected_path_nodes, committed_path_nodes, path_start_index,
                         path_end_index>>
      BY <2>3, <3>1, <3>2, AllParts DEF path_node_target, Return
    <3>4. path_len'[active_path_type'] = m + 1
      BY <2>4, <2>5, <2>7, <3>3 DEF NodesAre
    <3>5. Announced' /\ path_upload_active' /\ NodesAre(m, 1)'
      BY <2>4, <3>3, <3>4 DEF Announced, NodesAre, Kept, Nodes
    <3>6. uploaded = Tables + 5 * m + 1
      BY <1>0, <1>4, <2>7
    <3> QED  BY <2>6, <3>3, <3>5, <3>6, NodeArrived
  <2>8. CASE r \in 1 .. 3
    <3>1. /\ call.op \in DOMAIN PartOf
          /\ PartOf[call.op] = <<"target", "motion", "blend", "sync">>[r + 1]
      <4>1. CASE r = 1
        <5>1. call.op = "pathNodeMotion"  BY <2>1, <2>2, <4>1
        <5> QED  BY <4>1, <5>1 DEF PartOf
      <4>2. CASE r = 2
        <5>1. call.op = "pathNodeBlend"  BY <2>1, <2>2, <4>2
        <5> QED  BY <4>2, <5>1 DEF PartOf
      <4>3. CASE r = 3
        <5>1. call.op = "pathNodeSync"  BY <2>1, <2>2, <4>3
        <5> QED  BY <4>3, <5>1 DEF PartOf
      <4> QED  BY <2>8, <4>1, <4>2, <4>3
    <3>2. path_node_part
      BY <3>1 DEF ApplyRoutine, begin_path, path_node_target, PartOf,
                  commit_path_node, commit_path, abort_path_upload, other_routine
    <3>3. /\ returned' = "OK"
          /\ node_parts' = node_parts \cup {PartOf[call.op]}
          /\ UNCHANGED <<path_upload_active, path_node_pending, active_path_id,
                         active_path_type, expected_path_nodes, committed_path_nodes,
                         pending_path_node, path_start_index, path_end_index, path_len>>
      BY <3>2 DEF path_node_part, Return
    <3>4. node_parts' = PartsAfter(r + 1)
      <4>1. node_parts = PartsAfter(r)
        BY <2>4, <2>8 DEF NodesAre
      <4>2. PartsAfter(r + 1) = PartsAfter(r) \cup {<<"target", "motion", "blend", "sync">>[r + 1]}
        BY <2>8, AllParts
      <4> QED  BY <3>1, <3>3, <4>1, <4>2
    <3>5. Announced' /\ path_upload_active' /\ NodesAre(m, r + 1)'
      BY <2>4, <2>8, <3>3, <3>4 DEF Announced, NodesAre, Kept, Nodes
    <3>6. uploaded = Tables + 5 * m + (r + 1) /\ r + 1 \in 0 .. 4
      BY <1>0, <1>4, <2>8
    <3> QED  BY <2>6, <3>3, <3>5, <3>6, NodeArrived
  <2>9. CASE r = 4
    <3>1. call.op = "commitPathNode"
      BY <2>1, <2>2, <2>9
    <3>2. commit_path_node
      BY <3>1 DEF ApplyRoutine, begin_path, path_node_target, path_node_part, PartOf,
                  commit_path, abort_path_upload, other_routine
    <3>3. /\ returned' = "OK" /\ committed_path_nodes' = committed_path_nodes + 1
          /\ ~path_node_pending'
          /\ UNCHANGED <<path_upload_active, active_path_id, active_path_type,
                         expected_path_nodes, path_start_index, path_end_index, path_len>>
      BY <3>2 DEF commit_path_node, Return
    <3>4. Announced' /\ path_upload_active' /\ NodesAre(m + 1, 0)'
      BY <2>4, <2>9, <3>3 DEF Announced, NodesAre, Kept, Nodes
    <3>5. uploaded = Tables + 5 * (m + 1) + 0
      BY <1>0, <1>4, <2>9
    <3> QED  BY <2>6, <3>3, <3>4, <3>5, NodeArrived
  <2> QED  BY <2>7, <2>8, <2>9
<1>5. CASE uploaded = Total - 1
  <2>1. call.op = "commitPath" /\ Announced
    BY <1>1, <1>5 DEF P!CommitPath
  <2>2. commit_path
    BY <2>1 DEF ApplyRoutine, begin_path, path_node_target, path_node_part, PartOf,
                commit_path_node, abort_path_upload, other_routine
  <2>3. /\ returned' = "OK" /\ path_state' = "READY"
        /\ UNCHANGED <<active_path_id, active_path_type, expected_path_nodes,
                       path_start_index, path_end_index>>
    BY <2>2 DEF commit_path, Return
  <2>4. Announced'
    BY <2>1, <2>3 DEF Announced, Kept, Nodes
  <2> QED  BY <1>5, <2>3, <2>4, ReadyArrived
<1>6. CASE uploaded = Total
  <2>1. call.op = "executePath"
    BY <1>1, <1>6 DEF P!execute_path_command
  <2> QED  BY <2>1 DEF ApplyRoutine, begin_path, path_node_target, path_node_part, PartOf,
                commit_path_node, commit_path, abort_path_upload, other_routine
<1> QED  BY <1>2, <1>3, <1>4, <1>5, <1>6, PlaceOfCommand

(* Nothing is said before the first command, and after the last.           *)
LEMMA NothingArrived ==
  ASSUME goal \in PathGoals
  PROVE  /\ Arrived(0)
         /\ Kept /\ uploaded = Total => Arrived(uploaded)'
<1>1. /\ Nodes \in Nat /\ Tables \in Nat \ {0} /\ Total = Tables + 5 * Nodes + 2
  BY GoalFields DEF Total
<1>2. Arrived(0)
  BY <1>1 DEF Arrived
<1>3. ASSUME Kept, uploaded = Total PROVE Arrived(uploaded)'
  <2>1. /\ Tables' = Tables /\ Nodes' = Nodes /\ Total' = Total /\ uploaded' = Total
    BY <1>3 DEF Kept, Tables, Nodes, Total
  <2>2. Total \notin 1 .. Total - 1 /\ Total \notin 1 .. Total - 2 /\ Total \notin 1 .. Tables
        /\ ~(Total < Total - 1) /\ Total # Total - 1
    BY <1>1
  <2> QED  BY <2>1, <2>2 DEF Arrived
<1> QED  BY <1>2, <1>3

(* Which commands begin, commit and execute.                               *)
LEMMA UploadOps ==
  ASSUME goal \in PathGoals, P!BridgeAccepts(goal), NEW p \in 1 .. Total
  PROVE  LET op == UploadOf(goal)[p].op IN
         /\ op = "beginPath" <=> p = 1
         /\ op = "commitPath" <=> p = Total - 1
         /\ op = "executePath" <=> p = Total
         /\ op \notin {"executeFlyQueue", "addFly", "unknown", "move"}
<1> DEFINE u == UploadOf(goal)[p]
<1>0. /\ Nodes \in Nat \ {0} /\ Tables \in Nat \ {0} /\ Total = Tables + 5 * Nodes + 2
  BY GoalFields, HeaderIs DEF Total
<1>1. /\ p = 1 => u.op = "beginPath"
      /\ p \in 2 .. Tables => u.op \in {"setPathFrame", "setPathCondition"}
      /\ p = Total - 1 => u.op = "commitPath"
      /\ p = Total => u.op = "executePath"
  BY CommandAt DEF P!BeginPath, P!CommitPath, P!execute_path_command
<1>2. ASSUME NEW m \in 0 .. Nodes - 1, NEW r \in 0 .. 4, p = Tables + 5 * m + r + 1
      PROVE  /\ u.op \in {"pathNodeTarget", "pathNodeMotion", "pathNodeBlend", "pathNodeSync",
                          "commitPathNode"}
             /\ p \notin {1, Total - 1, Total}
  <2> DEFINE d == P!NodeCommands(goal, m + 1)
  <2>1. /\ d[1].op = "pathNodeTarget" /\ d[2].op = "pathNodeMotion" /\ d[3].op = "pathNodeBlend"
        /\ d[4].op = "pathNodeSync" /\ d[5].op = "commitPathNode"
    BY NodeCommandIs
  <2>2. u = d[r + 1]
    BY <1>2, CommandAt
  <2> HIDE DEF d, u
  <2>3. r + 1 \in {1, 2, 3, 4, 5}
    OBVIOUS
  <2>4. p \notin {1, Total - 1, Total}
    BY <1>0, <1>2
  <2> QED  BY <2>1, <2>2, <2>3, <2>4
<1> HIDE DEF u
<1>3. CASE \E m \in 0 .. Nodes - 1, r \in 0 .. 4 : p = Tables + 5 * m + r + 1
  <2>1. PICK m \in 0 .. Nodes - 1, r \in 0 .. 4 : p = Tables + 5 * m + r + 1  BY <1>3
  <2> QED  BY <1>2, <2>1 DEF u
<1>4. CASE p = 1 \/ p \in 2 .. Tables \/ p = Total - 1 \/ p = Total
  <2>1. /\ p = 1 => p \notin {Total - 1, Total}
        /\ p \in 2 .. Tables => p \notin {1, Total - 1, Total}
        /\ p = Total - 1 => p \notin {1, Total}
        /\ p = Total => p \notin {1, Total - 1}
    BY <1>0
  <2> QED  BY <1>1, <1>4, <2>1 DEF u
<1> QED  BY <1>3, <1>4, PlaceOfCommand

LEMMA UploadInitInv == UploadInit => UploadInv
<1> SUFFICES ASSUME UploadInit PROVE UploadInv
  OBVIOUS
<1>1. goal \in PathGoals /\ P!BridgeAccepts(goal) /\ uploaded = 0
  BY DEF UploadInit
<1>2. /\ path_len \in [Kinds -> Nat] /\ service = "idle" /\ Quiet
  BY DEF UploadInit, HistoryInit, Init, Quiet
<1>3. Arrived(0) /\ Total \in Nat
  BY <1>1, NothingArrived, GoalFields
<1> QED  BY <1>1, <1>2, <1>3 DEF UploadInv, SendingInv, Serving

(* A step that is none of the upload, nor of its command.                  *)
LEMMA OtherStep ==
  ASSUME UploadInv, SendingInv, Kept, UNCHANGED <<service, call, returned>>, ~void' => ~void,
         Quiet => SameUpload /\ Quiet'
  PROVE  SendingInv'
<1>1. /\ goal \in PathGoals /\ Total' = Total /\ uploaded' = uploaded /\ (Excepted' <=> Excepted)
      /\ UploadOf(goal)' = UploadOf(goal) /\ uploaded \in Nat /\ Total \in Nat
  BY GoalFields DEF UploadInv, Kept, Total, Tables, Nodes, Excepted
<1>2. CASE Quiet
  <2>1. /\ Announced' <=> Announced
        /\ Arrived(uploaded)' <=> Arrived(uploaded)
        /\ Arrived(uploaded - 1)' <=> Arrived(uploaded - 1)
    BY <1>2, StillArrived
  <2> QED  BY <1>1, <1>2, <2>1 DEF SendingInv
<1>3. CASE ~Quiet
  <2>1. uploaded = Total /\ service # "admitted"
    BY <1>1, <1>3 DEF SendingInv
  <2>2. Arrived(uploaded)'
    BY <1>1, <2>1, NothingArrived
  <2> QED  BY <1>1, <2>1, <2>2 DEF SendingInv
<1> QED  BY <1>2, <1>3

(* The goal stays, and no step takes an upload up again.                   *)
LEMMA StaysTyped ==
  ASSUME UploadInv, [UploadNext]_pathUploadVars
  PROVE  /\ goal' = goal /\ uploaded' \in Nat /\ path_len' \in [Kinds -> Nat]
         /\ upload' = "sending" => upload = "sending"
<1>1. goal' = goal /\ uploaded' \in {uploaded, uploaded + 1} /\ upload' \in {upload, "over"}
  BY DEF UploadNext, UploadStep, SendNext, Withdraw, TakeAnswer, UploadServed,
         pathUploadVars, bridgeVars
<1>2. \/ path_len' = path_len
      \/ path_len' = [k \in Kinds |-> 0]
      \/ path_len' = [path_len EXCEPT ![active_path_type] = @ + 1]
  <2>1. CASE request_abort  BY <2>1 DEF request_abort
  <2>2. CASE ApplyRoutine
    BY <2>2 DEF ApplyRoutine, begin_path, path_node_target, path_node_part, commit_path_node,
                commit_path, abort_path_upload, other_routine, clear_native_paths, uploadVars
  <2>3. CASE reset_abort \/ execute_path \/ MoveReturns \/ CheckAfterMove \/ TakeResult
    BY <2>3 DEF reset_abort, execute_path, MoveReturns, CheckAfterMove, TakeResult, uploadVars
  <2>4. CASE ArmStep
    BY <2>4 DEF ArmStep, ReachNode, ReachTarget, uploadVars
  <2>5. CASE ControlStep
    BY <2>5 DEF ControlStep, signal_path_segment, SegmentSignaled, uploadVars
  <2>6. CASE Interrupt
    BY <2>6 DEF Interrupt, report_path_wait, report_path_event, LOCK, UNLOCK, uploadVars
  <2>7. CASE SendNext \/ Withdraw
    BY <2>7 DEF SendNext, Withdraw, call_service, uploadVars
  <2>8. CASE UNCHANGED pathUploadVars
    BY <2>8 DEF pathUploadVars, historyVars, movementVars, uploadVars
  <2> QED  BY <2>1, <2>2, <2>3, <2>4, <2>5, <2>6, <2>7, <2>8
           DEF UploadNext, UploadStep, TakeAnswer, UploadServed
<1> QED  BY <1>1, <1>2 DEF UploadInv

LEMMA NextArrived ==
  ASSUME goal \in PathGoals, uploaded \in Nat, goal' = goal, uploaded' = uploaded + 1, SameUpload
  PROVE  /\ Announced' <=> Announced
         /\ Arrived(uploaded) => Arrived(uploaded - 1)'
<1>1. Announced' <=> Announced
  BY DEF Announced, SameUpload, Nodes
<1>2. /\ uploaded' - 1 = uploaded /\ Total' = Total /\ Tables' = Tables /\ Nodes' = Nodes
      /\ path_upload_active' = path_upload_active /\ path_state' = path_state
  BY DEF Total, Tables, Nodes, SameUpload
<1>3. \A m, r : NodesAre(m, r)' <=> NodesAre(m, r)
  BY DEF NodesAre, SameUpload
<1> QED  BY <1>1, <1>2, <1>3 DEF Arrived

LEMMA SendKeeps ==
  ASSUME UploadInv, SendingInv, goal' = goal, SendNext, StepRemembered
  PROVE  SendingInv'
<1> DEFINE c == UploadOf(goal)[uploaded + 1]
<1>0. /\ goal \in PathGoals /\ P!BridgeAccepts(goal) /\ uploaded \in Nat /\ Total \in Nat
      /\ uploaded < Total /\ uploaded' = uploaded + 1 /\ Total' = Total
      /\ uploaded + 1 \in 1 .. Total /\ UploadOf(goal)' = UploadOf(goal)
      /\ service = "cleared" /\ (Excepted' <=> Excepted)
  <2>1. goal \in PathGoals /\ P!BridgeAccepts(goal) /\ uploaded \in Nat
    BY DEF UploadInv
  <2>2. Total \in Nat /\ Total >= 1
    <3>1. Tables \in Nat \ {0} /\ Total \in Nat /\ Total >= Tables + 2  BY <2>1, GoalFields
    <3> QED  BY <3>1
  <2>3. Total' = Total /\ UploadOf(goal)' = UploadOf(goal) /\ (Excepted' <=> Excepted)
    BY DEF Total, Tables, Nodes, Excepted
  <2>4. service = "cleared" /\ uploaded < Total /\ uploaded' = uploaded + 1
    BY <2>1, UploadList DEF SendNext
  <2> QED  BY <2>1, <2>2, <2>3, <2>4
<1>1. c.op \notin {"executeFlyQueue", "addFly", "unknown", "move"}
  BY <1>0, UploadOps
<1>2. call_service(c)
  BY DEF SendNext
<1> HIDE DEF c
<1>3. SameUpload /\ Quiet' /\ call' = c
  BY <1>0, <1>2 DEF call_service, SameUpload, uploadVars, statusVars, armVars, SendingInv, Quiet
<1>4. void' <=> void
  BY <1>0 DEF StepRemembered, Begun
<1>5. /\ service' \in {"returned", "admitted"}
      /\ service' = "returned" => returned' # "OK"
      /\ service' = "returned" /\ Admits(c) => returned' = "ABORTED"
  BY <1>1, <1>2 DEF call_service, CallRefused, CallAborted, CallAdmitted, Return
<1>6. ~void => Arrived(uploaded)
  BY <1>0 DEF SendingInv
<1>7. ~void /\ ~Excepted => Admits(c)
  BY <1>0, <1>6, NextAdmitted DEF c
<1>8. /\ ~void => Arrived(uploaded - 1)'
      /\ ~void /\ uploaded' = Total' - 1 => Announced'
  <2>1. ~void /\ uploaded' = Total' - 1 => Announced
    <3>1. Total >= 3
      BY <1>0, GoalFields
    <3> QED  BY <1>0, <1>6, <3>1 DEF Arrived
  <2> QED  BY <1>0, <1>3, <1>6, <2>1, NextArrived
<1> QED  BY <1>0, <1>3, <1>4, <1>5, <1>7, <1>8 DEF SendingInv, Serving, c

LEMMA RoutineKeeps ==
  ASSUME UploadInv, SendingInv, Kept, ApplyRoutine, StepRemembered
  PROVE  SendingInv'
<1>0. /\ goal \in PathGoals /\ P!BridgeAccepts(goal) /\ uploaded \in Nat /\ Total \in Nat
      /\ uploaded \in 1 .. Total /\ Total' = Total /\ uploaded' = uploaded
      /\ UploadOf(goal)' = UploadOf(goal) /\ service = "admitted"
      /\ path_len \in [Kinds -> Nat] /\ call = UploadOf(goal)[uploaded] /\ Quiet
  <2>1. goal \in PathGoals /\ P!BridgeAccepts(goal) /\ uploaded \in Nat
    BY DEF UploadInv
  <2>2. Total \in Nat /\ Total >= 1
    <3>1. Tables \in Nat \ {0} /\ Total \in Nat /\ Total >= Tables + 2  BY <2>1, GoalFields
    <3> QED  BY <3>1
  <2>3. Total' = Total /\ UploadOf(goal)' = UploadOf(goal)
    BY DEF Kept, Total, Tables, Nodes
  <2>4. service = "admitted" /\ path_len \in [Kinds -> Nat]
    BY DEF ApplyRoutine, UploadInv
  <2> QED  BY <2>1, <2>2, <2>3, <2>4 DEF SendingInv, Serving, Kept
<1>1. call' = call /\ service' = "returned" /\ Quiet'
  BY <1>0 DEF ApplyRoutine, begin_path, path_node_target, path_node_part, commit_path_node,
         commit_path, abort_path_upload, other_routine, Return, statusVars, armVars, Quiet
<1>2. ASSUME ~void' PROVE returned' = "OK" /\ Arrived(uploaded)'
  <2>1. ~void \/ uploaded = 1
    BY <1>0, <1>2, UploadOps DEF StepRemembered, Begun
  <2>2. /\ uploaded \in 2 .. Total - 2 => Arrived(uploaded - 1)
        /\ uploaded = Total - 1 => Announced
    <3>1. Total >= 3
      BY <1>0, GoalFields
    <3> QED  BY <1>0, <2>1, <3>1 DEF SendingInv
  <2> QED  BY <1>0, <2>2, RoutineArrives
<1> QED  BY <1>0, <1>1, <1>2 DEF SendingInv, Serving

LEMMA MotionKeeps ==
  ASSUME UploadInv, SendingInv, Kept, execute_path \/ MoveReturns \/ CheckAfterMove
  PROVE  SendingInv'
<1>0. /\ goal \in PathGoals /\ P!BridgeAccepts(goal) /\ uploaded \in Nat /\ Total \in Nat
      /\ Total' = Total /\ uploaded' = uploaded /\ UploadOf(goal)' = UploadOf(goal)
      /\ uploaded <= Total /\ Total >= 1
  <2>1. goal \in PathGoals /\ P!BridgeAccepts(goal) /\ uploaded \in Nat
    BY DEF UploadInv
  <2>2. Total \in Nat /\ Total >= 1
    <3>1. Tables \in Nat \ {0} /\ Total \in Nat /\ Total >= Tables + 2  BY <2>1, GoalFields
    <3> QED  BY <3>1
  <2>3. Total' = Total /\ UploadOf(goal)' = UploadOf(goal)
    BY DEF Kept, Total, Tables, Nodes
  <2> QED  BY <2>1, <2>2, <2>3 DEF SendingInv, Kept
<1>1. call = UploadOf(goal)[uploaded] /\ uploaded \in 1 .. Total
  BY <1>0 DEF SendingInv, Serving, execute_path, MoveReturns, CheckAfterMove
<1>2. uploaded = Total
  <2>1. CASE execute_path  BY <1>0, <1>1, <2>1, UploadOps DEF execute_path
  <2>2. CASE MoveReturns \/ CheckAfterMove
    BY <2>2 DEF SendingInv, MoveReturns, CheckAfterMove
  <2> QED  BY <2>1, <2>2
<1>3. call' = call /\ service' \in {"moving", "moved", "returned"}
      /\ (service' = "returned" => returned' \in {"OK", "ABORTED"})
  BY DEF execute_path, MoveReturns, CheckAfterMove, Return, ResultOfMove
<1>4. Arrived(uploaded)'
  BY <1>0, <1>2, NothingArrived
<1> QED  BY <1>0, <1>1, <1>2, <1>3, <1>4 DEF SendingInv, Serving

LEMMA BetweenKeeps ==
  ASSUME UploadInv, SendingInv, Kept, StepRemembered,
         reset_abort \/ (TakeResult /\ returned = "OK")
  PROVE  SendingInv'
<1>0. /\ goal \in PathGoals /\ Total' = Total /\ uploaded' = uploaded
      /\ uploaded \in Nat /\ Total \in Nat
  BY GoalFields DEF UploadInv, Kept, Total, Tables, Nodes
<1>1. SameUpload /\ (Quiet' <=> Quiet) /\ service' \in {"idle", "cleared"}
      /\ service \in {"idle", "returned"} /\ (service = "returned" => returned = "OK")
  BY DEF reset_abort, TakeResult, SameUpload, uploadVars, statusVars, armVars, Quiet
<1>2. ~void' => ~void
  BY <1>1 DEF StepRemembered, Begun
<1>3. ~void' => Arrived(uploaded)'
  BY <1>1, <1>2, StillArrived DEF SendingInv
<1> QED  BY <1>0, <1>1, <1>3 DEF SendingInv, Serving

LEMMA AbortKeeps ==
  ASSUME UploadInv, SendingInv, Kept, request_abort, AbortRemembered
  PROVE  SendingInv'
<1>0. /\ goal \in PathGoals /\ P!BridgeAccepts(goal) /\ Total' = Total /\ uploaded' = uploaded
      /\ uploaded \in Nat /\ Total \in Nat /\ Total >= 3 /\ UploadOf(goal)' = UploadOf(goal)
  <2>1. goal \in PathGoals /\ P!BridgeAccepts(goal) /\ uploaded \in Nat  BY DEF UploadInv
  <2>2. Total \in Nat /\ Total >= 3  BY <2>1, GoalFields
  <2> QED  BY <2>1, <2>2 DEF Kept, Total, Tables, Nodes
<1>1. /\ UNCHANGED <<service, call, returned>> /\ (Quiet => Quiet')
  BY DEF request_abort, AbortFlags, CancelAll, callVars, Quiet
<1>2. ASSUME ~void'
      PROVE  /\ ~void /\ service = "admitted" /\ uploaded \in {1, Total - 1, Total}
             /\ uploaded = Total - 1 => Announced'
  <2>1. ~void /\ service = "admitted"
        /\ call.op \in {"beginPath", "commitPath", "executePath"}
    BY <1>2 DEF AbortRemembered, PastItsCheck
  <2>2. call = UploadOf(goal)[uploaded] /\ uploaded \in 1 .. Total
    BY <1>0, <2>1 DEF SendingInv, Serving
  <2>3. uploaded \in {1, Total - 1, Total}
    BY <1>0, <2>1, <2>2, UploadOps
  <2>4. Announced' <=> Announced
    BY DEF request_abort, Announced, Kept, Nodes
  <2> QED  BY <2>1, <2>3, <2>4 DEF SendingInv
<1> QED  BY <1>0, <1>1, <1>2 DEF SendingInv, Serving

LEMMA SidelineKeeps ==
  ASSUME UploadInv, SendingInv, Kept,
         \/ (ArmStep \/ ControlStep \/ Interrupt) /\ StepRemembered
         \/ UNCHANGED pathUploadVars
  PROVE  SendingInv'
<1>1. CASE ArmStep \/ ControlStep \/ Interrupt
  <2>1. /\ UNCHANGED <<service, call, returned>>
        /\ Quiet => SameUpload /\ Quiet'
    <3>1. CASE ArmStep
      BY <3>1 DEF ArmStep, ReachNode, ReachTarget, callVars, uploadVars, statusVars,
                  SameUpload, Quiet
    <3>2. CASE ControlStep
      BY <3>2 DEF ControlStep, signal_path_segment, SignalAccepted, SegmentSignaled, callVars, Quiet
    <3>3. CASE Interrupt
      BY <3>3 DEF Interrupt, report_path_wait, report_path_event, LOCK, UNLOCK, callVars,
                  uploadVars, statusVars, armVars, SameUpload, Quiet
    <3> QED  BY <1>1, <3>1, <3>2, <3>3
  <2>2. ~void' => ~void
    <3>1. CASE StepRemembered
      BY <2>1, <3>1 DEF StepRemembered, Begun
    <3>2. CASE UNCHANGED pathUploadVars
      BY <3>2 DEF pathUploadVars, historyVars, history
    <3> QED  BY <3>1, <3>2
  <2> QED  BY <2>1, <2>2, OtherStep
<1>2. CASE UNCHANGED pathUploadVars
  <2>1. /\ UNCHANGED <<service, call, returned, void>> /\ SameUpload /\ (Quiet => Quiet')
    BY <1>2 DEF pathUploadVars, historyVars, history, movementVars, callVars, uploadVars,
                statusVars, armVars, SameUpload, Quiet
  <2> QED  BY <2>1, OtherStep
<1> QED  BY <1>1, <1>2

LEMMA UploadNextInv == UploadInv /\ [UploadNext]_pathUploadVars => UploadInv'
<1> SUFFICES ASSUME UploadInv, [UploadNext]_pathUploadVars PROVE UploadInv'
  OBVIOUS
<1>1. /\ goal' = goal /\ uploaded' \in Nat /\ path_len' \in [Kinds -> Nat]
      /\ upload' = "sending" => upload = "sending"
  BY StaysTyped
<1>2. goal' \in PathGoals /\ P!BridgeAccepts(goal')
  BY <1>1 DEF UploadInv
<1>3. ASSUME upload' = "sending" PROVE SendingInv'
  <2>0. SendingInv
    BY <1>1, <1>3 DEF UploadInv
  <2>1. CASE request_abort /\ AbortRemembered /\ UNCHANGED <<uploaded, upload>>
    BY <1>1, <2>0, <2>1, AbortKeeps DEF Kept
  <2>2. CASE SendNext /\ StepRemembered
    BY <1>1, <2>0, <2>2, SendKeeps
  <2>3. CASE Withdraw
    BY <1>3, <2>3 DEF Withdraw
  <2>4. CASE TakeAnswer /\ StepRemembered
    <3>1. TakeResult /\ returned = "OK" /\ Kept
      BY <1>1, <1>3, <2>4 DEF TakeAnswer, Kept
    <3> QED  BY <2>0, <2>4, <3>1, BetweenKeeps
  <2>5. CASE UploadServed /\ StepRemembered
    <3>1. Kept
      BY <1>1, <2>5 DEF UploadServed, Kept
    <3>2. reset_abort \/ ApplyRoutine \/ (execute_path \/ MoveReturns \/ CheckAfterMove)
      BY <2>5 DEF UploadServed
    <3> QED  BY <2>0, <2>5, <3>1, <3>2, BetweenKeeps, RoutineKeeps, MotionKeeps
  <2>6. CASE (ArmStep \/ ControlStep \/ Interrupt) /\ UNCHANGED <<uploaded, upload>>
             /\ StepRemembered
    BY <1>1, <2>0, <2>6, SidelineKeeps DEF Kept
  <2>7. CASE UNCHANGED pathUploadVars
    <3>1. Kept
      BY <2>7 DEF pathUploadVars, bridgeVars, Kept
    <3> QED  BY <2>0, <2>7, <3>1, SidelineKeeps
  <2> QED  BY <2>1, <2>2, <2>3, <2>4, <2>5, <2>6, <2>7 DEF UploadNext, UploadStep
<1> QED  BY <1>1, <1>2, <1>3 DEF UploadInv

LEMMA UploadAccepted == UploadInv => UploadIsAccepted
BY DEF UploadInv, SendingInv, UploadIsAccepted, Excepted

(* The controller refuses no command of a PATH the bridge has accepted,     *)
(* whatever the PATH, as long as no abort voids it: after p commands the    *)
(* controller has come as far as Arrived(p) says, and that admits the next. *)
THEOREM UploadsAreAccepted == UploadSpec => []UploadIsAccepted
BY UploadInitInv, UploadNextInv, UploadAccepted, PTL DEF UploadSpec
=============================================================================
