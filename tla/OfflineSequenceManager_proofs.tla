------------------- MODULE OfflineSequenceManager_proofs -------------------
(***************************************************************************)
(* What leaves the editor for the robot is reviewed: the proof that, for   *)
(* every set of PATHs the planner may publish and every node limit, a      *)
(* sequence sent to the arm or exported has no dangling wait, whatever is  *)
(* merged, undone, cleared and sent in whatever order.                     *)
(*                                                                         *)
(* The merge changes an object that the list of PATHs refers to.  The      *)
(* induction needs that no object is in the list twice and that the draft  *)
(* is not in it, so that a change of the draft or of the last PATH leaves  *)
(* the other PATHs as they were reviewed.                                  *)
(***************************************************************************)
EXTENDS OfflineSequenceManager, SequenceTheorems, TLAPS

USE ManagerAssumption DEF ManagerAssumption

(* The list holds every object once, and not the draft.                    *)
PathsDistinct ==
  /\ \A i, j \in 1 .. Len(paths) : paths[i] = paths[j] => i = j
  /\ \A i \in 1 .. Len(paths) : paths[i] # draft

(* Only previews wait for a reset of the simulation.                       *)
ResetIsPreview == \A g \in Goals : phase[g] = "resetting" => server[g] = "sim"

Inv == /\ TypeOK /\ PathsDistinct /\ ResetIsPreview
       /\ StoppedIsFinal /\ OnlyLastDangles /\ SentToArmIsFinal

-----------------------------------------------------------------------------
LEMMA PreparedFits == Prepared \subseteq PathBlocks
BY DEF PathBlocks

LEMMA LastNodeFits ==
  ASSUME NEW b \in PathBlocks, b.nodes # <<>>, NEW kind \in NodeKinds
  PROVE  LastNodeBecomes(b, kind) \in PathBlocks
<1> DEFINE n == [b.nodes EXCEPT ![Len(b.nodes)] = kind]
<1>1. b.nodes \in Seq(NodeKinds) /\ Len(b.nodes) <= MaxPathNodes
  BY DEF PathBlocks, Block
<1>2. n \in Seq(NodeKinds) /\ Len(n) = Len(b.nodes)
  BY <1>1, ExceptSeq
<1>3. LastNodeBecomes(b, kind) = [b EXCEPT !.nodes = n]
  BY DEF LastNodeBecomes, PathBlocks, Block
<1> HIDE DEF n
<1> QED BY <1>1, <1>2, <1>3 DEF PathBlocks, Block

LEMMA MergedFits ==
  ASSUME NEW left \in PathBlocks, NEW right \in PathBlocks,
         compatible(left, right)
  PROVE  Merged(left, right) \in PathBlocks
<1> DEFINE n == left.nodes \o right.nodes
<1>1. /\ left.nodes \in Seq(NodeKinds) /\ right.nodes \in Seq(NodeKinds)
      /\ Len(left.nodes) + Len(right.nodes) <= MaxPathNodes
  BY DEF PathBlocks, Block, compatible
<1>2. n \in Seq(NodeKinds) /\ Len(n) = Len(left.nodes) + Len(right.nodes)
  BY <1>1, ConcatProperties
<1>3. Merged(left, right) = [left EXCEPT !.nodes = n, !.end = right.end,
                                         !.wait_after = right.wait_after]
  BY DEF Merged
<1> HIDE DEF n
<1> QED BY <1>1, <1>2, <1>3 DEF PathBlocks, Block

LEMMA WaitAfterFits ==
  ASSUME NEW b \in PathBlocks, NEW wait \in BOOLEAN
  PROVE  [b EXCEPT !.wait_after = wait] \in PathBlocks
BY DEF PathBlocks, Block

(* What a list of objects contains is a sequence of PATHs.                 *)
LEMMA ContentsIsSequence ==
  ASSUME blocks \in Seq(PathBlocks), NEW ids \in Seq(1 .. Len(blocks))
  PROVE  /\ Contents(ids) \in Seq(Block)
         /\ Len(Contents(ids)) = Len(ids)
         /\ \A i \in 1 .. Len(ids) : Contents(ids)[i] = blocks[ids[i]]
<1>1. \A i \in 1 .. Len(ids) : ids[i] \in 1 .. Len(blocks)
  BY ElementOfSeq
<1>2. \A i \in 1 .. Len(ids) : blocks[ids[i]] \in Block
  BY <1>1, ElementOfSeq DEF PathBlocks
<1>3. Len(ids) \in Nat
  BY LenProperties
<1> QED BY <1>2, <1>3, IsASeq DEF Contents

(* The sequences of references stay typed when a PATH is drafted or        *)
(* changed.                                                                *)
LEMMA ReferencesStay ==
  ASSUME TypeOK, Len(blocks') >= Len(blocks), Len(blocks') \in Nat
  PROVE  /\ draft \in 0 .. Len(blocks')
         /\ paths \in Seq(1 .. Len(blocks'))
         /\ captured \in [Goals -> Seq(1 .. Len(blocks'))]
<1>1. Len(blocks) \in Nat
  BY LenProperties DEF TypeOK
<1>2. Seq(1 .. Len(blocks)) \subseteq Seq(1 .. Len(blocks'))
  BY <1>1, SeqMonotonic
<1> QED BY <1>1, <1>2 DEF TypeOK

-----------------------------------------------------------------------------
LEMMA TypeStep == TypeOK /\ [Next]_managerVars => TypeOK'
<1> SUFFICES ASSUME TypeOK, [Next]_managerVars PROVE TypeOK'
  OBVIOUS
<1>0. Len(blocks) \in Nat
  BY LenProperties DEF TypeOK
<1>1. ASSUME NEW b \in Prepared, draft_callback(b) PROVE TypeOK'
  <2>1. /\ blocks' \in Seq(PathBlocks) /\ Len(blocks') = Len(blocks) + 1
    BY <1>1, PreparedFits, AppendProperties DEF draft_callback, TypeOK
  <2>2. /\ paths \in Seq(1 .. Len(blocks'))
        /\ captured \in [Goals -> Seq(1 .. Len(blocks'))]
    BY <1>0, <2>1, ReferencesStay
  <2>3. draft' \in 0 .. Len(blocks')
    BY <1>0, <1>1, <2>1 DEF draft_callback
  <2> QED BY <1>1, <2>1, <2>2, <2>3 DEF draft_callback, TypeOK, goalVars
<1>2. CASE motion_active_callback
  BY <1>2 DEF motion_active_callback, TypeOK, goalVars
<1>3. CASE start_recording BY <1>3 DEF start_recording, TypeOK, goalVars
<1>4. CASE stop_recording  BY <1>4 DEF stop_recording, TypeOK, goalVars
<1>5. ASSUME NEW b \in PathBlocks, draft # NoDraft,
             blocks' = [blocks EXCEPT ![draft] = b],
             UNCHANGED <<recording, motion_active, draft, paths, goalVars, exported>>
      PROVE  TypeOK'
  <2>1. blocks' \in Seq(PathBlocks) /\ Len(blocks') = Len(blocks)
    BY <1>5, ExceptSeq DEF TypeOK, NoDraft
  <2> QED BY <1>5, <2>1 DEF TypeOK, goalVars
<1>6. ASSUME NEW wait \in BOOLEAN, set_draft_end_wait(wait) PROVE TypeOK'
  <2> DEFINE b == blocks[draft]
             last == b.nodes[Len(b.nodes)]
             kind == IF wait THEN "wait" ELSE IF last = "wait" THEN "stop" ELSE last
  <2>1. draft # NoDraft /\ b.nodes # <<>>
    BY <1>6 DEF set_draft_end_wait
  <2>2. b \in PathBlocks
    BY <1>0, <2>1, ElementOfSeq DEF TypeOK, NoDraft
  <2>3. kind \in NodeKinds
    <3>1. b.nodes \in Seq(NodeKinds)
      BY <2>2 DEF PathBlocks, Block
    <3>2. last \in NodeKinds
      BY <2>1, <3>1, LenProperties, ElementOfSeq, EmptySeq
    <3> QED BY <3>2 DEF NodeKinds
  <2>4. LastNodeBecomes(b, kind) \in PathBlocks
    BY <2>1, <2>2, <2>3, LastNodeFits
  <2>5. /\ blocks' = [blocks EXCEPT ![draft] = LastNodeBecomes(b, kind)]
        /\ UNCHANGED <<recording, motion_active, draft, paths, goalVars, exported>>
    BY <1>6 DEF set_draft_end_wait
  <2> QED BY <1>5, <2>1, <2>4, <2>5
<1>7. ASSUME NEW wait \in BOOLEAN, set_draft_wait_after(wait) PROVE TypeOK'
  <2>1. draft # NoDraft
    BY <1>7 DEF set_draft_wait_after
  <2>2. blocks[draft] \in PathBlocks
    BY <1>0, <2>1, ElementOfSeq DEF TypeOK, NoDraft
  <2>3. [blocks[draft] EXCEPT !.wait_after = wait] \in PathBlocks
    BY <2>2, WaitAfterFits
  <2>4. /\ blocks' = [blocks EXCEPT ![draft] =
                        [blocks[draft] EXCEPT !.wait_after = wait]]
        /\ UNCHANGED <<recording, motion_active, draft, paths, goalVars, exported>>
    BY <1>7 DEF set_draft_wait_after
  <2> QED BY <1>5, <2>1, <2>3, <2>4
<1>8. CASE accept
  <2>1. draft # NoDraft /\ draft \in 1 .. Len(blocks)
    BY <1>0, <1>8 DEF accept, TypeOK, NoDraft
  <2>2. CASE AcceptMerges
    <3>1. paths # <<>> /\ compatible(blocks[LastPath], blocks[draft])
      BY <2>2 DEF AcceptMerges, Mergeable
    <3>2. LastPath \in 1 .. Len(blocks)
      BY <3>1, LenProperties, ElementOfSeq, EmptySeq DEF TypeOK, LastPath
    <3>3. blocks[LastPath] \in PathBlocks /\ blocks[draft] \in PathBlocks
      BY <2>1, <3>2, ElementOfSeq DEF TypeOK
    <3>4. Merged(blocks[LastPath], blocks[draft]) \in PathBlocks
      BY <3>1, <3>3, MergedFits
    <3>5. blocks' \in Seq(PathBlocks) /\ Len(blocks') = Len(blocks)
      BY <2>2, <3>2, <3>4, ExceptSeq DEF AcceptMerges, TypeOK
    <3> QED BY <1>0, <1>8, <2>2, <3>5
            DEF accept, AcceptMerges, TypeOK, goalVars, NoDraft
  <2>3. CASE AcceptAppends
    <3>1. paths' \in Seq(1 .. Len(blocks))
      BY <2>1, <2>3, AppendProperties DEF AcceptAppends, TypeOK
    <3> QED BY <1>0, <1>8, <2>3, <3>1
            DEF accept, AcceptAppends, TypeOK, goalVars, NoDraft
  <2> QED BY <1>8, <2>2, <2>3 DEF accept
<1>9. CASE reject
  BY <1>0, <1>9 DEF reject, TypeOK, goalVars, NoDraft
<1>10. CASE undo
  <2>1. paths' \in Seq(1 .. Len(blocks))
    BY <1>10, LenProperties, EmptySeq, SubSeqProperties DEF undo, TypeOK
  <2> QED BY <1>10, <2>1 DEF undo, TypeOK, goalVars
<1>11. CASE clear
  <2>1. paths' \in Seq(1 .. Len(blocks))
    BY <1>11, EmptySeq DEF clear
  <2>2. draft' \in 0 .. Len(blocks)
    BY <1>0, <1>11 DEF clear, NoDraft
  <2>3. recording' \in BOOLEAN
    BY <1>11 DEF clear
  <2>4. UNCHANGED <<motion_active, blocks, goalVars, exported>>
    BY <1>11 DEF clear
  <2> QED BY <2>1, <2>2, <2>3, <2>4 DEF TypeOK, goalVars
<1>12. CASE export
  <2>1. exported' \in Seq(Block)
    BY <1>12, ContentsIsSequence DEF export, TypeOK
  <2> QED BY <1>12, <2>1 DEF export, TypeOK, editVars, goalVars
<1>13. ASSUME NEW g \in Goals, send(g) PROVE TypeOK'
  <2>1. Contents(paths) \in Seq(Block)
    BY ContentsIsSequence DEF TypeOK
  <2> QED BY <1>13, <2>1 DEF send, TypeOK, editVars, Servers, Phases
<1>14. ASSUME NEW g \in Goals, preview_all(g) PROVE TypeOK'
  BY <1>14 DEF preview_all, TypeOK, editVars, Servers, Phases
<1>15. ASSUME NEW g \in Goals, start_final_preview(g) PROVE TypeOK'
  <2>1. Contents(captured[g]) \in Seq(Block)
    BY ContentsIsSequence DEF TypeOK
  <2> QED BY <1>15, <2>1 DEF start_final_preview, TypeOK, editVars, Phases
<1>16. ASSUME NEW g \in Goals, goal_sent(g) PROVE TypeOK'
  <2>1. active_goal' \in [Servers -> Goals \cup {NoGoal}]
    BY <1>16 DEF goal_sent, TypeOK
  <2>2. phase' \in [Goals -> Phases]
    BY <1>16 DEF goal_sent, TypeOK, Phases
  <2> QED BY <1>16, <2>1, <2>2 DEF goal_sent, TypeOK, editVars
<1>17. ASSUME NEW g \in Goals, sequence_finished(g) PROVE TypeOK'
  BY <1>17 DEF sequence_finished, GoalForgotten, TypeOK, editVars, Phases
<1>18. ASSUME NEW g \in Goals, ServerAnswers(g) PROVE TypeOK'
  BY <1>18 DEF ServerAnswers, TypeOK, editVars, Phases
<1>19. ASSUME NEW s \in Servers, ServerFinishes(s) PROVE TypeOK'
  BY <1>19 DEF ServerFinishes, TypeOK, editVars
<1>20. CASE UNCHANGED managerVars
  BY <1>20 DEF managerVars, editVars, goalVars, TypeOK
<1> QED
  BY <1>1, <1>2, <1>3, <1>4, <1>6, <1>7, <1>8, <1>9, <1>10, <1>11, <1>12,
     <1>13, <1>14, <1>15, <1>16, <1>17, <1>18, <1>19, <1>20
  DEF Next, Edit, Use, Callback, Server

-----------------------------------------------------------------------------
(* A change that leaves the listed blocks and the draft alone keeps what    *)
(* was reviewed.                                                           *)
LEMMA ListUnchanged ==
  ASSUME Inv, UNCHANGED <<recording, draft, paths, blocks>>
  PROVE  PathsDistinct' /\ StoppedIsFinal' /\ OnlyLastDangles'
BY DEF Inv, PathsDistinct, StoppedIsFinal, OnlyLastDangles, Final, EndsInWait

(* A change of the draft is not a change of a listed block.                *)
LEMMA DraftChanged ==
  ASSUME Inv, recording, draft # NoDraft, NEW b,
         blocks' = [blocks EXCEPT ![draft] = b],
         UNCHANGED <<recording, draft, paths>>
  PROVE  PathsDistinct' /\ StoppedIsFinal' /\ OnlyLastDangles'
<1>1. /\ paths \in Seq(1 .. Len(blocks)) /\ blocks \in Seq(PathBlocks)
      /\ Len(paths) \in Nat
  BY LenProperties DEF Inv, TypeOK
<1>2. \A i \in 1 .. Len(paths) : paths[i] \in 1 .. Len(blocks) /\ paths[i] # draft
  BY <1>1, ElementOfSeq DEF Inv, PathsDistinct
<1>3. \A i \in 1 .. Len(paths) : blocks'[paths[i]] = blocks[paths[i]]
  BY <1>1, <1>2, LenProperties
<1>4. PathsDistinct'
  BY DEF Inv, PathsDistinct
<1>5. OnlyLastDangles'
  <2>1. \A i \in 1 .. Len(paths) - 1 : Final(blocks[paths[i]])
    BY DEF Inv, OnlyLastDangles
  <2>2. \A i \in 1 .. Len(paths) - 1 : i \in 1 .. Len(paths)
    BY <1>1
  <2>3. \A i \in 1 .. Len(paths) - 1 : blocks'[paths'[i]] = blocks[paths[i]]
    BY <1>3, <2>2
  <2> QED BY <2>1, <2>3 DEF OnlyLastDangles, Final, EndsInWait
<1> QED BY <1>4, <1>5 DEF StoppedIsFinal

LEMMA ReviewStep ==
  Inv /\ [Next]_managerVars => PathsDistinct' /\ StoppedIsFinal' /\ OnlyLastDangles'
<1> SUFFICES ASSUME Inv, [Next]_managerVars
             PROVE  PathsDistinct' /\ StoppedIsFinal' /\ OnlyLastDangles'
  OBVIOUS
<1>0. /\ paths \in Seq(1 .. Len(blocks)) /\ blocks \in Seq(PathBlocks)
      /\ Len(paths) \in Nat /\ Len(blocks) \in Nat
  BY LenProperties DEF Inv, TypeOK
<1>1. \A i \in 1 .. Len(paths) : paths[i] \in 1 .. Len(blocks)
  BY <1>0, ElementOfSeq
<1>2. ASSUME NEW b \in Prepared, draft_callback(b)
      PROVE  PathsDistinct' /\ StoppedIsFinal' /\ OnlyLastDangles'
  <2>1. /\ Len(blocks') = Len(blocks) + 1 /\ draft' = Len(blocks) + 1
        /\ \A i \in 1 .. Len(blocks) : blocks'[i] = blocks[i]
        /\ paths' = paths /\ recording'
    BY <1>0, <1>2, PreparedFits, AppendProperties DEF draft_callback
  <2>2. PathsDistinct'
    BY <1>0, <1>1, <2>1 DEF Inv, PathsDistinct
  <2>3. \A i \in 1 .. Len(paths) : blocks'[paths[i]] = blocks[paths[i]]
    BY <1>1, <2>1
  <2>4. OnlyLastDangles'
    <3> SUFFICES ASSUME NEW i \in 1 .. Len(paths) - 1
                 PROVE  Final(blocks'[paths[i]])
      BY <2>1 DEF OnlyLastDangles, Final, EndsInWait
    <3>1. i \in 1 .. Len(paths)
      BY <1>0
    <3> QED BY <2>3, <3>1 DEF Inv, OnlyLastDangles
  <2> QED BY <2>1, <2>2, <2>4 DEF StoppedIsFinal
<1>3. CASE motion_active_callback
  BY <1>3, ListUnchanged DEF motion_active_callback
<1>4. CASE start_recording
  BY <1>4 DEF start_recording, Inv, PathsDistinct, StoppedIsFinal,
              OnlyLastDangles, Final, EndsInWait
<1>5. CASE stop_recording
  BY <1>5 DEF stop_recording, can_finalize, Inv, PathsDistinct,
              StoppedIsFinal, OnlyLastDangles, Final, EndsInWait
<1>6. ASSUME NEW wait \in BOOLEAN, set_draft_end_wait(wait)
      PROVE  PathsDistinct' /\ StoppedIsFinal' /\ OnlyLastDangles'
  BY <1>6, DraftChanged DEF set_draft_end_wait
<1>7. ASSUME NEW wait \in BOOLEAN, set_draft_wait_after(wait)
      PROVE  PathsDistinct' /\ StoppedIsFinal' /\ OnlyLastDangles'
  BY <1>7, DraftChanged DEF set_draft_wait_after
<1>8. CASE accept
  <2>0. /\ recording' /\ draft' = NoDraft /\ draft \in 1 .. Len(blocks)
        /\ recording /\ draft # NoDraft
    BY <1>0, <1>8 DEF accept, Inv, TypeOK, NoDraft
  <2>1. CASE AcceptMerges
    <3>1. /\ paths # <<>> /\ Len(paths) \in 1 .. Len(paths)
          /\ LastPath = paths[Len(paths)]
      BY <1>0, <2>1, EmptySeq DEF AcceptMerges, Mergeable, LastPath
    <3>2. \A i \in 1 .. Len(paths) - 1 : paths[i] # LastPath
      BY <1>0, <3>1 DEF Inv, PathsDistinct
    <3>3. /\ paths' = paths
          /\ \A i \in 1 .. Len(paths) - 1 : blocks'[paths[i]] = blocks[paths[i]]
      BY <1>0, <1>1, <2>1, <3>2, LenProperties DEF AcceptMerges
    <3>4. PathsDistinct'
      BY <1>0, <1>1, <2>0, <3>3 DEF Inv, PathsDistinct, NoDraft
    <3>5. OnlyLastDangles'
      BY <1>0, <3>3 DEF Inv, OnlyLastDangles, Final, EndsInWait
    <3> QED BY <2>0, <3>4, <3>5 DEF StoppedIsFinal
  <2>2. CASE AcceptAppends
    <3>1. /\ paths' = Append(paths, draft) /\ blocks' = blocks
          /\ paths # <<>> => ~EndsInWait(blocks[LastPath])
      BY <2>2 DEF AcceptAppends, MayAppend
    <3>2. /\ Len(paths') = Len(paths) + 1 /\ paths'[Len(paths) + 1] = draft
          /\ \A i \in 1 .. Len(paths) : paths'[i] = paths[i]
      BY <1>0, <2>0, <3>1, AppendProperties
    <3>3. PathsDistinct'
      <4>1. \A i \in 1 .. Len(paths') : paths'[i] \in 1 .. Len(blocks)
        BY <1>0, <1>1, <2>0, <3>2
      <4>2. \A i, j \in 1 .. Len(paths) : paths'[i] = paths'[j] => i = j
        BY <3>2 DEF Inv, PathsDistinct
      <4>3. \A i \in 1 .. Len(paths) : paths'[i] # paths'[Len(paths) + 1]
        BY <3>2 DEF Inv, PathsDistinct
      <4>4. \A i \in 1 .. Len(paths') :
              i \in 1 .. Len(paths) \/ i = Len(paths) + 1
        BY <1>0, <3>2
      <4>5. \A i, j \in 1 .. Len(paths') : paths'[i] = paths'[j] => i = j
        BY <4>2, <4>3, <4>4
      <4>6. \A i \in 1 .. Len(paths') : paths'[i] # draft'
        BY <1>0, <2>0, <4>1 DEF NoDraft
      <4> QED BY <4>5, <4>6 DEF PathsDistinct
    <3>4. \A i \in 1 .. Len(paths) : Final(blocks[paths[i]])
      <4> SUFFICES ASSUME NEW i \in 1 .. Len(paths)
                   PROVE  Final(blocks[paths[i]])
        OBVIOUS
      <4>1. CASE i \in 1 .. Len(paths) - 1
        BY <4>1 DEF Inv, OnlyLastDangles
      <4>2. CASE i = Len(paths)
        BY <1>0, <3>1, <4>2, EmptySeq DEF Final, LastPath
      <4> QED BY <1>0, <4>1, <4>2
    <3>5. OnlyLastDangles'
      BY <1>0, <3>1, <3>2, <3>4 DEF OnlyLastDangles, Final, EndsInWait
    <3> QED BY <2>0, <3>3, <3>5 DEF StoppedIsFinal
  <2> QED BY <1>8, <2>1, <2>2 DEF accept
<1>9. CASE reject
  BY <1>1, <1>9 DEF reject, Inv, PathsDistinct, StoppedIsFinal,
                    OnlyLastDangles, Final, EndsInWait, NoDraft
<1>10. CASE undo
  <2>1. /\ Len(paths') = Len(paths) - 1 /\ Len(paths) >= 1
        /\ \A i \in 1 .. Len(paths) - 1 : paths'[i] = paths[i]
    <3>1. Len(paths) >= 1
      BY <1>0, <1>10, EmptySeq DEF undo
    <3>2. paths' = SubSeq(paths, 1, Len(paths) - 1)
      BY <1>10 DEF undo
    <3>3. Len(paths') = Len(paths) - 1
      <4>1. \A i \in 1 .. Len(paths) - 1 : paths[i] \in 1 .. Len(blocks)
        BY <1>0, <1>1
      <4>2. 1 \in Int /\ Len(paths) - 1 \in Int
        BY <1>0
      <4>3. Len(SubSeq(paths, 1, Len(paths) - 1)) =
              IF 1 <= Len(paths) - 1 THEN Len(paths) - 1 - 1 + 1 ELSE 0
        BY <4>1, <4>2, SubSeqProperties
      <4>4. \A l \in Nat \ {0} :
              (IF 1 <= l - 1 THEN l - 1 - 1 + 1 ELSE 0) = l - 1
        OBVIOUS
      <4>5. Len(paths) \in Nat \ {0}
        BY <1>0, <3>1
      <4> QED BY <3>2, <4>3, <4>4, <4>5
    <3>4. \A i \in 1 .. Len(paths) - 1 : paths'[i] = paths[i]
      BY <1>0, <3>1, <3>2
    <3> QED BY <3>1, <3>3, <3>4
  <2>2. UNCHANGED <<recording, draft, blocks>> /\ recording
    BY <1>10 DEF undo
  <2>3. PathsDistinct'
    <3>1. \A i \in 1 .. Len(paths') : i \in 1 .. Len(paths) /\ paths'[i] = paths[i]
      BY <1>0, <2>1
    <3>2. \A i \in 1 .. Len(paths') : paths'[i] # draft'
      BY <2>2, <3>1 DEF Inv, PathsDistinct
    <3>3. \A i, j \in 1 .. Len(paths') : paths'[i] = paths'[j] => i = j
      BY <3>1 DEF Inv, PathsDistinct
    <3> QED BY <3>2, <3>3 DEF PathsDistinct
  <2>4. OnlyLastDangles'
    <3>1. \A i \in 1 .. Len(paths') - 1 :
            i \in 1 .. Len(paths) - 1 /\ paths'[i] = paths[i]
      <4> SUFFICES ASSUME NEW i \in 1 .. Len(paths') - 1
                   PROVE  i \in 1 .. Len(paths) - 1 /\ paths'[i] = paths[i]
        OBVIOUS
      <4>1. i \in 1 .. Len(paths) - 2
        BY <2>1
      <4>2. i \in 1 .. Len(paths) - 1
        BY <1>0, <4>1
      <4> QED BY <2>1, <4>2
    <3> QED BY <2>2, <3>1 DEF Inv, OnlyLastDangles, Final, EndsInWait
  <2> QED BY <2>2, <2>3, <2>4 DEF StoppedIsFinal
<1>11. CASE clear
  <2>1. paths' = <<>> /\ Len(paths') = 0 /\ draft' = NoDraft
    BY <1>11, EmptySeq DEF clear
  <2> QED BY <2>1 DEF PathsDistinct, StoppedIsFinal, OnlyLastDangles
<1>12. CASE export
  BY <1>12, ListUnchanged DEF export, editVars
<1>13. ASSUME NEW g \in Goals, send(g) \/ preview_all(g) \/ Callback(g)
      PROVE  PathsDistinct' /\ StoppedIsFinal' /\ OnlyLastDangles'
  BY <1>13, ListUnchanged
  DEF send, preview_all, Callback, start_final_preview, goal_sent,
      sequence_finished, editVars
<1>14. CASE Server
  BY <1>14, ListUnchanged DEF Server, ServerAnswers, ServerFinishes, editVars
<1>15. CASE UNCHANGED managerVars
  BY <1>15, ListUnchanged DEF managerVars, editVars
<1> QED
  BY <1>2, <1>3, <1>4, <1>5, <1>6, <1>7, <1>8, <1>9, <1>10, <1>11, <1>12,
     <1>13, <1>14, <1>15
  DEF Next, Edit, Use

-----------------------------------------------------------------------------
(* What is reviewed is final.                                              *)
LEMMA ReviewedIsFinal ==
  ASSUME Inv, Reviewed
  PROVE  \A i \in 1 .. Len(Contents(paths)) : Final(Contents(paths)[i])
<1>1. /\ Len(Contents(paths)) = Len(paths)
      /\ \A i \in 1 .. Len(paths) : Contents(paths)[i] = blocks[paths[i]]
  BY ContentsIsSequence DEF Inv, TypeOK
<1> QED BY <1>1 DEF Inv, Reviewed, StoppedIsFinal

LEMMA SentStep ==
  Inv /\ [Next]_managerVars => ResetIsPreview' /\ SentToArmIsFinal'
<1> SUFFICES ASSUME Inv, [Next]_managerVars
             PROVE  ResetIsPreview' /\ SentToArmIsFinal'
  OBVIOUS
<1> USE DEF Inv
<1>1. ASSUME NEW g \in Goals, send(g) PROVE ResetIsPreview' /\ SentToArmIsFinal'
  <2>1. /\ server' = [server EXCEPT ![g] = "arm"]
        /\ phase' = [phase EXCEPT ![g] = "requested"]
        /\ sent' = [sent EXCEPT ![g] = Contents(paths)]
        /\ exported' = exported
        /\ \A i \in 1 .. Len(Contents(paths)) : Final(Contents(paths)[i])
    BY <1>1, ReviewedIsFinal DEF send
  <2> QED BY <2>1 DEF TypeOK, ResetIsPreview, SentToArmIsFinal, Final, EndsInWait
<1>2. ASSUME NEW g \in Goals, preview_all(g)
      PROVE  ResetIsPreview' /\ SentToArmIsFinal'
  BY <1>2 DEF preview_all, TypeOK, ResetIsPreview, SentToArmIsFinal, Final, EndsInWait
<1>3. ASSUME NEW g \in Goals, start_final_preview(g)
      PROVE  ResetIsPreview' /\ SentToArmIsFinal'
  <2>1. server[g] = "sim" /\ server' = server /\ exported' = exported
    BY <1>3 DEF start_final_preview, ResetIsPreview
  <2>2. \A h \in Goals \ {g} : sent'[h] = sent[h] /\ phase'[h] = phase[h]
    BY <1>3 DEF start_final_preview, TypeOK
  <2>3. phase'[g] # "resetting"
    BY <1>3 DEF start_final_preview, TypeOK
  <2> QED BY <2>1, <2>2, <2>3
          DEF ResetIsPreview, SentToArmIsFinal, Final, EndsInWait
<1>4. ASSUME NEW g \in Goals, goal_sent(g) \/ sequence_finished(g)
      PROVE  ResetIsPreview' /\ SentToArmIsFinal'
  <2>1. UNCHANGED <<server, sent, exported>>
    BY <1>4 DEF goal_sent, sequence_finished
  <2>2. \A h \in Goals : phase'[h] = "resetting" => phase[h] = "resetting"
    BY <1>4 DEF goal_sent, sequence_finished, TypeOK
  <2> QED BY <2>1, <2>2 DEF ResetIsPreview, SentToArmIsFinal, Final, EndsInWait
<1>5. CASE Server
  <2>1. UNCHANGED <<server, sent, exported>>
    BY <1>5 DEF Server, ServerAnswers, ServerFinishes
  <2>2. \A g \in Goals : phase'[g] = "resetting" => phase[g] = "resetting"
    BY <1>5 DEF Server, ServerAnswers, ServerFinishes, TypeOK
  <2> QED BY <2>1, <2>2 DEF ResetIsPreview, SentToArmIsFinal, Final, EndsInWait
<1>6. CASE export
  BY <1>6, ReviewedIsFinal DEF export, goalVars, ResetIsPreview,
                               SentToArmIsFinal, Final, EndsInWait
<1>7. ASSUME UNCHANGED <<goalVars, exported>>
      PROVE  ResetIsPreview' /\ SentToArmIsFinal'
  BY <1>7 DEF goalVars, ResetIsPreview, SentToArmIsFinal, Final, EndsInWait
<1>8. CASE Edit
  BY <1>7, <1>8 DEF Edit, draft_callback, motion_active_callback,
     start_recording, stop_recording, set_draft_end_wait,
     set_draft_wait_after, accept, reject, undo, clear
<1>9. CASE UNCHANGED managerVars
  BY <1>7, <1>9 DEF managerVars
<1> QED
  BY <1>1, <1>2, <1>3, <1>4, <1>5, <1>6, <1>8, <1>9 DEF Next, Use, Callback

LEMMA InitInv == Init => Inv
<1> SUFFICES ASSUME Init PROVE Inv
  OBVIOUS
<1>1. TypeOK
  <2>1. /\ <<>> \in Seq(PathBlocks) /\ <<>> \in Seq(Block)
        /\ <<>> \in Seq(1 .. Len(blocks)) /\ Len(blocks) = 0
    BY EmptySeq DEF Init
  <2>2. /\ recording \in BOOLEAN /\ motion_active \in BOOLEAN
    BY DEF Init
  <2>3. /\ draft \in 0 .. Len(blocks) /\ blocks \in Seq(PathBlocks)
        /\ paths \in Seq(1 .. Len(blocks)) /\ exported \in Seq(Block)
    BY <2>1 DEF Init, NoDraft
  <2>4. /\ active_goal \in [Servers -> Goals \cup {NoGoal}]
        /\ server \in [Goals -> Servers] /\ phase \in [Goals -> Phases]
        /\ executing \in [Servers -> Goals \cup {NoGoal}]
    BY DEF Init, Servers, Phases
  <2>5. /\ captured \in [Goals -> Seq(1 .. Len(blocks))]
        /\ sent \in [Goals -> Seq(Block)]
    BY <2>1 DEF Init
  <2> QED BY <2>2, <2>3, <2>4, <2>5 DEF TypeOK
<1>2. PathsDistinct /\ StoppedIsFinal /\ OnlyLastDangles
  BY EmptySeq DEF Init, PathsDistinct, StoppedIsFinal, OnlyLastDangles
<1>3. ResetIsPreview /\ SentToArmIsFinal
  BY EmptySeq DEF Init, ResetIsPreview, SentToArmIsFinal
<1> QED BY <1>1, <1>2, <1>3 DEF Inv

LEMMA InvAlways == Spec => []Inv
<1>1. Inv /\ [Next]_managerVars => Inv'
  BY TypeStep, ReviewStep, SentStep DEF Inv
<1> QED BY <1>1, InitInv, PTL DEF Spec

(* Every variable of the editor keeps its type; no merge makes a PATH of    *)
(* more nodes than the action server accepts.                              *)
THEOREM TypeCorrect == Spec => []TypeOK
<1> QED BY InvAlways, PTL DEF Inv

(* When recording is stopped nothing is unreviewed and nothing dangles.     *)
THEOREM StoppedReviewed == Spec => []StoppedIsFinal
<1> QED BY InvAlways, PTL DEF Inv

(* Whatever is sent to the arm, or exported, has no dangling wait.          *)
THEOREM SentFinal == Spec => []SentToArmIsFinal
<1> QED BY InvAlways, PTL DEF Inv

=============================================================================
