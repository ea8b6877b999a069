----------------------- MODULE OfflineSequenceManager -----------------------
(***************************************************************************)
(* The editor of PATH sequences: OfflineSequenceManager.  It collects the   *)
(* PATHs the planner prepares while recording, merges compatible ones, and *)
(* exports, previews or sends the reviewed sequence.                       *)
(*                                                                         *)
(* The node runs in a single-threaded executor: a callback is one step.    *)
(* What interleaves are the callbacks: a goal is on its way to an action    *)
(* server, its answer and its result on their way back, while services are *)
(* called.  PATH blocks are Python objects: the list self._paths holds      *)
(* references, and a merge changes the block every copy of the list shares.*)
(* A block is named by its position in "blocks", the PATHs drafted so far.  *)
(***************************************************************************)
EXTENDS Naturals, Sequences

CONSTANTS
  PathTypes,     \* path_type with the frame and condition tables
  Places,        \* joint positions, up to merge_tolerance_deg
  Prepared,      \* the PATHs the planner publishes
  MaxPathNodes,  \* max_path_nodes
  MaxDrafts,     \* bound on the PATHs drafted
  MaxGoals       \* bound on the goals previewed or sent

NodeKinds == {"stop", "fly", "via", "wait"}

Block == [type : PathTypes, nodes : Seq(NodeKinds), wait_after : BOOLEAN,
          start : Places, end : Places]

(* The blocks an action server accepts: max_path_nodes is its limit too.   *)
PathBlocks == {b \in Block : Len(b.nodes) <= MaxPathNodes}

EndsInWait(b) == b.nodes # <<>> /\ b.nodes[Len(b.nodes)] = "wait"

ASSUME ManagerAssumption ==
  /\ Prepared \subseteq {b \in Block : /\ Len(b.nodes) \in 1 .. MaxPathNodes
                                       /\ ~(EndsInWait(b) /\ b.wait_after)}
  /\ MaxPathNodes \in Nat /\ MaxDrafts \in Nat /\ MaxGoals \in Nat

NoDraft == 0
NoGoal  == 0
Servers == {"arm", "sim"}
Phases  == {"unused", "resetting", "requested", "refused", "accepted",
            "active", "done"}

VARIABLES
  recording, motion_active, draft, paths, blocks,
  active_goal,      \* [s \in Servers]: _active_goal, _active_preview_goal
  server,           \* goal g goes to server[g]
  phase,            \* how far goal g is
  captured,         \* the blocks goal g refers to
  sent,             \* what goal g contained when it was sent
  executing,        \* the goal an action server executes
  exported          \* the sequence in the exported file

editVars == <<recording, motion_active, draft, paths, blocks>>
goalVars == <<active_goal, server, phase, captured, sent, executing>>
managerVars == <<editVars, goalVars, exported>>

Goals == 1 .. MaxGoals

TypeOK ==
  /\ recording \in BOOLEAN /\ motion_active \in BOOLEAN
  /\ draft \in 0 .. Len(blocks)
  /\ blocks \in Seq(PathBlocks)
  /\ paths \in Seq(1 .. Len(blocks))
  /\ active_goal \in [Servers -> Goals \cup {NoGoal}]
  /\ server \in [Goals -> Servers]
  /\ phase \in [Goals -> Phases]
  /\ captured \in [Goals -> Seq(1 .. Len(blocks))]
  /\ sent \in [Goals -> Seq(Block)]
  /\ executing \in [Servers -> Goals \cup {NoGoal}]
  /\ exported \in Seq(Block)

Init ==
  /\ recording = FALSE /\ motion_active = FALSE
  /\ draft = NoDraft /\ paths = <<>> /\ blocks = <<>>
  /\ active_goal = [s \in Servers |-> NoGoal]
  /\ server = [g \in Goals |-> "arm"]
  /\ phase = [g \in Goals |-> "unused"]
  /\ captured = [g \in Goals |-> <<>>]
  /\ sent = [g \in Goals |-> <<>>]
  /\ executing = [s \in Servers |-> NoGoal]
  /\ exported = <<>>

-----------------------------------------------------------------------------
(***************************************************************************)
(* Editing.  A refused service changes nothing: only the accepted call is  *)
(* an action.                                                              *)
(***************************************************************************)

draft_callback(b) ==
  /\ recording /\ draft = NoDraft
  /\ Len(blocks) < MaxDrafts
  /\ blocks' = Append(blocks, b)
  /\ draft' = Len(blocks) + 1
  /\ UNCHANGED <<recording, motion_active, paths, goalVars, exported>>

motion_active_callback ==
  /\ motion_active' = ~motion_active
  /\ UNCHANGED <<recording, draft, paths, blocks, goalVars, exported>>

start_recording ==
  /\ ~recording /\ ~motion_active /\ draft = NoDraft
  /\ \A s \in Servers : active_goal[s] = NoGoal
  /\ recording' = TRUE
  /\ UNCHANGED <<motion_active, draft, paths, blocks, goalVars, exported>>

(* Mutant: a dangling wait does not block the end of the recording.        *)
FinalizeIgnoringWait == ~motion_active /\ draft = NoDraft

can_finalize ==
  /\ ~motion_active /\ draft = NoDraft
  /\ \A i \in 1 .. Len(paths) : ~EndsInWait(blocks[paths[i]])

stop_recording ==
  /\ recording /\ can_finalize
  /\ recording' = FALSE
  /\ UNCHANGED <<motion_active, draft, paths, blocks, goalVars, exported>>

LastNodeBecomes(b, kind) == [b EXCEPT !.nodes[Len(b.nodes)] = kind]

set_draft_end_wait(wait) ==
  /\ recording /\ draft # NoDraft
  /\ LET b == blocks[draft]
         last == b.nodes[Len(b.nodes)]
     IN  /\ b.nodes # <<>>
         /\ wait => last # "via" /\ ~b.wait_after
         /\ blocks' = [blocks EXCEPT ![draft] =
              LastNodeBecomes(b, IF wait THEN "wait"
                                 ELSE IF last = "wait" THEN "stop" ELSE last)]
  /\ UNCHANGED <<recording, motion_active, draft, paths, goalVars, exported>>

MayWaitAfter(wait) == wait => ~EndsInWait(blocks[draft])

set_draft_wait_after(wait) ==
  /\ recording /\ draft # NoDraft
  /\ MayWaitAfter(wait)
  /\ blocks' = [blocks EXCEPT ![draft].wait_after = wait]
  /\ UNCHANGED <<recording, motion_active, draft, paths, goalVars, exported>>

LastPath == paths[Len(paths)]

compatible(left, right) ==
  /\ ~left.wait_after
  /\ left.type = right.type
  /\ left.end = right.start
  /\ Len(left.nodes) + Len(right.nodes) <= MaxPathNodes

Merged(left, right) ==
  [left EXCEPT !.nodes = left.nodes \o right.nodes, !.end = right.end,
               !.wait_after = right.wait_after]

Mergeable == paths # <<>> /\ compatible(blocks[LastPath], blocks[draft])

AcceptMerges ==
  /\ Mergeable
  /\ blocks' = [blocks EXCEPT ![LastPath] =
                  Merged(blocks[LastPath], blocks[draft])]
  /\ UNCHANGED paths

MayAppend == /\ ~Mergeable
             /\ paths # <<>> => ~EndsInWait(blocks[LastPath])

AcceptAppends ==
  /\ MayAppend
  /\ paths' = Append(paths, draft)
  /\ UNCHANGED blocks

accept ==
  /\ recording /\ draft # NoDraft
  /\ AcceptMerges \/ AcceptAppends
  /\ draft' = NoDraft
  /\ UNCHANGED <<recording, motion_active, goalVars, exported>>

reject ==
  /\ recording /\ draft # NoDraft
  /\ draft' = NoDraft
  /\ UNCHANGED <<recording, motion_active, paths, blocks, goalVars, exported>>

undo ==
  /\ recording /\ ~motion_active /\ draft = NoDraft /\ paths # <<>>
  /\ paths' = SubSeq(paths, 1, Len(paths) - 1)
  /\ UNCHANGED <<recording, motion_active, draft, blocks, goalVars, exported>>

clear ==
  /\ ~motion_active
  /\ \A s \in Servers : active_goal[s] = NoGoal
  /\ paths' = <<>> /\ draft' = NoDraft /\ recording' = FALSE
  /\ UNCHANGED <<motion_active, blocks, goalVars, exported>>

-----------------------------------------------------------------------------
(***************************************************************************)
(* Export, preview and send.                                               *)
(***************************************************************************)

(* What the objects of a list of blocks contain now.                       *)
Contents(ids) == [i \in 1 .. Len(ids) |-> blocks[ids[i]]]

(* Mutant: the sequence may be sent while it is edited.                    *)
SendAnyTime == draft = NoDraft /\ paths # <<>>

Reviewed == ~recording /\ draft = NoDraft /\ paths # <<>>

export ==
  /\ Reviewed
  /\ exported' = Contents(paths)
  /\ UNCHANGED <<editVars, goalVars>>

(* Bound: goals are numbered in the order they are made.                   *)
NextGoal(g) == /\ phase[g] = "unused"
               /\ \A h \in 1 .. g - 1 : phase[h] # "unused"

send(g) ==
  /\ NextGoal(g)
  /\ Reviewed
  /\ active_goal["arm"] = NoGoal
  /\ server' = [server EXCEPT ![g] = "arm"]
  /\ phase' = [phase EXCEPT ![g] = "requested"]
  /\ captured' = [captured EXCEPT ![g] = paths]
  /\ sent' = [sent EXCEPT ![g] = Contents(paths)]
  /\ UNCHANGED <<editVars, active_goal, executing, exported>>

preview_all(g) ==
  /\ NextGoal(g)
  /\ Reviewed
  /\ active_goal["sim"] = NoGoal
  /\ server' = [server EXCEPT ![g] = "sim"]
  /\ phase' = [phase EXCEPT ![g] = "resetting"]
  /\ captured' = [captured EXCEPT ![g] = paths]
  /\ UNCHANGED <<editVars, active_goal, sent, executing, exported>>

(* The answer of the Gazebo reset: the goal is built from the objects the  *)
(* list of preview_all referred to.                                        *)
start_final_preview(g) ==
  /\ phase[g] = "resetting"
  /\ \/ /\ phase' = [phase EXCEPT ![g] = "requested"]
        /\ sent' = [sent EXCEPT ![g] = Contents(captured[g])]
     \/ phase' = [phase EXCEPT ![g] = "done"] /\ UNCHANGED sent
  /\ UNCHANGED <<editVars, active_goal, server, captured, executing, exported>>

(* An action server executes one goal at a time, and may refuse any.       *)
ServerAnswers(g) ==
  /\ phase[g] = "requested"
  /\ LET s == server[g]
     IN  \/ /\ executing[s] = NoGoal
            /\ executing' = [executing EXCEPT ![s] = g]
            /\ phase' = [phase EXCEPT ![g] = "accepted"]
         \/ /\ phase' = [phase EXCEPT ![g] = "refused"]
            /\ UNCHANGED executing
  /\ UNCHANGED <<editVars, active_goal, server, captured, sent, exported>>

(* _goal_sent and _preview_goal_sent: the answer replaces whatever goal     *)
(* was known.                                                              *)
goal_sent(g) ==
  /\ phase[g] \in {"accepted", "refused"}
  /\ IF phase[g] = "accepted"
       THEN /\ active_goal' = [active_goal EXCEPT ![server[g]] = g]
            /\ phase' = [phase EXCEPT ![g] = "active"]
       ELSE /\ active_goal' = [active_goal EXCEPT ![server[g]] = NoGoal]
            /\ phase' = [phase EXCEPT ![g] = "done"]
  /\ UNCHANGED <<editVars, server, captured, sent, executing, exported>>

ServerFinishes(s) ==
  /\ executing[s] # NoGoal
  /\ executing' = [executing EXCEPT ![s] = NoGoal]
  /\ UNCHANGED <<editVars, active_goal, server, phase, captured, sent, exported>>

GoalForgotten(s) == [active_goal EXCEPT ![s] = NoGoal]

(* _sequence_finished and _preview_finished *)
sequence_finished(g) ==
  /\ phase[g] = "active" /\ executing[server[g]] # g
  /\ active_goal' = GoalForgotten(server[g])
  /\ phase' = [phase EXCEPT ![g] = "done"]
  /\ UNCHANGED <<editVars, server, captured, sent, executing, exported>>

-----------------------------------------------------------------------------
Edit ==
  \/ \E b \in Prepared : draft_callback(b)
  \/ motion_active_callback \/ start_recording \/ stop_recording
  \/ \E wait \in BOOLEAN : set_draft_end_wait(wait) \/ set_draft_wait_after(wait)
  \/ accept \/ reject \/ undo \/ clear

Use ==
  \/ export
  \/ \E g \in Goals : send(g) \/ preview_all(g)

Callback(g) == start_final_preview(g) \/ goal_sent(g) \/ sequence_finished(g)

Server == \/ \E g \in Goals : ServerAnswers(g)
          \/ \E s \in Servers : ServerFinishes(s)

Next == Edit \/ Use \/ (\E g \in Goals : Callback(g)) \/ Server

Spec == Init /\ [][Next]_managerVars

-----------------------------------------------------------------------------
Final(b) == ~EndsInWait(b)

(* When recording is stopped every PATH has been reviewed and none ends in  *)
(* a dangling node wait, whatever was merged, undone or cleared before.     *)
StoppedIsFinal ==
  ~recording => /\ draft = NoDraft
                /\ \A i \in 1 .. Len(paths) : Final(blocks[paths[i]])

(* Only the last PATH may still wait for a following segment.              *)
OnlyLastDangles ==
  \A i \in 1 .. Len(paths) - 1 : Final(blocks[paths[i]])

(* A sequence sent to the robot, and an exported one, has no dangling wait: *)
(* the arm could not leave it.                                             *)
SentToArmIsFinal ==
  /\ \A g \in Goals : server[g] = "arm" =>
       \A i \in 1 .. Len(sent[g]) : Final(sent[g][i])
  /\ \A i \in 1 .. Len(exported) : Final(exported[i])
=============================================================================
