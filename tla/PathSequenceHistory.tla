------------------------ MODULE PathSequenceHistory ------------------------
(***************************************************************************)
(* PathSequenceActionServer with a memory: two variables that no step of    *)
(* the server reads, for what its state does not show.                     *)
(***************************************************************************)
EXTENDS PathSequenceActionServer

VARIABLES
  sent_late,  \* [g \in Goals]: PATHs it sent after its cancel was accepted
  signalled   \* the current wait was continued by a service call

historyVars == <<sequenceVars, sent_late, signalled>>

HistoryInit ==
  /\ Init
  /\ sent_late = [g \in Goals |-> 0] /\ signalled = FALSE

SendsLate(g) == step[g] = "send" /\ step'[g] = "sending" /\ cancel_requested[g]

HistoryNext ==
  /\ Next
  /\ sent_late' = [g \in Goals |-> sent_late[g] + IF SendsLate(g) THEN 1 ELSE 0]
  /\ signalled' =
       IF waiting_after_path' = 0 THEN FALSE
       ELSE \/ signalled
            \/ \E id \in Ids, p \in 0 .. MaxPaths : signal_sequence(id, p)

HistorySpec == HistoryInit /\ [][HistoryNext]_historyVars

-----------------------------------------------------------------------------
(* After a cancel is accepted the server sends at most the PATH it was      *)
(* about to send: execute_callback looks at the goal before every PATH.     *)
CancelSendsAtMostOne == \A g \in Goals : sent_late[g] <= 1

(* The next PATH of a waiting sequence is begun only by signal_sequence.    *)
ContinueNeedsSignal ==
  [][\A g \in Goals : step[g] = "polling" /\ step'[g] = "top" => signalled]_historyVars
=============================================================================
