---------------------------- MODULE MCTcpClient ----------------------------
(***************************************************************************)
(* The two ways the nodes use a TcpClient.  A behaviour has one user: the   *)
(* joint feedback node, or "bridge", two threads of the command bridge      *)
(* whose messages end with a delimiter.                                    *)
(***************************************************************************)
EXTENDS JointFeedback

VARIABLE user

allVars == <<feedbackVars, user>>

(* Three joint messages, which recv may return together; the node allows    *)
(* messages of one chunk.                                                  *)
MCDigits == <<"1", "2", "3">>
MCWrites == {Snapshot(n) : n \in 1 .. MaxWrites}

(* Two events with and an answer without a delimiter.                      *)
BridgeEvents == {<<"e", "NL">>, <<"E", "NL">>}
BridgeWrites == BridgeEvents \cup {<<"f", "i", "n">>}

Bridge == INSTANCE TcpChannel WITH
  Symbols <- {"e", "E", "f", "i", "n"}, Chunk <- 4, MaxMessage <- 7,
  Writes <- BridgeWrites, Joined <- BridgeEvents

MCInit ==
  \/ user = "feedback" /\ FeedbackInit
  \/ user = "bridge" /\ Bridge!Init
       /\ worker = "ended" /\ main = "destroyed" /\ published = <<>>

MCNext ==
  /\ \/ user = "feedback" /\ FeedbackNext
     \/ user = "bridge" /\ Bridge!Next /\ UNCHANGED <<worker, main, published>>
  /\ UNCHANGED user

MCSpec == MCInit /\ [][MCNext]_allVars

-----------------------------------------------------------------------------
NoResult == [t \in Threads |-> Result("none")]

Channel == INSTANCE MessageChannel WITH
  queue <- IF user = "bridge" THEN Bridge!Queue ELSE <<>>,
  result <- IF user = "bridge" THEN result ELSE NoResult,
  Users <- Threads,
  Contents <- {Bridge!ContentOf(w) : w \in BridgeWrites},
  Other <- Kinds \ {"message"}

(* The client of the bridge, whose messages are whole, is a channel of      *)
(* messages.                                                               *)
ImplementsChannel == Channel!Spec
=============================================================================
