--------------------------- MODULE MessageChannel ---------------------------
(***************************************************************************)
(* What the users of a TcpClient rely on: recv_msg returns the messages of  *)
(* the controller one by one, in the order they were written, and none is   *)
(* skipped unless the connection is lost.                                  *)
(***************************************************************************)
EXTENDS Naturals, Sequences

CONSTANTS Users, Contents, Other

VARIABLES
  queue,   \* messages written and not yet returned
  result   \* [u \in Users]: how the last call of u ended

channelVars == <<queue, result>>

Init ==
  /\ queue = <<>>
  /\ result = [u \in Users |-> [kind |-> "none", text |-> <<>>]]

Write == UNCHANGED result /\ queue' \in {Append(queue, m) : m \in Contents}

Deliver(u) ==
  /\ queue # <<>>
  /\ result' = [result EXCEPT ![u] = [kind |-> "message", text |-> Head(queue)]]
  /\ queue' = Tail(queue)

(* The call of u ends without a message.                                   *)
Ended(u) ==
  \E k \in Other : result' = [result EXCEPT ![u] = [kind |-> k, text |-> <<>>]]

Return(u) == Ended(u) /\ UNCHANGED queue

(* A lost connection loses the messages from some point on.                *)
Lose ==
  /\ UNCHANGED result \/ \E u \in Users : Ended(u)
  /\ queue' \in {SubSeq(queue, 1, n) : n \in 0 .. Len(queue)}

Next == Write \/ Lose \/ \E u \in Users : Deliver(u) \/ Return(u)

Spec == Init /\ [][Next]_channelVars
=============================================================================
