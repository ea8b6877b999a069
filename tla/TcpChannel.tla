----------------------------- MODULE TcpChannel -----------------------------
(***************************************************************************)
(* A TcpClient as a channel of messages: the mapping under which TcpClient  *)
(* implements MessageChannel.                                              *)
(***************************************************************************)
EXTENDS TcpClient, FiniteSets

(* A message ends at a delimiter, or with its WRITE.                       *)
Ends(bytes) == {i \in 1 .. Len(bytes) : bytes[i].byte = Delim \/ bytes[i].last}

Rank(ends, i) == Cardinality({j \in ends : j <= i})

Nth(ends, k) == IF k = 0 THEN 0 ELSE CHOOSE i \in ends : Rank(ends, i) = k

(* The bytes after a, up to b or the delimiter at b.                       *)
TextOf(bytes, a, b) ==
  [i \in 1 .. (IF bytes[b].byte = Delim THEN b - a - 1 ELSE b - a) |->
     bytes[a + i].byte]

MessagesOf(bytes) ==
  LET ends == Ends(bytes) IN
  [k \in 1 .. Cardinality(ends) |-> TextOf(bytes, Nth(ends, k - 1), Nth(ends, k))]

-----------------------------------------------------------------------------
Reader == CHOOSE t \in Readers : TRUE

(* What was received and not yet returned.                                 *)
Received == rx_buf \o chunk[Reader]

Queue == MessagesOf(OnWire(Received) \o wire)

ContentOf(w) == IF w[Len(w)] = Delim THEN SubSeq(w, 1, Len(w) - 1) ELSE w

Channel == INSTANCE MessageChannel WITH
  queue <- Queue,
  Users <- Threads,
  Contents <- {ContentOf(w) : w \in Writes},
  Other <- Kinds \ {"message"}

(* How the clients of C4G are used: one thread reads, a WRITE arrives as a  *)
(* whole and has a delimiter only at its end, and what is received together *)
(* has one.                                                                *)
WholeMessages ==
  /\ Readers # {} /\ OneReader /\ TwoChunks /\ ~Splits
  /\ \A w \in Writes : \A i \in 1 .. Len(w) - 1 : w[i] # Delim
  /\ \A w \in Joined : w[Len(w)] = Delim

(* Then the client is a channel of messages, also while another thread      *)
(* closes it and connects it again.                                        *)
ImplementsChannel == Channel!Spec
=============================================================================
