-------------------------- MODULE TcpClient_proofs --------------------------
(***************************************************************************)
(* The buffer of a TcpClient stays below one chunk between two messages, so *)
(* the branch of recv_msg that waits for its own lock is never taken.  The  *)
(* first part is about every client and uses ClientAssumption alone; the   *)
(* second is about the client of the joint feedback node, and the third    *)
(* shows that a client whose messages are whole is a channel of messages.   *)
(***************************************************************************)
EXTENDS JointFeedback, TcpChannel, TLAPS, SequenceTheorems, FiniteSetTheorems

(* While a reader is in sock.recv, or holds what it returned, the buffer has *)
(* no delimiter: the reader looked, and nobody else adds to it.             *)
ReaderLooked ==
  \A t \in Threads : step[t] \in {"receiving", "received"} =>
    t \in Readers /\ ~HasDelim(rx_buf)

ShortChunks == \A t \in Threads : Len(chunk[t]) <= Chunk
ShortBuffer == Len(rx_buf) < Chunk

(* What recv may return fits into the buffer.                              *)
Room == TwoChunks \/ (rx_buf = <<>> /\ Chunk <= MaxMessage)

IInv == TypeOK /\ LockIsFree /\ ReaderLooked /\ ShortChunks /\ ShortBuffer

-----------------------------------------------------------------------------
(* The first delimiter is a delimiter with none before it.                 *)
LEMMA FirstDelimIsFirst ==
  ASSUME NEW buf \in Seq(Bytes), HasDelim(buf)
  PROVE  /\ FirstDelim(buf) \in 1 .. Len(buf)
         /\ buf[FirstDelim(buf)] = Delim
         /\ \A j \in 1 .. FirstDelim(buf) - 1 : buf[j] # Delim
<1> DEFINE Delims == {i \in 1 .. Len(buf) : buf[i] = Delim}
<1>1. Delims \subseteq Nat /\ Delims # {}
  BY DEF HasDelim
<1>2. PICK i \in Delims : \A j \in Delims : ~(<<j, i>> \in OpToRel(<, Nat))
  BY <1>1, NatLessThanWellFounded, WFMin
<1>3. \A j \in Delims : ~(j < i)
  BY <1>1, <1>2 DEF OpToRel
<1>4. Len(buf) \in Nat /\ i \in 1 .. Len(buf) /\ buf[i] = Delim
  OBVIOUS
<1>5. \A j \in 1 .. i - 1 : buf[j] # Delim
  <2> SUFFICES ASSUME NEW j \in 1 .. i - 1, buf[j] = Delim PROVE FALSE
    OBVIOUS
  <2>1. j \in 1 .. Len(buf) /\ j < i
    BY <1>4
  <2> QED
    BY <2>1, <1>3
<1> HIDE DEF Delims
<1> QED
  BY <1>4, <1>5 DEF FirstDelim

(* What is left after the first message is shorter than the buffer.        *)
LEMMA AfterDelimShorter ==
  ASSUME NEW buf \in Seq(Bytes), HasDelim(buf)
  PROVE  /\ AfterDelim(buf) \in Seq(Bytes)
         /\ Len(AfterDelim(buf)) = Len(buf) - FirstDelim(buf)
         /\ SubSeq(buf, 1, FirstDelim(buf) - 1) \in Seq(Bytes)
<1> DEFINE d == FirstDelim(buf)
<1>1. Len(buf) \in Nat /\ d \in 1 .. Len(buf)
  BY FirstDelimIsFirst
<1>2. \A i \in 1 .. Len(buf) : buf[i] \in Bytes
  BY ElementOfSeq
<1> HIDE DEF d
<1>3. /\ SubSeq(buf, d + 1, Len(buf)) \in Seq(Bytes)
      /\ Len(SubSeq(buf, d + 1, Len(buf)))
           = IF d + 1 <= Len(buf) THEN Len(buf) - (d + 1) + 1 ELSE 0
  BY <1>1, <1>2, SubSeqProperties
<1>4. SubSeq(buf, 1, d - 1) \in Seq(Bytes)
  BY <1>1, <1>2, SubSeqProperties
<1> QED
  BY <1>1, <1>3, <1>4 DEF AfterDelim, d

(* A chunk that brings the first delimiter leaves less than a chunk behind. *)
LEMMA ChunkLeavesLess ==
  ASSUME NEW b \in Seq(Bytes), NEW c \in Seq(Bytes),
         ~HasDelim(b), HasDelim(b \o c)
  PROVE  Len(b \o c) - FirstDelim(b \o c) < Len(c)
<1>1. b \o c \in Seq(Bytes) /\ Len(b) \in Nat /\ Len(c) \in Nat
  BY ConcatProperties
<1>2. /\ Len(b \o c) = Len(b) + Len(c)
      /\ \A i \in 1 .. Len(b) : (b \o c)[i] = b[i]
  BY ConcatProperties
<1>3. /\ FirstDelim(b \o c) \in 1 .. Len(b \o c)
      /\ (b \o c)[FirstDelim(b \o c)] = Delim
  BY <1>1, FirstDelimIsFirst
<1>4. FirstDelim(b \o c) > Len(b)
  <2> SUFFICES ASSUME FirstDelim(b \o c) <= Len(b) PROVE FALSE
    BY <1>1, <1>2, <1>3
  <2>1. FirstDelim(b \o c) \in 1 .. Len(b)
    BY <1>1, <1>2, <1>3
  <2> QED
    BY <2>1, <1>2, <1>3 DEF HasDelim
<1> QED
  BY <1>1, <1>2, <1>3, <1>4

-----------------------------------------------------------------------------
LEMMA InitInv == ASSUME Init PROVE IInv
<1> USE ClientAssumption DEF Init, NoSocket
<1>1. TypeOK
  BY DEF TypeOK, Steps, Kinds, Result
<1>2. LockIsFree /\ ReaderLooked /\ ShortChunks /\ ShortBuffer
  BY DEF LockIsFree, ReaderLooked, ShortChunks, ShortBuffer
<1> QED
  BY <1>1, <1>2 DEF IInv

(* The steps that close or replace the connection empty the buffer.        *)
LEMMA EmptyBuffer ==
  /\ <<>> \in Seq(Bytes) /\ Len(<<>>) = 0 /\ <<>> \in Seq(WireBytes)
  /\ ~HasDelim(<<>>)
BY EmptySeq DEF HasDelim

(* A step that leaves the buffer alone or empties it, and takes no thread   *)
(* to sock.recv, keeps the invariant.                                      *)
LEMMA QuietStep ==
  ASSUME IInv, NEW t \in Threads,
         NEW s \in Steps \ {"receiving", "received", "blocked"},
         step' = step \/ step' = [step EXCEPT ![t] = s],
         \/ rx_buf' = <<>> /\ wire' = <<>>
         \/ rx_buf' = rx_buf /\ wire' = wire,
         sock' \in Nat, connections' \in Nat, written' = written,
         socket' \in [Threads -> Nat], chunk' = chunk,
         \/ result' = result
         \/ \E k \in Kinds : result' = [result EXCEPT ![t] = Result(k)]
  PROVE  IInv'
<1> USE ClientAssumption, EmptyBuffer
<1>1. TypeOK'
  <2>1. result' \in [Threads -> [kind : Kinds, text : Seq(Bytes)]]
    <3>1. \A k \in Kinds : Result(k) \in [kind : Kinds, text : Seq(Bytes)]
      BY DEF Result
    <3>2. result \in [Threads -> [kind : Kinds, text : Seq(Bytes)]]
      BY DEF IInv, TypeOK
    <3>3. CASE result' = result
      BY <3>2, <3>3
    <3>4. CASE \E k \in Kinds : result' = [result EXCEPT ![t] = Result(k)]
      BY <3>1, <3>2, <3>4
    <3> QED
      BY <3>3, <3>4
  <2>2. step' \in [Threads -> Steps]
    BY DEF IInv, TypeOK
  <2>3. /\ rx_buf' \in Seq(Bytes) /\ Len(rx_buf') <= MaxMessage
        /\ wire' \in Seq(WireBytes)
    <3>1. \/ rx_buf' = <<>> /\ wire' = <<>>
          \/ rx_buf' = rx_buf /\ wire' = wire
      OBVIOUS
    <3>2. CASE rx_buf' = <<>> /\ wire' = <<>>
      BY <3>2 DEF TwoChunks
    <3>3. CASE rx_buf' = rx_buf /\ wire' = wire
      BY <3>3 DEF IInv, TypeOK
    <3> QED
      BY <3>1, <3>2, <3>3
  <2>4. /\ chunk' \in [Threads -> Seq(Bytes)] /\ socket' \in [Threads -> Nat]
        /\ sock' \in Nat /\ connections' \in Nat /\ written' \in Nat
    BY DEF IInv, TypeOK
  <2> QED
    BY <2>1, <2>2, <2>3, <2>4 DEF TypeOK
<1>2. \A u \in Threads : step'[u] = step[u] \/ (u = t /\ step'[u] = s)
  BY DEF IInv, TypeOK
<1>3. LockIsFree'
  BY <1>2 DEF IInv, LockIsFree
<1>4. HasDelim(rx_buf)' => HasDelim(rx_buf)
  BY DEF HasDelim
<1>5. ReaderLooked'
  BY <1>2, <1>4 DEF IInv, ReaderLooked
<1>6. ShortBuffer'
  BY DEF IInv, ShortBuffer, TypeOK
<1>7. ShortChunks'
  BY DEF IInv, ShortChunks
<1> QED
  BY <1>1, <1>3, <1>5, <1>6, <1>7 DEF IInv

LEMMA NextInv ==
  ASSUME IInv, OneReader, Room, [Next]_clientVars
  PROVE  IInv'
<1> USE ClientAssumption
<1>1. CASE UNCHANGED clientVars
  BY <1>1 DEF IInv, TypeOK, LockIsFree, ReaderLooked, ShortChunks, ShortBuffer, HasDelim,
              clientVars, threadVars
<1>2. CASE ControllerWrites
  <2>1. PICK w \in Writes : wire' = wire \o OnWire(w)
    BY <1>2 DEF ControllerWrites
  <2>2. w \in Seq(Bytes)
    OBVIOUS
  <2>3. OnWire(w) \in Seq(WireBytes)
    BY <2>2 DEF OnWire, WireBytes
  <2>4. wire' \in Seq(WireBytes)
    BY <2>1, <2>3, ConcatProperties DEF IInv, TypeOK
  <2> QED
    BY <1>2, <2>4 DEF ControllerWrites, IInv, TypeOK, LockIsFree, ReaderLooked,
                      ShortChunks, ShortBuffer, HasDelim, threadVars
<1>3. ASSUME NEW t \in Threads, close(t) PROVE IInv'
  <2>1. "idle" \in Steps /\ "closed" \in Kinds
    BY DEF Steps, Kinds
  <2> QED
    BY <1>3, <2>1, QuietStep
    DEF close, DropConnection, Returns, Go, IInv, TypeOK, NoSocket
<1>4. ASSUME NEW t \in Threads, ensure_connected(t) PROVE IInv'
  <2>1. {"idle", "connecting"} \subseteq Steps /\ "connected" \in Kinds
    BY DEF Steps, Kinds
  <2>2. CASE sock # NoSocket
    BY <1>4, <2>1, <2>2, QuietStep DEF ensure_connected, Returns, Go, IInv, TypeOK
  <2>3. CASE sock = NoSocket
    BY <1>4, <2>1, <2>3, QuietStep
    DEF ensure_connected, DropConnection, Go, IInv, TypeOK, NoSocket
  <2> QED
    BY <2>2, <2>3
<1>5. ASSUME NEW t \in Threads, install_socket(t) PROVE IInv'
  <2>1. "idle" \in Steps /\ "connected" \in Kinds
    BY DEF Steps, Kinds
  <2>2. connections' \in Nat /\ sock' \in Nat
    BY <1>5 DEF install_socket, IInv, TypeOK
  <2> QED
    BY <1>5, <2>1, <2>2, QuietStep DEF install_socket, Returns, Go, IInv, TypeOK
<1>6. ASSUME NEW t \in Threads, ConnectFails(t) PROVE IInv'
  <2>1. "idle" \in Steps /\ "failed" \in Kinds
    BY DEF Steps, Kinds
  <2>2. CASE DropConnection /\ UNCHANGED <<step, result>>
    BY <1>6, <2>1, <2>2, QuietStep
    DEF ConnectFails, DropConnection, IInv, TypeOK, NoSocket
  <2>3. CASE Returns(t, Result("failed")) /\ UNCHANGED <<sock, rx_buf, wire>>
    BY <1>6, <2>1, <2>3, QuietStep DEF ConnectFails, Returns, Go, IInv, TypeOK
  <2> QED
    BY <1>6, <2>2, <2>3 DEF ConnectFails
<1>7. ASSUME NEW t \in Threads, send_msg(t) PROVE IInv'
  <2>1. {"idle", "sending"} \subseteq Steps /\ "failed" \in Kinds
    BY DEF Steps, Kinds
  <2>2. CASE sock = NoSocket
    BY <1>7, <2>1, <2>2, QuietStep DEF send_msg, Returns, Go, IInv, TypeOK
  <2>3. CASE sock # NoSocket
    <3>1. socket' \in [Threads -> Nat]
      BY <1>7, <2>3 DEF send_msg, IInv, TypeOK
    <3> QED
      BY <1>7, <2>1, <2>3, <3>1, QuietStep DEF send_msg, Go, IInv, TypeOK
  <2> QED
    BY <2>2, <2>3
<1>8. ASSUME NEW t \in Threads, SendDone(t) \/ ReceiveTimeout(t) PROVE IInv'
  <2>1. "idle" \in Steps /\ {"sent", "timeout"} \subseteq Kinds
    BY DEF Steps, Kinds
  <2> QED
    BY <1>8, <2>1, QuietStep
    DEF SendDone, ReceiveTimeout, Returns, Go, IInv, TypeOK
<1>9. ASSUME NEW t \in Threads, SendFails(t) \/ ReceiveFails(t) PROVE IInv'
  <2>1. "idle" \in Steps /\ "failed" \in Kinds
    BY DEF Steps, Kinds
  <2>2. /\ step' = [step EXCEPT ![t] = "idle"]
        /\ result' = [result EXCEPT ![t] = Result("failed")]
        /\ rx_buf' = <<>> /\ wire' = <<>> /\ sock' = 0
        /\ UNCHANGED <<connections, written, socket, chunk>>
    BY <1>9 DEF SendFails, ReceiveFails, DropConnection, Returns, Go, NoSocket
  <2>3. sock' \in Nat /\ connections' \in Nat /\ socket' \in [Threads -> Nat]
    BY <2>2 DEF IInv, TypeOK
  <2> QED
    BY <2>1, <2>2, <2>3, QuietStep
<1>10. ASSUME NEW t \in Threads, recv_msg(t) PROVE IInv'
  <2>1. {"idle", "receiving"} \subseteq Steps /\ {"failed", "message"} \subseteq Kinds
    BY DEF Steps, Kinds
  <2>2. CASE sock = NoSocket
    BY <1>10, <2>1, <2>2, QuietStep DEF recv_msg, Returns, Go, IInv, TypeOK
  <2>3. CASE sock # NoSocket /\ HasDelim(rx_buf)
    <3>1. TakeMessage(t, rx_buf) /\ UNCHANGED <<socket, sock, connections, written, wire, chunk>>
      BY <1>10, <2>3 DEF recv_msg
    <3>2. /\ rx_buf' \in Seq(Bytes) /\ Len(rx_buf') = Len(rx_buf) - FirstDelim(rx_buf)
          /\ SubSeq(rx_buf, 1, FirstDelim(rx_buf) - 1) \in Seq(Bytes)
          /\ FirstDelim(rx_buf) \in 1 .. Len(rx_buf)
      BY <2>3, <3>1, AfterDelimShorter, FirstDelimIsFirst DEF TakeMessage, IInv, TypeOK
    <3>3. Len(rx_buf') < Chunk /\ Len(rx_buf') <= MaxMessage
      BY <3>2 DEF IInv, TypeOK, ShortBuffer
    <3>4. TypeOK'
      BY <2>1, <3>1, <3>2, <3>3 DEF TakeMessage, Returns, Go, Message, IInv, TypeOK
    <3>5. \A u \in Threads : step'[u] \in {step[u], "idle"}
      BY <3>1 DEF TakeMessage, Returns, Go, IInv, TypeOK
    <3>6. \A u \in Threads : step[u] \notin {"receiving", "received"}
      BY <2>3 DEF IInv, ReaderLooked
    <3> QED
      BY <3>1, <3>3, <3>4, <3>5, <3>6 DEF IInv, LockIsFree, ReaderLooked, ShortChunks, ShortBuffer
  <2>4. CASE sock # NoSocket /\ ~HasDelim(rx_buf)
    <3>1. /\ step' = [step EXCEPT ![t] = "receiving"]
          /\ socket' = [socket EXCEPT ![t] = sock] /\ t \in Readers
          /\ UNCHANGED <<rx_buf, result, sock, connections, written, wire, chunk>>
      BY <1>10, <2>4 DEF recv_msg, Go
    <3>2. TypeOK'
      BY <2>1, <3>1 DEF IInv, TypeOK
    <3>3. \A u \in Threads : step'[u] = step[u] \/ (u = t /\ step'[u] = "receiving")
      BY <3>1 DEF IInv, TypeOK
    <3> QED
      BY <3>1, <3>2, <3>3, <2>4 DEF IInv, LockIsFree, ReaderLooked, ShortChunks, ShortBuffer
  <2> QED
    BY <2>2, <2>3, <2>4
<1>11. ASSUME NEW t \in Threads, ReceiveChunk(t) PROVE IInv'
  <2>1. PICK n \in 1 .. Len(wire) :
          /\ n <= Chunk
          /\ chunk' = [chunk EXCEPT ![t] = [i \in 1 .. n |-> wire[i].byte]]
          /\ wire' = SubSeq(wire, n + 1, Len(wire))
    BY <1>11 DEF ReceiveChunk
  <2>2. Len(wire) \in Nat /\ \A i \in 1 .. Len(wire) : wire[i] \in WireBytes
    BY ElementOfSeq DEF IInv, TypeOK
  <2>3. wire' \in Seq(WireBytes)
    BY <2>1, <2>2, SubSeqProperties
  <2> DEFINE c == [i \in 1 .. n |-> wire[i].byte]
  <2>4. \A i \in 1 .. n : wire[i].byte \in Bytes
    BY <2>2 DEF WireBytes
  <2>5. c \in Seq(Bytes) /\ Len(c) = n
    BY <2>2, <2>4
  <2>6. chunk' \in [Threads -> Seq(Bytes)]
    BY <2>1, <2>5 DEF IInv, TypeOK
  <2>7. /\ step[t] = "receiving" /\ step' = [step EXCEPT ![t] = "received"]
        /\ UNCHANGED <<sock, rx_buf, connections, written, socket, result>>
    BY <1>11 DEF ReceiveChunk, Go
  <2>8. TypeOK'
    BY <2>3, <2>6, <2>7 DEF IInv, TypeOK, Steps
  <2>9. ShortChunks'
    BY <2>1, <2>5 DEF IInv, TypeOK, ShortChunks
  <2>10. \A u \in Threads : step'[u] = step[u] \/ (u = t /\ step'[u] = "received")
    BY <2>7 DEF IInv, TypeOK
  <2> QED
    BY <2>7, <2>8, <2>9, <2>10 DEF IInv, LockIsFree, ReaderLooked, ShortBuffer
<1>12. ASSUME NEW t \in Threads, Extend(t) PROVE IInv'
  <2> DEFINE buf == rx_buf \o chunk[t]
  <2>1. /\ step[t] = "received" /\ t \in Readers /\ ~HasDelim(rx_buf)
        /\ rx_buf \in Seq(Bytes) /\ chunk[t] \in Seq(Bytes)
        /\ Len(rx_buf) \in Nat /\ Len(chunk[t]) \in Nat
        /\ Len(rx_buf) < Chunk /\ Len(chunk[t]) <= Chunk
    BY <1>12 DEF Extend, IInv, TypeOK, ReaderLooked, ShortChunks, ShortBuffer
  <2>2. buf \in Seq(Bytes) /\ Len(buf) = Len(rx_buf) + Len(chunk[t])
    BY <2>1, ConcatProperties
  <2>3. Len(buf) <= MaxMessage
    BY <2>1, <2>2, EmptyBuffer DEF Room, TwoChunks
  <2>4. /\ chunk' = [chunk EXCEPT ![t] = <<>>]
        /\ UNCHANGED <<sock, connections, written, wire, socket>>
    BY <1>12 DEF Extend
  <2>5. chunk' \in [Threads -> Seq(Bytes)] /\ ShortChunks'
    BY <2>4, EmptyBuffer DEF IInv, TypeOK, ShortChunks
  <2>6. \A u \in Threads : u # t => step[u] \notin {"receiving", "received"}
    BY <2>1 DEF IInv, ReaderLooked, OneReader
  <2>7. /\ step' = [step EXCEPT ![t] = "idle"]
        /\ rx_buf' \in Seq(Bytes) /\ Len(rx_buf') < Chunk
        /\ result' \in [Threads -> [kind : Kinds, text : Seq(Bytes)]]
    <3>1. CASE sock = NoSocket
      <4>1. Returns(t, Result("failed")) /\ rx_buf' = rx_buf
        BY <1>12, <3>1 DEF Extend
      <4>2. Result("failed") \in [kind : Kinds, text : Seq(Bytes)]
        BY EmptyBuffer DEF Result, Kinds
      <4> QED
        BY <2>1, <4>1, <4>2 DEF Returns, Go, IInv, TypeOK
    <3>2. CASE sock # NoSocket /\ HasDelim(buf)
      <4>1. TakeMessage(t, buf)
        BY <1>12, <3>2 DEF Extend
      <4>2. /\ AfterDelim(buf) \in Seq(Bytes)
            /\ Len(AfterDelim(buf)) = Len(buf) - FirstDelim(buf)
            /\ SubSeq(buf, 1, FirstDelim(buf) - 1) \in Seq(Bytes)
        BY <2>2, <3>2, AfterDelimShorter
      <4>3. Len(buf) - FirstDelim(buf) < Len(chunk[t])
        BY <2>1, <3>2, ChunkLeavesLess
      <4>4. FirstDelim(buf) \in 1 .. Len(buf)
        BY <2>2, <3>2, FirstDelimIsFirst
      <4>5. Len(AfterDelim(buf)) < Chunk
        BY <2>1, <2>2, <4>2, <4>3, <4>4
      <4> HIDE DEF buf
      <4> QED
        BY <4>1, <4>2, <4>5 DEF TakeMessage, Returns, Go, Message, Kinds, IInv, TypeOK
    <3>3. CASE sock # NoSocket /\ ~HasDelim(buf)
      <4>1. ~(Len(buf) > MaxMessage)
        BY <2>2, <2>3
      <4>2. rx_buf' = <<>> /\ Returns(t, Message(buf))
        BY <1>12, <3>3, <4>1 DEF Extend, AfterUnframed
      <4> HIDE DEF buf
      <4> QED
        BY <2>2, <4>2, EmptyBuffer DEF Returns, Go, Message, Kinds, IInv, TypeOK
    <3> QED
      BY <3>1, <3>2, <3>3
  <2>8. Len(rx_buf') <= MaxMessage
    BY <2>7 DEF Room, TwoChunks
  <2>9. TypeOK'
    BY <2>4, <2>5, <2>7, <2>8 DEF IInv, TypeOK, Steps
  <2>10. \A u \in Threads : step'[u] = IF u = t THEN "idle" ELSE step[u]
    BY <2>7 DEF IInv, TypeOK
  <2> QED
    BY <2>5, <2>6, <2>7, <2>9, <2>10
    DEF IInv, LockIsFree, ReaderLooked, ShortBuffer
<1> QED
  BY <1>1, <1>2, <1>3, <1>4, <1>5, <1>6, <1>7, <1>8, <1>9, <1>10, <1>11, <1>12
  DEF Next

-----------------------------------------------------------------------------
(* The variables of the client keep their types and the buffer its limit,   *)
(* whatever the controller writes and however the network splits or joins   *)
(* it, when one thread reads and a message may be as long as two chunks.   *)
THEOREM TypeCorrect == ASSUME OneReader, TwoChunks PROVE Spec => []TypeOK
<1>1. Init => IInv
  BY InitInv
<1>2. IInv /\ [Next]_clientVars => IInv'
  BY NextInv DEF Room
<1>3. IInv => TypeOK
  BY DEF IInv
<1> QED
  BY <1>1, <1>2, <1>3, PTL DEF Spec

(* The call of close() in recv_msg, which would wait for the lock its own   *)
(* thread holds, is never reached.                                         *)
THEOREM NoSelfBlock == ASSUME OneReader, TwoChunks PROVE Spec => []NeverSelfBlocked
<1>1. Init => IInv
  BY InitInv
<1>2. IInv /\ [Next]_clientVars => IInv'
  BY NextInv DEF Room
<1>3. IInv => NeverSelfBlocked
  BY DEF IInv, NeverSelfBlocked
<1> QED
  BY <1>1, <1>2, <1>3, PTL DEF Spec

-----------------------------------------------------------------------------
(***************************************************************************)
(* The joint feedback node.  C4G writes no delimiter there, so the buffer  *)
(* stays empty; the bytes on their way are the last WRITEs in their order   *)
(* (OnItsWay), what recv returned is the next one or too long to be parsed  *)
(* (Several), and what is published has left the wire (Taken).             *)
(***************************************************************************)

(* No byte on its way is a delimiter, and the buffer is always empty.      *)
PlainInv ==
  /\ rx_buf = <<>>
  /\ \A i \in 1 .. Len(wire) : wire[i].byte # Delim
  /\ ~HasDelim(chunk[Worker])

(* Only the worker is in a call of the client for more than a step.        *)
PlaceInv ==
  /\ step[Main] = "idle"
  /\ step[Worker] # "idle" => worker \in {"connect", "receive"}
  /\ written <= MaxWrites
  /\ worker = "publish" => result[Worker].kind = "message"

PlainFeedInv == IInv /\ FeedbackTypeOK /\ PlainInv /\ PlaceInv

LEMMA FeedbackThreads ==
  /\ Worker \in Threads /\ Main \in Threads /\ Worker # Main
  /\ OneReader /\ Threads = {Worker, Main}
BY FeedbackAssumption DEF OneReader

(* A WRITE of C4G is five bytes, none of them a delimiter.                 *)
LEMMA SnapshotIs ==
  ASSUME NEW n \in 1 .. MaxWrites
  PROVE  /\ Snapshot(n) \in Seq(Bytes) /\ Len(Snapshot(n)) = 5
         /\ \A j \in 1 .. 5 : Snapshot(n)[j] \in Symbols
         /\ Snapshot(n)[1] = Prefix /\ Snapshot(n)[2] = Digits[n]
         /\ Snapshot(n) \in Writes
<1>1. Digits[n] \in Symbols /\ Prefix \in Symbols /\ Comma \in Symbols
  BY FeedbackAssumption DEF DigitSet
<1>2. Snapshot(n) \in Writes
  BY FeedbackAssumption
<1> QED
  BY <1>1, <1>2 DEF Snapshot, Bytes

LEMMA WrittenBytes ==
  ASSUME NEW n \in 1 .. MaxWrites
  PROVE  /\ OnWire(Snapshot(n)) \in Seq(WireBytes) /\ Len(OnWire(Snapshot(n))) = 5
         /\ \A j \in 1 .. 5 : /\ OnWire(Snapshot(n))[j].byte = Snapshot(n)[j]
                              /\ OnWire(Snapshot(n))[j].last = (j = 5)
         /\ \A j \in 1 .. 5 : OnWire(Snapshot(n))[j].byte # Delim
<1>1. /\ Snapshot(n) \in Seq(Bytes) /\ Len(Snapshot(n)) = 5
      /\ \A j \in 1 .. 5 : Snapshot(n)[j] \in Symbols
  BY SnapshotIs
<1> DEFINE joined == Snapshot(n) \in Joined
<1>2. OnWire(Snapshot(n))
        = [j \in 1 .. 5 |-> [byte |-> Snapshot(n)[j], last |-> j = 5, joined |-> joined]]
  BY <1>1 DEF OnWire
<1>3. \A j \in 1 .. 5 :
        [byte |-> Snapshot(n)[j], last |-> j = 5, joined |-> joined] \in WireBytes
  BY <1>1 DEF WireBytes, Bytes
<1> HIDE DEF joined
<1>4. OnWire(Snapshot(n)) \in Seq(WireBytes) /\ Len(OnWire(Snapshot(n))) = 5
  BY <1>2, <1>3
<1>5. \A j \in 1 .. 5 : /\ OnWire(Snapshot(n))[j].byte = Snapshot(n)[j]
                        /\ OnWire(Snapshot(n))[j].last = (j = 5)
  BY <1>2
<1>6. \A j \in 1 .. 5 : Snapshot(n)[j] # Delim
  BY <1>1, ClientAssumption
<1>7. \A j \in 1 .. 5 : OnWire(Snapshot(n))[j].byte # Delim
  BY <1>5, <1>6
<1> QED
  BY <1>4, <1>5, <1>7

(* The node does with its client what a user of the client may do.         *)
LEMMA FeedbackIsUser == [FeedbackNext]_feedbackVars => [Next]_clientVars
<1> USE FeedbackThreads
<1>1. send_joint_feedback => Next
  BY DEF send_joint_feedback, Next
<1>2. Connect => Next
  BY DEF Connect, Next
<1>3. Receive => Next
  BY DEF Receive, Next
<1>4. CloseAfterError \/ DestroyCloses => Next
  BY DEF CloseAfterError, DestroyCloses, Next
<1>5. LoopCondition \/ Publish \/ WaitBackoff \/ Interrupt \/ DestroyNode
        => UNCHANGED clientVars
  BY DEF LoopCondition, Publish, WaitBackoff, Interrupt, DestroyNode
<1>6. UNCHANGED feedbackVars => UNCHANGED clientVars
  BY DEF feedbackVars
<1> QED
  BY <1>1, <1>2, <1>3, <1>4, <1>5, <1>6 DEF FeedbackNext, WorkerStep

LEMMA FeedbackKeepsClient ==
  PlainFeedInv /\ [FeedbackNext]_feedbackVars => IInv'
<1> SUFFICES ASSUME PlainFeedInv, [FeedbackNext]_feedbackVars PROVE IInv'
  OBVIOUS
<1>1. Room
  BY FeedbackAssumption DEF PlainFeedInv, PlainInv, Room
<1> QED
  BY <1>1, FeedbackIsUser, FeedbackThreads, NextInv DEF PlainFeedInv

LEMMA FeedbackInitPlain == FeedbackInit => PlainFeedInv
<1> SUFFICES ASSUME FeedbackInit PROVE PlainFeedInv
  OBVIOUS
<1>1. IInv
  BY InitInv DEF FeedbackInit
<1>2. FeedbackTypeOK
  BY <1>1, EmptyBuffer DEF FeedbackTypeOK, IInv, FeedbackInit
<1>3. PlainInv
  BY FeedbackThreads, EmptyBuffer DEF PlainInv, FeedbackInit, Init
<1>4. PlaceInv
  BY FeedbackThreads, ClientAssumption DEF PlaceInv, FeedbackInit, Init
<1> QED
  BY <1>1, <1>2, <1>3, <1>4 DEF PlainFeedInv

(* What the steps of the node do to its client, as far as it matters here. *)
Dropped == rx_buf' = <<>> /\ wire' = <<>>
Same    == rx_buf' = rx_buf /\ wire' = wire

LEMMA ConnectIs ==
  ASSUME PlainFeedInv, Connect
  PROVE  /\ Dropped \/ (rx_buf' = <<>> /\ wire' = wire)
         /\ UNCHANGED <<written, chunk, main, published>>
         /\ step'[Main] = "idle" /\ step'[Worker] \in {"idle", "connecting"}
         /\ step'[Worker] = "connecting" => worker' = "connect"
         /\ worker' \in {"connect", "receive", "close"}
         /\ step[Worker] \in {"idle", "connecting"}
<1> USE FeedbackThreads DEF PlainFeedInv
<1>1. step \in [Threads -> Steps] /\ rx_buf = <<>> /\ step[Main] = "idle"
  BY DEF IInv, TypeOK, PlainInv, PlaceInv
<1>2. /\ Dropped \/ Same
      /\ UNCHANGED <<written, chunk, main, published>>
      /\ step[Worker] \in {"idle", "connecting"}
      /\ \/ step' = [step EXCEPT ![Worker] = "idle"]
         \/ step' = [step EXCEPT ![Worker] = "connecting"]
         \/ step[Worker] = "connecting" /\ step' = step
  <2>1. CASE ensure_connected(Worker)
    BY <2>1 DEF ensure_connected, Connect, Returns, Go, DropConnection, Dropped, Same
  <2>2. CASE install_socket(Worker)
    BY <2>2 DEF install_socket, Connect, Returns, Go, Dropped
  <2>3. CASE ConnectFails(Worker)
    BY <2>3 DEF ConnectFails, Connect, Returns, Go, DropConnection, Dropped, Same
  <2> QED
    BY <2>1, <2>2, <2>3 DEF Connect
<1>3. step'[Main] = "idle" /\ step'[Worker] \in {"idle", "connecting"}
  BY <1>1, <1>2
<1>4. /\ step'[Worker] = "connecting" => worker' = "connect"
      /\ worker' \in {"connect", "receive", "close"}
  BY <1>3 DEF Connect
<1> QED
  BY <1>1, <1>2, <1>3, <1>4 DEF Same

LEMMA ReceiveIs ==
  ASSUME PlainFeedInv, Receive
  PROVE  /\ UNCHANGED <<written, main, published>>
         /\ \/ /\ rx_buf' = <<>> /\ chunk' = chunk /\ wire' \in {wire, <<>>}
               /\ step'[Worker] \in {"idle", "receiving"}
               /\ step'[Worker] = "idle" => worker' \in {"loop", "close"}
            \/ /\ ReceiveChunk(Worker) /\ step'[Worker] = "received"
            \/ /\ step[Worker] = "received" /\ step'[Worker] = "idle"
               /\ rx_buf' = <<>> /\ wire' = wire /\ ~HasDelim(chunk'[Worker])
               /\ \/ worker' \in {"loop", "close"}
                  \/ /\ worker' = "publish" /\ result'[Worker] = Message(chunk[Worker])
                     /\ IsJointMessage(chunk[Worker])
         /\ step'[Main] = "idle"
         /\ step'[Worker] # "idle" => worker' = "receive"
         /\ worker' \in {"loop", "close", "receive", "publish"}
         /\ worker' = "publish" => result'[Worker].kind = "message"
<1> USE FeedbackThreads DEF PlainFeedInv
<1>1. /\ step \in [Threads -> Steps] /\ rx_buf = <<>> /\ step[Main] = "idle"
      /\ result \in [Threads -> [kind : Kinds, text : Seq(Bytes)]]
      /\ chunk \in [Threads -> Seq(Bytes)] /\ ~HasDelim(rx_buf)
      /\ Len(chunk[Worker]) <= Chunk /\ ~HasDelim(chunk[Worker])
  BY EmptyBuffer DEF IInv, TypeOK, PlainInv, PlaceInv, ShortChunks
<1>2. /\ UNCHANGED <<main, published>> /\ worker = "receive"
      /\ worker' = IF step'[Worker] = "idle" THEN AfterReceive(result'[Worker])
                                             ELSE "receive"
  BY DEF Receive
<1>3. ASSUME recv_msg(Worker)
      PROVE  /\ rx_buf' = <<>> /\ chunk' = chunk /\ wire' = wire /\ written' = written
             /\ step' = [step EXCEPT ![Worker] = step'[Worker]]
             /\ step'[Worker] \in {"idle", "receiving"}
             /\ step'[Worker] = "idle" => result'[Worker].kind = "failed"
  BY <1>1, <1>3 DEF recv_msg, Returns, Go, Result
<1>4. ASSUME ReceiveTimeout(Worker) \/ ReceiveFails(Worker)
      PROVE  /\ rx_buf' = <<>> /\ chunk' = chunk /\ wire' \in {wire, <<>>}
             /\ written' = written
             /\ step' = [step EXCEPT ![Worker] = "idle"] /\ step'[Worker] = "idle"
             /\ result'[Worker].kind \in {"failed", "timeout"}
  BY <1>1, <1>4 DEF ReceiveTimeout, ReceiveFails, DropConnection, Returns, Go, Result
<1>5. ASSUME ReceiveChunk(Worker)
      PROVE  /\ written' = written /\ step'[Worker] = "received"
             /\ step' = [step EXCEPT ![Worker] = "received"]
  BY <1>1, <1>5 DEF ReceiveChunk, Go
<1>6. ASSUME Extend(Worker)
      PROVE  /\ written' = written /\ wire' = wire /\ rx_buf' = <<>>
             /\ step' = [step EXCEPT ![Worker] = "idle"] /\ step'[Worker] = "idle"
             /\ step[Worker] = "received" /\ chunk'[Worker] = <<>>
             /\ result'[Worker] \in {Result("failed"), Message(chunk[Worker])}
  <2>1. chunk[Worker] \in Seq(Bytes) /\ Len(chunk[Worker]) \in Nat
    BY <1>1
  <2>2. rx_buf \o chunk[Worker] = chunk[Worker]
    BY <1>1, <2>1, ConcatEmptySeq
  <2>3. ~(Len(chunk[Worker]) > MaxMessage)
    BY <1>1, <2>1, FeedbackAssumption, ClientAssumption
  <2> QED
    BY <1>1, <1>6, <2>2, <2>3 DEF Extend, Returns, Go, AfterUnframed
<1>7. \A r : AfterReceive(r) \in {"publish", "loop", "close"}
  BY DEF AfterReceive
<1>8. \A r : /\ r.kind # "message" => AfterReceive(r) \in {"loop", "close"}
             /\ AfterReceive(r) = "publish" => r.kind = "message" /\ IsJointMessage(r.text)
  BY DEF AfterReceive
<1>9. CASE recv_msg(Worker) \/ ReceiveTimeout(Worker) \/ ReceiveFails(Worker)
  <2>1. /\ rx_buf' = <<>> /\ chunk' = chunk /\ wire' \in {wire, <<>>} /\ written' = written
        /\ step' = [step EXCEPT ![Worker] = step'[Worker]]
        /\ step'[Worker] \in {"idle", "receiving"}
        /\ step'[Worker] = "idle" => result'[Worker].kind # "message"
    BY <1>3, <1>4, <1>9
  <2>2. step'[Main] = "idle"
    BY <1>1, <2>1
  <2>3. step'[Worker] = "idle" => worker' \in {"loop", "close"}
    BY <1>2, <1>8, <2>1
  <2> QED
    BY <1>2, <2>1, <2>2, <2>3
<1>10. CASE ReceiveChunk(Worker)
  <2>1. step'[Main] = "idle"
    BY <1>1, <1>5, <1>10
  <2> QED
    BY <1>2, <1>5, <1>10, <2>1
<1>11. CASE Extend(Worker)
  <2>1. step'[Main] = "idle" /\ ~HasDelim(chunk'[Worker])
    BY <1>1, <1>6, <1>11, EmptyBuffer
  <2>2. worker' = AfterReceive(result'[Worker])
    BY <1>2, <1>6, <1>11
  <2>3. /\ Result("failed").kind = "failed"
        /\ Message(chunk[Worker]).kind = "message"
        /\ Message(chunk[Worker]).text = chunk[Worker]
    BY DEF Result, Message
  <2>4. \/ worker' \in {"loop", "close"}
        \/ /\ worker' = "publish" /\ result'[Worker] = Message(chunk[Worker])
           /\ IsJointMessage(chunk[Worker])
    <3>1. CASE result'[Worker] = Result("failed")
      BY <1>8, <2>2, <2>3, <3>1
    <3>2. CASE result'[Worker] = Message(chunk[Worker])
      BY <1>7, <1>8, <2>2, <2>3, <3>2
    <3> QED
      BY <1>6, <1>11, <3>1, <3>2
  <2> QED
    BY <1>2, <1>6, <1>11, <2>1, <2>3, <2>4
<1> QED
  BY <1>9, <1>10, <1>11 DEF Receive

LEMMA PlainStep == PlainFeedInv /\ [FeedbackNext]_feedbackVars => PlainFeedInv'
<1> SUFFICES ASSUME PlainFeedInv, [FeedbackNext]_feedbackVars PROVE PlainFeedInv'
  OBVIOUS
<1> USE FeedbackThreads
<1>1. IInv'
  BY FeedbackKeepsClient
<1>2. /\ IInv /\ FeedbackTypeOK /\ PlainInv /\ PlaceInv
      /\ step \in [Threads -> Steps] /\ wire \in Seq(WireBytes)
      /\ chunk \in [Threads -> Seq(Bytes)]
      /\ result \in [Threads -> [kind : Kinds, text : Seq(Bytes)]]
  BY DEF PlainFeedInv, IInv, TypeOK
<1> DEFINE Rest == /\ worker' \in {"loop", "connect", "receive", "publish",
                                   "close", "wait", "ended"}
                   /\ main' \in {"spin", "stopping", "joining", "destroyed"}
                   /\ published' \in Seq(Bytes)
                   /\ PlainInv' /\ PlaceInv'
<1>4. Rest => PlainFeedInv'
  BY <1>1 DEF PlainFeedInv, FeedbackTypeOK, IInv
<1>5. ASSUME send_joint_feedback PROVE Rest
  <2>1. /\ written' = written + 1 /\ written < MaxWrites
        /\ wire' = wire \o OnWire(Snapshot(written'))
        /\ UNCHANGED <<rx_buf, chunk, step, result, worker, main, published>>
    BY <1>5 DEF send_joint_feedback, ControllerWrites, threadVars
  <2>2. written' \in 1 .. MaxWrites
    BY <1>2, <2>1, ClientAssumption DEF IInv, TypeOK
  <2> DEFINE w == OnWire(Snapshot(written'))
  <2>3. w \in Seq(WireBytes) /\ Len(w) = 5 /\ \A j \in 1 .. 5 : w[j].byte # Delim
    BY <2>2, WrittenBytes
  <2> HIDE DEF w
  <2>4. \A i \in 1 .. Len(wire') : wire'[i].byte # Delim
    <3>1. /\ Len(wire \o w) = Len(wire) + Len(w) /\ Len(wire) \in Nat
          /\ \A i \in 1 .. Len(wire) + Len(w) :
               (wire \o w)[i] = IF i <= Len(wire) THEN wire[i] ELSE w[i - Len(wire)]
      <4>1. wire \in Seq(WireBytes) /\ w \in Seq(WireBytes)
        BY <1>2, <2>3
      <4> QED
        BY <4>1, ConcatProperties
    <3>2. wire' = wire \o w
      BY <2>1 DEF w
    <3>3. \A i \in 1 .. Len(wire) : wire[i].byte # Delim
      BY <1>2 DEF PlainInv
    <3> SUFFICES ASSUME NEW i \in 1 .. Len(wire')  PROVE wire'[i].byte # Delim
      OBVIOUS
    <3>4. i \in 1 .. Len(wire) \/ (i > Len(wire) /\ i - Len(wire) \in 1 .. 5)
      BY <2>3, <3>1, <3>2
    <3>5. wire'[i] = IF i <= Len(wire) THEN wire[i] ELSE w[i - Len(wire)]
      BY <3>1, <3>2
    <3>6. CASE i \in 1 .. Len(wire)
      BY <3>1, <3>3, <3>5, <3>6
    <3>7. CASE i > Len(wire) /\ i - Len(wire) \in 1 .. 5
      BY <2>3, <3>1, <3>5, <3>7
    <3> QED
      BY <3>4, <3>6, <3>7
  <2>5. PlainInv'
    BY <1>2, <2>1, <2>4 DEF PlainInv, HasDelim
  <2> QED
    BY <1>2, <2>1, <2>2, <2>5 DEF PlaceInv, FeedbackTypeOK
<1>6. ASSUME UNCHANGED clientVars, UNCHANGED published,
             worker' \in {"loop", "connect", "receive", "close", "wait", "ended"},
             main' \in {"spin", "stopping", "joining", "destroyed"},
             step[Worker] = "idle"
      PROVE  Rest
  <2>1. UNCHANGED <<rx_buf, wire, chunk, step, result, written>>
    BY <1>6 DEF clientVars, threadVars
  <2> QED
    BY <1>2, <1>6, <2>1 DEF PlainInv, PlaceInv, HasDelim, FeedbackTypeOK
<1>7. CASE LoopCondition \/ WaitBackoff
  <2>1. /\ worker \in {"loop", "wait"} /\ UNCHANGED clientVars
        /\ UNCHANGED <<main, published>>
        /\ worker' \in {"loop", "connect", "receive", "ended"}
    BY <1>7 DEF LoopCondition, WaitBackoff
  <2> QED
    BY <1>2, <1>4, <1>6, <2>1 DEF PlaceInv, FeedbackTypeOK
<1>8. ASSUME Connect PROVE Rest
  <2>1. /\ rx_buf' = <<>> /\ wire' \in {<<>>, wire}
        /\ UNCHANGED <<written, chunk, main, published>>
        /\ step'[Main] = "idle" /\ step'[Worker] \in {"idle", "connecting"}
        /\ step'[Worker] = "connecting" => worker' = "connect"
        /\ worker' \in {"connect", "receive", "close"}
    BY <1>8, ConnectIs DEF Dropped
  <2>2. PlainInv'
    BY <1>2, <2>1, EmptyBuffer DEF PlainInv, HasDelim
  <2> QED
    BY <1>2, <2>1, <2>2 DEF PlaceInv, FeedbackTypeOK
<1>9. ASSUME Receive PROVE Rest
  <2>1. /\ UNCHANGED <<written, main, published>>
        /\ step'[Main] = "idle"
        /\ step'[Worker] # "idle" => worker' = "receive"
        /\ worker' \in {"loop", "close", "receive", "publish"}
        /\ worker' = "publish" => result'[Worker].kind = "message"
    BY <1>9, ReceiveIs
  <2>2. PlaceInv'
    BY <1>2, <2>1 DEF PlaceInv
  <2>3. CASE ReceiveChunk(Worker)
    <3>1. PICK n \in 1 .. Len(wire) :
            /\ chunk' = [chunk EXCEPT ![Worker] = [i \in 1 .. n |-> wire[i].byte]]
            /\ wire' = SubSeq(wire, n + 1, Len(wire))
      BY <2>3 DEF ReceiveChunk
    <3>2. rx_buf' = <<>>
      BY <1>2, <2>3 DEF ReceiveChunk, PlainInv
    <3>3. Len(wire) \in Nat /\ \A i \in 1 .. Len(wire) : wire[i] \in WireBytes
      BY <1>2, ElementOfSeq
    <3>4. /\ Len(wire') = Len(wire) - n
          /\ \A i \in 1 .. Len(wire) - n : wire'[i] = wire[n + i]
      <4>1. /\ Len(SubSeq(wire, n + 1, Len(wire)))
                 = IF n + 1 <= Len(wire) THEN Len(wire) - (n + 1) + 1 ELSE 0
            /\ \A i \in 1 .. Len(wire) - (n + 1) + 1 :
                 SubSeq(wire, n + 1, Len(wire))[i] = wire[(n + 1) + i - 1]
        BY <3>3, SubSeqProperties
      <4> QED
        BY <3>1, <3>3, <4>1
    <3>5. \A i \in 1 .. Len(wire) : wire[i].byte # Delim
      BY <1>2 DEF PlainInv
    <3>6. \A i \in 1 .. Len(wire') : wire'[i].byte # Delim
      BY <3>3, <3>4, <3>5
    <3>7. ~HasDelim(chunk'[Worker])
      <4>1. chunk'[Worker] = [i \in 1 .. n |-> wire[i].byte]
        BY <1>2, <3>1
      <4>2. Len(chunk'[Worker]) = n
        BY <3>3, <4>1
      <4> QED
        BY <3>3, <3>5, <4>1, <4>2 DEF HasDelim
    <3> QED
      BY <1>2, <2>1, <2>2, <3>2, <3>6, <3>7 DEF PlainInv, FeedbackTypeOK
  <2>4. CASE ~ReceiveChunk(Worker)
    <3>1. /\ rx_buf' = <<>> /\ wire' \in {<<>>, wire}
          /\ chunk' = chunk \/ ~HasDelim(chunk'[Worker])
      BY <1>9, <2>4, ReceiveIs
    <3>2. PlainInv'
      BY <1>2, <3>1, EmptyBuffer DEF PlainInv, HasDelim
    <3> QED
      BY <1>2, <2>1, <2>2, <3>2 DEF FeedbackTypeOK
  <2> QED
    BY <2>3, <2>4
<1>10. ASSUME Publish PROVE Rest
  <2>1. /\ worker' \in {"loop", "close"} /\ UNCHANGED clientVars /\ main' = main
        /\ published' \in {published, result[Worker].text} /\ worker = "publish"
    BY <1>10 DEF Publish
  <2>2. published' \in Seq(Bytes)
    BY <1>2, <2>1 DEF FeedbackTypeOK
  <2>3. UNCHANGED <<rx_buf, wire, chunk, step, result, written>>
    BY <2>1 DEF clientVars, threadVars
  <2> QED
    BY <1>2, <2>1, <2>2, <2>3 DEF PlainInv, PlaceInv, HasDelim, FeedbackTypeOK
<1>11. ASSUME CloseAfterError \/ DestroyCloses PROVE Rest
  <2>1. PICK t \in Threads : step[t] = "idle" /\ step' = [step EXCEPT ![t] = "idle"]
                             /\ (result' = [result EXCEPT ![t] = Result("closed")])
                             /\ (CloseAfterError => t = Worker)
                             /\ (DestroyCloses => t = Main)
    BY <1>11 DEF CloseAfterError, DestroyCloses, close, Returns, Go
  <2>2. /\ rx_buf' = <<>> /\ wire' = <<>> /\ UNCHANGED <<written, chunk, published>>
        /\ \/ worker' = "wait" /\ worker = "close" /\ main' = main /\ CloseAfterError
           \/ main' = "joining" /\ worker' = worker /\ DestroyCloses
    BY <1>11 DEF CloseAfterError, DestroyCloses, close, DropConnection
  <2>3. step' = step
    BY <1>2, <2>1
  <2>4. PlainInv'
    BY <1>2, <2>2, EmptyBuffer DEF PlainInv, HasDelim
  <2>5. PlaceInv'
    <3>1. worker' = "publish" => result'[Worker] = result[Worker]
      BY <1>2, <2>1, <2>2
    <3> QED
      BY <1>2, <2>2, <2>3, <3>1 DEF PlaceInv
  <2> QED
    BY <1>2, <2>2, <2>4, <2>5 DEF FeedbackTypeOK
<1>12. ASSUME Interrupt \/ DestroyNode PROVE Rest
  <2>1. /\ UNCHANGED <<rx_buf, wire, chunk, step, result, written, worker, published>>
        /\ main' \in {"stopping", "destroyed"}
    BY <1>12 DEF Interrupt, DestroyNode, clientVars, threadVars
  <2> QED
    BY <1>2, <2>1 DEF PlainInv, PlaceInv, HasDelim, FeedbackTypeOK
<1>13. CASE UNCHANGED feedbackVars
  <2>1. UNCHANGED <<rx_buf, wire, chunk, step, result, written, worker, published, main>>
    BY <1>13 DEF feedbackVars, clientVars, threadVars
  <2>2. Rest
    BY <1>2, <2>1 DEF PlainInv, PlaceInv, HasDelim, FeedbackTypeOK
  <2> QED
    BY <1>4, <2>2
<1> HIDE DEF Rest
<1> QED
  BY <1>4, <1>5, <1>7, <1>8, <1>9, <1>10, <1>11, <1>12, <1>13 DEF FeedbackNext, WorkerStep

-----------------------------------------------------------------------------
(* The node has received the nth WRITE, and has published none later.       *)
Taken(n) == n \in 1 .. written /\ 5 * n + Len(wire) <= 5 * written

Fresh(n) == Taken(n) /\ \A m \in 1 .. MaxWrites : published = Snapshot(m) => m < n

IsFresh(text) == \E n \in 1 .. MaxWrites : text = Snapshot(n) /\ Fresh(n)

(* On its way are the last q WRITEs, in their order.                       *)
OnItsWay(q) ==
  /\ q <= written /\ Len(wire) = 5 * q
  /\ \A k \in 1 .. q, j \in 1 .. 5 :
       /\ wire[5 * (k - 1) + j].byte = Snapshot(written - q + k)[j]
       /\ wire[5 * (k - 1) + j].last = (j = 5)

(* What recv returned is the next WRITE, or several of them.               *)
Several(bytes) == Len(bytes) >= 6 /\ bytes[6] = Prefix

OrderInv ==
  /\ \E q \in Nat : OnItsWay(q)
  /\ step[Worker] = "received" =>
       IsFresh(chunk[Worker]) \/ Several(chunk[Worker])
  /\ worker = "publish" => IsFresh(result[Worker].text)
  /\ \A m \in 1 .. MaxWrites : published = Snapshot(m) => Taken(m)

LEMMA SnapshotsDiffer ==
  ASSUME NEW m \in 1 .. MaxWrites, NEW n \in 1 .. MaxWrites, Snapshot(m) = Snapshot(n)
  PROVE  m = n
<1>1. Digits[m] = Digits[n]
  BY SnapshotIs
<1> QED
  BY <1>1, FeedbackAssumption

(* Two WRITEs received together are no joint message.                      *)
LEMMA SeveralAreRefused ==
  ASSUME NEW bytes \in Seq(Bytes), Several(bytes)
  PROVE  ~IsJointMessage(bytes)
<1> SUFFICES ASSUME IsJointMessage(bytes) PROVE FALSE
  OBVIOUS
<1>1. PICK c \in 3 .. Len(bytes) - 1 :
        bytes[c] = Comma /\ \A i \in 2 .. Len(bytes) : i # c => bytes[i] \in DigitSet
  BY DEF IsJointMessage
<1>2. Len(bytes) \in Nat /\ 6 \in 2 .. Len(bytes) /\ bytes[6] = Prefix
  BY DEF Several
<1>3. Prefix # Comma /\ Prefix \notin DigitSet
  BY FeedbackAssumption
<1> QED
  BY <1>1, <1>2, <1>3

(* A position on the wire is a byte of a WRITE.                            *)
LEMMA Position ==
  ASSUME NEW i \in Nat \ {0}
  PROVE  \E k \in Nat \ {0}, j \in 1 .. 5 : i = 5 * (k - 1) + j
<1>1. PICK d \in Nat, r \in 0 .. 4 : i - 1 = 5 * d + r
  BY (i - 1) \div 5 \in Nat, (i - 1) % 5 \in 0 .. 4
<1>2. d + 1 \in Nat \ {0} /\ r + 1 \in 1 .. 5 /\ i = 5 * ((d + 1) - 1) + (r + 1)
  BY <1>1
<1> QED
  BY <1>2

(* What recv returns, when it returns whole WRITEs.                        *)
LEMMA WholeWrites ==
  ASSUME ~Splits, NEW q \in Nat, OnItsWay(q), NEW n \in 1 .. Len(wire), MayEndAt(n)
  PROVE  \E k \in 1 .. q : n = 5 * k
<1>1. Len(wire) = 5 * q /\ wire[n].last
  BY DEF OnItsWay, MayEndAt
<1>2. PICK k \in Nat \ {0}, j \in 1 .. 5 : n = 5 * (k - 1) + j
  <2>1. n \in Nat \ {0}
    BY <1>1
  <2> QED
    BY <2>1, Position
<1>3. k \in 1 .. q
  BY <1>1, <1>2
<1>4. wire[n].last = (j = 5)
  BY <1>2, <1>3 DEF OnItsWay
<1>5. j = 5
  BY <1>1, <1>4
<1> QED
  BY <1>2, <1>3, <1>5

(* The WRITEs taken stay taken, whatever is written or dropped.            *)
LEMMA TakenStays ==
  ASSUME written \in Nat, Len(wire) \in Nat,
         \/ written' = written + 1 /\ Len(wire') = Len(wire) + 5
         \/ /\ written' = written /\ Len(wire') \in Nat
            /\ Len(wire') <= Len(wire)
  PROVE  \A n : Taken(n) => Taken(n)'
<1> SUFFICES ASSUME NEW n, Taken(n) PROVE Taken(n)'
  OBVIOUS
<1>1. n \in 1 .. written /\ 5 * n + Len(wire) <= 5 * written
  BY DEF Taken
<1>2. CASE written' = written + 1 /\ Len(wire') = Len(wire) + 5
  BY <1>1, <1>2 DEF Taken
<1>3. CASE written' = written /\ Len(wire') \in Nat /\ Len(wire') <= Len(wire)
  BY <1>1, <1>3 DEF Taken
<1> QED
  BY <1>2, <1>3

(* A step that publishes nothing, and receives nothing the node did not     *)
(* have, keeps the order.                                                  *)
LEMMA OrderStays ==
  ASSUME OrderInv, \A n : Taken(n) => Taken(n)', published' = published,
         \E q \in Nat : OnItsWay(q)',
         step'[Worker] = "received" =>
           step[Worker] = "received" /\ chunk'[Worker] = chunk[Worker],
         worker' = "publish" =>
           worker = "publish" /\ result'[Worker] = result[Worker]
  PROVE  OrderInv'
<1>1. \A n : Fresh(n) => Fresh(n)'
  BY DEF Fresh
<1>2. step'[Worker] = "received" =>
        (\E n \in 1 .. MaxWrites : chunk'[Worker] = Snapshot(n) /\ Fresh(n)')
          \/ Several(chunk'[Worker])
  BY <1>1 DEF OrderInv, IsFresh
<1>3. worker' = "publish" =>
        \E n \in 1 .. MaxWrites : result'[Worker].text = Snapshot(n) /\ Fresh(n)'
  BY <1>1 DEF OrderInv, IsFresh
<1>4. \A m \in 1 .. MaxWrites : published' = Snapshot(m) => Taken(m)'
  BY DEF OrderInv
<1> QED
  BY <1>2, <1>3, <1>4 DEF OrderInv, IsFresh, Several

(* The wire after a WRITE, and after a connection is closed.               *)
LEMMA WireEmpty ==
  ASSUME wire' = <<>>, written' \in Nat
  PROVE  \E q \in Nat : OnItsWay(q)'
<1>1. OnItsWay(0)'
  BY EmptyBuffer DEF OnItsWay
<1> QED
  BY <1>1

LEMMA WireLonger ==
  ASSUME PlainFeedInv, OrderInv, send_joint_feedback
  PROVE  /\ \E q \in Nat : OnItsWay(q)'
         /\ Len(wire') = Len(wire) + 5
<1> DEFINE w == OnWire(Snapshot(written'))
<1>1. /\ written' = written + 1 /\ written < MaxWrites /\ written \in Nat
      /\ wire' = wire \o w /\ wire \in Seq(WireBytes)
  BY DEF send_joint_feedback, ControllerWrites, PlainFeedInv, IInv, TypeOK
<1>2. written' \in 1 .. MaxWrites
  BY <1>1, ClientAssumption
<1>3. /\ w \in Seq(WireBytes) /\ Len(w) = 5
      /\ \A j \in 1 .. 5 : /\ w[j].byte = Snapshot(written')[j]
                           /\ w[j].last = (j = 5)
  BY <1>2, WrittenBytes
<1> HIDE DEF w
<1>4. /\ Len(wire') = Len(wire) + 5
      /\ \A i \in 1 .. Len(wire) + 5 :
           wire'[i] = IF i <= Len(wire) THEN wire[i] ELSE w[i - Len(wire)]
  <2>1. /\ Len(wire \o w) = Len(wire) + Len(w)
        /\ \A i \in 1 .. Len(wire) + Len(w) :
             (wire \o w)[i] = IF i <= Len(wire) THEN wire[i] ELSE w[i - Len(wire)]
    <3>1. wire \in Seq(WireBytes) /\ w \in Seq(WireBytes)
      BY <1>1, <1>3
    <3> QED
      BY <3>1, ConcatProperties
  <2> QED
    BY <1>1, <1>3, <2>1
<1>5. PICK q \in Nat : OnItsWay(q)
  BY DEF OrderInv
<1>6. /\ q <= written /\ Len(wire) = 5 * q
      /\ \A k \in 1 .. q, j \in 1 .. 5 :
           /\ wire[5 * (k - 1) + j].byte = Snapshot(written - q + k)[j]
           /\ wire[5 * (k - 1) + j].last = (j = 5)
  BY <1>5 DEF OnItsWay
<1>7. q + 1 <= written' /\ Len(wire') = 5 * (q + 1)
  BY <1>1, <1>4, <1>6
<1>8. ASSUME NEW k \in 1 .. q + 1, NEW j \in 1 .. 5
      PROVE  /\ wire'[5 * (k - 1) + j].byte = Snapshot(written' - (q + 1) + k)[j]
             /\ wire'[5 * (k - 1) + j].last = (j = 5)
  <2>1. written' - (q + 1) + k = written - q + k
    BY <1>1
  <2>2. CASE k <= q
    <3>1. 5 * (k - 1) + j \in 1 .. Len(wire) /\ k \in 1 .. q
      BY <1>6, <2>2
    <3>2. wire'[5 * (k - 1) + j] = wire[5 * (k - 1) + j]
      BY <1>4, <1>6, <3>1
    <3>3. /\ wire[5 * (k - 1) + j].byte = Snapshot(written - q + k)[j]
          /\ wire[5 * (k - 1) + j].last = (j = 5)
      BY <1>6, <3>1
    <3> QED
      BY <2>1, <3>2, <3>3
  <2>3. CASE k = q + 1
    <3>1. /\ 5 * (k - 1) + j \in 1 .. Len(wire) + 5
          /\ ~(5 * (k - 1) + j <= Len(wire)) /\ (5 * (k - 1) + j) - Len(wire) = j
      BY <1>6, <2>3
    <3> DEFINE i == 5 * (k - 1) + j
    <3>4. i \in 1 .. Len(wire) + 5 /\ ~(i <= Len(wire)) /\ i - Len(wire) = j
      BY <3>1
    <3> HIDE DEF i
    <3>5. wire'[i] = w[i - Len(wire)]
      BY <1>4, <3>4
    <3>2. wire'[5 * (k - 1) + j] = w[j]
      BY <3>4, <3>5 DEF i
    <3>3. written' - (q + 1) + k = written'
      BY <1>1, <2>3
    <3> QED
      BY <1>3, <3>2, <3>3
  <2> QED
    BY <2>2, <2>3
<1>9. OnItsWay(q + 1)'
  BY <1>7, <1>8 DEF OnItsWay
<1> QED
  BY <1>4, <1>9

(* recv: the next WRITE, or several.                                       *)
LEMMA ReceiveOrder ==
  ASSUME ~Splits, PlainFeedInv, OrderInv, ReceiveChunk(Worker),
         published' = published, worker' = "receive"
  PROVE  OrderInv'
<1> USE FeedbackThreads
<1>1. /\ written \in Nat /\ written <= MaxWrites /\ wire \in Seq(WireBytes)
      /\ chunk \in [Threads -> Seq(Bytes)]
  BY DEF PlainFeedInv, IInv, TypeOK, PlaceInv
<1>2. PICK n \in 1 .. Len(wire) :
        /\ MayEndAt(n)
        /\ chunk' = [chunk EXCEPT ![Worker] = [i \in 1 .. n |-> wire[i].byte]]
        /\ wire' = SubSeq(wire, n + 1, Len(wire))
  BY DEF ReceiveChunk
<1>3. PICK q \in Nat : OnItsWay(q)
  BY DEF OrderInv
<1>4. /\ q <= written /\ Len(wire) = 5 * q
      /\ \A k \in 1 .. q, j \in 1 .. 5 :
           /\ wire[5 * (k - 1) + j].byte = Snapshot(written - q + k)[j]
           /\ wire[5 * (k - 1) + j].last = (j = 5)
  BY <1>3 DEF OnItsWay
<1>5. PICK c \in 1 .. q : n = 5 * c
  BY <1>2, <1>3, WholeWrites
<1>6. written' = written
  BY DEF ReceiveChunk
<1>7. /\ Len(wire') = 5 * (q - c)
      /\ \A i \in 1 .. 5 * (q - c) : wire'[i] = wire[5 * c + i]
  <2>1. \A i \in 1 .. Len(wire) : wire[i] \in WireBytes
    BY <1>1, ElementOfSeq
  <2>2. n + 1 \in Int /\ Len(wire) \in Int /\ \A i \in n + 1 .. Len(wire) : wire[i] \in WireBytes
    BY <1>4, <2>1
  <2>3. /\ Len(SubSeq(wire, n + 1, Len(wire)))
             = IF n + 1 <= Len(wire) THEN Len(wire) - (n + 1) + 1 ELSE 0
        /\ \A i \in 1 .. Len(wire) - (n + 1) + 1 :
             SubSeq(wire, n + 1, Len(wire))[i] = wire[(n + 1) + i - 1]
    BY <2>2, SubSeqProperties
  <2>4. Len(wire) - (n + 1) + 1 = 5 * (q - c) /\ n + 1 <= Len(wire) + 1
    BY <1>4, <1>5
  <2>5. Len(wire') = 5 * (q - c)
    BY <1>2, <1>4, <1>5, <2>3, <2>4
  <2>6. ASSUME NEW i \in 1 .. 5 * (q - c) PROVE wire'[i] = wire[5 * c + i]
    <3>1. (n + 1) + i - 1 = 5 * c + i
      BY <1>5
    <3> QED
      BY <1>2, <2>3, <2>4, <3>1
  <2> QED
    BY <2>5, <2>6
<1>8. OnItsWay(q - c)'
  <2>1. q - c <= written' /\ Len(wire') = 5 * (q - c)
    BY <1>1, <1>4, <1>6, <1>7
  <2>2. ASSUME NEW k \in 1 .. q - c, NEW j \in 1 .. 5
        PROVE  /\ wire'[5 * (k - 1) + j].byte = Snapshot(written' - (q - c) + k)[j]
               /\ wire'[5 * (k - 1) + j].last = (j = 5)
    <3>1. /\ 5 * (k - 1) + j \in 1 .. 5 * (q - c) /\ c + k \in 1 .. q
          /\ 5 * c + (5 * (k - 1) + j) = 5 * ((c + k) - 1) + j
          /\ written' - (q - c) + k = written - q + (c + k)
      BY <1>1, <1>6
    <3>2. wire'[5 * (k - 1) + j] = wire[5 * ((c + k) - 1) + j]
      BY <1>7, <3>1
    <3>3. /\ wire[5 * ((c + k) - 1) + j].byte = Snapshot(written - q + (c + k))[j]
          /\ wire[5 * ((c + k) - 1) + j].last = (j = 5)
      BY <1>4, <3>1
    <3> QED
      BY <3>1, <3>2, <3>3
  <2> QED
    BY <2>1, <2>2 DEF OnItsWay
<1> DEFINE bytes == [i \in 1 .. n |-> wire[i].byte]
<1>9. chunk'[Worker] = bytes /\ Len(bytes) = n
  BY <1>1, <1>2, <1>4
<1>10. PICK next \in 1 .. MaxWrites : next = written - q + 1 /\ next \in 1 .. written
  <2>1. written - q + 1 \in 1 .. MaxWrites /\ written - q + 1 \in 1 .. written
    BY <1>1, <1>4, <1>5, ClientAssumption
  <2> QED
    BY <2>1
<1>11. \A j \in 1 .. 5 : bytes[j] = Snapshot(next)[j]
  <2> SUFFICES ASSUME NEW j \in 1 .. 5 PROVE bytes[j] = Snapshot(next)[j]
    OBVIOUS
  <2>1. 1 \in 1 .. q /\ 5 * (1 - 1) + j = j /\ j \in 1 .. n
    BY <1>5
  <2>2. wire[5 * (1 - 1) + j].byte = Snapshot(written - q + 1)[j]
    BY <1>4, <2>1
  <2> QED
    BY <1>10, <2>1, <2>2
<1>12. c = 1 => Fresh(next)' /\ bytes = Snapshot(next)
  <2> SUFFICES ASSUME c = 1 PROVE Fresh(next)' /\ bytes = Snapshot(next)
    OBVIOUS
  <2>1. bytes = Snapshot(next)
    <3>1. Snapshot(next) \in Seq(Bytes) /\ Len(Snapshot(next)) = 5
      BY <1>10, SnapshotIs
    <3>2. Snapshot(next) = [j \in 1 .. 5 |-> Snapshot(next)[j]]
      BY <3>1
    <3>3. bytes = [j \in 1 .. 5 |-> bytes[j]]
      BY <1>5
    <3> HIDE DEF bytes
    <3> QED
      BY <1>11, <3>2, <3>3
  <2>2. next \in 1 .. written' /\ 5 * next + Len(wire') <= 5 * written'
    BY <1>1, <1>4, <1>6, <1>7, <1>10
  <2>3. \A m \in 1 .. MaxWrites : published = Snapshot(m) => m < next
    <3> SUFFICES ASSUME NEW m \in 1 .. MaxWrites, published = Snapshot(m) PROVE m < next
      OBVIOUS
    <3>1. 5 * m + Len(wire) <= 5 * written
      BY DEF OrderInv, Taken
    <3> QED
      BY <1>1, <1>4, <1>10, <3>1
  <2> QED
    BY <2>1, <2>2, <2>3 DEF Fresh, Taken
<1>13. c # 1 => Several(bytes)
  <2> SUFFICES ASSUME c # 1 PROVE Several(bytes)
    OBVIOUS
  <2>1. 2 \in 1 .. q /\ 5 * (2 - 1) + 1 = 6 /\ 6 \in 1 .. n /\ written - q + 2 \in 1 .. MaxWrites
    BY <1>1, <1>4, <1>5, ClientAssumption
  <2>2. wire[5 * (2 - 1) + 1].byte = Snapshot(written - q + 2)[1]
    BY <1>4, <2>1
  <2>3. Snapshot(written - q + 2)[1] = Prefix
    BY <2>1, SnapshotIs
  <2> QED
    BY <1>9, <2>1, <2>2, <2>3 DEF Several
<1>14. \A m \in 1 .. MaxWrites : published' = Snapshot(m) => Taken(m)'
  <2> SUFFICES ASSUME NEW m \in 1 .. MaxWrites, published = Snapshot(m) PROVE Taken(m)'
    OBVIOUS
  <2>1. m \in 1 .. written /\ 5 * m + Len(wire) <= 5 * written
    BY DEF OrderInv, Taken
  <2>2. 5 * m + Len(wire') <= 5 * written'
    BY <1>1, <1>4, <1>6, <1>7, <2>1
  <2> QED
    BY <1>6, <2>1, <2>2 DEF Taken
<1> HIDE DEF bytes
<1>15. \/ \E m \in 1 .. MaxWrites : chunk'[Worker] = Snapshot(m) /\ Fresh(m)'
       \/ Several(chunk'[Worker])
  BY <1>9, <1>10, <1>12, <1>13
<1>16. \E k \in Nat : OnItsWay(k)'
  <2>1. q - c \in Nat
    BY <1>5
  <2> QED
    BY <1>8, <2>1
<1> QED
  BY <1>14, <1>15, <1>16 DEF OrderInv, IsFresh, Several

LEMMA OrderInit == FeedbackInit => OrderInv
<1> SUFFICES ASSUME FeedbackInit PROVE OrderInv
  OBVIOUS
<1> USE FeedbackThreads
<1>1. /\ wire = <<>> /\ written = 0 /\ step[Worker] = "idle" /\ worker = "loop"
      /\ published = <<>>
  BY DEF FeedbackInit, Init
<1>2. OnItsWay(0)
  BY <1>1, EmptyBuffer DEF OnItsWay
<1>3. \A m \in 1 .. MaxWrites : published # Snapshot(m)
  BY <1>1, EmptyBuffer, SnapshotIs
<1> QED
  BY <1>1, <1>2, <1>3 DEF OrderInv

LEMMA OrderStep ==
  ASSUME ~Splits
  PROVE  PlainFeedInv /\ OrderInv /\ [FeedbackNext]_feedbackVars => OrderInv'
<1> SUFFICES ASSUME PlainFeedInv, OrderInv, [FeedbackNext]_feedbackVars PROVE OrderInv'
  OBVIOUS
<1> USE FeedbackThreads
<1>1. /\ written \in Nat /\ Len(wire) \in Nat
      /\ step \in [Threads -> Steps] /\ chunk \in [Threads -> Seq(Bytes)]
      /\ result \in [Threads -> [kind : Kinds, text : Seq(Bytes)]]
      /\ step[Worker] # "idle" => worker \in {"connect", "receive"}
  BY DEF PlainFeedInv, IInv, TypeOK, PlaceInv
<1>2. ASSUME written' = written, wire' \in {wire, <<>>}
      PROVE  /\ \A n : Taken(n) => Taken(n)'
             /\ \E q \in Nat : OnItsWay(q)'
  <2>1. CASE wire' = wire
    <3>1. PICK q \in Nat : OnItsWay(q)
      BY DEF OrderInv
    <3>2. OnItsWay(q)'
      BY <1>2, <2>1, <3>1 DEF OnItsWay
    <3> QED
      BY <1>2, <2>1, <3>2 DEF Taken
  <2>2. CASE wire' = <<>>
    <3>1. Len(wire') = 0
      BY <2>2, EmptyBuffer
    <3>2. \A n : Taken(n) => Taken(n)'
      BY <1>1, <1>2, <3>1, TakenStays
    <3> QED
      BY <1>1, <1>2, <2>2, <3>2, WireEmpty
  <2> QED
    BY <1>2, <2>1, <2>2
<1>3. CASE send_joint_feedback
  <2>1. /\ written' = written + 1 /\ UNCHANGED <<published, step, chunk, worker, result>>
    BY <1>3 DEF send_joint_feedback, ControllerWrites, threadVars
  <2>2. \E q \in Nat : OnItsWay(q)' /\ Len(wire') = Len(wire) + 5
    BY <1>3, WireLonger
  <2>3. \A n : Taken(n) => Taken(n)'
    BY <1>1, <2>1, <2>2, TakenStays
  <2> QED
    BY <2>1, <2>2, <2>3, OrderStays
<1>4. CASE Connect
  <2>1. /\ wire' \in {wire, <<>>} /\ UNCHANGED <<written, chunk, published>>
        /\ step'[Worker] \in {"idle", "connecting"} /\ worker' # "publish"
    BY <1>4, ConnectIs DEF Dropped
  <2> QED
    BY <1>2, <2>1, OrderStays
<1>5. CASE Receive
  <2>1. CASE ReceiveChunk(Worker)
    <3>1. published' = published /\ step'[Worker] = "received" /\ worker' = "receive"
      BY <1>1, <1>5, <2>1, ReceiveIs DEF ReceiveChunk, Go
    <3> QED
      BY <2>1, <3>1, ReceiveOrder
  <2>2. CASE ~ReceiveChunk(Worker)
    <3>1. /\ UNCHANGED <<written, published>> /\ wire' \in {wire, <<>>}
          /\ step'[Worker] \in {"idle", "receiving"}
          /\ \/ worker' # "publish"
             \/ /\ step[Worker] = "received"
                /\ worker' = "publish" /\ result'[Worker] = Message(chunk[Worker])
                /\ IsJointMessage(chunk[Worker])
      BY <1>5, <2>2, ReceiveIs
    <3>2. CASE worker' # "publish"
      BY <1>2, <3>1, <3>2, OrderStays
    <3>3. CASE worker' = "publish"
      <4>1. ~Several(chunk[Worker])
        BY <1>1, <3>1, <3>3, SeveralAreRefused
      <4>2. PICK n \in 1 .. MaxWrites : chunk[Worker] = Snapshot(n) /\ Fresh(n)
        BY <3>1, <3>3, <4>1 DEF OrderInv, IsFresh
      <4>3. result'[Worker].text = Snapshot(n) /\ Fresh(n)'
        BY <1>2, <3>1, <3>3, <4>2 DEF Message, Fresh
      <4>4. \A m \in 1 .. MaxWrites : published' = Snapshot(m) => Taken(m)'
        BY <1>2, <3>1 DEF OrderInv
      <4>5. step'[Worker] # "received" /\ \E q \in Nat : OnItsWay(q)'
        BY <1>2, <3>1
      <4> QED
        BY <4>3, <4>4, <4>5 DEF OrderInv, IsFresh
    <3> QED
      BY <3>2, <3>3
  <2> QED
    BY <2>1, <2>2
<1>6. CASE Publish
  <2>1. /\ UNCHANGED clientVars /\ worker = "publish" /\ worker' # "publish"
        /\ published' \in {published, result[Worker].text}
    BY <1>6 DEF Publish
  <2>2. UNCHANGED <<written, wire, step, chunk, result>>
    BY <2>1 DEF clientVars, threadVars
  <2>3. (\A n : Taken(n) => Taken(n)') /\ \E q \in Nat : OnItsWay(q)'
    BY <1>2, <2>2
  <2>4. step'[Worker] # "received"
    BY <1>1, <2>1, <2>2
  <2>5. CASE published' = published
    BY <2>1, <2>3, <2>4, <2>5, OrderStays
  <2>6. CASE published' = result[Worker].text
    <3>1. PICK n \in 1 .. MaxWrites : published' = Snapshot(n) /\ Fresh(n)
      BY <2>1, <2>6 DEF OrderInv, IsFresh
    <3>2. \A m \in 1 .. MaxWrites : published' = Snapshot(m) => Taken(m)'
      <4> SUFFICES ASSUME NEW m \in 1 .. MaxWrites, published' = Snapshot(m)
                   PROVE  Taken(m)'
        OBVIOUS
      <4>1. m = n
        BY <3>1, SnapshotsDiffer
      <4> QED
        BY <2>3, <3>1, <4>1 DEF Fresh
    <3> QED
      BY <2>1, <2>3, <2>4, <3>2 DEF OrderInv
  <2> QED
    BY <2>1, <2>5, <2>6
<1>7. CASE CloseAfterError \/ DestroyCloses
  <2>1. PICK t \in Threads : /\ step' = [step EXCEPT ![t] = "idle"]
                             /\ result' = [result EXCEPT ![t] = Result("closed")]
                             /\ CloseAfterError => t = Worker
                             /\ DestroyCloses => t = Main
    BY <1>7 DEF CloseAfterError, DestroyCloses, close, Returns, Go
  <2>2. /\ wire' = <<>> /\ UNCHANGED <<written, chunk, published>>
        /\ \/ worker' = "wait"
           \/ worker' = worker /\ DestroyCloses
    BY <1>7 DEF CloseAfterError, DestroyCloses, close, DropConnection
  <2>3. step'[Worker] = "received" => step[Worker] = "received"
    BY <1>1, <2>1
  <2>4. worker' = "publish" => worker = "publish" /\ result'[Worker] = result[Worker]
    BY <1>1, <2>1, <2>2
  <2> QED
    BY <1>2, <2>2, <2>3, <2>4, OrderStays
<1>8. CASE \/ LoopCondition \/ WaitBackoff \/ Interrupt \/ DestroyNode
           \/ UNCHANGED feedbackVars
  <2>1. /\ UNCHANGED clientVars /\ published' = published
        /\ worker' = "publish" => worker = "publish"
    BY <1>8 DEF LoopCondition, WaitBackoff, Interrupt, DestroyNode, feedbackVars
  <2>2. UNCHANGED <<written, wire, step, chunk, result>>
    BY <2>1 DEF clientVars, threadVars
  <2> QED
    BY <1>2, <2>1, <2>2, OrderStays
<1> QED
  BY <1>3, <1>4, <1>5, <1>6, <1>7, <1>8 DEF FeedbackNext, WorkerStep

(* A message that is published is a WRITE later than the one before.        *)
LEMMA PublishesNext ==
  PlainFeedInv /\ OrderInv /\ [FeedbackNext]_feedbackVars =>
    (published' # published =>
       \E n \in 1 .. written :
         /\ published' = Snapshot(n)
         /\ \A m \in 1 .. written : published = Snapshot(m) => m < n)
<1> SUFFICES ASSUME PlainFeedInv, OrderInv, [FeedbackNext]_feedbackVars,
                    published' # published
             PROVE  \E n \in 1 .. written :
                      /\ published' = Snapshot(n)
                      /\ \A m \in 1 .. written : published = Snapshot(m) => m < n
  OBVIOUS
<1>1. Publish
  <2>1. ~send_joint_feedback /\ ~LoopCondition /\ ~Connect /\ ~Receive
    BY DEF send_joint_feedback, LoopCondition, Connect, Receive
  <2>2. ~CloseAfterError /\ ~WaitBackoff /\ ~Interrupt /\ ~DestroyCloses /\ ~DestroyNode
    BY DEF CloseAfterError, WaitBackoff, Interrupt, DestroyCloses, DestroyNode
  <2>3. ~UNCHANGED feedbackVars
    BY DEF feedbackVars
  <2> QED
    BY <2>1, <2>2, <2>3 DEF FeedbackNext, WorkerStep
<1>2. worker = "publish" /\ published' = result[Worker].text
  BY <1>1 DEF Publish
<1>3. PICK n \in 1 .. MaxWrites : published' = Snapshot(n) /\ Fresh(n)
  BY <1>2 DEF OrderInv, IsFresh
<1>4. written \in Nat /\ written <= MaxWrites
  BY DEF PlainFeedInv, IInv, TypeOK, PlaceInv
<1>5. n \in 1 .. written
  BY <1>3 DEF Fresh, Taken
<1>6. \A m \in 1 .. written : m \in 1 .. MaxWrites
  BY <1>4, ClientAssumption
<1>7. \A m \in 1 .. written : published = Snapshot(m) => m < n
  BY <1>3, <1>6 DEF Fresh
<1> QED
  BY <1>3, <1>5, <1>7

(* The feedback node, whose limit is one chunk only, never waits for the    *)
(* lock it holds either: with no delimiter in the stream its buffer stays   *)
(* empty.                                                                  *)
THEOREM FeedbackNoSelfBlock == FeedbackSpec => []NeverSelfBlocked
<1>1. PlainFeedInv => NeverSelfBlocked
  BY DEF PlainFeedInv, IInv, NeverSelfBlocked
<1> QED
  BY <1>1, FeedbackInitPlain, PlainStep, PTL DEF FeedbackSpec

(* The variables of the feedback node keep their types.                    *)
THEOREM FeedbackTypeCorrect == FeedbackSpec => []FeedbackTypeOK
<1>1. PlainFeedInv => FeedbackTypeOK
  BY DEF PlainFeedInv
<1> QED
  BY <1>1, FeedbackInitPlain, PlainStep, PTL DEF FeedbackSpec

(* When recv returns whole WRITEs, one or several, only single WRITEs are   *)
(* published, each later than the one before, for any number of them, lost  *)
(* connections and timeouts.                                               *)
THEOREM FeedbackInOrder == ASSUME ~Splits PROVE FeedbackSpec => PublishesInOrder
<1>1. PlainFeedInv /\ OrderInv /\ [FeedbackNext]_feedbackVars =>
        [published' # published =>
           \E n \in 1 .. written :
             /\ published' = Snapshot(n)
             /\ \A m \in 1 .. written : published = Snapshot(m) => m < n]_feedbackVars
  BY PublishesNext
<1> QED
  BY <1>1, FeedbackInitPlain, PlainStep, OrderInit, OrderStep, PTL
  DEF FeedbackSpec, PublishesInOrder

-----------------------------------------------------------------------------
(***************************************************************************)
(* The client as a channel.  First the ends of messages, by their rank;    *)
(* then what becomes of the messages when bytes are added, moved, taken    *)
(* from the front or dropped; then the steps of the client.                *)
(***************************************************************************)
Places == Nat \ {0}

LEMMA PlacesAre ==
  ASSUME NEW S \in SUBSET Places PROVE \A i \in S : i \in Nat /\ i > 0
BY DEF Places

LEMMA Ranks ==
  ASSUME NEW S \in SUBSET Places, IsFiniteSet(S)
  PROVE  /\ Cardinality(S) \in Nat
         /\ \A i \in S : Rank(S, i) \in 1 .. Cardinality(S)
         /\ \A i, j \in S : i < j => Rank(S, i) < Rank(S, j)
         /\ \A k \in 1 .. Cardinality(S) : \E i \in S : Rank(S, i) = k
<1> DEFINE n == Cardinality(S)
           Below(i) == {j \in S : j <= i}
<1>1. n \in Nat
  BY FS_CardinalityType
<1>2. ASSUME NEW i \in S
      PROVE  IsFiniteSet(Below(i)) /\ Rank(S, i) \in 1 .. n /\ Rank(S, i) = Cardinality(Below(i))
  <2>1. Below(i) \in SUBSET S /\ i \in Below(i)
    BY DEF Places
  <2>2. /\ IsFiniteSet(Below(i)) /\ Cardinality(Below(i)) <= n
        /\ Cardinality(Below(i)) \in Nat /\ Cardinality(Below(i)) # 0
    BY <2>1, FS_Subset, FS_CardinalityType, FS_EmptySet
  <2> HIDE DEF n
  <2> QED  BY <1>1, <2>2 DEF Rank
<1>6. \A i \in S : Rank(S, i) \in Nat
  <2> SUFFICES ASSUME NEW i \in S PROVE Rank(S, i) \in Nat  OBVIOUS
  <2>1. Rank(S, i) \in 1 .. n  BY <1>2
  <2> HIDE DEF n
  <2> QED  BY <1>1, <2>1
<1>3. ASSUME NEW i \in S, NEW j \in S, i < j
      PROVE  Rank(S, i) < Rank(S, j)
  <2>1. i \in Nat /\ j \in Nat /\ \A k \in S : k \in Nat
    BY PlacesAre
  <2>2. Below(i) \in SUBSET Below(j) /\ j \in Below(j) /\ j \notin Below(i)
    <3>1. \A k \in S : k <= i => k <= j
      BY <1>3, <2>1
    <3>2. j <= j /\ ~(j <= i)
      BY <1>3, <2>1
    <3> QED  BY <3>1, <3>2
  <2>3. /\ Cardinality(Below(i)) <= Cardinality(Below(j))
        /\ Cardinality(Below(j)) # Cardinality(Below(i))
    BY <1>2, <2>2, FS_Subset
  <2>4. Rank(S, i) \in Nat /\ Rank(S, j) \in Nat
    BY <1>1, <1>6
  <2> QED  BY <1>2, <2>3, <2>4
<1>4. ASSUME NEW k \in 1 .. n PROVE \E i \in S : Rank(S, i) = k
  <2> DEFINE f == [i \in S |-> Rank(S, i)]
  <2>1. f \in [S -> 1 .. n]
    BY <1>2
  <2>2. ASSUME NEW i \in S, NEW j \in S, f[i] = f[j] PROVE i = j
    <3>1. i \in Nat /\ j \in Nat /\ Rank(S, i) = Rank(S, j)
          /\ Rank(S, i) \in Nat /\ Rank(S, j) \in Nat
      <4>1. Rank(S, i) \in Nat /\ Rank(S, j) \in Nat
        BY <1>1, <1>6
      <4>2. Rank(S, i) = Rank(S, j)
        BY <2>2
      <4> QED  BY <4>1, <4>2, PlacesAre
    <3>2. ~(i < j) /\ ~(j < i)
      <4>1. ASSUME i < j PROVE FALSE
        <5>1. Rank(S, i) < Rank(S, j)  BY <1>3, <4>1
        <5> QED  BY <3>1, <5>1
      <4>2. ASSUME j < i PROVE FALSE
        <5>1. Rank(S, j) < Rank(S, i)  BY <1>3, <4>2
        <5> QED  BY <3>1, <5>1
      <4> QED  BY <4>1, <4>2
    <3> QED  BY <3>1, <3>2
  <2>3. f \in Injection(S, 1 .. n)
    BY <2>1, <2>2 DEF Injection, IsInjective
  <2>4. IsFiniteSet(1 .. n) /\ Cardinality(1 .. n) = n
    BY <1>1, FS_Interval
  <2> HIDE DEF f
  <2>5. f \in Surjection(S, 1 .. n)
    BY <2>3, <2>4, FS_Injection
  <2>6. \E i \in S : f[i] = k
    BY <2>5 DEF Surjection
  <2> QED  BY <2>6 DEF f
<1> QED  BY <1>1, <1>2, <1>3, <1>4

LEMMA NthIs ==
  ASSUME NEW S \in SUBSET Places, IsFiniteSet(S)
  PROVE  /\ Cardinality(S) \in Nat /\ Nth(S, 0) = 0
         /\ \A k \in 1 .. Cardinality(S) : Nth(S, k) \in S /\ Rank(S, Nth(S, k)) = k
         /\ \A i \in S : Nth(S, Rank(S, i)) = i
         /\ \A k \in 1 .. Cardinality(S) : Nth(S, k - 1) < Nth(S, k) /\ Nth(S, k - 1) \in Nat
<1>1. /\ Cardinality(S) \in Nat
      /\ \A i \in S : Rank(S, i) \in 1 .. Cardinality(S)
      /\ \A i, j \in S : i < j => Rank(S, i) < Rank(S, j)
      /\ \A k \in 1 .. Cardinality(S) : \E i \in S : Rank(S, i) = k
  BY Ranks
<1>2. \A k \in 1 .. Cardinality(S) : Nth(S, k) \in S /\ Rank(S, Nth(S, k)) = k
  BY <1>1 DEF Nth
<1>3. ASSUME NEW i \in S, NEW j \in S, Rank(S, i) <= Rank(S, j) PROVE i <= j
  <2>1. i \in Nat /\ j \in Nat /\ Rank(S, i) \in Nat /\ Rank(S, j) \in Nat
    BY <1>1 DEF Places
  <2>2. j < i => Rank(S, j) < Rank(S, i)
    BY <1>1
  <2> QED  BY <1>3, <2>1, <2>2
<1>4. ASSUME NEW i \in S PROVE Nth(S, Rank(S, i)) = i
  <2> DEFINE j == Nth(S, Rank(S, i))
  <2>1. Rank(S, i) \in 1 .. Cardinality(S)
    BY <1>1
  <2>2. j \in S /\ Rank(S, j) = Rank(S, i)
    BY <1>2, <2>1
  <2> HIDE DEF j
  <2>3. Rank(S, i) <= Rank(S, j) /\ Rank(S, j) <= Rank(S, i)
    BY <1>1, <2>1, <2>2
  <2>4. i <= j /\ j <= i
    BY <1>3, <2>2, <2>3
  <2>5. i \in Nat /\ j \in Nat
    BY <2>2 DEF Places
  <2> QED  BY <2>4, <2>5 DEF j
<1>5. ASSUME NEW k \in 1 .. Cardinality(S) PROVE Nth(S, k - 1) < Nth(S, k) /\ Nth(S, k - 1) \in Nat
  <2>1. Nth(S, k) \in S /\ Rank(S, Nth(S, k)) = k /\ Nth(S, k) \in Nat \ {0}
    BY <1>2 DEF Places
  <2>2. CASE k = 1
    BY <2>1, <2>2 DEF Nth
  <2>3. CASE k # 1
    <3>1. k - 1 \in 1 .. Cardinality(S)
      BY <1>1, <2>3
    <3>2. Nth(S, k - 1) \in S /\ Rank(S, Nth(S, k - 1)) = k - 1
      BY <1>2, <3>1
    <3>3. Nth(S, k - 1) \in Nat
      BY <3>2, PlacesAre
    <3>4. Nth(S, k - 1) # Nth(S, k)
      BY <2>1, <3>2
    <3>5. ~(Nth(S, k) < Nth(S, k - 1))
      <4>1. Nth(S, k) < Nth(S, k - 1) => k < k - 1
        BY <1>1, <2>1, <3>2
      <4> QED  BY <1>1, <4>1
    <3> QED  BY <2>1, <3>3, <3>4, <3>5
  <2> QED  BY <2>2, <2>3
<1>6. Nth(S, 0) = 0
  BY DEF Nth
<1> QED  BY <1>1, <1>2, <1>4, <1>5, <1>6

(* The ends up to some place, and those after the first end.                *)
LEMMA NthOfPart ==
  ASSUME NEW S \in SUBSET Places, IsFiniteSet(S), NEW T \in SUBSET S,
         \A i \in T : \A j \in S : j <= i => j \in T, NEW k \in 0 .. Cardinality(T)
  PROVE  Nth(T, k) = Nth(S, k) /\ Cardinality(T) <= Cardinality(S) /\ Cardinality(T) \in Nat
<1>1. T \in SUBSET S /\ T \in SUBSET Places
  OBVIOUS
<1>2. /\ IsFiniteSet(T) /\ Cardinality(T) <= Cardinality(S)
      /\ Cardinality(T) \in Nat /\ Cardinality(S) \in Nat
  BY <1>1, FS_Subset, FS_CardinalityType
<1>3. CASE k = 0
  BY <1>2, <1>3 DEF Nth
<1>4. CASE k # 0
  <2> DEFINE i == Nth(T, k)
  <2>1. k \in 1 .. Cardinality(T)
    BY <1>2, <1>4
  <2>2. i \in T /\ Rank(T, i) = k
    BY <1>1, <1>2, <2>1, NthIs
  <2> HIDE DEF i
  <2>3. {j \in T : j <= i} = {j \in S : j <= i}
    <3>1. \A j \in S : j <= i => j \in T
      BY <2>2
    <3> QED  BY <3>1
  <2>4. Rank(S, i) = k
    BY <2>2, <2>3 DEF Rank
  <2>5. Nth(S, Rank(S, i)) = i
    BY <1>1, <2>2, NthIs
  <2> QED  BY <1>2, <2>4, <2>5 DEF i
<1> QED  BY <1>3, <1>4

LEMMA NthAfterFirst ==
  ASSUME NEW S \in SUBSET Places, IsFiniteSet(S), NEW e \in S, \A j \in S : e <= j,
         NEW T \in SUBSET Places, \A i \in Places : i \in T <=> i + e \in S
  PROVE  /\ Cardinality(S) \in Nat /\ Cardinality(S) = Cardinality(T) + 1
         /\ IsFiniteSet(T) /\ Nth(S, 1) = e
         /\ \A k \in 0 .. Cardinality(T) : Nth(S, k + 1) = Nth(T, k) + e
<1>0. e \in Nat \ {0} /\ Cardinality(S) \in Nat
  BY FS_CardinalityType DEF Places
<1>1. ASSUME NEW A, NEW B, A \in SUBSET S, IsFiniteSet(A), e \in A, B = {i \in Places : i + e \in A}
      PROVE  IsFiniteSet(B) /\ Cardinality(A) = Cardinality(B) + 1 /\ Cardinality(B) \in Nat
  <2> DEFINE R == A \ {e}
             f == [j \in R |-> j - e]
  <2>1. IsFiniteSet(R) /\ Cardinality(R) = Cardinality(A) - 1 /\ Cardinality(A) \in Nat
    BY <1>1, FS_RemoveElement, FS_CardinalityType
  <2>2. \A j \in R : j \in Nat /\ j > e /\ j - e \in B
    <3> SUFFICES ASSUME NEW j \in R PROVE j \in Nat /\ j > e /\ j - e \in B  OBVIOUS
    <3>1. j \in S /\ j # e /\ j \in A  BY <1>1
    <3>2. j \in Nat /\ e <= j  BY <3>1 DEF Places
    <3>3. j - e \in Nat \ {0} /\ j - e + e = j  BY <1>0, <3>1, <3>2
    <3> QED  BY <1>1, <3>1, <3>2, <3>3 DEF Places
  <2>3. f \in [R -> B]
    BY <2>2
  <2>4. \A i, j \in R : f[i] = f[j] => i = j
    BY <1>0, <2>2
  <2>5. \A i \in B : \E j \in R : f[j] = i
    <3> SUFFICES ASSUME NEW i \in B PROVE \E j \in R : f[j] = i  OBVIOUS
    <3>1. i \in Nat \ {0} /\ i + e \in A  BY <1>1 DEF Places
    <3>2. i + e # e /\ (i + e) - e = i  BY <1>0, <3>1
    <3>3. i + e \in R  BY <3>1, <3>2
    <3>4. f[i + e] = (i + e) - e  BY <3>3
    <3>5. f[i + e] = i  BY <3>2, <3>4
    <3> HIDE DEF f, R
    <3> QED  BY <3>3, <3>5
  <2>6. f \in Bijection(R, B)
    BY <2>3, <2>4, <2>5 DEF Bijection, Injection, IsInjective, Surjection
  <2>7. IsFiniteSet(B) /\ Cardinality(B) = Cardinality(R)
    <3>1. ExistsBijection(R, B)  BY <2>6 DEF ExistsBijection
    <3> QED  BY <2>1, <3>1, FS_Bijection
  <2>8. Cardinality(B) \in Nat
    BY <2>7, FS_CardinalityType
  <2> QED  BY <2>1, <2>7, <2>8
<1>2. IsFiniteSet(T) /\ Cardinality(S) = Cardinality(T) + 1 /\ Cardinality(T) \in Nat
  <2>1. T = {i \in Places : i + e \in S}
    OBVIOUS
  <2> QED  BY <1>1, <2>1
<1>3. Rank(S, e) = 1
  <2>1. {j \in S : j <= e} = {e}
    <3>1. \A j \in S : j <= e => j = e
      BY <1>0, PlacesAre
    <3>2. e <= e
      BY <1>0
    <3>3. {j \in S : j <= e} \subseteq {e}
      BY <3>1
    <3>4. e \in {j \in S : j <= e}
      BY <3>2
    <3> QED  BY <3>3, <3>4
  <2> QED  BY <2>1, FS_Singleton DEF Rank
<1>4. Nth(S, 1) = e
  BY <1>3, NthIs
<1>5. ASSUME NEW k \in 0 .. Cardinality(T) PROVE Nth(S, k + 1) = Nth(T, k) + e
  <2>1. CASE k = 0
    BY <1>0, <1>4, <2>1 DEF Nth
  <2>2. CASE k # 0
    <3> DEFINE i == Nth(T, k)
               A == {j \in S : j <= i + e}
               B == {j \in T : j <= i}
    <3>1. T \in SUBSET Places /\ k \in 1 .. Cardinality(T)
      BY <1>2, <2>2
    <3>2. i \in T /\ Rank(T, i) = k
      BY <1>2, <3>1, NthIs
    <3> HIDE DEF i
    <3>3. i \in Nat \ {0} /\ i + e \in S
      BY <3>2 DEF Places
    <3>4. A \in SUBSET S /\ IsFiniteSet(A) /\ e \in A
      <4>1. A \in SUBSET S /\ e \in A  BY <1>0, <3>3
      <4> QED  BY <4>1, FS_Subset
    <3>5. B = {j \in Places : j + e \in A}
      <4>1. \A j \in Places : j + e <= i + e <=> j <= i
        BY <1>0, <3>3 DEF Places
      <4> QED  BY <4>1
    <3> HIDE DEF A, B
    <3>6. Cardinality(A) = Cardinality(B) + 1
      BY <1>1, <3>4, <3>5
    <3>7. Rank(S, i + e) = k + 1
      BY <3>2, <3>6 DEF Rank, A, B
    <3>8. Nth(S, Rank(S, i + e)) = i + e
      BY <3>3, NthIs
    <3> QED  BY <3>7, <3>8 DEF i
  <2> QED  BY <2>1, <2>2
<1> QED  BY <1>0, <1>2, <1>4, <1>5

LEMMA LastNth ==
  ASSUME NEW S \in SUBSET Places, IsFiniteSet(S), NEW l \in S, \A i \in S : i <= l
  PROVE  Nth(S, Cardinality(S)) = l
<1>1. {i \in S : i <= l} = S
  OBVIOUS
<1>2. Rank(S, l) = Cardinality(S)
  BY <1>1 DEF Rank
<1> QED  BY <1>2, NthIs

LEMMA EndsAre ==
  ASSUME NEW B \in Seq(WireBytes)
  PROVE  /\ Ends(B) \in SUBSET Places /\ IsFiniteSet(Ends(B)) /\ Len(B) \in Nat
         /\ \A i \in Ends(B) : i \in 1 .. Len(B)
<1>1. Len(B) \in Nat /\ Ends(B) \in SUBSET (1 .. Len(B))
  BY DEF Ends
<1>2. IsFiniteSet(1 .. Len(B))
  BY <1>1, FS_Interval
<1>3. Ends(B) \in SUBSET Places
  BY <1>1 DEF Places
<1> QED  BY <1>1, <1>2, <1>3, FS_Subset

(* The n bytes of C after a are those of B after c.                         *)
SameBytes(C, a, B, c, n) == \A i \in 1 .. n : C[a + i].byte = B[c + i].byte

LEMMA TextSame ==
  ASSUME NEW B \in Seq(WireBytes), NEW C \in Seq(WireBytes), NEW a \in Nat,
         NEW b \in Nat, NEW c \in Nat, NEW d \in Nat, NEW n \in Nat, n > 0,
         b = a + n, d = c + n, SameBytes(C, a, B, c, n)
  PROVE  TextOf(C, a, b) = TextOf(B, c, d)
<1> DEFINE m == IF C[b].byte = Delim THEN b - a - 1 ELSE b - a
<1>1. \A i \in 1 .. n : C[a + i].byte = B[c + i].byte
  BY DEF SameBytes
<1>2. C[b].byte = B[d].byte
  <2>1. n \in 1 .. n
    OBVIOUS
  <2> QED  BY <1>1, <2>1
<1>3. m = IF B[d].byte = Delim THEN d - c - 1 ELSE d - c
  BY <1>2
<1>4. m \in Nat /\ m <= n
  OBVIOUS
<1> HIDE DEF m
<1>5. \A i \in 1 .. m : C[a + i].byte = B[c + i].byte
  BY <1>1, <1>4
<1>6. TextOf(C, a, b) = [i \in 1 .. m |-> C[a + i].byte]
  BY DEF TextOf, m
<1>7. TextOf(B, c, d) = [i \in 1 .. m |-> B[c + i].byte]
  BY <1>3 DEF TextOf
<1> QED  BY <1>5, <1>6, <1>7

LEMMA MessagesAre ==
  ASSUME NEW B \in Seq(WireBytes), NEW n, n = Cardinality(Ends(B))
  PROVE  /\ n \in Nat /\ Len(MessagesOf(B)) = n
         /\ MessagesOf(B) \in Seq(Seq(Bytes))
         /\ \A k \in 1 .. n :
              MessagesOf(B)[k] = TextOf(B, Nth(Ends(B), k - 1), Nth(Ends(B), k))
<1>1. Ends(B) \in SUBSET Places /\ IsFiniteSet(Ends(B)) /\ Len(B) \in Nat
      /\ \A i \in Ends(B) : i \in 1 .. Len(B)
  BY EndsAre
<1>2. n \in Nat
  BY <1>1, FS_CardinalityType
<1>3. ASSUME NEW k \in 1 .. n
      PROVE  TextOf(B, Nth(Ends(B), k - 1), Nth(Ends(B), k)) \in Seq(Bytes)
  <2> DEFINE a == Nth(Ends(B), k - 1)
             b == Nth(Ends(B), k)
  <2>1. b \in Ends(B) /\ a < b /\ a \in Nat
    BY <1>1, NthIs
  <2>2. b \in 1 .. Len(B)
    BY <1>1, <2>1
  <2> HIDE DEF a, b
  <2>3. b - a \in Nat /\ b - a - 1 \in Nat
    BY <1>1, <2>1, <2>2
  <2>4. ASSUME NEW i \in 1 .. b - a PROVE B[a + i].byte \in Bytes
    <3>1. a + i \in 1 .. Len(B)
      BY <1>1, <2>1, <2>2
    <3>2. B[a + i] \in WireBytes
      BY <3>1, ElementOfSeq
    <3> QED  BY <3>2 DEF WireBytes
  <2>5. ASSUME NEW m \in Nat, m <= b - a PROVE [i \in 1 .. m |-> B[a + i].byte] \in Seq(Bytes)
    <3>1. \A i \in 1 .. m : i \in 1 .. b - a
      BY <2>3, <2>5
    <3>2. \A i \in 1 .. m : B[a + i].byte \in Bytes
      BY <3>1, <2>4
    <3> QED  BY <3>2, SeqDef
  <2> QED  BY <2>3, <2>5 DEF TextOf, a, b
<1>4. MessagesOf(B) = [k \in 1 .. n |-> TextOf(B, Nth(Ends(B), k - 1), Nth(Ends(B), k))]
  BY DEF MessagesOf
<1>5. MessagesOf(B) \in Seq(Seq(Bytes))
  BY <1>2, <1>3, <1>4, SeqDef
<1>6. Len(MessagesOf(B)) = n
  BY <1>2, <1>4, <1>5, LenProperties
<1> QED  BY <1>2, <1>4, <1>5, <1>6

(* Of a prefix with the same ends, the messages are the first ones.         *)
LEMMA FirstMessages ==
  ASSUME NEW B \in Seq(WireBytes), NEW C \in Seq(WireBytes), Len(C) <= Len(B),
         \A i \in 1 .. Len(C) : C[i].byte = B[i].byte,
         \A i \in 1 .. Len(C) : i \in Ends(C) <=> i \in Ends(B)
  PROVE  /\ Cardinality(Ends(C)) \in 0 .. Len(MessagesOf(B))
         /\ MessagesOf(C) = SubSeq(MessagesOf(B), 1, Cardinality(Ends(C)))
<1> DEFINE n == Cardinality(Ends(B))
           m == Cardinality(Ends(C))
<1>1. /\ Ends(B) \in SUBSET Places /\ IsFiniteSet(Ends(B)) /\ Len(B) \in Nat
      /\ Ends(C) \in SUBSET Places /\ IsFiniteSet(Ends(C)) /\ Len(C) \in Nat
      /\ \A i \in Ends(C) : i \in 1 .. Len(C)
  BY EndsAre
<1>2. /\ Len(MessagesOf(B)) = n /\ MessagesOf(B) \in Seq(Seq(Bytes)) /\ n \in Nat
      /\ \A k \in 1 .. n :
           MessagesOf(B)[k] = TextOf(B, Nth(Ends(B), k - 1), Nth(Ends(B), k))
  BY MessagesAre
<1>3. /\ Len(MessagesOf(C)) = m /\ MessagesOf(C) \in Seq(Seq(Bytes)) /\ m \in Nat
      /\ \A k \in 1 .. m :
           MessagesOf(C)[k] = TextOf(C, Nth(Ends(C), k - 1), Nth(Ends(C), k))
  BY MessagesAre
<1>4. ASSUME NEW k \in 0 .. m
      PROVE  Nth(Ends(C), k) = Nth(Ends(B), k) /\ m <= n
  <2>1. Ends(C) \in SUBSET Ends(B)
    BY <1>1
  <2>2. \A i \in Ends(C) : \A j \in Ends(B) : j <= i => j \in Ends(C)
    <3> SUFFICES ASSUME NEW i \in Ends(C), NEW j \in Ends(B), j <= i
                 PROVE  j \in 1 .. Len(C)
      OBVIOUS
    <3>1. i \in 1 .. Len(C) /\ j \in Nat /\ j > 0
      BY <1>1, PlacesAre
    <3> QED  BY <1>1, <3>1
  <2> QED  BY <1>1, <2>1, <2>2, NthOfPart
<1>5. m <= n
  <2>1. 0 \in 0 .. m
    BY <1>3
  <2> QED  BY <1>4, <2>1
<1>6. ASSUME NEW k \in 1 .. m PROVE MessagesOf(C)[k] = MessagesOf(B)[k]
  <2> DEFINE a == Nth(Ends(C), k - 1)
             b == Nth(Ends(C), k)
  <2>1. b \in Ends(C) /\ a < b /\ a \in Nat
    BY <1>1, NthIs
  <2>2. b \in 1 .. Len(C)
    BY <1>1, <2>1
  <2>3. k \in 1 .. n /\ k \in 0 .. m /\ k - 1 \in 0 .. m
    BY <1>2, <1>3, <1>5
  <2>4. a = Nth(Ends(B), k - 1) /\ b = Nth(Ends(B), k)
    BY <1>4, <2>3
  <2>5. MessagesOf(C)[k] = TextOf(C, a, b) /\ MessagesOf(B)[k] = TextOf(B, a, b)
    BY <1>2, <1>3, <2>3, <2>4
  <2> HIDE DEF a, b, m, n
  <2> DEFINE h == b - a
  <2>6. b \in Nat /\ h \in Nat /\ h > 0 /\ b = a + h
    BY <1>1, <2>1, <2>2
  <2>7. \A i \in 1 .. h : a + i \in 1 .. Len(C)
    BY <1>1, <2>1, <2>2
  <2> HIDE DEF h
  <2>8. SameBytes(C, a, B, a, h)
    BY <2>7 DEF SameBytes
  <2>9. TextOf(C, a, b) = TextOf(B, a, b)
    BY <2>1, <2>6, <2>8, TextSame
  <2> QED  BY <2>5, <2>9
<1> DEFINE s == SubSeq(MessagesOf(B), 1, m)
<1> HIDE DEF m, n
<1>7. 1 \in Int /\ m \in Int /\ \A i \in 1 .. m : i \in 1 .. Len(MessagesOf(B))
  BY <1>2, <1>3, <1>5
<1>8. \A i \in 1 .. m : MessagesOf(B)[i] \in Seq(Bytes)
  BY <1>2, <1>7, ElementOfSeq
<1>9. /\ s \in Seq(Seq(Bytes)) /\ Len(s) = (IF 1 <= m THEN m - 1 + 1 ELSE 0)
      /\ \A i \in 1 .. m - 1 + 1 : s[i] = MessagesOf(B)[1 + i - 1]
  BY <1>7, <1>8, SubSeqProperties
<1> HIDE DEF s
<1>10. Len(s) = m /\ \A i \in 1 .. m : s[i] = MessagesOf(B)[i]
  <2>1. m - 1 + 1 = m /\ \A i \in 1 .. m : 1 + i - 1 = i
    BY <1>3
  <2> QED  BY <1>3, <1>9, <2>1
<1>11. MessagesOf(C) = s
  BY <1>3, <1>6, <1>9, <1>10, SeqEqual
<1> QED  BY <1>2, <1>3, <1>5, <1>11 DEF s, m

(* C is B and more bytes, with one more end, the last place.               *)
IsMore(C, B) ==
  /\ Len(B) < Len(C) /\ \A i \in 1 .. Len(B) : B[i].byte = C[i].byte
  /\ \A i \in 1 .. Len(C) : i \in Ends(C) <=> i \in Ends(B) \/ i = Len(C)

LEMMA OneMore ==
  ASSUME NEW B \in Seq(WireBytes), NEW C \in Seq(WireBytes), IsMore(C, B),
         B = <<>> \/ Len(B) \in Ends(B)
  PROVE  MessagesOf(C) = Append(MessagesOf(B), TextOf(C, Len(B), Len(C)))
<1>0. /\ Len(B) < Len(C) /\ \A i \in 1 .. Len(B) : B[i].byte = C[i].byte
      /\ \A i \in 1 .. Len(C) : i \in Ends(C) <=> i \in Ends(B) \/ i = Len(C)
  BY DEF IsMore
<1> DEFINE n == Cardinality(Ends(B))
           l == Len(B)
           h == Len(C)
           x == TextOf(C, l, h)
           P == MessagesOf(B)
           Q == MessagesOf(C)
<1>1. /\ Ends(B) \in SUBSET Places /\ IsFiniteSet(Ends(B)) /\ l \in Nat
      /\ Ends(C) \in SUBSET Places /\ IsFiniteSet(Ends(C)) /\ h \in Nat
      /\ \A i \in Ends(C) : i \in 1 .. h
      /\ \A i \in Ends(B) : i \in 1 .. l
  BY EndsAre
<1>2. /\ Len(P) = n /\ P \in Seq(Seq(Bytes)) /\ n \in Nat
  BY MessagesAre
<1>3. Cardinality(Ends(C)) = n + 1 /\ h \in Ends(C)
  <2>1. h \notin Ends(B) /\ h \in 1 .. h /\ \A i \in Ends(B) : i \in 1 .. h
    BY <1>0, <1>1
  <2>2. Ends(C) = Ends(B) \cup {h}
    BY <1>0, <1>1, <2>1
  <2> QED  BY <1>1, <2>1, <2>2, FS_AddElement
<1>4. /\ Len(Q) = n + 1 /\ Q \in Seq(Seq(Bytes))
      /\ \A k \in 1 .. n + 1 : Q[k] = TextOf(C, Nth(Ends(C), k - 1), Nth(Ends(C), k))
  BY <1>3, MessagesAre
<1>5. /\ n \in 0 .. Len(Q) /\ P = SubSeq(Q, 1, n)
  <2>1. \A i \in 1 .. l : i \in 1 .. h /\ i # h
    BY <1>0, <1>1
  <2>2. \A i \in 1 .. l : i \in Ends(B) <=> i \in Ends(C)
    BY <1>0, <2>1
  <2>3. l <= h
    BY <1>0, <1>1
  <2> HIDE DEF P, Q
  <2>4. n \in 0 .. Len(MessagesOf(C)) /\ MessagesOf(B) = SubSeq(MessagesOf(C), 1, n)
    BY <1>0, <2>2, <2>3, FirstMessages
  <2> QED  BY <2>4 DEF P, Q
<1>6. Nth(Ends(C), n + 1) = h
  <2>1. \A i \in Ends(C) : i <= h
    BY <1>0, <1>1
  <2> QED  BY <1>1, <1>3, <2>1, LastNth
<1>7. Nth(Ends(C), n) = l
  <2>1. CASE B = <<>>
    <3>1. l = 0 /\ Ends(B) = {}
      BY <1>0, <1>1, <2>1
    <3>2. n = 0
      BY <3>1, FS_EmptySet
    <3> QED  BY <3>1, <3>2 DEF Nth
  <2>2. CASE l \in Ends(B)
    <3>1. \A i \in Ends(B) : i <= l
      BY <1>0, <1>1
    <3>2. Nth(Ends(B), n) = l
      BY <1>1, <2>2, <3>1, LastNth
    <3>3. \A i \in Ends(B) : \A j \in Ends(C) : j <= i => j \in Ends(B)
      <4> SUFFICES ASSUME NEW i \in Ends(B), NEW j \in Ends(C), j <= i
                   PROVE  j \in Ends(B)
        OBVIOUS
      <4>1. i \in 1 .. l /\ j \in 1 .. h
        BY <1>0, <1>1
      <4>2. j # h
        BY <1>0, <1>1, <4>1
      <4> QED  BY <1>0, <4>1, <4>2
    <3>4. n \in 0 .. n
      BY <1>2
    <3>5. Ends(B) \in SUBSET Ends(C)
      <4>1. \A i \in Ends(B) : i \in 1 .. h
        BY <1>0, <1>1
      <4> QED  BY <1>0, <4>1
    <3>6. Nth(Ends(B), n) = Nth(Ends(C), n)
      BY <1>1, <3>3, <3>4, <3>5, NthOfPart
    <3> QED  BY <3>2, <3>6
  <2> QED  BY <2>1, <2>2
<1>8. Q[n + 1] = x
  <2>1. n + 1 \in 1 .. n + 1 /\ (n + 1) - 1 = n
    BY <1>2
  <2> QED  BY <1>4, <1>6, <1>7, <2>1
<1> HIDE DEF P, Q, n, l, h, x
<1>9. x \in Seq(Bytes)
  <2>1. n + 1 \in 1 .. Len(Q)
    BY <1>2, <1>4
  <2> QED  BY <1>4, <1>8, <2>1, ElementOfSeq
<1>10. \A i \in 1 .. n : P[i] = Q[i]
  <2>1. \A i \in 1 .. n : Q[i] \in Seq(Bytes)
    BY <1>2, <1>4, ElementOfSeq
  <2>2. \A i \in 1 .. n - 1 + 1 : SubSeq(Q, 1, n)[i] = Q[1 + i - 1]
    BY <1>2, <2>1, SubSeqProperties
  <2>3. n - 1 + 1 = n /\ \A i \in 1 .. n : 1 + i - 1 = i
    BY <1>2
  <2> QED  BY <1>5, <2>2, <2>3
<1>11. /\ Append(P, x) \in Seq(Seq(Bytes)) /\ Len(Append(P, x)) = n + 1
       /\ \A i \in 1 .. n : Append(P, x)[i] = P[i]
       /\ Append(P, x)[n + 1] = x
  <2>1. P \in Seq(Seq(Bytes)) /\ Len(P) = n
    BY <1>2
  <2>2. /\ Append(P, x) \in Seq(Seq(Bytes)) /\ Len(Append(P, x)) = Len(P) + 1
        /\ \A i \in 1 .. Len(P) : Append(P, x)[i] = P[i]
        /\ Append(P, x)[Len(P) + 1] = x
    BY <1>9, <2>1, AppendProperties
  <2> QED  BY <2>1, <2>2
<1>12. \A i \in 1 .. n + 1 : Q[i] = Append(P, x)[i]
  BY <1>2, <1>8, <1>10, <1>11
<1>13. Q = Append(P, x)
  BY <1>2, <1>4, <1>11, <1>12, SeqEqual
<1> QED  BY <1>13 DEF P, Q, x, l, h

(* C is B from place e on.                                                 *)
IsRest(C, B, e) ==
  /\ Len(C) = Len(B) - e
  /\ \A i \in 1 .. Len(C) :
       C[i].byte = B[e + i].byte /\ (i \in Ends(C) <=> e + i \in Ends(B))

(* Taking the bytes up to the first end takes the first message.            *)
LEMMA OneLess ==
  ASSUME NEW B \in Seq(WireBytes), NEW C \in Seq(WireBytes), NEW e \in Ends(B),
         \A i \in Ends(B) : e <= i, IsRest(C, B, e)
  PROVE  /\ MessagesOf(B) # <<>>
         /\ Head(MessagesOf(B)) = TextOf(B, 0, e)
         /\ MessagesOf(C) = Tail(MessagesOf(B))
<1> DEFINE n == Cardinality(Ends(C))
           P == MessagesOf(B)
           Q == MessagesOf(C)
<1>0. /\ Len(C) = Len(B) - e
      /\ \A i \in 1 .. Len(C) :
           C[i].byte = B[e + i].byte /\ (i \in Ends(C) <=> e + i \in Ends(B))
  BY DEF IsRest
<1>1. /\ Ends(B) \in SUBSET Places /\ IsFiniteSet(Ends(B)) /\ Len(B) \in Nat
      /\ Ends(C) \in SUBSET Places /\ IsFiniteSet(Ends(C)) /\ Len(C) \in Nat
      /\ \A i \in Ends(C) : i \in 1 .. Len(C)
      /\ e \in 1 .. Len(B)
  BY EndsAre
<1>2. /\ Cardinality(Ends(B)) = n + 1 /\ Nth(Ends(B), 1) = e
      /\ \A k \in 0 .. n : Nth(Ends(B), k + 1) = Nth(Ends(C), k) + e
  <2>1. \A i \in Places : i \in Ends(C) <=> i + e \in Ends(B)
    <3> SUFFICES ASSUME NEW i \in Places PROVE i \in Ends(C) <=> i + e \in Ends(B)
      OBVIOUS
    <3>1. i \in Nat /\ i > 0 /\ i + e = e + i
      BY <1>1 DEF Places
    <3>2. i + e \in 1 .. Len(B) => i \in 1 .. Len(C)
      BY <1>0, <1>1, <3>1
    <3>3. i \in Ends(C) => i \in 1 .. Len(C)
      BY <1>1
    <3>4. i + e \in Ends(B) => i + e \in 1 .. Len(B)
      BY <1>1, <3>1, EndsAre
    <3> QED  BY <1>0, <3>1, <3>2, <3>3, <3>4
  <2> QED  BY <1>1, <2>1, NthAfterFirst
<1>3. /\ Len(P) = n + 1 /\ P \in Seq(Seq(Bytes))
      /\ \A k \in 1 .. n + 1 : P[k] = TextOf(B, Nth(Ends(B), k - 1), Nth(Ends(B), k))
  BY <1>2, MessagesAre
<1>4. /\ Len(Q) = n /\ Q \in Seq(Seq(Bytes)) /\ n \in Nat
      /\ \A k \in 1 .. n : Q[k] = TextOf(C, Nth(Ends(C), k - 1), Nth(Ends(C), k))
  BY MessagesAre
<1>5. P # <<>> /\ Head(P) = P[1]
  <2>1. Len(P) # 0
    BY <1>3, <1>4
  <2> HIDE DEF P
  <2>2. P # <<>>
    BY <2>1, EmptySeq
  <2> QED  BY <2>2
<1>6. P[1] = TextOf(B, 0, e)
  <2>1. 1 \in 1 .. n + 1 /\ 1 - 1 = 0
    BY <1>4
  <2>2. Nth(Ends(B), 0) = 0
    BY DEF Nth
  <2> QED  BY <1>2, <1>3, <2>1, <2>2
<1>7. ASSUME NEW k \in 1 .. n PROVE Q[k] = P[k + 1]
  <2> DEFINE a == Nth(Ends(C), k - 1)
             b == Nth(Ends(C), k)
  <2>1. b \in Ends(C) /\ a < b /\ a \in Nat
    BY <1>1, NthIs
  <2>2. b \in 1 .. Len(C)
    BY <1>1, <2>1
  <2>3. k + 1 \in 1 .. n + 1 /\ k - 1 \in 0 .. n /\ k \in 0 .. n /\ k - 1 + 1 = k /\ (k + 1) - 1 = k
    BY <1>4
  <2>4. Nth(Ends(B), k) = a + e /\ Nth(Ends(B), k + 1) = b + e
    BY <1>2, <2>3
  <2>5. Q[k] = TextOf(C, a, b) /\ P[k + 1] = TextOf(B, a + e, b + e)
    BY <1>3, <1>4, <2>3, <2>4
  <2> HIDE DEF a, b, n, P, Q
  <2> DEFINE c == a + e
             d == b + e
             h == b - a
  <2>6. /\ a \in Nat /\ b \in Nat /\ c \in Nat /\ d \in Nat
        /\ h \in Nat /\ h > 0 /\ b = a + h /\ d = c + h
    BY <1>1, <2>1, <2>2
  <2>7. \A i \in 1 .. h : a + i \in 1 .. Len(C) /\ e + (a + i) = c + i
    BY <1>1, <2>1, <2>2
  <2> HIDE DEF c, d, h
  <2>8. SameBytes(C, a, B, c, h)
    <3> SUFFICES ASSUME NEW i \in 1 .. h PROVE C[a + i].byte = B[c + i].byte
      BY DEF SameBytes
    <3>1. a + i \in 1 .. Len(C) /\ e + (a + i) = c + i
      BY <2>7
    <3>2. C[a + i].byte = B[e + (a + i)].byte
      BY <1>0, <3>1
    <3> QED  BY <3>1, <3>2
  <2>9. TextOf(C, a, b) = TextOf(B, c, d)
    BY <2>6, <2>8, TextSame
  <2> QED  BY <2>5, <2>9 DEF c, d
<1> HIDE DEF P, Q, n
<1>8. /\ Tail(P) \in Seq(Seq(Bytes)) /\ Len(Tail(P)) = n
      /\ \A i \in 1 .. n : Tail(P)[i] = P[i + 1]
  BY <1>3, <1>4, <1>5, HeadTailProperties
<1>9. Q = Tail(P)
  BY <1>4, <1>7, <1>8, SeqEqual
<1> QED  BY <1>5, <1>6, <1>9 DEF P, Q

-----------------------------------------------------------------------------
LEMMA OnWireIs ==
  ASSUME NEW r \in Seq(Bytes)
  PROVE  /\ OnWire(r) \in Seq(WireBytes) /\ Len(OnWire(r)) = Len(r)
         /\ \A i \in 1 .. Len(r) :
              /\ OnWire(r)[i].byte = r[i] /\ (OnWire(r)[i].last <=> i = Len(r))
              /\ OnWire(r)[i].joined <=> r \in Joined
<1> DEFINE o == OnWire(r)
<1>1. Len(r) \in Nat /\ \A i \in 1 .. Len(r) : r[i] \in Bytes
  BY ElementOfSeq
<1>2. o = [i \in 1 .. Len(r) |->
             [byte |-> r[i], last |-> i = Len(r), joined |-> r \in Joined]]
  BY DEF OnWire
<1> HIDE DEF o
<1>3. \A i \in 1 .. Len(r) : o[i] \in WireBytes
  BY <1>1, <1>2 DEF WireBytes
<1>4. o \in Seq(WireBytes) /\ Len(o) = Len(r)
  BY <1>1, <1>2, <1>3
<1>5. \A i \in 1 .. Len(r) :
        /\ o[i].byte = r[i] /\ (o[i].last <=> i = Len(r))
        /\ o[i].joined <=> r \in Joined
  BY <1>2
<1> QED  BY <1>4, <1>5 DEF o

(* The stream of what was received and what is on its way.                  *)
IsStream(B, r, w) ==
  /\ B \in Seq(WireBytes) /\ Len(B) = Len(r) + Len(w)
  /\ Len(r) \in Nat /\ Len(w) \in Nat
  /\ \A i \in 1 .. Len(r) : B[i].byte = r[i]
  /\ \A i \in 1 .. Len(w) : B[Len(r) + i] = w[i]
  /\ \A i \in 1 .. Len(r) : i \in Ends(B) <=> r[i] = Delim \/ i = Len(r)
  /\ \A i \in 1 .. Len(w) :
       Len(r) + i \in Ends(B) <=> w[i].byte = Delim \/ w[i].last

LEMMA StreamIs ==
  ASSUME NEW r \in Seq(Bytes), NEW w \in Seq(WireBytes)
  PROVE  IsStream(OnWire(r) \o w, r, w)
<1> DEFINE o == OnWire(r)
           B == o \o w
<1>1. Len(r) \in Nat /\ Len(w) \in Nat
  OBVIOUS
<1>3. /\ o \in Seq(WireBytes) /\ Len(o) = Len(r)
      /\ \A i \in 1 .. Len(r) :
           o[i].byte = r[i] /\ (o[i].last <=> i = Len(r))
  BY OnWireIs
<1> HIDE DEF o
<1>5. B \in Seq(WireBytes) /\ Len(B) = Len(r) + Len(w)
  <2>1. o \in Seq(WireBytes) /\ w \in Seq(WireBytes)
    BY <1>3
  <2>2. o \o w \in Seq(WireBytes) /\ Len(o \o w) = Len(o) + Len(w)
    BY <2>1, ConcatProperties
  <2> QED  BY <1>3, <2>2
<1>6. ASSUME NEW i \in 1 .. Len(r) PROVE B[i] = o[i] /\ i \in 1 .. Len(B)
  <2>1. i \in 1 .. Len(o) + Len(w) /\ i <= Len(o)
    BY <1>1, <1>3
  <2>2. B[i] = o[i]
    BY <1>3, <2>1, ConcatProperties
  <2> QED  BY <1>3, <1>5, <2>1, <2>2
<1>7. ASSUME NEW i \in 1 .. Len(w)
      PROVE  B[Len(r) + i] = w[i] /\ Len(r) + i \in 1 .. Len(B)
  <2> DEFINE j == Len(r) + i
  <2>1. j \in 1 .. Len(o) + Len(w) /\ ~(j <= Len(o)) /\ j - Len(o) = i
    BY <1>1, <1>3
  <2> HIDE DEF j
  <2>2. B[j] = w[j - Len(o)]
    BY <1>3, <2>1, ConcatProperties
  <2>3. B[j] = w[i] /\ j \in 1 .. Len(B)
    BY <1>3, <1>5, <2>1, <2>2
  <2> QED  BY <2>3 DEF j
<1> HIDE DEF B
<1>8. \A i \in 1 .. Len(B) : i \in Ends(B) <=> B[i].byte = Delim \/ B[i].last
  BY DEF Ends
<1>9. \A i \in 1 .. Len(r) :
        B[i].byte = r[i] /\ (i \in Ends(B) <=> r[i] = Delim \/ i = Len(r))
  BY <1>3, <1>6, <1>8
<1>10. \A i \in 1 .. Len(w) :
         Len(r) + i \in Ends(B) <=> w[i].byte = Delim \/ w[i].last
  BY <1>7, <1>8
<1>11. IsStream(B, r, w)
  BY <1>1, <1>5, <1>7, <1>9, <1>10 DEF IsStream
<1> QED  BY <1>11 DEF B, o

LEMMA NoMessages == MessagesOf(OnWire(<<>>) \o <<>>) = <<>>
<1> DEFINE r == <<>>
           B == OnWire(r) \o r
<1>1. r \in Seq(Bytes) /\ r \in Seq(WireBytes) /\ Len(r) = 0
  BY EmptyBuffer
<1> HIDE DEF r
<1>2. B \in Seq(WireBytes) /\ Len(B) = Len(r) + Len(r)
  <2>1. IsStream(B, r, r)
    BY <1>1, StreamIs
  <2> HIDE DEF B
  <2> QED  BY <2>1 DEF IsStream
<1> HIDE DEF B
<1>3. Ends(B) = {}
  <2>1. Len(B) = 0
    BY <1>1, <1>2
  <2>2. \A i \in Ends(B) : i \in 1 .. Len(B)
    BY <1>2, EndsAre
  <2> QED  BY <2>1, <2>2
<1>4. Len(MessagesOf(B)) = 0 /\ MessagesOf(B) \in Seq(Seq(Bytes))
  BY <1>2, <1>3, MessagesAre, FS_EmptySet
<1>5. MessagesOf(B) = <<>>
  BY <1>4, EmptySeq
<1> QED  BY <1>5 DEF B, r

(* recv moves bytes, and no message.                                       *)
LEMMA Moved ==
  ASSUME NEW w \in Seq(WireBytes), NEW n \in 1 .. Len(w),
         NEW c \in Seq(Bytes), Len(c) = n, \A i \in 1 .. n : c[i] = w[i].byte,
         NEW v \in Seq(WireBytes), Len(v) = Len(w) - n,
         \A i \in 1 .. Len(w) - n : v[i] = w[n + i], w[n].last,
         \A i \in 1 .. n - 1 : w[i].last => w[i].byte = Delim
  PROVE  MessagesOf(OnWire(c) \o v) = MessagesOf(OnWire(<<>>) \o w)
<1> DEFINE e == <<>>
           B == OnWire(e) \o w
           C == OnWire(c) \o v
<1>0. e \in Seq(Bytes) /\ Len(e) = 0
  BY EmptyBuffer
<1> HIDE DEF e
<1>1. Len(w) \in Nat
  OBVIOUS
<1>4. /\ B \in Seq(WireBytes) /\ Len(B) = Len(w)
      /\ \A i \in 1 .. Len(w) : B[i] = w[i]
      /\ \A i \in 1 .. Len(w) : i \in Ends(B) <=> w[i].byte = Delim \/ w[i].last
  <2>1. /\ B \in Seq(WireBytes) /\ Len(B) = Len(e) + Len(w)
        /\ \A i \in 1 .. Len(w) : B[Len(e) + i] = w[i]
        /\ \A i \in 1 .. Len(w) :
             Len(e) + i \in Ends(B) <=> w[i].byte = Delim \/ w[i].last
    <3>1. IsStream(B, e, w)
      BY <1>0, StreamIs
    <3> HIDE DEF B
    <3> QED  BY <3>1, <1>0 DEF IsStream
  <2>2. 0 + Len(w) = Len(w) /\ \A i \in 1 .. Len(w) : Len(e) + i = i
    BY <1>0, <1>1
  <2> HIDE DEF B
  <2> QED  BY <1>0, <2>1, <2>2
<1>5. /\ C \in Seq(WireBytes) /\ Len(C) = Len(c) + Len(v)
      /\ \A i \in 1 .. Len(c) : C[i].byte = c[i]
      /\ \A i \in 1 .. Len(v) : C[Len(c) + i] = v[i]
      /\ \A i \in 1 .. Len(c) : i \in Ends(C) <=> c[i] = Delim \/ i = Len(c)
      /\ \A i \in 1 .. Len(v) :
           Len(c) + i \in Ends(C) <=> v[i].byte = Delim \/ v[i].last
  <2>1. IsStream(C, c, v)
    BY StreamIs
  <2> HIDE DEF C
  <2> QED  BY <2>1 DEF IsStream
<1> HIDE DEF B, C
<1>6. Len(C) = Len(B)
  BY <1>1, <1>4, <1>5
<1>7. ASSUME NEW i \in 1 .. Len(C)
      PROVE  C[i].byte = B[i].byte /\ (i \in Ends(C) <=> i \in Ends(B))
  <2>1. i \in 1 .. Len(w)
    BY <1>4, <1>6
  <2>2. CASE i <= n
    <3>1. i \in 1 .. Len(c) /\ i \in 1 .. n
      BY <2>1, <2>2
    <3>2. C[i].byte = B[i].byte
      BY <1>4, <1>5, <2>1, <3>1
    <3>3. i # n => i \in 1 .. n - 1
      BY <1>1, <3>1
    <3> QED  BY <1>4, <1>5, <2>1, <3>1, <3>2, <3>3
  <2>3. CASE i > n
    <3> DEFINE j == i - n
    <3>1. j \in 1 .. Len(w) - n /\ n + j = i
      BY <1>1, <2>1, <2>3
    <3> HIDE DEF j
    <3>2. v[j] = w[i] /\ C[i] = v[j] /\ (i \in Ends(C) <=> v[j].byte = Delim \/ v[j].last)
      BY <1>5, <3>1
    <3> QED  BY <1>4, <2>1, <3>2
  <2> QED  BY <1>1, <2>1, <2>2, <2>3
<1>8. MessagesOf(C) = MessagesOf(B)
  <2> DEFINE k == Cardinality(Ends(C))
             P == MessagesOf(B)
  <2>1. k \in 0 .. Len(P) /\ MessagesOf(C) = SubSeq(P, 1, k)
    <3>1. Len(C) <= Len(B)
      BY <1>1, <1>4, <1>6
    <3> QED  BY <1>4, <1>5, <1>7, <3>1, FirstMessages
  <2>2. Ends(C) = Ends(B)
    <3>1. \A i \in Ends(C) : i \in 1 .. Len(C)
      BY <1>5, EndsAre
    <3>2. \A i \in Ends(B) : i \in 1 .. Len(C)
      BY <1>4, <1>6, EndsAre
    <3> QED  BY <1>7, <3>1, <3>2
  <2>3. k = Len(P) /\ P \in Seq(Seq(Bytes)) /\ Len(P) \in Nat
    BY <1>4, <2>2, MessagesAre
  <2> HIDE DEF P
  <2>4. SubSeq(P, 1, Len(P)) = P
    BY <2>3, SubSeqFull
  <2> QED  BY <2>1, <2>3, <2>4 DEF P
<1> QED  BY <1>8 DEF B, C, e

(* What is left when the bytes on the wire are lost.                       *)
LEMMA PrefixLeft ==
  ASSUME NEW r \in Seq(Bytes), NEW w \in Seq(WireBytes), NEW r2 \in {r, <<>>}
  PROVE  MessagesOf(OnWire(r2) \o <<>>)
           \in {SubSeq(MessagesOf(OnWire(r) \o w), 1, n) :
                  n \in 0 .. Len(MessagesOf(OnWire(r) \o w))}
<1> DEFINE e == <<>>
           B == OnWire(r) \o w
           C == OnWire(r2) \o e
           n == Cardinality(Ends(C))
<1>1. /\ e \in Seq(WireBytes) /\ Len(e) = 0 /\ r2 \in Seq(Bytes)
      /\ r2 = r \/ Len(r2) = 0
  BY EmptyBuffer
<1> HIDE DEF e
<1>2. /\ B \in Seq(WireBytes) /\ Len(B) = Len(r) + Len(w)
      /\ Len(r) \in Nat /\ Len(w) \in Nat
      /\ \A i \in 1 .. Len(r) : B[i].byte = r[i]
      /\ \A i \in 1 .. Len(r) : i \in Ends(B) <=> r[i] = Delim \/ i = Len(r)
  <2>1. IsStream(B, r, w)
    BY StreamIs
  <2> HIDE DEF B
  <2> QED  BY <2>1 DEF IsStream
<1>3. /\ C \in Seq(WireBytes) /\ Len(C) = Len(r2) + Len(e)
      /\ \A i \in 1 .. Len(r2) : C[i].byte = r2[i]
      /\ \A i \in 1 .. Len(r2) : i \in Ends(C) <=> r2[i] = Delim \/ i = Len(r2)
  <2>1. IsStream(C, r2, e)
    BY <1>1, StreamIs
  <2> HIDE DEF C
  <2> QED  BY <2>1 DEF IsStream
<1> HIDE DEF B, C
<1>4. Len(C) = Len(r2) /\ Len(C) <= Len(B)
  BY <1>1, <1>2, <1>3
<1>5. ASSUME NEW i \in 1 .. Len(C)
      PROVE  C[i].byte = B[i].byte /\ (i \in Ends(C) <=> i \in Ends(B))
  <2>1. r2 = r /\ i \in 1 .. Len(r)
    BY <1>1, <1>4
  <2> QED  BY <1>2, <1>3, <2>1
<1>6. n \in 0 .. Len(MessagesOf(B)) /\ MessagesOf(C) = SubSeq(MessagesOf(B), 1, n)
  BY <1>2, <1>3, <1>4, <1>5, FirstMessages
<1> HIDE DEF n
<1>7. MessagesOf(C) \in {SubSeq(MessagesOf(B), 1, k) : k \in 0 .. Len(MessagesOf(B))}
  BY <1>6
<1> QED  BY <1>7 DEF B, C, e

(* The bytes up to the first end, at e, are taken from the front.           *)
IsFront(r, e, r2) ==
  /\ e \in 1 .. Len(r) /\ Len(r2) = Len(r) - e
  /\ \A i \in 1 .. Len(r2) : r2[i] = r[e + i]
  /\ e = Len(r) \/ r[e] = Delim
  /\ \A i \in 1 .. e - 1 : r[i] # Delim

LEMMA FrontTaken ==
  ASSUME NEW r \in Seq(Bytes), NEW w \in Seq(WireBytes), NEW r2 \in Seq(Bytes),
         NEW e \in Nat, IsFront(r, e, r2)
  PROVE  /\ MessagesOf(OnWire(r) \o w) # <<>>
         /\ Head(MessagesOf(OnWire(r) \o w))
              = [i \in 1 .. (IF r[e] = Delim THEN e - 1 ELSE e) |-> r[i]]
         /\ MessagesOf(OnWire(r2) \o w) = Tail(MessagesOf(OnWire(r) \o w))
<1> DEFINE B == OnWire(r) \o w
           C == OnWire(r2) \o w
<1>0. Len(r) \in Nat
  OBVIOUS
<1>1. /\ e \in 1 .. Len(r) /\ Len(r2) = Len(r) - e
      /\ \A i \in 1 .. Len(r2) : r2[i] = r[e + i]
      /\ e = Len(r) \/ r[e] = Delim
      /\ \A i \in 1 .. e - 1 : r[i] # Delim
  BY DEF IsFront
<1>2. /\ B \in Seq(WireBytes) /\ Len(B) = Len(r) + Len(w) /\ Len(w) \in Nat
      /\ \A i \in 1 .. Len(r) : B[i].byte = r[i]
      /\ \A i \in 1 .. Len(w) : B[Len(r) + i] = w[i]
      /\ \A i \in 1 .. Len(r) : i \in Ends(B) <=> r[i] = Delim \/ i = Len(r)
      /\ \A i \in 1 .. Len(w) :
           Len(r) + i \in Ends(B) <=> w[i].byte = Delim \/ w[i].last
  <2>1. IsStream(B, r, w)
    BY StreamIs
  <2> HIDE DEF B
  <2> QED  BY <2>1 DEF IsStream
<1>3. /\ C \in Seq(WireBytes) /\ Len(C) = Len(r2) + Len(w)
      /\ \A i \in 1 .. Len(r2) : C[i].byte = r2[i]
      /\ \A i \in 1 .. Len(w) : C[Len(r2) + i] = w[i]
      /\ \A i \in 1 .. Len(r2) : i \in Ends(C) <=> r2[i] = Delim \/ i = Len(r2)
      /\ \A i \in 1 .. Len(w) :
           Len(r2) + i \in Ends(C) <=> w[i].byte = Delim \/ w[i].last
  <2>1. IsStream(C, r2, w)
    BY StreamIs
  <2> HIDE DEF C
  <2> QED  BY <2>1 DEF IsStream
<1> HIDE DEF B, C
<1>4. e \in Ends(B) /\ \A i \in Ends(B) : e <= i
  <2>1. e \in Ends(B)
    BY <1>1, <1>2
  <2>2. ASSUME NEW i \in Ends(B), i < e PROVE FALSE
    <3>1. i \in 1 .. e - 1 /\ i \in 1 .. Len(r) /\ i # Len(r)
      BY <1>0, <1>1, <1>2, <2>2, EndsAre
    <3> QED  BY <1>1, <1>2, <3>1
  <2>3. \A i \in Ends(B) : i \in Nat
    BY <1>2, EndsAre
  <2> QED  BY <1>0, <1>1, <2>1, <2>2, <2>3
<1>5. Len(C) = Len(B) - e
  BY <1>0, <1>1, <1>2, <1>3
<1>6. ASSUME NEW i \in 1 .. Len(C)
      PROVE  C[i].byte = B[e + i].byte /\ (i \in Ends(C) <=> e + i \in Ends(B))
  <2>0. Len(r2) \in Nat /\ Len(C) \in Nat
    BY <1>0, <1>1, <1>3, EndsAre
  <2>1. CASE i <= Len(r2)
    <3>1. i \in 1 .. Len(r2)
      BY <2>0, <2>1
    <3>2. e + i \in 1 .. Len(r) /\ (i = Len(r2) <=> e + i = Len(r))
      BY <1>0, <1>1, <3>1
    <3>3. r2[i] = r[e + i]
      BY <1>1, <3>1
    <3> QED  BY <1>1, <1>2, <1>3, <3>1, <3>2, <3>3
  <2>2. CASE i > Len(r2)
    <3> DEFINE j == i - Len(r2)
    <3>0. /\ Len(C) = Len(r2) + Len(w) /\ Len(r2) = Len(r) - e /\ Len(w) \in Nat
          /\ i \in 1 .. Len(C)
      BY <1>1, <1>2, <1>3
    <3>1. j \in 1 .. Len(w) /\ Len(r2) + j = i /\ Len(r) + j = e + i
      BY <1>0, <2>0, <2>2, <3>0
    <3> HIDE DEF j
    <3>2. C[i] = w[j] /\ (i \in Ends(C) <=> w[j].byte = Delim \/ w[j].last)
      BY <1>3, <3>1
    <3>3. B[e + i] = w[j] /\ (e + i \in Ends(B) <=> w[j].byte = Delim \/ w[j].last)
      BY <1>1, <1>2, <3>1
    <3> QED  BY <3>2, <3>3
  <2> QED  BY <2>0, <2>1, <2>2
<1>7. /\ MessagesOf(B) # <<>> /\ Head(MessagesOf(B)) = TextOf(B, 0, e)
      /\ MessagesOf(C) = Tail(MessagesOf(B))
  <2>1. IsRest(C, B, e)
    BY <1>5, <1>6 DEF IsRest
  <2> QED  BY <1>1, <1>2, <1>3, <1>4, <2>1, OneLess
<1>8. TextOf(B, 0, e) = [i \in 1 .. (IF r[e] = Delim THEN e - 1 ELSE e) |-> r[i]]
  <2> DEFINE k == IF r[e] = Delim THEN e - 1 ELSE e
  <2>1. B[e].byte = r[e] /\ k \in 0 .. Len(r) /\ e - 0 - 1 = e - 1 /\ e - 0 = e
    BY <1>0, <1>1, <1>2
  <2>2. TextOf(B, 0, e) = [i \in 1 .. k |-> B[0 + i].byte]
    BY <2>1 DEF TextOf
  <2> HIDE DEF k
  <2>3. \A i \in 1 .. k : i \in 1 .. Len(r) /\ 0 + i = i
    BY <1>0, <2>1
  <2>4. \A i \in 1 .. k : B[0 + i].byte = r[i]
    BY <1>1, <1>2, <2>3
  <2> QED  BY <2>2, <2>4 DEF k
<1> QED  BY <1>7, <1>8 DEF B, C

LEMMA FirstOfSeq ==
  ASSUME NEW r \in Seq(Bytes), NEW k \in 0 .. Len(r)
  PROVE  SubSeq(r, 1, k) = [i \in 1 .. k |-> r[i]]
<1> DEFINE s == SubSeq(r, 1, k)
           f == [i \in 1 .. k |-> r[i]]
<1>1. Len(r) \in Nat /\ k \in Nat /\ 1 \in Int /\ k \in Int
  OBVIOUS
<1>2. \A i \in 1 .. k : r[i] \in Bytes
  BY <1>1, ElementOfSeq
<1>3. /\ s \in Seq(Bytes) /\ Len(s) = IF 1 <= k THEN k - 1 + 1 ELSE 0
      /\ \A i \in 1 .. k - 1 + 1 : s[i] = r[1 + i - 1]
  BY <1>1, <1>2, SubSeqProperties
<1>4. /\ k - 1 + 1 = k /\ (~(1 <= k) => k = 0)
      /\ \A i \in 1 .. k : 1 + i - 1 = i
  BY <1>1
<1>5. f \in Seq(Bytes) /\ Len(f) = k /\ \A i \in 1 .. k : f[i] = r[i]
  BY <1>1, <1>2
<1> HIDE DEF s, f
<1>6. s = f
  BY <1>3, <1>4, <1>5, SeqEqual
<1> QED  BY <1>6 DEF s, f

(* What recv_msg returns is the first message, also when no delimiter has   *)
(* been received.                                                          *)
LEMMA MessageTaken ==
  ASSUME NEW r \in Seq(Bytes), NEW w \in Seq(WireBytes), NEW r2 \in Seq(Bytes), NEW m,
         \/ HasDelim(r) /\ r2 = AfterDelim(r) /\ m = SubSeq(r, 1, FirstDelim(r) - 1)
         \/ r # <<>> /\ ~HasDelim(r) /\ r2 = <<>> /\ m = r
  PROVE  /\ MessagesOf(OnWire(r) \o w) # <<>>
         /\ Head(MessagesOf(OnWire(r) \o w)) = m
         /\ MessagesOf(OnWire(r2) \o w) = Tail(MessagesOf(OnWire(r) \o w))
<1> DEFINE e == IF HasDelim(r) THEN FirstDelim(r) ELSE Len(r)
<1>0. Len(r) \in Nat /\ \A i \in 1 .. Len(r) : r[i] \in Bytes
  BY ElementOfSeq
<1>1. /\ e \in 1 .. Len(r) /\ Len(r2) = Len(r) - e
      /\ \A i \in 1 .. Len(r2) : r2[i] = r[e + i]
      /\ e = Len(r) \/ r[e] = Delim
      /\ \A i \in 1 .. e - 1 : r[i] # Delim
  <2>1. CASE HasDelim(r)
    <3> DEFINE d == FirstDelim(r)
    <3>1. d \in 1 .. Len(r) /\ r[d] = Delim /\ \A i \in 1 .. d - 1 : r[i] # Delim
      BY <2>1, FirstDelimIsFirst
    <3>2. r2 = SubSeq(r, d + 1, Len(r)) /\ e = d
      BY <2>1 DEF AfterDelim
    <3> HIDE DEF d, e
    <3>3. d + 1 \in Int /\ Len(r) \in Int /\ \A i \in d + 1 .. Len(r) : r[i] \in Bytes
      BY <1>0, <3>1
    <3>4. /\ Len(r2) = IF d + 1 <= Len(r) THEN Len(r) - (d + 1) + 1 ELSE 0
          /\ \A i \in 1 .. Len(r) - (d + 1) + 1 : r2[i] = r[(d + 1) + i - 1]
      BY <3>2, <3>3, SubSeqProperties
    <3>5. /\ Len(r) - (d + 1) + 1 = Len(r) - d
          /\ \A i \in 1 .. Len(r) - d : (d + 1) + i - 1 = d + i
          /\ ~(d + 1 <= Len(r)) => Len(r) - d = 0
      BY <1>0, <3>1
    <3> QED  BY <3>1, <3>2, <3>4, <3>5
  <2>2. CASE ~HasDelim(r)
    <3>1. r # <<>> /\ r2 = <<>> /\ e = Len(r) /\ \A i \in 1 .. Len(r) : r[i] # Delim
      BY <2>2 DEF HasDelim
    <3>2. Len(r) # 0 /\ Len(r2) = 0
      BY <3>1, EmptySeq, EmptyBuffer
    <3> HIDE DEF e
    <3> QED  BY <1>0, <3>1, <3>2
  <2> QED  BY <2>1, <2>2
<1> HIDE DEF e
<1> DEFINE P == MessagesOf(OnWire(r) \o w)
           Q == MessagesOf(OnWire(r2) \o w)
           k == IF r[e] = Delim THEN e - 1 ELSE e
<1>2. P # <<>> /\ Head(P) = [i \in 1 .. k |-> r[i]] /\ Q = Tail(P)
  <2>1. IsFront(r, e, r2) /\ e \in Nat
    BY <1>0, <1>1 DEF IsFront
  <2> QED  BY <2>1, FrontTaken
<1> HIDE DEF P, Q
<1>3. k = IF HasDelim(r) THEN FirstDelim(r) - 1 ELSE Len(r)
  <2>1. CASE HasDelim(r)
    <3>1. e = FirstDelim(r) /\ r[e] = Delim
      BY <2>1, FirstDelimIsFirst DEF e
    <3> QED  BY <2>1, <3>1
  <2>2. CASE ~HasDelim(r)
    <3>1. e = Len(r) /\ r[e] # Delim
      BY <1>1, <2>2 DEF e, HasDelim
    <3> QED  BY <2>2, <3>1
  <2> QED  BY <2>1, <2>2
<1>4. k \in 0 .. Len(r) /\ \A i \in 1 .. k : i \in 1 .. Len(r)
  BY <1>0, <1>1
<1> HIDE DEF k
<1>5. m = [i \in 1 .. k |-> r[i]]
  <2>1. CASE HasDelim(r)
    <3>1. m = SubSeq(r, 1, k)
      BY <1>3, <2>1
    <3> QED  BY <1>4, <3>1, FirstOfSeq
  <2>2. CASE ~HasDelim(r)
    <3>1. m = r /\ k = Len(r)
      BY <1>3, <2>2
    <3> QED  BY <3>1
  <2> QED  BY <2>1, <2>2
<1> QED  BY <1>2, <1>5 DEF P, Q

(* A WRITE adds one message.                                               *)
LEMMA WriteAdds ==
  ASSUME NEW r \in Seq(Bytes), NEW w \in Seq(WireBytes), w = <<>> \/ w[Len(w)].last,
         NEW m \in Seq(Bytes), m # <<>>, \A i \in 1 .. Len(m) - 1 : m[i] # Delim
  PROVE  MessagesOf(OnWire(r) \o (w \o OnWire(m)))
           = Append(MessagesOf(OnWire(r) \o w), ContentOf(m))
<1> DEFINE v == w \o OnWire(m)
           B == OnWire(r) \o w
           C == OnWire(r) \o v
<1>1. Len(m) \in Nat /\ Len(m) > 0 /\ \A i \in 1 .. Len(m) : m[i] \in Bytes
  <2>1. Len(m) # 0
    BY EmptySeq
  <2> QED  BY <2>1, ElementOfSeq
<1>2. /\ v \in Seq(WireBytes) /\ Len(v) = Len(w) + Len(m)
      /\ \A i \in 1 .. Len(w) : v[i] = w[i]
      /\ \A i \in 1 .. Len(m) :
           /\ v[Len(w) + i].byte = m[i]
           /\ v[Len(w) + i].last <=> i = Len(m)
  <2> DEFINE o == OnWire(m)
  <2>1. /\ o \in Seq(WireBytes) /\ Len(o) = Len(m)
        /\ \A i \in 1 .. Len(m) : o[i].byte = m[i] /\ (o[i].last <=> i = Len(m))
    BY OnWireIs
  <2> HIDE DEF o
  <2>2. Len(w) \in Nat
    OBVIOUS
  <2>3. o \in Seq(WireBytes)
    BY <2>1
  <2>4. w \o o \in Seq(WireBytes) /\ Len(w \o o) = Len(w) + Len(o)
    BY <2>3, ConcatProperties
  <2>5. ASSUME NEW i \in 1 .. Len(w) PROVE (w \o o)[i] = w[i]
    <3>1. i \in 1 .. Len(w) + Len(o) /\ i <= Len(w)
      BY <1>1, <2>1, <2>2
    <3> QED  BY <2>3, <3>1, ConcatProperties
  <2>6. ASSUME NEW i \in 1 .. Len(m) PROVE (w \o o)[Len(w) + i] = o[i]
    <3> DEFINE j == Len(w) + i
    <3>1. j \in 1 .. Len(w) + Len(o) /\ ~(j <= Len(w)) /\ j - Len(w) = i
      BY <1>1, <2>1, <2>2
    <3> HIDE DEF j
    <3>2. (w \o o)[j] = o[j - Len(w)]
      BY <2>3, <3>1, ConcatProperties
    <3> QED  BY <3>1, <3>2 DEF j
  <2>7. v = w \o o
    BY DEF o
  <2> HIDE DEF v
  <2> QED  BY <2>1, <2>4, <2>5, <2>6, <2>7
<1> HIDE DEF v
<1>3. IsStream(B, r, w)
  BY StreamIs
<1>4. IsStream(C, r, v)
  BY <1>2, StreamIs
<1> HIDE DEF B, C
<1>5. /\ B \in Seq(WireBytes) /\ Len(B) = Len(r) + Len(w)
      /\ Len(r) \in Nat /\ Len(w) \in Nat
      /\ \A i \in 1 .. Len(r) : B[i].byte = r[i]
      /\ \A i \in 1 .. Len(w) : B[Len(r) + i] = w[i]
      /\ \A i \in 1 .. Len(r) : i \in Ends(B) <=> r[i] = Delim \/ i = Len(r)
      /\ \A i \in 1 .. Len(w) :
           Len(r) + i \in Ends(B) <=> w[i].byte = Delim \/ w[i].last
  BY <1>3 DEF IsStream
<1>6. /\ C \in Seq(WireBytes) /\ Len(C) = Len(r) + Len(v)
      /\ \A i \in 1 .. Len(r) : C[i].byte = r[i]
      /\ \A i \in 1 .. Len(v) : C[Len(r) + i] = v[i]
      /\ \A i \in 1 .. Len(r) : i \in Ends(C) <=> r[i] = Delim \/ i = Len(r)
      /\ \A i \in 1 .. Len(v) :
           Len(r) + i \in Ends(C) <=> v[i].byte = Delim \/ v[i].last
  BY <1>4 DEF IsStream
<1>7. Len(C) = Len(B) + Len(m) /\ Len(C) = Len(r) + Len(w) + Len(m)
  BY <1>1, <1>2, <1>5, <1>6
<1>8. ASSUME NEW i \in 1 .. Len(B)
      PROVE  B[i].byte = C[i].byte /\ (i \in Ends(B) <=> i \in Ends(C))
  <2>1. CASE i <= Len(r)
    <3>1. i \in 1 .. Len(r)
      BY <1>5, <2>1
    <3> QED  BY <1>5, <1>6, <3>1
  <2>2. CASE i > Len(r)
    <3> DEFINE j == i - Len(r)
    <3>0. Len(B) = Len(r) + Len(w) /\ Len(r) \in Nat /\ Len(w) \in Nat /\ Len(v) = Len(w) + Len(m)
      BY <1>2, <1>5
    <3>1. j \in 1 .. Len(w) /\ j \in 1 .. Len(v) /\ Len(r) + j = i
      BY <1>1, <2>2, <3>0
    <3> HIDE DEF j
    <3>2. B[i] = w[j] /\ (i \in Ends(B) <=> w[j].byte = Delim \/ w[j].last)
      BY <1>5, <3>1
    <3>3. C[i] = v[j] /\ (i \in Ends(C) <=> v[j].byte = Delim \/ v[j].last)
      BY <1>6, <3>1
    <3> QED  BY <1>2, <3>1, <3>2, <3>3
  <2>3. i \in Nat
    BY <1>5
  <2> QED  BY <1>5, <2>1, <2>2, <2>3
<1>9. ASSUME NEW j \in 1 .. Len(m)
      PROVE  /\ Len(B) + j \in 1 .. Len(C) /\ C[Len(B) + j].byte = m[j]
             /\ Len(B) + j \in Ends(C) <=> j = Len(m)
  <2> DEFINE k == Len(w) + j
  <2>0. Len(B) = Len(r) + Len(w) /\ Len(r) \in Nat /\ Len(w) \in Nat /\ Len(v) = Len(w) + Len(m)
    BY <1>2, <1>5
  <2>1. /\ k \in 1 .. Len(v) /\ Len(r) + k = Len(B) + j /\ Len(B) + j \in 1 .. Len(C)
        /\ j # Len(m) => j \in 1 .. Len(m) - 1
    BY <1>1, <1>7, <2>0
  <2>2. v[k].byte = m[j] /\ (v[k].last <=> j = Len(m))
    BY <1>2
  <2> HIDE DEF k
  <2>3. C[Len(B) + j] = v[k] /\ (Len(B) + j \in Ends(C) <=> v[k].byte = Delim \/ v[k].last)
    BY <1>6, <2>1
  <2> QED  BY <2>1, <2>2, <2>3
<1>10. IsMore(C, B)
  <2>1. Len(B) \in Nat /\ Len(C) \in Nat /\ Len(B) < Len(C)
    BY <1>1, <1>5, <1>6, <1>7, EndsAre
  <2>2. ASSUME NEW i \in 1 .. Len(C)
        PROVE  i \in Ends(C) <=> i \in Ends(B) \/ i = Len(C)
    <3>1. CASE i <= Len(B)
      <4>1. i \in 1 .. Len(B) /\ i # Len(C)
        BY <2>1, <3>1
      <4> QED  BY <1>8, <4>1
    <3>2. CASE i > Len(B)
      <4> DEFINE j == i - Len(B)
      <4>1. j \in 1 .. Len(m) /\ Len(B) + j = i /\ (j = Len(m) <=> i = Len(C))
        BY <1>1, <1>7, <2>1, <3>2
      <4> HIDE DEF j
      <4>2. i \in Ends(C) <=> i = Len(C)
        BY <1>9, <4>1
      <4>3. i \notin Ends(B)
        <5>1. i \in Ends(B) => i \in 1 .. Len(B)
          BY <1>5, EndsAre
        <5> QED  BY <2>1, <3>2, <5>1
      <4> QED  BY <4>2, <4>3
    <3> QED  BY <2>1, <3>1, <3>2
  <2> QED  BY <1>8, <2>1, <2>2 DEF IsMore
<1>11. B = <<>> \/ Len(B) \in Ends(B)
  <2>1. CASE Len(w) # 0
    <3>1. Len(w) \in 1 .. Len(w) /\ w # <<>>
      BY <1>5, <2>1, EmptyBuffer
    <3>2. w[Len(w)].last
      BY <3>1
    <3> QED  BY <1>5, <3>1, <3>2
  <2>2. CASE Len(w) = 0 /\ Len(r) # 0
    <3>1. Len(r) \in 1 .. Len(r) /\ Len(B) = Len(r)
      BY <1>5, <2>2
    <3> QED  BY <1>5, <3>1
  <2>3. CASE Len(w) = 0 /\ Len(r) = 0
    <3>1. Len(B) = 0
      BY <1>5, <2>3
    <3> QED  BY <1>5, <3>1, EmptySeq
  <2> QED  BY <2>1, <2>2, <2>3
<1>12. MessagesOf(C) = Append(MessagesOf(B), TextOf(C, Len(B), Len(C)))
  BY <1>5, <1>6, <1>10, <1>11, OneMore
<1>13. TextOf(C, Len(B), Len(C)) = ContentOf(m)
  <2> DEFINE k == IF m[Len(m)] = Delim THEN Len(m) - 1 ELSE Len(m)
             l == Len(B)
             h == Len(C)
  <2>1. h = l + Len(m) /\ l \in Nat /\ Len(m) \in 1 .. Len(m)
    BY <1>1, <1>5, <1>7, EndsAre
  <2>2. C[h].byte = m[Len(m)]
    BY <1>9, <2>1
  <2>3. k \in 0 .. Len(m) /\ h - l - 1 = Len(m) - 1 /\ h - l = Len(m)
    BY <1>1, <2>1
  <2>4. TextOf(C, l, h) = [i \in 1 .. k |-> C[l + i].byte]
    BY <2>2, <2>3 DEF TextOf
  <2>5. \A i \in 1 .. k : i \in 1 .. Len(m)
    BY <1>1, <2>3
  <2> HIDE DEF k
  <2>6. TextOf(C, l, h) = [i \in 1 .. k |-> m[i]]
    BY <1>9, <2>4, <2>5
  <2>7. ContentOf(m) = [i \in 1 .. k |-> m[i]]
    <3>1. CASE m[Len(m)] = Delim
      <4>1. ContentOf(m) = SubSeq(m, 1, k)
        BY <3>1 DEF ContentOf, k
      <4> QED  BY <2>3, <2>5, <4>1, FirstOfSeq
    <3>2. CASE m[Len(m)] # Delim
      <4>1. ContentOf(m) = m /\ k = Len(m)
        BY <3>2 DEF ContentOf, k
      <4> QED  BY <4>1
    <3> QED  BY <3>1, <3>2
  <2> QED  BY <2>6, <2>7
<1> QED  BY <1>12, <1>13 DEF B, C, v

-----------------------------------------------------------------------------
(***************************************************************************)
(* The invariant of the client as a channel: what a WRITE brings arrives    *)
(* as a whole, the buffer holds whole messages, and only the reader that    *)
(* received them holds bytes.                                              *)
(***************************************************************************)
EndsInDelim(buf) == buf = <<>> \/ buf[Len(buf)] = Delim

WireWhole(w) ==
  /\ w = <<>> \/ w[Len(w)].last
  /\ \A i \in 1 .. Len(w) :
       /\ w[i].byte = Delim => w[i].last
       /\ w[i].joined /\ w[i].last => w[i].byte = Delim

ReaderHolds ==
  /\ step[Reader] = "received" <=> chunk[Reader] # <<>>
  /\ HasDelim(chunk[Reader]) => EndsInDelim(chunk[Reader])

ChannelInv ==
  /\ IInv /\ (sock = NoSocket => wire = <<>>) /\ WireWhole(wire)
  /\ EndsInDelim(rx_buf) /\ ReaderHolds

Answers ==
  \/ UNCHANGED result
  \/ \E t \in Threads, k \in Kinds \ {"message"} :
       result' = [result EXCEPT ![t] = Result(k)]

KeepsReader == step'[Reader] = "received" <=> step[Reader] = "received"

(* The steps that take no byte: most leave the stream, some lose it.        *)
LeavesStream == UNCHANGED <<sock, rx_buf, wire, chunk>> /\ KeepsReader /\ Answers

LosesStream ==
  rx_buf' = <<>> /\ wire' = <<>> /\ chunk' = chunk /\ KeepsReader /\ Answers

TakesBuffered(t) == recv_msg(t) /\ sock # NoSocket /\ HasDelim(rx_buf)

LEMMA ReaderIs ==
  ASSUME WholeMessages
  PROVE  Reader \in Readers /\ Reader \in Threads /\ \A t \in Readers : t = Reader
<1>1. Reader \in Readers
  BY DEF WholeMessages, Reader
<1> QED  BY <1>1, ClientAssumption DEF WholeMessages, OneReader

LEMMA StepKinds ==
  ASSUME WholeMessages, IInv, Next
  PROVE  \/ ControllerWrites \/ LeavesStream \/ LosesStream
         \/ \E t \in Threads : ReceiveChunk(t) \/ TakesBuffered(t) \/ Extend(t)
<1>0. /\ Reader \in Threads /\ step \in [Threads -> Steps]
      /\ result \in [Threads -> [kind : Kinds, text : Seq(Bytes)]]
  BY ReaderIs DEF IInv, TypeOK
<1>1. ASSUME NEW t \in Threads, NEW s, step[t] # "received", s # "received", Go(t, s)
      PROVE  KeepsReader
  BY <1>0, <1>1 DEF Go, KeepsReader
<1>2. ASSUME NEW t \in Threads, NEW k \in Kinds, k # "message", step[t] # "received",
             Returns(t, Result(k))
      PROVE  KeepsReader /\ Answers
  BY <1>1, <1>2 DEF Returns, Answers
<1>3. {"closed", "connected", "sent", "timeout", "failed"} \subseteq Kinds
  BY DEF Kinds
<1>4. ASSUME NEW t \in Threads, close(t) PROVE LosesStream
  BY <1>2, <1>3, <1>4 DEF close, DropConnection, LosesStream
<1>5. ASSUME NEW t \in Threads, ensure_connected(t) PROVE LeavesStream \/ LosesStream
  <2>1. CASE sock # NoSocket
    BY <1>2, <1>3, <1>5, <2>1 DEF ensure_connected, LeavesStream
  <2>2. CASE sock = NoSocket
    BY <1>1, <1>5, <2>2 DEF ensure_connected, DropConnection, LosesStream, Answers
  <2> QED  BY <2>1, <2>2
<1>6. ASSUME NEW t \in Threads, install_socket(t) PROVE LosesStream
  BY <1>2, <1>3, <1>6 DEF install_socket, LosesStream
<1>7. ASSUME NEW t \in Threads, ConnectFails(t) PROVE LeavesStream \/ LosesStream
  <2>1. CASE DropConnection /\ UNCHANGED <<step, result>>
    BY <1>7, <2>1 DEF ConnectFails, DropConnection, LosesStream, KeepsReader, Answers
  <2>2. CASE Returns(t, Result("failed")) /\ UNCHANGED <<sock, rx_buf, wire>>
    BY <1>2, <1>3, <1>7, <2>2 DEF ConnectFails, LeavesStream
  <2> QED  BY <1>7, <2>1, <2>2 DEF ConnectFails
<1>8. ASSUME NEW t \in Threads, send_msg(t) PROVE LeavesStream
  <2>1. CASE sock = NoSocket
    BY <1>2, <1>3, <1>8, <2>1 DEF send_msg, LeavesStream
  <2>2. CASE sock # NoSocket
    BY <1>1, <1>8, <2>2 DEF send_msg, LeavesStream, Answers
  <2> QED  BY <2>1, <2>2
<1>9. ASSUME NEW t \in Threads, SendDone(t) \/ ReceiveTimeout(t) PROVE LeavesStream
  <2>1. CASE SendDone(t)
    BY <1>2, <1>3, <2>1 DEF SendDone, LeavesStream
  <2>2. CASE ReceiveTimeout(t)
    BY <1>2, <1>3, <2>2 DEF ReceiveTimeout, LeavesStream
  <2> QED  BY <1>9, <2>1, <2>2
<1>10. ASSUME NEW t \in Threads, SendFails(t) \/ ReceiveFails(t) PROVE LosesStream
  <2>1. CASE SendFails(t)
    BY <1>2, <1>3, <2>1 DEF SendFails, DropConnection, LosesStream
  <2>2. CASE ReceiveFails(t)
    BY <1>2, <1>3, <2>2 DEF ReceiveFails, DropConnection, LosesStream
  <2> QED  BY <1>10, <2>1, <2>2
<1>11. ASSUME NEW t \in Threads, recv_msg(t) PROVE LeavesStream \/ TakesBuffered(t)
  <2>1. CASE sock = NoSocket
    BY <1>2, <1>3, <1>11, <2>1 DEF recv_msg, LeavesStream
  <2>2. CASE sock # NoSocket /\ ~HasDelim(rx_buf)
    BY <1>1, <1>11, <2>2 DEF recv_msg, LeavesStream, Answers
  <2> QED  BY <1>11, <2>1, <2>2 DEF TakesBuffered
<1> QED
  BY <1>4, <1>5, <1>6, <1>7, <1>8, <1>9, <1>10, <1>11 DEF Next

(* Before and after recv, what was received is the buffer or the chunk.     *)
LEMMA ReceivedIs ==
  ASSUME WholeMessages, ChannelInv
  PROVE  /\ Received \in Seq(Bytes) /\ rx_buf \in Seq(Bytes) /\ wire \in Seq(WireBytes)
         /\ chunk[Reader] \in Seq(Bytes)
         /\ step[Reader] \in {"receiving", "received"} => rx_buf = <<>>
         /\ step[Reader] # "received" => Received = rx_buf /\ chunk[Reader] = <<>>
         /\ step[Reader] = "received" => Received = chunk[Reader] /\ chunk[Reader] # <<>>
<1>1. /\ rx_buf \in Seq(Bytes) /\ wire \in Seq(WireBytes) /\ chunk[Reader] \in Seq(Bytes)
      /\ Reader \in Threads
  BY ReaderIs DEF ChannelInv, IInv, TypeOK
<1>2. step[Reader] \in {"receiving", "received"} => rx_buf = <<>>
  <2> SUFFICES ASSUME step[Reader] \in {"receiving", "received"}, rx_buf # <<>> PROVE FALSE
    OBVIOUS
  <2>1. ~HasDelim(rx_buf)
    BY <1>1 DEF ChannelInv, IInv, ReaderLooked
  <2>2. rx_buf[Len(rx_buf)] = Delim
    BY DEF ChannelInv, EndsInDelim
  <2>3. Len(rx_buf) \in 1 .. Len(rx_buf)
    <3>1. Len(rx_buf) \in Nat /\ Len(rx_buf) # 0
      BY <1>1, EmptySeq
    <3> QED  BY <3>1
  <2> QED  BY <2>1, <2>2, <2>3 DEF HasDelim
<1>3. step[Reader] = "received" <=> chunk[Reader] # <<>>
  BY DEF ChannelInv, ReaderHolds
<1> DEFINE c == chunk[Reader]
<1>4. /\ rx_buf \o c \in Seq(Bytes)
      /\ rx_buf = <<>> => rx_buf \o c = c
      /\ c = <<>> => rx_buf \o c = rx_buf
  BY <1>1, ConcatProperties, ConcatEmptySeq
<1> QED  BY <1>1, <1>2, <1>3, <1>4 DEF Received

-----------------------------------------------------------------------------
(* The steps, one kind after the other.                                    *)
LEMMA LeaveStep ==
  ASSUME WholeMessages, ChannelInv, IInv', LeavesStream
  PROVE  ChannelInv' /\ UNCHANGED Queue /\ Answers
<1>1. /\ UNCHANGED <<sock, rx_buf, wire, chunk>> /\ Answers
      /\ step'[Reader] = "received" <=> step[Reader] = "received"
  BY DEF LeavesStream, KeepsReader
<1>2. UNCHANGED Queue
  BY <1>1 DEF Queue, Received
<1>3. ReaderHolds'
  BY <1>1 DEF ChannelInv, ReaderHolds, HasDelim, EndsInDelim
<1>4. (sock = NoSocket => wire = <<>>)' /\ WireWhole(wire)' /\ EndsInDelim(rx_buf)'
  BY <1>1 DEF ChannelInv, WireWhole, EndsInDelim
<1> QED  BY <1>1, <1>2, <1>3, <1>4 DEF ChannelInv

(* Some first messages of the queue, those that were received or none.      *)
FirstOnes == {SubSeq(Queue, 1, n) : n \in 0 .. Len(Queue)}

LEMMA LoseStep ==
  ASSUME WholeMessages, ChannelInv, IInv', LosesStream
  PROVE  ChannelInv' /\ Queue' \in FirstOnes /\ Answers
<1>1. /\ rx_buf' = <<>> /\ wire' = <<>> /\ chunk' = chunk /\ Answers
      /\ step'[Reader] = "received" <=> step[Reader] = "received"
  BY DEF LosesStream, KeepsReader
<1>2. Received' \in {Received, <<>>}
  <2>1. CASE step[Reader] = "received"
    <3>1. rx_buf = <<>>
      BY <2>1, ReceivedIs
    <3> QED  BY <1>1, <3>1 DEF Received
  <2>2. CASE step[Reader] # "received"
    <3>1. chunk[Reader] = <<>>
      BY <2>2, ReceivedIs
    <3>2. Received' = <<>> \o <<>>
      BY <1>1, <3>1 DEF Received
    <3>3. <<>> \o <<>> = <<>>
      BY EmptyBuffer, ConcatEmptySeq
    <3> QED  BY <3>2, <3>3
  <2> QED  BY <2>1, <2>2
<1>3. Queue' \in FirstOnes
  <2> DEFINE r == Received
             r2 == Received'
  <2>1. r \in Seq(Bytes) /\ wire \in Seq(WireBytes) /\ r2 \in {r, <<>>}
    BY <1>2, ReceivedIs
  <2>2. Queue' = MessagesOf(OnWire(r2) \o <<>>) /\ Queue = MessagesOf(OnWire(r) \o wire)
    BY <1>1 DEF Queue
  <2> HIDE DEF r, r2
  <2>3. MessagesOf(OnWire(r2) \o <<>>)
          \in {SubSeq(MessagesOf(OnWire(r) \o wire), 1, n) :
                 n \in 0 .. Len(MessagesOf(OnWire(r) \o wire))}
    BY <2>1, PrefixLeft
  <2> QED  BY <2>2, <2>3 DEF FirstOnes
<1>4. ReaderHolds'
  BY <1>1 DEF ChannelInv, ReaderHolds, HasDelim, EndsInDelim
<1>5. (sock = NoSocket => wire = <<>>)' /\ WireWhole(wire)' /\ EndsInDelim(rx_buf)'
  BY <1>1, EmptyBuffer DEF WireWhole, EndsInDelim
<1> QED  BY <1>1, <1>3, <1>4, <1>5 DEF ChannelInv

LEMMA WriteStep ==
  ASSUME WholeMessages, ChannelInv, IInv', ControllerWrites
  PROVE  /\ ChannelInv' /\ UNCHANGED result
         /\ \E w \in Writes : Queue' = Append(Queue, ContentOf(w))
<1> USE ClientAssumption
<1>1. PICK w \in Writes : wire' = wire \o OnWire(w)
  BY DEF ControllerWrites
<1>2. sock # NoSocket /\ UNCHANGED <<sock, rx_buf, step, chunk, result>>
  BY DEF ControllerWrites, threadVars
<1>3. /\ w \in Seq(Bytes) /\ w # <<>> /\ \A i \in 1 .. Len(w) - 1 : w[i] # Delim
      /\ w \in Joined => w[Len(w)] = Delim
  BY DEF WholeMessages
<1>4. /\ Received \in Seq(Bytes) /\ wire \in Seq(WireBytes) /\ WireWhole(wire)
  BY ReceivedIs DEF ChannelInv
<1>5. Queue' = Append(Queue, ContentOf(w))
  <2> DEFINE r == Received
  <2>1. Queue' = MessagesOf(OnWire(r) \o (wire \o OnWire(w)))
        /\ Queue = MessagesOf(OnWire(r) \o wire)
    BY <1>1, <1>2 DEF Queue, Received
  <2>2. r \in Seq(Bytes) /\ (wire = <<>> \/ wire[Len(wire)].last)
    BY <1>4 DEF WireWhole
  <2> HIDE DEF r
  <2>3. r \in Seq(Bytes) /\ wire \in Seq(WireBytes) /\ w \in Seq(Bytes)
        /\ (wire = <<>> \/ wire[Len(wire)].last)
    BY <1>3, <1>4, <2>2
  <2>4. MessagesOf(OnWire(r) \o (wire \o OnWire(w)))
          = Append(MessagesOf(OnWire(r) \o wire), ContentOf(w))
    BY <1>3, <2>3, WriteAdds
  <2> QED  BY <2>1, <2>4
<1>6. WireWhole(wire')
  <2> DEFINE o == OnWire(w)
             v == wire \o o
  <2>1. Len(w) \in Nat /\ Len(w) > 0 /\ Len(wire) \in Nat
    <3>1. Len(w) # 0
      BY <1>3, EmptySeq
    <3> QED  BY <1>3, <1>4, <3>1
  <2>2. /\ o \in Seq(WireBytes) /\ Len(o) = Len(w)
        /\ \A i \in 1 .. Len(w) :
             /\ o[i].byte = w[i] /\ (o[i].last <=> i = Len(w))
             /\ o[i].joined <=> w \in Joined
    BY <1>3, OnWireIs
  <2> HIDE DEF o
  <2>3. v \in Seq(WireBytes) /\ Len(v) = Len(wire) + Len(w)
    <3>1. o \in Seq(WireBytes) /\ wire \in Seq(WireBytes)
      BY <1>4, <2>2
    <3>2. wire \o o \in Seq(WireBytes) /\ Len(wire \o o) = Len(wire) + Len(o)
      BY <3>1, ConcatProperties
    <3> QED  BY <2>2, <3>2
  <2>4. ASSUME NEW i \in 1 .. Len(wire) PROVE v[i] = wire[i]
    <3>1. i \in 1 .. Len(wire) + Len(o) /\ i <= Len(wire)
      BY <2>1, <2>2
    <3> QED  BY <1>4, <2>2, <3>1, ConcatProperties
  <2>5. ASSUME NEW i \in 1 .. Len(w) PROVE v[Len(wire) + i] = o[i]
    <3> DEFINE j == Len(wire) + i
    <3>1. j \in 1 .. Len(wire) + Len(o) /\ ~(j <= Len(wire)) /\ j - Len(wire) = i
      BY <2>1, <2>2
    <3> HIDE DEF j
    <3>2. v[j] = o[j - Len(wire)]
      BY <1>4, <2>2, <3>1, ConcatProperties
    <3> QED  BY <3>1, <3>2 DEF j
  <2>6. wire' = v
    BY <1>1 DEF o
  <2> HIDE DEF v
  <2>7. v[Len(v)].last
    <3>1. Len(w) \in 1 .. Len(w)
      BY <2>1
    <3> QED  BY <2>2, <2>3, <2>5, <3>1
  <2>8. ASSUME NEW i \in 1 .. Len(v)
        PROVE  (v[i].byte = Delim => v[i].last)
               /\ (v[i].joined /\ v[i].last => v[i].byte = Delim)
    <3>1. CASE i <= Len(wire)
      <4>1. i \in 1 .. Len(wire)
        BY <2>1, <2>3, <3>1
      <4> QED  BY <1>4, <2>4, <4>1 DEF WireWhole
    <3>2. CASE i > Len(wire)
      <4> DEFINE j == i - Len(wire)
      <4>1. j \in 1 .. Len(w) /\ Len(wire) + j = i /\ (j # Len(w) => j \in 1 .. Len(w) - 1)
        BY <2>1, <2>3, <3>2
      <4> HIDE DEF j
      <4>2. v[i] = o[j]
        BY <2>5, <4>1
      <4>3. w[j] = Delim => j = Len(w)
        BY <1>3, <4>1
      <4>4. o[j].byte = w[j] /\ (o[j].last <=> j = Len(w)) /\ (o[j].joined <=> w \in Joined)
        BY <2>2, <4>1
      <4> QED  BY <1>3, <4>2, <4>3, <4>4
    <3> QED  BY <2>1, <2>3, <3>1, <3>2
  <2> QED  BY <2>6, <2>7, <2>8 DEF WireWhole
<1>7. ReaderHolds' /\ EndsInDelim(rx_buf)' /\ (sock = NoSocket => wire = <<>>)'
  BY <1>2 DEF ChannelInv, ReaderHolds, HasDelim, EndsInDelim
<1> QED  BY <1>2, <1>5, <1>6, <1>7 DEF ChannelInv

LEMMA ChunkStep ==
  ASSUME WholeMessages, ChannelInv, IInv', NEW t \in Threads, ReceiveChunk(t)
  PROVE  ChannelInv' /\ UNCHANGED <<Queue, result>>
<1>1. /\ step[t] = "receiving" /\ step' = [step EXCEPT ![t] = "received"]
      /\ UNCHANGED <<sock, rx_buf, result>>
  BY DEF ReceiveChunk, Go
<1>2. PICK n \in 1 .. Len(wire) :
        /\ MayEndAt(n) /\ wire' = SubSeq(wire, n + 1, Len(wire))
        /\ chunk' = [chunk EXCEPT ![t] = [i \in 1 .. n |-> wire[i].byte]]
  BY DEF ReceiveChunk
<1>3. t = Reader /\ step'[Reader] = "received"
  <2>1. t \in Readers /\ step \in [Threads -> Steps]
    BY <1>1 DEF ChannelInv, IInv, ReaderLooked, TypeOK
  <2> QED  BY <1>1, <2>1, ReaderIs
<1>4. /\ wire \in Seq(WireBytes) /\ rx_buf = <<>> /\ Received = <<>>
      /\ chunk \in [Threads -> Seq(Bytes)] /\ Len(wire) \in Nat
      /\ \A i \in 1 .. Len(wire) : wire[i] \in WireBytes
  <2>1. wire \in Seq(WireBytes) /\ rx_buf = <<>> /\ Received = rx_buf
    BY <1>1, <1>3, ReceivedIs
  <2> QED  BY <2>1, ElementOfSeq DEF ChannelInv, IInv, TypeOK
<1> DEFINE c == [i \in 1 .. n |-> wire[i].byte]
           v == SubSeq(wire, n + 1, Len(wire))
<1>5. c \in Seq(Bytes) /\ Len(c) = n /\ \A i \in 1 .. n : c[i] = wire[i].byte
  <2>1. \A i \in 1 .. n : wire[i].byte \in Bytes
    BY <1>4 DEF WireBytes
  <2> QED  BY <1>4, <2>1
<1>6. /\ v \in Seq(WireBytes) /\ Len(v) = Len(wire) - n
      /\ \A i \in 1 .. Len(wire) - n : v[i] = wire[n + i]
  <2>1. /\ n + 1 \in Int /\ Len(wire) \in Int
        /\ \A i \in n + 1 .. Len(wire) : wire[i] \in WireBytes
    BY <1>4
  <2>2. /\ v \in Seq(WireBytes)
        /\ Len(v) = IF n + 1 <= Len(wire) THEN Len(wire) - (n + 1) + 1 ELSE 0
        /\ \A i \in 1 .. Len(wire) - (n + 1) + 1 : v[i] = wire[(n + 1) + i - 1]
    BY <2>1, SubSeqProperties
  <2>3. /\ Len(wire) - (n + 1) + 1 = Len(wire) - n
        /\ \A i \in 1 .. Len(wire) - n : (n + 1) + i - 1 = n + i
        /\ ~(n + 1 <= Len(wire)) => Len(wire) - n = 0
    BY <1>4
  <2> HIDE DEF v
  <2> QED  BY <2>2, <2>3
<1>7. wire' = v /\ chunk'[Reader] = c
  BY <1>2, <1>3, <1>4
<1> HIDE DEF c, v
<1>8. /\ wire[n].last
      /\ \/ \A i \in 1 .. n - 1 : ~wire[i].last
         \/ \A i \in 1 .. n : wire[i].joined
  BY <1>2 DEF MayEndAt, WholeMessages
<1>9. \A i \in 1 .. Len(wire) :
        /\ wire[i].byte = Delim => wire[i].last
        /\ wire[i].joined /\ wire[i].last => wire[i].byte = Delim
  BY DEF ChannelInv, WireWhole
<1>10. Queue' = Queue
  <2>1. \A i \in 1 .. n - 1 : i \in 1 .. n /\ i \in 1 .. Len(wire)
    BY <1>4
  <2>2. \A i \in 1 .. n - 1 : wire[i].last => wire[i].byte = Delim
    BY <1>8, <1>9, <2>1
  <2>3. MessagesOf(OnWire(c) \o v) = MessagesOf(OnWire(<<>>) \o wire)
    BY <1>4, <1>5, <1>6, <1>8, <2>2, Moved
  <2>4. Received' = c
    <3>1. Received' = <<>> \o c
      BY <1>1, <1>4, <1>7 DEF Received
    <3> QED  BY <1>5, <3>1, ConcatEmptySeq
  <2> QED  BY <1>4, <1>7, <2>3, <2>4 DEF Queue
<1>11. ReaderHolds'
  <2>1. c # <<>>
    BY <1>4, <1>5, EmptyBuffer
  <2>2. HasDelim(c) => c[Len(c)] = Delim
    <3> SUFFICES ASSUME NEW i \in 1 .. n, c[i] = Delim PROVE c[n] = Delim
      BY <1>5 DEF HasDelim
    <3>1. wire[i].byte = Delim /\ i \in 1 .. Len(wire) /\ n \in 1 .. n
      BY <1>4, <1>5
    <3>2. wire[i].last
      BY <1>9, <3>1
    <3>3. i # n => i \in 1 .. n - 1
      BY <1>4
    <3>4. i = n \/ wire[n].joined
      BY <1>8, <3>1, <3>2, <3>3
    <3>5. wire[n].byte = Delim
      BY <1>8, <1>9, <3>1, <3>4
    <3> QED  BY <1>5, <3>1, <3>5
  <2> QED  BY <1>3, <1>7, <2>1, <2>2 DEF ReaderHolds, HasDelim, EndsInDelim
<1>12. WireWhole(wire')
  <2>1. CASE Len(v) = 0
    <3>1. v = <<>>
      BY <1>6, <2>1, EmptySeq
    <3> QED  BY <1>7, <3>1, EmptyBuffer DEF WireWhole
  <2>2. CASE Len(v) # 0
    <3>1. Len(v) \in 1 .. Len(wire) - n /\ n + Len(v) = Len(wire) /\ Len(wire) \in 1 .. Len(wire)
      BY <1>4, <1>6, <2>2
    <3>2. wire # <<>>
      BY <3>1, EmptyBuffer
    <3>3. v[Len(v)].last
      <4>1. v[Len(v)] = wire[Len(wire)]
        BY <1>6, <3>1
      <4>2. wire[Len(wire)].last
        BY <3>2 DEF ChannelInv, WireWhole
      <4> QED  BY <4>1, <4>2
    <3>4. ASSUME NEW i \in 1 .. Len(v)
          PROVE  (v[i].byte = Delim => v[i].last)
                 /\ (v[i].joined /\ v[i].last => v[i].byte = Delim)
      <4>1. v[i] = wire[n + i] /\ n + i \in 1 .. Len(wire)
        BY <1>4, <1>6
      <4> QED  BY <1>9, <4>1
    <3> QED  BY <1>7, <3>3, <3>4 DEF WireWhole
  <2> QED  BY <2>1, <2>2
<1>13. (sock = NoSocket => wire = <<>>)' /\ EndsInDelim(rx_buf)'
  <2>1. wire # <<>>
    BY <1>2, EmptyBuffer
  <2>2. sock' # NoSocket
    BY <1>1, <2>1 DEF ChannelInv
  <2> QED  BY <1>1, <2>2 DEF ChannelInv, EndsInDelim
<1> QED  BY <1>1, <1>10, <1>11, <1>12, <1>13 DEF ChannelInv

(* Messages are taken from bytes that end with a delimiter.                 *)
LEMMA AfterEnds ==
  ASSUME NEW b \in Seq(Bytes), HasDelim(b), EndsInDelim(b)
  PROVE  EndsInDelim(AfterDelim(b)) /\ AfterDelim(b) \in Seq(Bytes)
<1> DEFINE d == FirstDelim(b)
           a == AfterDelim(b)
<1>1. d \in 1 .. Len(b) /\ Len(b) \in Nat /\ \A i \in 1 .. Len(b) : b[i] \in Bytes
  BY FirstDelimIsFirst, ElementOfSeq
<1>2. a = SubSeq(b, d + 1, Len(b))
  BY DEF AfterDelim
<1> HIDE DEF d, a
<1>3. /\ a \in Seq(Bytes)
      /\ Len(a) = IF d + 1 <= Len(b) THEN Len(b) - (d + 1) + 1 ELSE 0
      /\ \A i \in 1 .. Len(b) - (d + 1) + 1 : a[i] = b[(d + 1) + i - 1]
  <2>1. d + 1 \in Int /\ Len(b) \in Int /\ \A i \in d + 1 .. Len(b) : b[i] \in Bytes
    BY <1>1
  <2> QED  BY <1>2, <2>1, SubSeqProperties
<1>4. b[Len(b)] = Delim
  <2>1. b # <<>>
    BY <1>1, EmptyBuffer
  <2> QED  BY <2>1 DEF EndsInDelim
<1>5. a = <<>> \/ a[Len(a)] = Delim
  <2>1. CASE Len(a) = 0
    BY <1>3, <2>1, EmptySeq
  <2>2. CASE Len(a) # 0
    <3> DEFINE l == Len(a)
    <3>1. l = Len(b) - (d + 1) + 1 /\ d + 1 <= Len(b)
      BY <1>3, <2>2
    <3> HIDE DEF l
    <3>2. l \in 1 .. Len(b) - (d + 1) + 1 /\ (d + 1) + l - 1 = Len(b)
      BY <1>1, <3>1
    <3>3. a[l] = b[(d + 1) + l - 1]
      BY <1>3, <3>2
    <3> QED  BY <1>4, <3>2, <3>3 DEF l
  <2> QED  BY <2>1, <2>2
<1> QED  BY <1>3, <1>5 DEF EndsInDelim, a

Delivers(t) ==
  /\ Queue # <<>> /\ Queue' = Tail(Queue)
  /\ result' = [result EXCEPT ![t] = Message(Head(Queue))]

LEMMA TakeStep ==
  ASSUME WholeMessages, ChannelInv, IInv', NEW t \in Threads,
         rx_buf' \in Seq(Bytes), EndsInDelim(rx_buf'), UNCHANGED <<sock, wire>>,
         step'[Reader] # "received", chunk'[Reader] = <<>>, NEW m,
         result' = [result EXCEPT ![t] = Message(m)],
         \/ /\ HasDelim(Received) /\ rx_buf' = AfterDelim(Received)
            /\ m = SubSeq(Received, 1, FirstDelim(Received) - 1)
         \/ Received # <<>> /\ ~HasDelim(Received) /\ rx_buf' = <<>> /\ m = Received
  PROVE  ChannelInv' /\ Delivers(t)
<1> DEFINE r == Received
           r2 == rx_buf'
<1>1. Received' = r2
  <2>1. Received' = rx_buf' \o <<>>
    BY DEF Received
  <2> QED  BY <2>1, ConcatEmptySeq
<1>2. r \in Seq(Bytes) /\ wire \in Seq(WireBytes) /\ r2 \in Seq(Bytes)
  BY ReceivedIs
<1>3. Queue = MessagesOf(OnWire(r) \o wire) /\ Queue' = MessagesOf(OnWire(r2) \o wire)
  BY <1>1 DEF Queue
<1>4. \/ HasDelim(r) /\ r2 = AfterDelim(r) /\ m = SubSeq(r, 1, FirstDelim(r) - 1)
      \/ r # <<>> /\ ~HasDelim(r) /\ r2 = <<>> /\ m = r
  OBVIOUS
<1> HIDE DEF r, r2
<1>5. /\ MessagesOf(OnWire(r) \o wire) # <<>>
      /\ Head(MessagesOf(OnWire(r) \o wire)) = m
      /\ MessagesOf(OnWire(r2) \o wire) = Tail(MessagesOf(OnWire(r) \o wire))
  BY <1>2, <1>4, MessageTaken
<1>6. Delivers(t)
  BY <1>3, <1>5 DEF Delivers
<1>7. ReaderHolds'
  BY EmptyBuffer DEF ReaderHolds, HasDelim
<1>8. (sock = NoSocket => wire = <<>>)' /\ WireWhole(wire)' /\ EndsInDelim(rx_buf)'
  BY DEF ChannelInv, WireWhole, EndsInDelim
<1> QED  BY <1>6, <1>7, <1>8 DEF ChannelInv

LEMMA BufferedStep ==
  ASSUME WholeMessages, ChannelInv, IInv', NEW t \in Threads, TakesBuffered(t)
  PROVE  ChannelInv' /\ Delivers(t)
<1>1. /\ t \in Readers /\ step[t] = "idle" /\ HasDelim(rx_buf)
      /\ TakeMessage(t, rx_buf) /\ UNCHANGED <<sock, wire, chunk>>
  BY DEF TakesBuffered, recv_msg
<1>2. t = Reader /\ step \in [Threads -> Steps] /\ rx_buf \in Seq(Bytes) /\ EndsInDelim(rx_buf)
  BY <1>1, ReaderIs DEF ChannelInv, IInv, TypeOK
<1>3. Received = rx_buf /\ chunk[Reader] = <<>>
  BY <1>1, <1>2, ReceivedIs
<1> DEFINE m == SubSeq(rx_buf, 1, FirstDelim(rx_buf) - 1)
<1>4. /\ rx_buf' = AfterDelim(rx_buf) /\ step' = [step EXCEPT ![t] = "idle"]
      /\ result' = [result EXCEPT ![t] = Message(m)]
  BY <1>1 DEF TakeMessage, Returns, Go
<1>5. EndsInDelim(rx_buf') /\ rx_buf' \in Seq(Bytes)
  BY <1>1, <1>2, <1>4, AfterEnds
<1>6. step'[Reader] # "received" /\ chunk'[Reader] = <<>>
  BY <1>1, <1>2, <1>3, <1>4
<1>7. HasDelim(Received) /\ rx_buf' = AfterDelim(Received)
      /\ m = SubSeq(Received, 1, FirstDelim(Received) - 1)
  BY <1>1, <1>3, <1>4
<1> HIDE DEF m
<1> QED  BY <1>1, <1>4, <1>5, <1>6, <1>7, TakeStep

LEMMA ExtendStep ==
  ASSUME WholeMessages, ChannelInv, IInv', NEW t \in Threads, Extend(t)
  PROVE  ChannelInv' /\ (Delivers(t) \/ (Queue' \in FirstOnes /\ Answers))
<1>1. /\ step[t] = "received" /\ chunk' = [chunk EXCEPT ![t] = <<>>]
      /\ UNCHANGED <<sock, wire>>
  BY DEF Extend
<1>2. t = Reader
  <2>1. t \in Readers
    BY <1>1 DEF ChannelInv, IInv, ReaderLooked
  <2> QED  BY <2>1, ReaderIs
<1>3. /\ step \in [Threads -> Steps] /\ chunk \in [Threads -> Seq(Bytes)]
      /\ LockIsFree'
  BY DEF ChannelInv, IInv, TypeOK
<1>4. /\ rx_buf = <<>> /\ Received = chunk[t] /\ Received # <<>>
      /\ Received \in Seq(Bytes) /\ rx_buf \o chunk[t] = Received
  <2>1. rx_buf = <<>> /\ Received = chunk[t] /\ Received # <<>> /\ Received \in Seq(Bytes)
    BY <1>1, <1>2, ReceivedIs
  <2> QED  BY <1>2, <2>1 DEF Received
<1>5. chunk'[Reader] = <<>>
  BY <1>1, <1>2, <1>3
<1>6. CASE sock = NoSocket
  <2>1. Returns(t, Result("failed")) /\ UNCHANGED rx_buf
    BY <1>6 DEF Extend
  <2>2. Answers
    BY <2>1 DEF Returns, Answers, Kinds
  <2>3. wire = <<>> /\ step'[Reader] = "idle"
    BY <1>2, <1>3, <1>6, <2>1 DEF ChannelInv, Returns, Go
  <2>4. Queue' \in FirstOnes
    <3> DEFINE r == Received
               r2 == Received'
    <3>1. r2 = <<>>
      BY <1>4, <1>5, <2>1, EmptyBuffer, ConcatEmptySeq DEF Received
    <3>2. r \in Seq(Bytes) /\ wire \in Seq(WireBytes) /\ r2 \in {r, <<>>}
      BY <3>1, ReceivedIs
    <3>3. Queue' = MessagesOf(OnWire(r2) \o <<>>) /\ Queue = MessagesOf(OnWire(r) \o wire)
      BY <1>1, <2>3 DEF Queue
    <3> HIDE DEF r, r2
    <3>4. MessagesOf(OnWire(r2) \o <<>>)
            \in {SubSeq(MessagesOf(OnWire(r) \o wire), 1, n) :
                   n \in 0 .. Len(MessagesOf(OnWire(r) \o wire))}
      BY <3>2, PrefixLeft
    <3> QED  BY <3>3, <3>4 DEF FirstOnes
  <2>5. ReaderHolds'
    BY <1>5, <2>3, EmptyBuffer DEF ReaderHolds, HasDelim
  <2>6. (sock = NoSocket => wire = <<>>)' /\ WireWhole(wire)' /\ EndsInDelim(rx_buf)'
    BY <1>1, <2>1 DEF ChannelInv, WireWhole, EndsInDelim
  <2> QED  BY <2>2, <2>4, <2>5, <2>6 DEF ChannelInv
<1>7. CASE sock # NoSocket /\ HasDelim(Received)
  <2>1. TakeMessage(t, Received)
    BY <1>4, <1>7 DEF Extend
  <2> DEFINE m == SubSeq(Received, 1, FirstDelim(Received) - 1)
  <2>2. /\ rx_buf' = AfterDelim(Received) /\ step' = [step EXCEPT ![t] = "idle"]
        /\ result' = [result EXCEPT ![t] = Message(m)]
    BY <2>1 DEF TakeMessage, Returns, Go
  <2>3. EndsInDelim(Received)
    BY <1>2, <1>4, <1>7 DEF ChannelInv, ReaderHolds
  <2>4. EndsInDelim(rx_buf') /\ rx_buf' \in Seq(Bytes)
    BY <1>4, <1>7, <2>2, <2>3, AfterEnds
  <2>5. step'[Reader] # "received"
    BY <1>2, <1>3, <2>2
  <2>6. m = SubSeq(Received, 1, FirstDelim(Received) - 1)
    OBVIOUS
  <2> HIDE DEF m
  <2>7. ChannelInv' /\ Delivers(t)
    BY <1>1, <1>5, <1>7, <2>2, <2>4, <2>5, <2>6, TakeStep
  <2> QED  BY <2>7
<1>8. CASE sock # NoSocket /\ ~HasDelim(Received)
  <2>1. ~(rx_buf' = Received /\ Go(t, "blocked"))
    BY <1>3 DEF Go, LockIsFree
  <2>2. rx_buf' = <<>> /\ Returns(t, Message(Received))
    BY <1>4, <1>8, <2>1 DEF Extend, AfterUnframed
  <2>3. /\ step' = [step EXCEPT ![t] = "idle"]
        /\ result' = [result EXCEPT ![t] = Message(Received)]
    BY <2>2 DEF Returns, Go
  <2>4. EndsInDelim(rx_buf') /\ rx_buf' \in Seq(Bytes)
    BY <2>2, EmptyBuffer DEF EndsInDelim
  <2>5. step'[Reader] # "received"
    BY <1>2, <1>3, <2>3
  <2>6. ChannelInv' /\ Delivers(t)
    BY <1>1, <1>4, <1>5, <1>8, <2>2, <2>3, <2>4, <2>5, TakeStep
  <2> QED  BY <2>6
<1> QED  BY <1>6, <1>7, <1>8

LEMMA ChannelInit ==
  ASSUME WholeMessages, Init PROVE ChannelInv /\ Channel!Init
<1>1. IInv
  BY InitInv
<1>2. Reader \in Threads
  BY ReaderIs
<1>3. /\ rx_buf = <<>> /\ wire = <<>> /\ chunk[Reader] = <<>> /\ step[Reader] = "idle"
      /\ result = [t \in Threads |-> Result("none")]
  BY <1>2 DEF Init
<1>4. WireWhole(wire) /\ EndsInDelim(rx_buf) /\ ReaderHolds
  BY <1>3, EmptyBuffer DEF WireWhole, EndsInDelim, ReaderHolds, HasDelim
<1>5. Queue = <<>>
  <2>1. Received = <<>>
    BY <1>3, EmptyBuffer, ConcatEmptySeq DEF Received
  <2> QED  BY <1>3, <2>1, NoMessages DEF Queue
<1> QED  BY <1>1, <1>3, <1>4, <1>5 DEF ChannelInv, Channel!Init, Result

LEMMA ChannelNext ==
  ASSUME WholeMessages, ChannelInv, [Next]_clientVars
  PROVE  ChannelInv' /\ [Channel!Next]_(Channel!channelVars)
<1>1. IInv'
  BY NextInv DEF WholeMessages, ChannelInv, Room
<1>2. ASSUME Queue' \in FirstOnes, Answers PROVE Channel!Next
  <2>1. UNCHANGED result \/ \E u \in Threads : Channel!Ended(u)
    BY <1>2 DEF Answers, Channel!Ended, Result
  <2> QED  BY <1>2, <2>1 DEF FirstOnes, Channel!Next, Channel!Lose
<1>3. ASSUME NEW t \in Threads, Delivers(t) PROVE Channel!Next
  <2>1. Channel!Deliver(t)
    BY <1>3 DEF Delivers, Message, Channel!Deliver
  <2> QED  BY <2>1 DEF Channel!Next
<1>4. CASE UNCHANGED clientVars
  <2>1. LeavesStream
    BY <1>4 DEF clientVars, threadVars, LeavesStream, KeepsReader, Answers
  <2>2. UNCHANGED <<Queue, result>> /\ ChannelInv'
    BY <1>1, <1>4, <2>1, LeaveStep DEF clientVars, threadVars
  <2> QED  BY <2>2 DEF Channel!channelVars
<1>5. CASE ControllerWrites
  <2>1. ChannelInv' /\ UNCHANGED result
        /\ \E w \in Writes : Queue' = Append(Queue, ContentOf(w))
    BY <1>1, <1>5, WriteStep
  <2>2. Channel!Write
    BY <2>1 DEF Channel!Write
  <2> QED  BY <2>1, <2>2 DEF Channel!Next
<1>6. CASE LeavesStream
  <2>1. ChannelInv' /\ UNCHANGED Queue /\ Answers
    BY <1>1, <1>6, LeaveStep
  <2>2. CASE UNCHANGED result
    BY <2>1, <2>2 DEF Channel!channelVars
  <2>3. CASE ~UNCHANGED result
    <3>1. \E u \in Threads : Channel!Return(u)
      BY <2>1, <2>3 DEF Answers, Result, Channel!Return, Channel!Ended
    <3> QED  BY <2>1, <3>1 DEF Channel!Next
  <2> QED  BY <2>2, <2>3
<1>7. CASE LosesStream
  BY <1>1, <1>2, <1>7, LoseStep
<1>8. ASSUME NEW t \in Threads, ReceiveChunk(t)
      PROVE  ChannelInv' /\ [Channel!Next]_(Channel!channelVars)
  <2>1. ChannelInv' /\ UNCHANGED <<Queue, result>>
    BY <1>1, <1>8, ChunkStep
  <2> QED  BY <2>1 DEF Channel!channelVars
<1>9. ASSUME NEW t \in Threads, TakesBuffered(t) PROVE ChannelInv' /\ Channel!Next
  BY <1>1, <1>3, <1>9, BufferedStep
<1>10. ASSUME NEW t \in Threads, Extend(t) PROVE ChannelInv' /\ Channel!Next
  BY <1>1, <1>2, <1>3, <1>10, ExtendStep
<1>11. CASE Next
  <2>1. \/ ControllerWrites \/ LeavesStream \/ LosesStream
        \/ \E t \in Threads : ReceiveChunk(t) \/ TakesBuffered(t) \/ Extend(t)
    BY <1>11, StepKinds DEF ChannelInv
  <2> QED  BY <1>5, <1>6, <1>7, <1>8, <1>9, <1>10, <2>1
<1> QED  BY <1>4, <1>11

(* For a client with one reader whose messages arrive as a whole, recv_msg   *)
(* returns the messages of the controller one by one in the order they were *)
(* written, whatever recv returns together and whichever thread closes or   *)
(* connects: every step is a step of the channel or none.                   *)
THEOREM ClientIsAChannel == ASSUME WholeMessages PROVE Spec => ImplementsChannel
<1>1. Init => ChannelInv /\ Channel!Init
  BY ChannelInit
<1>2. ChannelInv /\ [Next]_clientVars => ChannelInv' /\ [Channel!Next]_(Channel!channelVars)
  BY ChannelNext
<1> QED
  BY <1>1, <1>2, PTL DEF Spec, ImplementsChannel, Channel!Spec
=============================================================================
