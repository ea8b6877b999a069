----------------------------- MODULE TcpClient -----------------------------
(***************************************************************************)
(* TcpClient: the LF-framed byte stream every node of the bridge uses to    *)
(* talk to C4G.                                                            *)
(*                                                                         *)
(* A step is what runs between two uses of self._lock, or the call of the   *)
(* socket that runs without it; so other threads may close or replace the   *)
(* connection between the two locked parts of recv_msg.  The stream is the  *)
(* sequence of WRITEs of the controller not yet received.  Bytes are        *)
(* symbols; what encode, decode and strip do to them is left out.          *)
(***************************************************************************)
EXTENDS Naturals, Sequences

CONSTANTS
  Threads,         \* the threads that use the client
  Readers,         \* the threads that call recv_msg
  Symbols,         \* the bytes of messages
  Delim,           \* DELIM
  Chunk,           \* recv_chunk_size
  MaxMessage,      \* max_message_bytes
  Writes,          \* what C4G writes, with or without a delimiter
  Joined,          \* the WRITEs of which one recv may return several
  Splits,          \* whether a recv may return part of a WRITE
  MaxWrites,       \* bound on the WRITEs
  MaxConnections   \* bound on the connections

Bytes == Symbols \cup {Delim}

ASSUME ClientAssumption ==
  /\ Readers \subseteq Threads /\ Delim \notin Symbols
  /\ Chunk \in Nat \ {0} /\ MaxMessage \in Nat
  /\ Writes \subseteq Seq(Bytes) \ {<<>>} /\ Joined \subseteq Writes
  /\ Splits \in BOOLEAN /\ MaxWrites \in Nat /\ MaxConnections \in Nat

NoSocket == 0

(* "blocked": the thread waits for ever for the lock it holds.             *)
Steps == {"idle", "connecting", "sending", "receiving", "received", "blocked"}
Kinds == {"none", "closed", "connected", "sent", "message", "timeout", "failed"}

VARIABLES
  sock,         \* number of the connection in _sock, or NoSocket
  rx_buf,
  connections,  \* number of connections made so far
  written,      \* number of WRITEs of C4G
  wire,         \* what C4G wrote on the connection sock, not yet received
  step,         \* [t \in Threads]: where thread t is
  socket,       \* [t \in Threads]: its local variable sock
  chunk,        \* [t \in Threads]: its local variable chunk
  result        \* [t \in Threads]: how its last call ended

threadVars == <<step, socket, chunk, result>>
clientVars == <<sock, rx_buf, connections, written, wire, threadVars>>

Result(kind) == [kind |-> kind, text |-> <<>>]
Message(m)   == [kind |-> "message", text |-> m]

(* A byte on its way: the last one of a WRITE, and whether the WRITE may be *)
(* received with others.                                                   *)
WireBytes == [byte : Bytes, last : BOOLEAN, joined : BOOLEAN]

TypeOK ==
  /\ sock \in Nat /\ connections \in Nat /\ written \in Nat
  /\ rx_buf \in Seq(Bytes) /\ Len(rx_buf) <= MaxMessage
  /\ wire \in Seq(WireBytes)
  /\ step \in [Threads -> Steps] /\ socket \in [Threads -> Nat]
  /\ chunk \in [Threads -> Seq(Bytes)]
  /\ result \in [Threads -> [kind : Kinds, text : Seq(Bytes)]]

Init ==
  /\ sock = NoSocket /\ rx_buf = <<>> /\ connections = 0
  /\ written = 0 /\ wire = <<>>
  /\ step = [t \in Threads |-> "idle"]
  /\ socket = [t \in Threads |-> NoSocket]
  /\ chunk = [t \in Threads |-> <<>>]
  /\ result = [t \in Threads |-> Result("none")]

-----------------------------------------------------------------------------
LockIsFree == \A t \in Threads : step[t] # "blocked"

Go(t, s) == step' = [step EXCEPT ![t] = s]

Returns(t, r) == Go(t, "idle") /\ result' = [result EXCEPT ![t] = r]

(* What is on its way on a closed connection is never received.            *)
DropConnection == sock' = NoSocket /\ rx_buf' = <<>> /\ wire' = <<>>

close(t) ==
  /\ step[t] = "idle" /\ LockIsFree
  /\ DropConnection
  /\ Returns(t, Result("closed"))
  /\ UNCHANGED <<connections, written, socket, chunk>>

(* Each attempt begins with close().                                       *)
ensure_connected(t) ==
  /\ step[t] = "idle" /\ LockIsFree
  /\ IF sock # NoSocket
       THEN /\ Returns(t, Result("connected"))
            /\ UNCHANGED <<sock, rx_buf, wire>>
       ELSE DropConnection /\ Go(t, "connecting") /\ UNCHANGED result
  /\ UNCHANGED <<connections, written, socket, chunk>>

(* Bound: at most MaxConnections connections are made.                     *)
install_socket(t) ==
  /\ step[t] = "connecting" /\ LockIsFree
  /\ connections < MaxConnections
  /\ connections' = connections + 1
  /\ sock' = connections' /\ rx_buf' = <<>> /\ wire' = <<>>
  /\ Returns(t, Result("connected"))
  /\ UNCHANGED <<written, socket, chunk>>

ConnectFails(t) ==
  /\ step[t] = "connecting" /\ LockIsFree
  /\ \/ DropConnection /\ UNCHANGED <<step, result>>
     \/ Returns(t, Result("failed")) /\ UNCHANGED <<sock, rx_buf, wire>>
  /\ UNCHANGED <<connections, written, socket, chunk>>

-----------------------------------------------------------------------------
send_msg(t) ==
  /\ step[t] = "idle" /\ LockIsFree
  /\ IF sock = NoSocket
       THEN Returns(t, Result("failed")) /\ UNCHANGED socket
       ELSE /\ Go(t, "sending") /\ UNCHANGED result
            /\ socket' = [socket EXCEPT ![t] = sock]
  /\ UNCHANGED <<sock, rx_buf, connections, written, wire, chunk>>

SendDone(t) ==
  /\ step[t] = "sending" /\ socket[t] = sock
  /\ Returns(t, Result("sent"))
  /\ UNCHANGED <<sock, rx_buf, connections, written, wire, socket, chunk>>

SendFails(t) ==
  /\ step[t] = "sending" /\ LockIsFree
  /\ DropConnection
  /\ Returns(t, Result("failed"))
  /\ UNCHANGED <<connections, written, socket, chunk>>

-----------------------------------------------------------------------------
HasDelim(buf) == \E i \in 1 .. Len(buf) : buf[i] = Delim

FirstDelim(buf) ==
  CHOOSE i \in 1 .. Len(buf) :
    buf[i] = Delim /\ \A j \in 1 .. i - 1 : buf[j] # Delim

(* Mutant: the delimiter stays in the buffer.                              *)
DelimKept(buf) == SubSeq(buf, FirstDelim(buf), Len(buf))

AfterDelim(buf) == SubSeq(buf, FirstDelim(buf) + 1, Len(buf))

(* The first message of the buffer is returned, and removed from it.       *)
TakeMessage(t, buf) ==
  /\ rx_buf' = AfterDelim(buf)
  /\ Returns(t, Message(SubSeq(buf, 1, FirstDelim(buf) - 1)))

(* The first locked part of recv_msg.                                      *)
recv_msg(t) ==
  /\ t \in Readers /\ step[t] = "idle" /\ LockIsFree
  /\ IF sock = NoSocket
       THEN Returns(t, Result("failed")) /\ UNCHANGED <<rx_buf, socket>>
       ELSE IF HasDelim(rx_buf)
       THEN TakeMessage(t, rx_buf) /\ UNCHANGED socket
       ELSE /\ Go(t, "receiving")
            /\ socket' = [socket EXCEPT ![t] = sock]
            /\ UNCHANGED <<rx_buf, result>>
  /\ UNCHANGED <<sock, connections, written, wire, chunk>>

(* What sock.recv may return: any n bytes if WRITEs may be split, else one  *)
(* WRITE, or several that may be received together.                        *)
MayEndAt(n) ==
  \/ Splits
  \/ /\ wire[n].last
     /\ \/ \A i \in 1 .. n - 1 : ~wire[i].last
        \/ \A i \in 1 .. n : wire[i].joined

ReceiveChunk(t) ==
  /\ step[t] = "receiving" /\ socket[t] = sock
  /\ \E n \in 1 .. Len(wire) :
       /\ n <= Chunk /\ MayEndAt(n)
       /\ chunk' = [chunk EXCEPT ![t] = [i \in 1 .. n |-> wire[i].byte]]
       /\ wire' = SubSeq(wire, n + 1, Len(wire))
  /\ Go(t, "received")
  /\ UNCHANGED <<sock, rx_buf, connections, written, socket, result>>

ReceiveTimeout(t) ==
  /\ step[t] = "receiving" /\ wire = <<>>
  /\ Returns(t, Result("timeout"))
  /\ UNCHANGED <<sock, rx_buf, connections, written, wire, socket, chunk>>

(* The socket fails, was closed by another thread, or by the peer.         *)
ReceiveFails(t) ==
  /\ step[t] = "receiving" /\ LockIsFree
  /\ DropConnection
  /\ Returns(t, Result("failed"))
  /\ UNCHANGED <<connections, written, socket, chunk>>

(* Mutant: bytes without a delimiter stay in the buffer.                   *)
KeepUnframed(buf) == buf

AfterUnframed(buf) == <<>>

(* The second locked part of recv_msg.  close() takes the lock again, and   *)
(* it is not reentrant.                                                    *)
Extend(t) ==
  LET buf == rx_buf \o chunk[t] IN
  /\ step[t] = "received" /\ LockIsFree
  /\ IF sock = NoSocket
       THEN Returns(t, Result("failed")) /\ UNCHANGED rx_buf
       ELSE IF HasDelim(buf)
       THEN TakeMessage(t, buf)
       ELSE IF Len(buf) > MaxMessage
       THEN rx_buf' = buf /\ Go(t, "blocked") /\ UNCHANGED result
       ELSE rx_buf' = AfterUnframed(buf) /\ Returns(t, Message(buf))
  /\ chunk' = [chunk EXCEPT ![t] = <<>>]
  /\ UNCHANGED <<sock, connections, written, wire, socket>>

-----------------------------------------------------------------------------
OnWire(w) ==
  [i \in 1 .. Len(w) |->
     [byte |-> w[i], last |-> i = Len(w), joined |-> w \in Joined]]

(* Bound: C4G writes MaxWrites times.                                      *)
ControllerWrites ==
  /\ sock # NoSocket /\ written < MaxWrites
  /\ written' = written + 1
  /\ \E w \in Writes : wire' = wire \o OnWire(w)
  /\ UNCHANGED <<sock, rx_buf, connections, threadVars>>

Next ==
  \/ ControllerWrites
  \/ \E t \in Threads :
       \/ close(t) \/ ensure_connected(t) \/ install_socket(t) \/ ConnectFails(t)
       \/ send_msg(t) \/ SendDone(t) \/ SendFails(t)
       \/ recv_msg(t) \/ ReceiveChunk(t) \/ ReceiveTimeout(t)
       \/ ReceiveFails(t) \/ Extend(t)

Spec == Init /\ [][Next]_clientVars

-----------------------------------------------------------------------------
(* The instances the nodes create: one thread reads, and a message may be   *)
(* longer than what two calls of recv return.                              *)
OneReader == \A t, u \in Readers : t = u
TwoChunks == 2 * Chunk - 1 <= MaxMessage

(* No thread closes the client while it holds the lock: with one reader and *)
(* a limit of two chunks no message is ever found too long, so the branch   *)
(* of recv_msg that would wait for its own lock is not reached.            *)
NeverSelfBlocked == LockIsFree
=============================================================================
