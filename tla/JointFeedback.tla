--------------------------- MODULE JointFeedback ---------------------------
(***************************************************************************)
(* The joint feedback node: a worker thread that keeps a TcpClient          *)
(* connected to C4G's feedback port and publishes every joint message, and  *)
(* the main thread that stops it.                                          *)
(*                                                                         *)
(* The program ROS2_JOINT_FEEDBACK_1 writes the joints every 50 ms, without *)
(* a delimiter.  Its nth WRITE has the digit of n in each value; two of the *)
(* six values stand for all, and the last one has two digits, so that a     *)
(* part of it is a number too.                                             *)
(***************************************************************************)
EXTENDS TcpClient

CONSTANTS
  Worker, Main,    \* the two threads
  Prefix, Comma,   \* MESSAGE_PREFIX and the separator of the values
  Digits           \* the digits of the WRITEs, by their number

DigitSet == {Digits[n] : n \in 1 .. MaxWrites}

Snapshot(n) == <<Prefix, Digits[n], Comma, Digits[n], Digits[n]>>

ASSUME FeedbackAssumption ==
  /\ Threads = {Worker, Main} /\ Worker # Main /\ Readers = {Worker}
  /\ Symbols = {Prefix, Comma} \cup DigitSet
  /\ Writes = {Snapshot(n) : n \in 1 .. MaxWrites}
  /\ {Prefix, Comma} \cap DigitSet = {} /\ Prefix # Comma
  /\ \A m, n \in 1 .. MaxWrites : Digits[m] = Digits[n] => m = n
  /\ Chunk <= MaxMessage

VARIABLES
  worker,     \* where _feedback_loop is
  main,       \* where main is: in spin, or in destroy_node
  published   \* the last joint message published

feedbackVars == <<clientVars, worker, main, published>>

FeedbackTypeOK ==
  /\ TypeOK
  /\ worker \in {"loop", "connect", "receive", "publish", "close", "wait",
                 "ended"}
  /\ main \in {"spin", "stopping", "joining", "destroyed"}
  /\ published \in Seq(Bytes)

FeedbackInit ==
  Init /\ worker = "loop" /\ main = "spin" /\ published = <<>>

-----------------------------------------------------------------------------
(* send_joint_feedback, every feedback_period_ms                           *)
send_joint_feedback ==
  /\ ControllerWrites
  /\ wire' = wire \o OnWire(Snapshot(written'))
  /\ UNCHANGED <<worker, main, published>>

(* rclpy.ok() is false, or _stop_event is set.                             *)
Stopped == main # "spin"

LoopCondition ==
  /\ worker = "loop" /\ LockIsFree
  /\ worker' = IF Stopped THEN "ended"
               ELSE IF sock = NoSocket THEN "connect" ELSE "receive"
  /\ UNCHANGED <<clientVars, main, published>>

(* max_attempts = 1: a failed attempt is not repeated here.                *)
Connect ==
  /\ worker = "connect"
  /\ \/ ensure_connected(Worker) \/ install_socket(Worker)
     \/ ConnectFails(Worker) /\ step'[Worker] = "idle"
  /\ worker' = IF step'[Worker] # "idle" THEN "connect"
               ELSE IF result'[Worker].kind = "connected" THEN "receive"
               ELSE "close"
  /\ UNCHANGED <<main, published>>

(* Mutant: what follows the last value is not looked at.                   *)
BeginsWithJoints(m) ==
  Len(m) >= 5 /\ m[1] = Prefix /\ m[3] = Comma

(* _parse_joint_message: the prefix and one number for every axis.         *)
IsJointMessage(m) ==
  \E c \in 3 .. Len(m) - 1 :
    /\ m[1] = Prefix /\ m[c] = Comma
    /\ \A i \in 2 .. Len(m) : i # c => m[i] \in DigitSet

(* A timeout and an invalid message begin the next round; any other error  *)
(* closes the connection.                                                  *)
AfterReceive(r) ==
  IF r.kind = "message"
    THEN IF IsJointMessage(r.text) THEN "publish" ELSE "loop"
    ELSE IF r.kind = "timeout" THEN "loop" ELSE "close"

Receive ==
  /\ worker = "receive"
  /\ \/ recv_msg(Worker)       \/ ReceiveChunk(Worker)
     \/ ReceiveTimeout(Worker) \/ ReceiveFails(Worker) \/ Extend(Worker)
  /\ worker' = IF step'[Worker] = "idle" THEN AfterReceive(result'[Worker])
                                         ELSE "receive"
  /\ UNCHANGED <<main, published>>

(* A publisher that is destroyed raises, one whose context is shut down     *)
(* may.                                                                    *)
Publish ==
  /\ worker = "publish"
  /\ \/ /\ main # "destroyed"
        /\ published' = result[Worker].text /\ worker' = "loop"
     \/ Stopped /\ worker' = "close" /\ UNCHANGED published
  /\ UNCHANGED <<clientVars, main>>

CloseAfterError ==
  /\ worker = "close" /\ close(Worker)
  /\ worker' = "wait"
  /\ UNCHANGED <<main, published>>

(* _stop_event.wait(reconnect_backoff_s)                                   *)
WaitBackoff ==
  /\ worker = "wait" /\ worker' = "loop"
  /\ UNCHANGED <<clientVars, main, published>>

-----------------------------------------------------------------------------
(* The interrupt that ends spin, and the first line of destroy_node.       *)
Interrupt ==
  /\ main = "spin" /\ main' = "stopping"
  /\ UNCHANGED <<clientVars, worker, published>>

DestroyCloses ==
  /\ main = "stopping" /\ close(Main)
  /\ main' = "joining"
  /\ UNCHANGED <<worker, published>>

(* join returns after two seconds also when the worker has not ended: it    *)
(* may be in a connect, which takes three.                                 *)
DestroyNode ==
  /\ main = "joining" /\ main' = "destroyed"
  /\ UNCHANGED <<clientVars, worker, published>>

-----------------------------------------------------------------------------
WorkerStep ==
  LoopCondition \/ Connect \/ Receive \/ Publish \/ CloseAfterError \/ WaitBackoff

FeedbackNext ==
  \/ send_joint_feedback
  \/ WorkerStep
  \/ Interrupt \/ DestroyCloses \/ DestroyNode

FeedbackSpec == FeedbackInit /\ [][FeedbackNext]_feedbackVars

-----------------------------------------------------------------------------
(* Every message published is one WRITE of C4G, later than the one before,  *)
(* also over a lost connection and when TCP returns two WRITEs together,    *)
(* which the parser refuses.                                               *)
PublishesInOrder ==
  [][published' # published =>
       \E n \in 1 .. written :
         /\ published' = Snapshot(n)
         /\ \A m \in 1 .. written : published = Snapshot(m) => m < n]_feedbackVars
=============================================================================
