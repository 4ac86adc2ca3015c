----------------------------- MODULE SendQueue -----------------------------
(***************************************************************************)
(* The send queue of a peer socket (internal/node/websocket.go): senders   *)
(* of gossip, answers and requests, the write loop, and the end of the     *)
(* connection, which the read loop, a round or Service.Close may bring     *)
(* about while messages are queued and one is being written.               *)
(*                                                                         *)
(* A message is its size.  queue runs under sendMu and is one step; the    *)
(* channel and the counter of bytes are changed by separate steps          *)
(* everywhere else.                                                        *)
(***************************************************************************)
EXTENDS Integers, Sequences

CONSTANTS Senders, Closers,
          Sizes,       \* of messages
          MaxBytes,    \* maxSocketQueuedBytes
          Capacity,    \* of the channel
          MaxSends     \* bound of the model: messages offered by each sender

QueueAssumption ==
    Sizes \subseteq Nat \ {0} /\ MaxBytes \in Nat /\ Capacity \in Nat \ {0} /\ MaxSends \in Nat

\* Who drains: the deferred call of the writer, and the one closer that
\* closeOnce lets in.
Drainers == {"writer", "closer"}

VARIABLES send,         \* the channel
          queuedBytes,
          sendClosed,
          done,         \* the channel p.done is closed
          broken,       \* the connection is closed or dead: writes fail
          writer,       \* "select", "write", "drain" or "end"
          closer,       \* by closer: "out", "wait" (for closeOnce), "drain", "end"
          held,         \* the message each drainer has taken and not yet released, or 0
          sends

vars == <<send, queuedBytes, sendClosed, done, broken, writer, closer, held, sends>>

TypeOK ==
    /\ send \in Seq(Sizes)
    /\ queuedBytes \in 0..MaxBytes
    /\ sendClosed \in BOOLEAN /\ done \in BOOLEAN /\ broken \in BOOLEAN
    /\ writer \in {"select", "write", "drain", "end"}
    /\ closer \in [Closers -> {"out", "wait", "drain", "end"}]
    /\ held \in [Drainers -> Sizes \cup {0}]
    /\ sends \in [Senders -> 0..MaxSends]

Init ==
    /\ send = <<>> /\ queuedBytes = 0 /\ sendClosed = FALSE /\ done = FALSE /\ broken = FALSE
    /\ writer = "select"
    /\ closer = [c \in Closers |-> "out"]
    /\ held = [d \in Drainers |-> 0]
    /\ sends = [s \in Senders |-> 0]
-----------------------------------------------------------------------------
\* Mutant: the flag is not looked at.
AcceptsAfterClose(size) == queuedBytes <= MaxBytes - size

Accepts(size) == ~sendClosed /\ queuedBytes <= MaxBytes - size

\* queue: refused when closed, over the byte limit, or when the channel is full.
Queue(s) ==
    /\ sends[s] < MaxSends
    /\ sends' = [sends EXCEPT ![s] = @ + 1]
    /\ \E size \in Sizes :
          IF Accepts(size) /\ Len(send) < Capacity
          THEN /\ send' = Append(send, size)
               /\ queuedBytes' = queuedBytes + size
          ELSE UNCHANGED <<send, queuedBytes>>
    /\ UNCHANGED <<sendClosed, done, broken, writer, closer, held>>

Take(d) == held' = [held EXCEPT ![d] = Head(send)] /\ send' = Tail(send)

\* releaseQueuedBytes, which never goes below zero.
Release(d) ==
    /\ held' = [held EXCEPT ![d] = 0]
    /\ queuedBytes' = IF queuedBytes < held[d] THEN 0 ELSE queuedBytes - held[d]
-----------------------------------------------------------------------------
(* writeLoop.                                                              *)

WriterTakes ==
    /\ writer = "select" /\ send # <<>>
    /\ Take("writer")
    /\ writer' = "write"
    /\ UNCHANGED <<queuedBytes, sendClosed, done, broken, closer, sends>>

\* WriteMessage, which fails on a broken connection, then releaseQueuedBytes.
WriterWrites ==
    /\ writer = "write"
    /\ Release("writer")
    /\ writer' = IF broken THEN "drain" ELSE "select"
    /\ UNCHANGED <<send, sendClosed, done, broken, closer, sends>>

\* p.done, the context of the service, or a ping that cannot be sent.
WriterStops ==
    /\ writer = "select" /\ (done \/ broken)
    /\ writer' = "drain"
    /\ UNCHANGED <<send, queuedBytes, sendClosed, done, broken, closer, held, sends>>

\* The other end goes away, or a write meets its deadline.
Break ==
    /\ ~broken
    /\ broken' = TRUE
    /\ UNCHANGED <<send, queuedBytes, sendClosed, done, writer, closer, held, sends>>
-----------------------------------------------------------------------------
(* disableSendQueue, of the writer and of close.                           *)

\* close: the first to come in runs, the others wait for it.
Close(c) ==
    /\ closer[c] = "out"
    /\ IF \A d \in Closers : closer[d] \in {"out", "wait"}
       THEN closer' = [closer EXCEPT ![c] = "drain"]
       ELSE closer' = [closer EXCEPT ![c] = "wait"]
    /\ UNCHANGED <<send, queuedBytes, sendClosed, done, broken, writer, held, sends>>

Draining(d) == IF d = "writer" THEN writer = "drain" ELSE \E c \in Closers : closer[c] = "drain"

DisableQueue(d) ==
    /\ Draining(d) /\ ~sendClosed
    /\ sendClosed' = TRUE
    /\ UNCHANGED <<send, queuedBytes, done, broken, writer, closer, held, sends>>

DrainTakes(d) ==
    /\ Draining(d) /\ sendClosed /\ held[d] = 0
    /\ send # <<>>
    /\ Take(d)
    /\ UNCHANGED <<queuedBytes, sendClosed, done, broken, writer, closer, sends>>

DrainReleases(d) ==
    /\ Draining(d) /\ held[d] # 0
    /\ Release(d)
    /\ UNCHANGED <<send, sendClosed, done, broken, writer, closer, sends>>

WriterEnds ==
    /\ writer = "drain" /\ sendClosed /\ held["writer"] = 0 /\ send = <<>>
    /\ writer' = "end"
    /\ UNCHANGED <<send, queuedBytes, sendClosed, done, broken, closer, held, sends>>

\* close(p.done) and the close of the connection.
CloserEnds(c) ==
    /\ closer[c] = "drain" /\ sendClosed /\ held["closer"] = 0 /\ send = <<>>
    /\ closer' = [closer EXCEPT ![c] = "end"]
    /\ done' = TRUE /\ broken' = TRUE
    /\ UNCHANGED <<send, queuedBytes, sendClosed, writer, held, sends>>

WaiterEnds(c) ==
    /\ closer[c] = "wait"
    /\ \E d \in Closers : closer[d] = "end"
    /\ closer' = [closer EXCEPT ![c] = "end"]
    /\ UNCHANGED <<send, queuedBytes, sendClosed, done, broken, writer, held, sends>>

WriterStep == WriterTakes \/ WriterWrites \/ WriterStops \/ WriterEnds
DrainStep(d) == DisableQueue(d) \/ DrainTakes(d) \/ DrainReleases(d)
CloserStep(c) == CloserEnds(c) \/ WaiterEnds(c)

Next ==
    \/ \E s \in Senders : Queue(s)
    \/ WriterStep \/ Break
    \/ \E d \in Drainers : DrainStep(d)
    \/ \E c \in Closers : Close(c) \/ CloserStep(c)

Spec == Init /\ [][Next]_vars
-----------------------------------------------------------------------------
\* The bytes of all the messages of a sequence.
Bytes(q) ==
    LET b[n \in 0..Len(q)] == IF n = 0 THEN 0 ELSE b[n - 1] + q[n]
    IN  b[Len(q)]

\* The counter is exactly what is queued and what somebody has taken and not yet
\* accounted for, with a writer and two drains at work on one channel: the clamp
\* at zero in releaseQueuedBytes (websocket.go:954) never hides a loss.
QueuedBytesExact == queuedBytes = Bytes(send) + held["writer"] + held["closer"]

\* Nothing is left in the queue of a closed connection, and nobody can add to it.
ClosedQueueStaysEmpty ==
    (writer = "end" \/ \E c \in Closers : closer[c] = "end") => sendClosed /\ send = <<>>
=============================================================================
