----------------------------- MODULE Reconcile -----------------------------
(***************************************************************************)
(* One WebSocket between two honest nodes (internal/node/websocket.go):    *)
(* the hello, the negotiation of the reconcile capability, gossip, and the *)
(* rounds in which the accepting side ("in") fetches the chain and the     *)
(* mempool of the dialling side ("out") over the connection it opened.     *)
(*                                                                         *)
(* A side registers its socket, then queues its hello, then reads: what it *)
(* broadcasts in between overtakes the hello, and its reader, who wants    *)
(* the hello first, ends the connection.                                   *)
(*                                                                         *)
(* Both nodes are on one chain, so that a height names a block; forks are  *)
(* the subject of ChainSync.  wire[s] is what side s has yet to read: the  *)
(* other side's send queue and the connection together, in order.  The     *)
(* pool of "out" fits one page (MempoolSync has the pages).  Request       *)
(* numbers come from a counter; here a number is used again only when      *)
(* nothing mentions it any more.                                           *)
(***************************************************************************)
EXTENDS Integers, Sequences, FiniteSets, FiniteSetsExt

CONSTANTS MaxHeight,   \* bound of the model: the chain of "out"
          QueueCap,    \* capacity of a wire
          Page,        \* maxSyncHeaderBatch
          Batch,       \* maxSocketBlockBatch
          MaxChunks,   \* maxChainSyncChunksPerRound
          BlockScore,  \* invalidBlockScore; invalidTransactionScore is 1
          ScoreLimit,  \* webSocketInvalidScoreLimit
          MaxFaults    \* bound of the model: timeouts, refusals, lost connections,
                       \* relayed transactions, statuses before the hello

ReconcileAssumption ==
    /\ MaxHeight \in Nat \ {0} /\ QueueCap \in Nat \ {0} /\ Page \in Nat \ {0}
    /\ Batch \in Nat \ {0} /\ MaxChunks \in Nat \ {0}
    /\ BlockScore \in Nat /\ ScoreLimit \in Nat \ {0} /\ MaxFaults \in Nat

Sides == {"in", "out"}
Other(s) == IF s = "in" THEN "out" ELSE "in"
None == -1

VARIABLES height,   \* the tip of each side
          open,     \* the connection
          reason,   \* by whom and why the connection was closed, until it is dialled again
          greeted,  \* the hello of a side is queued
          wire, hello, enabled,
          remote,   \* p.remoteStatus of "in": a height, or None
          due,      \* reconcileNext has passed
          timer,    \* a scheduleReconcile waits
          round,    \* reconcileSocket, running while pc is not "off"
          pending,  \* p.pending, by number
          reading,  \* the tip the handler of a block has read, or None
          score,    \* invalidGossipByIP: what each side holds against the other
          faults

vars == <<height, open, reason, greeted, wire, hello, enabled, remote, due, timer, round, pending, reading, score, faults>>

Ids == 1..(2 * QueueCap + 2)

\* at: the last body that arrived; to: the last header of the candidate.
NoRound == [pc |-> "off", tip |-> 0, target |-> None, at |-> 0, to |-> 0, chunk |-> 0,
            progress |-> FALSE, failed |-> FALSE, id |-> 0]

Msg(type, id, n, parts) == [type |-> type, id |-> id, n |-> n, parts |-> parts]

TypeOK ==
    /\ height \in [Sides -> 0..MaxHeight]
    /\ open \in BOOLEAN /\ due \in BOOLEAN /\ timer \in BOOLEAN
    /\ \A s \in Sides : Len(wire[s]) <= QueueCap
    /\ remote \in None..MaxHeight
    /\ round.pc \in {"off", "start", "chain", "headers", "stage", "blocks", "commit", "again", "pool", "mempool"}
    /\ DOMAIN pending \subseteq Ids
    /\ reading \in None..MaxHeight /\ score \in [Sides -> 0..ScoreLimit]
    /\ faults \in 0..MaxFaults

Running == [by |-> "out", why |-> "none"]
NoPending == [i \in {} |-> <<>>]

Fresh ==
    /\ wire = [s \in Sides |-> <<>>] /\ greeted = [s \in Sides |-> FALSE]
    /\ hello = [s \in Sides |-> FALSE]
    /\ enabled = [s \in Sides |-> FALSE]
    /\ remote = None /\ due = TRUE /\ timer = FALSE /\ reading = None
    /\ round = NoRound /\ pending = NoPending

Init ==
    /\ height \in [Sides -> 0..1]
    /\ open = TRUE /\ reason = Running
    /\ score = [s \in Sides |-> 0] /\ faults = 0
    /\ Fresh
-----------------------------------------------------------------------------
(* The send queue and the end of a connection.                             *)

Room(s) == Len(wire[s]) < QueueCap

\* queue of messages to s after the first message to the other side was read.
Read(s) == [wire EXCEPT ![s] = Tail(@)]
Put(w, s, m) == [w EXCEPT ![s] = Append(@, m)]

\* Side s closes: rounds and timers watch p.done.
Close(s, why) ==
    /\ open' = FALSE /\ reason' = [by |-> s, why |-> why]
    /\ wire' = [t \in Sides |-> <<>>] /\ greeted' = [t \in Sides |-> FALSE]
    /\ hello' = [t \in Sides |-> FALSE] /\ enabled' = [t \in Sides |-> FALSE]
    /\ remote' = None /\ due' = TRUE /\ timer' = FALSE
    /\ round' = NoRound /\ pending' = NoPending /\ reading' = None

\* ensurePeerSocket of "out" dials again, and both sides register their socket.
Reconnect ==
    /\ ~open
    /\ open' = TRUE /\ reason' = Running
    /\ UNCHANGED <<height, greeted, wire, hello, enabled, remote, due, timer, round, pending, reading, score, faults>>

Lost ==
    /\ open /\ faults < MaxFaults
    /\ faults' = faults + 1
    /\ Close("out", "lost")
    /\ UNCHANGED <<height, score>>

\* A registered side queues its hello, if the queue has room.
Greet(s) ==
    /\ open /\ ~greeted[s]
    /\ greeted' = [greeted EXCEPT ![s] = TRUE]
    /\ wire' = IF Room(Other(s)) THEN Put(wire, Other(s), Msg("hello", 0, height[s], 0)) ELSE wire
    /\ UNCHANGED <<height, open, reason, hello, enabled, remote, due, timer, round, pending, reading, score, faults>>

\* penalize: an accepted socket has no baseURL, so only the side that dialled
\* charges its peer, and not for a message of its own that found no room.
Charged == reason.by = "out" /\ reason.why \notin {"none", "lost", "mute"}
-----------------------------------------------------------------------------
(* Rounds of "in".                                                         *)

\* maybeStartReconcile, with the values a handler has just written.
MaybeStart(en, rem, d) ==
    IF en /\ round.pc = "off" /\ rem # None /\ d
    THEN round' = [NoRound EXCEPT !.pc = "start"] /\ due' = FALSE
    ELSE UNCHANGED <<round, due>>

\* The timer of scheduleReconcile, which fires when reconcileNext has passed.
TimerFires ==
    /\ open /\ timer /\ due
    /\ timer' = FALSE
    /\ MaybeStart(enabled["in"], remote, due)
    /\ UNCHANGED <<height, open, reason, greeted, wire, hello, enabled, remote, pending, reading, score, faults>>

TimePasses ==
    /\ open /\ ~due
    /\ due' = TRUE
    /\ UNCHANGED <<height, open, reason, greeted, wire, hello, enabled, remote, timer, round, pending, reading, score, faults>>

BeginRound ==
    /\ round.pc = "start"
    /\ round' = [round EXCEPT !.tip = height["in"], !.target = remote,
                              !.pc = IF height["in"] = remote THEN "pool" ELSE "chain"]
    /\ UNCHANGED <<height, open, reason, greeted, wire, hello, enabled, remote, due, timer, pending, reading, score, faults>>

InUse == DOMAIN pending \cup {wire["in"][i].id : i \in DOMAIN wire["in"]}
                        \cup {wire["out"][i].id : i \in DOMAIN wire["out"]}

NextId == Min(Ids \ InUse)

\* registerRequest and queue: a request that cannot be queued closes the
\* connection, because its error is none of those that back off.
Ask(type, n, parts, expected, capacity, pc) ==
    IF Room("out")
    THEN /\ wire' = Put(wire, "out", Msg(type, NextId, n, parts))
         /\ pending' = [i \in {NextId} |-> [expected |-> expected, capacity |-> capacity, got |-> <<>>]]
         /\ round' = [round EXCEPT !.pc = pc, !.id = NextId]
         /\ UNCHANGED <<open, reason, greeted, hello, enabled, remote, due, timer, reading>>
    ELSE Close("in", "queue")

AskHeaders ==
    /\ round.pc = "chain"
    /\ Ask("headers_request", height["in"], 0, "headers", 1, "headers")
    /\ UNCHANGED <<height, score, faults>>

AskBlocks ==
    LET n == Min({Batch, round.to - round.at})
    IN  /\ round.pc = "stage"
        /\ Ask("blocks_request", round.at, n, "block", n, "blocks")
        /\ UNCHANGED <<height, score, faults>>

AskMempool ==
    /\ round.pc = "pool"
    /\ Ask("mempool_request", 0, 0, "mempool", 1, "mempool")
    /\ UNCHANGED <<height, score, faults>>

\* The end of the function that maybeStartReconcile launches.
EndRound(failed) ==
    /\ round' = NoRound
    /\ timer' = (timer \/ failed \/ (round.progress /\ round.tip # round.target))
    /\ due' = (due /\ ~failed)

\* An error that backs off ends the chain part of a round, then the mempool
\* is asked for all the same; an error of the mempool ends the round.
BackOff ==
    /\ pending' = NoPending
    /\ IF round.pc = "mempool"
       THEN EndRound(TRUE)
       ELSE round' = [round EXCEPT !.pc = "pool", !.failed = TRUE, !.id = 0] /\ UNCHANGED <<timer, due>>

Answered == DOMAIN pending # {} /\ pending[round.id].got # <<>>
Answer == Head(pending[round.id].got)

RequestTimeout ==
    /\ DOMAIN pending # {}
    /\ faults < MaxFaults
    /\ faults' = faults + 1
    /\ BackOff
    /\ UNCHANGED <<height, open, reason, greeted, wire, hello, enabled, remote, reading, score>>

\* reconcileResponseError: busy, not_found and temporary back off.
Refused ==
    /\ Answered
    /\ Answer.type = "error"
    /\ BackOff
    /\ UNCHANGED <<height, open, reason, greeted, wire, hello, enabled, remote, reading, score, faults>>

\* Headers up to Answer.n: more work than the tip read before, or nothing to do.
TakeHeaders ==
    /\ round.pc = "headers" /\ Answered
    /\ Answer.type = "headers"
    /\ pending' = NoPending
    /\ round' = IF Answer.n > round.tip
                THEN [round EXCEPT !.pc = "stage", !.at = round.tip, !.to = Answer.n, !.id = 0]
                ELSE [round EXCEPT !.pc = "again", !.id = 0]
    /\ UNCHANGED <<height, open, reason, greeted, wire, hello, enabled, remote, due, timer, reading, score, faults>>

\* One part of a batch; a part that is not the one asked for is a malformed
\* stream or does not match its header, and closes the connection.
TakeBlock ==
    LET last == Answer.parts = 1
    IN  /\ round.pc = "blocks" /\ Answered
        /\ Answer.type = "block"
        /\ IF Answer.n # round.at + 1
           THEN Close("in", "protocol")
           ELSE /\ pending' = IF last THEN NoPending
                              ELSE [pending EXCEPT ![round.id].got = Tail(@)]
                /\ round' = [round EXCEPT !.at = @ + 1,
                                !.id = IF last THEN 0 ELSE @,
                                !.pc = IF ~last THEN @ ELSE IF round.at + 1 = round.to THEN "commit" ELSE "stage"]
                /\ UNCHANGED <<open, reason, greeted, wire, hello, enabled, remote, due, timer, reading>>
        /\ UNCHANGED <<height, score, faults>>

\* ReplaceFromSourceAtTime.  ErrInsufficientWork, when the local chain grew
\* meanwhile, is none of the errors that back off.
Commit ==
    /\ round.pc = "commit"
    /\ IF round.to > height["in"]
       THEN /\ height' = [height EXCEPT !["in"] = round.to]
            /\ round' = [round EXCEPT !.pc = "again", !.at = 0, !.to = 0]
            /\ UNCHANGED <<open, reason, greeted, wire, hello, enabled, remote, due, timer, pending, reading>>
       ELSE Close("in", "race") /\ UNCHANGED height
    /\ UNCHANGED <<score, faults>>

\* The tip is read again: the next chunk, or the mempool.
NextChunk ==
    /\ round.pc = "again"
    /\ round' = IF height["in"] = round.tip THEN [round EXCEPT !.pc = "pool"]
                ELSE [round EXCEPT !.tip = height["in"], !.progress = TRUE, !.chunk = @ + 1,
                         !.pc = IF height["in"] = round.target \/ round.chunk + 1 >= MaxChunks
                                THEN "pool" ELSE "chain"]
    /\ UNCHANGED <<height, open, reason, greeted, wire, hello, enabled, remote, due, timer, pending, reading, score, faults>>

\* An entry that "in" refuses, because it conflicts with one of its own or spends
\* what it has not seen, is an invalid response, which closes the connection.
TakeMempool ==
    /\ round.pc = "mempool" /\ Answered
    /\ Answer.type = "mempool"
    /\ \/ /\ pending' = NoPending
          /\ EndRound(round.failed)
          /\ UNCHANGED <<open, reason, greeted, wire, hello, enabled, remote, reading>>
       \/ Close("in", "refused")
    /\ UNCHANGED <<height, score, faults>>
-----------------------------------------------------------------------------
(* The read loops.                                                         *)

Next1(s) == Head(wire[s])

\* A side reads once it has queued its own hello.
Reads(s, types) == greeted[s] /\ wire[s] # <<>> /\ Next1(s).type \in types

\* What is sent to every registered socket, asked for or not.
Broadcasts == {"status", "gossip", "transaction"}

\* A message before the hello: a broadcast that overtook it, or an offence.
TooEarly(s) == Close(s, IF Next1(s).type \in Broadcasts THEN "early" ELSE "protocol")

\* hello: the status is kept, the capability is probed; a second one is an offence.
ReadHello(s) ==
    /\ Reads(s, {"hello"})
    /\ IF hello[s] THEN Close(s, "protocol")
       ELSE IF Room(Other(s))
       THEN /\ hello' = [hello EXCEPT ![s] = TRUE]
            /\ remote' = IF s = "in" THEN Next1(s).n ELSE remote
            /\ wire' = Put(Read(s), Other(s), Msg("ping", 0, 0, 0))
            /\ UNCHANGED <<open, reason, greeted, enabled, due, timer, round, pending, reading>>
       ELSE Close(s, "queue")
    /\ UNCHANGED <<height, score, faults>>

\* A pong that finds no room ends the connection without an error.
ReadPing(s) ==
    /\ Reads(s, {"ping"})
    /\ IF ~hello[s] THEN TooEarly(s)
       ELSE IF Room(Other(s))
       THEN /\ wire' = Put(Read(s), Other(s), Msg("pong", 0, 0, 0))
            /\ UNCHANGED <<open, reason, greeted, hello, enabled, remote, due, timer, round, pending, reading>>
       ELSE Close(s, "mute")
    /\ UNCHANGED <<height, score, faults>>

ReadPong(s) ==
    /\ Reads(s, {"pong"})
    /\ IF ~hello[s] THEN TooEarly(s)
       ELSE /\ enabled' = [enabled EXCEPT ![s] = TRUE]
            /\ wire' = Read(s)
            /\ IF s = "in" THEN MaybeStart(TRUE, remote, due) ELSE UNCHANGED <<round, due>>
            /\ UNCHANGED <<open, reason, greeted, hello, remote, timer, pending, reading>>
    /\ UNCHANGED <<height, score, faults>>

ReadStatus ==
    /\ Reads("in", {"status"})
    /\ IF ~hello["in"] THEN TooEarly("in")
       ELSE /\ remote' = Next1("in").n
            /\ wire' = Read("in")
            /\ MaybeStart(enabled["in"], Next1("in").n, due)
            /\ UNCHANGED <<open, reason, greeted, hello, enabled, timer, pending, reading>>
    /\ UNCHANGED <<height, score, faults>>

\* The handler of a gossiped block reads the tip first.
ReadBlock ==
    /\ Reads("in", {"gossip"}) /\ reading = None
    /\ IF ~hello["in"] THEN TooEarly("in")
       ELSE /\ reading' = height["in"]
            /\ UNCHANGED <<open, reason, greeted, wire, hello, enabled, remote, due, timer, round, pending>>
    /\ UNCHANGED <<height, score, faults>>

\* addInvalidGossipScore: n more against the other side, which closes at the limit.
Scores(s, n) == score' = [score EXCEPT ![s] = Min({@ + n, ScoreLimit})]
AtLimit(s, n) == score[s] + n >= ScoreLimit

\* ConnectBlock.  A block that does not connect triggers a round, and counts
\* against the peer when it would have extended the tip read before.
AcceptBlock ==
    /\ reading # None
    /\ IF Next1("in").n = height["in"] + 1
       THEN /\ height' = [height EXCEPT !["in"] = @ + 1]
            /\ wire' = Read("in") /\ reading' = None
            /\ UNCHANGED <<open, reason, greeted, hello, enabled, remote, due, timer, round, pending, score>>
       ELSE /\ UNCHANGED height
            /\ IF Next1("in").n = reading + 1 THEN Scores("in", BlockScore) ELSE UNCHANGED score
            /\ IF Next1("in").n = reading + 1 /\ AtLimit("in", BlockScore)
               THEN Close("in", "score")
               ELSE /\ wire' = Read("in") /\ reading' = None
                    /\ MaybeStart(enabled["in"], remote, due)
                    /\ UNCHANGED <<open, reason, greeted, hello, enabled, remote, timer, pending>>
    /\ UNCHANGED faults

\* "out" holds every block of the chain: it consumes the block, which changes nothing.
ReadOldBlock ==
    /\ Reads("out", {"gossip"})
    /\ IF ~hello["out"] THEN TooEarly("out")
       ELSE /\ wire' = Read("out")
            /\ UNCHANGED <<open, reason, greeted, hello, enabled, remote, due, timer, round, pending, reading>>
    /\ UNCHANGED <<height, score, faults>>

\* A relayed transaction is taken or known, or it is refused and counts against
\* the peer, who could not know.
ReadTransaction(s) ==
    /\ Reads(s, {"transaction"})
    /\ IF ~hello[s] THEN TooEarly(s) /\ UNCHANGED score
       ELSE \/ /\ wire' = Read(s)
               /\ UNCHANGED <<open, reason, greeted, hello, enabled, remote, due, timer, round, pending, reading, score>>
            \/ /\ Scores(s, 1)
               /\ IF AtLimit(s, 1) THEN Close(s, "score")
                  ELSE /\ wire' = Read(s)
                       /\ UNCHANGED <<open, reason, greeted, hello, enabled, remote, due, timer, round, pending, reading>>
    /\ UNCHANGED <<height, faults>>

Responses == {"headers", "block", "mempool", "error"}

\* Mutant: an answer nobody waits for is an offence.
RouteStrict(m) ==
    /\ m.id \in DOMAIN pending
    /\ m.type \in {pending[m.id].expected, "error"}
    /\ Len(pending[m.id].got) < pending[m.id].capacity

\* routeReconcileResponse: unknown numbers are ignored, an answer of another
\* type or one too many is an offence.
Route(m) ==
    m.id \in DOMAIN pending =>
       /\ m.type \in {pending[m.id].expected, "error"}
       /\ Len(pending[m.id].got) < pending[m.id].capacity

ReadResponse ==
    /\ Reads("in", Responses)
    /\ LET m == Next1("in")
       IN  IF ~hello["in"] \/ ~enabled["in"] \/ ~Route(m) THEN Close("in", "protocol")
           ELSE /\ wire' = Read("in")
                /\ pending' = IF m.id \in DOMAIN pending
                              THEN [pending EXCEPT ![m.id].got = Append(@, m)] ELSE pending
                /\ UNCHANGED <<open, reason, greeted, hello, enabled, remote, due, timer, round, reading>>
    /\ UNCHANGED <<height, score, faults>>
-----------------------------------------------------------------------------
(* "out" serves.                                                           *)

\* validateReconcileRequest, then the answers; any that does not fit the
\* queue closes the connection, an error code that does not without an error.
Serve(type, answers) ==
    /\ Reads("out", {type})
    /\ IF ~hello["out"] \/ ~enabled["out"] THEN Close("out", "protocol")
       ELSE IF Len(wire["in"]) + Len(answers) > QueueCap
       THEN Close("out", IF /\ Len(wire["in"]) + Len(answers) = QueueCap + 1
                            /\ answers[Len(answers)].type = "error" THEN "mute" ELSE "queue")
       ELSE /\ wire' = [Read("out") EXCEPT !["in"] = @ \o answers]
            /\ UNCHANGED <<open, reason, greeted, hello, enabled, remote, due, timer, round, pending, reading>>
    /\ UNCHANGED <<height, score>>

Error(id) == Msg("error", id, 0, 0)

ServeHeaders ==
    LET m == Next1("out")
    IN  /\ Serve("headers_request",
                 <<Msg("headers", m.id, Min({Min({m.n, height["out"]}) + Page, height["out"]}), 0)>>)
        /\ UNCHANGED faults

ServeBlocks ==
    LET m == Next1("out")
    IN  /\ Serve("blocks_request", [k \in 1..m.parts |-> Msg("block", m.id, m.n + k, m.parts - k + 1)])
        /\ UNCHANGED faults

ServeMempool ==
    /\ Serve("mempool_request", <<Msg("mempool", Next1("out").id, 0, 0)>>)
    /\ UNCHANGED faults

\* Busy, or a read that fails, after some of the parts were queued.
ServeRefuses ==
    /\ faults < MaxFaults
    /\ faults' = faults + 1
    /\ LET m == Next1("out")
       IN  \/ Serve("headers_request", <<Error(m.id)>>)
           \/ Serve("mempool_request", <<Error(m.id)>>)
           \/ \E k \in 0..(Batch - 1) :
                 /\ wire["out"] # <<>> /\ k < m.parts
                 /\ Serve("blocks_request",
                          [j \in 1..(k + 1) |-> IF j = k + 1 THEN Error(m.id)
                                                ELSE Msg("block", m.id, m.n + j, m.parts - j + 1)])
-----------------------------------------------------------------------------
(* Everything else.                                                        *)

\* broadcastGossip of side s: to its socket if that is registered and has room,
\* so always once the hello is queued.
Broadcast(s, m) ==
    \/ open /\ Room(Other(s)) /\ wire' = Put(wire, Other(s), m)
    \/ ~(open /\ Room(Other(s)) /\ greeted[s]) /\ UNCHANGED wire

\* "out" gains a block and gossips it.
Mine ==
    /\ height["out"] < MaxHeight
    /\ height' = [height EXCEPT !["out"] = @ + 1]
    /\ Broadcast("out", Msg("gossip", 0, height["out"] + 1, 0))
    /\ UNCHANGED <<open, reason, greeted, hello, enabled, remote, due, timer, round, pending, reading, score, faults>>

\* "in" learns the next block from someone else: by gossip, which it passes on,
\* or by a synchronisation, which it does not.
LearnElsewhere ==
    /\ height["in"] < height["out"] /\ faults < MaxFaults
    /\ faults' = faults + 1
    /\ height' = [height EXCEPT !["in"] = @ + 1]
    /\ Broadcast("in", Msg("gossip", 0, height["in"] + 1, 0)) \/ UNCHANGED wire
    /\ UNCHANGED <<open, reason, greeted, hello, enabled, remote, due, timer, round, pending, reading, score>>

\* Side s relays a transaction of its own or of others.
Relay(s) ==
    /\ faults < MaxFaults
    /\ faults' = faults + 1
    /\ open /\ Room(Other(s)) /\ wire' = Put(wire, Other(s), Msg("transaction", 0, 0, 0))
    /\ UNCHANGED <<height, open, reason, greeted, hello, enabled, remote, due, timer, round, pending, reading, score>>

\* invalidGossipScoreTTL.
ForgetScore(s) ==
    /\ score[s] > 0
    /\ score' = [score EXCEPT ![s] = 0]
    /\ UNCHANGED <<height, open, reason, greeted, wire, hello, enabled, remote, due, timer, round, pending, reading, faults>>

\* sendStatusToOutbound at the end of an HTTP poll of "out".  Nothing keeps the
\* end of a poll out of the moment before the hello; it is a fault to meet it.
StatusPoll ==
    /\ open /\ Room("in")
    /\ \A i \in DOMAIN wire["in"] : wire["in"][i].type # "status"
    /\ wire' = Put(wire, "in", Msg("status", 0, height["out"], 0))
    /\ IF greeted["out"] THEN UNCHANGED faults ELSE faults < MaxFaults /\ faults' = faults + 1
    /\ UNCHANGED <<height, open, reason, greeted, hello, enabled, remote, due, timer, round, pending, reading, score>>

\* run: the goroutine of a side queues the hello and then reads.
ReadIn == Greet("in") \/ ReadHello("in") \/ ReadPing("in") \/ ReadPong("in") \/ ReadStatus
            \/ ReadBlock \/ AcceptBlock \/ ReadTransaction("in") \/ ReadResponse
ReadOut == Greet("out") \/ ReadHello("out") \/ ReadPing("out") \/ ReadPong("out") \/ ReadOldBlock
             \/ ReadTransaction("out") \/ ServeHeaders \/ ServeBlocks \/ ServeMempool

RoundStep ==
    \/ BeginRound \/ AskHeaders \/ AskBlocks \/ AskMempool
    \/ Refused \/ TakeHeaders \/ TakeBlock \/ Commit \/ NextChunk \/ TakeMempool

Next ==
    \/ Reconnect \/ Lost \/ TimerFires \/ TimePasses \/ RoundStep \/ RequestTimeout
    \/ ReadIn \/ ReadOut \/ ServeRefuses
    \/ Mine \/ LearnElsewhere \/ StatusPoll
    \/ \E s \in Sides : Relay(s) \/ ForgetScore(s)

Spec == Init /\ [][Next]_vars

\* Both read loops and the round run, time passes, a closed connection is
\* dialled again, and the HTTP poll of "out" comes round again and again.
Fairness ==
    /\ WF_vars(ReadIn) /\ WF_vars(ReadOut) /\ WF_vars(RoundStep)
    /\ WF_vars(TimePasses) /\ WF_vars(TimerFires) /\ WF_vars(Reconnect)
    /\ WF_vars(StatusPoll)

FairSpec == Spec /\ Fairness
-----------------------------------------------------------------------------
\* No request, answer or probe of an honest node is ever an offence: none comes
\* before its reader has negotiated, and neither a late answer after a timeout nor
\* an error after some of the parts of a batch is an answer too many or the answer
\* to another request.  The side that dialled charges its honest peer all the same,
\* for three things: a broadcast that overtook the hello, too many transactions
\* that it refused, and answers of its own that found no room
\* (websocket.go:491, :803, :1001, :1120).
HonestPeersUnderstood ==
    /\ reason.why # "protocol"
    /\ Charged => reason.why \in {"early", "score", "queue"}

\* A request is registered exactly while the one round waits for it, whatever
\* timed out, was refused or was lost before: the limit of two is never met.
OneRequestAtATime ==
    DOMAIN pending = IF round.pc \in {"headers", "blocks", "mempool"} THEN {round.id} ELSE {}

\* The accepting side catches up with the dialling one: lost connections, dropped
\* gossip, refusals and timeouts in the middle of a round are made good by the
\* scheduled rounds and the polls.
Converges == <>[](height["in"] >= height["out"])
=============================================================================
