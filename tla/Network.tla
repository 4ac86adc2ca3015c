------------------------------- MODULE Network -------------------------------
(***************************************************************************)
(* A node among its peers, in parts that share no state with one another:  *)
(* the synchronisation of chains, the rounds over an accepted connection,  *)
(* the send queue of a socket, the table of peers and their sockets, and   *)
(* the limits on requests.  The constant value of part says which of them  *)
(* moves; the others rest in an initial state.                             *)
(***************************************************************************)
EXTENDS ChainSync

\* Page, MaxChunks and the bound MaxHeight are those of Reconcile, too.
CONSTANTS \* Reconcile
          QueueCap, Batch, BlockScore, ScoreLimit, MaxFaults,
          \* SendQueue
          Senders, Closers, Sizes, MaxBytes, Capacity, MaxSends,
          \* Peers
          Names, PublicNames, Seeds, Dials, MaxPeers, MaxDiscovered, MaxPublic, MaxOutbound,
          StaleFailures, MaxEvents, MaxRestarts,
          \* RequestLimits
          Hosts, Requests, Burst, TableSize, Retention, PerIP, Slots, HeavySlots

VARIABLES part,
          height, open, reason, greeted, wire, hello, enabled, remote, due, timer, round,
          pending, reading, score, faults,
          send, queuedBytes, sendClosed, done, broken, writer, closer, held, sends,
          peers, stored, active, mutation, tasks, dialing, dial, socket, outbound,
          toStop, socketWait, events, restarts,
          tokens, age, counts, slots, heavy, request, closing, closed, ideal

Rounds == INSTANCE Reconcile

Queue == INSTANCE SendQueue

Table == INSTANCE Peers

Limits == INSTANCE RequestLimits

ASSUME NetworkAssumption ==
    /\ SyncAssumption /\ NobodyAssumption
    /\ Rounds!ReconcileAssumption /\ Queue!QueueAssumption
    /\ Table!PeersAssumption /\ Limits!RequestLimitsAssumption

syncVars == <<local, pruned, peer, changes, slot, sync, paused>>
roundVars == <<height, open, reason, greeted, wire, hello, enabled, remote, due, timer, round,
               pending, reading, score, faults>>
queueVars == <<send, queuedBytes, sendClosed, done, broken, writer, closer, held, sends>>
peerVars == <<peers, stored, active, mutation, tasks, dialing, dial, socket, outbound,
              toStop, socketWait, events, restarts>>
limitVars == <<tokens, age, counts, slots, heavy, request, closing, closed, ideal>>

NetworkInit ==
    /\ part \in {"sync", "rounds", "queue", "peers", "limits"}
    /\ Init /\ Rounds!Init /\ Queue!Init /\ Table!Init /\ Limits!Init

Moves(p) == part = p /\ UNCHANGED part

NetworkNext ==
    \/ Moves("sync") /\ Next /\ UNCHANGED <<roundVars, queueVars, peerVars, limitVars>>
    \/ Moves("rounds") /\ Rounds!Next /\ UNCHANGED <<syncVars, queueVars, peerVars, limitVars>>
    \/ Moves("queue") /\ Queue!Next /\ UNCHANGED <<syncVars, roundVars, peerVars, limitVars>>
    \/ Moves("peers") /\ Table!Next /\ UNCHANGED <<syncVars, roundVars, queueVars, limitVars>>
    \/ Moves("limits") /\ Limits!Next /\ UNCHANGED <<syncVars, roundVars, queueVars, peerVars>>

networkVars == <<part, syncVars, roundVars, queueVars, peerVars, limitVars>>

NetworkSpec == NetworkInit /\ [][NetworkNext]_networkVars

-----------------------------------------------------------------------------
\* Every part holds values of its types.
NetworkTypeOK ==
    /\ TypeOK
    /\ part = "rounds" => Rounds!TypeOK
    /\ part = "queue" => Queue!TypeOK
    /\ part = "peers" => Table!TypeOK
    /\ part = "limits" => Limits!TypeOK

\* No request, answer or probe of an honest node is an offence to the other, and a request
\* is registered exactly while the one round waits for it, whatever timed out, was refused
\* or was lost before.  The side that dialled charges an honest peer only for a broadcast
\* that overtook the hello, for too many transactions that it refused, and for answers of
\* its own that found no room (websocket.go:491, :803, :1001, :1120).
HonestPeersUnderstood ==
    part = "rounds" => Rounds!HonestPeersUnderstood /\ Rounds!OneRequestAtATime

\* Whoever is refused, cut off or closed gives back exactly what he took: the bytes a
\* socket accounts for are those in hand while senders, the writer and two closers empty
\* one queue, a closed queue stays empty, the counts and slots of requests are those of
\* requests in progress, forgetting an address gives it nothing, and after Close nobody is
\* served (websocket.go:926, :954, http_protocol.go:697).
NothingLeaks ==
    /\ part = "queue" => Queue!QueuedBytesExact /\ Queue!ClosedQueueStaysEmpty
    /\ part = "limits" => Limits!NothingLeaks /\ Limits!ForgettingGivesNothing /\ Limits!ClosedServesNothing

\* Memory, SQLite and the sockets agree on the peers, within all limits: whenever nobody
\* is between the two writes they name the same peers, no more sockets are open than peers
\* may be active, and none is left running that nobody would find, whatever a crash, a
\* failure, a removal or the end of an older dial does meanwhile (peers.go:41,
\* websocket.go:203).
PeersAreCounted ==
    part = "peers" =>
       /\ Table!PeerLimits /\ Table!StoreMatchesMemory
       /\ Table!OutboundWithinLimit /\ Table!NoStraySocket
=============================================================================
