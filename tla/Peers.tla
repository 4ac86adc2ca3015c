------------------------------- MODULE Peers -------------------------------
(***************************************************************************)
(* The peers of a node: the table in memory and the one in SQLite, their   *)
(* limits, which of them are active, back-off and its persistence, and the *)
(* registry of outbound sockets (internal/node/peers.go, peer_exchange.go, *)
(* bootstrap.go, websocket.go, internal/ledger/peers.go).                  *)
(*                                                                         *)
(* The table changes under peerMutationMu, in SQLite first and then, with  *)
(* s.mu, in memory; a crash can come between.  Everything else holds s.mu  *)
(* alone.  A time is whether it has passed.                                *)
(***************************************************************************)
EXTENDS Integers, FiniteSets, Functions

CONSTANTS Names, PublicNames,
          Seeds,           \* bootstrapPeers of the configuration
          Dials,           \* bound of the model: dials and their sockets
          MaxPeers,        \* maxPeerConnections
          MaxDiscovered,   \* maxDiscoveredPeers
          MaxPublic,       \* maxPublicDiscoveredPeers
          MaxOutbound,     \* s.maxOutboundPeers
          StaleFailures,   \* staleDiscoveredFailures
          MaxEvents,       \* bound of the model: successes and failures
          MaxRestarts      \* bound of the model

Free == "free"

\* With more seeds than there are places NewContext refuses to start.
PeersAssumption ==
    /\ PublicNames \subseteq Names /\ Seeds \subseteq Names
    /\ Free \notin Names \cup Dials
    /\ IsFiniteSet(Seeds) /\ Cardinality(Seeds) <= MaxPeers /\ Cardinality(Seeds) <= MaxDiscovered
    /\ {MaxPeers, MaxDiscovered, MaxPublic, MaxOutbound, StaleFailures, MaxEvents, MaxRestarts} \subseteq Nat

VARIABLES peers,       \* s.peers
          stored,      \* the peers table
          active,      \* s.activeOutbound
          mutation,    \* what the holder of peerMutationMu has written and not yet applied
          tasks,       \* launched persistence of a success or a failure
          dialing,     \* s.dialing
          dial,        \* ensurePeerSocket, by dial
          socket,      \* the socket of each dial: "none", "run" or "stopped"
          outbound,    \* s.outboundSockets
          toStop,      \* sockets somebody is about to stop
          socketWait,  \* NextSocket has not passed
          events, restarts

vars == <<peers, stored, active, mutation, tasks, dialing, dial, socket, outbound, toStop,
          socketWait, events, restarts>>

table == <<peers, stored, mutation>>
sockets == <<dialing, dial, socket, outbound, toStop, socketWait>>

NewPeer(discovered, bootstrap, p) ==
    [online |-> FALSE, failures |-> 0, seen |-> FALSE, wait |-> FALSE, generation |-> 0,
     discovered |-> discovered, public |-> p \in PublicNames, bootstrap |-> bootstrap, active |-> FALSE]

NoDial == [pc |-> "idle", peer |-> Free]
NoMutation == [op |-> Free, peer |-> Free, bootstrap |-> FALSE]

TypeOK ==
    /\ DOMAIN peers \subseteq Names /\ DOMAIN stored \subseteq Names
    /\ \A p \in DOMAIN peers : peers[p].failures \in 0..MaxEvents /\ peers[p].generation \in 0..MaxEvents
    /\ active \subseteq Names /\ dialing \subseteq Names /\ socketWait \subseteq Names
    /\ mutation.op \in {Free, "add", "discover", "remove"}
    /\ tasks \subseteq [peer : Names, kind : {"success", "failure"}, generation : 0..MaxEvents]
    /\ \A d \in Dials : dial[d].pc \in {"idle", "dial", "end"} /\ socket[d] \in {"none", "run", "stopped"}
    /\ DOMAIN outbound \subseteq Names /\ Range(outbound) \subseteq Dials /\ toStop \subseteq Dials
    /\ events \in 0..MaxEvents /\ restarts \in 0..MaxRestarts

Empty == [x \in {} |-> x]

\* NewContext: the stored peers are loaded, the seeds of the configuration are
\* added, and discovered peers that never answered are removed.
Stale(t, p) == ~t[p].manual /\ p \notin Seeds /\ ~t[p].seen /\ t[p].failures >= StaleFailures

WithSeeds(t) ==
    [p \in DOMAIN t \cup Seeds |-> IF p \in DOMAIN t THEN t[p]
                                    ELSE [manual |-> FALSE, seen |-> FALSE, failures |-> 0, wait |-> FALSE]]

Loaded(t) ==
    [p \in DOMAIN t |-> [NewPeer(~t[p].manual, ~t[p].manual /\ p \in Seeds, p)
                            EXCEPT !.seen = t[p].seen, !.failures = t[p].failures, !.wait = t[p].wait]]

Start(t) ==
    LET kept == Restrict(WithSeeds(t), {p \in DOMAIN WithSeeds(t) : ~Stale(WithSeeds(t), p)})
    IN  stored' = kept /\ peers' = Loaded(kept)

Init ==
    /\ stored = WithSeeds(Empty) /\ peers = Loaded(WithSeeds(Empty))
    /\ active = {} /\ mutation = NoMutation /\ tasks = {}
    /\ dialing = {} /\ dial = [d \in Dials |-> NoDial] /\ socket = [d \in Dials |-> "none"]
    /\ outbound = Empty /\ toStop = {} /\ socketWait = {}
    /\ events = 0 /\ restarts = 0

\* "bootstrap peer limit reached": the node does not start.
Startable ==
    \/ Seeds \subseteq DOMAIN stored
    \/ LET loaded == WithSeeds(stored)
       IN  /\ Cardinality(DOMAIN loaded) <= MaxPeers
           /\ Cardinality({p \in DOMAIN loaded : ~loaded[p].manual}) <= MaxDiscovered

\* A crash, or a stop, at any moment, and the next start.
Crash ==
    /\ restarts < MaxRestarts
    /\ restarts' = restarts + 1
    /\ Startable
    /\ Start(stored)
    /\ active' = {} /\ mutation' = NoMutation /\ tasks' = {}
    /\ dialing' = {} /\ dial' = [d \in Dials |-> NoDial] /\ socket' = [d \in Dials |-> "none"]
    /\ outbound' = Empty /\ toStop' = {} /\ socketWait' = {}
    /\ UNCHANGED events
-----------------------------------------------------------------------------
(* The table.                                                              *)

Discovered(s) == {p \in DOMAIN s : s[p].discovered}
Exchanged(s) == {p \in DOMAIN s : s[p].discovered /\ s[p].public /\ ~s[p].bootstrap}

\* UpsertPeer keeps what is known of a peer, and once manual is manual.
Upsert(p, manual) ==
    stored' = [q \in DOMAIN stored \cup {p} |->
                  IF q # p THEN stored[q]
                  ELSE IF p \in DOMAIN stored
                       THEN [stored[p] EXCEPT !.manual = @ \/ manual]
                       ELSE [manual |-> manual, seen |-> FALSE, failures |-> 0, wait |-> FALSE]]

AddPeer(p) ==
    /\ mutation.op = Free
    /\ p \in DOMAIN peers \/ Cardinality(DOMAIN peers) < MaxPeers
    /\ Upsert(p, TRUE)
    /\ mutation' = [op |-> "add", peer |-> p, bootstrap |-> FALSE]
    /\ UNCHANGED <<peers, active, tasks, sockets, events, restarts>>

CanActivate(s, p) == ~s[p].active /\ Cardinality(active) < MaxOutbound /\ ~s[p].wait

\* activatePeerLocked follows at once.
ApplyAdd ==
    LET p == mutation.peer
        old == IF p \in DOMAIN peers THEN [peers[p] EXCEPT !.discovered = FALSE, !.bootstrap = FALSE]
               ELSE NewPeer(FALSE, FALSE, p)
        added == [q \in DOMAIN peers \cup {p} |-> IF q = p THEN old ELSE peers[q]]
    IN  /\ mutation.op = "add"
        /\ IF CanActivate(added, p)
           THEN peers' = [added EXCEPT ![p].active = TRUE] /\ active' = active \cup {p}
           ELSE peers' = added /\ UNCHANGED active
        /\ mutation' = NoMutation
        /\ UNCHANGED <<stored, tasks, sockets, events, restarts>>

Discoverable(p, bootstrap) ==
    /\ Cardinality(DOMAIN peers) < MaxPeers
    /\ Cardinality(Discovered(peers)) < MaxDiscovered
    /\ p \in PublicNames /\ ~bootstrap => Cardinality(Exchanged(peers)) < MaxPublic

\* persistDiscoveredPeer of a peer that is known already.
DiscoverKnown(p, bootstrap) ==
    /\ mutation.op = Free
    /\ p \in DOMAIN peers
    /\ peers' = [peers EXCEPT ![p].bootstrap = @ \/ (peers[p].discovered /\ bootstrap)]
    /\ peers' # peers
    /\ UNCHANGED <<stored, mutation, active, tasks, sockets, events, restarts>>

\* From the LAN, a peer's list, a hello, or the bootstrap manifest.
DiscoverPeer(p, bootstrap) ==
    /\ mutation.op = Free
    /\ p \notin DOMAIN peers /\ Discoverable(p, bootstrap)
    /\ Upsert(p, FALSE)
    /\ mutation' = [op |-> "discover", peer |-> p, bootstrap |-> bootstrap]
    /\ UNCHANGED <<peers, active, tasks, sockets, events, restarts>>

ApplyDiscover ==
    LET p == mutation.peer
    IN  /\ mutation.op = "discover"
        /\ peers' = [q \in DOMAIN peers \cup {p} |->
                        IF q = p THEN NewPeer(TRUE, mutation.bootstrap, p) ELSE peers[q]]
        /\ mutation' = NoMutation
        /\ UNCHANGED <<stored, active, tasks, sockets, events, restarts>>

RemovePeer(p) ==
    /\ mutation.op = Free
    /\ p \in DOMAIN peers
    /\ stored' = Restrict(stored, DOMAIN stored \ {p})
    /\ mutation' = [op |-> "remove", peer |-> p, bootstrap |-> FALSE]
    /\ UNCHANGED <<peers, active, tasks, sockets, events, restarts>>

SocketsOf(p) == IF p \in DOMAIN outbound THEN {outbound[p]} ELSE {}

\* The sockets are found under s.mu and stopped afterwards.
ApplyRemove ==
    LET p == mutation.peer
    IN  /\ mutation.op = "remove"
        /\ peers' = Restrict(peers, DOMAIN peers \ {p})
        /\ active' = active \ {p}
        /\ toStop' = toStop \cup SocketsOf(p)
        /\ mutation' = NoMutation
        /\ UNCHANGED <<stored, tasks, dialing, dial, socket, outbound, socketWait, events, restarts>>
-----------------------------------------------------------------------------
(* Activity and liveness.                                                  *)

\* selectActivePeers: the best candidates, whichever they are, fill the places.
SelectActivePeers ==
    LET candidates == {p \in DOMAIN peers : ~peers[p].active /\ ~peers[p].wait}
        places == MaxOutbound - Cardinality(active)
    IN  /\ \E chosen \in SUBSET candidates :
              /\ chosen # {}
              /\ Cardinality(chosen) = IF places < Cardinality(candidates) THEN places
                                       ELSE Cardinality(candidates)
              /\ peers' = [p \in DOMAIN peers |-> [peers[p] EXCEPT !.active = @ \/ p \in chosen]]
              /\ active' = active \cup chosen
        /\ UNCHANGED <<stored, mutation, tasks, sockets, events, restarts>>

\* beginPeerSyncMode activates a peer that gossip asks to synchronise with.
BeginSync(p) ==
    /\ p \in DOMAIN peers /\ CanActivate(peers, p)
    /\ peers' = [peers EXCEPT ![p].active = TRUE]
    /\ active' = active \cup {p}
    /\ UNCHANGED <<stored, mutation, tasks, sockets, events, restarts>>

\* markPeerSuccess: persisted when the peer had failed, or was not seen for
\* half a minute (old).
MarkPeerSuccess(p, old) ==
    LET g == peers[p].generation + 1
    IN  /\ p \in DOMAIN peers
        /\ events < MaxEvents
        /\ events' = events + 1
        /\ peers' = [peers EXCEPT ![p] = [peers[p] EXCEPT !.online = TRUE, !.failures = 0, !.seen = TRUE,
                                                          !.wait = FALSE, !.generation = g]]
        /\ tasks' = IF ~peers[p].seen \/ old \/ peers[p].failures > 0
                    THEN tasks \cup {[peer |-> p, kind |-> "success", generation |-> g]} ELSE tasks
        /\ UNCHANGED <<stored, mutation, active, sockets, restarts>>

\* Mutant: the same failure is counted for the request and for its socket.
MarkFailureTwice(p) ==
    /\ p \in DOMAIN peers
    /\ events < MaxEvents
    /\ events' = events + 1
    /\ peers' = [peers EXCEPT ![p] = [peers[p] EXCEPT !.online = FALSE, !.failures = @ + 2, !.active = FALSE]]
    /\ active' = active \ {p}
    /\ UNCHANGED <<stored, mutation, tasks, sockets, restarts>>

MarkPeerFailure(p) ==
    LET g == peers[p].generation + 1
    IN  /\ p \in DOMAIN peers
        /\ events < MaxEvents
        /\ events' = events + 1
        /\ peers' = [peers EXCEPT ![p] = [peers[p] EXCEPT !.online = FALSE, !.failures = @ + 1, !.wait = TRUE,
                                                          !.active = FALSE, !.generation = g]]
        /\ active' = active \ {p}
        /\ toStop' = toStop \cup SocketsOf(p)
        /\ tasks' = tasks \cup {[peer |-> p, kind |-> "failure", generation |-> g]}
        /\ UNCHANGED <<stored, mutation, dialing, dial, socket, outbound, socketWait, restarts>>

\* NextAttempt passes, in memory and in SQLite alike.
BackoffOver(p) ==
    /\ p \in DOMAIN peers /\ peers[p].wait
    /\ peers' = [peers EXCEPT ![p].wait = FALSE]
    /\ stored' = [q \in DOMAIN stored |-> IF q = p THEN [stored[q] EXCEPT !.wait = FALSE] ELSE stored[q]]
    /\ UNCHANGED <<mutation, active, tasks, sockets, events, restarts>>

\* persistPeerSuccess and persistPeerFailure: dropped when something newer was
\* heard of the peer.
Current(t) ==
    /\ t.peer \in DOMAIN peers
    /\ peers[t.peer].generation = t.generation
    /\ peers[t.peer].online = (t.kind = "success")

Persist(t) ==
    /\ mutation.op = Free
    /\ t \in tasks
    /\ tasks' = tasks \ {t}
    /\ stored' = IF ~Current(t) \/ t.peer \notin DOMAIN stored THEN stored
                 ELSE IF t.kind = "success"
                 THEN [stored EXCEPT ![t.peer] = [stored[t.peer] EXCEPT !.seen = TRUE, !.failures = 0, !.wait = FALSE]]
                 ELSE [stored EXCEPT ![t.peer] = [stored[t.peer] EXCEPT !.failures = @ + 1, !.wait = peers[t.peer].wait]]
    /\ UNCHANGED <<peers, mutation, active, sockets, events, restarts>>
-----------------------------------------------------------------------------
(* Outbound sockets.                                                       *)

EnsurePeerSocket(d, p) ==
    /\ dial[d].pc = "idle" /\ socket[d] = "none"
    /\ p \notin DOMAIN outbound /\ p \notin dialing
    /\ p \in DOMAIN peers /\ peers[p].active /\ ~peers[p].wait /\ p \notin socketWait
    /\ Cardinality(DOMAIN outbound) + Cardinality(dialing) < MaxOutbound
    /\ dialing' = dialing \cup {p}
    /\ dial' = [dial EXCEPT ![d] = [pc |-> "dial", peer |-> p]]
    /\ UNCHANGED <<table, active, tasks, socket, outbound, toStop, socketWait, events, restarts>>

DialFails(d) ==
    /\ dial[d].pc = "dial"
    /\ dial' = [dial EXCEPT ![d].pc = "end"]
    /\ socketWait' = socketWait \cup ({dial[d].peer} \cap DOMAIN peers)
    /\ UNCHANGED <<table, active, tasks, dialing, socket, outbound, toStop, events, restarts>>

\* Mutant: whether the peer is still active is not asked again after the dial.
RegistersAnyway(p) ==
    /\ p \in DOMAIN peers /\ p \notin DOMAIN outbound
    /\ Cardinality(DOMAIN outbound) + Cardinality(dialing \ {p}) < MaxOutbound

\* registerSocket.
Registers(p) ==
    /\ p \in DOMAIN peers /\ p \in active /\ p \notin DOMAIN outbound
    /\ Cardinality(DOMAIN outbound) + Cardinality(dialing \ {p}) < MaxOutbound

Register(d) ==
    LET p == dial[d].peer
    IN  /\ dial[d].pc = "dial"
        /\ dial' = [dial EXCEPT ![d].pc = "end"]
        /\ IF Registers(p)
           THEN /\ outbound' = [q \in DOMAIN outbound \cup {p} |-> IF q = p THEN d ELSE outbound[q]]
                /\ socket' = [socket EXCEPT ![d] = "run"]
                /\ dialing' = dialing \ {p}
                /\ socketWait' = socketWait \ {p}
           ELSE /\ UNCHANGED <<outbound, socket, socketWait>>
                /\ dialing' \in {dialing, dialing \ {p}}
        /\ UNCHANGED <<table, active, tasks, toStop, events, restarts>>

\* The deferred call, which may take away the mark of a newer dial.
DialEnds(d) ==
    /\ dial[d].pc = "end"
    /\ dialing' = dialing \ {dial[d].peer}
    /\ dial' = [dial EXCEPT ![d] = [pc |-> "idle", peer |-> IF socket[d] = "none" THEN Free ELSE @.peer]]
    /\ UNCHANGED <<table, active, tasks, socket, outbound, toStop, socketWait, events, restarts>>

StopSocket(d) ==
    /\ d \in toStop
    /\ toStop' = toStop \ {d}
    /\ socket' = [socket EXCEPT ![d] = IF @ = "run" THEN "stopped" ELSE @]
    /\ UNCHANGED <<table, active, tasks, dialing, dial, outbound, socketWait, events, restarts>>

\* The end of run: stopped, or lost, which backs off.  unregisterSocket.
SocketEnds(d) ==
    LET p == dial[d].peer
    IN  /\ socket[d] # "none"
        /\ socket' = [socket EXCEPT ![d] = "none"]
        /\ outbound' = Restrict(outbound, {q \in DOMAIN outbound : outbound[q] # d})
        /\ dial' = [dial EXCEPT ![d] = IF @.pc = "idle" THEN NoDial ELSE @]
        /\ socketWait' = IF socket[d] = "run" THEN socketWait \cup ({p} \cap DOMAIN peers) ELSE socketWait
        /\ UNCHANGED <<table, active, tasks, dialing, toStop, events, restarts>>

SocketWaitOver(p) ==
    /\ p \in socketWait
    /\ socketWait' = socketWait \ {p}
    /\ UNCHANGED <<table, active, tasks, dialing, dial, socket, outbound, toStop, events, restarts>>

Next ==
    \/ Crash \/ ApplyAdd \/ ApplyDiscover \/ ApplyRemove \/ SelectActivePeers
    \/ \E p \in Names :
          \/ AddPeer(p) \/ RemovePeer(p) \/ BeginSync(p) \/ MarkPeerFailure(p) \/ BackoffOver(p)
          \/ SocketWaitOver(p)
          \/ \E b \in BOOLEAN : DiscoverKnown(p, b) \/ DiscoverPeer(p, b) \/ MarkPeerSuccess(p, b)
          \/ \E d \in Dials : EnsurePeerSocket(d, p)
    \/ \E t \in tasks : Persist(t)
    \/ \E d \in Dials : DialFails(d) \/ Register(d) \/ DialEnds(d) \/ StopSocket(d) \/ SocketEnds(d)

Spec == Init /\ [][Next]_vars
-----------------------------------------------------------------------------
\* "a 64-peer cap", "48 discovered peers in total": in memory and in SQLite, after
\* any additions, promotions, removals and crashes between the two writes.
PeerLimits ==
    /\ Cardinality(DOMAIN peers) <= MaxPeers /\ Cardinality(DOMAIN stored) <= MaxPeers
    /\ Cardinality(Discovered(peers)) <= MaxDiscovered

\* Whenever nobody is between the two writes, memory and SQLite name the same
\* peers and agree which of them a user added: a removed peer does not come back
\* with the next start, and an added one is not taken for a discovered one.
StoreMatchesMemory ==
    mutation.op = Free =>
       /\ DOMAIN stored = DOMAIN peers
       /\ \A p \in DOMAIN peers : stored[p].manual = ~peers[p].discovered

\* At most MaxOutbound peers are active and as many outbound sockets open, and
\* the flag of a peer agrees with the set, whatever a failure, a removal or the
\* end of an older dial does meanwhile (websocket.go:203).
OutboundWithinLimit ==
    /\ Cardinality(active) <= MaxOutbound /\ Cardinality(DOMAIN outbound) <= MaxOutbound
    /\ active = {p \in DOMAIN peers : peers[p].active}

\* A running socket is the registered one of its peer, and once the peer is
\* inactive or removed somebody is about to stop it: none is left running that
\* nobody would find.
NoStraySocket ==
    \A d \in Dials : socket[d] = "run" =>
       /\ \E p \in DOMAIN outbound : outbound[p] = d
       /\ (\A p \in DOMAIN outbound : outbound[p] = d => p \in active) \/ d \in toStop
=============================================================================
