---------------------------- MODULE RequestLimits ----------------------------
(***************************************************************************)
(* The limits of the listener (internal/node/http_protocol.go): a token    *)
(* bucket for each address in a bounded table, the requests in progress of *)
(* each address, the slots of all requests and those of heavy ones, for    *)
(* HTTP requests and for sockets alike.  A tick is the time in which a     *)
(* bucket gains one token.                                                 *)
(***************************************************************************)
EXTENDS Integers, FiniteSets

CONSTANTS Hosts, Requests,
          Burst,         \* httpRequestsPerIPBurst, websocketHandshakeBurst
          TableSize,     \* 4,096 addresses
          Retention,     \* httpRequestRateStateRetention
          PerIP,         \* perIPLimit
          Slots,         \* of requestSlots, and of websocketSlots
          HeavySlots     \* of heavyRequestSlots

Kinds == {"http", "websocket"}

\* 600 seconds at 128 tokens a second fill a bucket of 256, and so at 2 one of 4.
RequestLimitsAssumption ==
    /\ {Burst, TableSize, Retention, PerIP, Slots, HeavySlots} \subseteq Nat \ {0}
    /\ Retention >= Burst /\ IsFiniteSet(Requests)

VARIABLES tokens,    \* requestRatesByIP and websocketRatesByIP: the tokens when last seen
          age,       \* how long ago that was
          counts,    \* requestsByIP, websocketsByIP
          slots,     \* taken
          heavy,     \* taken
          request,   \* the requests in progress
          closing,   \* s.closing
          closed,    \* Close has waited for all of them
          ideal      \* history: the bucket of each address, had it never been forgotten

vars == <<tokens, age, counts, slots, heavy, request, closing, closed, ideal>>
rates == <<tokens, age, ideal>>

NoRequest == [pc |-> "none"]
Smaller(a, b) == IF a < b THEN a ELSE b
Known(k) == DOMAIN tokens[k]

TypeOK ==
    /\ \A k \in Kinds : Known(k) \subseteq Hosts /\ Cardinality(Known(k)) <= TableSize
    /\ \A k \in Kinds : \A h \in Known(k) : tokens[k][h] \in 0..Burst /\ age[k][h] \in 0..(Retention + 1)
    /\ counts \in [Kinds -> [Hosts -> 0..PerIP]]
    /\ slots \in [Kinds -> 0..Slots] /\ heavy \in 0..HeavySlots
    /\ \A r \in Requests : request[r].pc \in {"none", "counted", "running", "heavy", "leaving"}
    /\ closing \in BOOLEAN /\ closed \in BOOLEAN
    /\ ideal \in [Kinds -> [Hosts -> 0..Burst]]

Empty == [h \in {} |-> 0]

Init ==
    /\ tokens = [k \in Kinds |-> Empty] /\ age = [k \in Kinds |-> Empty]
    /\ counts = [k \in Kinds |-> [h \in Hosts |-> 0]]
    /\ slots = [k \in Kinds |-> 0] /\ heavy = 0
    /\ request = [r \in Requests |-> NoRequest]
    /\ closing = FALSE /\ closed = FALSE
    /\ ideal = [k \in Kinds |-> [h \in Hosts |-> Burst]]

\* Ages past Retention are not told apart.
Tick ==
    /\ age' = [k \in Kinds |-> [h \in Known(k) |-> Smaller(age[k][h] + 1, Retention + 1)]]
    /\ ideal' = [k \in Kinds |-> [h \in Hosts |-> Smaller(ideal[k][h] + 1, Burst)]]
    /\ UNCHANGED <<tokens, counts, slots, heavy, request, closing, closed>>
-----------------------------------------------------------------------------
(* allowHTTPRequestLocked and allowWebSocketHandshakeLocked.               *)

\* The addresses that stay when a full table meets a new one.
Kept(k) == {h \in Known(k) : age[k][h] <= Retention}

Room(k, h) == h \in Known(k) \/ Cardinality(Known(k)) < TableSize \/ Cardinality(Kept(k)) < TableSize

Staying(k, h) == IF h \in Known(k) \/ Cardinality(Known(k)) < TableSize THEN Known(k) ELSE Kept(k)

\* allowAtRate: what the bucket holds now.
Available(k, h) == IF h \in Known(k) THEN Smaller(tokens[k][h] + age[k][h], Burst) ELSE Burst

\* The table after a request that took n tokens, n being 0 when it was refused.
Took(k, h, n) ==
    LET staying == Staying(k, h)
    IN  /\ tokens' = [tokens EXCEPT ![k] =
                         [g \in staying \cup {h} |-> IF g = h THEN Available(k, h) - n ELSE tokens[k][g]]]
        /\ age' = [age EXCEPT ![k] = [g \in staying \cup {h} |-> IF g = h THEN 0 ELSE age[k][g]]]
-----------------------------------------------------------------------------
(* limitRequests.                                                          *)

\* A node that closes, and a full table whose addresses all stay, answer an error
\* and change nothing.

\* "rate limit reached".
RateLimited(k, h) ==
    /\ ~closing /\ Room(k, h)
    /\ Available(k, h) < 1
    /\ Took(k, h, 0)
    /\ UNCHANGED <<counts, slots, heavy, request, closing, closed, ideal>>

\* "peer connection limit reached": the token is gone.
ConnectionLimited(k, h) ==
    /\ ~closing /\ Room(k, h)
    /\ Available(k, h) >= 1 /\ counts[k][h] >= PerIP
    /\ Took(k, h, 1)
    /\ ideal' = [ideal EXCEPT ![k][h] = @ - 1]
    /\ UNCHANGED <<counts, slots, heavy, request, closing, closed>>

Admit(r, k, h) ==
    /\ request[r].pc = "none" /\ ~closing /\ Room(k, h)
    /\ Available(k, h) >= 1 /\ counts[k][h] < PerIP
    /\ Took(k, h, 1)
    /\ ideal' = [ideal EXCEPT ![k][h] = @ - 1]
    /\ counts' = [counts EXCEPT ![k][h] = @ + 1]
    /\ request' = [request EXCEPT ![r] = [pc |-> "counted", kind |-> k, host |-> h]]
    /\ UNCHANGED <<slots, heavy, closing, closed>>

\* Outside s.mu: a slot, or "node is busy".
TakeSlot(r) ==
    LET k == request[r].kind
    IN  /\ request[r].pc = "counted"
        /\ IF slots[k] < Slots
           THEN /\ slots' = [slots EXCEPT ![k] = @ + 1]
                /\ request' = [request EXCEPT ![r].pc = "running"]
           ELSE /\ request' = [request EXCEPT ![r].pc = "leaving"]
                /\ UNCHANGED slots
        /\ UNCHANGED <<rates, counts, heavy, closing, closed>>

\* acquireHeavyRequest, by the handlers of headers, blocks and mempool; without a
\* slot they answer that the node is busy.
AcquireHeavy(r) ==
    /\ request[r].pc = "running" /\ request[r].kind = "http"
    /\ heavy < HeavySlots
    /\ heavy' = heavy + 1
    /\ request' = [request EXCEPT ![r].pc = "heavy"]
    /\ UNCHANGED <<rates, counts, slots, closing, closed>>

\* The handler returns, with an answer or an error, and the slots are released.
Served(r) ==
    LET k == request[r].kind
    IN  /\ request[r].pc \in {"running", "heavy"}
        /\ heavy' = IF request[r].pc = "heavy" THEN heavy - 1 ELSE heavy
        /\ slots' = [slots EXCEPT ![k] = @ - 1]
        /\ request' = [request EXCEPT ![r].pc = "leaving"]
        /\ UNCHANGED <<rates, counts, closing, closed>>

\* The deferred call, under s.mu.
Leave(r) ==
    /\ request[r].pc = "leaving"
    /\ counts' = [counts EXCEPT ![request[r].kind][request[r].host] = @ - 1]
    /\ request' = [request EXCEPT ![r] = NoRequest]
    /\ UNCHANGED <<rates, slots, heavy, closing, closed>>

\* Close: sets closing under s.mu and waits for s.wait.
Close ==
    /\ ~closing
    /\ closing' = TRUE
    /\ UNCHANGED <<rates, counts, slots, heavy, request, closed>>

WaitEnds ==
    /\ closing /\ ~closed
    /\ \A r \in Requests : request[r].pc = "none"
    /\ closed' = TRUE
    /\ UNCHANGED <<rates, counts, slots, heavy, request, closing>>

Next ==
    \/ Tick \/ Close \/ WaitEnds
    \/ \E k \in Kinds, h \in Hosts :
          \/ RateLimited(k, h) \/ ConnectionLimited(k, h)
          \/ \E r \in Requests : Admit(r, k, h)
    \/ \E r \in Requests : TakeSlot(r) \/ AcquireHeavy(r) \/ Served(r) \/ Leave(r)

Spec == Init /\ [][Next]_vars
-----------------------------------------------------------------------------
\* Forgetting an address, which makes room for another, gives it no token it would
\* not have had: no client exceeds its rate by letting its entry be dropped.
ForgettingGivesNothing ==
    \A k \in Kinds, h \in Hosts : Available(k, h) <= ideal[k][h]

InProgress(k, pcs) == {r \in Requests : request[r].pc \in pcs /\ request[r].kind = k}

\* Every way out of a request gives back what it took: the counts and the slots
\* are exactly those of the requests in progress (http_protocol.go:697), so no
\* sequence of refusals uses them up.
NothingLeaks ==
    /\ \A k \in Kinds : slots[k] = Cardinality(InProgress(k, {"running", "heavy"}))
    /\ \A k \in Kinds, h \in Hosts :
          counts[k][h] = Cardinality({r \in InProgress(k, {"counted", "running", "heavy", "leaving"}) : request[r].host = h})
    /\ heavy = Cardinality(InProgress("http", {"heavy"}))

\* Once Close has waited, no request is in progress that would use the ledger.
ClosedServesNothing == closed => \A r \in Requests : request[r].pc = "none"
=============================================================================
