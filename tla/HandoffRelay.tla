----------------------------- MODULE HandoffRelay -----------------------------
(***************************************************************************)
(* The handoff relay of the desktop (app_entpay_relay.go, app.go): a       *)
(* launch by the system opens a window for a merchant, the merchant's page *)
(* posts a code to the loopback relay while it lasts, and one goroutine    *)
(* hands what was queued to the client.  Codes the user pastes go into the *)
(* same queue.                                                             *)
(*                                                                         *)
(* The checks of headers and bodies pass, and a request comes from the     *)
(* merchant's own page; its code is still arbitrary.                       *)
(***************************************************************************)
EXTENDS Integers, Sequences, FiniteSets

CONSTANTS Merchants, Codes, None,
          Requests,       \* the requests under way at once
          Capacity,       \* of the queue
          MaxLaunches     \* bound: launches by the system of each merchant

Handoff == Merchants \X Codes

HandoffRelayAssumption ==
    /\ Capacity \in Nat \ {0} /\ MaxLaunches \in Nat /\ None \notin Handoff
    /\ IsFiniteSet(Requests)

VARIABLES windows,     \* the merchants with a window
          launches,    \* how often each merchant was launched
          request,     \* the handoff each request under way carries
          at,          \* where the request is
          queue,       \* the channel
          queued,      \* what the set of digests says is in it
          taken,       \* what the consumer has in hand
          forgotten,   \* it has removed the digest of that
          accepted,    \* history: how many handoffs of each merchant the relay let in
          crossing,    \* history: the requests that met another between check and removal
          alone,       \* history: how many were let in that met none
          closing

inbox == <<queue, queued, taken, forgotten>>
history == <<accepted, crossing, alone>>
vars == <<windows, launches, request, at, inbox, history, closing>>

TypeOK ==
    /\ windows \subseteq Merchants /\ launches \in [Merchants -> 0..MaxLaunches]
    /\ request \in [Requests -> Handoff \cup {None}]
    /\ at \in [Requests -> {"idle", "arrived", "authorized", "enqueued"}]
    /\ queue \in Seq(Handoff) /\ Len(queue) <= Capacity
    /\ queued \subseteq Handoff /\ taken \in Handoff \cup {None} /\ forgotten \in BOOLEAN
    /\ accepted \in [Merchants -> Nat] /\ crossing \subseteq Requests /\ alone \in [Merchants -> Nat]
    /\ closing \in BOOLEAN

Init ==
    /\ windows = {} /\ launches = [m \in Merchants |-> 0]
    /\ request = [r \in Requests |-> None] /\ at = [r \in Requests |-> "idle"]
    /\ queue = <<>> /\ queued = {} /\ taken = None /\ forgotten = FALSE
    /\ accepted = [m \in Merchants |-> 0] /\ crossing = {} /\ alone = accepted
    /\ closing = FALSE
-----------------------------------------------------------------------------
(* The relay.                                                              *)

\* routeSystemLaunch.
Launch(m) ==
    /\ launches[m] < MaxLaunches
    /\ launches' = [launches EXCEPT ![m] = @ + 1]
    /\ windows' = IF closing THEN windows ELSE windows \cup {m}
    /\ UNCHANGED <<request, at, inbox, history, closing>>

\* Two minutes later.
Expire(m) ==
    /\ m \in windows
    /\ windows' = windows \ {m}
    /\ UNCHANGED <<launches, request, at, inbox, history, closing>>

Goto(r, place) == at' = [at EXCEPT ![r] = place]

\* The Origin is looked at before the body is read, ...
Arrive(r, h) ==
    /\ at[r] = "idle" /\ h[1] \in windows
    /\ request' = [request EXCEPT ![r] = h] /\ Goto(r, "arrived")
    /\ UNCHANGED <<windows, launches, inbox, history, closing>>

\* The requests of a merchant between their check and the removal of its window.
Between(m) == {r \in Requests : at[r] \in {"authorized", "enqueued"} /\ request[r][1] = m}

\* ... and again when the merchant is known.
Authorize(r) ==
    /\ at[r] = "arrived"
    /\ LET others == Between(request[r][1]) IN
       IF request[r][1] \in windows
       THEN /\ Goto(r, "authorized")
            /\ crossing' = IF others = {} THEN crossing ELSE crossing \cup others \cup {r}
       ELSE Goto(r, "idle") /\ UNCHANGED crossing
    /\ UNCHANGED <<windows, launches, request, inbox, accepted, alone, closing>>

Admits(h) == ~closing /\ (h \in queued \/ Len(queue) < Capacity)

\* enqueueHandoff: what is queued already is not queued again.
Admit(h) ==
    /\ queue' = IF h \in queued THEN queue ELSE Append(queue, h)
    /\ queued' = queued \cup {h}

Enqueue(r) ==
    /\ at[r] = "authorized"
    /\ \/ /\ Admits(request[r]) /\ Admit(request[r])
          /\ accepted' = [accepted EXCEPT ![request[r][1]] = @ + 1] /\ Goto(r, "enqueued")
          /\ UNCHANGED crossing
       \/ /\ ~Admits(request[r]) /\ Goto(r, "idle") /\ crossing' = crossing \ {r}
          /\ UNCHANGED <<queue, queued, accepted>>
    /\ UNCHANGED <<windows, launches, request, taken, forgotten, alone, closing>>

\* What the history of a request leaves behind.
Remember(r) ==
    /\ alone' = IF r \in crossing THEN alone ELSE [alone EXCEPT ![request[r][1]] = @ + 1]
    /\ crossing' = crossing \ {r}

\* Mutant: the window stays open.
ConsumeNothing(r) ==
    /\ at[r] = "enqueued"
    /\ Goto(r, "idle") /\ Remember(r)
    /\ UNCHANGED <<windows, launches, request, inbox, accepted, closing>>

\* The window goes, also one that a later launch has opened meanwhile.
Consume(r) ==
    /\ at[r] = "enqueued"
    /\ windows' = windows \ {request[r][1]}
    /\ Goto(r, "idle") /\ Remember(r)
    /\ UNCHANGED <<launches, request, inbox, accepted, closing>>

\* OpenEntPayLink.
Paste(h) ==
    /\ Admits(h) /\ Admit(h)
    /\ UNCHANGED <<windows, launches, request, at, taken, forgotten, history, closing>>
-----------------------------------------------------------------------------
(* consumeHandoffs.                                                        *)

Take ==
    /\ taken = None /\ queue # <<>>
    /\ taken' = Head(queue) /\ queue' = Tail(queue) /\ forgotten' = FALSE
    /\ UNCHANGED <<windows, launches, request, at, queued, history, closing>>

Forget ==
    /\ taken # None /\ ~forgotten
    /\ queued' = queued \ {taken} /\ forgotten' = TRUE
    /\ UNCHANGED <<windows, launches, request, at, queue, taken, history, closing>>

Receive ==
    /\ taken # None /\ forgotten
    /\ taken' = None
    /\ UNCHANGED <<windows, launches, request, at, queue, queued, forgotten, history, closing>>

Shutdown ==
    /\ ~closing
    /\ closing' = TRUE
    /\ UNCHANGED <<windows, launches, request, at, inbox, history>>

Handle(r) == Authorize(r) \/ Enqueue(r) \/ Consume(r)
Consumer == ~closing /\ (Take \/ Forget \/ Receive)

Next ==
    \/ \E m \in Merchants : Launch(m) \/ Expire(m)
    \/ \E r \in Requests : Handle(r) \/ \E h \in Handoff : Arrive(r, h)
    \/ \E h \in Handoff : Paste(h)
    \/ Consumer \/ Shutdown

Spec == Init /\ [][Next]_vars
-----------------------------------------------------------------------------
\* The digests are those of what waits or has just been taken, once each: a handoff is
\* neither refused nor dropped because of one that is gone, nor queued twice.
DigestsMatchQueue ==
    LET waiting == {queue[i] : i \in 1..Len(queue)}
    IN  /\ queued = waiting \cup (IF taken # None /\ ~forgotten THEN {taken} ELSE {})
        /\ Cardinality(waiting) = Len(queue)

\* "Acceptance consumes the window", as far as it does: of the requests that meet no other
\* of their merchant between check and removal, a launch lets one in.
OneHandoffPerLaunch == \A m \in Merchants : alone[m] <= launches[m]

\* Requests that do meet there share a launch, but only those already under way: it lets in
\* no more of them than there can be at once.
LaunchBoundsHandoffs ==
    \A m \in Merchants : accepted[m] <= launches[m] * Cardinality(Requests)
=============================================================================
