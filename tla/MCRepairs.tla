------------------------------ MODULE MCRepairs ------------------------------
(***************************************************************************)
(* What is brought to an end by trying again: the synchronisation of       *)
(* chains with two peers, the rounds of a listener over an accepted        *)
(* connection, the exchange of two mempools, in two instances over the     *)
(* same variables, and the claims of an invoice at the merchant.  They     *)
(* share no state; the constant value of part says which of them moves,    *)
(* and the fairness of each is asked for where it moves.                   *)
(***************************************************************************)
EXTENDS Integers, Sequences

CONSTANTS p1, p2, t1, t2, t3, t4, i1, x1, c1, c2

VARIABLES part,
          local, pruned, peer, changes, slot, sync, paused,
          height, open, reason, greeted, wire, hello, enabled, remote, due, timer, round,
          pending, reading, score, faults,
          pool, chain, known, offset, pull, fresh,
          invoices, jobs, staged, artifact, requests, workers, calls, depth, reached, closing,
          merchantFaults

PeerChains == {<<"b", "b", "a">>, <<"a", "a", "a", "a", "b">>, <<"a", "b", "a", "b">>}
LocalChains == {<<"a", "b">>}

Sync == INSTANCE ChainSync WITH
    Peers <- {p1, p2}, Weight <- [a |-> 1, b |-> 2],
    Page <- 2, MaxChunks <- 2, Depth <- 0, MaxHeight <- 0, MaxChanges <- 1

Rounds == INSTANCE Reconcile WITH
    MaxHeight <- 2, QueueCap <- 3, Page <- 2, Batch <- 2, MaxChunks <- 1, BlockScore <- 1, ScoreLimit <- 2,
    MaxFaults <- 1

\* t3 spends an output of t2, and t4 spends what t2 spends.  Pools of two get full.
Pools == INSTANCE MempoolSync WITH
    Txs <- {t1, t2, t3, t4}, Ancestors <- [t \in {t1, t2, t3, t4} |-> IF t = t3 THEN {t2} ELSE {}],
    Conflicting <- {<<t2, t4>>}, Page <- 1, MaxPool <- 2, MaxBlocks <- 1

\* Pages of two entries: one that is refused has another behind or before it.
Pages == INSTANCE MempoolSync WITH
    Txs <- {t1, t2, t4}, Ancestors <- [t \in {t1, t2, t4} |-> {}],
    Conflicting <- {<<t2, t4>>}, Page <- 2, MaxPool <- 3, MaxBlocks <- 1

Merchant == INSTANCE Gateway WITH
    Invoices <- {i1}, Transactions <- {x1}, Pays <- [t \in {x1} |-> {i1}], Requests <- {c1, c2},
    Required <- 1, Lifetime <- 1, Timeout <- 1, Grace <- 1, RetryAfter <- 1, MaxAttempts <- 2,
    MaxFaults <- [crash |-> 1, close |-> 1, reorg |-> 1], faults <- merchantFaults

ASSUME RepairsAssumption ==
    /\ Sync!SyncAssumption /\ Sync!NobodyAssumption
    /\ Rounds!ReconcileAssumption /\ Pools!MempoolSyncAssumption
    /\ Pages!MempoolSyncAssumption
    /\ Merchant!GatewayAssumption /\ Merchant!NoTxAssumption

syncVars == <<local, pruned, peer, changes, slot, sync, paused>>
roundVars == <<height, open, reason, greeted, wire, hello, enabled, remote, due, timer, round,
               pending, reading, score, faults>>
poolVars == <<pool, chain, known, offset, pull, fresh>>
merchantVars == <<invoices, jobs, staged, artifact, requests, workers, calls, depth, reached,
                  closing, merchantFaults>>

\* One initial state stands for a part at rest.
Rests ==
    /\ part # "sync" => peer = [p \in {p1, p2} |-> <<"b", "b", "a">>]
    /\ part # "rounds" => height = [in |-> 0, out |-> 0]

Init ==
    /\ part \in {"sync", "rounds", "pools", "pages", "merchant"}
    /\ Sync!Init /\ Rounds!Init /\ Merchant!Init
    /\ IF part = "pages" THEN Pages!Init ELSE Pools!Init
    /\ Rests

Moves(p) == part = p /\ UNCHANGED part

OfSync(A) == Moves("sync") /\ A /\ UNCHANGED <<roundVars, poolVars, merchantVars>>
OfRounds(A) == Moves("rounds") /\ A /\ UNCHANGED <<syncVars, poolVars, merchantVars>>
OfPools(A) == Moves("pools") /\ A /\ UNCHANGED <<syncVars, roundVars, merchantVars>>
OfPages(A) == Moves("pages") /\ A /\ UNCHANGED <<syncVars, roundVars, merchantVars>>
OfMerchant(A) == Moves("merchant") /\ A /\ UNCHANGED <<syncVars, roundVars, poolVars>>

Next ==
    \/ OfSync(Sync!Next) \/ OfRounds(Rounds!Next)
    \/ OfPools(Pools!Next) \/ OfPages(Pages!Next)
    \/ OfMerchant(Merchant!Next)

allVars == <<part, syncVars, roundVars, poolVars, merchantVars>>

(***************************************************************************)
(* The fairness of ChainSync, Reconcile, MempoolSync and Gateway.  As part *)
(* never changes, actions of different parts are never both enabled in one *)
(* behaviour: fairness of their disjunction is fairness of each, and one   *)
(* conjunct serves several parts.                                          *)
(***************************************************************************)
Fairness ==
    /\ SF_allVars(\/ OfSync(Sync!EnterSlot(p1))
                  \/ OfPools(Pools!Fetch("dialer")) \/ OfPages(Pages!Fetch("dialer"))
                  \/ OfMerchant(Merchant!Serves(i1, "observe", Merchant!ObservePayment)))
    /\ SF_allVars(\/ OfSync(Sync!EnterSlot(p2))
                  \/ OfPools(Pools!Fetch("listener")) \/ OfPages(Pages!Fetch("listener"))
                  \/ OfMerchant(Merchant!Serves(i1, "acquire", Merchant!AcquireJob)))
    /\ WF_allVars(\/ OfSync(Sync!BeginSync(p1)) \/ OfRounds(Rounds!ReadIn)
                  \/ OfPools(Pools!Apply("dialer")) \/ OfPages(Pages!Apply("dialer"))
                  \/ OfMerchant(Merchant!Handle(c1)))
    /\ WF_allVars(\/ OfSync(Sync!BeginSync(p2)) \/ OfRounds(Rounds!ReadOut)
                  \/ OfPools(Pools!Apply("listener")) \/ OfPages(Pages!Apply("listener"))
                  \/ OfMerchant(Merchant!Handle(c2)))
    /\ WF_allVars(\/ OfSync(Sync!SyncStep(p1)) \/ OfRounds(Rounds!RoundStep)
                  \/ OfPools(Pools!PageDone("dialer")) \/ OfPages(Pages!PageDone("dialer"))
                  \/ OfMerchant(\E c \in {c1, c2} : Merchant!ReceiveClaim(c, i1)))
    /\ WF_allVars(\/ OfSync(Sync!SyncStep(p2)) \/ OfRounds(Rounds!TimePasses)
                  \/ OfPools(Pools!PageDone("listener")) \/ OfPages(Pages!PageDone("listener"))
                  \/ OfMerchant(\E w \in workers : Merchant!Work(w)))
    /\ WF_allVars(\/ OfRounds(Rounds!TimerFires)
                  \/ OfPools(Pools!LearnBlock("dialer")) \/ OfPages(Pages!LearnBlock("dialer"))
                  \/ OfMerchant(Merchant!Reopen))
    /\ WF_allVars(\/ OfRounds(Rounds!Reconnect)
                  \/ OfPools(Pools!LearnBlock("listener")) \/ OfPages(Pages!LearnBlock("listener"))
                  \/ OfMerchant(Merchant!Tick))
    /\ WF_allVars(\/ OfRounds(Rounds!StatusPoll)
                  \/ OfPools(Pools!Retry("dialer")) \/ OfPages(Pages!Retry("dialer")))
    /\ WF_allVars(OfPools(Pools!Retry("listener")) \/ OfPages(Pages!Retry("listener")))
    /\ WF_allVars(OfPools(Pools!Reconnect) \/ OfPages(Pages!Reconnect))

FairSpec == Init /\ [][Next]_allVars /\ Fairness

-----------------------------------------------------------------------------
\* A node ends up with at least the work of each of its peers, and the side of a connection
\* that cannot dial catches up with the one that dialled, although rounds fail, are cut
\* short or lose their connection (http_protocol.go:378, websocket.go:362).
ChainsConverge == <>[](part = "sync" => Sync!CaughtUp) /\ Rounds!Converges

\* Over the socket, whatever stands in the pool of the dialer before the first entry that
\* the listener refuses reaches the listener.  Over HTTP, the dialer has in the end what
\* it would take, or it asks again and again for a page it cannot pass, because it refuses
\* the first entry there that it does not know: a double spend of its own, the child of a
\* parent it missed, one too many for its pool.  What stands behind such an entry may never
\* arrive (http_protocol.go:643, websocket.go:716).
PoolsConverge ==
    /\ <>[](part = "pools" => Pools!ListenerRepaired /\ Pools!DialerRepaired)
    /\ <>[](part = "pages" => Pages!ListenerRepaired /\ Pages!DialerRepaired)

\* A payment that stays confirmed is delivered, or its claims are answered with a failure,
\* also when the gateway is stopped or dies on the way: nobody polls it forever, unless the
\* worker of the very last attempt was lost (gateway.go:429, store.go:314).
PaymentsSettle == Merchant!PaidInvoiceSettles
=============================================================================
