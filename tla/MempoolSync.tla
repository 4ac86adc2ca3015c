----------------------------- MODULE MempoolSync -----------------------------
(***************************************************************************)
(* How two connected nodes repair what live relay lost of their mempools:  *)
(* "dialer" asks "listener" over HTTP page by page (syncRemoteMempool),    *)
(* "listener" asks back over the socket (syncSocketMempoolPage).  A page   *)
(* is addressed by its offset in the other's pool, ordered by sequence,    *)
(* and both pools change between two pages.  An entry known already is     *)
(* skipped; any other refusal ends the page where it is.                   *)
(*                                                                         *)
(* Blocks are the concern of ChainSync and Reconcile: here there is one    *)
(* chain, and a node learns of its blocks at some time.                    *)
(***************************************************************************)
EXTENDS Integers, Sequences, FiniteSets, Functions

CONSTANTS Txs,
          Ancestors,       \* Txs -> set of Txs: whose outputs it needs
          Conflicting,     \* set of pairs of Txs that spend the same output
          Page,            \* maxMempoolSyncValidations, maxSocketMempoolBatch
          MaxPool,         \* core.MaxPendingTransactions
          MaxBlocks        \* bound of the model

Nodes == {"dialer", "listener"}

MempoolSyncAssumption ==
    /\ Ancestors \in [Txs -> SUBSET Txs] /\ Conflicting \subseteq Txs \X Txs
    /\ Page \in Nat \ {0} /\ MaxPool \in Nat /\ MaxBlocks \in Nat

VARIABLES pool,      \* the mempool table of each node, by sequence
          chain,     \* the confirmed transactions, block by block
          known,     \* how many blocks each node has
          offset,    \* s.mempoolOffsets[peer] of the dialer, socket.mempoolOffset of the listener
          pull,      \* the page each node is taking in
          fresh      \* the transactions nobody has sent yet

vars == <<pool, chain, known, offset, pull, fresh>>

Other(n) == CHOOSE m \in Nodes : m # n
Idle == [pc |-> "idle", rest |-> <<>>, taken |-> 0]

TypeOK ==
    /\ \A n \in Nodes : Len(pool[n]) <= MaxPool /\ Range(pool[n]) \subseteq Txs
    /\ chain \in Seq(SUBSET Txs) /\ \A n \in Nodes : known[n] \in 0..Len(chain)
    /\ offset \in [Nodes -> 0..(MaxPool - 1)]
    /\ \A n \in Nodes : pull[n].pc \in {"idle", "apply", "wait", "closed"} /\ Len(pull[n].rest) <= Page
    /\ fresh \subseteq Txs

Init ==
    /\ pool = [n \in Nodes |-> <<>>] /\ chain = <<>> /\ known = [n \in Nodes |-> 0]
    /\ offset = [n \in Nodes |-> 0] /\ pull = [n \in Nodes |-> Idle]
    /\ fresh = Txs

Confirmed(n) == UNION {chain[i] : i \in 1..known[n]}
Known(n) == Range(pool[n]) \cup Confirmed(n)
ConflictsWith(t, s) == \E u \in s : <<t, u>> \in Conflicting \/ <<u, t>> \in Conflicting

\* AddTransaction of a transaction that is not known.
Admissible(n, t) ==
    /\ t \notin Known(n) /\ Ancestors[t] \subseteq Known(n)
    /\ ~ConflictsWith(t, Known(n))
    /\ Len(pool[n]) < MaxPool

\* A new transaction, sent by a node's user; the message that relays it is
\* delivered, or dropped by a full queue or a closed socket.
Submit(n, t, relayed) ==
    /\ t \in fresh /\ Admissible(n, t)
    /\ fresh' = fresh \ {t}
    /\ pool' = [m \in Nodes |-> IF m = n \/ (relayed /\ Admissible(m, t)) THEN Append(pool[m], t) ELSE pool[m]]
    /\ UNCHANGED <<chain, known, offset, pull>>

\* A block: what it confirms leaves the pool, with what conflicts with it and
\* whatever needs that.
Revalidated(n, block) ==
    SelectSeq(pool[n], LAMBDA t : t \notin block /\ \A u \in {t} \cup Ancestors[t] : ~ConflictsWith(u, block))

Mine(n, block) ==
    /\ Len(chain) < MaxBlocks /\ known[n] = Len(chain)
    /\ block # {} /\ \A t \in block : Ancestors[t] \subseteq block \cup Confirmed(n)
    /\ chain' = Append(chain, block)
    /\ known' = [known EXCEPT ![n] = @ + 1]
    /\ pool' = [pool EXCEPT ![n] = Revalidated(n, block)]
    /\ UNCHANGED <<offset, pull, fresh>>

LearnBlock(n) ==
    /\ known[n] < Len(chain)
    /\ known' = [known EXCEPT ![n] = @ + 1]
    /\ pool' = [pool EXCEPT ![n] = Revalidated(n, chain[known[n] + 1])]
    /\ UNCHANGED <<chain, offset, pull, fresh>>

\* MempoolTransactionsPage, served by handleMempool or serveReconcileMempool.
MempoolPage(n, from) == SubSeq(pool[n], from + 1, IF from + Page < Len(pool[n]) THEN from + Page ELSE Len(pool[n]))

Fetch(n) ==
    LET page == MempoolPage(Other(n), offset[n])
    IN  /\ pull[n].pc = "idle"
        /\ pull' = [pull EXCEPT ![n] = [pc |-> "apply", rest |-> page, taken |-> Len(page)]]
        /\ UNCHANGED <<pool, chain, known, offset, fresh>>

\* The request fails, or the other node has no slot for it: asked again after a
\* back-off, at the same offset.
FetchFails(n) ==
    /\ pull[n].pc = "idle"
    /\ pull' = [pull EXCEPT ![n].pc = "wait"]
    /\ UNCHANGED <<pool, chain, known, offset, fresh>>

\* A refused entry: markPeerFailure of an HTTP peer, whose offset stays, and
\* invalidReconcileResponse, which closes the socket.
Refused(n) == [Idle EXCEPT !.pc = IF n = "dialer" THEN "wait" ELSE "closed"]

\* Mutant: a transaction that is known already ends the page.
ApplyStrict(n) ==
    LET t == Head(pull[n].rest)
    IN  /\ pull[n].pc = "apply" /\ pull[n].rest # <<>>
        /\ IF Admissible(n, t)
           THEN /\ pool' = [pool EXCEPT ![n] = Append(@, t)]
                /\ pull' = [pull EXCEPT ![n].rest = Tail(@)]
           ELSE /\ pull' = [pull EXCEPT ![n] = Refused(n)]
                /\ UNCHANGED pool
        /\ UNCHANGED <<chain, known, offset, fresh>>

\* One transaction of the page.
Apply(n) ==
    LET t == Head(pull[n].rest)
    IN  /\ pull[n].pc = "apply" /\ pull[n].rest # <<>>
        /\ IF t \in Known(n) \/ Admissible(n, t)
           THEN /\ pool' = IF t \in Known(n) THEN pool ELSE [pool EXCEPT ![n] = Append(@, t)]
                /\ pull' = [pull EXCEPT ![n].rest = Tail(@)]
           ELSE /\ pull' = [pull EXCEPT ![n] = Refused(n)]
                /\ UNCHANGED pool
        /\ UNCHANGED <<chain, known, offset, fresh>>

NextOffset(n) ==
    IF pull[n].taken = Page /\ offset[n] + Page < MaxPool THEN offset[n] + Page ELSE 0

PageDone(n) ==
    /\ pull[n].pc = "apply" /\ pull[n].rest = <<>>
    /\ offset' = [offset EXCEPT ![n] = NextOffset(n)]
    /\ pull' = [pull EXCEPT ![n] = Idle]
    /\ UNCHANGED <<pool, chain, known, fresh>>

Retry(n) ==
    /\ pull[n].pc = "wait"
    /\ pull' = [pull EXCEPT ![n] = Idle]
    /\ UNCHANGED <<pool, chain, known, offset, fresh>>

\* The socket dialled next starts over.
Reconnect ==
    /\ pull["listener"].pc = "closed"
    /\ pull' = [pull EXCEPT !["listener"] = Idle]
    /\ offset' = [offset EXCEPT !["listener"] = 0]
    /\ UNCHANGED <<pool, chain, known, fresh>>

Next ==
    \/ Reconnect
    \/ \E n \in Nodes :
          \/ Retry(n) \/ LearnBlock(n) \/ Fetch(n) \/ FetchFails(n) \/ Apply(n) \/ PageDone(n)
          \/ \E t \in Txs : \E relayed \in BOOLEAN : Submit(n, t, relayed)
          \/ \E block \in SUBSET Range(pool[n]) : Mine(n, block)

Spec == Init /\ [][Next]_vars

\* Rounds are scheduled every fifteen seconds and after each status, failed
\* ones are retried after a back-off, blocks arrive in the end, and not every
\* request fails.
Fairness ==
    /\ WF_vars(Reconnect)
    /\ \A n \in Nodes : /\ WF_vars(LearnBlock(n)) /\ WF_vars(Retry(n)) /\ SF_vars(Fetch(n))
                        /\ WF_vars(Apply(n)) /\ WF_vars(PageDone(n))

FairSpec == Spec /\ Fairness
-----------------------------------------------------------------------------
Missing(n) == {t \in Range(pool[Other(n)]) : Admissible(n, t)}

\* Of the entries s, whatever n would take comes after one that it refuses.
TakenUpToRefusal(n, s) ==
    \A i \in DOMAIN s : Admissible(n, s[i]) => \E j \in 1..(i - 1) : s[j] \notin Known(n)

\* Every socket starts at the first entry: what stands before the first one that the
\* listener refuses is all there.
ListenerRepaired == TakenUpToRefusal("listener", pool["dialer"])

\* The offset of the dialer stays where an entry is refused: it has what it would take,
\* or it asks for a page that begins, after entries it knows, with one that it refuses.
DialerRepaired ==
    LET page == MempoolPage("listener", offset["dialer"])
    IN  \/ Missing("dialer") = {}
        \/ ~(Range(page) \subseteq Known("dialer")) /\ TakenUpToRefusal("dialer", page)
=============================================================================
