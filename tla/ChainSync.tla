----------------------------- MODULE ChainSync -----------------------------
(***************************************************************************)
(* How a node catches up with its peers: syncPeerMode and                  *)
(* syncRemoteChainFromAtTime of internal/node/http_protocol.go, the        *)
(* staging of bodies in staging.go, and the queries that serve headers and *)
(* bodies to others (internal/ledger/query.go).                            *)
(*                                                                         *)
(* A block is named by its path from genesis, so that a chain is the       *)
(* sequence of its labels, and two chains share a block at height h        *)
(* exactly when they agree up to h.  Labels have weights: the work of a    *)
(* block, 2 to the power of its difficulty.                                *)
(*                                                                         *)
(* The local tip is read before the one chainSyncSlot is asked for, the    *)
(* locator after it, and everything else while other peers, miners and     *)
(* gossip change the local chain, and while the peer changes its own.      *)
(* Peers are honest here: their headers and bodies are valid.  The chains  *)
(* are so short that a locator names every block of one (its step is one   *)
(* for the first eleven hashes).                                           *)
(***************************************************************************)
EXTENDS Integers, Sequences, FiniteSets, SequencesExt, FiniteSetsExt

CONSTANTS Peers,
          Weight,       \* the work of each label
          PeerChains,   \* chains a peer can have
          LocalChains,  \* chains the node can start with
          Page,         \* maxSyncHeaderBatch and maxDirectExtensionBlocks
          MaxChunks,    \* maxChainSyncChunksPerRound
          Depth,        \* s.pruneDepth, 0 for an archive
          MaxHeight,    \* bound of the model: blocks mined or received by gossip
          MaxChanges    \* bound of the model: peers that change their chain, rounds out of time

Labels == DOMAIN Weight

SyncAssumption ==
    /\ \A l \in Labels : Weight[l] \in Nat \ {0}
    /\ PeerChains \subseteq Seq(Labels) /\ LocalChains \subseteq Seq(Labels)
    /\ Page \in Nat \ {0} /\ MaxChunks \in Nat \ {0}
    /\ Depth \in Nat /\ MaxHeight \in Nat /\ MaxChanges \in Nat

VARIABLES local,    \* the local chain
          pruned,   \* pruned_through
          peer,     \* the chain of each peer
          changes,  \* changes of peers' chains and rounds out of time, so far
          slot,     \* who holds chainSyncSlot
          sync,     \* syncPeerMode by peer
          paused    \* s.resyncPauses: the tip a pause is for, by peer

vars == <<local, pruned, peer, changes, slot, sync, paused>>

Work(c) ==
    LET w[n \in 0..Len(c)] == IF n = 0 THEN 0 ELSE w[n - 1] + Weight[c[n]]
    IN  w[Len(c)]

Upto(c, h) == SubSeq(c, 1, h)

\* The height of the last block two chains share: they agree through that many heights.
Shared(c, d) == Cardinality({h \in (DOMAIN c) \cap (DOMAIN d) : \A i \in 1..h : c[i] = d[i]})

NoChain == <<"none">>
Nobody == "nobody"

NobodyAssumption == Nobody \notin Peers /\ "none" \notin Labels

\* tip: the local tip read last; target: the peer's status; locator: what the
\* next page of headers is asked with; got: the chain through the last header
\* received; ancestor: effectiveAncestor; candidate: the chain to switch to.
NoSync == [pc |-> "idle", tip |-> <<>>, target |-> <<>>, locator |-> <<>>, got |-> NoChain,
           ancestor |-> 0, diverged |-> FALSE, candidate |-> <<>>, chunk |-> 0]

TypeOK ==
    /\ local \in Seq(Labels)
    /\ pruned \in 0..Len(local)
    /\ peer \in [Peers -> PeerChains]
    /\ changes \in 0..MaxChanges
    /\ slot \in Peers \cup {Nobody}
    /\ \A p \in Peers :
          /\ sync[p].pc \in {"idle", "want", "headers", "stage", "replace", "again"}
          /\ sync[p].pc \in {"headers", "stage", "replace"} <=> slot = p
          /\ sync[p].chunk \in 0..MaxChunks
          /\ paused[p] = NoChain \/ paused[p] \in PeerChains

Init ==
    /\ local \in LocalChains
    /\ pruned = 0
    /\ peer \in [Peers -> PeerChains]
    /\ changes = 0
    /\ slot = Nobody
    /\ sync = [p \in Peers |-> NoSync]
    /\ paused = [p \in Peers |-> NoChain]
-----------------------------------------------------------------------------
Finish(p) == sync' = [sync EXCEPT ![p] = NoSync] /\ slot' = IF slot = p THEN Nobody ELSE slot

\* The status of the peer and the local tip.  A pause for the same tip skips
\* the chain until its time is up; a pause for another tip is forgotten.
BeginSync(p) ==
    /\ sync[p].pc = "idle"
    /\ peer[p] # local
    /\ paused' = [paused EXCEPT ![p] = NoChain]
    /\ sync' = [sync EXCEPT ![p] = [NoSync EXCEPT !.pc = "want", !.tip = local, !.target = peer[p]]]
    /\ UNCHANGED <<local, pruned, peer, changes, slot>>

EnterSlot(p) ==
    /\ sync[p].pc = "want"
    /\ slot = Nobody
    /\ slot' = p
    /\ sync' = [sync EXCEPT ![p].pc = "headers", ![p].locator = local, ![p].got = NoChain,
                            ![p].diverged = FALSE]
    /\ UNCHANGED <<local, pruned, peer, changes, paused>>

\* The context of the round ends while it waits for the slot or for bodies.
GiveUp(p) ==
    /\ sync[p].pc \in {"want", "stage"}
    /\ changes < MaxChanges
    /\ changes' = changes + 1
    /\ Finish(p)
    /\ UNCHANGED <<local, pruned, peer, paused>>
-----------------------------------------------------------------------------
(* A page of headers.                                                      *)

First(p) == sync[p].got = NoChain

\* FindLocator at the peer: the first hash of the locator that is on its
\* chain.  A later page names the last header only.
CommonHeight(p) == Shared(peer[p], IF First(p) THEN sync[p].locator ELSE sync[p].got)

\* The chain through the last header of the page, HeadersFrom of the peer.
Received(p) == Upto(peer[p], Min({CommonHeight(p) + Page, Len(peer[p])}))

\* Why a page is refused: the peer left the chain it gave the last page of,
\* the local chain left the block the peer chose, or it became shorter.
PageFails(p) ==
    LET n == CommonHeight(p)
        different == Max({n, Shared(local, Received(p))}) + 1
    IN  \/ ~First(p) /\ n # Len(sync[p].got)
        \/ First(p) /\ (n > Len(local) \/ Upto(local, n) # Upto(peer[p], n))
        \/ /\ ~sync[p].diverged
           /\ different <= Min({Len(Received(p)), Len(sync[p].tip)})
           /\ different > Len(local)

\* effectiveAncestor: headers that equal the local ones are passed over, but
\* only up to the height of the tip that was read first.
Ancestor(p) ==
    LET n == CommonHeight(p)
        same == Min({Shared(local, Received(p)), Len(sync[p].tip)})
    IN  IF sync[p].diverged THEN sync[p].ancestor
        ELSE IF First(p) \/ same > n THEN Max({n, same}) ELSE sync[p].ancestor

Stronger(p) == Len(Received(p)) > CommonHeight(p) /\ Work(Received(p)) > Work(sync[p].tip)

\* Mutant: every candidate is cut to one page, a fork as well.
CandidateAlwaysCut(p) == Upto(Received(p), Min({Ancestor(p) + Page, Len(Received(p))}))

\* A direct extension is committed a page at a time, a fork as a whole.
Candidate(p) ==
    IF Ancestor(p) = Len(sync[p].tip)
    THEN Upto(Received(p), Min({Ancestor(p) + Page, Len(Received(p))}))
    ELSE Received(p)

HeadersRefused(p) ==
    /\ sync[p].pc = "headers"
    /\ \/ PageFails(p)
       \/ ~PageFails(p) /\ Stronger(p) /\ Ancestor(p) = Len(Received(p))
    /\ Finish(p)
    /\ UNCHANGED <<local, pruned, peer, changes, paused>>

\* Not enough work yet: another page, or nothing to do when the page was short.
HeadersWeaker(p) ==
    /\ sync[p].pc = "headers"
    /\ ~PageFails(p) /\ ~Stronger(p)
    /\ IF Len(Received(p)) - CommonHeight(p) < Page
       THEN /\ sync' = [sync EXCEPT ![p] = [NoSync EXCEPT !.pc = "again", !.tip = sync[p].tip,
                            !.target = sync[p].target, !.chunk = sync[p].chunk]]
            /\ slot' = Nobody
       ELSE /\ sync' = [sync EXCEPT ![p].got = Received(p), ![p].ancestor = Ancestor(p),
                                    ![p].diverged = Ancestor(p) < Len(Received(p))]
            /\ UNCHANGED slot
    /\ UNCHANGED <<local, pruned, peer, changes, paused>>

Offers(p) == sync[p].pc = "headers" /\ ~PageFails(p) /\ Stronger(p) /\ Ancestor(p) < Len(Received(p))

\* ErrReorgBeyondPrune: the chain of this peer is not asked for any more.
PauseForResync(p) ==
    /\ Offers(p)
    /\ Ancestor(p) < pruned
    /\ paused' = [paused EXCEPT ![p] = sync[p].target]
    /\ Finish(p)
    /\ UNCHANGED <<local, pruned, peer, changes>>

HeadersStronger(p) ==
    /\ Offers(p)
    /\ Ancestor(p) >= pruned
    /\ sync' = [sync EXCEPT ![p].pc = "stage", ![p].ancestor = Ancestor(p), ![p].candidate = Candidate(p),
                            ![p].locator = <<>>, ![p].got = NoChain, ![p].diverged = FALSE]
    /\ UNCHANGED <<local, pruned, peer, changes, slot, paused>>
-----------------------------------------------------------------------------
(* Bodies, and the replacement.                                            *)

\* The peer still has every block that is asked for by its hash.
StageBlocks(p) ==
    /\ sync[p].pc = "stage"
    /\ IsPrefix(sync[p].candidate, peer[p])
    /\ sync' = [sync EXCEPT ![p].pc = "replace"]
    /\ UNCHANGED <<local, pruned, peer, changes, slot, paused>>

\* A body is gone (404, or not_found): the staging file is removed.
StageFails(p) ==
    /\ sync[p].pc = "stage"
    /\ ~IsPrefix(sync[p].candidate, peer[p])
    /\ Finish(p)
    /\ UNCHANGED <<local, pruned, peer, changes, paused>>

\* What maybePrune does after a new tip.
Horizon(c) == IF Depth = 0 THEN pruned ELSE Max({pruned, Len(c) - Depth})

\* The ledger keeps its own blocks up to the ancestor and connects the staged
\* ones after it.
Replacement(p) ==
    Upto(local, sync[p].ancestor)
        \o SubSeq(sync[p].candidate, sync[p].ancestor + 1, Len(sync[p].candidate))

\* Mutant: the work that was compared before the download is trusted.
ReplacesAnyway(p) ==
    LET a == sync[p].ancestor
    IN  a <= Len(local) /\ a >= pruned /\ Upto(local, a) = Upto(sync[p].candidate, a)

\* ReplaceFromSourceAtTime compares again, with the chain of this moment: the
\* ancestor is there, is not below the horizon, the first block of the
\* candidate is its child and the new chain has more work.
Replaces(p) ==
    LET a == sync[p].ancestor
    IN  /\ a <= Len(local) /\ a >= pruned
        /\ Upto(local, a) = Upto(sync[p].candidate, a)
        /\ Work(Replacement(p)) > Work(local)

ReplaceChain(p) ==
    /\ sync[p].pc = "replace"
    /\ Replaces(p)
    /\ local' = Replacement(p)
    /\ pruned' = Horizon(Replacement(p))
    /\ sync' = [sync EXCEPT ![p].pc = "again", ![p].ancestor = 0, ![p].candidate = <<>>]
    /\ slot' = Nobody
    /\ UNCHANGED <<peer, changes, paused>>

\* A horizon that passed the ancestor meanwhile pauses the peer, too.
ReplaceRefused(p) ==
    /\ sync[p].pc = "replace"
    /\ ~Replaces(p)
    /\ paused' = IF sync[p].ancestor < pruned /\ sync[p].ancestor <= Len(local)
                 THEN [paused EXCEPT ![p] = sync[p].target] ELSE paused
    /\ Finish(p)
    /\ UNCHANGED <<local, pruned, peer, changes>>

\* The next chunk of the same round, unless the tip did not move, is the one
\* the status named, or the round has had its chunks.
NextChunk(p) ==
    /\ sync[p].pc = "again"
    /\ sync' = [sync EXCEPT ![p] =
          IF local = sync[p].tip \/ local = sync[p].target \/ sync[p].chunk + 1 >= MaxChunks
          THEN NoSync
          ELSE [NoSync EXCEPT !.pc = "want", !.tip = local, !.target = sync[p].target,
                              !.chunk = sync[p].chunk + 1]]
    /\ UNCHANGED <<local, pruned, peer, changes, slot, paused>>
-----------------------------------------------------------------------------
(* Everything else that changes chains.                                    *)

\* A block is mined, or received by gossip or HTTP (acceptBlock).
Extend(l) ==
    /\ Len(local) < MaxHeight
    /\ local' = Append(local, l)
    /\ pruned' = Horizon(local')
    /\ UNCHANGED <<peer, changes, slot, sync, paused>>

\* A peer extends or reorganises its chain.
PeerChanges(p) ==
    /\ changes < MaxChanges
    /\ \E c \in PeerChains :
          /\ Work(c) > Work(peer[p])
          /\ peer' = [peer EXCEPT ![p] = c]
    /\ changes' = changes + 1
    /\ UNCHANGED <<local, pruned, slot, sync, paused>>

\* ResolveHealthEvent of an operator clears every pause.
ResolvePauses ==
    /\ paused' = [p \in Peers |-> NoChain]
    /\ paused # paused'
    /\ UNCHANGED <<local, pruned, peer, changes, slot, sync>>

SyncStep(p) ==
    \/ HeadersRefused(p) \/ HeadersWeaker(p) \/ HeadersStronger(p) \/ PauseForResync(p)
    \/ StageBlocks(p) \/ StageFails(p)
    \/ ReplaceChain(p) \/ ReplaceRefused(p) \/ NextChunk(p)

Next ==
    \/ \E p \in Peers : BeginSync(p) \/ EnterSlot(p) \/ GiveUp(p) \/ SyncStep(p) \/ PeerChanges(p)
    \/ \E l \in Labels : Extend(l)
    \/ ResolvePauses

Spec == Init /\ [][Next]_vars

\* Sync rounds begin again and again (syncLoop), requests are answered, and the
\* slot, a Go channel, serves whoever waits.
Fairness ==
    \A p \in Peers :
       /\ WF_vars(BeginSync(p)) /\ WF_vars(SyncStep(p))
       /\ SF_vars(EnterSlot(p))

FairSpec == Spec /\ Fairness
-----------------------------------------------------------------------------
\* The local chain is only ever replaced by one with more work, although a
\* candidate is chosen by comparing it with a tip that may be long gone when
\* its bodies have arrived (http_protocol.go:580, reorg.go:181).
WorkOnlyGrows == [][local' # local => Work(local') > Work(local)]_vars

\* Blocks at or below the prune horizon are never replaced, although the horizon
\* moves while a candidate is downloaded (reorg.go:156).
PrunedBlocksStay == [][Upto(local', pruned) = Upto(local, pruned)]_vars

\* Whatever replaces the chain is exactly the chain whose bodies one peer sent:
\* two peers' branches, or a branch and local blocks, are never spliced.
AdoptsOneBranch ==
    [][local' # local
          => \/ \E l \in Labels : local' = Append(local, l)
             \/ \E p \in Peers : sync[p].pc = "replace" /\ local' = sync[p].candidate]_vars

\* The chain is only replaced by one peer's branch, with more work than the chain it
\* replaces then has, and never below the prune horizon, although the candidate was
\* chosen by an older tip (http_protocol.go:580, reorg.go:156, :181).
ReplacementsAreSound == WorkOnlyGrows /\ PrunedBlocksStay /\ AdoptsOneBranch

\* An archive node ends up with at least the work of each of its peers once they
\* and it are at rest, over many rounds, pages, forks and failed attempts.
CaughtUp == \A p \in Peers : Work(local) >= Work(peer[p])
=============================================================================
