----------------------------- MODULE ChainStore -----------------------------
(***************************************************************************)
(* What the ledger promises to the rest of the node.  There is an active   *)
(* chain; the coins that exist are those it leaves unspent; it changes for *)
(* a chain with more work or not at all, in one step; and what lies at or  *)
(* below the prune horizon is final.                                       *)
(***************************************************************************)
EXTENDS Chains

VARIABLES chain, coins, horizon

storeVars == <<chain, coins, horizon>>

Init == chain = <<>> /\ coins = {} /\ horizon = 0

KeepsFinalBlocks == SubSeq(chain', 1, horizon) = SubSeq(chain, 1, horizon)

\* A block is connected, or a branch with more work replaces the chain above
\* an ancestor.
Advance ==
    /\ TotalWork(chain') > TotalWork(chain)
    /\ KeepsFinalBlocks
    /\ coins' = Unspent(chain')
    /\ UNCHANGED horizon

\* The tip is disconnected (DisconnectTip, which only tests call).
Retreat ==
    /\ Len(chain) > horizon
    /\ chain' = SubSeq(chain, 1, Len(chain) - 1)
    /\ coins' = Unspent(chain')
    /\ UNCHANGED horizon

\* Blocks below the tip become final.
Prune ==
    /\ horizon' > horizon
    /\ horizon' < Len(chain)
    /\ UNCHANGED <<chain, coins>>

Next == Advance \/ Retreat \/ Prune

Spec == Init /\ [][Next]_storeVars
=============================================================================
