------------------------------ MODULE Mempool ------------------------------
(***************************************************************************)
(* The policy half of internal/ledger: which transactions may wait in the  *)
(* mempool, which outputs a wallet may spend, what survives when blocks    *)
(* are disconnected, and in which order the miner takes what waits.        *)
(* A mempool is the sequence of its transactions in the order of the       *)
(* AUTOINCREMENT column; the mempool_inputs and mempool_outputs tables are *)
(* functions of it (their rows follow the mempool row by foreign key).     *)
(***************************************************************************)
EXTENDS Chains

CONSTANTS MaxPendingTransactions,  \* 5,000
          MaxMempoolBytes,         \* 32 MiB
          MaxMempoolInputs,        \* 20,000
          RelayFeeUnit,            \* 1,024 bytes
          RelayFeePerUnit,         \* 1,000 base units for each started unit
          MaxOrphanedBytes,        \* 64 MiB
          MaxBlockTransactions,    \* 2,000, the coinbase included
          MaxBlockBytes,           \* 1 MiB
          BlockOverhead,           \* 256 bytes reserved for a header
          CoinbaseReserve          \* the size of a one-output coinbase

ASSUME PolicyAssumption ==
    /\ MaxPendingTransactions \in Nat /\ MaxMempoolBytes \in Nat
    /\ MaxMempoolInputs \in Nat /\ RelayFeeUnit \in Nat \ {0}
    /\ RelayFeePerUnit \in Nat /\ MaxOrphanedBytes \in Nat
    /\ MaxBlockTransactions \in Nat \ {0} /\ MaxBlockBytes \in Nat
    /\ BlockOverhead \in Nat /\ BlockOverhead + CoinbaseReserve <= MaxBlockBytes
    /\ CoinbaseReserve \in Nat /\ \A c \in Coinbases : SizeOf[c] <= CoinbaseReserve

PendingInputs(pool) == UNION {InputsOf[t] : t \in Range(pool)}

PendingOutputs(pool) == UNION {OutpointsOf(t) : t \in Range(pool)}

Bytes(txs) == FoldLeft(LAMBDA total, t : total + SizeOf[t], 0, txs)

InputCount(txs) == FoldLeft(LAMBDA total, t : total + Cardinality(InputsOf[t]), 0, txs)

\* Mutant: each budget is compared before the transaction is counted.
WithinBudgetBefore(pool, t) ==
    /\ Len(pool) < MaxPendingTransactions
    /\ Bytes(pool) <= MaxMempoolBytes
    /\ InputCount(pool) <= MaxMempoolInputs

\* validateMempoolResourceBudget.
WithinBudget(pool, t) ==
    /\ Len(pool) < MaxPendingTransactions
    /\ SizeOf[t] <= MaxMempoolBytes - Bytes(pool)
    /\ Cardinality(InputsOf[t]) <= MaxMempoolInputs - InputCount(pool)

minimumRelayFee(size) ==
    ((size + RelayFeeUnit - 1) \div RelayFeeUnit) * RelayFeePerUnit

\* Mutant: a pending spend of the same output is not looked for.
lookupMempoolDoubleSpend(pool, utxo, out, spendingHeight) ==
    IF out \in Outs(utxo)
    THEN \A r \in utxo : r.out = out => MatureRecord(r, spendingHeight)
    ELSE out \in PendingOutputs(pool)

\* An outpoint that a new transaction may spend: not spent by a pending one,
\* and either a confirmed output, mature at the next height, or the output of
\* a transaction that is itself pending.
lookupMempoolSpendable(pool, utxo, out, spendingHeight) ==
    /\ out \notin PendingInputs(pool)
    /\ IF out \in Outs(utxo)
       THEN \A r \in utxo : r.out = out => MatureRecord(r, spendingHeight)
       ELSE out \in PendingOutputs(pool)

\* addMempoolTransactionWithUsage: everything that may reject a transaction.
Admissible(pool, utxo, confirmed, t, spendingHeight) ==
    /\ t \notin Coinbases
    /\ t \notin confirmed
    /\ t \notin Range(pool)
    /\ WithinBudget(pool, t)
    /\ \A out \in InputsOf[t] : lookupMempoolSpendable(pool, utxo, out, spendingHeight)
    /\ ValidRegularTransaction(t)
    /\ Fee(t) >= minimumRelayFee(SizeOf[t])

\* Mutant: the boundary of the maturity filter is one block late.
SpendableOutpointsLate(pool, utxo, spendingHeight) ==
    LET matureThrough == IF spendingHeight > CoinbaseMaturity
                         THEN spendingHeight - CoinbaseMaturity - 1 ELSE 0
        confirmed     == {r \in utxo : ~r.coinbase \/ r.height <= matureThrough}
    IN  (Outs(confirmed) \cup PendingOutputs(pool)) \ PendingInputs(pool)

(***************************************************************************)
(* spendableUTXO, for all addresses at once: the query filters each output *)
(* by its owner and nothing else it does depends on the owner.             *)
(***************************************************************************)
SpendableOutpoints(pool, utxo, spendingHeight) ==
    LET enforce       == spendingHeight >= CoinbaseMaturityActivationHeight
        matureThrough == IF enforce /\ spendingHeight >= CoinbaseMaturity
                         THEN spendingHeight - CoinbaseMaturity ELSE 0
        confirmed     == {r \in utxo : /\ r.height <= spendingHeight
                                       /\ \/ ~enforce
                                          \/ ~r.coinbase
                                          \/ r.height <= matureThrough}
    IN  (Outs(confirmed) \cup PendingOutputs(pool)) \ PendingInputs(pool)

(***************************************************************************)
(* orphanedMempoolCollector.  Blocks arrive newest first and are returned  *)
(* oldest first, so a block goes in front of what was collected; dropping  *)
(* the newest transactions until the budget is met keeps a prefix.         *)
(***************************************************************************)
CollectOrphans(orphans, txs) ==
    LET all  == txs \o orphans
        fits == {n \in 0..Len(all) : /\ n <= MaxPendingTransactions
                                     /\ Bytes(SubSeq(all, 1, n)) <= MaxOrphanedBytes}
    IN  SubSeq(all, 1, Max(fits))

\* Fee rates compared by cross-multiplication; ties go to the larger fee,
\* then to the one that has waited longer.
higherMiningPriority(pool, i, j) ==
    LET left  == Fee(pool[i]) * SizeOf[pool[j]]
        right == Fee(pool[j]) * SizeOf[pool[i]]
    IN  \/ left > right
        \/ left = right /\ Fee(pool[i]) > Fee(pool[j])
        \/ left = right /\ Fee(pool[i]) = Fee(pool[j]) /\ i < j

\* Mutant: fee rates alone decide, whatever depends on what.
prioritizeByFeeOnly(pool) ==
    SortSeq(pool, LAMBDA t, u : Fee(t) * SizeOf[u] > Fee(u) * SizeOf[t])

(***************************************************************************)
(* The miner's order: again and again, of the pending transactions whose   *)
(* pending parents have all been taken, the one of highest priority.       *)
(***************************************************************************)
prioritizeMempoolForMining(pool) ==
    LET Parents(i) == {j \in DOMAIN pool : \E out \in InputsOf[pool[i]] : out[1] = pool[j]}
        Take(taken, n) ==
            LET ready == {i \in DOMAIN pool \ Range(taken) : Parents(i) \subseteq Range(taken)}
            IN  IF ready = {} THEN taken
                ELSE Append(taken, CHOOSE i \in ready :
                         \A j \in ready \ {i} : higherMiningPriority(pool, i, j))
        order == FoldLeft(Take, <<>>, [n \in DOMAIN pool |-> n])
    IN  [n \in DOMAIN order |-> pool[order[n]]]

(***************************************************************************)
(* The transactions buildMiningCandidateAtTime selects, and the fees they  *)
(* pay: in priority order, each one that still fits and whose inputs are   *)
(* unspent outputs of the tip or outputs selected before it.  The view of  *)
(* miningUTXOView is its two maps, created and spent.                      *)
(***************************************************************************)
SelectTransactions(pool, utxo, height) ==
    LET Usable(view, out) ==
            /\ out \notin view.spent
            /\ \/ out \in view.created
               \/ \E r \in utxo : r.out = out /\ MatureRecord(r, height)
        Consider(view, t) ==
            IF /\ Len(view.selected) < MaxBlockTransactions - 1
               /\ view.bytes + SizeOf[t] <= MaxBlockBytes
               /\ \A out \in InputsOf[t] : Usable(view, out)
               /\ ValidRegularTransaction(t)
            THEN [selected |-> Append(view.selected, t),
                  created  |-> (view.created \ InputsOf[t]) \cup OutpointsOf(t),
                  spent    |-> view.spent \cup InputsOf[t],
                  bytes    |-> view.bytes + SizeOf[t],
                  fees     |-> view.fees + Fee(t)]
            ELSE view
        empty == [selected |-> <<>>, created |-> {}, spent |-> {},
                  bytes |-> BlockOverhead + CoinbaseReserve, fees |-> 0]
    IN  FoldLeft(Consider, empty, prioritizeMempoolForMining(pool))
=============================================================================
