------------------------------- MODULE Ledger -------------------------------
(***************************************************************************)
(* The SQLite ledger of internal/ledger: the active chain, the unspent     *)
(* outputs, the undo records, the prune horizon and the mempool, and every *)
(* operation that changes them.                                            *)
(*                                                                         *)
(* A writer holds writeMu and works in one SQL transaction.  The variables *)
(* chain, utxo, undo, pruned and mempool are what that transaction sees;   *)
(* db is what is committed, which is what readers, the next writer and a   *)
(* restarted process see.  Each iteration of the loops of connectBlock,    *)
(* replaceFrom and rebuildMempool is one step, and a step that fails, a    *)
(* cancelled context or a crash rolls the transaction back.                *)
(*                                                                         *)
(* Genesis is implicit: chain[h] is the block at height h and Len(chain)   *)
(* the tip height.  A block hash commits to the header, and through        *)
(* previous_hash to the whole prefix, so two tips have the same hash       *)
(* exactly when their chains are equal.                                    *)
(***************************************************************************)
EXTENDS Mempool

CONSTANTS OfferedBlocks,     \* blocks that peers offer, whatever their tip
          Works,             \* the work of one block (2^difficulty)
          MinedWorks,        \* the work of blocks mined here
          ImportedPending,   \* pending sequences of a legacy state
          PruneRetentions,   \* values of Prune's retainRecent
          MaxHeight,         \* bound of the model
          MaxBranch          \* bound of the model

Block == [txs : Seq(Regular), coinbase : Coinbases, work : Works]

ASSUME LedgerAssumption ==
    /\ Works \subseteq Nat \ {0}
    /\ MinedWorks \subseteq Works
    /\ OfferedBlocks \subseteq Block
    /\ ImportedPending \subseteq Seq(Regular)
    /\ PruneRetentions \subseteq Nat \ {0}
    /\ MaxHeight \in Nat /\ MaxBranch \in Nat

VARIABLES chain,    \* rows of blocks, with the transactions confirmed so far
          utxo,     \* rows of utxos
          undo,     \* block_undo: height -> what disconnecting needs
          pruned,   \* meta.pruned_through
          mempool,  \* rows of mempool by sequence
          db,       \* the committed values of the five above
          txn,      \* the writer's locals
          job       \* the candidate a miner is working on

stored == <<chain, utxo, undo, pruned, mempool>>
vars == <<chain, utxo, undo, pruned, mempool, db, txn, job>>

UndoRecord == [spent : SUBSET UTXORecord, created : SUBSET Outpoint]

NoUndo == [spent |-> {}, created |-> {}]

(***************************************************************************)
(* The locals of the open write transaction: the operation and how far it  *)
(* is; the ancestor to disconnect down to; how many blocks are still to be *)
(* connected and where they come from; of the block being connected the    *)
(* transactions still to apply (the coinbase last), the undo record and    *)
(* the fees so far; the work to beat; and the transactions that left       *)
(* blocks or wait for readmission.                                         *)
(*                                                                         *)
(* What comes from outside (source, todo) or waits to be judged again      *)
(* (orphans, queue) is only a proposal: nothing is assumed of it, and each *)
(* member is checked when its turn comes.                                  *)
(***************************************************************************)
Txn == [op : {"none", "connect", "mined", "disconnect", "replace", "import"},
        phase : {"idle", "disconnect", "header", "body", "rebuild"},
        ancestor : Nat, left : Nat, source : {txn.source},
        todo : {txn.todo}, acc : UndoRecord, fees : Nat,
        oldWork : Nat, orphans : {txn.orphans}, queue : {txn.queue}]

NoTxn == [op |-> "none", phase |-> "idle", ancestor |-> 0, left |-> 0,
          source |-> {}, todo |-> <<>>, acc |-> NoUndo, fees |-> 0,
          oldWork |-> 0, orphans |-> <<>>, queue |-> <<>>]

NoJob == [held |-> FALSE]

-----------------------------------------------------------------------------
Committed == [chain |-> chain, utxo |-> utxo, undo |-> undo,
              pruned |-> pruned, mempool |-> mempool]

\* regularTransactionsAt: a disconnected block's coinbase is gone for good.
RegularOf(row) == SelectSeq(row.txs, LAMBDA t : t \in Regular)

Init ==
    /\ chain = <<>> /\ utxo = {} /\ undo = <<>> /\ pruned = 0 /\ mempool = <<>>
    /\ db = Committed
    /\ txn = NoTxn
    /\ job = NoJob

-----------------------------------------------------------------------------
(* Single-statement writers: they validate and commit in one step.         *)

AddTransaction(t) ==
    /\ txn = NoTxn
    /\ Admissible(mempool, utxo, Confirmed(chain), t, Len(chain) + 1)
    /\ mempool' = Append(mempool, t)
    /\ db' = [db EXCEPT !.mempool = mempool']
    /\ UNCHANGED <<chain, utxo, undo, pruned, txn, job>>

\* Mutant: the undo record at the cutoff survives.
UndoAfterPruneInclusive(cutoff) == [h \in {g \in DOMAIN undo : g >= cutoff} |-> undo[h]]

\* DELETE FROM block_undo WHERE block_height BETWEEN 1 AND cutoff.
UndoAfterPrune(cutoff) == [h \in {g \in DOMAIN undo : g > cutoff} |-> undo[h]]

\* Prune: bodies and undo records at or below the cutoff are dropped.
Prune(retainRecent) ==
    /\ txn = NoTxn
    /\ Len(chain) > retainRecent
    /\ Len(chain) - retainRecent > pruned
    /\ pruned' = Len(chain) - retainRecent
    /\ undo' = UndoAfterPrune(pruned')
    /\ db' = [db EXCEPT !.pruned = pruned', !.undo = undo']
    /\ UNCHANGED <<chain, utxo, mempool, txn, job>>

-----------------------------------------------------------------------------
(* Opening a transaction that connects or disconnects blocks.              *)

Begin(op, phase, ancestor, count, source) ==
    /\ txn = NoTxn
    /\ ancestor + count <= MaxHeight
    /\ txn' = [NoTxn EXCEPT !.op = op, !.phase = phase, !.ancestor = ancestor,
                            !.left = count, !.source = source,
                            !.oldWork = TotalWork(chain)]

\* ConnectBlock: one block, whose previous hash must be the tip.
ConnectBlock ==
    /\ Begin("connect", "header", Len(chain), 1, OfferedBlocks)
    /\ UNCHANGED <<stored, db, job>>

\* Mutant: only the height of the tip is compared.
SameTipHeight(tip) == Len(tip) = Len(chain)

\* The tip's height and hash are the expected ones.
SameTip(tip) == tip = chain

\* CommitMinedBlock: the candidate is dropped whatever the outcome; it is
\* connected only if the tip is still the one it was built on (ErrStaleTip).
CommitMinedBlock ==
    /\ job # NoJob
    /\ txn = NoTxn
    /\ IF SameTip(job.tip)
       THEN Begin("mined", "header", Len(chain), 1, {job.block})
       ELSE UNCHANGED txn
    /\ job' = NoJob
    /\ UNCHANGED <<stored, db>>

\* DisconnectTip refuses genesis and a tip at or below the prune horizon.
DisconnectTip ==
    /\ chain # <<>>
    /\ Len(chain) > pruned
    /\ Begin("disconnect", "disconnect", Len(chain) - 1, 0, {})
    /\ UNCHANGED <<stored, db, job>>

\* replaceFromSourceAtTime up to its loops: count blocks that branch off the
\* active chain at the ancestor.  The blocks are read one at a time, and one
\* that does not link to the tip fails like any other.
ReplaceFrom(ancestor, count) ==
    /\ count > 0
    /\ ancestor <= Len(chain)
    /\ ancestor >= pruned
    /\ Begin("replace", IF ancestor < Len(chain) THEN "disconnect" ELSE "header",
             ancestor, count, OfferedBlocks)
    /\ UNCHANGED <<stored, db, job>>

\* ImportState: a fresh ledger, whose mempool is cleared first.
ImportState(count, pending) ==
    /\ txn = NoTxn
    /\ chain = <<>>
    /\ count <= MaxHeight
    /\ txn' = [NoTxn EXCEPT !.op = "import", !.phase = "header", !.left = count,
                            !.source = OfferedBlocks, !.queue = pending]
    /\ mempool' = <<>>
    /\ UNCHANGED <<chain, utxo, undo, pruned, db, job>>

-----------------------------------------------------------------------------
(* The steps of an open transaction.                                       *)

\* Mutant: also what the block itself had created comes back.
RestoredAll(record) == record.spent

\* What disconnecting puts back: what the block spent, except what it created.
Restored(record) == {r \in record.spent : r.out \notin record.created}

\* disconnectTip: what the block created goes, what it spent comes back,
\* except what it had created itself; deleting the block row cascades to its
\* transactions and its undo record.
DisconnectBlock ==
    LET tip  == Len(chain)
        back == Restored(undo[tip])
        kept == {r \in utxo : r.out \notin undo[tip].created}
    IN  /\ txn.phase = "disconnect"
        /\ tip > pruned
        /\ tip \in DOMAIN undo
        /\ Outs(back) \cap Outs(kept) = {}          \* primary key of utxos
        /\ utxo' = kept \cup back
        /\ chain' = SubSeq(chain, 1, tip - 1)
        /\ undo' = [h \in DOMAIN undo \ {tip} |-> undo[h]]
        /\ txn' = [txn EXCEPT !.orphans = CollectOrphans(@, RegularOf(chain[tip])),
                              !.phase = IF tip - 1 > txn.ancestor THEN @ ELSE "header"]
        /\ UNCHANGED <<pruned, mempool, db, job>>

\* The size checks of validateBlockHeaderAtTime.
WithinBlockLimits(block) ==
    /\ Len(block.txs) + 1 <= MaxBlockTransactions
    /\ BlockOverhead + Bytes(Append(block.txs, block.coinbase)) <= MaxBlockBytes

\* connectBlockAtTime through the insertion of the block row.  Timestamp,
\* difficulty and proof of work are those of module Consensus; a block that
\* fails them never gets here.
InsertBlock ==
    /\ txn.phase = "header"
    /\ txn.left > 0
    /\ \E block \in txn.source :
          /\ WithinBlockLimits(block)
          /\ chain' = WithRow(chain, TotalWork(chain) + block.work)
          /\ txn' = [txn EXCEPT !.phase = "body", !.left = @ - 1, !.acc = NoUndo, !.fees = 0,
                                !.todo = Append(block.txs, block.coinbase)]
    /\ UNCHANGED <<utxo, undo, pruned, mempool, db, job>>

\* The checks of one regular transaction of a block, in connectBlockAtTime.
Connectable(t) ==
    /\ t \notin Confirmed(chain)
    /\ InputsOf[t] \subseteq Outs(utxo)
    /\ ValidRegularTransaction(t)
    /\ \A r \in InputRecords(utxo, t) : MatureRecord(r, Len(chain))
    /\ OutpointsOf(t) \cap (Outs(utxo) \ InputsOf[t]) = {}    \* primary key of utxos

ConnectTransaction ==
    LET t       == Head(txn.todo)
        spent   == InputRecords(utxo, t)
        created == RecordsOf(t, Len(chain))
    IN  /\ txn.phase = "body"
        /\ Len(txn.todo) > 1
        /\ Connectable(t)
        /\ utxo' = (utxo \ spent) \cup created
        /\ chain' = Indexed(chain, t)
        /\ txn' = [txn EXCEPT !.todo = Tail(@), !.fees = @ + Fee(t),
                              !.acc = [spent   |-> @.spent \cup spent,
                                       created |-> @.created \cup Outs(created)]]
        /\ UNCHANGED <<undo, pruned, mempool, db, job>>

\* The checks of the coinbase, which is applied after every other transaction.
CoinbaseConnectable(c) ==
    /\ c \notin Confirmed(chain)
    /\ ValidCoinbase(c, Subsidy(Len(chain)) + txn.fees)
    /\ OutpointsOf(c) \cap Outs(utxo) = {}                    \* primary key of utxos

ConnectCoinbase ==
    LET c       == Head(txn.todo)
        created == RecordsOf(c, Len(chain))
        record  == [spent   |-> txn.acc.spent,
                    created |-> txn.acc.created \cup Outs(created)]
    IN  /\ txn.phase = "body"
        /\ Len(txn.todo) = 1
        /\ CoinbaseConnectable(c)
        /\ utxo' = utxo \cup created
        /\ chain' = Indexed(chain, c)
        /\ undo' = [h \in DOMAIN undo \cup {Len(chain)} |->
                        IF h = Len(chain) THEN record ELSE undo[h]]
        /\ txn' = [txn EXCEPT !.phase = "header", !.todo = <<>>]
        /\ UNCHANGED <<pruned, mempool, db, job>>

\* Mutant: a replacement with the same work is accepted.
EnoughWorkOrEqual == txn.op = "replace" => TotalWork(chain) >= txn.oldWork

\* A replacement needs strictly more work (ErrInsufficientWork).
EnoughWork == txn.op = "replace" => TotalWork(chain) > txn.oldWork

\* Mutant: what was pending queues in front of what was disconnected.
RebuildQueuePendingFirst == mempool \o txn.orphans \o txn.queue

\* rebuildMempool's order (an import has its own pending transactions).
RebuildQueue == txn.orphans \o mempool \o txn.queue

\* Every block is connected.  A replacement must now have more work than the
\* chain it replaces; then the mempool is emptied, and what was disconnected
\* queues in front of what was pending.
StartRebuild ==
    /\ txn.phase = "header"
    /\ txn.left = 0
    /\ EnoughWork
    /\ txn' = [txn EXCEPT !.phase = "rebuild", !.queue = RebuildQueue]
    /\ mempool' = <<>>
    /\ UNCHANGED <<chain, utxo, undo, pruned, db, job>>

\* repopulateMempool: a rejected transaction is skipped.
Readmit ==
    LET t == Head(txn.queue)
    IN  /\ txn.phase = "rebuild"
        /\ txn.queue # <<>>
        /\ mempool' = IF Admissible(mempool, utxo, Confirmed(chain), t, Len(chain) + 1)
                      THEN Append(mempool, t) ELSE mempool
        /\ txn' = [txn EXCEPT !.queue = Tail(@)]
        /\ UNCHANGED <<chain, utxo, undo, pruned, db, job>>

Commit ==
    /\ txn.phase = "rebuild"
    /\ txn.queue = <<>>
    /\ db' = Committed
    /\ txn' = NoTxn
    /\ UNCHANGED <<stored, job>>

\* A failed check, an SQL error, a cancelled context or a crash.
Rollback ==
    /\ txn # NoTxn
    /\ chain' = db.chain /\ utxo' = db.utxo /\ undo' = db.undo
    /\ pruned' = db.pruned /\ mempool' = db.mempool
    /\ txn' = NoTxn
    /\ UNCHANGED <<db, job>>

-----------------------------------------------------------------------------
(* Mining.                                                                 *)

\* BuildMiningCandidate holds writeMu, so it sees a committed state.  The
\* coinbase has a fresh random nonce.
BuildMiningCandidate ==
    /\ txn = NoTxn
    /\ job = NoJob
    /\ Len(chain) < MaxHeight
    /\ LET height == Len(chain) + 1
           view   == SelectTransactions(mempool, utxo, height)
       IN  \E c \in Coinbases \ Confirmed(chain), w \in MinedWorks :
              /\ OutputTotal(c) = Subsidy(height) + view.fees
              /\ job' = [held |-> TRUE, tip |-> chain,
                         block |-> [txs |-> view.selected, coinbase |-> c, work |-> w]]
    /\ UNCHANGED <<stored, db, txn>>

\* The miner is stopped, or its context is cancelled.
AbandonJob ==
    /\ job # NoJob
    /\ job' = NoJob
    /\ UNCHANGED <<stored, db, txn>>

-----------------------------------------------------------------------------
Next ==
    \/ \E t \in Regular : AddTransaction(t)
    \/ \E n \in PruneRetentions : Prune(n)
    \/ ConnectBlock
    \/ CommitMinedBlock
    \/ DisconnectTip
    \/ \E ancestor \in 0..MaxHeight, count \in 1..MaxBranch : ReplaceFrom(ancestor, count)
    \/ \E count \in 0..MaxBranch, pending \in ImportedPending : ImportState(count, pending)
    \/ DisconnectBlock
    \/ InsertBlock
    \/ ConnectTransaction
    \/ ConnectCoinbase
    \/ StartRebuild
    \/ Readmit
    \/ Commit
    \/ Rollback
    \/ BuildMiningCandidate
    \/ AbandonJob

Spec == Init /\ [][Next]_vars

-----------------------------------------------------------------------------
(* Properties.                                                             *)

TablesOK(d) ==
    /\ d \in [chain : Seq(Row), utxo : SUBSET UTXORecord, undo : {d.undo},
              pruned : Nat, mempool : Seq(Regular)]
    /\ DOMAIN d.undo \subseteq Nat
    /\ d.undo \in [DOMAIN d.undo -> UndoRecord]

\* Every table holds rows of its type, although blocks and transactions are
\* checked one at a time while earlier ones are already written: fees never
\* go below zero, and only regular transactions wait in the mempool.
TypeOK ==
    /\ TablesOK(Committed)
    /\ TablesOK(db)
    /\ txn \in Txn
    /\ \A block \in txn.source : block.work \in Works
    /\ job # NoJob => job.block.work \in Works

\* Connecting and disconnecting blocks, in whatever order, leaves exactly the
\* outputs that the active chain created and nothing on it spent, each with
\* the height that confirms it: an undo record restores what its block
\* removed, and nothing that its block had itself created.
UtxoIsUnspent == utxo = Unspent(chain) /\ db.utxo = Unspent(db.chain)

\* There is an undo record for exactly the heights a reorganisation may
\* disconnect: above the prune horizon, up to the tip.
UndoCoversWindow ==
    /\ db.pruned <= Len(db.chain)
    /\ DOMAIN db.undo = (db.pruned + 1)..Len(db.chain)

\* No units appear or vanish: whatever was reorganised, the unspent outputs
\* add up to what the schedule has minted at the tip.
SupplyMatchesIssuance ==
    MapThenSumSet(AmountOf, Outs(db.utxo)) = MintedThrough(Len(db.chain))

\* The whole mempool could be confirmed in the next block in its own order:
\* no transaction is confirmed already, no two spend the same output, and
\* each input is a mature unspent output or was created earlier in the pool.
Mineable(d) ==
    /\ Range(d.mempool) \cap Confirmed(d.chain) = {}
    /\ \A i \in DOMAIN d.mempool :
          /\ \A j \in 1..(i - 1) :
                InputsOf[d.mempool[i]] \cap InputsOf[d.mempool[j]] = {}
          /\ \A out \in InputsOf[d.mempool[i]] :
                \/ \E r \in d.utxo : r.out = out /\ MatureRecord(r, Len(d.chain) + 1)
                \/ \E j \in 1..(i - 1) : out \in OutpointsOf(d.mempool[j])

MempoolMineable == Mineable(db)

\* The three budgets of the mempool hold after any reorganisation, which adds
\* every disconnected transaction to what was pending.
MempoolWithinBudget ==
    /\ Len(db.mempool) <= MaxPendingTransactions
    /\ Bytes(db.mempool) <= MaxMempoolBytes
    /\ InputCount(db.mempool) <= MaxMempoolInputs

\* A wallet is offered exactly the outputs that the mempool would let it
\* spend: the maturity filter of the query and the check at admission agree.
SpendableIsAdmissible ==
    LET height == Len(db.chain) + 1
    IN  SpendableOutpoints(db.mempool, db.utxo, height) =
            {out \in Outs(db.utxo) \cup PendingOutputs(db.mempool) :
                lookupMempoolSpendable(db.mempool, db.utxo, out, height)}

\* A block mined on the current tip passes every check of connectBlock: the
\* mempool may have changed since the candidate was built, the tip has not.
MinedBlockConnects ==
    txn.op = "mined" =>
        /\ txn.phase = "header" /\ txn.left > 0 =>
              \A block \in txn.source : WithinBlockLimits(block)
        /\ txn.phase = "body" /\ Len(txn.todo) > 1 => Connectable(Head(txn.todo))
        /\ txn.phase = "body" /\ Len(txn.todo) = 1 => CoinbaseConnectable(Head(txn.todo))

\* When a block has room for the whole mempool the miner takes all of it: the
\* priority order never puts a transaction before its pending parent.
MinerTakesWholePool ==
    /\ txn = NoTxn
    /\ Len(mempool) < MaxBlockTransactions
    /\ BlockOverhead + CoinbaseReserve + Bytes(mempool) <= MaxBlockBytes
    => ToSet(SelectTransactions(mempool, utxo, Len(chain) + 1).selected) = ToSet(mempool)

(***************************************************************************)
(* What is committed behaves like the abstract chain store: every commit   *)
(* is one of its steps, so a reorganisation is all or nothing, gains work, *)
(* leaves the coins of the new chain, and never reaches the prune horizon. *)
(***************************************************************************)
Store == INSTANCE ChainStore WITH chain <- db.chain, coins <- db.utxo, horizon <- db.pruned

\* The committed ledger implements ChainStore.
ImplementsChainStore == Store!Spec

\* A change of chain loses no transaction that could still be confirmed: one
\* that was confirmed or pending and is neither afterwards is one that the
\* mempool would not admit.
LosesNothing ==
    \A t \in Regular :
        /\ t \in Confirmed(db.chain) \cup Range(db.mempool)
        /\ t \notin Confirmed(db'.chain) \cup Range(db'.mempool)
        => ~Admissible(db'.mempool, db'.utxo, Confirmed(db'.chain), t, Len(db'.chain) + 1)
=============================================================================
