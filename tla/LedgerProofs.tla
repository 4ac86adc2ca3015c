---------------------------- MODULE LedgerProofs ----------------------------
(***************************************************************************)
(* The tables of the ledger keep their types, the unspent outputs and the  *)
(* undo records are those of the active chain, and what is committed       *)
(* implements ChainStore: for every set of blocks and transactions that    *)
(* may be offered, valid or not, and every value of the limits.  The       *)
(* mempool could be confirmed as it is and stays within its budgets, the   *)
(* supply is what the schedule has minted, and what the miner builds from  *)
(* the mempool is a block.                                                 *)
(***************************************************************************)
EXTENDS Ledger, ChainProofs

(***************************************************************************)
(* The inductive invariant.  While a block is being connected the tip is   *)
(* incomplete: its undo record is still the writer's txn.acc.              *)
(***************************************************************************)
Complete == IF txn.phase = "body" THEN Len(chain) - 1 ELSE Len(chain)

UndoMatches(c, u) ==
    \A h \in DOMAIN u : u[h].created = BlockOutputs(c, h) /\ u[h].spent = BlockSpends(c, h)

TablesSound(c, coins, u, horizon, top) ==
    /\ WellFormed(c)
    /\ coins = Unspent(c)
    /\ horizon <= top
    /\ DOMAIN u = (horizon + 1)..top
    /\ UndoMatches(c, u)

WorkingSound ==
    /\ TablesSound(chain, utxo, undo, pruned, Complete)
    /\ txn.phase = "body" =>
          /\ chain # <<>>
          /\ txn.acc.created = BlockOutputs(chain, Len(chain))
          /\ txn.acc.spent = BlockSpends(chain, Len(chain))

CommittedSound == TablesSound(db.chain, db.utxo, db.undo, db.pruned, Len(db.chain))

\* An open transaction leaves what lies at or below its ancestor alone.
KeepsAncestor ==
    /\ pruned <= txn.ancestor
    /\ txn.ancestor <= Complete
    /\ txn.ancestor <= Len(db.chain)
    /\ txn.phase = "disconnect" => txn.ancestor < Len(chain)
    /\ \A h \in 1..txn.ancestor : chain[h] = db.chain[h]

\* How far each operation is from the committed chain.
Progress ==
    /\ txn.op \in {"connect", "mined"} =>
          /\ txn.phase \in {"header", "body", "rebuild"}
          /\ \/ txn.left = 1 /\ txn.phase = "header" /\ chain = db.chain
             \/ txn.left = 0 /\ TotalWork(chain) > TotalWork(db.chain)
    /\ txn.op = "replace" =>
          /\ txn.oldWork = TotalWork(db.chain)
          /\ txn.phase = "rebuild" => TotalWork(chain) > txn.oldWork
    /\ txn.op = "disconnect" =>
          /\ txn.left = 0 /\ txn.phase \in {"disconnect", "header", "rebuild"}
          /\ txn.ancestor = Len(db.chain) - 1
          /\ Len(chain) = IF txn.phase = "disconnect" THEN Len(db.chain) ELSE txn.ancestor
    /\ txn.op = "import" =>
          /\ txn.phase \in {"header", "body", "rebuild"}
          /\ db.chain = <<>>
          /\ chain # <<>> => TotalWork(chain) > 0

TransactionSound ==
    /\ pruned = db.pruned
    /\ txn.phase = "idle" => txn = NoTxn
    /\ txn = NoTxn => db = Committed
    /\ txn # NoTxn => txn.op # "none" /\ KeepsAncestor /\ Progress

SoundInv == WorkingSound /\ CommittedSound /\ TransactionSound

Inv == TypeOK /\ SoundInv

-----------------------------------------------------------------------------
(* Types.                                                                  *)

TypeConjuncts ==
    /\ chain \in Seq(Row) /\ utxo \subseteq UTXORecord /\ pruned \in Nat
    /\ DOMAIN undo \subseteq Nat /\ undo \in [DOMAIN undo -> UndoRecord]
    /\ mempool \in Seq(Regular)
    /\ TablesOK(db)
    /\ txn \in Txn
    /\ \A block \in txn.source : block.work \in Works
    /\ job # NoJob => job.block.work \in Works

\* The type invariant, spelled out for each table, of a state and of the next.
LEMMA TypeParts == (TypeOK <=> TypeConjuncts) /\ (TypeOK' <=> TypeConjuncts')
BY DEF TypeOK, TypeConjuncts, TablesOK, Committed

\* The work of a chain is a number.
LEMMA TotalWorkNat == \A c \in Seq(Row) : TotalWork(c) \in Nat
<1> SUFFICES ASSUME NEW c \in Seq(Row), c # <<>> PROVE c[Len(c)].work \in Nat
    BY DEF TotalWork
<1>1. Len(c) \in 1..Len(c)
    BY EmptySeq
<1>2. c[Len(c)] \in Row
    BY <1>1, ElementOfSeq
<1> QED BY <1>2 DEF Row

\* The rows a transaction creates have the types of the table.
LEMMA RecordsType ==
    ASSUME NEW t \in Tx, NEW h \in Nat
    PROVE  RecordsOf(t, h) \subseteq UTXORecord /\ Outs(RecordsOf(t, h)) = OutpointsOf(t)
           /\ OutpointsOf(t) \subseteq Outpoint
<1>1. DOMAIN OutputsOf[t] \subseteq Nat
    BY TransactionAssumption, LenProperties
<1>2. OutpointsOf(t) \subseteq Outpoint
    BY <1>1 DEF OutpointsOf, Outpoint
<1>3. ASSUME NEW flag \in BOOLEAN, NEW out \in Outpoint
      PROVE  [out |-> out, height |-> h, coinbase |-> flag] \in UTXORecord
    BY DEF UTXORecord
<1>4. (t \in Coinbases) \in BOOLEAN
    OBVIOUS
<1>5. RecordsOf(t, h) \subseteq UTXORecord
    BY <1>2, <1>3, <1>4, Zenon DEF RecordsOf
<1>6. Outs(RecordsOf(t, h)) = OutpointsOf(t)
  <2> DEFINE rec(out) == [out |-> out, height |-> h, coinbase |-> t \in Coinbases]
  <2>1. \A out : rec(out).out = out
      OBVIOUS
  <2>2. RecordsOf(t, h) = {rec(out) : out \in OutpointsOf(t)}
      BY DEF RecordsOf
  <2> HIDE DEF rec
  <2> QED BY <2>1, <2>2 DEF Outs
<1> QED BY <1>2, <1>5, <1>6

\* The empty tables have their types.
LEMMA InitType == Init => TypeOK
BY LedgerAssumption DEF Init, TypeOK, TablesOK, Committed, NoTxn, Txn, NoUndo, UndoRecord, NoJob

\* Opening a transaction fills the writer's locals.
LEMMA BeginType ==
    ASSUME TypeOK, NEW op \in {"connect", "mined", "disconnect", "replace", "import"},
           NEW phase \in {"disconnect", "header"}, NEW ancestor \in Nat, NEW count \in Nat,
           NEW source, \A block \in source : block.work \in Works,
           Begin(op, phase, ancestor, count, source)
    PROVE  txn' \in Txn' /\ \A block \in txn'.source : block.work \in Works
<1>1. TotalWork(chain) \in Nat
    BY TotalWorkNat, TypeParts DEF TypeConjuncts
<1>2. NoUndo \in UndoRecord
    BY DEF NoUndo, UndoRecord
<1>3. txn' = [op |-> op, phase |-> phase, ancestor |-> ancestor, left |-> count,
              source |-> source, todo |-> <<>>, acc |-> NoUndo, fees |-> 0,
              oldWork |-> TotalWork(chain), orphans |-> <<>>, queue |-> <<>>]
    BY DEF Begin, NoTxn
<1> QED BY <1>1, <1>2, <1>3 DEF Txn

\* The writer's locals when the row of a block has been inserted.
LEMMA InsertLocals ==
    ASSUME txn \in Txn, txn.left > 0, NEW todo,
           txn' = [txn EXCEPT !.phase = "body", !.left = @ - 1, !.acc = NoUndo, !.fees = 0,
                              !.todo = todo]
    PROVE  /\ txn' \in Txn' /\ txn'.source = txn.source /\ txn'.left = txn.left - 1
           /\ txn'.phase = "body" /\ txn'.acc = NoUndo
           /\ txn'.op = txn.op /\ txn'.ancestor = txn.ancestor /\ txn'.oldWork = txn.oldWork
<1>1. txn.left - 1 \in Nat
    BY DEF Txn
<1>2. NoUndo \in UndoRecord
    BY DEF NoUndo, UndoRecord
<1>3. PICK left : left = txn.left - 1
    OBVIOUS
<1>4. txn' = [txn EXCEPT !.phase = "body", !.left = left, !.acc = NoUndo, !.fees = 0,
                         !.todo = todo]
    BY <1>3
<1>5. left \in Nat
    BY <1>1, <1>3
<1>6. /\ txn'.source = txn.source /\ txn'.left = left
      /\ txn'.phase = "body" /\ txn'.acc = NoUndo
      /\ txn'.op = txn.op /\ txn'.ancestor = txn.ancestor /\ txn'.oldWork = txn.oldWork
      /\ txn'.fees = 0 /\ txn'.orphans = txn.orphans /\ txn'.queue = txn.queue
    BY <1>4 DEF Txn
<1>7. txn' \in Txn'
  <2>1. PICK r : r = [txn EXCEPT !.phase = "body", !.left = left]
      OBVIOUS
  <2>2. r \in Txn
      BY <1>5, <2>1 DEF Txn
  <2>3. PICK q : q = [r EXCEPT !.acc = NoUndo, !.fees = 0]
      OBVIOUS
  <2>4. q \in Txn
      BY <1>2, <2>2, <2>3 DEF Txn
  <2>5. txn' = [q EXCEPT !.todo = todo]
      BY <1>4, <2>1, <2>3
  <2> QED BY <2>4, <2>5 DEF Txn
<1> QED BY <1>3, <1>6, <1>7

\* Every step keeps the types.
LEMMA TypeStep ==
    ASSUME TypeOK, txn.phase = "body" => chain # <<>>, [Next]_vars
    PROVE  TypeOK'
<1> USE TypeParts DEF TypeConjuncts
<1>1. CASE UNCHANGED vars
    BY <1>1 DEF vars, TablesOK, Txn
<1>2. ASSUME NEW t \in Regular, AddTransaction(t)
      PROVE  TypeOK'
    BY <1>2, AppendProperties DEF AddTransaction, TablesOK, Txn
<1>3. ASSUME NEW n \in PruneRetentions, Prune(n)
      PROVE  TypeOK'
  <2>1. n \in Nat /\ Len(chain) \in Nat
      BY LedgerAssumption, LenProperties
  <2>2. pruned' \in Nat
      BY <1>3, <2>1 DEF Prune
  <2>3. DOMAIN undo' \subseteq Nat /\ undo' \in [DOMAIN undo' -> UndoRecord]
      BY <1>3 DEF Prune, UndoAfterPrune
  <2> QED BY <1>3, <2>2, <2>3 DEF Prune, TablesOK, Txn
<1>4. CASE ConnectBlock
  <2>1. Len(chain) \in Nat /\ 1 \in Nat
      BY LenProperties
  <2>2. \A block \in OfferedBlocks : block.work \in Works
      BY LedgerAssumption DEF Block
  <2>3. txn' \in Txn' /\ \A block \in txn'.source : block.work \in Works
      BY <1>4, <2>1, <2>2, BeginType DEF ConnectBlock
  <2> QED BY <1>4, <2>3 DEF ConnectBlock, stored, TablesOK
<1>5. CASE CommitMinedBlock
  <2>1. Len(chain) \in Nat /\ 1 \in Nat
      BY LenProperties
  <2>2. \A block \in {job.block} : block.work \in Works
      BY <1>5 DEF CommitMinedBlock
  <2>3. CASE Begin("mined", "header", Len(chain), 1, {job.block})
    <3>1. txn' \in Txn' /\ \A block \in txn'.source : block.work \in Works
        BY <2>1, <2>2, <2>3, BeginType
    <3> QED BY <1>5, <3>1 DEF CommitMinedBlock, stored, TablesOK
  <2>4. CASE UNCHANGED txn
      BY <1>5, <2>4 DEF CommitMinedBlock, stored, TablesOK, Txn
  <2> QED BY <1>5, <2>3, <2>4 DEF CommitMinedBlock
<1>6. CASE DisconnectTip
  <2>1. Len(chain) - 1 \in Nat /\ 0 \in Nat
      BY <1>6, EmptySeq DEF DisconnectTip
  <2>2. NoUndo \in UndoRecord /\ TotalWork(chain) \in Nat
      BY TotalWorkNat DEF NoUndo, UndoRecord
  <2>3. txn' = [op |-> "disconnect", phase |-> "disconnect", ancestor |-> Len(chain) - 1,
                left |-> 0, source |-> {}, todo |-> <<>>, acc |-> NoUndo, fees |-> 0,
                oldWork |-> TotalWork(chain), orphans |-> <<>>, queue |-> <<>>]
      BY <1>6 DEF DisconnectTip, Begin, NoTxn
  <2>4. txn' \in Txn' /\ \A block \in txn'.source : block.work \in Works
      BY <2>1, <2>2, <2>3 DEF Txn
  <2> QED BY <1>6, <2>4 DEF DisconnectTip, stored, TablesOK
<1>7. ASSUME NEW ancestor \in 0..MaxHeight, NEW count \in 1..MaxBranch,
             ReplaceFrom(ancestor, count)
      PROVE  TypeOK'
  <2>1. ancestor \in Nat /\ count \in Nat
      BY LedgerAssumption
  <2>2. \A block \in OfferedBlocks : block.work \in Works
      BY LedgerAssumption DEF Block
  <2>3. txn' \in Txn' /\ \A block \in txn'.source : block.work \in Works
    <3>1. CASE Begin("replace", "disconnect", ancestor, count, OfferedBlocks)
        BY <2>1, <2>2, <3>1, BeginType
    <3>2. CASE Begin("replace", "header", ancestor, count, OfferedBlocks)
        BY <2>1, <2>2, <3>2, BeginType
    <3> QED BY <1>7, <3>1, <3>2 DEF ReplaceFrom
  <2> QED BY <1>7, <2>3 DEF ReplaceFrom, stored, TablesOK
<1>8. ASSUME NEW count \in 0..MaxBranch, NEW pending \in ImportedPending,
             ImportState(count, pending)
      PROVE  TypeOK'
  <2>1. count \in Nat
      BY LedgerAssumption
  <2>2. \A block \in OfferedBlocks : block.work \in Works
      BY LedgerAssumption DEF Block
  <2>3. NoUndo \in UndoRecord
      BY DEF NoUndo, UndoRecord
  <2>4. txn' = [op |-> "import", phase |-> "header", ancestor |-> 0, left |-> count,
                source |-> OfferedBlocks, todo |-> <<>>, acc |-> NoUndo, fees |-> 0,
                oldWork |-> 0, orphans |-> <<>>, queue |-> pending]
      BY <1>8 DEF ImportState, NoTxn
  <2>5. txn' \in Txn'
      BY <2>1, <2>3, <2>4 DEF Txn
  <2> QED BY <1>8, <2>2, <2>4, <2>5 DEF ImportState, TablesOK
<1>9. CASE DisconnectBlock
  <2> DEFINE tip == Len(chain)
             left == {r \in utxo : r.out \notin undo[tip].created}
  <2>1. tip \in Nat /\ chain # <<>>
      BY <1>9, LenProperties, EmptySeq DEF DisconnectBlock
  <2>2. chain' \in Seq(Row)
      BY <1>9, <2>1, BelowTip DEF DisconnectBlock
  <2>3. utxo' \subseteq UTXORecord
    <3>1. undo[tip] \in UndoRecord
        BY <1>9 DEF DisconnectBlock
    <3>2. Restored(undo[tip]) \subseteq UTXORecord
        BY <3>1 DEF Restored, UndoRecord
    <3> QED BY <1>9, <3>2 DEF DisconnectBlock
  <2>4. DOMAIN undo' \subseteq Nat /\ undo' \in [DOMAIN undo' -> UndoRecord]
      BY <1>9 DEF DisconnectBlock
  <2>5. txn' \in Txn' /\ txn'.source = txn.source
    <3>1. \E p \in {"disconnect", "header"} : \E o :
             txn' = [txn EXCEPT !.orphans = o, !.phase = p]
        BY <1>9 DEF DisconnectBlock
    <3> QED BY <3>1 DEF Txn
  <2> QED BY <1>9, <2>2, <2>3, <2>4, <2>5 DEF DisconnectBlock, TablesOK
<1>10. CASE InsertBlock
  <2>1. PICK block \in txn.source :
           /\ chain' = WithRow(chain, TotalWork(chain) + block.work)
           /\ txn' = [txn EXCEPT !.phase = "body", !.left = @ - 1, !.acc = NoUndo, !.fees = 0,
                                 !.todo = Append(block.txs, block.coinbase)]
      BY <1>10 DEF InsertBlock
  <2>2. block.work \in Nat /\ TotalWork(chain) \in Nat
      BY LedgerAssumption, TotalWorkNat
  <2>3. chain' \in Seq(Row)
    <3>1. [txs |-> <<>>, work |-> TotalWork(chain) + block.work] \in Row
        BY <2>2 DEF Row
    <3> QED BY <2>1, <3>1, AppendProperties DEF WithRow
  <2>4. NoUndo \in UndoRecord
      BY DEF NoUndo, UndoRecord
  <2>5. txn' \in Txn' /\ txn'.source = txn.source
      BY <1>10, <2>1, InsertLocals DEF InsertBlock
  <2> QED BY <1>10, <2>3, <2>5 DEF InsertBlock, TablesOK
<1>11. CASE ConnectTransaction
  <2> DEFINE t == Head(txn.todo)
             spent == InputRecords(utxo, t)
             created == RecordsOf(t, Len(chain))
  <2>1. Connectable(t)
      BY <1>11 DEF ConnectTransaction
  <2>2. t \in Regular /\ t \in Tx /\ Fee(t) \in Nat
      BY <2>1, TransactionAssumption DEF Connectable, ValidRegularTransaction, Tx
  <2>3. Len(chain) \in Nat
      BY LenProperties
  <2>4. spent \subseteq UTXORecord
      BY DEF InputRecords
  <2> HIDE DEF t
  <2>5. created \subseteq UTXORecord /\ Outs(created) \subseteq Outpoint
      BY <2>2, <2>3, RecordsType
  <2>6. utxo' \subseteq UTXORecord
      BY <1>11, <2>5 DEF ConnectTransaction, t
  <2>7. chain' \in Seq(Row)
    <3>1. chain' = Indexed(chain, t)
        BY <1>11 DEF ConnectTransaction, t
    <3>2. chain # <<>>
        BY <1>11 DEF ConnectTransaction
    <3> QED BY <2>2, <3>1, <3>2, IndexRow
  <2>8. [spent |-> txn.acc.spent \cup spent, created |-> txn.acc.created \cup Outs(created)]
            \in UndoRecord
      BY <2>4, <2>5 DEF UndoRecord, Txn
  <2>9. txn' \in Txn' /\ txn'.source = txn.source
    <3>1. \E u \in UndoRecord : \E todo :
             txn' = [txn EXCEPT !.todo = todo, !.fees = @ + Fee(t), !.acc = u]
        BY <1>11, <2>8 DEF ConnectTransaction, t
    <3>2. txn.fees + Fee(t) \in Nat
        BY <2>2 DEF Txn
    <3> QED BY <3>1, <3>2 DEF Txn
  <2> QED BY <1>11, <2>6, <2>7, <2>9 DEF ConnectTransaction, TablesOK
<1>12. CASE ConnectCoinbase
  <2> DEFINE c == Head(txn.todo)
             created == RecordsOf(c, Len(chain))
             record == [spent |-> txn.acc.spent, created |-> txn.acc.created \cup Outs(created)]
  <2>1. c \in Tx
      BY <1>12 DEF ConnectCoinbase, CoinbaseConnectable, ValidCoinbase, Tx
  <2>2. Len(chain) \in Nat
      BY LenProperties
  <2> HIDE DEF c
  <2>3. created \subseteq UTXORecord /\ Outs(created) \subseteq Outpoint
      BY <2>1, <2>2, RecordsType
  <2>4. utxo' \subseteq UTXORecord
      BY <1>12, <2>3 DEF ConnectCoinbase, c
  <2>5. chain' \in Seq(Row)
    <3>1. chain' = Indexed(chain, c)
        BY <1>12 DEF ConnectCoinbase, c
    <3>2. chain # <<>>
        BY <1>12 DEF ConnectCoinbase
    <3> QED BY <2>1, <3>1, <3>2, IndexRow
  <2>6. record \in UndoRecord
      BY <2>3 DEF UndoRecord, Txn
  <2>7. undo' = [h \in DOMAIN undo \cup {Len(chain)} |->
                    IF h = Len(chain) THEN record ELSE undo[h]]
      BY <1>12 DEF ConnectCoinbase, c
  <2> HIDE DEF record
  <2>8. DOMAIN undo' \subseteq Nat /\ undo' \in [DOMAIN undo' -> UndoRecord]
      BY <2>2, <2>6, <2>7
  <2>9. txn' \in Txn' /\ txn'.source = txn.source
      BY <1>12 DEF ConnectCoinbase, Txn
  <2> QED BY <1>12, <2>4, <2>5, <2>8, <2>9 DEF ConnectCoinbase, TablesOK
<1>13. CASE StartRebuild
  <2>1. \E q : txn' = [txn EXCEPT !.phase = "rebuild", !.queue = q]
      BY <1>13 DEF StartRebuild
  <2>2. txn' \in Txn' /\ txn'.source = txn.source
      BY <2>1 DEF Txn
  <2> QED BY <1>13, <2>2 DEF StartRebuild, TablesOK
<1>14. CASE Readmit
  <2>1. \E q : txn' = [txn EXCEPT !.queue = q]
      BY <1>14 DEF Readmit
  <2>2. txn' \in Txn' /\ txn'.source = txn.source
      BY <2>1 DEF Txn
  <2>3. \A t : Admissible(mempool, utxo, Confirmed(chain), t, Len(chain) + 1) => t \in Regular
      BY TransactionAssumption DEF Admissible, ValidRegularTransaction
  <2>4. mempool' \in Seq(Regular)
      BY <1>14, <2>3, AppendProperties DEF Readmit
  <2> QED BY <1>14, <2>2, <2>4 DEF Readmit, TablesOK
<1>15. NoTxn \in [op : {"none"}, phase : {"idle"}, ancestor : Nat, left : Nat,
                  source : {NoTxn.source}, todo : {NoTxn.todo}, acc : UndoRecord,
                  fees : Nat, oldWork : Nat, orphans : {NoTxn.orphans}, queue : {NoTxn.queue}]
      /\ NoTxn.source = {}
    BY DEF NoTxn, NoUndo, UndoRecord
<1>16. CASE Commit
  <2>1. txn' \in Txn' /\ txn'.source = {}
      BY <1>15, <1>16 DEF Commit, Txn
  <2> QED BY <1>16, <2>1 DEF Commit, Committed, stored, TablesOK
<1>17. CASE Rollback
  <2>1. txn' \in Txn' /\ txn'.source = {}
      BY <1>15, <1>17 DEF Rollback, Txn
  <2> QED BY <1>17, <2>1 DEF Rollback, TablesOK
<1>18. CASE BuildMiningCandidate
  <2>1. \E tip, txs, c : \E w \in MinedWorks :
           job' = [held |-> TRUE, tip |-> tip, block |-> [txs |-> txs, coinbase |-> c, work |-> w]]
      BY <1>18 DEF BuildMiningCandidate
  <2>2. job'.block.work \in Works
      BY <2>1, LedgerAssumption
  <2> QED BY <1>18, <2>2 DEF BuildMiningCandidate, stored, TablesOK, Txn
<1>19. CASE AbandonJob
    BY <1>19 DEF AbandonJob, stored, TablesOK, Txn
<1> QED BY <1>1, <1>2, <1>3, <1>4, <1>5, <1>6, <1>7, <1>8, <1>9, <1>10, <1>11, <1>12,
           <1>13, <1>14, <1>16, <1>17, <1>18, <1>19 DEF Next

-----------------------------------------------------------------------------
(* The tables follow the chain.                                            *)

\* The empty ledger.
LEMMA InitSound == Init => SoundInv
<1> SUFFICES ASSUME Init PROVE SoundInv
    OBVIOUS
<1>1. /\ chain = <<>> /\ utxo = {} /\ undo = <<>> /\ pruned = 0 /\ txn = NoTxn
      /\ db.chain = <<>> /\ db.utxo = {} /\ db.undo = <<>> /\ db.pruned = 0 /\ db = Committed
    BY DEF Init, Committed
<1>2. txn.phase = "idle" /\ Complete = 0
    BY <1>1 DEF NoTxn, Complete
<1>3. WellFormed(<<>>) /\ Unspent(<<>>) = {}
    BY DEF WellFormed, Unspent, CreatedIn
<1>4. TablesSound(<<>>, {}, <<>>, 0, 0)
    BY <1>3 DEF TablesSound, UndoMatches
<1> QED BY <1>1, <1>2, <1>4 DEF SoundInv, WorkingSound, CommittedSound, TransactionSound

\* Opening a transaction changes no table.
LEMMA BeginSound ==
    ASSUME Inv, UNCHANGED <<stored, db>>,
           NEW op \in {"connect", "mined", "disconnect", "replace"},
           NEW phase \in {"disconnect", "header"}, NEW ancestor \in Nat, NEW count \in Nat,
           NEW source,
           Begin(op, phase, ancestor, count, source),
           pruned <= ancestor, ancestor <= Len(chain),
           phase = "disconnect" => ancestor < Len(chain),
           op \in {"connect", "mined"} => phase = "header" /\ count = 1,
           op = "disconnect" => phase = "disconnect" /\ count = 0 /\ ancestor = Len(chain) - 1
    PROVE  SoundInv'
<1>1. txn = NoTxn /\ db = Committed
    BY DEF Begin, Inv, SoundInv, TransactionSound
<1>2. txn.phase = "idle" /\ Complete = Len(chain)
    BY <1>1 DEF NoTxn, Complete
<1>3. /\ txn'.op = op /\ txn'.phase = phase /\ txn'.ancestor = ancestor
      /\ txn'.left = count /\ txn'.oldWork = TotalWork(chain)
    BY DEF Begin, NoTxn
<1>4. /\ chain' = chain /\ utxo' = utxo /\ undo' = undo /\ pruned' = pruned
      /\ db' = db /\ Complete' = Len(chain)
    BY <1>3 DEF stored, Complete
<1>5. WorkingSound' /\ CommittedSound'
    BY <1>2, <1>3, <1>4 DEF Inv, SoundInv, WorkingSound, CommittedSound
<1>6. db.chain = chain
    BY <1>1 DEF Committed
<1>7. KeepsAncestor'
    BY <1>3, <1>4, <1>6 DEF KeepsAncestor
<1>8. Progress'
    BY <1>3, <1>4, <1>6 DEF Progress
<1>9. txn'.phase # "idle" /\ txn'.op # "none" /\ txn' # NoTxn
    BY <1>3 DEF NoTxn
<1> QED BY <1>4, <1>5, <1>7, <1>8, <1>9 DEF Inv, SoundInv, TransactionSound

\* A new pending transaction is committed at once and touches no other table.
LEMMA AddTransactionSound ==
    ASSUME Inv, NEW t \in Regular, AddTransaction(t)
    PROVE  SoundInv'
<1>1. txn = NoTxn /\ txn' = txn /\ db = Committed
    BY DEF AddTransaction, Inv, SoundInv, TransactionSound
<1>2. /\ chain' = chain /\ utxo' = utxo /\ undo' = undo /\ pruned' = pruned
      /\ db' = [chain |-> chain, utxo |-> utxo, undo |-> undo, pruned |-> pruned,
                mempool |-> mempool']
    BY <1>1 DEF AddTransaction, Committed
<1>3. /\ db'.chain = db.chain /\ db'.utxo = db.utxo /\ db'.undo = db.undo
      /\ db'.pruned = db.pruned /\ db' = Committed' /\ Complete' = Complete
    BY <1>1, <1>2 DEF Committed, Complete
<1>4. WorkingSound' /\ CommittedSound'
    BY <1>1, <1>2, <1>3 DEF Inv, SoundInv, WorkingSound, CommittedSound
<1> QED BY <1>1, <1>2, <1>3, <1>4 DEF Inv, SoundInv, TransactionSound

\* Pruning keeps the undo records of exactly the blocks above the horizon.
LEMMA PruneSound ==
    ASSUME Inv, NEW n \in PruneRetentions, Prune(n)
    PROVE  SoundInv'
<1>1. /\ txn = NoTxn /\ txn' = txn /\ db = Committed /\ txn.phase = "idle"
    BY DEF Prune, Inv, SoundInv, TransactionSound, NoTxn
<1>2. /\ n \in Nat \ {0} /\ Len(chain) \in Nat /\ pruned \in Nat
    BY LedgerAssumption, TypeParts, LenProperties DEF Inv, TypeConjuncts
<1>3. /\ chain' = chain /\ utxo' = utxo /\ Complete = Len(chain) /\ Complete' = Len(chain)
      /\ pruned' = Len(chain) - n /\ pruned' > pruned /\ undo' = UndoAfterPrune(pruned')
      /\ db' = [chain |-> chain, utxo |-> utxo, undo |-> undo', pruned |-> pruned',
                mempool |-> mempool]
      /\ mempool' = mempool
    BY <1>1 DEF Prune, Committed, Complete
<1>4. TablesSound(chain, utxo, undo, pruned, Len(chain))
    BY <1>3 DEF Inv, SoundInv, WorkingSound
<1>5. TablesSound(chain, utxo, undo', pruned', Len(chain))
  <2>1. DOMAIN undo = (pruned + 1)..Len(chain) /\ UndoMatches(chain, undo)
      BY <1>4 DEF TablesSound
  <2>2. DOMAIN undo' = {g \in DOMAIN undo : g > pruned'}
      BY <1>3 DEF UndoAfterPrune
  <2>3. DOMAIN undo' = (pruned' + 1)..Len(chain)
    <3>1. pruned' \in Int
        BY <1>2, <1>3
    <3>2. \A g : g \in (pruned + 1)..Len(chain) /\ g > pruned' <=> g \in (pruned' + 1)..Len(chain)
        BY <1>2, <1>3, <3>1
    <3> QED BY <2>1, <2>2, <3>2
  <2>4. \A h \in DOMAIN undo' : h \in DOMAIN undo /\ undo'[h] = undo[h]
      BY <1>3 DEF UndoAfterPrune
  <2>5. UndoMatches(chain, undo')
      BY <2>1, <2>4 DEF UndoMatches
  <2> QED BY <1>2, <1>3, <1>4, <2>3, <2>5 DEF TablesSound
<1>6. WorkingSound' /\ CommittedSound'
    BY <1>1, <1>3, <1>5 DEF WorkingSound, CommittedSound
<1>7. db' = Committed' /\ db'.pruned = pruned'
    BY <1>3 DEF Committed
<1> QED BY <1>1, <1>6, <1>7 DEF SoundInv, TransactionSound

\* An import starts from an empty chain.
LEMMA ImportSound ==
    ASSUME Inv, NEW count \in 0..MaxBranch, NEW pending, ImportState(count, pending)
    PROVE  SoundInv'
<1>1. /\ txn = NoTxn /\ db = Committed /\ txn.phase = "idle"
    BY DEF ImportState, Inv, SoundInv, TransactionSound, NoTxn
<1>2. /\ txn'.op = "import" /\ txn'.phase = "header" /\ txn'.ancestor = 0
    BY DEF ImportState, NoTxn
<1>3. /\ chain = <<>> /\ chain' = chain /\ utxo' = utxo /\ undo' = undo /\ pruned' = pruned
      /\ db' = db /\ db.chain = <<>> /\ Complete = 0 /\ Complete' = 0
    BY <1>1, <1>2 DEF ImportState, Committed, Complete
<1>4. WorkingSound' /\ CommittedSound'
    BY <1>1, <1>2, <1>3 DEF Inv, SoundInv, WorkingSound, CommittedSound
<1>5. pruned = 0
    BY <1>3, TypeParts DEF Inv, TypeConjuncts, SoundInv, WorkingSound, TablesSound
<1>6. KeepsAncestor' /\ Progress'
    BY <1>2, <1>3, <1>5 DEF KeepsAncestor, Progress
<1>7. txn'.phase # "idle" /\ txn'.op # "none" /\ txn' # NoTxn
    BY <1>2 DEF NoTxn
<1> QED BY <1>3, <1>4, <1>6, <1>7 DEF Inv, SoundInv, TransactionSound

\* What every step of an open transaction may use.
LEMMA OpenFacts ==
    ASSUME Inv, txn # NoTxn
    PROVE  /\ chain \in Seq(Row) /\ db.chain \in Seq(Row) /\ txn \in Txn
           /\ Len(chain) \in Nat /\ Len(db.chain) \in Nat /\ pruned \in Nat
           /\ txn.ancestor \in Nat
           /\ TablesSound(chain, utxo, undo, pruned, Complete)
           /\ TransactionSound /\ KeepsAncestor /\ Progress /\ pruned = db.pruned
<1>1. chain \in Seq(Row) /\ db.chain \in Seq(Row) /\ txn \in Txn /\ pruned \in Nat
    BY TypeParts DEF Inv, TypeConjuncts, TablesOK
<1>2. Len(chain) \in Nat /\ Len(db.chain) \in Nat
    BY <1>1, LenProperties
<1> QED BY <1>1, <1>2 DEF Inv, SoundInv, WorkingSound, TransactionSound, Txn

\* Undo records stay right as long as the chain above them changes.
LEMMA UndoPrefix ==
    ASSUME NEW c, NEW d, NEW u, NEW n \in Nat, NEW p \in Nat, DOMAIN u = (p + 1)..n,
           \A h \in 1..n : c[h] = d[h], UndoMatches(c, u)
    PROVE  UndoMatches(d, u)
<1>1. \A h \in DOMAIN u : h \in 1..n
    OBVIOUS
<1>2. \A h \in 1..n : BlockOutputs(c, h) = BlockOutputs(d, h) /\ BlockSpends(c, h) = BlockSpends(d, h)
    BY SamePrefix
<1> QED BY <1>1, <1>2 DEF UndoMatches

\* Disconnecting the tip restores the outputs of the chain below it.
LEMMA DisconnectSound ==
    ASSUME Inv, DisconnectBlock
    PROVE  SoundInv'
<1> DEFINE tip == Len(chain)
<1>1. txn.phase = "disconnect" /\ txn # NoTxn /\ Complete = tip
    BY DEF DisconnectBlock, NoTxn, Complete
<1>2. /\ chain \in Seq(Row) /\ txn \in Txn /\ tip \in Nat /\ pruned \in Nat /\ txn.ancestor \in Nat
      /\ TablesSound(chain, utxo, undo, pruned, tip)
      /\ TransactionSound /\ KeepsAncestor /\ Progress
    BY <1>1, OpenFacts
<1>3. tip > pruned /\ tip \in DOMAIN undo /\ txn.ancestor < tip /\ chain # <<>>
    BY <1>1, <1>2 DEF DisconnectBlock, KeepsAncestor
<1>4. /\ WellFormed(chain) /\ utxo = Unspent(chain)
      /\ DOMAIN undo = (pruned + 1)..tip /\ UndoMatches(chain, undo)
      /\ undo[tip].created = BlockOutputs(chain, tip) /\ undo[tip].spent = BlockSpends(chain, tip)
    BY <1>2, <1>3 DEF TablesSound, UndoMatches
<1>5. chain' = SubSeq(chain, 1, tip - 1)
    BY DEF DisconnectBlock
<1>6. /\ chain' \in Seq(Row) /\ Len(chain') = tip - 1
      /\ \A h \in 1..Len(chain') : chain'[h] = chain[h]
      /\ Unspent(chain') = {r \in Unspent(chain) : r.out \notin BlockOutputs(chain, tip)} \cup
                           {r \in BlockSpends(chain, tip) : r.out \notin BlockOutputs(chain, tip)}
      /\ WellFormed(chain')
    BY <1>2, <1>3, <1>4, <1>5, DropTip
<1>7. utxo' = Unspent(chain')
    BY <1>4, <1>6 DEF DisconnectBlock, Restored
<1>8. undo' = [h \in DOMAIN undo \ {tip} |-> undo[h]]
    BY DEF DisconnectBlock
<1>9. DOMAIN undo' = (pruned + 1)..(tip - 1)
  <2>1. \A h : h \in ((pruned + 1)..tip) \ {tip} <=> h \in (pruned + 1)..(tip - 1)
      BY <1>2
  <2> QED BY <1>4, <1>8, <2>1
<1>10. UndoMatches(chain', undo')
  <2>1. UndoMatches(chain, undo')
      BY <1>4, <1>8 DEF UndoMatches
  <2>2. tip - 1 \in Nat /\ \A h \in 1..(tip - 1) : chain[h] = chain'[h]
      BY <1>2, <1>3, <1>6
  <2> QED BY <1>2, <1>9, <2>1, <2>2, UndoPrefix
<1>11. /\ pruned' = pruned /\ db' = db /\ txn'.op = txn.op /\ txn'.ancestor = txn.ancestor
       /\ txn'.left = txn.left /\ txn'.oldWork = txn.oldWork
       /\ txn'.phase = IF tip - 1 > txn.ancestor THEN "disconnect" ELSE "header"
    BY <1>1, <1>2 DEF DisconnectBlock, Txn
<1>12. Complete' = tip - 1 /\ txn'.phase # "body" /\ txn'.phase # "idle" /\ txn' # NoTxn
    BY <1>6, <1>11 DEF Complete, NoTxn
<1>13. WorkingSound' /\ CommittedSound'
  <2>1. TablesSound(chain', utxo', undo', pruned', tip - 1)
      BY <1>2, <1>3, <1>6, <1>7, <1>9, <1>10, <1>11 DEF TablesSound
  <2> QED BY <1>11, <1>12, <2>1 DEF WorkingSound, CommittedSound, Inv, SoundInv
<1>14. KeepsAncestor'
    BY <1>2, <1>3, <1>6, <1>11, <1>12 DEF KeepsAncestor
<1>15. Progress'
    BY <1>1, <1>2, <1>3, <1>6, <1>11 DEF Progress
<1> QED BY <1>1, <1>2, <1>11, <1>12, <1>13, <1>14, <1>15 DEF SoundInv, TransactionSound

\* Inserting the row of a block leaves the tip incomplete, and gains work.
LEMMA InsertSound ==
    ASSUME Inv, InsertBlock
    PROVE  SoundInv'
<1> DEFINE tip == Len(chain)
<1>1. txn.phase = "header" /\ txn # NoTxn /\ Complete = tip /\ txn.left > 0
    BY DEF InsertBlock, NoTxn, Complete
<1>2. /\ chain \in Seq(Row) /\ txn \in Txn /\ tip \in Nat /\ pruned \in Nat /\ txn.ancestor \in Nat
      /\ TablesSound(chain, utxo, undo, pruned, tip)
      /\ TransactionSound /\ KeepsAncestor /\ Progress
    BY <1>1, OpenFacts
<1>3. PICK block \in txn.source :
         /\ chain' = WithRow(chain, TotalWork(chain) + block.work)
         /\ txn' = [txn EXCEPT !.phase = "body", !.left = @ - 1, !.acc = NoUndo, !.fees = 0,
                               !.todo = Append(block.txs, block.coinbase)]
    BY DEF InsertBlock
<1>4. block.work \in Nat /\ block.work > 0 /\ TotalWork(chain) \in Nat
  <2>1. block.work \in Works
      BY TypeParts DEF Inv, TypeConjuncts
  <2>2. block.work \in Nat /\ block.work # 0
      BY <2>1, LedgerAssumption
  <2>3. TotalWork(chain) \in Nat
      BY <1>2, TotalWorkNat
  <2> HIDE DEF tip
  <2> QED BY <2>2, <2>3
<1>5. /\ txn'.left = txn.left - 1 /\ txn'.phase = "body" /\ txn'.acc = NoUndo
      /\ txn'.op = txn.op /\ txn'.ancestor = txn.ancestor /\ txn'.oldWork = txn.oldWork
    BY <1>1, <1>2, <1>3, InsertLocals
<1>6. WellFormed(chain) /\ utxo = Unspent(chain)
    BY <1>2 DEF TablesSound
<1>7. PICK w \in Nat : w = TotalWork(chain) + block.work /\ w > TotalWork(chain)
    BY <1>4
<1>8. chain' = WithRow(chain, w)
    BY <1>3, <1>7
<1>9. /\ chain' \in Seq(Row) /\ Len(chain') = tip + 1 /\ TotalWork(chain') = w /\ chain' # <<>>
      /\ \A h \in 1..tip : chain'[h] = chain[h]
      /\ BlockOutputs(chain', Len(chain')) = {} /\ BlockSpends(chain', Len(chain')) = {}
      /\ Unspent(chain') = Unspent(chain)
      /\ WellFormed(chain')
    BY <1>2, <1>6, <1>8, AddRow
<1>10. utxo' = utxo /\ undo' = undo /\ pruned' = pruned /\ db' = db
    BY DEF InsertBlock
<1>11. Complete' = tip /\ txn' # NoTxn /\ txn'.phase # "idle"
    BY <1>2, <1>5, <1>9 DEF Complete, NoTxn
<1>12. WorkingSound' /\ CommittedSound'
  <2>1. UndoMatches(chain', undo)
    <3>1. \A h \in 1..tip : chain[h] = chain'[h]
        BY <1>9
    <3> QED BY <1>2, <3>1, UndoPrefix DEF TablesSound
  <2>2. TablesSound(chain', utxo', undo', pruned', tip)
      BY <1>2, <1>9, <1>10, <2>1 DEF TablesSound
  <2>3. NoUndo.created = {} /\ NoUndo.spent = {}
      BY DEF NoUndo
  <2> QED BY <1>5, <1>9, <1>10, <1>11, <2>2, <2>3
          DEF WorkingSound, CommittedSound, Inv, SoundInv
<1>13. KeepsAncestor'
    BY <1>1, <1>2, <1>5, <1>9, <1>10, <1>11 DEF KeepsAncestor
<1>14. Progress'
    BY <1>1, <1>2, <1>4, <1>5, <1>7, <1>9, <1>10 DEF Progress
<1> QED BY <1>1, <1>2, <1>5, <1>10, <1>11, <1>12, <1>13, <1>14 DEF SoundInv, TransactionSound

(***************************************************************************)
(* What the two steps that index a transaction have in common: a new       *)
(* transaction, whose inputs are unspent, joins the incomplete tip.        *)
(***************************************************************************)
LEMMA BodyFacts ==
    ASSUME Inv, txn.phase = "body", NEW t \in Tx, t \notin Confirmed(chain),
           InputsOf[t] \subseteq Outs(utxo), chain' = Indexed(chain, t), pruned' = pruned
    PROVE  /\ chain' \in Seq(Row) /\ Len(chain') = Len(chain) /\ chain' # <<>>
           /\ TotalWork(chain') = TotalWork(chain) /\ Len(chain) \in Nat \ {0}
           /\ \A h \in 1..(Len(chain) - 1) : chain'[h] = chain[h]
           /\ BlockOutputs(chain', Len(chain')) = txn.acc.created \cup OutpointsOf(t)
           /\ BlockSpends(chain', Len(chain')) = txn.acc.spent \cup InputRecords(utxo, t)
           /\ Unspent(chain') = (utxo \ InputRecords(utxo, t)) \cup RecordsOf(t, Len(chain))
           /\ TablesSound(chain', Unspent(chain'), undo, pruned, Len(chain) - 1)
           /\ \A h \in 1..txn.ancestor : chain'[h] = db.chain[h]
<1> DEFINE tip == Len(chain)
<1>1. txn # NoTxn /\ Complete = tip - 1
    BY DEF NoTxn, Complete
<1>2. /\ chain \in Seq(Row) /\ tip \in Nat /\ pruned \in Nat /\ txn.ancestor \in Nat
      /\ TablesSound(chain, utxo, undo, pruned, tip - 1) /\ KeepsAncestor
    BY <1>1, OpenFacts
<1>3. /\ chain # <<>>
      /\ txn.acc.created = BlockOutputs(chain, tip) /\ txn.acc.spent = BlockSpends(chain, tip)
    BY DEF Inv, SoundInv, WorkingSound
<1>4. WellFormed(chain) /\ utxo = Unspent(chain)
    BY <1>2 DEF TablesSound
<1>5. tip \in Nat \ {0}
    BY <1>2, <1>3, EmptySeq
<1>6. /\ chain' \in Seq(Row) /\ Len(chain') = tip /\ TotalWork(chain') = TotalWork(chain)
      /\ chain' # <<>>
      /\ \A h \in 1..(tip - 1) : chain'[h] = chain[h]
      /\ BlockOutputs(chain', Len(chain')) = BlockOutputs(chain, tip) \cup OutpointsOf(t)
      /\ BlockSpends(chain', Len(chain')) =
             BlockSpends(chain, tip) \cup InputRecords(Unspent(chain), t)
      /\ Unspent(chain') =
             (Unspent(chain) \ InputRecords(Unspent(chain), t)) \cup RecordsOf(t, tip)
      /\ WellFormed(chain')
    BY <1>2, <1>3, <1>4, IndexTx
<1>7. UndoMatches(chain', undo)
  <2>1. tip - 1 \in Nat /\ \A h \in 1..(tip - 1) : chain[h] = chain'[h]
      BY <1>5, <1>6
  <2>2. DOMAIN undo = (pruned + 1)..(tip - 1) /\ UndoMatches(chain, undo)
      BY <1>2 DEF TablesSound
  <2> HIDE DEF tip
  <2> QED BY <1>2, <2>1, <2>2, UndoPrefix
<1>8. TablesSound(chain', Unspent(chain'), undo, pruned, tip - 1)
    BY <1>2, <1>6, <1>7 DEF TablesSound
<1>9. \A h \in 1..txn.ancestor : chain'[h] = db.chain[h]
    BY <1>1, <1>2, <1>6 DEF KeepsAncestor
<1> QED BY <1>3, <1>4, <1>5, <1>6, <1>8, <1>9

\* A regular transaction of the block moves its inputs to the writer's undo
\* record and adds its outputs.
LEMMA ConnectTransactionSound ==
    ASSUME Inv, ConnectTransaction
    PROVE  SoundInv'
<1>1. PICK t : t = Head(txn.todo)
    OBVIOUS
<1>2. /\ txn.phase = "body" /\ Connectable(t)
      /\ utxo' = (utxo \ InputRecords(utxo, t)) \cup RecordsOf(t, Len(chain))
      /\ chain' = Indexed(chain, t)
      /\ undo' = undo /\ pruned' = pruned /\ db' = db
    BY <1>1 DEF ConnectTransaction
<1>3. /\ t \in Tx /\ t \notin Confirmed(chain) /\ InputsOf[t] \subseteq Outs(utxo)
    BY <1>2, TransactionAssumption DEF Connectable, ValidRegularTransaction, Tx
<1>4. /\ Len(chain') = Len(chain) /\ chain' # <<>>
      /\ TotalWork(chain') = TotalWork(chain) /\ Len(chain) \in Nat \ {0}
      /\ BlockOutputs(chain', Len(chain')) = txn.acc.created \cup OutpointsOf(t)
      /\ BlockSpends(chain', Len(chain')) = txn.acc.spent \cup InputRecords(utxo, t)
      /\ Unspent(chain') = (utxo \ InputRecords(utxo, t)) \cup RecordsOf(t, Len(chain))
      /\ TablesSound(chain', Unspent(chain'), undo, pruned, Len(chain) - 1)
      /\ \A h \in 1..txn.ancestor : chain'[h] = db.chain[h]
    BY <1>2, <1>3, BodyFacts
<1>5. txn # NoTxn /\ Complete = Len(chain) - 1
    BY <1>2 DEF NoTxn, Complete
<1>6. /\ txn \in Txn /\ TransactionSound /\ KeepsAncestor /\ Progress
    BY <1>5, OpenFacts
<1>7. Outs(RecordsOf(t, Len(chain))) = OutpointsOf(t)
    BY <1>3, <1>4, RecordsType
<1>8. /\ txn'.op = txn.op /\ txn'.phase = "body" /\ txn'.ancestor = txn.ancestor
      /\ txn'.left = txn.left /\ txn'.oldWork = txn.oldWork
      /\ txn'.acc.spent = txn.acc.spent \cup InputRecords(utxo, t)
      /\ txn'.acc.created = txn.acc.created \cup OutpointsOf(t)
  <2>1. PICK acc : acc = [spent   |-> txn.acc.spent \cup InputRecords(utxo, t),
                          created |-> txn.acc.created \cup OutpointsOf(t)]
      OBVIOUS
  <2>2. \E todo, fees : txn' = [txn EXCEPT !.todo = todo, !.fees = fees, !.acc = acc]
      BY <1>1, <1>7, <2>1 DEF ConnectTransaction
  <2>3. /\ txn'.op = txn.op /\ txn'.phase = txn.phase /\ txn'.ancestor = txn.ancestor
        /\ txn'.left = txn.left /\ txn'.oldWork = txn.oldWork /\ txn'.acc = acc
      BY <1>6, <2>2 DEF Txn
  <2> QED BY <1>2, <2>1, <2>3
<1>9. Complete' = Complete /\ txn'.phase # "idle" /\ txn' # NoTxn
    BY <1>4, <1>5, <1>8 DEF Complete, NoTxn
<1>10. WorkingSound' /\ CommittedSound'
    BY <1>2, <1>4, <1>5, <1>8, <1>9 DEF WorkingSound, CommittedSound, Inv, SoundInv
<1>11. KeepsAncestor'
    BY <1>2, <1>4, <1>6, <1>8, <1>9 DEF KeepsAncestor
<1>12. Progress'
    BY <1>2, <1>4, <1>6, <1>8 DEF Progress
<1> QED BY <1>2, <1>5, <1>6, <1>8, <1>9, <1>10, <1>11, <1>12 DEF SoundInv, TransactionSound

\* The coinbase completes the block, and its undo record is stored.
LEMMA ConnectCoinbaseSound ==
    ASSUME Inv, ConnectCoinbase
    PROVE  SoundInv'
<1>1. PICK c : c = Head(txn.todo)
    OBVIOUS
<1>2. /\ txn.phase = "body" /\ CoinbaseConnectable(c)
      /\ utxo' = utxo \cup RecordsOf(c, Len(chain))
      /\ chain' = Indexed(chain, c)
      /\ pruned' = pruned /\ db' = db
    BY <1>1 DEF ConnectCoinbase
<1>3. /\ c \in Tx /\ c \notin Confirmed(chain) /\ InputsOf[c] = {}
    BY <1>2, TransactionAssumption DEF CoinbaseConnectable, ValidCoinbase, Tx
<1>4. InputRecords(utxo, c) = {} /\ InputsOf[c] \subseteq Outs(utxo)
    BY <1>3 DEF InputRecords
<1>5. /\ Len(chain') = Len(chain) /\ chain' # <<>>
      /\ TotalWork(chain') = TotalWork(chain) /\ Len(chain) \in Nat \ {0}
      /\ \A h \in 1..(Len(chain) - 1) : chain'[h] = chain[h]
      /\ BlockOutputs(chain', Len(chain')) = txn.acc.created \cup OutpointsOf(c)
      /\ BlockSpends(chain', Len(chain')) = txn.acc.spent
      /\ Unspent(chain') = utxo \cup RecordsOf(c, Len(chain))
      /\ TablesSound(chain', Unspent(chain'), undo, pruned, Len(chain) - 1)
      /\ \A h \in 1..txn.ancestor : chain'[h] = db.chain[h]
    BY <1>2, <1>3, <1>4, BodyFacts
<1>6. txn # NoTxn /\ Complete = Len(chain) - 1
    BY <1>2 DEF NoTxn, Complete
<1>7. /\ txn \in Txn /\ TransactionSound /\ KeepsAncestor /\ Progress
      /\ pruned \in Nat /\ txn.ancestor \in Nat
    BY <1>6, OpenFacts
<1>8. Outs(RecordsOf(c, Len(chain))) = OutpointsOf(c)
    BY <1>3, <1>5, RecordsType
<1>9. /\ txn'.op = txn.op /\ txn'.phase = "header" /\ txn'.ancestor = txn.ancestor
      /\ txn'.left = txn.left /\ txn'.oldWork = txn.oldWork
    BY <1>7 DEF ConnectCoinbase, Txn
<1>10. Complete' = Len(chain) /\ txn'.phase # "idle" /\ txn'.phase # "body" /\ txn' # NoTxn
    BY <1>5, <1>9 DEF Complete, NoTxn
<1>11. PICK record : record = [spent   |-> txn.acc.spent,
                               created |-> txn.acc.created \cup OutpointsOf(c)]
    OBVIOUS
<1>12. undo' = [h \in DOMAIN undo \cup {Len(chain)} |->
                   IF h = Len(chain) THEN record ELSE undo[h]]
    BY <1>1, <1>8, <1>11 DEF ConnectCoinbase
<1>13. /\ record.created = BlockOutputs(chain', Len(chain))
       /\ record.spent = BlockSpends(chain', Len(chain))
    BY <1>5, <1>11
<1>14. TablesSound(chain', utxo', undo', pruned', Len(chain))
  <2>1. /\ WellFormed(chain') /\ pruned <= Len(chain) - 1
        /\ DOMAIN undo = (pruned + 1)..(Len(chain) - 1) /\ UndoMatches(chain', undo)
      BY <1>5 DEF TablesSound
  <2>2. DOMAIN undo' = (pruned + 1)..Len(chain)
    <3>1. \A h : h \in ((pruned + 1)..(Len(chain) - 1)) \cup {Len(chain)}
                    <=> h \in (pruned + 1)..Len(chain)
        BY <1>5, <1>7, <2>1
    <3> QED BY <1>12, <2>1, <3>1
  <2>3. UndoMatches(chain', undo')
      BY <1>12, <1>13, <2>1 DEF UndoMatches
  <2> QED BY <1>2, <1>5, <1>7, <2>1, <2>2, <2>3 DEF TablesSound
<1>15. WorkingSound' /\ CommittedSound'
    BY <1>2, <1>10, <1>14 DEF WorkingSound, CommittedSound, Inv, SoundInv
<1>16. KeepsAncestor'
    BY <1>2, <1>5, <1>6, <1>7, <1>9, <1>10, SMTT(30) DEF KeepsAncestor
<1>17. Progress'
    BY <1>2, <1>5, <1>7, <1>9 DEF Progress
<1> QED BY <1>2, <1>6, <1>7, <1>9, <1>10, <1>15, <1>16, <1>17 DEF SoundInv, TransactionSound

\* The mempool is rebuilt on a finished chain, which has enough work.
LEMMA RebuildSound ==
    ASSUME Inv, StartRebuild \/ Readmit
    PROVE  SoundInv'
<1>1. /\ txn.phase \in {"header", "rebuild"} /\ txn # NoTxn /\ Complete = Len(chain)
      /\ chain' = chain /\ utxo' = utxo /\ undo' = undo /\ pruned' = pruned /\ db' = db
    BY DEF StartRebuild, Readmit, NoTxn, Complete
<1>2. /\ txn \in Txn /\ TablesSound(chain, utxo, undo, pruned, Len(chain))
      /\ TransactionSound /\ KeepsAncestor /\ Progress
    BY <1>1, OpenFacts
<1>3. /\ txn'.op = txn.op /\ txn'.phase = "rebuild" /\ txn'.ancestor = txn.ancestor
      /\ txn'.left = txn.left /\ txn'.oldWork = txn.oldWork
    BY <1>2 DEF StartRebuild, Readmit, Txn
<1>4. Complete' = Len(chain) /\ txn'.phase # "idle" /\ txn'.phase # "body" /\ txn' # NoTxn
    BY <1>1, <1>3 DEF Complete, NoTxn
<1>5. WorkingSound' /\ CommittedSound'
    BY <1>1, <1>2, <1>4 DEF WorkingSound, CommittedSound, Inv, SoundInv
<1>6. KeepsAncestor'
    BY <1>1, <1>2, <1>3, <1>4 DEF KeepsAncestor
<1>7. Progress'
  <2>1. StartRebuild => txn.left = 0 /\ EnoughWork
      BY DEF StartRebuild
  <2>2. Readmit => txn.phase = "rebuild"
      BY DEF Readmit
  <2> QED BY <1>1, <1>2, <1>3, <2>1, <2>2 DEF Progress, EnoughWork
<1> QED BY <1>1, <1>2, <1>3, <1>4, <1>5, <1>6, <1>7 DEF SoundInv, TransactionSound

\* A commit makes the working tables the committed ones, a rollback the
\* committed tables the working ones.
LEMMA CloseSound ==
    ASSUME Inv, Commit \/ Rollback
    PROVE  SoundInv'
<1>1. txn' = NoTxn /\ NoTxn.phase = "idle" /\ Complete' = Len(chain')
    BY DEF Commit, Rollback, NoTxn, Complete
<1>2. db' = Committed' /\ db'.pruned = pruned'
  <2>1. CASE Commit
      BY <2>1 DEF Commit, Committed, stored
  <2>2. CASE Rollback
    <3>1. db = [chain |-> db.chain, utxo |-> db.utxo, undo |-> db.undo,
                pruned |-> db.pruned, mempool |-> db.mempool]
        BY DEF Inv, TypeOK, TablesOK
    <3> QED BY <2>2, <3>1 DEF Rollback, Committed
  <2> QED BY <2>1, <2>2
<1>3. TablesSound(chain', utxo', undo', pruned', Len(chain'))
  <2>1. CASE Commit
    <3>1. Complete = Len(chain)
        BY <2>1 DEF Commit, Complete
    <3> QED BY <2>1, <3>1 DEF Commit, stored, Inv, SoundInv, WorkingSound
  <2>2. CASE Rollback
      BY <2>2 DEF Rollback, Inv, SoundInv, CommittedSound
  <2> QED BY <2>1, <2>2
<1>4. /\ db'.chain = chain' /\ db'.utxo = utxo' /\ db'.undo = undo'
    BY <1>2 DEF Committed
<1>5. WorkingSound' /\ CommittedSound'
    BY <1>1, <1>2, <1>3, <1>4 DEF WorkingSound, CommittedSound
<1> QED BY <1>1, <1>2, <1>5 DEF SoundInv, TransactionSound

\* A step that leaves the tables and the locals alone.
LEMMA StutterSound ==
    ASSUME Inv, UNCHANGED <<stored, db, txn>>
    PROVE  SoundInv'
<1>1. /\ chain' = chain /\ utxo' = utxo /\ undo' = undo /\ pruned' = pruned
      /\ mempool' = mempool /\ db' = db /\ txn' = txn
    BY DEF stored
<1> QED BY <1>1 DEF Inv, SoundInv, WorkingSound, CommittedSound, TransactionSound, Complete,
                    KeepsAncestor, Progress, Committed

\* Every step keeps the tables those of the chain.
LEMMA SoundStep ==
    ASSUME Inv, [Next]_vars
    PROVE  SoundInv'
<1>1. chain \in Seq(Row) /\ Len(chain) \in Nat /\ pruned \in Nat
    BY TypeParts, LenProperties DEF Inv, TypeConjuncts
<1>2. txn = NoTxn => pruned <= Len(chain)
  <2>1. txn = NoTxn => Complete = Len(chain)
      BY DEF NoTxn, Complete
  <2> QED BY <2>1 DEF Inv, SoundInv, WorkingSound, TablesSound
<1>3. CASE UNCHANGED vars
    BY <1>3, StutterSound DEF vars, stored
<1>4. CASE \E t \in Regular : AddTransaction(t)
    BY <1>4, AddTransactionSound
<1>5. CASE \E n \in PruneRetentions : Prune(n)
    BY <1>5, PruneSound
<1>6. CASE ConnectBlock
  <2>1. Begin("connect", "header", Len(chain), 1, OfferedBlocks) /\ UNCHANGED <<stored, db>>
      BY <1>6 DEF ConnectBlock
  <2>2. txn = NoTxn
      BY <2>1 DEF Begin
  <2> QED BY <1>1, <1>2, <2>1, <2>2, BeginSound
<1>7. CASE CommitMinedBlock
  <2>1. UNCHANGED <<stored, db>> /\ txn = NoTxn
      BY <1>7 DEF CommitMinedBlock
  <2>2. CASE Begin("mined", "header", Len(chain), 1, {job.block})
      BY <1>1, <1>2, <2>1, <2>2, BeginSound
  <2>3. CASE UNCHANGED txn
      BY <2>1, <2>3, StutterSound
  <2> QED BY <1>7, <2>2, <2>3 DEF CommitMinedBlock
<1>8. CASE DisconnectTip
  <2>1. /\ Begin("disconnect", "disconnect", Len(chain) - 1, 0, {})
        /\ UNCHANGED <<stored, db>> /\ Len(chain) > pruned
      BY <1>8 DEF DisconnectTip
  <2>2. Len(chain) - 1 \in Nat /\ pruned <= Len(chain) - 1 /\ Len(chain) - 1 < Len(chain)
      BY <1>1, <2>1
  <2> QED BY <2>1, <2>2, BeginSound
<1>9. CASE \E ancestor \in 0..MaxHeight, count \in 1..MaxBranch : ReplaceFrom(ancestor, count)
  <2>1. PICK ancestor \in 0..MaxHeight, count \in 1..MaxBranch : ReplaceFrom(ancestor, count)
      BY <1>9
  <2>2. ancestor \in Nat /\ count \in Nat
      BY LedgerAssumption
  <2>3. /\ UNCHANGED <<stored, db>> /\ pruned <= ancestor /\ ancestor <= Len(chain)
      BY <1>1, <2>1, <2>2 DEF ReplaceFrom
  <2>4. CASE ancestor < Len(chain)
    <3>1. Begin("replace", "disconnect", ancestor, count, OfferedBlocks)
        BY <2>1, <2>4 DEF ReplaceFrom
    <3> QED BY <2>2, <2>3, <2>4, <3>1, BeginSound
  <2>5. CASE ~(ancestor < Len(chain))
    <3>1. Begin("replace", "header", ancestor, count, OfferedBlocks)
        BY <2>1, <2>5 DEF ReplaceFrom
    <3> QED BY <2>2, <2>3, <3>1, BeginSound
  <2> QED BY <2>4, <2>5
<1>10. CASE \E count \in 0..MaxBranch, pending \in ImportedPending : ImportState(count, pending)
    BY <1>10, ImportSound
<1>11. CASE BuildMiningCandidate \/ AbandonJob
    BY <1>11, StutterSound DEF BuildMiningCandidate, AbandonJob
<1> QED BY <1>3, <1>4, <1>5, <1>6, <1>7, <1>8, <1>9, <1>10, <1>11, DisconnectSound,
           InsertSound, ConnectTransactionSound, ConnectCoinbaseSound, RebuildSound,
           CloseSound DEF Next

\* The inductive invariant holds of every state.
LEMMA InvHolds == Spec => []Inv
<1>1. Init => Inv
    BY InitType, InitSound DEF Inv
<1>2. Inv /\ [Next]_vars => Inv'
  <2> SUFFICES ASSUME Inv, [Next]_vars PROVE Inv'
      OBVIOUS
  <2>1. txn.phase = "body" => chain # <<>>
      BY DEF Inv, SoundInv, WorkingSound
  <2>2. TypeOK'
      BY <2>1, TypeStep DEF Inv
  <2> QED BY <2>2, SoundStep DEF Inv
<1> QED BY <1>1, <1>2, PTL DEF Spec

-----------------------------------------------------------------------------
(* What is committed.                                                      *)

\* Chains that agree up to a height have the same prefix.
LEMMA PrefixEqual ==
    ASSUME NEW c \in Seq(Row), NEW d \in Seq(Row), NEW n \in Nat,
           n <= Len(c), n <= Len(d), \A h \in 1..n : c[h] = d[h]
    PROVE  SubSeq(c, 1, n) = SubSeq(d, 1, n)
BY LenProperties

\* The store's vocabulary is the ledger's.
LEMMA SameVocabulary ==
    \A c : Store!TotalWork(c) = TotalWork(c) /\ Store!Unspent(c) = Unspent(c)
<1>1. \A c : Store!TotalWork(c) = TotalWork(c)
    BY DEF Store!TotalWork, TotalWork
<1>2. \A c : Store!Confirmed(c) = Confirmed(c)
    BY DEF Store!Confirmed, Confirmed, Store!Range, Range
<1>3. \A c : Store!SpentIn(c) = SpentIn(c)
    BY <1>2 DEF Store!SpentIn, SpentIn
<1>4. \A t, h : Store!RecordsOf(t, h) = RecordsOf(t, h)
    BY DEF Store!RecordsOf, RecordsOf, Store!OutpointsOf, OutpointsOf
<1>5. \A c : Store!CreatedIn(c) = CreatedIn(c)
    BY <1>4 DEF Store!CreatedIn, CreatedIn, Store!Range, Range
<1> QED BY <1>1, <1>3, <1>5 DEF Store!Unspent, Unspent

\* A committed change of the chain is a step of the abstract store.
LEMMA CommitImplements ==
    ASSUME Inv, Inv', Commit
    PROVE  [Store!Next]_(Store!storeVars)
<1> USE DEF Store!KeepsFinalBlocks
<1>1. txn.phase = "rebuild" /\ txn # NoTxn /\ Complete = Len(chain)
    BY DEF Commit, NoTxn, Complete
<1>2. /\ chain \in Seq(Row) /\ db.chain \in Seq(Row) /\ txn \in Txn
      /\ Len(chain) \in Nat /\ Len(db.chain) \in Nat /\ pruned \in Nat
      /\ txn.ancestor \in Nat /\ TransactionSound
      /\ KeepsAncestor /\ Progress /\ pruned = db.pruned
    BY <1>1, OpenFacts
<1>3. db'.chain = chain /\ db'.utxo = utxo /\ db'.pruned = pruned /\ chain' = chain
    BY DEF Commit, Committed, stored
<1>4. utxo = Unspent(chain) /\ db.utxo = Unspent(db.chain)
    BY DEF Inv, SoundInv, WorkingSound, CommittedSound, TablesSound
<1>5. /\ pruned <= txn.ancestor /\ txn.ancestor <= Len(chain) /\ txn.ancestor <= Len(db.chain)
      /\ \A h \in 1..txn.ancestor : chain[h] = db.chain[h]
    BY <1>1, <1>2 DEF KeepsAncestor
<1>6. SubSeq(chain, 1, pruned) = SubSeq(db.chain, 1, pruned)
  <2>1. pruned <= Len(chain) /\ pruned <= Len(db.chain) /\ \A h \in 1..pruned : chain[h] = db.chain[h]
      BY <1>2, <1>5
  <2> QED BY <1>2, <2>1, PrefixEqual
<1>7. CASE TotalWork(chain) > TotalWork(db.chain)
    BY <1>2, <1>3, <1>4, <1>6, <1>7, SameVocabulary DEF Store!Next, Store!Advance
<1>8. CASE txn.op = "disconnect"
  <2>1. Len(chain) = txn.ancestor /\ txn.ancestor = Len(db.chain) - 1
      BY <1>1, <1>2, <1>8 DEF Progress
  <2>2. SubSeq(chain, 1, txn.ancestor) = SubSeq(db.chain, 1, txn.ancestor)
      BY <1>2, <1>5, PrefixEqual
  <2>3. SubSeq(chain, 1, Len(chain)) = chain
      BY <1>2
  <2>4. chain = SubSeq(db.chain, 1, Len(db.chain) - 1)
      BY <2>1, <2>2, <2>3
  <2>5. Len(db.chain) > db.pruned
      BY <1>2, <1>5, <2>1
  <2> QED BY <1>2, <1>3, <1>4, <2>4, <2>5, SameVocabulary DEF Store!Next, Store!Retreat
<1>9. CASE txn.op = "import" /\ chain = <<>>
  <2>1. db.chain = chain
      BY <1>2, <1>9 DEF Progress
  <2> QED BY <1>2, <1>3, <1>4, <2>1 DEF Store!storeVars
<1>10. txn.op \in {"connect", "mined", "replace", "disconnect", "import"}
    BY <1>1, <1>2 DEF TransactionSound, Txn
<1>11. txn.op \in {"connect", "mined", "replace"} => TotalWork(chain) > TotalWork(db.chain)
    BY <1>1, <1>2 DEF Progress
<1>12. txn.op = "import" /\ chain # <<>> => TotalWork(chain) > TotalWork(db.chain)
    BY <1>1, <1>2 DEF Progress, TotalWork
<1> QED BY <1>7, <1>8, <1>9, <1>10, <1>11, <1>12

\* Every step of the ledger is a step of the abstract store, or none.
LEMMA StepImplements ==
    ASSUME Inv, Inv', [Next]_vars
    PROVE  [Store!Next]_(Store!storeVars)
<1>1. CASE UNCHANGED db
    BY <1>1 DEF Store!storeVars
<1>2. ASSUME NEW t \in Regular, AddTransaction(t)
      PROVE  UNCHANGED Store!storeVars
  <2>1. /\ db'.chain = db.chain /\ db'.utxo = db.utxo /\ db'.pruned = db.pruned
      BY <1>2, TypeParts DEF AddTransaction, Inv, TypeConjuncts, TablesOK
  <2> QED BY <2>1 DEF Store!storeVars
<1>3. ASSUME NEW n \in PruneRetentions, Prune(n)
      PROVE  Store!Next
  <2>1. db = Committed
      BY <1>3 DEF Prune, Inv, SoundInv, TransactionSound
  <2>2. /\ n \in Nat \ {0} /\ Len(chain) \in Nat /\ pruned \in Nat
      BY LedgerAssumption, TypeParts, LenProperties DEF Inv, TypeConjuncts
  <2>3. /\ db'.chain = db.chain /\ db'.utxo = db.utxo /\ db'.pruned = Len(chain) - n
        /\ db.chain = chain /\ db.pruned = pruned /\ Len(chain) - n > pruned
      BY <1>3, <2>1 DEF Prune, Committed
  <2>4. n \in Nat /\ n > 0
      BY <2>2
  <2>5. db'.pruned > db.pruned /\ db'.pruned < Len(db.chain)
      BY <2>2, <2>3, <2>4
  <2> QED BY <2>3, <2>5 DEF Store!Next, Store!Prune
<1>4. CASE Commit
    BY <1>4, CommitImplements
<1>5. ASSUME Next, ~Commit, ~(\E t \in Regular : AddTransaction(t)),
             ~(\E n \in PruneRetentions : Prune(n))
      PROVE  UNCHANGED db
    BY <1>5 DEF Next, ConnectBlock, CommitMinedBlock, DisconnectTip, ReplaceFrom, ImportState,
                DisconnectBlock, InsertBlock, ConnectTransaction, ConnectCoinbase, StartRebuild,
                Readmit, Rollback, BuildMiningCandidate, AbandonJob
<1> QED BY <1>1, <1>2, <1>3, <1>4, <1>5 DEF vars

-----------------------------------------------------------------------------
\* Every table keeps rows of its type, whatever blocks and transactions are
\* offered to connectBlock, ReplaceFrom, ImportState and AddTransaction.
THEOREM TypeCorrect == Spec => []TypeOK
<1>1. Inv => TypeOK
    BY DEF Inv
<1> QED BY <1>1, InvHolds, PTL

\* At every step of connecting and disconnecting blocks the utxos table holds
\* the unspent outputs of the chain, in the open transaction and committed.
THEOREM CoinsMatchChain == Spec => []UtxoIsUnspent
<1>1. Inv => UtxoIsUnspent
    BY DEF Inv, SoundInv, WorkingSound, CommittedSound, TablesSound, UtxoIsUnspent
<1> QED BY <1>1, InvHolds, PTL

\* Whatever is pruned, reorganised or rolled back, the committed undo records
\* are those of the blocks above the prune horizon.
THEOREM UndoMatchesHorizon == Spec => []UndoCoversWindow
<1>1. Inv => UndoCoversWindow
    BY DEF Inv, SoundInv, CommittedSound, TablesSound, UndoCoversWindow
<1> QED BY <1>1, InvHolds, PTL

\* What is committed implements the abstract chain store: commits gain work
\* or are DisconnectTip's, and keep everything below the prune horizon.
THEOREM LedgerRefinesStore == Spec => ImplementsChainStore
<1>1. Init => Store!Init
    BY DEF Init, Committed, Store!Init
<1>2. Inv /\ Inv' /\ [Next]_vars => [Store!Next]_(Store!storeVars)
    BY StepImplements
<1> QED BY <1>1, <1>2, InvHolds, PTL DEF Spec, ImplementsChainStore, Store!Spec

-----------------------------------------------------------------------------
(***************************************************************************)
(* The mempool.  Between commits it may be out of step with the chain that *)
(* the open transaction has come to; while it is rebuilt, what was         *)
(* readmitted so far could be mined on that chain.                         *)
(***************************************************************************)
PoolSound == Mineable(db) /\ (txn.phase = "rebuild" => Mineable(Committed))

\* Nothing pending can always be mined.
LEMMA EmptyMineable ==
    ASSUME NEW d, d.mempool = <<>> PROVE Mineable(d)
BY DEF Mineable, Range

\* What admission lets in keeps the mempool mineable: its inputs are mature
\* coins or outputs of what was pending, and nothing pending spends them.
LEMMA AdmissionMineable ==
    ASSUME NEW d, NEW e, NEW t, d.mempool \in Seq(Regular), Mineable(d),
           Admissible(d.mempool, d.utxo, Confirmed(d.chain), t, Len(d.chain) + 1),
           e.chain = d.chain, e.utxo = d.utxo, e.mempool = Append(d.mempool, t)
    PROVE  Mineable(e)
<1> DEFINE pool == d.mempool
           n == Len(pool)
           h == Len(d.chain) + 1
<1>1. t \in Regular
    BY TransactionAssumption DEF Admissible, ValidRegularTransaction
<1>2. /\ n \in Nat /\ DOMAIN pool = 1..n /\ DOMAIN e.mempool = 1..(n + 1)
      /\ \A i \in 1..n : e.mempool[i] = pool[i]
      /\ e.mempool[n + 1] = t
    BY <1>1
<1>3. \A u : u \in Range(pool) <=> \E i \in 1..n : u = pool[i]
    BY <1>2 DEF Range
<1>4. \A u \in Range(e.mempool) : u \in Range(pool) \/ u = t
    BY <1>2, <1>3 DEF Range
<1>5. Range(e.mempool) \cap Confirmed(e.chain) = {}
    BY <1>4 DEF Mineable, Admissible
<1>6. \A out \in InputsOf[t] : lookupMempoolSpendable(pool, d.utxo, out, h)
    BY DEF Admissible
<1>7. \A j \in 1..n : InputsOf[t] \cap InputsOf[pool[j]] = {}
    BY <1>3, <1>6 DEF lookupMempoolSpendable, PendingInputs
<1>8. \A out \in InputsOf[t] :
         \/ \E r \in d.utxo : r.out = out /\ MatureRecord(r, h)
         \/ \E j \in 1..n : out \in OutpointsOf(pool[j])
    BY <1>3, <1>6 DEF lookupMempoolSpendable, PendingOutputs, Outs
<1>9. ASSUME NEW i \in DOMAIN e.mempool
      PROVE  /\ \A j \in 1..(i - 1) : InputsOf[e.mempool[i]] \cap InputsOf[e.mempool[j]] = {}
             /\ \A out \in InputsOf[e.mempool[i]] :
                   \/ \E r \in e.utxo : r.out = out /\ MatureRecord(r, Len(e.chain) + 1)
                   \/ \E j \in 1..(i - 1) : out \in OutpointsOf(e.mempool[j])
  <2>1. CASE i = n + 1
    <3>1. i - 1 = n /\ e.mempool[i] = t
        BY <1>2, <2>1
    <3> QED BY <1>2, <1>7, <1>8, <3>1
  <2>2. CASE i # n + 1
    <3>1. i \in DOMAIN pool /\ e.mempool[i] = pool[i] /\ \A j \in 1..(i - 1) : e.mempool[j] = pool[j]
        BY <1>2, <2>2
    <3> QED BY <3>1 DEF Mineable
  <2> QED BY <2>1, <2>2
<1> QED BY <1>5, <1>9 DEF Mineable

\* A reorganisation may leave anything in the mempool until it is emptied and
\* filled again; everything else only adds what admission lets in.
LEMMA PoolStep ==
    ASSUME Inv, PoolSound, [Next]_vars
    PROVE  PoolSound'
<1>1. /\ mempool \in Seq(Regular) /\ (txn = NoTxn => db = Committed)
      /\ NoTxn.phase = "idle"
    BY TypeParts DEF Inv, TypeConjuncts, SoundInv, TransactionSound, NoTxn
<1>2. Committed.mempool = mempool /\ Committed.chain = chain /\ Committed.utxo = utxo
    BY DEF Committed
<1>3. CASE \E t \in Regular : AddTransaction(t)
  <2>1. PICK t \in Regular : AddTransaction(t)
      BY <1>3
  <2>2. /\ txn = NoTxn /\ txn' = txn /\ db = Committed
        /\ Admissible(mempool, utxo, Confirmed(chain), t, Len(chain) + 1)
        /\ db' = [db EXCEPT !.mempool = Append(mempool, t)]
      BY <1>1, <2>1 DEF AddTransaction
  <2>3. db'.chain = db.chain /\ db'.utxo = db.utxo /\ db'.mempool = Append(db.mempool, t)
      BY <2>2 DEF Committed
  <2>4. Mineable(db')
      BY <1>1, <1>2, <2>2, <2>3, AdmissionMineable DEF PoolSound
  <2> QED BY <1>1, <2>2, <2>4 DEF PoolSound, Mineable
<1>4. CASE \E n \in PruneRetentions : Prune(n)
  <2>1. /\ txn = NoTxn /\ txn' = txn /\ db = Committed
        /\ db' = [[db EXCEPT !.pruned = pruned'] EXCEPT !.undo = undo']
      BY <1>1, <1>4 DEF Prune
  <2>2. db'.chain = db.chain /\ db'.utxo = db.utxo /\ db'.mempool = db.mempool
      BY <2>1 DEF Committed
  <2>3. Mineable(db')
      BY <2>2 DEF PoolSound, Mineable
  <2>4. txn'.phase # "rebuild"
      BY <2>1 DEF NoTxn
  <2> QED BY <2>3, <2>4 DEF PoolSound
<1>5. CASE Readmit
  <2> DEFINE t == Head(txn.queue)
  <2>1. /\ txn.phase = "rebuild" /\ db' = db /\ chain' = chain /\ utxo' = utxo
        /\ mempool' = IF Admissible(mempool, utxo, Confirmed(chain), t, Len(chain) + 1)
                      THEN Append(mempool, t) ELSE mempool
      BY <1>5 DEF Readmit
  <2>2. Mineable(Committed)
      BY <2>1 DEF PoolSound
  <2>3. Committed'.chain = chain /\ Committed'.utxo = utxo /\ Committed'.mempool = mempool'
      BY <2>1 DEF Committed
  <2>4. CASE Admissible(mempool, utxo, Confirmed(chain), t, Len(chain) + 1)
    <3>1. mempool' = Append(mempool, t)
        BY <2>1, <2>4
    <3>2. Mineable(Committed')
        BY <1>1, <1>2, <2>2, <2>3, <2>4, <3>1, AdmissionMineable
    <3> QED BY <2>1, <3>2 DEF PoolSound, Mineable
  <2>5. CASE ~Admissible(mempool, utxo, Confirmed(chain), t, Len(chain) + 1)
      BY <1>2, <2>1, <2>2, <2>3, <2>5 DEF PoolSound, Mineable
  <2> QED BY <2>4, <2>5
<1>6. CASE StartRebuild
  <2>1. db' = db /\ Committed'.mempool = <<>>
      BY <1>6 DEF StartRebuild, Committed
  <2>2. Mineable(Committed')
      BY <2>1, EmptyMineable
  <2> QED BY <2>1, <2>2 DEF PoolSound, Mineable
<1>7. CASE Commit
  <2>1. txn.phase = "rebuild" /\ db' = Committed /\ txn' = NoTxn
      BY <1>7 DEF Commit
  <2> QED BY <1>1, <2>1 DEF PoolSound, Mineable
<1>8. CASE Rollback
    BY <1>1, <1>8 DEF Rollback, PoolSound, Mineable
<1>9. ASSUME db' = db, txn'.phase # "rebuild" PROVE PoolSound'
    BY <1>9 DEF PoolSound, Mineable
<1>10. ASSUME NEW op, NEW phase \in {"header", "disconnect"}, NEW ancestor, NEW count, NEW source,
              Begin(op, phase, ancestor, count, source)
       PROVE  txn'.phase # "rebuild"
    BY <1>10 DEF Begin, NoTxn
<1>11. CASE ConnectBlock \/ DisconnectTip
    BY <1>9, <1>10, <1>11 DEF ConnectBlock, DisconnectTip
<1>12. CASE \E ancestor \in 0..MaxHeight, count \in 1..MaxBranch : ReplaceFrom(ancestor, count)
    BY <1>9, <1>10, <1>12 DEF ReplaceFrom
<1>13. CASE CommitMinedBlock
  <2>1. db' = db /\ txn = NoTxn
      BY <1>13 DEF CommitMinedBlock
  <2> QED BY <1>1, <1>9, <1>10, <1>13, <2>1 DEF CommitMinedBlock
<1>14. CASE \E count \in 0..MaxBranch, pending \in ImportedPending : ImportState(count, pending)
    BY <1>9, <1>14 DEF ImportState, NoTxn
<1>15. CASE DisconnectBlock \/ InsertBlock \/ ConnectTransaction \/ ConnectCoinbase
  <2>1. txn \in Txn
      BY DEF Inv, TypeOK
  <2>2. CASE DisconnectBlock
    <3>1. db' = db /\ txn'.phase = IF Len(chain) - 1 > txn.ancestor THEN txn.phase ELSE "header"
        BY <2>1, <2>2 DEF DisconnectBlock, Txn
    <3> QED BY <1>9, <2>2, <3>1 DEF DisconnectBlock
  <2>3. CASE InsertBlock
    <3>1. db' = db /\ txn'.phase = "body"
        BY <2>1, <2>3 DEF InsertBlock, Txn
    <3> QED BY <1>9, <3>1
  <2>4. CASE ConnectTransaction
    <3>1. db' = db /\ txn'.phase = txn.phase /\ txn.phase = "body"
        BY <2>1, <2>4 DEF ConnectTransaction, Txn
    <3> QED BY <1>9, <3>1
  <2>5. CASE ConnectCoinbase
    <3>1. db' = db /\ txn'.phase = "header"
        BY <2>1, <2>5 DEF ConnectCoinbase, Txn
    <3> QED BY <1>9, <3>1
  <2> QED BY <1>15, <2>2, <2>3, <2>4, <2>5
<1>16. CASE BuildMiningCandidate \/ AbandonJob \/ UNCHANGED vars
  <2>1. UNCHANGED <<chain, utxo, undo, pruned, mempool, db, txn>>
      BY <1>16 DEF BuildMiningCandidate, AbandonJob, vars, stored
  <2> QED BY <2>1, SMTT(30) DEF PoolSound, Mineable, Committed
<1> QED BY <1>3, <1>4, <1>5, <1>6, <1>7, <1>8, <1>11, <1>12, <1>13, <1>14, <1>15, <1>16 DEF Next

\* The committed mempool could be confirmed in the next block in its own order,
\* whatever was reorganised, imported or rolled back.
THEOREM PoolMineable == Spec => []MempoolMineable
<1>1. Init => PoolSound
    BY EmptyMineable DEF Init, Committed, PoolSound, NoTxn
<1>2. Inv /\ PoolSound /\ [Next]_vars => PoolSound'
    BY PoolStep
<1>3. PoolSound => MempoolMineable
    BY DEF PoolSound, MempoolMineable
<1> QED BY <1>1, <1>2, <1>3, InvHolds, PTL DEF Spec

\* The WHERE clause of spendableUTXO.
Enforced(h) == h >= CoinbaseMaturityActivationHeight
MatureThrough(h) == IF Enforced(h) /\ h >= CoinbaseMaturity THEN h - CoinbaseMaturity ELSE 0
Passes(r, h) == r.height <= h /\ (~Enforced(h) \/ ~r.coinbase \/ r.height <= MatureThrough(h))

\* What a wallet is offered, with the filter of its query.
LEMMA Offered ==
    ASSUME NEW pool, NEW coins, NEW h, NEW out
    PROVE  out \in SpendableOutpoints(pool, coins, h) <=>
              /\ out \notin PendingInputs(pool)
              /\ out \in PendingOutputs(pool) \/ \E r \in coins : r.out = out /\ Passes(r, h)
BY DEF SpendableOutpoints, Outs, Passes, Enforced, MatureThrough

\* The filter of the wallet's query and the check at admission agree on a coin
\* of the chain.
LEMMA SameMaturity ==
    ASSUME NEW r, NEW tip \in Nat, r.height \in 1..tip, r.coinbase \in BOOLEAN
    PROVE  Passes(r, tip + 1) <=> MatureRecord(r, tip + 1)
<1>1. r.height \in Nat /\ r.height > 0 /\ r.height <= tip
    OBVIOUS
<1>2. IsCoinbaseMature(r.height, tip + 1)
         <=> ~Enforced(tip + 1) \/ r.height <= MatureThrough(tip + 1)
    BY <1>1, MaturityAssumption DEF IsCoinbaseMature, Enforced, MatureThrough
<1> QED BY <1>1, <1>2 DEF MatureRecord, Passes

\* A wallet is offered exactly what admission would let it spend, for every
\* maturity and every height from which it is enforced.
THEOREM OffersAdmissible == Spec => []SpendableIsAdmissible
<1>1. ASSUME Inv, Mineable(db) PROVE SpendableIsAdmissible
  <2> DEFINE pool == db.mempool
             coins == db.utxo
             tip == Len(db.chain)
             offered == SpendableOutpoints(pool, coins, tip + 1)
  <2>1. /\ db.chain \in Seq(Row) /\ tip \in Nat /\ coins = Unspent(db.chain) /\ WellFormed(db.chain)
        /\ coins \subseteq UTXORecord
    <3>1. db.chain \in Seq(Row) /\ db.utxo \subseteq UTXORecord
        BY <1>1, TypeParts DEF Inv, TypeConjuncts, TablesOK
    <3>2. db.utxo = Unspent(db.chain) /\ WellFormed(db.chain)
        BY <1>1 DEF Inv, SoundInv, CommittedSound, TablesSound
    <3> QED BY <3>1, <3>2, LenProperties
  <2>2. ASSUME NEW r \in coins PROVE Passes(r, tip + 1) <=> MatureRecord(r, tip + 1)
    <3>1. r.height \in 1..tip /\ r.coinbase \in BOOLEAN
        BY <2>1, UnspentOnce DEF UTXORecord
    <3> QED BY <2>1, <3>1, SameMaturity
  <2>3. \A out \in PendingOutputs(pool) : out \notin Outs(coins)
    <3> SUFFICES ASSUME NEW out \in PendingOutputs(pool), NEW r \in coins, r.out = out PROVE FALSE
        BY DEF Outs
    <3>1. PICK t \in Range(pool) : out \in OutpointsOf(t)
        BY DEF PendingOutputs
    <3>2. out[1] = t
        BY <3>1 DEF OutpointsOf
    <3>3. t \in Confirmed(db.chain)
        BY <2>1, <3>2, UnspentIsConfirmed
    <3> QED BY <1>1, <3>1, <3>3 DEF Mineable
  <2>4. ASSUME NEW out
        PROVE  out \in offered <=> /\ out \in Outs(coins) \cup PendingOutputs(pool)
                                   /\ lookupMempoolSpendable(pool, coins, out, tip + 1)
    <3>1. CASE out \in Outs(coins)
      <4>1. PICK q \in coins : q.out = out
          BY <3>1 DEF Outs
      <4>2. \A r \in coins : r.out = out => r = q
          BY <2>1, <4>1, UnspentOnce
      <4>3. out \notin PendingOutputs(pool)
          BY <2>3, <3>1
      <4> HIDE DEF coins, pool, tip
      <4> QED BY <2>2, <3>1, <4>1, <4>2, <4>3, Offered DEF lookupMempoolSpendable
    <3>2. CASE out \notin Outs(coins)
        BY <3>2, Offered DEF lookupMempoolSpendable, Outs
    <3> QED BY <3>1, <3>2
  <2>5. offered = {out \in Outs(coins) \cup PendingOutputs(pool) :
                      lookupMempoolSpendable(pool, coins, out, tip + 1)}
      BY <2>4
  <2> QED BY <2>5 DEF SpendableIsAdmissible
<1>2. Inv /\ MempoolMineable => SpendableIsAdmissible
    BY <1>1 DEF MempoolMineable
<1> QED BY <1>2, InvHolds, PoolMineable, PTL

-----------------------------------------------------------------------------
(***************************************************************************)
(* The supply is an invariant only together with the supply of every       *)
(* earlier height, because a reorganisation goes back there, and with the  *)
(* fees that the block being connected has collected and its coinbase has  *)
(* not paid out yet.                                                       *)
(***************************************************************************)
Counted(coins, units) == IsFiniteSet(coins) /\ Amounts(coins) /\ Units(coins) = units

Balanced(c) == Counted(Outs(Unspent(c)), MintedThrough(Len(c)))

BalancedThrough(c, top) == \A h \in 0..top : Balanced(SubSeq(c, 1, h))

FeesHeld == Counted(Outs(utxo), MintedThrough(Len(chain) - 1) - txn.fees)

SupplyInv ==
    /\ BalancedThrough(chain, Complete)
    /\ BalancedThrough(db.chain, Len(db.chain))
    /\ txn.phase = "body" => FeesHeld

\* The outputs of a transaction add up to what it pays.
LEMMA OutputsCounted ==
    ASSUME NEW t \in Tx
    PROVE  Counted(OutpointsOf(t), OutputTotal(t)) /\ OutputTotal(t) \in Nat
<1> DEFINE outputs == OutputsOf[t]
           name == [i \in 1..Len(outputs) |-> <<t, i>>]
<1>1. outputs \in Seq(Nat \ {0}) /\ Len(outputs) \in Nat /\ DOMAIN outputs = 1..Len(outputs)
    BY TransactionAssumption, LenProperties
<1>2. name \in Surjection(1..Len(outputs), OutpointsOf(t))
    BY <1>1 DEF Surjection, OutpointsOf
<1>3. IsFiniteSet(OutpointsOf(t))
    BY <1>1, <1>2, FS_Interval, FS_Surjection DEF ExistsSurjection
<1>4. Amounts(OutpointsOf(t))
    BY <1>1, ElementOfSeq DEF Amounts, OutpointsOf, AmountOf
<1>5. OutputTotal(t) = Units(OutpointsOf(t))
    BY Zenon DEF OutputTotal, Units
<1> QED BY <1>3, <1>4, <1>5, UnitsNat DEF Counted

\* Spending takes the inputs of a transaction from the sum and adds its outputs.
LEMMA SpendingCounted ==
    ASSUME NEW coins, NEW n, Counted(coins, n), NEW t \in Tx, InputsOf[t] \subseteq coins,
           OutpointsOf(t) \cap (coins \ InputsOf[t]) = {}
    PROVE  /\ InputTotal(t) \in Nat /\ n \in Nat
           /\ Counted((coins \ InputsOf[t]) \cup OutpointsOf(t), n - InputTotal(t) + OutputTotal(t))
<1> DEFINE kept == coins \ InputsOf[t]
<1>1. InputTotal(t) = Units(InputsOf[t])
    BY Zenon DEF InputTotal, Units
<1>2. /\ Units(kept) \in Nat /\ InputTotal(t) \in Nat
      /\ n = Units(kept) + InputTotal(t)
    BY <1>1, UnitsWithout DEF Counted
<1>3. IsFiniteSet(kept) /\ Amounts(kept)
    BY FS_Subset DEF Counted, Amounts
<1>4. Counted(OutpointsOf(t), OutputTotal(t)) /\ OutputTotal(t) \in Nat
    BY OutputsCounted
<1>5. Units(kept \cup OutpointsOf(t)) = Units(kept) + OutputTotal(t)
    BY <1>3, <1>4, UnitsUnion DEF Counted
<1>6. IsFiniteSet(kept \cup OutpointsOf(t)) /\ Amounts(kept \cup OutpointsOf(t))
    BY <1>3, <1>4, FS_Union DEF Counted, Amounts
<1>7. n - InputTotal(t) + OutputTotal(t) = Units(kept) + OutputTotal(t)
    BY <1>2, <1>4
<1> QED BY <1>2, <1>5, <1>6, <1>7 DEF Counted

\* A chain is balanced as far as it agrees with a balanced one.
LEMMA PrefixBalanced ==
    ASSUME NEW c \in Seq(Row), NEW d \in Seq(Row), NEW n \in Nat, n <= Len(c), n <= Len(d),
           \A h \in 1..n : c[h] = d[h], BalancedThrough(c, n)
    PROVE  BalancedThrough(d, n)
<1> SUFFICES ASSUME NEW h \in 0..n PROVE Balanced(SubSeq(d, 1, h))
    BY DEF BalancedThrough
<1>1. SubSeq(c, 1, h) = SubSeq(d, 1, h)
    BY PrefixEqual, LenProperties
<1> QED BY <1>1 DEF BalancedThrough

\* A chain is balanced when it is so at every height, its own the last.
LEMMA WholeBalanced ==
    ASSUME NEW c \in Seq(Row)
    PROVE  /\ BalancedThrough(c, Len(c)) => Balanced(c)
           /\ c # <<>> /\ BalancedThrough(c, Len(c) - 1) /\ Balanced(c) => BalancedThrough(c, Len(c))
<1>1. SubSeq(c, 1, Len(c)) = c /\ Len(c) \in Nat
    BY LenProperties
<1>2. BalancedThrough(c, Len(c)) => Balanced(c)
  <2>1. Len(c) \in 0..Len(c)
      BY <1>1
  <2> QED BY <1>1, <2>1 DEF BalancedThrough
<1>3. ASSUME c # <<>>, BalancedThrough(c, Len(c) - 1), Balanced(c) PROVE BalancedThrough(c, Len(c))
  <2>1. Len(c) # 0
      BY <1>3, EmptySeq
  <2>2. \A n \in Nat : \A h \in 0..n : h \in 0..(n - 1) \/ h = n
      OBVIOUS
  <2> QED BY <1>1, <1>3, <2>2 DEF BalancedThrough
<1> QED BY <1>2, <1>3

\* Nothing is minted before the first block.
LEMMA InitBalanced == Init => SupplyInv
<1> SUFFICES ASSUME Init PROVE SupplyInv
    OBVIOUS
<1>1. chain = <<>> /\ db.chain = <<>> /\ txn.phase = "idle" /\ Len(<<>>) = 0 /\ SubSeq(<<>>, 1, 0) = <<>>
    BY DEF Init, Committed, NoTxn
<1>2. Outs(Unspent(<<>>)) = {}
    BY DEF Outs, Unspent, CreatedIn
<1>3. Balanced(<<>>)
    BY <1>1, <1>2, FS_EmptySet, UnitsEmpty, MintedNone DEF Balanced, Counted, Amounts
<1>4. BalancedThrough(<<>>, 0)
  <2>1. \A h \in 0..0 : h = 0
      OBVIOUS
  <2> QED BY <1>1, <1>3, <2>1 DEF BalancedThrough
<1> QED BY <1>1, <1>4 DEF SupplyInv, Complete

\* A regular transaction moves its fee from the outputs to the writer's sum.
LEMMA ConnectTransactionBalanced ==
    ASSUME Inv, SupplyInv, ConnectTransaction
    PROVE  SupplyInv'
<1>1. PICK t : t = Head(txn.todo)
    OBVIOUS
<1>2. /\ txn.phase = "body" /\ Connectable(t)
      /\ utxo' = (utxo \ InputRecords(utxo, t)) \cup RecordsOf(t, Len(chain))
      /\ chain' = Indexed(chain, t) /\ pruned' = pruned /\ db' = db
    BY <1>1 DEF ConnectTransaction
<1>3. /\ t \in Tx /\ t \notin Confirmed(chain) /\ InputsOf[t] \subseteq Outs(utxo)
      /\ OutpointsOf(t) \cap (Outs(utxo) \ InputsOf[t]) = {}
    BY <1>2, TransactionAssumption DEF Connectable, ValidRegularTransaction, Tx
<1>4. /\ chain' \in Seq(Row) /\ Len(chain') = Len(chain) /\ Len(chain) \in Nat \ {0}
      /\ \A h \in 1..(Len(chain) - 1) : chain'[h] = chain[h]
    BY <1>2, <1>3, BodyFacts
<1>5. txn # NoTxn /\ Complete = Len(chain) - 1
    BY <1>2 DEF NoTxn, Complete
<1>6. txn \in Txn /\ chain \in Seq(Row) /\ txn.fees \in Nat
    BY <1>5, OpenFacts DEF Txn
<1>7. txn'.phase = "body" /\ txn'.fees = txn.fees + Fee(t)
    BY <1>1, <1>2, <1>6 DEF ConnectTransaction, Txn
<1>8. BalancedThrough(chain', Len(chain) - 1)
  <2>1. Len(chain) - 1 \in Nat /\ \A h \in 1..(Len(chain) - 1) : chain[h] = chain'[h]
      BY <1>4
  <2> QED BY <1>4, <1>5, <1>6, <2>1, PrefixBalanced DEF SupplyInv
<1>9. Outs(utxo') = (Outs(utxo) \ InputsOf[t]) \cup OutpointsOf(t)
  <2>1. Outs(RecordsOf(t, Len(chain))) = OutpointsOf(t)
      BY <1>3, <1>4, RecordsType
  <2>2. Outs(utxo \ InputRecords(utxo, t)) = Outs(utxo) \ InputsOf[t]
      BY DEF Outs, InputRecords
  <2>3. Outs(utxo') = Outs(utxo \ InputRecords(utxo, t)) \cup Outs(RecordsOf(t, Len(chain)))
      BY <1>2 DEF Outs
  <2> QED BY <2>1, <2>2, <2>3
<1> DEFINE held == MintedThrough(Len(chain) - 1) - txn.fees
<1>10. /\ InputTotal(t) \in Nat /\ held \in Nat
       /\ Counted(Outs(utxo'), held - InputTotal(t) + OutputTotal(t))
  <2>1. Counted(Outs(utxo), held)
      BY <1>2 DEF SupplyInv, FeesHeld
  <2> HIDE DEF held
  <2>2. /\ InputTotal(t) \in Nat /\ held \in Nat
        /\ Counted((Outs(utxo) \ InputsOf[t]) \cup OutpointsOf(t),
                   held - InputTotal(t) + OutputTotal(t))
      BY <1>3, <2>1, SpendingCounted
  <2> QED BY <1>9, <2>2
<1>11. OutputTotal(t) \in Nat /\ MintedThrough(Len(chain) - 1) \in Nat
  <2>1. OutputTotal(t) \in Nat
      BY <1>3, OutputsCounted
  <2>2. Len(chain) - 1 \in Nat
      BY <1>4
  <2> QED BY <2>1, <2>2, MintedNext
<1>12. held - InputTotal(t) + OutputTotal(t) = MintedThrough(Len(chain) - 1) - txn'.fees
    BY <1>6, <1>7, <1>10, <1>11 DEF Fee
<1>13. FeesHeld'
    BY <1>4, <1>10, <1>12 DEF FeesHeld, Counted, Amounts, Units
<1> QED BY <1>2, <1>4, <1>5, <1>7, <1>8, <1>13 DEF SupplyInv, Complete

\* The coinbase pays out the fees and the subsidy, neither more nor less.
LEMMA ConnectCoinbaseBalanced ==
    ASSUME Inv, SupplyInv, ConnectCoinbase
    PROVE  SupplyInv'
<1>1. PICK c : c = Head(txn.todo)
    OBVIOUS
<1>2. /\ txn.phase = "body" /\ CoinbaseConnectable(c)
      /\ utxo' = utxo \cup RecordsOf(c, Len(chain))
      /\ chain' = Indexed(chain, c) /\ pruned' = pruned /\ db' = db
    BY <1>1 DEF ConnectCoinbase
<1>3. /\ c \in Tx /\ c \notin Confirmed(chain) /\ InputsOf[c] = {}
      /\ OutputTotal(c) = Subsidy(Len(chain)) + txn.fees
      /\ OutpointsOf(c) \cap Outs(utxo) = {}
    BY <1>2, TransactionAssumption DEF CoinbaseConnectable, ValidCoinbase, Tx
<1>4. InputRecords(utxo, c) = {} /\ InputsOf[c] \subseteq Outs(utxo)
    BY <1>3 DEF InputRecords
<1>5. /\ chain' \in Seq(Row) /\ Len(chain') = Len(chain) /\ chain' # <<>> /\ Len(chain) \in Nat \ {0}
      /\ \A h \in 1..(Len(chain) - 1) : chain'[h] = chain[h]
      /\ Unspent(chain') = utxo \cup RecordsOf(c, Len(chain))
    BY <1>2, <1>3, <1>4, BodyFacts
<1>6. txn # NoTxn /\ Complete = Len(chain) - 1
    BY <1>2 DEF NoTxn, Complete
<1>7. txn \in Txn /\ chain \in Seq(Row) /\ txn.fees \in Nat
    BY <1>6, OpenFacts DEF Txn
<1>8. txn'.phase = "header"
    BY <1>7 DEF ConnectCoinbase, Txn
<1>9. BalancedThrough(chain', Len(chain) - 1)
  <2>1. Len(chain) - 1 \in Nat /\ \A h \in 1..(Len(chain) - 1) : chain[h] = chain'[h]
      BY <1>5
  <2> QED BY <1>5, <1>6, <1>7, <2>1, PrefixBalanced, SMTT(30) DEF SupplyInv
<1>10. Outs(Unspent(chain')) = Outs(utxo) \cup OutpointsOf(c)
  <2>1. Outs(RecordsOf(c, Len(chain))) = OutpointsOf(c)
      BY <1>3, <1>5, RecordsType
  <2> QED BY <1>5, <2>1 DEF Outs
<1> DEFINE held == MintedThrough(Len(chain) - 1) - txn.fees
<1>11. Counted(Outs(utxo), held) /\ held \in Nat
    BY <1>2, UnitsNat DEF SupplyInv, FeesHeld, Counted
<1>12. Counted(OutpointsOf(c), OutputTotal(c)) /\ OutputTotal(c) \in Nat
    BY <1>3, OutputsCounted
<1>13. Counted(Outs(Unspent(chain')), held + OutputTotal(c))
  <2> HIDE DEF held
  <2>1. Units(Outs(utxo) \cup OutpointsOf(c)) = held + OutputTotal(c)
      BY <1>3, <1>11, <1>12, UnitsUnion DEF Counted
  <2>2. IsFiniteSet(Outs(utxo) \cup OutpointsOf(c)) /\ Amounts(Outs(utxo) \cup OutpointsOf(c))
      BY <1>11, <1>12, FS_Union DEF Counted, Amounts
  <2> QED BY <1>10, <2>1, <2>2 DEF Counted
<1>14. held + OutputTotal(c) = MintedThrough(Len(chain'))
  <2>1. \A m \in Nat \ {0} : m - 1 \in Nat /\ (m - 1) + 1 = m
      OBVIOUS
  <2> DEFINE n == Len(chain) - 1
  <2>2. /\ MintedThrough(n) \in Nat /\ Subsidy(n + 1) \in Nat
        /\ MintedThrough(n + 1) = MintedThrough(n) + Subsidy(n + 1)
      BY <1>5, <2>1, MintedNext
  <2> QED BY <1>3, <1>5, <1>7, <2>1, <2>2
<1>15. BalancedThrough(chain', Len(chain'))
    BY <1>5, <1>9, <1>13, <1>14, WholeBalanced DEF Balanced
<1> QED BY <1>2, <1>8, <1>15 DEF SupplyInv, Complete

\* A block begins with the outputs of the chain below it and no fees.
LEMMA InsertBalanced ==
    ASSUME Inv, SupplyInv, InsertBlock
    PROVE  SupplyInv'
<1>1. txn.phase = "header" /\ txn # NoTxn /\ Complete = Len(chain)
    BY DEF InsertBlock, NoTxn, Complete
<1>2. /\ chain \in Seq(Row) /\ txn \in Txn /\ Len(chain) \in Nat
      /\ WellFormed(chain) /\ utxo = Unspent(chain)
    BY <1>1, OpenFacts DEF TablesSound
<1>3. PICK block \in txn.source :
         /\ chain' = WithRow(chain, TotalWork(chain) + block.work)
         /\ txn' = [txn EXCEPT !.phase = "body", !.left = @ - 1, !.acc = NoUndo, !.fees = 0,
                               !.todo = Append(block.txs, block.coinbase)]
    BY DEF InsertBlock
<1>4. TotalWork(chain) + block.work \in Nat
  <2>1. block.work \in Works
      BY TypeParts DEF Inv, TypeConjuncts
  <2>2. block.work \in Nat
      BY <2>1, LedgerAssumption
  <2> QED BY <1>2, <2>2, TotalWorkNat
<1>5. /\ chain' \in Seq(Row) /\ Len(chain') = Len(chain) + 1
      /\ \A h \in 1..Len(chain) : chain'[h] = chain[h]
    BY <1>2, <1>3, <1>4, AddRow
<1>6. txn'.phase = "body" /\ txn'.fees = 0 /\ utxo' = utxo /\ db' = db
    BY <1>2, <1>3 DEF InsertBlock, Txn
<1>7. BalancedThrough(chain', Len(chain))
  <2>1. \A h \in 1..Len(chain) : chain[h] = chain'[h]
      BY <1>5
  <2> QED BY <1>1, <1>2, <1>5, <2>1, PrefixBalanced DEF SupplyInv
<1>8. Counted(Outs(utxo), MintedThrough(Len(chain)))
    BY <1>1, <1>2, WholeBalanced DEF SupplyInv, Balanced
<1>9. MintedThrough(Len(chain')  - 1) - txn'.fees = MintedThrough(Len(chain))
  <2>1. Len(chain') - 1 = Len(chain) /\ MintedThrough(Len(chain)) \in Nat
      BY <1>2, <1>5, MintedNext
  <2> QED BY <1>6, <2>1
<1>10. FeesHeld'
    BY <1>6, <1>8, <1>9 DEF FeesHeld, Counted, Amounts, Units
<1>11. Complete' = Len(chain)
    BY <1>2, <1>5, <1>6 DEF Complete
<1> QED BY <1>6, <1>7, <1>10, <1>11 DEF SupplyInv

\* Going back one block is going back to what was minted below it.
LEMMA DisconnectBalanced ==
    ASSUME Inv, SupplyInv, DisconnectBlock
    PROVE  SupplyInv'
<1>1. txn.phase = "disconnect" /\ txn # NoTxn /\ Complete = Len(chain)
    BY DEF DisconnectBlock, NoTxn, Complete
<1>2. /\ chain \in Seq(Row) /\ txn \in Txn /\ Len(chain) \in Nat /\ pruned \in Nat
    BY <1>1, OpenFacts
<1>3. /\ Len(chain) > pruned /\ chain' = SubSeq(chain, 1, Len(chain) - 1) /\ db' = db
      /\ txn'.phase \in {"disconnect", "header"}
    BY <1>1, <1>2 DEF DisconnectBlock, Txn
<1>4. PICK n \in Nat : n = Len(chain) - 1
    BY <1>2, <1>3
<1>5. /\ chain' \in Seq(Row) /\ Len(chain') = n /\ \A h \in 1..n : chain[h] = chain'[h]
  <2>1. 1 \in 1..Len(chain) + 1 /\ n \in 0..Len(chain) /\ n <= Len(chain)
      BY <1>2, <1>4
  <2>2. chain' = SubSeq(chain, 1, n)
      BY <1>3, <1>4
  <2> QED BY <1>2, <2>1, <2>2, SubSeqProperties
<1>6. BalancedThrough(chain, n)
    BY <1>1, <1>2, <1>4 DEF SupplyInv, BalancedThrough
<1>7. BalancedThrough(chain', n)
    BY <1>2, <1>4, <1>5, <1>6, PrefixBalanced
<1>8. Complete' = n
    BY <1>3, <1>5 DEF Complete
<1> QED BY <1>3, <1>7, <1>8 DEF SupplyInv

\* Every step keeps the supply that of the schedule.
LEMMA SupplyStep ==
    ASSUME Inv, SupplyInv, [Next]_vars
    PROVE  SupplyInv'
<1>1. /\ txn \in Txn /\ (txn = NoTxn => db = Committed) /\ (txn.phase = "idle" => txn = NoTxn)
      /\ NoTxn.phase = "idle" /\ Committed.chain = chain
    BY DEF Inv, TypeOK, SoundInv, TransactionSound, NoTxn, Committed
\* Steps of a transaction that is not connecting a block and keeps the chain.
<1>2. ASSUME chain' = chain, db'.chain = db.chain, txn.phase # "body", txn'.phase # "body"
      PROVE  SupplyInv'
    BY <1>2 DEF SupplyInv, Complete
<1>3. ASSUME NEW op, NEW phase \in {"header", "disconnect"}, NEW ancestor, NEW count, NEW source,
             Begin(op, phase, ancestor, count, source)
      PROVE  txn.phase # "body" /\ txn'.phase # "body"
    BY <1>3 DEF Begin, NoTxn
<1>4. CASE \E t \in Regular : AddTransaction(t)
  <2>1. /\ txn = NoTxn /\ txn' = txn /\ chain' = chain
        /\ db' = [db EXCEPT !.mempool = mempool']
      BY <1>4 DEF AddTransaction
  <2>2. db'.chain = db.chain
      BY <1>1, <2>1 DEF Committed
  <2> QED BY <1>1, <1>2, <2>1, <2>2
<1>5. CASE \E n \in PruneRetentions : Prune(n)
  <2>1. /\ txn = NoTxn /\ txn' = txn /\ chain' = chain
        /\ db' = [[db EXCEPT !.pruned = pruned'] EXCEPT !.undo = undo']
      BY <1>5 DEF Prune
  <2>2. db'.chain = db.chain
      BY <1>1, <2>1 DEF Committed
  <2> QED BY <1>1, <1>2, <2>1, <2>2
<1>6. CASE ConnectBlock \/ DisconnectTip
    BY <1>2, <1>3, <1>6 DEF ConnectBlock, DisconnectTip, stored
<1>7. CASE \E ancestor \in 0..MaxHeight, count \in 1..MaxBranch : ReplaceFrom(ancestor, count)
    BY <1>2, <1>3, <1>7 DEF ReplaceFrom, stored
<1>8. CASE CommitMinedBlock
  <2>1. chain' = chain /\ db' = db /\ txn = NoTxn
      BY <1>8 DEF CommitMinedBlock, stored
  <2> QED BY <1>1, <1>2, <1>3, <1>8, <2>1 DEF CommitMinedBlock
<1>9. CASE \E count \in 0..MaxBranch, pending \in ImportedPending : ImportState(count, pending)
  <2>1. chain' = chain /\ db' = db /\ txn = NoTxn /\ txn'.phase = "header"
      BY <1>9 DEF ImportState, NoTxn
  <2> QED BY <1>1, <1>2, <2>1
<1>10. CASE StartRebuild \/ Readmit
  <2>1. chain' = chain /\ db' = db /\ txn.phase # "body"
      BY <1>10 DEF StartRebuild, Readmit
  <2>2. txn'.phase # "body"
      BY <1>1, <1>10 DEF StartRebuild, Readmit, Txn
  <2> QED BY <1>2, <2>1, <2>2
<1>11. CASE Commit
  <2>1. /\ txn.phase = "rebuild" /\ txn' = NoTxn /\ chain' = chain /\ db'.chain = chain
      BY <1>1, <1>11 DEF Commit, stored
  <2> QED BY <1>1, <2>1 DEF SupplyInv, Complete
<1>12. CASE Rollback
  <2>1. chain' = db.chain /\ db' = db /\ txn' = NoTxn
      BY <1>12 DEF Rollback
  <2> QED BY <1>1, <2>1 DEF SupplyInv, Complete
<1>13. CASE BuildMiningCandidate \/ AbandonJob \/ UNCHANGED vars
  <2>1. UNCHANGED <<chain, utxo, db, txn>>
      BY <1>13 DEF BuildMiningCandidate, AbandonJob, vars, stored
  <2> QED BY <2>1 DEF SupplyInv, Complete, FeesHeld
<1> QED BY <1>4, <1>5, <1>6, <1>7, <1>8, <1>9, <1>10, <1>11, <1>12, <1>13, DisconnectBalanced,
           InsertBalanced, ConnectTransactionBalanced, ConnectCoinbaseBalanced DEF Next

\* Whatever blocks are offered, connected, disconnected, rolled back or
\* imported, the committed unspent outputs add up to exactly what the emission
\* schedule has minted at the committed tip.
THEOREM SupplyIsMinted == Spec => []SupplyMatchesIssuance
<1>1. Inv /\ SupplyInv /\ [Next]_vars => SupplyInv'
    BY SupplyStep
<1>2. Inv /\ SupplyInv => SupplyMatchesIssuance
  <2> SUFFICES ASSUME Inv, SupplyInv PROVE SupplyMatchesIssuance
      OBVIOUS
  <2>1. db.chain \in Seq(Row) /\ db.utxo = Unspent(db.chain)
      BY TypeParts DEF Inv, TypeConjuncts, TablesOK, SoundInv, CommittedSound, TablesSound
  <2>2. Balanced(db.chain)
      BY <2>1, WholeBalanced DEF SupplyInv
  <2>3. Units(Outs(db.utxo)) = MintedThrough(Len(db.chain))
      BY <2>1, <2>2 DEF Balanced, Counted
  <2> QED BY <2>3, Zenon DEF SupplyMatchesIssuance, Units
<1> QED BY <1>1, <1>2, InitBalanced, InvHolds, PTL DEF Spec

-----------------------------------------------------------------------------
(* The sums of the mempool.                                                *)

\* What the input budget counts of a transaction.
InputsWeight == [t \in Tx |-> Cardinality(InputsOf[t])]

\* A transaction has a size and finitely many inputs.
LEMMA Weights == SizeOf \in [Tx -> Nat] /\ InputsWeight \in [Tx -> Nat]
<1>1. ASSUME NEW t \in Tx PROVE Cardinality(InputsOf[t]) \in Nat
  <2>1. IsFiniteSet(InputsOf[t])
      BY TransactionAssumption, FS_EmptySet DEF Tx
  <2> QED BY <2>1, FS_CardinalityType
<1> QED BY <1>1, TransactionAssumption DEF InputsWeight

\* Bytes and InputCount are totals.
LEMMA BytesAre ==
    ASSUME NEW seq \in Seq(Tx) PROVE Bytes(seq) = Total(SizeOf, seq)
<1>1. DOMAIN seq = 1..Len(seq)
    BY LenProperties
<1> QED BY <1>1, Zenon DEF Bytes, FoldLeft, MapThenFoldSet, Total, SumsOf

\* The number of inputs of a pool, in the same way.
LEMMA InputCountIs ==
    ASSUME NEW seq \in Seq(Tx) PROVE InputCount(seq) = Total(InputsWeight, seq)
<1> DEFINE Counts(g) == g = [S \in SUBSET (1..Len(seq)) |->
               IF S = {} THEN 0 ELSE g[S \ {Max(S)}] + Cardinality(InputsOf[seq[Max(S)]])]
<1>1. DOMAIN seq = 1..Len(seq) /\ Len(seq) \in Nat
    BY LenProperties
<1>2. InputCount(seq) = (CHOOSE g : Counts(g))[1..Len(seq)]
    BY <1>1, Zenon DEF InputCount, FoldLeft, MapThenFoldSet
<1>3. ASSUME NEW S \in SUBSET (1..Len(seq)), S # {}
      PROVE  InputsWeight[seq[Max(S)]] = Cardinality(InputsOf[seq[Max(S)]])
  <2>1. Max(S) \in 1..Len(seq)
      BY <1>1, <1>3, MaxIn
  <2>2. seq[Max(S)] \in Tx
      BY <2>1
  <2> QED BY <2>2 DEF InputsWeight
<1>4. ASSUME NEW g PROVE Counts(g) <=> SumsOf(InputsWeight, seq, g)
    BY <1>3 DEF SumsOf
<1> HIDE DEF Counts
<1>5. (CHOOSE g : Counts(g)) = (CHOOSE g : SumsOf(InputsWeight, seq, g))
    BY <1>4
<1> QED BY <1>2, <1>5 DEF Total

-----------------------------------------------------------------------------
(* The budgets of the mempool.                                             *)

\* The three budgets of a mempool, one condition for the open and the committed one.
Fits(pool) ==
    /\ Len(pool) <= MaxPendingTransactions
    /\ Bytes(pool) <= MaxMempoolBytes
    /\ InputCount(pool) <= MaxMempoolInputs

FitsInv == Fits(mempool) /\ Fits(db.mempool)

\* An empty mempool fits.
LEMMA EmptyFits == Fits(<<>>)
<1>1. <<>> \in Seq(Tx) /\ Len(<<>>) = 0
    OBVIOUS
<1>2. Bytes(<<>>) = 0 /\ InputCount(<<>>) = 0
    BY <1>1, BytesAre, InputCountIs, TotalEmpty, Weights
<1> QED BY <1>1, <1>2, PolicyAssumption DEF Fits

\* What admission lets in stays within the budgets.
LEMMA AdmissionFits ==
    ASSUME NEW pool \in Seq(Regular), Fits(pool), NEW t \in Regular, WithinBudget(pool, t)
    PROVE  Fits(Append(pool, t))
<1>1. pool \in Seq(Tx) /\ Append(pool, t) \in Seq(Tx) /\ t \in Tx /\ Len(pool) \in Nat
      /\ Len(Append(pool, t)) = Len(pool) + 1
    BY DEF Tx
<1>2. /\ Bytes(pool) = Total(SizeOf, pool) /\ InputCount(pool) = Total(InputsWeight, pool)
      /\ Bytes(pool) \in Nat /\ InputCount(pool) \in Nat
    BY <1>1, BytesAre, InputCountIs, TotalNat, Weights
<1>3. /\ Bytes(Append(pool, t)) = Bytes(pool) + SizeOf[t]
      /\ InputCount(Append(pool, t)) = InputCount(pool) + InputsWeight[t]
    BY <1>1, <1>2, BytesAre, InputCountIs, TotalAppend, Weights, ZenonT(40)
<1>4. InputsWeight[t] = Cardinality(InputsOf[t]) /\ InputsWeight[t] \in Nat /\ SizeOf[t] \in Nat
    BY <1>1, Weights DEF InputsWeight
<1> QED BY <1>1, <1>2, <1>3, <1>4, PolicyAssumption DEF WithinBudget, Fits

\* Every step leaves the mempool, empties it, restores the committed one, or
\* admits one transaction.
LEMMA FitsStep ==
    ASSUME Inv, FitsInv, [Next]_vars
    PROVE  FitsInv'
<1>1. /\ mempool \in Seq(Regular) /\ (txn = NoTxn => db = Committed)
      /\ Committed.mempool = mempool
    BY TypeParts DEF Inv, TypeConjuncts, SoundInv, TransactionSound, Committed
<1>2. ASSUME NEW t, Admissible(mempool, utxo, Confirmed(chain), t, Len(chain) + 1)
      PROVE  Fits(Append(mempool, t))
  <2>1. t \in Regular /\ WithinBudget(mempool, t)
      BY <1>2, TransactionAssumption DEF Admissible, ValidRegularTransaction
  <2> QED BY <1>1, <2>1, AdmissionFits DEF FitsInv
<1>3. CASE \E t \in Regular : AddTransaction(t)
  <2>1. PICK t \in Regular : AddTransaction(t)
      BY <1>3
  <2>2. mempool' = Append(mempool, t) /\ Fits(mempool') /\ db' = [db EXCEPT !.mempool = mempool']
        /\ db = Committed
      BY <1>1, <1>2, <2>1 DEF AddTransaction
  <2>3. db'.mempool = mempool'
      BY <2>2 DEF Committed
  <2> QED BY <2>2, <2>3 DEF FitsInv
<1>4. CASE Readmit
  <2>1. mempool' = mempool \/ Fits(mempool')
      BY <1>2, <1>4 DEF Readmit
  <2>2. db' = db
      BY <1>4 DEF Readmit
  <2> QED BY <2>1, <2>2 DEF FitsInv
<1>5. CASE \E n \in PruneRetentions : Prune(n)
  <2>1. /\ mempool' = mempool /\ db = Committed
        /\ db' = [[db EXCEPT !.pruned = pruned'] EXCEPT !.undo = undo']
      BY <1>1, <1>5 DEF Prune
  <2>2. db'.mempool = db.mempool
      BY <2>1 DEF Committed
  <2> QED BY <2>1, <2>2 DEF FitsInv
<1>6. ASSUME mempool' \in {mempool, <<>>, db.mempool}, db' \in {db, Committed} PROVE FitsInv'
  <2>1. Fits(mempool')
      BY <1>6, EmptyFits DEF FitsInv
  <2>2. Fits(db'.mempool)
      BY <1>1, <1>6 DEF FitsInv
  <2> QED BY <2>1, <2>2 DEF FitsInv
<1>7. CASE \/ ConnectBlock \/ CommitMinedBlock \/ DisconnectTip
           \/ \E ancestor \in 0..MaxHeight, count \in 1..MaxBranch : ReplaceFrom(ancestor, count)
           \/ \E count \in 0..MaxBranch, pending \in ImportedPending : ImportState(count, pending)
           \/ BuildMiningCandidate \/ AbandonJob \/ UNCHANGED vars
    BY <1>6, <1>7 DEF ConnectBlock, CommitMinedBlock, DisconnectTip, ReplaceFrom, ImportState,
                      BuildMiningCandidate, AbandonJob, vars, stored
<1>8. CASE DisconnectBlock \/ InsertBlock \/ ConnectTransaction \/ ConnectCoinbase \/ StartRebuild
           \/ Commit \/ Rollback
    BY <1>6, <1>8 DEF DisconnectBlock, InsertBlock, ConnectTransaction, ConnectCoinbase,
                      StartRebuild, Commit, Rollback, stored
<1> QED BY <1>3, <1>4, <1>5, <1>7, <1>8 DEF Next

\* The mempool stays within its three budgets, whatever a reorganisation puts back
\* into it: admission counts the transaction that it judges.
THEOREM PoolIsBounded == Spec => []MempoolWithinBudget
<1>1. Init => FitsInv
    BY EmptyFits DEF Init, Committed, FitsInv
<1>2. Inv /\ FitsInv /\ [Next]_vars => FitsInv'
    BY FitsStep
<1>3. FitsInv => MempoolWithinBudget
    BY DEF FitsInv, Fits, MempoolWithinBudget
<1> QED BY <1>1, <1>2, <1>3, InvHolds, PTL DEF Spec

-----------------------------------------------------------------------------
(* What the miner selects.                                                 *)

\* The transactions that have a fee.
Valid == {t \in Regular : ValidRegularTransaction(t)}

FeeOf == [t \in Valid |-> Fee(t)]

\* The local operators of prioritizeMempoolForMining, under names of their own: the
\* positions whose parents are taken, the best of them, and the order with it added.
Ready(pool, taken) ==
    {i \in DOMAIN pool \ Range(taken) :
        {j \in DOMAIN pool : \E out \in InputsOf[pool[i]] : out[1] = pool[j]} \subseteq Range(taken)}

BestOf(pool, ready) ==
    CHOOSE i \in ready : \A j \in ready \ {i} : higherMiningPriority(pool, i, j)

TakeBest(pool, taken) ==
    IF Ready(pool, taken) = {} THEN taken ELSE Append(taken, BestOf(pool, Ready(pool, taken)))

\* The miner's order is a sequence.
LEMMA PriorityIsSequence ==
    ASSUME NEW pool \in Seq(Regular)
    PROVE  \E m \in Nat : DOMAIN prioritizeMempoolForMining(pool) = 1..m
<1> DEFINE n == Len(pool)
           D == 1..n
           ids == [k \in DOMAIN pool |-> k]
           E == {BestOf(pool, S) : S \in SUBSET DOMAIN pool}
           Rec(g) == g = [S \in SUBSET D |->
                             IF S = {} THEN <<>> ELSE TakeBest(pool, g[S \ {Max(S)}])]
           step == [x \in Seq(E) \X D |-> TakeBest(pool, x[1])]
           order == (CHOOSE g : Rec(g))[D]
<1>1. n \in Nat /\ DOMAIN pool = D /\ DOMAIN ids = D /\ ids \in Seq(D) /\ Len(ids) = n
    BY LenProperties
<1>2. prioritizeMempoolForMining(pool) = [k \in DOMAIN order |-> pool[order[k]]]
  <2>1. prioritizeMempoolForMining(pool) =
           LET o == (CHOOSE g : g = [S \in SUBSET DOMAIN ids |->
                                        IF S = {} THEN <<>> ELSE TakeBest(pool, g[S \ {Max(S)}])]
                    )[DOMAIN ids]
           IN [k \in DOMAIN o |-> pool[o[k]]]
    BY DEF prioritizeMempoolForMining, FoldLeft, MapThenFoldSet, TakeBest, Ready, BestOf
  <2> QED BY <1>1, <2>1
<1>3. ASSUME NEW s \in Seq(E) PROVE TakeBest(pool, s) \in Seq(E)
  <2>1. Ready(pool, s) \in SUBSET DOMAIN pool
      BY DEF Ready
  <2> QED BY <2>1 DEF TakeBest
<1>4. \E g : Rec(g)
  <2>1. step \in [Seq(E) \X D -> Seq(E)] /\ <<>> \in Seq(E)
      BY <1>3
  <2>2. PICK g \in [SUBSET D -> Seq(E)] : FoldedBy(step, <<>>, ids, n, g)
    <3> HIDE DEF step, E, ids
    <3>1. \E g \in [SUBSET (1..Len(ids)) -> Seq(E)] : FoldedBy(step, <<>>, ids, Len(ids), g)
        BY <1>1, <2>1, FoldExists
    <3> QED BY <1>1, <3>1
  <2>3. ASSUME NEW S \in SUBSET D, S # {}
        PROVE  g[S] = TakeBest(pool, g[S \ {Max(S)}])
    <3>1. Max(S) \in S
        BY <1>1, <2>3, MaxIn
    <3>2. S \ {Max(S)} \in SUBSET D /\ Max(S) \in D
        BY <3>1
    <3>3. g[S \ {Max(S)}] \in Seq(E) /\ ids[Max(S)] \in D
        BY <1>1, <3>2
    <3>4. g[S] = step[<<g[S \ {Max(S)}], ids[Max(S)]>>]
      <4> HIDE DEF step, E, ids
      <4> QED BY <2>2, <2>3 DEF FoldedBy
    <3> HIDE DEF ids, E
    <3> QED BY <3>3, <3>4
  <2>4. g[{}] = <<>>
      BY <2>2 DEF FoldedBy
  <2>5. Rec(g)
      BY <2>3, <2>4
  <2> QED BY <2>5
<1> DEFINE h == CHOOSE g : Rec(g)
<1>5. Rec(h) /\ order = h[D]
    BY <1>4
<1> HIDE DEF h, E, order
<1>6. \A i \in 0..n : h[1..i] \in Seq(E)
  <2> DEFINE Q == {i \in 0..n : h[1..i] \notin Seq(E)}
  <2> SUFFICES ASSUME Q # {} PROVE FALSE
      OBVIOUS
  <2>1. Q \in SUBSET Nat
      OBVIOUS
  <2>2. PICK i \in Q : \A m \in Q : i <= m
    <3> HIDE DEF Q
    <3> QED BY <2>1, LeastNumber
  <2>3. h[1..0] = <<>>
    <3>1. 1..0 = {} /\ {} \in SUBSET D
        OBVIOUS
    <3> QED BY <1>5, <3>1
  <2>4. i \in 1..n
    <3>1. i # 0
      <4>1. <<>> \in Seq(E)
          OBVIOUS
      <4>2. h[1..i] \notin Seq(E)
          BY <2>2
      <4> HIDE DEF Q
      <4> QED BY <2>3, <4>1, <4>2
    <3> QED BY <1>1, <2>2, <3>1
  <2>5. i - 1 \in 0..n /\ ~(i <= i - 1)
      BY <1>1, <2>4
  <2>6. i - 1 \notin Q
    <3> HIDE DEF Q
    <3> QED BY <2>2, <2>5
  <2>7. Max(1..i) = i /\ (1..i) \ {i} = 1..(i - 1) /\ 1..i # {} /\ 1..i \in SUBSET D
      BY <1>1, <2>4, FoldPrefix, ZenonT(40)
  <2>8. h[1..i] = TakeBest(pool, h[1..(i - 1)])
      BY <1>5, <2>7
  <2> QED BY <1>3, <2>2, <2>5, <2>6, <2>8
<1>7. order \in Seq(E)
  <2>1. n \in 0..n
      BY <1>1
  <2> QED BY <1>5, <1>6, <2>1
<1> QED BY <1>2, <1>7

\* The local operators of SelectTransactions: an input that the block can spend, and
\* the miner's view with a candidate considered.
Usable(view, coins, height, out) ==
    /\ out \notin view.spent
    /\ \/ out \in view.created
       \/ \E r \in coins : r.out = out /\ MatureRecord(r, height)

Consider(coins, height, view, t) ==
    IF /\ Len(view.selected) < MaxBlockTransactions - 1
       /\ view.bytes + SizeOf[t] <= MaxBlockBytes
       /\ \A out \in InputsOf[t] : Usable(view, coins, height, out)
       /\ ValidRegularTransaction(t)
    THEN [selected |-> Append(view.selected, t),
          created  |-> (view.created \ InputsOf[t]) \cup OutpointsOf(t),
          spent    |-> view.spent \cup InputsOf[t],
          bytes    |-> view.bytes + SizeOf[t],
          fees     |-> view.fees + Fee(t)]
    ELSE view

EmptyView == [selected |-> <<>>, created |-> {}, spent |-> {},
              bytes |-> BlockOverhead + CoinbaseReserve, fees |-> 0]

View == [selected : Seq(Valid), created : SUBSET Outpoint, spent : SUBSET Outpoint,
         bytes : Nat, fees : Nat]

\* Considering a candidate, whatever it is, leaves a view.
LEMMA ConsiderType ==
    ASSUME NEW coins, NEW height, NEW view \in View, NEW t
    PROVE  Consider(coins, height, view, t) \in View
<1>1. ASSUME ValidRegularTransaction(t)
      PROVE  /\ t \in Valid /\ Fee(t) \in Nat /\ SizeOf[t] \in Nat
             /\ InputsOf[t] \subseteq Outpoint /\ OutpointsOf(t) \subseteq Outpoint
  <2>1. t \in Regular /\ t \in Tx /\ Fee(t) \in Nat
      BY <1>1, TransactionAssumption DEF ValidRegularTransaction, Tx
  <2>2. OutputsOf[t] \in Seq(Nat \ {0})
      BY <2>1, TransactionAssumption
  <2>3. DOMAIN OutputsOf[t] \subseteq Nat
      BY <2>2, LenProperties
  <2> QED BY <1>1, <2>1, <2>3, TransactionAssumption DEF Valid, OutpointsOf, Outpoint
<1>2. /\ view.selected \in Seq(Valid) /\ view.created \subseteq Outpoint
      /\ view.spent \subseteq Outpoint /\ view.bytes \in Nat /\ view.fees \in Nat
    BY DEF View
<1>3. CASE ValidRegularTransaction(t)
  <2>1. /\ Append(view.selected, t) \in Seq(Valid)
        /\ (view.created \ InputsOf[t]) \cup OutpointsOf(t) \subseteq Outpoint
        /\ view.spent \cup InputsOf[t] \subseteq Outpoint
        /\ view.bytes + SizeOf[t] \in Nat /\ view.fees + Fee(t) \in Nat
      BY <1>1, <1>2, <1>3
  <2> HIDE DEF View
  <2>2. [selected |-> Append(view.selected, t),
         created  |-> (view.created \ InputsOf[t]) \cup OutpointsOf(t),
         spent    |-> view.spent \cup InputsOf[t],
         bytes    |-> view.bytes + SizeOf[t],
         fees     |-> view.fees + Fee(t)] \in View
      BY <2>1 DEF View
  <2> QED BY <2>2 DEF Consider
<1>4. CASE ~ValidRegularTransaction(t)
    BY <1>4 DEF Consider
<1> QED BY <1>3, <1>4

\* p lists the miner's views from the empty one to the last, with one more
\* candidate considered in each.
Views(coins, height, m, p, last) ==
    /\ m \in Nat /\ p \in [0..m -> View]
    /\ p[0] = EmptyView
    /\ \A i \in 1..m : \E t : p[i] = Consider(coins, height, p[i - 1], t)
    /\ last = p[m]

\* SelectTransactions is the last of the views.
LEMMA SelectionSteps ==
    ASSUME NEW pool \in Seq(Regular), NEW coins, NEW height
    PROVE  \E m, p : Views(coins, height, m, p, SelectTransactions(pool, coins, height))
<1> DEFINE order == prioritizeMempoolForMining(pool)
<1>1. PICK m \in Nat : DOMAIN order = 1..m
    BY PriorityIsSequence
<1> DEFINE D == 1..m
           C(v, t) == Consider(coins, height, v, t)
           Rec(g) == g = [S \in SUBSET D |->
                             IF S = {} THEN EmptyView ELSE C(g[S \ {Max(S)}], order[Max(S)])]
           ids == [k \in D |-> k]
           step == [x \in View \X D |-> C(x[1], order[x[2]])]
<1> HIDE DEF order
<1>2. SelectTransactions(pool, coins, height) = (CHOOSE g : Rec(g))[D]
  <2>1. SelectTransactions(pool, coins, height) =
           (CHOOSE g : g = [S \in SUBSET DOMAIN order |->
               IF S = {} THEN EmptyView ELSE C(g[S \ {Max(S)}], order[Max(S)])])[DOMAIN order]
    BY DEF SelectTransactions, FoldLeft, MapThenFoldSet, Consider, Usable, EmptyView, order
  <2> QED BY <1>1, <2>1
<1>3. EmptyView \in View
  <2>1. BlockOverhead + CoinbaseReserve \in Nat /\ <<>> \in Seq(Valid)
      BY PolicyAssumption
  <2> QED BY <2>1 DEF View, EmptyView
<1>4. ids \in Seq(D) /\ Len(ids) = m
    OBVIOUS
<1>5. \E g : Rec(g)
  <2>1. step \in [View \X D -> View]
      BY ConsiderType
  <2>2. PICK g \in [SUBSET D -> View] : FoldedBy(step, EmptyView, ids, m, g)
    <3> HIDE DEF step, ids
    <3>1. \E g \in [SUBSET (1..Len(ids)) -> View] : FoldedBy(step, EmptyView, ids, Len(ids), g)
        BY <1>3, <1>4, <2>1, FoldExists
    <3> QED BY <1>4, <3>1
  <2>3. ASSUME NEW S \in SUBSET D, S # {}
        PROVE  g[S] = C(g[S \ {Max(S)}], order[Max(S)])
    <3>1. Max(S) \in S
        BY <2>3, MaxIn
    <3>2. S \ {Max(S)} \in SUBSET D /\ Max(S) \in D
        BY <3>1
    <3>3. g[S \ {Max(S)}] \in View /\ ids[Max(S)] = Max(S)
        BY <3>2
    <3>4. g[S] = step[<<g[S \ {Max(S)}], ids[Max(S)]>>]
      <4> HIDE DEF step, ids
      <4> QED BY <2>2, <2>3 DEF FoldedBy
    <3> HIDE DEF ids, C
    <3> QED BY <3>2, <3>3, <3>4
  <2>4. g[{}] = EmptyView
      BY <2>2 DEF FoldedBy
  <2> HIDE DEF C
  <2>5. Rec(g)
      BY <2>3, <2>4
  <2> QED BY <2>5
<1> DEFINE h == CHOOSE g : Rec(g)
           p == [i \in 0..m |-> h[1..i]]
<1>6. Rec(h) /\ SelectTransactions(pool, coins, height) = h[D]
    BY <1>2, <1>5
<1> HIDE DEF h, C
<1>7. p[0] = EmptyView
  <2>1. 1..0 = {} /\ {} \in SUBSET D /\ 0 \in 0..m
      OBVIOUS
  <2> QED BY <1>6, <2>1
<1>8. ASSUME NEW i \in 1..m PROVE i - 1 \in 0..m /\ p[i] = C(p[i - 1], order[i])
  <2>1. Max(1..i) = i /\ (1..i) \ {i} = 1..(i - 1) /\ 1..i # {} /\ 1..i \in SUBSET D
      BY FoldPrefix, ZenonT(40)
  <2>2. i \in 0..m /\ i - 1 \in 0..m
      OBVIOUS
  <2>3. h[1..i] = C(h[1..(i - 1)], order[i])
      BY <1>6, <2>1
  <2> QED BY <2>2, <2>3
<1>9. p \in [0..m -> View]
  <2> DEFINE Q == {i \in 0..m : p[i] \notin View}
  <2> SUFFICES ASSUME Q # {} PROVE FALSE
      OBVIOUS
  <2>1. Q \in SUBSET Nat
      OBVIOUS
  <2>2. PICK i \in Q : \A k \in Q : i <= k
    <3> HIDE DEF Q
    <3> QED BY <2>1, LeastNumber
  <2>3. i \in 1..m
    <3>1. i # 0 /\ i \in 0..m
      <4>1. i \in 0..m /\ p[i] \notin View
          BY <2>2
      <4> HIDE DEF p, Q
      <4> QED BY <1>3, <1>7, <4>1
    <3> QED BY <3>1
  <2>4. i - 1 \in 0..m /\ ~(i <= i - 1)
      BY <2>3
  <2>5. i - 1 \notin Q
    <3> HIDE DEF Q
    <3> QED BY <2>2, <2>4
  <2>6. p[i - 1] \in View /\ p[i] \notin View
      BY <2>2, <2>4, <2>5
  <2> HIDE DEF p
  <2> QED BY <1>8, <2>3, <2>6, ConsiderType DEF C
<1>10. p[m] = h[D]
    OBVIOUS
<1> HIDE DEF p
<1>11. \A i \in 1..m : \E t : p[i] = Consider(coins, height, p[i - 1], t)
    BY <1>8 DEF C
<1>12. Views(coins, height, m, p, SelectTransactions(pool, coins, height))
    BY <1>6, <1>7, <1>9, <1>10, <1>11 DEF Views
<1> QED BY <1>12

(***************************************************************************)
(* Transactions that the block after chain c can confirm in this order:    *)
(* none is on the chain, and each input is a mature unspent output of the  *)
(* chain or an output of an earlier one, which no earlier one spends.      *)
(***************************************************************************)
Chainable(c, txs) ==
    \A i \in 1..Len(txs) :
        /\ txs[i] \notin Confirmed(c)
        /\ \A out \in InputsOf[txs[i]] :
              /\ \A j \in 1..(i - 1) : out \notin InputsOf[txs[j]]
              /\ \/ \E j \in 1..(i - 1) : out \in OutpointsOf(txs[j])
                 \/ \E r \in Unspent(c) : r.out = out /\ MatureRecord(r, Len(c) + 1)

ViewSound(c, view) ==
    /\ Len(view.selected) <= MaxBlockTransactions - 1
    /\ view.bytes = BlockOverhead + CoinbaseReserve + Total(SizeOf, view.selected)
    /\ view.bytes <= MaxBlockBytes
    /\ view.fees = Total(FeeOf, view.selected)
    /\ \A j \in 1..Len(view.selected) : InputsOf[view.selected[j]] \subseteq view.spent
    /\ \A out \in view.created : \E j \in 1..Len(view.selected) :
          out \in OutpointsOf(view.selected[j])
    /\ Chainable(c, view.selected)

\* Only transactions whose inputs cover their outputs have a fee to add up.
LEMMA FeeWeight == FeeOf \in [Valid -> Nat] /\ Valid \subseteq Tx
BY DEF FeeOf, Valid, ValidRegularTransaction, Tx

\* What the miner adds to its selection can follow what it has selected.
LEMMA ConsiderSound ==
    ASSUME NEW c \in Seq(Row), WellFormed(c), NEW view \in View, ViewSound(c, view), NEW t
    PROVE  ViewSound(c, Consider(Unspent(c), Len(c) + 1, view, t))
<1> DEFINE s == view.selected
           n == Len(s)
           h == Len(c) + 1
           next == Consider(Unspent(c), h, view, t)
<1>1. CASE ~(/\ n < MaxBlockTransactions - 1
             /\ view.bytes + SizeOf[t] <= MaxBlockBytes
             /\ \A out \in InputsOf[t] : Usable(view, Unspent(c), h, out)
             /\ ValidRegularTransaction(t))
    BY <1>1 DEF Consider
<1>2. CASE /\ n < MaxBlockTransactions - 1
           /\ view.bytes + SizeOf[t] <= MaxBlockBytes
           /\ \A out \in InputsOf[t] : Usable(view, Unspent(c), h, out)
           /\ ValidRegularTransaction(t)
  <2>1. /\ t \in Valid /\ t \in Tx /\ t \in Regular /\ Fee(t) \in Nat
        /\ s \in Seq(Valid) /\ s \in Seq(Tx) /\ n \in Nat
        /\ InputsOf[t] # {} /\ SizeOf[t] \in Nat
      BY <1>2, TransactionAssumption DEF Valid, ValidRegularTransaction, Tx, View
  <2>2. /\ next.selected = Append(s, t) /\ next.spent = view.spent \cup InputsOf[t]
        /\ next.created = (view.created \ InputsOf[t]) \cup OutpointsOf(t)
        /\ next.bytes = view.bytes + SizeOf[t] /\ next.fees = view.fees + Fee(t)
      BY <1>2 DEF Consider
  <2> DEFINE more == Append(s, t)
  <2>3. /\ more \in Seq(Valid) /\ Len(more) = n + 1 /\ more[n + 1] = t
        /\ \A i \in 1..n : more[i] = s[i]
      BY <2>1
  <2>4. Total(SizeOf, more) = Total(SizeOf, s) + SizeOf[t] /\ Total(SizeOf, s) \in Nat
      BY <2>1, Weights, TotalAppend, TotalNat
  <2>5. Total(FeeOf, more) = Total(FeeOf, s) + FeeOf[t] /\ FeeOf[t] = Fee(t)
    <3>1. FeeOf \in [Valid -> Nat]
        BY FeeWeight
    <3>2. FeeOf[t] = Fee(t)
        BY <2>1 DEF FeeOf
    <3> QED BY <2>1, <3>1, <3>2, TotalAppend
  <2> HIDE DEF next, more
  <2>6. /\ Len(next.selected) <= MaxBlockTransactions - 1
        /\ next.bytes = BlockOverhead + CoinbaseReserve + Total(SizeOf, next.selected)
        /\ next.bytes <= MaxBlockBytes
        /\ next.fees = Total(FeeOf, next.selected)
      BY <1>2, <2>1, <2>2, <2>3, <2>4, <2>5, PolicyAssumption, SMTT(30) DEF ViewSound, more
  <2>7. ASSUME NEW j \in 1..(n + 1) PROVE InputsOf[more[j]] \subseteq next.spent
    <3>1. CASE j = n + 1 BY <2>2, <2>3, <3>1
    <3>2. CASE j # n + 1
      <4>1. j \in 1..n
          BY <2>1, <3>2
      <4> QED BY <2>2, <2>3, <4>1 DEF ViewSound
    <3> QED BY <3>1, <3>2
  <2>8. ASSUME NEW out \in next.created
        PROVE  \E j \in 1..(n + 1) : out \in OutpointsOf(more[j])
    <3>1. CASE out \in OutpointsOf(t) BY <2>1, <2>3, <3>1
    <3>2. CASE out \in view.created
      <4>1. PICK j \in 1..n : out \in OutpointsOf(s[j])
          BY <3>2 DEF ViewSound
      <4>2. j \in 1..(n + 1) /\ more[j] = s[j]
          BY <2>1, <2>3
      <4> QED BY <4>1, <4>2
    <3> QED BY <2>2, <3>1, <3>2
  <2>9. Chainable(c, more)
    <3>1. \A out \in InputsOf[t] : Usable(view, Unspent(c), h, out)
        BY <1>2
    <3>2. \A out \in InputsOf[t] : \A j \in 1..n : out \notin InputsOf[s[j]]
        BY <3>1 DEF Usable, ViewSound
    <3>3. \A out \in InputsOf[t] :
             \/ \E j \in 1..n : out \in OutpointsOf(s[j])
             \/ \E r \in Unspent(c) : r.out = out /\ MatureRecord(r, h)
        BY <3>1 DEF Usable, ViewSound
    <3>4. t \notin Confirmed(c)
      <4> SUFFICES ASSUME t \in Confirmed(c) PROVE FALSE
          OBVIOUS
      <4>1. PICK out \in InputsOf[t] : TRUE
          BY <2>1
      <4>2. out \in SpentIn(c)
          BY DEF SpentIn
      <4>3. out[1] \in Confirmed(c)
          BY <4>2, SpentIsConfirmed
      <4>4. PICK j \in 1..n : out \in OutpointsOf(s[j])
          BY <3>3, <4>2 DEF Unspent
      <4>5. out[1] = s[j] /\ s[j] \notin Confirmed(c)
          BY <4>4 DEF OutpointsOf, ViewSound, Chainable
      <4> QED BY <4>3, <4>5
    <3>5. ASSUME NEW i \in 1..(n + 1)
          PROVE  /\ more[i] \notin Confirmed(c)
                 /\ \A out \in InputsOf[more[i]] :
                       /\ \A j \in 1..(i - 1) : out \notin InputsOf[more[j]]
                       /\ \/ \E j \in 1..(i - 1) : out \in OutpointsOf(more[j])
                          \/ \E r \in Unspent(c) : r.out = out /\ MatureRecord(r, h)
      <4>1. CASE i = n + 1
        <5>1. i - 1 = n /\ more[i] = t
            BY <2>1, <2>3, <4>1
        <5>2. \A j \in 1..n : more[j] = s[j]
            BY <2>3
        <5> HIDE DEF n, s, h
        <5>3. more[i] \notin Confirmed(c)
            BY <3>4, <5>1
        <5>4. ASSUME NEW out \in InputsOf[more[i]]
              PROVE  /\ \A j \in 1..n : out \notin InputsOf[more[j]]
                     /\ \/ \E j \in 1..n : out \in OutpointsOf(more[j])
                        \/ \E r \in Unspent(c) : r.out = out /\ MatureRecord(r, h)
            BY <3>2, <3>3, <5>1, <5>2
        <5> QED BY <5>1, <5>3, <5>4
      <4>2. CASE i # n + 1
        <5>1. i \in 1..n /\ more[i] = s[i] /\ \A j \in 1..(i - 1) : more[j] = s[j]
            BY <2>1, <2>3, <4>2
        <5>2. /\ s[i] \notin Confirmed(c)
              /\ \A out \in InputsOf[s[i]] :
                    /\ \A j \in 1..(i - 1) : out \notin InputsOf[s[j]]
                    /\ \/ \E j \in 1..(i - 1) : out \in OutpointsOf(s[j])
                       \/ \E r \in Unspent(c) : r.out = out /\ MatureRecord(r, h)
            BY <5>1 DEF ViewSound, Chainable
        <5> HIDE DEF n, s, h
        <5> QED BY <5>1, <5>2
      <4> QED BY <4>1, <4>2
    <3> QED BY <2>3, <3>5 DEF Chainable
  <2> QED BY <2>2, <2>3, <2>6, <2>7, <2>8, <2>9 DEF ViewSound, more, next
<1> QED BY <1>1, <1>2

\* The selection as a whole.
LEMMA SelectionSound ==
    ASSUME NEW c \in Seq(Row), WellFormed(c), NEW pool \in Seq(Regular), NEW view,
           view = SelectTransactions(pool, Unspent(c), Len(c) + 1)
    PROVE  view \in View /\ ViewSound(c, view)
<1> DEFINE h == Len(c) + 1
<1>1. PICK m, p : Views(Unspent(c), h, m, p, view)
    BY SelectionSteps
<1>2. /\ m \in Nat /\ p \in [0..m -> View] /\ p[0] = EmptyView /\ view = p[m]
      /\ \A i \in 1..m : \E t : p[i] = Consider(Unspent(c), h, p[i - 1], t)
    BY <1>1 DEF Views
<1>3. ViewSound(c, EmptyView)
  <2>1. Total(SizeOf, <<>>) = 0 /\ Total(FeeOf, <<>>) = 0 /\ Len(<<>>) = 0
    <3>1. FeeOf \in [Valid -> Nat] /\ SizeOf \in [Tx -> Nat]
        BY FeeWeight, Weights
    <3> QED BY <3>1, TotalEmpty
  <2>2. EmptyView.selected = <<>> /\ EmptyView.created = {} /\ EmptyView.fees = 0
        /\ EmptyView.bytes = BlockOverhead + CoinbaseReserve
      BY DEF EmptyView
  <2>3. Chainable(c, <<>>)
      BY <2>1 DEF Chainable
  <2> QED BY <2>1, <2>2, <2>3, PolicyAssumption DEF ViewSound
<1> DEFINE Q == {i \in 0..m : ~ViewSound(c, p[i])}
<1>4. Q = {}
  <2> SUFFICES ASSUME Q # {} PROVE FALSE
      OBVIOUS
  <2>1. Q \in SUBSET Nat
      OBVIOUS
  <2>2. PICK i \in Q : \A k \in Q : i <= k
    <3> HIDE DEF Q
    <3> QED BY <2>1, LeastNumber
  <2>3. i \in 1..m
      BY <1>2, <1>3, <2>2
  <2>4. i - 1 \in 0..m /\ ~(i <= i - 1)
      BY <1>2, <2>3
  <2>5. i - 1 \notin Q
    <3> HIDE DEF Q
    <3> QED BY <2>2, <2>4
  <2>6. ViewSound(c, p[i - 1]) /\ p[i - 1] \in View
      BY <1>2, <2>4, <2>5
  <2>7. PICK t : p[i] = Consider(Unspent(c), h, p[i - 1], t)
      BY <1>2, <2>3
  <2>8. ViewSound(c, p[i])
      BY <2>6, <2>7, ConsiderSound
  <2> QED BY <2>2, <2>8
<1>5. m \in 0..m
    BY <1>2
<1> QED BY <1>2, <1>4, <1>5

(***************************************************************************)
(* A block that would connect on chain c: its transactions follow c in     *)
(* their order, it is within the limits, and its fresh coinbase claims     *)
(* exactly the subsidy and the fees.                                       *)
(***************************************************************************)
Connects(c, block) ==
    /\ block.txs \in Seq(Valid)
    /\ Len(block.txs) <= MaxBlockTransactions - 1
    /\ BlockOverhead + CoinbaseReserve + Total(SizeOf, block.txs) <= MaxBlockBytes
    /\ Chainable(c, block.txs)
    /\ block.coinbase \in Coinbases \ Confirmed(c)
    /\ OutputTotal(block.coinbase) = Subsidy(Len(c) + 1) + Total(FeeOf, block.txs)

\* The first k transactions of the block are connected on top of chain c.
ConnectedTo(c, block, k) ==
    LET n    == Len(block.txs)
        full == Append(block.txs, block.coinbase)
    IN  /\ k \in 0..n
        /\ Len(chain) = Len(c) + 1
        /\ \A h \in 1..Len(c) : chain[h] = c[h]
        /\ BlockTxs(chain, Len(chain)) = {block.txs[j] : j \in 1..k}
        /\ txn.todo \in Seq(Tx) /\ Len(txn.todo) = n - k + 1
        /\ \A i \in 1..(n - k + 1) : txn.todo[i] = full[k + i]
        /\ txn.fees = Total(FeeOf, SubSeq(block.txs, 1, k))

JobSound == job # NoJob => Connects(job.tip, job.block)

\* The block being connected is the miner's, and connects on the committed chain.
MinedSound ==
    txn.op = "mined" =>
        \E block :
            /\ txn.source = {block} /\ Connects(db.chain, block)
            /\ txn.phase = "body" => \E k \in Nat : ConnectedTo(db.chain, block, k)

MiningInv == JobSound /\ MinedSound

\* The candidate connects on the tip that it was built for.
LEMMA CandidateConnects ==
    ASSUME Inv, BuildMiningCandidate
    PROVE  JobSound'
<1>1. txn = NoTxn /\ txn.phase = "idle"
    BY DEF BuildMiningCandidate, NoTxn
<1>2. /\ chain \in Seq(Row) /\ mempool \in Seq(Regular)
      /\ WellFormed(chain) /\ utxo = Unspent(chain)
    BY <1>1, TypeParts DEF Inv, TypeConjuncts, SoundInv, WorkingSound, TablesSound
<1> DEFINE height == Len(chain) + 1
           view == SelectTransactions(mempool, utxo, height)
<1>3. PICK c \in Coinbases \ Confirmed(chain), w \in MinedWorks :
         /\ OutputTotal(c) = Subsidy(height) + view.fees
         /\ job' = [held |-> TRUE, tip |-> chain,
                    block |-> [txs |-> view.selected, coinbase |-> c, work |-> w]]
    BY DEF BuildMiningCandidate
<1>4. view \in View /\ ViewSound(chain, view)
    BY <1>2, SelectionSound
<1> HIDE DEF view
<1>5. /\ job'.tip = chain /\ job'.block.txs = view.selected /\ job'.block.coinbase = c
    BY <1>3
<1>6. Connects(chain, job'.block)
    BY <1>3, <1>4, <1>5 DEF Connects, ViewSound, View
<1> QED BY <1>5, <1>6 DEF JobSound

\* The first transaction of a block that is being connected.
LEMMA BodyBegins ==
    ASSUME Inv, MiningInv, InsertBlock, txn.op = "mined"
    PROVE  MinedSound'
<1>1. txn.phase = "header" /\ txn # NoTxn /\ Complete = Len(chain) /\ txn.left > 0
    BY DEF InsertBlock, NoTxn, Complete
<1>2. /\ chain \in Seq(Row) /\ txn \in Txn /\ Len(chain) \in Nat
      /\ TablesSound(chain, utxo, undo, pruned, Len(chain)) /\ Progress
    BY <1>1, OpenFacts
<1>3. chain = db.chain
    BY <1>1, <1>2 DEF Progress
<1>4. PICK block : txn.source = {block} /\ Connects(db.chain, block)
    BY DEF MiningInv, MinedSound
<1>5. /\ chain' = WithRow(chain, TotalWork(chain) + block.work) /\ db' = db
      /\ txn' = [txn EXCEPT !.phase = "body", !.left = @ - 1, !.acc = NoUndo, !.fees = 0,
                            !.todo = Append(block.txs, block.coinbase)]
    BY <1>4 DEF InsertBlock
<1>6. /\ txn'.phase = "body" /\ txn'.op = "mined" /\ txn'.source = {block} /\ txn'.fees = 0
      /\ txn'.todo = Append(block.txs, block.coinbase)
    BY <1>2, <1>4, <1>5 DEF Txn
<1>7. TotalWork(chain) + block.work \in Nat
  <2>1. block.work \in Nat
      BY <1>4, TypeParts, LedgerAssumption DEF Inv, TypeConjuncts
  <2>2. TotalWork(chain) \in Nat
      BY <1>2, TotalWorkNat
  <2> QED BY <2>1, <2>2
<1>8. /\ chain' \in Seq(Row) /\ Len(chain') = Len(chain) + 1
      /\ \A h \in 1..Len(chain) : chain'[h] = chain[h]
    BY <1>2, <1>5, <1>7, AddRow DEF TablesSound
<1>9. BlockTxs(chain', Len(chain')) = {}
  <2>1. chain'[Len(chain) + 1].txs = <<>>
      BY <1>2, <1>5 DEF WithRow
  <2> QED BY <1>8, <2>1 DEF BlockTxs, Range
<1>10. ConnectedTo(db.chain, block, 0)'
  <2> DEFINE n == Len(block.txs)
             full == Append(block.txs, block.coinbase)
  <2>1. block.txs \in Seq(Tx) /\ block.txs \in Seq(Valid) /\ block.coinbase \in Tx /\ n \in Nat
      BY <1>4, FeeWeight DEF Connects, Tx
  <2>2. full \in Seq(Tx) /\ Len(full) = n + 1
      BY <2>1
  <2>3. SubSeq(block.txs, 1, 0) = <<>> /\ Total(FeeOf, <<>>) = 0
    <3>1. FeeOf \in [Valid -> Nat]
        BY FeeWeight
    <3> QED BY <3>1, TotalEmpty
  <2>4. {block.txs[j] : j \in 1..0} = {}
      OBVIOUS
  <2> HIDE DEF full, n
  <2>5. txn'.todo \in Seq(Tx) /\ Len(txn'.todo) = n - 0 + 1 /\ 0 \in 0..n
        /\ \A i \in 1..(n - 0 + 1) : txn'.todo[i] = full[0 + i]
      BY <1>6, <2>1, <2>2 DEF full
  <2> QED BY <1>3, <1>5, <1>6, <1>8, <1>9, <2>3, <2>4, <2>5 DEF ConnectedTo, full, n
<1>11. 0 \in Nat
    OBVIOUS
<1> QED BY <1>4, <1>5, <1>6, <1>10, <1>11 DEF MinedSound

\* One more of its transactions is connected.
LEMMA BodyProceeds ==
    ASSUME Inv, MiningInv, ConnectTransaction, txn.op = "mined"
    PROVE  MinedSound'
<1>1. txn.phase = "body" /\ Len(txn.todo) > 1 /\ txn # NoTxn
    BY DEF ConnectTransaction, NoTxn
<1>2. /\ chain \in Seq(Row) /\ txn \in Txn /\ Len(chain) \in Nat
    BY <1>1, OpenFacts
<1>3. PICK block : txn.source = {block} /\ Connects(db.chain, block)
                   /\ \E k \in Nat : ConnectedTo(db.chain, block, k)
    BY <1>1 DEF MiningInv, MinedSound
<1>4. PICK k \in Nat : ConnectedTo(db.chain, block, k)
    BY <1>3
<1> DEFINE n == Len(block.txs)
           full == Append(block.txs, block.coinbase)
           t == Head(txn.todo)
<1>5. /\ block.txs \in Seq(Valid) /\ block.txs \in Seq(Tx) /\ block.coinbase \in Tx /\ n \in Nat
      /\ \A i \in 1..n : full[i] = block.txs[i]
    BY <1>3, FeeWeight DEF Connects, Tx
<1> HIDE DEF full
<1>6. /\ Len(chain) = Len(db.chain) + 1
      /\ \A h \in 1..Len(db.chain) : chain[h] = db.chain[h]
      /\ BlockTxs(chain, Len(chain)) = {block.txs[j] : j \in 1..k}
      /\ txn.todo \in Seq(Tx) /\ Len(txn.todo) = n - k + 1
      /\ \A i \in 1..(n - k + 1) : txn.todo[i] = full[k + i]
      /\ txn.fees = Total(FeeOf, SubSeq(block.txs, 1, k))
    BY <1>4 DEF ConnectedTo, full
<1>7. k + 1 \in 1..n /\ k \in 0..n
    BY <1>1, <1>5, <1>6
<1>8. t = block.txs[k + 1] /\ t \in Valid /\ t \in Tx
    BY <1>1, <1>5, <1>6, <1>7
<1>9. /\ chain' = Indexed(chain, t) /\ db' = db
      /\ txn' = [txn EXCEPT !.todo = Tail(@), !.fees = @ + Fee(t),
                            !.acc = [spent   |-> @.spent \cup InputRecords(utxo, t),
                                     created |-> @.created \cup Outs(RecordsOf(t, Len(chain)))]]
    BY DEF ConnectTransaction
<1>10. /\ txn'.phase = "body" /\ txn'.op = "mined" /\ txn'.source = {block}
       /\ txn'.todo = Tail(txn.todo) /\ txn'.fees = txn.fees + Fee(t)
    BY <1>1, <1>2, <1>3, <1>9 DEF Txn
<1> HIDE DEF t
<1>11. /\ Len(chain') = Len(chain)
       /\ \A h \in 1..(Len(chain) - 1) : chain'[h] = chain[h]
       /\ BlockTxs(chain', Len(chain')) = BlockTxs(chain, Len(chain)) \cup {t}
  <2>1. chain # <<>>
      BY <1>1 DEF Inv, SoundInv, WorkingSound
  <2> QED BY <1>2, <1>8, <1>9, <2>1, IndexRow
<1>12. BlockTxs(chain', Len(chain')) = {block.txs[j] : j \in 1..(k + 1)}
  <2>1. \A j \in 1..(k + 1) : j \in 1..k \/ j = k + 1
      OBVIOUS
  <2>2. \A j \in 1..k : j \in 1..(k + 1)
      OBVIOUS
  <2>3. k + 1 \in 1..(k + 1)
      OBVIOUS
  <2> QED BY <1>6, <1>8, <1>11, <2>1, <2>2, <2>3
<1>13. /\ txn'.todo \in Seq(Tx) /\ Len(txn'.todo) = n - (k + 1) + 1
       /\ \A i \in 1..(n - (k + 1) + 1) : txn'.todo[i] = full[(k + 1) + i]
  <2>1. txn.todo # <<>>
      BY <1>1
  <2>2. /\ Tail(txn.todo) \in Seq(Tx) /\ Len(Tail(txn.todo)) = Len(txn.todo) - 1
        /\ \A i \in 1..Len(Tail(txn.todo)) : Tail(txn.todo)[i] = txn.todo[i + 1]
      BY <1>6, <2>1, HeadTailProperties
  <2>3. ASSUME NEW i \in 1..(n - (k + 1) + 1) PROVE Tail(txn.todo)[i] = full[(k + 1) + i]
    <3>1. /\ i \in 1..Len(Tail(txn.todo)) /\ i + 1 \in 1..(n - k + 1)
          /\ k + (i + 1) = (k + 1) + i
        BY <1>5, <1>6, <2>2
    <3> QED BY <1>6, <2>2, <3>1
  <2>4. n - k + 1 - 1 = n - (k + 1) + 1
      BY <1>5
  <2> QED BY <1>6, <1>10, <2>2, <2>3, <2>4
<1>14. txn'.fees = Total(FeeOf, SubSeq(block.txs, 1, k + 1))
  <2> DEFINE s == SubSeq(block.txs, 1, k)
  <2>1. s \in Seq(Valid) /\ Len(s) = k /\ \A i \in 1..k : s[i] = block.txs[i]
      BY <1>5, <1>7
  <2>2. SubSeq(block.txs, 1, k + 1) = Append(s, t)
    <3>1. /\ SubSeq(block.txs, 1, k + 1) \in Seq(Valid) /\ Len(SubSeq(block.txs, 1, k + 1)) = k + 1
          /\ \A i \in 1..(k + 1) : SubSeq(block.txs, 1, k + 1)[i] = block.txs[i]
        BY <1>5, <1>7
    <3> HIDE DEF s
    <3>2. /\ Append(s, t) \in Seq(Valid) /\ Len(Append(s, t)) = k + 1
          /\ \A i \in 1..k : Append(s, t)[i] = s[i]
          /\ Append(s, t)[k + 1] = t
        BY <1>8, <2>1
    <3>3. \A i \in 1..(k + 1) : SubSeq(block.txs, 1, k + 1)[i] = Append(s, t)[i]
        BY <1>8, <2>1, <3>1, <3>2
    <3> QED BY <3>1, <3>2, <3>3, SeqEqual
  <2>3. FeeOf \in [Valid -> Nat] /\ FeeOf[t] = Fee(t)
      BY <1>8, FeeWeight DEF FeeOf
  <2> HIDE DEF s
  <2>4. Total(FeeOf, Append(s, t)) = Total(FeeOf, s) + FeeOf[t]
      BY <1>8, <2>1, <2>3, TotalAppend
  <2> QED BY <1>6, <1>10, <2>2, <2>3, <2>4 DEF s
<1>15. ConnectedTo(db.chain, block, k + 1)'
  <2>1. k + 1 \in 0..n
      BY <1>7
  <2>2. \A h \in 1..Len(db.chain) : chain'[h] = db.chain[h]
    <3>1. Len(chain) - 1 = Len(db.chain)
      <4>1. Len(db.chain) \in Nat
          BY TypeParts, LenProperties DEF Inv, TypeConjuncts, TablesOK
      <4> QED BY <1>6, <4>1
    <3> QED BY <1>6, <1>11, <3>1
  <2> QED BY <1>6, <1>9, <1>11, <1>12, <1>13, <1>14, <2>1, <2>2 DEF ConnectedTo, full
<1>16. k + 1 \in Nat
    OBVIOUS
<1> QED BY <1>3, <1>9, <1>10, <1>15, <1>16 DEF MinedSound

\* Every step leaves the candidate and the block being connected what they are.
LEMMA MiningStep ==
    ASSUME Inv, MiningInv, [Next]_vars
    PROVE  MiningInv'
<1>1. /\ txn \in Txn /\ (txn = NoTxn => db = Committed)
      /\ NoTxn.op = "none" /\ NoJob = [held |-> FALSE]
      /\ Committed.chain = chain
    BY TypeParts DEF Inv, TypeConjuncts, SoundInv, TransactionSound, NoTxn, NoJob, Committed
<1>2. ASSUME txn'.op # "mined" PROVE MinedSound'
    BY <1>2 DEF MinedSound
<1>3. ASSUME job' = job \/ job' = NoJob PROVE JobSound'
    BY <1>3 DEF MiningInv, JobSound
<1>4. ASSUME txn' = txn, txn = NoTxn PROVE MinedSound'
    BY <1>1, <1>2, <1>4
<1>5. ASSUME NEW op, op # "mined", NEW phase, NEW ancestor, NEW count, NEW source,
             Begin(op, phase, ancestor, count, source)
      PROVE  MinedSound'
    BY <1>2, <1>5 DEF Begin, NoTxn
<1>6. ASSUME db' = db, txn'.op = txn.op, txn'.source = txn.source, txn'.phase # "body"
      PROVE  MinedSound'
    BY <1>6 DEF MiningInv, MinedSound
<1>7. CASE \/ \E t \in Regular : AddTransaction(t)
           \/ \E n \in PruneRetentions : Prune(n)
    BY <1>3, <1>4, <1>7 DEF AddTransaction, Prune, MiningInv
<1>8. CASE ConnectBlock \/ DisconnectTip
    BY <1>3, <1>5, <1>8 DEF ConnectBlock, DisconnectTip, MiningInv
<1>9. CASE \E ancestor \in 0..MaxHeight, count \in 1..MaxBranch : ReplaceFrom(ancestor, count)
    BY <1>3, <1>5, <1>9 DEF ReplaceFrom, MiningInv
<1>10. CASE \E count \in 0..MaxBranch, pending \in ImportedPending : ImportState(count, pending)
  <2>1. job' = job /\ txn'.op = "import"
      BY <1>10 DEF ImportState, NoTxn
  <2> QED BY <1>2, <1>3, <2>1 DEF MiningInv
<1>11. CASE CommitMinedBlock
  <2>1. job # NoJob /\ txn = NoTxn /\ job' = NoJob /\ db' = db
      BY <1>11 DEF CommitMinedBlock
  <2>2. CASE SameTip(job.tip)
    <3>1. Begin("mined", "header", Len(chain), 1, {job.block})
        BY <1>11, <2>2 DEF CommitMinedBlock
    <3>2. txn'.op = "mined" /\ txn'.phase = "header" /\ txn'.source = {job.block}
        BY <3>1 DEF Begin, NoTxn
    <3>3. Connects(db.chain, job.block)
        BY <1>1, <2>1, <2>2 DEF SameTip, MiningInv, JobSound
    <3>4. MinedSound'
        BY <2>1, <3>2, <3>3 DEF MinedSound
    <3> QED BY <1>3, <2>1, <3>4 DEF MiningInv
  <2>3. CASE ~SameTip(job.tip)
      BY <1>3, <1>4, <1>11, <2>1, <2>3 DEF CommitMinedBlock, MiningInv
  <2> QED BY <2>2, <2>3
<1>12. CASE DisconnectBlock
  <2>1. /\ db' = db /\ job' = job /\ txn.phase = "disconnect"
        /\ txn' = [txn EXCEPT !.orphans = CollectOrphans(@, RegularOf(chain[Len(chain)])),
                              !.phase = IF Len(chain) - 1 > txn.ancestor THEN @ ELSE "header"]
      BY <1>12 DEF DisconnectBlock
  <2>2. txn'.op = txn.op /\ txn'.source = txn.source /\ txn'.phase \in {"disconnect", "header"}
      BY <1>1, <2>1 DEF Txn
  <2> QED BY <1>3, <1>6, <2>1, <2>2 DEF MiningInv
<1>13. CASE InsertBlock
  <2>1. job' = job /\ txn'.op = txn.op
      BY <1>1, <1>13 DEF InsertBlock, Txn
  <2>2. MinedSound'
      BY <1>2, <1>13, <2>1, BodyBegins
  <2> QED BY <1>3, <2>1, <2>2 DEF MiningInv
<1>14. CASE ConnectTransaction
  <2>1. job' = job /\ txn'.op = txn.op
      BY <1>1, <1>14 DEF ConnectTransaction, Txn
  <2>2. MinedSound'
      BY <1>2, <1>14, <2>1, BodyProceeds
  <2> QED BY <1>3, <2>1, <2>2 DEF MiningInv
<1>15. CASE ConnectCoinbase \/ StartRebuild \/ Readmit
  <2>1. /\ db' = db /\ job' = job /\ txn'.op = txn.op /\ txn'.source = txn.source
        /\ txn'.phase \in {"header", "rebuild"}
    <3>1. CASE ConnectCoinbase BY <1>1, <3>1 DEF ConnectCoinbase, Txn
    <3>2. CASE StartRebuild BY <1>1, <3>2 DEF StartRebuild, Txn
    <3>3. CASE Readmit BY <1>1, <3>3 DEF Readmit, Txn
    <3> QED BY <1>15, <3>1, <3>2, <3>3
  <2> QED BY <1>3, <1>6, <2>1 DEF MiningInv
<1>16. CASE Commit \/ Rollback
  <2>1. job' = job /\ txn' = NoTxn
      BY <1>16 DEF Commit, Rollback
  <2> QED BY <1>1, <1>2, <1>3, <2>1 DEF MiningInv
<1>17. CASE BuildMiningCandidate
  <2>1. txn' = txn /\ txn = NoTxn
      BY <1>17 DEF BuildMiningCandidate
  <2> QED BY <1>4, <1>17, <2>1, CandidateConnects DEF MiningInv
<1>18. CASE AbandonJob \/ UNCHANGED vars
  <2>1. /\ UNCHANGED <<chain, db, txn>> /\ (job' = job \/ job' = NoJob)
      BY <1>18 DEF AbandonJob, vars, stored
  <2>2. \A block, k : ConnectedTo(db.chain, block, k)' <=> ConnectedTo(db.chain, block, k)
      BY <2>1 DEF ConnectedTo, BlockTxs
  <2>3. MinedSound'
      BY <2>1, <2>2 DEF MiningInv, MinedSound
  <2> QED BY <1>3, <2>1, <2>3 DEF MiningInv
<1> QED BY <1>7, <1>8, <1>9, <1>10, <1>11, <1>12, <1>13, <1>14, <1>15, <1>16, <1>17, <1>18,
           SMTT(30) DEF Next

\* What chain confirms, creates and spends when k transactions of the block are connected.
LEMMA BodyState ==
    ASSUME Inv, txn.phase = "body", NEW block, block.txs \in Seq(Valid), NEW k \in Nat,
           ConnectedTo(db.chain, block, k)
    PROVE  /\ chain \in Seq(Row) /\ WellFormed(chain) /\ utxo = Unspent(chain)
           /\ db.chain \in Seq(Row) /\ WellFormed(db.chain)
           /\ Len(chain) = Len(db.chain) + 1 /\ k \in 0..Len(block.txs)
           /\ \A t : t \in Confirmed(chain) <=>
                        t \in Confirmed(db.chain) \/ \E j \in 1..k : t = block.txs[j]
           /\ \A r : r \in CreatedIn(chain) <=>
                        \/ r \in CreatedIn(db.chain)
                        \/ \E j \in 1..k : r \in RecordsOf(block.txs[j], Len(chain))
           /\ \A out : out \in SpentIn(chain) <=>
                        out \in SpentIn(db.chain) \/ \E j \in 1..k : out \in InputsOf[block.txs[j]]
<1> DEFINE c == db.chain
           n == Len(c)
<1>1. txn # NoTxn
    BY DEF NoTxn
<1>2. /\ chain \in Seq(Row) /\ WellFormed(chain) /\ utxo = Unspent(chain)
      /\ c \in Seq(Row) /\ WellFormed(c) /\ n \in Nat
    BY <1>1, OpenFacts, TypeParts DEF Inv, TypeConjuncts, TablesOK, SoundInv, CommittedSound, TablesSound
<1>3. /\ Len(chain) = n + 1 /\ \A h \in 1..n : chain[h] = c[h]
      /\ BlockTxs(chain, n + 1) = {block.txs[j] : j \in 1..k} /\ k \in 0..Len(block.txs)
    BY DEF ConnectedTo
<1> HIDE DEF c, n
<1>4. \A h \in 1..n : /\ BlockTxs(chain, h) = BlockTxs(c, h)
                      /\ BlockInputs(chain, h) = BlockInputs(c, h)
                      /\ BlockRecords(chain, h) = BlockRecords(c, h)
    BY <1>2, <1>3, SamePrefix
<1>5. /\ \A x : x \in BlockTxs(chain, n + 1) <=> \E j \in 1..k : x = block.txs[j]
      /\ \A x : x \in BlockRecords(chain, n + 1) <=> \E j \in 1..k : x \in RecordsOf(block.txs[j], n + 1)
      /\ \A x : x \in BlockInputs(chain, n + 1) <=> \E j \in 1..k : x \in InputsOf[block.txs[j]]
    BY <1>3 DEF BlockRecords, BlockInputs
<1>6. \A h : h \in 1..Len(chain) <=> h \in 1..n \/ h = n + 1
    BY <1>2, <1>3
<1>7. n = Len(c)
    BY DEF n
<1>8. \A t : t \in Confirmed(chain) <=> t \in Confirmed(c) \/ t \in BlockTxs(chain, n + 1)
    BY <1>2, <1>4, <1>6, <1>7, ByHeight
<1>9. \A r : r \in CreatedIn(chain) <=> r \in CreatedIn(c) \/ r \in BlockRecords(chain, n + 1)
    BY <1>2, <1>4, <1>6, <1>7, ByHeight
<1>10. \A out : out \in SpentIn(chain) <=> out \in SpentIn(c) \/ out \in BlockInputs(chain, n + 1)
    BY <1>2, <1>4, <1>6, <1>7, ByHeight
<1> QED BY <1>2, <1>3, <1>5, <1>8, <1>9, <1>10 DEF c, n

\* The next transaction of the block passes the checks of connectBlock.
LEMMA NextConnects ==
    ASSUME Inv, txn.phase = "body", NEW block, Connects(db.chain, block), NEW k \in Nat,
           ConnectedTo(db.chain, block, k), k + 1 \in 1..Len(block.txs)
    PROVE  Connectable(block.txs[k + 1])
<1> DEFINE c == db.chain
           txs == block.txs
           t == txs[k + 1]
           tip == Len(chain)
<1>1. /\ chain \in Seq(Row) /\ WellFormed(chain) /\ utxo = Unspent(chain)
      /\ c \in Seq(Row) /\ WellFormed(c) /\ tip = Len(c) + 1
      /\ \A u : u \in Confirmed(chain) <=> u \in Confirmed(c) \/ \E j \in 1..k : u = txs[j]
      /\ \A r : r \in CreatedIn(chain) <=>
                   r \in CreatedIn(c) \/ \E j \in 1..k : r \in RecordsOf(txs[j], tip)
      /\ \A out : out \in SpentIn(chain) <=>
                     out \in SpentIn(c) \/ \E j \in 1..k : out \in InputsOf[txs[j]]
    BY BodyState DEF Connects
<1>2. txs \in Seq(Valid) /\ Chainable(c, txs)
    BY DEF Connects
<1>3. /\ t \in Valid /\ t \in Regular /\ ValidRegularTransaction(t)
      /\ \A j \in 1..k : txs[j] \in Regular /\ txs[j] \notin Confirmed(c)
    BY <1>2 DEF Chainable, Valid
<1>4. /\ t \notin Confirmed(c)
      /\ \A out \in InputsOf[t] :
            /\ \A j \in 1..k : out \notin InputsOf[txs[j]]
            /\ \/ \E j \in 1..k : out \in OutpointsOf(txs[j])
               \/ \E r \in Unspent(c) : r.out = out /\ MatureRecord(r, tip)
  <2>1. (k + 1) - 1 = k
      OBVIOUS
  <2>2. LET i == k + 1 IN
        /\ txs[i] \notin Confirmed(c)
        /\ \A out \in InputsOf[txs[i]] :
              /\ \A j \in 1..(i - 1) : out \notin InputsOf[txs[j]]
              /\ \/ \E j \in 1..(i - 1) : out \in OutpointsOf(txs[j])
                 \/ \E r \in Unspent(c) : r.out = out /\ MatureRecord(r, Len(c) + 1)
      BY <1>2 DEF Chainable
  <2> HIDE DEF c, txs
  <2> QED BY <1>1, <2>1, <2>2
<1> HIDE DEF c, txs, t, tip
<1>5. t \notin Confirmed(chain)
  <2> SUFFICES ASSUME NEW j \in 1..k, t = txs[j] PROVE FALSE
      BY <1>1, <1>4
  <2>1. PICK out \in InputsOf[t] : TRUE
      BY <1>3, TransactionAssumption
  <2> QED BY <1>4, <2>1
<1>6. ASSUME NEW out \in InputsOf[t] PROVE out \in Outs(utxo)
  <2>1. \A j \in 1..k : out \notin InputsOf[txs[j]]
      BY <1>4
  <2>2. CASE \E j \in 1..k : out \in OutpointsOf(txs[j])
    <3>1. PICK j \in 1..k : out \in OutpointsOf(txs[j])
        BY <2>2
    <3>2. out[1] = txs[j]
        BY <3>1 DEF OutpointsOf
    <3>3. out \notin SpentIn(c)
        BY <1>1, <1>3, <3>2, SpentIsConfirmed
    <3>4. PICK r \in RecordsOf(txs[j], tip) : r.out = out
      <4> DEFINE r == [out |-> out, height |-> tip, coinbase |-> txs[j] \in Coinbases]
      <4>1. r \in RecordsOf(txs[j], tip) /\ r.out = out
          BY <3>1 DEF RecordsOf
      <4> QED BY <4>1
    <3> QED BY <1>1, <2>1, <3>3, <3>4 DEF Unspent, Outs
  <2>3. CASE \E r \in Unspent(c) : r.out = out /\ MatureRecord(r, tip)
    <3>1. PICK r \in Unspent(c) : r.out = out
        BY <2>3
    <3>2. r \in CreatedIn(chain) /\ out \notin SpentIn(chain)
        BY <1>1, <2>1, <3>1 DEF Unspent
    <3> QED BY <1>1, <3>1, <3>2 DEF Unspent, Outs
  <2> QED BY <1>4, <2>2, <2>3
<1>7. ASSUME NEW r \in InputRecords(utxo, t) PROVE MatureRecord(r, tip)
  <2>1. r \in CreatedIn(chain) /\ r.out \notin SpentIn(chain) /\ r.out \in InputsOf[t]
      BY <1>1 DEF InputRecords, Unspent
  <2>2. CASE \E j \in 1..k : r \in RecordsOf(txs[j], tip)
    <3>1. PICK j \in 1..k : r \in RecordsOf(txs[j], tip)
        BY <2>2
    <3>2. r.coinbase = (txs[j] \in Coinbases) /\ txs[j] \notin Coinbases
        BY <1>3, <3>1, TransactionAssumption DEF RecordsOf
    <3> QED BY <3>2 DEF MatureRecord
  <2>3. CASE r \in CreatedIn(c)
    <3>1. r \in Unspent(c)
        BY <1>1, <2>1, <2>3 DEF Unspent
    <3>2. r.out[1] \in Confirmed(c)
        BY <1>1, <3>1, UnspentIsConfirmed
    <3>3. ~\E j \in 1..k : r.out \in OutpointsOf(txs[j])
        BY <1>3, <3>2 DEF OutpointsOf
    <3>4. PICK q \in Unspent(c) : q.out = r.out /\ MatureRecord(q, tip)
        BY <1>4, <2>1, <3>3
    <3>5. q = r
        BY <1>1, <3>1, <3>4, UnspentOnce
    <3> QED BY <3>4, <3>5
  <2> QED BY <1>1, <2>1, <2>2, <2>3
<1>8. OutpointsOf(t) \cap (Outs(utxo) \ InputsOf[t]) = {}
  <2> SUFFICES ASSUME NEW r \in utxo, r.out \in OutpointsOf(t) PROVE FALSE
      BY DEF Outs
  <2>1. r.out[1] \in Confirmed(chain) /\ r.out[1] = t
      BY <1>1, UnspentIsConfirmed DEF OutpointsOf
  <2> QED BY <1>5, <2>1
<1> QED BY <1>3, <1>5, <1>6, <1>7, <1>8 DEF Connectable, tip, t, txs

\* So does its coinbase, which claims what the connected transactions paid.
LEMMA CoinbaseConnects ==
    ASSUME Inv, txn.phase = "body", NEW block, Connects(db.chain, block), NEW k \in Nat,
           ConnectedTo(db.chain, block, k), k = Len(block.txs)
    PROVE  CoinbaseConnectable(block.coinbase)
<1> DEFINE c == block.coinbase
<1>1. /\ chain \in Seq(Row) /\ WellFormed(chain) /\ utxo = Unspent(chain)
      /\ Len(chain) = Len(db.chain) + 1
      /\ \A u : u \in Confirmed(chain) <=>
                   u \in Confirmed(db.chain) \/ \E j \in 1..k : u = block.txs[j]
    BY BodyState DEF Connects
<1>2. /\ c \in Coinbases /\ c \notin Confirmed(db.chain)
      /\ block.txs \in Seq(Valid)
      /\ OutputTotal(c) = Subsidy(Len(chain)) + Total(FeeOf, block.txs)
    BY <1>1 DEF Connects
<1>3. c \notin Confirmed(chain)
  <2> SUFFICES ASSUME NEW j \in 1..k, c = block.txs[j] PROVE FALSE
      BY <1>1, <1>2
  <2>1. block.txs[j] \in Regular
      BY <1>2 DEF Valid
  <2> QED BY <1>2, <2>1, TransactionAssumption
<1>4. txn.fees = Total(FeeOf, block.txs)
  <2>1. SubSeq(block.txs, 1, Len(block.txs)) = block.txs
      BY <1>2, SubSeqFull
  <2> QED BY <2>1 DEF ConnectedTo
<1>5. OutpointsOf(c) \cap Outs(utxo) = {}
  <2> SUFFICES ASSUME NEW r \in utxo, r.out \in OutpointsOf(c) PROVE FALSE
      BY DEF Outs
  <2>1. r.out[1] \in Confirmed(chain) /\ r.out[1] = c
      BY <1>1, UnspentIsConfirmed DEF OutpointsOf
  <2> QED BY <1>3, <2>1
<1> QED BY <1>2, <1>3, <1>4, <1>5 DEF CoinbaseConnectable, ValidCoinbase

\* Its size and number of transactions pass the checks of the header.
LEMMA LimitsHold ==
    ASSUME NEW c, NEW block, Connects(c, block) PROVE WithinBlockLimits(block)
<1>1. /\ block.txs \in Seq(Tx) /\ block.coinbase \in Tx /\ block.coinbase \in Coinbases
      /\ Len(block.txs) \in Nat /\ Append(block.txs, block.coinbase) \in Seq(Tx)
    BY FeeWeight DEF Connects, Tx
<1>2. /\ Bytes(Append(block.txs, block.coinbase)) = Total(SizeOf, block.txs) + SizeOf[block.coinbase]
      /\ Total(SizeOf, block.txs) \in Nat
    BY <1>1, BytesAre, TotalAppend, TotalNat, Weights
<1>3. SizeOf[block.coinbase] \in Nat /\ SizeOf[block.coinbase] <= CoinbaseReserve
    BY <1>1, Weights, PolicyAssumption
<1> QED BY <1>1, <1>2, <1>3, PolicyAssumption DEF WithinBlockLimits, Connects

\* A block mined on the current tip passes every check of connectBlock: what the
\* miner selects from the mempool, in the order it selects it, is a block.
THEOREM MinerBuildsBlocks == Spec => []MinedBlockConnects
<1>1. Init => MiningInv
    BY DEF Init, MiningInv, JobSound, MinedSound, NoTxn
<1>2. Inv /\ MiningInv /\ [Next]_vars => MiningInv'
    BY MiningStep
<1>3. Inv /\ MiningInv => MinedBlockConnects
  <2> SUFFICES ASSUME Inv, MiningInv, txn.op = "mined"
               PROVE  /\ txn.phase = "header" /\ txn.left > 0 =>
                            \A block \in txn.source : WithinBlockLimits(block)
                      /\ txn.phase = "body" /\ Len(txn.todo) > 1 => Connectable(Head(txn.todo))
                      /\ txn.phase = "body" /\ Len(txn.todo) = 1 => CoinbaseConnectable(Head(txn.todo))
      BY DEF MinedBlockConnects
  <2>1. PICK block : /\ txn.source = {block} /\ Connects(db.chain, block)
                     /\ txn.phase = "body" => \E k \in Nat : ConnectedTo(db.chain, block, k)
      BY DEF MiningInv, MinedSound
  <2>2. \A b \in txn.source : WithinBlockLimits(b)
      BY <2>1, LimitsHold
  <2>3. ASSUME txn.phase = "body", Len(txn.todo) >= 1
        PROVE  /\ Len(txn.todo) > 1 => Connectable(Head(txn.todo))
               /\ Len(txn.todo) = 1 => CoinbaseConnectable(Head(txn.todo))
    <3> DEFINE n == Len(block.txs)
               full == Append(block.txs, block.coinbase)
    <3>1. PICK k \in Nat : ConnectedTo(db.chain, block, k)
        BY <2>1, <2>3
    <3>2. /\ block.txs \in Seq(Tx) /\ block.coinbase \in Tx /\ n \in Nat
          /\ \A i \in 1..n : full[i] = block.txs[i]
          /\ full[n + 1] = block.coinbase
        BY <2>1, FeeWeight DEF Connects, Tx
    <3>3. /\ txn.todo \in Seq(Tx) /\ Len(txn.todo) = n - k + 1
          /\ \A i \in 1..(n - k + 1) : txn.todo[i] = full[k + i]
        BY <3>1 DEF ConnectedTo
    <3> HIDE DEF full
    <3>4. Head(txn.todo) = full[k + 1] /\ k \in 0..n
        BY <2>3, <3>2, <3>3
    <3>5. CASE Len(txn.todo) > 1
      <4>1. k + 1 \in 1..n /\ Len(txn.todo) # 1
          BY <3>2, <3>3, <3>5
      <4> QED BY <2>1, <2>3, <3>1, <3>2, <3>4, <4>1, NextConnects
    <3>6. CASE Len(txn.todo) = 1
      <4>1. k = n
        <5>1. n - k + 1 = 1 /\ n \in Nat /\ k \in Nat
            BY <3>2, <3>3, <3>6
        <5> HIDE DEF n
        <5> QED BY <5>1
      <4> QED BY <2>1, <2>3, <3>1, <3>2, <3>4, <3>6, <4>1, CoinbaseConnects
    <3> QED BY <2>3, <3>5, <3>6
  <2> QED BY <2>2, <2>3
<1> QED BY <1>1, <1>2, <1>3, InvHolds, PTL DEF Spec
=============================================================================
