---------------------------- MODULE ChainProofs ----------------------------
(***************************************************************************)
(* Lemmas about module Chains: what a chain confirms, creates, spends and  *)
(* leaves unspent when a block is added, a transaction is indexed in the   *)
(* block at the tip, or the tip is removed; and what the amounts of a set  *)
(* of outpoints add up to.                                                 *)
(***************************************************************************)
EXTENDS Chains, SequenceTheorems, FiniteSetTheorems, TLAPS

BlockTxs(c, h) == Range(c[h].txs)

BlockInputs(c, h) == UNION {InputsOf[t] : t \in BlockTxs(c, h)}

BlockOutputs(c, h) == UNION {OutpointsOf(t) : t \in BlockTxs(c, h)}

BlockRecords(c, h) == UNION {RecordsOf(t, h) : t \in BlockTxs(c, h)}

CreatedThrough(c, h) == UNION {BlockRecords(c, g) : g \in 1..h}

\* The rows a block at height h spends: they are created at or below it.
BlockSpends(c, h) == {r \in CreatedThrough(c, h) : r.out \in BlockInputs(c, h)}

(***************************************************************************)
(* A chain that connectBlock could have built: no transaction is in two    *)
(* blocks, no output is spent by two blocks, and what a block spends was   *)
(* created at or below it.                                                 *)
(***************************************************************************)
WellFormed(c) ==
    /\ \A g, h \in 1..Len(c) : g # h => BlockTxs(c, g) \cap BlockTxs(c, h) = {}
    /\ \A g, h \in 1..Len(c) : g # h => BlockInputs(c, g) \cap BlockInputs(c, h) = {}
    /\ \A h \in 1..Len(c) : \A out \in BlockInputs(c, h) :
          \E g \in 1..h : out[1] \in BlockTxs(c, g)

-----------------------------------------------------------------------------
(* What a chain contains, block by block.                                  *)

\* The operators of Chains range over the heights of the chain.
LEMMA ByHeight ==
    ASSUME NEW c \in Seq(Row)
    PROVE  /\ \A t : t \in Confirmed(c) <=> \E h \in 1..Len(c) : t \in BlockTxs(c, h)
           /\ \A r : r \in CreatedIn(c) <=> \E h \in 1..Len(c) : r \in BlockRecords(c, h)
           /\ \A out : out \in SpentIn(c) <=> \E h \in 1..Len(c) : out \in BlockInputs(c, h)
           /\ CreatedIn(c) = CreatedThrough(c, Len(c))
<1>1. DOMAIN c = 1..Len(c)
    BY LenProperties
<1>2. \A t : t \in Confirmed(c) <=> \E h \in 1..Len(c) : t \in BlockTxs(c, h)
    BY <1>1 DEF Confirmed, BlockTxs
<1>3. CreatedIn(c) = CreatedThrough(c, Len(c))
    BY <1>1 DEF CreatedIn, CreatedThrough, BlockRecords, BlockTxs
<1>4. \A r : r \in CreatedIn(c) <=> \E h \in 1..Len(c) : r \in BlockRecords(c, h)
    BY <1>3 DEF CreatedThrough
<1>5. \A out : out \in SpentIn(c) <=> \E h \in 1..Len(c) : out \in BlockInputs(c, h)
    BY <1>2 DEF SpentIn, BlockInputs
<1> QED BY <1>2, <1>3, <1>4, <1>5

\* Chains that agree up to a height agree on what lies there.
LEMMA SamePrefix ==
    ASSUME NEW c, NEW d, NEW n \in Nat, \A h \in 1..n : c[h] = d[h]
    PROVE  \A h \in 1..n : /\ BlockTxs(c, h) = BlockTxs(d, h)
                           /\ BlockInputs(c, h) = BlockInputs(d, h)
                           /\ BlockOutputs(c, h) = BlockOutputs(d, h)
                           /\ BlockRecords(c, h) = BlockRecords(d, h)
                           /\ CreatedThrough(c, h) = CreatedThrough(d, h)
                           /\ BlockSpends(c, h) = BlockSpends(d, h)
<1> SUFFICES ASSUME NEW h \in 1..n
             PROVE  /\ BlockTxs(c, h) = BlockTxs(d, h)
                    /\ BlockInputs(c, h) = BlockInputs(d, h)
                    /\ BlockOutputs(c, h) = BlockOutputs(d, h)
                    /\ BlockRecords(c, h) = BlockRecords(d, h)
                    /\ CreatedThrough(c, h) = CreatedThrough(d, h)
                    /\ BlockSpends(c, h) = BlockSpends(d, h)
    OBVIOUS
<1>1. \A g \in 1..n : BlockTxs(c, g) = BlockTxs(d, g)
    BY DEF BlockTxs
<1>2. /\ BlockInputs(c, h) = BlockInputs(d, h)
      /\ BlockOutputs(c, h) = BlockOutputs(d, h)
    BY <1>1 DEF BlockInputs, BlockOutputs
<1>3. \A g \in 1..n : BlockRecords(c, g) = BlockRecords(d, g)
    BY <1>1 DEF BlockRecords
<1>4. \A g \in 1..h : g \in 1..n
    OBVIOUS
<1>5. CreatedThrough(c, h) = CreatedThrough(d, h)
    BY <1>3, <1>4, Zenon DEF CreatedThrough
<1> QED BY <1>1, <1>2, <1>3, <1>5 DEF BlockSpends

\* The creator of an output is part of its name.
LEMMA RecordsName ==
    ASSUME NEW c, NEW h, NEW r \in BlockRecords(c, h)
    PROVE  /\ r.out[1] \in BlockTxs(c, h)
           /\ r.out \in BlockOutputs(c, h)
BY DEF BlockRecords, RecordsOf, BlockOutputs, OutpointsOf

\* What is spent was created by a confirmed transaction.
LEMMA SpentIsConfirmed ==
    ASSUME NEW c \in Seq(Row), WellFormed(c), NEW out \in SpentIn(c)
    PROVE  out[1] \in Confirmed(c)
<1>1. PICK h \in 1..Len(c) : out \in BlockInputs(c, h)
    BY ByHeight
<1>2. PICK g \in 1..h : out[1] \in BlockTxs(c, g)
    BY <1>1 DEF WellFormed
<1>3. g \in 1..Len(c)
    BY LenProperties
<1> QED BY <1>2, <1>3, ByHeight

\* A row of the unspent outputs is named by a confirmed transaction.
LEMMA UnspentIsConfirmed ==
    ASSUME NEW c \in Seq(Row), NEW r \in Unspent(c)
    PROVE  r.out[1] \in Confirmed(c)
<1>1. PICK h \in 1..Len(c) : r \in BlockRecords(c, h)
    BY ByHeight DEF Unspent
<1> QED BY <1>1, RecordsName, ByHeight

\* An output has one row, of a height of the chain.
LEMMA UnspentOnce ==
    ASSUME NEW c \in Seq(Row), WellFormed(c), NEW r \in Unspent(c)
    PROVE  /\ r.height \in 1..Len(c)
           /\ \A q \in Unspent(c) : q.out = r.out => q = r
<1>1. ASSUME NEW q \in Unspent(c)
      PROVE  \E h \in 1..Len(c) : \E t \in BlockTxs(c, h) :
                q = [out |-> q.out, height |-> h, coinbase |-> t \in Coinbases] /\ q.out[1] = t
  <2>1. PICK h \in 1..Len(c) : q \in BlockRecords(c, h)
      BY ByHeight DEF Unspent
  <2>2. PICK t \in BlockTxs(c, h) : q \in RecordsOf(t, h)
      BY <2>1 DEF BlockRecords
  <2> QED BY <2>2 DEF RecordsOf, OutpointsOf
<1>2. PICK h \in 1..Len(c) : \E t \in BlockTxs(c, h) :
         r = [out |-> r.out, height |-> h, coinbase |-> t \in Coinbases] /\ r.out[1] = t
    BY <1>1
<1>3. PICK t \in BlockTxs(c, h) :
         r = [out |-> r.out, height |-> h, coinbase |-> t \in Coinbases] /\ r.out[1] = t
    BY <1>2
<1>4. ASSUME NEW q \in Unspent(c), q.out = r.out PROVE q = r
  <2>1. PICK g \in 1..Len(c) : \E u \in BlockTxs(c, g) :
           q = [out |-> q.out, height |-> g, coinbase |-> u \in Coinbases] /\ q.out[1] = u
      BY <1>1
  <2>2. PICK u \in BlockTxs(c, g) :
           q = [out |-> q.out, height |-> g, coinbase |-> u \in Coinbases] /\ q.out[1] = u
      BY <2>1
  <2>3. u = t
      BY <1>3, <1>4, <2>2
  <2>4. g = h
      BY <2>3 DEF WellFormed
  <2> QED BY <1>3, <1>4, <2>2, <2>3, <2>4
<1>5. r.height = h
    BY <1>3
<1> QED BY <1>4, <1>5

-----------------------------------------------------------------------------
(* The block at the tip and the chain below it.                            *)

\* What a chain contains is what the chain below its tip contains, and what
\* the block at the tip adds.
LEMMA TipAdds ==
    ASSUME NEW b \in Seq(Row), NEW c \in Seq(Row), Len(c) = Len(b) + 1,
           \A h \in 1..Len(b) : c[h] = b[h]
    PROVE  /\ Confirmed(c) = Confirmed(b) \cup BlockTxs(c, Len(c))
           /\ CreatedIn(c) = CreatedIn(b) \cup BlockRecords(c, Len(c))
           /\ SpentIn(c) = SpentIn(b) \cup BlockInputs(c, Len(c))
<1>1. /\ Len(b) \in Nat
      /\ \A h : h \in 1..Len(c) <=> h \in 1..Len(b) \/ h = Len(c)
    BY LenProperties
<1>2. \A h \in 1..Len(b) : /\ BlockTxs(c, h) = BlockTxs(b, h)
                           /\ BlockInputs(c, h) = BlockInputs(b, h)
                           /\ BlockRecords(c, h) = BlockRecords(b, h)
    BY <1>1, SamePrefix
<1>3. /\ \A t : t \in Confirmed(b) <=> \E h \in 1..Len(b) : t \in BlockTxs(b, h)
      /\ \A r : r \in CreatedIn(b) <=> \E h \in 1..Len(b) : r \in BlockRecords(b, h)
      /\ \A out : out \in SpentIn(b) <=> \E h \in 1..Len(b) : out \in BlockInputs(b, h)
    BY ByHeight
<1>4. /\ \A t : t \in Confirmed(c) <=> \E h \in 1..Len(c) : t \in BlockTxs(c, h)
      /\ \A r : r \in CreatedIn(c) <=> \E h \in 1..Len(c) : r \in BlockRecords(c, h)
      /\ \A out : out \in SpentIn(c) <=> \E h \in 1..Len(c) : out \in BlockInputs(c, h)
    BY ByHeight
<1>5. \A t : t \in Confirmed(c) <=> t \in Confirmed(b) \/ t \in BlockTxs(c, Len(c))
    BY <1>1, <1>2, <1>3, <1>4, Zenon
<1>6. \A r : r \in CreatedIn(c) <=> r \in CreatedIn(b) \/ r \in BlockRecords(c, Len(c))
    BY <1>1, <1>2, <1>3, <1>4, Zenon
<1>7. \A out : out \in SpentIn(c) <=> out \in SpentIn(b) \/ out \in BlockInputs(c, Len(c))
    BY <1>1, <1>2, <1>3, <1>4, Zenon
<1> QED BY <1>5, <1>6, <1>7

\* A chain is well formed when the chain below its tip is, and the block at
\* the tip confirms new transactions, which spend what nobody below spent.
LEMMA WellFormedTip ==
    ASSUME NEW b \in Seq(Row), NEW c \in Seq(Row), Len(c) = Len(b) + 1,
           \A h \in 1..Len(b) : c[h] = b[h]
    PROVE  WellFormed(c) <=>
              /\ WellFormed(b)
              /\ BlockTxs(c, Len(c)) \cap Confirmed(b) = {}
              /\ BlockInputs(c, Len(c)) \cap SpentIn(b) = {}
              /\ \A out \in BlockInputs(c, Len(c)) : out[1] \in Confirmed(c)
<1> DEFINE n == Len(c)
<1>1. /\ Len(b) \in Nat
      /\ \A h : h \in 1..n <=> h \in 1..Len(b) \/ h = n
      /\ n \notin 1..Len(b)
      /\ \A h \in 1..Len(b) : \A g \in 1..h : g \in 1..Len(b)
    BY LenProperties
<1>2. \A h \in 1..Len(b) : /\ BlockTxs(c, h) = BlockTxs(b, h)
                           /\ BlockInputs(c, h) = BlockInputs(b, h)
    BY <1>1, SamePrefix, SMTT(30)
<1>3. /\ \A t : t \in Confirmed(b) <=> \E h \in 1..Len(b) : t \in BlockTxs(b, h)
      /\ \A out : out \in SpentIn(b) <=> \E h \in 1..Len(b) : out \in BlockInputs(b, h)
    BY ByHeight
<1>4. \A t : t \in Confirmed(c) <=> \E h \in 1..n : t \in BlockTxs(c, h)
    BY ByHeight
<1> HIDE DEF n
<1>5. (\A g, h \in 1..n : g # h => BlockTxs(c, g) \cap BlockTxs(c, h) = {}) <=>
         /\ \A g, h \in 1..Len(b) : g # h => BlockTxs(b, g) \cap BlockTxs(b, h) = {}
         /\ BlockTxs(c, n) \cap Confirmed(b) = {}
    BY <1>1, <1>2, <1>3
<1>6. (\A g, h \in 1..n : g # h => BlockInputs(c, g) \cap BlockInputs(c, h) = {}) <=>
         /\ \A g, h \in 1..Len(b) : g # h => BlockInputs(b, g) \cap BlockInputs(b, h) = {}
         /\ BlockInputs(c, n) \cap SpentIn(b) = {}
    BY <1>1, <1>2, <1>3
<1>7. (\A h \in 1..n : \A out \in BlockInputs(c, h) : \E g \in 1..h : out[1] \in BlockTxs(c, g)) <=>
         /\ \A h \in 1..Len(b) : \A out \in BlockInputs(b, h) :
                \E g \in 1..h : out[1] \in BlockTxs(b, g)
         /\ \A out \in BlockInputs(c, n) : out[1] \in Confirmed(c)
    BY <1>1, <1>2, <1>4
<1> QED BY <1>5, <1>6, <1>7 DEF WellFormed, n

\* The chain below the tip.
LEMMA BelowTip ==
    ASSUME NEW c \in Seq(Row), c # <<>>
    PROVE  LET b == SubSeq(c, 1, Len(c) - 1)
           IN  /\ b \in Seq(Row) /\ Len(c) \in Nat \ {0} /\ Len(b) = Len(c) - 1
               /\ \A h \in 1..Len(b) : c[h] = b[h]
<1>1. Len(c) \in Nat \ {0}
    BY EmptySeq
<1>2. \A i \in 1..(Len(c) - 1) : c[i] \in Row
    BY <1>1, ElementOfSeq
<1> DEFINE b == SubSeq(c, 1, Len(c) - 1)
<1>3. /\ b \in Seq(Row)
      /\ Len(b) = IF 1 <= Len(c) - 1 THEN Len(c) - 1 - 1 + 1 ELSE 0
      /\ \A i \in 1..(Len(c) - 1 - 1 + 1) : b[i] = c[1 + i - 1]
    BY <1>1, <1>2, SubSeqProperties
<1> HIDE DEF b
<1>4. Len(b) = Len(c) - 1
  <2>1. \A m \in Nat \ {0} : (IF 1 <= m - 1 THEN m - 1 - 1 + 1 ELSE 0) = m - 1
      BY SMT
  <2> QED BY <1>1, <1>3, <2>1, Zenon
<1>5. ASSUME NEW h \in 1..Len(b) PROVE c[h] = b[h]
  <2>1. h \in 1..(Len(c) - 1 - 1 + 1) /\ 1 + h - 1 = h
      BY <1>1, <1>4
  <2> QED BY <1>3, <2>1, Zenon
<1> QED BY <1>1, <1>3, <1>4, <1>5 DEF b

\* The rows that the block at the tip spends, among all that were created.
LEMMA TipSpends ==
    ASSUME NEW c \in Seq(Row)
    PROVE  BlockSpends(c, Len(c)) = {r \in CreatedIn(c) : r.out \in BlockInputs(c, Len(c))}
BY ByHeight DEF BlockSpends

-----------------------------------------------------------------------------
(* The three ways a chain changes.                                         *)

\* A block with no transactions yet changes nothing.
LEMMA EmptyTip ==
    ASSUME NEW b \in Seq(Row), NEW c \in Seq(Row), Len(c) = Len(b) + 1,
           \A h \in 1..Len(b) : c[h] = b[h],
           BlockTxs(c, Len(c)) = {}, WellFormed(b)
    PROVE  /\ BlockOutputs(c, Len(c)) = {} /\ BlockSpends(c, Len(c)) = {}
           /\ Unspent(c) = Unspent(b)
           /\ WellFormed(c)
<1>1. /\ BlockInputs(c, Len(c)) = {} /\ BlockOutputs(c, Len(c)) = {}
      /\ BlockRecords(c, Len(c)) = {}
    BY DEF BlockInputs, BlockOutputs, BlockRecords
<1>2. BlockSpends(c, Len(c)) = {}
    BY <1>1 DEF BlockSpends
<1>3. /\ CreatedIn(c) = CreatedIn(b) \cup BlockRecords(c, Len(c))
      /\ SpentIn(c) = SpentIn(b) \cup BlockInputs(c, Len(c))
    BY TipAdds
<1>4. Unspent(c) = Unspent(b)
    BY <1>1, <1>3 DEF Unspent
<1>5. WellFormed(c)
    BY <1>1, WellFormedTip
<1> QED BY <1>1, <1>2, <1>4, <1>5

\* Inserting the row of a block.
LEMMA AddRow ==
    ASSUME NEW c \in Seq(Row), WellFormed(c), NEW w \in Nat, NEW d,
           d = WithRow(c, w)
    PROVE  /\ d \in Seq(Row) /\ Len(d) = Len(c) + 1 /\ TotalWork(d) = w /\ d # <<>>
           /\ \A h \in 1..Len(c) : d[h] = c[h]
           /\ BlockOutputs(d, Len(d)) = {} /\ BlockSpends(d, Len(d)) = {}
           /\ Unspent(d) = Unspent(c)
           /\ WellFormed(d)
<1>1. /\ d \in Seq(Row) /\ Len(d) = Len(c) + 1 /\ d # <<>>
      /\ \A h \in 1..Len(c) : d[h] = c[h]
      /\ d[Len(c) + 1] = [txs |-> <<>>, work |-> w]
  <2>1. [txs |-> <<>>, work |-> w] \in Row
      BY DEF Row
  <2> QED BY <2>1, AppendProperties DEF WithRow
<1>2. BlockTxs(d, Len(d)) = {}
    BY <1>1 DEF BlockTxs, Range
<1>3. TotalWork(d) = w
    BY <1>1 DEF TotalWork
<1>4. /\ BlockOutputs(d, Len(d)) = {} /\ BlockSpends(d, Len(d)) = {}
      /\ Unspent(d) = Unspent(c)
      /\ WellFormed(d)
    BY <1>1, <1>2, EmptyTip
<1> QED BY <1>1, <1>3, <1>4

\* The row of the tip after a transaction is indexed in it.
LEMMA IndexRow ==
    ASSUME NEW c \in Seq(Row), c # <<>>, NEW t \in Tx, NEW d,
           d = Indexed(c, t)
    PROVE  /\ d \in Seq(Row) /\ Len(d) = Len(c) /\ TotalWork(d) = TotalWork(c) /\ d # <<>>
           /\ \A h \in 1..(Len(c) - 1) : d[h] = c[h]
           /\ BlockTxs(d, Len(c)) = BlockTxs(c, Len(c)) \cup {t}
<1> DEFINE n == Len(c)
           row == [c[n] EXCEPT !.txs = Append(@, t)]
<1>1. n \in Nat /\ n > 0 /\ n \in 1..n /\ c[n] \in Row
    BY EmptySeq, ElementOfSeq
<1>2. c[n].txs \in Seq(Tx)
    BY <1>1 DEF Row
<1>3. /\ Append(c[n].txs, t) \in Seq(Tx)
      /\ Len(Append(c[n].txs, t)) = Len(c[n].txs) + 1
      /\ \A i \in 1..Len(c[n].txs) : Append(c[n].txs, t)[i] = c[n].txs[i]
      /\ Append(c[n].txs, t)[Len(c[n].txs) + 1] = t
    BY <1>2, AppendProperties
<1>4. row \in Row /\ row.txs = Append(c[n].txs, t) /\ row.work = c[n].work
    BY <1>1, <1>3 DEF Row
<1>5. d = [c EXCEPT ![n] = row]
    BY DEF Indexed
<1>6. /\ d \in Seq(Row) /\ Len(d) = n
      /\ \A h \in 1..n : d[h] = IF h = n THEN row ELSE c[h]
  <2> HIDE DEF row
  <2>1. /\ [c EXCEPT ![n] = row] \in Seq(Row)
        /\ Len([c EXCEPT ![n] = row]) = n
        /\ \A h \in 1..n : [c EXCEPT ![n] = row][h] = IF h = n THEN row ELSE c[h]
      BY <1>1, <1>4, ExceptSeq
  <2> QED BY <1>5, <2>1
<1> HIDE DEF row
<1>7. d[n] = row /\ d # <<>> /\ \A h \in 1..(n - 1) : d[h] = c[h]
    BY <1>1, <1>6
<1>8. TotalWork(d) = TotalWork(c)
    BY <1>4, <1>6, <1>7 DEF TotalWork
<1>9. Range(Append(c[n].txs, t)) = Range(c[n].txs) \cup {t}
  <2> DEFINE s == c[n].txs
             k == Len(s)
             e == Append(s, t)
  <2>1. k \in Nat /\ Range(s) = {s[i] : i \in 1..k}
      BY <1>2, RangeEquality, LenProperties
  <2>2. Range(e) = {e[i] : i \in 1..(k + 1)}
      BY <1>3, RangeEquality
  <2>3. \A i : i \in 1..(k + 1) <=> i \in 1..k \/ i = k + 1
      BY <2>1
  <2>4. (\A i \in 1..k : e[i] = s[i]) /\ e[k + 1] = t
      BY <1>3
  <2> HIDE DEF k, e, s
  <2>5. \A x : x \in Range(e) <=> x \in Range(s) \/ x = t
      BY <2>1, <2>2, <2>3, <2>4
  <2> QED BY <2>5 DEF e, s
<1> QED BY <1>4, <1>6, <1>7, <1>8, <1>9 DEF BlockTxs

(***************************************************************************)
(* Two chains over the same chain b, of which d has one more transaction   *)
(* in the block at the tip than c: a new one, whose inputs are unspent.    *)
(***************************************************************************)
LEMMA GrowTip ==
    ASSUME NEW b \in Seq(Row), NEW c \in Seq(Row), NEW d \in Seq(Row),
           Len(c) = Len(b) + 1, Len(d) = Len(b) + 1,
           \A h \in 1..Len(b) : c[h] = b[h], \A h \in 1..Len(b) : d[h] = b[h],
           NEW t, BlockTxs(d, Len(d)) = BlockTxs(c, Len(c)) \cup {t},
           WellFormed(c), t \notin Confirmed(c), InputsOf[t] \subseteq Outs(Unspent(c))
    PROVE  /\ BlockOutputs(d, Len(d)) = BlockOutputs(c, Len(c)) \cup OutpointsOf(t)
           /\ BlockSpends(d, Len(d)) = BlockSpends(c, Len(c)) \cup InputRecords(Unspent(c), t)
           /\ Unspent(d) = (Unspent(c) \ InputRecords(Unspent(c), t)) \cup RecordsOf(t, Len(c))
           /\ WellFormed(d)
<1>1. /\ BlockInputs(d, Len(d)) = BlockInputs(c, Len(c)) \cup InputsOf[t]
      /\ BlockOutputs(d, Len(d)) = BlockOutputs(c, Len(c)) \cup OutpointsOf(t)
      /\ BlockRecords(d, Len(d)) = BlockRecords(c, Len(c)) \cup RecordsOf(t, Len(c))
    BY DEF BlockInputs, BlockOutputs, BlockRecords
<1>2. /\ Confirmed(c) = Confirmed(b) \cup BlockTxs(c, Len(c))
      /\ CreatedIn(c) = CreatedIn(b) \cup BlockRecords(c, Len(c))
      /\ SpentIn(c) = SpentIn(b) \cup BlockInputs(c, Len(c))
    BY TipAdds
<1>3. /\ Confirmed(d) = Confirmed(b) \cup BlockTxs(d, Len(d))
      /\ CreatedIn(d) = CreatedIn(b) \cup BlockRecords(d, Len(d))
      /\ SpentIn(d) = SpentIn(b) \cup BlockInputs(d, Len(d))
    BY TipAdds
<1>4. /\ Confirmed(d) = Confirmed(c) \cup {t}
      /\ CreatedIn(d) = CreatedIn(c) \cup RecordsOf(t, Len(c))
      /\ SpentIn(d) = SpentIn(c) \cup InputsOf[t]
    BY <1>1, <1>2, <1>3
<1>5. \A out \in InputsOf[t] : out \notin SpentIn(c) /\ out[1] \in Confirmed(c)
  <2> SUFFICES ASSUME NEW out \in InputsOf[t]
               PROVE  out \notin SpentIn(c) /\ out[1] \in Confirmed(c)
      OBVIOUS
  <2>1. PICK r \in Unspent(c) : out = r.out
      BY DEF Outs
  <2>2. out[1] \in Confirmed(c)
      BY <2>1, UnspentIsConfirmed
  <2> QED BY <2>1, <2>2 DEF Unspent
<1>6. \A r \in RecordsOf(t, Len(c)) : r.out[1] = t
    BY DEF RecordsOf, OutpointsOf
<1>7. \A r \in RecordsOf(t, Len(c)) : r.out \notin SpentIn(d)
    BY <1>4, <1>5, <1>6, SpentIsConfirmed
<1>8. WellFormed(d)
  <2>1. /\ WellFormed(b)
        /\ BlockTxs(c, Len(c)) \cap Confirmed(b) = {}
        /\ BlockInputs(c, Len(c)) \cap SpentIn(b) = {}
        /\ \A out \in BlockInputs(c, Len(c)) : out[1] \in Confirmed(c)
      BY WellFormedTip
  <2>2. BlockTxs(d, Len(d)) \cap Confirmed(b) = {}
      BY <1>2, <2>1
  <2>3. BlockInputs(d, Len(d)) \cap SpentIn(b) = {}
      BY <1>1, <1>2, <1>5, <2>1
  <2>4. \A out \in BlockInputs(d, Len(d)) : out[1] \in Confirmed(d)
      BY <1>1, <1>4, <1>5, <2>1
  <2> QED BY <2>1, <2>2, <2>3, <2>4, WellFormedTip
<1>9. Unspent(d) = (Unspent(c) \ InputRecords(Unspent(c), t)) \cup RecordsOf(t, Len(c))
    BY <1>4, <1>7 DEF Unspent, InputRecords
<1>10. BlockSpends(d, Len(d)) = BlockSpends(c, Len(c)) \cup InputRecords(Unspent(c), t)
  <2>1. BlockSpends(d, Len(d)) = {r \in CreatedIn(d) : r.out \in BlockInputs(d, Len(d))}
      BY TipSpends
  <2>2. BlockSpends(c, Len(c)) = {r \in CreatedIn(c) : r.out \in BlockInputs(c, Len(c))}
      BY TipSpends
  <2>3. InputRecords(Unspent(c), t) = {r \in CreatedIn(c) : r.out \in InputsOf[t]}
      BY <1>5 DEF InputRecords, Unspent
  <2>4. \A r \in RecordsOf(t, Len(c)) : r.out \notin BlockInputs(d, Len(d))
      BY <1>3, <1>7
  <2> QED BY <1>1, <1>4, <2>1, <2>2, <2>3, <2>4
<1> QED BY <1>1, <1>8, <1>9, <1>10

\* Indexing a new transaction, whose inputs are unspent, in the block at the
\* tip.
LEMMA IndexTx ==
    ASSUME NEW c \in Seq(Row), c # <<>>, NEW t \in Tx, NEW d,
           d = Indexed(c, t),
           WellFormed(c), t \notin Confirmed(c), InputsOf[t] \subseteq Outs(Unspent(c))
    PROVE  /\ d \in Seq(Row) /\ Len(d) = Len(c) /\ TotalWork(d) = TotalWork(c) /\ d # <<>>
           /\ \A h \in 1..(Len(c) - 1) : d[h] = c[h]
           /\ BlockOutputs(d, Len(d)) = BlockOutputs(c, Len(c)) \cup OutpointsOf(t)
           /\ BlockSpends(d, Len(d)) = BlockSpends(c, Len(c)) \cup InputRecords(Unspent(c), t)
           /\ Unspent(d) = (Unspent(c) \ InputRecords(Unspent(c), t)) \cup RecordsOf(t, Len(c))
           /\ WellFormed(d)
<1> DEFINE b == SubSeq(c, 1, Len(c) - 1)
<1>1. /\ d \in Seq(Row) /\ Len(d) = Len(c) /\ TotalWork(d) = TotalWork(c) /\ d # <<>>
      /\ \A h \in 1..(Len(c) - 1) : d[h] = c[h]
      /\ BlockTxs(d, Len(c)) = BlockTxs(c, Len(c)) \cup {t}
    BY IndexRow
<1>2. /\ b \in Seq(Row) /\ Len(c) \in Nat \ {0} /\ Len(b) = Len(c) - 1
      /\ \A h \in 1..Len(b) : c[h] = b[h]
    BY BelowTip
<1> HIDE DEF b
<1>3. /\ Len(c) = Len(b) + 1 /\ Len(d) = Len(b) + 1
      /\ \A h \in 1..Len(b) : d[h] = b[h]
    BY <1>1, <1>2
<1>4. BlockTxs(d, Len(d)) = BlockTxs(c, Len(c)) \cup {t}
    BY <1>1
<1>5. /\ BlockOutputs(d, Len(d)) = BlockOutputs(c, Len(c)) \cup OutpointsOf(t)
      /\ BlockSpends(d, Len(d)) = BlockSpends(c, Len(c)) \cup InputRecords(Unspent(c), t)
      /\ Unspent(d) = (Unspent(c) \ InputRecords(Unspent(c), t)) \cup RecordsOf(t, Len(c))
      /\ WellFormed(d)
    BY <1>1, <1>2, <1>3, <1>4, GrowTip, SMTT(30)
<1> QED BY <1>1, <1>5

(***************************************************************************)
(* Removing the tip: with what its block created deleted, and what it had  *)
(* spent restored except its own outputs, the chain below it is what the   *)
(* unspent outputs describe again.                                         *)
(***************************************************************************)
LEMMA DropTip ==
    ASSUME NEW c \in Seq(Row), c # <<>>, WellFormed(c), NEW b, b = SubSeq(c, 1, Len(c) - 1)
    PROVE  /\ b \in Seq(Row) /\ Len(b) = Len(c) - 1
           /\ \A h \in 1..Len(b) : b[h] = c[h]
           /\ Unspent(b) = {r \in Unspent(c) : r.out \notin BlockOutputs(c, Len(c))} \cup
                             {r \in BlockSpends(c, Len(c)) : r.out \notin BlockOutputs(c, Len(c))}
           /\ WellFormed(b)
<1>1. /\ b \in Seq(Row) /\ Len(c) \in Nat \ {0} /\ Len(b) = Len(c) - 1
      /\ \A h \in 1..Len(b) : c[h] = b[h]
    BY BelowTip
<1>2. Len(c) = Len(b) + 1
    BY <1>1
<1>3. /\ Confirmed(c) = Confirmed(b) \cup BlockTxs(c, Len(c))
      /\ CreatedIn(c) = CreatedIn(b) \cup BlockRecords(c, Len(c))
      /\ SpentIn(c) = SpentIn(b) \cup BlockInputs(c, Len(c))
    BY <1>1, <1>2, TipAdds
<1>4. /\ WellFormed(b)
      /\ BlockTxs(c, Len(c)) \cap Confirmed(b) = {}
      /\ BlockInputs(c, Len(c)) \cap SpentIn(b) = {}
    BY <1>1, <1>2, WellFormedTip
<1>5. \A r \in CreatedIn(b) : r.out \notin BlockOutputs(c, Len(c))
  <2> SUFFICES ASSUME NEW r \in CreatedIn(b), r.out \in BlockOutputs(c, Len(c))
               PROVE  FALSE
      OBVIOUS
  <2>1. PICK h \in 1..Len(b) : r \in BlockRecords(b, h)
      BY <1>1, ByHeight
  <2>2. r.out[1] \in Confirmed(b)
      BY <1>1, <2>1, RecordsName, ByHeight
  <2>3. r.out[1] \in BlockTxs(c, Len(c))
      BY DEF BlockOutputs, OutpointsOf
  <2> QED BY <1>4, <2>2, <2>3
<1>6. \A r \in BlockRecords(c, Len(c)) : r.out \in BlockOutputs(c, Len(c))
    BY RecordsName
<1>7. BlockSpends(c, Len(c)) = {r \in CreatedIn(c) : r.out \in BlockInputs(c, Len(c))}
    BY TipSpends
<1>8. Unspent(b) = {r \in Unspent(c) : r.out \notin BlockOutputs(c, Len(c))} \cup
                   {r \in BlockSpends(c, Len(c)) : r.out \notin BlockOutputs(c, Len(c))}
    BY <1>3, <1>4, <1>5, <1>6, <1>7 DEF Unspent
<1> QED BY <1>1, <1>4, <1>8

-----------------------------------------------------------------------------
(***************************************************************************)
(* Sums of amounts.  A sum over a finite set is a recursive function of    *)
(* its subsets; what is said of it is proved of a smallest subset for      *)
(* which it would fail, and there is one because strict inclusion of       *)
(* finite sets is well founded.                                            *)
(***************************************************************************)

\* The amounts of a set of outpoints, added up.
Units(S) == MapThenSumSet(AmountOf, S)

\* Among subsets of a finite set that include the set itself there is one
\* that has no other below it.
LEMMA SmallestSet ==
    ASSUME NEW U, IsFiniteSet(U), NEW Q \in SUBSET (SUBSET U), U \in Q
    PROVE  \E S \in Q : \A T \in Q : T \subseteq S => T = S
<1>1. Q \subseteq FiniteSubsetsOf(U)
    BY FS_Subset DEF FiniteSubsetsOf
<1>2. PICK S \in Q : \A T \in Q : ~(<<T, S>> \in StrictSubsetOrdering(U))
    BY <1>1, WFMin, FS_StrictSubsetOrderingWellFounded
<1>3. ASSUME NEW T \in Q, T \subseteq S PROVE T = S
    BY <1>2, <1>3 DEF StrictSubsetOrdering
<1> QED BY <1>3

Pick(s) == CHOOSE x \in s : TRUE

\* g adds up the amounts of every subset of U, one element after the other.
AddsUp(U, g) == g = [s \in SUBSET U |-> IF s = {} THEN 0 ELSE AmountOf(Pick(s)) + g[s \ {Pick(s)}]]

\* The sum is one such function, applied to the whole set.
LEMMA UnitsChoice ==
    ASSUME NEW S
    PROVE  Units(S) = (CHOOSE g : AddsUp(S, g))[S]
BY Zenon DEF Units, MapThenSumSet, MapThenFoldSet, AddsUp, Pick

\* Two such functions agree on every finite set that both have.
LEMMA AddsUpOnce ==
    ASSUME NEW U, NEW V, NEW g, NEW h, AddsUp(U, g), AddsUp(V, h),
           NEW S, S \subseteq U, S \subseteq V, IsFiniteSet(S)
    PROVE  g[S] = h[S]
<1> SUFFICES ASSUME g[S] # h[S] PROVE FALSE
    OBVIOUS
<1> DEFINE Q == {T \in SUBSET S : g[T] # h[T]}
<1>1. Q \in SUBSET (SUBSET S) /\ \A T \in Q : IsFiniteSet(T)
    BY FS_Subset
<1>2. S \in Q
    OBVIOUS
<1>3. PICK T \in Q : \A R \in Q : R \subseteq T => R = T
  <2> HIDE DEF Q
  <2> QED BY <1>1, <1>2, SmallestSet
<1>4. T \in SUBSET U /\ T \in SUBSET V
    OBVIOUS
<1>5. /\ g[T] = IF T = {} THEN 0 ELSE AmountOf(Pick(T)) + g[T \ {Pick(T)}]
      /\ h[T] = IF T = {} THEN 0 ELSE AmountOf(Pick(T)) + h[T \ {Pick(T)}]
    BY <1>4, Zenon DEF AddsUp
<1>6. T # {}
    BY <1>5
<1>7. Pick(T) \in T
    BY <1>6 DEF Pick
<1>8. T \ {Pick(T)} \notin Q
    BY <1>3, <1>7
<1>9. g[T \ {Pick(T)}] = h[T \ {Pick(T)}]
    BY <1>8
<1> QED BY <1>5, <1>9

\* There is such a function for every finite set.
LEMMA AddsUpExists ==
    ASSUME NEW S, IsFiniteSet(S)
    PROVE  \E g : AddsUp(S, g)
<1> SUFFICES ASSUME ~\E g : AddsUp(S, g) PROVE FALSE
    OBVIOUS
<1> DEFINE Q == {T \in SUBSET S : ~\E g : AddsUp(T, g)}
           G(T) == CHOOSE g : AddsUp(T, g)
<1>1. Q \in SUBSET (SUBSET S) /\ \A T \in Q : IsFiniteSet(T)
    BY FS_Subset
<1>2. S \in Q
    OBVIOUS
<1>3. PICK T \in Q : \A R \in Q : R \subseteq T => R = T
  <2> HIDE DEF Q
  <2> QED BY <1>1, <1>2, SmallestSet
<1>4. \A R \in SUBSET T : R # T => AddsUp(R, G(R))
    BY <1>3
<1> DEFINE rest(R) == R \ {Pick(R)}
           total(R) == IF R = {} THEN 0 ELSE AmountOf(Pick(R)) + G(rest(R))[rest(R)]
           f == [R \in SUBSET T |-> total(R)]
<1> HIDE DEF G
<1>5. ASSUME NEW R \in SUBSET T, R # {}
      PROVE  rest(R) \in SUBSET T /\ rest(R) # T /\ f[rest(R)] = G(rest(R))[rest(R)]
  <2>1. Pick(R) \in R
      BY <1>5 DEF Pick
  <2>2. rest(R) \in SUBSET T /\ rest(R) # T
      BY <2>1
  <2>3. CASE rest(R) = {}
    <3>1. AddsUp({}, G({}))
        BY <1>4, <2>2, <2>3
    <3>2. G({})[{}] = 0
        BY <3>1, Zenon DEF AddsUp
    <3> QED BY <2>2, <2>3, <3>2
  <2>4. CASE rest(R) # {}
    <3> DEFINE V == rest(R)
               W == rest(V)
    <3>1. V \in SUBSET T /\ V # {} /\ AddsUp(V, G(V))
        BY <1>4, <2>2, <2>4
    <3>2. Pick(V) \in V
        BY <3>1 DEF Pick
    <3>3. W \in SUBSET V /\ W # V /\ W \in SUBSET T /\ W # T
        BY <3>1, <3>2
    <3>4. G(V)[V] = AmountOf(Pick(V)) + G(V)[W]
        BY <3>1, Zenon DEF AddsUp
    <3>5. AddsUp(W, G(W))
        BY <1>4, <3>3
    <3>6. IsFiniteSet(W)
        BY <1>1, <3>3, FS_Subset
    <3>7. G(V)[W] = G(W)[W]
      <4> HIDE DEF W, V
      <4> QED BY <3>1, <3>3, <3>5, <3>6, AddsUpOnce
    <3>8. f[V] = AmountOf(Pick(V)) + G(W)[W]
        BY <3>1
    <3> QED BY <2>2, <3>4, <3>7, <3>8
  <2> QED BY <2>2, <2>3, <2>4
<1>6. ASSUME NEW R \in SUBSET T
      PROVE  f[R] = IF R = {} THEN 0 ELSE AmountOf(Pick(R)) + f[rest(R)]
  <2>1. CASE R = {} BY <2>1
  <2>2. CASE R # {}
    <3>1. f[rest(R)] = G(rest(R))[rest(R)]
        BY <1>5, <2>2
    <3> QED BY <2>2, <3>1
  <2> QED BY <2>1, <2>2
<1>7. AddsUp(T, f)
  <2>1. f = [R \in SUBSET T |-> IF R = {} THEN 0 ELSE AmountOf(Pick(R)) + f[rest(R)]]
      BY <1>6
  <2> QED BY <2>1, Zenon DEF AddsUp
<1> QED BY <1>3, <1>7

-----------------------------------------------------------------------------
(* What the sum over a finite set is, and what it is over parts of the set. *)

\* On every subset it is the sum over the subset.
LEMMA UnitsAre ==
    ASSUME NEW S, IsFiniteSet(S)
    PROVE  \E g : AddsUp(S, g) /\ \A T \in SUBSET S : Units(T) = g[T]
<1>1. PICK g : AddsUp(S, g)
    BY AddsUpExists
<1>2. ASSUME NEW T \in SUBSET S PROVE Units(T) = g[T]
  <2> DEFINE h == CHOOSE k : AddsUp(T, k)
  <2>1. IsFiniteSet(T)
      BY FS_Subset
  <2>2. AddsUp(T, h)
      BY <2>1, AddsUpExists
  <2>3. Units(T) = h[T]
      BY UnitsChoice
  <2> HIDE DEF h
  <2>4. h[T] = g[T]
      BY <1>1, <2>1, <2>2, AddsUpOnce
  <2> QED BY <2>3, <2>4
<1> QED BY <1>1, <1>2

\* The sum over nothing.
LEMMA UnitsEmpty == Units({}) = 0
<1>1. PICK g : AddsUp({}, g) /\ \A T \in SUBSET {} : Units(T) = g[T]
    BY UnitsAre, FS_EmptySet
<1>2. g[{}] = 0
    BY <1>1, Zenon DEF AddsUp
<1> QED BY <1>1, <1>2

\* The sum with one element set apart.
LEMMA UnitsPick ==
    ASSUME NEW S, IsFiniteSet(S), S # {}
    PROVE  Pick(S) \in S /\ Units(S) = AmountOf(Pick(S)) + Units(S \ {Pick(S)})
<1>1. PICK g : AddsUp(S, g) /\ \A T \in SUBSET S : Units(T) = g[T]
    BY UnitsAre
<1>2. g[S] = AmountOf(Pick(S)) + g[S \ {Pick(S)}]
    BY <1>1, Zenon DEF AddsUp
<1>3. Pick(S) \in S
    BY DEF Pick
<1> QED BY <1>1, <1>2, <1>3

\* Outpoints that name an output, which has an amount.
Amounts(S) == \A out \in S : AmountOf(out) \in Nat

\* Amounts add up to an amount.
LEMMA UnitsNat ==
    ASSUME NEW S, IsFiniteSet(S), Amounts(S)
    PROVE  Units(S) \in Nat
<1> SUFFICES ASSUME Units(S) \notin Nat PROVE FALSE
    OBVIOUS
<1> DEFINE Q == {T \in SUBSET S : Units(T) \notin Nat}
<1>1. Q \in SUBSET (SUBSET S) /\ \A T \in Q : IsFiniteSet(T)
    BY FS_Subset
<1>2. S \in Q
    OBVIOUS
<1>3. PICK T \in Q : \A R \in Q : R \subseteq T => R = T
  <2> HIDE DEF Q
  <2> QED BY <1>1, <1>2, SmallestSet
<1>4. T # {}
    BY UnitsEmpty
<1>5. Pick(T) \in T /\ Units(T) = AmountOf(Pick(T)) + Units(T \ {Pick(T)})
    BY <1>1, <1>4, UnitsPick
<1>6. T \ {Pick(T)} \notin Q
    BY <1>3, <1>5
<1>7. Units(T \ {Pick(T)}) \in Nat /\ AmountOf(Pick(T)) \in Nat
    BY <1>5, <1>6 DEF Amounts
<1> QED BY <1>5, <1>7

\* The sum does not depend on which element is taken first.
LEMMA UnitsRemove ==
    ASSUME NEW S, IsFiniteSet(S), Amounts(S), NEW out \in S
    PROVE  Units(S) = AmountOf(out) + Units(S \ {out})
<1> DEFINE Whole(T, o) == Units(T) = AmountOf(o) + Units(T \ {o})
           Q == {T \in SUBSET S : \E o \in T : ~Whole(T, o)}
<1> SUFFICES ASSUME ~Whole(S, out) PROVE FALSE
    OBVIOUS
<1>1. Q \in SUBSET (SUBSET S) /\ \A T \in Q : IsFiniteSet(T)
    BY FS_Subset
<1>2. S \in Q
    OBVIOUS
<1>3. PICK T \in Q : \A R \in Q : R \subseteq T => R = T
  <2> HIDE DEF Q
  <2> QED BY <1>1, <1>2, SmallestSet
<1>4. PICK o \in T : ~Whole(T, o)
    OBVIOUS
<1> DEFINE first == Pick(T)
           rest  == T \ {first}
           other == T \ {o}
           both  == rest \ {o}
<1>5. first \in T /\ Units(T) = AmountOf(first) + Units(rest)
    BY <1>1, <1>4, UnitsPick
<1>6. first # o
    BY <1>4, <1>5
<1>7. o \in rest /\ first \in other /\ other \ {first} = both
    BY <1>4, <1>5, <1>6
<1>8. rest \notin Q /\ other \notin Q
    BY <1>3, <1>4, <1>5
<1>9. rest \in SUBSET S /\ other \in SUBSET S /\ both \in SUBSET S
    OBVIOUS
<1>10. Whole(rest, o) /\ Whole(other, first)
    BY <1>7, <1>8, <1>9
<1>11. Units(rest) = AmountOf(o) + Units(both) /\ Units(other) = AmountOf(first) + Units(both)
    BY <1>7, <1>10
<1>12. IsFiniteSet(both) /\ Amounts(both)
    BY <1>9, FS_Subset DEF Amounts
<1>13. AmountOf(o) \in Nat /\ AmountOf(first) \in Nat /\ Units(both) \in Nat
    BY <1>4, <1>5, <1>9, <1>12, UnitsNat DEF Amounts
<1>14. Units(T) = AmountOf(o) + Units(other)
  <2> HIDE DEF first, rest, other, both
  <2> QED BY <1>5, <1>11, <1>13
<1> QED BY <1>4, <1>14

\* Disjoint sets add up.
LEMMA UnitsUnion ==
    ASSUME NEW S, NEW R, IsFiniteSet(S), IsFiniteSet(R), Amounts(S), Amounts(R), S \cap R = {}
    PROVE  Units(S \cup R) = Units(S) + Units(R)
<1> DEFINE Whole(T) == Units(T \cup R) = Units(T) + Units(R)
           Q == {T \in SUBSET S : ~Whole(T)}
<1> SUFFICES ASSUME ~Whole(S) PROVE FALSE
    OBVIOUS
<1>1. Q \in SUBSET (SUBSET S) /\ \A T \in Q : IsFiniteSet(T)
    BY FS_Subset
<1>2. S \in Q
    OBVIOUS
<1>3. PICK T \in Q : \A V \in Q : V \subseteq T => V = T
  <2> HIDE DEF Q
  <2> QED BY <1>1, <1>2, SmallestSet
<1>4. T # {}
  <2>1. Units(R) \in Nat
      BY UnitsNat
  <2>2. Units({} \cup R) = Units(R)
      OBVIOUS
  <2> QED BY <2>1, <2>2, UnitsEmpty
<1> DEFINE first == Pick(T)
           rest  == T \ {first}
<1>5. first \in T /\ Units(T) = AmountOf(first) + Units(rest)
    BY <1>1, <1>4, UnitsPick
<1>6. Whole(rest)
    BY <1>3, <1>5
<1>7. (T \cup R) \ {first} = rest \cup R /\ first \in T \cup R
    BY <1>5
<1>8. IsFiniteSet(T \cup R) /\ Amounts(T \cup R)
    BY <1>1, FS_Union DEF Amounts
<1>9. Units(T \cup R) = AmountOf(first) + Units(rest \cup R)
  <2> HIDE DEF first, rest
  <2> QED BY <1>7, <1>8, UnitsRemove
<1>10. IsFiniteSet(rest) /\ Amounts(rest)
    BY <1>1, FS_Subset DEF Amounts
<1>11. AmountOf(first) \in Nat /\ Units(rest) \in Nat /\ Units(R) \in Nat
    BY <1>5, <1>10, UnitsNat DEF Amounts
<1>12. Units(T \cup R) = Units(T) + Units(R)
  <2> HIDE DEF first
  <2> QED BY <1>5, <1>6, <1>9, <1>11
<1> QED BY <1>12

\* A part that goes takes its amounts with it.
LEMMA UnitsWithout ==
    ASSUME NEW S, NEW R, IsFiniteSet(S), Amounts(S), R \subseteq S
    PROVE  /\ Units(S \ R) \in Nat /\ Units(R) \in Nat
           /\ Units(S) = Units(S \ R) + Units(R)
<1>1. IsFiniteSet(R) /\ IsFiniteSet(S \ R)
    BY FS_Subset
<1>2. Amounts(R) /\ Amounts(S \ R)
    BY DEF Amounts
<1>3. (S \ R) \cap R = {} /\ (S \ R) \cup R = S
    OBVIOUS
<1>4. Units((S \ R) \cup R) = Units(S \ R) + Units(R)
    BY <1>1, <1>2, <1>3, UnitsUnion
<1> QED BY <1>1, <1>2, <1>3, <1>4, UnitsNat

-----------------------------------------------------------------------------
(* The schedule.                                                           *)

\* Nothing is minted at genesis.
LEMMA MintedNone == MintedThrough(0) = 0
<1>1. BaseSubsidy \in Nat /\ BonusSubsidyBlocks \in Nat
    BY IssuanceAssumption DEF BaseSubsidy, BonusSubsidyBlocks
<1> QED BY <1>1, IssuanceAssumption DEF MintedThrough

\* The closed form of the total grows by what the next block mints.
LEMMA MintedNext ==
    ASSUME NEW h \in Nat
    PROVE  /\ MintedThrough(h) \in Nat /\ Subsidy(h + 1) \in Nat
           /\ MintedThrough(h + 1) = MintedThrough(h) + Subsidy(h + 1)
<1> DEFINE emitted(n) == IF n > EmissionBlocks THEN EmissionBlocks ELSE n
<1>1. /\ BaseSubsidy \in Nat /\ BonusSubsidyBlocks \in Nat
      /\ EmissionBlocks \in Nat /\ BonusSubsidyBlocks < EmissionBlocks
    BY IssuanceAssumption DEF BaseSubsidy, BonusSubsidyBlocks
<1>2. ASSUME NEW n \in Nat
      PROVE  (n + 1) * BaseSubsidy = n * BaseSubsidy + BaseSubsidy /\ n * BaseSubsidy \in Nat
    BY <1>1
<1>3. CASE h < EmissionBlocks
    BY <1>1, <1>2, <1>3 DEF MintedThrough, Subsidy
<1>4. CASE h >= EmissionBlocks
    BY <1>1, <1>2, <1>4 DEF MintedThrough, Subsidy
<1> QED BY <1>1, <1>3, <1>4

-----------------------------------------------------------------------------
(***************************************************************************)
(* Folds.  FoldLeft is a recursive function of the sets of positions of    *)
(* the sequence.  That there is such a function is proved for one position *)
(* more at a time; what is said of it is then proved along the prefixes,   *)
(* of a least one for which it would fail.                                 *)
(***************************************************************************)

\* Among natural numbers there is a least one.
LEMMA LeastNumber ==
    ASSUME NEW Q \in SUBSET Nat, Q # {}
    PROVE  \E n \in Q : \A m \in Q : n <= m
<1>1. PICK k \in Q : TRUE
    OBVIOUS
<1> DEFINE U == 1..k
           R == {1..q : q \in {m \in Q : m <= k}}
<1>2. IsFiniteSet(U) /\ R \in SUBSET (SUBSET U) /\ U \in R
  <2>1. IsFiniteSet(U)
      BY FS_Interval
  <2>2. ASSUME NEW m \in Q, m <= k PROVE 1..m \subseteq 1..k
      BY <2>2
  <2> QED BY <2>1, <2>2
<1>3. PICK S \in R : \A T \in R : T \subseteq S => T = S
  <2> HIDE DEF U, R
  <2> QED BY <1>2, SmallestSet
<1>4. PICK n \in Q : n <= k /\ S = 1..n
    OBVIOUS
<1>5. ASSUME NEW m \in Q, ~(n <= m) PROVE FALSE
  <2>1. 1..m \in R /\ 1..m \subseteq S /\ n \in S /\ n \notin 1..m
      BY <1>4, <1>5
  <2> QED BY <1>3, <2>1
<1> QED BY <1>5

\* g folds step over the elements of seq, for every set of their positions.
FoldedBy(step, base, seq, n, g) ==
    \A S \in SUBSET (1..n) :
        g[S] = IF S = {} THEN base ELSE step[<<g[S \ {Max(S)}], seq[Max(S)]>>]

\* What bounds a set from inside is its maximum.
LEMMA MaxIs ==
    ASSUME NEW S \in SUBSET Nat, NEW m \in S, \A k \in S : m >= k
    PROVE  Max(S) = m
<1>1. \A x \in S : (\A y \in S : x >= y) => x = m
    OBVIOUS
<1> QED BY <1>1 DEF Max

\* There is such a function, with values of the type that step keeps.
LEMMA FoldExists ==
    ASSUME NEW A, NEW B, NEW step \in [A \X B -> A], NEW base \in A, NEW seq \in Seq(B)
    PROVE  \E g \in [SUBSET (1..Len(seq)) -> A] : FoldedBy(step, base, seq, Len(seq), g)
<1> SUFFICES ASSUME ~\E g \in [SUBSET (1..Len(seq)) -> A] : FoldedBy(step, base, seq, Len(seq), g)
             PROVE  FALSE
    OBVIOUS
<1> DEFINE Missing(n) == ~\E g \in [SUBSET (1..n) -> A] : FoldedBy(step, base, seq, n, g)
           Q == {n \in 0..Len(seq) : Missing(n)}
<1>1. Q \in SUBSET Nat /\ Len(seq) \in Q
  <2>1. Missing(Len(seq))
      OBVIOUS
  <2>2. Len(seq) \in 0..Len(seq)
      BY LenProperties
  <2> HIDE DEF Missing
  <2> QED BY <2>1, <2>2
<1>2. PICK n \in Q : \A m \in Q : n <= m
  <2> HIDE DEF Q
  <2> QED BY <1>1, LeastNumber
<1>3. CASE n = 0
  <2> DEFINE g == [S \in SUBSET (1..0) |-> base]
  <2>1. 1..0 = {}
      OBVIOUS
  <2>2. g \in [SUBSET (1..0) -> A] /\ FoldedBy(step, base, seq, 0, g)
      BY <2>1 DEF FoldedBy
  <2> QED BY <1>3, <2>2
<1>4. CASE n # 0
  <2>1. n - 1 \in 0..Len(seq) /\ n - 1 \notin Q /\ n \in 1..Len(seq) /\ n \in Nat
    <3>1. n \in 0..Len(seq)
        OBVIOUS
    <3>2. n - 1 \in 0..Len(seq) /\ n \in 1..Len(seq) /\ n \in Nat
        BY <1>4, <3>1
    <3>3. n - 1 \notin Q
      <4> HIDE DEF Q
      <4> QED BY <1>2, <3>2
    <3> QED BY <3>2, <3>3
  <2>2. PICK g \in [SUBSET (1..(n - 1)) -> A] : FoldedBy(step, base, seq, n - 1, g)
      BY <2>1
  <2> DEFINE value(S) == IF n \in S THEN step[<<g[S \ {n}], seq[n]>>] ELSE g[S]
             f == [S \in SUBSET (1..n) |-> value(S)]
  <2>3. seq[n] \in B
      BY <2>1
  <2>4. \A S \in SUBSET (1..n) : /\ S \ {n} \in SUBSET (1..(n - 1))
                                 /\ n \notin S => S \in SUBSET (1..(n - 1))
      BY <2>1
  <2>5. ASSUME NEW S \in SUBSET (1..n) PROVE value(S) \in A
      BY <2>3, <2>4
  <2>6. ASSUME NEW S \in SUBSET (1..n)
        PROVE  f[S] = IF S = {} THEN base ELSE step[<<f[S \ {Max(S)}], seq[Max(S)]>>]
    <3>1. CASE n \in S
      <4>1. Max(S) = n
          BY <2>1, <3>1, MaxIs
      <4>2. S \ {n} \in SUBSET (1..n) /\ f[S \ {n}] = g[S \ {n}]
          OBVIOUS
      <4> QED BY <3>1, <4>1, <4>2
    <3>2. CASE n \notin S /\ S # {}
      <4>1. /\ S \in SUBSET (1..(n - 1)) /\ S \ {Max(S)} \in SUBSET (1..n)
            /\ n \notin S \ {Max(S)}
          BY <2>4, <3>2
      <4>2. f[S] = g[S] /\ f[S \ {Max(S)}] = g[S \ {Max(S)}]
          BY <3>2, <4>1
      <4>3. g[S] = step[<<g[S \ {Max(S)}], seq[Max(S)]>>]
          BY <2>2, <3>2, <4>1 DEF FoldedBy
      <4> QED BY <3>2, <4>2, <4>3
    <3>3. CASE S = {}
        BY <2>2, <3>3 DEF FoldedBy
    <3> QED BY <3>1, <3>2, <3>3
  <2>7. f \in [SUBSET (1..n) -> A]
      BY <2>5
  <2>8. FoldedBy(step, base, seq, n, f)
    <3> HIDE DEF f
    <3> QED BY <2>6 DEF FoldedBy
  <2> QED BY <2>7, <2>8
<1> QED BY <1>3, <1>4

\* The values along the prefixes of the sequence.
LEMMA FoldPrefix ==
    ASSUME NEW n \in Nat, NEW i \in 1..n
    PROVE  Max(1..i) = i /\ (1..i) \ {i} = 1..(i - 1) /\ 1..i # {} /\ 1..i \in SUBSET (1..n)
BY MaxIs

\* A set of positions has a last one.
LEMMA MaxIn ==
    ASSUME NEW n \in Nat, NEW S \in SUBSET (1..n), S # {}
    PROVE  Max(S) \in S
<1> DEFINE Q == {n - k : k \in S}
<1>1. Q \in SUBSET Nat /\ Q # {}
  <2>1. \A k \in S : n - k \in Nat
      OBVIOUS
  <2> QED BY <2>1
<1>2. PICK m \in Q : \A q \in Q : m <= q
  <2> HIDE DEF Q
  <2> QED BY <1>1, LeastNumber
<1>3. PICK k \in S : m = n - k
    OBVIOUS
<1>4. ASSUME NEW j \in S PROVE k >= j
  <2>1. n - j \in Q /\ k \in Nat /\ j \in Nat
      OBVIOUS
  <2> QED BY <1>2, <1>3, <2>1
<1> QED BY <1>4, MaxIs


-----------------------------------------------------------------------------
(* Sums along a sequence.                                                  *)

\* g adds up the weights of the elements of seq, from the first to the last.
SumsOf(w, seq, g) ==
    g = [S \in SUBSET (1..Len(seq)) |->
            IF S = {} THEN 0 ELSE g[S \ {Max(S)}] + w[seq[Max(S)]]]

Total(w, seq) == (CHOOSE g : SumsOf(w, seq, g))[1..Len(seq)]

\* The total is the last of the partial sums.
LEMMA PartialSums ==
    ASSUME NEW B, NEW w \in [B -> Nat], NEW seq \in Seq(B)
    PROVE  \E p \in [0..Len(seq) -> Nat] :
              /\ p[0] = 0
              /\ \A i \in 1..Len(seq) : p[i] = p[i - 1] + w[seq[i]]
              /\ Total(w, seq) = p[Len(seq)]
<1> DEFINE n == Len(seq)
           D == 1..n
           step == [x \in Nat \X B |-> x[1] + w[x[2]]]
<1>1. n \in Nat /\ DOMAIN seq = D /\ \A i \in D : seq[i] \in B
    OBVIOUS
<1>2. \E g : SumsOf(w, seq, g)
  <2>1. step \in [Nat \X B -> Nat]
      OBVIOUS
  <2>2. PICK g \in [SUBSET D -> Nat] : FoldedBy(step, 0, seq, n, g)
    <3> HIDE DEF step
    <3> QED BY <1>1, <2>1, FoldExists
  <2>3. ASSUME NEW S \in SUBSET D, S # {}
        PROVE  g[S] = g[S \ {Max(S)}] + w[seq[Max(S)]]
    <3>1. Max(S) \in S
        BY <1>1, <2>3, MaxIn
    <3>2. S \ {Max(S)} \in SUBSET D /\ Max(S) \in D
        BY <3>1
    <3>3. g[S \ {Max(S)}] \in Nat /\ seq[Max(S)] \in B
        BY <1>1, <3>2
    <3> QED BY <2>2, <2>3, <3>3 DEF FoldedBy
  <2>4. g[{}] = 0
      BY <2>2 DEF FoldedBy
  <2>5. SumsOf(w, seq, g)
      BY <2>3, <2>4 DEF SumsOf
  <2> QED BY <2>5
<1> DEFINE h == CHOOSE g : SumsOf(w, seq, g)
           p == [i \in 0..n |-> h[1..i]]
<1>3. SumsOf(w, seq, h) /\ Total(w, seq) = h[1..n]
    BY <1>2 DEF Total
<1> HIDE DEF h
<1>4. p[0] = 0
  <2>1. 1..0 = {} /\ {} \in SUBSET D /\ 0 \in 0..n
      BY <1>1
  <2>2. h[{}] = 0
      BY <1>3, <2>1, ZenonT(40) DEF SumsOf
  <2> QED BY <2>1, <2>2
<1>5. ASSUME NEW i \in 1..n PROVE p[i] = p[i - 1] + w[seq[i]]
  <2>1. Max(1..i) = i /\ (1..i) \ {i} = 1..(i - 1) /\ 1..i # {} /\ 1..i \in SUBSET D
      BY <1>1, FoldPrefix, ZenonT(40)
  <2>2. i \in 0..n /\ i - 1 \in 0..n
      BY <1>1
  <2>3. h[1..i] = h[1..(i - 1)] + w[seq[i]]
      BY <1>3, <2>1, ZenonT(40) DEF SumsOf
  <2> QED BY <2>2, <2>3
<1>6. p \in [0..n -> Nat]
  <2> DEFINE Q == {i \in 0..n : p[i] \notin Nat}
  <2>1. Q \in SUBSET Nat
      OBVIOUS
  <2> SUFFICES ASSUME Q # {} PROVE FALSE
      OBVIOUS
  <2>2. PICK i \in Q : \A m \in Q : i <= m
    <3> HIDE DEF Q
    <3> QED BY <2>1, LeastNumber
  <2>3. i \in 1..n
      BY <1>1, <1>4, <2>2
  <2>4. i - 1 \in 0..n /\ i - 1 \notin Q
    <3>1. i - 1 \in 0..n /\ ~(i <= i - 1)
        BY <1>1, <2>3
    <3> HIDE DEF Q
    <3> QED BY <2>2, <3>1
  <2>5. p[i - 1] \in Nat /\ w[seq[i]] \in Nat
      BY <1>1, <2>3, <2>4
  <2> HIDE DEF p
  <2> QED BY <1>5, <2>3, <2>5
<1> HIDE DEF p
<1>7. p[n] = h[1..n]
    BY <1>1 DEF p
<1> QED BY <1>3, <1>4, <1>5, <1>6, <1>7

\* The total of nothing.
LEMMA TotalEmpty ==
    ASSUME NEW B, NEW w \in [B -> Nat]
    PROVE  Total(w, <<>>) = 0
<1>1. <<>> \in Seq(B) /\ Len(<<>>) = 0
    OBVIOUS
<1>2. \E p \in [0..Len(<<>>) -> Nat] : p[0] = 0 /\ Total(w, <<>>) = p[Len(<<>>)]
    BY <1>1, PartialSums, ZenonT(40)
<1> QED BY <1>1, <1>2

\* Totals are numbers.
LEMMA TotalNat ==
    ASSUME NEW B, NEW w \in [B -> Nat], NEW seq \in Seq(B)
    PROVE  Total(w, seq) \in Nat
<1>1. PICK p \in [0..Len(seq) -> Nat] : Total(w, seq) = p[Len(seq)]
    BY PartialSums
<1> QED BY <1>1, LenProperties

\* One more element adds its weight.
LEMMA TotalAppend ==
    ASSUME NEW B, NEW w \in [B -> Nat], NEW seq \in Seq(B), NEW e \in B
    PROVE  Total(w, Append(seq, e)) = Total(w, seq) + w[e]
<1> DEFINE n == Len(seq)
           more == Append(seq, e)
<1>1. /\ n \in Nat /\ more \in Seq(B) /\ Len(more) = n + 1 /\ more[n + 1] = e
      /\ \A i \in 1..n : more[i] = seq[i]
    OBVIOUS
<1>2. PICK p \in [0..n -> Nat] :
         p[0] = 0 /\ (\A i \in 1..n : p[i] = p[i - 1] + w[seq[i]]) /\ Total(w, seq) = p[n]
    BY PartialSums
<1> HIDE DEF more
<1>3. PICK q \in [0..(n + 1) -> Nat] :
         /\ q[0] = 0 /\ (\A i \in 1..(n + 1) : q[i] = q[i - 1] + w[more[i]])
         /\ Total(w, more) = q[n + 1]
  <2>1. PICK q \in [0..Len(more) -> Nat] :
         /\ q[0] = 0 /\ (\A i \in 1..Len(more) : q[i] = q[i - 1] + w[more[i]])
         /\ Total(w, more) = q[Len(more)]
      BY <1>1, PartialSums
  <2> QED BY <1>1, <2>1
<1> HIDE DEF n
<1>4. \A i \in 1..n : q[i] = q[i - 1] + w[more[i]]
  <2>1. \A i \in 1..n : i \in 1..(n + 1)
      BY <1>1
  <2> QED BY <1>3, <2>1
<1>5. p[n] = q[n]
  <2> SUFFICES ASSUME p[n] # q[n] PROVE FALSE
      OBVIOUS
  <2> DEFINE Q == {i \in 0..n : p[i] # q[i]}
  <2>1. Q \in SUBSET Nat /\ n \in Q
      BY <1>1
  <2>2. PICK i \in Q : \A m \in Q : i <= m
    <3> HIDE DEF Q
    <3> QED BY <2>1, LeastNumber
  <2>3. i \in 1..n
      BY <1>1, <1>2, <1>3
  <2>4. i - 1 \in 0..n /\ ~(i <= i - 1)
      BY <1>1, <2>3
  <2>5. i - 1 \notin Q
    <3> HIDE DEF Q
    <3> QED BY <2>2, <2>4
  <2>6. p[i] = p[i - 1] + w[seq[i]] /\ q[i] = q[i - 1] + w[seq[i]]
      BY <1>1, <1>2, <1>4, <2>3
  <2> QED BY <2>2, <2>4, <2>5, <2>6
<1>6. q[n + 1] = q[n] + w[e]
  <2>1. n + 1 \in 1..(n + 1) /\ (n + 1) - 1 = n
      BY <1>1
  <2> QED BY <1>1, <1>3, <2>1
<1> QED BY <1>2, <1>3, <1>5, <1>6 DEF more, n
=============================================================================
