------------------------------- MODULE Chains -------------------------------
(***************************************************************************)
(* What a chain of blocks means, apart from how the ledger stores it.      *)
(* Genesis creates nothing and is implicit: c[h] is the block at height h. *)
(* A row of the blocks table is the sequence of the transactions indexed   *)
(* under it, in the order they are applied (the coinbase last), with the   *)
(* cumulative work through it.                                             *)
(***************************************************************************)
EXTENDS Transactions

Row == [txs : Seq(Tx), work : Nat]

TotalWork(c) == IF c = <<>> THEN 0 ELSE c[Len(c)].work

Confirmed(c) == UNION {Range(c[h].txs) : h \in DOMAIN c}

CreatedIn(c) == UNION {UNION {RecordsOf(t, h) : t \in Range(c[h].txs)} : h \in DOMAIN c}

SpentIn(c) == UNION {InputsOf[t] : t \in Confirmed(c)}

\* The chain with one more block, of which no transaction is indexed yet.
WithRow(c, work) == Append(c, [txs |-> <<>>, work |-> work])

\* The chain with one more transaction in the block at the tip.
Indexed(c, t) == [c EXCEPT ![Len(c)].txs = Append(@, t)]

\* The reference definition of the utxos table: created and never spent.
Unspent(c) == {r \in CreatedIn(c) : r.out \notin SpentIn(c)}
=============================================================================
