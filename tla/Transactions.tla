---------------------------- MODULE Transactions ----------------------------
(***************************************************************************)
(* Transactions as internal/core sees them.  A transaction's ID is the     *)
(* hash of its content, so a transaction IS its content here: what it      *)
(* spends, what it creates and its encoded size are constants indexed by   *)
(* the transaction.  An output is named by the transaction that creates it *)
(* and its position, and its amount and owner never change; only the       *)
(* height at which a transaction is confirmed depends on the chain.        *)
(***************************************************************************)
EXTENDS Integers, Sequences, FiniteSetsExt, SequencesExt, Issuance

CONSTANTS Regular,      \* transactions that spend outputs
          Coinbases,    \* transactions that mint (random nonce: not bound to a height)
          InputsOf,     \* the outpoints a transaction spends
          OutputsOf,    \* the amounts of the outputs it creates, in order
          SizeOf,       \* its encoded size
          Authentic     \* those whose keys own their inputs and whose signatures verify

Tx == Regular \cup Coinbases

Outpoint == Tx \X Nat

ASSUME TransactionAssumption ==
    /\ Regular \cap Coinbases = {}
    /\ InputsOf \in [Tx -> SUBSET Outpoint]
    /\ OutputsOf \in [Tx -> Seq(Nat \ {0})]
    /\ SizeOf \in [Tx -> Nat \ {0}]
    /\ Authentic \subseteq Regular
    /\ \A c \in Coinbases : InputsOf[c] = {} /\ Len(OutputsOf[c]) <= 1
    /\ \A t \in Regular : InputsOf[t] # {} /\ IsFiniteSet(InputsOf[t]) /\ OutputsOf[t] # <<>>

CONSTANTS CoinbaseMaturity,                  \* 100 in the code
          CoinbaseMaturityActivationHeight   \* 1 in the code

ASSUME MaturityAssumption ==
    /\ CoinbaseMaturity \in Nat \ {0}
    /\ CoinbaseMaturityActivationHeight \in Nat

OutpointsOf(t) == {<<t, i>> : i \in DOMAIN OutputsOf[t]}

AmountOf(out) == OutputsOf[out[1]][out[2]]

InputTotal(t) == MapThenSumSet(AmountOf, InputsOf[t])

OutputTotal(t) == MapThenSumSet(AmountOf, OutpointsOf(t))

Fee(t) == InputTotal(t) - OutputTotal(t)

\* Mutant: inputs need not cover the outputs.
ValidRegularUncovered(t) == t \in Authentic

\* validateRegularTransaction once every input has been found: the checks on
\* the transaction alone, ownership and signatures, and inputs that cover the
\* outputs.
ValidRegularTransaction(t) == t \in Authentic /\ Fee(t) \in Nat

\* Mutant: a coinbase may claim less than it is due.
ValidCoinbaseAtMost(c, maximum) == c \in Coinbases /\ OutputTotal(c) <= maximum

\* validateCoinbase: the reward must equal subsidy plus fees, not merely fit.
ValidCoinbase(c, maximum) == c \in Coinbases /\ OutputTotal(c) = maximum

IsCoinbaseMature(createdHeight, spendingHeight) ==
    /\ spendingHeight >= createdHeight
    /\ \/ spendingHeight < CoinbaseMaturityActivationHeight
       \/ spendingHeight - createdHeight >= CoinbaseMaturity

(***************************************************************************)
(* A row of the utxos table.  tx_id/output_index is the primary key; the   *)
(* amount and address columns are functions of it (AmountOf).              *)
(***************************************************************************)
UTXORecord == [out : Outpoint, height : Nat, coinbase : BOOLEAN]

RecordsOf(t, height) ==
    {[out |-> out, height |-> height, coinbase |-> t \in Coinbases] :
        out \in OutpointsOf(t)}

Outs(records) == {r.out : r \in records}

\* The rows that a transaction's inputs name (loadTransactionInputs).
InputRecords(utxo, t) == {r \in utxo : r.out \in InputsOf[t]}

MatureRecord(r, spendingHeight) ==
    r.coinbase => IsCoinbaseMature(r.height, spendingHeight)
=============================================================================
