------------------------------ MODULE MCLedger ------------------------------
(***************************************************************************)
(* Values for the constants of Ledger.  A coinbase is named by its nonce   *)
(* and its reward: "a5" mints 5 units.  With MaxSupply 9 over two blocks   *)
(* height 1 mints 5, height 2 mints 4 and later heights nothing, so the    *)
(* runs pass the end of the emission.  A reward is mature after two blocks *)
(* from height 3 on.                                                       *)
(*                                                                         *)
(* t1 spends the reward of height 1 and has two outputs; t2 spends one of  *)
(* them for a larger fee; t3 conflicts with t1; t4 spends both outputs of  *)
(* t1 for no fee, so only a block may carry it where there is a relay fee; *)
(* t5 spends the reward of b5; t6 claims more than it spends; t7 is large  *)
(* and pays no fee.                                                        *)
(*                                                                         *)
(* Two instances over the same variables, one at a time as the constant    *)
(* value of part says: reorganisations and pruning, with room for every    *)
(* transaction, and mining over a mempool of two transactions, two bytes   *)
(* and two inputs, where t1 leaves room for t2 but not for t4 (inputs) or  *)
(* t7 (size).                                                              *)
(***************************************************************************)
EXTENDS Ledger

MCRegular == {"t1", "t2", "t3", "t4", "t5", "t6", "t7"}

Rewards == [a5 |-> <<5>>, b5 |-> <<5>>, a4 |-> <<4>>, b4 |-> <<4>>,
            a7 |-> <<7>>, a1 |-> <<1>>, a2 |-> <<2>>, a3 |-> <<3>>, a0 |-> <<>>, b0 |-> <<>>]

MCCoinbases == DOMAIN Rewards

MCInputsOf ==
    [c \in MCCoinbases |-> {}] @@
    [t1 |-> {<<"a5", 1>>}, t2 |-> {<<"t1", 1>>}, t3 |-> {<<"a5", 1>>},
     t4 |-> {<<"t1", 1>>, <<"t1", 2>>}, t5 |-> {<<"b5", 1>>}, t6 |-> {<<"a5", 1>>},
     t7 |-> {<<"t1", 2>>}]

MCOutputsOf ==
    Rewards @@
    [t1 |-> <<3, 1>>, t2 |-> <<1>>, t3 |-> <<4>>, t4 |-> <<4>>, t5 |-> <<4>>, t6 |-> <<9>>,
     t7 |-> <<1>>]

MCSizeOf == [t \in MCRegular \cup MCCoinbases |-> IF t \in {"t3", "t7"} THEN 2 ELSE 1]

MCImported == {<<"t1", "t2">>, <<"t2", "t1">>}

B(txs, coinbase, work) == [txs |-> txs, coinbase |-> coinbase, work |-> work]

MCReorgBlocks ==
    {B(<<>>, "a5", 1), B(<<>>, "b5", 2),              \* height 1
     B(<<>>, "a4", 1), B(<<"t1">>, "b5", 1),          \* height 2
     B(<<"t1", "t2">>, "a7", 1), B(<<"t5">>, "a5", 1),
     B(<<>>, "a0", 1), B(<<"t3">>, "a1", 2),          \* heights 3 and 4
     B(<<"t2">>, "a2", 1), B(<<"t1", "t4">>, "a1", 1),
     B(<<"t6">>, "a0", 1)}                            \* never valid

MCMiningBlocks ==
    {B(<<>>, "a5", 1), B(<<>>, "a4", 1), B(<<>>, "b4", 2), B(<<"t3">>, "a1", 2),
     B(<<"t1", "t2">>, "a3", 1)}

\* A small mempool without a relay fee, and blocks of the miner; no pruning.
Mining == INSTANCE Ledger WITH
    RelayFeePerUnit <- 0, MaxPendingTransactions <- 2,
    MaxMempoolBytes <- 2, MaxMempoolInputs <- 2, MaxOrphanedBytes <- 2,
    OfferedBlocks <- MCMiningBlocks, MinedWorks <- {1},
    ImportedPending <- MCImported, PruneRetentions <- {}, MaxHeight <- 3, MaxBranch <- 2

VARIABLE part

LedgerInit == part \in {"reorg", "mining"} /\ Init

LedgerNext ==
    /\ UNCHANGED part
    /\ \/ part = "reorg" /\ Next
       \/ part = "mining" /\ Mining!Next

LedgerSpec == LedgerInit /\ [][LedgerNext]_<<part, vars>>

-----------------------------------------------------------------------------
\* The mempool stays within its three budgets after any reorganisation, which adds every
\* disconnected transaction to what was pending (mempool.go:202, reorg.go:46).
PoolStaysWithinBudget == part = "mining" => Mining!MempoolWithinBudget

\* Where the mempool has room for everything, a change of chain loses no transaction that
\* could still be confirmed: what was confirmed or pending and is neither afterwards is
\* refused by admission too (mempool.go:459, reorg.go:46).
NothingIsLost == [][part = "reorg" => LosesNothing]_<<part, db>>
=============================================================================
