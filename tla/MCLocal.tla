------------------------------- MODULE MCLocal -------------------------------
(***************************************************************************)
(* A computer with a few wallets, headers, workers, handoffs and sources.  *)
(*                                                                         *)
(* The chain of headers starts at the genesis block and passes the first   *)
(* adjustment and the upgrade.  The update comes from a mirror that serves *)
(* a longer, wrong file, or from GitHub.                                   *)
(***************************************************************************)
EXTENDS Local

MCFirstHeaders == <<[timestamp |-> 0, difficulty |-> 4]>>

MCSources == <<"mirror", "github">>

MCPieces == [mirror |-> 6, github |-> 3]

\* The published numbers, in seconds since the anchor.
Published == INSTANCE Consensus WITH
    Start <- <<[timestamp |-> 0, difficulty |-> 22]>>, StartHeight <- 0, MedianBlocks <- 11,
    AdjustmentBlocks <- 60, FirstAdjustment <- 120, TargetSeconds <- 10, MaxFuture <- 120,
    MinimumDifficulty <- 4, MaximumDifficulty <- 255, InitialDifficulty <- 22,
    UpgradeHeight <- 125555, AnchorHeight <- 123265, AnchorTimestamp <- 0, AnchorDifficulty <- 35,
    HalfLife <- 600, Ticks <- {60}, MaxHeight <- 125556, MaxTime <- 23010

\* Heights, times and difficulties that docs/consensus-upgrade-audit-v1.2.md publishes.
ASSUME PublishedVectors ==
    \A v \in {<<125555, 22600, 36>>, <<125555, 22780, 35>>, <<125555, 22900, 35>>,
              <<125555, 23020, 35>>, <<125555, 23200, 34>>, <<125555, 27700, 27>>,
              <<125615, 22900, 36>>} :
        Published!ExpectedDifficultyAt(<<>>, v[1], v[2]) = v[3]
=============================================================================
