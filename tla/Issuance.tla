------------------------------ MODULE Issuance ------------------------------
(***************************************************************************)
(* The emission schedule of internal/core/amount.go: how many base units a *)
(* block may mint, and how many have been minted through a height.         *)
(* MaxSupply and EmissionBlocks are 2*10^14 and 31,536,000 in the code.    *)
(***************************************************************************)
EXTENDS Naturals

CONSTANTS MaxSupply,        \* all the units that will ever exist
          EmissionBlocks    \* the number of heights that mint a subsidy

ASSUME IssuanceAssumption ==
    /\ MaxSupply \in Nat
    /\ EmissionBlocks \in Nat \ {0}

BaseSubsidy == MaxSupply \div EmissionBlocks

BonusSubsidyBlocks == MaxSupply % EmissionBlocks

\* What the block at this height mints. Genesis (height 0) mints nothing.
Subsidy(height) ==
    IF height = 0 \/ height > EmissionBlocks THEN 0
    ELSE IF height <= BonusSubsidyBlocks THEN BaseSubsidy + 1
    ELSE BaseSubsidy

\* The closed form of the sum of Subsidy(1), ..., Subsidy(height).
MintedThrough(height) ==
    LET emitted == IF height > EmissionBlocks THEN EmissionBlocks ELSE height
        bonus   == IF emitted > BonusSubsidyBlocks THEN BonusSubsidyBlocks
                                                   ELSE emitted
    IN  emitted * BaseSubsidy + bonus
=============================================================================
