------------------------------ MODULE Consensus ------------------------------
(***************************************************************************)
(* The rules of a header (internal/core/block.go, chain.go, model.go) on   *)
(* the way a header comes about: a miner builds a candidate from its clock *)
(* and the newest headers, rebuilds it when waiting makes it easier, and   *)
(* commits it; peers send any header the rules allow.  The rules change at *)
(* UpgradeHeight.                                                          *)
(*                                                                         *)
(* Hashes, versions and proofs of work always match.  A node checks a      *)
(* header against its newest FirstAdjustment headers, not the whole chain. *)
(***************************************************************************)
EXTENDS Integers, Sequences, FiniteSets

CONSTANTS Start, StartHeight,      \* the chain at first, and the height of its first header
          MedianBlocks, AdjustmentBlocks, FirstAdjustment, TargetSeconds, MaxFuture,
          MinimumDifficulty, MaximumDifficulty, InitialDifficulty,
          UpgradeHeight, AnchorHeight, AnchorTimestamp, AnchorDifficulty, HalfLife,
          None,
          Ticks,                   \* how far the clock may step at once
          MaxHeight, MaxTime       \* bounds of the model

Header == [timestamp : Int, difficulty : MinimumDifficulty..MaximumDifficulty]

ConsensusAssumption ==
    /\ MedianBlocks \in Nat \ {0} /\ AdjustmentBlocks \in Nat \ {0} /\ FirstAdjustment \in Nat
    /\ AdjustmentBlocks + MedianBlocks <= FirstAdjustment
    /\ StartHeight \in Nat /\ UpgradeHeight \in Nat /\ AnchorHeight \in Nat /\ AnchorHeight < UpgradeHeight
    /\ TargetSeconds \in Nat /\ MaxFuture \in Nat /\ HalfLife \in Nat \ {0} /\ AnchorTimestamp \in Int
    /\ MinimumDifficulty \in Nat /\ MaximumDifficulty \in Nat
    /\ AnchorDifficulty \in MinimumDifficulty..MaximumDifficulty
    /\ InitialDifficulty \in MinimumDifficulty..MaximumDifficulty
    /\ Ticks \subseteq Nat /\ MaxTime \in Nat
    /\ Start \in Seq(Header) /\ Start # <<>> /\ Start[Len(Start)].timestamp \in 0..MaxTime
    /\ \A i \in 1..Len(Start) : Start[i].timestamp <= Start[Len(Start)].timestamp + MaxFuture

VARIABLES chain,       \* the active chain, oldest header first
          now,         \* the node's clock
          candidate    \* what the miner works on

vars == <<chain, now, candidate>>

NextHeight(c) == StartHeight + Len(c)
Upgraded(height) == height >= UpgradeHeight

TypeOK ==
    /\ chain \in Seq(Header)
    /\ now \in 0..MaxTime
    /\ candidate # None => candidate \in Header

Init ==
    /\ chain = Start
    /\ now = Start[Len(Start)].timestamp
    /\ candidate = None
-----------------------------------------------------------------------------
(* The window and the median time past.                                    *)

LastOf(c, n) == IF Len(c) <= n THEN c ELSE SubSeq(c, Len(c) - n + 1, Len(c))

\* Mutant: the window holds one adjustment period and no more.
WindowOfPeriod(c) == LastOf(c, AdjustmentBlocks)

Window(c) == LastOf(c, FirstAdjustment)

\* Of an even number the upper middle, as sorting and indexing by half give it.
Median(s) ==
    LET upTo(t) == Cardinality({i \in 1..Len(s) : s[i].timestamp <= t})
        half == Len(s) \div 2
    IN  CHOOSE t \in {s[i].timestamp : i \in 1..Len(s)} :
            upTo(t) > half /\ \A i \in 1..Len(s) : s[i].timestamp < t => upTo(s[i].timestamp) <= half

MedianAt(c, end) == Median(LastOf(SubSeq(c, 1, end), MedianBlocks))

MedianTimePast(c) == MedianAt(c, Len(c))
-----------------------------------------------------------------------------
(* Difficulty.                                                             *)

Clamp(d) == IF d < MinimumDifficulty THEN MinimumDifficulty ELSE IF d > MaximumDifficulty THEN MaximumDifficulty ELSE d

\* Every AdjustmentBlocks blocks by what the last of them took.
LegacyDifficulty(c, height) ==
    LET previous == c[Len(c)].difficulty
        actual == MedianTimePast(c) - MedianAt(c, Len(c) - AdjustmentBlocks)
        target == AdjustmentBlocks * TargetSeconds
    IN  CASE height = 1 -> InitialDifficulty
          [] height # 1 /\ (height < FirstAdjustment \/ height % AdjustmentBlocks # 0) -> previous
          [] OTHER -> CASE actual <= target \div 4 -> Clamp(previous + 2)
                        [] actual > target \div 4 /\ actual < target \div 2 -> Clamp(previous + 1)
                        [] actual >= target * 4 -> Clamp(previous - 2)
                        [] actual < target * 4 /\ actual > target * 2 -> Clamp(previous - 1)
                        [] OTHER -> previous

\* Division that drops the fraction, as Go's Quo does.
Quo(a, b) == IF a < 0 THEN -((-a) \div b) ELSE a \div b

RoundedQuotient(a, b) == Quo(IF a < 0 THEN a - b \div 2 ELSE a + b \div 2, b)

AsertDifficulty(height, timestamp) ==
    LET ideal == (height - AnchorHeight) * TargetSeconds
    IN  Clamp(AnchorDifficulty + RoundedQuotient(ideal - (timestamp - AnchorTimestamp), HalfLife))

ExpectedDifficultyAt(c, height, timestamp) ==
    IF Upgraded(height) THEN AsertDifficulty(height, timestamp) ELSE LegacyDifficulty(c, height)
-----------------------------------------------------------------------------
(* Headers.                                                                *)

TimestampFollows(c, height, t) ==
    t > MedianTimePast(c) /\ (Upgraded(height) => t > c[Len(c)].timestamp)

\* validateHeaderConsensusFields.
ValidHeader(c, header, time) ==
    /\ TimestampFollows(Window(c), NextHeight(c), header.timestamp)
    /\ header.timestamp <= time + MaxFuture
    /\ header.difficulty = ExpectedDifficultyAt(Window(c), NextHeight(c), header.timestamp)

NextTimestamp(c, height, time) ==
    LET afterMedian == MedianTimePast(c) + 1
        afterLast == c[Len(c)].timestamp + 1
        minimum == IF Upgraded(height) /\ afterLast > afterMedian THEN afterLast ELSE afterMedian
    IN  IF time < minimum THEN minimum ELSE time

\* A candidate for the tip of c, built at the given time.
Candidate(c, time) ==
    LET timestamp == NextTimestamp(Window(c), NextHeight(c), time)
    IN  [timestamp |-> timestamp, difficulty |-> ExpectedDifficultyAt(Window(c), NextHeight(c), timestamp)]

NeedsRefresh(header, time) ==
    LET height == NextHeight(chain)
    IN  /\ Upgraded(height) /\ header.difficulty > MinimumDifficulty
        /\ AsertDifficulty(height, IF time > header.timestamp THEN time ELSE header.timestamp) < header.difficulty
-----------------------------------------------------------------------------
Tick(d) ==
    /\ now + d <= MaxTime
    /\ now' = now + d
    /\ UNCHANGED <<chain, candidate>>

BuildMiningCandidate ==
    /\ candidate = None
    /\ candidate' = Candidate(chain, now)
    /\ UNCHANGED <<chain, now>>

Refresh ==
    /\ candidate # None /\ NeedsRefresh(candidate, now)
    /\ candidate' = Candidate(chain, now)
    /\ UNCHANGED <<chain, now>>

\* The work is done; a block that fails validation is dropped.
CommitMinedBlock ==
    /\ candidate # None /\ NextHeight(chain) <= MaxHeight
    /\ chain' = IF ValidHeader(chain, candidate, now) THEN Append(chain, candidate) ELSE chain
    /\ candidate' = None
    /\ UNCHANGED now

\* A peer's block; the tip changes and the candidate with it.
AcceptBlock(t) ==
    LET header == [timestamp |-> t, difficulty |-> ExpectedDifficultyAt(Window(chain), NextHeight(chain), t)]
    IN  /\ NextHeight(chain) <= MaxHeight /\ ValidHeader(chain, header, now)
        /\ chain' = Append(chain, header)
        /\ candidate' = None
        /\ UNCHANGED now

Next ==
    \/ BuildMiningCandidate \/ Refresh \/ CommitMinedBlock
    \/ \E d \in Ticks : Tick(d)
    \/ \E t \in (MedianTimePast(chain) - 1)..(now + MaxFuture) : AcceptBlock(t)

Spec == Init /\ [][Next]_vars
-----------------------------------------------------------------------------
\* Every node agrees on a header whether it holds the chain or the newest headers of
\* it, a node that synchronises headers first included.
WindowIsEnough ==
    \A t \in {now, chain[Len(chain)].timestamp + 1} :
        /\ TimestampFollows(Window(chain), NextHeight(chain), t) <=> TimestampFollows(chain, NextHeight(chain), t)
        /\ ExpectedDifficultyAt(Window(chain), NextHeight(chain), t) = ExpectedDifficultyAt(chain, NextHeight(chain), t)

\* Whatever timestamps peers choose within the rules, around the upgrade too, what the
\* miner works on is valid in a second at the latest.
MinedBlockIsValid == candidate # None => ValidHeader(chain, candidate, now + 1)

\* "Rebuilds only at an actual integer difficulty boundary": a candidate is given up
\* exactly when a new one is easier.
RefreshMeansEasier ==
    candidate # None /\ Upgraded(NextHeight(chain)) =>
        (NeedsRefresh(candidate, now) <=> Candidate(chain, now).difficulty < candidate.difficulty)
=============================================================================
