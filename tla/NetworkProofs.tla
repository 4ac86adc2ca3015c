--------------------------- MODULE NetworkProofs ---------------------------
(***************************************************************************)
(* What Network promises, for any number of peers, chains, messages,       *)
(* requests, dials, crashes and faults and for any limits.                 *)
(*                                                                         *)
(* Each part has an inductive invariant of its own.  Since the parts share *)
(* no state, a step of another one leaves it as it is.                     *)
(***************************************************************************)
EXTENDS Network, SequenceTheorems, FiniteSetTheorems, TLAPS

-----------------------------------------------------------------------------
(* The chain.  What replaces it is one peer's branch with more work, and   *)
(* never below the prune horizon, however many peers, pages, chunks and    *)
(* interruptions there are.  Its work is a recursive function of the       *)
(* height, a sum.                                                          *)

LEMMA SmallestNumber ==
    ASSUME NEW Q \in SUBSET Nat, Q # {}
    PROVE  \E n \in Q : \A m \in Q : n <= m
<1>1. PICK n \in Q : \A m \in Q : ~(<<m, n>> \in OpToRel(<, Nat))
    BY WFMin, NatLessThanWellFounded
<1>2. \A m \in Q : ~(m < n)
    BY <1>1 DEF OpToRel
<1> QED BY <1>2

\* f gives the sum of the first numbers of v, for every number of them up to n.
Sums(v, n, f) == f = [m \in 0..n |-> IF m = 0 THEN 0 ELSE f[m - 1] + v[m]]

Agree(c, d, h) == \A i \in 1..h : c[i] = d[i]

LEMMA SumsOnce ==
    ASSUME NEW c, NEW d, NEW n \in Nat, NEW k \in Nat, NEW f, NEW g,
           Sums(c, n, f), Sums(d, k, g),
           NEW h \in Nat, h <= n, h <= k, Agree(c, d, h)
    PROVE  f[h] = g[h]
<1> SUFFICES ASSUME f[h] # g[h] PROVE FALSE
    OBVIOUS
<1> DEFINE Q == {m \in 0..h : f[m] # g[m]}
<1>1. PICK m \in Q : \A i \in Q : m <= i
  <2>1. Q \in SUBSET Nat /\ h \in Q
      OBVIOUS
  <2> HIDE DEF Q
  <2> QED BY <2>1, SmallestNumber
<1>2. /\ f[m] = IF m = 0 THEN 0 ELSE f[m - 1] + c[m]
      /\ g[m] = IF m = 0 THEN 0 ELSE g[m - 1] + d[m]
  <2>1. m \in 0..n /\ m \in 0..k
      OBVIOUS
  <2> QED BY <2>1, Zenon DEF Sums
<1>3. m # 0
    BY <1>2
<1>4. m - 1 \in 0..h /\ m - 1 \notin Q
    BY <1>1, <1>3
<1>5. f[m - 1] = g[m - 1] /\ c[m] = d[m]
    BY <1>3, <1>4 DEF Agree
<1> QED BY <1>2, <1>5

LEMMA SumsExist ==
    ASSUME NEW k \in Nat, NEW v, \A i \in 1..k : v[i] \in Nat
    PROVE  \E f \in [0..k -> Nat] : Sums(v, k, f)
<1> DEFINE P(n) == \E f \in [0..n -> Nat] : Sums(v, n, f)
           Q == {n \in 0..k : ~P(n)}
<1> SUFFICES ASSUME ~P(k) PROVE FALSE
    OBVIOUS
<1>1. PICK n \in Q : \A i \in Q : n <= i
  <2>1. Q \in SUBSET Nat /\ k \in Q
      OBVIOUS
  <2> HIDE DEF Q
  <2> QED BY <2>1, SmallestNumber
<1>2. n # 0
  <2> DEFINE f == [m \in 0..0 |-> 0]
  <2>1. f \in [0..0 -> Nat] /\ Sums(v, 0, f)
    <3>1. f = [m \in 0..0 |-> IF m = 0 THEN 0 ELSE f[m - 1] + v[m]]
        OBVIOUS
    <3> QED BY <3>1 DEF Sums
  <2>2. P(0)
      BY <2>1
  <2> QED BY <2>2
<1>3. n - 1 \in 0..k /\ n - 1 \notin Q /\ n \in Nat
  <2>1. n \in 0..k
      OBVIOUS
  <2>2. n \in Nat /\ n - 1 \in 0..k /\ ~(n <= n - 1)
      BY <1>2, <2>1
  <2> QED BY <1>1, <2>2
<1>4. PICK f \in [0..(n - 1) -> Nat] : Sums(v, n - 1, f)
    BY <1>3
<1> DEFINE g == [m \in 0..n |-> IF m = n THEN f[n - 1] + v[n] ELSE f[m]]
<1>5. v[n] \in Nat
    BY <1>2, <1>3
<1>6. g \in [0..n -> Nat]
  <2>1. f[n - 1] + v[n] \in Nat
      BY <1>3, <1>5, <1>2
  <2>2. \A m \in 0..n : m # n => m \in 0..(n - 1)
      BY <1>3
  <2> QED BY <2>1, <2>2
<1>7. \A m \in 0..n : g[m] = IF m = 0 THEN 0 ELSE g[m - 1] + v[m]
  <2> SUFFICES ASSUME NEW m \in 0..n
               PROVE  g[m] = IF m = 0 THEN 0 ELSE g[m - 1] + v[m]
      OBVIOUS
  <2>1. m # 0 => m - 1 \in 0..n /\ m - 1 # n /\ g[m - 1] = f[m - 1]
      BY <1>3
  <2>2. CASE m = n
      BY <1>2, <2>1, <2>2
  <2>3. CASE m # n
    <3>1. m \in 0..(n - 1) /\ g[m] = f[m]
        BY <1>3, <2>3
    <3>2. f[m] = IF m = 0 THEN 0 ELSE f[m - 1] + v[m]
        BY <1>4, <3>1, Zenon DEF Sums
    <3> QED BY <2>1, <3>1, <3>2
  <2> QED BY <2>2, <2>3
<1>8. Sums(v, n, g)
  <2>1. g = [m \in 0..n |-> IF m = 0 THEN 0 ELSE g[m - 1] + v[m]]
      BY <1>7
  <2> QED BY <2>1, Zenon DEF Sums
<1>9. P(n)
  <2> HIDE DEF g
  <2> QED BY <1>6, <1>8
<1> QED BY <1>9

\* The work of each block of a chain.
Works(c) == [i \in 1..Len(c) |-> Weight[c[i]]]

WorkSums(c, f) == f = [m \in 0..Len(c) |-> IF m = 0 THEN 0 ELSE f[m - 1] + Weight[c[m]]]

LEMMA WorkChoice ==
    ASSUME NEW c
    PROVE  Work(c) = (CHOOSE f : WorkSums(c, f))[Len(c)]
BY Zenon DEF Work, WorkSums

LEMMA WorkSumsAreSums ==
    ASSUME NEW c \in Seq(Labels), NEW f
    PROVE  WorkSums(c, f) <=> Sums(Works(c), Len(c), f)
<1>1. [m \in 0..Len(c) |-> IF m = 0 THEN 0 ELSE f[m - 1] + Weight[c[m]]]
        = [m \in 0..Len(c) |-> IF m = 0 THEN 0 ELSE f[m - 1] + Works(c)[m]]
    BY LenProperties DEF Works
<1> QED BY <1>1, Zenon DEF WorkSums, Sums

LEMMA WorkIs ==
    ASSUME SyncAssumption, NEW c \in Seq(Labels)
    PROVE  \E f \in [0..Len(c) -> Nat] : Sums(Works(c), Len(c), f) /\ Work(c) = f[Len(c)]
<1>1. PICK f \in [0..Len(c) -> Nat] : Sums(Works(c), Len(c), f)
  <2>1. Len(c) \in Nat /\ \A i \in 1..Len(c) : Works(c)[i] \in Nat
      BY LenProperties, ElementOfSeq DEF Works, SyncAssumption
  <2> QED BY <2>1, SumsExist
<1> DEFINE g == CHOOSE g : WorkSums(c, g)
<1>2. Sums(Works(c), Len(c), g)
  <2>1. WorkSums(c, g)
      BY <1>1, WorkSumsAreSums
  <2> QED BY <2>1, WorkSumsAreSums
<1>3. Work(c) = g[Len(c)]
    BY WorkChoice
<1> HIDE DEF g
<1>4. g[Len(c)] = f[Len(c)]
  <2>1. Agree(Works(c), Works(c), Len(c)) /\ Len(c) \in Nat /\ Len(c) <= Len(c)
      BY LenProperties DEF Agree
  <2> QED BY <1>1, <1>2, <2>1, SumsOnce
<1> QED BY <1>1, <1>3, <1>4

\* Two chains have the same sums through the last block they share.
LEMMA WorkOfNext ==
    ASSUME SyncAssumption, NEW c \in Seq(Labels), NEW d \in Seq(Labels),
           Len(d) = Len(c) + 1, Agree(c, d, Len(c))
    PROVE  Work(d) = Work(c) + Weight[d[Len(d)]] /\ Work(c) \in Nat
<1>1. Len(c) \in Nat /\ Len(d) \in Nat /\ Len(c) <= Len(c) /\ Len(c) <= Len(d)
    BY LenProperties
<1>2. PICK f \in [0..Len(c) -> Nat] : Sums(Works(c), Len(c), f) /\ Work(c) = f[Len(c)]
    BY WorkIs
<1>3. PICK g \in [0..Len(d) -> Nat] : Sums(Works(d), Len(d), g) /\ Work(d) = g[Len(d)]
    BY WorkIs
<1>4. f[Len(c)] = g[Len(c)]
  <2>1. Agree(Works(c), Works(d), Len(c))
      BY <1>1 DEF Agree, Works
  <2> QED BY <1>1, <1>2, <1>3, <2>1, SumsOnce
<1>5. g[Len(d)] = g[Len(c)] + Weight[d[Len(d)]]
  <2>1. Len(d) \in 0..Len(d) /\ Len(d) # 0 /\ Len(d) - 1 = Len(c)
      BY <1>1
  <2>2. g[Len(d)] = IF Len(d) = 0 THEN 0 ELSE g[Len(d) - 1] + Works(d)[Len(d)]
      BY <1>3, <2>1, Zenon DEF Sums
  <2>3. Works(d)[Len(d)] = Weight[d[Len(d)]]
      BY <1>1, <2>1 DEF Works
  <2> QED BY <2>1, <2>2, <2>3
<1>6. Len(c) \in 0..Len(c) /\ f[Len(c)] \in Nat
    BY <1>1
<1> QED BY <1>2, <1>3, <1>4, <1>5, <1>6

\* One more block is more work.
LEMMA WorkAppend ==
    ASSUME SyncAssumption, NEW c \in Seq(Labels), NEW l \in Labels
    PROVE  Work(Append(c, l)) > Work(c)
<1> DEFINE d == Append(c, l)
<1>1. /\ d \in Seq(Labels) /\ Len(c) \in Nat /\ Len(d) = Len(c) + 1 /\ d[Len(d)] = l
      /\ Agree(c, d, Len(c))
    BY AppendProperties, LenProperties DEF Agree
<1>2. Work(d) = Work(c) + Weight[d[Len(d)]] /\ Work(c) \in Nat
  <2> HIDE DEF d
  <2> QED BY <1>1, WorkOfNext
<1>3. Weight[l] \in Nat /\ Weight[l] # 0
    BY DEF SyncAssumption
<1> HIDE DEF d
<1>4. Work(d) > Work(c)
    BY <1>1, <1>2, <1>3
<1> QED BY <1>4 DEF d
-----------------------------------------------------------------------------
(* The invariant.                                                          *)

\* What a round of syncPeerMode can hold between two steps.
RoundRecord ==
    [pc : {"idle", "want", "headers", "stage", "replace", "again"},
     tip : Seq(Labels), target : Seq(Labels), locator : Seq(Labels),
     got : Seq(Labels) \cup {NoChain}, ancestor : Nat, diverged : BOOLEAN,
     candidate : Seq(Labels), chunk : 0..MaxChunks]

InSlot(r) == r.pc \in {"headers", "stage", "replace"}

\* The candidate of a round that stages or replaces goes beyond its ancestor.
RoundOK(r) ==
    /\ r \in RoundRecord
    /\ r.pc # "idle" => r.target \in PeerChains
    /\ r.pc \in {"stage", "replace"} => r.ancestor < Len(r.candidate)

ChainsOK ==
    /\ local \in Seq(Labels)
    /\ pruned \in 0..Len(local)
    /\ peer \in [Peers -> PeerChains]
    /\ changes \in 0..MaxChanges

RoundsOK ==
    /\ slot \in Peers \cup {Nobody}
    /\ sync \in [Peers -> RoundRecord]
    /\ \A p \in Peers : RoundOK(sync[p]) /\ (InSlot(sync[p]) <=> slot = p)

PausesOK == paused \in [Peers -> PeerChains \cup {NoChain}]

SyncInv == ChainsOK /\ RoundsOK /\ PausesOK

LEMMA MaxOfTwo ==
    ASSUME NEW a \in Int, NEW b \in Int
    PROVE  Max({a, b}) = IF a >= b THEN a ELSE b
<1> DEFINE m == IF a >= b THEN a ELSE b
<1>1. m \in {a, b} /\ \A y \in {a, b} : m >= y
    OBVIOUS
<1>2. \A x \in {a, b} : (\A y \in {a, b} : x >= y) => x = m
    OBVIOUS
<1> HIDE DEF m
<1>3. Max({a, b}) = m
    BY <1>1, <1>2 DEF Max
<1> QED BY <1>3 DEF m

LEMMA MinOfTwo ==
    ASSUME NEW a \in Int, NEW b \in Int
    PROVE  Min({a, b}) = IF a <= b THEN a ELSE b
<1> DEFINE m == IF a <= b THEN a ELSE b
<1>1. m \in {a, b} /\ \A y \in {a, b} : m <= y
    OBVIOUS
<1>2. \A x \in {a, b} : (\A y \in {a, b} : x <= y) => x = m
    OBVIOUS
<1> HIDE DEF m
<1>3. Min({a, b}) = m
    BY <1>1, <1>2 DEF Min
<1> QED BY <1>3 DEF m

LEMMA SharedIsNat ==
    ASSUME NEW S, NEW T, NEW c \in Seq(S), NEW d \in Seq(T)
    PROVE  Shared(c, d) \in Nat
<1> DEFINE H == {h \in (DOMAIN c) \cap (DOMAIN d) : \A i \in 1..h : c[i] = d[i]}
<1>1. IsFiniteSet(1..Len(c)) /\ H \subseteq 1..Len(c)
  <2>1. Len(c) \in Nat /\ DOMAIN c = 1..Len(c)
      BY LenProperties
  <2> QED BY <2>1, FS_Interval
<1>2. IsFiniteSet(H)
    BY <1>1, FS_Subset
<1>3. Cardinality(H) \in Nat
    BY <1>2, FS_CardinalityType
<1> QED BY <1>3 DEF Shared

\* The first blocks of a chain.
LEMMA UptoIs ==
    ASSUME NEW S, NEW c \in Seq(S), NEW h \in 0..Len(c)
    PROVE  /\ Upto(c, h) \in Seq(S)
           /\ Len(Upto(c, h)) = h
           /\ \A i \in 1..h : Upto(c, h)[i] = c[i]
BY SubSeqProperties, LenProperties DEF Upto

\* Chains that agree through a height agree through every lower one.
LEMMA UptoLower ==
    ASSUME NEW S, NEW c \in Seq(S), NEW d \in Seq(S), NEW a \in 0..Len(c), a <= Len(d),
           Upto(c, a) = Upto(d, a), NEW h \in 0..a
    PROVE  Upto(c, h) = Upto(d, h)
<1>1. /\ a \in 0..Len(d) /\ h \in 0..Len(c) /\ h \in 0..Len(d)
      /\ Len(c) \in Nat /\ Len(d) \in Nat
    BY LenProperties
<1>2. \A i \in 1..a : c[i] = d[i]
    BY <1>1, UptoIs
<1>3. \A i \in 1..h : Upto(c, h)[i] = Upto(d, h)[i]
  <2>1. \A i \in 1..h : i \in 1..a
      BY <1>1
  <2> QED BY <1>1, <1>2, <2>1, UptoIs
<1>4. /\ Upto(c, h) \in Seq(S) /\ Upto(d, h) \in Seq(S)
      /\ Len(Upto(c, h)) = h /\ Len(Upto(d, h)) = h
    BY <1>1, UptoIs
<1> HIDE DEF Upto
<1> QED BY <1>3, <1>4, SeqEqual

\* A chain is its first blocks and the others.
LEMMA UptoAndRest ==
    ASSUME NEW S, NEW c \in Seq(S), NEW h \in 0..Len(c)
    PROVE  Upto(c, h) \o SubSeq(c, h + 1, Len(c)) = c
<1>1. Len(c) \in Nat /\ h \in Nat
    BY LenProperties
<1> DEFINE u == Upto(c, h)
           r == SubSeq(c, h + 1, Len(c))
<1>2. u \in Seq(S) /\ Len(u) = h /\ \A i \in 1..h : u[i] = c[i]
    BY UptoIs
<1>3. r \in Seq(S) /\ Len(r) = Len(c) - h /\ \A i \in 1..(Len(c) - h) : r[i] = c[h + i]
    BY <1>1, SubSeqProperties
<1> HIDE DEF u, r
<1>4. u \o r \in Seq(S) /\ Len(u \o r) = Len(c)
    BY <1>1, <1>2, <1>3, ConcatProperties
<1>5. \A i \in 1..Len(c) : (u \o r)[i] = c[i]
  <2> SUFFICES ASSUME NEW i \in 1..Len(c) PROVE (u \o r)[i] = c[i]
      OBVIOUS
  <2>1. (u \o r)[i] = IF i <= h THEN u[i] ELSE r[i - h]
      BY <1>1, <1>2, <1>3, ConcatProperties
  <2> QED BY <1>1, <1>2, <1>3, <2>1
<1>6. u \o r = c
    BY <1>4, <1>5, SeqEqual
<1> QED BY <1>6 DEF u, r
-----------------------------------------------------------------------------
(* What a page of headers gives.                                           *)

LEMMA NoChainIsNone ==
    ASSUME NobodyAssumption
    PROVE  NoChain \notin Seq(Labels)
<1> SUFFICES ASSUME NoChain \in Seq(Labels) PROVE FALSE
    OBVIOUS
<1>1. Len(NoChain) = 1 /\ NoChain[1] = "none"
    BY DEF NoChain
<1>2. NoChain[1] \in Labels
    BY <1>1, ElementOfSeq
<1> QED BY <1>1, <1>2 DEF NobodyAssumption

\* A chain of a peer is known, and so is what is received of it.
LEMMA ReceivedIs ==
    ASSUME SyncAssumption, SyncInv, NEW p \in Peers, sync[p].pc = "headers"
    PROVE  /\ CommonHeight(p) \in Nat
           /\ Received(p) \in Seq(Labels)
<1>1. /\ peer[p] \in PeerChains /\ peer[p] \in Seq(Labels)
      /\ sync[p].locator \in Seq(Labels) /\ sync[p].got \in Seq(Labels) \cup {NoChain}
      /\ Page \in Nat
    BY DEF SyncInv, ChainsOK, RoundsOK, RoundRecord, SyncAssumption
<1>2. CommonHeight(p) \in Nat
  <2>1. CASE First(p)
    <3>1. Shared(peer[p], sync[p].locator) \in Nat
        BY <1>1, SharedIsNat
    <3> QED BY <2>1, <3>1 DEF CommonHeight
  <2>2. CASE ~First(p)
    <3>1. sync[p].got \in Seq(Labels)
        BY <1>1, <2>2 DEF First
    <3>2. Shared(peer[p], sync[p].got) \in Nat
        BY <1>1, <3>1, SharedIsNat
    <3> QED BY <2>2, <3>2 DEF CommonHeight
  <2> QED BY <2>1, <2>2
<1>3. Min({CommonHeight(p) + Page, Len(peer[p])}) \in 0..Len(peer[p])
  <2>1. Len(peer[p]) \in Nat
      BY <1>1, LenProperties
  <2>2. /\ CommonHeight(p) + Page \in Int /\ CommonHeight(p) + Page >= 0
        /\ Len(peer[p]) \in Int
      BY <1>1, <1>2, <2>1
  <2>3. Min({CommonHeight(p) + Page, Len(peer[p])})
            = IF CommonHeight(p) + Page <= Len(peer[p]) THEN CommonHeight(p) + Page ELSE Len(peer[p])
      BY <2>2, MinOfTwo
  <2> QED BY <2>1, <2>2, <2>3
<1>4. Received(p) \in Seq(Labels)
  <2> DEFINE m == Min({CommonHeight(p) + Page, Len(peer[p])})
  <2>1. m \in 0..Len(peer[p])
      BY <1>3
  <2>2. Received(p) = Upto(peer[p], m)
      BY DEF Received
  <2> HIDE DEF m
  <2> QED BY <1>1, <2>1, <2>2, UptoIs
<1> QED BY <1>2, <1>4

LEMMA AncestorIsNat ==
    ASSUME SyncAssumption, SyncInv, NEW p \in Peers, sync[p].pc = "headers"
    PROVE  Ancestor(p) \in Nat
<1> DEFINE n == CommonHeight(p)
           s == Shared(local, Received(p))
           k == Len(sync[p].tip)
           same == Min({s, k})
           a == sync[p].ancestor
<1>1. n \in Nat /\ s \in Nat /\ k \in Nat /\ a \in Nat
  <2>1. /\ local \in Seq(Labels) /\ sync[p].tip \in Seq(Labels) /\ a \in Nat
      BY DEF SyncInv, ChainsOK, RoundsOK, RoundRecord
  <2> QED BY <2>1, ReceivedIs, SharedIsNat, LenProperties
<1>2. Ancestor(p) = IF sync[p].diverged THEN a
                    ELSE IF First(p) \/ same > n THEN Max({n, same}) ELSE a
    BY DEF Ancestor
<1> HIDE DEF n, s, k, a
<1>3. same \in Nat
    BY <1>1, MinOfTwo
<1> HIDE DEF same
<1>4. Max({n, same}) \in Nat
    BY <1>1, <1>3, MaxOfTwo
<1> QED BY <1>1, <1>2, <1>4

\* What is offered to the ledger goes beyond the ancestor.
LEMMA CandidateIs ==
    ASSUME SyncAssumption, SyncInv, NEW p \in Peers, Offers(p)
    PROVE  Candidate(p) \in Seq(Labels) /\ Ancestor(p) < Len(Candidate(p))
<1> DEFINE r == Received(p)
           a == Ancestor(p)
           m == Min({a + Page, Len(r)})
<1>1. sync[p].pc = "headers" /\ a < Len(r)
    BY DEF Offers
<1>2. r \in Seq(Labels) /\ a \in Nat
    BY <1>1, ReceivedIs, AncestorIsNat
<1>3. Candidate(p) = Upto(r, m) \/ Candidate(p) = r
    BY DEF Candidate
<1>4. Len(r) \in Nat /\ Page \in Nat /\ Page # 0
    BY <1>2, LenProperties DEF SyncAssumption
<1> HIDE DEF r, a
<1>5. m \in 0..Len(r) /\ a < m
  <2>1. a + Page \in Int /\ Len(r) \in Int
      BY <1>2, <1>4
  <2>2. m = IF a + Page <= Len(r) THEN a + Page ELSE Len(r)
      BY <2>1, MinOfTwo
  <2> QED BY <1>1, <1>2, <1>4, <2>2
<1> HIDE DEF m
<1>6. Upto(r, m) \in Seq(Labels) /\ Len(Upto(r, m)) = m
    BY <1>2, <1>5, UptoIs
<1>7. Candidate(p) \in Seq(Labels) /\ a < Len(Candidate(p))
    BY <1>1, <1>2, <1>3, <1>5, <1>6
<1> QED BY <1>7 DEF a

\* What replaces the local chain is the candidate itself, and it differs from the
\* local chain above the horizon only.
LEMMA ReplacementIs ==
    ASSUME SyncInv, NEW p \in Peers, sync[p].pc = "replace", Replaces(p)
    PROVE  /\ Replacement(p) = sync[p].candidate
           /\ sync[p].candidate \in Seq(Labels)
           /\ pruned < Len(sync[p].candidate)
           /\ Upto(sync[p].candidate, pruned) = Upto(local, pruned)
<1> DEFINE a == sync[p].ancestor
           c == sync[p].candidate
<1>1. /\ local \in Seq(Labels) /\ pruned \in 0..Len(local)
      /\ a \in Nat /\ c \in Seq(Labels) /\ a < Len(c)
    BY DEF SyncInv, ChainsOK, RoundsOK, RoundOK, RoundRecord
<1>2. a <= Len(local) /\ a >= pruned /\ Upto(local, a) = Upto(c, a)
    BY DEF Replaces
<1>3. Replacement(p) = Upto(local, a) \o SubSeq(c, a + 1, Len(c))
    BY DEF Replacement
<1> HIDE DEF a, c
<1>4. /\ Len(local) \in Nat /\ Len(c) \in Nat
      /\ a \in 0..Len(local) /\ a \in 0..Len(c) /\ pruned \in 0..a
    BY <1>1, <1>2, LenProperties
<1>5. Replacement(p) = c
    BY <1>1, <1>2, <1>3, <1>4, UptoAndRest
<1>6. Upto(local, pruned) = Upto(c, pruned)
    BY <1>1, <1>2, <1>4, UptoLower
<1>7. pruned < Len(c)
    BY <1>1, <1>4
<1> QED BY <1>1, <1>5, <1>6, <1>7 DEF c

\* The horizon never passes the tip.
LEMMA HorizonIs ==
    ASSUME SyncAssumption, SyncInv, NEW c \in Seq(Labels), pruned <= Len(c)
    PROVE  Horizon(c) \in 0..Len(c)
<1>1. pruned \in Nat /\ Len(c) \in Nat /\ Depth \in Nat
  <2>1. pruned \in 0..Len(local) /\ Len(local) \in Nat
      BY LenProperties DEF SyncInv, ChainsOK
  <2> QED BY <2>1, LenProperties DEF SyncAssumption
<1>2. Len(c) - Depth \in Int /\ pruned \in Int
    BY <1>1
<1>3. Max({pruned, Len(c) - Depth}) = IF pruned >= Len(c) - Depth THEN pruned ELSE Len(c) - Depth
    BY <1>2, MaxOfTwo
<1>4. Horizon(c) = IF Depth = 0 THEN pruned ELSE Max({pruned, Len(c) - Depth})
    BY DEF Horizon
<1> QED BY <1>1, <1>3, <1>4

\* One round moves on, the others do not: the slot is held by exactly the rounds that
\* are in it.
LEMMA RoundMoves ==
    ASSUME NobodyAssumption, SyncInv, NEW p \in Peers, NEW r, RoundOK(r),
           sync' = [sync EXCEPT ![p] = r],
           \/ slot' = slot /\ (InSlot(r) <=> InSlot(sync[p]))
           \/ slot' = p /\ slot = Nobody /\ InSlot(r)
           \/ slot' = Nobody /\ slot = p /\ ~InSlot(r)
    PROVE  RoundsOK'
<1>1. /\ slot \in Peers \cup {Nobody} /\ sync \in [Peers -> RoundRecord]
      /\ \A q \in Peers : RoundOK(sync[q]) /\ (InSlot(sync[q]) <=> slot = q)
    BY DEF SyncInv, RoundsOK
<1>2. r \in RoundRecord
    BY DEF RoundOK
<1>3. slot' \in Peers \cup {Nobody} /\ sync' \in [Peers -> RoundRecord]
    BY <1>1, <1>2
<1>4. ASSUME NEW q \in Peers PROVE RoundOK(sync'[q]) /\ (InSlot(sync'[q]) <=> slot' = q)
  <2>1. CASE q = p
    <3>1. sync'[q] = r
        BY <1>1, <2>1
    <3>2. InSlot(r) <=> slot' = q
        BY <1>1, <2>1 DEF NobodyAssumption
    <3> QED BY <3>1, <3>2
  <2>2. CASE q # p
    <3>1. sync'[q] = sync[q]
        BY <1>1, <2>2
    <3>2. slot = q <=> slot' = q
        BY <1>1, <2>2 DEF NobodyAssumption
    <3> QED BY <1>1, <3>1, <3>2
  <2> QED BY <2>1, <2>2
<1> QED BY <1>3, <1>4 DEF RoundsOK, RoundOK, InSlot

\* A round that is over, or not begun, holds nothing.
LEMMA NoSyncOK ==
    ASSUME SyncAssumption, NEW pc \in {"idle", "want", "again"}, NEW tip \in Seq(Labels),
           NEW target \in Seq(Labels), pc # "idle" => target \in PeerChains,
           NEW chunk \in 0..MaxChunks
    PROVE  LET r == [NoSync EXCEPT !.pc = pc, !.tip = tip, !.target = target, !.chunk = chunk]
           IN  RoundOK(r) /\ ~InSlot(r)
<1>1. <<>> \in Seq(Labels)
    BY EmptySeq
<1> QED BY <1>1 DEF NoSync, RoundOK, RoundRecord, InSlot, NoChain

LEMMA FirstOK ==
    ASSUME SyncAssumption, NEW tip \in Seq(Labels),
           NEW target \in Seq(Labels), target \in PeerChains
    PROVE  LET r == [NoSync EXCEPT !.pc = "want", !.tip = tip, !.target = target]
           IN  RoundOK(r) /\ ~InSlot(r)
<1>1. <<>> \in Seq(Labels) /\ 0 \in 0..MaxChunks
    BY EmptySeq DEF SyncAssumption
<1> QED BY <1>1 DEF NoSync, RoundOK, RoundRecord, InSlot, NoChain

LEMMA FinishOK ==
    ASSUME SyncAssumption, NobodyAssumption, SyncInv, NEW p \in Peers, Finish(p)
    PROVE  RoundsOK'
<1>1. RoundOK(NoSync) /\ ~InSlot(NoSync)
    BY EmptySeq DEF NoSync, RoundOK, RoundRecord, InSlot, NoChain, SyncAssumption
<1>2. /\ sync' = [sync EXCEPT ![p] = NoSync]
      /\ slot' = IF slot = p THEN Nobody ELSE slot
    BY DEF Finish
<1>3. InSlot(sync[p]) <=> slot = p
    BY DEF SyncInv, RoundsOK
<1>4. CASE slot = p
    BY <1>1, <1>2, <1>4, RoundMoves
<1>5. CASE slot # p
    BY <1>1, <1>2, <1>3, <1>5, RoundMoves
<1> QED BY <1>4, <1>5
-----------------------------------------------------------------------------
(* Every step keeps the invariant.                                         *)

LEMMA InitInv ==
    ASSUME SyncAssumption, NobodyAssumption, Init
    PROVE  SyncInv
<1>1. ChainsOK
  <2>1. local \in Seq(Labels) /\ Len(local) \in Nat
      BY LenProperties DEF Init, SyncAssumption
  <2> QED BY <2>1 DEF Init, ChainsOK, SyncAssumption
<1>2. RoundsOK
  <2>1. RoundOK(NoSync) /\ ~InSlot(NoSync)
      BY EmptySeq DEF NoSync, RoundOK, RoundRecord, InSlot, NoChain, SyncAssumption
  <2>2. sync \in [Peers -> RoundRecord] /\ \A p \in Peers : sync[p] = NoSync
      BY <2>1 DEF Init, RoundOK
  <2>3. slot = Nobody /\ \A p \in Peers : slot # p
      BY DEF Init, NobodyAssumption
  <2> QED BY <2>1, <2>2, <2>3 DEF RoundsOK
<1>3. PausesOK
    BY DEF Init, PausesOK
<1> QED BY <1>1, <1>2, <1>3 DEF SyncInv

\* What no step of a round but its end touches.
LEMMA ChainsRest ==
    ASSUME SyncInv, UNCHANGED <<local, pruned, peer, changes>>
    PROVE  ChainsOK'
BY DEF SyncInv, ChainsOK

LEMMA PauseOK ==
    ASSUME SyncInv, NEW p \in Peers, NEW c \in PeerChains \cup {NoChain},
           paused' = [paused EXCEPT ![p] = c]
    PROVE  PausesOK'
BY DEF SyncInv, PausesOK

LEMMA BeginInv ==
    ASSUME SyncAssumption, NobodyAssumption, SyncInv, NEW p \in Peers, BeginSync(p)
    PROVE  SyncInv'
<1> DEFINE r == [NoSync EXCEPT !.pc = "want", !.tip = local, !.target = peer[p]]
<1>1. RoundOK(r) /\ ~InSlot(r)
  <2>1. local \in Seq(Labels) /\ peer[p] \in PeerChains /\ peer[p] \in Seq(Labels)
      BY DEF SyncInv, ChainsOK, SyncAssumption
  <2> QED BY <2>1, FirstOK
<1>2. sync' = [sync EXCEPT ![p] = r] /\ slot' = slot /\ ~InSlot(sync[p])
    BY DEF BeginSync, InSlot
<1> HIDE DEF r
<1>3. RoundsOK'
    BY <1>1, <1>2, RoundMoves
<1>4. ChainsOK' /\ PausesOK'
    BY ChainsRest, PauseOK DEF BeginSync
<1> QED BY <1>3, <1>4 DEF SyncInv

LEMMA EnterInv ==
    ASSUME SyncAssumption, NobodyAssumption, SyncInv, NEW p \in Peers, EnterSlot(p)
    PROVE  SyncInv'
<1> DEFINE r == [sync[p] EXCEPT !.pc = "headers", !.locator = local, !.got = NoChain,
                                !.diverged = FALSE]
<1>1. RoundOK(sync[p]) /\ local \in Seq(Labels) /\ sync[p].pc = "want"
    BY DEF SyncInv, ChainsOK, RoundsOK, EnterSlot
<1>2. RoundOK(r) /\ InSlot(r)
    BY <1>1 DEF RoundOK, RoundRecord, InSlot
<1>3. sync' = [sync EXCEPT ![p] = r]
    BY DEF EnterSlot
<1> HIDE DEF r
<1>4. RoundsOK'
    BY <1>2, <1>3, RoundMoves DEF EnterSlot
<1>5. ChainsOK' /\ PausesOK'
    BY ChainsRest DEF EnterSlot, SyncInv, PausesOK
<1> QED BY <1>4, <1>5 DEF SyncInv

\* Steps that end the round, and perhaps pause the peer.
LEMMA EndInv ==
    ASSUME SyncAssumption, NobodyAssumption, SyncInv, NEW p \in Peers,
           GiveUp(p) \/ HeadersRefused(p) \/ PauseForResync(p) \/ StageFails(p) \/ ReplaceRefused(p)
    PROVE  SyncInv'
<1>1. Finish(p)
    BY DEF GiveUp, HeadersRefused, PauseForResync, StageFails, ReplaceRefused
<1>2. RoundsOK'
    BY <1>1, FinishOK
<1>3. ChainsOK'
  <2>1. CASE GiveUp(p)
      BY <2>1 DEF GiveUp, SyncInv, ChainsOK, SyncAssumption
  <2>2. CASE ~GiveUp(p)
      BY <2>2, ChainsRest DEF HeadersRefused, PauseForResync, StageFails, ReplaceRefused
  <2> QED BY <2>1, <2>2
<1>4. PausesOK'
  <2>1. CASE PauseForResync(p) \/ ReplaceRefused(p)
    <3>1. sync[p].target \in PeerChains
        BY <2>1 DEF SyncInv, RoundsOK, RoundOK, PauseForResync, Offers, ReplaceRefused
    <3>2. paused' = [paused EXCEPT ![p] = sync[p].target] \/ paused' = paused
        BY <2>1 DEF PauseForResync, ReplaceRefused
    <3> QED BY <3>1, <3>2, PauseOK DEF SyncInv, PausesOK
  <2>2. CASE GiveUp(p) \/ HeadersRefused(p) \/ StageFails(p)
      BY <2>2 DEF GiveUp, HeadersRefused, StageFails, SyncInv, PausesOK
  <2> QED BY <2>1, <2>2
<1> QED BY <1>2, <1>3, <1>4 DEF SyncInv

LEMMA WeakerInv ==
    ASSUME SyncAssumption, NobodyAssumption, SyncInv, NEW p \in Peers, HeadersWeaker(p)
    PROVE  SyncInv'
<1>1. /\ sync[p].pc = "headers" /\ slot = p
      /\ RoundOK(sync[p]) /\ InSlot(sync[p])
    BY DEF HeadersWeaker, SyncInv, RoundsOK, InSlot
<1>2. ChainsOK' /\ PausesOK'
    BY ChainsRest DEF HeadersWeaker, SyncInv, PausesOK
<1>3. RoundsOK'
  <2>1. CASE Len(Received(p)) - CommonHeight(p) < Page
    <3> DEFINE r == [NoSync EXCEPT !.pc = "again", !.tip = sync[p].tip,
                                   !.target = sync[p].target, !.chunk = sync[p].chunk]
    <3>1. /\ sync[p].tip \in Seq(Labels) /\ sync[p].target \in Seq(Labels)
          /\ sync[p].target \in PeerChains /\ sync[p].chunk \in 0..MaxChunks
        BY <1>1 DEF RoundOK, RoundRecord
    <3>2. RoundOK(r) /\ ~InSlot(r)
        BY <3>1, NoSyncOK
    <3>3. sync' = [sync EXCEPT ![p] = r] /\ slot' = Nobody
        BY <2>1 DEF HeadersWeaker
    <3> HIDE DEF r
    <3> QED BY <1>1, <3>2, <3>3, RoundMoves
  <2>2. CASE ~(Len(Received(p)) - CommonHeight(p) < Page)
    <3> DEFINE diverged == Ancestor(p) < Len(Received(p))
               r == [sync[p] EXCEPT !.got = Received(p), !.ancestor = Ancestor(p),
                                    !.diverged = diverged]
    <3>1. Received(p) \in Seq(Labels) /\ Ancestor(p) \in Nat /\ diverged \in BOOLEAN
        BY <1>1, ReceivedIs, AncestorIsNat
    <3>2. sync' = [sync EXCEPT ![p] = r] /\ slot' = slot
        BY <2>2 DEF HeadersWeaker
    <3> HIDE DEF diverged
    <3>3. RoundOK(r) /\ InSlot(r)
        BY <1>1, <3>1 DEF RoundOK, RoundRecord, InSlot
    <3> HIDE DEF r
    <3> QED BY <1>1, <3>2, <3>3, RoundMoves
  <2> QED BY <2>1, <2>2
<1> QED BY <1>2, <1>3 DEF SyncInv

LEMMA StrongerInv ==
    ASSUME SyncAssumption, NobodyAssumption, SyncInv, NEW p \in Peers, HeadersStronger(p)
    PROVE  SyncInv'
<1>1. Offers(p) /\ sync[p].pc = "headers" /\ RoundOK(sync[p]) /\ InSlot(sync[p])
    BY DEF HeadersStronger, Offers, SyncInv, RoundsOK, InSlot
<1>2. ChainsOK' /\ PausesOK'
    BY ChainsRest DEF HeadersStronger, SyncInv, PausesOK
<1> DEFINE r == [sync[p] EXCEPT !.pc = "stage", !.ancestor = Ancestor(p), !.candidate = Candidate(p),
                                !.locator = <<>>, !.got = NoChain, !.diverged = FALSE]
<1>3. /\ Ancestor(p) \in Nat /\ Candidate(p) \in Seq(Labels)
      /\ Ancestor(p) < Len(Candidate(p))
    BY <1>1, AncestorIsNat, CandidateIs
<1>4. sync' = [sync EXCEPT ![p] = r] /\ slot' = slot
    BY DEF HeadersStronger
<1>5. RoundOK(r) /\ InSlot(r)
    BY <1>1, <1>3, EmptySeq DEF RoundOK, RoundRecord, InSlot
<1> HIDE DEF r
<1>6. RoundsOK'
    BY <1>1, <1>4, <1>5, RoundMoves
<1> QED BY <1>2, <1>6 DEF SyncInv

LEMMA StageInv ==
    ASSUME SyncAssumption, NobodyAssumption, SyncInv, NEW p \in Peers, StageBlocks(p)
    PROVE  SyncInv'
<1> DEFINE r == [sync[p] EXCEPT !.pc = "replace"]
<1>1. sync[p].pc = "stage" /\ RoundOK(sync[p]) /\ InSlot(sync[p])
    BY DEF StageBlocks, SyncInv, RoundsOK, InSlot
<1>2. RoundOK(r) /\ InSlot(r)
    BY <1>1 DEF RoundOK, RoundRecord, InSlot
<1>3. sync' = [sync EXCEPT ![p] = r] /\ slot' = slot
    BY DEF StageBlocks
<1> HIDE DEF r
<1>4. RoundsOK'
    BY <1>1, <1>2, <1>3, RoundMoves
<1>5. ChainsOK' /\ PausesOK'
    BY ChainsRest DEF StageBlocks, SyncInv, PausesOK
<1> QED BY <1>4, <1>5 DEF SyncInv

LEMMA ReplaceInv ==
    ASSUME SyncAssumption, NobodyAssumption, SyncInv, NEW p \in Peers, ReplaceChain(p)
    PROVE  SyncInv'
<1> DEFINE r == [sync[p] EXCEPT !.pc = "again", !.ancestor = 0, !.candidate = <<>>]
<1>1. /\ sync[p].pc = "replace" /\ Replaces(p) /\ slot = p
      /\ RoundOK(sync[p]) /\ InSlot(sync[p])
    BY DEF ReplaceChain, SyncInv, RoundsOK, InSlot
<1>2. RoundOK(r) /\ ~InSlot(r)
    BY <1>1, EmptySeq DEF RoundOK, RoundRecord, InSlot
<1>3. sync' = [sync EXCEPT ![p] = r] /\ slot' = Nobody
    BY DEF ReplaceChain
<1> HIDE DEF r
<1>4. RoundsOK'
    BY <1>1, <1>2, <1>3, RoundMoves
<1>5. ChainsOK'
  <2>1. /\ local' = sync[p].candidate /\ local' \in Seq(Labels) /\ pruned < Len(local')
        /\ pruned' = Horizon(local')
      BY <1>1, ReplacementIs DEF ReplaceChain
  <2>2. pruned <= Len(local')
      BY <2>1, LenProperties DEF SyncInv, ChainsOK
  <2>3. pruned' \in 0..Len(local')
      BY <2>1, <2>2, HorizonIs
  <2> QED BY <2>1, <2>3 DEF ReplaceChain, SyncInv, ChainsOK
<1>6. PausesOK'
    BY DEF ReplaceChain, SyncInv, PausesOK
<1> QED BY <1>4, <1>5, <1>6 DEF SyncInv

LEMMA ChunkInv ==
    ASSUME SyncAssumption, NobodyAssumption, SyncInv, NEW p \in Peers, NextChunk(p)
    PROVE  SyncInv'
<1> DEFINE over == local = sync[p].tip \/ local = sync[p].target \/ sync[p].chunk + 1 >= MaxChunks
           chunk == sync[p].chunk + 1
           r == [NoSync EXCEPT !.pc = "want", !.tip = local, !.target = sync[p].target,
                               !.chunk = chunk]
<1>1. /\ sync[p].pc = "again" /\ RoundOK(sync[p]) /\ ~InSlot(sync[p])
      /\ local \in Seq(Labels)
    BY DEF NextChunk, SyncInv, RoundsOK, ChainsOK, InSlot
<1>2. RoundsOK'
  <2>1. CASE over
    <3>1. Finish(p)
      <4>1. slot # p
          BY <1>1 DEF SyncInv, RoundsOK
      <4> QED BY <2>1, <4>1 DEF NextChunk, Finish
    <3> QED BY <3>1, FinishOK
  <2>2. CASE ~over
    <3>1. /\ sync[p].target \in Seq(Labels) /\ sync[p].target \in PeerChains
          /\ chunk \in 0..MaxChunks
      <4>1. sync[p].chunk \in 0..MaxChunks /\ MaxChunks \in Nat
          BY <1>1 DEF RoundOK, RoundRecord, SyncAssumption
      <4>2. ~(sync[p].chunk + 1 >= MaxChunks)
          BY <2>2
      <4>3. chunk \in 0..MaxChunks
          BY <4>1, <4>2
      <4> QED BY <1>1, <4>3 DEF RoundOK, RoundRecord
    <3>2. sync' = [sync EXCEPT ![p] = r] /\ slot' = slot
        BY <2>2 DEF NextChunk
    <3> HIDE DEF chunk
    <3>3. RoundOK(r) /\ ~InSlot(r)
        BY <1>1, <3>1, NoSyncOK
    <3> HIDE DEF r
    <3> QED BY <1>1, <3>2, <3>3, RoundMoves
  <2> QED BY <2>1, <2>2
<1>3. ChainsOK' /\ PausesOK'
    BY ChainsRest DEF NextChunk, SyncInv, PausesOK
<1> QED BY <1>2, <1>3 DEF SyncInv

LEMMA ExtendInv ==
    ASSUME SyncAssumption, SyncInv, NEW l \in Labels, Extend(l)
    PROVE  SyncInv'
<1>1. ChainsOK'
  <2>1. /\ local \in Seq(Labels) /\ pruned \in 0..Len(local) /\ Len(local) \in Nat
      BY LenProperties DEF SyncInv, ChainsOK
  <2>2. /\ local' = Append(local, l) /\ pruned' = Horizon(local')
        /\ UNCHANGED <<peer, changes>>
      BY DEF Extend
  <2>3. local' \in Seq(Labels) /\ Len(local') = Len(local) + 1
      BY <2>1, <2>2, AppendProperties
  <2>4. pruned <= Len(local')
      BY <2>1, <2>3
  <2>5. pruned' \in 0..Len(local')
      BY <2>2, <2>3, <2>4, HorizonIs
  <2> QED BY <2>2, <2>3, <2>5 DEF SyncInv, ChainsOK
<1>2. RoundsOK' /\ PausesOK'
    BY DEF Extend, SyncInv, RoundsOK, PausesOK, RoundOK, InSlot
<1> QED BY <1>1, <1>2 DEF SyncInv

LEMMA PeerInv ==
    ASSUME SyncAssumption, SyncInv, NEW p \in Peers, PeerChanges(p)
    PROVE  SyncInv'
<1>1. PICK c \in PeerChains : peer' = [peer EXCEPT ![p] = c]
    BY DEF PeerChanges
<1>2. ChainsOK'
    BY <1>1 DEF PeerChanges, SyncInv, ChainsOK, SyncAssumption
<1>3. RoundsOK' /\ PausesOK'
    BY DEF PeerChanges, SyncInv, RoundsOK, PausesOK, RoundOK, InSlot
<1> QED BY <1>2, <1>3 DEF SyncInv

LEMMA ResolveInv ==
    ASSUME SyncInv, ResolvePauses
    PROVE  SyncInv'
<1>1. PausesOK'
    BY DEF ResolvePauses, PausesOK
<1>2. ChainsOK' /\ RoundsOK'
    BY DEF ResolvePauses, SyncInv, ChainsOK, RoundsOK, RoundOK, InSlot
<1> QED BY <1>1, <1>2 DEF SyncInv

LEMMA StutterInv ==
    ASSUME SyncInv, UNCHANGED vars
    PROVE  SyncInv'
BY DEF vars, SyncInv, ChainsOK, RoundsOK, PausesOK, RoundOK, InSlot

LEMMA NextInv ==
    ASSUME SyncAssumption, NobodyAssumption, SyncInv, [Next]_vars
    PROVE  SyncInv'
<1>1. ASSUME NEW p \in Peers, BeginSync(p) PROVE SyncInv'
    BY <1>1, BeginInv
<1>2. ASSUME NEW p \in Peers, EnterSlot(p) PROVE SyncInv'
    BY <1>2, EnterInv
<1>3. ASSUME NEW p \in Peers, GiveUp(p) PROVE SyncInv'
    BY <1>3, EndInv
<1>4. ASSUME NEW p \in Peers, SyncStep(p) PROVE SyncInv'
  <2>1. CASE HeadersRefused(p) \/ PauseForResync(p) \/ StageFails(p) \/ ReplaceRefused(p)
      BY <2>1, EndInv
  <2>2. CASE HeadersWeaker(p)
      BY <2>2, WeakerInv
  <2>3. CASE HeadersStronger(p)
      BY <2>3, StrongerInv
  <2>4. CASE StageBlocks(p)
      BY <2>4, StageInv
  <2>5. CASE ReplaceChain(p)
      BY <2>5, ReplaceInv
  <2>6. CASE NextChunk(p)
      BY <2>6, ChunkInv
  <2> QED BY <1>4, <2>1, <2>2, <2>3, <2>4, <2>5, <2>6 DEF SyncStep
<1>5. ASSUME NEW p \in Peers, PeerChanges(p) PROVE SyncInv'
    BY <1>5, PeerInv
<1>6. ASSUME NEW l \in Labels, Extend(l) PROVE SyncInv'
    BY <1>6, ExtendInv
<1>7. CASE ResolvePauses
    BY <1>7, ResolveInv
<1>8. CASE UNCHANGED vars
    BY <1>8, StutterInv
<1> QED BY <1>1, <1>2, <1>3, <1>4, <1>5, <1>6, <1>7, <1>8 DEF Next

LEMMA Inductive ==
    ASSUME SyncAssumption, NobodyAssumption
    PROVE  Spec => []SyncInv
<1>1. Init => SyncInv
    BY InitInv
<1>2. SyncInv /\ [Next]_vars => SyncInv'
    BY NextInv
<1> QED BY <1>1, <1>2, PTL DEF Spec
-----------------------------------------------------------------------------
(* The theorems.                                                           *)

\* Chains, horizon and rounds hold what they may hold; above all, a round is past
\* EnterSlot exactly while it is the one that holds chainSyncSlot (http_protocol.go:496).
THEOREM OneSyncAtATime ==
    ASSUME SyncAssumption, NobodyAssumption
    PROVE  Spec => []TypeOK
<1>1. SyncInv => TypeOK
  <2> SUFFICES ASSUME SyncInv PROVE TypeOK
      OBVIOUS
  <2>1. ASSUME NEW p \in Peers
        PROVE  /\ sync[p].pc \in {"idle", "want", "headers", "stage", "replace", "again"}
               /\ sync[p].pc \in {"headers", "stage", "replace"} <=> slot = p
               /\ sync[p].chunk \in 0..MaxChunks
               /\ paused[p] = NoChain \/ paused[p] \in PeerChains
    <3>1. RoundOK(sync[p]) /\ (InSlot(sync[p]) <=> slot = p)
        BY DEF SyncInv, RoundsOK
    <3>2. paused[p] \in PeerChains \cup {NoChain}
        BY DEF SyncInv, PausesOK
    <3> QED BY <3>1, <3>2 DEF RoundOK, RoundRecord, InSlot
  <2> QED BY <2>1 DEF TypeOK, SyncInv, ChainsOK, RoundsOK
<1> QED BY <1>1, Inductive, PTL

\* A step that changes the local chain appends a block or adopts a candidate.
LEMMA LocalChanges ==
    ASSUME [Next]_vars
    PROVE  \/ UNCHANGED local
           \/ \E l \in Labels : Extend(l)
           \/ \E p \in Peers : ReplaceChain(p)
BY ZenonT(60) DEF Next, vars, SyncStep, BeginSync, EnterSlot, GiveUp, PeerChanges, ResolvePauses,
       HeadersRefused, HeadersWeaker, HeadersStronger, PauseForResync, StageBlocks, StageFails,
       ReplaceRefused, NextChunk

\* The chain is only replaced by one peer's branch, with more work than the chain it
\* replaces then has, and never below the prune horizon, whatever the candidate was
\* compared with when it was chosen (http_protocol.go:580, reorg.go:156, :181).
THEOREM SoundReplacements ==
    ASSUME SyncAssumption, NobodyAssumption
    PROVE  Spec => ReplacementsAreSound
<1> DEFINE Grows == local' # local => Work(local') > Work(local)
           Stays == Upto(local', pruned) = Upto(local, pruned)
           OneBranch == local' # local
                          => \/ \E l \in Labels : local' = Append(local, l)
                             \/ \E p \in Peers : sync[p].pc = "replace" /\ local' = sync[p].candidate
<1>1. SyncInv /\ [Next]_vars => Grows /\ Stays /\ OneBranch
  <2> SUFFICES ASSUME SyncInv, [Next]_vars PROVE Grows /\ Stays /\ OneBranch
      OBVIOUS
  <2>1. CASE UNCHANGED local
      BY <2>1
  <2>2. ASSUME NEW l \in Labels, Extend(l) PROVE Grows /\ Stays /\ OneBranch
    <3>1. local \in Seq(Labels) /\ pruned \in 0..Len(local) /\ local' = Append(local, l)
        BY <2>2 DEF SyncInv, ChainsOK, Extend
    <3>2. Grows
        BY <3>1, WorkAppend
    <3>3. Stays
      <4>1. /\ local' \in Seq(Labels) /\ Len(local) \in Nat /\ Len(local') = Len(local) + 1
            /\ \A i \in 1..Len(local) : local'[i] = local[i]
          BY <3>1, AppendProperties, LenProperties
      <4>2. pruned \in 0..Len(local') /\ pruned \in Nat
          BY <3>1, <4>1
      <4>3. \A i \in 1..pruned : local'[i] = local[i]
          BY <3>1, <4>1, <4>2
      <4>4. /\ Upto(local', pruned) \in Seq(Labels) /\ Len(Upto(local', pruned)) = pruned
            /\ \A i \in 1..pruned : Upto(local', pruned)[i] = local'[i]
          BY <4>1, <4>2, UptoIs
      <4>5. /\ Upto(local, pruned) \in Seq(Labels) /\ Len(Upto(local, pruned)) = pruned
            /\ \A i \in 1..pruned : Upto(local, pruned)[i] = local[i]
          BY <3>1, UptoIs
      <4> QED BY <4>3, <4>4, <4>5, SeqEqual
    <3> QED BY <3>1, <3>2, <3>3
  <2>3. ASSUME NEW p \in Peers, ReplaceChain(p) PROVE Grows /\ Stays /\ OneBranch
    <3>1. sync[p].pc = "replace" /\ Replaces(p) /\ local' = Replacement(p)
        BY <2>3 DEF ReplaceChain
    <3>2. /\ local' = sync[p].candidate
          /\ Upto(local', pruned) = Upto(local, pruned)
        BY <3>1, ReplacementIs
    <3>3. Work(local') > Work(local)
        BY <3>1 DEF Replaces
    <3> QED BY <3>1, <3>2, <3>3
  <2> QED BY <2>1, <2>2, <2>3, LocalChanges
<1> QED BY <1>1, Inductive, PTL DEF Spec, ReplacementsAreSound, WorkOnlyGrows, PrunedBlocksStay,
           AdoptsOneBranch

-----------------------------------------------------------------------------
(* The send queue of a socket.                                             *)

LEMMA BytesAreSums ==
    ASSUME NEW q \in Seq(Nat)
    PROVE  \E f \in [0..Len(q) -> Nat] : Sums(q, Len(q), f) /\ Queue!Bytes(q) = f[Len(q)]
<1>1. Len(q) \in Nat /\ \A i \in 1..Len(q) : q[i] \in Nat
    BY LenProperties, ElementOfSeq
<1>2. PICK f \in [0..Len(q) -> Nat] : Sums(q, Len(q), f)
    BY <1>1, SumsExist
<1> DEFINE g == CHOOSE g : Sums(q, Len(q), g)
<1>3. Sums(q, Len(q), g)
    BY <1>2
<1>4. Queue!Bytes(q) = g[Len(q)]
    BY Zenon DEF Queue!Bytes, Sums
<1> HIDE DEF g
<1>5. g[Len(q)] = f[Len(q)]
  <2>1. Agree(q, q, Len(q)) /\ Len(q) <= Len(q)
      BY <1>1 DEF Agree
  <2> QED BY <1>1, <1>2, <1>3, <2>1, SumsOnce
<1> QED BY <1>2, <1>4, <1>5

LEMMA BytesEmpty == Queue!Bytes(<<>>) = 0
<1> DEFINE q == <<>>
<1>1. q \in Seq(Nat) /\ Len(q) = 0
    OBVIOUS
<1> HIDE DEF q
<1>2. PICK f \in [0..Len(q) -> Nat] : Sums(q, Len(q), f) /\ Queue!Bytes(q) = f[Len(q)]
    BY <1>1, BytesAreSums
<1>3. f[0] = IF 0 = 0 THEN 0 ELSE f[0 - 1] + q[0]
  <2>1. 0 \in 0..Len(q)
      BY <1>1
  <2> QED BY <1>2, <2>1, Zenon DEF Sums
<1> QED BY <1>1, <1>2, <1>3 DEF q

LEMMA BytesAppend ==
    ASSUME NEW q \in Seq(Nat), NEW x \in Nat
    PROVE  Queue!Bytes(Append(q, x)) = Queue!Bytes(q) + x /\ Queue!Bytes(q) \in Nat
<1> DEFINE r == Append(q, x)
<1>1. /\ Len(q) \in Nat /\ r \in Seq(Nat) /\ Len(r) = Len(q) + 1 /\ r[Len(r)] = x
      /\ Agree(q, r, Len(q))
    BY AppendProperties, LenProperties DEF Agree
<1>2. PICK f \in [0..Len(q) -> Nat] : Sums(q, Len(q), f) /\ Queue!Bytes(q) = f[Len(q)]
    BY BytesAreSums
<1> HIDE DEF r
<1>3. PICK g \in [0..Len(r) -> Nat] : Sums(r, Len(r), g) /\ Queue!Bytes(r) = g[Len(r)]
    BY <1>1, BytesAreSums
<1>4. f[Len(q)] = g[Len(q)]
    BY <1>1, <1>2, <1>3, SumsOnce
<1>5. g[Len(r)] = g[Len(q)] + r[Len(r)]
  <2>1. Len(r) \in 0..Len(r) /\ Len(r) # 0 /\ Len(r) - 1 = Len(q)
      BY <1>1
  <2>2. g[Len(r)] = IF Len(r) = 0 THEN 0 ELSE g[Len(r) - 1] + r[Len(r)]
      BY <1>3, <2>1, Zenon DEF Sums
  <2> QED BY <2>1, <2>2
<1>6. Len(q) \in 0..Len(q)
    BY <1>1
<1> QED BY <1>1, <1>2, <1>3, <1>4, <1>5, <1>6 DEF r

\* Taking the first message: each sum over the rest lacks just its bytes.
LEMMA BytesTail ==
    ASSUME NEW q \in Seq(Nat), q # <<>>
    PROVE  /\ Queue!Bytes(q) = Head(q) + Queue!Bytes(Tail(q))
           /\ Queue!Bytes(Tail(q)) \in Nat /\ Head(q) \in Nat
<1> DEFINE r == Tail(q)
<1>1. /\ Len(q) \in Nat /\ Len(q) > 0 /\ r \in Seq(Nat) /\ Len(r) = Len(q) - 1
      /\ Head(q) = q[1] /\ q[1] \in Nat /\ \A i \in 1..Len(r) : r[i] = q[i + 1]
    BY HeadTailProperties, LenProperties, ElementOfSeq
<1> HIDE DEF r
<1>2. PICK f \in [0..Len(q) -> Nat] : Sums(q, Len(q), f) /\ Queue!Bytes(q) = f[Len(q)]
    BY BytesAreSums
<1>3. PICK g \in [0..Len(r) -> Nat] : Sums(r, Len(r), g) /\ Queue!Bytes(r) = g[Len(r)]
    BY <1>1, BytesAreSums
<1> DEFINE Q == {m \in 0..Len(r) : f[m + 1] # q[1] + g[m]}
<1>4. Q = {}
  <2> SUFFICES ASSUME Q # {} PROVE FALSE
      OBVIOUS
  <2>1. PICK m \in Q : \A i \in Q : m <= i
    <3>1. Q \in SUBSET Nat
        OBVIOUS
    <3> HIDE DEF Q
    <3> QED BY <3>1, SmallestNumber
  <2> DEFINE k == m + 1
  <2>2. m \in 0..Len(r) /\ m \in Nat /\ f[k] # q[1] + g[m]
      BY <1>1
  <2>3. k \in 0..Len(q) /\ k # 0 /\ k - 1 = m
      BY <1>1, <2>2
  <2>4. m # 0 => m - 1 \in 0..Len(r) /\ f[m] = q[1] + g[m - 1] /\ r[m] = q[k]
    <3> SUFFICES ASSUME m # 0 PROVE m - 1 \in 0..Len(r) /\ f[m] = q[1] + g[m - 1] /\ r[m] = q[k]
        OBVIOUS
    <3>1. m - 1 \in 0..Len(r) /\ ~(m <= m - 1) /\ m - 1 + 1 = m /\ m \in 1..Len(r)
        BY <1>1, <2>2
    <3>2. m - 1 \notin Q
        BY <2>1, <3>1
    <3> QED BY <1>1, <3>1, <3>2
  <2> HIDE DEF k
  <2>5. f[k] = IF k = 0 THEN 0 ELSE f[k - 1] + q[k]
      BY <1>2, <2>3, Zenon DEF Sums
  <2>6. g[m] = IF m = 0 THEN 0 ELSE g[m - 1] + r[m]
      BY <1>3, <2>2, Zenon DEF Sums
  <2>7. f[0] = IF 0 = 0 THEN 0 ELSE f[0 - 1] + q[0]
    <3>1. 0 \in 0..Len(q)
        BY <1>1
    <3> QED BY <1>2, <3>1, Zenon DEF Sums
  <2>8. CASE m = 0
    <3>1. k = 1
        BY <2>8 DEF k
    <3> QED BY <1>1, <2>2, <2>3, <2>5, <2>6, <2>7, <2>8, <3>1
  <2>9. CASE m # 0
    <3>1. g[m - 1] \in Nat
        BY <1>3, <2>4, <2>9
    <3> QED BY <1>1, <2>2, <2>3, <2>4, <2>5, <2>6, <2>9, <3>1, SMTT(30)
  <2> QED BY <2>8, <2>9
<1>5. Len(r) \in 0..Len(r) /\ Len(r) + 1 = Len(q)
    BY <1>1
<1>6. f[Len(q)] = q[1] + g[Len(r)]
    BY <1>4, <1>5
<1> QED BY <1>1, <1>2, <1>3, <1>5, <1>6 DEF r

\* closeOnce lets one closer in, and a drainer has a message in hand at two steps only.
OneDrains ==
    \A c \in Closers : closer[c] = "drain" => \A d \in Closers \ {c} : closer[d] \in {"out", "wait"}

HandsSound ==
    /\ writer = "write" => held["writer"] # 0
    /\ writer \in {"select", "end"} => held["writer"] = 0
    /\ (\A c \in Closers : closer[c] # "drain") => held["closer"] = 0

QueueInv ==
    Queue!TypeOK /\ OneDrains /\ HandsSound /\ Queue!QueuedBytesExact /\ Queue!ClosedQueueStaysEmpty

LEMMA SizesAreNat == Sizes \subseteq Nat \ {0} /\ MaxBytes \in Nat /\ Capacity \in Nat \ {0} /\ MaxSends \in Nat
BY NetworkAssumption DEF Queue!QueueAssumption

LEMMA QueueNumbers ==
    ASSUME Queue!TypeOK
    PROVE  send \in Seq(Nat) /\ \A d \in Queue!Drainers : held[d] \in Nat
<1>1. Sizes \cup {0} \subseteq Nat BY SizesAreNat
<1>2. send \in Seq(Sizes) /\ held \in [Queue!Drainers -> Sizes \cup {0}] BY DEF Queue!TypeOK
<1> QED BY <1>1, <1>2

LEMMA QueueInit == Queue!Init => QueueInv
<1> SUFFICES ASSUME Queue!Init PROVE QueueInv OBVIOUS
<1>1. Queue!TypeOK
  <2>1. 0 \in 0..MaxBytes /\ 0 \in 0..MaxSends BY SizesAreNat
  <2>2. send = <<>> /\ queuedBytes = 0 /\ ~sendClosed /\ ~done /\ ~broken /\ writer = "select"
    BY DEF Queue!Init
  <2>5. send \in Seq(Sizes) BY <2>2
  <2>3. closer \in [Closers -> {"out", "wait", "drain", "end"}]
    BY DEF Queue!Init
  <2>4. held \in [Queue!Drainers -> Sizes \cup {0}] /\ sends \in [Senders -> 0..MaxSends]
    BY <2>1 DEF Queue!Init
  <2>6. sendClosed \in BOOLEAN /\ done \in BOOLEAN /\ broken \in BOOLEAN
    BY Zenon DEF Queue!Init
  <2> QED BY <2>1, <2>2, <2>3, <2>4, <2>5, <2>6 DEF Queue!TypeOK
<1>2. OneDrains /\ HandsSound /\ Queue!ClosedQueueStaysEmpty
  BY DEF Queue!Init, OneDrains, HandsSound, Queue!ClosedQueueStaysEmpty, Queue!Drainers
<1>3. Queue!QueuedBytesExact
  BY BytesEmpty DEF Queue!Init, Queue!QueuedBytesExact, Queue!Drainers
<1> QED BY <1>1, <1>2, <1>3 DEF QueueInv

\* A message goes from the channel to a hand: the sum is the same.
LEMMA TakeKeepsBytes ==
    ASSUME QueueInv, send # <<>>, NEW d \in Queue!Drainers, held[d] = 0, Queue!Take(d)
    PROVE  /\ Queue!Bytes(send') + held'["writer"] + held'["closer"]
                = Queue!Bytes(send) + held["writer"] + held["closer"]
           /\ send' \in Seq(Sizes) /\ held' \in [Queue!Drainers -> Sizes \cup {0}]
           /\ held'[d] # 0 /\ \A e \in Queue!Drainers \ {d} : held'[e] = held[e]
<1> USE DEF QueueInv, Queue!TypeOK, Queue!Drainers
<1>1. Sizes \subseteq Nat /\ send \in Seq(Nat) /\ held[d] \in Nat /\ held["writer"] \in Nat /\ held["closer"] \in Nat
  BY SizesAreNat, QueueNumbers
<1>2. /\ Queue!Bytes(send) = Head(send) + Queue!Bytes(Tail(send))
      /\ Queue!Bytes(Tail(send)) \in Nat /\ Head(send) \in Sizes /\ Tail(send) \in Seq(Sizes)
  BY <1>1, BytesTail, HeadTailProperties
<1>3. send' = Tail(send) /\ held' = [held EXCEPT ![d] = Head(send)]
  BY DEF Queue!Take
<1>4. Head(send) # 0 /\ Head(send) \in Nat BY <1>2, SizesAreNat
<1>5. held'[d] = Head(send) /\ \A e \in Queue!Drainers \ {d} : held'[e] = held[e]
  BY <1>3
<1> QED BY <1>1, <1>2, <1>3, <1>4, <1>5

\* What is released was accounted for: the clamp is never met.
LEMMA ReleaseKeepsBytes ==
    ASSUME QueueInv, NEW d \in Queue!Drainers, Queue!Release(d), send' = send
    PROVE  /\ queuedBytes' = Queue!Bytes(send') + held'["writer"] + held'["closer"]
           /\ queuedBytes' \in 0..MaxBytes /\ held' \in [Queue!Drainers -> Sizes \cup {0}]
           /\ held'[d] = 0 /\ \A e \in Queue!Drainers \ {d} : held'[e] = held[e]
<1> USE DEF QueueInv, Queue!TypeOK, Queue!Drainers
<1>1. Queue!Bytes(send) \in Nat /\ held[d] \in Nat /\ held["writer"] \in Nat /\ held["closer"] \in Nat
  <2>1. send \in Seq(Nat) /\ 0 \in Nat BY QueueNumbers
  <2> QED BY <2>1, BytesAppend, QueueNumbers
<1>2. queuedBytes = Queue!Bytes(send) + held["writer"] + held["closer"]
  BY DEF Queue!QueuedBytesExact
<1>3. held' = [held EXCEPT ![d] = 0] /\ queuedBytes' = IF queuedBytes < held[d] THEN 0 ELSE queuedBytes - held[d]
  BY DEF Queue!Release
<1>4. held'[d] = 0 /\ \A e \in Queue!Drainers \ {d} : held'[e] = held[e]
  BY <1>3
<1>5. held[d] <= queuedBytes BY <1>1, <1>2
<1>6. Queue!Bytes(send') = Queue!Bytes(send) OBVIOUS
<1>7. queuedBytes \in 0..MaxBytes /\ MaxBytes \in Nat BY SizesAreNat
<1>8. queuedBytes' = queuedBytes - held[d] /\ queuedBytes' \in 0..MaxBytes BY <1>1, <1>3, <1>5, <1>7
<1>9. queuedBytes' = Queue!Bytes(send') + held'["writer"] + held'["closer"]
  <2> HIDE DEF QueueInv, Queue!TypeOK
  <2>1. CASE d = "writer"
    <3>1. held'["writer"] = 0 /\ held'["closer"] = held["closer"] BY <2>1, <1>4
    <3> QED BY <3>1, <2>1, <1>1, <1>2, <1>6, <1>8
  <2>2. CASE d = "closer"
    <3>1. held'["closer"] = 0 /\ held'["writer"] = held["writer"] BY <2>2, <1>4
    <3> QED BY <3>1, <2>2, <1>1, <1>2, <1>6, <1>8
  <2> QED BY <2>1, <2>2
<1> QED BY <1>3, <1>4, <1>8, <1>9

LEMMA QueueSends ==
    ASSUME QueueInv, NEW s \in Senders, Queue!Queue(s)
    PROVE  QueueInv'
<1> USE DEF QueueInv, Queue!TypeOK, Queue!Drainers
<1>1. sends' \in [Senders -> 0..MaxSends]
      /\ UNCHANGED <<sendClosed, done, broken, writer, closer, held>>
  BY SizesAreNat DEF Queue!Queue
<1>2. OneDrains' /\ HandsSound'
  BY <1>1 DEF OneDrains, HandsSound
<1>3. CASE UNCHANGED <<send, queuedBytes>>
  BY <1>1, <1>2, <1>3 DEF Queue!QueuedBytesExact, Queue!ClosedQueueStaysEmpty
<1>4. ASSUME NEW size \in Sizes, Queue!Accepts(size), send' = Append(send, size),
             queuedBytes' = queuedBytes + size
      PROVE  QueueInv'
  <2>1. size \in Nat /\ send \in Seq(Nat) /\ send' \in Seq(Sizes) BY <1>4, SizesAreNat, QueueNumbers
  <2>2. Queue!Bytes(send') = Queue!Bytes(send) + size /\ Queue!Bytes(send) \in Nat
    BY <1>4, <2>1, BytesAppend
  <2>3. held["writer"] \in Nat /\ held["closer"] \in Nat BY QueueNumbers
  <2>4. queuedBytes' \in 0..MaxBytes BY <1>4, <2>1, SizesAreNat DEF Queue!Accepts
  <2>5. Queue!QueuedBytesExact' BY <1>1, <1>4, <2>1, <2>2, <2>3 DEF Queue!QueuedBytesExact
  <2>6. Queue!ClosedQueueStaysEmpty' BY <1>1, <1>4 DEF Queue!ClosedQueueStaysEmpty, Queue!Accepts
  <2> QED BY <1>1, <1>2, <2>1, <2>4, <2>5, <2>6
<1> QED BY <1>3, <1>4 DEF Queue!Queue

LEMMA QueueWriter ==
    ASSUME QueueInv, Queue!WriterStep \/ Queue!Break
    PROVE  QueueInv'
<1> USE DEF QueueInv, Queue!TypeOK, Queue!Drainers
<1>1. CASE Queue!WriterTakes
  <2>1. held["writer"] = 0 /\ send # <<>> /\ Queue!Take("writer") /\ writer = "select" /\ writer' = "write"
        /\ UNCHANGED <<queuedBytes, sendClosed, done, broken, closer, sends>>
    BY <1>1 DEF Queue!WriterTakes, HandsSound
  <2>2. /\ Queue!Bytes(send') + held'["writer"] + held'["closer"]
              = Queue!Bytes(send) + held["writer"] + held["closer"]
        /\ send' \in Seq(Sizes) /\ held' \in [Queue!Drainers -> Sizes \cup {0}]
        /\ held'["writer"] # 0 /\ held'["closer"] = held["closer"]
    BY <2>1, TakeKeepsBytes
  <2>3. Queue!QueuedBytesExact' BY <2>1, <2>2 DEF Queue!QueuedBytesExact
  <2>4. Queue!ClosedQueueStaysEmpty' BY <2>1 DEF Queue!ClosedQueueStaysEmpty
  <2>5. OneDrains' /\ HandsSound' BY <2>1, <2>2 DEF OneDrains, HandsSound
  <2> QED BY <2>1, <2>2, <2>3, <2>4, <2>5
<1>2. CASE Queue!WriterWrites
  <2>1. Queue!Release("writer") /\ send' = send /\ writer = "write" /\ writer' \in {"drain", "select"}
        /\ UNCHANGED <<sendClosed, done, broken, closer, sends>>
    BY <1>2 DEF Queue!WriterWrites
  <2>2. /\ queuedBytes' = Queue!Bytes(send') + held'["writer"] + held'["closer"]
        /\ queuedBytes' \in 0..MaxBytes /\ held' \in [Queue!Drainers -> Sizes \cup {0}]
        /\ held'["writer"] = 0 /\ held'["closer"] = held["closer"]
    BY <2>1, ReleaseKeepsBytes
  <2>3. Queue!QueuedBytesExact' BY <2>2 DEF Queue!QueuedBytesExact
  <2>4. Queue!ClosedQueueStaysEmpty' BY <2>1 DEF Queue!ClosedQueueStaysEmpty
  <2>5. OneDrains' /\ HandsSound' BY <2>1, <2>2 DEF OneDrains, HandsSound
  <2> QED BY <2>1, <2>2, <2>3, <2>4, <2>5
<1>3. CASE Queue!WriterStops
  BY <1>3 DEF Queue!WriterStops, OneDrains, HandsSound, Queue!QueuedBytesExact, Queue!ClosedQueueStaysEmpty
<1>4. CASE Queue!WriterEnds
  BY <1>4 DEF Queue!WriterEnds, OneDrains, HandsSound, Queue!QueuedBytesExact, Queue!ClosedQueueStaysEmpty
<1>5. CASE Queue!Break
  BY <1>5 DEF Queue!Break, OneDrains, HandsSound, Queue!QueuedBytesExact, Queue!ClosedQueueStaysEmpty
<1> QED BY <1>1, <1>2, <1>3, <1>4, <1>5 DEF Queue!WriterStep

LEMMA QueueDrains ==
    ASSUME QueueInv, NEW d \in Queue!Drainers, Queue!DrainStep(d)
    PROVE  QueueInv'
<1> USE DEF QueueInv, Queue!TypeOK, Queue!Drainers
<1>1. CASE Queue!DisableQueue(d)
  BY <1>1 DEF Queue!DisableQueue, OneDrains, HandsSound, Queue!QueuedBytesExact, Queue!ClosedQueueStaysEmpty
<1>2. CASE Queue!DrainTakes(d)
  <2>1. held[d] = 0 /\ send # <<>> /\ Queue!Take(d) /\ Queue!Draining(d)
        /\ UNCHANGED <<queuedBytes, sendClosed, done, broken, writer, closer, sends>>
    BY <1>2 DEF Queue!DrainTakes
  <2>2. /\ Queue!Bytes(send') + held'["writer"] + held'["closer"]
              = Queue!Bytes(send) + held["writer"] + held["closer"]
        /\ send' \in Seq(Sizes) /\ held' \in [Queue!Drainers -> Sizes \cup {0}]
        /\ \A e \in Queue!Drainers \ {d} : held'[e] = held[e]
    BY <2>1, TakeKeepsBytes
  <2>3. Queue!QueuedBytesExact' BY <2>1, <2>2 DEF Queue!QueuedBytesExact
  <2>4. Queue!ClosedQueueStaysEmpty' BY <2>1 DEF Queue!ClosedQueueStaysEmpty
  <2>5. OneDrains' BY <2>1 DEF OneDrains
  <2>6. HandsSound' BY <2>1, <2>2 DEF HandsSound, Queue!Draining
  <2> QED BY <2>1, <2>2, <2>3, <2>4, <2>5, <2>6
<1>3. CASE Queue!DrainReleases(d)
  <2>1. Queue!Release(d) /\ send' = send /\ Queue!Draining(d)
        /\ UNCHANGED <<sendClosed, done, broken, writer, closer, sends>>
    BY <1>3 DEF Queue!DrainReleases
  <2>2. /\ queuedBytes' = Queue!Bytes(send') + held'["writer"] + held'["closer"]
        /\ queuedBytes' \in 0..MaxBytes /\ held' \in [Queue!Drainers -> Sizes \cup {0}]
        /\ held'[d] = 0 /\ \A e \in Queue!Drainers \ {d} : held'[e] = held[e]
    BY <2>1, ReleaseKeepsBytes
  <2>3. Queue!QueuedBytesExact' BY <2>2 DEF Queue!QueuedBytesExact
  <2>4. Queue!ClosedQueueStaysEmpty' BY <2>1 DEF Queue!ClosedQueueStaysEmpty
  <2>5. OneDrains' BY <2>1 DEF OneDrains
  <2>6. HandsSound' BY <2>1, <2>2 DEF HandsSound, Queue!Draining
  <2> QED BY <2>1, <2>2, <2>3, <2>4, <2>5, <2>6
<1> QED BY <1>1, <1>2, <1>3 DEF Queue!DrainStep

LEMMA QueueCloses ==
    ASSUME QueueInv, NEW c \in Closers, Queue!Close(c) \/ Queue!CloserStep(c)
    PROVE  QueueInv'
<1> USE DEF QueueInv, Queue!TypeOK, Queue!Drainers
<1>1. CASE Queue!Close(c)
  BY <1>1 DEF Queue!Close, OneDrains, HandsSound, Queue!QueuedBytesExact, Queue!ClosedQueueStaysEmpty
<1>2. CASE Queue!CloserEnds(c)
  BY <1>2 DEF Queue!CloserEnds, OneDrains, HandsSound, Queue!QueuedBytesExact, Queue!ClosedQueueStaysEmpty
<1>3. CASE Queue!WaiterEnds(c)
  BY <1>3 DEF Queue!WaiterEnds, OneDrains, HandsSound, Queue!QueuedBytesExact, Queue!ClosedQueueStaysEmpty
<1> QED BY <1>1, <1>2, <1>3 DEF Queue!CloserStep

LEMMA QueueInvHolds == NetworkSpec => [](part = "queue" => QueueInv)
<1>1. NetworkInit => (part = "queue" => QueueInv)
  BY QueueInit DEF NetworkInit
<1>2. (part = "queue" => QueueInv) /\ [NetworkNext]_networkVars => (part = "queue" => QueueInv)'
  <2> SUFFICES ASSUME part = "queue" => QueueInv, [NetworkNext]_networkVars, part' = "queue"
               PROVE  QueueInv'
    OBVIOUS
  <2>1. CASE UNCHANGED networkVars
    <3>1. QueueInv /\ UNCHANGED queueVars BY <2>1 DEF networkVars
    <3> QED BY <3>1 DEF queueVars, QueueInv, Queue!TypeOK, OneDrains, HandsSound, Queue!QueuedBytesExact,
              Queue!ClosedQueueStaysEmpty
  <2>2. CASE NetworkNext
    <3>1. QueueInv /\ Queue!Next BY <2>2 DEF NetworkNext, Moves
    <3> QED BY <3>1, QueueSends, QueueWriter, QueueDrains, QueueCloses DEF Queue!Next
  <2> QED BY <2>1, <2>2
<1> QED BY <1>1, <1>2, PTL DEF NetworkSpec

-----------------------------------------------------------------------------
(* The limits on requests.                                                 *)

LEMMA LimitNumbers ==
    /\ Burst \in Nat \ {0} /\ TableSize \in Nat \ {0} /\ Retention \in Nat \ {0} /\ PerIP \in Nat \ {0}
    /\ Slots \in Nat \ {0} /\ HeavySlots \in Nat \ {0} /\ Retention >= Burst /\ IsFiniteSet(Requests)
<1>1. \A S : Limits!IsFiniteSet(S) = IsFiniteSet(S)
  BY DEF Limits!IsFiniteSet, IsFiniteSet
<1> QED BY <1>1, NetworkAssumption DEF Limits!RequestLimitsAssumption

LEMMA LimitCardinality == \A S : Limits!Cardinality(S) = Cardinality(S)
BY DEF Limits!Cardinality, Cardinality

Underway == [pc : {"counted", "running", "heavy", "leaving"}, kind : Limits!Kinds, host : Hosts]

\* The buckets of the addresses that are known, by kind.
TablesSound ==
    /\ tokens = [k \in Limits!Kinds |-> tokens[k]] /\ age = [k \in Limits!Kinds |-> age[k]]
    /\ \A k \in Limits!Kinds :
        /\ IsFiniteSet(DOMAIN tokens[k]) /\ Cardinality(DOMAIN tokens[k]) <= TableSize
        /\ DOMAIN age[k] = DOMAIN tokens[k] /\ DOMAIN tokens[k] \subseteq Hosts
        /\ \A h \in DOMAIN tokens[k] : tokens[k][h] \in 0..Burst /\ age[k][h] \in 0..(Retention + 1)

\* The requests that hold a slot, those that count for an address, and the heavy ones.
Holders(k) == {r \in Requests : request[r].pc \in {"running", "heavy"} /\ request[r].kind = k}
Counted(k, h) == {r \in Requests : request[r] \in Underway /\ request[r].kind = k /\ request[r].host = h}
HeavyOnes == {r \in Requests : request[r].pc = "heavy"}

RequestsSound ==
    /\ request \in [Requests -> Underway \cup {Limits!NoRequest}]
    /\ \A r \in Requests : request[r].pc = "heavy" => request[r].kind = "http"

CountsSound ==
    /\ counts \in [Limits!Kinds -> [Hosts -> 0..PerIP]]
    /\ slots \in [Limits!Kinds -> 0..Slots] /\ heavy \in 0..HeavySlots
    /\ \A k \in Limits!Kinds : slots[k] = Cardinality(Holders(k))
    /\ \A k \in Limits!Kinds, h \in Hosts : counts[k][h] = Cardinality(Counted(k, h))
    /\ heavy = Cardinality(HeavyOnes)

IdealSound ==
    /\ ideal \in [Limits!Kinds -> [Hosts -> 0..Burst]]
    /\ Limits!ForgettingGivesNothing

ClosingSound ==
    /\ closing \in BOOLEAN /\ closed \in BOOLEAN
    /\ closed => closing
    /\ Limits!ClosedServesNothing

LimitsInv == TablesSound /\ RequestsSound /\ CountsSound /\ IdealSound /\ ClosingSound

LEMMA LimitsPromise ==
    ASSUME LimitsInv
    PROVE  Limits!TypeOK /\ Limits!NothingLeaks /\ Limits!ForgettingGivesNothing /\ Limits!ClosedServesNothing
<1> USE DEF LimitsInv
<1>1. \A r \in Requests : request[r].pc \in {"none", "counted", "running", "heavy", "leaving"}
  BY DEF RequestsSound, Underway, Limits!NoRequest
<1>2. Limits!TypeOK
  BY <1>1, LimitCardinality DEF Limits!TypeOK, TablesSound, CountsSound, IdealSound, ClosingSound, Limits!Known
<1>3. Limits!NothingLeaks
  <2>1. \A k \in Limits!Kinds : Limits!InProgress(k, {"running", "heavy"}) = Holders(k)
    BY DEF Limits!InProgress, Holders
  <2>2. \A k \in Limits!Kinds, h \in Hosts :
          {r \in Limits!InProgress(k, {"counted", "running", "heavy", "leaving"}) : request[r].host = h} = Counted(k, h)
    BY DEF Limits!InProgress, Counted, RequestsSound, Underway, Limits!NoRequest
  <2>3. Limits!InProgress("http", {"heavy"}) = HeavyOnes
    BY DEF Limits!InProgress, HeavyOnes, RequestsSound
  <2> QED BY <2>1, <2>2, <2>3, LimitCardinality DEF Limits!NothingLeaks, CountsSound
<1> QED BY <1>2, <1>3 DEF IdealSound, ClosingSound

LEMMA LimitsInit == Limits!Init => LimitsInv
<1> SUFFICES ASSUME Limits!Init PROVE LimitsInv OBVIOUS
<1> USE DEF Limits!Init
<1>1. TablesSound
  <2>1. \A k \in Limits!Kinds : DOMAIN tokens[k] = {} /\ DOMAIN age[k] = {}
    BY DEF Limits!Empty
  <2>2. tokens = [k \in Limits!Kinds |-> tokens[k]] /\ age = [k \in Limits!Kinds |-> age[k]]
    OBVIOUS
  <2>3. IsFiniteSet({}) /\ Cardinality({}) <= TableSize
    BY FS_EmptySet, LimitNumbers
  <2> QED BY <2>1, <2>2, <2>3 DEF TablesSound
<1>2. RequestsSound BY DEF RequestsSound, Limits!NoRequest
<1>3. CountsSound
  <2>1. \A r \in Requests : request[r] = Limits!NoRequest /\ request[r].pc = "none" /\ request[r] \notin Underway
    BY DEF Limits!NoRequest, Underway
  <2>2. \A k : Holders(k) = {} BY <2>1 DEF Holders
  <2>3. \A k, h : Counted(k, h) = {} BY <2>1 DEF Counted
  <2>4. HeavyOnes = {} BY <2>1 DEF HeavyOnes
  <2>5. 0 \in 0..PerIP /\ 0 \in 0..Slots /\ 0 \in 0..HeavySlots /\ Cardinality({}) = 0
    BY LimitNumbers, FS_EmptySet
  <2> QED BY <2>2, <2>3, <2>4, <2>5 DEF CountsSound
<1>4. IdealSound
  <2>1. Burst \in 0..Burst BY LimitNumbers
  <2>2. \A k \in Limits!Kinds, h \in Hosts : Limits!Available(k, h) = Burst /\ ideal[k][h] = Burst
    BY DEF Limits!Available, Limits!Known, Limits!Empty
  <2> QED BY <2>1, <2>2 DEF IdealSound, Limits!ForgettingGivesNothing
<1>5. ClosingSound BY DEF ClosingSound, Limits!ClosedServesNothing, Limits!NoRequest
<1> QED BY <1>1, <1>2, <1>3, <1>4, <1>5 DEF LimitsInv

\* Nothing but the table of addresses moves.
LEMMA TickSound ==
    ASSUME LimitsInv, Limits!Tick
    PROVE  LimitsInv'
<1> USE DEF LimitsInv
<1>1. UNCHANGED <<tokens, counts, slots, heavy, request, closing, closed>> BY DEF Limits!Tick
<1>2. /\ age' = [k \in Limits!Kinds |-> [h \in DOMAIN tokens[k] |-> Limits!Smaller(age[k][h] + 1, Retention + 1)]]
      /\ ideal' = [k \in Limits!Kinds |-> [h \in Hosts |-> Limits!Smaller(ideal[k][h] + 1, Burst)]]
  BY DEF Limits!Tick, Limits!Known
<1>3. ASSUME NEW k \in Limits!Kinds, NEW h \in DOMAIN tokens[k]
      PROVE  /\ age'[k][h] \in 0..(Retention + 1) /\ age[k][h] \in 0..(Retention + 1)
             /\ age'[k][h] = age[k][h] + 1 \/ (age'[k][h] = Retention + 1 /\ age[k][h] = Retention + 1)
             /\ tokens[k][h] \in 0..Burst
  <2>1. tokens[k][h] \in 0..Burst /\ age[k][h] \in 0..(Retention + 1) BY DEF TablesSound
  <2>2. age'[k][h] = Limits!Smaller(age[k][h] + 1, Retention + 1) BY <1>2
  <2> QED BY <2>1, <2>2, LimitNumbers DEF Limits!Smaller
<1>4. TablesSound'
  <2>1. \A k \in Limits!Kinds : DOMAIN age'[k] = DOMAIN tokens[k] BY <1>2
  <2>2. age' = [k \in Limits!Kinds |-> age'[k]] BY <1>2
  <2> QED BY <1>1, <1>3, <2>1, <2>2 DEF TablesSound
<1>5. RequestsSound' /\ CountsSound' /\ ClosingSound'
  BY <1>1 DEF RequestsSound, CountsSound, ClosingSound, Holders, Counted, HeavyOnes, Limits!ClosedServesNothing
<1>6. ASSUME NEW k \in Limits!Kinds, NEW h \in Hosts
      PROVE  ideal'[k][h] \in 0..Burst /\ Limits!Available(k, h)' <= ideal'[k][h]
  <2>1. ideal[k][h] \in 0..Burst /\ ideal'[k][h] = Limits!Smaller(ideal[k][h] + 1, Burst)
    BY <1>2 DEF IdealSound
  <2>2. Limits!Available(k, h) <= ideal[k][h] BY DEF IdealSound, Limits!ForgettingGivesNothing
  <2>3. CASE h \in DOMAIN tokens[k]
    <3>1. Limits!Available(k, h) = Limits!Smaller(tokens[k][h] + age[k][h], Burst)
      BY <2>3 DEF Limits!Available, Limits!Known
    <3>2. Limits!Available(k, h)' = Limits!Smaller(tokens[k][h] + age'[k][h], Burst)
      BY <1>1, <2>3 DEF Limits!Available, Limits!Known
    <3> QED BY <1>3, <2>1, <2>2, <2>3, <3>1, <3>2, LimitNumbers DEF Limits!Smaller
  <2>4. CASE h \notin DOMAIN tokens[k]
    <3>1. Limits!Available(k, h) = Burst /\ Limits!Available(k, h)' = Burst
      BY <1>1, <2>4 DEF Limits!Available, Limits!Known
    <3> QED BY <2>1, <2>2, <3>1, LimitNumbers DEF Limits!Smaller
  <2> QED BY <2>3, <2>4
<1>7. ideal' \in [Limits!Kinds -> [Hosts -> 0..Burst]] BY <1>2, <1>6
<1>8. IdealSound' BY <1>6, <1>7 DEF IdealSound, Limits!ForgettingGivesNothing
<1> QED BY <1>4, <1>5, <1>8

LEMMA AvailableIsNumber ==
    ASSUME TablesSound, NEW k \in Limits!Kinds, NEW h \in Hosts
    PROVE  Limits!Available(k, h) \in 0..Burst
<1>1. CASE h \in DOMAIN tokens[k]
  <2>1. tokens[k][h] \in 0..Burst /\ age[k][h] \in 0..(Retention + 1) BY <1>1 DEF TablesSound
  <2>2. Limits!Available(k, h) = Limits!Smaller(tokens[k][h] + age[k][h], Burst)
    BY <1>1 DEF Limits!Available, Limits!Known
  <2> QED BY <2>1, <2>2, LimitNumbers DEF Limits!Smaller
<1>2. CASE h \notin DOMAIN tokens[k]
  BY <1>2, LimitNumbers DEF Limits!Available, Limits!Known
<1> QED BY <1>1, <1>2

\* An address that is dropped to make room had a full bucket.
LEMMA TookIsSound ==
    ASSUME TablesSound, NEW k \in Limits!Kinds, NEW h \in Hosts, NEW n \in {0, 1},
           n <= Limits!Available(k, h), Limits!Room(k, h), Limits!Took(k, h, n)
    PROVE  /\ TablesSound'
           /\ \A j \in Limits!Kinds, g \in Hosts :
                 Limits!Available(j, g)' = IF j = k /\ g = h THEN Limits!Available(j, g) - n
                                           ELSE Limits!Available(j, g)
<1> DEFINE K == DOMAIN tokens[k]
           S == Limits!Staying(k, h)
           T == S \cup {h}
           a == Limits!Available(k, h)
<1>1. a \in 0..Burst /\ a - n \in 0..Burst BY AvailableIsNumber, LimitNumbers
<1>2. /\ DOMAIN tokens' = Limits!Kinds /\ DOMAIN age' = Limits!Kinds
      /\ tokens'[k] = [g \in T |-> IF g = h THEN a - n ELSE tokens[k][g]]
      /\ age'[k] = [g \in T |-> IF g = h THEN 0 ELSE age[k][g]]
      /\ \A j \in Limits!Kinds \ {k} : tokens'[j] = tokens[j] /\ age'[j] = age[j]
  <2>1. tokens' = [tokens EXCEPT ![k] = [g \in T |-> IF g = h THEN a - n ELSE tokens[k][g]]]
    BY Zenon DEF Limits!Took
  <2>2. age' = [age EXCEPT ![k] = [g \in T |-> IF g = h THEN 0 ELSE age[k][g]]]
    BY Zenon DEF Limits!Took
  <2>3. DOMAIN tokens = Limits!Kinds /\ DOMAIN age = Limits!Kinds BY DEF TablesSound
  <2> HIDE DEF T, a
  <2> QED BY <2>1, <2>2, <2>3
<1>3. /\ tokens' = [j \in Limits!Kinds |-> tokens'[j]]
      /\ age' = [j \in Limits!Kinds |-> age'[j]]
  <2>1. tokens = [j \in Limits!Kinds |-> tokens[j]] /\ age = [j \in Limits!Kinds |-> age[j]]
    BY DEF TablesSound
  <2>2. \E x, y : tokens' = [tokens EXCEPT ![k] = x] /\ age' = [age EXCEPT ![k] = y]
    BY Zenon DEF Limits!Took
  <2> QED BY <2>1, <2>2
<1>4. IsFiniteSet(K) /\ Cardinality(K) <= TableSize /\ K \subseteq Hosts /\ DOMAIN age[k] = K
  BY DEF TablesSound
<1>5. S \subseteq K /\ (h \notin K => \A g \in K \ S : age[k][g] > Retention)
      /\ (h \in K => S = K)
  BY <1>4, LimitNumbers DEF Limits!Staying, Limits!Kept, Limits!Known, TablesSound
<1>6. IsFiniteSet(T) /\ Cardinality(T) <= TableSize
  <2>1. CASE h \in K
    BY <2>1, <1>4, <1>5, Zenon
  <2>2. CASE h \notin K
    <3>1. IsFiniteSet(S) /\ Cardinality(S) \in Nat BY <1>4, <1>5, FS_Subset, FS_CardinalityType
    <3>2. Cardinality(S) < TableSize
      BY <2>2, LimitCardinality DEF Limits!Room, Limits!Staying, Limits!Known
    <3>3. IsFiniteSet(T) /\ Cardinality(T) = Cardinality(S) + 1
      BY <3>1, <2>2, <1>5, FS_AddElement
    <3> QED BY <3>1, <3>2, <3>3, LimitNumbers
  <2> QED BY <2>1, <2>2
<1>7. \A g \in T : tokens'[k][g] \in 0..Burst /\ age'[k][g] \in 0..(Retention + 1)
  <2>1. \A g \in K : tokens[k][g] \in 0..Burst /\ age[k][g] \in 0..(Retention + 1) BY DEF TablesSound
  <2>2. 0 \in 0..(Retention + 1) BY LimitNumbers
  <2> HIDE DEF a, S
  <2> QED BY <1>1, <1>2, <1>5, <2>1, <2>2
<1>8. TablesSound'
  <2>1. DOMAIN tokens'[k] = T /\ DOMAIN age'[k] = T /\ T \subseteq Hosts BY <1>2, <1>4, <1>5
  <2>2. \A j \in Limits!Kinds \ {k} :
          /\ IsFiniteSet(DOMAIN tokens'[j]) /\ Cardinality(DOMAIN tokens'[j]) <= TableSize
          /\ DOMAIN age'[j] = DOMAIN tokens'[j] /\ DOMAIN tokens'[j] \subseteq Hosts
          /\ \A g \in DOMAIN tokens'[j] : tokens'[j][g] \in 0..Burst /\ age'[j][g] \in 0..(Retention + 1)
    BY <1>2 DEF TablesSound
  <2> HIDE DEF T
  <2> QED BY <1>3, <1>6, <1>7, <2>1, <2>2 DEF TablesSound
<1>9. ASSUME NEW j \in Limits!Kinds, NEW g \in Hosts
      PROVE  Limits!Available(j, g)' = IF j = k /\ g = h THEN Limits!Available(j, g) - n
                                       ELSE Limits!Available(j, g)
  <2>1. CASE j # k
    BY <2>1, <1>2 DEF Limits!Available, Limits!Known
  <2>2. CASE j = k /\ g = h
    <3>1. h \in DOMAIN tokens'[k] /\ tokens'[k][h] = a - n /\ age'[k][h] = 0 BY <1>2
    <3>2. Limits!Available(k, h)' = Limits!Smaller(a - n + 0, Burst)
      BY <3>1 DEF Limits!Available, Limits!Known
    <3> HIDE DEF a
    <3>3. Limits!Available(k, h)' = a - n BY <3>2, <1>1, LimitNumbers DEF Limits!Smaller
    <3> QED BY <3>3, <2>2 DEF a
  <2>3. CASE j = k /\ g # h /\ g \in S
    BY <2>3, <1>2, <1>5 DEF Limits!Available, Limits!Known
  <2>4. CASE j = k /\ g # h /\ g \notin S
    <3>1. g \notin DOMAIN tokens'[k] BY <2>4, <1>2
    <3>2. Limits!Available(k, g)' = Burst BY <3>1 DEF Limits!Available, Limits!Known
    <3>3. CASE g \notin K
      BY <3>2, <3>3, <2>4 DEF Limits!Available, Limits!Known
    <3>4. CASE g \in K
      <4>1. age[k][g] > Retention BY <3>4, <2>4, <1>5
      <4>2. tokens[k][g] \in 0..Burst /\ age[k][g] \in 0..(Retention + 1) BY <3>4 DEF TablesSound
      <4>3. Limits!Available(k, g) = Limits!Smaller(tokens[k][g] + age[k][g], Burst)
        BY <3>4 DEF Limits!Available, Limits!Known
      <4>4. Limits!Available(k, g) = Burst BY <4>1, <4>2, <4>3, LimitNumbers DEF Limits!Smaller
      <4> QED BY <3>2, <4>4, <2>4
    <3> QED BY <3>3, <3>4
  <2> QED BY <2>1, <2>2, <2>3, <2>4
<1> QED BY <1>8, <1>9

\* What remains of an address after a refusal or an admission.
LEMMA TakesToken ==
    ASSUME LimitsInv, NEW k \in Limits!Kinds, NEW h \in Hosts, Limits!Room(k, h),
           Limits!Available(k, h) >= 1, Limits!Took(k, h, 1), ideal' = [ideal EXCEPT ![k][h] = @ - 1]
    PROVE  TablesSound' /\ IdealSound'
<1> USE DEF LimitsInv
<1>1. /\ TablesSound'
      /\ \A j \in Limits!Kinds, g \in Hosts :
            Limits!Available(j, g)' = IF j = k /\ g = h THEN Limits!Available(j, g) - 1
                                      ELSE Limits!Available(j, g)
  BY TookIsSound
<1>2. \A j \in Limits!Kinds, g \in Hosts :
         ideal[j][g] \in 0..Burst /\ Limits!Available(j, g) \in 0..Burst /\ Limits!Available(j, g) <= ideal[j][g]
  BY AvailableIsNumber DEF IdealSound, Limits!ForgettingGivesNothing
<1>3. \A j \in Limits!Kinds, g \in Hosts :
         ideal'[j][g] = IF j = k /\ g = h THEN ideal[j][g] - 1 ELSE ideal[j][g]
  BY DEF IdealSound
<1>4. \A j \in Limits!Kinds, g \in Hosts :
         ideal'[j][g] \in 0..Burst /\ Limits!Available(j, g)' <= ideal'[j][g]
  BY <1>1, <1>2, <1>3, LimitNumbers
<1>5. ideal' \in [Limits!Kinds -> [Hosts -> 0..Burst]]
  <2>1. ideal' \in [Limits!Kinds -> [Hosts -> Int]] BY LimitNumbers DEF IdealSound
  <2> QED BY <1>4, <2>1
<1> QED BY <1>1, <1>4, <1>5 DEF IdealSound, Limits!ForgettingGivesNothing

LEMMA RequestSetsFinite ==
    /\ \A k : IsFiniteSet(Holders(k)) /\ Cardinality(Holders(k)) \in Nat
    /\ \A k, h : IsFiniteSet(Counted(k, h)) /\ Cardinality(Counted(k, h)) \in Nat
    /\ IsFiniteSet(HeavyOnes) /\ Cardinality(HeavyOnes) \in Nat
<1>1. \A S : S \subseteq Requests => IsFiniteSet(S) /\ Cardinality(S) \in Nat
  BY LimitNumbers, FS_Subset, FS_CardinalityType
<1> QED BY <1>1 DEF Holders, Counted, HeavyOnes

LEMMA LimitedSound ==
    ASSUME LimitsInv, NEW k \in Limits!Kinds, NEW h \in Hosts,
           Limits!RateLimited(k, h) \/ Limits!ConnectionLimited(k, h)
    PROVE  LimitsInv'
<1> USE DEF LimitsInv
<1>1. UNCHANGED <<counts, slots, heavy, request, closing, closed>> /\ Limits!Room(k, h)
  BY DEF Limits!RateLimited, Limits!ConnectionLimited
<1>2. TablesSound' /\ IdealSound'
  <2>1. CASE Limits!RateLimited(k, h)
    <3>1. Limits!Took(k, h, 0) /\ ideal' = ideal BY <2>1 DEF Limits!RateLimited
    <3>2. \A j \in Limits!Kinds, g \in Hosts : Limits!Available(j, g) \in 0..Burst BY AvailableIsNumber
    <3>3. /\ TablesSound'
          /\ \A j \in Limits!Kinds, g \in Hosts :
                Limits!Available(j, g)' = IF j = k /\ g = h THEN Limits!Available(j, g) - 0
                                          ELSE Limits!Available(j, g)
      <4>1. 0 <= Limits!Available(k, h) BY <3>2, LimitNumbers
      <4> QED BY <1>1, <3>1, <4>1, TookIsSound
    <3>4. \A j \in Limits!Kinds, g \in Hosts : Limits!Available(j, g)' = Limits!Available(j, g)
      BY <3>2, <3>3, LimitNumbers
    <3> QED BY <3>1, <3>3, <3>4 DEF IdealSound, Limits!ForgettingGivesNothing
  <2>2. CASE Limits!ConnectionLimited(k, h)
    BY <2>2, <1>1, TakesToken DEF Limits!ConnectionLimited
  <2> QED BY <2>1, <2>2
<1>3. RequestsSound' /\ CountsSound' /\ ClosingSound'
  BY <1>1 DEF RequestsSound, CountsSound, ClosingSound, Holders, Counted, HeavyOnes, Limits!ClosedServesNothing
<1> QED BY <1>2, <1>3

LEMMA AdmitSound ==
    ASSUME LimitsInv, NEW r \in Requests, NEW k \in Limits!Kinds, NEW h \in Hosts, Limits!Admit(r, k, h)
    PROVE  LimitsInv'
<1> USE DEF LimitsInv
<1> DEFINE new == [pc |-> "counted", kind |-> k, host |-> h]
<1>1. /\ request[r].pc = "none" /\ ~closing /\ counts[k][h] < PerIP
      /\ request' = [request EXCEPT ![r] = new]
      /\ counts' = [counts EXCEPT ![k][h] = @ + 1]
      /\ UNCHANGED <<slots, heavy, closing, closed>>
  BY DEF Limits!Admit
<1>2. TablesSound' /\ IdealSound' BY TakesToken DEF Limits!Admit
<1>3. new \in Underway BY DEF Underway
<1>4. request'[r] = new /\ \A q \in Requests \ {r} : request'[q] = request[q]
  BY <1>1 DEF RequestsSound
<1>5. RequestsSound' BY <1>1, <1>3 DEF RequestsSound
<1>6. \A j : Holders(j)' = Holders(j) BY <1>1, <1>4 DEF Holders
<1>7. HeavyOnes' = HeavyOnes BY <1>1, <1>4 DEF HeavyOnes
<1>8. /\ r \notin Counted(k, h) /\ Counted(k, h)' = Counted(k, h) \cup {r}
      /\ \A j, g : j # k \/ g # h => Counted(j, g)' = Counted(j, g)
  <2>1. request[r] \notin Underway BY <1>1 DEF Underway
  <2> QED BY <2>1, <1>3, <1>4 DEF Counted
<1>9. CountsSound'
  <2>1. Cardinality(Counted(k, h)') = Cardinality(Counted(k, h)) + 1
    BY <1>8, RequestSetsFinite, FS_AddElement
  <2>2. \A j \in Limits!Kinds, g \in Hosts :
           counts'[j][g] = IF j = k /\ g = h THEN counts[j][g] + 1 ELSE counts[j][g]
    BY <1>1 DEF CountsSound
  <2>3. \A j \in Limits!Kinds, g \in Hosts :
           counts[j][g] \in 0..PerIP /\ counts[j][g] = Cardinality(Counted(j, g))
    BY DEF CountsSound
  <2>4. counts[k][h] + 1 \in 0..PerIP BY <1>1, <2>3, LimitNumbers
  <2>5. counts' \in [Limits!Kinds -> [Hosts -> 0..PerIP]]
    BY <1>1, <2>4 DEF CountsSound
  <2>6. \A j \in Limits!Kinds, g \in Hosts : counts'[j][g] = Cardinality(Counted(j, g)')
    <3> TAKE j \in Limits!Kinds, g \in Hosts
    <3>1. CASE j = k /\ g = h BY <3>1, <2>1, <2>2, <2>3
    <3>2. CASE j # k \/ g # h
      <4>1. Counted(j, g)' = Counted(j, g) BY <3>2, <1>8
      <4> QED BY <3>2, <4>1, <2>2, <2>3
    <3> QED BY <3>1, <3>2
  <2> QED BY <1>1, <1>6, <1>7, <2>5, <2>6 DEF CountsSound
<1>10. ClosingSound' BY <1>1 DEF ClosingSound, Limits!ClosedServesNothing
<1> QED BY <1>2, <1>5, <1>9, <1>10

\* Requests move on, and the tables stay as they are.
LEMMA RatesStay ==
    ASSUME TablesSound, IdealSound, UNCHANGED <<tokens, age, ideal>>
    PROVE  TablesSound' /\ IdealSound'
BY DEF TablesSound, IdealSound, Limits!ForgettingGivesNothing, Limits!Available, Limits!Known

LEMMA TakeSlotSound ==
    ASSUME LimitsInv, NEW r \in Requests, Limits!TakeSlot(r)
    PROVE  LimitsInv'
<1> USE DEF LimitsInv
<1>0. PICK k : k = request[r].kind OBVIOUS
<1>1. request[r] \in Underway /\ request[r].pc = "counted" /\ k \in Limits!Kinds
  BY <1>0 DEF Limits!TakeSlot, RequestsSound, Underway, Limits!NoRequest
<1>2. UNCHANGED <<counts, heavy, closing, closed>> BY DEF Limits!TakeSlot
<1>3. TablesSound' /\ IdealSound' BY RatesStay DEF Limits!TakeSlot, Limits!rates
<1>4. PICK to \in {"running", "leaving"} :
        /\ request' = [request EXCEPT ![r].pc = to]
        /\ to = "running" => slots[k] < Slots /\ slots' = [slots EXCEPT ![k] = @ + 1]
        /\ to = "leaving" => slots' = slots
  BY <1>0, Zenon DEF Limits!TakeSlot
<1>5. /\ request'[r] \in Underway /\ request'[r].pc = to
      /\ request'[r].kind = k /\ request'[r].host = request[r].host
      /\ \A q \in Requests \ {r} : request'[q] = request[q]
  BY <1>0, <1>1, <1>4 DEF RequestsSound, Underway
<1>6. RequestsSound'
  <2>1. request' \in [Requests -> Underway \cup {Limits!NoRequest}]
    BY <1>4, <1>5 DEF RequestsSound
  <2> QED BY <1>5, <2>1 DEF RequestsSound
<1>7. HeavyOnes' = HeavyOnes BY <1>1, <1>5 DEF HeavyOnes
<1>8. \A j, h : Counted(j, h)' = Counted(j, h) BY <1>0, <1>1, <1>5 DEF Counted
<1>9. /\ r \notin Holders(k) /\ \A j : j # k => Holders(j)' = Holders(j)
      /\ to = "running" => Holders(k)' = Holders(k) \cup {r}
      /\ to = "leaving" => Holders(k)' = Holders(k)
  BY <1>0, <1>1, <1>5 DEF Holders
<1>10. slots' \in [Limits!Kinds -> 0..Slots] /\ \A j \in Limits!Kinds : slots'[j] = Cardinality(Holders(j)')
  <2>1. CASE to = "running"
    <3>1. Cardinality(Holders(k)') = Cardinality(Holders(k)) + 1
      BY <2>1, <1>9, RequestSetsFinite, FS_AddElement
    <3>2. slots[k] \in 0..Slots /\ slots[k] = Cardinality(Holders(k)) BY <1>1 DEF CountsSound
    <3>3. slots[k] + 1 \in 0..Slots BY <3>2, <1>4, <2>1, LimitNumbers
    <3>4. slots' \in [Limits!Kinds -> 0..Slots] /\ slots'[k] = slots[k] + 1
          /\ \A j \in Limits!Kinds \ {k} : slots'[j] = slots[j]
      BY <1>1, <1>4, <2>1, <3>3 DEF CountsSound
    <3>5. \A j \in Limits!Kinds \ {k} : slots'[j] = Cardinality(Holders(j)')
      <4> TAKE j \in Limits!Kinds \ {k}
      <4>1. Holders(j)' = Holders(j) BY <1>9
      <4> QED BY <3>4, <4>1 DEF CountsSound
    <3>6. slots'[k] = Cardinality(Holders(k)') BY <3>1, <3>2, <3>4
    <3> QED BY <3>4, <3>5, <3>6, Zenon
  <2>2. CASE to = "leaving"
    BY <2>2, <1>4, <1>9 DEF CountsSound
  <2> QED BY <2>1, <2>2
<1>11. CountsSound' BY <1>2, <1>7, <1>8, <1>10 DEF CountsSound
<1>12. ClosingSound' BY <1>1, <1>2 DEF ClosingSound, Limits!ClosedServesNothing
<1> QED BY <1>3, <1>6, <1>11, <1>12

LEMMA AcquireHeavySound ==
    ASSUME LimitsInv, NEW r \in Requests, Limits!AcquireHeavy(r)
    PROVE  LimitsInv'
<1> USE DEF LimitsInv
<1>1. /\ request[r].pc = "running" /\ request[r].kind = "http" /\ heavy < HeavySlots
      /\ heavy' = heavy + 1 /\ request' = [request EXCEPT ![r].pc = "heavy"]
      /\ UNCHANGED <<counts, slots, closing, closed>>
  BY DEF Limits!AcquireHeavy
<1>2. request[r] \in Underway BY <1>1 DEF RequestsSound, Limits!NoRequest
<1>3. TablesSound' /\ IdealSound' BY RatesStay DEF Limits!AcquireHeavy, Limits!rates
<1>4. /\ request'[r] \in Underway /\ request'[r].pc = "heavy"
      /\ request'[r].kind = request[r].kind /\ request'[r].host = request[r].host
      /\ \A q \in Requests \ {r} : request'[q] = request[q]
  BY <1>1, <1>2 DEF RequestsSound, Underway
<1>5. RequestsSound'
  <2>1. request' \in [Requests -> Underway \cup {Limits!NoRequest}]
    BY <1>1, <1>4 DEF RequestsSound
  <2> QED BY <1>1, <1>4, <2>1 DEF RequestsSound
<1>6. \A j, h : Counted(j, h)' = Counted(j, h) BY <1>2, <1>4 DEF Counted
<1>7. \A j : Holders(j)' = Holders(j) BY <1>1, <1>4 DEF Holders
<1>8. r \notin HeavyOnes /\ HeavyOnes' = HeavyOnes \cup {r} BY <1>1, <1>4 DEF HeavyOnes
<1>9. CountsSound'
  <2>1. Cardinality(HeavyOnes') = Cardinality(HeavyOnes) + 1
    BY <1>8, RequestSetsFinite, FS_AddElement
  <2>2. heavy' = Cardinality(HeavyOnes') /\ heavy' \in 0..HeavySlots
    BY <1>1, <2>1, LimitNumbers DEF CountsSound
  <2> QED BY <1>1, <1>6, <1>7, <2>2 DEF CountsSound
<1>10. ClosingSound' BY <1>1 DEF ClosingSound, Limits!ClosedServesNothing
<1> QED BY <1>3, <1>5, <1>9, <1>10

LEMMA ServedSound ==
    ASSUME LimitsInv, NEW r \in Requests, Limits!Served(r)
    PROVE  LimitsInv'
<1> USE DEF LimitsInv
<1>0. PICK k : k = request[r].kind OBVIOUS
<1>1. /\ request[r].pc \in {"running", "heavy"}
      /\ heavy' = IF request[r].pc = "heavy" THEN heavy - 1 ELSE heavy
      /\ slots' = [slots EXCEPT ![k] = @ - 1]
      /\ request' = [request EXCEPT ![r].pc = "leaving"]
      /\ UNCHANGED <<counts, closing, closed>>
  BY <1>0 DEF Limits!Served
<1>2. request[r] \in Underway /\ k \in Limits!Kinds
  BY <1>0, <1>1 DEF RequestsSound, Underway, Limits!NoRequest
<1>3. TablesSound' /\ IdealSound' BY RatesStay DEF Limits!Served, Limits!rates
<1>4. /\ request'[r] \in Underway /\ request'[r].pc = "leaving"
      /\ request'[r].kind = k /\ request'[r].host = request[r].host
      /\ \A q \in Requests \ {r} : request'[q] = request[q]
  BY <1>0, <1>1, <1>2 DEF RequestsSound, Underway
<1>5. RequestsSound'
  <2>1. request' \in [Requests -> Underway \cup {Limits!NoRequest}]
    BY <1>1, <1>4 DEF RequestsSound
  <2> QED BY <1>4, <2>1 DEF RequestsSound
<1>6. \A j, h : Counted(j, h)' = Counted(j, h) BY <1>0, <1>2, <1>4 DEF Counted
<1>7. /\ r \in Holders(k) /\ Holders(k)' = Holders(k) \ {r}
      /\ \A j : j # k => Holders(j)' = Holders(j)
  BY <1>0, <1>1, <1>4 DEF Holders
<1>8. /\ request[r].pc = "heavy" => r \in HeavyOnes /\ HeavyOnes' = HeavyOnes \ {r}
      /\ request[r].pc # "heavy" => HeavyOnes' = HeavyOnes
  BY <1>1, <1>4 DEF HeavyOnes
<1>9. heavy' = Cardinality(HeavyOnes') /\ heavy' \in 0..HeavySlots
  <2>1. heavy \in 0..HeavySlots /\ heavy = Cardinality(HeavyOnes) BY DEF CountsSound
  <2>2. CASE request[r].pc = "heavy"
    <3>1. Cardinality(HeavyOnes') = Cardinality(HeavyOnes) - 1 /\ Cardinality(HeavyOnes') \in Nat
      BY <2>2, <1>8, RequestSetsFinite, FS_RemoveElement, FS_CardinalityType
    <3> QED BY <2>1, <2>2, <3>1, <1>1, LimitNumbers
  <2>3. CASE request[r].pc # "heavy"
    BY <2>1, <2>3, <1>1, <1>8
  <2> QED BY <2>2, <2>3
<1>10. slots' \in [Limits!Kinds -> 0..Slots] /\ \A j \in Limits!Kinds : slots'[j] = Cardinality(Holders(j)')
  <2>1. slots[k] \in 0..Slots /\ slots[k] = Cardinality(Holders(k)) BY <1>2 DEF CountsSound
  <2>2. Cardinality(Holders(k)') = Cardinality(Holders(k)) - 1 /\ Cardinality(Holders(k)') \in Nat
    BY <1>7, RequestSetsFinite, FS_RemoveElement, FS_CardinalityType
  <2>3. slots[k] - 1 \in 0..Slots BY <2>1, <2>2, LimitNumbers
  <2>4. slots' \in [Limits!Kinds -> 0..Slots] /\ slots'[k] = slots[k] - 1
        /\ \A j \in Limits!Kinds \ {k} : slots'[j] = slots[j]
    BY <1>1, <1>2, <2>3 DEF CountsSound
  <2>5. \A j \in Limits!Kinds \ {k} : slots'[j] = Cardinality(Holders(j)')
    <3> TAKE j \in Limits!Kinds \ {k}
    <3>1. Holders(j)' = Holders(j) BY <1>7
    <3> QED BY <2>4, <3>1 DEF CountsSound
  <2>6. slots'[k] = Cardinality(Holders(k)') BY <2>1, <2>2, <2>4
  <2> QED BY <2>4, <2>5, <2>6, Zenon
<1>11. CountsSound' BY <1>1, <1>6, <1>9, <1>10 DEF CountsSound
<1>12. ClosingSound' BY <1>1 DEF ClosingSound, Limits!ClosedServesNothing
<1> QED BY <1>3, <1>5, <1>11, <1>12

LEMMA LeaveSound ==
    ASSUME LimitsInv, NEW r \in Requests, Limits!Leave(r)
    PROVE  LimitsInv'
<1> USE DEF LimitsInv
<1>0. PICK k, h : k = request[r].kind /\ h = request[r].host OBVIOUS
<1>1. /\ request[r].pc = "leaving"
      /\ counts' = [counts EXCEPT ![k][h] = @ - 1]
      /\ request' = [request EXCEPT ![r] = Limits!NoRequest]
      /\ UNCHANGED <<slots, heavy, closing, closed>>
  BY <1>0 DEF Limits!Leave
<1>2. request[r] \in Underway /\ k \in Limits!Kinds /\ h \in Hosts
  BY <1>0, <1>1 DEF RequestsSound, Underway, Limits!NoRequest
<1>3. TablesSound' /\ IdealSound' BY RatesStay DEF Limits!Leave, Limits!rates
<1>4. /\ request'[r] = Limits!NoRequest /\ request'[r].pc = "none" /\ request'[r] \notin Underway
      /\ \A q \in Requests \ {r} : request'[q] = request[q]
  BY <1>1 DEF RequestsSound, Underway, Limits!NoRequest
<1>5. RequestsSound' BY <1>1, <1>4 DEF RequestsSound
<1>6. \A j : Holders(j)' = Holders(j) BY <1>1, <1>4 DEF Holders
<1>7. HeavyOnes' = HeavyOnes BY <1>1, <1>4 DEF HeavyOnes
<1>8. /\ r \in Counted(k, h) /\ Counted(k, h)' = Counted(k, h) \ {r}
      /\ \A j, g : j # k \/ g # h => Counted(j, g)' = Counted(j, g)
  BY <1>0, <1>2, <1>4 DEF Counted
<1>9. CountsSound'
  <2>1. Cardinality(Counted(k, h)') = Cardinality(Counted(k, h)) - 1 /\ Cardinality(Counted(k, h)') \in Nat
    BY <1>8, RequestSetsFinite, FS_RemoveElement, FS_CardinalityType
  <2>2. \A j \in Limits!Kinds, g \in Hosts :
           counts'[j][g] = IF j = k /\ g = h THEN counts[j][g] - 1 ELSE counts[j][g]
    BY <1>1, <1>2 DEF CountsSound
  <2>3. \A j \in Limits!Kinds, g \in Hosts :
           counts[j][g] \in 0..PerIP /\ counts[j][g] = Cardinality(Counted(j, g))
    BY DEF CountsSound
  <2>4. counts[k][h] - 1 \in 0..PerIP BY <1>2, <2>1, <2>3, LimitNumbers
  <2>5. counts' \in [Limits!Kinds -> [Hosts -> 0..PerIP]]
    BY <1>1, <1>2, <2>4 DEF CountsSound
  <2>6. \A j \in Limits!Kinds, g \in Hosts : counts'[j][g] = Cardinality(Counted(j, g)')
    <3> TAKE j \in Limits!Kinds, g \in Hosts
    <3>1. CASE j = k /\ g = h BY <3>1, <2>1, <2>2, <2>3
    <3>2. CASE j # k \/ g # h
      <4>1. Counted(j, g)' = Counted(j, g) BY <3>2, <1>8
      <4> QED BY <3>2, <4>1, <2>2, <2>3
    <3> QED BY <3>1, <3>2
  <2> QED BY <1>1, <1>6, <1>7, <2>5, <2>6 DEF CountsSound
<1>10. ClosingSound' BY <1>1, <1>4 DEF ClosingSound, Limits!ClosedServesNothing
<1> QED BY <1>3, <1>5, <1>9, <1>10

LEMMA CloseSound ==
    ASSUME LimitsInv, Limits!Close \/ Limits!WaitEnds
    PROVE  LimitsInv'
<1> USE DEF LimitsInv
<1>1. UNCHANGED <<tokens, age, ideal, counts, slots, heavy, request>>
  BY DEF Limits!Close, Limits!WaitEnds, Limits!rates
<1>2. TablesSound' /\ IdealSound' BY <1>1, RatesStay
<1>3. RequestsSound' /\ CountsSound'
  BY <1>1 DEF RequestsSound, CountsSound, Holders, Counted, HeavyOnes
<1>4. ClosingSound'
  <2>1. CASE Limits!Close
    BY <2>1, <1>1 DEF ClosingSound, Limits!ClosedServesNothing, Limits!Close
  <2>2. CASE Limits!WaitEnds
    <3>1. closed' = TRUE /\ closing /\ UNCHANGED closing /\ \A r \in Requests : request'[r].pc = "none"
      BY <2>2, <1>1 DEF Limits!WaitEnds
    <3> QED BY <3>1 DEF ClosingSound, Limits!ClosedServesNothing
  <2> QED BY <2>1, <2>2
<1> QED BY <1>2, <1>3, <1>4

LEMMA LimitsInvHolds == NetworkSpec => [](part = "limits" => LimitsInv)
<1>1. NetworkInit => (part = "limits" => LimitsInv)
  BY LimitsInit DEF NetworkInit
<1>2. (part = "limits" => LimitsInv) /\ [NetworkNext]_networkVars => (part = "limits" => LimitsInv)'
  <2> SUFFICES ASSUME part = "limits" => LimitsInv, [NetworkNext]_networkVars, part' = "limits"
               PROVE  LimitsInv'
    OBVIOUS
  <2>1. CASE UNCHANGED networkVars
    <3>1. LimitsInv /\ UNCHANGED limitVars BY <2>1 DEF networkVars
    <3>2. TablesSound' /\ IdealSound' BY <3>1, RatesStay DEF LimitsInv, limitVars
    <3>3. RequestsSound' /\ CountsSound' /\ ClosingSound'
      BY <3>1 DEF LimitsInv, limitVars, RequestsSound, CountsSound, ClosingSound, Holders, Counted, HeavyOnes,
                  Limits!ClosedServesNothing
    <3> QED BY <3>2, <3>3 DEF LimitsInv
  <2>2. CASE NetworkNext
    <3>1. LimitsInv /\ Limits!Next BY <2>2 DEF NetworkNext, Moves
    <3> QED BY <3>1, TickSound, LimitedSound, AdmitSound, TakeSlotSound, AcquireHeavySound, ServedSound,
               LeaveSound, CloseSound DEF Limits!Next
  <2> QED BY <2>1, <2>2
<1> QED BY <1>1, <1>2, PTL DEF NetworkSpec

\* Whoever is refused, cut off or closed gives back exactly what he took: the bytes of a
\* send queue, the slots and counts of requests, and nothing for being forgotten
\* (websocket.go:926, :954, http_protocol.go:611).
THEOREM EverythingGivenBack == NetworkSpec => []NothingLeaks
<1>1. (part = "queue" => QueueInv) /\ (part = "limits" => LimitsInv) => NothingLeaks
  BY LimitsPromise DEF NothingLeaks, QueueInv
<1> QED BY <1>1, QueueInvHolds, LimitsInvHolds, PTL

-----------------------------------------------------------------------------
(* The table of peers and their sockets.                                   *)

LEMMA TableSets ==
    /\ \A S : Table!Cardinality(S) = Cardinality(S)
    /\ \A S : Table!IsFiniteSet(S) = IsFiniteSet(S)
<1>1. \A S : Table!Cardinality(S) = Cardinality(S) BY DEF Table!Cardinality, Cardinality
<1>2. \A S : Table!IsFiniteSet(S) = IsFiniteSet(S) BY DEF Table!IsFiniteSet, IsFiniteSet
<1> QED BY <1>1, <1>2

LEMMA PeerNumbers ==
    /\ MaxPeers \in Nat /\ MaxDiscovered \in Nat /\ MaxOutbound \in Nat /\ MaxEvents \in Nat /\ MaxRestarts \in Nat
    /\ Seeds \subseteq Names /\ Table!Free \notin Names
    /\ IsFiniteSet(Seeds) /\ Cardinality(Seeds) <= MaxPeers /\ Cardinality(Seeds) <= MaxDiscovered
BY TableSets, NetworkAssumption DEF Table!PeersAssumption

PeerRecord == [online : BOOLEAN, failures : Nat, seen : BOOLEAN, wait : BOOLEAN, generation : Nat,
               discovered : BOOLEAN, public : BOOLEAN, bootstrap : BOOLEAN, active : BOOLEAN]
StoredRecord == [manual : BOOLEAN, seen : BOOLEAN, failures : Nat, wait : BOOLEAN]

\* The table in memory, with what happened to each peer.
MemorySound ==
    /\ peers = [p \in DOMAIN peers |-> peers[p]]
    /\ DOMAIN peers \subseteq Names /\ IsFiniteSet(DOMAIN peers) /\ Cardinality(DOMAIN peers) <= MaxPeers
    /\ \A p \in DOMAIN peers : /\ peers[p] \in PeerRecord
                               /\ peers[p].failures <= events /\ peers[p].generation <= events
    /\ Cardinality(Table!Discovered(peers)) <= MaxDiscovered

StoredDiscovered == {p \in DOMAIN stored : ~stored[p].manual}

StoreSound ==
    /\ stored = [p \in DOMAIN stored |-> stored[p]]
    /\ DOMAIN stored \subseteq Names /\ IsFiniteSet(DOMAIN stored) /\ Cardinality(DOMAIN stored) <= MaxPeers
    /\ \A p \in DOMAIN stored : stored[p] \in StoredRecord
    /\ Cardinality(StoredDiscovered) <= MaxDiscovered

\* A failure is in SQLite, about to be, or neither, but never twice.
StoredFailures(p) == IF p \in DOMAIN stored THEN stored[p].failures ELSE 0
FailureTasks(p) == {t \in tasks : t.peer = p /\ t.kind = "failure"}

TasksSound ==
    /\ events \in 0..MaxEvents /\ restarts \in 0..MaxRestarts
    /\ tasks \subseteq [peer : Names, kind : {"success", "failure"}, generation : 0..MaxEvents]
    /\ IsFiniteSet(tasks)
    /\ \A p \in Names : StoredFailures(p) + Cardinality(FailureTasks(p)) <= events

\* What the two tables differ in while somebody is between the two writes.
MutationSound ==
    /\ mutation \in [op : {Table!Free, "add", "discover", "remove"}, peer : Names \cup {Table!Free}, bootstrap : BOOLEAN]
    /\ mutation.op = Table!Free <=> mutation.peer = Table!Free
    /\ DOMAIN stored \ {mutation.peer} = DOMAIN peers \ {mutation.peer}
    /\ \A p \in DOMAIN peers \ {mutation.peer} : stored[p].manual = ~peers[p].discovered
    /\ mutation.op = "add" => mutation.peer \in DOMAIN stored /\ stored[mutation.peer].manual
    /\ mutation.op = "discover" => /\ mutation.peer \in DOMAIN stored \ DOMAIN peers
                                   /\ ~stored[mutation.peer].manual
    /\ mutation.op = "remove" => mutation.peer \in DOMAIN peers \ DOMAIN stored

ActiveSound ==
    /\ active = {p \in DOMAIN peers : peers[p].active}
    /\ Cardinality(active) <= MaxOutbound

\* Everybody who is dialled, and the sockets that came of it.
SocketsSound ==
    /\ dialing \subseteq Names /\ socketWait \subseteq Names /\ toStop \subseteq Dials
    /\ dial \in [Dials -> [pc : {"idle", "dial", "end"}, peer : Names \cup {Table!Free}]]
    /\ socket \in [Dials -> {"none", "run", "stopped"}]
    /\ outbound \in [DOMAIN outbound -> Dials]
    /\ DOMAIN outbound \subseteq Names /\ IsFiniteSet(DOMAIN outbound) /\ IsFiniteSet(dialing)
    /\ Cardinality(DOMAIN outbound) <= MaxOutbound
    /\ \A p \in DOMAIN outbound : socket[outbound[p]] # "none"
    /\ \A d \in Dials : dial[d].pc = "dial" => socket[d] = "none"

PeersInv ==
    MemorySound /\ StoreSound /\ TasksSound /\ MutationSound /\ ActiveSound /\ SocketsSound /\ Table!NoStraySocket

LEMMA PeersPromise ==
    ASSUME PeersInv
    PROVE  /\ Table!TypeOK /\ Table!PeerLimits /\ Table!StoreMatchesMemory
           /\ Table!OutboundWithinLimit /\ Table!NoStraySocket
<1> USE DEF PeersInv
<1>1. Table!TypeOK
  <2>1. \A p \in DOMAIN peers : peers[p].failures \in 0..MaxEvents /\ peers[p].generation \in 0..MaxEvents
    BY PeerNumbers DEF MemorySound, PeerRecord, TasksSound
  <2>2. Table!Range(outbound) \subseteq Dials BY DEF Table!Range, SocketsSound
  <2>3. active \subseteq Names BY DEF ActiveSound, MemorySound
  <2>4. \A d \in Dials : dial[d].pc \in {"idle", "dial", "end"} /\ socket[d] \in {"none", "run", "stopped"}
    BY DEF SocketsSound
  <2>5. mutation.op \in {Table!Free, "add", "discover", "remove"} BY DEF MutationSound
  <2>6. DOMAIN peers \subseteq Names /\ DOMAIN stored \subseteq Names BY DEF MemorySound, StoreSound
  <2>7. /\ dialing \subseteq Names /\ socketWait \subseteq Names
        /\ DOMAIN outbound \subseteq Names /\ toStop \subseteq Dials
    BY DEF SocketsSound
  <2>8. /\ tasks \subseteq [peer : Names, kind : {"success", "failure"}, generation : 0..MaxEvents]
        /\ events \in 0..MaxEvents /\ restarts \in 0..MaxRestarts
    BY DEF TasksSound
  <2> QED BY <2>1, <2>2, <2>3, <2>4, <2>5, <2>6, <2>7, <2>8 DEF Table!TypeOK
<1>2. Table!PeerLimits BY TableSets DEF Table!PeerLimits, MemorySound, StoreSound
<1>3. Table!StoreMatchesMemory
  <2> SUFFICES ASSUME mutation.op = Table!Free
               PROVE  /\ DOMAIN stored = DOMAIN peers
                      /\ \A p \in DOMAIN peers : stored[p].manual = ~peers[p].discovered
    BY DEF Table!StoreMatchesMemory
  <2>1. mutation.peer = Table!Free BY DEF MutationSound
  <2>2. Table!Free \notin DOMAIN peers /\ Table!Free \notin DOMAIN stored
    BY PeerNumbers DEF MemorySound, StoreSound
  <2>3. DOMAIN stored \ {Table!Free} = DOMAIN peers \ {Table!Free} BY <2>1 DEF MutationSound
  <2>4. \A p \in DOMAIN peers \ {Table!Free} : stored[p].manual = ~peers[p].discovered BY <2>1 DEF MutationSound
  <2> HIDE DEF Table!Free
  <2>5. DOMAIN stored = DOMAIN peers BY <2>2, <2>3
  <2> QED BY <2>2, <2>4, <2>5
<1>4. Table!OutboundWithinLimit BY TableSets DEF Table!OutboundWithinLimit, ActiveSound, SocketsSound
<1> QED BY <1>1, <1>2, <1>3, <1>4

LEMMA NewPeers ==
    ASSUME NEW a \in BOOLEAN, NEW b \in BOOLEAN, NEW p
    PROVE  /\ Table!NewPeer(a, b, p) \in PeerRecord /\ Table!NewPeer(a, b, p).discovered = a
           /\ Table!NewPeer(a, b, p).failures = 0 /\ Table!NewPeer(a, b, p).generation = 0
           /\ Table!NewPeer(a, b, p).active = FALSE
BY DEF Table!NewPeer, PeerRecord

\* What NewContext makes of the stored peers.
LEMMA LoadedPeers ==
    ASSUME NEW t, \A p \in DOMAIN t : t[p] \in StoredRecord
    PROVE  /\ DOMAIN Table!Loaded(t) = DOMAIN t
           /\ Table!Loaded(t) = [p \in DOMAIN t |-> Table!Loaded(t)[p]]
           /\ \A p \in DOMAIN t :
                 /\ Table!Loaded(t)[p] \in PeerRecord /\ Table!Loaded(t)[p].failures = t[p].failures
                 /\ Table!Loaded(t)[p].generation = 0 /\ Table!Loaded(t)[p].discovered = ~t[p].manual
                 /\ Table!Loaded(t)[p].active = FALSE
<1>1. DOMAIN Table!Loaded(t) = DOMAIN t /\ Table!Loaded(t) = [p \in DOMAIN t |-> Table!Loaded(t)[p]]
  BY DEF Table!Loaded
<1>2. ASSUME NEW p \in DOMAIN t
      PROVE  /\ Table!Loaded(t)[p] \in PeerRecord /\ Table!Loaded(t)[p].failures = t[p].failures
             /\ Table!Loaded(t)[p].generation = 0 /\ Table!Loaded(t)[p].discovered = ~t[p].manual
             /\ Table!Loaded(t)[p].active = FALSE
  <2>1. Table!Loaded(t)[p] = [Table!NewPeer(~t[p].manual, ~t[p].manual /\ p \in Seeds, p)
                                 EXCEPT !.seen = t[p].seen, !.failures = t[p].failures, !.wait = t[p].wait]
    BY DEF Table!Loaded
  <2>2. t[p].seen \in BOOLEAN /\ t[p].failures \in Nat /\ t[p].wait \in BOOLEAN /\ t[p].manual \in BOOLEAN
    BY DEF StoredRecord
  <2>3. \A a, b \in BOOLEAN : /\ Table!NewPeer(a, b, p) \in PeerRecord /\ Table!NewPeer(a, b, p).discovered = a
                              /\ Table!NewPeer(a, b, p).generation = 0 /\ Table!NewPeer(a, b, p).active = FALSE
    BY NewPeers
  <2>4. PICK n \in PeerRecord : /\ n = Table!NewPeer(~t[p].manual, ~t[p].manual /\ p \in Seeds, p)
                                /\ n.discovered = ~t[p].manual /\ n.generation = 0 /\ n.active = FALSE
    BY <2>2, <2>3
  <2>5. Table!Loaded(t)[p] = [n EXCEPT !.seen = t[p].seen, !.failures = t[p].failures, !.wait = t[p].wait]
    BY <2>1, <2>4, Zenon
  <2>6. PICK l : l = Table!Loaded(t)[p] OBVIOUS
  <2>7. l \in PeerRecord /\ l.failures = t[p].failures /\ l.generation = 0
        /\ l.discovered = ~t[p].manual /\ l.active = FALSE
    <3>1. l = [n EXCEPT !.seen = t[p].seen, !.failures = t[p].failures, !.wait = t[p].wait] BY <2>5, <2>6, Zenon
    <3>2. PICK x, y, z : x = t[p].seen /\ y = t[p].failures /\ z = t[p].wait OBVIOUS
    <3>3. l = [n EXCEPT !.seen = x, !.failures = y, !.wait = z] BY <3>1, <3>2, Zenon
    <3>4. x \in BOOLEAN /\ y \in Nat /\ z \in BOOLEAN BY <2>2, <3>2, Zenon
    <3>5. l \in PeerRecord /\ l.failures = y /\ l.generation = n.generation
          /\ l.discovered = n.discovered /\ l.active = n.active
      BY <3>3, <3>4 DEF PeerRecord
    <3> QED BY <3>2, <3>5, <2>4, Zenon
  <2> QED BY <2>6, <2>7, Zenon
<1> QED BY <1>1, <1>2

LEMMA SeededPeers ==
    ASSUME NEW t, \A p \in DOMAIN t : t[p] \in StoredRecord
    PROVE  /\ DOMAIN Table!WithSeeds(t) = DOMAIN t \cup Seeds
           /\ \A p \in DOMAIN t \cup Seeds : Table!WithSeeds(t)[p] \in StoredRecord
           /\ \A p \in DOMAIN t : Table!WithSeeds(t)[p] = t[p]
           /\ \A p \in Seeds \ DOMAIN t : Table!WithSeeds(t)[p].failures = 0 /\ ~Table!WithSeeds(t)[p].manual
BY DEF Table!WithSeeds, StoredRecord

LEMMA PeersInit == Table!Init => PeersInv
<1> SUFFICES ASSUME Table!Init PROVE PeersInv OBVIOUS
<1> DEFINE none == Table!Empty
<1>1. DOMAIN none = {} BY DEF Table!Empty
<1>2. /\ DOMAIN stored = Seeds /\ stored = Table!WithSeeds(none)
      /\ \A p \in Seeds : stored[p] \in StoredRecord /\ stored[p].failures = 0 /\ ~stored[p].manual
  <2>1. stored = Table!WithSeeds(none) BY DEF Table!Init
  <2> HIDE DEF none
  <2> QED BY <1>1, <2>1, SeededPeers
<1>3. /\ DOMAIN peers = Seeds /\ peers = [p \in DOMAIN peers |-> peers[p]]
      /\ \A p \in Seeds : /\ peers[p] \in PeerRecord /\ peers[p].failures = 0 /\ peers[p].generation = 0
                          /\ peers[p].discovered = TRUE /\ peers[p].active = FALSE
  <2>1. peers = Table!Loaded(stored) BY <1>2 DEF Table!Init
  <2>2. \A p \in DOMAIN stored : stored[p] \in StoredRecord BY <1>2
  <2>3. /\ DOMAIN peers = DOMAIN stored /\ peers = [p \in DOMAIN stored |-> peers[p]]
        /\ \A p \in DOMAIN stored :
              /\ peers[p] \in PeerRecord /\ peers[p].failures = stored[p].failures
              /\ peers[p].generation = 0 /\ peers[p].discovered = ~stored[p].manual /\ peers[p].active = FALSE
    BY <2>1, <2>2, LoadedPeers
  <2>4. DOMAIN peers = Seeds /\ DOMAIN stored = Seeds BY <1>2, <2>3
  <2>5. peers = [p \in DOMAIN peers |-> peers[p]] BY <2>3
  <2>6. \A p \in Seeds : /\ peers[p] \in PeerRecord /\ peers[p].failures = 0 /\ peers[p].generation = 0
                         /\ peers[p].discovered = TRUE /\ peers[p].active = FALSE
    BY <1>2, <2>3, <2>4
  <2> QED BY <2>4, <2>5, <2>6
<1>4. /\ active = {} /\ tasks = {} /\ dialing = {} /\ socketWait = {} /\ toStop = {} /\ outbound = none
      /\ events = 0 /\ restarts = 0 /\ mutation = Table!NoMutation
      /\ dial = [d \in Dials |-> Table!NoDial] /\ socket = [d \in Dials |-> "none"]
  BY DEF Table!Init
<1>5. IsFiniteSet({}) /\ Cardinality({}) = 0 BY FS_EmptySet
<1>6. MemorySound
  <2>1. Table!Discovered(peers) \subseteq Seeds BY <1>3 DEF Table!Discovered
  <2>2. Cardinality(Table!Discovered(peers)) <= Cardinality(Seeds) /\ Cardinality(Seeds) \in Nat
        /\ Cardinality(Table!Discovered(peers)) \in Nat
    BY <2>1, PeerNumbers, FS_Subset, FS_CardinalityType
  <2>3. Cardinality(Table!Discovered(peers)) <= MaxDiscovered BY <2>2, PeerNumbers
  <2> QED BY <1>3, <1>4, <2>3, PeerNumbers DEF MemorySound
<1>7. StoreSound
  <2>1. StoredDiscovered \subseteq Seeds BY <1>2 DEF StoredDiscovered
  <2>2. Cardinality(StoredDiscovered) <= Cardinality(Seeds) /\ Cardinality(Seeds) \in Nat
        /\ Cardinality(StoredDiscovered) \in Nat
    BY <2>1, PeerNumbers, FS_Subset, FS_CardinalityType
  <2>3. Cardinality(StoredDiscovered) <= MaxDiscovered BY <2>2, PeerNumbers
  <2>4. stored = [p \in DOMAIN stored |-> stored[p]] BY <1>2 DEF Table!WithSeeds
  <2> QED BY <1>2, <2>3, <2>4, PeerNumbers DEF StoreSound
<1>8. TasksSound
  <2>1. \A p \in Names : StoredFailures(p) = 0 BY <1>2 DEF StoredFailures
  <2>2. \A p \in Names : FailureTasks(p) = {} BY <1>4 DEF FailureTasks
  <2>3. 0 \in 0..MaxEvents /\ 0 \in 0..MaxRestarts BY PeerNumbers
  <2> QED BY <1>4, <1>5, <2>1, <2>2, <2>3 DEF TasksSound
<1>9. MutationSound
  <2>1. mutation.op = Table!Free /\ mutation.peer = Table!Free /\ mutation.bootstrap = FALSE
    BY <1>4 DEF Table!NoMutation
  <2>2. mutation \in [op : {Table!Free, "add", "discover", "remove"}, peer : Names \cup {Table!Free}, bootstrap : BOOLEAN]
    BY <1>4 DEF Table!NoMutation
  <2>3. \A p \in DOMAIN peers : stored[p].manual = ~peers[p].discovered
    BY <1>2, <1>3 DEF StoredRecord, PeerRecord
  <2> QED BY <1>2, <1>3, <2>1, <2>2, <2>3 DEF MutationSound, Table!Free
<1>10. ActiveSound BY <1>3, <1>4, <1>5, PeerNumbers DEF ActiveSound
<1>11. SocketsSound
  <2>1. \A d \in Dials : dial[d].pc = "idle" /\ socket[d] = "none" BY <1>4 DEF Table!NoDial
  <2>2. dial \in [Dials -> [pc : {"idle", "dial", "end"}, peer : Names \cup {Table!Free}]]
    BY <1>4 DEF Table!NoDial
  <2>3. outbound \in [DOMAIN outbound -> Dials] /\ DOMAIN outbound = {} BY <1>1, <1>4 DEF Table!Empty
  <2>4. socket \in [Dials -> {"none", "run", "stopped"}] BY <1>4
  <2> HIDE DEF none
  <2> QED BY <1>4, <1>5, <2>1, <2>2, <2>3, <2>4, PeerNumbers DEF SocketsSound
<1>12. Table!NoStraySocket BY <1>4 DEF Table!NoStraySocket
<1> QED BY <1>6, <1>7, <1>8, <1>9, <1>10, <1>11, <1>12 DEF PeersInv

LEMMA CrashSound ==
    ASSUME PeersInv, Table!Crash
    PROVE  PeersInv'
<1> USE DEF PeersInv
<1> DEFINE all == Table!WithSeeds(stored)
           K == {p \in DOMAIN all : ~Table!Stale(all, p)}
           none == Table!Empty
<1>1. /\ stored' = Table!Restrict(all, K) /\ peers' = Table!Loaded(stored') /\ Table!Startable
      /\ active' = {} /\ tasks' = {} /\ dialing' = {} /\ socketWait' = {} /\ toStop' = {} /\ outbound' = none
      /\ events' = events /\ restarts' = restarts + 1 /\ restarts < MaxRestarts /\ mutation' = Table!NoMutation
      /\ dial' = [d \in Dials |-> Table!NoDial] /\ socket' = [d \in Dials |-> "none"]
  BY Zenon DEF Table!Crash, Table!Start
<1>2. /\ DOMAIN all = DOMAIN stored \cup Seeds
      /\ \A p \in DOMAIN all : all[p] \in StoredRecord
      /\ \A p \in DOMAIN stored : all[p] = stored[p]
      /\ \A p \in DOMAIN all \ DOMAIN stored : all[p].failures = 0 /\ ~all[p].manual
  BY SeededPeers DEF StoreSound
<1>3. stored' = [p \in K |-> all[p]] /\ DOMAIN stored' = K /\ K \subseteq DOMAIN all
  BY <1>1 DEF Table!Restrict
<1>4. /\ IsFiniteSet(DOMAIN all) /\ Cardinality(DOMAIN all) <= MaxPeers
      /\ Cardinality({p \in DOMAIN all : ~all[p].manual}) <= MaxDiscovered
  <2>1. IsFiniteSet(DOMAIN all)
    <3>1. IsFiniteSet(DOMAIN stored) /\ IsFiniteSet(Seeds) BY PeerNumbers DEF StoreSound
    <3>2. IsFiniteSet(DOMAIN stored \cup Seeds) BY <3>1, FS_Union
    <3> QED BY <1>2, <3>2
  <2>2. CASE Seeds \subseteq DOMAIN stored
    <3>1. DOMAIN all = DOMAIN stored BY <1>2, <2>2
    <3>2. {p \in DOMAIN all : ~all[p].manual} = StoredDiscovered BY <1>2, <3>1 DEF StoredDiscovered
    <3> QED BY <3>1, <3>2, <2>1 DEF StoreSound
  <2>3. CASE ~(Seeds \subseteq DOMAIN stored)
    BY <1>1, <2>1, <2>3, TableSets, Zenon DEF Table!Startable
  <2> QED BY <2>2, <2>3
<1> HIDE DEF all, K, none
<1>5. /\ IsFiniteSet(K) /\ Cardinality(K) <= MaxPeers /\ K \subseteq Names
  <2>1. IsFiniteSet(K) /\ Cardinality(K) <= Cardinality(DOMAIN all)
        /\ Cardinality(K) \in Nat /\ Cardinality(DOMAIN all) \in Nat
    BY <1>3, <1>4, FS_Subset, FS_CardinalityType
  <2> QED BY <2>1, <1>2, <1>3, <1>4, PeerNumbers DEF StoreSound
<1>6. Cardinality(StoredDiscovered') <= MaxDiscovered /\ IsFiniteSet(StoredDiscovered')
  <2>1. StoredDiscovered' \subseteq {p \in DOMAIN all : ~all[p].manual} BY <1>3 DEF StoredDiscovered
  <2>2. IsFiniteSet({p \in DOMAIN all : ~all[p].manual}) BY <1>4, FS_Subset
  <2> QED BY <2>1, <2>2, <1>4, FS_Subset, FS_CardinalityType, PeerNumbers
<1>7. StoreSound'
  <2>1. \A p \in K : stored'[p] \in StoredRecord BY <1>2, <1>3
  <2> QED BY <1>3, <1>5, <1>6, <2>1 DEF StoreSound
<1>8. \A p \in Names : StoredFailures(p)' <= events /\ StoredFailures(p)' \in Nat
  <2> TAKE p \in Names
  <2>1. StoredFailures(p) + Cardinality(FailureTasks(p)) <= events BY DEF TasksSound
  <2>2. Cardinality(FailureTasks(p)) \in Nat /\ events \in Nat
    BY FS_Subset, FS_CardinalityType, PeerNumbers DEF TasksSound, FailureTasks
  <2>3. StoredFailures(p) \in Nat BY DEF StoredFailures, StoreSound, StoredRecord
  <2>4. StoredFailures(p)' = StoredFailures(p) \/ StoredFailures(p)' = 0
    BY <1>2, <1>3 DEF StoredFailures
  <2> QED BY <2>1, <2>2, <2>3, <2>4
<1>9. TasksSound'
  <2>1. \A p \in Names : FailureTasks(p)' = {} BY <1>1 DEF FailureTasks
  <2>2. \A p \in Names : StoredFailures(p)' + Cardinality(FailureTasks(p)') <= events'
    BY <1>1, <1>8, <2>1, FS_EmptySet
  <2>3. restarts' \in 0..MaxRestarts /\ events' \in 0..MaxEvents BY <1>1, PeerNumbers DEF TasksSound
  <2> QED BY <1>1, <2>2, <2>3, FS_EmptySet DEF TasksSound
<1>10. /\ DOMAIN peers' = K /\ peers' = [p \in DOMAIN peers' |-> peers'[p]]
       /\ \A p \in K : /\ peers'[p] \in PeerRecord /\ peers'[p].failures = stored'[p].failures
                       /\ peers'[p].generation = 0
                       /\ peers'[p].discovered = ~stored'[p].manual /\ peers'[p].active = FALSE
  <2>1. \A p \in DOMAIN stored' : stored'[p] \in StoredRecord BY <1>7 DEF StoreSound
  <2>2. peers' = Table!Loaded(stored') BY <1>1
  <2>3. /\ DOMAIN peers' = DOMAIN stored' /\ peers' = [p \in DOMAIN stored' |-> peers'[p]]
        /\ \A p \in DOMAIN stored' :
              /\ peers'[p] \in PeerRecord /\ peers'[p].failures = stored'[p].failures
              /\ peers'[p].generation = 0 /\ peers'[p].discovered = ~stored'[p].manual
              /\ peers'[p].active = FALSE
    BY <2>1, <2>2, LoadedPeers
  <2> QED BY <1>3, <2>3, SMTT(30)
<1>11. MemorySound'
  <2>1. Table!Discovered(peers)' = StoredDiscovered'
    BY <1>3, <1>10 DEF Table!Discovered, StoredDiscovered
  <2>2. \A p \in K : peers'[p].failures <= events' /\ peers'[p].generation <= events'
    BY <1>1, <1>3, <1>5, <1>8, <1>10, PeerNumbers DEF StoredFailures, TasksSound
  <2> QED BY <1>5, <1>6, <1>10, <2>1, <2>2 DEF MemorySound
<1>12. MutationSound'
  <2>1. mutation'.op = Table!Free /\ mutation'.peer = Table!Free /\ mutation'.bootstrap = FALSE
    BY <1>1 DEF Table!NoMutation
  <2>2. mutation' \in [op : {Table!Free, "add", "discover", "remove"}, peer : Names \cup {Table!Free}, bootstrap : BOOLEAN]
    BY <1>1 DEF Table!NoMutation
  <2>3. \A p \in K : stored'[p].manual \in BOOLEAN BY <1>3, <1>7 DEF StoreSound, StoredRecord
  <2>4. \A p \in K : stored'[p].manual = ~peers'[p].discovered BY <1>10, <2>3
  <2> QED BY <1>3, <1>10, <2>1, <2>2, <2>4 DEF MutationSound, Table!Free
<1>13. ActiveSound' BY <1>1, <1>10, FS_EmptySet, PeerNumbers DEF ActiveSound
<1>14. SocketsSound'
  <2>1. \A d \in Dials : dial'[d].pc = "idle" /\ socket'[d] = "none" BY <1>1 DEF Table!NoDial
  <2>2. dial' \in [Dials -> [pc : {"idle", "dial", "end"}, peer : Names \cup {Table!Free}]]
    BY <1>1 DEF Table!NoDial
  <2>3. outbound' \in [DOMAIN outbound' -> Dials] /\ DOMAIN outbound' = {} BY <1>1 DEF none, Table!Empty
  <2>4. socket' \in [Dials -> {"none", "run", "stopped"}] BY <1>1
  <2> QED BY <1>1, <2>1, <2>2, <2>3, <2>4, PeerNumbers, FS_EmptySet DEF SocketsSound
<1>15. Table!NoStraySocket' BY <1>1 DEF Table!NoStraySocket
<1> QED BY <1>7, <1>9, <1>11, <1>12, <1>13, <1>14, <1>15

\* What a change of the store leaves alone.
LEMMA MemoryStays ==
    ASSUME MemorySound, UNCHANGED <<peers, events>>
    PROVE  MemorySound'
BY DEF MemorySound, Table!Discovered

LEMMA ActiveStays ==
    ASSUME ActiveSound, UNCHANGED <<peers, active>>
    PROVE  ActiveSound'
BY DEF ActiveSound

LEMMA SocketsStay ==
    ASSUME SocketsSound, Table!NoStraySocket, UNCHANGED <<dialing, dial, socket, outbound, toStop, socketWait>>,
           active \subseteq active'
    PROVE  SocketsSound' /\ Table!NoStraySocket'
<1>1. SocketsSound' BY DEF SocketsSound
<1>2. Table!NoStraySocket' BY DEF Table!NoStraySocket
<1> QED BY <1>1, <1>2

LEMMA TasksStay ==
    ASSUME TasksSound, UNCHANGED <<tasks, events, restarts>>,
           \A p \in Names : StoredFailures(p)' = StoredFailures(p)
    PROVE  TasksSound'
<1>1. \A p \in Names : FailureTasks(p)' = FailureTasks(p) BY DEF FailureTasks
<1> QED BY <1>1 DEF TasksSound

\* Between writes the tables name the same peers.
LEMMA TablesAgree ==
    ASSUME MemorySound, StoreSound, MutationSound, mutation.op = Table!Free
    PROVE  /\ DOMAIN stored = DOMAIN peers
           /\ \A p \in DOMAIN peers : stored[p].manual = ~peers[p].discovered
           /\ StoredDiscovered = Table!Discovered(peers)
<1>1. mutation.peer = Table!Free BY DEF MutationSound
<1>2. Table!Free \notin DOMAIN peers /\ Table!Free \notin DOMAIN stored
  BY PeerNumbers DEF MemorySound, StoreSound
<1>3. DOMAIN stored \ {Table!Free} = DOMAIN peers \ {Table!Free} BY <1>1 DEF MutationSound
<1>4. \A p \in DOMAIN peers \ {Table!Free} : stored[p].manual = ~peers[p].discovered BY <1>1 DEF MutationSound
<1> HIDE DEF Table!Free
<1>5. DOMAIN stored = DOMAIN peers BY <1>2, <1>3
<1>6. \A p \in DOMAIN peers : stored[p].manual = ~peers[p].discovered BY <1>2, <1>4
<1>7. \A p \in DOMAIN peers : peers[p].discovered \in BOOLEAN BY DEF MemorySound, PeerRecord
<1>8. StoredDiscovered = Table!Discovered(peers) BY <1>5, <1>6, <1>7 DEF StoredDiscovered, Table!Discovered
<1> QED BY <1>5, <1>6, <1>8

LEMMA UpsertSound ==
    ASSUME StoreSound, NEW p \in Names, NEW manual \in BOOLEAN, Table!Upsert(p, manual),
           p \in DOMAIN stored \/ Cardinality(DOMAIN stored) < MaxPeers,
           manual \/ (p \notin DOMAIN stored /\ Cardinality(StoredDiscovered) < MaxDiscovered)
    PROVE  /\ StoreSound' /\ DOMAIN stored' = DOMAIN stored \cup {p}
           /\ \A q \in DOMAIN stored \ {p} : stored'[q] = stored[q]
           /\ stored'[p].manual = manual
           /\ \A q \in Names : StoredFailures(q)' = StoredFailures(q)
<1> DEFINE fresh == [manual |-> manual, seen |-> FALSE, failures |-> 0, wait |-> FALSE]
           record == IF p \in DOMAIN stored THEN [stored[p] EXCEPT !.manual = @ \/ manual] ELSE fresh
<1>1. stored' = [q \in DOMAIN stored \cup {p} |-> IF q # p THEN stored[q] ELSE record]
  BY DEF Table!Upsert
<1>2. /\ record \in StoredRecord /\ record.manual = manual
      /\ record.failures = StoredFailures(p)
  <2>1. CASE p \in DOMAIN stored
    <3>1. manual = TRUE BY <2>1
    <3>2. stored[p] \in StoredRecord BY <2>1 DEF StoreSound
    <3>3. record = [stored[p] EXCEPT !.manual = @ \/ manual] BY <2>1
    <3> QED BY <2>1, <3>1, <3>2, <3>3 DEF StoredRecord, StoredFailures
  <2>2. CASE p \notin DOMAIN stored
    <3>1. record = fresh BY <2>2
    <3> QED BY <2>2, <3>1 DEF StoredRecord, StoredFailures
  <2> QED BY <2>1, <2>2
<1> HIDE DEF record
<1>3. /\ DOMAIN stored' = DOMAIN stored \cup {p} /\ stored'[p] = record
      /\ \A q \in DOMAIN stored \ {p} : stored'[q] = stored[q]
  BY <1>1
<1>4. /\ IsFiniteSet(DOMAIN stored') /\ Cardinality(DOMAIN stored') <= MaxPeers
  <2>1. CASE p \in DOMAIN stored
    <3>1. DOMAIN stored' = DOMAIN stored BY <2>1, <1>3
    <3> QED BY <3>1 DEF StoreSound
  <2>2. CASE p \notin DOMAIN stored
    <3>1. IsFiniteSet(DOMAIN stored) /\ Cardinality(DOMAIN stored) \in Nat
      BY FS_CardinalityType DEF StoreSound
    <3>2. IsFiniteSet(DOMAIN stored') /\ Cardinality(DOMAIN stored') = Cardinality(DOMAIN stored) + 1
      BY <2>2, <1>3, <3>1, FS_AddElement
    <3> QED BY <2>2, <3>1, <3>2, PeerNumbers
  <2> QED BY <2>1, <2>2
<1>5. Cardinality(StoredDiscovered') <= MaxDiscovered
  <2>1. IsFiniteSet(StoredDiscovered) /\ Cardinality(StoredDiscovered) \in Nat
    BY FS_Subset, FS_CardinalityType DEF StoreSound, StoredDiscovered
  <2>2. CASE manual
    <3>1. StoredDiscovered' \subseteq StoredDiscovered BY <2>2, <1>2, <1>3 DEF StoredDiscovered
    <3> QED BY <2>1, <3>1, FS_Subset, FS_CardinalityType, PeerNumbers DEF StoreSound
  <2>3. CASE ~manual
    <3>1. StoredDiscovered' = StoredDiscovered \cup {p} /\ p \notin StoredDiscovered
      BY <2>3, <1>2, <1>3 DEF StoredDiscovered
    <3>2. Cardinality(StoredDiscovered') = Cardinality(StoredDiscovered) + 1
      BY <2>1, <3>1, FS_AddElement
    <3> QED BY <2>1, <2>3, <3>2, PeerNumbers
  <2> QED BY <2>2, <2>3
<1>6. stored' = [q \in DOMAIN stored' |-> stored'[q]] BY <1>1
<1>7. \A q \in DOMAIN stored' : stored'[q] \in StoredRecord BY <1>2, <1>3 DEF StoreSound
<1>8. StoreSound' BY <1>3, <1>4, <1>5, <1>6, <1>7 DEF StoreSound
<1>9. \A q \in Names : StoredFailures(q)' = StoredFailures(q)
  BY <1>2, <1>3 DEF StoredFailures
<1> QED BY <1>2, <1>3, <1>8, <1>9

LEMMA AddPeerSound ==
    ASSUME PeersInv, NEW p \in Names, Table!AddPeer(p)
    PROVE  PeersInv'
<1> USE DEF PeersInv
<1>1. /\ mutation.op = Table!Free /\ Table!Upsert(p, TRUE)
      /\ p \in DOMAIN peers \/ Cardinality(DOMAIN peers) < MaxPeers
      /\ mutation' = [op |-> "add", peer |-> p, bootstrap |-> FALSE]
      /\ UNCHANGED <<peers, active, tasks, events, restarts>>
      /\ UNCHANGED <<dialing, dial, socket, outbound, toStop, socketWait>>
  BY TableSets DEF Table!AddPeer, Table!sockets
<1>2. DOMAIN stored = DOMAIN peers /\ \A q \in DOMAIN peers : stored[q].manual = ~peers[q].discovered
  BY <1>1, TablesAgree
<1>3. /\ StoreSound' /\ DOMAIN stored' = DOMAIN stored \cup {p}
      /\ \A q \in DOMAIN stored \ {p} : stored'[q] = stored[q]
      /\ stored'[p].manual = TRUE
      /\ \A q \in Names : StoredFailures(q)' = StoredFailures(q)
  BY <1>1, <1>2, UpsertSound
<1>4. MutationSound'
  <2>1. mutation'.op = "add" /\ mutation'.peer = p
        /\ mutation' \in [op : {Table!Free, "add", "discover", "remove"}, peer : Names \cup {Table!Free}, bootstrap : BOOLEAN]
    BY <1>1
  <2>2. Table!Free # "add" /\ p # Table!Free BY PeerNumbers DEF Table!Free
  <2> QED BY <1>1, <1>2, <1>3, <2>1, <2>2 DEF MutationSound
<1>5. MemorySound' /\ ActiveSound' BY <1>1, MemoryStays, ActiveStays
<1>6. TasksSound' BY <1>1, <1>3, TasksStay
<1>7. SocketsSound' /\ Table!NoStraySocket' BY <1>1, SocketsStay
<1> QED BY <1>3, <1>4, <1>5, <1>6, <1>7

LEMMA DiscoverPeerSound ==
    ASSUME PeersInv, NEW p \in Names, NEW b \in BOOLEAN, Table!DiscoverPeer(p, b)
    PROVE  PeersInv'
<1> USE DEF PeersInv
<1>1. /\ mutation.op = Table!Free /\ Table!Upsert(p, FALSE) /\ p \notin DOMAIN peers
      /\ Cardinality(DOMAIN peers) < MaxPeers /\ Cardinality(Table!Discovered(peers)) < MaxDiscovered
      /\ mutation' = [op |-> "discover", peer |-> p, bootstrap |-> b]
      /\ UNCHANGED <<peers, active, tasks, events, restarts>>
      /\ UNCHANGED <<dialing, dial, socket, outbound, toStop, socketWait>>
  BY TableSets DEF Table!DiscoverPeer, Table!Discoverable, Table!sockets
<1>2. DOMAIN stored = DOMAIN peers /\ StoredDiscovered = Table!Discovered(peers)
      /\ \A q \in DOMAIN peers : stored[q].manual = ~peers[q].discovered
  BY <1>1, TablesAgree
<1>3. /\ StoreSound' /\ DOMAIN stored' = DOMAIN stored \cup {p}
      /\ \A q \in DOMAIN stored \ {p} : stored'[q] = stored[q]
      /\ stored'[p].manual = FALSE
      /\ \A q \in Names : StoredFailures(q)' = StoredFailures(q)
  BY <1>1, <1>2, UpsertSound
<1>4. MutationSound'
  <2>1. mutation'.op = "discover" /\ mutation'.peer = p
        /\ mutation' \in [op : {Table!Free, "add", "discover", "remove"}, peer : Names \cup {Table!Free}, bootstrap : BOOLEAN]
    BY <1>1
  <2>2. Table!Free # "discover" /\ p # Table!Free BY PeerNumbers DEF Table!Free
  <2> QED BY <1>1, <1>2, <1>3, <2>1, <2>2 DEF MutationSound
<1>5. MemorySound' /\ ActiveSound' BY <1>1, MemoryStays, ActiveStays
<1>6. TasksSound' BY <1>1, <1>3, TasksStay
<1>7. SocketsSound' /\ Table!NoStraySocket' BY <1>1, SocketsStay
<1> QED BY <1>3, <1>4, <1>5, <1>6, <1>7

LEMMA RemovePeerSound ==
    ASSUME PeersInv, NEW p \in Names, Table!RemovePeer(p)
    PROVE  PeersInv'
<1> USE DEF PeersInv
<1>1. /\ mutation.op = Table!Free /\ p \in DOMAIN peers
      /\ stored' = [q \in DOMAIN stored \ {p} |-> stored[q]]
      /\ mutation' = [op |-> "remove", peer |-> p, bootstrap |-> FALSE]
      /\ UNCHANGED <<peers, active, tasks, events, restarts>>
      /\ UNCHANGED <<dialing, dial, socket, outbound, toStop, socketWait>>
  BY DEF Table!RemovePeer, Table!Restrict, Table!sockets
<1>2. DOMAIN stored = DOMAIN peers /\ \A q \in DOMAIN peers : stored[q].manual = ~peers[q].discovered
  BY <1>1, TablesAgree
<1>3. DOMAIN stored' = DOMAIN stored \ {p} /\ \A q \in DOMAIN stored' : stored'[q] = stored[q] BY <1>1
<1>4. StoreSound'
  <2>1. IsFiniteSet(DOMAIN stored') /\ Cardinality(DOMAIN stored') <= Cardinality(DOMAIN stored)
        /\ Cardinality(DOMAIN stored') \in Nat /\ Cardinality(DOMAIN stored) \in Nat
    BY <1>3, FS_Subset, FS_CardinalityType DEF StoreSound
  <2>2. StoredDiscovered' \subseteq StoredDiscovered /\ IsFiniteSet(StoredDiscovered)
    BY <1>3, FS_Subset DEF StoredDiscovered, StoreSound
  <2>3. Cardinality(StoredDiscovered') <= MaxDiscovered
    BY <2>2, FS_Subset, FS_CardinalityType, PeerNumbers DEF StoreSound
  <2>4. Cardinality(DOMAIN stored') <= MaxPeers BY <2>1, PeerNumbers DEF StoreSound
  <2>5. stored' = [q \in DOMAIN stored' |-> stored'[q]] BY <1>1
  <2> QED BY <1>3, <2>1, <2>3, <2>4, <2>5 DEF StoreSound
<1>5. MutationSound'
  <2>1. mutation'.op = "remove" /\ mutation'.peer = p
        /\ mutation' \in [op : {Table!Free, "add", "discover", "remove"}, peer : Names \cup {Table!Free}, bootstrap : BOOLEAN]
    BY <1>1
  <2>2. Table!Free # "remove" /\ p # Table!Free BY PeerNumbers DEF Table!Free
  <2> QED BY <1>1, <1>2, <1>3, <2>1, <2>2 DEF MutationSound
<1>6. MemorySound' /\ ActiveSound' BY <1>1, MemoryStays, ActiveStays
<1>7. TasksSound'
  <2>1. \A q \in Names : FailureTasks(q)' = FailureTasks(q) BY <1>1 DEF FailureTasks
  <2>2. \A q \in Names : StoredFailures(q)' = StoredFailures(q) \/ StoredFailures(q)' = 0
    BY <1>3 DEF StoredFailures
  <2>3. \A q \in Names : StoredFailures(q) \in Nat BY DEF StoredFailures, StoreSound, StoredRecord
  <2>4. \A q \in Names : Cardinality(FailureTasks(q)) \in Nat
    BY FS_Subset, FS_CardinalityType DEF TasksSound, FailureTasks
  <2>5. events \in Nat BY PeerNumbers DEF TasksSound
  <2>6. \A q \in Names : StoredFailures(q)' + Cardinality(FailureTasks(q)') <= events'
    <3> TAKE q \in Names
    <3>1. StoredFailures(q) + Cardinality(FailureTasks(q)) <= events BY DEF TasksSound
    <3> QED BY <1>1, <2>1, <2>2, <2>3, <2>4, <2>5, <3>1
  <2> QED BY <1>1, <2>6 DEF TasksSound
<1>8. SocketsSound' /\ Table!NoStraySocket' BY <1>1, SocketsStay
<1> QED BY <1>4, <1>5, <1>6, <1>7, <1>8

LEMMA FailedRecord ==
    ASSUME NEW r \in StoredRecord, NEW w \in BOOLEAN
    PROVE  LET new == [r EXCEPT !.failures = r.failures + 1, !.wait = w]
           IN  new \in StoredRecord /\ new.manual = r.manual /\ new.failures = r.failures + 1
<1>1. PICK n \in Nat : n = r.failures + 1 BY DEF StoredRecord
<1>2. [r EXCEPT !.failures = r.failures + 1, !.wait = w] = [r EXCEPT !.failures = n, !.wait = w] BY <1>1
<1>3. \A new : new = [r EXCEPT !.failures = n, !.wait = w] =>
               new \in StoredRecord /\ new.manual = r.manual /\ new.failures = n
  BY DEF StoredRecord
<1> QED BY <1>1, <1>2, <1>3

\* The tasks that remain, and what SQLite counts of them.
LEMMA PersistSound ==
    ASSUME PeersInv, NEW t \in tasks, Table!Persist(t)
    PROVE  PeersInv'
<1> USE DEF PeersInv
<1> DEFINE seen == [stored EXCEPT ![t.peer] = [stored[t.peer] EXCEPT !.seen = TRUE, !.failures = 0, !.wait = FALSE]]
           failed == [stored EXCEPT ![t.peer] = [stored[t.peer] EXCEPT !.failures = @ + 1, !.wait = peers[t.peer].wait]]
<1>1. /\ tasks' = tasks \ {t} /\ UNCHANGED <<peers, mutation, active, events, restarts>>
      /\ UNCHANGED <<dialing, dial, socket, outbound, toStop, socketWait>>
  BY DEF Table!Persist, Table!sockets
<1>2. \/ stored' = stored
      \/ t.peer \in DOMAIN peers /\ t.peer \in DOMAIN stored /\ stored' = seen
      \/ t.peer \in DOMAIN peers /\ t.peer \in DOMAIN stored /\ t.kind = "failure" /\ stored' = failed
  <2>1. stored' = IF ~Table!Current(t) \/ t.peer \notin DOMAIN stored THEN stored
                  ELSE IF t.kind = "success" THEN seen ELSE failed
    BY Zenon DEF Table!Persist
  <2>2. t.kind = "success" \/ t.kind = "failure" BY DEF TasksSound
  <2>3. Table!Current(t) => t.peer \in DOMAIN peers BY DEF Table!Current
  <2> HIDE DEF seen, failed
  <2> QED BY <2>1, <2>2, <2>3
<1>3. t.peer \in Names /\ t.kind \in {"success", "failure"} BY DEF TasksSound
<1>4. /\ DOMAIN stored' = DOMAIN stored /\ stored' = [q \in DOMAIN stored' |-> stored'[q]]
      /\ \A q \in DOMAIN stored : stored'[q] \in StoredRecord /\ stored'[q].manual = stored[q].manual
      /\ \A q \in DOMAIN stored : \/ stored'[q].failures = stored[q].failures
                                  \/ stored'[q].failures = 0
                                  \/ q = t.peer /\ t.kind = "failure" /\ stored'[q].failures = stored[q].failures + 1
  <2>1. \A q \in DOMAIN stored : stored[q] \in StoredRecord BY DEF StoreSound
  <2>2. CASE stored' = stored
    BY <2>1, <2>2 DEF StoreSound
  <2>3. CASE t.peer \in DOMAIN stored /\ stored' = seen
    BY <2>1, <2>3 DEF StoreSound, StoredRecord
  <2>4. CASE t.peer \in DOMAIN peers /\ t.peer \in DOMAIN stored /\ t.kind = "failure" /\ stored' = failed
    <3>1. PICK w \in BOOLEAN : w = peers[t.peer].wait BY <2>4 DEF MemorySound, PeerRecord
    <3>2. PICK r \in StoredRecord : r = stored[t.peer] BY <2>1, <2>4
    <3> DEFINE new == [r EXCEPT !.failures = r.failures + 1, !.wait = w]
    <3>3. new \in StoredRecord /\ new.manual = r.manual /\ new.failures = r.failures + 1
      BY <3>1, <3>2, FailedRecord
    <3>4. stored' = [stored EXCEPT ![t.peer] = new] BY <2>4, <3>1, <3>2
    <3> HIDE DEF new
    <3>6. stored'[t.peer] = new /\ DOMAIN stored' = DOMAIN stored
          /\ \A q \in DOMAIN stored \ {t.peer} : stored'[q] = stored[q]
      BY <2>4, <3>4
    <3>5. stored' = [q \in DOMAIN stored' |-> stored'[q]] BY <2>4 DEF StoreSound
    <3> QED BY <2>1, <2>4, <3>2, <3>3, <3>5, <3>6
  <2> QED BY <1>2, <2>2, <2>3, <2>4
<1> HIDE DEF seen, failed
<1>5. StoreSound'
  <2>1. StoredDiscovered' = StoredDiscovered BY <1>4 DEF StoredDiscovered
  <2> QED BY <1>4, <2>1 DEF StoreSound
<1>6. TasksSound'
  <2>1. events \in Nat BY PeerNumbers DEF TasksSound
  <2>2. IsFiniteSet(tasks') BY <1>1, FS_Subset DEF TasksSound
  <2>3. ASSUME NEW q \in Names
        PROVE  StoredFailures(q)' + Cardinality(FailureTasks(q)') <= events'
    <3>1. StoredFailures(q) + Cardinality(FailureTasks(q)) <= events BY DEF TasksSound
    <3>2. StoredFailures(q) \in Nat BY DEF StoredFailures, StoreSound, StoredRecord
    <3>3. IsFiniteSet(FailureTasks(q)) BY FS_Subset DEF TasksSound, FailureTasks
    <3>4. Cardinality(FailureTasks(q)) \in Nat BY <3>3, FS_CardinalityType
    <3>5. CASE q = t.peer /\ t.kind = "failure"
      <4>1. FailureTasks(q)' = FailureTasks(q) \ {t} /\ t \in FailureTasks(q)
        BY <1>1, <3>5 DEF FailureTasks
      <4>2. Cardinality(FailureTasks(q)') = Cardinality(FailureTasks(q)) - 1
        BY <4>1, <3>3, FS_RemoveElement
      <4>3. StoredFailures(q)' = StoredFailures(q) \/ StoredFailures(q)' = 0
            \/ StoredFailures(q)' = StoredFailures(q) + 1
        BY <1>4 DEF StoredFailures
      <4> QED BY <1>1, <2>1, <3>1, <3>2, <3>4, <4>2, <4>3
    <3>6. CASE ~(q = t.peer /\ t.kind = "failure")
      <4>1. FailureTasks(q)' = FailureTasks(q) BY <1>1, <3>6 DEF FailureTasks
      <4>2. StoredFailures(q)' = StoredFailures(q) \/ StoredFailures(q)' = 0
        BY <1>4, <3>6 DEF StoredFailures
      <4> QED BY <1>1, <2>1, <3>1, <3>2, <3>4, <4>1, <4>2
    <3> QED BY <3>5, <3>6
  <2> QED BY <1>1, <2>2, <2>3 DEF TasksSound
<1>7. MutationSound'
  <2>1. mutation.op = Table!Free BY DEF Table!Persist
  <2>2. DOMAIN stored = DOMAIN peers BY <2>1, TablesAgree
  <2> QED BY <1>1, <1>4, <2>2 DEF MutationSound
<1>8. MemorySound' /\ ActiveSound' BY <1>1, MemoryStays, ActiveStays
<1>9. SocketsSound' /\ Table!NoStraySocket' BY <1>1, SocketsStay
<1> QED BY <1>5, <1>6, <1>7, <1>8, <1>9

\* Whatever applies a mutation makes the tables agree.
LEMMA ApplyAddSound ==
    ASSUME PeersInv, Table!ApplyAdd
    PROVE  PeersInv'
<1> USE DEF PeersInv
<1>0. PICK p : p = mutation.peer OBVIOUS
<1> DEFINE old == IF p \in DOMAIN peers THEN [peers[p] EXCEPT !.discovered = FALSE, !.bootstrap = FALSE]
                  ELSE Table!NewPeer(FALSE, FALSE, p)
           added == [q \in DOMAIN peers \cup {p} |-> IF q = p THEN old ELSE peers[q]]
<1>1. /\ mutation.op = "add" /\ mutation' = Table!NoMutation
      /\ UNCHANGED <<stored, tasks, events, restarts>>
      /\ UNCHANGED <<dialing, dial, socket, outbound, toStop, socketWait>>
  BY DEF Table!ApplyAdd, Table!sockets
<1>2. \/ Table!CanActivate(added, p) /\ peers' = [added EXCEPT ![p].active = TRUE] /\ active' = active \cup {p}
      \/ peers' = added /\ active' = active
  BY <1>0, Zenon DEF Table!ApplyAdd
<1>3. p \in Names /\ p # Table!Free /\ p \in DOMAIN stored /\ stored[p].manual = TRUE
  <2>1. Table!Free # "add" BY DEF Table!Free
  <2>2. p # Table!Free /\ p \in DOMAIN stored /\ stored[p].manual BY <1>0, <1>1, <2>1 DEF MutationSound
  <2>3. stored[p].manual \in BOOLEAN BY <2>2 DEF StoreSound, StoredRecord
  <2> QED BY <2>2, <2>3 DEF StoreSound
<1>4. /\ DOMAIN stored = DOMAIN peers \cup {p}
      /\ \A q \in DOMAIN peers \ {p} : stored[q].manual = ~peers[q].discovered
  BY <1>0, <1>3 DEF MutationSound
<1>5. /\ old \in PeerRecord /\ old.discovered = FALSE /\ old.failures <= events /\ old.generation <= events
      /\ old.active <=> p \in active
  <2>1. events \in Nat BY PeerNumbers DEF TasksSound
  <2>2. CASE p \in DOMAIN peers
    <3>1. old = [peers[p] EXCEPT !.discovered = FALSE, !.bootstrap = FALSE] BY <2>2
    <3>2. peers[p] \in PeerRecord /\ peers[p].failures <= events /\ peers[p].generation <= events
      BY <2>2 DEF MemorySound
    <3>3. p \in active <=> peers[p].active BY <2>2 DEF ActiveSound
    <3>4. PICK r \in PeerRecord : r = peers[p] BY <3>2
    <3>5. old = [r EXCEPT !.discovered = FALSE, !.bootstrap = FALSE] BY <3>1, <3>4
    <3>6. old \in PeerRecord /\ old.discovered = FALSE /\ old.failures = r.failures
          /\ old.generation = r.generation /\ old.active = r.active
      BY <3>5 DEF PeerRecord
    <3> QED BY <3>2, <3>3, <3>4, <3>6
  <2>3. CASE p \notin DOMAIN peers
    <3>1. old = Table!NewPeer(FALSE, FALSE, p) BY <2>3
    <3>2. p \notin active BY <2>3 DEF ActiveSound
    <3> HIDE DEF old
    <3>3. PICK r : r = Table!NewPeer(FALSE, FALSE, p) OBVIOUS
    <3>4. r \in PeerRecord /\ r.discovered = FALSE /\ r.failures = 0 /\ r.generation = 0 /\ r.active = FALSE
      BY <3>3, NewPeers
    <3>5. old = r BY <3>1, <3>3
    <3> QED BY <2>1, <3>2, <3>4, <3>5
  <2> QED BY <2>2, <2>3
<1> HIDE DEF old
<1>6. /\ DOMAIN peers' = DOMAIN stored /\ peers' = [q \in DOMAIN peers' |-> peers'[q]]
      /\ \A q \in DOMAIN peers \ {p} : peers'[q] = peers[q]
      /\ peers'[p] \in PeerRecord /\ peers'[p].discovered = FALSE
      /\ peers'[p].failures <= events /\ peers'[p].generation <= events
      /\ active' = IF peers'[p].active THEN active \cup {p} ELSE active \ {p}
      /\ p \in active \/ active' = active \/ Cardinality(active) < MaxOutbound
  <2>1. CASE peers' = added /\ active' = active
    BY <2>1, <1>4, <1>5
  <2>2. CASE Table!CanActivate(added, p) /\ peers' = [added EXCEPT ![p].active = TRUE] /\ active' = active \cup {p}
    <3>1. peers'[p] = [old EXCEPT !.active = TRUE] /\ DOMAIN peers' = DOMAIN peers \cup {p}
          /\ \A q \in DOMAIN peers \ {p} : peers'[q] = peers[q]
      BY <2>2
    <3>2. Cardinality(active) < MaxOutbound BY <2>2, TableSets DEF Table!CanActivate
    <3>3. peers'[p] \in PeerRecord /\ peers'[p].discovered = FALSE /\ peers'[p].active = TRUE
          /\ peers'[p].failures = old.failures /\ peers'[p].generation = old.generation
      BY <3>1, <1>5 DEF PeerRecord
    <3>4. peers' = [q \in DOMAIN peers' |-> peers'[q]] BY <2>2
    <3> QED BY <2>2, <1>4, <1>5, <3>1, <3>2, <3>3, <3>4
  <2> QED BY <1>2, <2>1, <2>2
<1>7. MemorySound'
  <2>1. Table!Discovered(peers)' \subseteq StoredDiscovered /\ IsFiniteSet(StoredDiscovered)
    <3>1. \A q \in DOMAIN peers \ {p} : peers[q].discovered \in BOOLEAN BY DEF MemorySound, PeerRecord
    <3>2. Table!Discovered(peers)' \subseteq StoredDiscovered
      BY <1>4, <1>6, <3>1 DEF Table!Discovered, StoredDiscovered
    <3> QED BY <3>2, FS_Subset DEF StoreSound, StoredDiscovered
  <2>2. Cardinality(Table!Discovered(peers)') <= MaxDiscovered
    BY <2>1, FS_Subset, FS_CardinalityType, PeerNumbers DEF StoreSound
  <2>3. \A q \in DOMAIN peers' : /\ peers'[q] \in PeerRecord
                                 /\ peers'[q].failures <= events' /\ peers'[q].generation <= events'
    BY <1>1, <1>4, <1>6 DEF MemorySound
  <2> QED BY <1>6, <2>2, <2>3 DEF MemorySound, StoreSound
<1>8. StoreSound' /\ TasksSound'
  <2>1. StoreSound' BY <1>1 DEF StoreSound, StoredDiscovered
  <2>2. \A q \in Names : StoredFailures(q)' = StoredFailures(q) BY <1>1 DEF StoredFailures
  <2> QED BY <1>1, <2>1, <2>2, TasksStay
<1>9. MutationSound'
  <2>1. mutation'.op = Table!Free /\ mutation'.peer = Table!Free
        /\ mutation' \in [op : {Table!Free, "add", "discover", "remove"}, peer : Names \cup {Table!Free}, bootstrap : BOOLEAN]
    BY <1>1 DEF Table!NoMutation
  <2>2. \A q \in DOMAIN peers' : stored'[q].manual = ~peers'[q].discovered BY <1>1, <1>3, <1>4, <1>6
  <2> QED BY <1>1, <1>6, <2>1, <2>2 DEF MutationSound, Table!Free
<1>10. ActiveSound'
  <2>1. active' = {q \in DOMAIN peers' : peers'[q].active}
    <3>1. \A q \in DOMAIN peers \ {p} : q \in active <=> peers'[q].active BY <1>6 DEF ActiveSound
    <3>2. active \subseteq DOMAIN peers BY DEF ActiveSound
    <3> QED BY <1>4, <1>6, <3>1, <3>2
  <2>2. IsFiniteSet(active) /\ Cardinality(active) \in Nat /\ Cardinality(active) <= MaxOutbound
    BY FS_Subset, FS_CardinalityType DEF ActiveSound, MemorySound
  <2>3. Cardinality(active') <= MaxOutbound
    <3>1. active' = active \/ active' = active \ {p} \/ (p \notin active /\ active' = active \cup {p} /\ Cardinality(active) < MaxOutbound)
      BY <1>6
    <3>2. active' = active \ {p} => Cardinality(active') <= Cardinality(active) /\ Cardinality(active') \in Nat
      BY <2>2, FS_Subset, FS_CardinalityType
    <3>3. p \notin active /\ active' = active \cup {p} => Cardinality(active') = Cardinality(active) + 1
      BY <2>2, FS_AddElement
    <3> QED BY <2>2, <3>1, <3>2, <3>3, PeerNumbers
  <2> QED BY <2>1, <2>3 DEF ActiveSound
<1>11. SocketsSound' /\ Table!NoStraySocket'
  <2>1. active \subseteq active' BY <1>2
  <2> QED BY <1>1, <2>1, SocketsStay
<1> QED BY <1>7, <1>8, <1>9, <1>10, <1>11

LEMMA ApplyDiscoverSound ==
    ASSUME PeersInv, Table!ApplyDiscover
    PROVE  PeersInv'
<1> USE DEF PeersInv
<1>0. PICK p, b : p = mutation.peer /\ b = mutation.bootstrap OBVIOUS
<1>1. /\ mutation.op = "discover" /\ mutation' = Table!NoMutation
      /\ peers' = [q \in DOMAIN peers \cup {p} |-> IF q = p THEN Table!NewPeer(TRUE, b, p) ELSE peers[q]]
      /\ UNCHANGED <<stored, active, tasks, events, restarts>>
      /\ UNCHANGED <<dialing, dial, socket, outbound, toStop, socketWait>>
  BY <1>0 DEF Table!ApplyDiscover, Table!sockets
<1>2. /\ p \in Names /\ p \in DOMAIN stored /\ p \notin DOMAIN peers /\ stored[p].manual = FALSE
      /\ b \in BOOLEAN
      /\ DOMAIN stored = DOMAIN peers \cup {p}
      /\ \A q \in DOMAIN peers : stored[q].manual = ~peers[q].discovered
  <2>1. p \in DOMAIN stored \ DOMAIN peers /\ ~stored[p].manual /\ b \in BOOLEAN
    BY <1>0, <1>1 DEF MutationSound
  <2>2. DOMAIN stored \ {p} = DOMAIN peers \ {p} BY <1>0 DEF MutationSound
  <2>3. \A q \in DOMAIN peers \ {p} : stored[q].manual = ~peers[q].discovered BY <1>0 DEF MutationSound
  <2>4. stored[p].manual \in BOOLEAN /\ p \in Names BY <2>1 DEF StoreSound, StoredRecord
  <2> QED BY <2>1, <2>2, <2>3, <2>4
<1>3. /\ DOMAIN peers' = DOMAIN stored /\ peers' = [q \in DOMAIN peers' |-> peers'[q]]
      /\ \A q \in DOMAIN peers : peers'[q] = peers[q]
      /\ peers'[p] \in PeerRecord /\ peers'[p].discovered = TRUE /\ peers'[p].active = FALSE
      /\ peers'[p].failures = 0 /\ peers'[p].generation = 0
  <2>1. PICK n \in PeerRecord : /\ n = Table!NewPeer(TRUE, b, p) /\ n.discovered = TRUE /\ n.active = FALSE
                                /\ n.failures = 0 /\ n.generation = 0
    BY <1>2, NewPeers
  <2>2. peers' = [q \in DOMAIN peers \cup {p} |-> IF q = p THEN n ELSE peers[q]] BY <1>1, <2>1
  <2> QED BY <1>2, <2>1, <2>2
<1>4. \A q \in DOMAIN peers' : stored[q].manual = ~peers'[q].discovered BY <1>2, <1>3
<1>5. MemorySound'
  <2>1. \A q \in DOMAIN peers' : peers'[q] \in PeerRecord BY <1>2, <1>3 DEF MemorySound
  <2>2. Table!Discovered(peers)' = StoredDiscovered
    <3>1. \A q \in DOMAIN peers' : peers'[q].discovered \in BOOLEAN BY <2>1 DEF PeerRecord
    <3> QED BY <1>3, <1>4, <3>1 DEF Table!Discovered, StoredDiscovered
  <2>3. events \in Nat BY PeerNumbers DEF TasksSound
  <2>4. \A q \in DOMAIN peers' : peers'[q].failures <= events' /\ peers'[q].generation <= events'
    <3>1. \A q \in DOMAIN peers : peers[q].failures <= events /\ peers[q].generation <= events
      BY DEF MemorySound
    <3>2. peers'[p].failures <= events /\ peers'[p].generation <= events BY <1>3, <2>3
    <3> QED BY <1>1, <1>2, <1>3, <3>1, <3>2
  <2> QED BY <1>3, <2>1, <2>2, <2>4 DEF MemorySound, StoreSound
<1>6. StoreSound' /\ TasksSound'
  <2>1. StoreSound' BY <1>1 DEF StoreSound, StoredDiscovered
  <2>2. \A q \in Names : StoredFailures(q)' = StoredFailures(q) BY <1>1 DEF StoredFailures
  <2> QED BY <1>1, <2>1, <2>2, TasksStay
<1>7. MutationSound'
  <2>1. mutation'.op = Table!Free /\ mutation'.peer = Table!Free
        /\ mutation' \in [op : {Table!Free, "add", "discover", "remove"}, peer : Names \cup {Table!Free}, bootstrap : BOOLEAN]
    BY <1>1 DEF Table!NoMutation
  <2> QED BY <1>1, <1>3, <1>4, <2>1 DEF MutationSound, Table!Free
<1>8. ActiveSound'
  <2>1. p \notin active BY <1>2 DEF ActiveSound
  <2> QED BY <1>1, <1>2, <1>3, <2>1 DEF ActiveSound
<1>9. SocketsSound' /\ Table!NoStraySocket' BY <1>1, SocketsStay
<1> QED BY <1>5, <1>6, <1>7, <1>8, <1>9

\* Whoever takes away the activity of a peer takes its socket along to be stopped.
LEMMA DeactivatedSockets ==
    ASSUME SocketsSound, Table!NoStraySocket, NEW p, active' = active \ {p},
           toStop' = toStop \cup Table!SocketsOf(p), UNCHANGED <<dialing, dial, socket, outbound, socketWait>>
    PROVE  SocketsSound' /\ Table!NoStraySocket'
<1>1. /\ toStop' \subseteq Dials /\ toStop \subseteq toStop'
      /\ p \in DOMAIN outbound => outbound[p] \in toStop'
  BY DEF SocketsSound, Table!SocketsOf
<1>2. SocketsSound' BY <1>1 DEF SocketsSound
<1>3. ASSUME NEW d \in Dials, socket[d] = "run"
      PROVE  /\ \E q \in DOMAIN outbound : outbound[q] = d
             /\ (\A q \in DOMAIN outbound : outbound[q] = d => q \in active') \/ d \in toStop'
  <2>1. /\ \E q \in DOMAIN outbound : outbound[q] = d
        /\ (\A q \in DOMAIN outbound : outbound[q] = d => q \in active) \/ d \in toStop
    BY <1>3 DEF Table!NoStraySocket
  <2> QED BY <1>1, <2>1
<1>4. Table!NoStraySocket' BY <1>3 DEF Table!NoStraySocket
<1> QED BY <1>2, <1>4

LEMMA ActiveShrinks ==
    ASSUME MemorySound, ActiveSound, NEW p, active' = active \ {p}
    PROVE  Cardinality(active') <= MaxOutbound
<1>1. IsFiniteSet(active) /\ active' \subseteq active BY FS_Subset DEF ActiveSound, MemorySound
<1> QED BY <1>1, FS_Subset, FS_CardinalityType, PeerNumbers DEF ActiveSound

LEMMA ApplyRemoveSound ==
    ASSUME PeersInv, Table!ApplyRemove
    PROVE  PeersInv'
<1> USE DEF PeersInv
<1>0. PICK p : p = mutation.peer OBVIOUS
<1>1. /\ mutation.op = "remove" /\ mutation' = Table!NoMutation
      /\ peers' = [q \in DOMAIN peers \ {p} |-> peers[q]]
      /\ active' = active \ {p} /\ toStop' = toStop \cup Table!SocketsOf(p)
      /\ UNCHANGED <<stored, tasks, events, restarts, dialing, dial, socket, outbound, socketWait>>
  BY <1>0 DEF Table!ApplyRemove, Table!Restrict
<1>2. /\ p \in DOMAIN peers /\ DOMAIN stored = DOMAIN peers \ {p}
      /\ \A q \in DOMAIN stored : stored[q].manual = ~peers[q].discovered
  <2>1. p \in DOMAIN peers \ DOMAIN stored BY <1>0, <1>1 DEF MutationSound
  <2>2. DOMAIN stored \ {p} = DOMAIN peers \ {p} BY <1>0 DEF MutationSound
  <2>3. \A q \in DOMAIN peers \ {p} : stored[q].manual = ~peers[q].discovered BY <1>0 DEF MutationSound
  <2> QED BY <2>1, <2>2, <2>3
<1>3. DOMAIN peers' = DOMAIN stored /\ \A q \in DOMAIN peers' : q \in DOMAIN peers /\ peers'[q] = peers[q]
  BY <1>1, <1>2
<1>4. MemorySound'
  <2>1. \A q \in DOMAIN peers' : /\ peers'[q] \in PeerRecord
                                 /\ peers'[q].failures <= events' /\ peers'[q].generation <= events'
    BY <1>1, <1>3 DEF MemorySound
  <2>2. Table!Discovered(peers)' = StoredDiscovered
    <3>1. \A q \in DOMAIN peers' : peers'[q].discovered \in BOOLEAN BY <2>1 DEF PeerRecord
    <3> QED BY <1>2, <1>3, <3>1 DEF Table!Discovered, StoredDiscovered
  <2>3. peers' = [q \in DOMAIN peers' |-> peers'[q]] BY <1>1
  <2> QED BY <1>3, <2>1, <2>2, <2>3 DEF MemorySound, StoreSound
<1>5. StoreSound' /\ TasksSound'
  <2>1. StoreSound' BY <1>1 DEF StoreSound, StoredDiscovered
  <2>2. \A q \in Names : StoredFailures(q)' = StoredFailures(q) BY <1>1 DEF StoredFailures
  <2> QED BY <1>1, <2>1, <2>2, TasksStay
<1>6. MutationSound'
  <2>1. mutation'.op = Table!Free /\ mutation'.peer = Table!Free
        /\ mutation' \in [op : {Table!Free, "add", "discover", "remove"}, peer : Names \cup {Table!Free}, bootstrap : BOOLEAN]
    BY <1>1 DEF Table!NoMutation
  <2> QED BY <1>1, <1>2, <1>3, <2>1 DEF MutationSound, Table!Free
<1>7. ActiveSound'
  <2>1. active' = {q \in DOMAIN peers' : peers'[q].active} BY <1>1, <1>2, <1>3 DEF ActiveSound
  <2> QED BY <1>1, <2>1, ActiveShrinks DEF ActiveSound
<1>8. SocketsSound' /\ Table!NoStraySocket' BY <1>1, DeactivatedSockets
<1> QED BY <1>4, <1>5, <1>6, <1>7, <1>8

\* What happens to peers that stay.
PeersStay ==
    /\ DOMAIN peers' = DOMAIN peers /\ peers' = [q \in DOMAIN peers' |-> peers'[q]]
    /\ \A q \in DOMAIN peers : /\ peers'[q] \in PeerRecord /\ peers'[q].discovered = peers[q].discovered
                               /\ peers'[q].failures <= events' /\ peers'[q].generation <= events'

LEMMA PeersMove ==
    ASSUME MemorySound, StoreSound, MutationSound, PeersStay, mutation' = mutation, DOMAIN stored' = DOMAIN stored,
           \A q \in DOMAIN stored : stored'[q].manual = stored[q].manual
    PROVE  MemorySound' /\ MutationSound'
<1> USE DEF PeersStay
<1>1. MemorySound'
  <2>1. Table!Discovered(peers)' = Table!Discovered(peers) BY DEF Table!Discovered
  <2> QED BY <2>1 DEF MemorySound
<1>2. MutationSound'
  <2>1. mutation.op = "add" \/ mutation.op = "discover" => mutation.peer \in DOMAIN stored BY DEF MutationSound
  <2>2. \A q \in DOMAIN peers \ {mutation.peer} : q \in DOMAIN stored BY DEF MutationSound
  <2> QED BY <2>1, <2>2 DEF MutationSound
<1> QED BY <1>1, <1>2

LEMMA StoreStays ==
    ASSUME StoreSound, UNCHANGED stored
    PROVE  /\ StoreSound' /\ DOMAIN stored' = DOMAIN stored
           /\ \A q \in DOMAIN stored : stored'[q].manual = stored[q].manual
           /\ \A q \in Names : StoredFailures(q)' = StoredFailures(q)
BY DEF StoreSound, StoredDiscovered, StoredFailures

LEMMA DiscoverKnownSound ==
    ASSUME PeersInv, NEW p \in Names, NEW b \in BOOLEAN, Table!DiscoverKnown(p, b)
    PROVE  PeersInv'
<1> USE DEF PeersInv
<1>1. /\ p \in DOMAIN peers
      /\ peers' = [peers EXCEPT ![p].bootstrap = @ \/ (peers[p].discovered /\ b)]
      /\ UNCHANGED <<stored, mutation, active, tasks, events, restarts>>
      /\ UNCHANGED <<dialing, dial, socket, outbound, toStop, socketWait>>
  BY DEF Table!DiscoverKnown, Table!sockets
<1>2. /\ DOMAIN peers' = DOMAIN peers /\ peers' = [q \in DOMAIN peers' |-> peers'[q]]
      /\ \A q \in DOMAIN peers : /\ peers'[q] \in PeerRecord /\ peers'[q].discovered = peers[q].discovered
                                 /\ peers'[q].failures = peers[q].failures
                                 /\ peers'[q].generation = peers[q].generation
                                 /\ peers'[q].active = peers[q].active
  <2>1. \A q \in DOMAIN peers : peers[q] \in PeerRecord BY DEF MemorySound
  <2>2. peers[p].discovered \in BOOLEAN /\ peers[p].bootstrap \in BOOLEAN BY <1>1, <2>1 DEF PeerRecord
  <2>3. PICK c \in BOOLEAN : c = (peers[p].bootstrap \/ (peers[p].discovered /\ b)) BY <2>2
  <2>4. peers = [q \in DOMAIN peers |-> peers[q]] BY DEF MemorySound
  <2>5. peers' = [peers EXCEPT ![p] = [peers[p] EXCEPT !.bootstrap = c]]
    BY <1>1, <2>3, <2>4
  <2>6. DOMAIN peers' = DOMAIN peers /\ peers' = [q \in DOMAIN peers' |-> peers'[q]]
    BY <2>4, <2>5
  <2>7. peers'[p] = [peers[p] EXCEPT !.bootstrap = c] /\ \A q \in DOMAIN peers \ {p} : peers'[q] = peers[q]
    BY <1>1, <2>4, <2>5
  <2>8. /\ peers'[p] \in PeerRecord /\ peers'[p].discovered = peers[p].discovered
        /\ peers'[p].failures = peers[p].failures /\ peers'[p].generation = peers[p].generation
        /\ peers'[p].active = peers[p].active
    BY <1>1, <2>1, <2>3, <2>7 DEF PeerRecord
  <2> QED BY <2>1, <2>6, <2>7, <2>8
<1>3. PeersStay BY <1>1, <1>2 DEF PeersStay, MemorySound
<1>4. StoreSound' /\ TasksSound' /\ MemorySound' /\ MutationSound'
  BY <1>1, <1>3, StoreStays, PeersMove, TasksStay
<1>5. ActiveSound' BY <1>1, <1>2 DEF ActiveSound
<1>6. SocketsSound' /\ Table!NoStraySocket' BY <1>1, SocketsStay
<1> QED BY <1>4, <1>5, <1>6

LEMMA SelectActiveSound ==
    ASSUME PeersInv, Table!SelectActivePeers
    PROVE  PeersInv'
<1> USE DEF PeersInv
<1> DEFINE candidates == {p \in DOMAIN peers : ~peers[p].active /\ ~peers[p].wait}
           places == MaxOutbound - Cardinality(active)
<1>1. /\ UNCHANGED <<stored, mutation, tasks, events, restarts>>
      /\ UNCHANGED <<dialing, dial, socket, outbound, toStop, socketWait>>
  BY DEF Table!SelectActivePeers, Table!sockets
<1>2. PICK chosen \in SUBSET candidates :
         /\ Cardinality(chosen) = IF places < Cardinality(candidates) THEN places ELSE Cardinality(candidates)
         /\ peers' = [p \in DOMAIN peers |-> [peers[p] EXCEPT !.active = @ \/ p \in chosen]]
         /\ active' = active \cup chosen
  BY TableSets DEF Table!SelectActivePeers
<1>3. /\ DOMAIN peers' = DOMAIN peers /\ peers' = [q \in DOMAIN peers' |-> peers'[q]]
      /\ \A q \in DOMAIN peers : /\ peers'[q] \in PeerRecord /\ peers'[q].discovered = peers[q].discovered
                                 /\ peers'[q].failures = peers[q].failures
                                 /\ peers'[q].generation = peers[q].generation
                                 /\ peers'[q].active <=> (peers[q].active \/ q \in chosen)
  <2>1. DOMAIN peers' = DOMAIN peers /\ peers' = [q \in DOMAIN peers' |-> peers'[q]] BY <1>2
  <2>2. ASSUME NEW q \in DOMAIN peers
        PROVE  /\ peers'[q] \in PeerRecord /\ peers'[q].discovered = peers[q].discovered
               /\ peers'[q].failures = peers[q].failures
               /\ peers'[q].generation = peers[q].generation
               /\ peers'[q].active <=> (peers[q].active \/ q \in chosen)
    <3>1. PICK r \in PeerRecord : r = peers[q] BY DEF MemorySound
    <3>2. peers'[q] = [r EXCEPT !.active = @ \/ q \in chosen] BY <1>2, <3>1
    <3> QED BY <3>1, <3>2 DEF PeerRecord
  <2> QED BY <2>1, <2>2
<1>4. PeersStay BY <1>1, <1>3 DEF PeersStay, MemorySound
<1>5. StoreSound' /\ TasksSound' /\ MemorySound' /\ MutationSound'
  BY <1>1, <1>4, StoreStays, PeersMove, TasksStay
<1>6. ActiveSound'
  <2>1. active' = {q \in DOMAIN peers' : peers'[q].active} BY <1>2, <1>3 DEF ActiveSound
  <2>2. /\ IsFiniteSet(active) /\ Cardinality(active) \in Nat /\ Cardinality(active) <= MaxOutbound
        /\ IsFiniteSet(chosen) /\ Cardinality(chosen) \in Nat
        /\ IsFiniteSet(candidates) /\ Cardinality(candidates) \in Nat
    BY FS_Subset, FS_CardinalityType DEF ActiveSound, MemorySound
  <2>3. active \cap chosen = {} BY DEF ActiveSound
  <2>4. Cardinality(active \cup chosen) = Cardinality(active) + Cardinality(chosen) - Cardinality(active \cap chosen)
    BY <2>2, FS_Union
  <2>5. Cardinality(active \cup chosen) = Cardinality(active) + Cardinality(chosen)
    BY <2>2, <2>3, <2>4, FS_EmptySet
  <2>6. Cardinality(chosen) <= places
    <3> HIDE DEF candidates
    <3> QED BY <1>2, <2>2, PeerNumbers
  <2> QED BY <1>2, <2>1, <2>2, <2>5, <2>6, PeerNumbers DEF ActiveSound
<1>7. SocketsSound' /\ Table!NoStraySocket'
  <2>1. active \subseteq active' BY <1>2
  <2> QED BY <1>1, <2>1, SocketsStay
<1> QED BY <1>5, <1>6, <1>7

LEMMA BeginSyncSound ==
    ASSUME PeersInv, NEW p \in Names, Table!BeginSync(p)
    PROVE  PeersInv'
<1> USE DEF PeersInv
<1>1. /\ p \in DOMAIN peers /\ ~peers[p].active /\ Cardinality(active) < MaxOutbound
      /\ peers' = [peers EXCEPT ![p].active = TRUE] /\ active' = active \cup {p}
      /\ UNCHANGED <<stored, mutation, tasks, events, restarts>>
      /\ UNCHANGED <<dialing, dial, socket, outbound, toStop, socketWait>>
  BY TableSets DEF Table!BeginSync, Table!CanActivate, Table!sockets
<1>2. /\ DOMAIN peers' = DOMAIN peers /\ peers' = [q \in DOMAIN peers' |-> peers'[q]]
      /\ \A q \in DOMAIN peers : /\ peers'[q] \in PeerRecord /\ peers'[q].discovered = peers[q].discovered
                                 /\ peers'[q].failures = peers[q].failures
                                 /\ peers'[q].generation = peers[q].generation
                                 /\ peers'[q].active <=> (peers[q].active \/ q = p)
  <2>1. PICK r \in PeerRecord : r = peers[p] BY <1>1 DEF MemorySound
  <2> DEFINE new == [r EXCEPT !.active = TRUE]
  <2>2. new \in PeerRecord /\ new.discovered = r.discovered /\ new.failures = r.failures
        /\ new.generation = r.generation /\ new.active = TRUE
    BY <2>1 DEF PeerRecord
  <2>3. peers' = [peers EXCEPT ![p] = new] BY <1>1, <2>1
  <2> HIDE DEF new
  <2>4. peers'[p] = new /\ DOMAIN peers' = DOMAIN peers /\ \A q \in DOMAIN peers \ {p} : peers'[q] = peers[q]
    BY <1>1, <2>3
  <2>5. peers' = [q \in DOMAIN peers' |-> peers'[q]] BY <2>3 DEF MemorySound
  <2>6. \A q \in DOMAIN peers \ {p} : peers[q] \in PeerRecord BY DEF MemorySound
  <2> QED BY <1>1, <2>1, <2>2, <2>4, <2>5, <2>6
<1>3. PeersStay
  <2>1. \A q \in DOMAIN peers : peers[q].failures <= events' /\ peers[q].generation <= events'
    BY <1>1 DEF MemorySound
  <2> QED BY <1>2, <2>1 DEF PeersStay
<1>4. StoreSound' /\ TasksSound' /\ MemorySound' /\ MutationSound'
  BY <1>1, <1>3, StoreStays, PeersMove, TasksStay
<1>5. ActiveSound'
  <2>1. active' = {q \in DOMAIN peers' : peers'[q].active} BY <1>1, <1>2 DEF ActiveSound
  <2>2. IsFiniteSet(active) /\ p \notin active /\ Cardinality(active) \in Nat
    BY <1>1, FS_Subset, FS_CardinalityType DEF ActiveSound, MemorySound
  <2>3. Cardinality(active') = Cardinality(active) + 1 BY <1>1, <2>2, FS_AddElement
  <2> QED BY <1>1, <2>1, <2>2, <2>3, PeerNumbers DEF ActiveSound
<1>6. SocketsSound' /\ Table!NoStraySocket'
  <2>1. active \subseteq active' BY <1>1
  <2> QED BY <1>1, <2>1, SocketsStay
<1> QED BY <1>4, <1>5, <1>6

\* One event adds at most one task.
LEMMA TasksAdded ==
    ASSUME TasksSound, StoreSound, events < MaxEvents, events' = events + 1, restarts' = restarts, UNCHANGED stored,
           NEW t \in [peer : Names, kind : {"success", "failure"}, generation : 0..MaxEvents],
           tasks' = tasks \/ tasks' = tasks \cup {t}
    PROVE  TasksSound'
<1>1. events \in Nat /\ events' \in 0..MaxEvents BY PeerNumbers DEF TasksSound
<1>2. IsFiniteSet(tasks') BY FS_AddElement DEF TasksSound
<1>3. ASSUME NEW q \in Names
      PROVE  StoredFailures(q)' + Cardinality(FailureTasks(q)') <= events'
  <2>1. StoredFailures(q)' = StoredFailures(q) BY DEF StoredFailures
  <2>2. StoredFailures(q) \in Nat BY DEF StoredFailures, StoreSound, StoredRecord
  <2>3. IsFiniteSet(FailureTasks(q)) /\ Cardinality(FailureTasks(q)) \in Nat
    BY FS_Subset, FS_CardinalityType DEF TasksSound, FailureTasks
  <2>4. FailureTasks(q)' = FailureTasks(q) \/ (t \notin FailureTasks(q) /\ FailureTasks(q)' = FailureTasks(q) \cup {t})
    BY DEF FailureTasks
  <2>5. t \notin FailureTasks(q) => Cardinality(FailureTasks(q) \cup {t}) = Cardinality(FailureTasks(q)) + 1
    BY <2>3, FS_AddElement
  <2>6. StoredFailures(q) + Cardinality(FailureTasks(q)) <= events BY DEF TasksSound
  <2> QED BY <1>1, <2>1, <2>2, <2>3, <2>4, <2>5, <2>6
<1>4. tasks' \subseteq [peer : Names, kind : {"success", "failure"}, generation : 0..MaxEvents]
  BY DEF TasksSound
<1>5. restarts' \in 0..MaxRestarts BY DEF TasksSound
<1> QED BY <1>1, <1>2, <1>3, <1>4, <1>5 DEF TasksSound

\* A peer answered, or did not.
LEMMA MarkedPeer ==
    ASSUME MemorySound, events \in Nat, events' = events + 1, NEW p \in DOMAIN peers, NEW r \in PeerRecord, peers[p] = r,
           NEW new \in PeerRecord, new.discovered = r.discovered, new.failures <= r.failures + 1,
           new.generation <= r.generation + 1, peers' = [peers EXCEPT ![p] = new]
    PROVE  /\ PeersStay /\ peers'[p] = new /\ DOMAIN peers' = DOMAIN peers
           /\ \A q \in DOMAIN peers \ {p} : peers'[q] = peers[q]
<1>1. peers'[p] = new /\ DOMAIN peers' = DOMAIN peers /\ \A q \in DOMAIN peers \ {p} : peers'[q] = peers[q]
  OBVIOUS
<1>2. peers' = [q \in DOMAIN peers' |-> peers'[q]] BY DEF MemorySound
<1>3. \A q \in DOMAIN peers : /\ peers[q] \in PeerRecord
                              /\ peers[q].failures <= events /\ peers[q].generation <= events
  BY DEF MemorySound
<1>4. r.failures \in Nat /\ r.generation \in Nat /\ new.failures \in Nat /\ new.generation \in Nat
  BY DEF PeerRecord
<1>5. new.failures <= events' /\ new.generation <= events' BY <1>3, <1>4
<1>6. \A q \in DOMAIN peers : peers[q].failures <= events' /\ peers[q].generation <= events'
  BY <1>3 DEF PeerRecord
<1> QED BY <1>1, <1>2, <1>3, <1>5, <1>6 DEF PeersStay

LEMMA MarkSuccessSound ==
    ASSUME PeersInv, NEW p \in Names, NEW b \in BOOLEAN, Table!MarkPeerSuccess(p, b)
    PROVE  PeersInv'
<1> USE DEF PeersInv
<1>1. PICK r \in PeerRecord, g \in Nat : r = peers[p] /\ g = r.generation + 1 /\ r.generation <= events
  <2>1. p \in DOMAIN peers BY DEF Table!MarkPeerSuccess
  <2>2. peers[p] \in PeerRecord /\ peers[p].generation <= events BY <2>1 DEF MemorySound
  <2>3. peers[p].generation + 1 \in Nat BY <2>2 DEF PeerRecord
  <2> QED BY <2>2, <2>3
<1> DEFINE new == [r EXCEPT !.online = TRUE, !.failures = 0, !.seen = TRUE, !.wait = FALSE, !.generation = g]
           t == [peer |-> p, kind |-> "success", generation |-> g]
<1>2. /\ p \in DOMAIN peers /\ events < MaxEvents /\ events' = events + 1
      /\ peers' = [peers EXCEPT ![p] = new] /\ (tasks' = tasks \/ tasks' = tasks \cup {t})
      /\ UNCHANGED <<stored, mutation, active, restarts>>
      /\ UNCHANGED <<dialing, dial, socket, outbound, toStop, socketWait>>
  BY <1>1 DEF Table!MarkPeerSuccess, Table!sockets
<1>3. new \in PeerRecord /\ new.discovered = r.discovered /\ new.failures = 0 /\ new.generation = g
      /\ new.active = r.active
  BY <1>1 DEF PeerRecord
<1>4. r.failures \in Nat /\ r.generation \in Nat /\ events \in Nat /\ g \in 0..MaxEvents
  BY <1>1, <1>2, PeerNumbers DEF PeerRecord, TasksSound
<1> HIDE DEF new
<1>5. /\ PeersStay /\ peers'[p] = new /\ DOMAIN peers' = DOMAIN peers
      /\ \A q \in DOMAIN peers \ {p} : peers'[q] = peers[q]
  <2>1. new.failures <= r.failures + 1 /\ new.generation <= r.generation + 1 BY <1>1, <1>3, <1>4
  <2> QED BY <1>1, <1>2, <1>3, <1>4, <2>1, MarkedPeer
<1>6. StoreSound' /\ MemorySound' /\ MutationSound' BY <1>2, <1>5, StoreStays, PeersMove
<1>7. TasksSound' BY <1>2, <1>4, TasksAdded
<1>8. ActiveSound' BY <1>1, <1>2, <1>3, <1>5 DEF ActiveSound
<1>9. SocketsSound' /\ Table!NoStraySocket' BY <1>2, SocketsStay
<1> QED BY <1>6, <1>7, <1>8, <1>9

LEMMA MarkFailureSound ==
    ASSUME PeersInv, NEW p \in Names, Table!MarkPeerFailure(p)
    PROVE  PeersInv'
<1> USE DEF PeersInv
<1>1. PICK r \in PeerRecord, g \in Nat, f \in Nat :
         r = peers[p] /\ g = r.generation + 1 /\ f = r.failures + 1 /\ r.generation <= events
  <2>1. p \in DOMAIN peers BY DEF Table!MarkPeerFailure
  <2>2. peers[p] \in PeerRecord /\ peers[p].generation <= events BY <2>1 DEF MemorySound
  <2>3. peers[p].generation + 1 \in Nat /\ peers[p].failures + 1 \in Nat BY <2>2 DEF PeerRecord
  <2> QED BY <2>2, <2>3
<1> DEFINE new == [r EXCEPT !.online = FALSE, !.failures = f, !.wait = TRUE, !.active = FALSE, !.generation = g]
           t == [peer |-> p, kind |-> "failure", generation |-> g]
<1>2. /\ p \in DOMAIN peers /\ events < MaxEvents /\ events' = events + 1
      /\ peers' = [peers EXCEPT ![p] = [peers[p] EXCEPT !.online = FALSE, !.failures = @ + 1, !.wait = TRUE,
                                                        !.active = FALSE, !.generation = peers[p].generation + 1]]
      /\ tasks' = tasks \cup {[peer |-> p, kind |-> "failure", generation |-> peers[p].generation + 1]}
      /\ active' = active \ {p} /\ toStop' = toStop \cup Table!SocketsOf(p)
      /\ UNCHANGED <<stored, mutation, restarts, dialing, dial, socket, outbound, socketWait>>
  BY DEF Table!MarkPeerFailure
<1>3. peers' = [peers EXCEPT ![p] = new] /\ tasks' = tasks \cup {t} BY <1>1, <1>2
<1>4. new \in PeerRecord /\ new.discovered = r.discovered /\ new.failures = f /\ new.generation = g
      /\ new.active = FALSE
  BY <1>1 DEF PeerRecord
<1>5. r.failures \in Nat /\ r.generation \in Nat /\ events \in Nat /\ g \in 0..MaxEvents
  BY <1>1, <1>2, PeerNumbers DEF PeerRecord, TasksSound
<1> HIDE DEF new
<1>6. /\ PeersStay /\ peers'[p] = new /\ DOMAIN peers' = DOMAIN peers
      /\ \A q \in DOMAIN peers \ {p} : peers'[q] = peers[q]
  <2>1. new.failures <= r.failures + 1 /\ new.generation <= r.generation + 1 BY <1>1, <1>4, <1>5
  <2> QED BY <1>1, <1>2, <1>3, <1>4, <1>5, <2>1, MarkedPeer
<1>7. StoreSound' /\ MemorySound' /\ MutationSound' BY <1>2, <1>6, StoreStays, PeersMove
<1>8. TasksSound' BY <1>2, <1>3, <1>5, TasksAdded
<1>9. ActiveSound'
  <2>1. active' = {q \in DOMAIN peers' : peers'[q].active} BY <1>2, <1>4, <1>6 DEF ActiveSound
  <2> QED BY <1>2, <2>1, ActiveShrinks DEF ActiveSound
<1>10. SocketsSound' /\ Table!NoStraySocket' BY <1>2, DeactivatedSockets
<1> QED BY <1>7, <1>8, <1>9, <1>10

LEMMA BackoffOverSound ==
    ASSUME PeersInv, NEW p \in Names, Table!BackoffOver(p)
    PROVE  PeersInv'
<1> USE DEF PeersInv
<1>1. /\ p \in DOMAIN peers /\ peers' = [peers EXCEPT ![p].wait = FALSE]
      /\ stored' = [q \in DOMAIN stored |-> IF q = p THEN [stored[q] EXCEPT !.wait = FALSE] ELSE stored[q]]
      /\ UNCHANGED <<mutation, active, tasks, events, restarts>>
      /\ UNCHANGED <<dialing, dial, socket, outbound, toStop, socketWait>>
  BY DEF Table!BackoffOver, Table!sockets
<1>2. /\ DOMAIN peers' = DOMAIN peers /\ peers' = [q \in DOMAIN peers' |-> peers'[q]]
      /\ \A q \in DOMAIN peers : /\ peers'[q] \in PeerRecord /\ peers'[q].discovered = peers[q].discovered
                                 /\ peers'[q].failures = peers[q].failures
                                 /\ peers'[q].generation = peers[q].generation
                                 /\ peers'[q].active = peers[q].active
  <2>1. \A q \in DOMAIN peers : peers[q] \in PeerRecord BY DEF MemorySound
  <2>2. peers = [q \in DOMAIN peers |-> peers[q]] BY DEF MemorySound
  <2>3. DOMAIN peers' = DOMAIN peers /\ peers' = [q \in DOMAIN peers' |-> peers'[q]] BY <1>1, <2>2
  <2>4. peers'[p] = [peers[p] EXCEPT !.wait = FALSE] /\ \A q \in DOMAIN peers \ {p} : peers'[q] = peers[q]
    BY <1>1, <2>2
  <2>5. /\ peers'[p] \in PeerRecord /\ peers'[p].discovered = peers[p].discovered
        /\ peers'[p].failures = peers[p].failures /\ peers'[p].generation = peers[p].generation
        /\ peers'[p].active = peers[p].active
    BY <1>1, <2>1, <2>4 DEF PeerRecord
  <2> QED BY <2>1, <2>3, <2>4, <2>5
<1>3. /\ DOMAIN stored' = DOMAIN stored /\ stored' = [q \in DOMAIN stored' |-> stored'[q]]
      /\ \A q \in DOMAIN stored : /\ stored'[q] \in StoredRecord /\ stored'[q].manual = stored[q].manual
                                  /\ stored'[q].failures = stored[q].failures
  <2>1. \A q \in DOMAIN stored : stored[q] \in StoredRecord BY DEF StoreSound
  <2> QED BY <1>1, <2>1 DEF StoredRecord
<1>4. PeersStay
  <2>1. \A q \in DOMAIN peers : peers[q].failures <= events' /\ peers[q].generation <= events'
    BY <1>1 DEF MemorySound
  <2> QED BY <1>2, <2>1 DEF PeersStay
<1>5. MemorySound' /\ MutationSound' BY <1>1, <1>3, <1>4, PeersMove
<1>6. StoreSound'
  <2>1. StoredDiscovered' = StoredDiscovered BY <1>3 DEF StoredDiscovered
  <2> QED BY <1>3, <2>1 DEF StoreSound
<1>7. TasksSound'
  <2>1. \A q \in Names : StoredFailures(q)' = StoredFailures(q) BY <1>3 DEF StoredFailures
  <2> QED BY <1>1, <2>1, TasksStay
<1>8. ActiveSound' BY <1>1, <1>2 DEF ActiveSound
<1>9. SocketsSound' /\ Table!NoStraySocket' BY <1>1, SocketsStay
<1> QED BY <1>5, <1>6, <1>7, <1>8, <1>9

\* The tables rest while sockets are dialled, registered, stopped and lost.
LEMMA TablesStay ==
    ASSUME PeersInv, UNCHANGED <<peers, stored, mutation, active, tasks, events, restarts>>
    PROVE  MemorySound' /\ StoreSound' /\ TasksSound' /\ MutationSound' /\ ActiveSound'
<1> USE DEF PeersInv
<1>1. StoreSound' /\ TasksSound' BY StoreStays, TasksStay
<1>2. MutationSound' BY DEF MutationSound
<1> QED BY <1>1, <1>2, MemoryStays, ActiveStays

LEMMA DialSound ==
    ASSUME PeersInv, NEW d \in Dials, NEW p \in Names, Table!EnsurePeerSocket(d, p)
    PROVE  PeersInv'
<1> USE DEF PeersInv
<1>1. /\ socket[d] = "none" /\ dialing' = dialing \cup {p}
      /\ dial' = [dial EXCEPT ![d] = [pc |-> "dial", peer |-> p]]
      /\ UNCHANGED <<peers, stored, mutation, active, tasks, events, restarts>>
      /\ UNCHANGED <<socket, outbound, toStop, socketWait>>
  BY DEF Table!EnsurePeerSocket, Table!table
<1>2. IsFiniteSet(dialing') BY <1>1, FS_AddElement DEF SocketsSound
<1>3. SocketsSound' BY <1>1, <1>2 DEF SocketsSound
<1>4. Table!NoStraySocket' BY <1>1 DEF Table!NoStraySocket
<1> QED BY <1>1, <1>3, <1>4, TablesStay

LEMMA DialFailsSound ==
    ASSUME PeersInv, NEW d \in Dials, Table!DialFails(d)
    PROVE  PeersInv'
<1> USE DEF PeersInv
<1>1. /\ dial' = [dial EXCEPT ![d].pc = "end"]
      /\ socketWait' = socketWait \cup ({dial[d].peer} \cap DOMAIN peers)
      /\ UNCHANGED <<peers, stored, mutation, active, tasks, events, restarts>>
      /\ UNCHANGED <<dialing, socket, outbound, toStop>>
  BY DEF Table!DialFails, Table!table
<1>2. socketWait' \subseteq Names BY <1>1 DEF SocketsSound, MemorySound
<1>3. SocketsSound' BY <1>1, <1>2 DEF SocketsSound
<1>4. Table!NoStraySocket' BY <1>1 DEF Table!NoStraySocket
<1> QED BY <1>1, <1>3, <1>4, TablesStay

LEMMA RegisterSound ==
    ASSUME PeersInv, NEW d \in Dials, Table!Register(d)
    PROVE  PeersInv'
<1> USE DEF PeersInv
<1>0. PICK p : p = dial[d].peer OBVIOUS
<1>1. /\ dial[d].pc = "dial" /\ dial' = [dial EXCEPT ![d].pc = "end"]
      /\ UNCHANGED <<peers, stored, mutation, active, tasks, toStop, events, restarts>>
  BY DEF Table!Register, Table!table
<1>2. socket[d] = "none" /\ \A q \in DOMAIN outbound : outbound[q] # d BY <1>1 DEF SocketsSound
<1>3. dial' \in [Dials -> [pc : {"idle", "dial", "end"}, peer : Names \cup {Table!Free}]]
      /\ dial'[d].pc = "end" /\ \A e \in Dials \ {d} : dial'[e] = dial[e]
  BY <1>1 DEF SocketsSound
<1>4. CASE Table!Registers(p)
  <2>1. /\ outbound' = [q \in DOMAIN outbound \cup {p} |-> IF q = p THEN d ELSE outbound[q]]
        /\ socket' = [socket EXCEPT ![d] = "run"]
        /\ dialing' = dialing \ {p} /\ socketWait' = socketWait \ {p}
    BY <1>0, <1>4 DEF Table!Register
  <2>2. /\ p \in DOMAIN peers /\ p \in active /\ p \notin DOMAIN outbound
        /\ Cardinality(DOMAIN outbound) + Cardinality(dialing \ {p}) < MaxOutbound
    BY <1>4, TableSets DEF Table!Registers
  <2>3. /\ IsFiniteSet(dialing') /\ IsFiniteSet(DOMAIN outbound')
        /\ Cardinality(DOMAIN outbound') <= MaxOutbound
    <3>1. IsFiniteSet(dialing \ {p}) /\ Cardinality(dialing \ {p}) \in Nat /\ Cardinality(DOMAIN outbound) \in Nat
      BY FS_Subset, FS_CardinalityType DEF SocketsSound
    <3>2. DOMAIN outbound' = DOMAIN outbound \cup {p} BY <2>1
    <3>3. IsFiniteSet(DOMAIN outbound') /\ Cardinality(DOMAIN outbound') = Cardinality(DOMAIN outbound) + 1
      BY <2>2, <3>2, FS_AddElement DEF SocketsSound
    <3> QED BY <2>1, <2>2, <3>1, <3>3, PeerNumbers
  <2>4. /\ DOMAIN outbound' = DOMAIN outbound \cup {p} /\ outbound'[p] = d
        /\ \A q \in DOMAIN outbound : outbound'[q] = outbound[q] /\ outbound[q] # d
        /\ outbound' \in [DOMAIN outbound' -> Dials]
    BY <1>2, <2>1, <2>2 DEF SocketsSound
  <2>5. /\ socket' \in [Dials -> {"none", "run", "stopped"}] /\ socket'[d] = "run"
        /\ \A e \in Dials \ {d} : socket'[e] = socket[e]
    BY <2>1 DEF SocketsSound
  <2>6. SocketsSound'
    <3>1. \A q \in DOMAIN outbound' : socket'[outbound'[q]] # "none" BY <2>4, <2>5 DEF SocketsSound
    <3>2. \A e \in Dials : dial'[e].pc = "dial" => socket'[e] = "none" BY <1>3, <2>5 DEF SocketsSound
    <3>3. p \in Names BY <2>2 DEF MemorySound
    <3>4. dialing' \subseteq Names /\ socketWait' \subseteq Names /\ DOMAIN outbound' \subseteq Names
      BY <2>1, <2>4, <3>3 DEF SocketsSound
    <3> QED BY <1>1, <1>3, <2>3, <2>4, <2>5, <3>1, <3>2, <3>4 DEF SocketsSound
  <2>7. Table!NoStraySocket'
    <3>1. ASSUME NEW e \in Dials, socket'[e] = "run"
          PROVE  /\ \E q \in DOMAIN outbound' : outbound'[q] = e
                 /\ (\A q \in DOMAIN outbound' : outbound'[q] = e => q \in active') \/ e \in toStop'
      <4>1. CASE e = d BY <4>1, <1>1, <2>2, <2>4
      <4>2. CASE e # d
        <5>1. socket[e] = "run" BY <4>2, <3>1, <2>5
        <5>2. /\ \E q \in DOMAIN outbound : outbound[q] = e
              /\ (\A q \in DOMAIN outbound : outbound[q] = e => q \in active) \/ e \in toStop
          BY <5>1 DEF Table!NoStraySocket
        <5> QED BY <1>1, <4>2, <5>2, <2>4
      <4> QED BY <4>1, <4>2
    <3> QED BY <3>1 DEF Table!NoStraySocket
  <2> QED BY <1>1, <2>6, <2>7, TablesStay
<1>5. CASE ~Table!Registers(p)
  <2>1. UNCHANGED <<outbound, socket, socketWait>> /\ dialing' \subseteq dialing
    BY <1>0, <1>5 DEF Table!Register
  <2>2. IsFiniteSet(dialing') BY <2>1, FS_Subset DEF SocketsSound
  <2>3. SocketsSound' BY <1>1, <1>3, <2>1, <2>2 DEF SocketsSound
  <2>4. Table!NoStraySocket' BY <1>1, <2>1 DEF Table!NoStraySocket
  <2> QED BY <1>1, <2>3, <2>4, TablesStay
<1> QED BY <1>4, <1>5

LEMMA DialEndsSound ==
    ASSUME PeersInv, NEW d \in Dials, Table!DialEnds(d)
    PROVE  PeersInv'
<1> USE DEF PeersInv
<1>1. /\ dialing' = dialing \ {dial[d].peer}
      /\ dial' = [dial EXCEPT ![d] = [pc |-> "idle",
                                      peer |-> IF socket[d] = "none" THEN Table!Free ELSE dial[d].peer]]
      /\ UNCHANGED <<peers, stored, mutation, active, tasks, events, restarts>>
      /\ UNCHANGED <<socket, outbound, toStop, socketWait>>
  BY DEF Table!DialEnds, Table!table
<1>2. dial' \in [Dials -> [pc : {"idle", "dial", "end"}, peer : Names \cup {Table!Free}]]
      /\ dial'[d].pc = "idle" /\ \A e \in Dials \ {d} : dial'[e] = dial[e]
  <2>1. dial[d].peer \in Names \cup {Table!Free} BY DEF SocketsSound
  <2> QED BY <1>1, <2>1 DEF SocketsSound
<1>3. IsFiniteSet(dialing') BY <1>1, FS_Subset DEF SocketsSound
<1>4. SocketsSound' BY <1>1, <1>2, <1>3 DEF SocketsSound
<1>5. Table!NoStraySocket' BY <1>1 DEF Table!NoStraySocket
<1> QED BY <1>1, <1>4, <1>5, TablesStay

LEMMA StopSocketSound ==
    ASSUME PeersInv, NEW d \in Dials, Table!StopSocket(d)
    PROVE  PeersInv'
<1> USE DEF PeersInv
<1>1. /\ toStop' = toStop \ {d} /\ socket' = [socket EXCEPT ![d] = IF @ = "run" THEN "stopped" ELSE @]
      /\ UNCHANGED <<peers, stored, mutation, active, tasks, events, restarts>>
      /\ UNCHANGED <<dialing, dial, outbound, socketWait>>
  BY DEF Table!StopSocket, Table!table
<1>2. /\ socket' \in [Dials -> {"none", "run", "stopped"}] /\ socket'[d] # "run"
      /\ socket'[d] = "none" <=> socket[d] = "none"
      /\ \A e \in Dials \ {d} : socket'[e] = socket[e]
  BY <1>1 DEF SocketsSound
<1>3. SocketsSound'
  <2>1. \A e \in Dials : socket'[e] = "none" <=> socket[e] = "none" BY <1>2
  <2>2. \A q \in DOMAIN outbound : outbound[q] \in Dials BY DEF SocketsSound
  <2> QED BY <1>1, <1>2, <2>1, <2>2 DEF SocketsSound
<1>4. Table!NoStraySocket' BY <1>1, <1>2 DEF Table!NoStraySocket
<1> QED BY <1>1, <1>3, <1>4, TablesStay

LEMMA SocketEndsSound ==
    ASSUME PeersInv, NEW d \in Dials, Table!SocketEnds(d)
    PROVE  PeersInv'
<1> USE DEF PeersInv
<1>1. /\ socket' = [socket EXCEPT ![d] = "none"]
      /\ outbound' = [q \in {q \in DOMAIN outbound : outbound[q] # d} |-> outbound[q]]
      /\ dial' = [dial EXCEPT ![d] = IF dial[d].pc = "idle" THEN Table!NoDial ELSE dial[d]]
      /\ socketWait' = socketWait \/ socketWait' = socketWait \cup ({dial[d].peer} \cap DOMAIN peers)
      /\ UNCHANGED <<peers, stored, mutation, active, tasks, events, restarts>>
      /\ UNCHANGED <<dialing, toStop>>
  BY DEF Table!SocketEnds, Table!Restrict, Table!table
<1>2. /\ socket' \in [Dials -> {"none", "run", "stopped"}] /\ socket'[d] = "none"
      /\ \A e \in Dials \ {d} : socket'[e] = socket[e]
  BY <1>1 DEF SocketsSound
<1>3. dial' \in [Dials -> [pc : {"idle", "dial", "end"}, peer : Names \cup {Table!Free}]]
      /\ \A e \in Dials \ {d} : dial'[e] = dial[e]
  BY <1>1 DEF SocketsSound, Table!NoDial
<1>4. /\ DOMAIN outbound' \subseteq DOMAIN outbound /\ outbound' \in [DOMAIN outbound' -> Dials]
      /\ \A q \in DOMAIN outbound' : outbound'[q] = outbound[q] /\ outbound[q] # d
      /\ \A q \in DOMAIN outbound : outbound[q] # d => q \in DOMAIN outbound'
  BY <1>1 DEF SocketsSound
<1>5. IsFiniteSet(DOMAIN outbound') /\ Cardinality(DOMAIN outbound') <= MaxOutbound
  BY <1>4, FS_Subset, FS_CardinalityType, PeerNumbers DEF SocketsSound
<1>6. SocketsSound'
  <2>1. \A q \in DOMAIN outbound' : socket'[outbound'[q]] # "none" BY <1>2, <1>4 DEF SocketsSound
  <2>2. \A e \in Dials : dial'[e].pc = "dial" => socket'[e] = "none" BY <1>2, <1>3 DEF SocketsSound
  <2>3. socketWait' \subseteq Names /\ DOMAIN outbound' \subseteq Names
    BY <1>1, <1>4 DEF SocketsSound, MemorySound
  <2> QED BY <1>1, <1>2, <1>3, <1>4, <1>5, <2>1, <2>2, <2>3 DEF SocketsSound
<1>7. Table!NoStraySocket'
  <2>1. ASSUME NEW e \in Dials, socket'[e] = "run"
        PROVE  /\ \E q \in DOMAIN outbound' : outbound'[q] = e
               /\ (\A q \in DOMAIN outbound' : outbound'[q] = e => q \in active') \/ e \in toStop'
    <3>1. e # d /\ socket[e] = "run" BY <2>1, <1>2
    <3>2. /\ \E q \in DOMAIN outbound : outbound[q] = e
          /\ (\A q \in DOMAIN outbound : outbound[q] = e => q \in active) \/ e \in toStop
      BY <3>1 DEF Table!NoStraySocket
    <3> QED BY <1>1, <1>4, <3>1, <3>2
  <2> QED BY <2>1 DEF Table!NoStraySocket
<1> QED BY <1>1, <1>6, <1>7, TablesStay

LEMMA WaitOverSound ==
    ASSUME PeersInv, NEW p \in Names, Table!SocketWaitOver(p)
    PROVE  PeersInv'
<1> USE DEF PeersInv
<1>1. /\ socketWait' = socketWait \ {p}
      /\ UNCHANGED <<peers, stored, mutation, active, tasks, events, restarts>>
      /\ UNCHANGED <<dialing, dial, socket, outbound, toStop>>
  BY DEF Table!SocketWaitOver, Table!table
<1>2. SocketsSound' BY <1>1 DEF SocketsSound
<1>3. Table!NoStraySocket' BY <1>1 DEF Table!NoStraySocket
<1> QED BY <1>1, <1>2, <1>3, TablesStay

LEMMA PeersInvHolds == NetworkSpec => [](part = "peers" => PeersInv)
<1>1. NetworkInit => (part = "peers" => PeersInv)
  BY PeersInit DEF NetworkInit
<1>2. (part = "peers" => PeersInv) /\ [NetworkNext]_networkVars => (part = "peers" => PeersInv)'
  <2> SUFFICES ASSUME part = "peers" => PeersInv, [NetworkNext]_networkVars, part' = "peers"
               PROVE  PeersInv'
    OBVIOUS
  <2>1. CASE UNCHANGED networkVars
    <3>1. PeersInv /\ UNCHANGED peerVars BY <2>1 DEF networkVars
    <3>2. MemorySound' /\ StoreSound' /\ TasksSound' /\ MutationSound' /\ ActiveSound'
      BY <3>1, TablesStay DEF peerVars
    <3>3. SocketsSound' /\ Table!NoStraySocket' BY <3>1, SocketsStay DEF peerVars, PeersInv
    <3> QED BY <3>2, <3>3 DEF PeersInv
  <2>2. CASE NetworkNext
    <3>1. PeersInv /\ Table!Next BY <2>2 DEF NetworkNext, Moves
    <3>2. CASE Table!Crash \/ Table!ApplyAdd \/ Table!ApplyDiscover \/ Table!ApplyRemove \/ Table!SelectActivePeers
      BY <3>1, <3>2, CrashSound, ApplyAddSound, ApplyDiscoverSound, ApplyRemoveSound, SelectActiveSound
    <3>3. ASSUME NEW p \in Names,
                 \/ Table!AddPeer(p) \/ Table!RemovePeer(p) \/ Table!BeginSync(p) \/ Table!MarkPeerFailure(p)
                 \/ Table!BackoffOver(p) \/ Table!SocketWaitOver(p)
          PROVE  PeersInv'
      BY <3>1, <3>3, AddPeerSound, RemovePeerSound, BeginSyncSound, MarkFailureSound, BackoffOverSound, WaitOverSound
    <3>4. ASSUME NEW p \in Names, NEW b \in BOOLEAN,
                 Table!DiscoverKnown(p, b) \/ Table!DiscoverPeer(p, b) \/ Table!MarkPeerSuccess(p, b)
          PROVE  PeersInv'
      BY <3>1, <3>4, DiscoverKnownSound, DiscoverPeerSound, MarkSuccessSound
    <3>5. ASSUME NEW p \in Names, NEW d \in Dials, Table!EnsurePeerSocket(d, p) PROVE PeersInv'
      BY <3>1, <3>5, DialSound
    <3>6. ASSUME NEW t \in tasks, Table!Persist(t) PROVE PeersInv'
      BY <3>1, <3>6, PersistSound
    <3>7. ASSUME NEW d \in Dials,
                 \/ Table!DialFails(d) \/ Table!Register(d) \/ Table!DialEnds(d) \/ Table!StopSocket(d)
                 \/ Table!SocketEnds(d)
          PROVE  PeersInv'
      BY <3>1, <3>7, DialFailsSound, RegisterSound, DialEndsSound, StopSocketSound, SocketEndsSound
    <3> QED BY <3>1, <3>2, <3>3, <3>4, <3>5, <3>6, <3>7 DEF Table!Next
  <2> QED BY <2>1, <2>2
<1> QED BY <1>1, <1>2, PTL DEF NetworkSpec

\* Memory, SQLite and the sockets agree on the peers, within all limits, whatever a crash
\* between the two writes, a failure, a removal or the end of an older dial does
\* (peers.go:41, websocket.go:203).
THEOREM PeersAlwaysCounted == NetworkSpec => []PeersAreCounted
<1>1. (part = "peers" => PeersInv) => PeersAreCounted
  BY PeersPromise DEF PeersAreCounted
<1> QED BY <1>1, PeersInvHolds, PTL

-----------------------------------------------------------------------------
(* The rounds over a connection of two honest nodes.  The wires hold what  *)
(* their readers expect: a hello, which only broadcasts overtake, a ping   *)
(* before the pong it answers, the pong before what it permits; and the    *)
(* one request of the round is still unserved, or its answers are in hand  *)
(* and together on the wire, in order, as many as it asked for at most.    *)

\* What is on a wire.  A request for bodies stays within the headers it was made from.
MessageTypes == {"hello", "ping", "pong", "status", "gossip", "transaction", "headers_request",
                 "blocks_request", "mempool_request", "headers", "block", "mempool", "error"}

Messages == [type : MessageTypes, id : 0..(2 * QueueCap + 2), n : 0..MaxHeight, parts : 0..MaxHeight]

Fits(m) == m.type = "blocks_request" => m.n + m.parts <= MaxHeight

Answering == {"headers", "blocks", "mempool"}
Asking == {"headers_request", "blocks_request", "mempool_request"}

RoundFields == [pc : {"off", "start", "chain", "headers", "stage", "blocks", "commit", "again", "pool", "mempool"},
                tip : 0..MaxHeight, target : Rounds!None..MaxHeight, at : 0..MaxHeight, to : 0..MaxHeight,
                chunk : Nat, progress : BOOLEAN, failed : BOOLEAN, id : 0..(2 * QueueCap + 2)]

\* The answer to a ping of "in" is on its way or has arrived.
PongSent(w, e) == e["out"] \/ \E i \in DOMAIN w["out"] : w["out"][i].type = "pong"

\* The order of the messages of a connection: a ping, then the pong that lets a side ask and
\* answer.
PongsFollow(w, h, e) ==
    /\ h["out"] => PongSent(w, e) \/ \E i \in DOMAIN w["in"] : w["in"][i].type = "ping"
    /\ \A i \in DOMAIN w["in"] :
          w["in"][i].type = "pong" => PongSent(w, e) \/ \E j \in 1..(i - 1) : w["in"][j].type = "ping"
    /\ e["in"] => PongSent(w, e)

RequestsFollow(w, e) ==
    /\ \A i \in DOMAIN w["out"] : w["out"][i].type \in Asking =>
          e["in"] /\ (e["out"] \/ \E j \in 1..(i - 1) : w["out"][j].type = "pong")
    /\ \A i \in DOMAIN w["in"] : w["in"][i].type \in Rounds!Responses => e["in"]

InOrder(w, h, e) == PongsFollow(w, h, e) /\ RequestsFollow(w, e)

\* What a side that has not read the hello finds first, once the hello is queued: the one hello,
\* or a broadcast that overtook it.
Greets(w, h, g) ==
    \A s \in Rounds!Sides :
       /\ ~h[s] /\ g[Rounds!Other(s)] => w[s] # <<>>
       /\ ~h[s] /\ w[s] # <<>> => w[s][1].type \in {"hello"} \cup Rounds!Broadcasts
       /\ h[s] => g[s] /\ g[Rounds!Other(s)]
       /\ h[s] \/ ~g[Rounds!Other(s)] => \A i \in DOMAIN w[s] : w[s][i].type # "hello"
       /\ \A i, j \in DOMAIN w[s] : w[s][i].type = "hello" /\ w[s][j].type = "hello" => i = j

\* A side negotiates after its hello, and takes blocks after the other's.
Met(w, h, g, e, r) ==
    /\ Greets(w, h, g)
    /\ e["in"] => g["in"]
    /\ r # Rounds!None => h["in"]

Expected(pc) == CASE pc = "headers" -> "headers" [] pc = "blocks" -> "block" [] OTHER -> "mempool"
Asked(pc) == CASE pc = "headers" -> "headers_request" [] pc = "blocks" -> "blocks_request" [] OTHER -> "mempool_request"

\* m is the answer of rank q to the request of round rd that asked for cap bodies above base.
IsAnswer(m, q, rd, base, cap) ==
    /\ m.id = rd.id /\ m.type \in {Expected(rd.pc), "error"}
    /\ m.type = "block" => m.n = base + q /\ m.parts = cap - q + 1

\* The request is still on the wire.
Unserved(w, rd, got, cap) ==
    /\ got = <<>>
    /\ \A i \in DOMAIN w["in"] : w["in"][i].id # rd.id
    /\ \E i \in DOMAIN w["out"] :
          /\ w["out"][i].id = rd.id /\ w["out"][i].type = Asked(rd.pc)
          /\ rd.pc = "blocks" => w["out"][i].n = rd.at /\ w["out"][i].parts = cap
          /\ \A j \in DOMAIN w["out"] : w["out"][j].id = rd.id => j = i

\* Its answers are, in order, in hand and together on the wire.
Served(w, rd, got, cap, base, a, k) ==
    /\ a + k <= Len(w["in"])
    /\ rd.at - base + Len(got) + k <= cap
    /\ \A j \in 1..Len(got) : IsAnswer(got[j], rd.at - base + j, rd, base, cap)
    /\ \A j \in 1..k : IsAnswer(w["in"][a + j], rd.at - base + Len(got) + j, rd, base, cap)
    /\ \A i \in DOMAIN w["in"] : w["in"][i].id = rd.id => i \in (a + 1)..(a + k)
    /\ \A i \in DOMAIN w["out"] : w["out"][i].id # rd.id

Wires == [Rounds!Sides -> Seq(Messages)]

RequestRecord == [expected : {"headers", "block", "mempool"}, capacity : 1..(MaxHeight + 1), got : Seq(Messages)]

Waits(w, rd, pd) ==
    IF rd.pc \in Answering
    THEN /\ rd.id # 0 /\ DOMAIN pd = {rd.id}
         /\ pd[rd.id].expected = Expected(rd.pc)
         /\ rd.pc # "blocks" => pd[rd.id].capacity = 1
         /\ \E base \in 0..rd.at :
               /\ rd.pc # "blocks" => base = rd.at
               /\ rd.pc = "blocks" => rd.at < base + pd[rd.id].capacity /\ base + pd[rd.id].capacity <= rd.to
               /\ \/ base = rd.at /\ Unserved(w, rd, pd[rd.id].got, pd[rd.id].capacity)
                  \/ \E a, k \in 0..Len(w["in"]) : Served(w, rd, pd[rd.id].got, pd[rd.id].capacity, base, a, k)
    ELSE DOMAIN pd = {}

\* The wires hold what their reader expects, whatever the other fields are.
Bounded(w) == \A s \in Rounds!Sides : Len(w[s]) <= QueueCap /\ \A i \in DOMAIN w[s] : Fits(w[s][i])

Carried(w, h, e, r) ==
    /\ w \in Wires /\ Bounded(w) /\ InOrder(w, h, e)
    /\ r # Rounds!None => w["in"] # <<>> /\ w["in"][1].type = "gossip"

Sound(w, h, e, rd, pd, r) == Carried(w, h, e, r) /\ Waits(w, rd, pd)

Totals ==
    /\ height \in [Rounds!Sides -> 0..MaxHeight]
    /\ score \in [Rounds!Sides -> 0..ScoreLimit] /\ faults \in 0..MaxFaults

ConnectionTyped ==
    /\ greeted \in [Rounds!Sides -> BOOLEAN]
    /\ hello \in [Rounds!Sides -> BOOLEAN] /\ enabled \in [Rounds!Sides -> BOOLEAN]
    /\ open \in BOOLEAN /\ due \in BOOLEAN /\ timer \in BOOLEAN
    /\ remote \in Rounds!None..MaxHeight /\ reading \in Rounds!None..MaxHeight
    /\ round \in RoundFields
    /\ \A i \in DOMAIN pending : pending[i] \in RequestRecord

\* Only a negotiated connection has a round.
RoundSound ==
    /\ round.pc # "off" => enabled["in"]
    /\ round.pc = "stage" => round.at < round.to

\* What an honest node ends a connection for; a round of "in" also ends it when it loses a
\* race or meets an entry that it refuses.
Excuses == {"none", "lost", "mute", "early", "score", "queue"}

Blameless ==
    /\ reason.why \in Excuses \cup {"race", "refused"}
    /\ reason.by = "out" => reason.why \in Excuses

AtRest ==
    /\ wire = [s \in Rounds!Sides |-> <<>>] /\ greeted = [s \in Rounds!Sides |-> FALSE]
    /\ hello = [s \in Rounds!Sides |-> FALSE] /\ enabled = [s \in Rounds!Sides |-> FALSE]
    /\ round = Rounds!NoRound /\ DOMAIN pending = {}
    /\ remote = Rounds!None /\ reading = Rounds!None

Connected ==
    /\ ConnectionTyped /\ Blameless
    /\ open => /\ Sound(wire, hello, enabled, round, pending, reading) /\ RoundSound
               /\ Met(wire, hello, greeted, enabled, reading)
    /\ ~open => AtRest

RoundsInv == Totals /\ Connected

LEMMA RoundNumbers ==
    /\ MaxHeight \in Nat \ {0} /\ QueueCap \in Nat \ {0} /\ Page \in Nat \ {0}
    /\ Batch \in Nat \ {0} /\ MaxChunks \in Nat \ {0}
    /\ BlockScore \in Nat /\ ScoreLimit \in Nat \ {0} /\ MaxFaults \in Nat
BY NetworkAssumption DEF Rounds!ReconcileAssumption

\* A wire with more messages at its end, or without its first one.
More(w, s, q) == [w EXCEPT ![s] = @ \o q]
Less(w, s) == [w EXCEPT ![s] = Tail(@)]

LEMMA MoreIs ==
    ASSUME NEW w \in Wires, NEW s \in Rounds!Sides, NEW q \in Seq(Messages)
    PROVE  /\ More(w, s, q) \in Wires
           /\ \A t \in Rounds!Sides \ {s} : More(w, s, q)[t] = w[t]
           /\ Len(More(w, s, q)[s]) = Len(w[s]) + Len(q)
           /\ DOMAIN More(w, s, q)[s] = 1..(Len(w[s]) + Len(q))
           /\ \A i \in 1..Len(w[s]) : More(w, s, q)[s][i] = w[s][i]
           /\ \A i \in 1..Len(q) : More(w, s, q)[s][Len(w[s]) + i] = q[i]
           /\ \A i \in (Len(w[s]) + 1)..(Len(w[s]) + Len(q)) : More(w, s, q)[s][i] = q[i - Len(w[s])]
<1>1. w[s] \in Seq(Messages) BY DEF Wires
<1>2. More(w, s, q)[s] = w[s] \o q BY DEF Wires, More
<1>3. w[s] \o q \in Seq(Messages) BY <1>1
<1>4. /\ Len(w[s] \o q) = Len(w[s]) + Len(q) /\ DOMAIN (w[s] \o q) = 1..(Len(w[s]) + Len(q))
      /\ \A i \in 1..Len(w[s]) : (w[s] \o q)[i] = w[s][i]
      /\ \A i \in 1..Len(q) : (w[s] \o q)[Len(w[s]) + i] = q[i]
  BY <1>1, <1>3
<1>5. \A i \in (Len(w[s]) + 1)..(Len(w[s]) + Len(q)) : (w[s] \o q)[i] = q[i - Len(w[s])]
  BY <1>1
<1>6. More(w, s, q) \in Wires /\ \A t \in Rounds!Sides \ {s} : More(w, s, q)[t] = w[t]
  BY <1>2, <1>3 DEF Wires, More
<1> QED BY <1>2, <1>4, <1>5, <1>6

LEMMA MoreKeeps ==
    ASSUME NEW w \in Wires, NEW s \in Rounds!Sides, NEW q \in Seq(Messages), NEW t \in Rounds!Sides
    PROVE  /\ Len(w[t]) \in Nat /\ DOMAIN w[t] = 1..Len(w[t])
           /\ Len(More(w, s, q)[t]) \in Nat /\ DOMAIN More(w, s, q)[t] = 1..Len(More(w, s, q)[t])
           /\ Len(w[t]) <= Len(More(w, s, q)[t])
           /\ \A i \in 1..Len(w[t]) : More(w, s, q)[t][i] = w[t][i]
           /\ \A i \in DOMAIN More(w, s, q)[t] : i \notin DOMAIN w[t] =>
                 t = s /\ i \in Nat /\ i > Len(w[t]) /\ \E j \in 1..Len(q) : More(w, s, q)[t][i] = q[j]
<1>1. w[t] \in Seq(Messages) BY DEF Wires
<1>2. Len(w[t]) \in Nat /\ DOMAIN w[t] = 1..Len(w[t]) /\ Len(q) \in Nat BY <1>1
<1>3. CASE t # s
  <2>1. More(w, s, q)[t] = w[t] BY <1>3, MoreIs
  <2> QED BY <2>1, <1>2
<1>4. CASE t = s
  <2>1. Len(More(w, s, q)[s]) = Len(w[s]) + Len(q) /\ DOMAIN More(w, s, q)[s] = 1..(Len(w[s]) + Len(q)) BY MoreIs
  <2>2. \A i \in 1..Len(w[s]) : More(w, s, q)[s][i] = w[s][i] BY MoreIs
  <2>3. ASSUME NEW i \in DOMAIN More(w, s, q)[t], i \notin DOMAIN w[t]
        PROVE  i \in Nat /\ i > Len(w[t]) /\ \E j \in 1..Len(q) : More(w, s, q)[t][i] = q[j]
    <3>1. i \in (Len(w[s]) + 1)..(Len(w[s]) + Len(q)) /\ i - Len(w[s]) \in 1..Len(q)
      BY <2>1, <2>3, <1>2, <1>4
    <3>2. More(w, s, q)[s][i] = q[i - Len(w[s])]
      <4>1. \A j \in (Len(w[s]) + 1)..(Len(w[s]) + Len(q)) : More(w, s, q)[s][j] = q[j - Len(w[s])] BY MoreIs
      <4> QED BY <3>1, <4>1, Zenon
    <3> QED BY <3>1, <3>2, <1>2, <1>4
  <2>4. Len(More(w, s, q)[t]) \in Nat /\ Len(w[t]) <= Len(More(w, s, q)[t]) BY <2>1, <1>2, <1>4
  <2> QED BY <2>1, <2>2, <2>3, <2>4, <1>2, <1>4
<1> QED BY <1>3, <1>4

LEMMA LessIs ==
    ASSUME NEW w \in Wires, NEW s \in Rounds!Sides, w[s] # <<>>
    PROVE  /\ Less(w, s) \in Wires
           /\ \A t \in Rounds!Sides \ {s} : Less(w, s)[t] = w[t]
           /\ Len(w[s]) >= 1 /\ Len(Less(w, s)[s]) = Len(w[s]) - 1
           /\ DOMAIN Less(w, s)[s] = 1..(Len(w[s]) - 1)
           /\ \A i \in 1..(Len(w[s]) - 1) : Less(w, s)[s][i] = w[s][i + 1]
           /\ Head(w[s]) = w[s][1] /\ w[s][1] \in Messages
<1>1. w[s] \in Seq(Messages) BY DEF Wires
<1>2. Less(w, s)[s] = Tail(w[s]) BY DEF Wires, Less
<1>3. Tail(w[s]) \in Seq(Messages) /\ Len(Tail(w[s])) = Len(w[s]) - 1 /\ Len(w[s]) >= 1
  BY <1>1
<1>4. Head(w[s]) = w[s][1] /\ w[s][1] \in Messages BY <1>1, <1>3
<1>5. \A i \in 1..(Len(w[s]) - 1) : Tail(w[s])[i] = w[s][i + 1] BY <1>1, <1>3
<1>6. Less(w, s) \in Wires /\ \A t \in Rounds!Sides \ {s} : Less(w, s)[t] = w[t]
  BY <1>2, <1>3 DEF Wires, Less
<1>7. DOMAIN Tail(w[s]) = 1..(Len(w[s]) - 1) BY <1>3
<1> QED BY <1>2, <1>3, <1>4, <1>5, <1>6, <1>7

LEMMA InOrderMore ==
    ASSUME NEW w \in Wires, NEW s \in Rounds!Sides, NEW q \in Seq(Messages), NEW h, NEW e, InOrder(w, h, e),
           \A i \in 1..Len(q) :
              /\ s = "in" => /\ q[i].type = "pong" => h["out"]
                             /\ q[i].type \in Rounds!Responses => e["in"]
              /\ s = "out" /\ q[i].type \in Asking => e["in"]
    PROVE  InOrder(More(w, s, q), h, e)
<1> DEFINE v == More(w, s, q)
<1>1. "in" \in Rounds!Sides /\ "out" \in Rounds!Sides BY DEF Rounds!Sides
<1>2. \A t \in Rounds!Sides : DOMAIN w[t] = 1..Len(w[t]) /\ Len(w[t]) \in Nat BY MoreKeeps
<1>4. /\ "in" \in Rounds!Sides /\ "out" \in Rounds!Sides
      /\ \A t \in Rounds!Sides : DOMAIN w[t] \subseteq DOMAIN v[t] /\ \A i \in DOMAIN w[t] : v[t][i] = w[t][i]
  <2> SUFFICES ASSUME NEW t \in Rounds!Sides
               PROVE  DOMAIN w[t] \subseteq DOMAIN v[t] /\ \A i \in DOMAIN w[t] : v[t][i] = w[t][i]
    BY <1>1
  <2>1. /\ Len(w[t]) \in Nat /\ DOMAIN w[t] = 1..Len(w[t])
        /\ Len(v[t]) \in Nat /\ DOMAIN v[t] = 1..Len(v[t]) /\ Len(w[t]) <= Len(v[t])
        /\ \A i \in 1..Len(w[t]) : v[t][i] = w[t][i]
    BY MoreKeeps
  <2> QED BY <2>1
<1>5. \A t \in Rounds!Sides : \A i \in DOMAIN v[t] :
         i \in DOMAIN w[t] \/ (t = s /\ i \in Nat /\ i > Len(w[t]) /\ \E j \in 1..Len(q) : v[t][i] = q[j])
  BY MoreKeeps
<1> HIDE DEF v
<1>7. PongSent(w, e) => PongSent(v, e)
  BY <1>4 DEF PongSent
<1>8. PongsFollow(v, h, e)
  <2>1. h["out"] => PongSent(v, e) \/ \E i \in DOMAIN w["in"] : w["in"][i].type = "ping"
    BY <1>7 DEF InOrder, PongsFollow
  <2>2. h["out"] => PongSent(v, e) \/ \E i \in DOMAIN v["in"] : v["in"][i].type = "ping"
    BY <2>1, <1>4
  <2>3. ASSUME NEW i \in DOMAIN v["in"], v["in"][i].type = "pong"
        PROVE  PongSent(v, e) \/ \E j \in 1..(i - 1) : v["in"][j].type = "ping"
    <3>1. CASE i \in DOMAIN w["in"]
      <4>1. w["in"][i].type = "pong" BY <2>3, <3>1, <1>4
      <4>2. PongSent(v, e) \/ \E j \in 1..(i - 1) : w["in"][j].type = "ping"
        BY <4>1, <3>1, <1>7 DEF InOrder, PongsFollow
      <4>3. \A j \in 1..(i - 1) : v["in"][j] = w["in"][j] BY <3>1, <1>2, <1>4
      <4> QED BY <4>2, <4>3
    <3>2. CASE i \notin DOMAIN w["in"]
      <4>1. s = "in" /\ i \in Nat /\ i > Len(w["in"]) /\ \E j \in 1..Len(q) : v["in"][i] = q[j] BY <3>2, <1>4, <1>5
      <4>2. h["out"] BY <4>1, <2>3
      <4>3. PongSent(v, e) \/ \E j \in DOMAIN w["in"] : w["in"][j].type = "ping" BY <4>2, <2>1
      <4>5. \A j \in DOMAIN w["in"] : j \in 1..(i - 1) /\ v["in"][j] = w["in"][j]
        BY <4>1, <1>2, <1>4
      <4> QED BY <4>3, <4>5
    <3> QED BY <3>1, <3>2
  <2>4. e["in"] => PongSent(v, e) BY <1>7 DEF InOrder, PongsFollow
  <2> QED BY <2>2, <2>3, <2>4 DEF PongsFollow
<1>9. RequestsFollow(v, e)
  <2>1. ASSUME NEW i \in DOMAIN v["out"], v["out"][i].type \in Asking
        PROVE  e["in"] /\ (e["out"] \/ \E j \in 1..(i - 1) : v["out"][j].type = "pong")
    <3>1. CASE i \in DOMAIN w["out"]
      <4>1. w["out"][i].type \in Asking BY <2>1, <3>1, <1>4
      <4>2. e["in"] /\ (e["out"] \/ \E j \in 1..(i - 1) : w["out"][j].type = "pong")
        BY <4>1, <3>1 DEF InOrder, RequestsFollow
      <4>3. \A j \in 1..(i - 1) : v["out"][j] = w["out"][j] BY <3>1, <1>2, <1>4
      <4> QED BY <4>2, <4>3
    <3>2. CASE i \notin DOMAIN w["out"]
      <4>1. s = "out" /\ i \in Nat /\ i > Len(w["out"]) /\ \E j \in 1..Len(q) : v["out"][i] = q[j] BY <3>2, <1>4, <1>5
      <4>2. e["in"] BY <4>1, <2>1
      <4>3. e["out"] \/ \E j \in DOMAIN w["out"] : w["out"][j].type = "pong"
        BY <4>2 DEF InOrder, PongsFollow, PongSent
      <4>5. \A j \in DOMAIN w["out"] : j \in 1..(i - 1) /\ v["out"][j] = w["out"][j]
        BY <4>1, <1>2, <1>4
      <4> QED BY <4>2, <4>3, <4>5
    <3> QED BY <3>1, <3>2
  <2>2. ASSUME NEW i \in DOMAIN v["in"], v["in"][i].type \in Rounds!Responses
        PROVE  e["in"]
    <3>1. CASE i \in DOMAIN w["in"]
      BY <3>1, <2>2, <1>4 DEF InOrder, RequestsFollow
    <3>2. CASE i \notin DOMAIN w["in"]
      <4>1. s = "in" /\ \E j \in 1..Len(q) : v["in"][i] = q[j] BY <3>2, <1>4, <1>5
      <4> QED BY <4>1, <2>2
    <3> QED BY <3>1, <3>2
  <2> QED BY <2>1, <2>2 DEF RequestsFollow
<1> QED BY <1>8, <1>9 DEF InOrder, v

LEMMA InOrderLess ==
    ASSUME NEW w \in Wires, NEW s \in Rounds!Sides, w[s] # <<>>,
           NEW h \in [Rounds!Sides -> BOOLEAN], NEW e \in [Rounds!Sides -> BOOLEAN],
           NEW g \in [Rounds!Sides -> BOOLEAN], NEW f \in [Rounds!Sides -> BOOLEAN],
           g = [h EXCEPT ![s] = TRUE], f = e \/ f = [e EXCEPT ![s] = TRUE],
           InOrder(w, h, e),
           w[s][1].type = "pong" => f[s],
           f["in"] => e["in"] \/ (s = "in" /\ w[s][1].type = "pong"),
           s = "in" /\ w[s][1].type = "ping" => PongSent(w, e),
           g["out"] => h["out"] \/ PongSent(w, e) \/ \E i \in DOMAIN w["in"] : w["in"][i].type = "ping"
    PROVE  InOrder(Less(w, s), g, f)
<1> DEFINE v == Less(w, s)
<1>1. /\ v \in Wires /\ \A t \in Rounds!Sides \ {s} : v[t] = w[t]
      /\ Len(w[s]) >= 1 /\ Len(v[s]) = Len(w[s]) - 1 /\ DOMAIN v[s] = 1..(Len(w[s]) - 1)
      /\ \A i \in 1..(Len(w[s]) - 1) : v[s][i] = w[s][i + 1]
  BY LessIs
<1>2. \A t \in Rounds!Sides : w[t] \in Seq(Messages) /\ DOMAIN w[t] = 1..Len(w[t]) /\ Len(w[t]) \in Nat
  BY DEF Wires
<1>3. "in" \in Rounds!Sides /\ "out" \in Rounds!Sides /\ Rounds!Sides = {"in", "out"} BY DEF Rounds!Sides
<1>4. \A i \in DOMAIN w[s] : i = 1 \/ (i - 1 \in DOMAIN v[s] /\ v[s][i - 1] = w[s][i])
  <2> SUFFICES ASSUME NEW i \in DOMAIN w[s], i # 1 PROVE i - 1 \in DOMAIN v[s] /\ v[s][i - 1] = w[s][i]
    OBVIOUS
  <2>1. DOMAIN w[s] = 1..Len(w[s]) /\ Len(w[s]) \in Nat BY <1>2
  <2>2. i - 1 \in 1..(Len(w[s]) - 1) /\ (i - 1) + 1 = i BY <2>1
  <2> QED BY <2>2, <1>1
<1>5. \A i \in DOMAIN v[s] : i \in Nat /\ i + 1 \in DOMAIN w[s] /\ v[s][i] = w[s][i + 1]
  BY <1>1, <1>2
<1> HIDE DEF v
<1>7. PongSent(w, e) => PongSent(v, f)
  <2> SUFFICES ASSUME PongSent(w, e), ~f["out"] PROVE \E i \in DOMAIN v["out"] : v["out"][i].type = "pong"
    BY DEF PongSent
  <2>1. PICK i \in DOMAIN w["out"] : w["out"][i].type = "pong"
    BY <1>3 DEF PongSent
  <2>2. CASE s = "out"
    <3>1. i # 1 BY <2>1, <2>2
    <3> QED BY <3>1, <2>1, <2>2, <1>4
  <2>3. CASE s # "out" BY <2>1, <2>3, <1>1, <1>3
  <2> QED BY <2>2, <2>3
<1>8. PongsFollow(v, g, f)
  <2>1. ASSUME g["out"]
        PROVE  PongSent(v, f) \/ \E i \in DOMAIN v["in"] : v["in"][i].type = "ping"
    <3>1. PongSent(w, e) \/ \E i \in DOMAIN w["in"] : w["in"][i].type = "ping"
      BY <2>1 DEF InOrder, PongsFollow
    <3>2. CASE PongSent(w, e) BY <3>2, <1>7
    <3>3. ASSUME NEW i \in DOMAIN w["in"], w["in"][i].type = "ping", ~PongSent(w, e)
          PROVE  \E j \in DOMAIN v["in"] : v["in"][j].type = "ping"
      <4>1. CASE s = "in"
        <5>1. i # 1 BY <3>3, <4>1
        <5> QED BY <5>1, <3>3, <4>1, <1>4
      <4>2. CASE s # "in" BY <4>2, <3>3, <1>1, <1>3
      <4> QED BY <4>1, <4>2
    <3> QED BY <3>1, <3>2, <3>3
  <2>2. ASSUME NEW i \in DOMAIN v["in"], v["in"][i].type = "pong"
        PROVE  PongSent(v, f) \/ \E j \in 1..(i - 1) : v["in"][j].type = "ping"
    <3>1. CASE s = "in"
      <4>1. i \in Nat /\ i + 1 \in DOMAIN w["in"] /\ w["in"][i + 1].type = "pong" BY <3>1, <2>2, <1>5
      <4>2. PongSent(w, e) \/ \E j \in 1..i : w["in"][j].type = "ping"
        BY <4>1 DEF InOrder, PongsFollow
      <4>3. ASSUME ~PongSent(w, e), NEW j \in 1..i, w["in"][j].type = "ping"
            PROVE  \E k \in 1..(i - 1) : v["in"][k].type = "ping"
        <5>1. j # 1 BY <4>3, <3>1
        <5>2. j - 1 \in 1..(i - 1) /\ j \in DOMAIN w["in"] BY <5>1, <4>1, <4>3, <1>2, <1>3
        <5>3. v["in"][j - 1] = w["in"][j] BY <5>1, <5>2, <3>1, <1>4
        <5> QED BY <5>2, <5>3, <4>3
      <4> QED BY <4>2, <4>3, <1>7
    <3>2. CASE s # "in"
      <4>1. v["in"] = w["in"] BY <3>2, <1>1, <1>3
      <4> QED BY <4>1, <2>2, <1>7 DEF InOrder, PongsFollow
    <3> QED BY <3>1, <3>2
  <2>3. f["in"] => PongSent(v, f)
    <3>1. CASE e["in"] BY <3>1, <1>7 DEF InOrder, PongsFollow
    <3>2. CASE s = "in" /\ w[s][1].type = "pong"
      <4>1. 1 \in DOMAIN w["in"] BY <3>2, <1>1, <1>2
      <4>2. PongSent(w, e) \/ \E j \in 1..0 : w["in"][j].type = "ping"
        BY <4>1, <3>2 DEF InOrder, PongsFollow
      <4> QED BY <4>2, <1>7
    <3> QED BY <3>1, <3>2
  <2> QED BY <2>1, <2>2, <2>3 DEF PongsFollow
<1>9. RequestsFollow(v, f)
  <2>1. e["in"] => f["in"] /\ (e["out"] => f["out"]) BY <1>3
  <2>2. e["out"] => f["out"] BY <1>3
  <2>3. ASSUME NEW i \in DOMAIN v["out"], v["out"][i].type \in Asking
        PROVE  f["in"] /\ (f["out"] \/ \E j \in 1..(i - 1) : v["out"][j].type = "pong")
    <3>1. CASE s = "out"
      <4>1. i \in Nat /\ i + 1 \in DOMAIN w["out"] /\ w["out"][i + 1].type \in Asking BY <3>1, <2>3, <1>5
      <4>2. e["in"] /\ (e["out"] \/ \E j \in 1..i : w["out"][j].type = "pong")
        BY <4>1 DEF InOrder, RequestsFollow
      <4>3. ASSUME ~f["out"], NEW j \in 1..i, w["out"][j].type = "pong"
            PROVE  \E k \in 1..(i - 1) : v["out"][k].type = "pong"
        <5>1. j # 1 BY <4>3, <3>1
        <5>2. j - 1 \in 1..(i - 1) /\ j \in DOMAIN w["out"] BY <5>1, <4>1, <4>3, <1>2, <1>3
        <5>3. v["out"][j - 1] = w["out"][j] BY <5>1, <5>2, <3>1, <1>4
        <5> QED BY <5>2, <5>3, <4>3
      <4> QED BY <4>2, <4>3, <2>1, <2>2
    <3>2. CASE s # "out"
      <4>1. v["out"] = w["out"] BY <3>2, <1>1, <1>3
      <4> QED BY <4>1, <2>1, <2>2, <2>3 DEF InOrder, RequestsFollow
    <3> QED BY <3>1, <3>2
  <2>4. ASSUME NEW i \in DOMAIN v["in"], v["in"][i].type \in Rounds!Responses
        PROVE  f["in"]
    <3>1. e["in"]
      <4>1. CASE s = "in" BY <4>1, <2>4, <1>5 DEF InOrder, RequestsFollow
      <4>2. CASE s # "in" BY <4>2, <2>4, <1>1, <1>3 DEF InOrder, RequestsFollow
      <4> QED BY <4>1, <4>2
    <3> QED BY <3>1, <2>1
  <2> QED BY <2>3, <2>4 DEF RequestsFollow
<1> QED BY <1>8, <1>9 DEF InOrder, v

LEMMA OtherIs ==
    ASSUME NEW s \in Rounds!Sides
    PROVE  /\ Rounds!Other(s) \in Rounds!Sides \ {s} /\ Rounds!Other(Rounds!Other(s)) = s
           /\ \A t \in Rounds!Sides : t = s \/ t = Rounds!Other(s)
BY DEF Rounds!Other, Rounds!Sides

LEMMA GreetsMore ==
    ASSUME NEW w \in Wires, NEW s \in Rounds!Sides, NEW q \in Seq(Messages), NEW h, NEW g, Greets(w, h, g),
           \A i \in 1..Len(q) : /\ q[i].type # "hello"
                                /\ g[Rounds!Other(s)] \/ q[i].type \in Rounds!Broadcasts
    PROVE  Greets(More(w, s, q), h, g)
<1> DEFINE v == More(w, s, q)
<1> SUFFICES ASSUME NEW t \in Rounds!Sides
             PROVE  /\ ~h[t] /\ g[Rounds!Other(t)] => v[t] # <<>>
                    /\ ~h[t] /\ v[t] # <<>> => v[t][1].type \in {"hello"} \cup Rounds!Broadcasts
                    /\ h[t] => g[t] /\ g[Rounds!Other(t)]
                    /\ h[t] \/ ~g[Rounds!Other(t)] => \A i \in DOMAIN v[t] : v[t][i].type # "hello"
                    /\ \A i, j \in DOMAIN v[t] : v[t][i].type = "hello" /\ v[t][j].type = "hello" => i = j
  BY DEF Greets
<1>1. /\ Len(w[t]) \in Nat /\ DOMAIN w[t] = 1..Len(w[t])
      /\ Len(v[t]) \in Nat /\ DOMAIN v[t] = 1..Len(v[t]) /\ Len(w[t]) <= Len(v[t])
      /\ \A i \in 1..Len(w[t]) : v[t][i] = w[t][i]
      /\ \A i \in DOMAIN v[t] : i \notin DOMAIN w[t] => t = s /\ \E j \in 1..Len(q) : v[t][i] = q[j]
  BY MoreKeeps
<1>2. /\ ~h[t] /\ g[Rounds!Other(t)] => w[t] # <<>>
      /\ ~h[t] /\ w[t] # <<>> => w[t][1].type \in {"hello"} \cup Rounds!Broadcasts
      /\ h[t] => g[t] /\ g[Rounds!Other(t)]
      /\ h[t] \/ ~g[Rounds!Other(t)] => \A i \in DOMAIN w[t] : w[t][i].type # "hello"
      /\ \A i, j \in DOMAIN w[t] : w[t][i].type = "hello" /\ w[t][j].type = "hello" => i = j
  BY DEF Greets
<1>3. v[t] \in Seq(Messages) /\ w[t] \in Seq(Messages) BY MoreIs DEF Wires
<1>4. w[t] # <<>> => v[t] # <<>> /\ 1 \in DOMAIN w[t] /\ v[t][1] = w[t][1]
  <2>1. w[t] # <<>> => Len(w[t]) >= 1 BY <1>3
  <2>2. Len(<<>>) = 0 OBVIOUS
  <2> QED BY <1>1, <2>1, <2>2
<1>5. v[t] # <<>> => 1 \in DOMAIN v[t]
  <2>1. v[t] # <<>> => Len(v[t]) >= 1 BY <1>3
  <2> QED BY <1>1, <2>1
<1> HIDE DEF v
<1>6. ASSUME ~h[t], v[t] # <<>> PROVE v[t][1].type \in {"hello"} \cup Rounds!Broadcasts
  <2>1. CASE w[t] # <<>> BY <1>2, <1>4, <1>6, <2>1
  <2>2. CASE w[t] = <<>>
    <3>1. 1 \notin DOMAIN w[t] BY <2>2
    <3>2. t = s /\ \E j \in 1..Len(q) : v[t][1] = q[j] BY <1>1, <1>5, <1>6, <3>1
    <3>3. ~g[Rounds!Other(s)] BY <1>2, <1>6, <2>2, <3>2
    <3> QED BY <3>2, <3>3
  <2> QED BY <2>1, <2>2
<1>7. \A i \in DOMAIN v[t] : v[t][i].type = "hello" => i \in DOMAIN w[t] /\ w[t][i].type = "hello"
  BY <1>1
<1> QED BY <1>2, <1>4, <1>6, <1>7

LEMMA GreetsLess ==
    ASSUME NEW w \in Wires, NEW s \in Rounds!Sides, w[s] # <<>>,
           NEW h \in [Rounds!Sides -> BOOLEAN], NEW g, Greets(w, h, g),
           NEW k, k = [h EXCEPT ![s] = TRUE], g[s], h[s] \/ w[s][1].type = "hello"
    PROVE  Greets(Less(w, s), k, g)
<1> DEFINE v == Less(w, s)
<1> SUFFICES ASSUME NEW t \in Rounds!Sides
             PROVE  /\ ~k[t] /\ g[Rounds!Other(t)] => v[t] # <<>>
                    /\ ~k[t] /\ v[t] # <<>> => v[t][1].type \in {"hello"} \cup Rounds!Broadcasts
                    /\ k[t] => g[t] /\ g[Rounds!Other(t)]
                    /\ k[t] \/ ~g[Rounds!Other(t)] => \A i \in DOMAIN v[t] : v[t][i].type # "hello"
                    /\ \A i, j \in DOMAIN v[t] : v[t][i].type = "hello" /\ v[t][j].type = "hello" => i = j
  BY DEF Greets
<1>1. \A r \in Rounds!Sides :
      /\ ~h[r] /\ g[Rounds!Other(r)] => w[r] # <<>>
      /\ ~h[r] /\ w[r] # <<>> => w[r][1].type \in {"hello"} \cup Rounds!Broadcasts
      /\ h[r] => g[r] /\ g[Rounds!Other(r)]
      /\ h[r] \/ ~g[Rounds!Other(r)] => \A i \in DOMAIN w[r] : w[r][i].type # "hello"
      /\ \A i, j \in DOMAIN w[r] : w[r][i].type = "hello" /\ w[r][j].type = "hello" => i = j
  BY DEF Greets
<1>2. CASE t # s
  <2>1. v[t] = w[t] /\ k[t] = h[t] BY <1>2, LessIs
  <2> HIDE DEF v
  <2> QED BY <1>1, <2>1
<1>3. CASE t = s
  <2>1. k[s] BY <1>3
  <2>2. /\ Len(w[s]) >= 1 /\ DOMAIN v[s] = 1..(Len(w[s]) - 1)
        /\ \A i \in 1..(Len(w[s]) - 1) : v[s][i] = w[s][i + 1]
    BY LessIs
  <2>7. Len(w[s]) \in Nat /\ DOMAIN w[s] = 1..Len(w[s]) BY DEF Wires
  <2> HIDE DEF v
  <2>3. \A i \in DOMAIN v[s] : i \in Int /\ i + 1 \in DOMAIN w[s] /\ i + 1 # 1 /\ v[s][i] = w[s][i + 1]
    BY <2>2, <2>7
  <2>4. 1 \in DOMAIN w[s] BY <2>2, <2>7
  <2>5. g[Rounds!Other(s)] BY <1>1, <2>4
  <2>6. \A i \in DOMAIN v[s] : v[s][i].type # "hello" BY <1>1, <2>3, <2>4
  <2> QED BY <1>3, <2>1, <2>5, <2>6
<1> QED BY <1>2, <1>3

LEMMA MetMore ==
    ASSUME NEW w \in Wires, NEW s \in Rounds!Sides, NEW q \in Seq(Messages),
           NEW h, NEW g, NEW e, NEW r, Met(w, h, g, e, r),
           \A i \in 1..Len(q) : /\ q[i].type # "hello"
                                /\ g[Rounds!Other(s)] \/ q[i].type \in Rounds!Broadcasts
    PROVE  Met(More(w, s, q), h, g, e, r)
BY GreetsMore DEF Met

LEMMA MetLess ==
    ASSUME NEW w \in Wires, NEW s \in Rounds!Sides, w[s] # <<>>,
           NEW h \in [Rounds!Sides -> BOOLEAN], NEW g, NEW e, NEW r, Met(w, h, g, e, r),
           NEW k, k = [h EXCEPT ![s] = TRUE], g[s], h[s] \/ w[s][1].type = "hello",
           NEW f, f["in"] => e["in"] \/ s = "in", NEW x, x = r \/ x = Rounds!None
    PROVE  Met(Less(w, s), k, g, f, x)
<1>1. Greets(Less(w, s), k, g) BY GreetsLess DEF Met
<1>2. f["in"] => g["in"] BY DEF Met
<1>3. x # Rounds!None => k["in"] BY DEF Met, Rounds!Sides
<1> QED BY <1>1, <1>2, <1>3 DEF Met

LEMMA UnservedMore ==
    ASSUME NEW w \in Wires, NEW s \in Rounds!Sides, NEW q \in Seq(Messages), NEW rd \in RoundFields,
           NEW got, NEW cap, Unserved(w, rd, got, cap), \A i \in 1..Len(q) : q[i].id # rd.id
    PROVE  Unserved(More(w, s, q), rd, got, cap)
<1> DEFINE v == More(w, s, q)
<1>1. \A t \in Rounds!Sides : /\ DOMAIN w[t] \subseteq DOMAIN v[t]
                              /\ \A i \in DOMAIN w[t] : v[t][i] = w[t][i]
                              /\ \A i \in DOMAIN v[t] : i \in DOMAIN w[t] \/ v[t][i].id # rd.id
  <2> SUFFICES ASSUME NEW t \in Rounds!Sides
               PROVE  /\ DOMAIN w[t] \subseteq DOMAIN v[t]
                      /\ \A i \in DOMAIN w[t] : v[t][i] = w[t][i]
                      /\ \A i \in DOMAIN v[t] : i \in DOMAIN w[t] \/ v[t][i].id # rd.id
    OBVIOUS
  <2>1. /\ Len(w[t]) \in Nat /\ DOMAIN w[t] = 1..Len(w[t])
        /\ Len(v[t]) \in Nat /\ DOMAIN v[t] = 1..Len(v[t]) /\ Len(w[t]) <= Len(v[t])
        /\ \A i \in 1..Len(w[t]) : v[t][i] = w[t][i]
        /\ \A i \in DOMAIN v[t] : i \notin DOMAIN w[t] => \E j \in 1..Len(q) : v[t][i] = q[j]
    BY MoreKeeps
  <2> QED BY <2>1
<1>2. "in" \in Rounds!Sides /\ "out" \in Rounds!Sides BY DEF Rounds!Sides
<1> HIDE DEF v
<1>3. PICK i \in DOMAIN w["out"] :
          /\ w["out"][i].id = rd.id /\ w["out"][i].type = Asked(rd.pc)
          /\ rd.pc = "blocks" => w["out"][i].n = rd.at /\ w["out"][i].parts = cap
          /\ \A j \in DOMAIN w["out"] : w["out"][j].id = rd.id => j = i
  BY DEF Unserved
<1>4. i \in DOMAIN v["out"] /\ v["out"][i] = w["out"][i] BY <1>1, <1>2, <1>3
<1>5. \A j \in DOMAIN v["out"] : v["out"][j].id = rd.id => j = i
  BY <1>1, <1>2, <1>3
<1>6. \A j \in DOMAIN v["in"] : v["in"][j].id # rd.id
  BY <1>1, <1>2 DEF Unserved
<1> QED BY <1>3, <1>4, <1>5, <1>6 DEF Unserved, v

LEMMA ServedMore ==
    ASSUME NEW w \in Wires, NEW s \in Rounds!Sides, NEW q \in Seq(Messages), NEW rd \in RoundFields,
           NEW got \in Seq(Messages), NEW cap, NEW base, NEW a \in Nat, NEW k \in Nat,
           Served(w, rd, got, cap, base, a, k), \A i \in 1..Len(q) : q[i].id # rd.id
    PROVE  Served(More(w, s, q), rd, got, cap, base, a, k) /\ Len(More(w, s, q)["in"]) >= Len(w["in"])
<1> DEFINE v == More(w, s, q)
<1>1. \A t \in Rounds!Sides : /\ Len(w[t]) \in Nat /\ Len(v[t]) \in Nat /\ Len(w[t]) <= Len(v[t])
                              /\ DOMAIN w[t] = 1..Len(w[t])
                              /\ \A i \in DOMAIN w[t] : v[t][i] = w[t][i]
                              /\ \A i \in DOMAIN v[t] : i \in DOMAIN w[t] \/ v[t][i].id # rd.id
  <2> SUFFICES ASSUME NEW t \in Rounds!Sides
               PROVE  /\ Len(w[t]) \in Nat /\ Len(v[t]) \in Nat /\ Len(w[t]) <= Len(v[t])
                      /\ DOMAIN w[t] = 1..Len(w[t])
                      /\ \A i \in DOMAIN w[t] : v[t][i] = w[t][i]
                      /\ \A i \in DOMAIN v[t] : i \in DOMAIN w[t] \/ v[t][i].id # rd.id
    OBVIOUS
  <2>1. /\ Len(w[t]) \in Nat /\ DOMAIN w[t] = 1..Len(w[t])
        /\ Len(v[t]) \in Nat /\ Len(w[t]) <= Len(v[t])
        /\ \A i \in 1..Len(w[t]) : v[t][i] = w[t][i]
        /\ \A i \in DOMAIN v[t] : i \notin DOMAIN w[t] => \E j \in 1..Len(q) : v[t][i] = q[j]
    BY MoreKeeps
  <2> QED BY <2>1
<1>2. "in" \in Rounds!Sides /\ "out" \in Rounds!Sides BY DEF Rounds!Sides
<1> HIDE DEF v
<1>3. a + k <= Len(v["in"]) BY <1>1, <1>2 DEF Served
<1>4. \A j \in 1..k : v["in"][a + j] = w["in"][a + j]
  <2>1. a + k <= Len(w["in"]) BY DEF Served
  <2>2. \A j \in 1..k : a + j \in 1..Len(w["in"]) BY <2>1, <1>1, <1>2
  <2> QED BY <2>2, <1>1, <1>2
<1>5. \A i \in DOMAIN v["in"] : v["in"][i].id = rd.id => i \in (a + 1)..(a + k)
  BY <1>1, <1>2 DEF Served
<1>6. \A i \in DOMAIN v["out"] : v["out"][i].id # rd.id
  BY <1>1, <1>2 DEF Served
<1> QED BY <1>1, <1>2, <1>3, <1>4, <1>5, <1>6 DEF Served, v

LEMMA WaitsMore ==
    ASSUME NEW w \in Wires, NEW s \in Rounds!Sides, NEW q \in Seq(Messages), NEW rd \in RoundFields, NEW pd,
           \A i \in DOMAIN pd : pd[i] \in RequestRecord,
           Waits(w, rd, pd), rd.pc \in Answering => \A i \in 1..Len(q) : q[i].id # rd.id
    PROVE  Waits(More(w, s, q), rd, pd)
<1>1. CASE rd.pc \notin Answering BY <1>1 DEF Waits
<1>2. CASE rd.pc \in Answering
  <2>1. PICK base \in 0..rd.at :
               /\ rd.pc # "blocks" => base = rd.at
               /\ rd.pc = "blocks" => rd.at < base + pd[rd.id].capacity /\ base + pd[rd.id].capacity <= rd.to
               /\ \/ base = rd.at /\ Unserved(w, rd, pd[rd.id].got, pd[rd.id].capacity)
                  \/ \E a, k \in 0..Len(w["in"]) : Served(w, rd, pd[rd.id].got, pd[rd.id].capacity, base, a, k)
    BY <1>2 DEF Waits
  <2>2. /\ rd.id # 0 /\ DOMAIN pd = {rd.id} /\ pd[rd.id].expected = Expected(rd.pc)
        /\ rd.pc # "blocks" => pd[rd.id].capacity = 1
    BY <1>2 DEF Waits
  <2>3. pd[rd.id].got \in Seq(Messages) BY <2>2 DEF RequestRecord
  <2>4. CASE base = rd.at /\ Unserved(w, rd, pd[rd.id].got, pd[rd.id].capacity)
    <3>1. Unserved(More(w, s, q), rd, pd[rd.id].got, pd[rd.id].capacity) BY <2>4, <1>2, UnservedMore
    <3> QED BY <3>1, <1>2, <2>1, <2>2, <2>4 DEF Waits
  <2>5. ASSUME NEW a \in 0..Len(w["in"]), NEW k \in 0..Len(w["in"]),
               Served(w, rd, pd[rd.id].got, pd[rd.id].capacity, base, a, k)
        PROVE  Waits(More(w, s, q), rd, pd)
    <3>1. /\ Served(More(w, s, q), rd, pd[rd.id].got, pd[rd.id].capacity, base, a, k)
          /\ Len(More(w, s, q)["in"]) >= Len(w["in"])
      BY <2>5, <2>3, <1>2, ServedMore
    <3>2. Len(More(w, s, q)["in"]) \in Nat /\ Len(w["in"]) \in Nat
      BY MoreIs DEF Wires, Rounds!Sides
    <3>3. a \in 0..Len(More(w, s, q)["in"]) /\ k \in 0..Len(More(w, s, q)["in"]) BY <3>1, <3>2
    <3> QED BY <3>1, <3>3, <1>2, <2>1, <2>2 DEF Waits
  <2> QED BY <2>1, <2>4, <2>5
<1> QED BY <1>1, <1>2

LEMMA WaitsLess ==
    ASSUME NEW w \in Wires, NEW s \in Rounds!Sides, w[s] # <<>>, NEW rd \in RoundFields, NEW pd,
           \A i \in DOMAIN pd : pd[i] \in RequestRecord,
           Waits(w, rd, pd), rd.pc \in Answering => w[s][1].id # rd.id
    PROVE  Waits(Less(w, s), rd, pd)
<1>1. CASE rd.pc \notin Answering BY <1>1 DEF Waits
<1>2. CASE rd.pc \in Answering
  <2> DEFINE v == Less(w, s)
             got == pd[rd.id].got
             cap == pd[rd.id].capacity
  <2>1. PICK base \in 0..rd.at :
               /\ rd.pc # "blocks" => base = rd.at
               /\ rd.pc = "blocks" => rd.at < base + cap /\ base + cap <= rd.to
               /\ \/ base = rd.at /\ Unserved(w, rd, got, cap)
                  \/ \E a, k \in 0..Len(w["in"]) : Served(w, rd, got, cap, base, a, k)
    BY <1>2 DEF Waits
  <2>2. /\ rd.id # 0 /\ DOMAIN pd = {rd.id} /\ pd[rd.id].expected = Expected(rd.pc)
        /\ rd.pc # "blocks" => cap = 1
    BY <1>2 DEF Waits
  <2>3. got \in Seq(Messages) BY <2>2 DEF RequestRecord
  <2>4. /\ v \in Wires /\ \A t \in Rounds!Sides \ {s} : v[t] = w[t]
        /\ Len(w[s]) >= 1 /\ Len(v[s]) = Len(w[s]) - 1 /\ DOMAIN v[s] = 1..(Len(w[s]) - 1)
        /\ \A i \in 1..(Len(w[s]) - 1) : v[s][i] = w[s][i + 1]
    BY LessIs
  <2>5. \A t \in Rounds!Sides : w[t] \in Seq(Messages) /\ DOMAIN w[t] = 1..Len(w[t]) /\ Len(w[t]) \in Nat
    BY DEF Wires
  <2>6. Rounds!Sides = {"in", "out"} BY DEF Rounds!Sides
  <2>7. w[s][1].id # rd.id BY <1>2
  <2> HIDE DEF v, got, cap
  <2>8. CASE base = rd.at /\ Unserved(w, rd, got, cap)
    <3>1. PICK i \in DOMAIN w["out"] :
          /\ w["out"][i].id = rd.id /\ w["out"][i].type = Asked(rd.pc)
          /\ rd.pc = "blocks" => w["out"][i].n = rd.at /\ w["out"][i].parts = cap
          /\ \A j \in DOMAIN w["out"] : w["out"][j].id = rd.id => j = i
      BY <2>8 DEF Unserved
    <3>2. got = <<>> /\ \A j \in DOMAIN w["in"] : w["in"][j].id # rd.id BY <2>8 DEF Unserved
    <3>3. CASE s = "in"
      <4>1. v["out"] = w["out"] BY <3>3, <2>4, <2>6
      <4>2. \A j \in DOMAIN v["in"] : v["in"][j].id # rd.id BY <3>2, <3>3, <2>4, <2>5
      <4>3. Unserved(v, rd, got, cap) BY <3>1, <3>2, <4>1, <4>2 DEF Unserved
      <4> QED BY <4>3, <1>2, <2>1, <2>2, <2>8 DEF Waits, v, got, cap
    <3>4. CASE s = "out"
      <4>1. v["in"] = w["in"] BY <3>4, <2>4, <2>6
      <4>2. i # 1 BY <3>1, <3>4, <2>7
      <4>3. i - 1 \in 1..(Len(w["out"]) - 1) /\ (i - 1) + 1 = i BY <3>1, <4>2, <2>5, <2>6
      <4>4. i - 1 \in DOMAIN v["out"] /\ v["out"][i - 1] = w["out"][i] BY <4>3, <3>4, <2>4
      <4>5. \A j \in DOMAIN v["out"] : v["out"][j].id = rd.id => j = i - 1
        <5> SUFFICES ASSUME NEW j \in DOMAIN v["out"], v["out"][j].id = rd.id PROVE j = i - 1 OBVIOUS
        <5>1. j \in Int /\ j + 1 \in DOMAIN w["out"] /\ w["out"][j + 1].id = rd.id BY <3>4, <2>4, <2>5
        <5>2. j + 1 = i BY <5>1, <3>1
        <5> QED BY <5>1, <5>2
      <4>6. Unserved(v, rd, got, cap) BY <3>1, <3>2, <4>1, <4>4, <4>5 DEF Unserved
      <4> QED BY <4>6, <1>2, <2>1, <2>2, <2>8 DEF Waits, v, got, cap
    <3> QED BY <3>3, <3>4, <2>6
  <2>9. ASSUME NEW a \in 0..Len(w["in"]), NEW k \in 0..Len(w["in"]), Served(w, rd, got, cap, base, a, k)
        PROVE  Waits(v, rd, pd)
    <3>1. /\ a + k <= Len(w["in"])
          /\ rd.at - base + Len(got) + k <= cap
          /\ \A j \in 1..Len(got) : IsAnswer(got[j], rd.at - base + j, rd, base, cap)
          /\ \A j \in 1..k : IsAnswer(w["in"][a + j], rd.at - base + Len(got) + j, rd, base, cap)
          /\ \A i \in DOMAIN w["in"] : w["in"][i].id = rd.id => i \in (a + 1)..(a + k)
          /\ \A i \in DOMAIN w["out"] : w["out"][i].id # rd.id
      BY <2>9 DEF Served
    <3>2. CASE s = "out"
      <4>1. v["in"] = w["in"] BY <3>2, <2>4, <2>6
      <4>2. \A j \in DOMAIN v["out"] : v["out"][j].id # rd.id
        <5> SUFFICES ASSUME NEW j \in DOMAIN v["out"] PROVE v["out"][j].id # rd.id OBVIOUS
        <5>1. j + 1 \in DOMAIN w["out"] /\ v["out"][j] = w["out"][j + 1] BY <3>2, <2>4, <2>5
        <5> QED BY <5>1, <3>1
      <4>3. Served(v, rd, got, cap, base, a, k) BY <3>1, <4>1, <4>2 DEF Served
      <4> QED BY <4>1, <4>3, <1>2, <2>1, <2>2, <2>9 DEF Waits, v, got, cap
    <3>3. CASE s = "in" /\ k = 0
      <4>1. v["out"] = w["out"] /\ Len(v["in"]) = Len(w["in"]) - 1 /\ Len(w["in"]) >= 1 /\ Len(w["in"]) \in Nat
        BY <3>3, <2>4, <2>5, <2>6
      <4>2. \A j \in DOMAIN v["in"] : v["in"][j].id # rd.id
        <5> SUFFICES ASSUME NEW j \in DOMAIN v["in"], v["in"][j].id = rd.id PROVE FALSE OBVIOUS
        <5>1. j + 1 \in DOMAIN w["in"] /\ w["in"][j + 1].id = rd.id BY <3>3, <2>4, <2>5
        <5> QED BY <5>1, <3>1, <3>3
      <4>3. Served(v, rd, got, cap, base, 0, 0) BY <3>1, <3>3, <4>1, <4>2 DEF Served
      <4>4. 0 \in 0..Len(v["in"]) BY <4>1
      <4> QED BY <4>3, <4>4, <1>2, <2>1, <2>2 DEF Waits, v, got, cap
    <3>4. CASE s = "in" /\ k # 0
      <4>1. v["out"] = w["out"] /\ Len(v["in"]) = Len(w["in"]) - 1 /\ Len(w["in"]) >= 1 /\ Len(w["in"]) \in Nat
        BY <3>4, <2>4, <2>5, <2>6
      <4>2. a # 0
        <5> SUFFICES ASSUME a = 0 PROVE FALSE OBVIOUS
        <5>1. 1 \in 1..k /\ a + 1 = 1 BY <3>4
        <5>2. IsAnswer(w["in"][a + 1], rd.at - base + Len(got) + 1, rd, base, cap) BY <5>1, <3>1
        <5> QED BY <5>1, <5>2, <3>4, <2>7 DEF IsAnswer
      <4>3. a - 1 \in Nat /\ (a - 1) + k <= Len(v["in"]) BY <4>1, <4>2, <3>1
      <4>4. \A j \in 1..k : v["in"][(a - 1) + j] = w["in"][a + j]
        <5> SUFFICES ASSUME NEW j \in 1..k PROVE v["in"][(a - 1) + j] = w["in"][a + j] OBVIOUS
        <5>1. (a - 1) + j \in 1..(Len(w["in"]) - 1) /\ ((a - 1) + j) + 1 = a + j BY <4>1, <4>3
        <5> QED BY <5>1, <2>4, <3>4
      <4>5. \A i \in DOMAIN v["in"] : v["in"][i].id = rd.id => i \in ((a - 1) + 1)..((a - 1) + k)
        <5> SUFFICES ASSUME NEW i \in DOMAIN v["in"], v["in"][i].id = rd.id
                     PROVE  i \in ((a - 1) + 1)..((a - 1) + k)
          OBVIOUS
        <5>0. i \in 1..(Len(w["in"]) - 1) /\ v["in"][i] = w["in"][i + 1] BY <3>4, <2>4, Zenon
        <5>1. i \in Int /\ i + 1 \in DOMAIN w["in"] /\ w["in"][i + 1].id = rd.id
          <6>1. i + 1 \in 1..Len(w["in"]) /\ i \in Int BY <5>0, <4>1
          <6>2. DOMAIN w["in"] = 1..Len(w["in"]) BY <2>5
          <6> QED BY <5>0, <6>1, <6>2, Zenon
        <5>2. i + 1 \in (a + 1)..(a + k) BY <5>1, <3>1
        <5> QED BY <5>1, <5>2
      <4>6. Served(v, rd, got, cap, base, a - 1, k) BY <3>1, <4>1, <4>3, <4>4, <4>5 DEF Served
      <4>7. a - 1 \in 0..Len(v["in"]) /\ k \in 0..Len(v["in"]) BY <4>3, <4>1
      <4> QED BY <4>6, <4>7, <1>2, <2>1, <2>2 DEF Waits, v, got, cap
    <3> QED BY <3>2, <3>3, <3>4, <2>6
  <2> QED BY <2>1, <2>8, <2>9 DEF v
<1> QED BY <1>1, <1>2

LEMMA WaitingFor ==
    ASSUME NEW w \in Wires, NEW rd \in RoundFields, NEW pd, \A i \in DOMAIN pd : pd[i] \in RequestRecord,
           Waits(w, rd, pd), rd.pc \in Answering,
           w["out"] # <<>>, w["out"][1].id = rd.id
    PROVE  /\ Unserved(w, rd, pd[rd.id].got, pd[rd.id].capacity)
           /\ w["out"][1].type = Asked(rd.pc)
           /\ rd.pc = "blocks" => w["out"][1].n = rd.at /\ w["out"][1].parts = pd[rd.id].capacity
           /\ \A i \in DOMAIN w["out"] : w["out"][i].id = rd.id => i = 1
<1>1. 1 \in DOMAIN w["out"] BY LessIs, "out" \in Rounds!Sides DEF Rounds!Sides, Wires
<1>2. Unserved(w, rd, pd[rd.id].got, pd[rd.id].capacity)
  BY <1>1 DEF Waits, Served
<1> QED BY <1>1, <1>2 DEF Unserved

LEMMA WaitsServed ==
    ASSUME NEW w \in Wires, NEW rd \in RoundFields, NEW pd, \A i \in DOMAIN pd : pd[i] \in RequestRecord,
           Waits(w, rd, pd), rd.pc \in Answering,
           w["out"] # <<>>, w["out"][1].id = rd.id,
           NEW q \in Seq(Messages), Len(q) <= pd[rd.id].capacity,
           \A j \in 1..Len(q) : IsAnswer(q[j], j, rd, rd.at, pd[rd.id].capacity)
    PROVE  Waits(Less(More(w, "in", q), "out"), rd, pd)
<1> DEFINE u == More(w, "in", q)
           v == Less(u, "out")
           a == Len(w["in"])
           k == Len(q)
<1>1. /\ Unserved(w, rd, pd[rd.id].got, pd[rd.id].capacity)
      /\ \A i \in DOMAIN w["out"] : w["out"][i].id = rd.id => i = 1
  BY WaitingFor
<1>2. "in" \in Rounds!Sides /\ "out" \in Rounds!Sides BY DEF Rounds!Sides
<1>3. /\ u \in Wires /\ u["out"] = w["out"] /\ Len(u["in"]) = a + k /\ DOMAIN u["in"] = 1..(a + k)
      /\ \A i \in 1..a : u["in"][i] = w["in"][i]
      /\ \A i \in 1..k : u["in"][a + i] = q[i]
      /\ \A i \in (a + 1)..(a + k) : u["in"][i] = q[i - a]
  <2>1. "out" \in Rounds!Sides \ {"in"} BY <1>2
  <2>2. u \in Wires /\ u["out"] = w["out"] BY <1>2, <2>1, MoreIs
  <2>3. Len(u["in"]) = a + k /\ DOMAIN u["in"] = 1..(a + k) BY <1>2, MoreIs
  <2>4. \A i \in 1..a : u["in"][i] = w["in"][i] BY <1>2, MoreIs
  <2>5. \A i \in 1..k : u["in"][a + i] = q[i] BY <1>2, MoreIs
  <2>6. \A i \in (a + 1)..(a + k) : u["in"][i] = q[i - a] BY <1>2, MoreIs
  <2> HIDE DEF u, a, k
  <2> QED BY <2>2, <2>3, <2>4, <2>5, <2>6
<1>4. a \in Nat /\ k \in Nat /\ DOMAIN w["in"] = 1..a
  BY <1>2 DEF Wires
<1>5. v["in"] = u["in"] /\ \A i \in DOMAIN v["out"] : i + 1 \in DOMAIN w["out"] /\ v["out"][i] = w["out"][i + 1] /\ i \in Nat \ {0}
  <2>1. /\ v["in"] = u["in"] /\ DOMAIN v["out"] = 1..(Len(u["out"]) - 1)
        /\ \A i \in 1..(Len(u["out"]) - 1) : v["out"][i] = u["out"][i + 1]
    <3>1. "in" \in Rounds!Sides \ {"out"} BY <1>2
    <3>2. u["out"] # <<>> BY <1>3
    <3> HIDE DEF u
    <3> QED BY <1>2, <1>3, <3>1, <3>2, LessIs
  <2>2. Len(w["out"]) \in Nat /\ DOMAIN w["out"] = 1..Len(w["out"]) BY <1>2 DEF Wires
  <2> QED BY <2>1, <2>2, <1>3
<1>6. rd.id # 0 /\ DOMAIN pd = {rd.id} /\ pd[rd.id].expected = Expected(rd.pc)
      /\ (rd.pc # "blocks" => pd[rd.id].capacity = 1)
  BY DEF Waits
<1>7. pd[rd.id].capacity \in Int /\ rd.at \in Nat
  BY <1>6, RoundNumbers DEF RequestRecord, RoundFields
<1>8. rd.pc = "blocks" => rd.at < rd.at + pd[rd.id].capacity /\ rd.at + pd[rd.id].capacity <= rd.to
  BY <1>1 DEF Waits, Served, Unserved
<1>9. pd[rd.id].got = <<>> /\ \A i \in DOMAIN w["in"] : w["in"][i].id # rd.id BY <1>1 DEF Unserved
<1> HIDE DEF u, v, a, k
<1>10. Served(v, rd, pd[rd.id].got, pd[rd.id].capacity, rd.at, a, k)
  <2>1. a + k <= Len(v["in"]) /\ rd.at - rd.at + Len(pd[rd.id].got) + k <= pd[rd.id].capacity
    BY <1>3, <1>4, <1>5, <1>7, <1>9 DEF k
  <2>2. \A j \in 1..Len(pd[rd.id].got) : FALSE BY <1>9
  <2>3. ASSUME NEW j \in 1..k
        PROVE  IsAnswer(v["in"][a + j], rd.at - rd.at + Len(pd[rd.id].got) + j, rd, rd.at, pd[rd.id].capacity)
    <3>1. v["in"][a + j] = q[j] BY <1>3, <1>5
    <3>2. rd.at - rd.at + Len(pd[rd.id].got) + j = j BY <1>4, <1>7, <1>9
    <3> QED BY <3>1, <3>2 DEF k
  <2>4. \A i \in DOMAIN v["in"] : v["in"][i].id = rd.id => i \in (a + 1)..(a + k)
    <3> SUFFICES ASSUME NEW i \in DOMAIN v["in"], i \notin (a + 1)..(a + k) PROVE v["in"][i].id # rd.id
      OBVIOUS
    <3>0. v["in"] = u["in"] BY <1>5
    <3>1. i \in 1..a BY <1>3, <1>4, <3>0
    <3>2. v["in"][i] = w["in"][i] BY <3>0, <3>1, <1>3, Zenon
    <3>3. i \in DOMAIN w["in"] BY <3>1, <1>4, Zenon
    <3> QED BY <3>2, <3>3, <1>9, Zenon
  <2>5. \A i \in DOMAIN v["out"] : v["out"][i].id # rd.id
    BY <1>1, <1>5
  <2> QED BY <2>1, <2>2, <2>3, <2>4, <2>5 DEF Served
<1>11. a \in 0..Len(v["in"]) /\ k \in 0..Len(v["in"]) BY <1>3, <1>4, <1>5
<1>12. rd.at \in 0..rd.at BY <1>7
<1>13. Waits(v, rd, pd)
  BY <1>6, <1>8, <1>10, <1>11, <1>12 DEF Waits
<1> QED BY <1>13 DEF u, v

LEMMA WaitsRouted ==
    ASSUME NEW w \in Wires, NEW rd \in RoundFields, NEW pd, \A i \in DOMAIN pd : pd[i] \in RequestRecord,
           Waits(w, rd, pd), rd.pc \in Answering,
           w["in"] # <<>>, w["in"][1].id = rd.id
    PROVE  /\ w["in"][1].type \in {pd[rd.id].expected, "error"}
           /\ Len(pd[rd.id].got) < pd[rd.id].capacity
           /\ \A pd2 : /\ DOMAIN pd2 = {rd.id}
                       /\ pd2[rd.id].expected = pd[rd.id].expected /\ pd2[rd.id].capacity = pd[rd.id].capacity
                       /\ pd2[rd.id].got = Append(pd[rd.id].got, w["in"][1])
                       => Waits(Less(w, "in"), rd, pd2)
<1> DEFINE got == pd[rd.id].got
           cap == pd[rd.id].capacity
           v == Less(w, "in")
           m == w["in"][1]
<1>1. "in" \in Rounds!Sides /\ "out" \in Rounds!Sides BY DEF Rounds!Sides
<1>2. /\ v["out"] = w["out"] /\ Len(w["in"]) >= 1 /\ Len(v["in"]) = Len(w["in"]) - 1
      /\ DOMAIN v["in"] = 1..(Len(w["in"]) - 1) /\ m \in Messages
      /\ \A i \in 1..(Len(w["in"]) - 1) : v["in"][i] = w["in"][i + 1]
  BY <1>1, LessIs
<1>3. Len(w["in"]) \in Nat /\ DOMAIN w["in"] = 1..Len(w["in"]) BY <1>1 DEF Wires
<1>4. 1 \in DOMAIN w["in"] /\ ~Unserved(w, rd, got, cap)
  BY <1>2, <1>3 DEF Unserved
<1>5. PICK base \in 0..rd.at :
         /\ rd.pc # "blocks" => base = rd.at
         /\ rd.pc = "blocks" => rd.at < base + cap /\ base + cap <= rd.to
         /\ \E a, k \in 0..Len(w["in"]) : Served(w, rd, got, cap, base, a, k)
  BY <1>4 DEF Waits
<1>6. /\ rd.id # 0 /\ DOMAIN pd = {rd.id} /\ pd[rd.id].expected = Expected(rd.pc)
      /\ rd.pc # "blocks" => cap = 1
  BY DEF Waits
<1>7. got \in Seq(Messages) /\ cap \in Int /\ rd.at \in Nat /\ base \in Int
  BY <1>5, <1>6, RoundNumbers DEF RequestRecord, RoundFields
<1>8. PICK a \in 0..Len(w["in"]), k \in 0..Len(w["in"]) : Served(w, rd, got, cap, base, a, k)
  BY <1>5
<1> HIDE DEF got, cap, v
<1>9. /\ a + k <= Len(w["in"])
      /\ rd.at - base + Len(got) + k <= cap
      /\ \A j \in 1..Len(got) : IsAnswer(got[j], rd.at - base + j, rd, base, cap)
      /\ \A j \in 1..k : IsAnswer(w["in"][a + j], rd.at - base + Len(got) + j, rd, base, cap)
      /\ \A i \in DOMAIN w["in"] : w["in"][i].id = rd.id => i \in (a + 1)..(a + k)
      /\ \A i \in DOMAIN w["out"] : w["out"][i].id # rd.id
  BY <1>8 DEF Served
<1>10. a = 0 /\ k >= 1 /\ Len(got) \in Nat
  <2>1. 1 \in (a + 1)..(a + k) BY <1>4, <1>9
  <2> QED BY <2>1, <1>7
<1> DEFINE r == rd.at - base
<1>15. r \in Int /\ r >= 0 BY <1>5, <1>7
<1>11. IsAnswer(m, rd.at - base + Len(got) + 1, rd, base, cap)
  <2>1. 1 \in 1..k /\ a + 1 = 1 BY <1>10
  <2> QED BY <2>1, <1>9
<1>12. m.type \in {pd[rd.id].expected, "error"} BY <1>6, <1>11 DEF IsAnswer
<1>13. Len(got) < cap BY <1>5, <1>7, <1>9, <1>10
<1>14. ASSUME NEW pd2, DOMAIN pd2 = {rd.id},
              pd2[rd.id].expected = pd[rd.id].expected, pd2[rd.id].capacity = cap,
              pd2[rd.id].got = Append(got, m)
       PROVE  Waits(v, rd, pd2)
  <2> DEFINE new == Append(got, m)
  <2>1. /\ Len(new) = Len(got) + 1 /\ new[Len(got) + 1] = m
        /\ \A j \in 1..Len(got) : new[j] = got[j]
    BY <1>2, <1>7
  <2> HIDE DEF new
  <2>2. ASSUME NEW j \in 1..Len(new) PROVE IsAnswer(new[j], rd.at - base + j, rd, base, cap)
    <3>1. CASE j = Len(got) + 1
      <4>1. r + j = r + Len(got) + 1
        <5> HIDE DEF r
        <5> QED BY <3>1, <1>10, <1>15
      <4> QED BY <4>1, <3>1, <2>1, <1>11
    <3>2. CASE j # Len(got) + 1
      <4>1. j \in 1..Len(got) BY <3>2, <2>1, <1>10
      <4> QED BY <4>1, <2>1, <1>9
    <3> QED BY <3>1, <3>2
  <2>3. ASSUME NEW j \in 1..(k - 1)
        PROVE  IsAnswer(v["in"][0 + j], rd.at - base + Len(new) + j, rd, base, cap)
    <3>1. j + 1 \in 1..k /\ j \in 1..(Len(w["in"]) - 1) /\ 0 + j = j BY <1>9, <1>10, <1>3
    <3>2. v["in"][j] = w["in"][j + 1] BY <3>1, <1>2
    <3>3. IsAnswer(w["in"][a + (j + 1)], rd.at - base + Len(got) + (j + 1), rd, base, cap) BY <3>1, <1>9
    <3>4. a + (j + 1) = j + 1 /\ r + Len(got) + (j + 1) = r + Len(new) + j
      <4> HIDE DEF r
      <4> QED BY <1>10, <1>15, <2>1
    <3> QED BY <3>1, <3>2, <3>3, <3>4
  <2>4. \A i \in DOMAIN v["in"] : v["in"][i].id = rd.id => i \in (0 + 1)..(0 + (k - 1))
    <3> SUFFICES ASSUME NEW i \in DOMAIN v["in"], v["in"][i].id = rd.id PROVE i \in (0 + 1)..(0 + (k - 1)) OBVIOUS
    <3>0. i \in 1..(Len(w["in"]) - 1) /\ v["in"][i] = w["in"][i + 1] BY <1>2
    <3>1. i \in 1..(Len(w["in"]) - 1) /\ i + 1 \in DOMAIN w["in"] /\ w["in"][i + 1].id = rd.id
      <4>1. i + 1 \in DOMAIN w["in"] BY <3>0, <1>3
      <4> QED BY <3>0, <4>1, Zenon
    <3>2. i + 1 \in (a + 1)..(a + k) BY <3>1, <1>9
    <3> QED BY <3>1, <3>2, <1>10
  <2>5. 0 + (k - 1) <= Len(v["in"]) /\ rd.at - base + Len(new) + (k - 1) <= cap
    <3>1. r + Len(got) + k <= cap BY <1>9
    <3>2. r + Len(new) + (k - 1) = r + Len(got) + k
      <4> HIDE DEF r
      <4> QED BY <1>10, <1>15, <2>1
    <3> QED BY <3>1, <3>2, <1>2, <1>3, <1>9, <1>10
  <2>6. Served(v, rd, new, cap, base, 0, k - 1)
    BY <2>2, <2>3, <2>4, <2>5, <1>2, <1>9 DEF Served
  <2>7. 0 \in 0..Len(v["in"]) /\ k - 1 \in 0..Len(v["in"]) BY <2>5, <1>2, <1>3, <1>10
  <2> QED BY <2>6, <2>7, <1>5, <1>6, <1>14 DEF Waits, new
<1> QED BY <1>12, <1>13, <1>14 DEF got, cap, v

LEMMA BoundedMore ==
    ASSUME NEW w \in Wires, NEW s \in Rounds!Sides, NEW q \in Seq(Messages), Bounded(w),
           Len(w[s]) + Len(q) <= QueueCap, \A i \in 1..Len(q) : Fits(q[i])
    PROVE  Bounded(More(w, s, q))
<1> SUFFICES ASSUME NEW t \in Rounds!Sides
             PROVE  Len(More(w, s, q)[t]) <= QueueCap /\ \A i \in DOMAIN More(w, s, q)[t] : Fits(More(w, s, q)[t][i])
    BY DEF Bounded
<1>1. /\ DOMAIN w[t] = 1..Len(w[t])
      /\ \A i \in 1..Len(w[t]) : More(w, s, q)[t][i] = w[t][i]
      /\ \A i \in DOMAIN More(w, s, q)[t] : i \notin DOMAIN w[t] => \E j \in 1..Len(q) : More(w, s, q)[t][i] = q[j]
  BY MoreKeeps
<1>2. Len(More(w, s, q)[t]) <= QueueCap
  <2>1. CASE t = s BY <2>1, MoreIs
  <2>2. CASE t # s
    <3>1. More(w, s, q)[t] = w[t] BY <2>2, MoreIs
    <3> QED BY <3>1 DEF Bounded
  <2> QED BY <2>1, <2>2
<1>3. \A i \in 1..Len(w[t]) : Fits(w[t][i]) BY <1>1 DEF Bounded
<1> QED BY <1>1, <1>2, <1>3

LEMMA CarriedMore ==
    ASSUME NEW w, NEW h, NEW e, NEW r, Carried(w, h, e, r),
           NEW s \in Rounds!Sides, NEW q \in Seq(Messages), Len(w[s]) + Len(q) <= QueueCap,
           \A i \in 1..Len(q) :
              /\ Fits(q[i])
              /\ s = "in" => /\ q[i].type = "pong" => h["out"]
                             /\ q[i].type \in Rounds!Responses => e["in"]
              /\ s = "out" /\ q[i].type \in Asking => e["in"]
    PROVE  Carried(More(w, s, q), h, e, r)
<1>1. w \in Wires /\ Bounded(w) /\ InOrder(w, h, e) BY DEF Carried
<1>2. More(w, s, q) \in Wires BY <1>1, MoreIs
<1>3. Bounded(More(w, s, q)) BY <1>1, BoundedMore
<1>4. InOrder(More(w, s, q), h, e) BY <1>1, InOrderMore
<1>6. ASSUME r # Rounds!None PROVE More(w, s, q)["in"] # <<>> /\ More(w, s, q)["in"][1].type = "gossip"
  <2>1. w["in"] # <<>> /\ w["in"][1].type = "gossip" BY <1>6 DEF Carried
  <2>2. "in" \in Rounds!Sides BY DEF Rounds!Sides
  <2>3. /\ Len(w["in"]) \in Nat /\ Len(More(w, s, q)["in"]) \in Nat /\ Len(w["in"]) <= Len(More(w, s, q)["in"])
        /\ \A i \in 1..Len(w["in"]) : More(w, s, q)["in"][i] = w["in"][i]
    BY <1>1, <2>2, MoreKeeps
  <2>4. Len(w["in"]) >= 1 BY <1>1, <2>1, <2>2, LessIs
  <2> QED BY <2>1, <2>3, <2>4
<1> QED BY <1>2, <1>3, <1>4, <1>6 DEF Carried

LEMMA SoundMore ==
    ASSUME NEW w, NEW h, NEW e, NEW rd \in RoundFields, NEW pd, NEW r, Sound(w, h, e, rd, pd, r),
           \A i \in DOMAIN pd : pd[i] \in RequestRecord,
           NEW s \in Rounds!Sides, NEW q \in Seq(Messages), Len(w[s]) + Len(q) <= QueueCap,
           \A i \in 1..Len(q) :
              /\ Fits(q[i])
              /\ s = "in" => /\ q[i].type = "pong" => h["out"]
                             /\ q[i].type \in Rounds!Responses => e["in"]
              /\ s = "out" /\ q[i].type \in Asking => e["in"]
              /\ rd.pc \in Answering => q[i].id # rd.id
    PROVE  Sound(More(w, s, q), h, e, rd, pd, r)
<1>1. Carried(w, h, e, r) /\ w \in Wires /\ Waits(w, rd, pd) BY DEF Sound, Carried
<1>2. Carried(More(w, s, q), h, e, r) BY <1>1, CarriedMore
<1>3. Waits(More(w, s, q), rd, pd) BY <1>1, WaitsMore
<1> QED BY <1>2, <1>3 DEF Sound

LEMMA BoundedLess ==
    ASSUME NEW w \in Wires, NEW s \in Rounds!Sides, w[s] # <<>>, Bounded(w)
    PROVE  Bounded(Less(w, s)) /\ Fits(w[s][1])
<1>1. /\ \A t \in Rounds!Sides \ {s} : Less(w, s)[t] = w[t]
      /\ Len(w[s]) >= 1 /\ Len(Less(w, s)[s]) = Len(w[s]) - 1
      /\ DOMAIN Less(w, s)[s] = 1..(Len(w[s]) - 1)
      /\ \A i \in 1..(Len(w[s]) - 1) : Less(w, s)[s][i] = w[s][i + 1]
  BY LessIs
<1>2. Len(w[s]) \in Nat /\ DOMAIN w[s] = 1..Len(w[s]) /\ QueueCap \in Nat BY RoundNumbers DEF Wires
<1>3. Len(w[s]) <= QueueCap /\ \A i \in DOMAIN w[s] : Fits(w[s][i]) BY DEF Bounded
<1>4. Len(Less(w, s)[s]) <= QueueCap BY <1>1, <1>2, <1>3
<1>5. \A i \in DOMAIN Less(w, s)[s] : i + 1 \in DOMAIN w[s] /\ Less(w, s)[s][i] = w[s][i + 1]
  BY <1>1, <1>2
<1>6. \A i \in DOMAIN Less(w, s)[s] : Fits(Less(w, s)[s][i])
  BY <1>3, <1>5
<1>7. Fits(w[s][1]) BY <1>1, <1>2, <1>3
<1> QED BY <1>1, <1>4, <1>6, <1>7 DEF Bounded

LEMMA CarriedLess ==
    ASSUME NEW w, NEW h \in [Rounds!Sides -> BOOLEAN], NEW e \in [Rounds!Sides -> BOOLEAN],
           NEW r, Carried(w, h, e, r), NEW s \in Rounds!Sides, w[s] # <<>>,
           NEW g \in [Rounds!Sides -> BOOLEAN], NEW f \in [Rounds!Sides -> BOOLEAN],
           g = [h EXCEPT ![s] = TRUE], f = e \/ f = [e EXCEPT ![s] = TRUE],
           w[s][1].type = "pong" => f[s],
           f["in"] => e["in"] \/ (s = "in" /\ w[s][1].type = "pong"),
           s = "in" /\ w[s][1].type = "ping" => PongSent(w, e),
           g["out"] => h["out"] \/ PongSent(w, e) \/ \E i \in DOMAIN w["in"] : w["in"][i].type = "ping",
           s = "in" => r = Rounds!None
    PROVE  Carried(Less(w, s), g, f, r)
<1>1. w \in Wires /\ Bounded(w) /\ InOrder(w, h, e) BY DEF Carried
<1>2. Less(w, s) \in Wires /\ \A t \in Rounds!Sides \ {s} : Less(w, s)[t] = w[t] BY <1>1, LessIs
<1>3. Bounded(Less(w, s)) BY <1>1, BoundedLess
<1>4. InOrder(Less(w, s), g, f) BY <1>1, InOrderLess
<1>6. ASSUME r # Rounds!None PROVE Less(w, s)["in"] # <<>> /\ Less(w, s)["in"][1].type = "gossip"
  <2>1. Less(w, s)["in"] = w["in"] BY <1>2, <1>6 DEF Rounds!Sides
  <2> QED BY <2>1, <1>6 DEF Carried
<1> QED BY <1>2, <1>3, <1>4, <1>6 DEF Carried

LEMMA PutIs ==
    ASSUME NEW w \in Wires, NEW s \in Rounds!Sides, NEW m \in Messages
    PROVE  Rounds!Put(w, s, m) = More(w, s, <<m>>) /\ <<m>> \in Seq(Messages)
<1>1. w[s] \in Seq(Messages) BY DEF Wires
<1>2. Append(w[s], m) = w[s] \o <<m>> BY <1>1
<1> QED BY <1>2 DEF Rounds!Put, More

LEMMA ReadIs ==
    ASSUME wire \in Wires, NEW s \in Rounds!Sides
    PROVE  Rounds!Read(s) = Less(wire, s)
BY DEF Rounds!Read, Less

LEMMA PutReadIs ==
    ASSUME wire \in Wires, NEW s \in Rounds!Sides, NEW m \in Messages, wire[s] # <<>>
    PROVE  /\ Rounds!Put(Rounds!Read(s), Rounds!Other(s), m) = Less(More(wire, Rounds!Other(s), <<m>>), s)
           /\ More(wire, Rounds!Other(s), <<m>>)[s] = wire[s] /\ <<m>> \in Seq(Messages)
           /\ Rounds!Other(s) \in Rounds!Sides \ {s}
<1>1. Rounds!Other(s) \in Rounds!Sides \ {s} BY DEF Rounds!Other, Rounds!Sides
<1>2. PICK t \in Rounds!Sides : t = Rounds!Other(s) /\ t # s BY <1>1
<1>3. Less(wire, s) \in Wires BY LessIs
<1>4. Rounds!Put(Rounds!Read(s), t, m) = More(Less(wire, s), t, <<m>>) /\ <<m>> \in Seq(Messages)
  BY <1>2, <1>3, ReadIs, PutIs
<1>5. More(Less(wire, s), t, <<m>>) = Less(More(wire, t, <<m>>), s)
  BY <1>2 DEF More, Less, Wires
<1>6. More(wire, t, <<m>>)[s] = wire[s] BY <1>2 DEF More, Wires
<1> QED BY <1>1, <1>2, <1>4, <1>5, <1>6

LEMMA MsgIs ==
    ASSUME NEW ty \in MessageTypes, NEW id \in 0..(2 * QueueCap + 2), NEW n \in 0..MaxHeight, NEW p \in 0..MaxHeight
    PROVE  /\ Rounds!Msg(ty, id, n, p) \in Messages
           /\ Rounds!Msg(ty, id, n, p).type = ty /\ Rounds!Msg(ty, id, n, p).id = id
           /\ Rounds!Msg(ty, id, n, p).n = n /\ Rounds!Msg(ty, id, n, p).parts = p
BY DEF Rounds!Msg, Messages

LEMMA ClosesSound ==
    ASSUME NEW s, NEW why, Rounds!Close(s, why), why \in Excuses \/ (s # "out" /\ why \in {"race", "refused"})
    PROVE  Connected'
<1> USE DEF Rounds!Close
<1>1. Rounds!NoRound \in RoundFields /\ Rounds!None \in Rounds!None..MaxHeight
  BY RoundNumbers DEF Rounds!NoRound, RoundFields, Rounds!None
<1>2. DOMAIN pending' = {} BY DEF Rounds!NoPending
<1>3. /\ hello' \in [Rounds!Sides -> BOOLEAN] /\ enabled' \in [Rounds!Sides -> BOOLEAN]
      /\ greeted' \in [Rounds!Sides -> BOOLEAN]
  BY DEF Rounds!Sides
<1>4. ConnectionTyped' BY <1>1, <1>2, <1>3 DEF ConnectionTyped
<1>5. AtRest' BY <1>2 DEF AtRest
<1>6. Blameless' BY DEF Blameless
<1> QED BY <1>4, <1>5, <1>6 DEF Connected

LEMMA MaybeStarts ==
    ASSUME round \in RoundFields, due \in BOOLEAN, NEW en, NEW rem, NEW d, Rounds!MaybeStart(en, rem, d)
    PROVE  /\ round' \in RoundFields /\ due' \in BOOLEAN
           /\ round' = round \/ (en /\ round.pc = "off" /\ round'.pc = "start")
<1>1. CASE UNCHANGED <<round, due>> BY <1>1
<1>2. CASE en /\ round.pc = "off" /\ round' = [Rounds!NoRound EXCEPT !.pc = "start"] /\ due' = FALSE
  <2>1. round' \in RoundFields /\ round'.pc = "start"
    <3>1. round' = [pc |-> "start", tip |-> 0, target |-> Rounds!None, at |-> 0, to |-> 0, chunk |-> 0,
                    progress |-> FALSE, failed |-> FALSE, id |-> 0]
      BY <1>2 DEF Rounds!NoRound
    <3>2. 0 \in 0..MaxHeight /\ 0 \in Nat /\ 0 \in 0..(2 * QueueCap + 2) /\ Rounds!None \in Rounds!None..MaxHeight
      BY RoundNumbers DEF Rounds!None
    <3> QED BY <3>1, <3>2 DEF RoundFields
  <2> QED BY <2>1, <1>2
<1> QED BY <1>1, <1>2 DEF Rounds!MaybeStart

\* A step of the round or of the clock alone.

LEMMA RoundGoesOn ==
    ASSUME Connected, open, UNCHANGED <<open, reason, greeted, wire, hello, enabled, reading>>,
           remote' \in Rounds!None..MaxHeight, due' \in BOOLEAN, timer' \in BOOLEAN,
           round' \in RoundFields, \A i \in DOMAIN pending' : pending'[i] \in RequestRecord,
           round'.pc # "off" => enabled["in"],
           round'.pc = "stage" => round'.at < round'.to,
           Waits(wire, round', pending')
    PROVE  Connected'
<1>1. ConnectionTyped' BY DEF Connected, ConnectionTyped
<1>2. RoundSound' BY DEF RoundSound
<1>3. Sound(wire, hello, enabled, round', pending', reading) BY DEF Connected, Sound
<1>4. Sound(wire', hello', enabled', round', pending', reading') BY <1>3
<1>5. Met(wire', hello', greeted', enabled', reading') BY DEF Connected
<1>6. Blameless' BY DEF Connected, Blameless
<1> QED BY <1>1, <1>2, <1>4, <1>5, <1>6 DEF Connected

LEMMA IdleWaits ==
    ASSUME NEW w, NEW rd, NEW pd, rd.pc \notin Answering, DOMAIN pd = {}
    PROVE  Waits(w, rd, pd) /\ \A i \in DOMAIN pd : pd[i] \in RequestRecord
BY DEF Waits

LEMMA IdleIs ==
    ASSUME Connected, round.pc \notin Answering
    PROVE  DOMAIN pending = {}
BY DEF Connected, AtRest, Sound, Waits, Rounds!NoRound

LEMMA RoundIsOpen ==
    ASSUME Connected, round.pc # "off"
    PROVE  open /\ enabled["in"]
BY DEF Connected, AtRest, Rounds!NoRound, RoundSound

LEMMA RestSound ==
    ASSUME AtRest
    PROVE  /\ Sound(wire, hello, enabled, round, pending, reading) /\ RoundSound
           /\ Met(wire, hello, greeted, enabled, reading)
<1>1. \A s \in Rounds!Sides : /\ wire[s] = <<>> /\ ~greeted[s] /\ ~hello[s] /\ ~enabled[s]
                              /\ Rounds!Other(s) \in Rounds!Sides
  BY OtherIs DEF AtRest
<1>2. "in" \in Rounds!Sides /\ "out" \in Rounds!Sides BY DEF Rounds!Sides
<1>3. DOMAIN <<>> = {} /\ Len(<<>>) = 0 OBVIOUS
<1>4. wire \in Wires BY DEF AtRest, Wires
<1>5. Bounded(wire) BY <1>1, <1>3, RoundNumbers DEF Bounded
<1>6. InOrder(wire, hello, enabled) BY <1>1, <1>2, <1>3 DEF InOrder, PongsFollow, RequestsFollow
<1>7. Waits(wire, round, pending) BY DEF AtRest, Rounds!NoRound, Answering, Waits
<1>8. Met(wire, hello, greeted, enabled, reading) BY <1>1, <1>2, <1>3 DEF AtRest, Met, Greets
<1>9. RoundSound BY DEF AtRest, RoundSound, Rounds!NoRound
<1> QED BY <1>4, <1>5, <1>6, <1>7, <1>8, <1>9 DEF AtRest, Sound, Carried

LEMMA RoundsInit == Rounds!Init => RoundsInv
<1> SUFFICES ASSUME Rounds!Init PROVE RoundsInv OBVIOUS
<1>1. Totals
  <2>1. 0..1 \subseteq 0..MaxHeight /\ 0 \in 0..ScoreLimit /\ 0 \in 0..MaxFaults BY RoundNumbers
  <2>2. height \in [Rounds!Sides -> 0..1] /\ score = [s \in Rounds!Sides |-> 0] /\ faults = 0 BY DEF Rounds!Init
  <2> QED BY <2>1, <2>2 DEF Totals
<1>2. /\ wire = [s \in Rounds!Sides |-> <<>>] /\ greeted = [s \in Rounds!Sides |-> FALSE]
      /\ hello = [s \in Rounds!Sides |-> FALSE] /\ enabled = [s \in Rounds!Sides |-> FALSE]
      /\ remote = Rounds!None /\ due = TRUE /\ timer = FALSE /\ reading = Rounds!None
      /\ round = Rounds!NoRound /\ pending = Rounds!NoPending /\ open = TRUE /\ reason = Rounds!Running
  BY DEF Rounds!Init, Rounds!Fresh
<1>3. DOMAIN pending = {} BY <1>2 DEF Rounds!NoPending
<1>4. AtRest BY <1>2, <1>3 DEF AtRest
<1>5. Rounds!NoRound \in RoundFields /\ Rounds!None \in Rounds!None..MaxHeight
  BY RoundNumbers DEF Rounds!NoRound, RoundFields, Rounds!None
<1>6. ConnectionTyped BY <1>2, <1>3, <1>5 DEF ConnectionTyped
<1>7. Blameless BY <1>2 DEF Blameless, Rounds!Running, Excuses
<1> QED BY <1>1, <1>2, <1>4, <1>6, <1>7, RestSound DEF RoundsInv, Connected

LEMMA ReconnectSound ==
    ASSUME RoundsInv, Rounds!Reconnect
    PROVE  RoundsInv'
<1>1. /\ ~open /\ open' = TRUE /\ reason' = Rounds!Running
      /\ UNCHANGED <<height, greeted, wire, hello, enabled, remote, due, timer, round, pending, reading, score, faults>>
  BY DEF Rounds!Reconnect
<1>2. AtRest /\ Totals /\ ConnectionTyped BY <1>1 DEF RoundsInv, Connected
<1>3. Totals' /\ ConnectionTyped' BY <1>1, <1>2 DEF Totals, ConnectionTyped
<1>4. Blameless' BY <1>1 DEF Blameless, Rounds!Running, Excuses
<1>5. /\ Sound(wire, hello, enabled, round, pending, reading) /\ RoundSound
      /\ Met(wire, hello, greeted, enabled, reading)
  BY <1>2, RestSound
<1>6. /\ Sound(wire', hello', enabled', round', pending', reading') /\ RoundSound'
      /\ Met(wire', hello', greeted', enabled', reading')
  BY <1>1, <1>5 DEF RoundSound
<1> QED BY <1>1, <1>3, <1>4, <1>6 DEF RoundsInv, Connected

LEMMA LostSound ==
    ASSUME RoundsInv, Rounds!Lost
    PROVE  RoundsInv'
<1>1. Rounds!Close("out", "lost") /\ faults < MaxFaults /\ faults' = faults + 1 /\ UNCHANGED <<height, score>>
  BY DEF Rounds!Lost
<1>2. Connected' BY <1>1, ClosesSound DEF Excuses
<1>3. Totals' BY <1>1, RoundNumbers DEF RoundsInv, Totals
<1> QED BY <1>2, <1>3 DEF RoundsInv

LEMMA ClockSound ==
    ASSUME RoundsInv, Rounds!TimerFires \/ Rounds!TimePasses
    PROVE  RoundsInv'
<1> USE DEF RoundsInv
<1>1. /\ open /\ UNCHANGED <<height, open, reason, greeted, wire, hello, enabled, remote, pending, reading, score, faults>>
      /\ timer' \in BOOLEAN /\ ConnectionTyped
  BY DEF Rounds!TimerFires, Rounds!TimePasses, Connected, ConnectionTyped
<1>2. Totals' BY <1>1 DEF Totals
<1>3. /\ round' \in RoundFields /\ due' \in BOOLEAN
      /\ round' = round \/ (enabled["in"] /\ round.pc = "off" /\ round'.pc = "start")
  BY <1>1, MaybeStarts DEF Rounds!TimerFires, Rounds!TimePasses, ConnectionTyped
<1>4. Sound(wire, hello, enabled, round, pending, reading) /\ RoundSound BY <1>1 DEF Connected
<1>5. CASE round' = round
  BY <1>1, <1>2, <1>3, <1>4, <1>5, RoundGoesOn DEF ConnectionTyped, Sound, RoundSound
<1>6. CASE enabled["in"] /\ round.pc = "off" /\ round'.pc = "start"
  <2>1. DOMAIN pending = {} BY <1>6, IdleIs DEF Answering
  <2>2. Waits(wire, round', pending') BY <2>1, <1>1, <1>6, IdleWaits DEF Answering
  <2> QED BY <2>1, <2>2, <1>1, <1>2, <1>3, <1>6, RoundGoesOn DEF ConnectionTyped
<1> QED BY <1>3, <1>5, <1>6

LEMMA BeginRoundSound ==
    ASSUME RoundsInv, Rounds!BeginRound
    PROVE  RoundsInv'
<1> USE DEF RoundsInv
<1>1. /\ round.pc = "start"
      /\ round' = [round EXCEPT !.tip = height["in"], !.target = remote,
                              !.pc = IF height["in"] = remote THEN "pool" ELSE "chain"]
      /\ UNCHANGED <<height, open, reason, greeted, wire, hello, enabled, remote, due, timer, pending, reading, score, faults>>
  BY DEF Rounds!BeginRound
<1>2. open /\ enabled["in"] /\ DOMAIN pending = {} BY <1>1, RoundIsOpen, IdleIs DEF Answering
<1>3. Totals' BY <1>1 DEF Totals
<1>4. round \in RoundFields /\ remote \in Rounds!None..MaxHeight /\ height["in"] \in 0..MaxHeight
  BY DEF Connected, ConnectionTyped, Totals, Rounds!Sides
<1>5. round' \in RoundFields /\ round'.pc \in {"pool", "chain"}
  BY <1>1, <1>4 DEF RoundFields
<1>6. Waits(wire, round', pending') BY <1>1, <1>2, <1>5, IdleWaits DEF Answering
<1> QED BY <1>1, <1>2, <1>3, <1>5, <1>6, RoundGoesOn DEF Connected, ConnectionTyped

LEMMA NextChunkSound ==
    ASSUME RoundsInv, Rounds!NextChunk
    PROVE  RoundsInv'
<1> USE DEF RoundsInv
<1>1. /\ round.pc = "again"
      /\ UNCHANGED <<height, open, reason, greeted, wire, hello, enabled, remote, due, timer, pending, reading, score, faults>>
  BY DEF Rounds!NextChunk
<1>2. open /\ enabled["in"] /\ DOMAIN pending = {} BY <1>1, RoundIsOpen, IdleIs DEF Answering
<1>3. Totals' BY <1>1 DEF Totals
<1>4. round \in RoundFields /\ height["in"] \in 0..MaxHeight
  BY DEF Connected, ConnectionTyped, Totals, Rounds!Sides
<1>5. round' \in RoundFields /\ round'.pc \in {"pool", "chain"}
  <2>1. CASE height["in"] = round.tip
    BY <2>1, <1>4 DEF Rounds!NextChunk, RoundFields
  <2>2. CASE height["in"] # round.tip
    <3>1. PICK c \in {"pool", "chain"} :
             round' = [round EXCEPT !.tip = height["in"], !.progress = TRUE, !.chunk = @ + 1, !.pc = c]
      BY <2>2 DEF Rounds!NextChunk
    <3>2. round.chunk + 1 \in Nat BY <1>4 DEF RoundFields
    <3> QED BY <3>1, <3>2, <1>4 DEF RoundFields
  <2> QED BY <2>1, <2>2
<1>6. Waits(wire, round', pending') BY <1>1, <1>2, <1>5, IdleWaits DEF Answering
<1> QED BY <1>1, <1>2, <1>3, <1>5, <1>6, RoundGoesOn DEF Connected, ConnectionTyped

LEMMA FirstNumbers ==
    ASSUME NEW n \in Nat
    PROVE  IsFiniteSet(1..n) /\ Cardinality(1..n) = n
<1>1. IsFiniteSet(1..n) /\ Cardinality(1..n) = (IF 1 > n THEN 0 ELSE n - 1 + 1) BY FS_Interval
<1>2. (IF 1 > n THEN 0 ELSE n - 1 + 1) = n OBVIOUS
<1> QED BY <1>1, <1>2

LEMMA NextIdIs ==
    ASSUME wire \in Wires, Bounded(wire), DOMAIN pending = {}, Len(wire["out"]) < QueueCap
    PROVE  /\ Rounds!NextId \in 1..(2 * QueueCap + 2)
           /\ \A s \in Rounds!Sides : \A i \in DOMAIN wire[s] : wire[s][i].id # Rounds!NextId
<1> DEFINE A == {wire["in"][i].id : i \in DOMAIN wire["in"]}
           B == {wire["out"][i].id : i \in DOMAIN wire["out"]}
           m == Len(wire["in"])
           n == Len(wire["out"])
<1>1. /\ m \in 0..QueueCap /\ n \in 0..QueueCap /\ DOMAIN wire["in"] = 1..m /\ DOMAIN wire["out"] = 1..n
      /\ QueueCap \in Nat
  BY RoundNumbers DEF Wires, Bounded, Rounds!Sides
<1>2. IsFiniteSet(1..m) /\ Cardinality(1..m) = m /\ IsFiniteSet(1..n) /\ Cardinality(1..n) = n
  BY <1>1, FirstNumbers
<1>3. IsFiniteSet(A) /\ Cardinality(A) <= m
  <2> DEFINE f == [i \in 1..m |-> wire["in"][i].id]
  <2>1. f \in Surjection(1..m, A) BY <1>1 DEF Surjection
  <2> QED BY <2>1, <1>2, FS_Surjection
<1>4. IsFiniteSet(B) /\ Cardinality(B) <= n
  <2> DEFINE f == [i \in 1..n |-> wire["out"][i].id]
  <2>1. f \in Surjection(1..n, B) BY <1>1 DEF Surjection
  <2> QED BY <2>1, <1>2, FS_Surjection
<1>5. IsFiniteSet(A \cup B) /\ Cardinality(A \cup B) <= 2 * QueueCap
  <2> HIDE DEF A, B
  <2>1. IsFiniteSet(A \cup B) /\ Cardinality(A \cup B) <= Cardinality(A) + Cardinality(B)
    <3>1. Cardinality(A \cup B) = Cardinality(A) + Cardinality(B) - Cardinality(A \cap B) /\ IsFiniteSet(A \cup B)
      BY <1>3, <1>4, FS_Union
    <3>2. Cardinality(A \cap B) \in Nat /\ Cardinality(A) \in Nat /\ Cardinality(B) \in Nat
      BY <1>3, <1>4, FS_Intersection, FS_CardinalityType
    <3> QED BY <3>1, <3>2
  <2>2. Cardinality(A) \in Nat /\ Cardinality(B) \in Nat /\ Cardinality(A \cup B) \in Nat
    BY <1>3, <1>4, <2>1, FS_CardinalityType
  <2> QED BY <1>1, <1>3, <1>4, <2>1, <2>2
<1>6. IsFiniteSet(Rounds!Ids) /\ Cardinality(Rounds!Ids) = 2 * QueueCap + 2
  <2>1. 2 * QueueCap + 2 \in Nat BY <1>1
  <2> QED BY <2>1, FirstNumbers DEF Rounds!Ids
<1>7. ~(Rounds!Ids \subseteq A \cup B)
  <2> HIDE DEF A, B
  <2>1. Cardinality(A \cup B) \in Nat BY <1>5, FS_CardinalityType
  <2> SUFFICES ASSUME Rounds!Ids \subseteq A \cup B PROVE FALSE OBVIOUS
  <2>2. Cardinality(Rounds!Ids) <= Cardinality(A \cup B) BY <1>5, FS_Subset
  <2> QED BY <2>1, <2>2, <1>1, <1>5, <1>6
<1>8. Rounds!InUse = A \cup B BY DEF Rounds!InUse
<1> HIDE DEF A, B
<1> DEFINE Free == Rounds!Ids \ (A \cup B)
<1>9. PICK x \in Free : \A y \in Free : x <= y
  <2>1. Free # {} /\ Free \in SUBSET Nat BY <1>7 DEF Rounds!Ids
  <2> QED BY <2>1, SmallestNumber
<1>10. Rounds!NextId \in Free
  <2>1. Rounds!NextId = CHOOSE y \in Free : \A z \in Free : y <= z
    BY <1>8 DEF Rounds!NextId, Rounds!Min
  <2> QED BY <1>9, <2>1
<1>11. Rounds!NextId \in Rounds!Ids /\ Rounds!NextId \notin A /\ Rounds!NextId \notin B BY <1>10
<1> QED BY <1>11 DEF Rounds!Ids, Rounds!Sides, A, B

LEMMA AskSound ==
    ASSUME RoundsInv, round.pc \in {"chain", "stage", "pool"},
           NEW pc \in Answering, NEW n \in 0..MaxHeight, NEW parts \in 0..MaxHeight, NEW capacity \in 1..(MaxHeight + 1),
           Rounds!Ask(Asked(pc), n, parts, Expected(pc), capacity, pc), UNCHANGED <<height, score, faults>>,
           pc # "blocks" => capacity = 1,
           pc = "blocks" => n = round.at /\ parts = capacity /\ n + parts <= round.to
    PROVE  RoundsInv'
<1> USE DEF RoundsInv
<1>1. Totals' BY DEF Totals
<1>2. open /\ enabled["in"] /\ DOMAIN pending = {} BY RoundIsOpen, IdleIs DEF Answering
<1>3. CASE ~Rounds!Room("out")
  <2>1. Rounds!Close("in", "queue") BY <1>3 DEF Rounds!Ask
  <2> QED BY <1>1, <2>1, ClosesSound DEF Excuses
<1>4. CASE Rounds!Room("out")
  <2> DEFINE id == Rounds!NextId
             m == Rounds!Msg(Asked(pc), id, n, parts)
             q == <<m>>
             w == More(wire, "out", q)
  <2>1. /\ Sound(wire, hello, enabled, round, pending, reading) /\ wire \in Wires /\ Bounded(wire)
        /\ round \in RoundFields /\ ConnectionTyped
        /\ Len(wire["out"]) < QueueCap
    BY <1>2, <1>4 DEF Connected, Sound, Carried, ConnectionTyped, Rounds!Room
  <2>2. id \in 1..(2 * QueueCap + 2) /\ \A s \in Rounds!Sides : \A i \in DOMAIN wire[s] : wire[s][i].id # id
    BY <1>2, <2>1, NextIdIs
  <2>3. Asked(pc) \in MessageTypes /\ Asked(pc) \in Asking /\ Expected(pc) \in {"headers", "block", "mempool"}
    BY DEF Asked, Expected, Answering, Asking, MessageTypes
  <2>4. /\ wire' = Rounds!Put(wire, "out", m)
        /\ pending' = [i \in {id} |-> [expected |-> Expected(pc), capacity |-> capacity, got |-> <<>>]]
        /\ round' = [round EXCEPT !.pc = pc, !.id = id]
        /\ UNCHANGED <<open, reason, greeted, hello, enabled, remote, due, timer, reading>>
    BY <1>4 DEF Rounds!Ask
  <2> HIDE DEF id
  <2>5. m \in Messages /\ m.type = Asked(pc) /\ m.id = id /\ m.n = n /\ m.parts = parts
    <3>1. id \in 0..(2 * QueueCap + 2) BY <2>2
    <3> QED BY <2>3, <3>1, MsgIs
  <2> HIDE DEF m
  <2>6. "out" \in Rounds!Sides /\ "in" \in Rounds!Sides BY DEF Rounds!Sides
  <2>7. wire' = w /\ q \in Seq(Messages) /\ Len(q) = 1 /\ q[1] = m BY <2>1, <2>4, <2>5, <2>6, PutIs
  <2> HIDE DEF q
  <2>8. round.to \in 0..MaxHeight /\ round.at \in 0..MaxHeight BY <2>1 DEF RoundFields
  <2>9. Fits(m)
    <3> SUFFICES ASSUME m.type = "blocks_request" PROVE m.n + m.parts <= MaxHeight BY DEF Fits
    <3>1. pc = "blocks" BY <2>5 DEF Asked, Answering
    <3> QED BY <3>1, <2>5, <2>8, RoundNumbers
  <2>10. Carried(w, hello, enabled, reading)
    <3>1. Carried(wire, hello, enabled, reading) BY <2>1 DEF Sound
    <3>2. Len(wire["out"]) + Len(q) <= QueueCap BY <2>1, <2>6, <2>7, RoundNumbers DEF Wires
    <3>3. \A i \in 1..Len(q) : q[i] = m BY <2>7
    <3> QED BY <3>1, <3>2, <3>3, <2>5, <2>6, <2>7, <2>9, <1>2, CarriedMore
  <2>11. /\ round' \in RoundFields /\ round'.pc = pc /\ round'.id = id /\ round'.at = round.at /\ round'.to = round.to
    <3>1. id \in 0..(2 * QueueCap + 2) BY <2>2
    <3> QED BY <2>1, <2>4, <3>1 DEF RoundFields, Answering
  <2>12. /\ DOMAIN pending' = {id} /\ pending'[id].expected = Expected(pc)
         /\ pending'[id].capacity = capacity /\ pending'[id].got = <<>> /\ pending'[id] \in RequestRecord
    BY <2>3, <2>4 DEF RequestRecord
  <2>13. Unserved(w, round', <<>>, capacity)
    <3>1. \A i \in DOMAIN w["in"] : w["in"][i].id # id
      <4>0. "in" \in Rounds!Sides \ {"out"} BY <2>6
      <4>1. w["in"] = wire["in"] BY <2>1, <2>6, <2>7, <4>0, MoreIs
      <4> QED BY <4>1, <2>2, <2>6
    <3> DEFINE i == Len(wire["out"]) + 1
    <3>2. /\ Len(wire["out"]) \in Nat /\ DOMAIN w["out"] = 1..(Len(wire["out"]) + 1)
          /\ \A j \in 1..Len(wire["out"]) : w["out"][j] = wire["out"][j]
          /\ \A j \in 1..Len(q) : w["out"][Len(wire["out"]) + j] = q[j]
      <4>1. Len(wire["out"]) \in Nat BY <2>1, <2>6 DEF Wires
      <4>2. /\ DOMAIN w["out"] = 1..(Len(wire["out"]) + Len(q))
            /\ \A j \in 1..Len(wire["out"]) : w["out"][j] = wire["out"][j]
            /\ \A j \in 1..Len(q) : w["out"][Len(wire["out"]) + j] = q[j]
        <5>1. wire \in Wires /\ q \in Seq(Messages) /\ "out" \in Rounds!Sides BY <2>1, <2>6, <2>7
        <5>2. DOMAIN w["out"] = 1..(Len(wire["out"]) + Len(q)) BY <5>1, MoreIs
        <5>3. \A j \in 1..Len(wire["out"]) : w["out"][j] = wire["out"][j] BY <5>1, MoreIs
        <5>4. \A j \in 1..Len(q) : w["out"][Len(wire["out"]) + j] = q[j] BY <5>1, MoreIs
        <5> QED BY <5>2, <5>3, <5>4
      <4> QED BY <4>1, <4>2, <2>7
    <3>3. i \in DOMAIN w["out"] /\ w["out"][i] = m BY <3>2, <2>7
    <3>4. \A j \in DOMAIN w["out"] : w["out"][j].id = id => j = i
      <4> SUFFICES ASSUME NEW j \in DOMAIN w["out"], j # i PROVE w["out"][j].id # id OBVIOUS
      <4>1. j \in 1..Len(wire["out"]) BY <3>2
      <4>2. j \in DOMAIN wire["out"] BY <4>1, <2>1, <2>6 DEF Wires
      <4> QED BY <4>1, <4>2, <3>2, <2>2, <2>6
    <3> HIDE DEF i, w
    <3> QED BY <3>1, <3>3, <3>4, <2>5, <2>11 DEF Unserved
  <2>14. Waits(w, round', pending')
    <3>1. round.at \in 0..round.at /\ (pc = "blocks" => round.at < round.at + capacity) BY <2>8
    <3> HIDE DEF w
    <3>2. /\ round'.pc \in Answering /\ round'.id # 0 /\ DOMAIN pending' = {round'.id}
          /\ pending'[round'.id].expected = Expected(round'.pc)
          /\ round'.pc # "blocks" => pending'[round'.id].capacity = 1
      BY <2>2, <2>11, <2>12
    <3>3. round'.at \in 0..round'.at BY <3>1, <2>11
    <3>4. round'.pc = "blocks" => /\ round'.at < round'.at + pending'[round'.id].capacity
                                  /\ round'.at + pending'[round'.id].capacity <= round'.to
      BY <3>1, <2>11, <2>12
    <3>5. Unserved(w, round', pending'[round'.id].got, pending'[round'.id].capacity)
      BY <2>11, <2>12, <2>13
    <3> QED BY <3>2, <3>3, <3>4, <3>5 DEF Waits
  <2>15. Sound(wire', hello', enabled', round', pending', reading') BY <2>4, <2>7, <2>10, <2>14 DEF Sound
  <2>16. RoundSound' BY <1>2, <2>4, <2>11 DEF RoundSound, Answering
  <2>17. ConnectionTyped' BY <2>1, <2>4, <2>11, <2>12 DEF ConnectionTyped
  <2>18. open' /\ Blameless' BY <1>2, <2>4 DEF Connected, Blameless
  <2>19. Met(w, hello, greeted, enabled, reading)
    <3>1. Met(wire, hello, greeted, enabled, reading) BY <1>2 DEF Connected
    <3>2. greeted["in"] /\ Rounds!Other("out") = "in" BY <1>2, <3>1 DEF Met, Rounds!Other
    <3>3. Asked(pc) # "hello" BY <2>3 DEF Asking
    <3> QED BY <2>1, <2>5, <2>6, <2>7, <3>1, <3>2, <3>3, MetMore
  <2>20. Met(wire', hello', greeted', enabled', reading') BY <2>4, <2>7, <2>19
  <2> QED BY <1>1, <2>15, <2>16, <2>17, <2>18, <2>20 DEF Connected
<1> QED BY <1>3, <1>4

LEMMA RoundMin ==
    ASSUME NEW a \in Int, NEW b \in Int
    PROVE  Rounds!Min({a, b}) = IF a <= b THEN a ELSE b
<1> DEFINE m == IF a <= b THEN a ELSE b
<1>1. m \in {a, b} /\ \A y \in {a, b} : m <= y
  OBVIOUS
<1>2. \A x \in {a, b} : (\A y \in {a, b} : x <= y) => x = m
  OBVIOUS
<1> HIDE DEF m
<1>3. Rounds!Min({a, b}) = m
  BY <1>1, <1>2 DEF Rounds!Min
<1> QED BY <1>3 DEF m

LEMMA RoundValues ==
    ASSUME RoundsInv
    PROVE  /\ round \in RoundFields /\ height["in"] \in 0..MaxHeight /\ height["out"] \in 0..MaxHeight
           /\ round.at \in 0..MaxHeight /\ round.to \in 0..MaxHeight
           /\ ConnectionTyped /\ Blameless
           /\ round.pc = "stage" => round.at < round.to
BY DEF RoundsInv, Totals, Connected, ConnectionTyped, Rounds!Sides, RoundFields, RoundSound, AtRest, Rounds!NoRound

LEMMA AsksSound ==
    ASSUME RoundsInv, Rounds!AskHeaders \/ Rounds!AskBlocks \/ Rounds!AskMempool
    PROVE  RoundsInv'
<1>1. 0 \in 0..MaxHeight /\ 1 \in 1..(MaxHeight + 1) BY RoundNumbers
<1>2. CASE Rounds!AskHeaders
  <2>1. /\ round.pc = "chain" /\ UNCHANGED <<height, score, faults>>
        /\ Rounds!Ask("headers_request", height["in"], 0, "headers", 1, "headers")
    BY <1>2 DEF Rounds!AskHeaders
  <2>2. Asked("headers") = "headers_request" /\ Expected("headers") = "headers" /\ "headers" \in Answering
    BY DEF Asked, Expected, Answering
  <2>3. Rounds!Ask(Asked("headers"), height["in"], 0, Expected("headers"), 1, "headers") BY <2>1, <2>2
  <2> QED BY <1>1, <2>1, <2>2, <2>3, RoundValues, AskSound
<1>3. CASE Rounds!AskBlocks
  <2> DEFINE n == Rounds!Min({Batch, round.to - round.at})
  <2>1. /\ round.pc = "stage" /\ UNCHANGED <<height, score, faults>>
        /\ Rounds!Ask("blocks_request", round.at, n, "block", n, "blocks")
    BY <1>3 DEF Rounds!AskBlocks
  <2>2. n \in 1..(round.to - round.at)
    <3>1. round.to - round.at \in Int /\ round.to - round.at >= 1 /\ Batch \in Int /\ Batch >= 1
      BY <2>1, RoundValues, RoundNumbers
    <3> QED BY <3>1, RoundMin
  <2> HIDE DEF n
  <2>3. n \in 0..MaxHeight /\ n \in 1..(MaxHeight + 1) /\ round.at + n <= round.to
    BY <2>2, RoundValues, RoundNumbers
  <2>4. Asked("blocks") = "blocks_request" /\ Expected("blocks") = "block" /\ "blocks" \in Answering
    BY DEF Asked, Expected, Answering
  <2>5. Rounds!Ask(Asked("blocks"), round.at, n, Expected("blocks"), n, "blocks") BY <2>1, <2>4
  <2> QED BY <2>1, <2>3, <2>4, <2>5, RoundValues, AskSound
<1>4. CASE Rounds!AskMempool
  <2>1. /\ round.pc = "pool" /\ UNCHANGED <<height, score, faults>>
        /\ Rounds!Ask("mempool_request", 0, 0, "mempool", 1, "mempool")
    BY <1>4 DEF Rounds!AskMempool
  <2>2. Asked("mempool") = "mempool_request" /\ Expected("mempool") = "mempool" /\ "mempool" \in Answering
    BY DEF Asked, Expected, Answering
  <2>3. Rounds!Ask(Asked("mempool"), 0, 0, Expected("mempool"), 1, "mempool") BY <2>1, <2>2
  <2> QED BY <1>1, <2>1, <2>2, <2>3, AskSound
<1> QED BY <1>2, <1>3, <1>4

\* What a round finds when its answer has come.

LEMMA AnsweredIs ==
    ASSUME RoundsInv, Rounds!Answered
    PROVE  /\ open /\ enabled["in"] /\ round.pc \in Answering /\ DOMAIN pending = {round.id}
           /\ Waits(wire, round, pending)
           /\ pending[round.id] \in RequestRecord /\ pending[round.id].got # <<>>
           /\ Rounds!Answer = pending[round.id].got[1] /\ Rounds!Answer \in Messages
<1> USE DEF RoundsInv
<1>1. DOMAIN pending # {} /\ pending[round.id].got # <<>> BY DEF Rounds!Answered
<1>2. round.pc \in Answering BY <1>1, IdleIs
<1>3. open /\ enabled["in"] BY <1>2, RoundIsOpen DEF Answering
<1>4. Waits(wire, round, pending) BY <1>3 DEF Connected, Sound
<1>5. DOMAIN pending = {round.id} BY <1>2, <1>4 DEF Waits
<1>6. pending[round.id] \in RequestRecord BY <1>5 DEF Connected, ConnectionTyped
<1>7. pending[round.id].got \in Seq(Messages) BY <1>6 DEF RequestRecord
<1>8. Rounds!Answer = pending[round.id].got[1] /\ Rounds!Answer \in Messages
  BY <1>1, <1>7 DEF Rounds!Answer
<1> QED BY <1>1, <1>2, <1>3, <1>4, <1>5, <1>6, <1>8

LEMMA BackOffSound ==
    ASSUME RoundsInv, DOMAIN pending # {}, Rounds!BackOff,
           UNCHANGED <<open, reason, greeted, wire, hello, enabled, remote, reading>>
    PROVE  Connected'
<1> USE DEF RoundsInv
<1>1. round.pc \in Answering BY IdleIs
<1>2. open /\ enabled["in"] BY <1>1, RoundIsOpen DEF Answering
<1>3. ConnectionTyped BY DEF Connected
<1>4. DOMAIN pending' = {} BY DEF Rounds!BackOff, Rounds!NoPending
<1>5. /\ round' = Rounds!NoRound \/ round' = [round EXCEPT !.pc = "pool", !.failed = TRUE, !.id = 0]
      /\ due' \in BOOLEAN /\ timer' \in BOOLEAN
  BY <1>3, Zenon DEF Rounds!BackOff, Rounds!EndRound, ConnectionTyped
<1>6. round' \in RoundFields /\ round'.pc \in {"off", "pool"}
  <2>1. Rounds!NoRound \in RoundFields /\ Rounds!NoRound.pc = "off"
    BY RoundNumbers DEF Rounds!NoRound, RoundFields, Rounds!None
  <2>2. ASSUME round' = [round EXCEPT !.pc = "pool", !.failed = TRUE, !.id = 0]
        PROVE  round' \in RoundFields /\ round'.pc = "pool"
    <3>1. 0 \in 0..(2 * QueueCap + 2) BY RoundNumbers
    <3> QED BY <1>3, <2>2, <3>1 DEF ConnectionTyped, RoundFields
  <2> QED BY <1>5, <2>1, <2>2
<1>7. Waits(wire, round', pending') BY <1>4, <1>6, IdleWaits DEF Answering
<1> QED BY <1>2, <1>3, <1>4, <1>5, <1>6, <1>7, RoundGoesOn DEF ConnectionTyped

LEMMA RefusalSound ==
    ASSUME RoundsInv, Rounds!RequestTimeout \/ Rounds!Refused
    PROVE  RoundsInv'
<1>1. DOMAIN pending # {} /\ Rounds!BackOff /\ UNCHANGED <<height, open, reason, greeted, wire, hello, enabled, remote, reading, score>>
  BY DEF Rounds!RequestTimeout, Rounds!Refused, Rounds!Answered
<1>2. Connected' BY <1>1, BackOffSound
<1>3. faults' = faults \/ (faults < MaxFaults /\ faults' = faults + 1)
  BY DEF Rounds!RequestTimeout, Rounds!Refused
<1>4. Totals' BY <1>1, <1>3, RoundNumbers DEF RoundsInv, Totals
<1> QED BY <1>2, <1>4 DEF RoundsInv

LEMMA TakeHeadersSound ==
    ASSUME RoundsInv, Rounds!TakeHeaders
    PROVE  RoundsInv'
<1> USE DEF RoundsInv
<1>1. /\ Rounds!Answered /\ DOMAIN pending' = {}
      /\ UNCHANGED <<height, open, reason, greeted, wire, hello, enabled, remote, due, timer, reading, score, faults>>
  BY DEF Rounds!TakeHeaders, Rounds!NoPending
<1>2. open /\ enabled["in"] /\ Rounds!Answer \in Messages BY <1>1, AnsweredIs
<1>3. PICK n \in 0..MaxHeight : n = Rounds!Answer.n BY <1>2 DEF Messages
<1>4. Totals' BY <1>1 DEF Totals
<1>5. round \in RoundFields /\ round.tip \in 0..MaxHeight BY RoundValues DEF RoundFields
<1>6. 0 \in 0..(2 * QueueCap + 2) BY RoundNumbers
<1>7. /\ round' \in RoundFields /\ round'.pc \in {"stage", "again"}
      /\ round'.pc = "stage" => round'.at < round'.to
  <2>1. CASE n > round.tip
    <3>1. round' = [round EXCEPT !.pc = "stage", !.at = round.tip, !.to = n, !.id = 0]
      BY <1>3, <2>1 DEF Rounds!TakeHeaders
    <3> QED BY <2>1, <3>1, <1>3, <1>5, <1>6 DEF RoundFields
  <2>2. CASE ~(n > round.tip)
    <3>1. round' = [round EXCEPT !.pc = "again", !.id = 0]
      BY <1>3, <2>2 DEF Rounds!TakeHeaders
    <3> QED BY <3>1, <1>5, <1>6 DEF RoundFields
  <2> QED BY <2>1, <2>2
<1>8. Waits(wire, round', pending') BY <1>1, <1>7, IdleWaits DEF Answering
<1> QED BY <1>1, <1>2, <1>4, <1>7, <1>8, RoundGoesOn DEF Connected, ConnectionTyped

LEMMA TakeMempoolSound ==
    ASSUME RoundsInv, Rounds!TakeMempool
    PROVE  RoundsInv'
<1> USE DEF RoundsInv
<1>1. Rounds!Answered /\ UNCHANGED <<height, score, faults>>
  BY DEF Rounds!TakeMempool
<1>2. ConnectionTyped BY DEF Connected
<1>3. Totals' BY <1>1 DEF Totals
<1>4. open /\ enabled["in"] BY <1>1, AnsweredIs
<1>5. CASE /\ pending' = Rounds!NoPending /\ Rounds!EndRound(round.failed)
           /\ UNCHANGED <<open, reason, greeted, wire, hello, enabled, remote, reading>>
  <2>1. DOMAIN pending' = {} /\ round' = Rounds!NoRound
    BY <1>5 DEF Rounds!NoPending, Rounds!EndRound
  <2>2. timer' \in BOOLEAN /\ due' \in BOOLEAN
    BY <1>2, <1>5, Zenon DEF Rounds!EndRound, ConnectionTyped
  <2>3. Rounds!NoRound \in RoundFields /\ Rounds!NoRound.pc = "off"
    BY RoundNumbers DEF Rounds!NoRound, RoundFields, Rounds!None
  <2>4. Waits(wire, round', pending') BY <2>1, <2>3, IdleWaits DEF Answering
  <2> QED BY <1>2, <1>3, <1>4, <1>5, <2>1, <2>2, <2>3, <2>4, RoundGoesOn DEF ConnectionTyped
<1>6. CASE Rounds!Close("in", "refused") BY <1>3, <1>6, ClosesSound
<1> QED BY <1>5, <1>6 DEF Rounds!TakeMempool

LEMMA NextBody ==
    ASSUME NEW w \in Wires, NEW rd \in RoundFields, NEW pd, \A i \in DOMAIN pd : pd[i] \in RequestRecord,
           Waits(w, rd, pd), rd.pc = "blocks",
           pd[rd.id].got # <<>>, pd[rd.id].got[1].type = "block"
    PROVE  /\ pd[rd.id].got[1].n = rd.at + 1 /\ rd.at + 1 <= rd.to
           /\ pd[rd.id].got[1].parts # 1 =>
                \A rd2, pd2 : /\ rd2.pc = "blocks" /\ rd2.id = rd.id /\ rd2.to = rd.to /\ rd2.at = rd.at + 1
                              /\ DOMAIN pd2 = {rd.id} /\ pd2[rd.id].expected = pd[rd.id].expected
                              /\ pd2[rd.id].capacity = pd[rd.id].capacity /\ pd2[rd.id].got = Tail(pd[rd.id].got)
                              => Waits(w, rd2, pd2)
<1> DEFINE got == pd[rd.id].got
           cap == pd[rd.id].capacity
<1>1. PICK base \in 0..rd.at :
         /\ rd.at < base + cap /\ base + cap <= rd.to
         /\ \E a, k \in 0..Len(w["in"]) : Served(w, rd, got, cap, base, a, k)
  BY DEF Waits, Unserved, Answering
<1>2. rd.id # 0 /\ DOMAIN pd = {rd.id} /\ pd[rd.id].expected = Expected(rd.pc)
  BY DEF Waits, Answering
<1>3. got \in Seq(Messages) /\ cap \in Int /\ rd.at \in Nat /\ rd.to \in Nat /\ base \in Nat
  BY <1>1, <1>2, RoundNumbers DEF RequestRecord, RoundFields
<1>4. PICK a \in 0..Len(w["in"]), k \in 0..Len(w["in"]) : Served(w, rd, got, cap, base, a, k)
  BY <1>1
<1>5. got # <<>> /\ got[1].type = "block" OBVIOUS
<1> HIDE DEF got, cap
<1>6. /\ a + k <= Len(w["in"])
      /\ rd.at - base + Len(got) + k <= cap
      /\ \A j \in 1..Len(got) : IsAnswer(got[j], rd.at - base + j, rd, base, cap)
      /\ \A j \in 1..k : IsAnswer(w["in"][a + j], rd.at - base + Len(got) + j, rd, base, cap)
      /\ \A i \in DOMAIN w["in"] : w["in"][i].id = rd.id => i \in (a + 1)..(a + k)
      /\ \A i \in DOMAIN w["out"] : w["out"][i].id # rd.id
  BY <1>4 DEF Served
<1>7. Len(got) \in Nat /\ Len(got) >= 1 /\ k \in Nat /\ Len(Tail(got)) = Len(got) - 1
  BY <1>3, <1>5 DEF Wires, Rounds!Sides
<1>8. \A j \in 1..(Len(got) - 1) : Tail(got)[j] = got[j + 1] BY <1>3, <1>5
<1> DEFINE r == rd.at - base
<1>9. r \in Int /\ r >= 0 /\ base + r = rd.at BY <1>1, <1>3
<1>10. IsAnswer(got[1], r + 1, rd, base, cap) BY <1>6, <1>7
<1>11. got[1].n = base + (r + 1) /\ got[1].parts = cap - (r + 1) + 1 BY <1>5, <1>10 DEF IsAnswer
<1>12. got[1].n = rd.at + 1 BY <1>3, <1>9, <1>11
<1>13. rd.at + 1 <= rd.to BY <1>1, <1>3
<1>14. ASSUME got[1].parts # 1, NEW rd2, NEW pd2,
              rd2.pc = "blocks", rd2.id = rd.id, rd2.to = rd.to, rd2.at = rd.at + 1,
              DOMAIN pd2 = {rd.id}, pd2[rd.id].expected = pd[rd.id].expected,
              pd2[rd.id].capacity = cap, pd2[rd.id].got = Tail(got)
       PROVE  Waits(w, rd2, pd2)
  <2> DEFINE new == Tail(got)
  <2> HIDE DEF new
  <2>1. rd.at + 1 < base + cap
    <3>1. r + 1 # cap BY <1>3, <1>9, <1>11, <1>14
    <3>2. r + 1 <= cap
      <4>1. r + Len(got) + k <= cap BY <1>6
      <4> HIDE DEF r
      <4> QED BY <4>1, <1>3, <1>7, <1>9
    <3>3. rd.at = base + r BY <1>9
    <3> HIDE DEF r
    <3> QED BY <3>1, <3>2, <3>3, <1>3, <1>9
  <2>2. \A m, q : IsAnswer(m, q, rd, base, cap) => IsAnswer(m, q, rd2, base, cap)
    BY <1>14 DEF IsAnswer
  <2>3. rd2.at - base = r + 1 BY <1>3, <1>14
  <2>4. Len(new) = Len(got) - 1 /\ \A j \in 1..Len(new) : new[j] = got[j + 1]
    BY <1>7, <1>8 DEF new
  <2> HIDE DEF r
  <2>5. ASSUME NEW j \in 1..Len(new) PROVE IsAnswer(new[j], r + 1 + j, rd2, base, cap)
    <3>1. j + 1 \in 1..Len(got) /\ r + 1 + j = r + (j + 1) BY <1>7, <1>9, <2>4
    <3>2. IsAnswer(got[j + 1], r + (j + 1), rd, base, cap) BY <3>1, <1>6 DEF r
    <3> QED BY <3>1, <3>2, <2>2, <2>4
  <2>6. ASSUME NEW j \in 1..k PROVE IsAnswer(w["in"][a + j], r + 1 + Len(new) + j, rd2, base, cap)
    <3>1. r + 1 + Len(new) + j = r + Len(got) + j BY <1>7, <1>9, <2>4
    <3>2. IsAnswer(w["in"][a + j], r + Len(got) + j, rd, base, cap) BY <1>6 DEF r
    <3> QED BY <3>1, <3>2, <2>2
  <2>7. r + 1 + Len(new) + k <= cap
    <3>1. r + 1 + Len(new) + k = r + Len(got) + k BY <1>7, <1>9, <2>4
    <3> QED BY <3>1, <1>6 DEF r
  <2>8. Served(w, rd2, new, cap, base, a, k)
    BY <1>6, <1>14, <2>3, <2>5, <2>6, <2>7 DEF Served
  <2>9. base \in 0..rd2.at BY <1>1, <1>3, <1>14
  <2>10. rd2.pc \in Answering /\ Expected(rd2.pc) = Expected(rd.pc) BY <1>14 DEF Answering
  <2> QED BY <1>1, <1>2, <1>14, <2>1, <2>8, <2>9, <2>10 DEF Waits, new
<1> QED BY <1>12, <1>13, <1>14 DEF got, cap

LEMMA TakeBlockSound ==
    ASSUME RoundsInv, Rounds!TakeBlock
    PROVE  RoundsInv'
<1> USE DEF RoundsInv
<1>1. Rounds!Answered /\ round.pc = "blocks" /\ Rounds!Answer.type = "block" /\ UNCHANGED <<height, score, faults>>
  BY DEF Rounds!TakeBlock
<1>2. Totals' BY <1>1 DEF Totals
<1>3. /\ open /\ enabled["in"] /\ DOMAIN pending = {round.id} /\ Waits(wire, round, pending)
      /\ pending[round.id] \in RequestRecord /\ pending[round.id].got # <<>>
      /\ Rounds!Answer = pending[round.id].got[1]
  BY <1>1, AnsweredIs
<1>4. wire \in Wires /\ ConnectionTyped /\ round \in RoundFields
  BY <1>3, RoundValues DEF Connected, Sound, Carried
<1>5. /\ Rounds!Answer.n = round.at + 1 /\ round.at + 1 <= round.to
      /\ Rounds!Answer.parts # 1 =>
             \A rd2, pd2 : /\ rd2.pc = "blocks" /\ rd2.id = round.id /\ rd2.to = round.to /\ rd2.at = round.at + 1
                           /\ DOMAIN pd2 = {round.id} /\ pd2[round.id].expected = pending[round.id].expected
                           /\ pd2[round.id].capacity = pending[round.id].capacity
                           /\ pd2[round.id].got = Tail(pending[round.id].got)
                           => Waits(wire, rd2, pd2)
  BY <1>1, <1>3, <1>4, NextBody DEF ConnectionTyped
<1>6. UNCHANGED <<open, reason, greeted, wire, hello, enabled, remote, due, timer, reading>>
  BY <1>5 DEF Rounds!TakeBlock
<1>7. round.at + 1 \in 0..MaxHeight /\ 0 \in 0..(2 * QueueCap + 2) /\ round.at \in Nat /\ round.to \in Nat
  BY <1>5, RoundValues, RoundNumbers
<1>8. CASE Rounds!Answer.parts = 1
  <2>1. DOMAIN pending' = {} BY <1>5, <1>8 DEF Rounds!TakeBlock, Rounds!NoPending
  <2>2. PICK pc \in {"commit", "stage"} :
           /\ round' = [round EXCEPT !.at = @ + 1, !.id = 0, !.pc = pc]
           /\ pc = "stage" => round.at + 1 # round.to
    BY <1>5, <1>8 DEF Rounds!TakeBlock
  <2>3. /\ round' \in RoundFields /\ round'.pc \in {"commit", "stage"}
        /\ round'.pc = "stage" => round'.at < round'.to
    <3>1. round' \in RoundFields /\ round'.pc = pc /\ round'.at = round.at + 1 /\ round'.to = round.to
      BY <2>2, <1>4, <1>7 DEF RoundFields
    <3>2. pc = "stage" => round.at + 1 < round.to BY <2>2, <1>5, <1>7
    <3> QED BY <3>1, <3>2
  <2>4. Waits(wire, round', pending') BY <2>1, <2>3, IdleWaits DEF Answering
  <2> QED BY <2>1, <2>3, <2>4, <1>2, <1>3, <1>4, <1>6, RoundGoesOn DEF ConnectionTyped
<1>9. CASE Rounds!Answer.parts # 1
  <2>1. /\ pending' = [pending EXCEPT ![round.id].got = Tail(@)]
        /\ round' = [round EXCEPT !.at = @ + 1]
    <3>1. round' = [round EXCEPT !.at = @ + 1, !.id = @, !.pc = @] BY <1>5, <1>9 DEF Rounds!TakeBlock
    <3>2. [round EXCEPT !.at = @ + 1, !.id = @, !.pc = @] = [round EXCEPT !.at = @ + 1]
      BY <1>4 DEF RoundFields
    <3> QED BY <3>1, <3>2, <1>5, <1>9 DEF Rounds!TakeBlock
  <2>2. /\ DOMAIN pending' = {round.id} /\ pending'[round.id].expected = pending[round.id].expected
        /\ pending'[round.id].capacity = pending[round.id].capacity
        /\ pending'[round.id].got = Tail(pending[round.id].got)
    BY <2>1, <1>3 DEF RequestRecord
  <2>3. pending'[round.id] \in RequestRecord
    <3>1. PICK got \in Seq(Messages) : got = pending[round.id].got /\ got # <<>> BY <1>3 DEF RequestRecord
    <3>2. Tail(got) \in Seq(Messages) BY <3>1
    <3>3. pending' = [pending EXCEPT ![round.id].got = Tail(got)] BY <2>1, <3>1, <1>3 DEF RequestRecord
    <3> QED BY <3>2, <3>3, <1>3 DEF RequestRecord
  <2>4. /\ round' \in RoundFields /\ round'.pc = "blocks" /\ round'.id = round.id
        /\ round'.to = round.to /\ round'.at = round.at + 1
    BY <2>1, <1>1, <1>4, <1>7 DEF RoundFields
  <2>5. Waits(wire, round', pending') BY <2>2, <2>4, <1>5, <1>9
  <2> QED BY <2>2, <2>3, <2>4, <2>5, <1>2, <1>3, <1>4, <1>6, RoundGoesOn DEF ConnectionTyped
<1> QED BY <1>8, <1>9

LEMMA CommitSound ==
    ASSUME RoundsInv, Rounds!Commit
    PROVE  RoundsInv'
<1> USE DEF RoundsInv
<1>1. round.pc = "commit" /\ UNCHANGED <<score, faults>> BY DEF Rounds!Commit
<1>2. open /\ enabled["in"] /\ DOMAIN pending = {} BY <1>1, RoundIsOpen, IdleIs DEF Answering
<1>3. round \in RoundFields /\ ConnectionTyped /\ 0 \in 0..MaxHeight BY RoundValues, RoundNumbers
<1>4. CASE round.to > height["in"]
  <2>1. /\ height' = [height EXCEPT !["in"] = round.to]
        /\ round' = [round EXCEPT !.pc = "again", !.at = 0, !.to = 0]
        /\ UNCHANGED <<open, reason, greeted, wire, hello, enabled, remote, due, timer, pending, reading>>
    BY <1>4 DEF Rounds!Commit
  <2>2. Totals' BY <1>1, <1>3, <2>1 DEF Totals, RoundFields
  <2>3. round' \in RoundFields /\ round'.pc = "again" BY <1>3, <2>1 DEF RoundFields
  <2>4. Waits(wire, round', pending') BY <1>2, <2>1, <2>3, IdleWaits DEF Answering
  <2> QED BY <1>2, <1>3, <2>1, <2>2, <2>3, <2>4, RoundGoesOn DEF ConnectionTyped
<1>5. CASE ~(round.to > height["in"])
  <2>1. Rounds!Close("in", "race") /\ UNCHANGED height BY <1>5 DEF Rounds!Commit
  <2>2. Totals' BY <1>1, <2>1 DEF Totals
  <2> QED BY <2>1, <2>2, ClosesSound
<1> QED BY <1>4, <1>5

LEMMA IdMeans ==
    ASSUME NEW w \in Wires, NEW rd \in RoundFields, NEW pd, Waits(w, rd, pd), rd.pc \in Answering
    PROVE  /\ rd.id # 0
           /\ \A i \in DOMAIN w["in"] : w["in"][i].id = rd.id => w["in"][i].type \in Rounds!Responses
           /\ \A i \in DOMAIN w["out"] : w["out"][i].id = rd.id => w["out"][i].type \in Asking
<1> DEFINE got == pd[rd.id].got
           cap == pd[rd.id].capacity
<1> HIDE DEF got, cap
<1>1. rd.id # 0 BY DEF Waits
<1>2. PICK base \in 0..rd.at : \/ base = rd.at /\ Unserved(w, rd, got, cap)
                               \/ \E a, k \in 0..Len(w["in"]) : Served(w, rd, got, cap, base, a, k)
  BY DEF Waits, got, cap
<1>3. Asked(rd.pc) \in Asking /\ Expected(rd.pc) \in Rounds!Responses /\ "error" \in Rounds!Responses
  BY DEF Asked, Expected, Asking, Answering, Rounds!Responses
<1>4. CASE Unserved(w, rd, got, cap)
  BY <1>1, <1>3, <1>4 DEF Unserved
<1>5. ASSUME NEW a \in 0..Len(w["in"]), NEW k \in 0..Len(w["in"]), Served(w, rd, got, cap, base, a, k)
      PROVE  /\ \A i \in DOMAIN w["in"] : w["in"][i].id = rd.id => w["in"][i].type \in Rounds!Responses
             /\ \A i \in DOMAIN w["out"] : w["out"][i].id # rd.id
  <2>1. /\ \A j \in 1..k : IsAnswer(w["in"][a + j], rd.at - base + Len(got) + j, rd, base, cap)
        /\ \A i \in DOMAIN w["in"] : w["in"][i].id = rd.id => i \in (a + 1)..(a + k)
        /\ \A i \in DOMAIN w["out"] : w["out"][i].id # rd.id
    BY <1>5 DEF Served
  <2>2. ASSUME NEW i \in DOMAIN w["in"], w["in"][i].id = rd.id PROVE w["in"][i].type \in Rounds!Responses
    <3>0. Len(w["in"]) \in Nat BY DEF Wires, Rounds!Sides
    <3>1. i - a \in 1..k /\ a + (i - a) = i BY <2>1, <2>2, <3>0
    <3>2. IsAnswer(w["in"][i], rd.at - base + Len(got) + (i - a), rd, base, cap) BY <3>1, <2>1
    <3> QED BY <3>2, <1>3 DEF IsAnswer
  <2> QED BY <2>1, <2>2
<1> QED BY <1>1, <1>2, <1>4, <1>5

LEMMA TotalsKept ==
    ASSUME Totals, UNCHANGED <<height, score, faults>>
    PROVE  Totals'
BY DEF Totals

\* What the reader of a side finds in front of it.

LEMMA HeadIs ==
    ASSUME RoundsInv, NEW s \in Rounds!Sides, wire[s] # <<>>
    PROVE  /\ open /\ Carried(wire, hello, enabled, reading) /\ Waits(wire, round, pending)
           /\ ConnectionTyped /\ RoundSound /\ wire \in Wires /\ Met(wire, hello, greeted, enabled, reading)
           /\ Rounds!Next1(s) = wire[s][1] /\ wire[s][1] \in Messages
           /\ Fits(wire[s][1]) /\ 1 \in DOMAIN wire[s]
           /\ wire[s][1].type \notin {"hello"} \cup Rounds!Broadcasts => hello[s]
           /\ wire[s][1].type = "hello" => ~hello[s]
<1>1. open BY DEF RoundsInv, Connected, AtRest
<1>2. /\ Carried(wire, hello, enabled, reading) /\ Waits(wire, round, pending) /\ wire \in Wires
      /\ ConnectionTyped /\ RoundSound /\ Met(wire, hello, greeted, enabled, reading)
  BY <1>1 DEF RoundsInv, Connected, Sound, Carried
<1>3. Rounds!Next1(s) = wire[s][1] /\ wire[s][1] \in Messages BY <1>2, LessIs DEF Rounds!Next1
<1>4. Fits(wire[s][1]) BY <1>2, BoundedLess DEF Carried
<1>5. 1 \in DOMAIN wire[s] BY <1>2, LessIs DEF Wires
<1>6. /\ wire[s][1].type \notin {"hello"} \cup Rounds!Broadcasts => hello[s]
      /\ wire[s][1].type = "hello" => ~hello[s]
  BY <1>2, <1>5 DEF Met, Greets
<1> QED BY <1>1, <1>2, <1>3, <1>4, <1>5, <1>6

\* A step that leaves the connection up.

LEMMA StaysConnected ==
    ASSUME RoundsInv, open, UNCHANGED <<open, reason>>, greeted' \in [Rounds!Sides -> BOOLEAN],
           hello' \in [Rounds!Sides -> BOOLEAN], enabled' \in [Rounds!Sides -> BOOLEAN],
           remote' \in Rounds!None..MaxHeight, reading' \in Rounds!None..MaxHeight,
           due' \in BOOLEAN, timer' \in BOOLEAN, round' \in RoundFields,
           \A i \in DOMAIN pending' : pending'[i] \in RequestRecord,
           Carried(wire', hello', enabled', reading'), Waits(wire', round', pending'),
           Met(wire', hello', greeted', enabled', reading'),
           round'.pc # "off" => enabled'["in"],
           round'.pc = "stage" => round'.at < round'.to
    PROVE  Connected'
<1>1. ConnectionTyped' BY DEF ConnectionTyped
<1>2. RoundSound' BY DEF RoundSound
<1>3. Sound(wire, hello, enabled, round, pending, reading)' BY DEF Sound
<1>4. open' /\ Blameless' BY DEF RoundsInv, Connected, Blameless
<1> QED BY <1>1, <1>2, <1>3, <1>4 DEF Connected

\* maybeStartReconcile leaves the round that waits alone.

LEMMA RoundMayStart ==
    ASSUME RoundsInv, open, NEW en, NEW rem, NEW d, Rounds!MaybeStart(en, rem, d),
           NEW v, Waits(v, round, pending)
    PROVE  /\ round' \in RoundFields /\ due' \in BOOLEAN /\ Waits(v, round', pending)
           /\ round'.pc # "off" => enabled["in"] \/ en
           /\ round'.pc = "stage" => round'.at < round'.to
<1>1. ConnectionTyped /\ RoundSound BY DEF RoundsInv, Connected
<1>2. /\ round' \in RoundFields /\ due' \in BOOLEAN
      /\ round' = round \/ (en /\ round.pc = "off" /\ round'.pc = "start")
  BY <1>1, MaybeStarts DEF ConnectionTyped
<1>3. CASE round' = round BY <1>1, <1>2, <1>3 DEF RoundSound
<1>4. CASE en /\ round.pc = "off" /\ round'.pc = "start"
  <2>1. DOMAIN pending = {} BY <1>4, IdleIs DEF RoundsInv, Answering
  <2> QED BY <1>2, <1>4, <2>1, IdleWaits DEF Answering
<1> QED BY <1>2, <1>3, <1>4

LEMMA OffRound ==
    ASSUME NEW w \in Wires, NEW rd \in RoundFields, NEW pd, Waits(w, rd, pd),
           NEW s \in Rounds!Sides, w[s] # <<>>, w[s][1].type \notin Rounds!Responses \cup Asking
    PROVE  rd.pc \in Answering => w[s][1].id # rd.id
<1>1. 1 \in DOMAIN w[s] BY LessIs DEF Wires
<1> QED BY <1>1, IdMeans DEF Rounds!Sides

LEMMA CarriedRead ==
    ASSUME NEW w, NEW h \in [Rounds!Sides -> BOOLEAN], NEW e \in [Rounds!Sides -> BOOLEAN],
           NEW r, Carried(w, h, e, r), NEW s \in Rounds!Sides, w[s] # <<>>, h[s],
           w[s][1].type \notin {"ping", "pong"},
           NEW x, x = IF s = "in" THEN Rounds!None ELSE r
    PROVE  Carried(Less(w, s), h, e, x)
<1>1. h = [h EXCEPT ![s] = TRUE] OBVIOUS
<1>2. Carried(w, h, e, x) BY DEF Carried
<1> QED BY <1>1, <1>2, CarriedLess

\* A message of a plain kind, appended to a wire.

LEMMA PlainPut ==
    ASSUME RoundsInv, open, NEW t \in Rounds!Sides, Len(wire[t]) < QueueCap,
           NEW m \in Messages, m.id = 0, m.type \in {"hello", "ping", "pong"} \cup Rounds!Broadcasts,
           t = "in" /\ m.type = "pong" => hello["out"]
    PROVE  Carried(More(wire, t, <<m>>), hello, enabled, reading) /\ Waits(More(wire, t, <<m>>), round, pending)
<1> DEFINE q == <<m>>
<1>1. /\ Sound(wire, hello, enabled, round, pending, reading) /\ ConnectionTyped /\ round \in RoundFields
      /\ wire \in Wires /\ Waits(wire, round, pending)
  BY DEF RoundsInv, Connected, ConnectionTyped, Sound, Carried
<1>2. q \in Seq(Messages) /\ Len(q) = 1 /\ \A i \in 1..Len(q) : q[i] = m OBVIOUS
<1>3. round.pc \in Answering => m.id # round.id BY <1>1, IdMeans
<1>4. Fits(m) /\ m.type \notin Rounds!Responses \cup Asking
  BY DEF Fits, Rounds!Responses, Asking, Rounds!Broadcasts
<1>5. Len(wire[t]) + Len(q) <= QueueCap BY <1>1, <1>2, RoundNumbers DEF Wires
<1> HIDE DEF q
<1>6. Sound(More(wire, t, q), hello, enabled, round, pending, reading)
  BY <1>1, <1>2, <1>3, <1>4, <1>5, SoundMore DEF ConnectionTyped
<1> QED BY <1>6 DEF Sound, q

LEMMA PlainMsg ==
    ASSUME NEW ty \in {"hello", "ping", "pong", "status", "gossip", "transaction"}, NEW n \in 0..MaxHeight
    PROVE  Rounds!Msg(ty, 0, n, 0) \in Messages /\ Rounds!Msg(ty, 0, n, 0).type = ty /\ Rounds!Msg(ty, 0, n, 0).id = 0
<1>1. ty \in MessageTypes /\ 0 \in 0..MaxHeight /\ 0 \in 0..(2 * QueueCap + 2) BY RoundNumbers DEF MessageTypes
<1> QED BY <1>1, MsgIs

LEMMA LastIs ==
    ASSUME NEW w \in Wires, NEW t \in Rounds!Sides, NEW m \in Messages
    PROVE  \E i \in DOMAIN More(w, t, <<m>>)[t] : More(w, t, <<m>>)[t][i] = m
<1>1. PICK q \in Seq(Messages) : q = <<m>> /\ Len(q) = 1 /\ q[1] = m
  <2>1. <<m>> \in Seq(Messages) BY PutIs
  <2>2. Len(<<m>>) = 1 /\ <<m>>[1] = m OBVIOUS
  <2> QED BY <2>1, <2>2
<1>2. Len(w[t]) \in Nat BY DEF Wires
<1>6. q \in Seq(Messages) BY <1>1
<1>3. DOMAIN More(w, t, q)[t] = 1..(Len(w[t]) + Len(q)) BY <1>6, MoreIs
<1>4. \A i \in 1..Len(q) : More(w, t, q)[t][Len(w[t]) + i] = q[i] BY <1>6, MoreIs
<1>5. Len(w[t]) + 1 \in DOMAIN More(w, t, q)[t] BY <1>1, <1>2, <1>3
<1> QED BY <1>1, <1>4, <1>5

\* A side reads what follows the hello, which leaves the greeting as it is.

LEMMA MetRead ==
    ASSUME wire \in Wires, ConnectionTyped, Met(wire, hello, greeted, enabled, reading),
           NEW s \in Rounds!Sides, wire[s] # <<>>, greeted[s], hello[s],
           NEW f, f["in"] => enabled["in"] \/ s = "in", NEW x, x = reading \/ x = Rounds!None
    PROVE  Met(Less(wire, s), hello, greeted, f, x)
<1>1. hello \in [Rounds!Sides -> BOOLEAN] /\ hello = [hello EXCEPT ![s] = TRUE] BY DEF ConnectionTyped
<1> QED BY <1>1, MetLess

\* Only a broadcast comes before the hello.

LEMMA TooEarlySound ==
    ASSUME RoundsInv, UNCHANGED <<height, score, faults>>,
           NEW s \in Rounds!Sides, wire[s] # <<>>, ~hello[s], Rounds!Next1(s).type # "hello", Rounds!TooEarly(s)
    PROVE  RoundsInv'
<1>1. Rounds!Next1(s).type \in Rounds!Broadcasts BY HeadIs
<1>2. Rounds!Close(s, "early") BY <1>1 DEF Rounds!TooEarly
<1> QED BY <1>2, TotalsKept, ClosesSound DEF RoundsInv, Excuses

\* A broadcast is read, and changes nothing.

LEMMA ConsumeSound ==
    ASSUME RoundsInv, NEW s \in Rounds!Sides, wire[s] # <<>>, greeted[s], hello[s],
           wire[s][1].type \in Rounds!Broadcasts, s = "in" => reading = Rounds!None,
           wire' = Rounds!Read(s),
           UNCHANGED <<open, reason, greeted, hello, enabled, remote, due, timer, round, pending, reading>>
    PROVE  Connected'
<1>1. /\ open /\ Carried(wire, hello, enabled, reading) /\ Waits(wire, round, pending) /\ ConnectionTyped
      /\ RoundSound /\ wire \in Wires /\ Met(wire, hello, greeted, enabled, reading)
  BY HeadIs
<1>2. /\ hello \in [Rounds!Sides -> BOOLEAN] /\ enabled \in [Rounds!Sides -> BOOLEAN] /\ round \in RoundFields
      /\ wire' = Less(wire, s)
  BY <1>1, ReadIs DEF ConnectionTyped
<1>3. wire[s][1].type \notin {"ping", "pong"} \cup Rounds!Responses \cup Asking
  BY DEF Rounds!Broadcasts, Rounds!Responses, Asking
<1>4. Carried(Less(wire, s), hello, enabled, reading) BY <1>1, <1>2, <1>3, CarriedRead
<1>5. Waits(Less(wire, s), round, pending)
  <2>1. round.pc \in Answering => wire[s][1].id # round.id BY <1>1, <1>2, <1>3, OffRound
  <2> QED BY <1>1, <1>2, <2>1, WaitsLess DEF ConnectionTyped
<1>6. Met(Less(wire, s), hello, greeted, enabled, reading) BY <1>1, MetRead
<1> QED BY <1>1, <1>2, <1>4, <1>5, <1>6, StaysConnected DEF ConnectionTyped, RoundSound

LEMMA GreetSound ==
    ASSUME RoundsInv, NEW s \in Rounds!Sides, Rounds!Greet(s)
    PROVE  RoundsInv'
<1> DEFINE t == Rounds!Other(s)
<1>0. t \in Rounds!Sides /\ t # s /\ Rounds!Other(t) = s /\ \A r \in Rounds!Sides : r = s \/ r = t BY OtherIs
<1>1. /\ open /\ ~greeted[s] /\ greeted' = [greeted EXCEPT ![s] = TRUE]
      /\ wire' = IF Rounds!Room(t) THEN Rounds!Put(wire, t, Rounds!Msg("hello", 0, height[s], 0)) ELSE wire
      /\ UNCHANGED <<height, open, reason, hello, enabled, remote, due, timer, round, pending, reading, score, faults>>
  BY DEF Rounds!Greet
<1> HIDE DEF t
<1>2. Totals' BY <1>1, TotalsKept DEF RoundsInv
<1>3. /\ Carried(wire, hello, enabled, reading) /\ Waits(wire, round, pending) /\ ConnectionTyped
      /\ RoundSound /\ wire \in Wires /\ Met(wire, hello, greeted, enabled, reading)
  BY <1>1 DEF RoundsInv, Connected, Sound, Carried
<1>4. PICK m \in Messages : m = Rounds!Msg("hello", 0, height[s], 0) /\ m.type = "hello" /\ m.id = 0
  <2>1. PICK n \in 0..MaxHeight : n = height[s] BY DEF RoundsInv, Totals
  <2> QED BY <2>1, PlainMsg
<1>5. greeted \in [Rounds!Sides -> BOOLEAN] BY <1>3 DEF ConnectionTyped
<1>6. greeted'[s] /\ (\A r \in Rounds!Sides \ {s} : greeted'[r] = greeted[r]) /\ greeted' \in [Rounds!Sides -> BOOLEAN]
  BY <1>1, <1>5
<1>7. wire[t] \in Seq(Messages) /\ Len(wire[t]) \in Nat /\ DOMAIN wire[t] = 1..Len(wire[t]) BY <1>0, <1>3 DEF Wires
<1>8. Carried(wire', hello, enabled, reading) /\ Waits(wire', round, pending) /\ wire' \in Wires
  <2>1. CASE Rounds!Room(t)
    <3>1. wire' = More(wire, t, <<m>>) BY <1>0, <1>1, <1>3, <1>4, <2>1, PutIs
    <3>2. Len(wire[t]) < QueueCap BY <2>1 DEF Rounds!Room
    <3> QED BY <1>0, <1>1, <1>4, <3>1, <3>2, PlainPut DEF Carried
  <2>2. CASE ~Rounds!Room(t) BY <1>1, <1>3, <2>2
  <2> QED BY <2>1, <2>2
<1>9. Greets(wire, hello, greeted) BY <1>3 DEF Met
<1>10. /\ wire'[t] # <<>> /\ wire'[s] = wire[s]
       /\ wire[t] # <<>> => wire'[t][1] = wire[t][1]
       /\ wire[t] = <<>> => wire'[t][1].type = "hello"
       /\ \A i \in DOMAIN wire'[t] : \/ i \in DOMAIN wire[t] /\ wire'[t][i] = wire[t][i]
                                     \/ i = Len(wire[t]) + 1
  <2>1. CASE Rounds!Room(t)
    <3>1. wire' = [wire EXCEPT ![t] = Append(wire[t], m)] BY <1>1, <1>4, <2>1 DEF Rounds!Put
    <3>2. wire'[t] = Append(wire[t], m) /\ wire'[s] = wire[s] BY <1>0, <1>3, <3>1 DEF Wires
    <3>3. PICK w \in Seq(Messages) : w = wire[t] BY <1>7
    <3>4. /\ Append(w, m) \in Seq(Messages) /\ Len(Append(w, m)) = Len(w) + 1
          /\ DOMAIN Append(w, m) = 1..(Len(w) + 1) /\ Append(w, m)[Len(w) + 1] = m
          /\ \A i \in 1..Len(w) : Append(w, m)[i] = w[i]
      OBVIOUS
    <3>5. Len(w) \in Nat /\ DOMAIN w = 1..Len(w) /\ (w # <<>> => Len(w) >= 1) /\ (w = <<>> => Len(w) = 0) OBVIOUS
    <3> DEFINE x == Append(w, m)
    <3> HIDE DEF x
    <3>6. x # <<>>
      <4>1. Len(x) >= 1 BY <3>4, <3>5 DEF x
      <4> QED BY <4>1
    <3>7. (w # <<>> => x[1] = w[1]) /\ (w = <<>> => x[1] = m) BY <3>4, <3>5 DEF x
    <3>8. \A i \in DOMAIN x : (i \in DOMAIN w /\ x[i] = w[i]) \/ i = Len(w) + 1 BY <3>4, <3>5 DEF x
    <3> QED BY <1>4, <3>2, <3>3, <3>6, <3>7, <3>8 DEF x
  <2>2. CASE ~Rounds!Room(t)
    <3>1. wire' = wire BY <1>1, <2>2
    <3>2. wire[t] # <<>> BY <1>7, <2>2, RoundNumbers DEF Rounds!Room
    <3> QED BY <3>1, <3>2
  <2> QED BY <2>1, <2>2
<1>11. \A i \in DOMAIN wire[t] : wire[t][i].type # "hello" BY <1>0, <1>1, <1>9 DEF Greets
<1>12. ~hello[t] BY <1>0, <1>1, <1>9 DEF Greets
<1>13. Greets(wire', hello, greeted')
  <2> SUFFICES ASSUME NEW r \in Rounds!Sides
               PROVE  /\ ~hello[r] /\ greeted'[Rounds!Other(r)] => wire'[r] # <<>>
                      /\ ~hello[r] /\ wire'[r] # <<>> => wire'[r][1].type \in {"hello"} \cup Rounds!Broadcasts
                      /\ hello[r] => greeted'[r] /\ greeted'[Rounds!Other(r)]
                      /\ hello[r] \/ ~greeted'[Rounds!Other(r)] => \A i \in DOMAIN wire'[r] : wire'[r][i].type # "hello"
                      /\ \A i, j \in DOMAIN wire'[r] : wire'[r][i].type = "hello" /\ wire'[r][j].type = "hello" => i = j
    BY DEF Greets
  <2>1. CASE r = t
    <3>1. wire[t] # <<>> => wire[t][1].type \in {"hello"} \cup Rounds!Broadcasts BY <1>0, <1>9, <1>12 DEF Greets
    <3>2. \A i \in DOMAIN wire'[t] : wire'[t][i].type = "hello" => i = Len(wire[t]) + 1 BY <1>10, <1>11
    <3> QED BY <1>0, <1>6, <1>10, <1>12, <2>1, <3>1, <3>2
  <2>2. CASE r = s
    <3>1. Rounds!Other(s) = t /\ greeted'[t] = greeted[t] BY <1>0, <1>6 DEF t
    <3> QED BY <1>0, <1>6, <1>9, <1>10, <2>2, <3>1 DEF Greets
  <2> QED BY <1>0, <2>1, <2>2
<1>14. Met(wire', hello, greeted', enabled, reading)
  <2>1. greeted["in"] => greeted'["in"] BY <1>6 DEF Rounds!Sides
  <2> QED BY <1>3, <1>13, <2>1 DEF Met
<1>15. Connected'
  BY <1>1, <1>3, <1>6, <1>8, <1>14, StaysConnected DEF ConnectionTyped, RoundSound
<1> QED BY <1>2, <1>15 DEF RoundsInv

LEMMA ReadHelloSound ==
    ASSUME RoundsInv, NEW s \in Rounds!Sides, Rounds!ReadHello(s)
    PROVE  RoundsInv'
<1>1. wire[s] # <<>> /\ Rounds!Next1(s).type = "hello" /\ greeted[s] /\ UNCHANGED <<height, score, faults>>
  BY DEF Rounds!ReadHello, Rounds!Reads
<1>2. Totals' BY <1>1, TotalsKept DEF RoundsInv
<1>3. /\ open /\ Carried(wire, hello, enabled, reading) /\ ConnectionTyped /\ RoundSound /\ wire \in Wires
      /\ wire[s][1].type = "hello" /\ wire[s][1] \in Messages /\ Rounds!Next1(s) = wire[s][1]
      /\ ~hello[s] /\ Met(wire, hello, greeted, enabled, reading)
  BY <1>1, HeadIs
<1>4. CASE ~Rounds!Room(Rounds!Other(s))
  <2>1. Rounds!Close(s, "queue") BY <1>3, <1>4 DEF Rounds!ReadHello
  <2> QED BY <1>2, <2>1, ClosesSound DEF RoundsInv, Excuses
<1>5. CASE Rounds!Room(Rounds!Other(s))
  <2>1. PICK m \in Messages : m = Rounds!Msg("ping", 0, 0, 0) /\ m.type = "ping" /\ m.id = 0
    <3>1. 0 \in 0..MaxHeight BY RoundNumbers
    <3> QED BY <3>1, PlainMsg
  <2>2. PICK t \in Rounds!Sides \ {s} : t = Rounds!Other(s) BY <1>1, <1>3, PutReadIs, <2>1
  <2> DEFINE u == More(wire, t, <<m>>)
  <2>3. Carried(u, hello, enabled, reading) /\ Waits(u, round, pending) /\ u[s] = wire[s]
    <3>1. Len(wire[t]) < QueueCap BY <1>5, <2>2 DEF Rounds!Room
    <3>2. u[s] = wire[s] BY <1>1, <1>3, <2>1, <2>2, PutReadIs
    <3> QED BY <3>1, <3>2, <1>3, <2>1, <2>2, PlainPut
  <2>4. s = "out" => \E i \in DOMAIN u["in"] : u["in"][i].type = "ping"
    <3> SUFFICES ASSUME s = "out" PROVE \E i \in DOMAIN u["in"] : u["in"][i].type = "ping" OBVIOUS
    <3>1. t = "in" BY <2>2 DEF Rounds!Sides
    <3>2. \E i \in DOMAIN u[t] : u[t][i] = m
      <4>1. wire \in Wires /\ t \in Rounds!Sides /\ m \in Messages BY <1>3, <2>1, <2>2
      <4> QED BY <4>1, LastIs
    <3> QED BY <3>1, <3>2, <2>1
  <2>5. /\ wire' = Less(u, s) /\ hello' = [hello EXCEPT ![s] = TRUE]
        /\ remote' = (IF s = "in" THEN wire[s][1].n ELSE remote)
        /\ UNCHANGED <<open, reason, greeted, enabled, due, timer, round, pending, reading>>
    <3>1. /\ wire' = Rounds!Put(Rounds!Read(s), Rounds!Other(s), Rounds!Msg("ping", 0, 0, 0))
          /\ hello' = [hello EXCEPT ![s] = TRUE]
          /\ remote' = (IF s = "in" THEN wire[s][1].n ELSE remote)
          /\ UNCHANGED <<open, reason, greeted, enabled, due, timer, round, pending, reading>>
      BY <1>3, <1>5 DEF Rounds!ReadHello, Rounds!Reads
    <3>2. Rounds!Put(Rounds!Read(s), Rounds!Other(s), m) = Less(u, s) BY <1>1, <1>3, <2>1, <2>2, PutReadIs
    <3> QED BY <3>1, <3>2, <2>1
  <2> HIDE DEF u
  <2>6. hello' \in [Rounds!Sides -> BOOLEAN] /\ hello \in [Rounds!Sides -> BOOLEAN] /\ enabled \in [Rounds!Sides -> BOOLEAN]
    BY <1>3, <2>5 DEF ConnectionTyped
  <2>7. s = "in" => reading = Rounds!None BY <1>3 DEF Carried
  <2>8. u[s] # <<>> /\ u[s][1].type = "hello" /\ u \in Wires BY <1>1, <1>3, <2>3 DEF Carried
  <2>9. hello'["out"] => hello["out"] \/ \E i \in DOMAIN u["in"] : u["in"][i].type = "ping"
    BY <2>4, <2>5, <1>3 DEF Rounds!Sides, ConnectionTyped
  <2>10. Carried(Less(u, s), hello', enabled, reading)
    BY <2>3, <2>5, <2>6, <2>7, <2>8, <2>9, CarriedLess
  <2>11. Waits(Less(u, s), round, pending)
    <3>1. u[s][1].type \notin Rounds!Responses \cup Asking BY <2>8 DEF Rounds!Responses, Asking
    <3>2. round \in RoundFields BY <1>3 DEF ConnectionTyped
    <3>3. round.pc \in Answering => u[s][1].id # round.id BY <2>3, <2>8, <3>1, <3>2, OffRound
    <3> QED BY <1>3, <2>3, <2>8, <3>2, <3>3, WaitsLess DEF ConnectionTyped
  <2>12. remote' \in Rounds!None..MaxHeight
    <3>1. wire[s][1].n \in Rounds!None..MaxHeight BY <1>3, RoundNumbers DEF Messages, Rounds!None
    <3> QED BY <3>1, <1>3, <2>5 DEF ConnectionTyped
  <2>14. Met(Less(u, s), hello', greeted, enabled, reading)
    <3>1. greeted[s] /\ Rounds!Other(t) = s BY <1>1, <2>2, OtherIs
    <3>2. <<m>> \in Seq(Messages) /\ \A i \in 1..Len(<<m>>) : <<m>>[i].type = "ping" BY <2>1
    <3>3. Met(u, hello, greeted, enabled, reading) BY <1>3, <2>2, <3>1, <3>2, MetMore DEF u
    <3> QED BY <1>1, <2>5, <2>6, <2>8, <3>3, MetLess
  <2>13. Connected'
    BY <1>3, <2>5, <2>6, <2>10, <2>11, <2>12, <2>14, StaysConnected DEF ConnectionTyped, RoundSound
  <2> QED BY <1>2, <2>13 DEF RoundsInv
<1> QED BY <1>4, <1>5

LEMMA ReadPingSound ==
    ASSUME RoundsInv, NEW s \in Rounds!Sides, Rounds!ReadPing(s)
    PROVE  RoundsInv'
<1>1. wire[s] # <<>> /\ Rounds!Next1(s).type = "ping" /\ greeted[s] /\ UNCHANGED <<height, score, faults>>
  BY DEF Rounds!ReadPing, Rounds!Reads
<1>2. Totals' BY <1>1, TotalsKept DEF RoundsInv
<1>3. /\ open /\ Carried(wire, hello, enabled, reading) /\ ConnectionTyped /\ RoundSound /\ wire \in Wires
      /\ wire[s][1].type = "ping" /\ hello[s] /\ Met(wire, hello, greeted, enabled, reading)
  BY <1>1, HeadIs DEF Rounds!Broadcasts
<1>4. CASE ~Rounds!Room(Rounds!Other(s))
  <2>1. Rounds!Close(s, "mute") BY <1>3, <1>4 DEF Rounds!ReadPing
  <2> QED BY <1>2, <2>1, ClosesSound DEF RoundsInv, Excuses
<1>5. CASE Rounds!Room(Rounds!Other(s))
  <2>1. PICK m \in Messages : m = Rounds!Msg("pong", 0, 0, 0) /\ m.type = "pong" /\ m.id = 0
    <3>1. 0 \in 0..MaxHeight BY RoundNumbers
    <3> QED BY <3>1, PlainMsg
  <2>2. PICK t \in Rounds!Sides \ {s} : t = Rounds!Other(s) BY <1>1, <1>3, PutReadIs, <2>1
  <2> DEFINE u == More(wire, t, <<m>>)
  <2>3. Carried(u, hello, enabled, reading) /\ Waits(u, round, pending) /\ u[s] = wire[s]
    <3>1. Len(wire[t]) < QueueCap BY <1>5, <2>2 DEF Rounds!Room
    <3>2. u[s] = wire[s] BY <1>1, <1>3, <2>1, <2>2, PutReadIs
    <3>3. t = "in" => hello["out"] BY <1>3, <2>2 DEF Rounds!Sides
    <3> QED BY <3>1, <3>2, <3>3, <1>3, <2>1, <2>2, PlainPut
  <2>4. s = "in" => PongSent(u, enabled)
    <3> SUFFICES ASSUME s = "in" PROVE \E i \in DOMAIN u["out"] : u["out"][i].type = "pong" BY DEF PongSent
    <3>1. t = "out" BY <2>2 DEF Rounds!Sides
    <3>2. \E i \in DOMAIN u[t] : u[t][i] = m
      <4>1. wire \in Wires /\ t \in Rounds!Sides /\ m \in Messages BY <1>3, <2>1, <2>2
      <4> QED BY <4>1, LastIs
    <3> QED BY <3>1, <3>2, <2>1
  <2>5. wire' = Less(u, s) /\ UNCHANGED <<open, reason, greeted, hello, enabled, remote, due, timer, round, pending, reading>>
    <3>1. /\ wire' = Rounds!Put(Rounds!Read(s), Rounds!Other(s), Rounds!Msg("pong", 0, 0, 0))
          /\ UNCHANGED <<open, reason, greeted, hello, enabled, remote, due, timer, round, pending, reading>>
      BY <1>3, <1>5 DEF Rounds!ReadPing
    <3>2. Rounds!Put(Rounds!Read(s), Rounds!Other(s), m) = Less(u, s) BY <1>1, <1>3, <2>1, <2>2, PutReadIs
    <3> QED BY <3>1, <3>2, <2>1
  <2> HIDE DEF u
  <2>6. /\ hello \in [Rounds!Sides -> BOOLEAN] /\ enabled \in [Rounds!Sides -> BOOLEAN]
        /\ hello = [hello EXCEPT ![s] = TRUE]
    BY <1>3 DEF ConnectionTyped
  <2>7. s = "in" => reading = Rounds!None BY <1>3 DEF Carried
  <2>8. u[s] # <<>> /\ u[s][1].type = "ping" /\ u \in Wires BY <1>1, <1>3, <2>3 DEF Carried
  <2>10. Carried(Less(u, s), hello, enabled, reading)
    BY <2>3, <2>4, <2>6, <2>7, <2>8, CarriedLess
  <2>11. Waits(Less(u, s), round, pending)
    <3>1. u[s][1].type \notin Rounds!Responses \cup Asking BY <2>8 DEF Rounds!Responses, Asking
    <3>2. round \in RoundFields BY <1>3 DEF ConnectionTyped
    <3>3. round.pc \in Answering => u[s][1].id # round.id BY <2>3, <2>8, <3>1, <3>2, OffRound
    <3> QED BY <1>3, <2>3, <2>8, <3>2, <3>3, WaitsLess DEF ConnectionTyped
  <2>12. Met(Less(u, s), hello, greeted, enabled, reading)
    <3>1. greeted[s] /\ Rounds!Other(t) = s BY <1>1, <2>2, OtherIs
    <3>2. <<m>> \in Seq(Messages) /\ \A i \in 1..Len(<<m>>) : <<m>>[i].type = "pong" BY <2>1
    <3>3. Met(u, hello, greeted, enabled, reading) BY <1>3, <2>2, <3>1, <3>2, MetMore DEF u
    <3> QED BY <1>1, <2>6, <2>8, <3>3, MetLess
  <2>13. Connected'
    BY <1>3, <2>5, <2>10, <2>11, <2>12, StaysConnected DEF ConnectionTyped, RoundSound
  <2> QED BY <1>2, <2>13 DEF RoundsInv
<1> QED BY <1>4, <1>5

LEMMA ReadPongSound ==
    ASSUME RoundsInv, NEW s \in Rounds!Sides, Rounds!ReadPong(s)
    PROVE  RoundsInv'
<1>1. wire[s] # <<>> /\ Rounds!Next1(s).type = "pong" /\ greeted[s] /\ UNCHANGED <<height, score, faults>>
  BY DEF Rounds!ReadPong, Rounds!Reads
<1>2. Totals' BY <1>1, TotalsKept DEF RoundsInv
<1>3. /\ open /\ Carried(wire, hello, enabled, reading) /\ Waits(wire, round, pending)
      /\ ConnectionTyped /\ RoundSound /\ wire \in Wires
      /\ wire[s][1].type = "pong" /\ hello[s] /\ Met(wire, hello, greeted, enabled, reading)
  BY <1>1, HeadIs DEF Rounds!Broadcasts
<1>4. /\ enabled' = [enabled EXCEPT ![s] = TRUE] /\ wire' = Less(wire, s)
      /\ UNCHANGED <<open, reason, greeted, hello, remote, timer, pending, reading>>
      /\ Rounds!MaybeStart(TRUE, remote, due) \/ UNCHANGED <<round, due>>
      /\ s = "in" \/ UNCHANGED <<round, due>>
  BY <1>3, ReadIs DEF Rounds!ReadPong
<1>5. /\ hello \in [Rounds!Sides -> BOOLEAN] /\ enabled \in [Rounds!Sides -> BOOLEAN]
      /\ enabled' \in [Rounds!Sides -> BOOLEAN] /\ hello = [hello EXCEPT ![s] = TRUE]
      /\ enabled["in"] => enabled'["in"] /\ enabled'[s]
      /\ s = "in" \/ enabled'["in"] = enabled["in"]
  BY <1>3, <1>4 DEF ConnectionTyped, Rounds!Sides
<1>6. s = "in" => reading = Rounds!None BY <1>3 DEF Carried
<1>7. enabled'[s] /\ (s = "in" => enabled'["in"]) BY <1>4, <1>5
<1>8. Carried(Less(wire, s), hello, enabled', reading)
  BY <1>1, <1>3, <1>4, <1>5, <1>6, <1>7, CarriedLess
<1>9. Waits(Less(wire, s), round, pending)
  <2>1. wire[s][1].type \notin Rounds!Responses \cup Asking BY <1>3 DEF Rounds!Responses, Asking
  <2>2. round \in RoundFields BY <1>3 DEF ConnectionTyped
  <2>3. round.pc \in Answering => wire[s][1].id # round.id BY <1>1, <1>3, <2>1, <2>2, OffRound
  <2> QED BY <1>1, <1>3, <2>2, <2>3, WaitsLess DEF ConnectionTyped
<1>10. /\ round' \in RoundFields /\ due' \in BOOLEAN /\ Waits(Less(wire, s), round', pending)
       /\ round'.pc # "off" => enabled'["in"]
       /\ round'.pc = "stage" => round'.at < round'.to
  <2>1. CASE UNCHANGED <<round, due>>
    <3>1. enabled["in"] => enabled'["in"] BY <1>5
    <3> QED BY <2>1, <3>1, <1>3, <1>9 DEF ConnectionTyped, RoundSound
  <2>2. CASE s = "in" /\ Rounds!MaybeStart(TRUE, remote, due)
    BY <2>2, <1>3, <1>7, <1>9, RoundMayStart
  <2> QED BY <2>1, <2>2, <1>4
<1>12. Met(Less(wire, s), hello, greeted, enabled', reading)
  <2>1. enabled'["in"] => enabled["in"] \/ s = "in" BY <1>5
  <2> QED BY <1>1, <1>3, <2>1, MetRead
<1>11. Connected'
  BY <1>3, <1>4, <1>5, <1>8, <1>10, <1>12, StaysConnected DEF ConnectionTyped
<1> QED BY <1>2, <1>11 DEF RoundsInv

LEMMA ReadStatusSound ==
    ASSUME RoundsInv, Rounds!ReadStatus
    PROVE  RoundsInv'
<1>0. "in" \in Rounds!Sides BY DEF Rounds!Sides
<1>1. wire["in"] # <<>> /\ Rounds!Next1("in").type = "status" /\ greeted["in"] /\ UNCHANGED <<height, score, faults>>
  BY DEF Rounds!ReadStatus, Rounds!Reads
<1>2. Totals' BY <1>1, TotalsKept DEF RoundsInv
<1>11. CASE ~hello["in"]
  <2>1. Rounds!TooEarly("in") BY <1>11 DEF Rounds!ReadStatus
  <2> QED BY <1>0, <1>1, <1>11, <2>1, TooEarlySound
<1> SUFFICES ASSUME hello["in"] PROVE RoundsInv' BY <1>11
<1>3. /\ open /\ Carried(wire, hello, enabled, reading) /\ Waits(wire, round, pending)
      /\ ConnectionTyped /\ RoundSound /\ wire \in Wires /\ Rounds!Next1("in") = wire["in"][1]
      /\ wire["in"][1].type = "status" /\ wire["in"][1] \in Messages
      /\ Met(wire, hello, greeted, enabled, reading)
  BY <1>0, <1>1, HeadIs
<1>4. /\ remote' = wire["in"][1].n /\ wire' = Less(wire, "in")
      /\ UNCHANGED <<open, reason, greeted, hello, enabled, timer, pending, reading>>
      /\ Rounds!MaybeStart(enabled["in"], wire["in"][1].n, due)
  BY <1>0, <1>3, ReadIs DEF Rounds!ReadStatus
<1>5. /\ hello \in [Rounds!Sides -> BOOLEAN] /\ enabled \in [Rounds!Sides -> BOOLEAN] /\ round \in RoundFields
      /\ reading = Rounds!None
  BY <1>3 DEF ConnectionTyped, Carried
<1>6. Carried(Less(wire, "in"), hello, enabled, reading) BY <1>0, <1>1, <1>3, <1>5, CarriedRead
<1>7. Waits(Less(wire, "in"), round, pending)
  <2>1. wire["in"][1].type \notin Rounds!Responses \cup Asking BY <1>3 DEF Rounds!Responses, Asking
  <2>2. round.pc \in Answering => wire["in"][1].id # round.id BY <1>0, <1>1, <1>3, <1>5, <2>1, OffRound
  <2> QED BY <1>0, <1>1, <1>3, <1>5, <2>2, WaitsLess DEF ConnectionTyped
<1>8. /\ round' \in RoundFields /\ due' \in BOOLEAN /\ Waits(Less(wire, "in"), round', pending)
      /\ round'.pc # "off" => enabled["in"]
      /\ round'.pc = "stage" => round'.at < round'.to
  BY <1>3, <1>4, <1>7, RoundMayStart
<1>9. remote' \in Rounds!None..MaxHeight
  BY <1>3, <1>4, RoundNumbers DEF Messages, Rounds!None
<1>12. Met(Less(wire, "in"), hello, greeted, enabled, reading) BY <1>0, <1>1, <1>3, MetRead
<1>10. Connected'
  BY <1>3, <1>4, <1>6, <1>8, <1>9, <1>12, StaysConnected DEF ConnectionTyped
<1> QED BY <1>2, <1>10 DEF RoundsInv

LEMMA ReadBlockSound ==
    ASSUME RoundsInv, Rounds!ReadBlock
    PROVE  RoundsInv'
<1>0. "in" \in Rounds!Sides BY DEF Rounds!Sides
<1>1. wire["in"] # <<>> /\ Rounds!Next1("in").type = "gossip" /\ UNCHANGED <<height, score, faults>>
  BY DEF Rounds!ReadBlock, Rounds!Reads
<1>2. Totals' BY <1>1, TotalsKept DEF RoundsInv
<1>8. CASE ~hello["in"]
  <2>1. Rounds!TooEarly("in") BY <1>8 DEF Rounds!ReadBlock
  <2> QED BY <1>0, <1>1, <1>8, <2>1, TooEarlySound
<1> SUFFICES ASSUME hello["in"] PROVE RoundsInv' BY <1>8
<1>3. /\ open /\ Carried(wire, hello, enabled, reading) /\ Waits(wire, round, pending)
      /\ ConnectionTyped /\ RoundSound /\ wire["in"][1].type = "gossip"
      /\ Met(wire, hello, greeted, enabled, reading)
  BY <1>0, <1>1, HeadIs
<1>4. reading' = height["in"] /\ UNCHANGED <<open, reason, greeted, wire, hello, enabled, remote, due, timer, round, pending>>
  BY <1>3 DEF Rounds!ReadBlock
<1>5. Carried(wire, hello, enabled, reading') BY <1>1, <1>3 DEF Carried
<1>6. reading' \in Rounds!None..MaxHeight
  BY <1>4, RoundValues, RoundNumbers DEF Rounds!None
<1>9. Met(wire, hello, greeted, enabled, reading') BY <1>3 DEF Met
<1>7. Connected'
  BY <1>3, <1>4, <1>5, <1>6, <1>9, StaysConnected DEF ConnectionTyped, RoundSound
<1> QED BY <1>2, <1>7 DEF RoundsInv

LEMMA ScoresTyped ==
    ASSUME Totals, NEW s \in Rounds!Sides, NEW n \in Nat, Rounds!Scores(s, n)
    PROVE  score' \in [Rounds!Sides -> 0..ScoreLimit]
<1>1. PICK x \in 0..ScoreLimit : x = score[s] BY DEF Totals
<1>2. ScoreLimit \in Nat BY RoundNumbers
<1>3. PICK y \in 0..ScoreLimit : y = Rounds!Min({x + n, ScoreLimit})
  <2>1. Rounds!Min({x + n, ScoreLimit}) \in 0..ScoreLimit BY <1>2, RoundMin
  <2> QED BY <2>1
<1>4. score' = [score EXCEPT ![s] = y] BY <1>1, <1>3 DEF Rounds!Scores
<1> QED BY <1>4 DEF Totals

LEMMA AcceptBlockSound ==
    ASSUME RoundsInv, Rounds!AcceptBlock
    PROVE  RoundsInv'
<1>0. "in" \in Rounds!Sides BY DEF Rounds!Sides
<1>1. reading # Rounds!None /\ UNCHANGED faults BY DEF Rounds!AcceptBlock
<1>2. wire["in"] # <<>> /\ wire["in"][1].type = "gossip"
  BY <1>1 DEF RoundsInv, Connected, AtRest, Sound, Carried
<1>3. /\ open /\ Carried(wire, hello, enabled, reading) /\ Waits(wire, round, pending)
      /\ ConnectionTyped /\ RoundSound /\ wire \in Wires /\ Rounds!Next1("in") = wire["in"][1]
      /\ wire["in"][1] \in Messages /\ Met(wire, hello, greeted, enabled, reading) /\ hello["in"] /\ greeted["in"]
  BY <1>0, <1>1, <1>2, HeadIs DEF Met, Greets
<1>4. PICK n \in 0..MaxHeight : n = wire["in"][1].n BY <1>3 DEF Messages
<1>5. /\ hello \in [Rounds!Sides -> BOOLEAN] /\ enabled \in [Rounds!Sides -> BOOLEAN] /\ round \in RoundFields
      /\ Rounds!None \in Rounds!None..MaxHeight
  BY <1>3, RoundNumbers DEF ConnectionTyped, Rounds!None
<1>6. Carried(Less(wire, "in"), hello, enabled, Rounds!None) BY <1>0, <1>2, <1>3, <1>5, CarriedRead
<1>7. Waits(Less(wire, "in"), round, pending)
  <2>1. wire["in"][1].type \notin Rounds!Responses \cup Asking BY <1>2 DEF Rounds!Responses, Asking
  <2>2. round.pc \in Answering => wire["in"][1].id # round.id BY <1>0, <1>2, <1>3, <1>5, <2>1, OffRound
  <2> QED BY <1>0, <1>2, <1>3, <1>5, <2>2, WaitsLess DEF ConnectionTyped
<1>8. Totals BY DEF RoundsInv
<1>11. Met(Less(wire, "in"), hello, greeted, enabled, Rounds!None) BY <1>0, <1>2, <1>3, MetRead
<1>9. CASE n = height["in"] + 1
  <2>1. /\ height' = [height EXCEPT !["in"] = n]
        /\ wire' = Less(wire, "in") /\ reading' = Rounds!None
        /\ UNCHANGED <<open, reason, greeted, hello, enabled, remote, due, timer, round, pending, score>>
    <3>1. /\ height' = [height EXCEPT !["in"] = height["in"] + 1]
          /\ wire' = Rounds!Read("in") /\ reading' = Rounds!None
          /\ UNCHANGED <<open, reason, greeted, hello, enabled, remote, due, timer, round, pending, score>>
      BY <1>3, <1>4, <1>9 DEF Rounds!AcceptBlock
    <3> QED BY <3>1, <1>0, <1>3, <1>9, ReadIs
  <2>2. Totals' BY <1>1, <1>8, <2>1 DEF Totals
  <2>3. Connected'
    BY <1>3, <1>5, <1>6, <1>7, <1>11, <2>1, StaysConnected DEF ConnectionTyped, RoundSound
  <2> QED BY <2>2, <2>3 DEF RoundsInv
<1>10. CASE n # height["in"] + 1
  <2>1. /\ UNCHANGED height
        /\ (IF n = reading + 1 THEN Rounds!Scores("in", BlockScore) ELSE UNCHANGED score)
        /\ IF n = reading + 1 /\ Rounds!AtLimit("in", BlockScore)
           THEN Rounds!Close("in", "score")
           ELSE /\ wire' = Rounds!Read("in") /\ reading' = Rounds!None
                /\ Rounds!MaybeStart(enabled["in"], remote, due)
                /\ UNCHANGED <<open, reason, greeted, hello, enabled, remote, timer, pending>>
    BY <1>3, <1>4, <1>10 DEF Rounds!AcceptBlock
  <2>3. Totals'
    <3>1. score' \in [Rounds!Sides -> 0..ScoreLimit] BY <1>0, <1>8, <2>1, RoundNumbers, ScoresTyped DEF Totals
    <3> QED BY <1>1, <1>8, <2>1, <3>1 DEF Totals
  <2>4. CASE n = reading + 1 /\ Rounds!AtLimit("in", BlockScore)
    <3>1. Rounds!Close("in", "score") BY <2>1, <2>4
    <3> QED BY <2>3, <3>1, ClosesSound DEF RoundsInv, Excuses
  <2>5. CASE ~(n = reading + 1 /\ Rounds!AtLimit("in", BlockScore))
    <3>1. /\ wire' = Less(wire, "in") /\ reading' = Rounds!None
          /\ Rounds!MaybeStart(enabled["in"], remote, due)
          /\ UNCHANGED <<open, reason, greeted, hello, enabled, remote, timer, pending>>
      BY <2>1, <2>5, <1>0, <1>3, ReadIs
    <3>2. /\ round' \in RoundFields /\ due' \in BOOLEAN /\ Waits(Less(wire, "in"), round', pending)
          /\ round'.pc # "off" => enabled["in"]
          /\ round'.pc = "stage" => round'.at < round'.to
      BY <1>3, <3>1, <1>7, RoundMayStart
    <3>3. Connected'
      BY <1>3, <1>5, <1>6, <1>11, <3>1, <3>2, StaysConnected DEF ConnectionTyped
    <3> QED BY <2>3, <3>3 DEF RoundsInv
  <2> QED BY <2>4, <2>5
<1> QED BY <1>9, <1>10

LEMMA ReadOldBlockSound ==
    ASSUME RoundsInv, Rounds!ReadOldBlock
    PROVE  RoundsInv'
<1>0. "out" \in Rounds!Sides /\ "out" # "in" BY DEF Rounds!Sides
<1>1. wire["out"] # <<>> /\ Rounds!Next1("out").type = "gossip" /\ greeted["out"] /\ UNCHANGED <<height, score, faults>>
  BY DEF Rounds!ReadOldBlock, Rounds!Reads
<1>2. CASE ~hello["out"]
  <2>1. Rounds!TooEarly("out") BY <1>2 DEF Rounds!ReadOldBlock
  <2> QED BY <1>0, <1>1, <1>2, <2>1, TooEarlySound
<1>3. CASE hello["out"]
  <2>1. /\ wire' = Rounds!Read("out")
        /\ UNCHANGED <<open, reason, greeted, hello, enabled, remote, due, timer, round, pending, reading>>
    BY <1>3 DEF Rounds!ReadOldBlock
  <2>2. wire["out"][1].type \in Rounds!Broadcasts BY <1>0, <1>1, HeadIs DEF Rounds!Broadcasts
  <2>3. Connected' BY <1>0, <1>1, <1>3, <2>1, <2>2, ConsumeSound
  <2> QED BY <1>1, <2>3, TotalsKept DEF RoundsInv
<1> QED BY <1>2, <1>3

LEMMA ReadTransactionSound ==
    ASSUME RoundsInv, NEW s \in Rounds!Sides, Rounds!ReadTransaction(s)
    PROVE  RoundsInv'
<1>1. wire[s] # <<>> /\ Rounds!Next1(s).type = "transaction" /\ greeted[s] /\ UNCHANGED <<height, faults>>
  BY DEF Rounds!ReadTransaction, Rounds!Reads
<1>2. CASE ~hello[s]
  <2>1. Rounds!TooEarly(s) /\ UNCHANGED score BY <1>2 DEF Rounds!ReadTransaction
  <2> QED BY <1>1, <1>2, <2>1, TooEarlySound
<1>3. CASE hello[s]
  <2>1. Totals'
    <3>1. UNCHANGED score \/ Rounds!Scores(s, 1) BY <1>3 DEF Rounds!ReadTransaction
    <3>2. score' \in [Rounds!Sides -> 0..ScoreLimit] BY <3>1, ScoresTyped DEF RoundsInv, Totals
    <3> QED BY <1>1, <3>2 DEF RoundsInv, Totals
  <2>2. \/ Rounds!Close(s, "score")
        \/ /\ wire' = Rounds!Read(s)
           /\ UNCHANGED <<open, reason, greeted, hello, enabled, remote, due, timer, round, pending, reading>>
    BY <1>3 DEF Rounds!ReadTransaction
  <2>3. CASE Rounds!Close(s, "score") BY <2>1, <2>3, ClosesSound DEF RoundsInv, Excuses
  <2>4. CASE /\ wire' = Rounds!Read(s)
             /\ UNCHANGED <<open, reason, greeted, hello, enabled, remote, due, timer, round, pending, reading>>
    <3>1. wire[s][1].type = "transaction" /\ Carried(wire, hello, enabled, reading) BY <1>1, HeadIs
    <3>2. wire[s][1].type \in Rounds!Broadcasts BY <3>1 DEF Rounds!Broadcasts
    <3>3. s = "in" => reading = Rounds!None BY <3>1 DEF Carried
    <3>4. Connected' BY <1>1, <1>3, <2>4, <3>2, <3>3, ConsumeSound
    <3> QED BY <2>1, <3>4 DEF RoundsInv
  <2> QED BY <2>2, <2>3, <2>4
<1> QED BY <1>2, <1>3

LEMMA ReadResponseSound ==
    ASSUME RoundsInv, Rounds!ReadResponse
    PROVE  RoundsInv'
<1> DEFINE m == wire["in"][1]
<1>0. "in" \in Rounds!Sides BY DEF Rounds!Sides
<1>1. /\ wire["in"] # <<>> /\ Rounds!Next1("in").type \in Rounds!Responses /\ greeted["in"]
      /\ UNCHANGED <<height, score, faults>>
  BY DEF Rounds!ReadResponse, Rounds!Reads
<1>2. Totals' BY <1>1, TotalsKept DEF RoundsInv
<1>3. /\ open /\ Carried(wire, hello, enabled, reading) /\ Waits(wire, round, pending)
      /\ ConnectionTyped /\ RoundSound /\ wire \in Wires /\ Rounds!Next1("in") = m
      /\ m \in Messages /\ m.type \in Rounds!Responses /\ 1 \in DOMAIN wire["in"]
      /\ m.type \notin {"hello"} \cup Rounds!Broadcasts => hello["in"]
      /\ Met(wire, hello, greeted, enabled, reading)
  BY <1>0, <1>1, HeadIs
<1>4. hello["in"] /\ enabled["in"]
  BY <1>3 DEF Rounds!Responses, Rounds!Broadcasts, Carried, InOrder, RequestsFollow
<1>5. /\ hello \in [Rounds!Sides -> BOOLEAN] /\ enabled \in [Rounds!Sides -> BOOLEAN] /\ round \in RoundFields
      /\ \A i \in DOMAIN pending : pending[i] \in RequestRecord
      /\ reading = Rounds!None
  BY <1>3 DEF ConnectionTyped, Carried, Rounds!Responses
<1>6. Carried(Less(wire, "in"), hello, enabled, reading)
  <2>1. m.type \notin {"ping", "pong"} BY <1>3 DEF Rounds!Responses
  <2> QED BY <2>1, <1>0, <1>1, <1>3, <1>4, <1>5, CarriedRead
<1>9. Met(Less(wire, "in"), hello, greeted, enabled, reading) BY <1>0, <1>1, <1>3, <1>4, MetRead
<1>7. CASE m.id \in DOMAIN pending
  <2>1. round.pc \in Answering /\ DOMAIN pending = {round.id} /\ m.id = round.id
    BY <1>3, <1>7 DEF Waits
  <2>2. /\ m.type \in {pending[round.id].expected, "error"}
        /\ Len(pending[round.id].got) < pending[round.id].capacity
        /\ \A pd2 : /\ DOMAIN pd2 = {round.id}
                    /\ pd2[round.id].expected = pending[round.id].expected
                    /\ pd2[round.id].capacity = pending[round.id].capacity
                    /\ pd2[round.id].got = Append(pending[round.id].got, m)
                    => Waits(Less(wire, "in"), round, pd2)
    BY <1>1, <1>3, <1>5, <2>1, WaitsRouted
  <2>3. Rounds!Route(m) BY <2>1, <2>2 DEF Rounds!Route
  <2>4. /\ wire' = Less(wire, "in")
        /\ pending' = [pending EXCEPT ![m.id].got = Append(@, m)]
        /\ UNCHANGED <<open, reason, greeted, hello, enabled, remote, due, timer, round, reading>>
    BY <1>0, <1>3, <1>4, <1>7, <2>3, ReadIs DEF Rounds!ReadResponse
  <2>5. /\ DOMAIN pending' = {round.id} /\ pending'[round.id].expected = pending[round.id].expected
        /\ pending'[round.id].capacity = pending[round.id].capacity
        /\ pending'[round.id].got = Append(pending[round.id].got, m)
        /\ pending'[round.id] \in RequestRecord
    <3>1. PICK got \in Seq(Messages) : got = pending[round.id].got BY <1>5, <2>1 DEF RequestRecord
    <3>2. Append(got, m) \in Seq(Messages) BY <3>1, <1>3
    <3>3. PICK new \in Seq(Messages) : new = Append(got, m) BY <3>2
    <3>4. pending[round.id] \in RequestRecord BY <1>5, <2>1
    <3>5. pending' = [pending EXCEPT ![round.id].got = new] BY <2>1, <2>4, <3>1, <3>3
    <3> QED BY <2>1, <3>1, <3>3, <3>4, <3>5 DEF RequestRecord
  <2>6. Waits(Less(wire, "in"), round, pending') BY <2>2, <2>5
  <2>7. Connected'
    BY <1>3, <1>5, <1>6, <1>9, <2>4, <2>5, <2>6, StaysConnected DEF ConnectionTyped, RoundSound
  <2> QED BY <1>2, <2>7 DEF RoundsInv
<1>8. CASE m.id \notin DOMAIN pending
  <2>1. Rounds!Route(m) BY <1>8 DEF Rounds!Route
  <2>2. wire' = Less(wire, "in") /\ UNCHANGED <<open, reason, greeted, hello, enabled, remote, due, timer, round, pending, reading>>
    BY <1>0, <1>3, <1>4, <1>8, <2>1, ReadIs DEF Rounds!ReadResponse
  <2>3. Waits(Less(wire, "in"), round, pending)
    <3>1. round.pc \in Answering => m.id # round.id BY <1>3, <1>8 DEF Waits
    <3> QED BY <3>1, <1>0, <1>1, <1>3, <1>5, WaitsLess
  <2>4. Connected'
    BY <1>3, <1>5, <1>6, <1>9, <2>2, <2>3, StaysConnected DEF ConnectionTyped, RoundSound
  <2> QED BY <1>2, <2>4 DEF RoundsInv
<1> QED BY <1>7, <1>8

LEMMA ServeSound ==
    ASSUME RoundsInv, NEW ty \in Asking, NEW q \in Seq(Messages), Rounds!Serve(ty, q),
           \A i \in 1..Len(q) : q[i].type \in Rounds!Responses /\ q[i].id = wire["out"][1].id,
           round.pc \in Answering /\ wire["out"][1].id = round.id =>
              /\ Len(q) <= pending[round.id].capacity
              /\ \A j \in 1..Len(q) : IsAnswer(q[j], j, round, round.at, pending[round.id].capacity)
    PROVE  Connected' /\ UNCHANGED <<height, score>>
<1>0. "in" \in Rounds!Sides /\ "out" \in Rounds!Sides BY DEF Rounds!Sides
<1>1. wire["out"] # <<>> /\ Rounds!Next1("out").type = ty /\ greeted["out"] /\ UNCHANGED <<height, score>>
  BY DEF Rounds!Serve, Rounds!Reads
<1>2. /\ open /\ Carried(wire, hello, enabled, reading) /\ Waits(wire, round, pending)
      /\ ConnectionTyped /\ RoundSound /\ wire \in Wires /\ 1 \in DOMAIN wire["out"]
      /\ wire["out"][1].type = ty /\ Met(wire, hello, greeted, enabled, reading)
      /\ (wire["out"][1].type \notin {"hello"} \cup Rounds!Broadcasts => hello["out"])
  BY <1>0, <1>1, HeadIs
<1>3. hello["out"] /\ enabled["out"] /\ enabled["in"]
  BY <1>2 DEF Asking, Rounds!Broadcasts, Carried, InOrder, RequestsFollow
<1>4. CASE Len(wire["in"]) + Len(q) > QueueCap
  <2>1. PICK why \in {"mute", "queue"} : Rounds!Close("out", why) BY <1>3, <1>4 DEF Rounds!Serve
  <2> QED BY <1>1, <2>1, ClosesSound DEF RoundsInv, Excuses
<1>5. CASE ~(Len(wire["in"]) + Len(q) > QueueCap)
  <2> DEFINE u == More(wire, "in", q)
  <2>1. /\ wire' = Less(u, "out")
        /\ UNCHANGED <<open, reason, greeted, hello, enabled, remote, due, timer, round, pending, reading>>
    <3>1. /\ wire' = [Rounds!Read("out") EXCEPT !["in"] = @ \o q]
          /\ UNCHANGED <<open, reason, greeted, hello, enabled, remote, due, timer, round, pending, reading>>
      BY <1>3, <1>5 DEF Rounds!Serve
    <3>2. [Rounds!Read("out") EXCEPT !["in"] = @ \o q] = Less(u, "out")
      BY <1>0, <1>2 DEF Rounds!Read, More, Less, Wires
    <3> QED BY <3>1, <3>2
  <2>2. \A i \in 1..Len(q) : Fits(q[i]) /\ q[i].type # "pong"
    BY DEF Fits, Rounds!Responses
  <2>3. Len(wire["in"]) + Len(q) <= QueueCap BY <1>0, <1>2, <1>5, RoundNumbers DEF Wires
  <2>4. Carried(u, hello, enabled, reading) /\ u \in Wires
    <3>1. Carried(u, hello, enabled, reading) BY <1>0, <1>2, <1>3, <2>2, <2>3, CarriedMore
    <3> QED BY <3>1 DEF Carried
  <2>5. u["out"] = wire["out"]
    <3>1. "out" \in Rounds!Sides \ {"in"} BY <1>0
    <3> QED BY <1>0, <1>2, <3>1, MoreIs
  <2>6. Waits(Less(u, "out"), round, pending)
    <3>1. round \in RoundFields /\ \A i \in DOMAIN pending : pending[i] \in RequestRecord
      BY <1>2 DEF ConnectionTyped
    <3>2. CASE round.pc \in Answering /\ wire["out"][1].id = round.id
      BY <1>1, <1>2, <3>1, <3>2, WaitsServed
    <3>3. CASE ~(round.pc \in Answering /\ wire["out"][1].id = round.id)
      <4>1. Waits(u, round, pending) BY <1>0, <1>2, <3>1, <3>3, WaitsMore
      <4> HIDE DEF u
      <4> QED BY <1>0, <1>1, <2>4, <2>5, <3>1, <3>3, <4>1, WaitsLess
    <3> QED BY <3>2, <3>3
  <2> HIDE DEF u
  <2>7. Carried(Less(u, "out"), hello, enabled, reading)
    <3>1. hello \in [Rounds!Sides -> BOOLEAN] /\ enabled \in [Rounds!Sides -> BOOLEAN] BY <1>2 DEF ConnectionTyped
    <3>2. u["out"][1].type \notin {"ping", "pong"} BY <1>2, <2>5 DEF Asking
    <3> QED BY <1>0, <1>1, <1>3, <2>4, <2>5, <3>1, <3>2, CarriedRead
  <2>9. Met(Less(u, "out"), hello, greeted, enabled, reading)
    <3>1. Rounds!Other("in") = "out" BY DEF Rounds!Other
    <3>2. \A i \in 1..Len(q) : q[i].type # "hello" BY DEF Rounds!Responses
    <3>3. Met(u, hello, greeted, enabled, reading) BY <1>0, <1>1, <1>2, <3>1, <3>2, MetMore DEF u
    <3>4. hello \in [Rounds!Sides -> BOOLEAN] /\ hello = [hello EXCEPT !["out"] = TRUE]
      BY <1>0, <1>2, <1>3 DEF ConnectionTyped
    <3> QED BY <1>0, <1>1, <1>3, <2>4, <2>5, <3>3, <3>4, MetLess
  <2>8. Connected'
    BY <1>2, <2>1, <2>6, <2>7, <2>9, StaysConnected DEF ConnectionTyped, RoundSound
  <2> QED BY <1>1, <2>8
<1> QED BY <1>4, <1>5

\* What the server of a request finds, and whose request it is.

LEMMA RequestIs ==
    ASSUME RoundsInv, wire["out"] # <<>>, wire["out"][1].type \in Asking
    PROVE  /\ Rounds!Next1("out") = wire["out"][1] /\ wire["out"][1] \in Messages /\ Fits(wire["out"][1])
           /\ round.pc \in Answering /\ wire["out"][1].id = round.id =>
                 /\ wire["out"][1].type = Asked(round.pc)
                 /\ pending[round.id].capacity \in 1..(MaxHeight + 1)
                 /\ round.pc = "blocks" => /\ wire["out"][1].n = round.at
                                           /\ wire["out"][1].parts = pending[round.id].capacity
<1>1. "out" \in Rounds!Sides BY DEF Rounds!Sides
<1>2. /\ Rounds!Next1("out") = wire["out"][1] /\ wire["out"][1] \in Messages /\ Fits(wire["out"][1])
      /\ ConnectionTyped /\ wire \in Wires /\ Waits(wire, round, pending)
  BY <1>1, HeadIs
<1>3. ASSUME round.pc \in Answering, wire["out"][1].id = round.id
      PROVE  /\ wire["out"][1].type = Asked(round.pc)
             /\ pending[round.id].capacity \in 1..(MaxHeight + 1)
             /\ round.pc = "blocks" => /\ wire["out"][1].n = round.at
                                       /\ wire["out"][1].parts = pending[round.id].capacity
  <2>1. /\ wire["out"][1].type = Asked(round.pc)
        /\ round.pc = "blocks" => /\ wire["out"][1].n = round.at
                                  /\ wire["out"][1].parts = pending[round.id].capacity
    BY <1>2, <1>3, WaitingFor DEF ConnectionTyped
  <2>2. pending[round.id] \in RequestRecord BY <1>2, <1>3 DEF Waits, ConnectionTyped
  <2> QED BY <2>1, <2>2 DEF RequestRecord
<1> QED BY <1>2, <1>3

\* One message answers a request: what was asked for, or an error.

LEMMA OneAnswerSound ==
    ASSUME RoundsInv, NEW ty \in Asking, NEW a \in Messages, Rounds!Serve(ty, <<a>>),
           a.type \in Rounds!Responses, a.id = wire["out"][1].id,
           \/ a.type = "error"
           \/ ty = "headers_request" /\ a.type = "headers"
           \/ ty = "mempool_request" /\ a.type = "mempool"
    PROVE  Connected' /\ UNCHANGED <<height, score>>
<1>1. PICK q \in Seq(Messages) : q = <<a>> /\ Len(q) = 1 /\ q[1] = a
  <2>1. <<a>> \in Seq(Messages) OBVIOUS
  <2>2. Len(<<a>>) = 1 /\ <<a>>[1] = a OBVIOUS
  <2> QED BY <2>1, <2>2
<1>2. wire["out"] # <<>> /\ Rounds!Next1("out").type = ty BY DEF Rounds!Serve, Rounds!Reads
<1>3. wire["out"][1].type = ty
  BY <1>2, HeadIs DEF Rounds!Sides
<1>4. ASSUME round.pc \in Answering, wire["out"][1].id = round.id
      PROVE  /\ Len(q) <= pending[round.id].capacity
             /\ \A j \in 1..Len(q) : IsAnswer(q[j], j, round, round.at, pending[round.id].capacity)
  <2>1. ty = Asked(round.pc) /\ pending[round.id].capacity \in 1..(MaxHeight + 1)
    BY <1>2, <1>3, <1>4, RequestIs
  <2>2. a.type \in {Expected(round.pc), "error"} /\ a.type # "block"
    BY <1>4, <2>1 DEF Asked, Expected, Answering
  <2>3. \A j \in 1..Len(q) : q[j] = a BY <1>1
  <2>4. Len(q) <= pending[round.id].capacity BY <1>1, <2>1, RoundNumbers
  <2> QED BY <1>4, <2>2, <2>3, <2>4 DEF IsAnswer
<1>5. \A i \in 1..Len(q) : q[i].type \in Rounds!Responses /\ q[i].id = wire["out"][1].id BY <1>1
<1>6. Rounds!Serve(ty, q) BY <1>1
<1> QED BY <1>4, <1>5, <1>6, ServeSound

\* The first k bodies of a batch, and then perhaps an error.

LEMMA BodiesSound ==
    ASSUME RoundsInv, NEW q \in Seq(Messages), Rounds!Serve("blocks_request", q),
           Len(q) <= wire["out"][1].parts,
           \A j \in 1..Len(q) :
              /\ q[j].id = wire["out"][1].id /\ q[j].type \in {"block", "error"}
              /\ q[j].type = "block" => /\ q[j].n = wire["out"][1].n + j
                                        /\ q[j].parts = wire["out"][1].parts - j + 1
    PROVE  Connected' /\ UNCHANGED <<height, score>>
<1>1. wire["out"] # <<>> /\ Rounds!Next1("out").type = "blocks_request" BY DEF Rounds!Serve, Rounds!Reads
<1>2. wire["out"][1].type = "blocks_request" /\ "blocks_request" \in Asking
  BY <1>1, HeadIs DEF Rounds!Sides, Asking
<1>3. ASSUME round.pc \in Answering, wire["out"][1].id = round.id
      PROVE  /\ Len(q) <= pending[round.id].capacity
             /\ \A j \in 1..Len(q) : IsAnswer(q[j], j, round, round.at, pending[round.id].capacity)
  <2>1. /\ "blocks_request" = Asked(round.pc)
        /\ round.pc = "blocks" => /\ wire["out"][1].n = round.at
                                  /\ wire["out"][1].parts = pending[round.id].capacity
    BY <1>1, <1>2, <1>3, RequestIs
  <2>2. round.pc = "blocks" /\ Expected(round.pc) = "block" BY <1>3, <2>1 DEF Asked, Expected, Answering
  <2> QED BY <1>3, <2>1, <2>2 DEF IsAnswer
<1>4. \A i \in 1..Len(q) : q[i].type \in Rounds!Responses BY DEF Rounds!Responses
<1> QED BY <1>2, <1>3, <1>4, ServeSound

LEMMA ServeHeadersSound ==
    ASSUME RoundsInv, Rounds!ServeHeaders
    PROVE  RoundsInv'
<1> DEFINE m == Rounds!Next1("out")
           n == Rounds!Min({Rounds!Min({m.n, height["out"]}) + Page, height["out"]})
<1>1. /\ Rounds!Serve("headers_request", <<Rounds!Msg("headers", m.id, n, 0)>>) /\ UNCHANGED faults
      /\ wire["out"] # <<>> /\ m.type = "headers_request"
  BY DEF Rounds!ServeHeaders, Rounds!Serve, Rounds!Reads
<1>2. m = wire["out"][1] /\ m \in Messages BY <1>1, HeadIs DEF Rounds!Sides
<1>3. n \in 0..MaxHeight
  <2>1. m.n \in 0..MaxHeight /\ height["out"] \in 0..MaxHeight BY <1>2, RoundValues DEF Messages
  <2>2. PICK x \in 0..MaxHeight, y \in 0..MaxHeight : x = m.n /\ y = height["out"] BY <2>1
  <2>3. Rounds!Min({x, y}) \in 0..MaxHeight BY RoundMin, RoundNumbers
  <2>4. PICK z \in 0..MaxHeight : z = Rounds!Min({x, y}) BY <2>3
  <2>5. Rounds!Min({z + Page, y}) \in 0..MaxHeight BY RoundMin, RoundNumbers
  <2> QED BY <2>2, <2>4, <2>5
<1> HIDE DEF n, m
<1>4. PICK a \in Messages : a = Rounds!Msg("headers", m.id, n, 0) /\ a.type = "headers" /\ a.id = m.id
  <2>1. m.id \in 0..(2 * QueueCap + 2) /\ 0 \in 0..MaxHeight /\ "headers" \in MessageTypes
    BY <1>2, RoundNumbers DEF Messages, MessageTypes
  <2> QED BY <1>3, <2>1, MsgIs
<1>5. Rounds!Serve("headers_request", <<a>>) /\ "headers_request" \in Asking /\ a.type \in Rounds!Responses
  BY <1>1, <1>4 DEF Asking, Rounds!Responses
<1>6. Connected' /\ UNCHANGED <<height, score>> BY <1>2, <1>4, <1>5, OneAnswerSound
<1> QED BY <1>1, <1>6, TotalsKept DEF RoundsInv

LEMMA ServeMempoolSound ==
    ASSUME RoundsInv, Rounds!ServeMempool
    PROVE  RoundsInv'
<1> DEFINE m == Rounds!Next1("out")
<1>1. /\ Rounds!Serve("mempool_request", <<Rounds!Msg("mempool", m.id, 0, 0)>>) /\ UNCHANGED faults
      /\ wire["out"] # <<>> /\ m.type = "mempool_request"
  BY DEF Rounds!ServeMempool, Rounds!Serve, Rounds!Reads
<1>2. m = wire["out"][1] /\ m \in Messages BY <1>1, HeadIs DEF Rounds!Sides
<1> HIDE DEF m
<1>4. PICK a \in Messages : a = Rounds!Msg("mempool", m.id, 0, 0) /\ a.type = "mempool" /\ a.id = m.id
  <2>1. m.id \in 0..(2 * QueueCap + 2) /\ 0 \in 0..MaxHeight /\ "mempool" \in MessageTypes
    BY <1>2, RoundNumbers DEF Messages, MessageTypes
  <2> QED BY <2>1, MsgIs
<1>5. Rounds!Serve("mempool_request", <<a>>) /\ "mempool_request" \in Asking /\ a.type \in Rounds!Responses
  BY <1>1, <1>4 DEF Asking, Rounds!Responses
<1>6. Connected' /\ UNCHANGED <<height, score>> BY <1>2, <1>4, <1>5, OneAnswerSound
<1> QED BY <1>1, <1>6, TotalsKept DEF RoundsInv

\* The part of rank j of the answer to the request m for bodies.

LEMMA BodyIs ==
    ASSUME NEW m \in Messages, Fits(m), m.type = "blocks_request", NEW j \in 1..m.parts
    PROVE  /\ Rounds!Msg("block", m.id, m.n + j, m.parts - j + 1) \in Messages
           /\ Rounds!Msg("block", m.id, m.n + j, m.parts - j + 1).type = "block"
           /\ Rounds!Msg("block", m.id, m.n + j, m.parts - j + 1).id = m.id
           /\ Rounds!Msg("block", m.id, m.n + j, m.parts - j + 1).n = m.n + j
           /\ Rounds!Msg("block", m.id, m.n + j, m.parts - j + 1).parts = m.parts - j + 1
<1>1. m.n \in 0..MaxHeight /\ m.parts \in 0..MaxHeight /\ m.n + m.parts <= MaxHeight /\ m.id \in 0..(2 * QueueCap + 2)
  BY DEF Messages, Fits
<1>2. m.n + j \in 0..MaxHeight /\ m.parts - j + 1 \in 0..MaxHeight /\ "block" \in MessageTypes
  BY <1>1, RoundNumbers DEF MessageTypes
<1>3. PICK a \in 0..MaxHeight, b \in 0..MaxHeight : a = m.n + j /\ b = m.parts - j + 1 BY <1>2
<1> QED BY <1>1, <1>2, <1>3, MsgIs

LEMMA ErrorIs ==
    ASSUME NEW m \in Messages
    PROVE  Rounds!Error(m.id) \in Messages /\ Rounds!Error(m.id).type = "error" /\ Rounds!Error(m.id).id = m.id
<1>1. m.id \in 0..(2 * QueueCap + 2) /\ 0 \in 0..MaxHeight /\ "error" \in MessageTypes
  BY RoundNumbers DEF Messages, MessageTypes
<1> QED BY <1>1, MsgIs DEF Rounds!Error

LEMMA ServeBlocksSound ==
    ASSUME RoundsInv, Rounds!ServeBlocks
    PROVE  RoundsInv'
<1> DEFINE m == Rounds!Next1("out")
           q == [k \in 1..m.parts |-> Rounds!Msg("block", m.id, m.n + k, m.parts - k + 1)]
<1>1. /\ Rounds!Serve("blocks_request", q) /\ UNCHANGED faults
      /\ wire["out"] # <<>> /\ m.type = "blocks_request"
  BY DEF Rounds!ServeBlocks, Rounds!Serve, Rounds!Reads
<1>2. m = wire["out"][1] /\ m \in Messages /\ Fits(m)
  BY <1>1, HeadIs DEF Rounds!Sides
<1>3. m.parts \in Nat BY <1>2, RoundNumbers DEF Messages
<1> HIDE DEF m
<1>4. \A j \in 1..m.parts : /\ q[j] \in Messages /\ q[j].type = "block" /\ q[j].id = m.id
                            /\ q[j].n = m.n + j /\ q[j].parts = m.parts - j + 1
  BY <1>1, <1>2, BodyIs
<1>5. q \in Seq(Messages) /\ Len(q) = m.parts
  <2>1. \A j \in 1..m.parts : Rounds!Msg("block", m.id, m.n + j, m.parts - j + 1) \in Messages
    BY <1>1, <1>2, BodyIs
  <2> QED BY <1>3, <2>1
<1> HIDE DEF q
<1>6. Connected' /\ UNCHANGED <<height, score>>
  <2>1. Len(q) <= wire["out"][1].parts BY <1>2, <1>3, <1>5
  <2>2. \A j \in 1..Len(q) :
              /\ q[j].id = wire["out"][1].id /\ q[j].type \in {"block", "error"}
              /\ q[j].type = "block" => /\ q[j].n = wire["out"][1].n + j
                                        /\ q[j].parts = wire["out"][1].parts - j + 1
    BY <1>2, <1>4, <1>5
  <2> QED BY <1>1, <1>5, <2>1, <2>2, BodiesSound
<1> QED BY <1>1, <1>6, TotalsKept DEF RoundsInv

LEMMA ServeRefusesSound ==
    ASSUME RoundsInv, Rounds!ServeRefuses
    PROVE  RoundsInv'
<1> DEFINE m == Rounds!Next1("out")
           Part(k) == [j \in 1..(k + 1) |-> IF j = k + 1 THEN Rounds!Error(m.id)
                                           ELSE Rounds!Msg("block", m.id, m.n + j, m.parts - j + 1)]
<1>1. /\ faults < MaxFaults /\ faults' = faults + 1
      /\ \/ Rounds!Serve("headers_request", <<Rounds!Error(m.id)>>)
         \/ Rounds!Serve("mempool_request", <<Rounds!Error(m.id)>>)
         \/ \E k \in 0..(Batch - 1) : k < m.parts /\ Rounds!Serve("blocks_request", Part(k))
  BY DEF Rounds!ServeRefuses
<1>2. wire["out"] # <<>> BY <1>1 DEF Rounds!Serve, Rounds!Reads
<1>3. m = wire["out"][1] /\ m \in Messages /\ Fits(m)
  BY <1>2, HeadIs DEF Rounds!Sides
<1>4. Rounds!Error(m.id) \in Messages /\ Rounds!Error(m.id).type = "error" /\ Rounds!Error(m.id).id = m.id
  BY <1>3, ErrorIs
<1>5. Connected' /\ UNCHANGED <<height, score>>
  <2>1. ASSUME NEW ty \in {"headers_request", "mempool_request"}, Rounds!Serve(ty, <<Rounds!Error(m.id)>>)
        PROVE  Connected' /\ UNCHANGED <<height, score>>
    <3>1. PICK a \in Messages : a = Rounds!Error(m.id) /\ a.type = "error" /\ a.id = m.id BY <1>4
    <3>2. Rounds!Serve(ty, <<a>>) /\ ty \in Asking /\ a.type \in Rounds!Responses
      BY <2>1, <3>1 DEF Asking, Rounds!Responses
    <3> QED BY <1>3, <3>1, <3>2, OneAnswerSound
  <2>2. ASSUME NEW k \in 0..(Batch - 1), k < m.parts, Rounds!Serve("blocks_request", Part(k))
        PROVE  Connected' /\ UNCHANGED <<height, score>>
    <3>1. m.type = "blocks_request" BY <2>2 DEF Rounds!Serve, Rounds!Reads
    <3>2. k \in Nat /\ m.parts \in Nat /\ k + 1 <= m.parts BY <1>3, <2>2, RoundNumbers DEF Messages
    <3> HIDE DEF m
    <3>3. \A j \in 1..(k + 1) : j # k + 1 =>
             /\ Rounds!Msg("block", m.id, m.n + j, m.parts - j + 1) \in Messages
             /\ Rounds!Msg("block", m.id, m.n + j, m.parts - j + 1).type = "block"
             /\ Rounds!Msg("block", m.id, m.n + j, m.parts - j + 1).id = m.id
             /\ Rounds!Msg("block", m.id, m.n + j, m.parts - j + 1).n = m.n + j
             /\ Rounds!Msg("block", m.id, m.n + j, m.parts - j + 1).parts = m.parts - j + 1
      <4> SUFFICES ASSUME NEW j \in 1..(k + 1)
                   PROVE
             /\ Rounds!Msg("block", m.id, m.n + j, m.parts - j + 1) \in Messages
             /\ Rounds!Msg("block", m.id, m.n + j, m.parts - j + 1).type = "block"
             /\ Rounds!Msg("block", m.id, m.n + j, m.parts - j + 1).id = m.id
             /\ Rounds!Msg("block", m.id, m.n + j, m.parts - j + 1).n = m.n + j
             /\ Rounds!Msg("block", m.id, m.n + j, m.parts - j + 1).parts = m.parts - j + 1
        OBVIOUS
      <4>1. j \in 1..m.parts BY <3>2
      <4> QED BY <4>1, <3>1, <1>3, BodyIs
    <3>4. \A j \in 1..(k + 1) : (IF j = k + 1 THEN Rounds!Error(m.id)
                                  ELSE Rounds!Msg("block", m.id, m.n + j, m.parts - j + 1)) \in Messages
      BY <1>4, <3>3
    <3> DEFINE Body(j) == IF j = k + 1 THEN Rounds!Error(m.id)
                           ELSE Rounds!Msg("block", m.id, m.n + j, m.parts - j + 1)
    <3>5. PICK q \in Seq(Messages) : /\ Rounds!Serve("blocks_request", q) /\ Len(q) = k + 1
                                     /\ \A j \in 1..(k + 1) : q[j] = Body(j)
      <4>1. k + 1 \in Nat BY <3>2
      <4>2. Part(k) \in Seq(Messages) /\ Len(Part(k)) = k + 1 BY <4>1, <3>4
      <4>3. \A j \in 1..(k + 1) : Part(k)[j] = Body(j) OBVIOUS
      <4> QED BY <2>2, <4>2, <4>3
    <3>6. \A j \in 1..(k + 1) : /\ q[j].id = m.id /\ q[j].type \in {"block", "error"}
                                /\ q[j].type = "block" => q[j].n = m.n + j /\ q[j].parts = m.parts - j + 1
      <4> SUFFICES ASSUME NEW j \in 1..(k + 1)
                   PROVE  /\ Body(j).id = m.id /\ Body(j).type \in {"block", "error"}
                          /\ Body(j).type = "block" => Body(j).n = m.n + j /\ Body(j).parts = m.parts - j + 1
        <5> HIDE DEF Body
        <5> QED BY <3>5
      <4>1. CASE j = k + 1
        <5>1. Body(j) = Rounds!Error(m.id) BY <4>1
        <5> HIDE DEF Body
        <5> QED BY <5>1, <1>4
      <4>2. CASE j # k + 1
        <5>1. Body(j) = Rounds!Msg("block", m.id, m.n + j, m.parts - j + 1) BY <4>2
        <5> HIDE DEF Body
        <5> QED BY <5>1, <4>2, <3>3
      <4> QED BY <4>1, <4>2
    <3> HIDE DEF Body
    <3>8. Rounds!Serve("blocks_request", q) /\ Len(q) <= wire["out"][1].parts
      BY <1>3, <3>2, <3>5
    <3>9. \A j \in 1..Len(q) :
              /\ q[j].id = wire["out"][1].id /\ q[j].type \in {"block", "error"}
              /\ q[j].type = "block" => /\ q[j].n = wire["out"][1].n + j
                                        /\ q[j].parts = wire["out"][1].parts - j + 1
      BY <1>3, <3>5, <3>6
    <3> QED BY <3>8, <3>9, BodiesSound
  <2>3. CASE Rounds!Serve("headers_request", <<Rounds!Error(m.id)>>) BY <2>1, <2>3
  <2>4. CASE Rounds!Serve("mempool_request", <<Rounds!Error(m.id)>>) BY <2>1, <2>4
  <2> QED BY <1>1, <2>2, <2>3, <2>4
<1>6. Totals' BY <1>1, <1>5, RoundNumbers DEF RoundsInv, Totals
<1> QED BY <1>5, <1>6 DEF RoundsInv

\* What is broadcast may come at any time.

LEMMA BroadcastSound ==
    ASSUME RoundsInv, Totals', NEW t \in Rounds!Sides, NEW ty \in {"gossip", "status", "transaction"},
           NEW n \in 0..MaxHeight,
           \/ open /\ Rounds!Room(t) /\ wire' = Rounds!Put(wire, t, Rounds!Msg(ty, 0, n, 0))
           \/ UNCHANGED wire,
           UNCHANGED <<open, reason, greeted, hello, enabled, remote, due, timer, round, pending, reading>>
    PROVE  RoundsInv'
<1>1. CASE UNCHANGED wire
  <2>1. Connected' BY <1>1 DEF RoundsInv, Connected, ConnectionTyped, RoundSound, Blameless, AtRest
  <2> QED BY <2>1 DEF RoundsInv
<1>2. CASE open /\ Rounds!Room(t) /\ wire' = Rounds!Put(wire, t, Rounds!Msg(ty, 0, n, 0))
  <2>1. PICK m \in Messages : m = Rounds!Msg(ty, 0, n, 0) /\ m.type = ty /\ m.id = 0
    BY PlainMsg
  <2>2. /\ wire \in Wires /\ Len(wire[t]) < QueueCap /\ ConnectionTyped /\ RoundSound
        /\ Met(wire, hello, greeted, enabled, reading)
    BY <1>2 DEF Rounds!Room, RoundsInv, Connected, Sound, Carried
  <2>3. wire' = More(wire, t, <<m>>) /\ <<m>> \in Seq(Messages) BY <1>2, <2>1, <2>2, PutIs
  <2>4. m.type \in Rounds!Broadcasts /\ m.type # "pong" /\ m.type # "hello" BY <2>1 DEF Rounds!Broadcasts
  <2>5. Carried(wire', hello, enabled, reading) /\ Waits(wire', round, pending)
    BY <1>2, <2>1, <2>2, <2>3, <2>4, PlainPut
  <2>6. Met(wire', hello, greeted, enabled, reading)
    <3>1. \A i \in 1..Len(<<m>>) : <<m>>[i] = m OBVIOUS
    <3> QED BY <2>2, <2>3, <2>4, <3>1, MetMore
  <2>7. Connected'
    BY <1>2, <2>2, <2>5, <2>6, StaysConnected DEF ConnectionTyped, RoundSound
  <2> QED BY <2>7 DEF RoundsInv
<1> QED BY <1>1, <1>2

LEMMA MineSound ==
    ASSUME RoundsInv, Rounds!Mine
    PROVE  RoundsInv'
<1>1. PICK h \in 0..MaxHeight : h = height["out"] + 1 BY RoundValues, RoundNumbers DEF Rounds!Mine
<1>2. /\ height' = [height EXCEPT !["out"] = h]
      /\ Rounds!Broadcast("out", Rounds!Msg("gossip", 0, h, 0))
      /\ UNCHANGED <<open, reason, greeted, hello, enabled, remote, due, timer, round, pending, reading, score, faults>>
  BY <1>1 DEF Rounds!Mine
<1>3. Totals' BY <1>2 DEF RoundsInv, Totals
<1>4. Rounds!Other("out") \in Rounds!Sides BY DEF Rounds!Other, Rounds!Sides
<1> QED BY <1>2, <1>3, <1>4, BroadcastSound DEF Rounds!Broadcast

LEMMA LearnElsewhereSound ==
    ASSUME RoundsInv, Rounds!LearnElsewhere
    PROVE  RoundsInv'
<1>1. PICK h \in 0..MaxHeight : h = height["in"] + 1 BY RoundValues, RoundNumbers DEF Rounds!LearnElsewhere
<1>2. /\ height' = [height EXCEPT !["in"] = h] /\ faults < MaxFaults /\ faults' = faults + 1
      /\ Rounds!Broadcast("in", Rounds!Msg("gossip", 0, h, 0)) \/ UNCHANGED wire
      /\ UNCHANGED <<open, reason, greeted, hello, enabled, remote, due, timer, round, pending, reading, score>>
  BY <1>1 DEF Rounds!LearnElsewhere
<1>3. Totals'
  <2>1. faults + 1 \in 0..MaxFaults BY <1>2, RoundNumbers DEF RoundsInv, Totals
  <2> QED BY <1>2, <2>1 DEF RoundsInv, Totals
<1>4. Rounds!Other("in") \in Rounds!Sides BY DEF Rounds!Other, Rounds!Sides
<1> QED BY <1>2, <1>3, <1>4, BroadcastSound DEF Rounds!Broadcast

LEMMA RelaySound ==
    ASSUME RoundsInv, NEW s \in Rounds!Sides, Rounds!Relay(s)
    PROVE  RoundsInv'
<1>1. /\ faults < MaxFaults /\ faults' = faults + 1 /\ UNCHANGED <<height, score>>
      /\ open /\ Rounds!Room(Rounds!Other(s))
      /\ wire' = Rounds!Put(wire, Rounds!Other(s), Rounds!Msg("transaction", 0, 0, 0))
      /\ UNCHANGED <<open, reason, greeted, hello, enabled, remote, due, timer, round, pending, reading>>
  BY DEF Rounds!Relay
<1>2. Totals'
  <2>1. faults + 1 \in 0..MaxFaults BY <1>1, RoundNumbers DEF RoundsInv, Totals
  <2> QED BY <1>1, <2>1 DEF RoundsInv, Totals
<1>3. Rounds!Other(s) \in Rounds!Sides /\ 0 \in 0..MaxHeight BY OtherIs, RoundNumbers
<1> QED BY <1>1, <1>2, <1>3, BroadcastSound

LEMMA StatusPollSound ==
    ASSUME RoundsInv, Rounds!StatusPoll
    PROVE  RoundsInv'
<1>1. PICK h \in 0..MaxHeight : h = height["out"] BY RoundValues
<1>2. /\ open /\ Rounds!Room("in") /\ wire' = Rounds!Put(wire, "in", Rounds!Msg("status", 0, h, 0))
      /\ UNCHANGED faults \/ (faults < MaxFaults /\ faults' = faults + 1)
      /\ UNCHANGED <<height, open, reason, greeted, hello, enabled, remote, due, timer, round, pending, reading, score>>
  BY <1>1 DEF Rounds!StatusPoll
<1>3. Totals'
  <2>1. faults < MaxFaults => faults + 1 \in 0..MaxFaults BY RoundNumbers DEF RoundsInv, Totals
  <2> QED BY <1>2, <2>1 DEF RoundsInv, Totals
<1>4. "in" \in Rounds!Sides BY DEF Rounds!Sides
<1> QED BY <1>2, <1>3, <1>4, BroadcastSound

LEMMA ForgetScoreSound ==
    ASSUME RoundsInv, NEW s \in Rounds!Sides, Rounds!ForgetScore(s)
    PROVE  RoundsInv'
<1>1. /\ score' = [score EXCEPT ![s] = 0]
      /\ UNCHANGED <<height, open, reason, greeted, wire, hello, enabled, remote, due, timer, round, pending, reading, faults>>
  BY DEF Rounds!ForgetScore
<1>2. Connected' BY <1>1 DEF RoundsInv, Connected, ConnectionTyped, RoundSound, Blameless, AtRest
<1>3. 0 \in 0..ScoreLimit BY RoundNumbers
<1>4. Totals' BY <1>1, <1>3 DEF RoundsInv, Totals
<1> QED BY <1>2, <1>4 DEF RoundsInv

LEMMA RoundsStep ==
    ASSUME RoundsInv, Rounds!Next
    PROVE  RoundsInv'
<1>0. "in" \in Rounds!Sides /\ "out" \in Rounds!Sides BY DEF Rounds!Sides
<1>1. CASE Rounds!Reconnect \/ Rounds!Lost BY <1>1, ReconnectSound, LostSound
<1>2. CASE Rounds!TimerFires \/ Rounds!TimePasses BY <1>2, ClockSound
<1>3. CASE Rounds!RoundStep
  BY <1>3, BeginRoundSound, AsksSound, RefusalSound, TakeHeadersSound, TakeBlockSound, CommitSound,
     NextChunkSound, TakeMempoolSound DEF Rounds!RoundStep
<1>4. CASE Rounds!RequestTimeout BY <1>4, RefusalSound
<1>5. CASE Rounds!ReadIn
  BY <1>0, <1>5, GreetSound, ReadHelloSound, ReadPingSound, ReadPongSound, ReadStatusSound, ReadBlockSound,
     AcceptBlockSound, ReadTransactionSound, ReadResponseSound DEF Rounds!ReadIn
<1>6. CASE Rounds!ReadOut
  BY <1>0, <1>6, GreetSound, ReadHelloSound, ReadPingSound, ReadPongSound, ReadOldBlockSound, ReadTransactionSound,
     ServeHeadersSound, ServeBlocksSound, ServeMempoolSound DEF Rounds!ReadOut
<1>7. CASE Rounds!ServeRefuses BY <1>7, ServeRefusesSound
<1>8. CASE Rounds!Mine \/ Rounds!LearnElsewhere \/ Rounds!StatusPoll
  BY <1>8, MineSound, LearnElsewhereSound, StatusPollSound
<1>9. CASE \E s \in Rounds!Sides : Rounds!Relay(s) \/ Rounds!ForgetScore(s)
  BY <1>9, RelaySound, ForgetScoreSound
<1> QED BY <1>1, <1>2, <1>3, <1>4, <1>5, <1>6, <1>7, <1>8, <1>9 DEF Rounds!Next

LEMMA RoundsInvHolds == NetworkSpec => [](part = "rounds" => RoundsInv)
<1>1. NetworkInit => (part = "rounds" => RoundsInv)
  BY RoundsInit DEF NetworkInit
<1>2. (part = "rounds" => RoundsInv) /\ [NetworkNext]_networkVars => (part = "rounds" => RoundsInv)'
  <2> SUFFICES ASSUME part = "rounds" => RoundsInv, [NetworkNext]_networkVars, part' = "rounds"
               PROVE  RoundsInv'
    OBVIOUS
  <2>1. CASE UNCHANGED networkVars
    <3>1. RoundsInv /\ UNCHANGED roundVars BY <2>1 DEF networkVars
    <3> QED BY <3>1 DEF roundVars, RoundsInv, Totals, Connected, ConnectionTyped, RoundSound, Blameless, AtRest
  <2>2. CASE NetworkNext
    <3>1. RoundsInv /\ Rounds!Next BY <2>2 DEF NetworkNext, Moves
    <3> QED BY <3>1, RoundsStep
  <2> QED BY <2>1, <2>2
<1> QED BY <1>1, <1>2, PTL DEF NetworkSpec

\* Two honest nodes always understand each other, whatever timed out, was refused or was lost
\* before: no probe, request or answer of one is an offence to the other, and a request is
\* registered exactly while the one round waits for it.  The side that dialled charges its peer
\* for three things only: a broadcast that overtook the hello, too many refused transactions,
\* and answers of its own that found no room (websocket.go:491, :803, :1001, :1120).
THEOREM HonestUnderstood == NetworkSpec => []HonestPeersUnderstood
<1>1. (part = "rounds" => RoundsInv) => HonestPeersUnderstood
  <2> SUFFICES ASSUME part = "rounds", RoundsInv
               PROVE  Rounds!HonestPeersUnderstood /\ Rounds!OneRequestAtATime
    BY DEF HonestPeersUnderstood
  <2>1. Rounds!HonestPeersUnderstood
    BY DEF Rounds!HonestPeersUnderstood, Rounds!Charged, RoundsInv, Connected, Blameless, Excuses
  <2>2. Rounds!OneRequestAtATime
    <3>1. CASE open
      <4>1. Waits(wire, round, pending) BY <3>1 DEF RoundsInv, Connected, Sound
      <4> QED BY <4>1 DEF Waits, Answering, Rounds!OneRequestAtATime
    <3>2. CASE ~open
      <4>1. round.pc = "off" /\ DOMAIN pending = {} BY <3>2 DEF RoundsInv, Connected, AtRest, Rounds!NoRound
      <4> QED BY <4>1 DEF Rounds!OneRequestAtATime
    <3> QED BY <3>1, <3>2
  <2> QED BY <2>1, <2>2
<1> QED BY <1>1, RoundsInvHolds, PTL

LEMMA RoundsTyped ==
    ASSUME RoundsInv
    PROVE  Rounds!TypeOK
<1>1. ConnectionTyped /\ Totals /\ QueueCap \in Nat BY RoundNumbers DEF RoundsInv, Connected
<1>2. \A s \in Rounds!Sides : Len(wire[s]) <= QueueCap
  <2>1. CASE open BY <2>1 DEF RoundsInv, Connected, Sound, Carried, Bounded
  <2>2. CASE ~open
    <3>1. \A s \in Rounds!Sides : wire[s] = <<>> BY <2>2 DEF RoundsInv, Connected, AtRest
    <3> QED BY <3>1, <1>1
  <2> QED BY <2>1, <2>2
<1>3. DOMAIN pending \subseteq Rounds!Ids
  <2>1. CASE open
    <3>1. Waits(wire, round, pending) BY <2>1 DEF RoundsInv, Connected, Sound
    <3>2. round.id \in 0..(2 * QueueCap + 2) BY <1>1 DEF ConnectionTyped, RoundFields
    <3>3. DOMAIN pending = {} \/ (DOMAIN pending = {round.id} /\ round.id # 0) BY <3>1 DEF Waits
    <3>4. round.id # 0 => round.id \in 1..(2 * QueueCap + 2) BY <1>1, <3>2
    <3> QED BY <3>3, <3>4 DEF Rounds!Ids
  <2>2. CASE ~open BY <2>2 DEF RoundsInv, Connected, AtRest
  <2> QED BY <2>1, <2>2
<1> QED BY <1>1, <1>2, <1>3 DEF Rounds!TypeOK, Totals, ConnectionTyped, RoundFields

-----------------------------------------------------------------------------
(* Types.                                                                  *)

LEMMA SyncIsPart == NetworkSpec => Spec
<1>1. NetworkInit => Init
  BY DEF NetworkInit
<1>2. [NetworkNext]_networkVars => [Next]_vars
  <2> SUFFICES ASSUME [NetworkNext]_networkVars PROVE [Next]_vars
    OBVIOUS
  <2>1. CASE UNCHANGED networkVars BY <2>1 DEF networkVars, syncVars, vars
  <2>2. CASE NetworkNext BY <2>2 DEF NetworkNext, syncVars, vars
  <2> QED BY <2>1, <2>2
<1> QED BY <1>1, <1>2, PTL DEF NetworkSpec, Spec

\* Every part holds values of its types: wires, queues, tables and counters stay within
\* their limits (websocket.go:60, peers.go:41, http_protocol.go:60).
THEOREM NetworkTypesHold == NetworkSpec => []NetworkTypeOK
<1>1. NetworkSpec => []TypeOK
  BY SyncIsPart, OneSyncAtATime, NetworkAssumption
<1>2. /\ TypeOK
      /\ part = "rounds" => RoundsInv
      /\ part = "queue" => QueueInv
      /\ part = "peers" => PeersInv
      /\ part = "limits" => LimitsInv
      => NetworkTypeOK
  BY RoundsTyped, PeersPromise, LimitsPromise DEF NetworkTypeOK, QueueInv
<1> QED BY <1>1, <1>2, RoundsInvHolds, QueueInvHolds, PeersInvHolds, LimitsInvHolds, PTL
=============================================================================
