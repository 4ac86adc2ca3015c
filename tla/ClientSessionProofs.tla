------------------------ MODULE ClientSessionProofs ------------------------
(***************************************************************************)
(* Theorems about ClientSession, for any number of links, goroutines and   *)
(* identities, and without a bound on deletions, payments and crashes.     *)
(*                                                                         *)
(* A goroutine acts on the copy of the row it read.  While its copy is     *)
(* fresh the row is at the stage the goroutine believes (ThreadOk); when   *)
(* it is not, all it can still do is to give the node a transaction that   *)
(* was journaled before.  That such a transaction is the only one of its   *)
(* link rests on the journal, which is written once in a row, and on the   *)
(* nonce, which only one row of a link has in common with the merchant     *)
(* (PairOk, Agreed).                                                       *)
(***************************************************************************)
EXTENDS ClientSession, FiniteSetTheorems, TLAPS

RowType ==
    [stage : Stages \cup {"none"}, retry : Stages \cup {"none"},
     error : {"none", "unsent", "sent", "delivery_invalid"},
     secret : {"none", "handoff", "claim", "erased"}, nonce : Nat,
     key : Keys \cup {NoKey}, trust : {"none", "first", "previous", "changed"},
     tx : Nat, delivery : {"none", "valid", "invalid"}]

Inspecting == {"inspect", "redeem", "redeemed", "review", "reviewed"}
Paying == {"prepare", "journal", "commit", "committed"}
Claiming == {"claim", "confirming", "processing", "delivered"}
Pcs == {"idle", "received", "approve", "continue", "broadcast", "submit", "fulfill",
        "verify", "complete", "return", "retry"} \cup Inspecting \cup Paying \cup Claiming

ThreadType ==
    [pc : Pcs, id : Launches \cup {NoLaunch}, fresh : BOOLEAN, locked : BOOLEAN, nonce : Nat,
     key : Keys \cup {NoKey}, tx : Nat, delivery : {"none", "valid", "invalid"}]

Types ==
    /\ sessions \in [Launches -> RowType]
    /\ threads \in [Threads -> ThreadType]
    /\ known \in Keys \cup {NoKey} /\ accepted \subseteq Keys
    /\ rows \in [Launches -> Nat] /\ bound \in [Launches -> Nat] /\ prepared \in [Launches -> Nat]
    /\ committed \in [Launches -> SUBSET (Nat \X Nat)]

\* A failure before the broadcast, which sends the session back to its inspection.
Unreviewed(row) == row.stage = "failed_retryable" /\ row.retry = "inspecting"

\* What a row says of itself, where rows are counted, the merchant is bound to the nonce b,
\* the node has com and the user has accepted acc.
RowOk(row, count, b, com, acc) ==
    /\ row.nonce <= count
    /\ row.stage # "none" => row.nonce # 0
    /\ row.secret = "claim" \/ row.tx # 0 => row.nonce # 0 /\ row.nonce = b
    /\ row.stage \in {"awaiting_approval", "preparing_payment"} => row.secret = "claim"
    /\ row.stage \in {"none", "received", "inspecting", "rejected", "invalid"} \/ Unreviewed(row) => row.tx = 0
    /\ row.stage = "preparing_payment" \/ row.tx # 0 => row.trust \in {"first", "previous"}
    /\ row.stage = "awaiting_approval" => row.trust # "none"
    /\ row.trust # "none" => row.key \in Keys
    /\ row.trust \in {"first", "previous"} => row.key \in acc
    /\ row.stage = "failed_retryable" =>
          /\ row.retry \in {"inspecting", "submitting", "confirming", "fulfilling", "verifying"}
          /\ row.error = "delivery_invalid" => row.retry # "inspecting"
    /\ row.stage \in PostBroadcast \/ (row.stage = "failed_retryable" /\ row.retry # "inspecting") =>
          row.error # "unsent"
    /\ row.stage \in PostBroadcast \cup {"complete"}
          \/ (row.stage = "failed_retryable" /\ row.retry # "inspecting") =>
                row.tx # 0 /\ <<row.nonce, row.tx>> \in com
    /\ row.stage = "complete" => row.delivery = "valid"

\* What a goroutine th relies on, of the row it has read if its copy is fresh.
ThreadOk(th, row, b, com) ==
    /\ th.pc # "idle" => th.id \in Launches
    /\ th.fresh =>
          /\ th.pc \notin {"idle", "return"} /\ row.stage # "none"
          /\ th.pc = "received" => row.stage = "received"
          /\ th.pc \in Inspecting => row.stage = "inspecting"
          /\ th.pc = "approve" => Approvable(row)
          /\ th.pc \in Paying => row.stage = "preparing_payment"
          /\ th.pc = "broadcast" => row.stage = "broadcast"
          /\ th.pc = "submit" => row.stage = "submitting"
          /\ th.pc \in Claiming => row.stage \in {"confirming", "fulfilling"}
          /\ th.pc = "fulfill" => row.stage = "confirming"
          /\ th.pc \in {"verify", "complete"} => row.stage = "verifying"
          /\ th.pc = "complete" => row.delivery = "valid"
          /\ th.pc = "retry" => row.stage = "failed_retryable"
          /\ th.pc \in {"redeem", "redeemed", "approve"} \cup Paying => th.nonce = row.nonce
          /\ th.pc \in {"review", "reviewed"} => row.secret = "claim"
    /\ th.pc = "redeemed" /\ th.nonce # 0 => b = th.nonce
    /\ th.pc = "reviewed" => th.key \in Keys
    /\ th.pc = "journal" => th.tx # 0
    /\ th.pc = "committed" => <<th.nonce, th.tx>> \in com

\* A payment that the node has or may still be given: of the row that the merchant is bound
\* to, and its journal if that row is still there.
PairOk(n, t, row, b) == n # 0 /\ n = b /\ t # 0 /\ (row.nonce = n => row.tx = t)

Committing(th) == th.pc \in {"commit", "committed"}

RowsOk == \A s \in Launches : RowOk(sessions[s], rows[s], bound[s], committed[s], accepted)

ThreadsOk == \A w \in Threads :
    ThreadOk(threads[w], sessions[threads[w].id], bound[threads[w].id], committed[threads[w].id])

PairsOk ==
    /\ \A s \in Launches : \A c \in committed[s] : PairOk(c[1], c[2], sessions[s], bound[s])
    /\ \A w \in Threads : Committing(threads[w]) =>
          PairOk(threads[w].nonce, threads[w].tx, sessions[threads[w].id], bound[threads[w].id])

\* All payments of a link are the same one.
Agreed ==
    /\ \A s \in Launches : \A c, d \in committed[s] : c[2] = d[2]
    /\ \A w \in Threads : Committing(threads[w]) =>
          \A c \in committed[threads[w].id] : c[2] = threads[w].tx
    /\ \A v, w \in Threads :
          Committing(threads[v]) /\ Committing(threads[w]) /\ threads[v].id = threads[w].id =>
              threads[v].tx = threads[w].tx

Counted == \A s \in Launches : bound[s] <= rows[s]

\* Nonces of goroutines are of rows that were created.
NoncesCounted == \A w \in Threads : threads[w].pc # "idle" => threads[w].nonce <= rows[threads[w].id]

KnownIsAccepted == known # NoKey => known \in accepted

Inv ==
    /\ Types /\ RowsOk /\ ThreadsOk /\ PairsOk /\ Agreed /\ Counted /\ NoncesCounted /\ KnownIsAccepted
-----------------------------------------------------------------------------
LEMMA IdleType == Idle \in ThreadType /\ Idle.pc = "idle" /\ Idle.fresh = FALSE /\ Idle.nonce = 0
BY DEF Idle, ThreadType, Pcs

LEMMA NoSessionType ==
    /\ NoSession \in RowType /\ NoSession.stage = "none" /\ NoSession.nonce = 0 /\ NoSession.tx = 0
    /\ NoSession.secret = "none" /\ NoSession.trust = "none"
BY DEF NoSession, RowType

\* A row that does not exist is sound.
LEMMA NoSessionOk ==
    ASSUME NEW count \in Nat, NEW b, NEW com, NEW acc
    PROVE  RowOk(NoSession, count, b, com, acc)
BY DEF RowOk, Unreviewed, NoSession, PostBroadcast

LEMMA InitInv == Init => Inv
<1> SUFFICES ASSUME Init PROVE Inv OBVIOUS
<1>1. Types BY IdleType, NoSessionType DEF Init, Types
<1>2. RowsOk BY NoSessionOk DEF Init, RowsOk
<1>3. \A w \in Threads : threads[w].pc = "idle" /\ ~threads[w].fresh BY IdleType DEF Init
<1>4. ThreadsOk BY <1>3 DEF ThreadsOk, ThreadOk
<1>5. PairsOk /\ Agreed BY <1>3 DEF Init, PairsOk, Agreed, Committing
<1>6. Counted /\ NoncesCounted BY <1>3 DEF Init, Counted, NoncesCounted
<1>7. KnownIsAccepted BY DEF Init, KnownIsAccepted
<1>. QED BY <1>1, <1>2, <1>4, <1>5, <1>6, <1>7 DEF Inv

\* A goroutine is Idle or of a link; a fresh copy is of a row that exists.
LEMMA ThreadFacts ==
    ASSUME Inv, NEW w \in Threads
    PROVE  /\ threads[w] \in ThreadType /\ threads[w].nonce \in Nat /\ threads[w].tx \in Nat
           /\ threads[w].pc # "idle" => threads[w].id \in Launches /\ threads[w].nonce <= rows[threads[w].id]
           /\ threads[w].fresh => threads[w].pc # "idle"
           /\ ThreadOk(threads[w], sessions[threads[w].id], bound[threads[w].id], committed[threads[w].id])
BY DEF Inv, Types, ThreadType, ThreadsOk, ThreadOk, NoncesCounted

LEMMA RowFacts ==
    ASSUME Inv, NEW s \in Launches
    PROVE  /\ sessions[s] \in RowType /\ sessions[s].nonce \in Nat /\ sessions[s].tx \in Nat
           /\ rows[s] \in Nat /\ bound[s] \in Nat /\ bound[s] <= rows[s]
           /\ RowOk(sessions[s], rows[s], bound[s], committed[s], accepted)
BY DEF Inv, Types, RowType, RowsOk, Counted

\* More accepted identities and more payments keep a row sound.
LEMMA RowGrows ==
    ASSUME NEW row, NEW count, NEW b, NEW com, NEW acc, NEW com2, NEW acc2,
           RowOk(row, count, b, com, acc), com \subseteq com2, acc \subseteq acc2
    PROVE  RowOk(row, count, b, com2, acc2)
BY DEF RowOk

\* The merchant keeps the binding of a handoff, and may make the first one.
Binds ==
    /\ bound' \in [Launches -> Nat]
    /\ \A s \in Launches : bound'[s] = bound[s] \/ (bound[s] = 0 /\ bound'[s] <= rows[s])

LEMMA SameBinding == ASSUME Inv, UNCHANGED bound PROVE Binds
BY DEF Inv, Types, Binds

\* What holds while nothing is bound holds with any binding.
LEMMA BindingKeeps ==
    ASSUME NEW b, NEW b2, b2 = b \/ b = 0, NEW com
    PROVE  /\ \A row, count, acc : RowOk(row, count, b, com, acc) => RowOk(row, count, b2, com, acc)
           /\ \A th, row : ThreadOk(th, row, b, com) => ThreadOk(th, row, b2, com)
           /\ \A n, t, row : PairOk(n, t, row, b) => PairOk(n, t, row, b2)
<1>1. CASE b2 = b BY <1>1
<1>2. CASE b = 0
  <2>1. \A row, count, acc : RowOk(row, count, b, com, acc) => RowOk(row, count, b2, com, acc)
    BY <1>2 DEF RowOk
  <2>2. \A th, row : ThreadOk(th, row, b, com) => ThreadOk(th, row, b2, com) BY <1>2 DEF ThreadOk
  <2>3. \A n, t, row : PairOk(n, t, row, b) => PairOk(n, t, row, b2) BY <1>2 DEF PairOk
  <2>. QED BY <2>1, <2>2, <2>3
<1>. QED BY <1>1, <1>2

\* The invariant, of sessions and threads of the next state, under the merchant's old binding.
LEMMA Rebound ==
    ASSUME Inv, Binds, Types', Counted',
           \A s \in Launches : RowOk(sessions'[s], rows'[s], bound[s], committed'[s], accepted'),
           \A w \in Threads : ThreadOk(threads'[w], sessions'[threads'[w].id], bound[threads'[w].id],
                                       committed'[threads'[w].id]),
           \A s \in Launches : \A c \in committed'[s] : PairOk(c[1], c[2], sessions'[s], bound[s]),
           \A w \in Threads : Committing(threads'[w]) =>
              PairOk(threads'[w].nonce, threads'[w].tx, sessions'[threads'[w].id], bound[threads'[w].id])
    PROVE  RowsOk' /\ ThreadsOk' /\ PairsOk'
<1>1. \A s \in Launches : bound'[s] = bound[s] \/ bound[s] = 0 BY DEF Binds
<1>2. ASSUME NEW w \in Threads
      PROVE  ThreadOk(threads'[w], sessions'[threads'[w].id], bound'[threads'[w].id], committed'[threads'[w].id])
  <2>1. CASE threads'[w].pc = "idle" BY <2>1 DEF ThreadOk
  <2>2. CASE threads'[w].pc # "idle"
    <3>1. threads'[w].id \in Launches BY <2>2 DEF ThreadOk
    <3>. QED BY <1>1, <3>1, BindingKeeps
  <2>. QED BY <2>1, <2>2
<1>3. RowsOk' BY <1>1, BindingKeeps DEF RowsOk
<1>4. ThreadsOk' BY <1>2 DEF ThreadsOk
<1>5. PairsOk'
  <2>1. \A s \in Launches : \A c \in committed'[s] : PairOk(c[1], c[2], sessions'[s], bound'[s])
    BY <1>1, BindingKeeps
  <2>2. ASSUME NEW w \in Threads, Committing(threads'[w])
        PROVE  PairOk(threads'[w].nonce, threads'[w].tx, sessions'[threads'[w].id], bound'[threads'[w].id])
    <3>1. threads'[w].id \in Launches BY <2>2 DEF ThreadOk, Committing
    <3>. QED BY <1>1, <2>2, <3>1, BindingKeeps
  <2>. QED BY <2>1, <2>2 DEF PairsOk
<1>. QED BY <1>3, <1>4, <1>5

\* What a stale copy of goroutine v is.
LEMMA StaleThread ==
    ASSUME Inv, NEW s, NEW v \in Threads
    PROVE  /\ Stale(s)[v] \in ThreadType
           /\ Stale(s)[v].pc = threads[v].pc /\ Stale(s)[v].id = threads[v].id
           /\ Stale(s)[v].nonce = threads[v].nonce /\ Stale(s)[v].tx = threads[v].tx
           /\ Stale(s)[v].key = threads[v].key
           /\ Stale(s)[v].fresh => threads[v].fresh /\ threads[v].id # s /\ Stale(s)[v] = threads[v]
<1>1. threads[v] \in ThreadType BY ThreadFacts
<1>2. Stale(s)[v] = IF threads[v].id = s THEN [threads[v] EXCEPT !.fresh = FALSE] ELSE threads[v]
  BY DEF Stale
<1>. QED BY <1>1, <1>2, ZenonT(60) DEF ThreadType

\* The row of s is written, by the goroutine in W or by nobody's; all others' copies go stale.
LEMMA RowWritten ==
    ASSUME Inv, NEW s \in Launches, NEW row \in RowType, NEW W \in SUBSET Threads,
           sessions' = [sessions EXCEPT ![s] = row],
           threads' \in [Threads -> ThreadType],
           UNCHANGED <<rows, prepared, committed>>, Binds,
           known' \in Keys \cup {NoKey}, accepted' \subseteq Keys, accepted \subseteq accepted',
           known' # NoKey => known' \in accepted',
           RowOk(row, rows[s], bound[s], committed[s], accepted'),
           row.nonce = sessions[s].nonce, row.tx = sessions[s].tx \/ sessions[s].tx = 0,
           \A v \in Threads \ W : threads'[v] = Stale(s)[v],
           \A v, w \in W : v = w,
           \A w \in W : /\ threads'[w].pc # "idle" => threads'[w].id = s /\ threads'[w].nonce <= rows[s]
                        /\ ThreadOk(threads'[w], row, bound[s], committed[s])
                        /\ Committing(threads'[w]) =>
                              threads'[w].nonce = row.nonce /\ threads'[w].tx = row.tx /\ row.tx # 0
    PROVE  Inv'
<1>1. /\ sessions' \in [Launches -> RowType] /\ sessions'[s] = row
      /\ \A r \in Launches : r # s => sessions'[r] = sessions[r]
  BY DEF Inv, Types
<1>2. Types' BY <1>1 DEF Inv, Types, Binds
<1>3. \A r \in Launches : RowOk(sessions'[r], rows[r], bound[r], committed[r], accepted')
  BY <1>1, RowFacts, RowGrows
<1>4. ASSUME NEW v \in Threads
      PROVE  ThreadOk(threads'[v], sessions'[threads'[v].id], bound[threads'[v].id], committed[threads'[v].id])
  <2>1. CASE v \in W
    <3>1. CASE threads'[v].pc # "idle" BY <1>1, <2>1, <3>1
    <3>2. CASE threads'[v].pc = "idle" BY <2>1, <3>2 DEF ThreadOk
    <3>. QED BY <3>1, <3>2
  <2>2. CASE v \notin W
    <3>1. threads'[v] = Stale(s)[v] BY <2>2
    <3>2. ThreadOk(threads[v], sessions[threads[v].id], bound[threads[v].id], committed[threads[v].id])
          /\ (threads[v].pc # "idle" => threads[v].id \in Launches)
          /\ (threads[v].fresh => threads[v].pc # "idle")
      BY ThreadFacts
    <3>3. CASE threads'[v].fresh
      <4>1. threads'[v] = threads[v] /\ threads[v].fresh /\ threads[v].id # s BY <3>1, <3>3, StaleThread
      <4>2. sessions'[threads[v].id] = sessions[threads[v].id] BY <1>1, <3>2, <4>1
      <4>. QED BY <3>2, <4>1, <4>2
    <3>4. CASE ~threads'[v].fresh
      <4>1. /\ threads'[v].pc = threads[v].pc /\ threads'[v].id = threads[v].id
            /\ threads'[v].nonce = threads[v].nonce /\ threads'[v].tx = threads[v].tx
            /\ threads'[v].key = threads[v].key
        BY <3>1, StaleThread
      <4>. QED BY <3>2, <3>4, <4>1 DEF ThreadOk
    <3>. QED BY <3>3, <3>4
  <2>. QED BY <2>1, <2>2
<1>5. \A v \in Threads : v \notin W => 
         /\ threads'[v].pc = threads[v].pc /\ threads'[v].id = threads[v].id
         /\ threads'[v].nonce = threads[v].nonce /\ threads'[v].tx = threads[v].tx
  BY StaleThread
<1>6. ASSUME NEW n, NEW t, NEW r \in Launches, PairOk(n, t, sessions[r], bound[r])
      PROVE  PairOk(n, t, sessions'[r], bound[r])
  BY <1>1, <1>6 DEF PairOk
<1>7. \A w \in W : Committing(threads'[w]) =>
        /\ threads'[w].id = s /\ threads'[w].tx = row.tx
        /\ PairOk(threads'[w].nonce, threads'[w].tx, row, bound[s])
  <2>1. row.tx # 0 => row.nonce # 0 /\ row.nonce = bound[s] BY DEF RowOk
  <2>. QED BY <2>1 DEF PairOk, Committing
<1>8. /\ \A r \in Launches : \A c \in committed[r] : PairOk(c[1], c[2], sessions'[r], bound[r])
      /\ \A v \in Threads : Committing(threads'[v]) =>
            PairOk(threads'[v].nonce, threads'[v].tx, sessions'[threads'[v].id], bound[threads'[v].id])
  <2>1. \A r \in Launches : \A c \in committed[r] : PairOk(c[1], c[2], sessions'[r], bound[r])
    BY <1>6 DEF Inv, PairsOk
  <2>2. ASSUME NEW v \in Threads, Committing(threads'[v])
        PROVE  PairOk(threads'[v].nonce, threads'[v].tx, sessions'[threads'[v].id], bound[threads'[v].id])
    <3>1. CASE v \in W BY <1>1, <1>7, <2>2, <3>1
    <3>2. CASE v \notin W
      <4>1. Committing(threads[v]) /\ threads[v].id \in Launches
        BY <1>5, <2>2, <3>2, ThreadFacts DEF Committing
      <4>2. PairOk(threads[v].nonce, threads[v].tx, sessions[threads[v].id], bound[threads[v].id])
        BY <4>1 DEF Inv, PairsOk
      <4>. QED BY <1>5, <1>6, <3>2, <4>1, <4>2
    <3>. QED BY <3>1, <3>2
  <2>. QED BY <2>1, <2>2
<1>9. \A n, t : (\E w \in W : Committing(threads'[w])) /\ PairOk(n, t, sessions[s], bound[s]) => t = row.tx
  <2> SUFFICES ASSUME NEW n, NEW t, NEW w \in W, Committing(threads'[w]), PairOk(n, t, sessions[s], bound[s])
               PROVE  t = row.tx
    OBVIOUS
  <2>1. n = bound[s] /\ t # 0 /\ (sessions[s].nonce = n => sessions[s].tx = t) BY DEF PairOk
  <2>2. row.nonce = bound[s] BY DEF RowOk
  <2>. QED BY <2>1, <2>2
<1>10. Agreed'
  <2>1. \A r \in Launches : \A c, d \in committed[r] : c[2] = d[2] BY DEF Inv, Agreed
  <2>2. ASSUME NEW v \in Threads, Committing(threads'[v]), NEW c \in committed[threads'[v].id]
        PROVE  c[2] = threads'[v].tx
    <3>1. CASE v \in W
      <4>1. threads'[v].id = s /\ threads'[v].tx = row.tx BY <1>7, <2>2, <3>1
      <4>2. PairOk(c[1], c[2], sessions[s], bound[s]) BY <2>2, <4>1 DEF Inv, PairsOk
      <4>. QED BY <1>9, <2>2, <3>1, <4>1, <4>2
    <3>2. CASE v \notin W BY <1>5, <2>2, <3>2 DEF Inv, Agreed, Committing
    <3>. QED BY <3>1, <3>2
  <2>3. ASSUME NEW v \in Threads, NEW w \in Threads, Committing(threads'[v]), Committing(threads'[w]),
               threads'[v].id = threads'[w].id
        PROVE  threads'[v].tx = threads'[w].tx
    <3>0. \A x \in Threads : x \notin W /\ Committing(threads'[x]) =>
            PairOk(threads'[x].nonce, threads'[x].tx, sessions[threads'[x].id], bound[threads'[x].id])
      BY <1>5 DEF Inv, PairsOk, Committing
    <3>1. CASE v \in W /\ w \in W BY <3>1
    <3>2. CASE v \in W /\ w \notin W BY <1>7, <1>9, <2>3, <3>0, <3>2
    <3>3. CASE v \notin W /\ w \in W BY <1>7, <1>9, <2>3, <3>0, <3>3
    <3>4. CASE v \notin W /\ w \notin W BY <1>5, <2>3, <3>4 DEF Inv, Agreed, Committing
    <3>. QED BY <3>1, <3>2, <3>3, <3>4
  <2>. QED BY <2>1, <2>2, <2>3 DEF Agreed
<1>11. Counted' /\ KnownIsAccepted' BY DEF Inv, Counted, KnownIsAccepted, Binds
<1>12. NoncesCounted' BY <1>5 DEF Inv, NoncesCounted
<1>13. RowsOk' /\ ThreadsOk' /\ PairsOk' BY <1>2, <1>3, <1>4, <1>8, <1>11, Rebound
<1>. QED BY <1>2, <1>10, <1>11, <1>12, <1>13 DEF Inv

\* What most steps leave alone.
kept == <<rows, committed, known, accepted>>

\* Goroutine w goes on as th, and no row is written.
LEMMA ThreadMoved ==
    ASSUME Inv, NEW w \in Threads, NEW th \in ThreadType,
           threads' = [threads EXCEPT ![w] = th], UNCHANGED sessions, UNCHANGED kept,
           Binds, prepared' \in [Launches -> Nat],
           th.pc # "idle" => th.id \in Launches /\ th.nonce <= rows[th.id],
           ThreadOk(th, sessions[th.id], bound'[th.id], committed[th.id]),
           Committing(th) => /\ Committing(threads[w]) /\ th.id = threads[w].id
                             /\ th.nonce = threads[w].nonce /\ th.tx = threads[w].tx
    PROVE  Inv'
<1> USE DEF kept
<1>1. /\ threads' \in [Threads -> ThreadType] /\ threads'[w] = th
      /\ \A v \in Threads : v # w => threads'[v] = threads[v]
  BY DEF Inv, Types
<1>2. Types' BY <1>1 DEF Inv, Types, Binds
<1>0. \A s \in Launches : bound'[s] = bound[s] \/ bound[s] = 0 BY DEF Binds
<1>3. RowsOk' /\ Counted' /\ KnownIsAccepted'
  BY <1>0, BindingKeeps DEF Inv, RowsOk, Counted, KnownIsAccepted, Binds
<1>4. ThreadsOk'
  <2>1. ASSUME NEW v \in Threads, v # w
        PROVE  ThreadOk(threads'[v], sessions[threads'[v].id], bound'[threads'[v].id], committed[threads'[v].id])
    <3>1. ThreadOk(threads'[v], sessions[threads'[v].id], bound[threads'[v].id], committed[threads'[v].id])
      BY <1>1, <2>1, ThreadFacts
    <3>2. CASE threads'[v].pc = "idle" BY <3>1, <3>2 DEF ThreadOk
    <3>3. CASE threads'[v].pc # "idle"
      <4>1. threads'[v].id \in Launches BY <3>1, <3>3 DEF ThreadOk
      <4>. QED BY <1>0, <3>1, <4>1, BindingKeeps
    <3>. QED BY <3>2, <3>3
  <2>. QED BY <1>1, <2>1 DEF ThreadsOk
<1>5. \A v \in Threads : Committing(threads'[v]) =>
         /\ Committing(threads[v]) /\ threads'[v].id = threads[v].id
         /\ threads'[v].nonce = threads[v].nonce /\ threads'[v].tx = threads[v].tx
  BY <1>1
<1>6. PairsOk'
  <2>1. \A s \in Launches : \A c \in committed[s] : PairOk(c[1], c[2], sessions[s], bound'[s])
    BY <1>0, BindingKeeps DEF Inv, PairsOk
  <2>2. ASSUME NEW v \in Threads, Committing(threads'[v])
        PROVE  PairOk(threads'[v].nonce, threads'[v].tx, sessions[threads'[v].id], bound'[threads'[v].id])
    <3>1. PairOk(threads'[v].nonce, threads'[v].tx, sessions[threads'[v].id], bound[threads'[v].id])
      BY <1>5, <2>2 DEF Inv, PairsOk
    <3>2. threads'[v].id \in Launches BY <1>5, <2>2, ThreadFacts DEF Committing
    <3>. QED BY <1>0, <3>1, <3>2, BindingKeeps
  <2>. QED BY <2>1, <2>2 DEF PairsOk
<1>7. Agreed' BY <1>5 DEF Inv, Agreed
<1>8. NoncesCounted' BY <1>1 DEF Inv, NoncesCounted
<1>. QED BY <1>2, <1>3, <1>4, <1>6, <1>7, <1>8 DEF Inv

\* A goroutine that returns relies on nothing any more.
LEMMA ReturnedOk ==
    ASSUME Inv, NEW w \in Threads
    PROVE  /\ Returned(w) \in ThreadType /\ Returned(w).pc \in {"idle", "return"} /\ ~Returned(w).fresh
           /\ threads[w].pc # "idle" /\ Returned(w).pc # "idle" =>
                 Returned(w).id = threads[w].id /\ Returned(w).nonce = threads[w].nonce
<1>1. threads[w] \in ThreadType BY ThreadFacts
<1>2. CASE threads[w].locked
  <2>1. Returned(w) = [[threads[w] EXCEPT !.pc = "return"] EXCEPT !.fresh = FALSE]
    BY <1>2 DEF Returned, Goes
  <2>. QED BY <1>1, <2>1 DEF ThreadType, Pcs
<1>3. CASE ~threads[w].locked BY <1>3, IdleType DEF Returned
<1>. QED BY <1>2, <1>3

\* An operation ends without a write.
LEMMA ReturnStep ==
    ASSUME Inv, NEW w \in Threads, threads[w].pc # "idle",
           Continues(w, Returned(w)), UNCHANGED kept, Binds, prepared' \in [Launches -> Nat]
    PROVE  Inv'
<1> DEFINE th == Returned(w)
<1>1. th \in ThreadType /\ th.pc \in {"idle", "return"} /\ ~th.fresh
      /\ (th.pc # "idle" => th.id = threads[w].id /\ th.nonce = threads[w].nonce)
  BY ReturnedOk
<1>2. th.pc # "idle" => th.id \in Launches /\ th.nonce <= rows[th.id] BY <1>1, ThreadFacts
<1>3. ThreadOk(th, sessions[th.id], bound'[th.id], committed[th.id]) /\ ~Committing(th)
  BY <1>1, <1>2 DEF ThreadOk, Committing
<1>4. threads' = [threads EXCEPT ![w] = th] /\ UNCHANGED sessions BY DEF Continues
<1>. HIDE DEF th
<1>. QED BY <1>1, <1>2, <1>3, <1>4, ThreadMoved

\* Goroutine w, whose copy is fresh, writes row and goes on as th.
LEMMA WriteStep ==
    ASSUME Inv, NEW w \in Threads, NEW row \in RowType, NEW th \in ThreadType,
           threads[w].fresh, Writes(w, row, th), UNCHANGED <<rows, prepared, committed>>, Binds,
           known' \in Keys \cup {NoKey}, accepted' \subseteq Keys, accepted \subseteq accepted',
           known' # NoKey => known' \in accepted',
           RowOk(row, rows[threads[w].id], bound[threads[w].id], committed[threads[w].id], accepted'),
           row.nonce = Row(w).nonce, row.tx = Row(w).tx \/ Row(w).tx = 0,
           th.pc # "idle" => th.id = threads[w].id /\ th.nonce <= rows[th.id],
           ThreadOk(th, row, bound[threads[w].id], committed[threads[w].id]),
           Committing(th) => th.nonce = row.nonce /\ th.tx = row.tx /\ row.tx # 0
    PROVE  Inv'
<1> DEFINE s == threads[w].id
           W == {w}
<1>1. s \in Launches /\ W \in SUBSET Threads /\ \A u, v \in W : u = v BY ThreadFacts
<1>2. sessions' = [sessions EXCEPT ![s] = row] BY DEF Writes
<1>3. threads' = [Stale(s) EXCEPT ![w] = th] BY DEF Writes
<1>4. Stale(s) \in [Threads -> ThreadType]
  <2>1. \A v \in Threads : Stale(s)[v] \in ThreadType BY StaleThread
  <2>. QED BY <2>1 DEF Stale
<1>5. /\ threads' \in [Threads -> ThreadType] /\ threads'[w] = th
      /\ \A v \in Threads \ W : threads'[v] = Stale(s)[v]
  BY <1>3, <1>4
<1>6. row.nonce = sessions[s].nonce /\ (row.tx = sessions[s].tx \/ sessions[s].tx = 0) BY DEF Row
<1>7. \A v \in W : /\ threads'[v].pc # "idle" => threads'[v].id = s /\ threads'[v].nonce <= rows[s]
                   /\ ThreadOk(threads'[v], row, bound[s], committed[s])
                   /\ Committing(threads'[v]) =>
                         threads'[v].nonce = row.nonce /\ threads'[v].tx = row.tx /\ row.tx # 0
  BY <1>5
<1>. HIDE DEF s, W
<1>. QED BY <1>1, <1>2, <1>5, <1>6, <1>7, RowWritten DEF s

\* The user or Recover writes a row.
LEMMA WriteAloneStep ==
    ASSUME Inv, NEW s \in Launches, NEW row \in RowType, WritesAlone(s, row),
           UNCHANGED <<rows, prepared, committed>>, Binds,
           known' \in Keys \cup {NoKey}, accepted' \subseteq Keys, accepted \subseteq accepted',
           known' # NoKey => known' \in accepted',
           RowOk(row, rows[s], bound[s], committed[s], accepted'),
           row.nonce = sessions[s].nonce, row.tx = sessions[s].tx
    PROVE  Inv'
<1>1. Stale(s) \in [Threads -> ThreadType]
  <2>1. \A v \in Threads : Stale(s)[v] \in ThreadType BY StaleThread
  <2>. QED BY <2>1 DEF Stale
<1>2. sessions' = [sessions EXCEPT ![s] = row] /\ threads' = Stale(s) BY DEF WritesAlone
<1>3. {} \in SUBSET Threads OBVIOUS
<1>. QED BY <1>1, <1>2, <1>3, RowWritten

\* A write on condition, with the two things that may come of it.
LEMMA UpdateStep ==
    ASSUME Inv, NEW w \in Threads, NEW cond, NEW row, NEW th,
           threads[w].pc # "idle", Updates(w, cond, row, th), UNCHANGED kept, Binds, UNCHANGED prepared,
           threads[w].fresh /\ cond =>
              /\ row \in RowType /\ th \in ThreadType
              /\ RowOk(row, rows[threads[w].id], bound[threads[w].id], committed[threads[w].id], accepted)
              /\ row.nonce = Row(w).nonce /\ (row.tx = Row(w).tx \/ Row(w).tx = 0)
              /\ th.pc # "idle" => th.id = threads[w].id /\ th.nonce <= rows[th.id]
              /\ ThreadOk(th, row, bound[threads[w].id], committed[threads[w].id])
              /\ Committing(th) => th.nonce = row.nonce /\ th.tx = row.tx /\ row.tx # 0
    PROVE  Inv'
<1>1. known \in Keys \cup {NoKey} /\ accepted \subseteq Keys /\ (known # NoKey => known \in accepted)
      /\ prepared \in [Launches -> Nat]
  BY DEF Inv, Types, KnownIsAccepted
<1>2. CASE threads[w].fresh /\ cond
  <2>1. Writes(w, row, th) BY <1>2 DEF Updates
  <2>. QED BY <1>1, <1>2, <2>1, WriteStep DEF kept
<1>3. CASE ~(threads[w].fresh /\ cond)
  <2>1. Continues(w, Returned(w)) BY <1>3 DEF Updates
  <2>. QED BY <1>1, <2>1, ReturnStep
<1>. QED BY <1>2, <1>3

\* The fields of a row that is moved to another stage, or ended.
LEMMA MovedFields ==
    ASSUME NEW row \in RowType, NEW to \in Stages, NEW e \in {"none", "unsent", "sent", "delivery_invalid"}
    PROVE  /\ Moved(row, to, e) \in RowType /\ Moved(row, to, e).stage = to /\ Moved(row, to, e).error = e
           /\ Moved(row, to, e).retry = IF to = "failed_retryable" THEN row.stage ELSE "none"
           /\ Moved(row, to, e).nonce = row.nonce /\ Moved(row, to, e).tx = row.tx
           /\ Moved(row, to, e).secret = row.secret /\ Moved(row, to, e).key = row.key
           /\ Moved(row, to, e).trust = row.trust /\ Moved(row, to, e).delivery = row.delivery
           /\ Terminated(row, to, e) \in RowType /\ Terminated(row, to, e).stage = to
           /\ Terminated(row, to, e).nonce = row.nonce /\ Terminated(row, to, e).tx = row.tx
           /\ Terminated(row, to, e).secret = "erased" /\ Terminated(row, to, e).key = row.key
           /\ Terminated(row, to, e).trust = row.trust /\ Terminated(row, to, e).retry = row.retry
<1>1. Moved(row, to, e) \in RowType BY ZenonT(60) DEF RowType, Moved
<1>2. Terminated(row, to, e) \in RowType BY DEF RowType, Terminated
<1>3. /\ Moved(row, to, e).stage = to /\ Moved(row, to, e).error = e
      /\ Moved(row, to, e).retry = IF to = "failed_retryable" THEN row.stage ELSE "none"
      /\ Moved(row, to, e).nonce = row.nonce /\ Moved(row, to, e).tx = row.tx
      /\ Moved(row, to, e).secret = row.secret /\ Moved(row, to, e).key = row.key
      /\ Moved(row, to, e).trust = row.trust /\ Moved(row, to, e).delivery = row.delivery
  BY DEF RowType, Moved
<1>4. /\ Terminated(row, to, e).stage = to
      /\ Terminated(row, to, e).nonce = row.nonce /\ Terminated(row, to, e).tx = row.tx
      /\ Terminated(row, to, e).secret = "erased" /\ Terminated(row, to, e).key = row.key
      /\ Terminated(row, to, e).trust = row.trust /\ Terminated(row, to, e).retry = row.retry
  BY DEF RowType, Terminated
<1>. QED BY <1>1, <1>2, <1>3, <1>4

LEMMA GoesFields ==
    ASSUME Inv, NEW w \in Threads, NEW x \in Pcs
    PROVE  /\ Goes(w, x) \in ThreadType /\ Goes(w, x).pc = x /\ Goes(w, x).id = threads[w].id
           /\ Goes(w, x).fresh = threads[w].fresh /\ Goes(w, x).nonce = threads[w].nonce
           /\ Goes(w, x).tx = threads[w].tx /\ Goes(w, x).delivery = threads[w].delivery
BY ThreadFacts DEF Goes, ThreadType

LEMMA SpawnFields ==
    ASSUME NEW s \in Launches, NEW x \in Pcs
    PROVE  /\ Spawn(s, x) \in ThreadType /\ Spawn(s, x).pc = x /\ Spawn(s, x).id = s
           /\ Spawn(s, x).fresh = TRUE /\ Spawn(s, x).nonce = 0 /\ Spawn(s, x).tx = 0
BY DEF Spawn, Idle, ThreadType

\* ClientStore.transition.
LEMMA TransitionStep ==
    ASSUME Inv, NEW w \in Threads, NEW to \in Stages, NEW e \in {"none", "unsent", "sent", "delivery_invalid"},
           NEW th, threads[w].pc # "idle", Transition(w, to, e, th), UNCHANGED kept, Binds, UNCHANGED prepared,
           threads[w].fresh /\ validClientTransition(Row(w).stage, to) =>
              /\ RowOk(Moved(Row(w), to, e), rows[threads[w].id], bound[threads[w].id],
                       committed[threads[w].id], accepted)
              /\ \/ th = Returned(w)
                 \/ /\ th \in ThreadType
                    /\ th.pc # "idle" => th.id = threads[w].id /\ th.nonce <= rows[th.id]
                    /\ ThreadOk(th, Moved(Row(w), to, e), bound[threads[w].id], committed[threads[w].id])
                    /\ Committing(th) => th.nonce = Row(w).nonce /\ th.tx = Row(w).tx /\ th.tx # 0
    PROVE  Inv'
<1> DEFINE row == Moved(Row(w), to, e)
           cond == validClientTransition(Row(w).stage, to)
<1>1. Updates(w, cond, row, th) BY DEF Transition
<1>2. threads[w].id \in Launches /\ Row(w) \in RowType BY ThreadFacts, RowFacts DEF Row
<1>3. row \in RowType /\ row.nonce = Row(w).nonce /\ row.tx = Row(w).tx
  BY <1>2, ZenonT(60) DEF Moved, RowType
<1>4. ASSUME threads[w].fresh, cond
      PROVE  /\ th \in ThreadType
             /\ th.pc # "idle" => th.id = threads[w].id /\ th.nonce <= rows[th.id]
             /\ ThreadOk(th, row, bound[threads[w].id], committed[threads[w].id])
             /\ Committing(th) => th.nonce = row.nonce /\ th.tx = row.tx /\ row.tx # 0
  <2>1. CASE th = Returned(w)
    <3>1. /\ th \in ThreadType /\ th.pc \in {"idle", "return"} /\ ~th.fresh
          /\ th.pc # "idle" => th.id = threads[w].id /\ th.nonce = threads[w].nonce
      BY <2>1, ReturnedOk
    <3>2. th.pc # "idle" => th.id \in Launches /\ th.nonce <= rows[th.id] BY <3>1, ThreadFacts
    <3>. QED BY <3>1, <3>2 DEF ThreadOk, Committing
  <2>2. CASE th # Returned(w) BY <1>3, <1>4, <2>2
  <2>. QED BY <2>1, <2>2
<1>5. threads[w].fresh /\ cond =>
        RowOk(row, rows[threads[w].id], bound[threads[w].id], committed[threads[w].id], accepted)
  OBVIOUS
<1>. HIDE DEF row, cond
<1>. QED BY <1>1, <1>3, <1>4, <1>5, UpdateStep

\* The facts of the row that a goroutine with a fresh copy is about to write.
LEMMA FreshFacts ==
    ASSUME Inv, NEW w \in Threads, threads[w].pc # "idle"
    PROVE  /\ threads[w].id \in Launches /\ Row(w) \in RowType /\ threads[w].nonce <= rows[threads[w].id]
           /\ RowOk(Row(w), rows[threads[w].id], bound[threads[w].id], committed[threads[w].id], accepted)
           /\ ThreadOk(threads[w], Row(w), bound[threads[w].id], committed[threads[w].id])
           /\ rows[threads[w].id] \in Nat
BY ThreadFacts, RowFacts DEF Row

\* ClientManager.fail with a failure to retry.
LEMMA FailRetryable ==
    ASSUME Inv, NEW w \in Threads, NEW e \in {"unsent", "sent", "delivery_invalid"},
           threads[w].pc \in Inspecting \cup Claiming \cup {"submit", "verify"},
           e = "delivery_invalid" => threads[w].pc = "verify",
           e = "unsent" => threads[w].pc \in Inspecting,
           Fail(w, "failed_retryable", e), UNCHANGED kept, Binds, UNCHANGED prepared
    PROVE  Inv'
<1> DEFINE to == "failed_retryable"
           row == Moved(Row(w), to, e)
<1>1. Transition(w, to, e, Returned(w)) BY DEF Fail
<1>2. threads[w].pc # "idle" /\ to \in Stages BY DEF Inspecting, Claiming, Stages
<1>3. ASSUME threads[w].fresh
      PROVE  RowOk(row, rows[threads[w].id], bound[threads[w].id], committed[threads[w].id], accepted)
  <2>1. Row(w).stage \in {"inspecting", "submitting", "confirming", "fulfilling", "verifying"}
        /\ (threads[w].pc = "verify" => Row(w).stage = "verifying")
        /\ (threads[w].pc \in Inspecting => Row(w).stage = "inspecting")
    BY <1>2, <1>3, FreshFacts DEF ThreadOk, Inspecting, Claiming
  <2>2. /\ row.stage = to /\ row.error = e /\ row.retry = Row(w).stage
        /\ row.nonce = Row(w).nonce /\ row.tx = Row(w).tx /\ row.secret = Row(w).secret
        /\ row.key = Row(w).key /\ row.trust = Row(w).trust
    <3>1. Row(w) \in RowType BY <1>2, FreshFacts
    <3>. QED BY <3>1 DEF Moved, RowType
  <2>3. RowOk(Row(w), rows[threads[w].id], bound[threads[w].id], committed[threads[w].id], accepted)
    BY <1>2, FreshFacts
  <2>. HIDE DEF row
  <2>. QED BY <2>1, <2>2, <2>3 DEF RowOk, Unreviewed, PostBroadcast
<1>. HIDE DEF to
<1>. QED BY <1>1, <1>2, <1>3, TransitionStep

\* An inspection that ends the session: nothing was paid, as nothing was reviewed.
LEMMA FailEnds ==
    ASSUME Inv, NEW w \in Threads, NEW to \in {"invalid", "expired"},
           threads[w].pc \in Inspecting, Fail(w, to, "unsent"), UNCHANGED kept, Binds, UNCHANGED prepared
    PROVE  Inv'
<1> DEFINE row == Terminated(Row(w), to, "unsent")
           moved == Moved(Row(w), to, "unsent")
<1>1. threads[w].pc # "idle" /\ to \in Stages BY DEF Inspecting, Stages, Terminal
<1>2. /\ row \in RowType /\ row.stage = to
      /\ row.nonce = Row(w).nonce /\ row.tx = Row(w).tx /\ row.secret = "erased"
      /\ row.key = Row(w).key /\ row.trust = Row(w).trust
  BY <1>1, FreshFacts, MovedFields
<1>3. RowOk(Row(w), rows[threads[w].id], bound[threads[w].id], committed[threads[w].id], accepted)
  BY <1>1, FreshFacts
<1>4. threads[w].fresh => Row(w).stage = "inspecting" /\ Row(w).tx = 0
  BY <1>1, <1>3, FreshFacts DEF ThreadOk, RowOk
<1>5. CASE Row(w).tx = 0
  <2> DEFINE cond == validClientTransition(Row(w).stage, to) /\ Unpaid(Row(w))
  <2>1. Updates(w, cond, row, Returned(w)) BY <1>5 DEF Fail, Terminate
  <2>2. threads[w].fresh => RowOk(row, rows[threads[w].id], bound[threads[w].id], committed[threads[w].id], accepted)
    <3>. HIDE DEF row
    <3>. QED BY <1>2, <1>3, <1>4 DEF RowOk, Unreviewed, PostBroadcast
  <2>3. /\ Returned(w) \in ThreadType /\ ~Committing(Returned(w))
        /\ Returned(w).pc # "idle" => Returned(w).id = threads[w].id /\ Returned(w).nonce <= rows[Returned(w).id]
        /\ ThreadOk(Returned(w), row, bound[threads[w].id], committed[threads[w].id])
    BY <1>1, ReturnedOk, FreshFacts DEF ThreadOk, Committing
  <2>. HIDE DEF row, cond
  <2>. QED BY <1>1, <1>2, <2>1, <2>2, <2>3, UpdateStep
<1>6. CASE Row(w).tx # 0
  <2>1. Transition(w, to, "unsent", Returned(w)) BY <1>6 DEF Fail
  <2>. QED BY <1>1, <1>4, <1>6, <2>1, TransitionStep
<1>. QED BY <1>5, <1>6

\* The moves of a row between stages keep it sound.
LEMMA MovedOk ==
    ASSUME NEW row \in RowType, NEW count, NEW b, NEW com, NEW acc, RowOk(row, count, b, com, acc),
           NEW to \in Stages, NEW e \in {"none", "unsent", "sent", "delivery_invalid"},
           \/ row.stage = "received" /\ to = "inspecting"
           \/ Approvable(row) /\ to \in {"preparing_payment", "expired"}
           \/ row.stage = "preparing_payment" /\ to = "awaiting_approval"
           \/ /\ row.stage = "preparing_payment" /\ to = "broadcast" /\ e # "unsent"
              /\ row.tx # 0 /\ <<row.nonce, row.tx>> \in com
           \/ row.stage \in PostBroadcast /\ e # "unsent" /\ to \in PostBroadcast \cup {"failed_terminal"}
           \/ row.stage = "failed_retryable" /\ e # "unsent" /\ to = RetryStage(row)
    PROVE  RowOk(Moved(row, to, e), count, b, com, acc)
<1> DEFINE r == Moved(row, to, e)
<1>1. /\ r.stage = to /\ r.error = e /\ (to # "failed_retryable" => r.retry = "none")
      /\ r.nonce = row.nonce /\ r.tx = row.tx /\ r.secret = row.secret
      /\ r.key = row.key /\ r.trust = row.trust /\ r.delivery = row.delivery
  BY DEF Moved, RowType
<1>2. row.trust \in {"none", "first", "previous", "changed"} BY DEF RowType
<1> SUFFICES RowOk(r, count, b, com, acc) OBVIOUS
<1>. HIDE DEF r
<1>3. CASE row.stage = "failed_retryable"
  <2>1. to \in {"inspecting", "submitting", "confirming", "fulfilling", "verifying"}
        /\ (to = "inspecting" <=> row.retry = "inspecting")
    BY <1>3 DEF RowOk, RetryStage, Approvable, PostBroadcast
  <2>. QED BY <1>1, <1>3, <2>1 DEF RowOk, Unreviewed, PostBroadcast, Approvable
<1>4. CASE row.stage # "failed_retryable" /\ row.stage \notin PostBroadcast
  BY <1>1, <1>2, <1>4 DEF RowOk, Unreviewed, PostBroadcast, Approvable
<1>5. CASE row.stage \in PostBroadcast
  BY <1>1, <1>5 DEF RowOk, Unreviewed, PostBroadcast, Approvable
<1>. QED BY <1>3, <1>4, <1>5

\* ClientManager.fail with an answer that makes no sense.
LEMMA FailTerminal ==
    ASSUME Inv, NEW w \in Threads, threads[w].pc \in Claiming,
           Fail(w, "failed_terminal", "sent"), UNCHANGED kept, Binds, UNCHANGED prepared
    PROVE  Inv'
<1>1. threads[w].pc # "idle" /\ "failed_terminal" \in Stages BY DEF Claiming, Stages, Terminal
<1>2. Transition(w, "failed_terminal", "sent", Returned(w)) BY DEF Fail
<1>3. threads[w].fresh => Row(w).stage \in PostBroadcast
  BY <1>1, FreshFacts DEF ThreadOk, PostBroadcast
<1>4. threads[w].fresh => RowOk(Moved(Row(w), "failed_terminal", "sent"), rows[threads[w].id],
                                bound[threads[w].id], committed[threads[w].id], accepted)
  BY <1>1, <1>3, FreshFacts, MovedOk
<1>. QED BY <1>1, <1>2, <1>4, TransitionStep

\* What the steps of goroutines leave alone, in the terms of the lemmas.
LEMMA KeptSame ==
    ASSUME Inv, UNCHANGED <<known, rows, committed, bound, prepared, accepted>>
    PROVE  UNCHANGED kept /\ Binds /\ UNCHANGED prepared /\ prepared' \in [Launches -> Nat]
BY SameBinding DEF kept, Inv, Types

\* Goroutine w moves the row from a stage to the next, and goes on with what is done there.
LEMMA MoveStep ==
    ASSUME Inv, NEW w \in Threads, NEW to \in Stages, NEW x \in Pcs, threads[w].pc # "idle",
           Transition(w, to, "none", Goes(w, x)), UNCHANGED kept, Binds, UNCHANGED prepared,
           threads[w].fresh =>
              \/ Row(w).stage = "received" /\ to = "inspecting"
              \/ Row(w).stage \in PostBroadcast /\ to \in PostBroadcast,
           \/ x = "inspect" /\ to = "inspecting"
           \/ x = "submit" /\ to = "submitting"
           \/ x = "claim" /\ to \in {"confirming", "fulfilling"}
    PROVE  Inv'
<1> DEFINE th == Goes(w, x)
           row == Moved(Row(w), to, "none")
<1>1. th \in ThreadType /\ th.pc = x /\ th.id = threads[w].id /\ th.nonce = threads[w].nonce BY GoesFields
<1>2. threads[w].fresh => RowOk(row, rows[threads[w].id], bound[threads[w].id], committed[threads[w].id], accepted)
  BY FreshFacts, MovedOk
<1>3. row.stage = to BY FreshFacts DEF Moved, RowType
<1>4. ThreadOk(th, row, bound[threads[w].id], committed[threads[w].id]) /\ ~Committing(th)
  <2>. HIDE DEF th, row
  <2>. QED BY <1>1, <1>3, FreshFacts DEF ThreadOk, Committing, Inspecting, Paying, Claiming
<1>5. th.nonce <= rows[th.id] BY <1>1, FreshFacts
<1>6. Transition(w, to, "none", th) OBVIOUS
<1>. HIDE DEF th
<1>. QED BY <1>1, <1>2, <1>4, <1>5, <1>6, TransitionStep

LEMMA StartInspectingStep ==
    ASSUME Inv, NEW w \in Threads, StartInspecting(w) PROVE Inv'
<1>1. threads[w].pc = "received" BY DEF StartInspecting, At
<1>2. UNCHANGED kept /\ Binds /\ UNCHANGED prepared BY KeptSame DEF StartInspecting, outside, wallet
<1>3. "inspecting" \in Stages /\ "inspect" \in Pcs BY DEF Stages, Pcs, Inspecting
<1>4. threads[w].fresh => Row(w).stage = "received" BY <1>1, FreshFacts DEF ThreadOk
<1>. QED BY <1>1, <1>2, <1>3, <1>4, MoveStep DEF StartInspecting

\* Goroutine w goes on with its copy, in what its stage allows.
LEMMA OpenCapsuleStep ==
    ASSUME Inv, NEW w \in Threads, OpenCapsule(w) PROVE Inv'
<1>1. threads[w].pc = "inspect" BY DEF OpenCapsule, At
<1>2. UNCHANGED kept /\ Binds /\ UNCHANGED prepared /\ prepared' \in [Launches -> Nat] /\ bound' = bound
  BY KeptSame DEF OpenCapsule, outside, wallet
<1>3. CASE Fail(w, "failed_retryable", "unsent") BY <1>1, <1>2, <1>3, FailRetryable DEF Inspecting
<1>4. CASE Continues(w, [Goes(w, IF Row(w).secret = "claim" THEN "review" ELSE "redeem") EXCEPT !.nonce = Row(w).nonce])
  <2> DEFINE x == IF Row(w).secret = "claim" THEN "review" ELSE "redeem"
             th == [Goes(w, x) EXCEPT !.nonce = Row(w).nonce]
  <2>1. x \in {"review", "redeem"} /\ (x = "review" => Row(w).secret = "claim") /\ x \in Pcs
    BY DEF Pcs, Inspecting
  <2>. HIDE DEF x
  <2>2. threads[w] \in ThreadType /\ Row(w).nonce \in Nat /\ Row(w).nonce <= rows[threads[w].id]
    BY <1>1, ThreadFacts, FreshFacts, RowFacts DEF RowOk, Row
  <2>3. th \in ThreadType /\ th.pc = x /\ th.id = threads[w].id /\ th.nonce = Row(w).nonce
        /\ th.fresh = threads[w].fresh
    BY <2>1, <2>2 DEF Goes, ThreadType
  <2>. HIDE DEF th
  <2>4. ThreadOk(th, Row(w), bound'[th.id], committed[th.id]) /\ ~Committing(th)
    BY <1>1, <1>2, <2>1, <2>3, FreshFacts DEF ThreadOk, Committing, Inspecting, Paying, Claiming
  <2>5. threads' = [threads EXCEPT ![w] = th] /\ UNCHANGED sessions BY <1>4 DEF Continues, th, x
  <2>6. th.id \in Launches /\ th.nonce <= rows[th.id] BY <1>1, <2>2, <2>3, FreshFacts
  <2>7. ThreadOk(th, sessions[th.id], bound'[th.id], committed[th.id]) BY <2>3, <2>4 DEF Row
  <2>. QED BY <1>2, <2>3, <2>4, <2>5, <2>6, <2>7, ThreadMoved
<1>. QED BY <1>3, <1>4 DEF OpenCapsule

\* redeem: the first client binds the handoff to its nonce.
LEMMA RedeemStep ==
    ASSUME Inv, NEW w \in Threads, Redeem(w) PROVE Inv'
<1> DEFINE s == threads[w].id
           n == threads[w].nonce
<1>1. threads[w].pc = "redeem" BY DEF Redeem, At
<1>2. s \in Launches /\ n \in Nat /\ n <= rows[s] BY <1>1, FreshFacts, ThreadFacts
<1>3. UNCHANGED kept /\ UNCHANGED prepared /\ prepared' \in [Launches -> Nat]
  BY DEF Redeem, wallet, kept, Inv, Types
<1>4. Binds
  <2>1. CASE bound' = bound BY <2>1, SameBinding
  <2>2. CASE Redeemable(s, n) /\ bound' = [bound EXCEPT ![s] = n]
    BY <1>2, <2>2 DEF Redeemable, Binds, Inv, Types
  <2>. QED BY <2>1, <2>2 DEF Redeem
<1>5. CASE Fail(w, "failed_retryable", "unsent") BY <1>1, <1>3, <1>4, <1>5, FailRetryable DEF Inspecting
<1>6. CASE bound' = [bound EXCEPT ![s] = n] /\ Continues(w, Goes(w, "redeemed"))
  <2> DEFINE th == Goes(w, "redeemed")
  <2>0. "redeemed" \in Pcs BY DEF Pcs, Inspecting
  <2>1. th \in ThreadType /\ th.pc = "redeemed" /\ th.id = s /\ th.nonce = n /\ th.fresh = threads[w].fresh
    BY <2>0, GoesFields
  <2>2. threads' = [threads EXCEPT ![w] = th] /\ UNCHANGED sessions BY <1>6 DEF Continues
  <2>. HIDE DEF th
  <2>3. bound'[s] = n BY <1>2, <1>6 DEF Inv, Types
  <2>4. ThreadOk(th, Row(w), bound'[s], committed[s]) /\ ~Committing(th)
    BY <1>1, <2>1, <2>3, FreshFacts DEF ThreadOk, Committing, Inspecting, Paying, Claiming
  <2>5. ThreadOk(th, sessions[th.id], bound'[th.id], committed[th.id]) BY <2>1, <2>4 DEF Row
  <2>. QED BY <1>2, <1>3, <1>4, <2>1, <2>2, <2>4, <2>5, ThreadMoved
<1>. QED BY <1>5, <1>6 DEF Redeem

\* SaveRedeemedCapsule: the row that is bound to its nonce has the merchant's capsule.
LEMMA SaveRedeemedCapsuleStep ==
    ASSUME Inv, NEW w \in Threads, SaveRedeemedCapsule(w) PROVE Inv'
<1> DEFINE row == [Row(w) EXCEPT !.secret = "claim"]
           th == Goes(w, "review")
           cond == Row(w).stage = "inspecting"
<1>1. threads[w].pc = "redeemed" BY DEF SaveRedeemedCapsule, At
<1>2. UNCHANGED kept /\ Binds /\ UNCHANGED prepared BY KeptSame DEF SaveRedeemedCapsule, outside, wallet
<1>3. CASE Fail(w, "invalid", "unsent") BY <1>1, <1>2, <1>3, FailEnds DEF Inspecting
<1>4. CASE Updates(w, cond, row, th)
  <2>0. "review" \in Pcs BY DEF Pcs, Inspecting
  <2>1. th \in ThreadType /\ th.pc = "review" /\ th.id = threads[w].id /\ th.nonce = threads[w].nonce
    BY <2>0, GoesFields
  <2>2. Row(w) \in RowType BY <1>1, FreshFacts
  <2>3. /\ row \in RowType /\ row.nonce = Row(w).nonce /\ row.tx = Row(w).tx /\ row.secret = "claim"
        /\ row.stage = Row(w).stage /\ row.key = Row(w).key /\ row.trust = Row(w).trust
        /\ row.retry = Row(w).retry /\ row.error = Row(w).error /\ row.delivery = Row(w).delivery
    BY <2>2 DEF RowType
  <2>4. Updates(w, cond, row, th) BY <1>4
  <2>. HIDE DEF row, th
  <2>5. threads[w].fresh => Row(w).nonce = threads[w].nonce /\ Row(w).nonce # 0 /\ Row(w).nonce = bound[threads[w].id]
    BY <1>1, FreshFacts DEF ThreadOk, RowOk
  <2>6. threads[w].fresh => RowOk(row, rows[threads[w].id], bound[threads[w].id], committed[threads[w].id], accepted)
    BY <1>1, <2>3, <2>5, FreshFacts DEF RowOk, Unreviewed
  <2>7. cond => ThreadOk(th, row, bound[threads[w].id], committed[threads[w].id]) /\ ~Committing(th)
    BY <1>1, <2>1, <2>3, FreshFacts DEF ThreadOk, Committing, Inspecting, Paying, Claiming
  <2>8. th.nonce <= rows[th.id] BY <1>1, <2>1, FreshFacts
  <2>. HIDE DEF cond
  <2>. QED BY <1>1, <1>2, <2>1, <2>3, <2>4, <2>6, <2>7, <2>8, UpdateStep
<1>. QED BY <1>3, <1>4 DEF SaveRedeemedCapsule

LEMMA InspectStep ==
    ASSUME Inv, NEW w \in Threads, Inspect(w) PROVE Inv'
<1>1. threads[w].pc = "review" BY DEF Inspect, At
<1>2. UNCHANGED kept /\ Binds /\ UNCHANGED prepared /\ prepared' \in [Launches -> Nat] /\ bound' = bound
  BY KeptSame DEF Inspect, outside, wallet
<1>3. CASE Fail(w, "failed_retryable", "unsent") BY <1>1, <1>2, <1>3, FailRetryable DEF Inspecting
<1>4. CASE Fail(w, IF threads[w].id \in expired THEN "expired" ELSE "invalid", "unsent")
  BY <1>1, <1>2, <1>4, FailEnds DEF Inspecting
<1>5. ASSUME NEW k \in Keys, Continues(w, [Goes(w, "reviewed") EXCEPT !.key = k]) PROVE Inv'
  <2> DEFINE th == [Goes(w, "reviewed") EXCEPT !.key = k]
  <2>1. threads[w] \in ThreadType /\ "reviewed" \in Pcs BY ThreadFacts DEF Pcs, Inspecting
  <2>2. th \in ThreadType /\ th.pc = "reviewed" /\ th.id = threads[w].id /\ th.nonce = threads[w].nonce
        /\ th.fresh = threads[w].fresh /\ th.key = k
    BY <2>1 DEF Goes, ThreadType
  <2>3. threads' = [threads EXCEPT ![w] = th] /\ UNCHANGED sessions BY <1>5 DEF Continues
  <2>. HIDE DEF th
  <2>4. ThreadOk(th, Row(w), bound'[threads[w].id], committed[threads[w].id]) /\ ~Committing(th)
    BY <1>1, <1>2, <2>2, FreshFacts DEF ThreadOk, Committing, Inspecting, Paying, Claiming
  <2>5. ThreadOk(th, sessions[th.id], bound'[th.id], committed[th.id]) BY <2>2, <2>4 DEF Row
  <2>. QED BY <1>1, <1>2, <2>2, <2>3, <2>4, <2>5, FreshFacts, ThreadMoved
<1>. QED BY <1>3, <1>4, <1>5 DEF Inspect

\* SaveReview: the identity is known, met first, or marked as changed.
LEMMA SaveReviewStep ==
    ASSUME Inv, NEW w \in Threads, SaveReview(w) PROVE Inv'
<1> DEFINE k == threads[w].key
           t == merchantTrustState(k)
           saves == threads[w].fresh /\ Row(w).stage = "inspecting"
           row == [Row(w) EXCEPT !.stage = "awaiting_approval", !.error = "none", !.key = k, !.trust = t]
<1>1. threads[w].pc = "reviewed" BY DEF SaveReview, At
<1>2. UNCHANGED <<rows, prepared, committed>> /\ Binds BY SameBinding DEF SaveReview, outside, wallet
<1>3. CASE ~saves
  <2>1. Continues(w, Returned(w)) BY <1>3 DEF SaveReview, Updates
  <2>2. UNCHANGED kept BY <1>2, <1>3 DEF SaveReview, kept
  <2>3. prepared' \in [Launches -> Nat] BY <1>2 DEF Inv, Types
  <2>. QED BY <1>1, <1>2, <2>1, <2>2, <2>3, ReturnStep
<1>4. CASE saves
  <2>1. Writes(w, row, Idle) BY <1>4 DEF SaveReview, Updates
  <2>2. k \in Keys \cup {NoKey} /\ t \in {"first", "previous", "changed"} /\ Row(w) \in RowType
    BY <1>1, ThreadFacts, FreshFacts DEF ThreadType, merchantTrustState
  <2>3. /\ known' = (IF t = "first" THEN k ELSE known)
        /\ accepted' = (IF t = "first" THEN accepted \cup {k} ELSE accepted)
    BY <1>4 DEF SaveReview
  <2>4. k \in Keys BY <1>1, FreshFacts DEF ThreadOk
  <2>5. /\ row \in RowType /\ row.stage = "awaiting_approval" /\ row.error = "none"
        /\ row.key = k /\ row.trust = t /\ row.nonce = Row(w).nonce /\ row.tx = Row(w).tx
        /\ row.secret = Row(w).secret
    <3>. HIDE DEF k, t
    <3>1. "awaiting_approval" \in Stages BY DEF Stages
    <3>. QED BY <2>2, <3>1 DEF RowType
  <2>6. /\ t = "first" => known = NoKey
        /\ t = "previous" => known = k /\ known # NoKey
    BY DEF merchantTrustState
  <2>. HIDE DEF row, t, k
  <2>7. /\ known' \in Keys \cup {NoKey} /\ accepted' \subseteq Keys /\ accepted \subseteq accepted'
        /\ known' # NoKey => known' \in accepted'
        /\ t \in {"first", "previous"} => k \in accepted'
    BY <2>3, <2>4, <2>6 DEF Inv, Types, KnownIsAccepted
  <2>8. Row(w).tx = 0 /\ Row(w).secret = "claim" /\ Row(w).nonce # 0 /\ Row(w).nonce = bound[threads[w].id]
        /\ Row(w).nonce <= rows[threads[w].id]
    BY <1>1, <1>4, FreshFacts DEF ThreadOk, RowOk
  <2>9. RowOk(row, rows[threads[w].id], bound[threads[w].id], committed[threads[w].id], accepted')
    BY <2>2, <2>4, <2>5, <2>7, <2>8 DEF RowOk, Unreviewed, PostBroadcast
  <2>10. Idle \in ThreadType /\ Idle.pc = "idle" /\ ~Committing(Idle)
         /\ ThreadOk(Idle, row, bound[threads[w].id], committed[threads[w].id])
    BY IdleType DEF ThreadOk, Committing
  <2>11. threads[w].fresh BY <1>4
  <2>. QED BY <1>2, <2>1, <2>5, <2>7, <2>9, <2>10, <2>11, WriteStep
<1>. QED BY <1>3, <1>4

\* The terms are checked under the lock, and the payment begins.
LEMMA CheckTermsStep ==
    ASSUME Inv, NEW w \in Threads, CheckTerms(w) PROVE Inv'
<1>1. threads[w].pc = "approve" BY DEF CheckTerms, At
<1>2. UNCHANGED kept /\ Binds /\ UNCHANGED prepared /\ prepared' \in [Launches -> Nat]
  BY KeptSame DEF CheckTerms, outside, wallet
<1>3. {"expired", "preparing_payment"} \subseteq Stages BY DEF Stages, Terminal
<1>4. threads[w].fresh => Approvable(Row(w)) /\ threads[w].nonce = Row(w).nonce
  BY <1>1, FreshFacts DEF ThreadOk
<1>5. \A to \in {"expired", "preparing_payment"}, e \in {"none", "unsent"} :
         threads[w].fresh => RowOk(Moved(Row(w), to, e), rows[threads[w].id], bound[threads[w].id],
                                   committed[threads[w].id], accepted)
  BY <1>1, <1>3, <1>4, FreshFacts, MovedOk
<1>6. CASE Transition(w, "expired", "unsent", Returned(w))
  BY <1>1, <1>2, <1>3, <1>5, <1>6, TransitionStep
<1>7. CASE Continues(w, Returned(w)) BY <1>1, <1>2, <1>7, ReturnStep
<1>8. CASE Transition(w, "preparing_payment", "none",
                      IF Prepares(Row(w)) THEN Goes(w, "prepare")
                      ELSE [Goes(w, "commit") EXCEPT !.tx = Row(w).tx])
  <2> DEFINE th == IF Prepares(Row(w)) THEN Goes(w, "prepare")
                   ELSE [Goes(w, "commit") EXCEPT !.tx = Row(w).tx]
             row == Moved(Row(w), "preparing_payment", "none")
  <2>1. Transition(w, "preparing_payment", "none", th) BY <1>8
  <2>2. threads[w] \in ThreadType /\ Row(w).tx \in Nat /\ {"prepare", "commit"} \subseteq Pcs
    BY <1>1, ThreadFacts, RowFacts, FreshFacts DEF Pcs, Paying, Row
  <2>3. /\ th \in ThreadType /\ th.id = threads[w].id /\ th.nonce = threads[w].nonce
        /\ \/ th.pc = "prepare"
           \/ th.pc = "commit" /\ th.tx = Row(w).tx /\ th.tx # 0
    BY <2>2 DEF Goes, Prepares, ThreadType
  <2>. HIDE DEF th
  <2>4. row.stage = "preparing_payment" /\ row.nonce = Row(w).nonce BY <1>1, FreshFacts DEF Moved, RowType
  <2>. HIDE DEF row
  <2>5. threads[w].fresh => ThreadOk(th, row, bound[threads[w].id], committed[threads[w].id])
    BY <1>1, <1>4, <2>3, <2>4, FreshFacts DEF ThreadOk, Inspecting, Paying, Claiming
  <2>6. th.nonce <= rows[th.id] BY <1>1, <2>3, FreshFacts
  <2>7. threads[w].fresh /\ Committing(th) => th.nonce = Row(w).nonce /\ th.tx = Row(w).tx /\ th.tx # 0
    BY <1>4, <2>3 DEF Committing
  <2>8. threads[w].fresh => RowOk(row, rows[threads[w].id], bound[threads[w].id], committed[threads[w].id], accepted)
    BY <1>5 DEF row
  <2>. QED BY <1>1, <1>2, <1>3, <2>1, <2>3, <2>5, <2>6, <2>7, <2>8, TransitionStep DEF row
<1>. QED BY <1>6, <1>7, <1>8 DEF CheckTerms

\* A payment that was not made goes back to the user.
LEMMA GiveBackStep ==
    ASSUME Inv, NEW w \in Threads, threads[w].pc \in Paying,
           Transition(w, "awaiting_approval", "unsent", Returned(w)), UNCHANGED kept, Binds, UNCHANGED prepared
    PROVE  Inv'
<1>1. threads[w].pc # "idle" /\ "awaiting_approval" \in Stages BY DEF Paying, Stages
<1>2. threads[w].fresh => Row(w).stage = "preparing_payment" BY <1>1, FreshFacts DEF ThreadOk
<1>3. threads[w].fresh => RowOk(Moved(Row(w), "awaiting_approval", "unsent"), rows[threads[w].id],
                                bound[threads[w].id], committed[threads[w].id], accepted)
  BY <1>1, <1>2, FreshFacts, MovedOk
<1>. QED BY <1>1, <1>3, TransitionStep

LEMMA PrepareStep ==
    ASSUME Inv, NEW w \in Threads, PrepareRecommendedPayment(w) PROVE Inv'
<1> DEFINE s == threads[w].id
<1>1. threads[w].pc = "prepare" BY DEF PrepareRecommendedPayment, At
<1>2. UNCHANGED kept /\ Binds /\ bound' = bound
  BY SameBinding DEF PrepareRecommendedPayment, outside, kept
<1>3. CASE UNCHANGED prepared /\ Transition(w, "awaiting_approval", "unsent", Returned(w))
  BY <1>1, <1>2, <1>3, GiveBackStep DEF Paying
<1>4. CASE /\ prepared' = [prepared EXCEPT ![s] = @ + 1]
           /\ Continues(w, [Goes(w, "journal") EXCEPT !.tx = prepared'[s]])
  <2> DEFINE n == prepared[s] + 1
             th == [Goes(w, "journal") EXCEPT !.tx = n]
  <2>1. s \in Launches /\ threads[w] \in ThreadType /\ "journal" \in Pcs
    BY <1>1, FreshFacts, ThreadFacts DEF Pcs, Paying
  <2>2. prepared' \in [Launches -> Nat] /\ prepared'[s] = n /\ n \in Nat /\ n # 0
    BY <1>4, <2>1 DEF Inv, Types
  <2>. HIDE DEF n
  <2>3. /\ th \in ThreadType /\ th.pc = "journal" /\ th.id = s /\ th.nonce = threads[w].nonce
        /\ th.fresh = threads[w].fresh /\ th.tx = n
    BY <2>1, <2>2 DEF Goes, ThreadType
  <2>4. threads' = [threads EXCEPT ![w] = th] /\ UNCHANGED sessions BY <1>4, <2>2 DEF Continues
  <2>. HIDE DEF th
  <2>5. ThreadOk(th, Row(w), bound'[s], committed[s]) /\ ~Committing(th)
    BY <1>1, <1>2, <2>2, <2>3, FreshFacts DEF ThreadOk, Committing, Inspecting, Paying, Claiming
  <2>6. ThreadOk(th, sessions[th.id], bound'[th.id], committed[th.id]) BY <2>3, <2>5 DEF Row
  <2>. QED BY <1>1, <1>2, <2>2, <2>3, <2>4, <2>5, <2>6, FreshFacts, ThreadMoved
<1>. QED BY <1>3, <1>4 DEF PrepareRecommendedPayment

\* The journal: written once in a row, by the goroutine that goes on to commit it.
LEMMA JournalStep ==
    ASSUME Inv, NEW w \in Threads, JournalPayment(w) PROVE Inv'
<1> DEFINE row == Journaled(Row(w), threads[w].tx)
           th == Goes(w, "commit")
           cond == Row(w).stage = "preparing_payment" /\ Unpaid(Row(w))
<1>1. threads[w].pc = "journal" /\ Updates(w, cond, row, th) BY DEF JournalPayment, At
<1>2. UNCHANGED kept /\ Binds /\ UNCHANGED prepared BY KeptSame DEF JournalPayment, outside, wallet
<1>3. "commit" \in Pcs BY DEF Pcs, Paying
<1>4. /\ th \in ThreadType /\ th.pc = "commit" /\ th.id = threads[w].id /\ th.nonce = threads[w].nonce
      /\ th.tx = threads[w].tx
  BY <1>3, GoesFields
<1>5. Row(w) \in RowType /\ threads[w].tx \in Nat /\ threads[w].tx # 0
  BY <1>1, ThreadFacts, FreshFacts DEF ThreadOk
<1>6. /\ row \in RowType /\ row.nonce = Row(w).nonce /\ row.tx = threads[w].tx /\ row.secret = Row(w).secret
      /\ row.stage = Row(w).stage /\ row.key = Row(w).key /\ row.trust = Row(w).trust
      /\ row.retry = Row(w).retry /\ row.error = Row(w).error /\ row.delivery = Row(w).delivery
  BY <1>5 DEF RowType, Journaled
<1>. HIDE DEF row, th
<1>7. cond => Row(w).tx = 0 /\ Row(w).stage = "preparing_payment" BY DEF Unpaid
<1>. HIDE DEF cond
<1>8. threads[w].fresh /\ cond =>
         RowOk(row, rows[threads[w].id], bound[threads[w].id], committed[threads[w].id], accepted)
  BY <1>1, <1>6, <1>7, FreshFacts DEF RowOk, Unreviewed, PostBroadcast
<1>9. threads[w].fresh => threads[w].nonce = Row(w).nonce BY <1>1, FreshFacts DEF ThreadOk, Paying
<1>10. threads[w].fresh /\ cond => ThreadOk(th, row, bound[threads[w].id], committed[threads[w].id])
  BY <1>1, <1>4, <1>6, <1>7, <1>9, FreshFacts DEF ThreadOk, Inspecting, Paying, Claiming
<1>11. th.nonce <= rows[th.id] BY <1>1, <1>4, FreshFacts
<1>. QED BY <1>1, <1>2, <1>4, <1>5, <1>6, <1>7, <1>8, <1>9, <1>10, <1>11, UpdateStep

\* The node has a transaction: it is the journaled one, and the same as any it had before.
LEMMA CommitStep ==
    ASSUME Inv, NEW w \in Threads, CommitPreparedPayment(w) PROVE Inv'
<1> DEFINE s == threads[w].id
           p == <<threads[w].nonce, threads[w].tx>>
           th == Goes(w, "committed")
<1>1. threads[w].pc = "commit" BY DEF CommitPreparedPayment, At
<1>2. UNCHANGED <<rows, bound, prepared, known, accepted>> BY DEF CommitPreparedPayment, outside
<1>3. CASE UNCHANGED committed /\ Transition(w, "awaiting_approval", "unsent", Returned(w))
  BY <1>1, <1>2, <1>3, KeptSame, GiveBackStep DEF Paying
<1>4. CASE committed' = [committed EXCEPT ![s] = @ \cup {p}] /\ Continues(w, th)
  <2>1. s \in Launches /\ p \in Nat \X Nat /\ threads[w] \in ThreadType /\ "committed" \in Pcs
    BY <1>1, FreshFacts, ThreadFacts DEF Pcs, Paying
  <2>2. /\ th \in ThreadType /\ th.pc = "committed" /\ th.id = s /\ th.nonce = threads[w].nonce
        /\ th.tx = threads[w].tx /\ th.fresh = threads[w].fresh
    BY <2>1, GoesFields
  <2>3. UNCHANGED sessions /\ threads' \in [Threads -> ThreadType] /\ threads'[w] = th
        /\ \A v \in Threads : v # w => threads'[v] = threads[v]
    BY <1>4, <2>2 DEF Continues, Inv, Types
  <2>4. /\ committed' \in [Launches -> SUBSET (Nat \X Nat)] /\ committed'[s] = committed[s] \cup {p}
        /\ \A r \in Launches : r # s => committed'[r] = committed[r]
    BY <1>4, <2>1 DEF Inv, Types
  <2>5. \A r \in Launches : committed[r] \subseteq committed'[r] BY <2>4
  <2>6. p[1] = threads[w].nonce /\ p[2] = threads[w].tx OBVIOUS
  <2>. HIDE DEF th, p
  <2>7. Types' BY <1>2, <2>3, <2>4 DEF Inv, Types
  <2>8. RowsOk' BY <1>2, <2>3, <2>5, RowFacts, RowGrows DEF RowsOk
  <2>9. ThreadsOk'
    <3>1. ASSUME NEW v \in Threads, v # w
          PROVE  ThreadOk(threads'[v], sessions'[threads'[v].id], bound'[threads'[v].id], committed'[threads'[v].id])
      <4>1. ThreadOk(threads[v], sessions[threads[v].id], bound[threads[v].id], committed[threads[v].id])
            /\ threads'[v] = threads[v]
        BY <2>3, <3>1, ThreadFacts
      <4>2. CASE threads[v].pc = "idle" BY <4>1, <4>2 DEF ThreadOk
      <4>3. CASE threads[v].pc # "idle"
        <5>1. committed[threads[v].id] \subseteq committed'[threads[v].id] BY <2>5, <4>3, ThreadFacts
        <5>. QED BY <1>2, <2>3, <4>1, <5>1 DEF ThreadOk
      <4>. QED BY <4>2, <4>3
    <3>2. ThreadOk(th, sessions[s], bound[s], committed'[s])
      <4>1. ThreadOk(threads[w], sessions[s], bound[s], committed[s]) BY ThreadFacts
      <4>2. <<th.nonce, th.tx>> \in committed'[s] BY <2>2, <2>4 DEF p
      <4>. QED BY <1>1, <2>1, <2>2, <4>1, <4>2 DEF ThreadOk, Inspecting, Paying, Claiming
    <3>3. ThreadOk(threads'[w], sessions'[threads'[w].id], bound'[threads'[w].id], committed'[threads'[w].id])
      BY <1>2, <2>2, <2>3, <3>2
    <3>. QED BY <3>1, <3>3 DEF ThreadsOk
  <2>10. \A v \in Threads :
           /\ Committing(threads'[v]) <=> Committing(threads[v])
           /\ threads'[v].id = threads[v].id
           /\ threads'[v].nonce = threads[v].nonce /\ threads'[v].tx = threads[v].tx
    BY <1>1, <2>2, <2>3 DEF Committing
  <2>11. Committing(threads[w]) BY <1>1 DEF Committing
  <2>12. PairsOk'
    <3>1. PairOk(p[1], p[2], sessions[s], bound[s]) BY <2>6, <2>11 DEF Inv, PairsOk
    <3>2. \A r \in Launches : \A c \in committed'[r] : PairOk(c[1], c[2], sessions[r], bound[r])
      BY <2>4, <3>1 DEF Inv, PairsOk
    <3>. QED BY <1>2, <2>3, <2>10, <3>2 DEF Inv, PairsOk
  <2>13. Agreed'
    <3>1. \A c \in committed[s] : c[2] = p[2] BY <2>6, <2>11 DEF Inv, Agreed
    <3>2. \A r \in Launches : \A c, d \in committed'[r] : c[2] = d[2] BY <2>4, <3>1 DEF Inv, Agreed
    <3>3. ASSUME NEW v \in Threads, Committing(threads'[v]), NEW c \in committed'[threads'[v].id]
          PROVE  c[2] = threads'[v].tx
      <4>1. Committing(threads[v]) /\ threads'[v].id = threads[v].id /\ threads'[v].tx = threads[v].tx
            /\ threads[v].id \in Launches
        BY <2>10, <3>3, ThreadFacts DEF Committing
      <4>2. CASE c \in committed[threads[v].id] BY <4>1, <4>2 DEF Inv, Agreed
      <4>3. CASE c \notin committed[threads[v].id]
        <5>1. threads[v].id = s /\ c = p BY <2>4, <3>3, <4>1, <4>3
        <5>2. threads[v].tx = threads[w].tx BY <2>11, <4>1, <5>1 DEF Inv, Agreed
        <5>. QED BY <2>6, <4>1, <5>1, <5>2
      <4>. QED BY <4>2, <4>3
    <3>. QED BY <2>10, <3>2, <3>3 DEF Inv, Agreed
  <2>14. Counted' /\ KnownIsAccepted' BY <1>2 DEF Inv, Counted, KnownIsAccepted
  <2>15. NoncesCounted' BY <1>1, <1>2, <2>2, <2>3 DEF Inv, NoncesCounted
  <2>. QED BY <2>7, <2>8, <2>9, <2>12, <2>13, <2>14, <2>15 DEF Inv
<1>. QED BY <1>3, <1>4 DEF CommitPreparedPayment

\* A row is at broadcast only after the node has its transaction.
LEMMA EnterBroadcastStep ==
    ASSUME Inv, NEW w \in Threads, EnterBroadcast(w) PROVE Inv'
<1> DEFINE th == Spawn(threads[w].id, "continue")
           row == Moved(Row(w), "broadcast", "none")
<1>1. threads[w].pc = "committed" /\ Transition(w, "broadcast", "none", th) BY DEF EnterBroadcast, At
<1>2. UNCHANGED kept /\ Binds /\ UNCHANGED prepared BY KeptSame DEF EnterBroadcast, outside, wallet
<1>3. "broadcast" \in Stages /\ "continue" \in Pcs BY DEF Stages, PostBroadcast, Pcs
<1>4. threads[w].id \in Launches /\ Row(w) \in RowType /\ rows[threads[w].id] \in Nat BY <1>1, FreshFacts
<1>5. th \in ThreadType /\ th.pc = "continue" /\ th.id = threads[w].id /\ th.nonce = 0
  BY <1>3, <1>4, SpawnFields
<1>6. threads[w].fresh => /\ Row(w).stage = "preparing_payment"
                          /\ Row(w).tx # 0 /\ <<Row(w).nonce, Row(w).tx>> \in committed[threads[w].id]
  <2>1. threads[w].fresh => Row(w).stage = "preparing_payment" /\ threads[w].nonce = Row(w).nonce
    BY <1>1, FreshFacts DEF ThreadOk, Paying
  <2>2. <<threads[w].nonce, threads[w].tx>> \in committed[threads[w].id] BY <1>1, FreshFacts DEF ThreadOk
  <2>3. PairOk(threads[w].nonce, threads[w].tx, Row(w), bound[threads[w].id])
    BY <1>1 DEF Inv, PairsOk, Committing, Row
  <2>. QED BY <2>1, <2>2, <2>3 DEF PairOk
<1>7. threads[w].fresh => RowOk(row, rows[threads[w].id], bound[threads[w].id], committed[threads[w].id], accepted)
  BY <1>1, <1>3, <1>6, FreshFacts, MovedOk
<1>8. row.stage = "broadcast" BY <1>4 DEF Moved, RowType
<1>9. ThreadOk(th, row, bound[threads[w].id], committed[threads[w].id]) /\ ~Committing(th)
  <2>. HIDE DEF th, row
  <2>. QED BY <1>4, <1>5, <1>8 DEF ThreadOk, Committing, Inspecting, Paying, Claiming
<1>10. th.nonce <= rows[th.id] BY <1>4, <1>5
<1>. HIDE DEF th
<1>. QED BY <1>1, <1>2, <1>3, <1>5, <1>7, <1>9, <1>10, TransitionStep

\* Goroutine w goes on as th; no row is written.
LEMMA GoOn ==
    ASSUME Inv, NEW w \in Threads, NEW th \in ThreadType, threads[w].pc # "idle", Continues(w, th),
           UNCHANGED <<known, rows, committed, bound, prepared, accepted>>,
           th.pc # "idle" => th.id = threads[w].id /\ th.nonce <= rows[th.id],
           ~Committing(th), ThreadOk(th, Row(w), bound[threads[w].id], committed[threads[w].id])
    PROVE  Inv'
<1>1. UNCHANGED kept /\ Binds /\ prepared' \in [Launches -> Nat] BY KeptSame
<1>2. threads' = [threads EXCEPT ![w] = th] /\ UNCHANGED sessions BY DEF Continues
<1>3. ThreadOk(th, sessions[th.id], bound'[th.id], committed[th.id])
  <2>1. CASE th.pc = "idle" BY <2>1 DEF ThreadOk
  <2>2. CASE th.pc # "idle" BY <2>2 DEF Row
  <2>. QED BY <2>1, <2>2
<1>4. th.pc # "idle" => th.id \in Launches BY FreshFacts
<1>. QED BY <1>1, <1>2, <1>3, <1>4, ThreadMoved

\* Goroutine w ends.
LEMMA IdleStep ==
    ASSUME Inv, NEW w \in Threads, Continues(w, Idle),
           UNCHANGED <<known, rows, committed, bound, prepared, accepted>>
    PROVE  Inv'
<1>1. UNCHANGED kept /\ Binds /\ prepared' \in [Launches -> Nat] BY KeptSame
<1>2. threads' = [threads EXCEPT ![w] = Idle] /\ UNCHANGED sessions BY DEF Continues
<1>3. ThreadOk(Idle, sessions[Idle.id], bound'[Idle.id], committed[Idle.id]) /\ ~Committing(Idle)
  BY IdleType DEF ThreadOk, Committing
<1>. QED BY <1>1, <1>2, <1>3, IdleType, ThreadMoved

\* Continue takes the lock and reads the row.
LEMMA ContinueStep ==
    ASSUME Inv, NEW w \in Threads, ContinueSession(w) PROVE Inv'
<1> DEFINE s == threads[w].id
           next == CASE sessions[s].stage = "broadcast" -> "broadcast"
                     [] sessions[s].stage = "submitting" -> "submit"
                     [] sessions[s].stage \in {"confirming", "fulfilling"} -> "claim"
                     [] OTHER -> "idle"
           th == [Spawn(s, next) EXCEPT !.locked = TRUE]
<1>1. threads[w].pc = "continue" BY DEF ContinueSession, At
<1>2. UNCHANGED <<known, rows, committed, bound, prepared, accepted>> BY DEF ContinueSession, outside, wallet
<1>3. CASE Continues(w, Idle) BY <1>2, <1>3, IdleStep
<1>4. CASE next # "idle" /\ Continues(w, th)
  <2>1. /\ next \in {"broadcast", "submit", "claim"}
        /\ next = "broadcast" => Row(w).stage = "broadcast"
        /\ next = "submit" => Row(w).stage = "submitting"
        /\ next = "claim" => Row(w).stage \in {"confirming", "fulfilling"}
    BY <1>4 DEF Row
  <2>2. Continues(w, th) BY <1>4
  <2>. HIDE DEF next
  <2>3. s \in Launches /\ rows[s] \in Nat /\ next \in Pcs BY <1>1, <2>1, FreshFacts DEF Pcs, Claiming
  <2>4. /\ th \in ThreadType /\ th.pc = next /\ th.id = s /\ th.nonce = 0
    BY <2>3 DEF Spawn, Idle, ThreadType
  <2>. HIDE DEF th
  <2>5. ThreadOk(th, Row(w), bound[s], committed[s]) /\ ~Committing(th)
    BY <2>1, <2>3, <2>4 DEF ThreadOk, Committing, Inspecting, Paying, Claiming
  <2>. QED BY <1>1, <1>2, <2>2, <2>3, <2>4, <2>5, GoOn
<1>. QED BY <1>3, <1>4 DEF ContinueSession

LEMMA StartSubmittingStep ==
    ASSUME Inv, NEW w \in Threads, StartSubmitting(w) PROVE Inv'
<1>1. threads[w].pc = "broadcast" BY DEF StartSubmitting, At
<1>2. UNCHANGED kept /\ Binds /\ UNCHANGED prepared BY KeptSame DEF StartSubmitting, outside, wallet
<1>3. "submitting" \in Stages /\ "submit" \in Pcs /\ "submitting" \in PostBroadcast
  BY DEF Stages, PostBroadcast, Pcs
<1>4. threads[w].fresh => Row(w).stage \in PostBroadcast BY <1>1, FreshFacts DEF ThreadOk, PostBroadcast
<1>. QED BY <1>1, <1>2, <1>3, <1>4, MoveStep DEF StartSubmitting

LEMMA SubmitStep ==
    ASSUME Inv, NEW w \in Threads, SubmitPayment(w) PROVE Inv'
<1>1. threads[w].pc = "submit" BY DEF SubmitPayment, At
<1>2. UNCHANGED kept /\ Binds /\ UNCHANGED prepared BY KeptSame DEF SubmitPayment, outside, wallet
<1>3. "confirming" \in Stages /\ "claim" \in Pcs /\ "confirming" \in PostBroadcast
  BY DEF Stages, PostBroadcast, Pcs, Claiming
<1>4. threads[w].fresh => Row(w).stage \in PostBroadcast BY <1>1, FreshFacts DEF ThreadOk, PostBroadcast
<1>5. CASE Fail(w, "failed_retryable", "sent") BY <1>1, <1>2, <1>5, FailRetryable
<1>6. CASE Transition(w, "confirming", "none", Goes(w, "claim")) BY <1>1, <1>2, <1>3, <1>4, <1>6, MoveStep
<1>. QED BY <1>5, <1>6 DEF SubmitPayment

LEMMA StartFulfillingStep ==
    ASSUME Inv, NEW w \in Threads, StartFulfilling(w) PROVE Inv'
<1>1. threads[w].pc = "fulfill" BY DEF StartFulfilling, At
<1>2. UNCHANGED kept /\ Binds /\ UNCHANGED prepared BY KeptSame DEF StartFulfilling, outside, wallet
<1>3. "fulfilling" \in Stages /\ "claim" \in Pcs /\ "fulfilling" \in PostBroadcast
  BY DEF Stages, PostBroadcast, Pcs, Claiming
<1>4. threads[w].fresh => Row(w).stage \in PostBroadcast BY <1>1, FreshFacts DEF ThreadOk, PostBroadcast
<1>. QED BY <1>1, <1>2, <1>3, <1>4, MoveStep DEF StartFulfilling

\* Goroutine w goes from one step of claiming to another.
LEMMA ClaimOn ==
    ASSUME Inv, NEW w \in Threads, threads[w].pc \in Claiming, NEW x \in Claiming \cup {"fulfill"},
           x = "fulfill" => Row(w).stage = "confirming", NEW d \in {"none", "valid", "invalid"},
           Continues(w, [Goes(w, x) EXCEPT !.delivery = d]),
           UNCHANGED <<known, rows, committed, bound, prepared, accepted>>
    PROVE  Inv'
<1> DEFINE th == [Goes(w, x) EXCEPT !.delivery = d]
<1>1. threads[w] \in ThreadType /\ x \in Pcs /\ threads[w].pc # "idle" BY ThreadFacts DEF Pcs, Claiming
<1>2. th \in ThreadType /\ th.pc = x /\ th.id = threads[w].id /\ th.nonce = threads[w].nonce
      /\ th.fresh = threads[w].fresh
  BY <1>1 DEF Goes, ThreadType
<1>3. Continues(w, th) OBVIOUS
<1>. HIDE DEF th
<1>4. ThreadOk(th, Row(w), bound[threads[w].id], committed[threads[w].id]) /\ ~Committing(th)
  BY <1>1, <1>2, FreshFacts DEF ThreadOk, Committing, Inspecting, Paying, Claiming
<1>. QED BY <1>1, <1>2, <1>3, <1>4, FreshFacts, GoOn

\* The delivery in a copy that has none is rewritten as it was.
LEMMA SameDelivery ==
    ASSUME Inv, NEW w \in Threads, NEW x \in Pcs
    PROVE  /\ Goes(w, x) = [Goes(w, x) EXCEPT !.delivery = threads[w].delivery]
           /\ threads[w].delivery \in {"none", "valid", "invalid"}
BY ThreadFacts DEF Goes, ThreadType

LEMMA ClaimStep ==
    ASSUME Inv, NEW w \in Threads, Claim(w) PROVE Inv'
<1>1. threads[w].pc \in Claiming BY DEF Claim, At, Claiming
<1>2. UNCHANGED <<known, rows, committed, bound, prepared, accepted>> BY DEF Claim, outside, wallet
<1>3. CASE Fail(w, "failed_retryable", "sent") BY <1>1, <1>2, <1>3, KeptSame, FailRetryable
<1>4. CASE Fail(w, "failed_terminal", "sent") BY <1>1, <1>2, <1>4, KeptSame, FailTerminal
<1>5. ASSUME NEW d \in {"valid", "invalid"}, Continues(w, [Goes(w, "delivered") EXCEPT !.delivery = d])
      PROVE  Inv'
  <2>1. "delivered" \in Claiming BY DEF Claiming
  <2>. QED BY <1>1, <1>2, <1>5, <2>1, ClaimOn
<1>6. ASSUME NEW x \in {"confirming", "processing"}, Continues(w, Goes(w, x)) PROVE Inv'
  <2>1. x \in Claiming /\ x \in Pcs /\ x # "fulfill" BY DEF Claiming, Pcs
  <2>2. Goes(w, x) = [Goes(w, x) EXCEPT !.delivery = threads[w].delivery]
        /\ threads[w].delivery \in {"none", "valid", "invalid"}
    BY <2>1, SameDelivery
  <2>3. Continues(w, [Goes(w, x) EXCEPT !.delivery = threads[w].delivery]) BY <1>6, <2>2
  <2>. QED BY <1>1, <1>2, <2>1, <2>2, <2>3, ClaimOn
<1>. QED BY <1>3, <1>4, <1>5, <1>6 DEF Claim

LEMMA SaveConfirmationsStep ==
    ASSUME Inv, NEW w \in Threads, SaveConfirmations(w) PROVE Inv'
<1> DEFINE x == IF At(w, "processing") /\ Row(w).stage = "confirming" THEN "fulfill" ELSE "claim"
           th == Goes(w, x)
<1>1. threads[w].pc \in Claiming BY DEF SaveConfirmations, At, Claiming
<1>2. UNCHANGED <<known, rows, committed, bound, prepared, accepted>> BY DEF SaveConfirmations, outside, wallet
<1>3. Updates(w, Claimed(Row(w)), Row(w), th) \/ Continues(w, th) BY DEF SaveConfirmations
<1>4. x \in {"claim", "fulfill"} /\ (x = "fulfill" => Row(w).stage = "confirming") OBVIOUS
<1>. HIDE DEF x
<1>5. x \in Claiming \cup {"fulfill"} /\ x \in Pcs BY <1>4 DEF Claiming, Pcs
<1>6. CASE Continues(w, th)
  <2>1. th = [th EXCEPT !.delivery = threads[w].delivery]
        /\ threads[w].delivery \in {"none", "valid", "invalid"}
    BY <1>5, SameDelivery
  <2>2. Continues(w, [th EXCEPT !.delivery = threads[w].delivery]) BY <1>6, <2>1
  <2>. QED BY <1>1, <1>2, <1>4, <1>5, <2>1, <2>2, ClaimOn
<1>7. CASE Updates(w, Claimed(Row(w)), Row(w), th)
  <2>1. th \in ThreadType /\ th.pc = x /\ th.id = threads[w].id /\ th.nonce = threads[w].nonce
        /\ th.fresh = threads[w].fresh
    BY <1>5, GoesFields
  <2>2. Updates(w, Claimed(Row(w)), Row(w), th) BY <1>7
  <2>. HIDE DEF th
  <2>3. threads[w].pc # "idle" BY <1>1 DEF Claiming
  <2>4. ThreadOk(th, Row(w), bound[threads[w].id], committed[threads[w].id]) /\ ~Committing(th)
    BY <1>1, <1>4, <2>1, <2>3, FreshFacts DEF ThreadOk, Committing, Inspecting, Paying, Claiming
  <2>5. UNCHANGED kept /\ Binds /\ UNCHANGED prepared BY <1>2, KeptSame
  <2>. QED BY <2>1, <2>2, <2>3, <2>4, <2>5, FreshFacts, UpdateStep
<1>. QED BY <1>3, <1>6, <1>7

LEMMA SaveDeliveryStep ==
    ASSUME Inv, NEW w \in Threads, SaveDelivery(w) PROVE Inv'
<1> DEFINE row == [Row(w) EXCEPT !.stage = "verifying", !.error = "none", !.delivery = threads[w].delivery]
           th == Goes(w, "verify")
<1>1. threads[w].pc = "delivered" /\ Updates(w, Claimed(Row(w)), row, th) BY DEF SaveDelivery, At
<1>2. UNCHANGED kept /\ Binds /\ UNCHANGED prepared BY KeptSame DEF SaveDelivery, outside, wallet
<1>3. "verify" \in Pcs /\ "verifying" \in Stages BY DEF Pcs, Stages, PostBroadcast
<1>4. th \in ThreadType /\ th.pc = "verify" /\ th.id = threads[w].id /\ th.nonce = threads[w].nonce
  BY <1>3, GoesFields
<1>5. Row(w) \in RowType /\ threads[w].delivery \in {"none", "valid", "invalid"}
  BY <1>1, FreshFacts, ThreadFacts DEF ThreadType
<1>6. /\ row \in RowType /\ row.nonce = Row(w).nonce /\ row.tx = Row(w).tx /\ row.secret = Row(w).secret
      /\ row.stage = "verifying" /\ row.key = Row(w).key /\ row.trust = Row(w).trust /\ row.error = "none"
  BY <1>3, <1>5 DEF RowType
<1>. HIDE DEF row, th
<1>7. threads[w].fresh => RowOk(row, rows[threads[w].id], bound[threads[w].id], committed[threads[w].id], accepted)
  <2>1. threads[w].fresh => Row(w).stage \in {"confirming", "fulfilling"}
    BY <1>1, FreshFacts DEF ThreadOk, Claiming
  <2>. QED BY <1>1, <1>6, <2>1, FreshFacts DEF RowOk, Unreviewed, PostBroadcast
<1>8. ThreadOk(th, row, bound[threads[w].id], committed[threads[w].id]) /\ ~Committing(th)
  BY <1>1, <1>4, <1>6, FreshFacts DEF ThreadOk, Committing, Inspecting, Paying, Claiming
<1>9. th.nonce <= rows[th.id] BY <1>1, <1>4, FreshFacts
<1>. QED BY <1>1, <1>2, <1>4, <1>6, <1>7, <1>8, <1>9, UpdateStep

LEMMA VerifyStep ==
    ASSUME Inv, NEW w \in Threads, VerifyDelivery(w) PROVE Inv'
<1> DEFINE th == Goes(w, "complete")
<1>1. threads[w].pc = "verify" BY DEF VerifyDelivery, At
<1>2. UNCHANGED <<known, rows, committed, bound, prepared, accepted>> BY DEF VerifyDelivery, outside, wallet
<1>3. ASSUME NEW e \in {"sent", "delivery_invalid"}, Fail(w, "failed_retryable", e) PROVE Inv'
  BY <1>1, <1>2, <1>3, KeptSame, FailRetryable
<1>4. CASE Verifies(Row(w)) /\ Continues(w, th)
  <2>1. "complete" \in Pcs BY DEF Pcs
  <2>2. th \in ThreadType /\ th.pc = "complete" /\ th.id = threads[w].id /\ th.nonce = threads[w].nonce
        /\ th.fresh = threads[w].fresh
    BY <2>1, GoesFields
  <2>3. Continues(w, th) /\ Row(w).delivery = "valid" BY <1>4 DEF Verifies
  <2>. HIDE DEF th
  <2>4. ThreadOk(th, Row(w), bound[threads[w].id], committed[threads[w].id]) /\ ~Committing(th)
    BY <1>1, <2>2, <2>3, FreshFacts DEF ThreadOk, Committing, Inspecting, Paying, Claiming
  <2>. QED BY <1>1, <1>2, <2>2, <2>3, <2>4, FreshFacts, GoOn
<1>. QED BY <1>3, <1>4 DEF VerifyDelivery

LEMMA CompleteStep ==
    ASSUME Inv, NEW w \in Threads, Complete(w) PROVE Inv'
<1> DEFINE row == [Row(w) EXCEPT !.stage = "complete", !.error = "none", !.secret = "erased"]
           th == Returned(w)
           cond == Row(w).stage = "verifying"
<1>1. threads[w].pc = "complete" /\ Updates(w, cond, row, th) BY DEF Complete, At
<1>2. UNCHANGED kept /\ Binds /\ UNCHANGED prepared BY KeptSame DEF Complete, outside, wallet
<1>3. "complete" \in Stages BY DEF Stages, Terminal
<1>4. Row(w) \in RowType BY <1>1, FreshFacts
<1>5. /\ row \in RowType /\ row.nonce = Row(w).nonce /\ row.tx = Row(w).tx /\ row.secret = "erased"
      /\ row.stage = "complete" /\ row.key = Row(w).key /\ row.trust = Row(w).trust
      /\ row.delivery = Row(w).delivery
  BY <1>3, <1>4 DEF RowType
<1>6. /\ th \in ThreadType /\ ~Committing(th)
      /\ th.pc # "idle" => th.id = threads[w].id /\ th.nonce <= rows[th.id]
      /\ ThreadOk(th, row, bound[threads[w].id], committed[threads[w].id])
  BY <1>1, ReturnedOk, FreshFacts DEF ThreadOk, Committing
<1>. HIDE DEF row, th
<1>7. threads[w].fresh /\ cond =>
        RowOk(row, rows[threads[w].id], bound[threads[w].id], committed[threads[w].id], accepted)
  <2>1. threads[w].fresh => Row(w).delivery = "valid" BY <1>1, FreshFacts DEF ThreadOk
  <2>. QED BY <1>1, <1>5, <2>1, FreshFacts DEF RowOk, Unreviewed, PostBroadcast
<1>. HIDE DEF cond
<1>. QED BY <1>1, <1>2, <1>5, <1>6, <1>7, UpdateStep

\* Retry, at the stage that failed.
LEMMA StartRetryStep ==
    ASSUME Inv, NEW w \in Threads, StartRetry(w) PROVE Inv'
<1> DEFINE to == RetryStage(Row(w))
           next == CASE to = "inspecting" -> "inspect"
                     [] to = "verifying" -> "verify"
                     [] OTHER -> "continue"
           cond == Row(w).stage = "failed_retryable" /\ validClientTransition("failed_retryable", to)
           row == Moved(Row(w), to, "none")
           th == Goes(w, next)
<1>1. threads[w].pc = "retry" /\ Updates(w, cond, row, th) BY DEF StartRetry, At
<1>2. UNCHANGED kept /\ Binds /\ UNCHANGED prepared BY KeptSame DEF StartRetry, outside, wallet
<1>3. /\ next \in {"inspect", "verify", "continue"}
      /\ next = "inspect" => to = "inspecting"
      /\ next = "verify" => to = "verifying"
  OBVIOUS
<1>4. cond => to \in {"inspecting", "submitting", "confirming", "fulfilling", "verifying"}
  BY DEF validClientTransition
<1>5. cond => to \in Stages BY <1>4 DEF Stages, PostBroadcast
<1>6. Row(w) \in RowType BY <1>1, FreshFacts
<1>7. threads[w].fresh /\ cond =>
        RowOk(row, rows[threads[w].id], bound[threads[w].id], committed[threads[w].id], accepted)
  BY <1>1, <1>5, FreshFacts, MovedOk
<1>. HIDE DEF next
<1>8. cond => row \in RowType /\ row.stage = to /\ row.nonce = Row(w).nonce /\ row.tx = Row(w).tx
  <2>. HIDE DEF to
  <2>. QED BY <1>5, <1>6, ZenonT(60) DEF Moved, RowType
<1>9. next \in Pcs BY <1>3 DEF Pcs, Inspecting
<1>10. th \in ThreadType /\ th.pc = next /\ th.id = threads[w].id /\ th.nonce = threads[w].nonce
  BY <1>9, GoesFields
<1>. HIDE DEF row, th, cond, to
<1>11. cond => ThreadOk(th, row, bound[threads[w].id], committed[threads[w].id]) /\ ~Committing(th)
  BY <1>1, <1>3, <1>4, <1>8, <1>10, FreshFacts DEF ThreadOk, Committing, Inspecting, Paying, Claiming
<1>12. th.nonce <= rows[th.id] BY <1>1, <1>10, FreshFacts
<1>. QED BY <1>1, <1>2, <1>7, <1>8, <1>10, <1>11, <1>12, UpdateStep

LEMMA EndStep ==
    ASSUME Inv, NEW w \in Threads, ReleaseLock(w) \/ DatabaseFails(w) PROVE Inv'
<1>1. UNCHANGED <<known, rows, committed, bound, prepared, accepted>> /\ Continues(w, Idle)
  BY DEF ReleaseLock, DatabaseFails, outside, wallet
<1>. QED BY <1>1, IdleStep

LEMMA CrashStep == ASSUME Inv, Crash PROVE Inv'
<1>1. UNCHANGED <<sessions, known, rows, committed, bound, prepared, accepted>>
      /\ threads' = [w \in Threads |-> Idle]
  BY DEF Crash, table, outside, wallet
<1>2. \A w \in Threads : threads'[w].pc = "idle" /\ ~threads'[w].fresh BY <1>1, IdleType
<1>3. Types' BY <1>1, IdleType DEF Inv, Types
<1>4. RowsOk' /\ Counted' /\ KnownIsAccepted' BY <1>1 DEF Inv, RowsOk, Counted, KnownIsAccepted
<1>5. ThreadsOk' BY <1>2 DEF ThreadsOk, ThreadOk
<1>6. PairsOk' /\ Agreed' BY <1>1, <1>2 DEF Inv, PairsOk, Agreed, Committing
<1>7. NoncesCounted' BY <1>2 DEF NoncesCounted
<1>. QED BY <1>3, <1>4, <1>5, <1>6, <1>7 DEF Inv

\* A goroutine is started for s, on the row as it is.
LEMMA SpawnStep ==
    ASSUME Inv, NEW s \in Launches, NEW w \in Threads, NEW th \in ThreadType,
           threads' = [threads EXCEPT ![w] = th], th.id = s, th.pc # "idle", th.nonce <= rows[s],
           UNCHANGED <<sessions, known, rows, committed, bound, prepared, accepted>>,
           ~Committing(th), ThreadOk(th, sessions[s], bound[s], committed[s])
    PROVE  Inv'
BY KeptSame, ThreadMoved

LEMMA ReceiveAgainStep ==
    ASSUME Inv, NEW s \in Launches, ReceiveAgain(s) PROVE Inv'
<1> DEFINE x == IF sessions[s].stage = "received" THEN "received" ELSE "inspect"
           th == Spawn(s, x)
<1>1. UNCHANGED <<sessions, known, rows, committed, bound, prepared, accepted>>
  BY DEF ReceiveAgain, table, outside, wallet
<1>2. PICK w \in Threads : threads' = [threads EXCEPT ![w] = th] BY DEF ReceiveAgain
<1>3. /\ x \in {"received", "inspect"}
      /\ x = "received" => sessions[s].stage = "received"
      /\ x = "inspect" => sessions[s].stage = "inspecting"
  BY DEF ReceiveAgain
<1>. HIDE DEF x
<1>4. x \in Pcs /\ rows[s] \in Nat BY <1>3, RowFacts DEF Pcs, Inspecting
<1>5. th \in ThreadType /\ th.pc = x /\ th.id = s /\ th.nonce = 0 BY <1>4, SpawnFields, ZenonT(40)
<1>. HIDE DEF th
<1>6. ThreadOk(th, sessions[s], bound[s], committed[s]) /\ ~Committing(th)
  BY <1>3, <1>5 DEF ThreadOk, Committing, Inspecting, Paying, Claiming
<1>7. th.nonce <= rows[s] /\ th.pc # "idle" BY <1>3, <1>4, <1>5
<1>. QED BY <1>1, <1>2, <1>5, <1>6, <1>7, SpawnStep

LEMMA RetryStep ==
    ASSUME Inv, NEW s \in Launches, Retry(s) PROVE Inv'
<1> DEFINE th == Spawn(s, "retry")
<1>1. UNCHANGED <<sessions, known, rows, committed, bound, prepared, accepted>>
      /\ sessions[s].stage = "failed_retryable"
  BY DEF Retry, table, outside, wallet
<1>2. PICK w \in Threads : threads' = [threads EXCEPT ![w] = th] BY DEF Retry
<1>4. "retry" \in Pcs /\ rows[s] \in Nat BY RowFacts DEF Pcs
<1>5. th \in ThreadType /\ th.pc = "retry" /\ th.id = s /\ th.nonce = 0 BY <1>4, SpawnFields
<1>. HIDE DEF th
<1>6. ThreadOk(th, sessions[s], bound[s], committed[s]) /\ ~Committing(th)
  BY <1>1, <1>5 DEF ThreadOk, Committing, Inspecting, Paying, Claiming
<1>7. th.nonce <= rows[s] /\ th.pc # "idle" BY <1>4, <1>5
<1>. QED BY <1>1, <1>2, <1>5, <1>6, <1>7, SpawnStep

LEMMA ApproveStep ==
    ASSUME Inv, NEW s \in Launches, Approve(s) PROVE Inv'
<1> DEFINE th == [Spawn(s, "approve") EXCEPT !.locked = TRUE, !.nonce = sessions[s].nonce]
<1>1. UNCHANGED <<sessions, known, rows, committed, bound, prepared, accepted>> /\ Approvable(sessions[s])
  BY DEF Approve, table, outside, wallet
<1>2. PICK w \in Threads : threads' = [threads EXCEPT ![w] = th] BY DEF Approve
<1>3. "approve" \in Pcs /\ sessions[s].nonce \in Nat /\ sessions[s].nonce <= rows[s]
  BY RowFacts DEF Pcs, RowOk
<1>4. th \in ThreadType /\ th.pc = "approve" /\ th.id = s /\ th.nonce = sessions[s].nonce
  BY <1>3 DEF Spawn, Idle, ThreadType
<1>. HIDE DEF th
<1>5. sessions[s].stage # "none" BY <1>1 DEF Approvable
<1>6. ThreadOk(th, sessions[s], bound[s], committed[s]) /\ ~Committing(th)
  BY <1>1, <1>4, <1>5 DEF ThreadOk, Committing, Inspecting, Paying, Claiming
<1>. QED BY <1>1, <1>2, <1>3, <1>4, <1>6, SpawnStep

\* The user refuses what was not paid.
LEMMA RejectStep ==
    ASSUME Inv, NEW s \in Launches, Reject(s) PROVE Inv'
<1> DEFINE row == Terminated(sessions[s], "rejected", "unsent")
<1>1. UNCHANGED <<known, rows, committed, bound, prepared, accepted>> /\ WritesAlone(s, row)
      /\ sessions[s].tx = 0
  BY DEF Reject, outside, wallet, Unpaid
<1>2. sessions[s].stage = "awaiting_approval"
  BY RowFacts DEF Reject, validClientTransition
<1>3. sessions[s] \in RowType /\ "rejected" \in Stages BY RowFacts DEF Stages, Terminal
<1>4. /\ row \in RowType /\ row.nonce = sessions[s].nonce /\ row.tx = sessions[s].tx /\ row.secret = "erased"
      /\ row.stage = "rejected" /\ row.key = sessions[s].key /\ row.trust = sessions[s].trust
  BY <1>3 DEF Terminated, RowType
<1>. HIDE DEF row
<1>5. RowOk(row, rows[s], bound[s], committed[s], accepted)
  BY <1>1, <1>2, <1>4, RowFacts DEF RowOk, Unreviewed, PostBroadcast
<1>6. known \in Keys \cup {NoKey} /\ accepted \subseteq Keys /\ (known # NoKey => known \in accepted)
  BY DEF Inv, Types, KnownIsAccepted
<1>. QED BY <1>1, <1>4, <1>5, <1>6, SameBinding, WriteAloneStep

\* The user trusts the new identity of the merchant.
LEMMA TrustStep ==
    ASSUME Inv, NEW s \in Launches, ReestablishMerchantTrust(s) PROVE Inv'
<1> DEFINE row == [sessions[s] EXCEPT !.trust = "previous"]
<1>1. /\ UNCHANGED <<rows, committed, bound, prepared>> /\ WritesAlone(s, row)
      /\ sessions[s].stage = "awaiting_approval" /\ sessions[s].trust = "changed"
      /\ known' = sessions[s].key /\ accepted' = accepted \cup {known'}
  BY DEF ReestablishMerchantTrust, outside, wallet
<1>2. sessions[s] \in RowType BY RowFacts
<1>3. /\ row \in RowType /\ row.nonce = sessions[s].nonce /\ row.tx = sessions[s].tx
      /\ row.secret = sessions[s].secret /\ row.stage = sessions[s].stage /\ row.key = sessions[s].key
      /\ row.trust = "previous" /\ row.retry = sessions[s].retry /\ row.error = sessions[s].error
      /\ row.delivery = sessions[s].delivery
  BY <1>2 DEF RowType
<1>. HIDE DEF row
<1>4. sessions[s].key \in Keys BY <1>1, RowFacts DEF RowOk
<1>5. /\ known' \in Keys \cup {NoKey} /\ accepted' \subseteq Keys /\ accepted \subseteq accepted'
      /\ known' \in accepted'
  BY <1>1, <1>4 DEF Inv, Types
<1>6. RowOk(row, rows[s], bound[s], committed[s], accepted')
  BY <1>1, <1>3, <1>5, RowFacts DEF RowOk, Unreviewed, PostBroadcast
<1>. QED BY <1>1, <1>3, <1>5, <1>6, SameBinding, WriteAloneStep

\* A row of s is replaced by one with another nonce, or by none.
LEMMA RowReplaced ==
    ASSUME Inv, NEW s \in Launches, NEW row \in RowType, sessions' = [sessions EXCEPT ![s] = row],
           UNCHANGED <<known, committed, bound, prepared, accepted>>,
           threads' \in [Threads -> ThreadType], rows' \in [Launches -> Nat],
           \A r \in Launches : rows[r] <= rows'[r] /\ (r # s => rows'[r] = rows[r]),
           RowOk(row, rows'[s], bound[s], committed[s], accepted),
           row.nonce = 0 \/ row.nonce > rows[s],
           \A v \in Threads : Committing(threads'[v]) =>
              /\ Committing(threads[v]) /\ threads'[v].id = threads[v].id
              /\ threads'[v].nonce = threads[v].nonce /\ threads'[v].tx = threads[v].tx,
           \A v \in Threads : threads'[v].pc # "idle" => threads'[v].nonce <= rows'[threads'[v].id],
           \A v \in Threads : ThreadOk(threads'[v], sessions'[threads'[v].id], bound[threads'[v].id],
                                       committed[threads'[v].id])
    PROVE  Inv'
<1>1. /\ sessions' \in [Launches -> RowType] /\ sessions'[s] = row
      /\ \A r \in Launches : r # s => sessions'[r] = sessions[r]
  BY DEF Inv, Types
<1>2. Types' BY <1>1 DEF Inv, Types
<1>3. RowsOk'
  <2>1. \A r \in Launches : RowOk(sessions'[r], rows'[r], bound[r], committed[r], accepted)
    BY <1>1, RowFacts
  <2>. QED BY <2>1 DEF RowsOk
<1>4. ThreadsOk' BY DEF ThreadsOk
<1>5. ASSUME NEW r \in Launches, NEW n, NEW t, PairOk(n, t, sessions[r], bound[r])
      PROVE  PairOk(n, t, sessions'[r], bound[r])
  <2>1. CASE r # s BY <1>1, <1>5, <2>1
  <2>2. CASE r = s
    <3>1. bound[s] \in Nat /\ rows[s] \in Nat /\ bound[s] <= rows[s] /\ row.nonce \in Nat
      BY RowFacts DEF RowType
    <3>2. n = bound[s] /\ n # 0 /\ t # 0 BY <1>5, <2>2 DEF PairOk
    <3>3. row.nonce # n BY <3>1, <3>2
    <3>. QED BY <1>1, <2>2, <3>2, <3>3 DEF PairOk
  <2>. QED BY <2>1, <2>2
<1>6. PairsOk'
  <2>1. \A r \in Launches : \A c \in committed[r] : PairOk(c[1], c[2], sessions'[r], bound[r])
    BY <1>5 DEF Inv, PairsOk
  <2>2. ASSUME NEW v \in Threads, Committing(threads'[v])
        PROVE  PairOk(threads'[v].nonce, threads'[v].tx, sessions'[threads'[v].id], bound[threads'[v].id])
    <3>1. PairOk(threads[v].nonce, threads[v].tx, sessions[threads[v].id], bound[threads[v].id])
          /\ threads[v].id \in Launches
      BY <2>2, ThreadFacts DEF Inv, PairsOk, Committing
    <3>. QED BY <1>5, <2>2, <3>1
  <2>. QED BY <2>1, <2>2 DEF PairsOk
<1>7. Agreed' BY DEF Inv, Agreed
<1>8. Counted'
  <2> SUFFICES ASSUME NEW r \in Launches PROVE bound[r] <= rows'[r] BY DEF Counted
  <2>1. bound[r] \in Nat /\ rows[r] \in Nat /\ bound[r] <= rows[r] BY RowFacts
  <2>2. rows'[r] \in Nat /\ rows[r] <= rows'[r] OBVIOUS
  <2>. QED BY <2>1, <2>2
<1>9. KnownIsAccepted' /\ NoncesCounted' BY DEF Inv, KnownIsAccepted, NoncesCounted
<1>. QED BY <1>2, <1>3, <1>4, <1>6, <1>7, <1>8, <1>9 DEF Inv

\* CreateReceived: the new row has a nonce that nobody has used.
LEMMA ReceiveStep ==
    ASSUME Inv, NEW s \in Launches, Receive(s) PROVE Inv'
<1> DEFINE n == rows[s] + 1
           row == [NoSession EXCEPT !.stage = "received", !.secret = "handoff", !.nonce = n]
           th == Spawn(s, "received")
<1>1. UNCHANGED <<known, committed, bound, prepared, accepted>> /\ sessions[s] = NoSession
      /\ rows' = [rows EXCEPT ![s] = @ + 1]
  BY DEF Receive, outside, wallet
<1>2. PICK w \in Threads : threads[w] = Idle /\ threads' = [threads EXCEPT ![w] = th] BY DEF Receive
<1>3. /\ rows' \in [Launches -> Nat] /\ rows'[s] = n /\ n \in Nat /\ n # 0 /\ n > rows[s] /\ rows[s] \in Nat
      /\ \A r \in Launches : rows[r] <= rows'[r] /\ (r # s => rows'[r] = rows[r])
  BY <1>1 DEF Inv, Types
<1>4. sessions' = [sessions EXCEPT ![s] = row] BY <1>3 DEF Receive
<1>. HIDE DEF n
<1>5. /\ row \in RowType /\ row.stage = "received" /\ row.secret = "handoff" /\ row.nonce = n
      /\ row.tx = 0 /\ row.trust = "none"
  BY <1>3 DEF NoSession, RowType, Stages
<1>6. "received" \in Pcs BY DEF Pcs
<1>7. th \in ThreadType /\ th.pc = "received" /\ th.id = s /\ th.nonce = 0 BY <1>6, SpawnFields
<1>. HIDE DEF row, th
<1>8. threads' \in [Threads -> ThreadType] /\ threads'[w] = th
      /\ \A v \in Threads : v # w => threads'[v] = threads[v]
  BY <1>2, <1>7 DEF Inv, Types
<1>9. RowOk(row, rows'[s], bound[s], committed[s], accepted)
  BY <1>3, <1>5 DEF RowOk, Unreviewed, PostBroadcast
<1>10. ~Committing(th) /\ ThreadOk(th, row, bound[s], committed[s])
  BY <1>5, <1>7 DEF ThreadOk, Committing, Inspecting, Paying, Claiming
<1>11. sessions'[s] = row /\ \A r \in Launches : r # s => sessions'[r] = sessions[r] BY <1>4 DEF Inv, Types
<1>12. ASSUME NEW v \in Threads
       PROVE  ThreadOk(threads'[v], sessions'[threads'[v].id], bound[threads'[v].id], committed[threads'[v].id])
  <2>1. CASE v = w BY <1>7, <1>8, <1>10, <1>11, <2>1
  <2>2. CASE v # w
    <3>1. threads'[v] = threads[v]
          /\ ThreadOk(threads[v], sessions[threads[v].id], bound[threads[v].id], committed[threads[v].id])
      BY <1>8, <2>2, ThreadFacts
    <3>2. CASE threads[v].fresh
      <4>1. threads[v].id \in Launches /\ threads[v].id # s
        BY <1>1, <3>1, <3>2, ThreadFacts, NoSessionType DEF ThreadOk
      <4>. QED BY <1>11, <3>1, <4>1
    <3>3. CASE ~threads[v].fresh BY <3>1, <3>3 DEF ThreadOk
    <3>. QED BY <3>2, <3>3
  <2>. QED BY <2>1, <2>2
<1>13. ASSUME NEW v \in Threads, threads'[v].pc # "idle" PROVE threads'[v].nonce <= rows'[threads'[v].id]
  <2>1. CASE v = w BY <1>3, <1>7, <1>8, <2>1
  <2>2. CASE v # w
    <3>1. /\ threads'[v] = threads[v] /\ threads[v].id \in Launches /\ threads[v].nonce \in Nat
          /\ threads[v].nonce <= rows[threads[v].id] /\ rows[threads[v].id] \in Nat
      BY <1>8, <1>13, <2>2, ThreadFacts, RowFacts
    <3>2. rows[threads[v].id] <= rows'[threads[v].id] /\ rows'[threads[v].id] \in Nat BY <1>3, <3>1
    <3>. QED BY <3>1, <3>2
  <2>. QED BY <2>1, <2>2
<1>14. \A v \in Threads : Committing(threads'[v]) => threads'[v] = threads[v] BY <1>8, <1>10
<1>15. row.nonce > rows[s] BY <1>3, <1>5
<1>. QED BY <1>1, <1>3, <1>4, <1>5, <1>8, <1>9, <1>12, <1>13, <1>14, <1>15, RowReplaced

\* DeleteSession: whoever still has the row has a stale copy of it.
LEMMA DeleteStep ==
    ASSUME Inv, NEW s \in Launches, DeleteSession(s) PROVE Inv'
<1>1. /\ UNCHANGED <<known, rows, committed, bound, prepared, accepted>>
      /\ sessions' = [sessions EXCEPT ![s] = NoSession]
      /\ threads' = [w \in Threads |->
                      IF threads[w].id = s /\ threads[w].pc \in {"continue", "inspect"}
                      THEN Idle ELSE Stale(s)[w]]
  BY DEF DeleteSession, outside, wallet
<1>2. \A v \in Threads : threads'[v] = Idle \/ threads'[v] = Stale(s)[v] BY <1>1
<1>3. threads' \in [Threads -> ThreadType]
  <2>1. \A v \in Threads : Stale(s)[v] \in ThreadType BY StaleThread
  <2>. QED BY <1>1, <2>1, IdleType
<1>4. sessions'[s] = NoSession /\ \A r \in Launches : r # s => sessions'[r] = sessions[r]
  BY <1>1 DEF Inv, Types
<1>5. RowOk(NoSession, rows[s], bound[s], committed[s], accepted) BY RowFacts, NoSessionOk
<1>6. \A v \in Threads :
        \/ threads'[v].pc = "idle" /\ ~threads'[v].fresh
        \/ /\ threads'[v].pc = threads[v].pc /\ threads'[v].id = threads[v].id
           /\ threads'[v].nonce = threads[v].nonce /\ threads'[v].tx = threads[v].tx
           /\ threads'[v].key = threads[v].key
           /\ threads'[v].fresh => threads[v].fresh /\ threads[v].id # s /\ threads'[v] = threads[v]
  BY <1>2, IdleType, StaleThread
<1>7. ASSUME NEW v \in Threads
      PROVE  ThreadOk(threads'[v], sessions'[threads'[v].id], bound[threads'[v].id], committed[threads'[v].id])
  <2>1. CASE threads'[v].fresh
    <3>1. threads'[v] = threads[v] /\ threads[v].fresh /\ threads[v].id # s BY <1>6, <2>1
    <3>2. threads[v].id \in Launches BY <3>1, ThreadFacts
    <3>. QED BY <1>4, <3>1, <3>2, ThreadFacts
  <2>2. CASE ~threads'[v].fresh
    <3>1. CASE threads'[v].pc = "idle" BY <2>2, <3>1 DEF ThreadOk
    <3>2. CASE threads'[v].pc # "idle"
      <4>1. ThreadOk(threads[v], sessions[threads[v].id], bound[threads[v].id], committed[threads[v].id])
        BY ThreadFacts
      <4>. QED BY <1>6, <2>2, <3>2, <4>1 DEF ThreadOk
    <3>. QED BY <3>1, <3>2
  <2>. QED BY <2>1, <2>2
<1>8. \A v \in Threads : Committing(threads'[v]) =>
         /\ Committing(threads[v]) /\ threads'[v].id = threads[v].id
         /\ threads'[v].nonce = threads[v].nonce /\ threads'[v].tx = threads[v].tx
  BY <1>6 DEF Committing
<1>9. \A v \in Threads : threads'[v].pc # "idle" => threads'[v].nonce <= rows'[threads'[v].id]
  BY <1>1, <1>6, ThreadFacts
<1>10. /\ rows' \in [Launches -> Nat]
       /\ \A r \in Launches : rows[r] <= rows'[r] /\ (r # s => rows'[r] = rows[r])
  BY <1>1 DEF Inv, Types
<1>11. RowOk(NoSession, rows'[s], bound[s], committed[s], accepted) /\ NoSession.nonce = 0 BY <1>1, <1>5, NoSessionType
<1>. QED BY <1>1, <1>3, <1>7, <1>8, <1>9, <1>10, <1>11, NoSessionType, RowReplaced

\* Recover: a payment that was under way goes back to the user, other work is started again.
LEMMA RecoverStep ==
    ASSUME Inv, NEW s \in Launches, Recover(s) PROVE Inv'
<1>1. UNCHANGED <<known, rows, committed, bound, prepared, accepted>> BY DEF Recover, outside, wallet
<1>2. CASE sessions[s].stage = "preparing_payment"
  <2> DEFINE row == Moved(sessions[s], "awaiting_approval", "unsent")
  <2>1. WritesAlone(s, row) BY <1>2 DEF Recover
  <2>2. sessions[s] \in RowType /\ "awaiting_approval" \in Stages BY RowFacts DEF Stages
  <2>3. row \in RowType /\ row.nonce = sessions[s].nonce /\ row.tx = sessions[s].tx
    BY <2>2 DEF Moved, RowType
  <2>4. RowOk(row, rows[s], bound[s], committed[s], accepted) BY <1>2, <2>2, RowFacts, MovedOk
  <2>. HIDE DEF row
  <2>5. known \in Keys \cup {NoKey} /\ accepted \subseteq Keys /\ (known # NoKey => known \in accepted)
    BY DEF Inv, Types, KnownIsAccepted
  <2>. QED BY <1>1, <2>1, <2>3, <2>4, <2>5, SameBinding, WriteAloneStep
<1>3. CASE sessions[s].stage # "preparing_payment"
  <2> DEFINE x == RecoveryOf(sessions[s])
             th == Spawn(s, x)
  <2>1. UNCHANGED sessions BY <1>3 DEF Recover
  <2>2. /\ x \in {"received", "inspect", "continue", "verify", "retry", "idle"}
        /\ x = "received" => sessions[s].stage = "received"
        /\ x = "inspect" => sessions[s].stage = "inspecting"
        /\ x = "continue" => sessions[s].stage \in PostBroadcast
        /\ x = "verify" => sessions[s].stage = "verifying"
        /\ x = "retry" => sessions[s].stage = "failed_retryable"
    BY DEF RecoveryOf
  <2>3. CASE x = "idle"
    <3>1. UNCHANGED threads BY <1>3, <2>3 DEF Recover
    <3>. QED BY <1>1, <2>1, <3>1 DEF Inv, Types, RowsOk, ThreadsOk, PairsOk, Agreed, Counted,
                                     NoncesCounted, KnownIsAccepted
  <2>4. CASE x # "idle"
    <3>1. PICK w \in Threads : threads' = [threads EXCEPT ![w] = th] BY <1>3, <2>4 DEF Recover
    <3>. HIDE DEF x
    <3>2. x \in Pcs /\ rows[s] \in Nat BY <2>2, RowFacts DEF Pcs, Inspecting
    <3>3. th \in ThreadType /\ th.pc = x /\ th.id = s /\ th.nonce = 0 BY <3>2, SpawnFields, ZenonT(40)
    <3>. HIDE DEF th
    <3>4. ThreadOk(th, sessions[s], bound[s], committed[s]) /\ ~Committing(th)
      BY <2>2, <2>4, <3>3 DEF ThreadOk, Committing, Inspecting, Paying, Claiming, PostBroadcast
    <3>5. th.nonce <= rows[s] /\ th.pc # "idle" BY <2>4, <3>2, <3>3
    <3>. QED BY <1>1, <2>1, <3>1, <3>3, <3>4, <3>5, SpawnStep
  <2>. QED BY <2>3, <2>4
<1>. QED BY <1>2, <1>3

LEMMA Untouched ==
    ASSUME Inv, UNCHANGED <<sessions, threads, known, rows, committed, bound, prepared, accepted>> PROVE Inv'
BY DEF Inv, Types, RowsOk, ThreadsOk, PairsOk, Agreed, Counted, NoncesCounted, KnownIsAccepted

LEMMA InvStep == Inv /\ [Next]_vars => Inv'
<1> SUFFICES ASSUME Inv, [Next]_vars PROVE Inv' OBVIOUS
<1>1. CASE UNCHANGED vars BY <1>1, Untouched DEF vars, table, outside, wallet
<1>2. ASSUME NEW s \in Launches, User(s) PROVE Inv'
  BY <1>2, ReceiveStep, ReceiveAgainStep, ApproveStep, RejectStep, TrustStep, RetryStep, DeleteStep DEF User
<1>3. ASSUME NEW w \in Threads, Step(w) PROVE Inv'
  BY <1>3, StartInspectingStep, OpenCapsuleStep, RedeemStep, SaveRedeemedCapsuleStep, InspectStep,
     SaveReviewStep, CheckTermsStep, PrepareStep, JournalStep, CommitStep, EnterBroadcastStep,
     ContinueStep, StartSubmittingStep, SubmitStep, ClaimStep, SaveConfirmationsStep,
     StartFulfillingStep, SaveDeliveryStep, VerifyStep, CompleteStep, StartRetryStep, EndStep DEF Step
<1>4. ASSUME NEW w \in Threads, DatabaseFails(w) PROVE Inv' BY <1>4, EndStep
<1>5. CASE Crash BY <1>5, CrashStep
<1>6. ASSUME NEW s \in Launches, Recover(s) PROVE Inv' BY <1>6, RecoverStep
<1>7. ASSUME NEW s \in Launches, Expire(s) PROVE Inv' BY <1>7, Untouched DEF Expire, table, wallet
<1>. QED BY <1>1, <1>2, <1>3, <1>4, <1>5, <1>6, <1>7 DEF Next

LEMMA InvHolds == Spec => []Inv
BY InitInv, InvStep, PTL DEF Spec

-----------------------------------------------------------------------------
\* One link is paid at most once, whatever is approved twice, interrupted, recovered, or deleted and
\* opened again: all payments of a link have the nonce the merchant is bound to, and one journal.
THEOREM OnePayment == Spec => []PaidOnce
<1>1. Inv => PaidOnce
  <2> SUFFICES ASSUME Inv, NEW s \in Launches PROVE Cardinality(committed[s]) <= 1 BY DEF PaidOnce
  <2>1. committed[s] \subseteq Nat \X Nat BY DEF Inv, Types
  <2>2. \A c, d \in committed[s] : c[1] = d[1] /\ c[2] = d[2]
    BY DEF Inv, PairsOk, PairOk, Agreed
  <2>3. \A c, d \in committed[s] : c = d BY <2>1, <2>2
  <2>4. CASE committed[s] = {} BY <2>4, FS_EmptySet
  <2>5. CASE committed[s] # {}
    <3>1. PICK c \in committed[s] : TRUE BY <2>5
    <3>2. committed[s] = {c} BY <2>3, <3>1
    <3>3. Cardinality({c}) = 1 BY FS_Singleton
    <3>. QED BY <3>2, <3>3
  <2>. QED BY <2>4, <2>5
<1>. QED BY <1>1, InvHolds, PTL

\* Every payment the node has is in the journal of its row, if that row is still there.
LEMMA JournalFirst == Inv => JournaledBeforeCommit
BY DEF Inv, PairsOk, PairOk, JournaledBeforeCommit

LEMMA AcceptedIsPaid == Inv => PaysAcceptedIdentity
<1> SUFFICES ASSUME Inv, NEW s \in Launches, Paid(s) PROVE sessions[s].key \in accepted
  BY DEF PaysAcceptedIdentity
<1>1. PairOk(sessions[s].nonce, sessions[s].tx, sessions[s], bound[s])
  <2>1. <<sessions[s].nonce, sessions[s].tx>> \in committed[s] BY DEF Paid
  <2>. QED BY <2>1 DEF Inv, PairsOk
<1>2. sessions[s].tx # 0 BY <1>1 DEF PairOk
<1>. QED BY <1>2, RowFacts DEF RowOk

\* What the node has been given was journaled before, and went to an identity that the user
\* had met first or trusted again.
THEOREM CommitsReviewed == Spec => []CommitsAreReviewed
<1>1. Inv => CommitsAreReviewed BY JournalFirst, AcceptedIsPaid DEF CommitsAreReviewed
<1>. QED BY <1>1, InvHolds, PTL

LEMMA RefusedUnpaid == Inv => RefusedIsUnpaid
<1> SUFFICES ASSUME Inv, NEW s \in Launches, sessions[s].stage \in {"rejected", "invalid"},
                    NEW c \in committed[s]
             PROVE  c[1] # sessions[s].nonce
  BY DEF RefusedIsUnpaid
<1>1. sessions[s].tx = 0 BY RowFacts DEF RowOk
<1>2. PairOk(c[1], c[2], sessions[s], bound[s]) BY DEF Inv, PairsOk
<1>. QED BY <1>1, <1>2 DEF PairOk

LEMMA CompleteVerified == Inv => CompleteIsVerified
<1> SUFFICES ASSUME Inv, NEW s \in Launches, sessions[s].stage = "complete"
             PROVE  Paid(s) /\ sessions[s].delivery = "valid"
  BY DEF CompleteIsVerified
<1>. QED BY RowFacts DEF RowOk, Paid

\* What was rejected or found invalid was not paid; what is complete was paid, and its
\* delivery verified.
THEOREM EndsTruthful == Spec => []EndsTellTheTruth
<1>1. Inv => EndsTellTheTruth BY RefusedUnpaid, CompleteVerified DEF EndsTellTheTruth
<1>. QED BY <1>1, InvHolds, PTL

\* Rows have their types, and a session that failed has a stage it can be retried from.
THEOREM ClientTypeOK == Spec => []TypeOK
<1>1. Inv => TypeOK
  <2> SUFFICES ASSUME Inv PROVE TypeOK OBVIOUS
  <2>1. ASSUME NEW s \in Launches, sessions[s].stage = "failed_retryable"
        PROVE  validClientTransition("failed_retryable", RetryStage(sessions[s]))
    <3>1. RetryStage(sessions[s]) \in {"inspecting", "submitting", "confirming", "fulfilling", "verifying"}
      BY <2>1, RowFacts DEF RowOk, RetryStage
    <3>. QED BY <3>1 DEF validClientTransition
  <2>. QED BY <2>1 DEF Inv, Types, RowType, TypeOK
<1>. QED BY <1>1, InvHolds, PTL

-----------------------------------------------------------------------------
(* What a write does with a session that was broadcast.                    *)

KeepsRow(old, new) ==
    Sent(old) => /\ Sent(new) \/ new.stage \in {"complete", "failed_terminal"}
                 /\ new.error # "unsent"
                 /\ new.tx = old.tx

\* A row that is not written is kept.
LEMMA RowKept ==
    ASSUME Inv, NEW s \in Launches PROVE KeepsRow(sessions[s], sessions[s])
<1>1. RowOk(sessions[s], rows[s], bound[s], committed[s], accepted) BY RowFacts
<1>2. CASE sessions[s].stage \in PostBroadcast BY <1>1, <1>2 DEF KeepsRow, RowOk
<1>3. CASE sessions[s].stage = "failed_retryable" BY <1>1, <1>3 DEF KeepsRow, RowOk, Sent, Unreviewed
<1>. QED BY <1>2, <1>3 DEF KeepsRow, Sent

LEMMA OneRowWritten ==
    ASSUME Inv, NEW s \in Launches, NEW row, sessions' = [sessions EXCEPT ![s] = row],
           KeepsRow(sessions[s], row)
    PROVE  KeepsBroadcast
<1>1. sessions'[s] = row /\ \A r \in Launches : r # s => sessions'[r] = sessions[r] BY DEF Inv, Types
<1>2. \A r \in Launches : KeepsRow(sessions[r], sessions'[r]) BY <1>1, RowKept
<1>. QED BY <1>2 DEF KeepsBroadcast, KeepsRow

LEMMA NoRowWritten == ASSUME Inv, UNCHANGED sessions PROVE KeepsBroadcast
<1>1. \A r \in Launches : KeepsRow(sessions[r], sessions'[r]) BY RowKept
<1>. QED BY <1>1 DEF KeepsBroadcast, KeepsRow

LEMMA UpdateKeeps ==
    ASSUME Inv, NEW w \in Threads, threads[w].pc # "idle", NEW cond, NEW row, NEW th,
           Updates(w, cond, row, th), threads[w].fresh /\ cond => KeepsRow(Row(w), row)
    PROVE  KeepsBroadcast
<1>1. CASE threads[w].fresh /\ cond
  <2>1. sessions' = [sessions EXCEPT ![threads[w].id] = row] BY <1>1 DEF Updates, Writes
  <2>2. threads[w].id \in Launches BY FreshFacts
  <2>3. KeepsRow(sessions[threads[w].id], row) BY <1>1 DEF Row
  <2>. QED BY <2>1, <2>2, <2>3, OneRowWritten
<1>2. CASE ~(threads[w].fresh /\ cond) BY <1>2, NoRowWritten DEF Updates, Continues
<1>. QED BY <1>1, <1>2

Early == {"received", "approve"} \cup Inspecting \cup Paying

\* Who inspects or pays has no fresh copy of a session that was broadcast.
LEMMA EarlyKeeps ==
    ASSUME Inv, NEW w \in Threads, threads[w].pc \in Early,
           (\E cond, row, th : Updates(w, cond, row, th)) \/ UNCHANGED sessions
    PROVE  KeepsBroadcast
<1>1. CASE UNCHANGED sessions BY <1>1, NoRowWritten
<1>2. ASSUME NEW cond, NEW row, NEW th, Updates(w, cond, row, th) PROVE KeepsBroadcast
  <2>1. threads[w].pc # "idle" BY DEF Early, Inspecting, Paying
  <2>2. threads[w].fresh => Row(w).stage \in {"received", "inspecting", "awaiting_approval", "preparing_payment"}
    BY <2>1, FreshFacts DEF ThreadOk, Early, Approvable
  <2>3. threads[w].fresh => KeepsRow(Row(w), row) BY <2>2 DEF KeepsRow, Sent, PostBroadcast
  <2>. QED BY <1>2, <2>1, <2>3, UpdateKeeps
<1>. QED BY <1>1, <1>2

\* A failure is an update of the row.
LEMMA FailUpdates ==
    ASSUME NEW w, NEW to, NEW e, Fail(w, to, e) PROVE \E cond, row, th : Updates(w, cond, row, th)
BY DEF Fail, Terminate, Transition

\* A move within or out of the stages after the broadcast, which does not say that nothing was sent.
LEMMA LateMoveKeeps ==
    ASSUME Inv, NEW w \in Threads, threads[w].pc # "idle",
           NEW to \in PostBroadcast \cup {"failed_retryable", "failed_terminal"},
           NEW e \in {"none", "sent", "delivery_invalid"}, NEW th, Transition(w, to, e, th),
           threads[w].fresh => Row(w).stage \in PostBroadcast
    PROVE  KeepsBroadcast
<1> DEFINE row == Moved(Row(w), to, e)
           cond == validClientTransition(Row(w).stage, to)
<1>1. Updates(w, cond, row, th) BY DEF Transition
<1>2. Row(w) \in RowType BY FreshFacts
<1>3. row.stage = to /\ row.error = e /\ row.tx = Row(w).tx BY <1>2 DEF Moved, RowType
<1>4. threads[w].fresh => Row(w).tx # 0 BY FreshFacts DEF RowOk
<1>. HIDE DEF row, cond
<1>5. threads[w].fresh => KeepsRow(Row(w), row) BY <1>3, <1>4 DEF KeepsRow, Sent
<1>. QED BY <1>1, <1>5, UpdateKeeps

\* The same of ClientManager.fail.
LEMMA LateFailKeeps ==
    ASSUME Inv, NEW w \in Threads, threads[w].pc \in Claiming \cup {"submit", "verify"},
           NEW to \in {"failed_retryable", "failed_terminal"}, NEW e \in {"sent", "delivery_invalid"},
           Fail(w, to, e)
    PROVE  KeepsBroadcast
<1>1. threads[w].pc # "idle" BY DEF Claiming
<1>2. Transition(w, to, e, Returned(w)) BY DEF Fail
<1>3. threads[w].fresh => Row(w).stage \in PostBroadcast
  BY <1>1, FreshFacts DEF ThreadOk, PostBroadcast
<1>. QED BY <1>1, <1>2, <1>3, LateMoveKeeps

LEMMA EarlyStepsKeep ==
    ASSUME Inv, NEW w \in Threads,
           \/ StartInspecting(w) \/ OpenCapsule(w) \/ Redeem(w) \/ SaveRedeemedCapsule(w)
           \/ Inspect(w) \/ SaveReview(w) \/ CheckTerms(w) \/ PrepareRecommendedPayment(w)
           \/ JournalPayment(w) \/ CommitPreparedPayment(w) \/ EnterBroadcast(w)
    PROVE  KeepsBroadcast
<1>1. threads[w].pc \in Early
  BY DEF StartInspecting, OpenCapsule, Redeem, SaveRedeemedCapsule, Inspect, SaveReview, CheckTerms,
         PrepareRecommendedPayment, JournalPayment, CommitPreparedPayment, EnterBroadcast,
         At, Early, Inspecting, Paying
<1> DEFINE Either == (\E cond, row, th : Updates(w, cond, row, th)) \/ UNCHANGED sessions
<1>2. \A to, e : Fail(w, to, e) => Either BY FailUpdates
<1>3. \A to, e, th : Transition(w, to, e, th) => Either BY DEF Transition
<1>4. \A th : Continues(w, th) => Either BY DEF Continues
<1>5. \A cond, row, th : Updates(w, cond, row, th) => Either OBVIOUS
<1>. HIDE DEF Either
<1>6. Either
  <2>1. CASE StartInspecting(w) \/ EnterBroadcast(w) BY <1>3, <2>1 DEF StartInspecting, EnterBroadcast
  <2>2. CASE OpenCapsule(w) BY <1>2, <1>4, <2>2 DEF OpenCapsule
  <2>3. CASE Redeem(w) BY <1>2, <1>4, <2>3 DEF Redeem
  <2>4. CASE SaveRedeemedCapsule(w) BY <1>2, <1>5, <2>4 DEF SaveRedeemedCapsule
  <2>5. CASE Inspect(w) BY <1>2, <1>4, <2>5 DEF Inspect
  <2>6. CASE SaveReview(w) BY <1>5, <2>6 DEF SaveReview
  <2>7. CASE CheckTerms(w) BY <1>3, <1>4, <2>7 DEF CheckTerms
  <2>8. CASE PrepareRecommendedPayment(w) BY <1>3, <1>4, <2>8 DEF PrepareRecommendedPayment
  <2>9. CASE JournalPayment(w) BY <1>5, <2>9 DEF JournalPayment
  <2>10. CASE CommitPreparedPayment(w) BY <1>3, <1>4, <2>10 DEF CommitPreparedPayment
  <2>. QED BY <2>1, <2>2, <2>3, <2>4, <2>5, <2>6, <2>7, <2>8, <2>9, <2>10
<1>. QED BY <1>1, <1>6, EarlyKeeps DEF Either

LEMMA LateStepsKeep ==
    ASSUME Inv, NEW w \in Threads,
           \/ ContinueSession(w) \/ StartSubmitting(w) \/ SubmitPayment(w) \/ Claim(w)
           \/ SaveConfirmations(w) \/ StartFulfilling(w) \/ SaveDelivery(w)
           \/ VerifyDelivery(w) \/ Complete(w) \/ StartRetry(w) \/ ReleaseLock(w) \/ DatabaseFails(w)
    PROVE  KeepsBroadcast
<1>0. {"submitting", "confirming", "fulfilling"} \subseteq PostBroadcast BY DEF PostBroadcast
<1>1. \A th : Continues(w, th) => KeepsBroadcast BY NoRowWritten DEF Continues
<1>2. threads[w].pc # "idle" => /\ threads[w].id \in Launches /\ Row(w) \in RowType
                                /\ KeepsRow(Row(w), Row(w))
  BY FreshFacts, RowKept DEF Row
<1>3. CASE ContinueSession(w) \/ ReleaseLock(w) \/ DatabaseFails(w)
  BY <1>1, <1>3 DEF ContinueSession, ReleaseLock, DatabaseFails
<1>4. CASE StartSubmitting(w)
  <2>1. threads[w].pc = "broadcast" /\ Transition(w, "submitting", "none", Goes(w, "submit"))
    BY <1>4 DEF StartSubmitting, At
  <2>2. threads[w].fresh => Row(w).stage \in PostBroadcast BY <2>1, FreshFacts DEF ThreadOk, PostBroadcast
  <2>. QED BY <1>0, <2>1, <2>2, LateMoveKeeps
<1>5. CASE SubmitPayment(w)
  <2>1. threads[w].pc = "submit" BY <1>5 DEF SubmitPayment, At
  <2>2. threads[w].fresh => Row(w).stage \in PostBroadcast BY <2>1, FreshFacts DEF ThreadOk, PostBroadcast
  <2>3. CASE Fail(w, "failed_retryable", "sent") BY <2>1, <2>3, LateFailKeeps
  <2>4. CASE Transition(w, "confirming", "none", Goes(w, "claim")) BY <1>0, <2>1, <2>2, <2>4, LateMoveKeeps
  <2>. QED BY <1>5, <2>3, <2>4 DEF SubmitPayment
<1>6. CASE Claim(w)
  <2>1. threads[w].pc \in Claiming BY <1>6 DEF Claim, At, Claiming
  <2>. QED BY <1>1, <1>6, <2>1, LateFailKeeps DEF Claim
<1>7. CASE SaveConfirmations(w)
  <2>1. threads[w].pc # "idle" BY <1>7 DEF SaveConfirmations, At
  <2>. QED BY <1>1, <1>2, <1>7, <2>1, UpdateKeeps DEF SaveConfirmations
<1>8. CASE StartFulfilling(w)
  <2>1. threads[w].pc = "fulfill" /\ Transition(w, "fulfilling", "none", Goes(w, "claim"))
    BY <1>8 DEF StartFulfilling, At
  <2>2. threads[w].fresh => Row(w).stage \in PostBroadcast BY <2>1, FreshFacts DEF ThreadOk, PostBroadcast
  <2>. QED BY <1>0, <2>1, <2>2, LateMoveKeeps
<1>9. CASE SaveDelivery(w)
  <2> DEFINE row == [Row(w) EXCEPT !.stage = "verifying", !.error = "none", !.delivery = threads[w].delivery]
  <2>1. threads[w].pc = "delivered" /\ Updates(w, Claimed(Row(w)), row, Goes(w, "verify"))
    BY <1>9 DEF SaveDelivery, At
  <2>2. row.stage = "verifying" /\ row.error = "none" /\ row.tx = Row(w).tx BY <1>2, <2>1 DEF RowType
  <2>. HIDE DEF row
  <2>3. KeepsRow(Row(w), row) BY <2>2 DEF KeepsRow, Sent, PostBroadcast
  <2>. QED BY <2>1, <2>3, UpdateKeeps
<1>10. CASE VerifyDelivery(w)
  <2>1. threads[w].pc = "verify" BY <1>10 DEF VerifyDelivery, At
  <2>. QED BY <1>1, <1>10, <2>1, LateFailKeeps DEF VerifyDelivery
<1>11. CASE Complete(w)
  <2> DEFINE row == [Row(w) EXCEPT !.stage = "complete", !.error = "none", !.secret = "erased"]
  <2>1. threads[w].pc = "complete" /\ Updates(w, Row(w).stage = "verifying", row, Returned(w))
    BY <1>11 DEF Complete, At
  <2>2. row.stage = "complete" /\ row.error = "none" /\ row.tx = Row(w).tx BY <1>2, <2>1 DEF RowType
  <2>. HIDE DEF row
  <2>3. KeepsRow(Row(w), row) BY <2>2 DEF KeepsRow
  <2>. QED BY <2>1, <2>3, UpdateKeeps
<1>12. CASE StartRetry(w)
  <2> DEFINE to == RetryStage(Row(w))
             row == Moved(Row(w), to, "none")
             cond == Row(w).stage = "failed_retryable" /\ validClientTransition("failed_retryable", to)
  <2>1. threads[w].pc = "retry" /\ \E th : Updates(w, cond, row, th) BY <1>12 DEF StartRetry, At
  <2>2. row.stage = to /\ row.error = "none" /\ row.tx = Row(w).tx BY <1>2, <2>1 DEF Moved, RowType
  <2>3. threads[w].fresh /\ cond => KeepsRow(Row(w), row)
    <3> SUFFICES ASSUME cond, Sent(Row(w)) PROVE to \in PostBroadcast
      BY <2>2 DEF KeepsRow, Sent
    <3>1. Row(w).tx # 0 /\ Row(w).stage = "failed_retryable" BY DEF Sent, PostBroadcast
    <3>2. Row(w).retry \in {"submitting", "confirming", "fulfilling", "verifying"}
      BY <2>1, <3>1, FreshFacts DEF RowOk, Unreviewed
    <3>. QED BY <3>2 DEF RetryStage, PostBroadcast
  <2>. HIDE DEF cond, row
  <2>. QED BY <2>1, <2>3, UpdateKeeps
<1>. QED BY <1>3, <1>4, <1>5, <1>6, <1>7, <1>8, <1>9, <1>10, <1>11, <1>12

LEMMA UserStepsKeep ==
    ASSUME Inv, NEW s \in Launches, User(s) \/ Recover(s) PROVE KeepsBroadcast
<1>1. CASE ReceiveAgain(s) \/ Approve(s) \/ Retry(s) BY <1>1, NoRowWritten DEF ReceiveAgain, Approve, Retry, table
<1>2. CASE Receive(s)
  <2>1. PICK row : sessions' = [sessions EXCEPT ![s] = row] /\ sessions[s] = NoSession BY <1>2 DEF Receive
  <2>2. KeepsRow(sessions[s], row) BY <2>1, NoSessionType DEF KeepsRow, Sent, PostBroadcast
  <2>. QED BY <2>1, <2>2, OneRowWritten
<1>3. CASE Reject(s)
  <2>1. PICK row : sessions' = [sessions EXCEPT ![s] = row] BY <1>3 DEF Reject, WritesAlone
  <2>2. sessions[s].stage = "awaiting_approval" BY <1>3 DEF Reject, validClientTransition
  <2>3. KeepsRow(sessions[s], row) BY <2>2 DEF KeepsRow, Sent, PostBroadcast
  <2>. QED BY <2>1, <2>3, OneRowWritten
<1>4. CASE ReestablishMerchantTrust(s)
  <2>1. PICK row : sessions' = [sessions EXCEPT ![s] = row] BY <1>4 DEF ReestablishMerchantTrust, WritesAlone
  <2>2. sessions[s].stage = "awaiting_approval" BY <1>4 DEF ReestablishMerchantTrust
  <2>3. KeepsRow(sessions[s], row) BY <2>2 DEF KeepsRow, Sent, PostBroadcast
  <2>. QED BY <2>1, <2>3, OneRowWritten
<1>5. CASE DeleteSession(s)
  <2>1. sessions' = [sessions EXCEPT ![s] = NoSession] /\ Deletable(sessions[s]) BY <1>5 DEF DeleteSession
  <2>2. KeepsRow(sessions[s], NoSession)
    BY <2>1 DEF KeepsRow, Sent, PostBroadcast, Deletable, Terminal
  <2>. QED BY <2>1, <2>2, OneRowWritten
<1>6. CASE Recover(s)
  <2>1. CASE sessions[s].stage = "preparing_payment"
    <3>1. PICK row : sessions' = [sessions EXCEPT ![s] = row] BY <1>6, <2>1 DEF Recover, WritesAlone
    <3>2. KeepsRow(sessions[s], row) BY <2>1 DEF KeepsRow, Sent, PostBroadcast
    <3>. QED BY <3>1, <3>2, OneRowWritten
  <2>2. CASE sessions[s].stage # "preparing_payment" BY <1>6, <2>2, NoRowWritten DEF Recover
  <2>. QED BY <2>1, <2>2
<1>. QED BY <1>1, <1>2, <1>3, <1>4, <1>5, <1>6 DEF User

\* From the broadcast on a session keeps its transaction, until it is complete or fails for good, and
\* no failure says that nothing was sent; it is not approved, rejected or deleted any more.
THEOREM BroadcastKept == Spec => BroadcastIsRemembered
<1>1. Inv /\ [Next]_vars => [KeepsBroadcast]_vars
  <2> SUFFICES ASSUME Inv, Next PROVE KeepsBroadcast OBVIOUS
  <2>1. ASSUME NEW s \in Launches, User(s) \/ Recover(s) PROVE KeepsBroadcast BY <2>1, UserStepsKeep
  <2>2. ASSUME NEW w \in Threads, Step(w) \/ DatabaseFails(w) PROVE KeepsBroadcast
    BY <2>2, EarlyStepsKeep, LateStepsKeep DEF Step
  <2>3. CASE Crash BY <2>3, NoRowWritten DEF Crash, table
  <2>4. ASSUME NEW s \in Launches, Expire(s) PROVE KeepsBroadcast BY <2>4, NoRowWritten DEF Expire, table
  <2>. QED BY <2>1, <2>2, <2>3, <2>4 DEF Next
<1>. QED BY <1>1, InvHolds, PTL DEF Spec, BroadcastIsRemembered
=============================================================================
