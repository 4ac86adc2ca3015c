--------------------------- MODULE ClientSession ---------------------------
(***************************************************************************)
(* The paying side of EntPay: entpay/client_manager.go over the sessions   *)
(* table of entpay/client_store.go.  A launch link becomes a session; the  *)
(* session is inspected, approved, paid, submitted, claimed and verified   *)
(* by goroutines that read the row, talk to the merchant or the node, and  *)
(* write the row again.                                                    *)
(*                                                                         *)
(* Every write compares the row's revision with the one that was read and  *)
(* increments it, so a goroutine only ever asks whether its copy is still  *)
(* the stored one.  The model keeps this answer, in the field fresh of the *)
(* goroutine, instead of the number: every write of a row makes the copies *)
(* of all others stale.  A fresh copy equals the row.                      *)
(*                                                                         *)
(* The merchant answers as it likes, except that it binds a handoff to the *)
(* nonce of the first client that redeems it (store.go, RedeemHandoff).    *)
(***************************************************************************)
EXTENDS Integers, FiniteSets

CONSTANTS Launches,      \* launch links; one row each, as handoff_digest is UNIQUE
          Threads,       \* goroutines that may run together
          Keys,          \* identities that the merchant may show
          MaxRows,       \* bound: how often a link is opened again after a deletion
          MaxPrepared,   \* bound: transactions prepared for a link
          MaxCrashes     \* bound

ASSUME ClientAssumption ==
    /\ MaxRows \in Nat \ {0} /\ MaxPrepared \in Nat \ {0} /\ MaxCrashes \in Nat

NoKey == "nokey"
NoLaunch == "nolaunch"

ASSUME NoneAssumption == NoKey \notin Keys /\ NoLaunch \notin Launches

VARIABLES sessions,    \* table sessions
          known,       \* table merchant_identities, of the one endpoint
          threads,     \* goroutines
          toRecover,   \* sessions that Recover has not looked at since the start
          rows,        \* rows created for a link; names the client nonce
          bound,       \* at the merchant: the nonce of a redeemed handoff, 0: none
          expired,     \* invoices whose ExpiresAt has passed
          prepared,    \* transactions built for a link; names them
          committed,   \* at the node: transactions committed for a link, and by which row
          accepted,    \* history: identities the user has seen first or trusted again
          crashes

table == <<sessions, known>>
wallet == <<prepared, committed>>
outside == <<bound, expired>>
vars == <<table, threads, toRecover, rows, outside, wallet, accepted, crashes>>

PostBroadcast == {"broadcast", "submitting", "confirming", "fulfilling", "verifying"}
Terminal == {"complete", "invalid", "expired", "rejected", "failed_terminal"}
Stages == {"received", "inspecting", "awaiting_approval", "preparing_payment",
           "failed_retryable"} \cup PostBroadcast \cup Terminal

NoSession ==
    [stage |-> "none", retry |-> "none", error |-> "none", secret |-> "none", nonce |-> 0,
     key |-> NoKey, trust |-> "none", tx |-> 0, delivery |-> "none"]

Idle == [pc |-> "idle", id |-> NoLaunch, fresh |-> FALSE, locked |-> FALSE,
         nonce |-> 0, key |-> NoKey, tx |-> 0, delivery |-> "none"]

Init ==
    /\ sessions = [s \in Launches |-> NoSession]
    /\ known \in Keys \cup {NoKey}
    /\ accepted = {known} \cap Keys
    /\ threads = [w \in Threads |-> Idle]
    /\ toRecover = {}
    /\ rows = [s \in Launches |-> 0] /\ bound = [s \in Launches |-> 0]
    /\ expired = {}
    /\ prepared = [s \in Launches |-> 0] /\ committed = [s \in Launches |-> {}]
    /\ crashes = 0

-----------------------------------------------------------------------------
(* Reading and writing rows.                                               *)

Row(w) == sessions[threads[w].id]

At(w, pc) == threads[w].pc = pc

Goes(w, pc) == [threads[w] EXCEPT !.pc = pc]

\* An operation returns; it gives back its lock a step later.
Returned(w) == IF threads[w].locked THEN [Goes(w, "return") EXCEPT !.fresh = FALSE] ELSE Idle

Continues(w, thread) ==
    /\ threads' = [threads EXCEPT ![w] = thread]
    /\ UNCHANGED sessions

\* A row is written; of the copies only the writer's own stays fresh.
Stale(s) == [v \in Threads |->
                IF threads[v].id = s THEN [threads[v] EXCEPT !.fresh = FALSE] ELSE threads[v]]

Writes(w, row, thread) ==
    /\ sessions' = [sessions EXCEPT ![threads[w].id] = row]
    /\ threads' = [Stale(threads[w].id) EXCEPT ![w] = thread]

WritesAlone(s, row) ==
    /\ sessions' = [sessions EXCEPT ![s] = row]
    /\ threads' = Stale(s)

\* UPDATE ... WHERE revision = ? AND ...; otherwise the operation ends.
Updates(w, condition, row, thread) ==
    IF threads[w].fresh /\ condition THEN Writes(w, row, thread) ELSE Continues(w, Returned(w))

validClientTransition(from, to) ==
    to \in CASE from = "received" -> {"inspecting", "invalid", "expired"}
             [] from = "inspecting" ->
                   {"awaiting_approval", "invalid", "expired", "failed_retryable"}
             [] from = "awaiting_approval" -> {"preparing_payment", "rejected", "expired"}
             [] from = "preparing_payment" ->
                   {"broadcast", "awaiting_approval", "failed_terminal"}
             [] from = "broadcast" -> {"submitting", "failed_retryable"}
             [] from = "submitting" ->
                   {"confirming", "fulfilling", "failed_retryable", "failed_terminal"}
             [] from = "confirming" ->
                   {"fulfilling", "verifying", "failed_retryable", "failed_terminal"}
             [] from = "fulfilling" -> {"verifying", "failed_retryable", "failed_terminal"}
             [] from = "verifying" -> {"complete", "failed_retryable", "failed_terminal"}
             [] from = "failed_retryable" ->
                   {"inspecting", "submitting", "confirming", "fulfilling", "verifying"}
             [] OTHER -> {}

Moved(row, to, error) ==
    [row EXCEPT !.stage = to, !.error = error,
                !.retry = IF to = "failed_retryable" THEN row.stage ELSE "none"]

\* ClientStore.transition.
Transition(w, to, error, thread) ==
    Updates(w, validClientTransition(Row(w).stage, to), Moved(Row(w), to, error), thread)

\* Mutant: a journaled transaction is not looked for.
UnpaidAlways(row) == TRUE

\* ... AND transaction_id IS NULL.
Unpaid(row) == row.tx = 0

Terminated(row, to, error) == [row EXCEPT !.stage = to, !.error = error, !.secret = "erased"]

\* ClientStore.TerminateWithoutPayment.
Terminate(w, to) ==
    Updates(w, validClientTransition(Row(w).stage, to) /\ Unpaid(Row(w)),
            Terminated(Row(w), to, "unsent"), Returned(w))

\* ClientManager.fail.
Fail(w, to, error) ==
    IF to \in {"invalid", "expired"} /\ Row(w).tx = 0
    THEN Terminate(w, to)
    ELSE Transition(w, to, error, Returned(w))

\* The operation lock of a session: begin fails while another holds it.
Locked(s) == \E w \in Threads : threads[w].id = s /\ threads[w].locked

Spawn(s, pc) == [Idle EXCEPT !.pc = pc, !.id = s, !.fresh = TRUE]

-----------------------------------------------------------------------------
(* Receiving and inspecting.                                               *)

\* CreateReceived, for a link that has no row.
Receive(s) ==
    /\ sessions[s] = NoSession
    /\ rows[s] < MaxRows
    /\ rows' = [rows EXCEPT ![s] = @ + 1]
    /\ \E w \in Threads :
          /\ threads[w] = Idle
          /\ threads' = [threads EXCEPT ![w] = Spawn(s, "received")]
    /\ sessions' = [sessions EXCEPT ![s] =
                       [NoSession EXCEPT !.stage = "received", !.secret = "handoff",
                                         !.nonce = rows'[s]]]
    /\ UNCHANGED <<known, toRecover, outside, wallet, accepted, crashes>>

\* The link is opened once more: a session that is not yet reviewed is
\* inspected by another goroutine.
ReceiveAgain(s) ==
    /\ sessions[s].stage \in {"received", "inspecting"}
    /\ \E w \in Threads :
          /\ threads[w] = Idle
          /\ threads' = [threads EXCEPT ![w] =
                Spawn(s, IF sessions[s].stage = "received" THEN "received" ELSE "inspect")]
    /\ UNCHANGED <<table, toRecover, rows, outside, wallet, accepted, crashes>>

StartInspecting(w) ==
    /\ At(w, "received")
    /\ Transition(w, "inspecting", "none", Goes(w, "inspect"))
    /\ UNCHANGED <<known, toRecover, rows, outside, wallet, accepted, crashes>>

\* inspect reads the capsule, which may fail to open.
OpenCapsule(w) ==
    /\ At(w, "inspect")
    /\ \/ Continues(w, [Goes(w, IF Row(w).secret = "claim" THEN "review" ELSE "redeem")
                           EXCEPT !.nonce = Row(w).nonce])
       \/ Fail(w, "failed_retryable", "unsent")
    /\ UNCHANGED <<known, toRecover, rows, outside, wallet, accepted, crashes>>

\* Mutant: the nonce is not compared.
RedeemableByAnyone(s, nonce) == TRUE

\* At the merchant: not yet redeemed, or by the same client.
Redeemable(s, nonce) == bound[s] \in {0, nonce}

\* redeem: the capsule arrives, or is lost on its way, or is refused.
Redeem(w) ==
    LET s == threads[w].id
        n == threads[w].nonce
    IN  /\ At(w, "redeem")
        /\ \/ /\ Redeemable(s, n)
              /\ bound' = [bound EXCEPT ![s] = n]
              /\ \/ Continues(w, Goes(w, "redeemed"))
                 \/ Fail(w, "failed_retryable", "unsent")
           \/ /\ UNCHANGED bound
              /\ Fail(w, "failed_retryable", "unsent")
        /\ UNCHANGED <<known, toRecover, rows, expired, wallet, accepted, crashes>>

\* The endpoint of the capsule is checked, and SaveRedeemedCapsule writes it.
SaveRedeemedCapsule(w) ==
    /\ At(w, "redeemed")
    /\ \/ Fail(w, "invalid", "unsent")
       \/ Updates(w, Row(w).stage = "inspecting", [Row(w) EXCEPT !.secret = "claim"],
                  Goes(w, "review"))
    /\ UNCHANGED <<known, toRecover, rows, outside, wallet, accepted, crashes>>

\* The invoice is verified and the payment previewed; the merchant shows one
\* of its identities.
Inspect(w) ==
    /\ At(w, "review")
    /\ \/ \E k \in Keys : Continues(w, [Goes(w, "reviewed") EXCEPT !.key = k])
       \/ Fail(w, IF threads[w].id \in expired THEN "expired" ELSE "invalid", "unsent")
       \/ Fail(w, "failed_retryable", "unsent")
    /\ UNCHANGED <<known, toRecover, rows, outside, wallet, accepted, crashes>>

merchantTrustState(k) ==
    IF known = NoKey THEN "first" ELSE IF known = k THEN "previous" ELSE "changed"

SaveReview(w) ==
    LET k     == threads[w].key
        saves == threads[w].fresh /\ Row(w).stage = "inspecting"
        first == saves /\ merchantTrustState(k) = "first"
    IN  /\ At(w, "reviewed")
        /\ Updates(w, saves, [Row(w) EXCEPT !.stage = "awaiting_approval", !.error = "none",
                                            !.key = k, !.trust = merchantTrustState(k)], Idle)
        /\ known' = IF first THEN k ELSE known
        /\ accepted' = IF first THEN accepted \cup {k} ELSE accepted
        /\ UNCHANGED <<toRecover, rows, outside, wallet, crashes>>

-----------------------------------------------------------------------------
(* What the user does with a reviewed session.                             *)

\* Reject, with the revision that is displayed.
Reject(s) ==
    /\ validClientTransition(sessions[s].stage, "rejected")
    /\ Unpaid(sessions[s])
    /\ WritesAlone(s, Terminated(sessions[s], "rejected", "unsent"))
    /\ UNCHANGED <<known, toRecover, rows, outside, wallet, accepted, crashes>>

ReestablishMerchantTrust(s) ==
    /\ sessions[s].stage = "awaiting_approval"
    /\ sessions[s].trust = "changed"
    /\ known' = sessions[s].key
    /\ accepted' = accepted \cup {known'}
    /\ WritesAlone(s, [sessions[s] EXCEPT !.trust = "previous"])
    /\ UNCHANGED <<toRecover, rows, outside, wallet, crashes>>

\* Mutant: a payment is not looked for.
DeletableAlways(row) ==
    row.stage \in Terminal \cup {"awaiting_approval", "failed_retryable"}

Deletable(row) ==
    \/ row.stage \in Terminal \cup {"awaiting_approval"}
    \/ row.stage = "failed_retryable" /\ row.tx = 0

\* DeleteSession, which asks for no revision.  Who has not read the row yet
\* will not find it.
DeleteSession(s) ==
    /\ Deletable(sessions[s])
    /\ sessions' = [sessions EXCEPT ![s] = NoSession]
    /\ threads' = [w \in Threads |->
                      IF threads[w].id = s /\ threads[w].pc \in {"continue", "inspect"}
                      THEN Idle ELSE Stale(s)[w]]
    /\ toRecover' = toRecover \ {s}
    /\ UNCHANGED <<known, rows, outside, wallet, accepted, crashes>>

Approvable(row) == row.stage = "awaiting_approval" /\ row.trust # "changed"

\* Approve takes the operation lock and reads the row.
Approve(s) ==
    /\ ~Locked(s)
    /\ Approvable(sessions[s])
    /\ \E w \in Threads :
          /\ threads[w] = Idle
          /\ threads' = [threads EXCEPT ![w] =
                [Spawn(s, "approve") EXCEPT !.locked = TRUE, !.nonce = sessions[s].nonce]]
    /\ UNCHANGED <<table, toRecover, rows, outside, wallet, accepted, crashes>>

\* A transaction is built only for a session that has none.
Prepares(row) == row.tx = 0

\* The invoice has expired, or the node and the terms allow no payment, or
\* the payment begins.
CheckTerms(w) ==
    /\ At(w, "approve")
    /\ IF threads[w].id \in expired
       THEN Transition(w, "expired", "unsent", Returned(w))
       ELSE \/ Continues(w, Returned(w))
            \/ Transition(w, "preparing_payment", "none",
                          IF Prepares(Row(w)) THEN Goes(w, "prepare")
                          ELSE [Goes(w, "commit") EXCEPT !.tx = Row(w).tx])
    /\ UNCHANGED <<known, toRecover, rows, outside, wallet, accepted, crashes>>

PrepareRecommendedPayment(w) ==
    LET s == threads[w].id
    IN  /\ At(w, "prepare")
        /\ \/ /\ prepared[s] < MaxPrepared
              /\ prepared' = [prepared EXCEPT ![s] = @ + 1]
              /\ Continues(w, [Goes(w, "journal") EXCEPT !.tx = prepared'[s]])
           \/ /\ UNCHANGED prepared
              /\ Transition(w, "awaiting_approval", "unsent", Returned(w))
        /\ UNCHANGED <<known, toRecover, rows, outside, committed, accepted, crashes>>

\* Mutant: the transaction is sent without a journal.
JournaledNot(row, t) == row

Journaled(row, t) == [row EXCEPT !.tx = t]

JournalPayment(w) ==
    /\ At(w, "journal")
    /\ Updates(w, Row(w).stage = "preparing_payment" /\ Unpaid(Row(w)),
               Journaled(Row(w), threads[w].tx), Goes(w, "commit"))
    /\ UNCHANGED <<known, toRecover, rows, outside, wallet, accepted, crashes>>

\* The node takes the transaction, or has it already, or refuses.
CommitPreparedPayment(w) ==
    LET s == threads[w].id
    IN  /\ At(w, "commit")
        /\ \/ /\ committed' = [committed EXCEPT ![s] = @ \cup {<<threads[w].nonce, threads[w].tx>>}]
              /\ Continues(w, Goes(w, "committed"))
           \/ /\ UNCHANGED committed
              /\ Transition(w, "awaiting_approval", "unsent", Returned(w))
        /\ UNCHANGED <<known, toRecover, rows, outside, prepared, accepted, crashes>>

\* Approve returns, and its caller starts the continuation.
EnterBroadcast(w) ==
    /\ At(w, "committed")
    /\ Transition(w, "broadcast", "none", Spawn(threads[w].id, "continue"))
    /\ UNCHANGED <<known, toRecover, rows, outside, wallet, accepted, crashes>>

-----------------------------------------------------------------------------
(* After the payment.                                                      *)

\* Continue takes the lock and reads the row.
ContinueSession(w) ==
    LET s    == threads[w].id
        next == CASE sessions[s].stage = "broadcast" -> "broadcast"
                  [] sessions[s].stage = "submitting" -> "submit"
                  [] sessions[s].stage \in {"confirming", "fulfilling"} -> "claim"
                  [] OTHER -> "idle"
    IN  /\ At(w, "continue")
        /\ IF Locked(s) \/ sessions[s].tx = 0 \/ next = "idle"
           THEN Continues(w, Idle)
           ELSE Continues(w, [Spawn(s, next) EXCEPT !.locked = TRUE])
        /\ UNCHANGED <<known, toRecover, rows, outside, wallet, accepted, crashes>>

StartSubmitting(w) ==
    /\ At(w, "broadcast")
    /\ Transition(w, "submitting", "none", Goes(w, "submit"))
    /\ UNCHANGED <<known, toRecover, rows, outside, wallet, accepted, crashes>>

\* submit, and the next stage.
SubmitPayment(w) ==
    /\ At(w, "submit")
    /\ \/ Fail(w, "failed_retryable", "sent")
       \/ Transition(w, "confirming", "none", Goes(w, "claim"))
    /\ UNCHANGED <<known, toRecover, rows, outside, wallet, accepted, crashes>>

\* claim: no answer, a senseless one, a delivery, or a status.
Claim(w) ==
    /\ At(w, "claim")
    /\ \/ Fail(w, "failed_retryable", "sent")
       \/ Fail(w, "failed_terminal", "sent")
       \/ \E d \in {"valid", "invalid"} :
             Continues(w, [Goes(w, "delivered") EXCEPT !.delivery = d])
       \/ \E status \in {"confirming", "processing"} : Continues(w, Goes(w, status))
    /\ UNCHANGED <<known, toRecover, rows, outside, wallet, accepted, crashes>>

Claimed(row) == row.stage \in {"confirming", "fulfilling"}

\* SaveConfirmations writes a number that has changed; a session the merchant
\* works on is fulfilling.
SaveConfirmations(w) ==
    LET next == IF At(w, "processing") /\ Row(w).stage = "confirming" THEN "fulfill" ELSE "claim"
    IN  /\ At(w, "confirming") \/ At(w, "processing")
        /\ \/ Updates(w, Claimed(Row(w)), Row(w), Goes(w, next))
           \/ /\ threads[w].fresh /\ Claimed(Row(w))
              /\ Continues(w, Goes(w, next))
        /\ UNCHANGED <<known, toRecover, rows, outside, wallet, accepted, crashes>>

StartFulfilling(w) ==
    /\ At(w, "fulfill")
    /\ Transition(w, "fulfilling", "none", Goes(w, "claim"))
    /\ UNCHANGED <<known, toRecover, rows, outside, wallet, accepted, crashes>>

SaveDelivery(w) ==
    /\ At(w, "delivered")
    /\ Updates(w, Claimed(Row(w)),
               [Row(w) EXCEPT !.stage = "verifying", !.error = "none",
                              !.delivery = threads[w].delivery],
               Goes(w, "verify"))
    /\ UNCHANGED <<known, toRecover, rows, outside, wallet, accepted, crashes>>

Verifies(row) == row.delivery = "valid"

\* verifyDelivery: the receipt, then the artifact.
VerifyDelivery(w) ==
    /\ At(w, "verify")
    /\ IF Verifies(Row(w))
       THEN \/ Continues(w, Goes(w, "complete"))
            \/ Fail(w, "failed_retryable", "sent")
       ELSE Fail(w, "failed_retryable", "delivery_invalid")
    /\ UNCHANGED <<known, toRecover, rows, outside, wallet, accepted, crashes>>

Complete(w) ==
    /\ At(w, "complete")
    /\ Updates(w, Row(w).stage = "verifying",
               [Row(w) EXCEPT !.stage = "complete", !.error = "none", !.secret = "erased"],
               Returned(w))
    /\ UNCHANGED <<known, toRecover, rows, outside, wallet, accepted, crashes>>

\* The deferred end of Approve and Continue.
ReleaseLock(w) ==
    /\ At(w, "return")
    /\ Continues(w, Idle)
    /\ UNCHANGED <<known, toRecover, rows, outside, wallet, accepted, crashes>>

\* Retry, with the revision that is displayed; no lock is taken.
Retry(s) ==
    /\ sessions[s].stage = "failed_retryable"
    /\ \E w \in Threads :
          /\ threads[w] = Idle
          /\ threads' = [threads EXCEPT ![w] = Spawn(s, "retry")]
    /\ UNCHANGED <<table, toRecover, rows, outside, wallet, accepted, crashes>>

RetryStage(row) == IF row.error = "delivery_invalid" THEN "fulfilling" ELSE row.retry

StartRetry(w) ==
    LET to   == RetryStage(Row(w))
        next == CASE to = "inspecting" -> "inspect"
                  [] to = "verifying" -> "verify"
                  [] OTHER -> "continue"
    IN  /\ At(w, "retry")
        /\ Updates(w, Row(w).stage = "failed_retryable"
                         /\ validClientTransition("failed_retryable", to),
                   Moved(Row(w), to, "none"), Goes(w, next))
        /\ UNCHANGED <<known, toRecover, rows, outside, wallet, accepted, crashes>>

-----------------------------------------------------------------------------
(* Failures, restarts and time.                                            *)

\* A statement of the database fails: the operation returns its error.
DatabaseFails(w) ==
    /\ threads[w] # Idle
    /\ Continues(w, Idle)
    /\ UNCHANGED <<known, toRecover, rows, outside, wallet, accepted, crashes>>

\* The desktop ends and is started again.
Crash ==
    /\ crashes < MaxCrashes
    /\ crashes' = crashes + 1
    /\ threads' = [w \in Threads |-> Idle]
    /\ toRecover' = {s \in Launches : sessions[s] # NoSession}
    /\ UNCHANGED <<table, rows, outside, wallet, accepted>>

\* The goroutine Recover starts for a row.
RecoveryOf(row) ==
    CASE row.stage = "received" -> "received"
      [] row.stage = "inspecting" -> "inspect"
      [] row.stage \in PostBroadcast \ {"verifying"} -> "continue"
      [] row.stage = "verifying" -> "verify"
      [] row.stage = "failed_retryable" /\ row.tx # 0 -> "retry"
      [] OTHER -> "idle"

\* Recover, for one of the sessions it reads.  The manager is already open
\* to the user, whose approval it may find under way.
Recover(s) ==
    /\ s \in toRecover
    /\ toRecover' = toRecover \ {s}
    /\ IF sessions[s].stage = "preparing_payment"
       THEN WritesAlone(s, Moved(sessions[s], "awaiting_approval", "unsent"))
       ELSE /\ UNCHANGED sessions
            /\ IF RecoveryOf(sessions[s]) = "idle" THEN UNCHANGED threads
               ELSE \E w \in Threads :
                       /\ threads[w] = Idle
                       /\ threads' = [threads EXCEPT ![w] = Spawn(s, RecoveryOf(sessions[s]))]
    /\ UNCHANGED <<known, rows, outside, wallet, accepted, crashes>>

Expire(s) ==
    /\ s \notin expired
    /\ expired' = expired \cup {s}
    /\ UNCHANGED <<table, threads, toRecover, rows, bound, wallet, accepted, crashes>>

-----------------------------------------------------------------------------
User(s) ==
    \/ Receive(s) \/ ReceiveAgain(s) \/ Approve(s) \/ Reject(s)
    \/ ReestablishMerchantTrust(s) \/ Retry(s) \/ DeleteSession(s)

Step(w) ==
    \/ StartInspecting(w) \/ OpenCapsule(w) \/ Redeem(w) \/ SaveRedeemedCapsule(w)
    \/ Inspect(w) \/ SaveReview(w)
    \/ CheckTerms(w) \/ PrepareRecommendedPayment(w) \/ JournalPayment(w)
    \/ CommitPreparedPayment(w) \/ EnterBroadcast(w)
    \/ ContinueSession(w) \/ StartSubmitting(w) \/ SubmitPayment(w) \/ Claim(w)
    \/ SaveConfirmations(w) \/ StartFulfilling(w) \/ SaveDelivery(w)
    \/ VerifyDelivery(w) \/ Complete(w) \/ StartRetry(w) \/ ReleaseLock(w)

Next ==
    \/ \E s \in Launches : User(s)
    \/ \E w \in Threads : Step(w)
    \/ \E w \in Threads : DatabaseFails(w)
    \/ Crash
    \/ \E s \in Launches : Recover(s)
    \/ \E s \in Launches : Expire(s)

Spec == Init /\ [][Next]_vars

-----------------------------------------------------------------------------
(* Properties.                                                             *)

\* Rows, the merchant's binding and the node's payments hold values of their types, and a
\* failure can be retried at the stage it names.
TypeOK ==
    /\ sessions \in [Launches ->
          [stage : Stages \cup {"none"}, retry : Stages \cup {"none"},
           error : {"none", "unsent", "sent", "delivery_invalid"},
           secret : {"none", "handoff", "claim", "erased"}, nonce : Nat,
           key : Keys \cup {NoKey}, trust : {"none", "first", "previous", "changed"},
           tx : Nat, delivery : {"none", "valid", "invalid"}]]
    /\ \A s \in Launches : sessions[s].stage = "failed_retryable" =>
          validClientTransition("failed_retryable", RetryStage(sessions[s]))
    /\ bound \in [Launches -> Nat]
    /\ committed \in [Launches -> SUBSET (Nat \X Nat)]
    /\ known \in Keys \cup {NoKey}

Paid(s) == <<sessions[s].nonce, sessions[s].tx>> \in committed[s]

\* One link is paid at most once, whatever is approved twice, interrupted,
\* recovered, or deleted and opened again (client_store.go:148).
PaidOnce == \A s \in Launches : Cardinality(committed[s]) <= 1

\* The node is given a transaction only when the row has it, so that a crash
\* cannot lose it: what a row has committed is its journal.
JournaledBeforeCommit ==
    \A s \in Launches : \A c \in committed[s] :
        c[1] = sessions[s].nonce => c[2] = sessions[s].tx

\* What was rejected or found invalid was not paid.
RefusedIsUnpaid ==
    \A s \in Launches : sessions[s].stage \in {"rejected", "invalid"} =>
        \A c \in committed[s] : c[1] # sessions[s].nonce

\* Complete means paid, with a delivery that verifies.
CompleteIsVerified ==
    \A s \in Launches : sessions[s].stage = "complete" =>
        Paid(s) /\ sessions[s].delivery = "valid"

\* No payment goes to an identity that the user has neither met first nor
\* trusted again.
PaysAcceptedIdentity ==
    \A s \in Launches : Paid(s) => sessions[s].key \in accepted

\* What is committed was journaled first, for an identity of the merchant that the user
\* has reviewed, whatever other identity another session learns meanwhile
\* (client_manager.go:390, :430).
CommitsAreReviewed == JournaledBeforeCommit /\ PaysAcceptedIdentity

\* The stage a session ends in tells the truth about its payment: a rejected or invalid
\* one was not paid, a complete one was paid and its delivery verified
\* (client_store.go:765, client_manager.go:275).
EndsTellTheTruth == RefusedIsUnpaid /\ CompleteIsVerified

\* Broadcast, or failed after it.
Sent(row) ==
    \/ row.stage \in PostBroadcast
    \/ row.stage = "failed_retryable" /\ row.tx # 0

KeepsBroadcast ==
    \A s \in Launches : Sent(sessions[s]) =>
        /\ Sent(sessions'[s]) \/ sessions'[s].stage \in {"complete", "failed_terminal"}
        /\ sessions'[s].error # "unsent"
        /\ sessions'[s].tx = sessions[s].tx

\* From broadcast on a session goes on with its transaction, to its end or to
\* failures that say the payment was sent; it is not approved, rejected or
\* deleted any more (client_store.go:765).
BroadcastIsRemembered == [][KeepsBroadcast]_vars

\* Every failure after the broadcast says that the payment was sent.
SaysPaymentWasSent == \A s \in Launches : Paid(s) => sessions[s].error # "unsent"

\* A session that was paid is kept until it has ended.
PaidIsKept ==
    [][\A s \in Launches :
          Paid(s) /\ sessions[s].stage \notin Terminal => sessions'[s] # NoSession]_vars
=============================================================================
