------------------------------ MODULE Gateway ------------------------------
(***************************************************************************)
(* The merchant side of EntPay: entpay/gateway.go over the SQLite tables   *)
(* of entpay/store.go and the files of entpay/artifacts.go.  An invoice is *)
(* created, a transaction is submitted for it, and once the transaction    *)
(* has enough confirmations a claim starts a fulfillment worker, which     *)
(* calls the product, stages what it returns and commits a delivery.       *)
(*                                                                         *)
(* Every HTTP handler reads its invoice first, then talks to the node, and *)
(* only then writes: each of these is a step of its own, and any number of *)
(* handlers and workers interleave.  A crash loses handlers and workers,   *)
(* and keeps the tables and the files.                                     *)
(*                                                                         *)
(* Time is kept as ages: a job knows how long ago it was updated, a worker *)
(* how long ago it started, and an invoice how long it is still payable.   *)
(* Requests that are refused without a write are not steps.                *)
(***************************************************************************)
EXTENDS Integers, FiniteSets

CONSTANTS Invoices, Transactions,
          Pays,         \* the invoices whose amount a transaction pays exactly once
          Requests,     \* the HTTP requests that may be in flight together
          Required,     \* Confirmations of the product
          Lifetime,     \* InvoiceLifetime
          Timeout,      \* FulfillmentTimeout
          Grace,        \* one minute more before a job counts as stale
          RetryAfter,   \* five seconds
          MaxAttempts,  \* three
          MaxFaults     \* bound of the model, for each kind of fault

StaleAfter == Timeout + Grace

Faults == {"crash", "close", "reorg"}

ASSUME GatewayAssumption ==
    /\ Pays \in [Transactions -> SUBSET Invoices]
    /\ Required \in Nat \ {0} /\ Lifetime \in Nat \ {0}
    /\ Timeout \in Nat \ {0} /\ Grace \in Nat \ {0}
    /\ RetryAfter \in Nat /\ RetryAfter <= Timeout + Grace
    /\ MaxAttempts \in Nat \ {0}
    /\ MaxFaults \in [Faults -> Nat]

NoTx == "none"

ASSUME NoTxAssumption == NoTx \notin Transactions

VARIABLES invoices,   \* table invoices
          jobs,       \* table delivery_jobs
          staged,     \* staging/<invoice>.json: which result, 0 for no file
          artifact,   \* artifacts/<invoice>.bin: which result, 0 for no file
          requests,   \* handlers in flight
          workers,    \* fulfillments in flight
          calls,      \* how often the product was called; names its results
          depth,      \* confirmations by transaction at the node, -1: unknown
          reached,    \* history: transactions that had the required depth
          closing,    \* Close has cancelled the workers' context
          faults      \* faults so far

tables == <<invoices, jobs>>
files == <<staged, artifact>>
node == <<depth, reached>>
vars == <<tables, files, requests, workers, calls, node, closing, faults>>

NoInvoice == [status |-> "none", tx |-> NoTx, ttl |-> 0, delivery |-> 0]
NoJob == [status |-> "none", attempts |-> 0, age |-> 0]
NoRequest == [phase |-> "none"]

Init ==
    /\ invoices = [i \in Invoices |-> NoInvoice]
    /\ jobs = [i \in Invoices |-> NoJob]
    /\ staged = [i \in Invoices |-> 0] /\ artifact = [i \in Invoices |-> 0]
    /\ requests = [c \in Requests |-> NoRequest]
    /\ workers = {}
    /\ calls = [i \in Invoices |-> 0]
    /\ depth = [t \in Transactions |-> -1] /\ reached = {}
    /\ closing = FALSE /\ faults = [f \in Faults |-> 0]

-----------------------------------------------------------------------------
(* Invoices and payments.                                                  *)

\* handleCreateInvoice: identifiers and claim tokens are fresh random values.
CreateInvoice(i) ==
    /\ invoices[i].status = "none"
    /\ invoices' = [invoices EXCEPT ![i].status = "open", ![i].ttl = Lifetime]
    /\ UNCHANGED <<jobs, files, requests, workers, calls, node, closing, faults>>

\* handleSubmitPayment up to its call of the node: the transaction pays the
\* invoice, which is open and has not expired.
ReceiveSubmit(c, i, t) ==
    /\ requests[c] = NoRequest
    /\ i \in Pays[t]
    /\ invoices[i].status = "open"
    /\ invoices[i].ttl > 0
    /\ requests' = [requests EXCEPT ![c] = [phase |-> "accept", inv |-> i, tx |-> t]]
    /\ UNCHANGED <<tables, files, workers, calls, node, closing, faults>>

\* AcceptTransaction: the node admits the transaction or already has it.
NodeAccepts(c) ==
    /\ requests[c].phase = "accept"
    /\ LET t == requests[c].tx
       IN  depth' = [depth EXCEPT ![t] = IF @ < 0 THEN 0 ELSE @]
    /\ requests' = [requests EXCEPT ![c].phase = "submit"]
    /\ UNCHANGED <<tables, files, workers, calls, reached, closing, faults>>

\* A handler ends without a write: the node refuses or is out of reach, the
\* client hangs up, or the database fails.  The node may have admitted the
\* transaction although its answer is lost.
RequestFails(c) ==
    /\ requests[c] # NoRequest
    /\ \/ UNCHANGED depth
       \/ /\ requests[c].phase = "accept"
          /\ depth' = [depth EXCEPT ![requests[c].tx] = IF @ < 0 THEN 0 ELSE @]
    /\ requests' = [requests EXCEPT ![c] = NoRequest]
    /\ UNCHANGED <<tables, files, workers, calls, reached, closing, faults>>

\* Mutant: only invoices that still wait for their delivery are searched.
UnusedBySubmitted(t) == \A i \in Invoices : invoices[i].status = "submitted" => invoices[i].tx # t

\* NOT EXISTS (... used.tx_id = ?), which the UNIQUE column backs.
Unused(t) == \A i \in Invoices : invoices[i].tx # t

\* Mutant: the status read by the handler is not looked at again.
PayableUnchecked(i, t) == Unused(t)

\* WHERE id = ? AND status = 'open' AND NOT EXISTS (...).
Payable(i, t) == invoices[i].status = "open" /\ Unused(t)

\* store.Submit; a refusal writes nothing.
Submit(c) ==
    LET i == requests[c].inv
        t == requests[c].tx
    IN  /\ requests[c].phase = "submit"
        /\ IF Payable(i, t)
           THEN invoices' = [invoices EXCEPT ![i].status = "submitted", ![i].tx = t]
           ELSE UNCHANGED invoices
        /\ requests' = [requests EXCEPT ![c] = NoRequest]
        /\ UNCHANGED <<jobs, files, workers, calls, node, closing, faults>>

-----------------------------------------------------------------------------
(* Claims.                                                                 *)

\* handleClaim up to its call of the node.
ReceiveClaim(c, i) ==
    /\ requests[c] = NoRequest
    /\ invoices[i].status = "submitted"
    /\ requests' = [requests EXCEPT ![c] =
                       [phase |-> "observe", inv |-> i, tx |-> invoices[i].tx]]
    /\ UNCHANGED <<tables, files, workers, calls, node, closing, faults>>

Confirmed(t) == depth[t] >= Required

\* ObservePayment; without the confirmations the claim ends.
ObservePayment(c) ==
    /\ requests[c].phase = "observe"
    /\ requests' = [requests EXCEPT ![c] =
                       IF Confirmed(requests[c].tx) THEN [@ EXCEPT !.phase = "acquire"]
                                                    ELSE NoRequest]
    /\ UNCHANGED <<tables, files, workers, calls, node, closing, faults>>

\* Mutant: the two delays are swapped.
AcquirableSwapped(job) ==
    /\ job.attempts < MaxAttempts
    /\ \/ job.status = "queued"
       \/ job.status = "failed" /\ job.age >= StaleAfter
       \/ job.status = "processing" /\ job.age >= RetryAfter

\* Mutant: the delay of a retry is forgotten together with the retry.
AcquirableOnce(job) ==
    /\ job.attempts < MaxAttempts
    /\ \/ job.status = "queued"
       \/ job.status = "processing" /\ job.age >= StaleAfter

\* What AcquireJob's UPDATE selects.
Acquirable(job) ==
    /\ job.attempts < MaxAttempts
    /\ \/ job.status = "queued"
       \/ job.status = "failed" /\ job.age >= RetryAfter
       \/ job.status = "processing" /\ job.age >= StaleAfter

\* INSERT OR IGNORE of a queued job.
Queued(i) == IF jobs[i] = NoJob /\ invoices[i].status = "submitted"
             THEN [NoJob EXCEPT !.status = "queued"] ELSE jobs[i]

\* AcquireJob, and the start of the worker that owns the attempt.
AcquireJob(c) ==
    LET i   == requests[c].inv
        job == Queued(i)
    IN  /\ requests[c].phase = "acquire"
        /\ IF Acquirable(job)
           THEN /\ jobs' = [jobs EXCEPT ![i] = [status |-> "processing",
                                                attempts |-> job.attempts + 1, age |-> 0]]
                /\ workers' = workers \cup
                      {[inv |-> i, attempt |-> job.attempts + 1, phase |-> "check",
                        age |-> 0, result |-> 0]}
           ELSE /\ jobs' = [jobs EXCEPT ![i] = job]
                /\ UNCHANGED workers
        /\ requests' = [requests EXCEPT ![c] = NoRequest]
        /\ UNCHANGED <<invoices, files, calls, node, closing, faults>>

-----------------------------------------------------------------------------
(* A fulfillment worker.                                                   *)

Becomes(w, v) == workers' = (workers \ {w}) \cup {v}
Goes(w, phase) == Becomes(w, [w EXCEPT !.phase = phase])
Ends(w) == workers' = workers \ {w}

\* fulfillmentStore.Existing: a staged result is used again, if the artifact
\* it names is the one on disk; the attempt fails if it is not, or if the
\* files cannot be read.
CheckStaged(w) ==
    /\ w.phase = "check"
    /\ \/ staged[w.inv] = 0 /\ Goes(w, "call")
       \/ /\ staged[w.inv] # 0 /\ staged[w.inv] = artifact[w.inv]
          /\ Becomes(w, [w EXCEPT !.phase = "deliver", !.result = staged[w.inv]])
       \/ Goes(w, "failed")
    /\ UNCHANGED <<tables, files, requests, calls, node, closing, faults>>

\* Product.Fulfill is called, which may cost money whatever comes of it.
CallProduct(w) ==
    /\ w.phase = "call"
    /\ calls' = [calls EXCEPT ![w.inv] = @ + 1]
    /\ Becomes(w, [w EXCEPT !.phase = "called", !.result = calls'[w.inv]])
    /\ UNCHANGED <<tables, files, requests, node, closing, faults>>

\* It returns a result, an error to retry, or one that is permanent (also a
\* result that validateFulfillment refuses).
ProductReturns(w) ==
    /\ w.phase = "called"
    /\ \E phase \in {"artifact", "failed", "permanent"} : Goes(w, phase)
    /\ UNCHANGED <<tables, files, requests, calls, node, closing, faults>>

\* Mutant: an artifact that is already there is kept.
ArtifactKept(i, result) == IF artifact[i] = 0 THEN result ELSE artifact[i]

\* writeAtomic replaces whatever an earlier attempt left.
ArtifactWritten(i, result) == result

\* Stage, first file.
StageArtifact(w) ==
    /\ w.phase = "artifact"
    /\ \/ /\ artifact' = [artifact EXCEPT ![w.inv] = ArtifactWritten(w.inv, w.result)]
          /\ Goes(w, "stage")
       \/ /\ UNCHANGED artifact
          /\ Goes(w, "failed")
    /\ UNCHANGED <<tables, staged, requests, calls, node, closing, faults>>

\* Stage, second file, which makes the result count.
StageResult(w) ==
    /\ w.phase = "stage"
    /\ \/ /\ staged' = [staged EXCEPT ![w.inv] = w.result]
          /\ Goes(w, "deliver")
       \/ /\ UNCHANGED staged
          /\ Goes(w, "failed")
    /\ UNCHANGED <<tables, artifact, requests, calls, node, closing, faults>>

\* DeliverJob: invoice and job change together or not at all; the worker's
\* context must still be alive.
DeliverJob(w) ==
    /\ w.phase = "deliver"
    /\ w.age < Timeout /\ ~closing
    /\ invoices[w.inv].status = "submitted"
    /\ jobs[w.inv].status = "processing"
    /\ invoices' = [invoices EXCEPT ![w.inv].status = "delivered",
                                    ![w.inv].delivery = w.result]
    /\ jobs' = [jobs EXCEPT ![w.inv].status = "delivered", ![w.inv].age = 0]
    /\ Goes(w, "cleanup")
    /\ UNCHANGED <<files, requests, calls, node, closing, faults>>

\* A conflict, an expired context or a failed transaction.
DeliverFails(w) ==
    /\ w.phase = "deliver"
    /\ Goes(w, "failed")
    /\ UNCHANGED <<tables, files, requests, calls, node, closing, faults>>

\* RemoveStage, whose own failure is ignored.
RemoveStage(w) ==
    /\ w.phase = "cleanup"
    /\ staged' \in {staged, [staged EXCEPT ![w.inv] = 0]}
    /\ Ends(w)
    /\ UNCHANGED <<tables, artifact, requests, calls, node, closing, faults>>

\* Mutant: what was staged is removed with the failure.
StagedDropped(i) == [staged EXCEPT ![i] = 0]

\* FailJob leaves what was staged to the next attempt.
StagedAfterFailure(i) == staged

\* FailJob, which is not subject to the worker's context.
FailJob(w) ==
    LET status == IF w.phase = "permanent" THEN "permanent" ELSE "failed"
    IN  /\ w.phase \in {"failed", "permanent"}
        /\ IF jobs[w.inv].status = "processing"
           THEN jobs' = [jobs EXCEPT ![w.inv].status = status, ![w.inv].age = 0]
           ELSE UNCHANGED jobs
        /\ staged' = StagedAfterFailure(w.inv)
        /\ Ends(w)
        /\ UNCHANGED <<invoices, artifact, requests, calls, node, closing, faults>>

-----------------------------------------------------------------------------
(* Faults, the node and time.                                              *)

Fault(f) == faults[f] < MaxFaults[f] /\ faults' = [faults EXCEPT ![f] = @ + 1]

\* The failure of an attempt could not be recorded: the database fails, or
\* was closed under a worker that started late.
FailureLost(w) ==
    /\ w.phase \in {"failed", "permanent"}
    /\ Fault("crash")
    /\ Ends(w)
    /\ UNCHANGED <<tables, files, requests, calls, node, closing>>

\* The process dies, and is started again.
Crash ==
    /\ Fault("crash")
    /\ requests' = [c \in Requests |-> NoRequest]
    /\ workers' = {}
    /\ closing' = FALSE
    /\ UNCHANGED <<tables, files, calls, node>>

\* Close cancels the workers' context and waits for them ...
Close ==
    /\ ~closing
    /\ Fault("close")
    /\ closing' = TRUE
    /\ UNCHANGED <<tables, files, requests, workers, calls, node>>

\* ... and a new gateway is opened on the same files.
Reopen ==
    /\ closing
    /\ workers = {}
    /\ closing' = FALSE
    /\ requests' = [c \in Requests |-> NoRequest]
    /\ UNCHANGED <<tables, files, workers, calls, node, faults>>

\* The chain of the node grows; depths beyond the required one are alike.
Confirm(t) ==
    /\ depth[t] \in 0..(Required - 1)
    /\ depth' = [depth EXCEPT ![t] = @ + 1]
    /\ reached' = IF depth'[t] = Required THEN reached \cup {t} ELSE reached
    /\ UNCHANGED <<tables, files, requests, workers, calls, closing, faults>>

\* A reorganisation takes confirmations away, or the transaction altogether.
Reorganise(t) ==
    /\ depth[t] >= 0
    /\ \E d \in -1..(depth[t] - 1) : depth' = [depth EXCEPT ![t] = d]
    /\ Fault("reorg")
    /\ UNCHANGED <<tables, files, requests, workers, calls, reached, closing>>

Older(age) == IF age < StaleAfter THEN age + 1 ELSE age

\* One unit of time.  Products honour their context, so that a worker is gone
\* before its job is stale.
Tick ==
    /\ \A w \in workers : w.age + 1 < StaleAfter
    /\ invoices' = [i \in DOMAIN invoices |->
                       [invoices[i] EXCEPT !.ttl = IF @ > 0 THEN @ - 1 ELSE 0]]
    /\ jobs' = [i \in DOMAIN jobs |->
                   IF jobs[i] = NoJob THEN NoJob ELSE [jobs[i] EXCEPT !.age = Older(@)]]
    /\ workers' = {[w EXCEPT !.age = Older(@)] : w \in workers}
    /\ UNCHANGED <<files, requests, calls, node, closing, faults>>

-----------------------------------------------------------------------------
Handle(c) ==
    NodeAccepts(c) \/ Submit(c) \/ ObservePayment(c) \/ AcquireJob(c) \/ RequestFails(c)

Work(w) ==
    \/ CheckStaged(w) \/ CallProduct(w) \/ ProductReturns(w) \/ StageArtifact(w)
    \/ StageResult(w) \/ DeliverJob(w) \/ DeliverFails(w) \/ RemoveStage(w) \/ FailJob(w)

Next ==
    \/ \E i \in Invoices : CreateInvoice(i)
    \/ \E c \in Requests, i \in Invoices, t \in Transactions : ReceiveSubmit(c, i, t)
    \/ \E c \in Requests, i \in Invoices : ReceiveClaim(c, i)
    \/ \E c \in Requests : Handle(c)
    \/ \E w \in workers : Work(w)
    \/ \E w \in workers : FailureLost(w)
    \/ Crash
    \/ Close
    \/ Reopen
    \/ \E t \in Transactions : Confirm(t)
    \/ \E t \in Transactions : Reorganise(t)
    \/ Tick

Spec == Init /\ [][Next]_vars

\* Some claim of i is served, by the step A of its handler.
Serves(i, phase, A(_)) ==
    \E c \in Requests : requests[c].phase = phase /\ requests[c].inv = i /\ A(c)

(***************************************************************************)
(* Go schedules every handler and every worker, a stopped gateway is       *)
(* started again, and time passes.  The client claims again every two      *)
(* seconds until it has an answer (ClientManager.Continue), so that the    *)
(* node and the database serve its claims unless they fail all of them.    *)
(***************************************************************************)
Fairness ==
    /\ \A c \in Requests : WF_vars(Handle(c))
    /\ \A i \in Invoices :
          /\ WF_vars(\E c \in Requests : ReceiveClaim(c, i))
          /\ SF_vars(Serves(i, "observe", ObservePayment))
          /\ SF_vars(Serves(i, "acquire", AcquireJob))
    /\ WF_vars(\E w \in workers : Work(w))
    /\ WF_vars(Reopen)
    /\ WF_vars(Tick)

FairSpec == Spec /\ Fairness

-----------------------------------------------------------------------------
(* Properties.                                                             *)

Attempts == 0..MaxAttempts

\* Tables, files and workers hold values of their types: no invoice is ever
\* attempted more often than MaxAttempts, whoever claims it and whatever
\* fails, so neither is its product called more often.
TypeOK ==
    /\ invoices \in [Invoices ->
          [status : {"none", "open", "submitted", "delivered"},
           tx : Transactions \cup {NoTx}, ttl : 0..Lifetime, delivery : Attempts]]
    /\ jobs \in [Invoices ->
          [status : {"none", "queued", "processing", "failed", "permanent", "delivered"},
           attempts : Attempts, age : 0..StaleAfter]]
    /\ staged \in [Invoices -> Attempts] /\ artifact \in [Invoices -> Attempts]
    /\ calls \in [Invoices -> Attempts]
    /\ workers \subseteq
          [inv : Invoices, attempt : Attempts, age : 0..StaleAfter, result : Attempts,
           phase : {"check", "call", "called", "artifact", "stage", "deliver", "cleanup",
                    "failed", "permanent"}]
    /\ depth \in [Transactions -> -1..Required]

\* A transaction pays for one invoice only, the one whose amount it pays,
\* although handlers check an invoice long before they write it.
PaysOneInvoice ==
    \A i \in Invoices : invoices[i].tx # NoTx =>
        /\ i \in Pays[invoices[i].tx]
        /\ \A j \in Invoices \ {i} : invoices[j].tx # invoices[i].tx

\* The product is called only for a payment that had its confirmations, even
\* when a reorganisation takes them back meanwhile.
CallsAreConfirmed ==
    \A i \in Invoices : calls[i] > 0 => invoices[i].tx \in reached

\* SQLite serialises fulfillment: two workers never attend to one invoice,
\* although a job without a result is handed out again when it is stale.
OneWorkerPerInvoice ==
    \A v, w \in workers : v.inv = w.inv => v = w

\* The product is called only for a payment that had its confirmations, even when they are
\* taken back meanwhile, by one worker of an invoice at a time and at most MaxAttempts
\* times, although stale jobs are handed out again (gateway.go:413, store.go:314, :317).
CallsAreJustified ==
    /\ CallsAreConfirmed /\ OneWorkerPerInvoice
    /\ \A i \in Invoices : calls[i] <= MaxAttempts

\* The artifact that is served for a delivered invoice is the one its signed
\* receipt names, wherever earlier attempts were cut short.
ArtifactMatchesReceipt ==
    \A i \in Invoices : invoices[i].status = "delivered" =>
        artifact[i] = invoices[i].delivery /\ invoices[i].delivery > 0

\* What is staged stays until it is delivered, and the product is not called
\* again for it: no attempt pays its provider for what an earlier one has.
StagedIsNotPaidAgain ==
    [][\A i \in Invoices : staged[i] # 0 =>
          /\ staged'[i] = staged[i] \/ invoices[i].status = "delivered"
          /\ calls'[i] = calls[i]]_vars

\* What a step leaves of a payment and of a delivery.
StaysFinal ==
    \A i \in Invoices :
        /\ invoices[i].tx # NoTx => invoices'[i].tx = invoices[i].tx
        /\ invoices[i].status = "delivered" =>
              invoices'[i].status = "delivered" /\ invoices'[i].delivery = invoices[i].delivery

\* A payment and a delivery are final: no handler that read an older state of
\* the invoice undoes them (store.go:276, store.go:391).
PaymentsAreFinal == [][StaysFinal]_vars

\* The claims of an invoice have a final answer other than a delivery.
GivenUp(i) ==
    \/ jobs[i].status = "permanent"
    \/ jobs[i].status = "failed" /\ jobs[i].attempts = MaxAttempts

\* The worker of the last attempt was lost (StaleJobsRecover).
LastAttemptLost(i) ==
    /\ jobs[i].status = "processing" /\ jobs[i].attempts = MaxAttempts
    /\ \A w \in workers : w.inv # i

\* A payment that stays confirmed is delivered, or its claims are answered
\* with a failure, also when the gateway is stopped or dies on the way: nobody
\* polls it forever, unless the worker of the very last attempt was lost
\* (gateway.go:429, store.go:314).
PaidInvoiceSettles ==
    \A i \in Invoices :
        []<>(\/ invoices[i].status # "submitted"
             \/ ~Confirmed(invoices[i].tx)
             \/ GivenUp(i)
             \/ LastAttemptLost(i))

\* A job whose worker was lost is handed out again once it is stale.
StaleJobsRecover ==
    \A i \in Invoices :
        jobs[i].status = "processing" /\ jobs[i].age = StaleAfter => Acquirable(jobs[i])
=============================================================================
