--------------------------- MODULE GatewayProofs ---------------------------
(***************************************************************************)
(* Theorems about Gateway, for any number of invoices, transactions,       *)
(* requests, attempts and faults, and for any delays.                      *)
(*                                                                         *)
(* A handler writes on what it read before it asked the node, so the       *)
(* invariant says what of it is still true (RequestSound).  A worker does  *)
(* not name its attempt when it writes; that it is the only one of its     *)
(* invoice rests on time: job and worker age together, and a worker is     *)
(* gone before its job is stale (WorkerSound).                             *)
(***************************************************************************)
EXTENDS Gateway, TLAPS

Phases == {"check", "call", "called", "artifact", "stage", "deliver", "cleanup", "failed", "permanent"}

Workers == [inv : Invoices, attempt : Attempts, age : 0..StaleAfter, result : Attempts, phase : Phases]

\* A request that is under way, of an invoice and a transaction.
Underway == [phase : {"accept", "submit", "observe", "acquire"}, inv : Invoices, tx : Transactions]

Types ==
    /\ TypeOK
    /\ requests \in [Requests -> {NoRequest} \cup Underway]
    /\ closing \in BOOLEAN /\ faults \in [Faults -> Nat]

\* What a handler knows when it comes back from the node: its transaction pays its invoice,
\* a claim's invoice still has the transaction it had, and one that goes on to a job had
\* its confirmations.
RequestSound ==
    \A c \in Requests :
        /\ requests[c].phase \in {"accept", "submit"} => requests[c].inv \in Pays[requests[c].tx]
        /\ requests[c].phase \in {"observe", "acquire"} =>
              invoices[requests[c].inv].tx = requests[c].tx
        /\ requests[c].phase = "acquire" => requests[c].tx \in reached

\* A payment is recorded with the status; jobs exist for paid invoices only, and invoice and
\* job are delivered together.
TablesAgree ==
    \A i \in Invoices :
        /\ invoices[i].status \in {"submitted", "delivered"} <=> invoices[i].tx # NoTx
        /\ jobs[i].status # "none" => invoices[i].tx # NoTx
        /\ jobs[i].status = "none" => jobs[i].attempts = 0
        /\ invoices[i].status = "delivered" <=> jobs[i].status = "delivered"

\* Depths of a transaction that were enough are remembered.
DepthReached == \A t \in Transactions : depth[t] >= Required => t \in reached

\* A job is in the hands of the one worker of its invoice, which is as old as the job.
WorkerSound ==
    \A w \in workers :
        /\ invoices[w.inv].tx \in reached
        /\ w.age < StaleAfter
        /\ w.phase = "cleanup" => jobs[w.inv].status = "delivered"
        /\ w.phase # "cleanup" => jobs[w.inv].status = "processing" /\ jobs[w.inv].age = w.age
        /\ w.phase \in {"check", "call"} => calls[w.inv] < jobs[w.inv].attempts
        /\ w.phase \in {"call", "called", "artifact", "stage"} => staged[w.inv] = 0
        /\ w.phase \in {"called", "artifact", "stage", "deliver"} => w.result > 0
        /\ w.phase \in {"stage", "deliver"} => artifact[w.inv] = w.result

\* Every call belongs to an attempt.
CallsCounted == \A i \in Invoices : calls[i] <= jobs[i].attempts

Inv ==
    /\ Types /\ RequestSound /\ TablesAgree /\ DepthReached /\ WorkerSound /\ CallsCounted
    /\ PaysOneInvoice /\ CallsAreConfirmed /\ OneWorkerPerInvoice /\ ArtifactMatchesReceipt
-----------------------------------------------------------------------------
InvoiceRows == [status : {"none", "open", "submitted", "delivered"},
                tx : Transactions \cup {NoTx}, ttl : 0..Lifetime, delivery : Attempts]

JobRows == [status : {"none", "queued", "processing", "failed", "permanent", "delivered"},
            attempts : Attempts, age : 0..StaleAfter]

\* TypeOK with the types of rows and workers named.
LEMMA TypeParts ==
    /\ TypeOK <=> /\ invoices \in [Invoices -> InvoiceRows] /\ jobs \in [Invoices -> JobRows]
                  /\ staged \in [Invoices -> Attempts] /\ artifact \in [Invoices -> Attempts]
                  /\ calls \in [Invoices -> Attempts] /\ workers \subseteq Workers
                  /\ depth \in [Transactions -> -1..Required]
    /\ TypeOK' <=> /\ invoices' \in [Invoices -> InvoiceRows] /\ jobs' \in [Invoices -> JobRows]
                   /\ staged' \in [Invoices -> Attempts] /\ artifact' \in [Invoices -> Attempts]
                   /\ calls' \in [Invoices -> Attempts] /\ workers' \subseteq Workers
                   /\ depth' \in [Transactions -> -1..Required]
BY DEF TypeOK, InvoiceRows, JobRows, Workers, Phases

LEMMA Numbers ==
    /\ StaleAfter \in Nat \ {0} /\ Attempts \subseteq Nat /\ 0 \in Attempts /\ 0 \in 0..StaleAfter
    /\ Required \in Nat \ {0} /\ RetryAfter \in Nat /\ MaxAttempts \in Nat \ {0} /\ Lifetime \in Nat \ {0}
    /\ \A n \in Attempts : n <= MaxAttempts
BY GatewayAssumption DEF StaleAfter, Attempts

\* What the invariant says of the variables' types.
LEMMA Typed ==
    ASSUME Inv
    PROVE  /\ invoices \in [Invoices -> InvoiceRows] /\ jobs \in [Invoices -> JobRows]
           /\ staged \in [Invoices -> Attempts] /\ artifact \in [Invoices -> Attempts]
           /\ calls \in [Invoices -> Attempts] /\ workers \subseteq Workers
           /\ depth \in [Transactions -> -1..Required]
           /\ requests \in [Requests -> {NoRequest} \cup Underway]
           /\ closing \in BOOLEAN /\ faults \in [Faults -> Nat]
BY TypeParts DEF Inv, Types

LEMMA InitInv == Init => Inv
<1> SUFFICES ASSUME Init PROVE Inv OBVIOUS
<1>1. NoInvoice \in InvoiceRows /\ NoJob \in JobRows
  BY Numbers DEF NoInvoice, NoJob, InvoiceRows, JobRows
<1>2. TypeOK BY <1>1, Numbers, TypeParts DEF Init
<1>3. Types BY <1>2 DEF Init, Types
<1>4. RequestSound BY DEF Init, RequestSound, NoRequest
<1>5. TablesAgree BY DEF Init, TablesAgree, NoInvoice, NoJob
<1>6. DepthReached BY Numbers DEF Init, DepthReached
<1>7. WorkerSound /\ OneWorkerPerInvoice BY DEF Init, WorkerSound, OneWorkerPerInvoice
<1>8. CallsCounted BY DEF Init, CallsCounted, NoJob
<1>9. PaysOneInvoice /\ CallsAreConfirmed /\ ArtifactMatchesReceipt
  BY DEF Init, PaysOneInvoice, CallsAreConfirmed, ArtifactMatchesReceipt, NoInvoice
<1>. QED BY <1>3, <1>4, <1>5, <1>6, <1>7, <1>8, <1>9 DEF Inv
-----------------------------------------------------------------------------
\* What leaves tables, files, workers and the count of calls alone.
LEMMA TablesUntouched ==
    ASSUME Inv, UNCHANGED <<tables, files, workers, calls, reached>>
    PROVE  /\ TablesAgree' /\ WorkerSound' /\ CallsCounted' /\ PaysOneInvoice' /\ CallsAreConfirmed'
           /\ OneWorkerPerInvoice' /\ ArtifactMatchesReceipt'
BY DEF Inv, tables, files, TablesAgree, WorkerSound, CallsCounted, PaysOneInvoice, CallsAreConfirmed,
       OneWorkerPerInvoice, ArtifactMatchesReceipt

\* A step of one handler that writes no table.
LEMMA HandlerMoves ==
    ASSUME Inv, NEW c \in Requests, NEW r \in {NoRequest} \cup Underway,
           requests' = [requests EXCEPT ![c] = r],
           UNCHANGED <<tables, files, workers, calls, reached, closing, faults>>,
           depth' \in [Transactions -> -1..Required],
           \A t \in Transactions : depth'[t] >= Required => depth[t] >= Required,
           r.phase \in {"accept", "submit"} => r.inv \in Pays[r.tx],
           r.phase \in {"observe", "acquire"} => invoices[r.inv].tx = r.tx,
           r.phase = "acquire" => r.tx \in reached
    PROVE  Inv'
<1>1. requests' \in [Requests -> {NoRequest} \cup Underway] /\ requests'[c] = r
      /\ \A d \in Requests : d # c => requests'[d] = requests[d]
  BY Typed
<1>2. Types' BY <1>1, Typed, TypeParts DEF Types, tables, files
<1>3. RequestSound'
  <2> SUFFICES ASSUME NEW d \in Requests
               PROVE  /\ requests'[d].phase \in {"accept", "submit"} => requests'[d].inv \in Pays[requests'[d].tx]
                      /\ requests'[d].phase \in {"observe", "acquire"} =>
                            invoices[requests'[d].inv].tx = requests'[d].tx
                      /\ requests'[d].phase = "acquire" => requests'[d].tx \in reached
    BY DEF RequestSound, tables
  <2>1. CASE d = c BY <2>1, <1>1
  <2>2. CASE d # c BY <2>2, <1>1 DEF Inv, RequestSound
  <2>. QED BY <2>1, <2>2
<1>4. DepthReached' BY DEF Inv, DepthReached
<1>. QED BY <1>2, <1>3, <1>4, TablesUntouched DEF Inv

\* The node admits the transaction of a request: a first depth is less than the required one.
LEMMA Admits ==
    ASSUME Inv, NEW t \in Transactions, depth' = [depth EXCEPT ![t] = IF @ < 0 THEN 0 ELSE @]
    PROVE  /\ depth' \in [Transactions -> -1..Required]
           /\ \A u \in Transactions : depth'[u] >= Required => depth[u] >= Required
<1>1. depth \in [Transactions -> -1..Required] /\ Required \in Nat \ {0} BY Typed, Numbers
<1>. QED BY <1>1

LEMMA UnderwayRequest ==
    ASSUME Inv, NEW c \in Requests, requests[c].phase # "none" \/ requests[c] # NoRequest
    PROVE  requests[c] \in Underway /\ requests[c].inv \in Invoices /\ requests[c].tx \in Transactions
           /\ requests[c].phase \in {"accept", "submit", "observe", "acquire"}
<1>1. requests[c] \in {NoRequest} \cup Underway BY Typed
<1>2. requests[c] # NoRequest BY DEF NoRequest
<1>3. requests[c] \in Underway BY <1>1, <1>2
<1>. QED BY <1>3 DEF Underway

LEMMA ReceiveStep ==
    ASSUME Inv, NEW c \in Requests, NEW i \in Invoices,
           ReceiveClaim(c, i) \/ \E t \in Transactions : ReceiveSubmit(c, i, t)
    PROVE  Inv'
<1>1. depth \in [Transactions -> -1..Required] BY Typed
<1>2. CASE ReceiveClaim(c, i)
  <2> DEFINE r == [phase |-> "observe", inv |-> i, tx |-> invoices[i].tx]
  <2>1. invoices[i].tx \in Transactions
    BY <1>2, Typed DEF ReceiveClaim, Inv, TablesAgree, InvoiceRows
  <2>2. r \in Underway BY <2>1 DEF Underway
  <2>. QED BY <1>1, <1>2, <2>2, HandlerMoves DEF ReceiveClaim, node
<1>3. CASE \E t \in Transactions : ReceiveSubmit(c, i, t)
  <2>1. PICK t \in Transactions : ReceiveSubmit(c, i, t) BY <1>3
  <2> DEFINE r == [phase |-> "accept", inv |-> i, tx |-> t]
  <2>2. r \in Underway BY DEF Underway
  <2>. QED BY <1>1, <2>1, <2>2, HandlerMoves DEF ReceiveSubmit, node
<1>. QED BY <1>2, <1>3

\* The parts of a handler up to its write.
LEMMA HandleStep ==
    ASSUME Inv, NEW c \in Requests, NodeAccepts(c) \/ ObservePayment(c) \/ RequestFails(c)
    PROVE  Inv'
<1>1. depth \in [Transactions -> -1..Required] BY Typed
<1>2. NoRequest.phase = "none" BY DEF NoRequest
<1>3. CASE NodeAccepts(c)
  <2> DEFINE r == [requests[c] EXCEPT !.phase = "submit"]
  <2>1. requests[c] \in Underway /\ requests[c].tx \in Transactions BY <1>3, UnderwayRequest DEF NodeAccepts
  <2>2. r \in Underway /\ r.phase = "submit" /\ r.inv = requests[c].inv /\ r.tx = requests[c].tx
    BY <2>1 DEF Underway
  <2>3. r.inv \in Pays[r.tx] BY <1>3, <2>2 DEF NodeAccepts, Inv, RequestSound
  <2>4. requests' = [requests EXCEPT ![c] = r] BY <1>3 DEF NodeAccepts
  <2>. HIDE DEF r
  <2>. QED BY <1>3, <2>1, <2>2, <2>3, <2>4, Admits, HandlerMoves DEF NodeAccepts
<1>4. CASE ObservePayment(c)
  <2>1. CASE Confirmed(requests[c].tx)
    <3> DEFINE r == [requests[c] EXCEPT !.phase = "acquire"]
    <3>1. requests[c] \in Underway /\ requests[c].tx \in Transactions BY <1>4, UnderwayRequest DEF ObservePayment
    <3>2. r \in Underway /\ r.phase = "acquire" /\ r.inv = requests[c].inv /\ r.tx = requests[c].tx
      BY <3>1 DEF Underway
    <3>3. r.tx \in reached BY <2>1, <3>1, <3>2 DEF Inv, DepthReached, Confirmed
    <3>4. invoices[r.inv].tx = r.tx BY <1>4, <3>2 DEF ObservePayment, Inv, RequestSound
    <3>5. requests' = [requests EXCEPT ![c] = r] BY <1>4, <2>1 DEF ObservePayment
    <3>. HIDE DEF r
    <3>. QED BY <1>1, <1>4, <3>2, <3>3, <3>4, <3>5, HandlerMoves DEF ObservePayment, node
  <2>2. CASE ~Confirmed(requests[c].tx) BY <1>1, <1>2, <1>4, <2>2, HandlerMoves DEF ObservePayment, node
  <2>. QED BY <2>1, <2>2
<1>5. CASE RequestFails(c)
  <2>1. requests[c].tx \in Transactions BY <1>5, UnderwayRequest DEF RequestFails
  <2>2. /\ depth' \in [Transactions -> -1..Required]
        /\ \A u \in Transactions : depth'[u] >= Required => depth[u] >= Required
    BY <1>1, <1>5, <2>1, Admits DEF RequestFails
  <2>. QED BY <1>2, <1>5, <2>2, HandlerMoves DEF RequestFails
<1>. QED BY <1>3, <1>4, <1>5
-----------------------------------------------------------------------------
LEMMA CreateInvoiceStep == ASSUME Inv, NEW i \in Invoices, CreateInvoice(i) PROVE Inv'
<1>0. UNCHANGED <<jobs, files, requests, workers, calls, node, closing, faults>> /\ invoices[i].status = "none"
  BY DEF CreateInvoice
<1>1. /\ invoices' \in [Invoices -> InvoiceRows] /\ invoices'[i].status = "open"
      /\ invoices'[i].tx = invoices[i].tx
      /\ \A j \in Invoices : j # i => invoices'[j] = invoices[j]
  <2>1. invoices[i] \in InvoiceRows /\ Lifetime \in 0..Lifetime BY Typed, Numbers
  <2> DEFINE r == [invoices[i] EXCEPT !.status = "open", !.ttl = Lifetime]
  <2>2. r \in InvoiceRows /\ r.status = "open" /\ r.tx = invoices[i].tx BY <2>1 DEF InvoiceRows
  <2>3. invoices' = [invoices EXCEPT ![i] = r] BY DEF CreateInvoice
  <2>. HIDE DEF r
  <2>. QED BY <2>2, <2>3, Typed
<1>2. invoices[i].tx = NoTx /\ jobs[i].status # "delivered" BY <1>0 DEF Inv, TablesAgree
<1>3. \A j \in Invoices : /\ invoices'[j].tx = invoices[j].tx
                          /\ invoices'[j].status = "delivered" =>
                                invoices[j].status = "delivered" /\ invoices'[j] = invoices[j]
  BY <1>1
<1>4. Types' BY <1>0, <1>1, Typed, TypeParts DEF Types, files, node
<1>5. RequestSound'
  <2>1. \A c \in Requests : requests[c].phase \in {"observe", "acquire"} => requests[c].inv \in Invoices
    BY UnderwayRequest
  <2>. QED BY <1>0, <1>3, <2>1 DEF Inv, RequestSound, node
<1>6. TablesAgree' BY <1>0, <1>1, <1>2 DEF Inv, TablesAgree
<1>7. WorkerSound'
  <2>1. \A w \in workers : w.inv \in Invoices /\ invoices'[w.inv].tx = invoices[w.inv].tx
    BY <1>3, Typed DEF Workers
  <2>. QED BY <1>0, <2>1 DEF Inv, WorkerSound, files, node
<1>8. PaysOneInvoice' BY <1>3 DEF Inv, PaysOneInvoice
<1>9. CallsAreConfirmed' BY <1>0, <1>3 DEF Inv, CallsAreConfirmed, node
<1>10. ArtifactMatchesReceipt' BY <1>0, <1>3 DEF Inv, ArtifactMatchesReceipt, files
<1>11. DepthReached' /\ CallsCounted' /\ OneWorkerPerInvoice'
  BY <1>0 DEF Inv, DepthReached, CallsCounted, OneWorkerPerInvoice, node
<1>. QED BY <1>4, <1>5, <1>6, <1>7, <1>8, <1>9, <1>10, <1>11 DEF Inv

LEMMA SubmitStep == ASSUME Inv, NEW c \in Requests, Submit(c) PROVE Inv'
<1> DEFINE i == requests[c].inv
           t == requests[c].tx
<1>1. i \in Invoices /\ t \in Transactions BY UnderwayRequest DEF Submit
<1>2. i \in Pays[t] BY DEF Submit, Inv, RequestSound
<1>3. NoRequest.phase = "none" /\ depth \in [Transactions -> -1..Required] BY Typed DEF NoRequest
<1>4. CASE ~Payable(i, t)
  BY <1>3, <1>4, HandlerMoves DEF Submit, tables, node
<1>5. CASE Payable(i, t)
  <2> HIDE DEF i, t
  <2>1. /\ invoices' = [invoices EXCEPT ![i].status = "submitted", ![i].tx = t]
        /\ requests' = [requests EXCEPT ![c] = NoRequest]
        /\ UNCHANGED <<jobs, files, workers, calls, node, closing, faults>>
    BY <1>5 DEF Submit, i, t
  <2>2. /\ invoices' \in [Invoices -> InvoiceRows] /\ invoices'[i].status = "submitted"
        /\ invoices'[i].tx = t
        /\ \A j \in Invoices : j # i => invoices'[j] = invoices[j]
    BY <1>1, <2>1, Typed DEF InvoiceRows
  <2>3. /\ invoices[i].tx = NoTx /\ invoices[i].status = "open" /\ jobs[i].status = "none"
        /\ \A j \in Invoices : invoices[j].tx # t
    BY <1>1, <1>5 DEF Inv, TablesAgree, Payable, Unused
  <2>4. t # NoTx BY <1>1, NoTxAssumption
  <2>5. /\ requests' \in [Requests -> {NoRequest} \cup Underway] /\ requests'[c] = NoRequest
        /\ \A d \in Requests : d # c => requests'[d] = requests[d]
    BY <2>1, Typed
  <2>6. Types' BY <2>1, <2>2, <2>5, Typed, TypeParts DEF Types, files, node
  <2>7. RequestSound'
    <3> SUFFICES ASSUME NEW d \in Requests, d # c
                 PROVE  /\ requests[d].phase \in {"accept", "submit"} => requests[d].inv \in Pays[requests[d].tx]
                        /\ requests[d].phase \in {"observe", "acquire"} =>
                              invoices'[requests[d].inv].tx = requests[d].tx
                        /\ requests[d].phase = "acquire" => requests[d].tx \in reached
      BY <2>1, <2>5, <1>3 DEF RequestSound, node
    <3>1. requests[d].phase \in {"observe", "acquire"} =>
            requests[d].inv \in Invoices /\ invoices[requests[d].inv].tx = requests[d].tx
            /\ requests[d].tx # NoTx
      BY UnderwayRequest, NoTxAssumption DEF Inv, RequestSound
    <3>. QED BY <3>1, <2>2, <2>3 DEF Inv, RequestSound
  <2>8. TablesAgree' BY <2>1, <2>2, <2>3, <2>4 DEF Inv, TablesAgree
  <2>9. WorkerSound'
    <3>1. \A w \in workers : w.inv \in Invoices /\ jobs[w.inv].status \in {"processing", "delivered"}
      BY Typed DEF Workers, Inv, WorkerSound
    <3>2. \A w \in workers : w.inv # i BY <3>1, <2>3
    <3>. QED BY <2>1, <2>2, <3>1, <3>2 DEF Inv, WorkerSound, files, node
  <2>10. calls[i] = 0
    <3>1. jobs[i].attempts = 0 BY <1>1, <2>3 DEF Inv, TablesAgree
    <3>2. calls[i] \in Nat BY <1>1, Typed, Numbers
    <3>. QED BY <1>1, <3>1, <3>2 DEF Inv, CallsCounted
  <2>11. PaysOneInvoice' BY <1>2, <2>2, <2>3 DEF Inv, PaysOneInvoice, i, t
  <2>12. CallsAreConfirmed' /\ ArtifactMatchesReceipt'
    BY <2>1, <2>2, <2>10 DEF Inv, CallsAreConfirmed, ArtifactMatchesReceipt, node, files
  <2>13. DepthReached' /\ CallsCounted' /\ OneWorkerPerInvoice'
    BY <2>1 DEF Inv, DepthReached, CallsCounted, OneWorkerPerInvoice, node
  <2>. QED BY <2>6, <2>7, <2>8, <2>9, <2>11, <2>12, <2>13 DEF Inv
<1>. QED BY <1>4, <1>5

\* A job is handed out only where no worker has it: a queued or failed one has none, and one
\* in processing is older than any worker gets.
LEMMA AcquireJobStep == ASSUME Inv, NEW c \in Requests, AcquireJob(c) PROVE Inv'
<1> DEFINE i == requests[c].inv
           job == Queued(i)
<1>1. i \in Invoices /\ requests[c].tx \in Transactions BY UnderwayRequest DEF AcquireJob
<1>2. invoices[i].tx = requests[c].tx /\ requests[c].tx \in reached BY DEF AcquireJob, Inv, RequestSound
<1>3. invoices[i].tx # NoTx /\ invoices[i].tx \in reached BY <1>1, <1>2, NoTxAssumption
<1>4. /\ jobs[i] \in JobRows /\ job \in JobRows /\ job.attempts = jobs[i].attempts
      /\ job = jobs[i] \/ (jobs[i].status = "none" /\ job.status = "queued")
  <2>1. jobs[i] \in JobRows BY <1>1, Typed
  <2>2. CASE jobs[i] = NoJob /\ invoices[i].status = "submitted"
    <3>1. job = [NoJob EXCEPT !.status = "queued"] BY <2>2 DEF Queued
    <3>. QED BY <2>1, <2>2, <3>1 DEF NoJob, JobRows
  <2>3. CASE ~(jobs[i] = NoJob /\ invoices[i].status = "submitted") BY <2>1, <2>3 DEF Queued
  <2>. QED BY <2>2, <2>3
<1> HIDE DEF i, job
<1>5. /\ requests' \in [Requests -> {NoRequest} \cup Underway] /\ requests'[c] = NoRequest
      /\ \A d \in Requests : d # c => requests'[d] = requests[d]
  BY Typed DEF AcquireJob
<1>6. RequestSound'
  <2>1. NoRequest.phase = "none" BY DEF NoRequest
  <2>. QED BY <1>5, <2>1 DEF AcquireJob, Inv, RequestSound, node
<1>7. PaysOneInvoice' /\ CallsAreConfirmed' /\ ArtifactMatchesReceipt' /\ DepthReached'
  BY DEF AcquireJob, Inv, PaysOneInvoice, CallsAreConfirmed, ArtifactMatchesReceipt, DepthReached, files, node
<1>8. \A w \in workers : w.inv \in Invoices /\ w.age \in Nat /\ w \in Workers
  BY Typed DEF Workers
<1>9. CASE ~Acquirable(job)
  <2>1. jobs' = [jobs EXCEPT ![i] = job] /\ UNCHANGED <<invoices, workers, files, calls, node, closing, faults>>
    BY <1>9 DEF AcquireJob, i, job
  <2>2. /\ jobs' \in [Invoices -> JobRows] /\ jobs'[i] = job
        /\ \A j \in Invoices : j # i => jobs'[j] = jobs[j]
    BY <1>1, <1>4, <2>1, Typed
  <2>3. Types' BY <1>5, <2>1, <2>2, Typed, TypeParts DEF Types, files, node
  <2>4. TablesAgree' BY <1>3, <1>4, <2>1, <2>2 DEF Inv, TablesAgree
  <2>5. \A w \in workers : jobs'[w.inv] = jobs[w.inv]
    BY <1>4, <1>8, <2>2 DEF Inv, WorkerSound
  <2>6. WorkerSound' /\ OneWorkerPerInvoice'
    BY <2>1, <2>5 DEF Inv, WorkerSound, OneWorkerPerInvoice, files, node
  <2>7. CallsCounted' BY <1>4, <2>1, <2>2 DEF Inv, CallsCounted
  <2>. QED BY <1>6, <1>7, <2>3, <2>4, <2>6, <2>7 DEF Inv
<1>10. CASE Acquirable(job)
  <2> DEFINE row == [status |-> "processing", attempts |-> job.attempts + 1, age |-> 0]
             w == [inv |-> i, attempt |-> job.attempts + 1, phase |-> "check", age |-> 0, result |-> 0]
  <2>1. /\ jobs' = [jobs EXCEPT ![i] = row] /\ workers' = workers \cup {w}
        /\ UNCHANGED <<invoices, files, calls, node, closing, faults>>
    BY <1>10 DEF AcquireJob, i, job
  <2>2. /\ job.attempts < MaxAttempts
        /\ job.status \in {"queued", "failed"} \/ (job.status = "processing" /\ job.age >= StaleAfter)
    BY <1>10 DEF Acquirable
  <2>3. job.attempts \in Nat /\ job.attempts + 1 \in Attempts
    BY <1>4, <2>2, Numbers DEF JobRows, Attempts
  <2>4. row \in JobRows /\ w \in Workers
    BY <1>1, <2>3, Numbers DEF JobRows, Workers, Phases
  <2>5. /\ jobs' \in [Invoices -> JobRows] /\ jobs'[i] = row
        /\ \A j \in Invoices : j # i => jobs'[j] = jobs[j]
    BY <1>1, <2>1, <2>4, Typed
  <2>6. \A v \in workers : v.inv # i
    <3> SUFFICES ASSUME NEW v \in workers, v.inv = i PROVE FALSE OBVIOUS
    <3>1. /\ v.age < StaleAfter /\ jobs[i].status \in {"processing", "delivered"}
          /\ jobs[i].status = "processing" => jobs[i].age = v.age
      BY DEF Inv, WorkerSound
    <3>2. job = jobs[i] BY <1>4, <3>1
    <3>. QED BY <1>8, <2>2, <3>1, <3>2, Numbers
  <2>7. Types' BY <1>5, <2>1, <2>4, <2>5, Typed, TypeParts DEF Types, files, node
  <2>8. invoices[i].status # "delivered"
    BY <1>1, <1>4, <2>2 DEF Inv, TablesAgree
  <2>9. TablesAgree' BY <1>3, <2>1, <2>5, <2>8 DEF Inv, TablesAgree
  <2>10. OneWorkerPerInvoice' BY <2>1, <2>6 DEF Inv, OneWorkerPerInvoice
  <2>11. calls[i] < jobs'[i].attempts
    <3>1. calls[i] \in Nat /\ calls[i] <= job.attempts BY <1>1, <1>4, Typed, Numbers DEF Inv, CallsCounted
    <3>. QED BY <2>3, <2>5, <3>1
  <2>12. CallsCounted'
    <3>1. calls[i] <= jobs'[i].attempts
      <4>1. jobs'[i].attempts = job.attempts + 1 BY <2>5
      <4>2. calls[i] \in Nat /\ jobs'[i].attempts \in Nat BY <1>1, <2>3, <4>1, Typed, Numbers
      <4>. QED BY <4>2, <2>11
    <3>. QED BY <2>1, <2>5, <3>1 DEF Inv, CallsCounted
  <2>13. WorkerSound'
    <3>1. \A v \in workers : jobs'[v.inv] = jobs[v.inv] BY <1>8, <2>5, <2>6
    <3>2. \A v \in workers' : v \in workers \/ v = w BY <2>1
    <3>3. 0 < StaleAfter BY Numbers
    <3>. QED BY <1>3, <2>1, <2>5, <2>11, <3>1, <3>2, <3>3 DEF Inv, WorkerSound, files, node
  <2>. QED BY <1>6, <1>7, <2>7, <2>9, <2>10, <2>12, <2>13 DEF Inv
<1>. QED BY <1>9, <1>10
-----------------------------------------------------------------------------
\* A step of a worker leaves the other workers with other invoices.
LEMMA OthersElsewhere ==
    ASSUME Inv, NEW w \in workers
    PROVE  /\ w \in Workers /\ w.inv \in Invoices /\ w.age \in Nat /\ w.result \in Attempts
           /\ \A u \in workers : u \in Workers /\ u.inv \in Invoices /\ (u # w => u.inv # w.inv)
BY Typed DEF Workers, Inv, OneWorkerPerInvoice

\* A step of a worker that is still about its job and writes no table.
LEMMA WorkerMoves ==
    ASSUME Inv, NEW w \in workers, NEW v \in Workers,
           workers' = (workers \ {w}) \cup {v},
           v.inv = w.inv, v.age = w.age, w.phase # "cleanup", v.phase # "cleanup",
           UNCHANGED <<tables, requests, node, closing, faults>>,
           staged' \in [Invoices -> Attempts], artifact' \in [Invoices -> Attempts],
           calls' \in [Invoices -> Attempts],
           \A i \in Invoices \ {w.inv} :
               staged'[i] = staged[i] /\ artifact'[i] = artifact[i] /\ calls'[i] = calls[i],
           calls'[w.inv] <= jobs[w.inv].attempts,
           v.phase \in {"check", "call"} => calls'[w.inv] < jobs[w.inv].attempts,
           v.phase \in {"call", "called", "artifact", "stage"} => staged'[w.inv] = 0,
           v.phase \in {"called", "artifact", "stage", "deliver"} => v.result > 0,
           v.phase \in {"stage", "deliver"} => artifact'[w.inv] = v.result
    PROVE  Inv'
<1>1. /\ w.inv \in Invoices
      /\ \A u \in workers' : u = v \/ (u \in workers /\ u.inv \in Invoices \ {w.inv})
  BY OthersElsewhere
<1>2. invoices[w.inv].tx \in reached /\ jobs[w.inv].status = "processing" /\ w.age < StaleAfter
      /\ jobs[w.inv].age = w.age
  BY DEF Inv, WorkerSound
<1>3. Types' BY Typed, TypeParts DEF Types, tables, node
<1>4. RequestSound' /\ TablesAgree' /\ DepthReached' /\ PaysOneInvoice'
  BY DEF Inv, RequestSound, TablesAgree, DepthReached, PaysOneInvoice, tables, node
<1>5. WorkerSound'
  <2>1. \A u \in workers : u.inv \in Invoices \ {w.inv} =>
          staged'[u.inv] = staged[u.inv] /\ artifact'[u.inv] = artifact[u.inv] /\ calls'[u.inv] = calls[u.inv]
    OBVIOUS
  <2>. QED BY <1>1, <1>2, <2>1 DEF Inv, WorkerSound, tables, node
<1>6. OneWorkerPerInvoice' BY <1>1 DEF Inv, OneWorkerPerInvoice
<1>7. CallsCounted' BY <1>1 DEF Inv, CallsCounted, tables
<1>8. CallsAreConfirmed' BY <1>1, <1>2 DEF Inv, CallsAreConfirmed, tables, node
<1>9. ArtifactMatchesReceipt'
  <2>1. invoices[w.inv].status # "delivered" BY <1>1, <1>2 DEF Inv, TablesAgree
  <2>. QED BY <1>1, <2>1 DEF Inv, ArtifactMatchesReceipt, tables
<1>. QED BY <1>3, <1>4, <1>5, <1>6, <1>7, <1>8, <1>9 DEF Inv

\* The end of a worker, which leaves its job in a row r that no other worker has.
LEMMA WorkerEnds ==
    ASSUME Inv, NEW w \in workers, workers' = workers \ {w},
           UNCHANGED <<invoices, artifact, calls, requests, node, closing>>,
           faults' \in [Faults -> Nat],
           staged' \in [Invoices -> Attempts],
           \A i \in Invoices \ {w.inv} : staged'[i] = staged[i] /\ jobs'[i] = jobs[i],
           jobs' \in [Invoices -> JobRows], jobs'[w.inv].attempts = jobs[w.inv].attempts,
           \/ jobs'[w.inv].status = jobs[w.inv].status
           \/ jobs[w.inv].status = "processing" /\ jobs'[w.inv].status \in {"failed", "permanent"}
    PROVE  Inv'
<1>1. /\ w.inv \in Invoices
      /\ \A u \in workers' : u \in workers /\ u.inv \in Invoices \ {w.inv}
  BY OthersElsewhere
<1>2. Types' BY Typed, TypeParts DEF Types, node
<1>3. RequestSound' /\ DepthReached' /\ PaysOneInvoice' /\ CallsAreConfirmed' /\ ArtifactMatchesReceipt'
  BY DEF Inv, RequestSound, DepthReached, PaysOneInvoice, CallsAreConfirmed, ArtifactMatchesReceipt, node
<1>4. jobs[w.inv].status # "none" BY DEF Inv, WorkerSound
<1>5. TablesAgree' BY <1>1, <1>4 DEF Inv, TablesAgree
<1>6. WorkerSound' BY <1>1 DEF Inv, WorkerSound, node
<1>7. OneWorkerPerInvoice' BY <1>1 DEF Inv, OneWorkerPerInvoice
<1>8. CallsCounted' BY <1>1 DEF Inv, CallsCounted
<1>. QED BY <1>2, <1>3, <1>5, <1>6, <1>7, <1>8 DEF Inv

LEMMA WorkStep == ASSUME Inv, NEW w \in workers, Work(w) PROVE Inv'
<1>a. /\ w \in Workers /\ w.inv \in Invoices /\ w.result \in Attempts
      /\ staged[w.inv] \in Attempts /\ artifact[w.inv] \in Attempts /\ calls[w.inv] \in Nat
      /\ jobs[w.inv] \in JobRows /\ jobs[w.inv].attempts \in Nat /\ jobs[w.inv].attempts <= MaxAttempts
      /\ staged \in [Invoices -> Attempts] /\ artifact \in [Invoices -> Attempts] /\ calls \in [Invoices -> Attempts]
      /\ \A n \in Attempts : n \in Nat
  BY Typed, Numbers, OthersElsewhere DEF JobRows
<1>b. calls[w.inv] <= jobs[w.inv].attempts BY <1>a DEF Inv, CallsCounted
<1>c. /\ w.phase \in {"check", "call"} => calls[w.inv] < jobs[w.inv].attempts
      /\ w.phase \in {"call", "called", "artifact", "stage"} => staged[w.inv] = 0
      /\ w.phase \in {"called", "artifact", "stage", "deliver"} => w.result > 0
      /\ w.phase \in {"stage", "deliver"} => artifact[w.inv] = w.result
  BY DEF Inv, WorkerSound
<1>d. ASSUME NEW x \in Phases, x # "cleanup", w.phase # "cleanup", Goes(w, x),
             UNCHANGED <<tables, files, requests, calls, node, closing, faults>>,
             x \in {"call"} => w.phase = "check" /\ staged[w.inv] = 0,
             x = "artifact" => w.phase = "called", x \notin {"check", "called", "stage", "deliver"}
      PROVE  Inv'
  <2> DEFINE v == [w EXCEPT !.phase = x]
  <2>1. v \in Workers /\ v.phase = x /\ v.inv = w.inv /\ v.age = w.age /\ v.result = w.result
    BY <1>a DEF Workers
  <2>2. workers' = (workers \ {w}) \cup {v} BY <1>d DEF Goes, Becomes
  <2>. HIDE DEF v
  <2>. QED BY <1>a, <1>b, <1>c, <1>d, <2>1, <2>2, WorkerMoves DEF files
<1>1. CASE CheckStaged(w)
  <2>1. CASE staged[w.inv] = 0 /\ Goes(w, "call") BY <1>1, <2>1, <1>d DEF CheckStaged, Phases
  <2>2. CASE /\ staged[w.inv] # 0 /\ staged[w.inv] = artifact[w.inv]
             /\ Becomes(w, [w EXCEPT !.phase = "deliver", !.result = staged[w.inv]])
    <3> DEFINE v == [w EXCEPT !.phase = "deliver", !.result = staged[w.inv]]
    <3>1. /\ v \in Workers /\ v.phase = "deliver" /\ v.inv = w.inv /\ v.age = w.age /\ v.result = staged[w.inv]
      BY <1>a, Numbers DEF Workers, Phases
    <3>2. workers' = (workers \ {w}) \cup {v} BY <2>2 DEF Becomes
    <3>3. staged[w.inv] > 0 BY <1>a, <2>2
    <3>. HIDE DEF v
    <3>. QED BY <1>1, <1>a, <1>b, <2>2, <3>1, <3>2, <3>3, WorkerMoves DEF CheckStaged, files
  <2>3. CASE Goes(w, "failed") BY <1>1, <2>3, <1>d DEF CheckStaged, Phases
  <2>. QED BY <1>1, <2>1, <2>2, <2>3 DEF CheckStaged
<1>2. CASE CallProduct(w)
  <2> DEFINE v == [w EXCEPT !.phase = "called", !.result = calls'[w.inv]]
  <2>1. calls[w.inv] < jobs[w.inv].attempts /\ staged[w.inv] = 0 BY <1>2, <1>c DEF CallProduct
  <2>2. calls'[w.inv] = calls[w.inv] + 1 /\ \A i \in Invoices \ {w.inv} : calls'[i] = calls[i]
    BY <1>2, <1>a DEF CallProduct
  <2>3. calls'[w.inv] \in Attempts /\ calls'[w.inv] > 0 /\ calls'[w.inv] <= jobs[w.inv].attempts
    BY <1>a, <2>1, <2>2, Numbers DEF Attempts
  <2>4. calls' \in [Invoices -> Attempts] BY <1>2, <1>a, <2>2, <2>3 DEF CallProduct
  <2>5. v \in Workers /\ v.phase = "called" /\ v.inv = w.inv /\ v.age = w.age /\ v.result = calls'[w.inv]
    BY <1>a, <2>3, Numbers DEF Workers, Phases
  <2>6. workers' = (workers \ {w}) \cup {v} BY <1>2 DEF CallProduct, Becomes
  <2>. HIDE DEF v
  <2>. QED BY <1>2, <1>a, <2>1, <2>2, <2>3, <2>4, <2>5, <2>6, WorkerMoves DEF CallProduct, files
<1>3. CASE ProductReturns(w)
  <2>1. PICK x \in {"artifact", "failed", "permanent"} : Goes(w, x) BY <1>3 DEF ProductReturns
  <2>. QED BY <1>3, <2>1, <1>d DEF ProductReturns, Phases
<1>4. CASE StageArtifact(w)
  <2>1. CASE /\ artifact' = [artifact EXCEPT ![w.inv] = ArtifactWritten(w.inv, w.result)]
             /\ Goes(w, "stage")
    <3> DEFINE v == [w EXCEPT !.phase = "stage"]
    <3>1. /\ v \in Workers /\ v.phase = "stage" /\ v.inv = w.inv /\ v.age = w.age /\ v.result = w.result
      BY <1>a, Numbers DEF Workers, Phases
    <3>2. workers' = (workers \ {w}) \cup {v} BY <2>1 DEF Goes, Becomes
    <3>3. /\ artifact' \in [Invoices -> Attempts] /\ artifact'[w.inv] = w.result
          /\ \A i \in Invoices \ {w.inv} : artifact'[i] = artifact[i]
      BY <1>a, <2>1 DEF ArtifactWritten
    <3>. HIDE DEF v
    <3>. QED BY <1>4, <1>a, <1>b, <1>c, <3>1, <3>2, <3>3, WorkerMoves DEF StageArtifact
  <2>2. CASE UNCHANGED artifact /\ Goes(w, "failed") BY <1>4, <2>2, <1>d DEF StageArtifact, Phases, files
  <2>. QED BY <1>4, <2>1, <2>2 DEF StageArtifact
<1>5. CASE StageResult(w)
  <2>1. CASE staged' = [staged EXCEPT ![w.inv] = w.result] /\ Goes(w, "deliver")
    <3> DEFINE v == [w EXCEPT !.phase = "deliver"]
    <3>1. /\ v \in Workers /\ v.phase = "deliver" /\ v.inv = w.inv /\ v.age = w.age /\ v.result = w.result
      BY <1>a, Numbers DEF Workers, Phases
    <3>2. workers' = (workers \ {w}) \cup {v} BY <2>1 DEF Goes, Becomes
    <3>3. /\ staged' \in [Invoices -> Attempts]
          /\ \A i \in Invoices \ {w.inv} : staged'[i] = staged[i]
      BY <1>a, <2>1
    <3>. HIDE DEF v
    <3>. QED BY <1>5, <1>a, <1>b, <1>c, <3>1, <3>2, <3>3, WorkerMoves DEF StageResult
  <2>2. CASE UNCHANGED staged /\ Goes(w, "failed") BY <1>5, <2>2, <1>d DEF StageResult, Phases, files
  <2>. QED BY <1>5, <2>1, <2>2 DEF StageResult
<1>6. CASE DeliverJob(w)
  <2> DEFINE v == [w EXCEPT !.phase = "cleanup"]
  <2>1. /\ v \in Workers /\ v.phase = "cleanup" /\ v.inv = w.inv /\ v.age = w.age /\ v.result = w.result
    BY <1>a, Numbers DEF Workers, Phases
  <2>2. workers' = (workers \ {w}) \cup {v} BY <1>6 DEF DeliverJob, Goes, Becomes
  <2>. HIDE DEF v
  <2>3. UNCHANGED <<files, requests, calls, node, closing, faults>> BY <1>6 DEF DeliverJob
  <2>4. /\ invoices' \in [Invoices -> InvoiceRows] /\ invoices'[w.inv].status = "delivered"
        /\ invoices'[w.inv].delivery = w.result
        /\ \A i \in Invoices : /\ invoices'[i].tx = invoices[i].tx
                               /\ i # w.inv => invoices'[i] = invoices[i]
    BY <1>6, <1>a, Typed, SMTT(30) DEF DeliverJob, InvoiceRows
  <2>5. /\ jobs' \in [Invoices -> JobRows] /\ jobs'[w.inv].status = "delivered"
        /\ jobs'[w.inv].attempts = jobs[w.inv].attempts
        /\ \A i \in Invoices : i # w.inv => jobs'[i] = jobs[i]
    BY <1>6, <1>a, Numbers, Typed DEF DeliverJob, JobRows
  <2>6. artifact[w.inv] = w.result /\ w.result > 0 BY <1>6, <1>c DEF DeliverJob
  <2>7. /\ invoices[w.inv].tx # NoTx /\ invoices[w.inv].tx \in reached /\ w.age < StaleAfter
    BY <1>6, <1>a DEF DeliverJob, Inv, WorkerSound, TablesAgree
  <2>8. Types' BY <2>1, <2>2, <2>3, <2>4, <2>5, Typed, TypeParts DEF Types, files, node
  <2>9. RequestSound'
    <3>1. \A c \in Requests : requests[c].phase \in {"observe", "acquire"} => requests[c].inv \in Invoices
      BY UnderwayRequest
    <3>. QED BY <2>3, <2>4, <3>1 DEF Inv, RequestSound, node
  <2>10. TablesAgree' BY <2>4, <2>5, <2>7 DEF Inv, TablesAgree
  <2>11. \A u \in workers' : u = v \/ (u \in workers /\ u.inv \in Invoices /\ u.inv # w.inv)
    BY <2>2, OthersElsewhere
  <2>12. WorkerSound'
    <3>1. \A u \in workers : u.inv \in Invoices /\ u.inv # w.inv =>
            invoices'[u.inv] = invoices[u.inv] /\ jobs'[u.inv] = jobs[u.inv]
      BY <2>4, <2>5
    <3>. QED BY <1>a, <2>1, <2>3, <2>4, <2>5, <2>7, <2>11, <3>1 DEF Inv, WorkerSound, files, node
  <2>13. OneWorkerPerInvoice' BY <2>1, <2>11 DEF Inv, OneWorkerPerInvoice
  <2>14. CallsCounted' BY <2>3, <2>5 DEF Inv, CallsCounted
  <2>15. PaysOneInvoice' BY <2>4 DEF Inv, PaysOneInvoice
  <2>16. CallsAreConfirmed' /\ DepthReached' BY <2>3, <2>4 DEF Inv, CallsAreConfirmed, DepthReached, node
  <2>17. ArtifactMatchesReceipt' BY <2>3, <2>4, <2>6 DEF Inv, ArtifactMatchesReceipt, files
  <2>. QED BY <2>8, <2>9, <2>10, <2>12, <2>13, <2>14, <2>15, <2>16, <2>17 DEF Inv
<1>7. CASE DeliverFails(w) BY <1>7, <1>d DEF DeliverFails, Phases
<1>8. CASE RemoveStage(w)
  <2>1. /\ staged' \in [Invoices -> Attempts] /\ \A i \in Invoices \ {w.inv} : staged'[i] = staged[i]
    BY <1>8, <1>a, Numbers DEF RemoveStage
  <2>. QED BY <1>8, <2>1, Typed, WorkerEnds DEF RemoveStage, Ends, tables
<1>9. CASE FailJob(w)
  <2>1. CASE jobs[w.inv].status = "processing"
    <3>1. PICK x \in {"failed", "permanent"} :
            jobs' = [jobs EXCEPT ![w.inv].status = x, ![w.inv].age = 0]
      BY <1>9, <2>1 DEF FailJob
    <3>2. /\ jobs' \in [Invoices -> JobRows] /\ jobs'[w.inv].status = x
          /\ jobs'[w.inv].attempts = jobs[w.inv].attempts
          /\ \A i \in Invoices \ {w.inv} : jobs'[i] = jobs[i]
      BY <1>a, <3>1, Numbers, Typed DEF JobRows
    <3>. QED BY <1>9, <1>a, <2>1, <3>2, Typed, WorkerEnds DEF FailJob, Ends, StagedAfterFailure
  <2>2. CASE jobs[w.inv].status # "processing"
    BY <1>9, <1>a, <2>2, Typed, WorkerEnds DEF FailJob, Ends, StagedAfterFailure
  <2>. QED BY <2>1, <2>2
<1>. QED BY <1>1, <1>2, <1>3, <1>4, <1>5, <1>6, <1>7, <1>8, <1>9 DEF Work
-----------------------------------------------------------------------------
LEMMA FaultType == ASSUME Inv, NEW f \in Faults, Fault(f) PROVE faults' \in [Faults -> Nat]
BY Typed DEF Fault

\* Crashes, stops and lost failures: whoever is in flight is gone, tables and files stay.
LEMMA FaultStep ==
    ASSUME Inv, Crash \/ Close \/ Reopen \/ \E w \in workers : FailureLost(w)
    PROVE  Inv'
<1>0. "crash" \in Faults /\ "close" \in Faults BY DEF Faults
<1>1. CASE \E w \in workers : FailureLost(w)
  <2>1. PICK w \in workers : FailureLost(w) BY <1>1
  <2>2. faults' \in [Faults -> Nat] BY <1>0, <2>1, FaultType DEF FailureLost
  <2>. QED BY <2>1, <2>2, Typed, WorkerEnds DEF FailureLost, Ends, tables, files
<1>2. CASE Crash \/ Close \/ Reopen
  <2>1. /\ UNCHANGED <<tables, files, calls, node>> /\ workers' \in {{}, workers}
        /\ requests' \in {[c \in Requests |-> NoRequest], requests}
        /\ closing' \in BOOLEAN
    BY <1>2, Typed DEF Crash, Close, Reopen
  <2>2. faults' \in [Faults -> Nat] BY <1>0, <1>2, FaultType, Typed DEF Crash, Close, Reopen
  <2>3. NoRequest.phase = "none" BY DEF NoRequest
  <2>4. Types' BY <2>1, <2>2, Typed, TypeParts DEF Types, tables, files, node
  <2>5. RequestSound' BY <2>1, <2>3 DEF Inv, RequestSound, tables, node
  <2>6. WorkerSound' /\ OneWorkerPerInvoice'
    BY <2>1 DEF Inv, WorkerSound, OneWorkerPerInvoice, tables, files, node
  <2>7. TablesAgree' /\ DepthReached' /\ CallsCounted'
    BY <2>1 DEF Inv, TablesAgree, DepthReached, CallsCounted, tables, node
  <2>8. PaysOneInvoice' /\ CallsAreConfirmed' /\ ArtifactMatchesReceipt'
    BY <2>1 DEF Inv, PaysOneInvoice, CallsAreConfirmed, ArtifactMatchesReceipt, tables, files, node
  <2>. QED BY <2>4, <2>5, <2>6, <2>7, <2>8 DEF Inv
<1>. QED BY <1>1, <1>2

\* The chain of the node: a depth that is enough is remembered, whatever is taken back later.
LEMMA NodeStep ==
    ASSUME Inv, NEW t \in Transactions, Confirm(t) \/ Reorganise(t)
    PROVE  Inv'
<1>1. depth \in [Transactions -> -1..Required] /\ Required \in Nat \ {0} BY Typed, Numbers
<1>2. /\ UNCHANGED <<tables, files, requests, workers, calls, closing>> /\ reached \subseteq reached'
  BY DEF Confirm, Reorganise
<1>3. faults' \in [Faults -> Nat]
  <2>1. "reorg" \in Faults BY DEF Faults
  <2>. QED BY <2>1, FaultType, Typed DEF Confirm, Reorganise
<1>4. depth' \in [Transactions -> -1..Required]
  <2>1. CASE Confirm(t)
    <3>1. depth' = [depth EXCEPT ![t] = depth[t] + 1] /\ depth[t] \in 0..(Required - 1)
      BY <2>1 DEF Confirm
    <3>2. depth[t] + 1 \in -1..Required BY <1>1, <3>1
    <3>. QED BY <1>1, <3>1, <3>2
  <2>2. CASE Reorganise(t)
    <3>1. PICK d \in -1..(depth[t] - 1) : depth' = [depth EXCEPT ![t] = d] BY <2>2 DEF Reorganise
    <3>2. depth[t] \in -1..Required BY <1>1
    <3>3. d \in -1..Required BY <1>1, <3>2
    <3>. QED BY <1>1, <3>1, <3>3
  <2>. QED BY <2>1, <2>2
<1>5. DepthReached'
  <2>1. CASE Confirm(t)
    <3>1. /\ depth'[t] = depth[t] + 1 /\ depth[t] \in 0..(Required - 1)
          /\ \A u \in Transactions : u # t => depth'[u] = depth[u]
          /\ reached' = IF depth'[t] = Required THEN reached \cup {t} ELSE reached
      BY <1>1, <2>1 DEF Confirm
    <3>2. depth'[t] >= Required => depth'[t] = Required BY <1>1, <3>1
    <3>. QED BY <3>1, <3>2 DEF Inv, DepthReached
  <2>2. CASE Reorganise(t)
    <3>1. PICK d \in -1..(depth[t] - 1) : depth' = [depth EXCEPT ![t] = d] BY <2>2 DEF Reorganise
    <3>2. depth[t] \in -1..Required BY <1>1
    <3>3. d < Required BY <1>1, <3>2
    <3>. QED BY <1>1, <1>2, <3>1, <3>3 DEF Inv, DepthReached
  <2>. QED BY <2>1, <2>2
<1>6. Types' BY <1>2, <1>3, <1>4, Typed, TypeParts DEF Types, tables, files
<1>7. RequestSound' /\ WorkerSound' BY <1>2 DEF Inv, RequestSound, WorkerSound, tables, files
<1>8. TablesAgree' /\ CallsCounted' /\ OneWorkerPerInvoice'
  BY <1>2 DEF Inv, TablesAgree, CallsCounted, OneWorkerPerInvoice, tables
<1>9. PaysOneInvoice' /\ CallsAreConfirmed' /\ ArtifactMatchesReceipt'
  BY <1>2 DEF Inv, PaysOneInvoice, CallsAreConfirmed, ArtifactMatchesReceipt, tables, files
<1>. QED BY <1>5, <1>6, <1>7, <1>8, <1>9 DEF Inv

\* Job and worker age together.
LEMMA TickStep == ASSUME Inv, Tick PROVE Inv'
<1>0. UNCHANGED <<files, requests, calls, node, closing, faults>> BY DEF Tick
<1>1. \A a \in 0..StaleAfter : Older(a) \in 0..StaleAfter /\ (a + 1 < StaleAfter => Older(a) = a + 1)
  BY Numbers DEF Older
<1>2. /\ invoices' \in [Invoices -> InvoiceRows]
      /\ \A i \in Invoices : /\ invoices'[i].status = invoices[i].status /\ invoices'[i].tx = invoices[i].tx
                             /\ invoices'[i].delivery = invoices[i].delivery
  <2> DEFINE row(i) == [invoices[i] EXCEPT !.ttl = IF @ > 0 THEN @ - 1 ELSE 0]
  <2>1. invoices' = [i \in Invoices |-> row(i)] BY Typed DEF Tick
  <2>2. \A i \in Invoices : /\ row(i) \in InvoiceRows /\ row(i).status = invoices[i].status
                            /\ row(i).tx = invoices[i].tx /\ row(i).delivery = invoices[i].delivery
    <3> SUFFICES ASSUME NEW i \in Invoices
                 PROVE  /\ row(i) \in InvoiceRows /\ row(i).status = invoices[i].status
                        /\ row(i).tx = invoices[i].tx /\ row(i).delivery = invoices[i].delivery
      OBVIOUS
    <3>1. invoices[i] \in InvoiceRows /\ Lifetime \in Nat BY Typed, Numbers
    <3>2. (IF invoices[i].ttl > 0 THEN invoices[i].ttl - 1 ELSE 0) \in 0..Lifetime BY <3>1 DEF InvoiceRows
    <3>. QED BY <3>1, <3>2 DEF InvoiceRows
  <2>. HIDE DEF row
  <2>. QED BY <2>1, <2>2
<1>3. /\ jobs' \in [Invoices -> JobRows]
      /\ \A i \in Invoices : /\ jobs'[i].status = jobs[i].status /\ jobs'[i].attempts = jobs[i].attempts
                             /\ jobs[i].status # "none" => jobs'[i].age = Older(jobs[i].age)
  <2> DEFINE row(i) == IF jobs[i] = NoJob THEN NoJob ELSE [jobs[i] EXCEPT !.age = Older(@)]
  <2>1. jobs' = [i \in Invoices |-> row(i)] BY Typed DEF Tick
  <2>2. \A i \in Invoices : /\ row(i) \in JobRows /\ row(i).status = jobs[i].status
                            /\ row(i).attempts = jobs[i].attempts
                            /\ jobs[i].status # "none" => row(i).age = Older(jobs[i].age)
    <3> SUFFICES ASSUME NEW i \in Invoices
                 PROVE  /\ row(i) \in JobRows /\ row(i).status = jobs[i].status
                        /\ row(i).attempts = jobs[i].attempts
                        /\ jobs[i].status # "none" => row(i).age = Older(jobs[i].age)
      OBVIOUS
    <3>1. jobs[i] \in JobRows BY Typed
    <3>2. jobs[i].age \in 0..StaleAfter /\ Older(jobs[i].age) \in 0..StaleAfter BY <1>1, <3>1 DEF JobRows
    <3>3. CASE jobs[i] = NoJob BY <3>1, <3>3 DEF NoJob
    <3>4. CASE jobs[i] # NoJob BY <3>1, <3>2, <3>4 DEF JobRows
    <3>. QED BY <3>3, <3>4
  <2>. HIDE DEF row
  <2>. QED BY <2>1, <2>2
<1>4. \A u \in workers' : \E w \in workers :
        /\ w \in Workers /\ w.inv \in Invoices /\ u \in Workers
        /\ u = [w EXCEPT !.age = Older(@)] /\ u.inv = w.inv /\ u.phase = w.phase /\ u.result = w.result
        /\ u.age = Older(w.age) /\ u.age < StaleAfter
  <2> SUFFICES ASSUME NEW u \in workers'
               PROVE  \E w \in workers :
                        /\ w \in Workers /\ w.inv \in Invoices /\ u \in Workers
                        /\ u = [w EXCEPT !.age = Older(@)] /\ u.inv = w.inv /\ u.phase = w.phase /\ u.result = w.result
                        /\ u.age = Older(w.age) /\ u.age < StaleAfter
    OBVIOUS
  <2>1. PICK w \in workers : u = [w EXCEPT !.age = Older(@)] BY DEF Tick
  <2>2. w \in Workers /\ w.inv \in Invoices /\ w.age \in 0..StaleAfter BY Typed DEF Workers
  <2>3. w.age + 1 < StaleAfter BY DEF Tick
  <2>4. Older(w.age) \in 0..StaleAfter /\ Older(w.age) = w.age + 1 BY <1>1, <2>2, <2>3
  <2>5. u \in Workers /\ u.inv = w.inv /\ u.phase = w.phase /\ u.result = w.result /\ u.age = Older(w.age)
    BY <2>1, <2>2, <2>4 DEF Workers
  <2>. QED BY <2>1, <2>2, <2>3, <2>4, <2>5
<1>5. Types'
  <2>1. workers' \subseteq Workers BY <1>4
  <2>. QED BY <1>0, <1>2, <1>3, <2>1, Typed, TypeParts DEF Types, files, node
<1>6. RequestSound'
  <2>1. \A c \in Requests : requests[c].phase \in {"observe", "acquire"} => requests[c].inv \in Invoices
    BY UnderwayRequest
  <2>. QED BY <1>0, <1>2, <2>1 DEF Inv, RequestSound, node
<1>7. TablesAgree' /\ CallsCounted' BY <1>0, <1>2, <1>3 DEF Inv, TablesAgree, CallsCounted
<1>8. WorkerSound'
  <2> SUFFICES ASSUME NEW u \in workers'
               PROVE  /\ invoices'[u.inv].tx \in reached'
                      /\ u.age < StaleAfter
                      /\ u.phase = "cleanup" => jobs'[u.inv].status = "delivered"
                      /\ u.phase # "cleanup" => jobs'[u.inv].status = "processing" /\ jobs'[u.inv].age = u.age
                      /\ u.phase \in {"check", "call"} => calls'[u.inv] < jobs'[u.inv].attempts
                      /\ u.phase \in {"call", "called", "artifact", "stage"} => staged'[u.inv] = 0
                      /\ u.phase \in {"called", "artifact", "stage", "deliver"} => u.result > 0
                      /\ u.phase \in {"stage", "deliver"} => artifact'[u.inv] = u.result
    BY DEF WorkerSound
  <2>1. PICK w \in workers : 
          /\ w.inv \in Invoices /\ u.inv = w.inv /\ u.phase = w.phase /\ u.result = w.result
          /\ u.age = Older(w.age) /\ u.age < StaleAfter
    BY <1>4
  <2>. QED BY <1>0, <1>2, <1>3, <2>1 DEF Inv, WorkerSound, files, node
<1>9. OneWorkerPerInvoice'
  <2> SUFFICES ASSUME NEW u \in workers', NEW v \in workers', u.inv = v.inv PROVE u = v
    BY DEF OneWorkerPerInvoice
  <2>1. PICK w \in workers : u = [w EXCEPT !.age = Older(@)] /\ u.inv = w.inv BY <1>4
  <2>2. PICK x \in workers : v = [x EXCEPT !.age = Older(@)] /\ v.inv = x.inv BY <1>4
  <2>3. w = x BY <2>1, <2>2 DEF Inv, OneWorkerPerInvoice
  <2>. QED BY <2>1, <2>2, <2>3
<1>10. PaysOneInvoice' BY <1>2 DEF Inv, PaysOneInvoice
<1>11. CallsAreConfirmed' /\ ArtifactMatchesReceipt' /\ DepthReached'
  BY <1>0, <1>2 DEF Inv, CallsAreConfirmed, ArtifactMatchesReceipt, DepthReached, files, node
<1>. QED BY <1>5, <1>6, <1>7, <1>8, <1>9, <1>10, <1>11 DEF Inv

LEMMA InvStep == ASSUME Inv, [Next]_vars PROVE Inv'
<1>1. CASE Next
  BY <1>1, CreateInvoiceStep, ReceiveStep, HandleStep, SubmitStep, AcquireJobStep, WorkStep, FaultStep,
     NodeStep, TickStep DEF Next, Handle
<1>2. CASE UNCHANGED vars
  <2>1. Types' BY <1>2, Typed, TypeParts DEF vars, tables, files, node, Types
  <2>2. RequestSound' /\ DepthReached' BY <1>2 DEF vars, tables, node, Inv, RequestSound, DepthReached
  <2>. QED BY <1>2, <2>1, <2>2, TablesUntouched DEF vars, node, Inv
<1>. QED BY <1>1, <1>2

LEMMA InvHolds == Spec => []Inv
BY InitInv, InvStep, PTL DEF Spec
-----------------------------------------------------------------------------
\* Tables, files and workers hold values of their types, and so no invoice is attempted
\* more often than MaxAttempts.
THEOREM GatewayTypeOK == Spec => []TypeOK
<1>1. Inv => TypeOK BY DEF Inv, Types
<1>. QED BY <1>1, InvHolds, PTL

\* The product is called only for a payment that had its confirmations, by one worker of
\* an invoice at a time and at most MaxAttempts times (AcquireJob, runFulfillment).
THEOREM CallsJustified == Spec => []CallsAreJustified
<1>1. ASSUME Inv PROVE CallsAreJustified
  <2>1. \A i \in Invoices : calls[i] <= MaxAttempts BY <1>1, Typed, Numbers
  <2>. QED BY <1>1, <2>1 DEF Inv, CallsAreJustified
<1>. QED BY <1>1, InvHolds, PTL

\* store.Submit lets a transaction pay one invoice only, although handlers check an
\* invoice long before they write it.
THEOREM PaysOne == Spec => []PaysOneInvoice
<1>1. Inv => PaysOneInvoice BY DEF Inv
<1>. QED BY <1>1, InvHolds, PTL

\* The artifact that is served for a delivered invoice is the one its receipt names.
THEOREM ReceiptIsServed == Spec => []ArtifactMatchesReceipt
<1>1. Inv => ArtifactMatchesReceipt BY DEF Inv
<1>. QED BY <1>1, InvHolds, PTL

\* The product is not called again for what is staged, and what is staged stays until the
\* invoice is delivered.
THEOREM StagedNotPaidAgain == Spec => StagedIsNotPaidAgain
<1> DEFINE Kept == \A i \in Invoices : staged[i] # 0 =>
                      /\ staged'[i] = staged[i] \/ invoices[i].status = "delivered"
                      /\ calls'[i] = calls[i]
<1>1. ASSUME Inv, [Next]_vars PROVE [Kept]_vars
  <2> SUFFICES ASSUME NEW i \in Invoices, staged[i] # 0, Next
               PROVE  /\ staged'[i] = staged[i] \/ invoices[i].status = "delivered"
                      /\ calls'[i] = calls[i]
    BY <1>1
  <2>1. CASE \E w \in workers : Work(w)
    <3>1. PICK w \in workers : Work(w) BY <2>1
    <3>2. w.inv \in Invoices BY <1>1, OthersElsewhere
    <3>3. /\ w.phase \in {"call", "stage"} => staged[w.inv] = 0
          /\ w.phase = "cleanup" => invoices[w.inv].status = "delivered"
      BY <1>1, <3>2 DEF Inv, WorkerSound, TablesAgree
    <3>4. CASE CallProduct(w)
      <4>1. i # w.inv BY <3>3, <3>4 DEF CallProduct
      <4>. QED BY <1>1, <3>4, <4>1, Typed DEF CallProduct, files
    <3>5. CASE StageResult(w)
      <4>1. i # w.inv BY <3>3, <3>5 DEF StageResult
      <4>. QED BY <1>1, <3>5, <4>1, Typed DEF StageResult
    <3>6. CASE RemoveStage(w)
      <4>1. CASE i = w.inv BY <3>3, <3>6, <4>1 DEF RemoveStage
      <4>2. CASE i # w.inv BY <1>1, <3>6, <4>2, Typed DEF RemoveStage
      <4>. QED BY <3>6, <4>1, <4>2 DEF RemoveStage
    <3>7. CASE \/ CheckStaged(w) \/ ProductReturns(w) \/ StageArtifact(w) \/ DeliverJob(w)
               \/ DeliverFails(w) \/ FailJob(w)
      BY <3>7 DEF CheckStaged, ProductReturns, StageArtifact, DeliverJob, DeliverFails, FailJob,
                  StagedAfterFailure, files
    <3>. QED BY <3>1, <3>4, <3>5, <3>6, <3>7 DEF Work
  <2>2. CASE ~\E w \in workers : Work(w)
    <3>1. UNCHANGED <<files, calls>>
      BY <2>2 DEF Next, Handle, CreateInvoice, ReceiveSubmit, ReceiveClaim, NodeAccepts, Submit, ObservePayment,
                  AcquireJob, RequestFails, FailureLost, Crash, Close, Reopen, Confirm, Reorganise, Tick
    <3>. QED BY <3>1 DEF files
  <2>. QED BY <2>1, <2>2
<1>. QED BY <1>1, InvHolds, PTL DEF Spec, StagedIsNotPaidAgain

\* A payment and a delivery are final: no handler or worker that read an older state of
\* the invoice undoes them.
THEOREM PaymentsFinal == Spec => PaymentsAreFinal
<1>1. ASSUME Inv, [Next]_vars PROVE [StaysFinal]_vars
  <2> SUFFICES ASSUME NEW i \in Invoices, Next
               PROVE  /\ invoices[i].tx # NoTx => invoices'[i].tx = invoices[i].tx
                      /\ invoices[i].status = "delivered" =>
                            invoices'[i].status = "delivered" /\ invoices'[i].delivery = invoices[i].delivery
    BY <1>1 DEF StaysFinal
  <2>1. invoices \in [Invoices -> InvoiceRows] /\ invoices[i] \in InvoiceRows BY <1>1, Typed
  <2>2. /\ invoices[i].status \in {"submitted", "delivered"} <=> invoices[i].tx # NoTx
        /\ invoices[i].status = "delivered" <=> jobs[i].status = "delivered"
    BY <1>1 DEF Inv, TablesAgree
  <2>3. CASE \E j \in Invoices : CreateInvoice(j)
    BY <2>1, <2>2, <2>3 DEF CreateInvoice, InvoiceRows
  <2>4. CASE \E c \in Requests : Submit(c)
    <3>1. PICK c \in Requests : Submit(c) BY <2>4
    <3>2. CASE Payable(requests[c].inv, requests[c].tx)
      <4>1. /\ invoices' = [invoices EXCEPT ![requests[c].inv].status = "submitted",
                                             ![requests[c].inv].tx = requests[c].tx]
            /\ invoices[requests[c].inv].status = "open"
        BY <3>1, <3>2 DEF Submit, Payable
      <4>2. i # requests[c].inv \/ invoices[i].status = "open" BY <4>1
      <4>. QED BY <2>1, <2>2, <4>1, <4>2
    <3>3. CASE ~Payable(requests[c].inv, requests[c].tx) BY <3>1, <3>3 DEF Submit
    <3>. QED BY <3>2, <3>3
  <2>5. CASE \E w \in workers : DeliverJob(w)
    <3>1. PICK w \in workers : DeliverJob(w) BY <2>5
    <3>2. w.inv \in Invoices BY <1>1, OthersElsewhere
    <3>3. /\ invoices' = [invoices EXCEPT ![w.inv].status = "delivered", ![w.inv].delivery = w.result]
          /\ invoices[w.inv].status = "submitted"
      BY <3>1 DEF DeliverJob
    <3>. QED BY <2>1, <3>2, <3>3 DEF InvoiceRows
  <2>6. CASE Tick BY <2>1, <2>6 DEF Tick, InvoiceRows
  <2>7. CASE /\ ~\E j \in Invoices : CreateInvoice(j)
             /\ ~\E c \in Requests : Submit(c)
             /\ ~\E w \in workers : DeliverJob(w)
             /\ ~Tick
    BY <2>7 DEF Next, Handle, Work, ReceiveSubmit, ReceiveClaim, NodeAccepts, ObservePayment, AcquireJob,
                RequestFails, CheckStaged, CallProduct, ProductReturns, StageArtifact, StageResult,
                DeliverFails, RemoveStage, FailJob, FailureLost, Crash, Close, Reopen, Confirm, Reorganise,
                tables
  <2>. QED BY <2>3, <2>4, <2>5, <2>6, <2>7
<1>. QED BY <1>1, InvHolds, PTL DEF Spec, PaymentsAreFinal
=============================================================================
