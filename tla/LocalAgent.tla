------------------------------ MODULE LocalAgent ------------------------------
(***************************************************************************)
(* The local EntPay agent (entpay/local_agent.go, agent.go): a browser     *)
(* hands invoices over, the user approves or rejects each, and a goroutine *)
(* per approval verifies the invoice, opens the wallet's directory, pays   *)
(* from a dedicated profile, restores the active one and fetches what was  *)
(* bought.  Nothing of it is written down.                                 *)
(*                                                                         *)
(* The merchant is not trusted and answers any request with anything.      *)
(* Amounts, products and signatures are the one question whether the       *)
(* invoice matches.                                                        *)
(***************************************************************************)
EXTENDS Integers, FiniteSets

CONSTANTS Handoffs, Invoices, Original, Dedicated, None,
          MaxInterrupts    \* bound: how often the process is stopped

LocalAgentAssumption ==
    /\ None \notin Handoffs \cup Invoices \cup {Original, Dedicated}
    /\ MaxInterrupts \in Nat

VARIABLES stage,       \* what the browser is shown of each handoff
          invoice,     \* what it is for
          step,        \* where the goroutine of an approved one is
          late,        \* the payment timeout of it is over
          receipt,     \* the payment its delivery is for
          paid,        \* how many payments were made for it
          directory,   \* who holds the lock of the wallet's directory
          active,      \* the active wallet profile, which is on disk
          previous,    \* what each payment found active
          files,       \* the invoices whose artifact is on disk
          expired,     \* invoices
          interrupts   \* how often the process was stopped

shown == <<stage, invoice>>
wallet == <<directory, active, previous>>
world == <<expired, interrupts>>
vars == <<stage, invoice, step, late, receipt, paid, directory, active, previous, files, expired, interrupts>>

Stages == {"none", "approval", "rejected", "paying", "confirming", "verifying", "complete", "error", "gone"}
Steps == {"none", "output", "info", "verify", "open", "switch", "send", "restore", "close", "refused", "submit", "claim",
          "wait", "check", "download", "complete", "ended"}

TypeOK ==
    /\ stage \in [Handoffs -> Stages] /\ invoice \in [Handoffs -> Invoices \cup {None}]
    /\ step \in [Handoffs -> Steps] /\ late \in [Handoffs -> BOOLEAN]
    /\ receipt \in [Handoffs -> Handoffs \cup {None}]
    /\ paid \in [Handoffs -> Nat]
    /\ directory \in Handoffs \cup {None} /\ active \in {Original, Dedicated}
    /\ previous \in [Handoffs -> {Original, Dedicated, None}]
    /\ files \subseteq Invoices /\ expired \subseteq Invoices
    /\ interrupts \in 0..MaxInterrupts

Init ==
    /\ stage = [h \in Handoffs |-> "none"] /\ invoice = [h \in Handoffs |-> None]
    /\ step = [h \in Handoffs |-> "none"] /\ late = [h \in Handoffs |-> FALSE]
    /\ receipt = [h \in Handoffs |-> None] /\ paid = [h \in Handoffs |-> 0]
    /\ directory = None /\ active = Original /\ previous = [h \in Handoffs |-> None]
    /\ files = {} /\ expired = {} /\ interrupts = 0

\* A handoff that is gone shows nothing any more; its goroutine goes on.
Show(h, s) == stage' = [stage EXCEPT ![h] = IF @ = "gone" THEN @ ELSE s]
Goto(h, s) == step' = [step EXCEPT ![h] = s]
Fail(h) == Show(h, "error") /\ Goto(h, "ended")
-----------------------------------------------------------------------------
(* The browser.                                                            *)

\* handleHandoff: the invoice is inspected as it will be again, and handoffs that
\* nothing has touched for two hours, running or not, are removed.
HandOver(h, i, old) ==
    /\ stage[h] = "none" /\ i \notin expired
    /\ old \subseteq {o \in Handoffs : stage[o] # "none"}
    /\ stage' = [o \in Handoffs |-> IF o = h THEN "approval" ELSE IF o \in old THEN "gone" ELSE stage[o]]
    /\ invoice' = [invoice EXCEPT ![h] = i]
    /\ UNCHANGED <<step, late, receipt, paid, wallet, files, world>>

Approve(h) ==
    /\ stage[h] = "approval"
    /\ Show(h, "paying") /\ Goto(h, "output")
    /\ UNCHANGED <<invoice, late, receipt, paid, wallet, files, world>>

Reject(h) ==
    /\ stage[h] = "approval"
    /\ Show(h, "rejected")
    /\ UNCHANGED <<invoice, step, late, receipt, paid, wallet, files, world>>
-----------------------------------------------------------------------------
(* The goroutine of a payment.                                             *)

\* validateOutputPath.
CheckOutput(h) ==
    /\ step[h] = "output"
    /\ \/ invoice[h] \in files /\ Fail(h)
       \/ invoice[h] \notin files /\ Goto(h, "info") /\ UNCHANGED stage
    /\ UNCHANGED <<invoice, late, receipt, paid, wallet, files, world>>

\* The merchant's information, which may not come or not fit.
Info(h) ==
    /\ step[h] = "info"
    /\ \/ Fail(h)
       \/ Goto(h, "verify") /\ UNCHANGED stage
    /\ UNCHANGED <<invoice, late, receipt, paid, wallet, files, world>>

\* validateRemoteInvoice.
Verify(h) ==
    /\ step[h] = "verify"
    /\ \/ Fail(h)
       \/ invoice[h] \notin expired /\ Show(h, "paying") /\ Goto(h, "open")
    /\ UNCHANGED <<invoice, late, receipt, paid, wallet, files, world>>

\* A node of its own on the wallet's directory; one at a time can have it.
Open(h) ==
    /\ step[h] = "open"
    /\ \/ Fail(h) /\ UNCHANGED <<directory, previous>>
       \/ /\ directory = None
          /\ directory' = h /\ previous' = [previous EXCEPT ![h] = active]
          /\ Goto(h, "switch") /\ UNCHANGED stage
    /\ UNCHANGED <<invoice, late, receipt, paid, active, files, world>>

Switched(h) == previous[h] # Dedicated

\* SwitchWallet.  It is refused without a trace, or fails to write, the last time when the
\* directory of the vault that is already in place is synced.
Switch(h) ==
    /\ step[h] = "switch"
    /\ \/ Switched(h) /\ Fail(h) /\ directory' = None /\ active' \in {active, Dedicated}
       \/ /\ active' = IF Switched(h) THEN Dedicated ELSE active
          /\ Goto(h, "send") /\ UNCHANGED <<stage, directory>>
    /\ UNCHANGED <<invoice, late, receipt, paid, previous, files, world>>

\* SendRecommended; what follows happens whether or not it worked.
Send(h) ==
    /\ step[h] = "send"
    /\ \/ paid' = [paid EXCEPT ![h] = @ + 1]
       \/ UNCHANGED paid
    /\ Goto(h, "restore")
    /\ UNCHANGED <<stage, invoice, late, receipt, wallet, files, world>>

\* SwitchWallet again, which is refused too while the recovery of the dedicated profile is
\* not confirmed, as it is not when its marker could not be written.
Restore(h) ==
    /\ step[h] = "restore"
    /\ \/ active' = (IF Switched(h) THEN previous[h] ELSE active) /\ Goto(h, "close")
       \/ Switched(h) /\ active' \in {active, previous[h]} /\ Goto(h, "refused")
    /\ UNCHANGED <<stage, invoice, late, receipt, paid, directory, previous, files, world>>

\* Mutant: the error of the restore is dropped.
CloseAnyway(h) ==
    /\ step[h] \in {"close", "refused"}
    /\ directory' = None
    /\ \/ Fail(h)
       \/ paid[h] > 0 /\ Goto(h, "submit") /\ UNCHANGED stage
    /\ UNCHANGED <<invoice, late, receipt, paid, active, previous, files, world>>

\* An error of closing or of the restore hides the payment that was made.
Close(h) ==
    /\ step[h] \in {"close", "refused"}
    /\ directory' = None
    /\ \/ Fail(h)
       \/ step[h] = "close" /\ paid[h] > 0 /\ Goto(h, "submit") /\ UNCHANGED stage
    /\ UNCHANGED <<invoice, late, receipt, paid, active, previous, files, world>>

Submit(h) ==
    /\ step[h] = "submit"
    /\ \/ Fail(h)
       \/ Show(h, "confirming") /\ Goto(h, "claim")
    /\ UNCHANGED <<invoice, late, receipt, paid, wallet, files, world>>

\* waitForDelivery: any failure ends it, "accepted" asks again until the deadline, and
\* a delivery has a receipt for some payment.
Claim(h) ==
    /\ step[h] = "claim"
    /\ \/ Fail(h) /\ UNCHANGED receipt
       \/ ~late[h] /\ Goto(h, "wait") /\ UNCHANGED <<stage, receipt>>
       \/ \E tx \in Handoffs :
              receipt' = [receipt EXCEPT ![h] = tx] /\ Show(h, "verifying") /\ Goto(h, "check")
    /\ UNCHANGED <<invoice, late, paid, wallet, files, world>>

\* Two seconds.
WaitToClaim(h) ==
    /\ step[h] = "wait"
    /\ Goto(h, "claim")
    /\ UNCHANGED <<shown, late, receipt, paid, wallet, files, world>>

\* validateDelivery.
Check(h) ==
    /\ step[h] = "check"
    /\ \/ Fail(h)
       \/ receipt[h] = h /\ Goto(h, "download") /\ UNCHANGED stage
    /\ UNCHANGED <<invoice, late, receipt, paid, wallet, files, world>>

\* The artifact, when there is one: its bytes match the receipt or are dropped.
Download(h) ==
    /\ step[h] = "download"
    /\ \/ Fail(h) /\ UNCHANGED files
       \/ Goto(h, "complete") /\ files' \in {files, files \cup {invoice[h]}} /\ UNCHANGED stage
    /\ UNCHANGED <<invoice, late, receipt, paid, wallet, world>>

Complete(h) ==
    /\ step[h] = "complete"
    /\ Show(h, "complete") /\ Goto(h, "ended")
    /\ UNCHANGED <<invoice, late, receipt, paid, wallet, files, world>>

RunPayment(h) ==
    \/ CheckOutput(h) \/ Info(h) \/ Verify(h)
    \/ Open(h) \/ Switch(h) \/ Send(h) \/ Restore(h) \/ Close(h)
    \/ Submit(h) \/ Claim(h) \/ WaitToClaim(h) \/ Check(h) \/ Download(h) \/ Complete(h)
-----------------------------------------------------------------------------
Deadline(h) ==
    /\ step[h] \in {"claim", "wait"} /\ ~late[h]
    /\ late' = [late EXCEPT ![h] = TRUE]
    /\ UNCHANGED <<shown, step, receipt, paid, wallet, files, world>>

Expire(i) ==
    /\ i \notin expired
    /\ expired' = expired \cup {i}
    /\ UNCHANGED <<shown, step, late, receipt, paid, wallet, files, interrupts>>

\* Ctrl-C or SIGTERM: the server is shut down and main returns, whatever payments run.
Interrupt ==
    /\ interrupts < MaxInterrupts
    /\ interrupts' = interrupts + 1
    /\ stage' = [h \in Handoffs |-> IF stage[h] = "none" THEN "none" ELSE "gone"]
    /\ step' = [h \in Handoffs |-> IF step[h] = "none" THEN "none" ELSE "ended"]
    /\ directory' = None
    /\ UNCHANGED <<invoice, late, receipt, paid, active, previous, files, expired>>

Next ==
    \/ \E h \in Handoffs, i \in Invoices, old \in SUBSET Handoffs : HandOver(h, i, old)
    \/ \E h \in Handoffs : Approve(h) \/ Reject(h) \/ RunPayment(h) \/ Deadline(h)
    \/ \E i \in Invoices : Expire(i)
    \/ Interrupt

Spec == Init /\ [][Next]_vars
-----------------------------------------------------------------------------
\* "Rejecting creates no transaction", however the clicks race.
RejectedCreatesNothing == \A h \in Handoffs : stage[h] = "rejected" => paid[h] = 0 /\ step[h] = "none"

\* One approval is one payment, whatever fails, is clicked again or removed meanwhile.
OnePaymentPerApproval == \A h \in Handoffs : paid[h] <= 1 /\ (paid[h] = 1 => step[h] # "none")

\* "The Agent restores the previously active wallet profile", and where it cannot it does not
\* hide that: whoever finds the directory free finds the user's profile in it, unless a payment
\* that switched has ended in an error or with the process.  Later ones take what they find.
LossIsShown ==
    directory = None /\ active # Original =>
        \E h \in Handoffs : previous[h] = Original /\ step[h] = "ended" /\ stage[h] \in {"error", "gone"}

\* What is shown as complete was paid for, and its receipt is for that payment.
CompleteIsVerified == \A h \in Handoffs : stage[h] = "complete" => paid[h] = 1 /\ receipt[h] = h
=============================================================================
