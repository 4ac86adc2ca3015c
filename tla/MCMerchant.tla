----------------------------- MODULE MCMerchant -----------------------------
(***************************************************************************)
(* The merchant in two parts over the same tables, one at a time: the      *)
(* fulfillment of one invoice, with crashes, stops, reorganisations and    *)
(* every attempt, and the payment of two invoices by two transactions, the *)
(* first of which pays either, without faults.  The constant value of part *)
(* says which of them runs; the properties are those of the whole tables.  *)
(***************************************************************************)
EXTENDS MCGateway

CONSTANTS i2, t2

VARIABLE part

Fulfillment == INSTANCE Gateway WITH
    Invoices <- {i1}, Transactions <- {t1}, Pays <- [t \in {t1} |-> {i1}]

Payment == INSTANCE Gateway WITH
    Required <- 1, RetryAfter <- 0, MaxAttempts <- 1, MaxFaults <- MCNoFault

MerchantInit == part \in {"fulfillment", "payment"} /\ Init

MerchantNext ==
    /\ UNCHANGED part
    /\ \/ part = "fulfillment" /\ Fulfillment!Next
       \/ part = "payment" /\ Payment!Next

MerchantSpec == MerchantInit /\ [][MerchantNext]_<<part, vars>>
=============================================================================
