----------------------------- MODULE MCGateway -----------------------------
(***************************************************************************)
(* Values for the constants of Gateway.  The first transaction pays every  *)
(* invoice, all of the same price; any other pays one of them only.        *)
(***************************************************************************)
EXTENDS Gateway

F(crash, close, reorg) == [crash |-> crash, close |-> close, reorg |-> reorg]

MCFaults == F(2, 1, 1)
MCOneFault == F(1, 0, 0)
MCNoFault == F(0, 0, 0)

CONSTANTS i1, t1

MCPays == [t \in Transactions |-> IF t = t1 THEN Invoices ELSE {i1}]
=============================================================================
