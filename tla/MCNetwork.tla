------------------------------ MODULE MCNetwork ------------------------------
(***************************************************************************)
(* A node with a few peers.                                                *)
(*                                                                         *)
(* Chains: a long branch of light blocks, a short branch of heavy ones,    *)
(* forks at several heights and prefixes of them.                          *)
(***************************************************************************)
EXTENDS Network, TLC

CONSTANTS n1, n2, n3, d1, d2

MCPeerChains == {<<"a">>, <<"a", "a", "a">>, <<"a", "b", "a">>, <<"b", "b">>, <<"a", "a", "a", "a", "b">>}
MCLocalChains == {<<>>, <<"a">>, <<"a", "a">>}

MCWeight == [a |-> 1, b |-> 2]

\* One chain and one height stand for the initial states of a part at rest.
MCInit ==
    /\ NetworkInit
    /\ part # "sync" => local = <<>> /\ peer = [p \in Peers |-> <<"a">>]
    /\ part # "rounds" => height = [in |-> 0, out |-> 0]

\* The peers are explored in two slices: many names, discoveries and a crash without a
\* dial, and two dials of two peers that the user added.
Dialled == \E d \in Dials : dial[d] # Table!NoDial \/ socket[d] # "none"

Sliced ==
    Dialled =>
       /\ restarts = 0 /\ n3 \notin DOMAIN stored \cup {mutation.peer}
       /\ \A p \in DOMAIN stored : stored[p].manual

MCSpec == MCInit /\ [][NetworkNext /\ Sliced']_networkVars

DialSymmetry == Permutations(Dials)
=============================================================================
