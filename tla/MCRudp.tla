------------------------------- MODULE MCRudp -------------------------------
(***************************************************************************)
(* Rudp for TLC.                                                            *)
(***************************************************************************)
EXTENDS Rudp

CONSTANTS
    ClientSupply, ServerSupply,
    MaxNet  \* bound: different datagrams in the network at a time

MCSupply == [e \in Endpoint |-> IF e = Client THEN ClientSupply ELSE ServerSupply]

FewDatagrams == Cardinality(net) <= MaxNet

=============================================================================
