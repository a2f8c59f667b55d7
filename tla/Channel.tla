------------------------------ MODULE Channel -------------------------------
(***************************************************************************)
(* What ReliableSocket promises to its two applications, without threads,   *)
(* datagrams or acknowledgements.  Each end numbers the packages it sends.  *)
(* The other end gets them in order and none twice.  An end may give up on  *)
(* a package (ReliableSocket drops one it has sent too often); until it     *)
(* does, no package is missing from what the other end gets.                *)
(***************************************************************************)
EXTENDS Naturals, Sequences

CONSTANTS Client, Server

VARIABLES
    sent,    \* how many packages an end has numbered
    got,     \* the packages an end has received, in order
    gave_up  \* whether an end has given up on a package

vars == <<sent, got, gave_up>>

Endpoint == {Client, Server}

Other(e) == IF e = Client THEN Server ELSE Client

Init ==
    /\ sent = [e \in Endpoint |-> 0]
    /\ got = [e \in Endpoint |-> <<>>]
    /\ gave_up = [e \in Endpoint |-> FALSE]

Send(e) ==
    /\ sent' = [sent EXCEPT ![e] = @ + 1]
    /\ UNCHANGED <<got, gave_up>>

GiveUp(e) ==
    /\ gave_up' = [gave_up EXCEPT ![e] = TRUE]
    /\ UNCHANGED <<sent, got>>

Deliver(e) ==
    \E i \in 1..sent[Other(e)] :
        /\ \A k \in 1..Len(got[e]) : got[e][k] < i
        /\ ~gave_up[Other(e)] => i = Len(got[e]) + 1
        /\ got' = [got EXCEPT ![e] = Append(@, i)]
        /\ UNCHANGED <<sent, gave_up>>

Next == \E e \in Endpoint : Send(e) \/ GiveUp(e) \/ Deliver(e)

Spec == Init /\ [][Next]_vars

=============================================================================
