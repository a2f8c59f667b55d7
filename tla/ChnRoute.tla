------------------------------ MODULE ChnRoute ------------------------------
(***************************************************************************)
(* The list of Chinese networks of chinadns and the binary search that      *)
(* decides whether an address belongs to one of them.                       *)
(*                                                                         *)
(* Addresses have Bits bits instead of 32.  A line net/len of the route     *)
(* file is a net and its size, 2^(Bits - len); nets are aligned and do not  *)
(* overlap.  parse_chnroute sorts them, so the order of the file is gone.   *)
(***************************************************************************)
EXTENDS Integers, Sequences, FiniteSets

CONSTANT Bits  \* bound: the width of an address

ASSUME BitsAssumption == Bits \in Nat

\* Arithmetic: powers of two are positive.
ASSUME PowerAssumption == \A k \in 0..Bits : 2^k \in Nat \ {0}

Addr == 0..(2^Bits - 1)

VARIABLES
    nets,   \* chnroute_list.nets
    ip,     \* the address looked for
    l, r,   \* the bounds of the search, counted from 0
    pc,     \* "loop", "test" once the loop is left, "done"
    result  \* what test_ip_in_list returns

vars == <<nets, ip, l, r, pc, result>>

\* The nets a route file can hold.
Net == {n \in [net : Addr, size : {2^k : k \in 0..Bits}] : n.net % n.size = 0}

\* (net ^ ip) & ~mask = 0
Covers(n, a) == a \div n.size = n.net \div n.size

Disjoint(S) ==
    \A m, n \in S : m # n => ~Covers(m, n.net) /\ ~Covers(n, m.net)

\* parse_chnroute, the final qsort with cmp_net_mask included.
Parsed(S) ==
    [k \in 1..Cardinality(S) |->
        CHOOSE n \in S : Cardinality({m \in S : m.net < n.net}) = k - 1]

Init ==
    /\ nets \in {Parsed(S) : S \in {S \in SUBSET Net : Disjoint(S)}}
    /\ ip \in Addr
    /\ l = 0
    /\ r = Len(nets) - 1
    /\ pc = IF nets = <<>> THEN "done" ELSE "loop"
    /\ result = FALSE

\* Mutant: the loop is not left when l stays where it is.
HalveAgain ==
    LET m == (l + r) \div 2 IN
    /\ pc = "loop" /\ l # r
    /\ IF ip < nets[m + 1].net THEN r' = m /\ l' = l ELSE l' = m /\ r' = r
    /\ UNCHANGED <<nets, ip, pc, result>>

\* One turn of the loop: the half with ip in it, or out of the loop when the
\* bounds do not move any more.
Halve ==
    LET m == (l + r) \div 2
        below == ip < nets[m + 1].net
        stays == IF below THEN r = m ELSE l = m
    IN
    /\ pc = "loop" /\ l # r
    /\ r' = IF below THEN m ELSE r
    /\ l' = IF below THEN l ELSE m
    /\ pc' = IF stays THEN "test" ELSE pc
    /\ UNCHANGED <<nets, ip, result>>

\* Mutant: the other end of the interval is tested.
TestRight ==
    /\ pc = "test" \/ (pc = "loop" /\ l = r)
    /\ result' = Covers(nets[r + 1], ip)
    /\ pc' = "done"
    /\ UNCHANGED <<nets, ip, l, r>>

\* The net at l is the answer.
Test ==
    /\ pc = "test" \/ (pc = "loop" /\ l = r)
    /\ result' = Covers(nets[l + 1], ip)
    /\ pc' = "done"
    /\ UNCHANGED <<nets, ip, l, r>>

Next == Halve \/ Test

\* Nothing runs beside the search.
Spec == Init /\ [][Next]_vars /\ WF_vars(Next)

-----------------------------------------------------------------------------
InList == \E k \in DOMAIN nets : Covers(nets[k], ip)

\* The search goes the right way: whatever address it is given, it finds the
\* net that covers it, if that is not the last of several.
SearchRight ==
    /\ pc = "done" /\ result => InList
    /\ pc = "done" /\ InList =>
        \/ result
        \/ Len(nets) > 1 /\ Covers(nets[Len(nets)], ip)

\* The loop over l and r ends for every list and every address.
SearchEnds == <>(pc = "done")

=============================================================================
