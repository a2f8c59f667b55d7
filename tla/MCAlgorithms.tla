---------------------------- MODULE MCAlgorithms ----------------------------
(***************************************************************************)
(* The three sequential algorithms for TLC, side by side: the search in the *)
(* route list (ChnRoute), the changes to the routing table (RouteTable) and *)
(* the parser of DNS messages (DnsMessage).  They share nothing: an initial *)
(* state chooses one of them, and the other two stand still.                *)
(***************************************************************************)
EXTENDS ChnRoute

CONSTANTS W, MinLen, MaxLines, Own, Fds, MaxRefused, Plain, Odd, MaxOdd, MaxBody, MaxRecords

\* The two halves of the address space are shorter than any route in the file
\* or of the user's own but the default route.
ASSUME LengthAssumption == W \in Nat /\ MinLen \in 2..W /\ Own \subseteq 2..W /\ MaxLines \in Nat

\* Arithmetic: powers of two are positive, and the halves are halves.
ASSUME HalfAssumption == (\A k \in 0..W : 2^k \in Nat \ {0}) /\ 2^W = 2 * 2^(W - 1)

\* Descriptors are counted.
ASSUME CountAssumption == Fds \subseteq Nat /\ MaxRefused \in Nat

\* Cells have the values of bytes.
ASSUME CellAssumption == Plain \union Odd \subseteq 0..255 /\ MaxBody \in Nat /\ MaxRecords \in Nat

VARIABLES
    part,                         \* the algorithm that runs
    file, server, own, table, row,
    i, fds, limit, refused, at,   \* RouteTable, whose pc is at
    msg, handle, status, last     \* DnsMessage

tableVars == <<file, server, own, table, row, i, fds, limit, refused, at>>
messageVars == <<msg, handle, status, last>>
allVars == <<part, vars, tableVars, messageVars>>

T == INSTANCE RouteTable WITH pc <- at
M == INSTANCE DnsMessage

\* A list without nets has been searched.
SearchIdle == nets = <<>> /\ ip = 0 /\ l = 0 /\ r = -1 /\ pc = "done" /\ result = FALSE

\* The client has been run without a route file.
TableIdle ==
    /\ file = <<>> /\ server = 0 /\ i = 1 /\ at = "done"
    /\ row = T!Row(0, 0, "gateway")
    /\ table = <<row>> /\ own = <<row>>
    /\ fds = 0 /\ limit = 0 /\ refused = 0

\* An empty message has been refused.
MessageIdle ==
    /\ msg = <<>> /\ status = "refused"
    /\ handle = [counts |-> <<>>, sections |-> <<>>, sect |-> M!S_MAX, rrnum |-> M!Null, ptr |-> M!Null]
    /\ last = M!NoCall

MCInit ==
    \/ part = "search" /\ Init /\ TableIdle /\ MessageIdle
    \/ part = "table" /\ SearchIdle /\ T!Init /\ MessageIdle
    \/ part = "message" /\ SearchIdle /\ TableIdle /\ M!Init

Search == part = "search" /\ Next /\ UNCHANGED <<part, tableVars, messageVars>>
Table == part = "table" /\ T!Next /\ UNCHANGED <<part, vars, messageVars>>
Message == part = "message" /\ M!Next /\ UNCHANGED <<part, vars, tableVars>>

\* Nothing runs beside the search.
MCSpec == MCInit /\ [][Search \/ Table \/ Message]_allVars /\ WF_allVars(Search)

-----------------------------------------------------------------------------
\* While the client runs, packets are split between gateway and tunnel as the
\* route file says, whatever order and overlaps it has, if the descriptors
\* suffice; whatever fails, the user's own routes are respected (set_chnroute
\* and set_default_as_tunnel).
SplitAsMeant == T!SplitAsMeant

\* When the client has stopped, packets go where they went before, and only
\* the route to the server is left of those it has added, if the descriptors
\* suffice; whatever fails, no route of the user's own is gone (delete_chnroute).
RestoredAfterStop == T!RestoredAfterStop

\* local_ns_initparse takes exactly the messages that are well formed.
ParsedIffMessage == M!ParsedIffMessage

\* local_ns_parserr hands out the record it is asked for, in any order of calls.
RightRecord == M!RightRecord
=============================================================================
