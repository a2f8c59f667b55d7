----------------------------- MODULE RouteTable -----------------------------
(***************************************************************************)
(* What RouteTable does to the kernel's table: set_chnroute adds a host     *)
(* route to the server and the routes of a file, all through the gateway of *)
(* the default route; set_default_as_tunnel adds the two halves of the      *)
(* address space through the tunnel, which beat the default route and lose  *)
(* to everything longer; delete_chnroute takes the routes of the file away. *)
(*                                                                         *)
(* Addresses have W bits.  The kernel's table (external) is a sequence, the *)
(* youngest of equally long routes first, as SIOCADDRT inserts them.  Every *)
(* file of MaxLines lines, every server, and one route of the user's own or *)
(* none besides the default route, is an initial state.                     *)
(*                                                                         *)
(* Any call may fail: each takes a descriptor for a socket that is never    *)
(* closed, and finds none once they are used up, and the kernel may refuse  *)
(* it for reasons of its own.  No caller looks at the -1 that is returned.  *)
(***************************************************************************)
EXTENDS Integers, Sequences, SequencesExt, FiniteSetsExt

CONSTANTS
    W,         \* bits of an address (32)
    MinLen,    \* the shortest prefix in a route file
    MaxLines,  \* bound: lines of the file
    Own,       \* the prefix lengths of routes the user has besides the default
    Fds,       \* the numbers of descriptors that may be free at the start
    MaxRefused \* bound: calls that fail though a descriptor is free

Addr == 0..(2^W - 1)

Net == Addr \X (MinLen..W)
Blank == <<>>  \* a line without a slash
Line == Net \union {Blank}

VARIABLES
    file,    \* the lines of the route file; none if no file is named
    server,  \* remote_ip
    own,     \* history: the table before the program started
    table,   \* the kernel's routes [dst, len, via], via "gateway", "lan" or "tunnel"
    row,     \* the row that is added or deleted next
    i,       \* the line that is read next
    fds,     \* the descriptors that are free
    limit,   \* history: those that were free when set_chnroute began
    refused, \* history: the calls that failed though a descriptor was free
    pc

vars == <<file, server, own, table, row, i, fds, limit, refused, pc>>

Row(d, n, v) == [dst |-> d, len |-> n, via |-> v]

Masked(a, n) == (a \div 2^(W - n)) * 2^(W - n)
Matches(a, r) == Masked(a, r.len) = r.dst

-----------------------------------------------------------------------------
(***************************************************************************)
(* The kernel                                                               *)
(***************************************************************************)

\* SIOCADDRT.  A destination with bits beyond its mask is refused; a route that
\* is there already is error 17, which add_route_row takes as success.  What a
\* call that fails for another reason does is in Call.
Added(t, r) == IF Masked(r.dst, r.len) # r.dst \/ Contains(t, r) THEN t ELSE <<r>> \o t

\* SIOCDELRT of a route with this destination, mask, gateway and device, if the
\* call does not fail.
Deleted(t, r) == RemoveFirst(t, r)

\* A device is closed, and its routes go; the others keep their order.
Without(t, via) ==
    LET kept == {k \in DOMAIN t : t[k].via # via}
    IN  [j \in 1..Cardinality(kept) |->
            t[CHOOSE k \in kept : Cardinality({m \in kept : m < k}) = j - 1]]

\* Where the kernel sends a packet for a: the longest route, of those the first.
Via(t, a) ==
    LET found == {k \in DOMAIN t : Matches(a, t[k])}
        longest == Max({t[k].len : k \in found})
    IN  t[Min({k \in found : t[k].len = longest})].via

(***************************************************************************)
(* set_chnroute, set_default_as_tunnel, delete_chnroute                     *)
(***************************************************************************)
Init ==
    /\ file \in UNION {[1..n -> Line] : n \in 0..MaxLines}
    /\ server \in Addr
    /\ own \in {<<Row(0, 0, "gateway")>>} \union
               {<<Row(Masked(a, n), n, "lan"), Row(0, 0, "gateway")>> : a \in Addr, n \in Own}
    /\ table = own
    /\ row = Row(0, 0, "gateway")
    /\ i = 1
    /\ limit \in Fds
    /\ fds = limit
    /\ refused = 0
    /\ pc = "open"

\* Mutant: the first route that looks like a default route is taken.
FirstZero(t) == t[Min({k \in DOMAIN t : t[k].dst = 0})]

\* get_default_route: of the routes to 0.0.0.0 the last one that is listed,
\* whatever its mask; the shortest is listed last.  It reads a file of the
\* kernel, for which a descriptor is taken and given back; without one the row
\* is empty, but then there is none for a route call either, then or later.
DefaultRoute(t) == t[Max({k \in DOMAIN t : t[k].dst = 0})]

\* The default route's row with the server as destination.
ServerRow == Row(server, W, DefaultRoute(own).via)

\* A call fails though it has its descriptor.
Refuse == refused < MaxRefused /\ refused' = refused + 1

\* What is left of n descriptors when k are taken, as far as there are any.
Left(n, k) == IF n > k THEN n - k ELSE 0

\* add_route_row and del_route_row: the table becomes t, or the call fails.
Call(t) ==
    \/ fds > 0 /\ table' = t /\ UNCHANGED refused
    \/ fds > 0 /\ Refuse /\ UNCHANGED table
    \/ fds = 0 /\ UNCHANGED <<table, refused>>

\* The route file is opened when n descriptors are free.  Of one that cannot be
\* opened no line is read.
Open(n) ==
    \/ file # <<>> /\ n > 0 /\ i' = 1 /\ fds' = n - 1 /\ UNCHANGED refused
    \/ file # <<>> /\ n > 0 /\ i' = Len(file) + 1 /\ fds' = n /\ Refuse
    \/ (file = <<>> \/ n = 0) /\ i' = Len(file) + 1 /\ fds' = n /\ UNCHANGED refused

\* set_chnroute begins.
OpenFile ==
    /\ pc = "open"
    /\ Open(fds)
    /\ pc' = "server"
    /\ UNCHANGED <<file, server, own, table, row, limit>>

\* set_chnroute up to its loop.
AddServer ==
    /\ pc = "server"
    /\ row' = ServerRow
    /\ Call(Added(table, ServerRow))
    /\ fds' = Left(fds, 1)
    /\ pc' = IF i <= Len(file) THEN "add" ELSE "low"
    /\ UNCHANGED <<file, server, own, i, limit>>

\* The row of a line; a line without a slash leaves the row as it is.
Parsed(l) == IF l = Blank THEN row ELSE Row(l[1], l[2], row.via)

\* A turn of set_chnroute's loop; after the last line the file is closed.
AddLine ==
    /\ pc = "add"
    /\ row' = Parsed(file[i])
    /\ Call(Added(table, Parsed(file[i])))
    /\ fds' = IF i = Len(file) THEN Left(fds, 1) + 1 ELSE Left(fds, 1)
    /\ i' = i + 1
    /\ pc' = IF i = Len(file) THEN "low" ELSE pc
    /\ UNCHANGED <<file, server, own, limit>>

\* The two calls of set_default_as_tunnel.
AddHalf(dst, next) ==
    /\ Call(Added(table, Row(dst, 1, "tunnel")))
    /\ fds' = Left(fds, 1)
    /\ pc' = next
    /\ UNCHANGED <<file, server, own, row, i, limit>>

AddLow == pc = "low" /\ AddHalf(0, "high")
AddHigh == pc = "high" /\ AddHalf(2^(W - 1), "run")

\* The tunnel is closed, which frees its descriptor, and its routes go;
\* delete_chnroute up to its loop: its own attempts on the halves find nothing,
\* whether they fail or not, and take a descriptor each.
StopTunnel ==
    /\ pc = "run"
    /\ table' = Without(table, "tunnel")
    /\ row' = Row(2^(W - 1), 1, row.via)
    /\ Open(IF file = <<>> THEN fds + 1 ELSE Left(fds + 1, 2))
    /\ pc' = IF i' <= Len(file) THEN "delete" ELSE "done"
    /\ UNCHANGED <<file, server, own, limit>>

\* Mutant: the last of several lines is not read.
DeleteLineShort ==
    /\ pc = "delete"
    /\ row' = Parsed(file[i])
    /\ Call(Deleted(table, Parsed(file[i])))
    /\ fds' = Left(fds, 1)
    /\ i' = i + 1
    /\ pc' = IF i + 1 >= Len(file) THEN "done" ELSE pc
    /\ UNCHANGED <<file, server, own, limit>>

\* A turn of delete_chnroute's loop.
DeleteLine ==
    /\ pc = "delete"
    /\ row' = Parsed(file[i])
    /\ Call(Deleted(table, Parsed(file[i])))
    /\ fds' = Left(fds, 1)
    /\ i' = i + 1
    /\ pc' = IF i = Len(file) THEN "done" ELSE pc
    /\ UNCHANGED <<file, server, own, limit>>

Next == OpenFile \/ AddServer \/ AddLine \/ AddLow \/ AddHigh \/ StopTunnel \/ DeleteLine

Spec == Init /\ [][Next]_vars

-----------------------------------------------------------------------------
\* The rows of the file's lines.
FileRows == {Row(x[1], x[2], row.via) : x \in ToSet(file) \ {Blank}}

\* A packet for a matches one of them.
Listed(a) == \E x \in FileRows : Matches(a, x)

\* While the client runs, a packet that a route of the user's own takes stays
\* outside the tunnel, whatever failed.  If the kernel refuses nothing, packets
\* to the server stay outside as well as soon as two descriptors were free (of
\* set_chnroute's calls the one for the server comes first); and if there was
\* one for each line and three more, a packet that went through the gateway
\* before goes on doing so exactly if its destination is the server or in a net
\* of the file, whatever order and overlaps it has, and goes through the tunnel
\* otherwise.
SplitAsMeant ==
    pc = "run" =>
        /\ \A a \in Addr : Via(own, a) # "gateway" => Via(table, a) # "tunnel"
        /\ refused = 0 /\ limit >= 2 => Via(table, server) # "tunnel"
        /\ refused = 0 /\ limit >= Len(file) + 3 =>
            \A a \in Addr : Via(own, a) = "gateway" =>
                Via(table, a) = IF a = server \/ Listed(a) THEN "gateway" ELSE "tunnel"

\* When the client has stopped, the user's own routes are all there and none
\* leads into the tunnel, whatever failed: what is left besides is the route to
\* the server and routes of the file.  If the kernel refuses nothing and there
\* were two descriptors for each line and five more, no route of the file is
\* left, and packets go where they went before the client started.
RestoredAfterStop ==
    pc = "done" =>
        /\ ToSet(own) \subseteq ToSet(table)
        /\ ToSet(table) \subseteq ToSet(own) \union {ServerRow} \union FileRows
        /\ refused = 0 /\ limit >= 2 * Len(file) + 5 =>
            /\ ToSet(table) \subseteq ToSet(own) \union {ServerRow}
            /\ \A a \in Addr \ {server} : Via(table, a) = Via(own, a)
=============================================================================
