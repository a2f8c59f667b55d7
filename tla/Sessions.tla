------------------------------ MODULE Sessions ------------------------------
(***************************************************************************)
(* The server's sessions: which client has which address of the tunnel.     *)
(* The accept loop starts a func_socket thread per socket.  It removes the  *)
(* sessions whose socket is dead, waits for the client's token, gives the   *)
(* client a new address or, if the token is known, the address it had,      *)
(* after it has closed the socket that had it, and tells the client.  The   *)
(* tunnel thread sends a packet to the socket its destination belongs to.   *)
(*                                                                         *)
(* user_map and ip_map are shared by all these threads without a lock.  A   *)
(* step here is what a thread does from one of its waits (recv_package,     *)
(* msleep) to the next: the interleavings that remain are the ones in which *)
(* a thread waits for long.  Finer ones are data races on std::map.         *)
(***************************************************************************)
EXTENDS Integers, FiniteSets, FiniteSetsExt, TLC

CONSTANTS
    Sockets,   \* sockets that accept_connection returns
    Tokens,    \* tokens of clients
    NAddr,     \* addresses the server can give out (199)
    Tails,     \* what may follow the token in the uninitialised buffer; 0: a NUL
    None

ASSUME NAddrAssumption == NAddr \in Nat \ {0}
ASSUME TailsAssumption == 0 \in Tails
ASSUME NoneAssumption == None \notin Sockets \union Tokens \union 0..NAddr

\* Sockets and tokens are alike.
Symmetry == Permutations(Sockets) \union Permutations(Tokens)

Addr == 1..NAddr
Key == (Tokens \union {None}) \X Tails  \* what the server takes for a token

VARIABLES
    pc,        \* of func_socket: "none", "recv", "sleep", "loop", "end"
    token,     \* the token the client of a socket sends
    sent,      \* sockets on which the token has arrived
    alive,     \* sockets with worker_running
    deleted,   \* sockets that have been deleted
    user_map,  \* the address of a key, None: no entry
    ip_map,    \* the socket of an address, None: no entry; 0 is an address here
    ip,        \* func_socket's variable of this name
    told,      \* the address a client has been told
    overlap    \* history: a thread has run while another waited to replace a socket

vars == <<pc, token, sent, alive, deleted, user_map, ip_map, ip, told, overlap>>

Init ==
    /\ pc = [s \in Sockets |-> "none"]
    /\ token \in [Sockets -> Tokens]
    /\ sent = {}
    /\ alive = {}
    /\ deleted = {}
    /\ user_map = [k \in Key |-> None]
    /\ ip_map = [a \in Addr \union {0} |-> None]
    /\ ip = [s \in Sockets |-> None]
    /\ told = [s \in Sockets |-> None]
    /\ overlap = FALSE

Users == {k \in Key : user_map[k] # None}

\* A thread runs, perhaps while another is between close_addr and the delete
\* of the socket it replaces.
Runs == overlap' = (overlap \/ \E s \in Sockets : pc[s] = "sleep")

-----------------------------------------------------------------------------
\* Mutant: the dead socket's address stays in ip_map.
CleanedUsersOnly ==
    LET dead == {k \in Users : ip_map[user_map[k]] \notin alive} IN
    /\ deleted' = deleted \union ({ip_map[user_map[k]] : k \in dead} \ {None})
    /\ user_map' = [k \in Key |-> IF k \in dead THEN None ELSE user_map[k]]
    /\ UNCHANGED ip_map

\* The loop at the start of func_socket deletes the sessions with a dead socket.
Cleaned ==
    LET dead == {k \in Users : ip_map[user_map[k]] \notin alive} IN
    /\ deleted' = deleted \union ({ip_map[user_map[k]] : k \in dead} \ {None})
    /\ ip_map' = [a \in DOMAIN ip_map |-> IF \E k \in dead : user_map[k] = a THEN None ELSE ip_map[a]]
    /\ user_map' = [k \in Key |-> IF k \in dead THEN None ELSE user_map[k]]

\* accept_connection returns a socket; its func_socket runs up to recv_package.
Accept(s) ==
    /\ pc[s] = "none"
    /\ Runs
    /\ pc' = [pc EXCEPT ![s] = "recv"]
    /\ alive' = alive \union {s}
    /\ Cleaned
    /\ UNCHANGED <<token, sent, ip, told>>

TokenArrives(s) ==
    /\ s \in alive \ sent
    /\ sent' = sent \union {s}
    /\ UNCHANGED <<pc, token, alive, deleted, user_map, ip_map, ip, told, overlap>>

\* The client closes, and the socket's receiver stops the socket.
ClientCloses(s) ==
    /\ s \in alive
    /\ alive' = alive \ {s}
    /\ UNCHANGED <<pc, token, sent, deleted, user_map, ip_map, ip, told, overlap>>

\* recv_package returns the token, or -1 if the socket is dead.  The buffer was
\* never cleared, and the token comes without a NUL.
Received(s, k) ==
    /\ s \in sent \/ s \notin alive
    /\ k \in {IF s \in sent THEN token[s] ELSE None} \X Tails

\* get_useable_ip: the first address without a socket, or 0.
GetUseableIp ==
    LET free == {a \in Addr : ip_map[a] = None}
    IN  IF free = {} THEN 0 ELSE Min(free)

\* send_package of the address; nothing is sent on a dead socket.
Tell(s, a) == told' = IF s \in alive THEN [told EXCEPT ![s] = a] ELSE told

\* The token is new: an address is given out.
AssignNew(s) ==
    /\ pc[s] = "recv"
    /\ Runs
    /\ \E k \in Key :
        /\ Received(s, k)
        /\ k \notin Users
        /\ user_map' = [user_map EXCEPT ![k] = GetUseableIp]
        /\ ip_map' = [ip_map EXCEPT ![GetUseableIp] = s]
        /\ ip' = [ip EXCEPT ![s] = GetUseableIp]
        /\ Tell(s, GetUseableIp)
    /\ pc' = [pc EXCEPT ![s] = "loop"]
    /\ UNCHANGED <<token, sent, alive, deleted>>

\* The token is known: the socket that has its address is closed.
CloseOld(s) ==
    /\ pc[s] = "recv"
    /\ Runs
    /\ \E k \in Key :
        /\ Received(s, k)
        /\ k \in Users
        /\ ip' = [ip EXCEPT ![s] = user_map[k]]
        /\ alive' = alive \ {ip_map[user_map[k]]}
    /\ pc' = [pc EXCEPT ![s] = "sleep"]
    /\ UNCHANGED <<token, sent, deleted, user_map, ip_map, told>>

\* Mutant: the new socket is not entered.
ReplaceDeleteOnly(s) ==
    /\ pc[s] = "sleep"
    /\ deleted' = deleted \union ({ip_map[ip[s]]} \ {None})
    /\ Tell(s, ip[s])
    /\ pc' = [pc EXCEPT ![s] = "loop"]
    /\ UNCHANGED <<token, sent, alive, user_map, ip_map, ip, overlap>>

\* Half a second later, whatever ip_map has for the address is deleted.
Replace(s) ==
    /\ pc[s] = "sleep"
    /\ deleted' = deleted \union ({ip_map[ip[s]]} \ {None})
    /\ ip_map' = [ip_map EXCEPT ![ip[s]] = s]
    /\ Tell(s, ip[s])
    /\ pc' = [pc EXCEPT ![s] = "loop"]
    /\ UNCHANGED <<token, sent, alive, user_map, ip, overlap>>

\* func_socket returns; its session stays until the next clean-up.
End(s) ==
    /\ pc[s] = "loop"
    /\ s \notin alive
    /\ pc' = [pc EXCEPT ![s] = "end"]
    /\ UNCHANGED <<token, sent, alive, deleted, user_map, ip_map, ip, told, overlap>>

\* The tunnel thread's choice of a socket for a packet to address a.
RouteOf(a) == IF ip_map[a] # None /\ ip_map[a] \in alive THEN ip_map[a] ELSE None

Next ==
    \E s \in Sockets :
        \/ Accept(s) \/ TokenArrives(s) \/ ClientCloses(s)
        \/ AssignNew(s) \/ CloseOld(s) \/ Replace(s) \/ End(s)

Spec == Init /\ [][Next]_vars

-----------------------------------------------------------------------------
TypeOK ==
    /\ pc \in [Sockets -> {"none", "recv", "sleep", "loop", "end"}]
    /\ token \in [Sockets -> Tokens]
    /\ sent \subseteq Sockets /\ alive \subseteq Sockets /\ deleted \subseteq Sockets
    /\ user_map \in [Key -> Addr \union {0, None}]
    /\ ip_map \in [Addr \union {0} -> Sockets \union {None}]
    /\ ip \in [Sockets -> Addr \union {0, None}]
    /\ told \in [Sockets -> Addr \union {0, None}]
    /\ overlap \in BOOLEAN

\* user_map and ip_map have the same addresses, and no address has two users.
\* The clean-up (line 38) calls is_alive through ip_map[ip] for every user: a
\* user without a socket is a null pointer, a socket without a user is never
\* cleaned up.  It holds until a thread runs during the half second in which
\* another waits to replace a socket, and while there is one user more than
\* there are addresses at most: get_useable_ip answers 0 to all the others.
MapsAgree ==
    ~overlap =>
        /\ \A k \in Users : ip_map[user_map[k]] # None
        /\ \A a \in DOMAIN ip_map : ip_map[a] # None => \E k \in Users : user_map[k] = a
        /\ \A k, l \in Users : user_map[k] = user_map[l] => k = l

\* The tunnel thread sends a packet for the address a client was told to that
\* client's socket, for as long as the client is connected, however clients
\* come, go and come back, and no such socket has been deleted.  Again until a
\* thread runs while another waits to replace a socket.
SessionRouted ==
    ~overlap =>
        \A s \in alive : told[s] # None => RouteOf(told[s]) = s /\ s \notin deleted
=============================================================================
