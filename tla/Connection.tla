----------------------------- MODULE Connection -----------------------------
(***************************************************************************)
(* Setting a connection up and closing it: connect_addr on the clients, the *)
(* accept loop of the server with the sockets it makes, one per Create, and *)
(* the receiver of every connected socket, over UDP.                        *)
(*                                                                         *)
(* The server answers a Create from its listening socket with the port of a *)
(* new socket; the new socket's sender at once pings the client.  Nothing   *)
(* ties an answer to a request, and a receiver writes the sender of every   *)
(* datagram into connected_addr, where the other threads send to.           *)
(*                                                                         *)
(* What is abstracted.  Of the data, one package per client is followed, its *)
(* token, the first thing a client sends: it is sent again until it is      *)
(* acknowledged (Rudp has the rest of the data transfer).  Round trip times *)
(* are left out.                                                            *)
(***************************************************************************)
EXTENDS Integers, FiniteSets, Sequences, SequencesExt

CONSTANTS
    Clients,   \* the clients' sockets
    NPorts,    \* the ports the server gives to its sockets (100)
    Retries,   \* timeouts after which connect_addr gives up (5)
    Listener,  \* the server's listening socket
    Nowhere,   \* an address of the server that nobody is bound to
    None       \* no client

Ports == 1..NPorts
Addr == Clients \union Ports \union {Listener}

ASSUME NPortsAssumption == NPorts \in Nat \ {0}
ASSUME RetriesAssumption == Retries \in Nat \ {0}
ASSUME AddrAssumption ==
    /\ Clients \intersect Ports = {} /\ Listener # Nowhere
    /\ \A a \in {Listener, Nowhere, None} : a \notin Clients \union Ports

VARIABLES
    net,             \* datagrams on their way to an address, oldest first
    calm,            \* history: none was lost or overtaken, no answer came late
    status,          \* of a client: "idle", "connecting", "up", "failed", "closed"
    count,           \* timeouts of connect_addr
    port,            \* the port connect_addr was told
    acked,           \* clients whose token is acknowledged
    connected_addr,  \* where a client or a server socket sends to
    bound,           \* ports with a running server socket
    remote_addr,     \* the client a server socket was made for
    heard,           \* server sockets that have received a token
    accepting,       \* the client accept_connection makes a socket for, or None
    po,              \* the port it tries to bind
    free_port_now,   \* the port it tries next
    made             \* history: <<client, port>> for every socket made

clientVars == <<status, count, port, acked>>
serverVars == <<bound, remote_addr, heard, made>>
acceptVars == <<accepting, po, free_port_now>>
vars == <<net, calm, clientVars, connected_addr, serverVars, acceptVars>>

Datagram == [type : {"Create", "CreateR", "Ping", "PingBack", "Data", "Ack", "Close"},
             from : Addr, port : 0..NPorts]

Msg(type, from) == [type |-> type, from |-> from, port |-> 0]

\* Nobody will ever read what is sent there.
Gone(a) == a = Nowhere \/ (a \in Clients /\ status[a] \in {"failed", "closed"})

\* The network n after a is sent m.
Sent(n, a, m) == IF Gone(a) THEN n ELSE [n EXCEPT ![a] = Append(@, m)]

\* The network n when client c's socket is gone with what is under way to it.
Without(n, c) == [n EXCEPT ![c] = <<>>]

\* Datagram i at address a is read: the oldest one, or one that has overtaken it.
Read(a, i) == i \in DOMAIN net[a] /\ calm' = (calm /\ i = 1)

Taken(a, i) == [net EXCEPT ![a] = RemoveAt(@, i)]

\* Nothing of what c asked for is under way.
NothingUnderWay(c) ==
    /\ net[c] = <<>>
    /\ accepting # c
    /\ \A i \in DOMAIN net[Listener] : net[Listener][i].from # c

Init ==
    /\ net = [a \in Addr |-> <<>>]
    /\ calm = TRUE
    /\ status = [c \in Clients |-> "idle"]
    /\ count = [c \in Clients |-> 0]
    /\ port = [c \in Clients |-> Nowhere]
    /\ acked = {}
    /\ connected_addr = [a \in Clients \union Ports |-> Nowhere]
    /\ bound = {}
    /\ remote_addr = [p \in Ports |-> None]
    /\ heard = {}
    /\ accepting = None
    /\ po = 1
    /\ free_port_now = 1
    /\ made = {}

-----------------------------------------------------------------------------
(***************************************************************************)
(* The clients                                                              *)
(***************************************************************************)

\* connect_addr up to its first select.
Connect(c) ==
    /\ status[c] = "idle"
    /\ status' = [status EXCEPT ![c] = "connecting"]
    /\ connected_addr' = [connected_addr EXCEPT ![c] = Listener]
    /\ net' = Sent(net, Listener, Msg("Create", c))
    /\ UNCHANGED <<calm, count, port, acked, serverVars, acceptVars>>

\* select times out: the request goes out once more, after the last timeout
\* too, whose answer nobody waits for.
ConnectTimeout(c) ==
    /\ status[c] = "connecting"
    /\ calm' = (calm /\ NothingUnderWay(c))
    /\ count' = [count EXCEPT ![c] = @ + 1]
    /\ LET n == Sent(net, Listener, Msg("Create", c)) IN
        \/ count'[c] < Retries /\ net' = n /\ UNCHANGED status
        \/ count'[c] = Retries /\ net' = Without(n, c) /\ status' = [status EXCEPT ![c] = "failed"]
    /\ UNCHANGED <<port, acked, connected_addr, serverVars, acceptVars>>

\* The first datagram is taken for the answer, whatever its type.  A Ping is
\* shorter: it leaves the port that create_r was made with but for one byte,
\* which is none of the server's.
PortIn(d) == IF d.type = "CreateR" THEN d.port ELSE Nowhere

\* connect_addr has its answer, and its threads start: the sender pings.
ConnectAnswer(c) ==
    /\ status[c] = "connecting"
    /\ \E i \in DOMAIN net[c] :
        LET p == PortIn(net[c][i]) IN
        /\ Read(c, i)
        /\ port' = [port EXCEPT ![c] = p]
        /\ connected_addr' = [connected_addr EXCEPT ![c] = p]
        /\ net' = Sent(Taken(c, i), p, Msg("Ping", c))
    /\ status' = [status EXCEPT ![c] = "up"]
    /\ UNCHANGED <<count, acked, serverVars, acceptVars>>

\* connect_addr has its answer, but all control ports are taken.
ConnectNoControlPort(c) ==
    /\ status[c] = "connecting"
    /\ \E i \in DOMAIN net[c] :
        LET p == PortIn(net[c][i]) IN
        /\ Read(c, i)
        /\ port' = [port EXCEPT ![c] = p]
        /\ connected_addr' = [connected_addr EXCEPT ![c] = p]
        /\ net' = Without(net, c)
    /\ status' = [status EXCEPT ![c] = "failed"]
    /\ UNCHANGED <<count, acked, serverVars, acceptVars>>

\* The token is sent, or sent again, to whatever connected_addr is by now.
\* Bound: one copy of it, or one acknowledgement, is under way at a time.
SendToken(c) ==
    /\ status[c] = "up" /\ c \notin acked
    /\ \A a \in Addr : Msg("Data", c) \notin ToSet(net[a])
    /\ \A p \in Ports : Msg("Ack", p) \notin ToSet(net[c])
    /\ net' = Sent(net, connected_addr[c], Msg("Data", c))
    /\ UNCHANGED <<calm, clientVars, connected_addr, serverVars, acceptVars>>

\* close_addr on the client: Close is sent once, nobody waits for anything.
Close(c) ==
    /\ status[c] = "up"
    /\ net' = Without(Sent(net, connected_addr[c], Msg("Close", c)), c)
    /\ status' = [status EXCEPT ![c] = "closed"]
    /\ UNCHANGED <<calm, count, port, acked, connected_addr, serverVars, acceptVars>>

(***************************************************************************)
(* The server                                                               *)
(***************************************************************************)

\* Mutant: the port tried next is never moved on.
FreePortStuck(p) == p

\* get_free_port: the port after p.
FreePort(p) == (p % NPorts) + 1

\* Mutant: every accept_connection looks from the first port on.
AcceptFromFirst ==
    /\ accepting = None
    /\ \E i \in DOMAIN net[Listener] :
        LET d == net[Listener][i] IN
        /\ Read(Listener, i)
        /\ net' = Taken(Listener, i)
        /\ \/ d.type # "Create" /\ UNCHANGED acceptVars
           \/ /\ d.type = "Create"
              /\ accepting' = d.from
              /\ po' = 1
              /\ free_port_now' = FreePort(1)
    /\ UNCHANGED <<clientVars, connected_addr, serverVars>>

\* accept_connection up to its first bind.  What is no Create is dropped.
Accept ==
    /\ accepting = None
    /\ \E i \in DOMAIN net[Listener] :
        LET d == net[Listener][i] IN
        /\ Read(Listener, i)
        /\ net' = Taken(Listener, i)
        /\ \/ d.type # "Create" /\ UNCHANGED acceptVars
           \/ /\ d.type = "Create"
              /\ accepting' = d.from
              /\ po' = free_port_now
              /\ free_port_now' = FreePort(free_port_now)
    /\ UNCHANGED <<clientVars, connected_addr, serverVars>>

\* bind fails: the next port.  With every port bound this goes on for ever.
BindTaken ==
    /\ accepting # None
    /\ po \in bound
    /\ po' = free_port_now
    /\ free_port_now' = FreePort(free_port_now)
    /\ UNCHANGED <<net, calm, clientVars, connected_addr, serverVars, accepting>>

\* Mutant: the answer names the next port instead of the one that was bound.
AnswerNextPort(c, p) ==
    Sent(Sent(net, c, [type |-> "CreateR", from |-> Listener, port |-> free_port_now]),
         c, Msg("Ping", p))

\* The answer, and the first ping of the new socket's sender.
Answered(c, p) ==
    Sent(Sent(net, c, [type |-> "CreateR", from |-> Listener, port |-> p]), c, Msg("Ping", p))

\* bind succeeds: the answer goes out and the new socket's threads run.
BindFree ==
    /\ accepting # None
    /\ po \notin bound
    /\ bound' = bound \union {po}
    /\ remote_addr' = [remote_addr EXCEPT ![po] = accepting]
    /\ connected_addr' = [connected_addr EXCEPT ![po] = accepting]
    /\ heard' = heard \ {po}
    /\ made' = made \union {<<accepting, po>>}
    /\ net' = Answered(accepting, po)
    /\ accepting' = None
    /\ UNCHANGED <<calm, clientVars, po, free_port_now>>

\* close_addr on the server: func_socket closes the socket of a client whose
\* token has come in again on another one.
ServerClose(p) ==
    /\ p \in bound \intersect heard
    /\ net' = Sent(net, connected_addr[p], Msg("Close", p))
    /\ bound' = bound \ {p}
    /\ UNCHANGED <<calm, clientVars, connected_addr, remote_addr, heard, made, acceptVars>>

(***************************************************************************)
(* The receiver of a connected socket                                       *)
(***************************************************************************)
Running(a) == IF a \in Clients THEN status[a] = "up" ELSE a \in bound

\* Mutant: data is never acknowledged.
ReplyNoAck(d) == IF d.type = "Ping" THEN "PingBack" ELSE None

\* What is sent back at once: a ping comes back, a token is acknowledged.
Reply(d) == CASE d.type = "Ping" -> "PingBack" [] d.type = "Data" -> "Ack" [] OTHER -> None

\* Mutant: a Close is dropped like an unknown package.
ReceiveNoClose(a) ==
    /\ Running(a)
    /\ \E i \in DOMAIN net[a] :
        LET d == net[a][i]
            n == Taken(a, i)
        IN
        /\ Read(a, i)
        /\ connected_addr' = [connected_addr EXCEPT ![a] = d.from]
        /\ net' = IF Reply(d) # None THEN Sent(n, d.from, Msg(Reply(d), a)) ELSE n
        /\ heard' = IF d.type = "Data" THEN heard \union {a} ELSE heard
        /\ acked' = IF d.type = "Ack" THEN acked \union {a} ELSE acked
    /\ UNCHANGED <<status, count, port, bound, remote_addr, made, acceptVars>>

\* recvfrom writes connected_addr before the datagram's type is looked at.
Receive(a) ==
    /\ Running(a)
    /\ \E i \in DOMAIN net[a] :
        LET d == net[a][i]
            n == Taken(a, i)
        IN
        /\ Read(a, i)
        /\ connected_addr' = [connected_addr EXCEPT ![a] = d.from]
        /\ net' = IF Reply(d) # None THEN Sent(n, d.from, Msg(Reply(d), a))
                  ELSE IF d.type = "Close" /\ a \in Clients THEN Without(n, a) ELSE n
        /\ heard' = IF d.type = "Data" THEN heard \union {a} ELSE heard
        /\ acked' = IF d.type = "Ack" THEN acked \union {a} ELSE acked
        /\ status' = IF d.type = "Close" /\ a \in Clients
                     THEN [status EXCEPT ![a] = "closed"] ELSE status
        /\ bound' = IF d.type = "Close" THEN bound \ {a} ELSE bound
    /\ UNCHANGED <<count, port, remote_addr, made, acceptVars>>

(***************************************************************************)
(* The network                                                              *)
(***************************************************************************)
Lose(a) ==
    /\ calm' = FALSE
    /\ \E i \in DOMAIN net[a] : net' = Taken(a, i)
    /\ UNCHANGED <<clientVars, connected_addr, serverVars, acceptVars>>

\* Nobody is bound to the port.
Vanish(p) ==
    /\ net[p] # <<>>
    /\ p \notin bound
    /\ net' = [net EXCEPT ![p] = Tail(@)]
    /\ UNCHANGED <<calm, clientVars, connected_addr, serverVars, acceptVars>>

Next ==
    \/ \E c \in Clients :
        \/ Connect(c)
        \/ ConnectTimeout(c)
        \/ ConnectAnswer(c)
        \/ ConnectNoControlPort(c)
        \/ SendToken(c)
        \/ Close(c)
    \/ Accept
    \/ BindTaken
    \/ BindFree
    \/ \E p \in Ports : ServerClose(p) \/ Vanish(p)
    \/ \E a \in Clients \union Ports : Receive(a)
    \/ \E a \in Addr : Lose(a)

\* The threads of connected sockets and the accept loop run on while they can.
\* Nobody has to connect or to close, and the network need not lose anything.
Fairness ==
    /\ \A c \in Clients : WF_vars(SendToken(c))
    /\ WF_vars(Accept)
    /\ WF_vars(BindTaken \/ BindFree)
    /\ \A a \in Clients \union Ports : WF_vars(Receive(a))

Spec == Init /\ [][Next]_vars
FairSpec == Spec /\ Fairness

-----------------------------------------------------------------------------
TypeOK ==
    /\ net \in [Addr -> Seq(Datagram)]
    /\ calm \in BOOLEAN
    /\ status \in [Clients -> {"idle", "connecting", "up", "failed", "closed"}]
    /\ count \in [Clients -> 0..Retries]
    /\ port \in [Clients -> Ports \union {Nowhere}]
    /\ acked \subseteq Clients
    /\ connected_addr \in [Clients \union Ports -> Addr \union {Nowhere}]
    /\ bound \subseteq Ports
    /\ remote_addr \in [Ports -> Clients \union {None}]
    /\ heard \subseteq Ports
    /\ accepting \in Clients \union {None}
    /\ po \in Ports /\ free_port_now \in Ports
    /\ made \subseteq Clients \X Ports

\* A server socket talks to the client it was made for and to no other,
\* although its receiver (line 452) sends to whoever was heard last: until as
\* many sockets have been made as there are ports, get_free_port gives out no
\* port twice, so a datagram for a closed socket finds no other client's there.
PeerFixed ==
    Cardinality(made) <= NPorts => \A p \in bound : connected_addr[p] = remote_addr[p]

\* A client that connect_addr has connected was given the port of a socket
\* that accept_connection made for it, unless a datagram was lost, overtaken
\* or late: then a Ping may be taken for the answer.
PortAgreed == calm => \A c \in Clients : status[c] = "up" => <<c, port[c]>> \in made

\* Once connect_addr has reported a connection, the client's token reaches
\* the server and is acknowledged, unless one of the ends closes; while no
\* datagram is lost, overtaken or late.
TokenArrives ==
    \A c \in Clients : status[c] = "up" /\ calm ~> (c \in acked \/ status[c] # "up" \/ ~calm)

\* accept_connection finds a port, unless all are in use.
AcceptEnds == accepting # None ~> (accepting = None \/ bound = Ports)

\* When a client has closed its connection, the server's socket is closed in
\* the end ("server will close them in a short time anyway", line 165); if the
\* Close, which is sent once, is not lost or overtaken.
ServerClosesToo ==
    \A c \in Clients : status[c] = "closed" ~> (~calm \/ \A p \in bound : remote_addr[p] # c)
=============================================================================
