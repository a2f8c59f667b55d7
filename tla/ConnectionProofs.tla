-------------------------- MODULE ConnectionProofs --------------------------
(***************************************************************************)
(* Proofs about Connection: for any number of clients and ports, a server   *)
(* socket talks to its own client, and a client to a socket made for it.    *)
(*                                                                         *)
(* The argument.  A datagram that is on its way to a server port, or from   *)
(* one, belongs to a pair <<client, port>> that a socket was made for.      *)
(* get_free_port goes through the ports in order, so no port has two        *)
(* clients before every port has had one: then there are more pairs than    *)
(* ports.  And a client that waits for its answer has been sent nothing     *)
(* before the answer, which is what it then reads while nothing is lost or  *)
(* overtaken.                                                               *)
(***************************************************************************)
EXTENDS Connection, TLAPS, FiniteSetTheorems, SequenceTheorems

\* What may be on its way to address b, for the pairs and the status of the clients.
Legit(d, b, pairs, stat) ==
    /\ b \in Clients => /\ d.from \notin Clients
                        /\ d.from \in Ports \/ d.type = "CreateR"
                        /\ d.from \in Ports => <<b, d.from>> \in pairs
                        /\ d.type = "CreateR" => <<b, d.port>> \in pairs
                        /\ d.type # "Data"
    /\ b \in Ports => <<d.from, b>> \in pairs /\ d.type # "Ack"
    /\ b = Listener => d.from \in Clients /\ stat[d.from] # "idle"

NetInv == \A b \in Addr : \A d \in ToSet(net[b]) : Legit(d, b, made, status)

\* Whoever is connected is connected to an address of its pairs.
PeersInv ==
    /\ \A c \in Clients : /\ connected_addr[c] \notin Clients
                          /\ connected_addr[c] \in Ports => <<c, connected_addr[c]>> \in made
    /\ \A p \in bound : <<connected_addr[p], p>> \in made /\ <<remote_addr[p], p>> \in made

\* No socket is made for a client that has not asked for one.
AskedFirst ==
    /\ accepting # None => status[accepting] # "idle"
    /\ \A pair \in made : status[pair[1]] # "idle"

\* The ports that have been used so far, in the order of get_free_port.
Used == {p \in Ports : \E c \in Clients : <<c, p>> \in made}

InOrder ==
    \/ Used = Ports
    \/ accepting = None /\ Used = 1..(free_port_now - 1)
    \/ accepting # None /\ Used = 1..(po - 1) /\ free_port_now = FreePort(po)

OneClient == \A x, y \in made : x[2] = y[2] => x = y

PortsInv == IsFiniteSet(made) /\ InOrder /\ (OneClient \/ Used = Ports)

\* While nothing is lost or overtaken, the first datagram a waiting client has
\* is the answer, and a connected client has the port of its socket.
AnswerFor(c) ==
    /\ status[c] = "connecting" =>
        \/ net[c] = <<>> /\ \A p \in Ports : <<c, p>> \notin made
        \/ net[c] # <<>> /\ net[c][1].type = "CreateR"
    /\ status[c] = "up" => <<c, port[c]>> \in made

AnswerFirst == calm => \A c \in Clients : AnswerFor(c)

ConnInv == TypeOK /\ NetInv /\ PeersInv /\ AskedFirst /\ PortsInv /\ AnswerFirst

-----------------------------------------------------------------------------
(***************************************************************************)
(* The network                                                              *)
(***************************************************************************)
Nets == [Addr -> Seq(Datagram)]

LEMMA AppendSet ==
    ASSUME NEW S, NEW s \in Seq(S), NEW m \in S
    PROVE  /\ Append(s, m) \in Seq(S)
           /\ \A d \in ToSet(Append(s, m)) : d \in ToSet(s) \/ d = m
           /\ s # <<>> => Append(s, m)[1] = s[1]
           /\ s = <<>> => Append(s, m)[1] = m
           /\ Append(s, m) # <<>>
  BY DEF ToSet

LEMMA RemoveSet ==
    ASSUME NEW S, NEW s \in Seq(S), NEW i \in DOMAIN s
    PROVE  RemoveAt(s, i) \in Seq(S) /\ \A d \in ToSet(RemoveAt(s, i)) : d \in ToSet(s)
<1>1. i \in 1..Len(s) /\ DOMAIN s = 1..Len(s)
  OBVIOUS
<1> DEFINE a == SubSeq(s, 1, i - 1)
           b == SubSeq(s, i + 1, Len(s))
<1>2. a \in Seq(S) /\ Len(a) = i - 1 /\ \A j \in 1..Len(a) : a[j] = s[j]
  BY <1>1
<1>3. b \in Seq(S) /\ Len(b) = Len(s) - i /\ \A j \in 1..Len(b) : b[j] = s[i + j]
  BY <1>1
<1>4. RemoveAt(s, i) = a \o b
  BY DEF RemoveAt
<1> HIDE DEF a, b
<1>5. /\ a \o b \in Seq(S) /\ Len(a \o b) = Len(a) + Len(b)
      /\ \A j \in 1..Len(a) + Len(b) : (a \o b)[j] = IF j <= Len(a) THEN a[j] ELSE b[j - Len(a)]
  BY <1>2, <1>3, ConcatProperties
<1>6. ASSUME NEW j \in 1..Len(a \o b) PROVE (a \o b)[j] \in ToSet(s)
  <2>1. CASE j <= Len(a)
    <3>1. (a \o b)[j] = a[j] /\ j \in 1..Len(a)
      BY <1>2, <1>3, <1>5, <2>1
    <3>2. j \in DOMAIN s
      BY <1>1, <1>2, <3>1
    <3> QED BY <1>2, <3>1, <3>2 DEF ToSet
  <2>2. CASE j > Len(a)
    <3>1. (a \o b)[j] = b[j - Len(a)] /\ j - Len(a) \in 1..Len(b)
      BY <1>2, <1>3, <1>5, <2>2
    <3>2. i + (j - Len(a)) \in DOMAIN s
      BY <1>1, <1>2, <1>3, <3>1
    <3> QED BY <1>3, <3>1, <3>2 DEF ToSet
  <2> QED BY <1>2, <1>5, <2>1, <2>2
<1> QED BY <1>4, <1>5, <1>6 DEF ToSet

LEMMA TailSet ==
    ASSUME NEW S, NEW s \in Seq(S), s # <<>>
    PROVE  Tail(s) \in Seq(S) /\ \A d \in ToSet(Tail(s)) : d \in ToSet(s)
  BY DEF ToSet

LEMMA SentNet ==
    ASSUME NEW n \in Nets, NEW a \in Addr \union {Nowhere}, NEW m \in Datagram
    PROVE  /\ Sent(n, a, m) \in Nets
           /\ \A b \in Addr :
                /\ \A d \in ToSet(Sent(n, a, m)[b]) : d \in ToSet(n[b]) \/ (d = m /\ b = a)
                /\ Sent(n, a, m)[b] = n[b] \/ (b = a /\ Sent(n, a, m)[b] = Append(n[b], m))
                /\ n[b] # <<>> => Sent(n, a, m)[b] # <<>> /\ Sent(n, a, m)[b][1] = n[b][1]
                /\ b # a => Sent(n, a, m)[b] = n[b]
           /\ a \in Addr /\ ~Gone(a) => Sent(n, a, m)[a] = Append(n[a], m)
<1>1. CASE Gone(a)
  BY <1>1 DEF Sent
<1>2. CASE ~Gone(a)
  <2>1. a \in Addr
    BY <1>2 DEF Gone
  <2>2. Sent(n, a, m) = [n EXCEPT ![a] = Append(@, m)]
    BY <1>2 DEF Sent
  <2>3. n[a] \in Seq(Datagram)
    BY <2>1 DEF Nets
  <2>4. Append(n[a], m) \in Seq(Datagram)
    BY <2>3, AppendSet
  <2>5. Sent(n, a, m) \in Nets /\ Sent(n, a, m)[a] = Append(n[a], m)
    BY <2>1, <2>2, <2>4 DEF Nets
  <2>6. \A b \in Addr : b # a => Sent(n, a, m)[b] = n[b]
    BY <2>2 DEF Nets
  <2>7. \A d \in ToSet(Append(n[a], m)) : d \in ToSet(n[a]) \/ d = m
    BY <2>3, AppendSet
  <2>8. Append(n[a], m) # <<>> /\ (n[a] # <<>> => Append(n[a], m)[1] = n[a][1])
    BY <2>3, AppendSet
  <2> QED BY <2>1, <2>5, <2>6, <2>7, <2>8
<1> QED BY <1>1, <1>2

\* A datagram for a is none for b.
LEMMA SentElsewhere ==
    ASSUME NEW n \in Nets, NEW a \in Addr \union {Nowhere}, NEW m \in Datagram, NEW b \in Addr, b # a
    PROVE  Sent(n, a, m) \in Nets /\ Sent(n, a, m)[b] = n[b]
  BY SentNet

LEMMA TakenNet ==
    ASSUME net \in Nets, NEW a \in Addr, NEW i \in DOMAIN net[a]
    PROVE  /\ Taken(a, i) \in Nets
           /\ \A b \in Addr : /\ \A d \in ToSet(Taken(a, i)[b]) : d \in ToSet(net[b])
                              /\ b # a => Taken(a, i)[b] = net[b]
<1>1. net[a] \in Seq(Datagram)
  BY DEF Nets
<1>2. RemoveAt(net[a], i) \in Seq(Datagram) /\ \A d \in ToSet(RemoveAt(net[a], i)) : d \in ToSet(net[a])
  BY <1>1, RemoveSet
<1>3. Taken(a, i) = [net EXCEPT ![a] = RemoveAt(net[a], i)]
  BY DEF Taken
<1> QED BY <1>2, <1>3 DEF Nets

LEMMA WithoutNet ==
    ASSUME NEW n \in Nets, NEW c \in Clients
    PROVE  /\ Without(n, c) \in Nets
           /\ \A b \in Addr : /\ \A d \in ToSet(Without(n, c)[b]) : d \in ToSet(n[b])
                              /\ b # c => Without(n, c)[b] = n[b]
<1>1. <<>> \in Seq(Datagram) /\ ToSet(<<>>) = {}
  BY DEF ToSet
<1>2. Without(n, c) = [n EXCEPT ![c] = <<>>] /\ c \in Addr
  BY DEF Without, Addr
<1>3. Without(n, c) \in Nets /\ Without(n, c)[c] = <<>> /\ \A b \in Addr \ {c} : Without(n, c)[b] = n[b]
  BY <1>1, <1>2 DEF Nets
<1> QED BY <1>1, <1>3

LEMMA Addresses ==
    /\ Clients \subseteq Addr /\ Ports \subseteq Addr /\ Listener \in Addr
    /\ Nowhere \notin Addr /\ Listener \notin Clients /\ Listener \notin Ports /\ None \notin Clients
    /\ \A c \in Clients : c \notin Ports
    /\ \A p \in Ports : p \in Nat /\ p \in 0..NPorts
    /\ \A p \in 0..NPorts : p # 0 => p \in Ports
  BY AddrAssumption, NPortsAssumption DEF Addr, Ports

LEMMA MsgType ==
    ASSUME NEW t \in {"Create", "CreateR", "Ping", "PingBack", "Data", "Ack", "Close"}, NEW a \in Addr
    PROVE  Msg(t, a) \in Datagram /\ Msg(t, a).type = t /\ Msg(t, a).from = a
  BY NPortsAssumption DEF Msg, Datagram

-----------------------------------------------------------------------------
(***************************************************************************)
(* Types of all but the network                                             *)
(***************************************************************************)
ClientsOK ==
    /\ calm \in BOOLEAN
    /\ status \in [Clients -> {"idle", "connecting", "up", "failed", "closed"}]
    /\ count \in [Clients -> 0..Retries]
    /\ port \in [Clients -> Ports \union {Nowhere}]
    /\ acked \subseteq Clients
    /\ connected_addr \in [Clients \union Ports -> Addr \union {Nowhere}]

ServerOK ==
    /\ bound \subseteq Ports
    /\ remote_addr \in [Ports -> Clients \union {None}]
    /\ heard \subseteq Ports
    /\ accepting \in Clients \union {None}
    /\ po \in Ports /\ free_port_now \in Ports
    /\ made \subseteq Clients \X Ports

LEMMA TypeParts == TypeOK <=> net \in Nets /\ ClientsOK /\ ServerOK
  BY DEF TypeOK, Nets, ClientsOK, ServerOK

\* The port a client reads out of a datagram is one a socket was made for.
LEMMA PortRead ==
    ASSUME TypeOK, NetInv, NEW c \in Clients, NEW i \in DOMAIN net[c]
    PROVE  /\ net[c][i] \in Datagram /\ net[c][i] \in ToSet(net[c]) /\ Legit(net[c][i], c, made, status)
           /\ PortIn(net[c][i]) \in Ports \union {Nowhere}
           /\ PortIn(net[c][i]) \in Ports => <<c, PortIn(net[c][i])>> \in made
<1>1. net[c] \in Seq(Datagram) /\ c \in Addr
  BY Addresses DEF TypeOK
<1>2. net[c][i] \in Datagram /\ net[c][i] \in ToSet(net[c])
  BY <1>1 DEF ToSet
<1>3. Legit(net[c][i], c, made, status)
  BY <1>1, <1>2 DEF NetInv
<1>4. net[c][i].type = "CreateR" => <<c, net[c][i].port>> \in made
  BY <1>3 DEF Legit
<1> QED BY <1>2, <1>3, <1>4, Addresses DEF PortIn, TypeOK

LEMMA ServerRead ==
    ASSUME TypeOK, NetInv, NEW b \in Ports \union {Listener}, NEW i \in DOMAIN net[b]
    PROVE  /\ net[b][i] \in Datagram /\ net[b][i] \in ToSet(net[b]) /\ Legit(net[b][i], b, made, status)
           /\ net[b][i].from \in Clients
<1>1. net[b] \in Seq(Datagram) /\ b \in Addr
  BY Addresses DEF TypeOK
<1>2. net[b][i] \in Datagram /\ net[b][i] \in ToSet(net[b])
  BY <1>1 DEF ToSet
<1>3. Legit(net[b][i], b, made, status)
  BY <1>1, <1>2 DEF NetInv
<1>4. made \subseteq Clients \X Ports
  BY DEF TypeOK
<1> QED BY <1>2, <1>3, <1>4 DEF Legit

LEMMA FreePortType == ASSUME NEW p \in Ports PROVE FreePort(p) = (IF p = NPorts THEN 1 ELSE p + 1) /\ FreePort(p) \in Ports
<1>1. NPorts \in Nat \ {0} /\ p \in 1..NPorts
  BY NPortsAssumption DEF Ports
<1>2. p % NPorts = IF p = NPorts THEN 0 ELSE p
  BY <1>1
<1>3. FreePort(p) = IF p = NPorts THEN 1 ELSE p + 1
  BY <1>1, <1>2 DEF FreePort
<1> QED BY <1>1, <1>3 DEF Ports

LEMMA PartsStep == TypeOK /\ NetInv /\ [Next]_vars => (ClientsOK /\ ServerOK)'
<1> SUFFICES ASSUME TypeOK, NetInv, [Next]_vars PROVE (ClientsOK /\ ServerOK)'
  OBVIOUS
<1>0. net \in Nets /\ ClientsOK /\ ServerOK
  BY TypeParts
<1>a. Listener \in Addr /\ Clients \subseteq Addr /\ Ports \subseteq Addr /\ Clients \intersect Ports = {}
  BY Addresses
<1> USE <1>0 DEF clientVars, serverVars, acceptVars
<1>1. ASSUME NEW c \in Clients, Connect(c) PROVE (ClientsOK /\ ServerOK)'
  BY <1>1, <1>a DEF Connect, ClientsOK, ServerOK
<1>2. ASSUME NEW c \in Clients, ConnectTimeout(c) PROVE (ClientsOK /\ ServerOK)'
  <2>1. count[c] + 1 <= Retries /\ count[c] \in Nat
    BY <1>2, RetriesAssumption DEF ConnectTimeout, ClientsOK
  <2>2. count' \in [Clients -> 0..Retries]
    BY <1>2, <2>1, RetriesAssumption DEF ConnectTimeout, ClientsOK
  <2>3. calm' \in BOOLEAN
    BY <1>2 DEF ConnectTimeout
  <2>4. status' \in [Clients -> {"idle", "connecting", "up", "failed", "closed"}]
    BY <1>2 DEF ConnectTimeout, ClientsOK
  <2> QED BY <1>2, <2>2, <2>3, <2>4 DEF ConnectTimeout, ClientsOK, ServerOK
<1>3. ASSUME NEW c \in Clients, ConnectAnswer(c) \/ ConnectNoControlPort(c) PROVE (ClientsOK /\ ServerOK)'
  <2>1. PICK i \in DOMAIN net[c] : /\ calm' = (calm /\ i = 1)
                                   /\ port' = [port EXCEPT ![c] = PortIn(net[c][i])]
                                   /\ connected_addr' = [connected_addr EXCEPT ![c] = PortIn(net[c][i])]
    BY <1>3 DEF ConnectAnswer, ConnectNoControlPort, Read
  <2>2. PortIn(net[c][i]) \in Ports \union {Nowhere}
    BY PortRead
  <2>3. calm' \in BOOLEAN
    BY <2>1
  <2>4. /\ port' \in [Clients -> Ports \union {Nowhere}]
        /\ connected_addr' \in [Clients \union Ports -> Addr \union {Nowhere}]
    BY <1>a, <2>1, <2>2 DEF ClientsOK
  <2>5. status' \in [Clients -> {"idle", "connecting", "up", "failed", "closed"}]
    BY <1>3 DEF ConnectAnswer, ConnectNoControlPort, ClientsOK
  <2> QED BY <1>3, <2>3, <2>4, <2>5 DEF ConnectAnswer, ConnectNoControlPort, ClientsOK, ServerOK
<1>4. ASSUME NEW c \in Clients, SendToken(c) \/ Close(c) PROVE (ClientsOK /\ ServerOK)'
  BY <1>4 DEF SendToken, Close, ClientsOK, ServerOK
<1>5. CASE Accept
  <2>1. PICK i \in DOMAIN net[Listener] :
          /\ calm' = (calm /\ i = 1)
          /\ \/ UNCHANGED acceptVars
             \/ /\ accepting' = net[Listener][i].from
                /\ po' = free_port_now
                /\ free_port_now' = FreePort(free_port_now)
    BY <1>5 DEF Accept, Read
  <2>2. calm' \in BOOLEAN
    BY <2>1
  <2>3. net[Listener][i].from \in Clients
    BY ServerRead
  <2>4. FreePort(free_port_now) \in Ports
    BY FreePortType DEF ServerOK
  <2> QED BY <1>5, <2>1, <2>2, <2>3, <2>4 DEF Accept, ClientsOK, ServerOK
<1>6. CASE BindTaken
  <2>1. FreePort(free_port_now) \in Ports
    BY FreePortType DEF ServerOK
  <2> QED BY <1>6, <2>1 DEF BindTaken, ClientsOK, ServerOK
<1>7. CASE BindFree
  <2>1. accepting \in Clients /\ po \in Ports
    BY <1>7 DEF BindFree, ServerOK
  <2>2. connected_addr' \in [Clients \union Ports -> Addr \union {Nowhere}]
    BY <1>7, <1>a, <2>1 DEF BindFree, ClientsOK
  <2>3. ClientsOK'
    BY <1>7, <2>2 DEF BindFree, ClientsOK
  <2>4. ServerOK'
    BY <1>7, <2>1 DEF BindFree, ServerOK
  <2> QED BY <2>3, <2>4
<1>8. ASSUME NEW p \in Ports, ServerClose(p) \/ Vanish(p) PROVE (ClientsOK /\ ServerOK)'
  BY <1>8 DEF ServerClose, Vanish, ClientsOK, ServerOK
<1>9. ASSUME NEW a \in Clients \union Ports, Receive(a) PROVE (ClientsOK /\ ServerOK)'
  <2>1. PICK i \in DOMAIN net[a] :
          LET d == net[a][i] IN
          /\ calm' = (calm /\ i = 1)
          /\ connected_addr' = [connected_addr EXCEPT ![a] = d.from]
          /\ heard' = IF d.type = "Data" THEN heard \union {a} ELSE heard
          /\ acked' = IF d.type = "Ack" THEN acked \union {a} ELSE acked
          /\ status' = IF d.type = "Close" /\ a \in Clients
                       THEN [status EXCEPT ![a] = "closed"] ELSE status
          /\ bound' = IF d.type = "Close" THEN bound \ {a} ELSE bound
    BY <1>9 DEF Receive, Read
  <2>2. net[a][i] \in Datagram /\ Legit(net[a][i], a, made, status)
    BY PortRead, ServerRead
  <2>3. /\ net[a][i].from \in Addr
        /\ net[a][i].type = "Data" => a \in Ports
        /\ net[a][i].type = "Ack" => a \in Clients
    BY <2>2 DEF Legit, Datagram
  <2>4. calm' \in BOOLEAN
    BY <2>1
  <2>5. connected_addr' \in [Clients \union Ports -> Addr \union {Nowhere}]
    BY <2>1, <2>3 DEF ClientsOK
  <2>6. status' \in [Clients -> {"idle", "connecting", "up", "failed", "closed"}]
    BY <2>1 DEF ClientsOK
  <2>7. acked' \subseteq Clients /\ heard' \subseteq Ports /\ bound' \subseteq Ports
    BY <2>1, <2>3 DEF ClientsOK, ServerOK
  <2> QED BY <1>9, <2>4, <2>5, <2>6, <2>7 DEF Receive, ClientsOK, ServerOK
<1>10. ASSUME NEW a \in Addr, Lose(a) PROVE (ClientsOK /\ ServerOK)'
  BY <1>10 DEF Lose, ClientsOK, ServerOK
<1>11. CASE UNCHANGED vars
  BY <1>11 DEF vars, ClientsOK, ServerOK
<1> QED BY <1>1, <1>2, <1>3, <1>4, <1>5, <1>6, <1>7, <1>8, <1>9, <1>10, <1>11 DEF Next

-----------------------------------------------------------------------------
(***************************************************************************)
(* Datagrams, pairs and addresses                                           *)
(***************************************************************************)

\* Pairs stay, and a client that has asked never goes back to idle.
LEMMA Lasting ==
    ASSUME TypeOK, [Next]_vars
    PROVE  /\ made \subseteq made'
           /\ \A c \in Clients : status[c] # "idle" => status'[c] # "idle"
<1>1. made \subseteq made'
  BY DEF Next, vars, serverVars, Connect, ConnectTimeout, ConnectAnswer, ConnectNoControlPort, SendToken, Close,
         Accept, BindTaken, BindFree, ServerClose, Vanish, Receive, Lose
<1>2. \/ UNCHANGED status
      \/ \E c \in Clients : \E v \in {"connecting", "up", "failed", "closed"} : status' = [status EXCEPT ![c] = v]
  BY DEF Next, vars, clientVars, Connect, ConnectTimeout, ConnectAnswer, ConnectNoControlPort, SendToken, Close,
         Accept, BindTaken, BindFree, ServerClose, Vanish, Receive, Lose
<1>3. \A c \in Clients : status[c] # "idle" => status'[c] # "idle"
  BY <1>2 DEF TypeOK
<1> QED BY <1>1, <1>3

\* The network n, all of whose datagrams are legitimate after the step.
OkNet(n) == n \in Nets /\ \A b \in Addr : \A d \in ToSet(n[b]) : Legit(d, b, made', status')

LEMMA OkOld ==
    ASSUME TypeOK, NetInv, [Next]_vars
    PROVE  OkNet(net)
<1>1. SUFFICES ASSUME NEW b \in Addr, NEW d \in ToSet(net[b]) PROVE Legit(d, b, made', status')
  BY TypeParts DEF OkNet
<1>2. Legit(d, b, made, status)
  BY DEF NetInv
<1> QED BY <1>2, Lasting DEF Legit

LEMMA OkSent ==
    ASSUME NEW n, OkNet(n), NEW a \in Addr \union {Nowhere}, NEW m \in Datagram, a \in Addr => Legit(m, a, made', status')
    PROVE  OkNet(Sent(n, a, m))
<1>1. n \in Nets /\ \A b \in Addr : \A d \in ToSet(n[b]) : Legit(d, b, made', status')
  BY DEF OkNet
<1>2. /\ Sent(n, a, m) \in Nets
      /\ \A b \in Addr : \A d \in ToSet(Sent(n, a, m)[b]) : d \in ToSet(n[b]) \/ (d = m /\ b = a)
  BY <1>1, SentNet
<1>3. ASSUME NEW b \in Addr, NEW d \in ToSet(Sent(n, a, m)[b]) PROVE Legit(d, b, made', status')
  BY <1>1, <1>2
<1> QED BY <1>2, <1>3 DEF OkNet

LEMMA OkWithout ==
    ASSUME NEW n, OkNet(n), NEW c \in Clients
    PROVE  OkNet(Without(n, c))
  BY WithoutNet DEF OkNet

LEMMA OkTaken ==
    ASSUME OkNet(net), NEW a \in Addr, NEW i \in DOMAIN net[a]
    PROVE  OkNet(Taken(a, i))
  BY TakenNet DEF OkNet

LEMMA NetStep == TypeOK /\ NetInv /\ PeersInv /\ [Next]_vars => OkNet(net')
<1> SUFFICES ASSUME TypeOK, NetInv, PeersInv, [Next]_vars PROVE OkNet(net')
  OBVIOUS
<1>0. net \in Nets /\ ClientsOK /\ ServerOK /\ (ClientsOK /\ ServerOK)'
  BY TypeParts, PartsStep
<1>a. /\ Clients \subseteq Addr /\ Ports \subseteq Addr /\ Listener \in Addr
      /\ Nowhere \notin Addr /\ Listener \notin Clients /\ Listener \notin Ports
      /\ \A c \in Clients : c \notin Ports
  BY Addresses
<1>o. OkNet(net)
  BY OkOld
<1>m. made \subseteq made' /\ \A c \in Clients : status[c] # "idle" => status'[c] # "idle"
  BY Lasting
<1>c. \* what a client sends to a server address that it has
      ASSUME NEW c \in Clients, NEW t \in {"Create", "Ping", "PingBack", "Data", "Close"},
             NEW a \in Ports \union {Listener, Nowhere}, a \in Ports => <<c, a>> \in made,
             a = Listener => status'[c] # "idle"
      PROVE  /\ a \in Addr \union {Nowhere} /\ Msg(t, c) \in Datagram
             /\ a \in Addr => Legit(Msg(t, c), a, made', status')
  <2>1. Msg(t, c) \in Datagram /\ Msg(t, c).type = t /\ Msg(t, c).from = c
    BY <1>a, <1>c, MsgType
  <2> QED BY <1>a, <1>c, <1>m, <2>1 DEF Legit
<1>s. \* what a server socket sends to a client of its
      ASSUME NEW p \in Ports, NEW t \in {"Ping", "PingBack", "Ack", "Close"}, NEW c \in Clients, <<c, p>> \in made'
      PROVE  c \in Addr \union {Nowhere} /\ Msg(t, p) \in Datagram /\ Legit(Msg(t, p), c, made', status')
  <2>1. Msg(t, p) \in Datagram /\ Msg(t, p).type = t /\ Msg(t, p).from = p
    BY <1>a, <1>s, MsgType
  <2> QED BY <1>a, <1>s, <2>1 DEF Legit
<1>k. \A c \in Clients : /\ connected_addr[c] \in Ports \union {Listener, Nowhere}
                         /\ connected_addr[c] \in Ports => <<c, connected_addr[c]>> \in made
  BY <1>0 DEF PeersInv, ClientsOK, Addr
<1>1. ASSUME NEW c \in Clients, Connect(c) PROVE OkNet(net')
  <2>1. status'[c] # "idle"
    BY <1>0, <1>1 DEF Connect, ClientsOK
  <2>2. net' = Sent(net, Listener, Msg("Create", c))
    BY <1>1 DEF Connect
  <2>3. Msg("Create", c) \in Datagram /\ Legit(Msg("Create", c), Listener, made', status')
    BY <1>a, <1>c, <2>1
  <2> QED BY <1>a, <1>o, <2>2, <2>3, OkSent
<1>2. ASSUME NEW c \in Clients, ConnectTimeout(c) PROVE OkNet(net')
  <2> DEFINE n == Sent(net, Listener, Msg("Create", c))
  <2>1. status'[c] # "idle"
    BY <1>m, <1>2 DEF ConnectTimeout
  <2>2. net' = n \/ net' = Without(n, c)
    BY <1>2 DEF ConnectTimeout
  <2>3. Msg("Create", c) \in Datagram /\ Legit(Msg("Create", c), Listener, made', status')
    BY <1>a, <1>c, <2>1
  <2>4. OkNet(n)
    BY <1>a, <1>o, <2>3, OkSent
  <2> HIDE DEF n
  <2> QED BY <2>2, <2>4, OkWithout
<1>3. ASSUME NEW c \in Clients, ConnectAnswer(c) PROVE OkNet(net')
  <2>1. PICK i \in DOMAIN net[c] : net' = Sent(Taken(c, i), PortIn(net[c][i]), Msg("Ping", c))
    BY <1>3 DEF ConnectAnswer
  <2> DEFINE p == PortIn(net[c][i])
  <2>2. p \in Ports \union {Nowhere} /\ (p \in Ports => <<c, p>> \in made)
    BY PortRead
  <2> HIDE DEF p
  <2>3. p \in Addr \union {Nowhere} /\ Msg("Ping", c) \in Datagram /\ (p \in Addr => Legit(Msg("Ping", c), p, made', status'))
    BY <1>a, <1>c, <2>2
  <2>4. OkNet(Taken(c, i))
    BY <1>a, <1>o, OkTaken
  <2>5. OkNet(Sent(Taken(c, i), p, Msg("Ping", c)))
    BY <2>3, <2>4, OkSent
  <2> QED BY <2>1, <2>5 DEF p
<1>4. ASSUME NEW c \in Clients, ConnectNoControlPort(c) PROVE OkNet(net')
  <2>1. net' = Without(net, c)
    BY <1>4 DEF ConnectNoControlPort
  <2> QED BY <1>o, <2>1, OkWithout
<1>5. ASSUME NEW c \in Clients, SendToken(c) \/ Close(c) PROVE OkNet(net')
  <2>1. status'[c] # "idle"
    BY <1>m, <1>5 DEF SendToken, Close
  <2>2. \A t \in {"Data", "Close"} : OkNet(Sent(net, connected_addr[c], Msg(t, c)))
    <3>1. SUFFICES ASSUME NEW t \in {"Data", "Close"} PROVE OkNet(Sent(net, connected_addr[c], Msg(t, c)))
      OBVIOUS
    <3>2. /\ connected_addr[c] \in Addr \union {Nowhere} /\ Msg(t, c) \in Datagram
          /\ connected_addr[c] \in Addr => Legit(Msg(t, c), connected_addr[c], made', status')
      BY <1>c, <1>k, <2>1
    <3> QED BY <1>o, <3>2, OkSent
  <2>3. \/ net' = Sent(net, connected_addr[c], Msg("Data", c))
        \/ net' = Without(Sent(net, connected_addr[c], Msg("Close", c)), c)
    BY <1>5 DEF SendToken, Close
  <2> QED BY <2>2, <2>3, OkWithout
<1>6. CASE Accept
  <2>1. PICK i \in DOMAIN net[Listener] : net' = Taken(Listener, i)
    BY <1>6 DEF Accept
  <2> QED BY <1>a, <1>o, <2>1, OkTaken
<1>7. CASE BindTaken
  BY <1>7, <1>o DEF BindTaken
<1>8. CASE BindFree
  <2> DEFINE c == accepting
             m == [type |-> "CreateR", from |-> Listener, port |-> po]
  <2>1. c \in Clients /\ po \in Ports /\ <<c, po>> \in made' /\ net' = Sent(Sent(net, c, m), c, Msg("Ping", po))
    BY <1>0, <1>8 DEF BindFree, Answered, ServerOK
  <2>2. m \in Datagram /\ Legit(m, c, made', status')
    <3>1. m \in Datagram /\ m.type = "CreateR" /\ m.from = Listener /\ m.port = po
      BY <1>a, <2>1, Addresses DEF Datagram
    <3> HIDE DEF m, c
    <3> QED BY <1>a, <2>1, <3>1 DEF Legit
  <2> HIDE DEF m, c
  <2>3. OkNet(Sent(net, c, m))
    BY <1>a, <1>o, <2>1, <2>2, OkSent
  <2>4. Msg("Ping", po) \in Datagram /\ Legit(Msg("Ping", po), c, made', status')
    BY <1>s, <2>1
  <2> QED BY <1>a, <2>1, <2>3, <2>4, OkSent
<1>9. ASSUME NEW p \in Ports, ServerClose(p) PROVE OkNet(net')
  <2>1. <<connected_addr[p], p>> \in made /\ net' = Sent(net, connected_addr[p], Msg("Close", p))
    BY <1>9 DEF ServerClose, PeersInv
  <2>2. connected_addr[p] \in Clients
    BY <1>0, <2>1 DEF ServerOK
  <2>3. Msg("Close", p) \in Datagram /\ Legit(Msg("Close", p), connected_addr[p], made', status')
    BY <1>m, <1>s, <2>1, <2>2
  <2> QED BY <1>a, <1>o, <2>1, <2>2, <2>3, OkSent
<1>10. ASSUME NEW p \in Ports, Vanish(p) PROVE OkNet(net')
  <2>1. net[p] \in Seq(Datagram) /\ net[p] # <<>> /\ net' = [net EXCEPT ![p] = Tail(net[p])]
    BY <1>0, <1>10, <1>a DEF Vanish, Nets
  <2>2. Tail(net[p]) \in Seq(Datagram) /\ \A d \in ToSet(Tail(net[p])) : d \in ToSet(net[p])
    BY <2>1, TailSet
  <2>3. net' \in Nets /\ net'[p] = Tail(net[p]) /\ \A b \in Addr \ {p} : net'[b] = net[b]
    BY <1>0, <1>a, <2>1, <2>2 DEF Nets
  <2> QED BY <1>o, <2>2, <2>3 DEF OkNet
<1>11. ASSUME NEW a \in Clients \union Ports, Receive(a) PROVE OkNet(net')
  <2>1. PICK i \in DOMAIN net[a] :
          net' = IF Reply(net[a][i]) # None THEN Sent(Taken(a, i), net[a][i].from, Msg(Reply(net[a][i]), a))
                 ELSE IF net[a][i].type = "Close" /\ a \in Clients THEN Without(Taken(a, i), a) ELSE Taken(a, i)
    BY <1>11 DEF Receive
  <2> DEFINE d == net[a][i]
             n == Taken(a, i)
  <2>2. OkNet(n)
    BY <1>a, <1>o, OkTaken
  <2>3. d \in Datagram /\ Legit(d, a, made, status)
    BY PortRead, ServerRead
  <2>4. net' = IF Reply(d) # None THEN Sent(n, d.from, Msg(Reply(d), a))
               ELSE IF d.type = "Close" /\ a \in Clients THEN Without(n, a) ELSE n
    BY <2>1
  <2> HIDE DEF d, n
  <2>5. CASE Reply(d) = None
    BY <2>2, <2>4, <2>5, OkWithout
  <2>6. CASE Reply(d) # None
    <3>1. Reply(d) \in {"PingBack", "Ack"} /\ (Reply(d) = "Ack" => d.type = "Data") /\ d.from \in Addr
      BY <2>3, <2>6 DEF Reply, Datagram
    <3>2. CASE a \in Clients
      <4>1. status'[a] # "idle"
        BY <1>11, <1>m, <3>2 DEF Receive, Running
      <4>2. Reply(d) = "PingBack" /\ d.from \in Ports \union {Listener} /\ (d.from \in Ports => <<a, d.from>> \in made)
        BY <2>3, <3>1, <3>2 DEF Legit, Addr
      <4>3. Msg(Reply(d), a) \in Datagram /\ Legit(Msg(Reply(d), a), d.from, made', status')
        BY <1>a, <1>c, <3>2, <4>1, <4>2
      <4> QED BY <2>2, <2>4, <2>6, <3>1, <4>3, OkSent
    <3>3. CASE a \in Ports
      <4>1. <<d.from, a>> \in made /\ d.from \in Clients
        BY <1>0, <2>3, <3>3 DEF Legit, ServerOK
      <4>2. Msg(Reply(d), a) \in Datagram /\ Legit(Msg(Reply(d), a), d.from, made', status')
        BY <1>m, <1>s, <3>1, <3>3, <4>1
      <4> QED BY <2>2, <2>4, <2>6, <3>1, <4>2, OkSent
    <3> QED BY <3>2, <3>3
  <2> QED BY <2>5, <2>6
<1>12. ASSUME NEW a \in Addr, Lose(a) PROVE OkNet(net')
  <2>1. PICK i \in DOMAIN net[a] : net' = Taken(a, i)
    BY <1>12 DEF Lose
  <2> QED BY <1>o, <2>1, OkTaken
<1>13. CASE UNCHANGED vars
  BY <1>13, <1>o DEF vars
<1> QED BY <1>1, <1>2, <1>3, <1>4, <1>5, <1>6, <1>7, <1>8, <1>9, <1>10, <1>11, <1>12, <1>13 DEF Next

LEMMA PeersStep == TypeOK /\ NetInv /\ PeersInv /\ [Next]_vars => PeersInv'
<1> SUFFICES ASSUME TypeOK, NetInv, PeersInv, [Next]_vars PROVE PeersInv'
  OBVIOUS
<1>0. ClientsOK /\ ServerOK
  BY TypeParts
<1>a. /\ Nowhere \notin Clients /\ Nowhere \notin Ports /\ Listener \notin Clients /\ Listener \notin Ports
      /\ \A c \in Clients : c \notin Ports
  BY Addresses DEF Addr
<1>m. made \subseteq made'
  BY Lasting
<1>k. \* whoever a connects to, unless a port is bound anew
      ASSUME NEW a \in Clients \union Ports, NEW b, connected_addr' = [connected_addr EXCEPT ![a] = b],
             a \in Clients => b \notin Clients /\ (b \in Ports => <<a, b>> \in made),
             a \in Ports => <<b, a>> \in made, bound' \subseteq bound, UNCHANGED remote_addr
      PROVE  PeersInv'
  <2>1. /\ connected_addr'[a] = b
        /\ \A x \in Clients \union Ports : x # a => connected_addr'[x] = connected_addr[x]
    BY <1>0, <1>k DEF ClientsOK
  <2>2. ASSUME NEW c \in Clients
        PROVE  connected_addr'[c] \notin Clients /\ (connected_addr'[c] \in Ports => <<c, connected_addr'[c]>> \in made')
    BY <1>m, <1>k, <2>1 DEF PeersInv
  <2>3. ASSUME NEW p \in bound' PROVE <<connected_addr'[p], p>> \in made' /\ <<remote_addr'[p], p>> \in made'
    BY <1>0, <1>m, <1>k, <2>1 DEF PeersInv, ServerOK
  <2> QED BY <2>2, <2>3 DEF PeersInv
<1>1. ASSUME NEW c \in Clients, Connect(c) PROVE PeersInv'
  <2>1. connected_addr' = [connected_addr EXCEPT ![c] = Listener] /\ bound' = bound /\ UNCHANGED remote_addr
    BY <1>1 DEF Connect, serverVars
  <2> QED BY <1>a, <1>k, <2>1
<1>2. ASSUME NEW c \in Clients, ConnectAnswer(c) \/ ConnectNoControlPort(c) PROVE PeersInv'
  <2>1. PICK i \in DOMAIN net[c] : connected_addr' = [connected_addr EXCEPT ![c] = PortIn(net[c][i])]
    BY <1>2 DEF ConnectAnswer, ConnectNoControlPort
  <2>2. bound' = bound /\ UNCHANGED remote_addr
    BY <1>2 DEF ConnectAnswer, ConnectNoControlPort, serverVars
  <2>3. /\ PortIn(net[c][i]) \in Ports \union {Nowhere}
        /\ PortIn(net[c][i]) \in Ports => <<c, PortIn(net[c][i])>> \in made
    BY PortRead
  <2> QED BY <1>a, <1>k, <2>1, <2>2, <2>3
<1>3. CASE BindFree
  <2>1. accepting \in Clients /\ po \in Ports /\ <<accepting, po>> \in made' /\ bound' = bound \union {po}
    BY <1>0, <1>3 DEF BindFree, ServerOK
  <2>2. /\ connected_addr'[po] = accepting /\ remote_addr'[po] = accepting
        /\ \A x \in Clients \union Ports : x # po => connected_addr'[x] = connected_addr[x]
        /\ \A x \in Ports : x # po => remote_addr'[x] = remote_addr[x]
    BY <1>0, <1>3, <2>1 DEF BindFree, ClientsOK, ServerOK
  <2>3. ASSUME NEW c \in Clients
        PROVE  connected_addr'[c] \notin Clients /\ (connected_addr'[c] \in Ports => <<c, connected_addr'[c]>> \in made')
    BY <1>a, <1>m, <2>1, <2>2 DEF PeersInv
  <2>4. ASSUME NEW p \in bound' PROVE <<connected_addr'[p], p>> \in made' /\ <<remote_addr'[p], p>> \in made'
    BY <1>0, <1>m, <2>1, <2>2 DEF PeersInv, ServerOK
  <2> QED BY <2>3, <2>4 DEF PeersInv
<1>4. ASSUME NEW a \in Clients \union Ports, Receive(a) PROVE PeersInv'
  <2>1. PICK i \in DOMAIN net[a] :
          /\ connected_addr' = [connected_addr EXCEPT ![a] = net[a][i].from]
          /\ bound' = IF net[a][i].type = "Close" THEN bound \ {a} ELSE bound
    BY <1>4 DEF Receive
  <2>2. Legit(net[a][i], a, made, status)
    BY PortRead, ServerRead
  <2>3. UNCHANGED remote_addr /\ bound' \subseteq bound
    BY <1>4, <2>1 DEF Receive
  <2> QED BY <1>k, <2>1, <2>2, <2>3 DEF Legit
<1>5. CASE connected_addr' = connected_addr /\ remote_addr' = remote_addr /\ bound' \subseteq bound
  BY <1>m, <1>5 DEF PeersInv
<1>6. ASSUME NEW c \in Clients, ConnectTimeout(c) \/ SendToken(c) \/ Close(c) PROVE PeersInv'
  BY <1>5, <1>6 DEF ConnectTimeout, SendToken, Close, serverVars
<1>7. ASSUME NEW p \in Ports, ServerClose(p) \/ Vanish(p) PROVE PeersInv'
  BY <1>5, <1>7 DEF ServerClose, Vanish, serverVars
<1>8. CASE Accept \/ BindTaken \/ (\E a \in Addr : Lose(a)) \/ UNCHANGED vars
  BY <1>5, <1>8 DEF Accept, BindTaken, Lose, vars, serverVars
<1> QED BY <1>1, <1>2, <1>3, <1>4, <1>6, <1>7, <1>8 DEF Next

LEMMA AskedStep == TypeOK /\ NetInv /\ AskedFirst /\ [Next]_vars => AskedFirst'
<1> SUFFICES ASSUME TypeOK, NetInv, AskedFirst, [Next]_vars PROVE AskedFirst'
  OBVIOUS
<1>0. ServerOK /\ ServerOK'
  BY TypeParts, PartsStep
<1>m. \A c \in Clients : status[c] # "idle" => status'[c] # "idle"
  BY Lasting
<1>1. CASE Accept
  <2>1. PICK i \in DOMAIN net[Listener] : accepting' = accepting \/ accepting' = net[Listener][i].from
    BY <1>1 DEF Accept, acceptVars
  <2>2. Legit(net[Listener][i], Listener, made, status)
    BY ServerRead
  <2>3. made' = made /\ status' = status
    BY <1>1 DEF Accept, serverVars, clientVars
  <2> QED BY <2>1, <2>2, <2>3 DEF Legit, AskedFirst
<1>2. CASE BindFree
  <2>1. /\ accepting # None /\ accepting \in Clients /\ accepting' = None
        /\ made' = made \union {<<accepting, po>>} /\ status' = status
    BY <1>0, <1>2 DEF BindFree, ServerOK, clientVars
  <2> QED BY <2>1 DEF AskedFirst
<1>3. CASE accepting' = accepting /\ made' = made
  BY <1>0, <1>m, <1>3 DEF AskedFirst, ServerOK
<1>4. ASSUME NEW c \in Clients,
             \/ Connect(c) \/ ConnectTimeout(c) \/ ConnectAnswer(c) \/ ConnectNoControlPort(c)
             \/ SendToken(c) \/ Close(c)
      PROVE  AskedFirst'
  BY <1>3, <1>4 DEF Connect, ConnectTimeout, ConnectAnswer, ConnectNoControlPort, SendToken, Close,
                    serverVars, acceptVars
<1>5. ASSUME NEW p \in Ports, ServerClose(p) \/ Vanish(p) PROVE AskedFirst'
  BY <1>3, <1>5 DEF ServerClose, Vanish, serverVars, acceptVars
<1>6. ASSUME NEW a \in Clients \union Ports, Receive(a) PROVE AskedFirst'
  BY <1>3, <1>6 DEF Receive, acceptVars
<1>7. CASE BindTaken \/ (\E a \in Addr : Lose(a)) \/ UNCHANGED vars
  BY <1>3, <1>7 DEF BindTaken, Lose, vars, serverVars, acceptVars
<1> QED BY <1>1, <1>2, <1>4, <1>5, <1>6, <1>7 DEF Next

-----------------------------------------------------------------------------
(***************************************************************************)
(* The ports                                                                *)
(***************************************************************************)
LEMMA PortsStep == TypeOK /\ NetInv /\ PeersInv /\ PortsInv /\ [Next]_vars => PortsInv'
<1> SUFFICES ASSUME TypeOK, NetInv, PeersInv, PortsInv, [Next]_vars PROVE PortsInv'
  OBVIOUS
<1>0. ServerOK /\ ServerOK'
  BY TypeParts, PartsStep
<1>n. NPorts \in Nat \ {0}
  BY NPortsAssumption
<1>u. made' = made => Used' = Used
  BY DEF Used
<1>1. CASE Accept
  <2>1. PICK i \in DOMAIN net[Listener] :
          \/ accepting' = accepting /\ free_port_now' = free_port_now
          \/ /\ accepting' = net[Listener][i].from
             /\ po' = free_port_now /\ free_port_now' = FreePort(free_port_now)
    BY <1>1 DEF Accept, acceptVars
  <2>2. net[Listener][i].from \in Clients /\ None \notin Clients
    BY ServerRead, Addresses
  <2>3. made' = made /\ accepting = None
    BY <1>1 DEF Accept, serverVars
  <2>4. InOrder'
    <3>1. Used = Ports \/ Used = 1..(free_port_now - 1)
      BY <2>3 DEF PortsInv, InOrder
    <3>2. CASE accepting' = accepting
      BY <1>u, <2>1, <2>2, <2>3, <3>1, <3>2 DEF InOrder
    <3>3. CASE accepting' # accepting
      <4>1. accepting' # None /\ po' = free_port_now /\ free_port_now' = FreePort(po')
        BY <2>1, <2>2, <2>3, <3>3
      <4>2. Used' = Ports \/ Used' = 1..(po' - 1)
        BY <1>u, <2>3, <3>1, <4>1
      <4>3. FreePort(po') = FreePort(po)'
        BY DEF FreePort
      <4> QED BY <4>1, <4>2, <4>3 DEF InOrder
    <3> QED BY <3>2, <3>3
  <2> QED BY <1>u, <2>3, <2>4 DEF PortsInv, OneClient
<1>2. CASE BindTaken
  <2>1. po \in Ports /\ po \in bound /\ accepting # None /\ made' = made
    BY <1>0, <1>2 DEF BindTaken, ServerOK, serverVars
  <2>2. po \in Used
    BY <1>0, <2>1 DEF PeersInv, Used, ServerOK
  <2>3. po \notin 1..(po - 1)
    BY <2>1 DEF Ports
  <2>4. Used = Ports
    BY <2>1, <2>2, <2>3 DEF PortsInv, InOrder
  <2> QED BY <1>u, <2>1, <2>4 DEF PortsInv, InOrder
<1>3. CASE BindFree
  <2>1. /\ accepting \in Clients /\ accepting # None /\ po \in Ports /\ accepting' = None
        /\ made' = made \union {<<accepting, po>>} /\ free_port_now' = free_port_now
    BY <1>0, <1>3 DEF BindFree, ServerOK
  <2>2. IsFiniteSet(made')
    BY <2>1, FS_AddElement DEF PortsInv
  <2>3. Used' = Used \union {po} /\ Used \subseteq Ports
    BY <2>1 DEF Used
  <2>4. CASE Used = Ports
    BY <2>1, <2>2, <2>3, <2>4 DEF PortsInv, InOrder
  <2>5. CASE Used # Ports
    <3>1. Used = 1..(po - 1) /\ free_port_now = FreePort(po) /\ OneClient
      BY <2>1, <2>5 DEF PortsInv, InOrder
    <3>2. free_port_now = IF po = NPorts THEN 1 ELSE po + 1
      BY <2>1, <3>1, FreePortType
    <3>3. Used' = 1..po
      BY <2>1, <2>3, <3>1 DEF Ports
    <3>4. InOrder'
      <4>1. CASE po = NPorts
        BY <3>3, <4>1 DEF InOrder, Ports
      <4>2. CASE po # NPorts
        <5>1. po = free_port_now' - 1
          BY <2>1, <3>2, <4>2 DEF Ports
        <5> QED BY <2>1, <3>3, <5>1 DEF InOrder
      <4> QED BY <4>1, <4>2
    <3>5. po \notin Used
      BY <2>1, <3>1 DEF Ports
    <3>6. \A x \in made : x[2] # po
      BY <1>0, <3>5 DEF Used, ServerOK
    <3>7. OneClient'
      BY <2>1, <3>1, <3>6 DEF OneClient
    <3> QED BY <2>2, <3>4, <3>7 DEF PortsInv
  <2> QED BY <2>4, <2>5
<1>4. CASE made' = made /\ accepting' = accepting /\ po' = po /\ free_port_now' = free_port_now
  <2>1. FreePort(po)' = FreePort(po)
    BY <1>4
  <2>2. InOrder'
    BY <1>u, <1>4, <2>1 DEF PortsInv, InOrder
  <2> QED BY <1>u, <1>4, <2>2 DEF PortsInv, OneClient
<1>5. ASSUME NEW c \in Clients,
             \/ Connect(c) \/ ConnectTimeout(c) \/ ConnectAnswer(c) \/ ConnectNoControlPort(c)
             \/ SendToken(c) \/ Close(c)
      PROVE  PortsInv'
  BY <1>4, <1>5 DEF Connect, ConnectTimeout, ConnectAnswer, ConnectNoControlPort, SendToken, Close,
                    serverVars, acceptVars
<1>6. ASSUME NEW p \in Ports, ServerClose(p) \/ Vanish(p) PROVE PortsInv'
  BY <1>4, <1>6 DEF ServerClose, Vanish, serverVars, acceptVars
<1>7. ASSUME NEW a \in Clients \union Ports, Receive(a) PROVE PortsInv'
  BY <1>4, <1>7 DEF Receive, acceptVars
<1>8. CASE (\E a \in Addr : Lose(a)) \/ UNCHANGED vars
  BY <1>4, <1>8 DEF Lose, vars, serverVars, acceptVars
<1> QED BY <1>1, <1>2, <1>3, <1>5, <1>6, <1>7, <1>8 DEF Next

\* With no more sockets made than there are ports, and every port used, each
\* port has had one client.
LEMMA FewSockets ==
    ASSUME ServerOK, PortsInv, Cardinality(made) <= NPorts
    PROVE  OneClient
<1> SUFFICES ASSUME Used = Ports PROVE OneClient
  BY DEF PortsInv
<1> DEFINE f == [x \in made |-> x[2]]
<1>1. f \in [made -> Ports] /\ \A x \in made : f[x] = x[2]
  BY DEF ServerOK
<1>2. \A p \in Ports : \E x \in made : f[x] = p
  <2>1. ASSUME NEW p \in Ports PROVE \E x \in made : f[x] = p
    <3>1. PICK c \in Clients : <<c, p>> \in made
      BY DEF Used
    <3> QED BY <1>1, <3>1
  <2> QED BY <2>1
<1> HIDE DEF f
<1>3. f \in Surjection(made, Ports)
  BY <1>1, <1>2 DEF Surjection
<1>4. IsFiniteSet(made)
  BY DEF PortsInv
<1>5. /\ Cardinality(Ports) <= Cardinality(made)
      /\ Cardinality(Ports) = Cardinality(made) <=> f \in Injection(made, Ports)
  BY <1>3, <1>4, FS_Surjection
<1>6. Cardinality(Ports) = NPorts
  BY NPortsAssumption, FS_Interval DEF Ports
<1>7. Cardinality(made) \in Nat
  BY <1>4, FS_CardinalityType
<1>8. f \in Injection(made, Ports)
  BY <1>5, <1>6, <1>7, NPortsAssumption
<1> QED BY <1>1, <1>8 DEF Injection, IsInjective, OneClient

-----------------------------------------------------------------------------
(***************************************************************************)
(* The answer                                                               *)
(***************************************************************************)

\* Nothing is sent to a client before it asks.
LEMMA IdleClient ==
    ASSUME TypeOK, NetInv, AskedFirst, NEW c \in Clients, status[c] = "idle"
    PROVE  net[c] = <<>> /\ \A p \in Ports : <<c, p>> \notin made
<1>1. \A p \in Ports : <<c, p>> \notin made
  BY DEF AskedFirst
<1>2. ASSUME net[c] # <<>> PROVE FALSE
  <2>1. net[c] \in Seq(Datagram)
    BY Addresses DEF TypeOK
  <2>2. 1 \in DOMAIN net[c]
    BY <1>2, <2>1
  <2>3. Legit(net[c][1], c, made, status)
    BY <2>2, PortRead
  <2>4. made \subseteq Clients \X Ports
    BY DEF TypeOK
  <2> QED BY <1>1, <2>3, <2>4 DEF Legit
<1> QED BY <1>1, <1>2

LEMMA AnswerStep ==
    TypeOK /\ NetInv /\ PeersInv /\ AskedFirst /\ AnswerFirst /\ [Next]_vars => AnswerFirst'
<1> SUFFICES ASSUME TypeOK, NetInv, PeersInv, AskedFirst, AnswerFirst, [Next]_vars, calm'
             PROVE  \A c \in Clients : AnswerFor(c)'
  BY DEF AnswerFirst
<1>0. net \in Nets /\ ClientsOK /\ ServerOK
  BY TypeParts
<1>a. /\ Clients \subseteq Addr /\ Ports \subseteq Addr /\ Listener \in Addr
      /\ Nowhere \notin Addr /\ Listener \notin Clients
      /\ \A c \in Clients : c \notin Ports
  BY Addresses
<1>m. made \subseteq made'
  BY Lasting
<1>t. \A x \in Addr, t \in {"Create", "Ping", "PingBack", "Data", "Ack", "Close"} : Msg(t, x) \in Datagram
  BY MsgType
<1>same. \* a client that the step does not concern
         ASSUME NEW c \in Clients, calm, status'[c] = status[c], port'[c] = port[c], net'[c] = net[c],
                \A p \in Ports : <<c, p>> \in made' => <<c, p>> \in made
         PROVE  AnswerFor(c)'
  <2>1. AnswerFor(c)
    BY <1>same DEF AnswerFirst
  <2> QED BY <1>same, <1>m, <2>1 DEF AnswerFor
<1>more. \* a client that a socket of its own sends a datagram
         ASSUME NEW c \in Clients, NEW p \in Ports, <<c, p>> \in made,
                calm, status'[c] = status[c], port'[c] = port[c],
                net[c] # <<>> => net'[c] # <<>> /\ net'[c][1] = net[c][1]
         PROVE  AnswerFor(c)'
  <2>1. AnswerFor(c)
    BY <1>more DEF AnswerFirst
  <2> QED BY <1>more, <1>m, <2>1 DEF AnswerFor
<1>1. ASSUME NEW x \in Clients, Connect(x), NEW c \in Clients PROVE AnswerFor(c)'
  <2>1. /\ net' = Sent(net, Listener, Msg("Create", x)) /\ calm' = calm /\ port' = port /\ made' = made
        /\ status' = [status EXCEPT ![x] = "connecting"] /\ status[x] = "idle"
    BY <1>1 DEF Connect, serverVars
  <2>2. net'[c] = net[c]
    <3>1. Msg("Create", x) \in Datagram /\ c \in Addr /\ c # Listener
      BY <1>a, <1>t
    <3> QED BY <1>0, <1>a, <2>1, <3>1, SentElsewhere
  <2>3. CASE c = x
    <3>1. status'[c] = "connecting"
      BY <1>0, <2>1, <2>3 DEF ClientsOK
    <3>2. net[c] = <<>> /\ \A p \in Ports : <<c, p>> \notin made
      BY <2>1, <2>3, IdleClient
    <3> QED BY <2>1, <2>2, <3>1, <3>2 DEF AnswerFor
  <2>4. CASE c # x
    <3>1. status'[c] = status[c]
      BY <1>0, <2>1, <2>4 DEF ClientsOK
    <3> QED BY <1>same, <2>1, <2>2, <3>1
  <2> QED BY <2>3, <2>4
<1>2. ASSUME NEW x \in Clients, ConnectTimeout(x), NEW c \in Clients PROVE AnswerFor(c)'
  <2> DEFINE n == Sent(net, Listener, Msg("Create", x))
  <2>1. /\ calm /\ port' = port /\ made' = made
        /\ \/ net' = n /\ status' = status
           \/ net' = Without(n, x) /\ status' = [status EXCEPT ![x] = "failed"]
    BY <1>2 DEF ConnectTimeout, serverVars
  <2>2. n \in Nets /\ n[c] = net[c]
    BY <1>0, <1>a, <1>t, SentNet
  <2> HIDE DEF n
  <2>3. CASE net' = n /\ status' = status
    BY <1>same, <2>1, <2>2, <2>3
  <2>4. CASE net' = Without(n, x) /\ status' = [status EXCEPT ![x] = "failed"]
    <3>1. CASE c = x
      BY <1>0, <2>4, <3>1 DEF AnswerFor, ClientsOK
    <3>2. CASE c # x
      <4>1. net'[c] = net[c]
        BY <1>a, <2>2, <2>4, <3>2, WithoutNet
      <4>2. status'[c] = status[c]
        BY <1>0, <2>4, <3>2 DEF ClientsOK
      <4> QED BY <1>same, <2>1, <4>1, <4>2
    <3> QED BY <3>1, <3>2
  <2> QED BY <2>1, <2>3, <2>4
<1>3. ASSUME NEW x \in Clients, ConnectAnswer(x), NEW c \in Clients PROVE AnswerFor(c)'
  <2>1. PICK i \in DOMAIN net[x] :
          /\ calm' = (calm /\ i = 1)
          /\ port' = [port EXCEPT ![x] = PortIn(net[x][i])]
          /\ net' = Sent(Taken(x, i), PortIn(net[x][i]), Msg("Ping", x))
    BY <1>3 DEF ConnectAnswer, Read
  <2>2. status[x] = "connecting" /\ status' = [status EXCEPT ![x] = "up"] /\ made' = made
    BY <1>3 DEF ConnectAnswer, serverVars
  <2>3. calm /\ i = 1
    BY <2>1
  <2>4. CASE c = x
    <3>1. AnswerFor(x) /\ net[x] # <<>>
      BY <2>1, <2>3 DEF AnswerFirst
    <3>2. net[x][i].type = "CreateR"
      BY <2>2, <2>3, <3>1 DEF AnswerFor
    <3>3. <<x, PortIn(net[x][i])>> \in made
      BY <3>2, PortRead DEF PortIn, Legit
    <3>4. status'[c] = "up" /\ port'[c] = PortIn(net[x][i])
      BY <1>0, <2>1, <2>2, <2>4 DEF ClientsOK
    <3> QED BY <2>2, <2>4, <3>3, <3>4 DEF AnswerFor
  <2>5. CASE c # x
    <3> DEFINE p == PortIn(net[x][i])
               n == Taken(x, i)
    <3>1. p \in Addr \union {Nowhere} /\ p # c
      BY <1>a, PortRead
    <3>2. n \in Nets /\ n[c] = net[c]
      BY <1>0, <1>a, <2>5, TakenNet
    <3>3. net' = Sent(n, p, Msg("Ping", x))
      BY <2>1
    <3> HIDE DEF n, p
    <3>4. net'[c] = net[c]
      <4>1. Msg("Ping", x) \in Datagram /\ c \in Addr
        BY <1>a, <1>t
      <4> QED BY <3>1, <3>2, <3>3, <4>1, SentElsewhere
    <3>5. status'[c] = status[c] /\ port'[c] = port[c]
      BY <1>0, <2>1, <2>2, <2>5 DEF ClientsOK
    <3> QED BY <1>same, <2>2, <2>3, <3>4, <3>5
  <2> QED BY <2>4, <2>5
<1>4. ASSUME NEW x \in Clients, ConnectNoControlPort(x), NEW c \in Clients PROVE AnswerFor(c)'
  <2>1. \E p : calm /\ net' = Without(net, x) /\ port' = [port EXCEPT ![x] = p]
    BY <1>4 DEF ConnectNoControlPort, Read
  <2>2. status' = [status EXCEPT ![x] = "failed"] /\ made' = made
    BY <1>4 DEF ConnectNoControlPort, serverVars
  <2>3. CASE c = x
    BY <1>0, <2>2, <2>3 DEF AnswerFor, ClientsOK
  <2>4. CASE c # x
    <3>1. net'[c] = net[c]
      BY <1>0, <1>a, <2>1, <2>4, WithoutNet
    <3>2. status'[c] = status[c] /\ port'[c] = port[c]
      BY <1>0, <2>1, <2>2, <2>4 DEF ClientsOK
    <3> QED BY <1>same, <2>1, <2>2, <3>1, <3>2
  <2> QED BY <2>3, <2>4
<1>5. ASSUME NEW x \in Clients, SendToken(x) \/ Close(x), NEW c \in Clients PROVE AnswerFor(c)'
  <2>1. /\ calm' = calm /\ port' = port /\ made' = made
        /\ \/ net' = Sent(net, connected_addr[x], Msg("Data", x)) /\ status' = status
           \/ /\ net' = Without(Sent(net, connected_addr[x], Msg("Close", x)), x)
              /\ status' = [status EXCEPT ![x] = "closed"]
    BY <1>5 DEF SendToken, Close, serverVars, clientVars
  <2>2. connected_addr[x] \in Addr \union {Nowhere} /\ connected_addr[x] # c
    BY <1>0 DEF ClientsOK, PeersInv
  <2>3. \A t \in {"Data", "Close"} : /\ Sent(net, connected_addr[x], Msg(t, x)) \in Nets
                                    /\ Sent(net, connected_addr[x], Msg(t, x))[c] = net[c]
    <3>1. SUFFICES ASSUME NEW t \in {"Data", "Close"}
                   PROVE  /\ Sent(net, connected_addr[x], Msg(t, x)) \in Nets
                          /\ Sent(net, connected_addr[x], Msg(t, x))[c] = net[c]
      OBVIOUS
    <3>2. Msg(t, x) \in Datagram /\ c \in Addr
      BY <1>a, <1>t
    <3> QED BY <1>0, <2>2, <3>2, SentElsewhere
  <2>4. CASE status' = status /\ net' = Sent(net, connected_addr[x], Msg("Data", x))
    BY <1>same, <2>1, <2>3, <2>4
  <2>5. CASE /\ net' = Without(Sent(net, connected_addr[x], Msg("Close", x)), x)
             /\ status' = [status EXCEPT ![x] = "closed"]
    <3>1. CASE c = x
      BY <1>0, <2>5, <3>1 DEF AnswerFor, ClientsOK
    <3>2. CASE c # x
      <4>1. net'[c] = net[c]
        BY <1>a, <2>3, <2>5, <3>2, WithoutNet
      <4>2. status'[c] = status[c]
        BY <1>0, <2>5, <3>2 DEF ClientsOK
      <4> QED BY <1>same, <2>1, <4>1, <4>2
    <3> QED BY <3>1, <3>2
  <2> QED BY <2>1, <2>4, <2>5
<1>6. ASSUME Accept, NEW c \in Clients PROVE AnswerFor(c)'
  <2>1. PICK i \in DOMAIN net[Listener] : calm' = (calm /\ i = 1) /\ net' = Taken(Listener, i)
    BY <1>6 DEF Accept, Read
  <2>2. net'[c] = net[c]
    BY <1>0, <1>a, <2>1, TakenNet
  <2>3. made' = made /\ status' = status /\ port' = port
    BY <1>6 DEF Accept, serverVars, clientVars
  <2> QED BY <1>same, <2>1, <2>2, <2>3
<1>7. ASSUME BindFree, NEW c \in Clients PROVE AnswerFor(c)'
  <2> DEFINE x == accepting
             m == [type |-> "CreateR", from |-> Listener, port |-> po]
             n == Sent(net, x, m)
  <2>1. /\ x \in Clients /\ po \in Ports /\ net' = Sent(n, x, Msg("Ping", po))
        /\ made' = made \union {<<x, po>>} /\ calm' = calm /\ status' = status /\ port' = port
    BY <1>0, <1>7 DEF BindFree, Answered, ServerOK, clientVars
  <2>2. m \in Datagram /\ m.type = "CreateR"
    BY <2>1, Addresses DEF Datagram
  <2>3. Msg("Ping", po) \in Datagram
    BY <1>a, <1>t, <2>1
  <2> HIDE DEF x, m
  <2>4. n \in Nets
    BY <1>0, <1>a, <2>1, <2>2, SentNet
  <2>5. CASE c # x
    <3>1. n[c] = net[c]
      BY <1>0, <1>a, <2>1, <2>2, <2>5, SentNet
    <3> HIDE DEF n
    <3>2. net'[c] = net[c]
      BY <1>a, <2>1, <2>3, <2>4, <2>5, <3>1, SentNet
    <3> QED BY <1>same, <2>1, <2>5, <3>2
  <2>6. CASE c = x
    <3>1. AnswerFor(c)
      BY <2>1 DEF AnswerFirst
    <3>2. ASSUME status[c] = "connecting" PROVE n[c] # <<>> /\ n[c][1].type = "CreateR"
      <4>1. ~Gone(c)
        BY <1>a, <3>2 DEF Gone
      <4>2. n = [net EXCEPT ![c] = Append(@, m)] /\ c \in Addr
        BY <1>a, <2>6, <4>1 DEF Sent
      <4>3. n[c] = Append(net[c], m) /\ net[c] \in Seq(Datagram)
        BY <1>0, <4>2 DEF Nets
      <4>4. /\ n[c] # <<>>
            /\ net[c] # <<>> => n[c][1] = net[c][1]
            /\ net[c] = <<>> => n[c][1] = m
        BY <2>2, <4>3, AppendSet
      <4> QED BY <2>2, <3>1, <3>2, <4>4 DEF AnswerFor
    <3> HIDE DEF n
    <3>3. n[c] # <<>> => net'[c] # <<>> /\ net'[c][1] = n[c][1]
      BY <1>a, <2>1, <2>3, <2>4, SentNet
    <3> QED BY <1>m, <2>1, <3>1, <3>2, <3>3 DEF AnswerFor
  <2> QED BY <2>5, <2>6
<1>8. ASSUME NEW p \in Ports, ServerClose(p), NEW c \in Clients PROVE AnswerFor(c)'
  <2> DEFINE x == connected_addr[p]
  <2>1. /\ <<x, p>> \in made /\ net' = Sent(net, x, Msg("Close", p))
        /\ made' = made /\ calm' = calm /\ status' = status /\ port' = port
    BY <1>8 DEF ServerClose, PeersInv, clientVars
  <2>2. x \in Clients /\ Msg("Close", p) \in Datagram
    BY <1>0, <1>a, <1>t, <2>1 DEF ServerOK
  <2> HIDE DEF x
  <2>3. /\ net[c] # <<>> => net'[c] # <<>> /\ net'[c][1] = net[c][1]
        /\ c # x => net'[c] = net[c]
    BY <1>0, <1>a, <2>1, <2>2, SentNet
  <2>4. CASE c = x
    BY <1>more, <2>1, <2>3, <2>4
  <2>5. CASE c # x
    BY <1>same, <2>1, <2>3, <2>5
  <2> QED BY <2>4, <2>5
<1>9. ASSUME NEW p \in Ports, Vanish(p), NEW c \in Clients PROVE AnswerFor(c)'
  <2>1. /\ net' = [net EXCEPT ![p] = Tail(@)]
        /\ made' = made /\ calm' = calm /\ status' = status /\ port' = port
    BY <1>9 DEF Vanish, clientVars, serverVars
  <2>2. net'[c] = net[c]
    BY <1>0, <1>a, <2>1 DEF Nets
  <2> QED BY <1>same, <2>1, <2>2
<1>10. ASSUME NEW a \in Clients \union Ports, Receive(a), NEW c \in Clients PROVE AnswerFor(c)'
  <2>1. PICK i \in DOMAIN net[a] :
          /\ calm' = (calm /\ i = 1)
          /\ net' = IF Reply(net[a][i]) # None THEN Sent(Taken(a, i), net[a][i].from, Msg(Reply(net[a][i]), a))
                    ELSE IF net[a][i].type = "Close" /\ a \in Clients THEN Without(Taken(a, i), a) ELSE Taken(a, i)
          /\ status' = IF net[a][i].type = "Close" /\ a \in Clients
                       THEN [status EXCEPT ![a] = "closed"] ELSE status
    BY <1>10 DEF Receive, Read
  <2> DEFINE d == net[a][i]
             n == Taken(a, i)
  <2>2. calm /\ made' = made /\ port' = port
    BY <1>10, <2>1 DEF Receive
  <2>3. d \in Datagram /\ Legit(d, a, made, status)
    BY PortRead, ServerRead
  <2>4. n \in Nets /\ (c # a => n[c] = net[c])
    BY <1>0, <1>a, TakenNet
  <2>5. /\ net' = IF Reply(d) # None THEN Sent(n, d.from, Msg(Reply(d), a))
                  ELSE IF d.type = "Close" /\ a \in Clients THEN Without(n, a) ELSE n
        /\ status' = IF d.type = "Close" /\ a \in Clients THEN [status EXCEPT ![a] = "closed"] ELSE status
    BY <2>1
  <2> HIDE DEF d, n
  <2>6. Reply(d) # None => d.from \in Addr /\ Msg(Reply(d), a) \in Datagram
    BY <1>a, <1>t, <2>3 DEF Reply, Datagram
  <2>7. CASE c = a
    <3>1. status[a] = "up" /\ status'[a] \in {"up", "closed"}
      BY <1>0, <1>10, <2>5, <2>7 DEF Receive, Running, ClientsOK
    <3>2. AnswerFor(a)
      BY <2>2, <2>7 DEF AnswerFirst
    <3> QED BY <2>2, <2>7, <3>1, <3>2 DEF AnswerFor
  <2>8. CASE c # a
    <3>1. status'[c] = status[c]
      BY <1>0, <2>5, <2>8 DEF ClientsOK
    <3>2. CASE Reply(d) # None /\ c = d.from
      <4>1. a \in Ports /\ <<c, a>> \in made
        BY <2>3, <3>2 DEF Legit
      <4>2. net[c] # <<>> => net'[c] # <<>> /\ net'[c][1] = net[c][1]
        BY <1>a, <2>4, <2>5, <2>6, <2>8, <3>2, SentNet
      <4> QED BY <1>more, <2>2, <3>1, <4>1, <4>2
    <3>3. CASE ~(Reply(d) # None /\ c = d.from)
      <4>1. net'[c] = net[c]
        <5>1. CASE Reply(d) # None
          BY <1>a, <2>4, <2>5, <2>6, <2>8, <3>3, <5>1, SentNet
        <5>2. CASE Reply(d) = None
          BY <1>a, <2>4, <2>5, <2>8, <5>2, WithoutNet
        <5> QED BY <5>1, <5>2
      <4> QED BY <1>same, <2>2, <3>1, <4>1
    <3> QED BY <3>2, <3>3
  <2> QED BY <2>7, <2>8
<1>11. ASSUME BindTaken \/ UNCHANGED vars, NEW c \in Clients PROVE AnswerFor(c)'
  <2>1. net' = net /\ calm' = calm /\ status' = status /\ port' = port /\ made' = made
    BY <1>11 DEF BindTaken, vars, clientVars, serverVars
  <2> QED BY <1>same, <2>1
<1>12. ASSUME NEW a \in Addr, Lose(a) PROVE FALSE
  BY <1>12 DEF Lose
<1> QED BY <1>1, <1>2, <1>3, <1>4, <1>5, <1>6, <1>7, <1>8, <1>9, <1>10, <1>11, <1>12 DEF Next

-----------------------------------------------------------------------------
(***************************************************************************)
(* The theorems                                                             *)
(***************************************************************************)
LEMMA ConnInit == Init => ConnInv
<1> SUFFICES ASSUME Init PROVE ConnInv
  OBVIOUS
<1> USE DEF Init
<1>1. TypeOK
  <2>1. 1 \in Ports /\ 0 \in 0..Retries /\ net \in [Addr -> Seq(Datagram)]
    BY NPortsAssumption, RetriesAssumption DEF Ports
  <2> QED BY <2>1 DEF TypeOK
<1>2. NetInv
  BY DEF NetInv, ToSet
<1>3. PeersInv
  BY Addresses DEF PeersInv, Addr
<1>4. AskedFirst
  BY DEF AskedFirst
<1>5. PortsInv
  <2>1. IsFiniteSet(made)
    BY FS_EmptySet
  <2>2. Used = {} /\ 1..(free_port_now - 1) = {}
    BY DEF Used
  <2> QED BY <2>1, <2>2 DEF PortsInv, InOrder, OneClient
<1>6. AnswerFirst
  BY DEF AnswerFirst, AnswerFor
<1> QED BY <1>1, <1>2, <1>3, <1>4, <1>5, <1>6 DEF ConnInv

LEMMA ConnStep == ConnInv /\ [Next]_vars => ConnInv'
<1> SUFFICES ASSUME ConnInv, [Next]_vars PROVE ConnInv'
  OBVIOUS
<1>0. TypeOK /\ NetInv /\ PeersInv /\ AskedFirst /\ PortsInv /\ AnswerFirst
  BY DEF ConnInv
<1>1. OkNet(net')
  BY <1>0, NetStep
<1>2. net' \in Nets /\ (ClientsOK /\ ServerOK)'
  BY <1>0, <1>1, PartsStep DEF OkNet
<1>3. TypeOK'
  BY <1>2 DEF TypeOK, Nets, ClientsOK, ServerOK, Addr, Ports, Datagram
<1>4. NetInv'
  BY <1>1 DEF OkNet, NetInv
<1>5. PeersInv' /\ AskedFirst' /\ PortsInv' /\ AnswerFirst'
  BY <1>0, PeersStep, AskedStep, PortsStep, AnswerStep
<1> QED BY <1>3, <1>4, <1>5 DEF ConnInv

LEMMA ConnAlways == Spec => []ConnInv
  BY ConnInit, ConnStep, PTL DEF Spec

\* Every variable of the connection model stays in its type: no receiver ever
\* leaves its socket connected to anything but an address, and get_free_port
\* stays inside the range of ports.
THEOREM ConnectionTypeCorrect == Spec => []TypeOK
<1>1. ConnInv => TypeOK
  BY DEF ConnInv
<1> QED BY <1>1, ConnAlways, PTL

\* A server socket sends to the client it was made for, although recv_thread
\* overwrites connected_addr with the sender of every datagram, for any number
\* of clients and ports, until more sockets were made than there are ports.
THEOREM PeersStayFixed == Spec => []PeerFixed
<1>1. ConnInv => PeerFixed
  <2>1. SUFFICES ASSUME ConnInv, Cardinality(made) <= NPorts, NEW p \in bound
                 PROVE  connected_addr[p] = remote_addr[p]
    BY DEF PeerFixed
  <2>2. ServerOK /\ PortsInv /\ PeersInv
    BY <2>1, TypeParts DEF ConnInv
  <2>3. OneClient
    BY <2>1, <2>2, FewSockets
  <2>4. <<connected_addr[p], p>> \in made /\ <<remote_addr[p], p>> \in made
    BY <2>2 DEF PeersInv
  <2> QED BY <2>3, <2>4 DEF OneClient
<1> QED BY <1>1, ConnAlways, PTL

\* A client that connect_addr reports connected has the port of a socket that
\* accept_connection made for it, while no datagram is lost, overtaken or late.
THEOREM PortsAgree == Spec => []PortAgreed
<1>1. ConnInv => PortAgreed
  BY DEF ConnInv, AnswerFirst, AnswerFor, PortAgreed
<1> QED BY <1>1, ConnAlways, PTL
=============================================================================
