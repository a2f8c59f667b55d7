-------------------------------- MODULE Rudp --------------------------------
(***************************************************************************)
(* The reliable-UDP protocol of ReliableSocket: two connected sockets, each *)
(* sending numbered packages to the other over UDP, which loses, repeats    *)
(* and reorders datagrams.                                                  *)
(*                                                                         *)
(* Per socket the code runs a segment thread, a sender, an ack sender, an   *)
(* ackhandler and a receiver, and the application calls recv_package.  One  *)
(* action here is one iteration of one of these loops; SendPool.tla takes   *)
(* the sending threads apart, down to the steps between lock and unlock.    *)
(*                                                                         *)
(* What is abstracted.  The payload of package n of a socket is n itself.   *)
(* Time: a retransmission timeout may fire whenever the ackhandler waits.   *)
(* The rings of 100000 slots are sets and sequences: MaxId stands below     *)
(* their capacity, so no slot is used twice.                                *)
(***************************************************************************)
EXTENDS Integers, Sequences, FiniteSets, FiniteSetsExt

CONSTANTS
    Client, Server,  \* the two ends of one connection
    MaxId,           \* bound: the largest package id
    Supply,          \* bound: how many packages the application of each end fills
    MaxSend,         \* a package sent more often than this is dropped (20)
    Window,          \* unacknowledged packages that stall the segment thread (8000)
    MaxBatch,        \* bound: packages made from one snapshot of segment_list
    AckMax,          \* ids one Ack carries at most (35)
    MaxLoss,         \* bound: datagrams the network may destroy
    StaleIds         \* ids that the memory of a new IdSet may hold

Endpoint == {Client, Server}

Id == 1..MaxId

ASSUME EndpointAssumption == Client # Server
ASSUME MaxIdAssumption == MaxId \in Nat
ASSUME SupplyAssumption == Supply \in [Endpoint -> 0..MaxId]
ASSUME LimitAssumption == MaxSend \in Nat /\ MaxBatch \in Nat /\ MaxLoss \in Nat
ASSUME WindowAssumption == Window \in Nat \ {0}
ASSUME AckMaxAssumption == AckMax \in Nat \ {0}
ASSUME StaleIdsAssumption == StaleIds \subseteq Id

VARIABLES
    send_id,         \* the id the next new package gets
    seg_left,        \* packages the segment thread still has to make of its batch
    queue,           \* send_pool: ids of new packages, in order
    resend_queue,    \* send_pool: ids to send again
    live,            \* send_pool: ids whose PackageData exists (arr[id] = id)
    ref,             \* send_pool: the reference count of a package
    send_count,      \* PackageData.send_count
    send_ack_id,     \* every package up to it is taken as acknowledged
    ack_recv_pool,   \* ids acknowledged one by one
    resend_now,      \* fast resend has looked at every id up to it
    fast_to,         \* where the fast resend under way ends, 0 if there is none
    send_from,       \* announced to the peer: wait for nothing before it
    ack_pool,        \* ids of sent packages, in the order they were sent
    watched,         \* the package the ackhandler waits for, 0 if none
    recv_ack_id,     \* una: every package up to it is taken as received
    recv_pool,       \* packages received and not yet handed over
    recv_id,         \* the next package recv_package looks for
    ack_send_queue,  \* ids received and not yet taken up by the ack sender
    ack_read_list,   \* the ack sender's snapshot of ack_send_queue
    net,             \* datagrams on their way
    lost,            \* how many datagrams the network has destroyed
    delivered,       \* history: packages handed to the application, in order
    arrived,         \* history: ids of the Data datagrams that reached the socket
    dropped          \* history: packages the ackhandler gave up

poolVars == <<queue, resend_queue, live, ref, send_count>>
ackVars  == <<send_ack_id, ack_recv_pool, resend_now, fast_to>>
waitVars == <<send_from, ack_pool, watched, dropped>>
recvVars == <<recv_ack_id, recv_pool, recv_id, delivered, arrived>>
listVars == <<ack_send_queue, ack_read_list>>
netVars  == <<net, lost>>
vars == <<send_id, seg_left, poolVars, ackVars, waitVars, recvVars, listVars,
          netVars>>

Peer(e) == IF e = Client THEN Server ELSE Client

(***************************************************************************)
(* Datagrams: PackageData and PackageAck.                                   *)
(***************************************************************************)
Data(e, i, una) == [type |-> "Data", to |-> Peer(e), id |-> i, una |-> una]

Ack(e, una, from, ids) ==
    [type |-> "Ack", to |-> Peer(e), una |-> una, send_from |-> from, ids |-> ids]

DataMsg == [type : {"Data"}, to : Endpoint, id : Id, una : 0..(MaxId + 1)]

AckMsg == [type : {"Ack"}, to : Endpoint, una : 0..(MaxId + 1),
           send_from : 0..(MaxId + 1), ids : SUBSET Id]

(***************************************************************************)
(* Helpers                                                                  *)
(***************************************************************************)

\* while (pool.find(n + 1)) n++
Advance(S, n) ==
    CHOOSE m \in n..(MaxId + 1) : (n + 1)..m \subseteq S /\ m + 1 \notin S

MAX(a, b) == IF a > b THEN a ELSE b

\* The sender has an acknowledgement for package i.
Acked(e, i) == i <= send_ack_id[e] \/ i \in ack_recv_pool[e]

\* Mutant: the loop of AckWaitList::pop passes over every entry but the last.
PopIndexLast(q) == Len(q)

\* AckWaitList::pop passes over an entry while its package has a later one:
\* the position of the first entry whose package comes no more.
PopIndex(q) ==
    CHOOSE k \in DOMAIN q :
        /\ \A j \in DOMAIN q : j > k => q[j] # q[k]
        /\ \A i \in 1..(k - 1) : \E j \in DOMAIN q : j > i /\ q[j] = q[i]

\* PackageQueueMap::erase
Erase(e, i) ==
    IF i \in live[e]
    THEN /\ ref' = [ref EXCEPT ![e][i] = @ - 1]
         /\ live' = [live EXCEPT ![e] = IF ref[e][i] > 1 THEN @ ELSE @ \ {i}]
    ELSE UNCHANGED <<ref, live>>

Init ==
    /\ send_id = [e \in Endpoint |-> 1]
    /\ seg_left = [e \in Endpoint |-> 0]
    /\ queue = [e \in Endpoint |-> <<>>]
    /\ resend_queue = [e \in Endpoint |-> <<>>]
    /\ live = [e \in Endpoint |-> {}]
    /\ ref = [e \in Endpoint |-> [i \in Id |-> 0]]
    /\ send_count = [e \in Endpoint |-> [i \in Id |-> 0]]
    /\ send_ack_id = [e \in Endpoint |-> 0]
    /\ ack_recv_pool \in [Endpoint -> SUBSET StaleIds]  \* IdSet does not clear its array
    /\ resend_now = [e \in Endpoint |-> 0]
    /\ fast_to = [e \in Endpoint |-> 0]
    /\ send_from = [e \in Endpoint |-> 0]
    /\ ack_pool = [e \in Endpoint |-> <<>>]
    /\ watched = [e \in Endpoint |-> 0]
    /\ recv_ack_id = [e \in Endpoint |-> 0]
    /\ recv_pool = [e \in Endpoint |-> {}]
    /\ recv_id = [e \in Endpoint |-> 1]
    /\ ack_send_queue = [e \in Endpoint |-> {}]
    /\ ack_read_list = [e \in Endpoint |-> {}]
    /\ net = {}
    /\ lost = 0
    /\ delivered = [e \in Endpoint |-> <<>>]
    /\ arrived = [e \in Endpoint |-> {}]
    /\ dropped = [e \in Endpoint |-> {}]

-----------------------------------------------------------------------------
(***************************************************************************)
(* The segment thread                                                       *)
(***************************************************************************)

\* Mutant: the window is compared off by one.
WindowOpenLate(e) == send_ack_id[e] <= send_id[e] /\ send_id[e] - send_ack_id[e] <= Window + 1

\* The difference is unsigned: with send_ack_id ahead of send_id it wraps to a
\* huge number and the window is shut.
WindowOpen(e) == send_ack_id[e] <= send_id[e] /\ send_id[e] - send_ack_id[e] <= Window

\* It takes a snapshot of segment_list, worth n packages, once the window is
\* open.  The window is not looked at again before the batch is through.
TakeSegments(e) ==
    /\ seg_left[e] = 0
    /\ WindowOpen(e)
    /\ \E n \in 1..MaxBatch :
        /\ send_id[e] + n - 1 <= Supply[e]
        /\ seg_left' = [seg_left EXCEPT ![e] = n]
    /\ UNCHANGED <<send_id, poolVars, ackVars, waitVars, recvVars, listVars, netVars>>

\* One package is filled, numbered and pushed.
PushPackage(e) ==
    /\ seg_left[e] > 0
    /\ seg_left' = [seg_left EXCEPT ![e] = @ - 1]
    /\ queue' = [queue EXCEPT ![e] = Append(@, send_id[e])]
    /\ live' = [live EXCEPT ![e] = @ \union {send_id[e]}]
    /\ ref' = [ref EXCEPT ![e][send_id[e]] = 1]
    /\ send_id' = [send_id EXCEPT ![e] = @ + 1]
    /\ UNCHANGED <<resend_queue, send_count, ackVars, waitVars, recvVars, listVars,
                   netVars>>

(***************************************************************************)
(* The sender: packages to send again come first.  A package that has been  *)
(* freed meanwhile pops as nullptr and is passed over.                      *)
(***************************************************************************)
SendPackage(e) ==
    LET again == resend_queue[e] # <<>>
        i == IF again THEN Head(resend_queue[e]) ELSE Head(queue[e])
    IN
    /\ again \/ queue[e] # <<>>
    /\ IF again
       THEN resend_queue' = [resend_queue EXCEPT ![e] = Tail(@)] /\ queue' = queue
       ELSE queue' = [queue EXCEPT ![e] = Tail(@)] /\ resend_queue' = resend_queue
    /\ IF i \in live[e]
       THEN /\ send_count' = [send_count EXCEPT ![e][i] = @ + 1]
            /\ net' = net \union {Data(e, i, recv_ack_id[e])}
            /\ ack_pool' = [ack_pool EXCEPT ![e] = Append(@, i)]
       ELSE UNCHANGED <<send_count, net, ack_pool>>
    /\ UNCHANGED <<send_id, seg_left, live, ref, ackVars, send_from, watched, dropped,
                   recvVars, listVars, lost>>

(***************************************************************************)
(* The ack sender                                                           *)
(***************************************************************************)
TakeAcks(e) ==
    /\ ack_read_list[e] = {} /\ ack_send_queue[e] # {}
    /\ ack_read_list' = [ack_read_list EXCEPT ![e] = ack_send_queue[e]]
    /\ ack_send_queue' = [ack_send_queue EXCEPT ![e] = {}]
    /\ UNCHANGED <<send_id, seg_left, poolVars, ackVars, waitVars, recvVars, netVars>>

\* Mutant: una is the id that is expected next.
AckUnaNext(e) == recv_ack_id[e] + 1

AckUna(e) == recv_ack_id[e]

\* PackageAck::load takes up to AckMax ids above una off the list and throws
\* the others away.  The list is a set: what it repeats, the peer ignores.
SendAck(e) ==
    LET una == AckUna(e)
        new == {i \in ack_read_list[e] : i > una}
    IN
    /\ ack_read_list[e] # {}
    /\ \E ids \in SUBSET new :
        /\ Cardinality(ids) <= AckMax
        /\ ids = {} => new = {}
        /\ net' = net \union {Ack(e, una, send_from[e], ids)}
        /\ ack_read_list' = [ack_read_list EXCEPT ![e] = new \ ids]
    /\ UNCHANGED <<send_id, seg_left, poolVars, ackVars, waitVars, recvVars,
                   ack_send_queue, lost>>

(***************************************************************************)
(* The ackhandler                                                           *)
(***************************************************************************)

\* Mutant: send_from leaves out one package more.
SendFromAfterSkipping(i, from) == IF i > from THEN i + 2 ELSE from

\* send_from once package i is dropped.
SendFromAfter(i, from) == IF i > from THEN i + 1 ELSE from

\* It takes the next sent package.  One that was sent too often is dropped
\* here, before anything looks at its acknowledgement; one that has its
\* acknowledgement is released; for any other it waits.
WatchPackage(e) ==
    LET k == PopIndex(ack_pool[e])
        i == ack_pool[e][k]
    IN
    /\ watched[e] = 0 /\ ack_pool[e] # <<>>
    /\ ack_pool' = [ack_pool EXCEPT ![e] = SubSeq(@, k + 1, Len(@))]
    /\ \/ /\ send_count[e][i] > MaxSend
          /\ Erase(e, i)
          /\ send_from' = [send_from EXCEPT ![e] = SendFromAfter(i, @)]
          /\ dropped' = [dropped EXCEPT ![e] = @ \union {i}]
          /\ UNCHANGED watched
       \/ /\ send_count[e][i] <= MaxSend /\ Acked(e, i)
          /\ Erase(e, i)
          /\ UNCHANGED <<send_from, dropped, watched>>
       \/ /\ send_count[e][i] <= MaxSend /\ ~Acked(e, i)
          /\ watched' = [watched EXCEPT ![e] = i]
          /\ UNCHANGED <<live, ref, send_from, dropped>>
    /\ UNCHANGED <<send_id, seg_left, queue, resend_queue, send_count, ackVars, recvVars,
                   listVars, netVars>>

\* It finds the package it waits for acknowledged.
ReleasePackage(e) ==
    /\ watched[e] # 0 /\ Acked(e, watched[e])
    /\ Erase(e, watched[e])
    /\ watched' = [watched EXCEPT ![e] = 0]
    /\ UNCHANGED <<send_id, seg_left, queue, resend_queue, send_count, ackVars, send_from,
                   ack_pool, dropped, recvVars, listVars, netVars>>

\* Mutant: the timed-out package is not queued.
ResendPackageLost(e) ==
    LET i == watched[e] IN
    /\ i # 0
    /\ ref' = [ref EXCEPT ![e][i] = @ + 1]
    /\ watched' = [watched EXCEPT ![e] = 0]
    /\ UNCHANGED <<send_id, seg_left, queue, resend_queue, live, send_count, ackVars, send_from,
                   ack_pool, dropped, recvVars, listVars, netVars>>

\* The retransmission timeout has passed.  The acknowledgement was not there
\* when the ackhandler last looked, but may have come since.
ResendPackage(e) ==
    LET i == watched[e] IN
    /\ i # 0
    /\ resend_queue' = [resend_queue EXCEPT ![e] = Append(@, i)]
    /\ ref' = [ref EXCEPT ![e][i] = @ + 1]
    /\ watched' = [watched EXCEPT ![e] = 0]
    /\ UNCHANGED <<send_id, seg_left, queue, live, send_count, ackVars, send_from,
                   ack_pool, dropped, recvVars, listVars, netVars>>

(***************************************************************************)
(* The receiver.  A datagram stays in net when it is received: the network  *)
(* may deliver it again.                                                    *)
(***************************************************************************)

\* Mutant: only the package that comes next is kept.
IsNewInOrder(e, i) == recv_ack_id[e] + 1 = i

IsNew(e, i) == i \notin recv_pool[e] /\ recv_ack_id[e] < i

RecvData(e, m) ==
    LET pool == IF IsNew(e, m.id) THEN recv_pool[e] \union {m.id} ELSE recv_pool[e]
    IN
    /\ fast_to[e] = 0
    /\ m.type = "Data" /\ m.to = e
    /\ recv_pool' = [recv_pool EXCEPT ![e] = pool]
    /\ recv_ack_id' = [recv_ack_id EXCEPT ![e] = Advance(pool, @)]
    /\ ack_send_queue' = [ack_send_queue EXCEPT ![e] = @ \union {m.id}]
    /\ send_ack_id' =
        [send_ack_id EXCEPT ![e] = Advance(ack_recv_pool[e], MAX(@, m.una))]
    /\ arrived' = [arrived EXCEPT ![e] = @ \union {m.id}]
    /\ UNCHANGED <<send_id, seg_left, poolVars, ack_recv_pool, resend_now, fast_to, waitVars,
                   recv_id, delivered, ack_read_list, netVars>>

\* Mutant: recv_ack_id is moved by una.
RecvAckIdAfterUna(e, m) == MAX(recv_ack_id[e], m.una)

\* recv_ack_id once an Ack is received: the peer waits for nothing before send_from.
RecvAckIdAfter(e, m) == MAX(recv_ack_id[e], m.send_from)

RecvAck(e, m) ==
    LET una == IF m.una > send_id[e] THEN 0 ELSE m.una
        ids == {i \in m.ids : send_ack_id[e] < i /\ i <= send_id[e]}
        pool == ack_recv_pool[e] \union ids
        acked == Advance(pool, MAX(una, send_ack_id[e]))
        now == MAX(resend_now[e], acked)
        top == Max(ids \union {0})
    IN
    /\ fast_to[e] = 0
    /\ m.type = "Ack" /\ m.to = e
    /\ recv_ack_id' = [recv_ack_id EXCEPT ![e] = RecvAckIdAfter(e, m)]
    /\ ack_recv_pool' = [ack_recv_pool EXCEPT ![e] = pool]
    /\ send_ack_id' = [send_ack_id EXCEPT ![e] = acked]
    /\ resend_now' = [resend_now EXCEPT ![e] = now]
    /\ fast_to' = [fast_to EXCEPT ![e] = IF top > now + 2 THEN top ELSE 0]
    /\ UNCHANGED <<send_id, seg_left, poolVars, waitVars, recv_pool, recv_id, delivered,
                   arrived, listVars, netVars>>

\* Fast resend: the highest id of an Ack has left a gap above resend_now.  The
\* packages in the gap without an acknowledgement are queued, one at a time,
\* before the receiver reads its next datagram.
FastResend(e) ==
    LET i == resend_now[e] + 1 IN
    /\ fast_to[e] # 0
    /\ IF i < fast_to[e] /\ i \notin ack_recv_pool[e]
       THEN /\ resend_queue' = [resend_queue EXCEPT ![e] = Append(@, i)]
            /\ ref' = [ref EXCEPT ![e][i] = @ + 1]
       ELSE UNCHANGED <<resend_queue, ref>>
    /\ resend_now' = [resend_now EXCEPT ![e] = i]
    /\ fast_to' = [fast_to EXCEPT ![e] = IF i < @ THEN @ ELSE 0]
    /\ UNCHANGED <<send_id, seg_left, queue, live, send_count, send_ack_id, ack_recv_pool,
                   waitVars, recvVars, listVars, netVars>>

(***************************************************************************)
(* recv_package: ids below recv_ack_id that are not in the pool are passed   *)
(* over, the first one that is there is handed over and erased.             *)
(***************************************************************************)

\* Mutant: any package of the pool is handed over.
ComesNextAny(e, i) == TRUE

\* Mutant: holes are passed over whatever recv_ack_id is.
ComesNextHole(e, i) ==
    /\ i >= recv_id[e]
    /\ \A j \in recv_id[e]..(i - 1) : j \notin recv_pool[e]

\* Mutant: a package is handed over once recv_ack_id is beyond it.
ComesNextLate(e, i) ==
    /\ i >= recv_id[e] /\ i < recv_ack_id[e]
    /\ \A j \in recv_id[e]..(i - 1) : j \notin recv_pool[e]

ComesNext(e, i) ==
    /\ i = recv_id[e] \/ (recv_id[e] < i /\ i <= recv_ack_id[e])
    /\ \A j \in recv_id[e]..(i - 1) : j \notin recv_pool[e]

RecvPackage(e) ==
    \E i \in recv_pool[e] :
        /\ ComesNext(e, i)
        /\ recv_id' = [recv_id EXCEPT ![e] = i + 1]
        /\ delivered' = [delivered EXCEPT ![e] = Append(@, i)]
        /\ recv_pool' = [recv_pool EXCEPT ![e] = @ \ {i}]
        /\ UNCHANGED <<send_id, seg_left, poolVars, ackVars, waitVars, recv_ack_id,
                       arrived, listVars, netVars>>

\* Nothing to hand over: recv_package has moved recv_id up to recv_ack_id and
\* waits there.
SkipDropped(e) ==
    /\ recv_id[e] < recv_ack_id[e]
    /\ recv_id[e]..recv_ack_id[e] \intersect recv_pool[e] = {}
    /\ recv_id' = [recv_id EXCEPT ![e] = recv_ack_id[e]]
    /\ UNCHANGED <<send_id, seg_left, poolVars, ackVars, waitVars, recv_ack_id, recv_pool,
                   delivered, arrived, listVars, netVars>>

(***************************************************************************)
(* The network destroys a datagram.  One that is merely never received      *)
(* needs no action.                                                         *)
(***************************************************************************)
Lose(m) ==
    /\ lost < MaxLoss
    /\ lost' = lost + 1
    /\ net' = net \ {m}
    /\ UNCHANGED <<send_id, seg_left, poolVars, ackVars, waitVars, recvVars, listVars>>

Next ==
    \/ \E e \in Endpoint :
        \/ TakeSegments(e)
        \/ PushPackage(e)
        \/ SendPackage(e)
        \/ TakeAcks(e)
        \/ SendAck(e)
        \/ WatchPackage(e)
        \/ ReleasePackage(e)
        \/ ResendPackage(e)
        \/ FastResend(e)
        \/ RecvPackage(e)
        \/ SkipDropped(e)
    \/ \E m \in net :
        \/ RecvData(m.to, m)
        \/ RecvAck(m.to, m)
        \/ Lose(m)

Spec == Init /\ [][Next]_vars

(***************************************************************************)
(* Fairness: the threads of both sockets keep running and the application   *)
(* keeps calling recv_package.  The network delivers: when datagrams with a *)
(* package stay under way, one of them arrives, and an Ack that would still *)
(* tell its receiver something does not stay under way for ever.  Nothing   *)
(* is assumed of Lose or of TakeSegments.                                   *)
(***************************************************************************)
Fairness ==
    \A e \in Endpoint :
        /\ WF_vars(PushPackage(e))
        /\ WF_vars(SendPackage(e))
        /\ WF_vars(TakeAcks(e) \/ SendAck(e))
        /\ WF_vars(WatchPackage(e) \/ ReleasePackage(e) \/ ResendPackage(e))
        /\ WF_vars(RecvPackage(e) \/ SkipDropped(e))
        /\ \A i \in Id :
            WF_vars(\E m \in net : m.type = "Data" /\ m.id = i /\ RecvData(e, m))
        /\ WF_vars(\E m \in net : RecvAck(e, m))
        /\ WF_vars(FastResend(e))

FairSpec == Spec /\ Fairness

-----------------------------------------------------------------------------
(***************************************************************************)
(* Properties                                                               *)
(***************************************************************************)

PoolTypeOK ==
    /\ queue \in [Endpoint -> Seq(Id)]
    /\ resend_queue \in [Endpoint -> Seq(Id)]
    /\ live \in [Endpoint -> SUBSET Id]
    /\ ref \in [Endpoint -> [Id -> Int]]
    /\ send_count \in [Endpoint -> [Id -> Nat]]

AckTypeOK ==
    /\ send_ack_id \in [Endpoint -> 0..(MaxId + 1)]
    /\ ack_recv_pool \in [Endpoint -> SUBSET Id]
    /\ resend_now \in [Endpoint -> 0..(MaxId + 1)]
    /\ fast_to \in [Endpoint -> Id \union {0}]

WaitTypeOK ==
    /\ send_from \in [Endpoint -> 0..(MaxId + 1)]
    /\ ack_pool \in [Endpoint -> Seq(Id)]
    /\ watched \in [Endpoint -> Id \union {0}]
    /\ dropped \in [Endpoint -> SUBSET Id]

RecvTypeOK ==
    /\ recv_ack_id \in [Endpoint -> 0..(MaxId + 1)]
    /\ recv_pool \in [Endpoint -> SUBSET Id]
    /\ recv_id \in [Endpoint -> 1..(MaxId + 1)]
    /\ delivered \in [Endpoint -> Seq(Id)]
    /\ arrived \in [Endpoint -> SUBSET Id]

ListTypeOK ==
    /\ ack_send_queue \in [Endpoint -> SUBSET Id]
    /\ ack_read_list \in [Endpoint -> SUBSET Id]

NetTypeOK ==
    /\ net \subseteq DataMsg \union AckMsg
    /\ lost \in 0..MaxLoss

\* The type of the state: every id a queue, a pool or a datagram holds is one
\* the application may use, and the counters never leave the range of the ids
\* by more than the one that send_from names after the last package.
TypeOK ==
    /\ send_id \in [Endpoint -> 1..(MaxId + 1)]
    /\ seg_left \in [Endpoint -> 0..MaxBatch]
    /\ PoolTypeOK
    /\ AckTypeOK
    /\ WaitTypeOK
    /\ RecvTypeOK
    /\ ListTypeOK
    /\ NetTypeOK

\* The application gets the packages of its peer in order, none twice, however
\* often the network repeats a datagram and whatever the peer has dropped.
DeliveredInOrder ==
    \A e \in Endpoint :
        \A j, k \in DOMAIN delivered[e] : j < k => delivered[e][j] < delivered[e][k]

\* As long as its peer has dropped nothing, the application has got every
\* package up to the one recv_package looks for: what a datagram's loss or
\* delay costs is time, never a gap.
CompleteUntilDrop ==
    \A e \in Endpoint :
        dropped[Peer(e)] = {} => delivered[e] = [i \in 1..(recv_id[e] - 1) |-> i]

\* What the sender takes as acknowledged has reached the peer's socket, or is
\* covered by the announcement of a drop, or was in the memory of ack_recv_pool.
AckMeansArrived ==
    \A e \in Endpoint, i \in Id :
        Acked(e, i) => \/ i \in arrived[Peer(e)]
                       \/ i <= send_from[e]
                       \/ i \in StaleIds

\* As long as its peer has dropped nothing, a socket keeps what it has
\* acknowledged until the application has it: the sender may forget the package.
AckedIsKept ==
    \A e \in Endpoint, i \in Id :
        dropped[e] = {} /\ Acked(e, i) =>
            \/ i \in recv_pool[Peer(e)]
            \/ \E k \in DOMAIN delivered[Peer(e)] : delivered[Peer(e)][k] = i
            \/ i \in StaleIds

\* A package that is neither acknowledged nor dropped still exists and is in a
\* queue or in the hands of a thread that will send it or wait for it.
NoPackageForgotten ==
    \A e \in Endpoint : \A i \in 1..(send_id[e] - 1) :
        \/ Acked(e, i)
        \/ i \in dropped[e]
        \/ /\ i \in live[e]
           /\ \/ i = watched[e]
              \/ \E q \in {queue[e], resend_queue[e], ack_pool[e]} :
                    \E k \in DOMAIN q : q[k] = i

\* The packages a socket has sent and not seen acknowledged are at most the
\* window plus one batch of the segment thread.
WindowBound ==
    \A e \in Endpoint : send_id[e] + seg_left[e] - send_ack_id[e] <= Window + MaxBatch

\* send_ack_id never overtakes send_id, so send_id - send_ack_id, which is
\* unsigned, never wraps and shuts the window for good.  The announcement of a
\* drop reaches the id that is numbered next and no further.
WindowNeverWraps ==
    StaleIds = {} => \A e \in Endpoint : send_ack_id[e] <= send_id[e]

\* Sending comes to rest: after any state there is one in which every package
\* numbered so far is acknowledged or dropped.  No package is sent again for
\* ever, none is left waiting.
EverySettled ==
    []<>(\A e \in Endpoint : \A i \in 1..(send_id[e] - 1) :
            Acked(e, i) \/ i \in dropped[e])

\* Unless something is dropped, the application has, in the end, every package
\* its peer has numbered.
DeliveredUnlessDropped ==
    []<>(\A e \in Endpoint :
            dropped[e] # {} \/ Len(delivered[Peer(e)]) = send_id[e] - 1)

\* The receiver's comment on the packages it deletes: "Duplicated data package
\* Drop Package".  A package that has arrived, and that its sender has not
\* dropped, is in recv_pool or was delivered: what is deleted is a repetition.
DiscardsOnlyDuplicates ==
    \A e \in Endpoint : \A i \in arrived[e] \ dropped[Peer(e)] :
        i \in recv_pool[e] \/ \E k \in DOMAIN delivered[e] : delivered[e][k] = i

-----------------------------------------------------------------------------
(***************************************************************************)
(* The protocol implements the channel that the application sees.           *)
(***************************************************************************)
C == INSTANCE Channel WITH
        sent <- [e \in Endpoint |-> send_id[e] - 1],
        got <- delivered,
        gave_up <- [e \in Endpoint |-> dropped[e] # {}]

\* Every step of the threads and of the network is a step of the channel, or
\* changes nothing an application can see.
ImplementsChannel == C!Spec

=============================================================================
