----------------------------- MODULE RudpProofs -----------------------------
(***************************************************************************)
(* Proofs about Rudp.                                                       *)
(***************************************************************************)
EXTENDS Rudp, TLAPS, WellFoundedInduction, SequenceTheorems

-----------------------------------------------------------------------------
(***************************************************************************)
(* Arithmetic the helpers rest on                                           *)
(***************************************************************************)

\* A non-empty set of naturals has a least element.
LEMMA LeastNat ==
    ASSUME NEW T, T \subseteq Nat, T # {}
    PROVE  \E x \in T : \A y \in T : x <= y
<1> DEFINE R == {ss \in Nat \X Nat : ss[1] < ss[2]}
<1>1. IsWellFoundedOn(R, Nat)
  BY NatLessThanWellFounded DEF OpToRel
<1> HIDE DEF R
<1>2. PICK x \in T : \A y \in T : ~(<<y, x>> \in R)
  BY <1>1, WFMin
<1>3. ASSUME NEW y \in T PROVE x <= y
  <2>1. x \in Nat /\ y \in Nat
    OBVIOUS
  <2>2. ~(y < x)
    BY <1>2, <2>1 DEF R
  <2> QED
    BY <2>1, <2>2
<1> QED
  BY <1>3

\* while (pool.find(n + 1)) n++ stops, behind ids that are all in the pool.
LEMMA AdvanceProp ==
    ASSUME NEW S \in SUBSET Id, NEW n \in 0..(MaxId + 1)
    PROVE  /\ Advance(S, n) \in n..(MaxId + 1)
           /\ (n + 1)..Advance(S, n) \subseteq S
           /\ Advance(S, n) + 1 \notin S
<1> USE MaxIdAssumption
<1> DEFINE T == {m \in n..(MaxId + 1) : m + 1 \notin S}
<1>1. T \subseteq Nat /\ T # {}
  <2>1. MaxId + 1 \in T
    BY DEF Id
  <2>2. ASSUME NEW m \in T PROVE m \in Nat
    OBVIOUS
  <2> HIDE DEF T
  <2> QED
    BY <2>1, <2>2
<1>2. PICK x \in T : \A y \in T : x <= y
  <2> HIDE DEF T
  <2> QED
    BY <1>1, LeastNat
<1>3. (n + 1)..x \subseteq S
  <2>1. SUFFICES ASSUME NEW j \in (n + 1)..x, j \notin S PROVE FALSE
    OBVIOUS
  <2>2. j - 1 \in T
    BY <2>1, <1>2
  <2> QED
    BY <1>2, <2>2
<1>4. \E m \in n..(MaxId + 1) : (n + 1)..m \subseteq S /\ m + 1 \notin S
  BY <1>2, <1>3
<1> QED
  BY <1>4 DEF Advance

\* The largest id of an Ack.
LEMMA MaxProp ==
    ASSUME NEW S \in SUBSET Id
    PROVE  Max(S \union {0}) \in S \union {0}
<1> USE MaxIdAssumption
<1> DEFINE U == S \union {0}
           T == {MaxId - x : x \in U}
<1>1. T \subseteq Nat /\ T # {}
  <2>1. MaxId - 0 \in T
    OBVIOUS
  <2>2. ASSUME NEW m \in T PROVE m \in Nat
    BY DEF Id
  <2> HIDE DEF T
  <2> QED
    BY <2>1, <2>2
<1>2. PICK t \in T : \A y \in T : t <= y
  <2> HIDE DEF T
  <2> QED
    BY <1>1, LeastNat
<1>3. PICK x \in U : t = MaxId - x
  BY <1>2
<1>4. ASSUME NEW y \in U PROVE x >= y
  <2>1. MaxId - x <= MaxId - y
    BY <1>2, <1>3
  <2> QED
    BY <2>1, <1>3 DEF Id
<1>5. \E m \in U : \A y \in U : m >= y
  BY <1>3, <1>4
<1> QED
  BY <1>5 DEF Max

\* AckWaitList::pop finds an entry: the last one of the list is no repetition.
LEMMA PopIndexProp ==
    ASSUME NEW q \in Seq(Id), q # <<>>
    PROVE  /\ PopIndex(q) \in DOMAIN q
           /\ \A i \in 1..(PopIndex(q) - 1) : \E j \in DOMAIN q : j > i /\ q[j] = q[i]
<1> DEFINE K == {k \in DOMAIN q : \A j \in DOMAIN q : j > k => q[j] # q[k]}
<1>0. Len(q) \in Nat /\ DOMAIN q = 1..Len(q) /\ Len(q) # 0
  OBVIOUS
<1>1. Len(q) \in K
  BY <1>0
<1>2. \A k \in K : k \in Nat
  BY <1>0
<1>3. PICK k \in K : \A y \in K : k <= y
  <2> HIDE DEF K
  <2> QED
    BY <1>1, <1>2, LeastNat
<1>4. ASSUME NEW i \in 1..(k - 1) PROVE \E j \in DOMAIN q : j > i /\ q[j] = q[i]
  <2>1. i \in DOMAIN q /\ i < k
    BY <1>0, <1>3
  <2>2. i \notin K
    BY <2>1, <1>3, <1>2
  <2> QED
    BY <2>1, <2>2
<1> QED
  BY <1>3, <1>4 DEF PopIndex

LEMMA PeerProp ==
    /\ \A e \in Endpoint : Peer(e) \in Endpoint /\ Peer(e) # e /\ Peer(Peer(e)) = e
    /\ \A e, f \in Endpoint : f = e \/ f = Peer(e)
  BY EndpointAssumption DEF Peer, Endpoint

-----------------------------------------------------------------------------
(***************************************************************************)
(* Type correctness.  Ids stay in their range because a batch never goes    *)
(* beyond Supply and a fast resend never beyond the id that set it off.     *)
(***************************************************************************)
BatchBound == \A e \in Endpoint : send_id[e] + seg_left[e] <= Supply[e] + 1

FastBound == \A e \in Endpoint : fast_to[e] = 0 \/ resend_now[e] < fast_to[e]

TypeInv == TypeOK /\ BatchBound /\ FastBound

LEMMA InitTypeInv == Init => TypeInv
<1> SUFFICES ASSUME Init PROVE TypeInv
  OBVIOUS
<1> USE MaxIdAssumption, LimitAssumption, SupplyAssumption, StaleIdsAssumption DEF Init
<1>1. TypeOK
  <2>1. PoolTypeOK
    BY DEF PoolTypeOK
  <2>2. AckTypeOK
    BY DEF AckTypeOK
  <2>3. WaitTypeOK
    BY DEF WaitTypeOK
  <2>4. RecvTypeOK
    BY DEF RecvTypeOK
  <2>5. ListTypeOK /\ NetTypeOK
    BY DEF ListTypeOK, NetTypeOK
  <2> QED
    BY <2>1, <2>2, <2>3, <2>4, <2>5 DEF TypeOK
<1>2. BatchBound
  BY DEF BatchBound
<1>3. FastBound
  BY DEF FastBound
<1> QED
  BY <1>1, <1>2, <1>3 DEF TypeInv

\* What an action leaves alone keeps its type.
LEMMA UnchangedTypes ==
    /\ PoolTypeOK /\ UNCHANGED poolVars => PoolTypeOK'
    /\ AckTypeOK /\ UNCHANGED ackVars => AckTypeOK'
    /\ WaitTypeOK /\ UNCHANGED waitVars => WaitTypeOK'
    /\ RecvTypeOK /\ UNCHANGED recvVars => RecvTypeOK'
    /\ ListTypeOK /\ UNCHANGED listVars => ListTypeOK'
    /\ NetTypeOK /\ UNCHANGED netVars => NetTypeOK'
<1>1. PoolTypeOK /\ UNCHANGED poolVars => PoolTypeOK'
  BY DEF PoolTypeOK, poolVars
<1>2. AckTypeOK /\ UNCHANGED ackVars => AckTypeOK'
  BY DEF AckTypeOK, ackVars
<1>3. WaitTypeOK /\ UNCHANGED waitVars => WaitTypeOK'
  BY DEF WaitTypeOK, waitVars
<1>4. RecvTypeOK /\ UNCHANGED recvVars => RecvTypeOK'
  BY DEF RecvTypeOK, recvVars
<1>5. ListTypeOK /\ UNCHANGED listVars => ListTypeOK'
  BY DEF ListTypeOK, listVars
<1>6. NetTypeOK /\ UNCHANGED netVars => NetTypeOK'
  BY DEF NetTypeOK, netVars
<1> QED
  BY <1>1, <1>2, <1>3, <1>4, <1>5, <1>6

LEMMA TakeSegmentsType ==
    ASSUME TypeInv, NEW e \in Endpoint, TakeSegments(e)
    PROVE  TypeInv'
<1> USE MaxIdAssumption, LimitAssumption, SupplyAssumption
<1>1. PICK n \in 1..MaxBatch :
        /\ send_id[e] + n - 1 <= Supply[e]
        /\ seg_left' = [seg_left EXCEPT ![e] = n]
  BY DEF TakeSegments
<1>2. UNCHANGED <<send_id, poolVars, ackVars, waitVars, recvVars, listVars, netVars>>
  BY DEF TakeSegments
<1>3. send_id' \in [Endpoint -> 1..(MaxId + 1)] /\ seg_left' \in [Endpoint -> 0..MaxBatch]
  BY <1>1, <1>2 DEF TypeInv, TypeOK
<1>4. TypeOK'
  BY <1>2, <1>3, UnchangedTypes DEF TypeInv, TypeOK
<1>5. BatchBound'
  BY <1>1, <1>2 DEF TypeInv, TypeOK, BatchBound
<1>6. FastBound'
  BY <1>2 DEF TypeInv, FastBound, ackVars
<1> QED
  BY <1>4, <1>5, <1>6 DEF TypeInv

LEMMA PushPackageType ==
    ASSUME TypeInv, NEW e \in Endpoint, PushPackage(e)
    PROVE  TypeInv'
<1> USE MaxIdAssumption, LimitAssumption, SupplyAssumption
<1>1. send_id[e] \in Id /\ send_id[e] + 1 \in 1..(MaxId + 1)
  <2>1. send_id[e] + seg_left[e] <= Supply[e] + 1 /\ seg_left[e] > 0
    BY DEF TypeInv, BatchBound, PushPackage
  <2> QED
    BY <2>1 DEF TypeInv, TypeOK, Id
<1>2. send_id' \in [Endpoint -> 1..(MaxId + 1)] /\ seg_left' \in [Endpoint -> 0..MaxBatch]
  BY <1>1 DEF TypeInv, TypeOK, PushPackage
<1>3. PoolTypeOK'
  BY <1>1 DEF TypeInv, TypeOK, PoolTypeOK, PushPackage
<1>4. UNCHANGED <<ackVars, waitVars, recvVars, listVars, netVars>>
  BY DEF PushPackage
<1>5. TypeOK'
  BY <1>2, <1>3, <1>4, UnchangedTypes DEF TypeInv, TypeOK
<1>6. BatchBound'
  BY DEF TypeInv, TypeOK, BatchBound, PushPackage
<1>7. FastBound'
  BY <1>4 DEF TypeInv, FastBound, ackVars
<1> QED
  BY <1>5, <1>6, <1>7 DEF TypeInv

\* Queues of ids.
LEMMA QueueType ==
    ASSUME NEW q \in [Endpoint -> Seq(Id)], NEW e \in Endpoint
    PROVE  /\ q[e] # <<>> => [q EXCEPT ![e] = Tail(q[e])] \in [Endpoint -> Seq(Id)]
           /\ \A i \in Id : [q EXCEPT ![e] = Append(q[e], i)] \in [Endpoint -> Seq(Id)]
<1>1. q[e] \in Seq(Id)
  OBVIOUS
<1>2. q[e] # <<>> => Tail(q[e]) \in Seq(Id)
  BY <1>1
<1>3. \A i \in Id : Append(q[e], i) \in Seq(Id)
  BY <1>1
<1> QED
  BY <1>2, <1>3

\* Counters kept per package.
LEMMA CountType ==
    ASSUME NEW S, NEW f \in [Endpoint -> [Id -> S]], NEW e \in Endpoint, NEW i \in Id,
           NEW v \in S
    PROVE  [f EXCEPT ![e][i] = v] \in [Endpoint -> [Id -> S]]
  OBVIOUS

\* The two bounds rest on variables most actions leave alone.
LEMMA UnchangedBounds ==
    /\ BatchBound /\ UNCHANGED <<send_id, seg_left>> => BatchBound'
    /\ FastBound /\ UNCHANGED <<resend_now, fast_to>> => FastBound'
  BY DEF BatchBound, FastBound

LEMMA SendPackageType ==
    ASSUME TypeInv, NEW e \in Endpoint, SendPackage(e)
    PROVE  TypeInv'
<1> DEFINE again == resend_queue[e] # <<>>
           i == IF again THEN Head(resend_queue[e]) ELSE Head(queue[e])
<1>1. resend_queue[e] \in Seq(Id) /\ queue[e] \in Seq(Id) /\ recv_ack_id[e] \in 0..(MaxId + 1)
  BY DEF TypeInv, TypeOK, PoolTypeOK, RecvTypeOK
<1>2. i \in Id
  BY <1>1 DEF SendPackage
<1>3. /\ \/ resend_queue' = resend_queue
         \/ resend_queue[e] # <<>> /\ resend_queue' = [resend_queue EXCEPT ![e] = Tail(resend_queue[e])]
      /\ \/ queue' = queue
         \/ queue[e] # <<>> /\ queue' = [queue EXCEPT ![e] = Tail(queue[e])]
  BY DEF SendPackage
<1>4. /\ send_count' \in {send_count, [send_count EXCEPT ![e][i] = send_count[e][i] + 1]}
      /\ net' \in {net, net \union {Data(e, i, recv_ack_id[e])}}
      /\ ack_pool' \in {ack_pool, [ack_pool EXCEPT ![e] = Append(ack_pool[e], i)]}
  BY DEF SendPackage
<1>5. UNCHANGED <<send_id, seg_left, live, ref, ackVars, send_from, watched, dropped, recvVars,
                  listVars, lost>>
  BY DEF SendPackage
<1> HIDE DEF i, again
<1>6. PoolTypeOK'
  <2>1. PoolTypeOK
    BY DEF TypeInv, TypeOK
  <2>2. resend_queue' \in [Endpoint -> Seq(Id)] /\ queue' \in [Endpoint -> Seq(Id)]
    <3>1. resend_queue \in [Endpoint -> Seq(Id)] /\ queue \in [Endpoint -> Seq(Id)]
      BY <2>1 DEF PoolTypeOK
    <3>2. resend_queue[e] # <<>> =>
            [resend_queue EXCEPT ![e] = Tail(resend_queue[e])] \in [Endpoint -> Seq(Id)]
      BY <3>1, QueueType
    <3>3. queue[e] # <<>> => [queue EXCEPT ![e] = Tail(queue[e])] \in [Endpoint -> Seq(Id)]
      BY <3>1, QueueType
    <3> QED
      BY <1>3, <3>1, <3>2, <3>3, Zenon
  <2>3. send_count[e][i] + 1 \in Nat
    BY <1>2, <2>1 DEF PoolTypeOK
  <2>4. send_count' \in [Endpoint -> [Id -> Nat]]
    <3>1. [send_count EXCEPT ![e][i] = send_count[e][i] + 1] \in [Endpoint -> [Id -> Nat]]
      BY <1>2, <2>1, <2>3, CountType DEF PoolTypeOK
    <3> QED
      BY <1>4, <2>1, <3>1, Zenon DEF PoolTypeOK
  <2> QED
    BY <1>5, <2>1, <2>2, <2>4 DEF PoolTypeOK
<1>7. WaitTypeOK'
  <2>1. WaitTypeOK
    BY DEF TypeInv, TypeOK
  <2>2. [ack_pool EXCEPT ![e] = Append(ack_pool[e], i)] \in [Endpoint -> Seq(Id)]
    BY <1>2, <2>1, QueueType DEF WaitTypeOK
  <2>3. ack_pool' \in [Endpoint -> Seq(Id)]
    BY <1>4, <2>1, <2>2, Zenon DEF WaitTypeOK
  <2> QED
    BY <1>5, <2>1, <2>3 DEF WaitTypeOK
<1>8. NetTypeOK'
  <2>1. Data(e, i, recv_ack_id[e]) \in DataMsg
    BY <1>1, <1>2, PeerProp DEF Data, DataMsg
  <2> QED
    BY <1>4, <1>5, <2>1 DEF TypeInv, TypeOK, NetTypeOK
<1>9. TypeOK'
  BY <1>5, <1>6, <1>7, <1>8, UnchangedTypes DEF TypeInv, TypeOK
<1> QED
  BY <1>5, <1>9, UnchangedBounds DEF TypeInv, ackVars

LEMMA TakeAcksType ==
    ASSUME TypeInv, NEW e \in Endpoint, TakeAcks(e)
    PROVE  TypeInv'
<1>1. ListTypeOK'
  BY DEF TypeInv, TypeOK, ListTypeOK, TakeAcks
<1>2. UNCHANGED <<send_id, seg_left, poolVars, ackVars, waitVars, recvVars, netVars>>
  BY DEF TakeAcks
<1>3. TypeOK'
  BY <1>1, <1>2, UnchangedTypes DEF TypeInv, TypeOK
<1> QED
  BY <1>2, <1>3, UnchangedBounds DEF TypeInv, ackVars

LEMMA SendAckType ==
    ASSUME TypeInv, NEW e \in Endpoint, SendAck(e)
    PROVE  TypeInv'
<1> DEFINE una == AckUna(e)
           new == {i \in ack_read_list[e] : i > una}
<1>1. PICK ids \in SUBSET new :
        /\ net' = net \union {Ack(e, una, send_from[e], ids)}
        /\ ack_read_list' = [ack_read_list EXCEPT ![e] = new \ ids]
  BY DEF SendAck
<1>2. new \in SUBSET Id /\ una \in 0..(MaxId + 1) /\ send_from[e] \in 0..(MaxId + 1)
  BY DEF TypeInv, TypeOK, ListTypeOK, RecvTypeOK, WaitTypeOK, AckUna
<1>3. UNCHANGED <<send_id, seg_left, poolVars, ackVars, waitVars, recvVars, ack_send_queue, lost>>
  BY DEF SendAck
<1> HIDE DEF una, new
<1>4. ListTypeOK'
  BY <1>1, <1>2, <1>3 DEF TypeInv, TypeOK, ListTypeOK
<1>5. NetTypeOK'
  <2>1. Ack(e, una, send_from[e], ids) \in AckMsg
    BY <1>1, <1>2, PeerProp DEF Ack, AckMsg
  <2> QED
    BY <1>1, <1>3, <2>1 DEF TypeInv, TypeOK, NetTypeOK
<1>6. TypeOK'
  BY <1>3, <1>4, <1>5, UnchangedTypes DEF TypeInv, TypeOK
<1> QED
  BY <1>3, <1>6, UnchangedBounds DEF TypeInv, ackVars

LEMMA EraseType ==
    ASSUME PoolTypeOK, NEW e \in Endpoint, NEW i, Erase(e, i)
    PROVE  live' \in [Endpoint -> SUBSET Id] /\ ref' \in [Endpoint -> [Id -> Int]]
<1>1. CASE i \in live[e]
  <2>1. i \in Id
    BY <1>1 DEF PoolTypeOK
  <2>2. live' \in [Endpoint -> SUBSET Id]
    <3> DEFINE left == IF ref[e][i] > 1 THEN live[e] ELSE live[e] \ {i}
    <3>1. live' = [live EXCEPT ![e] = left]
      BY <1>1 DEF Erase
    <3>2. live \in [Endpoint -> SUBSET Id]
      BY DEF PoolTypeOK
    <3>3. left \in SUBSET Id
      BY <3>2
    <3> HIDE DEF left
    <3> QED
      BY <3>1, <3>2, <3>3
  <2>3. ref[e][i] - 1 \in Int
    BY <2>1 DEF PoolTypeOK
  <2>4. ref' = [ref EXCEPT ![e][i] = ref[e][i] - 1]
    BY <1>1 DEF Erase
  <2>5. ref' \in [Endpoint -> [Id -> Int]]
    BY <2>1, <2>3, <2>4, CountType DEF PoolTypeOK
  <2> QED
    BY <2>2, <2>5
<1>2. CASE i \notin live[e]
  BY <1>2 DEF PoolTypeOK, Erase
<1> QED
  BY <1>1, <1>2

LEMMA WatchPackageType ==
    ASSUME TypeInv, NEW e \in Endpoint, WatchPackage(e)
    PROVE  TypeInv'
<1> USE MaxIdAssumption
<1> DEFINE k == PopIndex(ack_pool[e])
           i == ack_pool[e][k]
<1>1. ack_pool[e] \in Seq(Id) /\ ack_pool[e] # <<>>
  BY DEF TypeInv, TypeOK, WaitTypeOK, WatchPackage
<1>2. k \in DOMAIN ack_pool[e]
  BY <1>1, PopIndexProp
<1>3. i \in Id
  BY <1>1, <1>2
<1>4. ack_pool' \in [Endpoint -> Seq(Id)]
  <2>1. SubSeq(ack_pool[e], k + 1, Len(ack_pool[e])) \in Seq(Id)
    <3> HIDE DEF k
    <3> QED
      BY <1>1, <1>2
  <2>2. ack_pool' = [ack_pool EXCEPT ![e] = SubSeq(@, k + 1, Len(@))]
    BY DEF WatchPackage
  <2> HIDE DEF k
  <2> QED
    BY <2>1, <2>2 DEF TypeInv, TypeOK, WaitTypeOK
<1>5. UNCHANGED <<send_id, seg_left, queue, resend_queue, send_count, ackVars, recvVars,
                  listVars, netVars>>
  BY DEF WatchPackage
<1>6. ASSUME Erase(e, i),
             send_from' = [send_from EXCEPT ![e] = SendFromAfter(i, @)] \/ send_from' = send_from,
             dropped' = [dropped EXCEPT ![e] = @ \union {i}] \/ dropped' = dropped,
             UNCHANGED watched
      PROVE  TypeInv'
  <2> HIDE DEF k, i
  <2>1. PoolTypeOK'
    BY <1>5, <1>6, EraseType DEF TypeInv, TypeOK, PoolTypeOK
  <2>2. SendFromAfter(i, send_from[e]) \in 0..(MaxId + 1)
    BY <1>3 DEF TypeInv, TypeOK, WaitTypeOK, SendFromAfter, Id
  <2>3. WaitTypeOK'
    BY <1>3, <1>4, <1>6, <2>2 DEF TypeInv, TypeOK, WaitTypeOK
  <2>4. TypeOK'
    BY <1>5, <2>1, <2>3, UnchangedTypes DEF TypeInv, TypeOK
  <2> QED
    BY <1>5, <2>4, UnchangedBounds DEF TypeInv, ackVars
<1>7. ASSUME watched' = [watched EXCEPT ![e] = i],
             UNCHANGED <<live, ref, send_from, dropped>>
      PROVE  TypeInv'
  <2> HIDE DEF k, i
  <2>1. UNCHANGED poolVars
    BY <1>5, <1>7 DEF poolVars
  <2>2. WaitTypeOK'
    BY <1>3, <1>4, <1>7 DEF TypeInv, TypeOK, WaitTypeOK
  <2>3. TypeOK'
    BY <1>5, <2>1, <2>2, UnchangedTypes DEF TypeInv, TypeOK
  <2> QED
    BY <1>5, <2>3, UnchangedBounds DEF TypeInv, ackVars
<1>8. \/ /\ Erase(e, i)
         /\ send_from' = [send_from EXCEPT ![e] = SendFromAfter(i, @)] \/ send_from' = send_from
         /\ dropped' = [dropped EXCEPT ![e] = @ \union {i}] \/ dropped' = dropped
         /\ UNCHANGED watched
      \/ /\ watched' = [watched EXCEPT ![e] = i]
         /\ UNCHANGED <<live, ref, send_from, dropped>>
  BY Zenon DEF WatchPackage
<1> QED
  BY <1>6, <1>7, <1>8

LEMMA ReleasePackageType ==
    ASSUME TypeInv, NEW e \in Endpoint, ReleasePackage(e)
    PROVE  TypeInv'
<1>1. UNCHANGED <<send_id, seg_left, queue, resend_queue, send_count, ackVars, send_from,
                  ack_pool, dropped, recvVars, listVars, netVars>>
  BY DEF ReleasePackage
<1>2. PoolTypeOK'
  BY <1>1, EraseType DEF TypeInv, TypeOK, PoolTypeOK, ReleasePackage
<1>3. WaitTypeOK'
  BY DEF TypeInv, TypeOK, WaitTypeOK, ReleasePackage
<1>4. TypeOK'
  BY <1>1, <1>2, <1>3, UnchangedTypes DEF TypeInv, TypeOK
<1> QED
  BY <1>1, <1>4, UnchangedBounds DEF TypeInv, ackVars

LEMMA ResendPackageType ==
    ASSUME TypeInv, NEW e \in Endpoint, ResendPackage(e)
    PROVE  TypeInv'
<1>1. UNCHANGED <<send_id, seg_left, queue, live, send_count, ackVars, send_from,
                  ack_pool, dropped, recvVars, listVars, netVars>>
  BY DEF ResendPackage
<1>2. watched[e] \in Id
  BY DEF TypeInv, TypeOK, WaitTypeOK, ResendPackage
<1>3. PoolTypeOK'
  BY <1>2 DEF TypeInv, TypeOK, PoolTypeOK, ResendPackage
<1>4. WaitTypeOK'
  BY DEF TypeInv, TypeOK, WaitTypeOK, ResendPackage
<1>5. TypeOK'
  BY <1>1, <1>3, <1>4, UnchangedTypes DEF TypeInv, TypeOK
<1> QED
  BY <1>1, <1>5, UnchangedBounds DEF TypeInv, ackVars

LEMMA RecvDataType ==
    ASSUME TypeInv, NEW m \in net, RecvData(m.to, m)
    PROVE  TypeInv'
<1> DEFINE e == m.to
           pool == IF IsNew(e, m.id) THEN recv_pool[e] \union {m.id} ELSE recv_pool[e]
<1> USE MaxIdAssumption
<1>1. m.type = "Data" /\ m \in DataMsg
  BY DEF RecvData, TypeInv, TypeOK, NetTypeOK, DataMsg, AckMsg
<1>2. e \in Endpoint /\ m.id \in Id /\ m.una \in 0..(MaxId + 1)
  BY <1>1 DEF DataMsg
<1>3. /\ recv_pool' = [recv_pool EXCEPT ![e] = pool]
      /\ recv_ack_id' = [recv_ack_id EXCEPT ![e] = Advance(pool, recv_ack_id[e])]
      /\ arrived' = [arrived EXCEPT ![e] = @ \union {m.id}]
      /\ ack_send_queue' = [ack_send_queue EXCEPT ![e] = @ \union {m.id}]
      /\ send_ack_id' = [send_ack_id EXCEPT
                           ![e] = Advance(ack_recv_pool[e], MAX(send_ack_id[e], m.una))]
  BY DEF RecvData
<1>4. UNCHANGED <<send_id, seg_left, poolVars, ack_recv_pool, resend_now, fast_to, waitVars,
                  recv_id, delivered, ack_read_list, netVars>>
  BY DEF RecvData
<1>5. pool \in SUBSET Id /\ recv_ack_id[e] \in 0..(MaxId + 1)
  BY <1>2 DEF TypeInv, TypeOK, RecvTypeOK
<1>6. ack_recv_pool[e] \in SUBSET Id /\ MAX(send_ack_id[e], m.una) \in 0..(MaxId + 1)
  BY <1>2 DEF TypeInv, TypeOK, AckTypeOK, MAX
<1> HIDE DEF e, pool
<1>7. Advance(pool, recv_ack_id[e]) \in 0..(MaxId + 1)
  <2>1. Advance(pool, recv_ack_id[e]) \in recv_ack_id[e]..(MaxId + 1)
    BY <1>5, AdvanceProp, Zenon
  <2> QED
    BY <1>5, <2>1
<1>8. Advance(ack_recv_pool[e], MAX(send_ack_id[e], m.una)) \in 0..(MaxId + 1)
  BY <1>6, AdvanceProp
<1>9. RecvTypeOK'
  <2>1. recv_ack_id' \in [Endpoint -> 0..(MaxId + 1)]
    BY <1>3, <1>7 DEF TypeInv, TypeOK, RecvTypeOK
  <2>2. recv_pool' \in [Endpoint -> SUBSET Id] /\ arrived' \in [Endpoint -> SUBSET Id]
    BY <1>2, <1>3, <1>5 DEF TypeInv, TypeOK, RecvTypeOK
  <2> QED
    BY <1>4, <2>1, <2>2 DEF TypeInv, TypeOK, RecvTypeOK
<1>10. AckTypeOK'
  BY <1>3, <1>4, <1>8 DEF TypeInv, TypeOK, AckTypeOK
<1>11. ListTypeOK'
  BY <1>2, <1>3, <1>4 DEF TypeInv, TypeOK, ListTypeOK
<1>12. TypeOK'
  BY <1>4, <1>9, <1>10, <1>11, UnchangedTypes DEF TypeInv, TypeOK
<1> QED
  BY <1>4, <1>12, UnchangedBounds DEF TypeInv

LEMMA RecvAckType ==
    ASSUME TypeInv, NEW m \in net, RecvAck(m.to, m)
    PROVE  TypeInv'
<1> DEFINE e == m.to
           una == IF m.una > send_id[e] THEN 0 ELSE m.una
           ids == {i \in m.ids : send_ack_id[e] < i /\ i <= send_id[e]}
           pool == ack_recv_pool[e] \union ids
           acked == Advance(pool, MAX(una, send_ack_id[e]))
           now == MAX(resend_now[e], acked)
           top == Max(ids \union {0})
<1> USE MaxIdAssumption
<1>1. m.type = "Ack" /\ m \in AckMsg
  BY DEF RecvAck, TypeInv, TypeOK, NetTypeOK, DataMsg, AckMsg
<1>2. /\ e \in Endpoint /\ m.una \in 0..(MaxId + 1) /\ m.send_from \in 0..(MaxId + 1)
      /\ m.ids \in SUBSET Id
  BY <1>1 DEF AckMsg
<1>3. /\ recv_ack_id' = [recv_ack_id EXCEPT ![e] = RecvAckIdAfter(e, m)]
      /\ ack_recv_pool' = [ack_recv_pool EXCEPT ![e] = pool]
      /\ send_ack_id' = [send_ack_id EXCEPT ![e] = acked]
      /\ resend_now' = [resend_now EXCEPT ![e] = now]
      /\ fast_to' = [fast_to EXCEPT ![e] = IF top > now + 2 THEN top ELSE 0]
  BY DEF RecvAck
<1>4. UNCHANGED <<send_id, seg_left, poolVars, waitVars, recv_pool, recv_id, delivered, arrived,
                  listVars, netVars>>
  BY DEF RecvAck
<1>5. ids \in SUBSET Id /\ pool \in SUBSET Id
  BY <1>2 DEF TypeInv, TypeOK, AckTypeOK
<1>6. MAX(una, send_ack_id[e]) \in 0..(MaxId + 1)
  BY <1>2 DEF TypeInv, TypeOK, AckTypeOK, MAX
<1>7. RecvAckIdAfter(e, m) \in 0..(MaxId + 1)
  BY <1>2 DEF TypeInv, TypeOK, RecvTypeOK, MAX, RecvAckIdAfter
<1> HIDE DEF e, una, ids, pool
<1>8. acked \in 0..(MaxId + 1)
  BY <1>5, <1>6, AdvanceProp
<1>9. top \in Id \union {0}
  BY <1>5, MaxProp
<1> HIDE DEF acked, top
<1>10. now \in 0..(MaxId + 1)
  BY <1>2, <1>8 DEF TypeInv, TypeOK, AckTypeOK, MAX
<1> HIDE DEF now
<1>11. AckTypeOK'
  <2>1. send_ack_id' \in [Endpoint -> 0..(MaxId + 1)]
    BY <1>3, <1>8 DEF TypeInv, TypeOK, AckTypeOK
  <2>2. ack_recv_pool' \in [Endpoint -> SUBSET Id]
    BY <1>3, <1>5 DEF TypeInv, TypeOK, AckTypeOK
  <2>3. resend_now' \in [Endpoint -> 0..(MaxId + 1)]
    BY <1>3, <1>10 DEF TypeInv, TypeOK, AckTypeOK
  <2>4. fast_to' \in [Endpoint -> Id \union {0}]
    BY <1>3, <1>9 DEF TypeInv, TypeOK, AckTypeOK
  <2> QED
    BY <2>1, <2>2, <2>3, <2>4 DEF AckTypeOK
<1>12. RecvTypeOK'
  BY <1>3, <1>4, <1>7 DEF TypeInv, TypeOK, RecvTypeOK
<1>13. TypeOK'
  BY <1>4, <1>11, <1>12, UnchangedTypes DEF TypeInv, TypeOK
<1>14. FastBound'
  BY <1>2, <1>3, <1>9, <1>10 DEF TypeInv, TypeOK, AckTypeOK, FastBound, Id
<1> QED
  BY <1>4, <1>13, <1>14, UnchangedBounds DEF TypeInv

LEMMA FastResendType ==
    ASSUME TypeInv, NEW e \in Endpoint, FastResend(e)
    PROVE  TypeInv'
<1> DEFINE i == resend_now[e] + 1
<1> USE MaxIdAssumption
<1>1. i \in Id /\ i <= fast_to[e]
  BY DEF TypeInv, TypeOK, AckTypeOK, FastBound, FastResend, Id
<1>2. /\ resend_now' = [resend_now EXCEPT ![e] = i]
      /\ fast_to' = [fast_to EXCEPT ![e] = IF i < fast_to[e] THEN fast_to[e] ELSE 0]
      /\ resend_queue' \in {resend_queue,
                            [resend_queue EXCEPT ![e] = Append(resend_queue[e], i)]}
      /\ ref' \in {ref, [ref EXCEPT ![e][i] = ref[e][i] + 1]}
  BY DEF FastResend
<1>3. UNCHANGED <<send_id, seg_left, queue, live, send_count, send_ack_id, ack_recv_pool, waitVars,
                  recvVars, listVars, netVars>>
  BY DEF FastResend
<1> HIDE DEF i
<1>4. PoolTypeOK'
  <2>1. PoolTypeOK
    BY DEF TypeInv, TypeOK
  <2>2. ref[e][i] + 1 \in Int
    BY <1>1, <2>1 DEF PoolTypeOK
  <2>3. [ref EXCEPT ![e][i] = ref[e][i] + 1] \in [Endpoint -> [Id -> Int]]
    BY <1>1, <2>1, <2>2, CountType DEF PoolTypeOK
  <2>4. [resend_queue EXCEPT ![e] = Append(resend_queue[e], i)] \in [Endpoint -> Seq(Id)]
    BY <1>1, <2>1, QueueType DEF PoolTypeOK
  <2>5. ref' \in [Endpoint -> [Id -> Int]] /\ resend_queue' \in [Endpoint -> Seq(Id)]
    BY <1>2, <2>1, <2>3, <2>4, Zenon DEF PoolTypeOK
  <2> QED
    BY <1>3, <2>1, <2>5 DEF PoolTypeOK
<1>5. AckTypeOK'
  BY <1>1, <1>2, <1>3 DEF TypeInv, TypeOK, AckTypeOK, Id
<1>6. FastBound'
  BY <1>1, <1>2 DEF TypeInv, TypeOK, AckTypeOK, FastBound, Id
<1>7. TypeOK'
  BY <1>3, <1>4, <1>5, UnchangedTypes DEF TypeInv, TypeOK
<1> QED
  BY <1>3, <1>6, <1>7, UnchangedBounds DEF TypeInv

LEMMA RecvPackageType ==
    ASSUME TypeInv, NEW e \in Endpoint, RecvPackage(e)
    PROVE  TypeInv'
<1> USE MaxIdAssumption
<1>1. PICK i \in recv_pool[e] :
        /\ recv_id' = [recv_id EXCEPT ![e] = i + 1]
        /\ delivered' = [delivered EXCEPT ![e] = Append(delivered[e], i)]
        /\ recv_pool' = [recv_pool EXCEPT ![e] = @ \ {i}]
        /\ UNCHANGED <<send_id, seg_left, poolVars, ackVars, waitVars, recv_ack_id, arrived,
                       listVars, netVars>>
  BY DEF RecvPackage
<1>2. i \in Id
  BY <1>1 DEF TypeInv, TypeOK, RecvTypeOK
<1>3. RecvTypeOK'
  <2>1. RecvTypeOK
    BY DEF TypeInv, TypeOK
  <2>2. delivered' \in [Endpoint -> Seq(Id)]
    BY <1>1, <1>2, <2>1, QueueType DEF RecvTypeOK
  <2>3. recv_id' \in [Endpoint -> 1..(MaxId + 1)]
    BY <1>1, <1>2, <2>1 DEF RecvTypeOK, Id
  <2>4. recv_pool' \in [Endpoint -> SUBSET Id]
    BY <1>1, <2>1 DEF RecvTypeOK
  <2> QED
    BY <1>1, <2>1, <2>2, <2>3, <2>4 DEF RecvTypeOK
<1>4. TypeOK'
  BY <1>1, <1>3, UnchangedTypes DEF TypeInv, TypeOK
<1> QED
  BY <1>1, <1>4, UnchangedBounds DEF TypeInv, ackVars

LEMMA SkipDroppedType ==
    ASSUME TypeInv, NEW e \in Endpoint, SkipDropped(e)
    PROVE  TypeInv'
<1>1. UNCHANGED <<send_id, seg_left, poolVars, ackVars, waitVars, listVars, netVars>>
  BY DEF SkipDropped
<1>2. RecvTypeOK'
  BY MaxIdAssumption DEF TypeInv, TypeOK, RecvTypeOK, SkipDropped
<1>3. TypeOK'
  BY <1>1, <1>2, UnchangedTypes DEF TypeInv, TypeOK
<1> QED
  BY <1>1, <1>3, UnchangedBounds DEF TypeInv, ackVars

LEMMA LoseType ==
    ASSUME TypeInv, NEW m \in net, Lose(m)
    PROVE  TypeInv'
<1>1. UNCHANGED <<send_id, seg_left, poolVars, ackVars, waitVars, recvVars, listVars>>
  BY DEF Lose
<1>2. NetTypeOK'
  BY LimitAssumption DEF TypeInv, TypeOK, NetTypeOK, Lose
<1>3. TypeOK'
  BY <1>1, <1>2, UnchangedTypes DEF TypeInv, TypeOK
<1> QED
  BY <1>1, <1>3, UnchangedBounds DEF TypeInv, ackVars

LEMMA NextTypeInv == TypeInv /\ [Next]_vars => TypeInv'
<1> SUFFICES ASSUME TypeInv, [Next]_vars PROVE TypeInv'
  OBVIOUS
<1>1. CASE \E e \in Endpoint :
             \/ TakeSegments(e) \/ PushPackage(e) \/ SendPackage(e) \/ TakeAcks(e)
             \/ SendAck(e) \/ WatchPackage(e) \/ ReleasePackage(e) \/ ResendPackage(e)
             \/ FastResend(e) \/ RecvPackage(e) \/ SkipDropped(e)
  BY <1>1, TakeSegmentsType, PushPackageType, SendPackageType, TakeAcksType, SendAckType,
     WatchPackageType, ReleasePackageType, ResendPackageType, FastResendType, RecvPackageType,
     SkipDroppedType
<1>2. CASE \E m \in net : RecvData(m.to, m) \/ RecvAck(m.to, m) \/ Lose(m)
  BY <1>2, RecvDataType, RecvAckType, LoseType
<1>3. CASE UNCHANGED vars
  <2>1. UNCHANGED <<send_id, seg_left, poolVars, ackVars, waitVars, recvVars, listVars, netVars>>
    BY <1>3 DEF vars
  <2>2. TypeOK'
    BY <2>1, UnchangedTypes DEF TypeInv, TypeOK
  <2> QED
    BY <2>1, <2>2, UnchangedBounds DEF TypeInv, ackVars
<1> QED
  BY <1>1, <1>2, <1>3 DEF Next

\* Every reachable state of the two sockets is well typed: however datagrams are
\* lost, repeated and reordered, no id outside the packages that exist gets into
\* a queue, a pool, a datagram or a counter.
THEOREM TypeCorrect == Spec => []TypeOK
<1>1. Init => TypeInv
  BY InitTypeInv
<1>2. TypeInv /\ [Next]_vars => TypeInv'
  BY NextTypeInv
<1>3. TypeInv => TypeOK
  BY DEF TypeInv
<1> QED
  BY <1>1, <1>2, <1>3, PTL DEF Spec

-----------------------------------------------------------------------------
(***************************************************************************)
(* The safety properties, and that Rudp implements Channel                  *)
(*                                                                         *)
(* The argument: a package is gone, from its sender's view, when it has     *)
(* reached the peer or lies below the announced send_from.  Whatever counts *)
(* as an acknowledgement, at the sender, in a datagram or at the receiver,  *)
(* covers only packages that are gone, and what is gone stays gone.         *)
(***************************************************************************)

(***************************************************************************)
(* Which actions write a variable                                           *)
(***************************************************************************)
LEMMA Writers ==
    ASSUME [Next]_vars
    PROVE  /\ \/ UNCHANGED send_id
              \/ \E e \in Endpoint : PushPackage(e)
           /\ \/ UNCHANGED live
              \/ \E e \in Endpoint : PushPackage(e) \/ WatchPackage(e) \/ ReleasePackage(e)
           /\ \/ UNCHANGED <<send_ack_id, ack_recv_pool>>
              \/ \E m \in net : RecvData(m.to, m) \/ RecvAck(m.to, m)
           /\ \/ UNCHANGED <<send_from, dropped>>
              \/ \E e \in Endpoint : WatchPackage(e)
           /\ \/ UNCHANGED <<ack_pool, send_from>>
              \/ \E e \in Endpoint : SendPackage(e) \/ WatchPackage(e)
           /\ \/ UNCHANGED recvVars
              \/ \E m \in net : RecvData(m.to, m) \/ RecvAck(m.to, m)
              \/ \E e \in Endpoint : RecvPackage(e) \/ SkipDropped(e)
           /\ \/ UNCHANGED listVars
              \/ \E m \in net : RecvData(m.to, m)
              \/ \E e \in Endpoint : TakeAcks(e) \/ SendAck(e)
           /\ \/ UNCHANGED net
              \/ \E e \in Endpoint : SendPackage(e) \/ SendAck(e)
              \/ \E m \in net : Lose(m)
           /\ \/ UNCHANGED <<send_id, seg_left>>
              \/ \E e \in Endpoint : TakeSegments(e) \/ PushPackage(e)
<1>0. \A e \in Endpoint :
        /\ TakeSegments(e) => UNCHANGED <<send_id, live, send_ack_id, ack_recv_pool,
              ack_pool, send_from, dropped, recvVars, listVars, net>>
        /\ PushPackage(e) => UNCHANGED <<send_ack_id, ack_recv_pool,
              ack_pool, send_from, dropped, recvVars, listVars, net>>
        /\ SendPackage(e) => UNCHANGED <<send_id, seg_left, live, send_ack_id, ack_recv_pool,
              send_from, dropped, recvVars, listVars>>
        /\ TakeAcks(e) => UNCHANGED <<send_id, seg_left, live, send_ack_id, ack_recv_pool,
              ack_pool, send_from, dropped, recvVars, net>>
        /\ SendAck(e) => UNCHANGED <<send_id, seg_left, live, send_ack_id, ack_recv_pool,
              ack_pool, send_from, dropped, recvVars>>
  BY DEF TakeSegments, PushPackage, SendPackage, TakeAcks, SendAck, poolVars, ackVars, waitVars,
         netVars
<1>1. \A e \in Endpoint :
        /\ WatchPackage(e) => UNCHANGED <<send_id, seg_left, send_ack_id, ack_recv_pool,
              recvVars, listVars, net>>
        /\ ReleasePackage(e) => UNCHANGED <<send_id, seg_left, send_ack_id, ack_recv_pool,
              ack_pool, send_from, dropped, recvVars, listVars, net>>
        /\ ResendPackage(e) => UNCHANGED <<send_id, seg_left, live, send_ack_id, ack_recv_pool,
              ack_pool, send_from, dropped, recvVars, listVars, net>>
        /\ FastResend(e) => UNCHANGED <<send_id, seg_left, live, send_ack_id, ack_recv_pool,
              ack_pool, send_from, dropped, recvVars, listVars, net>>
        /\ RecvPackage(e) => UNCHANGED <<send_id, seg_left, live, send_ack_id, ack_recv_pool,
              ack_pool, send_from, dropped, listVars, net>>
        /\ SkipDropped(e) => UNCHANGED <<send_id, seg_left, live, send_ack_id, ack_recv_pool,
              ack_pool, send_from, dropped, listVars, net>>
  BY DEF WatchPackage, ReleasePackage, ResendPackage, FastResend, RecvPackage, SkipDropped,
         poolVars, ackVars, waitVars, netVars
<1>2. \A m \in net :
        /\ RecvData(m.to, m) => UNCHANGED <<send_id, seg_left, live, ack_pool, send_from, dropped, net>>
        /\ RecvAck(m.to, m) => UNCHANGED <<send_id, seg_left, live, ack_pool, send_from, dropped, listVars,
              net>>
        /\ Lose(m) => UNCHANGED <<send_id, seg_left, live, send_ack_id, ack_recv_pool, ack_pool, send_from,
              dropped, recvVars, listVars>>
  BY DEF RecvData, RecvAck, Lose, poolVars, ackVars, waitVars, netVars
<1>3. UNCHANGED vars => UNCHANGED <<send_id, seg_left, live, send_ack_id, ack_recv_pool,
                                    ack_pool, send_from, dropped, recvVars, listVars, net>>
  BY DEF vars, poolVars, ackVars, waitVars, netVars
<1> QED
  BY <1>0, <1>1, <1>2, <1>3, Zenon DEF Next

(***************************************************************************)
(* What the ackhandler and the receiver do to the acknowledgement state     *)
(***************************************************************************)
LEMMA WatchEffect ==
    ASSUME TypeInv, NEW e \in Endpoint, WatchPackage(e)
    PROVE  \/ UNCHANGED <<send_from, dropped>>
           \/ \E i \in Id, n \in send_from[e]..(MaxId + 1) :
                /\ send_from' = [send_from EXCEPT ![e] = n]
                /\ dropped' = [dropped EXCEPT ![e] = @ \union {i}]
<1> DEFINE i == ack_pool[e][PopIndex(ack_pool[e])]
<1>1. \/ UNCHANGED <<send_from, dropped>>
      \/ /\ send_from' = [send_from EXCEPT ![e] = SendFromAfter(i, send_from[e])]
         /\ dropped' = [dropped EXCEPT ![e] = @ \union {i}]
  BY DEF WatchPackage
<1>2. ack_pool[e] \in Seq(Id) /\ ack_pool[e] # <<>>
  BY DEF TypeInv, TypeOK, WaitTypeOK, WatchPackage
<1>3. i \in Id
  BY <1>2, PopIndexProp
<1> HIDE DEF i
<1>4. SendFromAfter(i, send_from[e]) \in send_from[e]..(MaxId + 1)
  BY <1>3, MaxIdAssumption DEF SendFromAfter, TypeInv, TypeOK, WaitTypeOK, Id
<1> QED
  BY <1>1, <1>3, <1>4

DataEffect(e, m, pool, una, acked) ==
    /\ \/ pool = recv_pool[e] \union {m.id}
       \/ pool = recv_pool[e] /\ m.id <= recv_ack_id[e]
    /\ recv_pool' = [recv_pool EXCEPT ![e] = pool]
    /\ una >= recv_ack_id[e]
    /\ (recv_ack_id[e] + 1)..una \subseteq pool
    /\ una + 1 \notin pool
    /\ recv_ack_id' = [recv_ack_id EXCEPT ![e] = una]
    /\ acked >= send_ack_id[e]
    /\ \A i \in 1..acked : i <= send_ack_id[e] \/ i <= m.una \/ i \in ack_recv_pool[e]
    /\ send_ack_id' = [send_ack_id EXCEPT ![e] = acked]
    /\ arrived' = [arrived EXCEPT ![e] = @ \union {m.id}]
    /\ ack_send_queue' = [ack_send_queue EXCEPT ![e] = @ \union {m.id}]

LEMMA RecvDataEffect ==
    ASSUME TypeInv, NEW m \in net, RecvData(m.to, m)
    PROVE  /\ m.type = "Data" /\ m.to \in Endpoint /\ m.id \in Id /\ m.una \in 0..(MaxId + 1)
           /\ \E pool \in SUBSET Id, una, acked \in 0..(MaxId + 1) :
                DataEffect(m.to, m, pool, una, acked)
           /\ UNCHANGED <<ack_recv_pool, recv_id, delivered, ack_read_list>>
<1> DEFINE e == m.to
           pool == IF IsNew(e, m.id) THEN recv_pool[e] \union {m.id} ELSE recv_pool[e]
           una == Advance(pool, recv_ack_id[e])
           n == MAX(send_ack_id[e], m.una)
           acked == Advance(ack_recv_pool[e], n)
<1> USE MaxIdAssumption
<1>1. m.type = "Data" /\ m \in DataMsg
  BY DEF RecvData, TypeInv, TypeOK, NetTypeOK, DataMsg, AckMsg
<1>2. e \in Endpoint /\ m.id \in Id /\ m.una \in 0..(MaxId + 1)
  BY <1>1 DEF DataMsg
<1>3. /\ recv_pool' = [recv_pool EXCEPT ![e] = pool]
      /\ recv_ack_id' = [recv_ack_id EXCEPT ![e] = una]
      /\ arrived' = [arrived EXCEPT ![e] = @ \union {m.id}]
      /\ ack_send_queue' = [ack_send_queue EXCEPT ![e] = @ \union {m.id}]
      /\ send_ack_id' = [send_ack_id EXCEPT ![e] = acked]
      /\ UNCHANGED <<ack_recv_pool, recv_id, delivered, ack_read_list>>
  BY DEF RecvData
<1>4. /\ pool \in SUBSET Id /\ recv_ack_id[e] \in 0..(MaxId + 1)
      /\ \/ pool = recv_pool[e] \union {m.id}
         \/ pool = recv_pool[e] /\ m.id <= recv_ack_id[e]
  BY <1>2 DEF TypeInv, TypeOK, RecvTypeOK, IsNew, Id
<1>5. /\ ack_recv_pool[e] \in SUBSET Id /\ n \in 0..(MaxId + 1)
      /\ send_ack_id[e] \in 0..(MaxId + 1)
      /\ n >= send_ack_id[e] /\ n \in {send_ack_id[e], m.una}
  BY <1>2 DEF TypeInv, TypeOK, AckTypeOK, MAX
<1> HIDE DEF e, pool, n
<1>6. /\ una \in recv_ack_id[e]..(MaxId + 1)
      /\ (recv_ack_id[e] + 1)..una \subseteq pool /\ una + 1 \notin pool
  BY <1>4, AdvanceProp, Zenon
<1>7. acked \in n..(MaxId + 1) /\ (n + 1)..acked \subseteq ack_recv_pool[e]
  BY <1>5, AdvanceProp, Zenon
<1> HIDE DEF una, acked
<1>8. una \in 0..(MaxId + 1) /\ una >= recv_ack_id[e]
  BY <1>4, <1>6
<1>9. /\ acked \in 0..(MaxId + 1) /\ acked >= send_ack_id[e]
      /\ \A i \in 1..acked : i <= send_ack_id[e] \/ i <= m.una \/ i \in ack_recv_pool[e]
  BY <1>2, <1>5, <1>7
<1>10. DataEffect(e, m, pool, una, acked)
  BY <1>3, <1>4, <1>6, <1>8, <1>9, Zenon DEF DataEffect
<1> QED
  BY <1>1, <1>2, <1>3, <1>4, <1>8, <1>9, <1>10, Zenon DEF e

AckEffect(e, m, pool, una, acked) ==
    /\ ack_recv_pool[e] \subseteq pool
    /\ pool \subseteq ack_recv_pool[e] \union m.ids
    /\ ack_recv_pool' = [ack_recv_pool EXCEPT ![e] = pool]
    /\ una >= recv_ack_id[e]
    /\ una \in {recv_ack_id[e], m.send_from}
    /\ recv_ack_id' = [recv_ack_id EXCEPT ![e] = una]
    /\ acked >= send_ack_id[e]
    /\ \A i \in 1..acked : i <= send_ack_id[e] \/ i <= m.una \/ i \in pool
    /\ send_ack_id' = [send_ack_id EXCEPT ![e] = acked]

LEMMA RecvAckEffect ==
    ASSUME TypeInv, NEW m \in net, RecvAck(m.to, m)
    PROVE  /\ m.type = "Ack" /\ m.to \in Endpoint /\ m.una \in 0..(MaxId + 1)
           /\ m.send_from \in 0..(MaxId + 1)
           /\ \E pool \in SUBSET Id, una, acked \in 0..(MaxId + 1) :
                AckEffect(m.to, m, pool, una, acked)
           /\ UNCHANGED <<recv_pool, recv_id, delivered, arrived>>
<1> DEFINE e == m.to
           una == IF m.una > send_id[e] THEN 0 ELSE m.una
           ids == {i \in m.ids : send_ack_id[e] < i /\ i <= send_id[e]}
           pool == ack_recv_pool[e] \union ids
           n == MAX(una, send_ack_id[e])
           acked == Advance(pool, n)
           recv == RecvAckIdAfter(e, m)
<1> USE MaxIdAssumption
<1>1. m.type = "Ack" /\ m \in AckMsg
  BY DEF RecvAck, TypeInv, TypeOK, NetTypeOK, DataMsg, AckMsg
<1>2. /\ e \in Endpoint /\ m.una \in 0..(MaxId + 1) /\ m.send_from \in 0..(MaxId + 1)
      /\ m.ids \in SUBSET Id
  BY <1>1 DEF AckMsg
<1>3. /\ recv_ack_id' = [recv_ack_id EXCEPT ![e] = recv]
      /\ ack_recv_pool' = [ack_recv_pool EXCEPT ![e] = pool]
      /\ send_ack_id' = [send_ack_id EXCEPT ![e] = acked]
      /\ UNCHANGED <<recv_pool, recv_id, delivered, arrived>>
  BY DEF RecvAck
<1>4. /\ recv \in 0..(MaxId + 1) /\ recv >= recv_ack_id[e]
      /\ recv \in {recv_ack_id[e], m.send_from}
  BY <1>2 DEF TypeInv, TypeOK, RecvTypeOK, MAX, RecvAckIdAfter
<1>5. /\ pool \in SUBSET Id /\ ack_recv_pool[e] \subseteq pool
      /\ pool \subseteq ack_recv_pool[e] \union m.ids
  BY <1>2 DEF TypeInv, TypeOK, AckTypeOK
<1>6. /\ n \in 0..(MaxId + 1) /\ send_ack_id[e] \in 0..(MaxId + 1)
      /\ n >= send_ack_id[e] /\ n \in {send_ack_id[e], m.una, 0}
  BY <1>2 DEF TypeInv, TypeOK, AckTypeOK, MAX
<1> HIDE DEF e, una, ids, pool, n, recv
<1>7. acked \in n..(MaxId + 1) /\ (n + 1)..acked \subseteq pool
  BY <1>5, <1>6, AdvanceProp, Zenon
<1> HIDE DEF acked
<1>8. /\ acked \in 0..(MaxId + 1) /\ acked >= send_ack_id[e]
      /\ \A i \in 1..acked : i <= send_ack_id[e] \/ i <= m.una \/ i \in pool
  BY <1>2, <1>6, <1>7
<1>9. AckEffect(e, m, pool, recv, acked)
  BY <1>3, <1>4, <1>5, <1>8, Zenon DEF AckEffect
<1> QED
  BY <1>1, <1>2, <1>3, <1>4, <1>5, <1>8, <1>9, Zenon DEF e

\* The counters and histories the invariants rest on only grow.
LEMMA Monotonic ==
    ASSUME TypeInv, [Next]_vars, NEW e \in Endpoint
    PROVE  /\ send_id[e] <= send_id'[e]
           /\ send_ack_id[e] <= send_ack_id'[e]
           /\ send_from[e] <= send_from'[e]
           /\ arrived[e] \subseteq arrived'[e]
           /\ dropped[e] \subseteq dropped'[e]
<1> USE MaxIdAssumption
<1>1. send_id[e] <= send_id'[e]
  <2>1. ASSUME NEW f \in Endpoint, PushPackage(f) PROVE send_id[e] <= send_id'[e]
    <3>1. send_id' = [send_id EXCEPT ![f] = @ + 1]
      BY <2>1 DEF PushPackage
    <3> QED
      BY <3>1 DEF TypeInv, TypeOK
  <2>2. UNCHANGED send_id => send_id[e] <= send_id'[e]
    BY DEF TypeInv, TypeOK
  <2> QED
    BY <2>1, <2>2, Writers
<1>2. send_from[e] <= send_from'[e] /\ dropped[e] \subseteq dropped'[e]
  <2>1. ASSUME NEW f \in Endpoint, WatchPackage(f), ~UNCHANGED <<send_from, dropped>>
        PROVE  send_from[e] <= send_from'[e] /\ dropped[e] \subseteq dropped'[e]
    <3>1. PICK i \in Id, n \in send_from[f]..(MaxId + 1) :
                /\ send_from' = [send_from EXCEPT ![f] = n]
                /\ dropped' = [dropped EXCEPT ![f] = @ \union {i}]
      BY <2>1, WatchEffect
    <3> QED
      BY <3>1 DEF TypeInv, TypeOK, WaitTypeOK
  <2>2. UNCHANGED <<send_from, dropped>> =>
            send_from[e] <= send_from'[e] /\ dropped[e] \subseteq dropped'[e]
    BY DEF TypeInv, TypeOK, WaitTypeOK
  <2> QED
    BY <2>1, <2>2, Writers
<1>3. send_ack_id[e] <= send_ack_id'[e] /\ arrived[e] \subseteq arrived'[e]
  <2>1. ASSUME NEW m \in net, RecvData(m.to, m) PROVE  send_ack_id[e] <= send_ack_id'[e] /\ arrived[e] \subseteq arrived'[e]
    <3>1. PICK pool \in SUBSET Id, una \in 0..(MaxId + 1), acked \in 0..(MaxId + 1) :
            DataEffect(m.to, m, pool, una, acked)
      BY <2>1, RecvDataEffect
    <3> QED
      BY <3>1 DEF DataEffect, TypeInv, TypeOK, AckTypeOK, RecvTypeOK
  <2>2. ASSUME NEW m \in net, RecvAck(m.to, m) PROVE  send_ack_id[e] <= send_ack_id'[e] /\ arrived[e] \subseteq arrived'[e]
    <3>1. PICK pool \in SUBSET Id, una \in 0..(MaxId + 1), acked \in 0..(MaxId + 1) :
            AckEffect(m.to, m, pool, una, acked)
      BY <2>2, RecvAckEffect
    <3>2. UNCHANGED arrived
      BY <2>2, RecvAckEffect
    <3> QED
      BY <3>1, <3>2 DEF AckEffect, TypeInv, TypeOK, AckTypeOK, RecvTypeOK
  <2>3. ASSUME NEW f \in Endpoint, RecvPackage(f) \/ SkipDropped(f) PROVE UNCHANGED arrived
    BY <2>3 DEF RecvPackage, SkipDropped
  <2>4. UNCHANGED send_ack_id => send_ack_id[e] <= send_ack_id'[e]
    BY DEF TypeInv, TypeOK, AckTypeOK
  <2>5. UNCHANGED arrived => arrived[e] \subseteq arrived'[e]
    OBVIOUS
  <2> QED
    BY <2>1, <2>2, <2>3, <2>4, <2>5, Writers DEF recvVars
<1> QED
  BY <1>1, <1>2, <1>3

-----------------------------------------------------------------------------
(***************************************************************************)
(* The window                                                               *)
(***************************************************************************)
LEMMA NextWindowBound == TypeInv /\ WindowBound /\ [Next]_vars => WindowBound'
<1> SUFFICES ASSUME TypeInv, WindowBound, [Next]_vars, NEW e \in Endpoint
             PROVE  send_id'[e] + seg_left'[e] - send_ack_id'[e] <= Window + MaxBatch
  BY DEF WindowBound
<1> USE MaxIdAssumption, LimitAssumption, WindowAssumption
<1>1. TypeInv'
  BY NextTypeInv
<1>2. send_ack_id[e] \in Nat /\ send_ack_id'[e] \in Nat /\ send_ack_id[e] <= send_ack_id'[e]
  BY <1>1, Monotonic DEF TypeInv, TypeOK, AckTypeOK
<1>3. send_id[e] \in Nat /\ send_id'[e] \in Nat /\ seg_left[e] \in Nat /\ seg_left'[e] \in Nat
  BY <1>1 DEF TypeInv, TypeOK
<1>4. send_id[e] + seg_left[e] - send_ack_id[e] <= Window + MaxBatch
  BY DEF WindowBound
<1>5. CASE UNCHANGED <<send_id, seg_left>>
  BY <1>2, <1>3, <1>4, <1>5
<1>6. ASSUME NEW f \in Endpoint, PushPackage(f)
      PROVE  send_id'[e] + seg_left'[e] = send_id[e] + seg_left[e]
  <2>1. /\ seg_left' = [seg_left EXCEPT ![f] = @ - 1]
        /\ send_id' = [send_id EXCEPT ![f] = @ + 1]
    BY <1>6 DEF PushPackage
  <2> QED
    BY <1>3, <2>1 DEF TypeInv, TypeOK
<1>7. ASSUME NEW f \in Endpoint, TakeSegments(f)
      PROVE  send_id'[e] + seg_left'[e] - send_ack_id[e] <= Window + MaxBatch
  <2>1. /\ send_id' = send_id
        /\ seg_left[f] = 0
        /\ send_id[f] - send_ack_id[f] <= Window
        /\ \E n \in 1..MaxBatch : seg_left' = [seg_left EXCEPT ![f] = n]
    BY <1>7 DEF TakeSegments, WindowOpen
  <2> QED
    BY <1>2, <1>3, <1>4, <2>1 DEF TypeInv, TypeOK
<1> QED
  BY <1>2, <1>3, <1>4, <1>5, <1>6, <1>7, Writers

\* The packages a socket has sent and not seen acknowledged never exceed the
\* window by more than a batch: the segment thread looks at the window before
\* each batch only, and send_ack_id never falls.
THEOREM WindowKept == Spec => []WindowBound
<1>1. Init => TypeInv /\ WindowBound
  <2>1. Init => WindowBound
    BY LimitAssumption, WindowAssumption DEF Init, WindowBound
  <2> QED
    BY <2>1, InitTypeInv
<1>2. TypeInv /\ WindowBound /\ [Next]_vars => (TypeInv /\ WindowBound)'
  BY NextTypeInv, NextWindowBound
<1> QED
  BY <1>1, <1>2, PTL DEF Spec

-----------------------------------------------------------------------------
(***************************************************************************)
(* The inductive invariant                                                  *)
(***************************************************************************)

\* Package i of p needs no further sending.
Gone(p, i) == i \in arrived[Peer(p)] \/ i <= send_from[p]

\* Only packages that were numbered exist, are under way or have arrived.
LiveExist == \A e \in Endpoint : \A i \in live[e] : i < send_id[e]

DataExist == \A m \in net : m.type = "Data" => m.id < send_id[Peer(m.to)]

ArrivedExist == \A e \in Endpoint : \A i \in arrived[e] : i < send_id[Peer(e)]

\* What the ackhandler may still drop was numbered, so send_from stays at or
\* below the id that is numbered next.
WaitExist ==
    \A e \in Endpoint :
        /\ \A k \in DOMAIN ack_pool[e] : ack_pool[e][k] < send_id[e]
        /\ send_from[e] <= send_id[e]

\* What a socket keeps or is going to acknowledge has arrived.
ListedArrived ==
    \A e \in Endpoint :
        /\ recv_pool[e] \subseteq arrived[e]
        /\ ack_send_queue[e] \subseteq arrived[e]
        /\ ack_read_list[e] \subseteq arrived[e]

\* una, at the receiver, in a datagram, and what the sender has made of it.
UnaGone == \A e \in Endpoint : \A i \in 1..recv_ack_id[e] : Gone(Peer(e), i)

NetGone ==
    \A m \in net :
        /\ \A i \in 1..m.una : Gone(m.to, i)
        /\ m.type = "Ack" => /\ m.ids \subseteq arrived[Peer(m.to)]
                             /\ m.send_from <= send_from[Peer(m.to)]

AckGone ==
    \A e \in Endpoint : \A i \in 1..(MaxId + 1) :
        Acked(e, i) => Gone(e, i) \/ i \in StaleIds

\* send_from moves with a drop only.
NoSendFrom == \A e \in Endpoint : dropped[e] = {} => send_from[e] = 0

\* While the peer has dropped nothing: what was taken up to recv_ack_id is in
\* the pool or was handed over, and nothing that arrived is missing.
Kept ==
    \A e \in Endpoint : dropped[Peer(e)] = {} =>
        /\ recv_id[e] <= recv_ack_id[e] + 1
        /\ recv_id[e]..recv_ack_id[e] \subseteq recv_pool[e]
        /\ recv_ack_id[e] + 1 \notin recv_pool[e]
        /\ delivered[e] = [i \in 1..(recv_id[e] - 1) |-> i]
        /\ \A i \in arrived[e] : i < recv_id[e] \/ i \in recv_pool[e]

\* recv_id is beyond everything that was handed over.
InOrder ==
    \A e \in Endpoint :
        /\ \A k \in DOMAIN delivered[e] : delivered[e][k] < recv_id[e]
        /\ \A j, k \in DOMAIN delivered[e] : j < k => delivered[e][j] < delivered[e][k]

SafeInv ==
    /\ LiveExist /\ DataExist /\ ArrivedExist /\ WaitExist /\ ListedArrived
    /\ UnaGone /\ NetGone /\ AckGone /\ NoSendFrom
    /\ Kept /\ InOrder

LEMMA InitSafeInv == Init => SafeInv
<1> SUFFICES ASSUME Init PROVE SafeInv
  OBVIOUS
<1> USE MaxIdAssumption, StaleIdsAssumption DEF Init
<1>1. LiveExist /\ DataExist
  BY DEF LiveExist, DataExist
<1>2. ArrivedExist /\ ListedArrived
  BY DEF ArrivedExist, ListedArrived
<1>9. WaitExist
  BY DEF WaitExist
<1>3. UnaGone
  BY PeerProp DEF UnaGone
<1>4. NetGone
  BY DEF NetGone
<1>5. AckGone
  BY DEF AckGone, Acked
<1>6. NoSendFrom
  BY DEF NoSendFrom
<1>7. Kept
  BY DEF Kept
<1>8. InOrder
  BY DEF InOrder
<1> QED
  BY <1>1, <1>2, <1>3, <1>4, <1>5, <1>6, <1>7, <1>8, <1>9 DEF SafeInv

\* What is gone stays gone.
LEMMA GoneMonotonic ==
    ASSUME TypeInv, [Next]_vars, NEW p \in Endpoint, NEW i \in Int, Gone(p, i)
    PROVE  Gone(p, i)'
<1>1. TypeInv'
  BY NextTypeInv
<1>2. Peer(p) \in Endpoint
  BY PeerProp
<1>3. /\ arrived[Peer(p)] \subseteq arrived'[Peer(p)]
      /\ send_from[p] <= send_from'[p]
  BY <1>2, Monotonic
<1>4. send_from[p] \in Int /\ send_from'[p] \in Int
  BY <1>1, MaxIdAssumption DEF TypeInv, TypeOK, WaitTypeOK
<1> QED
  BY <1>3, <1>4 DEF Gone

\* A new datagram carries a live package, or acknowledges what is listed.
LEMMA NetEffect ==
    ASSUME TypeInv, [Next]_vars, NEW m \in net', m \notin net
    PROVE  \E e \in Endpoint :
            \/ \E i \in live[e] : m = Data(e, i, recv_ack_id[e])
            \/ \E ids \in SUBSET ack_read_list[e] :
                m = Ack(e, recv_ack_id[e], send_from[e], ids)
<1>1. ASSUME NEW e \in Endpoint, SendPackage(e)
      PROVE  \E i \in live[e] : m = Data(e, i, recv_ack_id[e])
  BY <1>1 DEF SendPackage
<1>2. ASSUME NEW e \in Endpoint, SendAck(e)
      PROVE  \E ids \in SUBSET ack_read_list[e] :
                m = Ack(e, recv_ack_id[e], send_from[e], ids)
  <2>1. PICK ids \in SUBSET {i \in ack_read_list[e] : i > AckUna(e)} :
            net' = net \union {Ack(e, AckUna(e), send_from[e], ids)}
    BY <1>2 DEF SendAck
  <2> QED
    BY <2>1 DEF AckUna
<1>3. ASSUME NEW x \in net, Lose(x) PROVE FALSE
  BY <1>3 DEF Lose
<1> QED
  BY <1>1, <1>2, <1>3, Writers

LEMMA NextExist ==
    ASSUME TypeInv, LiveExist, DataExist, ArrivedExist, [Next]_vars
    PROVE  LiveExist' /\ DataExist' /\ ArrivedExist'
<1> USE MaxIdAssumption
<1>1. TypeInv'
  BY NextTypeInv
<1>2. \A e \in Endpoint :
        send_id[e] \in Int /\ send_id'[e] \in Int /\ send_id[e] <= send_id'[e]
  BY <1>1, Monotonic DEF TypeInv, TypeOK
<1>3. LiveExist'
  <2> SUFFICES ASSUME NEW e \in Endpoint, NEW i \in live'[e] PROVE i < send_id'[e]
    BY DEF LiveExist
  <2>1. i \in Int
    BY <1>1 DEF TypeInv, TypeOK, PoolTypeOK, Id
  <2>2. CASE i \in live[e]
    BY <1>2, <2>1, <2>2 DEF LiveExist
  <2>3. CASE i \notin live[e]
    <3>1. ASSUME NEW f \in Endpoint, PushPackage(f) PROVE i < send_id'[e]
      <4>1. /\ live' = [live EXCEPT ![f] = @ \union {send_id[f]}]
            /\ send_id' = [send_id EXCEPT ![f] = @ + 1]
        BY <3>1 DEF PushPackage
      <4>2. f = e /\ i = send_id[e]
        BY <2>3, <4>1 DEF TypeInv, TypeOK, PoolTypeOK
      <4> QED
        BY <1>2, <4>1, <4>2 DEF TypeInv, TypeOK
    <3>2. ASSUME NEW f \in Endpoint, WatchPackage(f) \/ ReleasePackage(f) PROVE FALSE
      <4>1. live' = live \/ \E j : Erase(f, j)
        BY <3>2 DEF WatchPackage, ReleasePackage
      <4> QED
        BY <2>3, <4>1 DEF Erase, TypeInv, TypeOK, PoolTypeOK
    <3> QED
      BY <2>3, <3>1, <3>2, Writers
  <2> QED
    BY <2>2, <2>3
<1>4. DataExist'
  <2> SUFFICES ASSUME NEW m \in net', m.type = "Data" PROVE m.id < send_id'[Peer(m.to)]
    BY DEF DataExist
  <2>1. m \in DataMsg
    BY <1>1 DEF TypeInv, TypeOK, NetTypeOK, DataMsg, AckMsg
  <2>2. m.id \in Int /\ Peer(m.to) \in Endpoint
    BY <2>1, PeerProp DEF DataMsg, Id
  <2>3. CASE m \in net
    BY <1>2, <2>2, <2>3 DEF DataExist
  <2>4. CASE m \notin net
    <3>0. PICK e \in Endpoint : \E i \in live[e] : m = Data(e, i, recv_ack_id[e])
      BY <2>4, NetEffect DEF Ack
    <3>1. PICK i \in live[e] : m = Data(e, i, recv_ack_id[e])
      BY <3>0
    <3>2. m.id = i /\ Peer(m.to) = e
      BY <3>1, PeerProp DEF Data
    <3> QED
      BY <1>2, <2>2, <3>2 DEF LiveExist
  <2> QED
    BY <2>3, <2>4
<1>5. ArrivedExist'
  <2> SUFFICES ASSUME NEW e \in Endpoint, NEW i \in arrived'[e] PROVE i < send_id'[Peer(e)]
    BY DEF ArrivedExist
  <2>1. i \in Int /\ Peer(e) \in Endpoint
    BY <1>1, PeerProp DEF TypeInv, TypeOK, RecvTypeOK, Id
  <2>2. CASE i \in arrived[e]
    BY <1>2, <2>1, <2>2 DEF ArrivedExist
  <2>3. CASE i \notin arrived[e]
    <3>1. PICK m \in net : RecvData(m.to, m)
      <4>1. ASSUME NEW m \in net, RecvAck(m.to, m) PROVE UNCHANGED arrived
        BY <4>1, RecvAckEffect
      <4>2. ASSUME NEW f \in Endpoint, RecvPackage(f) \/ SkipDropped(f) PROVE UNCHANGED arrived
        BY <4>2 DEF RecvPackage, SkipDropped
      <4> QED
        BY <2>3, <4>1, <4>2, Writers DEF recvVars
    <3>2. m.type = "Data" /\ m.to \in Endpoint /\ m.id \in Id
      BY <3>1, RecvDataEffect
    <3>3. arrived' = [arrived EXCEPT ![m.to] = @ \union {m.id}]
      BY <3>1 DEF RecvData
    <3>4. m.to = e /\ m.id = i
      BY <2>3, <3>2, <3>3 DEF TypeInv, TypeOK, RecvTypeOK
    <3> QED
      BY <1>2, <2>1, <3>2, <3>4 DEF DataExist
  <2> QED
    BY <2>2, <2>3
<1> QED
  BY <1>3, <1>4, <1>5

\* What is left of the list once the entries up to n are gone.
LEMMA SuffixEntry ==
    ASSUME NEW q \in Seq(Id), NEW n \in 1..Len(q)
    PROVE  /\ DOMAIN SubSeq(q, n + 1, Len(q)) = 1..(Len(q) - n)
           /\ \A k \in DOMAIN SubSeq(q, n + 1, Len(q)) :
                n + k \in DOMAIN q /\ SubSeq(q, n + 1, Len(q))[k] = q[n + k]
<1> DEFINE r == SubSeq(q, n + 1, Len(q))
<1>1. Len(q) \in Nat /\ DOMAIN q = 1..Len(q) /\ n \in Nat /\ n <= Len(q)
  OBVIOUS
<1>2. r \in Seq(Id) /\ Len(r) = Len(q) - n
  <2>1. \A i \in (n + 1)..Len(q) : q[i] \in Id
    BY <1>1
  <2>2. n + 1 \in Int /\ Len(q) \in Int
    BY <1>1
  <2>3. r \in Seq(Id) /\ Len(r) = IF n + 1 <= Len(q) THEN Len(q) - (n + 1) + 1 ELSE 0
    BY <2>1, <2>2, SubSeqProperties, Zenon
  <2>4. ASSUME NEW l \in Nat, n <= l
        PROVE  (IF n + 1 <= l THEN l - (n + 1) + 1 ELSE 0) = l - n
    BY <1>1, <2>4
  <2>5. (IF n + 1 <= Len(q) THEN Len(q) - (n + 1) + 1 ELSE 0) = Len(q) - n
    BY <1>1, <2>4, Zenon
  <2> QED
    BY ONLY <2>3, <2>5
<1>3. DOMAIN r = 1..(Len(q) - n)
  <2> HIDE DEF r
  <2> QED
    BY <1>2
<1>4. ASSUME NEW k \in 1..(Len(q) - n) PROVE n + k \in DOMAIN q /\ r[k] = q[n + k]
  BY <1>1
<1> QED
  BY <1>3, <1>4, Zenon

LEMMA NextWaitExist ==
    ASSUME TypeInv, LiveExist, WaitExist, [Next]_vars
    PROVE  WaitExist'
<1> USE MaxIdAssumption
<1>1. TypeInv'
  BY NextTypeInv
<1> SUFFICES ASSUME NEW e \in Endpoint
             PROVE  /\ \A k \in DOMAIN ack_pool'[e] : ack_pool'[e][k] < send_id'[e]
                    /\ send_from'[e] <= send_id'[e]
  BY DEF WaitExist
<1>2. /\ send_id[e] \in Int /\ send_id'[e] \in Int /\ send_id[e] <= send_id'[e]
      /\ ack_pool[e] \in Seq(Id) /\ send_from[e] \in Int
      /\ ack_pool'[e] \in Seq(Id) /\ send_from'[e] \in Int
  BY <1>1, Monotonic DEF TypeInv, TypeOK, WaitTypeOK
<1>3. \A k \in DOMAIN ack_pool[e] : ack_pool[e][k] \in Int /\ ack_pool[e][k] < send_id[e]
  BY <1>2 DEF WaitExist, Id
<1>4. send_from[e] <= send_id[e]
  BY DEF WaitExist
<1>5. ASSUME ack_pool'[e] = ack_pool[e], send_from'[e] = send_from[e]
      PROVE  /\ \A k \in DOMAIN ack_pool'[e] : ack_pool'[e][k] < send_id'[e]
             /\ send_from'[e] <= send_id'[e]
  BY <1>2, <1>3, <1>4, <1>5
<1>6. ASSUME NEW f \in Endpoint, SendPackage(f)
      PROVE  /\ \A k \in DOMAIN ack_pool'[e] : ack_pool'[e][k] < send_id'[e]
             /\ send_from'[e] <= send_id'[e]
  <2>1. /\ UNCHANGED send_from
        /\ \/ ack_pool' = ack_pool
           \/ \E i \in live[f] : ack_pool' = [ack_pool EXCEPT ![f] = Append(ack_pool[f], i)]
    BY <1>6 DEF SendPackage
  <2>2. CASE ack_pool'[e] = ack_pool[e]
    BY <1>5, <2>1, <2>2
  <2>3. CASE ack_pool'[e] # ack_pool[e]
    <3>1. PICK i \in live[f] : ack_pool' = [ack_pool EXCEPT ![f] = Append(ack_pool[f], i)]
      BY <2>1, <2>3
    <3>2. f = e
      BY <2>3, <3>1 DEF TypeInv, TypeOK, WaitTypeOK
    <3>3. ack_pool'[e] = Append(ack_pool[e], i)
      BY <3>1, <3>2 DEF TypeInv, TypeOK, WaitTypeOK
    <3>4. i \in Int /\ i < send_id[e]
      BY <3>2 DEF LiveExist, TypeInv, TypeOK, PoolTypeOK, Id
    <3> QED
      BY <1>2, <1>3, <1>4, <2>1, <3>3, <3>4
  <2> QED
    BY <2>2, <2>3
<1>7. ASSUME NEW f \in Endpoint, WatchPackage(f)
      PROVE  /\ \A k \in DOMAIN ack_pool'[e] : ack_pool'[e][k] < send_id'[e]
             /\ send_from'[e] <= send_id'[e]
  <2> DEFINE n == PopIndex(ack_pool[f])
             i == ack_pool[f][n]
  <2>1. /\ ack_pool[f] # <<>>
        /\ ack_pool' = [ack_pool EXCEPT ![f] = SubSeq(ack_pool[f], n + 1, Len(ack_pool[f]))]
        /\ \/ UNCHANGED send_from
           \/ send_from' = [send_from EXCEPT ![f] = SendFromAfter(i, send_from[f])]
    BY <1>7 DEF WatchPackage
  <2>2. CASE f # e
    BY <1>5, <2>1, <2>2 DEF TypeInv, TypeOK, WaitTypeOK
  <2>3. CASE f = e
    <3>1. n \in DOMAIN ack_pool[e] /\ n \in 1..Len(ack_pool[e])
      BY <1>2, <2>1, <2>3, PopIndexProp
    <3>2. i \in Int /\ i < send_id[e]
      BY <1>3, <2>3, <3>1
    <3>3. send_from'[e] <= send_id'[e]
      <4> HIDE DEF i
      <4>1. SendFromAfter(i, send_from[e]) <= send_id[e]
        BY <1>2, <1>4, <3>2 DEF SendFromAfter
      <4>2. send_from'[e] = send_from[e] \/ send_from'[e] = SendFromAfter(i, send_from[e])
        BY <2>1, <2>3 DEF TypeInv, TypeOK, WaitTypeOK
      <4> QED
        BY <1>2, <1>4, <4>1, <4>2
    <3>4. ack_pool'[e] = SubSeq(ack_pool[e], n + 1, Len(ack_pool[e]))
      BY <2>1, <2>3 DEF TypeInv, TypeOK, WaitTypeOK
    <3> HIDE DEF n, i
    <3>5. ASSUME NEW k \in DOMAIN ack_pool'[e] PROVE ack_pool'[e][k] < send_id'[e]
      <4>1. n + k \in DOMAIN ack_pool[e] /\ ack_pool'[e][k] = ack_pool[e][n + k]
        BY <1>2, <3>1, <3>4, SuffixEntry
      <4> QED
        BY <1>2, <1>3, <4>1
    <3> QED
      BY <3>3, <3>5
  <2> QED
    BY <2>2, <2>3
<1>8. \/ UNCHANGED <<ack_pool, send_from>>
      \/ \E f \in Endpoint : SendPackage(f) \/ WatchPackage(f)
  BY Writers
<1> QED
  BY <1>5, <1>6, <1>7, <1>8

LEMMA NextListedArrived ==
    ASSUME TypeInv, ListedArrived, [Next]_vars
    PROVE  ListedArrived'
<1> SUFFICES ASSUME NEW e \in Endpoint
             PROVE  /\ recv_pool'[e] \subseteq arrived'[e]
                    /\ ack_send_queue'[e] \subseteq arrived'[e]
                    /\ ack_read_list'[e] \subseteq arrived'[e]
  BY DEF ListedArrived
<1>1. arrived[e] \subseteq arrived'[e]
  BY Monotonic
<1>2. /\ recv_pool[e] \subseteq arrived[e]
      /\ ack_send_queue[e] \subseteq arrived[e]
      /\ ack_read_list[e] \subseteq arrived[e]
  BY DEF ListedArrived
<1>3. ASSUME NEW m \in net, RecvData(m.to, m)
      PROVE  /\ recv_pool'[e] \subseteq arrived'[e]
             /\ ack_send_queue'[e] \subseteq arrived'[e]
             /\ ack_read_list'[e] \subseteq arrived'[e]
  <2>1. PICK pool \in SUBSET Id, una \in 0..(MaxId + 1), acked \in 0..(MaxId + 1) :
          DataEffect(m.to, m, pool, una, acked)
    BY <1>3, RecvDataEffect
  <2>2. m.to \in Endpoint /\ UNCHANGED ack_read_list
    BY <1>3, RecvDataEffect
  <2> QED
    BY <1>2, <2>1, <2>2 DEF DataEffect, TypeInv, TypeOK, RecvTypeOK, ListTypeOK
<1>4. recv_pool'[e] \subseteq arrived'[e]
  <2>1. ASSUME NEW m \in net, RecvAck(m.to, m) PROVE UNCHANGED recv_pool
    BY <2>1, RecvAckEffect
  <2>2. ASSUME NEW f \in Endpoint, RecvPackage(f) \/ SkipDropped(f)
        PROVE  recv_pool'[e] \subseteq recv_pool[e]
    <3>1. recv_pool' = recv_pool \/ \E i : recv_pool' = [recv_pool EXCEPT ![f] = @ \ {i}]
      BY <2>2 DEF RecvPackage, SkipDropped
    <3> QED
      BY <3>1 DEF TypeInv, TypeOK, RecvTypeOK
  <2>3. \/ recv_pool'[e] \subseteq recv_pool[e]
        \/ \E m \in net : RecvData(m.to, m)
    BY <2>1, <2>2, Writers DEF recvVars
  <2> QED
    BY <1>1, <1>2, <1>3, <2>3
<1>5. ack_send_queue'[e] \subseteq arrived'[e] /\ ack_read_list'[e] \subseteq arrived'[e]
  <2>1. ASSUME NEW f \in Endpoint, TakeAcks(f)
        PROVE  /\ ack_send_queue'[e] \subseteq ack_send_queue[e]
               /\ ack_read_list'[e] \subseteq ack_send_queue[e] \union ack_read_list[e]
    BY <2>1 DEF TakeAcks, TypeInv, TypeOK, ListTypeOK
  <2>2. ASSUME NEW f \in Endpoint, SendAck(f)
        PROVE  /\ ack_send_queue'[e] \subseteq ack_send_queue[e]
               /\ ack_read_list'[e] \subseteq ack_send_queue[e] \union ack_read_list[e]
    <3>1. PICK ids \in SUBSET {i \in ack_read_list[f] : i > AckUna(f)} :
            /\ ack_read_list' = [ack_read_list EXCEPT
                    ![f] = {i \in ack_read_list[f] : i > AckUna(f)} \ ids]
            /\ ack_send_queue' = ack_send_queue
      BY <2>2 DEF SendAck
    <3> QED
      BY <3>1 DEF TypeInv, TypeOK, ListTypeOK
  <2>3. \/ /\ ack_send_queue'[e] \subseteq ack_send_queue[e]
           /\ ack_read_list'[e] \subseteq ack_send_queue[e] \union ack_read_list[e]
        \/ \E m \in net : RecvData(m.to, m)
    BY <2>1, <2>2, Writers DEF listVars
  <2> QED
    BY <1>1, <1>2, <1>3, <2>3
<1> QED
  BY <1>4, <1>5

LEMMA NextUnaGone ==
    ASSUME TypeInv, ListedArrived, UnaGone, NetGone, [Next]_vars
    PROVE  UnaGone'
<1> USE MaxIdAssumption
<1>1. TypeInv' /\ ListedArrived'
  BY NextTypeInv, NextListedArrived
<1> SUFFICES ASSUME NEW e \in Endpoint, NEW i \in 1..recv_ack_id'[e] PROVE Gone(Peer(e), i)'
  BY DEF UnaGone
<1>2. i \in Int /\ i > 0 /\ i <= recv_ack_id'[e] /\ Peer(e) \in Endpoint /\ Peer(Peer(e)) = e
  BY <1>1, PeerProp DEF TypeInv, TypeOK, RecvTypeOK
<1>3. CASE i <= recv_ack_id[e]
  <2>1. i \in 1..recv_ack_id[e]
    BY <1>2, <1>3 DEF TypeInv, TypeOK, RecvTypeOK
  <2>2. Gone(Peer(e), i)
    BY <2>1 DEF UnaGone
  <2> QED
    BY <1>2, <2>2, GoneMonotonic
<1>4. CASE ~(i <= recv_ack_id[e])
  <2>1. ASSUME NEW m \in net, RecvData(m.to, m) PROVE Gone(Peer(e), i)'
    <3>1. PICK pool \in SUBSET Id, una \in 0..(MaxId + 1), acked \in 0..(MaxId + 1) :
            DataEffect(m.to, m, pool, una, acked)
      BY <2>1, RecvDataEffect
    <3>2. m.to = e /\ recv_ack_id'[e] = una
      BY <1>2, <1>4, <3>1 DEF DataEffect, TypeInv, TypeOK, RecvTypeOK
    <3>3. i \in pool
      <4>1. i \in (recv_ack_id[e] + 1)..una
        BY <1>2, <1>4, <3>2 DEF TypeInv, TypeOK, RecvTypeOK
      <4> QED
        BY <3>1, <3>2, <4>1 DEF DataEffect
    <3>4. recv_pool'[e] = pool
      BY <3>1, <3>2 DEF DataEffect, TypeInv, TypeOK, RecvTypeOK
    <3>5. i \in arrived'[e]
      BY <1>1, <3>3, <3>4 DEF ListedArrived
    <3> QED
      BY <1>2, <3>5 DEF Gone
  <2>2. ASSUME NEW m \in net, RecvAck(m.to, m) PROVE Gone(Peer(e), i)'
    <3>1. PICK pool \in SUBSET Id, una \in 0..(MaxId + 1), acked \in 0..(MaxId + 1) :
            AckEffect(m.to, m, pool, una, acked)
      BY <2>2, RecvAckEffect
    <3>2. m.type = "Ack" /\ m.send_from \in 0..(MaxId + 1)
      BY <2>2, RecvAckEffect
    <3>3. m.to = e /\ recv_ack_id'[e] = m.send_from
      BY <1>2, <1>4, <3>1 DEF AckEffect, TypeInv, TypeOK, RecvTypeOK
    <3>4. m.send_from <= send_from[Peer(e)]
      BY <3>2, <3>3 DEF NetGone
    <3>5. i <= send_from[Peer(e)]
      BY <1>2, <3>2, <3>3, <3>4 DEF TypeInv, TypeOK, WaitTypeOK
    <3> QED
      BY <1>2, <3>5, GoneMonotonic DEF Gone
  <2>3. ASSUME NEW f \in Endpoint, RecvPackage(f) \/ SkipDropped(f) PROVE UNCHANGED recv_ack_id
    BY <2>3 DEF RecvPackage, SkipDropped
  <2> QED
    BY <1>2, <1>4, <2>1, <2>2, <2>3, Writers DEF recvVars
<1> QED
  BY <1>3, <1>4

LEMMA NextNetGone ==
    ASSUME TypeInv, ListedArrived, UnaGone, NetGone, [Next]_vars
    PROVE  NetGone'
<1> USE MaxIdAssumption
<1>1. TypeInv'
  BY NextTypeInv
<1> SUFFICES ASSUME NEW m \in net'
             PROVE  /\ \A i \in 1..m.una : Gone(m.to, i)'
                    /\ m.type = "Ack" => /\ m.ids \subseteq arrived'[Peer(m.to)]
                                         /\ m.send_from <= send_from'[Peer(m.to)]
  BY DEF NetGone
<1>2. m \in DataMsg \/ m \in AckMsg
  BY <1>1 DEF TypeInv, TypeOK, NetTypeOK
<1>3. /\ m.to \in Endpoint /\ m.una \in 0..(MaxId + 1)
      /\ m.type = "Ack" => m.send_from \in 0..(MaxId + 1)
  BY <1>2 DEF DataMsg, AckMsg
<1>4. Peer(m.to) \in Endpoint
  BY <1>3, PeerProp
<1>5. /\ \A i \in 1..m.una : Gone(m.to, i)
      /\ m.type = "Ack" => /\ m.ids \subseteq arrived[Peer(m.to)]
                           /\ m.send_from <= send_from[Peer(m.to)]
  <2>1. CASE m \in net
    BY <2>1 DEF NetGone
  <2>2. CASE m \notin net
    <3>1. PICK e \in Endpoint :
            \/ \E i \in live[e] : m = Data(e, i, recv_ack_id[e])
            \/ \E ids \in SUBSET ack_read_list[e] :
                m = Ack(e, recv_ack_id[e], send_from[e], ids)
      BY <2>2, NetEffect
    <3>2. m.to = Peer(e) /\ Peer(m.to) = e /\ m.una = recv_ack_id[e]
      BY <3>1, PeerProp DEF Data, Ack
    <3>3. m.type = "Ack" => m.ids \subseteq ack_read_list[e] /\ m.send_from = send_from[e]
      BY <3>1 DEF Data, Ack
    <3>4. \A i \in 1..m.una : Gone(m.to, i)
      BY <3>2 DEF UnaGone
    <3>5. send_from[e] \in Int
      BY DEF TypeInv, TypeOK, WaitTypeOK
    <3> QED
      BY <3>2, <3>3, <3>4, <3>5 DEF ListedArrived
  <2> QED
    BY <2>1, <2>2
<1>6. ASSUME NEW i \in 1..m.una PROVE Gone(m.to, i)'
  BY <1>3, <1>5, GoneMonotonic
<1>7. /\ arrived[Peer(m.to)] \subseteq arrived'[Peer(m.to)]
      /\ send_from[Peer(m.to)] <= send_from'[Peer(m.to)]
  BY <1>4, Monotonic
<1>8. send_from[Peer(m.to)] \in Int /\ send_from'[Peer(m.to)] \in Int
  BY <1>1, <1>4 DEF TypeInv, TypeOK, WaitTypeOK
<1> QED
  BY <1>3, <1>5, <1>6, <1>7, <1>8

LEMMA NextAckGone ==
    ASSUME TypeInv, NetGone, AckGone, [Next]_vars
    PROVE  AckGone'
<1> USE MaxIdAssumption
<1> SUFFICES ASSUME NEW e \in Endpoint, NEW i \in 1..(MaxId + 1), Acked(e, i)'
             PROVE  Gone(e, i)' \/ i \in StaleIds
  BY DEF AckGone
<1>1. send_ack_id[e] \in Int
  BY DEF TypeInv, TypeOK, AckTypeOK
<1>2. CASE Acked(e, i)
  BY <1>2, GoneMonotonic DEF AckGone
<1>3. CASE ~Acked(e, i)
  <2>1. ASSUME NEW m \in net, RecvData(m.to, m) PROVE Gone(e, i)
    <3>1. PICK pool \in SUBSET Id, una \in 0..(MaxId + 1), acked \in 0..(MaxId + 1) :
            DataEffect(m.to, m, pool, una, acked)
      BY <2>1, RecvDataEffect
    <3>2. UNCHANGED ack_recv_pool /\ m.una \in 0..(MaxId + 1)
      BY <2>1, RecvDataEffect
    <3>3. m.to = e /\ i <= acked
      BY <1>3, <3>1, <3>2 DEF DataEffect, Acked, TypeInv, TypeOK, AckTypeOK
    <3>4. i \in 1..acked
      BY <3>3
    <3>5. i <= m.una
      BY <1>3, <3>1, <3>3, <3>4 DEF DataEffect, Acked
    <3>6. i \in 1..m.una
      BY <3>2, <3>5
    <3> QED
      BY <3>3, <3>6 DEF NetGone
  <2>2. ASSUME NEW m \in net, RecvAck(m.to, m) PROVE Gone(e, i)
    <3>1. PICK pool \in SUBSET Id, una \in 0..(MaxId + 1), acked \in 0..(MaxId + 1) :
            AckEffect(m.to, m, pool, una, acked)
      BY <2>2, RecvAckEffect
    <3>2. m.type = "Ack" /\ m.una \in 0..(MaxId + 1)
      BY <2>2, RecvAckEffect
    <3>3. m.to = e /\ (i <= acked \/ i \in pool)
      BY <1>3, <3>1 DEF AckEffect, Acked, TypeInv, TypeOK, AckTypeOK
    <3>4. i <= m.una \/ i \in pool
      <4>1. i <= acked => i \in 1..acked
        OBVIOUS
      <4> QED
        BY <1>3, <3>1, <3>3, <4>1 DEF AckEffect, Acked
    <3>5. CASE i <= m.una
      <4>1. i \in 1..m.una
        BY <3>2, <3>5
      <4> QED
        BY <3>3, <4>1 DEF NetGone
    <3>6. CASE i \in pool
      <4>1. i \in m.ids
        BY <1>3, <3>1, <3>3, <3>6 DEF AckEffect, Acked
      <4> QED
        BY <3>2, <3>3, <4>1 DEF NetGone, Gone
    <3> QED
      BY <3>4, <3>5, <3>6
  <2>3. ~UNCHANGED <<send_ack_id, ack_recv_pool>>
    BY <1>3 DEF Acked
  <2> QED
    BY <2>1, <2>2, <2>3, Writers, GoneMonotonic
<1> QED
  BY <1>2, <1>3

LEMMA NextNoSendFrom ==
    ASSUME TypeInv, NoSendFrom, [Next]_vars
    PROVE  NoSendFrom'
<1>1. CASE UNCHANGED <<send_from, dropped>>
  BY <1>1 DEF NoSendFrom
<1>2. CASE ~UNCHANGED <<send_from, dropped>>
  <2>1. PICK f \in Endpoint : WatchPackage(f)
    BY <1>2, Writers
  <2>2. PICK i \in Id, n \in send_from[f]..(MaxId + 1) :
            /\ send_from' = [send_from EXCEPT ![f] = n]
            /\ dropped' = [dropped EXCEPT ![f] = @ \union {i}]
    BY <1>2, <2>1, WatchEffect
  <2> QED
    BY <2>2 DEF NoSendFrom, TypeInv, TypeOK, WaitTypeOK
<1> QED
  BY <1>1, <1>2

LEMMA NextInOrder ==
    ASSUME TypeInv, InOrder, [Next]_vars
    PROVE  InOrder'
<1> USE MaxIdAssumption
<1>1. TypeInv'
  BY NextTypeInv
<1>2. ASSUME NEW f \in Endpoint, RecvPackage(f) PROVE InOrder'
  <2>1. PICK i \in recv_pool[f] :
          /\ ComesNext(f, i)
          /\ recv_id' = [recv_id EXCEPT ![f] = i + 1]
          /\ delivered' = [delivered EXCEPT ![f] = Append(delivered[f], i)]
    BY <1>2 DEF RecvPackage
  <2>2. i \in Int /\ recv_id[f] <= i
    BY <2>1 DEF ComesNext, TypeInv, TypeOK, RecvTypeOK, Id
  <2> SUFFICES ASSUME NEW e \in Endpoint
               PROVE  /\ \A k \in DOMAIN delivered'[e] : delivered'[e][k] < recv_id'[e]
                      /\ \A j, k \in DOMAIN delivered'[e] :
                            j < k => delivered'[e][j] < delivered'[e][k]
    BY DEF InOrder
  <2>3. CASE e # f
    BY <2>1, <2>3 DEF InOrder, TypeInv, TypeOK, RecvTypeOK
  <2>4. CASE e = f
    <3>1. recv_id'[e] = i + 1 /\ delivered'[e] = Append(delivered[e], i)
      BY <2>1, <2>4 DEF TypeInv, TypeOK, RecvTypeOK
    <3>2. /\ delivered[e] \in Seq(Id) /\ recv_id[e] \in Int
          /\ \A k \in DOMAIN delivered[e] : delivered[e][k] < recv_id[e]
          /\ \A j, k \in DOMAIN delivered[e] : j < k => delivered[e][j] < delivered[e][k]
      BY DEF InOrder, TypeInv, TypeOK, RecvTypeOK
    <3>3. \A k \in DOMAIN delivered[e] : delivered[e][k] \in Int /\ delivered[e][k] < i
      BY <2>2, <2>4, <3>2 DEF Id
    <3> QED
      BY <2>2, <3>1, <3>2, <3>3
  <2> QED
    BY <2>3, <2>4
<1>3. ASSUME NEW f \in Endpoint, SkipDropped(f) PROVE InOrder'
  <2>1. /\ recv_id[f] < recv_ack_id[f]
        /\ recv_id' = [recv_id EXCEPT ![f] = recv_ack_id[f]]
        /\ delivered' = delivered
    BY <1>3 DEF SkipDropped
  <2>2. \A e \in Endpoint :
            recv_id[e] \in Int /\ recv_id'[e] \in Int /\ recv_id[e] <= recv_id'[e]
    BY <1>1, <2>1 DEF TypeInv, TypeOK, RecvTypeOK
  <2>3. \A e \in Endpoint : \A k \in DOMAIN delivered[e] : delivered[e][k] \in Int
    BY DEF TypeInv, TypeOK, RecvTypeOK, Id
  <2> QED
    BY <2>1, <2>2, <2>3 DEF InOrder
<1>4. CASE UNCHANGED <<recv_id, delivered>>
  BY <1>4 DEF InOrder
<1>5. \/ UNCHANGED <<recv_id, delivered>>
      \/ \E f \in Endpoint : RecvPackage(f) \/ SkipDropped(f)
  BY Writers, RecvDataEffect, RecvAckEffect DEF recvVars
<1> QED
  BY <1>2, <1>3, <1>4, <1>5

\* Handing over package n after the packages 1 to n - 1.
LEMMA AppendNext ==
    ASSUME NEW n \in Nat \ {0}
    PROVE  Append([i \in 1..(n - 1) |-> i], n) = [i \in 1..n |-> i]
<1> DEFINE s == [i \in 1..(n - 1) |-> i]
           t == [i \in 1..n |-> i]
<1>1. s \in Seq(Nat) /\ Len(s) = n - 1
  OBVIOUS
<1>2. t \in Seq(Nat) /\ Len(t) = n
  OBVIOUS
<1>3. Append(s, n) \in Seq(Nat) /\ Len(Append(s, n)) = n
  BY <1>1
<1>4. \A i \in 1..n : Append(s, n)[i] = t[i]
  BY <1>1, <1>2
<1> QED
  BY <1>2, <1>3, <1>4

\* What recv_package hands over while the peer has dropped nothing.
LEMMA HandsOverNext ==
    ASSUME TypeInv, Kept, NEW e \in Endpoint, dropped[Peer(e)] = {},
           NEW i \in recv_pool[e], ComesNext(e, i)
    PROVE  i = recv_id[e] /\ i <= recv_ack_id[e]
<1> USE MaxIdAssumption
<1>1. i \in Int /\ recv_id[e] \in Int /\ recv_ack_id[e] \in Int
  BY DEF TypeInv, TypeOK, RecvTypeOK, Id
<1>2. /\ recv_id[e] <= recv_ack_id[e] + 1
      /\ recv_id[e]..recv_ack_id[e] \subseteq recv_pool[e]
      /\ recv_ack_id[e] + 1 \notin recv_pool[e]
  BY DEF Kept
<1>3. ASSUME recv_id[e] < i, i <= recv_ack_id[e] PROVE FALSE
  <2>1. recv_id[e] \in recv_id[e]..(i - 1) /\ recv_id[e] \in recv_id[e]..recv_ack_id[e]
    BY <1>1, <1>3
  <2> QED
    BY <1>2, <2>1 DEF ComesNext
<1>4. i = recv_id[e]
  BY <1>3 DEF ComesNext
<1> QED
  BY <1>1, <1>2, <1>4

LEMMA NextKept ==
    ASSUME TypeInv, NetGone, NoSendFrom, Kept, [Next]_vars
    PROVE  Kept'
<1> USE MaxIdAssumption
<1>1. TypeInv'
  BY NextTypeInv
<1> SUFFICES ASSUME NEW e \in Endpoint, dropped'[Peer(e)] = {}
             PROVE  /\ recv_id'[e] <= recv_ack_id'[e] + 1
                    /\ recv_id'[e]..recv_ack_id'[e] \subseteq recv_pool'[e]
                    /\ recv_ack_id'[e] + 1 \notin recv_pool'[e]
                    /\ delivered'[e] = [i \in 1..(recv_id'[e] - 1) |-> i]
                    /\ \A i \in arrived'[e] : i < recv_id'[e] \/ i \in recv_pool'[e]
  BY DEF Kept
<1> DEFINE Goal ==
        /\ recv_id'[e] <= recv_ack_id'[e] + 1
        /\ recv_id'[e]..recv_ack_id'[e] \subseteq recv_pool'[e]
        /\ recv_ack_id'[e] + 1 \notin recv_pool'[e]
        /\ delivered'[e] = [i \in 1..(recv_id'[e] - 1) |-> i]
        /\ \A i \in arrived'[e] : i < recv_id'[e] \/ i \in recv_pool'[e]
<1>2. Peer(e) \in Endpoint /\ dropped[Peer(e)] = {}
  BY PeerProp, Monotonic
<1>3. /\ recv_id[e] <= recv_ack_id[e] + 1
      /\ recv_id[e]..recv_ack_id[e] \subseteq recv_pool[e]
      /\ recv_ack_id[e] + 1 \notin recv_pool[e]
      /\ delivered[e] = [i \in 1..(recv_id[e] - 1) |-> i]
      /\ \A i \in arrived[e] : i < recv_id[e] \/ i \in recv_pool[e]
  BY <1>2 DEF Kept
<1>4. recv_id[e] \in 1..(MaxId + 1) /\ recv_ack_id[e] \in 0..(MaxId + 1)
  BY DEF TypeInv, TypeOK, RecvTypeOK
<1>5. ASSUME /\ recv_id'[e] = recv_id[e] /\ recv_ack_id'[e] = recv_ack_id[e]
             /\ recv_pool'[e] = recv_pool[e] /\ delivered'[e] = delivered[e]
             /\ arrived'[e] = arrived[e]
      PROVE  Goal
  BY <1>3, <1>5
<1>6. ASSUME NEW m \in net, RecvData(m.to, m) PROVE Goal
  <2>1. PICK pool \in SUBSET Id, una \in 0..(MaxId + 1), acked \in 0..(MaxId + 1) :
          DataEffect(m.to, m, pool, una, acked)
    BY <1>6, RecvDataEffect
  <2>2. m.to \in Endpoint /\ m.id \in Id /\ UNCHANGED <<recv_id, delivered>>
    BY <1>6, RecvDataEffect
  <2>3. CASE m.to # e
    <3>1. /\ recv_ack_id'[e] = recv_ack_id[e] /\ recv_pool'[e] = recv_pool[e]
          /\ arrived'[e] = arrived[e]
      BY <2>1, <2>2, <2>3 DEF DataEffect, TypeInv, TypeOK, RecvTypeOK
    <3> QED
      BY <1>5, <2>2, <3>1
  <2>4. CASE m.to = e
    <3>1. /\ recv_ack_id'[e] = una /\ recv_pool'[e] = pool
          /\ arrived'[e] = arrived[e] \union {m.id}
          /\ recv_id'[e] = recv_id[e] /\ delivered'[e] = delivered[e]
      BY <2>1, <2>2, <2>4 DEF DataEffect, TypeInv, TypeOK, RecvTypeOK
    <3>2. /\ pool = recv_pool[e] \union {m.id} \/ (pool = recv_pool[e] /\ m.id <= recv_ack_id[e])
          /\ una >= recv_ack_id[e]
          /\ (recv_ack_id[e] + 1)..una \subseteq pool
          /\ una + 1 \notin pool
      BY <2>1, <2>4 DEF DataEffect
    <3>3. recv_id[e]..una \subseteq pool
      <4> SUFFICES ASSUME NEW j \in recv_id[e]..una PROVE j \in pool
        OBVIOUS
      <4>1. j \in recv_id[e]..recv_ack_id[e] \/ j \in (recv_ack_id[e] + 1)..una
        BY <1>4
      <4> QED
        BY <1>3, <3>2, <4>1
    <3>4. m.id < recv_id[e] \/ m.id \in pool
      <4>1. CASE m.id <= recv_ack_id[e]
        <5>1. m.id < recv_id[e] \/ m.id \in recv_id[e]..recv_ack_id[e]
          BY <1>4, <2>2, <4>1 DEF Id
        <5> QED
          BY <1>3, <3>2, <5>1
      <4> QED
        BY <3>2, <4>1
    <3>5. \A i \in arrived'[e] : i < recv_id[e] \/ i \in pool
      BY <1>3, <3>1, <3>2, <3>4
    <3> QED
      BY <1>3, <1>4, <3>1, <3>2, <3>3, <3>5
  <2> QED
    BY <2>3, <2>4
<1>7. ASSUME NEW m \in net, RecvAck(m.to, m) PROVE Goal
  <2>1. PICK pool \in SUBSET Id, una \in 0..(MaxId + 1), acked \in 0..(MaxId + 1) :
          AckEffect(m.to, m, pool, una, acked)
    BY <1>7, RecvAckEffect
  <2>2. /\ m.type = "Ack" /\ m.to \in Endpoint /\ m.send_from \in 0..(MaxId + 1)
        /\ UNCHANGED <<recv_pool, recv_id, delivered, arrived>>
    BY <1>7, RecvAckEffect
  <2>3. recv_ack_id'[e] = recv_ack_id[e]
    <3>1. CASE m.to # e
      BY <2>1, <2>2, <3>1 DEF AckEffect, TypeInv, TypeOK, RecvTypeOK
    <3>2. CASE m.to = e
      <4>1. m.send_from <= 0
        BY <1>2, <2>2, <3>2 DEF NetGone, NoSendFrom
      <4>2. una = recv_ack_id[e]
        BY <1>4, <2>1, <2>2, <3>2, <4>1 DEF AckEffect
      <4> QED
        BY <2>1, <3>2, <4>2 DEF AckEffect, TypeInv, TypeOK, RecvTypeOK
    <3> QED
      BY <3>1, <3>2
  <2> QED
    BY <1>5, <2>2, <2>3
<1>8. ASSUME NEW f \in Endpoint, RecvPackage(f) PROVE Goal
  <2>1. PICK i \in recv_pool[f] :
          /\ ComesNext(f, i)
          /\ recv_id' = [recv_id EXCEPT ![f] = i + 1]
          /\ delivered' = [delivered EXCEPT ![f] = Append(delivered[f], i)]
          /\ recv_pool' = [recv_pool EXCEPT ![f] = @ \ {i}]
          /\ UNCHANGED <<recv_ack_id, arrived>>
    BY <1>8 DEF RecvPackage
  <2>2. CASE f # e
    <3>1. /\ recv_id'[e] = recv_id[e] /\ delivered'[e] = delivered[e]
          /\ recv_pool'[e] = recv_pool[e]
      BY <2>1, <2>2 DEF TypeInv, TypeOK, RecvTypeOK
    <3> QED
      BY <1>5, <2>1, <3>1
  <2>3. CASE f = e
    <3>1. i = recv_id[e] /\ i <= recv_ack_id[e]
      BY <1>2, <2>1, <2>3, HandsOverNext
    <3>2. /\ recv_id'[e] = recv_id[e] + 1
          /\ delivered'[e] = Append(delivered[e], recv_id[e])
          /\ recv_pool'[e] = recv_pool[e] \ {recv_id[e]}
          /\ recv_ack_id'[e] = recv_ack_id[e] /\ arrived'[e] = arrived[e]
      BY <2>1, <2>3, <3>1 DEF TypeInv, TypeOK, RecvTypeOK
    <3>3. delivered'[e] = [j \in 1..recv_id[e] |-> j]
      BY <1>3, <1>4, <3>2, AppendNext
    <3>4. recv_id'[e] - 1 = recv_id[e]
      BY <1>4, <3>2
    <3>5. recv_id'[e]..recv_ack_id'[e] \subseteq recv_pool'[e]
      BY <1>3, <1>4, <3>2
    <3>6. \A j \in arrived'[e] : j < recv_id'[e] \/ j \in recv_pool'[e]
      <4>1. \A j \in arrived[e] : j \in Int
        BY DEF TypeInv, TypeOK, RecvTypeOK, Id
      <4> QED
        BY <1>3, <1>4, <3>2, <4>1
    <3> QED
      BY <1>3, <1>4, <3>1, <3>2, <3>3, <3>4, <3>5, <3>6
  <2> QED
    BY <2>2, <2>3
<1>9. ASSUME NEW f \in Endpoint, SkipDropped(f) PROVE Goal
  <2>1. /\ recv_id[f] < recv_ack_id[f]
        /\ recv_id[f]..recv_ack_id[f] \intersect recv_pool[f] = {}
        /\ recv_id' = [recv_id EXCEPT ![f] = recv_ack_id[f]]
        /\ UNCHANGED <<recv_ack_id, recv_pool, delivered, arrived>>
    BY <1>9 DEF SkipDropped
  <2>2. f # e
    <3> SUFFICES ASSUME f = e PROVE FALSE
      OBVIOUS
    <3>1. recv_id[e] \in recv_id[e]..recv_ack_id[e]
      BY <1>4, <2>1
    <3> QED
      BY <1>3, <2>1, <3>1
  <2> QED
    BY <1>5, <2>1, <2>2 DEF TypeInv, TypeOK, RecvTypeOK
<1>10. UNCHANGED recvVars => Goal
  BY <1>5 DEF recvVars
<1> HIDE DEF Goal
<1>11. Goal
  BY <1>6, <1>7, <1>8, <1>9, <1>10, Writers
<1> QED
  BY <1>11 DEF Goal

LEMMA NextSafeInv == TypeInv /\ SafeInv /\ [Next]_vars => SafeInv'
  BY NextExist, NextWaitExist, NextListedArrived, NextUnaGone, NextNetGone, NextAckGone, NextNoSendFrom,
     NextKept, NextInOrder DEF SafeInv

LEMMA SafeInvariant == Spec => [](TypeInv /\ SafeInv)
<1>1. Init => TypeInv /\ SafeInv
  BY InitTypeInv, InitSafeInv
<1>2. TypeInv /\ SafeInv /\ [Next]_vars => (TypeInv /\ SafeInv)'
  BY NextTypeInv, NextSafeInv
<1> QED
  BY <1>1, <1>2, PTL DEF Spec

-----------------------------------------------------------------------------
(***************************************************************************)
(* No package is forgotten.  A package leaves a queue only for another one  *)
(* or for the ackhandler's hands, and ceases to exist only when it is       *)
(* acknowledged or dropped.                                                 *)
(***************************************************************************)
In(i, q) == \E k \in DOMAIN q : q[k] = i

Held(e, i) ==
    i = watched[e] \/ In(i, queue[e]) \/ In(i, resend_queue[e]) \/ In(i, ack_pool[e])

LEMMA InAppend ==
    ASSUME NEW q \in Seq(Id), NEW j \in Id
    PROVE  In(j, Append(q, j)) /\ \A i \in Id : In(i, q) => In(i, Append(q, j))
<1>1. Append(q, j)[Len(q) + 1] = j /\ Len(q) + 1 \in DOMAIN Append(q, j)
  OBVIOUS
<1>2. \A k \in DOMAIN q : k \in DOMAIN Append(q, j) /\ Append(q, j)[k] = q[k]
  OBVIOUS
<1> QED
  BY <1>1, <1>2 DEF In

LEMMA InTail ==
    ASSUME NEW q \in Seq(Id), q # <<>>
    PROVE  \A i \in Id : In(i, q) => i = Head(q) \/ In(i, Tail(q))
<1> SUFFICES ASSUME NEW k \in DOMAIN q, k # 1 PROVE k - 1 \in DOMAIN Tail(q) /\ Tail(q)[k - 1] = q[k]
  BY DEF In
<1> QED
  OBVIOUS

\* Every entry that pop passes over has a later one behind the entry it returns.
LEMMA PopKeeps ==
    ASSUME NEW q \in Seq(Id), q # <<>>, NEW i \in Id, In(i, q)
    PROVE  i = q[PopIndex(q)] \/ In(i, SubSeq(q, PopIndex(q) + 1, Len(q)))
<1> DEFINE n == PopIndex(q)
           X == {x \in DOMAIN q : q[x] = i}
           T == {Len(q) - x : x \in X}
<1>1. n \in DOMAIN q /\ \A x \in 1..(n - 1) : \E j \in DOMAIN q : j > x /\ q[j] = q[x]
  BY PopIndexProp
<1>2. Len(q) \in Nat /\ DOMAIN q = 1..Len(q)
  OBVIOUS
<1>3. PICK x \in X : \A y \in X : y <= x
  <2>1. X # {} /\ \A x \in X : x \in 1..Len(q)
    BY <1>2 DEF In
  <2> HIDE DEF X
  <2>2. T \subseteq Nat /\ T # {}
    BY <1>2, <2>1
  <2> HIDE DEF T
  <2>3. PICK t \in T : \A y \in T : t <= y
    BY <2>2, LeastNat
  <2> USE DEF T
  <2>4. PICK x \in X : t = Len(q) - x
    BY <2>3
  <2>5. ASSUME NEW y \in X PROVE y <= x
    <3>1. Len(q) - x <= Len(q) - y
      BY <2>3, <2>4
    <3> QED
      BY <1>2, <2>1, <3>1
  <2> QED
    BY <2>5
<1>4. x \in 1..Len(q) /\ n \in 1..Len(q) /\ q[x] = i
  BY <1>1, <1>2
<1> HIDE DEF n
<1>5. CASE x < n
  <2>1. PICK j \in DOMAIN q : j > x /\ q[j] = q[x]
    BY <1>1, <1>2, <1>4, <1>5
  <2> QED
    BY <1>2, <1>3, <1>4, <2>1
<1>6. CASE x > n
  <2> DEFINE r == SubSeq(q, n + 1, Len(q))
  <2>1. DOMAIN r = 1..(Len(q) - n) /\ \A k \in DOMAIN r : r[k] = q[n + k]
    BY <1>4, SuffixEntry
  <2> HIDE DEF r
  <2>2. x - n \in DOMAIN r /\ r[x - n] = i
    BY <1>2, <1>4, <1>6, <2>1
  <2> QED
    BY <2>2 DEF In, r, n
<1>7. CASE x = n
  BY <1>4, <1>7 DEF n
<1> QED
  BY <1>2, <1>4, <1>5, <1>6, <1>7

\* What has been acknowledged stays so.
LEMMA AckedMonotonic ==
    ASSUME TypeInv, [Next]_vars, NEW e \in Endpoint, NEW i \in Id, Acked(e, i)
    PROVE  Acked(e, i)'
<1>0. TypeInv'
  BY NextTypeInv
<1>1. send_ack_id[e] \in Int /\ send_ack_id'[e] \in Int /\ send_ack_id[e] <= send_ack_id'[e]
  BY <1>0, Monotonic DEF TypeInv, TypeOK, AckTypeOK
<1>2. ack_recv_pool[e] \subseteq ack_recv_pool'[e]
  <2>1. ASSUME NEW m \in net, RecvAck(m.to, m) PROVE ack_recv_pool[e] \subseteq ack_recv_pool'[e]
    <3>1. \E S : ack_recv_pool' = [ack_recv_pool EXCEPT ![m.to] = ack_recv_pool[m.to] \union S]
      BY <2>1 DEF RecvAck
    <3> QED
      BY <3>1 DEF TypeInv, TypeOK, AckTypeOK
  <2>2. ASSUME NEW m \in net, RecvData(m.to, m) PROVE UNCHANGED ack_recv_pool
    BY <2>2 DEF RecvData
  <2> QED
    BY <2>1, <2>2, Writers
<1> QED
  BY <1>1, <1>2, MaxIdAssumption DEF Acked, Id

\* PackageQueueMap::erase frees at most the package it is called for.
LEMMA EraseKeeps ==
    ASSUME PoolTypeOK, NEW f \in Endpoint, NEW j, Erase(f, j), NEW e \in Endpoint, NEW i \in live[e],
           ~(e = f /\ i = j)
    PROVE  i \in live'[e]
  BY DEF Erase, PoolTypeOK

LEMMA NextTracked == TypeInv /\ NoPackageForgotten /\ [Next]_vars => NoPackageForgotten'
<1> SUFFICES ASSUME TypeInv, NoPackageForgotten, [Next]_vars,
                    NEW e \in Endpoint, NEW i \in 1..(send_id'[e] - 1),
                    ~Acked(e, i)', i \notin dropped'[e]
             PROVE  i \in live'[e] /\ Held(e, i)'
  BY DEF NoPackageForgotten, Held, In
<1> USE MaxIdAssumption
<1>0. TypeInv'
  BY NextTypeInv
<1>1. i \in Id /\ send_id[e] \in Nat
  BY <1>0 DEF TypeInv, TypeOK, Id
<1>2. ~Acked(e, i) /\ i \notin dropped[e]
  BY <1>1, AckedMonotonic, Monotonic
<1>q. /\ queue \in [Endpoint -> Seq(Id)] /\ resend_queue \in [Endpoint -> Seq(Id)]
      /\ ack_pool \in [Endpoint -> Seq(Id)] /\ watched \in [Endpoint -> Id \union {0}]
      /\ live \in [Endpoint -> SUBSET Id] /\ PoolTypeOK
  BY DEF TypeInv, TypeOK, PoolTypeOK, WaitTypeOK
<1>3. CASE i \in 1..(send_id[e] - 1)
  <2>1. i \in live[e] /\ Held(e, i)
    BY <1>2, <1>3 DEF NoPackageForgotten, Held, In
  <2>p. ASSUME NEW f \in Endpoint, PushPackage(f) PROVE i \in live'[e] /\ Held(e, i)'
    <3>1. /\ live' = [live EXCEPT ![f] = @ \union {send_id[f]}]
          /\ queue' = [queue EXCEPT ![f] = Append(@, send_id[f])]
          /\ UNCHANGED <<resend_queue, ack_pool, watched>>
      BY <2>p DEF PushPackage, waitVars
    <3>2. send_id[f] \in Id
      BY <2>p, <1>0 DEF PushPackage, TypeInv, TypeOK, Id
    <3>3. i \in live'[e]
      BY <1>q, <2>1, <3>1
    <3>4. In(i, queue[e]) => In(i, queue'[e])
      BY <1>1, <1>q, <3>1, <3>2, InAppend
    <3> QED
      BY <2>1, <3>1, <3>3, <3>4 DEF Held
  <2>s. ASSUME NEW f \in Endpoint, SendPackage(f) PROVE i \in live'[e] /\ Held(e, i)'
    <3>0. live' = live /\ watched' = watched
      BY <2>s DEF SendPackage
    <3>1. CASE f # e
      <4>1. queue'[e] = queue[e] /\ resend_queue'[e] = resend_queue[e] /\ ack_pool'[e] = ack_pool[e]
        BY <1>q, <2>s, <3>1 DEF SendPackage
      <4> QED
        BY <2>1, <3>0, <4>1 DEF Held
    <3>2. CASE f = e
      <4> DEFINE again == resend_queue[e] # <<>>
                 j == IF again THEN Head(resend_queue[e]) ELSE Head(queue[e])
      <4>1. /\ again \/ queue[e] # <<>>
            /\ IF again
               THEN resend_queue'[e] = Tail(resend_queue[e]) /\ queue'[e] = queue[e]
               ELSE queue'[e] = Tail(queue[e]) /\ resend_queue'[e] = resend_queue[e]
            /\ IF j \in live[e] THEN ack_pool'[e] = Append(ack_pool[e], j) ELSE ack_pool'[e] = ack_pool[e]
        BY <1>q, <2>s, <3>2 DEF SendPackage
      <4>t. queue[e] \in Seq(Id) /\ resend_queue[e] \in Seq(Id) /\ ack_pool[e] \in Seq(Id)
        BY <1>q
      <4>j. j \in Id
        BY <4>t, <4>1
      <4>2. \/ i = j
            \/ /\ In(i, queue[e]) => In(i, queue'[e])
               /\ In(i, resend_queue[e]) => In(i, resend_queue'[e])
        <5>1. CASE again
          <6>1. In(i, resend_queue[e]) => i = Head(resend_queue[e]) \/ In(i, Tail(resend_queue[e]))
            BY <1>1, <4>t, <5>1, InTail
          <6> QED
            BY <4>1, <5>1, <6>1
        <5>2. CASE ~again
          <6>1. In(i, queue[e]) => i = Head(queue[e]) \/ In(i, Tail(queue[e]))
            BY <1>1, <4>t, <4>1, <5>2, InTail
          <6> QED
            BY <4>1, <5>2, <6>1
        <5> QED
          BY <5>1, <5>2
      <4> HIDE DEF j
      <4>p. In(j, Append(ack_pool[e], j)) /\ (In(i, ack_pool[e]) => In(i, Append(ack_pool[e], j)))
        BY <1>1, <4>t, <4>j, InAppend
      <4>3. In(i, ack_pool[e]) => In(i, ack_pool'[e])
        BY <4>1, <4>p
      <4>4. i = j => In(i, ack_pool'[e])
        BY <2>1, <4>1, <4>p
      <4> QED
        BY <2>1, <3>0, <4>2, <4>3, <4>4 DEF Held
    <3> QED
      BY <3>1, <3>2
  <2>w. ASSUME NEW f \in Endpoint, WatchPackage(f) PROVE i \in live'[e] /\ Held(e, i)'
    <3> DEFINE q == ack_pool[f]
               j == q[PopIndex(q)]
    <3>1. /\ watched[f] = 0 /\ q # <<>>
          /\ ack_pool' = [ack_pool EXCEPT ![f] = SubSeq(@, PopIndex(q) + 1, Len(@))]
          /\ UNCHANGED <<queue, resend_queue>>
      BY <2>w DEF WatchPackage
    <3>2. \/ Erase(f, j) /\ dropped' = [dropped EXCEPT ![f] = @ \union {j}] /\ UNCHANGED watched
          \/ Erase(f, j) /\ Acked(f, j) /\ UNCHANGED watched
          \/ live' = live /\ watched' = [watched EXCEPT ![f] = j]
      BY <2>w DEF WatchPackage
    <3>3. q \in Seq(Id) /\ j \in Id
      BY <1>q, <3>1, PopIndexProp
    <3>4. ack_pool'[f] = SubSeq(q, PopIndex(q) + 1, Len(q)) /\ (e # f => ack_pool'[e] = ack_pool[e])
      BY <1>q, <3>1
    <3>5. e = f /\ In(i, ack_pool[e]) => i = j \/ In(i, ack_pool'[e])
      BY <1>1, <3>1, <3>3, <3>4, PopKeeps
    <3> HIDE DEF j, q
    <3>6. CASE e = f /\ i = j
      <4>1. watched' = [watched EXCEPT ![f] = j] /\ live' = live
        BY <1>2, <3>2, <3>6 DEF TypeInv, TypeOK, WaitTypeOK
      <4> QED
        BY <1>q, <2>1, <3>6, <4>1 DEF Held
    <3>7. CASE ~(e = f /\ i = j)
      <4>1. i \in live'[e]
        BY <1>q, <2>1, <3>2, <3>7, EraseKeeps
      <4>2. i = watched[e] => i = watched'[e]
        BY <1>1, <1>q, <3>1, <3>2 DEF Id
      <4>3. In(i, ack_pool[e]) => In(i, ack_pool'[e])
        BY <3>4, <3>5, <3>7
      <4> QED
        BY <2>1, <3>1, <4>1, <4>2, <4>3 DEF Held
    <3> QED
      BY <3>6, <3>7
  <2>l. ASSUME NEW f \in Endpoint, ReleasePackage(f) PROVE i \in live'[e] /\ Held(e, i)'
    <3>1. /\ Acked(f, watched[f]) /\ Erase(f, watched[f]) /\ watched' = [watched EXCEPT ![f] = 0]
          /\ UNCHANGED <<queue, resend_queue, ack_pool>>
      BY <2>l DEF ReleasePackage
    <3>2. ~(e = f /\ i = watched[f])
      BY <1>2, <3>1
    <3>3. i \in live'[e]
      BY <1>q, <2>1, <3>1, <3>2, EraseKeeps
    <3>4. i = watched[e] => i = watched'[e]
      BY <1>q, <3>1, <3>2
    <3> QED
      BY <2>1, <3>1, <3>3, <3>4 DEF Held
  <2>r. ASSUME NEW f \in Endpoint, ResendPackage(f) PROVE i \in live'[e] /\ Held(e, i)'
    <3>1. /\ resend_queue' = [resend_queue EXCEPT ![f] = Append(@, watched[f])] /\ watched[f] # 0
          /\ watched' = [watched EXCEPT ![f] = 0] /\ UNCHANGED <<queue, ack_pool, live>>
      BY <2>r DEF ResendPackage
    <3>2. In(i, resend_queue[e]) \/ i = watched[e] => In(i, resend_queue'[e]) \/ i = watched'[e]
      <4>1. CASE e = f
        <5>1. watched[e] \in Id /\ resend_queue'[e] = Append(resend_queue[e], watched[e])
          BY <1>q, <3>1, <4>1
        <5> QED
          BY <1>1, <1>q, <5>1, InAppend
      <4>2. CASE e # f
        BY <1>q, <3>1, <4>2
      <4> QED
        BY <4>1, <4>2
    <3> QED
      BY <2>1, <3>1, <3>2 DEF Held
  <2>f. ASSUME NEW f \in Endpoint, FastResend(f) PROVE i \in live'[e] /\ Held(e, i)'
    <3>1. /\ UNCHANGED <<queue, ack_pool, live, watched>>
          /\ \/ UNCHANGED resend_queue
             \/ /\ resend_now[f] + 1 < fast_to[f]
                /\ resend_queue' = [resend_queue EXCEPT ![f] = Append(@, resend_now[f] + 1)]
      BY <2>f DEF FastResend, waitVars
    <3>2. In(i, resend_queue[e]) => In(i, resend_queue'[e])
      <4>1. CASE UNCHANGED resend_queue
        BY <4>1
      <4>2. CASE /\ resend_now[f] + 1 < fast_to[f]
                 /\ resend_queue' = [resend_queue EXCEPT ![f] = Append(@, resend_now[f] + 1)]
        <5>1. resend_now[f] + 1 \in Id
          <6>1. resend_now[f] \in 0..(MaxId + 1) /\ fast_to[f] \in Id \union {0}
            BY DEF TypeInv, TypeOK, AckTypeOK
          <6>2. resend_now[f] + 1 < fast_to[f]
            BY <4>2
          <6> QED
            BY <6>1, <6>2 DEF Id
        <5> DEFINE j == resend_now[f] + 1
        <5>2. resend_queue[f] \in Seq(Id) /\ j \in Id
          BY <1>q, <5>1
        <5> HIDE DEF j
        <5>3. In(i, resend_queue[f]) => In(i, Append(resend_queue[f], j))
          BY <1>1, <5>2, InAppend
        <5> USE DEF j
        <5>4. resend_queue'[e] = IF e = f THEN Append(resend_queue[f], j) ELSE resend_queue[e]
          BY <1>q, <4>2
        <5> HIDE DEF j
        <5> QED
          BY <5>3, <5>4
      <4> QED
        BY <3>1, <4>1, <4>2
    <3> QED
      BY <2>1, <3>1, <3>2 DEF Held
  <2>u. CASE UNCHANGED <<queue, resend_queue, live, watched, ack_pool>>
    BY <2>1, <2>u DEF Held
  <2>o. ASSUME NEW f \in Endpoint,
               TakeSegments(f) \/ TakeAcks(f) \/ SendAck(f) \/ RecvPackage(f) \/ SkipDropped(f)
        PROVE  UNCHANGED <<queue, resend_queue, live, watched, ack_pool>>
    BY <2>o DEF TakeSegments, TakeAcks, SendAck, RecvPackage, SkipDropped, poolVars, waitVars
  <2>n. ASSUME NEW m \in net, RecvData(m.to, m) \/ RecvAck(m.to, m) \/ Lose(m)
        PROVE  UNCHANGED <<queue, resend_queue, live, watched, ack_pool>>
    BY <2>n DEF RecvData, RecvAck, Lose, poolVars, waitVars
  <2>v. UNCHANGED vars => UNCHANGED <<queue, resend_queue, live, watched, ack_pool>>
    BY DEF vars, poolVars, waitVars
  <2> QED
    BY <2>p, <2>s, <2>w, <2>l, <2>r, <2>f, <2>u, <2>o, <2>n, <2>v, Zenon DEF Next
<1>4. CASE i \notin 1..(send_id[e] - 1)
  <2>1. send_id'[e] # send_id[e]
    BY <1>4
  <2>2. PICK f \in Endpoint : PushPackage(f)
    BY <2>1, Writers
  <2>3. /\ send_id' = [send_id EXCEPT ![f] = @ + 1]
        /\ live' = [live EXCEPT ![f] = @ \union {send_id[f]}]
        /\ queue' = [queue EXCEPT ![f] = Append(@, send_id[f])]
    BY <2>2 DEF PushPackage
  <2>4. f = e
    BY <2>1, <2>3 DEF TypeInv, TypeOK
  <2>5. send_id'[e] = send_id[e] + 1
    BY <2>3, <2>4 DEF TypeInv, TypeOK
  <2>6. i = send_id[e]
    BY <1>1, <1>4, <2>5 DEF Id
  <2>7. i \in live'[e] /\ queue'[e] = Append(queue[e], i)
    BY <1>q, <2>3, <2>4, <2>6
  <2>8. In(i, queue'[e])
    BY <1>1, <1>q, <2>7, InAppend
  <2> QED
    BY <2>7, <2>8 DEF Held
<1> QED
  BY <1>3, <1>4

\* Every package the segment thread has numbered is acknowledged, or dropped,
\* or still exists in a queue or in the ackhandler's hands: between the queues
\* of PackageQueueMap and AckWaitList none is lost, whatever is sent again.
THEOREM NoneForgotten == Spec => []NoPackageForgotten
<1>1. Init => NoPackageForgotten
  BY DEF Init, NoPackageForgotten
<1>2. Init => TypeInv
  BY InitTypeInv
<1>3. TypeInv /\ NoPackageForgotten /\ [Next]_vars => (TypeInv /\ NoPackageForgotten)'
  BY NextTypeInv, NextTracked
<1> QED
  BY <1>1, <1>2, <1>3, PTL DEF Spec

-----------------------------------------------------------------------------
(***************************************************************************)
(* The safety properties                                                    *)
(***************************************************************************)

\* The sender takes a package as acknowledged, and frees it, only when the
\* package has reached the peer or lies below an announced send_from; the one
\* exception is an id that the memory of ack_recv_pool held from the start.
THEOREM AcksAreSound == Spec => []AckMeansArrived
<1>1. AckGone => AckMeansArrived
  BY MaxIdAssumption DEF AckGone, AckMeansArrived, Gone, Id
<1>2. TypeInv /\ SafeInv => AckMeansArrived
  BY <1>1 DEF SafeInv
<1> QED
  BY <1>2, SafeInvariant, PTL

\* The unsigned window computation never wraps: what is acknowledged has
\* arrived, hence was numbered, or lies below send_from, which is at most the id
\* that is numbered next.
THEOREM NoWrap == Spec => []WindowNeverWraps
<1>1. ASSUME TypeInv, SafeInv PROVE WindowNeverWraps
  <2> SUFFICES ASSUME StaleIds = {}, NEW e \in Endpoint PROVE send_ack_id[e] <= send_id[e]
    BY DEF WindowNeverWraps
  <2> DEFINE n == send_ack_id[e]
  <2>1. n \in 0..(MaxId + 1) /\ send_id[e] \in 1..(MaxId + 1) /\ send_from[e] \in Int
    BY <1>1, MaxIdAssumption DEF TypeInv, TypeOK, AckTypeOK, WaitTypeOK
  <2>2. CASE n = 0
    BY <2>1, <2>2, MaxIdAssumption
  <2>3. CASE n # 0
    <3>1. n \in 1..(MaxId + 1) /\ Acked(e, n)
      BY <2>1, <2>3, MaxIdAssumption DEF Acked
    <3> HIDE DEF n
    <3>2. Gone(e, n)
      BY <1>1, <3>1 DEF SafeInv, AckGone
    <3>3. Peer(e) \in Endpoint /\ Peer(Peer(e)) = e
      BY PeerProp
    <3>4. n \in arrived[Peer(e)] => n < send_id[e]
      BY <1>1, <3>3 DEF SafeInv, ArrivedExist
    <3>5. send_from[e] <= send_id[e]
      BY <1>1 DEF SafeInv, WaitExist
    <3>6. n <= send_id[e]
      BY <2>1, <3>1, <3>2, <3>4, <3>5, MaxIdAssumption DEF Gone
    <3> QED
      BY <3>6 DEF n
  <2> QED
    BY <2>2, <2>3
<1> QED
  BY <1>1, SafeInvariant, PTL

\* recv_package hands over the peer's packages in order and none twice.
THEOREM OrderKept == Spec => []DeliveredInOrder
<1>1. TypeInv /\ SafeInv => DeliveredInOrder
  BY DEF SafeInv, InOrder, DeliveredInOrder
<1> QED
  BY <1>1, SafeInvariant, PTL

\* Until the peer drops a package, recv_package has left none out.
THEOREM NothingMissing == Spec => []CompleteUntilDrop
<1>1. TypeInv /\ SafeInv => CompleteUntilDrop
  BY DEF SafeInv, Kept, CompleteUntilDrop
<1> QED
  BY <1>1, SafeInvariant, PTL

\* Until a sender drops a package, what it takes as acknowledged is in the
\* peer's recv_pool or in the hands of the peer's application.
THEOREM AckedSurvives == Spec => []AckedIsKept
<1>1. ASSUME TypeInv, SafeInv PROVE AckedIsKept
  <2> SUFFICES ASSUME NEW e \in Endpoint, NEW i \in Id, dropped[e] = {}, Acked(e, i),
                      i \notin StaleIds, i \notin recv_pool[Peer(e)]
               PROVE  \E k \in DOMAIN delivered[Peer(e)] : delivered[Peer(e)][k] = i
    BY DEF AckedIsKept
  <2>1. i \in 1..(MaxId + 1) /\ i > 0 /\ i \in Int
    BY MaxIdAssumption DEF Id
  <2>2. Peer(e) \in Endpoint /\ Peer(Peer(e)) = e
    BY PeerProp
  <2>3. i \in arrived[Peer(e)]
    BY <1>1, <2>1 DEF SafeInv, AckGone, NoSendFrom, Gone
  <2>4. /\ i < recv_id[Peer(e)]
        /\ delivered[Peer(e)] = [j \in 1..(recv_id[Peer(e)] - 1) |-> j]
    BY <1>1, <2>2, <2>3 DEF SafeInv, Kept
  <2>5. recv_id[Peer(e)] \in Int
    BY <1>1, <2>2, MaxIdAssumption DEF TypeInv, TypeOK, RecvTypeOK
  <2>6. i \in 1..(recv_id[Peer(e)] - 1)
    BY <2>1, <2>4, <2>5
  <2> QED
    BY <2>4, <2>6
<1> QED
  BY <1>1, SafeInvariant, PTL

-----------------------------------------------------------------------------
(***************************************************************************)
(* Refinement                                                               *)
(***************************************************************************)
LEMMA InitChannel == Init => C!Init
<1> SUFFICES ASSUME Init PROVE C!Init
  OBVIOUS
<1>1. C!Endpoint = Endpoint
  BY DEF C!Endpoint, Endpoint
<1>2. [e \in Endpoint |-> send_id[e] - 1] = [e \in Endpoint |-> 0]
  BY DEF Init
<1>3. [e \in Endpoint |-> dropped[e] # {}] = [e \in Endpoint |-> FALSE]
  BY DEF Init
<1>4. delivered = [e \in Endpoint |-> <<>>]
  BY DEF Init
<1> QED
  BY <1>1, <1>2, <1>3, <1>4, Zenon DEF C!Init

LEMMA NextChannel ==
    ASSUME TypeInv, SafeInv, [Next]_vars
    PROVE  [C!Next]_C!vars
<1> USE MaxIdAssumption
<1>1. C!Endpoint = Endpoint /\ \A e : C!Other(e) = Peer(e)
  BY DEF C!Endpoint, Endpoint, C!Other, Peer
<1>2. ASSUME NEW f \in Endpoint, PushPackage(f) PROVE C!Send(f)
  <2>1. send_id' = [send_id EXCEPT ![f] = @ + 1] /\ UNCHANGED <<delivered, dropped>>
    BY <1>2 DEF PushPackage, recvVars, waitVars
  <2> DEFINE sent == [e \in Endpoint |-> send_id[e] - 1]
  <2>2. sent' = [sent EXCEPT ![f] = sent[f] + 1]
    <3>1. \A e \in Endpoint : send_id[e] \in Int
      BY DEF TypeInv, TypeOK
    <3>2. send_id'[f] - 1 = send_id[f] - 1 + 1
      BY <2>1, <3>1 DEF TypeInv, TypeOK
    <3>3. \A e \in Endpoint \ {f} : send_id'[e] = send_id[e]
      BY <2>1 DEF TypeInv, TypeOK
    <3> QED
      BY <3>2, <3>3
  <2>3. UNCHANGED [e \in Endpoint |-> dropped[e] # {}]
    BY <2>1
  <2> QED
    BY <2>1, <2>2, <2>3, Zenon DEF C!Send
<1>3. ASSUME NEW f \in Endpoint, WatchPackage(f), ~UNCHANGED <<send_from, dropped>>
      PROVE  C!GiveUp(f)
  <2>1. PICK i \in Id, n \in send_from[f]..(MaxId + 1) :
            dropped' = [dropped EXCEPT ![f] = @ \union {i}]
    BY <1>3, WatchEffect
  <2>2. UNCHANGED <<send_id, delivered>>
    BY <1>3 DEF WatchPackage, recvVars
  <2> QED
    BY <2>1, <2>2 DEF C!GiveUp, TypeInv, TypeOK, WaitTypeOK
<1>4. ASSUME NEW f \in Endpoint, RecvPackage(f) PROVE C!Deliver(f)
  <2>1. PICK i \in recv_pool[f] :
          /\ ComesNext(f, i)
          /\ delivered' = [delivered EXCEPT ![f] = Append(@, i)]
          /\ UNCHANGED <<send_id, dropped>>
    BY <1>4 DEF RecvPackage, waitVars
  <2>2. i \in Id /\ recv_id[f] \in Nat \ {0} /\ Peer(f) \in Endpoint /\ delivered[f] \in Seq(Id)
    BY PeerProp DEF TypeInv, TypeOK, RecvTypeOK
  <2>3. i \in 1..(send_id[Peer(f)] - 1)
    <3>1. i < send_id[Peer(f)]
      BY <2>1 DEF SafeInv, ListedArrived, ArrivedExist
    <3> QED
      BY <2>2, <3>1 DEF TypeInv, TypeOK, Id
  <2>4. \A k \in 1..Len(delivered[f]) : delivered[f][k] < i
    <3>1. recv_id[f] <= i
      BY <2>1, <2>2 DEF ComesNext, Id
    <3>2. \A k \in DOMAIN delivered[f] : delivered[f][k] < recv_id[f]
      BY DEF SafeInv, InOrder
    <3> QED
      BY <2>2, <3>1, <3>2 DEF Id
  <2>5. dropped[Peer(f)] = {} => i = Len(delivered[f]) + 1
    <3> SUFFICES ASSUME dropped[Peer(f)] = {} PROVE i = Len(delivered[f]) + 1
      OBVIOUS
    <3>1. i = recv_id[f]
      BY <2>1, HandsOverNext DEF SafeInv
    <3>2. delivered[f] = [j \in 1..(recv_id[f] - 1) |-> j]
      BY DEF SafeInv, Kept
    <3>3. Len(delivered[f]) = recv_id[f] - 1
      BY <2>2, <3>2
    <3> QED
      BY <2>2, <3>1, <3>3
  <2> QED
    BY <1>1, <2>1, <2>2, <2>3, <2>4, <2>5 DEF C!Deliver
<1>5. ASSUME UNCHANGED <<send_id, delivered, dropped>> PROVE UNCHANGED C!vars
  BY <1>5 DEF C!vars
<1>6. \/ \E f \in Endpoint : PushPackage(f) \/ RecvPackage(f)
      \/ \E f \in Endpoint : WatchPackage(f) /\ ~UNCHANGED <<send_from, dropped>>
      \/ UNCHANGED <<send_id, delivered, dropped>>
  <2>1. \A m \in net : RecvData(m.to, m) \/ RecvAck(m.to, m) => UNCHANGED delivered
    BY RecvDataEffect, RecvAckEffect
  <2>2. \A f \in Endpoint : SkipDropped(f) => UNCHANGED delivered
    BY DEF SkipDropped
  <2> QED
    BY <2>1, <2>2, Writers, Zenon DEF recvVars
<1>7. \/ \E f \in C!Endpoint : C!Send(f) \/ C!GiveUp(f) \/ C!Deliver(f)
      \/ UNCHANGED C!vars
  BY <1>1, <1>2, <1>3, <1>4, <1>5, <1>6
<1> QED
  BY <1>7 DEF C!Next

\* ReliableSocket implements the channel: to the applications, losing, repeating
\* and reordering datagrams, retransmitting, acknowledging and freeing packages
\* are invisible until a package is dropped.
THEOREM Refinement == Spec => ImplementsChannel
<1>1. Init => C!Init
  BY InitChannel
<1>2. TypeInv /\ SafeInv /\ [Next]_vars => [C!Next]_C!vars
  BY NextChannel
<1> QED
  BY <1>1, <1>2, SafeInvariant, PTL DEF Spec, C!Spec, ImplementsChannel

=============================================================================
