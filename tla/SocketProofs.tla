---------------------------- MODULE SocketProofs ----------------------------
(***************************************************************************)
(* Proofs about the threads of a ReliableSocket: that none of them misses a *)
(* wake-up (Shutdown), and that the segments they pack and unpack come out  *)
(* whole and in order (Segments).                                           *)
(***************************************************************************)
EXTENDS Shutdown, Segments, SequenceTheorems, TLAPS

-----------------------------------------------------------------------------
(***************************************************************************)
(* Shutdown: no wake-up of a consumer is lost                               *)
(***************************************************************************)


\* A thread signals before it does anything else, so that it never has two
\* signals to give; only the receiver signals the caller of recv_package.
SignalFirst ==
    \A t \in Threads :
        /\ sig[t] # None => pc[t] = "top"
        /\ sig[t] = "caller" => t = "receiver"

\* A consumer that holds its mutex and is about to sleep has found its pool
\* empty, and what could have filled it since then needs the mutex.  An Ack
\* does without, but then the receiver has given its signals before.
WaitsOnEmpty ==
    \A k \in Consumers :
        pc[k] = "wait" /\ queue[k] > 0 => k = "caller" /\ silent /\ sig["receiver"] # "caller"

WakeInv == TypeOK /\ SignalFirst /\ WaitsOnEmpty /\ NoSleepOnWork

LEMMA TypeStep == TypeOK /\ [Next]_vars => TypeOK'
<1> SUFFICES ASSUME TypeOK, [Next]_vars PROVE TypeOK'
  OBVIOUS
<1>0. /\ <<"sender", "ackhandler", "caller", "socket">> \in Seq(Consumers \union {"socket"})
      /\ \A q \in Seq(Consumers \union {"socket"}) : q # <<>> => Tail(q) \in Seq(Consumers \union {"socket"})
      /\ <<>> \in Seq(Consumers \union {"socket"})
  BY DEF Consumers
<1> USE MaxWorkAssumption DEF TypeOK, Threads, Consumers, Stoppers, None, Goto, Push, MutexFree, Stopping
<1>1. ASSUME NEW t \in Threads, Signal(t) PROVE TypeOK'
  BY <1>1 DEF Signal, Woken
<1>2. ASSUME NEW k \in Consumers, Consume(k) \/ SpuriousWakeup(k) PROVE TypeOK'
  <2>1. CASE Loop(k) BY <2>1 DEF Loop
  <2>2. CASE Take(k) BY <2>2 DEF Take
  <2>3. CASE Empty(k) BY <2>3 DEF Empty
  <2>4. CASE Wait(k) BY <2>4 DEF Wait
  <2>5. CASE SpuriousWakeup(k) BY <2>5 DEF SpuriousWakeup
  <2> QED BY <1>2, <2>1, <2>2, <2>3, <2>4, <2>5 DEF Consume
<1>3. CASE SenderWork BY <1>3 DEF SenderWork
<1>4. CASE HandlerDone BY <1>4 DEF HandlerDone
<1>5. CASE HandlerResend BY <1>5 DEF HandlerResend
<1>6. CASE SegmentTop BY <1>6 DEF SegmentTop
<1>7. CASE SegmentPush BY <1>7 DEF SegmentPush
<1>8. CASE RecvNext BY <1>8 DEF RecvNext, Selecting
<1>9. CASE RecvAhead BY <1>9 DEF RecvAhead, Selecting
<1>10. CASE RecvAck
  <2>1. queue' \in [Consumers -> Nat] /\ held' \in Nat
    BY <1>10 DEF RecvAck
  <2>2. silent' \in BOOLEAN
    BY <1>10, Zenon DEF RecvAck
  <2> QED BY <1>10, <2>1, <2>2 DEF RecvAck, Selecting
<1>11. CASE RecvClose BY <1>11, <1>0 DEF RecvClose, Selecting
<1>12. CASE FastResend BY <1>12 DEF FastResend
<1>13. CASE SelectTimeout BY <1>13 DEF SelectTimeout
<1>14. CASE ReadExit BY <1>14 DEF ReadExit
<1>15. CASE ReceiverTop BY <1>15 DEF ReceiverTop
<1>16. CASE CloseAddr BY <1>16, <1>0 DEF CloseAddr
<1>17. ASSUME NEW s \in Stoppers, StopSignal(s) PROVE TypeOK'
  <2>1. todo' \in [Stoppers -> Seq(Consumers \union {"socket"})]
    BY <1>17, <1>0 DEF StopSignal
  <2>2. pc' \in [Threads -> {"top", "lock", "wait", "asleep", "work", "window",
                           "select", "fast", "stop", "exit"}]
    BY <1>17 DEF StopSignal, Woken
  <2> QED BY <1>17, <2>1, <2>2 DEF StopSignal
<1>18. ASSUME NEW s \in Stoppers, StopSocket(s) PROVE TypeOK'
  BY <1>18 DEF StopSocket
<1>19. CASE UNCHANGED vars BY <1>19 DEF vars
<1> QED
  BY <1>1, <1>2, <1>3, <1>4, <1>5, <1>6, <1>7, <1>8, <1>9, <1>10, <1>11, <1>12, <1>13, <1>14, <1>15, <1>16, <1>17, <1>18, <1>19
  DEF Next, Datagram

LEMMA SignalFirstStep == TypeOK /\ SignalFirst /\ [Next]_vars => SignalFirst'
<1> SUFFICES ASSUME TypeOK, SignalFirst, [Next]_vars PROVE SignalFirst'
  OBVIOUS
<1> USE DEF TypeOK, SignalFirst, Threads, Consumers, Stoppers, None, Goto, Push
<1>1. ASSUME NEW t \in Threads, Signal(t) PROVE SignalFirst'
  BY <1>1 DEF Signal, Woken
<1>2. ASSUME NEW k \in Consumers, Consume(k) \/ SpuriousWakeup(k) PROVE SignalFirst'
  <2>1. CASE Loop(k) BY <2>1 DEF Loop
  <2>2. CASE Take(k) BY <2>2 DEF Take
  <2>3. CASE Empty(k) BY <2>3 DEF Empty
  <2>4. CASE Wait(k) BY <2>4 DEF Wait
  <2>5. CASE SpuriousWakeup(k) BY <2>5 DEF SpuriousWakeup
  <2> QED BY <1>2, <2>1, <2>2, <2>3, <2>4, <2>5 DEF Consume
<1>3. CASE SenderWork BY <1>3 DEF SenderWork
<1>4. CASE HandlerDone BY <1>4 DEF HandlerDone
<1>5. CASE HandlerResend BY <1>5 DEF HandlerResend
<1>6. CASE SegmentTop BY <1>6 DEF SegmentTop
<1>7. CASE SegmentPush BY <1>7 DEF SegmentPush
<1>8. CASE RecvNext BY <1>8 DEF RecvNext, Selecting
<1>9. CASE RecvAhead BY <1>9 DEF RecvAhead, Selecting
<1>10. CASE RecvAck BY <1>10 DEF RecvAck, Selecting
<1>11. CASE RecvClose BY <1>11 DEF RecvClose, Selecting
<1>12. CASE FastResend BY <1>12 DEF FastResend
<1>13. CASE SelectTimeout BY <1>13 DEF SelectTimeout
<1>14. CASE ReadExit BY <1>14 DEF ReadExit
<1>15. CASE ReceiverTop BY <1>15 DEF ReceiverTop
<1>16. CASE CloseAddr BY <1>16 DEF CloseAddr
<1>17. ASSUME NEW s \in Stoppers, StopSignal(s) PROVE SignalFirst'
  BY <1>17 DEF StopSignal, Woken
<1>18. ASSUME NEW s \in Stoppers, StopSocket(s) PROVE SignalFirst'
  BY <1>18 DEF StopSocket
<1>19. CASE UNCHANGED vars BY <1>19 DEF vars
<1> QED
  BY <1>1, <1>2, <1>3, <1>4, <1>5, <1>6, <1>7, <1>8, <1>9, <1>10, <1>11, <1>12, <1>13, <1>14, <1>15, <1>16, <1>17, <1>18, <1>19
  DEF Next, Datagram

LEMMA WaitsOnEmptyStep == TypeOK /\ SignalFirst /\ WaitsOnEmpty /\ [Next]_vars => WaitsOnEmpty'
<1> SUFFICES ASSUME TypeOK, SignalFirst, WaitsOnEmpty, [Next]_vars PROVE WaitsOnEmpty'
  OBVIOUS
<1> USE DEF TypeOK, SignalFirst, WaitsOnEmpty, Threads, Consumers, Stoppers, None, Goto, Push, MutexFree
<1>1. ASSUME NEW t \in Threads, Signal(t) PROVE WaitsOnEmpty'
  BY <1>1 DEF Signal, Woken
<1>2. ASSUME NEW k \in Consumers, Consume(k) \/ SpuriousWakeup(k) PROVE WaitsOnEmpty'
  <2>1. CASE Loop(k) BY <2>1 DEF Loop
  <2>2. CASE Take(k) BY <2>2 DEF Take
  <2>3. CASE Empty(k) BY <2>3 DEF Empty
  <2>4. CASE Wait(k) BY <2>4 DEF Wait
  <2>5. CASE SpuriousWakeup(k) BY <2>5 DEF SpuriousWakeup
  <2> QED BY <1>2, <2>1, <2>2, <2>3, <2>4, <2>5 DEF Consume
<1>3. CASE SenderWork BY <1>3 DEF SenderWork
<1>4. CASE HandlerDone BY <1>4 DEF HandlerDone
<1>5. CASE HandlerResend BY <1>5 DEF HandlerResend
<1>6. CASE SegmentTop BY <1>6 DEF SegmentTop
<1>7. CASE SegmentPush BY <1>7 DEF SegmentPush
<1>8. CASE RecvNext BY <1>8 DEF RecvNext, Selecting
<1>9. CASE RecvAhead BY <1>9 DEF RecvAhead, Selecting
<1>10. CASE RecvAck BY <1>10 DEF RecvAck, Selecting
<1>11. CASE RecvClose BY <1>11 DEF RecvClose, Selecting
<1>12. CASE FastResend BY <1>12 DEF FastResend
<1>13. CASE SelectTimeout BY <1>13 DEF SelectTimeout
<1>14. CASE ReadExit BY <1>14 DEF ReadExit
<1>15. CASE ReceiverTop BY <1>15 DEF ReceiverTop
<1>16. CASE CloseAddr BY <1>16 DEF CloseAddr
<1>17. ASSUME NEW s \in Stoppers, StopSignal(s) PROVE WaitsOnEmpty'
  BY <1>17 DEF StopSignal, Woken
<1>18. ASSUME NEW s \in Stoppers, StopSocket(s) PROVE WaitsOnEmpty'
  BY <1>18 DEF StopSocket
<1>19. CASE UNCHANGED vars BY <1>19 DEF vars
<1> QED
  BY <1>1, <1>2, <1>3, <1>4, <1>5, <1>6, <1>7, <1>8, <1>9, <1>10, <1>11, <1>12, <1>13, <1>14, <1>15, <1>16, <1>17, <1>18, <1>19
  DEF Next, Datagram

LEMMA NoSleepStep ==
    TypeOK /\ SignalFirst /\ WaitsOnEmpty /\ NoSleepOnWork /\ [Next]_vars => NoSleepOnWork'
<1> SUFFICES ASSUME TypeOK, SignalFirst, WaitsOnEmpty, NoSleepOnWork, [Next]_vars PROVE NoSleepOnWork'
  OBVIOUS
<1> USE DEF TypeOK, SignalFirst, WaitsOnEmpty, NoSleepOnWork, Threads, Consumers, Stoppers, None, Goto, Push
<1>1. ASSUME NEW t \in Threads, Signal(t) PROVE NoSleepOnWork'
  BY <1>1 DEF Signal, Woken
<1>2. ASSUME NEW k \in Consumers, Consume(k) \/ SpuriousWakeup(k) PROVE NoSleepOnWork'
  <2>1. CASE Loop(k) BY <2>1 DEF Loop
  <2>2. CASE Take(k) BY <2>2 DEF Take
  <2>3. CASE Empty(k) BY <2>3 DEF Empty
  <2>4. CASE Wait(k) BY <2>4 DEF Wait
  <2>5. CASE SpuriousWakeup(k) BY <2>5 DEF SpuriousWakeup
  <2> QED BY <1>2, <2>1, <2>2, <2>3, <2>4, <2>5 DEF Consume
<1>3. CASE SenderWork BY <1>3 DEF SenderWork
<1>4. CASE HandlerDone BY <1>4 DEF HandlerDone
<1>5. CASE HandlerResend BY <1>5 DEF HandlerResend
<1>6. CASE SegmentTop BY <1>6 DEF SegmentTop
<1>7. CASE SegmentPush BY <1>7 DEF SegmentPush
<1>8. CASE RecvNext BY <1>8 DEF RecvNext, Selecting
<1>9. CASE RecvAhead BY <1>9 DEF RecvAhead, Selecting
<1>10. CASE RecvAck BY <1>10 DEF RecvAck, Selecting
<1>11. CASE RecvClose BY <1>11 DEF RecvClose, Selecting
<1>12. CASE FastResend BY <1>12 DEF FastResend
<1>13. CASE SelectTimeout BY <1>13 DEF SelectTimeout
<1>14. CASE ReadExit BY <1>14 DEF ReadExit
<1>15. CASE ReceiverTop BY <1>15 DEF ReceiverTop
<1>16. CASE CloseAddr BY <1>16 DEF CloseAddr
<1>17. ASSUME NEW s \in Stoppers, StopSignal(s) PROVE NoSleepOnWork'
  BY <1>17 DEF StopSignal, Woken
<1>18. ASSUME NEW s \in Stoppers, StopSocket(s) PROVE NoSleepOnWork'
  BY <1>18 DEF StopSocket
<1>19. CASE UNCHANGED vars BY <1>19 DEF vars
<1> QED
  BY <1>1, <1>2, <1>3, <1>4, <1>5, <1>6, <1>7, <1>8, <1>9, <1>10, <1>11, <1>12, <1>13, <1>14, <1>15, <1>16, <1>17, <1>18, <1>19
  DEF Next, Datagram

LEMMA InitType == Init => TypeOK
<1> SUFFICES ASSUME Init PROVE TypeOK
  OBVIOUS
<1>1. <<>> \in Seq(Consumers \union {"socket"})
  OBVIOUS
<1>2. todo \in [Stoppers -> Seq(Consumers \union {"socket"})]
  BY <1>1 DEF Init
<1>3. worker_running \in BOOLEAN /\ exitmsg \in BOOLEAN /\ shut \in BOOLEAN /\ silent \in BOOLEAN
  BY Zenon DEF Init
<1>4. pc \in [Threads -> {"top", "lock", "wait", "asleep", "work", "window",
                         "select", "fast", "stop", "exit"}]
  BY DEF Init, Threads
<1> QED BY <1>2, <1>3, <1>4, MaxWorkAssumption DEF Init, TypeOK, None

\* The types of the threads' state, and the bound on what is pushed.
THEOREM ShutdownTypeCorrect == Spec => []TypeOK
<1> QED BY InitType, TypeStep, PTL DEF Spec

\* A consumer that sleeps while its pool has something is about to be
\* signalled, for any amount of work and every interleaving, also while the
\* threads are being stopped; recv_package after an Ack is the one exception
\* (the condition variables of ReliableSocket, signalled after the unlock).
THEOREM NoLostWakeup == Spec => []NoSleepOnWork
<1>1. Init => WakeInv
  BY InitType
  DEF Init, WakeInv, SignalFirst, WaitsOnEmpty, NoSleepOnWork, Threads, Consumers, Stoppers, None
<1>2. WakeInv /\ [Next]_vars => WakeInv'
  BY TypeStep, SignalFirstStep, WaitsOnEmptyStep, NoSleepStep DEF WakeInv
<1>3. WakeInv => NoSleepOnWork
  BY DEF WakeInv
<1> QED BY <1>1, <1>2, <1>3, PTL DEF Spec

-----------------------------------------------------------------------------
(***************************************************************************)
(* Segments                                                                 *)
(*                                                                         *)
(* The argument: the part of the ring that is not packed is the end of      *)
(* sent, so what is packed next has the least id that is left; a package is *)
(* a chain of fields that ends with a zero; and whatever has left the ring  *)
(* lies in one of four groups, each below the next: handed over, left for   *)
(* the parser, under way, being packed.                                     *)
(***************************************************************************)
Buffer == UNION {[D -> Segment \union {Zero}] : D \in SUBSET Nat}

Package == [buf : Buffer, len : Nat]

\* How many segments the segment thread has packed.
Packed == Len(sent) - list.len - ring.len

SegmentsType ==
    /\ SegmentsTypeOK
    /\ buf \in Buffer
    /\ packages \in Seq(Package)
    /\ parser \in [buf : Buffer, start : Nat]
    /\ start >= 2

\* The slot that lies n behind slot s.
Place(s, n) == (s + n) % Capacity

\* What waits in the ring, from the start of the copy to the end of the ring,
\* is the end of sent.
RingInv ==
    /\ list.len + ring.len <= Capacity
    /\ list.len + ring.len <= Len(sent)
    /\ ring.start = Place(list.start, list.len)
    /\ ring.end = Place(list.start, list.len + ring.len)
    /\ \A i \in 0..(list.len + ring.len - 1) :
        array[Place(list.start, i)] = sent[Packed + 1 + i]

\* Segments of sq one behind the other, and a zero after the last: len is the
\* length of the package.
IsPackage(b, len, sq) ==
    /\ 0 \in DOMAIN b /\ len - 2 \in DOMAIN b
    /\ \A o \in DOMAIN b : o <= len - 2
    /\ b[len - 2] = Zero
    /\ \A o \in DOMAIN b \ {len - 2} :
        /\ b[o].id \in DOMAIN sq /\ b[o] = sq[b[o].id]
        /\ o + b[o].len + 2 \in DOMAIN b
    /\ \A o, p \in DOMAIN b : o < p =>
        /\ o + b[o].len + 2 <= p
        /\ p # len - 2 => b[o].id < b[p].id

PackageInv ==
    /\ IF start = 2 THEN buf = NoPackage ELSE IsPackage(buf, start, sent)
    /\ \A k \in DOMAIN packages : IsPackage(packages[k].buf, packages[k].len, sent)
    /\ \/ parser = [buf |-> NoPackage, start |-> 0]
       \/ /\ \E n \in Nat : IsPackage(parser.buf, n, sent)
          /\ parser.start \in DOMAIN parser.buf

FitsInv == (start <= MaxSegment \/ start = 2) /\ PackageFits

\* The ids of the segments in a package, from an offset on, in packages, and
\* among those that have been handed over.
Ids(b) == {b[o].id : o \in DOMAIN b} \ {0}
IdsFrom(b, offset) == {b[o].id : o \in {o \in DOMAIN b : o >= offset}} \ {0}
Flying(q) == UNION {Ids(q[k].buf) : k \in DOMAIN q}
Got(r) == {r[k].id : k \in DOMAIN r}
Left == IdsFrom(parser.buf, parser.start)

Below(S, T) == \A x \in S, y \in T : x < y

\* One package after the other.
Ordered(q) == \A j, k \in DOMAIN q : j < k => Below(Ids(q[j].buf), Ids(q[k].buf))

\* Whatever has left the ring is, by its id: handed over, then left for the
\* parser, then under way, then in the package that is packed.
OrderInv ==
    /\ Below(Got(received), Left) /\ Below(Got(received), Flying(packages))
    /\ Below(Got(received), Ids(buf))
    /\ Below(Left, Flying(packages)) /\ Below(Left, Ids(buf))
    /\ Below(Flying(packages), Ids(buf))
    /\ Ordered(packages)
    /\ Got(received) \union Left \union Flying(packages) \union Ids(buf) \subseteq 1..Packed

ReceivedInv ==
    /\ \A k \in DOMAIN received : received[k].id \in DOMAIN sent /\ received[k] = sent[received[k].id]
    /\ \A j, k \in DOMAIN received : j < k => received[j].id < received[k].id
    /\ bad = 0 => \A k \in DOMAIN received : received[k].id = k

\* Nothing is missing while no package is lost.
CompleteInv ==
    bad = 0 => 1..Packed \subseteq Got(received) \union Left \union Flying(packages) \union Ids(buf)

SentInv == \A k \in DOMAIN sent : sent[k].id = k

SegmentsInv ==
    /\ SegmentsType /\ SentInv /\ RingInv /\ PackageInv /\ FitsInv
    /\ OrderInv /\ ReceivedInv /\ CompleteInv

\* PackSegment writes two fields.
LEMMA WriteProp ==
    ASSUME NEW b \in Buffer, NEW o \in Nat, NEW seg \in Segment \union {Zero}
    PROVE  /\ Write(b, o, seg) \in Buffer
           /\ DOMAIN Write(b, o, seg) = DOMAIN b \union {o}
           /\ Write(b, o, seg)[o] = seg
           /\ \A p \in DOMAIN b \ {o} : Write(b, o, seg)[p] = b[p]
<1>1. PICK D \in SUBSET Nat : b \in [D -> Segment \union {Zero}]
  BY DEF Buffer
<1>2. D \union {o} \in SUBSET Nat /\ Write(b, o, seg) \in [D \union {o} -> Segment \union {Zero}]
  BY <1>1 DEF Write
<1> QED BY <1>1, <1>2 DEF Buffer, Write

LEMMA NoPackageProp == NoPackage \in Buffer /\ DOMAIN NoPackage = {}
<1>1. NoPackage \in [{} -> Segment \union {Zero}]
  BY DEF NoPackage
<1> QED BY <1>1 DEF Buffer

\* The parser stands at a field of its package.
LEMMA FieldProp ==
    ASSUME SegmentsType, PackageInv
    PROVE  /\ Field \in Segment \union {Zero}
           /\ Field # Zero =>
                /\ parser.buf # NoPackage
                /\ parser.start \in DOMAIN parser.buf
                /\ Field = parser.buf[parser.start]
                /\ Field \in Segment
<1>1. CASE parser.buf = NoPackage
  BY <1>1 DEF Field
<1>2. CASE parser.buf # NoPackage
  <2>1. parser.start \in DOMAIN parser.buf
    BY <1>2 DEF PackageInv
  <2>2. parser.buf[parser.start] \in Segment \union {Zero}
    BY <2>1 DEF SegmentsType, Buffer
  <2> QED BY <1>2, <2>1, <2>2 DEF Field
<1> QED BY <1>1, <1>2

\* A place in the ring.
LEMMA InRing == \A x \in Nat : x % Capacity \in Slot
  BY CapacityAssumption DEF Slot

LEMMA RingFields ==
    ASSUME NEW q \in Ring
    PROVE  /\ q.len \in 0..Capacity /\ q.start \in Slot /\ q.end \in Slot
           /\ q.len \in Nat /\ q.start \in Nat /\ q.end \in Nat
           /\ q = [len |-> q.len, start |-> q.start, end |-> q.end]
  BY CapacityAssumption DEF Ring, Slot

LEMMA SegmentsTypeStep ==
    ASSUME SegmentsType, PackageInv, list.len + ring.len <= Capacity, [SegmentsNext]_segmentsVars
    PROVE  SegmentsType'
<1>0. /\ array \in [Slot -> Segment \union {Zero}] /\ ring \in Ring /\ list \in Ring
      /\ sent \in Seq(Segment) /\ received \in Seq(Segment) /\ start \in Nat /\ start >= 2
      /\ buf \in Buffer /\ packages \in Seq(Package) /\ parser \in [buf : Buffer, start : Nat]
      /\ bad \in 0..MaxBad
  BY DEF SegmentsType, SegmentsTypeOK
<1>a. /\ ring.len \in 0..Capacity /\ ring.end \in Nat /\ ring.end \in Slot
      /\ list.len \in 0..Capacity /\ list.start \in Nat /\ list.start \in Slot
  BY <1>0, RingFields
<1>1. CASE SendPackage
  <2>1. PICK n \in 1..MaxLen :
          /\ array' = [array EXCEPT ![ring.end] = [id |-> Len(sent) + 1, len |-> n]]
          /\ ring' = [ring EXCEPT !.end = (@ + 1) % Capacity, !.len = @ + 1]
          /\ sent' = Append(sent, [id |-> Len(sent) + 1, len |-> n])
    BY <1>1 DEF SendPackage, PushSegment
  <2>2. [id |-> Len(sent) + 1, len |-> n] \in Segment
    BY <1>0, <1>1, BoundAssumption, LenAssumption DEF SendPackage, Segment
  <2>3. sent' \in Seq(Segment)
    BY <1>0, <2>1, <2>2
  <2>4. array' \in [Slot -> Segment \union {Zero}]
    BY <1>0, <2>1, <2>2
  <2>5. ring' \in Ring
    <3>1. ring.len + 1 \in 0..Capacity
      BY <1>a, <1>1, CapacityAssumption DEF SendPackage
    <3>2. (ring.end + 1) % Capacity \in Slot
      <4>1. ring.end + 1 \in Nat
        BY <1>a
      <4> QED BY <4>1, InRing
    <3> QED BY <1>0, <2>1, <3>1, <3>2 DEF Ring
  <2> QED BY <1>0, <1>1, <2>3, <2>4, <2>5 DEF SendPackage, SegmentsType, SegmentsTypeOK
<1>2. CASE TakeSegments
  BY <1>0, <1>2, CapacityAssumption DEF TakeSegments, Rebase, Ring, SegmentsType, SegmentsTypeOK
<1>3. CASE PackSegment
  <2>1. FrontSegment \in Segment \union {Zero}
    BY <1>0, <1>a DEF FrontSegment
  <2>2. FrontSegment.len \in Nat
    BY <2>1 DEF Segment, Zero
  <2>3. buf' \in Buffer
    <3>1. start - 2 \in Nat /\ start + FrontSegment.len \in Nat
      BY <1>0, <2>2
    <3>2. Write(buf, start - 2, FrontSegment) \in Buffer
      BY <1>0, <2>1, <3>1, WriteProp
    <3>3. Write(Write(buf, start - 2, FrontSegment), start + FrontSegment.len, Zero) \in Buffer
      BY <3>1, <3>2, WriteProp
    <3> QED BY <1>3, <3>3 DEF PackSegment
  <2>4. list' \in Ring
    <3>1. list.len - 1 \in 0..Capacity
      BY <1>a, <1>3, CapacityAssumption DEF PackSegment
    <3>2. (list.start + 1) % Capacity \in Slot
      <4>1. list.start + 1 \in Nat
        BY <1>a
      <4> QED BY <4>1, InRing
    <3> QED BY <1>0, <1>3, <3>1, <3>2 DEF Ring, PackSegment
  <2> QED BY <1>0, <1>3, <2>2, <2>3, <2>4 DEF PackSegment, SegmentsType, SegmentsTypeOK
<1>4. CASE FinishPackage
  <2>1. [buf |-> buf, len |-> start] \in Package
    BY <1>0 DEF Package
  <2>2. packages' \in Seq(Package)
    BY <1>0, <1>4, <2>1 DEF FinishPackage
  <2> QED BY <1>0, <1>4, <2>2, NoPackageProp DEF FinishPackage, SegmentsType, SegmentsTypeOK
<1>5. CASE DropPackage \/ LoadFails
  <2>1. packages' \in Seq(Package)
    <3>1. packages # <<>> /\ packages' = Tail(packages)
      BY <1>5 DEF DropPackage, LoadFails
    <3> QED BY <1>0, <3>1
  <2> QED BY <1>0, <1>5, <2>1, BoundAssumption DEF DropPackage, LoadFails, SegmentsType, SegmentsTypeOK
<1>6. CASE NextSegment
  <2>1. Field \in Segment
    BY <1>6, FieldProp DEF NextSegment
  <2>2. received' \in Seq(Segment)
    BY <1>0, <1>6, <2>1 DEF NextSegment
  <2>3. parser' = [buf |-> parser.buf, start |-> parser.start + Field.len + 2]
    BY <1>0, <1>6 DEF NextSegment
  <2>4. parser.start + Field.len + 2 \in Nat
    BY <1>0, <2>1 DEF Segment
  <2> QED BY <1>0, <1>6, <2>2, <2>3, <2>4 DEF NextSegment, SegmentsType, SegmentsTypeOK
<1>7. CASE LoadPackage
  <2>1. packages' \in Seq(Package) /\ Head(packages) \in Package
    BY <1>0, <1>7 DEF LoadPackage
  <2>2. parser' = [buf |-> Head(packages).buf, start |-> 0]
    BY <1>7 DEF LoadPackage, Loaded
  <2> QED BY <1>0, <1>7, <2>1, <2>2 DEF LoadPackage, Package, SegmentsType, SegmentsTypeOK
<1>8. CASE UNCHANGED segmentsVars
  BY <1>0, <1>8 DEF segmentsVars, SegmentsType, SegmentsTypeOK
<1> QED
  BY <1>1, <1>2, <1>3, <1>4, <1>5, <1>6, <1>7, <1>8 DEF SegmentsNext, SegmentThread, Receiver

LEMMA PlaceProp ==
    ASSUME NEW s \in Slot, NEW n \in 0..Capacity
    PROVE  Place(s, n) = IF s + n < Capacity THEN s + n ELSE s + n - Capacity
<1>1. Capacity \in Nat \ {0} /\ s \in 0..(Capacity - 1)
  BY CapacityAssumption DEF Slot
<1>2. (s + n) % Capacity = IF s + n < Capacity THEN s + n ELSE s + n - Capacity
  BY <1>1
<1> QED BY <1>2 DEF Place

\* Steps along the ring.
LEMMA PlaceSteps ==
    ASSUME NEW s \in Slot, NEW n \in 0..(Capacity - 1)
    PROVE  /\ Place(s, n) \in Slot
           /\ Place(s, n + 1) = (Place(s, n) + 1) % Capacity
           /\ Place((s + 1) % Capacity, n) = Place(s, n + 1)
           /\ \A i \in 0..(n - 1) : Place(s, i) # Place(s, n)
<1>1. Capacity \in Nat \ {0} /\ s \in 0..(Capacity - 1)
  BY CapacityAssumption DEF Slot
<1>2. \A y \in 0..(Capacity - 1) : (y + 1) % Capacity = IF y + 1 < Capacity THEN y + 1 ELSE 0
  BY <1>1
<1>3. Place(s, n) = IF s + n < Capacity THEN s + n ELSE s + n - Capacity
  BY <1>1, PlaceProp
<1>4. Place(s, n + 1) = IF s + (n + 1) < Capacity THEN s + (n + 1) ELSE s + (n + 1) - Capacity
  BY <1>1, PlaceProp
<1>5. Place(s, n) \in 0..(Capacity - 1)
  BY <1>1, <1>3
<1>6. (Place(s, n) + 1) % Capacity = IF Place(s, n) + 1 < Capacity THEN Place(s, n) + 1 ELSE 0
  BY <1>2, <1>5
<1>7. Place((s + 1) % Capacity, n) = Place(s, n + 1)
  <2> DEFINE z == (s + 1) % Capacity
  <2>1. z = IF s + 1 < Capacity THEN s + 1 ELSE 0
    BY <1>1, <1>2
  <2>2. z \in Slot
    BY <1>1, <2>1 DEF Slot
  <2> HIDE DEF z
  <2>3. Place(z, n) = IF z + n < Capacity THEN z + n ELSE z + n - Capacity
    BY <1>1, <2>2, PlaceProp
  <2>4. Place(z, n) = Place(s, n + 1)
    BY <1>1, <1>4, <2>1, <2>3
  <2> QED BY <2>4 DEF z
<1>8. ASSUME NEW i \in 0..(n - 1) PROVE Place(s, i) # Place(s, n)
  <2>1. Place(s, i) = IF s + i < Capacity THEN s + i ELSE s + i - Capacity
    BY <1>1, PlaceProp
  <2> QED BY <1>1, <1>3, <2>1
<1> QED BY <1>1, <1>3, <1>4, <1>5, <1>6, <1>7, <1>8 DEF Slot

LEMMA RingStep ==
    ASSUME SegmentsType, RingInv, [SegmentsNext]_segmentsVars
    PROVE  RingInv'
<1> DEFINE s == list.start
           t == list.len + ring.len
<1>0. /\ array \in [Slot -> Segment \union {Zero}] /\ ring \in Ring /\ list \in Ring
      /\ sent \in Seq(Segment) /\ Len(sent) \in Nat
  BY DEF SegmentsType, SegmentsTypeOK
<1>1. /\ ring.len \in Nat /\ list.len \in Nat /\ s \in Slot /\ t \in 0..Capacity
      /\ t <= Len(sent) /\ Capacity \in Nat \ {0}
      /\ ring.start = Place(s, list.len) /\ ring.end = Place(s, t)
  BY <1>0, RingFields, CapacityAssumption DEF RingInv, Slot
<1>2. \A i \in 0..(t - 1) : array[Place(s, i)] = sent[Len(sent) - t + 1 + i]
  <2>1. Packed = Len(sent) - t
    BY <1>0, <1>1 DEF Packed
  <2>2. ASSUME NEW i \in 0..(t - 1) PROVE array[Place(s, i)] = sent[Len(sent) - t + 1 + i]
    <3>1. array[Place(s, i)] = sent[Packed + 1 + i]
      BY <1>0, <1>1, <2>1 DEF RingInv
    <3> QED BY <2>1, <3>1
  <2> QED BY <2>2
<1>3. CASE SendPackage
  <2>1. PICK n \in 1..MaxLen :
          /\ array' = [array EXCEPT ![ring.end] = [id |-> Len(sent) + 1, len |-> n]]
          /\ ring' = [ring EXCEPT !.end = (@ + 1) % Capacity, !.len = @ + 1]
          /\ sent' = Append(sent, [id |-> Len(sent) + 1, len |-> n])
    BY <1>3 DEF SendPackage, PushSegment
  <2> DEFINE seg == [id |-> Len(sent) + 1, len |-> n]
  <2>2. t < Capacity /\ t \in 0..(Capacity - 1) /\ list' = list
    BY <1>1, <1>3 DEF SendPackage
  <2>3. ring'.len = ring.len + 1 /\ ring'.start = ring.start /\ ring'.end = (ring.end + 1) % Capacity
    BY <1>0, <2>1 DEF Ring
  <2>4. ring'.end = Place(s, t + 1)
    BY <1>1, <2>2, <2>3, PlaceSteps
  <2>5. /\ Len(sent') = Len(sent) + 1 /\ sent'[Len(sent) + 1] = seg
        /\ \A k \in 1..Len(sent) : sent'[k] = sent[k]
    <3>1. seg \in Segment
      BY <1>0, <1>3, LenAssumption, BoundAssumption DEF Segment, SendPackage
    <3> QED BY <1>0, <2>1, <3>1
  <2>6. \A i \in 0..t : array'[Place(s, i)] = sent'[Len(sent) - t + 1 + i]
    <3> TAKE i \in 0..t
    <3>1. CASE i = t
      <4>1. Len(sent) - t + 1 + i = Len(sent) + 1
        BY <1>0, <1>1, <3>1
      <4>2. ring.end \in DOMAIN array
        BY <1>0, RingFields
      <4>3. array'[ring.end] = seg
        BY <2>1, <4>2
      <4> QED BY <1>1, <2>5, <3>1, <4>1, <4>3
    <3>2. CASE i # t
      <4>1. i \in 0..(t - 1) /\ Len(sent) - t + 1 + i \in 1..Len(sent) /\ i \in 0..(Capacity - 1)
        BY <1>0, <1>1, <3>2
      <4>2. Place(s, i) # ring.end
        BY <1>1, <2>2, <4>1, PlaceSteps
      <4>3. Place(s, i) \in Slot
        BY <1>1, <4>1, PlaceSteps
      <4>4. array'[Place(s, i)] = array[Place(s, i)]
        BY <1>0, <2>1, <4>2, <4>3
      <4> QED BY <1>2, <2>5, <4>1, <4>4
    <3> QED BY <3>1, <3>2
  <2>7. /\ list'.len + ring'.len = t + 1 /\ Packed' = Len(sent) - t
        /\ list'.start = s /\ list'.len = list.len
    <3>1. list'.len = list.len /\ list'.start = s
      BY <2>2
    <3>2. list'.len + ring'.len = t + 1
      BY <1>1, <2>3, <3>1
    <3>3. Len(sent') - list'.len - ring'.len = Len(sent) - t
      BY <1>0, <1>1, <2>3, <2>5, <3>1
    <3> QED BY <3>1, <3>2, <3>3 DEF Packed
  <2>8. t + 1 <= Capacity /\ t + 1 <= Len(sent')
    BY <1>0, <1>1, <2>2, <2>5
  <2>9. t + 1 - 1 = t
    BY <1>1
  <2> QED BY <1>1, <2>3, <2>4, <2>6, <2>7, <2>8, <2>9 DEF RingInv
<1>4. CASE TakeSegments
  <2>1. /\ list.len = 0 /\ list' = ring /\ UNCHANGED <<sent, array>>
        /\ ring' = [ring EXCEPT !.len = 0, !.start = ring.end]
    BY <1>4 DEF TakeSegments, Rebase
  <2>2. ring'.len = 0 /\ ring'.start = ring.end /\ ring'.end = ring.end
    BY <1>0, <2>1 DEF Ring
  <2>3. ring.start = s
    BY <1>1, <2>1, PlaceProp DEF Slot
  <2>4. list'.len = t /\ list'.start = s /\ list'.len + ring'.len = t
    BY <1>1, <2>1, <2>2, <2>3
  <2>5. Packed' = Len(sent) - t
    BY <1>0, <1>1, <2>1, <2>2, <2>4 DEF Packed
  <2> QED BY <1>1, <1>2, <2>1, <2>2, <2>4, <2>5 DEF RingInv
<1>5. CASE PackSegment
  <2>1. /\ list.len > 0 /\ list' = [list EXCEPT !.len = @ - 1, !.start = (@ + 1) % Capacity]
        /\ UNCHANGED <<array, ring, sent>>
    BY <1>5 DEF PackSegment
  <2>2. list'.len = list.len - 1 /\ list'.start = (s + 1) % Capacity
    BY <1>0, <2>1 DEF Ring
  <2>3. \A i \in 0..(t - 1) : Place(list'.start, i) = Place(s, i + 1)
    <3> TAKE i \in 0..(t - 1)
    <3>1. i \in 0..(Capacity - 1)
      BY <1>1
    <3> QED BY <1>1, <2>2, <3>1, PlaceSteps
  <2>4. /\ list'.len \in 0..(t - 1) /\ t - 1 \in 0..(t - 1) /\ list'.len + 1 = list.len
        /\ list'.len + ring'.len = t - 1 /\ t - 1 + 1 = t
    BY <1>1, <2>1, <2>2
  <2>5. Packed' = Len(sent) - t + 1
    BY <1>0, <1>1, <2>1, <2>2 DEF Packed
  <2>6. \A i \in 0..(t - 1 - 1) : array[Place(list'.start, i)] = sent[Len(sent) - t + 1 + 1 + i]
    <3> TAKE i \in 0..(t - 1 - 1)
    <3>1. i \in 0..(t - 1) /\ i + 1 \in 0..(t - 1)
      BY <1>1
    <3>2. Len(sent) - t + 1 + 1 + i = Len(sent) - t + 1 + (i + 1)
      <4>1. Len(sent) \in Int /\ t \in Int /\ i \in Int
        BY <1>0, <1>1
      <4> HIDE DEF t
      <4> QED BY <4>1
    <3>3. array[Place(s, i + 1)] = sent[Len(sent) - t + 1 + (i + 1)]
      BY <1>2, <3>1
    <3>4. Place(list'.start, i) = Place(s, i + 1)
      BY <2>3, <3>1
    <3> QED BY <3>2, <3>3, <3>4
  <2>7. ring'.start = Place(list'.start, list'.len)
    BY <1>1, <2>1, <2>3, <2>4
  <2>8. ring'.end = Place(list'.start, list'.len + ring'.len)
    BY <1>1, <2>1, <2>3, <2>4
  <2>9. t - 1 <= Capacity /\ t - 1 <= Len(sent')
    BY <1>0, <1>1, <2>1
  <2>10. \A i \in 0..(list'.len + ring'.len - 1) : array'[Place(list'.start, i)] = sent'[Packed' + 1 + i]
    <3> TAKE i \in 0..(list'.len + ring'.len - 1)
    <3>0. array' = array /\ sent' = sent
      BY <2>1
    <3>1. i \in 0..(t - 1 - 1)
      <4>1. list'.len \in Nat /\ ring'.len \in Nat /\ list'.len + ring'.len = t - 1
        BY <1>1, <2>1, <2>4
      <4> QED BY <1>1, <4>1
    <3>2. Packed' + 1 + i = Len(sent) - t + 1 + 1 + i
      BY <1>0, <1>1, <2>5, <3>1
    <3>3. array[Place(list'.start, i)] = sent[Len(sent) - t + 1 + 1 + i]
      BY <2>6, <3>1
    <3> QED BY <3>0, <3>2, <3>3
  <2> QED BY <2>4, <2>7, <2>8, <2>9, <2>10 DEF RingInv
<1>6. CASE UNCHANGED <<array, ring, list, sent>>
  BY <1>6 DEF RingInv, Packed
<1>7. \/ SendPackage \/ TakeSegments \/ PackSegment
      \/ UNCHANGED <<array, ring, list, sent>>
  BY DEF SegmentsNext, SegmentThread, Receiver, FinishPackage, DropPackage, NextSegment, LoadPackage,
         LoadFails, segmentsVars
<1> QED BY <1>3, <1>4, <1>5, <1>6, <1>7
LEMMA SegmentProp ==
    ASSUME NEW seg \in Segment
    PROVE  seg # Zero /\ seg.id # 0 /\ seg.id \in Nat /\ seg.len \in Nat /\ seg.id \in 1..MaxSegs
<1>1. seg.id \in 1..MaxSegs /\ seg.len \in 1..MaxLen /\ MaxSegs \in Nat /\ MaxLen \in Nat
  BY LenAssumption, BoundAssumption DEF Segment
<1>2. Zero.id = 0
  BY DEF Zero
<1> QED BY <1>1, <1>2

\* The fields of a buffer.
LEMMA BufferProp ==
    ASSUME NEW b \in Buffer
    PROVE  /\ DOMAIN b \subseteq Nat
           /\ \A o \in DOMAIN b : /\ b[o] \in Segment \union {Zero}
                                  /\ b[o].id \in Nat /\ b[o].len \in Nat
<1>1. PICK D \in SUBSET Nat : b \in [D -> Segment \union {Zero}]
  BY DEF Buffer
<1>2. ASSUME NEW x \in Segment \union {Zero} PROVE x.id \in Nat /\ x.len \in Nat
  BY SegmentProp DEF Zero
<1> QED BY <1>1, <1>2

\* A field of a package is its zero exactly when it is the last one.
LEMMA PackageField ==
    ASSUME NEW b \in Buffer, NEW n \in Nat, NEW sq \in Seq(Segment), IsPackage(b, n, sq),
           NEW o \in DOMAIN b
    PROVE  /\ b[o] = Zero <=> o = n - 2
           /\ o # n - 2 => b[o] \in Segment /\ b[o].id # 0
<1>1. CASE o = n - 2
  BY <1>1 DEF IsPackage
<1>2. CASE o # n - 2
  <2>1. b[o].id \in DOMAIN sq /\ b[o] = sq[b[o].id]
    BY <1>2 DEF IsPackage
  <2>2. b[o] \in Segment
    BY <2>1, ElementOfSeq
  <2> QED BY <1>2, <2>2, SegmentProp
<1> QED BY <1>1, <1>2

\* A package stays one when more is sent.
LEMMA PackageExtended ==
    ASSUME NEW b \in Buffer, NEW n \in Nat, NEW sq \in Seq(Segment), NEW seg \in Segment,
           IsPackage(b, n, sq)
    PROVE  IsPackage(b, n, Append(sq, seg))
<1>1. DOMAIN sq \subseteq DOMAIN Append(sq, seg) /\ \A k \in DOMAIN sq : Append(sq, seg)[k] = sq[k]
  OBVIOUS
<1>2. \A o \in DOMAIN b \ {n - 2} :
        /\ b[o].id \in DOMAIN Append(sq, seg) /\ b[o] = Append(sq, seg)[b[o].id]
        /\ o + b[o].len + 2 \in DOMAIN b
  BY <1>1 DEF IsPackage
<1> QED BY <1>2 DEF IsPackage

\* What the parser has left at a segment: the segment, and what it has left
\* at the next field.
LEMMA LeftNext ==
    ASSUME NEW b \in Buffer, NEW n \in Nat, NEW sq \in Seq(Segment), IsPackage(b, n, sq),
           NEW o \in DOMAIN b, b[o] # Zero, NEW e, e = o + b[o].len + 2
    PROVE  /\ e \in DOMAIN b
           /\ IdsFrom(b, o) = {b[o].id} \union IdsFrom(b, e)
           /\ \A y \in IdsFrom(b, e) : b[o].id < y
<1>1. o # n - 2 /\ b[o].id # 0
  BY PackageField
<1>2. e \in DOMAIN b
  BY <1>1 DEF IsPackage
<1>3. e \in Nat /\ o \in Nat /\ DOMAIN b \subseteq Nat /\ b[o].len \in Nat
  BY <1>2, BufferProp
<1>4. \A p \in DOMAIN b : p >= o <=> p = o \/ p >= e
  <2> TAKE p \in DOMAIN b
  <2>1. p \in Nat
    BY <1>3
  <2>2. o < p => o + b[o].len + 2 <= p
    BY DEF IsPackage
  <2> QED BY <1>3, <2>1, <2>2
<1>5. IdsFrom(b, o) = {b[o].id} \union IdsFrom(b, e)
  BY <1>1, <1>4 DEF IdsFrom
<1>6. ASSUME NEW y \in IdsFrom(b, e) PROVE b[o].id < y
  <2>1. PICK p \in DOMAIN b : p >= e /\ y = b[p].id /\ y # 0
    BY DEF IdsFrom
  <2>2. p # n - 2
    BY <2>1 DEF IsPackage, Zero
  <2>3. o < p
    BY <1>3, <2>1
  <2> QED BY <2>1, <2>2, <2>3 DEF IsPackage
<1> QED BY <1>2, <1>5, <1>6

\* The parser has nothing left at a zero.
LEMMA LeftNone ==
    ASSUME NEW b \in Buffer, NEW n \in Nat, NEW sq \in Seq(Segment), IsPackage(b, n, sq),
           NEW o \in DOMAIN b, b[o] = Zero
    PROVE  IdsFrom(b, o) = {}
<1>1. o = n - 2
  BY PackageField
<1>2. \A p \in DOMAIN b : p >= o => p = o
  BY <1>1, BufferProp DEF IsPackage
<1> QED BY <1>2 DEF IdsFrom, Zero

LEMMA LeftAll ==
    ASSUME NEW b \in Buffer
    PROVE  IdsFrom(b, 0) = Ids(b)
<1>1. \A o \in DOMAIN b : o >= 0
  BY BufferProp
<1> QED BY <1>1 DEF IdsFrom, Ids

LEMMA NoPackageIds == Ids(NoPackage) = {} /\ \A o : IdsFrom(NoPackage, o) = {}
  BY NoPackageProp DEF Ids, IdsFrom
\* A package, or an empty buffer, with a segment more: over its zero comes the
\* segment, and behind it a zero.
Extended(b, n, seg, c) ==
    /\ DOMAIN c = DOMAIN b \union {n - 2, n + seg.len}
    /\ \A o \in DOMAIN b \ {n - 2} : c[o] = b[o]
    /\ c[n - 2] = seg /\ c[n + seg.len] = Zero

LEMMA WrittenPackage ==
    ASSUME NEW b \in Buffer, NEW n \in Nat, n >= 2, NEW seg \in Segment, NEW c \in Buffer,
           Extended(b, n, seg, c),
           NEW sq \in Seq(Segment), IF n = 2 THEN b = NoPackage ELSE IsPackage(b, n, sq),
           seg.id \in DOMAIN sq, seg = sq[seg.id], \A x \in Ids(b) : x < seg.id
    PROVE  IsPackage(c, n + seg.len + 2, sq) /\ Ids(c) = Ids(b) \union {seg.id}
<1> DEFINE l == n - 2
           m == n + seg.len
<1>1. \A o \in DOMAIN b : o <= l
  BY NoPackageProp DEF IsPackage
<1>2. /\ DOMAIN c = DOMAIN b \union {l, m}
      /\ \A o \in DOMAIN b \ {l} : c[o] = b[o]
      /\ c[l] = seg /\ c[m] = Zero /\ c \in Buffer
      /\ l \in Nat /\ m \in Nat /\ l # m /\ l < m
  BY SegmentProp DEF Extended
<1>a. l = n - 2 /\ m = n + seg.len
  OBVIOUS
<1> HIDE DEF l, m
<1>3. m + 2 - 2 = m /\ l + seg.len + 2 = m /\ seg.id # 0 /\ seg.id \in Nat /\ seg.len \in Nat
  BY <1>a, <1>2, SegmentProp
<1>4. \A o \in DOMAIN c : o \in Nat /\ o <= m
  <2>1. \A o \in DOMAIN b : o \in Nat
    BY BufferProp
  <2> QED BY <1>1, <1>2, <2>1
<1>5. ASSUME NEW o \in DOMAIN b, o # l
      PROVE  /\ b[o].id \in DOMAIN sq /\ b[o] = sq[b[o].id]
             /\ o + b[o].len + 2 \in DOMAIN b /\ o + b[o].len + 2 <= l
             /\ b[o].id # 0 /\ b[o].id < seg.id /\ o < l /\ o # m /\ c[o] = b[o]
  <2>1. n # 2 /\ IsPackage(b, n, sq)
    BY <1>5, NoPackageProp
  <2>2. b[o].id \in DOMAIN sq /\ b[o] = sq[b[o].id] /\ o + b[o].len + 2 \in DOMAIN b
    BY <1>a, <1>5, <2>1 DEF IsPackage
  <2>3. b[o].id # 0
    BY <1>a, <1>5, <2>1, PackageField
  <2>4. b[o].id \in Ids(b)
    BY <2>3 DEF Ids
  <2>5. o \in Nat /\ o <= l
    BY <1>1, BufferProp
  <2> QED BY <1>1, <1>2, <1>5, <2>2, <2>3, <2>4, <2>5
<1>6. 0 \in DOMAIN c
  BY <1>a, <1>2 DEF IsPackage
<1>7. ASSUME NEW o \in DOMAIN c \ {m}
      PROVE  /\ c[o].id \in DOMAIN sq /\ c[o] = sq[c[o].id]
             /\ o + c[o].len + 2 \in DOMAIN c
  <2>1. CASE o = l
    BY <1>2, <1>3, <2>1
  <2>2. CASE o # l
    BY <1>2, <1>5, <2>2
  <2> QED BY <2>1, <2>2
<1>8. ASSUME NEW o \in DOMAIN c, NEW p \in DOMAIN c, o < p
      PROVE  /\ o + c[o].len + 2 <= p
             /\ p # m => c[o].id < c[p].id
  <2>0. o \in Nat /\ p \in Nat /\ o # m
    BY <1>2, <1>4, <1>8
  <2>1. CASE o = l
    <3>1. p = m
      <4>1. p \in DOMAIN b => p <= l
        BY <1>1
      <4> QED BY <1>2, <1>8, <2>0, <2>1, <4>1
    <3> QED BY <1>2, <1>3, <2>1, <3>1
  <2>2. CASE o # l
    <3>1. o \in DOMAIN b
      BY <1>2, <2>0, <2>2
    <3>2. c[o] = b[o] /\ o + b[o].len + 2 <= l /\ b[o].id < seg.id /\ b[o].len \in Nat
      BY <1>5, <2>2, <3>1, BufferProp
    <3>3. CASE p = m \/ p = l
      <4>1. c[o].len \in Nat /\ o + c[o].len + 2 <= l /\ l < m /\ l \in Nat /\ m \in Nat
        BY <1>2, <3>2
      <4>2. o + c[o].len + 2 <= p
        BY <2>0, <3>3, <4>1
      <4>3. p # m => c[o].id < c[p].id
        BY <1>2, <3>2, <3>3
      <4> QED BY <4>2, <4>3
    <3>4. CASE p # m /\ p # l
      <4>1. p \in DOMAIN b /\ c[p] = b[p]
        BY <1>2, <3>4
      <4>2. IsPackage(b, n, sq)
        BY <4>1, NoPackageProp
      <4> QED BY <1>a, <1>8, <3>1, <3>2, <3>4, <4>1, <4>2 DEF IsPackage
    <3> QED BY <3>3, <3>4
  <2> QED BY <2>1, <2>2
<1>9. IsPackage(c, m + 2, sq)
  BY <1>2, <1>3, <1>4, <1>6, <1>7, <1>8 DEF IsPackage
<1>10. Ids(c) = Ids(b) \union {seg.id}
  <2>1. Zero.id = 0
    BY DEF Zero
  <2>2. ASSUME l \in DOMAIN b PROVE b[l] = Zero
    BY <1>a, <2>2, NoPackageProp DEF IsPackage
  <2>3. ASSUME NEW x \in Ids(c) PROVE x \in Ids(b) \union {seg.id}
    <3>1. PICK o \in DOMAIN c : x = c[o].id /\ x # 0
      BY DEF Ids
    <3> QED BY <1>2, <2>1, <3>1 DEF Ids
  <2>4. ASSUME NEW x \in Ids(b) PROVE x \in Ids(c)
    <3>1. PICK o \in DOMAIN b : x = b[o].id /\ x # 0
      BY DEF Ids
    <3>2. o # l
      BY <2>1, <2>2, <3>1
    <3> QED BY <1>2, <3>1, <3>2 DEF Ids
  <2>5. seg.id \in Ids(c)
    BY <1>2, <1>3 DEF Ids
  <2> QED BY <2>3, <2>4, <2>5
<1> QED BY <1>a, <1>9, <1>10

\* The packages under way, when one is sent.
LEMMA FlyingAppend ==
    ASSUME NEW q \in Seq(Package), NEW p \in Package
    PROVE  /\ Flying(Append(q, p)) = Flying(q) \union Ids(p.buf)
           /\ Ordered(q) /\ Below(Flying(q), Ids(p.buf)) => Ordered(Append(q, p))
<1> DEFINE r == Append(q, p)
<1>1. /\ Len(q) \in Nat /\ DOMAIN q = 1..Len(q) /\ DOMAIN r = 1..(Len(q) + 1)
      /\ r[Len(q) + 1] = p /\ \A k \in 1..Len(q) : r[k] = q[k]
  OBVIOUS
<1> HIDE DEF r
<1>2. DOMAIN r = DOMAIN q \union {Len(q) + 1} /\ Len(q) + 1 \notin DOMAIN q
  BY <1>1
<1>3. Flying(r) = Flying(q) \union Ids(p.buf)
  BY <1>1, <1>2 DEF Flying
<1>4. ASSUME Ordered(q), Below(Flying(q), Ids(p.buf)) PROVE Ordered(r)
  <2> SUFFICES ASSUME NEW j \in DOMAIN r, NEW k \in DOMAIN r, j < k
               PROVE  Below(Ids(r[j].buf), Ids(r[k].buf))
    BY DEF Ordered
  <2>1. j \in DOMAIN q /\ r[j] = q[j]
    BY <1>1
  <2>2. CASE k \in DOMAIN q
    BY <1>1, <1>4, <2>1, <2>2 DEF Ordered
  <2>3. CASE k = Len(q) + 1
    <3>1. Ids(q[j].buf) \subseteq Flying(q)
      BY <2>1 DEF Flying
    <3> QED BY <1>1, <1>4, <2>1, <2>3, <3>1 DEF Below
  <2> QED BY <1>2, <2>2, <2>3
<1> QED BY <1>3, <1>4 DEF r

\* The packages under way, when the oldest one is taken.
LEMMA FlyingTail ==
    ASSUME NEW q \in Seq(Package), q # <<>>
    PROVE  /\ Flying(q) = Ids(Head(q).buf) \union Flying(Tail(q))
           /\ Ordered(q) => Ordered(Tail(q)) /\ Below(Ids(Head(q).buf), Flying(Tail(q)))
<1> DEFINE r == Tail(q)
<1>1. /\ Len(q) \in Nat /\ Len(q) # 0 /\ DOMAIN q = 1..Len(q) /\ DOMAIN r = 1..(Len(q) - 1)
      /\ Head(q) = q[1] /\ \A k \in 1..(Len(q) - 1) : r[k] = q[k + 1]
  OBVIOUS
<1> HIDE DEF r
<1>2. \A k \in DOMAIN r : k + 1 \in DOMAIN q /\ r[k] = q[k + 1]
  BY <1>1
<1>3. \A k \in DOMAIN q : k = 1 \/ (k - 1 \in DOMAIN r /\ q[k] = r[k - 1])
  <2> TAKE k \in DOMAIN q
  <2>1. k # 1 => k - 1 \in 1..(Len(q) - 1) /\ k - 1 + 1 = k
    BY <1>1
  <2> QED BY <1>1, <2>1
<1>4. 1 \in DOMAIN q
  BY <1>1
<1>5. Flying(q) = Ids(q[1].buf) \union Flying(r)
  BY <1>2, <1>3, <1>4 DEF Flying
<1>6. ASSUME Ordered(q) PROVE Ordered(r) /\ Below(Ids(q[1].buf), Flying(r))
  <2>1. ASSUME NEW j \in DOMAIN r, NEW k \in DOMAIN r, j < k
        PROVE  Below(Ids(r[j].buf), Ids(r[k].buf))
    <3>1. j + 1 < k + 1
      BY <1>1, <2>1
    <3> QED BY <1>2, <1>6, <3>1 DEF Ordered
  <2>2. ASSUME NEW k \in DOMAIN r PROVE Below(Ids(q[1].buf), Ids(r[k].buf))
    <3>1. 1 < k + 1
      BY <1>1
    <3> QED BY <1>2, <1>4, <1>6, <3>1 DEF Ordered
  <2>3. Below(Ids(q[1].buf), Flying(r))
    BY <2>2 DEF Below, Flying
  <2> QED BY <2>1, <2>3 DEF Ordered
<1> QED BY <1>1, <1>5, <1>6 DEF r

LEMMA GotAppend ==
    ASSUME NEW r \in Seq(Segment), NEW seg \in Segment
    PROVE  Got(Append(r, seg)) = Got(r) \union {seg.id}
<1>1. /\ Len(r) \in Nat /\ DOMAIN r = 1..Len(r) /\ DOMAIN Append(r, seg) = 1..(Len(r) + 1)
      /\ Append(r, seg)[Len(r) + 1] = seg /\ \A k \in 1..Len(r) : Append(r, seg)[k] = r[k]
  OBVIOUS
<1>2. DOMAIN Append(r, seg) = DOMAIN r \union {Len(r) + 1} /\ Len(r) + 1 \notin DOMAIN r
  BY <1>1
<1> QED BY <1>1, <1>2 DEF Got
LEMMA PackedProp ==
    ASSUME SegmentsType, RingInv
    PROVE  Packed \in 0..Len(sent) /\ Len(sent) \in Nat /\ Packed \in Nat /\ DOMAIN sent = 1..Len(sent)
<1>1. /\ ring.len \in Nat /\ list.len \in Nat /\ sent \in Seq(Segment)
  BY RingFields DEF SegmentsType, SegmentsTypeOK
<1>2. list.len + ring.len <= Len(sent) /\ Len(sent) \in Nat
  BY <1>1 DEF RingInv
<1> QED BY <1>1, <1>2 DEF Packed

\* Only the segment thread packs.
LEMMA PackedStep ==
    ASSUME SegmentsType, RingInv, [SegmentsNext]_segmentsVars
    PROVE  Packed' = IF PackSegment THEN Packed + 1 ELSE Packed
<1>0. /\ ring \in Ring /\ list \in Ring /\ sent \in Seq(Segment) /\ Len(sent) \in Nat
      /\ ring.len \in Nat /\ list.len \in Nat
  BY RingFields DEF SegmentsType, SegmentsTypeOK
<1>1. CASE PackSegment
  <2>1. list'.len = list.len - 1 /\ UNCHANGED <<ring, sent>>
    BY <1>0, <1>1 DEF PackSegment, Ring
  <2>2. Len(sent) - (list.len - 1) - ring.len = Len(sent) - list.len - ring.len + 1
    BY <1>0
  <2> QED BY <1>1, <2>1, <2>2 DEF Packed
<1>2. CASE SendPackage
  <2>1. ring'.len = ring.len + 1 /\ list' = list /\ Len(sent') = Len(sent) + 1
    <3>1. PICK n \in 1..MaxLen :
          /\ ring' = [ring EXCEPT !.end = (@ + 1) % Capacity, !.len = @ + 1]
          /\ sent' = Append(sent, [id |-> Len(sent) + 1, len |-> n])
      BY <1>2 DEF SendPackage, PushSegment
    <3>2. [id |-> Len(sent) + 1, len |-> n] \in Segment
      BY <1>0, <1>2, LenAssumption, BoundAssumption DEF Segment, SendPackage
    <3>3. Len(sent') = Len(sent) + 1
      BY <1>0, <3>1, <3>2
    <3>4. ring'.len = ring.len + 1
      BY <1>0, <3>1 DEF Ring
    <3> QED BY <1>2, <3>3, <3>4 DEF SendPackage
  <2>2. Len(sent) + 1 - list.len - (ring.len + 1) = Len(sent) - list.len - ring.len
    BY <1>0
  <2>3. list' = list /\ Packed' = Packed
    <3>1. Packed' = Len(sent) + 1 - list.len - (ring.len + 1)
      <4>1. Packed' = Len(sent') - list'.len - ring'.len
        BY DEF Packed
      <4> QED BY <1>0, <2>1, <4>1
    <3> QED BY <2>1, <2>2, <3>1 DEF Packed
  <2>4. ~PackSegment
    <3>1. PackSegment => list'.len = list.len - 1
      BY <1>0 DEF PackSegment, Ring
    <3> QED BY <1>0, <2>1, <3>1
  <2> QED BY <2>3, <2>4
<1>3. CASE TakeSegments
  <2>1. list.len = 0 /\ list' = ring /\ ring'.len = 0 /\ sent' = sent
    BY <1>0, <1>3 DEF TakeSegments, Rebase, Ring
  <2>2. Len(sent) - ring.len - 0 = Len(sent) - 0 - ring.len
    BY <1>0
  <2>3. Packed' = Packed
    BY <2>1, <2>2 DEF Packed
  <2> QED BY <1>0, <2>1, <2>3 DEF PackSegment
<1>4. CASE UNCHANGED <<ring, list, sent>> /\ ~PackSegment
  BY <1>4 DEF Packed
<1>5. \/ SendPackage \/ TakeSegments \/ PackSegment
      \/ UNCHANGED <<ring, list, sent>>
  BY DEF SegmentsNext, SegmentThread, Receiver, FinishPackage, DropPackage, NextSegment, LoadPackage,
         LoadFails, segmentsVars
<1> QED BY <1>1, <1>2, <1>3, <1>4, <1>5

\* The segment thread's next segment is the oldest one that is not packed.
LEMMA FrontProp ==
    ASSUME SegmentsType, SentInv, RingInv, list.len > 0
    PROVE  /\ FrontSegment = sent[Packed + 1] /\ FrontSegment.id = Packed + 1
           /\ Packed + 1 \in DOMAIN sent /\ FrontSegment \in Segment
<1>0. /\ ring.len \in Nat /\ list.len \in Nat /\ list.start \in Slot /\ sent \in Seq(Segment)
  BY RingFields DEF SegmentsType, SegmentsTypeOK
<1>1. /\ Len(sent) \in Nat /\ list.len + ring.len <= Len(sent) /\ DOMAIN sent = 1..Len(sent)
      /\ Packed = Len(sent) - list.len - ring.len
  BY <1>0 DEF RingInv, Packed
<1>2. Packed + 1 \in DOMAIN sent /\ Packed + 1 + 0 = Packed + 1 /\ 0 \in 0..(list.len + ring.len - 1)
  BY <1>0, <1>1
<1>3. Place(list.start, 0) = list.start
  BY <1>0, CapacityAssumption, PlaceProp DEF Slot
<1>4. array[Place(list.start, 0)] = sent[Packed + 1 + 0]
  <2>1. \A i \in 0..(list.len + ring.len - 1) : array[Place(list.start, i)] = sent[Packed + 1 + i]
    BY DEF RingInv
  <2> QED BY <1>0, <1>1, <1>2, <2>1
<1>5. sent[Packed + 1] \in Segment
  BY <1>0, <1>2, ElementOfSeq
<1> QED BY <1>2, <1>3, <1>4, <1>5 DEF FrontSegment, SentInv

\* What PackSegment makes of the package.
LEMMA PackProp ==
    ASSUME SegmentsType, SentInv, RingInv, PackageInv, OrderInv, PackSegment
    PROVE  /\ IsPackage(buf', start', sent') /\ start' # 2
           /\ Ids(buf') = Ids(buf) \union {Packed + 1} /\ Packed \in Nat
<1> DEFINE seg == FrontSegment
           l == start - 2
           m == start + seg.len
<1>0. /\ buf \in Buffer /\ start \in Nat /\ start >= 2 /\ sent \in Seq(Segment)
  BY DEF SegmentsType, SegmentsTypeOK
<1>1. /\ list.len > 0 /\ buf' = Write(Write(buf, l, seg), m, Zero) /\ start' = start + seg.len + 2
      /\ sent' = sent
  BY DEF PackSegment
<1>2. seg = sent[Packed + 1] /\ seg.id = Packed + 1 /\ Packed + 1 \in DOMAIN sent /\ seg \in Segment
  BY <1>1, FrontProp
<1>3. l \in Nat /\ m \in Nat /\ l # m /\ start' = m + 2 /\ start' # 2 /\ l < m
  BY <1>0, <1>1, <1>2, SegmentProp
<1>4. \A o \in DOMAIN buf : o <= l
  BY NoPackageProp DEF PackageInv, IsPackage
<1>5. m \notin DOMAIN buf
  <2>1. m \in DOMAIN buf => m <= l
    BY <1>4
  <2> QED BY <1>3, <2>1
<1>6. l = start - 2 /\ m = start + seg.len
  OBVIOUS
<1>7. IF start = 2 THEN buf = NoPackage ELSE IsPackage(buf, start, sent)
  BY DEF PackageInv
<1>8. \A x \in Ids(buf) : x < seg.id
  <2>1. Ids(buf) \subseteq 1..Packed /\ Packed \in Nat
    BY PackedProp DEF OrderInv
  <2> QED BY <1>2, <2>1
<1> HIDE DEF l, m, seg
<1>9. /\ DOMAIN buf' = DOMAIN buf \union {l, m} /\ \A o \in DOMAIN buf \ {l} : buf'[o] = buf[o]
      /\ buf'[l] = seg /\ buf'[m] = Zero
  <2>1. l # m
    BY <1>3
  <2>2. buf' = Write(Write(buf, l, seg), m, Zero)
    BY <1>1
  <2> DEFINE d == Write(buf, l, seg)
  <2>3. DOMAIN d = DOMAIN buf \union {l} /\ d[l] = seg /\ \A p \in DOMAIN buf \ {l} : d[p] = buf[p]
    BY DEF Write
  <2> HIDE DEF d
  <2>4. /\ DOMAIN Write(d, m, Zero) = DOMAIN d \union {m} /\ Write(d, m, Zero)[m] = Zero
        /\ \A p \in DOMAIN d \ {m} : Write(d, m, Zero)[p] = d[p]
    BY DEF Write
  <2>5. buf' = Write(d, m, Zero)
    BY <2>2 DEF d
  <2> QED BY <1>5, <2>1, <2>3, <2>4, <2>5
<1>10. buf' \in Buffer
  <2>1. Write(buf, l, seg) \in Buffer
    BY <1>0, <1>2, <1>3, WriteProp
  <2> QED BY <1>1, <1>3, <2>1, WriteProp
<1>11. IsPackage(buf', start + seg.len + 2, sent) /\ Ids(buf') = Ids(buf) \union {seg.id}
  <2>1. buf \in Buffer /\ start \in Nat /\ start >= 2 /\ l \in Nat /\ m \in Nat /\ sent \in Seq(Segment)
    BY <1>0, <1>3
  <2>2. seg \in Segment /\ seg.id \in DOMAIN sent /\ seg = sent[seg.id]
    BY <1>2
  <2>3. Extended(buf, start, seg, buf')
    BY <1>6, <1>9 DEF Extended
  <2> QED BY <1>7, <1>8, <1>10, <2>1, <2>2, <2>3, WrittenPackage
<1> QED BY <1>1, <1>2, <1>3, <1>11, PackedProp
LEMMA SentStep ==
    ASSUME SegmentsType, SentInv, [SegmentsNext]_segmentsVars
    PROVE  SentInv' /\ (sent' = sent \/ \E seg \in Segment : sent' = Append(sent, seg))
<1>0. sent \in Seq(Segment) /\ Len(sent) \in Nat
  BY DEF SegmentsType, SegmentsTypeOK
<1>1. CASE SendPackage
  <2>1. PICK n \in 1..MaxLen : sent' = Append(sent, [id |-> Len(sent) + 1, len |-> n])
    BY <1>1 DEF SendPackage
  <2> DEFINE seg == [id |-> Len(sent) + 1, len |-> n]
  <2>2. seg \in Segment /\ seg.id = Len(sent) + 1
    BY <1>0, <1>1, LenAssumption, BoundAssumption DEF Segment, SendPackage
  <2>3. sent' = Append(sent, seg)
    BY <2>1
  <2> HIDE DEF seg
  <2>4. /\ DOMAIN sent' = 1..(Len(sent) + 1) /\ sent'[Len(sent) + 1] = seg
        /\ \A k \in 1..Len(sent) : sent'[k] = sent[k]
    BY <1>0, <2>2, <2>3
  <2>5. ASSUME NEW k \in DOMAIN sent' PROVE sent'[k].id = k
    <3>1. CASE k = Len(sent) + 1
      BY <2>2, <2>4, <3>1
    <3>2. CASE k # Len(sent) + 1
      <4>1. k \in 1..Len(sent)
        BY <1>0, <2>4, <3>2
      <4> QED BY <1>0, <2>4, <4>1 DEF SentInv
    <3> QED BY <3>1, <3>2
  <2> QED BY <2>2, <2>3, <2>5 DEF SentInv
<1>2. CASE sent' = sent
  BY <1>2 DEF SentInv
<1>3. SendPackage \/ sent' = sent
  BY DEF SegmentsNext, SegmentThread, Receiver, TakeSegments, PackSegment, FinishPackage, DropPackage,
         NextSegment, LoadPackage, LoadFails, segmentsVars
<1> QED BY <1>1, <1>2, <1>3

LEMMA PackageStep ==
    ASSUME SegmentsType, SentInv, RingInv, PackageInv, OrderInv, [SegmentsNext]_segmentsVars
    PROVE  PackageInv'
<1>0. /\ buf \in Buffer /\ start \in Nat /\ start >= 2 /\ sent \in Seq(Segment)
      /\ packages \in Seq(Package) /\ parser \in [buf : Buffer, start : Nat]
  BY DEF SegmentsType, SegmentsTypeOK
<1>1. ASSUME NEW b \in Buffer, NEW n \in Nat, IsPackage(b, n, sent) PROVE IsPackage(b, n, sent')
  <2>1. CASE sent' = sent
    BY <1>1, <2>1
  <2>2. ASSUME NEW seg \in Segment, sent' = Append(sent, seg) PROVE IsPackage(b, n, sent')
    BY <1>0, <1>1, <2>2, PackageExtended
  <2> QED BY <2>1, <2>2, SentStep
<1>2. \A k \in DOMAIN packages : IsPackage(packages[k].buf, packages[k].len, sent')
  <2> TAKE k \in DOMAIN packages
  <2>1. packages[k] \in Package
    BY <1>0, ElementOfSeq
  <2>2. packages[k].buf \in Buffer /\ packages[k].len \in Nat
    BY <2>1 DEF Package
  <2> QED BY <1>1, <2>2 DEF PackageInv
<1> DEFINE P1 == IF start' = 2 THEN buf' = NoPackage ELSE IsPackage(buf', start', sent')
           P2 == \A k \in DOMAIN packages' : IsPackage(packages'[k].buf, packages'[k].len, sent')
           P3 == \/ parser' = [buf |-> NoPackage, start |-> 0]
                 \/ /\ \E n \in Nat : IsPackage(parser'.buf, n, sent')
                    /\ parser'.start \in DOMAIN parser'.buf
<1>3. P1
  <2>1. CASE PackSegment
    BY <2>1, PackProp
  <2>2. CASE FinishPackage
    BY <2>2 DEF FinishPackage
  <2>3. CASE UNCHANGED <<buf, start>>
    BY <1>0, <1>1, <2>3 DEF PackageInv
  <2> QED
    BY <2>1, <2>2, <2>3 DEF SegmentsNext, SegmentThread, Receiver, SendPackage, TakeSegments,
       DropPackage, NextSegment, LoadPackage, LoadFails, segmentsVars
<1>4. P2
  <2>1. CASE FinishPackage
    <3> DEFINE p == [buf |-> buf, len |-> start]
    <3>1. p \in Package /\ p.buf = buf /\ p.len = start
      BY <1>0 DEF Package
    <3>2. packages' = Append(packages, p) /\ sent' = sent /\ start # 2
      BY <1>0, <2>1 DEF FinishPackage
    <3> HIDE DEF p
    <3>3. /\ DOMAIN packages' = 1..(Len(packages) + 1) /\ packages'[Len(packages) + 1] = p
          /\ \A k \in 1..Len(packages) : packages'[k] = packages[k]
          /\ DOMAIN packages = 1..Len(packages) /\ Len(packages) \in Nat
      BY <1>0, <3>1, <3>2
    <3>4. IsPackage(p.buf, p.len, sent')
      BY <3>1, <3>2 DEF PackageInv
    <3> TAKE k \in DOMAIN packages'
    <3>5. CASE k = Len(packages) + 1
      BY <3>3, <3>4, <3>5
    <3>6. CASE k # Len(packages) + 1
      <4>1. k \in 1..Len(packages)
        BY <3>3, <3>6
      <4> QED BY <1>2, <3>3, <4>1
    <3> QED BY <3>5, <3>6
  <2>2. CASE DropPackage \/ LoadPackage \/ LoadFails
    <3>1. packages # <<>> /\ packages' = Tail(packages)
      BY <2>2 DEF DropPackage, LoadPackage, LoadFails
    <3>2. \A k \in DOMAIN packages' : k + 1 \in DOMAIN packages /\ packages'[k] = packages[k + 1]
      BY <1>0, <3>1
    <3> QED BY <1>2, <3>2
  <2>3. CASE packages' = packages
    BY <1>2, <2>3
  <2> QED
    BY <2>1, <2>2, <2>3 DEF SegmentsNext, SegmentThread, Receiver, SendPackage, TakeSegments,
       PackSegment, NextSegment, segmentsVars
<1>5. P3
  <2>1. CASE NextSegment
    <3>1. /\ parser.start \in DOMAIN parser.buf /\ Field = parser.buf[parser.start] /\ Field # Zero
          /\ parser.buf # NoPackage /\ parser.buf \in Buffer
      BY <1>0, <2>1, FieldProp DEF NextSegment
    <3>2. PICK n \in Nat : IsPackage(parser.buf, n, sent)
      BY <3>1 DEF PackageInv
    <3>3. parser' = [buf |-> parser.buf, start |-> parser.start + Field.len + 2] /\ sent' = sent
      BY <1>0, <2>1 DEF NextSegment
    <3>4. parser.start + Field.len + 2 \in DOMAIN parser.buf
      <4>1. parser.start # n - 2
        BY <3>1, <3>2 DEF IsPackage
      <4> QED BY <3>1, <3>2, <4>1 DEF IsPackage
    <3> QED BY <3>2, <3>3, <3>4
  <2>2. CASE LoadPackage
    <3>1. parser' = [buf |-> Head(packages).buf, start |-> 0] /\ packages # <<>>
      BY <2>2 DEF LoadPackage, Loaded
    <3>2. Head(packages) = packages[1] /\ 1 \in DOMAIN packages
      BY <1>0, <3>1
    <3>3. IsPackage(packages[1].buf, packages[1].len, sent') /\ packages[1].len \in Nat
      <4>1. packages[1] \in Package
        BY <1>0, <3>2, ElementOfSeq
      <4> QED BY <1>2, <3>2, <4>1 DEF Package
    <3>4. 0 \in DOMAIN packages[1].buf
      BY <3>3 DEF IsPackage
    <3> QED BY <3>1, <3>2, <3>3, <3>4
  <2>3. CASE parser' = parser
    BY <1>0, <1>1, <2>3 DEF PackageInv
  <2> QED
    BY <2>1, <2>2, <2>3 DEF SegmentsNext, SegmentThread, Receiver, SendPackage, TakeSegments,
       PackSegment, FinishPackage, DropPackage, LoadFails, segmentsVars
<1> QED BY <1>3, <1>4, <1>5 DEF PackageInv

LEMMA FitsStep ==
    ASSUME SegmentsType, FitsInv, [SegmentsNext]_segmentsVars
    PROVE  FitsInv'
<1>0. /\ array \in [Slot -> Segment \union {Zero}] /\ list.start \in Slot /\ buf \in Buffer
      /\ packages \in Seq(Package) /\ start \in Nat /\ start >= 2 /\ MaxSegment \in Nat
  BY RingFields, LenAssumption DEF SegmentsType, SegmentsTypeOK
<1>1. CASE PackSegment
  <2>1. FrontSegment \in Segment \union {Zero}
    BY <1>0 DEF FrontSegment
  <2>2. FrontSegment.len \in Nat
    BY <2>1, SegmentProp DEF Zero
  <2> QED BY <1>0, <1>1, <2>2 DEF PackSegment, Fits, FitsInv, PackageFits
<1>2. CASE FinishPackage
  <2> DEFINE p == [buf |-> buf, len |-> start]
  <2>1. p \in Package /\ p.len <= MaxSegment
    BY <1>0, <1>2 DEF Package, FitsInv, FinishPackage
  <2>2. packages' = Append(packages, p) /\ start' = 2
    BY <1>2 DEF FinishPackage
  <2> HIDE DEF p
  <2>3. /\ DOMAIN packages' = 1..(Len(packages) + 1) /\ packages'[Len(packages) + 1] = p
        /\ \A k \in 1..Len(packages) : packages'[k] = packages[k]
        /\ DOMAIN packages = 1..Len(packages) /\ Len(packages) \in Nat
    BY <1>0, <2>1, <2>2
  <2>4. \A k \in DOMAIN packages' : k \in DOMAIN packages \/ k = Len(packages) + 1
    BY <2>3
  <2> QED BY <2>1, <2>2, <2>3, <2>4 DEF FitsInv, PackageFits
<1>3. CASE DropPackage \/ LoadPackage \/ LoadFails
  <2>1. packages # <<>> /\ packages' = Tail(packages) /\ start' = start
    BY <1>3 DEF DropPackage, LoadPackage, LoadFails
  <2>2. \A k \in DOMAIN packages' : k + 1 \in DOMAIN packages /\ packages'[k] = packages[k + 1]
    BY <1>0, <2>1
  <2> QED BY <2>1, <2>2 DEF FitsInv, PackageFits
<1>4. CASE UNCHANGED <<packages, start>>
  BY <1>4 DEF FitsInv, PackageFits
<1> QED
  BY <1>1, <1>2, <1>3, <1>4 DEF SegmentsNext, SegmentThread, Receiver, SendPackage, TakeSegments,
     NextSegment, segmentsVars
\* The parser at a zero has nothing left.
LEMMA AtZero ==
    ASSUME SegmentsType, PackageInv, Field = Zero
    PROVE  Left = {}
<1>0. parser.buf \in Buffer /\ sent \in Seq(Segment)
  BY DEF SegmentsType, SegmentsTypeOK
<1>1. CASE parser.buf = NoPackage
  BY <1>1, NoPackageIds DEF Left
<1>2. CASE parser.buf # NoPackage
  <2>1. parser # [buf |-> NoPackage, start |-> 0]
    BY <1>2
  <2>2. parser.start \in DOMAIN parser.buf /\ \E n \in Nat : IsPackage(parser.buf, n, sent)
    BY <2>1 DEF PackageInv
  <2>3. parser.buf[parser.start] = Zero
    BY <1>2 DEF Field
  <2> QED BY <1>0, <2>2, <2>3, LeftNone DEF Left
<1> QED BY <1>1, <1>2

\* NextSegment takes the first of what the parser has left.
LEMMA TakeProp ==
    ASSUME SegmentsType, PackageInv, NextSegment
    PROVE  /\ Field \in Segment /\ received' = Append(received, Field)
           /\ Got(received') = Got(received) \union {Field.id}
           /\ Left = {Field.id} \union Left' /\ \A y \in Left' : Field.id < y
           /\ Field.id \in DOMAIN sent /\ Field = sent[Field.id]
<1>0. parser.buf \in Buffer /\ sent \in Seq(Segment) /\ received \in Seq(Segment) /\ parser.start \in Nat
  BY DEF SegmentsType, SegmentsTypeOK
<1>1. /\ parser.buf # NoPackage /\ parser.start \in DOMAIN parser.buf
      /\ Field = parser.buf[parser.start] /\ Field \in Segment /\ Field # Zero
  BY FieldProp DEF NextSegment
<1>2. PICK n \in Nat : IsPackage(parser.buf, n, sent)
  BY <1>1 DEF PackageInv
<1>3. received' = Append(received, Field)
  BY DEF NextSegment
<1>4. Got(received') = Got(received) \union {Field.id}
  BY <1>0, <1>1, <1>3, GotAppend
<1> DEFINE e == parser.start + parser.buf[parser.start].len + 2
<1>5. parser'.buf = parser.buf /\ parser'.start = e
  <2>1. parser \in [buf : Buffer, start : Nat] /\ parser' = [parser EXCEPT !.start = @ + Field.len + 2]
    BY DEF SegmentsType, NextSegment
  <2> QED BY <1>1, <2>1
<1>6. e = parser.start + parser.buf[parser.start].len + 2
  OBVIOUS
<1> HIDE DEF e
<1>7. /\ IdsFrom(parser.buf, parser.start) = {Field.id} \union IdsFrom(parser.buf, e)
      /\ \A y \in IdsFrom(parser.buf, e) : Field.id < y
  BY <1>0, <1>1, <1>2, <1>6, LeftNext
<1>8. Field.id \in DOMAIN sent /\ Field = sent[Field.id]
  <2>1. parser.start # n - 2
    BY <1>1, <1>2 DEF IsPackage
  <2> QED BY <1>1, <1>2, <2>1 DEF IsPackage
<1> QED BY <1>1, <1>3, <1>4, <1>5, <1>7, <1>8 DEF Left

\* What a step does to the four groups of segments.
LEMMA GroupsStep ==
    ASSUME SegmentsType, SentInv, RingInv, PackageInv, OrderInv, [SegmentsNext]_segmentsVars
    PROVE  \/ /\ PackSegment
              /\ Ids(buf') = Ids(buf) \union {Packed + 1} /\ Packed' = Packed + 1
              /\ UNCHANGED <<received, bad, Left, packages>>
           \/ /\ FinishPackage
              /\ Flying(packages') = Flying(packages) \union Ids(buf) /\ Ids(buf') = {}
              /\ Ordered(packages')
              /\ UNCHANGED <<received, bad, Left, Packed>>
           \/ /\ NextSegment
              /\ UNCHANGED <<bad, packages, buf, Packed>>
           \/ /\ LoadPackage \/ DropPackage \/ LoadFails
              /\ Flying(packages) = Ids(Head(packages).buf) \union Flying(packages')
              /\ Below(Ids(Head(packages).buf), Flying(packages')) /\ Ordered(packages')
              /\ \/ Left = {} /\ Left' = Ids(Head(packages).buf) /\ bad' = bad
                 \/ Left' = Left /\ bad' = bad + 1
              /\ UNCHANGED <<received, buf, Packed>>
           \/ UNCHANGED <<received, bad, Left, packages, buf, Packed>>
<1>0. /\ buf \in Buffer /\ start \in Nat /\ packages \in Seq(Package)
      /\ parser \in [buf : Buffer, start : Nat]
  BY DEF SegmentsType, SegmentsTypeOK
<1>1. Packed' = IF PackSegment THEN Packed + 1 ELSE Packed
  BY PackedStep
<1>2. CASE PackSegment
  <2>1. UNCHANGED <<received, bad, parser, packages>>
    BY <1>2 DEF PackSegment
  <2> QED BY <1>1, <1>2, <2>1, PackProp DEF Left
<1>3. CASE FinishPackage
  <2> DEFINE p == [buf |-> buf, len |-> start]
  <2>1. p \in Package /\ p.buf = buf
    BY <1>0 DEF Package
  <2>2. packages' = Append(packages, p) /\ buf' = NoPackage /\ UNCHANGED <<received, bad, parser>>
    BY <1>3 DEF FinishPackage
  <2> HIDE DEF p
  <2>3. Flying(packages') = Flying(packages) \union Ids(buf)
    BY <1>0, <2>1, <2>2, FlyingAppend
  <2>4. Ordered(packages')
    <3>1. Ordered(packages) /\ Below(Flying(packages), Ids(p.buf))
      BY <2>1 DEF OrderInv
    <3> QED BY <1>0, <2>1, <2>2, <3>1, FlyingAppend
  <2>5. list' = list
    BY <1>3 DEF FinishPackage
  <2>6. ~PackSegment
    <3>1. PackSegment => packages' = packages
      BY DEF PackSegment
    <3>2. packages' # packages
      BY <1>0, <2>1, <2>2
    <3> QED BY <3>1, <3>2
  <2> QED BY <1>1, <1>3, <2>2, <2>3, <2>4, <2>6, NoPackageIds DEF Left
<1>4. CASE NextSegment
  <2>1. ~PackSegment
    <3>1. PackSegment => received' = received
      BY DEF PackSegment
    <3>2. received \in Seq(Segment) /\ received' = Append(received, Field)
      BY <1>4 DEF SegmentsType, SegmentsTypeOK, NextSegment
    <3>3. received' # received
      BY <3>2
    <3> QED BY <3>1, <3>3
  <2> QED BY <1>1, <1>4, <2>1 DEF NextSegment
<1>5. CASE LoadPackage \/ DropPackage \/ LoadFails
  <2>1. packages # <<>> /\ packages' = Tail(packages) /\ UNCHANGED <<received, buf>>
    BY <1>5 DEF LoadPackage, DropPackage, LoadFails
  <2>2. ~PackSegment
    <3>1. PackSegment => packages' = packages
      BY DEF PackSegment
    <3>2. packages' # packages
      BY <1>0, <2>1
    <3> QED BY <3>1, <3>2
  <2>3. /\ Flying(packages) = Ids(Head(packages).buf) \union Flying(packages')
        /\ Below(Ids(Head(packages).buf), Flying(packages')) /\ Ordered(packages')
    <3>1. Ordered(packages)
      BY DEF OrderInv
    <3> QED BY <1>0, <2>1, <3>1, FlyingTail
  <2>4. \/ Left = {} /\ Left' = Ids(Head(packages).buf) /\ bad' = bad
        \/ Left' = Left /\ bad' = bad + 1
    <3>1. CASE LoadPackage
      <4>1. /\ Field = Zero /\ bad' = bad /\ parser' = [buf |-> Head(packages).buf, start |-> 0]
        BY <3>1 DEF LoadPackage, Loaded
      <4>2. Left = {}
        BY <4>1, AtZero
      <4>3. Head(packages).buf \in Buffer
        <5>1. Head(packages) \in Package
          BY <1>0, <2>1
        <5> QED BY <5>1 DEF Package
      <4>4. Left' = Ids(Head(packages).buf)
        <5>1. parser'.buf = Head(packages).buf /\ parser'.start = 0
          BY <4>1
        <5> QED BY <4>3, <5>1, LeftAll DEF Left
      <4> QED BY <4>1, <4>2, <4>4
    <3>2. CASE DropPackage \/ LoadFails
      BY <3>2 DEF DropPackage, LoadFails, Left
    <3> QED BY <1>5, <3>1, <3>2
  <2> QED BY <1>1, <1>5, <2>1, <2>2, <2>3, <2>4
<1>6. CASE ~PackSegment /\ UNCHANGED <<received, bad, parser, packages, buf>>
  BY <1>1, <1>6 DEF Left
<1>7. \/ PackSegment \/ FinishPackage \/ NextSegment
      \/ LoadPackage \/ DropPackage \/ LoadFails
      \/ UNCHANGED <<received, bad, parser, packages, buf>>
  BY DEF SegmentsNext, SegmentThread, Receiver, SendPackage, TakeSegments, segmentsVars
<1> QED BY <1>2, <1>3, <1>4, <1>5, <1>6, <1>7
LEMMA OrderStep ==
    ASSUME SegmentsType, SentInv, RingInv, PackageInv, OrderInv, [SegmentsNext]_segmentsVars
    PROVE  OrderInv'
<1> DEFINE G == Got(received)
           L == Left
           F == Flying(packages)
           B == Ids(buf)
           h == Ids(Head(packages).buf)
<1>0. Packed \in Nat
  BY PackedProp
<1>1. /\ Below(G, L) /\ Below(G, F) /\ Below(G, B) /\ Below(L, F) /\ Below(L, B) /\ Below(F, B)
      /\ Ordered(packages) /\ G \union L \union F \union B \subseteq 1..Packed
  BY DEF OrderInv
<1> DEFINE O(g, l, f, b, n) ==
             /\ Below(g, l) /\ Below(g, f) /\ Below(g, b) /\ Below(l, f) /\ Below(l, b) /\ Below(f, b)
             /\ g \union l \union f \union b \subseteq 1..n
<1>2. O(G, L, F, B, Packed)
  BY <1>1
<1>3. SUFFICES O(G', L', F', B', Packed') /\ Ordered(packages')
  BY DEF OrderInv
<1>4. CASE /\ B' = B \union {Packed + 1} /\ Packed' = Packed + 1
           /\ UNCHANGED <<received, bad, Left, packages>>
  <2>1. G' = G /\ L' = L /\ F' = F /\ Ordered(packages')
    BY <1>1, <1>4
  <2>2. \A S : S \subseteq 1..Packed /\ Below(S, B) => Below(S, B')
    BY <1>0, <1>4 DEF Below
  <2>3. G' \union L' \union F' \union B' \subseteq 1..Packed'
    BY <1>0, <1>1, <1>4, <2>1
  <2> QED BY <1>1, <2>1, <2>2, <2>3
<1>5. CASE /\ F' = F \union B /\ B' = {} /\ Ordered(packages')
           /\ UNCHANGED <<received, bad, Left, Packed>>
  <2>1. G' = G /\ L' = L
    BY <1>5
  <2> QED BY <1>1, <1>5, <2>1 DEF Below
<1>6. CASE NextSegment /\ UNCHANGED <<bad, packages, buf, Packed>>
  <2>1. F' = F /\ B' = B /\ Ordered(packages')
    BY <1>1, <1>6
  <2>2. G' = G \union {Field.id} /\ L = {Field.id} \union L' /\ \A y \in L' : Field.id < y
    BY <1>6, TakeProp
  <2> HIDE DEF G, L, F, B
  <2> QED BY <1>1, <1>6, <2>1, <2>2 DEF Below
<1>7. CASE /\ F = h \union F' /\ Below(h, F') /\ Ordered(packages')
           /\ \/ Left = {} /\ Left' = h /\ bad' = bad
              \/ Left' = Left /\ bad' = bad + 1
           /\ UNCHANGED <<received, buf, Packed>>
  <2>1. G' = G /\ B' = B /\ Packed' = Packed
    BY <1>7
  <2>2. F' \subseteq F /\ h \subseteq F
    BY <1>7
  <2>3. CASE Left = {} /\ Left' = h
    BY <1>1, <1>7, <2>1, <2>2, <2>3 DEF Below
  <2>4. CASE Left' = Left
    BY <1>1, <1>7, <2>1, <2>2, <2>4 DEF Below
  <2> QED BY <1>7, <2>3, <2>4
<1>8. CASE UNCHANGED <<received, bad, Left, packages, buf, Packed>>
  BY <1>1, <1>8
<1> HIDE DEF O
<1> QED BY <1>4, <1>5, <1>6, <1>7, <1>8, GroupsStep

LEMMA CompleteStep ==
    ASSUME SegmentsType, SentInv, RingInv, PackageInv, OrderInv, CompleteInv, [SegmentsNext]_segmentsVars
    PROVE  CompleteInv'
<1> DEFINE G == Got(received)
           L == Left
           F == Flying(packages)
           B == Ids(buf)
           h == Ids(Head(packages).buf)
<1>0. Packed \in Nat /\ bad \in Nat
  BY PackedProp, BoundAssumption DEF SegmentsType, SegmentsTypeOK
<1>1. bad = 0 => 1..Packed \subseteq G \union L \union F \union B
  BY DEF CompleteInv
<1>2. SUFFICES ASSUME bad' = 0 PROVE 1..Packed' \subseteq G' \union L' \union F' \union B'
  BY DEF CompleteInv
<1>3. CASE /\ B' = B \union {Packed + 1} /\ Packed' = Packed + 1
           /\ UNCHANGED <<received, bad, Left, packages>>
  <2>1. G' = G /\ L' = L /\ F' = F /\ bad = 0
    BY <1>2, <1>3
  <2>2. 1..Packed' = 1..Packed \union {Packed + 1}
    BY <1>0, <1>3
  <2> QED BY <1>1, <1>3, <2>1, <2>2
<1>4. CASE /\ F' = F \union B /\ B' = {} /\ Ordered(packages')
           /\ UNCHANGED <<received, bad, Left, Packed>>
  <2>1. G' = G /\ L' = L /\ bad = 0 /\ Packed' = Packed
    BY <1>2, <1>4
  <2> QED BY <1>1, <1>4, <2>1
<1>5. CASE NextSegment /\ UNCHANGED <<bad, packages, buf, Packed>>
  <2>1. F' = F /\ B' = B /\ bad = 0 /\ Packed' = Packed
    BY <1>2, <1>5
  <2>2. G' = G \union {Field.id} /\ L = {Field.id} \union L'
    BY <1>5, TakeProp
  <2> HIDE DEF G, L, F, B
  <2> QED BY <1>1, <2>1, <2>2
<1>6. CASE /\ F = h \union F' /\ Below(h, F') /\ Ordered(packages')
           /\ \/ Left = {} /\ Left' = h /\ bad' = bad
              \/ Left' = Left /\ bad' = bad + 1
           /\ UNCHANGED <<received, buf, Packed>>
  <2>1. G' = G /\ B' = B /\ Packed' = Packed
    BY <1>6
  <2>2. bad' = bad /\ Left = {} /\ Left' = h
    BY <1>0, <1>2, <1>6
  <2> QED BY <1>1, <1>2, <1>6, <2>1, <2>2
<1>7. CASE UNCHANGED <<received, bad, Left, packages, buf, Packed>>
  BY <1>1, <1>2, <1>7
<1> QED BY <1>3, <1>4, <1>5, <1>6, <1>7, GroupsStep

LEMMA ReceivedStep ==
    ASSUME SegmentsType, SentInv, RingInv, PackageInv, OrderInv, ReceivedInv, CompleteInv,
           [SegmentsNext]_segmentsVars
    PROVE  ReceivedInv'
<1>0. /\ sent \in Seq(Segment) /\ received \in Seq(Segment) /\ Len(received) \in Nat
      /\ DOMAIN received = 1..Len(received) /\ bad \in Nat
  BY BoundAssumption DEF SegmentsType, SegmentsTypeOK
<1>1. /\ \A k \in DOMAIN received : received[k].id \in DOMAIN sent /\ received[k] = sent[received[k].id]
      /\ \A j, k \in DOMAIN received : j < k => received[j].id < received[k].id
      /\ bad = 0 => \A k \in DOMAIN received : received[k].id = k
  BY DEF ReceivedInv
<1>2. CASE NextSegment
  <2>1. /\ Field \in Segment /\ received' = Append(received, Field)
        /\ Left = {Field.id} \union Left' /\ \A y \in Left' : Field.id < y
        /\ Field.id \in DOMAIN sent /\ Field = sent[Field.id] /\ sent' = sent /\ bad' = bad
    BY <1>2, TakeProp DEF NextSegment
  <2>2. /\ DOMAIN received' = 1..(Len(received) + 1) /\ received'[Len(received) + 1] = Field
        /\ \A k \in 1..Len(received) : received'[k] = received[k]
    BY <1>0, <2>1
  <2>3. \A k \in DOMAIN received' : k = Len(received) + 1 \/ k \in DOMAIN received
    BY <1>0, <2>2
  <2>4. \A k \in DOMAIN received : received[k].id < Field.id
    <3>1. \A k \in DOMAIN received : received[k].id \in Got(received)
      BY DEF Got
    <3>2. Field.id \in Left
      BY <2>1
    <3> QED BY <3>1, <3>2 DEF OrderInv, Below
  <2>5. ASSUME bad = 0 PROVE Field.id = Len(received) + 1
    <3> DEFINE f == Field.id
               m == Len(received) + 1
    <3>1. f \in Left /\ f \in 1..Packed /\ Packed \in Nat
      <4>1. f \in Left
        BY <2>1
      <4>2. Left \subseteq 1..Packed
        BY DEF OrderInv
      <4> QED BY <4>1, <4>2, PackedProp
    <3>2. \A k \in DOMAIN received : received[k].id = k
      BY <1>1, <2>5
    <3>3. ~(f <= Len(received))
      <4>1. f <= Len(received) => f \in DOMAIN received
        BY <1>0, <3>1
      <4> QED BY <2>4, <3>1, <3>2, <4>1
    <3>4. ASSUME m < f PROVE FALSE
      <4>1. m \in 1..Packed
        BY <1>0, <3>1, <3>4
      <4>2. m \in Got(received) \union Left \union Flying(packages) \union Ids(buf)
        BY <2>5, <4>1 DEF CompleteInv
      <4>3. m \notin Got(received)
        <5> SUFFICES ASSUME NEW k \in DOMAIN received, m = received[k].id PROVE FALSE
          BY DEF Got
        <5> QED BY <1>0, <3>2
      <4>4. m \notin Left
        BY <1>0, <2>1, <3>1, <3>4
      <4>5. m \notin Flying(packages) /\ m \notin Ids(buf)
        <5>1. Below(Left, Flying(packages)) /\ Below(Left, Ids(buf))
          BY DEF OrderInv
        <5>2. ~(f < m)
          BY <1>0, <3>1, <3>4
        <5> QED BY <3>1, <5>1, <5>2 DEF Below
      <4> QED BY <4>2, <4>3, <4>4, <4>5
    <3> QED BY <1>0, <3>1, <3>3, <3>4
  <2>6. ASSUME NEW k \in DOMAIN received'
        PROVE  received'[k].id \in DOMAIN sent' /\ received'[k] = sent'[received'[k].id]
    BY <1>0, <1>1, <2>1, <2>2, <2>3
  <2>7. ASSUME NEW j \in DOMAIN received', NEW k \in DOMAIN received', j < k
        PROVE  received'[j].id < received'[k].id
    <3>1. j \in DOMAIN received /\ received'[j] = received[j]
      BY <1>0, <2>2, <2>3, <2>7
    <3>2. CASE k = Len(received) + 1
      BY <2>2, <2>4, <3>1, <3>2
    <3>3. CASE k \in DOMAIN received
      BY <1>0, <1>1, <2>2, <2>7, <3>1, <3>3
    <3> QED BY <2>3, <3>2, <3>3
  <2>8. ASSUME bad' = 0, NEW k \in DOMAIN received' PROVE received'[k].id = k
    <3>1. bad = 0
      BY <2>1, <2>8
    <3> QED BY <1>0, <1>1, <2>2, <2>3, <2>5, <3>1
  <2> QED BY <2>6, <2>7, <2>8 DEF ReceivedInv
<1>3. CASE received' = received
  <2>1. ASSUME NEW k \in DOMAIN received
        PROVE  received[k].id \in DOMAIN sent' /\ received[k] = sent'[received[k].id]
    <3>1. CASE sent' = sent
      BY <1>1, <3>1
    <3>2. ASSUME NEW seg \in Segment, sent' = Append(sent, seg)
          PROVE  received[k].id \in DOMAIN sent' /\ received[k] = sent'[received[k].id]
      <4>1. \A i \in DOMAIN sent : i \in DOMAIN sent' /\ sent'[i] = sent[i]
        BY <1>0, <3>2
      <4> QED BY <1>1, <4>1
    <3> QED BY <3>1, <3>2, SentStep
  <2>2. bad' = 0 => bad = 0
    <3>1. bad' = bad \/ bad' = bad + 1
      BY DEF SegmentsNext, SegmentThread, Receiver, SendPackage, TakeSegments, PackSegment,
             FinishPackage, DropPackage, NextSegment, LoadPackage, LoadFails, segmentsVars
    <3> QED BY <1>0, <3>1
  <2> QED BY <1>1, <1>3, <2>1, <2>2 DEF ReceivedInv
<1>4. NextSegment \/ received' = received
  BY DEF SegmentsNext, SegmentThread, Receiver, SendPackage, TakeSegments, PackSegment,
         FinishPackage, DropPackage, LoadPackage, LoadFails, segmentsVars
<1> QED BY <1>2, <1>3, <1>4

LEMMA SegmentsInitInv == SegmentsInit => SegmentsInv
<1> SUFFICES ASSUME SegmentsInit PROVE SegmentsInv
  OBVIOUS
<1>0. /\ array = [s \in Slot |-> Zero] /\ ring = [len |-> 0, start |-> 0, end |-> 0] /\ list = ring
      /\ sent = <<>> /\ buf = NoPackage /\ start = 2 /\ packages = <<>> /\ bad = 0
      /\ parser = [buf |-> NoPackage, start |-> 0] /\ received = <<>>
  BY DEF SegmentsInit
<1>1. SegmentsType
  <2>1. ring \in Ring
    BY <1>0, CapacityAssumption DEF Ring, Slot
  <2>2. packages \in Seq(Package) /\ sent \in Seq(Segment) /\ received \in Seq(Segment)
    BY <1>0
  <2> QED BY <1>0, <2>1, <2>2, NoPackageProp, BoundAssumption DEF SegmentsType, SegmentsTypeOK
<1>2. /\ list.len = 0 /\ ring.len = 0 /\ list.start = 0 /\ ring.start = 0 /\ ring.end = 0
      /\ Len(sent) = 0
  BY <1>0
<1>3. Packed = 0
  BY <1>2 DEF Packed
<1>4. RingInv
  <2>1. 0 \in Slot /\ 0 \in 0..Capacity /\ Capacity \in Nat \ {0}
    BY CapacityAssumption DEF Slot
  <2>2. Place(0, 0) = 0
    BY <2>1, PlaceProp
  <2> QED BY <1>2, <2>1, <2>2 DEF RingInv
<1>5. PackageInv /\ FitsInv /\ SentInv /\ ReceivedInv
  BY <1>0 DEF PackageInv, FitsInv, PackageFits, SentInv, ReceivedInv
<1>6. Ids(buf) = {} /\ Left = {} /\ Flying(packages) = {} /\ Got(received) = {}
  <2>1. parser.buf = NoPackage
    BY <1>0
  <2> QED BY <1>0, <2>1, NoPackageIds DEF Left, Flying, Got
<1>7. OrderInv
  BY <1>0, <1>6 DEF OrderInv, Below, Ordered
<1>8. CompleteInv
  BY <1>3 DEF CompleteInv
<1> QED BY <1>1, <1>4, <1>5, <1>7, <1>8 DEF SegmentsInv

LEMMA SegmentsInvStep == SegmentsInv /\ [SegmentsNext]_segmentsVars => SegmentsInv'
<1> SUFFICES ASSUME SegmentsInv, [SegmentsNext]_segmentsVars PROVE SegmentsInv'
  OBVIOUS
<1>1. /\ SegmentsType /\ SentInv /\ RingInv /\ PackageInv /\ FitsInv
      /\ OrderInv /\ ReceivedInv /\ CompleteInv /\ list.len + ring.len <= Capacity
  BY DEF SegmentsInv, RingInv
<1>2. SegmentsType' /\ SentInv' /\ RingInv'
  BY <1>1, SegmentsTypeStep, SentStep, RingStep
<1>3. PackageInv' /\ FitsInv' /\ OrderInv'
  BY <1>1, PackageStep, FitsStep, OrderStep
<1>4. ReceivedInv' /\ CompleteInv'
  BY <1>1, ReceivedStep, CompleteStep
<1> QED BY <1>2, <1>3, <1>4 DEF SegmentsInv

\* The invariant holds in every state the two threads reach.
THEOREM SegmentsInvariant == SegmentsSpec => []SegmentsInv
  BY SegmentsInitInv, SegmentsInvStep, PTL DEF SegmentsSpec

\* The ring and its copy stay within the array, and the parser at an offset of
\* its package.
THEOREM SegmentsTypeCorrect == SegmentsSpec => []SegmentsTypeOK
<1>1. SegmentsInv => SegmentsTypeOK
  BY DEF SegmentsInv, SegmentsType
<1> QED BY <1>1, SegmentsInvariant, PTL

\* Whatever recv_package hands over was given to send_package, in that order
\* and none of it twice; while no package is lost, nothing is left out.
THEOREM SegmentsInOrder == SegmentsSpec => []InOrder
<1>1. SegmentsInv => InOrder
  <2> SUFFICES ASSUME SegmentsInv PROVE InOrder
    OBVIOUS
  <2>0. /\ sent \in Seq(Segment) /\ received \in Seq(Segment)
        /\ DOMAIN received = 1..Len(received) /\ Len(received) \in Nat
        /\ DOMAIN sent = 1..Len(sent) /\ Len(sent) \in Nat
    BY DEF SegmentsInv, SegmentsType, SegmentsTypeOK
  <2>1. /\ \A k \in DOMAIN received : received[k].id \in DOMAIN sent /\ received[k] = sent[received[k].id]
        /\ \A j, k \in DOMAIN received : j < k => received[j].id < received[k].id
        /\ bad = 0 => \A k \in DOMAIN received : received[k].id = k
    BY DEF SegmentsInv, ReceivedInv
  <2>2. \A k \in DOMAIN received : k > 1 => received[k - 1].id < received[k].id
    <3> SUFFICES ASSUME NEW k \in DOMAIN received, k > 1 PROVE received[k - 1].id < received[k].id
      OBVIOUS
    <3>1. k - 1 \in DOMAIN received /\ k - 1 < k
      BY <2>0
    <3> QED BY <2>1, <3>1
  <2>3. ASSUME bad = 0 PROVE IsPrefix(received, sent)
    <3>1. \A k \in 1..Len(received) : k \in 1..Len(sent) /\ received[k] = sent[k]
      BY <2>0, <2>1, <2>3
    <3>2. Len(received) <= Len(sent)
      BY <2>0, <3>1
    <3>3. \A i \in 1..Len(received) : received[i] = sent[i]
      BY <3>1
    <3>4. SubSeq(received, 1, Len(received)) = SubSeq(sent, 1, Len(received))
      BY <2>0, <3>2, <3>3
    <3> QED BY <3>2, <3>4 DEF IsPrefix
  <2> QED BY <2>1, <2>2, <2>3 DEF InOrder
<1> QED BY <1>1, SegmentsInvariant, PTL

\* No package is longer than a datagram has room for, however the lengths of
\* the segments fall.
THEOREM PackagesFit == SegmentsSpec => []PackageFits
<1>1. SegmentsInv => PackageFits
  BY DEF SegmentsInv, FitsInv
<1> QED BY <1>1, SegmentsInvariant, PTL
=============================================================================
