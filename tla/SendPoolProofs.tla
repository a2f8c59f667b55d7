--------------------------- MODULE SendPoolProofs ---------------------------
(***************************************************************************)
(* Proofs about SendPool: the reference counts cover the copies.            *)
(*                                                                         *)
(* The argument.  A package is issued once when it is pushed, at most once  *)
(* by fast resend, and once for every timeout.  Every issue counts one      *)
(* reference, but a timeout makes no new copy: its reference is never given *)
(* back, and is spare.  The one update of a count that can be lost to the   *)
(* ackhandler is that of fast resend, and only while the ackhandler drops   *)
(* the package, which has then been sent three times at least: twice for a  *)
(* timeout.  So a spare reference is left to make up for it, and another    *)
(* to keep a dropped package from being deleted.                            *)
(***************************************************************************)
EXTENDS SendPool, TLAPS, WellFoundedInduction

\* Fast resend has looked at id i, or need not any more.
Looked(i) ==
    \/ i <= resend_now
    \/ receiver.pc \in {"scan", "push"} /\ i < receiver.id
    \/ receiver.pc = "push" /\ i = receiver.id

\* How often package i has been given to the sender.
Issued(i) ==
    send_count[i] + resend_queue[i]
    + (IF start <= i /\ i < send_id THEN 1 ELSE 0)
    + (IF sender.id = i /\ sender.pc = "send" THEN 1 ELSE 0)

\* How many references are spare, at least.
Spare(i) ==
    IF ~Looked(i) THEN Issued(i) - 1
    ELSE IF Issued(i) >= 4 THEN Issued(i) - 3
    ELSE IF Issued(i) = 3 THEN 1 ELSE 0

\* The ackhandler has a copy less of i, and has not yet counted it.
Erasing(i) == IF handler.id = i /\ handler.pc \in {"erase", "store"} THEN 1 ELSE 0

\* Fast resend has a copy more of i, and has not yet counted it.
Pushing(i) == receiver.id = i /\ receiver.pc = "push"

Pushed == {i \in Id : i < send_id}

\* Nothing is known of a package before it is pushed.
Unborn ==
    \A i \in Id \ Pushed :
        /\ resend_queue[i] = 0 /\ count_list[i] = 0 /\ send_count[i] = 0
        /\ sender.id # i /\ handler.id # i /\ i \notin freed

\* Fast resend goes through ids that are pushed and not acknowledged.
Scanning ==
    receiver.pc # "recv" =>
        /\ send_ack_id < receiver.id /\ resend_now < receiver.id
        /\ receiver.id <= receiver.max /\ receiver.max < send_id
        /\ receiver.pc = "push" => receiver.id < receiver.max /\ receiver.id \notin ack_recv_pool

\* A package is erased when it is acknowledged or has been sent too often.
AtErase == handler.pc \in {"erase", "store", "test", "clear", "from"}

ErasedFor ==
    /\ handler.pc = "wait" => ~handler.drop
    /\ AtErase /\ handler.drop => send_count[handler.id] > MaxSend
    /\ AtErase /\ ~handler.drop => Acked(handler.id)

\* The counts, and the copies of them that the ackhandler and the receiver have.
CoveredFor(i) ==
    /\ Issued(i) >= 1
    /\ Copies(i) + Erasing(i) + Spare(i) <= ref[i] + (IF Pushing(i) /\ Issued(i) <= 3 THEN 1 ELSE 0)
    /\ Pushing(i) => Copies(i) + Erasing(i) + Spare(i) <= receiver.reg + 1
    /\ handler.id = i /\ handler.pc \in {"store", "test"} => Copies(i) + Spare(i) <= handler.reg - 1

Covered == \A i \in Pushed \ freed : CoveredFor(i)

\* A deleted package is acknowledged and in nobody's hands; the others are in arr.
Deleted ==
    /\ \A i \in freed : Acked(i) /\ Copies(i) = 0 /\ (handler.id = i => handler.pc = "clear" /\ ~handler.drop)
    /\ handler.pc = "clear" => handler.id \in freed
    /\ Pushed \ freed \subseteq arr

OneFast == \A i \in Id : Copies(i) <= (IF Looked(i) THEN 2 ELSE 1)

\* While fast resend has send_mutex, the id it has queued stays queued.
Locked == \A i \in Id : Pushing(i) => resend_queue[i] >= 1

PoolInv == TypeOK /\ Unborn /\ Scanning /\ ErasedFor /\ Covered /\ Deleted /\ OneFast /\ Locked

-----------------------------------------------------------------------------
(***************************************************************************)
(* Arithmetic the helpers rest on                                           *)
(***************************************************************************)

\* A non-empty set of naturals has a least element.
LEMMA LeastNat ==
    ASSUME NEW T, T \subseteq Nat, T # {}
    PROVE  \E x \in T : \A y \in T : x <= y
<1> DEFINE R == {ss \in Nat \X Nat : ss[1] < ss[2]}
<1>1. IsWellFoundedOn(R, Nat)
  BY NatLessThanWellFounded DEF OpToRel
<1> HIDE DEF R
<1>2. PICK x \in T : \A y \in T : ~(<<y, x>> \in R)
  BY <1>1, WFMin
<1>3. ASSUME NEW y \in T PROVE x <= y
  <2>1. x \in Nat /\ y \in Nat
    OBVIOUS
  <2>2. ~(y < x)
    BY <1>2, <2>1 DEF R
  <2> QED
    BY <2>1, <2>2
<1> QED
  BY <1>3

\* while (pool.find(n + 1)) n++ stops at an id of a package.
LEMMA AdvanceProp ==
    ASSUME NEW S \in SUBSET Id, NEW n \in 0..MaxId
    PROVE  Advance(S, n) \in n..MaxId
<1> USE MaxIdAssumption
<1> DEFINE T == {m \in n..(MaxId + 1) : m + 1 \notin S}
<1>1. T \subseteq Nat /\ T # {}
  <2>1. MaxId + 1 \in T
    BY DEF Id
  <2>2. ASSUME NEW m \in T PROVE m \in Nat
    OBVIOUS
  <2> HIDE DEF T
  <2> QED
    BY <2>1, <2>2
<1>2. PICK x \in T : \A y \in T : x <= y
  <2> HIDE DEF T
  <2> QED
    BY <1>1, LeastNat
<1>3. (n + 1)..x \subseteq S
  <2>1. SUFFICES ASSUME NEW j \in (n + 1)..x, j \notin S PROVE FALSE
    OBVIOUS
  <2>2. j - 1 \in T
    BY <2>1, <1>2
  <2> QED
    BY <1>2, <2>2
<1>4. \E m \in n..(MaxId + 1) : (n + 1)..m \subseteq S /\ m + 1 \notin S
  BY <1>2, <1>3
<1>5. Advance(S, n) \in n..(MaxId + 1) /\ (n + 1)..Advance(S, n) \subseteq S
  BY <1>4 DEF Advance
<1> QED
  BY <1>5 DEF Id

\* The largest id of an Ack.
LEMMA MaxProp ==
    ASSUME NEW S \in SUBSET Id
    PROVE  Max(S \union {0}) \in S \union {0}
<1> USE MaxIdAssumption
<1> DEFINE U == S \union {0}
           T == {MaxId - x : x \in U}
<1>1. T \subseteq Nat /\ T # {}
  <2>1. MaxId - 0 \in T
    OBVIOUS
  <2>2. ASSUME NEW m \in T PROVE m \in Nat
    BY DEF Id
  <2> HIDE DEF T
  <2> QED
    BY <2>1, <2>2
<1>2. PICK t \in T : \A y \in T : t <= y
  <2> HIDE DEF T
  <2> QED
    BY <1>1, LeastNat
<1>3. PICK x \in U : t = MaxId - x
  BY <1>2
<1>4. ASSUME NEW y \in U PROVE x >= y
  <2>1. MaxId - x <= MaxId - y
    BY <1>2, <1>3
  <2> QED
    BY <2>1, <1>3 DEF Id
<1>5. \E m \in U : \A y \in U : m >= y
  BY <1>3, <1>4
<1> QED
  BY <1>5 DEF Max


-----------------------------------------------------------------------------
(***************************************************************************)
(* Types                                                                    *)
(***************************************************************************)
LEMMA InitType == Init => TypeOK
  BY MaxIdAssumption DEF Init, TypeOK, Id

\* What an Ack does to the acknowledgement state.
LEMMA RecvAckEffect ==
    ASSUME TypeOK, Unborn, RecvAck
    PROVE  /\ ack_recv_pool \subseteq ack_recv_pool' /\ ack_recv_pool' \subseteq Id
           /\ send_ack_id' \in send_ack_id..MaxId
           /\ resend_now' \in resend_now..MaxId /\ send_ack_id' <= resend_now'
           /\ \/ UNCHANGED receiver
              \/ \E top \in Pushed :
                    /\ resend_now' < top
                    /\ receiver' = [receiver EXCEPT !.pc = "scan", !.id = resend_now' + 1, !.max = top]
<1> DEFINE sent == {i \in Id : send_count[i] > 0}
<1> PICK ids \in SUBSET sent, una \in 0..MaxId :
        LET new == {i \in ids : i > send_ack_id}
            pool == ack_recv_pool \union new
            acked == Advance(pool, MAX(una, send_ack_id))
            now == MAX(resend_now, acked)
            top == Max(new \union {0})
        IN
        /\ ack_recv_pool' = pool
        /\ send_ack_id' = acked
        /\ resend_now' = now
        /\ receiver' = IF top > now + FastGap
                       THEN [receiver EXCEPT !.pc = "scan", !.id = now + 1, !.max = top]
                       ELSE receiver
  BY DEF RecvAck
<1> DEFINE new == {i \in ids : i > send_ack_id}
           pool == ack_recv_pool \union new
           n == MAX(una, send_ack_id)
           acked == Advance(pool, n)
           now == MAX(resend_now, acked)
           top == Max(new \union {0})
<1>1. new \in SUBSET Id /\ pool \in SUBSET Id
  BY DEF TypeOK
<1>2. n \in 0..MaxId /\ n >= send_ack_id
  BY MaxIdAssumption DEF TypeOK, MAX
<1>3. acked \in n..MaxId
  BY <1>1, <1>2, AdvanceProp
<1>4. top \in new \union {0}
  BY <1>1, MaxProp
<1>5. ack_recv_pool' = pool /\ send_ack_id' = acked /\ resend_now' = now
  OBVIOUS
<1>6. receiver' = IF top > now + FastGap
                  THEN [receiver EXCEPT !.pc = "scan", !.id = now + 1, !.max = top] ELSE receiver
  OBVIOUS
<1> HIDE DEF acked, top, n
<1>7. now \in Int /\ now >= resend_now /\ now >= acked /\ now <= MaxId
  BY <1>2, <1>3, MaxIdAssumption DEF TypeOK, MAX
<1>8. ack_recv_pool \subseteq pool
  OBVIOUS
<1>9. ASSUME top > now + FastGap
      PROVE  top \in Pushed /\ now < top
  <2>1. top # 0 /\ top > now
    BY <1>2, <1>3, <1>7, <1>9, MaxIdAssumption, FastGapAssumption, <1>4 DEF TypeOK, Id
  <2>2. top \in Id /\ send_count[top] > 0
    BY <1>4, <2>1
  <2>3. top \in Pushed
    BY <2>2 DEF Unborn, TypeOK, Pushed, Id
  <2> QED BY <2>1, <2>3
<1> HIDE DEF now, pool, new
<1>10. send_ack_id' \in send_ack_id..MaxId /\ resend_now' \in resend_now..MaxId /\ send_ack_id' <= resend_now'
  BY <1>2, <1>3, <1>5, <1>7, MaxIdAssumption DEF TypeOK
<1>11. \/ UNCHANGED receiver
       \/ \E t \in Pushed :
            /\ resend_now' < t
            /\ receiver' = [receiver EXCEPT !.pc = "scan", !.id = resend_now' + 1, !.max = t]
  BY <1>5, <1>6, <1>9
<1> QED BY <1>1, <1>5, <1>8, <1>10, <1>11

QueueOK ==
    /\ send_id \in 1..(MaxId + 1) /\ start \in 1..send_id
    /\ resend_queue \in [Id -> Nat] /\ count_list \in [Id -> Nat]
    /\ ref \in [Id -> Int] /\ send_count \in [Id -> Nat]

SetsOK == arr \subseteq Id /\ freed \subseteq Id

SenderOK == sender \in [pc : {"pop"}, id : {0}] \union [pc : {"send", "ack"}, id : Id]

HandlerOK ==
    /\ handler \in [pc : {"pop", "check", "wait", "expired", "erase", "store", "test", "clear", "from"},
                    id : Id \union {0}, reg : Int, drop : BOOLEAN]
    /\ handler.id = 0 <=> handler.pc = "pop"

ReceiverOK ==
    /\ receiver \in [pc : {"recv", "scan", "push"}, id : Id \union {0}, reg : Int, max : Id \union {0}]
    /\ receiver.id = 0 <=> receiver.pc = "recv"

AckOK ==
    /\ ack_recv_pool \subseteq Id
    /\ send_ack_id \in 0..MaxId /\ resend_now \in 0..MaxId /\ send_from \in 0..(MaxId + 1)

LEMMA TypeParts == TypeOK <=> QueueOK /\ SetsOK /\ SenderOK /\ HandlerOK /\ ReceiverOK /\ AckOK
  BY DEF TypeOK, QueueOK, SetsOK, SenderOK, HandlerOK, ReceiverOK, AckOK

LEMMA TypeStep == TypeOK /\ Unborn /\ Scanning /\ [Next]_vars => TypeOK'
<1> SUFFICES ASSUME TypeOK, Unborn, Scanning, [Next]_vars
             PROVE  (QueueOK /\ SetsOK /\ SenderOK /\ HandlerOK /\ ReceiverOK /\ AckOK)'
  BY DEF TypeOK, QueueOK, SetsOK, SenderOK, HandlerOK, ReceiverOK, AckOK
<1>0. QueueOK /\ SetsOK /\ SenderOK /\ HandlerOK /\ ReceiverOK /\ AckOK
  BY TypeParts
<1>i. \A i \in Id : i \in Nat /\ i # 0 /\ i <= MaxId
  BY MaxIdAssumption DEF Id
<1> USE <1>0 DEF poolVars, ackVars
<1>1. CASE PushNew
  <2>1. QueueOK'
    BY <1>1, <1>i, MaxIdAssumption DEF PushNew, QueueOK
  <2>2. SetsOK'
    BY <1>1, <1>i, MaxIdAssumption DEF PushNew, SetsOK
  <2>3. (SenderOK /\ HandlerOK /\ ReceiverOK /\ AckOK)'
    BY <1>1 DEF PushNew, SenderOK, HandlerOK, ReceiverOK, AckOK
  <2> QED BY <2>1, <2>2, <2>3
<1>2. CASE SenderPop
  <2>1. QueueOK'
    BY <1>2, <1>i, MaxIdAssumption DEF SenderPop, Popped, QueueOK
  <2>2. SenderOK'
    <3>1. CASE UNCHANGED sender BY <3>1 DEF SenderOK
    <3>2. CASE \E i \in arr : sender' = [pc |-> "send", id |-> i]
      BY <3>2 DEF SenderOK, SetsOK
    <3> QED BY <1>2, <3>1, <3>2 DEF SenderPop, Popped
  <2>3. (SetsOK /\ HandlerOK /\ ReceiverOK /\ AckOK)'
    BY <1>2 DEF SenderPop, SetsOK, HandlerOK, ReceiverOK, AckOK
  <2> QED BY <2>1, <2>2, <2>3
<1>3. CASE SenderSend
  <2>1. sender.id \in Id
    BY <1>3 DEF SenderSend, SenderOK
  <2>2. QueueOK'
    BY <1>3, <2>1 DEF SenderSend, QueueOK
  <2>3. SenderOK'
    BY <1>3, <2>1 DEF SenderSend, SenderOK
  <2>4. (SetsOK /\ HandlerOK /\ ReceiverOK /\ AckOK)'
    BY <1>3 DEF SenderSend, SetsOK, HandlerOK, ReceiverOK, AckOK
  <2> QED BY <2>2, <2>3, <2>4
<1>4. CASE SenderWait
  <2>1. sender.id \in Id
    BY <1>4 DEF SenderWait, SenderOK
  <2>2. QueueOK'
    BY <1>4, <2>1 DEF SenderWait, QueueOK
  <2>3. SenderOK'
    BY <1>4, <2>1 DEF SenderWait, SenderOK
  <2>4. (SetsOK /\ HandlerOK /\ ReceiverOK /\ AckOK)'
    BY <1>4 DEF SenderWait, SetsOK, HandlerOK, ReceiverOK, AckOK
  <2> QED BY <2>2, <2>3, <2>4
<1>5. CASE HandlerPop
  <2>1. QueueOK'
    BY <1>5, <1>i, MaxIdAssumption DEF HandlerPop, QueueOK
  <2>2. HandlerOK'
    BY <1>5, <1>i, MaxIdAssumption DEF HandlerPop, HandlerOK
  <2>3. (SetsOK /\ SenderOK /\ ReceiverOK /\ AckOK)'
    BY <1>5 DEF HandlerPop, SetsOK, SenderOK, ReceiverOK, AckOK
  <2> QED BY <2>1, <2>2, <2>3
<1>6. CASE HandlerCheck
  <2>1. (handler.id # 0)'
    BY <1>6 DEF HandlerCheck, HandlerOK
  <2> DEFINE d == send_count[handler.id] > MaxSend
  <2>2. d \in BOOLEAN
    OBVIOUS
  <2>3. handler' = [handler EXCEPT !.pc = IF d THEN "erase" ELSE "wait", !.drop = d]
    BY <1>6 DEF HandlerCheck
  <2> HIDE DEF d
  <2>4. HandlerOK'
    BY <2>1, <2>2, <2>3 DEF HandlerOK
  <2>5. (QueueOK /\ SetsOK /\ SenderOK /\ ReceiverOK /\ AckOK)'
    BY <1>6 DEF HandlerCheck, QueueOK, SetsOK, SenderOK, ReceiverOK, AckOK
  <2> QED BY <2>4, <2>5
<1>7. CASE HandlerLook
  <2>1. handler.id \in Id
    BY <1>7 DEF HandlerLook, HandlerOK
  <2>2. HandlerOK'
    BY <1>7, <1>i, <2>1, MaxIdAssumption DEF HandlerLook, HandlerOK
  <2>3. (QueueOK /\ SetsOK /\ SenderOK /\ ReceiverOK /\ AckOK)'
    BY <1>7 DEF HandlerLook, QueueOK, SetsOK, SenderOK, ReceiverOK, AckOK
  <2> QED BY <2>2, <2>3
<1>8. CASE HandlerResend
  <2>1. handler.id \in Id
    BY <1>8 DEF HandlerResend, HandlerOK
  <2>2. QueueOK'
    BY <1>8, <1>i, <2>1, MaxIdAssumption DEF HandlerResend, QueueOK
  <2>3. HandlerOK'
    BY <1>8, <1>i, <2>1, MaxIdAssumption DEF HandlerResend, HandlerOK
  <2>4. (SetsOK /\ SenderOK /\ ReceiverOK /\ AckOK)'
    BY <1>8 DEF HandlerResend, SetsOK, SenderOK, ReceiverOK, AckOK
  <2> QED BY <2>2, <2>3, <2>4
<1>9. CASE EraseLoad
  <2>1. handler.id \in Id
    BY <1>9 DEF EraseLoad, HandlerOK
  <2>2. ref[handler.id] \in Int
    BY <2>1 DEF QueueOK
  <2>3. HandlerOK'
    BY <1>9, <1>i, <2>1, <2>2 DEF EraseLoad, Erased, HandlerOK
  <2>4. (QueueOK /\ SetsOK /\ SenderOK /\ ReceiverOK /\ AckOK)'
    BY <1>9 DEF EraseLoad, QueueOK, SetsOK, SenderOK, ReceiverOK, AckOK
  <2> QED BY <2>3, <2>4
<1>10. CASE EraseStore
  <2>1. handler.id \in Id /\ handler.reg - 1 \in Int
    BY <1>10 DEF EraseStore, HandlerOK
  <2>2. QueueOK'
    BY <1>10, <2>1 DEF EraseStore, QueueOK
  <2>3. HandlerOK'
    BY <1>10, <1>i, <2>1 DEF EraseStore, HandlerOK
  <2>4. (SetsOK /\ SenderOK /\ ReceiverOK /\ AckOK)'
    BY <1>10 DEF EraseStore, SetsOK, SenderOK, ReceiverOK, AckOK
  <2> QED BY <2>2, <2>3, <2>4
<1>11. CASE EraseTest
  <2>1. handler.id \in Id
    BY <1>11 DEF EraseTest, HandlerOK
  <2>2. HandlerOK'
    BY <1>11, <1>i, <2>1, MaxIdAssumption DEF EraseTest, Erased, HandlerOK
  <2>3. SetsOK'
    BY <1>11, <1>i, <2>1, MaxIdAssumption DEF EraseTest, Erased, SetsOK
  <2>4. (QueueOK /\ SenderOK /\ ReceiverOK /\ AckOK)'
    BY <1>11 DEF EraseTest, QueueOK, SenderOK, ReceiverOK, AckOK
  <2> QED BY <2>2, <2>3, <2>4
<1>12. CASE EraseClear
  <2>1. handler.id \in Id
    BY <1>12 DEF EraseClear, HandlerOK
  <2>2. HandlerOK'
    BY <1>12, <1>i, <2>1, MaxIdAssumption DEF EraseClear, Erased, HandlerOK
  <2>3. SetsOK'
    BY <1>12, <1>i, <2>1, MaxIdAssumption DEF EraseClear, Erased, SetsOK
  <2>4. (QueueOK /\ SenderOK /\ ReceiverOK /\ AckOK)'
    BY <1>12 DEF EraseClear, QueueOK, SenderOK, ReceiverOK, AckOK
  <2> QED BY <2>2, <2>3, <2>4
<1>13. CASE HandlerDrop
  <2>1. handler.id \in Id
    BY <1>13 DEF HandlerDrop, HandlerOK
  <2>2. HandlerOK'
    BY <1>13, <1>i, <2>1, MaxIdAssumption DEF HandlerDrop, HandlerOK
  <2>3. AckOK'
    BY <1>13, <1>i, <2>1, MaxIdAssumption DEF HandlerDrop, AckOK
  <2>4. (QueueOK /\ SetsOK /\ SenderOK /\ ReceiverOK)'
    BY <1>13 DEF HandlerDrop, QueueOK, SetsOK, SenderOK, ReceiverOK
  <2> QED BY <2>2, <2>3, <2>4
<1>14. CASE RecvAck
  <2>1. AckOK'
    <3>1. /\ ack_recv_pool' \subseteq Id
          /\ send_ack_id' \in send_ack_id..MaxId /\ resend_now' \in resend_now..MaxId
      BY <1>14, RecvAckEffect, Zenon
    <3>2. UNCHANGED send_from
      BY <1>14 DEF RecvAck
    <3> QED BY <3>1, <3>2, MaxIdAssumption DEF AckOK
  <2>2. ReceiverOK'
    <3>1. CASE UNCHANGED receiver BY <3>1 DEF ReceiverOK
    <3>2. CASE ~UNCHANGED receiver
      <4>1. PICK top \in Pushed :
                /\ resend_now' < top
                /\ receiver' = [receiver EXCEPT !.pc = "scan", !.id = resend_now' + 1, !.max = top]
        BY <1>14, <3>2, RecvAckEffect
      <4>2. top \in Id /\ resend_now' + 1 \in Id
        BY <2>1, <4>1, MaxIdAssumption DEF Pushed, Id, AckOK, QueueOK
      <4> QED BY <1>i, <4>1, <4>2 DEF ReceiverOK
    <3> QED BY <3>1, <3>2
  <2>3. (QueueOK /\ SetsOK /\ SenderOK /\ HandlerOK)'
    BY <1>14 DEF RecvAck, QueueOK, SetsOK, SenderOK, HandlerOK
  <2> QED BY <2>1, <2>2, <2>3
<1>15. CASE FastScan
  <2>1. receiver.id \in Id /\ receiver.max \in Id
    BY <1>15, <1>i DEF FastScan, Scanning, ReceiverOK
  <2>2. receiver.id + 1 \in Id /\ ref[receiver.id] \in Int
    BY <1>15, <2>1, MaxIdAssumption DEF FastScan, QueueOK, Id
  <2>3. QueueOK'
    BY <1>15, <2>1 DEF FastScan, QueueOK
  <2>4. ReceiverOK'
    BY <1>15, <1>i, <2>1, <2>2 DEF FastScan, ReceiverOK
  <2>5. (SetsOK /\ SenderOK /\ HandlerOK /\ AckOK)'
    BY <1>15 DEF FastScan, SetsOK, SenderOK, HandlerOK, AckOK
  <2> QED BY <2>3, <2>4, <2>5
<1>16. CASE FastPush
  <2>1. receiver.id \in Id /\ receiver.max \in Id /\ receiver.reg + 1 \in Int
    BY <1>16, <1>i DEF FastPush, Scanning, ReceiverOK
  <2>2. receiver.id + 1 \in Id
    BY <1>16, <2>1, MaxIdAssumption DEF FastPush, Scanning, Id
  <2>3. QueueOK'
    BY <1>16, <2>1 DEF FastPush, QueueOK
  <2>4. ReceiverOK'
    BY <1>16, <1>i, <2>1, <2>2 DEF FastPush, ReceiverOK
  <2>5. (SetsOK /\ SenderOK /\ HandlerOK /\ AckOK)'
    BY <1>16 DEF FastPush, SetsOK, SenderOK, HandlerOK, AckOK
  <2> QED BY <2>3, <2>4, <2>5
<1>17. CASE FastDone
  <2>1. receiver.max \in 0..MaxId
    BY MaxIdAssumption DEF ReceiverOK, Id
  <2>2. AckOK'
    BY <1>17, <2>1 DEF FastDone, AckOK
  <2>3. ReceiverOK'
    BY <1>17 DEF FastDone, ReceiverOK
  <2>4. (QueueOK /\ SetsOK /\ SenderOK /\ HandlerOK)'
    BY <1>17 DEF FastDone, QueueOK, SetsOK, SenderOK, HandlerOK
  <2> QED BY <2>2, <2>3, <2>4
<1>18. CASE UNCHANGED vars
  BY <1>18 DEF vars, QueueOK, SetsOK, SenderOK, HandlerOK, ReceiverOK, AckOK
<1> QED
  BY <1>1, <1>2, <1>3, <1>4, <1>5, <1>6, <1>7, <1>8, <1>9, <1>10, <1>11, <1>12, <1>13, <1>14, <1>15, <1>16, <1>17, <1>18 DEF Next

-----------------------------------------------------------------------------
(***************************************************************************)
(* What the steps do to the copies and the issues of a package              *)
(***************************************************************************)
LEMMA Numbers ==
    ASSUME TypeOK, NEW i \in Id
    PROVE  /\ Copies(i) \in Nat /\ Issued(i) \in Nat /\ Erasing(i) \in 0..1 /\ ref[i] \in Int
           /\ Issued(i) >= 1 => Spare(i) \in Nat
<1>1. resend_queue[i] \in Nat /\ count_list[i] \in Nat /\ send_count[i] \in Nat /\ ref[i] \in Int
  BY DEF TypeOK
<1>2. Copies(i) \in Nat /\ Issued(i) \in Nat /\ Erasing(i) \in 0..1
  BY <1>1 DEF Copies, Issued, Erasing
<1> QED BY <1>1, <1>2 DEF Spare

LEMMA PopEffect ==
    ASSUME TypeOK, Unborn, Deleted, SenderPop, NEW i \in Id
    PROVE  Copies(i)' = Copies(i) /\ Issued(i)' = Issued(i)
<1>0. QueueOK /\ SenderOK /\ sender.id = 0 /\ sender.pc = "pop"
  BY TypeParts DEF SenderPop, SenderOK
<1>1. ASSUME NEW j \in Id, resend_queue[j] > 0 \/ (j = start /\ start < send_id)
      PROVE  j \in arr
  <2>1. j \in Pushed
    BY <1>0, <1>1 DEF Unborn, Pushed, QueueOK
  <2>2. Copies(j) > 0
    BY <1>0, <1>1 DEF Copies, QueueOK
  <2> QED BY <2>1, <2>2 DEF Deleted
<1>2. CASE \E j \in Id : /\ resend_queue[j] > 0
                         /\ resend_queue' = [resend_queue EXCEPT ![j] = @ - 1]
                         /\ Popped(j)
                         /\ UNCHANGED start
  <2>1. PICK j \in Id : /\ resend_queue[j] > 0
                        /\ resend_queue' = [resend_queue EXCEPT ![j] = @ - 1]
                        /\ sender' = [pc |-> "send", id |-> j]
                        /\ UNCHANGED start
    BY <1>1, <1>2 DEF Popped
  <2>2. resend_queue'[i] = resend_queue[i] - (IF i = j THEN 1 ELSE 0) /\ sender'.pc = "send" /\ sender'.id = j
    BY <1>0, <2>1 DEF QueueOK
  <2>3. UNCHANGED <<send_id, start, handler, send_count, count_list>> /\ i # 0
    BY <2>1 DEF SenderPop, Id
  <2> QED BY <1>0, <2>2, <2>3 DEF Copies, Issued, QueueOK
<1>3. CASE start < send_id /\ start' = start + 1 /\ Popped(start) /\ UNCHANGED resend_queue
  <2>1. start \in Id
    BY <1>0, <1>3, MaxIdAssumption DEF QueueOK, Id
  <2>2. sender' = [pc |-> "send", id |-> start]
    BY <1>1, <1>3, <2>1 DEF Popped
  <2> QED BY <1>0, <1>3, <2>2 DEF SenderPop, Copies, Issued, QueueOK, Id
<1> QED BY <1>2, <1>3 DEF SenderPop

LEMMA SenderSteps ==
    ASSUME TypeOK, NEW i \in Id, SenderSend \/ SenderWait
    PROVE  Copies(i)' = Copies(i) /\ Issued(i)' = Issued(i)
<1>0. QueueOK /\ SenderOK
  BY TypeParts
<1>1. CASE SenderSend
  <2>1. sender.id \in Id /\ sender.pc = "send"
    BY <1>0, <1>1 DEF SenderSend, SenderOK
  <2> QED BY <1>0, <1>1, <2>1 DEF SenderSend, Copies, Issued, QueueOK, SenderOK, poolVars
<1>2. CASE SenderWait
  <2>1. sender.id \in Id /\ sender.pc = "ack"
    BY <1>0, <1>2 DEF SenderWait, SenderOK
  <2> QED BY <1>0, <1>2, <2>1 DEF SenderWait, Copies, Issued, QueueOK, SenderOK, poolVars, Id
<1> QED BY <1>1, <1>2

LEMMA HandlerPopEffect ==
    ASSUME TypeOK, HandlerPop, NEW i \in Id
    PROVE  Copies(i)' <= Copies(i) /\ Issued(i)' = Issued(i) /\ Erasing(i)' = Erasing(i)
<1>0. QueueOK /\ SenderOK /\ HandlerOK /\ handler.id = 0 /\ handler.pc = "pop"
  BY TypeParts DEF HandlerPop, HandlerOK
<1>1. PICK j \in Id, rest \in [Id -> 0..2] :
        /\ count_list[j] > 0
        /\ rest[j] = 0
        /\ \A k \in Id \ {j} : rest[k] <= count_list[k]
        /\ count_list' = rest
        /\ handler' = [handler EXCEPT !.pc = "check", !.id = j]
  BY DEF HandlerPop
<1>2. handler'.pc = "check" /\ handler'.id = j
  BY <1>0, <1>1 DEF HandlerOK
<1>3. count_list'[i] + (IF handler'.id = i THEN 1 ELSE 0) <= count_list[i]
  BY <1>0, <1>1, <1>2 DEF QueueOK
<1>4. count_list'[i] \in Nat
  BY <1>1
<1>5. UNCHANGED <<send_id, start, resend_queue, sender, send_count>>
  BY DEF HandlerPop, poolVars
<1>6. i # 0 BY DEF Id
<1> QED BY <1>0, <1>2, <1>3, <1>4, <1>5, <1>6 DEF Copies, Issued, Erasing, QueueOK

\* The ackhandler decides to erase the package, or not yet.
LEMMA DecideEffect ==
    ASSUME TypeOK, HandlerCheck \/ HandlerLook, NEW i \in Id
    PROVE  /\ Copies(i)' + Erasing(i)' = Copies(i) + Erasing(i) /\ Issued(i)' = Issued(i)
           /\ Copies(i)' <= Copies(i)
           /\ handler' = [handler EXCEPT !.pc = handler'.pc, !.drop = handler'.drop]
           /\ handler'.pc \in {"wait", "expired", "erase"} /\ handler.pc \in {"check", "wait"}
<1>0. QueueOK /\ HandlerOK
  BY TypeParts
<1>1. /\ handler' = [handler EXCEPT !.pc = handler'.pc, !.drop = handler'.drop]
      /\ handler'.id = handler.id
      /\ handler'.pc \in {"wait", "expired", "erase"} /\ handler.pc \in {"check", "wait"}
  BY <1>0 DEF HandlerCheck, HandlerLook, HandlerOK
<1>2. UNCHANGED <<send_id, start, resend_queue, sender, send_count, count_list>>
  BY DEF HandlerCheck, HandlerLook, poolVars
<1> QED BY <1>0, <1>1, <1>2 DEF Copies, Issued, Erasing, QueueOK

LEMMA ResendEffect ==
    ASSUME TypeOK, HandlerResend, NEW i \in Id
    PROVE  /\ Copies(i)' = Copies(i) /\ Erasing(i) = 0 /\ Erasing(i)' = 0
           /\ Issued(i)' = Issued(i) + (IF handler.id = i THEN 1 ELSE 0)
           /\ ref'[i] = ref[i] + (IF handler.id = i THEN 1 ELSE 0)
<1>0. QueueOK /\ HandlerOK /\ handler.id \in Id /\ handler.pc = "expired"
  BY TypeParts DEF HandlerResend, HandlerOK
<1>1. handler'.pc = "pop" /\ handler'.id = 0 /\ i # 0
  BY <1>0 DEF HandlerResend, HandlerOK, Id
<1>2. /\ resend_queue'[i] = resend_queue[i] + (IF handler.id = i THEN 1 ELSE 0)
      /\ ref'[i] = ref[i] + (IF handler.id = i THEN 1 ELSE 0)
  BY <1>0 DEF HandlerResend, QueueOK
<1>3. UNCHANGED <<send_id, start, sender, send_count, count_list>>
  BY DEF HandlerResend
<1> QED BY <1>0, <1>1, <1>2, <1>3 DEF Copies, Issued, Erasing, QueueOK

\* The steps of erase, and of the drop after it.
LEMMA EraseEffect ==
    ASSUME TypeOK, EraseLoad \/ EraseStore \/ EraseTest \/ EraseClear \/ HandlerDrop, NEW i \in Id
    PROVE  Copies(i)' = Copies(i) /\ Issued(i)' = Issued(i)
<1>0. QueueOK /\ HandlerOK
  BY TypeParts
<1>1. /\ handler.pc \in {"erase", "store", "test", "clear", "from"}
      /\ handler'.pc \in {"store", "test", "clear", "from", "pop"}
  BY <1>0 DEF EraseLoad, EraseStore, EraseTest, EraseClear, HandlerDrop, Erased, HandlerOK
<1>2. UNCHANGED <<send_id, start, resend_queue, sender, send_count, count_list>>
  BY DEF EraseLoad, EraseStore, EraseTest, EraseClear, HandlerDrop, poolVars
<1> QED BY <1>1, <1>2 DEF Copies, Issued

LEMMA ScanEffect ==
    ASSUME TypeOK, Scanning, FastScan, NEW i \in Id
    PROVE  /\ Erasing(i)' = Erasing(i) /\ ref'[i] = ref[i]
           /\ ~Pushing(i)
           /\ i # receiver.id => /\ Copies(i)' = Copies(i) /\ Issued(i)' = Issued(i)
                                 /\ Looked(i)' <=> Looked(i)
                                 /\ ~Pushing(i)'
           /\ i = receiver.id => /\ ~Looked(i) /\ Looked(i)'
                                 /\ \/ /\ Copies(i)' = Copies(i) /\ Issued(i)' = Issued(i)
                                       /\ ~Pushing(i)'
                                    \/ /\ Copies(i)' = Copies(i) + 1 /\ Issued(i)' = Issued(i) + 1
                                       /\ Pushing(i)' /\ receiver'.reg = ref[i]
                                       /\ ~Acked(i)
<1>0. QueueOK /\ ReceiverOK /\ AckOK /\ receiver.id \in Id
  BY TypeParts DEF FastScan, ReceiverOK
<1>1. UNCHANGED <<send_id, start, sender, handler, send_count, count_list, ref, resend_now>>
  BY DEF FastScan, ackVars
<1>2. receiver.pc = "scan" /\ resend_now < receiver.id /\ send_ack_id < receiver.id /\ i \in Int
  BY DEF FastScan, Scanning, Id
<1>3. Erasing(i)' = Erasing(i) /\ ref'[i] = ref[i] /\ ~Pushing(i)
  BY <1>1, <1>2 DEF Erasing, Pushing
<1>4. CASE receiver.id \in ack_recv_pool
  <2>1. receiver'.id = receiver.id + 1 /\ receiver'.pc = "scan" /\ UNCHANGED resend_queue
    BY <1>0, <1>4, <1>2 DEF FastScan, ReceiverOK
  <2>2. Copies(i)' = Copies(i) /\ Issued(i)' = Issued(i)
    BY <1>1, <2>1 DEF Copies, Issued
  <2>3. (Looked(i)' <=> (Looked(i) \/ i = receiver.id)) /\ (i = receiver.id => ~Looked(i)) /\ ~Pushing(i)'
    BY <1>0, <1>1, <1>2, <2>1 DEF Looked, Pushing, AckOK, Id
  <2> QED BY <1>3, <2>2, <2>3
<1>5. CASE receiver.id \notin ack_recv_pool
  <2>1. receiver'.id = receiver.id /\ receiver'.pc = "push" /\ receiver'.reg = ref[receiver.id]
    BY <1>0, <1>5, <1>2 DEF FastScan, ReceiverOK
  <2>2. resend_queue'[i] = resend_queue[i] + (IF i = receiver.id THEN 1 ELSE 0)
    BY <1>0, <1>5 DEF FastScan, QueueOK
  <2>3. /\ Copies(i)' = Copies(i) + (IF i = receiver.id THEN 1 ELSE 0)
        /\ Issued(i)' = Issued(i) + (IF i = receiver.id THEN 1 ELSE 0)
    BY <1>0, <1>1, <2>2 DEF Copies, Issued, QueueOK
  <2>4. /\ Looked(i)' <=> (Looked(i) \/ i = receiver.id)
        /\ i = receiver.id => ~Looked(i)
        /\ Pushing(i)' <=> i = receiver.id
    BY <1>0, <1>1, <1>2, <2>1 DEF Looked, Pushing, AckOK, Id
  <2>5. i = receiver.id => ~Acked(i)
    BY <1>0, <1>2, <1>5 DEF Acked, AckOK, Id
  <2>6. CASE i = receiver.id
    <3>1. Copies(i)' = Copies(i) + 1 /\ Issued(i)' = Issued(i) + 1
      BY <2>3, <2>6
    <3> QED BY <1>3, <2>1, <2>4, <2>5, <2>6, <3>1
  <2>7. CASE i # receiver.id
    <3>1. Copies(i)' = Copies(i) /\ Issued(i)' = Issued(i)
      BY <2>3, <2>7, Numbers
    <3> QED BY <1>3, <2>4, <2>7, <3>1
  <2> QED BY <2>6, <2>7
<1> QED BY <1>4, <1>5

LEMMA FastEffect ==
    ASSUME TypeOK, Scanning, FastPush \/ FastDone, NEW i \in Id
    PROVE  /\ Copies(i)' = Copies(i) /\ Issued(i)' = Issued(i) /\ Erasing(i)' = Erasing(i)
           /\ Looked(i) => Looked(i)'
           /\ ~Pushing(i)'
           /\ ref'[i] = IF Pushing(i) THEN receiver.reg + 1 ELSE ref[i]
<1>0. QueueOK /\ ReceiverOK /\ AckOK /\ receiver.id \in Id
  BY TypeParts DEF FastPush, FastDone, ReceiverOK
<1>1. UNCHANGED <<send_id, start, resend_queue, sender, handler, send_count, count_list>>
  BY DEF FastPush, FastDone, poolVars
<1>2. Copies(i)' = Copies(i) /\ Issued(i)' = Issued(i) /\ Erasing(i)' = Erasing(i)
  BY <1>1 DEF Copies, Issued, Erasing
<1>3. resend_now < receiver.id /\ receiver.id <= receiver.max /\ i \in Int /\ receiver.max \in Int
  BY <1>0 DEF FastPush, FastDone, Scanning, Id, ReceiverOK
<1>4. CASE FastPush
  <2>1. /\ receiver.pc = "push" /\ receiver'.pc = "scan" /\ receiver'.id = receiver.id + 1
        /\ UNCHANGED resend_now
        /\ ref' = [ref EXCEPT ![receiver.id] = receiver.reg + 1]
    BY <1>0, <1>4 DEF FastPush, ReceiverOK, ackVars
  <2>2. Looked(i) => Looked(i)'
    BY <1>0, <1>3, <2>1 DEF Looked, AckOK, Id
  <2> QED BY <1>0, <1>2, <2>1, <2>2 DEF Pushing, QueueOK
<1>5. CASE FastDone
  <2>1. receiver.pc = "scan" /\ receiver'.pc = "recv" /\ resend_now' = receiver.max /\ UNCHANGED ref
    BY <1>0, <1>5 DEF FastDone, poolVars
  <2>2. Looked(i) => Looked(i)'
    BY <1>0, <1>3, <2>1 DEF Looked, AckOK, Id
  <2> QED BY <1>2, <2>1, <2>2 DEF Pushing
<1> QED BY <1>4, <1>5

LEMMA AckEffect ==
    ASSUME TypeOK, Unborn, RecvAck, NEW i \in Id
    PROVE  /\ Copies(i)' = Copies(i) /\ Issued(i)' = Issued(i) /\ Erasing(i)' = Erasing(i)
           /\ Looked(i) => Looked(i)'
           /\ Acked(i) => Acked(i)'
           /\ ~Pushing(i) /\ ~Pushing(i)'
<1>0. AckOK /\ ReceiverOK /\ receiver.pc = "recv" /\ i \in Int /\ receiver'.pc \in {"recv", "scan"}
  <2>1. AckOK /\ ReceiverOK /\ receiver.pc = "recv" /\ i \in Int
    BY TypeParts DEF RecvAck, Id
  <2> QED BY <2>1, RecvAckEffect DEF ReceiverOK
<1>1. UNCHANGED <<send_id, start, resend_queue, sender, handler, send_count, count_list>>
  BY DEF RecvAck, poolVars
<1>2. /\ ack_recv_pool \subseteq ack_recv_pool'
      /\ send_ack_id' \in send_ack_id..MaxId /\ resend_now' \in resend_now..MaxId
  BY RecvAckEffect, Zenon
<1>3. Copies(i)' = Copies(i) /\ Issued(i)' = Issued(i) /\ Erasing(i)' = Erasing(i)
  BY <1>1 DEF Copies, Issued, Erasing
<1>4. (Looked(i) => Looked(i)') /\ (Acked(i) => Acked(i)')
  BY <1>0, <1>2, MaxIdAssumption DEF Looked, Acked, AckOK
<1> QED BY <1>0, <1>3, <1>4 DEF Pushing
-----------------------------------------------------------------------------
(***************************************************************************)
(* The invariant                                                            *)
(***************************************************************************)
LEMMA UnbornStep == TypeOK /\ Unborn /\ Scanning /\ [Next]_vars => Unborn'
<1> SUFFICES ASSUME TypeOK, Unborn, Scanning, [Next]_vars, NEW i \in Id, i \notin Pushed'
             PROVE  (/\ resend_queue[i] = 0 /\ count_list[i] = 0 /\ send_count[i] = 0
                     /\ sender.id # i /\ handler.id # i /\ i \notin freed)'
  BY DEF Unborn
<1>0. QueueOK /\ SenderOK /\ HandlerOK /\ ReceiverOK
  BY TypeParts
<1>1. i \in Id /\ i # 0 /\ i \in Id \ Pushed
  <2>1. send_id' \in {send_id, send_id + 1}
    BY DEF Next, vars, poolVars, PushNew, SenderPop, SenderSend, SenderWait, HandlerPop, HandlerCheck,
           HandlerLook, HandlerResend, EraseLoad, EraseStore, EraseTest, EraseClear, HandlerDrop,
           RecvAck, FastScan, FastPush, FastDone
  <2>2. send_id \in Int
    BY <1>0, MaxIdAssumption DEF QueueOK
  <2> QED BY <2>1, <2>2 DEF Pushed, Id
<1>2. /\ resend_queue[i] = 0 /\ count_list[i] = 0 /\ send_count[i] = 0
      /\ sender.id # i /\ handler.id # i /\ i \notin freed
  BY <1>1 DEF Unborn
<1> USE <1>0, <1>1, <1>2 DEF poolVars, ackVars
<1>3. CASE PushNew
  BY <1>3 DEF PushNew
<1>4. CASE SenderPop
  <2>1. CASE \E j \in Id : /\ resend_queue[j] > 0
                           /\ resend_queue' = [resend_queue EXCEPT ![j] = @ - 1]
                           /\ Popped(j)
    <3>1. PICK j \in Id : /\ resend_queue[j] > 0
                          /\ resend_queue' = [resend_queue EXCEPT ![j] = @ - 1]
                          /\ Popped(j)
      BY <2>1
    <3> QED BY <1>4, <3>1 DEF SenderPop, Popped, QueueOK
  <2>2. CASE start < send_id /\ Popped(start) /\ UNCHANGED resend_queue
    <3>1. i # start
      BY <2>2 DEF Pushed, QueueOK
    <3> QED BY <1>4, <2>2, <3>1 DEF SenderPop, Popped
  <2> QED BY <1>4, <2>1, <2>2 DEF SenderPop
<1>5. CASE SenderSend \/ SenderWait
  <2>1. sender'.id \in {sender.id, 0}
    BY <1>5 DEF SenderSend, SenderWait, SenderOK
  <2> QED BY <1>5, <2>1 DEF SenderSend, SenderWait, QueueOK
<1>6. CASE HandlerPop
  <2>1. PICK j \in Id, rest \in [Id -> 0..2] :
            /\ count_list[j] > 0
            /\ rest[j] = 0
            /\ \A k \in Id \ {j} : rest[k] <= count_list[k]
            /\ count_list' = rest
            /\ handler' = [handler EXCEPT !.pc = "check", !.id = j]
    BY <1>6 DEF HandlerPop
  <2>2. i # j /\ handler'.id = j /\ count_list'[i] = 0
    BY <2>1 DEF HandlerOK
  <2> QED BY <1>6, <2>2 DEF HandlerPop
<1>7. CASE HandlerCheck \/ HandlerLook \/ EraseLoad \/ EraseStore \/ EraseClear \/ HandlerDrop
  <2>1. handler'.id \in {handler.id, 0}
    BY <1>7 DEF HandlerCheck, HandlerLook, EraseLoad, EraseStore, EraseClear, HandlerDrop, Erased, HandlerOK
  <2> QED BY <1>7, <2>1 DEF HandlerCheck, HandlerLook, EraseLoad, EraseStore, EraseClear, HandlerDrop
<1>8. CASE HandlerResend
  <2>1. handler'.id = 0 /\ handler.id \in Id
    BY <1>8 DEF HandlerResend, HandlerOK
  <2> QED BY <1>8, <2>1 DEF HandlerResend, QueueOK
<1>9. CASE EraseTest
  <2>1. handler'.id \in {handler.id, 0} /\ freed' \subseteq freed \union {handler.id}
    BY <1>9 DEF EraseTest, Erased, HandlerOK
  <2> QED BY <1>9, <2>1 DEF EraseTest
<1>10. CASE RecvAck \/ FastPush \/ FastDone
  BY <1>10 DEF RecvAck, FastPush, FastDone
<1>11. CASE FastScan
  <2>1. receiver.id # i
    BY <1>11 DEF FastScan, Scanning, Pushed, ReceiverOK, QueueOK, Id
  <2> QED BY <1>11, <2>1 DEF FastScan, QueueOK
<1>12. CASE UNCHANGED vars
  BY <1>12 DEF vars
<1> QED
  BY <1>3, <1>4, <1>5, <1>6, <1>7, <1>8, <1>9, <1>10, <1>11, <1>12 DEF Next

LEMMA ScanningStep == TypeOK /\ Unborn /\ Scanning /\ [Next]_vars => Scanning'
<1> SUFFICES ASSUME TypeOK, Unborn, Scanning, [Next]_vars, receiver'.pc # "recv" PROVE Scanning'
  BY DEF Scanning
<1>0. QueueOK /\ ReceiverOK /\ AckOK
  BY TypeParts
<1>1. CASE UNCHANGED <<receiver, ackVars>>
  <2>1. send_id' \in {send_id, send_id + 1}
    BY DEF Next, vars, poolVars, PushNew, SenderPop, SenderSend, SenderWait, HandlerPop, HandlerCheck,
           HandlerLook, HandlerResend, EraseLoad, EraseStore, EraseTest, EraseClear, HandlerDrop,
           RecvAck, FastScan, FastPush, FastDone
  <2> QED BY <1>0, <1>1, <2>1 DEF Scanning, ackVars, ReceiverOK, QueueOK, Id
<1>2. CASE RecvAck
  <2>1. UNCHANGED send_id /\ receiver.pc = "recv"
    BY <1>2 DEF RecvAck, poolVars
  <2>2. PICK top \in Pushed :
            /\ resend_now' < top
            /\ receiver' = [receiver EXCEPT !.pc = "scan", !.id = resend_now' + 1, !.max = top]
    BY <1>2, <2>1, RecvAckEffect
  <2>3. receiver'.pc = "scan" /\ receiver'.id = resend_now' + 1 /\ receiver'.max = top
    BY <1>0, <2>2 DEF ReceiverOK
  <2>4. resend_now' \in Int /\ send_ack_id' \in Int /\ send_ack_id' <= resend_now'
    <3>1. send_ack_id' \in send_ack_id..MaxId /\ resend_now' \in resend_now..MaxId /\ send_ack_id' <= resend_now'
      BY <1>2, RecvAckEffect, Zenon
    <3> QED BY <1>0, <3>1, MaxIdAssumption DEF AckOK
  <2>5. top \in Int /\ top < send_id
    BY <2>2, MaxIdAssumption DEF Pushed, Id
  <2> QED BY <2>1, <2>2, <2>3, <2>4, <2>5 DEF Scanning
<1>3. CASE FastScan
  <2>1. /\ receiver.pc = "scan" /\ receiver.id < receiver.max /\ receiver'.max = receiver.max
        /\ \/ receiver'.pc = "scan" /\ receiver'.id = receiver.id + 1
           \/ receiver'.pc = "push" /\ receiver'.id = receiver.id /\ receiver.id \notin ack_recv_pool
        /\ UNCHANGED <<send_id, ackVars>>
    BY <1>0, <1>3 DEF FastScan, ReceiverOK
  <2> QED BY <1>0, <2>1 DEF Scanning, ackVars, ReceiverOK, AckOK, QueueOK, Id
<1>4. CASE FastPush
  <2>1. /\ receiver.pc = "push" /\ receiver'.max = receiver.max
        /\ receiver'.pc = "scan" /\ receiver'.id = receiver.id + 1
        /\ UNCHANGED <<send_id, ackVars>>
    BY <1>0, <1>4 DEF FastPush, ReceiverOK
  <2> QED BY <1>0, <2>1 DEF Scanning, ackVars, ReceiverOK, AckOK, QueueOK, Id
<1>5. CASE FastDone
  BY <1>5 DEF FastDone
<1> QED
  BY <1>1, <1>2, <1>3, <1>4, <1>5
  DEF Next, vars, poolVars, PushNew, SenderPop, SenderSend, SenderWait, HandlerPop, HandlerCheck,
      HandlerLook, HandlerResend, EraseLoad, EraseStore, EraseTest, EraseClear, HandlerDrop

LEMMA AckedStep ==
    ASSUME TypeOK, Unborn, [Next]_vars, NEW i \in Id, Acked(i)
    PROVE  Acked(i)'
<1>1. CASE RecvAck
  BY <1>1, AckEffect
<1>2. CASE ~RecvAck
  <2>1. UNCHANGED <<send_ack_id, ack_recv_pool>>
    BY <1>2 DEF Next, vars, ackVars, PushNew, SenderPop, SenderSend, SenderWait, HandlerPop, HandlerCheck,
           HandlerLook, HandlerResend, EraseLoad, EraseStore, EraseTest, EraseClear, HandlerDrop,
           FastScan, FastPush, FastDone
  <2> QED BY <2>1 DEF Acked
<1> QED BY <1>1, <1>2

LEMMA CountStep ==
    ASSUME TypeOK, [Next]_vars, NEW i \in Id
    PROVE  send_count'[i] \in Nat /\ send_count'[i] >= send_count[i]
<1>0. QueueOK
  BY TypeParts
<1>1. CASE SenderSend
  BY <1>0, <1>1 DEF SenderSend, QueueOK
<1>2. CASE ~SenderSend
  <2>1. UNCHANGED send_count
    BY <1>2 DEF Next, vars, PushNew, SenderPop, SenderWait, HandlerPop, HandlerCheck,
           HandlerLook, HandlerResend, EraseLoad, EraseStore, EraseTest, EraseClear, HandlerDrop,
           RecvAck, FastScan, FastPush, FastDone
  <2> QED BY <1>0, <2>1 DEF QueueOK
<1> QED BY <1>1, <1>2

LEMMA ErasedForStep == TypeOK /\ Unborn /\ ErasedFor /\ [Next]_vars => ErasedFor'
<1> SUFFICES ASSUME TypeOK, Unborn, ErasedFor, [Next]_vars PROVE ErasedFor'
  OBVIOUS
<1>0. QueueOK /\ HandlerOK
  BY TypeParts
<1>1. \A i \in Id : /\ Acked(i) => Acked(i)'
                    /\ send_count'[i] \in Nat /\ send_count'[i] >= send_count[i]
                    /\ send_count[i] \in Nat
  BY <1>0, AckedStep, CountStep DEF QueueOK
<1>2. ASSUME handler'.pc = handler.pc \/ (AtErase /\ AtErase'), AtErase' => AtErase,
             handler'.id = handler.id /\ handler'.drop = handler.drop
      PROVE  ErasedFor'
  <2>1. handler'.pc = "wait" => ~handler'.drop
    BY <1>2 DEF ErasedFor, AtErase
  <2>2. AtErase => handler.id \in Id
    BY <1>0 DEF AtErase, HandlerOK
  <2>3. AtErase' /\ handler'.drop => send_count'[handler'.id] > MaxSend
    BY <1>1, <1>2, <2>2, MaxSendAssumption DEF ErasedFor
  <2>4. AtErase' /\ ~handler'.drop => Acked(handler.id)'
    BY <1>1, <1>2, <2>2 DEF ErasedFor
  <2> QED BY <1>2, <2>1, <2>3, <2>4 DEF ErasedFor
<1>3. CASE UNCHANGED handler
  BY <1>2, <1>3 DEF AtErase
<1>4. CASE HandlerCheck
  <2> DEFINE d == send_count[handler.id] > MaxSend
  <2>1. handler' = [handler EXCEPT !.pc = IF d THEN "erase" ELSE "wait", !.drop = d] /\ UNCHANGED send_count
    BY <1>4 DEF HandlerCheck
  <2>2. d => send_count[handler.id] > MaxSend
    OBVIOUS
  <2> HIDE DEF d
  <2>3. handler'.pc = (IF d THEN "erase" ELSE "wait") /\ handler'.drop = d /\ handler'.id = handler.id
    BY <1>0, <2>1 DEF HandlerOK
  <2> QED BY <2>1, <2>2, <2>3 DEF ErasedFor, AtErase
<1>5. CASE HandlerLook
  <2>1. handler.pc = "wait" /\ handler'.id = handler.id /\ handler'.drop = handler.drop
    BY <1>0, <1>5 DEF HandlerLook, HandlerOK
  <2>2. handler'.pc = IF Acked(handler.id) THEN "erase" ELSE "expired"
    BY <1>0, <1>5 DEF HandlerLook, HandlerOK
  <2>3. UNCHANGED <<send_ack_id, ack_recv_pool>>
    BY <1>5 DEF HandlerLook, ackVars
  <2> QED BY <2>1, <2>2, <2>3 DEF ErasedFor, AtErase, Acked
<1>6. CASE HandlerPop \/ HandlerResend \/ HandlerDrop
  <2>1. handler'.pc \in {"check", "pop"}
    BY <1>0, <1>6 DEF HandlerPop, HandlerResend, HandlerDrop, HandlerOK
  <2> QED BY <2>1 DEF ErasedFor, AtErase
<1>7. CASE EraseLoad \/ EraseStore \/ EraseTest \/ EraseClear
  <2>1. /\ AtErase
        /\ \/ handler'.pc = "pop"
           \/ handler'.id = handler.id /\ handler'.drop = handler.drop /\ AtErase'
    BY <1>0, <1>7 DEF EraseLoad, EraseStore, EraseTest, EraseClear, Erased, HandlerOK, AtErase
  <2>2. CASE handler'.pc = "pop" BY <2>2 DEF ErasedFor, AtErase
  <2> QED BY <1>2, <2>1, <2>2
<1> QED
  BY <1>3, <1>4, <1>5, <1>6, <1>7
  DEF Next, vars, PushNew, SenderPop, SenderSend, SenderWait, RecvAck, FastScan, FastPush, FastDone

LEMMA OneFastStep ==
    TypeOK /\ Unborn /\ Scanning /\ Deleted /\ OneFast /\ [Next]_vars => OneFast'
<1> SUFFICES ASSUME TypeOK, Unborn, Scanning, Deleted, OneFast, [Next]_vars, NEW i \in Id
             PROVE  Copies(i)' <= (IF Looked(i) THEN 2 ELSE 1)'
  BY DEF OneFast
<1>0. QueueOK /\ Copies(i) \in Nat /\ Copies(i) <= (IF Looked(i) THEN 2 ELSE 1)
  BY TypeParts, Numbers DEF OneFast
<1>1. TypeOK' /\ Copies(i)' \in Nat
  <2>1. TypeOK'
    BY TypeStep
  <2>2. resend_queue'[i] \in Nat /\ count_list'[i] \in Nat
    BY <2>1 DEF TypeOK
  <2> QED BY <2>1, <2>2 DEF Copies
<1>2. ASSUME Copies(i)' <= Copies(i), Looked(i) => Looked(i)'
      PROVE  Copies(i)' <= (IF Looked(i) THEN 2 ELSE 1)'
  BY <1>0, <1>1, <1>2
<1>3. CASE PushNew
  <2>1. Looked(i)' <=> Looked(i)
    BY <1>3 DEF PushNew, Looked, ackVars
  <2>2. CASE i = send_id
    <3>1. /\ resend_queue[i] = 0 /\ count_list[i] = 0 /\ sender.id # i /\ handler.id # i
      BY <2>2 DEF Unborn, Pushed, Id
    <3>2. UNCHANGED <<resend_queue, count_list, sender, handler>>
      BY <1>3 DEF PushNew
    <3>3. Copies(i)' <= 1
      BY <3>1, <3>2 DEF Copies
    <3> QED BY <1>1, <3>3
  <2>3. CASE i # send_id
    <3>1. Copies(i)' = Copies(i)
      BY <1>0, <1>3, <2>3 DEF PushNew, Copies, QueueOK, Id
    <3> QED BY <1>0, <1>2, <2>1, <3>1
  <2> QED BY <2>2, <2>3
<1>4. CASE FastScan
  <2>1. CASE i # receiver.id BY <1>0, <1>2, <1>4, <2>1, ScanEffect
  <2>2. CASE i = receiver.id
    <3>1. ~Looked(i) /\ Looked(i)' /\ Copies(i)' <= Copies(i) + 1
      BY <1>0, <1>4, <2>2, ScanEffect
    <3> QED BY <1>0, <1>1, <3>1
  <2> QED BY <2>1, <2>2
<1>5. CASE FastPush \/ FastDone
  BY <1>0, <1>2, <1>5, FastEffect
<1>6. CASE RecvAck
  BY <1>0, <1>2, <1>6, AckEffect
<1>7. CASE SenderPop \/ SenderSend \/ SenderWait \/ HandlerPop \/ HandlerCheck \/ HandlerLook
           \/ HandlerResend \/ EraseLoad \/ EraseStore \/ EraseTest \/ EraseClear \/ HandlerDrop
  <2>1. Looked(i)' <=> Looked(i)
    BY <1>7 DEF Looked, ackVars, SenderPop, SenderSend, SenderWait, HandlerPop, HandlerCheck, HandlerLook,
                HandlerResend, EraseLoad, EraseStore, EraseTest, EraseClear, HandlerDrop
  <2>2. Copies(i)' <= Copies(i)
    BY <1>0, <1>7, PopEffect, SenderSteps, HandlerPopEffect, DecideEffect, ResendEffect, EraseEffect
  <2> QED BY <1>2, <2>1, <2>2
<1>8. CASE UNCHANGED vars
  <2>1. Copies(i)' = Copies(i) /\ (Looked(i)' <=> Looked(i))
    BY <1>8 DEF vars, poolVars, ackVars, Copies, Looked
  <2> QED BY <1>0, <1>2, <2>1
<1> QED BY <1>3, <1>4, <1>5, <1>6, <1>7, <1>8 DEF Next

LEMMA LockedStep == TypeOK /\ Scanning /\ Locked /\ [Next]_vars => Locked'
<1> SUFFICES ASSUME TypeOK, Scanning, Locked, [Next]_vars, NEW i \in Id, Pushing(i)'
             PROVE  resend_queue'[i] >= 1
  BY DEF Locked
<1>0. QueueOK /\ HandlerOK /\ ReceiverOK
  BY TypeParts
<1>1. CASE FastScan
  <2>1. i = receiver.id
    BY <1>1, ScanEffect
  <2>2. receiver'.pc = "push"
    BY DEF Pushing
  <2>3. resend_queue'[i] = resend_queue[i] + 1
    BY <1>0, <1>1, <2>1, <2>2 DEF FastScan, ReceiverOK, QueueOK
  <2> QED BY <1>0, <2>3 DEF QueueOK
<1>2. CASE FastPush \/ FastDone
  BY <1>2, FastEffect
<1>3. CASE RecvAck
  <2>1. receiver'.pc = "push"
    BY DEF Pushing
  <2> QED BY <1>0, <1>3, <2>1 DEF RecvAck, ReceiverOK
<1>4. CASE UNCHANGED <<receiver, resend_queue>>
  BY <1>4 DEF Locked, Pushing
<1>5. CASE (SenderPop \/ HandlerResend) /\ UNCHANGED receiver
  BY <1>5 DEF SenderPop, HandlerResend, SendMutexFree, Pushing
<1> QED
  BY <1>1, <1>2, <1>3, <1>4, <1>5
  DEF Next, vars, poolVars, PushNew, SenderPop, SenderSend, SenderWait, HandlerPop, HandlerCheck,
      HandlerLook, HandlerResend, EraseLoad, EraseStore, EraseTest, EraseClear, HandlerDrop

\* A step that issues nothing and changes no count keeps the counts sufficient.
LEMMA Kept ==
    ASSUME TypeOK, TypeOK', NEW i \in Id, CoveredFor(i),
           Issued(i)' = Issued(i), Looked(i) => Looked(i)',
           Copies(i)' <= Copies(i), Copies(i)' + Erasing(i)' <= Copies(i) + Erasing(i),
           ref'[i] = ref[i],
           Pushing(i)' <=> Pushing(i), Pushing(i) => receiver'.reg = receiver.reg,
           handler'.id = i /\ handler'.pc \in {"store", "test"} =>
               handler.id = i /\ handler.pc \in {"store", "test"} /\ handler'.reg = handler.reg
    PROVE  CoveredFor(i)'
<1>1. /\ Copies(i) \in Nat /\ Issued(i) \in Nat /\ Erasing(i) \in 0..1 /\ ref[i] \in Int
      /\ Issued(i) >= 1 /\ Spare(i) \in Nat
  BY Numbers DEF CoveredFor
<1>2. receiver.reg \in Int /\ handler.reg \in Int
  BY DEF TypeOK
<1>3. (Copies(i) \in Nat /\ Erasing(i) \in 0..1)'
  <2>1. resend_queue'[i] \in Nat /\ count_list'[i] \in Nat
    BY DEF TypeOK
  <2> QED BY <2>1 DEF Copies, Erasing
<1>4. Spare(i)' \in Nat /\ Spare(i)' <= Spare(i)
  BY <1>1 DEF Spare
<1>5. Copies(i)' + Erasing(i)' + Spare(i)' <= Copies(i) + Erasing(i) + Spare(i)
  BY <1>1, <1>3, <1>4
<1>6. Copies(i)' + Spare(i)' <= Copies(i) + Spare(i)
  BY <1>1, <1>3, <1>4
<1>7. Copies(i)' + Erasing(i)' + Spare(i)' \in Int /\ Copies(i)' + Spare(i)' \in Int
  BY <1>3, <1>4
<1>8. (Copies(i) + Erasing(i) + Spare(i) <= ref[i] + (IF Pushing(i) /\ Issued(i) <= 3 THEN 1 ELSE 0))'
  <2>1. Copies(i) + Erasing(i) + Spare(i) <= ref[i] + (IF Pushing(i) /\ Issued(i) <= 3 THEN 1 ELSE 0)
    BY DEF CoveredFor
  <2> QED BY <1>1, <1>5, <1>7, <2>1
<1>9. (Pushing(i) => Copies(i) + Erasing(i) + Spare(i) <= receiver.reg + 1)'
  <2>1. Pushing(i) => Copies(i) + Erasing(i) + Spare(i) <= receiver.reg + 1
    BY DEF CoveredFor
  <2> QED BY <1>1, <1>2, <1>5, <1>7, <2>1
<1>10. (handler.id = i /\ handler.pc \in {"store", "test"} => Copies(i) + Spare(i) <= handler.reg - 1)'
  <2>1. handler.id = i /\ handler.pc \in {"store", "test"} => Copies(i) + Spare(i) <= handler.reg - 1
    BY DEF CoveredFor
  <2> QED BY <1>1, <1>2, <1>6, <1>7, <2>1
<1> QED BY <1>1, <1>8, <1>9, <1>10 DEF CoveredFor

\* A package that is being dropped has been issued three times, and once more
\* while fast resend pushes it.
LEMMA DroppedOften ==
    ASSUME TypeOK, ErasedFor, Locked, NEW i \in Id, handler.id = i, AtErase, ~Acked(i)
    PROVE  handler.drop /\ Issued(i) >= 3 /\ (Pushing(i) => Issued(i) >= 4)
<1>1. handler.drop /\ send_count[i] > MaxSend
  BY DEF ErasedFor
<1>2. resend_queue[i] \in Nat /\ send_count[i] \in Nat
  BY DEF TypeOK
<1>3. send_count[i] >= 3
  BY <1>1, <1>2, MaxSendAssumption
<1>4. Pushing(i) => resend_queue[i] >= 1
  BY DEF Locked
<1> QED BY <1>1, <1>2, <1>3, <1>4 DEF Issued

LEMMA PushingUnacked ==
    ASSUME TypeOK, Scanning, NEW i \in Id, Pushing(i)
    PROVE  ~Acked(i)
  BY DEF Pushing, Scanning, Acked, TypeOK, Id

LEMMA CoveredStep == PoolInv /\ [Next]_vars => Covered'
<1> SUFFICES ASSUME PoolInv, [Next]_vars, NEW i \in Id, i \in Pushed', i \notin freed'
             PROVE  CoveredFor(i)'
  BY DEF Covered, Pushed
<1> USE DEF PoolInv
<1>0. TypeOK' /\ QueueOK /\ HandlerOK /\ ReceiverOK /\ AckOK
  BY TypeParts, TypeStep
<1>n. i \in Nat /\ i # 0
  BY MaxIdAssumption DEF Id
<1>c. i \in Pushed => CoveredFor(i)
  <2>1. freed \subseteq freed'
    BY DEF Next, vars, poolVars, PushNew, SenderPop, SenderSend, SenderWait, HandlerPop, HandlerCheck,
           HandlerLook, HandlerResend, EraseLoad, EraseStore, EraseTest, EraseClear, HandlerDrop,
           RecvAck, FastScan, FastPush, FastDone
  <2> QED BY <2>1 DEF Covered
<1>p. ~PushNew => i \in Pushed
  <2>1. ASSUME ~PushNew PROVE UNCHANGED send_id
    BY <2>1 DEF Next, vars, poolVars, SenderPop, SenderSend, SenderWait, HandlerPop, HandlerCheck,
           HandlerLook, HandlerResend, EraseLoad, EraseStore, EraseTest, EraseClear, HandlerDrop,
           RecvAck, FastScan, FastPush, FastDone
  <2> QED BY <2>1 DEF Pushed
<1>q. i \in Pushed => /\ Copies(i) \in Nat /\ Issued(i) \in Nat /\ Erasing(i) \in 0..1 /\ ref[i] \in Int
                      /\ Issued(i) >= 1 /\ Spare(i) \in Nat
                      /\ receiver.reg \in Int /\ handler.reg \in Int
  BY <1>0, <1>c, Numbers DEF CoveredFor, ReceiverOK, HandlerOK
<1>1. CASE PushNew
  <2>1. /\ UNCHANGED <<start, resend_queue, send_count, count_list, sender, handler, receiver, resend_now>>
        /\ receiver.pc # "push"
        /\ send_id' = send_id + 1 /\ send_id \in Id
    BY <1>1 DEF PushNew, ackVars, SendMutexFree
  <2>2. (Looked(i)' <=> Looked(i)) /\ (Pushing(i)' <=> Pushing(i)) /\ ~Pushing(i) /\ Erasing(i)' = Erasing(i)
    BY <2>1 DEF Looked, Pushing, Erasing
  <2>3. CASE i = send_id
    <3>1. /\ resend_queue[i] = 0 /\ count_list[i] = 0 /\ send_count[i] = 0
          /\ sender.id # i /\ handler.id # i
      <4>1. i \in Id \ Pushed
        BY <1>n, <2>3 DEF Pushed
      <4> QED BY <4>1 DEF Unborn
    <3>2. Copies(i)' = 1 /\ Issued(i)' = 1 /\ Erasing(i)' = 0
      BY <1>0, <2>1, <2>3, <3>1 DEF Copies, Issued, Erasing, QueueOK
    <3>3. Spare(i)' = 0
      BY <3>2 DEF Spare
    <3>4. ref'[i] = 1
      BY <1>0, <1>1, <2>3 DEF PushNew, QueueOK
    <3> QED BY <2>1, <2>2, <3>1, <3>2, <3>3, <3>4 DEF CoveredFor
  <2>4. CASE i # send_id
    <3>1. Copies(i)' = Copies(i) /\ Issued(i)' = Issued(i)
      BY <1>0, <1>n, <2>1, <2>4 DEF Copies, Issued, QueueOK
    <3>2. i \in Pushed
      BY <1>0, <2>1, <2>4 DEF Pushed, QueueOK, Id
    <3>3. ref'[i] = ref[i]
      BY <1>0, <1>1, <2>4 DEF PushNew, QueueOK
    <3> QED BY <1>0, <1>c, <1>q, <2>1, <2>2, <3>1, <3>2, <3>3, Kept
  <2> QED BY <2>3, <2>4
<1>2. CASE SenderPop \/ SenderSend \/ SenderWait
  <2>1. Copies(i)' = Copies(i) /\ Issued(i)' = Issued(i)
    BY <1>2, PopEffect, SenderSteps
  <2>2. i \in Pushed
    BY <1>0, <1>2, <1>p DEF PushNew, SenderPop, SenderSend, SenderWait, poolVars, QueueOK
  <2>3. UNCHANGED <<ref, receiver, handler, resend_now>>
    BY <1>2 DEF SenderPop, SenderSend, SenderWait, ackVars, poolVars
  <2>4. (Looked(i)' <=> Looked(i)) /\ (Pushing(i)' <=> Pushing(i)) /\ Erasing(i)' = Erasing(i)
    BY <2>3 DEF Looked, Pushing, Erasing
  <2> QED BY <1>0, <1>c, <1>q, <2>1, <2>2, <2>3, <2>4, Kept
<1>3. CASE HandlerPop \/ HandlerCheck \/ HandlerLook
  <2>1. UNCHANGED <<ref, receiver, resend_now, send_id>>
    BY <1>3 DEF HandlerPop, HandlerCheck, HandlerLook, ackVars, poolVars
  <2>2. (Looked(i)' <=> Looked(i)) /\ (Pushing(i)' <=> Pushing(i)) /\ i \in Pushed
    BY <2>1 DEF Looked, Pushing, Pushed
  <2>3. handler'.pc \notin {"store", "test"}
    BY <1>0, <1>3 DEF HandlerPop, HandlerCheck, HandlerLook, HandlerOK
  <2>4. Issued(i)' = Issued(i) /\ Copies(i)' <= Copies(i) /\ Copies(i)' + Erasing(i)' <= Copies(i) + Erasing(i)
    <3>1. CASE HandlerPop
      <4>1. Copies(i)' \in Nat
        <5>1. resend_queue'[i] \in Nat /\ count_list'[i] \in Nat
          BY <1>0 DEF TypeOK
        <5> QED BY <5>1 DEF Copies
      <4> QED BY <1>q, <2>2, <3>1, <4>1, HandlerPopEffect
    <3>2. CASE HandlerCheck \/ HandlerLook
      <4>1. /\ Copies(i)' + Erasing(i)' = Copies(i) + Erasing(i) /\ Issued(i)' = Issued(i)
            /\ Copies(i)' <= Copies(i)
        BY <3>2, DecideEffect, Zenon
      <4> QED BY <1>q, <2>2, <4>1
    <3> QED BY <1>3, <3>1, <3>2
  <2> QED BY <1>0, <1>c, <2>1, <2>2, <2>3, <2>4, Kept
<1>4. CASE HandlerResend
  <2>1. UNCHANGED <<receiver, resend_now, send_id>> /\ ~Pushing(i)
    BY <1>4 DEF HandlerResend, ackVars, SendMutexFree, Pushing
  <2>2. (Looked(i)' <=> Looked(i)) /\ ~Pushing(i)' /\ i \in Pushed
    BY <2>1 DEF Looked, Pushing, Pushed
  <2>3. handler'.pc = "pop"
    BY <1>0, <1>4 DEF HandlerResend, HandlerOK
  <2>4. /\ Copies(i)' = Copies(i) /\ Erasing(i) = 0 /\ Erasing(i)' = 0
        /\ Issued(i)' = Issued(i) + (IF handler.id = i THEN 1 ELSE 0)
        /\ ref'[i] = ref[i] + (IF handler.id = i THEN 1 ELSE 0)
    BY <1>4, ResendEffect
  <2>5. CASE handler.id = i
    <3>1. Issued(i)' = Issued(i) + 1 /\ ref'[i] = ref[i] + 1
      BY <2>4, <2>5
    <3>2. Spare(i)' \in Nat /\ Spare(i)' <= Spare(i) + 1
      BY <1>q, <2>2, <3>1 DEF Spare
    <3>3. Copies(i) + Erasing(i) + Spare(i) <= ref[i]
      BY <1>c, <1>q, <2>1, <2>2 DEF CoveredFor
    <3>4. Copies(i)' + Erasing(i)' + Spare(i)' <= ref'[i]
      BY <1>q, <2>2, <2>4, <3>1, <3>2, <3>3
    <3> QED BY <1>q, <2>2, <2>3, <3>1, <3>4 DEF CoveredFor
  <2>6. CASE handler.id # i
    <3>1. Issued(i)' = Issued(i) /\ ref'[i] = ref[i]
      BY <1>q, <2>2, <2>4, <2>6
    <3> QED BY <1>0, <1>c, <1>q, <2>1, <2>2, <2>3, <2>4, <3>1, Kept
  <2> QED BY <2>5, <2>6
<1>5. CASE EraseLoad
  <2>1. UNCHANGED <<receiver, resend_now, send_id, ref>> /\ handler.pc = "erase" /\ handler.id \in Id
    BY <1>0, <1>5 DEF EraseLoad, ackVars, poolVars, HandlerOK
  <2>2. (Looked(i)' <=> Looked(i)) /\ (Pushing(i)' <=> Pushing(i)) /\ i \in Pushed
    BY <2>1 DEF Looked, Pushing, Pushed
  <2>3. Copies(i)' = Copies(i) /\ Issued(i)' = Issued(i)
    BY <1>5, EraseEffect
  <2>4. CASE handler.id # i
    <3>1. handler'.id \in {handler.id, 0}
      BY <1>0, <1>5 DEF EraseLoad, Erased, HandlerOK
    <3>2. Erasing(i) = 0 /\ Erasing(i)' = 0 /\ handler'.id # i
      BY <1>n, <2>4, <3>1 DEF Erasing
    <3> QED BY <1>0, <1>c, <1>q, <2>1, <2>2, <2>3, <3>2, Kept
  <2>5. CASE handler.id = i
    <3>1. i \in arr /\ i \notin freed
      BY <2>1, <2>2, <2>5 DEF Deleted
    <3>2. handler'.pc = "store" /\ handler'.reg = ref[i] /\ handler'.id = i
      BY <1>0, <1>5, <2>5, <3>1 DEF EraseLoad, HandlerOK
    <3>3. Erasing(i) = 1 /\ Erasing(i)' = 1
      BY <2>1, <2>5, <3>2 DEF Erasing
    <3>4. Pushing(i) => Issued(i) >= 4
      BY <2>1, <2>5, PushingUnacked, DroppedOften DEF AtErase
    <3>5. Spare(i)' = Spare(i)
      BY <2>2, <2>3 DEF Spare
    <3>6. Copies(i) + 1 + Spare(i) <= ref[i]
      BY <1>c, <1>q, <2>2, <3>3, <3>4 DEF CoveredFor
    <3>7. Pushing(i) => Copies(i) + 1 + Spare(i) <= receiver.reg + 1
      BY <1>c, <2>2, <3>3 DEF CoveredFor
    <3>8. Copies(i) + Spare(i) <= ref[i] - 1
      BY <1>q, <2>2, <3>6
    <3> QED BY <1>q, <2>1, <2>2, <2>3, <3>2, <3>3, <3>4, <3>5, <3>6, <3>7, <3>8 DEF CoveredFor
  <2> QED BY <2>4, <2>5
<1>6. CASE EraseStore
  <2>1. UNCHANGED <<receiver, resend_now, send_id>> /\ handler.pc = "store" /\ handler.id \in Id
    BY <1>0, <1>6 DEF EraseStore, ackVars, HandlerOK
  <2>2. (Looked(i)' <=> Looked(i)) /\ (Pushing(i)' <=> Pushing(i)) /\ i \in Pushed
    BY <2>1 DEF Looked, Pushing, Pushed
  <2>3. Copies(i)' = Copies(i) /\ Issued(i)' = Issued(i)
    BY <1>6, EraseEffect
  <2>4. handler'.pc = "test" /\ handler'.id = handler.id /\ handler'.reg = handler.reg
    BY <1>0, <1>6 DEF EraseStore, HandlerOK
  <2>5. ref'[i] = IF handler.id = i THEN handler.reg - 1 ELSE ref[i]
    BY <1>0, <1>6, <2>1 DEF EraseStore, QueueOK
  <2>6. CASE handler.id # i
    <3>1. Erasing(i) = 0 /\ Erasing(i)' = 0
      BY <2>4, <2>6 DEF Erasing
    <3> QED BY <1>0, <1>c, <1>q, <2>1, <2>2, <2>3, <2>4, <2>5, <2>6, <3>1, Kept
  <2>7. CASE handler.id = i
    <3>1. Erasing(i) = 1 /\ Erasing(i)' = 0
      BY <2>1, <2>4, <2>7 DEF Erasing
    <3>2. Spare(i)' = Spare(i)
      BY <2>2, <2>3 DEF Spare
    <3>3. Copies(i) + Spare(i) <= handler.reg - 1
      BY <1>c, <2>1, <2>2, <2>7 DEF CoveredFor
    <3>4. Pushing(i) => Copies(i) + 1 + Spare(i) <= receiver.reg + 1
      BY <1>c, <2>2, <3>1 DEF CoveredFor
    <3> QED BY <1>q, <2>1, <2>2, <2>3, <2>4, <2>5, <2>7, <3>1, <3>2, <3>3, <3>4 DEF CoveredFor
  <2> QED BY <2>6, <2>7
<1>7. CASE EraseTest \/ EraseClear \/ HandlerDrop
  <2>1. UNCHANGED <<receiver, resend_now, send_id, ref>> /\ handler.pc \in {"test", "clear", "from"}
    BY <1>0, <1>7 DEF EraseTest, EraseClear, HandlerDrop, ackVars, poolVars
  <2>2. (Looked(i)' <=> Looked(i)) /\ (Pushing(i)' <=> Pushing(i)) /\ i \in Pushed
    BY <2>1 DEF Looked, Pushing, Pushed
  <2>3. Copies(i)' = Copies(i) /\ Issued(i)' = Issued(i)
    BY <1>7, EraseEffect
  <2>4. handler'.pc \in {"clear", "from", "pop"}
    BY <1>0, <1>7 DEF EraseTest, EraseClear, HandlerDrop, Erased, HandlerOK
  <2>5. Erasing(i) = 0 /\ Erasing(i)' = 0
    BY <2>1, <2>4 DEF Erasing
  <2> QED BY <1>0, <1>c, <1>q, <2>1, <2>2, <2>3, <2>4, <2>5, Kept
<1>8. CASE RecvAck
  <2>1. UNCHANGED <<send_id, ref, handler>>
    BY <1>8 DEF RecvAck, poolVars
  <2>2. i \in Pushed
    BY <2>1 DEF Pushed
  <2> QED BY <1>0, <1>8, <1>c, <1>q, <2>1, <2>2, AckEffect, Kept
<1>9. CASE FastScan
  <2>1. UNCHANGED <<send_id, ref, handler>>
    BY <1>9 DEF FastScan
  <2>2. i \in Pushed
    BY <2>1 DEF Pushed
  <2>3. CASE ~Pushing(i)'
    <3>1. Copies(i)' = Copies(i) /\ Issued(i)' = Issued(i) /\ Erasing(i)' = Erasing(i) /\ ~Pushing(i)
      BY <1>9, <2>3, ScanEffect
    <3>2. Looked(i) => Looked(i)'
      BY <1>9, ScanEffect
    <3> QED BY <1>0, <1>c, <1>q, <2>1, <2>2, <2>3, <3>1, <3>2, Kept
  <2>4. CASE Pushing(i)'
    <3>1. /\ ~Looked(i) /\ Looked(i)' /\ ~Acked(i) /\ ~Pushing(i) /\ Erasing(i)' = Erasing(i)
          /\ Copies(i)' = Copies(i) + 1 /\ Issued(i)' = Issued(i) + 1
          /\ receiver'.reg = ref[i] /\ ref'[i] = ref[i]
      BY <1>9, <2>4, ScanEffect
    <3>2. Spare(i) = Issued(i) - 1
      BY <3>1 DEF Spare
    <3>3. Spare(i)' = IF Issued(i) >= 3 THEN Issued(i) - 2 ELSE IF Issued(i) = 2 THEN 1 ELSE 0
      BY <1>q, <2>2, <3>1 DEF Spare
    <3>4. Copies(i) + Erasing(i) + Spare(i) <= ref[i]
      BY <1>c, <1>q, <2>2, <3>1 DEF CoveredFor
    <3>5. handler.id = i /\ handler.pc \in {"store", "test"} =>
             Issued(i) >= 3 /\ Copies(i) + Spare(i) <= handler.reg - 1
      BY <1>c, <2>2, <3>1, DroppedOften DEF CoveredFor, AtErase
    <3> QED BY <1>q, <2>1, <2>2, <2>4, <3>1, <3>2, <3>3, <3>4, <3>5 DEF CoveredFor
  <2> QED BY <2>3, <2>4
<1>10. CASE FastPush \/ FastDone
  <2>1. UNCHANGED <<send_id, handler>>
    BY <1>10 DEF FastPush, FastDone, poolVars
  <2>2. i \in Pushed
    BY <2>1 DEF Pushed
  <2>3. /\ Copies(i)' = Copies(i) /\ Issued(i)' = Issued(i) /\ Erasing(i)' = Erasing(i)
        /\ Looked(i) => Looked(i)'
        /\ ~Pushing(i)'
        /\ ref'[i] = IF Pushing(i) THEN receiver.reg + 1 ELSE ref[i]
    BY <1>10, FastEffect
  <2>4. CASE ~Pushing(i)
    BY <1>0, <1>c, <1>q, <2>1, <2>2, <2>3, <2>4, Kept
  <2>5. CASE Pushing(i)
    <3>1. Spare(i)' \in Nat /\ Spare(i)' <= Spare(i)
      BY <1>q, <2>2, <2>3 DEF Spare
    <3>2. Copies(i) + Erasing(i) + Spare(i) <= receiver.reg + 1
      BY <1>c, <2>2, <2>5 DEF CoveredFor
    <3>3. handler.id = i /\ handler.pc \in {"store", "test"} => Copies(i) + Spare(i) <= handler.reg - 1
      BY <1>c, <2>2 DEF CoveredFor
    <3> QED BY <1>q, <2>1, <2>2, <2>3, <2>5, <3>1, <3>2, <3>3 DEF CoveredFor
  <2> QED BY <2>4, <2>5
<1>11. CASE UNCHANGED vars
  <2>1. /\ Copies(i)' = Copies(i) /\ Issued(i)' = Issued(i) /\ Erasing(i)' = Erasing(i)
        /\ Looked(i)' <=> Looked(i)
        /\ Pushing(i)' <=> Pushing(i)
        /\ UNCHANGED <<ref, receiver, handler, send_id>>
    BY <1>11 DEF vars, poolVars, ackVars, Copies, Issued, Erasing, Looked, Pushing
  <2>2. i \in Pushed
    BY <2>1 DEF Pushed
  <2> QED BY <1>0, <1>c, <1>q, <2>1, <2>2, Kept
<1> QED BY <1>1, <1>2, <1>3, <1>4, <1>5, <1>6, <1>7, <1>8, <1>9, <1>10, <1>11 DEF Next

LEMMA DeletedStep == PoolInv /\ [Next]_vars => Deleted'
<1> SUFFICES ASSUME PoolInv, [Next]_vars PROVE Deleted'
  OBVIOUS
<1> USE DEF PoolInv
<1>0. TypeOK' /\ QueueOK /\ SetsOK /\ HandlerOK /\ ReceiverOK
  BY TypeParts, TypeStep
<1>1. CASE ~EraseTest
  <2>1. UNCHANGED freed
    BY <1>1 DEF Next, vars, poolVars, PushNew, SenderPop, SenderSend, SenderWait, HandlerPop, HandlerCheck,
           HandlerLook, HandlerResend, EraseLoad, EraseStore, EraseClear, HandlerDrop,
           RecvAck, FastScan, FastPush, FastDone
  <2>2. ASSUME NEW i \in freed
        PROVE  (Acked(i) /\ Copies(i) = 0 /\ (handler.id = i => handler.pc = "clear" /\ ~handler.drop))'
    <3>1. /\ i \in Id /\ i # 0 /\ i \in Pushed /\ Acked(i) /\ Copies(i) = 0
          /\ handler.id = i => handler.pc = "clear" /\ ~handler.drop
      BY <1>0 DEF SetsOK, Deleted, Unborn, Id
    <3>2. Acked(i)'
      BY <3>1, AckedStep
    <3>3. Copies(i)' \in Nat
      <4>1. resend_queue'[i] \in Nat /\ count_list'[i] \in Nat
        BY <1>0, <3>1 DEF TypeOK
      <4> QED BY <4>1 DEF Copies
    <3>4. Copies(i)' <= Copies(i)
      <4>1. CASE PushNew
        <5>1. i # send_id /\ i \in Int
          BY <1>0, <3>1 DEF Pushed, Id, QueueOK
        <5>2. Copies(i)' = Copies(i)
          BY <1>0, <4>1, <5>1 DEF PushNew, Copies, QueueOK
        <5> QED BY <3>1, <5>2
      <4>2. CASE FastScan
        BY <3>1, <4>2, ScanEffect
      <4>3. CASE FastPush \/ FastDone \/ RecvAck
        BY <3>1, <4>3, FastEffect, AckEffect
      <4>4. CASE SenderPop \/ SenderSend \/ SenderWait \/ HandlerPop \/ HandlerCheck \/ HandlerLook
                 \/ HandlerResend \/ EraseLoad \/ EraseStore \/ EraseClear \/ HandlerDrop
        BY <3>1, <4>4, PopEffect, SenderSteps, HandlerPopEffect, DecideEffect, ResendEffect, EraseEffect
      <4>5. CASE UNCHANGED vars
        <5>1. Copies(i)' = Copies(i)
          BY <4>5 DEF vars, poolVars, Copies
        <5> QED BY <3>1, <5>1
      <4> QED BY <1>1, <4>1, <4>2, <4>3, <4>4, <4>5 DEF Next
    <3>5. handler'.id = i => handler'.pc = "clear" /\ ~handler'.drop
      <4>1. CASE UNCHANGED handler
        BY <3>1, <4>1
      <4>2. CASE HandlerPop
        <5>1. count_list[i] = 0
          <6>1. resend_queue[i] \in Nat /\ count_list[i] \in Nat
            BY <1>0, <3>1 DEF QueueOK
          <6> QED BY <3>1, <6>1 DEF Copies
        <5> QED BY <1>0, <4>2, <5>1 DEF HandlerPop, HandlerOK
      <4>3. CASE HandlerCheck \/ HandlerLook \/ EraseLoad \/ EraseStore
        <5>1. handler.id # i /\ handler'.id \in {handler.id, 0}
          BY <1>0, <3>1, <4>3 DEF HandlerCheck, HandlerLook, EraseLoad, EraseStore, Erased, HandlerOK
        <5> QED BY <3>1, <5>1
      <4>4. CASE HandlerResend \/ HandlerDrop
        BY <1>0, <3>1, <4>4 DEF HandlerResend, HandlerDrop, HandlerOK
      <4>5. CASE EraseClear
        BY <1>0, <3>1, <4>5 DEF EraseClear, Erased, HandlerOK
      <4> QED BY <1>1, <4>1, <4>2, <4>3, <4>4, <4>5
              DEF Next, vars, PushNew, SenderPop, SenderSend, SenderWait, RecvAck, FastScan, FastPush, FastDone
    <3> QED BY <3>1, <3>2, <3>3, <3>4, <3>5
  <2>3. (handler.pc = "clear" => handler.id \in freed)'
    <3>1. CASE UNCHANGED handler
      BY <2>1, <3>1 DEF Deleted
    <3>2. CASE HandlerPop \/ HandlerCheck \/ HandlerLook \/ HandlerResend \/ EraseLoad \/ EraseStore
               \/ EraseClear \/ HandlerDrop
      <4>1. handler'.pc # "clear"
        BY <1>0, <3>2 DEF HandlerPop, HandlerCheck, HandlerLook, HandlerResend, EraseLoad, EraseStore,
                          EraseClear, HandlerDrop, Erased, HandlerOK
      <4> QED BY <4>1
    <3> QED BY <1>1, <3>1, <3>2
            DEF Next, vars, PushNew, SenderPop, SenderSend, SenderWait, RecvAck, FastScan, FastPush, FastDone
  <2>4. (Pushed \ freed \subseteq arr)'
    <3>1. CASE PushNew
      <4>1. send_id' = send_id + 1 /\ arr' = arr \union {send_id} /\ send_id \in Int
        BY <1>0, <3>1 DEF PushNew, Id
      <4>2. Pushed' \subseteq Pushed \union {send_id}
        BY <4>1 DEF Pushed, Id
      <4> QED BY <2>1, <4>1, <4>2 DEF Deleted
    <3>2. CASE EraseClear
      <4>1. arr' = arr \ {handler.id} /\ handler.id \in freed /\ UNCHANGED send_id
        BY <3>2 DEF EraseClear, Deleted
      <4>2. Pushed' = Pushed
        BY <4>1 DEF Pushed
      <4> QED BY <2>1, <4>1, <4>2 DEF Deleted
    <3>3. CASE UNCHANGED <<arr, send_id>>
      <4>1. Pushed' = Pushed
        BY <3>3 DEF Pushed
      <4> QED BY <2>1, <3>3, <4>1 DEF Deleted
    <3> QED BY <1>1, <3>1, <3>2, <3>3
            DEF Next, vars, poolVars, SenderPop, SenderSend, SenderWait, HandlerPop, HandlerCheck,
                HandlerLook, HandlerResend, EraseLoad, EraseStore, HandlerDrop, RecvAck, FastScan, FastPush, FastDone
  <2> QED BY <2>1, <2>2, <2>3, <2>4 DEF Deleted
<1>2. CASE EraseTest
  <2> DEFINE h == handler.id
  <2>1. /\ handler.pc = "test" /\ h \in Id /\ h \in Pushed /\ h \notin freed
        /\ UNCHANGED <<arr, send_id, send_ack_id, ack_recv_pool>>
    BY <1>0, <1>2 DEF EraseTest, HandlerOK, Unborn, Deleted, ackVars
  <2>2. Pushed' = Pushed /\ \A i : Acked(i)' <=> Acked(i)
    BY <2>1 DEF Pushed, Acked
  <2>3. \A i \in Id : Copies(i)' = Copies(i)
    BY <1>2, EraseEffect
  <2>4. CASE handler' = Erased /\ UNCHANGED freed
    <3>1. handler'.pc \in {"from", "pop"} /\ handler'.id \in {h, 0}
      BY <1>0, <2>4 DEF Erased, HandlerOK
    <3>2. \A i \in freed : handler'.id # i
      BY <1>0, <2>1, <3>1 DEF SetsOK, Id
    <3> QED BY <1>0, <2>1, <2>2, <2>3, <2>4, <3>1, <3>2 DEF Deleted, SetsOK
  <2>5. CASE /\ handler' = [handler EXCEPT !.pc = "clear"]
             /\ freed' = freed \union {h}
             /\ \E left \in {handler.reg - 1, ref[h]} : left <= 0
    <3>1. handler'.pc = "clear" /\ handler'.id = h /\ handler'.drop = handler.drop
      BY <1>0, <2>5 DEF HandlerOK
    <3>2. CoveredFor(h)
      BY <2>1 DEF Covered
    <3>3. /\ Copies(h) \in Nat /\ Issued(h) \in Nat /\ Erasing(h) \in 0..1 /\ ref[h] \in Int
          /\ Issued(h) >= 1 /\ Spare(h) \in Nat /\ handler.reg \in Int
      BY <1>0, <2>1, <3>2, Numbers DEF CoveredFor, HandlerOK
    <3>4. Pushing(h) => Issued(h) >= 4
      BY <2>1, PushingUnacked, DroppedOften DEF AtErase
    <3>5. Copies(h) + Spare(h) <= handler.reg - 1
      BY <2>1, <3>2 DEF CoveredFor
    <3>6. Copies(h) + Erasing(h) + Spare(h) <= ref[h]
      BY <3>2, <3>3, <3>4 DEF CoveredFor
    <3>7. Copies(h) = 0 /\ Spare(h) = 0
      BY <2>5, <3>3, <3>5, <3>6
    <3>8. Issued(h) < 3
      BY <3>3, <3>7 DEF Spare
    <3>9. ~handler.drop
      <4>1. handler.drop => send_count[h] > MaxSend
        BY <2>1 DEF ErasedFor, AtErase
      <4>2. send_count[h] \in Nat /\ resend_queue[h] \in Nat
        BY <1>0, <2>1 DEF QueueOK
      <4>3. Issued(h) >= send_count[h]
        BY <4>2 DEF Issued
      <4> QED BY <3>3, <3>8, <4>1, <4>2, <4>3, MaxSendAssumption
    <3>10. Acked(h)
      BY <2>1, <3>9 DEF ErasedFor, AtErase
    <3>11. ASSUME NEW i \in freed'
           PROVE  (Acked(i) /\ Copies(i) = 0 /\ (handler.id = i => handler.pc = "clear" /\ ~handler.drop))'
      <4>1. CASE i = h
        BY <2>1, <2>2, <2>3, <3>1, <3>7, <3>9, <3>10, <4>1
      <4>2. CASE i # h
        <5>1. i \in freed /\ i \in Id
          BY <1>0, <2>5, <4>2 DEF SetsOK
        <5> QED BY <2>2, <2>3, <3>1, <4>2, <5>1 DEF Deleted
      <4> QED BY <4>1, <4>2
    <3>12. (handler.pc = "clear" => handler.id \in freed)' /\ (Pushed \ freed \subseteq arr)'
      BY <2>1, <2>2, <2>5, <3>1 DEF Deleted
    <3> QED BY <3>11, <3>12 DEF Deleted
  <2> QED BY <1>2, <2>4, <2>5 DEF EraseTest
<1> QED BY <1>1, <1>2

LEMMA PoolInit == Init => PoolInv
<1> SUFFICES ASSUME Init PROVE PoolInv
  OBVIOUS
<1>1. TypeOK
  BY InitType
<1>2. Pushed = {}
  BY DEF Init, Pushed, Id
<1>3. \A i \in Id : /\ resend_queue[i] = 0 /\ count_list[i] = 0 /\ send_count[i] = 0
                    /\ sender.id # i /\ handler.id # i /\ receiver.id # i /\ i \notin freed
  BY DEF Init, Id
<1>4. Unborn /\ Covered /\ freed = {} /\ handler.pc = "pop"
  BY <1>2, <1>3 DEF Unborn, Covered, Init
<1>5. Scanning /\ ErasedFor /\ Locked
  BY <1>3 DEF Init, Scanning, ErasedFor, AtErase, Locked, Pushing
<1>6. Deleted
  BY <1>2, <1>4 DEF Deleted
<1>7. OneFast
  <2>1. ASSUME NEW i \in Id PROVE Copies(i) = 0
    BY <1>3 DEF Init, Copies, Id
  <2> QED BY <2>1 DEF OneFast
<1> QED BY <1>1, <1>4, <1>5, <1>6, <1>7 DEF PoolInv

LEMMA PoolStep == PoolInv /\ [Next]_vars => PoolInv'
<1> SUFFICES ASSUME PoolInv, [Next]_vars PROVE PoolInv'
  OBVIOUS
<1>1. TypeOK /\ Unborn /\ Scanning /\ ErasedFor /\ Covered /\ Deleted /\ OneFast /\ Locked
  BY DEF PoolInv
<1>2. TypeOK' /\ Unborn' /\ Scanning'
  BY <1>1, TypeStep, UnbornStep, ScanningStep
<1>3. ErasedFor' /\ OneFast' /\ Locked'
  BY <1>1, ErasedForStep, OneFastStep, LockedStep
<1>4. Covered' /\ Deleted'
  BY CoveredStep, DeletedStep
<1> QED BY <1>2, <1>3, <1>4 DEF PoolInv

-----------------------------------------------------------------------------
(***************************************************************************)
(* The theorems                                                             *)
(***************************************************************************)

\* The queues, the counts and the three threads' places keep their types: no
\* thread works on a package at a step that has none.
THEOREM PoolTypeCorrect == Spec => []TypeOK
<1>1. PoolInv => TypeOK
  BY DEF PoolInv
<1> QED BY <1>1, PoolInit, PoolStep, PTL DEF Spec

\* However many packages there are, however often one may be sent and whatever
\* gap starts fast resend, at most two copies of a package are about.
THEOREM AtMostTwoCopies == Spec => []TwoCopies
<1>1. ASSUME PoolInv PROVE TwoCopies
  <2>1. ASSUME NEW i \in Id PROVE Copies(i) <= 2
    <3>1. Copies(i) \in Nat /\ Copies(i) <= (IF Looked(i) THEN 2 ELSE 1)
      BY <1>1, Numbers DEF PoolInv, OneFast
    <3> QED BY <3>1
  <2> QED BY <2>1 DEF TwoCopies
<1> QED BY <1>1, PoolInit, PoolStep, PTL DEF Spec

\* erase, which counts without a lock, deletes no package that the sender, the
\* ackhandler or an entry of ack_pool will still use.
THEOREM NoDanglingPackage == Spec => []NoUseAfterFree
<1>1. ASSUME PoolInv PROVE NoUseAfterFree
  <2>1. SUFFICES ASSUME NEW i \in freed PROVE ~InUse(i) /\ count_list[i] = 0
    BY DEF NoUseAfterFree
  <2>2. /\ i \in Id /\ Copies(i) = 0
        /\ handler.id = i => handler.pc = "clear" /\ ~handler.drop
    BY <1>1 DEF PoolInv, Deleted, TypeOK
  <2>3. resend_queue[i] \in Nat /\ count_list[i] \in Nat
    BY <1>1, <2>2 DEF PoolInv, TypeOK
  <2>4. sender.id # i /\ count_list[i] = 0
    BY <2>2, <2>3 DEF Copies
  <2> QED BY <2>2, <2>4 DEF InUse
<1> QED BY <1>1, PoolInit, PoolStep, PTL DEF Spec

\* A package that is given up after too many sends is never deleted: what erase
\* deletes has been acknowledged.
THEOREM OnlyAckedFreed == Spec => []FreedIsAcked
<1>1. PoolInv => FreedIsAcked
  BY DEF PoolInv, Deleted, FreedIsAcked
<1> QED BY <1>1, PoolInit, PoolStep, PTL DEF Spec
=============================================================================
