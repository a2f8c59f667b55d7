------------------------------ MODULE SendPool ------------------------------
(***************************************************************************)
(* The packages one ReliableSocket has under way, and the four threads that *)
(* share them: segment, sender, ackhandler and receiver.  Rudp takes one    *)
(* iteration of a thread as one step; here the steps are those between      *)
(* which another thread can run.                                            *)
(*                                                                         *)
(* A PackageData is shared by pointer.  PackageQueueMap counts references   *)
(* to it in ref[], under send_mutex in push and pop and without any lock in *)
(* erase, and deletes the package when the count falls to zero.  A thread   *)
(* goes on using the pointer it has after it has given back its lock.       *)
(*                                                                         *)
(* What is abstracted.  queue holds consecutive ids, so its two ends are    *)
(* enough.  resend_queue and the entries of ack_pool are counts per id: in  *)
(* which order different packages wait is free.  The peer acknowledges      *)
(* whatever it may have received.  No id is used twice, so a ring slot is   *)
(* an id.                                                                   *)
(***************************************************************************)
EXTENDS Integers, FiniteSets, FiniteSetsExt

CONSTANTS
    MaxId,    \* bound: packages the segment thread makes
    MaxSend,  \* a package sent more often than this is dropped (20)
    FastGap   \* fast resend starts when an Ack leaves a wider gap than this (2)

Id == 1..MaxId

ASSUME MaxIdAssumption == MaxId \in Nat
ASSUME MaxSendAssumption == MaxSend \in Nat /\ MaxSend >= 2
ASSUME FastGapAssumption == FastGap \in Nat

VARIABLES
    send_id,       \* the id the next new package gets
    start,         \* queue holds the ids start..(send_id - 1)
    resend_queue,  \* how often an id is in resend_queue
    arr,           \* ids with arr[id] = id
    ref,           \* ref[id]
    freed,         \* history: packages that have been deleted
    send_count,    \* PackageData.send_count
    count_list,    \* how many entries of ack_pool point to a package
    sender,        \* [pc, id]: the sender and the package it has popped
    handler,       \* [pc, id, reg, drop]: the ackhandler, its package, the count it loaded
    receiver,      \* [pc, id, reg, max]: the receiver, the id it looks at, max_ack_id
    send_ack_id,   \* every package up to it is taken as acknowledged
    ack_recv_pool, \* ids acknowledged one by one
    resend_now,    \* fast resend has looked at every id up to it
    send_from      \* announced to the peer: wait for nothing before it

poolVars == <<send_id, start, resend_queue, arr, ref, freed>>
ackVars  == <<send_ack_id, ack_recv_pool, resend_now>>
vars == <<poolVars, send_count, count_list, sender, handler, receiver, ackVars, send_from>>

Acked(i) == i <= send_ack_id \/ i \in ack_recv_pool

MAX(a, b) == IF a > b THEN a ELSE b

\* while (ack_recv_pool.find(n + 1)) n++
Advance(S, n) == CHOOSE m \in n..(MaxId + 1) : (n + 1)..m \subseteq S /\ m + 1 \notin S

\* The receiver holds send_mutex while it pushes.  Every other thread takes it
\* and gives it back within one step.
SendMutexFree == receiver.pc # "push"

Init ==
    /\ send_id = 1
    /\ start = 1
    /\ resend_queue = [i \in Id |-> 0]
    /\ arr = {}
    /\ ref = [i \in Id |-> 0]
    /\ freed = {}
    /\ send_count = [i \in Id |-> 0]
    /\ count_list = [i \in Id |-> 0]
    /\ sender = [pc |-> "pop", id |-> 0]
    /\ handler = [pc |-> "pop", id |-> 0, reg |-> 0, drop |-> FALSE]
    /\ receiver = [pc |-> "recv", id |-> 0, reg |-> 0, max |-> 0]
    /\ send_ack_id = 0
    /\ ack_recv_pool = {}
    /\ resend_now = 0
    /\ send_from = 0

-----------------------------------------------------------------------------
\* The segment thread pushes a new package.
PushNew ==
    /\ SendMutexFree
    /\ send_id \in Id
    /\ arr' = arr \union {send_id}
    /\ ref' = [ref EXCEPT ![send_id] = 1]
    /\ send_id' = send_id + 1
    /\ UNCHANGED <<start, resend_queue, freed, send_count, count_list, sender, handler,
                   receiver, ackVars, send_from>>

(***************************************************************************)
(* The sender                                                               *)
(***************************************************************************)

\* pop() has taken id i out of its queue: the package is in the sender's
\* hands, or has been erased and is passed over.
Popped(i) == sender' = IF i \in arr THEN [pc |-> "send", id |-> i] ELSE sender

SenderPop ==
    /\ sender.pc = "pop" /\ SendMutexFree
    /\ \/ \E i \in Id :
            /\ resend_queue[i] > 0
            /\ resend_queue' = [resend_queue EXCEPT ![i] = @ - 1]
            /\ Popped(i)
            /\ UNCHANGED start
       \/ /\ \A i \in Id : resend_queue[i] = 0
          /\ start < send_id
          /\ start' = start + 1
          /\ Popped(start)
          /\ UNCHANGED resend_queue
    /\ UNCHANGED <<send_id, arr, ref, freed, send_count, count_list, handler, receiver,
                   ackVars, send_from>>

SenderSend ==
    /\ sender.pc = "send"
    /\ send_count' = [send_count EXCEPT ![sender.id] = @ + 1]
    /\ sender' = [sender EXCEPT !.pc = "ack"]
    /\ UNCHANGED <<poolVars, count_list, handler, receiver, ackVars, send_from>>

\* AckWaitList::push
SenderWait ==
    /\ sender.pc = "ack"
    /\ count_list' = [count_list EXCEPT ![sender.id] = @ + 1]
    /\ sender' = [pc |-> "pop", id |-> 0]
    /\ UNCHANGED <<poolVars, send_count, handler, receiver, ackVars, send_from>>

(***************************************************************************)
(* The ackhandler                                                           *)
(***************************************************************************)

\* AckWaitList::pop.  An entry is passed over while its package has another
\* one, so every package but the one returned keeps at least one.
HandlerPop ==
    /\ handler.pc = "pop"
    /\ \E i \in Id, rest \in [Id -> 0..2] :  \* no package has more entries (TwoCopies)
        /\ count_list[i] > 0
        /\ rest[i] = 0
        /\ \A j \in Id \ {i} :
            /\ rest[j] <= count_list[j]
            /\ count_list[j] > 0 => rest[j] > 0
        /\ count_list' = rest
        /\ handler' = [handler EXCEPT !.pc = "check", !.id = i]
    /\ UNCHANGED <<poolVars, send_count, sender, receiver, ackVars, send_from>>

HandlerCheck ==
    LET drop == send_count[handler.id] > MaxSend IN
    /\ handler.pc = "check"
    /\ handler' = [handler EXCEPT !.pc = IF drop THEN "erase" ELSE "wait", !.drop = drop]
    /\ UNCHANGED <<poolVars, send_count, count_list, sender, receiver, ackVars, send_from>>

\* One turn of the waiting loop: it ends with the acknowledgement or with the
\* timeout, or goes round again.
HandlerLook ==
    /\ handler.pc = "wait"
    /\ handler' = [handler EXCEPT !.pc = IF Acked(handler.id) THEN "erase" ELSE "expired"]
    /\ UNCHANGED <<poolVars, send_count, count_list, sender, receiver, ackVars, send_from>>

\* Mutant: the push for a timeout does not count.
HandlerResendUncounted ==
    LET i == handler.id IN
    /\ handler.pc = "expired" /\ SendMutexFree
    /\ resend_queue' = [resend_queue EXCEPT ![i] = @ + 1]
    /\ handler' = [handler EXCEPT !.pc = "pop", !.id = 0]
    /\ UNCHANGED <<send_id, start, arr, ref, freed, send_count, count_list, sender, receiver,
                   ackVars, send_from>>

\* The package timed out when the ackhandler last looked, and is sent again.
HandlerResend ==
    LET i == handler.id IN
    /\ handler.pc = "expired" /\ SendMutexFree
    /\ resend_queue' = [resend_queue EXCEPT ![i] = @ + 1]
    /\ ref' = [ref EXCEPT ![i] = @ + 1]
    /\ handler' = [handler EXCEPT !.pc = "pop", !.id = 0]
    /\ UNCHANGED <<send_id, start, arr, freed, send_count, count_list, sender, receiver,
                   ackVars, send_from>>

\* The pc after erase: a drop moves send_from, reading the id in the package.
Erased == IF handler.drop THEN [handler EXCEPT !.pc = "from"]
          ELSE [handler EXCEPT !.pc = "pop", !.id = 0]

\* PackageQueueMap::erase, without a lock: load the count,
EraseLoad ==
    LET i == handler.id IN
    /\ handler.pc = "erase"
    /\ handler' = IF i \in arr THEN [handler EXCEPT !.pc = "store", !.reg = ref[i]] ELSE Erased
    /\ UNCHANGED <<poolVars, send_count, count_list, sender, receiver, ackVars, send_from>>

\* store it less one,
EraseStore ==
    /\ handler.pc = "store"
    /\ ref' = [ref EXCEPT ![handler.id] = handler.reg - 1]
    /\ handler' = [handler EXCEPT !.pc = "test"]
    /\ UNCHANGED <<send_id, start, resend_queue, arr, freed, send_count, count_list, sender,
                   receiver, ackVars, send_from>>

\* Mutant: the package is deleted whatever the count.
EraseTestAlways ==
    /\ handler.pc = "test"
    /\ handler' = [handler EXCEPT !.pc = "clear"]
    /\ freed' = freed \union {handler.id}
    /\ UNCHANGED <<send_id, start, resend_queue, arr, ref, send_count, count_list, sender,
                   receiver, ackVars, send_from>>

\* delete the package if the count is used up (the compiler may test the value
\* it has stored or read it again),
EraseTest ==
    /\ handler.pc = "test"
    /\ \E left \in {handler.reg - 1, ref[handler.id]} :
        \/ /\ left > 0
           /\ handler' = Erased
           /\ UNCHANGED freed
        \/ /\ left <= 0
           /\ handler' = [handler EXCEPT !.pc = "clear"]
           /\ freed' = freed \union {handler.id}
    /\ UNCHANGED <<send_id, start, resend_queue, arr, ref, send_count, count_list, sender,
                   receiver, ackVars, send_from>>

\* and take the id out of arr.
EraseClear ==
    /\ handler.pc = "clear"
    /\ arr' = arr \ {handler.id}
    /\ handler' = Erased
    /\ UNCHANGED <<send_id, start, resend_queue, ref, freed, send_count, count_list, sender,
                   receiver, ackVars, send_from>>

HandlerDrop ==
    LET i == handler.id IN
    /\ handler.pc = "from"
    /\ send_from' = IF i > send_from THEN i + 1 ELSE send_from
    /\ handler' = [handler EXCEPT !.pc = "pop", !.id = 0]
    /\ UNCHANGED <<poolVars, send_count, count_list, sender, receiver, ackVars>>

(***************************************************************************)
(* The receiver                                                             *)
(***************************************************************************)

\* An Ack names packages the sender has sent; una covers these and what the
\* sender has told its peer not to wait for.  With a wide gap below
\* the highest id, fast resend goes through the gap.
RecvAck ==
    LET sent == {i \in Id : send_count[i] > 0} IN
    /\ receiver.pc = "recv"
    /\ \E ids \in SUBSET sent, una \in 0..MaxId :
        LET new == {i \in ids : i > send_ack_id}
            pool == ack_recv_pool \union new
            acked == Advance(pool, MAX(una, send_ack_id))
            now == MAX(resend_now, acked)
            top == Max(new \union {0})
        IN
        /\ una <= send_id
        /\ \A i \in 1..una : i \in sent \/ i <= send_from
        /\ ack_recv_pool' = pool
        /\ send_ack_id' = acked
        /\ resend_now' = now
        /\ receiver' = IF top > now + FastGap
                       THEN [receiver EXCEPT !.pc = "scan", !.id = now + 1, !.max = top]
                       ELSE receiver
    /\ UNCHANGED <<poolVars, send_count, count_list, sender, handler, send_from>>

\* Fast resend looks at one id: with its acknowledgement it is passed over,
\* without, the receiver takes send_mutex, queues the id and loads its count.
FastScan ==
    LET i == receiver.id IN
    /\ receiver.pc = "scan" /\ i < receiver.max
    /\ IF i \in ack_recv_pool
       THEN /\ receiver' = [receiver EXCEPT !.id = i + 1]
            /\ UNCHANGED resend_queue
       ELSE /\ receiver' = [receiver EXCEPT !.pc = "push", !.reg = ref[i]]
            /\ resend_queue' = [resend_queue EXCEPT ![i] = @ + 1]
    /\ UNCHANGED <<send_id, start, arr, ref, freed, send_count, count_list, sender, handler,
                   ackVars, send_from>>

\* It stores the count plus one and gives send_mutex back.
FastPush ==
    LET i == receiver.id IN
    /\ receiver.pc = "push"
    /\ ref' = [ref EXCEPT ![i] = receiver.reg + 1]
    /\ receiver' = [receiver EXCEPT !.pc = "scan", !.id = i + 1]
    /\ UNCHANGED <<send_id, start, resend_queue, arr, freed, send_count, count_list, sender,
                   handler, ackVars, send_from>>

\* Mutant: resend_now is not moved to max_ack_id.
FastDoneAgain ==
    /\ receiver.pc = "scan" /\ receiver.id >= receiver.max
    /\ receiver' = [pc |-> "recv", id |-> 0, reg |-> 0, max |-> 0]
    /\ UNCHANGED <<poolVars, send_count, count_list, sender, handler, ackVars, send_from>>

FastDone ==
    /\ receiver.pc = "scan" /\ receiver.id >= receiver.max
    /\ resend_now' = receiver.max
    /\ receiver' = [pc |-> "recv", id |-> 0, reg |-> 0, max |-> 0]
    /\ UNCHANGED <<poolVars, send_count, count_list, sender, handler, send_ack_id,
                   ack_recv_pool, send_from>>

Next ==
    \/ PushNew
    \/ SenderPop \/ SenderSend \/ SenderWait
    \/ HandlerPop \/ HandlerCheck \/ HandlerLook \/ HandlerResend
    \/ EraseLoad \/ EraseStore \/ EraseTest \/ EraseClear \/ HandlerDrop
    \/ RecvAck \/ FastScan \/ FastPush \/ FastDone

Spec == Init /\ [][Next]_vars

-----------------------------------------------------------------------------
(***************************************************************************)
(* Properties                                                               *)
(***************************************************************************)

\* The type of the state.  Neither end of queue leaves the ids that are in use,
\* and each thread has a package in hand exactly at the steps that need one.
TypeOK ==
    /\ send_id \in 1..(MaxId + 1) /\ start \in 1..send_id
    /\ resend_queue \in [Id -> Nat] /\ count_list \in [Id -> Nat]
    /\ arr \subseteq Id /\ freed \subseteq Id /\ ack_recv_pool \subseteq Id
    /\ ref \in [Id -> Int] /\ send_count \in [Id -> Nat]
    /\ sender \in [pc : {"pop"}, id : {0}] \union [pc : {"send", "ack"}, id : Id]
    /\ handler \in [pc : {"pop", "check", "wait", "expired", "erase", "store", "test", "clear", "from"},
                    id : Id \union {0}, reg : Int, drop : BOOLEAN]
    /\ handler.id = 0 <=> handler.pc = "pop"
    /\ receiver \in [pc : {"recv", "scan", "push"}, id : Id \union {0}, reg : Int, max : Id \union {0}]
    /\ receiver.id = 0 <=> receiver.pc = "recv"
    /\ send_ack_id \in 0..MaxId /\ resend_now \in 0..MaxId /\ send_from \in 0..(MaxId + 1)

\* The sender or the ackhandler has a pointer to package i and will use it:
\* the ackhandler reads the id of a package it drops after erase.
InUse(i) ==
    \/ sender.id = i
    \/ /\ handler.id = i
       /\ handler.pc \in {"check", "wait", "expired", "erase", "store", "test", "from"}
          \/ handler.drop

\* How often package i is queued, popped by the sender or waiting for its
\* acknowledgement.
Copies(i) ==
    resend_queue[i] + count_list[i]
    + (IF start <= i /\ i < send_id THEN 1 ELSE 0)
    + (IF sender.id = i THEN 1 ELSE 0)
    + (IF handler.id = i /\ handler.pc \in {"check", "wait", "expired"} THEN 1 ELSE 0)

\* No thread uses a package after erase has deleted it, and no entry of ack_pool
\* points to one, although the count is loaded, stored and tested without a lock
\* and one of two updates may be lost.  It takes MaxSend >= 2: a package that is
\* sent again after a timeout gets a reference that is never given back, and
\* that spare reference makes up for a lost one.
NoUseAfterFree ==
    \A i \in freed : ~InUse(i) /\ count_list[i] = 0

\* Only acknowledged packages are deleted, never one the peer may still need:
\* a dropped one keeps its spare references.
FreedIsAcked ==
    \A i \in freed : Acked(i)

\* However often a package times out, at most two copies of it are about: the
\* one that started in queue and one of fast resend, which looks at an id once.
TwoCopies ==
    \A i \in Id : Copies(i) <= 2

=============================================================================
