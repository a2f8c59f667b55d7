------------------------------ MODULE Shutdown ------------------------------
(***************************************************************************)
(* The threads of one ReliableSocket, how they wait for each other, and how *)
(* they end.  Three threads sleep on a condition variable while their pool  *)
(* is empty: the sender (send_cv), the ackhandler (ack_cv) and the caller   *)
(* of recv_package, func_socket (recv_cv).  Whoever fills a pool does so    *)
(* under its mutex and signals after it has unlocked.  stop_all_thread      *)
(* clears worker_running and signals, without any mutex.                    *)
(*                                                                         *)
(* What is abstracted.  Pools are counts; what is in the packages, and when *)
(* the ackhandler gives one up, is in Rudp and SendPool.  A mutex is held   *)
(* across steps by the thread that has tested its pool and is about to      *)
(* sleep; every other use of it is within one step.                         *)
(***************************************************************************)
EXTENDS Integers, Sequences

CONSTANTS
    Client,  \* the socket is a client's: its exit messages go to local_sock
    MaxWork  \* bound: packages that segment thread, receiver and network bring

Consumers == {"sender", "ackhandler", "caller"}
Threads == Consumers \union {"segment", "receiver"}
Stoppers == {"closer", "receiver"}

ASSUME ClientAssumption == Client \in BOOLEAN
ASSUME MaxWorkAssumption == MaxWork \in Nat

VARIABLES
    worker_running,
    queue,    \* what a consumer finds: send_pool, ack_pool, what recv_pool has in order
    held,     \* packages in recv_pool behind a missing one
    pc,       \* where a thread is
    sig,      \* the consumer a thread is about to signal, or "none"
    todo,     \* of a thread in stop_all_thread: the consumers it has still to signal
    exitmsg,  \* the exit message has been sent
    shut,     \* send_id - send_ack_id > 8000
    pushed,   \* how much has been pushed (for MaxWork)
    missed,   \* history: consumers that were about to sleep when stop_all_thread signalled
    silent    \* history: an Ack has put packages in order since the last recv_cv.signal()

vars == <<worker_running, queue, held, pc, sig, todo, exitmsg, shut, pushed, missed, silent>>

None == "none"

Init ==
    /\ worker_running = TRUE
    /\ queue = [k \in Consumers |-> 0]
    /\ held = 0
    /\ pc = [t \in Threads |-> IF t = "receiver" THEN "select" ELSE "top"]
    /\ sig = [t \in Threads |-> None]
    /\ todo = [s \in Stoppers |-> <<>>]
    /\ exitmsg = FALSE
    /\ shut = FALSE
    /\ pushed = 0
    /\ missed = {}
    /\ silent = FALSE

Goto(t, l) == pc' = [pc EXCEPT ![t] = l]

\* The mutex of k's pool is free.
MutexFree(k) == pc[k] # "wait"

\* Mutant: the pool is filled without its mutex.
PushUnlocked(t, k, n) ==
    /\ pushed < MaxWork
    /\ pushed' = pushed + 1
    /\ queue' = [queue EXCEPT ![k] = @ + n]
    /\ sig' = [sig EXCEPT ![t] = k]

\* Thread t pushes n packages into k's pool and will signal k next.
Push(t, k, n) ==
    /\ MutexFree(k)
    /\ pushed < MaxWork
    /\ pushed' = pushed + 1
    /\ queue' = [queue EXCEPT ![k] = @ + n]
    /\ sig' = [sig EXCEPT ![t] = k]

\* ConditionVariable::signal: k goes on if it sleeps, and for its mutex.
Woken(k) == IF pc[k] = "asleep" THEN [pc EXCEPT ![k] = "lock"] ELSE pc

\* A thread signals the consumer whose pool it has filled.
Signal(t) ==
    /\ sig[t] # None
    /\ pc' = Woken(sig[t])
    /\ silent' = (silent /\ sig[t] # "caller")
    /\ sig' = [sig EXCEPT ![t] = None]
    /\ UNCHANGED <<worker_running, queue, held, todo, exitmsg, shut, pushed, missed>>

-----------------------------------------------------------------------------
(***************************************************************************)
(* The consumers                                                            *)
(***************************************************************************)

\* while (worker_running), or while (is_alive()) of func_socket; then lock.
Loop(k) ==
    /\ pc[k] = "top" /\ sig[k] = None
    /\ Goto(k, IF worker_running THEN "lock" ELSE "exit")
    /\ UNCHANGED <<worker_running, queue, held, sig, todo, exitmsg, shut, pushed, missed, silent>>

\* Lock, test, pop, unlock.  The caller writes to the tunnel and calls again.
Take(k) ==
    /\ pc[k] = "lock"
    /\ queue[k] > 0
    /\ queue' = [queue EXCEPT ![k] = @ - 1]
    /\ Goto(k, IF k = "caller" THEN "top" ELSE "work")
    /\ UNCHANGED <<worker_running, held, sig, todo, exitmsg, shut, pushed, missed, silent>>

\* The pool is empty: unlock and return, or keep the mutex and wait.
Empty(k) ==
    /\ pc[k] = "lock"
    /\ queue[k] = 0
    /\ Goto(k, IF worker_running THEN "wait" ELSE "exit")
    /\ UNCHANGED <<worker_running, queue, held, sig, todo, exitmsg, shut, pushed, missed, silent>>

\* ConditionVariable::wait unlocks and sleeps at once.
Wait(k) ==
    /\ pc[k] = "wait"
    /\ Goto(k, "asleep")
    /\ UNCHANGED <<worker_running, queue, held, sig, todo, exitmsg, shut, pushed, missed, silent>>

\* pthread_cond_wait may return without a signal.
SpuriousWakeup(k) ==
    /\ pc[k] = "asleep"
    /\ Goto(k, "lock")
    /\ UNCHANGED <<worker_running, queue, held, sig, todo, exitmsg, shut, pushed, missed, silent>>

\* The sender hands the package to the ackhandler.
SenderWork ==
    /\ pc["sender"] = "work"
    /\ MutexFree("ackhandler")
    /\ queue' = [queue EXCEPT !["ackhandler"] = @ + 1]
    /\ sig' = [sig EXCEPT !["sender"] = "ackhandler"]
    /\ Goto("sender", "top")
    /\ UNCHANGED <<worker_running, held, todo, exitmsg, shut, pushed, missed, silent>>

\* The ackhandler has seen the acknowledgement, or drops the package.
HandlerDone ==
    /\ pc["ackhandler"] = "work"
    /\ Goto("ackhandler", "top")
    /\ UNCHANGED <<worker_running, queue, held, sig, todo, exitmsg, shut, pushed, missed, silent>>

\* The ackhandler's wait has timed out: back to the sender.
HandlerResend ==
    /\ pc["ackhandler"] = "work"
    /\ MutexFree("sender")
    /\ queue' = [queue EXCEPT !["sender"] = @ + 1]
    /\ sig' = [sig EXCEPT !["ackhandler"] = "sender"]
    /\ Goto("ackhandler", "top")
    /\ UNCHANGED <<worker_running, held, todo, exitmsg, shut, pushed, missed, silent>>

(***************************************************************************)
(* The segment thread, which polls.  (The ack sender polls too, waits for   *)
(* nobody and ends when it next looks at worker_running; it is left out.)   *)
(***************************************************************************)

\* The segment thread has found segments; the window may be shut by now.
SegmentTop ==
    /\ pc["segment"] = "top" /\ sig["segment"] = None
    /\ Goto("segment", IF worker_running THEN "window" ELSE "exit")
    /\ shut' \in IF worker_running THEN {shut, TRUE} ELSE {shut}
    /\ UNCHANGED <<worker_running, queue, held, sig, todo, exitmsg, pushed, missed, silent>>

\* It goes on once the window is open, and never looks at worker_running.
SegmentPush ==
    /\ pc["segment"] = "window"
    /\ ~shut
    /\ \/ Push("segment", "sender", 1)
       \/ pushed = MaxWork /\ UNCHANGED <<pushed, queue, sig>>  \* nothing more to send
    /\ Goto("segment", "top")
    /\ UNCHANGED <<worker_running, held, todo, exitmsg, shut, missed, silent>>

(***************************************************************************)
(* The receiver                                                             *)
(***************************************************************************)

\* select is given the descriptors below sock + 1.  local_sock was opened
\* after sock, and is not one of them.  A server's exit message goes to sock.
ExitSeen == exitmsg /\ ~Client

\* Once stop_all_thread has run, sock is closed and brings nothing more.
Selecting == pc["receiver"] = "select" /\ sig["receiver"] = None /\ ~exitmsg

\* A package that is next in order, and those held behind it.
RecvNext ==
    /\ Selecting
    /\ Push("receiver", "caller", 1 + held)
    /\ held' = 0
    /\ Goto("receiver", "top")
    /\ UNCHANGED <<worker_running, todo, exitmsg, shut, missed, silent>>

\* A package with another missing before it, or a repeated one.
RecvAhead ==
    /\ Selecting
    /\ Push("receiver", "caller", 0)
    /\ held' \in {held, held + 1}
    /\ Goto("receiver", "top")
    /\ UNCHANGED <<worker_running, todo, exitmsg, shut, missed, silent>>

\* An Ack opens the window.  Its send_from may take recv_ack_id past a missing
\* package, without recv_mutex and without a signal.
RecvAck ==
    /\ Selecting
    /\ shut' = FALSE
    /\ \/ UNCHANGED <<queue, held, silent>>
       \/ /\ held > 0
          /\ queue' = [queue EXCEPT !["caller"] = @ + held]
          /\ held' = 0
          /\ silent' = TRUE
    /\ Goto("receiver", "fast")
    /\ UNCHANGED <<worker_running, sig, todo, exitmsg, pushed, missed>>

FastResend ==
    /\ pc["receiver"] = "fast"
    /\ \/ Push("receiver", "sender", 1)
       \/ UNCHANGED <<pushed, queue, sig>>
    /\ Goto("receiver", "top")
    /\ UNCHANGED <<worker_running, held, todo, exitmsg, shut, missed, silent>>

\* select returns after twenty seconds with nothing.
SelectTimeout ==
    /\ pc["receiver"] = "select" /\ sig["receiver"] = None
    /\ ~ExitSeen
    /\ Goto("receiver", "top")
    /\ UNCHANGED <<worker_running, queue, held, sig, todo, exitmsg, shut, pushed, missed, silent>>

\* The exit message is read, or is an unknown package; either way the loop ends.
ReadExit ==
    /\ pc["receiver"] = "select" /\ sig["receiver"] = None
    /\ ExitSeen
    /\ Goto("receiver", "top")
    /\ UNCHANGED <<worker_running, queue, held, sig, todo, exitmsg, shut, pushed, missed, silent>>

ReceiverTop ==
    /\ pc["receiver"] = "top" /\ sig["receiver"] = None
    /\ Goto("receiver", IF worker_running THEN "select" ELSE "exit")
    /\ UNCHANGED <<worker_running, queue, held, sig, todo, exitmsg, shut, pushed, missed, silent>>

(***************************************************************************)
(* stop_all_thread, called by close_addr or by the receiver on a Close      *)
(***************************************************************************)
Stopping(s) == todo' = [todo EXCEPT ![s] = <<"sender", "ackhandler", "caller", "socket">>]

CloseAddr ==
    /\ worker_running
    /\ worker_running' = FALSE
    /\ Stopping("closer")
    /\ UNCHANGED <<queue, held, pc, sig, exitmsg, shut, pushed, missed, silent>>

RecvClose ==
    /\ Selecting
    /\ worker_running' = FALSE
    /\ Stopping("receiver")
    /\ Goto("receiver", "stop")
    /\ UNCHANGED <<queue, held, sig, exitmsg, shut, pushed, missed, silent>>

\* Mutant: recv_cv is not signalled.
StopSignalNotCaller(s) ==
    /\ todo[s] # <<>> /\ Head(todo[s]) \in Consumers
    /\ pc' = IF Head(todo[s]) = "caller" THEN pc ELSE Woken(Head(todo[s]))
    /\ missed' = IF pc[Head(todo[s])] = "wait" THEN missed \union {Head(todo[s])} ELSE missed
    /\ todo' = [todo EXCEPT ![s] = Tail(@)]
    /\ UNCHANGED <<worker_running, queue, held, sig, exitmsg, shut, pushed, silent>>

\* The signals, one after the other.
StopSignal(s) ==
    /\ todo[s] # <<>> /\ Head(todo[s]) \in Consumers
    /\ pc' = Woken(Head(todo[s]))
    /\ missed' = IF pc[Head(todo[s])] = "wait" THEN missed \union {Head(todo[s])} ELSE missed
    /\ todo' = [todo EXCEPT ![s] = Tail(@)]
    /\ UNCHANGED <<worker_running, queue, held, sig, exitmsg, shut, pushed, silent>>

\* The exit message, and closesocket.
StopSocket(s) ==
    /\ todo[s] # <<>> /\ Head(todo[s]) = "socket"
    /\ exitmsg' = TRUE
    /\ todo' = [todo EXCEPT ![s] = <<>>]
    /\ pc' = IF s = "receiver" THEN [pc EXCEPT !["receiver"] = "top"] ELSE pc
    /\ UNCHANGED <<worker_running, queue, held, sig, shut, pushed, missed, silent>>

Consume(k) == Loop(k) \/ Take(k) \/ Empty(k) \/ Wait(k)

Datagram == RecvNext \/ RecvAhead \/ RecvAck \/ RecvClose

Next ==
    \/ \E t \in Threads : Signal(t)
    \/ \E k \in Consumers : Consume(k) \/ SpuriousWakeup(k)
    \/ SenderWork \/ HandlerDone \/ HandlerResend
    \/ SegmentTop \/ SegmentPush
    \/ Datagram \/ FastResend \/ SelectTimeout \/ ReadExit \/ ReceiverTop
    \/ CloseAddr
    \/ \E s \in Stoppers : StopSignal(s) \/ StopSocket(s)

\* Every thread goes on when it can.  Datagrams need not arrive, nobody has to
\* close, and a sleeping thread need not wake up by itself.
Fairness ==
    /\ \A t \in Threads : WF_vars(Signal(t))
    /\ \A k \in Consumers : WF_vars(Consume(k))
    /\ WF_vars(SenderWork)
    /\ WF_vars(HandlerDone \/ HandlerResend)
    /\ WF_vars(SegmentTop) /\ WF_vars(SegmentPush)
    /\ WF_vars(FastResend) /\ WF_vars(SelectTimeout \/ ReadExit) /\ WF_vars(ReceiverTop)
    /\ \A s \in Stoppers : WF_vars(StopSignal(s)) /\ WF_vars(StopSocket(s))

Spec == Init /\ [][Next]_vars
FairSpec == Spec /\ Fairness

-----------------------------------------------------------------------------
TypeOK ==
    /\ worker_running \in BOOLEAN
    /\ queue \in [Consumers -> Nat]
    /\ held \in Nat
    /\ pc \in [Threads -> {"top", "lock", "wait", "asleep", "work", "window",
                           "select", "fast", "stop", "exit"}]
    /\ sig \in [Threads -> Consumers \union {None}]
    /\ todo \in [Stoppers -> Seq(Consumers \union {"socket"})]
    /\ exitmsg \in BOOLEAN /\ shut \in BOOLEAN
    /\ pushed \in 0..MaxWork
    /\ missed \subseteq Consumers
    /\ silent \in BOOLEAN

\* No wake-up is lost: a consumer that sleeps while its pool has something is
\* about to be signalled, although the signals come after the unlock.  The one
\* exception is recv_package after an Ack has moved recv_ack_id (line 522).
NoSleepOnWork ==
    \A k \in Consumers :
        pc[k] = "asleep" /\ queue[k] > 0 =>
            \/ \E t \in Threads : sig[t] = k
            \/ k = "caller" /\ silent

\* After stop_all_thread every thread ends, with two exceptions the code has:
\* a consumer that had tested worker_running and was about to sleep when the
\* signal came, and the segment thread in front of a shut window.
StopEnds ==
    ~worker_running ~>
        \A t \in Threads :
            pc[t] = "exit" \/ t \in missed \/ (t = "segment" /\ pc[t] = "window" /\ shut)
=============================================================================
