# Sharpvpn: TLA+ models, checks and proofs

Sharpvpn is a VPN between a client and a server. Packets read from a tunnel
device travel over a reliable-UDP protocol of its own (`src/src/rudp`), and the
client also runs a DNS proxy (`src/src/chinadns`) and changes its routing table.
This directory models the parts of it that are hard to test, checks them with
TLC and proves what matters most with TLAPS.

## The system

| Component | State | Operations | Interacts with |
| --- | --- | --- | --- |
| Reliable UDP (`ReliableSocket`) | `send_id`, `send_ack_id`, `send_from`, `recv_ack_id`, `recv_id`, `resend_now`, the pools | threads: segment, sender, ack sender, ackhandler, receiver; calls: `send_package`, `recv_package` | the same class at the other end, over UDP |
| Pools (`NetStruct`, `Package.h`) | rings of 100000 slots: `PackageQueueMap`, `AckWaitList`, `PackageMap`, `IdSet`, `AckQueue`, `PackageSegmentList` | push, pop, find, erase, snapshot | shared by the threads of a socket, partly without a lock |
| Connection | socket type, ports, `connected_addr`, `worker_running` | `connect_addr`, `accept_connection`, `close_addr`, `stop_all_thread` | condition variables of every thread |
| VPN server (`SharpVpn`) | `user_map`, `ip_map` | one `func_socket` thread per client, the tunnel thread, `get_useable_ip` | shared maps without a lock |
| VPN client | `running`, `vpn_status`, routes, `resolv.conf` | `run`, `stop` | signal handler, `func_socket`, `RouteTable`, `Chinadns` |
| DNS proxy (`chinadns.c`) | id queue, delay queue, route list | query, answer, filter, delayed answer | UDP sockets, one select loop |
| Tunnel device, routing table, daemon control, encryption | operating-system state | system calls | |

What is hard here: five threads per socket and a caller share pools under six
mutexes and sometimes under none; datagrams are lost, repeated and reordered; a
timeout, a fast resend and a late acknowledgement of one package race; packages
sent too often are dropped, and the drop must be made known to a peer that waits
for them; ids, window and rings have edges. What makes each component correct:

* Reliable UDP: packages arrive in order, none twice, none missing unless one
  was dropped; an acknowledgement means arrival; no package is forgotten; the
  window holds and never jams; sending comes to rest.
* Pools: no thread uses a package that was deleted; nothing is overwritten while
  it is in use.
* Segments: what is parsed is what was packed, whole and in order.
* Connection: both ends agree on the port, a socket talks to its own client;
  nobody sleeps on a pool that has something; closing stops every thread.
* VPN server: `user_map` and `ip_map` agree, and packets for an address go to the
  client that was told it.
* VPN client: its own packets never go into its tunnel; at its end routes and
  `resolv.conf` are as they were, as far as the kernel did what it was asked.
* Daemon control: the pid file names the daemon that serves, which is the one
  that holds the tunnel device.
* DNS proxy: an answer goes to the one who asked, once; the filter, the route
  search and the message parser do what their definitions say.

## Modules

| Module | What it is |
| --- | --- |
| `Channel` | what a connection promises to its two applications |
| `Rudp` | the protocol: both ends, all threads, the network; its properties; its refinement mapping to `Channel` |
| `MCRudp` | `Rudp` for TLC: how many packages each end sends, a bound on the network |
| `RudpProofs` | the type invariant of `Rudp`, with one lemma per action; its inductive invariant, its safety theorems, the refinement |
| `SendPoolProofs`, `ConnectionProofs`, `SessionsProofs`, `ChinaDnsProofs` | the inductive invariant of the module of that name, and its theorems |
| `SocketProofs` | the same for `Shutdown` and `Segments` |
| `HostProofs` | the same for `VpnClient` and `Daemon` |
| `AlgorithmProofs` | the same for `ChnRoute`, `RouteTable` and `DnsMessage` |
| `SendPool` | one socket's packages under way at the granularity of single memory accesses |
| `ChinaDns` | the DNS proxy's loop: id queue, answer filter, delay queue |
| `ChnRoute` | the proxy's route list and its binary search, turn by turn |
| `DnsMessage` | the proxy's message parser against a definition of a message |
| `Connection` | setting up and closing: clients, accept loop, receivers, network |
| `Shutdown` | one socket's threads, mutexes and condition variables, and their end |
| `Segments` | ring, packing, parsing |
| `Sessions` | the server's `func_socket` threads on `user_map` and `ip_map` |
| `VpnClient` | the client process: `run`, `stop`, signals, and what is left on the host |
| `RouteTable` | what the client does to the kernel's routing table |
| `Daemon` | the commands `-d start`, `stop`, `restart`, their daemons and the pid file |
| `MCHost` | `VpnClient` and `Daemon` for TLC, one beside the other |
| `MCAlgorithms` | `ChnRoute`, `RouteTable` and `DnsMessage` for TLC, one beside the other |

How they fit together. `Rudp` takes a connection for given and numbers packages;
`Connection` is how it comes to be and ends; `SendPool` and `Shutdown` look into one
of its sockets, at memory and at waiting; `Segments` is what `Rudp` calls a batch, and
assumes what `Rudp` shows (in order, at most once). `Sessions` and `VpnClient` are the
two users of a socket, and assume that it delivers or dies. `VpnClient` says when
the operations of `RouteTable` are called, and `Daemon` when a process is.

### Rudp

An endpoint's variables have the names of the members of `ReliableSocket`; every
one is a function of the endpoint. `queue`, `resend_queue`, `live` and `ref` are
the `PackageQueueMap` (`live` is `arr[id] == id`), `ack_pool` the `AckWaitList`,
`recv_pool` the `PackageMap`, `ack_recv_pool` the `IdSet`, `ack_send_queue` and
`ack_read_list` the `AckQueue` and the ack sender's snapshot. `seg_left`,
`watched` and `fast_to` are local variables of threads. `delivered`, `arrived`
and `dropped` are history.

| Action | Code |
| --- | --- |
| `TakeSegments`, `PushPackage` | segment thread: snapshot and window, then one numbered package at a time |
| `SendPackage` | sender: pop, una, count, send, hand to the ackhandler |
| `TakeAcks`, `SendAck` | ack sender: snapshot, then one Ack of at most 35 ids at a time |
| `WatchPackage`, `ReleasePackage`, `ResendPackage` | ackhandler: pop and drop, release or wait; acknowledged; timed out |
| `RecvData`, `RecvAck`, `FastResend` | receiver: the cases Data and Ack, fast resend one id at a time |
| `RecvPackage`, `SkipDropped` | `recv_package` |
| `Lose` | the network destroys a datagram |

The network is a set. A datagram stays in it when it is received, so that it may
arrive again, or never, or after later ones. `send_package` only adds a segment
to the list; what is in the list is the choice of `n` in `TakeSegments`.

Abstractions. The payload of a package is its id: packing segments into a package
and encryption do not decide anything here. Time is free: a timeout may fire
whenever the ackhandler waits. Ids stay below the capacity of the rings, so a
slot never belongs to two packages. `ack_send_queue` is a set, since the peer
ignores an id it is told twice. Ping only changes the timeout. A package already
acknowledged may still be sent again: the ackhandler looks for the
acknowledgement and pushes in two steps.

### SendPool

`PackageData` objects are shared by pointer between the sender and the
ackhandler, counted in `ref[]`. `push` and `pop` run under `send_mutex`; `erase`
runs under nothing. The model has a program counter for the sender, the
ackhandler and the receiver. `erase` is five steps: check and load, store, test,
delete, clear `arr`. The increment of fast resend is two. Whether the compiler
tests the value stored or loads it again is free. `resend_queue` and the entries
of `ack_pool` are counts per id, which allows more orders than the code has, so
that what holds here holds there. The peer may acknowledge any package that was
sent, and any prefix it may know of.

### ChinaDns and ChnRoute

The proxy is one loop: `CheckAndSendDelay`, then `HandleLocal` or `NoLocal`, then
`HandleRemote` or `NoRemote`; time passes (`Tick`) in `select`. `id_addr_queue` and
`delay_queue` are the rings of the code with their positions. `mem` says for each
slot of `delay_queue` whether its buffer is allocated. A query is a number, and an
answer says which query it is about, which the code cannot see. A server may answer a
query whose entry is already overwritten: then its id may belong to another query,
which the history `late` remembers, and for which `AnswersItsQuestion` promises
nothing. The options
`compression`, `bidirectional` and the ip list are never set by the program and are
left out, as is the end of the loop on a socket error or by `stop`.

`ChnRoute` starts with any list of disjoint aligned nets, sorted as
`parse_chnroute` sorts it, and any address, and makes one step per turn of the loop
of `test_ip_in_list`. Xor and mask are a comparison of quotients.

### DnsMessage

`Init` has every message of a small size. `InitParse` is `local_ns_initparse` with its
walk over the sections, `ParseRr`, `ParseRrBadName` and `ParseRrNone` are the outcomes of
`local_ns_parserr`. A 16 or 32 bit field takes one cell instead of two or four, and there is one
section of records instead of three. `dn_expand` is libresolv's: whether a name expands
is free. What a message is stands at the end of the module without any walking:
`IsName` (cells that can be cut into labels and an end), `IsRecord`, `Ends`. A bit string label has
a count of bits in which 0 stands for 256, in the code and in the definition.

### Connection

| Action | Code |
| --- | --- |
| `Connect`, `ConnectTimeout`, `ConnectAnswer`, `ConnectNoControlPort` | `connect_addr`: the request, each timeout, the answer and the outcomes of `bind` on the control port |
| `SendToken` | the first package, sent again until acknowledged |
| `Close`, `ServerClose` | `close_addr` |
| `Accept`, `BindTaken`, `BindFree` | `accept_connection`, `get_free_port`, one action per `bind` |
| `Receive` | a receiver's turn, which writes `connected_addr` first |
| `Lose`, `Vanish` | the network; a datagram at a port without a socket |

`connect_addr` reads whatever comes into the buffer of its answer. A Ping has
fewer bytes: the port that comes out (`PortIn`) is one where nobody is. Datagrams
are lost, overtake each other, or come after a timeout; the history `calm` says that
none of this has happened yet, and the properties that need it say so.

### Shutdown

Pools are counts. `pc` says where a thread is: "lock" (about to lock and test),
"wait" (tested, holds the mutex), "asleep". A producer pushes and unlocks in one
step and signals in the next (`sig`), as the code does. `stop_all_thread` is one step
per signal. `Client` says on which socket the exit message comes: `select` is given
`sock + 1`, and `local_sock` has a higher number.

### Segments

`array` is shared by `segment_list` and by the segment thread's copy of it, as in the
code. A package is a function from the offsets of its length fields to segments, so
that a parser at a wrong offset is seen. `MaxLen` is the tunnel's MTU, eight
less than `max_segment`, which `SharpVpn` sets up. A package may be given up on the
way (`DropPackage`) or fail to decrypt (`LoadFails`).

### Sessions

A step of `func_socket` goes from one of its waits to the next: `Accept` (clean-up, up
to `recv_package`), `AssignNew`, `CloseOld` (up to `msleep(500)`), `Replace`, `End`.
`Tails` is what may be behind the token in the uninitialised buffer. Other threads may
run during the `msleep`, which the history `overlap` remembers.

### VpnClient

One action per call that `run` makes in the main thread, and per call of `stop`, for each
of its two callers. The signal handler runs in the main thread, which stands
still meanwhile; `func_socket` runs in a detached thread. `Exit` ends the
process with all its threads, wherever they are. `disturbed` is history: a signal during
start-up, a server that closed, a `resolv.conf` that could not be put back. A tunnel that is closed takes
its routes along, which is the kernel's doing. `Restart` starts the program again on the
host as it was left.

`run` and `stop` look at no result of a route call, so each step that makes some has a twin
in which they fail: `SetChnrouteFails`, `SetDefaultFails`, `StopRoutesFails`. The history
`failures` keeps why: `"descriptors"` when the route file has used up the process's
descriptors, `"kernel"` for every other reason, a file that is not there included. By
descriptors the server's route cannot fail, since it is the first one added, and a process that has
just connected is taken to have one left for it (`limit >= 2` in `RouteTable`).

The tunnel thread tests `running` (`TunnelTests`) and then stands in `read` (`TunnelReads`)
until there is a packet or, if the device was closed before the call, at once. Closing the device
does not wake a `read` that waits. That is why `stop` sends a ping first, and the variable `packet` says
that it has gone into the device: it need not, when the device is not up or the halves of the address
space do not go through it.

### RouteTable

The kernel's table is a sequence in the order of `/proc/net/route` (external); `Via` is
its longest-prefix match. `OpenFile`, `AddServer`, `AddLine` are `set_chnroute`, `AddLow`
and `AddHigh` are `set_default_as_tunnel`, `StopTunnel`, `DeleteLine` are `delete_chnroute` after the
tunnel has been closed. A line without a slash repeats the row before it. What is
in `buf` beyond a line is taken to have no slash.

Every route call and every opening of the file may fail (`Call`, `Open`), and the loops go on as the code
does. `fds` counts the descriptors that are free: `add_route_row` and `del_route_row` open a
socket and never close it, so each call takes one for good. The history `limit` is how many were
free when `set_chnroute` began, `refused` how many calls failed though one was free. The
properties say what holds whatever failed, what holds of the server's route with two descriptors
(the file's and the first call's), and from how many descriptors on the routes are as they are meant:
`Len(file) + 3` for the start, `2 * Len(file) + 5` for the end.

### Daemon

Command `i` may fork daemon `i`. The tunnel device is opened before the fork and
held by one process at a time. `StopNothing`, `StopKill`, `StopGone`, `StopTimeout` are
`DaemonRuntime::stop`, `Fork` and `WritePidFile` are `start`. `SharpVpn::stop` closes the
device (`ClosesTunnel`) and has routes, `resolv.conf` and the socket still before it, so a daemon may
be alive, and stopping, without the device, and the next one may be up already. A daemon may
end at any time (`Ends`).

## Runs

| Run | Checks | Bounds | Result |
| --- | --- | --- | --- |
| `rudp_oneway` | `TypeOK`, `CompleteUntilDrop`, `NoPackageForgotten` | 3 packages one way in one batch, drop after 2 sends, id 2 perhaps in fresh memory, 4 different datagrams | pass |
| `rudp_twoway` | `DeliveredInOrder`, `AckMeansArrived`, `AckedIsKept`, `WindowBound`, `WindowNeverWraps`, `ImplementsChannel` | 3 packages and 1 package back, window 1, batch 2, drop after 1 send, 4 different datagrams | pass |
| `rudp_live` | `EverySettled`, `DeliveredUnlessDropped` | 2 packages, drop after 2 sends, one datagram destroyed | pass |
| `discard_doc` | `DiscardsOnlyDuplicates` | 2 packages and 1 back | violated |
| `send_pool` | `NoUseAfterFree`, `FreedIsAcked`, `TwoCopies` | 2 packages, drop after 3 sends, fast resend over a gap of one | pass |
| `segments` | `InOrder`, `PackageFits`, `EveryPacked` | 5 segments of 1 to 3 bytes, ring of 3, packages of 11 bytes, 1 lost | pass |
| `connection` | `PeerFixed`, `PortAgreed`, `TokenArrives`, `AcceptEnds`, `ServerClosesToo` | 2 clients, 3 ports, 1 retry | pass |
| `shutdown` | `NoSleepOnWork`, `StopEnds` | 1 push from outside | pass |
| `sessions` | `MapsAgree`, `SessionRouted` | 4 connections, 2 tokens, 3 addresses | pass |
| `host` | `ServerOutsideTunnel`, `CleanExit`, `SignalEnds` of `VpnClient`; `DaemonInFile` of `Daemon` | all options, 2 starts; 4 commands, 1 configuration | pass |
| `dns_proxy` | `IdsDistinct`, `DelaySlotsOwned`, `AnswersItsQuestion`, `ForeignAnswerReachesClient` | 4 queries, 2 id slots, 3 delay slots, 3 answers | pass |
| `algorithms` | `SearchRight`, `SearchEnds` of `ChnRoute`; `SplitAsMeant`, `RestoredAfterStop` of `RouteTable`; `ParsedIffMessage`, `RightRecord` of `DnsMessage` | all lists of disjoint nets over 8 addresses; 8 addresses, 2 lines, one own route of 2 bits, 1, 4 or 9 free descriptors, 1 refused call; every message of up to 8 cells behind the header and 2 records | pass |

`TypeOK` is a property of the runs of `Rudp` only; those of the other modules are the
ground of their proofs, where they are theorems, and hold under the same bounds.

The bounds. Three ids are the fewest for fast resend (an Ack that leaves a gap of
more than two). Two sends are enough for a timeout, a second copy under way and a
drop. A window smaller than the batch, and a batch
smaller than the supply, make the segment thread overrun the window and stall.
One package back makes the peer's Acks, and with them `send_from`, travel, and
makes `una` travel on Data. `MaxNet` bounds the different datagrams in the
network, as a state constraint; repetition costs nothing. `SendPool` has
`MaxSend` at 2, the least value for which `NoUseAfterFree` holds (the code has
20), and `FastGap` at 1 instead of 2, so that two packages are enough for a fast
resend. Deadlock is not checked: once the packages of a bounded model are through
there is nothing left to do, and connections, threads, processes and commands of
the other modules come to an end; the loop of `ChinaDns` never stops, and there it is
checked. Four queries over two slots make a third query overwrite the first and a
fourth reuse its id; three delay slots hold two answers, so that three overflow
them.

Two clients with one retry each ask for up to four sockets: with three ports the last
one finds a port taken, or gets the port of a closed socket, from where on `PeerFixed`
promises nothing.
Each of the threads in `Shutdown` that pushes does so by itself; one push from outside
starts them. Packages of 11
bytes hold one segment of 3 bytes, or two, and five segments go round a ring of three;
`SendPackage` stops at a full ring, where the code would overwrite. Four connections of
two tokens over three addresses make clients come back, addresses go to
another client, and address 0 to the fourth user when all are taken (a client that leaves
before it has sent a token is a user too); sockets and tokens are symmetric. Eight addresses hold nested nets, the server inside
and outside of them. Nine descriptors are what two lines need up to the end
(`2 * 2 + 5`), four what one line needs at the start (`1 + 3`) and too few for two, with which they run out
between lines, halves and deletions; with one the server's route gets none if a file is
open. One refused call hits every call in turn. Eight cells hold a question and an answer. Two starts let the
second one see what the first has left. Four commands are a start, a stop or restart that times out or
meets a crashed daemon, and two more that see what it has left.

Fairness (`FairSpec`, in `Segments` `SegmentsFairSpec`). Threads loop for ever, so each gets weak fairness for its
loop. The network gets weak fairness for the reception of some datagram with
package `i`, and of some Ack: while copies keep being sent, one arrives. Without
it nothing can be promised, and the code promises nothing. `Lose` and
`TakeSegments` have none. `ChinaDns` gets weak fairness for each part of its loop and
strong fairness for `Tick`, since `select` returns after 50 ms at the latest and
the clock runs. In `Connection` the threads of connected sockets and the accept loop get
weak fairness, and so the network delivers what it does not lose; connecting and closing
are free. In `Shutdown` threads
run on, `select` returns at its timeout, no datagram has to come, and nobody wakes up
without a signal. In `VpnClient` and `Segments` threads run on; signals and packets need not
come, and a server need not end. The tunnel thread of `VpnClient` goes on from its `read` only for a packet
that is in the device (`TunnelWakes`); no fairness wakes it where the device is closed or was
never up. `Sessions` and `Daemon` state safety only. `DeliveredUnlessDropped` says nothing of a run in which
a package is dropped.

## Where the code does less than it says

* `discard_doc` is a run that is violated: on an Ack the receiver sets `recv_ack_id`, the
  last id it counts as received, to `send_from`, the first one the peer still means to
  send. The package with that id is deleted as a duplicate when it comes for the first
  time, and acknowledged.

The other cases are exceptions that the passing properties name, or choices that the
models leave open. Dropping an exception from its property makes TLC show the behaviour.

* `AckMeansArrived`, `i <= send_from[e]`: `ReliableSocket.h` says that packages below
  `send_from` "are well received or droped". The ackhandler sets it to the dropped id
  plus one whatever became of smaller ids. A timeout order in which package 2 is used up
  before package 1 makes `send_from` pass package 1.
* `AckMeansArrived`, `i \in StaleIds`: `IdSet` does not clear its array. An id in that
  memory counts as acknowledged: a package so taken is not sent again, and the application
  waits for it for ever (`DeliveredUnlessDropped`, checked with clear memory).
* `SearchRight`: the loop of `test_ip_in_list` leaves `l` at `r - 1` and looks at `l` only.
  With more than one net, addresses of the last net count as foreign.
* `PortAgreed`, `TokenArrives`, `calm`: `connect_addr` takes a Ping for its answer and
  reports a connection to a port that nobody has.
* `ServerClosesToo`, `calm`: the comment in `close_addr` counts on the server closing the
  socket anyway. When the one Close datagram is lost nothing in the server does.
* `NoSleepOnWork`: an Ack moves `recv_ack_id` without a signal, and `recv_package` sleeps
  on although it could go on.
* `StopEnds`: a thread that is between its test of `worker_running` and its wait misses the
  signal of `stop_all_thread`; the segment thread before a shut window does not look.
* `Shutdown`, `ExitSeen`: the exit message of a client comes on a descriptor beyond the
  range `select` is told to look at: its receiver ends up to twenty seconds late.
* `SessionRouted`, `overlap`: the session is removed during the half second in which
  `func_socket` waits to replace its socket, its address goes to another client,
  and that client's socket is deleted.
* `Sessions`, `Tails`: the same token is two users when other bytes follow it in the
  uninitialised buffer.
* `CleanExit`, `disturbed`: `resolv.conf` says of itself that it "will be recovered when
  the program stop". When the server closes, `stop` runs in a detached thread and the
  process may end under it; a signal during start-up runs `stop` before there is anything
  to put back.
* `SplitAsMeant`, `RestoredAfterStop`, the conditions on `limit`: the sockets of `RouteTable.cpp:97`
  and `:144` are never closed. `sample/chnroute.txt` has 7506 lines; with the usual 1024 descriptors
  the later lines are not added, nor the halves, so that nothing goes through the
  tunnel, and at the end `delete_chnroute` cannot open the file (line 667) and leaves what was added
  (`CleanExit`, `failures`).
* `SplitAsMeant`, `refused`, and `ServerOutsideTunnel`, `"kernel"`: lines 608 and 629 look at no result of
  `add_route_row`. When the kernel refuses the route to the server, because the default
  route has no gateway for one, the halves are added without it and the client's own packets go into
  its tunnel. Line 685 does the same with deletions.
* `SignalEnds`, `"half" \in routes` and `failures`: the tunnel thread waits in `read`. When `set_ip` did not
  bring the device up or the halves are not there, the ping of `stop` does not reach the device, and
  `close` does not wake the reader: `run` joins it for ever, and the process stays.
* `DaemonInFile`, `Holds`: `stop` closes the device first and lives on to delete
  routes, restore `resolv.conf` and close its socket (`SharpVpn.cpp:333` to `342`). A daemon that is started in
  that time, after the ten seconds of `DaemonRuntime::stop` or because the server closed, gets the device
  and the file; two are alive, and the older one is named nowhere.
* `DaemonInFile`, one configuration (with two it is violated): `write_pid_file` has an error for an "already running
  program" that it can never report, since the file is only read when it could not be
  opened. A daemon with another tunnel device takes over the pid file.

## What is proved

All theorems hold for every value of the constants that satisfies the named
assumptions of the module. These are what the code takes for granted: ends, sockets and
addresses that differ, rings and windows of at least one, natural bounds, in `ChinaDns` more
ids than entries of the id queue, in `SendPool` a limit of at least two sends (with one
`NoUseAfterFree` is false; the code has 20). In `RouteTable` no line of the file and no
route of the user's own but the default route is shorter than two bits
(`LengthAssumption`): such a one beats the two halves of the address space that
`set_default_as_tunnel` adds, which have one bit. In `DnsMessage` cells are bytes
(`CellAssumption`). `PowerAssumption` and `HalfAssumption` are facts of arithmetic
which the prover does not have (powers of two are positive, `2^W` is twice
`2^(W - 1)`), and TLC evaluates them.

The theorems on a sequential algorithm state what it computes for every input,
which takes induction. It is done without an induction rule: of a set of natural numbers that
are counterexamples the least one is taken (`Least`), and that a recursive
function has the values its equation says is shown by building it from its
initial stretches (`Recursion`).

| Theorem | Property, always true in `Spec` | Module |
| --- | --- | --- |
| `TypeCorrect` | `TypeOK` | `RudpProofs` |
| `WindowKept` | `WindowBound` | `RudpProofs` |
| `AcksAreSound` | `AckMeansArrived` | `RudpProofs` |
| `NoWrap` | `WindowNeverWraps` | `RudpProofs` |
| `OrderKept` | `DeliveredInOrder` | `RudpProofs` |
| `NothingMissing` | `CompleteUntilDrop` | `RudpProofs` |
| `AckedSurvives` | `AckedIsKept` | `RudpProofs` |
| `NoneForgotten` | `NoPackageForgotten` | `RudpProofs` |
| `Refinement` | `ImplementsChannel` (a refinement, no invariant) | `RudpProofs` |
| `AtMostTwoCopies` | `TwoCopies` | `SendPoolProofs` |
| `NoDanglingPackage` | `NoUseAfterFree` | `SendPoolProofs` |
| `OnlyAckedFreed` | `FreedIsAcked` | `SendPoolProofs` |
| `PeersStayFixed` | `PeerFixed` | `ConnectionProofs` |
| `PortsAgree` | `PortAgreed` | `ConnectionProofs` |
| `NoLostWakeup` | `NoSleepOnWork` | `SocketProofs` |
| `SegmentsInOrder` | `InOrder`, in `SegmentsSpec` | `SocketProofs` |
| `PackagesFit` | `PackageFits`, in `SegmentsSpec` | `SocketProofs` |
| `MapsConsistent` | `MapsAgree`, if always `FewUsers` | `SessionsProofs` |
| `ClientsRouted` | `SessionRouted`, if always `FewUsers` | `SessionsProofs` |
| `ServerReachable` | `ServerOutsideTunnel` | `HostProofs` |
| `ExitIsClean` | `CleanExit` | `HostProofs` |
| `DaemonKnown` | `DaemonInFile`, with one configuration | `HostProofs` |
| `IdsStayDistinct` | `IdsDistinct` | `ChinaDnsProofs` |
| `BuffersOwned` | `DelaySlotsOwned` | `ChinaDnsProofs` |
| `ClientsGetTheirAnswers` | `AnswersItsQuestion` | `ChinaDnsProofs` |
| `SearchIsRight` | `SearchRight` | `AlgorithmProofs` |
| `SplitIsAsMeant` | `SplitAsMeant`, in `RouteTable!Spec` | `AlgorithmProofs` |
| `TableIsRestored` | `RestoredAfterStop`, in `RouteTable!Spec` | `AlgorithmProofs` |
| `ParsedAreMessages` | `ParsedIffMessage`, in `DnsMessage!Spec` | `AlgorithmProofs` |
| `RecordIsRight` | `RightRecord`, in `DnsMessage!Spec` | `AlgorithmProofs` |

Six modules also have their type invariant proved (`ClientTypeCorrect`, `ShutdownTypeCorrect`,
`SegmentsTypeCorrect`, `PoolTypeCorrect`, `SessionsTypeCorrect`, `ConnectionTypeCorrect`); in `ChinaDns` types are
part of the invariant. The inductive invariants below were checked by TLC on small
instances before they were proved.

### Rudp

The type invariant alone is not inductive: `PushPackage` stays within the ids only
because a batch is cut to what the application supplies (`BatchBound`), and
`FastResend` only because it stops below an id that exists (`FastBound`).

The safety theorems come from one invariant, `SafeInv`. Call package `i` of an end
*gone* when it has arrived at the peer or is covered by `send_from`. The invariant
says that `gone` is all that any number in the system can claim: `una` in a socket
(`UnaGone`), `una` and the ids in a datagram (`NetGone`), what is taken as
acknowledged (`AckGone`), what waits to be acknowledged (`ListedArrived`). Next to
it stand the facts that ids in use have been numbered (`LiveExist`, `DataExist`,
`ArrivedExist`, `WaitExist`), that without a drop no `send_from` is about
(`NoSendFrom`), that what arrived is then kept until delivered (`Kept`), and that
the delivered sequence is below `recv_id` and increasing (`InOrder`). `gone` only
grows (`GoneMonotonic`), so each fact survives every step that does not write its
own variables (`Writers`), and the proof looks at the writers only.
`AckMeansArrived` is not inductive without `NetGone`: the claim travels.

`NoPackageForgotten` needs no strengthening but the types. A package leaves a queue
for another one or for the ackhandler's hands. The delicate step is
`AckWaitList::pop`, which passes over entries: each of those has a later entry
behind the one that is returned (`PopKeeps`).

### SendPool

`PoolInv`. What has to be shown is that a count which two threads change without a lock
never falls below the number of copies about. A package is *issued* once when
it is pushed, at most once by fast resend, and once per timeout. Every issue adds a reference, but a
timeout makes no new copy, so its reference is never given back: it is *spare*. `CoveredFor`
says that copies and spare references are within the count, and within the value that
the ackhandler or the receiver has in a register. The one update that can be lost
is that of fast resend while the ackhandler gives the package up; it has then been sent
three times at least, and a spare reference makes up for it. This is where
`MaxSend >= 2` is needed. `OneFast` (a second copy only once fast resend has looked), `Scanning`,
`ErasedFor`, `Deleted`, `Unborn` and `Locked` say where the three threads stand.

### Connection

`ConnInv`. Every datagram on its way to or from a server port belongs to a pair
`<<client, port>>` that a socket was made for (`NetInv`), and whoever is connected is connected to an
address of its pairs (`PeersInv`). `get_free_port` goes round (`InOrder`: the ports used so far are an
initial stretch, or all), so no port has two clients before every port has one; if no more
sockets were made than there are ports, the map from pairs to ports is then a bijection
(`FewSockets`). For `PortAgreed`, a client that has not asked has been sent nothing
(`AskedFirst`), so that the first datagram it has is the answer (`AnswerFirst`).

### Shutdown

`WakeInv`. A consumer that is between its test and its wait holds its mutex and has found
its pool empty (`WaitsOnEmpty`): who pushes needs that mutex. A thread gives its signal before it
does anything else (`SignalFirst`), so a pool with something and a sleeper has a
signal coming. An Ack that moves `recv_ack_id` is the exception, in the invariant as
in the property.

### Segments

`SegmentsInv`. What waits in the ring, from the start of the thread's copy to the
end of the ring, is the end of `sent`, though `array` is one for both (`RingInv`). In a package, the one being
packed included, each segment begins where the one before it ends, and a zero is
behind the last (`PackageInv`), so that the parser stays at a length field. By their numbers, segments
that have been handed over come before those the parser has left, these before those under way, and these
before the package that is packed (`OrderInv`); while nothing is lost, the four
together are all that left the ring (`CompleteInv`). `PackageFits` rests on the room that `Fits`
leaves for the next length field (`FitsInv`).

### Sessions

`SessionInv`. A socket enters `ip_map` once, when its `func_socket` gets past the token (`Entered`).
Without `overlap` the two maps agree (`Agree`), at most one thread is in its half second and the
socket it replaces is closed (`OneSleeper`), a live client has its address
(`HasAddress`), and no deleted socket lives (`NoDeadRevived`). `FewUsers`, at most one
user more than there are addresses, is the condition that the comment on `MapsAgree` names:
`get_useable_ip` answers 0 when it has no address left, and a second user at 0 breaks the
agreement.

### VpnClient and Daemon

For `ServerOutsideTunnel` it takes one fact more: when `set_default_as_tunnel` is next, the server's
route is there unless the kernel has refused one (`RouteInv`); a lack of descriptors is not excepted, because
it comes after that route. For `CleanExit` the invariant says what there is to undo and that who undoes it
knows of it (`Undoable`), that nothing was stopped before `run` waits (`StartUp`), and how far `stop` is
while it does (`Waiting`). What it says of the routes of the file holds while no route call has failed, what
it says of `resolv.conf` in any case.

`DaemonInFile` rests on the device: a daemon that holds it keeps `start` from forking another
one, and a daemon holds it from its fork on (`HoldsDevice`) until it closes it, after which it
never gets it back. So whoever is alive with the device, and whose command is done, is in the file; and
`StopGone`, which removes the file, has waited for the very daemon that had the device, if any had it
(`InFile`).

### ChinaDns

`DnsInv`. An entry of the id queue in use holds the id its query was given (`EntryOfQuery`); a new
id is one that no entry has. So the entry an answer finds is its query's, unless that was
overwritten, and a delayed answer keeps its asker (`DelayedForAsker`). For the ring,
what waits is an interval modulo its length, and the lemmas on it (`WaitingDrop`, `WaitingGrow`) hold for a
ring of one slot too.

### ChnRoute

`SearchInv`. A lower bound that has moved is at a net that begins at or before the address, an
upper bound that has moved at one that begins behind it. When the loop ends the bounds are
neighbours; since nets are disjoint and sorted, no net but the lower one can cover the
address, or, where the upper bound has not moved, the last one. That the sorted list has a net at every
index rests on counting ranks (`EachRank`).

### RouteTable

`TableInv`. Where a packet goes depends on the set of routes only, not on their
order, as long as the longest routes that match it lead the same way: two routes
of one length that match an address have the same destination. So the invariant bounds the
set from both sides. From above, whatever fails, the table has nothing but the user's own
routes, the one to the server, those of the lines and the halves (`Allowed`). From below,
the user's own routes are always there, and the others that have been asked for are if no call was
refused and there were descriptors enough: two for the server (`Some`), one per line and three for
lines and halves (`Enough`), two per line and five for the deletions (`Plenty`); this is `Present`. `Fed` says
how many are left at each place in the code, so that with `Enough` or `Plenty` no call fails for want of one.
A line without a slash repeats the row before it, which is in the table already, or was
refused because of its mask, or, when lines are deleted, is gone already.
`OwnRoutes` says what `Init` says of the user's own table.

### DnsMessage

`MessageInv`. A walk that `name_skip` makes is a sequence of jumps that ends (`WalkProp`), and
it ends where a name ends by the definition of one (`NameProp`): from the cuts of a name its walk is
followed, and from a walk its places are the cuts. `skiprr` then goes over records
(`RecordProp`), and the end of the first `k` records of a message is unique (`EndsProp`). So a
message is taken exactly when that end is the end of the message (`Whole`). For `parserr` the invariant
says that the pointer of the handle is where the record with its number begins (`HandleAt`), also after
a call that failed or went back, and that the last call went over one record (`CallAt`).
What is on the way to record `k + n` from record `k` is what `skiprr` counts (`SkippedOn`).

## What is only model-checked

* `EverySettled`, `DeliveredUnlessDropped`, `ForeignAnswerReachesClient`,
  `SearchEnds`, `TokenArrives`, `ServerClosesToo`, `AcceptEnds`, `StopEnds`, `EveryPacked`,
  `SignalEnds`: liveness under fairness is out of
  the prover's reach. Every safety property of a run that passes is proved.

## What is not modelled

* Windows and macOS: other system calls for the same steps.
* Reading and writing the tunnel device, packet header overlays, the inside of
  libsodium and libresolv: input and output, or no state.
* The configuration file: copies between a record and JSON.
* The TCP engine, which is not built, and logging.
* The retransmission timeout `set_rto` computes, and the pace of sending
  (`sleeper`): times are free in every model.
* Ring slots of `PackageQueueMap`, `PackageMap`, `IdSet` and `AckQueue` that are used a second time:
  ids stay below the capacity. The ring with a shared snapshot is in `Segments`.
* Data races inside `std::map` (`Sessions`), and when the detached threads of a deleted
  socket have really ended.
* Commands of `Daemon` at the same time, a pid file that cannot be written, and running in
  the foreground.
* The reference that every timeout takes and nothing gives back (`NetStruct.cpp:145`): such a
  package stays allocated until its slot is used again.
* Lines of a route file without a length, and what `buf` holds beyond a line
  (`chinadns.c:499`, `RouteTable.cpp:621`). A route file that is named and empty is in
  `RouteTable` as one that is not named; no line of it is added or deleted either way.
* Descriptors that other parts of the process take or free between `set_chnroute` and the end:
  in `RouteTable` `limit` is what the route calls and the route file have for themselves.
* Descriptor numbers: two calls of `stop` close the tunnel's twice (`SharpTunnel.cpp:329`).
* A daemon's parent that gives up after five seconds (`DaemonRuntime.cpp:106`).

## Plan

1. Done: the protocol with its proofs, a model of every part that keeps state
   (the modules above), and proofs of the safety of every part that threads,
   processes or datagrams share.
2. Done: proofs of every safety property that the runs check.
