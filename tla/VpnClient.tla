----------------------------- MODULE VpnClient ------------------------------
(***************************************************************************)
(* The life of a client process, and what it does to its host: SharpVpn's   *)
(* run and stop, the signal handler of main, the tunnel device, the routing *)
(* table and /etc/resolv.conf.                                              *)
(*                                                                         *)
(* run goes through its start-up in the main thread and then waits for the  *)
(* tunnel thread.  stop is called by the signal handler, which interrupts   *)
(* the main thread wherever it is, and by func_socket, a detached thread,   *)
(* when the connection is gone.  When run returns, main returns: the process *)
(* is gone with all its threads, and the tunnel device with its routes.     *)
(*                                                                         *)
(* What is abstracted.  The routing table is the set of kinds of routes the *)
(* process adds: "server" (the host route to the server through the old     *)
(* gateway), "china" (those of the route file), "half" (the two halves of   *)
(* the address space, through the tunnel); "zero" is the host route added   *)
(* when the server is given by name, which inet_pton reads as 0.0.0.0.      *)
(* resolv.conf has its own contents or those of SharpVPN.                   *)
(*                                                                         *)
(* run and stop look at no result of a route call.  One fails when the      *)
(* kernel refuses the route, or for want of a socket: add_route_row and     *)
(* del_route_row never close theirs, so a long route file uses up the       *)
(* process's descriptors (RouteTable counts them).  The first call of       *)
(* set_chnroute still has one.                                              *)
(***************************************************************************)
EXTENDS Integers

CONSTANT MaxRuns  \* bound: how often the program is started

ASSUME MaxRunsAssumption == MaxRuns \in Nat \ {0}

Stoppers == {"handler", "func"}

VARIABLES
    conf,           \* the options: chinadns, a route file, a server given by name
    runs,           \* how often the program has been started
    main,           \* where the main thread is
    stop,           \* where a call of stop is
    signalled,      \* a signal has come
    disturbed,      \* history: one has come during start-up, the server has closed, or
                    \* resolv.conf could not be put back
    failures,       \* history: why route calls have failed, of this process or an earlier one
    running,        \* SharpVpn::running
    vpn_status,     \* "other" or "Connected"
    worker_running, \* the socket's threads run
    tun,            \* the tunnel device: "open", "up" with an address, "closed"
    func,           \* func_socket: "none", "run", "done"
    tunnel_thread,  \* the same for the tunnel thread, which may be in "read"
    packet,         \* the ping of stop has gone into the device
    routes,         \* the routes the program has added to the table
    modified,       \* RouteTable::modified
    resolv,         \* /etc/resolv.conf: "own" or "SharpVPN"
    return_s,       \* what chinadns will put back
    dns_running     \* Chinadns::running

Reasons == {"kernel", "descriptors"}

procVars == <<running, vpn_status, worker_running, func, tunnel_thread, packet, modified, return_s,
              dns_running>>
vars == <<conf, runs, main, stop, signalled, disturbed, failures, procVars, tun, routes, resolv>>

\* main up to signal(): init has opened the tunnel.  running has no value yet.
Init ==
    /\ conf \in [dns : BOOLEAN, file : BOOLEAN, named : BOOLEAN]
    /\ runs = 1
    /\ main = "start"
    /\ stop = [s \in Stoppers |-> "idle"]
    /\ signalled = FALSE
    /\ disturbed = FALSE
    /\ failures = {}
    /\ running \in BOOLEAN
    /\ vpn_status = "other"
    /\ worker_running = FALSE
    /\ tun = "open"
    /\ func = "none"
    /\ tunnel_thread = "none"
    /\ packet = FALSE
    /\ routes = {}
    /\ modified = FALSE
    /\ resolv = "own"
    /\ return_s = "own"
    /\ dns_running = FALSE

-----------------------------------------------------------------------------
(***************************************************************************)
(* The main thread.  It stands still while the signal handler runs in it.   *)
(***************************************************************************)
MainCall(from, to) ==
    /\ main = from
    /\ stop["handler"] = "idle"
    /\ main' = to
    /\ UNCHANGED <<conf, runs, stop, signalled, disturbed>>

Main(from, to) == MainCall(from, to) /\ UNCHANGED failures

StartRun ==
    /\ Main("start", "connect")
    /\ running' = TRUE
    /\ UNCHANGED <<vpn_status, worker_running, func, tunnel_thread, packet, modified, return_s, dns_running,
                   tun, routes, resolv>>

\* connect_addr succeeds; the token is sent.
Connected ==
    /\ Main("connect", "dhcp")
    /\ tun # "closed"  \* otherwise stop has run in the handler, and has closed the socket too
    /\ vpn_status' = "Connected"
    /\ worker_running' = TRUE
    /\ UNCHANGED <<running, func, tunnel_thread, packet, modified, return_s, dns_running, tun, routes, resolv>>

\* recv_package returns the address, or -1, which run does not look at; nor
\* does it look at what set_ip returns, which brings the device up last.
SetIp ==
    /\ Main("dhcp", "dns")
    /\ \/ UNCHANGED tun
       \/ tun = "open" /\ tun' = "up"
    /\ UNCHANGED <<procVars, routes, resolv>>

\* Mutant: resolv.conf is read after it has been written.
StartDnsLateRead ==
    /\ Main("dns", "chnroute")
    /\ dns_running' = conf.dns
    /\ return_s' = IF conf.dns THEN "SharpVPN" ELSE return_s
    /\ resolv' = IF conf.dns THEN "SharpVPN" ELSE resolv
    /\ UNCHANGED <<running, vpn_status, worker_running, func, tunnel_thread, packet, modified, tun, routes>>

\* Chinadns::start: keep resolv.conf and replace it.
StartDns ==
    /\ Main("dns", "chnroute")
    /\ dns_running' = conf.dns
    /\ return_s' = IF conf.dns THEN resolv ELSE return_s
    /\ resolv' = IF conf.dns THEN "SharpVPN" ELSE resolv
    /\ UNCHANGED <<running, vpn_status, worker_running, func, tunnel_thread, packet, modified, tun, routes>>

\* resolv.conf cannot be read, or not be written: start returns, and run does
\* not look at the result.  A file that is not there is one without contents.
StartDnsFails ==
    /\ Main("dns", "chnroute")
    /\ conf.dns
    /\ dns_running' = TRUE
    /\ return_s' = resolv
    /\ UNCHANGED <<running, vpn_status, worker_running, func, tunnel_thread, packet, modified, tun, routes, resolv>>

\* The route to the server, and those that set_chnroute is to add.
ServerRoute == IF conf.named THEN "zero" ELSE "server"
Wanted == {ServerRoute} \union (IF conf.file THEN {"china"} ELSE {})

\* Mutant: without a route file nothing is done, as in delete_chnroute.
SetChnrouteFileOnly ==
    /\ Main("chnroute", "default")
    /\ routes' = IF conf.file THEN routes \union Wanted ELSE routes
    /\ modified' = TRUE
    /\ UNCHANGED <<running, vpn_status, worker_running, func, tunnel_thread, packet, return_s, dns_running,
                   tun, resolv>>

\* set_chnroute: the host route first, then those of the file, all through
\* the gateway of the default route.
SetChnroute ==
    /\ Main("chnroute", "default")
    /\ routes' = routes \union Wanted
    /\ modified' = TRUE
    /\ UNCHANGED <<running, vpn_status, worker_running, func, tunnel_thread, packet, return_s, dns_running,
                   tun, resolv>>

\* Some of the routes are not added: refused by the kernel (a default route
\* without a gateway, for one), or the file is not there; or the lines of the
\* file, which come after the server's route, have used up the descriptors.
SetChnrouteFails ==
    /\ MainCall("chnroute", "default")
    /\ \E got \in SUBSET Wanted, why \in Reasons :
        /\ why = "descriptors" => conf.file /\ ServerRoute \in got
        /\ routes' = routes \union got
        /\ failures' = failures \union {why}
    /\ modified' = TRUE
    /\ UNCHANGED <<running, vpn_status, worker_running, func, tunnel_thread, packet, return_s, dns_running,
                   tun, resolv>>

\* set_default_as_tunnel, which fails when the device is not up, and the threads.
SetDefault ==
    /\ Main("default", "join")
    /\ routes' = IF tun = "up" THEN routes \union {"half"} ELSE routes
    /\ func' = "run"
    /\ tunnel_thread' = "run"
    /\ UNCHANGED <<running, vpn_status, worker_running, packet, modified, return_s, dns_running, tun, resolv>>

\* The device is up, and not both halves are added.
SetDefaultFails ==
    /\ MainCall("default", "join")
    /\ tun = "up"
    /\ routes' \in {routes, routes \union {"half"}}
    /\ \E why \in Reasons : (why = "descriptors" => conf.file) /\ failures' = failures \union {why}
    /\ func' = "run"
    /\ tunnel_thread' = "run"
    /\ UNCHANGED <<running, vpn_status, worker_running, packet, modified, return_s, dns_running, tun, resolv>>

\* run returns, after the join or when it could not connect, and with it main.
Exit ==
    /\ \/ main = "join" /\ tunnel_thread = "done"
       \/ main = "connect"
    /\ stop["handler"] = "idle"
    /\ main' = "gone"
    /\ stop' = [s \in Stoppers |-> "idle"]
    /\ worker_running' = FALSE
    /\ func' = "none" /\ tunnel_thread' = "none" /\ packet' = FALSE
    /\ tun' = "closed"
    /\ routes' = routes \ {"half"}
    /\ UNCHANGED <<conf, runs, signalled, disturbed, failures, running, vpn_status, modified, resolv,
                   return_s, dns_running>>

\* The program is started again on the same host.
Restart ==
    /\ main = "gone"
    /\ runs < MaxRuns
    /\ runs' = runs + 1
    /\ main' = "start"
    /\ signalled' = FALSE
    /\ running' \in BOOLEAN
    /\ vpn_status' = "other"
    /\ tun' = "open"
    /\ modified' = FALSE /\ return_s' = "own" /\ dns_running' = FALSE
    /\ UNCHANGED <<conf, stop, disturbed, failures, worker_running, func, tunnel_thread, packet, routes,
                   resolv>>

(***************************************************************************)
(* The other threads                                                        *)
(***************************************************************************)

\* The tunnel thread tests running, and calls read.
TunnelTests ==
    /\ tunnel_thread = "run"
    /\ tunnel_thread' = IF running THEN "read" ELSE "done"
    /\ UNCHANGED <<conf, runs, main, stop, signalled, disturbed, failures, running, vpn_status,
                   worker_running, func, packet, modified, return_s, dns_running, tun, routes, resolv>>

\* read returns with a packet, or at once if the device is closed when it is
\* called.  No packet comes to a device that is not up, and closing it in
\* another thread does not wake a reader that waits.
TunnelReads ==
    /\ tunnel_thread = "read"
    /\ tun # "open" \/ packet
    /\ tunnel_thread' = "run"
    /\ packet' = FALSE
    /\ UNCHANGED <<conf, runs, main, stop, signalled, disturbed, failures, running, vpn_status,
                   worker_running, func, modified, return_s, dns_running, tun, routes, resolv>>

ServerClosesIt ==
    /\ worker_running
    /\ worker_running' = FALSE
    /\ disturbed' = TRUE
    /\ UNCHANGED <<conf, runs, main, stop, signalled, failures, running, vpn_status, func, tunnel_thread,
                   packet, modified, return_s, dns_running, tun, routes, resolv>>

\* func_socket leaves its loop and calls stop.
FuncEnds ==
    /\ func = "run"
    /\ ~worker_running
    /\ func' = "done"
    /\ stop' = [stop EXCEPT !["func"] = "test"]
    /\ UNCHANGED <<conf, runs, main, signalled, disturbed, failures, running, vpn_status, worker_running,
                   tunnel_thread, packet, modified, return_s, dns_running, tun, routes, resolv>>

\* SIGINT or SIGTERM, handled by the main thread.
Signal ==
    /\ main # "gone"
    /\ ~signalled
    /\ signalled' = TRUE
    /\ disturbed' = (disturbed \/ main # "join")
    /\ stop' = [stop EXCEPT !["handler"] = "test"]
    /\ UNCHANGED <<conf, runs, main, failures, procVars, tun, routes, resolv>>

(***************************************************************************)
(* SharpVpn::stop, one step for every call it makes                         *)
(***************************************************************************)
StopCall(s, from, to) ==
    /\ stop[s] = from
    /\ stop' = [stop EXCEPT ![s] = to]
    /\ UNCHANGED <<conf, runs, main, signalled, vpn_status, func, tunnel_thread, return_s>>

Stop(s, from, to) == StopCall(s, from, to) /\ UNCHANGED <<disturbed, failures>>

StopTest(s) ==
    /\ Stop(s, "test", IF running THEN "set" ELSE "idle")
    /\ UNCHANGED <<running, worker_running, packet, modified, dns_running, tun, routes, resolv>>

\* Mutant: running is left as it is.
StopSetNothing(s) ==
    /\ Stop(s, "set", "shutdown")
    /\ UNCHANGED <<running, worker_running, packet, modified, dns_running, tun, routes, resolv>>

\* The ping, and half a second.  It is sent into the device if the halves of
\* the address space are; when routes have failed it may not, and without
\* descriptors no shell starts to send it.
StopSet(s) ==
    /\ Stop(s, "set", "shutdown")
    /\ running' = FALSE
    /\ packet' \in BOOLEAN
    /\ packet' => packet \/ tun = "up"
    /\ packet \/ ("half" \in routes /\ failures = {}) => packet'
    /\ UNCHANGED <<worker_running, modified, dns_running, tun, routes, resolv>>

\* The device goes, and the routes through it.
StopTunnel(s) ==
    /\ Stop(s, "shutdown", "routes")
    /\ tun' = "closed"
    /\ routes' = routes \ {"half"}
    /\ UNCHANGED <<running, worker_running, packet, modified, dns_running, resolv>>

\* delete_chnroute.  Without a route file there is nothing left to delete but
\* the host route, which is never deleted.
StopRoutes(s) ==
    /\ Stop(s, "routes", "dns")
    /\ IF vpn_status = "Connected" /\ modified /\ conf.file
       THEN routes' = routes \ {"china"} /\ modified' = FALSE
       ELSE UNCHANGED <<routes, modified>>
    /\ UNCHANGED <<running, worker_running, packet, dns_running, tun, resolv>>

\* The file cannot be opened, and delete_chnroute returns -1 with modified as
\* it was; or some of its routes are not deleted.
StopRoutesFails(s) ==
    /\ StopCall(s, "routes", "dns")
    /\ vpn_status = "Connected" /\ modified /\ conf.file
    /\ modified' \in BOOLEAN
    /\ \E why \in Reasons : failures' = failures \union {why}
    /\ UNCHANGED <<disturbed, running, worker_running, packet, dns_running, tun, routes, resolv>>

\* Chinadns::stop
StopDns(s) ==
    /\ Stop(s, "dns", "close")
    /\ resolv' = IF dns_running THEN return_s ELSE resolv
    /\ dns_running' = FALSE
    /\ UNCHANGED <<running, worker_running, packet, modified, tun, routes>>

\* resolv.conf cannot be written any more.
StopDnsFails(s) ==
    /\ StopCall(s, "dns", "close")
    /\ dns_running
    /\ dns_running' = FALSE
    /\ disturbed' = TRUE
    /\ UNCHANGED <<failures, running, worker_running, packet, modified, tun, routes, resolv>>

StopSocket(s) ==
    /\ Stop(s, "close", "idle")
    /\ worker_running' = FALSE
    /\ UNCHANGED <<running, packet, modified, dns_running, tun, routes, resolv>>

StopStep(s) ==
    \/ StopTest(s) \/ StopSet(s) \/ StopTunnel(s) \/ StopRoutes(s) \/ StopRoutesFails(s)
    \/ StopDns(s) \/ StopDnsFails(s) \/ StopSocket(s)

MainStep ==
    \/ StartRun \/ Connected \/ SetIp \/ StartDns \/ StartDnsFails
    \/ SetChnroute \/ SetChnrouteFails \/ SetDefault \/ SetDefaultFails \/ Exit

Next ==
    \/ MainStep \/ Restart
    \/ TunnelTests \/ TunnelReads \/ ServerClosesIt \/ FuncEnds \/ Signal
    \/ \E s \in Stoppers : StopStep(s)

\* read returns the packet that waits.
TunnelWakes == packet /\ TunnelReads

\* Threads run on, and a packet that is in the device is read; no other has to
\* come, and no signal.
Fairness ==
    /\ WF_vars(MainStep) /\ WF_vars(TunnelTests) /\ WF_vars(TunnelWakes) /\ WF_vars(FuncEnds)
    /\ \A s \in Stoppers : WF_vars(StopStep(s))

Spec == Init /\ [][Next]_vars
FairSpec == Spec /\ Fairness

-----------------------------------------------------------------------------
Route == {"server", "china", "half", "zero"}

TypeOK ==
    /\ conf \in [dns : BOOLEAN, file : BOOLEAN, named : BOOLEAN]
    /\ runs \in 1..MaxRuns
    /\ main \in {"start", "connect", "dhcp", "dns", "chnroute", "default", "join", "gone"}
    /\ stop \in [Stoppers -> {"idle", "test", "set", "shutdown", "routes", "dns", "close"}]
    /\ vpn_status \in {"other", "Connected"}
    /\ func \in {"none", "run", "done"}
    /\ tunnel_thread \in {"none", "run", "read", "done"}
    /\ failures \subseteq Reasons
    /\ {signalled, disturbed, running, worker_running, packet, modified, dns_running} \subseteq BOOLEAN
    /\ tun \in {"open", "up", "closed"}
    /\ routes \subseteq Route
    /\ {resolv, return_s} \subseteq {"own", "SharpVPN"}

\* The packets of the tunnel do not go into the tunnel: whenever the halves of
\* the address space go through it, the server has a route of its own, wherever
\* a signal or the server interrupts, and also when the route file has used up
\* the descriptors.  (The server is given by its address, and the kernel has
\* never refused a route.)
ServerOutsideTunnel ==
    "half" \in routes /\ ~conf.named /\ "kernel" \notin failures => "server" \in routes

\* When the process is gone, resolv.conf is what it was, and no route of the
\* route file is left unless a route call has failed, however often it is
\* started again, if the only thing that interrupts it is a signal while it
\* waits for its threads, and resolv.conf can be written.
CleanExit ==
    main = "gone" /\ ~disturbed => resolv = "own" /\ ("china" \in routes => failures # {})

\* A signal that comes when run waits for its threads and the halves of the
\* address space go through the tunnel ends the process, whatever the server
\* does meanwhile.
SignalEnds == signalled /\ ~disturbed /\ "half" \in routes /\ failures = {} ~> main = "gone"
=============================================================================
