----------------------------- MODULE HostProofs -----------------------------
(***************************************************************************)
(* Proofs about the processes on a client's host: what one process leaves   *)
(* behind (VpnClient), and which daemon the pid file names (Daemon).        *)
(***************************************************************************)
EXTENDS MCHost, TLAPS

(***************************************************************************)
(* VpnClient: types                                                         *)
(***************************************************************************)
LEMMA ClientType == TypeOK /\ [Next]_vars => TypeOK'
<1> SUFFICES ASSUME TypeOK, [Next]_vars PROVE TypeOK'
  OBVIOUS
<1> USE MaxRunsAssumption DEF TypeOK, procVars, Main, MainCall, Stoppers, Route, Reasons
<1>1. CASE StartRun BY <1>1 DEF StartRun
<1>2. CASE Connected BY <1>2 DEF Connected
<1>3. CASE SetIp BY <1>3 DEF SetIp
<1>4. CASE StartDns BY <1>4 DEF StartDns
<1>5. CASE StartDnsFails BY <1>5 DEF StartDnsFails
<1>6. CASE SetChnroute BY <1>6 DEF SetChnroute, Wanted, ServerRoute
<1>13. CASE SetChnrouteFails
  <2>1. Wanted \subseteq Route
    BY DEF Wanted, ServerRoute
  <2>2. routes' \subseteq Route /\ failures' \subseteq Reasons
    BY <1>13, <2>1 DEF SetChnrouteFails
  <2> QED BY <1>13, <2>2 DEF SetChnrouteFails
<1>7. CASE SetDefault BY <1>7 DEF SetDefault
<1>14. CASE SetDefaultFails BY <1>14 DEF SetDefaultFails
<1>8. CASE Exit BY <1>8 DEF Exit
<1>9. CASE Restart
  <2>1. {signalled, disturbed, running, worker_running, packet, modified, dns_running}' \subseteq BOOLEAN
    BY <1>9, Zenon DEF Restart
  <2> QED BY <1>9, <2>1 DEF Restart
<1>10. CASE TunnelTests \/ TunnelReads \/ ServerClosesIt \/ FuncEnds \/ Signal
  <2>1. {signalled, disturbed, running, worker_running, packet, modified, dns_running}' \subseteq BOOLEAN
    BY <1>10, Zenon DEF TunnelTests, TunnelReads, ServerClosesIt, FuncEnds, Signal
  <2>2. CASE TunnelTests BY <2>1, <2>2 DEF TunnelTests
  <2>3. CASE TunnelReads BY <2>1, <2>3 DEF TunnelReads
  <2>4. CASE ServerClosesIt BY <2>1, <2>4 DEF ServerClosesIt
  <2>5. CASE FuncEnds BY <2>1, <2>5 DEF FuncEnds
  <2>6. CASE Signal BY <2>1, <2>6 DEF Signal
  <2> QED BY <1>10, <2>2, <2>3, <2>4, <2>5, <2>6
<1>11. ASSUME NEW s \in Stoppers, StopStep(s) PROVE TypeOK'
  <2> USE DEF Stop, StopCall
  <2>0. {signalled, disturbed, running, worker_running, packet, modified, dns_running}' \subseteq BOOLEAN
    <3>1. CASE StopTest(s) BY <3>1, Zenon DEF StopTest
    <3>2. CASE StopSet(s) BY <3>2, Zenon DEF StopSet
    <3>3. CASE StopTunnel(s) BY <3>3, Zenon DEF StopTunnel
    <3>4. CASE StopRoutes(s) BY <3>4, Zenon DEF StopRoutes
    <3>5. CASE StopRoutesFails(s) BY <3>5, Zenon DEF StopRoutesFails
    <3>6. CASE StopDns(s) BY <3>6, Zenon DEF StopDns
    <3>7. CASE StopDnsFails(s) BY <3>7, Zenon DEF StopDnsFails
    <3>8. CASE StopSocket(s) BY <3>8, Zenon DEF StopSocket
    <3> QED BY <1>11, <3>1, <3>2, <3>3, <3>4, <3>5, <3>6, <3>7, <3>8 DEF StopStep
  <2>1. \E x \in {"idle", "set", "shutdown", "routes", "dns", "close"} : stop' = [stop EXCEPT ![s] = x]
    BY <1>11 DEF StopStep, StopTest, StopSet, StopTunnel, StopRoutes, StopRoutesFails, StopDns,
                 StopDnsFails, StopSocket
  <2>2. stop' \in [Stoppers -> {"idle", "test", "set", "shutdown", "routes", "dns", "close"}]
    BY <2>1
  <2>3. UNCHANGED <<conf, runs, main, vpn_status, func, tunnel_thread, return_s>>
    BY <1>11 DEF StopStep, StopTest, StopSet, StopTunnel, StopRoutes, StopRoutesFails, StopDns,
                 StopDnsFails, StopSocket
  <2>4. /\ routes' \subseteq Route
        /\ failures' \subseteq Reasons
        /\ tun' \in {"open", "up", "closed"}
        /\ resolv' \in {"own", "SharpVPN"}
    BY <1>11 DEF StopStep, StopTest, StopSet, StopTunnel, StopRoutes, StopRoutesFails, StopDns,
                 StopDnsFails, StopSocket
  <2> QED BY <2>0, <2>2, <2>3, <2>4
<1>12. CASE UNCHANGED vars BY <1>12 DEF vars
<1> QED
  BY <1>1, <1>2, <1>3, <1>4, <1>5, <1>6, <1>7, <1>8, <1>9, <1>10, <1>11, <1>12, <1>13, <1>14
  DEF Next, MainStep

\* Every variable of a client process keeps its type, from one start of the
\* program to the next (SharpVpn::run and stop).
THEOREM ClientTypeCorrect == Spec => []TypeOK
<1>1. Init => TypeOK
  <2>1. Init => {signalled, disturbed, running, worker_running, packet, modified, dns_running} \subseteq BOOLEAN
    BY Zenon DEF Init
  <2> QED BY <2>1, MaxRunsAssumption DEF Init, TypeOK, Stoppers, Route
<1> QED BY <1>1, ClientType, PTL DEF Spec

(***************************************************************************)
(* VpnClient: the server's route                                            *)
(***************************************************************************)

\* When the halves of the address space are about to go through the tunnel,
\* the route to the server is there already unless the kernel has refused it,
\* and nothing ever removes it.
RouteInv ==
    /\ main = "default" /\ ~conf.named /\ "kernel" \notin failures => "server" \in routes
    /\ ServerOutsideTunnel

LEMMA RouteStep == RouteInv /\ [Next]_vars => RouteInv'
<1> SUFFICES ASSUME RouteInv, [Next]_vars PROVE RouteInv'
  OBVIOUS
<1> USE DEF RouteInv, ServerOutsideTunnel, Main, MainCall
<1>1. CASE MainStep
  <2>1. CASE SetChnroute BY <2>1 DEF SetChnroute, Wanted, ServerRoute
  <2>2. CASE SetChnrouteFails
    <3>1. PICK got \in SUBSET Wanted, why \in Reasons :
            /\ why = "descriptors" => conf.file /\ ServerRoute \in got
            /\ routes' = routes \union got
            /\ failures' = failures \union {why}
      BY <2>2 DEF SetChnrouteFails
    <3>2. main' = "default" /\ conf' = conf
      BY <2>2 DEF SetChnrouteFails
    <3>3. CASE why = "kernel"
      BY <3>1, <3>2, <3>3
    <3>4. CASE why = "descriptors"
      BY <3>1, <3>2, <3>4 DEF ServerRoute
    <3> QED BY <3>1, <3>3, <3>4 DEF Reasons
  <2>3. CASE SetDefault BY <2>3 DEF SetDefault
  <2>4. CASE SetDefaultFails BY <2>4 DEF SetDefaultFails
  <2>5. CASE StartRun \/ Connected \/ SetIp \/ StartDns \/ StartDnsFails \/ Exit
    BY <2>5 DEF StartRun, Connected, SetIp, StartDns, StartDnsFails, Exit, procVars
  <2> QED BY <1>1, <2>1, <2>2, <2>3, <2>4, <2>5 DEF MainStep
<1>2. CASE Restart \/ TunnelTests \/ TunnelReads \/ ServerClosesIt \/ FuncEnds \/ Signal
  BY <1>2 DEF Restart, TunnelTests, TunnelReads, ServerClosesIt, FuncEnds, Signal
<1>3. ASSUME NEW s \in Stoppers, StopStep(s) PROVE RouteInv'
  BY <1>3 DEF StopStep, StopCall, Stop, StopTest, StopSet, StopTunnel, StopRoutes, StopRoutesFails,
              StopDns, StopDnsFails, StopSocket
<1>4. CASE UNCHANGED vars BY <1>4 DEF vars
<1> QED BY <1>1, <1>2, <1>3, <1>4 DEF Next

\* Whenever the halves of the address space go through the tunnel, a server
\* given by its address has a route of its own, however often the program is
\* started and wherever stop interrupts run, also when descriptors run out; only
\* a kernel that refuses routes can prevent it (set_chnroute and
\* set_default_as_tunnel, whose results run does not look at).
THEOREM ServerReachable == Spec => []ServerOutsideTunnel
<1>1. Init => RouteInv
  BY DEF Init, RouteInv, ServerOutsideTunnel
<1>2. RouteInv => ServerOutsideTunnel
  BY DEF RouteInv
<1> QED BY <1>1, <1>2, RouteStep, PTL DEF Spec

(***************************************************************************)
(* VpnClient: what an undisturbed process leaves behind                     *)
(***************************************************************************)
Starting == {"start", "connect", "dhcp", "dns", "chnroute", "default"}

\* What there is to undo is known to whoever undoes it.  (Of the routes of the
\* file nothing is said once a route call has failed.)
Undoable ==
    /\ return_s = "own"
    /\ resolv = "own" \/ dns_running
    /\ "china" \in routes /\ failures = {} => conf.file /\ modified /\ vpn_status = "Connected"

\* Until run waits for its threads nothing has been stopped, and there is
\* nothing to undo before the step that does it.
StartUp ==
    /\ main \in Starting => ~signalled /\ func = "none" /\ tunnel_thread = "none" /\ stop["func"] = "idle"
    /\ ~signalled => stop["handler"] = "idle"
    /\ main \in Starting \ {"chnroute", "default"} => resolv = "own"
    /\ main \in Starting \ {"default"} /\ failures = {} => "china" \notin routes
    /\ main \in {"dhcp", "dns", "chnroute", "default", "join"} => vpn_status = "Connected"

\* run waits: only the signal handler ends anything, in the order of stop, and
\* a second call of stop, by func_socket, comes when it is done.
Waiting ==
    main = "join" =>
        /\ (~signalled \/ stop["handler"] \in {"test", "set"}) <=> running
        /\ ~worker_running => signalled /\ stop["handler"] = "idle"
        /\ stop["func"] \in {"idle", "test"}
        /\ stop["func"] = "test" => ~worker_running
        /\ tunnel_thread = "done" => ~running
        /\ signalled /\ stop["handler"] \in {"dns", "close", "idle"} /\ failures = {} =>
            "china" \notin routes
        /\ signalled /\ stop["handler"] \in {"close", "idle"} => resolv = "own"

\* The threads of the socket run from connect_addr on.
UpSince ==
    /\ main \in Starting \ {"start"} => running
    /\ main \in Starting \ {"start", "connect"} => worker_running
    /\ main = "gone" => stop = [s \in Stoppers |-> "idle"]
    /\ main = "gone" => func = "none" /\ tunnel_thread = "none"

CleanInv == ~disturbed => Undoable /\ StartUp /\ Waiting /\ UpSince /\ CleanExit

LEMMA CleanStep == TypeOK /\ CleanInv /\ [Next]_vars => CleanInv'
<1> SUFFICES ASSUME TypeOK, CleanInv, [Next]_vars, ~disturbed'
             PROVE  (Undoable /\ StartUp /\ Waiting /\ UpSince /\ CleanExit)'
  BY DEF CleanInv
<1>1. ~disturbed
  BY DEF Next, vars, MainStep, Main, MainCall, StartRun, Connected, SetIp, StartDns, StartDnsFails,
         SetChnroute, SetChnrouteFails, SetDefault, SetDefaultFails, Exit, Restart, TunnelTests,
         TunnelReads, ServerClosesIt, FuncEnds, Signal, StopStep, Stop, StopCall, StopTest, StopSet,
         StopTunnel, StopRoutes, StopRoutesFails, StopDns, StopDnsFails, StopSocket
<1>2. Undoable /\ StartUp /\ Waiting /\ UpSince /\ CleanExit
  BY <1>1 DEF CleanInv
<1> USE <1>2 DEF TypeOK, Undoable, StartUp, Waiting, UpSince, CleanExit, Starting, Stoppers,
              Main, MainCall
<1>3. CASE StartRun BY <1>3 DEF StartRun
<1>4. CASE Connected BY <1>4 DEF Connected
<1>5. CASE SetIp BY <1>5 DEF SetIp, procVars
<1>6. CASE StartDns BY <1>6 DEF StartDns
<1>7. CASE StartDnsFails BY <1>7 DEF StartDnsFails
<1>8. CASE SetChnroute BY <1>8 DEF SetChnroute, Wanted, ServerRoute
<1>18. CASE SetChnrouteFails
  <2>1. failures' # {}
    BY <1>18 DEF SetChnrouteFails
  <2> QED BY <1>18, <2>1 DEF SetChnrouteFails
<1>9. CASE SetDefault BY <1>9 DEF SetDefault
<1>19. CASE SetDefaultFails
  <2>1. failures' # {}
    BY <1>19 DEF SetDefaultFails
  <2> QED BY <1>19, <2>1 DEF SetDefaultFails
<1>10. CASE Exit BY <1>10 DEF Exit
<1>11. CASE Restart BY <1>11 DEF Restart
<1>12. CASE TunnelTests \/ TunnelReads BY <1>12 DEF TunnelTests, TunnelReads
<1>13. CASE ServerClosesIt BY <1>13 DEF ServerClosesIt
<1>14. CASE FuncEnds BY <1>14 DEF FuncEnds
<1>15. CASE Signal BY <1>15 DEF Signal, procVars
<1>16. ASSUME NEW s \in Stoppers, StopStep(s)
       PROVE  (Undoable /\ StartUp /\ Waiting /\ UpSince /\ CleanExit)'
  <2>1. stop[s] # "idle"
    BY <1>16 DEF StopStep, StopCall, Stop, StopTest, StopSet, StopTunnel, StopRoutes, StopRoutesFails,
                 StopDns, StopDnsFails, StopSocket
  <2>2. main = "join"
    BY <2>1
  <2>3. CASE StopTest(s) BY <2>2, <2>3 DEF StopTest, Stop, StopCall
  <2>4. CASE StopSet(s) BY <2>2, <2>4 DEF StopSet, Stop, StopCall
  <2>5. CASE StopTunnel(s) BY <2>2, <2>5 DEF StopTunnel, Stop, StopCall
  <2>6. CASE StopRoutes(s) BY <2>2, <2>6 DEF StopRoutes, Stop, StopCall
  <2>10. CASE StopRoutesFails(s)
    <3>1. failures' # {}
      BY <2>10 DEF StopRoutesFails
    <3> QED BY <2>2, <2>10, <3>1 DEF StopRoutesFails, StopCall
  <2>7. CASE StopDns(s) BY <2>2, <2>7 DEF StopDns, Stop, StopCall
  <2>8. CASE StopDnsFails(s) BY <2>8 DEF StopDnsFails
  <2>9. CASE StopSocket(s) BY <2>2, <2>9 DEF StopSocket, Stop, StopCall
  <2> QED BY <1>16, <2>3, <2>4, <2>5, <2>6, <2>7, <2>8, <2>9, <2>10 DEF StopStep
<1>17. CASE UNCHANGED vars BY <1>17 DEF vars, procVars
<1> QED
  BY <1>3, <1>4, <1>5, <1>6, <1>7, <1>8, <1>9, <1>10, <1>11, <1>12, <1>13, <1>14, <1>15, <1>16,
     <1>17, <1>18, <1>19 DEF Next, MainStep

\* A process that only a signal stops, while run waits for its threads, puts
\* resolv.conf back and removes the routes of the route file before it is gone,
\* these unless a route call has failed, for every order of its threads and every
\* number of starts (stop, which func_socket may call a second time;
\* Chinadns::stop, delete_chnroute).
THEOREM ExitIsClean == Spec => []CleanExit
<1>1. Init => CleanInv
  BY DEF Init, CleanInv, Undoable, StartUp, Waiting, UpSince, CleanExit, Starting, Stoppers
<1>2. CleanInv => CleanExit
  BY DEF CleanInv, CleanExit
<1> QED BY <1>1, <1>2, CleanStep, ClientTypeCorrect, PTL DEF Spec

(***************************************************************************)
(* Daemon, with one configuration                                           *)
(***************************************************************************)
Busy(i) == cmd[i].pc \notin {"new", "done"}

\* One command at a time; a daemon starts once, in its own command.
OneCommand ==
    /\ \A i, j \in D!Command : Busy(i) /\ Busy(j) => i = j
    /\ \A i \in D!Command :
        /\ cmd[i].pc \in {"new", "init", "stop", "wait", "fork"} => daemon[i] = "none"
        /\ cmd[i].pc = "sleep" => daemon[i] = "forked"

\* A daemon holds the device from before its fork until it is up at least.
HoldsDevice ==
    \A i \in D!Command, c \in Configs : daemon[i] = "forked" \/ cmd[i].pc = "fork" => device[c] = i

\* A daemon that holds the device is in the file once its command is done, and
\* a command that waits for a daemon while one holds the device waits for that
\* one.
InFile ==
    \A i, j \in D!Command, c \in Configs :
        /\ D!Alive(i) /\ device[c] = i /\ cmd[i].pc = "done" => pid_file = i
        /\ cmd[i].pc = "wait" /\ D!Alive(j) /\ device[c] = j => pid[i] = j

DaemonInv == D!TypeOK /\ OneCommand /\ HoldsDevice /\ InFile

LEMMA DaemonType == D!TypeOK /\ [D!Next]_(D!vars) => D!TypeOK'
<1> SUFFICES ASSUME D!TypeOK, [D!Next]_(D!vars) PROVE D!TypeOK'
  OBVIOUS
<1> USE NCommandsAssumption
    DEF D!TypeOK, D!Command, D!Kind, D!NoFile, D!Goto, D!AfterStop, D!Released, D!Alive
<1>1. ASSUME NEW i \in D!Command, D!Begin(i) PROVE D!TypeOK'
  <2>1. PICK k \in D!Kind, c \in Configs :
          cmd' = [cmd EXCEPT ![i] = [kind |-> k, conf |-> c, pc |-> IF k = "start" THEN "init" ELSE "stop"]]
    BY <1>1 DEF D!Begin
  <2> QED BY <1>1, <2>1 DEF D!Begin
<1>2. ASSUME NEW i \in D!Command, D!CommandStep(i) PROVE D!TypeOK'
  <2>1. CASE D!StopNothing(i) BY <2>1 DEF D!StopNothing
  <2>2. CASE D!StopKill(i)
    <3>1. pid_file \in D!Command
      BY <2>2 DEF D!StopKill
    <3>2. daemon' \in [D!Command -> {"none", "forked", "up", "stopping", "gone"}]
      <4>1. \E x \in {"gone", "stopping"} : daemon' = [daemon EXCEPT ![pid_file] = x]
        BY <2>2 DEF D!StopKill
      <4> QED BY <3>1, <4>1
    <3>3. device' \in [Configs -> D!Command \union {D!NoFile}]
      BY <2>2 DEF D!StopKill
    <3>4. pid' \in [D!Command -> D!Command \union {D!NoFile}]
      BY <2>2, <3>1 DEF D!StopKill
    <3>5. cmd' = [cmd EXCEPT ![i].pc = "wait"] /\ UNCHANGED pid_file
      BY <2>2 DEF D!StopKill
    <3> QED BY <3>2, <3>3, <3>4, <3>5
  <2>3. CASE D!StopGone(i) BY <2>3 DEF D!StopGone
  <2>4. CASE D!StopTimeout(i) BY <2>4 DEF D!StopTimeout
  <2>5. CASE D!OpenTunnel(i) BY <2>5 DEF D!OpenTunnel
  <2>6. CASE D!OpenTunnelFails(i) BY <2>6 DEF D!OpenTunnelFails
  <2>7. CASE D!Fork(i) BY <2>7 DEF D!Fork
  <2>8. CASE D!WritePidFile(i) BY <2>8 DEF D!WritePidFile
  <2> QED BY <1>2, <2>1, <2>2, <2>3, <2>4, <2>5, <2>6, <2>7, <2>8 DEF D!CommandStep
<1>3. ASSUME NEW i \in D!Command, D!Run(i) \/ D!ClosesTunnel(i) \/ D!Ends(i) PROVE D!TypeOK'
  BY <1>3 DEF D!Run, D!ClosesTunnel, D!Ends
<1>4. CASE UNCHANGED D!vars BY <1>4 DEF D!vars
<1> QED BY <1>1, <1>2, <1>3, <1>4 DEF D!Next

LEMMA DaemonStep ==
    ASSUME NEW c, Configs = {c}, DaemonInv, [D!Next]_(D!vars)
    PROVE  DaemonInv'
<1>1. D!TypeOK'
  BY DaemonType DEF DaemonInv
<1> USE NCommandsAssumption
    DEF DaemonInv, OneCommand, HoldsDevice, InFile, Busy, D!TypeOK, D!Command, D!Kind, D!NoFile,
        D!Goto, D!AfterStop, D!Released, D!Alive
<1>2. ASSUME NEW i \in D!Command, D!Begin(i) PROVE DaemonInv'
  <2>1. PICK k \in D!Kind, d \in Configs :
          cmd' = [cmd EXCEPT ![i] = [kind |-> k, conf |-> d, pc |-> IF k = "start" THEN "init" ELSE "stop"]]
    BY <1>2 DEF D!Begin
  <2> QED BY <1>1, <1>2, <2>1 DEF D!Begin, D!Quiet
<1>3. ASSUME NEW i \in D!Command, D!CommandStep(i) PROVE DaemonInv'
  <2>1. CASE D!StopNothing(i) BY <1>1, <2>1 DEF D!StopNothing
  <2>2. CASE D!StopKill(i)
    <3>1. pid_file \in D!Command /\ daemon[pid_file] \in {"forked", "up", "stopping"}
      BY <2>2 DEF D!StopKill
    <3>2. CASE daemon[pid_file] = "forked"
      BY <1>1, <2>2, <3>1, <3>2 DEF D!StopKill
    <3>3. CASE daemon[pid_file] # "forked"
      <4>1. /\ daemon' = [daemon EXCEPT ![pid_file] = "stopping"]
            /\ pid' = [pid EXCEPT ![i] = pid_file]
            /\ cmd' = [cmd EXCEPT ![i].pc = "wait"]
            /\ cmd[i].pc = "stop"
            /\ UNCHANGED <<pid_file, device>>
        BY <2>2, <3>3 DEF D!StopKill
      <4>2. OneCommand' /\ HoldsDevice'
        BY <3>1, <4>1
      <4>3. InFile'
        BY <3>1, <4>1
      <4> QED BY <1>1, <4>2, <4>3
    <3> QED BY <3>2, <3>3
  <2>3. CASE D!StopGone(i) BY <1>1, <2>3 DEF D!StopGone
  <2>4. CASE D!StopTimeout(i) BY <1>1, <2>4 DEF D!StopTimeout
  <2>5. CASE D!OpenTunnel(i) BY <1>1, <2>5 DEF D!OpenTunnel
  <2>6. CASE D!OpenTunnelFails(i) BY <1>1, <2>6 DEF D!OpenTunnelFails
  <2>7. CASE D!Fork(i) BY <1>1, <2>7 DEF D!Fork
  <2>8. CASE D!WritePidFile(i) BY <1>1, <2>8 DEF D!WritePidFile
  <2> QED BY <1>3, <2>1, <2>2, <2>3, <2>4, <2>5, <2>6, <2>7, <2>8 DEF D!CommandStep
<1>4. ASSUME NEW i \in D!Command, D!Run(i) PROVE DaemonInv'
  BY <1>1, <1>4 DEF D!Run
<1>5. ASSUME NEW i \in D!Command, D!Ends(i) PROVE DaemonInv'
  BY <1>1, <1>5 DEF D!Ends
<1>7. ASSUME NEW i \in D!Command, D!ClosesTunnel(i) PROVE DaemonInv'
  BY <1>1, <1>7 DEF D!ClosesTunnel
<1>6. CASE UNCHANGED D!vars BY <1>1, <1>6 DEF D!vars
<1> QED BY <1>2, <1>3, <1>4, <1>5, <1>6, <1>7 DEF D!Next

\* With one configuration, the daemon that holds the device between two commands
\* is the one the pid file names, for any number of commands, whatever crashes
\* and time-outs of stop have come before, and whichever daemons without the
\* device are not gone yet (DaemonRuntime, write_pid_file, SharpVpn::stop).
THEOREM DaemonKnown ==
    ASSUME NEW c, Configs = {c}
    PROVE  D!Spec => []DaemonInFile
<1>1. D!Init => DaemonInv
  BY NCommandsAssumption
  DEF D!Init, DaemonInv, OneCommand, HoldsDevice, InFile, Busy, D!TypeOK, D!Command, D!Kind, D!NoFile,
      D!Alive
<1>2. DaemonInv => DaemonInFile
  BY DEF DaemonInv, InFile, OneCommand, DaemonInFile, D!DaemonInFile, D!Quiet, D!Alive, D!Holds
<1> QED BY <1>1, <1>2, DaemonStep, PTL DEF D!Spec

=============================================================================
