------------------------------- MODULE Daemon -------------------------------
(***************************************************************************)
(* Daemon control: the commands "-d start", "-d stop" and "-d restart", the *)
(* daemons they leave behind and the one pid file they share.               *)
(*                                                                         *)
(* Command i may fork a daemon, which is called i too.  A daemon holds its  *)
(* tunnel device, which is opened before the fork, until it closes it on    *)
(* its way to its end; no two processes can hold the same one.  What else a *)
(* daemon does until it is gone is in VpnClient.                            *)
(* Pids are not used again.                                                 *)
(***************************************************************************)
EXTENDS Integers, FiniteSets

CONSTANTS
    NCommands,  \* bound: commands that are given
    Configs     \* configuration files, each with a tunnel device of its own

Command == 1..NCommands
Kind == {"start", "stop", "restart"}
NoFile == 0

VARIABLES
    cmd,      \* the commands: their kind, their configuration and where they are
    pid,      \* the pid a command has read
    daemon,   \* "none", "forked", "up", "stopping", "gone"
    pid_file, \* the pid in the file
    tun       \* the command or daemon that holds a configuration's device

vars == <<cmd, pid, daemon, pid_file, tun>>

Init ==
    /\ cmd = [i \in Command |-> [kind |-> "start", conf |-> CHOOSE c \in Configs : TRUE, pc |-> "new"]]
    /\ pid = [i \in Command |-> NoFile]
    /\ daemon = [i \in Command |-> "none"]
    /\ pid_file = NoFile
    /\ tun = [c \in Configs |-> NoFile]

Alive(i) == i \in Command /\ daemon[i] \in {"forked", "up", "stopping"}
Holds(i) == \E c \in Configs : tun[c] = i
Goto(i, to) == cmd' = [cmd EXCEPT ![i].pc = to]
Released(i) == [c \in Configs |-> IF tun[c] = i THEN NoFile ELSE tun[c]]

\* No command is running.
Quiet == \A i \in Command : cmd[i].pc \in {"new", "done"}

-----------------------------------------------------------------------------
\* main reads its arguments.  The user gives one command after the other.
Begin(i) ==
    /\ Quiet
    /\ cmd[i].pc = "new"
    /\ \A j \in 1..(i - 1) : cmd[j].pc = "done"
    /\ \E k \in Kind, c \in Configs :
        cmd' = [cmd EXCEPT ![i] = [kind |-> k, conf |-> c, pc |-> IF k = "start" THEN "init" ELSE "stop"]]
    /\ UNCHANGED <<pid, daemon, pid_file, tun>>

\* main after runtime.stop(), whose result it ignores.
AfterStop(i) == Goto(i, IF cmd[i].kind = "stop" THEN "done" ELSE "init")

\* stop finds no file, or a file that names a process that is gone: that file
\* stays.
StopNothing(i) ==
    /\ cmd[i].pc = "stop"
    /\ ~Alive(pid_file)
    /\ AfterStop(i)
    /\ UNCHANGED <<pid, daemon, pid_file, tun>>

\* stop sends SIGTERM.  Before main has set its handler it ends the daemon.
StopKill(i) ==
    /\ cmd[i].pc = "stop"
    /\ Alive(pid_file)
    /\ pid' = [pid EXCEPT ![i] = pid_file]
    /\ \/ /\ daemon[pid_file] = "forked"
          /\ daemon' = [daemon EXCEPT ![pid_file] = "gone"]
          /\ tun' = Released(pid_file)
       \/ /\ daemon[pid_file] # "forked"
          /\ daemon' = [daemon EXCEPT ![pid_file] = "stopping"]
          /\ UNCHANGED tun
    /\ Goto(i, "wait")
    /\ UNCHANGED pid_file

\* kill(pid, 0) says that the process is gone: the file is removed.
StopGone(i) ==
    /\ cmd[i].pc = "wait"
    /\ ~Alive(pid[i])
    /\ pid_file' = NoFile
    /\ AfterStop(i)
    /\ UNCHANGED <<pid, daemon, tun>>

\* Ten seconds have passed: stop gives up, and the file stays.
StopTimeout(i) ==
    /\ cmd[i].pc = "wait"
    /\ Alive(pid[i])
    /\ AfterStop(i)
    /\ UNCHANGED <<pid, daemon, pid_file, tun>>

\* SharpVpn::init opens the tunnel device.
OpenTunnel(i) ==
    /\ cmd[i].pc = "init"
    /\ tun[cmd[i].conf] = NoFile
    /\ tun' = [tun EXCEPT ![cmd[i].conf] = i]
    /\ Goto(i, "fork")
    /\ UNCHANGED <<pid, daemon, pid_file>>

\* The device is held by another process: main returns.
OpenTunnelFails(i) ==
    /\ cmd[i].pc = "init"
    /\ tun[cmd[i].conf] # NoFile
    /\ Goto(i, "done")
    /\ UNCHANGED <<pid, daemon, pid_file, tun>>

\* DaemonRuntime::start: the parent sleeps until its child sends SIGINT.
Fork(i) ==
    /\ cmd[i].pc = "fork"
    /\ daemon' = [daemon EXCEPT ![i] = "forked"]
    /\ Goto(i, "sleep")
    /\ UNCHANGED <<pid, pid_file, tun>>

\* Mutant: write_pid_file leaves a file that is there alone, whoever it names.
WritePidFileOnce(i) ==
    /\ cmd[i].pc = "sleep"
    /\ daemon[i] = "forked"
    /\ pid_file' = IF pid_file = NoFile THEN i ELSE pid_file
    /\ Goto(i, "done")
    /\ UNCHANGED <<pid, daemon, tun>>

\* write_pid_file in the child, and SIGINT to the parent.  The file is only
\* read when it could not be opened, so what it names is never seen.
WritePidFile(i) ==
    /\ cmd[i].pc = "sleep"
    /\ daemon[i] = "forked"
    /\ pid_file' = i
    /\ Goto(i, "done")
    /\ UNCHANGED <<pid, daemon, tun>>

\* The child is back in main, sets its signal handlers and runs.
Run(i) ==
    /\ cmd[i].pc = "done"
    /\ daemon[i] = "forked"
    /\ daemon' = [daemon EXCEPT ![i] = "up"]
    /\ UNCHANGED <<cmd, pid, pid_file, tun>>

\* SharpVpn::stop has closed the device, because of a signal or because the
\* connection is gone.  Routes, resolv.conf and the socket are still to come.
ClosesTunnel(i) ==
    /\ daemon[i] \in {"up", "stopping"}
    /\ tun' = Released(i)
    /\ UNCHANGED <<cmd, pid, daemon, pid_file>>

\* The daemon ends: it has stopped, or it crashes.
Ends(i) ==
    /\ daemon[i] \in {"up", "stopping"}
    /\ daemon' = [daemon EXCEPT ![i] = "gone"]
    /\ tun' = Released(i)
    /\ UNCHANGED <<cmd, pid, pid_file>>

CommandStep(i) ==
    \/ StopNothing(i) \/ StopKill(i) \/ StopGone(i) \/ StopTimeout(i)
    \/ OpenTunnel(i) \/ OpenTunnelFails(i) \/ Fork(i) \/ WritePidFile(i)

Next == \E i \in Command : Begin(i) \/ CommandStep(i) \/ Run(i) \/ ClosesTunnel(i) \/ Ends(i)

Spec == Init /\ [][Next]_vars

-----------------------------------------------------------------------------
TypeOK ==
    /\ cmd \in [Command -> [kind : Kind, conf : Configs,
                            pc : {"new", "init", "stop", "wait", "fork", "sleep", "done"}]]
    /\ pid \in [Command -> Command \union {NoFile}]
    /\ daemon \in [Command -> {"none", "forked", "up", "stopping", "gone"}]
    /\ pid_file \in Command \union {NoFile}
    /\ tun \in [Configs -> Command \union {NoFile}]

\* Between two commands the daemon that serves, which is the one that holds
\* the device, is the one the file names, so that it can be stopped, whatever
\* crashes and timeouts have come before, and however many daemons that have
\* closed the device are not gone yet.  (One configuration: what keeps a second
\* daemon away is the tunnel device.)
DaemonInFile == Quiet => \A i \in Command : Alive(i) /\ Holds(i) => pid_file = i
=============================================================================
