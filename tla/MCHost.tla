------------------------------- MODULE MCHost -------------------------------
(***************************************************************************)
(* The processes on a client's host for TLC, side by side: the life of one  *)
(* process (VpnClient), and the commands that start and stop such processes *)
(* as daemons (Daemon), for which a process is something that runs and      *)
(* ends.  An initial state chooses one of them, and the other stands still. *)
(***************************************************************************)
EXTENDS VpnClient

CONSTANTS NCommands, Configs

ASSUME NCommandsAssumption == NCommands \in Nat

VARIABLES
    part,                               \* the one that runs
    cmd, pid, daemon, pid_file, device  \* Daemon, whose tun is device

daemonVars == <<cmd, pid, daemon, pid_file, device>>
allVars == <<part, vars, daemonVars>>

D == INSTANCE Daemon WITH tun <- device

MCInit == part \in {"client", "daemon"} /\ Init /\ D!Init

Client(A) == part = "client" /\ A /\ UNCHANGED <<part, daemonVars>>
Commands(A) == part = "daemon" /\ A /\ UNCHANGED <<part, vars>>

\* The fairness of VpnClient.
MCFairness ==
    /\ WF_allVars(Client(TunnelTests)) /\ WF_allVars(Client(TunnelWakes))
    /\ WF_allVars(Client(MainStep)) /\ WF_allVars(Client(FuncEnds))
    /\ \A s \in Stoppers : WF_allVars(Client(StopStep(s)))

MCSpec == MCInit /\ [][Client(Next) \/ Commands(D!Next)]_allVars /\ MCFairness

-----------------------------------------------------------------------------
\* Between two commands the daemon that holds the device is the one the pid file
\* names, whatever crashes and timeouts have come before (write_pid_file, stop).
DaemonInFile == D!DaemonInFile
=============================================================================
