--------------------------- MODULE DaemonProcess ---------------------------
(***************************************************************************)
(* The life of the daemon process (cmd/daemon*.go, cmd/serve.go,           *)
(* internal/daemon/daemon.go, Start): several processes may be started, by *)
(* `vibe daemon start`, by a LaunchAgent that keeps its own alive, by a    *)
(* Scheduled Task; TCP port, pid file and unix socket say which one it is. *)
(*                                                                         *)
(* Server.Stop, which would remove pid file and socket, has no caller      *)
(* outside the tests and no signal is handled: a daemon that is stopped    *)
(* dies, and leaves both behind.  Process ids are reused.                  *)
(***************************************************************************)
EXTENDS Naturals, FiniteSets

CONSTANTS
    Pid,       \* process ids a daemon may get
    Cli,       \* command lines running `vibe daemon ...`
    None,      \* no process
    MaxEvents, \* bound on commands, deaths, reuses of a pid, ... taken together
    Spare      \* those left of them when setup is over

ASSUME NoneAssumption == None \notin Pid
ASSUME EventsAssumption == MaxEvents \in Nat /\ Spare \in 0..MaxEvents

VARIABLES
    auto,    \* what starts the daemon by itself: "none", "agent" or "task"
    loaded,  \* launchd has the agent loaded
    managed, \* the process launchd or the Task Scheduler runs
    proc,    \* per pid: how far it is, or that it is none or a foreign one
    socket,  \* per pid: how far its startUnixSocket is
    tcp,     \* the process that holds the HTTP port
    pidfile, \* daemon.pid
    unnamed, \* daemons that could not write it
    sock,    \* the process the socket path leads to, dead or alive
    cli,     \* per command line: where it is, and its command
    old,     \* per command line: the daemon that served when it began, if it lives
    events

processVars == <<auto, loaded, managed, proc, socket, tcp, pidfile, unnamed, sock, cli, old>>
lifeVars == <<processVars, events>>

Commands == {"start", "stop", "restart"}
Alive(p) == p # None /\ proc[p] # "none"
Daemons == {p \in Pid : proc[p] \in {"starting", "bound", "serving"}}
Server == {p \in Pid : proc[p] = "serving"}

Event == events < MaxEvents /\ events' = events + 1

LifeTypeOK ==
    /\ auto \in {"none", "agent", "task"}
    /\ loaded \in BOOLEAN /\ (loaded => auto = "agent")
    /\ managed \in Pid \cup {None}
    /\ proc \in [Pid -> {"none", "foreign", "starting", "bound", "serving"}]
    /\ socket \in [Pid -> {"todo", "removed", "listening"}]
    /\ {tcp, pidfile, sock} \subseteq Pid \cup {None} /\ unnamed \subseteq Pid
    /\ cli \in [Cli -> {"idle", "waiting", "done", "failed"} \X Commands]
    /\ old \in [Cli -> Pid \cup {None}]

\* Nothing runs yet.
NothingRuns ==
    /\ managed = None
    /\ proc = [p \in Pid |-> "none"]
    /\ socket = [p \in Pid |-> "todo"]
    /\ tcp = None /\ pidfile = None /\ unnamed = {} /\ sock = None
    /\ cli = [c \in Cli |-> <<"done", "start">>]
    /\ old = [c \in Cli |-> None]

\* A machine set up or not; and one where setup is over and launchd is at work.
LifeInit ==
    /\ NothingRuns
    /\ auto \in {"none", "agent", "task"} /\ loaded = FALSE
    /\ events = 0

AgentInit ==
    /\ NothingRuns
    /\ auto = "agent" /\ loaded = TRUE
    /\ events = MaxEvents - Spare

-----------------------------------------------------------------------------
\* Processes

Step(p, from, to) == proc[p] = from /\ proc' = [proc EXCEPT ![p] = to]

\* Those in gone end, those in born begin; the port falls free with its holder.
Change(gone, born) ==
    /\ proc' = [p \in Pid |-> IF p \in born THEN "starting"
                              ELSE IF p \in gone THEN "none" ELSE proc[p]]
    /\ socket' = [p \in Pid |-> IF p \in gone \cup born THEN "todo" ELSE socket[p]]
    /\ tcp' = IF tcp \in gone THEN None ELSE tcp
    /\ unnamed' = unnamed \ gone

\* o without the daemons that are gone.
Without(gone, o) == [c \in Cli |-> IF o[c] \in gone THEN None ELSE o[c]]

\* One process ends by itself.
Exits(p) ==
    /\ Change({p}, {})
    /\ old' = Without({p}, old)
    /\ managed' = IF managed = p THEN None ELSE managed

\* Defect: the pid file is written before the port is bound.
Binds_pidFirst(p) ==
    /\ proc[p] = "starting"
    /\ pidfile' = p
    /\ IF tcp = None THEN /\ Step(p, "starting", "bound") /\ tcp' = p
                          /\ UNCHANGED <<socket, managed, old, unnamed>>
       ELSE Exits(p)
    /\ UNCHANGED <<auto, loaded, sock, cli, events>>

\* Server.Start: the port first; the process that does not get it exits without
\* touching the pid file.
Binds(p) ==
    /\ proc[p] = "starting"
    /\ IF tcp = None THEN /\ Step(p, "starting", "bound") /\ tcp' = p
                          /\ UNCHANGED <<socket, managed, old, unnamed>>
       ELSE Exits(p)
    /\ UNCHANGED <<auto, loaded, pidfile, sock, cli, events>>

\* The pid file, and on to Serve.  That the write fails is ignored: the file is left as
\* it was (it does not open) or empty.
WritesPid(p) ==
    /\ Step(p, "bound", "serving")
    /\ \/ pidfile' = p /\ UNCHANGED <<unnamed, events>>
       \/ pidfile' \in {pidfile, None} /\ unnamed' = unnamed \cup {p} /\ Event
    /\ UNCHANGED <<auto, loaded, managed, socket, tcp, sock, cli, old>>

\* The goroutine that takes the socket starts after the pid file is written.
MayTakeSocket(p) == proc[p] = "serving"

\* startUnixSocket: whatever is at the path is removed, ...
RemovesSocket(p) ==
    /\ MayTakeSocket(p) /\ socket[p] = "todo"
    /\ socket' = [socket EXCEPT ![p] = "removed"]
    /\ sock' = None
    /\ UNCHANGED <<auto, loaded, managed, proc, tcp, pidfile, unnamed, cli, old, events>>

\* ... and the path is bound anew.
ListensOnSocket(p) ==
    /\ MayTakeSocket(p) /\ socket[p] = "removed" /\ sock = None
    /\ socket' = [socket EXCEPT ![p] = "listening"]
    /\ sock' = p
    /\ UNCHANGED <<auto, loaded, managed, proc, tcp, pidfile, unnamed, cli, old, events>>

\* A daemon crashes or is killed; the pid file and the socket path stay.
DiesAlone(p) ==
    /\ p \in Daemons /\ Event
    /\ Exits(p)
    /\ UNCHANGED <<auto, loaded, pidfile, sock, cli>>

\* Some other program gets the pid of a daemon that is gone.
PidIsReused(p) ==
    /\ p = pidfile /\ proc[p] = "none" /\ Event
    /\ proc' = [proc EXCEPT ![p] = "foreign"]
    /\ UNCHANGED <<auto, loaded, managed, socket, tcp, pidfile, unnamed, sock, cli, old>>

-----------------------------------------------------------------------------
\* launchd and setup

\* Defect: the agent is started at login and never again.
Respawns_never(p) == FALSE

\* KeepAlive, RunAtLoad: a loaded agent without a process gets one.
Respawns(p) == auto = "agent" /\ loaded /\ managed = None /\ proc[p] = "none"

KeepsAlive(p) ==
    /\ Respawns(p)
    /\ Change({}, {p})
    /\ managed' = p
    /\ UNCHANGED <<auto, loaded, pidfile, sock, cli, old, events>>

\* `vibe setup` installs the LaunchAgent; a daemon forked before goes on.
SetsUp ==
    /\ auto = "none" /\ Event
    /\ auto' = "agent" /\ loaded' = TRUE
    /\ UNCHANGED <<managed, proc, socket, tcp, pidfile, unnamed, sock, cli, old>>

-----------------------------------------------------------------------------
\* vibe daemon start, stop, restart

\* isDaemonRunning: the pid file names a process that lives.
IsDaemonRunning == Alive(pidfile)

\* daemonHTTPResponding: the socket first, else the port.
Responding == Server # {} /\ (tcp \in Server \/ (sock \in Server /\ socket[sock] = "listening"))

\* The daemon that serves, if any.
TheServer == IF Server = {} THEN None ELSE CHOOSE p \in Pid : p \in Server

Begins(c, cmd) ==
    /\ cli[c][1] \in {"done", "failed"} /\ Event
    /\ cli' = [cli EXCEPT ![c] = <<IF cmd = "stop" THEN "done" ELSE "idle", cmd>>]

StartCommand(c) ==
    /\ Begins(c, "start")
    /\ old' = [old EXCEPT ![c] = TheServer]
    /\ UNCHANGED <<auto, loaded, managed, proc, socket, tcp, pidfile, unnamed, sock>>

\* Defect: with an autostart installed the agent is unloaded, its process left.
Victims_notManaged == IF auto = "none" THEN {pidfile} \ {None} ELSE {}

\* tryPlatformDaemonStop ends what launchd or the Task Scheduler runs: a daemon
\* that was forked does not notice.  Without them signalDaemonStop goes to
\* whoever the pid file names.
Victims == (IF auto = "none" THEN {pidfile} ELSE {managed}) \ {None}

\* daemonStop, and the first half of daemonRestart; the half second of sleep is
\* long enough for a signal nobody handles.
StopCommand(c, cmd) ==
    /\ Begins(c, cmd)
    /\ Change(Victims, {})
    /\ old' = Without(Victims, [old EXCEPT ![c] = TheServer])
    /\ loaded' = FALSE
    /\ managed' = IF managed \in Victims THEN None ELSE managed
    /\ UNCHANGED <<auto, pidfile, sock>>

Ends(c, how) == cli' = [cli EXCEPT ![c][1] = how]

\* tryPlatformDaemonStart: with an agent installed it is loaded, ...
LoadsAgent ==
    /\ auto = "agent" /\ loaded' = TRUE
    /\ UNCHANGED <<managed, proc, socket, tcp, unnamed>>

\* ... with a task it is run, unless it runs.
RunsTask ==
    /\ auto = "task"
    /\ IF managed # None THEN UNCHANGED <<managed, proc, socket, tcp, unnamed>>
       ELSE \E p \in Pid : proc[p] = "none" /\ Change({}, {p}) /\ managed' = p
    /\ UNCHANGED loaded

forkDaemon ==
    /\ auto = "none"
    /\ \E p \in Pid : proc[p] = "none" /\ Change({}, {p})
    /\ UNCHANGED <<loaded, managed>>

\* daemonStartCmd: nothing to do when the pid file says so.
Starts(c) ==
    /\ cli[c] \in {<<"idle", "start">>, <<"idle", "restart">>}
    /\ \/ /\ IsDaemonRunning
          /\ Ends(c, "done")
          /\ UNCHANGED <<loaded, managed, proc, socket, tcp, unnamed>>
       \/ /\ ~IsDaemonRunning
          /\ Ends(c, "waiting")
          /\ LoadsAgent \/ RunsTask \/ forkDaemon
    /\ UNCHANGED <<auto, pidfile, sock, old, events>>

\* waitForDaemonReady.
SeesReady(c) ==
    /\ cli[c][1] = "waiting" /\ IsDaemonRunning /\ Responding
    /\ Ends(c, "done")
    /\ UNCHANGED <<auto, loaded, managed, proc, socket, tcp, pidfile, unnamed, sock, old,
                   events>>

WaitRunsOut(c) ==
    /\ cli[c][1] = "waiting" /\ ~(IsDaemonRunning /\ Responding)
    /\ Ends(c, "failed")
    /\ UNCHANGED <<auto, loaded, managed, proc, socket, tcp, pidfile, unnamed, sock, old,
                   events>>

-----------------------------------------------------------------------------
Boots(p) ==
    \/ Binds(p) \/ WritesPid(p)
    \/ RemovesSocket(p) \/ ListensOnSocket(p)

Daemon(p) == Boots(p) \/ DiesAlone(p) \/ PidIsReused(p) \/ KeepsAlive(p)

User(c) ==
    \/ StartCommand(c) \/ StopCommand(c, "stop") \/ StopCommand(c, "restart")
    \/ Starts(c) \/ SeesReady(c) \/ WaitRunsOut(c)

-----------------------------------------------------------------------------
\* Properties

\* One daemon at a time holds the port, and once it serves daemon.pid names it, unless
\* it could not be written, whoever else was started, by whom, and died meanwhile ("we
\* exit without touching the PID file so isDaemonRunning() stays accurate").
PidFileNamesTheServer ==
    Cardinality(Server) <= 1 /\ \A p \in Server : pidfile = p \/ p \in unnamed

\* Once a daemon's own startUnixSocket is through, the socket path leads to it: no
\* daemon that lost the port takes the path away.
SocketLeadsToTheServer == \A p \in Daemons : socket[p] = "listening" => sock = p

\* Both: whoever looks for the daemon finds the one that serves.
FilesNameTheServer == PidFileNamesTheServer /\ SocketLeadsToTheServer

\* A restart that reports success has replaced the daemon that served when it
\* began, unless that one is out of the platform's reach: forked, and an agent or
\* task installed; or no pid file names it.  (Then stop and restart both report
\* success over a daemon that goes on.)
RestartIsFresh ==
    \A c \in Cli :
        cli[c] = <<"done", "restart">> /\ old[c] # None
            => \/ auto # "none" /\ managed # old[c]
               \/ auto = "none" /\ old[c] \in unnamed

\* A loaded agent brings the daemon back whatever kills it, whoever held the port
\* or left a pid file and a socket behind (KeepAlive in the agent's plist).
AgentKeepsServing == [](loaded => <>(Server # {} \/ ~loaded))
=============================================================================
