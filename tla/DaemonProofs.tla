---------------------------- MODULE DaemonProofs ----------------------------
(***************************************************************************)
(* Theorems about Daemon for any number of processes, command lines,       *)
(* handlers and events.  That the pid file and the socket name the daemon  *)
(* that serves follows from the port: only its holder gets past Binds      *)
(* (Holder).  That a restart is fresh needs that the daemon a command      *)
(* remembers still serves (Remembered), so that no new process has its id. *)
(*                                                                         *)
(* Names that a lone reload put into the leaf stay in it: overlapping      *)
(* reloads may load each other's certificate, so the invariant follows the *)
(* covered names through all that a reload can pick up, every job's names  *)
(* and, while a reload may still load it, the certificate on file, whoever *)
(* wrote it (Carried); and a lone job finds its own certificate there      *)
(* (Own).  The resolver's replies parse because each is made of the query  *)
(* it answers in one step.                                                 *)
(***************************************************************************)
EXTENDS Daemon, FiniteSetTheorems, TLAPS

\* The steps of the process, one disjunct each; TLS and DNS leave it alone.
LEMMA LifeCases ==
    ASSUME [Next]_daemonVars
    PROVE  \/ \E p \in Pid : Binds(p)
           \/ \E p \in Pid : WritesPid(p)
           \/ \E p \in Pid : RemovesSocket(p)
           \/ \E p \in Pid : ListensOnSocket(p)
           \/ \E p \in Pid : DiesAlone(p)
           \/ \E p \in Pid : PidIsReused(p)
           \/ \E p \in Pid : KeepsAlive(p)
           \/ SetsUp
           \/ \E c \in Cli : StartCommand(c)
           \/ \E c \in Cli, cmd \in {"stop", "restart"} : StopCommand(c, cmd)
           \/ \E c \in Cli : Starts(c)
           \/ \E c \in Cli : SeesReady(c)
           \/ \E c \in Cli : WaitRunsOut(c)
           \/ UNCHANGED processVars
<1>1. CASE \E p \in Pid : Process(Daemon(p))
  BY <1>1 DEF Process, Daemon, Boots
<1>2. CASE Process(SetsUp)
  BY <1>2 DEF Process
<1>3. CASE \E c \in Cli : Process(User(c))
  BY <1>3 DEF Process, User
<1>4. QED
  BY <1>1, <1>2, <1>3 DEF Next, daemonVars, lifeVars

\* Whoever is past Binds holds the port, and the pid file names whoever serves and
\* could write it.
Holder ==
    /\ \A p \in Pid : proc[p] \in {"bound", "serving"} => tcp = p
    /\ \A p \in Pid : proc[p] = "serving" => pidfile = p \/ p \in unnamed

\* Only a daemon that serves has touched the socket; the path leads to it then.
Socket ==
    \A p \in Pid : /\ socket[p] # "todo" => proc[p] = "serving"
                   /\ socket[p] = "listening" => sock = p

\* A command remembers only a daemon that still serves.
Remembered == \A c \in Cli : old[c] # None => old[c] \in Pid /\ proc[old[c]] = "serving"

\* A restart remembers one only if that is out of the platform's reach, or nobody
\* names it.
Fresh ==
    \A c \in Cli : cli[c][2] = "restart" /\ old[c] # None
                     => \/ auto # "none" /\ managed # old[c]
                        \/ auto = "none" /\ old[c] \in unnamed

\* Nothing manages a daemon before setup.
Unmanaged == auto = "none" => managed = None

LifeInv == LifeTypeOK /\ Holder /\ Socket /\ Remembered /\ Fresh /\ Unmanaged

LEMMA InitLife == Init => LifeInv
<1> SUFFICES ASSUME Init
             PROVE  LifeInv
  OBVIOUS
<1>1. NothingRuns /\ auto \in {"none", "agent", "task"} /\ loaded \in BOOLEAN
        /\ (loaded => auto = "agent")
  BY DEF Init, LifeInit, AgentInit
<1>2. LifeTypeOK
  BY <1>1 DEF NothingRuns, LifeTypeOK, Commands
<1>3. QED
  BY <1>1, <1>2 DEF NothingRuns, LifeInv, Holder, Socket, Remembered, Fresh, Unmanaged

\* Some processes end and new ones begin under ids nobody has.
LEMMA ChangeKeeps ==
    ASSUME LifeInv, NEW gone \in SUBSET Pid, NEW born \in SUBSET Pid, Change(gone, born),
           \A p \in born : proc[p] = "none", pidfile' = pidfile, sock' = sock
    PROVE  /\ proc' \in [Pid -> {"none", "foreign", "starting", "bound", "serving"}]
           /\ socket' \in [Pid -> {"todo", "removed", "listening"}]
           /\ tcp' \in Pid \cup {None}
           /\ unnamed' = unnamed \ gone /\ unnamed' \subseteq Pid
           /\ Holder' /\ Socket'
           /\ \A p \in Pid : proc[p] = "serving" /\ p \notin gone => proc'[p] = "serving"
<1> USE DEF LifeInv, LifeTypeOK, Change
<1>1. Holder'
  BY NoneAssumption DEF Holder
<1>2. Socket'
  BY DEF Socket
<1>3. QED
  BY <1>1, <1>2

LEMMA NextLife == LifeInv /\ [Next]_daemonVars => LifeInv'
<1> SUFFICES ASSUME LifeInv, [Next]_daemonVars
             PROVE  LifeInv'
  OBVIOUS
<1> USE NoneAssumption DEF LifeInv
<1>1. ASSUME NEW p \in Pid, Exits(p), UNCHANGED <<auto, loaded, pidfile, sock, cli>>
      PROVE  LifeInv'
  <2>1. /\ {p} \in SUBSET Pid /\ {} \in SUBSET Pid
        /\ Change({p}, {}) /\ \A q \in {} : proc[q] = "none"
    BY <1>1 DEF Exits
  <2>2. /\ proc' \in [Pid -> {"none", "foreign", "starting", "bound", "serving"}]
        /\ socket' \in [Pid -> {"todo", "removed", "listening"}]
        /\ tcp' \in Pid \cup {None}
        /\ unnamed' = unnamed \ {p} /\ unnamed' \subseteq Pid
        /\ Holder' /\ Socket'
        /\ \A q \in Pid : proc[q] = "serving" /\ q \notin {p} => proc'[q] = "serving"
    BY <1>1, <2>1, ChangeKeeps
  <2>3. LifeTypeOK'
    BY <1>1, <2>2 DEF Exits, LifeTypeOK, Without
  <2>4. Remembered'
    BY <1>1, <2>2 DEF Exits, Without, Remembered, LifeTypeOK
  <2>5. Fresh' /\ Unmanaged'
    BY <1>1, <2>2 DEF Exits, Without, Fresh, LifeTypeOK, Remembered, Unmanaged
  <2>6. QED
    BY <2>2, <2>3, <2>4, <2>5
<1>2. ASSUME NEW p \in Pid, Binds(p)
      PROVE  LifeInv'
  <2>1. CASE tcp # None
    BY <1>1, <1>2, <2>1 DEF Binds
  <2>2. CASE tcp = None
    <3>1. /\ proc[p] = "starting" /\ tcp' = p
          /\ proc' = [proc EXCEPT ![p] = "bound"]
          /\ UNCHANGED <<socket, managed, old, auto, loaded, pidfile, unnamed, sock, cli>>
      BY <1>2, <2>2 DEF Binds, Step
    <3>2. LifeTypeOK'
      BY <3>1 DEF LifeTypeOK
    <3>3. Holder' /\ Socket'
      BY <3>1, <2>2 DEF LifeTypeOK, Holder, Socket
    <3>4. Remembered' /\ Fresh' /\ Unmanaged'
      BY <3>1 DEF LifeTypeOK, Remembered, Fresh, Unmanaged
    <3>5. QED
      BY <3>2, <3>3, <3>4
  <2>3. QED
    BY <2>1, <2>2
<1>3. ASSUME NEW p \in Pid, WritesPid(p)
      PROVE  LifeInv'
  <2>1. /\ proc[p] = "bound" /\ pidfile' \in {p, pidfile, None}
        /\ unnamed' \in {unnamed, unnamed \cup {p}} /\ (pidfile' = p \/ p \in unnamed')
        /\ proc' = [proc EXCEPT ![p] = "serving"]
        /\ UNCHANGED <<auto, loaded, managed, socket, tcp, sock, cli, old>>
    BY <1>3 DEF WritesPid, Step
  <2>2. LifeTypeOK'
    BY <2>1 DEF LifeTypeOK
  <2>3. Holder' /\ Socket'
    BY <2>1 DEF LifeTypeOK, Holder, Socket
  <2>4. Remembered' /\ Fresh' /\ Unmanaged'
    BY <2>1 DEF LifeTypeOK, Remembered, Fresh, Unmanaged
  <2>5. QED
    BY <2>2, <2>3, <2>4
<1>4. ASSUME NEW p \in Pid, RemovesSocket(p)
      PROVE  LifeInv'
  <2>1. LifeTypeOK'
    BY <1>4 DEF RemovesSocket, LifeTypeOK
  <2>2. Holder' /\ Remembered' /\ Fresh' /\ Unmanaged'
    BY <1>4 DEF RemovesSocket, Holder, Remembered, Fresh, Unmanaged
  <2>3. Socket'
    BY <1>4 DEF RemovesSocket, MayTakeSocket, LifeTypeOK, Holder, Socket
  <2>4. QED
    BY <2>1, <2>2, <2>3
<1>5. ASSUME NEW p \in Pid, ListensOnSocket(p)
      PROVE  LifeInv'
  <2>1. LifeTypeOK'
    BY <1>5 DEF ListensOnSocket, LifeTypeOK
  <2>2. Holder' /\ Remembered' /\ Fresh' /\ Unmanaged'
    BY <1>5 DEF ListensOnSocket, Holder, Remembered, Fresh, Unmanaged
  <2>3. Socket'
    BY <1>5 DEF ListensOnSocket, MayTakeSocket, LifeTypeOK, Holder, Socket
  <2>4. QED
    BY <2>1, <2>2, <2>3
<1>6. ASSUME NEW p \in Pid, DiesAlone(p)
      PROVE  LifeInv'
  BY <1>1, <1>6 DEF DiesAlone
<1>7. ASSUME NEW p \in Pid, PidIsReused(p)
      PROVE  LifeInv'
  <2>1. /\ proc[p] = "none" /\ proc' = [proc EXCEPT ![p] = "foreign"]
        /\ UNCHANGED <<auto, loaded, managed, socket, tcp, pidfile, unnamed, sock, cli, old>>
    BY <1>7 DEF PidIsReused
  <2>2. LifeTypeOK'
    BY <2>1 DEF LifeTypeOK
  <2>3. Holder' /\ Socket' /\ Remembered' /\ Fresh' /\ Unmanaged'
    BY <2>1 DEF LifeTypeOK, Holder, Socket, Remembered, Fresh, Unmanaged
  <2>4. QED
    BY <2>2, <2>3
\* One process begins, for launchd, the Task Scheduler or a command.
<1>8. ASSUME NEW p \in Pid, proc[p] = "none", Change({}, {p}), managed' \in {managed, p},
             auto = "none" => managed' = managed,
             \A c \in Cli : cli'[c][2] = cli[c][2],
             cli' \in [Cli -> {"idle", "waiting", "done", "failed"} \X Commands],
             UNCHANGED <<auto, loaded, pidfile, sock, old>>
      PROVE  LifeInv'
  <2>1. /\ {} \in SUBSET Pid /\ {p} \in SUBSET Pid /\ \A q \in {p} : proc[q] = "none"
    BY <1>8
  <2>2. /\ proc' \in [Pid -> {"none", "foreign", "starting", "bound", "serving"}]
        /\ socket' \in [Pid -> {"todo", "removed", "listening"}]
        /\ tcp' \in Pid \cup {None}
        /\ unnamed' = unnamed /\ unnamed' \subseteq Pid
        /\ Holder' /\ Socket'
        /\ \A q \in Pid : proc[q] = "serving" /\ q \notin {} => proc'[q] = "serving"
    BY <1>8, <2>1, ChangeKeeps
  <2>3. LifeTypeOK'
    BY <1>8, <2>2 DEF LifeTypeOK
  <2>4. Remembered'
    BY <1>8, <2>2 DEF Remembered
  <2>5. Fresh' /\ Unmanaged'
    BY <1>8, <2>2 DEF Fresh, Remembered, Unmanaged
  <2>6. QED
    BY <2>2, <2>3, <2>4, <2>5
<1>9. ASSUME NEW p \in Pid, KeepsAlive(p)
      PROVE  LifeInv'
  BY <1>8, <1>9 DEF KeepsAlive, Respawns, LifeTypeOK
<1>10. CASE SetsUp
  <2>1. LifeTypeOK'
    BY <1>10 DEF SetsUp, LifeTypeOK
  <2>2. Holder' /\ Socket' /\ Remembered' /\ Fresh' /\ Unmanaged'
    BY <1>10 DEF SetsUp, Holder, Socket, Remembered, Fresh, Unmanaged
  <2>3. QED
    BY <2>1, <2>2
<1>11. TheServer \in Pid \cup {None} /\ (TheServer # None => proc[TheServer] = "serving")
  BY DEF TheServer, Server
<1>12. ASSUME NEW c \in Cli, NEW cmd \in Commands, Begins(c, cmd)
       PROVE  /\ cli' \in [Cli -> {"idle", "waiting", "done", "failed"} \X Commands]
              /\ cli'[c][2] = cmd
              /\ \A d \in Cli \ {c} : cli'[d] = cli[d]
  BY <1>12 DEF Begins, LifeTypeOK
<1>13. ASSUME NEW c \in Cli, StartCommand(c)
       PROVE  LifeInv'
  <2>1. /\ cli' \in [Cli -> {"idle", "waiting", "done", "failed"} \X Commands]
        /\ cli'[c][2] = "start"
        /\ \A d \in Cli \ {c} : cli'[d] = cli[d]
    BY <1>12, <1>13 DEF StartCommand, Commands
  <2>2. LifeTypeOK'
    BY <1>11, <1>13, <2>1 DEF StartCommand, LifeTypeOK
  <2>3. Holder' /\ Socket'
    BY <1>13 DEF StartCommand, Holder, Socket
  <2>4. Remembered'
    BY <1>11, <1>13 DEF StartCommand, Remembered, LifeTypeOK
  <2>5. Fresh' /\ Unmanaged'
    BY <1>13, <2>1 DEF StartCommand, Fresh, LifeTypeOK, Unmanaged
  <2>6. QED
    BY <2>2, <2>3, <2>4, <2>5
<1>14. ASSUME NEW c \in Cli, NEW cmd \in {"stop", "restart"}, StopCommand(c, cmd)
       PROVE  LifeInv'
  <2>1. /\ cli' \in [Cli -> {"idle", "waiting", "done", "failed"} \X Commands]
        /\ cli'[c][2] = cmd
        /\ \A d \in Cli \ {c} : cli'[d] = cli[d]
    BY <1>12, <1>14 DEF StopCommand, Commands
  <2>2. /\ Victims \in SUBSET Pid /\ {} \in SUBSET Pid /\ \A q \in {} : proc[q] = "none"
    BY DEF Victims, LifeTypeOK
  <2>3. /\ proc' \in [Pid -> {"none", "foreign", "starting", "bound", "serving"}]
        /\ socket' \in [Pid -> {"todo", "removed", "listening"}]
        /\ tcp' \in Pid \cup {None}
        /\ unnamed' = unnamed \ Victims /\ unnamed' \subseteq Pid
        /\ Holder' /\ Socket'
        /\ \A q \in Pid : proc[q] = "serving" /\ q \notin Victims => proc'[q] = "serving"
    BY <1>14, <2>2, ChangeKeeps DEF StopCommand
  <2> DEFINE asked == [old EXCEPT ![c] = TheServer]
  <2>4. /\ asked \in [Cli -> Pid \cup {None}]
        /\ \A d \in Cli : asked[d] # None => proc[asked[d]] = "serving"
        /\ \A d \in Cli \ {c} : asked[d] = old[d]
    BY <1>11 DEF LifeTypeOK, Remembered
  <2>5. old' = [d \in Cli |-> IF asked[d] \in Victims THEN None ELSE asked[d]]
    BY <1>14 DEF StopCommand, Without
  <2> HIDE DEF asked
  <2>6. managed' = (IF managed \in Victims THEN None ELSE managed)
    BY <1>14 DEF StopCommand
  <2>7. LifeTypeOK'
    <3>1. old' \in [Cli -> Pid \cup {None}]
      BY <2>4, <2>5
    <3>2. managed' \in Pid \cup {None}
      BY <2>6 DEF LifeTypeOK
    <3>3. loaded' = FALSE /\ UNCHANGED <<auto, pidfile, sock>>
      BY <1>14 DEF StopCommand
    <3>4. {tcp', pidfile', sock'} \subseteq Pid \cup {None} /\ auto' \in {"none", "agent", "task"}
      BY <2>3, <3>3 DEF LifeTypeOK
    <3>5. QED
      BY <2>1, <2>3, <3>1, <3>2, <3>3, <3>4, Zenon DEF LifeTypeOK
  <2>8. Remembered'
    BY <2>3, <2>4, <2>5 DEF Remembered
  <2>9. auto = "none" =>
          \A d \in Cli : asked[d] # None => asked[d] \in Victims \/ asked[d] \in unnamed
    BY <2>4 DEF Holder, Victims
  <2>10. auto # "none" => managed' = None
    BY <2>6 DEF Victims, LifeTypeOK
  <2>11. auto' = auto
    BY <1>14 DEF StopCommand
  <2>12. Fresh' /\ Unmanaged'
    BY <2>3, <2>4, <2>5, <2>6, <2>9, <2>10, <2>11 DEF Fresh, Unmanaged
  <2>13. QED
    BY <2>3, <2>7, <2>8, <2>12
\* A command goes on without a change of its kind.
<1>15. ASSUME NEW c \in Cli, NEW how \in {"waiting", "done", "failed"}, Ends(c, how)
       PROVE  /\ cli' \in [Cli -> {"idle", "waiting", "done", "failed"} \X Commands]
              /\ \A d \in Cli : cli'[d][2] = cli[d][2]
  BY <1>15 DEF Ends, LifeTypeOK
<1>16. ASSUME cli' \in [Cli -> {"idle", "waiting", "done", "failed"} \X Commands],
              \A d \in Cli : cli'[d][2] = cli[d][2],
              loaded' \in BOOLEAN, loaded' => auto = "agent",
              UNCHANGED <<auto, managed, proc, socket, tcp, pidfile, unnamed, sock, old>>
       PROVE  LifeInv'
  <2>1. LifeTypeOK'
    BY <1>16 DEF LifeTypeOK
  <2>2. Holder' /\ Socket' /\ Remembered' /\ Fresh' /\ Unmanaged'
    BY <1>16 DEF Holder, Socket, Remembered, Fresh, Unmanaged
  <2>3. QED
    BY <2>1, <2>2
<1>17. ASSUME NEW c \in Cli, Starts(c)
       PROVE  LifeInv'
  <2>1. UNCHANGED <<auto, pidfile, sock, old>>
    BY <1>17 DEF Starts
  <2>2. CASE IsDaemonRunning
    BY <1>15, <1>16, <1>17, <2>2 DEF Starts, LifeTypeOK
  <2>3. CASE ~IsDaemonRunning
    <3>1. Ends(c, "waiting")
      BY <1>17, <2>3 DEF Starts
    <3>2. /\ cli' \in [Cli -> {"idle", "waiting", "done", "failed"} \X Commands]
          /\ \A d \in Cli : cli'[d][2] = cli[d][2]
      BY <1>15, <3>1
    <3>3. CASE LoadsAgent
      BY <1>16, <2>1, <3>2, <3>3 DEF LoadsAgent
    <3>4. CASE RunsTask /\ managed # None
      BY <1>16, <2>1, <3>2, <3>4 DEF RunsTask, LifeTypeOK
    <3>5. CASE RunsTask /\ managed = None
      BY <1>8, <2>1, <3>2, <3>5 DEF RunsTask
    <3>6. CASE forkDaemon
      BY <1>8, <2>1, <3>2, <3>6 DEF forkDaemon
    <3>7. QED
      BY <1>17, <2>3, <3>3, <3>4, <3>5, <3>6 DEF Starts
  <2>4. QED
    BY <2>2, <2>3
<1>18. ASSUME NEW c \in Cli, SeesReady(c) \/ WaitRunsOut(c)
       PROVE  LifeInv'
  BY <1>15, <1>16, <1>18 DEF SeesReady, WaitRunsOut, LifeTypeOK
<1>19. CASE UNCHANGED processVars
  BY <1>19 DEF processVars, LifeTypeOK, Holder, Socket, Remembered, Fresh, Unmanaged
<1>20. QED
  BY <1>2, <1>3, <1>4, <1>5, <1>6, <1>7, <1>9, <1>10, <1>13, <1>14, <1>17, <1>18, <1>19,
     LifeCases

THEOREM LifeInvariant == Spec => []LifeInv
<1>1. LifeInv /\ [Next]_daemonVars => LifeInv'
  BY NextLife
<1>2. QED
  BY <1>1, InitLife, PTL DEF Spec

\* Whichever processes start and die, the one daemon that serves is the one daemon.pid
\* names, if it could write it (the order in Server.Start: port, then pid file).
THEOREM PidFileNames == Spec => []PidFileNamesTheServer
<1>1. LifeInv => PidFileNamesTheServer
  <2> SUFFICES ASSUME LifeInv
               PROVE  PidFileNamesTheServer
    OBVIOUS
  <2>1. Server \in SUBSET {tcp}
    BY DEF LifeInv, Holder, Server
  <2>2. IsFiniteSet({tcp}) /\ Cardinality({tcp}) = 1
    BY FS_Singleton
  <2>3. IsFiniteSet(Server) /\ Cardinality(Server) <= Cardinality({tcp})
    BY <2>1, <2>2, FS_Subset
  <2>4. \A p \in Server : pidfile = p \/ p \in unnamed
    BY DEF LifeInv, Holder, Server
  <2>5. QED
    BY <2>2, <2>3, <2>4 DEF PidFileNamesTheServer
<1>2. QED
  BY <1>1, LifeInvariant, PTL

\* The socket path leads to the daemon that listened on it last, for only the one that
\* serves touches it.
THEOREM SocketLeads == Spec => []SocketLeadsToTheServer
<1>1. LifeInv => SocketLeadsToTheServer
  BY DEF LifeInv, Socket, SocketLeadsToTheServer, Daemons
<1>2. QED
  BY <1>1, LifeInvariant, PTL

\* The two together, as the run checks them.
THEOREM FilesName == Spec => []FilesNameTheServer
BY PidFileNames, SocketLeads, PTL DEF FilesNameTheServer

\* A restart that reports success left no daemon of before serving, except one forked
\* where an agent or a task is installed, and one that could not write its pid file.
THEOREM RestartReplaces == Spec => []RestartIsFresh
<1>1. LifeInv => RestartIsFresh
  <2> SUFFICES ASSUME LifeInv, NEW c \in Cli,
                      cli[c] = <<"done", "restart">>, old[c] # None
               PROVE  \/ auto # "none" /\ managed # old[c]
                      \/ auto = "none" /\ old[c] \in unnamed
    BY DEF RestartIsFresh
  <2>1. cli[c][2] = "restart"
    OBVIOUS
  <2>2. QED
    BY <2>1 DEF LifeInv, Fresh
<1>2. QED
  BY <1>1, LifeInvariant, PTL

-----------------------------------------------------------------------------
\* The certificate

Pcs == {"none", "ca", "names", "peers", "cert", "key", "loadCert", "loadKey", "swap"}

JobRecord ==
    [pc : Pcs, wants : SUBSET Name, names : SUBSET Name, key : Nat, alone : BOOLEAN]

LeafShape ==
    /\ {names, peers, leaf, covered} \subseteq SUBSET Name
    /\ made \in Nat /\ keyFile \in Nat
    /\ certFile \in [key : Nat, names : SUBSET Name]
    /\ job \in [Job -> JobRecord]

\* A job that is alone is the only one inside reloadTLSCert.
Alone == \A j, k \in Job : Active(j) /\ Active(k) /\ job[j].alone => j = k

\* What a lone job has written is on file, and what it loads is that.
Own ==
    \A j \in Job :
        /\ job[j].alone /\ job[j].pc \in {"key", "loadCert", "loadKey", "swap"}
             => certFile.key # 0 /\ certFile.names = job[j].wants
        /\ job[j].alone /\ job[j].pc \in {"loadKey", "swap"} => job[j].names = job[j].wants

\* The covered names are in whatever a reload may still make a leaf of: what it has
\* read, or what it is about to load.
CarriedBy(j) ==
    /\ job[j].pc = "peers" => covered \subseteq job[j].wants \cup peers
    /\ job[j].pc \in {"cert", "key", "loadCert"} => covered \subseteq job[j].wants
    /\ job[j].pc \in {"key", "loadCert"} /\ certFile.key # 0
         => covered \subseteq certFile.names
    /\ job[j].pc \in {"loadKey", "swap"} /\ job[j].key # 0
         => covered \subseteq job[j].names
    /\ job[j].pc = "swap" => job[j].key # 0

Carried ==
    /\ covered \subseteq Registered
    /\ covered \subseteq leaf
    /\ \A j \in Job \ {Setup} : CarriedBy(j)

\* Setup reads nothing back.
Writer == job[Setup].pc \in {"none", "cert", "key"}

LeafInv == LeafShape /\ Alone /\ Own /\ Carried /\ Writer

\* The steps that touch the certificate, one disjunct each.
LEMMA LeafCases ==
    ASSUME [Next]_daemonVars
    PROVE  \/ \E boots \in BOOLEAN : LeafAnew(boots)
           \/ startTLS
           \/ EnsuresLeaf
           \/ \E h \in Handler, n \in Name : ChangesNames(h, n)
           \/ \E n \in Name : ChangesTemporary(n)
           \/ \E j \in Job : tlsHostnames(j)
           \/ \E j \in Job : peerRouteNames(j)
           \/ \E j \in Job : GeneratesLeaf(j)
           \/ \E j \in Job : WritesKey(j)
           \/ \E j \in Job : WriteFails(j)
           \/ \E j \in Job : LoadsCert(j)
           \/ \E j \in Job : LoadsKey(j)
           \/ \E j \in Job : SwapsLeaf(j)
           \/ UNCHANGED leafVars
<1>1. ASSUME NEW p \in Pid, Process(Daemon(p))
      PROVE  UNCHANGED leafVars \/ \E boots \in BOOLEAN : LeafAnew(boots)
  BY <1>1 DEF Process
<1>2. ASSUME Process(SetsUp)
      PROVE  UNCHANGED leafVars \/ \E boots \in BOOLEAN : LeafAnew(boots)
  BY <1>2 DEF Process
<1>3. ASSUME NEW c \in Cli, Process(User(c))
      PROVE  UNCHANGED leafVars \/ \E boots \in BOOLEAN : LeafAnew(boots)
  BY <1>3 DEF Process
<1>4. CASE LeafNext
  BY <1>4 DEF LeafNext, Reload
<1>5. QED
  BY <1>1, <1>2, <1>3, <1>4 DEF Next, daemonVars

LEMMA Jobs ==
    /\ Boot \in Job /\ Setup \in Job /\ Handler \subseteq Job
    /\ Boot # Setup /\ Setup \notin Handler
BY BootAssumption DEF Job

LEMMA InitLeaf == Init => LeafInv
<1> SUFFICES ASSUME LeafInit
             PROVE  LeafInv
  BY DEF Init
<1>1. LeafShape
  BY DEF LeafInit, NoJob, Torn, LeafShape, JobRecord, Pcs
<1>2. \A j \in Job : job[j].pc = "none"
  BY DEF LeafInit, NoJob
<1>3. Alone /\ Own /\ Writer
  BY <1>2, Jobs DEF Alone, Active, Own, Writer
<1>4. Carried
  BY <1>2 DEF LeafInit, Carried, CarriedBy
<1>5. QED
  BY <1>1, <1>3, <1>4 DEF LeafInv

\* A job that enters is at its beginning, and whoever was inside is not alone now.
LEMMA EntersKeeps ==
    ASSUME LeafInv, NEW i \in Job, NEW pc \in {"names", "cert"}, Enters(i, pc),
           pc = "cert" <=> i = Setup,
           certFile' = certFile, covered' \subseteq covered,
           \A n \in covered' : n \in peers => n \in peers',
           job[i].pc \in {"none", "ca"}
    PROVE  /\ job' \in [Job -> JobRecord]
           /\ Alone' /\ Own' /\ Writer'
           /\ \A j \in Job \ {Setup} : CarriedBy(j)'
<1> USE DEF LeafInv, LeafShape
<1>1. /\ job'[i].pc = pc /\ job'[i].wants = {} /\ job'[i].names = {} /\ job'[i].key = 0
      /\ job'[i].alone = ~\E j \in Job \ {i} : Active(j)
  BY DEF Enters, NoJob
<1>2. \A j \in Job \ {i} :
        /\ job'[j].pc = job[j].pc /\ job'[j].wants = job[j].wants
        /\ job'[j].names = job[j].names /\ job'[j].key = job[j].key
        /\ job'[j].alone = (job[j].alone /\ ~Active(j))
  BY DEF Enters, JobRecord
<1>3. job' \in [Job -> JobRecord]
  BY DEF Enters, NoJob, JobRecord, Pcs
<1>4. Alone'
  <2> SUFFICES ASSUME NEW j \in Job, NEW k \in Job, Active(j)', Active(k)', job'[j].alone
               PROVE  j = k
    BY DEF Alone
  <2>1. CASE j = i
    BY <1>1, <1>2, <2>1 DEF Active
  <2>2. CASE j # i
    BY <1>2, <2>2 DEF Active
  <2>3. QED
    BY <2>1, <2>2
<1>5. Own'
  BY <1>1, <1>2 DEF Own, Active
<1>6. Writer'
  BY <1>1, <1>2, Jobs DEF Writer
<1>7. ASSUME NEW j \in Job \ {Setup}
      PROVE  CarriedBy(j)'
  <2>1. CASE j = i
    BY <1>1, <2>1 DEF CarriedBy
  <2>2. CASE j # i
    BY <1>2, <2>2 DEF Carried, CarriedBy
  <2>3. QED
    BY <2>1, <2>2
<1>8. QED
  BY <1>3, <1>4, <1>5, <1>6, <1>7

LEMMA NextLeaf == LeafInv /\ [Next]_daemonVars => LeafInv'
<1> SUFFICES ASSUME LeafInv, [Next]_daemonVars
             PROVE  LeafInv'
  OBVIOUS
<1> USE Jobs DEF LeafInv
<1>1. ASSUME NEW boots \in BOOLEAN, LeafAnew(boots)
      PROVE  LeafInv'
  <2>1. /\ covered' = {} /\ leaf' = {} /\ peers' = {} /\ names' \in SUBSET Name
        /\ UNCHANGED <<certFile, keyFile, made>>
        /\ job'[Setup] = job[Setup]
        /\ \A j \in Job \ {Setup} : job'[j].pc \in {"none", "ca"}
    BY <1>1 DEF LeafAnew, NoJob, LeafShape
  <2>2. job' \in [Job -> JobRecord]
    BY <1>1 DEF LeafAnew, NoJob, LeafShape, JobRecord, Pcs
  <2>3. LeafShape'
    BY <2>1, <2>2 DEF LeafShape
  <2>4. Alone' /\ Own'
    <3>1. \A j \in Job : Active(j)' => j = Setup
      BY <2>1 DEF Active
    <3>2. Own'
      BY <2>1 DEF Own
    <3>3. QED
      BY <3>1, <3>2 DEF Alone
  <2>5. Carried' /\ Writer'
    BY <2>1 DEF Carried, CarriedBy, Writer
  <2>6. QED
    BY <2>3, <2>4, <2>5
<1>2. CASE startTLS
  <2>1. CASE Enters(Boot, "names")
    <3>1. /\ UNCHANGED <<names, peers, certFile, keyFile, made, leaf, covered>>
          /\ job[Boot].pc = "ca"
      BY <1>2 DEF startTLS, At
    <3>2. /\ job' \in [Job -> JobRecord]
          /\ Alone' /\ Own' /\ Writer'
          /\ \A j \in Job \ {Setup} : CarriedBy(j)'
      BY <2>1, <3>1, EntersKeeps
    <3>3. QED
      BY <3>1, <3>2 DEF LeafShape, Carried, Registered
  <2>2. CASE Fails(Boot)
    <3>1. /\ UNCHANGED <<names, peers, certFile, keyFile, made, leaf, covered>>
          /\ job' = [job EXCEPT ![Boot] = NoJob]
      BY <1>2, <2>2 DEF startTLS, Fails
    <3>2. LeafShape'
      BY <3>1 DEF LeafShape, NoJob, JobRecord, Pcs
    <3>3. Alone' /\ Own' /\ Carried' /\ Writer'
      BY <3>1 DEF LeafShape, NoJob, Alone, Active, Own, Carried, CarriedBy, Writer, Registered
    <3>4. QED
      BY <3>2, <3>3
  <2>3. QED
    BY <1>2, <2>1, <2>2 DEF startTLS
\* Names come and go: a name that does is not covered any more.
<1>3. ASSUME NEW n \in Name, Changes(n)
      PROVE  /\ {names', peers'} \subseteq SUBSET Name
             /\ covered' = covered \ {n} /\ covered' \subseteq Registered'
             /\ \A x \in covered' : x \in peers => x \in peers'
             /\ UNCHANGED <<certFile, keyFile, made, leaf>>
  BY <1>3 DEF Changes, Toggled, LeafShape, Carried, Registered
<1>4. ASSUME NEW h \in Handler, NEW n \in Name, ChangesNames(h, n), Enters(h, "names")
      PROVE  LeafInv'
  <2>1. Changes(n) /\ job[h].pc = "none" /\ h \in Job /\ h # Setup
    BY <1>4 DEF ChangesNames
  <2>2. /\ {names', peers'} \subseteq SUBSET Name
        /\ covered' = covered \ {n} /\ covered' \subseteq Registered'
        /\ \A x \in covered' : x \in peers => x \in peers'
        /\ UNCHANGED <<certFile, keyFile, made, leaf>>
    BY <1>3, <2>1
  <2>3. /\ job' \in [Job -> JobRecord]
        /\ Alone' /\ Own' /\ Writer'
        /\ \A j \in Job \ {Setup} : CarriedBy(j)'
    BY <1>4, <2>1, <2>2, EntersKeeps
  <2>4. QED
    BY <2>2, <2>3 DEF LeafShape, Carried
<1>5. ASSUME NEW n \in Name, Changes(n), UNCHANGED job
      PROVE  LeafInv'
  <2>1. /\ {names', peers'} \subseteq SUBSET Name
        /\ covered' = covered \ {n} /\ covered' \subseteq Registered'
        /\ \A x \in covered' : x \in peers => x \in peers'
        /\ UNCHANGED <<certFile, keyFile, made, leaf>>
    BY <1>3, <1>5
  <2>2. LeafShape' /\ Alone' /\ Own' /\ Writer'
    BY <1>5, <2>1 DEF LeafShape, Alone, Active, Own, Writer
  <2>3. Carried'
    BY <1>5, <2>1 DEF Carried, CarriedBy
  <2>4. QED
    BY <2>2, <2>3
<1>6. CASE EnsuresLeaf
  <2>1. /\ Enters(Setup, "cert") /\ job[Setup].pc = "none"
        /\ UNCHANGED <<names, peers, certFile, keyFile, made, leaf, covered>>
    BY <1>6 DEF EnsuresLeaf
  <2>2. /\ job' \in [Job -> JobRecord]
        /\ Alone' /\ Own' /\ Writer'
        /\ \A j \in Job \ {Setup} : CarriedBy(j)'
    BY <2>1, EntersKeeps
  <2>3. QED
    BY <2>1, <2>2 DEF LeafShape, Carried, Registered
<1>7. ASSUME NEW j \in Job, tlsHostnames(j)
      PROVE  LeafInv'
  <2>1. /\ job[j].pc = "names" /\ job' = [job EXCEPT ![j].pc = "peers", ![j].wants = names]
        /\ UNCHANGED <<names, peers, certFile, keyFile, made, leaf, covered>>
    BY <1>7 DEF tlsHostnames, At
  <2>2. [job[j] EXCEPT !.pc = "peers", !.wants = names] \in JobRecord
    BY DEF LeafShape, JobRecord, Pcs
  <2>3. LeafShape'
    BY <2>1, <2>2 DEF LeafShape
  <2>4. Alone' /\ Own' /\ Writer'
    BY <2>1 DEF LeafShape, Alone, Active, Own, Writer
  <2>5. Carried'
    BY <2>1 DEF LeafShape, Carried, CarriedBy, Registered
  <2>6. QED
    BY <2>3, <2>4, <2>5
<1>8. ASSUME NEW j \in Job, peerRouteNames(j)
      PROVE  LeafInv'
  <2>1. /\ job[j].pc = "peers"
        /\ job' = [job EXCEPT ![j].pc = "cert", ![j].wants = job[j].wants \cup peers]
        /\ UNCHANGED <<names, peers, certFile, keyFile, made, leaf, covered>>
    BY <1>8 DEF peerRouteNames, At
  <2>2. [job[j] EXCEPT !.pc = "cert", !.wants = job[j].wants \cup peers] \in JobRecord
    <3>1. job[j] \in JobRecord /\ job[j].wants \cup peers \in SUBSET Name
      BY DEF LeafShape, JobRecord
    <3>2. QED
      BY <3>1 DEF JobRecord, Pcs
  <2>3. LeafShape'
    BY <2>1, <2>2 DEF LeafShape
  <2>4. Alone' /\ Own' /\ Writer'
    BY <2>1 DEF LeafShape, Alone, Active, Own, Writer
  <2>5. Carried'
    BY <2>1 DEF LeafShape, Carried, CarriedBy, Registered, Writer
  <2>6. QED
    BY <2>3, <2>4, <2>5
\* Setup takes covered with it if a reload could still read its certificate.
<1>9. ASSUME NEW j \in Job, GeneratesLeaf(j)
      PROVE  LeafInv'
  <2>1. /\ job[j].pc = "cert" /\ made' = made + 1
        /\ certFile' = [key |-> made + 1, names |-> job[j].wants]
        /\ job' = [job EXCEPT ![j].pc = "key", ![j].key = made + 1]
        /\ UNCHANGED <<names, peers, keyFile, leaf>>
        /\ covered' \in {{}, covered}
        /\ j = Setup /\ (\E i \in Job \ {j} : job[i].pc \in {"key", "loadCert"}) => covered' = {}
    BY <1>9 DEF GeneratesLeaf, Overwrites, At
  <2>2. LeafShape'
    <3> DEFINE key == made + 1
    <3>1. key \in Nat
      BY DEF LeafShape
    <3> HIDE DEF key
    <3>2. [job[j] EXCEPT !.pc = "key", !.key = key] \in JobRecord
      BY <3>1 DEF LeafShape, JobRecord, Pcs
    <3>3. certFile' \in [key : Nat, names : SUBSET Name]
      BY <2>1, <3>1 DEF key, LeafShape, JobRecord
    <3>4. QED
      BY <2>1, <3>1, <3>2, <3>3 DEF key, LeafShape
  <2>3. Alone' /\ Writer'
    BY <2>1 DEF LeafShape, Alone, Active, Writer
  <2>4. Own'
    BY <2>1 DEF LeafShape, Alone, Active, Own
  <2>5. covered' \subseteq Registered' /\ covered' \subseteq leaf'
    BY <2>1 DEF Carried, Registered
  <2>6. ASSUME NEW k \in Job \ {Setup}
        PROVE  CarriedBy(k)'
    <3>1. CASE j = Setup
      BY <2>1, <2>6, <3>1 DEF LeafShape, Carried, CarriedBy
    <3>2. CASE j # Setup
      <4>1. covered' \subseteq job[j].wants
        BY <2>1, <3>2 DEF Carried, CarriedBy
      <4>2. covered' \subseteq certFile'.names /\ covered' \subseteq covered
        BY <2>1, <4>1
      <4>3. CASE k = j
        BY <2>1, <4>1, <4>2, <4>3 DEF LeafShape, CarriedBy
      <4>4. CASE k # j
        BY <2>1, <4>2, <4>4 DEF LeafShape, Carried, CarriedBy
      <4>5. QED
        BY <4>3, <4>4
    <3>3. QED
      BY <3>1, <3>2
  <2>7. QED
    BY <2>2, <2>3, <2>4, <2>5, <2>6 DEF Carried
\* Setup is done with its key; a reload goes on to read.
<1>10. ASSUME NEW j \in Job, WritesKey(j)
       PROVE  LeafInv'
  <2>1. /\ job[j].pc = "key" /\ keyFile' = job[j].key
        /\ UNCHANGED <<names, peers, certFile, made, leaf, covered>>
    BY <1>10 DEF WritesKey, At
  <2>2. CASE j = Setup
    <3>1. job' = [job EXCEPT ![j] = NoJob]
      BY <1>10, <2>2 DEF WritesKey
    <3>2. LeafShape'
      BY <2>1, <3>1 DEF LeafShape, NoJob, JobRecord, Pcs
    <3>3. Alone' /\ Own' /\ Writer'
      BY <2>1, <3>1 DEF LeafShape, NoJob, Alone, Active, Own, Writer
    <3>4. Carried'
      BY <2>1, <2>2, <3>1 DEF LeafShape, NoJob, Carried, CarriedBy, Registered
    <3>5. QED
      BY <3>2, <3>3, <3>4
  <2>3. CASE j # Setup
    <3>1. job' = [job EXCEPT ![j].pc = "loadCert"]
      BY <1>10, <2>3 DEF WritesKey, To
    <3>2. LeafShape'
      BY <2>1, <3>1 DEF LeafShape, JobRecord, Pcs
    <3>3. Alone' /\ Own' /\ Writer'
      BY <2>1, <2>3, <3>1 DEF LeafShape, Alone, Active, Own, Writer
    <3>4. Carried'
      BY <2>1, <3>1 DEF LeafShape, Carried, CarriedBy, Registered
    <3>5. QED
      BY <3>2, <3>3, <3>4
  <2>4. QED
    BY <2>2, <2>3
<1>11. ASSUME NEW j \in Job, WriteFails(j)
       PROVE  LeafInv'
  <2>1. /\ job[j].pc \in {"cert", "key"} /\ job' = [job EXCEPT ![j] = NoJob]
        /\ certFile' \in {certFile, Torn} /\ keyFile' \in {keyFile, 0}
        /\ certFile' # certFile => job[j].pc = "cert"
        /\ UNCHANGED <<names, peers, made, leaf, covered>>
    BY <1>11 DEF WriteFails, Fails, At
  <2>2. LeafShape'
    BY <2>1 DEF LeafShape, NoJob, Torn, JobRecord, Pcs
  <2>3. Alone' /\ Writer'
    BY <2>1 DEF LeafShape, NoJob, Alone, Active, Writer
  <2>4. Own'
    BY <2>1 DEF LeafShape, NoJob, Alone, Active, Own
  <2>5. Carried'
    BY <2>1 DEF LeafShape, NoJob, Torn, Carried, CarriedBy, Registered
  <2>6. QED
    BY <2>2, <2>3, <2>4, <2>5
<1>12. ASSUME NEW j \in Job, LoadsCert(j)
       PROVE  LeafInv'
  <2>1. /\ job[j].pc = "loadCert"
        /\ job' = [job EXCEPT ![j].pc = "loadKey", ![j].names = certFile.names,
                              ![j].key = certFile.key]
        /\ UNCHANGED <<names, peers, certFile, keyFile, made, leaf, covered>>
    BY <1>12 DEF LoadsCert, At
  <2>2. LeafShape'
    <3>1. [job[j] EXCEPT !.pc = "loadKey", !.names = certFile.names, !.key = certFile.key]
            \in JobRecord
      BY DEF LeafShape, JobRecord, Pcs
    <3>2. QED
      BY <2>1, <3>1 DEF LeafShape
  <2>3. Alone' /\ Own' /\ Writer'
    BY <2>1 DEF LeafShape, Alone, Active, Own, Writer
  <2>4. Carried'
    BY <2>1 DEF LeafShape, Carried, CarriedBy, Registered
  <2>5. QED
    BY <2>2, <2>3, <2>4
<1>13. ASSUME NEW j \in Job, LoadsKey(j)
       PROVE  LeafInv'
  <2>1. job[j].pc = "loadKey"
        /\ UNCHANGED <<names, peers, certFile, keyFile, made, leaf, covered>>
    BY <1>13 DEF LoadsKey, At
  <2>2. CASE job[j].key # 0 /\ To(j, "swap")
    <3>1. job' = [job EXCEPT ![j].pc = "swap"]
      BY <2>2 DEF To
    <3>2. LeafShape'
      BY <2>1, <3>1 DEF LeafShape, JobRecord, Pcs
    <3>3. Alone' /\ Own' /\ Writer'
      BY <2>1, <3>1 DEF LeafShape, Alone, Active, Own, Writer
    <3>4. Carried'
      BY <2>1, <2>2, <3>1 DEF LeafShape, Carried, CarriedBy, Registered
    <3>5. QED
      BY <3>2, <3>3, <3>4
  <2>3. CASE Fails(j)
    <3>1. job' = [job EXCEPT ![j] = NoJob]
      BY <2>3 DEF Fails
    <3>2. LeafShape'
      BY <2>1, <3>1 DEF LeafShape, NoJob, JobRecord, Pcs
    <3>3. Alone' /\ Own' /\ Carried' /\ Writer'
      BY <2>1, <3>1 DEF LeafShape, NoJob, Alone, Active, Own, Carried, CarriedBy, Writer,
                        Registered
    <3>4. QED
      BY <3>2, <3>3
  <2>4. QED
    BY <1>13, <2>2, <2>3 DEF LoadsKey
<1>14. ASSUME NEW j \in Job, SwapsLeaf(j)
       PROVE  LeafInv'
  <2>1. /\ job[j].pc = "swap" /\ leaf' = job[j].names /\ j # Setup
        /\ covered' = IF job[j].alone THEN job[j].wants \cap Registered ELSE covered
        /\ job' = [job EXCEPT ![j] = NoJob]
        /\ UNCHANGED <<names, peers, certFile, keyFile, made>>
    BY <1>14 DEF SwapsLeaf, At, Writer
  <2>2. LeafShape'
    BY <2>1 DEF LeafShape, NoJob, JobRecord, Pcs
  <2>3. Alone' /\ Writer'
    BY <2>1 DEF LeafShape, NoJob, Alone, Active, Writer
  <2>4. Own'
    BY <2>1 DEF LeafShape, NoJob, Own
  <2>5. CASE job[j].alone
    <3>1. \A k \in Job : job'[k].pc \in {"none", "ca"}
      BY <2>1, <2>5 DEF LeafShape, NoJob, Alone, Active
    <3>2. job[j].names = job[j].wants
      BY <2>1, <2>5 DEF Own
    <3>3. Carried'
      BY <2>1, <2>5, <3>1, <3>2 DEF Carried, CarriedBy, Registered
    <3>4. QED
      BY <2>2, <2>3, <2>4, <3>3
  <2>6. CASE ~job[j].alone
    <3>1. covered' = covered /\ covered \subseteq leaf'
      BY <2>1, <2>6 DEF Carried, CarriedBy
    <3>2. Carried'
      BY <2>1, <3>1 DEF LeafShape, NoJob, Carried, CarriedBy, Registered
    <3>3. QED
      BY <2>2, <2>3, <2>4, <3>2
  <2>7. QED
    BY <2>5, <2>6 DEF LeafShape
<1>15. CASE UNCHANGED leafVars
  BY <1>15 DEF leafVars, LeafShape, Alone, Active, Own, Carried, CarriedBy, Writer, Registered
<1>16. ASSUME NEW h \in Handler, NEW n \in Name, ChangesNames(h, n)
       PROVE  LeafInv'
  BY <1>4, <1>5, <1>16 DEF ChangesNames
<1>17. ASSUME NEW n \in Name, ChangesTemporary(n)
       PROVE  LeafInv'
  BY <1>5, <1>17 DEF ChangesTemporary
<1>18. QED
  BY <1>1, <1>2, <1>6, <1>7, <1>8, <1>9, <1>10, <1>11, <1>12, <1>13, <1>14, <1>15, <1>16,
     <1>17, LeafCases

\* However reloads interleave and fail over the two files, the leaf that is served never
\* loses a name that is still registered and that a lone reload had put into it.
THEOREM CoveredStayServed == Spec => []CoveredNamesAreServed
<1>1. LeafInv /\ [Next]_daemonVars => LeafInv'
  BY NextLeaf
<1>2. LeafInv => CoveredNamesAreServed
  BY DEF LeafInv, Carried, CoveredNamesAreServed
<1>3. QED
  BY <1>1, <1>2, InitLeaf, PTL DEF Spec

\* What a lone job finds is a pair: the key it wrote, then the two files, then the
\* certificate in hand and the key on file.
Matched ==
    \A j \in Job : job[j].alone =>
        /\ job[j].pc = "key" => job[j].key # 0 /\ job[j].key = certFile.key
        /\ job[j].pc = "loadCert" => certFile.key # 0 /\ certFile.key = keyFile
        /\ job[j].pc = "loadKey" => job[j].key # 0 /\ job[j].key = keyFile

\* A step that leaves the two files alone, and no job further than it was.
LEMMA MatchedStays ==
    ASSUME Matched, certFile' = certFile, keyFile' = keyFile,
           \A j \in Job : \/ job'[j].pc \notin {"key", "loadCert", "loadKey"}
                          \/ /\ job'[j].pc = job[j].pc /\ job'[j].key = job[j].key
                             /\ job'[j].alone => job[j].alone
    PROVE  Matched'
BY DEF Matched

LEMMA NextMatched == LeafInv /\ Matched /\ [Next]_daemonVars => Matched'
<1> SUFFICES ASSUME LeafInv, Matched, [Next]_daemonVars
             PROVE  Matched'
  OBVIOUS
<1> USE Jobs DEF LeafInv, LeafShape
<1>1. ASSUME NEW boots \in BOOLEAN, LeafAnew(boots)
      PROVE  Matched'
  <2>1. /\ UNCHANGED <<certFile, keyFile>> /\ job'[Setup] = job[Setup]
        /\ \A j \in Job \ {Setup} : job'[j].pc \in {"none", "ca"}
    BY <1>1 DEF LeafAnew, NoJob
  <2>2. QED
    BY <2>1, MatchedStays
\* Who enters is at its beginning, and nobody is alone who was not.
<1>2. ASSUME NEW i \in Job, NEW pc \in {"names", "cert"}, Enters(i, pc),
             UNCHANGED <<certFile, keyFile>>
      PROVE  Matched'
  <2>1. job'[i].pc = pc
    BY <1>2 DEF Enters, NoJob
  <2>2. \A j \in Job \ {i} : /\ job'[j].pc = job[j].pc /\ job'[j].key = job[j].key
                             /\ job'[j].alone => job[j].alone
    BY <1>2 DEF Enters, JobRecord
  <2>3. QED
    BY <1>2, <2>1, <2>2, MatchedStays
<1>3. ASSUME NEW i \in Job, job' = [job EXCEPT ![i] = NoJob], UNCHANGED <<certFile, keyFile>>
      PROVE  Matched'
  <2>1. \A j \in Job : job'[j].pc = "none" \/ job'[j] = job[j]
    BY <1>3 DEF NoJob
  <2>2. QED
    BY <1>3, <2>1, MatchedStays
<1>4. CASE startTLS
  BY <1>2, <1>3, <1>4 DEF startTLS, Fails
<1>5. ASSUME NEW h \in Handler, NEW n \in Name, ChangesNames(h, n)
      PROVE  Matched'
  <2>1. CASE Enters(h, "names")
    BY <1>2, <1>5, <2>1 DEF ChangesNames, Changes
  <2>2. CASE UNCHANGED job
    BY <1>5, <2>2, MatchedStays DEF ChangesNames, Changes
  <2>3. QED
    BY <1>5, <2>1, <2>2 DEF ChangesNames
<1>6. ASSUME NEW n \in Name, ChangesTemporary(n)
      PROVE  Matched'
  BY <1>6, MatchedStays DEF ChangesTemporary, Changes
<1>7. CASE EnsuresLeaf
  BY <1>2, <1>7 DEF EnsuresLeaf
<1>8. ASSUME NEW j \in Job, tlsHostnames(j) \/ peerRouteNames(j)
      PROVE  Matched'
  <2>1. /\ job'[j].pc \in {"peers", "cert"} /\ \A k \in Job \ {j} : job'[k] = job[k]
        /\ UNCHANGED <<certFile, keyFile>>
    BY <1>8 DEF tlsHostnames, peerRouteNames, JobRecord
  <2>2. QED
    BY <2>1, MatchedStays
\* While a lone job is inside nobody else writes, and nobody else has more to load.
<1>9. ASSUME NEW j \in Job, Active(j), \A k \in Job \ {j} : job'[k] = job[k],
             job[j].alone /\ job'[j].alone =>
               /\ job'[j].pc = "key" => job'[j].key # 0 /\ job'[j].key = certFile'.key
               /\ job'[j].pc = "loadCert" => certFile'.key # 0 /\ certFile'.key = keyFile'
               /\ job'[j].pc = "loadKey" => job'[j].key # 0 /\ job'[j].key = keyFile',
             job'[j].pc \in {"none"} \/ job'[j].alone = job[j].alone
      PROVE  Matched'
  <2> SUFFICES ASSUME NEW k \in Job, job'[k].alone
               PROVE /\ job'[k].pc = "key" => job'[k].key # 0 /\ job'[k].key = certFile'.key
                     /\ job'[k].pc = "loadCert" => certFile'.key # 0 /\ certFile'.key = keyFile'
                     /\ job'[k].pc = "loadKey" => job'[k].key # 0 /\ job'[k].key = keyFile'
    BY DEF Matched
  <2>1. CASE k = j
    BY <1>9, <2>1
  <2>2. CASE k # j
    BY <1>9, <2>2 DEF Alone, Active
  <2>3. QED
    BY <2>1, <2>2
<1>10. ASSUME NEW j \in Job, GeneratesLeaf(j)
       PROVE  Matched'
  <2>1. made + 1 # 0
    OBVIOUS
  <2>2. /\ job[j].pc = "cert" /\ certFile' = [key |-> made + 1, names |-> job[j].wants]
        /\ job' = [job EXCEPT ![j].pc = "key", ![j].key = made + 1]
    BY <1>10 DEF GeneratesLeaf, At
  <2>3. /\ job'[j].pc = "key" /\ job'[j].key = made + 1 /\ job'[j].alone = job[j].alone
        /\ \A k \in Job \ {j} : job'[k] = job[k]
    BY <2>2 DEF JobRecord
  <2>4. QED
    BY <1>9, <2>1, <2>2, <2>3 DEF Active
<1>11. ASSUME NEW j \in Job, WritesKey(j)
       PROVE  Matched'
  <2>1. job[j].pc = "key" /\ keyFile' = job[j].key /\ certFile' = certFile
    BY <1>11 DEF WritesKey, At
  <2>2. CASE j = Setup
    <3>1. job'[j].pc = "none" /\ \A k \in Job \ {j} : job'[k] = job[k]
      BY <1>11, <2>2 DEF WritesKey, NoJob
    <3>2. QED
      BY <1>9, <2>1, <3>1 DEF Active
  <2>3. CASE j # Setup
    <3>1. /\ job'[j].pc = "loadCert" /\ job'[j].alone = job[j].alone
          /\ \A k \in Job \ {j} : job'[k] = job[k]
      BY <1>11, <2>3 DEF WritesKey, To, JobRecord
    <3>2. QED
      BY <1>9, <2>1, <3>1 DEF Active, Matched
  <2>4. QED
    BY <2>2, <2>3
<1>12. ASSUME NEW j \in Job, WriteFails(j)
       PROVE  Matched'
  <2>1. /\ job[j].pc \in {"cert", "key"} /\ job'[j].pc = "none"
        /\ \A k \in Job \ {j} : job'[k] = job[k]
    BY <1>12 DEF WriteFails, Fails, NoJob, At
  <2>2. QED
    BY <1>9, <2>1 DEF Active
<1>13. ASSUME NEW j \in Job, LoadsCert(j)
       PROVE  Matched'
  <2>1. /\ job[j].pc = "loadCert" /\ UNCHANGED <<certFile, keyFile>>
        /\ job'[j].pc = "loadKey" /\ job'[j].key = certFile.key /\ job'[j].alone = job[j].alone
        /\ \A k \in Job \ {j} : job'[k] = job[k]
    BY <1>13 DEF LoadsCert, At, JobRecord
  <2>2. QED
    BY <1>9, <2>1 DEF Active, Matched
<1>14. ASSUME NEW j \in Job, LoadsKey(j)
       PROVE  Matched'
  <2>1. CASE To(j, "swap")
    <3>1. job'[j].pc = "swap" /\ \A k \in Job \ {j} : job'[k] = job[k]
      BY <2>1 DEF To, JobRecord
    <3>2. QED
      BY <1>14, <3>1, MatchedStays DEF LoadsKey
  <2>2. QED
    BY <1>3, <1>14, <2>1 DEF LoadsKey, Fails
<1>15. ASSUME NEW j \in Job, SwapsLeaf(j)
       PROVE  Matched'
  BY <1>3, <1>15 DEF SwapsLeaf
<1>16. CASE UNCHANGED leafVars
  BY <1>16, MatchedStays DEF leafVars
<1>17. QED
  BY <1>1, <1>4, <1>5, <1>6, <1>7, <1>8, <1>10, <1>11, <1>12, <1>13, <1>14, <1>15, <1>16,
     LeafCases

\* A reload that no other overlaps never finds the two files at odds, whatever an
\* earlier daemon or setup left of them: when startTLS gives up, another reload or setup
\* was under way, or the authority, a write or the listener has failed.
THEOREM LoneBootSucceeds == Spec => LoneBootOpensHTTPS
<1>1. Init => Matched
  BY DEF Init, LeafInit, NoJob, Matched
<1>2. ASSUME LeafInv, Matched, [Next]_daemonVars, https # "failed", https' = "failed"
      PROVE  ~job[Boot].alone \/ events' = events + 1
  <2> USE Jobs
  <2>1. ~\E boots \in BOOLEAN : LeafAnew(boots)
    BY <1>2 DEF LeafAnew
  <2>2. CASE startTLS
    BY <1>2, <2>2 DEF startTLS, Event
  <2>3. ASSUME NEW j \in Job, WriteFails(j)
        PROVE  events' = events + 1
    BY <2>3 DEF WriteFails, Event
  <2>4. ASSUME NEW j \in Job, LoadsKey(j)
        PROVE  ~job[Boot].alone
    <3>1. j = Boot /\ job[j].pc = "loadKey" /\ ~(job[j].key # 0 /\ job[j].key = keyFile)
      BY <1>2, <2>4 DEF LoadsKey, At, Fails
    <3>2. QED
      BY <1>2, <3>1 DEF Matched
  <2>5. ASSUME NEW j \in Job, SwapsLeaf(j)
        PROVE  events' = events + 1
    BY <1>2, <2>5 DEF SwapsLeaf, Event
  <2>6. QED
    BY <1>2, <2>1, <2>2, <2>3, <2>4, <2>5, LeafCases
       DEF EnsuresLeaf, Changes, ChangesNames, ChangesTemporary, tlsHostnames,
           peerRouteNames, GeneratesLeaf, WritesKey, LoadsCert, leafVars
<1>3. LeafInv /\ Matched /\ [Next]_daemonVars
        => [https # "failed" /\ https' = "failed"
              => ~job[Boot].alone \/ events' = events + 1]_leafVars
  BY <1>2
<1>4. QED
  BY <1>1, <1>3, InitLeaf, NextLeaf, NextMatched, PTL DEF Spec, LoneBootOpensHTTPS

-----------------------------------------------------------------------------
\* The resolver

\* Who has sent a query has sent one of those it may, and what it has received
\* parses.
DnsInv ==
    /\ client \in [Client ->
          [at : {"idle", "socket", "handler", "upstream", "answered", "dropped", "lost"},
           query : Queries \cup {CHOOSE q \in Queries : TRUE},
           reply : Reply \cup {NoReply}]]
    /\ \A c \in Client : client[c].at # "idle" => client[c].query \in Queries
    /\ RepliesParse

\* The header of a reply and its body agree.
Parses(r) == r.qdcount = r.questions /\ r.ancount = r.answers /\ r.arcount = r.extras

\* Every reply made here, to a query of at most one question, agrees with itself.
LEMMA RepliesMade ==
    ASSUME NEW q \in Query,
           NEW r \in {buildLocalResponse(q), servfail(q), FromUpstream(q)}
    PROVE  r \in Reply /\ (q.qdcount < 2 => Parses(r))
<1>1. \A rcode \in {"NOERROR", "SERVFAIL", "upstream"} :
        /\ Echo(q, rcode) \in Reply
        /\ Echo(q, rcode).ancount = 0 /\ Echo(q, rcode).answers = 0
        /\ Echo(q, rcode).arcount = 0 /\ Echo(q, rcode).extras = 0
        /\ Echo(q, rcode).qdcount = q.qdcount
        /\ q.qdcount < 2 => Echo(q, rcode).questions = q.qdcount
  BY DEF Echo, Reply, Query
<1>2. q.qdcount \in 0..2
  BY DEF Query
<1>3. servfail(q) \in Reply /\ (q.qdcount < 2 => Parses(servfail(q)))
  <2>1. PICK e : e = Echo(q, "SERVFAIL")
    OBVIOUS
  <2>2. PICK b : b = [e EXCEPT !.qdcount = 0, !.questions = 0]
    OBVIOUS
  <2>3. e \in Reply /\ (q.qdcount < 2 => Parses(e))
    BY <1>1, <2>1 DEF Parses
  <2>4. b \in Reply /\ Parses(b)
    <3>1. /\ e.ancount = 0 /\ e.answers = 0 /\ e.arcount = 0 /\ e.extras = 0
      BY <1>1, <2>1
    <3>2. b \in Reply
      <4>1. PICK d : d = [e EXCEPT !.qdcount = 0]
        OBVIOUS
      <4>2. d \in Reply
        BY <2>3, <4>1 DEF Reply
      <4>. QED
        BY <2>2, <4>1, <4>2 DEF Reply
    <3>. QED
      BY <2>2, <2>3, <3>1, <3>2 DEF Parses, Reply
  <2>. QED
    BY <2>1, <2>2, <2>3, <2>4 DEF servfail
<1>4. FromUpstream(q) \in Reply /\ (q.qdcount < 2 => Parses(FromUpstream(q)))
  BY <1>1, <1>2 DEF FromUpstream, Parses, Reply
<1>5. /\ buildLocalResponse(q) \in Reply
      /\ q.qdcount < 2 => Parses(buildLocalResponse(q))
  <2>1. PICK n \in {0, 1} : buildLocalResponse(q)
           \in {servfail(q), [Echo(q, "NOERROR") EXCEPT !.ancount = n, !.answers = n]}
    BY DEF buildLocalResponse
  <2>2. PICK e : e = Echo(q, "NOERROR")
    OBVIOUS
  <2>3. PICK b : b = [e EXCEPT !.ancount = n, !.answers = n]
    OBVIOUS
  <2>4. b \in Reply /\ (q.qdcount < 2 => Parses(b))
    <3>1. /\ e \in Reply /\ e.arcount = 0 /\ e.extras = 0 /\ e.qdcount = q.qdcount
          /\ q.qdcount < 2 => e.questions = q.qdcount
      BY <1>1, <2>2
    <3>2. b \in Reply
      <4>1. PICK d : d = [e EXCEPT !.ancount = n]
        OBVIOUS
      <4>2. d \in Reply
        BY <3>1, <4>1 DEF Reply
      <4>. QED
        BY <2>3, <4>1, <4>2 DEF Reply
    <3>. QED
      BY <2>3, <3>1, <3>2 DEF Parses, Reply
  <2>. QED
    BY <1>3, <2>1, <2>2, <2>3, <2>4
<1>. QED
  BY <1>3, <1>4, <1>5

\* The steps that touch the resolver, one disjunct each.
LEMMA DnsCases ==
    ASSUME [Next]_daemonVars
    PROVE  \/ \E boots, free \in BOOLEAN : DnsAnew(boots, free)
           \/ \E c \in Client : Reads(c)
           \/ \E c \in Client : Handles(c)
           \/ \E c \in Client : Forwards(c)
           \/ \E c \in Client, q \in Queries : Asks(c, q)
           \/ UNCHANGED dnsVars
<1>1. ASSUME NEW step, Process(step)
      PROVE  \/ \E boots, free \in BOOLEAN : DnsAnew(boots, free)
             \/ UNCHANGED dnsVars
  BY <1>1 DEF Process
<1>2. CASE \/ \E p \in Pid : Process(Daemon(p))
           \/ Process(SetsUp)
           \/ \E c \in Cli : Process(User(c))
  BY <1>2 DEF Process
<1>3. CASE DnsNext
  BY <1>3 DEF DnsNext, ReadFails, Serves
<1>. QED
  BY <1>2, <1>3 DEF Next, daemonVars

LEMMA InitDns == Init => DnsInv
BY DEF Init, DnsInit, DnsInv, RepliesParse

LEMMA NextDns == DnsInv /\ [Next]_daemonVars => DnsInv'
<1> SUFFICES ASSUME DnsInv, [Next]_daemonVars PROVE DnsInv'
  OBVIOUS
<1>1. ASSUME NEW c \in Client, NEW r, NEW from \in {"handler", "upstream"},
             Answers(c, from, r),
             r \in {NoReply, buildLocalResponse(client[c].query),
                    servfail(client[c].query), FromUpstream(client[c].query)}
      PROVE  DnsInv'
  <2>1. PICK k : k = [client[c] EXCEPT
                        !.at = IF r = NoReply THEN "dropped" ELSE "answered", !.reply = r]
    OBVIOUS
  <2>2. client' = [client EXCEPT ![c] = k] /\ client[c].query \in Queries
    BY <1>1, <2>1 DEF Answers, DnsInv
  <2>3. client[c].query \in Query
    BY <2>2, QueriesAssumption
  <2>4. /\ r \in Reply \cup {NoReply}
        /\ r # NoReply /\ client[c].query.qdcount < 2 => Parses(r)
    BY <1>1, <2>3, RepliesMade
  <2>5. /\ k.query = client[c].query /\ k.reply = r
        /\ k.at = IF r = NoReply THEN "dropped" ELSE "answered"
    BY <2>1 DEF DnsInv
  <2>6. k \in [at : {"idle", "socket", "handler", "upstream", "answered", "dropped", "lost"},
               query : Queries \cup {CHOOSE q \in Queries : TRUE},
               reply : Reply \cup {NoReply}]
    BY <2>1, <2>4 DEF DnsInv
  <2>7. RepliesParse'
    BY <2>2, <2>4, <2>5 DEF DnsInv, RepliesParse, Parses
  <2>. QED
    BY <2>2, <2>5, <2>6, <2>7 DEF DnsInv
<1>2. ASSUME NEW c \in Client, NEW from, NEW to \in {"handler", "upstream"},
             Moves(c, from, to), from \in {"socket", "handler"}
      PROVE  DnsInv'
  <2>1. PICK k : k = [client[c] EXCEPT !.at = to]
    OBVIOUS
  <2>2. client' = [client EXCEPT ![c] = k] /\ client[c].at = from
    BY <1>2, <2>1 DEF Moves
  <2>. QED
    BY <1>2, <2>1, <2>2 DEF DnsInv, RepliesParse
<1>3. ASSUME NEW c \in Client, NEW q \in Queries, Asks(c, q)
      PROVE  DnsInv'
  <2>1. PICK k : k = [at |-> IF reading THEN "socket" ELSE "lost",
                      query |-> q, reply |-> NoReply]
    OBVIOUS
  <2>2. client' = [client EXCEPT ![c] = k]
    BY <1>3, <2>1 DEF Asks
  <2>. QED
    BY <2>1, <2>2 DEF DnsInv, RepliesParse
<1>4. ASSUME NEW boots \in BOOLEAN, NEW free \in BOOLEAN, DnsAnew(boots, free)
      PROVE  DnsInv'
  <2>1. \A c \in Client :
          \/ client'[c] = client[c]
          \/ /\ client'[c] = [client[c] EXCEPT !.at = "lost"] /\ client[c].at # "idle"
    BY <1>4 DEF DnsAnew
  <2>2. client' = [c \in Client |-> client'[c]]
    BY <1>4 DEF DnsAnew
  <2>3. \A c \in Client :
          /\ client'[c] \in [at : {"idle", "socket", "handler", "upstream", "answered",
                                   "dropped", "lost"},
                             query : Queries \cup {CHOOSE q \in Queries : TRUE},
                             reply : Reply \cup {NoReply}]
          /\ client'[c].query = client[c].query /\ client'[c].reply = client[c].reply
          /\ client'[c].at = client[c].at \/ (client'[c].at = "lost" /\ client[c].at # "idle")
    <3>. TAKE c \in Client
    <3>1. PICK k : k = [client[c] EXCEPT !.at = "lost"]
      OBVIOUS
    <3>2. client'[c] = client[c] \/ (client'[c] = k /\ client[c].at # "idle")
      BY <2>1, <3>1
    <3>. QED
      BY <3>1, <3>2 DEF DnsInv
  <2>. QED
    BY <2>2, <2>3 DEF DnsInv, RepliesParse
<1>5. ASSUME NEW c \in Client, Handles(c)
      PROVE  DnsInv'
  BY <1>1, <1>2, <1>5 DEF Handles
<1>6. ASSUME NEW c \in Client, Forwards(c)
      PROVE  DnsInv'
  BY <1>1, <1>6 DEF Forwards
<1>7. ASSUME NEW c \in Client, Reads(c)
      PROVE  DnsInv'
  BY <1>2, <1>7 DEF Reads
<1>8. CASE UNCHANGED dnsVars
  BY <1>8 DEF dnsVars, DnsInv, RepliesParse
<1>. QED
  BY <1>3, <1>4, <1>5, <1>6, <1>7, <1>8, DnsCases

\* Whatever a query of at most one question carries behind it, and whether it is
\* answered here or by the upstream, the counts in the reply's header are those
\* of its body (buildLocalResponse and servfail clear them).
THEOREM Parsed == Spec => []RepliesParse
<1>1. DnsInv => RepliesParse
  BY DEF DnsInv
<1>. QED
  BY <1>1, InitDns, NextDns, PTL DEF Spec
=============================================================================
