---------------------------- MODULE ManagedRoute ----------------------------
(***************************************************************************)
(* One managed route of a vibe daemon: the handlers of api.go and          *)
(* autostart.go that start, stop, recover, register and deregister it, the *)
(* readiness poller, the idle timer and the exit handler, all sharing the  *)
(* route's atomics (Running, Ready, PID, LastFailure) and composed with    *)
(* the process manager.                                                    *)
(*                                                                         *)
(* Every handler runs on a goroutine of its own.  A step is a critical     *)
(* section of the process manager, a read of the route, or a store to it;  *)
(* neighbouring stores with no read in between are one step, except where  *)
(* the order in which they become visible matters: the PID and Running     *)
(* stores of a start, and the Swap of the exit handler.                    *)
(***************************************************************************)
EXTENDS ProcessManager

CONSTANTS
    App,            \* the route's name
    Route,          \* route objects; a registration installs a fresh one
    Thread,         \* request and timer goroutines
    Poller,         \* waitForReady goroutines that may exist at a time
    Stranger,       \* a process vibe did not start
    Ops,            \* the operations threads may issue in this instance
    AdoptsOrphans,  \* FALSE on Windows, where adoptOrphan always declines
    StrangerComes   \* TRUE: a stranger may take the registered port

ASSUME AppAssumption == Name = {App}
ASSUME OpsAssumption ==
    Ops \subseteq {"visit", "start", "stop", "idle", "deregister", "register"}
ASSUME RouteAssumption == None \notin Route
ASSUME StrangerAssumption == Stranger \notin Pid \cup {None}
ASSUME BoolAssumption == AdoptsOrphans \in BOOLEAN /\ StrangerComes \in BOOLEAN

VARIABLES
    table,          \* the object registered under App, None if none is
    running, ready, pid, failed,    \* its atomics, for each object
    autoStarting,   \* s.autoStarting holds App
    holder,         \* who listens on the route's registered port
    pc, op, obj, child, \* per thread: where it is, its operation and locals
    poll,           \* per poller: where it is and the object it polls
    exit            \* per exit callback: where it is, its object, Swap's result

routeVars == <<running, ready, pid, failed>>
threadVars == <<pc, op, obj, child>>
otherVars == <<poll, exit>>
mrVars == <<table, routeVars, autoStarting, holder, threadVars, otherVars>>
vars == <<pmVars, mrVars>>

\* The two goroutines that may report the exit of one child.
Callback == {"wait", "watch"} \X Pid

Labels == {"idle", "recover", "normalise", "clearpid", "unmark", "adopt",
           "adopted", "ready?", "decide", "preflight", "scan", "owns?",
           "signal", "recheck", "spawn", "window", "setpid", "setrunning",
           "settle", "reconcile", "failed", "release", "kill", "clear",
           "remove"}

TypeOK ==
    /\ PmTypeOK
    /\ table \in Route \cup {None}
    /\ running \in [Route -> BOOLEAN]
    /\ ready \in [Route -> BOOLEAN]
    /\ pid \in [Route -> Pid \cup {None}]
    /\ failed \in [Route -> BOOLEAN]
    /\ autoStarting \in BOOLEAN
    /\ holder \in Pid \cup {None, Stranger}
    /\ pc \in [Thread -> Labels]
    /\ op \in [Thread -> Ops \cup {"none", "auto"}]
    /\ obj \in [Thread -> Route \cup {None}]
    /\ child \in [Thread -> Pid \cup {None}]
    /\ poll \in [Poller -> [at : {"off", "tick", "ticked", "bury",
                                   "mark", "late"},
                            obj : Route \cup {None}]]
    /\ exit \in [Callback -> [at : {"off", "swap", "clear"},
                              obj : Route \cup {None}, was : BOOLEAN]]

Off == [at |-> "off", obj |-> None]
NoExit == [at |-> "off", obj |-> None, was |-> FALSE]

\* A daemon that has just started and loaded the route: not running, with the
\* PID an earlier daemon may have persisted for it.
Init ==
    /\ PmInit
    /\ \A p \in Pid : owner[p] \in {App, None}
    /\ table \in Route
    /\ running = [r \in Route |-> FALSE]
    /\ ready = [r \in Route |-> FALSE]
    /\ \E q \in {p \in Pid : owner[p] # None} \cup {None} :
          /\ pid = [r \in Route |-> IF r = table THEN q ELSE None]
          /\ \A p \in Pid : owner[p] # None => p = q
          /\ holder \in {q, None}
    /\ failed = [r \in Route |-> FALSE]
    /\ autoStarting = FALSE
    /\ pc = [t \in Thread |-> "idle"]
    /\ op = [t \in Thread |-> "none"]
    /\ obj = [t \in Thread |-> None]
    /\ child = [t \in Thread |-> None]
    /\ poll = [w \in Poller |-> Off]
    /\ exit = [c \in Callback |-> NoExit]

PortReady == holder # None
Alive(r) == processAlive(pid[r])

Goto(t, l) == pc' = [pc EXCEPT ![t] = l]

\* The thread's operation is over; what it held on to is gone.
Return(t) ==
    /\ Goto(t, "idle")
    /\ op' = [op EXCEPT ![t] = "none"]
    /\ obj' = [obj EXCEPT ![t] = None]
    /\ child' = [child EXCEPT ![t] = None]

\* A step of t from one label to another that keeps its locals.
Step(t, from, to) ==
    /\ pc[t] = from
    /\ Goto(t, to)
    /\ UNCHANGED <<op, obj, child>>

Begin(t, o, l) ==
    /\ pc[t] = "idle"
    /\ o \in Ops
    /\ table # None
    /\ Goto(t, l)
    /\ op' = [op EXCEPT ![t] = o]
    /\ obj' = [obj EXCEPT ![t] = table]
    /\ UNCHANGED child

-----------------------------------------------------------------------------
\* A request for the route (routeRequest)

\* Running, but the port is silent or held by somebody else: the repair page.
VisitFindsPortWrong(t) ==
    /\ "visit" \in Ops /\ pc[t] = "idle" /\ table # None
    /\ running[table] /\ Alive(table) /\ holder # pid[table]
    /\ ready' = [ready EXCEPT ![table] = FALSE]
    /\ UNCHANGED <<pmVars, table, running, pid, failed, autoStarting, holder,
                   threadVars, otherVars>>

\* The upstream fails the proxied request: handleProxyError.
VisitFailsUpstream(t) ==
    /\ Begin(t, "visit", "recover")
    /\ running[table] /\ Alive(table) /\ PortReady
    /\ ready' = [ready EXCEPT ![table] = FALSE]
    /\ UNCHANGED <<pmVars, table, running, pid, failed, autoStarting, holder,
                   otherVars>>

VisitFindsStopped(t) ==
    /\ Begin(t, "visit", "recover")
    /\ ~(running[table] /\ Alive(table))
    /\ UNCHANGED <<pmVars, table, routeVars, autoStarting, holder, otherVars>>

\* recoverManagedRoute, with auto-start enabled, a command and no worktrees.
RecoverYields(t) ==
    /\ pc[t] = "recover" /\ autoStarting
    /\ Return(t)
    /\ UNCHANGED <<pmVars, table, routeVars, autoStarting, holder, otherVars>>

RecoverProceeds(t) ==
    /\ ~autoStarting
    /\ Step(t, "recover", "normalise")
    /\ UNCHANGED <<pmVars, table, routeVars, autoStarting, holder, otherVars>>

\* The PID is read and probed, cleared if its process is dead, whatever it is by
\* then, and the route no longer counts as running.
RecoverProbes(t) ==
    /\ Step(t, "normalise", IF pid[obj[t]] # None /\ ~Alive(obj[t])
                              THEN "clearpid" ELSE "unmark")
    /\ UNCHANGED <<pmVars, table, routeVars, autoStarting, holder, otherVars>>

RecoverClears(t) ==
    /\ Step(t, "clearpid", "unmark")
    /\ pid' = [pid EXCEPT ![obj[t]] = None]
    /\ UNCHANGED <<pmVars, table, running, ready, failed, autoStarting, holder,
                   otherVars>>

RecoverUnmarks(t) ==
    /\ Step(t, "unmark", "adopt")
    /\ running' = [running EXCEPT ![obj[t]] = FALSE]
    /\ ready' = [ready EXCEPT ![obj[t]] = FALSE]
    /\ UNCHANGED <<pmVars, table, pid, failed, autoStarting, holder, otherVars>>

\* adoptOrphan: the child on record lives and listens on the registered port.
Adoptable(r) == AdoptsOrphans /\ Alive(r) /\ holder = pid[r]

AdoptOrphanFinds(t) ==
    /\ pc[t] = "adopt" /\ Adoptable(obj[t])
    /\ Goto(t, "adopted")
    /\ child' = [child EXCEPT ![t] = pid[obj[t]]]
    /\ UNCHANGED <<pmVars, table, routeVars, autoStarting, holder, op, obj,
                   otherVars>>

AdoptOrphanDeclines(t) ==
    /\ Step(t, "adopt", "ready?")
    /\ ~Adoptable(obj[t])
    /\ UNCHANGED <<pmVars, table, routeVars, autoStarting, holder, otherVars>>

RecoverAdopts(t) ==
    /\ Step(t, "adopted", "setpid")
    /\ Adopt(App, child[t])
    /\ UNCHANGED <<table, routeVars, autoStarting, holder, otherVars>>

\* Somebody else listens: the start page.
RecoverFindsPortTaken(t) ==
    /\ pc[t] = "ready?" /\ PortReady
    /\ Return(t)
    /\ UNCHANGED <<pmVars, table, routeVars, autoStarting, holder, otherVars>>

RecoverFindsPortFree(t) ==
    /\ ~PortReady
    /\ Step(t, "ready?", "decide")
    /\ UNCHANGED <<pmVars, table, routeVars, autoStarting, holder, otherVars>>

\* A recent failure, or another start in flight.
RecoverDeclines(t) ==
    /\ pc[t] = "decide"
    /\ failed[obj[t]] \/ autoStarting
    /\ Return(t)
    /\ UNCHANGED <<pmVars, table, routeVars, autoStarting, holder, otherVars>>

\* Defect: Store instead of LoadOrStore.
BeginAutoStart_unchecked(t) ==
    /\ pc[t] = "decide"
    /\ ~failed[obj[t]]
    /\ autoStarting' = TRUE
    /\ Goto(t, "preflight")
    /\ op' = [op EXCEPT ![t] = "auto"]
    /\ UNCHANGED <<pmVars, table, routeVars, holder, obj, child, otherVars>>

\* beginAutoStart wins (LoadOrStore), startManagedNow begins.
BeginAutoStart(t) ==
    /\ pc[t] = "decide"
    /\ ~failed[obj[t]] /\ ~autoStarting
    /\ autoStarting' = TRUE
    /\ Goto(t, "preflight")
    /\ op' = [op EXCEPT ![t] = "auto"]
    /\ UNCHANGED <<pmVars, table, routeVars, holder, obj, child, otherVars>>

-----------------------------------------------------------------------------
\* Starting: the common path of handleStart, startManagedNow, handleRegister

StartBegins(t) ==
    /\ Begin(t, "start", "preflight")
    /\ UNCHANGED <<pmVars, table, routeVars, autoStarting, holder, otherVars>>

\* A fresh object replaces a route that is not running, or none at all.
Fresh(r) ==
    /\ r # table
    /\ \A t \in Thread : obj[t] # r
    /\ \A w \in Poller : poll[w].obj # r
    /\ \A c \in Callback : exit[c].obj # r

RegisterBegins(t, r) ==
    /\ "register" \in Ops /\ pc[t] = "idle"
    /\ ~(table # None /\ running[table])
    /\ Fresh(r)
    /\ table' = r
    /\ running' = [running EXCEPT ![r] = TRUE]
    /\ ready' = [ready EXCEPT ![r] = TRUE]
    /\ pid' = [pid EXCEPT ![r] = None]
    /\ failed' = [failed EXCEPT ![r] = FALSE]
    /\ Goto(t, "preflight")
    /\ op' = [op EXCEPT ![t] = "register"]
    /\ obj' = [obj EXCEPT ![t] = r]
    /\ UNCHANGED <<pmVars, autoStarting, holder, child, otherVars>>

PreflightFindsFree(t) ==
    /\ ~PortReady
    /\ Step(t, "preflight", "spawn")
    /\ UNCHANGED <<pmVars, table, routeVars, autoStarting, holder, otherVars>>

PreflightFindsTaken(t) ==
    /\ PortReady
    /\ Step(t, "preflight", "scan")
    /\ UNCHANGED <<pmVars, table, routeVars, autoStarting, holder, otherVars>>

\* killPort is over, for a start or for a stop.
AfterKill(t) ==
    CASE op[t] \in {"start", "register", "auto"} -> "recheck"
      [] op[t] = "deregister" -> "remove"
      [] OTHER -> "clear"

\* killPort lists who listens; what is not a child of vibe's is only told to go.
KillPortScans(t) ==
    /\ pc[t] = "scan"
    /\ Goto(t, IF holder \in Pid THEN "owns?" ELSE AfterKill(t))
    /\ child' = [child EXCEPT ![t] = IF holder \in Pid THEN holder ELSE None]
    /\ UNCHANGED <<pmVars, table, routeVars, autoStarting, holder, op, obj,
                   otherVars>>

\* Defect: killPort does not spare the daemon's own children.
KillPortAsks_nobody(t) ==
    /\ Step(t, "owns?", "signal")
    /\ UNCHANGED <<pmVars, table, routeVars, autoStarting, holder, otherVars>>

\* It refuses to signal what is a managed child by now (OwnsPID) ...
KillPortAsks(t) ==
    /\ pc[t] = "owns?"
    /\ LET spared == Tracked(child[t]) IN
       /\ Goto(t, IF spared THEN AfterKill(t) ELSE "signal")
       /\ child' = [child EXCEPT ![t] = IF spared THEN None ELSE @]
    /\ UNCHANGED <<pmVars, table, routeVars, autoStarting, holder, op, obj,
                   otherVars>>

\* ... and signals the rest.
KillPortSignals(t) ==
    /\ pc[t] = "signal"
    /\ Signal(child[t])
    /\ Goto(t, AfterKill(t))
    /\ child' = [child EXCEPT ![t] = None]
    /\ UNCHANGED <<status, owner, procs, adopted, state, waiter, reply, watch,
                   pending, told, table, routeVars, autoStarting, holder, op,
                   obj, otherVars>>

\* Free by now, or held only by managed children (no recovery to offer).
RecheckPasses(t) ==
    /\ Step(t, "recheck", "spawn")
    /\ ~PortReady \/ Tracked(holder)
    /\ UNCHANGED <<pmVars, table, routeVars, autoStarting, holder, otherVars>>

\* Defect: the early return for a conflict skips endAutoStart.
RecheckFindsConflict_leaks(t) ==
    /\ pc[t] = "recheck"
    /\ PortReady /\ ~Tracked(holder)
    /\ Return(t)
    /\ failed' = [failed EXCEPT ![obj[t]] = TRUE]
    /\ UNCHANGED <<pmVars, table, running, ready, pid, autoStarting, holder,
                   otherVars>>

RecheckFindsConflict(t) ==
    /\ pc[t] = "recheck"
    /\ PortReady /\ ~Tracked(holder)
    /\ \/ /\ op[t] = "register"
          /\ Step(t, "recheck", "remove")
          /\ UNCHANGED failed
       \/ /\ op[t] = "auto"
          /\ Step(t, "recheck", "release")
          /\ failed' = [failed EXCEPT ![obj[t]] = TRUE]
       \/ /\ op[t] = "start"
          /\ Return(t)
          /\ failed' = [failed EXCEPT ![obj[t]] = TRUE]
    /\ UNCHANGED <<pmVars, table, running, ready, pid, autoStarting, holder,
                   otherVars>>

Spawn(t) ==
    /\ pc[t] = "spawn"
    /\ \E p \in Pid :
          /\ \/ StartJoins(App, p) /\ Goto(t, "setpid")
             \/ StartSpawns(App, p) /\ Goto(t, "window")
          /\ child' = [child EXCEPT ![t] = p]
    /\ UNCHANGED <<table, routeVars, autoStarting, holder, op, obj, otherVars>>

SpawnRefused(t) ==
    /\ Step(t, "spawn", "failed")
    /\ StartRefused(App)
    /\ UNCHANGED <<table, routeVars, autoStarting, holder, otherVars>>

WindowCloses(t) ==
    /\ \/ Step(t, "window", "setpid") /\ StartCommits(child[t])
       \/ Step(t, "window", "failed") /\ StartReportsExit(child[t])
    /\ UNCHANGED <<table, routeVars, autoStarting, holder, otherVars>>

\* procs.Start returned an error.
StartFails(t) ==
    /\ pc[t] = "failed"
    /\ \/ /\ op[t] = "register"
          /\ Step(t, "failed", "remove")
          /\ UNCHANGED routeVars
       \/ /\ op[t] # "register"
          /\ running' = [running EXCEPT ![obj[t]] = FALSE]
          /\ ready' = [ready EXCEPT ![obj[t]] = FALSE]
          /\ failed' = [failed EXCEPT ![obj[t]] = TRUE]
          /\ IF op[t] = "auto" THEN Step(t, "failed", "release") ELSE Return(t)
          /\ UNCHANGED pid
    /\ UNCHANGED <<pmVars, table, autoStarting, holder, otherVars>>

StoresPid(t) ==
    /\ Step(t, "setpid", "setrunning")
    /\ pid' = [pid EXCEPT ![obj[t]] = child[t]]
    /\ UNCHANGED <<pmVars, table, running, ready, failed, autoStarting, holder,
                   otherVars>>

StoresRunning(t) ==
    /\ Step(t, "setrunning", "settle")
    /\ running' = [running EXCEPT ![obj[t]] = TRUE]
    /\ UNCHANGED <<pmVars, table, ready, pid, failed, autoStarting, holder,
                   otherVars>>

\* Defect: nobody polls for the readiness of a started child.
Settles_unpolled(t) ==
    /\ pc[t] = "settle"
    /\ ready' = [ready EXCEPT ![obj[t]] = (op[t] = "visit")]
    /\ failed' = [failed EXCEPT ![obj[t]] = FALSE]
    /\ CASE op[t] = "auto"     -> Step(t, "settle", "release")
         [] op[t] = "register" -> Step(t, "settle", "reconcile")
         [] OTHER              -> Return(t)
    /\ UNCHANGED <<pmVars, table, running, pid, autoStarting, holder, otherVars>>

\* The rest of a successful start: a spawned child is not ready yet and gets a
\* poller; an adopted one is ready.
Settles(t) ==
    /\ pc[t] = "settle"
    /\ ready' = [ready EXCEPT ![obj[t]] = (op[t] = "visit")]
    /\ failed' = [failed EXCEPT ![obj[t]] = FALSE]
    /\ IF op[t] = "visit" THEN UNCHANGED poll
       ELSE \E w \in Poller :
              /\ poll[w].at = "off"
              /\ poll' = [poll EXCEPT ![w] = [at |-> "tick", obj |-> obj[t]]]
    /\ CASE op[t] = "auto"     -> Step(t, "settle", "release")
         [] op[t] = "register" -> Step(t, "settle", "reconcile")
         [] OTHER              -> Return(t)
    /\ UNCHANGED <<pmVars, table, running, pid, autoStarting, holder, exit>>

\* handleRegister reconciles the callback listeners last; a port that cannot be
\* bound takes the registration back, the child with it.
Reconciles(t) ==
    /\ pc[t] = "reconcile"
    /\ \/ Return(t) /\ UNCHANGED pmVars
       \/ /\ Step(t, "reconcile", "remove")
          /\ IF StopFinds(App) THEN Stop(App) ELSE UNCHANGED pmVars
    /\ UNCHANGED <<table, routeVars, autoStarting, holder, otherVars>>

EndAutoStart(t) ==
    /\ pc[t] = "release"
    /\ autoStarting' = FALSE
    /\ Return(t)
    /\ UNCHANGED <<pmVars, table, routeVars, holder, otherVars>>

-----------------------------------------------------------------------------
\* Stopping: handleStop, the idle timer's idleCheck, handleDeregister

StopBegins(t) ==
    /\ Begin(t, "stop", "kill")
    /\ running' = [running EXCEPT ![table] = FALSE]
    /\ UNCHANGED <<pmVars, table, ready, pid, failed, autoStarting, holder,
                   otherVars>>

IdleStops(t) ==
    /\ Begin(t, "idle", "kill")
    /\ running[table]
    /\ running' = [running EXCEPT ![table] = FALSE]
    /\ UNCHANGED <<pmVars, table, ready, pid, failed, autoStarting, holder,
                   otherVars>>

DeregisterBegins(t) ==
    /\ Begin(t, "deregister", "kill")
    /\ running' = [running EXCEPT ![table] = FALSE]
    /\ ready' = [ready EXCEPT ![table] = FALSE]
    /\ UNCHANGED <<pmVars, table, pid, failed, autoStarting, holder, otherVars>>

\* procs.Stop, and killPort (but not for the idle timer) when it has nothing
\* to stop.
Kill(t) ==
    /\ \/ Stop(App) /\ Step(t, "kill", AfterKill(t))
       \/ /\ ~StopFinds(App)
          /\ Step(t, "kill", IF op[t] = "idle" THEN "clear" ELSE "scan")
          /\ UNCHANGED pmVars
    /\ UNCHANGED <<table, routeVars, autoStarting, holder, otherVars>>

Clear(t) ==
    /\ pc[t] = "clear"
    /\ ready' = [ready EXCEPT ![obj[t]] = FALSE]
    /\ pid' = [pid EXCEPT ![obj[t]] = None]
    /\ Return(t)
    /\ UNCHANGED <<pmVars, table, running, failed, autoStarting, holder,
                   otherVars>>

\* table.Remove goes by name, whatever object is registered by now.
Removes(t) ==
    /\ pc[t] = "remove"
    /\ table' = None
    /\ Return(t)
    /\ UNCHANGED <<pmVars, routeVars, autoStarting, holder, otherVars>>

-----------------------------------------------------------------------------
\* handleManagedExit, run by whichever goroutine learns of the exit

\* A notification about another process than the route's is dropped.
Stale(p) == table = None \/ (pid[table] # None /\ pid[table] # p)

EntersHandler(c) ==
    /\ exit[c].at = "off"
    /\ exit' = IF Stale(c[2]) THEN exit
               ELSE [exit EXCEPT ![c] = [NoExit EXCEPT !.at = "swap",
                                                       !.obj = table]]

ExitWait(p) ==
    /\ WaitNotifies(p)
    /\ EntersHandler(<<"wait", p>>)
    /\ UNCHANGED <<table, routeVars, autoStarting, holder, threadVars, poll>>

ExitWatch(p) ==
    /\ WatchNotifies(App, p)
    /\ EntersHandler(<<"watch", p>>)
    /\ UNCHANGED <<table, routeVars, autoStarting, holder, threadVars, poll>>

ExitSwaps(c) ==
    LET r == exit[c].obj IN
    /\ exit[c].at = "swap"
    /\ exit' = [exit EXCEPT ![c].at = "clear", ![c].was = running[r]]
    /\ running' = [running EXCEPT ![r] = FALSE]
    /\ UNCHANGED <<pmVars, table, ready, pid, failed, autoStarting, holder,
                   threadVars, poll>>

ExitClears(c) ==
    LET r == exit[c].obj IN
    /\ exit[c].at = "clear"
    /\ exit' = [exit EXCEPT ![c] = NoExit]
    /\ ready' = [ready EXCEPT ![r] = FALSE]
    /\ pid' = [pid EXCEPT ![r] = None]
    /\ failed' = [failed EXCEPT ![r] = @ \/ exit[c].was]
    /\ UNCHANGED <<pmVars, table, running, autoStarting, holder, threadVars,
                   poll>>

-----------------------------------------------------------------------------
\* waitForReady

PollGoes(w, l) ==
    poll' = [poll EXCEPT ![w] = IF l = "off" THEN Off
                                ELSE [@ EXCEPT !.at = l]]

\* One tick: the child is dead, or the poll is over, or the port answers, or
\* there is nothing to conclude yet.
Tick(w) ==
    LET r == poll[w].obj IN
    /\ poll[w].at \in {"tick", "ticked"}
    /\ \/ pid[r] # None /\ ~Alive(r) /\ PollGoes(w, "bury")
       \/ pid[r] = None /\ PollGoes(w, "off")
       \/ Alive(r) /\ ~running[r] /\ PollGoes(w, "off")
       \/ Alive(r) /\ running[r] /\ PortReady /\ PollGoes(w, "mark")
       \/ Alive(r) /\ running[r] /\ ~PortReady /\ PollGoes(w, "ticked")
    /\ UNCHANGED <<pmVars, table, routeVars, autoStarting, holder, threadVars,
                   exit>>

Bury(w) ==
    LET r == poll[w].obj IN
    /\ poll[w].at = "bury"
    /\ PollGoes(w, "off")
    /\ running' = [running EXCEPT ![r] = FALSE]
    /\ ready' = [ready EXCEPT ![r] = FALSE]
    /\ pid' = [pid EXCEPT ![r] = None]
    /\ failed' = [failed EXCEPT ![r] = TRUE]
    /\ UNCHANGED <<pmVars, table, autoStarting, holder, threadVars, exit>>

Mark(w) ==
    LET r == poll[w].obj IN
    /\ poll[w].at = "mark"
    /\ PollGoes(w, "off")
    /\ ready' = [ready EXCEPT ![r] = TRUE]
    /\ failed' = [failed EXCEPT ![r] = FALSE]
    /\ UNCHANGED <<pmVars, table, running, pid, autoStarting, holder,
                   threadVars, exit>>

\* The timeout expires, many ticks later: a silent port is a failure, an
\* answering one is not.
Deadline(w) ==
    /\ poll[w].at = "ticked"
    /\ PollGoes(w, IF PortReady THEN "off" ELSE "late")
    /\ UNCHANGED <<pmVars, table, routeVars, autoStarting, holder, threadVars,
                   exit>>

GivesUp(w) ==
    LET r == poll[w].obj IN
    /\ poll[w].at = "late"
    /\ PollGoes(w, "off")
    /\ ready' = [ready EXCEPT ![r] = FALSE]
    /\ failed' = [failed EXCEPT ![r] = TRUE]
    /\ UNCHANGED <<pmVars, table, running, pid, autoStarting, holder,
                   threadVars, exit>>

-----------------------------------------------------------------------------
\* The goroutines of the process manager, and the processes

Supervises(p) ==
    /\ WaitReaps(p) \/ WaitRecords(p) \/ InitReaps(p)
         \/ WatchSeesExit(App, p) \/ WatchFails(App, p)
    /\ UNCHANGED mrVars

\* A process that exits leaves the port.
ChildExits(p) ==
    /\ Exits(p)
    /\ holder' = IF holder = p THEN None ELSE holder
    /\ UNCHANGED <<table, routeVars, autoStarting, threadVars, otherVars>>

Binds(p) ==
    /\ status[p] = "alive" /\ holder = None
    /\ holder' = p
    /\ UNCHANGED <<pmVars, table, routeVars, autoStarting, threadVars,
                   otherVars>>

StrangerMoves ==
    /\ \/ StrangerComes /\ holder = None /\ holder' = Stranger
       \/ holder = Stranger /\ holder' = None
    /\ UNCHANGED <<pmVars, table, routeVars, autoStarting, threadVars,
                   otherVars>>

-----------------------------------------------------------------------------
Begins(t) ==
    \/ VisitFindsPortWrong(t) \/ VisitFailsUpstream(t) \/ VisitFindsStopped(t)
    \/ StartBegins(t) \/ StopBegins(t) \/ IdleStops(t) \/ DeregisterBegins(t)
    \/ \E r \in Route : RegisterBegins(t, r)

Recovers(t) ==
    \/ RecoverYields(t) \/ RecoverProceeds(t) \/ RecoverProbes(t)
    \/ RecoverClears(t) \/ RecoverUnmarks(t)
    \/ AdoptOrphanFinds(t) \/ AdoptOrphanDeclines(t) \/ RecoverAdopts(t)
    \/ RecoverFindsPortTaken(t) \/ RecoverFindsPortFree(t)
    \/ RecoverDeclines(t) \/ BeginAutoStart(t)

Starts(t) ==
    \/ PreflightFindsFree(t) \/ PreflightFindsTaken(t) \/ RecheckPasses(t)
    \/ RecheckFindsConflict(t) \/ Spawn(t) \/ SpawnRefused(t)
    \/ WindowCloses(t) \/ StartFails(t) \/ StoresPid(t) \/ StoresRunning(t)
    \/ Settles(t) \/ Reconciles(t) \/ EndAutoStart(t)

KillsPort(t) == KillPortScans(t) \/ KillPortAsks(t) \/ KillPortSignals(t)

Stops(t) == Kill(t) \/ Clear(t) \/ Removes(t)

Continues(t) == Recovers(t) \/ Starts(t) \/ KillsPort(t) \/ Stops(t)
Notices(p) == ExitWait(p) \/ ExitWatch(p)
Handles(c) == ExitSwaps(c) \/ ExitClears(c)
Polls(w) == Tick(w) \/ Bury(w) \/ Mark(w) \/ Deadline(w) \/ GivesUp(w)

Next ==
    \/ \E t \in Thread : Begins(t) \/ Continues(t)
    \/ \E p \in Pid :
          Supervises(p) \/ Notices(p) \/ ChildExits(p) \/ Binds(p)
    \/ \E c \in Callback : Handles(c)
    \/ \E w \in Poller : Polls(w)
    \/ StrangerMoves

Spec == Init /\ [][Next]_vars

\* Every goroutine that can take a step eventually does; requests need not
\* come, children need not exit or bind, and strangers come and go at will.
\* A pid watch that fails is not something the scheduler owes anybody.
FairSpec ==
    /\ Spec
    /\ \A t \in Thread : WF_vars(Continues(t))
    /\ \A p \in Pid :
          /\ WF_vars(Notices(p))
          /\ WF_vars((WaitReaps(p) \/ WaitRecords(p) \/ InitReaps(p)
                      \/ WatchSeesExit(App, p)) /\ UNCHANGED mrVars)
    /\ \A c \in Callback : WF_vars(Handles(c))
    /\ \A w \in Poller : WF_vars(Polls(w))

-----------------------------------------------------------------------------
\* Properties

\* Auto-start is single flight: however requests interleave, at most one
\* goroutine is between beginAutoStart and endAutoStart.
SingleFlight ==
    \A t, u \in Thread : (op[t] = "auto" /\ op[u] = "auto") => t = u

\* The marker always has somebody to release it: it is set exactly while one
\* goroutine is between beginAutoStart and endAutoStart, whichever early return
\* it takes (autostart.go, recoverManagedRoute and startManagedNow).
MarkerHeld == autoStarting <=> \E t \in Thread : op[t] = "auto"

\* The child a running route names can still be found by a stop: the process
\* manager tracks it, unless its process is gone or has been told to go.
ReachableByStop ==
    table # None =>
        LET p == pid[table] IN
        (running[table] /\ p \in Pid /\ status[p] = "alive" /\ p \notin signalled)
            => Tracked(p)

\* No request ever signals a server vibe started (autostart.go,
\* recoverManagedRoute; daemon.go, killPort).  For instances with visits only.
VisitsNeverKill == \A p \in signalled : waiter[p] = "none"

\* A start in flight always ends: no interleaving, failure or exit leaves the
\* marker set, which would show the polling page for ever (autostart.go,
\* recoverManagedRoute).
AutoStartReleased == autoStarting ~> ~autoStarting

\* The registered route says it runs, and its process is dead or not recorded.
RunsDead ==
    /\ table # None /\ running[table]
    /\ pid[table] = None \/ status[pid[table]] = "dead"

\* When the child of a running route dies the route does not go on as running, or
\* has another child by then: an exit handler or a poller sees to it, whichever
\* start it belongs to (managed_exit.go, handleManagedExit; api.go,
\* waitForReady).  Stated for a death met while no handler is at work and no exit
\* handler is half way: a start that stores Running between an exit handler's
\* Swap and its ClearPID leaves a route running without a PID.
DeathFlipsRoute ==
    (/\ RunsDead /\ pid[table] # None
     /\ \A t \in Thread : pc[t] = "idle"
     /\ \A c \in Callback : exit[c].at # "clear")
        ~> ~RunsDead

\* A notification from an earlier process leaves a route that has since been
\* started with another one alone (managed_exit.go, handleManagedExit).
StaleExitIgnored ==
    [][\A c \in Callback :
          LET r == exit[c].obj IN
          (exit[c].at = "swap" /\ exit'[c].at = "clear" /\ running[r])
              => pid[r] \in {c[2], None}]_vars
=============================================================================
