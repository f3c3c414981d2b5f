------------------------- MODULE ManagedRouteProofs -------------------------
(***************************************************************************)
(* Theorems about ManagedRoute, for every number of goroutines, pollers,   *)
(* route objects and pids.  The argument has two layers.  What the process *)
(* manager promises (PmInv) survives every step of a handler, because each *)
(* is a step of the manager or signals one more process.  What the         *)
(* handlers rely on is MrInv: a label tells which operation a goroutine    *)
(* serves and what it holds on to, every pid on record belongs to the      *)
(* route, and the auto-start marker belongs to exactly one goroutine.      *)
(* What a stop finds needs more: without adoption, that every child dealt  *)
(* with was spawned (SpawnedInv); with it, one handler at a time, that the *)
(* manager's two entries are never both live (SerialInv).                  *)
(***************************************************************************)
EXTENDS ManagedRoute, ProcessManagerProofs

Recovering == {"recover", "normalise", "clearpid", "unmark", "adopt", "adopted",
               "ready?", "decide"}
Launching == {"preflight", "recheck", "spawn", "window", "failed"}
Storing == {"setpid", "setrunning", "settle"}
Listing == {"scan", "owns?", "signal"}

\* Where a goroutine is tells which operation it serves.
OpLink(t) ==
    /\ pc[t] = "idle" => op[t] = "none"
    /\ pc[t] \in Recovering => op[t] = "visit"
    /\ pc[t] \in Launching => op[t] \in {"start", "register", "auto"}
    /\ pc[t] \in Storing => op[t] \in {"visit", "start", "register", "auto"}
    /\ pc[t] = "release" => op[t] = "auto"
    /\ pc[t] = "reconcile" => op[t] = "register"
    /\ pc[t] \in Listing =>
          op[t] \in {"start", "register", "auto", "stop", "deregister"}
    /\ pc[t] = "kill" => op[t] \in {"stop", "idle", "deregister"}
    /\ pc[t] = "clear" => op[t] \in {"stop", "idle"}
    /\ pc[t] = "remove" => op[t] \in {"register", "deregister"}

\* A pid of the route: the daemon, or an earlier one, spawned it for App.
Ours(p) == p \in Pid /\ owner[p] = App

\* The daemon has no child to lose in p: p was never its own, has been reaped,
\* or has been told to go already.
LetGo(p) == waiter[p] # "waiting" \/ p \in signalled

\* What a goroutine holds on to.  Whom killPort has asked about and is about to
\* signal is nobody the daemon still serves.
LocalLink(t) ==
    /\ pc[t] # "idle" => obj[t] \in Route
    /\ child[t] # None => Ours(child[t])
    /\ pc[t] \in {"adopted", "window", "owns?", "signal"} => child[t] # None
    /\ pc[t] = "signal" => LetGo(child[t])

\* What the atomics, the port and the exit handler hold on to.
PidLink(r) == pid[r] # None => Ours(pid[r])
HolderLink == holder \in Pid => status[holder] = "alive"
ExitLink(c) == exit[c].at # "off" => exit[c].obj \in Route

\* The marker is set exactly while one goroutine owes its release.
MarkerLink == SingleFlight /\ MarkerHeld

MrLinks ==
    /\ \A t \in Thread : OpLink(t) /\ LocalLink(t)
    /\ \A r \in Route : PidLink(r)
    /\ HolderLink
    /\ \A c \in Callback : ExitLink(c)
    /\ MarkerLink

MrInv == TypeOK /\ PmLinks /\ EntryKept /\ MrLinks

\* A child of the route's that this daemon has spawned.
Spawned(p) == Ours(p) /\ waiter[p] # "none"

-----------------------------------------------------------------------------
\* The process manager under the handlers

\* What killPort adds to the manager's own steps: a SIGTERM for a process the
\* manager has let go.
StraySignal(p) ==
    /\ Ours(p) /\ LetGo(p)
    /\ Signal(p)
    /\ UNCHANGED <<status, owner, procs, adopted, state, waiter, reply, watch,
                   pending, told>>

ManagerStep == [PmNext]_pmVars \/ \E p \in Pid : StraySignal(p)

\* The listener killPort finds is a process vibe spawned for the route.
LEMMA HolderIsOurs ==
    ASSUME MrInv, holder \in Pid
    PROVE  Ours(holder)
BY NoneAssumption, AppAssumption
   DEF MrInv, MrLinks, HolderLink, TypeOK, PmTypeOK, PmLinks, OwnerLink, Ours

\* Whom the table does not hold the daemon has let go.
LEMMA UntrackedIsLetGo ==
    ASSUME MrInv, NEW p \in Pid, Ours(p), ~Tracked(p)
    PROVE  LetGo(p)
BY AppAssumption DEF MrInv, EntryKept, Ours, Tracked, LetGo

\* The scan, the question and the signal may be far apart: the signal still
\* reaches nobody the daemon serves.
LEMMA KillPortStep ==
    ASSUME MrInv, NEW t \in Thread, KillsPort(t)
    PROVE  UNCHANGED pmVars \/ StraySignal(child[t])
<1>1. CASE KillPortSignals(t)
  BY <1>1 DEF KillPortSignals, StraySignal, MrInv, MrLinks, LocalLink
<1>2. CASE KillPortScans(t) \/ KillPortAsks(t)
  BY <1>2 DEF KillPortScans, KillPortAsks
<1>. QED
  BY <1>1, <1>2 DEF KillsPort

\* The actions of a goroutine that serves a request or a timer.
LEMMA ThreadCases ==
    ASSUME NEW t \in Thread, Begins(t) \/ Continues(t)
    PROVE  \/ VisitFindsPortWrong(t) \/ VisitFailsUpstream(t)
           \/ VisitFindsStopped(t) \/ StartBegins(t) \/ StopBegins(t)
           \/ IdleStops(t) \/ DeregisterBegins(t)
           \/ \E r \in Route : RegisterBegins(t, r)
           \/ RecoverYields(t) \/ RecoverProceeds(t) \/ RecoverProbes(t)
           \/ RecoverClears(t) \/ RecoverUnmarks(t)
           \/ AdoptOrphanFinds(t) \/ AdoptOrphanDeclines(t)
           \/ RecoverAdopts(t) \/ RecoverFindsPortTaken(t)
           \/ RecoverFindsPortFree(t) \/ RecoverDeclines(t)
           \/ BeginAutoStart(t) \/ PreflightFindsFree(t) \/ PreflightFindsTaken(t)
           \/ RecheckPasses(t) \/ RecheckFindsConflict(t) \/ Spawn(t)
           \/ SpawnRefused(t) \/ WindowCloses(t) \/ StartFails(t)
           \/ StoresPid(t) \/ StoresRunning(t) \/ Settles(t)
           \/ Reconciles(t) \/ KillPortScans(t) \/ KillPortAsks(t)
           \/ KillPortSignals(t) \/ EndAutoStart(t) \/ Kill(t) \/ Clear(t) \/ Removes(t)
BY DEF Begins, Continues, Recovers, Starts, Stops, KillsPort

\* A child the manager hands back for a join is one of the route's own.
LEMMA CurrentIsOurs ==
    ASSUME PmTypeOK, PmLinks, Current(App) # None
    PROVE  Ours(Current(App))
BY AppAssumption, NoneAssumption
   DEF PmTypeOK, PmLinks, EntryLink, Current, processAlive, Ours

LEMMA ThreadManages ==
    ASSUME MrInv, NEW t \in Thread, Begins(t) \/ Continues(t)
    PROVE  ManagerStep
<1>. USE AppAssumption DEF ManagerStep
<1>. /\ TypeOK
     /\ LocalLink(t)
  BY DEF MrInv, MrLinks
<1>1. CASE RecoverAdopts(t)
  BY <1>1 DEF RecoverAdopts, Step, LocalLink, Ours, PmNext, Calls
<1>2. CASE KillPortScans(t) \/ KillPortAsks(t) \/ KillPortSignals(t)
  BY <1>2, KillPortStep DEF KillsPort, LocalLink, StraySignal, Ours
<1>3. CASE Spawn(t)
  BY <1>3 DEF Spawn, StartJoins, PmNext, Calls
<1>4. CASE SpawnRefused(t)
  BY <1>4 DEF SpawnRefused, StartRefused
<1>5. CASE WindowCloses(t)
  BY <1>5 DEF WindowCloses, Step, LocalLink, Ours, PmNext, Goroutine
<1>6. CASE Kill(t) \/ Reconciles(t)
  BY <1>6 DEF Kill, Reconciles, PmNext, Calls
<1>7. CASE UNCHANGED pmVars
  BY <1>7
<1>. QED
  BY <1>1, <1>2, <1>3, <1>4, <1>5, <1>6, <1>7, ThreadCases
     DEF VisitFindsPortWrong, VisitFailsUpstream, VisitFindsStopped,
         StartBegins, StopBegins, IdleStops, DeregisterBegins, RegisterBegins,
         RecoverYields, RecoverProceeds, RecoverProbes, RecoverClears,
         RecoverUnmarks, AdoptOrphanFinds, AdoptOrphanDeclines,
         RecoverFindsPortTaken, RecoverFindsPortFree, RecoverDeclines,
         BeginAutoStart, PreflightFindsFree, PreflightFindsTaken, RecheckPasses,
         RecheckFindsConflict, StartFails, StoresPid, StoresRunning, Settles,
         EndAutoStart, Clear, Removes

\* Every step of the route is one of the manager's, or spares its children.
LEMMA ManagerSteps ==
    ASSUME MrInv, [Next]_vars
    PROVE  ManagerStep
<1>. USE AppAssumption DEF ManagerStep
<1>1. ASSUME NEW t \in Thread, Begins(t) \/ Continues(t) PROVE ManagerStep
  BY <1>1, ThreadManages
<1>2. ASSUME NEW p \in Pid, Supervises(p) PROVE ManagerStep
  BY <1>2 DEF Supervises, PmNext, Goroutine, Watcher
<1>3. ASSUME NEW p \in Pid, Notices(p) PROVE ManagerStep
  BY <1>3 DEF Notices, ExitWait, ExitWatch, PmNext, Goroutine, Watcher
<1>4. ASSUME NEW p \in Pid, ChildExits(p) PROVE ManagerStep
  BY <1>4 DEF ChildExits, PmNext
<1>5. CASE UNCHANGED pmVars
  BY <1>5
<1>. QED
  BY <1>1, <1>2, <1>3, <1>4, <1>5
     DEF Next, vars, Binds, Handles, ExitSwaps, ExitClears, Polls, Tick, Bury,
         Mark, Deadline, GivesUp, StrangerMoves

\* What the manager promises survives both kinds of step.
LEMMA ManagerKept ==
    ASSUME PmInv, ManagerStep
    PROVE  PmInv'
<1>1. CASE [PmNext]_pmVars
  BY <1>1, NextType, NextLinks, NextKept DEF PmInv
<1>2. ASSUME NEW p \in Pid, StraySignal(p) PROVE PmInv'
  <2>. USE <1>2 DEF StraySignal, Ours, Signal, PmInv
  <2>1. PmTypeOK'
    BY DEF PmTypeOK
  <2>2. \A n \in Name : EntryLink(n)'
    BY DEF PmLinks, EntryLink
  <2>3. \A q \in Pid : (StateLink(q) /\ WaiterLink(q) /\ OwnerLink(q))'
    BY NoneAssumption, AppAssumption
       DEF PmLinks, StateLink, WaiterLink, OwnerLink, processAlive
  <2>4. EntryKept'
    BY DEF EntryKept
  <2>. QED
    BY <2>1, <2>2, <2>3, <2>4 DEF PmLinks
<1>. QED
  BY <1>1, <1>2 DEF ManagerStep

\* A pid of the route stays one, a goroutine once begun is never forgotten,
\* and a process that left the living does not come back.
LEMMA ManagerGrows ==
    ASSUME PmInv, ManagerStep, NEW q \in Pid
    PROVE  /\ Ours(q) => Ours(q)'
           /\ Spawned(q) => Spawned(q)'
           /\ waiter'[q] # "none" => waiter[q] # "none" \/ status[q] = "unborn"
           /\ signalled \subseteq signalled'
           /\ Ours(q) /\ LetGo(q) => LetGo(q)'
<1>. /\ PmTypeOK
     /\ OwnerLink(q)
  BY DEF PmInv, PmLinks
<1>. USE NoneAssumption, AppAssumption
     DEF PmTypeOK, Spawned, Ours, OwnerLink, LetGo
<1>1. ASSUME NEW n \in Name, Stop(n)
      PROVE  UNCHANGED <<owner, waiter>> /\ signalled \subseteq signalled'
  BY <1>1 DEF Stop, Signal
<1>2. ASSUME NEW n \in Name, NEW p \in Pid, StartSpawns(n, p)
      PROVE  /\ UNCHANGED signalled
             /\ q # p => owner'[q] = owner[q] /\ waiter'[q] = waiter[q]
             /\ q = p => status[q] = "unborn"
             /\ owner[q] = App => owner'[q] = App
  BY <1>2 DEF StartSpawns
<1>3. ASSUME NEW p \in Pid, WaitReaps(p) \/ WaitRecords(p) \/ WaitNotifies(p)
      PROVE  /\ UNCHANGED <<owner, signalled>>
             /\ (waiter'[q] = "none") <=> (waiter[q] = "none")
             /\ waiter'[q] # "waiting" \/ waiter'[q] = waiter[q]
  BY <1>3 DEF WaitReaps, WaitRecords, WaitNotifies
<1>4. CASE UNCHANGED <<owner, waiter>> /\ signalled \subseteq signalled'
  BY <1>4
<1>5. ASSUME NEW p \in Pid, StraySignal(p)
      PROVE  UNCHANGED <<owner, waiter>> /\ signalled \subseteq signalled'
  BY <1>5 DEF StraySignal, Signal
<1>6. CASE [PmNext]_pmVars
  BY <1>1, <1>2, <1>3, <1>4, <1>6, NextCases
     DEF Adopt, StartCommits, StartReportsExit, WatchSeesExit, WatchNotifies,
         WatchFails, Exits, InitReaps, pmVars
<1>. QED
  BY <1>4, <1>5, <1>6 DEF ManagerStep

-----------------------------------------------------------------------------
\* The goroutines

ThreadTypes ==
    /\ pc \in [Thread -> Labels]
    /\ op \in [Thread -> Ops \cup {"none", "auto"}]
    /\ obj \in [Thread -> Route \cup {None}]
    /\ child \in [Thread -> Pid \cup {None}]

\* What a step of t leaves of the goroutines' locals.
ThreadStep(t) ==
    /\ ThreadTypes'
    /\ \A u \in Thread \ {t} :
          /\ pc'[u] = pc[u] /\ op'[u] = op[u]
          /\ obj'[u] = obj[u] /\ child'[u] = child[u]
    /\ OpLink(t)' /\ LocalLink(t)'

\* A request, a start, a stop or a registration begins, or is turned away.
LEMMA ThreadBegins ==
    ASSUME MrInv, NEW t \in Thread, Begins(t),
           \A q \in Pid : Ours(q) => Ours(q)'
    PROVE  ThreadStep(t)
<1>. /\ TypeOK
     /\ OpLink(t) /\ LocalLink(t)
  BY DEF MrInv, MrLinks
<1>. USE OpsAssumption
     DEF TypeOK, ThreadTypes, ThreadStep, OpLink, LocalLink, Begin, Goto,
         threadVars, Labels, Recovering, Launching, Storing, Listing
<1>1. CASE VisitFindsPortWrong(t)
  BY <1>1 DEF VisitFindsPortWrong
<1>2. CASE VisitFailsUpstream(t)
  BY <1>2 DEF VisitFailsUpstream
<1>3. CASE VisitFindsStopped(t)
  BY <1>3 DEF VisitFindsStopped
<1>4. CASE StartBegins(t)
  BY <1>4 DEF StartBegins
<1>5. CASE StopBegins(t)
  BY <1>5 DEF StopBegins
<1>6. CASE IdleStops(t)
  BY <1>6 DEF IdleStops
<1>7. CASE DeregisterBegins(t)
  BY <1>7 DEF DeregisterBegins
<1>8. ASSUME NEW r \in Route, RegisterBegins(t, r) PROVE ThreadStep(t)
  BY <1>8 DEF RegisterBegins
<1>. QED
  BY <1>1, <1>2, <1>3, <1>4, <1>5, <1>6, <1>7, <1>8 DEF Begins

LEMMA ThreadRecovers ==
    ASSUME MrInv, NEW t \in Thread, Recovers(t),
           \A q \in Pid : Ours(q) => Ours(q)'
    PROVE  ThreadStep(t)
<1>. /\ TypeOK
     /\ OpLink(t) /\ LocalLink(t)
     /\ \A r \in Route : PidLink(r)
  BY DEF MrInv, MrLinks
<1>. USE NoneAssumption
     DEF TypeOK, ThreadTypes, ThreadStep, OpLink, LocalLink, Return, Step, Goto,
         Labels, Recovering, Launching, Storing, Listing
<1>1. CASE RecoverYields(t)
  BY <1>1 DEF RecoverYields
<1>2. CASE RecoverProceeds(t)
  BY <1>2 DEF RecoverProceeds
<1>3. CASE RecoverProbes(t) \/ RecoverClears(t) \/ RecoverUnmarks(t)
  BY <1>3 DEF RecoverProbes, RecoverClears, RecoverUnmarks
<1>4. CASE AdoptOrphanFinds(t)
  <2>1. Ours(pid[obj[t]]) /\ pid[obj[t]] \in Pid
    BY <1>4 DEF AdoptOrphanFinds, Adoptable, Alive, processAlive, PidLink
  <2>. QED
    BY <1>4, <2>1 DEF AdoptOrphanFinds
<1>5. CASE AdoptOrphanDeclines(t)
  BY <1>5 DEF AdoptOrphanDeclines
<1>6. CASE RecoverAdopts(t)
  BY <1>6 DEF RecoverAdopts
<1>7. CASE RecoverFindsPortTaken(t)
  BY <1>7 DEF RecoverFindsPortTaken
<1>8. CASE RecoverFindsPortFree(t)
  BY <1>8 DEF RecoverFindsPortFree
<1>9. CASE RecoverDeclines(t)
  BY <1>9 DEF RecoverDeclines
<1>10. CASE BeginAutoStart(t)
  BY <1>10 DEF BeginAutoStart
<1>. QED
  BY <1>1, <1>2, <1>3, <1>4, <1>5, <1>6, <1>7, <1>8, <1>9, <1>10 DEF Recovers

LEMMA ThreadStarts ==
    ASSUME MrInv, NEW t \in Thread, Starts(t),
           \A q \in Pid : Ours(q) => Ours(q)'
    PROVE  ThreadStep(t)
<1>. /\ TypeOK
     /\ OpLink(t) /\ LocalLink(t)
  BY DEF MrInv, MrLinks
<1>. USE NoneAssumption
     DEF TypeOK, ThreadTypes, ThreadStep, OpLink, LocalLink, Return, Step, Goto,
         Labels, Recovering, Launching, Storing, Listing
<1>1. CASE PreflightFindsFree(t)
  BY <1>1 DEF PreflightFindsFree
<1>2. CASE PreflightFindsTaken(t)
  BY <1>2 DEF PreflightFindsTaken
<1>3. CASE RecheckPasses(t)
  BY <1>3 DEF RecheckPasses
<1>4. CASE RecheckFindsConflict(t)
  <2>1. CASE op[t] = "register"
    BY <1>4, <2>1 DEF RecheckFindsConflict
  <2>2. CASE op[t] = "auto"
    BY <1>4, <2>2 DEF RecheckFindsConflict
  <2>3. CASE op[t] \notin {"register", "auto"}
    BY <1>4, <2>3 DEF RecheckFindsConflict
  <2>. QED
    BY <2>1, <2>2, <2>3
<1>5. CASE Spawn(t)
  <2>1. PICK p \in Pid :
          /\ \/ StartJoins(App, p) /\ Goto(t, "setpid")
             \/ StartSpawns(App, p) /\ Goto(t, "window")
          /\ child' = [child EXCEPT ![t] = p]
    BY <1>5 DEF Spawn
  <2>2. CASE StartJoins(App, p) /\ Goto(t, "setpid")
    <3>1. Ours(p)
      BY <2>2, CurrentIsOurs DEF StartJoins, MrInv
    <3>. QED
      BY <1>5, <2>1, <2>2, <3>1 DEF Spawn
  <2>3. CASE StartSpawns(App, p) /\ Goto(t, "window")
    <3>1. Ours(p)'
      BY <2>3 DEF StartSpawns, Ours, PmTypeOK
    <3>. QED
      BY <1>5, <2>1, <2>3, <3>1 DEF Spawn
  <2>. QED
    BY <2>1, <2>2, <2>3
<1>6. CASE SpawnRefused(t)
  BY <1>6 DEF SpawnRefused
<1>7. CASE WindowCloses(t)
  BY <1>7 DEF WindowCloses
<1>8. CASE StartFails(t)
  <2>1. CASE op[t] = "register"
    BY <1>8, <2>1 DEF StartFails
  <2>2. CASE op[t] = "auto"
    BY <1>8, <2>2 DEF StartFails
  <2>3. CASE op[t] \notin {"register", "auto"}
    <3>1. Return(t)
      BY <1>8, <2>3 DEF StartFails
    <3>. QED
      BY <3>1
  <2>. QED
    BY <2>1, <2>2, <2>3
<1>9. CASE StoresPid(t)
  BY <1>9 DEF StoresPid
<1>10. CASE StoresRunning(t)
  BY <1>10 DEF StoresRunning
<1>11. CASE Settles(t)
  BY <1>11 DEF Settles
<1>12. CASE EndAutoStart(t)
  BY <1>12 DEF EndAutoStart
<1>13. CASE Reconciles(t)
  BY <1>13 DEF Reconciles
<1>. QED
  BY <1>1, <1>2, <1>3, <1>4, <1>5, <1>6, <1>7, <1>8, <1>9, <1>10, <1>11, <1>12,
     <1>13 DEF Starts

LEMMA ThreadKills ==
    ASSUME MrInv, NEW t \in Thread, KillsPort(t),
           \A q \in Pid : Ours(q) => Ours(q)'
    PROVE  ThreadStep(t)
<1>. /\ TypeOK
     /\ OpLink(t) /\ LocalLink(t)
  BY DEF MrInv, MrLinks
<1>. USE NoneAssumption, StrangerAssumption
     DEF TypeOK, ThreadTypes, ThreadStep, OpLink, LocalLink, Step, Goto, AfterKill,
         Labels, Recovering, Launching, Storing, Listing
<1>1. CASE KillPortScans(t)
  BY <1>1, HolderIsOurs DEF KillPortScans, pmVars, Ours
<1>2. CASE KillPortAsks(t)
  <2>1. Tracked(child[t]) \/ LetGo(child[t])
    BY <1>2, UntrackedIsLetGo DEF KillPortAsks, Ours
  <2>. QED
    BY <1>2, <2>1 DEF KillPortAsks, pmVars, LetGo
<1>3. CASE KillPortSignals(t)
  BY <1>3 DEF KillPortSignals
<1>. QED
  BY <1>1, <1>2, <1>3 DEF KillsPort

LEMMA ThreadStops ==
    ASSUME MrInv, NEW t \in Thread, Stops(t),
           \A q \in Pid : Ours(q) => Ours(q)'
    PROVE  ThreadStep(t)
<1>. /\ TypeOK
     /\ OpLink(t) /\ LocalLink(t)
  BY DEF MrInv, MrLinks
<1>. USE NoneAssumption
     DEF TypeOK, ThreadTypes, ThreadStep, OpLink, LocalLink, Return, Step, Goto,
         Labels, Recovering, Launching, Storing, Listing
<1>1. CASE Kill(t)
  BY <1>1 DEF Kill, AfterKill
<1>2. CASE Clear(t)
  BY <1>2 DEF Clear
<1>3. CASE Removes(t)
  BY <1>3 DEF Removes
<1>. QED
  BY <1>1, <1>2, <1>3 DEF Stops

LEMMA ThreadSteps ==
    ASSUME MrInv, NEW t \in Thread, Begins(t) \/ Continues(t),
           \A q \in Pid : Ours(q) => Ours(q)'
    PROVE  ThreadStep(t)
BY ThreadBegins, ThreadRecovers, ThreadStarts, ThreadKills, ThreadStops
   DEF Continues

-----------------------------------------------------------------------------
\* The route's atomics

RouteTypes ==
    /\ table \in Route \cup {None}
    /\ running \in [Route -> BOOLEAN]
    /\ ready \in [Route -> BOOLEAN]
    /\ pid \in [Route -> Pid \cup {None}]
    /\ failed \in [Route -> BOOLEAN]

RouteStep == RouteTypes' /\ \A r \in Route : PidLink(r)'

\* Nothing but one of the route's own pids is ever stored.
LEMMA RouteStored ==
    ASSUME RouteTypes, \A r \in Route : PidLink(r),
           \A q \in Pid : Ours(q) => Ours(q)',
           RouteTypes',
           \A r \in Route : pid'[r] \in {pid[r], None} \/ Ours(pid[r])'
    PROVE  RouteStep
BY DEF RouteStep, PidLink, RouteTypes

LEMMA RouteSteps ==
    ASSUME MrInv, [Next]_vars, \A q \in Pid : Ours(q) => Ours(q)'
    PROVE  RouteStep
<1>. /\ TypeOK
     /\ \A t \in Thread : OpLink(t) /\ LocalLink(t)
     /\ \A r \in Route : PidLink(r)
     /\ \A c \in Callback : ExitLink(c)
  BY DEF MrInv, MrLinks
<1>0. RouteTypes
  BY DEF RouteTypes, TypeOK
<1>. DEFINE Stored == /\ RouteTypes'
                      /\ \A r \in Route :
                           pid'[r] \in {pid[r], None} \/ Ours(pid[r])'
<1>. USE DEF TypeOK, RouteTypes, Begin, routeVars
<1>1. ASSUME NEW t \in Thread,
             \/ VisitFindsPortWrong(t) \/ VisitFailsUpstream(t)
             \/ RecheckFindsConflict(t)
      PROVE  Stored
  BY <1>1 DEF VisitFindsPortWrong, VisitFailsUpstream, RecheckFindsConflict
<1>13. ASSUME NEW t \in Thread, RecoverClears(t) \/ RecoverUnmarks(t) PROVE Stored
  BY <1>13 DEF RecoverClears, RecoverUnmarks, Step, LocalLink
<1>2. ASSUME NEW t \in Thread, NEW r \in Route, RegisterBegins(t, r)
      PROVE  Stored
  BY <1>2 DEF RegisterBegins
<1>3. ASSUME NEW t \in Thread, StartFails(t) PROVE Stored
  BY <1>3 DEF StartFails
<1>4. ASSUME NEW t \in Thread, StoresPid(t) PROVE Stored
  BY <1>4 DEF StoresPid, LocalLink, Ours
<1>5. ASSUME NEW t \in Thread, StoresRunning(t) \/ Settles(t) PROVE Stored
  BY <1>5 DEF StoresRunning, Settles
<1>6. ASSUME NEW t \in Thread, StopBegins(t) \/ IdleStops(t) \/ DeregisterBegins(t)
      PROVE  Stored
  BY <1>6 DEF StopBegins, IdleStops, DeregisterBegins
<1>7. ASSUME NEW t \in Thread, Clear(t) \/ Removes(t) PROVE Stored
  BY <1>7 DEF Clear, Removes
<1>8. ASSUME NEW c \in Callback, Handles(c) PROVE Stored
  <2>1. CASE ExitSwaps(c)
    BY <2>1 DEF ExitSwaps
  <2>2. CASE ExitClears(c)
    <3>1. PICK r \in Route : r = exit[c].obj
      BY <2>2 DEF ExitClears, ExitLink
    <3>2. PICK f \in BOOLEAN : f = (failed[r] \/ exit[c].was)
      OBVIOUS
    <3>3. /\ failed' = [failed EXCEPT ![r] = f]
          /\ ready' = [ready EXCEPT ![r] = FALSE]
          /\ pid' = [pid EXCEPT ![r] = None]
          /\ UNCHANGED <<table, running>>
      BY <2>2, <3>1, <3>2 DEF ExitClears
    <3>. QED
      BY <3>3
  <2>. QED
    BY <1>8, <2>1, <2>2 DEF Handles
<1>9. ASSUME NEW w \in Poller, Bury(w) \/ Mark(w) \/ GivesUp(w) PROVE Stored
  BY <1>9 DEF Bury, Mark, GivesUp
<1>10. ASSUME UNCHANGED <<table, routeVars>> PROVE Stored
  BY <1>10
<1>11. ASSUME NEW t \in Thread, Begins(t) \/ Continues(t) PROVE Stored
  BY <1>1, <1>2, <1>3, <1>4, <1>5, <1>6, <1>7, <1>10, <1>11, <1>13,
     ThreadCases
     DEF VisitFindsStopped, StartBegins, RecoverYields, RecoverProceeds,
         RecoverProbes, AdoptOrphanFinds, AdoptOrphanDeclines, RecoverAdopts,
         RecoverFindsPortTaken, RecoverFindsPortFree, RecoverDeclines,
         BeginAutoStart, PreflightFindsFree, PreflightFindsTaken, RecheckPasses,
         Reconciles, KillPortScans, KillPortAsks, KillPortSignals,
         Spawn, SpawnRefused, WindowCloses, EndAutoStart, Kill
<1>12. Stored
  BY <1>8, <1>9, <1>10, <1>11
     DEF Next, vars, mrVars, Supervises, Notices, ExitWait, ExitWatch,
         ChildExits, Binds, Polls, Tick, Deadline, StrangerMoves
<1>. QED
  BY <1>0, <1>12, RouteStored

-----------------------------------------------------------------------------
\* The pollers, the exit handler and the port

OtherTypes ==
    /\ holder \in Pid \cup {None, Stranger}
    /\ poll \in [Poller -> [at : {"off", "tick", "ticked", "bury",
                                   "mark", "late"},
                            obj : Route \cup {None}]]
    /\ exit \in [Callback -> [at : {"off", "swap", "clear"},
                              obj : Route \cup {None}, was : BOOLEAN]]

OtherStep == OtherTypes' /\ HolderLink' /\ \A c \in Callback : ExitLink(c)'

LEMMA PollSteps ==
    ASSUME MrInv, [Next]_vars
    PROVE  poll' \in [Poller -> [at : {"off", "tick", "ticked", "bury",
                                       "mark", "late"},
                                 obj : Route \cup {None}]]
<1>. TypeOK
  BY DEF MrInv
<1>. DEFINE Good == poll' \in [Poller -> [at : {"off", "tick", "ticked", "bury",
                                                "mark", "late"},
                                          obj : Route \cup {None}]]
<1>1. ASSUME NEW t \in Thread, Settles(t) PROVE Good
  BY <1>1 DEF Settles, TypeOK
<1>2. ASSUME NEW w \in Poller,
             NEW l \in {"off", "tick", "ticked", "bury", "mark", "late"},
             PollGoes(w, l)
      PROVE  Good
  <2>1. PICK k : k = IF l = "off" THEN Off ELSE [poll[w] EXCEPT !.at = l]
    OBVIOUS
  <2>2. k \in [at : {"off", "tick", "ticked", "bury", "mark", "late"},
               obj : Route \cup {None}]
    BY <2>1 DEF Off, TypeOK
  <2>3. poll' = [poll EXCEPT ![w] = k]
    BY <1>2, <2>1 DEF PollGoes
  <2>. QED
    BY <2>2, <2>3 DEF TypeOK
<1>3. ASSUME NEW w \in Poller, Polls(w) PROVE Good
  BY <1>2, <1>3 DEF Polls, Tick, Bury, Mark, Deadline, GivesUp
<1>4. ASSUME UNCHANGED poll PROVE Good
  BY <1>4 DEF TypeOK
<1>5. ASSUME NEW t \in Thread, Begins(t) \/ Continues(t) PROVE Good
  BY <1>1, <1>4, <1>5, ThreadCases
     DEF VisitFindsPortWrong, VisitFailsUpstream, VisitFindsStopped,
         StartBegins, StopBegins, IdleStops, DeregisterBegins, RegisterBegins,
         RecoverYields, RecoverProceeds, RecoverProbes, RecoverClears,
         RecoverUnmarks, AdoptOrphanFinds,
         AdoptOrphanDeclines, RecoverAdopts, RecoverFindsPortTaken,
         RecoverFindsPortFree, RecoverDeclines, BeginAutoStart,
         PreflightFindsFree, PreflightFindsTaken, RecheckPasses,
         Reconciles, KillPortScans, KillPortAsks, KillPortSignals,
         RecheckFindsConflict, Spawn, SpawnRefused, WindowCloses, StartFails,
         StoresPid, StoresRunning, EndAutoStart, Kill, Clear, Removes, otherVars
<1>. QED
  BY <1>3, <1>4, <1>5
     DEF Next, vars, mrVars, otherVars, Supervises, Notices, ExitWait,
         ExitWatch, ChildExits, Binds, Handles, ExitSwaps, ExitClears,
         StrangerMoves

LEMMA ExitSteps ==
    ASSUME MrInv, [Next]_vars
    PROVE  /\ exit' \in [Callback -> [at : {"off", "swap", "clear"},
                                      obj : Route \cup {None}, was : BOOLEAN]]
           /\ \A c \in Callback : ExitLink(c)'
<1>. /\ TypeOK
     /\ \A c \in Callback : ExitLink(c)
  BY DEF MrInv, MrLinks
<1>. DEFINE Entry == [at : {"off", "swap", "clear"},
                      obj : Route \cup {None}, was : BOOLEAN]
            Good == exit' \in [Callback -> Entry] /\ \A c \in Callback : ExitLink(c)'
<1>1. ASSUME NEW c \in Callback, NEW k \in Entry,
             k.at # "off" => k.obj \in Route,
             exit' = [exit EXCEPT ![c] = k]
      PROVE  Good
  BY <1>1 DEF TypeOK, ExitLink
<1>2. ASSUME UNCHANGED exit PROVE Good
  BY <1>2 DEF TypeOK, ExitLink
<1>3. ASSUME NEW c \in Callback, EntersHandler(c) PROVE Good
  <2>1. CASE Stale(c[2])
    BY <1>2, <1>3, <2>1 DEF EntersHandler
  <2>2. CASE ~Stale(c[2])
    <3>1. table \in Route
      BY <2>2 DEF Stale, TypeOK
    <3>2. PICK k : k = [NoExit EXCEPT !.at = "swap", !.obj = table]
      OBVIOUS
    <3>3. k \in Entry /\ k.obj \in Route
      BY <3>1, <3>2 DEF NoExit
    <3>4. exit' = [exit EXCEPT ![c] = k]
      BY <1>3, <2>2, <3>2 DEF EntersHandler
    <3>. QED
      BY <1>1, <3>3, <3>4
  <2>. QED
    BY <2>1, <2>2
<1>4. ASSUME NEW c \in Callback, ExitSwaps(c) PROVE Good
  <2>1. exit[c].obj \in Route /\ exit[c] \in Entry
    BY <1>4 DEF ExitSwaps, ExitLink, TypeOK
  <2>2. PICK b \in BOOLEAN : b = running[exit[c].obj]
    BY <2>1 DEF TypeOK
  <2>3. PICK k : k = [exit[c] EXCEPT !.at = "clear", !.was = b]
    OBVIOUS
  <2>4. k \in Entry /\ k.obj \in Route
    BY <2>1, <2>3
  <2>5. exit' = [exit EXCEPT ![c].at = "clear", ![c].was = b]
    BY <1>4, <2>2 DEF ExitSwaps
  <2>6. exit' = [exit EXCEPT ![c] = k]
    BY <2>3, <2>5 DEF TypeOK
  <2>. QED
    BY <1>1, <2>4, <2>6
<1>5. ASSUME NEW c \in Callback, ExitClears(c) PROVE Good
  <2>1. NoExit \in Entry /\ NoExit.at = "off"
    BY DEF NoExit
  <2>2. exit' = [exit EXCEPT ![c] = NoExit]
    BY <1>5 DEF ExitClears
  <2>. QED
    BY <1>1, <2>1, <2>2
<1>6. ASSUME NEW p \in Pid, Notices(p) PROVE Good
  <2>1. <<"wait", p>> \in Callback /\ <<"watch", p>> \in Callback
    BY DEF Callback
  <2>. QED
    BY <1>3, <1>6, <2>1 DEF Notices, ExitWait, ExitWatch
<1>7. ASSUME NEW t \in Thread, Begins(t) \/ Continues(t) PROVE Good
  BY <1>2, <1>7, ThreadCases
     DEF VisitFindsPortWrong, VisitFailsUpstream, VisitFindsStopped,
         StartBegins, StopBegins, IdleStops, DeregisterBegins, RegisterBegins,
         RecoverYields, RecoverProceeds, RecoverProbes, RecoverClears,
         RecoverUnmarks, AdoptOrphanFinds,
         AdoptOrphanDeclines, RecoverAdopts, RecoverFindsPortTaken,
         RecoverFindsPortFree, RecoverDeclines, BeginAutoStart,
         PreflightFindsFree, PreflightFindsTaken, RecheckPasses,
         Reconciles, KillPortScans, KillPortAsks, KillPortSignals,
         RecheckFindsConflict, Spawn, SpawnRefused, WindowCloses, StartFails,
         StoresPid, StoresRunning, Settles, EndAutoStart, Kill, Clear, Removes,
         otherVars
<1>8. Good
  BY <1>2, <1>4, <1>5, <1>6, <1>7
     DEF Next, vars, mrVars, otherVars, Supervises, ChildExits, Binds, Handles,
         Polls, Tick, Bury, Mark, Deadline, GivesUp, StrangerMoves
<1>. QED
  BY <1>8

\* The port's holder is alive: who exits leaves the port in the same step.
LEMMA HolderSteps ==
    ASSUME MrInv, [Next]_vars
    PROVE  holder' \in Pid \cup {None, Stranger} /\ HolderLink'
<1>. TypeOK /\ PmTypeOK /\ HolderLink
  BY DEF MrInv, MrLinks, TypeOK
<1>. DEFINE Good == holder' \in Pid \cup {None, Stranger} /\ HolderLink'
<1>. USE NoneAssumption, StrangerAssumption, AppAssumption
<1>1. ASSUME UNCHANGED <<holder, status>> PROVE Good
  BY <1>1 DEF TypeOK, HolderLink
<1>2. ASSUME UNCHANGED holder,
             NEW p \in Pid, status[p] # "alive",
             NEW s, status' = [status EXCEPT ![p] = s]
      PROVE  Good
  BY <1>2 DEF TypeOK, HolderLink, PmTypeOK
<1>3. ASSUME NEW p \in Pid, ChildExits(p) PROVE Good
  BY <1>3 DEF ChildExits, Exits, HolderLink, TypeOK, PmTypeOK
<1>4. ASSUME NEW p \in Pid, Binds(p) PROVE Good
  BY <1>4 DEF Binds, pmVars, HolderLink
<1>5. ASSUME StrangerMoves PROVE Good
  BY <1>5 DEF StrangerMoves, HolderLink
<1>6. ASSUME NEW t \in Thread, Spawn(t) PROVE Good
  BY <1>1, <1>2, <1>6 DEF Spawn, StartJoins, StartSpawns, pmVars
<1>7. ASSUME NEW t \in Thread, Begins(t) \/ Continues(t) PROVE Good
  <2>1. Spawn(t) \/ UNCHANGED <<holder, status>>
    BY <1>7, ThreadCases
       DEF VisitFindsPortWrong, VisitFailsUpstream, VisitFindsStopped,
         StartBegins, StopBegins, IdleStops, DeregisterBegins, RegisterBegins,
         RecoverYields, RecoverProceeds, RecoverProbes, RecoverClears,
         RecoverUnmarks, AdoptOrphanFinds,
         AdoptOrphanDeclines, RecoverAdopts, RecoverFindsPortTaken,
         RecoverFindsPortFree, RecoverDeclines, BeginAutoStart,
         PreflightFindsFree, PreflightFindsTaken, RecheckPasses,
         Reconciles, KillPortScans, KillPortAsks, KillPortSignals,
         RecheckFindsConflict, SpawnRefused, WindowCloses, StartFails,
         StoresPid, StoresRunning, Settles, EndAutoStart, Kill, Clear, Removes,
         Adopt, StartRefused, StartCommits, StartReportsExit, Stop, pmVars
  <2>. QED
    BY <1>1, <1>6, <2>1
<1>8. ASSUME NEW p \in Pid, Supervises(p) PROVE Good
  BY <1>1, <1>2, <1>8
     DEF Supervises, mrVars, WaitReaps, WaitRecords, InitReaps, WatchSeesExit,
         WatchFails
<1>9. ASSUME NEW p \in Pid, Notices(p) PROVE Good
  BY <1>1, <1>9 DEF Notices, ExitWait, ExitWatch, WaitNotifies, WatchNotifies
<1>. QED
  BY <1>1, <1>3, <1>4, <1>5, <1>7, <1>8, <1>9
     DEF Next, vars, mrVars, pmVars, Handles, ExitSwaps, ExitClears, Polls,
         Tick, Bury, Mark, Deadline, GivesUp

-----------------------------------------------------------------------------
\* The auto-start marker

SameMarker ==
    /\ UNCHANGED autoStarting
    /\ \A u \in Thread : (op'[u] = "auto") <=> (op[u] = "auto")

\* Only beginAutoStart takes the marker and only endAutoStart gives it back:
\* every other early return is one of a goroutine that never held it.
LEMMA MarkerSteps ==
    ASSUME MrInv, [Next]_vars
    PROVE  MarkerLink' /\ autoStarting' \in BOOLEAN
<1>. /\ TypeOK
     /\ MarkerLink
     /\ \A t \in Thread : OpLink(t)
  BY DEF MrInv, MrLinks
<1>. USE DEF MarkerLink, SingleFlight, MarkerHeld
<1>1. ASSUME SameMarker PROVE MarkerLink' /\ autoStarting' \in BOOLEAN
  BY <1>1 DEF SameMarker, TypeOK
<1>2. ASSUME NEW t \in Thread, BeginAutoStart(t) PROVE MarkerLink' /\ autoStarting' \in BOOLEAN
  BY <1>2 DEF BeginAutoStart, TypeOK
<1>3. ASSUME NEW t \in Thread, EndAutoStart(t) PROVE MarkerLink' /\ autoStarting' \in BOOLEAN
  BY <1>3 DEF EndAutoStart, Return, OpLink, TypeOK
<1>4. ASSUME NEW t \in Thread, Begins(t) PROVE SameMarker
  BY <1>4, OpsAssumption
     DEF Begins, VisitFindsPortWrong, VisitFailsUpstream, VisitFindsStopped,
         StartBegins, StopBegins, IdleStops, DeregisterBegins, RegisterBegins,
         Begin, OpLink, SameMarker, threadVars, TypeOK
<1>5. ASSUME NEW t \in Thread, Recovers(t), ~BeginAutoStart(t) PROVE SameMarker
  BY <1>5
     DEF Recovers, RecoverYields, RecoverProceeds, RecoverProbes, RecoverClears,
         RecoverUnmarks,
         AdoptOrphanFinds, AdoptOrphanDeclines, RecoverAdopts,
         RecoverFindsPortTaken, RecoverFindsPortFree, RecoverDeclines, Step,
         Return, OpLink, Recovering, SameMarker, TypeOK
<1>6. ASSUME NEW t \in Thread, Starts(t), ~EndAutoStart(t) PROVE SameMarker
  <2>1. CASE Reconciles(t)
    BY <2>1 DEF Reconciles, Step, Return, OpLink, SameMarker, TypeOK
  <2>2. CASE RecheckFindsConflict(t) \/ StartFails(t) \/ Settles(t)
    BY <2>2 DEF RecheckFindsConflict, StartFails, Settles, Step, Return, SameMarker,
                TypeOK
  <2>3. CASE ~Reconciles(t) /\ ~RecheckFindsConflict(t) /\ ~StartFails(t)
             /\ ~Settles(t)
    BY <1>6, <2>3
       DEF Starts, PreflightFindsFree, PreflightFindsTaken, RecheckPasses, Spawn,
           SpawnRefused, WindowCloses, StoresPid, StoresRunning, Step, SameMarker
  <2>. QED
    BY <2>1, <2>2, <2>3
<1>7. ASSUME NEW t \in Thread, Stops(t) PROVE SameMarker
  BY <1>7 DEF Stops, Kill, Clear, Removes, Step, Return, OpLink, SameMarker,
              TypeOK
<1>8. ASSUME UNCHANGED <<autoStarting, op>> PROVE SameMarker
  BY <1>8 DEF SameMarker
<1>9. ASSUME NEW t \in Thread, KillsPort(t) PROVE SameMarker
  BY <1>8, <1>9
     DEF KillsPort, KillPortScans, KillPortAsks, KillPortSignals, Step
<1>. QED
  BY <1>1, <1>2, <1>3, <1>4, <1>5, <1>6, <1>7, <1>8, <1>9
     DEF Next, vars, mrVars, threadVars, Continues, Supervises, Notices,
         ExitWait, ExitWatch, ChildExits, Binds, Handles, ExitSwaps,
         ExitClears, Polls, Tick, Bury, Mark, Deadline, GivesUp, StrangerMoves

-----------------------------------------------------------------------------
\* The inductive invariant

\* The locals of every goroutine: one moves at a time, the others' pids stay
\* the route's.
LEMMA LocalSteps ==
    ASSUME MrInv, [Next]_vars, \A q \in Pid : Ours(q) => Ours(q)',
           \A q \in Pid : Ours(q) /\ LetGo(q) => LetGo(q)'
    PROVE  ThreadTypes' /\ \A u \in Thread : (OpLink(u) /\ LocalLink(u))'
<1>. /\ TypeOK
     /\ \A u \in Thread : OpLink(u) /\ LocalLink(u)
  BY DEF MrInv, MrLinks
<1>1. ASSUME NEW u \in Thread,
             /\ pc'[u] = pc[u] /\ op'[u] = op[u]
             /\ obj'[u] = obj[u] /\ child'[u] = child[u]
      PROVE  (OpLink(u) /\ LocalLink(u))'
  <2>1. OpLink(u)'
    BY <1>1 DEF OpLink
  <2>2. child[u] # None => child[u] \in Pid /\ owner'[child[u]] = App
    BY DEF LocalLink, TypeOK, Ours
  <2>3. pc[u] = "signal" => LetGo(child[u])'
    BY <1>1 DEF LocalLink, Ours, LetGo
  <2>4. LocalLink(u)'
    BY <1>1, <2>2, <2>3 DEF LocalLink, Ours
  <2>. QED
    BY <2>1, <2>4
<1>2. ASSUME NEW t \in Thread, Begins(t) \/ Continues(t)
      PROVE  ThreadTypes' /\ \A u \in Thread : (OpLink(u) /\ LocalLink(u))'
  BY <1>1, <1>2, ThreadSteps DEF ThreadStep
<1>3. ASSUME UNCHANGED threadVars
      PROVE  ThreadTypes' /\ \A u \in Thread : (OpLink(u) /\ LocalLink(u))'
  BY <1>1, <1>3 DEF threadVars, ThreadTypes, TypeOK
<1>. QED
  BY <1>2, <1>3
     DEF Next, vars, mrVars, Supervises, Notices, ExitWait, ExitWatch,
         ChildExits, Binds, Handles, ExitSwaps, ExitClears, Polls, Tick, Bury,
         Mark, Deadline, GivesUp, StrangerMoves

LEMMA MrInit == Init => MrInv
<1>. SUFFICES ASSUME Init PROVE MrInv
  OBVIOUS
<1>. USE NoneAssumption, AppAssumption, StrangerAssumption
<1>1. PmTypeOK /\ PmLinks /\ EntryKept
  BY InitType, InitLinks DEF Init
<1>2. RouteTypes /\ ThreadTypes /\ OtherTypes /\ autoStarting \in BOOLEAN
  BY DEF Init, RouteTypes, ThreadTypes, OtherTypes, Labels, Off, NoExit
<1>3. \A t \in Thread : OpLink(t) /\ LocalLink(t)
  BY DEF Init, OpLink, LocalLink, Recovering, Launching, Storing, Listing
<1>4. \A r \in Route : PidLink(r)
  BY <1>1 DEF Init, PidLink, Ours
<1>5. HolderLink
  BY DEF Init, PmInit, HolderLink
<1>6. \A c \in Callback : ExitLink(c)
  BY DEF Init, ExitLink, NoExit
<1>7. MarkerLink
  BY DEF Init, MarkerLink, SingleFlight, MarkerHeld
<1>8. TypeOK
  BY <1>1, <1>2 DEF TypeOK, RouteTypes, ThreadTypes, OtherTypes
<1>. QED
  BY <1>1, <1>3, <1>4, <1>5, <1>6, <1>7, <1>8 DEF MrInv, MrLinks

LEMMA MrNext == MrInv /\ [Next]_vars => MrInv'
<1>. SUFFICES ASSUME MrInv, [Next]_vars PROVE MrInv'
  OBVIOUS
<1>1. PmInv /\ ManagerStep
  BY ManagerSteps DEF MrInv, TypeOK, PmInv
<1>2. PmInv'
  BY <1>1, ManagerKept
<1>3. \A q \in Pid : Ours(q) => Ours(q)'
  BY <1>1, ManagerGrows
<1>10. \A q \in Pid : Ours(q) /\ LetGo(q) => LetGo(q)'
  BY <1>1, ManagerGrows
<1>4. ThreadTypes' /\ \A t \in Thread : (OpLink(t) /\ LocalLink(t))'
  BY <1>3, <1>10, LocalSteps
<1>5. RouteTypes' /\ \A r \in Route : PidLink(r)'
  BY <1>3, RouteSteps DEF RouteStep
<1>6. OtherTypes' /\ HolderLink' /\ \A c \in Callback : ExitLink(c)'
  BY PollSteps, ExitSteps, HolderSteps DEF OtherTypes
<1>7. MarkerLink'
  BY MarkerSteps
<1>8. autoStarting' \in BOOLEAN
  BY MarkerSteps
<1>9. TypeOK'
  BY <1>2, <1>4, <1>5, <1>6, <1>8
     DEF PmInv, TypeOK, RouteTypes, ThreadTypes, OtherTypes
<1>. QED
  BY <1>2, <1>4, <1>5, <1>6, <1>7, <1>9 DEF PmInv, MrInv, MrLinks

LEMMA MrInvariance == Spec => []MrInv
BY MrInit, MrNext, PTL DEF Spec

\* Every reachable state of a managed route is well typed.
THEOREM MrTyping == Spec => []TypeOK
<1>1. MrInv => TypeOK
  BY DEF MrInv
<1>. QED
  BY <1>1, MrInvariance, PTL

\* Between beginAutoStart and endAutoStart there is at most one goroutine.
THEOREM OneAutoStart == Spec => []SingleFlight
<1>1. MrInv => SingleFlight
  BY DEF MrInv, MrLinks, MarkerLink
<1>. QED
  BY <1>1, MrInvariance, PTL

\* The marker is never left behind: while it is set, a goroutine is on its way
\* to release it, whatever failed in between (autostart.go, startManagedNow).
THEOREM MarkerIsHeld == Spec => []MarkerHeld
<1>1. MrInv => MarkerHeld
  BY DEF MrInv, MrLinks, MarkerLink
<1>. QED
  BY <1>1, MrInvariance, PTL

\* The handlers and killPort between them strand no child the manager spawned:
\* one that lives and was never signalled is in the table under its name.
THEOREM HandlersStrandNone == Spec => []NoStrandedChild
<1>1. MrInv => NoStrandedChild
  BY KeptNotStranded DEF MrInv, TypeOK, PmInv
<1>. QED
  BY <1>1, MrInvariance, PTL

-----------------------------------------------------------------------------
\* The route implements ChildSupervision

\* killPort's signal takes nobody's serving child away, however long ago it
\* found whom it signals.
LEMMA StrayServes ==
    ASSUME PmInv, NEW p \in Pid, StraySignal(p)
    PROVE  UNCHANGED Supervision!supVars
<1>1. \A n \in Name : Serving(n)' = Serving(n)
  BY DEF StraySignal, Signal, LetGo, Serving
<1>2. \A q \in Pid : Verdict(q)' = Verdict(q)
  BY DEF StraySignal, Verdict
<1>3. \A q \in Pid : (waiter'[q] = "none") = (waiter[q] = "none")
  BY DEF StraySignal
<1>. QED
  BY <1>1, <1>2, <1>3, SameSupervision

\* With every handler, poller and exit callback running, and killPort beside
\* the manager's own Stop, the promise of ChildSupervision is kept: at most one
\* serving child under the name, one true verdict per child.
THEOREM RouteSupervised == Spec => Supervised
<1>1. Init => Supervision!Init
  BY InitSupervised DEF Init
<1>2. MrInv /\ [Next]_vars => [Supervision!Next]_Supervision!supVars
  <2>. SUFFICES ASSUME MrInv, [Next]_vars
                PROVE  [Supervision!Next]_Supervision!supVars
    OBVIOUS
  <2>1. PmInv /\ ManagerStep
    BY ManagerSteps DEF MrInv, TypeOK, PmInv
  <2>. QED
    BY <2>1, StrayServes, StepSupervised DEF ManagerStep
<1>. QED
  BY <1>1, <1>2, MrInvariance, PTL DEF Spec, Supervised, Supervision!Spec

-----------------------------------------------------------------------------
\* Visits

\* Stop is only called from the label "kill", which no visit gets to.
LEMMA VisitManages ==
    ASSUME Ops \subseteq {"visit"}, MrInv, [Next]_vars,
           NEW p \in Pid, p \in signalled', p \notin signalled
    PROVE  StraySignal(p)
<1>. /\ TypeOK
     /\ \A t \in Thread : OpLink(t)
  BY DEF MrInv, MrLinks
<1>1. ASSUME NEW t \in Thread, KillsPort(t) PROVE StraySignal(p)
  BY <1>1, KillPortStep DEF StraySignal, Signal, pmVars
<1>2. \A t \in Thread : ~Kill(t) /\ ~Reconciles(t)
  BY DEF TypeOK, OpLink, Kill, Reconciles, Step
<1>3. ASSUME NEW t \in Thread, Begins(t) \/ Continues(t)
      PROVE  KillsPort(t)
  BY <1>2, <1>3, ThreadCases
     DEF VisitFindsPortWrong, VisitFailsUpstream, VisitFindsStopped,
         StartBegins, StopBegins, IdleStops, DeregisterBegins, RegisterBegins,
         RecoverYields, RecoverProceeds, RecoverProbes, RecoverClears,
         RecoverUnmarks, AdoptOrphanFinds,
         AdoptOrphanDeclines, RecoverAdopts, RecoverFindsPortTaken,
         RecoverFindsPortFree, RecoverDeclines, BeginAutoStart,
         PreflightFindsFree, PreflightFindsTaken, RecheckPasses, KillsPort,
         RecheckFindsConflict, Spawn, SpawnRefused, WindowCloses, StartFails,
         StoresPid, StoresRunning, Settles, EndAutoStart, Clear, Removes, Adopt,
         StartJoins, StartSpawns, StartRefused, StartCommits, StartReportsExit,
         pmVars
<1>4. UNCHANGED signalled \/ \E t \in Thread : Begins(t) \/ Continues(t)
  BY DEF Next, vars, mrVars, pmVars, Supervises, Notices, ExitWait, ExitWatch,
         ChildExits, Binds, Handles, ExitSwaps, ExitClears, Polls, Tick, Bury,
         Mark, Deadline, GivesUp, StrangerMoves, WaitReaps, WaitRecords,
         InitReaps, WatchSeesExit, WatchFails, WaitNotifies, WatchNotifies,
         Exits
<1>. QED
  BY <1>1, <1>3, <1>4

\* A request for the route, whatever it meets, never signals a server that a
\* vibe daemon of this life has spawned: only a stop, a start or a
\* registration on somebody's behalf does (autostart.go, recoverManagedRoute).
THEOREM VisitsSpareChildren ==
    ASSUME Ops \subseteq {"visit"}
    PROVE  Spec => []VisitsNeverKill
<1>1. Init => VisitsNeverKill
  BY DEF Init, PmInit, VisitsNeverKill
<1>2. MrInv /\ VisitsNeverKill /\ [Next]_vars => VisitsNeverKill'
  <2>. SUFFICES ASSUME MrInv, VisitsNeverKill, [Next]_vars
                PROVE  VisitsNeverKill'
    OBVIOUS
  <2>1. PmInv /\ ManagerStep
    BY ManagerSteps DEF MrInv, TypeOK, PmInv
  <2>2. PmInv'
    BY <2>1, ManagerKept
  <2>3. ASSUME NEW p \in Pid, p \in signalled' PROVE waiter'[p] = "none"
    <3>1. CASE p \in signalled
      \* Whom the daemon signalled was born, and is never spawned again.
      <4>1. waiter[p] = "none" /\ status[p] # "unborn"
        BY <2>1, <3>1 DEF VisitsNeverKill, PmInv, PmLinks, OwnerLink
      <4>. QED
        BY <2>1, <4>1, ManagerGrows
    <3>2. CASE p \notin signalled
      \* A child of this daemon's that is let go without a signal is gone.
      <4>1. StraySignal(p)
        BY <2>3, <3>2, VisitManages
      <4>2. waiter[p] # "waiting" /\ status[p] # "dead"
        BY <2>3, <3>2, <4>1 DEF StraySignal, LetGo, Signal, processAlive
      <4>3. waiter[p] = "none"
        BY <2>1, <4>2 DEF PmInv, PmTypeOK, PmLinks, WaiterLink
      <4>. QED
        BY <4>1, <4>3 DEF StraySignal
    <3>. QED
      BY <3>1, <3>2
  <2>4. signalled' \subseteq Pid
    BY <2>2 DEF PmInv, PmTypeOK
  <2>. QED
    BY <2>3, <2>4 DEF VisitsNeverKill
<1>. QED
  BY <1>1, <1>2, MrInvariance, PTL DEF Spec

-----------------------------------------------------------------------------
\* Without adoption (Windows)

\* The manager's maps hold children of this daemon's life only.
EntrySpawned(n) ==
    /\ adopted[n] = None
    /\ procs[n] # None => Spawned(procs[n])

RunSpawned(r) == running[r] /\ pid[r] # None => Spawned(pid[r])

HeldSpawned(t) ==
    /\ pc[t] # "adopted"
    /\ child[t] # None => pc[t] \in Listing \/ Spawned(child[t])
    /\ pc[t] = "setrunning" /\ pid[obj[t]] # None => Spawned(pid[obj[t]])

SpawnedInv ==
    /\ \A n \in Name : EntrySpawned(n)
    /\ \A r \in Route : RunSpawned(r)
    /\ \A t \in Thread : HeldSpawned(t)

LEMMA SpawnedInit == Init => SpawnedInv
BY DEF Init, PmInit, SpawnedInv, EntrySpawned, RunSpawned, HeldSpawned

\* With nobody at the label "adopted", Adopt is never called.
LEMMA NoAdopt ==
    ASSUME MrInv, SpawnedInv, [Next]_vars
    PROVE  \A n \in Name : adopted'[n] = None
<1>. /\ PmTypeOK
     /\ \A n \in Name : adopted[n] = None
     /\ \A t \in Thread : pc[t] # "adopted"
  BY DEF MrInv, TypeOK, SpawnedInv, EntrySpawned, HeldSpawned
<1>. USE DEF PmTypeOK
<1>1. ASSUME NEW n \in Name, Stop(n) \/ \E p \in Pid : StartSpawns(n, p)
      PROVE  \A m \in Name : adopted'[m] = None
  BY <1>1 DEF Stop, StartSpawns
<1>2. ASSUME NEW t \in Thread, Begins(t) \/ Continues(t)
      PROVE  UNCHANGED adopted \/ Stop(App) \/ \E p \in Pid : StartSpawns(App, p)
  BY <1>2, ThreadCases
     DEF VisitFindsPortWrong, VisitFailsUpstream, VisitFindsStopped,
         StartBegins, StopBegins, IdleStops, DeregisterBegins, RegisterBegins,
         RecoverYields, RecoverProceeds, RecoverProbes, RecoverClears,
         RecoverUnmarks, AdoptOrphanFinds,
         AdoptOrphanDeclines, RecoverAdopts, RecoverFindsPortTaken,
         RecoverFindsPortFree, RecoverDeclines, BeginAutoStart,
         PreflightFindsFree, PreflightFindsTaken, RecheckPasses,
         Reconciles, KillPortScans, KillPortAsks, KillPortSignals,
         RecheckFindsConflict, Spawn, SpawnRefused, WindowCloses, StartFails,
         StoresPid, StoresRunning, Settles, EndAutoStart, Kill, Clear, Removes,
         Step, StartJoins, StartRefused, StartCommits, StartReportsExit, pmVars
<1>3. ASSUME NEW p \in Pid, Supervises(p) \/ Notices(p) \/ ChildExits(p)
      PROVE  \A n \in Name : adopted'[n] = None
  BY <1>3, NoneAssumption
     DEF Supervises, Notices, ChildExits, ExitWait, ExitWatch, WaitReaps,
         WaitRecords, InitReaps, WatchSeesExit, WatchFails, WaitNotifies,
         WatchNotifies, Exits
<1>. QED
  BY <1>1, <1>2, <1>3, AppAssumption
     DEF Next, vars, pmVars, Binds, Handles, ExitSwaps, ExitClears, Polls,
         Tick, Bury, Mark, Deadline, GivesUp, StrangerMoves

\* A map entry that is not kept is a child being spawned.
LEMMA EntrySteps ==
    ASSUME MrInv, SpawnedInv, [Next]_vars, NEW n \in Name
    PROVE  EntrySpawned(n)'
<1>. /\ PmInv /\ PmTypeOK /\ ManagerStep
     /\ procs[n] # None => Spawned(procs[n])
     /\ adopted'[n] = None
  BY ManagerSteps, NoAdopt DEF MrInv, SpawnedInv, EntrySpawned, TypeOK, PmInv
<1>. USE NoneAssumption DEF PmTypeOK
<1>1. ASSUME procs'[n] \in {procs[n], None} PROVE EntrySpawned(n)'
  <2>1. procs[n] # None =>
           /\ procs[n] \in Pid
           /\ owner'[procs[n]] = App /\ waiter'[procs[n]] # "none"
    BY ManagerGrows DEF Spawned, Ours
  <2>. QED
    BY <1>1, <2>1 DEF EntrySpawned, Spawned, Ours
<1>2. ASSUME NEW m \in Name, NEW p \in Pid, StartSpawns(m, p)
      PROVE  EntrySpawned(n)'
  <2>1. m = App /\ n = App
    BY AppAssumption
  <2>2. procs'[n] = p /\ owner'[p] = App /\ waiter'[p] = "waiting"
    BY <1>2, <2>1 DEF StartSpawns
  <2>. QED
    BY <2>2 DEF EntrySpawned, Spawned, Ours
<1>3. ASSUME NEW m \in Name, Stop(m) PROVE EntrySpawned(n)'
  BY <1>1, <1>3 DEF Stop
<1>4. ASSUME NEW p \in Pid, WaitRecords(p) PROVE EntrySpawned(n)'
  BY <1>1, <1>4 DEF WaitRecords, Forget
<1>5. ASSUME UNCHANGED procs PROVE EntrySpawned(n)'
  BY <1>1, <1>5
<1>. QED
  BY <1>2, <1>3, <1>4, <1>5, NextCases
     DEF ManagerStep, StraySignal, Adopt, StartCommits, StartReportsExit,
         WaitReaps, WaitNotifies, WatchSeesExit, WatchNotifies, WatchFails,
         Exits, InitReaps, pmVars

\* The pid on record of an object is kept, forgotten or, by a start, replaced.
LEMMA RecordSteps ==
    ASSUME MrInv, [Next]_vars, NEW r \in Route
    PROVE  \/ pid'[r] \in {pid[r], None}
           \/ \E t \in Thread : StoresPid(t) /\ r = obj[t] /\ pid'[r] = child[t]
<1>. /\ TypeOK
     /\ \A t \in Thread : LocalLink(t)
  BY DEF MrInv, MrLinks
<1>1. ASSUME NEW t \in Thread, Begins(t) \/ Continues(t)
      PROVE  \/ pid'[r] \in {pid[r], None}
             \/ StoresPid(t) /\ r = obj[t] /\ pid'[r] = child[t]
  BY <1>1, ThreadCases
     DEF VisitFindsPortWrong, VisitFailsUpstream, VisitFindsStopped,
         StartBegins, StopBegins, IdleStops, DeregisterBegins, RegisterBegins,
         RecoverYields, RecoverProceeds, RecoverProbes, RecoverClears,
         RecoverUnmarks, AdoptOrphanFinds,
         AdoptOrphanDeclines, RecoverAdopts, RecoverFindsPortTaken,
         RecoverFindsPortFree, RecoverDeclines, BeginAutoStart,
         PreflightFindsFree, PreflightFindsTaken, RecheckPasses,
         Reconciles, KillPortScans, KillPortAsks, KillPortSignals,
         RecheckFindsConflict, Spawn, SpawnRefused, WindowCloses, StartFails,
         StoresPid, StoresRunning, Settles, EndAutoStart, Kill, Clear, Removes,
         routeVars, TypeOK
<1>. QED
  BY <1>1
     DEF Next, vars, mrVars, routeVars, Supervises, Notices, ExitWait,
         ExitWatch, ChildExits, Binds, Handles, ExitSwaps, ExitClears, Polls,
         Tick, Bury, Mark, Deadline, GivesUp, StrangerMoves, TypeOK

\* An object starts to run with no pid on record, or after its child's is.
LEMMA RunningSteps ==
    ASSUME MrInv, [Next]_vars, NEW r \in Route, running'[r]
    PROVE  \/ running[r]
           \/ pid'[r] = None
           \/ \E t \in Thread : StoresRunning(t) /\ r = obj[t]
<1>. TypeOK
  BY DEF MrInv
<1>1. ASSUME NEW t \in Thread, Begins(t) \/ Continues(t)
      PROVE  running[r] \/ pid'[r] = None \/ (StoresRunning(t) /\ r = obj[t])
  BY <1>1, ThreadCases
     DEF VisitFindsPortWrong, VisitFailsUpstream, VisitFindsStopped,
         StartBegins, StopBegins, IdleStops, DeregisterBegins, RegisterBegins,
         RecoverYields, RecoverProceeds, RecoverProbes, RecoverClears,
         RecoverUnmarks, AdoptOrphanFinds,
         AdoptOrphanDeclines, RecoverAdopts, RecoverFindsPortTaken,
         RecoverFindsPortFree, RecoverDeclines, BeginAutoStart,
         PreflightFindsFree, PreflightFindsTaken, RecheckPasses,
         Reconciles, KillPortScans, KillPortAsks, KillPortSignals,
         RecheckFindsConflict, Spawn, SpawnRefused, WindowCloses, StartFails,
         StoresPid, StoresRunning, Settles, EndAutoStart, Kill, Clear, Removes,
         routeVars, TypeOK
<1>. QED
  BY <1>1
     DEF Next, vars, mrVars, routeVars, Supervises, Notices, ExitWait,
         ExitWatch, ChildExits, Binds, Handles, ExitSwaps, ExitClears, Polls,
         Tick, Bury, Mark, Deadline, GivesUp, StrangerMoves, TypeOK

\* A child a goroutine holds is kept, dropped or, by Start, handed to it.
LEMMA HeldSteps ==
    ASSUME ~AdoptsOrphans, MrInv, [Next]_vars, NEW u \in Thread,
           pc[u] # "adopted"
    PROVE  /\ pc'[u] # "adopted"
           /\ \/ child'[u] = None \/ Spawn(u) \/ pc'[u] \in Listing
              \/ child'[u] = child[u] /\ pc[u] \notin Listing
           /\ pc'[u] = "setrunning" =>
                 StoresPid(u) \/ (pc[u] = "setrunning" /\ obj'[u] = obj[u])
<1>. TypeOK
  BY DEF MrInv
<1>. DEFINE Good == /\ pc'[u] # "adopted"
                    /\ \/ child'[u] = None \/ Spawn(u) \/ pc'[u] \in Listing
                       \/ child'[u] = child[u] /\ pc[u] \notin Listing
                    /\ pc'[u] = "setrunning" =>
                          \/ StoresPid(u)
                          \/ pc[u] = "setrunning" /\ obj'[u] = obj[u]
<1>1. ASSUME UNCHANGED threadVars PROVE Good
  BY <1>1 DEF threadVars
<1>2. ASSUME NEW t \in Thread, t # u, Begins(t) \/ Continues(t) PROVE Good
  <2>1. \A q \in Pid : Ours(q) => Ours(q)'
    BY ManagerSteps, ManagerGrows DEF MrInv, PmInv, TypeOK
  <2>. QED
    BY <1>2, <2>1, ThreadSteps DEF ThreadStep
<1>. USE DEF TypeOK, Step, Goto, Return, Listing
<1>3. ASSUME Begins(u) PROVE Good
  BY <1>3
     DEF Begins, VisitFindsPortWrong, VisitFailsUpstream, VisitFindsStopped,
         StartBegins, StopBegins, IdleStops, DeregisterBegins, RegisterBegins,
         Begin, threadVars
<1>4. ASSUME Recovers(u) PROVE Good
  BY <1>4
     DEF Recovers, RecoverYields, RecoverProceeds, RecoverProbes, RecoverClears,
         RecoverUnmarks,
         AdoptOrphanFinds, Adoptable, AdoptOrphanDeclines, RecoverAdopts,
         RecoverFindsPortTaken, RecoverFindsPortFree, RecoverDeclines,
         BeginAutoStart
<1>5. ASSUME Starts(u) PROVE Good
  <2>1. CASE Spawn(u)
    BY <2>1 DEF Spawn
  <2>2. CASE StoresPid(u)
    BY <2>2 DEF StoresPid
  <2>3. CASE ~Spawn(u) /\ ~StoresPid(u)
    BY <1>5, <2>3
       DEF Starts, PreflightFindsFree, PreflightFindsTaken, RecheckPasses,
           RecheckFindsConflict, SpawnRefused, WindowCloses, StartFails,
           StoresRunning, Settles, Reconciles, EndAutoStart
  <2>. QED
    BY <2>1, <2>2, <2>3
<1>6. ASSUME Stops(u) PROVE Good
  BY <1>6 DEF Stops, Kill, AfterKill, Clear, Removes
<1>8. ASSUME KillsPort(u) PROVE Good
  BY <1>8 DEF KillsPort, KillPortScans, KillPortAsks, KillPortSignals, AfterKill
<1>. HIDE DEF Good
<1>7. Good
  BY <1>1, <1>2, <1>3, <1>4, <1>5, <1>6, <1>8
     DEF Next, vars, mrVars, Continues, Supervises, Notices, ExitWait,
         ExitWatch, ChildExits, Binds, Handles, ExitSwaps, ExitClears, Polls,
         Tick, Bury, Mark, Deadline, GivesUp, StrangerMoves
<1>. QED
  BY <1>7 DEF Good

LEMMA SpawnedNext ==
    ASSUME ~AdoptsOrphans, MrInv, SpawnedInv, [Next]_vars
    PROVE  SpawnedInv'
<1>. /\ MrInv'
     /\ TypeOK /\ PmTypeOK
     /\ \A n \in Name : EntrySpawned(n)
     /\ \A r \in Route : RunSpawned(r)
     /\ \A t \in Thread : HeldSpawned(t) /\ LocalLink(t)
  BY MrNext DEF MrInv, MrLinks, TypeOK, SpawnedInv
<1>. USE NoneAssumption
<1>1. ASSUME NEW q \in Pid, Spawned(q)
      PROVE  owner'[q] = App /\ waiter'[q] # "none"
  BY <1>1, ManagerSteps, ManagerGrows DEF MrInv, PmInv, TypeOK, Spawned, Ours
<1>2. \A n \in Name : EntrySpawned(n)'
  BY EntrySteps
<1>3. ASSUME NEW r \in Route, pid'[r] # None,
             pid[r] # None => Spawned(pid[r])
      PROVE  Spawned(pid[r])'
  <2>1. CASE pid'[r] = pid[r]
    BY <1>1, <1>3, <2>1 DEF Spawned, Ours
  <2>2. ASSUME NEW t \in Thread, StoresPid(t), pid'[r] = child[t]
        PROVE  Spawned(pid[r])'
    BY <1>1, <1>3, <2>2 DEF StoresPid, Step, Listing, HeldSpawned, Spawned, Ours
  <2>. QED
    BY <1>3, <2>1, <2>2, RecordSteps
<1>4. ASSUME NEW r \in Route, NEW t \in Thread, StoresPid(t), r = obj[t],
             pid'[r] # None
      PROVE  Spawned(pid[r])'
  <2>1. pid'[r] = child[t]
    BY <1>4 DEF StoresPid, TypeOK
  <2>. QED
    BY <1>1, <1>4, <2>1 DEF StoresPid, Step, Listing, HeldSpawned, Spawned, Ours
<1>5. ASSUME NEW r \in Route PROVE RunSpawned(r)'
  <2>. SUFFICES ASSUME running'[r], pid'[r] # None PROVE Spawned(pid[r])'
    BY DEF RunSpawned
  <2>1. CASE running[r]
    BY <1>3, <2>1 DEF RunSpawned
  <2>2. ASSUME NEW t \in Thread, StoresRunning(t), r = obj[t]
        PROVE  Spawned(pid[r])'
    <3>1. pid[r] # None => Spawned(pid[r])
      BY <2>2 DEF StoresRunning, Step, HeldSpawned
    <3>. QED
      BY <1>3, <3>1
  <2>. QED
    BY <2>1, <2>2, RunningSteps
<1>6. ASSUME NEW u \in Thread PROVE HeldSpawned(u)'
  <2>0. /\ pc'[u] # "adopted"
        /\ \/ child'[u] = None \/ Spawn(u) \/ pc'[u] \in Listing
           \/ child'[u] = child[u] /\ pc[u] \notin Listing
        /\ pc'[u] = "setrunning" =>
              StoresPid(u) \/ (pc[u] = "setrunning" /\ obj'[u] = obj[u])
    BY HeldSteps DEF HeldSpawned
  <2>1. child'[u] # None => pc'[u] \in Listing \/ Spawned(child[u])'
    <3>1. CASE child'[u] = child[u] /\ pc[u] \notin Listing
      BY <1>1, <3>1 DEF HeldSpawned, Spawned, Ours
    <3>2. CASE Spawn(u)
      <4>1. PICK p \in Pid : /\ StartJoins(App, p) \/ StartSpawns(App, p)
                             /\ child' = [child EXCEPT ![u] = p]
        BY <3>2 DEF Spawn
      <4>2. child'[u] = p
        BY <4>1 DEF TypeOK
      <4>3. CASE StartJoins(App, p)
        <5>1. Spawned(p)
          BY <4>3, AppAssumption
             DEF StartJoins, Current, processAlive, EntrySpawned, PmTypeOK
        <5>. QED
          BY <1>1, <4>2, <5>1 DEF Spawned, Ours
      <4>4. CASE StartSpawns(App, p)
        BY <4>2, <4>4, AppAssumption DEF StartSpawns, PmTypeOK, Spawned, Ours
      <4>. QED
        BY <4>1, <4>3, <4>4
    <3>. QED
      BY <2>0, <3>1, <3>2
  <2>2. ASSUME pc'[u] = "setrunning", pid'[obj'[u]] # None
        PROVE  Spawned(pid[obj[u]])'
    <3>1. CASE StoresPid(u)
      <4>1. obj'[u] = obj[u] /\ obj[u] \in Route
        BY <3>1 DEF StoresPid, Step, LocalLink
      <4>. QED
        BY <1>4, <2>2, <3>1, <4>1 DEF Spawned, Ours
    <3>2. CASE pc[u] = "setrunning" /\ obj'[u] = obj[u]
      <4>1. /\ obj[u] \in Route
            /\ pid[obj[u]] # None => Spawned(pid[obj[u]])
        BY <3>2 DEF LocalLink, HeldSpawned
      <4>. QED
        BY <1>3, <2>2, <3>2, <4>1 DEF Spawned, Ours
    <3>. QED
      BY <2>0, <2>2, <3>1, <3>2
  <2>. QED
    BY <2>0, <2>1, <2>2 DEF HeldSpawned
<1>. QED
  BY <1>2, <1>5, <1>6 DEF SpawnedInv

LEMMA SpawnedInvariance ==
    ASSUME ~AdoptsOrphans
    PROVE  Spec => [](MrInv /\ SpawnedInv)
<1>1. MrInv /\ SpawnedInv /\ [Next]_vars => SpawnedInv'
  BY SpawnedNext
<1>. QED
  BY <1>1, SpawnedInit, MrInvariance, PTL DEF Spec

-----------------------------------------------------------------------------
\* One handler at a time

\* Requests, timers and commands of the name follow each other.  Its pollers, its
\* exit handlers and the manager's goroutines still run beside them.
Serial == \A t, u \in Thread : t = u

\* With procs[App] = entry, a live p has no rival there.
Sole(p, st, entry) == p \in Pid /\ st[p] = "alive" /\ entry # None => p = entry

\* A stop finds p, if p needs one.
Found(p, st, sig, entry, orphan) ==
    p \in Pid /\ st[p] = "alive" /\ p \notin sig => p \in {entry, orphan}

IsSole(p) == Sole(p, status, procs[App])
IsFound(p) == Found(p, status, signalled, procs[App], adopted[App])

\* What is known where the one goroutine is.
SerialLink(t) ==
    /\ pc[t] # "idle" => obj[t] = table
    /\ pc[t] \in {"adopt", "adopted"} => ~running[table]
    /\ pc[t] = "window" => procs[App] \in {None, child[t]}
    /\ pc[t] \in {"adopted", "setpid"} => IsSole(child[t])
    /\ pc[t] = "setpid" => IsFound(child[t])
    /\ pc[t] = "setrunning" => IsFound(pid[table])
    /\ pc[t] \notin {"window", "setpid"} /\ table # None => IsSole(pid[table])

RunningFound == table # None /\ running[table] => IsFound(pid[table])

\* The manager's two entries are not both live, and a spawned one is forgotten last.
EntriesLink ==
    /\ IsSole(adopted[App])
    /\ procs[App] # None => waiter[procs[App]] \in {"waiting", "reaped"}

SerialInv ==
    /\ EntriesLink
    /\ RunningFound
    /\ \A t \in Thread : SerialLink(t)

LEMMA SerialInit == Init => SerialInv
BY AppAssumption, NoneAssumption
   DEF Init, PmInit, SerialInv, EntriesLink, RunningFound, SerialLink, IsSole, Sole

\* A step that neither spawns nor adopts: who is found or has no rival stays so.
Calm ==
    /\ EntriesLink'
    /\ procs'[App] \in {procs[App], None}
    /\ \A p \in Pid \cup {None} :
          /\ IsSole(p) => Sole(p, status', procs'[App])
          /\ IsFound(p) => Found(p, status', signalled', procs'[App], adopted'[App])

\* The tables keep an entry, or forget one that is gone or signalled.
LEMMA Calmly ==
    ASSUME PmTypeOK, EntriesLink,
           \A p \in Pid : status'[p] = "alive" => status[p] = "alive",
           signalled \subseteq signalled',
           procs'[App] \in {procs[App], None}, adopted'[App] \in {adopted[App], None},
           procs'[App] # None => waiter'[procs[App]] \in {"waiting", "reaped"},
           procs'[App] = None /\ procs[App] # None =>
              status'[procs[App]] # "alive" \/ procs[App] \in signalled',
           adopted'[App] = None /\ adopted[App] # None =>
              status'[adopted[App]] # "alive" \/ adopted[App] \in signalled'
              \/ adopted[App] = procs'[App]
    PROVE  Calm
<1>. App \in Name /\ procs[App] \in Pid \cup {None} /\ adopted[App] \in Pid \cup {None}
  BY AppAssumption DEF PmTypeOK
<1>1. EntriesLink'
  BY NoneAssumption DEF EntriesLink, IsSole, Sole
<1>2. ASSUME NEW p \in Pid \cup {None}
      PROVE  /\ IsSole(p) => Sole(p, status', procs'[App])
             /\ IsFound(p) => Found(p, status', signalled', procs'[App], adopted'[App])
  BY NoneAssumption DEF IsSole, Sole, IsFound, Found
<1>. QED
  BY <1>1, <1>2 DEF Calm

LEMMA UnchangedIsCalm ==
    ASSUME PmTypeOK, EntriesLink, UNCHANGED pmVars
    PROVE  Calm
BY Calmly DEF pmVars, EntriesLink

\* Stop signals one of the two entries, and the other one is not alive.
LEMMA StopIsCalm ==
    ASSUME PmTypeOK, EntriesLink, Stop(App)
    PROVE  Calm
<1>. /\ App \in Name /\ procs[App] \in Pid \cup {None} /\ adopted[App] \in Pid \cup {None}
     /\ EntriesLink
  BY AppAssumption DEF PmTypeOK
<1>1. /\ procs'[App] = None /\ adopted'[App] = None /\ status' = status
      /\ signalled \subseteq signalled'
  BY DEF Stop, Signal, PmTypeOK
<1>2. procs[App] # None => status'[procs[App]] # "alive" \/ procs[App] \in signalled'
  BY NoneAssumption DEF Stop, Signal, processAlive
<1>3. adopted[App] # None =>
        status'[adopted[App]] # "alive" \/ adopted[App] \in signalled'
  <2>1. CASE procs[App] = None
    BY <2>1, NoneAssumption DEF Stop, Signal, processAlive
  <2>2. CASE procs[App] # None /\ adopted[App] # None
    BY <1>1, <1>2, <2>2, NoneAssumption DEF EntriesLink, IsSole, Sole
  <2>. QED
    BY <2>1, <2>2
<1>. QED
  BY <1>1, <1>2, <1>3, Calmly

LEMMA KillPortIsCalm ==
    ASSUME PmTypeOK, EntriesLink, NEW t \in Thread, KillsPort(t)
    PROVE  Calm
<1>1. /\ signalled \subseteq signalled'
      /\ UNCHANGED <<status, procs, adopted, waiter>>
  BY DEF KillsPort, KillPortScans, KillPortAsks, KillPortSignals, Signal, pmVars
<1>. QED
  BY <1>1, Calmly DEF EntriesLink

\* What the manager's goroutines and the processes do by themselves.
LEMMA GoroutinesAreCalm ==
    ASSUME PmTypeOK, PmLinks, EntriesLink, NEW p \in Pid,
           \/ StartCommits(p) \/ StartReportsExit(p)
           \/ WaitReaps(p) \/ WaitRecords(p) \/ WaitNotifies(p)
           \/ WatchSeesExit(App, p) \/ WatchNotifies(App, p) \/ WatchFails(App, p)
           \/ Exits(p) \/ InitReaps(p)
    PROVE  Calm
<1>. /\ App \in Name /\ procs[App] \in Pid \cup {None} /\ adopted[App] \in Pid \cup {None}
     /\ EntriesLink
     /\ procs[App] # None => waiter[procs[App]] \in {"waiting", "reaped"}
  BY AppAssumption DEF PmTypeOK, EntriesLink
<1>1. CASE StartCommits(p) \/ StartReportsExit(p) \/ WatchNotifies(App, p) \/ WatchFails(App, p)
  BY <1>1, Calmly DEF StartCommits, StartReportsExit, WatchNotifies, WatchFails
<1>2. CASE WaitReaps(p)
  <2>1. procs[App] # None => waiter'[procs[App]] \in {"waiting", "reaped"}
    BY <1>2 DEF WaitReaps, PmTypeOK
  <2>. QED
    BY <1>2, <2>1, Calmly DEF WaitReaps, PmTypeOK
<1>3. CASE WaitRecords(p)
  <2>1. waiter[p] = "reaped" /\ status[p] = "dead" /\ procs' = Forget(owner[p], p)
    BY <1>3 DEF WaitRecords, PmLinks, WaiterLink
  <2>2. procs[App] = p => owner[p] = App
    BY AppAssumption, NoneAssumption DEF PmLinks, EntryLink
  <2>3. IF procs[App] = p THEN procs'[App] = None ELSE procs'[App] = procs[App]
    BY <2>1, <2>2, AppAssumption DEF Forget, PmTypeOK
  <2>4. procs'[App] # None => waiter'[procs[App]] \in {"waiting", "reaped"}
    BY <1>3, <2>3 DEF WaitRecords, PmTypeOK
  <2>. QED
    BY <1>3, <2>1, <2>3, <2>4, Calmly DEF WaitRecords
<1>4. CASE WaitNotifies(p)
  <2>1. procs[App] # None => waiter'[procs[App]] \in {"waiting", "reaped"}
    BY <1>4 DEF WaitNotifies, PmTypeOK
  <2>. QED
    BY <1>4, <2>1, Calmly DEF WaitNotifies
<1>5. CASE WatchSeesExit(App, p)
  BY <1>5, Calmly DEF WatchSeesExit, PmTypeOK
<1>6. CASE Exits(p) \/ InitReaps(p)
  BY <1>6, Calmly DEF Exits, InitReaps, PmTypeOK
<1>. QED
  BY <1>1, <1>2, <1>3, <1>4, <1>5, <1>6

\* Nobody but the one goroutine makes a route run, gives it a pid or replaces it.
LEMMA OthersAreCalm ==
    ASSUME MrInv, EntriesLink,
           \/ \E p \in Pid : Supervises(p) \/ Notices(p) \/ ChildExits(p) \/ Binds(p)
           \/ \E c \in Callback : Handles(c)
           \/ \E w \in Poller : Polls(w)
           \/ StrangerMoves
           \/ UNCHANGED vars
    PROVE  /\ Calm /\ UNCHANGED <<table, pc, op, obj, child>>
           /\ \A r \in Route : /\ pid'[r] \in {pid[r], None}
                               /\ running'[r] => running[r]
<1>. TypeOK /\ PmTypeOK /\ PmLinks
  BY DEF MrInv, TypeOK
<1>1. ASSUME NEW p \in Pid, Supervises(p) \/ Notices(p) \/ ChildExits(p) \/ Binds(p)
      PROVE  Calm /\ UNCHANGED <<table, routeVars, pc, op, obj, child>>
  <2>1. CASE Supervises(p)
    BY <2>1, GoroutinesAreCalm DEF Supervises, mrVars, threadVars
  <2>2. CASE Notices(p)
    BY <2>2, GoroutinesAreCalm DEF Notices, ExitWait, ExitWatch, threadVars
  <2>3. CASE ChildExits(p)
    BY <2>3, GoroutinesAreCalm DEF ChildExits, threadVars
  <2>4. CASE Binds(p)
    BY <2>4, UnchangedIsCalm DEF Binds, threadVars
  <2>. QED
    BY <1>1, <2>1, <2>2, <2>3, <2>4
<1>2. ASSUME \/ \E c \in Callback : Handles(c)
             \/ \E w \in Poller : Polls(w)
             \/ StrangerMoves
             \/ UNCHANGED vars
      PROVE  /\ UNCHANGED <<pmVars, table, pc, op, obj, child>>
             /\ \A r \in Route : pid'[r] \in {pid[r], None} /\ (running'[r] => running[r])
  BY <1>2 DEF Handles, ExitSwaps, ExitClears, Polls, Tick, Bury, Mark, Deadline, GivesUp,
              StrangerMoves, vars, mrVars, routeVars, threadVars, TypeOK
<1>. QED
  BY <1>1, <1>2, UnchangedIsCalm DEF routeVars

\* The invariant over such a step, of the one goroutine or of another.
LEMMA CalmKeeps ==
    ASSUME MrInv, SerialInv, Calm, UNCHANGED <<table, pc, op, obj, child>>,
           \A r \in Route : pid'[r] \in {pid[r], None} /\ (running'[r] => running[r])
    PROVE  SerialInv'
<1>. /\ EntriesLink' /\ procs'[App] \in {procs[App], None}
     /\ table \in Route \cup {None} /\ pid \in [Route -> Pid \cup {None}]
     /\ \A t \in Thread : child[t] \in Pid \cup {None} /\ LocalLink(t)
  BY DEF Calm, MrInv, MrLinks, TypeOK
<1>1. ASSUME NEW p \in Pid \cup {None}
      PROVE  /\ IsSole(p) => Sole(p, status', procs'[App])
             /\ IsFound(p) => Found(p, status', signalled', procs'[App], adopted'[App])
  BY DEF Calm
<1>2. /\ Sole(None, status', procs'[App])
      /\ Found(None, status', signalled', procs'[App], adopted'[App])
  BY NoneAssumption DEF Sole, Found
<1>. HIDE DEF Sole, Found
<1>3. RunningFound'
  BY <1>1, <1>2, NoneAssumption DEF SerialInv, RunningFound, IsFound
<1>4. ASSUME NEW t \in Thread PROVE SerialLink(t)'
  <2>1. SerialLink(t) /\ (pc[t] # "idle" => obj[t] \in Route)
    BY DEF SerialInv, LocalLink
  <2>2. table # None /\ Sole(pid[table], status, procs[App])
           => Sole(pid'[table], status', procs'[App])
    BY <1>1, <1>2, NoneAssumption DEF IsSole
  <2>. QED
    BY <1>1, <1>2, <2>1, <2>2, NoneAssumption DEF SerialLink, IsSole, IsFound
<1>. QED
  BY <1>3, <1>4 DEF SerialInv

\* A step of the goroutine t, from what is known after it where t is then.
LEMMA SerialThread ==
    ASSUME Serial, NEW t \in Thread, EntriesLink', RunningFound', SerialLink(t)'
    PROVE  SerialInv'
<1>1. \A u \in Thread : u = t
  BY DEF Serial
<1>. HIDE DEF SerialLink, EntriesLink, RunningFound
<1>. QED
  BY <1>1 DEF SerialInv

\* What the steps below have in common.
SerialBefore(t) ==
    /\ TypeOK /\ PmTypeOK /\ PmLinks
    /\ LocalLink(t) /\ SerialLink(t)
    /\ EntriesLink /\ RunningFound
    /\ App \in Name

LEMMA SerialStarts ==
    ASSUME MrInv, SerialInv, NEW t \in Thread
    PROVE  SerialBefore(t)
BY AppAssumption DEF SerialBefore, MrInv, MrLinks, TypeOK, SerialInv

\* A step of t that leaves the manager alone, makes nothing run, stores no pid and
\* does not lead to a label of which more must be known.
LEMMA PlainKeeps ==
    ASSUME NEW t \in Thread, SerialBefore(t), Serial, Calm,
           table' \in {table, None}, pc'[t] \in Labels,
           pc'[t] # "idle" => table' = table /\ obj'[t] = table,
           \A r \in Route : pid'[r] \in {pid[r], None} /\ (running'[r] => running[r]),
           pc[t] \notin {"window", "setpid"},
           pc'[t] \notin {"adopt", "adopted", "window", "setpid", "setrunning"}
    PROVE  SerialInv'
<1>. /\ table \in Route \cup {None} /\ pid \in [Route -> Pid \cup {None}]
     /\ EntriesLink' /\ RunningFound /\ SerialLink(t)
  BY DEF SerialBefore, TypeOK, Calm
<1>1. ASSUME NEW p \in Pid \cup {None}
      PROVE  /\ IsSole(p) => Sole(p, status', procs'[App])
             /\ IsFound(p) => Found(p, status', signalled', procs'[App], adopted'[App])
  BY DEF Calm
<1>2. /\ Sole(None, status', procs'[App])
      /\ Found(None, status', signalled', procs'[App], adopted'[App])
  BY NoneAssumption DEF Sole, Found
<1>. HIDE DEF Sole, Found
<1>3. RunningFound'
  BY <1>1, <1>2, NoneAssumption DEF RunningFound, IsFound
<1>4. table' # None => Sole(pid'[table'], status', procs'[App])
  BY <1>1, <1>2, NoneAssumption DEF SerialLink, IsSole
<1>5. SerialLink(t)'
  BY <1>4 DEF SerialLink, IsSole
<1>. QED
  BY <1>3, <1>5, SerialThread

LEMMA SerialBegins ==
    ASSUME MrInv, SerialInv, Serial, NEW t \in Thread, Begins(t)
    PROVE  SerialInv'
<1>. SerialBefore(t)
  BY SerialStarts
<1>0. Calm
  BY UnchangedIsCalm
     DEF Begins, VisitFindsPortWrong, VisitFailsUpstream, VisitFindsStopped, StartBegins,
         StopBegins, IdleStops, DeregisterBegins, RegisterBegins, SerialBefore
<1>1. CASE VisitFindsPortWrong(t)
  BY <1>0, <1>1, CalmKeeps DEF VisitFindsPortWrong, threadVars
<1>2. CASE \/ VisitFailsUpstream(t) \/ VisitFindsStopped(t) \/ StartBegins(t)
           \/ StopBegins(t) \/ IdleStops(t) \/ DeregisterBegins(t)
  <2>1. /\ pc[t] = "idle" /\ table' = table /\ pc'[t] \in {"recover", "preflight", "kill"}
        /\ obj'[t] = table
        /\ \A r \in Route : pid'[r] = pid[r] /\ (running'[r] => running[r])
    BY <1>2 DEF VisitFailsUpstream, VisitFindsStopped, StartBegins, StopBegins, IdleStops,
                DeregisterBegins, Begin, Goto, routeVars, SerialBefore, TypeOK
  <2>. QED
    BY <1>0, <2>1, PlainKeeps DEF Labels
<1>3. ASSUME NEW r \in Route, RegisterBegins(t, r)
      PROVE  SerialInv'
  <2>1. /\ table' = r /\ pid'[r] = None /\ pc'[t] = "preflight" /\ obj'[t] = r
        /\ EntriesLink'
    BY <1>0, <1>3 DEF RegisterBegins, SerialBefore, TypeOK, Goto, Calm
  <2>2. RunningFound' /\ SerialLink(t)'
    BY <2>1, NoneAssumption DEF RunningFound, SerialLink, IsFound, Found, IsSole, Sole
  <2>. QED
    BY <2>1, <2>2, SerialThread
<1>. QED
  BY <1>1, <1>2, <1>3 DEF Begins

LEMMA SerialRecovers ==
    ASSUME MrInv, SerialInv, Serial, NEW t \in Thread, Recovers(t)
    PROVE  SerialInv'
<1>. SerialBefore(t)
  BY SerialStarts
<1>1. CASE RecoverAdopts(t)
  <2>1. /\ pc[t] = "adopted" /\ pc'[t] = "setpid" /\ UNCHANGED <<table, pid, running, obj, child>>
        /\ UNCHANGED <<procs, status, signalled, waiter>> /\ adopted'[App] = child[t]
        /\ obj[t] = table /\ table # None /\ ~running[table]
        /\ child[t] \in Pid \cup {None}
    <3>1. /\ pc[t] = "adopted" /\ pc'[t] = "setpid" /\ UNCHANGED <<table, pid, running, obj, child>>
          /\ Adopt(App, child[t])
      BY <1>1 DEF RecoverAdopts, Step, Goto, routeVars, SerialBefore, TypeOK
    <3>2. UNCHANGED <<procs, status, signalled, waiter>> /\ adopted'[App] = child[t]
      BY <3>1 DEF Adopt, SerialBefore, PmTypeOK
    <3>3. obj[t] = table /\ table \in Route /\ ~running[table] /\ child[t] \in Pid \cup {None}
      BY <3>1 DEF SerialBefore, SerialLink, LocalLink, TypeOK
    <3>. QED
      BY <3>1, <3>2, <3>3, RouteAssumption
  <2>2. EntriesLink' /\ RunningFound' /\ SerialLink(t)'
    BY <2>1 DEF EntriesLink, RunningFound, SerialLink, IsSole, IsFound, Found, SerialBefore
  <2>. QED
    BY <2>2, SerialThread
<1>2. CASE ~RecoverAdopts(t)
  <2>0. UNCHANGED pmVars
    BY <1>2 DEF Recovers, RecoverYields, RecoverProceeds, RecoverProbes, RecoverClears,
                RecoverUnmarks, AdoptOrphanFinds,
                AdoptOrphanDeclines, RecoverFindsPortTaken, RecoverFindsPortFree,
                RecoverDeclines, BeginAutoStart
  <2>1. Calm
    BY <2>0, UnchangedIsCalm DEF SerialBefore
  <2>2. CASE RecoverUnmarks(t)
    <3>1. /\ pc[t] = "unmark" /\ pc'[t] = "adopt" /\ UNCHANGED <<table, obj, child>>
          /\ obj[t] = table /\ table \in Route /\ ~running'[table]
          /\ pid'[table] = pid[table]
      BY <2>2 DEF RecoverUnmarks, Step, Goto, SerialBefore, TypeOK, SerialLink, LocalLink
    <3>2. RunningFound'
      BY <3>1 DEF RunningFound
    <3>3. Sole(pid'[table], status', procs'[App])
      BY <2>0, <3>1, NoneAssumption, RouteAssumption
         DEF pmVars, SerialBefore, SerialLink, IsSole, Sole
    <3>4. SerialLink(t)'
      BY <3>1, <3>3 DEF SerialLink, IsSole
    <3>. QED
      BY <2>1, <3>2, <3>4, SerialThread DEF Calm
  <2>3. CASE AdoptOrphanFinds(t)
    <3>1. /\ pc[t] = "adopt" /\ pc'[t] = "adopted" /\ UNCHANGED <<table, pid, running, obj>>
          /\ obj[t] = table /\ table \in Route /\ child'[t] = pid[table]
      BY <2>3 DEF AdoptOrphanFinds, Goto, routeVars, SerialBefore, TypeOK, SerialLink, LocalLink
    <3>2. RunningFound'
      BY <2>0, <3>1 DEF RunningFound, pmVars, SerialBefore, IsFound
    <3>3. SerialLink(t)'
      BY <2>0, <3>1, NoneAssumption, RouteAssumption
         DEF pmVars, SerialBefore, SerialLink, IsSole
    <3>. QED
      BY <2>1, <3>2, <3>3, SerialThread DEF Calm
  <2>4. CASE ~RecoverUnmarks(t) /\ ~AdoptOrphanFinds(t) /\ ~RecoverProceeds(t)
             /\ ~RecoverProbes(t) /\ ~RecoverClears(t)
    <3>1. /\ pc[t] \in {"recover", "adopt", "ready?", "decide"}
          /\ pc'[t] \in {"idle", "ready?", "decide", "preflight"}
          /\ UNCHANGED <<table, pid, running>>
          /\ pc'[t] # "idle" => obj'[t] = obj[t]
      BY <1>2, <2>4
         DEF Recovers, RecoverYields, AdoptOrphanDeclines, RecoverFindsPortTaken,
             RecoverFindsPortFree, RecoverDeclines, BeginAutoStart, Step, Goto, Return,
             routeVars, SerialBefore, TypeOK
    <3>. QED
      BY <2>1, <3>1, PlainKeeps DEF Labels, SerialBefore, SerialLink
  <2>5. CASE RecoverProceeds(t) \/ RecoverProbes(t) \/ RecoverClears(t)
    <3>1. /\ pc[t] \in {"recover", "normalise", "clearpid"}
          /\ pc'[t] \in {"normalise", "clearpid", "unmark"} /\ obj'[t] = obj[t]
          /\ UNCHANGED <<table, running>>
          /\ \A r \in Route : pid'[r] \in {pid[r], None}
      BY <2>5 DEF RecoverProceeds, RecoverProbes, RecoverClears, Step, Goto, routeVars,
                  SerialBefore, TypeOK
    <3>. QED
      BY <2>1, <3>1, PlainKeeps DEF Labels, SerialBefore, SerialLink
  <2>. QED
    BY <2>2, <2>3, <2>4, <2>5
<1>. QED
  BY <1>1, <1>2

LEMMA SerialSpawns ==
    ASSUME MrInv, SerialInv, Serial, NEW t \in Thread, Spawn(t)
    PROVE  SerialInv'
<1>. SerialBefore(t)
  BY SerialStarts
<1>. /\ procs[App] \in Pid \cup {None} /\ adopted[App] \in Pid \cup {None}
     /\ EntriesLink /\ RunningFound
     /\ pc[t] = "spawn" /\ obj[t] = table /\ table \in Route
     /\ UNCHANGED <<table, pid, running, obj>>
  BY DEF Spawn, routeVars, SerialBefore, PmTypeOK, SerialLink, LocalLink
<1>1. PICK p \in Pid : /\ \/ StartJoins(App, p) /\ Goto(t, "setpid")
                          \/ StartSpawns(App, p) /\ Goto(t, "window")
                       /\ child' = [child EXCEPT ![t] = p]
  BY DEF Spawn
<1>2. child'[t] = p
  BY <1>1 DEF SerialBefore, TypeOK
<1>3. CASE StartJoins(App, p) /\ Goto(t, "setpid")
  <2>1. pc'[t] = "setpid" /\ UNCHANGED pmVars
    BY <1>3 DEF Goto, StartJoins, SerialBefore, TypeOK
  <2>2. IsSole(p) /\ IsFound(p)
    BY <1>3, NoneAssumption
       DEF StartJoins, Current, processAlive, EntriesLink, IsSole, Sole, IsFound, Found
  <2>3. EntriesLink' /\ RunningFound'
    BY <2>1 DEF EntriesLink, RunningFound, pmVars, IsSole, IsFound
  <2>4. SerialLink(t)'
    BY <1>2, <2>1, <2>2 DEF SerialLink, pmVars, IsSole, IsFound
  <2>. QED
    BY <2>3, <2>4, SerialThread
<1>4. CASE StartSpawns(App, p) /\ Goto(t, "window")
  <2>1. /\ pc'[t] = "window" /\ Current(App) = None
        /\ procs'[App] = p /\ adopted'[App] = None /\ waiter'[p] = "waiting"
        /\ status' = [status EXCEPT ![p] = "alive"] /\ signalled' = signalled
    BY <1>4 DEF Goto, StartSpawns, SerialBefore, TypeOK, PmTypeOK
  <2>2. EntriesLink'
    BY <2>1, NoneAssumption DEF EntriesLink, IsSole, Sole
  <2>3. status[procs[App]] # "alive" \/ procs[App] = None
    BY <2>1, NoneAssumption DEF Current, processAlive
  <2>4. status[adopted[App]] # "alive" \/ adopted[App] = None
    BY <2>1, NoneAssumption DEF Current, processAlive
  <2>5. RunningFound'
    BY <2>1, <2>3, <2>4, NoneAssumption
       DEF RunningFound, IsFound, Found, SerialBefore, TypeOK, PmTypeOK
  <2>6. SerialLink(t)'
    BY <1>2, <2>1, NoneAssumption DEF SerialLink, SerialBefore, SerialLink
  <2>. QED
    BY <2>2, <2>5, <2>6, SerialThread
<1>. QED
  BY <1>1, <1>3, <1>4

LEMMA SerialCommits ==
    ASSUME MrInv, SerialInv, Serial, NEW t \in Thread, WindowCloses(t)
    PROVE  SerialInv'
<1>. SerialBefore(t)
  BY SerialStarts
<1>. DEFINE c == child[t]
<1>1. /\ pc[t] = "window" /\ obj[t] = table /\ table \in Route
      /\ UNCHANGED <<table, pid, running, obj, child>>
      /\ c \in Pid /\ owner[c] = App /\ procs[App] \in {None, c}
      /\ StateLink(c) /\ WaiterLink(c)
  BY NoneAssumption
     DEF WindowCloses, Step, routeVars, SerialBefore, SerialLink, LocalLink, Ours, PmLinks
<1>2. /\ Calm /\ UNCHANGED <<procs, adopted, status, signalled>>
      /\ \/ pc'[t] = "setpid" /\ StartCommits(c)
         \/ pc'[t] = "failed" /\ StartReportsExit(c)
  BY <1>1, GoroutinesAreCalm
     DEF WindowCloses, Step, Goto, StartCommits, StartReportsExit, SerialBefore, TypeOK
<1>3. RunningFound'
  BY <1>1, <1>2 DEF SerialBefore, RunningFound, IsFound
<1>4. CASE pc'[t] = "setpid" /\ StartCommits(c)
  <2>1. waiter[c] \in {"waiting", "reaped", "notify", "done"}
    BY <1>1, <1>4 DEF StartCommits, StateLink, SerialBefore, PmTypeOK
  <2>2. Found(c, status, signalled, procs[App], adopted[App])
    BY <1>1, <2>1 DEF Found, MrInv, EntryKept, WaiterLink
  <2>3. Sole(c, status, procs[App])
    BY <1>1 DEF Sole
  <2>4. SerialLink(t)'
    BY <1>1, <1>2, <1>4, <2>2, <2>3 DEF SerialLink, IsSole, IsFound
  <2>. QED
    BY <1>2, <1>3, <2>4, SerialThread DEF Calm
<1>5. CASE pc'[t] = "failed" /\ StartReportsExit(c)
  <2>1. waiter[c] = "done"
    BY <1>1, <1>5 DEF StartReportsExit, StateLink, WaiterLink, SerialBefore, PmTypeOK
  <2>2. procs[App] = None
    BY <1>1, <2>1 DEF SerialBefore, EntriesLink
  <2>3. SerialLink(t)'
    BY <1>1, <1>2, <1>5, <2>2 DEF SerialLink, IsSole, Sole
  <2>. QED
    BY <1>2, <1>3, <2>3, SerialThread DEF Calm
<1>. QED
  BY <1>2, <1>4, <1>5

LEMMA SerialStores ==
    ASSUME MrInv, SerialInv, Serial, NEW t \in Thread, StoresPid(t) \/ StoresRunning(t)
    PROVE  SerialInv'
<1>. SerialBefore(t)
  BY SerialStarts
<1>0. UNCHANGED pmVars /\ Calm
  BY UnchangedIsCalm DEF StoresPid, StoresRunning, SerialBefore
<1>1. CASE StoresPid(t)
  <2>1. /\ pc[t] = "setpid" /\ pc'[t] = "setrunning" /\ UNCHANGED <<table, running, obj, child>>
        /\ obj[t] = table /\ table \in Route /\ pid'[table] = child[t]
    BY <1>1 DEF StoresPid, Step, Goto, SerialBefore, TypeOK, SerialLink, LocalLink
  <2>2. RunningFound' /\ SerialLink(t)'
    BY <1>0, <2>1, NoneAssumption
       DEF RunningFound, SerialLink, pmVars, SerialBefore, IsSole, IsFound
  <2>. QED
    BY <1>0, <2>2, SerialThread DEF Calm
<1>2. CASE StoresRunning(t)
  <2>1. /\ pc[t] = "setrunning" /\ pc'[t] = "settle" /\ UNCHANGED <<table, pid, obj, child>>
        /\ obj[t] = table /\ table \in Route
    BY <1>2 DEF StoresRunning, Step, Goto, SerialBefore, TypeOK, SerialLink, LocalLink
  <2>2. RunningFound' /\ SerialLink(t)'
    BY <1>0, <2>1, NoneAssumption
       DEF RunningFound, SerialLink, pmVars, SerialBefore, IsSole, IsFound
  <2>. QED
    BY <1>0, <2>2, SerialThread DEF Calm
<1>. QED
  BY <1>1, <1>2

LEMMA SerialRest ==
    ASSUME MrInv, SerialInv, Serial, NEW t \in Thread,
           Starts(t) \/ KillsPort(t) \/ Stops(t),
           ~Spawn(t), ~WindowCloses(t), ~StoresPid(t), ~StoresRunning(t)
    PROVE  SerialInv'
<1>. SerialBefore(t)
  BY SerialStarts
<1>1. Calm
  <2>1. UNCHANGED pmVars \/ KillsPort(t) \/ Stop(App)
    BY DEF Starts, Stops, PreflightFindsFree, PreflightFindsTaken, RecheckPasses,
           Reconciles,
           RecheckFindsConflict, SpawnRefused, StartRefused, StartFails, Settles,
           EndAutoStart, Kill, Clear, Removes
  <2>. QED
    BY <2>1, UnchangedIsCalm, KillPortIsCalm, StopIsCalm DEF SerialBefore
<1>2. /\ table' \in {table, None}
      /\ pc'[t] # "idle" => table' = table
      /\ \A r \in Route : pid'[r] \in {pid[r], None} /\ (running'[r] => running[r])
  BY DEF Starts, Stops, PreflightFindsFree, PreflightFindsTaken, RecheckPasses,
           Reconciles,
         RecheckFindsConflict, SpawnRefused, StartFails, Settles, EndAutoStart, Kill, Clear,
         Removes, KillsPort, KillPortScans, KillPortAsks, KillPortSignals, Return, Goto,
         routeVars, SerialBefore, TypeOK
<1>3. /\ pc[t] \in {"preflight", "recheck", "spawn", "failed", "settle", "reconcile",
                    "release", "kill", "scan", "owns?", "signal", "clear", "remove"}
      /\ pc'[t] \in {"idle", "recheck", "spawn", "failed", "reconcile", "release", "scan",
                     "owns?", "signal", "clear", "remove"}
      /\ pc'[t] # "idle" => obj'[t] = obj[t]
  BY DEF Starts, Stops, PreflightFindsFree, PreflightFindsTaken, RecheckPasses,
           Reconciles,
         RecheckFindsConflict, SpawnRefused, StartFails, Settles, EndAutoStart, Kill, Clear,
         Removes, KillsPort, KillPortScans, KillPortAsks, KillPortSignals, AfterKill,
         Return, Step, Goto, SerialBefore, TypeOK
<1>. QED
  BY <1>1, <1>2, <1>3, PlainKeeps DEF Labels, SerialBefore, SerialLink

LEMMA SerialNext ==
    ASSUME Serial, MrInv, SerialInv, [Next]_vars
    PROVE  SerialInv'
<1>1. ASSUME NEW t \in Thread, Begins(t) \/ Continues(t) PROVE SerialInv'
  BY <1>1, SerialBegins, SerialRecovers, SerialSpawns, SerialCommits, SerialStores, SerialRest
     DEF Continues
<1>2. CASE \/ \E p \in Pid : Supervises(p) \/ Notices(p) \/ ChildExits(p) \/ Binds(p)
           \/ \E c \in Callback : Handles(c)
           \/ \E w \in Poller : Polls(w)
           \/ StrangerMoves
           \/ UNCHANGED vars
  BY <1>2, OthersAreCalm, CalmKeeps DEF SerialInv
<1>. QED
  BY <1>1, <1>2 DEF Next

LEMMA SerialInvariance ==
    ASSUME Serial
    PROVE  Spec => [](MrInv /\ SerialInv)
<1>1. MrInv /\ SerialInv /\ [Next]_vars => SerialInv'
  BY SerialNext
<1>. QED
  BY <1>1, SerialInit, MrInvariance, PTL DEF Spec

-----------------------------------------------------------------------------
\* What a stop finds

\* The live child a running route names is one a stop still finds, however pollers,
\* exit handlers and the manager's goroutines interleave: where nothing is adopted,
\* with any number of handlers too.  A handler that starts while another adopts makes
\* it false (handleStop, procs.Stop).
THEOREM StopReaches ==
    ASSUME ~AdoptsOrphans \/ Serial
    PROVE  Spec => []ReachableByStop
<1>1. CASE ~AdoptsOrphans
  <2>1. MrInv /\ SpawnedInv => ReachableByStop
    <3>. SUFFICES ASSUME MrInv, SpawnedInv, table # None,
                         running[table], pid[table] \in Pid,
                         status[pid[table]] = "alive",
                         pid[table] \notin signalled
                  PROVE  Tracked(pid[table])
      BY DEF ReachableByStop
    <3>1. table \in Route /\ Spawned(pid[table])
      BY NoneAssumption DEF MrInv, TypeOK, SpawnedInv, RunSpawned
    <3>2. waiter[pid[table]] = "waiting"
      BY <3>1 DEF Spawned, MrInv, TypeOK, PmTypeOK, PmLinks, WaiterLink
    <3>. QED
      BY <3>1, <3>2, AppAssumption
         DEF MrInv, EntryKept, Tracked, Spawned, Ours
  <2>. QED
    BY <1>1, <2>1, SpawnedInvariance, PTL
<1>2. CASE Serial
  <2>1. MrInv /\ SerialInv => ReachableByStop
    BY AppAssumption
       DEF SerialInv, RunningFound, IsFound, Found, ReachableByStop, Tracked
  <2>. QED
    BY <1>2, <2>1, SerialInvariance, PTL
<1>. QED
  BY <1>1, <1>2
=============================================================================
