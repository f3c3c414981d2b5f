--------------------------- MODULE ProcessManager ---------------------------
(***************************************************************************)
(* The table of managed children a vibe daemon keeps                       *)
(* (internal/daemon/process.go): Start, Stop and Adopt, the goroutine that *)
(* owns each spawned child through cmd.Wait, and the watcher that owns     *)
(* each adopted one.  Start, Stop, Adopt and the bookkeeping of the two    *)
(* goroutines are each one critical section of pm.mu, hence one action;    *)
(* everything between two critical sections interleaves freely.            *)
(*                                                                         *)
(* A pid names one process for ever: the operating system's reuse of       *)
(* numbers is outside this module.  A process that has exited answers      *)
(* signal 0 until it is reaped, so processAlive is true of a zombie.       *)
(***************************************************************************)
EXTENDS FiniteSets

CONSTANTS
    Name,           \* route names
    Pid,            \* process-group leaders that may ever be spawned
    None,           \* absent map entry
    Unwatchable     \* pids whose watch may fail while the process lives

ASSUME NoneAssumption == None \notin Pid /\ None \notin Name
ASSUME WatchAssumption == Unwatchable \subseteq Pid

VARIABLES
    status,     \* what the operating system knows of each pid
    signalled,  \* pids whose process group was sent SIGTERM by the daemon
    owner,      \* the route name each child was spawned for
    procs,      \* pm.procs: name -> spawned child
    adopted,    \* pm.adopted: name -> re-attached child
    state,      \* the startup state Start and its goroutine share under pm.mu
    waiter,     \* the goroutine around cmd.Wait
    reply,      \* what the spawning Start call has returned
    watch,      \* watchPIDExit goroutines still blocked, as <<name, pid>>
    pending,    \* watchers about to call onExit, as <<name, pid>>
    told        \* pids of which cmd.Wait's goroutine called onExit

pmVars == <<status, signalled, owner, procs, adopted, state, waiter, reply,
            watch, pending, told>>

PmTypeOK ==
    /\ status \in [Pid -> {"unborn", "alive", "zombie", "dead"}]
    /\ signalled \subseteq Pid
    /\ owner \in [Pid -> Name \cup {None}]
    /\ procs \in [Name -> Pid \cup {None}]
    /\ adopted \in [Name -> Pid \cup {None}]
    /\ state \in [Pid -> {"none", "stStarting", "stRunning", "stExitedEarly"}]
    /\ waiter \in [Pid -> {"none", "waiting", "reaped", "notify", "done"}]
    /\ reply \in [Pid -> {"none", "ok", "error"}]
    /\ watch \subseteq Name \X Pid
    /\ pending \subseteq Name \X Pid
    /\ told \subseteq Pid

\* A daemon begins with children of an earlier one still running: they live
\* in their own process groups and outlive it.
PmInit ==
    /\ owner \in [Pid -> Name \cup {None}]
    /\ status = [p \in Pid |-> IF owner[p] = None THEN "unborn" ELSE "alive"]
    /\ signalled = {}
    /\ procs = [n \in Name |-> None]
    /\ adopted = [n \in Name |-> None]
    /\ state = [p \in Pid |-> "none"]
    /\ waiter = [p \in Pid |-> "none"]
    /\ reply = [p \in Pid |-> "none"]
    /\ watch = {}
    /\ pending = {}
    /\ told = {}

processAlive(p) == p \in Pid /\ status[p] \in {"alive", "zombie"}

\* A child this daemon tracks under some name, as OwnsPID and Stop see it.
Tracked(p) == \E n \in Name : procs[n] = p \/ adopted[n] = p

-----------------------------------------------------------------------------
\* Start

\* Defect: Start joins adopted children only.
Current_adoptedOnly(n) == IF processAlive(adopted[n]) THEN adopted[n] ELSE None

\* The pid Start hands back without spawning, None when it must spawn.
Current(n) ==
    IF processAlive(procs[n]) THEN procs[n]
    ELSE IF processAlive(adopted[n]) THEN adopted[n] ELSE None

StartJoins(n, p) ==
    /\ p = Current(n)
    /\ p # None
    /\ UNCHANGED pmVars

\* No command, an unopenable log, or a failing exec: Start returns an error.
StartRefused(n) ==
    /\ Current(n) = None
    /\ UNCHANGED pmVars

StartSpawns(n, p) ==
    /\ Current(n) = None
    /\ status[p] = "unborn"
    /\ status' = [status EXCEPT ![p] = "alive"]
    /\ owner' = [owner EXCEPT ![p] = n]
    /\ procs' = [procs EXCEPT ![n] = p]
    /\ adopted' = [adopted EXCEPT ![n] = None]
    /\ state' = [state EXCEPT ![p] = "stStarting"]
    /\ waiter' = [waiter EXCEPT ![p] = "waiting"]
    /\ UNCHANGED <<signalled, reply, watch, pending, told>>

\* The startup window elapses and Start commits the child as running ...
StartCommits(p) ==
    /\ reply[p] = "none"
    /\ state[p] = "stStarting"
    /\ state' = [state EXCEPT ![p] = "stRunning"]
    /\ reply' = [reply EXCEPT ![p] = "ok"]
    /\ UNCHANGED <<status, signalled, owner, procs, adopted, waiter, watch,
                   pending, told>>

\* ... or Start learns, from the channel or from the re-check under the lock,
\* that the child exited inside the window.
StartReportsExit(p) ==
    /\ reply[p] = "none"
    /\ state[p] = "stExitedEarly"
    /\ reply' = [reply EXCEPT ![p] = "error"]
    /\ UNCHANGED <<status, signalled, owner, procs, adopted, state, waiter,
                   watch, pending, told>>

-----------------------------------------------------------------------------
\* The goroutine that owns a spawned child

WaitReaps(p) ==
    /\ waiter[p] = "waiting"
    /\ status[p] = "zombie"
    /\ status' = [status EXCEPT ![p] = "dead"]
    /\ waiter' = [waiter EXCEPT ![p] = "reaped"]
    /\ UNCHANGED <<signalled, owner, procs, adopted, state, reply, watch,
                   pending, told>>

\* Defect: the goroutine deletes the name's entry whoever it belongs to.
Forget_anyChild(n, p) == [procs EXCEPT ![n] = None]

Forget(n, p) ==
    IF procs[n] = p THEN [procs EXCEPT ![n] = None] ELSE procs

\* Defect: the exit of a running child is recorded but not passed on.
WaitRecords_silent(p) ==
    /\ waiter[p] = "reaped"
    /\ procs' = Forget(owner[p], p)
    /\ waiter' = [waiter EXCEPT ![p] = "done"]
    /\ state' = [state EXCEPT ![p] = IF @ = "stRunning" THEN @
                                     ELSE "stExitedEarly"]
    /\ UNCHANGED <<status, signalled, owner, adopted, reply, watch, pending,
                   told>>

WaitRecords(p) ==
    /\ waiter[p] = "reaped"
    /\ procs' = Forget(owner[p], p)
    /\ \/ /\ state[p] = "stRunning"
          /\ waiter' = [waiter EXCEPT ![p] = "notify"]
          /\ UNCHANGED state
       \/ /\ state[p] # "stRunning"
          /\ waiter' = [waiter EXCEPT ![p] = "done"]
          /\ state' = [state EXCEPT ![p] = "stExitedEarly"]
    /\ UNCHANGED <<status, signalled, owner, adopted, reply, watch, pending,
                   told>>

\* fireExit: the daemon's exit handler is called for p.
WaitNotifies(p) ==
    /\ waiter[p] = "notify"
    /\ waiter' = [waiter EXCEPT ![p] = "done"]
    /\ told' = told \cup {p}
    /\ UNCHANGED <<status, signalled, owner, procs, adopted, state, reply,
                   watch, pending>>

-----------------------------------------------------------------------------
\* Adopt and the watcher of an adopted child

Adopt(n, p) ==
    /\ IF adopted[n] = p
         THEN UNCHANGED <<adopted, watch>>
         ELSE /\ adopted' = [adopted EXCEPT ![n] = p]
              /\ watch' = watch \cup {<<n, p>>}
    /\ UNCHANGED <<status, signalled, owner, procs, state, waiter, reply,
                   pending, told>>

\* watchPIDExit returns from a process that is gone (or was gone already).
WatchSeesExit(n, p) ==
    /\ <<n, p>> \in watch
    /\ status[p] \in {"zombie", "dead"}
    /\ watch' = watch \ {<<n, p>>}
    /\ IF adopted[n] = p
         THEN /\ adopted' = [adopted EXCEPT ![n] = None]
              /\ pending' = pending \cup {<<n, p>>}
         ELSE UNCHANGED <<adopted, pending>>
    /\ UNCHANGED <<status, signalled, owner, procs, state, waiter, reply, told>>

WatchNotifies(n, p) ==
    /\ <<n, p>> \in pending
    /\ pending' = pending \ {<<n, p>>}
    /\ UNCHANGED <<status, signalled, owner, procs, adopted, state, waiter,
                   reply, watch, told>>

\* No descriptor left for the watch: it ends without ever firing.
WatchFails(n, p) ==
    /\ p \in Unwatchable
    /\ <<n, p>> \in watch
    /\ processAlive(p)
    /\ watch' = watch \ {<<n, p>>}
    /\ UNCHANGED <<status, signalled, owner, procs, adopted, state, waiter,
                   reply, pending, told>>

-----------------------------------------------------------------------------
\* Stop

\* SIGTERM reaches the group of a process that has not been reaped.
Signal(p) == signalled' = IF processAlive(p) THEN signalled \cup {p}
                                             ELSE signalled

StopFinds(n) == procs[n] # None \/ adopted[n] # None

\* Defect: Stop signals before it knows there is a child.
Stop_unchecked(n) ==
    /\ signalled' = signalled \cup {IF procs[n] # None THEN procs[n]
                                                       ELSE adopted[n]}
    /\ procs' = [procs EXCEPT ![n] = None]
    /\ adopted' = [adopted EXCEPT ![n] = None]
    /\ UNCHANGED <<status, owner, state, waiter, reply, watch, pending, told>>

Stop(n) ==
    /\ StopFinds(n)
    /\ Signal(IF procs[n] # None THEN procs[n] ELSE adopted[n])
    /\ procs' = [procs EXCEPT ![n] = None]
    /\ adopted' = [adopted EXCEPT ![n] = None]
    /\ UNCHANGED <<status, owner, state, waiter, reply, watch, pending, told>>

-----------------------------------------------------------------------------
\* The processes themselves

\* A child exits, of its own accord or because it was signalled; one that
\* ignores SIGTERM never does.
Exits(p) ==
    /\ status[p] = "alive"
    /\ status' = [status EXCEPT ![p] = "zombie"]
    /\ UNCHANGED <<signalled, owner, procs, adopted, state, waiter, reply,
                   watch, pending, told>>

\* init reaps the children of a daemon that is gone.
InitReaps(p) ==
    /\ status[p] = "zombie"
    /\ waiter[p] = "none"
    /\ status' = [status EXCEPT ![p] = "dead"]
    /\ UNCHANGED <<signalled, owner, procs, adopted, state, waiter, reply,
                   watch, pending, told>>

-----------------------------------------------------------------------------
\* Callers may issue any operation at any time: the daemon serves every
\* request on a goroutine of its own.  Adopt is only ever given the pid its
\* route carries, i.e. one of the name's own children.

Calls ==
    \E n \in Name :
        \/ Stop(n)
        \/ \E p \in Pid : StartSpawns(n, p)
        \/ \E p \in Pid : owner[p] = n /\ Adopt(n, p)

Goroutine(p) ==
    \/ StartCommits(p)
    \/ StartReportsExit(p)
    \/ WaitReaps(p)
    \/ WaitRecords(p)
    \/ WaitNotifies(p)

Watcher(n, p) == WatchSeesExit(n, p) \/ WatchNotifies(n, p)

PmNext ==
    \/ Calls
    \/ \E p \in Pid : Goroutine(p) \/ Exits(p) \/ InitReaps(p)
    \/ \E n \in Name, p \in Pid : Watcher(n, p) \/ WatchFails(n, p)

PmSpec == PmInit /\ [][PmNext]_pmVars

\* The scheduler runs every goroutine that can run; children need not exit and
\* callers need not call.
PmFairSpec ==
    /\ PmSpec
    /\ \A p \in Pid : WF_pmVars(Goroutine(p)) /\ WF_pmVars(InitReaps(p))
    /\ \A n \in Name, p \in Pid : WF_pmVars(Watcher(n, p))

-----------------------------------------------------------------------------
\* Properties

\* A live child of this daemon that was never signalled is the one that Start,
\* Stop and OwnsPID find under its name: no interleaving of Start, Stop, Adopt
\* and the goroutines of earlier children strands a running child
\* (process.go, Start and Stop).
NoStrandedChild ==
    \A p \in Pid :
        (waiter[p] = "waiting" /\ status[p] = "alive" /\ p \notin signalled)
            => procs[owner[p]] = p

\* A child's death reaches the daemon by exactly one road: the StartError of
\* the call that spawned it, or the exit handler; never both and never
\* neither, even when the exit races the end of the startup window.
OneVerdict ==
    \A p \in Pid :
        /\ reply[p] = "error" => p \notin told
        /\ (reply[p] = "ok" /\ waiter[p] = "done") => p \in told

\* The promise of ChildSupervision, kept by the maps and goroutines above.
Serving(n) ==
    {p \in Pid : /\ owner[p] = n
                 /\ waiter[p] = "waiting"
                 /\ status[p] = "alive"
                 /\ p \notin signalled}

Verdict(p) ==
    IF p \in told THEN "exited"
    ELSE IF reply[p] = "ok" THEN "running"
    ELSE IF reply[p] = "error" THEN "failed" ELSE "none"

Supervision == INSTANCE ChildSupervision WITH
    launched <- {p \in Pid : waiter[p] # "none"},
    serving <- [n \in Name |-> Serving(n)],
    verdict <- [p \in Pid |-> Verdict(p)]

\* Every behaviour of the process manager is one of ChildSupervision.
Supervised == Supervision!Spec

\* Every spawned child that exits is reported: its Start fails, or the exit handler
\* hears of it.  An adopted one that could be watched and is dead leaves the table.
DeathIsReported ==
    /\ \A p \in Pid :
         (status[p] = "zombie" /\ waiter[p] # "none")
             ~> (reply[p] = "error" \/ p \in told)
    /\ \A n \in Name, p \in Pid \ Unwatchable :
         (adopted[n] = p /\ status[p] = "dead") ~> adopted[n] # p

=============================================================================
