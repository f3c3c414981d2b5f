----------------------------- MODULE RouteTimers -----------------------------
(***************************************************************************)
(* One name of the route table (internal/daemon/routes.go) and what ends a *)
(* registration by itself (managed_timers.go, managed_exit.go): the TTL    *)
(* timer, the watcher of a tracked process and the idle timer.             *)
(*                                                                         *)
(* Add and Remove change the table under its lock and call the hooks that  *)
(* cancel and arm timers after releasing it, so the hooks of two calls run *)
(* in any order.  A timer that has fired runs on a goroutine of its own    *)
(* and looks the name up before it removes it: two more critical sections. *)
(*                                                                         *)
(* Each registration is a fresh route object, and stands for its timer and *)
(* its process too; re-armings of an idle timer continue one cycle.        *)
(***************************************************************************)
CONSTANTS
    Reg,        \* registrations that may ever be made under the name
    Ttl,        \* those with a deadline
    Tracked,    \* those bound to an external process
    Idle,       \* managed ones with an idle timeout
    Client,     \* goroutines that add and remove
    None

ASSUME KindAssumption ==
    /\ Ttl \subseteq Reg /\ Tracked \subseteq Reg /\ Idle \subseteq Reg
    /\ Ttl \cap Tracked = {} /\ Ttl \cap Idle = {} /\ Tracked \cap Idle = {}
ASSUME NoneAssumption == None \notin Reg
ASSUME ClientAssumption == Client \cap ({"ttl", "watch", "idle"} \X Reg) = {}

VARIABLES
    table,      \* the registration in the table
    fresh,      \* registrations not made yet
    over,       \* deadlines that passed, processes that exited
    ttlTimer, ttlArmed,     \* s.ttlTimers[name]; timers the runtime will fire
    idleTimer, idleArmed,   \* s.idleTimers[name]; the same
    pc, reg,    \* of each actor: where it is, the registration it is about
    raced       \* the one in the table was made while another's hooks were due

tables == <<table, fresh>>
ttls == <<ttlTimer, ttlArmed>>
idles == <<idleTimer, idleArmed>>
vars == <<tables, over, ttls, idles, pc, reg, raced>>

Actor == Client \cup ({"ttl", "watch", "idle"} \X Reg)

Labels == {"off", "replace", "cancel", "arm", "armIdle", "watching", "look",
           "remove", "rearm"}

TypeOK ==
    /\ table \in Reg \cup {None}
    /\ fresh \subseteq Reg
    /\ over \subseteq Ttl \cup Tracked
    /\ ttlTimer \in Ttl \cup {None} /\ ttlArmed \subseteq Ttl
    /\ idleTimer \in Idle \cup {None} /\ idleArmed \subseteq Idle
    /\ pc \in [Actor -> Labels]
    /\ reg \in [Actor -> Reg \cup {None}]
    /\ raced \in BOOLEAN

Init ==
    /\ table = None /\ fresh = Reg /\ over = {}
    /\ ttlTimer = None /\ ttlArmed = {}
    /\ idleTimer = None /\ idleArmed = {}
    /\ pc = [a \in Actor |-> "off"]
    /\ reg = [a \in Actor |-> None]
    /\ raced = FALSE

\* A call that is over forgets its registration.
Goto(a, from, to) ==
    /\ pc[a] = from
    /\ pc' = [pc EXCEPT ![a] = to]
    /\ reg' = IF to = "off" THEN [reg EXCEPT ![a] = None] ELSE reg

\* onRouteAdded: other kinds of routes have nothing to arm.
ToArm(r) == IF r \in Ttl \cup Tracked \cup Idle THEN "arm" ELSE "off"

\* An actor whose call has changed the table and still owes it the hooks.
Owes(a) == pc[a] \in {"replace", "cancel", "arm", "armIdle"}

-----------------------------------------------------------------------------
\* RouteTable.Add and RouteTable.Remove, under the table's lock

AddInserts(c, r) ==
    /\ pc[c] = "off"
    /\ r \in fresh
    /\ pc' = [pc EXCEPT ![c] = IF table = None THEN ToArm(r) ELSE "replace"]
    /\ reg' = [reg EXCEPT ![c] = IF table = None /\ ToArm(r) = "off" THEN None ELSE r]
    /\ table' = r
    /\ fresh' = fresh \ {r}
    /\ raced' = (\E a \in Actor : Owes(a))
    /\ UNCHANGED <<over, ttls, idles>>

\* Remove goes by name; a name that is not there calls no hook.
Deletes(a, from) ==
    /\ Goto(a, from, IF table = None THEN "off" ELSE "cancel")
    /\ table' = None
    /\ raced' = FALSE
    /\ UNCHANGED <<fresh, over, ttls, idles>>

RemoveDeletes(c) == table # None /\ Deletes(c, "off")
ActorDeletes(a) == Deletes(a, "remove")

-----------------------------------------------------------------------------
\* The hooks

\* Defect: the entry of a TTL timer is deleted, the timer not stopped.
Cancels_forgets(a) ==
    /\ Goto(a, "replace", ToArm(reg[a])) \/ Goto(a, "cancel", "off")
    /\ ttlTimer' = None
    /\ idleArmed' = idleArmed \ {idleTimer}
    /\ idleTimer' = None
    /\ UNCHANGED <<tables, over, ttlArmed, raced>>

\* onRouteRemoved, which Add calls too when it replaces a registration.
Cancels(a) ==
    /\ Goto(a, "replace", ToArm(reg[a])) \/ Goto(a, "cancel", "off")
    /\ ttlArmed' = ttlArmed \ {ttlTimer}
    /\ ttlTimer' = None
    /\ idleArmed' = idleArmed \ {idleTimer}
    /\ idleTimer' = None
    /\ UNCHANGED <<tables, over, raced>>

\* Defect: every added route gets a TTL timer, whatever its type.
ArmsTtl_anyKind(c) ==
    /\ Goto(c, "arm", "off")
    /\ ttlArmed' = (ttlArmed \ {ttlTimer}) \cup {reg[c]}
    /\ ttlTimer' = reg[c]
    /\ UNCHANGED <<tables, over, idles, raced>>

\* armTTL: one critical section of timersMu.
ArmsTtl(c) ==
    /\ reg[c] \in Ttl
    /\ Goto(c, "arm", "off")
    /\ ttlArmed' = (ttlArmed \ {ttlTimer}) \cup {reg[c]}
    /\ ttlTimer' = reg[c]
    /\ UNCHANGED <<tables, over, idles, raced>>

\* armIdle looks the name up again ...
ArmIdleLooks(c) ==
    /\ reg[c] \in Idle
    /\ Goto(c, "arm", IF table \in Idle THEN "armIdle" ELSE "off")
    /\ UNCHANGED <<tables, over, ttls, idles, raced>>

\* ... before it takes timersMu.
ArmsIdle(c) ==
    /\ Goto(c, "armIdle", "off")
    /\ idleArmed' = (idleArmed \ {idleTimer}) \cup {reg[c]}
    /\ idleTimer' = reg[c]
    /\ UNCHANGED <<tables, over, ttls, raced>>

\* Defect: a process already gone is left to a watcher that never fires.
ArmsWatch_late(c) ==
    LET r == reg[c] IN
    /\ r \in Tracked
    /\ pc' = IF r \in over
               THEN [pc EXCEPT ![c] = "off"]
               ELSE [pc EXCEPT ![c] = "off", ![<<"watch", r>>] = "watching"]
    /\ pc[c] = "arm"
    /\ reg' = [reg EXCEPT ![c] = None]
    /\ UNCHANGED <<tables, over, ttls, idles, raced>>

\* watchTrackedPID: a process already gone is removed by name at once.
ArmsWatch(c) ==
    LET r == reg[c] IN
    /\ r \in Tracked
    /\ pc[c] = "arm"
    /\ pc' = IF r \in over
               THEN [pc EXCEPT ![c] = "remove"]
               ELSE [pc EXCEPT ![c] = "off", ![<<"watch", r>>] = "watching"]
    /\ reg' = IF r \in over THEN reg ELSE [reg EXCEPT ![c] = None]
    /\ UNCHANGED <<tables, over, ttls, idles, raced>>

-----------------------------------------------------------------------------
\* Time passes, processes exit

Elapses(r) ==
    /\ r \in (Ttl \cup Tracked) \ over
    /\ r \in Ttl => r \notin fresh
    /\ over' = over \cup {r}
    /\ UNCHANGED <<tables, ttls, idles, pc, reg, raced>>

TtlFires(r) ==
    /\ r \in ttlArmed /\ r \in over
    /\ Goto(<<"ttl", r>>, "off", "look")
    /\ ttlArmed' = ttlArmed \ {r}
    /\ UNCHANGED <<tables, over, ttlTimer, idles, raced>>

\* The timer's closure expires only a TTL registration past its deadline.
TtlLooks(r) ==
    /\ Goto(<<"ttl", r>>, "look", IF table \in Ttl \cap over THEN "remove"
                                                             ELSE "off")
    /\ UNCHANGED <<tables, over, ttls, idles, raced>>

WatchFires(r) ==
    /\ r \in over
    /\ Goto(<<"watch", r>>, "watching", "look")
    /\ UNCHANGED <<tables, over, ttls, idles, raced>>

WatchLooks(r) ==
    /\ Goto(<<"watch", r>>, "look", IF table = r THEN "remove" ELSE "off")
    /\ UNCHANGED <<tables, over, ttls, idles, raced>>

IdleFires(r) ==
    /\ r \in idleArmed
    /\ Goto(<<"idle", r>>, "off", "look")
    /\ idleArmed' = idleArmed \ {r}
    /\ UNCHANGED <<tables, over, ttls, idleTimer, raced>>

\* Defect: idleCheck re-arms only when it has stopped the process.
IdleLooks_lapses(r) ==
    /\ \/ Goto(<<"idle", r>>, "look", "rearm")
       \/ Goto(<<"idle", r>>, "look", "off")
    /\ UNCHANGED <<tables, over, ttls, idles, raced>>

\* idleCheck: whether it stops the process or not, it re-arms while the name
\* is an idle-governed route.
IdleLooks(r) ==
    /\ Goto(<<"idle", r>>, "look", IF table \in Idle THEN "rearm" ELSE "off")
    /\ UNCHANGED <<tables, over, ttls, idles, raced>>

\* rearmIdle: only if an entry is still there; it does not stop that timer.
Rearms(r) ==
    /\ Goto(<<"idle", r>>, "rearm", "off")
    /\ IF idleTimer = None THEN UNCHANGED idles
       ELSE idleTimer' = r /\ idleArmed' = idleArmed \cup {r}
    /\ UNCHANGED <<tables, over, ttls, raced>>

-----------------------------------------------------------------------------
Calls(c) == RemoveDeletes(c) \/ \E r \in Reg : AddInserts(c, r)

Arms(c) ==
    ArmsTtl(c) \/ ArmIdleLooks(c) \/ ArmsIdle(c) \/ ArmsWatch(c)

Hooks(a) == ActorDeletes(a) \/ Cancels(a)

Wakes(r) ==
    TtlFires(r) \/ TtlLooks(r) \/ WatchFires(r) \/ WatchLooks(r)
    \/ IdleFires(r) \/ IdleLooks(r) \/ Rearms(r)

Next ==
    \/ \E c \in Client : Calls(c) \/ Arms(c)
    \/ \E a \in Actor : Hooks(a)
    \/ \E r \in Reg : Wakes(r) \/ Elapses(r)

Spec == Init /\ [][Next]_vars

\* The runtime fires timers and runs goroutines; clients owe nothing, and time
\* need not pass.
FairSpec ==
    /\ Spec
    /\ \A c \in Client : WF_vars(Arms(c))
    /\ \A a \in Actor : WF_vars(Hooks(a))
    /\ \A r \in Reg : WF_vars(TtlFires(r) \/ TtlLooks(r))
    /\ \A r \in Reg : WF_vars(WatchFires(r) \/ WatchLooks(r))

-----------------------------------------------------------------------------
\* Properties

\* Every TTL timer that can still fire is the one in s.ttlTimers, so whoever
\* removes the route can cancel it (managed_timers.go, armTTL).
TtlIsCancellable == ttlArmed \subseteq {ttlTimer}

\* A registration whose time is up leaves the table, unless it was made while
\* the hooks of another call on the name were still due: the exact condition
\* under which the hooks' order can lose its timer (routes.go, Add and Remove).
\* Each registration is made once, so this cannot hold by one overdue
\* registration after another.
UndisturbedExpires == (table \in over /\ ~raced) ~> (table \notin over \/ raced)

\* An idle-governed route always has a timer, armed or running and about to
\* re-arm, unless it is still being added or was added while the hooks of
\* another call on the name were due (managed_timers.go, armIdle).
IdleIsGoverned ==
    (/\ table \in Idle /\ ~raced
     /\ ~\E c \in Client : Owes(c) /\ reg[c] = table)
        => \E r \in Idle : \/ r \in idleArmed
                           \/ pc[<<"idle", r>>] \in {"look", "rearm"}
=============================================================================
