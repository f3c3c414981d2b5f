------------------------- MODULE RouteTimersProofs -------------------------
(***************************************************************************)
(* Theorems about RouteTimers for any number of clients and registrations. *)
(* That the timers which can still fire are those the maps hold is         *)
(* inductive by itself; that they are of the right kind needs IdleOnly,    *)
(* because the idle timer's hook looks the table up in one step and arms   *)
(* in another.  That an idle timer governs its registration needs to know  *)
(* who may still owe it a hook: only the client that made it               *)
(* (Undisturbed).  The same is what the expiry of TTL and tracked routes   *)
(* rests on (Due).                                                         *)
(***************************************************************************)
EXTENDS RouteTimers, TLAPS

\* The actions of Next, one disjunct each.
LEMMA NextCases ==
    ASSUME Next
    PROVE  \/ \E c \in Client, r \in Reg : AddInserts(c, r)
           \/ \E c \in Client : RemoveDeletes(c)
           \/ \E a \in Actor : ActorDeletes(a)
           \/ \E a \in Actor : Cancels(a)
           \/ \E c \in Client : ArmsTtl(c)
           \/ \E c \in Client : ArmIdleLooks(c)
           \/ \E c \in Client : ArmsIdle(c)
           \/ \E c \in Client : ArmsWatch(c)
           \/ \E r \in Reg : TtlFires(r)
           \/ \E r \in Reg : TtlLooks(r)
           \/ \E r \in Reg : WatchFires(r)
           \/ \E r \in Reg : WatchLooks(r)
           \/ \E r \in Reg : IdleFires(r)
           \/ \E r \in Reg : IdleLooks(r)
           \/ \E r \in Reg : Rearms(r)
           \/ \E r \in Reg : Elapses(r)
BY DEF Next, Calls, Arms, Hooks, Wakes

\* Every actor the actions name is one, and none is another.
LEMMA Actors ==
    /\ Client \subseteq Actor
    /\ \A r \in Reg : /\ <<"ttl", r>> \in Actor
                      /\ <<"watch", r>> \in Actor
                      /\ <<"idle", r>> \in Actor
    /\ \A r \in Reg : /\ <<"ttl", r>> \notin Client
                      /\ <<"watch", r>> \notin Client
                      /\ <<"idle", r>> \notin Client
    /\ \A r, q \in Reg : /\ <<"ttl", r>> # <<"idle", q>>
                         /\ <<"watch", r>> # <<"idle", q>>
                         /\ <<"idle", r>> = <<"idle", q>> => r = q
BY ClientAssumption DEF Actor

\* Where a call goes on after the table has changed.
LEMMA Armings == \A r : ToArm(r) \in {"arm", "off"}
BY DEF ToArm

\* A client about to arm an idle timer arms it for an idle-governed registration,
\* and so only such a one has a timer goroutine.
IdleOnly ==
    /\ \A a \in Actor : pc[a] = "armIdle" => a \in Client /\ reg[a] \in Idle
    /\ \A r \in Reg : pc[<<"idle", r>>] # "off" => r \in Idle

TypeInv == TypeOK /\ IdleOnly

LEMMA InitType == Init => TypeInv
BY Actors DEF Init, TypeInv, TypeOK, IdleOnly, Labels

\* One actor moves, from wherever it is, and only its own registration changes.
LEMMA OneMoves ==
    ASSUME TypeInv, NEW a \in Actor, NEW l \in Labels, Goto(a, pc[a], l),
           l = "armIdle" => a \in Client /\ reg[a] \in Idle,
           \A r \in Reg : a = <<"idle", r>> /\ l # "off" => r \in Idle
    PROVE  /\ pc' \in [Actor -> Labels]
           /\ reg' \in [Actor -> Reg \cup {None}]
           /\ IdleOnly'
<1> USE DEF Goto
<1>1. pc' \in [Actor -> Labels] /\ reg' \in [Actor -> Reg \cup {None}]
  BY DEF TypeInv, TypeOK
<1>2. ASSUME NEW b \in Actor, pc'[b] = "armIdle"
      PROVE  b \in Client /\ reg'[b] \in Idle
  BY <1>2 DEF TypeInv, TypeOK, IdleOnly
<1>3. ASSUME NEW r \in Reg, pc'[<<"idle", r>>] # "off"
      PROVE  r \in Idle
  BY <1>3, Actors DEF TypeInv, TypeOK, IdleOnly
<1>4. QED
  BY <1>1, <1>2, <1>3 DEF IdleOnly

LEMMA NextType == TypeInv /\ [Next]_vars => TypeInv'
<1> SUFFICES ASSUME TypeInv, [Next]_vars
             PROVE  TypeInv'
  OBVIOUS
<1> USE KindAssumption, NoneAssumption DEF TypeInv
<1>1. ASSUME NEW c \in Client, NEW r \in Reg, AddInserts(c, r)
      PROVE  TypeInv'
  <2> DEFINE m == IF table = None THEN ToArm(r) ELSE "replace"
             v == IF table = None /\ ToArm(r) = "off" THEN None ELSE r
  <2>1. m \in {"arm", "off", "replace"} /\ v \in Reg \cup {None} /\ c \in Actor
    BY Armings, Actors
  <2>2. pc' = [pc EXCEPT ![c] = m] /\ reg' = [reg EXCEPT ![c] = v]
    BY <1>1 DEF AddInserts
  <2> HIDE DEF m, v
  <2>3. pc' \in [Actor -> Labels] /\ reg' \in [Actor -> Reg \cup {None}]
    BY <2>1, <2>2 DEF TypeOK, Labels
  <2>4. /\ pc'[c] # "armIdle"
        /\ \A a \in Actor \ {c} : pc'[a] = pc[a] /\ reg'[a] = reg[a]
    BY <2>1, <2>2 DEF TypeOK
  <2>5. IdleOnly'
    <3>1. ASSUME NEW a \in Actor, pc'[a] = "armIdle"
          PROVE  a \in Client /\ reg'[a] \in Idle
      BY <2>4, <3>1 DEF IdleOnly
    <3>2. ASSUME NEW q \in Reg, pc'[<<"idle", q>>] # "off"
          PROVE  q \in Idle
      <4>1. <<"idle", q>> \in Actor \ {c}
        BY Actors
      <4>2. QED
        BY <2>4, <3>2, <4>1 DEF IdleOnly
    <3>3. QED
      BY <3>1, <3>2 DEF IdleOnly
  <2>6. QED
    BY <1>1, <2>3, <2>5 DEF AddInserts, TypeOK, ttls, idles
<1>2. ASSUME NEW a \in Actor, NEW l \in {"off", "remove"}, Deletes(a, l),
             l = "off" => a \in Client
      PROVE  TypeInv'
  <2>1. pc' \in [Actor -> Labels] /\ reg' \in [Actor -> Reg \cup {None}] /\ IdleOnly'
    <3> DEFINE m == IF table = None THEN "off" ELSE "cancel"
    <3>1. Goto(a, pc[a], m) /\ m \in Labels /\ m # "armIdle"
      BY <1>2 DEF Deletes, Goto, Labels
    <3>2. ASSUME NEW r \in Reg, a = <<"idle", r>>
          PROVE  r \in Idle
      BY <1>2, <3>2, Actors DEF Deletes, Goto, IdleOnly
    <3> HIDE DEF m
    <3>3. QED
      BY <3>1, <3>2, OneMoves
  <2>2. QED
    BY <1>2, <2>1 DEF Deletes, Goto, TypeOK, IdleOnly, tables, ttls, idles
<1>3. ASSUME NEW a \in Actor, Cancels(a)
      PROVE  TypeInv'
  <2>1. PICK l \in {"off", "arm"} : Goto(a, pc[a], l)
    BY <1>3, Armings DEF Cancels, Goto
  <2>2. \A r \in Reg : a = <<"idle", r>> => r \in Idle
    BY <1>3, Actors DEF Cancels, Goto, IdleOnly
  <2>3. pc' \in [Actor -> Labels] /\ reg' \in [Actor -> Reg \cup {None}] /\ IdleOnly'
    BY <2>1, <2>2, OneMoves DEF Labels
  <2>4. QED
    BY <1>3, <2>3 DEF Cancels, TypeOK, IdleOnly, tables, ttls, idles
<1>4. ASSUME NEW c \in Client, ArmsTtl(c)
      PROVE  TypeInv'
  <2>1. pc' \in [Actor -> Labels] /\ reg' \in [Actor -> Reg \cup {None}] /\ IdleOnly'
    BY <1>4, OneMoves, Actors DEF ArmsTtl, Goto, TypeOK, IdleOnly, Labels
  <2>2. QED
    BY <1>4, <2>1 DEF ArmsTtl, Goto, TypeOK, IdleOnly, tables, ttls, idles
<1>5. ASSUME NEW c \in Client, ArmIdleLooks(c)
      PROVE  TypeInv'
  <2>1. pc' \in [Actor -> Labels] /\ reg' \in [Actor -> Reg \cup {None}] /\ IdleOnly'
    BY <1>5, OneMoves, Actors DEF ArmIdleLooks, Goto, TypeOK, IdleOnly, Labels
  <2>2. QED
    BY <1>5, <2>1 DEF ArmIdleLooks, Goto, TypeOK, IdleOnly, tables, ttls, idles
<1>6. ASSUME NEW c \in Client, ArmsIdle(c)
      PROVE  TypeInv'
  <2>1. pc' \in [Actor -> Labels] /\ reg' \in [Actor -> Reg \cup {None}] /\ IdleOnly'
    BY <1>6, OneMoves, Actors DEF ArmsIdle, Goto, TypeOK, IdleOnly, Labels
  <2>2. QED
    BY <1>6, <2>1 DEF ArmsIdle, Goto, TypeOK, IdleOnly, tables, ttls, idles
<1>7. ASSUME NEW c \in Client, ArmsWatch(c)
      PROVE  TypeInv'
  <2> DEFINE w == <<"watch", reg[c]>>
  <2>1. reg[c] \in Reg /\ w \in Actor /\ w \notin Client
    BY <1>7, Actors DEF ArmsWatch
  <2>2. pc' \in [Actor -> Labels] /\ reg' \in [Actor -> Reg \cup {None}]
    BY <1>7, <2>1, Actors DEF ArmsWatch, TypeOK, Labels
  <2>3. ASSUME NEW a \in Actor, pc'[a] = "armIdle"
        PROVE  a \in Client /\ reg'[a] \in Idle
    BY <1>7, <2>1, <2>3, Actors DEF ArmsWatch, TypeOK, IdleOnly
  <2>4. ASSUME NEW r \in Reg, pc'[<<"idle", r>>] # "off"
        PROVE  r \in Idle
    BY <1>7, <2>1, <2>4, Actors DEF ArmsWatch, TypeOK, IdleOnly
  <2>5. IdleOnly'
    BY <2>3, <2>4 DEF IdleOnly
  <2>6. QED
    BY <1>7, <2>2, <2>5 DEF ArmsWatch, TypeOK, tables, ttls, idles
<1>8. ASSUME NEW r \in Reg, TtlFires(r)
      PROVE  TypeInv'
  <2>1. pc' \in [Actor -> Labels] /\ reg' \in [Actor -> Reg \cup {None}] /\ IdleOnly'
    BY <1>8, OneMoves, Actors DEF TtlFires, Goto, TypeOK, IdleOnly, Labels
  <2>2. QED
    BY <1>8, <2>1 DEF TtlFires, Goto, TypeOK, IdleOnly, tables, ttls, idles
<1>9. ASSUME NEW r \in Reg, TtlLooks(r)
       PROVE  TypeInv'
  <2>1. pc' \in [Actor -> Labels] /\ reg' \in [Actor -> Reg \cup {None}] /\ IdleOnly'
    BY <1>9, OneMoves, Actors DEF TtlLooks, Goto, TypeOK, IdleOnly, Labels
  <2>2. QED
    BY <1>9, <2>1 DEF TtlLooks, Goto, TypeOK, IdleOnly, tables, ttls, idles
<1>10. ASSUME NEW r \in Reg, WatchFires(r)
       PROVE  TypeInv'
  <2>1. pc' \in [Actor -> Labels] /\ reg' \in [Actor -> Reg \cup {None}] /\ IdleOnly'
    BY <1>10, OneMoves, Actors DEF WatchFires, Goto, TypeOK, IdleOnly, Labels
  <2>2. QED
    BY <1>10, <2>1 DEF WatchFires, Goto, TypeOK, IdleOnly, tables, ttls, idles
<1>11. ASSUME NEW r \in Reg, WatchLooks(r)
       PROVE  TypeInv'
  <2>1. pc' \in [Actor -> Labels] /\ reg' \in [Actor -> Reg \cup {None}] /\ IdleOnly'
    BY <1>11, OneMoves, Actors DEF WatchLooks, Goto, TypeOK, IdleOnly, Labels
  <2>2. QED
    BY <1>11, <2>1 DEF WatchLooks, Goto, TypeOK, IdleOnly, tables, ttls, idles
<1>12. ASSUME NEW r \in Reg, IdleFires(r)
       PROVE  TypeInv'
  <2>1. pc' \in [Actor -> Labels] /\ reg' \in [Actor -> Reg \cup {None}] /\ IdleOnly'
    <3>1. r \in Idle /\ Goto(<<"idle", r>>, pc[<<"idle", r>>], "look")
      BY <1>12 DEF IdleFires, Goto, TypeOK
    <3>2. \A q \in Reg : <<"idle", r>> = <<"idle", q>> => q \in Idle
      BY <3>1
    <3>3. QED
      BY <3>1, <3>2, OneMoves, Actors DEF Labels
  <2>2. QED
    BY <1>12, <2>1 DEF IdleFires, Goto, TypeOK, IdleOnly, tables, ttls, idles
<1>13. ASSUME NEW r \in Reg, IdleLooks(r)
       PROVE  TypeInv'
  <2>1. pc' \in [Actor -> Labels] /\ reg' \in [Actor -> Reg \cup {None}] /\ IdleOnly'
    BY <1>13, OneMoves, Actors DEF IdleLooks, Goto, TypeOK, IdleOnly, Labels
  <2>2. QED
    BY <1>13, <2>1 DEF IdleLooks, Goto, TypeOK, IdleOnly, tables, ttls, idles
<1>14. ASSUME NEW r \in Reg, Rearms(r)
       PROVE  TypeInv'
  <2>1. pc' \in [Actor -> Labels] /\ reg' \in [Actor -> Reg \cup {None}] /\ IdleOnly'
    BY <1>14, OneMoves, Actors DEF Rearms, Goto, TypeOK, IdleOnly, Labels
  <2>2. QED
    BY <1>14, <2>1 DEF Rearms, Goto, TypeOK, IdleOnly, tables, ttls, idles
<1>15. ASSUME NEW r \in Reg, Elapses(r)
       PROVE  TypeInv'
  BY <1>15 DEF Elapses, TypeOK, IdleOnly, tables, ttls, idles
<1>16. CASE UNCHANGED vars
  BY <1>16 DEF vars, TypeOK, IdleOnly, tables, ttls, idles
<1>17. QED
  BY <1>1, <1>2, <1>3, <1>4, <1>5, <1>6, <1>7, <1>8, <1>9, <1>10, <1>11, <1>12, <1>13, <1>14, <1>15, <1>16,
     NextCases, Actors DEF RemoveDeletes, ActorDeletes

\* Every variable keeps its type; what makes it inductive is IdleOnly: armIdle
\* and rearmIdle look at the registration again before they arm a timer for it
\* (managed_timers.go, armIdle).
THEOREM TimersTyping == Spec => []TypeOK
<1>1. Init => TypeInv
  BY InitType
<1>2. TypeInv /\ [Next]_vars => TypeInv'
  BY NextType
<1>3. TypeInv => TypeOK
  BY DEF TypeInv
<1>4. QED
  BY <1>1, <1>2, <1>3, PTL DEF Spec

LEMMA NextCancellable ==
    TtlIsCancellable /\ [Next]_vars => TtlIsCancellable'
<1> SUFFICES ASSUME TtlIsCancellable, [Next]_vars
             PROVE  TtlIsCancellable'
  OBVIOUS
<1> USE DEF TtlIsCancellable
<1>1. CASE UNCHANGED vars
  BY <1>1 DEF vars, ttls
<1>2. CASE Next
  <2>1. ASSUME NEW a \in Actor, Cancels(a)
        PROVE  TtlIsCancellable'
    BY <2>1 DEF Cancels
  <2>2. ASSUME NEW c \in Client, ArmsTtl(c)
        PROVE  TtlIsCancellable'
    BY <2>2 DEF ArmsTtl
  <2>3. ASSUME NEW r \in Reg, TtlFires(r)
        PROVE  TtlIsCancellable'
    BY <2>3 DEF TtlFires
  <2>4. CASE UNCHANGED ttls
    BY <2>4 DEF ttls
  <2>5. QED
    BY <1>2, <2>1, <2>2, <2>3, <2>4, NextCases
       DEF AddInserts, RemoveDeletes, ActorDeletes, Deletes, ArmIdleLooks,
           ArmsIdle, ArmsWatch, TtlLooks, WatchFires, WatchLooks,
           IdleFires, IdleLooks, Rearms, Elapses, ttls
<1>3. QED
  BY <1>1, <1>2

\* armTTL, the hooks and the timers' own firing keep every timer that can
\* still fire the one s.ttlTimers has, however many registrations and calls
\* there are (managed_timers.go, armTTL).
THEOREM Cancellable == Spec => []TtlIsCancellable
<1>1. Init => TtlIsCancellable
  BY DEF Init, TtlIsCancellable
<1>2. TtlIsCancellable /\ [Next]_vars => TtlIsCancellable'
  BY NextCancellable
<1>3. QED
  BY <1>1, <1>2, PTL DEF Spec

-----------------------------------------------------------------------------
\* The idle timer

\* A registration made while no hooks were due is disturbed by none: whoever
\* owes a hook is the client that made it.
Undisturbed ==
    table # None /\ ~raced =>
        \A a \in Actor : Owes(a) =>
            a \in Client /\ reg[a] = table /\ pc[a] # "cancel"

Armed(r) == \E c \in Client : Owes(c) /\ reg[c] = r

\* From when its timer is armed, an idle-governed registration has one that will
\* fire, or that has fired and finds the entry it re-arms by.
Governed ==
    table \in Idle /\ ~raced /\ ~Armed(table) =>
        /\ idleTimer # None
        /\ \E r \in Idle : r \in idleArmed \/ pc[<<"idle", r>>] \in {"look", "rearm"}

IdleInv == TypeInv /\ Undisturbed /\ Governed

LEMMA NextUndisturbed ==
    ASSUME TypeInv, Undisturbed, [Next]_vars
    PROVE  Undisturbed'
<1>. USE DEF TypeInv, TypeOK
<1>1. ASSUME NEW c \in Client, NEW r \in Reg, AddInserts(c, r)
      PROVE  Undisturbed'
  <2>. SUFFICES ASSUME ~raced', NEW a \in Actor, Owes(a)'
                PROVE  a \in Client /\ reg'[a] = table' /\ pc'[a] # "cancel"
    BY DEF Undisturbed
  <2>1. ~Owes(a) /\ c \in Actor
    BY <1>1, Actors DEF AddInserts
  <2>2. a = c
    BY <1>1, <2>1 DEF AddInserts, Owes
  <2>3. PICK m, v : /\ m = IF table = None THEN ToArm(r) ELSE "replace"
                    /\ v = IF table = None /\ ToArm(r) = "off" THEN None ELSE r
    OBVIOUS
  <2>4. pc' = [pc EXCEPT ![c] = m] /\ reg' = [reg EXCEPT ![c] = v]
    BY <1>1, <2>3 DEF AddInserts
  <2>5. m \in {"arm", "off", "replace"} /\ (v = r \/ m = "off")
    BY <2>3, Armings
  <2>. QED
    BY <1>1, <2>1, <2>2, <2>4, <2>5 DEF AddInserts, Owes
<1>2. ASSUME NEW a \in Actor, NEW l, Deletes(a, l)
      PROVE  Undisturbed'
  BY <1>2 DEF Deletes, Undisturbed
<1>3. ASSUME NEW a \in Actor, NEW l, Goto(a, pc[a], l), Owes(a) \/ l \notin
                {"replace", "cancel", "arm", "armIdle"},
             l # "cancel", UNCHANGED <<table, raced>>
      PROVE  Undisturbed'
  <2>. SUFFICES ASSUME table # None, ~raced, NEW b \in Actor, Owes(b)'
                PROVE  b \in Client /\ reg'[b] = table /\ pc'[b] # "cancel"
    BY <1>3 DEF Undisturbed
  <2>1. CASE b = a
    BY <1>3, <2>1 DEF Goto, Owes, Undisturbed
  <2>2. CASE b # a
    <3>1. pc'[b] = pc[b] /\ reg'[b] = reg[b]
      BY <1>3, <2>2 DEF Goto
    <3>. QED
      BY <3>1 DEF Owes, Undisturbed
  <2>. QED
    BY <2>1, <2>2
<1>4. ASSUME NEW c \in Client, ArmsWatch(c)
      PROVE  Undisturbed'
  <2>. SUFFICES ASSUME table # None, ~raced, NEW b \in Actor, Owes(b)'
                PROVE  b \in Client /\ reg'[b] = table /\ pc'[b] # "cancel"
    BY <1>4 DEF ArmsWatch, Undisturbed, tables
  <2>1. c \in Actor /\ reg[c] \in Reg /\ pc'[c] \in {"remove", "off"}
    BY <1>4, Actors, KindAssumption DEF ArmsWatch
  <2>2. b # c
    BY <2>1 DEF Owes
  <2>3. reg'[b] = reg[b]
    BY <1>4, <2>2 DEF ArmsWatch
  <2>4. pc'[b] \in {pc[b], "watching"}
    BY <1>4, <2>2 DEF ArmsWatch
  <2>5. pc'[b] = pc[b]
    BY <2>4 DEF Owes
  <2>. QED
    BY <2>3, <2>5 DEF Owes, Undisturbed
<1>5. ASSUME NEW a \in Actor, Cancels(a)
      PROVE  Undisturbed'
  <2>1. PICK l \in {"arm", "off"} : Goto(a, pc[a], l) /\ Owes(a)
    BY <1>5, Armings DEF Cancels, Goto, Owes
  <2>. QED
    BY <1>3, <1>5, <2>1 DEF Cancels, tables
<1>6. ASSUME NEW c \in Client, ArmsTtl(c) \/ ArmIdleLooks(c) \/ ArmsIdle(c)
      PROVE  Undisturbed'
  <2>1. PICK l \in {"armIdle", "off"} : Goto(c, pc[c], l) /\ Owes(c)
    BY <1>6 DEF ArmsTtl, ArmIdleLooks, ArmsIdle, Goto, Owes
  <2>. QED
    BY <1>3, <1>6, <2>1, Actors DEF ArmsTtl, ArmIdleLooks, ArmsIdle, tables
<1>7. ASSUME NEW r \in Reg, Wakes(r)
      PROVE  Undisturbed'
  <2>1. PICK a \in {<<"ttl", r>>, <<"watch", r>>, <<"idle", r>>},
             l \in {"look", "remove", "rearm", "off"} : Goto(a, pc[a], l)
    BY <1>7 DEF Wakes, TtlFires, TtlLooks, WatchFires, WatchLooks, IdleFires,
                IdleLooks, Rearms, Goto
  <2>2. UNCHANGED <<table, raced>>
    BY <1>7 DEF Wakes, TtlFires, TtlLooks, WatchFires, WatchLooks, IdleFires,
                IdleLooks, Rearms, tables
  <2>3. a \in Actor
    BY Actors
  <2>. QED
    BY <1>3, <2>1, <2>2, <2>3
<1>8. CASE UNCHANGED <<table, raced, pc, reg>>
  BY <1>8 DEF Undisturbed, Owes
<1>. QED
  BY <1>1, <1>2, <1>4, <1>5, <1>6, <1>7, <1>8, Actors
     DEF Next, Calls, Arms, Hooks, RemoveDeletes, ActorDeletes, Elapses, vars, tables

LEMMA NextGoverned ==
    ASSUME TypeInv, Undisturbed, Governed, [Next]_vars
    PROVE  Governed'
<1>. USE DEF TypeInv, TypeOK
<1>1. ASSUME NEW c \in Client, NEW r \in Reg, AddInserts(c, r)
      PROVE  Governed'
  <2>1. r \in Idle => pc'[c] \in {"arm", "replace"} /\ reg'[c] = r /\ table' = r
    BY <1>1, Actors DEF AddInserts, ToArm
  <2>2. table' = r
    BY <1>1 DEF AddInserts
  <2>. QED
    BY <2>1, <2>2 DEF Governed, Armed, Owes
<1>2. ASSUME NEW a \in Actor, NEW l, Deletes(a, l)
      PROVE  Governed'
  BY <1>2, KindAssumption, NoneAssumption DEF Deletes, Governed
<1>3. ASSUME NEW a \in Actor, Cancels(a)
      PROVE  Governed'
  <2>. SUFFICES ASSUME table \in Idle, ~raced, ~Armed(table)'
                PROVE  FALSE
    BY <1>3 DEF Governed, Cancels, tables
  <2>1. Owes(a) /\ pc[a] \in {"replace", "cancel"} /\ table # None
    BY <1>3, KindAssumption, NoneAssumption DEF Cancels, Goto, Owes
  <2>2. a \in Client /\ reg[a] = table /\ pc[a] = "replace"
    BY <2>1 DEF Undisturbed
  <2>3. pc'[a] = "arm" /\ reg'[a] = table
    BY <1>3, <2>2 DEF Cancels, Goto, ToArm
  <2>. QED
    BY <1>3, <2>2, <2>3 DEF Armed, Owes, Cancels, tables
<1>4. ASSUME NEW c \in Client, ArmsTtl(c) \/ ArmsWatch(c)
      PROVE  Governed'
  <2>. SUFFICES ASSUME table \in Idle, ~raced PROVE FALSE
    BY <1>4 DEF Governed, ArmsTtl, ArmsWatch, tables
  <2>1. Owes(c) /\ reg[c] \in Ttl \cup Tracked
    BY <1>4 DEF ArmsTtl, ArmsWatch, Goto, Owes
  <2>2. reg[c] = table
    BY <2>1, Actors, KindAssumption, NoneAssumption DEF Undisturbed
  <2>. QED
    BY <2>1, <2>2, KindAssumption
<1>5. ASSUME NEW c \in Client, ArmIdleLooks(c)
      PROVE  Governed'
  <2>. SUFFICES ASSUME table \in Idle, ~raced, ~Armed(table)' PROVE FALSE
    BY <1>5 DEF Governed, ArmIdleLooks, tables
  <2>1. Owes(c)
    BY <1>5 DEF ArmIdleLooks, Goto, Owes
  <2>2. reg[c] = table
    BY <2>1, Actors, KindAssumption, NoneAssumption DEF Undisturbed
  <2>3. pc'[c] = "armIdle" /\ reg'[c] = table /\ table' = table
    BY <1>5, <2>2, Actors DEF ArmIdleLooks, Goto, tables
  <2>. QED
    BY <2>3 DEF Armed, Owes
<1>6. ASSUME NEW c \in Client, ArmsIdle(c)
      PROVE  Governed'
  <2>. SUFFICES ASSUME table \in Idle, ~raced
                PROVE  idleTimer' # None /\ \E r \in Idle : r \in idleArmed'
    BY <1>6 DEF Governed, ArmsIdle, tables
  <2>1. Owes(c)
    BY <1>6 DEF ArmsIdle, Goto, Owes
  <2>2. reg[c] = table
    BY <2>1, Actors, KindAssumption, NoneAssumption DEF Undisturbed
  <2>. QED
    BY <1>6, <2>2, KindAssumption, NoneAssumption DEF ArmsIdle
<1>7. ASSUME NEW r \in Reg, Wakes(r)
      PROVE  Governed'
  <2>. SUFFICES ASSUME table \in Idle, ~raced, ~Armed(table)'
                PROVE  /\ idleTimer' # None
                       /\ \E q \in Idle : \/ q \in idleArmed'
                                          \/ pc'[<<"idle", q>>] \in {"look", "rearm"}
    BY <1>7 DEF Governed, Wakes, TtlFires, TtlLooks, WatchFires, WatchLooks,
                IdleFires, IdleLooks, Rearms, tables
  <2>1. PICK a \in {<<"ttl", r>>, <<"watch", r>>, <<"idle", r>>},
             l \in {"look", "remove", "rearm", "off"} : Goto(a, pc[a], l)
    BY <1>7 DEF Wakes, TtlFires, TtlLooks, WatchFires, WatchLooks, IdleFires,
                IdleLooks, Rearms, Goto
  <2>2. a \in Actor \ Client /\ table' = table
    BY <1>7, <2>1, Actors DEF Wakes, TtlFires, TtlLooks, WatchFires, WatchLooks,
                IdleFires, IdleLooks, Rearms, tables
  <2>3. ~Armed(table)
    <3>1. \A b \in Client : pc'[b] = pc[b] /\ reg'[b] = reg[b]
      BY <2>1, <2>2, Actors DEF Goto
    <3>. QED
      BY <2>2, <3>1 DEF Armed, Owes
  <2>4. /\ idleTimer # None
        /\ \E q \in Idle : q \in idleArmed \/ pc[<<"idle", q>>] \in {"look", "rearm"}
    BY <2>3 DEF Governed
  <2>5. CASE TtlFires(r) \/ TtlLooks(r) \/ WatchFires(r) \/ WatchLooks(r)
    <3>1. \A q \in Reg : pc'[<<"idle", q>>] = pc[<<"idle", q>>]
      BY <2>5, Actors DEF TtlFires, TtlLooks, WatchFires, WatchLooks, Goto
    <3>2. UNCHANGED <<idleTimer, idleArmed>>
      BY <2>5 DEF TtlFires, TtlLooks, WatchFires, WatchLooks, idles
    <3>. QED
      BY <2>4, <3>1, <3>2, KindAssumption
  <2>6. CASE IdleFires(r)
    BY <2>4, <2>6, Actors DEF IdleFires, Goto
  <2>7. CASE IdleLooks(r)
    <3>1. <<"idle", r>> \in Actor /\ pc'[<<"idle", r>>] = "rearm" /\ r \in Idle
      BY <2>7, Actors DEF IdleLooks, Goto, IdleOnly
    <3>. QED
      BY <2>4, <2>7, <3>1 DEF IdleLooks, idles
  <2>8. CASE Rearms(r)
    <3>1. r \in Idle
      BY <2>8 DEF Rearms, Goto, IdleOnly
    <3>. QED
      BY <2>4, <2>8, <3>1, KindAssumption, NoneAssumption DEF Rearms
  <2>. QED
    BY <1>7, <2>5, <2>6, <2>7, <2>8 DEF Wakes
<1>8. CASE UNCHANGED <<table, raced, idles, pc, reg>>
  BY <1>8 DEF Governed, Armed, Owes, idles
<1>. QED
  BY <1>1, <1>2, <1>3, <1>4, <1>5, <1>6, <1>7, <1>8, Actors
     DEF Next, Calls, Arms, Hooks, RemoveDeletes, ActorDeletes, Elapses, vars, tables

\* An idle-governed route that no other call's hooks disturbed has a timer that
\* will fire, or one that has fired and will re-arm: armIdle and rearmIdle both
\* find the entry (managed_timers.go, armIdle, idleCheck and rearmIdle).
THEOREM AlwaysGoverned == Spec => []IdleIsGoverned
<1>1. Init => IdleInv
  BY InitType, KindAssumption, NoneAssumption DEF Init, IdleInv, Undisturbed, Governed
<1>2. IdleInv /\ [Next]_vars => IdleInv'
  BY NextType, NextUndisturbed, NextGoverned DEF IdleInv
<1>3. IdleInv => IdleIsGoverned
  BY DEF IdleInv, Governed, Armed, IdleIsGoverned
<1>. QED
  BY <1>1, <1>2, <1>3, PTL DEF Spec
-----------------------------------------------------------------------------
\* Expiry

\* The timer of r is armed, or its time is up and the timer on its way to remove it.
TtlDue(r) ==
    \/ r \in ttlArmed
    \/ r \in over /\ pc[<<"ttl", r>>] \in {"look", "remove"}

\* The process of r is watched, or gone, and the watcher or the client that found it
\* gone is on its way to remove r.
WatchDue(r) ==
    \/ pc[<<"watch", r>>] = "watching"
    \/ /\ r \in over
       /\ \/ pc[<<"watch", r>>] \in {"look", "remove"}
          \/ \E c \in Client : pc[c] = "remove"

Due ==
    table # None /\ ~raced /\ ~Armed(table) =>
        /\ table \in Ttl => TtlDue(table)
        /\ table \in Tracked => WatchDue(table)

LEMMA NextDue ==
    ASSUME TypeInv, Undisturbed, Due, [Next]_vars
    PROVE  Due'
<1>. USE DEF TypeInv, TypeOK
<1>1. ASSUME NEW c \in Client, NEW r \in Reg, AddInserts(c, r)
      PROVE  Due'
  <2>1. r \in Ttl \cup Tracked => pc'[c] \in {"arm", "replace"} /\ reg'[c] = r
    BY <1>1, Actors DEF AddInserts, ToArm
  <2>2. table' = r
    BY <1>1 DEF AddInserts
  <2>. QED
    BY <2>1, <2>2 DEF Due, Armed, Owes
<1>2. ASSUME NEW a \in Actor, NEW l, Deletes(a, l)
      PROVE  Due'
  BY <1>2 DEF Deletes, Due
<1>3. ASSUME NEW a \in Actor, Cancels(a)
      PROVE  Due'
  <2>. SUFFICES ASSUME table \in Ttl \cup Tracked, ~raced, ~Armed(table)'
                PROVE  FALSE
    BY <1>3 DEF Due, Cancels, tables
  <2>1. Owes(a) /\ pc[a] \in {"replace", "cancel"} /\ table # None
    BY <1>3, KindAssumption, NoneAssumption DEF Cancels, Goto, Owes
  <2>2. a \in Client /\ reg[a] = table /\ pc[a] = "replace"
    BY <2>1 DEF Undisturbed
  <2>3. pc'[a] = "arm" /\ reg'[a] = table
    BY <1>3, <2>2 DEF Cancels, Goto, ToArm
  <2>. QED
    BY <1>3, <2>2, <2>3 DEF Armed, Owes, Cancels, tables
<1>4. ASSUME NEW c \in Client, ArmsTtl(c) \/ ArmIdleLooks(c) \/ ArmsIdle(c) \/ ArmsWatch(c),
             table \in Ttl \cup Tracked, ~raced
      PROVE  reg[c] = table /\ c \in Actor /\ UNCHANGED <<table, raced>>
  <2>1. Owes(c) /\ UNCHANGED <<table, raced>>
    BY <1>4 DEF ArmsTtl, ArmIdleLooks, ArmsIdle, ArmsWatch, Goto, Owes, tables
  <2>2. reg[c] = table
    BY <1>4, <2>1, Actors, KindAssumption, NoneAssumption DEF Undisturbed
  <2>. QED
    BY <2>1, <2>2, Actors
<1>5. ASSUME NEW c \in Client, ArmsTtl(c)
      PROVE  Due'
  BY <1>4, <1>5, KindAssumption DEF ArmsTtl, Due, TtlDue, tables
<1>6. ASSUME NEW c \in Client, ArmIdleLooks(c) \/ ArmsIdle(c)
      PROVE  Due'
  <2>. SUFFICES ASSUME table \in Ttl \cup Tracked, ~raced PROVE FALSE
    BY <1>6 DEF ArmIdleLooks, ArmsIdle, Due, tables
  <2>1. ArmsIdle(c) => pc[c] = "armIdle" /\ c \in Actor
    BY Actors DEF ArmsIdle, Goto
  <2>2. reg[c] \in Idle
    BY <1>6, <2>1 DEF ArmIdleLooks, IdleOnly
  <2>. QED
    BY <1>4, <1>6, <2>2, KindAssumption
<1>7. ASSUME NEW c \in Client, ArmsWatch(c)
      PROVE  Due'
  <2>. SUFFICES ASSUME table \in Ttl \cup Tracked, ~raced
                PROVE  /\ table \in Ttl => TtlDue(table)'
                       /\ table \in Tracked => WatchDue(table)'
    BY <1>7 DEF ArmsWatch, Due, tables
  <2>1. /\ reg[c] = table /\ table' = table /\ over' = over
        /\ table \in Tracked /\ table \in Reg /\ table \notin Ttl
        /\ c \in Actor
    BY <1>4, <1>7, KindAssumption DEF ArmsWatch
  <2>2. <<"watch", table>> \in Actor /\ <<"watch", table>> # c
    BY <2>1, Actors
  <2>3. CASE table \in over
    <3>1. pc' = [pc EXCEPT ![c] = "remove"]
      BY <1>7, <2>1, <2>3 DEF ArmsWatch
    <3>2. pc'[c] = "remove"
      BY <2>1, <3>1
    <3>. QED
      BY <2>1, <2>2, <2>3, <3>2 DEF WatchDue
  <2>4. CASE table \notin over
    <3>1. pc' = [pc EXCEPT ![c] = "off", ![<<"watch", table>>] = "watching"]
      BY <1>7, <2>1, <2>4 DEF ArmsWatch
    <3>2. pc'[<<"watch", table>>] = "watching"
      BY <2>2, <3>1
    <3>. QED
      BY <2>1, <3>2 DEF WatchDue
  <2>. QED
    BY <2>1, <2>3, <2>4
<1>8. ASSUME NEW r \in Reg, Wakes(r)
      PROVE  Due'
  <2>. SUFFICES ASSUME table # None, ~raced, ~Armed(table)'
                PROVE  /\ table \in Ttl => TtlDue(table)'
                       /\ table \in Tracked => WatchDue(table)'
    BY <1>8 DEF Due, Wakes, TtlFires, TtlLooks, WatchFires, WatchLooks,
                IdleFires, IdleLooks, Rearms, tables
  <2>1. PICK a \in {<<"ttl", r>>, <<"watch", r>>, <<"idle", r>>},
             l \in {"look", "remove", "rearm", "off"} : Goto(a, pc[a], l)
    BY <1>8 DEF Wakes, TtlFires, TtlLooks, WatchFires, WatchLooks, IdleFires,
                IdleLooks, Rearms, Goto
  <2>2. a \in Actor \ Client /\ UNCHANGED <<table, over>>
    BY <1>8, <2>1, Actors DEF Wakes, TtlFires, TtlLooks, WatchFires, WatchLooks,
                IdleFires, IdleLooks, Rearms, tables
  <2>3. \A b \in Client : b \in Actor /\ pc'[b] = pc[b] /\ reg'[b] = reg[b]
    BY <2>1, <2>2, Actors DEF Goto
  <2>4. ~Armed(table)
    BY <2>2, <2>3 DEF Armed, Owes
  <2>5. /\ table \in Ttl => TtlDue(table)
        /\ table \in Tracked => WatchDue(table)
    BY <2>4 DEF Due
  <2>6. ASSUME table \in Ttl PROVE TtlDue(table)'
    <3>1. CASE TtlFires(r)
      BY <2>2, <2>5, <2>6, <3>1, Actors DEF TtlFires, Goto, TtlDue
    <3>2. CASE TtlLooks(r)
      BY <2>2, <2>5, <2>6, <3>2, Actors DEF TtlLooks, Goto, TtlDue, ttls
    <3>3. CASE WatchFires(r) \/ WatchLooks(r) \/ IdleFires(r) \/ IdleLooks(r) \/ Rearms(r)
      <4>1. pc'[<<"ttl", table>>] = pc[<<"ttl", table>>] /\ ttlArmed' = ttlArmed
        BY <3>3, Actors
           DEF WatchFires, WatchLooks, IdleFires, IdleLooks, Rearms, Goto, ttls
      <4>. QED
        BY <2>2, <2>5, <2>6, <4>1 DEF TtlDue
    <3>. QED
      BY <1>8, <3>1, <3>2, <3>3 DEF Wakes
  <2>7. ASSUME table \in Tracked PROVE WatchDue(table)'
    <3>1. CASE WatchFires(r)
      BY <2>2, <2>3, <2>5, <2>7, <3>1, Actors DEF WatchFires, Goto, WatchDue
    <3>2. CASE WatchLooks(r)
      BY <2>2, <2>3, <2>5, <2>7, <3>2, Actors DEF WatchLooks, Goto, WatchDue
    <3>3. CASE TtlFires(r) \/ TtlLooks(r) \/ IdleFires(r) \/ IdleLooks(r) \/ Rearms(r)
      <4>1. pc'[<<"watch", table>>] = pc[<<"watch", table>>]
        BY <3>3, Actors
           DEF TtlFires, TtlLooks, IdleFires, IdleLooks, Rearms, Goto
      <4>. QED
        BY <2>2, <2>3, <2>5, <2>7, <4>1 DEF WatchDue
    <3>. QED
      BY <1>8, <3>1, <3>2, <3>3 DEF Wakes
  <2>. QED
    BY <2>6, <2>7
<1>9. ASSUME NEW r \in Reg, Elapses(r)
      PROVE  Due'
  BY <1>9 DEF Elapses, Due, TtlDue, WatchDue, Armed, Owes, tables, ttls
<1>10. CASE UNCHANGED vars
  BY <1>10 DEF Due, TtlDue, WatchDue, Armed, Owes, vars, tables, ttls
<1>. QED
  BY <1>1, <1>2, <1>3, <1>5, <1>6, <1>7, <1>8, <1>9, <1>10, Actors
     DEF Next, Calls, Arms, Hooks, RemoveDeletes, ActorDeletes

\* The half of UndisturbedExpires that needs no fairness: a registration with a
\* deadline or a process to watch, whose hooks have run and were not disturbed, has
\* a timer or a watcher, or somebody who saw its time is up and will remove it by
\* name (armTTL, watchTrackedPID and their closures).
THEOREM ExpiryIsDue == Spec => []Due
<1>1. Init => TypeInv /\ Undisturbed /\ Due
  BY InitType, KindAssumption, NoneAssumption DEF Init, Undisturbed, Due
<1>2. TypeInv /\ Undisturbed /\ Due /\ [Next]_vars => (TypeInv /\ Undisturbed /\ Due)'
  BY NextType, NextUndisturbed, NextDue
<1>. QED
  BY <1>1, <1>2, PTL DEF Spec
=============================================================================
