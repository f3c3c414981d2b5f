------------------------ MODULE ProcessManagerProofs ------------------------
(***************************************************************************)
(* Theorems about ProcessManager, for every set of names and of pids.      *)
(* PmLinks is what makes the safety properties inductive: it ties the      *)
(* startup state, the goroutine's progress and what the operating system   *)
(* knows of a pid to each other, and every map entry to its name.          *)
(***************************************************************************)
EXTENDS ProcessManager, TLAPS

\* The startup state and the reply of Start move together.
StateLink(p) ==
    /\ state[p] = "stRunning" <=> reply[p] = "ok"
    /\ reply[p] = "error" => state[p] = "stExitedEarly"
    /\ state[p] = "none" <=> waiter[p] = "none"

\* How far the goroutine is bounds the startup state and the process.
WaiterLink(p) ==
    /\ waiter[p] = "waiting" =>
          /\ status[p] \in {"alive", "zombie"}
          /\ state[p] # "stExitedEarly"
    /\ waiter[p] = "reaped" => status[p] = "dead" /\ state[p] # "stExitedEarly"
    /\ waiter[p] = "notify" => status[p] = "dead" /\ state[p] = "stRunning"
    /\ waiter[p] = "done" =>
          /\ status[p] = "dead"
          /\ state[p] = "stExitedEarly" \/ (state[p] = "stRunning" /\ p \in told)
    /\ p \in told => waiter[p] = "done" /\ state[p] = "stRunning"

\* Only a pid that was born has an owner, and only those have a goroutine.
OwnerLink(p) ==
    /\ owner[p] = None <=> status[p] = "unborn"
    /\ status[p] = "unborn" => waiter[p] = "none" /\ p \notin signalled

\* A map entry is a child of its own name.
EntryLink(n) ==
    /\ procs[n] # None => owner[procs[n]] = n
    /\ adopted[n] # None => owner[adopted[n]] = n

PmLinks ==
    /\ \A p \in Pid : StateLink(p) /\ WaiterLink(p) /\ OwnerLink(p)
    /\ \A n \in Name : EntryLink(n)

\* The table keeps the entry of a child until it is reaped or told to go: a
\* zombie's too.
EntryKept ==
    \A p \in Pid :
        (waiter[p] = "waiting" /\ p \notin signalled) => procs[owner[p]] = p

PmInv == PmTypeOK /\ PmLinks /\ EntryKept

LEMMA KeptNotStranded == PmInv => NoStrandedChild
BY DEF PmInv, EntryKept, NoStrandedChild

\* The actions of PmNext, one disjunct each.
LEMMA NextCases ==
    ASSUME PmNext
    PROVE  \/ \E n \in Name : Stop(n)
           \/ \E n \in Name, p \in Pid : StartSpawns(n, p)
           \/ \E n \in Name, p \in Pid : owner[p] = n /\ Adopt(n, p)
           \/ \E p \in Pid : StartCommits(p)
           \/ \E p \in Pid : StartReportsExit(p)
           \/ \E p \in Pid : WaitReaps(p)
           \/ \E p \in Pid : WaitRecords(p)
           \/ \E p \in Pid : WaitNotifies(p)
           \/ \E n \in Name, p \in Pid : WatchSeesExit(n, p)
           \/ \E n \in Name, p \in Pid : WatchNotifies(n, p)
           \/ \E n \in Name, p \in Pid : WatchFails(n, p)
           \/ \E p \in Pid : Exits(p)
           \/ \E p \in Pid : InitReaps(p)
BY DEF PmNext, Calls, Goroutine, Watcher

-----------------------------------------------------------------------------
\* Type correctness

LEMMA InitType == PmInit => PmTypeOK
BY DEF PmInit, PmTypeOK

LEMMA NextType == PmTypeOK /\ [PmNext]_pmVars => PmTypeOK'
<1>. SUFFICES ASSUME PmTypeOK, [PmNext]_pmVars PROVE PmTypeOK'
  OBVIOUS
<1>. USE DEF PmTypeOK
<1>1. ASSUME NEW n \in Name, Stop(n) PROVE PmTypeOK'
  <2>1. signalled' \subseteq Pid
    BY <1>1 DEF Stop, Signal, processAlive
  <2>. QED
    BY <1>1, <2>1 DEF Stop
<1>2. ASSUME NEW n \in Name, NEW p \in Pid, StartSpawns(n, p) PROVE PmTypeOK'
  BY <1>2 DEF StartSpawns
<1>3. ASSUME NEW n \in Name, NEW p \in Pid, Adopt(n, p) PROVE PmTypeOK'
  BY <1>3 DEF Adopt
<1>4. ASSUME NEW p \in Pid, StartCommits(p) PROVE PmTypeOK'
  BY <1>4 DEF StartCommits
<1>5. ASSUME NEW p \in Pid, StartReportsExit(p) PROVE PmTypeOK'
  BY <1>5 DEF StartReportsExit
<1>6. ASSUME NEW p \in Pid, WaitReaps(p) PROVE PmTypeOK'
  BY <1>6 DEF WaitReaps
<1>7. ASSUME NEW p \in Pid, WaitRecords(p) PROVE PmTypeOK'
  <2>1. procs' \in [Name -> Pid \cup {None}]
    BY <1>7 DEF WaitRecords, Forget
  <2>2. state' \in [Pid -> {"none", "stStarting", "stRunning", "stExitedEarly"}]
    BY <1>7 DEF WaitRecords
  <2>3. waiter' \in [Pid -> {"none", "waiting", "reaped", "notify", "done"}]
    BY <1>7 DEF WaitRecords
  <2>. QED
    BY <1>7, <2>1, <2>2, <2>3 DEF WaitRecords
<1>8. ASSUME NEW p \in Pid, WaitNotifies(p) PROVE PmTypeOK'
  BY <1>8 DEF WaitNotifies
<1>9. ASSUME NEW n \in Name, NEW p \in Pid, WatchSeesExit(n, p) PROVE PmTypeOK'
  BY <1>9 DEF WatchSeesExit
<1>10. ASSUME NEW n \in Name, NEW p \in Pid, WatchNotifies(n, p) PROVE PmTypeOK'
  BY <1>10 DEF WatchNotifies
<1>11. ASSUME NEW n \in Name, NEW p \in Pid, WatchFails(n, p) PROVE PmTypeOK'
  BY <1>11 DEF WatchFails
<1>12. ASSUME NEW p \in Pid, Exits(p) PROVE PmTypeOK'
  BY <1>12 DEF Exits
<1>13. ASSUME NEW p \in Pid, InitReaps(p) PROVE PmTypeOK'
  BY <1>13 DEF InitReaps
<1>14. CASE UNCHANGED pmVars
  BY <1>14 DEF pmVars
<1>. QED
  BY <1>1, <1>2, <1>3, <1>4, <1>5, <1>6, <1>7, <1>8, <1>9, <1>10, <1>11,
     <1>12, <1>13, <1>14, NextCases

\* Every reachable state of the process manager is well typed.
THEOREM PmTyping == PmSpec => []PmTypeOK
BY InitType, NextType, PTL DEF PmSpec

-----------------------------------------------------------------------------
\* The links

LEMMA InitLinks == PmInit => PmLinks /\ EntryKept
<1>. SUFFICES ASSUME PmInit PROVE PmLinks /\ EntryKept
  OBVIOUS
<1>. USE NoneAssumption DEF PmInit
<1>1. ASSUME NEW p \in Pid PROVE StateLink(p) /\ WaiterLink(p) /\ OwnerLink(p)
  BY DEF StateLink, WaiterLink, OwnerLink
<1>2. ASSUME NEW n \in Name PROVE EntryLink(n)
  BY DEF EntryLink
<1>. QED
  BY <1>1, <1>2 DEF PmLinks, EntryKept

\* What a step does to one pid: the links of every pid survive every step.
LEMMA PidLinks ==
    ASSUME PmTypeOK, PmLinks, [PmNext]_pmVars, NEW q \in Pid
    PROVE  (StateLink(q) /\ WaiterLink(q) /\ OwnerLink(q))'
<1>. StateLink(q) /\ WaiterLink(q) /\ OwnerLink(q)
  BY DEF PmLinks
<1>. USE NoneAssumption DEF PmTypeOK, StateLink, WaiterLink, OwnerLink
<1>1. ASSUME NEW n \in Name, Stop(n)
      PROVE (StateLink(q) /\ WaiterLink(q) /\ OwnerLink(q))'
  BY <1>1 DEF Stop, Signal, processAlive
<1>2. ASSUME NEW n \in Name, NEW p \in Pid, StartSpawns(n, p)
      PROVE (StateLink(q) /\ WaiterLink(q) /\ OwnerLink(q))'
  BY <1>2 DEF StartSpawns
<1>3. ASSUME NEW n \in Name, NEW p \in Pid, Adopt(n, p)
      PROVE (StateLink(q) /\ WaiterLink(q) /\ OwnerLink(q))'
  BY <1>3 DEF Adopt
<1>4. ASSUME NEW p \in Pid, StartCommits(p)
      PROVE (StateLink(q) /\ WaiterLink(q) /\ OwnerLink(q))'
  BY <1>4 DEF StartCommits
<1>5. ASSUME NEW p \in Pid, StartReportsExit(p)
      PROVE (StateLink(q) /\ WaiterLink(q) /\ OwnerLink(q))'
  BY <1>5 DEF StartReportsExit
<1>6. ASSUME NEW p \in Pid, WaitReaps(p)
      PROVE (StateLink(q) /\ WaiterLink(q) /\ OwnerLink(q))'
  BY <1>6 DEF WaitReaps
<1>7. ASSUME NEW p \in Pid, WaitRecords(p)
      PROVE (StateLink(q) /\ WaiterLink(q) /\ OwnerLink(q))'
  BY <1>7 DEF WaitRecords
<1>8. ASSUME NEW p \in Pid, WaitNotifies(p)
      PROVE (StateLink(q) /\ WaiterLink(q) /\ OwnerLink(q))'
  BY <1>8 DEF WaitNotifies
<1>9. ASSUME NEW n \in Name, NEW p \in Pid, WatchSeesExit(n, p)
      PROVE (StateLink(q) /\ WaiterLink(q) /\ OwnerLink(q))'
  BY <1>9 DEF WatchSeesExit
<1>10. ASSUME NEW n \in Name, NEW p \in Pid, WatchNotifies(n, p)
      PROVE (StateLink(q) /\ WaiterLink(q) /\ OwnerLink(q))'
  BY <1>10 DEF WatchNotifies
<1>11. ASSUME NEW n \in Name, NEW p \in Pid, WatchFails(n, p)
      PROVE (StateLink(q) /\ WaiterLink(q) /\ OwnerLink(q))'
  BY <1>11 DEF WatchFails
<1>12. ASSUME NEW p \in Pid, Exits(p)
      PROVE (StateLink(q) /\ WaiterLink(q) /\ OwnerLink(q))'
  BY <1>12 DEF Exits
<1>13. ASSUME NEW p \in Pid, InitReaps(p)
      PROVE (StateLink(q) /\ WaiterLink(q) /\ OwnerLink(q))'
  BY <1>13 DEF InitReaps
<1>14. CASE UNCHANGED pmVars
  BY <1>14 DEF pmVars
<1>. QED
  BY <1>1, <1>2, <1>3, <1>4, <1>5, <1>6, <1>7, <1>8, <1>9, <1>10, <1>11,
     <1>12, <1>13, <1>14, NextCases

\* A map entry keeps pointing at a child of its own name.  Only Stop, Start,
\* Adopt and the two goroutines write the maps; a spawn only gives an owner
\* to a pid nobody had.
LEMMA NameLinks ==
    ASSUME PmTypeOK, PmLinks, [PmNext]_pmVars, NEW m \in Name
    PROVE  EntryLink(m)'
<1>. EntryLink(m) /\ \A p \in Pid : OwnerLink(p)
  BY DEF PmLinks
<1>. USE NoneAssumption DEF PmTypeOK, EntryLink
<1>1. ASSUME NEW n \in Name, Stop(n) PROVE EntryLink(m)'
  BY <1>1 DEF Stop
<1>2. ASSUME NEW n \in Name, NEW p \in Pid, StartSpawns(n, p)
      PROVE EntryLink(m)'
  BY <1>2 DEF StartSpawns, OwnerLink
<1>3. ASSUME NEW n \in Name, NEW p \in Pid, owner[p] = n, Adopt(n, p)
      PROVE EntryLink(m)'
  BY <1>3 DEF Adopt
<1>4. ASSUME NEW p \in Pid, WaitRecords(p) PROVE EntryLink(m)'
  BY <1>4 DEF WaitRecords, Forget
<1>5. ASSUME NEW n \in Name, NEW p \in Pid, WatchSeesExit(n, p)
      PROVE EntryLink(m)'
  BY <1>5 DEF WatchSeesExit
<1>6. CASE UNCHANGED <<owner, procs, adopted>>
  BY <1>6
<1>. QED
  BY <1>1, <1>2, <1>3, <1>4, <1>5, <1>6, NextCases
     DEF StartCommits, StartReportsExit, WaitReaps, WaitNotifies,
         WatchNotifies, WatchFails, Exits, InitReaps, pmVars

LEMMA NextLinks == PmTypeOK /\ PmLinks /\ [PmNext]_pmVars => PmLinks'
BY PidLinks, NameLinks DEF PmLinks

-----------------------------------------------------------------------------
\* No child is stranded

LEMMA NextKept == PmInv /\ [PmNext]_pmVars => EntryKept'
<1>. SUFFICES ASSUME PmInv, [PmNext]_pmVars, NEW q \in Pid,
                     waiter'[q] = "waiting", q \notin signalled'
              PROVE  procs'[owner'[q]] = q
  BY DEF EntryKept
<1>. /\ PmTypeOK
     /\ StateLink(q) /\ WaiterLink(q) /\ OwnerLink(q)
     /\ (waiter[q] = "waiting" /\ q \notin signalled) => procs[owner[q]] = q
  BY DEF PmInv, PmLinks, EntryKept
<1>. USE NoneAssumption DEF PmTypeOK
<1>1. ASSUME NEW n \in Name, Stop(n) PROVE procs'[owner'[q]] = q
  \* The entry Stop clears is the process it signals.
  <2>1. waiter[q] = "waiting" /\ q \notin signalled
    BY <1>1 DEF Stop, Signal
  <2>2. owner[q] \in Name /\ procs[owner[q]] = q
    BY <2>1 DEF OwnerLink
  <2>3. owner[q] # n
    BY <1>1, <2>1, <2>2 DEF Stop, Signal, processAlive, WaiterLink
  <2>. QED
    BY <1>1, <2>2, <2>3 DEF Stop
<1>2. ASSUME NEW n \in Name, NEW p \in Pid, StartSpawns(n, p)
      PROVE procs'[owner'[q]] = q
  \* Start spawns only when the entry of the name is not alive.
  <2>1. CASE q = p
    BY <1>2, <2>1 DEF StartSpawns
  <2>2. CASE q # p
    <3>1. /\ waiter[q] = "waiting" /\ q \notin signalled
          /\ owner'[q] = owner[q]
      BY <1>2, <2>2 DEF StartSpawns
    <3>2. owner[q] \in Name /\ procs[owner[q]] = q
      BY <3>1 DEF OwnerLink
    <3>3. owner[q] # n
      BY <1>2, <3>1, <3>2 DEF StartSpawns, Current, processAlive, WaiterLink
    <3>. QED
      BY <1>2, <3>1, <3>2, <3>3 DEF StartSpawns
  <2>. QED
    BY <2>1, <2>2
<1>3. ASSUME NEW p \in Pid, WaitRecords(p) PROVE procs'[owner'[q]] = q
  \* The goroutine of p clears the entry only while it is p's own.
  <2>1. /\ waiter[q] = "waiting" /\ q \notin signalled
        /\ owner'[q] = owner[q] /\ q # p
    BY <1>3 DEF WaitRecords
  <2>. QED
    BY <1>3, <2>1 DEF WaitRecords, Forget, OwnerLink
<1>4. CASE /\ UNCHANGED <<owner, procs, signalled>>
           /\ waiter'[q] = "waiting" => waiter[q] = "waiting"
  BY <1>4
<1>5. ASSUME NEW p \in Pid, WaitReaps(p) PROVE procs'[owner'[q]] = q
  BY <1>5, <1>4 DEF WaitReaps
<1>6. ASSUME NEW p \in Pid, WaitNotifies(p) PROVE procs'[owner'[q]] = q
  BY <1>6, <1>4 DEF WaitNotifies
<1>7. ASSUME NEW p \in Pid, Exits(p) \/ InitReaps(p)
      PROVE procs'[owner'[q]] = q
  BY <1>7, <1>4 DEF Exits, InitReaps
<1>8. CASE UNCHANGED <<owner, procs, signalled, waiter, status>>
  BY <1>8, <1>4
<1>. QED
  BY <1>1, <1>2, <1>3, <1>5, <1>6, <1>7, <1>8, NextCases
     DEF StartCommits, StartReportsExit, Adopt, WatchSeesExit, WatchNotifies,
         WatchFails, pmVars

LEMMA PmInvariance == PmSpec => []PmInv
<1>1. PmInit => PmInv
  BY InitType, InitLinks DEF PmInv
<1>2. PmInv /\ [PmNext]_pmVars => PmInv'
  BY NextType, NextLinks, NextKept DEF PmInv
<1>. QED
  BY <1>1, <1>2, PTL DEF PmSpec

\* Whatever the callers do and whenever children exit, a live child that was
\* never signalled stays reachable under the name it was spawned for.
THEOREM Reachable == PmSpec => []NoStrandedChild
BY KeptNotStranded, PmInvariance, PTL

\* The StartError and the exit handler are never both given, and a child whose
\* Start succeeded never dies unreported.
THEOREM Verdicts == PmSpec => []OneVerdict
<1>1. PmInv => OneVerdict
  BY DEF PmInv, PmLinks, StateLink, WaiterLink, OneVerdict
<1>. QED
  BY <1>1, PmInvariance, PTL

-----------------------------------------------------------------------------
\* The process manager implements ChildSupervision

LEMMA InitSupervised == PmInit => Supervision!Init
<1>. SUFFICES ASSUME PmInit PROVE Supervision!Init
  OBVIOUS
<1>1. {p \in Pid : waiter[p] # "none"} = {}
  BY DEF PmInit
<1>2. \A n \in Name : Serving(n) = {}
  BY DEF PmInit, Serving
<1>3. \A p \in Pid : Verdict(p) = "none"
  BY DEF PmInit, Verdict
<1>. QED
  BY <1>1, <1>2, <1>3 DEF Supervision!Init

\* The abstract state of a step that touches none of its ingredients.
LEMMA SameSupervision ==
    ASSUME \A p \in Pid : (waiter'[p] = "none") = (waiter[p] = "none"),
           \A n \in Name : Serving(n)' = Serving(n),
           \A p \in Pid : Verdict(p)' = Verdict(p)
    PROVE  UNCHANGED Supervision!supVars
BY DEF Supervision!supVars

\* A child that stops being served, by Stop or by its own exit.
LEMMA EndsOrStutters ==
    ASSUME PmTypeOK, NEW m \in Name, NEW q \in Pid,
           \A n \in Name : Serving(n)' = Serving(n) \ {q},
           \A n \in Name : q \in Serving(n) => n = m,
           \A p \in Pid : (waiter'[p] = "none") = (waiter[p] = "none"),
           \A p \in Pid : Verdict(p)' = Verdict(p)
    PROVE  Supervision!Ends(m, q) \/ UNCHANGED Supervision!supVars
<1>1. CASE q \in Serving(m)
  <2>0. ASSUME NEW n \in Name, n # m PROVE Serving(n)' = Serving(n)
    <3>1. q \notin Serving(n)
      BY <2>0
    <3>. QED
      BY <3>1
  <2>1. [n \in Name |-> Serving(n)]'
          = [[n \in Name |-> Serving(n)] EXCEPT ![m] = @ \ {q}]
    BY <2>0
  <2>. QED
    BY <1>1, <2>1 DEF Supervision!Ends
<1>2. CASE q \notin Serving(m)
  <2>1. \A n \in Name : Serving(n)' = Serving(n)
    BY <1>2
  <2>. QED
    BY <2>1, SameSupervision
<1>. QED
  BY <1>1, <1>2

LEMMA StepSupervised ==
    PmInv /\ [PmNext]_pmVars => [Supervision!Next]_Supervision!supVars
<1>. SUFFICES ASSUME PmInv, [PmNext]_pmVars
              PROVE  Supervision!Next \/ UNCHANGED Supervision!supVars
  OBVIOUS
<1>. /\ PmTypeOK
     /\ NoStrandedChild
     /\ \A p \in Pid : StateLink(p) /\ WaiterLink(p) /\ OwnerLink(p)
     /\ \A n \in Name : EntryLink(n)
  BY KeptNotStranded DEF PmInv, PmLinks
<1>. USE NoneAssumption DEF PmTypeOK
<1>1. ASSUME NEW n \in Name, Stop(n)
      PROVE  Supervision!Next \/ UNCHANGED Supervision!supVars
  <2>. DEFINE q == IF procs[n] # None THEN procs[n] ELSE adopted[n]
  <2>1. q \in Pid /\ owner[q] = n
    BY <1>1 DEF Stop, StopFinds, EntryLink
  <2>2. \A m \in Name : Serving(m)' = Serving(m) \ {q}
    BY <1>1, <2>1 DEF Stop, Signal, processAlive, Serving
  <2>3. \A m \in Name : q \in Serving(m) => m = n
    BY <2>1 DEF Serving
  <2>4. \A p \in Pid : Verdict(p)' = Verdict(p)
    BY <1>1 DEF Stop, Verdict
  <2>5. \A p \in Pid : (waiter'[p] = "none") = (waiter[p] = "none")
    BY <1>1 DEF Stop
  <2>. HIDE DEF q
  <2>. QED
    BY <2>1, <2>2, <2>3, <2>4, <2>5, EndsOrStutters DEF Supervision!Next
<1>2. ASSUME NEW n \in Name, NEW p \in Pid, StartSpawns(n, p)
      PROVE  Supervision!Launch(n, p)
  \* A child still serving n would be n's live entry, and Start would join it.
  <2>1. Serving(n) = {}
    BY <1>2 DEF Serving, NoStrandedChild, StartSpawns, Current, processAlive
  <2>2. status[p] = "unborn" /\ waiter[p] = "none" /\ p \notin signalled
    BY <1>2 DEF StartSpawns, OwnerLink
  <2>3. {r \in Pid : waiter[r] # "none"}'
          = {r \in Pid : waiter[r] # "none"} \cup {p}
    BY <1>2 DEF StartSpawns
  <2>4. Serving(n)' = {p}
    BY <1>2, <2>1, <2>2 DEF StartSpawns, Serving
  <2>5. \A m \in Name \ {n} : Serving(m)' = Serving(m)
    BY <1>2, <2>2 DEF StartSpawns, Serving
  <2>6. [m \in Name |-> Serving(m)]'
          = [[m \in Name |-> Serving(m)] EXCEPT ![n] = {p}]
    BY <2>4, <2>5
  <2>7. [r \in Pid |-> Verdict(r)]' = [r \in Pid |-> Verdict(r)]
    BY <1>2 DEF StartSpawns, Verdict
  <2>. QED
    BY <2>1, <2>2, <2>3, <2>6, <2>7 DEF Supervision!Launch
<1>3. ASSUME NEW p \in Pid, StartCommits(p)
      PROVE  Supervision!Running(p)
  <2>1. waiter[p] # "none" /\ p \notin told /\ Verdict(p) = "none"
    BY <1>3 DEF StartCommits, StateLink, WaiterLink, Verdict
  <2>2. [r \in Pid |-> Verdict(r)]'
          = [[r \in Pid |-> Verdict(r)] EXCEPT ![p] = "running"]
    BY <1>3, <2>1 DEF StartCommits, Verdict
  <2>3. /\ {r \in Pid : waiter[r] # "none"}' = {r \in Pid : waiter[r] # "none"}
        /\ [m \in Name |-> Serving(m)]' = [m \in Name |-> Serving(m)]
    BY <1>3 DEF StartCommits, Serving
  <2>. QED
    BY <2>1, <2>2, <2>3 DEF Supervision!Running
<1>4. ASSUME NEW p \in Pid, StartReportsExit(p)
      PROVE  Supervision!Failed(p)
  <2>1. /\ waiter[p] = "done" /\ p \notin told /\ Verdict(p) = "none"
        /\ \A m \in Name : p \notin Serving(m)
    BY <1>4 DEF StartReportsExit, StateLink, WaiterLink, Verdict, Serving
  <2>2. [r \in Pid |-> Verdict(r)]'
          = [[r \in Pid |-> Verdict(r)] EXCEPT ![p] = "failed"]
    BY <1>4, <2>1 DEF StartReportsExit, Verdict
  <2>3. /\ {r \in Pid : waiter[r] # "none"}' = {r \in Pid : waiter[r] # "none"}
        /\ [m \in Name |-> Serving(m)]' = [m \in Name |-> Serving(m)]
    BY <1>4 DEF StartReportsExit, Serving
  <2>. QED
    BY <2>1, <2>2, <2>3 DEF Supervision!Failed, Supervision!Served
<1>5. ASSUME NEW p \in Pid, WaitNotifies(p)
      PROVE  Supervision!Exited(p)
  <2>1. /\ reply[p] = "ok" /\ p \notin told /\ Verdict(p) = "running"
        /\ \A m \in Name : p \notin Serving(m)
    BY <1>5 DEF WaitNotifies, StateLink, WaiterLink, Verdict, Serving
  <2>2. [r \in Pid |-> Verdict(r)]'
          = [[r \in Pid |-> Verdict(r)] EXCEPT ![p] = "exited"]
    BY <1>5, <2>1 DEF WaitNotifies, Verdict
  <2>3. /\ {r \in Pid : waiter[r] # "none"}' = {r \in Pid : waiter[r] # "none"}
        /\ [m \in Name |-> Serving(m)]' = [m \in Name |-> Serving(m)]
    BY <1>5 DEF WaitNotifies, Serving
  <2>. QED
    BY <2>1, <2>2, <2>3 DEF Supervision!Exited, Supervision!Served
<1>6. ASSUME NEW p \in Pid, Exits(p)
      PROVE  Supervision!Next \/ UNCHANGED Supervision!supVars
  <2>1. owner[p] \in Name
    BY <1>6 DEF Exits, OwnerLink
  <2>2. \A m \in Name : Serving(m)' = Serving(m) \ {p}
    BY <1>6 DEF Exits, Serving
  <2>3. \A m \in Name : p \in Serving(m) => m = owner[p]
    BY DEF Serving
  <2>4. \A r \in Pid : Verdict(r)' = Verdict(r)
    BY <1>6 DEF Exits, Verdict
  <2>5. \A r \in Pid : (waiter'[r] = "none") = (waiter[r] = "none")
    BY <1>6 DEF Exits
  <2>. QED
    BY <2>1, <2>2, <2>3, <2>4, <2>5, EndsOrStutters DEF Supervision!Next
<1>7. ASSUME NEW p \in Pid, WaitReaps(p) \/ WaitRecords(p) \/ InitReaps(p)
      PROVE  UNCHANGED Supervision!supVars
  <2>1. \A r \in Pid : (waiter'[r] = "none") = (waiter[r] = "none")
    BY <1>7 DEF WaitReaps, WaitRecords, InitReaps
  <2>2. \A m \in Name : Serving(m)' = Serving(m)
    BY <1>7 DEF WaitReaps, WaitRecords, InitReaps, Serving
  <2>3. \A r \in Pid : Verdict(r)' = Verdict(r)
    BY <1>7 DEF WaitReaps, WaitRecords, InitReaps, Verdict
  <2>. QED
    BY <2>1, <2>2, <2>3, SameSupervision
<1>8. CASE UNCHANGED <<status, signalled, owner, waiter, reply, told>>
  <2>1. \A m \in Name : Serving(m)' = Serving(m)
    BY <1>8 DEF Serving
  <2>2. \A r \in Pid : Verdict(r)' = Verdict(r)
    BY <1>8 DEF Verdict
  <2>. QED
    BY <1>8, <2>1, <2>2, SameSupervision
<1>. QED
  BY <1>1, <1>2, <1>3, <1>4, <1>5, <1>6, <1>7, <1>8, NextCases
     DEF Adopt, WatchSeesExit, WatchNotifies, WatchFails, pmVars,
         Supervision!Next

\* The maps and goroutines of ProcessManager keep the promise of
\* ChildSupervision: one serving child per name, one true verdict per child.
THEOREM Implements == PmSpec => Supervised
<1>. USE DEF Supervised, Supervision!Spec
<1>. QED
  BY InitSupervised, StepSupervised, PmInvariance, PTL DEF PmSpec
=============================================================================
