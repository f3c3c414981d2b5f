----------------------- MODULE RoutePersistenceProofs -----------------------
(***************************************************************************)
(* Theorems about RoutePersistence for any number of writers, routes and   *)
(* crashes.  What makes AloneIsDurable inductive is that nobody can undo a *)
(* settled change: every listing still to be renamed already contains it   *)
(* (Settled), because a save that overlapped none left no older listing    *)
(* behind (Alone, Landed).                                                 *)
(***************************************************************************)
EXTENDS RoutePersistence, TLAPS

\* The writer of n's latest change is still at work on it, and it is to be kept.
Pending(w, n) ==
    /\ pc[w] \notin {"off", "undo"}
    /\ arg[w][1] = n /\ arg[w][2] \notin Fleeting
    /\ last[n] = w

\* A change still at work is what the table says, and is not settled yet.
Latest ==
    \A w \in Writer, n \in Name :
        Pending(w, n) => table[n] = arg[w][2] /\ n \notin alone

\* A save that has overlapped none has the change in its listing.
Alone ==
    \A w \in Writer : (pc[w] \in Saving /\ w \notin overlapped) =>
        /\ Busy = {w}
        /\ \A n \in Name : Pending(w, n) => snap[w][n] = arg[w][2]

\* Once it is renamed, the file and every other listing have the change.
Landed ==
    \A w \in Writer, n \in Name :
        (pc[w] = "reply" /\ w \notin overlapped /\ Pending(w, n)) =>
            /\ file[n] = arg[w][2]
            /\ \A x \in Busy : snap[x][n] = arg[w][2]

\* And so once it is acknowledged, across restarts.
Settled ==
    \A n \in alone :
        /\ acked[n] # Unknown
        /\ file[n] = acked[n]
        /\ up => table[n] = acked[n]
        /\ \A x \in Busy : snap[x][n] = acked[n]

\* A daemon that is down has no handlers.
Down == ~up => \A w \in Writer : pc[w] = "off"

PersistInv == TypeOK /\ Latest /\ Alone /\ Landed /\ Settled /\ Down

\* The actions of Next, one disjunct each.
LEMMA NextCases ==
    ASSUME Next
    PROVE  \/ \E w \in Writer, n \in Name, v \in Val \cup {None} : Changes(w, n, v)
           \/ \E w \in Writer, n \in Name, v \in Val : Tries(w, n, v)
           \/ \E w \in Writer : RollsBack(w)
           \/ \E n \in Name, v \in Fleeting \cup {None} : ChangesUnsaved(n, v)
           \/ \E w \in Writer : Lists(w)
           \/ \E w \in Writer : CreatesTemp(w) \/ WritesTemp(w)
           \/ \E w \in Writer : Renames(w)
           \/ \E w \in Writer : SaveFails(w)
           \/ \E w \in Writer : Replies(w)
           \/ Dies
           \/ Loads
BY DEF Next, Saves

LEMMA NextType == TypeOK /\ [Next]_vars => TypeOK'
<1>. SUFFICES ASSUME TypeOK, [Next]_vars PROVE TypeOK'
  OBVIOUS
<1>. USE DEF TypeOK, Store, KeptStore, Saving
<1>1. ASSUME NEW w \in Writer, NEW n \in Name, NEW v \in Val \cup {None},
             Changes(w, n, v)
      PROVE  TypeOK'
  BY <1>1 DEF Changes, Goto, Forgets
<1>2. ASSUME NEW n \in Name, NEW v \in Fleeting \cup {None}, ChangesUnsaved(n, v)
      PROVE  TypeOK'
  BY <1>2, FleetingAssumption DEF ChangesUnsaved, Forgets, saves
<1>11. ASSUME NEW w \in Writer, NEW n \in Name, NEW v \in Val, Tries(w, n, v)
       PROVE  TypeOK'
  BY <1>11 DEF Tries, Undone, Goto, Forgets
<1>12. ASSUME NEW w \in Writer, RollsBack(w) PROVE TypeOK'
  <2>1. arg[w][1] \in Name /\ arg[w][2] \in Val \cup {None}
    OBVIOUS
  <2>. QED
    BY <1>12, <2>1 DEF RollsBack, Goto, Forgets
<1>3. ASSUME NEW w \in Writer, Lists(w) PROVE TypeOK'
  <2>1. overlapped' \subseteq Writer
    BY <1>3 DEF Lists, Busy
  <2>2. [n \in Name |-> Listed(table[n])] \in KeptStore
    BY DEF Listed
  <2>. QED
    BY <1>3, <2>1, <2>2 DEF Lists, Goto
<1>4. ASSUME NEW w \in Writer, CreatesTemp(w) \/ WritesTemp(w) PROVE TypeOK'
  BY <1>4 DEF CreatesTemp, WritesTemp, Goto, history
<1>5. ASSUME NEW w \in Writer, Renames(w) PROVE TypeOK'
  BY <1>5 DEF Renames, Goto, history, Empty
<1>6. ASSUME NEW w \in Writer, SaveFails(w) PROVE TypeOK'
  BY <1>6 DEF SaveFails, history, Empty
<1>7. ASSUME NEW w \in Writer, Replies(w) PROVE TypeOK'
  <2>1. arg[w][1] \in Name /\ arg[w][2] \in Val \cup {None}
    OBVIOUS
  <2>. QED
    BY <1>7, <2>1 DEF Replies, Goto
<1>8. CASE Dies
  <2>1. table' \in [Name -> Val \cup {None}]
    BY <1>8 DEF Dies, Empty
  <2>2. last' \in [Name -> Writer \cup {None}]
    BY <1>8 DEF Dies
  <2>3. crashes' \in Nat
    <3>1. crashes \in Nat /\ crashes' = crashes + 1
      BY <1>8 DEF Dies
    <3>. QED
      BY <3>1
  <2>4. up' \in BOOLEAN
    BY <1>8 DEF Dies
  <2>5. pc' \in [Writer -> Saving \cup {"off", "list", "reply"}]
    BY <1>8 DEF Dies
  <2>6. snap' \in [Writer -> KeptStore]
    BY <1>8 DEF Dies, Empty
  <2>. QED
    BY <1>8, <2>1, <2>2, <2>3, <2>4, <2>5, <2>6 DEF Dies
<1>9. CASE Loads
  BY <1>9 DEF Loads, saves
<1>10. CASE UNCHANGED vars
  BY <1>10 DEF vars, saves, history
<1>. QED
  BY <1>1, <1>2, <1>3, <1>4, <1>5, <1>6, <1>7, <1>8, <1>9, <1>10,
     <1>11, <1>12, NextCases

LEMMA InitInv == Init => PersistInv
<1>. SUFFICES ASSUME Init PROVE PersistInv
  OBVIOUS
<1>1. TypeOK
  BY DEF Init, TypeOK, Store, KeptStore, Empty, Saving
<1>2. Latest /\ Alone /\ Landed /\ Settled /\ Down
  BY DEF Init, Latest, Alone, Landed, Settled, Down, Pending, Saving
<1>. QED
  BY <1>1, <1>2 DEF PersistInv

-----------------------------------------------------------------------------
\* One lemma per action that can disturb the invariant

\* A change takes its name away from every earlier writer and from alone.
LEMMA ChangesKeeps ==
    ASSUME PersistInv, TypeOK',
           NEW w \in Writer, NEW n \in Name, NEW v \in Val \cup {None},
           Changes(w, n, v)
    PROVE  PersistInv'
<1>. USE DEF PersistInv, Changes, Goto
<1>1. pc' = [pc EXCEPT ![w] = "list"] /\ Busy' = Busy
  BY DEF Busy, Saving, TypeOK
<1>2. \A x \in Writer, m \in Name :
        Pending(x, m)' => (x = w /\ m = n) \/ (x # w /\ m # n /\ Pending(x, m))
  BY DEF Pending, TypeOK
<1>3. alone' = alone \ {n} /\ acked' = [acked EXCEPT ![n] = Unknown]
  BY DEF Forgets
<1>4. Latest'
  <2>. SUFFICES ASSUME NEW x \in Writer, NEW m \in Name, Pending(x, m)'
                PROVE  table'[m] = arg'[x][2] /\ m \notin alone'
    BY DEF Latest
  <2>1. CASE x = w /\ m = n
    BY <1>3, <2>1 DEF TypeOK, Store
  <2>2. CASE x # w /\ m # n /\ Pending(x, m)
    BY <1>3, <2>2 DEF Latest, TypeOK, Store
  <2>. QED
    BY <1>2, <2>1, <2>2
<1>5. Alone'
  BY <1>1, <1>2 DEF Alone, Saving, TypeOK
<1>6. Landed'
  BY <1>1, <1>2 DEF Landed, TypeOK
<1>7. Settled'
  BY <1>1, <1>3 DEF Settled, TypeOK
<1>8. Down'
  BY DEF Down
<1>. QED
  BY <1>4, <1>5, <1>6, <1>7, <1>8

\* A change nobody will save, an update about to be refused and its undoing take
\* their name away from every writer, and touch no save.
LEMMA ForgottenKeeps ==
    ASSUME PersistInv, TypeOK', NEW n \in Name,
           UNCHANGED <<up, file, snap, overlapped>>, Busy' = Busy,
           \A m \in Name \ {n} : table'[m] = table[m],
           last' = [last EXCEPT ![n] = None], Forgets(n),
           \A x \in Writer : \/ pc'[x] = pc[x] /\ arg'[x] = arg[x]
                             \/ pc'[x] \in {"off", "undo"} /\ up
    PROVE  PersistInv'
<1>. USE DEF PersistInv
<1>2. \A x \in Writer, m \in Name :
        Pending(x, m)' => m # n /\ Pending(x, m) /\ pc'[x] = pc[x] /\ arg'[x] = arg[x]
  BY WriterAssumption DEF Pending, TypeOK
<1>3. alone' = alone \ {n} /\ acked' = [acked EXCEPT ![n] = Unknown]
  BY DEF Forgets
<1>4. Latest'
  BY <1>2, <1>3 DEF Latest
<1>5. \A x \in Writer : pc'[x] \in Saving => pc[x] \in Saving
  BY DEF Saving
<1>6. Alone'
  BY <1>2, <1>5 DEF Alone
<1>7. Landed'
  BY <1>2 DEF Landed
<1>8. Settled'
  BY <1>3 DEF Settled, TypeOK
<1>9. Down'
  BY DEF Down
<1>. QED
  BY <1>4, <1>6, <1>7, <1>8, <1>9

LEMMA UnsavedKeeps ==
    ASSUME PersistInv, TypeOK',
           NEW n \in Name, NEW v \in Fleeting \cup {None}, ChangesUnsaved(n, v)
    PROVE  PersistInv'
<1>1. \A m \in Name \ {n} : table'[m] = table[m]
  BY DEF ChangesUnsaved, PersistInv, TypeOK, Store
<1>. QED
  BY <1>1, ForgottenKeeps DEF ChangesUnsaved, saves, Busy

LEMMA TriesKeeps ==
    ASSUME PersistInv, TypeOK',
           NEW w \in Writer, NEW n \in Name, NEW v \in Val, Tries(w, n, v)
    PROVE  PersistInv'
<1>1. \A m \in Name \ {n} : table'[m] = table[m]
  BY DEF Tries, PersistInv, TypeOK, Store
<1>2. /\ pc[w] = "off" /\ pc'[w] = "undo"
      /\ \A x \in Writer \ {w} : pc'[x] = pc[x] /\ arg'[x] = arg[x]
  BY DEF Tries, Goto, PersistInv, TypeOK
<1>3. Busy' = Busy
  BY <1>2 DEF Busy, Saving
<1>. QED
  BY <1>1, <1>2, <1>3, ForgottenKeeps DEF Tries

LEMMA RollsBackKeeps ==
    ASSUME PersistInv, TypeOK', NEW w \in Writer, RollsBack(w)
    PROVE  PersistInv'
<1>. DEFINE n == arg[w][1]
<1>1. n \in Name /\ \A m \in Name \ {n} : table'[m] = table[m]
  BY DEF RollsBack, PersistInv, TypeOK, Store
<1>2. /\ pc[w] = "undo" /\ pc'[w] = "off" /\ arg' = arg
      /\ \A x \in Writer \ {w} : pc'[x] = pc[x]
  BY DEF RollsBack, Goto, PersistInv, TypeOK
<1>3. Busy' = Busy /\ up
  BY <1>2 DEF Busy, Saving, PersistInv, Down
<1>. QED
  BY <1>1, <1>2, <1>3, ForgottenKeeps DEF RollsBack

\* A listing has every latest change; it ends the solitude of the other saves.
LEMMA ListsKeeps ==
    ASSUME PersistInv, TypeOK', NEW w \in Writer, Lists(w)
    PROVE  PersistInv'
<1>. USE DEF PersistInv, Lists, Goto
<1>1. /\ pc[w] = "list" /\ pc' = [pc EXCEPT ![w] = "create"]
      /\ snap' = [snap EXCEPT ![w] = [n \in Name |-> Listed(table[n])]]
      /\ Busy' = Busy \cup {w} /\ w \notin Busy
  BY DEF Busy, Saving, TypeOK
<1>2. up
  BY <1>1 DEF Down
<1>9. /\ \A m \in Name : table[m] \notin Fleeting => snap'[w][m] = table[m]
      /\ \A y \in Writer \ {w} : snap'[y] = snap[y]
  BY <1>1 DEF TypeOK, Listed
<1>3. \A x \in Writer, m \in Name : Pending(x, m)' = Pending(x, m)
  BY <1>1 DEF Pending, TypeOK
<1>4. Latest'
  BY <1>3 DEF Latest
<1>5. Alone'
  <2>. SUFFICES ASSUME NEW x \in Writer, pc'[x] \in Saving, x \notin overlapped'
                PROVE  /\ Busy' = {x}
                       /\ \A m \in Name : Pending(x, m)' => snap'[x][m] = arg'[x][2]
    BY DEF Alone
  <2>1. x = w /\ Busy = {}
    BY <1>1 DEF Busy, Saving, TypeOK
  <2>2. \A m \in Name : Pending(w, m) => table[m] = arg[w][2] /\ table[m] \notin Fleeting
    BY DEF Latest, Pending
  <2>. QED
    BY <1>1, <1>3, <1>9, <2>1, <2>2
<1>6. Landed'
  <2>. SUFFICES ASSUME NEW x \in Writer, NEW m \in Name,
                       pc'[x] = "reply", x \notin overlapped', Pending(x, m)'
                PROVE  /\ file'[m] = arg'[x][2]
                       /\ \A y \in Busy' : snap'[y][m] = arg'[x][2]
    BY DEF Landed
  <2>1. x # w /\ pc[x] = "reply" /\ x \notin overlapped /\ Pending(x, m)
    BY <1>1, <1>3 DEF TypeOK
  <2>2. file[m] = arg[x][2] /\ table[m] = arg[x][2] /\ table[m] \notin Fleeting
    BY <2>1 DEF Landed, Latest, Pending
  <2>3. \A y \in Busy : snap[y][m] = arg[x][2]
    BY <2>1 DEF Landed
  <2>. QED
    BY <1>1, <1>9, <2>2, <2>3 DEF Busy
<1>7. Settled'
  <2>1. \A m \in alone : m \in Name /\ table[m] = acked[m] /\ table[m] \notin Fleeting
    BY <1>2, FleetingAssumption, ValAssumption DEF Settled, TypeOK, KeptStore
  <2>. QED
    BY <1>1, <1>9, <2>1 DEF Settled, Busy
<1>8. Down'
  BY <1>2 DEF Down
<1>. QED
  BY <1>4, <1>5, <1>6, <1>7, <1>8

LEMMA WritesKeeps ==
    ASSUME PersistInv, TypeOK', NEW w \in Writer, CreatesTemp(w) \/ WritesTemp(w)
    PROVE  PersistInv'
<1>. USE DEF PersistInv
<1>1. UNCHANGED <<up, table, file, arg, snap, last, acked, overlapped, alone>>
  BY DEF CreatesTemp, WritesTemp, history
<1>2. \A x \in Writer : /\ pc'[x] \in Saving <=> pc[x] \in Saving
                        /\ pc'[x] = "off" <=> pc[x] = "off"
                        /\ pc'[x] = "undo" <=> pc[x] = "undo"
                        /\ pc'[x] = "reply" <=> pc[x] = "reply"
  BY DEF CreatesTemp, WritesTemp, Goto, Saving, TypeOK
<1>3. Busy' = Busy
  BY <1>2 DEF Busy
<1>4. \A x \in Writer, m \in Name : Pending(x, m)' <=> Pending(x, m)
  BY <1>1, <1>2 DEF Pending
<1>5. Latest'
  BY <1>1, <1>4 DEF Latest
<1>6. Alone'
  BY <1>1, <1>2, <1>3, <1>4 DEF Alone
<1>7. Landed'
  BY <1>1, <1>2, <1>3, <1>4 DEF Landed
<1>8. Settled' /\ Down'
  BY <1>1, <1>2, <1>3 DEF Settled, Down
<1>. QED
  BY <1>5, <1>6, <1>7, <1>8

\* A rename installs a listing that has everything settled.
LEMMA RenamesKeeps ==
    ASSUME PersistInv, TypeOK', NEW w \in Writer, Renames(w)
    PROVE  PersistInv'
<1>. USE DEF PersistInv, Renames, Goto, history
<1>1. /\ pc[w] = "rename" /\ pc' = [pc EXCEPT ![w] = "reply"]
      /\ file' = snap[w] /\ snap' = [snap EXCEPT ![w] = Empty]
      /\ w \in Busy /\ Busy' = Busy \ {w}
      /\ UNCHANGED <<up, table, arg, last, acked, overlapped, alone>>
  BY DEF Busy, Saving, TypeOK
<1>8. \A y \in Busy' : y \in Writer /\ snap'[y] = snap[y]
  BY <1>1 DEF Busy, TypeOK
<1>2. \A x \in Writer, m \in Name : Pending(x, m)' = Pending(x, m)
  BY <1>1 DEF Pending, TypeOK
<1>3. Latest'
  BY <1>2 DEF Latest
<1>4. Alone'
  BY <1>1, <1>2 DEF Alone, Saving, TypeOK
<1>5. Landed'
  <2>. SUFFICES ASSUME NEW x \in Writer, NEW m \in Name,
                       pc'[x] = "reply", x \notin overlapped, Pending(x, m)
                PROVE  /\ file'[m] = arg[x][2]
                       /\ \A y \in Busy' : snap[y][m] = arg[x][2]
    BY <1>1, <1>2, <1>8 DEF Landed
  <2>1. CASE x = w
    <3>1. Busy = {w} /\ snap[w][m] = arg[w][2]
      BY <1>1, <2>1 DEF Alone, Saving
    <3>. QED
      BY <1>1, <2>1, <3>1
  <2>2. CASE x # w
    BY <1>1, <2>2 DEF Landed, TypeOK
  <2>. QED
    BY <2>1, <2>2
<1>6. Settled'
  BY <1>1, <1>8 DEF Settled
<1>7. Down'
  BY <1>1 DEF Down, TypeOK
<1>. QED
  BY <1>3, <1>4, <1>5, <1>6, <1>7

LEMMA FailsKeeps ==
    ASSUME PersistInv, TypeOK', NEW w \in Writer, SaveFails(w)
    PROVE  PersistInv'
<1>. USE DEF PersistInv, SaveFails, history
<1>1. /\ pc' = [pc EXCEPT ![w] = "off"] /\ w \in Busy /\ Busy' = Busy \ {w}
      /\ snap' = [snap EXCEPT ![w] = Empty]
  BY DEF Busy, Saving, TypeOK
<1>2. \A x \in Writer, m \in Name : Pending(x, m)' => Pending(x, m)
  BY <1>1 DEF Pending, TypeOK
<1>3. Latest'
  BY <1>2 DEF Latest
<1>4. Alone'
  BY <1>1, <1>2 DEF Alone, Saving, TypeOK
<1>5. Landed'
  BY <1>1, <1>2 DEF Landed, TypeOK
<1>6. Settled' /\ Down'
  BY <1>1 DEF Settled, Down, TypeOK
<1>. QED
  BY <1>3, <1>4, <1>5, <1>6

\* What is acknowledged alone has landed.
LEMMA RepliesKeeps ==
    ASSUME PersistInv, TypeOK', NEW w \in Writer, Replies(w)
    PROVE  PersistInv'
<1>. DEFINE n == arg[w][1]
<1>. USE DEF PersistInv, Replies, Goto
<1>1. /\ pc[w] = "reply" /\ pc' = [pc EXCEPT ![w] = "off"]
      /\ n \in Name /\ arg[w][2] \in Val \cup {None}
      /\ Busy' = Busy
  BY DEF Busy, Saving, TypeOK
<1>2. \A x \in Writer, m \in Name : Pending(x, m)' => x # w /\ Pending(x, m)
  BY <1>1 DEF Pending, TypeOK
<1>. DEFINE Counts == last[n] = w /\ arg[w][2] \notin Fleeting
<1>3. alone' \subseteq alone \cup {n} /\ (~Counts => alone' = alone /\ acked' = acked)
  OBVIOUS
<1>4. Latest'
  BY <1>1, <1>2, <1>3 DEF Latest, Pending, TypeOK
<1>5. Alone' /\ Landed'
  BY <1>1, <1>2 DEF Alone, Landed, Saving, TypeOK
<1>6. Settled'
  <2>1. CASE ~Counts
    BY <1>1, <1>3, <2>1 DEF Settled
  <2>2. CASE Counts
    <3>1. Pending(w, n) /\ n \notin alone /\ table[n] = arg[w][2]
      BY <1>1, <2>2 DEF Pending, Latest
    <3>2. acked' = [acked EXCEPT ![n] = arg[w][2]]
      BY <2>2
    <3>3. \A m \in alone : m # n /\ m \in Name /\ acked'[m] = acked[m]
      BY <3>1, <3>2 DEF TypeOK
    <3>4. CASE w \in overlapped
      <4>1. alone' = alone
        BY <2>2, <3>4
      <4>. QED
        BY <1>1, <3>3, <4>1 DEF Settled
    <3>5. CASE w \notin overlapped
      <4>1. alone' = alone \cup {n}
        BY <2>2, <3>5
      <4>2. acked'[n] = arg[w][2] /\ acked'[n] # Unknown
        BY <1>1, <3>2, ValAssumption DEF TypeOK
      <4>3. file[n] = arg[w][2] /\ \A x \in Busy : snap[x][n] = arg[w][2]
        BY <1>1, <3>1, <3>5 DEF Landed
      <4>. QED
        BY <1>1, <3>1, <3>3, <4>1, <4>2, <4>3 DEF Settled
    <3>. QED
      BY <3>4, <3>5
  <2>. QED
    BY <2>1, <2>2
<1>7. Down'
  BY <1>1 DEF Down, TypeOK
<1>. QED
  BY <1>4, <1>5, <1>6, <1>7

\* A crash leaves the file; what is loaded again is what is in it.
LEMMA RestartKeeps ==
    ASSUME PersistInv, TypeOK', Dies \/ Loads
    PROVE  PersistInv'
<1>. USE DEF PersistInv
<1>1. CASE Dies
  <2>1. \A x \in Writer : pc'[x] = "off"
    BY <1>1 DEF Dies
  <2>2. Latest' /\ Alone' /\ Landed' /\ Down' /\ Busy' = {}
    BY <2>1 DEF Latest, Alone, Landed, Down, Pending, Busy, Saving
  <2>3. Settled'
    BY <1>1, <2>2 DEF Dies, Settled
  <2>. QED
    BY <2>2, <2>3
<1>2. CASE Loads
  <2>1. pc' = pc /\ ~up /\ \A x \in Writer : pc[x] = "off"
    BY <1>2 DEF Loads, saves, Down
  <2>2. Latest' /\ Alone' /\ Landed' /\ Down' /\ Busy' = {}
    BY <2>1 DEF Latest, Alone, Landed, Down, Pending, Busy, Saving
  <2>3. PICK gone \in SUBSET Worktree :
            /\ table' = [m \in Name |-> IF m \in gone THEN None ELSE file[m]]
            /\ acked' = [m \in Name |-> IF m \in gone THEN Unknown ELSE acked[m]]
            /\ alone' = alone \ gone
            /\ file' = file
    BY <1>2 DEF Loads
  <2>4. \A m \in alone' : m \in Name /\ m \in alone /\ m \notin gone
    BY <2>3 DEF TypeOK
  <2>. QED
    BY <2>2, <2>3, <2>4 DEF Settled
<1>. QED
  BY <1>1, <1>2

LEMMA NextInv == PersistInv /\ [Next]_vars => PersistInv'
<1>. SUFFICES ASSUME PersistInv, [Next]_vars PROVE PersistInv'
  OBVIOUS
<1>1. TypeOK'
  BY NextType DEF PersistInv
<1>2. CASE UNCHANGED vars
  BY <1>2 DEF vars, saves, history, PersistInv, TypeOK, Latest, Alone, Landed,
              Settled, Down, Pending, Busy
<1>. QED
  BY <1>1, <1>2, NextCases, ChangesKeeps, TriesKeeps, RollsBackKeeps, UnsavedKeeps, ListsKeeps, WritesKeeps,
     RenamesKeeps, FailsKeeps, RepliesKeeps, RestartKeeps

LEMMA PersistInvariance == Spec => []PersistInv
BY InitInv, NextInv, PTL DEF Spec

\* Every variable stays in its set.
THEOREM PersistTyping == Spec => []TypeOK
<1>1. PersistInv => TypeOK
  BY DEF PersistInv
<1>. QED
  BY <1>1, PersistInvariance, PTL

\* A change whose save overlapped no other is in routes.json, whatever crashed
\* and whoever saved since, for any number of concurrent handlers
\* (persistence.go, saveStickyRoutes).
THEOREM Durable == Spec => []AloneIsDurable
<1>1. PersistInv => AloneIsDurable
  BY DEF PersistInv, Settled, AloneIsDurable
<1>. QED
  BY <1>1, PersistInvariance, PTL

\* And every daemon that serves, restarted or not, serves it
\* (persistence.go, loadStickyRoutes).
THEOREM Served == Spec => []AloneIsServed
<1>1. PersistInv => AloneIsServed
  BY DEF PersistInv, Settled, AloneIsServed
<1>. QED
  BY <1>1, PersistInvariance, PTL

\* Both together, which is what the run checks: an acknowledged change that was
\* alone is kept, on disk and in memory (persistence.go).
THEOREM Kept == Spec => []AloneIsKept
BY Durable, Served, PTL DEF AloneIsKept
=============================================================================
