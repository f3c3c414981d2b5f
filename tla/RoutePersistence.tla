-------------------------- MODULE RoutePersistence --------------------------
(***************************************************************************)
(* routes.json (internal/daemon/persistence.go): every handler that        *)
(* changes a persistent route saves the whole table before it replies, and *)
(* a daemon that starts loads the file before it serves.                   *)
(*                                                                         *)
(* A save is not serialised with other saves.  It lists the table under    *)
(* its lock, writes a temporary file and renames it over routes.json, each *)
(* a step of its own; the daemon may die between any two.  What a route    *)
(* says is one value; fields rewritten in place after the listing are seen *)
(* as if the listing had come later.  A rename is the removal of one name, *)
(* not saved yet, and the addition of the other.                           *)
(***************************************************************************)
EXTENDS Naturals

CONSTANTS
    Name, Val,  \* routes and what they may say
    Fleeting,   \* those of temporary routes, which are not saved
    Worktree,   \* names of worktree routes, whose checkout may vanish
    Writer,     \* handler goroutines
    None,       \* no such route
    Unknown,    \* nothing acknowledged that still stands
    MaxCrash    \* bound on the daemon's deaths

ASSUME ValAssumption == None \notin Val /\ Unknown \notin Val \cup {None}
ASSUME FleetingAssumption == Fleeting \subseteq Val
ASSUME WriterAssumption == None \notin Writer
ASSUME WorktreeAssumption == Worktree \subseteq Name
ASSUME CrashAssumption == MaxCrash \in Nat

VARIABLES
    up,         \* the daemon is serving
    table,      \* the route table
    file,       \* routes.json
    pc, arg,    \* per writer: where it is, the change it makes or will undo
    snap,       \* per writer: the routes it has listed
    last,       \* per name: the writer that changed it last
    acked,      \* per name: the value last acknowledged, if it still stands
    overlapped, \* writers whose save ran while another's did
    alone,      \* names acknowledged by a save that overlapped none
    crashes

saves == <<pc, arg, snap>>
history == <<last, acked, overlapped, alone>>
vars == <<up, table, file, saves, history, crashes>>

Store == [Name -> Val \cup {None}]
KeptStore == [Name -> (Val \ Fleeting) \cup {None}]
Empty == [n \in Name |-> None]

\* Steps of a save between its listing and its rename.
Saving == {"create", "write", "rename"}
Busy == {w \in Writer : pc[w] \in Saving}

TypeOK ==
    /\ up \in BOOLEAN
    /\ table \in Store
    /\ file \in KeptStore
    /\ pc \in [Writer -> Saving \cup {"off", "undo", "list", "reply"}]
    /\ arg \in [Writer -> Name \X (Val \cup {None})]
    /\ snap \in [Writer -> KeptStore]
    /\ last \in [Name -> Writer \cup {None}]
    /\ acked \in [Name -> Val \cup {None, Unknown}]
    /\ overlapped \subseteq Writer
    /\ alone \subseteq Name
    /\ crashes \in Nat

\* A first start: no file yet.
Init ==
    /\ up = TRUE
    /\ table = Empty
    /\ file = Empty
    /\ pc = [w \in Writer |-> "off"]
    /\ arg \in [Writer -> Name \X {None}]
    /\ snap = [w \in Writer |-> Empty]
    /\ last = [n \in Name |-> None]
    /\ acked = [n \in Name |-> Unknown]
    /\ overlapped = {}
    /\ alone = {}
    /\ crashes = 0

Goto(w, from, to) == pc[w] = from /\ pc' = [pc EXCEPT ![w] = to]

\* A change of n makes what was acknowledged about it a thing of the past.
Forgets(n) ==
    /\ acked' = [acked EXCEPT ![n] = Unknown]
    /\ alone' = alone \ {n}

-----------------------------------------------------------------------------
\* No update makes a route temporary that was not.
MayBecome(n, v) == v \in Fleeting => table[n] \in Fleeting

\* A handler that changes a route: register, update, deregister, start, ...
Changes(w, n, v) ==
    /\ up
    /\ Goto(w, "off", "list")
    /\ table[n] # v /\ MayBecome(n, v)
    /\ table' = [table EXCEPT ![n] = v]
    /\ arg' = [arg EXCEPT ![w] = <<n, v>>]
    /\ last' = [last EXCEPT ![n] = w]
    /\ Forgets(n)
    /\ UNCHANGED <<up, file, snap, overlapped, crashes>>

\* What the undoing of an update leaves: what the route said, except that the
\* command of a managed route stays the new one.
Undone(v) == IF v \in Fleeting THEN {v} ELSE Val \ Fleeting

\* handleUpdate changes the table before its callback listener is refused, ...
Tries(w, n, v) ==
    /\ up
    /\ Goto(w, "off", "undo")
    /\ {table[n], v} \subseteq Val /\ table[n] # v /\ MayBecome(n, v)
    /\ table' = [table EXCEPT ![n] = v]
    /\ \E back \in Undone(table[n]) : arg' = [arg EXCEPT ![w] = <<n, back>>]
    /\ last' = [last EXCEPT ![n] = None]
    /\ Forgets(n)
    /\ UNCHANGED <<up, file, snap, overlapped, crashes>>

\* ... then puts the route back, whatever became of it meanwhile, and saves
\* nothing.
RollsBack(w) ==
    LET n == arg[w][1] IN
    /\ Goto(w, "undo", "off")
    /\ table' = [table EXCEPT ![n] = arg[w][2]]
    /\ last' = [last EXCEPT ![n] = None]
    /\ Forgets(n)
    /\ UNCHANGED <<up, file, arg, snap, overlapped, crashes>>

\* A temporary registration is not saved, nor one that failed after it entered
\* the table: either may have replaced a saved one.
ChangesUnsaved(n, v) ==
    /\ up
    /\ table[n] # v
    /\ table' = [table EXCEPT ![n] = v]
    /\ last' = [last EXCEPT ![n] = None]
    /\ Forgets(n)
    /\ UNCHANGED <<up, file, saves, overlapped, crashes>>

-----------------------------------------------------------------------------
\* saveStickyRoutes

\* Defect: temporary routes are listed with the others.
Listed_all(v) == v

\* Of the table, the sticky, managed and bookmark routes.
Listed(v) == IF v \in Fleeting THEN None ELSE v

Lists(w) ==
    /\ Goto(w, "list", "create")
    /\ snap' = [snap EXCEPT ![w] = [n \in Name |-> Listed(table[n])]]
    /\ overlapped' = IF Busy = {} THEN overlapped \ {w}
                     ELSE overlapped \cup Busy \cup {w}
    /\ UNCHANGED <<up, table, file, arg, last, acked, alone, crashes>>

\* Defect: routes.json itself is created and then written.
CreatesTemp_inPlace(w) ==
    /\ Goto(w, "create", "write")
    /\ file' = Empty
    /\ UNCHANGED <<up, table, arg, snap, history, crashes>>

\* os.CreateTemp, in the same directory.
CreatesTemp(w) ==
    /\ Goto(w, "create", "write")
    /\ UNCHANGED <<up, table, file, arg, snap, history, crashes>>

\* Write, Chmod and Close of the temporary file.
WritesTemp(w) ==
    /\ Goto(w, "write", "rename")
    /\ UNCHANGED <<up, table, file, arg, snap, history, crashes>>

Renames(w) ==
    /\ Goto(w, "rename", "reply")
    /\ file' = snap[w]
    /\ snap' = [snap EXCEPT ![w] = Empty]
    /\ UNCHANGED <<up, table, arg, history, crashes>>

\* Any of them fails: the temporary file is removed and routes.json stays as it
\* was.  The handlers drop the error, but nothing is counted as acknowledged.
SaveFails(w) ==
    /\ pc[w] \in Saving
    /\ pc' = [pc EXCEPT ![w] = "off"]
    /\ snap' = [snap EXCEPT ![w] = Empty]
    /\ UNCHANGED <<up, table, file, arg, history, crashes>>

\* The handler replies after a successful save; of a temporary route it has
\* promised nothing.
Replies(w) ==
    LET n == arg[w][1] IN
    /\ Goto(w, "reply", "off")
    /\ IF last[n] = w /\ arg[w][2] \notin Fleeting
         THEN /\ acked' = [acked EXCEPT ![n] = arg[w][2]]
              /\ alone' = IF w \in overlapped THEN alone ELSE alone \cup {n}
         ELSE UNCHANGED <<acked, alone>>
    /\ UNCHANGED <<up, table, file, arg, snap, last, overlapped, crashes>>

-----------------------------------------------------------------------------
\* The daemon dies, and another one loads the file

Dies ==
    /\ up
    /\ crashes < MaxCrash
    /\ crashes' = crashes + 1
    /\ up' = FALSE
    /\ table' = Empty
    /\ pc' = [w \in Writer |-> "off"]
    /\ snap' = [w \in Writer |-> Empty]
    /\ last' = [n \in Name |-> None]
    /\ UNCHANGED <<file, arg, acked, overlapped, alone>>

\* loadStickyRoutes drops worktree routes whose checkout is gone.
Loads ==
    /\ ~up
    /\ up' = TRUE
    /\ \E gone \in SUBSET Worktree :
          /\ table' = [n \in Name |-> IF n \in gone THEN None ELSE file[n]]
          /\ acked' = [n \in Name |-> IF n \in gone THEN Unknown ELSE acked[n]]
          /\ alone' = alone \ gone
    /\ UNCHANGED <<file, saves, last, overlapped, crashes>>

-----------------------------------------------------------------------------
Saves(w) ==
    \/ Lists(w) \/ CreatesTemp(w) \/ WritesTemp(w) \/ Renames(w)
    \/ SaveFails(w) \/ Replies(w)

Next ==
    \/ \E w \in Writer, n \in Name, v \in Val \cup {None} : Changes(w, n, v)
    \/ \E w \in Writer, n \in Name, v \in Val : Tries(w, n, v)
    \/ \E w \in Writer : RollsBack(w)
    \/ \E n \in Name, v \in Fleeting \cup {None} : ChangesUnsaved(n, v)
    \/ \E w \in Writer : Saves(w)
    \/ Dies
    \/ Loads

Spec == Init /\ [][Next]_vars

-----------------------------------------------------------------------------
\* Properties

\* A change whose save was acknowledged and overlapped no other is in
\* routes.json, whatever crashed since (persistence.go, saveStickyRoutes: called
\* after any route change): the exact condition under which unserialised saves
\* keep that promise.
AloneIsDurable == \A n \in alone : file[n] = acked[n]

\* And a daemon that is serving, restarted or not, knows them.
AloneIsServed == up => \A n \in alone : table[n] = acked[n]

\* Both: what was acknowledged alone is kept, on disk and in memory.
AloneIsKept == AloneIsDurable /\ AloneIsServed
=============================================================================
