----------------------------- MODULE PortClaims -----------------------------
(***************************************************************************)
(* The ports that routes claim (internal/daemon/api.go, autostart.go,      *)
(* sync_config.go, daemon.go findFreePort) and the listeners the daemon    *)
(* opens on their OAuth callback ports (oauth_bridge.go).                  *)
(*                                                                         *)
(* Every call lists the table, decides, and writes later; nothing spans    *)
(* the two but, for the listeners alone, oauthBridgeMu.  A step is one of  *)
(* these reads with what it decides, or one of the writes.  Calls in       *)
(* flight are about different names: what two calls on one name do to each *)
(* other is the subject of ManagedRoute and RouteTimers.                   *)
(*                                                                         *)
(* Port 0 is the source's "none".  A route reserves at most one port, and  *)
(* a worktree's parent names exactly one.  A server listens on its primary *)
(* port only; who else wants a port is a Stranger.                         *)
(***************************************************************************)
EXTENDS Naturals, FiniteSets

CONSTANTS
    Name,
    Port,       \* the ports of this instance
    Range,      \* those findFreePort tries: 3000-3999
    Contested,  \* those a process vibe did not start may bind
    Roamed,     \* those a server may move to by itself
    Asked,      \* the routes that clients may ask for: [type, port, oauth, reserve]
    Client,     \* goroutines that serve calls
    Nobody, Stranger, Bridge, None

ASSUME PortAssumption ==
    Port \subseteq Nat \ {0} /\ Range \cup Contested \cup Roamed \subseteq Port
ASSUME NobodyAssumption ==
    /\ {Nobody, Stranger, Bridge, None} \cap Name = {}
    /\ Nobody \notin {Stranger, Bridge} /\ Stranger # Bridge

Claim == [type : {"managed", "worktree", "sticky", "ttl"},
          port : Port \cup {0}, oauth : Port \cup {0}, reserve : Port \cup {0}]

ASSUME AskedAssumption ==
    /\ Asked \subseteq Claim
    /\ \A r \in Asked :
          /\ r.type = "worktree" => r.port = 0 /\ r.oauth = 0 /\ r.reserve = 0
          /\ r.type \in {"sticky", "ttl"} => r.port # 0 /\ r.reserve = 0

ASSUME NoneAssumption == None \notin Claim

VARIABLES
    table,      \* what each route claims, None if it is not registered
    listening,  \* who listens on each port
    pc, call,   \* per client: where it is, and the call it serves
    overlapped, \* clients whose call another call or removal overlapped
    sole,       \* routes whose claims were last checked by a call on its own
    refused,    \* routes left by a call that was refused
    matched     \* the last reconciliation succeeded on its own, and no route
                \* with a callback port went away without one

ghosts == <<overlapped, sole, refused, matched>>
vars == <<table, listening, pc, call, ghosts>>

\* asked: what the call puts in the table; saved: what it goes back to; ports:
\* what findFreePort returned, or the wanted set of a reconciliation.
Call == [op : {"none", "register", "adopt", "start", "deregister", "update",
               "repair"},
         name : Name \cup {None}, to : Name \cup {None},
         asked : Claim \cup {None}, saved : Claim \cup {None},
         ports : SUBSET Port]

NoCall == [op |-> "none", name |-> None, to |-> None, asked |-> None,
           saved |-> None, ports |-> {}]

TypeOK ==
    /\ table \in [Name -> Claim \cup {None}]
    /\ listening \in [Port -> Name \cup {Nobody, Stranger, Bridge}]
    /\ pc \in [Client -> {"off", "add", "port", "storePort", "reserve",
                          "storeReserve", "check", "launch", "validate",
                          "unlist", "relist", "wants", "applies", "repair"}]
    /\ call \in [Client -> Call]
    /\ overlapped \subseteq Client
    /\ sole \subseteq Name
    /\ refused \subseteq Name
    /\ matched \in BOOLEAN

Init ==
    /\ table = [n \in Name |-> None]
    /\ listening = [p \in Port |-> Nobody]
    /\ pc = [c \in Client |-> "off"]
    /\ call = [c \in Client |-> NoCall]
    /\ overlapped = {}
    /\ sole = {}
    /\ refused = {}
    /\ matched = TRUE

-----------------------------------------------------------------------------
\* What a call reads off the table

Listed == {n \in Name : table[n] # None}
Others(n) == Listed \ {n}
Held(r) == {r.port, r.oauth, r.reserve} \ {0}
Bound(r) == {r.port, r.reserve} \ {0}
Managed(r) == r.type \in {"managed", "worktree"}
Serves(n) == \E p \in Port : listening[p] = n

vibePortClaim(n, p) == p # 0 /\ \E m \in Others(n) : p \in Held(table[m])

\* Defect: a callback port two routes share is not noticed.
validateOAuthBridgeConfig_unshared(n, r) == r.oauth # r.port

validateOAuthBridgeConfig(n, r) ==
    r.oauth # r.port /\ \A m \in Others(n) : table[m].oauth # r.oauth

validateReservePorts(r) == r.reserve # 0 => r.reserve \notin {r.port, r.oauth}

\* What register and sync require of the claims r of the route n.
Acceptable(n, r) ==
    /\ r.oauth # 0 => validateOAuthBridgeConfig(n, r)
    /\ validateReservePorts(r)
    /\ ~vibePortClaim(n, r.reserve)

checkVibePortCollisions(n) ==
    \E p \in Bound(table[n]) : vibePortClaim(n, p)

\* Defect: only ports somebody listens on count as taken.
findFreePort_unclaimed ==
    LET free == {p \in Range : listening[p] = Nobody}
    IN IF free # {} THEN {p \in free : \A q \in free : p <= q}
       ELSE {p \in Port \ Range : listening[p] = Nobody}

\* The lowest port of the range that no route claims and nobody listens on;
\* else any port the OS has free, claimed or not.  Empty: an error.
findFreePort ==
    LET free == {p \in Range \ UNION {Held(table[n]) : n \in Listed} :
                    listening[p] = Nobody}
    IN IF free # {} THEN {p \in free : \A q \in free : p <= q}
       ELSE {p \in Port \ Range : listening[p] = Nobody}

-----------------------------------------------------------------------------
\* Calls

Busy == {c \in Client : pc[c] # "off"}
Named(k) == {k.name, k.to} \ {None}
Free(n) == \A c \in Busy : n \notin Named(call[c])

Begins(c, k, at) ==
    /\ pc[c] = "off"
    /\ Free(k.name) /\ Free(k.to)
    /\ pc' = [pc EXCEPT ![c] = at]
    /\ call' = [call EXCEPT ![c] = k]
    /\ overlapped' = IF Busy = {} THEN overlapped
                     ELSE overlapped \cup Busy \cup {c}

Goto(c, from, to) == pc[c] = from /\ pc' = [pc EXCEPT ![c] = to]

Ends(c) ==
    /\ pc' = [pc EXCEPT ![c] = "off"]
    /\ call' = [call EXCEPT ![c] = NoCall]
    /\ overlapped' = overlapped \ {c}

\* A write to the claims of n: of the ports it binds, or of anything.
Rewrites(n, r) ==
    /\ table' = [table EXCEPT ![n] = r]
    /\ sole' = sole \ {n}

Writes(n, r) == Rewrites(n, r) /\ refused' = refused \ {n}

\* The call has done all its checks alone, so the route's claims are its own.
Accepts(c, n) == sole' = IF c \in overlapped THEN sole \ {n} ELSE sole \cup {n}

Kills(n) == [p \in Port |-> IF listening[p] = n THEN Nobody ELSE listening[p]]

\* The call is refused: a registration is taken out of the table again, any
\* other one leaves the table as it is.
Refuses(c) ==
    LET n == call[c].name IN
    /\ Ends(c)
    /\ IF call[c].op \in {"register", "adopt"}
         THEN Writes(n, None)
         ELSE UNCHANGED <<table, sole, refused>>
    /\ matched' = (matched /\ call[c].op # "register")
    /\ UNCHANGED listening

-----------------------------------------------------------------------------
\* handleRegister, and handleAdoptWorktree

RegisterChecks(c, n, r) ==
    /\ Begins(c, [NoCall EXCEPT !.op = "register", !.name = n, !.asked = r], "add")
    /\ Acceptable(n, r) /\ ~vibePortClaim(n, r.port)
    /\ n \in Listed /\ Managed(table[n]) => ~Serves(n)
    /\ UNCHANGED <<table, listening, sole, refused, matched>>

\* RouteTable.Add: a route of that name that is not running is replaced.
Adds(c) ==
    LET n == call[c].name  r == call[c].asked IN
    /\ Goto(c, "add", IF call[c].op = "adopt" THEN "reserve"
                      ELSE IF ~Managed(r) THEN "wants"
                      ELSE IF r.port = 0 THEN "port" ELSE "launch")
    /\ Writes(n, r)
    /\ call' = [call EXCEPT ![c].asked = None]
    /\ UNCHANGED <<listening, overlapped, matched>>

\* A discovered checkout becomes a route of its own; its parent is a route
\* outside this instance.
AdoptDiscovers(c, n, r) ==
    /\ r.type = "worktree"
    /\ n \notin Listed
    /\ Begins(c, [NoCall EXCEPT !.op = "adopt", !.name = n, !.asked = r], "add")
    /\ UNCHANGED <<table, listening, sole, refused, matched>>

\* findFreePort for the primary port, or for a worktree's reserve port ...
FindsFree(c) ==
    /\ \/ Goto(c, "port", "storePort")
       \/ Goto(c, "reserve", "storeReserve")
    /\ findFreePort # {}
    /\ \E p \in findFreePort : call' = [call EXCEPT ![c].ports = {p}]
    /\ UNCHANGED <<table, listening, ghosts>>

FindsNone(c) ==
    /\ pc[c] \in {"port", "reserve"}
    /\ findFreePort = {}
    /\ Refuses(c)

\* ... and the stores of what it returned.
StoresPort(c) ==
    LET n == call[c].name IN
    /\ Goto(c, "storePort",
            CASE call[c].op # "register" -> "check"
              [] call[c].op = "register" /\ table[n].type = "worktree" -> "reserve"
              [] OTHER -> "launch")
    /\ \E p \in call[c].ports : Rewrites(n, [table[n] EXCEPT !.port = p])
    /\ call' = [call EXCEPT ![c].ports = {}]
    /\ UNCHANGED <<listening, overlapped, refused, matched>>

StoresReserve(c) ==
    LET n == call[c].name IN
    /\ Goto(c, "storeReserve", IF call[c].op = "adopt" THEN "port" ELSE "launch")
    /\ \E p \in call[c].ports : Rewrites(n, [table[n] EXCEPT !.reserve = p])
    /\ call' = [call EXCEPT ![c].ports = {}]
    /\ UNCHANGED <<listening, overlapped, refused, matched>>

\* The two start paths check the claims once more.
Checks(c) ==
    /\ Goto(c, "check", "launch")
    /\ ~checkVibePortCollisions(call[c].name)
    /\ UNCHANGED <<table, listening, call, ghosts>>

ChecksFail(c) ==
    /\ pc[c] = "check"
    /\ checkVibePortCollisions(call[c].name)
    /\ Refuses(c)

\* preflightPort clears strangers off the ports the command will bind, passes
\* over the daemon and its children, and the child binds the primary port.
Launches(c) ==
    LET n == call[c].name  r == table[n] IN
    /\ pc[c] = "launch"
    /\ listening[r.port] \in {Nobody, Stranger}
    /\ listening' = [p \in Port |->
          IF p = r.port THEN n
          ELSE IF p = r.reserve /\ listening[p] = Stranger THEN Nobody
          ELSE listening[p]]
    /\ IF call[c].op = "register"
         THEN Goto(c, "launch", "wants") /\ UNCHANGED <<call, overlapped, sole>>
         ELSE Ends(c) /\ Accepts(c, n)
    /\ UNCHANGED <<table, refused, matched>>

\* A stranger that survives the signal, or a command that exits: its port is
\* taken by the daemon or another route's server, or it has its own reasons.
LaunchFails(c) ==
    /\ pc[c] = "launch"
    /\ Refuses(c)

-----------------------------------------------------------------------------
\* handleStart

\* No vibe.json, or one that says what the route already claims.
StartBegins(c, n) ==
    /\ n \in Listed /\ Managed(table[n]) /\ ~Serves(n)
    /\ Begins(c, [NoCall EXCEPT !.op = "start", !.name = n],
              IF table[n].port = 0 THEN "port" ELSE "check")
    /\ UNCHANGED <<table, listening, sole, refused, matched>>

\* syncRouteFromVibeJSON: an acceptable edit is written to the route before
\* the listeners are reconciled.
StartSyncs(c, n, r) ==
    /\ n \in Listed /\ table[n].type = "managed" /\ ~Serves(n)
    /\ LET edit == [table[n] EXCEPT !.oauth = r.oauth, !.reserve = r.reserve] IN
         /\ edit # table[n]
         /\ Acceptable(n, edit)
         /\ Begins(c, [NoCall EXCEPT !.op = "start", !.name = n,
                         !.saved = table[n]], "wants")
         /\ Writes(n, edit)
    /\ UNCHANGED <<listening, matched>>

-----------------------------------------------------------------------------
\* handleDeregister

Deregisters(c, n) ==
    /\ n \in Listed
    /\ Begins(c, [NoCall EXCEPT !.op = "deregister", !.name = n], "wants")
    /\ Writes(n, None)
    /\ listening' = Kills(n)
    /\ UNCHANGED matched

-----------------------------------------------------------------------------
\* handleUpdate: the route is edited in place, then the edit is validated

UpdateEdits(c, n, m, r) ==
    /\ n \in Listed
    /\ m # n => m \notin Listed /\ ~Serves(n) /\ table[n].type # "worktree"
    /\ table[n].type = "worktree" => r.oauth = 0
    /\ LET edit == [table[n] EXCEPT !.port = IF r.port = 0 THEN @ ELSE r.port,
                                    !.oauth = r.oauth] IN
         /\ Begins(c, [NoCall EXCEPT !.op = "update", !.name = n, !.to = m,
                         !.asked = edit, !.saved = table[n]], "validate")
         /\ Writes(n, edit)
    /\ UNCHANGED <<listening, matched>>

UpdateValidates(c) ==
    LET n == call[c].name  r == table[n] IN
    /\ Goto(c, "validate", IF call[c].to = n THEN "wants" ELSE "unlist")
    /\ r.oauth # 0 => validateOAuthBridgeConfig(n, r)
    /\ UNCHANGED <<table, listening, call, ghosts>>

UpdateRollsBack(c) ==
    LET n == call[c].name  r == table[n] IN
    /\ pc[c] = "validate"
    /\ r.oauth # 0 /\ ~validateOAuthBridgeConfig(n, r)
    /\ Ends(c)
    /\ Rewrites(n, call[c].saved)
    /\ refused' = refused \cup {n}
    /\ UNCHANGED <<listening, matched>>

\* A rename takes the old name out of the table before it adds the new one.
Unlists(c) ==
    /\ Goto(c, "unlist", "relist")
    /\ Writes(call[c].name, None)
    /\ UNCHANGED <<listening, call, overlapped, matched>>

Relists(c) ==
    /\ Goto(c, "relist", "wants")
    /\ Writes(call[c].to, call[c].asked)
    /\ UNCHANGED <<listening, call, overlapped, matched>>

-----------------------------------------------------------------------------
\* reconcileOAuthBridgeListeners, called last by register, deregister, update
\* and sync

Conflict == \E n \in Listed : table[n].oauth # 0
                              /\ ~validateOAuthBridgeConfig(n, table[n])

\* It lists the callback ports the table asks for ...
Wants(c) ==
    /\ Goto(c, "wants", "applies")
    /\ ~Conflict
    /\ call' = [call EXCEPT ![c].ports = {table[n].oauth : n \in Listed} \ {0}]
    /\ UNCHANGED <<table, listening, ghosts>>

\* Defect: listeners nobody wants stay open.
Closed_none(wanted) == listening

\* ... and then, holding oauthBridgeMu, closes the listeners not wanted and
\* opens those missing.
Closed(wanted) == [p \in Port |-> IF listening[p] = Bridge /\ p \notin wanted
                                    THEN Nobody ELSE listening[p]]

Open(from, ports) == [p \in Port |-> IF p \in ports THEN Bridge ELSE from[p]]

Succeeds(c) ==
    LET n == call[c].name IN
    CASE call[c].op = "register" -> Ends(c) /\ Accepts(c, n)
      [] call[c].op = "start" ->
            /\ Goto(c, "applies", IF table[n].port = 0 THEN "port" ELSE "check")
            /\ call' = [call EXCEPT ![c].ports = {}, ![c].saved = None]
            /\ UNCHANGED <<overlapped, sole>>
      [] OTHER -> Ends(c) /\ UNCHANGED sole

Applies(c) ==
    LET wanted == call[c].ports  closed == Closed(wanted) IN
    /\ pc[c] = "applies"
    /\ \A p \in wanted : closed[p] \in {Nobody, Bridge}
    /\ listening' = Open(closed, wanted)
    /\ Succeeds(c)
    /\ matched' = (c \notin overlapped)
    /\ UNCHANGED <<table, refused>>

\* What a caller does with an error: register removes the route, update goes
\* back to the old one, deregister reports success, and sync refuses the start
\* but keeps the edit.
GivesUp(c, from) ==
    LET n == call[c].name  m == call[c].to  k == call[c].op IN
    /\ Ends(c)
    /\ matched' = FALSE
    /\ CASE k = "register" ->
              Writes(n, None)
              /\ listening' = [p \in Port |-> IF from[p] = n THEN Nobody ELSE from[p]]
         [] k = "update" ->
              /\ table' = IF m = n THEN [table EXCEPT ![n] = call[c].saved]
                          ELSE [table EXCEPT ![m] = None, ![n] = call[c].saved]
              /\ sole' = sole \ {n, m}
              /\ refused' = refused \cup {n}
              /\ listening' = from
         [] k = "start" ->
              /\ refused' = refused \cup {n}
              /\ listening' = from
              /\ UNCHANGED <<table, sole>>
         [] OTHER -> listening' = from /\ UNCHANGED <<table, sole, refused>>

WantsFail(c) ==
    /\ pc[c] = "wants"
    /\ Conflict
    /\ GivesUp(c, listening)

\* One of the ports is taken; the map's order decides which of the others were
\* opened before it.
AppliesFail(c) ==
    LET wanted == call[c].ports  closed == Closed(wanted)
        able == {p \in wanted : closed[p] = Nobody} IN
    /\ pc[c] = "applies"
    /\ \E p \in wanted : closed[p] \notin {Nobody, Bridge}
    /\ \E opened \in SUBSET able : GivesUp(c, Open(closed, opened))

-----------------------------------------------------------------------------
\* handleRepair

\* The route's port is dark, or somebody else's, and its own server (or, if it
\* has none, a listener its log names) is found on a port no other route has
\* as its primary one.
RepairFinds(c, n, q) ==
    /\ n \in Listed
    /\ LET p == table[n].port IN
         /\ q # p
         /\ p # 0 => listening[p] = Nobody \/ (Serves(n) /\ listening[p] # n)
    /\ listening[q] = n \/ (~Serves(n) /\ listening[q] # Nobody)
    /\ \A m \in Others(n) : table[m].port # q
    /\ Begins(c, [NoCall EXCEPT !.op = "repair", !.name = n, !.ports = {q}],
              "repair")
    /\ UNCHANGED <<table, listening, sole, refused, matched>>

RepairStores(c) ==
    LET n == call[c].name IN
    /\ pc[c] = "repair"
    /\ Ends(c)
    /\ \E q \in call[c].ports : Rewrites(n, [table[n] EXCEPT !.port = q])
    /\ UNCHANGED <<listening, refused, matched>>

-----------------------------------------------------------------------------
\* What happens beside the calls

\* A server stops, crashes, or binds another port.
ServerLeaves(n) ==
    /\ Serves(n) /\ Free(n)
    /\ listening' = Kills(n)
    /\ UNCHANGED <<table, pc, call, ghosts>>

ServerRebinds(n, q) ==
    /\ Serves(n) /\ listening[q] = Nobody
    /\ listening' = [Kills(n) EXCEPT ![q] = n]
    /\ UNCHANGED <<table, pc, call, ghosts>>

StrangerBinds(p) ==
    /\ p \in Contested /\ listening[p] = Nobody
    /\ listening' = [listening EXCEPT ![p] = Stranger]
    /\ UNCHANGED <<table, pc, call, ghosts>>

StrangerLeaves(p) ==
    /\ listening[p] = Stranger
    /\ listening' = [listening EXCEPT ![p] = Nobody]
    /\ UNCHANGED <<table, pc, call, ghosts>>

\* A TTL timer, or a visit to a worktree whose checkout is gone, removes a
\* route without reconciling the listeners.
Vanishes(n) ==
    /\ n \in Listed /\ table[n].type \in {"ttl", "worktree"} /\ Free(n)
    /\ Writes(n, None)
    /\ listening' = Kills(n)
    /\ matched' = (matched /\ table[n].oauth = 0)
    /\ overlapped' = overlapped \cup Busy
    /\ UNCHANGED <<pc, call>>

-----------------------------------------------------------------------------
Requests(c) ==
    /\ pc[c] = "off"
    /\ \E n \in Name :
        \/ \E r \in Asked : RegisterChecks(c, n, r) \/ AdoptDiscovers(c, n, r)
        \/ StartBegins(c, n) \/ \E r \in Asked : StartSyncs(c, n, r)
        \/ Deregisters(c, n)
        \/ \E m \in Name, r \in Asked : UpdateEdits(c, n, m, r)
        \/ \E q \in Port : RepairFinds(c, n, q)

Continues(c) ==
    \/ Adds(c) \/ FindsFree(c) \/ FindsNone(c) \/ StoresPort(c)
    \/ StoresReserve(c) \/ Checks(c) \/ ChecksFail(c)
    \/ Launches(c) \/ LaunchFails(c)
    \/ UpdateValidates(c) \/ UpdateRollsBack(c) \/ Unlists(c) \/ Relists(c)
    \/ Wants(c) \/ WantsFail(c) \/ Applies(c) \/ AppliesFail(c)
    \/ RepairStores(c)

Beside ==
    \/ \E n \in Name : ServerLeaves(n) \/ Vanishes(n)
    \/ \E n \in Name, q \in Roamed : ServerRebinds(n, q)
    \/ \E p \in Port : StrangerBinds(p) \/ StrangerLeaves(p)

Next == Beside \/ \E c \in Client : Requests(c) \/ Continues(c)

Spec == Init /\ [][Next]_vars

-----------------------------------------------------------------------------
\* Properties

Quiet == Busy = {}

\* When no call is in flight, no two routes have one callback port, however the
\* calls that claimed it overlapped: one of them was refused.  Only a refused
\* call may leave such a pair (oauth_bridge.go, validateOAuthBridgeConfig).
CallbackIsExclusive ==
    Quiet => \A n, m \in Listed \ refused :
                 n # m /\ table[n].oauth # 0 => table[n].oauth # table[m].oauth

\* The daemon listens on exactly the callback ports its routes have, as long as
\* the last reconciliation ran alone and was not refused
\* (oauth_bridge.go, reconcileOAuthBridgeListeners).
ListenersMatchRoutes ==
    Quiet /\ matched =>
        {p \in Port : listening[p] = Bridge} = {table[n].oauth : n \in Listed} \ {0}

\* Two routes whose ports were last checked or assigned by a call on its own
\* bind different ports of the range, whoever is running (api.go,
\* vibePortClaim; daemon.go, findFreePort).  Beyond the range findFreePort
\* takes what the OS gives it, which a stopped route may have claimed.
BoundPortsAreDistinct ==
    \A n, m \in sole :
        n # m => Bound(table[n]) \cap Bound(table[m]) \cap Range = {}

\* A vibe.json edit that the daemon refuses leaves the route's last-known
\* configuration (sync_config.go, syncRouteFromVibeJSON).
RefusedEditIsUndone ==
    [][\A c \in Client :
          /\ call[c].op = "start"
          /\ pc[c] \in {"wants", "applies"} /\ pc'[c] = "off"
          => table'[call[c].name] = call[c].saved]_vars
=============================================================================
