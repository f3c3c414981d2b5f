-------------------------- MODULE PortClaimsProofs --------------------------
(***************************************************************************)
(* Theorems about PortClaims, for any routes, ports, clients and requests. *)
(*                                                                         *)
(* No two routes share a callback port: whoever writes one into the table  *)
(* is Unsettled until its own reconciliation has seen no conflict, and one *)
(* that sees a conflict takes its write back or is refused (Covered).      *)
(* Routes checked by a call on its own bind different ports: while the     *)
(* call is alone nothing it has compared can change (Solo).                *)
(* The listeners are those that the routes' callback ports Stand for,      *)
(* unless a call has yet to reconcile a change or failed to (Tidy).        *)
(***************************************************************************)
EXTENDS PortClaims, TLAPS

Labels == {"off", "add", "port", "storePort", "reserve", "storeReserve", "check",
           "launch", "validate", "unlist", "relist", "wants", "applies", "repair"}

Typed ==
    /\ table \in [Name -> Claim \cup {None}]
    /\ pc \in [Client -> Labels]
    /\ call \in [Client -> Call]
    /\ sole \subseteq Listed

\* What is at which label.
Fits(l, k) ==
    /\ IF l = "off" THEN k = NoCall ELSE k.name \in Name
    /\ IF k.op = "update" THEN k.to \in Name ELSE k.to = None
    /\ l = "add" => /\ k.op \in {"register", "adopt"} /\ k.asked \in Claim
                    /\ k.op = "adopt" => k.asked.oauth = 0
    /\ l \in {"port", "storePort", "launch"} => k.op \in {"register", "adopt", "start"}
    /\ l \in {"reserve", "storeReserve"} => k.op \in {"register", "adopt"}
    /\ l = "check" => k.op \in {"adopt", "start"}
    /\ l \in {"validate", "unlist", "relist"} => k.op = "update"
    /\ l \in {"wants", "applies"} => k.op \in {"register", "start", "deregister", "update"}
    /\ l = "repair" => k.op = "repair"

\* The call works on a route in the table ...
HasRoute(l, k) ==
    \/ l # "off" /\ k.op \in {"start", "repair"}
    \/ l \notin {"off", "add"} /\ k.op \in {"register", "adopt"}

\* ... or is about to move it to a name that is not there.
Renames(l, k) == l \in {"validate", "unlist", "relist"} /\ k.to # k.name

Sits(c) ==
    /\ Fits(pc[c], call[c])
    /\ HasRoute(pc[c], call[c]) => call[c].name \in Listed
    /\ Renames(pc[c], call[c]) => call[c].to \notin Listed

Placed == \A c \in Client : Sits(c)

Apart ==
    \A c, d \in Client : c # d => Named(call[c]) \cap Named(call[d]) = {}

\* The call has written a callback port and not reconciled since.
Unsettled(l, k) ==
    \/ k.op = "register" /\ l \notin {"off", "add", "applies"}
    \/ k.op = "update" /\ l \in {"validate", "unlist", "relist", "wants"}
    \/ k.op = "start" /\ l = "wants"

Clash(n, m) ==
    n # m /\ table[n].oauth # 0 /\ table[n].oauth = table[m].oauth

Covered ==
    \A n, m \in Listed \ refused :
        Clash(n, m) => \E c \in Client : /\ Unsettled(pc[c], call[c])
                                         /\ {n, m} \cap Named(call[c]) # {}

\* No other route claims one of the ports, of the range.
Clear(n, ports) == \A m \in Others(n) : ports \cap Held(table[m]) \cap Range = {}

\* What a call that was alone all along has compared.
Checked(l, k) ==
    /\ k.op = "register" /\ l = "add" => Clear(k.name, Bound(k.asked))
    /\ \/ k.op = "register" /\ l \notin {"off", "add"}
       \/ l = "launch"
       => Clear(k.name, Bound(table[k.name]))
    /\ l \in {"storePort", "storeReserve"} => Clear(k.name, k.ports)

Solo ==
    \A c \in Busy \ overlapped : Busy = {c} /\ Checked(pc[c], call[c])

PortInv == Typed /\ Placed /\ Apart /\ Covered /\ Solo /\ BoundPortsAreDistinct

-----------------------------------------------------------------------------
\* Steps of one call

\* Nothing moves but the call of c and the routes it names, before or after.
Moves(c) ==
    /\ pc' \in [Client -> Labels] /\ call' \in [Client -> Call]
    /\ \A d \in Client \ {c} : pc'[d] = pc[d] /\ call'[d] = call[d]
    /\ table' \in [Name -> Claim \cup {None}]
    /\ \A n \in Name \ (Named(call[c]) \cup Named(call'[c])) :
          table'[n] = table[n] /\ (n \in refused => n \in refused')

\* The step leaves no route of its own with a callback port that somebody else
\* may have, unless the call is still to reconcile.
Settles(c) ==
    \A n \in Named(call[c]) \cup Named(call'[c]) :
        \/ n \in refused' \/ n \notin Listed' \/ table'[n].oauth = 0
        \/ Unsettled(pc'[c], call'[c]) /\ n \in Named(call'[c])
        \/ /\ ~Unsettled(pc[c], call[c])
           /\ n \in Listed \ refused /\ table'[n].oauth = table[n].oauth

LEMMA PlacedKept ==
    ASSUME PortInv, NEW c \in Client, Moves(c), Sits(c)', sole' \subseteq Listed',
           \A d \in Client \ {c} : Named(call[d]) \cap Named(call'[c]) = {}
    PROVE  Typed' /\ Placed' /\ Apart'
<1> USE DEF PortInv, Moves
<1>1. Typed'
  BY DEF Typed
<1>2. ASSUME NEW d \in Client \ {c}
      PROVE  Sits(d)'
  <2>1. pc'[d] = pc[d] /\ call'[d] = call[d] /\ Sits(d) /\ call[d] \in Call
    BY DEF Placed, Typed
  <2>2. \A n \in Named(call[d]) : n \in Name => n \notin Named(call[c]) /\ n \notin Named(call'[c])
    BY DEF Apart
  <2>3. \A n \in Named(call[d]) : n \in Name => table'[n] = table[n]
    BY <2>2
  <2>4. HasRoute(pc[d], call[d]) => call[d].name \in Listed'
    <3>1. SUFFICES ASSUME HasRoute(pc[d], call[d]) PROVE call[d].name \in Listed'
      OBVIOUS
    <3>2. call[d].name \in Listed /\ call[d].name \in Name
      BY <2>1, <3>1 DEF Sits, Listed
    <3>3. call[d].name \in Named(call[d])
      BY <3>2, NobodyAssumption DEF Named
    <3>4. QED
      BY <2>3, <3>2, <3>3 DEF Listed
  <2>5. Renames(pc[d], call[d]) => call[d].to \notin Listed'
    <3>1. SUFFICES ASSUME Renames(pc[d], call[d]), call[d].to \in Listed' PROVE FALSE
      OBVIOUS
    <3>2. call[d].to \in Name /\ call[d].to \in Named(call[d])
      BY <3>1, NobodyAssumption DEF Named, Listed
    <3>3. QED
      BY <2>1, <2>3, <3>1, <3>2 DEF Sits, Listed
  <2>6. QED
    BY <2>1, <2>4, <2>5 DEF Sits
<1>3. Placed'
  BY <1>2 DEF Placed
<1>4. Apart'
  BY DEF Apart
<1>5. QED
  BY <1>1, <1>3, <1>4

LEMMA CoveredKept ==
    ASSUME PortInv, NEW c \in Client, Moves(c), Settles(c)
    PROVE  Covered'
<1> USE DEF PortInv, Moves
<1> DEFINE Own == Named(call[c]) \cup Named(call'[c])
           Old(n) == n \in Listed \ refused /\ table'[n].oauth = table[n].oauth
<1> SUFFICES ASSUME NEW n \in Listed' \ refused', NEW m \in Listed' \ refused', Clash(n, m)'
             PROVE  \E d \in Client : /\ Unsettled(pc'[d], call'[d])
                                      /\ {n, m} \cap Named(call'[d]) # {}
  BY DEF Covered
<1>1. n \in Name /\ m \in Name /\ n # m
  BY DEF Listed, Clash
<1>2. table'[n].oauth # 0 /\ table'[n].oauth = table'[m].oauth
  BY DEF Clash
<1>3. ASSUME NEW x \in {n, m}, x \notin Own
      PROVE  Old(x)
  BY <1>1, <1>3 DEF Listed
<1>4. CASE Unsettled(pc'[c], call'[c]) /\ {n, m} \cap Named(call'[c]) # {}
  BY <1>4
<1>5. CASE ~(Unsettled(pc'[c], call'[c]) /\ {n, m} \cap Named(call'[c]) # {})
  <2>1. ASSUME NEW x \in {n, m}, x \in Own
        PROVE  ~Unsettled(pc[c], call[c]) /\ Old(x)
    BY <1>2, <1>5, <2>1 DEF Settles
  <2>2. Old(n) /\ Old(m)
    BY <1>3, <2>1
  <2>3. Clash(n, m)
    BY <1>1, <1>2, <2>2 DEF Clash
  <2>4. PICK d \in Client : Unsettled(pc[d], call[d]) /\ {n, m} \cap Named(call[d]) # {}
    BY <2>2, <2>3 DEF Covered
  <2>5. d # c
    BY <2>1, <2>4
  <2>6. QED
    BY <2>4, <2>5
<1>6. QED
  BY <1>4, <1>5

\* A call under way that is alone stays alone; any other has been overlapped.
LEMMA SoloKept ==
    ASSUME PortInv, NEW c \in Client, Moves(c), pc[c] # "off",
           overlapped \subseteq overlapped' \cup {c},
           pc'[c] # "off" => overlapped' = overlapped,
           pc'[c] # "off" /\ c \notin overlapped => Checked(pc[c], call[c])'
    PROVE  Solo'
<1> USE DEF PortInv, Moves
<1>1. Busy' \subseteq Busy /\ c \in Busy
  BY DEF Busy
<1>2. SUFFICES ASSUME NEW d \in Busy' \ overlapped'
               PROVE  Busy' = {d} /\ Checked(pc[d], call[d])'
  BY DEF Solo
<1>3. d = c
  <2>1. SUFFICES ASSUME d # c PROVE FALSE
    OBVIOUS
  <2>2. d \in Busy \ overlapped
    BY <1>1, <2>1
  <2>3. QED
    BY <1>1, <2>1, <2>2 DEF Solo
<1>4. pc'[c] # "off" /\ c \notin overlapped
  BY <1>2, <1>3 DEF Busy
<1>5. Busy = {c}
  BY <1>1, <1>4 DEF Solo
<1>6. QED
  BY <1>1, <1>2, <1>3, <1>4, <1>5

LEMMA BoundKept ==
    ASSUME BoundPortsAreDistinct, sole' \subseteq sole, \A n \in sole' : table'[n] = table[n]
    PROVE  BoundPortsAreDistinct'
BY DEF BoundPortsAreDistinct

\* What a call does on its way, or at its end.
LEMMA Continued ==
    ASSUME PortInv, NEW c \in Client, pc[c] # "off", Moves(c), Sits(c)', Settles(c),
           Named(call'[c]) \subseteq Named(call[c]),
           overlapped \subseteq overlapped' \cup {c},
           pc'[c] # "off" => overlapped' = overlapped,
           pc'[c] # "off" /\ c \notin overlapped => Checked(pc[c], call[c])',
           sole' \subseteq Listed', BoundPortsAreDistinct'
    PROVE  PortInv'
<1>1. \A d \in Client \ {c} : Named(call[d]) \cap Named(call'[c]) = {}
  BY DEF PortInv, Apart
<1>2. QED
  BY <1>1, PlacedKept, CoveredKept, SoloKept DEF PortInv

\* What a call does when it begins.
LEMMA Begun ==
    ASSUME PortInv, NEW c \in Client, NEW k \in Call, NEW at \in Labels \ {"off"},
           Begins(c, k, at), Fits(at, k),
           table' \in [Name -> Claim \cup {None}],
           \A n \in Name \ Named(k) :
               table'[n] = table[n] /\ (n \in refused => n \in refused'),
           HasRoute(at, k) => k.name \in Listed',
           Renames(at, k) => k.to \notin Listed',
           \A n \in Named(k) :
               \/ n \in refused' \/ n \notin Listed' \/ table'[n].oauth = 0
               \/ Unsettled(at, k)
               \/ n \in Listed \ refused /\ table'[n].oauth = table[n].oauth,
           Busy = {} => Checked(at, k)',
           sole' \subseteq Listed', BoundPortsAreDistinct'
    PROVE  PortInv'
<1>1. /\ pc[c] = "off" /\ pc'[c] = at /\ call'[c] = k
      /\ pc' \in [Client -> Labels] /\ call' \in [Client -> Call]
      /\ \A d \in Client \ {c} : pc'[d] = pc[d] /\ call'[d] = call[d]
  BY DEF PortInv, Typed, Begins
<1>2. /\ call[c] = NoCall /\ Named(call[c]) = {}
      /\ \A d \in Client \ Busy : Named(call[d]) = {}
  <2>1. \A d \in Client : pc[d] = "off" => call[d] = NoCall
    BY DEF PortInv, Placed, Sits, Fits
  <2>2. Named(NoCall) = {}
    BY DEF Named, NoCall
  <2>3. QED
    BY <1>1, <2>1, <2>2 DEF Busy
<1>3. Moves(c)
  BY <1>1 DEF Moves
<1>4. Sits(c)'
  BY <1>1 DEF Sits
<1>5. ~Unsettled(pc[c], call[c])
  BY <1>1, <1>2 DEF Unsettled, NoCall
<1>6. Settles(c)
  BY <1>1, <1>2, <1>5 DEF Settles
<1>7. ASSUME NEW d \in Client \ {c}
      PROVE  Named(call[d]) \cap Named(call'[c]) = {}
  <2>1. CASE d \in Busy
    BY <1>1, <2>1 DEF Begins, Free, Named
  <2>2. CASE d \notin Busy
    BY <1>2, <2>2
  <2>3. QED
    BY <2>1, <2>2
<1>8. Solo'
  <2>1. Busy' = Busy \cup {c}
    BY <1>1 DEF Busy
  <2>2. SUFFICES ASSUME NEW d \in Busy' \ overlapped'
                 PROVE  Busy' = {d} /\ Checked(pc[d], call[d])'
    BY DEF Solo
  <2>3. Busy = {}
    BY <2>1, <2>2 DEF Begins
  <2>4. d = c /\ Busy' = {c}
    BY <2>1, <2>2, <2>3
  <2>5. Checked(pc[c], call[c])'
    BY <1>1, <2>3
  <2>6. QED
    BY <2>4, <2>5
<1>9. QED
  BY <1>3, <1>4, <1>6, <1>7, <1>8, PlacedKept, CoveredKept DEF PortInv

\* One that begins by looking only.
LEMMA BegunLooking ==
    ASSUME PortInv, NEW c \in Client, NEW k \in Call, NEW at \in Labels \ {"off"},
           Begins(c, k, at), Fits(at, k), UNCHANGED <<table, sole, refused>>,
           HasRoute(at, k) => k.name \in Listed,
           Renames(at, k) => k.to \notin Listed,
           Busy = {} => Checked(at, k)
    PROVE  PortInv'
<1>1. table' = table /\ sole' = sole /\ refused' = refused /\ Listed' = Listed
  BY DEF Listed
<1>2. table' \in [Name -> Claim \cup {None}] /\ sole' \subseteq Listed'
  BY <1>1 DEF PortInv, Typed
<1>3. Checked(at, k)' <=> Checked(at, k)
  BY <1>1 DEF Checked, Clear, Others
<1>4. \A n \in Named(k) : \/ n \in refused' \/ n \notin Listed'
                          \/ n \in Listed \ refused /\ table'[n].oauth = table[n].oauth
  BY <1>1
<1>5. BoundPortsAreDistinct'
  BY <1>1, BoundKept DEF PortInv
<1>6. QED
  BY <1>1, <1>2, <1>3, <1>4, <1>5, Begun

\* One that begins by writing a route, or taking it out.
LEMMA BegunWriting ==
    ASSUME PortInv, NEW c \in Client, NEW k \in Call, NEW at \in Labels \ {"off"},
           Begins(c, k, at), Fits(at, k),
           NEW r \in Claim \cup {None}, Writes(k.name, r),
           HasRoute(at, k) => r # None,
           k.to \in {None, k.name} \/ (Renames(at, k) /\ k.to \notin Listed),
           r = None \/ Unsettled(at, k),
           k.op # "register", at \notin {"add", "launch", "storePort", "storeReserve"}
    PROVE  PortInv'
<1>1. /\ table' = [table EXCEPT ![k.name] = r] /\ sole' = sole \ {k.name}
      /\ refused' = refused \ {k.name}
      /\ k.name \in Name /\ k.name \in Named(k)
      /\ table \in [Name -> Claim \cup {None}] /\ sole \subseteq Listed
  BY NobodyAssumption DEF PortInv, Typed, Fits, Writes, Rewrites, Named
<1>2. /\ table' \in [Name -> Claim \cup {None}]
      /\ table'[k.name] = r
      /\ \A n \in Name \ {k.name} : table'[n] = table[n]
  BY <1>1
<1>3. sole' \subseteq Listed'
  BY <1>1, <1>2 DEF Listed
<1>4. BoundPortsAreDistinct'
  BY <1>1, <1>2, BoundKept DEF PortInv, Listed
<1>5. HasRoute(at, k) => k.name \in Listed'
  BY <1>1, <1>2 DEF Listed
<1>6. Renames(at, k) => k.to \notin Listed'
  BY <1>2, NobodyAssumption DEF Renames, Listed
<1>7. ASSUME NEW n \in Named(k)
      PROVE  n \notin Listed' \/ Unsettled(at, k)
  <2>1. CASE n = k.name
    BY <1>2, <2>1 DEF Listed
  <2>2. CASE n # k.name
    BY <1>2, <2>2 DEF Listed, Named
  <2>3. QED
    BY <2>1, <2>2
<1>8. Checked(at, k)'
  BY DEF Checked
<1>9. QED
  BY <1>1, <1>2, <1>3, <1>4, <1>5, <1>6, <1>7, <1>8, Begun

-----------------------------------------------------------------------------
\* The first step of each call

LEMMA RegisterChecksInv ==
    ASSUME PortInv, NEW c \in Client, NEW n \in Name, NEW r \in Asked,
           RegisterChecks(c, n, r)
    PROVE  PortInv'
<1>1. PICK k : k = [NoCall EXCEPT !.op = "register", !.name = n, !.asked = r]
  OBVIOUS
<1>2. r \in Claim
  BY AskedAssumption
<1>3. /\ k \in Call /\ k.op = "register" /\ k.name = n /\ k.to = None /\ k.asked = r
  BY <1>1, <1>2 DEF Call, NoCall
<1>4. Fits("add", k) /\ ~HasRoute("add", k) /\ ~Renames("add", k)
  BY <1>2, <1>3 DEF Fits, HasRoute, Renames
<1>5. Clear(n, Bound(r))
  BY DEF RegisterChecks, Acceptable, vibePortClaim, Clear, Bound
<1>6. Checked("add", k)
  BY <1>3, <1>5 DEF Checked
<1>7. QED
  BY <1>1, <1>3, <1>4, <1>6, BegunLooking DEF RegisterChecks, Labels

LEMMA AdoptDiscoversInv ==
    ASSUME PortInv, NEW c \in Client, NEW n \in Name, NEW r \in Asked,
           AdoptDiscovers(c, n, r)
    PROVE  PortInv'
<1>1. PICK k : k = [NoCall EXCEPT !.op = "adopt", !.name = n, !.asked = r]
  OBVIOUS
<1>2. r \in Claim /\ r.oauth = 0
  BY AskedAssumption DEF AdoptDiscovers
<1>3. /\ k \in Call /\ k.op = "adopt" /\ k.name = n /\ k.to = None /\ k.asked = r
  BY <1>1, <1>2 DEF Call, NoCall
<1>4. /\ Fits("add", k) /\ ~HasRoute("add", k) /\ ~Renames("add", k)
      /\ Checked("add", k)
  BY <1>2, <1>3 DEF Fits, HasRoute, Renames, Checked
<1>5. QED
  BY <1>1, <1>3, <1>4, BegunLooking DEF AdoptDiscovers, Labels

LEMMA StartBeginsInv ==
    ASSUME PortInv, NEW c \in Client, NEW n \in Name, StartBegins(c, n)
    PROVE  PortInv'
<1>1. PICK k : k = [NoCall EXCEPT !.op = "start", !.name = n]
  OBVIOUS
<1>2. k \in Call /\ k.op = "start" /\ k.name = n /\ k.to = None
  BY <1>1 DEF Call, NoCall
<1>3. PICK at \in {"port", "check"} : Begins(c, k, at)
  BY <1>1 DEF StartBegins
<1>4. Fits(at, k) /\ ~Renames(at, k) /\ Checked(at, k)
  BY <1>2 DEF Fits, Renames, Checked
<1>5. QED
  BY <1>2, <1>3, <1>4, BegunLooking DEF StartBegins, Labels

LEMMA RepairFindsInv ==
    ASSUME PortInv, NEW c \in Client, NEW n \in Name, NEW q \in Port,
           RepairFinds(c, n, q)
    PROVE  PortInv'
<1>1. PICK k : k = [NoCall EXCEPT !.op = "repair", !.name = n, !.ports = {q}]
  OBVIOUS
<1>2. k \in Call /\ k.op = "repair" /\ k.name = n /\ k.to = None
  BY <1>1 DEF Call, NoCall
<1>3. Fits("repair", k) /\ ~Renames("repair", k) /\ Checked("repair", k)
  BY <1>2 DEF Fits, Renames, Checked
<1>4. Begins(c, k, "repair") /\ n \in Listed /\ UNCHANGED <<table, sole, refused>>
  BY <1>1 DEF RepairFinds
<1>5. QED
  BY <1>2, <1>3, <1>4, BegunLooking DEF Labels

LEMMA StartSyncsInv ==
    ASSUME PortInv, NEW c \in Client, NEW n \in Name, NEW r \in Asked,
           StartSyncs(c, n, r)
    PROVE  PortInv'
<1>1. PICK edit : edit = [table[n] EXCEPT !.oauth = r.oauth, !.reserve = r.reserve]
  OBVIOUS
<1>2. PICK k : k = [NoCall EXCEPT !.op = "start", !.name = n, !.saved = table[n]]
  OBVIOUS
<1>3. table[n] \in Claim /\ edit \in Claim
  BY <1>1, AskedAssumption DEF StartSyncs, Listed, PortInv, Typed, Claim
<1>4. k \in Call /\ k.op = "start" /\ k.name = n /\ k.to = None
  BY <1>2, <1>3 DEF Call, NoCall
<1>5. Begins(c, k, "wants") /\ Writes(n, edit)
  BY <1>1, <1>2 DEF StartSyncs
<1>6. Fits("wants", k) /\ Unsettled("wants", k) /\ edit # None
  BY <1>3, <1>4, NoneAssumption DEF Fits, Unsettled
<1>7. QED
  BY <1>3, <1>4, <1>5, <1>6, BegunWriting DEF Labels

LEMMA DeregistersInv ==
    ASSUME PortInv, NEW c \in Client, NEW n \in Name, Deregisters(c, n)
    PROVE  PortInv'
<1>1. PICK k : k = [NoCall EXCEPT !.op = "deregister", !.name = n]
  OBVIOUS
<1>2. k \in Call /\ k.op = "deregister" /\ k.name = n /\ k.to = None
  BY <1>1 DEF Call, NoCall
<1>3. Begins(c, k, "wants") /\ Writes(n, None)
  BY <1>1 DEF Deregisters
<1>4. Fits("wants", k) /\ ~HasRoute("wants", k)
  BY <1>2 DEF Fits, HasRoute
<1>5. QED
  BY <1>2, <1>3, <1>4, BegunWriting DEF Labels

LEMMA UpdateEditsInv ==
    ASSUME PortInv, NEW c \in Client, NEW n \in Name, NEW m \in Name, NEW r \in Asked,
           UpdateEdits(c, n, m, r)
    PROVE  PortInv'
<1>1. PICK edit : edit = [table[n] EXCEPT !.port = IF r.port = 0 THEN @ ELSE r.port,
                                          !.oauth = r.oauth]
  OBVIOUS
<1>2. PICK k : k = [NoCall EXCEPT !.op = "update", !.name = n, !.to = m,
                                  !.asked = edit, !.saved = table[n]]
  OBVIOUS
<1>3. table[n] \in Claim /\ edit \in Claim
  BY <1>1, AskedAssumption DEF UpdateEdits, Listed, PortInv, Typed, Claim
<1>4. k \in Call /\ k.op = "update" /\ k.name = n /\ k.to = m
  BY <1>2, <1>3 DEF Call, NoCall
<1>5. Begins(c, k, "validate") /\ Writes(n, edit)
  BY <1>1, <1>2 DEF UpdateEdits
<1>6. Fits("validate", k) /\ Unsettled("validate", k) /\ ~HasRoute("validate", k)
  BY <1>4 DEF Fits, Unsettled, HasRoute
<1>7. k.to = k.name \/ (Renames("validate", k) /\ k.to \notin Listed)
  BY <1>4 DEF UpdateEdits, Renames
<1>8. QED
  BY <1>3, <1>4, <1>5, <1>6, <1>7, BegunWriting DEF Labels

-----------------------------------------------------------------------------
\* Calls on their way, and at their end

LEMMA WentOn ==
    ASSUME PortInv, NEW c \in Client, NEW k \in Call, NEW at \in Labels \ {"off"},
           pc[c] # "off", pc' = [pc EXCEPT ![c] = at],
           call' = [call EXCEPT ![c] = k], overlapped' = overlapped,
           k.name = call[c].name, k.to = call[c].to, Fits(at, k),
           table' \in [Name -> Claim \cup {None}],
           \A n \in Name \ Named(k) :
               table'[n] = table[n] /\ (n \in refused => n \in refused'),
           HasRoute(at, k) => k.name \in Listed',
           Renames(at, k) => k.to \notin Listed',
           \A n \in Named(k) :
               \/ n \in refused' \/ n \notin Listed' \/ table'[n].oauth = 0
               \/ Unsettled(at, k)
               \/ /\ ~Unsettled(pc[c], call[c])
                  /\ n \in Listed \ refused /\ table'[n].oauth = table[n].oauth,
           c \notin overlapped => Checked(at, k)',
           sole' \subseteq Listed', BoundPortsAreDistinct'
    PROVE  PortInv'
<1>1. /\ pc'[c] = at /\ call'[c] = k
      /\ pc' \in [Client -> Labels] /\ call' \in [Client -> Call]
      /\ \A d \in Client \ {c} : pc'[d] = pc[d] /\ call'[d] = call[d]
      /\ Named(call'[c]) = Named(call[c]) /\ Named(k) = Named(call[c])
  BY DEF PortInv, Typed, Named
<1>2. Moves(c)
  BY <1>1 DEF Moves
<1>3. Sits(c)'
  BY <1>1 DEF Sits
<1>4. Settles(c)
  BY <1>1 DEF Settles
<1>5. c \notin overlapped => Checked(pc[c], call[c])'
  BY <1>1
<1>6. QED
  BY <1>1, <1>2, <1>3, <1>4, <1>5, Continued

LEMMA WentOnLooking ==
    ASSUME PortInv, NEW c \in Client, NEW k \in Call, NEW at \in Labels \ {"off"},
           pc[c] # "off", pc' = [pc EXCEPT ![c] = at],
           call' = [call EXCEPT ![c] = k], UNCHANGED <<table, overlapped, sole, refused>>,
           k.name = call[c].name, k.to = call[c].to, Fits(at, k),
           HasRoute(at, k) => HasRoute(pc[c], call[c]),
           Renames(at, k) => Renames(pc[c], call[c]),
           Unsettled(pc[c], call[c]) => Unsettled(at, k),
           c \notin overlapped => Checked(at, k)
    PROVE  PortInv'
<1>1. table' = table /\ sole' = sole /\ refused' = refused /\ Listed' = Listed
  BY DEF Listed
<1>2. table' \in [Name -> Claim \cup {None}] /\ sole' \subseteq Listed'
  BY <1>1 DEF PortInv, Typed
<1>3. Checked(at, k)' <=> Checked(at, k)
  BY <1>1 DEF Checked, Clear, Others
<1>4. BoundPortsAreDistinct'
  BY <1>1, BoundKept DEF PortInv
<1>5. Sits(c)
  BY DEF PortInv, Placed
<1>6. /\ HasRoute(at, k) => k.name \in Listed'
      /\ Renames(at, k) => k.to \notin Listed'
  BY <1>1, <1>5 DEF Sits
<1>7. QED
  BY <1>1, <1>2, <1>3, <1>4, <1>6, WentOn

\* A write of the claims r of the call's route.
LEMMA WentOnWriting ==
    ASSUME PortInv, NEW c \in Client, NEW k \in Call, NEW at \in Labels \ {"off"},
           pc[c] # "off", pc' = [pc EXCEPT ![c] = at],
           call' = [call EXCEPT ![c] = k], overlapped' = overlapped,
           k.name = call[c].name, k.to = call[c].to, k.to = None, Fits(at, k),
           NEW r \in Claim, Rewrites(k.name, r),
           refused' \in {refused, refused \ {k.name}},
           \/ r.oauth = 0 \/ Unsettled(at, k)
           \/ /\ ~Unsettled(pc[c], call[c]) /\ refused' = refused
              /\ k.name \in Listed /\ r.oauth = table[k.name].oauth,
           c \notin overlapped => Checked(at, k)'
    PROVE  PortInv'
<1>1. /\ table' = [table EXCEPT ![k.name] = r] /\ sole' = sole \ {k.name}
      /\ k.name \in Name /\ Named(k) = {k.name} /\ r # None
      /\ table \in [Name -> Claim \cup {None}] /\ sole \subseteq Listed
  BY NobodyAssumption, NoneAssumption DEF PortInv, Typed, Fits, Rewrites, Named
<1>2. /\ table' \in [Name -> Claim \cup {None}]
      /\ table'[k.name] = r
      /\ \A n \in Name \ {k.name} : table'[n] = table[n]
  BY <1>1
<1>3. sole' \subseteq Listed' /\ k.name \in Listed'
  BY <1>1, <1>2 DEF Listed
<1>4. BoundPortsAreDistinct'
  BY <1>1, <1>2, BoundKept DEF PortInv, Listed
<1>5. ~Renames(at, k) \/ k.to \notin Listed'
  BY NobodyAssumption DEF Listed
<1>6. \A n \in Name \ Named(k) :
        table'[n] = table[n] /\ (n \in refused => n \in refused')
  BY <1>1, <1>2
<1>7. \/ k.name \in refused' \/ table'[k.name].oauth = 0 \/ Unsettled(at, k)
      \/ /\ ~Unsettled(pc[c], call[c]) /\ k.name \in Listed \ refused
         /\ table'[k.name].oauth = table[k.name].oauth
  BY <1>2
<1>8. \A n \in Named(k) :
        \/ n \in refused' \/ n \notin Listed' \/ table'[n].oauth = 0
        \/ Unsettled(at, k)
        \/ /\ ~Unsettled(pc[c], call[c])
           /\ n \in Listed \ refused /\ table'[n].oauth = table[n].oauth
  BY <1>1, <1>7
<1>9. QED
  BY <1>2, <1>3, <1>4, <1>5, <1>6, <1>8, WentOn

LEMMA Ended ==
    ASSUME PortInv, NEW c \in Client, pc[c] # "off", pc' = [pc EXCEPT ![c] = "off"],
           call' = [call EXCEPT ![c] = NoCall], overlapped' = overlapped \ {c},
           table' \in [Name -> Claim \cup {None}],
           \A n \in Name \ Named(call[c]) :
               table'[n] = table[n] /\ (n \in refused => n \in refused'),
           \A n \in Named(call[c]) :
               \/ n \in refused' \/ n \notin Listed'
               \/ /\ ~Unsettled(pc[c], call[c])
                  /\ n \in Listed \ refused /\ table'[n].oauth = table[n].oauth,
           sole' \subseteq Listed', BoundPortsAreDistinct'
    PROVE  PortInv'
<1>1. NoCall \in Call /\ Named(NoCall) = {}
  BY DEF Call, NoCall, Named
<1>2. /\ pc'[c] = "off" /\ call'[c] = NoCall
      /\ pc' \in [Client -> Labels] /\ call' \in [Client -> Call]
      /\ \A d \in Client \ {c} : pc'[d] = pc[d] /\ call'[d] = call[d]
  BY <1>1 DEF PortInv, Typed, Labels
<1>3. Moves(c)
  BY <1>1, <1>2 DEF Moves
<1>4. Sits(c)'
  BY <1>2 DEF Sits, Fits, HasRoute, Renames, NoCall
<1>5. Settles(c)
  BY <1>1, <1>2 DEF Settles
<1>6. QED
  BY <1>1, <1>2, <1>3, <1>4, <1>5, Continued

\* One that leaves the table as it is: what it wrote before has been reconciled
\* or is refused now.  Its route may join those checked by a call on its own.
LEMMA EndedLooking ==
    ASSUME PortInv, NEW c \in Client, pc[c] # "off", Ends(c), UNCHANGED table,
           refused \subseteq refused',
           Unsettled(pc[c], call[c]) => Named(call[c]) \subseteq refused',
           sole' = sole \/ (Accepts(c, call[c].name) /\ HasRoute(pc[c], call[c])
                             /\ pc[c] \in {"launch", "applies"}
                             /\ (pc[c] = "applies" => call[c].op = "register"))
    PROVE  PortInv'
<1>1. /\ table' = table /\ Listed' = Listed
      /\ table' \in [Name -> Claim \cup {None}] /\ sole \subseteq Listed
  BY DEF Listed, PortInv, Typed
<1>2. sole' \subseteq Listed' /\ BoundPortsAreDistinct'
  <2>1. CASE sole' \subseteq sole
    BY <1>1, <2>1, BoundKept DEF PortInv
  <2>2. CASE ~(sole' \subseteq sole)
    <3> DEFINE n == call[c].name
    <3>1. /\ c \notin overlapped /\ sole' = sole \cup {n}
          /\ HasRoute(pc[c], call[c]) /\ pc[c] \in {"launch", "applies"}
          /\ pc[c] = "applies" => call[c].op = "register"
      BY <2>2 DEF Accepts
    <3>2. n \in Listed
      BY <3>1 DEF PortInv, Placed, Sits
    <3>3. Checked(pc[c], call[c])
      BY <3>1 DEF PortInv, Solo, Busy
    <3>4. Clear(n, Bound(table[n]))
      BY <3>1, <3>3 DEF Checked
    <3>5. \A m \in sole \ {n} : Bound(table[n]) \cap Bound(table[m]) \cap Range = {}
      BY <1>1, <3>4 DEF Clear, Others, Bound, Held
    <3>6. QED
      BY <1>1, <3>1, <3>2, <3>5 DEF PortInv, BoundPortsAreDistinct
  <2>3. QED
    BY <2>1, <2>2
<1>3. ASSUME NEW n \in Named(call[c])
      PROVE  \/ n \in refused' \/ n \notin Listed'
             \/ /\ ~Unsettled(pc[c], call[c])
                /\ n \in Listed \ refused /\ table'[n].oauth = table[n].oauth
  BY <1>1
<1>4. QED
  BY <1>1, <1>2, <1>3, Ended DEF Ends

-----------------------------------------------------------------------------
\* The steps of each call

\* What is known of a call in flight.
LEMMA Here ==
    ASSUME PortInv, NEW c \in Client, pc[c] # "off"
    PROVE  /\ call[c] \in Call /\ call[c].name \in Name
           /\ pc[c] \in Labels /\ Fits(pc[c], call[c])
           /\ pc \in [Client -> Labels] /\ call \in [Client -> Call]
           /\ table \in [Name -> Claim \cup {None}] /\ sole \subseteq Listed
           /\ Named(call[c]) = {call[c].name, call[c].to} \ {None}
           /\ call[c].name # None
           /\ HasRoute(pc[c], call[c]) =>
                call[c].name \in Listed /\ table[call[c].name] \in Claim
           /\ Renames(pc[c], call[c]) => call[c].to \notin Listed
           /\ c \notin overlapped => Checked(pc[c], call[c])
<1>1. Sits(c) /\ Typed
  BY DEF PortInv, Placed
<1>2. c \notin overlapped => Checked(pc[c], call[c])
  BY DEF PortInv, Solo, Busy
<1>3. call[c].name \in Name /\ call[c].name # None
  BY <1>1, NobodyAssumption DEF Sits, Fits
<1>4. QED
  BY <1>1, <1>2, <1>3 DEF Sits, Typed, Listed, Named

\* A route's new claims are clear of the others' if they were before the write.
LEMMA WrittenClear ==
    ASSUME NEW k \in Call, k.name \in Name, NEW at,
           table \in [Name -> Claim \cup {None}], NEW r \in Claim, Rewrites(k.name, r),
           at \notin {"add", "storePort", "storeReserve"},
           at = "launch" \/ k.op = "register" => Clear(k.name, Bound(r))
    PROVE  Checked(at, k)'
<1>1. table'[k.name] = r /\ \A m \in Name \ {k.name} : table'[m] = table[m]
  BY DEF Rewrites
<1>2. Others(k.name)' = Others(k.name)
  BY <1>1 DEF Others, Listed
<1>3. Clear(k.name, Bound(r)) => Clear(k.name, Bound(table[k.name]))'
  BY <1>1, <1>2 DEF Clear, Others, Listed
<1>4. QED
  BY <1>3 DEF Checked

LEMMA AddsInv ==
    ASSUME PortInv, NEW c \in Client, Adds(c)
    PROVE  PortInv'
<1>1. PICK k : k = [call[c] EXCEPT !.asked = None]
  OBVIOUS
<1>2. PICK r : r = call[c].asked
  OBVIOUS
<1>3. pc[c] = "add"
  BY DEF Adds, Goto
<1>4. /\ r \in Claim /\ call[c].op \in {"register", "adopt"}
      /\ call[c].op = "adopt" => r.oauth = 0
  BY <1>2, <1>3, Here DEF Fits
<1>5. /\ k \in Call /\ k.op = call[c].op /\ k.name = call[c].name
      /\ k.to = call[c].to /\ k.to = None
  BY <1>1, <1>3, <1>4, Here DEF Call, Fits
<1>6. PICK at \in {"port", "launch", "wants", "reserve"} :
        /\ pc' = [pc EXCEPT ![c] = at]
        /\ at = "reserve" <=> k.op = "adopt"
  BY <1>2, <1>4, <1>5 DEF Adds, Goto
<1>7. call' = [call EXCEPT ![c] = k]
  BY <1>1, <1>3, Here DEF Adds
<1>8. Rewrites(k.name, r) /\ refused' = refused \ {k.name} /\ overlapped' = overlapped
  BY <1>2, <1>5 DEF Adds, Writes
<1>9. Fits(at, k) /\ (r.oauth = 0 \/ Unsettled(at, k))
  BY <1>3, <1>4, <1>5, <1>6, Here DEF Fits, Unsettled
<1>10. c \notin overlapped /\ k.op = "register" => Clear(k.name, Bound(r))
  BY <1>2, <1>3, <1>5, Here DEF Checked
<1>11. c \notin overlapped => Checked(at, k)'
  BY <1>3, <1>4, <1>5, <1>6, <1>8, <1>10, WrittenClear, Here
<1>12. QED
  BY <1>3, <1>4, <1>5, <1>6, <1>7, <1>8, <1>9, <1>11, WentOnWriting DEF Labels

LEMMA FoundClear ==
    ASSUME NEW p \in findFreePort, NEW n \in Name
    PROVE  p \in Port /\ Clear(n, {p})
<1>1. \/ p \in Port \ Range
      \/ p \in Range \ UNION {Held(table[m]) : m \in Listed}
  BY DEF findFreePort
<1>2. QED
  BY <1>1, PortAssumption DEF Clear, Others

LEMMA FindsFreeInv ==
    ASSUME PortInv, NEW c \in Client, FindsFree(c)
    PROVE  PortInv'
<1>1. PICK p \in findFreePort : call' = [call EXCEPT ![c].ports = {p}]
  BY DEF FindsFree
<1>2. PICK k : k = [call[c] EXCEPT !.ports = {p}]
  OBVIOUS
<1>3. PICK at \in {"storePort", "storeReserve"} :
        /\ pc' = [pc EXCEPT ![c] = at]
        /\ pc[c] = IF at = "storePort" THEN "port" ELSE "reserve"
  BY DEF FindsFree, Goto
<1>4. pc[c] \in {"port", "reserve"}
  BY <1>3
<1>5. /\ call[c].op \in {"register", "adopt", "start"}
      /\ at = "storeReserve" => call[c].op \in {"register", "adopt"}
  BY <1>3, <1>4, Here DEF Fits
<1>6. p \in Port /\ Clear(call[c].name, {p})
  BY <1>4, FoundClear, Here
<1>7. /\ k \in Call /\ k.op = call[c].op /\ k.name = call[c].name
      /\ k.to = call[c].to /\ k.ports = {p}
  BY <1>2, <1>4, <1>6, Here DEF Call
<1>8. call' = [call EXCEPT ![c] = k]
  BY <1>1, <1>2, <1>4, Here
<1>9. /\ Fits(at, k) /\ HasRoute(pc[c], call[c]) /\ ~Renames(at, k)
      /\ Unsettled(pc[c], call[c]) => Unsettled(at, k)
  BY <1>3, <1>4, <1>5, <1>7, Here DEF Fits, HasRoute, Renames, Unsettled
<1>10. c \notin overlapped => Checked(at, k)
  <2>1. c \notin overlapped /\ k.op = "register" => Clear(k.name, Bound(table[k.name]))
    BY <1>4, <1>7, Here DEF Checked
  <2>2. QED
    BY <1>3, <1>6, <1>7, <2>1 DEF Checked
<1>11. UNCHANGED <<table, overlapped, sole, refused>>
  BY DEF FindsFree, ghosts
<1>12. QED
  BY <1>3, <1>4, <1>7, <1>8, <1>9, <1>10, <1>11, WentOnLooking DEF Labels

\* The store of a port that findFreePort returned.
LEMMA Stored ==
    ASSUME PortInv, NEW c \in Client, pc[c] \in {"storePort", "storeReserve"},
           NEW p \in call[c].ports, NEW r \in Claim, Rewrites(call[c].name, r),
           r.oauth = table[call[c].name].oauth,
           Bound(r) \subseteq Bound(table[call[c].name]) \cup {p},
           NEW at \in {"check", "reserve", "port", "launch"},
           pc' = [pc EXCEPT ![c] = at], call' = [call EXCEPT ![c].ports = {}],
           UNCHANGED <<overlapped, refused>>,
           at = "check" => call[c].op # "register",
           at = "reserve" => call[c].op # "start",
           at = "launch" => call[c].op = "register"
    PROVE  PortInv'
<1>1. PICK k : k = [call[c] EXCEPT !.ports = {}]
  OBVIOUS
<1>2. call[c].op \in {"register", "adopt", "start"} /\ call[c].name \in Listed
  BY Here DEF Fits, HasRoute
<1>3. /\ k \in Call /\ k.op = call[c].op /\ k.name = call[c].name
      /\ k.to = call[c].to /\ k.to = None
  BY <1>1, <1>2, Here DEF Call, Fits
<1>4. call' = [call EXCEPT ![c] = k]
  BY <1>1, Here
<1>5. Fits(at, k)
  BY <1>2, <1>3, Here DEF Fits
<1>6. Unsettled(at, k) \/ ~Unsettled(pc[c], call[c])
  BY <1>2, <1>3 DEF Unsettled
<1>7. c \notin overlapped => Checked(at, k)'
  <2>1. SUFFICES ASSUME c \notin overlapped PROVE Checked(at, k)'
    OBVIOUS
  <2>2. /\ Clear(k.name, call[c].ports)
        /\ k.op = "register" => Clear(k.name, Bound(table[k.name]))
    BY <1>3, <2>1, Here DEF Checked
  <2>3. k.op = "register" => Clear(k.name, Bound(r))
    BY <1>3, <2>2 DEF Clear
  <2>4. QED
    BY <1>3, <2>3, WrittenClear, Here
<1>8. QED
  BY <1>2, <1>3, <1>4, <1>5, <1>6, <1>7, WentOnWriting DEF Labels

LEMMA StoresPortInv ==
    ASSUME PortInv, NEW c \in Client, StoresPort(c)
    PROVE  PortInv'
<1>1. /\ pc[c] = "storePort" /\ call' = [call EXCEPT ![c].ports = {}]
      /\ UNCHANGED <<overlapped, refused>>
  BY DEF StoresPort, Goto
<1>2. PICK p \in call[c].ports : Rewrites(call[c].name, [table[call[c].name] EXCEPT !.port = p])
  BY DEF StoresPort
<1>3. PICK r : r = [table[call[c].name] EXCEPT !.port = p]
  OBVIOUS
<1>4. call[c].op \in {"register", "adopt", "start"} /\ table[call[c].name] \in Claim
  BY <1>1, Here DEF Fits, HasRoute
<1>5. p \in Port
  BY <1>1, <1>2, Here DEF Call
<1>6. /\ r \in Claim /\ r.oauth = table[call[c].name].oauth
      /\ Bound(r) \subseteq Bound(table[call[c].name]) \cup {p}
  BY <1>3, <1>4, <1>5 DEF Claim, Bound
<1>7. PICK at \in {"check", "reserve", "launch"} :
        /\ pc' = [pc EXCEPT ![c] = at]
        /\ at = "check" <=> call[c].op # "register"
  BY <1>4 DEF StoresPort, Goto
<1>8. QED
  BY <1>1, <1>2, <1>3, <1>6, <1>7, Stored

LEMMA StoresReserveInv ==
    ASSUME PortInv, NEW c \in Client, StoresReserve(c)
    PROVE  PortInv'
<1>1. /\ pc[c] = "storeReserve" /\ call' = [call EXCEPT ![c].ports = {}]
      /\ UNCHANGED <<overlapped, refused>>
  BY DEF StoresReserve, Goto
<1>2. PICK p \in call[c].ports :
        Rewrites(call[c].name, [table[call[c].name] EXCEPT !.reserve = p])
  BY DEF StoresReserve
<1>3. PICK r : r = [table[call[c].name] EXCEPT !.reserve = p]
  OBVIOUS
<1>4. call[c].op \in {"register", "adopt"} /\ table[call[c].name] \in Claim
  BY <1>1, Here DEF Fits, HasRoute
<1>5. p \in Port
  BY <1>1, <1>2, Here DEF Call
<1>6. /\ r \in Claim /\ r.oauth = table[call[c].name].oauth
      /\ Bound(r) \subseteq Bound(table[call[c].name]) \cup {p}
  BY <1>3, <1>4, <1>5 DEF Claim, Bound
<1>7. PICK at \in {"port", "launch"} :
        /\ pc' = [pc EXCEPT ![c] = at]
        /\ at = "port" <=> call[c].op # "register"
  BY <1>4 DEF StoresReserve, Goto
<1>8. QED
  BY <1>1, <1>2, <1>3, <1>6, <1>7, Stored

\* The last check of a start compares what a launch relies on.
LEMMA ChecksInv ==
    ASSUME PortInv, NEW c \in Client, Checks(c)
    PROVE  PortInv'
<1>1. pc[c] = "check" /\ pc' = [pc EXCEPT ![c] = "launch"]
  BY DEF Checks, Goto
<1>2. UNCHANGED <<table, call, overlapped, sole, refused>>
  BY DEF Checks, ghosts
<1>3. call[c].op \in {"adopt", "start"} /\ call[c] \in Call
  BY <1>1, Here DEF Fits
<1>4. call' = [call EXCEPT ![c] = call[c]]
  BY <1>1, <1>2, Here
<1>5. /\ Fits("launch", call[c]) /\ HasRoute(pc[c], call[c])
      /\ ~Renames("launch", call[c]) /\ ~Unsettled(pc[c], call[c])
  BY <1>1, <1>3, Here DEF Fits, HasRoute, Renames, Unsettled
<1>6. Clear(call[c].name, Bound(table[call[c].name]))
  BY DEF Checks, checkVibePortCollisions, vibePortClaim, Clear, Bound
<1>7. Checked("launch", call[c])
  BY <1>6 DEF Checked
<1>8. QED
  BY <1>1, <1>2, <1>3, <1>4, <1>5, <1>7, WentOnLooking DEF Labels

LEMMA LaunchesInv ==
    ASSUME PortInv, NEW c \in Client, Launches(c)
    PROVE  PortInv'
<1>1. pc[c] = "launch" /\ UNCHANGED <<table, refused>>
  BY DEF Launches
<1>2. call[c].op \in {"register", "adopt", "start"} /\ call[c] \in Call
  BY <1>1, Here DEF Fits
<1>3. HasRoute(pc[c], call[c])
  BY <1>1, <1>2 DEF HasRoute
<1>4. CASE call[c].op = "register"
  <2>1. pc' = [pc EXCEPT ![c] = "wants"] /\ UNCHANGED <<call, overlapped, sole>>
    BY <1>4 DEF Launches, Goto
  <2>2. call' = [call EXCEPT ![c] = call[c]]
    BY <1>1, <2>1, Here
  <2>3. /\ Fits("wants", call[c]) /\ ~Renames("wants", call[c])
        /\ Unsettled("wants", call[c])
    BY <1>1, <1>4, Here DEF Fits, Renames, Unsettled
  <2>4. c \notin overlapped => Checked("wants", call[c])
    BY <1>1, <1>4, Here DEF Checked
  <2>5. QED
    BY <1>1, <1>2, <1>3, <2>1, <2>2, <2>3, <2>4, WentOnLooking DEF Labels
<1>5. CASE call[c].op # "register"
  <2>1. Ends(c) /\ Accepts(c, call[c].name)
    BY <1>5 DEF Launches
  <2>2. ~Unsettled(pc[c], call[c])
    BY <1>1, <1>2, <1>5 DEF Unsettled
  <2>3. QED
    BY <1>1, <1>3, <2>1, <2>2, EndedLooking
<1>6. QED
  BY <1>4, <1>5

LEMMA RefusesInv ==
    ASSUME PortInv, NEW c \in Client, Refuses(c),
           pc[c] \in {"port", "reserve", "check", "launch"}
    PROVE  PortInv'
<1>1. /\ call[c].op \in {"register", "adopt", "start"} /\ Ends(c) /\ pc[c] # "off"
      /\ Named(call[c]) = {call[c].name} /\ call[c].name \in Name
      /\ table \in [Name -> Claim \cup {None}] /\ sole \subseteq Listed
  BY Here DEF Refuses, Fits
<1>2. CASE call[c].op = "start"
  <2>1. UNCHANGED <<table, sole, refused>> /\ ~Unsettled(pc[c], call[c])
    BY <1>2 DEF Refuses, Unsettled
  <2>2. QED
    BY <1>1, <2>1, EndedLooking
<1>3. CASE call[c].op # "start"
  <2>1. /\ table' = [table EXCEPT ![call[c].name] = None]
        /\ sole' = sole \ {call[c].name} /\ refused' = refused \ {call[c].name}
    BY <1>1, <1>3 DEF Refuses, Writes, Rewrites
  <2>2. sole' \subseteq Listed' /\ call[c].name \notin Listed'
    BY <1>1, <2>1 DEF Listed
  <2>3. BoundPortsAreDistinct'
    BY <1>1, <2>1, BoundKept DEF PortInv, Listed
  <2>4. QED
    BY <1>1, <2>1, <2>2, <2>3, Ended DEF Ends
<1>4. QED
  BY <1>2, <1>3

LEMMA UpdateValidatesInv ==
    ASSUME PortInv, NEW c \in Client, UpdateValidates(c)
    PROVE  PortInv'
<1>1. /\ pc[c] = "validate" /\ UNCHANGED <<table, call, overlapped, sole, refused>>
  BY DEF UpdateValidates, Goto, ghosts
<1>2. PICK at \in {"wants", "unlist"} : pc' = [pc EXCEPT ![c] = at]
  BY DEF UpdateValidates, Goto
<1>3. call[c].op = "update" /\ call[c] \in Call /\ call' = [call EXCEPT ![c] = call[c]]
  BY <1>1, Here DEF Fits
<1>4. /\ Fits(at, call[c]) /\ ~HasRoute(at, call[c])
      /\ Renames(at, call[c]) => Renames(pc[c], call[c])
      /\ Unsettled(at, call[c]) /\ Checked(at, call[c])
  BY <1>1, <1>3, Here DEF Fits, HasRoute, Renames, Unsettled, Checked
<1>5. QED
  BY <1>1, <1>2, <1>3, <1>4, WentOnLooking DEF Labels

\* The edit is taken back, and a new name was never in the table.
LEMMA UpdateRollsBackInv ==
    ASSUME PortInv, NEW c \in Client, UpdateRollsBack(c)
    PROVE  PortInv'
<1>1. /\ pc[c] = "validate" /\ Ends(c)
      /\ Rewrites(call[c].name, call[c].saved) /\ refused' = refused \cup {call[c].name}
  BY DEF UpdateRollsBack
<1>2. /\ call[c].saved \in Claim \cup {None}
      /\ call[c].to # call[c].name => call[c].to \notin Listed
      /\ Named(call[c]) \subseteq {call[c].name, call[c].to}
      /\ call[c].name \in Named(call[c])
  BY <1>1, Here DEF Call, Renames
<1>3. /\ table' \in [Name -> Claim \cup {None}] /\ sole' = sole \ {call[c].name}
      /\ \A n \in Name \ {call[c].name} : table'[n] = table[n]
  BY <1>1, <1>2, Here DEF Rewrites
<1>4. sole' \subseteq Listed'
  BY <1>1, <1>3, Here DEF Listed
<1>5. BoundPortsAreDistinct'
  BY <1>1, <1>3, <1>4, BoundKept DEF PortInv, Listed
<1>6. \A n \in Named(call[c]) : n \in refused' \/ n \notin Listed'
  BY <1>1, <1>2, <1>3 DEF Listed
<1>7. QED
  BY <1>1, <1>2, <1>3, <1>4, <1>5, <1>6, Ended DEF Ends

LEMMA UnlistsInv ==
    ASSUME PortInv, NEW c \in Client, Unlists(c)
    PROVE  PortInv'
<1>1. /\ pc[c] = "unlist" /\ pc' = [pc EXCEPT ![c] = "relist"]
      /\ Writes(call[c].name, None) /\ UNCHANGED <<call, overlapped>>
  BY DEF Unlists, Goto
<1>2. call[c].op = "update" /\ call[c] \in Call /\ call' = [call EXCEPT ![c] = call[c]]
  BY <1>1, Here DEF Fits
<1>3. /\ Fits("relist", call[c]) /\ ~HasRoute("relist", call[c])
      /\ Renames("relist", call[c]) => Renames(pc[c], call[c])
      /\ Unsettled("relist", call[c])
  BY <1>1, <1>2, Here DEF Fits, HasRoute, Renames, Unsettled
<1>4. /\ table' \in [Name -> Claim \cup {None}] /\ sole' = sole \ {call[c].name}
      /\ refused' = refused \ {call[c].name}
      /\ \A n \in Name \ {call[c].name} : table'[n] = table[n]
      /\ call[c].name \in Named(call[c])
  BY <1>1, Here DEF Writes, Rewrites
<1>5. sole' \subseteq Listed'
  BY <1>1, <1>4, Here DEF Listed
<1>6. BoundPortsAreDistinct'
  BY <1>1, <1>4, <1>5, BoundKept DEF PortInv, Listed
<1>7. Renames("relist", call[c]) => call[c].to \notin Listed'
  BY <1>1, <1>3, <1>4, Here DEF Renames, Listed
<1>8. Checked("relist", call[c])'
  BY <1>1, <1>2 DEF Checked
<1>9. QED
  BY <1>1, <1>2, <1>3, <1>4, <1>5, <1>6, <1>7, <1>8, WentOn DEF Labels

LEMMA RelistsInv ==
    ASSUME PortInv, NEW c \in Client, Relists(c)
    PROVE  PortInv'
<1>1. /\ pc[c] = "relist" /\ pc' = [pc EXCEPT ![c] = "wants"]
      /\ Writes(call[c].to, call[c].asked) /\ UNCHANGED <<call, overlapped>>
  BY DEF Relists, Goto
<1>2. /\ call[c].op = "update" /\ call[c] \in Call /\ call' = [call EXCEPT ![c] = call[c]]
      /\ call[c].to \in Named(call[c])
  BY <1>1, Here, NobodyAssumption DEF Fits
<1>3. /\ Fits("wants", call[c]) /\ ~HasRoute("wants", call[c])
      /\ ~Renames("wants", call[c]) /\ Unsettled("wants", call[c])
  BY <1>1, <1>2, Here DEF Fits, HasRoute, Renames, Unsettled
<1>4. /\ table' \in [Name -> Claim \cup {None}] /\ sole' = sole \ {call[c].to}
      /\ refused' = refused \ {call[c].to}
      /\ \A n \in Name \ {call[c].to} : table'[n] = table[n]
  BY <1>1, <1>2, Here DEF Writes, Rewrites, Call
<1>5. sole' \subseteq Listed'
  BY <1>1, <1>4, Here DEF Listed
<1>6. BoundPortsAreDistinct'
  BY <1>1, <1>4, <1>5, BoundKept DEF PortInv, Listed
<1>7. Checked("wants", call[c])'
  BY <1>1, <1>2 DEF Checked
<1>8. QED
  BY <1>1, <1>2, <1>3, <1>4, <1>5, <1>6, <1>7, WentOn DEF Labels

LEMMA RepairStoresInv ==
    ASSUME PortInv, NEW c \in Client, RepairStores(c)
    PROVE  PortInv'
<1>1. pc[c] = "repair" /\ Ends(c) /\ refused' = refused
  BY DEF RepairStores
<1>2. PICK q \in call[c].ports : Rewrites(call[c].name, [table[call[c].name] EXCEPT !.port = q])
  BY DEF RepairStores
<1>3. PICK r : r = [table[call[c].name] EXCEPT !.port = q]
  OBVIOUS
<1>4. call[c].op = "repair" /\ call[c].name \in Listed /\ table[call[c].name] \in Claim
  BY <1>1, Here DEF Fits, HasRoute
<1>5. r \in Claim /\ r.oauth = table[call[c].name].oauth
  <2>1. q \in Port
    BY <1>1, <1>2, Here DEF Call
  <2>2. QED
    BY <1>3, <1>4, <2>1 DEF Claim
<1>6. Named(call[c]) = {call[c].name} /\ ~Unsettled(pc[c], call[c])
  BY <1>1, <1>4, Here DEF Fits, Unsettled
<1>7. /\ table' \in [Name -> Claim \cup {None}] /\ sole' = sole \ {call[c].name}
      /\ table'[call[c].name] = r
      /\ \A n \in Name \ {call[c].name} : table'[n] = table[n]
  BY <1>1, <1>2, <1>3, <1>5, Here DEF Rewrites
<1>8. sole' \subseteq Listed'
  BY <1>1, <1>7, Here DEF Listed
<1>9. BoundPortsAreDistinct'
  BY <1>1, <1>7, <1>8, BoundKept DEF PortInv, Listed
<1>10. QED
  BY <1>1, <1>4, <1>5, <1>6, <1>7, <1>8, <1>9, Ended DEF Ends

-----------------------------------------------------------------------------
\* Reconciliation

\* Who finds no conflict knows that no two routes share a callback port.
LEMMA WantsInv ==
    ASSUME PortInv, NEW c \in Client, Wants(c)
    PROVE  PortInv'
<1>1. /\ pc[c] = "wants" /\ pc' = [pc EXCEPT ![c] = "applies"] /\ ~Conflict
      /\ call' = [call EXCEPT ![c].ports = {table[n].oauth : n \in Listed} \ {0}]
      /\ UNCHANGED <<table, overlapped, sole, refused>>
  BY DEF Wants, Goto, ghosts
<1>2. PICK k : k = [call[c] EXCEPT !.ports = {table[n].oauth : n \in Listed} \ {0}]
  OBVIOUS
<1>3. {table[n].oauth : n \in Listed} \ {0} \subseteq Port
  <2>1. \A n \in Listed : table[n].oauth \in Port \cup {0}
    BY <1>1, Here DEF Listed, Claim
  <2>2. QED
    BY <2>1
<1>4. /\ k \in Call /\ k.op = call[c].op /\ k.name = call[c].name /\ k.to = call[c].to
      /\ call' = [call EXCEPT ![c] = k]
  BY <1>1, <1>2, <1>3, Here DEF Call
<1>5. /\ pc'[c] = "applies" /\ call'[c] = k
      /\ pc' \in [Client -> Labels] /\ call' \in [Client -> Call]
      /\ \A d \in Client \ {c} : pc'[d] = pc[d] /\ call'[d] = call[d]
      /\ Named(call'[c]) = Named(call[c])
      /\ Listed' = Listed /\ table' \in [Name -> Claim \cup {None}] /\ sole' \subseteq Listed'
  BY <1>1, <1>4, Here DEF Labels, Named, Listed
<1>6. Moves(c)
  BY <1>1, <1>5 DEF Moves
<1>7. Sits(c)'
  <2>1. Fits("applies", k) /\ ~Renames("applies", k)
    BY <1>1, <1>4, Here DEF Fits, Renames
  <2>2. HasRoute("applies", k) => k.name \in Listed
    BY <1>1, <1>4, Here DEF HasRoute
  <2>3. QED
    BY <1>5, <2>1, <2>2 DEF Sits
<1>8. \A d \in Client \ {c} : Named(call[d]) \cap Named(call'[c]) = {}
  BY <1>5 DEF PortInv, Apart
<1>9. Covered'
  <2>1. ASSUME NEW n \in Listed, NEW m \in Listed PROVE ~Clash(n, m)
    BY <1>1 DEF Conflict, validateOAuthBridgeConfig, Clash, Others
  <2>2. \A n, m \in Listed' \ refused' : ~Clash(n, m)'
    BY <1>1, <1>5, <2>1 DEF Clash
  <2>3. QED
    BY <2>2 DEF Covered
<1>10. Solo'
  <2>1. c \notin overlapped => Checked("applies", k)
    BY <1>1, <1>4, Here DEF Checked
  <2>2. c \notin overlapped => Checked(pc[c], call[c])'
    BY <1>1, <1>5, <2>1 DEF Checked, Clear, Others, Listed
  <2>3. QED
    BY <1>1, <1>6, <2>2, SoloKept
<1>11. BoundPortsAreDistinct'
  BY <1>1, BoundKept DEF PortInv
<1>12. QED
  BY <1>5, <1>6, <1>7, <1>8, <1>9, <1>10, <1>11, PlacedKept DEF PortInv

LEMMA AppliesInv ==
    ASSUME PortInv, NEW c \in Client, Applies(c)
    PROVE  PortInv'
<1>1. pc[c] = "applies" /\ UNCHANGED <<table, refused>> /\ Succeeds(c)
  BY DEF Applies
<1>2. /\ call[c].op \in {"register", "start", "deregister", "update"} /\ call[c] \in Call
      /\ ~Unsettled(pc[c], call[c])
  BY <1>1, Here DEF Fits, Unsettled
<1>3. CASE call[c].op = "register"
  <2>1. Ends(c) /\ Accepts(c, call[c].name)
    BY <1>1, <1>3 DEF Succeeds
  <2>2. HasRoute(pc[c], call[c])
    BY <1>1, <1>3 DEF HasRoute
  <2>3. QED
    BY <1>1, <1>2, <1>3, <2>1, <2>2, EndedLooking
<1>4. CASE call[c].op = "start"
  <2>1. /\ call' = [call EXCEPT ![c].ports = {}, ![c].saved = None]
        /\ UNCHANGED <<overlapped, sole>>
    BY <1>1, <1>4 DEF Succeeds
  <2>2. PICK at \in {"port", "check"} : pc' = [pc EXCEPT ![c] = at]
    BY <1>1, <1>4 DEF Succeeds, Goto
  <2>3. PICK k : k = [call[c] EXCEPT !.ports = {}, !.saved = None]
    OBVIOUS
  <2>4. /\ k \in Call /\ k.op = call[c].op /\ k.name = call[c].name /\ k.to = call[c].to
        /\ call' = [call EXCEPT ![c] = k]
    BY <1>1, <2>1, <2>3, Here DEF Call
  <2>5. /\ Fits(at, k) /\ HasRoute(pc[c], call[c]) /\ ~Renames(at, k) /\ Checked(at, k)
    BY <1>1, <1>4, <2>4, Here DEF Fits, HasRoute, Renames, Checked
  <2>6. QED
    BY <1>1, <1>2, <2>1, <2>2, <2>4, <2>5, WentOnLooking DEF Labels
<1>5. CASE call[c].op \in {"deregister", "update"}
  <2>1. Ends(c) /\ sole' = sole
    BY <1>1, <1>5 DEF Succeeds
  <2>2. QED
    BY <1>1, <1>2, <2>1, EndedLooking
<1>6. QED
  BY <1>2, <1>3, <1>4, <1>5

\* Who finds a conflict, or a port taken, takes its write back or is refused.
LEMMA GivesUpInv ==
    ASSUME PortInv, NEW c \in Client, pc[c] \in {"wants", "applies"},
           NEW from, GivesUp(c, from)
    PROVE  PortInv'
<1>1. /\ call[c].op \in {"register", "start", "deregister", "update"} /\ call[c] \in Call
      /\ Ends(c) /\ pc[c] # "off"
  BY Here DEF GivesUp, Fits
<1>2. CASE call[c].op = "register"
  <2>1. Writes(call[c].name, None)
    BY <1>2 DEF GivesUp
  <2>2. /\ Named(call[c]) = {call[c].name} /\ sole' = sole \ {call[c].name}
        /\ table' \in [Name -> Claim \cup {None}] /\ table'[call[c].name] = None
        /\ \A n \in Name \ {call[c].name} : table'[n] = table[n]
        /\ refused' = refused \ {call[c].name}
    BY <1>2, <2>1, Here DEF Fits, Writes, Rewrites
  <2>3. sole' \subseteq Listed' /\ call[c].name \notin Listed'
    BY <2>2, Here DEF Listed
  <2>4. BoundPortsAreDistinct'
    BY <2>2, <2>3, BoundKept DEF PortInv, Listed
  <2>5. QED
    BY <1>1, <2>2, <2>3, <2>4, Ended DEF Ends
<1>3. CASE call[c].op = "update"
  <2> DEFINE n == call[c].name
             m == call[c].to
  <2>1. /\ table' = IF m = n THEN [table EXCEPT ![n] = call[c].saved]
                    ELSE [table EXCEPT ![m] = None, ![n] = call[c].saved]
        /\ sole' = sole \ {n, m} /\ refused' = refused \cup {n}
    BY <1>3 DEF GivesUp
  <2>2. /\ n \in Name /\ m \in Name /\ Named(call[c]) = {n, m}
        /\ call[c].saved \in Claim \cup {None}
    BY <1>1, <1>3, Here, NobodyAssumption DEF Fits, Call
  <2>3. /\ table' \in [Name -> Claim \cup {None}]
        /\ m # n => table'[m] = None
        /\ \A x \in Name \ {n, m} : table'[x] = table[x]
    BY <2>1, <2>2, Here
  <2>4. sole' \subseteq Listed'
    BY <2>1, <2>3, Here DEF Listed
  <2>5. BoundPortsAreDistinct'
    BY <2>1, <2>3, <2>4, BoundKept DEF PortInv, Listed
  <2>6. \A x \in Named(call[c]) : x \in refused' \/ x \notin Listed'
    BY <2>1, <2>2, <2>3 DEF Listed
  <2>7. QED
    BY <1>1, <2>1, <2>2, <2>3, <2>4, <2>5, <2>6, Ended DEF Ends
<1>4. CASE call[c].op = "start"
  <2>1. UNCHANGED <<table, sole>> /\ refused' = refused \cup {call[c].name}
    BY <1>4 DEF GivesUp
  <2>2. Named(call[c]) = {call[c].name}
    BY <1>4, Here DEF Fits
  <2>3. QED
    BY <1>1, <2>1, <2>2, EndedLooking
<1>5. CASE call[c].op = "deregister"
  <2>1. UNCHANGED <<table, sole, refused>> /\ ~Unsettled(pc[c], call[c])
    BY <1>5 DEF GivesUp, Unsettled
  <2>2. QED
    BY <1>1, <2>1, EndedLooking
<1>6. QED
  BY <1>1, <1>2, <1>3, <1>4, <1>5

-----------------------------------------------------------------------------
\* What happens beside the calls

LEMMA Unmoved ==
    PortInv /\ UNCHANGED <<table, pc, call, overlapped, sole, refused>> => PortInv'
<1> SUFFICES ASSUME PortInv, UNCHANGED <<table, pc, call, overlapped, sole, refused>>
             PROVE  PortInv'
  OBVIOUS
<1>1. Typed' /\ Placed' /\ Apart'
  BY DEF PortInv, Typed, Placed, Sits, Apart, Listed
<1>2. Covered'
  BY DEF PortInv, Covered, Clash, Listed
<1>3. Solo'
  BY DEF PortInv, Solo, Busy, Checked, Clear, Others, Listed
<1>4. BoundPortsAreDistinct'
  BY DEF PortInv, BoundPortsAreDistinct
<1>5. QED
  BY <1>1, <1>2, <1>3, <1>4 DEF PortInv

\* A route that goes away clashes with none, and no call is about it.
LEMMA VanishesInv ==
    ASSUME PortInv, NEW n \in Name, Vanishes(n)
    PROVE  PortInv'
<1>1. /\ table' = [table EXCEPT ![n] = None] /\ sole' = sole \ {n}
      /\ refused' = refused \ {n} /\ overlapped' = overlapped \cup Busy
      /\ pc' = pc /\ call' = call
      /\ table \in [Name -> Claim \cup {None}] /\ sole \subseteq Listed
  BY DEF Vanishes, Writes, Rewrites, PortInv, Typed
<1>2. /\ table' \in [Name -> Claim \cup {None}]
      /\ Listed' = Listed \ {n}
      /\ \A m \in Listed' : table'[m] = table[m]
  BY <1>1 DEF Listed
<1>3. Typed'
  BY <1>1, <1>2 DEF PortInv, Typed
<1>4. ASSUME NEW c \in Client
      PROVE  Sits(c)'
  <2>1. Sits(c)
    BY DEF PortInv, Placed
  <2>2. HasRoute(pc[c], call[c]) => call[c].name \in Listed'
    <3>1. SUFFICES ASSUME HasRoute(pc[c], call[c]) PROVE call[c].name \in Listed \ {n}
      BY <1>2
    <3>2. c \in Busy /\ call[c].name \in Listed
      BY <2>1, <3>1 DEF HasRoute, Busy, Sits
    <3>3. call[c].name \in Named(call[c])
      BY <3>2, NobodyAssumption DEF Named, Listed
    <3>4. QED
      BY <3>2, <3>3 DEF Vanishes, Free
  <2>3. QED
    BY <1>1, <1>2, <2>1, <2>2 DEF Sits
<1>5. Covered'
  <2>1. ASSUME NEW x \in Listed' \ refused', NEW y \in Listed' \ refused', Clash(x, y)'
        PROVE  \E c \in Client : /\ Unsettled(pc[c], call[c])
                                 /\ {x, y} \cap Named(call[c]) # {}
    <3>1. x \in Listed \ refused /\ y \in Listed \ refused /\ Clash(x, y)
      BY <1>1, <1>2, <2>1 DEF Clash
    <3>2. QED
      BY <3>1 DEF PortInv, Covered
  <2>2. QED
    BY <1>1, <2>1 DEF Covered
<1>6. Solo'
  BY <1>1 DEF Solo, Busy
<1>7. BoundPortsAreDistinct'
  BY <1>1, <1>2, <1>3, BoundKept DEF PortInv, Typed
<1>8. QED
  BY <1>1, <1>3, <1>4, <1>5, <1>6, <1>7 DEF PortInv, Placed, Apart

-----------------------------------------------------------------------------
LEMMA InitPorts == Init => PortInv
<1> SUFFICES ASSUME Init PROVE PortInv
  OBVIOUS
<1>1. NoCall \in Call /\ Named(NoCall) = {} /\ Listed = {} /\ Busy = {}
  BY DEF Init, Call, NoCall, Named, Listed, Busy
<1>2. \A c \in Client : pc[c] = "off" /\ call[c] = NoCall
  BY DEF Init
<1>3. Typed
  BY <1>1 DEF Init, Typed, Labels
<1>4. Placed /\ Apart
  BY <1>1, <1>2 DEF Placed, Sits, Fits, HasRoute, Renames, Apart, NoCall
<1>5. Covered /\ Solo /\ BoundPortsAreDistinct
  BY <1>1 DEF Init, Covered, Solo, BoundPortsAreDistinct
<1>6. QED
  BY <1>3, <1>4, <1>5 DEF PortInv

LEMMA RequestsInv ==
    ASSUME PortInv, NEW c \in Client, Requests(c)
    PROVE  PortInv'
BY RegisterChecksInv, AdoptDiscoversInv, StartBeginsInv, StartSyncsInv,
   DeregistersInv, UpdateEditsInv, RepairFindsInv DEF Requests

LEMMA ContinuesInv ==
    ASSUME PortInv, NEW c \in Client, Continues(c)
    PROVE  PortInv'
<1>1. CASE Adds(c) \/ FindsFree(c) \/ StoresPort(c) \/ StoresReserve(c)
  BY <1>1, AddsInv, FindsFreeInv, StoresPortInv, StoresReserveInv
<1>2. CASE FindsNone(c) \/ ChecksFail(c) \/ LaunchFails(c)
  BY <1>2, RefusesInv DEF FindsNone, ChecksFail, LaunchFails
<1>3. CASE Checks(c) \/ Launches(c)
  BY <1>3, ChecksInv, LaunchesInv
<1>4. CASE UpdateValidates(c) \/ UpdateRollsBack(c) \/ Unlists(c) \/ Relists(c)
  BY <1>4, UpdateValidatesInv, UpdateRollsBackInv, UnlistsInv, RelistsInv
<1>5. CASE Wants(c) \/ Applies(c)
  BY <1>5, WantsInv, AppliesInv
<1>6. CASE WantsFail(c)
  BY <1>6, GivesUpInv DEF WantsFail
<1>7. CASE AppliesFail(c)
  BY <1>7, GivesUpInv DEF AppliesFail
<1>8. CASE RepairStores(c)
  BY <1>8, RepairStoresInv
<1>9. QED
  BY <1>1, <1>2, <1>3, <1>4, <1>5, <1>6, <1>7, <1>8 DEF Continues

LEMMA BesideInv == PortInv /\ Beside => PortInv'
<1> SUFFICES ASSUME PortInv, Beside PROVE PortInv'
  OBVIOUS
<1>1. CASE \E n \in Name : Vanishes(n)
  BY <1>1, VanishesInv
<1>2. CASE \E n \in Name : ServerLeaves(n)
  BY <1>2, Unmoved DEF ServerLeaves, ghosts
<1>3. CASE \E n \in Name, q \in Roamed : ServerRebinds(n, q)
  BY <1>3, Unmoved DEF ServerRebinds, ghosts
<1>4. CASE \E p \in Port : StrangerBinds(p) \/ StrangerLeaves(p)
  BY <1>4, Unmoved DEF StrangerBinds, StrangerLeaves, ghosts
<1>5. QED
  BY <1>1, <1>2, <1>3, <1>4 DEF Beside

LEMMA NextPorts == PortInv /\ [Next]_vars => PortInv'
<1> SUFFICES ASSUME PortInv, [Next]_vars PROVE PortInv'
  OBVIOUS
<1>1. CASE UNCHANGED vars
  BY <1>1, Unmoved DEF vars, ghosts
<1>2. CASE Next
  BY <1>2, BesideInv, RequestsInv, ContinuesInv DEF Next
<1>3. QED
  BY <1>1, <1>2

LEMMA Invariant == Spec => []PortInv
BY InitPorts, NextPorts, PTL DEF Spec

\* No two routes share a callback port once no call is in flight, except one
\* whose call was refused: validateOAuthBridgeConfig compares before the table
\* is written, and the reconciliation that ends the call compares again.
THEOREM Callbacks == Spec => []CallbackIsExclusive
<1>1. PortInv => CallbackIsExclusive
  <2> SUFFICES ASSUME PortInv, Quiet,
                      NEW n \in Listed \ refused, NEW m \in Listed \ refused, Clash(n, m)
               PROVE  FALSE
    BY DEF CallbackIsExclusive, Clash
  <2>1. PICK c \in Client : Unsettled(pc[c], call[c])
    BY DEF PortInv, Covered
  <2>2. pc[c] = "off" /\ call[c] = NoCall
    BY DEF Quiet, Busy, PortInv, Placed, Sits, Fits
  <2>3. QED
    BY <2>1, <2>2 DEF Unsettled, NoCall
<1>2. QED
  BY <1>1, Invariant, PTL

\* Routes whose claims a call checked while no other ran bind different ports
\* of findFreePort's range: the comparisons of vibePortClaim and findFreePort
\* still hold when the claims are stored.
THEOREM BoundPorts == Spec => []BoundPortsAreDistinct
<1>1. PortInv => BoundPortsAreDistinct
  BY DEF PortInv
<1>2. QED
  BY <1>1, Invariant, PTL

-----------------------------------------------------------------------------
\* The listeners

\* The call has changed a callback port for good and not reconciled since: it
\* will reconcile, alone or not, or fail.
Unreconciled(l, k) ==
    \/ k.op = "register" /\ l \notin {"off", "add"}
    \/ k.op # "register" /\ l \in {"unlist", "relist", "wants", "applies"}

\* The callback port p is n's, by an edit under validation not yet.
Editing(c, n) == pc[c] = "validate" /\ call[c].name = n

Stands(n, p) ==
    \/ /\ n \in Listed /\ table[n].oauth = p
       /\ \A c \in Client : ~Editing(c, n)
    \/ \E c \in Client : Editing(c, n) /\ call[c].saved.oauth = p

Asks(p) == \E n \in Listed : table[n].oauth = p

\* What a call knows of the callback ports.
Knows(c) ==
    LET k == call[c] IN
    /\ k.op = "adopt" /\ pc[c] = "add" => k.name \notin Listed
    /\ k.op = "adopt" /\ pc[c] \notin {"off", "add"} => table[k.name].oauth = 0
    /\ pc[c] = "validate" => k.saved \in Claim
    /\ pc[c] = "applies" /\ c \notin overlapped =>
          \A p \in Port : p \in k.ports <=> Asks(p)

\* The daemon listens where the last reconciliation left it to, whatever calls
\* that leave the callback ports alone, or may yet take them back, are doing.
Tidy ==
    matched /\ (\A c \in Client : ~Unreconciled(pc[c], call[c])) =>
        \A p \in Port : listening[p] = Bridge <=> \E n \in Name : Stands(n, p)

ListenInv ==
    /\ listening \in [Port -> Name \cup {Nobody, Stranger, Bridge}]
    /\ \A c \in Client : Knows(c)
    /\ Tidy

\* What a step of the call of c leaves alone.
Moved(c) ==
    /\ \A d \in Client \ {c} : pc'[d] = pc[d] /\ call'[d] = call[d]
    /\ \A n \in Name \ (Named(call[c]) \cup Named(call'[c])) : table'[n] = table[n]
    /\ \A d \in Client \ {c} :
          /\ d \in overlapped => d \in overlapped'
          /\ d \in Busy /\ pc[c] = "off" => d \in overlapped'

\* The listeners a step opens or closes for a server or a stranger are none of
\* the daemon's.
SameBridges ==
    /\ listening' \in [Port -> Name \cup {Nobody, Stranger, Bridge}]
    /\ \A p \in Port : listening'[p] = Bridge <=> listening[p] = Bridge

\* No callback port changes hands for good.
SameStands == \A n \in Name, p \in Port : Stands(n, p)' <=> Stands(n, p)

\* What the others know stays true: nobody touches the routes they name, and
\* one that was alone is no longer.
LEMMA OthersKnow ==
    ASSUME PortInv, PortInv', ListenInv, NEW c \in Client, Moved(c),
           NEW d \in Client \ {c}
    PROVE  Knows(d)'
<1>1. /\ Knows(d) /\ pc'[d] = pc[d] /\ call'[d] = call[d]
      /\ Sits(d) /\ Typed /\ Solo
  BY DEF ListenInv, Moved, PortInv, Placed
<1>2. CASE pc[d] = "off"
  BY <1>1, <1>2 DEF Knows, Sits, Fits, NoCall
<1>3. CASE pc[d] # "off"
  <2>1. call[d].name \in Name /\ call[d].name \in Named(call[d])
    BY <1>1, <1>3, NobodyAssumption DEF Sits, Fits, Named
  <2>2. call[d].name \notin Named(call[c]) \cup Named(call'[c])
    BY <1>1, <2>1 DEF PortInv, Apart
  <2>3. table'[call[d].name] = table[call[d].name]
    BY <2>1, <2>2 DEF Moved
  <2>4. d \in overlapped'
    <3>1. CASE d \in overlapped
      BY <3>1 DEF Moved
    <3>2. CASE d \notin overlapped
      <4>1. Busy = {d}
        BY <1>1, <1>3, <3>2 DEF Solo, Busy
      <4>2. pc[c] = "off"
        BY <4>1 DEF Busy
      <4>. QED
        BY <1>3, <4>2 DEF Moved, Busy
    <3>. QED
      BY <3>1, <3>2
  <2>. QED
    BY <1>1, <2>1, <2>3, <2>4 DEF Knows, Listed
<1>. QED
  BY <1>2, <1>3

\* A step of c that lets go of no unreconciled change, or makes one.
LEMMA Listens ==
    ASSUME PortInv, PortInv', ListenInv, NEW c \in Client, Moved(c), Knows(c)',
           listening' \in [Port -> Name \cup {Nobody, Stranger, Bridge}],
           \/ ~matched'
           \/ Unreconciled(pc'[c], call'[c])
           \/ /\ matched /\ SameBridges /\ SameStands
              /\ ~Unreconciled(pc[c], call[c])
    PROVE  ListenInv'
<1>1. \A d \in Client : Knows(d)'
  BY OthersKnow
<1>2. CASE ~matched' \/ Unreconciled(pc'[c], call'[c])
  BY <1>1, <1>2 DEF ListenInv, Tidy
<1>3. CASE /\ matched /\ SameBridges /\ SameStands
           /\ ~Unreconciled(pc[c], call[c])
  <2>1. ASSUME matched', \A d \in Client : ~Unreconciled(pc'[d], call'[d])
        PROVE  \A d \in Client : ~Unreconciled(pc[d], call[d])
    BY <1>3, <2>1 DEF Moved
  <2>2. Tidy'
    BY <1>3, <2>1 DEF ListenInv, Tidy, SameBridges, SameStands
  <2>. QED
    BY <1>1, <2>2 DEF ListenInv
<1>. QED
  BY <1>2, <1>3

\* Steps of c outside the validation that keep the callback port of each route
\* c names.
LEMMA SameStanding ==
    ASSUME PortInv, NEW c \in Client, Moved(c),
           pc[c] # "validate", pc'[c] # "validate",
           \A n \in Named(call[c]) \cup Named(call'[c]), p \in Port :
              (n \in Listed' /\ table'[n].oauth = p)
                <=> (n \in Listed /\ table[n].oauth = p)
    PROVE  SameStands
<1>1. \A d \in Client, n \in Name : Editing(d, n)' <=> Editing(d, n)
  BY DEF Moved, Editing
<1>2. \A d \in Client, n \in Name : Editing(d, n) => call'[d] = call[d]
  BY DEF Moved, Editing
<1>3. \A n \in Name, p \in Port :
         (n \in Listed' /\ table'[n].oauth = p)
            <=> (n \in Listed /\ table[n].oauth = p)
  BY DEF Moved, Listed
<1>. QED
  BY <1>1, <1>2, <1>3 DEF SameStands, Stands

\* A call on its way, or at its end, that keeps the callback ports.
LEMMA KeptTidy ==
    ASSUME PortInv, PortInv', ListenInv, NEW c \in Client,
           pc[c] \notin {"off", "validate"}, pc'[c] # "validate",
           \A d \in Client \ {c} : pc'[d] = pc[d] /\ call'[d] = call[d],
           Named(call'[c]) \subseteq Named(call[c]),
           overlapped \subseteq overlapped' \cup {c},
           \A n \in Name \ Named(call[c]) : table'[n] = table[n],
           \A n \in Named(call[c]), p \in Port :
              (n \in Listed' /\ table'[n].oauth = p)
                <=> (n \in Listed /\ table[n].oauth = p),
           Knows(c)', SameBridges, matched' => matched,
           Unreconciled(pc[c], call[c]) =>
              Unreconciled(pc'[c], call'[c]) \/ ~matched'
    PROVE  ListenInv'
<1>1. Moved(c)
  BY DEF Moved
<1>2. SameStands
  BY <1>1, SameStanding
<1>. QED
  BY <1>1, <1>2, Listens DEF SameBridges

\* What is known of a call that begins.
LEMMA BegunMoves ==
    ASSUME PortInv, NEW c \in Client, NEW k \in Call, NEW at \in Labels \ {"off"},
           Begins(c, k, at), k.name \in Name,
           \A n \in Name \ {k.name} : table'[n] = table[n]
    PROVE  /\ Moved(c) /\ pc'[c] = at /\ call'[c] = k
           /\ pc[c] = "off" /\ call[c] = NoCall
           /\ Named(call[c]) = {} /\ k.name \in Named(call'[c])
           /\ ~Unreconciled(pc[c], call[c])
<1>1. /\ pc[c] = "off" /\ pc'[c] = at /\ call'[c] = k
      /\ \A d \in Client \ {c} : pc'[d] = pc[d] /\ call'[d] = call[d]
  BY DEF Begins, PortInv, Typed
<1>2. call[c] = NoCall /\ Named(call[c]) = {}
  <2>1. call[c] = NoCall
    BY <1>1 DEF PortInv, Placed, Sits, Fits
  <2>2. Named(NoCall) = {}
    BY DEF Named, NoCall
  <2>. QED
    BY <2>1, <2>2
<1>3. k.name \in Named(k)
  BY NobodyAssumption DEF Named
<1>4. \A d \in Client \ {c} :
          /\ d \in overlapped => d \in overlapped'
          /\ d \in Busy => d \in overlapped'
  BY DEF Begins, Busy
<1>5. Moved(c)
  BY <1>1, <1>3, <1>4 DEF Moved
<1>. QED
  BY <1>1, <1>2, <1>3, <1>5 DEF Unreconciled, NoCall

\* One that begins by looking only ...
LEMMA BegunTidy ==
    ASSUME PortInv, PortInv', ListenInv, NEW c \in Client, NEW k \in Call,
           NEW at \in Labels \ {"off", "validate", "applies"},
           Begins(c, k, at), k.name \in Name,
           k.op = "adopt" => at = "add" /\ k.name \notin Listed,
           UNCHANGED <<table, listening, matched>>
    PROVE  ListenInv'
<1>1. /\ Moved(c) /\ pc'[c] = at /\ call'[c] = k /\ pc[c] = "off"
      /\ ~Unreconciled(pc[c], call[c])
  BY BegunMoves
<1>2. Knows(c)'
  BY <1>1 DEF Knows, Listed
<1>3. SameBridges
  BY DEF SameBridges, ListenInv
<1>4. SameStands
  BY <1>1, SameStanding DEF Listed
<1>. QED
  BY <1>1, <1>2, <1>3, <1>4, Listens DEF SameBridges

\* ... or with a change that is to be reconciled.
LEMMA BegunChange ==
    ASSUME PortInv, PortInv', ListenInv, NEW c \in Client, NEW k \in Call,
           Begins(c, k, "wants"), k.name \in Name, k.op \notin {"adopt", "register"},
           \A n \in Name \ {k.name} : table'[n] = table[n],
           listening' \in [Port -> Name \cup {Nobody, Stranger, Bridge}]
    PROVE  ListenInv'
<1>1. Moved(c) /\ pc'[c] = "wants" /\ call'[c] = k
  BY BegunMoves DEF Labels
<1>2. Knows(c)' /\ Unreconciled(pc'[c], call'[c])
  BY <1>1 DEF Knows, Unreconciled
<1>. QED
  BY <1>1, <1>2, Listens

\* A server that goes takes none of the daemon's listeners along.
LEMMA KillsServers ==
    ASSUME ListenInv, NEW n \in Name, listening' = Kills(n)
    PROVE  SameBridges
BY NobodyAssumption DEF ListenInv, Kills, SameBridges

\* An edit under validation stands for what it replaces.
LEMMA UpdateEditsTidy ==
    ASSUME PortInv, PortInv', ListenInv, NEW c \in Client, NEW n \in Name,
           NEW m \in Name, NEW r \in Asked, UpdateEdits(c, n, m, r)
    PROVE  ListenInv'
<1>. DEFINE edit == [table[n] EXCEPT !.port = IF r.port = 0 THEN @ ELSE r.port,
                                     !.oauth = r.oauth]
<1>1. PICK e : e = edit
  OBVIOUS
<1>2. PICK k : k = [NoCall EXCEPT !.op = "update", !.name = n, !.to = m,
                                  !.asked = e, !.saved = table[n]]
  OBVIOUS
<1>3. /\ n \in Listed /\ Begins(c, k, "validate") /\ Writes(n, e)
      /\ UNCHANGED <<listening, matched>>
  BY <1>1, <1>2 DEF UpdateEdits
<1>4. /\ k.op = "update" /\ k.name = n /\ k.to = m /\ k.saved = table[n]
      /\ table[n] \in Claim
      /\ table' = [table EXCEPT ![n] = e] /\ table \in [Name -> Claim \cup {None}]
  BY <1>2, <1>3 DEF NoCall, Writes, Rewrites, Listed, PortInv, Typed
<1>5. pc'[c] = "validate" /\ call'[c] = k /\ pc[c] = "off"
  BY <1>3 DEF Begins, PortInv, Typed
<1>6. k \in Call
  BY <1>5 DEF PortInv, Typed
<1>7. Moved(c) /\ ~Unreconciled(pc[c], call[c])
  BY <1>3, <1>4, <1>6, BegunMoves DEF Labels
<1>8. Knows(c)'
  BY <1>4, <1>5 DEF Knows
<1>9. SameBridges
  BY <1>3 DEF SameBridges, ListenInv
<1>10. ASSUME NEW x \in Name, NEW p \in Port PROVE Stands(x, p)' <=> Stands(x, p)
  <2>1. CASE x = n
    <3>1. \A d \in Client : ~Editing(d, n)
      <4>1. ASSUME NEW d \in Client, Editing(d, n) PROVE FALSE
        <5>1. d \in Busy /\ n \in Named(call[d])
          BY <4>1, NobodyAssumption DEF Editing, Busy, Named
        <5>. QED
          BY <1>3, <1>4, <5>1 DEF Begins, Free
      <4>. QED
        BY <4>1
    <3>2. Stands(n, p) <=> table[n].oauth = p
      BY <1>3, <3>1 DEF Stands
    <3>3. \A d \in Client : Editing(d, n)' <=> d = c
      BY <1>4, <1>5, <1>7, <3>1 DEF Editing, Moved
    <3>4. Stands(n, p)' <=> table[n].oauth = p
      BY <1>4, <1>5, <3>3 DEF Stands
    <3>. QED
      BY <2>1, <3>2, <3>4
  <2>2. CASE x # n
    <3>1. \A d \in Client : Editing(d, x)' <=> Editing(d, x)
      BY <1>4, <1>5, <1>7, <2>2 DEF Editing, Moved
    <3>2. \A d \in Client : Editing(d, x) => call'[d] = call[d]
      BY <1>5, <1>7 DEF Editing, Moved
    <3>3. table'[x] = table[x]
      BY <1>4, <2>2
    <3>. QED
      BY <3>1, <3>2, <3>3 DEF Stands, Listed
  <2>. QED
    BY <2>1, <2>2
<1>. QED
  BY <1>3, <1>7, <1>8, <1>9, <1>10, Listens DEF SameBridges, SameStands

LEMMA RequestsTidy ==
    ASSUME PortInv, PortInv', ListenInv, NEW c \in Client, Requests(c)
    PROVE  ListenInv'
<1>1. ASSUME NEW n \in Name, NEW r \in Asked, RegisterChecks(c, n, r)
      PROVE  ListenInv'
  <2>1. PICK k : k = [NoCall EXCEPT !.op = "register", !.name = n, !.asked = r]
    OBVIOUS
  <2>2. k \in Call /\ k.name = n /\ k.op = "register"
    BY <2>1, AskedAssumption DEF NoCall, Call
  <2>3. Begins(c, k, "add") /\ UNCHANGED <<table, listening, matched>>
    BY <1>1, <2>1 DEF RegisterChecks
  <2>. QED
    BY <2>2, <2>3, BegunTidy DEF Labels
<1>2. ASSUME NEW n \in Name, NEW r \in Asked, AdoptDiscovers(c, n, r)
      PROVE  ListenInv'
  <2>1. PICK k : k = [NoCall EXCEPT !.op = "adopt", !.name = n, !.asked = r]
    OBVIOUS
  <2>2. k \in Call /\ k.name = n
    BY <2>1, AskedAssumption DEF NoCall, Call
  <2>3. /\ Begins(c, k, "add") /\ UNCHANGED <<table, listening, matched>>
        /\ n \notin Listed
    BY <1>2, <2>1 DEF AdoptDiscovers
  <2>. QED
    BY <2>2, <2>3, BegunTidy DEF Labels
<1>3. ASSUME NEW n \in Name, StartBegins(c, n) PROVE ListenInv'
  <2>1. PICK k : k = [NoCall EXCEPT !.op = "start", !.name = n]
    OBVIOUS
  <2>2. k \in Call /\ k.name = n /\ k.op = "start"
    BY <2>1 DEF NoCall, Call
  <2>3. PICK at \in {"port", "check"} : Begins(c, k, at)
    BY <1>3, <2>1 DEF StartBegins
  <2>4. UNCHANGED <<table, listening, matched>>
    BY <1>3 DEF StartBegins
  <2>. QED
    BY <2>2, <2>3, <2>4, BegunTidy DEF Labels
<1>4. ASSUME NEW n \in Name, NEW r \in Asked, StartSyncs(c, n, r)
      PROVE  ListenInv'
  <2>1. PICK e : e = [table[n] EXCEPT !.oauth = r.oauth, !.reserve = r.reserve]
    OBVIOUS
  <2>2. PICK k : k = [NoCall EXCEPT !.op = "start", !.name = n, !.saved = table[n]]
    OBVIOUS
  <2>3. k.name = n /\ k.op = "start" /\ k \in Call
    BY <2>2 DEF NoCall, Call, PortInv, Typed
  <2>4. Begins(c, k, "wants") /\ Writes(n, e) /\ listening' = listening
    BY <1>4, <2>1, <2>2 DEF StartSyncs
  <2>5. \A m \in Name \ {n} : table'[m] = table[m]
    BY <2>4 DEF Writes, Rewrites, PortInv, Typed
  <2>. QED
    BY <2>3, <2>4, <2>5, BegunChange DEF ListenInv
<1>5. ASSUME NEW n \in Name, Deregisters(c, n) PROVE ListenInv'
  <2>1. PICK k : k = [NoCall EXCEPT !.op = "deregister", !.name = n]
    OBVIOUS
  <2>2. k.name = n /\ k.op = "deregister" /\ k \in Call
    BY <2>1 DEF NoCall, Call
  <2>3. Begins(c, k, "wants") /\ Writes(n, None) /\ listening' = Kills(n)
    BY <1>5, <2>1 DEF Deregisters
  <2>4. \A m \in Name \ {n} : table'[m] = table[m]
    BY <2>3 DEF Writes, Rewrites, PortInv, Typed
  <2>5. SameBridges
    BY <2>3, KillsServers
  <2>. QED
    BY <2>2, <2>3, <2>4, <2>5, BegunChange DEF SameBridges
<1>6. ASSUME NEW n \in Name, NEW q \in Port, RepairFinds(c, n, q)
      PROVE  ListenInv'
  <2>1. PICK k : k = [NoCall EXCEPT !.op = "repair", !.name = n, !.ports = {q}]
    OBVIOUS
  <2>2. k.name = n /\ k.op = "repair" /\ k \in Call
    BY <2>1 DEF NoCall, Call
  <2>3. Begins(c, k, "repair") /\ UNCHANGED <<table, listening, matched>>
    BY <1>6, <2>1 DEF RepairFinds
  <2>. QED
    BY <2>2, <2>3, BegunTidy DEF Labels
<1>. QED
  BY <1>1, <1>2, <1>3, <1>4, <1>5, <1>6, UpdateEditsTidy DEF Requests

-----------------------------------------------------------------------------
\* The listeners, while calls go on and end

LEMMA Ongoing ==
    ASSUME PortInv, NEW c \in Client, pc[c] # "off", NEW at, NEW k,
           pc' = [pc EXCEPT ![c] = at], call' = [call EXCEPT ![c] = k],
           overlapped \subseteq overlapped' \cup {c},
           \A n \in Name \ Named(call[c]) : table'[n] = table[n]
    PROVE  Moved(c) /\ pc'[c] = at /\ call'[c] = k
BY DEF Moved, PortInv, Typed

\* A step that keeps the callback ports of the call's routes ...
LEMMA WentOnTidy ==
    ASSUME PortInv, PortInv', ListenInv, NEW c \in Client,
           pc[c] \notin {"off", "validate", "add"},
           NEW k, NEW at \in Labels \ {"off", "add", "validate", "applies"},
           pc' = [pc EXCEPT ![c] = at], call' = [call EXCEPT ![c] = k],
           k.op = call[c].op, k.name = call[c].name, k.to = call[c].to,
           \A n \in Name : /\ n \in Listed' <=> n \in Listed
                           /\ table'[n].oauth = table[n].oauth,
           \A n \in Name \ Named(call[c]) : table'[n] = table[n],
           SameBridges, overlapped' = overlapped, matched' = matched,
           Unreconciled(pc[c], call[c]) => Unreconciled(at, k)
    PROVE  ListenInv'
<1>1. Moved(c) /\ pc'[c] = at /\ call'[c] = k /\ call[c].name \in Name
  BY Ongoing, Here
<1>2. Named(call'[c]) = Named(call[c])
  BY <1>1 DEF Named
<1>3. Knows(c)'
  BY <1>1 DEF Knows, ListenInv
<1>4. \A n \in Named(call[c]) : n \in Name
  BY Here DEF Named, Fits
<1>. QED
  BY <1>1, <1>2, <1>3, <1>4, KeptTidy DEF Moved

\* ... and one that ends the call, having reconciled what it changed.
LEMMA EndedTidy ==
    ASSUME PortInv, PortInv', ListenInv, NEW c \in Client,
           pc[c] \notin {"off", "validate"}, Ends(c),
           \A n \in Name \ Named(call[c]) : table'[n] = table[n],
           \A n \in Name, p \in Port :
              (n \in Listed' /\ table'[n].oauth = p)
                <=> (n \in Listed /\ table[n].oauth = p),
           SameBridges, matched' => matched,
           ~Unreconciled(pc[c], call[c]) \/ ~matched'
    PROVE  ListenInv'
<1>1. Moved(c) /\ pc'[c] = "off" /\ call'[c] = NoCall
  BY Ongoing DEF Ends
<1>2. Named(call'[c]) = {}
  BY <1>1 DEF Named, NoCall
<1>3. Knows(c)'
  BY <1>1 DEF Knows, NoCall
<1>4. \A n \in Named(call[c]) : n \in Name
  BY Here DEF Named, Fits
<1>5. overlapped \subseteq overlapped' \cup {c}
  BY DEF Ends
<1>. QED
  BY <1>1, <1>2, <1>3, <1>4, <1>5, KeptTidy DEF Moved

LEMMA AddsTidy ==
    ASSUME PortInv, PortInv', ListenInv, NEW c \in Client, Adds(c)
    PROVE  ListenInv'
<1>1. PICK k : k = [call[c] EXCEPT !.asked = None]
  OBVIOUS
<1>2. PICK r : r = call[c].asked
  OBVIOUS
<1>3. pc[c] = "add" /\ UNCHANGED <<listening, overlapped, matched>>
  BY DEF Adds, Goto
<1>4. /\ r \in Claim /\ call[c].op \in {"register", "adopt"}
      /\ call[c].op = "adopt" => r.oauth = 0
      /\ call[c].name \in Name /\ Named(call[c]) = {call[c].name}
  BY <1>2, <1>3, Here DEF Fits
<1>5. /\ k.op = call[c].op /\ k.name = call[c].name /\ k.to = call[c].to
      /\ call' = [call EXCEPT ![c] = k]
  BY <1>1, <1>3, Here DEF Call, Adds
<1>6. PICK at \in {"port", "launch", "wants", "reserve"} :
        /\ pc' = [pc EXCEPT ![c] = at]
        /\ at = "reserve" <=> k.op = "adopt"
  BY <1>2, <1>4, <1>5 DEF Adds, Goto
<1>7. /\ table'[k.name] = r
      /\ \A m \in Name \ {k.name} : table'[m] = table[m]
  BY <1>2, <1>3, <1>4, <1>5, Here DEF Adds, Writes, Rewrites
<1>8. Moved(c) /\ pc'[c] = at /\ call'[c] = k
  BY <1>3, <1>4, <1>5, <1>6, <1>7, Ongoing
<1>9. Knows(c)'
  BY <1>4, <1>5, <1>6, <1>7, <1>8 DEF Knows
<1>10. SameBridges
  BY <1>3 DEF SameBridges, ListenInv
<1>11. CASE k.op = "register"
  <2>1. Unreconciled(pc'[c], call'[c])
    BY <1>6, <1>8, <1>11 DEF Unreconciled
  <2>. QED
    BY <1>8, <1>9, <1>10, <2>1, Listens DEF SameBridges
<1>12. CASE k.op = "adopt"
  <2>1. k.name \notin Listed /\ ~Unreconciled(pc[c], call[c])
    BY <1>3, <1>5, <1>12 DEF ListenInv, Knows, Unreconciled
  <2>2. \A p \in Port : ~(k.name \in Listed' /\ table'[k.name].oauth = p)
    BY <1>4, <1>5, <1>7, <1>12, PortAssumption
  <2>3. Named(call'[c]) = Named(call[c])
    BY <1>5, <1>8 DEF Named
  <2>4. SameStands
    BY <1>3, <1>4, <1>5, <1>6, <1>8, <2>1, <2>2, <2>3, SameStanding
  <2>. QED
    BY <1>3, <1>8, <1>9, <1>10, <2>1, <2>4, Listens DEF SameBridges, ListenInv, Tidy
<1>. QED
  BY <1>4, <1>5, <1>11, <1>12

LEMMA FindsFreeTidy ==
    ASSUME PortInv, PortInv', ListenInv, NEW c \in Client, FindsFree(c)
    PROVE  ListenInv'
<1>1. PICK p \in findFreePort : call' = [call EXCEPT ![c].ports = {p}]
  BY DEF FindsFree
<1>2. PICK k : k = [call[c] EXCEPT !.ports = {p}]
  OBVIOUS
<1>3. PICK at \in {"storePort", "storeReserve"} :
        pc' = [pc EXCEPT ![c] = at] /\ pc[c] \in {"port", "reserve"}
  BY DEF FindsFree, Goto
<1>4. /\ k.op = call[c].op /\ k.name = call[c].name /\ k.to = call[c].to
      /\ call' = [call EXCEPT ![c] = k]
  BY <1>1, <1>2, <1>3, Here DEF Call
<1>5. UNCHANGED <<table, listening, overlapped, matched>> /\ SameBridges
  BY DEF FindsFree, ghosts, SameBridges, ListenInv
<1>6. Unreconciled(pc[c], call[c]) => Unreconciled(at, k)
  BY <1>3, <1>4 DEF Unreconciled
<1>. QED
  BY <1>3, <1>4, <1>5, <1>6, WentOnTidy DEF Labels, Listed

\* A write of claims with the callback port that the route has.
LEMMA OauthKept ==
    ASSUME PortInv, NEW n \in Listed, NEW r \in Claim, Rewrites(n, r),
           r.oauth = table[n].oauth
    PROVE  /\ \A m \in Name : /\ m \in Listed' <=> m \in Listed
                              /\ table'[m].oauth = table[m].oauth
           /\ \A m \in Name \ {n} : table'[m] = table[m]
<1>1. table' = [table EXCEPT ![n] = r] /\ table \in [Name -> Claim \cup {None}]
  BY DEF Rewrites, PortInv, Typed
<1>2. n \in Name /\ table'[n] = r /\ \A m \in Name \ {n} : table'[m] = table[m]
  BY <1>1 DEF Listed
<1>. QED
  BY <1>2, NoneAssumption DEF Listed

LEMMA StoredTidy ==
    ASSUME PortInv, PortInv', ListenInv, NEW c \in Client,
           pc[c] \in {"storePort", "storeReserve"},
           NEW r \in Claim, Rewrites(call[c].name, r),
           r.oauth = table[call[c].name].oauth,
           NEW at \in {"check", "reserve", "port", "launch"},
           pc' = [pc EXCEPT ![c] = at], call' = [call EXCEPT ![c].ports = {}],
           UNCHANGED <<listening, overlapped, matched>>
    PROVE  ListenInv'
<1>1. PICK k : k = [call[c] EXCEPT !.ports = {}]
  OBVIOUS
<1>2. call[c].op \in {"register", "adopt", "start"} /\ call[c].name \in Listed
  BY Here DEF Fits, HasRoute
<1>3. /\ k.op = call[c].op /\ k.name = call[c].name /\ k.to = call[c].to
      /\ call' = [call EXCEPT ![c] = k]
  BY <1>1, Here DEF Call
<1>4. /\ \A m \in Name : /\ m \in Listed' <=> m \in Listed
                         /\ table'[m].oauth = table[m].oauth
      /\ \A m \in Name \ Named(call[c]) : table'[m] = table[m]
  BY <1>2, OauthKept, Here
<1>5. SameBridges
  BY DEF SameBridges, ListenInv
<1>6. Unreconciled(pc[c], call[c]) => Unreconciled(at, k)
  BY <1>3 DEF Unreconciled
<1>. QED
  BY <1>3, <1>4, <1>5, <1>6, WentOnTidy DEF Labels

LEMMA StoresPortTidy ==
    ASSUME PortInv, PortInv', ListenInv, NEW c \in Client, StoresPort(c)
    PROVE  ListenInv'
<1>1. /\ pc[c] = "storePort" /\ call' = [call EXCEPT ![c].ports = {}]
      /\ UNCHANGED <<listening, overlapped, matched>>
  BY DEF StoresPort, Goto
<1>2. PICK p \in call[c].ports : Rewrites(call[c].name, [table[call[c].name] EXCEPT !.port = p])
  BY DEF StoresPort
<1>3. PICK r : r = [table[call[c].name] EXCEPT !.port = p]
  OBVIOUS
<1>4. call[c].op \in {"register", "adopt", "start"} /\ table[call[c].name] \in Claim
  BY <1>1, Here DEF Fits, HasRoute
<1>5. p \in Port
  BY <1>1, <1>2, Here DEF Call
<1>6. r \in Claim /\ r.oauth = table[call[c].name].oauth
  BY <1>3, <1>4, <1>5 DEF Claim
<1>7. PICK at \in {"check", "reserve", "launch"} : pc' = [pc EXCEPT ![c] = at]
  BY <1>4 DEF StoresPort, Goto
<1>. QED
  BY <1>1, <1>2, <1>3, <1>6, <1>7, StoredTidy

LEMMA StoresReserveTidy ==
    ASSUME PortInv, PortInv', ListenInv, NEW c \in Client, StoresReserve(c)
    PROVE  ListenInv'
<1>1. /\ pc[c] = "storeReserve" /\ call' = [call EXCEPT ![c].ports = {}]
      /\ UNCHANGED <<listening, overlapped, matched>>
  BY DEF StoresReserve, Goto
<1>2. PICK p \in call[c].ports :
        Rewrites(call[c].name, [table[call[c].name] EXCEPT !.reserve = p])
  BY DEF StoresReserve
<1>3. PICK r : r = [table[call[c].name] EXCEPT !.reserve = p]
  OBVIOUS
<1>4. call[c].op \in {"register", "adopt"} /\ table[call[c].name] \in Claim
  BY <1>1, Here DEF Fits, HasRoute
<1>5. p \in Port
  BY <1>1, <1>2, Here DEF Call
<1>6. r \in Claim /\ r.oauth = table[call[c].name].oauth
  BY <1>3, <1>4, <1>5 DEF Claim
<1>7. PICK at \in {"port", "launch"} : pc' = [pc EXCEPT ![c] = at]
  BY <1>4 DEF StoresReserve, Goto
<1>. QED
  BY <1>1, <1>2, <1>3, <1>6, <1>7, StoredTidy

LEMMA ChecksTidy ==
    ASSUME PortInv, PortInv', ListenInv, NEW c \in Client, Checks(c)
    PROVE  ListenInv'
<1>1. /\ pc[c] = "check" /\ pc' = [pc EXCEPT ![c] = "launch"]
      /\ UNCHANGED <<table, listening, call, overlapped, matched>>
  BY DEF Checks, Goto, ghosts
<1>2. call' = [call EXCEPT ![c] = call[c]]
  BY <1>1, Here
<1>3. SameBridges
  BY <1>1 DEF SameBridges, ListenInv
<1>4. Unreconciled(pc[c], call[c]) => Unreconciled("launch", call[c])
  BY <1>1 DEF Unreconciled
<1>. QED
  BY <1>1, <1>2, <1>3, <1>4, WentOnTidy DEF Labels, Listed

LEMMA LaunchesTidy ==
    ASSUME PortInv, PortInv', ListenInv, NEW c \in Client, Launches(c)
    PROVE  ListenInv'
<1>1. pc[c] = "launch" /\ UNCHANGED <<table, matched>>
  BY DEF Launches
<1>2. call[c].op \in {"register", "adopt", "start"} /\ call[c].name \in Name
  BY <1>1, Here DEF Fits
<1>3. SameBridges
  BY <1>2, NobodyAssumption DEF SameBridges, ListenInv, Launches
<1>4. CASE call[c].op = "register"
  <2>1. /\ pc' = [pc EXCEPT ![c] = "wants"] /\ UNCHANGED <<call, overlapped>>
        /\ call' = [call EXCEPT ![c] = call[c]]
    BY <1>1, <1>4, Here DEF Launches, Goto
  <2>2. Unreconciled("wants", call[c])
    BY <1>4 DEF Unreconciled
  <2>. QED
    BY <1>1, <1>3, <2>1, <2>2, WentOnTidy DEF Labels, Listed
<1>5. CASE call[c].op # "register"
  <2>1. Ends(c) /\ ~Unreconciled(pc[c], call[c])
    BY <1>1, <1>5 DEF Launches, Unreconciled
  <2>. QED
    BY <1>1, <1>3, <2>1, EndedTidy DEF Listed
<1>. QED
  BY <1>4, <1>5

LEMMA RefusesTidy ==
    ASSUME PortInv, PortInv', ListenInv, NEW c \in Client, Refuses(c),
           pc[c] \in {"port", "reserve", "check", "launch"}
    PROVE  ListenInv'
<1>1. /\ call[c].op \in {"register", "adopt", "start"} /\ Ends(c) /\ pc[c] # "off"
      /\ Named(call[c]) = {call[c].name} /\ call[c].name \in Name
      /\ table \in [Name -> Claim \cup {None}]
  BY Here DEF Refuses, Fits
<1>2. SameBridges
  BY DEF Refuses, SameBridges, ListenInv
<1>3. /\ call[c].op = "register" <=> Unreconciled(pc[c], call[c])
      /\ call[c].op = "register" => ~matched'
      /\ matched' => matched
  BY DEF Refuses, Unreconciled
<1>4. CASE call[c].op = "start"
  <2>1. table' = table
    BY <1>4 DEF Refuses
  <2>. QED
    BY <1>1, <1>2, <1>3, <1>4, <2>1, EndedTidy DEF Listed
<1>5. CASE call[c].op # "start"
  <2>1. /\ table'[call[c].name] = None
        /\ \A m \in Name \ {call[c].name} : table'[m] = table[m]
    BY <1>1, <1>5 DEF Refuses, Writes, Rewrites
  <2>2. CASE call[c].op = "register"
    <3>1. Moved(c) /\ pc'[c] = "off" /\ call'[c] = NoCall
      BY <1>1, <2>1, Ongoing DEF Ends
    <3>2. Knows(c)'
      BY <3>1 DEF Knows, NoCall
    <3>. QED
      BY <1>2, <1>3, <2>2, <3>1, <3>2, Listens DEF SameBridges
  <2>3. CASE call[c].op = "adopt"
    <3>1. table[call[c].name].oauth = 0
      BY <2>3 DEF ListenInv, Knows
    <3>2. \A n \in Name, p \in Port :
             (n \in Listed' /\ table'[n].oauth = p)
               <=> (n \in Listed /\ table[n].oauth = p)
      BY <2>1, <3>1, PortAssumption DEF Listed
    <3>. QED
      BY <1>1, <1>2, <1>3, <2>1, <2>3, <3>2, EndedTidy
  <2>. QED
    BY <1>1, <1>5, <2>2, <2>3
<1>. QED
  BY <1>4, <1>5

LEMMA UpdateValidatesTidy ==
    ASSUME PortInv, PortInv', ListenInv, NEW c \in Client, UpdateValidates(c)
    PROVE  ListenInv'
<1>1. /\ pc[c] = "validate"
      /\ UNCHANGED <<table, listening, call, overlapped, matched>>
  BY DEF UpdateValidates, Goto, ghosts
<1>2. PICK at \in {"wants", "unlist"} : pc' = [pc EXCEPT ![c] = at]
  BY DEF UpdateValidates, Goto
<1>3. call[c].op = "update" /\ call' = [call EXCEPT ![c] = call[c]]
  BY <1>1, Here DEF Fits
<1>4. Moved(c) /\ pc'[c] = at /\ call'[c] = call[c]
  BY <1>1, <1>2, <1>3, Ongoing
<1>5. Knows(c)' /\ Unreconciled(pc'[c], call'[c])
  BY <1>2, <1>3, <1>4 DEF Knows, Unreconciled
<1>. QED
  BY <1>1, <1>4, <1>5, Listens DEF ListenInv

\* An edit taken back leaves the callback port that stood for it.
LEMMA UpdateRollsBackTidy ==
    ASSUME PortInv, PortInv', ListenInv, NEW c \in Client, UpdateRollsBack(c)
    PROVE  ListenInv'
<1>0. PICK n : n = call[c].name
  OBVIOUS
<1>1. /\ pc[c] = "validate" /\ Ends(c) /\ Rewrites(n, call[c].saved)
      /\ UNCHANGED <<listening, matched>>
  BY <1>0 DEF UpdateRollsBack
<1>2. /\ call[c].saved \in Claim /\ n \in Name /\ n \in Named(call[c])
      /\ table \in [Name -> Claim \cup {None}]
  BY <1>0, <1>1, Here DEF ListenInv, Knows
<1>3. /\ table'[n] = call[c].saved
      /\ \A m \in Name \ {n} : table'[m] = table[m]
  BY <1>1, <1>2 DEF Rewrites
<1>4. Moved(c) /\ pc'[c] = "off" /\ call'[c] = NoCall
  <2>1. \A m \in Name \ Named(call[c]) : table'[m] = table[m]
    BY <1>2, <1>3
  <2>. QED
    BY <1>1, <2>1, Ongoing DEF Ends
<1>5. Knows(c)'
  BY <1>4 DEF Knows, NoCall
<1>6. SameBridges /\ ~Unreconciled(pc[c], call[c])
  <2>1. call[c].op = "update"
    BY <1>1, Here DEF Fits
  <2>. QED
    BY <1>1, <2>1 DEF SameBridges, ListenInv, Unreconciled
<1>7. \A d \in Client \ {c} : pc[d] # "off" => call[d].name # n
  <2>. SUFFICES ASSUME NEW d \in Client \ {c}, pc[d] # "off", call[d].name = n
                PROVE  FALSE
    OBVIOUS
  <2>1. n \in Named(call[d])
    BY Here DEF Named
  <2>. QED
    BY <1>0, <1>2, <2>1 DEF PortInv, Apart
<1>8. ASSUME NEW x \in Name, NEW p \in Port PROVE Stands(x, p)' <=> Stands(x, p)
  <2>1. CASE x = n
    <3>1. \A d \in Client : Editing(d, n) <=> d = c
      BY <1>0, <1>1, <1>7 DEF Editing
    <3>2. \A d \in Client : ~Editing(d, n)'
      BY <1>4, <1>7 DEF Editing, Moved
    <3>3. Stands(n, p) <=> call[c].saved.oauth = p
      BY <3>1 DEF Stands
    <3>4. Stands(n, p)' <=> call[c].saved.oauth = p
      BY <1>2, <1>3, <3>2, NoneAssumption DEF Stands, Listed
    <3>. QED
      BY <2>1, <3>3, <3>4
  <2>2. CASE x # n
    <3>1. \A d \in Client : Editing(d, x)' <=> Editing(d, x)
      BY <1>0, <1>4, <2>2 DEF Editing, Moved
    <3>2. \A d \in Client : Editing(d, x) => call'[d] = call[d]
      BY <1>0, <1>4, <2>2 DEF Editing, Moved
    <3>3. table'[x] = table[x]
      BY <1>3, <2>2
    <3>. QED
      BY <3>1, <3>2, <3>3 DEF Stands, Listed
  <2>. QED
    BY <2>1, <2>2
<1>. QED
  BY <1>1, <1>4, <1>5, <1>6, <1>8, Listens DEF SameBridges, SameStands, ListenInv, Tidy

LEMMA RenamesTidy ==
    ASSUME PortInv, PortInv', ListenInv, NEW c \in Client, Unlists(c) \/ Relists(c)
    PROVE  ListenInv'
<1>1. PICK at \in {"relist", "wants"} : pc' = [pc EXCEPT ![c] = at]
  BY DEF Unlists, Relists, Goto
<1>2. /\ pc[c] \in {"unlist", "relist"}
      /\ UNCHANGED <<listening, call, overlapped, matched>>
  BY DEF Unlists, Relists, Goto
<1>3. call[c].op = "update" /\ call' = [call EXCEPT ![c] = call[c]]
  BY <1>2, Here DEF Fits
<1>4. \A n \in Name \ Named(call[c]) : table'[n] = table[n]
  <2>1. /\ call[c].name \in Named(call[c])
        /\ call[c].to \in Named(call[c])
    BY <1>2, <1>3, Here, NobodyAssumption DEF Fits
  <2>2. \/ Rewrites(call[c].name, None) \/ Rewrites(call[c].to, call[c].asked)
    BY DEF Unlists, Relists, Writes
  <2>. QED
    BY <1>2, <2>1, <2>2, Here DEF Rewrites
<1>5. Moved(c) /\ pc'[c] = at /\ call'[c] = call[c]
  BY <1>1, <1>2, <1>3, <1>4, Ongoing
<1>6. Knows(c)' /\ Unreconciled(pc'[c], call'[c])
  BY <1>1, <1>3, <1>5 DEF Knows, Unreconciled
<1>. QED
  BY <1>2, <1>5, <1>6, Listens DEF ListenInv

\* Whoever has listed the callback ports knows them until somebody else calls.
LEMMA WantsTidy ==
    ASSUME PortInv, PortInv', ListenInv, NEW c \in Client, Wants(c)
    PROVE  ListenInv'
<1>1. /\ pc[c] = "wants" /\ pc' = [pc EXCEPT ![c] = "applies"]
      /\ call' = [call EXCEPT ![c].ports = {table[n].oauth : n \in Listed} \ {0}]
      /\ UNCHANGED <<table, listening, overlapped, matched>>
  BY DEF Wants, Goto, ghosts
<1>2. PICK k : k = [call[c] EXCEPT !.ports = {table[n].oauth : n \in Listed} \ {0}]
  OBVIOUS
<1>3. /\ call[c] \in Call
      /\ call[c].op \in {"register", "start", "deregister", "update"}
  BY <1>1, Here DEF Fits
<1>4. /\ k.op = call[c].op /\ k.ports = {table[n].oauth : n \in Listed} \ {0}
      /\ call' = [call EXCEPT ![c] = k]
  BY <1>1, <1>2, <1>3, Here DEF Call
<1>5. Moved(c) /\ pc'[c] = "applies" /\ call'[c] = k
  BY <1>1, <1>4, Ongoing
<1>6. \A p \in Port : p \in k.ports <=> Asks(p)
  BY <1>4, PortAssumption DEF Asks
<1>7. Knows(c)'
  BY <1>1, <1>3, <1>4, <1>5, <1>6 DEF Knows, Asks, Listed
<1>8. Unreconciled(pc'[c], call'[c])
  BY <1>3, <1>4, <1>5 DEF Unreconciled
<1>. QED
  BY <1>1, <1>5, <1>7, <1>8, Listens DEF ListenInv

\* One that gives up leaves the listeners anyhow, and says so.
LEMMA GivesUpTidy ==
    ASSUME PortInv, PortInv', ListenInv, NEW c \in Client,
           pc[c] \in {"wants", "applies"},
           NEW from \in [Port -> Name \cup {Nobody, Stranger, Bridge}],
           GivesUp(c, from)
    PROVE  ListenInv'
<1>1. /\ call[c].op \in {"register", "start", "deregister", "update"}
      /\ Ends(c) /\ ~matched' /\ call[c].name \in Named(call[c])
  BY Here DEF GivesUp, Fits
<1>2. listening' \in [Port -> Name \cup {Nobody, Stranger, Bridge}]
  <2>1. listening' \in {from, [p \in Port |-> IF from[p] = call[c].name THEN Nobody
                                             ELSE from[p]]}
    BY <1>1 DEF GivesUp
  <2>. QED
    BY <2>1
<1>3. \A n \in Name \ Named(call[c]) : table'[n] = table[n]
  <2>1. CASE call[c].op = "register"
    BY <1>1, <2>1, Here DEF GivesUp, Writes, Rewrites
  <2>2. CASE call[c].op = "update"
    <3>1. call[c].to \in Named(call[c])
      BY <2>2, Here, NobodyAssumption DEF Fits
    <3>2. table' = IF call[c].to = call[c].name
                     THEN [table EXCEPT ![call[c].name] = call[c].saved]
                     ELSE [table EXCEPT ![call[c].to] = None, ![call[c].name] = call[c].saved]
      BY <2>2 DEF GivesUp
    <3>. QED
      BY <1>1, <3>1, <3>2, Here
  <2>3. CASE call[c].op \in {"start", "deregister"}
    BY <2>3 DEF GivesUp
  <2>. QED
    BY <1>1, <2>1, <2>2, <2>3
<1>4. Moved(c) /\ pc'[c] = "off" /\ call'[c] = NoCall
  BY <1>1, <1>3, Ongoing DEF Ends
<1>5. Knows(c)'
  BY <1>4 DEF Knows, NoCall
<1>. QED
  BY <1>1, <1>2, <1>4, <1>5, Listens

\* What a reconciliation leaves, which is what the table asks for if nobody
\* else was there.
LEMMA AppliesTidy ==
    ASSUME PortInv, PortInv', ListenInv, NEW c \in Client, Applies(c)
    PROVE  ListenInv'
<1>1. PICK wanted : wanted = call[c].ports
  OBVIOUS
<1>2. /\ pc[c] = "applies" /\ table' = table /\ Succeeds(c)
      /\ listening' = Open(Closed(wanted), wanted) /\ matched' = (c \notin overlapped)
  BY <1>1 DEF Applies
<1>3. call[c].op \in {"register", "start", "deregister", "update"}
  BY <1>2, Here DEF Fits
<1>4. /\ listening' \in [Port -> Name \cup {Nobody, Stranger, Bridge}]
      /\ \A p \in Port : listening'[p] = Bridge <=> p \in wanted
  BY <1>2, NobodyAssumption DEF ListenInv, Open, Closed
<1>5. \E at \in {"off", "port", "check"} :
          \E k : /\ pc' = [pc EXCEPT ![c] = at] /\ call' = [call EXCEPT ![c] = k]
                 /\ overlapped \subseteq overlapped' \cup {c}
                 /\ k.op \in {"none", "start"}
  <2>1. CASE call[c].op = "start"
    <3>1. PICK at \in {"port", "check"} : pc' = [pc EXCEPT ![c] = at]
      BY <1>2, <2>1 DEF Succeeds, Goto
    <3>2. PICK k : k = [call[c] EXCEPT !.ports = {}, !.saved = None]
      OBVIOUS
    <3>3. call' = [call EXCEPT ![c] = k] /\ k.op = "start" /\ overlapped' = overlapped
      BY <1>2, <2>1, <3>2, Here DEF Succeeds, Call
    <3>. QED
      BY <3>1, <3>3
  <2>2. CASE call[c].op # "start"
    <3>1. Ends(c)
      BY <1>2, <1>3, <2>2 DEF Succeeds
    <3>2. /\ pc' = [pc EXCEPT ![c] = "off"] /\ call' = [call EXCEPT ![c] = NoCall]
          /\ overlapped' = overlapped \ {c}
      BY <3>1 DEF Ends
    <3>3. NoCall.op = "none"
      BY DEF NoCall
    <3>. QED
      BY <3>2, <3>3
  <2>. QED
    BY <2>1, <2>2
<1>6. PICK at \in {"off", "port", "check"} :
          \E k : /\ pc' = [pc EXCEPT ![c] = at] /\ call' = [call EXCEPT ![c] = k]
                 /\ overlapped \subseteq overlapped' \cup {c}
                 /\ k.op \in {"none", "start"}
  BY <1>5
<1>7. PICK k : /\ pc' = [pc EXCEPT ![c] = at] /\ call' = [call EXCEPT ![c] = k]
               /\ overlapped \subseteq overlapped' \cup {c}
               /\ k.op \in {"none", "start"}
  BY <1>6
<1>8. Moved(c) /\ pc'[c] = at /\ call'[c] = k
  BY <1>2, <1>7, Ongoing
<1>9. Knows(c)'
  BY <1>7, <1>8 DEF Knows
<1>10. CASE c \in overlapped
  BY <1>2, <1>4, <1>8, <1>9, <1>10, Listens
<1>11. CASE c \notin overlapped
  <2>1. Busy = {c} /\ \A p \in Port : p \in wanted <=> Asks(p)
    BY <1>1, <1>2, <1>11 DEF PortInv, Solo, Busy, ListenInv, Knows
  <2>2. \A d \in Client, n \in Name : ~Editing(d, n)'
    BY <1>7, <1>8, <2>1 DEF Moved, Editing, Busy
  <2>3. \A p \in Port : listening'[p] = Bridge <=> \E n \in Name : Stands(n, p)'
    <3>1. \A n \in Name, p \in Port :
             Stands(n, p)' <=> n \in Listed /\ table[n].oauth = p
      BY <1>2, <2>2 DEF Stands, Listed
    <3>. QED
      BY <1>4, <2>1, <3>1 DEF Asks, Listed
  <2>4. \A d \in Client : Knows(d)'
    BY <1>8, <1>9, OthersKnow
  <2>. QED
    BY <1>4, <2>3, <2>4 DEF ListenInv, Tidy
<1>. QED
  BY <1>10, <1>11

LEMMA FailsTidy ==
    ASSUME PortInv, PortInv', ListenInv, NEW c \in Client,
           WantsFail(c) \/ AppliesFail(c)
    PROVE  ListenInv'
<1>1. PICK from \in [Port -> Name \cup {Nobody, Stranger, Bridge}] : GivesUp(c, from)
  <2>1. CASE WantsFail(c)
    BY <2>1 DEF WantsFail, ListenInv
  <2>2. CASE AppliesFail(c)
    <3>1. PICK opened : GivesUp(c, Open(Closed(call[c].ports), opened))
      BY <2>2 DEF AppliesFail
    <3>2. Open(Closed(call[c].ports), opened)
             \in [Port -> Name \cup {Nobody, Stranger, Bridge}]
      BY DEF Open, Closed, ListenInv
    <3>. QED
      BY <3>1, <3>2
  <2>. QED
    BY <2>1, <2>2
<1>2. pc[c] \in {"wants", "applies"}
  BY DEF WantsFail, AppliesFail
<1>. QED
  BY <1>1, <1>2, GivesUpTidy

LEMMA RepairStoresTidy ==
    ASSUME PortInv, PortInv', ListenInv, NEW c \in Client, RepairStores(c)
    PROVE  ListenInv'
<1>1. pc[c] = "repair" /\ Ends(c) /\ UNCHANGED <<listening, matched>>
  BY DEF RepairStores
<1>2. PICK q \in call[c].ports : Rewrites(call[c].name, [table[call[c].name] EXCEPT !.port = q])
  BY DEF RepairStores
<1>3. PICK r : r = [table[call[c].name] EXCEPT !.port = q]
  OBVIOUS
<1>4. call[c].op = "repair" /\ call[c].name \in Listed /\ table[call[c].name] \in Claim
  BY <1>1, Here DEF Fits, HasRoute
<1>5. q \in Port
  BY <1>1, <1>2, Here DEF Call
<1>6. r \in Claim /\ r.oauth = table[call[c].name].oauth
  BY <1>3, <1>4, <1>5 DEF Claim
<1>7. /\ \A m \in Name : /\ m \in Listed' <=> m \in Listed
                         /\ table'[m].oauth = table[m].oauth
      /\ \A m \in Name \ Named(call[c]) : table'[m] = table[m]
  BY <1>1, <1>2, <1>3, <1>4, <1>6, OauthKept, Here
<1>8. SameBridges /\ ~Unreconciled(pc[c], call[c])
  BY <1>1, <1>4 DEF SameBridges, ListenInv, Unreconciled
<1>. QED
  BY <1>1, <1>7, <1>8, EndedTidy

LEMMA ContinuesTidy ==
    ASSUME PortInv, PortInv', ListenInv, NEW c \in Client, Continues(c)
    PROVE  ListenInv'
<1>1. CASE Adds(c) \/ FindsFree(c) \/ StoresPort(c) \/ StoresReserve(c)
  BY <1>1, AddsTidy, FindsFreeTidy, StoresPortTidy, StoresReserveTidy
<1>2. CASE FindsNone(c) \/ ChecksFail(c) \/ LaunchFails(c)
  BY <1>2, RefusesTidy DEF FindsNone, ChecksFail, LaunchFails
<1>3. CASE Checks(c) \/ Launches(c) \/ RepairStores(c)
  BY <1>3, ChecksTidy, LaunchesTidy, RepairStoresTidy
<1>4. CASE UpdateValidates(c) \/ UpdateRollsBack(c) \/ Unlists(c) \/ Relists(c)
  BY <1>4, UpdateValidatesTidy, UpdateRollsBackTidy, RenamesTidy
<1>5. CASE Wants(c) \/ Applies(c) \/ WantsFail(c) \/ AppliesFail(c)
  BY <1>5, WantsTidy, AppliesTidy, FailsTidy
<1>. QED
  BY <1>1, <1>2, <1>3, <1>4, <1>5 DEF Continues

\* Servers and strangers come and go on ports of their own.
LEMMA UnmovedTidy ==
    ASSUME ListenInv, UNCHANGED <<table, pc, call, ghosts>>, SameBridges
    PROVE  ListenInv'
<1>1. UNCHANGED <<overlapped, matched>> /\ Listed' = Listed
  BY DEF ghosts, Listed
<1>2. \A c \in Client : Knows(c)'
  BY <1>1 DEF ListenInv, Knows, Asks
<1>3. \A n \in Name, p \in Port : Stands(n, p)' <=> Stands(n, p)
  BY <1>1 DEF Stands, Editing
<1>. QED
  BY <1>1, <1>2, <1>3 DEF ListenInv, Tidy, SameBridges

\* A route that goes away without a call takes no callback port with it, or the
\* listeners are known to be out of date.
LEMMA VanishesTidy ==
    ASSUME PortInv, PortInv', ListenInv, NEW n \in Name, Vanishes(n)
    PROVE  ListenInv'
<1>1. /\ UNCHANGED <<pc, call>> /\ overlapped' = overlapped \cup Busy
      /\ table'[n] = None /\ \A m \in Name \ {n} : table'[m] = table[m]
      /\ matched' = (matched /\ table[n].oauth = 0)
  BY DEF Vanishes, Writes, Rewrites, PortInv, Typed
<1>2. SameBridges
  BY KillsServers DEF Vanishes
<1>3. \A d \in Busy : call[d].name # n
  <2>1. \A d \in Busy : call[d].name = n => n \in Named(call[d])
    BY NobodyAssumption DEF Named
  <2>. QED
    BY <2>1 DEF Vanishes, Free
<1>4. ASSUME NEW d \in Client PROVE Knows(d)'
  <2>1. CASE pc[d] = "off"
    BY <1>1, <2>1 DEF Knows
  <2>2. CASE pc[d] # "off"
    <3>1. d \in Busy /\ Knows(d) /\ call[d].name \in Name
      BY <2>2, Here DEF Busy, ListenInv
    <3>2. table'[call[d].name] = table[call[d].name] /\ d \in overlapped'
      BY <1>1, <1>3, <3>1
    <3>. QED
      BY <1>1, <3>1, <3>2 DEF Knows, Listed
  <2>. QED
    BY <2>1, <2>2
<1>5. ASSUME matched', NEW x \in Name, NEW p \in Port
      PROVE  Stands(x, p)' <=> Stands(x, p)
  <2>1. \A d \in Client : Editing(d, x)' <=> Editing(d, x)
    BY <1>1 DEF Editing
  <2>2. CASE x = n
    <3>1. table[n].oauth # p /\ \A d \in Client : ~Editing(d, n)
      BY <1>1, <1>3, <1>5, PortAssumption DEF Editing, Busy
    <3>. QED
      BY <1>1, <2>1, <2>2, <3>1 DEF Stands, Listed
  <2>3. CASE x # n
    BY <1>1, <2>1, <2>3 DEF Stands, Listed
  <2>. QED
    BY <2>2, <2>3
<1>. QED
  BY <1>1, <1>2, <1>4, <1>5 DEF ListenInv, Tidy, SameBridges

LEMMA BesideTidy ==
    ASSUME PortInv, PortInv', ListenInv, Beside
    PROVE  ListenInv'
<1>1. CASE \E n \in Name : Vanishes(n)
  BY <1>1, VanishesTidy
<1>2. CASE \E n \in Name : ServerLeaves(n)
  BY <1>2, KillsServers, UnmovedTidy DEF ServerLeaves
<1>3. CASE \E n \in Name, q \in Roamed : ServerRebinds(n, q)
  <2>1. PICK n \in Name, q \in Roamed : ServerRebinds(n, q)
    BY <1>3
  <2>2. SameBridges
    BY <2>1, NobodyAssumption DEF ServerRebinds, Kills, SameBridges, ListenInv
  <2>. QED
    BY <2>1, <2>2, UnmovedTidy DEF ServerRebinds
<1>4. CASE \E p \in Port : StrangerBinds(p) \/ StrangerLeaves(p)
  <2>1. PICK p \in Port : StrangerBinds(p) \/ StrangerLeaves(p)
    BY <1>4
  <2>2. SameBridges
    BY <2>1, NobodyAssumption DEF StrangerBinds, StrangerLeaves, SameBridges, ListenInv
  <2>. QED
    BY <2>1, <2>2, UnmovedTidy DEF StrangerBinds, StrangerLeaves
<1>. QED
  BY <1>1, <1>2, <1>3, <1>4 DEF Beside

LEMMA InitTidy == Init => ListenInv
<1> SUFFICES ASSUME Init PROVE ListenInv
  OBVIOUS
<1>1. \A n \in Name, p \in Port : ~Stands(n, p)
  BY DEF Init, Stands, Editing, Listed
<1>2. \A c \in Client : Knows(c)
  BY DEF Init, Knows, NoCall
<1>. QED
  BY <1>1, <1>2, NobodyAssumption DEF Init, ListenInv, Tidy

LEMMA NextTidy == PortInv /\ PortInv' /\ ListenInv /\ [Next]_vars => ListenInv'
<1> SUFFICES ASSUME PortInv, PortInv', ListenInv, [Next]_vars PROVE ListenInv'
  OBVIOUS
<1>1. CASE UNCHANGED vars
  BY <1>1, UnmovedTidy DEF vars, SameBridges, ListenInv
<1>2. CASE Next
  BY <1>2, BesideTidy, RequestsTidy, ContinuesTidy DEF Next
<1>. QED
  BY <1>1, <1>2

\* The daemon listens on exactly the callback ports that its routes have, once
\* no call is in flight, as long as the last reconciliation ran alone and
\* succeeded (reconcileOAuthBridgeListeners): every other step keeps the
\* callback ports, leads to a reconciliation, or takes the change back.
THEOREM Listeners == Spec => []ListenersMatchRoutes
<1>1. PortInv /\ ListenInv => ListenersMatchRoutes
  <2> SUFFICES ASSUME PortInv, ListenInv, Quiet, matched
               PROVE  {p \in Port : listening[p] = Bridge}
                        = {table[n].oauth : n \in Listed} \ {0}
    BY DEF ListenersMatchRoutes
  <2>1. \A c \in Client : pc[c] = "off" /\ call[c] = NoCall
    BY DEF Quiet, Busy, PortInv, Placed, Sits, Fits
  <2>2. \A c \in Client : ~Unreconciled(pc[c], call[c])
    BY <2>1 DEF Unreconciled, NoCall
  <2>3. \A n \in Name, p \in Port : Stands(n, p) <=> n \in Listed /\ table[n].oauth = p
    BY <2>1 DEF Stands, Editing
  <2>4. \A p \in Port : listening[p] = Bridge <=> \E n \in Listed : table[n].oauth = p
    BY <2>2, <2>3 DEF ListenInv, Tidy, Listed
  <2>5. \A n \in Listed : table[n].oauth \in Port \cup {0}
    BY DEF PortInv, Typed, Listed, Claim
  <2>. QED
    BY <2>4, <2>5, PortAssumption
<1>2. Spec => []ListenInv
  BY Invariant, InitTidy, NextTidy, PTL DEF Spec
<1>. QED
  BY <1>1, <1>2, Invariant, PTL
=============================================================================
