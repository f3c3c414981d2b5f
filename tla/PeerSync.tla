------------------------------ MODULE PeerSync ------------------------------
(***************************************************************************)
(* Browsing the routes of paired machines (internal/daemon/peer_sync.go,   *)
(* peer_listener.go, peer_api.go), on top of PeerPairing: each daemon      *)
(* keeps, per peer NAME, the list of routes that peer offered last, and    *)
(* refreshes it by a poll, by a forced sweep after `vibe peer add` and by  *)
(* a sweep on a visit that no cached list resolves.                        *)
(*                                                                         *)
(* The strong ETag is a hash of the list, so the list itself stands for    *)
(* it.  A sweep walks a copy of the peers; per peer it reads the state,    *)
(* claims it, asks and applies the answer, each a step of its own.         *)
(***************************************************************************)
EXTENDS PeerPairing

CONSTANTS
    Watcher,   \* machines whose sweeps and removals are followed
    Followed,  \* machines whose daemon may die
    Route,
    Bookmark,  \* routes that are bookmarks, never offered
    None       \* no list, no answer, no machine

ASSUME WatcherAssumption == Watcher \cup Followed \subseteq Machine
ASSUME BookmarkAssumption == Bookmark \subseteq Route

VARIABLES
    table, \* per machine: the names in its route table
    cache, \* per watcher and peer name: peerStates
    sweep  \* per watcher: its poll, and one sweep started on demand

syncVars == <<table, cache, sweep>>
vars == <<pairVars, syncVars>>

PeerName == {NameOf[m] : m \in Machine}
Sweeper == {"poll", "demand"}

\* "stray" is history: the list was applied for a peer removed by then.
NoState == [here |-> FALSE]
FreshState == [here |-> TRUE, routes |-> {}, etag |-> None, from |-> None,
               recent |-> FALSE, refreshing |-> FALSE, stray |-> FALSE]
Resting == [pc |-> "idle", list |-> <<>>, force |-> FALSE, etag |-> None,
            recent |-> FALSE, answer |-> None, orphan |-> FALSE]

SyncInit ==
    /\ table = [m \in Machine |-> Route]
    /\ cache = [m \in Watcher |-> [n \in PeerName |-> NoState]]
    /\ sweep = [m \in Watcher |-> [k \in Sweeper |-> Resting]]

Init == PairInit /\ SyncInit

-----------------------------------------------------------------------------
\* Sweeps

\* handlePeerRoutes: bookmarks are not this machine's to share.
Offered(s) == table[s] \ Bookmark

\* Defect: the machine is dialled without comparing its certificate.
Reaches_unpinned(m, p) ==
    /\ up[Host(p)] /\ listening[Host(p)]
    /\ identity[m] \in Pinned(Host(p))

\* peerTransport and peerHandler: the pinned identity answers, and has the
\* caller's pinned; an invite lets a stranger no further than the pairing.
Reaches(m, p) == Answers(Host(p), p) /\ identity[m] \in Pinned(Host(p))

SweepStep(m, k, from, s) ==
    /\ up[m]
    /\ sweep[m][k].pc = from
    /\ sweep' = [sweep EXCEPT ![m][k] = s]

\* The sweep is done with the first peer of its list.
Advance(s) ==
    IF Len(s.list) = 1 THEN Resting
    ELSE [Resting EXCEPT !.pc = "next", !.list = Tail(s.list), !.force = s.force]

Started(m, force) == [Resting EXCEPT !.pc = "next", !.list = pins[m], !.force = force]

\* refreshAllPeers, from the poll's ticker or from a visit no cached list
\* resolves (findPeerRoute).
StartsSweep(m, k) ==
    /\ pins[m] # <<>>
    /\ k = "poll" => polling[m]
    /\ SweepStep(m, k, "idle", Started(m, FALSE))
    /\ UNCHANGED <<pairVars, table, cache>>

\* peerStateFor, then throttle and ETag under one lock.
ReadsState(m, k) ==
    LET s == sweep[m][k]
        n == Name(s.list[1]) IN
    /\ s.pc = "next"
    /\ \E st \in {IF cache[m][n].here THEN cache[m][n] ELSE FreshState} :
         /\ cache' = [cache EXCEPT ![m][n] = st]
         /\ SweepStep(m, k, "next",
              [s EXCEPT !.pc = "read", !.etag = st.etag, !.recent = st.recent, !.orphan = FALSE])
    /\ UNCHANGED <<pairVars, table>>

\* CompareAndSwap on the state's refreshing flag fails.
Busy(m, s) == ~s.orphan /\ cache[m][Name(s.list[1])].refreshing

\* Throttled, or somebody else is refreshing this peer; otherwise it is claimed.
\* A state whose peer was removed meanwhile is nobody's but the sweep's.
Claims(m, k) ==
    LET s == sweep[m][k]
        n == Name(s.list[1])
        skip == (s.recent /\ ~s.force) \/ Busy(m, s) IN
    /\ SweepStep(m, k, "read", IF skip THEN Advance(s) ELSE [s EXCEPT !.pc = "asking"])
    /\ cache' = IF skip \/ s.orphan THEN cache
                ELSE [cache EXCEPT ![m][n].refreshing = TRUE, ![m][n].recent = TRUE]
    /\ UNCHANGED <<pairVars, table>>

\* The peer answers: "same" for a matching If-None-Match, else its list.
IsAnswered(m, k) ==
    LET s == sweep[m][k]
        p == s.list[1]
        offer == Offered(Host(p)) IN
    /\ s.pc = "asking"
    /\ Reaches(m, p)
    /\ SweepStep(m, k, "asking", [s EXCEPT !.pc = "answered",
         !.answer = IF s.etag = offer THEN None
                    ELSE [routes |-> offer, from |-> identity[Host(p)]]])
    /\ UNCHANGED <<pairVars, table, cache>>

\* Defect: an error returns before the claim is given back.
Release_notOnError(st, s) ==
    IF s.pc = "asking" THEN st ELSE [st EXCEPT !.refreshing = FALSE]

Release(st, s) == [st EXCEPT !.refreshing = FALSE]

\* No answer, or one that is no list: the cached list stays.
Fails(m, k) ==
    LET s == sweep[m][k]
        n == Name(s.list[1]) IN
    /\ s.pc = "asking"
    /\ IF Reaches(m, s.list[1]) THEN Faults ELSE UNCHANGED faults
    /\ SweepStep(m, k, "asking", Advance(s))
    /\ cache' = IF s.orphan THEN cache
                ELSE [cache EXCEPT ![m][n] = Release(@, s)]
    /\ UNCHANGED <<up, identity, store, net, attempt, issued, commands, history, table>>

Applies(m, k) ==
    LET s == sweep[m][k]
        n == Name(s.list[1])
        new == s.answer IN
    /\ SweepStep(m, k, "answered", Advance(s))
    /\ cache' = IF s.orphan THEN cache
                ELSE [cache EXCEPT ![m][n] =
                       IF new = None THEN Release(@, s)
                       ELSE [Release(@, s) EXCEPT !.routes = new.routes, !.etag = new.routes,
                                                  !.from = new.from,
                                                  !.stray = s.list[1] \notin Pinned(m)]]
    /\ UNCHANGED <<pairVars, table>>

\* Three seconds pass.
ThrottleEnds(m, n) ==
    /\ cache[m][n].here /\ cache[m][n].recent
    /\ cache' = [cache EXCEPT ![m][n].recent = FALSE]
    /\ UNCHANGED <<pairVars, table, sweep>>

-----------------------------------------------------------------------------
\* What pairing does to the caches

\* Defect: the state of a removed peer stays behind.
Forgets_keeps(m, n) == UNCHANGED <<cache, sweep>>

\* handlePeerRemove deletes the state; a refresh in flight keeps the object.
Forgets(m, n) ==
    IF m \notin Watcher THEN UNCHANGED <<cache, sweep>>
    ELSE /\ cache' = [cache EXCEPT ![m][n] = NoState]
         /\ sweep' = [sweep EXCEPT ![m] = [k \in Sweeper |->
              LET s == sweep[m][k] IN
              IF s.pc \in {"read", "asking", "answered"} /\ Name(s.list[1]) = n
                THEN [s EXCEPT !.orphan = TRUE] ELSE s]]

PeerRemoved(m, n) == Removes(m, n) /\ Forgets(m, n) /\ UNCHANGED table

\* handlePeerAdd: a pairing that went through is followed by a forced sweep (here
\* in the slot of the demand sweep, once that is free).
PeerAdded(i) ==
    /\ Completes(i)
    /\ IF i \in Watcher /\ Saved
         THEN /\ sweep[i]["demand"].pc = "idle"
              /\ sweep' = [sweep EXCEPT ![i]["demand"] =
                   [Resting EXCEPT !.pc = "next", !.list = pins'[i], !.force = TRUE]]
         ELSE UNCHANGED sweep
    /\ UNCHANGED <<table, cache>>

\* The cache is in memory; routes.json brings the table back.
DaemonDies(m) ==
    /\ Dies(m)
    /\ IF m \in Watcher
         THEN /\ cache' = [cache EXCEPT ![m] = [n \in PeerName |-> NoState]]
              /\ sweep' = [sweep EXCEPT ![m] = [k \in Sweeper |-> Resting]]
         ELSE UNCHANGED <<cache, sweep>>
    /\ UNCHANGED table

\* A route is registered or deregistered on a machine that may be paired with.
TableChanges(s, r) ==
    /\ up[s] /\ Commands
    /\ table' = [table EXCEPT ![s] = IF r \in @ THEN @ \ {r} ELSE @ \cup {r}]
    /\ UNCHANGED <<up, identity, store, net, attempt, issued, faults, history, cache, sweep>>

-----------------------------------------------------------------------------
Sweeps(m, k) ==
    \/ ReadsState(m, k) \/ Claims(m, k) \/ IsAnswered(m, k)
    \/ Fails(m, k) \/ Applies(m, k)

Pairs(i) ==
    \/ \E r \in Inviter \ {i}, c \in 1..issued : Probes(i, r, c)
    \/ Posts(i) \/ Grants(i) \/ Consumes(i) \/ GivesUp(i)

Next ==
    \/ \E m \in Inviter : (Invites(m) \/ InviteExpires(m)) /\ UNCHANGED syncVars
    \/ \E i \in Initiator : Pairs(i) /\ UNCHANGED syncVars
    \/ \E i \in Initiator : PeerAdded(i)
    \/ \E m \in Followed : DaemonDies(m)
    \/ \E m \in Followed : (Boots(m) \/ Reinstalls(m)) /\ UNCHANGED syncVars
    \/ \E m \in Watcher, n \in PeerName : PeerRemoved(m, n)
    \/ \E s \in Inviter, r \in Route \ Bookmark : TableChanges(s, r)
    \/ \E m \in Watcher, k \in Sweeper : StartsSweep(m, k) \/ Sweeps(m, k)
    \/ \E m \in Watcher, n \in PeerName : ThrottleEnds(m, n)

\* The daemon's own goroutines run and the clock of every peer's throttle
\* advances; users, deaths, starts, expiries of invites and visits owe nothing.
Spec ==
    /\ Init /\ [][Next]_vars
    /\ \A m \in Watcher :
         /\ WF_vars(StartsSweep(m, "poll") \/ Sweeps(m, "poll"))
         /\ WF_vars(Sweeps(m, "demand"))
         /\ \A n \in PeerName \ {NameOf[m]} : WF_vars(ThrottleEnds(m, n))

-----------------------------------------------------------------------------
\* Properties

TypeOK ==
    /\ up \in [Machine -> BOOLEAN]
    /\ identity \in [Machine -> Identity]
    /\ \A m \in Machine : Pinned(m) \cup Range(file[m]) \subseteq Identity
    /\ invite \in [Machine -> 0..issued]
    /\ table \in [Machine -> SUBSET Route]
    /\ \A m \in Watcher, n \in PeerName :
         cache[m][n] # NoState => cache[m][n].routes \subseteq Route \ Bookmark

UniqueNames(m) ==
    \A i, j \in DOMAIN pins[m] : Name(pins[m][i]) = Name(pins[m][j]) => i = j

\* peerRouteFromCache: the first peer, in the order of pairing, whose list has r.
RelayTarget(m, r) ==
    LET hits == {k \in DOMAIN pins[m] :
                   LET st == cache[m][Name(pins[m][k])] IN st.here /\ r \in st.routes}
    IN IF hits = {} THEN None ELSE pins[m][Min(hits)]

\* A visit is relayed to the very identity whose answer put the route in the
\* cache, through removals, new pairings and reinstalled machines (proxyToPeer
\* takes the peer from peerList and the route from peerStates, which are kept
\* under different keys).  Not so with two peers of one name, nor while a list
\* stands that a sweep fetched for a peer removed under it.
RelaysReachTheSource ==
    \A m \in Watcher, r \in Route :
        LET p == RelayTarget(m, r) IN
        p # None /\ UniqueNames(m) /\ ~cache[m][Name(p)].stray
            => cache[m][Name(p)].from = p

Connected(m, p) == up[m] /\ polling[m] /\ p \in Pinned(m) /\ UniqueNames(m) /\ Reaches(m, p)

\* A daemon that polls, and a peer that keeps answering it, agree in the end on
\* what the peer offers, whatever was missed, thrown away or late before
\* (refreshPeerRoutes: misses self-correct on the next successful refresh).
CachesCatchUp ==
    \A m \in Watcher : \A s \in Inviter \ {m}, offer \in SUBSET (Route \ Bookmark) :
        LET st == cache[m][NameOf[s]] IN
        <>[](Connected(m, identity[s]) /\ Offered(s) = offer)
            => <>[](st.here /\ st.routes = offer)
=============================================================================
