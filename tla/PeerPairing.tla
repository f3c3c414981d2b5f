---------------------------- MODULE PeerPairing ----------------------------
(***************************************************************************)
(* Pairing of daemons on a LAN (internal/daemon/peer_pair.go, peer_api.go, *)
(* peer_listener.go; internal/peer).  `vibe peer invite` on one machine    *)
(* opens an invite, `vibe peer add` on another dials it with the code read *)
(* off the screen, and each side pins the other's certificate in           *)
(* peers.json.                                                             *)
(*                                                                         *)
(* An identity is <<machine, n>>: the machine's n-th certificate, its      *)
(* fingerprint and the address it is dialled at.  The HMAC proof binds the *)
(* code to both identities seen on the wire, so it verifies exactly when   *)
(* the code is the one the responder holds.  Codes are never drawn twice.  *)
(***************************************************************************)
EXTENDS Naturals, SequencesExt

CONSTANTS
    Machine,
    Inviter,     \* machines whose users open invites
    Initiator,   \* machines whose users run `vibe peer add`
    NameOf,      \* the host name of a machine, sanitised
    NoInvite,
    MaxCommands, \* bound on invites, pairings, restarts, route changes
    MaxFaults    \* bound on failed saves and binds, lost replies, deaths

ASSUME RoleAssumption == Inviter \cup Initiator \subseteq Machine
ASSUME NoInviteAssumption == NoInvite = 0
ASSUME BoundAssumption == MaxCommands \in Nat /\ MaxFaults \in Nat

VARIABLES
    up,
    identity,  \* the identity in the certs directory
    pins,      \* peerList
    file,      \* peers.json
    invite,    \* peerInviteCode while it is open
    listening, \* the LAN listener runs
    polling,   \* peerSyncLoop runs
    attempt,   \* per initiator: the pairing it started last, both sides of it;
               \* "undone": the pin it stored was removed before the reply
    issued,    \* codes handed out
    commands, faults,
    ackedIn, ackedOut, \* identities a user was told are pinned, or removed
    agreed,    \* <<responder, initiator>>: the responder verified a proof
    granted,   \* ... and saved the initiator's pin
    spent      \* codes a completed pairing has consumed

history == <<ackedIn, ackedOut, agreed, granted, spent>>
bounds == <<issued, commands, faults>>
net == <<invite, listening, polling>>
store == <<pins, file>>
pairVars == <<up, identity, store, net, attempt, bounds, history>>

Identity == Machine \X (0..MaxCommands + MaxFaults)
Host(p) == p[1]
Name(p) == NameOf[Host(p)]
Pinned(m) == Range(pins[m])

\* Commands and faults are counted.
Commands == commands < MaxCommands /\ commands' = commands + 1
Faults == faults < MaxFaults /\ faults' = faults + 1

NoAttempt == [pc |-> "idle"]

\* A daemon that starts alone: nothing paired, nothing on disk.
PairInit ==
    /\ up = [m \in Machine |-> TRUE]
    /\ identity = [m \in Machine |-> <<m, 0>>]
    /\ pins = [m \in Machine |-> <<>>]
    /\ file = [m \in Machine |-> <<>>]
    /\ invite = [m \in Machine |-> NoInvite]
    /\ listening = [m \in Machine |-> FALSE]
    /\ polling = [m \in Machine |-> FALSE]
    /\ attempt = [i \in Initiator |-> NoAttempt]
    /\ issued = 0 /\ commands = 0 /\ faults = 0
    /\ ackedIn = [m \in Machine |-> {}]
    /\ ackedOut = [m \in Machine |-> {}]
    /\ agreed = {} /\ granted = {} /\ spent = {}

-----------------------------------------------------------------------------
\* storePeer and the gate of the listener

\* A known fingerprint is updated in place, a new one goes last.
WithPin(list, p) == IF p \in Range(list) THEN list ELSE Append(list, p)

\* Defect: peers.json is written from the list as it was before the append.
StorePeer_savesFirst(m, p) ==
    /\ pins' = [pins EXCEPT ![m] = WithPin(@, p)]
    /\ \/ file' = [file EXCEPT ![m] = pins[m]] /\ UNCHANGED faults
       \/ UNCHANGED file /\ Faults

\* The list and its file change under one lock; when the save fails the list
\* keeps what the file does not have.
StorePeer(m, p) ==
    /\ pins' = [pins EXCEPT ![m] = WithPin(@, p)]
    /\ \/ file' = [file EXCEPT ![m] = pins'[m]] /\ UNCHANGED faults
       \/ UNCHANGED file /\ Faults

\* SavePeers went through (a failed one is the only fault of its step).
Saved == UNCHANGED faults

\* peerCertAuthorized: a pinned identity, or any while an invite is open.
Admits(m, p) == p \in Pinned(m) \/ invite[m] # NoInvite

\* ensurePeerListener: idempotent; a bind that fails is reported or warned about.
Listens(m) == listening' = [listening EXCEPT ![m] = TRUE]

Answers(m, p) == up[m] /\ listening[m] /\ identity[m] = p

-----------------------------------------------------------------------------
\* The responder's user

Invites(m) ==
    /\ up[m] /\ Commands
    /\ issued' = issued + 1
    /\ invite' = [invite EXCEPT ![m] = issued']
    /\ Listens(m)
    /\ UNCHANGED <<up, identity, store, polling, attempt, faults, history>>

\* Five minutes pass.
InviteExpires(m) ==
    /\ invite[m] # NoInvite
    /\ invite' = [invite EXCEPT ![m] = NoInvite]
    /\ UNCHANGED <<up, identity, store, listening, polling, attempt, bounds, history>>

-----------------------------------------------------------------------------
\* pairWithPeer and handlePeerPair

\* The probe handshake: initiator i learns the identity that answers at r.
Probes(i, r, code) ==
    /\ up[i] /\ Commands
    /\ attempt[i].pc = "idle"
    /\ Answers(r, identity[r]) /\ Admits(r, identity[i])
    /\ attempt' = [attempt EXCEPT ![i] =
         [pc |-> "probed", from |-> identity[i], to |-> identity[r], code |-> code,
          waiting |-> TRUE, late |-> FALSE, undone |-> FALSE]]
    /\ UNCHANGED <<up, identity, store, net, issued, faults, history>>

Drops(i) == attempt' = [attempt EXCEPT ![i] = NoAttempt]

\* Defect: any open invite will do, whatever the code.
Verified_anyCode(r, a) == invite[r] # NoInvite

\* The invite is open and the proof is for its code and both identities.
Verified(r, a) == invite[r] # NoInvite /\ invite[r] = a.code

\* The request is pinned to the probed identity; the handler reads the invite
\* once, under the lock, and everything up to the verdict follows from it.
Posts(i) ==
    LET a == attempt[i]
        r == Host(a.to) IN
    /\ a.pc = "probed"
    /\ IF Answers(r, a.to) /\ Admits(r, a.from) /\ Verified(r, a)
         THEN /\ attempt' = [attempt EXCEPT ![i].pc = "verified",
                                            ![i].late = a.code \in spent]
              /\ agreed' = agreed \cup {<<a.to, a.from>>}
         ELSE Drops(i) /\ UNCHANGED agreed
    /\ UNCHANGED <<up, identity, store, net, bounds, ackedIn, ackedOut, granted, spent>>

\* A save that failed is a denial.
GrantVerdict(i) ==
    IF Saved THEN attempt' = [attempt EXCEPT ![i].pc = "stored"] ELSE Drops(i)

\* The handler stores the initiator's pin, or denies when it cannot be saved.
Grants(i) ==
    LET a == attempt[i]
        r == Host(a.to) IN
    /\ a.pc = "verified"
    /\ StorePeer(r, a.from)
    /\ ackedOut' = [ackedOut EXCEPT ![r] = @ \ {a.from}]
    /\ granted' = IF Saved THEN granted \cup {<<a.to, a.from>>} ELSE granted
    /\ GrantVerdict(i)
    /\ UNCHANGED <<up, identity, net, issued, commands, ackedIn, agreed, spent>>

\* Defect: the invite stays open until it expires.
InviteAfter_kept(r, a) == invite

\* The invite is consumed whatever its code is by now: a newer one goes with it.
InviteAfter(r, a) == [invite EXCEPT ![r] = NoInvite]

\* The handler consumes the invite and replies, if anyone still waits.  Where the
\* user has removed the pin since, the removal is the later word.
Consumes(i) ==
    LET a == attempt[i]
        r == Host(a.to) IN
    /\ a.pc = "stored"
    /\ invite' = InviteAfter(r, a)
    /\ spent' = spent \cup {a.code}
    /\ ackedIn' = IF a.undone THEN ackedIn ELSE [ackedIn EXCEPT ![r] = @ \cup {a.from}]
    /\ IF a.waiting THEN attempt' = [attempt EXCEPT ![i].pc = "answered"] ELSE Drops(i)
    /\ UNCHANGED <<up, identity, store, listening, polling, bounds, ackedOut, agreed, granted>>

\* The initiator's five seconds run out, or the reply is lost.
GivesUp(i) ==
    /\ attempt[i].pc \in {"verified", "stored", "answered"} /\ attempt[i].waiting
    /\ Faults
    /\ IF attempt[i].pc = "answered" THEN Drops(i)
       ELSE attempt' = [attempt EXCEPT ![i].waiting = FALSE]
    /\ UNCHANGED <<up, identity, store, net, issued, commands, history>>

\* Defect: the initiator pins the machine before it hears from it.
Confirmed_early(a) == a.pc \in {"verified", "answered"}

Confirmed(a) == a.pc = "answered"

\* The responder's proof verifies: the initiator pins it and, having a peer now,
\* listens.  No sync loop starts: that is for the next start of the daemon.
Completes(i) ==
    LET p == attempt[i].to IN
    /\ Confirmed(attempt[i])
    /\ StorePeer(i, p)
    /\ Drops(i)
    /\ ackedOut' = [ackedOut EXCEPT ![i] = @ \ {p}]
    /\ IF Saved THEN Listens(i) /\ ackedIn' = [ackedIn EXCEPT ![i] = @ \cup {p}]
                ELSE UNCHANGED <<listening, ackedIn>>
    /\ UNCHANGED <<up, identity, invite, polling, issued, commands, agreed, granted, spent>>

-----------------------------------------------------------------------------
\* handlePeerRemove

\* The k-th peer is the first of that name.
FirstNamed(m, k, n) ==
    Name(pins[m][k]) = n /\ \A j \in 1..(k - 1) : Name(pins[m][j]) # n

\* Pairings whose pin p is on m's list and not acknowledged yet.
Undoes(m, p) ==
    attempt' = [i \in Initiator |->
        LET a == attempt[i] IN
        IF a.pc = "stored" /\ a.from = p /\ Host(a.to) = m
          THEN [a EXCEPT !.undone = TRUE] ELSE a]

\* The first peer of that name goes, from memory even when the save fails.
Removes(m, n) ==
    \E k \in DOMAIN pins[m] :
        LET p == pins[m][k] IN
        /\ up[m] /\ FirstNamed(m, k, n)
        /\ pins' = [pins EXCEPT ![m] = RemoveAt(@, k)]
        /\ ackedIn' = [ackedIn EXCEPT ![m] = @ \ {p}]
        /\ Undoes(m, p)
        /\ \/ /\ file' = [file EXCEPT ![m] = pins'[m]] /\ UNCHANGED faults
              /\ ackedOut' = [ackedOut EXCEPT ![m] = @ \cup {p}]
           \/ UNCHANGED <<file, ackedOut>> /\ Faults
        /\ UNCHANGED <<up, identity, net, issued, commands, agreed, granted, spent>>

-----------------------------------------------------------------------------
\* Deaths and starts

\* The daemon dies: as an initiator it no longer waits, as a responder it no
\* longer answers.  An initiator's is ended by its user, a command.
Dies(m) ==
    /\ up[m]
    /\ IF m \in Initiator THEN Commands /\ UNCHANGED faults ELSE Faults /\ UNCHANGED commands
    /\ up' = [up EXCEPT ![m] = FALSE]
    /\ pins' = [pins EXCEPT ![m] = <<>>]
    /\ invite' = [invite EXCEPT ![m] = NoInvite]
    /\ listening' = [listening EXCEPT ![m] = FALSE]
    /\ polling' = [polling EXCEPT ![m] = FALSE]
    /\ attempt' = [i \in Initiator |->
         LET a == attempt[i] IN
         IF a.pc = "idle" THEN a
         ELSE IF Host(a.to) = m /\ a.pc # "answered" THEN NoAttempt
         ELSE IF i # m THEN a
         ELSE IF a.pc \in {"probed", "answered"} THEN NoAttempt
         ELSE [a EXCEPT !.waiting = FALSE]]
    /\ UNCHANGED <<identity, file, issued, history>>

\* loadPeerSubsystem: with a peer on file, listen and poll; neither when the
\* port cannot be bound.
Boots(m) ==
    /\ ~up[m]
    /\ up' = [up EXCEPT ![m] = TRUE]
    /\ pins' = [pins EXCEPT ![m] = file[m]]
    /\ IF file[m] = <<>> THEN UNCHANGED <<listening, polling, faults>>
       ELSE \/ Listens(m) /\ polling' = [polling EXCEPT ![m] = TRUE] /\ UNCHANGED faults
            \/ UNCHANGED <<listening, polling>> /\ Faults
    /\ UNCHANGED <<identity, file, invite, attempt, issued, commands, history>>

\* The machine comes back reinstalled: its pins and its identity are gone.
Reinstalls(m) ==
    /\ ~up[m]
    /\ up' = [up EXCEPT ![m] = TRUE]
    /\ identity' = [identity EXCEPT ![m] = <<m, @[2] + 1>>]
    /\ file' = [file EXCEPT ![m] = <<>>]
    /\ ackedIn' = [ackedIn EXCEPT ![m] = {}]
    /\ ackedOut' = [ackedOut EXCEPT ![m] = {}]
    /\ UNCHANGED <<pins, net, attempt, bounds, agreed, granted, spent>>

-----------------------------------------------------------------------------
\* Properties

\* What a user was told is what a restart finds: a peer whose pairing was
\* acknowledged, on either side, is in peers.json, one whose removal was is not
\* (storePeer, handlePeerRemove; SavePeers: a crash never truncates it).
AckedPinsAreDurable ==
    \A m \in Machine :
        /\ ackedIn[m] \subseteq Range(file[m])
        /\ ackedOut[m] \cap (Range(file[m]) \cup Pinned(m)) = {}

\* Trust has a cause on the other side: every pin comes from a proof its holder
\* verified as responder, or from a responder that had already saved the pin of
\* the holder.  A lost reply leaves a one-sided pin of the first kind only.
PinsHaveACause ==
    \A m \in Machine : \A p \in Pinned(m) \cup Range(file[m]) :
        \/ <<identity[m], p>> \in agreed
        \/ <<p, identity[m]>> \in granted

\* The invite is one-time ("consumed by the first successful pairing"): a pairing
\* that reaches the responder after another one consumed its code is denied.
\* Two that overlap both succeed.
SpentCodesAreDead == \A i \in Initiator : attempt[i].pc = "idle" \/ ~attempt[i].late
=============================================================================
