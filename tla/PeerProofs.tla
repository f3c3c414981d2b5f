----------------------------- MODULE PeerProofs -----------------------------
(***************************************************************************)
(* Theorems about PeerPairing and PeerSync, under the next-state relation  *)
(* of PeerSync, for any number of machines, commands and faults.  A spent  *)
(* code is dead as codes are one machine's (Codes); that every pin         *)
(* has a cause rests on a pairing in flight being between the identities   *)
(* its two ends still have (Ends), and on what was agreed and granted when *)
(* it got where it is (Promises).  What users were told stays true on both *)
(* sides of a restart (Durable), and a list in the cache has its source    *)
(* among the peers of its name (Sourced).                                  *)
(***************************************************************************)
EXTENDS PeerSync, SequenceTheorems, WellFoundedInduction, TLAPS

\* An identity, whatever the bound on reinstallations.
Id == Machine \X Nat

Attempt == [pc : {"probed", "verified", "stored", "answered"}, from : Id, to : Id,
            code : Nat, waiting : BOOLEAN, late : BOOLEAN, undone : BOOLEAN]

Typed ==
    /\ up \in [Machine -> BOOLEAN]
    /\ identity \in [Machine -> Id]
    /\ \A m \in Machine : Host(identity[m]) = m
    /\ pins \in [Machine -> Seq(Id)]
    /\ file \in [Machine -> Seq(Id)]
    /\ \A m \in Machine : ~up[m] => pins[m] = <<>>
    /\ issued \in Nat
    /\ invite \in [Machine -> 0..issued]
    /\ attempt \in [Initiator -> Attempt \cup {NoAttempt}]
    /\ spent \subseteq 1..issued

\* A code is of one machine, and is spent only when its invite is closed.
Codes ==
    /\ \A m \in Machine : invite[m] \notin spent
    /\ \A m, n \in Machine : invite[m] = invite[n] /\ invite[m] # NoInvite => m = n
    /\ \A i \in Initiator : attempt[i].pc # "idle" =>
         /\ attempt[i].code \in 1..issued
         /\ ~attempt[i].late
         /\ attempt[i].pc # "probed" =>
              \A m \in Machine : invite[m] = attempt[i].code => m = Host(attempt[i].to)

\* An initiator that waits, and a responder at work, are who they were.
Ends ==
    \A i \in Initiator :
        /\ attempt[i].pc \in {"probed", "answered"} => attempt[i].waiting
        /\ attempt[i].pc # "idle" /\ attempt[i].waiting =>
             up[i] /\ identity[i] = attempt[i].from
        /\ attempt[i].pc \in {"verified", "stored"} =>
             up[Host(attempt[i].to)] /\ identity[Host(attempt[i].to)] = attempt[i].to

\* What the responder has verified and saved of a pairing in flight.
Promises ==
    \A i \in Initiator :
        /\ attempt[i].pc \in {"verified", "stored", "answered"} =>
             <<attempt[i].to, attempt[i].from>> \in agreed
        /\ attempt[i].pc \in {"stored", "answered"} =>
             <<attempt[i].to, attempt[i].from>> \in granted

PeerInv == Typed /\ Codes /\ Ends /\ Promises /\ PinsHaveACause

-----------------------------------------------------------------------------
\* Lists of pins

LEMMA WithPinRange ==
    ASSUME NEW list \in Seq(Id), NEW p \in Id
    PROVE  /\ WithPin(list, p) \in Seq(Id)
           /\ Range(WithPin(list, p)) = Range(list) \cup {p}
<1>1. CASE p \in Range(list)
  BY <1>1 DEF WithPin
<1>2. CASE p \notin Range(list)
  <2> DEFINE new == Append(list, p)
  <2>1. /\ new \in Seq(Id)
        /\ Len(new) = Len(list) + 1
        /\ \A k \in 1..Len(list) : new[k] = list[k]
        /\ new[Len(list) + 1] = p
    BY AppendProperties
  <2>2. Range(new) = {new[k] : k \in 1..Len(new)} /\ Range(list) = {list[k] : k \in 1..Len(list)}
    BY <2>1, RangeEquality
  <2>3. Range(new) = Range(list) \cup {p}
    BY <2>1, <2>2, LenProperties
  <2>4. QED
    BY <1>2, <2>1, <2>3 DEF WithPin
<1>3. QED
  BY <1>1, <1>2

LEMMA RemoveAtRange ==
    ASSUME NEW list \in Seq(Id), NEW k \in DOMAIN list
    PROVE  /\ RemoveAt(list, k) \in Seq(Id)
           /\ Range(RemoveAt(list, k)) \subseteq Range(list)
<1> DEFINE S == Range(list)
<1>1. /\ Len(list) \in Nat /\ k \in 1..Len(list)
      /\ \A j \in 1..Len(list) : list[j] \in S
  BY LenProperties DEF Range
<1>2. SubSeq(list, 1, k - 1) \in Seq(S) /\ SubSeq(list, k + 1, Len(list)) \in Seq(S)
  BY <1>1, SubSeqProperties
<1>3. RemoveAt(list, k) \in Seq(S)
  BY <1>2, ConcatProperties DEF RemoveAt
<1>4. S \subseteq Id
  BY RangeOfSeq
<1>5. QED
  BY <1>3, <1>4, SeqMonotonic, RangeOfSeq

-----------------------------------------------------------------------------
\* Where everything is as it was, the invariant is

pairings == <<up, identity, pins, file, invite, attempt, issued, agreed, granted, spent>>

LEMMA Unmoved == PeerInv /\ UNCHANGED pairings => PeerInv'
BY DEF PeerInv, Typed, Codes, Ends, Promises, PinsHaveACause, Pinned, pairings

\* Nothing of a pairing, nor of what users were told, moves.
Elsewhere ==
    /\ UNCHANGED <<pairings, ackedIn, ackedOut>>
    /\ UNCHANGED faults \/ Faults

\* The actions that move something of a pairing.
LEMMA NextCases ==
    ASSUME Next
    PROVE  \/ \E m \in Inviter : Invites(m) \/ InviteExpires(m)
           \/ \E i \in Initiator, r \in Inviter, c \in 1..issued : Probes(i, r, c)
           \/ \E i \in Initiator :
                Posts(i) \/ Grants(i) \/ Consumes(i) \/ GivesUp(i) \/ Completes(i)
           \/ \E m \in Followed : Dies(m) \/ Boots(m) \/ Reinstalls(m)
           \/ \E m \in Watcher, n \in PeerName : Removes(m, n)
           \/ Elsewhere
<1>1. ASSUME NEW m \in Watcher, NEW k \in Sweeper, StartsSweep(m, k) \/ Sweeps(m, k)
      PROVE  Elsewhere
  BY <1>1 DEF StartsSweep, Sweeps, ReadsState, Claims, IsAnswered, Fails, Applies,
              pairings, pairVars, store, net, bounds, history, Elsewhere
<1>2. ASSUME NEW m \in Watcher, NEW n \in PeerName, ThrottleEnds(m, n)
      PROVE  Elsewhere
  BY <1>2 DEF ThrottleEnds, pairings, pairVars, store, net, bounds, history, Elsewhere
<1>3. ASSUME NEW s \in Inviter, NEW r \in Route \ Bookmark, TableChanges(s, r)
      PROVE  Elsewhere
  BY <1>3 DEF TableChanges, pairings, store, net, history, Elsewhere
<1>4. QED
  BY <1>1, <1>2, <1>3 DEF Next, Pairs, PeerAdded, DaemonDies, PeerRemoved

LEMMA InitInv == Init => PeerInv
<1> SUFFICES ASSUME Init PROVE PeerInv
  OBVIOUS
<1> USE DEF Init, PairInit
<1>1. Typed
  BY EmptySeq, NoInviteAssumption DEF Typed, Id, Host, NoAttempt
<1>2. Codes /\ Ends /\ Promises
  BY NoInviteAssumption DEF Codes, Ends, Promises, NoAttempt
<1>3. PinsHaveACause
  BY DEF PinsHaveACause, Pinned, Range
<1>4. QED
  BY <1>1, <1>2, <1>3 DEF PeerInv

-----------------------------------------------------------------------------
\* The responder's user, deaths and starts

LEMMA InvitesInv ==
    ASSUME PeerInv, NEW m \in Inviter, Invites(m) \/ InviteExpires(m)
    PROVE  PeerInv'
<1> USE RoleAssumption, NoInviteAssumption DEF PeerInv
<1>1. CASE Invites(m)
  <2>1. /\ issued' = issued + 1 /\ invite' = [invite EXCEPT ![m] = issued + 1]
        /\ UNCHANGED <<up, identity, pins, file, attempt, agreed, granted, spent>>
    BY <1>1 DEF Invites, store, history
  <2>2. Typed'
    BY <2>1 DEF Typed
  <2>3. Codes'
    <3>1. \A n \in Machine : invite'[n] \notin spent'
      BY <2>1 DEF Codes, Typed
    <3>2. \A n, k \in Machine : invite'[n] = invite'[k] /\ invite'[n] # NoInvite => n = k
      BY <2>1 DEF Codes, Typed
    <3>3. ASSUME NEW i \in Initiator, attempt'[i].pc # "idle"
          PROVE  /\ attempt'[i].code \in 1..issued'
                 /\ ~attempt'[i].late
                 /\ attempt'[i].pc # "probed" => \A n \in Machine :
                      invite'[n] = attempt'[i].code => n = Host(attempt'[i].to)
      <4>1. attempt[i].code \in 1..issued /\ ~attempt[i].late
        BY <2>1, <3>3 DEF Codes
      <4>2. QED
        BY <2>1, <3>3, <4>1 DEF Codes, Typed
    <3>4. QED
      BY <3>1, <3>2, <3>3 DEF Codes
  <2>4. (Ends /\ Promises /\ PinsHaveACause)'
    BY <2>1 DEF Ends, Promises, PinsHaveACause, Pinned
  <2>5. QED
    BY <2>2, <2>3, <2>4
<1>2. CASE InviteExpires(m)
  <2>1. /\ invite' = [invite EXCEPT ![m] = NoInvite]
        /\ UNCHANGED <<up, identity, pins, file, issued, attempt, agreed, granted, spent>>
    BY <1>2 DEF InviteExpires, store, history, bounds
  <2>2. Typed'
    BY <2>1 DEF Typed
  <2>3. Codes'
    BY <2>1 DEF Codes, Typed
  <2>4. (Ends /\ Promises /\ PinsHaveACause)'
    BY <2>1 DEF Ends, Promises, PinsHaveACause, Pinned
  <2>5. QED
    BY <2>2, <2>3, <2>4
<1>3. QED
  BY <1>1, <1>2

\* A death ends what the daemon waited for as initiator and did as responder.
LEMMA DiesInv ==
    ASSUME PeerInv, NEW m \in Machine, Dies(m)
    PROVE  PeerInv'
<1> USE NoInviteAssumption DEF PeerInv
<1>1. /\ up' = [up EXCEPT ![m] = FALSE]
      /\ pins' = [pins EXCEPT ![m] = <<>>]
      /\ invite' = [invite EXCEPT ![m] = NoInvite]
      /\ UNCHANGED <<identity, file, issued, agreed, granted, spent>>
  BY DEF Dies, history
<1>2. /\ attempt' \in [Initiator -> Attempt \cup {NoAttempt}]
      /\ \A i \in Initiator : \/ attempt'[i] = attempt[i]
                              \/ attempt'[i] = NoAttempt
                              \/ attempt'[i] = [attempt[i] EXCEPT !.waiting = FALSE]
  BY DEF Dies, Typed, Attempt, NoAttempt
<1>3. \A i \in Initiator : attempt'[i].pc # "idle" =>
        /\ attempt[i].pc = attempt'[i].pc /\ attempt[i].from = attempt'[i].from
        /\ attempt[i].to = attempt'[i].to /\ attempt[i].code = attempt'[i].code
        /\ attempt[i].late = attempt'[i].late
        /\ attempt'[i].waiting => attempt[i].waiting
  <2> SUFFICES ASSUME NEW i \in Initiator, attempt'[i].pc # "idle"
               PROVE  \/ attempt'[i] = attempt[i]
                      \/ /\ attempt[i] \in Attempt
                         /\ attempt'[i] = [attempt[i] EXCEPT !.waiting = FALSE]
    BY DEF Attempt
  <2>1. attempt'[i] # NoAttempt
    BY DEF NoAttempt
  <2>2. attempt[i] \in Attempt \/ [attempt[i] EXCEPT !.waiting = FALSE] = NoAttempt
    BY DEF Typed, NoAttempt
  <2>3. QED
    BY <1>2, <2>1, <2>2
<1>4. Typed'
  BY <1>1, <1>2, EmptySeq DEF Typed
<1>5. Codes'
  <2>1. \A n \in Machine : invite'[n] = invite[n] \/ invite'[n] = NoInvite
    BY <1>1 DEF Typed
  <2>2. NoInvite \notin spent
    BY DEF Typed
  <2>3. ASSUME NEW i \in Initiator, attempt'[i].pc # "idle"
        PROVE  /\ attempt'[i].code \in 1..issued'
               /\ ~attempt'[i].late
               /\ attempt'[i].pc # "probed" => \A n \in Machine :
                    invite'[n] = attempt'[i].code => n = Host(attempt'[i].to)
    <3>1. attempt[i].pc # "idle" /\ attempt[i].code \in 1..issued
      BY <1>3, <2>3 DEF Codes
    <3>2. /\ attempt'[i].code = attempt[i].code /\ attempt'[i].late = attempt[i].late
          /\ attempt'[i].pc = attempt[i].pc /\ attempt'[i].to = attempt[i].to
      BY <1>3, <2>3
    <3>3. ~attempt[i].late /\ issued' = issued
      BY <1>1, <3>1 DEF Codes
    <3>4. ASSUME NEW n \in Machine, attempt[i].pc # "probed", invite'[n] = attempt[i].code
          PROVE  n = Host(attempt[i].to)
      <4>1. invite[n] = attempt[i].code
        BY <2>1, <3>1, <3>4
      <4>2. QED
        BY <3>1, <3>4, <4>1 DEF Codes
    <3>5. QED
      BY <3>1, <3>2, <3>3, <3>4
  <2>4. QED
    BY <1>1, <2>1, <2>2, <2>3 DEF Codes
<1>6. Ends'
  <2> SUFFICES ASSUME NEW i \in Initiator, attempt'[i].pc # "idle"
               PROVE  /\ attempt'[i].pc \in {"probed", "answered"} => attempt'[i].waiting
                      /\ attempt'[i].waiting => up'[i] /\ identity'[i] = attempt'[i].from
                      /\ attempt'[i].pc \in {"verified", "stored"} =>
                           /\ up'[Host(attempt'[i].to)]
                           /\ identity'[Host(attempt'[i].to)] = attempt'[i].to
    BY DEF Ends
  <2>1. attempt[i].pc # "idle"
    BY <1>3
  <2>2. /\ Host(attempt[i].to) = m => attempt[i].pc = "answered"
        /\ i # m => attempt'[i] = attempt[i]
        /\ i = m => /\ attempt[i].pc \in {"verified", "stored"}
                    /\ ~attempt'[i].waiting
    BY <2>1 DEF Dies, Typed, Attempt, NoAttempt
  <2>3. Host(attempt[i].to) \in Machine /\ i \in Machine
    BY <2>1, RoleAssumption DEF Typed, Attempt, NoAttempt, Id, Host
  <2>4. QED
    BY <1>1, <1>3, <2>1, <2>2, <2>3 DEF Ends, Typed
<1>7. Promises'
  BY <1>1, <1>3 DEF Promises
<1>8. PinsHaveACause'
  <2>1. \A n \in Machine : Range(pins'[n]) \subseteq Range(pins[n])
    BY <1>1 DEF Typed, Range
  <2>2. QED
    BY <1>1, <2>1 DEF PinsHaveACause, Pinned
<1>9. QED
  BY <1>4, <1>5, <1>6, <1>7, <1>8

LEMMA BootsInv ==
    ASSUME PeerInv, NEW m \in Machine, Boots(m)
    PROVE  PeerInv'
<1> USE DEF PeerInv
<1>1. /\ ~up[m] /\ up' = [up EXCEPT ![m] = TRUE]
      /\ pins' = [pins EXCEPT ![m] = file[m]]
      /\ UNCHANGED <<identity, file, invite, attempt, issued, agreed, granted, spent>>
  BY DEF Boots, history
<1>2. Typed' /\ Codes' /\ Promises'
  BY <1>1 DEF Typed, Codes, Promises
<1>3. Ends'
  BY <1>1, RoleAssumption DEF Typed, Ends
<1>4. PinsHaveACause'
  BY <1>1 DEF Typed, PinsHaveACause, Pinned
<1>5. QED
  BY <1>2, <1>3, <1>4

\* A new identity has no pins, and nobody is at work under the old one.
LEMMA ReinstallsInv ==
    ASSUME PeerInv, NEW m \in Machine, Reinstalls(m)
    PROVE  PeerInv'
<1> USE DEF PeerInv
<1>1. /\ ~up[m] /\ up' = [up EXCEPT ![m] = TRUE]
      /\ identity' = [identity EXCEPT ![m] = <<m, identity[m][2] + 1>>]
      /\ file' = [file EXCEPT ![m] = <<>>]
      /\ UNCHANGED <<pins, invite, attempt, issued, agreed, granted, spent>>
  BY DEF Reinstalls, net, bounds
<1>2. Typed'
  <2>1. \A n \in Machine : identity'[n] \in Id /\ Host(identity'[n]) = n
    BY <1>1 DEF Typed, Id, Host
  <2>2. identity' \in [Machine -> Id]
    BY <1>1, <2>1 DEF Typed
  <2>3. QED
    BY <1>1, <2>1, <2>2, EmptySeq DEF Typed
<1>3. Codes' /\ Promises'
  BY <1>1 DEF Codes, Promises
<1>4. Ends'
  BY <1>1, RoleAssumption DEF Typed, Ends
<1>5. PinsHaveACause'
  <2>1. pins'[m] = <<>> /\ file'[m] = <<>>
    BY <1>1 DEF Typed
  <2>2. \A n \in Machine \ {m} : UNCHANGED <<pins[n], file[n], identity[n]>>
    BY <1>1 DEF Typed
  <2>3. Range(<<>>) = {}
    BY DEF Range
  <2>4. QED
    BY <1>1, <2>1, <2>2, <2>3 DEF PinsHaveACause, Pinned
<1>6. QED
  BY <1>2, <1>3, <1>4, <1>5

-----------------------------------------------------------------------------
\* The two sides of a pairing

\* One attempt changes, into one that has not been late.
LEMMA ProbesInv ==
    ASSUME PeerInv, NEW i \in Initiator, NEW r \in Inviter, NEW c \in 1..issued,
           Probes(i, r, c)
    PROVE  PeerInv'
<1> USE RoleAssumption DEF PeerInv
<1> DEFINE new == [pc |-> "probed", from |-> identity[i], to |-> identity[r], code |-> c,
                   waiting |-> TRUE, late |-> FALSE, undone |-> FALSE]
<1>1. /\ attempt' = [attempt EXCEPT ![i] = new]
      /\ up[i]
      /\ UNCHANGED <<up, identity, pins, file, invite, issued, agreed, granted, spent>>
  BY DEF Probes, store, net, history
<1>2. new \in Attempt /\ i \in Machine
  BY DEF Typed, Attempt
<1>3. /\ attempt'[i] = new
      /\ \A j \in Initiator \ {i} : attempt'[j] = attempt[j]
  BY <1>1 DEF Typed
<1>4. Typed'
  BY <1>1, <1>2 DEF Typed
<1>5. Codes'
  BY <1>1, <1>3 DEF Codes
<1>6. Ends'
  BY <1>1, <1>3 DEF Ends
<1>7. Promises'
  BY <1>1, <1>3 DEF Promises
<1>8. PinsHaveACause'
  BY <1>1 DEF PinsHaveACause, Pinned
<1>9. QED
  BY <1>4, <1>5, <1>6, <1>7, <1>8

\* The proof is verified while the code is the responder's and open: not spent.
LEMMA PostsInv ==
    ASSUME PeerInv, NEW i \in Initiator, Posts(i)
    PROVE  PeerInv'
<1> USE NoInviteAssumption DEF PeerInv
<1> DEFINE a == attempt[i]
           r == Host(a.to)
<1>1. /\ a.pc = "probed" /\ a \in Attempt /\ r \in Machine
      /\ UNCHANGED <<up, identity, pins, file, invite, issued, granted, spent>>
  BY DEF Posts, Typed, NoAttempt, store, net, bounds, Attempt, Id, Host
<1>2. PICK new \in Attempt \cup {NoAttempt} :
         /\ attempt' = [attempt EXCEPT ![i] = new]
         /\ \/ new = NoAttempt /\ agreed' = agreed
            \/ /\ Answers(r, a.to) /\ Verified(r, a)
               /\ new = [a EXCEPT !.pc = "verified", !.late = a.code \in spent]
               /\ agreed' = agreed \cup {<<a.to, a.from>>}
  <2>1. CASE Answers(r, a.to) /\ Admits(r, a.from) /\ Verified(r, a)
    <3> DEFINE new == [a EXCEPT !.pc = "verified", !.late = a.code \in spent]
    <3>1. new \in Attempt
      <4>1. \A l \in BOOLEAN : [a EXCEPT !.pc = "verified", !.late = l] \in Attempt
        BY <1>1 DEF Attempt
      <4>2. (a.code \in spent) \in BOOLEAN
        OBVIOUS
      <4> HIDE DEF a
      <4>3. QED
        BY <4>1, <4>2
    <3>2. attempt' = [attempt EXCEPT ![i] = new] /\ agreed' = agreed \cup {<<a.to, a.from>>}
      BY <2>1 DEF Posts, Typed
    <3>3. QED
      BY <2>1, <3>1, <3>2
  <2>2. CASE ~(Answers(r, a.to) /\ Admits(r, a.from) /\ Verified(r, a))
    BY <2>2 DEF Posts, Drops
  <2>3. QED
    BY <2>1, <2>2
<1>3. /\ attempt'[i] = new
      /\ \A j \in Initiator \ {i} : attempt'[j] = attempt[j]
  BY <1>2 DEF Typed
<1>4. Typed'
  BY <1>1, <1>2 DEF Typed
<1>5. CASE new = NoAttempt
  BY <1>1, <1>2, <1>3, <1>4, <1>5 DEF Codes, Ends, Promises, PinsHaveACause, Pinned, NoAttempt
<1>6. CASE new # NoAttempt
  <2>1. /\ Answers(r, a.to) /\ Verified(r, a)
        /\ new = [a EXCEPT !.pc = "verified", !.late = a.code \in spent]
        /\ agreed' = agreed \cup {<<a.to, a.from>>}
    BY <1>2, <1>6
  <2>2. /\ new.pc = "verified" /\ new.from = a.from /\ new.to = a.to /\ new.code = a.code
        /\ new.waiting = a.waiting /\ new.late = (a.code \in spent)
    BY <1>1, <2>1 DEF Attempt
  <2>3. Codes'
    <3>1. a.code \in 1..issued /\ a.code = invite[r] /\ a.code \notin spent
      BY <1>1, <2>1 DEF Codes, Verified
    <3>2. \A m \in Machine : invite[m] = a.code => m = r
      BY <1>1, <3>1 DEF Codes
    <3>3. ASSUME NEW j \in Initiator, attempt'[j].pc # "idle"
          PROVE  /\ attempt'[j].code \in 1..issued
                 /\ ~attempt'[j].late
                 /\ attempt'[j].pc # "probed" => \A n \in Machine :
                      invite[n] = attempt'[j].code => n = Host(attempt'[j].to)
      <4>1. CASE j = i
        BY <1>3, <2>2, <3>1, <3>2, <4>1
      <4>2. CASE j # i
        BY <1>3, <3>3, <4>2 DEF Codes
      <4>3. QED
        BY <4>1, <4>2
    <3>4. QED
      BY <1>1, <3>3 DEF Codes
  <2>4. Ends'
    <3>1. a.waiting /\ up[i] /\ identity[i] = a.from
      BY <1>1 DEF Ends
    <3>2. up[r] /\ identity[r] = a.to
      BY <2>1 DEF Answers
    <3>3. QED
      BY <1>1, <1>3, <2>2, <3>1, <3>2 DEF Ends
  <2>5. Promises' /\ PinsHaveACause'
    BY <1>1, <1>3, <2>1, <2>2 DEF Promises, PinsHaveACause, Pinned
  <2>6. QED
    BY <1>4, <2>3, <2>4, <2>5
<1>7. QED
  BY <1>5, <1>6

\* A pin of the other end's identity, agreed on or granted, has a cause.
LEMMA StoreCause ==
    ASSUME PeerInv, NEW m \in Machine, NEW p \in Id, StorePeer(m, p), up[m],
           <<identity[m], p>> \in agreed \/ <<p, identity[m]>> \in granted,
           UNCHANGED <<up, identity>>, agreed \subseteq agreed', granted \subseteq granted'
    PROVE  /\ pins' \in [Machine -> Seq(Id)]
           /\ file' \in [Machine -> Seq(Id)]
           /\ \A n \in Machine : ~up'[n] => pins'[n] = <<>>
           /\ PinsHaveACause'
<1> USE DEF PeerInv
<1> DEFINE list == WithPin(pins[m], p)
<1>1. list \in Seq(Id) /\ Range(list) = Range(pins[m]) \cup {p}
  BY WithPinRange DEF Typed
<1>2. /\ pins' = [pins EXCEPT ![m] = list]
      /\ file' = [file EXCEPT ![m] = list] \/ file' = file
  BY DEF StorePeer, Typed
<1> HIDE DEF list
<1>3. /\ pins' \in [Machine -> Seq(Id)] /\ file' \in [Machine -> Seq(Id)]
      /\ \A n \in Machine : ~up'[n] => pins'[n] = <<>>
  BY <1>1, <1>2 DEF Typed
<1>4. \A n \in Machine :
        Range(pins'[n]) \cup Range(file'[n])
          \subseteq Range(pins[n]) \cup Range(file[n]) \cup {q \in {p} : n = m}
  BY <1>1, <1>2 DEF Typed
<1>5. PinsHaveACause'
  BY <1>4 DEF PinsHaveACause, Pinned
<1>6. QED
  BY <1>3, <1>5

LEMMA GrantsInv ==
    ASSUME PeerInv, NEW i \in Initiator, Grants(i)
    PROVE  PeerInv'
<1> USE DEF PeerInv
<1> DEFINE a == attempt[i]
           r == Host(a.to)
<1>1. /\ a.pc = "verified" /\ a \in Attempt /\ r \in Machine
      /\ up[r] /\ identity[r] = a.to /\ <<a.to, a.from>> \in agreed
      /\ UNCHANGED <<up, identity, invite, issued, agreed, spent>>
  BY DEF Grants, Typed, NoAttempt, net, Attempt, Id, Host, Ends, Promises
<1>2. /\ StorePeer(r, a.from) /\ granted \subseteq granted'
      /\ \/ attempt' = [attempt EXCEPT ![i] = NoAttempt]
         \/ /\ attempt' = [attempt EXCEPT ![i] = [a EXCEPT !.pc = "stored"]]
            /\ granted' = granted \cup {<<a.to, a.from>>}
  BY DEF Grants, GrantVerdict, Drops
<1>3. /\ pins' \in [Machine -> Seq(Id)] /\ file' \in [Machine -> Seq(Id)]
      /\ \A m \in Machine : ~up'[m] => pins'[m] = <<>>
      /\ PinsHaveACause'
  BY <1>1, <1>2, StoreCause DEF Attempt
<1>4. CASE attempt' = [attempt EXCEPT ![i] = NoAttempt]
  <2>1. \A j \in Initiator : attempt'[j] = NoAttempt \/ attempt'[j] = attempt[j]
    BY <1>4 DEF Typed
  <2>2. Typed'
    BY <1>1, <1>3, <1>4 DEF Typed
  <2>3. Codes' /\ Ends' /\ Promises'
    BY <1>1, <1>2, <2>1 DEF Codes, Ends, Promises, NoAttempt
  <2>4. QED
    BY <1>3, <2>2, <2>3
<1>5. CASE /\ attempt' = [attempt EXCEPT ![i] = [a EXCEPT !.pc = "stored"]]
           /\ granted' = granted \cup {<<a.to, a.from>>}
  <2> DEFINE new == [a EXCEPT !.pc = "stored"]
  <2>1. /\ new \in Attempt /\ new.pc = "stored" /\ new.from = a.from /\ new.to = a.to
        /\ new.code = a.code /\ new.waiting = a.waiting /\ new.late = a.late
    BY <1>1 DEF Attempt
  <2>2. attempt'[i] = new /\ \A j \in Initiator \ {i} : attempt'[j] = attempt[j]
    BY <1>5 DEF Typed
  <2>3. Typed'
    BY <1>1, <1>3, <1>5, <2>1 DEF Typed
  <2> HIDE DEF new
  <2>4. Codes'
    BY <1>1, <2>1, <2>2 DEF Codes
  <2>5. Ends'
    BY <1>1, <2>1, <2>2 DEF Ends
  <2>6. Promises'
    BY <1>1, <1>2, <1>5, <2>1, <2>2 DEF Promises
  <2>7. QED
    BY <1>3, <2>3, <2>4, <2>5, <2>6
<1>6. QED
  BY <1>2, <1>4, <1>5

\* The code is spent, and with it closes the only invite that has it.
LEMMA ConsumesInv ==
    ASSUME PeerInv, NEW i \in Initiator, Consumes(i)
    PROVE  PeerInv'
<1> USE NoInviteAssumption DEF PeerInv
<1> DEFINE a == attempt[i]
           r == Host(a.to)
<1>1. /\ a.pc = "stored" /\ a \in Attempt /\ r \in Machine
      /\ a.code \in 1..issued /\ ~a.late
      /\ \A m \in Machine : invite[m] = a.code => m = r
      /\ invite' = [invite EXCEPT ![r] = NoInvite]
      /\ spent' = spent \cup {a.code}
      /\ UNCHANGED <<up, identity, pins, file, issued, agreed, granted>>
  BY DEF Consumes, InviteAfter, Typed, NoAttempt, store, bounds, Attempt, Id, Host, Codes
<1>2. PICK new \in Attempt \cup {NoAttempt} :
         /\ attempt' = [attempt EXCEPT ![i] = new]
         /\ new # NoAttempt => new = [a EXCEPT !.pc = "answered"] /\ a.waiting
  BY <1>1 DEF Consumes, Drops, Attempt
<1>3. attempt'[i] = new /\ \A j \in Initiator \ {i} : attempt'[j] = attempt[j]
  BY <1>2 DEF Typed
<1>4. new # NoAttempt =>
        /\ a.waiting /\ new.waiting /\ new.pc = "answered" /\ new.from = a.from
        /\ new.to = a.to /\ new.code = a.code /\ ~new.late
  BY <1>1, <1>2 DEF Attempt
<1>5. Typed'
  BY <1>1, <1>2 DEF Typed
<1>6. Codes'
  <2>1. \A m \in Machine : invite'[m] = invite[m] \/ invite'[m] = NoInvite
    BY <1>1 DEF Typed
  <2>2. \A m \in Machine : invite'[m] \notin spent'
    BY <1>1 DEF Codes, Typed
  <2>3. \A m, n \in Machine : invite'[m] = invite'[n] /\ invite'[m] # NoInvite => m = n
    BY <2>1 DEF Codes
  <2>4. ASSUME NEW j \in Initiator, attempt'[j].pc # "idle"
        PROVE  /\ attempt'[j].code \in 1..issued'
               /\ ~attempt'[j].late
               /\ attempt'[j].pc # "probed" => \A n \in Machine :
                    invite'[n] = attempt'[j].code => n = Host(attempt'[j].to)
    <3>1. attempt'[j].code \in 1..issued /\ ~attempt'[j].late
      BY <1>1, <1>3, <1>4, <2>4 DEF Codes, NoAttempt
    <3>2. ASSUME NEW n \in Machine, attempt'[j].pc # "probed", invite'[n] = attempt'[j].code
          PROVE  n = Host(attempt'[j].to)
      BY <1>1, <1>3, <1>4, <2>1, <2>4, <3>1, <3>2 DEF Codes, NoAttempt
    <3>3. QED
      BY <1>1, <3>1, <3>2
  <2>5. QED
    BY <2>2, <2>3, <2>4 DEF Codes
<1>7. Ends'
  BY <1>1, <1>3, <1>4 DEF Ends, NoAttempt
<1>8. Promises'
  BY <1>1, <1>3, <1>4 DEF Promises, NoAttempt
<1>9. PinsHaveACause'
  BY <1>1 DEF PinsHaveACause, Pinned
<1>10. QED
  BY <1>5, <1>6, <1>7, <1>8, <1>9

LEMMA GivesUpInv ==
    ASSUME PeerInv, NEW i \in Initiator, GivesUp(i)
    PROVE  PeerInv'
<1> USE DEF PeerInv
<1> DEFINE a == attempt[i]
<1>1. /\ a.pc \in {"verified", "stored", "answered"} /\ a \in Attempt
      /\ UNCHANGED <<up, identity, pins, file, invite, issued, agreed, granted, spent>>
  BY DEF GivesUp, Typed, NoAttempt, store, net, history
<1>2. PICK new \in Attempt \cup {NoAttempt} :
         /\ attempt' = [attempt EXCEPT ![i] = new]
         /\ new # NoAttempt => a.pc # "answered" /\ new = [a EXCEPT !.waiting = FALSE]
  BY <1>1 DEF GivesUp, Drops, Attempt
<1>3. attempt'[i] = new /\ \A j \in Initiator \ {i} : attempt'[j] = attempt[j]
  BY <1>2 DEF Typed
<1>4. new # NoAttempt =>
        /\ a.pc # "answered" /\ ~new.waiting /\ new.pc = a.pc /\ new.from = a.from
        /\ new.to = a.to /\ new.code = a.code /\ new.late = a.late
  BY <1>1, <1>2 DEF Attempt
<1>5. Typed'
  BY <1>1, <1>2 DEF Typed
<1>6. Codes' /\ Promises' /\ PinsHaveACause'
  BY <1>1, <1>3, <1>4 DEF Codes, Promises, PinsHaveACause, Pinned, NoAttempt
<1>7. Ends'
  BY <1>1, <1>3, <1>4 DEF Ends, NoAttempt
<1>8. QED
  BY <1>5, <1>6, <1>7

\* An initiator that still waits pins what granted its present identity.
LEMMA CompletesInv ==
    ASSUME PeerInv, NEW i \in Initiator, Completes(i)
    PROVE  PeerInv'
<1> USE RoleAssumption DEF PeerInv
<1> DEFINE a == attempt[i]
<1>1. /\ a.pc = "answered" /\ a \in Attempt /\ i \in Machine
      /\ up[i] /\ identity[i] = a.from /\ <<a.to, a.from>> \in granted
      /\ UNCHANGED <<up, identity, invite, issued, agreed, granted, spent>>
  BY DEF Completes, Confirmed, Typed, NoAttempt, Ends, Promises
<1>2. StorePeer(i, a.to) /\ attempt' = [attempt EXCEPT ![i] = NoAttempt]
  BY DEF Completes, Drops
<1>3. /\ pins' \in [Machine -> Seq(Id)] /\ file' \in [Machine -> Seq(Id)]
      /\ \A m \in Machine : ~up'[m] => pins'[m] = <<>>
      /\ PinsHaveACause'
  BY <1>1, <1>2, StoreCause DEF Attempt
<1>4. \A j \in Initiator : attempt'[j] = NoAttempt \/ attempt'[j] = attempt[j]
  BY <1>2 DEF Typed
<1>5. Typed'
  BY <1>1, <1>2, <1>3 DEF Typed
<1>6. Codes' /\ Ends' /\ Promises'
  BY <1>1, <1>4 DEF Codes, Ends, Promises, NoAttempt
<1>7. QED
  BY <1>3, <1>5, <1>6

\* A removal moves no pairing, but notes which ones it overtakes.
LEMMA UndoesOnly ==
    ASSUME PeerInv, NEW m, NEW p, Undoes(m, p)
    PROVE  /\ attempt' \in [Initiator -> Attempt \cup {NoAttempt}]
           /\ \A i \in Initiator : attempt'[i].pc = attempt[i].pc
           /\ \A i \in Initiator : attempt[i].pc # "idle" =>
                /\ attempt'[i].from = attempt[i].from
                /\ attempt'[i].to = attempt[i].to
                /\ attempt'[i].code = attempt[i].code
                /\ attempt'[i].waiting = attempt[i].waiting
                /\ attempt'[i].late = attempt[i].late
                /\ attempt[i].undone => attempt'[i].undone
           /\ \A i \in Initiator :
                /\ attempt[i].pc = "stored"
                /\ attempt[i].from = p /\ Host(attempt[i].to) = m
                => attempt'[i].undone
<1>1. \A i \in Initiator : attempt[i].pc # "idle" => attempt[i] \in Attempt
  BY DEF PeerInv, Typed, NoAttempt
<1>2. \A i \in Initiator :
        \/ /\ attempt[i].pc = "stored" /\ attempt[i].from = p /\ Host(attempt[i].to) = m
           /\ attempt[i] \in Attempt
           /\ attempt'[i] = [attempt[i] EXCEPT !.undone = TRUE]
        \/ /\ ~(attempt[i].pc = "stored" /\ attempt[i].from = p /\ Host(attempt[i].to) = m)
           /\ attempt'[i] = attempt[i]
  BY <1>1 DEF Undoes
<1>3. \A i \in Initiator : attempt'[i] \in Attempt \cup {NoAttempt}
  BY <1>2 DEF PeerInv, Typed, Attempt
<1>4. attempt' \in [Initiator -> Attempt \cup {NoAttempt}]
  <2>1. attempt' = [i \in Initiator |-> attempt'[i]]
    BY DEF Undoes
  <2>2. QED
    BY <1>3, <2>1
<1>5. QED
  BY <1>2, <1>4 DEF Attempt

LEMMA RemovesInv ==
    ASSUME PeerInv, NEW m \in Machine, NEW n, Removes(m, n)
    PROVE  PeerInv'
<1> USE DEF PeerInv
<1>1. PICK k \in DOMAIN pins[m] :
        /\ up[m]
        /\ pins' = [pins EXCEPT ![m] = RemoveAt(pins[m], k)]
        /\ file' = [file EXCEPT ![m] = pins'[m]] \/ file' = file
        /\ Undoes(m, pins[m][k])
        /\ UNCHANGED <<up, identity, invite, issued, agreed, granted, spent>>
  BY DEF Removes, net
<1> DEFINE list == RemoveAt(pins[m], k)
<1>2. list \in Seq(Id) /\ Range(list) \subseteq Range(pins[m])
  BY RemoveAtRange DEF Typed
<1> HIDE DEF list
<1>8. /\ attempt' \in [Initiator -> Attempt \cup {NoAttempt}]
      /\ \A i \in Initiator : attempt'[i].pc = attempt[i].pc
      /\ \A i \in Initiator : attempt[i].pc # "idle" =>
           /\ attempt'[i].from = attempt[i].from
           /\ attempt'[i].to = attempt[i].to
           /\ attempt'[i].code = attempt[i].code
           /\ attempt'[i].waiting = attempt[i].waiting
           /\ attempt'[i].late = attempt[i].late
  BY <1>1, UndoesOnly
<1>3. Typed'
  BY <1>1, <1>2, <1>8 DEF Typed, list
<1>4. Codes' /\ Ends' /\ Promises'
  BY <1>1, <1>8 DEF Codes, Ends, Promises
<1>5. \A q \in Machine :
        Range(pins'[q]) \cup Range(file'[q]) \subseteq Range(pins[q]) \cup Range(file[q])
  BY <1>1, <1>2 DEF Typed, list
<1>6. PinsHaveACause'
  BY <1>1, <1>5 DEF PinsHaveACause, Pinned
<1>7. QED
  BY <1>3, <1>4, <1>6

-----------------------------------------------------------------------------
LEMMA NextInv == PeerInv /\ [Next]_vars => PeerInv'
<1> SUFFICES ASSUME PeerInv, [Next]_vars
             PROVE  PeerInv'
  OBVIOUS
<1>1. CASE UNCHANGED vars
  BY <1>1, Unmoved DEF vars, pairings, pairVars, store, net, bounds, history
<1>2. CASE Next
  BY <1>2, NextCases, Unmoved, InvitesInv, ProbesInv, PostsInv, GrantsInv, ConsumesInv,
     GivesUpInv, CompletesInv, DiesInv, BootsInv, ReinstallsInv, RemovesInv,
     WatcherAssumption DEF Elsewhere
<1>3. QED
  BY <1>1, <1>2

LEMMA Invariant == Spec => []PeerInv
BY InitInv, NextInv, PTL DEF Spec

\* Whatever is lost, restarted or reinstalled, nobody is pinned without the
\* other side having proved it knows the code, or having pinned the holder
\* first (pairWithPeer, handlePeerPair).
THEOREM Caused == Spec => []PinsHaveACause
<1>1. PeerInv => PinsHaveACause
  BY DEF PeerInv
<1>2. QED
  BY <1>1, Invariant, PTL

\* A code that a pairing has consumed lets no later proof through, with any
\* number of invites and pairings in flight (handlePeerPair).
THEOREM SpentAreDead == Spec => []SpentCodesAreDead
<1>1. PeerInv => SpentCodesAreDead
  BY DEF PeerInv, Codes, SpentCodesAreDead
<1>2. QED
  BY <1>1, Invariant, PTL

-----------------------------------------------------------------------------
(***************************************************************************)
(* What a user was told is on file.  The list and its file part ways when  *)
(* a save fails, so the invariant is about both; and what a pairing in     *)
(* flight has saved stays on both, unless a removal overtakes it (Backed). *)
(***************************************************************************)

Once(list) == \A j, k \in DOMAIN list : list[j] = list[k] => j = k

\* A machine's list, its file and what its users were told.
Kept(on, list, saved, in, out) ==
    /\ Once(list) /\ Once(saved)
    /\ in \subseteq Range(saved)
    /\ on => in \subseteq Range(list)
    /\ out \cap (Range(saved) \cup Range(list)) = {}

BackedAt(i) ==
    attempt[i].pc = "stored" /\ ~attempt[i].undone =>
        LET p == attempt[i].from
            r == Host(attempt[i].to) IN
        p \in Pinned(r) /\ p \in Range(file[r])

Backed == \A i \in Initiator : BackedAt(i)

Durable ==
    /\ faults \in Nat
    /\ ackedIn \in [Machine -> SUBSET Id]
    /\ ackedOut \in [Machine -> SUBSET Id]
    /\ \A m \in Machine : Kept(up[m], pins[m], file[m], ackedIn[m], ackedOut[m])
    /\ Backed

acks == <<faults, ackedIn, ackedOut>>

LEMMA WithPinOnce ==
    ASSUME NEW list \in Seq(Id), NEW p \in Id, Once(list)
    PROVE  Once(WithPin(list, p))
<1>1. CASE p \in Range(list)
  BY <1>1 DEF WithPin
<1>2. CASE p \notin Range(list)
  <2> DEFINE new == Append(list, p)
  <2>1. /\ new \in Seq(Id)
        /\ Len(new) = Len(list) + 1
        /\ \A k \in 1..Len(list) : new[k] = list[k]
        /\ new[Len(list) + 1] = p
    BY AppendProperties
  <2>2. DOMAIN new = 1..(Len(list) + 1) /\ DOMAIN list = 1..Len(list) /\ Len(list) \in Nat
    BY <2>1, LenProperties
  <2> HIDE DEF new
  <2>3. \A k \in 1..Len(list) : list[k] # p
    BY <1>2, <2>2 DEF Range
  <2>4. Once(new)
    BY <2>1, <2>2, <2>3 DEF Once
  <2>5. QED
    BY <1>2, <2>4 DEF WithPin, new
<1>3. QED
  BY <1>1, <1>2

LEMMA RemoveAtOnce ==
    ASSUME NEW list \in Seq(Id), NEW k \in DOMAIN list
    PROVE  /\ Range(list) \ {list[k]} \subseteq Range(RemoveAt(list, k))
           /\ Once(list) => /\ Once(RemoveAt(list, k))
                            /\ Range(RemoveAt(list, k)) = Range(list) \ {list[k]}
<1> DEFINE a == SubSeq(list, 1, k - 1)
           b == SubSeq(list, k + 1, Len(list))
           new == RemoveAt(list, k)
           n == Len(list)
<1>1. n \in Nat /\ k \in 1..n /\ DOMAIN list = 1..n
  BY LenProperties
<1>2. \A j \in 1..n : list[j] \in Id
  BY <1>1
<1>3. a \in Seq(Id) /\ Len(a) = k - 1 /\ \A j \in 1..(k - 1) : a[j] = list[j]
  <2>1. \A j \in 1..(k - 1) : list[j] \in Id
    BY <1>1, <1>2
  <2>2. 1 \in Int /\ k - 1 \in Int /\ k - 1 >= 0
    BY <1>1
  <2>3. QED
    BY <1>1, <2>1, <2>2, SubSeqProperties
<1>4. b \in Seq(Id) /\ Len(b) = n - k /\ \A j \in 1..(n - k) : b[j] = list[k + j]
  BY <1>1, <1>2, SubSeqProperties
<1>5. /\ new \in Seq(Id) /\ Len(new) = n - 1
      /\ \A j \in 1..(n - 1) : new[j] = IF j < k THEN list[j] ELSE list[j + 1]
  <2>1. new = a \o b
    BY DEF RemoveAt
  <2> HIDE DEF a, b, new
  <2>2. new \in Seq(Id) /\ Len(new) = Len(a) + Len(b)
    BY <1>3, <1>4, <2>1, ConcatProperties
  <2>3. \A j \in 1..(Len(a) + Len(b)) :
          new[j] = IF j <= Len(a) THEN a[j] ELSE b[j - Len(a)]
    BY <1>3, <1>4, <2>1, ConcatProperties
  <2>4. ASSUME NEW j \in 1..(n - 1)
        PROVE  new[j] = IF j < k THEN list[j] ELSE list[j + 1]
    <3>1. CASE j < k
      BY <1>1, <1>3, <1>4, <2>3, <3>1
    <3>2. CASE ~(j < k)
      <4>1. j - Len(a) \in 1..(n - k) /\ k + (j - Len(a)) = j + 1
        BY <1>1, <1>3, <3>2
      <4>2. b[j - Len(a)] = list[j + 1]
        BY <1>4, <4>1
      <4>3. ~(j <= Len(a)) /\ j \in 1..(Len(a) + Len(b))
        BY <1>1, <1>3, <1>4, <3>2
      <4>4. QED
        BY <2>3, <3>2, <4>2, <4>3
    <3>3. QED
      BY <3>1, <3>2
  <2>5. QED
    BY <1>1, <1>3, <1>4, <2>2, <2>4
<1>6. DOMAIN new = 1..(n - 1)
  BY <1>1, <1>5, LenProperties
<1> HIDE DEF a, b, new, n
<1>7. ASSUME Once(list) PROVE Once(new)
  <2> SUFFICES ASSUME NEW i \in 1..(n - 1), NEW j \in 1..(n - 1), new[i] = new[j]
               PROVE  i = j
    BY <1>6 DEF Once
  <2> DEFINE at(x) == IF x < k THEN x ELSE x + 1
  <2>1. \A x \in 1..(n - 1) : at(x) \in 1..n /\ new[x] = list[at(x)]
    BY <1>1, <1>5
  <2>2. at(i) = at(j)
    <3> HIDE DEF at
    <3> QED BY <1>1, <1>7, <2>1 DEF Once
  <2>3. QED
    BY <1>1, <2>2
<1>8. \A x \in 1..n : x # k => \E j \in 1..(n - 1) : new[j] = list[x]
  <2> SUFFICES ASSUME NEW x \in 1..n, x # k
               PROVE  \E j \in 1..(n - 1) : new[j] = list[x]
    OBVIOUS
  <2>1. CASE x < k
    <3>1. x \in 1..(n - 1) /\ new[x] = list[x]
      BY <1>1, <1>5, <2>1
    <3>2. QED
      BY <3>1
  <2>2. CASE x > k
    <3>1. x - 1 \in 1..(n - 1) /\ ~(x - 1 < k) /\ (x - 1) + 1 = x
      BY <1>1, <2>2
    <3>2. new[x - 1] = list[x]
      BY <1>5, <3>1
    <3>3. QED
      BY <3>1, <3>2
  <2>3. QED
    BY <1>1, <2>1, <2>2
<1>9. \A j \in 1..(n - 1) : \E x \in 1..n : x # k /\ new[j] = list[x]
  <2> SUFFICES ASSUME NEW j \in 1..(n - 1)
               PROVE  \E x \in 1..n : x # k /\ new[j] = list[x]
    OBVIOUS
  <2>1. CASE j < k
    <3>1. j \in 1..n /\ j # k /\ new[j] = list[j]
      BY <1>1, <1>5, <2>1
    <3>2. QED
      BY <3>1
  <2>2. CASE ~(j < k)
    <3>1. j + 1 \in 1..n /\ j + 1 # k /\ new[j] = list[j + 1]
      BY <1>1, <1>5, <2>2
    <3>2. QED
      BY <3>1
  <2>3. QED
    BY <2>1, <2>2
<1>10. Range(new) = {new[j] : j \in 1..(n - 1)} /\ Range(list) = {list[x] : x \in 1..n}
  BY <1>1, <1>6 DEF Range
<1>11. Range(list) \ {list[k]} \subseteq Range(new)
  BY <1>8, <1>10
<1>12. ASSUME Once(list) PROVE Range(new) \subseteq Range(list) \ {list[k]}
  BY <1>1, <1>9, <1>10, <1>12 DEF Once
<1>13. QED
  BY <1>7, <1>11, <1>12 DEF new

-----------------------------------------------------------------------------
\* A pairing moves on from "stored", or is there as before.
Follows(i) ==
    attempt'[i].pc = "stored" =>
        /\ attempt[i].pc = "stored"
        /\ attempt'[i].from = attempt[i].from /\ attempt'[i].to = attempt[i].to
        /\ attempt[i].undone => attempt'[i].undone

\* The pin of p on r, if it is both listed and filed, stays so.
Stands(p, r) ==
    p \in Range(pins[r]) /\ p \in Range(file[r])
        => p \in Range(pins'[r]) /\ p \in Range(file'[r])

\* A pairing in flight stays backed when its pin stands.
LEMMA StaysBacked ==
    ASSUME Backed, NEW i \in Initiator, Follows(i),
           attempt'[i].pc = "stored" /\ ~attempt'[i].undone
             => Stands(attempt[i].from, Host(attempt[i].to))
    PROVE  BackedAt(i)'
<1> SUFFICES ASSUME attempt'[i].pc = "stored", ~attempt'[i].undone
             PROVE  /\ attempt'[i].from \in Range(pins'[Host(attempt'[i].to)])
                    /\ attempt'[i].from \in Range(file'[Host(attempt'[i].to)])
  BY DEF BackedAt, Pinned
<1>1. /\ attempt[i].pc = "stored" /\ ~attempt[i].undone
      /\ attempt'[i].from = attempt[i].from /\ attempt'[i].to = attempt[i].to
  BY DEF Follows
<1>2. /\ attempt[i].from \in Range(pins[Host(attempt[i].to)])
      /\ attempt[i].from \in Range(file[Host(attempt[i].to)])
  BY <1>1 DEF Backed, BackedAt, Pinned
<1>3. QED
  BY <1>1, <1>2 DEF Stands

\* Nothing said, listed or filed; no attempt gets to "stored".
LEMMA QuietDurable ==
    ASSUME Durable, UNCHANGED <<up, pins, file, ackedIn, ackedOut>>, faults' \in Nat,
           \A i \in Initiator : Follows(i)
    PROVE  Durable'
<1>1. \A i \in Initiator : Stands(attempt[i].from, Host(attempt[i].to))
  BY DEF Stands
<1>2. \A i \in Initiator : BackedAt(i)'
  BY <1>1, StaysBacked DEF Durable
<1>3. QED
  BY <1>2 DEF Durable, Backed

\* The list gets the pin, and the file gets the list or stays as it was.
LEMMA StoreKeeps ==
    ASSUME PeerInv, Durable, NEW m \in Machine, NEW p \in Id, StorePeer(m, p), up[m],
           UNCHANGED up, ackedOut' = [ackedOut EXCEPT ![m] = @ \ {p}],
           ackedIn' = ackedIn \/ (Saved /\ ackedIn' = [ackedIn EXCEPT ![m] = @ \cup {p}])
    PROVE  /\ faults' \in Nat
           /\ ackedIn' \in [Machine -> SUBSET Id]
           /\ ackedOut' \in [Machine -> SUBSET Id]
           /\ \A n \in Machine : Kept(up'[n], pins'[n], file'[n], ackedIn'[n], ackedOut'[n])
           /\ \A n \in Machine : \A q : Stands(q, n)
<1> USE DEF PeerInv
<1> DEFINE list == WithPin(pins[m], p)
<1>1. /\ pins[m] \in Seq(Id) /\ file[m] \in Seq(Id)
      /\ Kept(up[m], pins[m], file[m], ackedIn[m], ackedOut[m])
  BY DEF Typed, Durable
<1>2. /\ list \in Seq(Id) /\ Range(list) = Range(pins[m]) \cup {p} /\ Once(list)
  BY <1>1, WithPinRange, WithPinOnce DEF Kept
<1>3. faults' \in Nat /\ (faults' = faults \/ faults' = faults + 1)
  BY DEF StorePeer, Faults, Durable
<1>4. /\ pins' = [pins EXCEPT ![m] = list]
      /\ \/ Saved /\ file' = [file EXCEPT ![m] = list]
         \/ ~Saved /\ file' = file
  BY <1>3 DEF StorePeer, Typed, Saved, Durable, Faults
<1> HIDE DEF list
<1>5. /\ pins'[m] = list
      /\ \A n \in Machine \ {m} : UNCHANGED <<pins[n], file[n], ackedIn[n], ackedOut[n]>>
  BY <1>4 DEF Typed, Durable
<1>6. ackedIn' \in [Machine -> SUBSET Id] /\ ackedOut' \in [Machine -> SUBSET Id]
  BY DEF Durable
<1>7. /\ ackedOut'[m] = ackedOut[m] \ {p}
      /\ ackedIn'[m] = ackedIn[m] \/ (Saved /\ ackedIn'[m] = ackedIn[m] \cup {p})
  BY DEF Durable
<1>8. Kept(up'[m], pins'[m], file'[m], ackedIn'[m], ackedOut'[m])
  <2>1. CASE Saved
    <3>1. file'[m] = list
      BY <1>4, <2>1 DEF Typed
    <3>2. QED
      BY <1>1, <1>2, <1>5, <1>7, <3>1 DEF Kept
  <2>2. CASE ~Saved
    <3>1. file'[m] = file[m] /\ ackedIn'[m] = ackedIn[m]
      BY <1>4, <1>7, <2>2
    <3>2. QED
      BY <1>1, <1>2, <1>5, <1>7, <3>1 DEF Kept
  <2>3. QED
    BY <2>1, <2>2
<1>9. \A n \in Machine : Kept(up'[n], pins'[n], file'[n], ackedIn'[n], ackedOut'[n])
  BY <1>5, <1>8 DEF Durable
<1>10. \A n \in Machine : \A q : Stands(q, n)
  <2>1. \A q : Stands(q, m)
    <3>1. file'[m] = list \/ file'[m] = file[m]
      BY <1>4 DEF Typed
    <3>2. QED
      BY <1>2, <1>5, <3>1 DEF Stands
  <2>2. QED
    BY <1>5, <2>1 DEF Stands
<1>11. QED
  BY <1>3, <1>6, <1>9, <1>10

LEMMA ProbesDurable ==
    ASSUME PeerInv, Durable, NEW i \in Initiator, NEW r \in Inviter, NEW c \in 1..issued,
           Probes(i, r, c)
    PROVE  Durable'
<1> USE RoleAssumption
<1> DEFINE new == [pc |-> "probed", from |-> identity[i], to |-> identity[r], code |-> c,
                   waiting |-> TRUE, late |-> FALSE, undone |-> FALSE]
<1>1. /\ attempt' = [attempt EXCEPT ![i] = new]
      /\ UNCHANGED <<up, pins, file, faults, ackedIn, ackedOut>>
  BY DEF Probes, store, history
<1>2. attempt'[i] = new /\ \A j \in Initiator \ {i} : attempt'[j] = attempt[j]
  BY <1>1 DEF PeerInv, Typed
<1>3. \A j \in Initiator : Follows(j)
  BY <1>2 DEF Follows
<1>4. QED
  BY <1>1, <1>3, QuietDurable DEF Durable

\* A pairing is at "stored" once its own save went through; no save takes a pin
\* away.
LEMMA GrantsDurable ==
    ASSUME PeerInv, Durable, NEW i \in Initiator, Grants(i)
    PROVE  Durable'
<1> DEFINE a == attempt[i]
           r == Host(a.to)
<1>1. /\ a.pc = "verified" /\ a \in Attempt /\ r \in Machine /\ a.from \in Id
      /\ up[r]
      /\ UNCHANGED <<up, ackedIn>>
  BY DEF Grants, PeerInv, Typed, NoAttempt, Attempt, Id, Host, Ends, Durable
<1>2. /\ StorePeer(r, a.from) /\ ackedOut' = [ackedOut EXCEPT ![r] = @ \ {a.from}]
      /\ IF Saved THEN attempt' = [attempt EXCEPT ![i] = [a EXCEPT !.pc = "stored"]]
                  ELSE attempt' = [attempt EXCEPT ![i] = NoAttempt]
  BY DEF Grants, GrantVerdict, Drops
<1>3. /\ faults' \in Nat
      /\ ackedIn' \in [Machine -> SUBSET Id]
      /\ ackedOut' \in [Machine -> SUBSET Id]
      /\ \A n \in Machine : Kept(up'[n], pins'[n], file'[n], ackedIn'[n], ackedOut'[n])
      /\ \A n \in Machine : \A q : Stands(q, n)
  <2> HIDE DEF a, r
  <2> QED BY <1>1, <1>2, StoreKeeps
<1>4. \A j \in Initiator \ {i} : attempt'[j] = attempt[j]
  BY <1>2 DEF PeerInv, Typed
<1>5. \A j \in Initiator \ {i} : BackedAt(j)'
  <2> SUFFICES ASSUME NEW j \in Initiator \ {i} PROVE BackedAt(j)'
    OBVIOUS
  <2>1. attempt[j].pc = "stored" => Host(attempt[j].to) \in Machine
    BY DEF PeerInv, Typed, Attempt, NoAttempt, Id, Host
  <2>2. attempt'[j] = attempt[j] /\ Follows(j)
    BY <1>4 DEF Follows
  <2>3. QED
    BY <1>3, <2>1, <2>2, StaysBacked DEF Durable
<1>6. BackedAt(i)'
  <2>1. CASE Saved
    <3>1. attempt'[i] = [a EXCEPT !.pc = "stored"]
      BY <1>2, <2>1 DEF PeerInv, Typed
    <3>2. attempt'[i].from = a.from /\ attempt'[i].to = a.to
      BY <1>1, <3>1 DEF Attempt
    <3>3. a.from \in Range(pins'[r]) /\ a.from \in Range(file'[r])
      <4>1. /\ pins' = [pins EXCEPT ![r] = WithPin(@, a.from)]
            /\ file' = [file EXCEPT ![r] = pins'[r]]
        <5>1. ~Faults
          BY <2>1 DEF Saved, Faults, Durable
        <5>2. QED
          BY <1>2, <5>1 DEF StorePeer
      <4>2. pins'[r] = WithPin(pins[r], a.from) /\ file'[r] = pins'[r]
        BY <1>1, <4>1 DEF PeerInv, Typed
      <4>3. QED
        BY <1>1, <4>2, WithPinRange DEF PeerInv, Typed
    <3>4. QED
      BY <1>1, <3>2, <3>3 DEF BackedAt, Pinned
  <2>2. CASE ~Saved
    BY <1>2, <2>2 DEF PeerInv, Typed, BackedAt, NoAttempt
  <2>3. QED
    BY <2>1, <2>2
<1>7. QED
  BY <1>3, <1>5, <1>6 DEF Durable, Backed

\* What is acknowledged is what the pairing saved, if no removal overtook it.
LEMMA ConsumesDurable ==
    ASSUME PeerInv, Durable, NEW i \in Initiator, Consumes(i)
    PROVE  Durable'
<1> DEFINE a == attempt[i]
           r == Host(a.to)
           told == IF a.undone THEN {} ELSE {a.from}
<1>1. /\ a.pc = "stored" /\ a \in Attempt /\ r \in Machine /\ a.from \in Id /\ up[r]
      /\ UNCHANGED <<up, pins, file, faults, ackedOut>>
  BY DEF Consumes, PeerInv, Typed, NoAttempt, Attempt, Id, Host, Ends, store, bounds
<1>8. /\ ackedIn' \in [Machine -> SUBSET Id]
      /\ ackedIn'[r] = ackedIn[r] \cup told
      /\ \A n \in Machine \ {r} : ackedIn'[n] = ackedIn[n]
  <2>1. \/ a.undone /\ ackedIn' = ackedIn
        \/ ~a.undone /\ ackedIn' = [ackedIn EXCEPT ![r] = @ \cup {a.from}]
    BY Zenon DEF Consumes
  <2>2. ackedIn \in [Machine -> SUBSET Id] /\ r \in Machine /\ a.from \in Id
    BY <1>1 DEF Durable
  <2> HIDE DEF a, r
  <2>3. QED
    BY <2>1, <2>2
<1>2. told \subseteq Id /\ told \subseteq Range(file[r]) /\ told \subseteq Range(pins[r])
  BY <1>1 DEF Durable, Backed, BackedAt, Pinned
<1> HIDE DEF told
<1>3. /\ ackedIn' \in [Machine -> SUBSET Id]
      /\ \A n \in Machine : Kept(up'[n], pins'[n], file'[n], ackedIn'[n], ackedOut'[n])
  <2>1. Kept(up[r], pins[r], file[r], ackedIn'[r], ackedOut[r])
    <3> HIDE DEF r
    <3> QED BY <1>1, <1>2, <1>8 DEF Durable, Kept
  <2>2. QED
    BY <1>1, <1>8, <2>1 DEF Durable
<1>4. \A j \in Initiator : Follows(j)
  <2>1. PICK next \in Attempt \cup {NoAttempt} :
           /\ attempt' = [attempt EXCEPT ![i] = next]
           /\ next # NoAttempt => next = [a EXCEPT !.pc = "answered"]
    BY <1>1 DEF Consumes, Drops, Attempt
  <2>2. attempt'[i] = next /\ \A j \in Initiator \ {i} : attempt'[j] = attempt[j]
    BY <2>1 DEF PeerInv, Typed
  <2>3. next.pc # "stored"
    BY <1>1, <2>1 DEF Attempt, NoAttempt
  <2>4. QED
    BY <2>2, <2>3 DEF Follows
<1>5. \A j \in Initiator : Stands(attempt[j].from, Host(attempt[j].to))
  BY <1>1 DEF Stands
<1>6. \A j \in Initiator : BackedAt(j)'
  BY <1>4, <1>5, StaysBacked DEF Durable
<1>7. QED
  BY <1>1, <1>3, <1>6 DEF Durable, Backed

\* An initiator's own save takes no pin away either.
LEMMA CompletesDurable ==
    ASSUME PeerInv, Durable, NEW i \in Initiator, Completes(i)
    PROVE  Durable'
<1> DEFINE p == attempt[i].to
<1>1. /\ i \in Machine /\ p \in Id /\ up[i] /\ UNCHANGED up
      /\ StorePeer(i, p) /\ attempt' = [attempt EXCEPT ![i] = NoAttempt]
      /\ ackedOut' = [ackedOut EXCEPT ![i] = @ \ {p}]
      /\ ackedIn' = ackedIn \/ (Saved /\ ackedIn' = [ackedIn EXCEPT ![i] = @ \cup {p}])
  BY RoleAssumption DEF Completes, Confirmed, Drops, PeerInv, Typed, Attempt, NoAttempt, Ends
<1>2. /\ faults' \in Nat
      /\ ackedIn' \in [Machine -> SUBSET Id]
      /\ ackedOut' \in [Machine -> SUBSET Id]
      /\ \A n \in Machine : Kept(up'[n], pins'[n], file'[n], ackedIn'[n], ackedOut'[n])
      /\ \A n \in Machine : \A q : Stands(q, n)
  <2> HIDE DEF p
  <2> QED BY <1>1, StoreKeeps
<1>3. \A j \in Initiator : attempt'[j] = NoAttempt \/ attempt'[j] = attempt[j]
  BY <1>1 DEF PeerInv, Typed
<1>4. \A j \in Initiator : BackedAt(j)'
  <2> SUFFICES ASSUME NEW j \in Initiator PROVE BackedAt(j)'
    OBVIOUS
  <2>1. attempt[j].pc = "stored" => Host(attempt[j].to) \in Machine
    BY DEF PeerInv, Typed, Attempt, NoAttempt, Id, Host
  <2>2. Follows(j) /\ (attempt'[j].pc = "stored" => attempt[j].pc = "stored")
    BY <1>3 DEF Follows, NoAttempt
  <2>3. QED
    BY <1>2, <2>1, <2>2, StaysBacked DEF Durable
<1>5. QED
  BY <1>2, <1>4 DEF Durable, Backed

LEMMA DiesDurable ==
    ASSUME PeerInv, Durable, NEW m \in Machine, Dies(m)
    PROVE  Durable'
<1>1. /\ up' = [up EXCEPT ![m] = FALSE]
      /\ pins' = [pins EXCEPT ![m] = <<>>]
      /\ UNCHANGED <<file, ackedIn, ackedOut>>
      /\ faults' \in Nat
  BY DEF Dies, history, Faults, Durable
<1>2. /\ ~up'[m] /\ pins'[m] = <<>>
      /\ \A n \in Machine \ {m} : UNCHANGED <<up[n], pins[n]>>
  BY <1>1 DEF PeerInv, Typed
<1>3. Range(<<>>) = {} /\ Once(<<>>)
  BY DEF Range, Once
<1>4. \A n \in Machine : Kept(up'[n], pins'[n], file'[n], ackedIn'[n], ackedOut'[n])
  BY <1>1, <1>2, <1>3 DEF Durable, Kept
<1>5. \A j \in Initiator : \/ attempt'[j] = attempt[j]
                           \/ attempt'[j] = NoAttempt
                           \/ /\ attempt[j] \in Attempt
                              /\ attempt'[j] = [attempt[j] EXCEPT !.waiting = FALSE]
  <2>1. \A j \in Initiator : \/ attempt'[j] = attempt[j]
                             \/ attempt'[j] = NoAttempt
                             \/ /\ attempt[j].pc # "idle"
                                /\ attempt'[j] = [attempt[j] EXCEPT !.waiting = FALSE]
    BY DEF Dies
  <2>2. \A j \in Initiator : attempt[j].pc # "idle" => attempt[j] \in Attempt
    BY DEF PeerInv, Typed, NoAttempt
  <2>3. QED
    BY <2>1, <2>2
<1>6. \A j \in Initiator : Follows(j)
  <2> SUFFICES ASSUME NEW j \in Initiator PROVE Follows(j)
    OBVIOUS
  <2>1. CASE attempt'[j] = attempt[j] \/ attempt'[j] = NoAttempt
    BY <2>1 DEF Follows, NoAttempt
  <2>2. CASE attempt[j] \in Attempt /\ attempt'[j] = [attempt[j] EXCEPT !.waiting = FALSE]
    BY <2>2 DEF Follows, Attempt
  <2>3. QED
    BY <1>5, <2>1, <2>2
<1>7. \A j \in Initiator : attempt'[j].pc = "stored" =>
        Stands(attempt[j].from, Host(attempt[j].to))
  <2> SUFFICES ASSUME NEW j \in Initiator, attempt'[j].pc = "stored"
               PROVE  Stands(attempt[j].from, Host(attempt[j].to))
    OBVIOUS
  <2>1. attempt[j].pc = "stored" /\ attempt'[j] # NoAttempt
    BY <1>6 DEF Follows, NoAttempt
  <2>2. Host(attempt[j].to) # m
    BY <2>1 DEF Dies
  <2>3. Host(attempt[j].to) \in Machine
    BY <2>1 DEF PeerInv, Typed, Attempt, NoAttempt, Id, Host
  <2>4. QED
    BY <1>1, <1>2, <2>2, <2>3 DEF Stands
<1>8. \A j \in Initiator : BackedAt(j)'
  BY <1>6, <1>7, StaysBacked DEF Durable
<1>9. QED
  BY <1>1, <1>4, <1>8 DEF Durable, Backed

\* Where every pin stands and no pairing moves, all stay backed.
LEMMA StoredKeeps ==
    ASSUME PeerInv, Durable, UNCHANGED attempt, \A r \in Machine : \A q : Stands(q, r)
    PROVE  \A j \in Initiator : BackedAt(j)'
<1> SUFFICES ASSUME NEW j \in Initiator PROVE BackedAt(j)'
  OBVIOUS
<1>1. attempt[j].pc = "stored" => Host(attempt[j].to) \in Machine
  BY DEF PeerInv, Typed, Attempt, NoAttempt, Id, Host
<1>2. QED
  BY <1>1, StaysBacked DEF Durable, Follows

\* The list is read from the file.
LEMMA BootsDurable ==
    ASSUME PeerInv, Durable, NEW m \in Machine, Boots(m)
    PROVE  Durable'
<1>1. /\ up' = [up EXCEPT ![m] = TRUE]
      /\ pins' = [pins EXCEPT ![m] = file[m]]
      /\ UNCHANGED <<file, attempt, ackedIn, ackedOut>>
      /\ faults' \in Nat
  BY DEF Boots, history, Faults, Durable
<1>2. /\ pins'[m] = file[m]
      /\ \A n \in Machine \ {m} : UNCHANGED <<up[n], pins[n]>>
  BY <1>1 DEF PeerInv, Typed
<1>3. \A n \in Machine : Kept(up'[n], pins'[n], file'[n], ackedIn'[n], ackedOut'[n])
  BY <1>1, <1>2 DEF Durable, Kept
<1>4. \A r \in Machine : \A q : Stands(q, r)
  BY <1>1, <1>2 DEF Stands
<1>5. \A j \in Initiator : BackedAt(j)'
  BY <1>1, <1>4, StoredKeeps
<1>6. QED
  BY <1>1, <1>3, <1>5 DEF Durable, Backed

\* A machine reinstalled has told its user nothing yet.
LEMMA ReinstallsDurable ==
    ASSUME PeerInv, Durable, NEW m \in Machine, Reinstalls(m)
    PROVE  Durable'
<1>1. /\ ~up[m] /\ up' = [up EXCEPT ![m] = TRUE]
      /\ file' = [file EXCEPT ![m] = <<>>]
      /\ ackedIn' = [ackedIn EXCEPT ![m] = {}] /\ ackedOut' = [ackedOut EXCEPT ![m] = {}]
      /\ UNCHANGED <<pins, attempt, faults>>
  BY DEF Reinstalls, bounds
<1>2. /\ pins[m] = <<>> /\ file'[m] = <<>> /\ ackedIn'[m] = {} /\ ackedOut'[m] = {}
      /\ \A n \in Machine \ {m} : UNCHANGED <<up[n], file[n], ackedIn[n], ackedOut[n]>>
  BY <1>1 DEF PeerInv, Typed, Durable
<1>3. Range(<<>>) = {} /\ Once(<<>>)
  BY DEF Range, Once
<1>4. \A n \in Machine : Kept(up'[n], pins'[n], file'[n], ackedIn'[n], ackedOut'[n])
  <2>1. Kept(up'[m], <<>>, <<>>, {}, {})
    BY <1>3 DEF Kept
  <2>2. QED
    BY <1>1, <1>2, <2>1 DEF Durable
<1>5. ackedIn' \in [Machine -> SUBSET Id] /\ ackedOut' \in [Machine -> SUBSET Id]
  BY <1>1 DEF Durable
<1>6. \A r \in Machine : \A q : Stands(q, r)
  BY <1>1, <1>2, <1>3 DEF Stands
<1>7. \A j \in Initiator : BackedAt(j)'
  BY <1>1, <1>6, StoredKeeps
<1>8. QED
  BY <1>1, <1>4, <1>5, <1>7 DEF Durable, Backed

\* A pin stands once in its list: the removal takes all of it.
LEMMA RemovesDurable ==
    ASSUME PeerInv, Durable, NEW m \in Machine, NEW n, Removes(m, n)
    PROVE  Durable'
<1>1. PICK k \in DOMAIN pins[m] :
        /\ pins' = [pins EXCEPT ![m] = RemoveAt(pins[m], k)]
        /\ ackedIn' = [ackedIn EXCEPT ![m] = @ \ {pins[m][k]}]
        /\ \/ /\ file' = [file EXCEPT ![m] = pins'[m]]
              /\ ackedOut' = [ackedOut EXCEPT ![m] = @ \cup {pins[m][k]}]
           \/ UNCHANGED <<file, ackedOut>>
        /\ UNCHANGED up /\ Undoes(m, pins[m][k])
  <2>1. PICK k \in DOMAIN pins[m] :
          /\ pins' = [pins EXCEPT ![m] = RemoveAt(@, k)]
          /\ ackedIn' = [ackedIn EXCEPT ![m] = @ \ {pins[m][k]}]
          /\ \/ /\ file' = [file EXCEPT ![m] = pins'[m]] /\ UNCHANGED faults
                /\ ackedOut' = [ackedOut EXCEPT ![m] = @ \cup {pins[m][k]}]
             \/ UNCHANGED <<file, ackedOut>> /\ Faults
          /\ UNCHANGED up /\ Undoes(m, pins[m][k])
    BY Zenon DEF Removes
  <2>2. QED
    BY <2>1
<1> DEFINE list == RemoveAt(pins[m], k)
           p == pins[m][k]
<1>2. Kept(up[m], pins[m], file[m], ackedIn[m], ackedOut[m]) /\ pins[m] \in Seq(Id)
  BY DEF Durable, PeerInv, Typed
<1>3. Once(list) /\ Range(list) = Range(pins[m]) \ {p}
  BY <1>2, RemoveAtOnce DEF Kept
<1>4. p \in Id
  BY <1>2
<1> HIDE DEF list, p
<1>5. /\ pins'[m] = list /\ ackedIn'[m] = ackedIn[m] \ {p}
      /\ \/ file'[m] = list /\ ackedOut'[m] = ackedOut[m] \cup {p}
         \/ file'[m] = file[m] /\ ackedOut'[m] = ackedOut[m]
  BY <1>1 DEF list, p, PeerInv, Typed, Durable
<1>6. \A q \in Machine \ {m} : UNCHANGED <<pins[q], file[q], ackedIn[q], ackedOut[q]>>
  BY <1>1 DEF PeerInv, Typed, Durable
<1>7. Kept(up[m], pins'[m], file'[m], ackedIn'[m], ackedOut'[m])
  <2>1. CASE file'[m] = list /\ ackedOut'[m] = ackedOut[m] \cup {p}
    <3>1. p \notin ackedIn'[m] /\ ackedIn'[m] \subseteq ackedIn[m]
      BY <1>5
    <3>2. ackedIn'[m] \subseteq Range(list) \/ ~up[m]
      BY <1>2, <1>3, <3>1 DEF Kept
    <3>3. up[m]
      BY DEF Removes
    <3>4. ackedOut'[m] \cap Range(list) = {}
      BY <1>2, <1>3, <2>1 DEF Kept
    <3>5. QED
      BY <1>3, <1>5, <2>1, <3>2, <3>3, <3>4 DEF Kept
  <2>2. CASE file'[m] = file[m] /\ ackedOut'[m] = ackedOut[m]
    <3>1. p \notin ackedIn'[m] /\ ackedIn'[m] \subseteq ackedIn[m]
      BY <1>5
    <3>2. QED
      BY <1>2, <1>3, <1>5, <2>2, <3>1 DEF Kept
  <2>3. QED
    BY <1>5, <2>1, <2>2
<1>8. \A q \in Machine : Kept(up'[q], pins'[q], file'[q], ackedIn'[q], ackedOut'[q])
  BY <1>1, <1>6, <1>7 DEF Durable
<1>9. ackedIn' \in [Machine -> SUBSET Id] /\ ackedOut' \in [Machine -> SUBSET Id]
  BY <1>1, <1>4 DEF Durable, p
<1>10. \A r \in Machine, q \in Id : r # m \/ q # p => Stands(q, r)
  BY <1>3, <1>5, <1>6 DEF Stands
<1>14. Undoes(m, p)
  BY <1>1 DEF p
<1>11. \A j \in Initiator : BackedAt(j)'
  <2> SUFFICES ASSUME NEW j \in Initiator PROVE BackedAt(j)'
    OBVIOUS
  <2>1. attempt[j].pc = "stored" =>
          Host(attempt[j].to) \in Machine /\ attempt[j].from \in Id
    <3>1. attempt[j].pc = "stored" => attempt[j] \in Attempt
      BY DEF PeerInv, Typed, NoAttempt
    <3>2. attempt[j] \in Attempt => attempt[j].from \in Id /\ attempt[j].to \in Id
      BY DEF Attempt
    <3>3. attempt[j].to \in Id => Host(attempt[j].to) \in Machine
      BY DEF Id, Host
    <3>4. QED
      BY <3>1, <3>2, <3>3
  <2>2. Follows(j) /\ attempt'[j].pc = attempt[j].pc
    BY <1>14, UndoesOnly DEF Follows
  <2>3. attempt'[j].pc = "stored" /\ ~attempt'[j].undone
          => attempt[j].from # p \/ Host(attempt[j].to) # m
    BY <1>14, <2>2, UndoesOnly
  <2>4. QED
    BY <1>10, <2>1, <2>2, <2>3, StaysBacked DEF Durable
<1>12. faults' \in Nat
  BY DEF Removes, Faults, Durable
<1>13. QED
  BY <1>8, <1>9, <1>11, <1>12 DEF Durable, Backed

LEMMA NextDurable ==
    ASSUME PeerInv, Durable, [Next]_vars
    PROVE  Durable'
<1>1. ASSUME UNCHANGED <<up, pins, file, attempt, ackedIn, ackedOut>>,
             UNCHANGED faults \/ Faults
      PROVE  Durable'
  BY <1>1, QuietDurable DEF Durable, Faults, Follows
<1>2. CASE UNCHANGED vars
  BY <1>1, <1>2 DEF vars, pairVars, store, bounds, history
<1>3. ASSUME NEW m \in Inviter, Invites(m) \/ InviteExpires(m)
      PROVE  Durable'
  BY <1>1, <1>3 DEF Invites, InviteExpires, store, bounds, history
<1>4. ASSUME NEW i \in Initiator, Posts(i)
      PROVE  Durable'
  <2>1. UNCHANGED <<up, pins, file, ackedIn, ackedOut, faults>>
    BY <1>4 DEF Posts, store, bounds
  <2>2. \A j \in Initiator : Follows(j)
    <3> DEFINE a == attempt[i]
    <3>1. a.pc = "probed" /\ a \in Attempt
      BY <1>4 DEF Posts, PeerInv, Typed, NoAttempt
    <3>2. PICK b \in BOOLEAN :
            \/ attempt' = [attempt EXCEPT ![i] = NoAttempt]
            \/ attempt' = [attempt EXCEPT ![i].pc = "verified", ![i].late = b]
      <4>1. \/ Drops(i)
            \/ attempt' = [attempt EXCEPT ![i].pc = "verified", ![i].late = a.code \in spent]
        BY <1>4 DEF Posts
      <4>2. (a.code \in spent) \in BOOLEAN
        OBVIOUS
      <4>3. QED
        BY Zenon, <4>1, <4>2 DEF Drops
    <3>3. \A j \in Initiator \ {i} : attempt'[j] = attempt[j]
      BY <3>2 DEF PeerInv, Typed
    <3>4. \/ attempt'[i] = NoAttempt
          \/ attempt'[i] = [[a EXCEPT !.pc = "verified"] EXCEPT !.late = b]
      BY <3>2 DEF PeerInv, Typed
    <3>5. attempt'[i].pc # "stored"
      <4>1. attempt'[i] = NoAttempt => attempt'[i].pc # "stored"
        BY DEF NoAttempt
      <4>2. [[a EXCEPT !.pc = "verified"] EXCEPT !.late = b].pc = "verified"
        BY <3>1 DEF Attempt
      <4>3. QED
        BY <3>4, <4>1, <4>2
    <3>6. QED
      BY <3>3, <3>5 DEF Follows
  <2>3. QED
    BY <2>1, <2>2, QuietDurable DEF Durable
<1>5. ASSUME NEW i \in Initiator, GivesUp(i)
      PROVE  Durable'
  <2>1. UNCHANGED <<up, pins, file, ackedIn, ackedOut>> /\ faults' \in Nat
    BY <1>5 DEF GivesUp, store, history, Faults, Durable
  <2>2. \A j \in Initiator : Follows(j)
    <3> DEFINE a == attempt[i]
    <3>1. a.pc \in {"verified", "stored", "answered"} /\ a \in Attempt
      BY <1>5 DEF GivesUp, PeerInv, Typed, NoAttempt
    <3>2. PICK next \in Attempt \cup {NoAttempt} :
            /\ attempt' = [attempt EXCEPT ![i] = next]
            /\ next # NoAttempt => next = [a EXCEPT !.waiting = FALSE]
      BY <1>5, <3>1 DEF GivesUp, Drops, Attempt
    <3>3. attempt'[i] = next /\ \A j \in Initiator \ {i} : attempt'[j] = attempt[j]
      BY <3>2 DEF PeerInv, Typed
    <3>4. next # NoAttempt => /\ next.pc = a.pc /\ next.from = a.from /\ next.to = a.to
                              /\ next.undone = a.undone
      BY <3>1, <3>2 DEF Attempt
    <3>5. QED
      BY <3>1, <3>3, <3>4 DEF Follows, NoAttempt
  <2>3. QED
    BY <2>1, <2>2, QuietDurable
<1>6. CASE Next
  BY <1>1, <1>3, <1>4, <1>5, <1>6, NextCases, ProbesDurable, GrantsDurable,
     ConsumesDurable, CompletesDurable, DiesDurable, BootsDurable, ReinstallsDurable,
     RemovesDurable, WatcherAssumption DEF Elsewhere, pairings
<1>7. QED
  BY <1>2, <1>6

LEMMA InitDurable == Init => Durable
<1> SUFFICES ASSUME Init PROVE Durable
  OBVIOUS
<1> USE DEF Init, PairInit
<1>1. Range(<<>>) = {} /\ Once(<<>>)
  BY DEF Range, Once
<1>2. \A m \in Machine : Kept(up[m], pins[m], file[m], ackedIn[m], ackedOut[m])
  BY <1>1 DEF Kept
<1>3. Backed
  BY DEF Backed, BackedAt, NoAttempt
<1>4. QED
  BY <1>2, <1>3 DEF Durable

\* What a user was told about a peer, the next start of the daemon finds on file,
\* whatever saves fail, replies are lost and pins are removed under a pairing, for
\* machines that invite, add or do both (storePeer, handlePeerRemove).
THEOREM AcknowledgedStay == Spec => []AckedPinsAreDurable
<1>1. Init => Durable
  BY InitDurable
<1>2. PeerInv /\ Durable /\ [Next]_vars => Durable'
  BY NextDurable
<1>3. Durable => AckedPinsAreDurable
  BY DEF Durable, Kept, AckedPinsAreDurable, Pinned
<1>4. QED
  BY <1>1, <1>2, <1>3, Invariant, PTL DEF Spec

-----------------------------------------------------------------------------
(***************************************************************************)
(* A cached list comes from a peer pinned under its name, unless it was    *)
(* applied for one removed by then; a refresh in flight holds the state it *)
(* will apply its answer to, unless the state was dropped under it, and    *)
(* the answer of the peer it asked.                                        *)
(***************************************************************************)

Etag == (SUBSET Route) \cup {None}
Sender == Id \cup {None}
Reply == [routes : SUBSET Route, from : Id] \cup {None}

Cached == [here : {TRUE}, routes : SUBSET Route, etag : Etag, from : Sender,
           recent : BOOLEAN, refreshing : BOOLEAN, stray : BOOLEAN]

Sweeping == [pc : {"idle", "next", "read", "asking", "answered"}, list : Seq(Id),
             force : BOOLEAN, etag : Etag, recent : BOOLEAN, answer : Reply,
             orphan : BOOLEAN]

\* What is cached under the name n, of the peers ps.
Honest(st, n, ps) ==
    \/ st = NoState
    \/ /\ st \in Cached
       /\ ~st.stray /\ st.routes # {} => st.from \in ps /\ Name(st.from) = n

\* A sweep, with the states c of its machine.
Steady(s, c) ==
    /\ s \in Sweeping
    /\ s.pc # "idle" => s.list # <<>>
    /\ s.pc \in {"read", "asking", "answered"} /\ ~s.orphan => c[Name(s.list[1])].here
    /\ s.pc = "answered" /\ s.answer # None => s.answer.from = s.list[1]

Sourced ==
    /\ table \in [Machine -> SUBSET Route]
    /\ cache \in [Watcher -> [PeerName -> Cached \cup {NoState}]]
    /\ sweep \in [Watcher -> [Sweeper -> Sweeping]]
    /\ \A m \in Watcher, n \in PeerName : Honest(cache[m][n], n, Pinned(m))
    /\ \A m \in Watcher, k \in Sweeper : Steady(sweep[m][k], cache[m])

LEMMA Nothing == None \in Etag /\ None \in Sender /\ None \in Reply
BY DEF Etag, Sender, Reply

LEMMA Blank ==
    /\ Resting \in Sweeping /\ Resting.pc = "idle" /\ ~NoState.here
    /\ \A c : Steady(Resting, c)
    /\ FreshState \in Cached /\ FreshState.here /\ FreshState.routes = {}
<1>1. PICK none \in Seq(Id) : none = <<>>
  BY EmptySeq
<1>2. Resting = [pc |-> "idle", list |-> none, force |-> FALSE, etag |-> None,
                 recent |-> FALSE, answer |-> None, orphan |-> FALSE]
  BY <1>1 DEF Resting
<1>3. Resting \in Sweeping /\ Resting.pc = "idle"
  BY <1>2, Nothing DEF Sweeping
<1>4. \A c : Steady(Resting, c)
  BY <1>3 DEF Steady
<1>5. PICK empty \in SUBSET Route : empty = {}
  OBVIOUS
<1>6. FreshState = [here |-> TRUE, routes |-> empty, etag |-> None, from |-> None,
                    recent |-> FALSE, refreshing |-> FALSE, stray |-> FALSE]
  BY <1>5 DEF FreshState
<1>7. FreshState \in Cached /\ FreshState.here /\ FreshState.routes = {}
  BY <1>5, <1>6, Nothing DEF Cached
<1>8. ~NoState.here
  BY DEF NoState
<1>9. QED
  BY <1>3, <1>4, <1>7, <1>8

\* Pins come and nothing else of a watcher moves.
LEMMA PinsComeSourced ==
    ASSUME Sourced, UNCHANGED syncVars, \A m \in Machine : Range(pins[m]) \subseteq Range(pins'[m])
    PROVE  Sourced'
<1>1. \A m \in Watcher : Pinned(m) \subseteq Range(pins'[m])
  BY WatcherAssumption DEF Pinned
<1>2. \A m \in Watcher, n \in PeerName : Honest(cache[m][n], n, Range(pins'[m]))
  BY <1>1 DEF Sourced, Honest
<1>3. QED
  BY <1>2 DEF Sourced, syncVars, Pinned

\* One sweep takes a step, on the state it holds.
LEMMA StepSourced ==
    ASSUME Sourced, NEW m \in Watcher, NEW k \in Sweeper, NEW n \in PeerName,
           NEW st \in Cached \cup {NoState}, NEW s \in Sweeping,
           UNCHANGED <<pins, table>>,
           cache' = [cache EXCEPT ![m][n] = st], sweep' = [sweep EXCEPT ![m][k] = s],
           Honest(st, n, Pinned(m)), cache[m][n].here => st.here,
           Steady(s, cache'[m])
    PROVE  Sourced'
<1>1. /\ cache' \in [Watcher -> [PeerName -> Cached \cup {NoState}]]
      /\ cache'[m][n] = st
      /\ \A w \in Watcher, x \in PeerName : w # m \/ x # n => cache'[w][x] = cache[w][x]
  BY DEF Sourced
<1>2. /\ sweep' \in [Watcher -> [Sweeper -> Sweeping]]
      /\ sweep'[m][k] = s
      /\ \A w \in Watcher, x \in Sweeper : w # m \/ x # k => sweep'[w][x] = sweep[w][x]
  BY DEF Sourced
<1>3. \A w \in Watcher, x \in PeerName : Honest(cache'[w][x], x, Pinned(w)')
  BY <1>1 DEF Sourced, Pinned
<1>4. ASSUME NEW w \in Watcher, NEW x \in Sweeper
      PROVE  Steady(sweep'[w][x], cache'[w])
  <2>1. CASE w = m /\ x = k
    BY <1>2, <2>1
  <2>2. CASE ~(w = m /\ x = k)
    <3>1. sweep'[w][x] = sweep[w][x] /\ Steady(sweep[w][x], cache[w])
      BY <1>2, <2>2 DEF Sourced
    <3>2. ASSUME NEW y \in PeerName, cache[w][y].here
          PROVE  cache'[w][y].here
      BY <1>1, <3>2
    <3>3. sweep[w][x].pc # "idle" => Name(sweep[w][x].list[1]) \in PeerName
      <4>1. ASSUME NEW list \in Seq(Id), list # <<>> PROVE list[1] \in Id
        BY <4>1
      <4>2. sweep[w][x].pc # "idle" => sweep[w][x].list[1] \in Id
        BY <3>1, <4>1 DEF Steady, Sweeping
      <4>3. QED
        BY <4>2 DEF Name, PeerName, Host, Id
    <3>4. QED
      BY <3>1, <3>2, <3>3 DEF Steady
  <2>3. QED
    BY <2>1, <2>2
<1>5. QED
  BY <1>1, <1>2, <1>3, <1>4 DEF Sourced

\* The first peer of a sweep's list.
LEMMA FirstPeer ==
    ASSUME Sourced, NEW m \in Watcher, NEW k \in Sweeper, sweep[m][k].pc # "idle"
    PROVE  /\ sweep[m][k] \in Sweeping
           /\ sweep[m][k].list[1] \in Id
           /\ Name(sweep[m][k].list[1]) \in PeerName
<1>1. sweep[m][k] \in Sweeping /\ sweep[m][k].list # <<>>
  BY DEF Sourced, Steady
<1>2. ASSUME NEW list \in Seq(Id), list # <<>> PROVE list[1] \in Id
  BY <1>2
<1>3. sweep[m][k].list[1] \in Id
  BY <1>1, <1>2 DEF Sweeping
<1>4. QED
  BY <1>1, <1>3 DEF Name, PeerName, Host, Id

\* The rest of a list, if there is any.
LEMMA AdvanceSteady ==
    ASSUME NEW s \in Sweeping, s.list # <<>>, NEW c
    PROVE  Advance(s) \in Sweeping /\ Steady(Advance(s), c)
<1>1. CASE Len(s.list) = 1
  BY <1>1, Blank DEF Advance
<1>2. CASE Len(s.list) # 1
  <2>1. PICK list \in Seq(Id) : list = s.list
    BY DEF Sweeping
  <2>2. Len(list) \in Nat /\ Len(list) # 0 /\ Len(list) # 1
    BY <1>2, <2>1, LenProperties, EmptySeq
  <2>3. PICK tail \in Seq(Id) : tail = Tail(list) /\ tail # <<>>
    <3>1. list # <<>>
      BY <2>1
    <3>2. Tail(list) \in Seq(Id) /\ Len(Tail(list)) = Len(list) - 1
      BY <3>1, HeadTailProperties
    <3>3. Len(Tail(list)) # 0
      BY <2>2, <3>2
    <3>4. Tail(list) # <<>>
      BY <3>2, <3>3, EmptySeq
    <3>5. QED
      BY <3>2, <3>4
  <2>4. Advance(s) = [Resting EXCEPT !.pc = "next", !.list = tail, !.force = s.force]
    BY <1>2, <2>1, <2>3 DEF Advance
  <2>5. Advance(s) = [pc |-> "next", list |-> tail, force |-> s.force, etag |-> None,
                      recent |-> FALSE, answer |-> None, orphan |-> FALSE]
    BY <2>4 DEF Resting
  <2>6. s.force \in BOOLEAN
    BY DEF Sweeping
  <2>7. Advance(s) \in Sweeping /\ Advance(s).pc = "next" /\ Advance(s).list = tail
    BY <2>5, <2>6, Nothing DEF Sweeping
  <2>8. QED
    BY <2>3, <2>7 DEF Steady
<1>3. QED
  BY <1>1, <1>2

\* A sweep as it starts.
Fresh(list, force) == [Resting EXCEPT !.pc = "next", !.list = list, !.force = force]

LEMMA FreshIsSweeping ==
    ASSUME NEW list \in Seq(Id), NEW force, force \in BOOLEAN
    PROVE  LET s == Fresh(list, force)
           IN s \in Sweeping /\ s.pc = "next" /\ s.list = list
<1> DEFINE s == Fresh(list, force)
<1>1. s = [pc |-> "next", list |-> list, force |-> force, etag |-> None,
           recent |-> FALSE, answer |-> None, orphan |-> FALSE]
  <2>1. PICK none : none = <<>>
    OBVIOUS
  <2>2. PICK r : r = [Resting EXCEPT !.pc = "next"]
    OBVIOUS
  <2>3. r = [pc |-> "next", list |-> none, force |-> FALSE, etag |-> None,
             recent |-> FALSE, answer |-> None, orphan |-> FALSE]
    BY <2>1, <2>2 DEF Resting
  <2>4. Fresh(list, force) = [r EXCEPT !.list = list, !.force = force]
    BY <2>2 DEF Fresh
  <2>5. QED
    BY <2>3, <2>4
<1> HIDE DEF s
<1>2. s \in Sweeping /\ s.pc = "next" /\ s.list = list
  BY <1>1, Nothing DEF Sweeping
<1>3. QED
  BY <1>2 DEF s

LEMMA StartedSteady ==
    ASSUME NEW list \in Seq(Id), list # <<>>, NEW force \in BOOLEAN, NEW c
    PROVE  Fresh(list, force) \in Sweeping /\ Steady(Fresh(list, force), c)
BY FreshIsSweeping DEF Steady

LEMMA CacheAsIs ==
    ASSUME Sourced, NEW m \in Watcher, NEW n \in PeerName, UNCHANGED cache
    PROVE  cache' = [cache EXCEPT ![m][n] = cache[m][n]]
BY DEF Sourced

\* A state that is there is one of a peer's.
LEMMA Here ==
    ASSUME Sourced, NEW m \in Watcher, NEW n \in PeerName
    PROVE  /\ cache[m][n] \in Cached \cup {NoState}
           /\ Honest(cache[m][n], n, Pinned(m))
           /\ cache[m][n].here => cache[m][n] \in Cached
BY Blank DEF Sourced

LEMMA StartsSourced ==
    ASSUME PeerInv, Sourced, NEW m \in Watcher, NEW k \in Sweeper, StartsSweep(m, k)
    PROVE  Sourced'
<1> DEFINE s == Started(m, FALSE)
           n == NameOf[m]
<1>1. /\ pins[m] # <<>> /\ sweep' = [sweep EXCEPT ![m][k] = s]
      /\ UNCHANGED <<pins, table, cache>>
  BY DEF StartsSweep, SweepStep, pairVars, store
<1>2. m \in Machine /\ n \in PeerName /\ pins[m] \in Seq(Id)
  BY WatcherAssumption DEF PeerName, PeerInv, Typed
<1>3. s \in Sweeping /\ Steady(s, cache[m])
  <2>1. s = Fresh(pins[m], FALSE)
    BY DEF Started, Fresh
  <2> HIDE DEF s
  <2>2. QED
    BY <1>1, <1>2, <2>1, StartedSteady
<1> HIDE DEF s, n
<1>4. cache' = [cache EXCEPT ![m][n] = cache[m][n]] /\ cache' = cache
  BY <1>1, <1>2, CacheAsIs
<1>5. QED
  BY <1>1, <1>2, <1>3, <1>4, Here, StepSourced

LEMMA ReadsSourced ==
    ASSUME Sourced, NEW m \in Watcher, NEW k \in Sweeper, ReadsState(m, k)
    PROVE  Sourced'
<1> DEFINE s == sweep[m][k]
           n == Name(s.list[1])
<1>1. s.pc = "next" /\ UNCHANGED <<pins, table>>
  BY DEF ReadsState, pairVars, store
<1>2. s \in Sweeping /\ n \in PeerName /\ s.list # <<>>
  BY <1>1, FirstPeer DEF Sourced, Steady
<1>3. PICK st \in {IF cache[m][n].here THEN cache[m][n] ELSE FreshState} :
        /\ cache' = [cache EXCEPT ![m][n] = st]
        /\ sweep' = [sweep EXCEPT ![m][k] =
             [s EXCEPT !.pc = "read", !.etag = st.etag, !.recent = st.recent, !.orphan = FALSE]]
  BY DEF ReadsState, SweepStep
<1>4. st \in Cached /\ st.here /\ Honest(st, n, Pinned(m))
  <2> HIDE DEF n
  <2>1. CASE cache[m][n].here
    BY <1>2, <1>3, <2>1, Here
  <2>2. CASE ~cache[m][n].here
    BY <1>3, <2>2, Blank DEF Honest
  <2>3. QED
    BY <2>1, <2>2
<1>5. PICK new : new = [s EXCEPT !.pc = "read", !.etag = st.etag, !.recent = st.recent,
                                 !.orphan = FALSE]
  OBVIOUS
<1>6. new = [pc |-> "read", list |-> s.list, force |-> s.force, etag |-> st.etag,
             recent |-> st.recent, answer |-> s.answer, orphan |-> FALSE]
  BY <1>2, <1>5 DEF Sweeping
<1>7. st.etag \in Etag /\ st.recent \in BOOLEAN
  BY <1>4 DEF Cached
<1>8. new \in Sweeping /\ new.pc = "read" /\ new.list = s.list
  BY <1>2, <1>6, <1>7 DEF Sweeping
<1>9. cache'[m][n].here
  <2> HIDE DEF n
  <2> QED BY <1>2, <1>3, <1>4 DEF Sourced
<1>10. Steady(new, cache'[m])
  BY <1>2, <1>8, <1>9 DEF Steady
<1>11. sweep' = [sweep EXCEPT ![m][k] = new]
  BY <1>3, <1>5
<1> HIDE DEF s, n
<1>12. QED
  BY <1>1, <1>2, <1>3, <1>4, <1>8, <1>10, <1>11, StepSourced

LEMMA ClaimsSourced ==
    ASSUME Sourced, NEW m \in Watcher, NEW k \in Sweeper, Claims(m, k)
    PROVE  Sourced'
<1> DEFINE s == sweep[m][k]
           n == Name(s.list[1])
           old == cache[m][n]
           skip == (s.recent /\ ~s.force) \/ Busy(m, s)
<1>0. UNCHANGED <<pins, table>>
  BY DEF Claims, pairVars, store
<1>1. /\ s.pc = "read"
      /\ sweep' = [sweep EXCEPT ![m][k] =
                     IF skip THEN Advance(s) ELSE [s EXCEPT !.pc = "asking"]]
      /\ IF skip \/ s.orphan THEN UNCHANGED cache
         ELSE cache' = [cache EXCEPT ![m][n].refreshing = TRUE, ![m][n].recent = TRUE]
  BY DEF Claims, SweepStep, pairVars, store
<1>2. s \in Sweeping /\ n \in PeerName /\ s.list # <<>> /\ Steady(s, cache[m])
  BY <1>1, FirstPeer DEF Sourced, Steady
<1>3. CASE skip
  <2>1. UNCHANGED cache /\ sweep' = [sweep EXCEPT ![m][k] = Advance(s)]
    BY <1>1, <1>3
  <2> HIDE DEF s, n, skip
  <2>2. Advance(s) \in Sweeping /\ Steady(Advance(s), cache[m])
    BY <1>2, AdvanceSteady
  <2>3. cache' = [cache EXCEPT ![m][n] = cache[m][n]] /\ cache' = cache
    BY <1>2, <2>1, CacheAsIs
  <2>4. /\ cache[m][n] \in Cached \cup {NoState}
        /\ Honest(cache[m][n], n, Pinned(m))
    BY <1>2, Here
  <2> HIDE DEF old
  <2>5. QED
    BY <1>0, <1>2, <2>1, <2>2, <2>3, <2>4, StepSourced
<1>4. CASE ~skip
  <2>1. PICK new : new = [s EXCEPT !.pc = "asking"]
    OBVIOUS
  <2>2. /\ new \in Sweeping /\ new.pc = "asking" /\ new.list = s.list
        /\ new.orphan = s.orphan
    BY <1>2, <2>1 DEF Sweeping
  <2>3. sweep' = [sweep EXCEPT ![m][k] = new]
    BY <1>1, <1>4, <2>1
  <2>4. CASE s.orphan
    <3>1. cache' = cache
      BY <1>1, <1>4, <2>4
    <3>2. Steady(new, cache[m])
      BY <1>2, <2>2, <2>4 DEF Steady
    <3> HIDE DEF s, n, skip
    <3>3. cache' = [cache EXCEPT ![m][n] = cache[m][n]]
      BY <1>2, <3>1, CacheAsIs
    <3>4. QED
      BY <1>0, <1>2, <2>2, <2>3, <3>1, <3>2, <3>3, Here, StepSourced
  <2>5. CASE ~s.orphan
    <3>1. old.here
      BY <1>1, <1>2, <2>5 DEF Steady
    <3>2. old \in Cached /\ Honest(old, n, Pinned(m))
      <4> HIDE DEF n
      <4> QED BY <1>2, <3>1, Here
    <3>3. PICK st : st = [[old EXCEPT !.refreshing = TRUE] EXCEPT !.recent = TRUE]
      OBVIOUS
    <3>4. cache' = [cache EXCEPT ![m][n] = st]
      <4>1. cache' = [cache EXCEPT ![m][n].refreshing = TRUE, ![m][n].recent = TRUE]
        BY <1>1, <1>4, <2>5
      <4> HIDE DEF s, n, skip
      <4>2. PICK mid : mid = [old EXCEPT !.refreshing = TRUE]
        OBVIOUS
      <4>3. PICK c : c = [cache EXCEPT ![m][n] = mid]
        OBVIOUS
      <4>4. c[m][n] = mid
        BY <1>2, <4>3 DEF Sourced
      <4>5. cache' = [c EXCEPT ![m][n].recent = TRUE]
        BY <4>1, <4>2, <4>3
      <4>6. cache' = [c EXCEPT ![m][n] = st]
        BY <3>3, <4>2, <4>4, <4>5
      <4>7. QED
        BY <1>2, <4>3, <4>6 DEF Sourced
    <3>5. /\ st \in Cached /\ st.here /\ st.stray = old.stray /\ st.routes = old.routes
          /\ st.from = old.from
      BY <3>2, <3>3 DEF Cached
    <3>6. Honest(st, n, Pinned(m))
      BY <3>1, <3>2, <3>5, Blank DEF Honest
    <3>7. Steady(new, cache'[m])
      <4>1. cache'[m][n] = st
        <5> HIDE DEF n
        <5> QED BY <1>2, <3>4 DEF Sourced
      <4>2. QED
        BY <1>2, <2>2, <3>5, <4>1 DEF Steady
    <3> HIDE DEF s, n, skip, old
    <3>8. QED
      BY <1>0, <1>2, <2>2, <2>3, <3>4, <3>5, <3>6, <3>7, StepSourced
  <2>6. QED
    BY <2>4, <2>5
<1>5. QED
  BY <1>3, <1>4

\* The answer is the list of the very identity the sweep asked.
LEMMA IsAnsweredSourced ==
    ASSUME Sourced, NEW m \in Watcher, NEW k \in Sweeper, IsAnswered(m, k)
    PROVE  Sourced'
<1> DEFINE s == sweep[m][k]
           p == s.list[1]
           n == Name(p)
           offer == Offered(Host(p))
           answer == IF s.etag = offer THEN None
                     ELSE [routes |-> offer, from |-> identity[Host(p)]]
<1>1. /\ s.pc = "asking" /\ UNCHANGED <<pins, table, cache>>
      /\ identity[Host(p)] = p
      /\ sweep' = [sweep EXCEPT ![m][k] = [s EXCEPT !.pc = "answered", !.answer = answer]]
  BY DEF IsAnswered, SweepStep, Reaches, Answers, pairVars, store
<1>2. s \in Sweeping /\ p \in Id /\ n \in PeerName /\ s.list # <<>> /\ Steady(s, cache[m])
  BY <1>1, FirstPeer DEF Sourced, Steady
<1>3. offer \subseteq Route
  <2>1. Host(p) \in Machine
    BY <1>2 DEF Id, Host
  <2>2. QED
    BY <2>1 DEF Offered, Sourced
<1>4. PICK got : got = answer
  OBVIOUS
<1>5. got \in Reply /\ (got # None => got.from = p)
  <2> HIDE DEF offer
  <2> QED BY <1>1, <1>2, <1>3, <1>4 DEF Reply
<1>6. PICK new : new = [s EXCEPT !.pc = "answered", !.answer = got]
  OBVIOUS
<1>7. new = [pc |-> "answered", list |-> s.list, force |-> s.force, etag |-> s.etag,
             recent |-> s.recent, answer |-> got, orphan |-> s.orphan]
  BY <1>2, <1>6 DEF Sweeping
<1>8. new \in Sweeping
  BY <1>2, <1>5, <1>7 DEF Sweeping
<1>9. Steady(new, cache[m])
  BY <1>1, <1>2, <1>5, <1>7, <1>8 DEF Steady
<1>10. sweep' = [sweep EXCEPT ![m][k] = new]
  BY <1>1, <1>4, <1>6
<1> HIDE DEF s, p, n, offer, answer
<1>11. cache' = [cache EXCEPT ![m][n] = cache[m][n]] /\ cache' = cache
  BY <1>1, <1>2, CacheAsIs
<1>12. QED
  BY <1>1, <1>2, <1>8, <1>9, <1>10, <1>11, Here, StepSourced

LEMMA ReleaseCached ==
    ASSUME NEW st \in Cached, NEW s
    PROVE  /\ Release(st, s) \in Cached
           /\ \A n, ps : Honest(st, n, ps) => Honest(Release(st, s), n, ps)
<1> DEFINE new == Release(st, s)
<1>1. /\ new \in Cached /\ new.here /\ new.stray = st.stray /\ new.routes = st.routes
      /\ new.from = st.from
  BY DEF Release, Cached
<1>2. st # NoState
  BY Blank DEF Cached
<1>3. QED
  BY <1>1, <1>2 DEF Honest

LEMMA FailsSourced ==
    ASSUME Sourced, NEW m \in Watcher, NEW k \in Sweeper, Fails(m, k)
    PROVE  Sourced'
<1> DEFINE s == sweep[m][k]
           n == Name(s.list[1])
           old == cache[m][n]
<1>1. /\ s.pc = "asking" /\ UNCHANGED <<pins, table>>
      /\ sweep' = [sweep EXCEPT ![m][k] = Advance(s)]
      /\ cache' = IF s.orphan THEN cache ELSE [cache EXCEPT ![m][n] = Release(@, s)]
  BY DEF Fails, SweepStep, store
<1>2. s \in Sweeping /\ n \in PeerName /\ s.list # <<>> /\ Steady(s, cache[m])
  BY <1>1, FirstPeer DEF Sourced, Steady
<1>3. Advance(s) \in Sweeping /\ Steady(Advance(s), cache'[m])
  <2> HIDE DEF s
  <2> QED BY <1>2, AdvanceSteady
<1>4. CASE s.orphan
  <2>1. cache' = cache
    BY <1>1, <1>4
  <2> HIDE DEF s, n
  <2>2. cache' = [cache EXCEPT ![m][n] = cache[m][n]]
    BY <1>2, <2>1, CacheAsIs
  <2>3. QED
    BY <1>1, <1>2, <1>3, <2>2, Here, StepSourced
<1>5. CASE ~s.orphan
  <2>1. old.here
    BY <1>1, <1>2, <1>5 DEF Steady
  <2>2. cache' = [cache EXCEPT ![m][n] = Release(old, s)]
    BY <1>1, <1>5
  <2> HIDE DEF s, n
  <2>3. old \in Cached /\ Honest(old, n, Pinned(m))
    BY <1>2, <2>1, Here
  <2>4. /\ Release(old, s) \in Cached /\ Release(old, s).here
        /\ Honest(Release(old, s), n, Pinned(m))
    BY <2>3, ReleaseCached DEF Cached
  <2>5. QED
    BY <1>1, <1>2, <1>3, <2>2, <2>4, StepSourced
<1>6. QED
  BY <1>4, <1>5

\* The list goes where it was asked for; for a peer not pinned by now it is stray.
LEMMA AppliesSourced ==
    ASSUME Sourced, NEW m \in Watcher, NEW k \in Sweeper, Applies(m, k)
    PROVE  Sourced'
<1> DEFINE s == sweep[m][k]
           p == s.list[1]
           n == Name(p)
           old == cache[m][n]
           got == s.answer
           st == IF got = None THEN Release(old, s)
                 ELSE [Release(old, s) EXCEPT !.routes = got.routes, !.etag = got.routes,
                                              !.from = got.from, !.stray = p \notin Pinned(m)]
<1>1. /\ s.pc = "answered" /\ UNCHANGED <<pins, table>>
      /\ sweep' = [sweep EXCEPT ![m][k] = Advance(s)]
      /\ IF s.orphan THEN cache' = cache ELSE cache' = [cache EXCEPT ![m][n] = st]
  BY DEF Applies, SweepStep, pairVars, store
<1>2. s \in Sweeping /\ p \in Id /\ n \in PeerName /\ s.list # <<>> /\ Steady(s, cache[m])
  BY <1>1, FirstPeer DEF Sourced, Steady
<1>3. Advance(s) \in Sweeping /\ Steady(Advance(s), cache'[m])
  <2> HIDE DEF s
  <2> QED BY <1>2, AdvanceSteady
<1>4. CASE s.orphan
  <2>1. cache' = cache
    BY <1>1, <1>4
  <2> HIDE DEF s, p, n, st
  <2>2. cache' = [cache EXCEPT ![m][n] = cache[m][n]]
    BY <1>2, <2>1, CacheAsIs
  <2>3. QED
    BY <1>1, <1>2, <1>3, <2>2, Here, StepSourced
<1>5. CASE ~s.orphan
  <2>1. old.here
    BY <1>1, <1>2, <1>5 DEF Steady
  <2>2. old \in Cached /\ Honest(old, n, Pinned(m))
    <3> HIDE DEF n
    <3> QED BY <1>2, <2>1, Here
  <2>3. PICK rel : rel = Release(old, s)
    OBVIOUS
  <2>4. rel \in Cached /\ Honest(rel, n, Pinned(m))
    <3> HIDE DEF old, s, n
    <3> QED BY <2>2, <2>3, ReleaseCached
  <2>5. st \in Cached /\ st.here /\ Honest(st, n, Pinned(m))
    <3>1. CASE got = None
      BY <2>3, <2>4, <3>1 DEF Cached
    <3>2. CASE got # None
      <4>1. got \in [routes : SUBSET Route, from : Id] /\ got.from = p
        BY <1>1, <1>2, <3>2 DEF Steady, Sweeping, Reply
      <4>2. PICK new : new = [rel EXCEPT !.routes = got.routes, !.etag = got.routes,
                                         !.from = got.from, !.stray = p \notin Pinned(m)]
        OBVIOUS
      <4>3. new = [here |-> TRUE, routes |-> got.routes, etag |-> got.routes, from |-> p,
                   recent |-> rel.recent, refreshing |-> rel.refreshing,
                   stray |-> (p \notin Pinned(m))]
        BY <2>4, <4>1, <4>2 DEF Cached
      <4>4. /\ new \in Cached /\ new.here /\ new.from = p
            /\ ~new.stray => p \in Pinned(m)
        <5>1. got.routes \in SUBSET Route /\ got.routes \in Etag /\ p \in Sender
          BY <1>2, <4>1 DEF Etag, Sender
        <5>2. rel.recent \in BOOLEAN /\ rel.refreshing \in BOOLEAN
          BY <2>4 DEF Cached
        <5>3. (p \notin Pinned(m)) \in BOOLEAN
          OBVIOUS
        <5> HIDE DEF got, p
        <5>4. QED
          BY <1>2, <4>3, <5>1, <5>2, <5>3 DEF Cached
      <4>5. Honest(new, n, Pinned(m))
        BY <4>4 DEF Honest
      <4>6. st = new
        BY <2>3, <3>2, <4>2
      <4>7. QED
        BY <4>4, <4>5, <4>6
    <3>3. QED
      BY <3>1, <3>2
  <2>6. cache' = [cache EXCEPT ![m][n] = st]
    BY <1>1, <1>5
  <2> HIDE DEF s, p, n, st
  <2>7. QED
    BY <1>1, <1>2, <1>3, <2>5, <2>6, StepSourced
<1>6. QED
  BY <1>4, <1>5

LEMMA StorePins ==
    ASSUME PeerInv, NEW m \in Machine, NEW p \in Id, StorePeer(m, p)
    PROVE  \A n \in Machine : Range(pins[n]) \subseteq Range(pins'[n])
<1>1. pins' = [pins EXCEPT ![m] = WithPin(pins[m], p)]
  BY DEF StorePeer
<1>2. Range(WithPin(pins[m], p)) = Range(pins[m]) \cup {p}
  BY WithPinRange DEF PeerInv, Typed
<1>3. QED
  BY <1>1, <1>2 DEF PeerInv, Typed

\* The forced sweep after a pairing starts from the list with the new pin.
LEMMA AddedSourced ==
    ASSUME PeerInv, PeerInv', Sourced, NEW i \in Initiator, PeerAdded(i)
    PROVE  Sourced'
<1> DEFINE p == attempt[i].to
<1>1. i \in Machine /\ p \in Id /\ StorePeer(i, p) /\ UNCHANGED <<table, cache>>
  BY RoleAssumption DEF PeerAdded, Completes, Confirmed, PeerInv, Typed, Attempt, NoAttempt
<1>2. \A n \in Machine : Range(pins[n]) \subseteq Range(pins'[n])
  <2> HIDE DEF p
  <2> QED BY <1>1, StorePins
<1>3. CASE UNCHANGED sweep
  BY <1>1, <1>2, <1>3, PinsComeSourced DEF syncVars
<1>4. CASE i \in Watcher /\ Saved
  <2>1. sweep' = [sweep EXCEPT ![i]["demand"] = Fresh(pins'[i], TRUE)]
    BY <1>4 DEF PeerAdded, Fresh
  <2>2. PICK list \in Seq(Id) : list = pins'[i]
    BY <1>1 DEF PeerInv, Typed
  <2>3. list # <<>>
    <3>1. p \in Range(list)
      <4>1. pins' = [pins EXCEPT ![i] = WithPin(pins[i], p)]
        BY <1>1 DEF StorePeer
      <4>2. Range(WithPin(pins[i], p)) = Range(pins[i]) \cup {p}
        BY <1>1, WithPinRange DEF PeerInv, Typed
      <4> HIDE DEF p
      <4>3. QED
        BY <1>1, <2>2, <4>1, <4>2 DEF PeerInv, Typed
    <3>2. Range(<<>>) = {}
      BY DEF Range
    <3>3. QED
      BY <3>1, <3>2
  <2>4. Fresh(list, TRUE) \in Sweeping /\ \A c : Steady(Fresh(list, TRUE), c)
    BY <2>3, StartedSteady
  <2>5. /\ sweep' \in [Watcher -> [Sweeper -> Sweeping]]
        /\ \A w \in Watcher, k \in Sweeper :
             sweep'[w][k] = sweep[w][k] \/ sweep'[w][k] = Fresh(list, TRUE)
    BY <1>4, <2>1, <2>2, <2>4 DEF Sourced, Sweeper
  <2>6. \A w \in Watcher, k \in Sweeper : Steady(sweep'[w][k], cache'[w])
    BY <1>1, <2>4, <2>5 DEF Sourced
  <2>7. \A w \in Watcher, n \in PeerName : Honest(cache'[w][n], n, Pinned(w)')
    <3>1. \A w \in Watcher : Pinned(w) \subseteq Pinned(w)'
      BY <1>2, WatcherAssumption DEF Pinned
    <3>2. QED
      BY <1>1, <3>1 DEF Sourced, Honest
  <2>8. QED
    BY <1>1, <2>5, <2>6, <2>7 DEF Sourced
<1>5. QED
  BY <1>3, <1>4 DEF PeerAdded

LEMMA DeathSourced ==
    ASSUME PeerInv, Sourced, NEW m \in Machine, DaemonDies(m)
    PROVE  Sourced'
<1>1. pins' = [pins EXCEPT ![m] = <<>>] /\ UNCHANGED table
  BY DEF DaemonDies, Dies
<1>2. /\ cache' \in [Watcher -> [PeerName -> Cached \cup {NoState}]]
      /\ sweep' \in [Watcher -> [Sweeper -> Sweeping]]
      /\ \A w \in Watcher \ {m} : cache'[w] = cache[w] /\ sweep'[w] = sweep[w]
      /\ m \in Watcher => /\ \A n \in PeerName : cache'[m][n] = NoState
                          /\ \A k \in Sweeper : sweep'[m][k] = Resting
  <2>1. CASE m \in Watcher
    <3>1. /\ cache' = [cache EXCEPT ![m] = [n \in PeerName |-> NoState]]
          /\ sweep' = [sweep EXCEPT ![m] = [k \in Sweeper |-> Resting]]
      BY <2>1 DEF DaemonDies
    <3>2. QED
      BY <2>1, <3>1, Blank DEF Sourced
  <2>2. CASE m \notin Watcher
    BY <2>2 DEF DaemonDies, Sourced
  <2>3. QED
    BY <2>1, <2>2
<1>3. \A w \in Watcher \ {m} : Pinned(w)' = Pinned(w)
  BY <1>1, WatcherAssumption DEF Pinned, PeerInv, Typed
<1>4. \A w \in Watcher, n \in PeerName : Honest(cache'[w][n], n, Pinned(w)')
  BY <1>2, <1>3 DEF Sourced, Honest
<1>5. \A w \in Watcher, k \in Sweeper : Steady(sweep'[w][k], cache'[w])
  BY <1>2, Blank DEF Sourced
<1>6. QED
  BY <1>1, <1>2, <1>4, <1>5 DEF Sourced

\* With the pin goes the state under its name; every refresh that holds it is told.
LEMMA RemovedSourced ==
    ASSUME PeerInv, Sourced, NEW m \in Watcher, NEW n \in PeerName, PeerRemoved(m, n)
    PROVE  Sourced'
<1>1. PICK k \in DOMAIN pins[m] :
        /\ Name(pins[m][k]) = n
        /\ pins' = [pins EXCEPT ![m] = RemoveAt(pins[m], k)]
  BY DEF PeerRemoved, Removes, FirstNamed
<1>2. /\ UNCHANGED table
      /\ cache' = [cache EXCEPT ![m][n] = NoState]
      /\ sweep' = [sweep EXCEPT ![m] = [x \in Sweeper |->
           LET s == sweep[m][x] IN
           IF s.pc \in {"read", "asking", "answered"} /\ Name(s.list[1]) = n
             THEN [s EXCEPT !.orphan = TRUE] ELSE s]]
  BY DEF PeerRemoved, Forgets
<1>3. /\ cache' \in [Watcher -> [PeerName -> Cached \cup {NoState}]]
      /\ cache'[m][n] = NoState
      /\ \A w \in Watcher, y \in PeerName : w # m \/ y # n => cache'[w][y] = cache[w][y]
  BY <1>2 DEF Sourced
<1>4. \A w \in Watcher \ {m} : Pinned(w)' = Pinned(w)
  BY <1>1, WatcherAssumption DEF Pinned, PeerInv, Typed
<1>5. Pinned(m) \ {pins[m][k]} \subseteq Pinned(m)'
  <2>1. m \in Machine /\ pins[m] \in Seq(Id)
    BY WatcherAssumption DEF PeerInv, Typed
  <2>2. Range(pins[m]) \ {pins[m][k]} \subseteq Range(RemoveAt(pins[m], k))
    BY <2>1, RemoveAtOnce
  <2>3. pins'[m] = RemoveAt(pins[m], k)
    BY <1>1, <2>1 DEF PeerInv, Typed
  <2>4. QED
    BY <2>2, <2>3 DEF Pinned
<1>6. ASSUME NEW w \in Watcher, NEW y \in PeerName
      PROVE  Honest(cache'[w][y], y, Pinned(w)')
  <2>1. CASE w = m /\ y = n
    BY <1>3, <2>1 DEF Honest
  <2>2. CASE w = m /\ y # n
    <3>1. cache'[w][y] = cache[w][y] /\ Honest(cache[w][y], y, Pinned(m))
      BY <1>3, <2>2 DEF Sourced
    <3>2. QED
      BY <1>1, <1>5, <2>2, <3>1 DEF Honest
  <2>3. CASE w # m
    BY <1>3, <1>4, <2>3 DEF Sourced
  <2>4. QED
    BY <2>1, <2>2, <2>3
<1>7. ASSUME NEW x \in Sweeper
      PROVE  sweep'[m][x] \in Sweeping /\ Steady(sweep'[m][x], cache'[m])
  <2> DEFINE s == sweep[m][x]
  <2>1. s \in Sweeping /\ Steady(s, cache[m])
    BY DEF Sourced
  <2>2. CASE s.pc \in {"read", "asking", "answered"} /\ Name(s.list[1]) = n
    <3>1. PICK new : new = [s EXCEPT !.orphan = TRUE]
      OBVIOUS
    <3>2. /\ new \in Sweeping /\ new.pc = s.pc /\ new.list = s.list /\ new.orphan
          /\ new.answer = s.answer
      BY <2>1, <3>1 DEF Sweeping
    <3>3. sweep'[m][x] = new
      BY <1>2, <2>2, <3>1 DEF Sourced
    <3>4. QED
      BY <2>1, <3>2, <3>3 DEF Steady
  <2>3. CASE ~(s.pc \in {"read", "asking", "answered"} /\ Name(s.list[1]) = n)
    <3>1. sweep'[m][x] = s
      BY <1>2, <2>3 DEF Sourced
    <3>2. s.pc # "idle" => Name(s.list[1]) \in PeerName
      BY FirstPeer
    <3>3. Steady(s, cache'[m])
      BY <1>3, <2>1, <2>3, <3>2 DEF Steady
    <3>4. QED
      BY <2>1, <3>1, <3>3
  <2>4. QED
    BY <2>2, <2>3
<1>8. /\ sweep' \in [Watcher -> [Sweeper -> Sweeping]]
      /\ \A w \in Watcher \ {m} : sweep'[w] = sweep[w] /\ cache'[w] = cache[w]
  <2>1. \A w \in Watcher \ {m} : sweep'[w] = sweep[w] /\ cache'[w] = cache[w]
    BY <1>2 DEF Sourced
  <2>2. /\ DOMAIN sweep' = Watcher /\ sweep' = [w \in Watcher |-> sweep'[w]]
        /\ DOMAIN sweep'[m] = Sweeper /\ sweep'[m] = [x \in Sweeper |-> sweep'[m][x]]
    BY <1>2 DEF Sourced
  <2>3. sweep'[m] \in [Sweeper -> Sweeping]
    BY <1>7, <2>2
  <2>4. QED
    BY <2>1, <2>2, <2>3 DEF Sourced
<1>9. \A w \in Watcher, x \in Sweeper : Steady(sweep'[w][x], cache'[w])
  BY <1>7, <1>8 DEF Sourced
<1>10. QED
  BY <1>2, <1>3, <1>6, <1>8, <1>9 DEF Sourced

LEMMA ThrottleSourced ==
    ASSUME Sourced, NEW m \in Watcher, NEW n \in PeerName, ThrottleEnds(m, n)
    PROVE  Sourced'
<1> DEFINE old == cache[m][n]
<1>1. /\ old.here /\ cache' = [cache EXCEPT ![m][n].recent = FALSE]
      /\ UNCHANGED <<pins, table, sweep>>
  BY DEF ThrottleEnds, pairVars, store
<1>2. old \in Cached /\ Honest(old, n, Pinned(m))
  BY <1>1, Here
<1>3. PICK st : st = [old EXCEPT !.recent = FALSE]
  OBVIOUS
<1>4. /\ st \in Cached /\ st.here /\ st.stray = old.stray /\ st.routes = old.routes
      /\ st.from = old.from
  BY <1>2, <1>3 DEF Cached
<1>5. Honest(st, n, Pinned(m))
  BY <1>1, <1>2, <1>4, Blank DEF Honest
<1>6. cache' = [cache EXCEPT ![m][n] = st]
  BY <1>1, <1>3 DEF Sourced
<1>7. PICK s \in Sweeping : s = sweep[m]["poll"]
  BY DEF Sourced, Sweeper
<1>8. sweep' = [sweep EXCEPT ![m]["poll"] = s]
  BY <1>1, <1>7 DEF Sourced, Sweeper
<1>9. Steady(s, cache'[m])
  <2>1. Steady(s, cache[m]) /\ (s.pc # "idle" => Name(s.list[1]) \in PeerName)
    BY <1>7, FirstPeer DEF Sourced, Sweeper
  <2>2. \A y \in PeerName : cache[m][y].here => cache'[m][y].here
    BY <1>4, <1>6 DEF Sourced
  <2>3. QED
    BY <2>1, <2>2 DEF Steady
<1>10. "poll" \in Sweeper
  BY DEF Sweeper
<1> HIDE DEF old
<1>11. QED
  BY <1>1, <1>4, <1>5, <1>6, <1>8, <1>9, <1>10, StepSourced

LEMMA NextSourced ==
    ASSUME PeerInv, PeerInv', Sourced, [Next]_vars
    PROVE  Sourced'
<1> USE WatcherAssumption
<1>1. ASSUME UNCHANGED <<pins, syncVars>> PROVE Sourced'
  BY <1>1, PinsComeSourced
<1>2. CASE UNCHANGED vars
  BY <1>1, <1>2 DEF vars, pairVars, store
<1>3. ASSUME NEW m \in Inviter, (Invites(m) \/ InviteExpires(m)) /\ UNCHANGED syncVars
      PROVE  Sourced'
  BY <1>1, <1>3 DEF Invites, InviteExpires, store
<1>4. ASSUME NEW i \in Initiator, Pairs(i) /\ UNCHANGED syncVars
      PROVE  Sourced'
  <2>1. CASE Grants(i)
    <3> DEFINE r == Host(attempt[i].to)
               p == attempt[i].from
    <3>1. StorePeer(r, p) /\ r \in Machine /\ p \in Id
      BY <2>1 DEF Grants, PeerInv, Typed, NoAttempt, Attempt, Id, Host
    <3> HIDE DEF r, p
    <3>2. QED
      BY <1>4, <3>1, StorePins, PinsComeSourced
  <2>2. CASE ~Grants(i)
    BY <1>1, <1>4, <2>2 DEF Pairs, Probes, Posts, Consumes, GivesUp, store
  <2>3. QED
    BY <2>1, <2>2
<1>5. ASSUME NEW m \in Machine, (Boots(m) \/ Reinstalls(m)) /\ UNCHANGED syncVars
      PROVE  Sourced'
  <2>1. CASE Boots(m)
    <3>1. pins[m] = <<>> /\ pins' = [pins EXCEPT ![m] = file[m]]
      BY <2>1 DEF Boots, PeerInv, Typed
    <3>2. Range(<<>>) = {}
      BY DEF Range
    <3>3. \A n \in Machine : Range(pins[n]) \subseteq Range(pins'[n])
      BY <3>1, <3>2 DEF PeerInv, Typed
    <3>4. QED
      BY <1>5, <3>3, PinsComeSourced
  <2>2. CASE Reinstalls(m)
    BY <1>1, <1>5, <2>2 DEF Reinstalls
  <2>3. QED
    BY <1>5, <2>1, <2>2
<1>6. ASSUME NEW s \in Inviter, NEW r \in Route \ Bookmark, TableChanges(s, r)
      PROVE  Sourced'
  <2>1. /\ table' = [table EXCEPT ![s] = IF r \in @ THEN @ \ {r} ELSE @ \cup {r}]
        /\ UNCHANGED <<pins, cache, sweep>>
    BY <1>6 DEF TableChanges, store
  <2>2. table' \in [Machine -> SUBSET Route]
    BY <2>1 DEF Sourced
  <2>3. QED
    BY <2>1, <2>2 DEF Sourced, Pinned
<1>7. CASE Next
  BY <1>3, <1>4, <1>5, <1>6, <1>7, AddedSourced, DeathSourced, RemovedSourced,
     StartsSourced, ReadsSourced, ClaimsSourced, IsAnsweredSourced, FailsSourced,
     AppliesSourced, ThrottleSourced DEF Next, Sweeps
<1>8. QED
  BY <1>2, <1>7

LEMMA InitSourced == Init => Sourced
<1> SUFFICES ASSUME Init PROVE Sourced
  OBVIOUS
<1> USE DEF Init, SyncInit
<1>1. \A m \in Watcher, n \in PeerName : Honest(cache[m][n], n, Pinned(m))
  BY DEF Honest
<1>2. \A m \in Watcher, k \in Sweeper : Steady(sweep[m][k], cache[m])
  BY Blank
<1>3. table \in [Machine -> SUBSET Route]
  BY BookmarkAssumption
<1>4. /\ cache \in [Watcher -> [PeerName -> Cached \cup {NoState}]]
      /\ sweep \in [Watcher -> [Sweeper -> Sweeping]]
  BY Blank
<1>5. QED
  BY <1>1, <1>2, <1>3, <1>4 DEF Sourced

\* A set of positions has a first.
LEMMA FirstOf ==
    ASSUME NEW K, K \subseteq Nat, K # {}
    PROVE  Min(K) \in K
<1> DEFINE R == OpToRel(<, Nat)
<1>1. IsWellFoundedOn(R, Nat)
  BY NatLessThanWellFounded
<1>2. \E k \in K : \A j \in K : ~(<<j, k>> \in R)
  <2> HIDE DEF R
  <2> QED BY <1>1, WFMin
<1>3. \A j, k \in Nat : <<j, k>> \in R <=> j < k
  BY DEF OpToRel
<1> HIDE DEF R
<1>4. PICK k \in K : \A j \in K : ~(<<j, k>> \in R)
  BY <1>2
<1>5. ASSUME NEW j \in K PROVE k <= j
  <2>1. j \in Nat /\ k \in Nat
    OBVIOUS
  <2>2. ~(j < k)
    BY <1>3, <1>4, <2>1
  <2>3. QED
    BY <2>1, <2>2
<1>6. QED
  BY <1>5 DEF Min

\* A visit of a peer's route goes to the machine, of all the machines under its
\* name in time, that offered it (findPeerRoute, proxyToPeer, refreshPeerRoutes,
\* handlePeerRemove).
THEOREM RelaysGoHome == Spec => []RelaysReachTheSource
<1>1. PeerInv /\ Sourced => RelaysReachTheSource
  <2> SUFFICES ASSUME PeerInv, Sourced, NEW m \in Watcher, NEW r \in Route,
                      RelayTarget(m, r) # None, UniqueNames(m),
                      ~cache[m][Name(RelayTarget(m, r))].stray
               PROVE  cache[m][Name(RelayTarget(m, r))].from = RelayTarget(m, r)
    BY DEF RelaysReachTheSource
  <2> DEFINE K == {k \in DOMAIN pins[m] : LET st == cache[m][Name(pins[m][k])]
                                          IN st.here /\ r \in st.routes}
             p == RelayTarget(m, r)
             n == Name(p)
  <2>1. pins[m] \in Seq(Id) /\ DOMAIN pins[m] \subseteq Nat
    <3>1. pins[m] \in Seq(Id)
      BY WatcherAssumption DEF PeerInv, Typed
    <3>2. QED
      BY <3>1
  <2>2. K # {} /\ p = pins[m][Min(K)]
    BY DEF RelayTarget
  <2>3. Min(K) \in K
    <3>1. K \subseteq Nat
      BY <2>1
    <3> HIDE DEF K
    <3>2. QED
      BY <2>2, <3>1, FirstOf
  <2>4. PICK k \in DOMAIN pins[m] :
          p = pins[m][k] /\ cache[m][n].here /\ r \in cache[m][n].routes
    <3> HIDE DEF p
    <3> QED BY <2>2, <2>3
  <2>5. p \in Id /\ n \in PeerName
    <3> HIDE DEF p
    <3> QED BY <2>1, <2>4 DEF n, Name, PeerName, Host, Id
  <2>6. cache[m][n].from \in Pinned(m) /\ Name(cache[m][n].from) = n
    <3> HIDE DEF n
    <3>1. Honest(cache[m][n], n, Pinned(m))
      BY <2>5 DEF Sourced
    <3>2. cache[m][n] # NoState
      BY <2>4, Blank
    <3>3. ~cache[m][n].stray
      BY DEF n
    <3>4. QED
      BY <2>4, <3>1, <3>2, <3>3 DEF Honest
  <2>7. PICK j \in DOMAIN pins[m] : pins[m][j] = cache[m][n].from
    <3> HIDE DEF n
    <3> QED BY <2>6 DEF Pinned, Range
  <2>8. Name(pins[m][j]) = Name(pins[m][k])
    BY <2>4, <2>6, <2>7
  <2>9. j = k
    BY <2>8 DEF UniqueNames
  <2>10. QED
    BY <2>4, <2>7, <2>9
<1>2. PeerInv /\ PeerInv' /\ Sourced /\ [Next]_vars => Sourced'
  BY NextSourced
<1>3. QED
  BY <1>1, <1>2, InitSourced, Invariant, PTL DEF Spec
=============================================================================
