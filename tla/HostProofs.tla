----------------------------- MODULE HostProofs -----------------------------
(***************************************************************************)
(* Theorems about Host for any stock files, ports, adapters, server lists  *)
(* and numbers of commands and events.                                     *)
(*                                                                         *)
(* Both systems filter lists in a loop.  What the loop computes is proved  *)
(* by induction with sets in the place of predicates (Upwards,             *)
(* SequencesUp), from the least element of a set of naturals.              *)
(*                                                                         *)
(* On a Mac the file stays loadable because a patched text is vetted and a *)
(* stripped one only loses lines; it stays somebody's file plus the two    *)
(* lines because a process about to put a text in its place holds one that *)
(* differs from what it has read by those lines alone (Patched).  An       *)
(* uninstall sticks because each step that succeeds leaves nobody who      *)
(* could undo it: the job goes first, and with it the only process that    *)
(* runs beside a command; the anchor and the rules next, so that no reload *)
(* of the file brings rules back; the lines last (UninstallInv).           *)
(*                                                                         *)
(* On Windows a backup holds no loopback server (Snaps) and asks, for an   *)
(* adapter with a hand-set address, for the servers found there            *)
(* (Remembers); each adapter treated has what was asked for or the         *)
(* uninstall has been refused; and verification resets the rest            *)
(* (RestoreInv).                                                           *)
(***************************************************************************)
EXTENDS Host, SequenceTheorems, WellFoundedInduction, TLAPS

------------------------------------------------------------------------------
(* Filtering, by induction.                                                 *)

\* A nonempty set of naturals has a least element.
LEMMA LeastNat ==
    ASSUME NEW T, T \subseteq Nat, T # {}
    PROVE  \E m \in T : \A k \in T : m <= k
<1> DEFINE R == OpToRel(<, Nat)
<1>1. IsWellFoundedOn(R, Nat)
  BY NatLessThanWellFounded
<1>2. \E m \in T : \A k \in T : ~(<<k, m>> \in R)
  <2> HIDE DEF R
  <2> QED BY <1>1, WFMin
<1>3. \A k, m \in Nat : <<k, m>> \in R <=> k < m
  BY DEF OpToRel
<1> HIDE DEF R
<1>4. PICK m \in T : \A k \in T : ~(<<k, m>> \in R)
  BY <1>2
<1>5. ASSUME NEW k \in T PROVE m <= k
  <2>1. k \in Nat /\ m \in Nat
    OBVIOUS
  <2>2. ~(k < m)
    BY <1>3, <1>4, <2>1
  <2> QED BY <2>1, <2>2
<1> QED BY <1>5

\* Induction up to n, over a set instead of a predicate.
LEMMA Upwards ==
    ASSUME NEW n \in Nat, NEW G, 0 \in G,
           \A i \in 0..n : (i < n /\ i \in G) => i + 1 \in G
    PROVE  \A i \in 0..n : i \in G
<1> SUFFICES ASSUME NEW i \in 0..n, i \notin G PROVE FALSE
  OBVIOUS
<1> DEFINE T == {k \in 0..n : k \notin G}
<1>1. T \subseteq Nat /\ T # {}
  OBVIOUS
<1>2. PICK m \in T : \A k \in T : m <= k
  <2> HIDE DEF T
  <2> QED BY <1>1, LeastNat
<1>3. m \in 0..n /\ m \notin G /\ m # 0
  OBVIOUS
<1>4. m - 1 \in 0..n /\ m - 1 < n /\ m - 1 \notin T
  BY <1>2, <1>3
<1>5. m - 1 \in G
  BY <1>4
<1>6. (m - 1) + 1 \in G
  BY <1>4, <1>5
<1> QED BY <1>3, <1>6

\* f lists what the rounds of Without keep of the first n elements of s.
IsTable(f, s, K, n) ==
    f = [i \in 0..n |-> IF i = 0 THEN <<>>
            ELSE IF s[i] \in K THEN f[i - 1] ELSE Append(f[i - 1], s[i])]

LEMMA WithoutIs == 
  ASSUME NEW s, NEW K
  PROVE Without(s, K) = (CHOOSE f : IsTable(f, s, K, Len(s)))[Len(s)]
BY DEF Without, IsTable

\* The recursive function of Without exists, ...
LEMMA TableExists ==
    ASSUME NEW s, NEW K, NEW n \in Nat
    PROVE  \E f : IsTable(f, s, K, n)
<1> DEFINE G == {m \in 0..n : \E f : IsTable(f, s, K, m)}
<1>1. 0 \in G
  <2> DEFINE f == [i \in 0..0 |-> <<>>]
  <2>1. IsTable(f, s, K, 0) BY DEF IsTable
  <2> QED BY <2>1
<1>2. ASSUME NEW i \in 0..n, i < n, i \in G PROVE i + 1 \in G
  <2>1. PICK g : IsTable(g, s, K, i)
    BY <1>2
  <2> DEFINE e == IF s[i + 1] \in K THEN g[i] ELSE Append(g[i], s[i + 1])
             f == [k \in 0..(i + 1) |-> IF k = i + 1 THEN e ELSE g[k]]
  <2>2. \A k \in 0..i : g[k] = IF k = 0 THEN <<>>
            ELSE IF s[k] \in K THEN g[k - 1] ELSE Append(g[k - 1], s[k])
    BY <2>1 DEF IsTable
  <2>3. \A k \in 0..(i + 1) : f[k] = IF k = 0 THEN <<>>
            ELSE IF s[k] \in K THEN f[k - 1] ELSE Append(f[k - 1], s[k])
    <3> TAKE k \in 0..(i + 1)
    <3>1. CASE k = i + 1
      <4>1. f[k] = e /\ k # 0 /\ k - 1 = i
        BY <3>1
      <4>2. f[k - 1] = g[i]
        BY <4>1
      <4> QED BY <4>1, <4>2, <3>1
    <3>2. CASE k # i + 1
      <4>1. k \in 0..i
        BY <3>2
      <4>2. f[k] = g[k] /\ (k # 0 => f[k - 1] = g[k - 1])
        BY <4>1, <3>2
      <4> HIDE DEF f
      <4> QED BY <2>2, <4>1, <4>2
    <3> QED BY <3>1, <3>2
  <2>4. f = [k \in 0..(i + 1) |-> f[k]]
    OBVIOUS
  <2> HIDE DEF f
  <2>5. IsTable(f, s, K, i + 1)
    BY <2>3, <2>4 DEF IsTable
  <2>6. i + 1 \in 0..n
    BY <1>2
  <2> QED BY <2>5, <2>6
<1> HIDE DEF G
<1>3. \A i \in 0..n : i \in G
  BY <1>1, <1>2, Upwards
<1>4. n \in G
  BY <1>3
<1> QED BY <1>4 DEF G


\* ... does in each round what its definition says, ...
LEMMA TableAt ==
    ASSUME NEW f, NEW s, NEW K, NEW n \in Nat, IsTable(f, s, K, n)
    PROVE  /\ f[0] = <<>>
           /\ \A i \in 1..n : f[i] = IF s[i] \in K THEN f[i - 1] ELSE Append(f[i - 1], s[i])
<1>1. \A k \in 0..n : f[k] = IF k = 0 THEN <<>>
            ELSE IF s[k] \in K THEN f[k - 1] ELSE Append(f[k - 1], s[k])
  BY DEF IsTable
<1>2. 0 \in 0..n /\ \A i \in 1..n : i \in 0..n /\ i # 0
  OBVIOUS
<1> QED BY <1>1, <1>2

SamePrefix(s, t, n) == \A i \in 1..n : s[i] = t[i]

\* ... and depends on the elements it has read alone.
LEMMA TablesAgree ==
    ASSUME NEW s, NEW t, NEW K, NEW n \in Nat, NEW m \in Nat, n <= m,
           NEW f, IsTable(f, s, K, n), NEW g, IsTable(g, t, K, m),
           SamePrefix(s, t, n)
    PROVE  \A i \in 0..n : f[i] = g[i]
<1> DEFINE G == {i \in 0..n : f[i] = g[i]}
<1>1. /\ f[0] = <<>> /\ g[0] = <<>>
      /\ \A i \in 1..n : f[i] = IF s[i] \in K THEN f[i - 1] ELSE Append(f[i - 1], s[i])
      /\ \A i \in 1..m : g[i] = IF t[i] \in K THEN g[i - 1] ELSE Append(g[i - 1], t[i])
  BY TableAt
<1>2. 0 \in G
  BY <1>1
<1>3. ASSUME NEW i \in 0..n, i < n, i \in G PROVE i + 1 \in G
  <2>1. i + 1 \in 1..n /\ i + 1 \in 1..m /\ (i + 1) - 1 = i
    BY <1>3
  <2>2. s[i + 1] = t[i + 1] /\ f[i] = g[i]
    BY <2>1, <1>3 DEF SamePrefix
  <2>3. f[i + 1] = g[i + 1]
    BY <1>1, <2>1, <2>2
  <2> QED BY <2>1, <2>3
<1> HIDE DEF G
<1>4. \A i \in 0..n : i \in G
  BY <1>2, <1>3, Upwards
<1> QED BY <1>4 DEF G

LEMMA WithoutTable ==
    ASSUME NEW S, NEW s \in Seq(S), NEW K
    PROVE  \E f : IsTable(f, s, K, Len(s)) /\ Without(s, K) = f[Len(s)]
<1> DEFINE f == CHOOSE g : IsTable(g, s, K, Len(s))
<1>1. \E g : IsTable(g, s, K, Len(s))
  <2>1. Len(s) \in Nat
    OBVIOUS
  <2> QED BY <2>1, TableExists
<1>2. IsTable(f, s, K, Len(s))
  BY <1>1
<1>3. Without(s, K) = f[Len(s)]
  BY WithoutIs
<1> QED BY <1>2, <1>3

LEMMA WithoutEmpty ==
    ASSUME NEW K PROVE Without(<<>>, K) = <<>>
<1>1. <<>> \in Seq({}) /\ Len(<<>>) = 0
  OBVIOUS
<1>2. PICK f : IsTable(f, <<>>, K, 0) /\ Without(<<>>, K) = f[0]
  BY <1>1, WithoutTable
<1> QED BY <1>2, TableAt

\* One more round: the equation every later fact about Without rests on.
LEMMA WithoutAppend ==
    ASSUME NEW S, NEW s \in Seq(S), NEW e \in S, NEW K
    PROVE  Without(Append(s, e), K) =
              IF e \in K THEN Without(s, K) ELSE Append(Without(s, K), e)
<1>n. PICK n : n = Len(s)
  OBVIOUS
<1>t. PICK t : t = Append(s, e)
  OBVIOUS
<1>1. t \in Seq(S) /\ Len(t) = n + 1 /\ t[n + 1] = e /\ n \in Nat
  BY <1>n, <1>t
<1>2. SamePrefix(s, t, n)
  BY <1>n, <1>t DEF SamePrefix
<1>3. PICK f : IsTable(f, s, K, n) /\ Without(s, K) = f[n]
  BY <1>n, WithoutTable
<1>4. PICK g : IsTable(g, t, K, n + 1) /\ Without(t, K) = g[n + 1]
  BY <1>1, WithoutTable
<1>5. f[n] = g[n]
  <2>1. \A i \in 0..n : f[i] = g[i]
    <3> PICK m : m = n + 1
      OBVIOUS
    <3>1. n \in Nat /\ m \in Nat /\ n <= m
      BY <1>1
    <3>2. IsTable(f, s, K, n) /\ IsTable(g, t, K, m)
      BY <1>3, <1>4
    <3> QED BY <1>2, <3>1, <3>2, TablesAgree
  <2> QED BY <2>1, <1>1
<1>6. g[n + 1] = IF t[n + 1] \in K THEN g[n] ELSE Append(g[n], t[n + 1])
  <2>1. n + 1 \in Nat /\ n + 1 \in 1..(n + 1) /\ (n + 1) - 1 = n
    BY <1>1
  <2>2. \A i \in 1..(n + 1) : g[i] = IF t[i] \in K THEN g[i - 1] ELSE Append(g[i - 1], t[i])
    BY <1>4, <2>1, TableAt
  <2>3. g[n + 1] = IF t[n + 1] \in K THEN g[(n + 1) - 1] ELSE Append(g[(n + 1) - 1], t[n + 1])
    BY <2>1, <2>2
  <2> QED BY <2>1, <2>3
<1> QED BY <1>1, <1>3, <1>4, <1>5, <1>6, <1>t

\* Induction on sequences, by appending.
LEMMA SequencesUp ==
    ASSUME NEW S, NEW G, <<>> \in G,
           \A s \in Seq(S), e \in S : s \in G => Append(s, e) \in G
    PROVE  \A s \in Seq(S) : s \in G
<1> SUFFICES ASSUME NEW s \in Seq(S) PROVE s \in G
  OBVIOUS
<1> DEFINE n == Len(s)
           H == {i \in 0..n : SubSeq(s, 1, i) \in G}
<1>1. n \in Nat /\ SubSeq(s, 1, 0) = <<>> /\ SubSeq(s, 1, n) = s
  OBVIOUS
<1>2. 0 \in H
  <2>1. 0 \in 0..n
    BY <1>1
  <2> QED BY <2>1, <1>1
<1>3. ASSUME NEW i \in 0..n, i < n, i \in H PROVE i + 1 \in H
  <2>1. SubSeq(s, 1, i) \in Seq(S) /\ s[i + 1] \in S
    BY <1>3
  <2>2. SubSeq(s, 1, i + 1) = Append(SubSeq(s, 1, i), s[i + 1])
    BY <1>3
  <2>3. i + 1 \in 0..n /\ SubSeq(s, 1, i) \in G
    BY <1>3
  <2> QED BY <2>1, <2>2, <2>3
<1> HIDE DEF H
<1>4. \A i \in 0..n : i \in H
  BY <1>1, <1>2, <1>3, Upwards
<1>5. n \in H
  BY <1>1, <1>4
<1> QED BY <1>1, <1>5 DEF H

LEMMA WithoutType ==
    ASSUME NEW S, NEW K, NEW s \in Seq(S)
    PROVE  Without(s, K) \in Seq(S \ K)
<1> DEFINE G == {x \in Seq(S) : Without(x, K) \in Seq(S \ K)}
<1>1. <<>> \in G
  <2>1. Without(<<>>, K) = <<>>
    BY WithoutEmpty
  <2>2. <<>> \in Seq(S) /\ <<>> \in Seq(S \ K)
    OBVIOUS
  <2> QED BY <2>1, <2>2
<1>2. ASSUME NEW x \in Seq(S), NEW e \in S, x \in G PROVE Append(x, e) \in G
  <2>1. Without(Append(x, e), K) =
           IF e \in K THEN Without(x, K) ELSE Append(Without(x, K), e)
    BY WithoutAppend
  <2>2. Without(x, K) \in Seq(S \ K)
    BY <1>2
  <2>3. e \notin K => Append(Without(x, K), e) \in Seq(S \ K)
    BY <2>2
  <2>4. Append(x, e) \in Seq(S)
    OBVIOUS
  <2> QED BY <2>1, <2>2, <2>3, <2>4
<1> HIDE DEF G
<1>3. \A x \in Seq(S) : x \in G
  BY <1>1, <1>2, SequencesUp
<1> QED BY <1>3 DEF G

LEMMA WithoutStays ==
    ASSUME NEW S, NEW K, NEW s \in Seq(S)
    PROVE  Without(s, K) \in Seq(S)
<1>1. Without(s, K) \in Seq(S \ K)
  BY WithoutType
<1>2. S \ K \subseteq S
  OBVIOUS
<1> QED BY <1>1, <1>2, SeqMonotonic

LEMMA WithoutNothing ==
    ASSUME NEW S, NEW K, S \cap K = {}, NEW s \in Seq(S)
    PROVE  Without(s, K) = s
<1> DEFINE G == {x \in Seq(S) : Without(x, K) = x}
<1>1. <<>> \in G
  <2>1. Without(<<>>, K) = <<>>
    BY WithoutEmpty
  <2> QED BY <2>1
<1>2. ASSUME NEW x \in Seq(S), NEW e \in S, x \in G PROVE Append(x, e) \in G
  BY <1>2, WithoutAppend
<1> HIDE DEF G
<1>3. \A x \in Seq(S) : x \in G
  BY <1>1, <1>2, SequencesUp
<1> QED BY <1>3 DEF G

LEMMA WithoutConcat ==
    ASSUME NEW S, NEW K, NEW s \in Seq(S), NEW t \in Seq(S)
    PROVE  Without(s \o t, K) = Without(s, K) \o Without(t, K)
<1> DEFINE G == {x \in Seq(S) : Without(s \o x, K) = Without(s, K) \o Without(x, K)}
<1>1. <<>> \in G
  <2>1. Without(s, K) \in Seq(S)
    BY WithoutStays
  <2> QED BY <2>1, WithoutEmpty
<1>2. ASSUME NEW x \in Seq(S), NEW e \in S, x \in G PROVE Append(x, e) \in G
  <2>1. s \o Append(x, e) = Append(s \o x, e) /\ s \o x \in Seq(S)
    OBVIOUS
  <2>2. /\ Without(Append(s \o x, e), K) =
              IF e \in K THEN Without(s \o x, K) ELSE Append(Without(s \o x, K), e)
        /\ Without(Append(x, e), K) =
              IF e \in K THEN Without(x, K) ELSE Append(Without(x, K), e)
    BY <2>1, WithoutAppend
  <2>3. Without(s, K) \in Seq(S \ K) /\ Without(x, K) \in Seq(S \ K)
    BY WithoutType
  <2>4. Without(s, K) \o Append(Without(x, K), e) = Append(Without(s, K) \o Without(x, K), e)
    BY <2>3
  <2>5. Without(s \o x, K) = Without(s, K) \o Without(x, K)
    BY <1>2
  <2>6. Without(s \o Append(x, e), K) = Without(s, K) \o Without(Append(x, e), K)
    BY <2>1, <2>2, <2>4, <2>5
  <2>7. Append(x, e) \in Seq(S)
    OBVIOUS
  <2> QED BY <2>6, <2>7
<1> HIDE DEF G
<1>3. \A x \in Seq(S) : x \in G
  BY <1>1, <1>2, SequencesUp
<1> QED BY <1>3 DEF G

LEMMA WithoutTwice ==
    ASSUME NEW S, NEW J, NEW K, J \subseteq K, NEW s \in Seq(S)
    PROVE  Without(Without(s, J), K) = Without(s, K)
<1> DEFINE G == {x \in Seq(S) : Without(Without(x, J), K) = Without(x, K)}
<1>1. <<>> \in G
  <2>1. Without(<<>>, J) = <<>> /\ Without(<<>>, K) = <<>>
    BY WithoutEmpty
  <2>2. <<>> \in Seq(S)
    OBVIOUS
  <2> QED BY <2>1, <2>2
<1>2. ASSUME NEW x \in Seq(S), NEW e \in S, x \in G PROVE Append(x, e) \in G
  <2>1. Without(x, J) \in Seq(S)
    BY WithoutStays
  <2>2. /\ Without(Append(x, e), J) =
              IF e \in J THEN Without(x, J) ELSE Append(Without(x, J), e)
        /\ Without(Append(x, e), K) =
              IF e \in K THEN Without(x, K) ELSE Append(Without(x, K), e)
    BY WithoutAppend
  <2>3. Without(Append(Without(x, J), e), K) =
           IF e \in K THEN Without(Without(x, J), K) ELSE Append(Without(Without(x, J), K), e)
    BY <2>1, WithoutAppend
  <2>4. Without(Without(x, J), K) = Without(x, K)
    BY <1>2
  <2>5. Without(Without(Append(x, e), J), K) = Without(Append(x, e), K)
    BY <2>2, <2>3, <2>4
  <2>6. Append(x, e) \in Seq(S)
    OBVIOUS
  <2> QED BY <2>5, <2>6
<1> HIDE DEF G
<1>3. \A x \in Seq(S) : x \in G
  BY <1>1, <1>2, SequencesUp
<1> QED BY <1>3 DEF G
------------------------------------------------------------------------------
(* A Mac: the file.                                                         *)

\* The two lines.
Ours == {"vRdr", "vLoad"}

\* The reference goes somewhere into the file.
LEMMA InsertionInRange ==
    ASSUME NEW conf \in Seq(Kinds)
    PROVE  InsertionPoint(conf) \in 1..(Len(conf) + 1)
<1> DEFINE n == Len(conf)
           T == {i \in 1..n : conf[i] = "translation"}
           F == {i \in 1..n : conf[i] = "filter"}
<1>1. n \in Nat
  OBVIOUS
<1>2. ASSUME T # {} PROVE Max(T) \in 1..n
  <2> DEFINE U == {u \in 0..n : n - u \in T}
  <2>1. \A i \in T : n - i \in U
    BY <1>1
  <2>a. U \subseteq Nat
    BY <1>1
  <2>b. U # {}
    <3>1. PICK i \in T : TRUE
      BY <1>2
    <3>2. n - i \in U
      BY <2>1
    <3> HIDE DEF U
    <3> QED BY <3>2
  <2>2. U \subseteq Nat /\ U # {}
    BY <2>a, <2>b
  <2> HIDE DEF U
  <2>3. PICK m \in U : \A k \in U : m <= k
    BY <2>2, LeastNat
  <2>4. n - m \in T
    BY <2>3 DEF U
  <2>5. \A i \in T : n - m >= i
    <3> TAKE i \in T
    <3>1. n - i \in U /\ i \in 1..n /\ m \in Nat
      BY <2>1, <2>2, <2>3
    <3>2. m <= n - i
      BY <2>3, <3>1
    <3> QED BY <3>1, <3>2, <1>1
  <2>6. Max(T) \in T
    <3> HIDE DEF T
    <3> QED BY <2>4, <2>5 DEF Max
  <2> QED BY <2>6
<1>3. ASSUME F # {} PROVE Min(F) \in 1..n
  <2>1. F \subseteq Nat
    BY <1>1
  <2> HIDE DEF F
  <2>2. PICK m \in F : \A k \in F : m <= k
    BY <1>3, <2>1, LeastNat
  <2>3. Min(F) \in F
    BY <2>2 DEF Min
  <2> QED BY <2>3 DEF F
<1>4. InsertionPoint(conf) = IF T # {} THEN Max(T) + 1 ELSE IF F # {} THEN Min(F) ELSE n + 1
  BY DEF InsertionPoint
<1> HIDE DEF T, F
<1> QED BY <1>1, <1>2, <1>3, <1>4

LEMMA StripType ==
    ASSUME NEW conf \in Seq(Kinds)
    PROVE  stripPFConf(conf) \in Seq(Theirs)
<1>1. Kinds \ Ours = Theirs
  BY DEF Kinds, Theirs, Ours
<1>2. Without(conf, Ours) \in Seq(Kinds \ Ours)
  BY WithoutType
<1> QED BY <1>1, <1>2 DEF stripPFConf, Ours

LEMMA TheirsAreKinds ==
    ASSUME NEW conf \in Seq(Theirs)
    PROVE  conf \in Seq(Kinds) /\ stripPFConf(conf) = conf
<1>1. Theirs \subseteq Kinds /\ Theirs \cap Ours = {}
  BY DEF Kinds, Theirs, Ours
<1>2. conf \in Seq(Kinds)
  BY <1>1, SeqMonotonic
<1>3. Without(conf, Ours) = conf
  BY <1>1, WithoutNothing
<1> QED BY <1>2, <1>3 DEF stripPFConf, Ours

\* A line of vibe's, wherever it is put, is stripped again.
LEMMA InsertedStrips ==
    ASSUME NEW s \in Seq(Kinds), NEW t \in Seq(Kinds), NEW e \in Ours
    PROVE  /\ s \o <<e>> \o t \in Seq(Kinds)
           /\ stripPFConf(s \o <<e>> \o t) = stripPFConf(s \o t)
<1>1. e \in Kinds
  BY DEF Kinds, Ours
<1>2. <<>> \in Seq(Kinds) /\ <<e>> = Append(<<>>, e) /\ <<e>> \in Seq(Kinds)
  BY <1>1
<1>3. Without(<<e>>, Ours) = <<>>
  <2>1. Without(Append(<<>>, e), Ours) = Without(<<>>, Ours)
    BY <1>1, <1>2, WithoutAppend
  <2> QED BY <1>2, <2>1, WithoutEmpty
<1>4. s \o <<e>> \in Seq(Kinds)
  BY <1>2
<1>5. Without(s \o <<e>>, Ours) = Without(s, Ours)
  <2>1. Without(s \o <<e>>, Ours) = Without(s, Ours) \o Without(<<e>>, Ours)
    BY <1>2, WithoutConcat
  <2>2. Without(s, Ours) \in Seq(Kinds)
    BY WithoutStays
  <2> QED BY <1>3, <2>1, <2>2
<1>6. Without((s \o <<e>>) \o t, Ours) = Without(s \o <<e>>, Ours) \o Without(t, Ours)
  BY <1>4, WithoutConcat
<1>7. Without(s \o t, Ours) = Without(s, Ours) \o Without(t, Ours)
  BY WithoutConcat
<1>8. s \o <<e>> \o t \in Seq(Kinds)
  BY <1>4
<1> QED BY <1>5, <1>6, <1>7, <1>8 DEF stripPFConf, Ours

LEMMA AddReferenceKeeps ==
    ASSUME NEW conf \in Seq(Kinds)
    PROVE  /\ AddReference(conf) \in Seq(Kinds)
           /\ stripPFConf(AddReference(conf)) = stripPFConf(conf)
<1>p. PICK p : p = InsertionPoint(conf)
  OBVIOUS
<1>1. p \in 1..(Len(conf) + 1)
  BY <1>p, InsertionInRange
<1>s. PICK s : s = SubSeq(conf, 1, p - 1)
  OBVIOUS
<1>t. PICK t : t = SubSeq(conf, p, Len(conf))
  OBVIOUS
<1>2. s \in Seq(Kinds) /\ t \in Seq(Kinds) /\ s \o t = conf
  <2>1. s \in Seq(Kinds) /\ t \in Seq(Kinds)
    BY <1>1, <1>s, <1>t
  <2>2. p - 1 \in 0..Len(conf) /\ (p - 1) + 1 = p
    BY <1>1
  <2>3. SubSeq(conf, 1, p - 1) \o SubSeq(conf, (p - 1) + 1, Len(conf)) = SubSeq(conf, 1, Len(conf))
    <3>1. 1 \in 1..(Len(conf) + 1) /\ p - 1 \in (1 - 1)..Len(conf) /\ Len(conf) \in (p - 1)..Len(conf)
      BY <2>2
    <3> QED BY <3>1, ConcatAdjacentSubSeq
  <2>4. SubSeq(conf, 1, Len(conf)) = conf
    OBVIOUS
  <2> QED BY <2>1, <2>2, <2>3, <2>4, <1>s, <1>t
<1>3. InsertAt(conf, p, "vRdr") = s \o <<"vRdr">> \o t
  BY <1>s, <1>t DEF InsertAt
<1>4. "vRdr" \in Ours
  BY DEF Ours
<1>5. /\ s \o <<"vRdr">> \o t \in Seq(Kinds)
      /\ stripPFConf(s \o <<"vRdr">> \o t) = stripPFConf(s \o t)
  BY <1>2, <1>4, InsertedStrips
<1> QED BY <1>2, <1>3, <1>5, <1>p DEF AddReference

LEMMA AddLoadKeeps ==
    ASSUME NEW conf \in Seq(Kinds)
    PROVE  /\ AddLoad(conf) \in Seq(Kinds)
           /\ stripPFConf(AddLoad(conf)) = stripPFConf(conf)
<1>1. "vLoad" \in Ours /\ "blank" \in Kinds /\ <<>> \in Seq(Kinds)
  BY DEF Ours, Kinds, Theirs
<1>2. CASE HasLine(conf, "vLoad")
  BY <1>2 DEF AddLoad
<1>3. CASE ~HasLine(conf, "vLoad") /\ conf # <<>> /\ Last(conf) = "blank"
  <2>s. PICK s : s = Front(conf)
    OBVIOUS
  <2>1. s \in Seq(Kinds) /\ s \o <<"blank">> = conf /\ <<"blank">> \in Seq(Kinds)
    BY <1>1, <1>3, <2>s DEF Front, Last
  <2>2. s \o <<"vLoad", "blank">> = s \o <<"vLoad">> \o <<"blank">>
    BY <2>1
  <2>3. /\ s \o <<"vLoad">> \o <<"blank">> \in Seq(Kinds)
        /\ stripPFConf(s \o <<"vLoad">> \o <<"blank">>) = stripPFConf(s \o <<"blank">>)
    BY <1>1, <2>1, InsertedStrips
  <2>4. AddLoad(conf) = s \o <<"vLoad", "blank">>
    BY <1>3, <2>s DEF AddLoad
  <2> QED BY <2>1, <2>2, <2>3, <2>4
<1>4. CASE ~HasLine(conf, "vLoad") /\ ~(conf # <<>> /\ Last(conf) = "blank")
  <2>1. Append(conf, "vLoad") = conf \o <<"vLoad">> \o <<>> /\ conf \o <<>> = conf
    <3>1. "vLoad" \in Kinds
      BY DEF Kinds
    <3> QED BY <3>1
  <2>2. /\ conf \o <<"vLoad">> \o <<>> \in Seq(Kinds)
        /\ stripPFConf(conf \o <<"vLoad">> \o <<>>) = stripPFConf(conf \o <<>>)
    BY <1>1, InsertedStrips
  <2>3. AddLoad(conf) = Append(conf, "vLoad")
    BY <1>4 DEF AddLoad
  <2> QED BY <2>1, <2>2, <2>3
<1> QED BY <1>2, <1>3, <1>4

\* Patching, then stripping, gives what stripping gives.
LEMMA PatchKeeps ==
    ASSUME NEW conf \in Seq(Kinds)
    PROVE  /\ patchPFConf(conf) \in Seq(Kinds)
           /\ stripPFConf(patchPFConf(conf)) = stripPFConf(conf)
<1>1. /\ AddReference(conf) \in Seq(Kinds)
      /\ stripPFConf(AddReference(conf)) = stripPFConf(conf)
  BY AddReferenceKeeps
<1>2. /\ AddLoad(AddReference(conf)) \in Seq(Kinds)
      /\ stripPFConf(AddLoad(AddReference(conf))) = stripPFConf(AddReference(conf))
  BY <1>1, AddLoadKeeps
<1> QED BY <1>1, <1>2 DEF patchPFConf

\* A loadable file without some kinds of lines is loadable.
LEMMA StrippedLoads ==
    ASSUME NEW K, NEW conf \in Seq(Kinds), Loadable(conf)
    PROVE  Loadable(Without(conf, K))
<1> DEFINE W(x) == Without(x, K)
           G == {x \in Seq(Kinds) : Loadable(x) =>
                    /\ Loadable(W(x))
                    /\ \A i \in 1..Len(W(x)) : \E j \in 1..Len(x) : W(x)[i] = x[j]}
<1>1. <<>> \in G
  <2>1. W(<<>>) = <<>> /\ Len(<<>>) = 0 /\ <<>> \in Seq(Kinds)
    BY WithoutEmpty
  <2>2. Loadable(<<>>)
    BY DEF Loadable
  <2> QED BY <2>1, <2>2
<1>2. ASSUME NEW x \in Seq(Kinds), NEW e \in Kinds, x \in G PROVE Append(x, e) \in G
  <2>y. PICK y : y = Append(x, e)
    OBVIOUS
  <2>w. PICK w : w = W(x)
    OBVIOUS
  <2>v. PICK v : v = W(y)
    OBVIOUS
  <2>1. /\ y \in Seq(Kinds) /\ Len(y) = Len(x) + 1 /\ y[Len(x) + 1] = e
        /\ \A i \in 1..Len(x) : y[i] = x[i]
    BY <2>y
  <2>2. w \in Seq(Kinds)
    BY <2>w, WithoutStays
  <2>3. v = IF e \in K THEN w ELSE Append(w, e)
    BY <2>y, <2>w, <2>v, WithoutAppend
  <2>4. SUFFICES Loadable(y) => /\ Loadable(v)
                                /\ \A i \in 1..Len(v) : \E j \in 1..Len(y) : v[i] = y[j]
    <3>1. Append(x, e) = y /\ W(Append(x, e)) = v
      BY <2>y, <2>v
    <3> HIDE DEF W
    <3> QED BY <2>1, <3>1
  <2> HAVE Loadable(y)
  <2>5. Loadable(x)
    BY <2>1 DEF Loadable
  <2>6. Loadable(w) /\ \A i \in 1..Len(w) : \E j \in 1..Len(x) : w[i] = x[j]
    BY <1>2, <2>5, <2>w
  <2>7. Rank(e) > 0 => \A j \in 1..Len(x) : Rank(x[j]) <= Rank(e)
    BY <2>1 DEF Loadable
  <2>8. \A i \in 1..Len(w) : \E j \in 1..Len(y) : w[i] = y[j]
    BY <2>1, <2>6
  <2>9. CASE e \in K
    BY <2>3, <2>6, <2>8, <2>9
  <2>10. CASE e \notin K
    <3>1. /\ v = Append(w, e) /\ Len(v) = Len(w) + 1 /\ v[Len(w) + 1] = e
          /\ \A i \in 1..Len(w) : v[i] = w[i]
      BY <2>2, <2>3, <2>10
    <3>2. \A i \in 1..Len(v) : \E j \in 1..Len(y) : v[i] = y[j]
      <4> TAKE i \in 1..Len(v)
      <4>1. CASE i = Len(w) + 1
        BY <4>1, <2>1, <3>1
      <4>2. CASE i # Len(w) + 1
        <5>1. i \in 1..Len(w)
          BY <4>2, <3>1, <2>2
        <5> QED BY <5>1, <2>8, <3>1
      <4> QED BY <4>1, <4>2
    <3>3. Rank(e) > 0 => \A i \in 1..Len(w) : Rank(w[i]) <= Rank(e)
      BY <2>6, <2>7
    <3>4. Loadable(v)
      <4> SUFFICES ASSUME NEW i \in 1..Len(v), NEW j \in 1..Len(v), i < j, Rank(v[j]) > 0
                   PROVE  Rank(v[i]) <= Rank(v[j])
        BY DEF Loadable
      <4>1. i \in 1..Len(w)
        BY <2>2, <3>1
      <4>2. CASE j = Len(w) + 1
        BY <4>1, <4>2, <3>1, <3>3
      <4>3. CASE j # Len(w) + 1
        <5>1. j \in 1..Len(w)
          <6>1. Len(w) \in Nat /\ j \in 1..(Len(w) + 1)
            BY <2>2, <3>1
          <6> QED BY <4>3, <6>1
        <5>2. v[i] = w[i] /\ v[j] = w[j]
          BY <4>1, <5>1, <3>1
        <5> QED BY <4>1, <5>1, <5>2, <2>6 DEF Loadable
      <4> QED BY <4>2, <4>3
    <3> QED BY <3>2, <3>4
  <2> QED BY <2>9, <2>10
<1> HIDE DEF G
<1>3. \A x \in Seq(Kinds) : x \in G
  BY <1>1, <1>2, SequencesUp
<1> QED BY <1>3 DEF G

LEMMA StripLeavesNeither ==
    ASSUME NEW conf \in Seq(Theirs)
    PROVE  ~HasLine(conf, "vRdr") /\ ~HasLine(conf, "vLoad")
<1>1. \A i \in 1..Len(conf) : conf[i] \in Theirs
  OBVIOUS
<1>2. "vRdr" \notin Theirs /\ "vLoad" \notin Theirs
  BY DEF Theirs
<1> QED BY <1>1, <1>2 DEF HasLine
------------------------------------------------------------------------------
(* A Mac: the processes.                                                    *)

Pcs == {"idle", "anchor", "read", "swap", "reload", "load", "enable", "dnsmasq", "resolver",
        "ports", "plist", "certs", "trust", "tls", "agent", "verify", "agents", "flush",
        "strip", "write", "unload", "rest"}

\* Where a process holds a text it is about to put in place of pf.conf.
Filled == {"swap", "write"}

Steps ==
    [pc : Pcs, port : Ports \cup {0}, base : Seq(Kinds), text : Seq(Kinds),
     ours : BOOLEAN, changed : BOOLEAN, failed : BOOLEAN]

\* Such a text differs from the file its process has read by vibe's lines alone;
\* uninstall's is a file pfctl loads, without them.
Patched ==
    {r \in Steps :
        /\ r.pc \in Filled => stripPFConf(r.text) = stripPFConf(r.base)
        /\ r.pc = "write" => Loadable(r.text) /\ r.text \in Seq(Theirs)}

MacTypes == MacTypeOK /\ proc \in [Procs -> Patched]

FileInv == Loadable(file) /\ (raced \/ stripPFConf(file) = others)

\* What uninstall has taken away stays away while it runs and after it has ended.
JobsGone == plist = 0 /\ At("net", "idle")
RulesGone == anchor = 0 /\ live.rules = 0
LinesGone == ~HasLine(file, "vRdr") /\ ~HasLine(file, "vLoad")

\* The uninstall has left these steps behind, and none of them failed.
Past(S) == proc["un"].pc \notin S \cup {"idle"} /\ ~proc["un"].failed

UninstallInv ==
    /\ \A c, d \in Commands : c = d \/ At(c, "idle") \/ At(d, "idle")
    /\ clean => (\A c \in Commands : At(c, "idle")) /\ ~dns.resolver
    /\ (clean \/ Past({"agents"})) => JobsGone
    /\ (clean \/ Past({"agents", "flush"})) => RulesGone
    /\ (clean \/ Past({"agents", "flush", "strip", "write"})) => LinesGone

TrustInv == vouched => ca.disk \in ca.trusted

MacInv == MacTypes /\ FileInv /\ UninstallInv /\ TrustInv

LEMMA IdleIsPatched == Idle \in Patched
<1>1. PICK e \in Seq(Kinds) : e = <<>>
  <2>1. <<>> \in Seq(Kinds)
    OBVIOUS
  <2> QED BY <2>1
<1>2. Idle = [pc |-> "idle", port |-> 0, base |-> e, text |-> e, ours |-> FALSE, changed |-> FALSE,
            failed |-> FALSE]
  BY <1>1 DEF Idle
<1>3. Idle \in Steps
  BY <1>2 DEF Steps, Pcs, Filled
<1> QED BY <1>2, <1>3 DEF Patched, Filled

LEMMA SetPc ==
    ASSUME NEW r \in Patched, NEW pc \in Pcs, pc \notin Filled
    PROVE  [r EXCEPT !.pc = pc] \in Patched
BY DEF Patched, Steps, Filled

LEMMA SetOne ==
    ASSUME proc \in [Procs -> Patched], NEW p \in Procs, NEW r \in Patched,
           proc' = [proc EXCEPT ![p] = r]
    PROVE  /\ proc' \in [Procs -> Patched] /\ proc'[p] = r
           /\ \A q \in Procs \ {p} : proc'[q] = proc[q]
OBVIOUS

LEMMA GoSets ==
    ASSUME proc \in [Procs -> Patched], NEW p \in Procs, NEW pc \in Pcs, pc \notin Filled,
           Go(p, pc)
    PROVE  /\ proc' \in [Procs -> Patched] /\ proc'[p].pc = pc
           /\ \A q \in Procs \ {p} : proc'[q] = proc[q]
<1>1. PICK r : r = [proc[p] EXCEPT !.pc = pc]
  OBVIOUS
<1>2. proc[p] \in Patched
  OBVIOUS
<1>3. r \in Patched /\ r.pc = pc
  BY <1>1, <1>2, SetPc DEF Patched, Steps
<1>4. proc' = [proc EXCEPT ![p] = r]
  BY <1>1 DEF Go
<1> QED BY <1>3, <1>4, SetOne

LEMMA QuitSets ==
    ASSUME proc \in [Procs -> Patched], NEW p \in Procs, Quit(p)
    PROVE  /\ proc' \in [Procs -> Patched] /\ proc'[p] = Idle
           /\ \A q \in Procs \ {p} : proc'[q] = proc[q]
<1>1. proc' = [proc EXCEPT ![p] = Idle]
  BY DEF Quit
<1> QED BY <1>1, IdleIsPatched, SetOne

LEMMA StartSets ==
    ASSUME MacTypes, NEW p \in Procs, NEW pc \in Pcs, pc \notin Filled,
           NEW port \in Ports \cup {0},
           proc' = [proc EXCEPT ![p] = [Idle EXCEPT !.pc = pc, !.port = port]]
    PROVE  /\ proc' \in [Procs -> Patched] /\ proc'[p].pc = pc
           /\ \A q \in Procs \ {p} : proc'[q] = proc[q]
<1>1. PICK r : r = [Idle EXCEPT !.pc = pc, !.port = port]
  OBVIOUS
<1>2. r \in Patched /\ r.pc = pc
  BY <1>1, IdleIsPatched DEF Patched, Steps, Idle, Filled
<1>3. proc' = [proc EXCEPT ![p] = r]
  BY <1>1
<1>4. proc \in [Procs -> Patched]
  BY DEF MacTypes
<1> QED BY <1>2, <1>3, <1>4, SetOne

\* A command starts: uninstall's first step takes nothing away yet.
LEMMA CommandStarts ==
    ASSUME MacInv, NEW p \in Commands, NEW pc \in Pcs, pc \notin Filled,
           NEW port \in Ports \cup {0}, StartCommand(p, pc, port),
           p = "un" => pc = "agents"
    PROVE  MacInv'
<1>1. p \in Procs /\ proc' = [proc EXCEPT ![p] = [Idle EXCEPT !.pc = pc, !.port = port]]
  BY DEF StartCommand, Commands
<1>2. /\ proc' \in [Procs -> Patched] /\ proc'[p].pc = pc
      /\ \A q \in Procs \ {p} : proc'[q] = proc[q]
  BY <1>1, StartSets DEF MacInv
<1>3. MacTypes'
  <2>1. events' \in 0..MaxEvents
    BY MacAssumption DEF StartCommand, MacInv, MacTypes, MacTypeOK
  <2> QED BY <1>2, <2>1 DEF StartCommand, MacInv, MacTypes, MacTypeOK
<1>4. FileInv'
  BY DEF StartCommand, MacInv, FileInv
<1>5. UninstallInv'
  <2>1. \A c \in Commands : proc[c].pc = "idle"
    BY DEF StartCommand, At
  <2>2. \A c \in Commands \ {p} : proc'[c].pc = "idle"
    BY <1>2, <2>1 DEF Commands
  <2>3. ~clean'
    BY DEF StartCommand
  <2>4. proc'["un"].pc \in {"idle", "agents"}
    BY <1>2, <2>2 DEF Commands, Procs
  <2> QED BY <2>2, <2>3, <2>4 DEF UninstallInv, At, Past
<1>6. TrustInv'
  BY DEF StartCommand, MacInv, TrustInv
<1> QED BY <1>3, <1>4, <1>5, <1>6 DEF MacInv

\* A step of a process other than uninstall finds it not yet past its first step.
LEMMA OthersStep ==
    ASSUME MacInv, NEW p \in Procs \ {"un"}, ~At(p, "idle"),
           \A q \in Commands \ {p} : proc'[q] = proc[q],
           clean' = clean
    PROVE  UninstallInv'
<1>1. ~clean /\ ~Past({"agents"})
  <2>1. CASE p = "net"
    BY <2>1 DEF MacInv, UninstallInv, JobsGone
  <2>2. CASE p # "net"
    <3>1. p \in Commands /\ "un" \in Commands /\ p # "un"
      BY <2>2 DEF Commands, Procs
    <3>2. At("un", "idle")
      BY <3>1 DEF MacInv, UninstallInv
    <3> QED BY <3>1, <3>2 DEF MacInv, UninstallInv, At, Past
  <2> QED BY <2>1, <2>2
<1>2. proc'["un"] = proc["un"]
  BY DEF Commands, Procs
<1>3. \A c, d \in Commands : c = d \/ At(c, "idle")' \/ At(d, "idle")'
  <2>1. CASE p = "net"
    <3>1. \A q \in Commands : proc'[q] = proc[q]
      BY <2>1 DEF Commands, Procs
    <3> QED BY <3>1 DEF MacInv, UninstallInv, At
  <2>2. CASE p # "net"
    <3>1. p \in Commands
      BY <2>2 DEF Commands, Procs
    <3>2. \A c \in Commands \ {p} : proc[c].pc = "idle"
      BY <3>1 DEF MacInv, UninstallInv, At
    <3>3. \A c \in Commands \ {p} : proc'[c].pc = "idle"
      BY <3>2
    <3> QED BY <3>1, <3>3 DEF At
  <2> QED BY <2>1, <2>2
<1> QED BY <1>1, <1>2, <1>3 DEF UninstallInv, Past

------------------------------------------------------------------------------
(* A Mac: the pf steps.                                                     *)

Appliers == {"net", "fix", "setup"}

LEMMA NetworkChangeKeeps ==
    ASSUME MacInv, NetworkChange
    PROVE  MacInv'
<1>1. plist \in Ports \cup {0} /\ "net" \in Procs
  BY DEF MacInv, MacTypes, MacTypeOK, Procs
<1>2. /\ proc' \in [Procs -> Patched]
      /\ \A q \in Procs \ {"net"} : proc'[q] = proc[q]
  <2>1. proc' = [proc EXCEPT !["net"] = [Idle EXCEPT !.pc = "anchor", !.port = plist]]
    BY DEF NetworkChange
  <2>2. MacTypes /\ "anchor" \in Pcs /\ "anchor" \notin Filled
    BY DEF MacInv, Pcs, Filled
  <2> QED BY <1>1, <2>1, <2>2, StartSets
<1>3. MacTypes'
  BY <1>2 DEF NetworkChange, MacInv, MacTypes, MacTypeOK
<1>4. FileInv' /\ TrustInv'
  BY DEF NetworkChange, MacInv, FileInv, TrustInv
<1>5. UninstallInv'
  <2>1. \A c \in Commands : proc'[c] = proc[c]
    BY <1>2 DEF Commands
  <2>2. ~clean /\ ~Past({"agents"})
    BY DEF MacInv, UninstallInv, JobsGone, NetworkChange
  <2>3. proc'["un"] = proc["un"] /\ clean' = clean
    BY <2>1 DEF Commands, Procs, NetworkChange
  <2>4. \A c, d \in Commands : c = d \/ At(c, "idle")' \/ At(d, "idle")'
    BY <2>1 DEF MacInv, UninstallInv, At
  <2> QED BY <2>2, <2>3, <2>4 DEF UninstallInv, Past
<1> QED BY <1>3, <1>4, <1>5 DEF MacInv

LEMMA WriteAnchorKeeps ==
    ASSUME MacInv, NEW p \in Appliers, writePFAnchorFile(p)
    PROVE  MacInv'
<1>1. p \in Procs \ {"un"} /\ ~At(p, "idle")
  BY DEF Appliers, Procs, writePFAnchorFile, At
<1>2. /\ proc' \in [Procs -> Patched]
      /\ \A q \in Procs \ {p} : proc'[q] = proc[q]
  <2>1. Go(p, "read")
    BY DEF writePFAnchorFile
  <2>2. p \in Procs /\ proc \in [Procs -> Patched] /\ "read" \in Pcs /\ "read" \notin Filled
    BY <1>1 DEF MacInv, MacTypes, Pcs, Filled
  <2> QED BY <2>1, <2>2, GoSets
<1>3. MacTypes'
  <2>1. anchor' \in Ports \cup {0}
    BY <1>1 DEF MacInv, MacTypes, Patched, Steps, writePFAnchorFile
  <2> QED BY <1>2, <2>1 DEF writePFAnchorFile, MacInv, MacTypes, MacTypeOK
<1>4. FileInv' /\ TrustInv'
  BY DEF writePFAnchorFile, MacInv, FileInv, TrustInv
<1>5. UninstallInv'
  <2>1. \A q \in Commands \ {p} : proc'[q] = proc[q]
    BY <1>2 DEF Commands
  <2>2. clean' = clean
    BY DEF writePFAnchorFile
  <2> QED BY <1>1, <2>1, <2>2, OthersStep
<1> QED BY <1>3, <1>4, <1>5 DEF MacInv

LEMMA ReadKeeps ==
    ASSUME MacInv, NEW p \in Appliers, readPFConf(p)
    PROVE  MacInv'
<1>1. p \in Procs \ {"un"} /\ ~At(p, "idle") /\ proc[p] \in Patched
  BY DEF Appliers, Procs, readPFConf, At, MacInv, MacTypes
<1>2. /\ proc' \in [Procs -> Patched]
      /\ \A q \in Procs \ {p} : proc'[q] = proc[q]
  <2>1. CASE Referenced(file)
    <3>1. PICK pc \in {"plist", "reload"} : pc = AfterPatch(p)
      BY DEF AfterPatch
    <3>2. PICK r : r = [proc[p] EXCEPT !.ours = TRUE, !.changed = FALSE, !.pc = pc]
      OBVIOUS
    <3>3. r \in Patched
      <4>1. proc[p] \in Steps /\ pc \in Pcs /\ pc \notin Filled
        BY <1>1, <3>1 DEF Patched, Pcs, Filled
      <4>2. r \in Steps /\ r.pc = pc
        BY <4>1, <3>2 DEF Steps
      <4> QED BY <4>1, <4>2 DEF Patched
    <3>4. proc' = [proc EXCEPT ![p] = r]
      BY <1>1, <2>1, <3>1, <3>2 DEF readPFConf, MacInv, MacTypes
    <3> QED BY <1>1, <3>3, <3>4, SetOne DEF MacInv, MacTypes
  <2>2. CASE ~Referenced(file)
    <3>1. PICK t : t = patchPFConf(file)
      OBVIOUS
    <3>2. PICK r : r = [proc[p] EXCEPT !.base = file, !.text = t, !.pc = "swap"]
      OBVIOUS
    <3>3. file \in Seq(Kinds) /\ t \in Seq(Kinds) /\ stripPFConf(t) = stripPFConf(file)
      BY <3>1, PatchKeeps DEF MacInv, MacTypes, MacTypeOK
    <3>4. r \in Patched
      <4>1. proc[p] \in Steps /\ "swap" \in Pcs
        BY <1>1 DEF Patched, Pcs, Filled
      <4>2. r \in Steps /\ r.base = file /\ r.text = t /\ r.pc = "swap"
        BY <4>1, <3>2, <3>3 DEF Steps
      <4> QED BY <3>3, <4>2 DEF Patched
    <3>5. proc' = [proc EXCEPT ![p] = r]
      BY <1>1, <2>2, <3>1, <3>2 DEF readPFConf, MacInv, MacTypes
    <3> QED BY <1>1, <3>4, <3>5, SetOne DEF MacInv, MacTypes
  <2> QED BY <2>1, <2>2
<1>3. MacTypes'
  BY <1>2 DEF readPFConf, MacInv, MacTypes, MacTypeOK
<1>4. FileInv' /\ TrustInv'
  BY DEF readPFConf, MacInv, FileInv, TrustInv
<1>5. UninstallInv'
  <2>1. \A q \in Commands \ {p} : proc'[q] = proc[q]
    BY <1>2 DEF Commands
  <2>2. clean' = clean
    BY DEF readPFConf
  <2> QED BY <1>1, <2>1, <2>2, OthersStep
<1> QED BY <1>3, <1>4, <1>5 DEF MacInv

LEMMA SwapKeeps ==
    ASSUME MacInv, NEW p \in Appliers, swapPFConf(p)
    PROVE  MacInv'
<1>1. /\ p \in Procs \ {"un"} /\ ~At(p, "idle") /\ proc[p] \in Patched
      /\ proc[p].pc = "swap"
  BY DEF Appliers, Procs, swapPFConf, At, MacInv, MacTypes
<1>t. PICK text : text = proc[p].text
  OBVIOUS
<1>b. PICK base : base = proc[p].base
  OBVIOUS
<1>v. PICK vetted \in BOOLEAN : vetted = Loadable(text)
  BY DEF Loadable
<1>2. /\ text \in Seq(Kinds) /\ base \in Seq(Kinds)
      /\ stripPFConf(text) = stripPFConf(base)
  BY <1>1, <1>t, <1>b DEF Patched, Steps, Filled
<1>3. /\ file' = (IF vetted THEN text ELSE file)
      /\ raced' = (raced \/ (vetted /\ stripPFConf(base) # stripPFConf(file)))
  BY <1>t, <1>b, <1>v DEF swapPFConf
<1>4. /\ proc' \in [Procs -> Patched]
      /\ \A q \in Procs \ {p} : proc'[q] = proc[q]
  <2>1. PICK pc \in {"plist", "reload"} : pc = AfterPatch(p)
    BY DEF AfterPatch
  <2>2. PICK r : r = [proc[p] EXCEPT !.base = <<>>, !.text = <<>>, !.ours = vetted,
                                     !.changed = vetted, !.pc = pc]
    OBVIOUS
  <2>3. r \in Patched
    <3>1. <<>> \in Seq(Kinds)
      OBVIOUS
    <3>2. PICK e \in Seq(Kinds) : e = <<>>
      BY <3>1
    <3>3. proc[p] \in Steps /\ pc \in Pcs /\ pc \notin Filled
      BY <1>1, <2>1 DEF Patched, Pcs, Filled
    <3>4. r = [proc[p] EXCEPT !.base = e, !.text = e, !.ours = vetted, !.changed = vetted, !.pc = pc]
      BY <2>2, <3>2
    <3>5. r \in Steps /\ r.pc = pc
      BY <3>3, <3>4 DEF Steps
    <3> QED BY <3>3, <3>5 DEF Patched
  <2>4. proc' = [proc EXCEPT ![p] = r]
    BY <1>1, <1>t, <1>v, <2>1, <2>2 DEF swapPFConf, MacInv, MacTypes
  <2> QED BY <1>1, <2>3, <2>4, SetOne DEF MacInv, MacTypes
<1>5. MacTypes'
  <2>1. file' \in Seq(Kinds) /\ raced' \in BOOLEAN
    BY <1>2, <1>3 DEF MacInv, MacTypes, MacTypeOK
  <2> QED BY <1>4, <2>1 DEF swapPFConf, MacInv, MacTypes, MacTypeOK
<1>6. FileInv'
  <2>1. others' = others
    BY DEF swapPFConf
  <2> QED BY <1>2, <1>3, <1>v, <2>1 DEF MacInv, FileInv
<1>7. TrustInv'
  BY DEF swapPFConf, MacInv, TrustInv
<1>8. UninstallInv'
  <2>1. \A q \in Commands \ {p} : proc'[q] = proc[q]
    BY <1>4 DEF Commands
  <2>2. clean' = clean
    BY DEF swapPFConf
  <2> QED BY <1>1, <2>1, <2>2, OthersStep
<1> QED BY <1>5, <1>6, <1>7, <1>8 DEF MacInv

LEMMA LoadMainType ==
    ASSUME MacTypes
    PROVE  LoadMain(live) \in [call : BOOLEAN, guest : BOOLEAN, rules : Ports \cup {0}, on : BOOLEAN]
<1>1. HasLine(file, "vRdr") \in BOOLEAN
  BY DEF HasLine
<1>2. PICK b \in BOOLEAN : b = HasLine(file, "vRdr")
  BY <1>1
<1>3. PICK k \in Ports \cup {0} : k = IF HasLine(file, "vLoad") THEN anchor ELSE live.rules
  BY DEF MacTypes, MacTypeOK
<1>4. [live EXCEPT !.call = b, !.guest = FALSE, !.rules = k] \in
          [call : BOOLEAN, guest : BOOLEAN, rules : Ports \cup {0}, on : BOOLEAN]
  BY DEF MacTypes, MacTypeOK
<1> QED BY <1>2, <1>3, <1>4 DEF LoadMain, MacTypes, MacTypeOK

LEMMA ReloadKeeps ==
    ASSUME MacInv, NEW p \in Appliers, reloadMain(p)
    PROVE  MacInv'
<1>1. p \in Procs \ {"un"} /\ ~At(p, "idle")
  BY DEF Appliers, Procs, reloadMain, At
<1>2. /\ proc' \in [Procs -> Patched]
      /\ \A q \in Procs \ {p} : proc'[q] = proc[q]
  <2>1. Go(p, "load")
    BY DEF reloadMain
  <2>2. p \in Procs /\ proc \in [Procs -> Patched] /\ "load" \in Pcs /\ "load" \notin Filled
    BY <1>1 DEF MacInv, MacTypes, Pcs, Filled
  <2> QED BY <2>1, <2>2, GoSets
<1>3. MacTypes'
  <2>1. live' \in {live, LoadMain(live)}
    BY DEF reloadMain
  <2>2. live' \in [call : BOOLEAN, guest : BOOLEAN, rules : Ports \cup {0}, on : BOOLEAN]
    BY <2>1, LoadMainType DEF MacInv, MacTypes, MacTypeOK
  <2> QED BY <1>2, <2>2 DEF reloadMain, MacInv, MacTypes, MacTypeOK
<1>4. FileInv' /\ TrustInv'
  BY DEF reloadMain, MacInv, FileInv, TrustInv
<1>5. UninstallInv'
  <2>1. \A q \in Commands \ {p} : proc'[q] = proc[q]
    BY <1>2 DEF Commands
  <2>2. clean' = clean
    BY DEF reloadMain
  <2> QED BY <1>1, <2>1, <2>2, OthersStep
<1> QED BY <1>3, <1>4, <1>5 DEF MacInv

LEMMA LoadAnchorKeeps ==
    ASSUME MacInv, NEW p \in Appliers, loadAnchor(p)
    PROVE  MacInv'
<1>1. p \in Procs \ {"un"} /\ ~At(p, "idle")
  BY DEF Appliers, Procs, loadAnchor, At
<1>2. /\ proc' \in [Procs -> Patched]
      /\ \A q \in Procs \ {p} : proc'[q] = proc[q]
  <2>1. Go(p, "enable") \/ Quit(p)
    BY DEF loadAnchor
  <2>2. p \in Procs /\ proc \in [Procs -> Patched] /\ "enable" \in Pcs /\ "enable" \notin Filled
    BY <1>1 DEF MacInv, MacTypes, Pcs, Filled
  <2>3. CASE Go(p, "enable")
    BY <2>2, <2>3, GoSets
  <2>4. CASE Quit(p)
    BY <2>2, <2>4, QuitSets
  <2> QED BY <2>1, <2>3, <2>4
<1>3. MacTypes'
  <2>1. live' = live \/ live' = [live EXCEPT !.rules = anchor]
    BY DEF loadAnchor
  <2>2. live' \in [call : BOOLEAN, guest : BOOLEAN, rules : Ports \cup {0}, on : BOOLEAN]
    BY <2>1 DEF MacInv, MacTypes, MacTypeOK
  <2> QED BY <1>2, <2>2 DEF loadAnchor, MacInv, MacTypes, MacTypeOK
<1>4. FileInv' /\ TrustInv'
  BY DEF loadAnchor, MacInv, FileInv, TrustInv
<1>5. UninstallInv'
  <2>1. \A q \in Commands \ {p} : proc'[q] = proc[q]
    BY <1>2 DEF Commands
  <2>2. clean' = clean
    BY DEF loadAnchor
  <2> QED BY <1>1, <2>1, <2>2, OthersStep
<1> QED BY <1>3, <1>4, <1>5 DEF MacInv

LEMMA EnableKeeps ==
    ASSUME MacInv, NEW p \in Appliers, enablePF(p)
    PROVE  MacInv'
<1>1. p \in Procs \ {"un"} /\ ~At(p, "idle")
  BY DEF Appliers, Procs, enablePF, At
<1>2. /\ proc' \in [Procs -> Patched]
      /\ \A q \in Procs \ {p} : proc'[q] = proc[q]
  BY <1>1, QuitSets DEF enablePF, MacInv, MacTypes
<1>3. MacTypes'
  BY <1>2 DEF enablePF, MacInv, MacTypes, MacTypeOK
<1>4. FileInv' /\ TrustInv'
  BY DEF enablePF, MacInv, FileInv, TrustInv
<1>5. UninstallInv'
  <2>1. \A q \in Commands \ {p} : proc'[q] = proc[q]
    BY <1>2 DEF Commands
  <2>2. clean' = clean
    BY DEF enablePF
  <2> QED BY <1>1, <2>1, <2>2, OthersStep
<1> QED BY <1>3, <1>4, <1>5 DEF MacInv

LEMMA ReassertKeeps ==
    ASSUME MacInv, NEW p \in Appliers, reassertPFRules(p)
    PROVE  MacInv'
BY WriteAnchorKeeps, ReadKeeps, SwapKeeps, ReloadKeeps, LoadAnchorKeeps, EnableKeeps
   DEF reassertPFRules
------------------------------------------------------------------------------
(* A Mac: setup.                                                            *)

LEMMA SetupMoves ==
    ASSUME MacInv, ~At("setup", "idle"), NEW pc \in Pcs, pc \notin Filled,
           Go("setup", pc) \/ Quit("setup"), clean' = clean
    PROVE  proc' \in [Procs -> Patched] /\ UninstallInv'
<1>1. "setup" \in Procs \ {"un"} /\ proc \in [Procs -> Patched]
  BY DEF Procs, MacInv, MacTypes
<1>2. /\ proc' \in [Procs -> Patched]
      /\ \A q \in Procs \ {"setup"} : proc'[q] = proc[q]
  <2>1. CASE Go("setup", pc)
    BY <1>1, <2>1, GoSets
  <2>2. CASE Quit("setup")
    BY <1>1, <2>2, QuitSets
  <2> QED BY <2>1, <2>2
<1>3. \A q \in Commands \ {"setup"} : proc'[q] = proc[q]
  BY <1>2 DEF Commands
<1> QED BY <1>1, <1>2, <1>3, OthersStep

LEMMA EnsureCAType ==
    ASSUME MacTypes, EnsureCA(ca).made <= MaxCA
    PROVE  /\ EnsureCA(ca) \in [disk : 0..MaxCA, trusted : SUBSET (1..MaxCA), made : 0..MaxCA]
           /\ ca.disk # 0 => EnsureCA(ca) = ca
<1>1. ca \in [disk : 0..MaxCA, trusted : SUBSET (1..MaxCA), made : 0..MaxCA] /\ MaxCA \in Nat
  BY MacAssumption DEF MacTypes, MacTypeOK
<1>2. CASE ca.disk # 0
  BY <1>1, <1>2 DEF EnsureCA
<1>3. CASE ca.disk = 0
  <2>0. EnsureCA(ca).made = ca.made + 1
    BY <1>1, <1>3 DEF EnsureCA
  <2>1. PICK m \in 0..MaxCA : m = ca.made + 1
    BY <1>1, <2>0
  <2>2. PICK d : d = [ca EXCEPT !.disk = m]
    OBVIOUS
  <2>3. /\ d \in [disk : 0..MaxCA, trusted : SUBSET (1..MaxCA), made : 0..MaxCA]
        /\ d.made = ca.made
    BY <1>1, <2>2
  <2>4. EnsureCA(ca) = [d EXCEPT !.made = m]
    BY <1>3, <2>1, <2>2 DEF EnsureCA
  <2> QED BY <1>3, <2>3, <2>4
<1> QED BY <1>2, <1>3

\* Deleting by name leaves some of what was trusted.
LEMMA DeleteByNameType ==
    ASSUME NEW S, NEW T \in DeleteByName(S)
    PROVE  T \subseteq S
BY DEF DeleteByName

LEMMA DNSMasqKeeps ==
    ASSUME MacInv, configureDNSMasq
    PROVE  MacInv'
<1>1. proc' \in [Procs -> Patched] /\ UninstallInv'
  <2>1. ~At("setup", "idle") /\ Go("setup", "resolver") /\ clean' = clean
    BY DEF configureDNSMasq, At1, At
  <2>2. "resolver" \in Pcs /\ "resolver" \notin Filled
    BY DEF Pcs, Filled
  <2> QED BY <2>1, <2>2, SetupMoves
<1>2. MacTypes'
  <2>1. dns' \in [marker : 0..1, resolver : BOOLEAN]
    BY DEF configureDNSMasq, MacInv, MacTypes, MacTypeOK
  <2> QED BY <1>1, <2>1 DEF configureDNSMasq, MacInv, MacTypes, MacTypeOK
<1>3. FileInv' /\ TrustInv'
  BY DEF configureDNSMasq, At1, MacInv, FileInv, TrustInv
<1> QED BY <1>1, <1>2, <1>3 DEF MacInv

LEMMA ResolverKeeps ==
    ASSUME MacInv, createResolver
    PROVE  MacInv'
<1>1. proc' \in [Procs -> Patched] /\ UninstallInv'
  <2>1. ~At("setup", "idle") /\ Go("setup", "ports") /\ clean' = clean
    BY DEF createResolver, At1, At
  <2>2. "ports" \in Pcs /\ "ports" \notin Filled
    BY DEF Pcs, Filled
  <2> QED BY <2>1, <2>2, SetupMoves
<1>2. MacTypes'
  <2>1. dns' \in [marker : 0..1, resolver : BOOLEAN]
    BY DEF createResolver, MacInv, MacTypes, MacTypeOK
  <2> QED BY <1>1, <2>1 DEF createResolver, MacInv, MacTypes, MacTypeOK
<1>3. FileInv' /\ TrustInv'
  BY DEF createResolver, At1, MacInv, FileInv, TrustInv
<1> QED BY <1>1, <1>2, <1>3 DEF MacInv

LEMMA TLSConfigKeeps ==
    ASSUME MacInv, enableTLSConfig
    PROVE  MacInv'
<1>1. proc' \in [Procs -> Patched] /\ UninstallInv'
  <2>1. ~At("setup", "idle") /\ Go("setup", "agent") /\ clean' = clean
    BY DEF enableTLSConfig, At1, At
  <2>2. "agent" \in Pcs /\ "agent" \notin Filled
    BY DEF Pcs, Filled
  <2> QED BY <2>1, <2>2, SetupMoves
<1>2. MacTypes'
  <2>1. cfg' \in Ports
    BY MacAssumption DEF enableTLSConfig
  <2> QED BY <1>1, <2>1 DEF enableTLSConfig, MacInv, MacTypes, MacTypeOK
<1>3. FileInv' /\ TrustInv'
  BY DEF enableTLSConfig, At1, MacInv, FileInv, TrustInv
<1> QED BY <1>1, <1>2, <1>3 DEF MacInv

LEMMA AgentKeeps ==
    ASSUME MacInv, installLaunchAgent
    PROVE  MacInv'
<1>1. proc' \in [Procs -> Patched] /\ UninstallInv'
  <2>1. ~At("setup", "idle") /\ Go("setup", "verify") /\ clean' = clean
    BY DEF installLaunchAgent, At1, At
  <2>2. "verify" \in Pcs /\ "verify" \notin Filled
    BY DEF Pcs, Filled
  <2> QED BY <2>1, <2>2, SetupMoves
<1>2. MacTypes'
  BY <1>1 DEF installLaunchAgent, MacInv, MacTypes, MacTypeOK
<1>3. FileInv' /\ TrustInv'
  BY DEF installLaunchAgent, At1, MacInv, FileInv, TrustInv
<1> QED BY <1>1, <1>2, <1>3 DEF MacInv

LEMMA FinishKeeps ==
    ASSUME MacInv, finishSetup
    PROVE  MacInv'
<1>1. proc' \in [Procs -> Patched] /\ UninstallInv'
  <2>1. ~At("setup", "idle") /\ Quit("setup") /\ clean' = clean
    BY DEF finishSetup, At1, At
  <2>2. "idle" \in Pcs /\ "idle" \notin Filled
    BY DEF Pcs, Filled
  <2> QED BY <2>1, <2>2, SetupMoves
<1>2. MacTypes'
  BY <1>1 DEF finishSetup, MacInv, MacTypes, MacTypeOK
<1>3. FileInv' /\ TrustInv'
  BY DEF finishSetup, At1, MacInv, FileInv, TrustInv
<1> QED BY <1>1, <1>2, <1>3 DEF MacInv

\* A CA that is trusted is on disk, and one on disk is reused.
LEMMA EnsureCAKeeps ==
    ASSUME MacInv, EnsureCA(ca).made <= MaxCA, ca' = EnsureCA(ca), vouched' = vouched
    PROVE  /\ ca' \in [disk : 0..MaxCA, trusted : SUBSET (1..MaxCA), made : 0..MaxCA]
           /\ TrustInv'
<1>1. ca' \in [disk : 0..MaxCA, trusted : SUBSET (1..MaxCA), made : 0..MaxCA]
  BY EnsureCAType DEF MacInv
<1>2. TrustInv'
  <2> SUFFICES ASSUME vouched PROVE ca'.disk \in ca'.trusted
    BY DEF TrustInv
  <2>1. ca.disk \in ca.trusted
    BY DEF MacInv, TrustInv
  <2>2. ca.disk # 0
    BY <2>1, MacAssumption DEF MacInv, MacTypes, MacTypeOK
  <2>3. ca' = ca
    BY <2>2, EnsureCAType DEF MacInv
  <2> QED BY <2>1, <2>3
<1> QED BY <1>1, <1>2

LEMMA CertsKeep ==
    ASSUME MacInv, generateCerts
    PROVE  MacInv'
<1>1. proc' \in [Procs -> Patched] /\ UninstallInv'
  <2>1. ~At("setup", "idle") /\ Go("setup", "trust") /\ clean' = clean
    BY DEF generateCerts, At1, At
  <2>2. "trust" \in Pcs /\ "trust" \notin Filled
    BY DEF Pcs, Filled
  <2> QED BY <2>1, <2>2, SetupMoves
<1>2. ca' \in [disk : 0..MaxCA, trusted : SUBSET (1..MaxCA), made : 0..MaxCA] /\ TrustInv'
  BY EnsureCAKeeps DEF generateCerts
<1>3. MacTypes'
  BY <1>1, <1>2 DEF generateCerts, MacInv, MacTypes, MacTypeOK
<1>4. FileInv'
  BY DEF generateCerts, MacInv, FileInv
<1> QED BY <1>1, <1>2, <1>3, <1>4 DEF MacInv

LEMMA TrustKeeps ==
    ASSUME MacInv, TrustCA
    PROVE  MacInv'
<1>1. proc' \in [Procs -> Patched] /\ UninstallInv'
  <2>1. ~At("setup", "idle") /\ Go("setup", "tls") /\ clean' = clean
    BY DEF TrustCA, At1, At
  <2>2. "tls" \in Pcs /\ "tls" \notin Filled
    BY DEF Pcs, Filled
  <2> QED BY <2>1, <2>2, SetupMoves
<1>2. PICK T \in DeleteByName(ca.trusted) : ca' = [ca EXCEPT !.trusted = T \cup {ca.disk}]
  BY DEF TrustCA
<1>3. T \subseteq ca.trusted
  BY <1>2, DeleteByNameType
<1>4. PICK D : D = T \cup {ca.disk}
  OBVIOUS
<1>5. ca' = [ca EXCEPT !.trusted = D]
  BY <1>2, <1>4
<1>6. D \in SUBSET (1..MaxCA) /\ ca.disk \in D
  BY <1>3, <1>4, MacAssumption DEF TrustCA, MacInv, MacTypes, MacTypeOK
<1>7. /\ ca' \in [disk : 0..MaxCA, trusted : SUBSET (1..MaxCA), made : 0..MaxCA]
      /\ ca'.trusted = D /\ ca'.disk = ca.disk
  BY <1>5, <1>6 DEF MacInv, MacTypes, MacTypeOK
<1>8. MacTypes'
  BY <1>1, <1>7 DEF TrustCA, MacInv, MacTypes, MacTypeOK
<1>9. FileInv' /\ TrustInv'
  BY <1>6, <1>7 DEF TrustCA, MacInv, FileInv, TrustInv
<1> QED BY <1>1, <1>8, <1>9 DEF MacInv

LEMMA FailKeeps ==
    ASSUME MacInv, failSetup
    PROVE  MacInv'
<1>1. proc' \in [Procs -> Patched] /\ UninstallInv'
  <2>1. ~At("setup", "idle") /\ Quit("setup") /\ clean' = clean
    BY DEF failSetup, At
  <2>2. "idle" \in Pcs /\ "idle" \notin Filled
    BY DEF Pcs, Filled
  <2> QED BY <2>1, <2>2, SetupMoves
<1>2. /\ ca' \in [disk : 0..MaxCA, trusted : SUBSET (1..MaxCA), made : 0..MaxCA]
      /\ vouched' \in BOOLEAN /\ TrustInv'
  <2>1. CASE UNCHANGED <<ca, vouched>>
    BY <2>1 DEF MacInv, MacTypes, MacTypeOK, TrustInv
  <2>2. CASE /\ \E T \in DeleteByName(ca.trusted) : ca' = [ca EXCEPT !.trusted = T]
             /\ vouched' = FALSE
    <3>1. PICK T \in DeleteByName(ca.trusted) : ca' = [ca EXCEPT !.trusted = T]
      BY <2>2
    <3>2. T \in SUBSET (1..MaxCA)
      BY <3>1, DeleteByNameType DEF MacInv, MacTypes, MacTypeOK
    <3>3. ca' \in [disk : 0..MaxCA, trusted : SUBSET (1..MaxCA), made : 0..MaxCA]
      BY <3>1, <3>2 DEF MacInv, MacTypes, MacTypeOK
    <3> QED BY <2>2, <3>3 DEF TrustInv
  <2> QED BY <2>1, <2>2 DEF failSetup
<1>3. MacTypes'
  BY <1>1, <1>2 DEF failSetup, MacInv, MacTypes, MacTypeOK
<1>4. FileInv'
  BY DEF failSetup, MacInv, FileInv
<1> QED BY <1>1, <1>2, <1>3, <1>4 DEF MacInv

LEMMA PortsKeep ==
    ASSUME MacInv, configuredDaemonPorts
    PROVE  MacInv'
<1>1. "setup" \in Procs \ {"un"} /\ ~At("setup", "idle") /\ proc \in [Procs -> Patched]
  BY DEF configuredDaemonPorts, At1, At, Procs, MacInv, MacTypes
<1>2. PICK r : r = [proc["setup"] EXCEPT !.pc = "anchor", !.port = cfg]
  OBVIOUS
<1>3. r \in Patched
  <2>1. proc["setup"] \in Steps /\ cfg \in Ports \cup {0} /\ "anchor" \in Pcs
    BY <1>1 DEF Patched, MacInv, MacTypes, MacTypeOK, Pcs, Filled
  <2>2. r \in Steps /\ r.pc = "anchor"
    BY <1>2, <2>1 DEF Steps
  <2> QED BY <2>2 DEF Patched, Filled
<1>4. proc' = [proc EXCEPT !["setup"] = r]
  BY <1>1, <1>2 DEF configuredDaemonPorts
<1>5. /\ proc' \in [Procs -> Patched]
      /\ \A q \in Procs \ {"setup"} : proc'[q] = proc[q]
  BY <1>1, <1>3, <1>4, SetOne
<1>6. MacTypes'
  BY <1>5 DEF configuredDaemonPorts, MacInv, MacTypes, MacTypeOK
<1>7. FileInv' /\ TrustInv'
  BY DEF configuredDaemonPorts, MacInv, FileInv, TrustInv
<1>8. UninstallInv'
  <2>1. \A q \in Commands \ {"setup"} : proc'[q] = proc[q]
    BY <1>5 DEF Commands
  <2>2. clean' = clean
    BY DEF configuredDaemonPorts
  <2> QED BY <1>1, <2>1, <2>2, OthersStep
<1> QED BY <1>6, <1>7, <1>8 DEF MacInv

\* The new job, which may be running a pf-apply at once.
LEMMA LaunchDaemonKeeps ==
    ASSUME MacInv, installPFLaunchDaemon
    PROVE  MacInv'
<1>1. /\ "setup" \in Procs \ {"un"} /\ "net" \in Procs /\ ~At("setup", "idle")
      /\ proc \in [Procs -> Patched] /\ proc["setup"] \in Steps
  BY DEF installPFLaunchDaemon, At1, At, Procs, MacInv, MacTypes, Patched
<1>2. plist' = proc["setup"].port /\ plist' \in Ports \cup {0}
  BY <1>1 DEF installPFLaunchDaemon, Steps
<1>3. PICK port \in Ports \cup {0} : port = plist'
  BY <1>2
<1>4. PICK s \in Patched, n \in Patched : proc' = [proc EXCEPT !["setup"] = s, !["net"] = n]
  <2>1. CASE proc' = [proc EXCEPT !["setup"].pc = "certs",
                                  !["net"] = [Idle EXCEPT !.pc = "anchor", !.port = plist']]
    <3>1. PICK s : s = [proc["setup"] EXCEPT !.pc = "certs"]
      OBVIOUS
    <3>2. PICK n : n = [Idle EXCEPT !.pc = "anchor", !.port = port]
      OBVIOUS
    <3>3. s \in Patched
      <4>1. "certs" \in Pcs /\ "certs" \notin Filled
        BY DEF Pcs, Filled
      <4>2. proc["setup"] \in Patched
        BY <1>1
      <4> QED BY <3>1, <4>1, <4>2, SetPc
    <3>4. n \in Patched
      <4>1. Idle \in Steps /\ "anchor" \in Pcs
        BY IdleIsPatched DEF Patched, Pcs, Filled
      <4>2. n \in Steps /\ n.pc = "anchor"
        BY <3>2, <4>1 DEF Steps
      <4> QED BY <4>2 DEF Patched, Filled
    <3>5. proc' = [proc EXCEPT !["setup"] = s, !["net"] = n]
      BY <1>1, <1>3, <2>1, <3>1, <3>2
    <3> QED BY <3>3, <3>4, <3>5
  <2>2. CASE proc' = [proc EXCEPT !["setup"] = Idle, !["net"] = Idle]
    BY <2>2, IdleIsPatched
  <2> QED BY <2>1, <2>2 DEF installPFLaunchDaemon
<1>5. /\ proc' \in [Procs -> Patched]
      /\ \A q \in Commands \ {"setup"} : proc'[q] = proc[q]
  BY <1>1, <1>4 DEF Commands
<1>6. MacTypes'
  BY <1>2, <1>5 DEF installPFLaunchDaemon, MacInv, MacTypes, MacTypeOK
<1>7. FileInv' /\ TrustInv'
  BY DEF installPFLaunchDaemon, MacInv, FileInv, TrustInv
<1>8. UninstallInv'
  <2>1. clean' = clean
    BY DEF installPFLaunchDaemon
  <2> QED BY <1>1, <1>5, <2>1, OthersStep
<1> QED BY <1>6, <1>7, <1>8 DEF MacInv

LEMMA SetupKeeps ==
    ASSUME MacInv, SetupStep
    PROVE  MacInv'
<1>1. "setup" \in Appliers
  BY DEF Appliers
<1> QED BY <1>1, DNSMasqKeeps, ResolverKeeps, PortsKeep, WriteAnchorKeeps, ReadKeeps, SwapKeeps,
           LaunchDaemonKeeps, CertsKeep, TrustKeeps, TLSConfigKeeps, AgentKeeps, FinishKeeps,
           FailKeeps DEF SetupStep

------------------------------------------------------------------------------
(* A Mac: uninstall, and what else happens.                                 *)

\* While uninstall runs no other command does.
LEMMA Uninstalling ==
    ASSUME MacInv, ~At("un", "idle")
    PROVE  /\ ~clean /\ "un" \in Procs /\ "un" \in Commands
           /\ \A c \in Commands \ {"un"} : proc[c].pc = "idle"
<1>1. "un" \in Procs /\ "un" \in Commands
  BY DEF Procs, Commands
<1> QED BY <1>1 DEF MacInv, UninstallInv, At

LEMMA EventsType ==
    ASSUME MacTypes, NEW done \in BOOLEAN, Succeeds(done)
    PROVE  events' \in 0..MaxEvents
BY MacAssumption DEF Succeeds, MacTypes, MacTypeOK

\* The uninstall's steps move it alone, ...
LEMMA UninstallMoves ==
    ASSUME MacInv, ~At("un", "idle"), NEW r \in Patched, proc' = [proc EXCEPT !["un"] = r]
    PROVE  /\ proc' \in [Procs -> Patched] /\ proc'["un"] = r
           /\ \A c \in Commands \ {"un"} : proc'[c].pc = "idle"
           /\ proc'["net"] = proc["net"]
<1>1. /\ "un" \in Procs /\ proc \in [Procs -> Patched]
      /\ \A c \in Commands \ {"un"} : proc[c].pc = "idle"
  BY Uninstalling DEF MacInv, MacTypes
<1>2. /\ proc' \in [Procs -> Patched] /\ proc'["un"] = r
      /\ \A q \in Procs \ {"un"} : proc'[q] = proc[q]
  BY <1>1, SetOne
<1>3. \A c \in Commands \ {"un"} : proc'[c].pc = "idle"
  BY <1>1, <1>2 DEF Commands
<1>4. proc'["net"] = proc["net"]
  BY <1>2 DEF Procs
<1> QED BY <1>2, <1>3, <1>4

\* ... and note a failure for good.
LEMMA UninstallGoesOn ==
    ASSUME MacInv, ~At("un", "idle"), NEW pc \in Pcs, pc \notin Filled, NEW done \in BOOLEAN,
           GoOn(pc, done)
    PROVE  /\ proc' \in [Procs -> Patched] /\ proc'["un"].pc = pc
           /\ ~proc'["un"].failed => ~proc["un"].failed /\ done
           /\ \A c \in Commands \ {"un"} : proc'[c].pc = "idle"
           /\ proc'["net"] = proc["net"]
           /\ events' \in 0..MaxEvents
<1>1. "un" \in Procs /\ proc["un"] \in Patched /\ proc["un"].failed \in BOOLEAN
  BY Uninstalling DEF MacInv, MacTypes, Patched, Steps
<1>2. PICK f \in BOOLEAN : f = (proc["un"].failed \/ ~done)
  BY <1>1
<1>3. PICK r : r = [proc["un"] EXCEPT !.pc = pc, !.failed = f]
  OBVIOUS
<1>4. r \in Patched /\ r.pc = pc /\ r.failed = f
  BY <1>1, <1>3 DEF Patched, Steps, Filled
<1>5. proc' = [proc EXCEPT !["un"] = r]
  BY <1>1, <1>2, <1>3 DEF GoOn
<1>6. /\ proc' \in [Procs -> Patched] /\ proc'["un"] = r
      /\ \A c \in Commands \ {"un"} : proc'[c].pc = "idle"
      /\ proc'["net"] = proc["net"]
  BY <1>4, <1>5, UninstallMoves
<1>7. events' \in 0..MaxEvents
  BY EventsType DEF GoOn, MacInv
<1> QED BY <1>2, <1>4, <1>6, <1>7

\* What such a step has to leave behind.
LEMMA UninstallInvIf ==
    ASSUME ~clean', \A c \in Commands \ {"un"} : proc'[c].pc = "idle",
           Past({"agents"})' => JobsGone',
           Past({"agents", "flush"})' => RulesGone',
           Past({"agents", "flush", "strip", "write"})' => LinesGone'
    PROVE  UninstallInv'
BY DEF UninstallInv, At

LEMMA UnloadJobsKeeps ==
    ASSUME MacInv, unloadJobs
    PROVE  MacInv'
<1>1. /\ ~clean /\ "un" \in Procs /\ "net" \in Procs /\ "un" # "net"
      /\ \A c \in Commands \ {"un"} : proc[c].pc = "idle"
      /\ proc \in [Procs -> Patched]
  BY Uninstalling DEF unloadJobs, At2, At, Procs, MacInv, MacTypes
<1>2. PICK net \in {proc["net"], Idle}, done \in BOOLEAN :
          /\ done <=> (agent' = "absent" /\ plist' = 0 /\ net = Idle)
          /\ Succeeds(done)
          /\ proc' = [proc EXCEPT !["un"].pc = "flush", !["un"].failed = ~done, !["net"] = net]
  BY DEF unloadJobs
<1>3. PICK f \in BOOLEAN : f = ~done
  OBVIOUS
<1>4. PICK u : u = [proc["un"] EXCEPT !.pc = "flush", !.failed = f]
  OBVIOUS
<1>5. u \in Patched /\ u.pc = "flush" /\ u.failed = f
  <2>1. proc["un"] \in Steps /\ "flush" \in Pcs /\ "flush" \notin Filled /\ "flush" # "write"
    BY <1>1 DEF Patched, Pcs, Filled
  <2>2. u \in Steps /\ u.pc = "flush" /\ u.failed = f
    BY <1>4, <2>1 DEF Steps
  <2> QED BY <2>1, <2>2 DEF Patched
<1>6. net \in Patched
  BY <1>1, IdleIsPatched
<1>7. proc' = [proc EXCEPT !["un"] = u, !["net"] = net]
  BY <1>1, <1>2, <1>3, <1>4
<1>8. /\ proc' \in [Procs -> Patched] /\ proc'["un"] = u /\ proc'["net"] = net
      /\ \A q \in Procs \ {"un", "net"} : proc'[q] = proc[q]
  BY <1>1, <1>5, <1>6, <1>7
<1>9. MacTypes'
  <2>1. events' \in 0..MaxEvents
    BY <1>2, EventsType DEF MacInv
  <2>2. plist' \in Ports \cup {0} /\ agent' \in {"absent", "stopped", "loaded"}
    BY DEF unloadJobs, MacInv, MacTypes, MacTypeOK
  <2> QED BY <1>8, <2>1, <2>2 DEF unloadJobs, MacInv, MacTypes, MacTypeOK
<1>10. FileInv' /\ TrustInv'
  BY DEF unloadJobs, MacInv, FileInv, TrustInv
<1>11. UninstallInv'
  <2>1. \A c \in Commands \ {"un"} : proc'[c].pc = "idle"
    BY <1>1, <1>8 DEF Commands
  <2>2. ~clean' /\ proc'["un"].pc = "flush"
    BY <1>1, <1>5, <1>8 DEF unloadJobs
  <2>3. Past({"agents"})' => JobsGone'
    <3>1. Past({"agents"})' => plist' = 0 /\ proc'["net"] = Idle
      BY <1>2, <1>3, <1>5, <1>8 DEF Past
    <3>2. Idle.pc = "idle"
      BY DEF Idle
    <3> QED BY <3>1, <3>2 DEF JobsGone, At
  <2>4. ~Past({"agents", "flush"})' /\ ~Past({"agents", "flush", "strip", "write"})'
    BY <2>2 DEF Past
  <2> QED BY <2>1, <2>2, <2>3, <2>4, UninstallInvIf
<1> QED BY <1>9, <1>10, <1>11 DEF MacInv

LEMMA FlushKeeps ==
    ASSUME MacInv, flushAnchor
    PROVE  MacInv'
<1>1. /\ proc["un"].pc = "flush" /\ ~At("un", "idle")
      /\ "strip" \in Pcs /\ "strip" \notin Filled
  BY DEF flushAnchor, At2, At, Pcs, Filled
<1>2. PICK rules \in {live.rules, 0}, done \in BOOLEAN :
          /\ live' = [live EXCEPT !.rules = rules]
          /\ done <=> (rules = 0 /\ anchor' = 0)
          /\ GoOn("strip", done)
  BY DEF flushAnchor
<1>3. /\ proc' \in [Procs -> Patched] /\ proc'["un"].pc = "strip"
      /\ ~proc'["un"].failed => ~proc["un"].failed /\ done
      /\ \A c \in Commands \ {"un"} : proc'[c].pc = "idle"
      /\ proc'["net"] = proc["net"]
      /\ events' \in 0..MaxEvents
  BY <1>1, <1>2, UninstallGoesOn
<1>4. /\ live' \in [call : BOOLEAN, guest : BOOLEAN, rules : Ports \cup {0}, on : BOOLEAN]
      /\ live'.rules = rules /\ anchor' \in Ports \cup {0}
  BY <1>2 DEF flushAnchor, MacInv, MacTypes, MacTypeOK
<1>5. MacTypes'
  BY <1>3, <1>4 DEF flushAnchor, MacInv, MacTypes, MacTypeOK
<1>6. FileInv' /\ TrustInv'
  BY DEF flushAnchor, MacInv, FileInv, TrustInv
<1>7. UninstallInv'
  <2>1. ~clean'
    BY <1>1, Uninstalling DEF flushAnchor
  <2>2. Past({"agents"})' => JobsGone'
    <3>1. Past({"agents"})' => Past({"agents"})
      BY <1>1, <1>3 DEF Past
    <3> QED BY <1>3, <3>1 DEF MacInv, UninstallInv, JobsGone, At, flushAnchor
  <2>3. Past({"agents", "flush"})' => RulesGone'
    BY <1>2, <1>3, <1>4 DEF Past, RulesGone
  <2>4. ~Past({"agents", "flush", "strip", "write"})'
    BY <1>3 DEF Past
  <2> QED BY <1>3, <2>1, <2>2, <2>3, <2>4, UninstallInvIf
<1> QED BY <1>5, <1>6, <1>7 DEF MacInv

\* pf.conf is read: a text without our lines is held, or there is none to write.
LEMMA ReadToStripKeeps ==
    ASSUME MacInv, readToStrip
    PROVE  MacInv'
<1>1. /\ proc["un"].pc = "strip" /\ ~At("un", "idle")
      /\ "rest" \in Pcs /\ "rest" \notin Filled
  BY DEF readToStrip, At2, At, Pcs, Filled
<1>2. /\ proc["un"] \in Steps /\ "un" \in Procs /\ ~clean
      /\ file \in Seq(Kinds) /\ events \in 0..MaxEvents
  BY <1>1, Uninstalling DEF MacInv, MacTypes, MacTypeOK, Patched
<1>t. PICK text : text = stripPFConf(file)
  OBVIOUS
<1>3. text \in Seq(Theirs) /\ text \in Seq(Kinds) /\ Loadable(text) /\ stripPFConf(text) = text
  <2>1. text \in Seq(Theirs)
    BY <1>2, <1>t, StripType
  <2>2. Loadable(text)
    BY <1>2, <1>t, StrippedLoads DEF stripPFConf, MacInv, FileInv
  <2> QED BY <2>1, <2>2, TheirsAreKinds
<1>4. /\ proc' \in [Procs -> Patched] /\ proc'["un"].pc \in {"write", "rest"}
      /\ ~proc'["un"].failed => ~proc["un"].failed
      /\ (~proc'["un"].failed /\ proc'["un"].pc = "rest") => text = file
      /\ \A c \in Commands \ {"un"} : proc'[c].pc = "idle"
      /\ proc'["net"] = proc["net"]
      /\ events' \in 0..MaxEvents
  <2>1. CASE /\ proc' = [proc EXCEPT !["un"].pc = "write", !["un"].base = file,
                                     !["un"].text = stripPFConf(file)]
             /\ UNCHANGED events
    <3>1. PICK r : r = [proc["un"] EXCEPT !.pc = "write", !.base = file, !.text = text]
      OBVIOUS
    <3>2. /\ r \in Steps /\ r.pc = "write" /\ r.base = file /\ r.text = text
          /\ r.failed = proc["un"].failed
      <4>1. "write" \in Pcs
        BY DEF Pcs
      <4> QED BY <1>2, <1>3, <3>1, <4>1 DEF Steps
    <3>3. r \in Patched
      BY <1>t, <1>3, <3>2 DEF Patched
    <3>4. proc' = [proc EXCEPT !["un"] = r]
      BY <1>2, <1>t, <2>1, <3>1 DEF MacInv, MacTypes
    <3>5. /\ proc' \in [Procs -> Patched] /\ proc'["un"] = r
          /\ \A c \in Commands \ {"un"} : proc'[c].pc = "idle"
          /\ proc'["net"] = proc["net"]
      BY <1>1, <3>3, <3>4, UninstallMoves
    <3> QED BY <1>2, <2>1, <3>2, <3>5
  <2>2. CASE text = file /\ GoOn("rest", TRUE)
    BY <1>1, <2>2, UninstallGoesOn
  <2>3. CASE GoOn("rest", FALSE)
    BY <1>1, <2>3, UninstallGoesOn
  <2> QED BY <1>t, <2>1, <2>2, <2>3 DEF readToStrip
<1>5. MacTypes'
  BY <1>4 DEF readToStrip, MacInv, MacTypes, MacTypeOK
<1>6. FileInv' /\ TrustInv'
  BY DEF readToStrip, MacInv, FileInv, TrustInv
<1>7. UninstallInv'
  <2>1. ~clean'
    BY <1>2 DEF readToStrip
  <2>2. Past({"agents"})' => JobsGone'
    <3>1. Past({"agents"})' => Past({"agents"})
      BY <1>1, <1>4 DEF Past
    <3> QED BY <1>4, <3>1 DEF MacInv, UninstallInv, JobsGone, At, readToStrip
  <2>3. Past({"agents", "flush"})' => RulesGone'
    <3>1. Past({"agents", "flush"})' => Past({"agents", "flush"})
      BY <1>1, <1>4 DEF Past
    <3> QED BY <3>1 DEF MacInv, UninstallInv, RulesGone, readToStrip
  <2>4. Past({"agents", "flush", "strip", "write"})' => LinesGone'
    <3>1. Past({"agents", "flush", "strip", "write"})' => file \in Seq(Theirs)
      BY <1>3, <1>4 DEF Past
    <3>2. file \in Seq(Theirs) => LinesGone
      BY StripLeavesNeither DEF LinesGone
    <3>3. LinesGone => LinesGone'
      BY DEF LinesGone, readToStrip
    <3> QED BY <3>1, <3>2, <3>3
  <2> QED BY <1>4, <2>1, <2>2, <2>3, <2>4, UninstallInvIf
<1> QED BY <1>5, <1>6, <1>7 DEF MacInv

\* The text is written, or what is there stays, or it is cut off.
LEMMA RestoreKeeps ==
    ASSUME MacInv, restorePFConf
    PROVE  MacInv'
<1>1. proc["un"].pc = "write" /\ ~At("un", "idle")
  BY DEF restorePFConf, At2, At
<1>2. /\ "un" \in Procs /\ ~clean /\ proc["un"] \in Patched /\ proc["un"] \in Steps
      /\ proc["un"].failed \in BOOLEAN /\ file \in Seq(Kinds)
  BY <1>1, Uninstalling DEF MacInv, MacTypes, MacTypeOK, Patched, Steps
<1>b. PICK base : base = proc["un"].base
  OBVIOUS
<1>t. PICK text : text = proc["un"].text
  OBVIOUS
<1>3. text \in Seq(Theirs) /\ Loadable(text) /\ stripPFConf(text) = stripPFConf(base)
  BY <1>1, <1>2, <1>b, <1>t DEF Patched, Filled
<1>4. text \in Seq(Kinds) /\ stripPFConf(text) = text
  BY <1>3, TheirsAreKinds
<1>5. PICK kept \in {text, file, <<>>}, done \in BOOLEAN :
          /\ done <=> kept = text
          /\ Succeeds(done)
          /\ file' = kept
          /\ raced' = (raced \/ (done /\ stripPFConf(base) # stripPFConf(file))
                             \/ (~done /\ kept # file))
          /\ proc' = [proc EXCEPT !["un"].base = <<>>, !["un"].text = <<>>,
                         !["un"].pc = IF done THEN "unload" ELSE "rest",
                         !["un"].failed = @ \/ ~done]
  BY <1>b, <1>t DEF restorePFConf
<1>6. PICK f \in BOOLEAN, pc \in {"unload", "rest"} :
          f = (proc["un"].failed \/ ~done) /\ pc = IF done THEN "unload" ELSE "rest"
  BY <1>2
<1>7. PICK e \in Seq(Kinds) : e = <<>> /\ Loadable(e)
  <2>1. <<>> \in Seq(Kinds) /\ Loadable(<<>>)
    BY DEF Loadable
  <2> QED BY <2>1
<1>8. PICK r : r = [proc["un"] EXCEPT !.base = e, !.text = e, !.pc = pc, !.failed = f]
  OBVIOUS
<1>9. r \in Patched /\ r.pc = pc /\ r.failed = f
  <2>1. pc \in Pcs /\ pc \notin Filled
    BY DEF Pcs, Filled
  <2>2. r \in Steps /\ r.pc = pc /\ r.failed = f
    BY <1>2, <1>7, <1>8, <2>1 DEF Steps
  <2> QED BY <2>1, <2>2 DEF Patched, Filled
<1>10. proc' = [proc EXCEPT !["un"] = r]
  <2>1. proc' = [proc EXCEPT !["un"].base = e, !["un"].text = e, !["un"].pc = pc, !["un"].failed = f]
    BY <1>5, <1>6, <1>7, <1>2 DEF MacInv, MacTypes
  <2> QED BY <2>1, <1>8
<1>11. /\ proc' \in [Procs -> Patched] /\ proc'["un"] = r
       /\ \A c \in Commands \ {"un"} : proc'[c].pc = "idle"
       /\ proc'["net"] = proc["net"]
  BY <1>1, <1>9, <1>10, UninstallMoves
<1>12. MacTypes'
  <2>1. events' \in 0..MaxEvents
    BY <1>5, EventsType DEF MacInv
  <2>2. file' \in Seq(Kinds)
    BY <1>2, <1>4, <1>5, <1>7
  <2>3. raced' \in BOOLEAN
    BY <1>5 DEF MacInv, MacTypes, MacTypeOK
  <2> QED BY <1>11, <2>1, <2>2, <2>3 DEF restorePFConf, MacInv, MacTypes, MacTypeOK
<1>13. FileInv'
  <2>1. Loadable(file')
    BY <1>3, <1>5, <1>7 DEF MacInv, FileInv
  <2>2. raced' \/ stripPFConf(file') = others
    <3>1. raced \/ stripPFConf(file) = others
      BY DEF MacInv, FileInv
    <3>2. CASE done
      BY <1>3, <1>5, <3>1, <3>2
    <3>3. CASE ~done
      BY <1>5, <3>1, <3>3
    <3> QED BY <3>2, <3>3
  <2> QED BY <2>1, <2>2 DEF FileInv, restorePFConf
<1>14. TrustInv'
  BY DEF restorePFConf, MacInv, TrustInv
<1>15. UninstallInv'
  <2>1. ~clean'
    BY <1>2 DEF restorePFConf
  <2>2. ~proc'["un"].failed => ~proc["un"].failed /\ done
    BY <1>6, <1>9, <1>11
  <2>3. Past({"agents"})' => JobsGone'
    <3>1. Past({"agents"})' => Past({"agents"})
      BY <1>1, <2>2 DEF Past
    <3> QED BY <1>11, <3>1 DEF MacInv, UninstallInv, JobsGone, At, restorePFConf
  <2>4. Past({"agents", "flush"})' => RulesGone'
    <3>1. Past({"agents", "flush"})' => Past({"agents", "flush"})
      BY <1>1, <2>2 DEF Past
    <3> QED BY <3>1 DEF MacInv, UninstallInv, RulesGone, restorePFConf
  <2>5. Past({"agents", "flush", "strip", "write"})' => LinesGone'
    <3>1. ~proc'["un"].failed => file' \in Seq(Theirs)
      BY <1>3, <1>5, <2>2
    <3>2. file' \in Seq(Theirs) => LinesGone'
      BY StripLeavesNeither DEF LinesGone
    <3> QED BY <3>1, <3>2 DEF Past
  <2> QED BY <1>11, <2>1, <2>3, <2>4, <2>5, UninstallInvIf
<1> QED BY <1>12, <1>13, <1>14, <1>15 DEF MacInv

\* Loading a file that does not name the anchor, or whose anchor file is gone,
\* leaves the rules as they are.
LEMMA LoadMainSpares ==
    ASSUME RulesGone
    PROVE  LoadMain(live).rules = 0 \/ LoadMain(live) = live
<1>1. CASE HasLine(file, "vLoad")
  BY <1>1 DEF LoadMain, RulesGone
<1>2. CASE ~HasLine(file, "vLoad")
  BY <1>2 DEF LoadMain, RulesGone
<1> QED BY <1>1, <1>2

LEMMA ReloadStrippedKeeps ==
    ASSUME MacInv, reloadStripped
    PROVE  MacInv'
<1>1. /\ proc["un"].pc = "unload" /\ ~At("un", "idle")
      /\ "rest" \in Pcs /\ "rest" \notin Filled
  BY DEF reloadStripped, At2, At, Pcs, Filled
<1>2. PICK done \in BOOLEAN : live' \in {live, LoadMain(live)} /\ GoOn("rest", done)
  BY DEF reloadStripped
<1>3. /\ proc' \in [Procs -> Patched] /\ proc'["un"].pc = "rest"
      /\ ~proc'["un"].failed => ~proc["un"].failed /\ done
      /\ \A c \in Commands \ {"un"} : proc'[c].pc = "idle"
      /\ proc'["net"] = proc["net"]
      /\ events' \in 0..MaxEvents
  BY <1>1, <1>2, UninstallGoesOn
<1>4. live' \in [call : BOOLEAN, guest : BOOLEAN, rules : Ports \cup {0}, on : BOOLEAN]
  BY <1>2, LoadMainType DEF MacInv, MacTypes, MacTypeOK
<1>5. MacTypes'
  BY <1>3, <1>4 DEF reloadStripped, MacInv, MacTypes, MacTypeOK
<1>6. FileInv' /\ TrustInv'
  BY DEF reloadStripped, MacInv, FileInv, TrustInv
<1>7. UninstallInv'
  <2>1. ~clean'
    BY <1>1, Uninstalling DEF reloadStripped
  <2>2. Past({"agents"})' => JobsGone'
    <3>1. Past({"agents"})' => Past({"agents"})
      BY <1>1, <1>3 DEF Past
    <3> QED BY <1>3, <3>1 DEF MacInv, UninstallInv, JobsGone, At, reloadStripped
  <2>3. Past({"agents", "flush"})' => RulesGone'
    <3>1. Past({"agents", "flush"})' => RulesGone
      BY <1>1, <1>3 DEF Past, MacInv, UninstallInv
    <3> QED BY <1>2, <3>1, LoadMainSpares DEF RulesGone, reloadStripped
  <2>4. Past({"agents", "flush", "strip", "write"})' => LinesGone'
    <3>1. Past({"agents", "flush", "strip", "write"})' => LinesGone
      BY <1>1, <1>3 DEF Past, MacInv, UninstallInv
    <3> QED BY <3>1 DEF LinesGone, reloadStripped
  <2> QED BY <1>3, <2>1, <2>2, <2>3, <2>4, UninstallInvIf
<1> QED BY <1>5, <1>6, <1>7 DEF MacInv

LEMMA RemoveRestKeeps ==
    ASSUME MacInv, removeRest
    PROVE  MacInv'
<1>1. proc["un"].pc = "rest" /\ ~At("un", "idle")
  BY DEF removeRest, At2, At
<1>2. /\ "un" \in Procs /\ proc \in [Procs -> Patched] /\ Quit("un")
      /\ \A c \in Commands \ {"un"} : proc[c].pc = "idle"
      /\ proc["un"].failed \in BOOLEAN
  BY <1>1, Uninstalling DEF removeRest, MacInv, MacTypes, Patched, Steps
<1>3. /\ proc' \in [Procs -> Patched] /\ proc'["un"] = Idle
      /\ \A q \in Procs \ {"un"} : proc'[q] = proc[q]
  BY <1>2, QuitSets
<1>4. ca' \in [disk : 0..MaxCA, trusted : SUBSET (1..MaxCA), made : 0..MaxCA]
  <2>1. PICK T \in SUBSET ca.trusted, disk \in {ca.disk, 0} :
            ca' = [ca EXCEPT !.trusted = T, !.disk = disk]
    BY DEF removeRest, DeleteByName
  <2>2. T \in SUBSET (1..MaxCA) /\ disk \in 0..MaxCA
    BY MacAssumption DEF MacInv, MacTypes, MacTypeOK
  <2> QED BY <2>1, <2>2 DEF MacInv, MacTypes, MacTypeOK
<1>5. PICK done \in BOOLEAN :
          /\ done => ~dns'.resolver
          /\ Succeeds(done) /\ clean' = (done /\ ~proc["un"].failed)
  BY DEF removeRest
<1>6. MacTypes'
  <2>1. dns' \in [marker : 0..1, resolver : BOOLEAN]
    BY DEF removeRest, MacInv, MacTypes, MacTypeOK
  <2>2. events' \in 0..MaxEvents
    BY <1>5, EventsType DEF MacInv
  <2>3. clean' \in BOOLEAN
    BY <1>5, <1>2
  <2> QED BY <1>3, <1>4, <2>1, <2>2, <2>3 DEF removeRest, MacInv, MacTypes, MacTypeOK
<1>7. FileInv' /\ TrustInv'
  BY DEF removeRest, MacInv, FileInv, TrustInv
<1>8. UninstallInv'
  <2>1. \A c \in Commands : proc'[c].pc = "idle"
    BY <1>2, <1>3 DEF Commands, Idle
  <2>2. proc'["net"] = proc["net"] /\ proc'["un"].pc = "idle"
    BY <1>3 DEF Procs, Idle
  <2>3. clean' => JobsGone' /\ RulesGone' /\ LinesGone' /\ ~dns'.resolver
    <3>1. clean' => JobsGone /\ RulesGone /\ LinesGone /\ ~dns'.resolver
      BY <1>1, <1>5 DEF MacInv, UninstallInv, Past
    <3> QED BY <2>2, <3>1 DEF JobsGone, RulesGone, LinesGone, At, removeRest
  <2> QED BY <2>1, <2>2, <2>3 DEF UninstallInv, At, Past
<1> QED BY <1>6, <1>7, <1>8 DEF MacInv

LEMMA UninstallKeeps ==
    ASSUME MacInv, UninstallStep
    PROVE  MacInv'
BY UnloadJobsKeeps, FlushKeeps, ReadToStripKeeps, RestoreKeeps, ReloadStrippedKeeps,
   RemoveRestKeeps DEF UninstallStep

\* An event that moves no process: what is gone may only stay gone.
LEMMA NoProcessMoves ==
    ASSUME MacInv, UNCHANGED <<proc, plist, dns, clean>>,
           RulesGone => RulesGone', LinesGone => LinesGone'
    PROVE  UninstallInv'
BY DEF MacInv, UninstallInv, JobsGone, At, Past

LEMMA DisturbPFKeeps ==
    ASSUME MacInv, DisturbPF, UNCHANGED anchor
    PROVE  /\ file' \in Seq(Kinds) /\ others' \in Seq(Theirs) /\ raced' \in BOOLEAN
           /\ live' \in [call : BOOLEAN, guest : BOOLEAN, rules : Ports \cup {0}, on : BOOLEAN]
           /\ FileInv'
           /\ RulesGone => RulesGone'
           /\ LinesGone => LinesGone'
<1>1. /\ file \in Seq(Kinds) /\ others \in Seq(Theirs) /\ raced \in BOOLEAN
      /\ live \in [call : BOOLEAN, guest : BOOLEAN, rules : Ports \cup {0}, on : BOOLEAN]
      /\ Loadable(file) /\ (raced \/ stripPFConf(file) = others)
  BY DEF MacInv, MacTypes, MacTypeOK, FileInv
<1>2. CASE (\E c \in Stock : file' = c /\ others' = c) /\ raced' = FALSE /\ live' = live
  <2>1. file' \in Seq(Theirs) /\ Loadable(file') /\ others' = file'
    BY <1>2, StockAssumption
  <2>2. file' \in Seq(Kinds) /\ stripPFConf(file') = file'
    BY <2>1, TheirsAreKinds
  <2>3. LinesGone'
    BY <2>1, StripLeavesNeither DEF LinesGone
  <2> QED BY <1>1, <1>2, <2>1, <2>2, <2>3 DEF FileInv, RulesGone
<1>3. CASE file' = Without(file, {"vRdr"}) /\ UNCHANGED <<others, raced, live>>
  <2>1. file' \in Seq(Kinds)
    BY <1>1, <1>3, WithoutStays
  <2>2. Loadable(file')
    BY <1>1, <1>3, StrippedLoads
  <2>3. stripPFConf(file') = stripPFConf(file)
    <3>1. {"vRdr"} \subseteq Ours
      BY DEF Ours
    <3>2. Without(Without(file, {"vRdr"}), Ours) = Without(file, Ours)
      BY <1>1, <3>1, WithoutTwice
    <3> QED BY <1>3, <3>2 DEF stripPFConf, Ours
  <2>4. LinesGone => LinesGone'
    <3> SUFFICES ASSUME LinesGone PROVE LinesGone'
      OBVIOUS
    <3>1. \A i \in 1..Len(file) : file[i] \in Theirs
      BY <1>1 DEF LinesGone, HasLine, Kinds
    <3>2. file \in Seq(Theirs)
      BY <1>1, <3>1
    <3>3. Without(file, {"vRdr"}) = file
      <4>1. Theirs \cap {"vRdr"} = {}
        BY DEF Theirs
      <4> QED BY <3>2, <4>1, WithoutNothing
    <3> QED BY <1>3, <3>3 DEF LinesGone
  <2> QED BY <1>1, <1>3, <2>1, <2>2, <2>3, <2>4 DEF FileInv, RulesGone
<1>4. CASE /\ live' \in {[live EXCEPT !.call = FALSE], [live EXCEPT !.call = FALSE, !.guest = TRUE],
                          [LoadMain(live) EXCEPT !.on = FALSE], LoadMain(live)}
           /\ UNCHANGED <<file, others, raced>>
  <2>1. LoadMain(live) \in [call : BOOLEAN, guest : BOOLEAN, rules : Ports \cup {0}, on : BOOLEAN]
    BY LoadMainType DEF MacInv
  <2>2. PICK l : l = LoadMain(live)
    OBVIOUS
  <2>3. live' \in [call : BOOLEAN, guest : BOOLEAN, rules : Ports \cup {0}, on : BOOLEAN]
    BY <1>1, <1>4, <2>1, <2>2
  <2>4. RulesGone => RulesGone'
    <3> SUFFICES ASSUME RulesGone PROVE live'.rules = 0
      BY DEF RulesGone
    <3>1. l.rules = 0
      BY <2>2, LoadMainSpares DEF RulesGone
    <3> QED BY <1>1, <1>4, <2>1, <2>2, <3>1 DEF RulesGone
  <2> QED BY <1>1, <1>4, <2>3, <2>4 DEF FileInv, LinesGone
<1> QED BY <1>2, <1>3, <1>4 DEF DisturbPF

LEMMA DisturbKeeps ==
    ASSUME MacInv, Disturb
    PROVE  MacInv'
<1>1. /\ UNCHANGED <<anchor, plist, agent, dns, proc, clean>>
      /\ events' \in 0..MaxEvents
  BY MacAssumption DEF Disturb, MacInv, MacTypes, MacTypeOK
<1>2. CASE DisturbPF /\ UNCHANGED <<cfg, ca, vouched>>
  <2>1. /\ file' \in Seq(Kinds) /\ others' \in Seq(Theirs) /\ raced' \in BOOLEAN
        /\ live' \in [call : BOOLEAN, guest : BOOLEAN, rules : Ports \cup {0}, on : BOOLEAN]
        /\ FileInv' /\ (RulesGone => RulesGone') /\ (LinesGone => LinesGone')
    BY <1>1, <1>2, DisturbPFKeeps
  <2>2. UninstallInv'
    BY <1>1, <2>1, NoProcessMoves
  <2>3. MacTypes'
    BY <1>1, <1>2, <2>1 DEF MacInv, MacTypes, MacTypeOK
  <2>4. TrustInv'
    BY <1>2 DEF MacInv, TrustInv
  <2> QED BY <2>1, <2>2, <2>3, <2>4 DEF MacInv
<1>3. CASE cfg' \in Ports \ {cfg} /\ UNCHANGED <<file, others, raced, live, ca, vouched>>
  <2>1. (RulesGone => RulesGone') /\ (LinesGone => LinesGone')
    BY <1>1, <1>3 DEF RulesGone, LinesGone
  <2>2. UninstallInv'
    BY <1>1, <2>1, NoProcessMoves
  <2> QED BY <1>1, <1>3, <2>2 DEF MacInv, MacTypes, MacTypeOK, FileInv, TrustInv
<1>4. CASE /\ ca' = [ca EXCEPT !.disk = 0] /\ vouched' = FALSE
           /\ UNCHANGED <<file, others, raced, live, cfg>>
  <2>1. (RulesGone => RulesGone') /\ (LinesGone => LinesGone')
    BY <1>1, <1>4 DEF RulesGone, LinesGone
  <2>2. UninstallInv'
    BY <1>1, <2>1, NoProcessMoves
  <2>3. ca' \in [disk : 0..MaxCA, trusted : SUBSET (1..MaxCA), made : 0..MaxCA]
    BY <1>4, MacAssumption DEF MacInv, MacTypes, MacTypeOK
  <2> QED BY <1>1, <1>4, <2>2, <2>3 DEF MacInv, MacTypes, MacTypeOK, FileInv, TrustInv
<1> QED BY <1>2, <1>3, <1>4 DEF Disturb

LEMMA DaemonCAKeeps ==
    ASSUME MacInv, DaemonEnsuresCA
    PROVE  MacInv'
<1>1. ca' \in [disk : 0..MaxCA, trusted : SUBSET (1..MaxCA), made : 0..MaxCA] /\ TrustInv'
  <2>1. EnsureCA(ca).made <= MaxCA
    BY MacAssumption DEF DaemonEnsuresCA, EnsureCA, MacInv, MacTypes, MacTypeOK
  <2> QED BY <2>1, EnsureCAKeeps DEF DaemonEnsuresCA
<1>2. (RulesGone => RulesGone') /\ (LinesGone => LinesGone')
  BY DEF RulesGone, LinesGone, DaemonEnsuresCA
<1>3. UninstallInv'
  BY <1>2, NoProcessMoves DEF DaemonEnsuresCA
<1> QED BY <1>1, <1>3 DEF DaemonEnsuresCA, MacInv, MacTypes, MacTypeOK, FileInv

LEMMA GuestKeeps ==
    ASSUME MacInv, GuestReturns
    PROVE  MacInv'
<1>1. /\ live' \in [call : BOOLEAN, guest : BOOLEAN, rules : Ports \cup {0}, on : BOOLEAN]
      /\ live'.rules = live.rules
  BY DEF GuestReturns, MacInv, MacTypes, MacTypeOK
<1>2. (RulesGone => RulesGone') /\ (LinesGone => LinesGone')
  BY <1>1 DEF RulesGone, LinesGone, GuestReturns
<1>3. UninstallInv'
  BY <1>2, NoProcessMoves DEF GuestReturns
<1> QED BY <1>1, <1>3 DEF GuestReturns, MacInv, MacTypes, MacTypeOK, FileInv, TrustInv

LEMMA MacNextKeeps ==
    ASSUME MacInv, MacNext
    PROVE  MacInv'
<1>1. "net" \in Appliers /\ "fix" \in Appliers
  BY DEF Appliers
<1>2. CASE DoctorFix \/ RunSetup \/ RunUninstall
  <2>1. cfg \in Ports \cup {0} /\ 0 \in Ports \cup {0}
    BY DEF MacInv, MacTypes, MacTypeOK
  <2>2. {"fix", "setup", "un"} \subseteq Commands /\ {"anchor", "dnsmasq", "agents"} \subseteq Pcs
    BY DEF Commands, Procs, Pcs
  <2>a. "anchor" \notin Filled /\ "dnsmasq" \notin Filled /\ "agents" \notin Filled
    BY DEF Filled
  <2>3. CASE DoctorFix
    <3>1. StartCommand("fix", "anchor", cfg)
      BY <2>3 DEF DoctorFix
    <3> QED BY <2>1, <2>2, <2>a, <3>1, CommandStarts
  <2>4. CASE RunSetup
    <3>1. StartCommand("setup", "dnsmasq", 0)
      BY <2>4 DEF RunSetup
    <3> QED BY <2>1, <2>2, <2>a, <3>1, CommandStarts
  <2>5. CASE RunUninstall
    <3>1. StartCommand("un", "agents", 0)
      BY <2>5 DEF RunUninstall
    <3> QED BY <2>1, <2>2, <2>a, <3>1, CommandStarts
  <2> QED BY <1>2, <2>3, <2>4, <2>5
<1> QED BY <1>1, <1>2, NetworkChangeKeeps, ReassertKeeps, SetupKeeps, UninstallKeeps,
           DisturbKeeps, DaemonCAKeeps, GuestKeeps DEF MacNext, NetStep

LEMMA MacStarts ==
    ASSUME MacInit \/ NoMac
    PROVE  MacInv
<1>1. proc = [p \in Procs |-> Idle] /\ proc \in [Procs -> Patched]
  BY IdleIsPatched DEF MacInit, NoMac
<1>2. \A p \in Procs : proc[p].pc = "idle"
  BY <1>1 DEF Idle
<1>3. file \in Seq(Theirs) /\ Loadable(file) /\ others = file
  <2>1. <<>> \in Seq(Theirs) /\ Loadable(<<>>)
    BY DEF Loadable
  <2> QED BY <2>1, StockAssumption DEF MacInit, NoMac
<1>4. file \in Seq(Kinds) /\ stripPFConf(file) = file
  BY <1>3, TheirsAreKinds
<1>5. LinesGone
  BY <1>3, StripLeavesNeither DEF LinesGone
<1>6. /\ raced = FALSE /\ anchor = 0 /\ plist = 0 /\ live = NoRules /\ cfg \in Ports
      /\ agent = "absent" /\ dns = NoDNS /\ ca = NoCA /\ vouched = FALSE /\ clean = TRUE
      /\ events \in 0..MaxEvents
  BY MacAssumption DEF MacInit, NoMac
<1>7. MacTypes
  <2>1. /\ live \in [call : BOOLEAN, guest : BOOLEAN, rules : Ports \cup {0}, on : BOOLEAN]
        /\ dns \in [marker : 0..1, resolver : BOOLEAN]
    BY <1>6 DEF NoRules, NoDNS
  <2>2. ca \in [disk : 0..MaxCA, trusted : SUBSET (1..MaxCA), made : 0..MaxCA]
    BY <1>6, MacAssumption DEF NoCA
  <2> QED BY <1>1, <1>3, <1>4, <1>6, <2>1, <2>2 DEF MacTypes, MacTypeOK
<1>8. FileInv
  BY <1>3, <1>4 DEF FileInv
<1>9. UninstallInv
  <2>1. Commands \subseteq Procs /\ "net" \in Procs
    BY DEF Commands, Procs
  <2>2. JobsGone /\ RulesGone /\ ~dns.resolver
    BY <1>2, <1>6, <2>1 DEF JobsGone, RulesGone, At, NoRules, NoDNS
  <2> QED BY <1>2, <1>5, <2>1, <2>2 DEF UninstallInv, At
<1>10. TrustInv
  BY <1>6 DEF TrustInv, NoCA
<1> QED BY <1>7, <1>8, <1>9, <1>10 DEF MacInv
------------------------------------------------------------------------------
(* A Windows machine.                                                       *)

Address == STRING \cup {"isp", "lo", "lo2", "public", "none"}
Modes == [link : {"absent", "down", "up"}, manual : BOOLEAN, dns : Seq(Address)]

\* What a backup may hold: nothing of vibe's own.
Entries == [dhcp : BOOLEAN, servers : Seq(Address \ Loopback)]
Snaps == UNION {[D -> Entries] : D \in SUBSET Adapters}

WinPcs == {"idle", "portproxy", "backup", "enumerate", "repoint", "task", "restore",
           "adapters", "discard", "gone"}

WinTypes ==
    /\ adapter \in [Adapters -> Modes]
    /\ found \in [Adapters -> Seq(Address)]
    /\ backup \in [state : {"none", "torn", "ok"}, snap : Snaps]
    /\ cmd \in [pc : WinPcs, todo : SUBSET Adapters, treated : SUBSET Adapters,
                seen : SUBSET Adapters, hit : BOOLEAN, snap : Snaps]
    /\ turns \in 0..MaxTurns

\* The servers an entry asks for, and the adapters whose servers are known.
Asks(e) == IF e.dhcp THEN Unset ELSE e.servers
Kept(n) == adapter[n].manual /\ Loopback \cap Range(found[n]) = {}

Remembers(snap) == \A n \in DOMAIN snap : Kept(n) => Asks(snap[n]) = found[n]

RestoreInv ==
    /\ backup.state = "ok" => Remembers(backup.snap)
    /\ (cmd.pc \in {"adapters", "discard"} /\ backup.state = "ok") => Remembers(cmd.snap)
    /\ (cmd.pc = "adapters" /\ ~refused) =>
          \A n \in cmd.treated \ cmd.todo : adapter[n].dns = Wanted(n)
    /\ (cmd.pc = "discard" /\ ~refused /\ backup.state = "ok") =>
          \A n \in cmd.treated \cap DOMAIN cmd.snap : Kept(n) => adapter[n].dns = found[n]
    /\ (cmd.pc \in {"discard", "gone"} /\ ~refused) =>
          \A n \in cmd.seen : Loopback \cap Range(adapter[n].dns) = {}

WinInv == WinTypes /\ RestoreInv /\ NoLoopbackUpstream

LEMMA NoSnapIsSnap == NoSnap \in Snaps
<1>1. NoSnap \in [{} -> Entries]
  BY DEF NoSnap
<1>2. {} \in SUBSET Adapters
  OBVIOUS
<1> QED BY <1>1, <1>2 DEF Snaps

LEMMA SnapOf ==
    ASSUME NEW snap \in Snaps
    PROVE  /\ DOMAIN snap \subseteq Adapters /\ snap \in [DOMAIN snap -> Entries]
           /\ \A n \in DOMAIN snap : snap[n] \in Entries
BY DEF Snaps

LEMMA StripIsEntry ==
    ASSUME NEW e \in [dhcp : BOOLEAN, servers : Seq(Address)]
    PROVE  StripEntry(e) \in Entries
<1>1. PICK rest \in Seq(Address \ Loopback) : rest = Without(e.servers, Loopback)
  BY WithoutType
<1>2. PICK none \in Seq(Address \ Loopback) : none = <<>>
  <2>1. <<>> \in Seq(Address \ Loopback)
    OBVIOUS
  <2> QED BY <2>1
<1>3. StripEntry(e) = IF ~e.dhcp /\ rest = none THEN [dhcp |-> TRUE, servers |-> none]
                                               ELSE [dhcp |-> e.dhcp, servers |-> rest]
  BY <1>1, <1>2 DEF StripEntry, Entry
<1> QED BY <1>3 DEF Entries

\* Stripping servers that are not loopback changes nothing one asks for.
LEMMA StripAsks ==
    ASSUME NEW e \in [dhcp : BOOLEAN, servers : Seq(Address)],
           Loopback \cap Range(e.servers) = {}
    PROVE  Asks(StripEntry(e)) = Asks(e)
<1>1. e.servers \in Seq(Address \ Loopback)
  <2>1. \A i \in 1..Len(e.servers) : e.servers[i] \in Address \ Loopback
    BY DEF Range
  <2> QED BY <2>1
<1>2. Without(e.servers, Loopback) = e.servers
  <2>1. (Address \ Loopback) \cap Loopback = {}
    OBVIOUS
  <2> QED BY <1>1, <2>1, WithoutNothing
<1>3. PICK rest : rest = e.servers
  OBVIOUS
<1>4. StripEntry(e) = IF ~e.dhcp /\ rest = <<>> THEN [dhcp |-> TRUE, servers |-> <<>>]
                                             ELSE [dhcp |-> e.dhcp, servers |-> rest]
  BY <1>2, <1>3 DEF StripEntry, Entry
<1> QED BY <1>3, <1>4 DEF Asks, Unset

LEMMA EntryIsLoopbackFree ==
    ASSUME NEW e \in Entries
    PROVE  /\ e \in [dhcp : BOOLEAN, servers : Seq(Address)]
           /\ Loopback \cap Range(e.servers) = {}
<1>1. e.servers \in Seq(Address \ Loopback) /\ e.dhcp \in BOOLEAN
      /\ e = [dhcp |-> e.dhcp, servers |-> e.servers]
  BY DEF Entries
<1>2. e.servers \in Seq(Address)
  <2>1. Address \ Loopback \subseteq Address
    OBVIOUS
  <2> QED BY <1>1, <2>1, SeqMonotonic
<1>3. Loopback \cap Range(e.servers) = {}
  BY <1>1 DEF Range
<1> QED BY <1>1, <1>2, <1>3

LEMMA StripIsSnap ==
    ASSUME NEW snap \in Snaps
    PROVE  stripLoopbackServers(snap) \in Snaps
<1>1. DOMAIN snap \subseteq Adapters /\ \A n \in DOMAIN snap : snap[n] \in Entries
  BY SnapOf
<1>2. \A n \in DOMAIN snap : StripEntry(snap[n]) \in Entries
  BY <1>1, EntryIsLoopbackFree, StripIsEntry
<1>3. stripLoopbackServers(snap) \in [DOMAIN snap -> Entries]
  BY <1>2 DEF stripLoopbackServers
<1> QED BY <1>1, <1>3 DEF Snaps

LEMMA StripRemembers ==
    ASSUME WinTypes, NEW snap \in Snaps, Remembers(snap)
    PROVE  Remembers(stripLoopbackServers(snap))
<1>1. \A n \in DOMAIN snap : snap[n] \in Entries
  BY SnapOf
<1>2. \A n \in DOMAIN snap : Asks(StripEntry(snap[n])) = Asks(snap[n])
  BY <1>1, EntryIsLoopbackFree, StripAsks
<1>3. /\ DOMAIN stripLoopbackServers(snap) = DOMAIN snap
      /\ \A n \in DOMAIN snap : stripLoopbackServers(snap)[n] = StripEntry(snap[n])
  BY DEF stripLoopbackServers
<1> QED BY <1>2, <1>3 DEF Remembers

\* A snapshot holds nothing of vibe's and remembers what it has found.
LEMMA SingleIsSeq ==
    ASSUME NEW S, NEW x \in S
    PROVE  <<x>> \in Seq(S)
OBVIOUS

LEMMA RowType ==
    ASSUME NEW a \in Modes
    PROVE  Row(a) \in [dhcp : BOOLEAN, servers : Seq(Address)]
<1>1. PICK l \in Seq(Address) : l = Lease
  <2>1. "isp" \in Address
    BY DEF Address
  <2> QED BY <2>1, SingleIsSeq DEF Lease
<1>2. a.dns \in Seq(Address) /\ a.manual \in BOOLEAN
  BY DEF Modes
<1>3. PICK b \in BOOLEAN : b = ~a.manual
  BY <1>2
<1>4. PICK s \in Seq(Address) : s = IF a.dns = Unset /\ ~a.manual THEN Lease ELSE a.dns
  BY <1>1, <1>2
<1> QED BY <1>3, <1>4 DEF Row, Entry

LEMMA SnapshotIsSnap ==
    ASSUME WinTypes
    PROVE  /\ snapshotAdapterDNS \in Snaps /\ DOMAIN snapshotAdapterDNS = Present
           /\ \A n \in Present : snapshotAdapterDNS[n] = StripEntry(Row(adapter[n]))
<1>1. Present \subseteq Adapters
  BY DEF Present
<1>2. \A n \in Present : adapter[n] \in Modes
  BY <1>1 DEF WinTypes
<1>3. \A n \in Present : StripEntry(Row(adapter[n])) \in Entries
  BY <1>2, RowType, StripIsEntry
<1>4. /\ snapshotAdapterDNS = [n \in Present |-> StripEntry(Row(adapter[n]))]
  BY DEF snapshotAdapterDNS, stripLoopbackServers
<1>5. snapshotAdapterDNS \in [Present -> Entries]
  BY <1>3, <1>4
<1> QED BY <1>1, <1>4, <1>5 DEF Snaps

LEMMA SnapshotAsks ==
    ASSUME WinTypes, NEW n \in Present, adapter[n].manual,
           Loopback \cap Range(adapter[n].dns) = {}
    PROVE  Asks(snapshotAdapterDNS[n]) = adapter[n].dns
<1>1. n \in Adapters /\ adapter[n] \in Modes
  BY DEF Present, WinTypes
<1>2. Row(adapter[n]) = [dhcp |-> FALSE, servers |-> adapter[n].dns]
  BY <1>1 DEF Row, Entry, Modes
<1>3. PICK e : e = Row(adapter[n])
  OBVIOUS
<1>4. e \in [dhcp : BOOLEAN, servers : Seq(Address)]
  BY <1>1, <1>3, RowType
<1>5. e.servers = adapter[n].dns /\ e.dhcp = FALSE
  BY <1>2, <1>3
<1>6. Asks(StripEntry(e)) = Asks(e)
  BY <1>4, <1>5, StripAsks
<1>7. Asks(e) = adapter[n].dns
  BY <1>5 DEF Asks
<1>8. snapshotAdapterDNS[n] = StripEntry(e)
  BY <1>3, SnapshotIsSnap
<1> QED BY <1>6, <1>7, <1>8
------------------------------------------------------------------------------
(* A Windows machine: the commands.                                         *)

Cmds == [pc : WinPcs, todo : SUBSET Adapters, treated : SUBSET Adapters,
         seen : SUBSET Adapters, hit : BOOLEAN, snap : Snaps]

LEMMA IdleIsCmd == WinIdle \in Cmds /\ WinIdle.pc = "idle"
BY NoSnapIsSnap DEF WinIdle, Cmds, WinPcs

LEMMA WGoSets ==
    ASSUME WinTypes, NEW pc \in WinPcs, WGo(pc)
    PROVE  /\ cmd' \in Cmds /\ cmd'.pc = pc
           /\ cmd'.todo = cmd.todo /\ cmd'.treated = cmd.treated
           /\ cmd'.seen = cmd.seen /\ cmd'.snap = cmd.snap
BY DEF WinTypes, Cmds, WGo

\* Outside restore and verification an uninstall's promises are not yet made.
LEMMA Elsewhere ==
    ASSUME RestoreInv, cmd'.pc \notin {"adapters", "discard", "gone"},
           (backup.state = "ok" => Remembers(backup.snap))
              => (backup.state = "ok" => Remembers(backup.snap))'
    PROVE  RestoreInv'
BY DEF RestoreInv

LEMMA SameMemory ==
    ASSUME RestoreInv, UNCHANGED <<backup, found>>,
           \A n \in Adapters : adapter'[n].manual = adapter[n].manual,
           NEW snap \in Snaps, Remembers(snap)
    PROVE  Remembers(snap)'
<1>1. \A n \in DOMAIN snap : n \in Adapters
  BY SnapOf
<1> QED BY <1>1 DEF Remembers, Kept

LEMMA BackupStays ==
    ASSUME WinTypes, RestoreInv, UNCHANGED <<backup, found>>,
           \A n \in Adapters : adapter'[n].manual = adapter[n].manual
    PROVE  (backup.state = "ok" => Remembers(backup.snap))'
<1>1. PICK snap \in Snaps : snap = backup.snap
  BY DEF WinTypes
<1>2. backup.state = "ok" => Remembers(snap)
  BY <1>1 DEF RestoreInv
<1>3. backup.state = "ok" => Remembers(snap)'
  BY <1>2, SameMemory
<1> QED BY <1>1, <1>3 DEF Remembers

\* A step that ends elsewhere and leaves servers and backup alone.
LEMMA QuietStep ==
    ASSUME WinInv, UNCHANGED <<adapter, found, backup>>, cmd' \in Cmds,
           cmd'.pc \notin {"adapters", "discard", "gone"},
           turns' \in 0..MaxTurns, NoLoopbackUpstream'
    PROVE  WinInv'
<1>1. WinTypes'
  BY DEF WinInv, WinTypes, Cmds
<1>2. (backup.state = "ok" => Remembers(backup.snap))'
  <2>1. \A n \in Adapters : adapter'[n].manual = adapter[n].manual
    OBVIOUS
  <2> QED BY <2>1, BackupStays DEF WinInv
<1>3. RestoreInv'
  BY <1>2, Elsewhere DEF WinInv
<1> QED BY <1>1, <1>3 DEF WinInv

LEMMA AbandonKeeps ==
    ASSUME WinInv, Abandon
    PROVE  WinInv'
<1>1. cmd' \in Cmds /\ cmd'.pc = "idle"
  BY IdleIsCmd DEF Abandon
<1>2. UNCHANGED <<adapter, found, backup>> /\ turns' \in 0..MaxTurns /\ NoLoopbackUpstream'
  BY DEF Abandon, WinInv, WinTypes, NoLoopbackUpstream
<1> QED BY <1>1, <1>2, QuietStep

LEMMA BeginKeeps ==
    ASSUME WinInv, BeginSetup \/ BeginUninstall
    PROVE  WinInv'
<1>1. PICK pc \in {"portproxy", "restore"} : Begin(pc)
  BY DEF BeginSetup, BeginUninstall
<1>2. pc \in WinPcs
  BY DEF WinPcs
<1>3. cmd' \in Cmds /\ cmd'.pc = pc
  BY <1>1, <1>2, WGoSets DEF Begin, WinInv
<1>4. turns' \in 0..MaxTurns
  BY <1>1, WinAssumption DEF Begin, WinInv, WinTypes
<1>5. UNCHANGED <<adapter, found, backup>> /\ NoLoopbackUpstream'
  BY DEF BeginSetup, BeginUninstall, WinInv, NoLoopbackUpstream
<1> QED BY <1>1, <1>3, <1>4, <1>5, QuietStep

LEMMA PortProxyKeeps ==
    ASSUME WinInv, installPortProxy
    PROVE  WinInv'
<1>1. WGo("backup") \/ cmd' = WinIdle
  BY DEF installPortProxy
<1>2. "backup" \in WinPcs
  BY DEF WinPcs
<1>3. cmd' \in Cmds /\ cmd'.pc \in {"backup", "idle"}
  BY <1>1, <1>2, WGoSets, IdleIsCmd DEF WinInv
<1>4. UNCHANGED <<adapter, found, backup>> /\ turns' \in 0..MaxTurns /\ NoLoopbackUpstream'
  BY DEF installPortProxy, WinInv, WinTypes, NoLoopbackUpstream
<1> QED BY <1>3, <1>4, QuietStep

\* A new backup remembers the servers in place.
LEMMA BackupKeeps ==
    ASSUME WinInv, backupAdapterDNS
    PROVE  WinInv'
<1>1. "enumerate" \in WinPcs
  BY DEF WinPcs
<1>2. cmd' \in Cmds /\ cmd'.pc = "enumerate"
  <2>1. WGo("enumerate")
    BY DEF backupAdapterDNS
  <2> QED BY <1>1, <2>1, WGoSets DEF WinInv
<1>3. UNCHANGED <<adapter, upstream, turns>>
  BY DEF backupAdapterDNS
<1>4. turns' \in 0..MaxTurns /\ NoLoopbackUpstream'
  BY <1>3 DEF WinInv, WinTypes, NoLoopbackUpstream
<1>5. CASE UNCHANGED <<backup, found>>
  BY <1>2, <1>3, <1>4, <1>5, QuietStep
<1>6. CASE /\ backup' \in {[state |-> "ok", snap |-> snapshotAdapterDNS],
                           [state |-> "torn", snap |-> NoSnap]}
           /\ found' = [n \in Adapters |-> adapter[n].dns]
  <2>1. PICK snap \in Snaps : snap = snapshotAdapterDNS
    BY SnapshotIsSnap DEF WinInv
  <2>2. backup' \in [state : {"none", "torn", "ok"}, snap : Snaps]
    BY <1>6, <2>1, NoSnapIsSnap
  <2>3. found' \in [Adapters -> Seq(Address)]
    <3>1. \A n \in Adapters : adapter[n].dns \in Seq(Address)
      BY DEF WinInv, WinTypes, Modes
    <3> QED BY <1>6, <3>1
  <2>4. WinTypes'
    BY <1>2, <1>3, <1>4, <2>2, <2>3 DEF WinInv, WinTypes, Cmds
  <2>5. (backup.state = "ok" => Remembers(backup.snap))'
    <3> SUFFICES ASSUME backup'.state = "ok" PROVE Remembers(backup.snap)'
      OBVIOUS
    <3>1. backup'.snap = snap
      BY <1>6, <2>1
    <3>2. DOMAIN snap = Present /\ Present \subseteq Adapters
      BY <2>1, SnapshotIsSnap DEF WinInv, Present
    <3>3. \A n \in Present : (adapter[n].manual /\ Loopback \cap Range(adapter[n].dns) = {})
                                => Asks(snap[n]) = adapter[n].dns
      BY <2>1, SnapshotAsks DEF WinInv
    <3>4. \A n \in Present : found'[n] = adapter[n].dns /\ adapter'[n] = adapter[n]
      BY <1>3, <1>6, <3>2
    <3> QED BY <3>1, <3>2, <3>3, <3>4 DEF Remembers, Kept
  <2>6. RestoreInv'
    BY <1>2, <2>5, Elsewhere DEF WinInv
  <2> QED BY <1>4, <2>4, <2>6 DEF WinInv
<1> QED BY <1>5, <1>6 DEF backupAdapterDNS

LEMMA ListKeeps ==
    ASSUME WinInv, listAdapters
    PROVE  WinInv'
<1>1. connectedIPv4Adapters \in SUBSET Adapters /\ "repoint" \in WinPcs
  BY DEF connectedIPv4Adapters, WinPcs
<1>2. cmd' \in Cmds /\ cmd'.pc = "repoint"
  BY <1>1 DEF listAdapters, WinInv, WinTypes, Cmds
<1>3. UNCHANGED <<adapter, found, backup>> /\ turns' \in 0..MaxTurns /\ NoLoopbackUpstream'
  BY DEF listAdapters, WinInv, WinTypes, NoLoopbackUpstream
<1> QED BY <1>2, <1>3, QuietStep

\* One adapter's servers set, or the call refused.
LEMMA SetSets ==
    ASSUME WinTypes, NEW n \in Adapters, NEW servers \in Seq(Address),
           adapter' = [adapter EXCEPT ![n].dns = servers]
    PROVE  /\ adapter' \in [Adapters -> Modes] /\ adapter'[n].dns = servers
           /\ \A k \in Adapters \ {n} : adapter'[k] = adapter[k]
           /\ \A k \in Adapters : adapter'[k].manual = adapter[k].manual
<1>1. PICK a : a = [adapter[n] EXCEPT !.dns = servers]
  OBVIOUS
<1>2. adapter[n] \in Modes
  BY DEF WinTypes
<1>3. a \in Modes /\ a.dns = servers /\ a.manual = adapter[n].manual
  BY <1>1, <1>2 DEF Modes
<1>4. adapter' = [adapter EXCEPT ![n] = a]
  BY <1>1
<1> QED BY <1>3, <1>4 DEF WinTypes

LEMMA RepointKeeps ==
    ASSUME WinInv, configureDNS
    PROVE  WinInv'
<1>1. PICK n \in cmd.todo : SetDNS(n, Own) /\ cmd' = [cmd EXCEPT !.todo = @ \ {n},
                                !.hit = @ \/ adapter'[n].dns = Own]
  BY DEF configureDNS
<1>2. n \in Adapters /\ cmd \in Cmds /\ WinTypes
  BY <1>1 DEF WinInv, WinTypes, Cmds
<1>3. Own \in Seq(Address)
  <2>1. Listener \in Address
    BY DEF Address, Listener
  <2> QED BY <2>1, SingleIsSeq DEF Own
<1>4. /\ adapter' \in [Adapters -> Modes]
      /\ \A k \in Adapters : adapter'[k].manual = adapter[k].manual
  <2>1. CASE adapter' = [adapter EXCEPT ![n].dns = Own]
    BY <1>2, <1>3, <2>1, SetSets
  <2>2. CASE adapter' = adapter
    BY <1>2, <2>2 DEF WinTypes
  <2> QED BY <1>1, <2>1, <2>2 DEF SetDNS
<1>5. cmd' \in Cmds /\ cmd'.pc = "repoint"
  <2>1. PICK h \in BOOLEAN : h = (cmd.hit \/ adapter'[n].dns = Own)
    OBVIOUS
  <2>2. PICK t \in SUBSET Adapters : t = cmd.todo \ {n}
    BY <1>2 DEF Cmds
  <2>3. PICK c : c = [cmd EXCEPT !.todo = t]
    OBVIOUS
  <2>4. c \in Cmds /\ c.pc = "repoint"
    BY <1>2, <2>2, <2>3 DEF Cmds, configureDNS, WAt
  <2>5. cmd' = [c EXCEPT !.hit = h]
    BY <1>1, <1>2, <2>1, <2>2, <2>3 DEF Cmds
  <2> QED BY <2>1, <2>4, <2>5 DEF Cmds
<1>6. UNCHANGED <<found, backup, upstream, turns>>
  BY DEF configureDNS
<1>7. WinTypes'
  BY <1>4, <1>5, <1>6 DEF WinInv, WinTypes, Cmds
<1>8. (backup.state = "ok" => Remembers(backup.snap))'
  BY <1>2, <1>4, <1>6, BackupStays DEF WinInv
<1>9. RestoreInv'
  BY <1>5, <1>8, Elsewhere DEF WinInv
<1>10. NoLoopbackUpstream'
  BY <1>6 DEF WinInv, NoLoopbackUpstream
<1> QED BY <1>7, <1>9, <1>10 DEF WinInv

LEMMA UpstreamKeeps ==
    ASSUME WinInv, enableTLSAndDNSWindows
    PROVE  WinInv'
<1>1. upstream' \notin Loopback
  <2>1. ASSUME NEW n \in DOMAIN backup.snap
        PROVE  Range(backup.snap[n].servers) \cap Loopback = {}
    <3>1. PICK snap \in Snaps : snap = backup.snap
      BY DEF WinInv, WinTypes
    <3>2. snap[n] \in Entries
      BY <2>1, <3>1, SnapOf
    <3> QED BY <3>1, <3>2, EntryIsLoopbackFree
  <2>2. upstream' \in {"public"} \cup (UNION {Range(backup.snap[n].servers) : n \in DOMAIN backup.snap} \ {Listener})
    BY DEF enableTLSAndDNSWindows, candidateUpstreams
  <2>3. "public" \notin Loopback
    BY DEF Loopback, Listener
  <2> QED BY <2>1, <2>2, <2>3
<1>2. cmd' \in Cmds /\ cmd'.pc = "task"
  <2>1. "task" \in WinPcs
    BY DEF WinPcs
  <2> QED BY <2>1, WGoSets DEF enableTLSAndDNSWindows, WinInv
<1>3. UNCHANGED <<adapter, found, backup>> /\ turns' \in 0..MaxTurns
  BY DEF enableTLSAndDNSWindows, WinInv, WinTypes
<1>4. NoLoopbackUpstream'
  BY <1>1 DEF NoLoopbackUpstream
<1> QED BY <1>2, <1>3, <1>4, QuietStep

LEMMA TaskKeeps ==
    ASSUME WinInv, installScheduledTask \/ finishUninstall
    PROVE  WinInv'
<1>1. cmd' \in Cmds /\ cmd'.pc = "idle"
  BY IdleIsCmd DEF installScheduledTask, finishUninstall
<1>2. UNCHANGED <<adapter, found, backup>> /\ turns' \in 0..MaxTurns /\ NoLoopbackUpstream'
  BY DEF installScheduledTask, finishUninstall, WinInv, WinTypes, NoLoopbackUpstream
<1> QED BY <1>1, <1>2, QuietStep

\* Restore starts from what the backup remembers, with nothing treated yet.
LEMMA LoadKeeps ==
    ASSUME WinInv, loadDNSBackup
    PROVE  WinInv'
<1>1. PICK T \in {connectedIPv4Adapters, {}} :
          cmd' = [cmd EXCEPT !.pc = "adapters", !.todo = T, !.treated = T,
                             !.snap = stripLoopbackServers(backup.snap)]
  BY DEF loadDNSBackup
<1>2. PICK snap \in Snaps : snap = backup.snap
  BY DEF WinInv, WinTypes
<1>3. PICK s \in Snaps : s = stripLoopbackServers(snap)
  BY StripIsSnap
<1>4. T \in SUBSET Adapters /\ "adapters" \in WinPcs
  BY DEF connectedIPv4Adapters, WinPcs
<1>5. cmd' = [cmd EXCEPT !.pc = "adapters", !.todo = T, !.treated = T, !.snap = s]
  BY <1>1, <1>2, <1>3
<1>6. /\ cmd' \in Cmds /\ cmd'.pc = "adapters" /\ cmd'.todo = T /\ cmd'.treated = T
      /\ cmd'.snap = s
  BY <1>4, <1>5 DEF WinInv, WinTypes, Cmds
<1>7. UNCHANGED <<adapter, found, backup, upstream, turns>>
  BY DEF loadDNSBackup
<1>8. WinTypes'
  BY <1>6, <1>7 DEF WinInv, WinTypes, Cmds
<1>9. (backup.state = "ok" => Remembers(backup.snap))'
  BY <1>7, BackupStays DEF WinInv
<1>10. backup'.state = "ok" => Remembers(cmd.snap)'
  <2>1. backup.state = "ok" => Remembers(s)
    BY <1>2, <1>3, StripRemembers DEF WinInv, RestoreInv
  <2>2. backup.state = "ok" => Remembers(s)'
    BY <1>7, <2>1, SameMemory DEF WinInv
  <2> QED BY <1>6, <1>7, <2>2 DEF Remembers
<1>11. RestoreInv'
  BY <1>6, <1>9, <1>10 DEF RestoreInv
<1> QED BY <1>7, <1>8, <1>11 DEF WinInv, NoLoopbackUpstream

LEMMA WantedType ==
    ASSUME WinTypes, NEW n
    PROVE  Wanted(n) \in Seq(Address)
<1>1. PICK snap \in Snaps : snap = cmd.snap
  BY DEF WinTypes
<1>2. Unset \in Seq(Address)
  BY DEF Unset
<1>3. CASE n \notin DOMAIN snap
  BY <1>1, <1>2, <1>3 DEF Wanted
<1>4. CASE n \in DOMAIN snap
  <2>1. snap[n].servers \in Seq(Address)
    BY <1>4, SnapOf, EntryIsLoopbackFree
  <2> QED BY <1>1, <1>2, <1>4, <2>1 DEF Wanted
<1> QED BY <1>3, <1>4

\* The adapter treated has what was wanted, or a call was refused.
LEMMA RestoreAdapterKeeps ==
    ASSUME WinInv, restoreAdapterDNS
    PROVE  WinInv'
<1>1. PICK n \in cmd.todo :
          /\ \/ SetDNS(n, Wanted(n))
             \/ /\ Len(Wanted(n)) > 1
                /\ adapter' = [adapter EXCEPT ![n].dns = <<Wanted(n)[1]>>]
                /\ refused' = TRUE
          /\ cmd' = [cmd EXCEPT !.todo = @ \ {n}]
  BY DEF restoreAdapterDNS
<1>2. /\ n \in Adapters /\ cmd \in Cmds /\ WinTypes /\ cmd.pc = "adapters"
      /\ UNCHANGED <<found, backup, upstream, turns>>
  BY <1>1 DEF WinInv, WinTypes, Cmds, restoreAdapterDNS, WAt
<1>3. PICK w \in Seq(Address) : w = Wanted(n)
  BY <1>2, WantedType
<1>4. PICK t \in SUBSET Adapters : t = cmd.todo \ {n}
  BY <1>2 DEF Cmds
<1>5. /\ cmd' \in Cmds /\ cmd'.pc = "adapters" /\ cmd'.todo = t /\ cmd'.treated = cmd.treated
      /\ cmd'.snap = cmd.snap
  BY <1>1, <1>2, <1>4 DEF Cmds
<1>6. /\ adapter' \in [Adapters -> Modes]
      /\ \A k \in Adapters \ {n} : adapter'[k] = adapter[k]
      /\ \A k \in Adapters : adapter'[k].manual = adapter[k].manual
      /\ refused' \/ (refused' = refused /\ adapter'[n].dns = w)
  <2>1. CASE adapter' = [adapter EXCEPT ![n].dns = w] /\ UNCHANGED refused
    BY <1>2, <2>1, SetSets
  <2>2. CASE UNCHANGED adapter /\ refused' = TRUE
    BY <1>2, <2>2 DEF WinTypes
  <2>3. CASE Len(w) > 1 /\ adapter' = [adapter EXCEPT ![n].dns = <<w[1]>>] /\ refused' = TRUE
    <3>1. w[1] \in Address
      BY <2>3
    <3>2. <<w[1]>> \in Seq(Address)
      BY <3>1, SingleIsSeq
    <3>3. PICK v \in Seq(Address) : v = <<w[1]>>
      BY <3>2
    <3> QED BY <1>2, <2>3, <3>3, SetSets
  <2> QED BY <1>1, <1>3, <2>1, <2>2, <2>3 DEF SetDNS
<1>7. WinTypes'
  BY <1>2, <1>5, <1>6 DEF WinTypes, Cmds
<1>8. (backup.state = "ok" => Remembers(backup.snap))'
  BY <1>2, <1>6, BackupStays DEF WinInv
<1>9. backup'.state = "ok" => Remembers(cmd.snap)'
  <2>1. PICK snap \in Snaps : snap = cmd.snap
    BY <1>2 DEF Cmds
  <2>2. backup.state = "ok" => Remembers(snap)'
    BY <1>2, <1>6, <2>1, SameMemory DEF WinInv, RestoreInv
  <2> QED BY <1>2, <1>5, <2>1, <2>2 DEF Remembers
<1>10. ASSUME ~refused', NEW k \in cmd'.treated \ cmd'.todo
       PROVE  adapter'[k].dns = Wanted(k)'
  <2>1. Wanted(k)' = Wanted(k)
    BY <1>5 DEF Wanted
  <2>2. CASE k = n
    BY <1>3, <1>6, <1>10, <2>1, <2>2
  <2>3. CASE k # n
    <3>1. k \in cmd.treated \ cmd.todo /\ k \in Adapters \ {n} /\ ~refused
      BY <1>2, <1>4, <1>5, <1>6, <1>10, <2>3 DEF Cmds
    <3>2. adapter[k].dns = Wanted(k)
      BY <1>2, <3>1 DEF WinInv, RestoreInv
    <3> QED BY <1>6, <2>1, <3>1, <3>2
  <2> QED BY <2>2, <2>3
<1>11. RestoreInv'
  BY <1>5, <1>8, <1>9, <1>10 DEF RestoreInv
<1> QED BY <1>2, <1>7, <1>11 DEF WinInv, NoLoopbackUpstream

LEMMA UnsetIsSeq == Unset \in Seq(Address)
BY DEF Unset

\* Verification resets what still names a loopback server, and nothing else.
LEMMA VerifyKeeps ==
    ASSUME WinInv, verifyAndFixLoopbackDNS
    PROVE  WinInv'
<1>1. PICK fixed \in SUBSET adaptersNeedingDHCPReset :
          /\ adapter' = [n \in Adapters |->
                IF n \in fixed THEN [adapter[n] EXCEPT !.dns = Unset] ELSE adapter[n]]
          /\ refused' = (refused \/ fixed # adaptersNeedingDHCPReset)
  BY DEF verifyAndFixLoopbackDNS
<1>2. /\ cmd \in Cmds /\ WinTypes /\ cmd.pc = "adapters" /\ cmd.todo = {}
      /\ UNCHANGED <<found, backup, upstream, turns>>
      /\ Present \in SUBSET Adapters /\ "discard" \in WinPcs
      /\ cmd' = [cmd EXCEPT !.pc = "discard", !.seen = Present]
  BY DEF WinInv, WinTypes, Cmds, verifyAndFixLoopbackDNS, WAt, Present, WinPcs
<1>3. /\ cmd' \in Cmds /\ cmd'.pc = "discard" /\ cmd'.treated = cmd.treated
      /\ cmd'.snap = cmd.snap /\ cmd'.seen = Present
  BY <1>2 DEF Cmds
<1>4. \A n \in Adapters : adapter[n] \in Modes
  BY <1>2 DEF WinTypes
<1>5. /\ adapter' \in [Adapters -> Modes]
      /\ \A n \in Adapters : adapter'[n].manual = adapter[n].manual
      /\ \A n \in Adapters \cap fixed : adapter'[n].dns = Unset
      /\ \A n \in Adapters \ fixed : adapter'[n] = adapter[n]
  <2>1. PICK auto \in Seq(Address) : auto = Unset
    BY UnsetIsSeq
  <2>2. \A n \in Adapters : /\ [adapter[n] EXCEPT !.dns = auto] \in Modes
                            /\ [adapter[n] EXCEPT !.dns = auto].manual = adapter[n].manual
                            /\ [adapter[n] EXCEPT !.dns = auto].dns = auto
    BY <1>4, <2>1 DEF Modes
  <2>3. adapter' = [n \in Adapters |-> IF n \in fixed THEN [adapter[n] EXCEPT !.dns = auto] ELSE adapter[n]]
    BY <1>1, <2>1
  <2> QED BY <1>4, <2>1, <2>2, <2>3
<1>6. WinTypes'
  BY <1>2, <1>3, <1>5 DEF WinTypes, Cmds
<1>7. (backup.state = "ok" => Remembers(backup.snap))'
  BY <1>2, <1>5, BackupStays DEF WinInv
<1>8. PICK snap \in Snaps : snap = cmd.snap
  BY <1>2 DEF Cmds
<1>9. backup.state = "ok" => Remembers(snap) /\ Remembers(snap)'
  BY <1>2, <1>5, <1>8, SameMemory DEF WinInv, RestoreInv
<1>10. ASSUME ~refused', backup'.state = "ok", NEW n \in cmd'.treated \cap DOMAIN cmd'.snap, Kept(n)'
       PROVE  adapter'[n].dns = found'[n]
  <2>1. n \in cmd.treated /\ n \in DOMAIN snap /\ n \in Adapters /\ ~refused /\ backup.state = "ok"
    BY <1>1, <1>2, <1>3, <1>8, <1>10 DEF Cmds
  <2>2. Kept(n)
    BY <1>2, <1>5, <1>10, <2>1 DEF Kept
  <2>3. adapter[n].dns = Wanted(n)
    BY <1>2, <2>1 DEF WinInv, RestoreInv
  <2>4. Wanted(n) = Asks(snap[n])
    BY <1>8, <2>1 DEF Wanted, Asks
  <2>5. Asks(snap[n]) = found[n]
    BY <1>9, <2>1, <2>2 DEF Remembers
  <2>6. n \notin fixed
    BY <2>2, <2>3, <2>4, <2>5 DEF Kept, adaptersNeedingDHCPReset
  <2> QED BY <1>2, <1>5, <2>1, <2>3, <2>4, <2>5, <2>6
<1>11. ASSUME ~refused', NEW n \in cmd'.seen
       PROVE  Loopback \cap Range(adapter'[n].dns) = {}
  <2>1. n \in Present /\ n \in Adapters /\ fixed = adaptersNeedingDHCPReset
    BY <1>1, <1>2, <1>3, <1>11
  <2>2. CASE n \in fixed
    <3>1. adapter'[n].dns = <<>>
      BY <1>5, <2>1, <2>2 DEF Unset
    <3> QED BY <3>1 DEF Range
  <2>3. CASE n \notin fixed
    BY <1>5, <2>1, <2>3 DEF adaptersNeedingDHCPReset
  <2> QED BY <2>2, <2>3
<1>12. backup'.state = "ok" => Remembers(cmd.snap)'
  BY <1>2, <1>3, <1>8, <1>9 DEF Remembers
<1>13. RestoreInv'
  BY <1>3, <1>7, <1>10, <1>11, <1>12 DEF RestoreInv
<1> QED BY <1>2, <1>6, <1>13 DEF WinInv, NoLoopbackUpstream

LEMMA DiscardKeeps ==
    ASSUME WinInv, removeDNSBackup
    PROVE  WinInv'
<1>1. /\ WinTypes /\ cmd.pc = "discard" /\ WGo("gone") /\ "gone" \in WinPcs
      /\ UNCHANGED <<adapter, found, upstream, refused, turns>>
      /\ backup' = IF backup.state = "ok" THEN NoBackup ELSE backup
  BY DEF WinInv, removeDNSBackup, WAt, WinPcs
<1>2. cmd' \in Cmds /\ cmd'.pc = "gone" /\ cmd'.seen = cmd.seen
  BY <1>1, WGoSets
<1>3. backup' \in [state : {"none", "torn", "ok"}, snap : Snaps] /\ backup'.state # "ok"
  BY <1>1, NoSnapIsSnap DEF WinTypes, NoBackup
<1>4. WinTypes'
  BY <1>1, <1>2, <1>3 DEF WinTypes, Cmds
<1>5. RestoreInv'
  BY <1>1, <1>2, <1>3 DEF WinInv, RestoreInv
<1> QED BY <1>1, <1>4, <1>5 DEF WinInv, NoLoopbackUpstream

\* A cable changes no servers; servers are edited between commands only.
LEMMA UserKeeps ==
    ASSUME WinInv, UserChanges
    PROVE  WinInv'
<1>1. /\ WinTypes /\ cmd \in Cmds /\ UNCHANGED <<found, backup, upstream, cmd, refused>>
      /\ turns' \in 0..MaxTurns
  BY WinAssumption DEF WinInv, WinTypes, Cmds, UserChanges
<1>2. PICK n \in Adapters :
          \/ WAt("idle") /\ \E d \in Statics \cup {Unset} : adapter' = [adapter EXCEPT ![n].dns = d]
          \/ \E l \in {"absent", "down", "up"} \ {adapter[n].link} :
                adapter' = [adapter EXCEPT ![n].link = l]
  BY DEF UserChanges
<1>3. CASE WAt("idle") /\ \E d \in Statics \cup {Unset} : adapter' = [adapter EXCEPT ![n].dns = d]
  <2>1. PICK d \in Statics \cup {Unset} : adapter' = [adapter EXCEPT ![n].dns = d]
    BY <1>3
  <2>2. d \in Seq(Address)
    <3>1. STRING \subseteq Address
      BY DEF Address
    <3>2. Seq(STRING) \subseteq Seq(Address)
      BY <3>1, SeqMonotonic
    <3>3. Unset \in Seq(Address)
      BY DEF Unset
    <3> QED BY <3>2, <3>3, WinAssumption
  <2>3. /\ adapter' \in [Adapters -> Modes]
        /\ \A k \in Adapters : adapter'[k].manual = adapter[k].manual
    BY <1>1, <2>1, <2>2, SetSets
  <2>4. WinTypes'
    BY <1>1, <2>3 DEF WinTypes
  <2>5. (backup.state = "ok" => Remembers(backup.snap))'
    BY <1>1, <2>3, BackupStays DEF WinInv
  <2>6. RestoreInv'
    BY <1>1, <1>3, <2>5, Elsewhere DEF WinInv, WAt
  <2> QED BY <1>1, <2>4, <2>6 DEF WinInv, NoLoopbackUpstream
<1>4. CASE \E l \in {"absent", "down", "up"} \ {adapter[n].link} : adapter' = [adapter EXCEPT ![n].link = l]
  <2>1. PICK l \in {"absent", "down", "up"} : adapter' = [adapter EXCEPT ![n].link = l]
    BY <1>4
  <2>2. /\ adapter' \in [Adapters -> Modes]
        /\ \A k \in Adapters : adapter'[k].manual = adapter[k].manual /\ adapter'[k].dns = adapter[k].dns
    <3>1. PICK a : a = [adapter[n] EXCEPT !.link = l]
      OBVIOUS
    <3>2. a \in Modes /\ a.manual = adapter[n].manual /\ a.dns = adapter[n].dns
      BY <1>1, <3>1 DEF WinTypes, Modes
    <3>3. adapter' = [adapter EXCEPT ![n] = a]
      BY <2>1, <3>1
    <3> QED BY <1>1, <3>2, <3>3 DEF WinTypes
  <2>3. WinTypes'
    BY <1>1, <2>2 DEF WinTypes
  <2>4. (backup.state = "ok" => Remembers(backup.snap))'
    BY <1>1, <2>2, BackupStays DEF WinInv
  <2>5. PICK snap \in Snaps : snap = cmd.snap
    BY <1>1 DEF Cmds
  <2>6. Remembers(snap) => Remembers(snap)'
    BY <1>1, <2>2, SameMemory DEF WinInv
  <2>7. Remembers(cmd.snap) => Remembers(cmd.snap)'
    BY <1>1, <2>5, <2>6 DEF Remembers
  <2>8. /\ cmd.treated \subseteq Adapters /\ cmd.seen \subseteq Adapters
        /\ \A k : Wanted(k)' = Wanted(k)
    BY <1>1 DEF Cmds, Wanted
  <2>9. \A k \in Adapters : Kept(k)' <=> Kept(k)
    BY <1>1, <2>2 DEF Kept
  <2>10. RestoreInv'
    BY <1>1, <2>2, <2>4, <2>7, <2>8, <2>9 DEF WinInv, RestoreInv
  <2> QED BY <1>1, <2>3, <2>10 DEF WinInv, NoLoopbackUpstream
<1> QED BY <1>2, <1>3, <1>4

LEMMA WinNextKeeps ==
    ASSUME WinInv, WinNext
    PROVE  WinInv'
BY BeginKeeps, PortProxyKeeps, BackupKeeps, ListKeeps, RepointKeeps, UpstreamKeeps, TaskKeeps,
   LoadKeeps, RestoreAdapterKeeps, VerifyKeeps, DiscardKeeps, AbandonKeeps, UserKeeps
   DEF WinNext

LEMMA WinStarts ==
    ASSUME WinInit \/ NoWindows
    PROVE  WinInv
<1>1. PICK auto \in Seq(Address) : auto = Unset
  BY UnsetIsSeq
<1>2. adapter \in [Adapters -> Modes]
  <2>1. CASE WinInit
    <3>1. STRING \subseteq Address
      BY DEF Address
    <3>2. Seq(STRING) \subseteq Seq(Address)
      BY <3>1, SeqMonotonic
    <3>3. Statics \subseteq Seq(Address)
      BY <3>2, WinAssumption
    <3>4. Listener \in Address
      BY DEF Address, Listener
    <3>5. Own \in Seq(Address)
      BY <3>4, SingleIsSeq DEF Own
    <3>6. AdapterStates \subseteq Modes
      BY <1>1, <3>3, <3>5 DEF AdapterStates, Modes
    <3> QED BY <2>1, <3>6 DEF WinInit
  <2>2. CASE NoWindows
    <3>1. [link |-> "absent", manual |-> FALSE, dns |-> auto] \in Modes
      BY <1>1 DEF Modes
    <3> QED BY <1>1, <2>2, <3>1 DEF NoWindows
  <2> QED BY <2>1, <2>2
<1>3. /\ found = [n \in Adapters |-> auto] /\ backup = NoBackup /\ upstream = "none"
      /\ cmd = WinIdle /\ turns \in 0..MaxTurns
  BY <1>1, WinAssumption DEF WinInit, NoWindows
<1>4. WinTypes
  <2>1. found \in [Adapters -> Seq(Address)]
    BY <1>1, <1>3
  <2>2. backup \in [state : {"none", "torn", "ok"}, snap : Snaps]
    BY <1>3, NoSnapIsSnap DEF NoBackup
  <2> QED BY <1>2, <1>3, <2>1, <2>2, IdleIsCmd DEF WinTypes, Cmds
<1>5. RestoreInv
  BY <1>3, IdleIsCmd DEF RestoreInv, NoBackup
<1>6. NoLoopbackUpstream
  BY <1>3 DEF NoLoopbackUpstream, Loopback, Listener
<1> QED BY <1>4, <1>5, <1>6 DEF WinInv
------------------------------------------------------------------------------
(* Either machine.                                                          *)

HostInv == MacInv /\ WinInv

LEMMA HostStarts == Init => HostInv
BY MacStarts, WinStarts DEF Init, HostInv

LEMMA HostStep ==
    ASSUME HostInv, [Next]_hostVars
    PROVE  HostInv'
<1>1. CASE setupPlatformDarwin
  <2>1. MacInv'
    BY <1>1, MacNextKeeps DEF setupPlatformDarwin, HostInv
  <2>2. UNCHANGED winVars
    BY <1>1 DEF setupPlatformDarwin
  <2>3. WinInv'
    BY <2>2 DEF winVars, HostInv, WinInv, WinTypes, RestoreInv, NoLoopbackUpstream, Remembers,
                Kept, Wanted
  <2> QED BY <2>1, <2>3 DEF HostInv
<1>2. CASE setupPlatformWindows
  <2>1. WinInv'
    BY <1>2, WinNextKeeps DEF setupPlatformWindows, HostInv
  <2>2. UNCHANGED macVars
    BY <1>2 DEF setupPlatformWindows
  <2>3. MacInv'
    BY <2>2 DEF macVars, HostInv, MacInv, MacTypes, MacTypeOK, FileInv, UninstallInv, TrustInv,
                JobsGone, RulesGone, LinesGone, At, Past
  <2> QED BY <2>1, <2>3 DEF HostInv
<1>3. CASE UNCHANGED hostVars
  <2>1. UNCHANGED macVars /\ UNCHANGED winVars
    BY <1>3 DEF hostVars
  <2>2. MacInv'
    BY <2>1 DEF macVars, HostInv, MacInv, MacTypes, MacTypeOK, FileInv, UninstallInv, TrustInv,
                JobsGone, RulesGone, LinesGone, At, Past
  <2>3. WinInv'
    BY <2>1 DEF winVars, HostInv, WinInv, WinTypes, RestoreInv, NoLoopbackUpstream, Remembers,
                Kept, Wanted
  <2> QED BY <2>2, <2>3 DEF HostInv
<1> QED BY <1>1, <1>2, <1>3 DEF Next

LEMMA HostHolds == Spec => []HostInv
BY HostStarts, HostStep, PTL DEF Spec

\* However often pf.conf is patched, stripped, edited or replaced, by any number
\* of commands, it stays a file that pfctl loads (swapPFConf, restorePFConf).
THEOREM FileStaysLoadable == Spec => []PfConfLoads
<1>1. HostInv => PfConfLoads
  BY DEF HostInv, MacInv, FileInv, PfConfLoads
<1> QED BY <1>1, HostHolds, PTL

\* Vibe adds and removes its own two lines and nothing else, unless a rename or
\* a write races with somebody's edit, or a write is cut short (patchPFConf,
\* stripPFConf, restorePFConf).
THEOREM OnlyOwnLinesMove == Spec => []OthersLinesKept
<1>1. HostInv => OthersLinesKept
  BY DEF HostInv, MacInv, FileInv, OthersLinesKept
<1> QED BY <1>1, HostHolds, PTL

\* After an uninstall without a failed step no job, rule, line or resolver is
\* left, and no later event brings one back (uninstallPlatform).
THEOREM UninstallLasts == Spec => []UninstallSticks
<1>1. HostInv => UninstallSticks
  BY DEF HostInv, MacInv, UninstallInv, UninstallSticks, JobsGone, RulesGone, LinesGone
<1> QED BY <1>1, HostHolds, PTL

\* A CA that setup trusted stays the one on disk, and trusted, through any number
\* of further setups, whole or failing, and of daemons that start (EnsureCA,
\* TrustCA).
THEOREM TrustLasts == Spec => []TrustSurvivesReruns
<1>1. HostInv => TrustSurvivesReruns
  BY DEF HostInv, MacInv, TrustInv, TrustSurvivesReruns
<1> QED BY <1>1, HostHolds, PTL

\* An unrefused uninstall leaves no adapter of the machine asking vibe's
\* resolver (verifyAndFixLoopbackDNS, over restoreAdapterDNS's partial results).
THEOREM ResolversAlive == Spec => []NoDeadResolver
<1>1. HostInv => NoDeadResolver
  BY DEF HostInv, WinInv, RestoreInv, NoDeadResolver, WAt, Loopback
<1> QED BY <1>1, HostHolds, PTL

\* A hand-set adapter gets back exactly the servers in place when the backup
\* was written (backupAdapterDNS, loadDNSBackup, restoreAdapterDNS).
THEOREM ServersReturn == Spec => []StaticServersReturn
<1>1. ASSUME HostInv PROVE StaticServersReturn
  BY <1>1 DEF HostInv, WinInv, RestoreInv, StaticServersReturn, WAt, Usable, Kept
<1> QED BY <1>1, HostHolds, PTL

\* The resolver never forwards to a loopback server (stripLoopbackServers,
\* candidateUpstreams).
THEOREM UpstreamIsElsewhere == Spec => []NoLoopbackUpstream
<1>1. HostInv => NoLoopbackUpstream
  BY DEF HostInv, WinInv
<1> QED BY <1>1, HostHolds, PTL
=============================================================================
