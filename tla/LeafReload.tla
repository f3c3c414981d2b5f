----------------------------- MODULE LeafReload -----------------------------
(***************************************************************************)
(* The TLS certificate of the serving daemon (daemon.go, startTLS,         *)
(* tlsHostnames, reloadTLSCert; internal/cert/cert.go).  It names every    *)
(* route one by one (Chrome rejects *.vibe), so each saved change of the   *)
(* route table, and each new list of a peer, makes a leaf anew: names      *)
(* read, certificate and key written, both files read back, the served     *)
(* leaf swapped.  Only the swap holds a lock; the goroutine that starts    *)
(* HTTPS and any number of handlers go through these steps together, over  *)
(* the same two files.  `vibe setup`, another process, writes them too,    *)
(* when it finds no certificate there that can be read.                    *)
(***************************************************************************)
EXTENDS DaemonProcess

CONSTANTS
    Name,     \* route names
    Peered,   \* those that a peer may list
    Handler,  \* requests and peer sweeps that change the names
    Boot,     \* the goroutine of startTLS
    Setup     \* `vibe setup`, run again

ASSUME PeeredAssumption == Peered \subseteq Name
ASSUME BootAssumption == Boot \notin Handler /\ Setup \notin Handler \cup {Boot}

VARIABLES
    tlsOn,    \* cfg.Daemon.TLS.Enabled
    ca,       \* s.caCert and s.caKey are set
    names,    \* the names of the table
    peers,    \* those of the peers' lists
    certFile, \* vibe.pem: the key it belongs to, the names in it; key 0: torn
    keyFile,  \* vibe-key.pem: a key; 0: torn or absent
    made,     \* keys made so far
    leaf,     \* the names in the leaf served
    https,    \* "closed" or "open"; "failed" once startTLS has given up
    job,      \* per job: where it is, the names it read, those and the key of the pair in
             \* hand, whether it is alone
    covered   \* names that a reload no other overlapped put into the leaf

leafVars == <<tlsOn, ca, names, peers, certFile, keyFile, made, leaf, https, job, covered>>

Registered == names \cup peers
Job == Handler \cup {Boot, Setup}
NoJob == [pc |-> "none", wants |-> {}, names |-> {}, key |-> 0, alone |-> TRUE]
Torn == [key |-> 0, names |-> {}]

LeafTypeOK ==
    /\ {tlsOn, ca} \subseteq BOOLEAN
    /\ {names, leaf, covered} \subseteq SUBSET Name /\ peers \subseteq Peered
    /\ certFile \in [key : 0..made, names : SUBSET Name]
    /\ keyFile \in 0..made
    /\ https \in {"closed", "open", "failed"}
    /\ job \in [Job -> [pc : {"none", "ca", "names", "peers", "cert", "key",
                              "loadCert", "loadKey", "swap"},
                        wants : SUBSET Name, names : SUBSET Name, key : 0..made,
                        alone : BOOLEAN]]

LeafInit ==
    /\ tlsOn \in BOOLEAN
    /\ ca = FALSE /\ names = {} /\ peers = {}
    /\ certFile = Torn /\ keyFile = 0 /\ made = 0
    /\ leaf = {} /\ https = "closed"
    /\ job = [j \in Job |-> NoJob]
    /\ covered = {}

\* A daemon's memory as it begins to serve (boots) or is gone: the files stay, setup
\* goes on, the names that were saved are read back, the peers' lists are lost.
LeafAnew(boots) ==
    /\ ca' = FALSE /\ leaf' = {} /\ https' = "closed" /\ covered' = {}
    /\ job' = [j \in Job |-> CASE j = Setup -> job[j]
                               [] boots /\ tlsOn /\ j = Boot -> [NoJob EXCEPT !.pc = "ca"]
                               [] OTHER -> NoJob]
    /\ names' \in SUBSET names /\ peers' = {}
    /\ UNCHANGED <<tlsOn, certFile, keyFile, made>>

-----------------------------------------------------------------------------
Active(j) == job[j].pc \notin {"none", "ca"}

\* j comes to the files, at pc: those there are no longer alone, nor is j among them.
Enters(j, pc) ==
    job' = [k \in Job |->
              IF k = j THEN [NoJob EXCEPT !.pc = pc,
                                          !.alone = ~\E i \in Job \ {j} : Active(i)]
              ELSE [job[k] EXCEPT !.alone = job[k].alone /\ ~Active(k)]]

\* A job of the daemon goes on while that serves, setup by itself.
At(j, pc) == (Server # {} \/ j = Setup) /\ job[j].pc = pc
To(j, pc) == job' = [job EXCEPT ![j].pc = pc]

\* An error is logged and forgotten, except for the first reload: startTLS returns.
Fails(j) ==
    /\ job' = [job EXCEPT ![j] = NoJob]
    /\ https' = IF j = Boot THEN "failed" ELSE https

\* EnsureCA loads or makes the authority, or cannot; from now on handlers reload too.
startTLS ==
    /\ At(Boot, "ca")
    /\ \/ ca' = TRUE /\ Enters(Boot, "names") /\ UNCHANGED <<https, events>>
       \/ ca' = FALSE /\ Fails(Boot) /\ Event
    /\ UNCHANGED <<tlsOn, names, peers, certFile, keyFile, made, leaf, covered>>

Toggled(n, set) == IF n \in set THEN set \ {n} ELSE set \cup {n}

\* n comes to the table or a peer's list, or goes.
Changes(n) ==
    /\ Server # {} /\ tlsOn /\ Event
    /\ \/ names' = Toggled(n, names) /\ UNCHANGED peers
       \/ n \in Peered /\ peers' = Toggled(n, peers) /\ UNCHANGED names
    /\ covered' = covered \ {n}
    /\ UNCHANGED <<tlsOn, ca, certFile, keyFile, made, leaf, https>>

\* A saved change of the table and a new list of a peer reload the leaf.  Before
\* startTLS has its authority a reload is nothing.
ChangesNames(h, n) ==
    /\ job[h].pc = "none"
    /\ Changes(n)
    /\ IF ca THEN Enters(h, "names") ELSE UNCHANGED job

\* A temporary route comes or goes, a peer is removed: nothing is reloaded.
ChangesTemporary(n) ==
    /\ Changes(n)
    /\ peers' \subseteq peers
    /\ UNCHANGED job

\* tlsHostnames: the table first, ...
tlsHostnames(j) ==
    /\ At(j, "names")
    /\ job' = [job EXCEPT ![j].pc = "peers", ![j].wants = names]
    /\ UNCHANGED <<tlsOn, ca, names, peers, certFile, keyFile, made, leaf, https, covered,
                   events>>

\* ... then, under a lock of their own, the peers' lists.
peerRouteNames(j) ==
    /\ At(j, "peers")
    /\ job' = [job EXCEPT ![j].pc = "cert", ![j].wants = @ \cup peers]
    /\ UNCHANGED <<tlsOn, ca, names, peers, certFile, keyFile, made, leaf, https, covered,
                   events>>

\* EnsureLeaf (setup's generateCerts): only a certificate that cannot be read is
\* replaced, for local.vibe is in all of them and none gets old here; the key is not
\* looked at.
EnsuresLeaf ==
    /\ tlsOn /\ job[Setup].pc = "none" /\ certFile.key = 0 /\ Event
    /\ Enters(Setup, "cert")
    /\ UNCHANGED <<tlsOn, ca, names, peers, certFile, keyFile, made, leaf, https, covered>>

\* Setup writes over the certificate of a reload that has not read it yet: it will
\* get one without any name.
Overwrites(j) ==
    covered' = IF j = Setup /\ \E i \in Job \ {j} : job[i].pc \in {"key", "loadCert"}
               THEN {} ELSE covered

\* Defect: EnsureLeaf in place of GenerateLeaf, without its look at the names.
GeneratesLeaf_reuses(j) ==
    /\ At(j, "cert")
    /\ IF certFile.key # 0 /\ certFile.key = keyFile
         THEN To(j, "loadCert") /\ UNCHANGED <<certFile, made>>
         ELSE /\ made' = made + 1
              /\ certFile' = [key |-> made', names |-> job[j].wants]
              /\ job' = [job EXCEPT ![j].pc = "key", ![j].key = made']
    /\ Overwrites(j)
    /\ UNCHANGED <<tlsOn, ca, names, peers, keyFile, leaf, https, events>>

\* generateLeaf: a new key; the certificate is written first, ...
GeneratesLeaf(j) ==
    /\ At(j, "cert")
    /\ made' = made + 1
    /\ certFile' = [key |-> made', names |-> job[j].wants]
    /\ job' = [job EXCEPT ![j].pc = "key", ![j].key = made']
    /\ Overwrites(j)
    /\ UNCHANGED <<tlsOn, ca, names, peers, keyFile, leaf, https, events>>

\* Defect: a key file that exists is kept.
WritesKey_keeps(j) ==
    /\ At(j, "key")
    /\ keyFile' = IF keyFile = 0 THEN job[j].key ELSE keyFile
    /\ IF j = Setup THEN job' = [job EXCEPT ![j] = NoJob] ELSE To(j, "loadCert")
    /\ UNCHANGED <<tlsOn, ca, names, peers, certFile, made, leaf, https, covered, events>>

\* ... then the key, with which setup is done, ...
WritesKey(j) ==
    /\ At(j, "key")
    /\ keyFile' = job[j].key
    /\ IF j = Setup THEN job' = [job EXCEPT ![j] = NoJob] ELSE To(j, "loadCert")
    /\ UNCHANGED <<tlsOn, ca, names, peers, certFile, made, leaf, https, covered, events>>

\* ... unless a write fails: its file is left as it was (it does not open, setup is
\* killed) or torn (writePEM truncates).
WriteFails(j) ==
    /\ Event
    /\ \/ At(j, "cert") /\ certFile' \in {certFile, Torn} /\ UNCHANGED keyFile
       \/ At(j, "key") /\ keyFile' \in {keyFile, 0} /\ UNCHANGED certFile
    /\ Fails(j)
    /\ UNCHANGED <<tlsOn, ca, names, peers, made, leaf, covered>>

\* LoadX509KeyPair reads whatever certificate is on file by now, ...
LoadsCert(j) ==
    /\ At(j, "loadCert")
    /\ job' = [job EXCEPT ![j].pc = "loadKey", ![j].names = certFile.names,
                          ![j].key = certFile.key]
    /\ UNCHANGED <<tlsOn, ca, names, peers, certFile, keyFile, made, leaf, https, covered,
                   events>>

\* ... and whatever key: if it is another certificate's, that is an error.
LoadsKey(j) ==
    /\ At(j, "loadKey")
    /\ IF job[j].key # 0 /\ job[j].key = keyFile
         THEN To(j, "swap") /\ UNCHANGED https
         ELSE Fails(j)
    /\ UNCHANGED <<tlsOn, ca, names, peers, certFile, keyFile, made, leaf, covered, events>>

\* The swap under tlsMu; after the first one startTLS opens the listener, or its
\* port is taken.
SwapsLeaf(j) ==
    /\ At(j, "swap")
    /\ leaf' = job[j].names
    /\ covered' = IF job[j].alone THEN job[j].wants \cap Registered ELSE covered
    /\ job' = [job EXCEPT ![j] = NoJob]
    /\ \/ https' = (IF j = Boot THEN "open" ELSE https) /\ UNCHANGED events
       \/ j = Boot /\ https' = "failed" /\ Event
    /\ UNCHANGED <<tlsOn, ca, names, peers, certFile, keyFile, made>>

Reload(j) ==
    \/ tlsHostnames(j) \/ peerRouteNames(j) \/ GeneratesLeaf(j)
    \/ WritesKey(j) \/ WriteFails(j) \/ LoadsCert(j) \/ LoadsKey(j) \/ SwapsLeaf(j)

LeafNext ==
    \/ startTLS \/ EnsuresLeaf
    \/ \E n \in Name : ChangesTemporary(n) \/ \E h \in Handler : ChangesNames(h, n)
    \/ \E j \in Job : Reload(j)

-----------------------------------------------------------------------------
\* Properties

\* A name that a reload put into the leaf while no other reload was under way stays
\* served for as long as nothing about its registration changes, however later reloads
\* overlap: they may swap leaves in another order than they read names, mix the two
\* files, or fail.  (A name whose own reload overlapped another may be missing until
\* the next one; so may every name once setup has written its own certificate between
\* a reload's write and its read.)
CoveredNamesAreServed == covered \subseteq leaf

\* startTLS gives up at a pair that does not match only when another reload or setup
\* was under way over the same files, or a write or the listener failed: a pair torn
\* by a daemon or a setup that died is no obstacle.
LoneBootOpensHTTPS ==
    [][https # "failed" /\ https' = "failed"
          => ~job[Boot].alone \/ events' = events + 1]_leafVars
=============================================================================
