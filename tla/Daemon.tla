------------------------------- MODULE Daemon -------------------------------
(***************************************************************************)
(* The daemon process with the certificate and the resolver it keeps while *)
(* it serves.  Server.Start begins both anew once it has the port; when    *)
(* the process is gone its memory is, and only files are left to the next. *)
(***************************************************************************)
EXTENDS LeafReload, DnsServer

daemonVars == <<lifeVars, leafVars, dnsVars>>

\* TLS and DNS are options, which setup turns on; of the two at most one is on here,
\* for they share nothing but the process.
Init ==
    /\ LeafInit /\ DnsInit
    /\ \/ ~tlsOn /\ ~dnsOn /\ LifeInit
       \/ tlsOn # dnsOn /\ AgentInit

\* A step of the process: if another one serves after it, or none, what was in the
\* memory of the one before is lost.
Process(step) ==
    /\ step
    /\ IF TheServer' = TheServer
         THEN UNCHANGED <<leafVars, dnsVars>>
         ELSE /\ LeafAnew(Server' # {})
              /\ \E free \in BOOLEAN : DnsAnew(Server' # {}, free)

Next ==
    \/ \E p \in Pid : Process(Daemon(p))
    \/ Process(SetsUp)
    \/ \E c \in Cli : Process(User(c))
    \/ LeafNext /\ UNCHANGED <<processVars, dnsVars>>
    \/ DnsNext /\ UNCHANGED <<processVars, leafVars>>

\* A started process goes on, launchd gives a loaded agent its process, and the
\* resolver's goroutines run; no user has to type anything and nothing has to fail.
Spec ==
    /\ Init /\ [][Next]_daemonVars
    /\ WF_daemonVars(\E p \in Pid : Process(KeepsAlive(p)))
    /\ \A p \in Pid : WF_daemonVars(Process(Boots(p)))
    /\ \A c \in Client : WF_daemonVars(Serves(c) /\ UNCHANGED <<processVars, leafVars>>)

\* Every variable of the three parts has its type.
TypeOK == LifeTypeOK /\ LeafTypeOK /\ DnsTypeOK
=============================================================================
