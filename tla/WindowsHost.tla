---------------------------- MODULE WindowsHost ----------------------------
(***************************************************************************)
(* What `vibe setup` and `vibe uninstall` do to a Windows machine          *)
(* (cmd/setup_windows.go, cmd/dns_snapshot_windows.go,                     *)
(* cmd/uninstall_windows.go, cmd/dns_probe_windows.go): each adapter's DNS *)
(* servers, the backup of them in dns-backup.json, the resolver's upstream *)
(* in config.json, the port proxies and the Scheduled Task.                *)
(*                                                                         *)
(* Commands run one at a time, step by step; a step may fail, and the      *)
(* process may be killed between two steps.  An adapter's DNS is Unset     *)
(* (from DHCP) or a sequence of servers; "lo" is 127.0.0.1, where vibe's   *)
(* resolver listens, "lo2" any other 127.x address.  An adapter whose link *)
(* is "down" is listed by Get-DnsClientServerAddress but not by            *)
(* Get-NetAdapter as Up.  Certificates and trust are as on a Mac.          *)
(***************************************************************************)
EXTENDS Integers, Sequences, FiniteSets, SequencesExt, Filtering

CONSTANTS
    Adapters,   \* the machine's network adapters
    Statics,    \* server lists a user may set by hand
    MaxTurns    \* bound on commands, user edits and cable changes

ASSUME WinAssumption ==
    /\ MaxTurns \in Nat
    /\ Statics \subseteq Seq(STRING) \ {<<>>}

Unset == <<>>           \* no servers set by hand: those of the DHCP lease
Lease == <<"isp">>
Listener == "lo"
Loopback == {Listener, "lo2"}
Own == <<Listener>>     \* what setup points an adapter at

VARIABLES
    adapter,   \* [link, manual, dns]: cable, address set by hand, DNS servers
    found,     \* the DNS servers in place when the backup was written
    backup,    \* dns-backup.json: [state, snap]
    upstream,  \* daemon.dns.upstream, "none" before setup
    autostart, \* [portproxy, task]: netsh rules and Scheduled Task are there
    cmd,       \* the running command
    refused,   \* a call of the running or last uninstall has failed
    turns

winVars == <<adapter, found, backup, upstream, autostart, cmd, refused, turns>>

NoSnap == [n \in {} |-> Unset]
NoBackup == [state |-> "none", snap |-> NoSnap]

\* todo: adapters still to set; treated: those listed as connected; seen: those
\* verified; hit: one was set; snap: the backup as it was read.
WinIdle == [pc |-> "idle", todo |-> {}, treated |-> {}, seen |-> {}, hit |-> FALSE,
            snap |-> NoSnap]

------------------------------------------------------------------------------
Entry(dhcp, servers) == [dhcp |-> dhcp, servers |-> servers]

Present == {n \in Adapters : adapter[n].link # "absent"}

connectedIPv4Adapters == {n \in Adapters : adapter[n].link = "up"}

\* One row of the PowerShell script: the interface's address mode and the
\* servers in force, whoever set them.
Row(a) == Entry(~a.manual, IF a.dns = Unset /\ ~a.manual THEN Lease ELSE a.dns)

StripEntry_listenerOnly(e) ==
    Entry(e.dhcp, Without(e.servers, {Listener}))

\* An entry without the loopback servers; one left empty counts as DHCP.
StripEntry(e) ==
    LET rest == Without(e.servers, Loopback)
    IN  IF ~e.dhcp /\ rest = <<>> THEN Entry(TRUE, <<>>) ELSE Entry(e.dhcp, rest)

stripLoopbackServers(snap) == [n \in DOMAIN snap |-> StripEntry(snap[n])]

snapshotAdapterDNS == stripLoopbackServers([n \in Present |-> Row(adapter[n])])

Usable(b) == b.state = "ok" /\ DOMAIN b.snap # {}

\* The backup's servers, then the public ones, 127.0.0.1 left out; which of
\* them answers the probe is the network's choice.
candidateUpstreams(b) ==
    {"public"} \cup (UNION {Range(b.snap[n].servers) : n \in DOMAIN b.snap} \ {Listener})

------------------------------------------------------------------------------
WAt(pc) == cmd.pc = pc

WGo(pc) == cmd' = [cmd EXCEPT !.pc = pc]

\* A failed step, a declined prompt or a kill: what was done stays done.
Abandon ==
    /\ ~WAt("idle")
    /\ cmd' = WinIdle
    /\ UNCHANGED <<adapter, found, backup, upstream, autostart, refused, turns>>

Begin(pc) ==
    /\ WAt("idle")
    /\ turns < MaxTurns
    /\ turns' = turns + 1
    /\ WGo(pc)
    /\ refused' = FALSE

\* setupPlatform, past the elevation and port checks and the certificates.
BeginSetup ==
    /\ Begin("portproxy")
    /\ UNCHANGED <<adapter, found, backup, upstream, autostart>>

\* The old rules are deleted before the new ones are added.
installPortProxy ==
    /\ WAt("portproxy")
    /\ autostart' \in {[autostart EXCEPT !.portproxy = b] : b \in BOOLEAN}
    /\ IF autostart'.portproxy THEN WGo("backup") ELSE cmd' = WinIdle
    /\ UNCHANGED <<adapter, found, backup, upstream, refused, turns>>

backupAdapterDNS_overwrites ==
    /\ WAt("backup")
    /\ backup' = [state |-> "ok", snap |-> snapshotAdapterDNS]
    /\ found' = IF Usable(backup) THEN found ELSE [n \in Adapters |-> adapter[n].dns]
    /\ WGo("enumerate")
    /\ UNCHANGED <<adapter, upstream, autostart, refused, turns>>

\* A readable backup that is not empty is kept; a snapshot that fails, or cannot
\* be written and leaves half a file, is only warned about.
backupAdapterDNS ==
    /\ WAt("backup")
    /\ \/ /\ backup' = backup
          /\ UNCHANGED found
          /\ WGo("enumerate")
       \/ /\ ~Usable(backup)
          /\ backup' \in {[state |-> "ok", snap |-> snapshotAdapterDNS],
                         [state |-> "torn", snap |-> NoSnap]}
          /\ found' = [n \in Adapters |-> adapter[n].dns]
          /\ WGo("enumerate")
    /\ UNCHANGED <<adapter, upstream, autostart, refused, turns>>

\* netsh "set dnsservers" on one adapter; it may refuse.
SetDNS(n, servers) ==
    \/ adapter' = [adapter EXCEPT ![n].dns = servers] /\ UNCHANGED refused
    \/ UNCHANGED adapter /\ refused' = TRUE

\* configureDNS: enumerate the connected adapters, none is an error ...
listAdapters ==
    /\ WAt("enumerate")
    /\ connectedIPv4Adapters # {}
    /\ cmd' = [cmd EXCEPT !.pc = "repoint", !.todo = connectedIPv4Adapters]
    /\ UNCHANGED <<adapter, found, backup, upstream, autostart, refused, turns>>

\* ... and repoint each of them.
configureDNS ==
    /\ WAt("repoint")
    /\ \E n \in cmd.todo :
          /\ SetDNS(n, Own)
          /\ cmd' = [cmd EXCEPT !.todo = @ \ {n},
                                !.hit = @ \/ adapter'[n].dns = Own]
    /\ UNCHANGED <<found, backup, upstream, autostart, turns>>

\* One adapter repointed is success.
enableTLSAndDNSWindows ==
    /\ WAt("repoint") /\ cmd.todo = {} /\ cmd.hit
    /\ upstream' \in candidateUpstreams(backup)
    /\ WGo("task")
    /\ UNCHANGED <<adapter, found, backup, autostart, refused, turns>>

installScheduledTask ==
    /\ WAt("task")
    /\ autostart' = [autostart EXCEPT !.task = TRUE]
    /\ cmd' = WinIdle
    /\ UNCHANGED <<adapter, found, backup, upstream, refused, turns>>

------------------------------------------------------------------------------
(* vibe uninstall: task and port proxies go, then the DNS is restored.      *)

BeginUninstall ==
    /\ Begin("restore")
    /\ autostart' = [portproxy |-> FALSE, task |-> FALSE]
    /\ UNCHANGED <<adapter, found, backup, upstream>>

\* Without a usable backup the map is empty; the adapters may fail to list.
loadDNSBackup ==
    /\ WAt("restore")
    /\ \E T \in {connectedIPv4Adapters, {}} :
          /\ cmd' = [cmd EXCEPT !.pc = "adapters", !.todo = T, !.treated = T,
                                !.snap = stripLoopbackServers(backup.snap)]
          /\ refused' = (T # connectedIPv4Adapters)
    /\ UNCHANGED <<adapter, found, backup, upstream, autostart, turns>>

\* The servers the backup asks for: Unset for an adapter it does not know, one
\* on DHCP, one without servers.
Wanted(n) ==
    IF n \notin DOMAIN cmd.snap THEN Unset
    ELSE IF cmd.snap[n].dhcp THEN Unset ELSE cmd.snap[n].servers

\* "add dnsservers" may refuse the second server after "set" took the first.
restoreAdapterDNS ==
    /\ WAt("adapters")
    /\ \E n \in cmd.todo :
          /\ \/ SetDNS(n, Wanted(n))
             \/ /\ Len(Wanted(n)) > 1
                /\ adapter' = [adapter EXCEPT ![n].dns = <<Wanted(n)[1]>>]
                /\ refused' = TRUE
          /\ cmd' = [cmd EXCEPT !.todo = @ \ {n}]
    /\ UNCHANGED <<found, backup, upstream, autostart, turns>>

adaptersNeedingDHCPReset_connected ==
    {n \in connectedIPv4Adapters : Loopback \cap Range(adapter[n].dns) # {}}

\* Adapters, connected or not, that still name a loopback server.
adaptersNeedingDHCPReset == {n \in Present : Loopback \cap Range(adapter[n].dns) # {}}

verifyAndFixLoopbackDNS ==
    /\ WAt("adapters") /\ cmd.todo = {}
    /\ \E fixed \in SUBSET adaptersNeedingDHCPReset :
          /\ adapter' = [n \in Adapters |->
                IF n \in fixed THEN [adapter[n] EXCEPT !.dns = Unset] ELSE adapter[n]]
          /\ refused' = (refused \/ fixed # adaptersNeedingDHCPReset)
    /\ cmd' = [cmd EXCEPT !.pc = "discard", !.seen = Present]
    /\ UNCHANGED <<found, backup, upstream, autostart, turns>>

\* The backup goes once restore and verification have run, if it was read; a
\* torn one stays.
removeDNSBackup ==
    /\ WAt("discard")
    /\ backup' = IF backup.state = "ok" THEN NoBackup ELSE backup
    /\ WGo("gone")
    /\ UNCHANGED <<adapter, found, upstream, autostart, refused, turns>>

\* The CA leaves the root store, the certificates the disk: the command ends.
finishUninstall ==
    /\ WAt("gone")
    /\ cmd' = WinIdle
    /\ UNCHANGED <<adapter, found, backup, upstream, autostart, refused, turns>>

------------------------------------------------------------------------------
\* Between commands the user edits an adapter's DNS; a cable is plugged in or
\* out, an adapter added or removed, at any time.
UserChanges ==
    /\ turns < MaxTurns
    /\ turns' = turns + 1
    /\ \E n \in Adapters :
          \/ /\ WAt("idle")
             /\ \E d \in Statics \cup {Unset} : adapter' = [adapter EXCEPT ![n].dns = d]
          \/ \E l \in {"absent", "down", "up"} \ {adapter[n].link} :
                adapter' = [adapter EXCEPT ![n].link = l]
    /\ UNCHANGED <<found, backup, upstream, autostart, cmd, refused>>

AdapterStates ==
    [link : {"absent", "down", "up"}, manual : BOOLEAN, dns : Statics \cup {Unset, Own}]

WinInit ==
    /\ adapter \in [Adapters -> {a \in AdapterStates : a.dns # Own}]
    /\ found = [n \in Adapters |-> Unset]
    /\ backup = NoBackup /\ upstream = "none"
    /\ autostart = [portproxy |-> FALSE, task |-> FALSE]
    /\ cmd = WinIdle
    /\ refused = FALSE /\ turns = 0

WinNext ==
    \/ BeginSetup \/ installPortProxy \/ backupAdapterDNS \/ listAdapters
    \/ configureDNS \/ enableTLSAndDNSWindows \/ installScheduledTask
    \/ BeginUninstall \/ loadDNSBackup \/ restoreAdapterDNS
    \/ verifyAndFixLoopbackDNS \/ removeDNSBackup \/ finishUninstall
    \/ Abandon \/ UserChanges

------------------------------------------------------------------------------
\* The types; a backup is torn or whole.
WinTypeOK ==
    /\ adapter \in [Adapters -> [link : {"absent", "down", "up"}, manual : BOOLEAN,
                                dns : Seq(STRING)]]
    /\ backup.state \in {"none", "torn", "ok"}
    /\ DOMAIN backup.snap \subseteq Adapters
    /\ cmd.todo \subseteq Adapters /\ DOMAIN cmd.snap \subseteq Adapters
    /\ turns \in 0..MaxTurns

\* An uninstall that no call refused leaves no adapter the machine then had,
\* connected or not, asking the resolver that is gone, whatever earlier setups
\* and uninstalls left half done (restoreAdapterDNS, verifyAndFixLoopbackDNS).
NoDeadResolver ==
    (WAt("gone") /\ ~refused) =>
        \A n \in cmd.seen : Listener \notin Range(adapter[n].dns)

\* However often setup ran, failed or was killed since the backup was written,
\* and whatever the user has edited meanwhile, an uninstall gives an adapter
\* with a hand-set address exactly the servers it had before vibe touched it
\* (backupAdapterDNS keeps the first backup, restoreAdapterDNS).
StaticServersReturn ==
    (WAt("discard") /\ ~refused /\ Usable(backup)) =>
        \A n \in cmd.treated \cap DOMAIN cmd.snap :
            (adapter[n].manual /\ Loopback \cap Range(found[n]) = {}) =>
                adapter[n].dns = found[n]

\* The resolver never forwards to itself nor to another loopback server, also
\* when a backup was written after adapters had been repointed
\* (stripLoopbackServers, candidateUpstreams).
NoLoopbackUpstream == upstream \notin Loopback
=============================================================================
