------------------------------ MODULE MacHost ------------------------------
(***************************************************************************)
(* What `vibe setup`, `vibe uninstall`, `vibe doctor --fix` and the root   *)
(* LaunchDaemon's `vibe pf-apply` do to a Mac (cmd/setup_darwin.go,        *)
(* cmd/uninstall_darwin.go, cmd/pf_darwin.go, cmd/doctor.go): the two      *)
(* lines they keep in /etc/pf.conf, vibe's anchor file, the live pf        *)
(* ruleset, the TLS port in config.json and the one baked into the plist,  *)
(* and the CA on disk and in the Keychain.                                 *)
(*                                                                         *)
(* Every root process is a member of Procs and walks the same steps for    *)
(* the part of the code it shares: "net" is the LaunchDaemon's pf-apply,   *)
(* "fix" the one doctor --fix runs, "setup" and "un" the two commands.     *)
(* One person runs one command at a time; "net" runs at any moment.        *)
(* Between the steps of each of them macOS, a VPN and the user may change  *)
(* pf.conf, the live rules and the configuration (Disturb), at most        *)
(* MaxEvents times.  The HTTP port is treated like the TLS port by the pf  *)
(* code and never rewritten by setup, so one port stands for both.         *)
(***************************************************************************)
EXTENDS Integers, Sequences, FiniteSets, SequencesExt, FiniteSetsExt, Filtering

CONSTANTS
    Stock,        \* the pf.conf files macOS or the user may put in place
    Ports,        \* TLS ports a configuration may name
    DefaultPort,  \* 7443
    MaxEvents,    \* bound on commands and disturbances
    MaxCA         \* bound on generated certificate authorities

ASSUME MacAssumption ==
    /\ DefaultPort \in Ports
    /\ 0 \notin Ports
    /\ MaxEvents \in Nat
    /\ MaxCA \in Nat

Procs == {"net", "fix", "setup", "un"}
Commands == Procs \ {"net"}

VARIABLES
    file,     \* /etc/pf.conf, one kind per line
    others,   \* the file as somebody other than vibe last wrote it
    raced,    \* vibe has overwritten a file it had not read, or cut one short
    anchor,   \* the port in /etc/pf.anchors/com.vibe, 0: no file
    live,     \* the running pf: calls our anchor, holds a guest's, rules, on
    cfg,      \* the TLS port in ~/.vibe/config.json
    plist,    \* the port baked into com.vibe.pf.plist, 0: not installed
    agent,    \* the user's LaunchAgent: "absent", "stopped" or "loaded"
    dns,      \* [marker, resolver]: dnsmasq.conf entries, /etc/resolver/vibe
    ca,       \* [disk, trusted, made]: CA on disk, in the Keychain, generated
    vouched,  \* a setup trusted the CA on disk; nobody has undone that since
    proc,     \* the root processes
    clean,    \* the last command was an uninstall, and no step of it failed
    events

macVars == <<file, others, raced, anchor, live, cfg, plist, agent, dns, ca,
             vouched, proc, clean, events>>

NoRules == [call |-> FALSE, guest |-> FALSE, rules |-> 0, on |-> FALSE]
NoDNS == [marker |-> 0, resolver |-> FALSE]
NoCA == [disk |-> 0, trusted |-> {}, made |-> 0]

\* base, text: pf.conf as it was read, and what will replace it; failed: a step
\* of this uninstall did not succeed.
Idle == [pc |-> "idle", port |-> 0, base |-> <<>>, text |-> <<>>, ours |-> FALSE,
         changed |-> FALSE, failed |-> FALSE]

------------------------------------------------------------------------------
(* pf.conf.  pfctl wants translation before dummynet before filter lines;  *)
(* directives, comments and blank lines may stand anywhere.                *)

Rank(kind) == CASE kind \in {"translation", "vRdr"} -> 1
                [] kind = "dummynet" -> 2
                [] kind = "filter" -> 3
                [] OTHER -> 0

Loadable(conf) ==
    \A i, j \in 1..Len(conf) :
        (i < j /\ Rank(conf[j]) > 0) => Rank(conf[i]) <= Rank(conf[j])

\* What macOS or the user puts in place is a file pfctl loads, without vibe's
\* two lines.
Theirs == {"translation", "dummynet", "filter", "other", "blank"}
Kinds == Theirs \cup {"vRdr", "vLoad"}

ASSUME StockAssumption == Stock \subseteq {c \in Seq(Theirs) : Loadable(c)}

HasLine(conf, kind) == \E i \in 1..Len(conf) : conf[i] = kind

InsertionPoint(conf) ==
    LET T == {i \in 1..Len(conf) : conf[i] = "translation"}
        F == {i \in 1..Len(conf) : conf[i] = "filter"}
    IN  IF T # {} THEN Max(T) + 1 ELSE IF F # {} THEN Min(F) ELSE Len(conf) + 1

AddReference(conf) ==
    IF HasLine(conf, "vRdr") THEN conf ELSE InsertAt(conf, InsertionPoint(conf), "vRdr")

AddLoad_overBlank(conf) ==
    IF HasLine(conf, "vLoad") THEN conf
    ELSE IF conf # <<>> /\ Last(conf) = "blank"
         THEN Append(Front(conf), "vLoad") ELSE Append(conf, "vLoad")

AddLoad(conf) ==
    IF HasLine(conf, "vLoad") THEN conf
    ELSE IF conf # <<>> /\ Last(conf) = "blank"
         THEN Front(conf) \o <<"vLoad", "blank">>
         ELSE Append(conf, "vLoad")

patchPFConf(conf) == AddLoad(AddReference(conf))

stripPFConf(conf) == Without(conf, {"vRdr", "vLoad"})

Referenced(conf) == HasLine(conf, "vRdr") /\ HasLine(conf, "vLoad")

\* `pfctl -f /etc/pf.conf`: all or nothing; a guest's anchor call, which only
\* the live ruleset names, does not survive it.
LoadMain(l) ==
    IF Loadable(file) /\ (HasLine(file, "vLoad") => anchor # 0)
    THEN [l EXCEPT !.call = HasLine(file, "vRdr"), !.guest = FALSE,
                   !.rules = IF HasLine(file, "vLoad") THEN anchor ELSE @]
    ELSE l

Works(l, port) == l.on /\ l.call /\ l.rules = port

------------------------------------------------------------------------------
At(p, pc) == proc[p].pc = pc

Go(p, pc) == proc' = [proc EXCEPT ![p].pc = pc]

Quit(p) == proc' = [proc EXCEPT ![p] = Idle]

\* The user starts a command: one at a time.
StartCommand(p, pc, port) ==
    /\ \A c \in Commands : At(c, "idle")
    /\ events < MaxEvents
    /\ events' = events + 1
    /\ proc' = [proc EXCEPT ![p] = [Idle EXCEPT !.pc = pc, !.port = port]]
    /\ clean' = FALSE
    /\ UNCHANGED <<file, others, raced, anchor, live, cfg, plist, agent, dns, ca, vouched>>

\* launchd runs pf-apply at boot and on a network change, never twice at once.
NetworkChange ==
    /\ plist # 0
    /\ At("net", "idle")
    /\ proc' = [proc EXCEPT !["net"] = [Idle EXCEPT !.pc = "anchor", !.port = plist]]
    /\ UNCHANGED <<file, others, raced, anchor, live, cfg, plist, agent, dns, ca, vouched, clean, events>>

\* doctor --fix acts when a request through the redirect goes unanswered, be it
\* the redirect's fault or that of a daemon that is down.
DoctorFix == StartCommand("fix", "anchor", cfg)

RunSetup == StartCommand("setup", "dnsmasq", 0)

RunUninstall == StartCommand("un", "agents", 0)

writePFAnchorFile(p) ==
    /\ At(p, "anchor")
    /\ anchor' = proc[p].port
    /\ Go(p, "read")
    /\ UNCHANGED <<file, others, raced, live, cfg, plist, agent, dns, ca, vouched, clean, events>>

AfterPatch(p) == IF p = "setup" THEN "plist" ELSE "reload"

\* ensurePFConfReferencesAnchor reads pf.conf, and is done when both lines
\* are there; else it patches the text it has read ...
readPFConf(p) ==
    /\ At(p, "read")
    /\ IF Referenced(file)
       THEN proc' = [proc EXCEPT ![p].ours = TRUE, ![p].changed = FALSE,
                                 ![p].pc = AfterPatch(p)]
       ELSE proc' = [proc EXCEPT ![p].base = file, ![p].text = patchPFConf(file),
                                 ![p].pc = "swap"]
    /\ UNCHANGED <<file, others, raced, anchor, live, cfg, plist, agent, dns, ca, vouched, clean, events>>

swapPFConf_unvetted(p) ==
    /\ At(p, "swap")
    /\ file' = proc[p].text
    /\ raced' = (raced \/ stripPFConf(proc[p].base) # stripPFConf(file))
    /\ proc' = [proc EXCEPT ![p].base = <<>>, ![p].text = <<>>, ![p].ours = TRUE,
                            ![p].changed = TRUE, ![p].pc = AfterPatch(p)]
    /\ UNCHANGED <<others, anchor, live, cfg, plist, agent, dns, ca, vouched, clean, events>>

\* ... has pfctl vet it beside the real file and renames it into place.
swapPFConf(p) ==
    /\ At(p, "swap")
    /\ LET text   == proc[p].text
           base   == proc[p].base
           vetted == Loadable(text)
       IN  /\ file' = IF vetted THEN text ELSE file
           /\ raced' = (raced \/ (vetted /\ stripPFConf(base) # stripPFConf(file)))
           /\ proc' = [proc EXCEPT ![p].base = <<>>, ![p].text = <<>>, ![p].ours = vetted,
                                   ![p].changed = vetted, ![p].pc = AfterPatch(p)]
    /\ UNCHANGED <<others, anchor, live, cfg, plist, agent, dns, ca, vouched, clean, events>>

NeedsReload_changedOnly(p) == proc[p].ours /\ proc[p].changed

NeedsReload_ungated(p) == proc[p].changed \/ ~live.call

\* Reload the main ruleset, but only when the file can attach our anchor.
NeedsReload(p) == proc[p].ours /\ (proc[p].changed \/ ~live.call)

reloadMain(p) ==
    /\ At(p, "reload")
    /\ live' = IF NeedsReload(p) THEN LoadMain(live) ELSE live
    /\ Go(p, "load")
    /\ UNCHANGED <<file, others, raced, anchor, cfg, plist, agent, dns, ca, vouched, clean, events>>

\* Load the anchor alone unless it already holds this run's ports; a missing
\* anchor file is an error, and the run ends there.
loadAnchor(p) ==
    /\ At(p, "load")
    /\ \/ /\ live.rules = proc[p].port
          /\ Go(p, "enable")
          /\ UNCHANGED live
       \/ /\ live.rules # proc[p].port
          /\ anchor # 0
          /\ live' = [live EXCEPT !.rules = anchor]
          /\ Go(p, "enable")
       \/ /\ live.rules # proc[p].port
          /\ anchor = 0
          /\ Quit(p)
          /\ UNCHANGED live
    /\ UNCHANGED <<file, others, raced, anchor, cfg, plist, agent, dns, ca, vouched, clean, events>>

enablePF(p) ==
    /\ At(p, "enable")
    /\ live' = [live EXCEPT !.on = TRUE]
    /\ Quit(p)
    /\ UNCHANGED <<file, others, raced, anchor, cfg, plist, agent, dns, ca, vouched, clean, events>>

reassertPFRules(p) ==
    writePFAnchorFile(p) \/ readPFConf(p) \/ swapPFConf(p) \/ reloadMain(p)
        \/ loadAnchor(p) \/ enablePF(p)

------------------------------------------------------------------------------
(* vibe setup: a list of steps, the first failing one ends it.              *)

At1(pc) == At("setup", pc)

\* Homebrew and dnsmasq are there; the entry is appended to dnsmasq.conf once.
configureDNSMasq ==
    /\ At1("dnsmasq")
    /\ dns' = [dns EXCEPT !.marker = IF @ = 0 THEN 1 ELSE @]
    /\ Go("setup", "resolver")
    /\ UNCHANGED <<file, others, raced, anchor, live, cfg, plist, agent, ca, vouched, clean, events>>

createResolver ==
    /\ At1("resolver")
    /\ dns' = [dns EXCEPT !.resolver = TRUE]
    /\ Go("setup", "ports")
    /\ UNCHANGED <<file, others, raced, anchor, live, cfg, plist, agent, ca, vouched, clean, events>>

configuredDaemonPorts ==
    /\ At1("ports")
    /\ proc' = [proc EXCEPT !["setup"].pc = "anchor", !["setup"].port = cfg]
    /\ UNCHANGED <<file, others, raced, anchor, live, cfg, plist, agent, dns, ca, vouched, clean, events>>

\* The plist is written, the old job unloaded (which ends a running pf-apply)
\* and the new one loaded, which runs it at once unless launchctl refuses.
installPFLaunchDaemon ==
    /\ At1("plist")
    /\ plist' = proc["setup"].port
    /\ \/ proc' = [proc EXCEPT !["setup"].pc = "certs",
                               !["net"] = [Idle EXCEPT !.pc = "anchor", !.port = plist']]
       \/ proc' = [proc EXCEPT !["setup"] = Idle, !["net"] = Idle]
    /\ UNCHANGED <<file, others, raced, anchor, live, cfg, agent, dns, ca, vouched, clean, events>>

\* cert.EnsureCA: reuse what is on disk, generate otherwise.
EnsureCA_afresh(c) == [c EXCEPT !.disk = c.made + 1, !.made = @ + 1]

EnsureCA(c) ==
    IF c.disk # 0 THEN c ELSE [c EXCEPT !.disk = c.made + 1, !.made = @ + 1]

generateCerts ==
    /\ At1("certs")
    /\ EnsureCA(ca).made <= MaxCA
    /\ ca' = EnsureCA(ca)
    /\ Go("setup", "trust")
    /\ UNCHANGED <<file, others, raced, anchor, live, cfg, plist, agent, dns, vouched, clean, events>>

\* Deletes one certificate of that name, whichever `security` finds first, or
\* none: its error is dropped.
DeleteByName(T) == {T} \cup {T \ {c} : c \in T}

\* An old root is deleted, if that succeeds, and the CA on disk added.
TrustCA ==
    /\ At1("trust")
    /\ ca.disk # 0
    /\ \E T \in DeleteByName(ca.trusted) : ca' = [ca EXCEPT !.trusted = T \cup {ca.disk}]
    /\ vouched' = TRUE
    /\ Go("setup", "tls")
    /\ UNCHANGED <<file, others, raced, anchor, live, cfg, plist, agent, dns, clean, events>>

\* daemon.tls is replaced as a whole, its port by the default.
enableTLSConfig ==
    /\ At1("tls")
    /\ cfg' = DefaultPort
    /\ Go("setup", "agent")
    /\ UNCHANGED <<file, others, raced, anchor, live, plist, agent, dns, ca, vouched, clean, events>>

installLaunchAgent ==
    /\ At1("agent")
    /\ agent' = "stopped"
    /\ Go("setup", "verify")
    /\ UNCHANGED <<file, others, raced, anchor, live, cfg, plist, dns, ca, vouched, clean, events>>

\* DNS verified; the daemon is started now or at the next login.
finishSetup ==
    /\ At1("verify")
    /\ agent' \in {agent, "loaded"}
    /\ Quit("setup")
    /\ UNCHANGED <<file, others, raced, anchor, live, cfg, plist, dns, ca, vouched, clean, events>>

\* Any step but the pf.conf patch, which only warns, may fail.  TrustCA then
\* may have deleted the old certificate already.
failSetup ==
    /\ proc["setup"].pc \notin {"idle", "read", "swap"}
    /\ \/ UNCHANGED <<ca, vouched>>
       \/ /\ At1("trust")
          /\ \E T \in DeleteByName(ca.trusted) : ca' = [ca EXCEPT !.trusted = T]
          /\ vouched' = FALSE
    /\ Quit("setup")
    /\ UNCHANGED <<file, others, raced, anchor, live, cfg, plist, agent, dns, clean, events>>

SetupStep ==
    \/ configureDNSMasq \/ createResolver \/ configuredDaemonPorts
    \/ writePFAnchorFile("setup") \/ readPFConf("setup") \/ swapPFConf("setup")
    \/ installPFLaunchDaemon \/ generateCerts \/ TrustCA \/ enableTLSConfig
    \/ installLaunchAgent \/ finishSetup \/ failSetup

------------------------------------------------------------------------------
(* vibe uninstall: every step is tried whatever became of the one before;  *)
(* the errors are dropped (best effort).                                    *)

At2(pc) == At("un", pc)

\* A step does what it is there for, or it fails (at most MaxEvents times).
Succeeds(done) ==
    \/ done /\ UNCHANGED events
    \/ ~done /\ events < MaxEvents /\ events' = events + 1

\* The uninstall goes on either way.
GoOn(pc, done) ==
    /\ Succeeds(done)
    /\ proc' = [proc EXCEPT !["un"].pc = pc, !["un"].failed = @ \/ ~done]

unloadJobs_leavesNet ==
    /\ At2("agents")
    /\ agent' = "absent"
    /\ plist' = 0
    /\ GoOn("flush", TRUE)
    /\ UNCHANGED <<file, others, raced, anchor, live, cfg, dns, ca, vouched, clean>>

\* `launchctl unload` ends a running pf-apply; it and the removals may fail.
unloadJobs ==
    /\ At2("agents")
    /\ agent' \in {agent, "absent"}
    /\ plist' \in {plist, 0}
    /\ \E net \in {proc["net"], Idle} :
          LET done == agent' = "absent" /\ plist' = 0 /\ net = Idle
          IN  /\ Succeeds(done)
              /\ proc' = [proc EXCEPT !["un"].pc = "flush", !["un"].failed = ~done,
                                      !["net"] = net]
    /\ UNCHANGED <<file, others, raced, anchor, live, cfg, dns, ca, vouched, clean>>

flushAnchor ==
    /\ At2("flush")
    /\ \E rules \in {live.rules, 0} :
          /\ live' = [live EXCEPT !.rules = rules]
          /\ anchor' \in {anchor, 0}
          /\ GoOn("strip", rules = 0 /\ anchor' = 0)
    /\ UNCHANGED <<file, others, raced, cfg, plist, agent, dns, ca, vouched, clean>>

\* pf.conf is read, and stripped in memory; without our lines nothing is left to
\* do ...
readToStrip ==
    /\ At2("strip")
    /\ \/ /\ stripPFConf(file) # file
          /\ proc' = [proc EXCEPT !["un"].pc = "write", !["un"].base = file,
                                   !["un"].text = stripPFConf(file)]
          /\ UNCHANGED events
       \/ stripPFConf(file) = file /\ GoOn("rest", TRUE)
       \/ GoOn("rest", FALSE)
    /\ UNCHANGED <<file, others, raced, anchor, live, cfg, plist, agent, dns, ca, vouched, clean>>

\* ... and written over whatever is there by now: in place, so that a write that
\* fails leaves the file as it was or empty.
restorePFConf ==
    /\ At2("write")
    /\ LET base == proc["un"].base
           text == proc["un"].text
       IN  \E kept \in {text, file, <<>>}, done \in BOOLEAN :
              /\ done <=> kept = text
              /\ Succeeds(done)
              /\ file' = kept
              /\ raced' = (raced \/ (done /\ stripPFConf(base) # stripPFConf(file))
                                 \/ (~done /\ kept # file))
              /\ proc' = [proc EXCEPT !["un"].base = <<>>, !["un"].text = <<>>,
                             !["un"].pc = IF done THEN "unload" ELSE "rest",
                             !["un"].failed = @ \/ ~done]
    /\ UNCHANGED <<others, anchor, live, cfg, plist, agent, dns, ca, vouched, clean>>

reloadStripped ==
    /\ At2("unload")
    /\ \/ live' = LoadMain(live) /\ GoOn("rest", TRUE)
       \/ UNCHANGED live /\ GoOn("rest", FALSE)
    /\ UNCHANGED <<file, others, raced, anchor, cfg, plist, agent, dns, ca, vouched, clean>>

\* The resolver file, the CA (by thumbprint while it is on disk, else by name)
\* and the certificates; dnsmasq.conf keeps its entry.
removeRest ==
    /\ At2("rest")
    /\ dns' \in {dns, [dns EXCEPT !.resolver = FALSE]}
    /\ \E T \in IF ca.disk # 0 THEN {ca.trusted, ca.trusted \ {ca.disk}}
                ELSE DeleteByName(ca.trusted) :
       \E disk \in {ca.disk, 0} : ca' = [ca EXCEPT !.trusted = T, !.disk = disk]
    /\ vouched' = FALSE
    /\ LET done == ~dns'.resolver /\ ca'.disk = 0 /\ ca.disk \notin ca'.trusted
       IN  Succeeds(done) /\ clean' = (done /\ ~proc["un"].failed)
    /\ Quit("un")
    /\ UNCHANGED <<file, others, raced, anchor, live, cfg, plist, agent>>

UninstallStep ==
    unloadJobs \/ flushAnchor \/ readToStrip \/ restorePFConf \/ reloadStripped
        \/ removeRest

------------------------------------------------------------------------------
(* What else happens to a Mac.                                              *)

DisturbPF ==
    \/ /\ \E c \in Stock : file' = c /\ others' = c          \* a macOS update
       /\ raced' = FALSE
       /\ UNCHANGED live
    \/ /\ HasLine(file, "vRdr")                               \* edited by hand
       /\ file' = Without(file, {"vRdr"})
       /\ UNCHANGED <<others, raced, live>>
    \/ /\ live' \in {[live EXCEPT !.call = FALSE],            \* pfctl -F all
                     [live EXCEPT !.call = FALSE, !.guest = TRUE],  \* a VPN's file
                     [LoadMain(live) EXCEPT !.on = FALSE],    \* a boot
                     LoadMain(live)}                          \* Docker, a VM
       /\ UNCHANGED <<file, others, raced>>

Disturb ==
    /\ events < MaxEvents
    /\ events' = events + 1
    /\ \/ DisturbPF /\ UNCHANGED <<cfg, ca, vouched>>
       \/ /\ cfg' \in Ports \ {cfg}
          /\ UNCHANGED <<file, others, raced, live, ca, vouched>>
       \/ /\ ca.disk # 0                                      \* certs removed by hand
          /\ ca' = [ca EXCEPT !.disk = 0]
          /\ vouched' = FALSE
          /\ UNCHANGED <<file, others, raced, live, cfg>>
    /\ UNCHANGED <<anchor, plist, agent, dns, proc, clean>>

\* The daemon generates a CA when it starts with TLS on and finds none.
DaemonEnsuresCA ==
    /\ agent = "loaded" /\ ca.disk = 0 /\ ca.made < MaxCA
    /\ ca' = EnsureCA(ca)
    /\ UNCHANGED <<file, others, raced, anchor, live, cfg, plist, agent, dns, vouched, proc, clean, events>>

\* A VPN puts its own anchor call (back) into the live ruleset.
GuestReturns ==
    /\ ~live.guest
    /\ live' = [live EXCEPT !.guest = TRUE]
    /\ UNCHANGED <<file, others, raced, anchor, cfg, plist, agent, dns, ca, vouched, proc, clean, events>>

MacInit ==
    /\ file \in Stock /\ others = file
    /\ raced = FALSE
    /\ anchor = 0 /\ plist = 0
    /\ live = NoRules
    /\ cfg \in Ports
    /\ agent = "absent" /\ dns = NoDNS /\ ca = NoCA /\ vouched = FALSE
    /\ proc = [p \in Procs |-> Idle]
    /\ clean = TRUE
    /\ events = 0

NetStep == NetworkChange \/ reassertPFRules("net")

MacNext ==
    \/ NetStep
    \/ DoctorFix \/ RunSetup \/ RunUninstall
    \/ reassertPFRules("fix") \/ SetupStep \/ UninstallStep
    \/ Disturb \/ DaemonEnsuresCA \/ GuestReturns

MacFairness == WF_macVars(NetStep)

------------------------------------------------------------------------------
\* The types; dnsmasq.conf never gets vibe's entry twice, however often setup
\* is run (configureDNSMasq).
MacTypeOK ==
    /\ file \in Seq(Kinds) /\ others \in Seq(Theirs)
    /\ raced \in BOOLEAN /\ clean \in BOOLEAN /\ vouched \in BOOLEAN
    /\ anchor \in Ports \cup {0} /\ plist \in Ports \cup {0} /\ cfg \in Ports
    /\ live \in [call : BOOLEAN, guest : BOOLEAN, rules : Ports \cup {0}, on : BOOLEAN]
    /\ agent \in {"absent", "stopped", "loaded"}
    /\ dns \in [marker : 0..1, resolver : BOOLEAN]
    /\ ca \in [disk : 0..MaxCA, trusted : SUBSET (1..MaxCA), made : 0..MaxCA]
    /\ events \in 0..MaxEvents

\* Whatever the file looked like and whoever rewrote it in between, vibe never
\* leaves an /etc/pf.conf that pfctl refuses, which would break Apple's reload
\* at boot (patchPFConf's placement and the `pfctl -n` vetting).
PfConfLoads == Loadable(file)

\* vibe's two lines are all it ever adds or removes: the rest of the file is
\* what somebody else last wrote, in their order, unless vibe wrote over a file
\* it had not read or could not finish writing (patchPFConf, stripPFConf,
\* ensurePFConfReferencesAnchor, uninstallPlatform).
OthersLinesKept == raced \/ stripPFConf(file) = others

\* After an uninstall whose steps all succeeded nothing of the redirect is left,
\* even when a network change had a pf-apply under way, and no later event brings
\* it back (uninstallPlatform's order: unload, flush, strip, reload).
UninstallSticks ==
    clean => /\ ~HasLine(file, "vRdr") /\ ~HasLine(file, "vLoad")
             /\ anchor = 0 /\ plist = 0 /\ live.rules = 0
             /\ At("net", "idle") /\ ~dns.resolver

\* A CA that setup trusted is the one on disk, and trusted, until it is wiped by
\* hand or uninstalled: setups run again and failing anywhere but in TrustCA
\* itself, deletes that hit another certificate of the name or none, and daemons
\* that ensure a CA leave HTTPS working (EnsureCA reuses, TrustCA adds).
TrustSurvivesReruns == vouched => ca.disk \in ca.trusted

\* While the LaunchDaemon stays installed and pf.conf can be patched, every
\* flush, VPN ruleset, reboot or macOS update is repaired in the end: the
\* redirect works at the port the plist names (reassertPFRules).
RedirectComesBack ==
    <>[](plist # 0 /\ \A text \in {patchPFConf(file)} : Loadable(text))
        => <>[]Works(live, plist)

\* pf-apply runs at every network change for ever, yet stops evicting other
\* people's anchors once things are quiet, also when pf.conf cannot be patched
\* and the reference can never be attached (the gate on confHasOurLines).
GuestsLeftAlone == <>[][live.guest => live'.guest]_live
=============================================================================
