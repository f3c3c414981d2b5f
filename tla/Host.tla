-------------------------------- MODULE Host --------------------------------
(***************************************************************************)
(* The machine `vibe setup` and `vibe uninstall` change, on either system. *)
(* Go's build tags pick setupPlatform and uninstallPlatform (cmd/setup.go, *)
(* cmd/uninstall.go): the commands of the other system do not exist, and   *)
(* what they would change never moves.                                     *)
(***************************************************************************)
EXTENDS MacHost, WindowsHost

VARIABLE platform

hostVars == <<macVars, winVars, platform>>

\* The other system's variables at one fixed value.
NoMac ==
    /\ file = <<>> /\ others = <<>> /\ raced = FALSE
    /\ anchor = 0 /\ plist = 0 /\ cfg = DefaultPort
    /\ live = NoRules /\ agent = "absent" /\ dns = NoDNS /\ ca = NoCA /\ vouched = FALSE
    /\ proc = [p \in Procs |-> Idle] /\ clean = TRUE /\ events = MaxEvents

NoWindows ==
    /\ adapter = [n \in Adapters |-> [link |-> "absent", manual |-> FALSE, dns |-> Unset]]
    /\ found = [n \in Adapters |-> Unset]
    /\ backup = NoBackup /\ upstream = "none"
    /\ autostart = [portproxy |-> FALSE, task |-> FALSE]
    /\ cmd = WinIdle /\ refused = FALSE /\ turns = MaxTurns

Init ==
    \/ platform = "darwin" /\ MacInit /\ NoWindows
    \/ platform = "windows" /\ WinInit /\ NoMac

setupPlatformDarwin ==
    platform = "darwin" /\ MacNext /\ UNCHANGED <<winVars, platform>>

setupPlatformWindows ==
    platform = "windows" /\ WinNext /\ UNCHANGED <<macVars, platform>>

Next == setupPlatformDarwin \/ setupPlatformWindows

\* launchd keeps running the pf LaunchDaemon; nothing makes a user run a
\* command, or a command finish.
Spec == Init /\ [][Next]_hostVars /\ MacFairness

\* Every variable of either system has its type.
TypeOK ==
    /\ platform \in {"darwin", "windows"}
    /\ MacTypeOK
    /\ WinTypeOK
=============================================================================
