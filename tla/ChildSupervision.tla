-------------------------- MODULE ChildSupervision --------------------------
(***************************************************************************)
(* What the process manager of a vibe daemon promises its callers, without *)
(* its maps, locks and goroutines: under each name at most one child is    *)
(* being served at a time, and of every child it launches the daemon is    *)
(* told a verdict that is true when it is given and given once.            *)
(***************************************************************************)
CONSTANTS Name, Pid

VARIABLES
    launched,   \* children the manager ever spawned
    serving,    \* name -> the children that run and were not asked to end
    verdict     \* what the daemon was told of each child

supVars == <<launched, serving, verdict>>

Init ==
    /\ launched = {}
    /\ serving = [n \in Name |-> {}]
    /\ verdict = [p \in Pid |-> "none"]

Served(p) == \E n \in Name : p \in serving[n]

\* A name gets a new child only when none is serving it.
Launch(n, p) ==
    /\ serving[n] = {}
    /\ p \notin launched
    /\ launched' = launched \cup {p}
    /\ serving' = [serving EXCEPT ![n] = {p}]
    /\ UNCHANGED verdict

\* The child exits, or Stop asks it to.
Ends(n, p) ==
    /\ p \in serving[n]
    /\ serving' = [serving EXCEPT ![n] = @ \ {p}]
    /\ UNCHANGED <<launched, verdict>>

Running(p) ==
    /\ p \in launched
    /\ verdict[p] = "none"
    /\ verdict' = [verdict EXCEPT ![p] = "running"]
    /\ UNCHANGED <<launched, serving>>

Failed(p) ==
    /\ p \in launched
    /\ verdict[p] = "none"
    /\ ~Served(p)
    /\ verdict' = [verdict EXCEPT ![p] = "failed"]
    /\ UNCHANGED <<launched, serving>>

\* The exit handler hears only of children that were said to be running.
Exited(p) ==
    /\ verdict[p] = "running"
    /\ ~Served(p)
    /\ verdict' = [verdict EXCEPT ![p] = "exited"]
    /\ UNCHANGED <<launched, serving>>

Next ==
    \/ \E n \in Name, p \in Pid : Launch(n, p) \/ Ends(n, p)
    \/ \E p \in Pid : Running(p) \/ Failed(p) \/ Exited(p)

Spec == Init /\ [][Next]_supVars
=============================================================================
