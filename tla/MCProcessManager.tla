-------------------------- MODULE MCProcessManager --------------------------
\* Model values and symmetry for checking ProcessManager.
EXTENDS ProcessManager, TLC

Symmetry == Permutations(Name) \cup Permutations(Pid)
=============================================================================
