--------------------------- MODULE MCManagedRoute ---------------------------
\* Symmetry for checking ManagedRoute.
EXTENDS ManagedRoute, TLC

Symmetry == Permutations(Pid) \cup Permutations(Thread)
              \cup Permutations(Poller) \cup Permutations(Route)
=============================================================================
