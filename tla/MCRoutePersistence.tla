------------------------- MODULE MCRoutePersistence -------------------------
\* Symmetry for checking RoutePersistence.
EXTENDS RoutePersistence, TLC

Symmetry == Permutations(Writer) \cup Permutations(Val \ Fleeting)
=============================================================================
