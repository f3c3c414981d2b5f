---------------------------- MODULE MCPortClaims ----------------------------
\* Requests and symmetry for checking PortClaims.
EXTENDS PortClaims, TLC

R(t, p, o, v) == [type |-> t, port |-> p, oauth |-> o, reserve |-> v]

\* A managed route with an assigned port, a callback and a reserved port, a
\* worktree, and a route that expires, with a fixed port and the same callback.
Mixed == {R("managed", 0, 3, 2), R("worktree", 0, 0, 0), R("ttl", 2, 3, 0)}

Symmetry == Permutations(Name) \cup Permutations(Client)
=============================================================================
