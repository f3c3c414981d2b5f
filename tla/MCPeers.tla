------------------------------ MODULE MCPeers ------------------------------
\* Ann and Bob invite, Ann and Cas add; Ann follows Bob's routes.
EXTENDS PeerSync

CONSTANTS ann, bob, cas, r1, bm

HostNames == [m \in Machine |-> m]
=============================================================================
