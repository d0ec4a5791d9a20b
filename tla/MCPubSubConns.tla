---------------------------- MODULE MCPubSubConns ----------------------------
EXTENDS PubSubConns
CONSTANTS r1, r2, m1, m2, k0, k1
\* r1 and m1 solicit each other, and so do r2 and m2; r2 also solicits m1.
Beacon == {<<r1, m1>>, <<m1, r1>>, <<r2, m1>>, <<r2, m2>>, <<m2, r2>>}
OneCluster == [n \in Nodes |-> k0]
OneEach == [n \in Nodes |-> 1]
=============================================================================
