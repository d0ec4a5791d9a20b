----------------------------- MODULE MCDiscovery -----------------------------
EXTENDS Discovery
CONSTANTS root, c1, c2, r1, r2, d, k1, k2
\* c1 and c2 register with root.
MCRAddr == [s \in Servers |-> IF s = root THEN NoAddr ELSE root]
SignedKeys == [s \in Servers |-> IF s = root THEN {ZeroKey} ELSE IF s = c1 THEN {k1} ELSE {k2}]
MCSkew == [s \in Servers |-> IF s = root THEN 0 ELSE 1]
NoSkew == [s \in Servers |-> 0]
MCHeartbeat == [n \in Clients |-> {<<c1, "h_fiber">>}]
MCQueries == [n \in Seekers |-> IF n = d THEN {root} ELSE IF n = r2 THEN {c2} ELSE {}]
ClusterHeartbeat == [n \in Clients |-> IF n = r1 THEN {<<c2, "h_fiber">>} ELSE {}]
MCProtocols == [n \in Clients |-> {"pubsub"}]
=============================================================================
