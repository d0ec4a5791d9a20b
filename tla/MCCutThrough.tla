---------------------------- MODULE MCCutThrough ----------------------------
EXTENDS CutThrough
CONSTANTS u1, u2, s, a, b, c
Reserve == <<10, 11>>
\* u1 relays two messages, one of which u2 has seen; s sends a bad one.
SomeSends == [p \in Peers |-> CASE p = u1 -> {a, b} [] p = s -> {c} [] OTHER -> {}]
SomeWitness == a :> {} @@ b :> {} @@ c :> {}
=============================================================================
