---------------------------- MODULE MCEthControl ----------------------------
\* EthControl for TLC: over UDP, where requests are repeated, lost and reordered,
\* two commands; over TCP, where an answer that is late needs a further command
\* to be taken by, three.
EXTENDS EthControl, TLC

Limits == [udp |-> 2, tcp |-> 3]
Symmetry == Permutations(Value) \cup Permutations(Callers)
=============================================================================
