-------------------------- MODULE MCEthReassembly --------------------------
EXTENDS EthReassembly

\* n frames of the given number of packets each
Of(n, packets) == [k \in 1 .. n |-> [counter |-> 6 + k, total |-> packets]]

\* More frames than slots, and frames with gaps between received packets.
Equal   == {Of(3, 2), Of(2, 3)}
Two     == {Of(2, 2)}
Longer  == {Of(1, 3)}
============================================================================
