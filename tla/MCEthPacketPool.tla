--------------------------- MODULE MCEthPacketPool ---------------------------
(* Model-checking instance of EthPacketPool: a pool of a few packets, arrays   *)
(* that fit into the queue next to two packets but not next to more, and, in   *)
(* the second configuration, arrays that overflow.                             *)
EXTENDS EthPacketPool
===============================================================================
