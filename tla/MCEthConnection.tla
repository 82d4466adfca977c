--------------------------- MODULE MCEthConnection ---------------------------
(* Instance of EthConnection for TLC: every configuration a user can give. *)
EXTENDS EthConnection

MCConfigs == {c \in [control : SUBSET {"udp", "tcp"}, data : {"none", "fixed", "auto"},
                     probing : BOOLEAN] : c.control # {} \/ c.data = "fixed"}

=============================================================================
