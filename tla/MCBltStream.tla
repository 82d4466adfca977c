----------------------------- MODULE MCBltStream -----------------------------
(* Instance of BltStream for TLC. *)
EXTENDS BltStream
=============================================================================
