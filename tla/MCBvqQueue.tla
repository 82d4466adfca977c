------------------------------ MODULE MCBvqQueue ------------------------------
(* Model-checking instance of BvqQueue: two producers (the device thread and    *)
(* another), two consumers, one flusher, a ring of two slots.                   *)
EXTENDS BvqQueue
===============================================================================
