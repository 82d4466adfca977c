----------------------------- MODULE MCBcbBuffer -----------------------------
(* Model-checking instance of BcbBuffer: three slots, so that the indices wrap *)
(* at a length that is not a power of two, and three different pointers.       *)
EXTENDS BcbBuffer
===============================================================================
