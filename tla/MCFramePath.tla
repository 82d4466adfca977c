----------------------------- MODULE MCFramePath -----------------------------
(* Instance of FramePath for TLC. A frame is grabbed before it is called    *)
(* back or queued, in every mode alike: two grabs are started where there   *)
(* is no frame queue, one beside the queue that drops its oldest frame.     *)
EXTENDS FramePath

MaxGrabsIn == [DoNotQueue |-> MaxGrabs, DropOldest |-> 1, DropCurrent |-> 0]

\* No fairness is about the start of a grab: the bound hides no failure to go on.
MCSpec == Init /\ [][Next /\ grabs' <= MaxGrabsIn[mode]]_vars /\ Fairness
=============================================================================
