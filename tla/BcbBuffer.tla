------------------------------ MODULE BcbBuffer ------------------------------
(***************************************************************************)
(* The circular buffer of common/bcb_circular_buffer.c that carries UDP    *)
(* packet buffers between the udpRead and the parseFrames thread: a ring   *)
(* of pointers with a head, a tail and a flag that tells full from empty.  *)
(* Every call runs with the mutex held from its first to its last access,  *)
(* so a call is one step, whichever thread makes it.                       *)
(***************************************************************************)
EXTENDS Integers, Sequences

CONSTANTS Data,      \* the pointers the callers put
          Capacity,  \* handle->max
          Null

Slots == 0 .. Capacity - 1

ASSUME CapacityAssumption == Capacity \in Nat \ {0}   \* BCBinit refuses size 0
ASSUME DataAssumption == Null \notin Data

VARIABLES buffer,    \* handle->buffer
          head,      \* handle->head, the slot the next put fills
          tail,      \* handle->tail, the slot the next get empties
          full,      \* handle->full
          result     \* what the last call answered: status, pointers, size

vars == <<buffer, head, tail, full, result>>

Answer(status, items, count) == [status |-> status, items |-> items, count |-> count]

Init ==
    /\ buffer = [s \in Slots |-> Null]
    /\ head = 0 /\ tail = 0 /\ full = FALSE
    /\ result = Answer("Ok", <<>>, 0)

IsEmpty == ~full /\ head = tail

\* getSize: head and tail are unsigned, the difference is taken where it is
\* not negative.
Size == IF full THEN Capacity
        ELSE IF head >= tail THEN head - tail ELSE Capacity + head - tail

\* (A slip of the flag: raised when the ring is about to be full.)
BCBputFullEarly(x) ==
    \/ full /\ result' = Answer("OutOfMemory", <<>>, 0)
       /\ UNCHANGED <<buffer, head, tail, full>>
    \/ /\ ~full
       /\ buffer' = [buffer EXCEPT ![head] = x]
       /\ head' = (head + 1) % Capacity
       /\ full' = ((head' + 1) % Capacity = tail)
       /\ result' = Answer("Ok", <<>>, 0)
       /\ UNCHANGED tail

BCBput(x) ==
    \/ /\ full
       /\ result' = Answer("OutOfMemory", <<>>, 0)
       /\ UNCHANGED <<buffer, head, tail, full>>
    \/ /\ ~full
       /\ buffer' = [buffer EXCEPT ![head] = x]
       /\ head' = (head + 1) % Capacity
       /\ full' = (head' = tail)
       /\ result' = Answer("Ok", <<>>, 0)
       /\ UNCHANGED tail

\* (A get that leaves the flag up.)
BCBgetKeepsFull ==
    \/ IsEmpty /\ result' = Answer("OutOfMemory", <<>>, 0)
       /\ UNCHANGED <<buffer, head, tail, full>>
    \/ /\ ~IsEmpty
       /\ result' = Answer("Ok", <<buffer[tail]>>, 0)
       /\ tail' = (tail + 1) % Capacity
       /\ UNCHANGED <<buffer, head, full>>

BCBget ==
    \/ /\ IsEmpty
       /\ result' = Answer("OutOfMemory", <<>>, 0)
       /\ UNCHANGED <<buffer, head, tail, full>>
    \/ /\ ~IsEmpty
       /\ result' = Answer("Ok", <<buffer[tail]>>, 0)
       /\ tail' = (tail + 1) % Capacity
       /\ full' = FALSE
       /\ UNCHANGED <<buffer, head>>

BCBgetSize ==
    /\ result' = Answer("Ok", <<>>, Size)
    /\ UNCHANGED <<buffer, head, tail, full>>

\* The entries from tail on, as many as getSize tells.
Entries == [k \in 1 .. Size |-> buffer[(tail + k - 1) % Capacity]]

\* BCBreset and BCBfree: with a destructor get and destroy until the size is 0,
\* then set the indices back.
BCBreset ==
    /\ \E freeItem \in BOOLEAN :
         result' = Answer("Ok", IF freeItem THEN Entries ELSE <<>>, 0)
    /\ head' = 0 /\ tail' = 0 /\ full' = FALSE
    /\ UNCHANGED buffer

Next == (\E x \in Data : BCBput(x)) \/ BCBget \/ BCBgetSize \/ BCBreset

Spec == Init /\ [][Next]_vars

-------------------------------------------------------------------------------
(* Properties *)

\* The indices stay in the ring, and the flag is up only where they meet.
TypeOK ==
    /\ buffer \in [Slots -> Data \cup {Null}]
    /\ head \in Slots /\ tail \in Slots /\ full \in BOOLEAN
    /\ full => head = tail

\* Whatever the order of the calls and however often the indices wrapped, the
\* ring answers every call as a bounded FIFO would: no pointer is lost, handed
\* out twice or out of order, and a put fails only at capacity.
Fifo == INSTANCE BoundedFifo WITH entries <- Entries
ImplementsFifo == Fifo!Spec
===============================================================================
