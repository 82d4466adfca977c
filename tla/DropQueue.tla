------------------------------ MODULE DropQueue ------------------------------
(***************************************************************************)
(* What a frame queue of the SDK promises to its users, without the ring,  *)
(* the semaphore and the mutex of common/bvq_queue.c: a bounded FIFO that  *)
(* resolves an overflow the way its queue mode says, hands every item out  *)
(* at most once and destroys an item it gives up exactly once.             *)
(***************************************************************************)
EXTENDS Naturals, Sequences, SequencesExt

CONSTANTS Items,        \* the items that may ever be offered
          QueueLength   \* capacity of the queue

VARIABLES mode,         \* "DropOldest", "DropCurrent" or "AvoidDrop"
          owned,        \* TRUE: the queue destroys the items it gives up
          buffer,       \* the queued items, oldest first
          delivered,    \* items handed to consumers, in order
          freed         \* items destroyed by the queue, in order

vars == <<mode, owned, buffer, delivered, freed>>

Init == /\ mode \in {"DropOldest", "DropCurrent", "AvoidDrop"}
        /\ owned \in BOOLEAN
        /\ buffer = <<>> /\ delivered = <<>> /\ freed = <<>>

\* An offered item is new to the queue: nobody offers an item it gave away.
IsNew(x) == x \notin ToSet(buffer) \cup ToSet(delivered) \cup ToSet(freed)

Free(x) == freed' = IF owned THEN Append(freed, x) ELSE freed

Accept(x) ==
    /\ Len(buffer) < QueueLength
    /\ buffer' = Append(buffer, x)
    /\ UNCHANGED <<delivered, freed>>

ReplaceOldest(x) ==
    /\ mode = "DropOldest" /\ Len(buffer) = QueueLength
    /\ Free(Head(buffer))
    /\ buffer' = Append(Tail(buffer), x)
    /\ UNCHANGED delivered

RefuseNewest(x) ==
    /\ mode = "DropCurrent" /\ Len(buffer) = QueueLength
    /\ Free(x)
    /\ UNCHANGED <<buffer, delivered>>

Take ==
    /\ buffer # <<>>
    /\ delivered' = Append(delivered, Head(buffer))
    /\ buffer' = Tail(buffer)
    /\ UNCHANGED freed

Discard ==
    /\ buffer # <<>> /\ owned
    /\ Free(Head(buffer))
    /\ buffer' = Tail(buffer)
    /\ UNCHANGED delivered

Next ==
    /\ \/ \E x \in Items : IsNew(x) /\ (Accept(x) \/ ReplaceOldest(x) \/ RefuseNewest(x))
       \/ Take
       \/ Discard
    /\ UNCHANGED <<mode, owned>>

Spec == Init /\ [][Next]_vars
==============================================================================
