----------------------------- MODULE BoundedFifo -----------------------------
(***************************************************************************)
(* What a circular buffer promises to the threads that share it: a FIFO of *)
(* at most Capacity entries that refuses an entry only when it is full,    *)
(* finds nothing only when it is empty, and tells its true size.           *)
(***************************************************************************)
EXTENDS Naturals, Sequences

CONSTANTS Data,      \* what may be put
          Capacity

VARIABLES entries,   \* oldest first
          result     \* what the last call answered

vars == <<entries, result>>

Answer(status, items, count) == [status |-> status, items |-> items, count |-> count]

Init == entries = <<>> /\ result = Answer("Ok", <<>>, 0)

Put(x) == IF Len(entries) = Capacity
          THEN result' = Answer("OutOfMemory", <<>>, 0) /\ UNCHANGED entries
          ELSE result' = Answer("Ok", <<>>, 0) /\ entries' = Append(entries, x)

Get == IF entries = <<>>
       THEN result' = Answer("OutOfMemory", <<>>, 0) /\ UNCHANGED entries
       ELSE result' = Answer("Ok", <<Head(entries)>>, 0) /\ entries' = Tail(entries)

GetSize == result' = Answer("Ok", <<>>, Len(entries)) /\ UNCHANGED entries

\* Everything is handed to the destructor, oldest first, or just forgotten.
Reset == /\ \E items \in {entries, <<>>} : result' = Answer("Ok", items, 0)
         /\ entries' = <<>>

Next == (\E x \in Data : Put(x)) \/ Get \/ GetSize \/ Reset

Spec == Init /\ [][Next]_vars
==============================================================================
