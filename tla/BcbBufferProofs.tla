--------------------------- MODULE BcbBufferProofs ---------------------------
(***************************************************************************)
(* Theorems about BcbBuffer for every capacity and every set of pointers:  *)
(* the indices stay in the ring, and the ring is a bounded FIFO.           *)
(***************************************************************************)
EXTENDS BcbBuffer, SequenceTheorems, TLAPS

Rem(n) == n % Capacity

\* One wrap at most: the remainder of a number below twice the capacity.
LEMMA Wrap ==
    ASSUME NEW n \in Nat, n < 2 * Capacity
    PROVE  Rem(n) = IF n < Capacity THEN n ELSE n - Capacity
<1>1. CASE n < Capacity
  BY <1>1, CapacityAssumption DEF Rem
<1>2. CASE n >= Capacity
  <2>1. /\ n % Capacity \in 0 .. Capacity - 1
        /\ n \div Capacity \in Int
        /\ n = Capacity * (n \div Capacity) + (n % Capacity)
    BY CapacityAssumption
  <2>2. n \div Capacity = 1
    <3> DEFINE q == n \div Capacity
    <3>1. q \in Int /\ n = Capacity * q + (n % Capacity)
      BY <2>1
    <3> HIDE DEF q
    <3>2. ASSUME q <= 0 PROVE Capacity * q <= 0
      BY <3>1, <3>2, CapacityAssumption
    <3>3. ASSUME q >= 2 PROVE Capacity * q >= Capacity * 2
      BY <3>1, <3>3, CapacityAssumption
    <3>4. q = 1
      BY <1>2, <2>1, <3>1, <3>2, <3>3, CapacityAssumption
    <3> QED BY <3>4 DEF q
  <2> QED BY <1>2, <2>1, <2>2, CapacityAssumption DEF Rem
<1> QED BY <1>1, <1>2, CapacityAssumption

\* The slot of the entry with k entries before it.
Slot(k) == Rem(tail + k)

\* Entries that are in the ring together are in different slots.
LEMMA SlotProperties ==
    ASSUME TypeOK, NEW k \in 0 .. Capacity - 1
    PROVE  /\ Slot(k) \in Slots
           /\ Slot(k) = IF tail + k < Capacity THEN tail + k ELSE tail + k - Capacity
           /\ \A j \in 0 .. Capacity - 1 : j # k => Slot(j) # Slot(k)
<1>1. \A j \in 0 .. Capacity - 1 :
        Slot(j) = IF tail + j < Capacity THEN tail + j ELSE tail + j - Capacity
  <2> TAKE j \in 0 .. Capacity - 1
  <2>1. tail + j \in Nat /\ tail + j < 2 * Capacity
    BY CapacityAssumption DEF TypeOK, Slots
  <2> QED BY <2>1, Wrap, CapacityAssumption DEF Slot, TypeOK, Slots
<1> QED BY <1>1, CapacityAssumption DEF TypeOK, Slots

\* The entries are a sequence of as many pointers as getSize tells; the next put
\* fills the slot behind them.
EntriesOK ==
    /\ Size \in 0 .. Capacity
    /\ full <=> Size = Capacity
    /\ IsEmpty <=> Size = 0
    /\ ~full => head = Slot(Size)
    /\ Entries \in Seq(Data \cup {Null}) /\ Len(Entries) = Size
    /\ \A k \in 1 .. Size : Entries[k] = buffer[Slot(k - 1)]

LEMMA EntriesProperties == TypeOK => EntriesOK
<1> SUFFICES ASSUME TypeOK PROVE EntriesOK
  OBVIOUS
<1>1. Size \in 0 .. Capacity /\ (full <=> Size = Capacity) /\ (IsEmpty <=> Size = 0)
  BY CapacityAssumption DEF TypeOK, Slots, Size, IsEmpty
<1>2. ASSUME ~full PROVE head = Slot(Size)
  <2>1. Size \in 0 .. Capacity - 1
    BY <1>1, <1>2, CapacityAssumption
  <2>2. Slot(Size) = IF tail + Size < Capacity THEN tail + Size ELSE tail + Size - Capacity
    BY <2>1, SlotProperties
  <2> QED BY <1>2, <2>2, CapacityAssumption DEF TypeOK, Slots, Size
<1>3. \A k \in 1 .. Size : Entries[k] = buffer[Slot(k - 1)]
  BY <1>1, CapacityAssumption DEF Entries, Slot, Rem, TypeOK, Slots
<1>4. \A k \in 1 .. Size : buffer[(tail + k - 1) % Capacity] \in Data \cup {Null}
  <2> SUFFICES ASSUME NEW k \in 1 .. Size
               PROVE  buffer[(tail + k - 1) % Capacity] \in Data \cup {Null}
    OBVIOUS
  <2>1. k - 1 \in 0 .. Capacity - 1 /\ (tail + k - 1) % Capacity = Slot(k - 1)
    BY <1>1, CapacityAssumption DEF Slot, Rem, TypeOK, Slots
  <2>2. Slot(k - 1) \in Slots
    BY <2>1, SlotProperties
  <2> QED BY <2>1, <2>2 DEF TypeOK
<1>5. Entries \in Seq(Data \cup {Null}) /\ Len(Entries) = Size
  BY <1>1, <1>4 DEF Entries
<1> QED BY <1>1, <1>2, <1>3, <1>5 DEF EntriesOK

\* The same in the next state.
LEMMA EntriesNext == TypeOK' => EntriesOK'
BY EntriesProperties, PTL

-------------------------------------------------------------------------------
(* The type invariant *)

\* The initial ring is well formed.
LEMMA InitType == Init => TypeOK
BY CapacityAssumption DEF Init, TypeOK, Slots

\* A step of the ring, in a slot at a time, keeps the indices in it.
LEMMA NextIndex ==
    ASSUME NEW i \in Slots
    PROVE  /\ (i + 1) % Capacity = IF i + 1 = Capacity THEN 0 ELSE i + 1
           /\ (i + 1) % Capacity \in Slots
<1>1. i + 1 \in Nat /\ i + 1 < 2 * Capacity
  BY CapacityAssumption DEF Slots
<1>2. Rem(i + 1) = IF i + 1 < Capacity THEN i + 1 ELSE i + 1 - Capacity
  BY <1>1, Wrap, CapacityAssumption DEF Slots
<1>3. Rem(i + 1) = (i + 1) % Capacity
  BY DEF Rem
<1> QED BY <1>2, <1>3, CapacityAssumption DEF Slots

\* Every call keeps the ring well formed.
LEMMA StepType == TypeOK /\ [Next]_vars => TypeOK'
<1> SUFFICES ASSUME TypeOK, [Next]_vars PROVE TypeOK'
  OBVIOUS
<1>0. /\ head \in Slots /\ (head + 1) % Capacity \in Slots
      /\ tail \in Slots /\ (tail + 1) % Capacity \in Slots
  BY NextIndex DEF TypeOK
<1>1. ASSUME NEW x \in Data, BCBput(x) PROVE TypeOK'
  BY <1>0, <1>1 DEF BCBput, TypeOK
<1>2. CASE BCBget
  <2>1. CASE UNCHANGED <<buffer, head, tail, full>>
    BY <2>1 DEF TypeOK
  <2>2. CASE tail' = (tail + 1) % Capacity /\ full' = FALSE /\ UNCHANGED <<buffer, head>>
    <3>1. tail' \in Slots /\ head' \in Slots
      BY <1>0, <2>2
    <3>2. ~full'
      BY <2>2, Zenon
    <3>3. full' \in BOOLEAN
      BY <2>2, Zenon
    <3> QED BY <2>2, <3>1, <3>2, <3>3 DEF TypeOK
  <2> QED BY <1>2, <2>1, <2>2 DEF BCBget
<1>3. CASE BCBgetSize
  BY <1>3 DEF BCBgetSize, TypeOK
<1>4. CASE BCBreset
  <2>1. tail' \in Slots /\ head' \in Slots /\ buffer' = buffer
    BY <1>4, CapacityAssumption DEF BCBreset, Slots
  <2>2. ~full'
    BY <1>4, Zenon DEF BCBreset
  <2>3. full' \in BOOLEAN
    BY <1>4, Zenon DEF BCBreset
  <2> QED BY <2>1, <2>2, <2>3 DEF TypeOK
<1>5. CASE UNCHANGED vars
  BY <1>5 DEF vars, TypeOK
<1> QED BY <1>1, <1>2, <1>3, <1>4, <1>5 DEF Next

\* For every capacity the indices stay inside the ring, and the full flag is
\* raised only where they meet.
THEOREM TypeCorrect == Spec => []TypeOK
BY InitType, StepType, PTL DEF Spec
-------------------------------------------------------------------------------
(* The refinement *)

\* The entries and the size are one function of the buffer, the indices and
\* the flag, so they stay when these do.
LEMMA StutterEntries ==
    ASSUME UNCHANGED <<buffer, head, tail, full>>
    PROVE  Entries' = Entries /\ Size' = Size
BY DEF Entries, Size

\* A put that finds room appends its pointer.
LEMMA PutAppends ==
    ASSUME TypeOK, TypeOK', NEW x \in Data, ~full,
           buffer' = [buffer EXCEPT ![head] = x],
           head' = (head + 1) % Capacity, full' = (head' = tail), tail' = tail
    PROVE  Entries' = Append(Entries, x) /\ Len(Entries) # Capacity
<1>1. Size \in 0 .. Capacity - 1 /\ head = Slot(Size) /\ Len(Entries) = Size
  BY EntriesProperties, CapacityAssumption DEF EntriesOK
<1>2. head' = IF head + 1 = Capacity THEN 0 ELSE head + 1
  BY NextIndex DEF TypeOK
<1>3. Size' = Size + 1
  <2>1. full' <=> head' = tail
    BY Zenon
  <2>2. Size' = IF head' = tail THEN Capacity
                ELSE IF head' >= tail THEN head' - tail ELSE Capacity + head' - tail
    BY <2>1 DEF Size
  <2> QED BY <1>2, <2>2, CapacityAssumption DEF TypeOK, Slots, Size
<1>4. \A k \in Int : Slot(k)' = Slot(k)
  BY DEF Slot
<1>5. /\ Entries' \in Seq(Data \cup {Null}) /\ Len(Entries') = Size'
      /\ \A k \in 1 .. Size' : Entries'[k] = buffer'[Slot(k - 1)']
  BY EntriesNext DEF EntriesOK
<1>6. /\ Entries \in Seq(Data \cup {Null})
      /\ \A k \in 1 .. Size : Entries[k] = buffer[Slot(k - 1)]
  BY EntriesProperties DEF EntriesOK
<1>7. /\ Append(Entries, x) \in Seq(Data \cup {Null})
      /\ Len(Append(Entries, x)) = Size + 1
      /\ \A k \in 1 .. Size : Append(Entries, x)[k] = Entries[k]
      /\ Append(Entries, x)[Size + 1] = x
  BY <1>1, <1>6, AppendProperties
<1>8. \A k \in 1 .. Size + 1 : Entries'[k] = Append(Entries, x)[k]
  <2> SUFFICES ASSUME NEW k \in 1 .. Size + 1
               PROVE  Entries'[k] = Append(Entries, x)[k]
    OBVIOUS
  <2>1. Entries'[k] = buffer'[Slot(k - 1)]
    BY <1>1, <1>3, <1>4, <1>5
  <2>2. k - 1 \in 0 .. Capacity - 1 /\ Slot(k - 1) \in Slots
    BY <1>1, SlotProperties, CapacityAssumption
  <2>3. CASE k = Size + 1
    BY <1>1, <1>7, <2>1, <2>2, <2>3 DEF TypeOK
  <2>4. CASE k # Size + 1
    <3>1. k \in 1 .. Size /\ k - 1 # Size
      BY <1>1, <2>4
    <3>2. Slot(k - 1) # head
      BY <1>1, <2>2, <3>1, SlotProperties
    <3> QED BY <1>6, <1>7, <2>1, <2>2, <3>1, <3>2 DEF TypeOK
  <2> QED BY <2>3, <2>4
<1> QED BY <1>1, <1>3, <1>5, <1>7, <1>8, SeqEqual, CapacityAssumption

\* A get from a ring that is not empty hands out and removes the oldest entry.
LEMMA GetTakesHead ==
    ASSUME TypeOK, TypeOK', ~IsEmpty,
           tail' = (tail + 1) % Capacity, ~full', buffer' = buffer, head' = head
    PROVE  /\ Entries # <<>> /\ buffer[tail] = Head(Entries)
           /\ Entries' = Tail(Entries)
<1>1. Size \in 1 .. Capacity /\ Len(Entries) = Size
  BY EntriesProperties, CapacityAssumption DEF EntriesOK
<1>2. tail' = IF tail + 1 = Capacity THEN 0 ELSE tail + 1
  BY NextIndex DEF TypeOK
<1>3. Size' = Size - 1
  BY <1>2, CapacityAssumption DEF TypeOK, Slots, Size, IsEmpty
<1>4. /\ Entries' \in Seq(Data \cup {Null}) /\ Len(Entries') = Size'
      /\ \A k \in 1 .. Size' : Entries'[k] = buffer'[Slot(k - 1)']
  BY EntriesNext DEF EntriesOK
<1>5. /\ Entries \in Seq(Data \cup {Null}) /\ Entries # <<>>
      /\ \A k \in 1 .. Size : Entries[k] = buffer[Slot(k - 1)]
  BY <1>1, EntriesProperties DEF EntriesOK
<1>6. /\ Tail(Entries) \in Seq(Data \cup {Null})
      /\ Len(Tail(Entries)) = Size - 1
      /\ \A k \in 1 .. Size - 1 : Tail(Entries)[k] = Entries[k + 1]
  BY <1>1, <1>5, HeadTailProperties
<1>7. \A k \in 1 .. Size - 1 : Slot(k - 1)' = Slot(k)
  <2> SUFFICES ASSUME NEW k \in 1 .. Size - 1 PROVE Slot(k - 1)' = Slot(k)
    OBVIOUS
  <2>1. k \in 0 .. Capacity - 1 /\ k - 1 \in 0 .. Capacity - 1
    BY <1>1, CapacityAssumption
  <2>2. Slot(k) = IF tail + k < Capacity THEN tail + k ELSE tail + k - Capacity
    BY <2>1, SlotProperties
  <2>3. Slot(k - 1)' = IF tail' + (k - 1) < Capacity THEN tail' + (k - 1)
                       ELSE tail' + (k - 1) - Capacity
    <3>1. tail' + (k - 1) \in Nat /\ tail' + (k - 1) < 2 * Capacity
      BY <2>1, CapacityAssumption DEF TypeOK, Slots
    <3>2. Rem(tail' + (k - 1)) = IF tail' + (k - 1) < Capacity THEN tail' + (k - 1)
                                 ELSE tail' + (k - 1) - Capacity
      BY <2>1, <3>1, Wrap, CapacityAssumption DEF TypeOK, Slots
    <3> QED BY <3>2 DEF Slot
  <2> QED BY <1>2, <2>1, <2>2, <2>3, CapacityAssumption DEF TypeOK, Slots
<1>8. \A k \in 1 .. Size - 1 : Entries'[k] = Tail(Entries)[k]
  BY <1>1, <1>3, <1>4, <1>5, <1>6, <1>7
<1>9. Entries' = Tail(Entries)
  BY <1>1, <1>3, <1>4, <1>6, <1>8, SeqEqual
<1>10. Head(Entries) = Entries[1] /\ Slot(0) = tail
  <2>1. Slot(0) = tail
    BY SlotProperties, CapacityAssumption DEF TypeOK, Slots
  <2> QED BY <1>5, <2>1
<1> QED BY <1>1, <1>5, <1>9, <1>10

\* After a reset nothing is left.
LEMMA ResetEmpties ==
    ASSUME head' = 0, tail' = 0, ~full'
    PROVE  Entries' = <<>>
<1>1. Size' = 0
  BY DEF Size
<1> QED BY <1>1 DEF Entries

\* The empty ring is the empty FIFO.
LEMMA InitRefines == Init => Fifo!Init
<1> SUFFICES ASSUME Init PROVE Fifo!Init
  OBVIOUS
<1>1. Size = 0
  BY DEF Init, Size
<1>2. Entries = <<>>
  BY <1>1 DEF Entries
<1> QED BY <1>2 DEF Init, Fifo!Init, Answer, Fifo!Answer

\* Every call of the ring is the same call of the FIFO.
LEMMA StepRefines == TypeOK /\ TypeOK' /\ [Next]_vars => [Fifo!Next]_(Fifo!vars)
<1> SUFFICES ASSUME TypeOK, TypeOK', [Next]_vars PROVE [Fifo!Next]_(Fifo!vars)
  OBVIOUS
<1> USE DEF Answer, Fifo!Answer
<1>0. /\ Entries \in Seq(Data \cup {Null}) /\ Len(Entries) = Size
      /\ (full <=> Size = Capacity) /\ (IsEmpty <=> Size = 0)
  BY EntriesProperties DEF EntriesOK
<1>1. ASSUME NEW x \in Data, BCBput(x) PROVE Fifo!Put(x)
  <2>1. CASE full
    BY <1>0, <1>1, <2>1, StutterEntries DEF BCBput, Fifo!Put
  <2>2. CASE ~full
    BY <1>1, <2>2, PutAppends DEF BCBput, Fifo!Put
  <2> QED BY <2>1, <2>2
<1>2. CASE BCBget
  <2>1. CASE IsEmpty
    <3>1. Entries = <<>>
      BY <1>0, <2>1
    <3> QED BY <1>2, <2>1, <3>1, StutterEntries DEF BCBget, Fifo!Next, Fifo!Get
  <2>2. CASE ~IsEmpty
    <3>1. /\ tail' = (tail + 1) % Capacity /\ buffer' = buffer /\ head' = head
          /\ result' = Answer("Ok", <<buffer[tail]>>, 0)
      BY <1>2, <2>2 DEF BCBget
    <3>2. ~full'
      BY <1>2, <2>2, Zenon DEF BCBget
    <3>3. /\ Entries # <<>> /\ buffer[tail] = Head(Entries)
          /\ Entries' = Tail(Entries)
      BY <2>2, <3>1, <3>2, GetTakesHead
    <3> QED BY <3>1, <3>3 DEF Fifo!Next, Fifo!Get
  <2> QED BY <2>1, <2>2
<1>3. CASE BCBgetSize
  BY <1>0, <1>3, StutterEntries DEF BCBgetSize, Fifo!Next, Fifo!GetSize
<1>4. CASE BCBreset
  <2>1. head' = 0 /\ tail' = 0
    BY <1>4 DEF BCBreset
  <2>2. ~full'
    BY <1>4, Zenon DEF BCBreset
  <2>3. Entries' = <<>>
    BY <2>1, <2>2, ResetEmpties
  <2>4. \E items \in {Entries, <<>>} : result' = Answer("Ok", items, 0)
    BY <1>4 DEF BCBreset
  <2> QED BY <2>3, <2>4 DEF Fifo!Next, Fifo!Reset
<1>5. CASE UNCHANGED vars
  BY <1>5, StutterEntries DEF vars, Fifo!vars
<1> QED BY <1>1, <1>2, <1>3, <1>4, <1>5 DEF Next, Fifo!Next

\* For every capacity and every order of calls the ring of head, tail and flag
\* answers as a bounded FIFO does: a put is refused only at capacity, and what
\* was put comes out once and in order.
THEOREM Refinement == Spec => ImplementsFifo
<1>1. Init /\ [][Next]_vars /\ []TypeOK => Fifo!Init /\ [][Fifo!Next]_(Fifo!vars)
  BY InitRefines, StepRefines, PTL
<1> QED BY <1>1, TypeCorrect, PTL DEF Spec, ImplementsFifo, Fifo!Spec
===============================================================================
