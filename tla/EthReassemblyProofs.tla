------------------------- MODULE EthReassemblyProofs -------------------------
(***************************************************************************)
(* Theorems about EthReassembly for any number of slots, any frames and    *)
(* any delays of the network: a frame has one slot, the slot counts the    *)
(* packets whose data it holds, a frame of which nothing is missing leaves *)
(* its slot at once unless a packet counts twice, frames are handed over   *)
(* in the order of their arrival, only what is missing is requested, and   *)
(* without retransmission a complete frame misses nothing.                 *)
(***************************************************************************)
EXTENDS EthReassembly, FiniteSetTheorems, WellFoundedInduction, TLAPS

\* The frames the device has begun to send.
Begun == {frames[k] : k \in {h \in DOMAIN frames : \/ h < sender.k
                                                   \/ h = sender.k /\ sender.p > 0}}

\* All frames the device has begun to send have the same number of packets.
SameSize(C) == \A f, g \in C : f.total = g.total
OneSize     == SameSize(Begun)

\* The counter c is that of a frame in C; the slot or packet r is one of a frame in C.
Counted(c, C) == \E f \in C : c = f.counter
Belongs(r, C) == \E f \in C : r.counter = f.counter /\ r.total = f.total

\* What a slot counts and marks agrees with the data it holds.
SlotOK(r) == /\ r \in SlotType
             /\ r.total <= r.len
             /\ r.time # 0 => r.total \in Totals
             /\ r.data \subseteq 0 .. r.total - 1
             /\ r.got = Cardinality(r.data)
             /\ \A p \in r.data : r.sizes[p] # "none"
             /\ \A p \in Places : r.sizes[p] = "data" => p \in r.data
             /\ \A p \in Places : r.sizes[p] # "none" => p < r.total
             /\ r.nda >= Cardinality(Listed(r))

\* The slots hold frames the device has begun to send (C), each once.
SlotsOK(s, C) == /\ s \in [Slots -> SlotType]
                 /\ \A i \in Slots : SlotOK(s[i])
                 /\ \A i \in Pending(s) : Belongs(s[i], C)
                 /\ \A i, j \in Pending(s) : s[i].counter = s[j].counter => i = j

\* A request for packets that are missing.
AskOK(a, C) == /\ Counted(a.counter, C)
               /\ SameSize(C) => a.pcs # {} /\ a.pcs \subseteq a.missing

DataMessage == [kind : {"data"}, counter : Counters, total : Totals, pc : Places, retr : BOOLEAN]
NdaMessage  == [kind : {"nda"}, counter : Counters, pcs : Seq(Nat)]

MessageOK(m, C) ==
    /\ Counted(m.counter, C)
    /\ \/ m \in DataMessage /\ m.pc < m.total /\ Belongs(m, C)
       \/ m \in NdaMessage
       \/ m.kind = "request"

\* The messages are about frames the device has begun to send.
NetOK(n, C) == \A m \in n : MessageOK(m, C)

SenderOK == /\ sender \in [k : Nat, p : Nat]
            /\ sender.k \in DOMAIN frames => sender.p < frames[sender.k].total

Waiting(s, I) == \A i \in I : i \in Pending(s) => ~Complete(s[i])

IInv == /\ TypeOK
        /\ SlotsOK(slot, Begun)
        /\ NetOK(net, Begun)
        /\ SenderOK
        /\ mode # 2 => Waiting(slot, Slots)

-----------------------------------------------------------------------------
(* Smallest and largest elements.                                          *)

\* A set of naturals has a smallest element.
LEMMA Smallest ==
    ASSUME NEW S \in SUBSET Nat, S # {}
    PROVE  \E x \in S : \A y \in S : x <= y
<1>. DEFINE Before == OpToRel(<, Nat)
<1>1. IsWellFoundedOn(Before, Nat)
  BY NatLessThanWellFounded
<1>2. ASSUME NEW y \in Nat, NEW x \in Nat, y < x
      PROVE  <<y, x>> \in Before
  <2>1. <<y, x>> \in Nat \X Nat /\ <<y, x>>[1] < <<y, x>>[2]
    BY <1>2
  <2>. QED
    BY <2>1, Zenon DEF OpToRel
<1>. HIDE DEF Before
<1>3. PICK x \in S : \A y \in S : ~ (<<y, x>> \in Before)
  BY <1>1, WFMin
<1>4. \A y \in S : ~ (y < x)
  BY <1>2, <1>3, Zenon
<1>. QED
  BY <1>4

\* Min of a set of naturals is in it and below all of it.
LEMMA MinProperty ==
    ASSUME NEW S \in SUBSET Nat, S # {}
    PROVE  Min(S) \in S /\ \A y \in S : Min(S) <= y
BY Smallest DEF Min

\* Max of a bounded set of naturals is in it and above all of it.
LEMMA MaxProperty ==
    ASSUME NEW b \in Nat, NEW S \in SUBSET (0 .. b), S # {}
    PROVE  Max(S) \in S /\ \A y \in S : y <= Max(S)
<1>. DEFINE D == {b - x : x \in S}
<1>1. D \in SUBSET Nat /\ D # {}
  <2>1. \A x \in S : b - x \in Nat
    OBVIOUS
  <2>. QED
    BY <2>1, Zenon
<1>2. PICK d \in D : \A e \in D : d <= e
  BY <1>1, MinProperty
<1>3. PICK x \in S : d = b - x
  BY <1>2
<1>4. \A y \in S : x >= y
  <2>1. TAKE y \in S
  <2>2. b - y \in D
    OBVIOUS
  <2>. QED
    BY <1>2, <1>3, <2>2
<1>5. Max(S) \in S /\ \A y \in S : Max(S) >= y
  BY <1>4, Zenon DEF Max
<1>. QED
  BY <1>5

\* The frames' numbers of packets and the places these give.
LEMMA Numbers ==
    /\ Totals \subseteq 1 .. Largest /\ Counters \subseteq 0 .. Largest
    /\ Max(Totals) \in Totals /\ Max(Totals) \in Nat
    /\ \A t \in Totals : t \in Nat \ {0} /\ t <= Max(Totals) /\ 0 .. t - 1 \subseteq Places
    /\ Places \in SUBSET Nat /\ IsFiniteSet(Places)
<1>. Largest \in Nat
  BY DEF Largest
<1>1. ASSUME NEW f \in Streams, NEW k \in DOMAIN f
      PROVE  f[k] \in [counter : 0 .. Largest, total : 1 .. Largest]
  <2>. DEFINE F == [counter : 0 .. Largest, total : 1 .. Largest]
  <2>1. f \in Seq(F)
    BY StreamsAssumption
  <2>. HIDE DEF F
  <2>2. f[k] \in F
    BY <2>1
  <2>. QED
    BY <2>2 DEF F
<1>2. \A f \in Sent : f.counter \in 0 .. Largest /\ f.total \in 1 .. Largest
  BY <1>1 DEF Sent, ToSet
<1>3. Totals \subseteq 1 .. Largest /\ Counters \subseteq 0 .. Largest
  BY <1>2 DEF Totals, Counters
<1>4. Totals # {}
  <2>1. PICK f \in Streams : f # <<>> /\ f \in Seq([counter : 0 .. Largest, total : 1 .. Largest])
    BY StreamsAssumption
  <2>2. 1 \in DOMAIN f
    BY <2>1
  <2>3. f[1] \in Sent
    BY <2>2 DEF Sent, ToSet
  <2>. QED
    BY <2>3 DEF Totals
<1>5. Totals \in SUBSET (0 .. Largest)
  BY <1>3
<1>6. Max(Totals) \in Totals /\ \A t \in Totals : t <= Max(Totals)
  BY <1>4, <1>5, MaxProperty
<1>7. \A t \in Totals : t \in Nat \ {0}
  BY <1>3
<1>8. Max(Totals) \in Nat
  BY <1>6, <1>7
<1>9. Places \in SUBSET Nat /\ IsFiniteSet(Places)
  BY <1>8, FS_Interval DEF Places
<1>10. \A t \in Totals : 0 .. t - 1 \subseteq Places
  BY <1>6, <1>7, <1>8 DEF Places
<1>. QED
  BY <1>3, <1>6, <1>7, <1>8, <1>9, <1>10

LEMMA TotalRange == \A t \in Totals \cup {0} : t \in Nat /\ t \in 0 .. Max(Totals)
<1>1. Max(Totals) \in Nat /\ \A t \in Totals : t \in Nat \ {0} /\ t <= Max(Totals)
  BY Numbers
<1>. QED
  BY <1>1

\* The frames sent.
LEMMA FrameType ==
    ASSUME NEW f \in Streams, NEW k \in DOMAIN f
    PROVE  f[k].counter \in Counters /\ f[k].total \in Totals
<1>1. f[k] \in Sent
  BY DEF Sent, ToSet
<1>. QED
  BY <1>1 DEF Counters, Totals

-----------------------------------------------------------------------------
(* Slots that are freed, set and chosen.                                   *)

LEMMA EmptyOK == Empty \in SlotType /\ SlotOK(Empty)
<1>1. 0 \in 0 .. MaxTime /\ 0 \in 0 .. MaxAttempts /\ 0 \in 0 .. Max(Totals)
  <2>1. MaxTime \in Nat /\ MaxAttempts \in Nat
    BY BoundsAssumption
  <2>2. Max(Totals) \in Nat
    BY Numbers
  <2>. QED
    BY <2>1, <2>2
<1>2. [p \in Places |-> "none"] \in [Places -> {"none", "data", "nda"}]
  OBVIOUS
<1>3. Empty \in SlotType
  BY <1>1, <1>2 DEF Empty, SlotType
<1>4. Listed(Empty) = {}
  BY DEF Empty, Listed
<1>. QED
  BY <1>3, <1>4, FS_EmptySet DEF Empty, SlotOK

LEMMA FreedOK ==
    ASSUME NEW r, SlotOK(r)
    PROVE  SlotOK(Freed(r)) /\ Freed(r).time = 0
<1>1. r.len \in Totals \cup {0} /\ r.len \in Nat
  <2>1. r.len \in Totals \cup {0}
    BY DEF SlotOK, SlotType
  <2>. QED
    BY <2>1, TotalRange
<1>2. Freed(r) \in SlotType /\ Freed(r).time = 0
  BY <1>1, EmptyOK DEF Freed, SlotType, Empty
<1>3. /\ Freed(r).total = 0 /\ Freed(r).data = {} /\ Freed(r).got = 0
      /\ Freed(r).len = r.len /\ Freed(r).sizes = [p \in Places |-> "none"]
      /\ Freed(r).nda = 0
  BY DEF Freed, Empty
<1>4. Listed(Freed(r)) = {}
  BY <1>3 DEF Listed
<1>. QED
  BY <1>1, <1>2, <1>3, <1>4, FS_EmptySet DEF SlotOK

LEMMA ReleasedOK ==
    ASSUME NEW C, NEW s, SlotsOK(s, C), NEW I
    PROVE  /\ SlotsOK(Released(s, I), C)
           /\ Pending(Released(s, I)) = Pending(s) \ I
           /\ \A i \in Pending(s) \ I : Released(s, I)[i] = s[i]
<1>. DEFINE S == Released(s, I)
<1>1. \A i \in Slots : SlotOK(S[i]) /\ (i \in I => S[i].time = 0) /\ (i \notin I => S[i] = s[i])
  BY FreedOK DEF Released, SlotsOK
<1>2. S \in [Slots -> SlotType]
  BY <1>1 DEF Released, SlotOK
<1>. HIDE DEF S
<1>3. Pending(S) = Pending(s) \ I /\ \A i \in Pending(s) \ I : S[i] = s[i]
  BY <1>1 DEF Pending
<1>. QED
  BY <1>1, <1>2, <1>3 DEF SlotsOK, S

LEMMA SetOK ==
    ASSUME NEW C, NEW s, SlotsOK(s, C), NEW i \in Slots, NEW r, SlotOK(r),
           r.time # 0 => /\ Belongs(r, C)
                         /\ \A j \in Pending(s) \ {i} : s[j].counter # r.counter
    PROVE  /\ SlotsOK([s EXCEPT ![i] = r], C)
           /\ Pending([s EXCEPT ![i] = r]) \subseteq Pending(s) \cup {i}
<1>. DEFINE S == [s EXCEPT ![i] = r]
<1>1. S \in [Slots -> SlotType] /\ S[i] = r /\ \A j \in Slots \ {i} : S[j] = s[j]
  BY DEF SlotsOK, SlotOK
<1>. HIDE DEF S
<1>2. \A j \in Slots : SlotOK(S[j])
  BY <1>1 DEF SlotsOK
<1>3. Pending(S) \subseteq Pending(s) \cup {i}
  BY <1>1 DEF Pending
<1>4. \A j \in Pending(S) : Belongs(S[j], C)
  BY <1>1 DEF Pending, SlotsOK
<1>5. \A j, k \in Pending(S) : S[j].counter = S[k].counter => j = k
  BY <1>1 DEF Pending, SlotsOK
<1>. QED
  BY <1>1, <1>2, <1>3, <1>4, <1>5 DEF SlotsOK, S

\* What a slot holds when it is set.
LEMMA FreshOK ==
    ASSUME NEW i \in Slots, SlotOK(slot[i]), NEW m, m.counter \in Counters, m.total \in Totals,
           NEW t \in 1 .. MaxTime
    PROVE  /\ SlotOK(Fresh(i, m, t))
           /\ Fresh(i, m, t).time = t /\ Fresh(i, m, t).counter = m.counter
           /\ Fresh(i, m, t).total = m.total /\ ~Complete(Fresh(i, m, t))
<1>. DEFINE r == Fresh(i, m, t)
            L == {slot[i].len, m.total}
<1>1. slot[i].len \in Totals \cup {0}
  BY DEF SlotOK, SlotType
<1>2. Max(Totals) \in Nat /\ L \in SUBSET (0 .. Max(Totals)) /\ L # {}
  <2>1. Max(Totals) \in Nat
    BY Numbers
  <2>. QED
    BY <1>1, <2>1, TotalRange
<1>3. Max(L) \in L /\ \A y \in L : y <= Max(L)
  BY <1>2, MaxProperty
<1>4. Max(L) \in Totals \cup {0} /\ m.total <= Max(L)
  BY <1>1, <1>3
<1>5. /\ r.time = t /\ r.counter = m.counter /\ r.total = m.total /\ r.len = Max(L)
      /\ r.data = {} /\ r.got = 0 /\ r.nda = 0 /\ r.sizes = [p \in Places |-> "none"]
  BY DEF Fresh, Empty
<1>6. t \in 0 .. MaxTime
  BY BoundsAssumption
<1>7. r \in SlotType
  BY <1>4, <1>6, EmptyOK DEF Fresh, SlotType, Empty
<1>8. m.total \in Nat \ {0}
  BY Numbers
<1>. HIDE DEF r, L
<1>9. SlotOK(r)
  <2>1. Listed(r) = {}
    BY <1>5 DEF Listed
  <2>. QED
    BY <1>4, <1>5, <1>7, <2>1, FS_EmptySet DEF SlotOK
<1>. QED
  BY <1>5, <1>8, <1>9 DEF Complete, r

\* The new frame's slot is one of the slots.
LEMMA NewSlotIn ==
    ASSUME slot \in [Slots -> SlotType]
    PROVE  NewSlot \in Slots
<1>. DEFINE free == Slots \ Pending(slot)
            T == {slot[i].time : i \in Pending(slot)}
<1>1. Slots \in SUBSET Nat /\ Slots # {} /\ SlotCount - 1 \in Nat
  <2>1. SlotCount \in Nat \ {0}
    BY BoundsAssumption
  <2>2. 0 \in Slots
    BY <2>1 DEF Slots
  <2>3. \A i \in Slots : i \in Nat
    BY DEF Slots
  <2>4. SlotCount - 1 \in Nat
    BY <2>1
  <2>. QED
    BY <2>2, <2>3, <2>4
<1>2. CASE free # {}
  <2>1. free \in SUBSET (0 .. SlotCount - 1)
    BY DEF Slots
  <2>2. Max(free) \in free
    BY <1>1, <1>2, <2>1, MaxProperty
  <2>. QED
    BY <1>2, <2>2 DEF NewSlot
<1>3. CASE free = {}
  <2>1. \A i \in Slots : slot[i].time \in 0 .. MaxTime
    BY DEF SlotType
  <2>2. T \in SUBSET Nat /\ T # {}
    <3>1. 0 .. MaxTime \subseteq Nat /\ Pending(slot) = Slots
      BY <1>3 DEF Pending
    <3>2. \A x \in T : x \in Nat
      BY <2>1, <3>1
    <3>. QED
      BY <1>1, <3>1, <3>2
  <2>3. Min(T) \in T
    BY <2>2, MinProperty
  <2>. DEFINE O == {i \in Slots : slot[i].time = Min(T)}
  <2>4. O \in SUBSET Nat /\ O # {}
    BY <1>1, <2>3 DEF Pending
  <2>5. Min(O) \in O
    BY <2>4, MinProperty
  <2>6. GetOldest = Min(O)
    BY DEF GetOldest
  <2>. QED
    BY <1>3, <2>5, <2>6 DEF NewSlot
<1>. QED
  BY <1>2, <1>3

-----------------------------------------------------------------------------
(* The order in which frames are handed over.                              *)

\* The slots I have different ranks, and every rank up to their number occurs.
LEMMA RanksOccur ==
    ASSUME NEW s \in [Slots -> SlotType], NEW I \in SUBSET Slots
    PROVE  /\ \A i \in I : Rank(s, I, i) \in Nat
           /\ \A i, j \in I : ParsedFirst(s, i, j) => Rank(s, I, i) < Rank(s, I, j)
           /\ \A k \in 1 .. Cardinality(I) : \E i \in I : Rank(s, I, i) = k - 1
<1>. DEFINE First(i) == {j \in I : ParsedFirst(s, j, i)}
            n == Cardinality(I)
<1>1. \A i \in I : i \in Nat /\ s[i].time \in Nat
  <2>1. \A i \in Slots : i \in Nat
    BY DEF Slots
  <2>2. \A i \in Slots : s[i].time \in 0 .. MaxTime
    BY DEF SlotType
  <2>. QED
    BY <2>1, <2>2, BoundsAssumption
<1>2. IsFiniteSet(I) /\ n \in Nat
  <2>1. IsFiniteSet(Slots)
    BY BoundsAssumption, FS_Interval DEF Slots
  <2>. QED
    BY <2>1, FS_Subset, FS_CardinalityType
<1>3. \A i \in I : IsFiniteSet(First(i)) /\ Rank(s, I, i) = Cardinality(First(i))
  BY <1>2, FS_Subset DEF Rank
<1>4. \A i \in I : Rank(s, I, i) \in Nat
  BY <1>3, FS_CardinalityType
<1>5. ASSUME NEW T \in SUBSET I, NEW i \in I, i \notin T, NEW U \in SUBSET I,
             T \cup {i} \subseteq U
      PROVE  Cardinality(T) < Cardinality(U)
  <2>1. IsFiniteSet(T) /\ IsFiniteSet(U)
    BY <1>2, FS_Subset
  <2>2. Cardinality(T) \in Nat /\ Cardinality(U) \in Nat
    BY <2>1, FS_CardinalityType
  <2>3. Cardinality(T \cup {i}) = Cardinality(T) + 1
    BY <1>5, <2>1, FS_AddElement
  <2>4. Cardinality(T \cup {i}) <= Cardinality(U)
    BY <1>5, <2>1, FS_Subset
  <2>. QED
    BY <2>2, <2>3, <2>4
<1>6. ASSUME NEW i \in I, NEW j \in I, ParsedFirst(s, i, j)
      PROVE  Rank(s, I, i) < Rank(s, I, j)
  <2>1. i \notin First(i)
    BY <1>1 DEF ParsedFirst
  <2>2. First(i) \cup {i} \subseteq First(j)
    BY <1>1, <1>6 DEF ParsedFirst
  <2>. QED
    BY <1>3, <1>5, <2>1, <2>2
<1>. DEFINE f == [i \in I |-> Rank(s, I, i) + 1]
<1>7. ASSUME NEW i \in I
      PROVE  f[i] \in 1 .. n
  <2>1. i \notin First(i)
    BY <1>1 DEF ParsedFirst
  <2>2. Rank(s, I, i) < n
    BY <1>3, <1>5, <2>1
  <2>. QED
    BY <1>2, <1>4, <2>2
<1>8. ASSUME NEW i \in I, NEW j \in I, f[i] = f[j]
      PROVE  i = j
  <2>1. ~ ParsedFirst(s, i, j) /\ ~ ParsedFirst(s, j, i)
    BY <1>4, <1>6, <1>8
  <2>. QED
    BY <1>1, <2>1 DEF ParsedFirst
<1>9. f \in Injection(I, 1 .. n)
  BY <1>7, <1>8 DEF Injection, IsInjective
<1>10. IsFiniteSet(1 .. n) /\ Cardinality(1 .. n) = n
  BY <1>2, FS_Interval
<1>11. f \in Surjection(I, 1 .. n)
  BY <1>9, <1>10, FS_Injection, Zenon
<1>12. ASSUME NEW k \in 1 .. n
       PROVE  \E i \in I : Rank(s, I, i) = k - 1
  <2>1. PICK i \in I : f[i] = k
    BY <1>11 DEF Surjection
  <2>. QED
    BY <1>4, <2>1
<1>. QED
  BY <1>4, <1>6, <1>12

\* Slots are handed over from the oldest frame on.
LEMMA OldestIsFirst ==
    ASSUME NEW s \in [Slots -> SlotType], NEW I \in SUBSET Slots,
           NEW k \in DOMAIN OldestFirst(s, I)
    PROVE  /\ OldestFirst(s, I)[k] \in I
           /\ \A h \in 1 .. k : s[OldestFirst(s, I)[h]].time <= s[OldestFirst(s, I)[k]].time
<1>. DEFINE order == OldestFirst(s, I)
            n == Cardinality(I)
<1>1. k \in 1 .. n
  BY DEF OldestFirst
<1>2. ASSUME NEW h \in 1 .. n
      PROVE  order[h] \in I /\ Rank(s, I, order[h]) = h - 1
  BY RanksOccur DEF OldestFirst
<1>. HIDE DEF order
<1>3. ASSUME NEW h \in 1 .. k
      PROVE  s[order[h]].time <= s[order[k]].time
  <2>1. h \in 1 .. n
    <3>1. n \in Int
      <4>1. IsFiniteSet(Slots)
        BY BoundsAssumption, FS_Interval DEF Slots
      <4>. QED
        BY <4>1, FS_Subset, FS_CardinalityType
    <3>. QED
      BY <1>1, <3>1
  <2>2. ~ (Rank(s, I, order[k]) < Rank(s, I, order[h]))
    BY <1>1, <1>2, <2>1
  <2>3. ~ ParsedFirst(s, order[k], order[h])
    BY <1>1, <1>2, <2>1, <2>2, RanksOccur
  <2>4. s[order[h]].time \in Nat /\ s[order[k]].time \in Nat
    <3>1. \A i \in Slots : s[i].time \in 0 .. MaxTime
      BY DEF SlotType
    <3>. QED
      BY <1>1, <1>2, <2>1, <3>1, BoundsAssumption
  <2>. QED
    BY <2>3, <2>4 DEF ParsedFirst
<1>. QED
  BY <1>1, <1>2, <1>3 DEF order

\* The body of HandedInOrder for the frames h handed over and the slots s left.
InOrder(h, s) == \A k \in DOMAIN h : /\ \A j \in 1 .. k : h[j].time <= h[k].time
                                     /\ \A i \in Pending(s) : h[k].time <= s[i].time

\* Handing over a frame after the older ones keeps the order.
LEMMA OlderInOrder ==
    ASSUME NEW s \in [Slots -> SlotType], NEW i \in Pending(s), NEW isComplete \in BOOLEAN
    PROVE  InOrder(Handed(s, Older(s, i), isComplete), Released(s, Older(s, i)))
<1>. DEFINE I == Older(s, i)
            order == OldestFirst(s, I)
            h == Handed(s, I, isComplete)
<1>1. I \in SUBSET Slots /\ i \in Slots
  BY DEF Older, Pending
<1>2. \A j \in Slots : j \in Nat /\ s[j].time \in Nat
  <2>1. \A j \in Slots : s[j].time \in 0 .. MaxTime
    BY DEF SlotType
  <2>. QED
    BY <2>1, BoundsAssumption DEF Slots
<1>3. DOMAIN h = DOMAIN order /\ DOMAIN order = 1 .. Cardinality(I)
  BY DEF Handed, OldestFirst
<1>4. \A k \in DOMAIN order : h[k].time = s[order[k]].time
  BY DEF Handed
<1>. HIDE DEF h, order
<1>5. \A j \in Pending(Released(s, I)) : Released(s, I)[j] = s[j] /\ j \in Pending(s) \ I
  BY <1>1 DEF Released, Pending, Freed, Empty
<1>6. \A j \in I : s[j].time <= s[i].time
  BY <1>1, <1>2 DEF Older, ParsedFirst
<1>7. \A j \in Pending(s) \ I : s[i].time <= s[j].time
  BY <1>1, <1>2 DEF Older, ParsedFirst, Pending
<1>. HIDE DEF I
<1>8. ASSUME NEW k \in DOMAIN h
      PROVE  /\ \A j \in 1 .. k : h[j].time <= h[k].time
             /\ \A j \in Pending(Released(s, I)) : h[k].time <= Released(s, I)[j].time
  <2>1. k \in DOMAIN order /\ order[k] \in I /\ h[k].time = s[order[k]].time
    BY <1>1, <1>3, <1>4, OldestIsFirst DEF order
  <2>2. ASSUME NEW j \in 1 .. k
        PROVE  h[j].time <= h[k].time
    <3>1. j \in DOMAIN order
      <4>1. Cardinality(I) \in Int
        <5>1. IsFiniteSet(Slots)
          BY BoundsAssumption, FS_Interval DEF Slots
        <5>. QED
          BY <1>1, <5>1, FS_Subset, FS_CardinalityType
      <4>. QED
        BY <1>3, <4>1
    <3>2. s[order[j]].time <= s[order[k]].time
      BY <1>1, <2>1, OldestIsFirst DEF order
    <3>. QED
      BY <1>4, <2>1, <3>1, <3>2
  <2>3. ASSUME NEW j \in Pending(Released(s, I))
        PROVE  h[k].time <= Released(s, I)[j].time
    <3>1. Released(s, I)[j] = s[j] /\ j \in Pending(s) \ I /\ j \in Slots
      BY <1>5 DEF Pending
    <3>2. s[order[k]].time <= s[i].time /\ s[i].time <= s[j].time
      BY <1>6, <1>7, <2>1, <3>1
    <3>. QED
      BY <1>1, <1>2, <2>1, <3>1, <3>2
  <2>. QED
    BY <2>2, <2>3
<1>. QED
  BY <1>8 DEF InOrder, h, I

\* Handing over no frame keeps the order.
LEMMA NothingInOrder == \A s, c, S : InOrder(<<>>, S) /\ InOrder(Handed(s, {}, c), S)
<1>1. ASSUME NEW s, NEW c
      PROVE  DOMAIN Handed(s, {}, c) = {}
  <2>1. DOMAIN OldestFirst(s, {}) = {}
    BY FS_EmptySet DEF OldestFirst
  <2>. QED
    BY <2>1 DEF Handed
<1>. QED
  BY <1>1 DEF InOrder

-----------------------------------------------------------------------------
(* Requests.                                                               *)

\* Where a gap that ends with place e begins.
LEMMA GapProperty ==
    ASSUME NEW r, NEW e \in Nat
    PROVE  GapBegin(r, e) \in 0 .. e /\ \A k \in GapBegin(r, e) .. e - 1 : r.sizes[k] = "none"
<1>. DEFINE B == {b \in 0 .. e : \A k \in b .. e - 1 : r.sizes[k] = "none"}
<1>1. e \in B
  OBVIOUS
<1>2. B \in SUBSET Nat /\ B # {}
  BY <1>1
<1>3. Min(B) \in B
  BY <1>2, MinProperty
<1>4. GapBegin(r, e) = Min(B)
  BY DEF GapBegin
<1>. QED
  BY <1>3, <1>4

\* The frame before is one of the frames under way.
LEMMA NewestIn ==
    ASSUME NEW s \in [Slots -> SlotType], NEW i \in Slots
    PROVE  NewestBefore(s, i) \subseteq Pending(s)
<1>. DEFINE before == {j \in Pending(s) : s[j].time < s[i].time}
            T == {s[j].time : j \in before}
            N == {j \in before : s[j].time = Max(T)}
<1>1. CASE before = {}
  BY <1>1 DEF NewestBefore
<1>2. CASE before # {}
  <2>1. \A j \in Slots : s[j].time \in 0 .. MaxTime
    BY DEF SlotType
  <2>2. MaxTime \in Nat /\ T \in SUBSET (0 .. MaxTime) /\ T # {}
    BY <1>2, <2>1, BoundsAssumption DEF Pending
  <2>3. Max(T) \in T
    BY <2>2, MaxProperty
  <2>4. N \in SUBSET Nat /\ N # {}
    <3>1. \E j \in before : s[j].time = Max(T)
      BY <2>3
    <3>2. N \subseteq Slots /\ Slots \subseteq Nat
      BY DEF Pending, Slots
    <3>. QED
      BY <3>1, <3>2
  <2>5. Min(N) \in N
    BY <2>4, MinProperty
  <2>6. NewestBefore(s, i) = {Min(N)}
    BY <1>2 DEF NewestBefore
  <2>. QED
    BY <2>5, <2>6
<1>. QED
  BY <1>1, <1>2

\* The packets of a gap that ends with the missing packet e.
LEMMA GapMissing ==
    ASSUME NEW r, NEW e \in Nat, e < r.total, r.total \in Nat, r.sizes[e] = "none"
    PROVE  GapBegin(r, e) .. e # {} /\ GapBegin(r, e) .. e \subseteq Missing(r)
<1>. DEFINE b == GapBegin(r, e)
<1>1. b \in 0 .. e /\ \A k \in b .. e - 1 : r.sizes[k] = "none"
  BY GapProperty
<1>. HIDE DEF b
<1>2. \A k \in b .. e : k \in 0 .. r.total - 1 /\ r.sizes[k] = "none"
  BY <1>1
<1>3. b .. e \subseteq Missing(r)
  BY <1>2 DEF Missing
<1>4. e \in b .. e
  BY <1>1
<1>. QED
  BY <1>3, <1>4 DEF b

\* The requests after a packet are about frames under way, and with frames of one
\* size for packets that are missing.
LEMMA GapAsks ==
    ASSUME NEW C, NEW s, SlotsOK(s, C), NEW i \in Pending(s), NEW p \in 0 .. s[i].total - 1,
           NEW A \in GapRequests(s, i, p), NEW a \in A
    PROVE  AskOK(a, C)
<1>1. i \in Slots /\ s \in [Slots -> SlotType]
  BY DEF Pending, SlotsOK
<1>2. \A j \in Pending(s) : /\ s[j].total \in Totals /\ s[j].total \in Nat \ {0}
                            /\ s[j].total <= s[j].len
  <2>1. \A j \in Pending(s) : s[j].total \in Totals /\ s[j].total <= s[j].len
    BY DEF SlotsOK, SlotOK, Pending
  <2>2. \A t \in Totals : t \in Nat \ {0}
    BY Numbers
  <2>. QED
    BY <2>1, <2>2
<1>. DEFINE First == GapBegin(s[i], p - 1)
            Own   == Ask(s, i, First .. p - 1)
            End(j) == Ask(s, j, GapBegin(s[j], s[j].total - 1) .. s[j].total - 1)
<1>3. \/ p > 0 /\ s[i].sizes[p - 1] = "none" /\ a = Own
      \/ \E j \in NewestBefore(s, i) : TRUE \in LooksOpen(s, i, j) /\ a = End(j)
  BY DEF GapRequests
<1>4. CASE p > 0 /\ s[i].sizes[p - 1] = "none" /\ a = Own
  <2>1. p - 1 \in Nat /\ p - 1 < s[i].total /\ s[i].total \in Nat
    BY <1>2, <1>4
  <2>2. First .. p - 1 # {} /\ First .. p - 1 \subseteq Missing(s[i])
    BY <1>4, <2>1, GapMissing
  <2>3. Counted(s[i].counter, C)
    BY DEF SlotsOK, Belongs, Counted
  <2>. QED
    BY <1>4, <2>2, <2>3 DEF Ask, AskOK
<1>5. CASE \E j \in NewestBefore(s, i) : TRUE \in LooksOpen(s, i, j) /\ a = End(j)
  <2>1. PICK j \in NewestBefore(s, i) : TRUE \in LooksOpen(s, i, j) /\ a = End(j)
    BY <1>5
  <2>2. j \in Pending(s)
    BY <1>1, NewestIn
  <2>3. Counted(a.counter, C)
    BY <2>1, <2>2 DEF Ask, SlotsOK, Belongs, Counted
  <2>4. ASSUME SameSize(C)
        PROVE  a.pcs # {} /\ a.pcs \subseteq a.missing
    <3>. DEFINE e == s[j].total - 1
    <3>1. s[i].total = s[j].total
      BY <2>2, <2>4 DEF SameSize, SlotsOK, Belongs
    <3>2. e \in Nat /\ e < s[j].total /\ s[j].total \in Nat /\ e < s[j].len
      <4>1. s[j].len \in Nat
        <5>1. s[j].len \in Totals \cup {0}
          BY <1>1, <2>2 DEF SlotType, Pending
        <5>. QED
          BY <5>1, TotalRange
      <4>. QED
        BY <1>2, <2>2, <4>1
    <3>3. s[j].sizes[e] = "none"
      BY <2>1, <3>1, <3>2 DEF LooksOpen
    <3>4. GapBegin(s[j], e) .. e # {} /\ GapBegin(s[j], e) .. e \subseteq Missing(s[j])
      BY <3>2, <3>3, GapMissing
    <3>. QED
      BY <2>1, <3>4 DEF Ask
  <2>. QED
    BY <2>3, <2>4 DEF AskOK
<1>. QED
  BY <1>3, <1>4, <1>5

LEMMA RequestedOK ==
    ASSUME NEW C, NEW n, NetOK(n, C), NEW A, \A a \in A : Counted(a.counter, C),
           NEW r \in Requested(n, A)
    PROVE  NetOK(r, C)
<1>1. \A x \in r : x \in n \/ \E a \in A : x = Request(a.counter, a.pcs)
  BY DEF Requested
<1>2. \A a \in A : MessageOK(Request(a.counter, a.pcs), C)
  BY DEF Request, MessageOK
<1>. QED
  BY <1>1, <1>2 DEF NetOK

-----------------------------------------------------------------------------
(* The parser's steps, with C the frames begun.            *)

\* What every step of the parser leaves.
Kept(C) == /\ SlotsOK(slot', C)
           /\ NetOK(net', C)
           /\ mode # 2 => Waiting(slot', Slots)
           /\ SameSize(C) => RequestsOnlyMissing'
           /\ mode = 1 /\ supported => InOrder(out'.parsed, slot')

\* A slot that holds r after a packet of its frame.
Holds(i, r, C) == /\ i \in Slots /\ SlotOK(r) /\ r.time # 0 /\ Belongs(r, C)
                  /\ \A j \in Pending(slot) \ {i} : slot[j].counter # r.counter

LEMMA IgnoreKeeps ==
    ASSUME NEW C, NEW s, SlotsOK(s, C), NEW n, NetOK(n, C), mode # 2 => Waiting(s, Slots),
           Ignore(s, n)
    PROVE  Kept(C)
BY DEF Ignore, Kept, Silent, RequestsOnlyMissing, InOrder

\* A slot that is done leaves the others as they are.
LEMMA ReleasedWaits ==
    ASSUME NEW C, NEW s, SlotsOK(s, C), NEW I, Waiting(s, Slots \ I)
    PROVE  Waiting(Released(s, I), Slots)
BY ReleasedOK DEF Waiting, Pending

LEMMA SettleKeeps ==
    ASSUME NEW C, NEW s, SlotsOK(s, C), NEW n, NetOK(n, C), NEW i \in Pending(s),
           mode \in Modes, mode # 2 => Waiting(s, Slots \ {i}),
           NEW gaps, \A A \in gaps : \A a \in A : AskOK(a, C),
           Settle(s, n, i, gaps)
    PROVE  Kept(C)
<1>. DEFINE parsed == IF ~Complete(s[i]) THEN {}
                      ELSE IF mode = 0 \/ ~supported THEN {i}
                      ELSE IF mode = 1 THEN Older(s, i) ELSE {}
            asks == IF mode = 1 /\ supported /\ ~Complete(s[i]) THEN gaps ELSE {{}}
<1>1. /\ slot' = Released(s, parsed) /\ out'.parsed = Handed(s, parsed, TRUE)
      /\ \E A \in asks : net' \in Requested(n, A) /\ out'.asked = A
  BY DEF Settle
<1>2. \A A \in asks : \A a \in A : AskOK(a, C)
  OBVIOUS
<1>3. mode \in {0, 1, 2}
  BY BoundsAssumption
<1>4. i \in Older(s, i)
  BY DEF Older, Pending, Slots
<1>5. mode # 2 => i \in parsed \/ ~Complete(s[i])
  BY <1>3, <1>4
<1>6. mode # 2 => Waiting(s, Slots \ parsed)
  BY <1>5 DEF Waiting
<1>7. mode = 1 /\ supported => parsed = Older(s, i) \/ parsed = {}
  OBVIOUS
<1>. HIDE DEF parsed, asks
<1>8. s \in [Slots -> SlotType]
  BY DEF SlotsOK
<1>9. mode = 1 /\ supported => InOrder(out'.parsed, slot')
  BY <1>1, <1>7, <1>8, OlderInOrder, NothingInOrder, Zenon
<1>10. SlotsOK(slot', C)
  BY <1>1, ReleasedOK, Zenon
<1>11. mode # 2 => Waiting(slot', Slots)
  BY <1>1, <1>6, ReleasedWaits, Zenon
<1>12. NetOK(net', C)
  BY <1>1, <1>2, RequestedOK, Zenon DEF AskOK
<1>13. SameSize(C) => RequestsOnlyMissing'
  BY <1>1, <1>2 DEF AskOK, RequestsOnlyMissing
<1>. QED
  BY <1>9, <1>10, <1>11, <1>12, <1>13 DEF Kept

\* The slot after the data of place p was stored.
LEMMA StoredOK ==
    ASSUME NEW r, SlotOK(r), NEW p \in 0 .. r.total - 1, r.sizes[p] # "nda"
    PROVE  SlotOK([r EXCEPT !.sizes[p] = "data",
                            !.got = IF r.sizes[p] = "data" THEN r.got ELSE r.got + 1,
                            !.data = @ \cup {p}])
<1>. DEFINE got == IF r.sizes[p] = "data" THEN r.got ELSE r.got + 1
            q == [r EXCEPT !.sizes[p] = "data", !.got = got, !.data = @ \cup {p}]
<1>1. /\ r \in SlotType /\ r.total \in Totals \cup {0} /\ r.sizes \in [Places -> {"none", "data", "nda"}]
      /\ r.data \subseteq 0 .. r.total - 1 /\ r.got = Cardinality(r.data)
      /\ \A k \in r.data : r.sizes[k] # "none"
      /\ \A k \in Places : r.sizes[k] = "data" => k \in r.data
      /\ r.total <= r.len
      /\ \A k \in Places : r.sizes[k] # "none" => k < r.total
      /\ r.nda >= Cardinality(Listed(r))
  BY DEF SlotOK, SlotType
<1>2. r.total \in Nat /\ r.total \in 0 .. Max(Totals)
  BY <1>1, TotalRange
<1>3. 0 .. r.total - 1 \subseteq Places
  <2>1. Max(Totals) \in Nat
    BY Numbers
  <2>. QED
    BY <1>2, <2>1 DEF Places
<1>4. IsFiniteSet(0 .. r.total - 1) /\ Cardinality(0 .. r.total - 1) = r.total
  <2>1. 0 \in Int /\ r.total - 1 \in Int
    BY <1>2
  <2>2. /\ IsFiniteSet(0 .. r.total - 1)
        /\ Cardinality(0 .. r.total - 1) = IF 0 > r.total - 1 THEN 0 ELSE r.total - 1 - 0 + 1
    BY <2>1, FS_Interval
  <2>. QED
    BY <1>2, <2>2
<1>5. p \in Places /\ r.data \cup {p} \subseteq 0 .. r.total - 1
  BY <1>1, <1>3
<1>6. IsFiniteSet(r.data)
  BY <1>1, <1>4, FS_Subset
<1>7. p \in r.data <=> r.sizes[p] = "data"
  BY <1>1, <1>5
<1>8. got = Cardinality(r.data \cup {p})
  <2>1. Cardinality(r.data \cup {p}) =
           IF p \in r.data THEN Cardinality(r.data) ELSE Cardinality(r.data) + 1
    BY <1>6, FS_AddElement, Zenon
  <2>. QED
    BY <1>1, <1>7, <2>1
<1>9. got \in 0 .. Max(Totals)
  <2>1. got \in Nat
    BY <1>1, <1>6, FS_CardinalityType
  <2>2. got <= r.total
    <3>1. Cardinality(r.data \cup {p}) <= Cardinality(0 .. r.total - 1)
      BY <1>4, <1>5, FS_Subset
    <3>. QED
      BY <1>4, <1>8, <3>1
  <2>. QED
    BY <1>2, <2>1, <2>2, Numbers
<1>10. /\ q.total = r.total /\ q.len = r.len /\ q.data = r.data \cup {p} /\ q.got = got
       /\ q.sizes = [r.sizes EXCEPT ![p] = "data"] /\ q.nda = r.nda
  BY <1>1 DEF SlotType
<1>11. q.sizes \in [Places -> {"none", "data", "nda"}] /\ q.data \subseteq Places
  BY <1>1, <1>3, <1>5, <1>10
<1>. HIDE DEF got
<1>12. q \in SlotType
  BY <1>1, <1>9, <1>11 DEF SlotType
<1>. HIDE DEF q
<1>13. \A k \in q.data : q.sizes[k] # "none"
  BY <1>1, <1>3, <1>5, <1>10
<1>14. \A k \in Places : q.sizes[k] = "data" => k \in q.data
  BY <1>1, <1>10
<1>15. \A k \in Places : q.sizes[k] # "none" => k < q.total
  <2>1. p < r.total
    BY <1>2
  <2>. QED
    BY <1>1, <1>5, <1>10, <2>1
<1>16. Listed(q) = Listed(r)
  BY <1>1, <1>5, <1>10 DEF Listed
<1>. QED
  BY <1>1, <1>5, <1>8, <1>10, <1>12, <1>13, <1>14, <1>15, <1>16 DEF SlotOK, q, got

LEMMA StoreKeeps ==
    ASSUME NEW C, SlotsOK(slot, C), NEW n, NetOK(n, C), mode \in Modes,
           NEW i, NEW r, Holds(i, r, C),
           mode # 2 => ~Complete(r) /\ Waiting(slot, Slots \ {i}),
           NEW m, m \in DataMessage, m.pc < m.total,
           Store(m, n, i, r)
    PROVE  Kept(C)
<1>1. /\ i \in Slots /\ SlotOK(r) /\ r.time # 0 /\ Belongs(r, C)
      /\ \A j \in Pending(slot) \ {i} : slot[j].counter # r.counter
      /\ slot \in [Slots -> SlotType]
  BY DEF Holds, SlotsOK
<1>2. CASE m.total # r.total
  <2>. DEFINE s == [slot EXCEPT ![i] = Freed(r)]
  <2>1. SlotsOK(s, C)
    BY <1>1, FreedOK, SetOK, Zenon
  <2>2. mode # 2 => Waiting(s, Slots)
    BY <1>1, FreedOK DEF Waiting, Pending
  <2>3. Ignore(s, n)
    BY <1>2 DEF Store
  <2>. QED
    BY <2>1, <2>2, <2>3, IgnoreKeeps, Zenon
<1>3. CASE m.total = r.total /\ r.sizes[m.pc] = "nda"
  <2>. DEFINE s == [slot EXCEPT ![i] = r]
  <2>1. SlotsOK(s, C)
    BY <1>1, SetOK, Zenon
  <2>2. mode # 2 => Waiting(s, Slots)
    BY <1>1 DEF Waiting, Pending
  <2>3. Ignore(s, n)
    BY <1>3 DEF Store
  <2>. QED
    BY <2>1, <2>2, <2>3, IgnoreKeeps, Zenon
<1>4. CASE m.total = r.total /\ r.sizes[m.pc] # "nda"
  <2>. DEFINE got == IF r.sizes[m.pc] = "data" THEN r.got ELSE r.got + 1
              q == [r EXCEPT !.sizes[m.pc] = "data", !.got = got, !.data = @ \cup {m.pc}]
              s == [slot EXCEPT ![i] = q]
  <2>1. m.pc \in 0 .. r.total - 1
    BY <1>4, TotalRange DEF DataMessage, Places
  <2>2. SlotOK(q)
    BY <1>1, <1>4, <2>1, StoredOK, Zenon
  <2>3. q.time # 0 /\ q.counter = r.counter /\ q.total = r.total /\ Belongs(q, C)
    BY <1>1 DEF SlotOK, SlotType, Belongs
  <2>4. Settle(s, n, i, GapRequests(s, i, m.pc))
    BY <1>4 DEF Store
  <2>. HIDE DEF q
  <2>5. SlotsOK(s, C)
    BY <1>1, <2>2, <2>3, SetOK
  <2>6. i \in Pending(s) /\ (mode # 2 => Waiting(s, Slots \ {i}))
    BY <1>1, <2>3 DEF Pending, Waiting
  <2>7. m.pc \in 0 .. s[i].total - 1
    BY <1>1, <2>1, <2>3
  <2>. HIDE DEF s
  <2>8. \A A \in GapRequests(s, i, m.pc) : \A a \in A : AskOK(a, C)
    BY <2>5, <2>6, <2>7, GapAsks
  <2>. QED
    BY <2>4, <2>5, <2>6, <2>8, SettleKeeps
<1>. QED
  BY <1>2, <1>3, <1>4

\* What the parser's steps rely on.
Ready(C) == /\ SlotsOK(slot, C) /\ mode \in Modes /\ now \in 1 .. MaxTime
            /\ mode # 2 => Waiting(slot, Slots)

LEMMA KnownFrameKeeps ==
    ASSUME NEW C, Ready(C), NEW n, NetOK(n, C), NEW m, MessageOK(m, C), KnownFrame(m, n)
    PROVE  Kept(C)
<1>1. m \in DataMessage /\ m.pc < m.total
  BY DEF KnownFrame, MessageOK, NdaMessage
<1>2. PICK i \in Found(m.counter) : Store(m, n, i, slot[i])
  BY DEF KnownFrame
<1>3. Holds(i, slot[i], C)
  BY <1>2 DEF Holds, Ready, SlotsOK, Found, Pending
<1>4. mode # 2 => ~Complete(slot[i]) /\ Waiting(slot, Slots \ {i})
  BY <1>2 DEF Ready, Waiting, Found, Pending
<1>. QED
  BY <1>1, <1>2, <1>3, <1>4, StoreKeeps DEF Ready

LEMMA NewFrameKeeps ==
    ASSUME NEW C, Ready(C), NEW n, NetOK(n, C), NEW m, MessageOK(m, C), NewFrame(m, n)
    PROVE  Kept(C) /\ now' \in 1 .. MaxTime
<1>1. m \in DataMessage /\ m.pc < m.total /\ Belongs(m, C)
  BY DEF NewFrame, MessageOK, NdaMessage
<1>2. PICK t \in 1 .. MaxTime : now' = t /\ Store(m, n, NewSlot, Fresh(NewSlot, m, t))
  BY DEF NewFrame
<1>3. NewSlot \in Slots /\ SlotOK(slot[NewSlot])
  BY NewSlotIn DEF Ready, SlotsOK
<1>. DEFINE r == Fresh(NewSlot, m, t)
<1>4. /\ SlotOK(r) /\ r.time = t /\ r.counter = m.counter /\ ~Complete(r)
      /\ Belongs(r, C)
  BY <1>1, <1>3, FreshOK DEF DataMessage, Belongs
<1>. HIDE DEF r
<1>5. Holds(NewSlot, r, C)
  <2>1. Found(m.counter) = {}
    BY DEF NewFrame
  <2>. QED
    BY <1>1, <1>3, <1>4, <2>1 DEF Holds, Found
<1>6. mode # 2 => ~Complete(r) /\ Waiting(slot, Slots \ {NewSlot})
  BY <1>4 DEF Ready, Waiting
<1>. QED
  BY <1>1, <1>2, <1>5, <1>6, StoreKeeps DEF Ready, r

LEMMA LateRetransmissionKeeps ==
    ASSUME NEW C, Ready(C), NEW n, NetOK(n, C), NEW m, LateRetransmission(m, n)
    PROVE  Kept(C)
BY IgnoreKeeps DEF Ready, LateRetransmission

\* A slot in which a list was noted: every place listed anew counts once at least.
LEMMA NotedOK ==
    ASSUME NEW r, SlotOK(r), NEW list \in Seq(Nat)
    PROVE  /\ SlotOK(Noted(r, list))
           /\ Noted(r, list).time = r.time /\ Noted(r, list).counter = r.counter
           /\ Noted(r, list).total = r.total
<1>. DEFINE read   == Read(list, r.total)
            listed == {list[k] : k \in read}
            nda    == r.nda + Cardinality(read)
            sizes  == [p \in Places |-> IF p \in listed THEN "nda" ELSE r.sizes[p]]
            q      == [r EXCEPT !.nda = nda, !.sizes = sizes]
<1>1. /\ r \in SlotType /\ r.nda \in Nat
      /\ r.sizes \in [Places -> {"none", "data", "nda"}]
  BY DEF SlotOK, SlotType
<1>2. read \subseteq 1 .. Len(list) /\ \A k \in read : list[k] < r.total
  BY DEF Read
<1>. HIDE DEF read
<1>3. IsFiniteSet(read) /\ Cardinality(read) \in Nat
  <2>1. Len(list) \in Nat /\ 1 \in Int
    OBVIOUS
  <2>2. IsFiniteSet(1 .. Len(list))
    BY <2>1, FS_Interval
  <2>. QED
    BY <1>2, <2>2, FS_Subset, FS_CardinalityType
<1>4. IsFiniteSet(listed) /\ Cardinality(listed) <= Cardinality(read)
  <2>. DEFINE g == [k \in read |-> list[k]]
  <2>1. g \in Surjection(read, listed)
    BY DEF Surjection
  <2>. QED
    BY <1>3, <2>1, FS_Surjection
<1>5. nda \in Nat /\ sizes \in [Places -> {"none", "data", "nda"}]
  BY <1>1, <1>3
<1>6. Noted(r, list) = q
  BY DEF Noted, read
<1>. HIDE DEF nda, sizes
<1>7. /\ q.time = r.time /\ q.counter = r.counter /\ q.total = r.total /\ q.len = r.len
      /\ q.got = r.got /\ q.data = r.data /\ q.nda = nda /\ q.sizes = sizes
  BY <1>1 DEF SlotType
<1>8. q \in SlotType
  BY <1>1, <1>5 DEF SlotType
<1>. HIDE DEF q, listed
<1>9. /\ \A p \in q.data : q.sizes[p] # "none"
      /\ \A p \in Places : q.sizes[p] = "data" => p \in q.data
      /\ \A p \in Places : q.sizes[p] # "none" => p < q.total
  <2>1. \A p \in listed : p < r.total
    BY <1>2 DEF listed
  <2>2. r.data \subseteq Places
    BY <1>1 DEF SlotType
  <2>. QED
    BY <1>7, <2>1, <2>2 DEF SlotOK, sizes
<1>10. q.nda >= Cardinality(Listed(q))
  <2>. DEFINE old == Listed(r)
  <2>1. Listed(q) \subseteq old \cup listed
    BY <1>7 DEF Listed, sizes
  <2>2. IsFiniteSet(old)
    BY Numbers, FS_Subset DEF Listed
  <2>. HIDE DEF old
  <2>3. /\ IsFiniteSet(old \cup listed)
        /\ Cardinality(old \cup listed)
             = Cardinality(old) + Cardinality(listed) - Cardinality(old \cap listed)
    BY <1>4, <2>2, FS_Union
  <2>4. IsFiniteSet(old \cap listed)
    BY <2>2, FS_Subset
  <2>5. /\ Cardinality(old \cap listed) \in Nat /\ Cardinality(old) \in Nat
        /\ Cardinality(listed) \in Nat
    BY <1>4, <2>2, <2>4, FS_CardinalityType
  <2>6. Cardinality(Listed(q)) <= Cardinality(old \cup listed) /\ Cardinality(Listed(q)) \in Nat
    BY <2>1, <2>3, FS_Subset, FS_CardinalityType
  <2>7. r.nda >= Cardinality(old)
    BY DEF SlotOK, old
  <2>. QED
    BY <1>1, <1>3, <1>4, <1>7, <2>3, <2>5, <2>6, <2>7 DEF nda
<1>11. SlotOK(q)
  BY <1>7, <1>8, <1>9, <1>10 DEF SlotOK
<1>. QED
  BY <1>6, <1>7, <1>11

LEMMA NotAvailableKeeps ==
    ASSUME NEW C, Ready(C), NEW n, NetOK(n, C), NEW m, MessageOK(m, C), NotAvailable(m, n)
    PROVE  Kept(C)
<1>1. SlotsOK(slot, C) /\ mode \in Modes /\ (mode # 2 => Waiting(slot, Slots))
  BY DEF Ready
<1>2. m \in NdaMessage
  BY DEF NotAvailable, MessageOK, DataMessage
<1>3. CASE Ignore(slot, n)
  BY <1>1, <1>3, IgnoreKeeps
<1>4. CASE \E i \in Found(m.counter) : Ignore(Released(slot, {i}), n)
  <2>1. PICK i \in Found(m.counter) : Ignore(Released(slot, {i}), n)
    BY <1>4
  <2>2. SlotsOK(Released(slot, {i}), C)
    BY <1>1, ReleasedOK
  <2>3. mode # 2 => Waiting(Released(slot, {i}), Slots)
    BY <1>1, ReleasedWaits DEF Waiting
  <2>. QED
    BY <2>1, <2>2, <2>3, IgnoreKeeps
<1>5. ASSUME NEW i \in Found(m.counter),
             Settle([slot EXCEPT ![i] = Noted(slot[i], m.pcs)], n, i, {{}})
      PROVE  Kept(C)
  <2>. DEFINE r == Noted(slot[i], m.pcs)
              s == [slot EXCEPT ![i] = r]
  <2>1. /\ i \in Slots /\ slot[i].time # 0 /\ SlotOK(slot[i])
        /\ slot \in [Slots -> SlotType]
    BY <1>1 DEF Found, Pending, SlotsOK
  <2>2. /\ SlotOK(r) /\ r.time = slot[i].time /\ r.counter = slot[i].counter
        /\ r.total = slot[i].total
    BY <1>2, <2>1, NotedOK DEF NdaMessage
  <2>3. Settle(s, n, i, {{}})
    BY <1>5
  <2>. HIDE DEF r
  <2>4. SlotsOK(s, C)
    <3>1. Belongs(r, C) /\ \A j \in Pending(slot) \ {i} : slot[j].counter # r.counter
      BY <1>1, <2>2 DEF SlotsOK, Found, Belongs
    <3>. QED
      BY <1>1, <2>1, <2>2, <3>1, SetOK
  <2>5. i \in Pending(s) /\ (mode # 2 => Waiting(s, Slots \ {i}))
    BY <1>1, <2>1, <2>2 DEF Pending, Waiting
  <2>. HIDE DEF s
  <2>. QED
    BY <1>1, <2>3, <2>4, <2>5, SettleKeeps
<1>. QED
  BY <1>3, <1>4, <1>5, Zenon DEF NotAvailable

-----------------------------------------------------------------------------
(* The time-outs.                                                          *)

LEMMA GiveUpKeeps ==
    ASSUME NEW C, Ready(C), NetOK(net, C), NEW i, GiveUp(i)
    PROVE  Kept(C)
<1>1. slot' = Released(slot, Older(slot, i)) /\ net' = net
  BY DEF GiveUp
<1>2. mode # 2 => Waiting(slot, Slots \ Older(slot, i))
  BY DEF Ready, Waiting
<1>. QED
  <2>1. RequestsOnlyMissing'
    BY DEF GiveUp, RequestsOnlyMissing
  <2>2. out'.parsed = Handed(slot, Older(slot, i), FALSE) /\ i \in Pending(slot)
    BY DEF GiveUp
  <2>3. InOrder(out'.parsed, slot')
    BY <1>1, <2>2, OlderInOrder DEF Ready, SlotsOK
  <2>. QED
    BY <1>1, <1>2, <2>1, <2>3, ReleasedOK, ReleasedWaits DEF Ready, Kept

LEMMA RetryKeeps ==
    ASSUME NEW C, Ready(C), NetOK(net, C), NEW i, Retry(i)
    PROVE  Kept(C)
<1>1. /\ i \in Slots /\ slot[i].time # 0 /\ Belongs(slot[i], C)
      /\ slot[i].retries < MaxAttempts
      /\ slot' = [slot EXCEPT ![i].retries = @ + 1]
  BY DEF Retry, Retrying, Pending, Ready, SlotsOK
<1>. DEFINE retries == slot[i].retries + 1
            r == [slot[i] EXCEPT !.retries = retries]
<1>2. slot[i] \in SlotType /\ SlotOK(slot[i]) /\ slot \in [Slots -> SlotType]
  BY <1>1 DEF Ready, SlotsOK
<1>3. retries \in 0 .. MaxAttempts
  <2>1. MaxAttempts \in Nat
    BY BoundsAssumption
  <2>2. slot[i].retries \in 0 .. MaxAttempts
    BY <1>2 DEF SlotType
  <2>. QED
    BY <1>1, <2>1, <2>2
<1>4. slot' = [slot EXCEPT ![i] = r]
  BY <1>1, <1>2
<1>. HIDE DEF retries
<1>5. r \in SlotType
  BY <1>2, <1>3 DEF SlotType
<1>6. /\ r.time = slot[i].time /\ r.counter = slot[i].counter /\ r.total = slot[i].total
      /\ r.len = slot[i].len /\ r.got = slot[i].got /\ r.data = slot[i].data
      /\ r.nda = slot[i].nda /\ r.sizes = slot[i].sizes
  BY <1>2 DEF SlotType
<1>. HIDE DEF r
<1>7. SlotOK(r)
  BY <1>2, <1>5, <1>6 DEF SlotOK, Listed
<1>8. SlotsOK(slot', C)
  <2>1. \A j \in Pending(slot) \ {i} : slot[j].counter # r.counter
    BY <1>1, <1>6 DEF Ready, SlotsOK, Pending
  <2>2. SlotsOK(slot, C) /\ Belongs(r, C)
    BY <1>1, <1>6 DEF Ready, Belongs
  <2>3. SlotsOK([slot EXCEPT ![i] = r], C)
    BY <1>1, <1>7, <2>1, <2>2, SetOK, Zenon
  <2>. QED
    BY <1>4, <2>3
<1>9. mode # 2 => Waiting(slot', Slots)
  BY <1>1, <1>2, <1>4, <1>6 DEF Ready, Waiting, Pending, Complete
<1>10. NetOK(net', C)
  <2>. DEFINE A == IF Missing(slot[i]) = {} THEN {} ELSE {Ask(slot, i, Missing(slot[i]))}
  <2>1. net' \in Requested(net, A)
    BY DEF Retry
  <2>2. \A a \in A : Counted(a.counter, C)
    BY <1>1 DEF Ask, Belongs, Counted
  <2>. HIDE DEF A
  <2>. QED
    BY <2>1, <2>2, RequestedOK
<1>11. RequestsOnlyMissing'
  <2>1. \A a \in out'.asked : a = Ask(slot, i, Missing(slot[i])) /\ Missing(slot[i]) # {}
    BY DEF Retry
  <2>. QED
    BY <2>1 DEF RequestsOnlyMissing, Ask
<1>12. InOrder(out'.parsed, slot')
  <2>1. out'.parsed = <<>>
    BY DEF Retry
  <2>. QED
    BY <2>1 DEF InOrder
<1>. QED
  BY <1>8, <1>9, <1>10, <1>11, <1>12 DEF Kept

-----------------------------------------------------------------------------
(* The device and the network.                                             *)

\* What has begun stays begun.
LEMMA MoreBegun ==
    ASSUME NEW C, NEW D, C \subseteq D
    PROVE  /\ \A s : SlotsOK(s, C) => SlotsOK(s, D)
           /\ \A n : NetOK(n, C) => NetOK(n, D)
<1>1. /\ \A r : Belongs(r, C) => Belongs(r, D)
      /\ \A c : Counted(c, C) => Counted(c, D)
  BY DEF Belongs, Counted
<1>. QED
  BY <1>1 DEF SlotsOK, NetOK, MessageOK

LEMMA DataOK ==
    ASSUME NEW C, frames \in Streams, NEW k \in DOMAIN frames, frames[k] \in C,
           NEW p \in 0 .. frames[k].total - 1, NEW retr \in BOOLEAN
    PROVE  MessageOK(Data(frames[k], p, retr), C)
<1>1. frames[k].counter \in Counters /\ frames[k].total \in Totals
  BY FrameType
<1>2. p \in Places /\ p < frames[k].total
  <2>1. 0 .. frames[k].total - 1 \subseteq Places
    BY <1>1, Numbers
  <2>2. frames[k].total \in Nat
    BY <1>1, TotalRange
  <2>. QED
    BY <2>1, <2>2
<1>3. Belongs(Data(frames[k], p, retr), C) /\ Counted(frames[k].counter, C)
  BY DEF Belongs, Counted, Data
<1>. QED
  BY <1>1, <1>2, <1>3 DEF Data, MessageOK, DataMessage

LEMMA SendKeeps ==
    ASSUME frames \in Streams, SenderOK, NetOK(net, Begun), Send
    PROVE  SenderOK' /\ Begun \subseteq Begun' /\ NetOK(net', Begun')
<1>. DEFINE k == sender.k
            f == frames[k]
<1>1. /\ k \in DOMAIN frames /\ frames' = frames
      /\ net' = net \/ net' = net \cup {Data(f, sender.p, FALSE)}
      /\ sender' = IF sender.p + 1 < f.total THEN [sender EXCEPT !.p = @ + 1]
                   ELSE [k |-> k + 1, p |-> 0]
  BY DEF Send, conf
<1>2. sender \in [k : Nat, p : Nat] /\ k \in Nat /\ sender.p \in Nat /\ sender.p < f.total
  BY <1>1 DEF SenderOK
<1>3. \A h \in DOMAIN frames : h \in Nat /\ frames[h].total \in Nat \ {0}
  <2>1. ASSUME NEW h \in DOMAIN frames
        PROVE  frames[h].total \in Totals
    BY FrameType
  <2>2. \A t \in Totals : t \in Nat \ {0}
    BY Numbers
  <2>3. \E R : frames \in Seq(R)
    BY StreamsAssumption
  <2>. QED
    BY <2>1, <2>2, <2>3
<1>4. \/ sender'.k = k /\ sender'.p = sender.p + 1 /\ sender'.p < f.total
      \/ sender'.k = k + 1 /\ sender'.p = 0
  BY <1>1, <1>2
<1>5. sender' \in [k : Nat, p : Nat]
  BY <1>1, <1>2
<1>6. SenderOK'
  BY <1>1, <1>3, <1>4, <1>5 DEF SenderOK
<1>7. \A h \in DOMAIN frames : h < k \/ (h = k /\ sender.p > 0)
                                  => h < sender'.k \/ (h = sender'.k /\ sender'.p > 0)
  BY <1>2, <1>3, <1>4
<1>8. k < sender'.k \/ (k = sender'.k /\ sender'.p > 0)
  BY <1>2, <1>4
<1>9. Begun \subseteq Begun' /\ f \in Begun'
  BY <1>1, <1>7, <1>8 DEF Begun
<1>10. f.total \in Nat \ {0}
  BY <1>1, <1>3
<1>11. MessageOK(Data(f, sender.p, FALSE), Begun')
  <2>1. sender.p \in 0 .. f.total - 1
    BY <1>2, <1>10
  <2>. QED
    BY <1>1, <1>9, <2>1, DataOK
<1>12. NetOK(net, Begun')
  BY <1>9, MoreBegun
<1>. QED
  BY <1>1, <1>6, <1>9, <1>11, <1>12 DEF NetOK

LEMMA RespondKeeps ==
    ASSUME frames \in Streams, SenderOK, NetOK(net, Begun), NEW m \in net, Respond(m)
    PROVE  NetOK(net', Begun)
<1>. DEFINE k == LastSent(m.counter)
            K == {h \in DOMAIN frames : /\ frames[h].counter = m.counter
                                        /\ h < sender.k \/ (h = sender.k /\ sender.p > 0)}
<1>1. Counted(m.counter, Begun)
  BY DEF NetOK, MessageOK
<1>2. K # {}
  BY <1>1 DEF Begun, Counted
<1>3. Len(frames) \in Nat /\ DOMAIN frames = 1 .. Len(frames)
  BY StreamsAssumption
<1>4. K \in SUBSET (0 .. Len(frames))
  BY <1>3
<1>5. k \in K
  BY <1>2, <1>3, <1>4, MaxProperty DEF LastSent
<1>. HIDE DEF k
<1>6. k \in DOMAIN frames /\ frames[k].counter = m.counter /\ frames[k] \in Begun
  BY <1>5 DEF Begun
<1>7. SentOf(k) \subseteq 0 .. frames[k].total - 1
  BY DEF SentOf
<1>8. m.counter \in Counters /\ frames[k].total \in Totals
  BY <1>6, FrameType
<1>. DEFINE P == m.pcs \cap SentOf(k)
<1>9. PICK R \in SUBSET P :
         \E N \in SUBSET {Nda(m.counter, list) : list \in Ascending(P \ R)} :
            net' = (net \ {m}) \cup N \cup {Data(frames[k], p, TRUE) : p \in R}
  BY DEF Respond, k
<1>10. ASSUME NEW list \in Ascending(P \ R)
       PROVE  MessageOK(Nda(m.counter, list), Begun)
  <2>. DEFINE Q == P \ R
  <2>1. Q \subseteq Nat /\ IsFiniteSet(Q)
    <3>1. frames[k].total \in Nat
      BY <1>8, TotalRange
    <3>2. (0 .. frames[k].total - 1) \subseteq Nat /\ IsFiniteSet(0 .. frames[k].total - 1)
      BY <3>1, FS_Interval
    <3>. QED
      BY <1>7, <3>2, FS_Subset
  <2>2. Cardinality(Q) \in Nat /\ list \in [1 .. Cardinality(Q) -> Q]
    BY <1>10, <2>1, FS_CardinalityType DEF Ascending
  <2>. HIDE DEF Q
  <2>. DEFINE len == Cardinality(Q)
  <2>. HIDE DEF len
  <2>3. list \in Seq(Nat)
    <3>1. len \in Nat /\ list \in [1 .. len -> Nat]
      BY <2>1, <2>2 DEF len
    <3>. QED
      BY <3>1
  <2>. QED
    BY <1>1, <1>8, <2>3 DEF Nda, MessageOK, NdaMessage
<1>11. \A p \in R : MessageOK(Data(frames[k], p, TRUE), Begun)
  BY <1>1, <1>6, <1>7, <1>9, DataOK
<1>. QED
  BY <1>9, <1>10, <1>11 DEF NetOK

-----------------------------------------------------------------------------
(* The invariant.                                                          *)

LEMMA InitOK == Init => IInv /\ RequestsOnlyMissing
<1> SUFFICES ASSUME Init PROVE IInv /\ RequestsOnlyMissing
  OBVIOUS
<1>1. /\ slot = [i \in Slots |-> Empty] /\ net = {} /\ sender = [k |-> 1, p |-> 0]
      /\ now = 1 /\ retransmissionSupport = FALSE /\ out.asked = {}
      /\ mode \in Modes /\ supported \in Supported /\ frames \in Streams
  BY DEF Init, Silent
<1>2. Pending(slot) = {} /\ \A i \in Slots : slot[i] = Empty
  BY <1>1 DEF Pending, Empty
<1>3. SlotsOK(slot, Begun)
  BY <1>1, <1>2, EmptyOK DEF SlotsOK
<1>4. SenderOK
  <2>1. ASSUME NEW k \in DOMAIN frames
        PROVE  frames[k].total \in Totals
    BY <1>1, FrameType
  <2>2. \A t \in Totals : t \in Nat \ {0}
    BY Numbers
  <2>. QED
    BY <1>1, <2>1, <2>2 DEF SenderOK
<1>5. Waiting(slot, Slots) /\ NetOK(net, Begun) /\ RequestsOnlyMissing
  BY <1>1, <1>2 DEF Waiting, NetOK, RequestsOnlyMissing
<1>6. TypeOK
  <2>1. 1 \in 1 .. MaxTime
    <3>1. MaxTime \in Nat \ {0}
      BY BoundsAssumption
    <3>. QED
      BY <3>1
  <2>2. \A i \in Slots : slot[i].got <= slot[i].total /\ slot[i].total <= slot[i].len
    BY <1>2 DEF Empty
  <2>. QED
    BY <1>1, <1>3, <2>1, <2>2 DEF TypeOK, SlotsOK
<1>. QED
  BY <1>3, <1>4, <1>5, <1>6 DEF IInv

\* The slots' conjunct of TypeOK.
LEMMA SlotTypes ==
    ASSUME NEW C, NEW s, SlotsOK(s, C)
    PROVE  /\ s \in [Slots -> SlotType]
           /\ \A i \in Slots : s[i].got <= s[i].total /\ s[i].total <= s[i].len
<1>1. ASSUME NEW r, SlotOK(r)
      PROVE  r.got <= r.total /\ r.total <= r.len
  <2>1. r.total \in Totals \cup {0}
    BY <1>1 DEF SlotOK, SlotType
  <2>2. r.total \in Nat /\ 0 \in Int /\ r.total - 1 \in Int
    BY <2>1, TotalRange
  <2>3. /\ IsFiniteSet(0 .. r.total - 1)
        /\ Cardinality(0 .. r.total - 1) = IF 0 > r.total - 1 THEN 0 ELSE r.total - 1 - 0 + 1
    BY <2>2, FS_Interval
  <2>4. Cardinality(r.data) <= Cardinality(0 .. r.total - 1)
    BY <1>1, <2>3, FS_Subset DEF SlotOK
  <2>. QED
    BY <1>1, <2>2, <2>3, <2>4 DEF SlotOK
<1>. QED
  BY <1>1 DEF SlotsOK

Invariant == IInv /\ (OneSize => RequestsOnlyMissing) /\ HandedInOrder

LEMMA NextKeeps ==
    ASSUME Invariant, [Next]_vars
    PROVE  Invariant'
<1>1. Ready(Begun) /\ NetOK(net, Begun) /\ SenderOK /\ frames \in Streams
  BY DEF Invariant, IInv, TypeOK, Ready
<1>2. /\ retransmissionSupport \in BOOLEAN /\ mode \in Modes /\ supported \in Supported
      /\ Supported \subseteq BOOLEAN
  BY BoundsAssumption DEF Invariant, IInv, TypeOK
\* The steps that leave the device alone.
<1>3. ASSUME Kept(Begun), now' \in 1 .. MaxTime, retransmissionSupport' \in BOOLEAN,
             conf' = conf, sender' = sender
      PROVE  Invariant'
  <2>1. Begun' = Begun /\ mode' = mode /\ supported' = supported /\ frames' = frames
    BY <1>3 DEF Begun, conf
  <2>2. SenderOK'
    BY <1>1, <1>3, <2>1 DEF SenderOK
  <2>3. SlotsOK(slot', Begun') /\ NetOK(net', Begun')
    BY <1>3, <2>1 DEF Kept
  <2>4. (mode # 2 => Waiting(slot, Slots))'
    BY <1>3, <2>1 DEF Kept
  <2>5. TypeOK'
    BY <1>1, <1>2, <1>3, <2>1, <2>3, SlotTypes DEF TypeOK
  <2>6. HandedInOrder'
    BY <1>3, <2>1 DEF Kept, InOrder, HandedInOrder
  <2>. QED
    BY <1>3, <2>1, <2>2, <2>3, <2>4, <2>5, <2>6 DEF Invariant, IInv, Kept, OneSize
<1>4. ASSUME NEW m \in net, Receive(m)
      PROVE  Invariant'
  <2>1. MessageOK(m, Begun) /\ NetOK(net \ {m}, Begun)
    BY <1>1 DEF NetOK
  <2>2. retransmissionSupport' \in BOOLEAN /\ conf' = conf /\ sender' = sender
    BY <1>2, <1>4 DEF Receive
  <2>3. now \in 1 .. MaxTime
    BY <1>1 DEF Ready
  <2>4. Kept(Begun) /\ now' \in 1 .. MaxTime
    <3>1. CASE KnownFrame(m, net \ {m})
      BY <1>1, <2>1, <2>3, <3>1, KnownFrameKeeps DEF KnownFrame
    <3>2. CASE NewFrame(m, net \ {m})
      BY <1>1, <2>1, <3>2, NewFrameKeeps
    <3>3. CASE LateRetransmission(m, net \ {m})
      BY <1>1, <2>1, <2>3, <3>3, LateRetransmissionKeeps DEF LateRetransmission
    <3>4. CASE NotAvailable(m, net \ {m})
      BY <1>1, <2>1, <2>3, <3>4, NotAvailableKeeps DEF NotAvailable
    <3>. QED
      BY <1>4, <3>1, <3>2, <3>3, <3>4 DEF Receive
  <2>. QED
    BY <1>3, <2>2, <2>4
<1>5. ASSUME NEW m \in net, Respond(m)
      PROVE  Invariant'
  <2>1. NetOK(net', Begun)
    BY <1>1, <1>5, RespondKeeps
  <2>2. /\ slot' = slot /\ now' = now /\ retransmissionSupport' = retransmissionSupport
        /\ conf' = conf /\ sender' = sender /\ out'.asked = {} /\ out'.parsed = <<>>
    BY <1>5 DEF Respond, Silent
  <2>3. Kept(Begun) /\ now' \in 1 .. MaxTime
    BY <1>1, <2>1, <2>2, NothingInOrder DEF Kept, Ready, RequestsOnlyMissing
  <2>. QED
    BY <1>2, <1>3, <2>2, <2>3
<1>6. ASSUME NEW i \in Slots, GiveUp(i)
      PROVE  Invariant'
  <2>1. Kept(Begun)
    BY <1>1, <1>6, GiveUpKeeps
  <2>. QED
    BY <1>1, <1>2, <1>3, <1>6, <2>1 DEF GiveUp, Ready
<1>7. ASSUME NEW i \in Slots, Retry(i)
      PROVE  Invariant'
  <2>1. Kept(Begun)
    BY <1>1, <1>7, RetryKeeps
  <2>. QED
    BY <1>1, <1>2, <1>3, <1>7, <2>1 DEF Retry, Retrying, Ready
<1>8. ASSUME NEW i \in Slots, RetryFails(i)
      PROVE  Invariant'
  <2>1. Kept(Begun)
    BY <1>1, <1>8, NothingInOrder DEF RetryFails, Kept, Ready, Silent, RequestsOnlyMissing
  <2>. QED
    BY <1>1, <1>2, <1>3, <1>8, <2>1 DEF RetryFails, Retrying, Ready
<1>9. CASE Send
  <2>1. SenderOK' /\ Begun \subseteq Begun' /\ NetOK(net', Begun')
    BY <1>1, <1>9, SendKeeps
  <2>2. /\ slot' = slot /\ now' = now /\ retransmissionSupport' = retransmissionSupport
        /\ mode' = mode /\ supported' = supported /\ frames' = frames /\ out' = Silent
    BY <1>9 DEF Send, conf
  <2>3. SlotsOK(slot', Begun')
    BY <1>1, <2>1, <2>2, MoreBegun DEF Ready
  <2>4. TypeOK' /\ (mode # 2 => Waiting(slot, Slots))'
    BY <2>2 DEF Invariant, IInv, TypeOK, Waiting, Pending, Complete
  <2>5. RequestsOnlyMissing' /\ HandedInOrder'
    BY <2>2 DEF RequestsOnlyMissing, HandedInOrder, Silent
  <2>. QED
    BY <2>1, <2>3, <2>4, <2>5 DEF Invariant, IInv
<1>10. CASE UNCHANGED vars
  <2>1. /\ slot' = slot /\ now' = now /\ net' = net /\ out' = out /\ conf' = conf
        /\ sender' = sender /\ retransmissionSupport' = retransmissionSupport
        /\ mode' = mode /\ supported' = supported /\ frames' = frames
    BY <1>10 DEF vars, conf
  <2>2. Begun' = Begun
    BY <2>1 DEF Begun
  <2>3. Kept(Begun) /\ now \in 1 .. MaxTime
    BY <1>1, <2>1 DEF Ready, Kept, Invariant, OneSize, RequestsOnlyMissing, HandedInOrder, InOrder
  <2>. QED
    BY <1>2, <1>3, <2>1, <2>3
<1>. QED
  BY <1>4, <1>5, <1>6, <1>7, <1>8, <1>9, <1>10 DEF Next

LEMMA Invariance == Spec => []Invariant
<1>1. Init => Invariant
  BY InitOK DEF Invariant, Init, Silent, HandedInOrder
<1>2. Invariant /\ [Next]_vars => Invariant'
  BY NextKeeps
<1>. QED
  BY <1>1, <1>2, PTL DEF Spec

-----------------------------------------------------------------------------
\* A frame of which nothing is missing is complete if each packet counts once.
LEMMA CountedOnce ==
    ASSUME NEW r, SlotOK(r), Missing(r) = {}, ~CountsTwice(r)
    PROVE  Complete(r)
<1>. DEFINE all == 0 .. r.total - 1
<1>1. /\ r.total \in Nat /\ r.nda \in Nat /\ r.data \subseteq all /\ r.got = Cardinality(r.data)
      /\ r.sizes \in [Places -> {"none", "data", "nda"}]
  <2>1. r.total \in Totals \cup {0}
    BY DEF SlotOK, SlotType
  <2>. QED
    BY <2>1, TotalRange DEF SlotOK, SlotType
<1>2. IsFiniteSet(all) /\ Cardinality(all) = r.total
  <2>1. 0 \in Int /\ r.total - 1 \in Int
    BY <1>1
  <2>2. IsFiniteSet(all) /\ Cardinality(all) = IF 0 > r.total - 1 THEN 0 ELSE r.total - 1 - 0 + 1
    BY <2>1, FS_Interval
  <2>. QED
    BY <1>1, <2>2
<1>3. Listed(r) \subseteq all
  <2>1. \A p \in Places : p \in Nat
    BY Numbers
  <2>. QED
    BY <1>1, <2>1 DEF Listed, SlotOK
<1>4. all \subseteq r.data \cup Listed(r)
  <2>1. all \subseteq Places
    <3>1. r.total \in 0 .. Max(Totals) /\ Max(Totals) \in Nat
      BY Numbers, TotalRange DEF SlotOK, SlotType
    <3>. QED
      BY <1>1, <3>1 DEF Places
  <2>2. \A p \in all : r.sizes[p] # "none"
    BY DEF Missing
  <2>. QED
    BY <1>1, <2>1, <2>2 DEF Listed, SlotOK
<1>5. r.data \cup Listed(r) = all
  BY <1>1, <1>3, <1>4
<1>6. r.data \cap Listed(r) = {} /\ r.nda <= Cardinality(Listed(r))
  <2>1. IsFiniteSet(Listed(r))
    BY <1>2, <1>3, FS_Subset
  <2>2. Cardinality(Listed(r)) \in Nat
    BY <2>1, FS_CardinalityType
  <2>. QED
    BY <1>1, <2>2 DEF CountsTwice
<1>7. r.total = r.got + Cardinality(Listed(r))
  <2>1. IsFiniteSet(r.data) /\ IsFiniteSet(Listed(r))
    BY <1>1, <1>2, <1>3, FS_Subset
  <2>2. Cardinality(r.data \cup Listed(r))
          = Cardinality(r.data) + Cardinality(Listed(r)) - Cardinality({})
    BY <1>6, <2>1, FS_Union
  <2>3. /\ Cardinality({}) = 0 /\ Cardinality(r.data) \in Nat
        /\ Cardinality(Listed(r)) \in Nat
    BY <2>1, FS_EmptySet, FS_CardinalityType
  <2>4. Cardinality(r.data \cup Listed(r)) = r.total
    BY <1>2, <1>5, Zenon
  <2>. HIDE DEF all
  <2>. QED
    BY <1>1, <2>2, <2>3, <2>4
<1>8. r.nda = Cardinality(Listed(r))
  <2>1. r.nda >= Cardinality(Listed(r)) /\ Cardinality(Listed(r)) \in Nat
    BY <1>2, <1>3, FS_Subset, FS_CardinalityType DEF SlotOK
  <2>. QED
    BY <1>1, <1>6, <2>1
<1>. QED
  BY <1>7, <1>8 DEF Complete

-----------------------------------------------------------------------------
\* The variables keep their types; a slot never counts more packets than its frame
\* has, and its arrays are never shorter than the frame (BTAinitFrameToParse).
THEOREM TypeCorrect == Spec => []TypeOK
<1>1. Invariant => TypeOK
  BY DEF Invariant, IInv
<1>. QED
  BY <1>1, Invariance, PTL

\* With any number of slots, frames, requests and losses a frame never collects its
\* packets in two slots: the search goes through all of them.
THEOREM OneSlotCorrect == Spec => []OneSlotPerFrame
<1>1. Invariant => OneSlotPerFrame
  BY DEF Invariant, IInv, SlotsOK, OneSlotPerFrame
<1>. QED
  BY <1>1, Invariance, PTL

\* packetCountGot is the number of packets whose data is there, whatever arrived
\* twice or was declared not available: what is stored is marked, and what is
\* marked "data" is stored.
THEOREM GotCorrect == Spec => []GotCountsData
<1>1. Invariant => GotCountsData
  BY DEF Invariant, IInv, SlotsOK, SlotOK, GotCountsData, Pending
<1>. QED
  BY <1>1, Invariance, PTL

\* A frame of which nothing is missing is parsed in the step that gets or lists its
\* last packet, unless some packet counts twice: packetCountNda is never less than
\* the places listed, so the sum cannot fall short of the total.
THEOREM OnlyMiscountedCorrect == Spec => []OnlyMiscountedWait
<1>1. ASSUME Invariant, mode # 2, NEW i \in Pending(slot), Missing(slot[i]) = {}
      PROVE  CountsTwice(slot[i])
  <2>1. SlotOK(slot[i]) /\ ~Complete(slot[i])
    BY <1>1 DEF Invariant, IInv, SlotsOK, Waiting, Pending
  <2>. QED
    BY <1>1, <2>1, CountedOnce
<1>2. Invariant => OnlyMiscountedWait
  BY <1>1 DEF OnlyMiscountedWait
<1>. QED
  BY <1>2, Invariance, PTL

\* With retransmission frames leave in the order in which their first packets came,
\* whichever slots they are in: getOlderThan takes the older ones first.
THEOREM InOrderCorrect == Spec => []HandedInOrder
<1>1. Invariant => HandedInOrder
  BY DEF Invariant
<1>. QED
  BY <1>1, Invariance, PTL

\* As long as the frames the device sends have one size only packets that are
\* missing are requested.  (The size matters: sendRetrReqGap looks for the end of
\* the previous frame with the size of the current one.)
THEOREM RequestsCorrect == Spec => [](OneSize => RequestsOnlyMissing)
<1>1. Invariant => (OneSize => RequestsOnlyMissing)
  BY DEF Invariant
<1>. QED
  BY <1>1, Invariance, PTL

-----------------------------------------------------------------------------
(* Without retransmission nothing is declared not available.               *)

\* The slots of s have no packet declared not available, and only data is under way.
Plain(s, n) == /\ \A i \in Slots : SlotOK(s[i]) /\ s[i].nda = 0
               /\ \A m \in n : m.kind = "data"

PlainInv == ~supported => ~retransmissionSupport /\ Plain(slot, net) /\ CompleteIsComplete

\* A frame with as many packets as it has places misses none.
LEMMA FullMissesNone ==
    ASSUME NEW r, SlotOK(r), r.nda = 0, Complete(r)
    PROVE  Missing(r) = {}
<1>1. r.total \in Nat /\ r.got = r.total /\ r.got = Cardinality(r.data)
  <2>1. r.total \in Totals \cup {0} /\ r.got \in 0 .. Max(Totals) /\ Max(Totals) \in Nat
    BY Numbers DEF SlotOK, SlotType
  <2>. QED
    BY <2>1, TotalRange DEF SlotOK, Complete
<1>2. IsFiniteSet(0 .. r.total - 1) /\ Cardinality(0 .. r.total - 1) = r.total
  <2>1. 0 \in Int /\ r.total - 1 \in Int
    BY <1>1
  <2>2. /\ IsFiniteSet(0 .. r.total - 1)
        /\ Cardinality(0 .. r.total - 1) = IF 0 > r.total - 1 THEN 0 ELSE r.total - 1 - 0 + 1
    BY <2>1, FS_Interval
  <2>. QED
    BY <1>1, <2>2
<1>3. r.data = 0 .. r.total - 1
  BY <1>1, <1>2, FS_Subset DEF SlotOK
<1>. QED
  BY <1>3 DEF SlotOK, Missing

LEMMA HandedMissesNone ==
    ASSUME NEW s \in [Slots -> SlotType], NEW n, Plain(s, n), NEW I \in SUBSET Slots,
           NEW isComplete \in BOOLEAN, NEW k \in DOMAIN Handed(s, I, isComplete),
           Handed(s, I, isComplete)[k].complete
    PROVE  Handed(s, I, isComplete)[k].missing = {}
<1>. DEFINE j == OldestFirst(s, I)[k]
<1>1. k \in DOMAIN OldestFirst(s, I)
  BY DEF Handed
<1>2. j \in Slots
  BY <1>1, OldestIsFirst
<1>3. Complete(s[j]) /\ Handed(s, I, isComplete)[k].missing = Missing(s[j])
  BY <1>1 DEF Handed
<1>. QED
  BY <1>2, <1>3, FullMissesNone DEF Plain

LEMMA ReleasedPlain ==
    ASSUME NEW s, NEW n, Plain(s, n), NEW I
    PROVE  Plain(Released(s, I), n)
<1>1. \A i \in Slots : SlotOK(Freed(s[i])) /\ Freed(s[i]).nda = 0
  BY FreedOK DEF Plain, Freed, Empty
<1>. QED
  BY <1>1 DEF Plain, Released

\* What a step of the parser leaves without retransmission.
PlainKept == Plain(slot', net') /\ CompleteIsComplete'

LEMMA IgnorePlain ==
    ASSUME NEW s, NEW n, Plain(s, n), Ignore(s, n)
    PROVE  PlainKept
BY DEF Ignore, PlainKept, Silent, CompleteIsComplete

LEMMA SettlePlain ==
    ASSUME ~supported, NEW s \in [Slots -> SlotType], NEW n, Plain(s, n), NEW i \in Slots,
           NEW gaps, Settle(s, n, i, gaps)
    PROVE  PlainKept
<1>. DEFINE parsed == IF ~Complete(s[i]) THEN {}
                      ELSE IF mode = 0 \/ ~supported THEN {i}
                      ELSE IF mode = 1 THEN Older(s, i) ELSE {}
<1>1. slot' = Released(s, parsed) /\ out'.parsed = Handed(s, parsed, TRUE)
  BY DEF Settle
<1>2. net' = n
  <2>1. net' \in Requested(n, {})
    BY DEF Settle
  <2>. QED
    BY <2>1 DEF Requested
<1>3. parsed \in SUBSET Slots
  OBVIOUS
<1>. HIDE DEF parsed
<1>4. Plain(slot', net')
  BY <1>1, <1>2, ReleasedPlain
<1>5. CompleteIsComplete'
  BY <1>1, <1>3, HandedMissesNone DEF CompleteIsComplete
<1>. QED
  BY <1>4, <1>5 DEF PlainKept

LEMMA StorePlain ==
    ASSUME ~supported, slot \in [Slots -> SlotType], NEW n, Plain(slot, n), NEW i \in Slots,
           NEW r, SlotOK(r), r.nda = 0, NEW m, m \in DataMessage, m.pc < m.total,
           Store(m, n, i, r)
    PROVE  PlainKept
<1>1. ASSUME NEW q, SlotOK(q), q.nda = 0
      PROVE  /\ Plain([slot EXCEPT ![i] = q], n)
             /\ [slot EXCEPT ![i] = q] \in [Slots -> SlotType]
  BY <1>1 DEF Plain, SlotOK
<1>2. CASE m.total # r.total
  <2>1. SlotOK(Freed(r)) /\ Freed(r).nda = 0
    BY FreedOK DEF Freed, Empty
  <2>. QED
    BY <1>1, <1>2, <2>1, IgnorePlain DEF Store
<1>3. CASE m.total = r.total /\ r.sizes[m.pc] = "nda"
  BY <1>1, <1>3, IgnorePlain DEF Store
<1>4. CASE m.total = r.total /\ r.sizes[m.pc] # "nda"
  <2>. DEFINE got == IF r.sizes[m.pc] = "data" THEN r.got ELSE r.got + 1
              q == [r EXCEPT !.sizes[m.pc] = "data", !.got = got, !.data = @ \cup {m.pc}]
              s == [slot EXCEPT ![i] = q]
  <2>1. m.pc \in 0 .. r.total - 1
    BY <1>4, TotalRange DEF DataMessage, Places
  <2>2. SlotOK(q)
    BY <1>4, <2>1, StoredOK, Zenon
  <2>3. q.nda = 0
    BY DEF SlotOK, SlotType
  <2>4. Settle(s, n, i, GapRequests(s, i, m.pc))
    BY <1>4 DEF Store
  <2>. HIDE DEF q
  <2>5. Plain(s, n) /\ s \in [Slots -> SlotType]
    BY <1>1, <2>2, <2>3
  <2>. QED
    BY <2>4, <2>5, SettlePlain, Zenon
<1>. QED
  BY <1>2, <1>3, <1>4

LEMMA ReceivePlain ==
    ASSUME Invariant, ~supported, NEW m \in net, Plain(slot, net), Receive(m)
    PROVE  PlainKept
<1>1. /\ slot \in [Slots -> SlotType] /\ Plain(slot, net \ {m})
      /\ MessageOK(m, Begun) /\ m.kind = "data"
  BY DEF Invariant, IInv, TypeOK, NetOK, Plain
<1>2. m \in DataMessage /\ m.pc < m.total
  BY <1>1 DEF MessageOK, NdaMessage
<1>3. CASE KnownFrame(m, net \ {m})
  <2>1. PICK i \in Found(m.counter) : Store(m, net \ {m}, i, slot[i])
    BY <1>3 DEF KnownFrame
  <2>2. i \in Slots /\ SlotOK(slot[i]) /\ slot[i].nda = 0
    BY <2>1 DEF Found, Pending, Plain
  <2>. QED
    BY <1>1, <1>2, <2>1, <2>2, StorePlain
<1>4. CASE NewFrame(m, net \ {m})
  <2>1. PICK t \in 1 .. MaxTime : Store(m, net \ {m}, NewSlot, Fresh(NewSlot, m, t))
    BY <1>4 DEF NewFrame
  <2>2. NewSlot \in Slots /\ SlotOK(slot[NewSlot])
    BY <1>1, NewSlotIn DEF Plain
  <2>3. SlotOK(Fresh(NewSlot, m, t))
    BY <1>2, <2>2, FreshOK DEF DataMessage
  <2>4. Fresh(NewSlot, m, t).nda = 0
    BY DEF Fresh, Empty
  <2>. QED
    BY <1>1, <1>2, <2>1, <2>2, <2>3, <2>4, StorePlain
<1>5. CASE LateRetransmission(m, net \ {m})
  BY <1>1, <1>5, IgnorePlain DEF LateRetransmission
<1>. QED
  BY <1>1, <1>3, <1>4, <1>5 DEF Receive, NotAvailable

LEMMA NextPlain ==
    ASSUME Invariant, PlainInv, [Next]_vars
    PROVE  PlainInv'
<1>. SUFFICES ASSUME ~supported'
              PROVE  ~retransmissionSupport' /\ PlainKept
  BY DEF PlainInv, PlainKept
<1>1. supported' = supported
  <2>1. CASE UNCHANGED vars
    BY <2>1 DEF vars, conf
  <2>2. ASSUME NEW m \in net, Receive(m) \/ Respond(m)
        PROVE  supported' = supported
    BY <2>2 DEF Receive, Respond, conf
  <2>3. ASSUME NEW i \in Slots, GiveUp(i) \/ Retry(i) \/ RetryFails(i)
        PROVE  supported' = supported
    BY <2>3 DEF GiveUp, Retry, RetryFails, Retrying, conf
  <2>4. CASE Send
    BY <2>4 DEF Send, conf
  <2>. QED
    BY <2>1, <2>2, <2>3, <2>4 DEF Next
<1>2. ~supported /\ ~retransmissionSupport /\ Plain(slot, net) /\ CompleteIsComplete
  BY <1>1 DEF PlainInv
<1>3. ASSUME NEW m \in net, Receive(m)
      PROVE  ~retransmissionSupport' /\ PlainKept
  BY <1>2, <1>3, ReceivePlain DEF Receive
<1>4. ASSUME NEW m \in net, Respond(m)
      PROVE  FALSE
  BY <1>2, <1>4 DEF Respond, Plain
<1>5. ASSUME NEW i \in Slots, GiveUp(i)
      PROVE  ~retransmissionSupport' /\ PlainKept
  <2>. DEFINE I == Older(slot, i)
  <2>1. /\ slot' = Released(slot, I) /\ net' = net /\ out'.parsed = Handed(slot, I, FALSE)
        /\ retransmissionSupport' = retransmissionSupport
    BY <1>5 DEF GiveUp
  <2>2. slot \in [Slots -> SlotType]
    BY DEF Invariant, IInv, TypeOK
  <2>3. I \in SUBSET Slots
    BY DEF Older, Pending
  <2>. HIDE DEF I
  <2>4. CompleteIsComplete'
    BY <1>2, <2>1, <2>2, <2>3, HandedMissesNone DEF CompleteIsComplete
  <2>. QED
    BY <1>2, <2>1, <2>4, ReleasedPlain DEF PlainKept
<1>6. ASSUME NEW i \in Slots, Retry(i) \/ RetryFails(i)
      PROVE  FALSE
  BY <1>2, <1>6 DEF Retry, RetryFails, Retrying
<1>7. CASE Send
  <2>1. /\ slot' = slot /\ retransmissionSupport' = retransmissionSupport /\ out' = Silent
        /\ net' = net \/ net' = net \cup {Data(frames[sender.k], sender.p, FALSE)}
    BY <1>7 DEF Send
  <2>. QED
    BY <1>2, <2>1 DEF PlainKept, Plain, Data, CompleteIsComplete, Silent
<1>8. CASE UNCHANGED vars
  BY <1>2, <1>8 DEF vars, PlainKept, CompleteIsComplete
<1>. QED
  BY <1>3, <1>4, <1>5, <1>6, <1>7, <1>8 DEF Next

\* Without retransmission (flag 4 of the packets not set) a frame handed over as
\* complete has all its packets: the frames handed over as complete with packets
\* missing need a packet that is declared not available and arrives as well.
THEOREM CompleteCorrect == Spec => [](~supported => CompleteIsComplete)
<1>1. Init => PlainInv
  <2>1. ASSUME Init
        PROVE  /\ net = {} /\ retransmissionSupport = FALSE /\ out.parsed = <<>>
               /\ \A i \in Slots : slot[i] = Empty
    BY <2>1 DEF Init, Silent
  <2>. QED
    BY <2>1, EmptyOK DEF PlainInv, Plain, CompleteIsComplete, Empty
<1>2. Invariant /\ PlainInv /\ [Next]_vars => PlainInv'
  BY NextPlain
<1>3. PlainInv => (~supported => CompleteIsComplete)
  BY DEF PlainInv
<1>. QED
  BY <1>1, <1>2, <1>3, Invariance, PTL DEF Spec

=============================================================================
