------------------------- MODULE EthPacketPoolProofs -------------------------
(***************************************************************************)
(* Theorems about EthPacketPool for every queue length and frame length:   *)
(* the type invariant, that no put to one of the two queues ever finds it  *)
(* full while it is checked by an assert, that no packet has two owners,   *)
(* what a close frees, and that a missing packet is met only in a close.   *)
(*                                                                         *)
(* The argument counts packets.  Until the parser's cleanup puts NULLs     *)
(* into the fill queue, what the queues, the two hands and the arrays hold *)
(* together is at most what was allocated.  Afterwards only the udpRead    *)
(* thread can still put, and at most once.                                 *)
(*                                                                         *)
(* That a packet is in one place at most is counted for each packet by     *)
(* itself: every step moves it from one place to another, creates it, or   *)
(* loses it where the parser does when it closes.  In a roomy queue the    *)
(* cleanup loses none, which leaves the one packet the parser may have got *)
(* in the moment of closing.                                               *)
(***************************************************************************)
EXTENDS EthPacketPool, Functions, FiniteSetTheorems, SequenceTheorems, TLAPS

One(x) == IF x = Null THEN 0 ELSE 1
InRings == Len(fill) + Len(parse)
InHands == One(udpPacket) + One(packet)

\* Nobody has put a NULL yet.
Clean == cleanup = 0

\* What was allocated bounds what is around.
CountOK ==
    Clean => /\ InRings + InHands + Cardinality(Held) <= mallocCount
             /\ \A i \in 1 .. Len(fill) : fill[i] # Null

\* Who has a packet in hand, and when.
HandsOK ==
    /\ udpPc \in {"absent", "start", "get", "alloc"} => udpPacket = Null
    /\ udpPc = "put" => udpPacket # Null
    /\ Clean /\ udpPc = "recv" => udpPacket # Null
    /\ parPc \in {"got", "handle", "evict", "store", "overflow", "return"} => packet # Null
    /\ parPc \in {"absent", "top", "get", "complete", "cleanup"} => packet = Null

\* The threads are started once, and the cleanup comes last.
PhaseOK ==
    /\ mainPc \in {"prealloc", "startUdp", "startParse"} => parPc = "absent"
    /\ mainPc \in {"prealloc", "startUdp"} => udpPc = "absent"
    /\ parPc = "overflow" => 2 * framePacketsLen <= MaxFrameLen
    /\ parPc = "cleanup" => closing
    /\ ~Clean => closing /\ parPc \in {"cleanup", "done"}

\* Once there are NULLs, the udpRead thread puts at most one packet, and finds
\* room for it.
AllNull ==
    /\ \A i \in 1 .. Len(fill) : fill[i] = Null
    /\ \A k \in Slots : framePackets[k] = Null
    /\ mallocCount = QueueLen
LastPutOK ==
    ~Clean =>
        /\ udpPc = "put" => Len(parse) < QueueLen
        /\ udpPc = "recv" /\ udpPacket # Null => Len(parse) < QueueLen
        /\ udpPc \in {"get", "alloc"} => Len(parse) < QueueLen \/ AllNull

IInv == TypeOK /\ CountOK /\ HandsOK /\ PhaseOK /\ LastPutOK
-------------------------------------------------------------------------------
(* The arrays *)

\* What the arrays hold is a finite set of slots.
LEMMA HeldFinite == Held \subseteq Slots /\ IsFiniteSet(Held) /\ Cardinality(Held) \in Nat
<1>1. IsFiniteSet(Slots)
  BY FS_Interval, LengthAssumption DEF Slots
<1>2. Held \subseteq Slots
  BY DEF Held, Occupied
<1> QED BY <1>1, <1>2, FS_Subset, FS_CardinalityType

\* Every slot belongs to one of the three sets.
LEMMA HeldSlots == /\ Held = {k \in Slots : framePackets[k] # Null}
                   /\ Held' = {k \in Slots : framePackets'[k] # Null}
<1>1. \A k \in Slots : k \in Nat
  BY LengthAssumption DEF Slots
<1>2. \A k \in Nat : k % 3 \in 0 .. 2
  OBVIOUS
<1> QED BY <1>1, <1>2 DEF Held, Occupied, SetOf, FrameSets

\* Emptying a slot takes one packet out of the arrays.
LEMMA HeldTake ==
    ASSUME TypeOK, NEW k \in Held, framePackets' = [framePackets EXCEPT ![k] = Null]
    PROVE  /\ k \in Slots /\ framePackets[k] \in Packets
           /\ Cardinality(Held') = Cardinality(Held) - 1
<1>1. k \in Slots /\ framePackets[k] # Null
  BY HeldSlots
<1>2. Held' = {j \in Slots : framePackets'[j] # Null}
  BY HeldSlots
<1>3. Held' = Held \ {k}
  BY <1>1, <1>2, HeldSlots DEF TypeOK
<1> QED BY <1>1, <1>3, HeldFinite, FS_RemoveElement DEF TypeOK

\* Filling an empty slot adds one.
LEMMA HeldPut ==
    ASSUME TypeOK, NEW k \in Slots, framePackets[k] = Null, NEW x \in Packets,
           framePackets' = [framePackets EXCEPT ![k] = x]
    PROVE  Cardinality(Held') = Cardinality(Held) + 1
<1>0. x # Null
  BY NullAssumption, LengthAssumption DEF Packets
<1>1. Held' = {j \in Slots : framePackets'[j] # Null}
  BY HeldSlots
<1>2. Held' = Held \cup {k} /\ k \notin Held
  BY <1>0, <1>1, HeldSlots DEF TypeOK
<1> QED BY <1>2, HeldFinite, FS_AddElement

\* Replacing a packet keeps their number.
LEMMA HeldReplace ==
    ASSUME TypeOK, NEW k \in Slots, framePackets[k] # Null, NEW x \in Packets,
           framePackets' = [framePackets EXCEPT ![k] = x]
    PROVE  Held' = Held
<1>0. x # Null
  BY NullAssumption, LengthAssumption DEF Packets
<1>1. Held' = {j \in Slots : framePackets'[j] # Null}
  BY HeldSlots
<1> QED BY <1>0, <1>1, HeldSlots DEF TypeOK

\* Empty arrays hold nothing.
LEMMA HeldNone ==
    ASSUME framePackets' = [k \in Slots |-> Null]
    PROVE  Cardinality(Held') = 0
<1>1. Held' = {j \in Slots : framePackets'[j] # Null}
  BY HeldSlots
<1>2. Held' = {}
  BY <1>1
<1> QED BY <1>2, FS_EmptySet

-------------------------------------------------------------------------------
(* The queues *)

\* A packet is not NULL.
LEMMA PacketNotNull == \A n \in Packets : n # Null /\ n \in Nat
BY NullAssumption, LengthAssumption DEF Packets

\* What a put to the fill queue does to it.
LEMMA PutFillProperties ==
    ASSUME fill \in Seq(Packets \cup {Null}), NEW x \in Packets \cup {Null}, PutFill(x)
    PROVE  /\ fill' \in Seq(Packets \cup {Null})
           /\ Len(fill) < QueueLen /\ Len(fill') = Len(fill) + 1
           /\ \A i \in 1 .. Len(fill) : fill'[i] = fill[i]
           /\ fill'[Len(fill) + 1] = x
BY AppendProperties DEF PutFill

\* What a get does to a queue.
LEMMA TailProperties ==
    ASSUME NEW S, NEW q \in Seq(S), q # <<>>
    PROVE  /\ Head(q) \in S /\ Head(q) = q[1]
           /\ Tail(q) \in Seq(S) /\ Len(q) >= 1 /\ Len(Tail(q)) = Len(q) - 1
           /\ \A i \in 1 .. Len(Tail(q)) : Tail(q)[i] = q[i + 1]
BY HeadTailProperties, EmptySeq, LenProperties
\* Steps that touch neither the arrays nor the cleanup nor the fill queue.
LEMMA HeldStays == UNCHANGED framePackets => Held' = Held
BY HeldSlots

-------------------------------------------------------------------------------
(* The initial state *)

LEMMA InitInvariant == Init => IInv
<1> SUFFICES ASSUME Init PROVE IInv
  OBVIOUS
<1>1. TypeOK
  <2>1. closing \in BOOLEAN /\ arrays \in BOOLEAN
    BY Zenon DEF Init
  <2>2. /\ mainPc \in MainLabels /\ udpPc \in UdpLabels /\ parPc \in ParLabels
        /\ mallocCount \in 0 .. QueueLen /\ frameSet \in FrameSets
        /\ cleanup \in 0 .. 3 * MaxFrameLen /\ framePacketsLen \in FrameLen .. MaxFrameLen
    BY LengthAssumption DEF Init, MainLabels, UdpLabels, ParLabels, FrameSets
  <2>3. /\ fill \in Seq(Packets \cup {Null}) /\ parse \in Seq(Packets) /\ freed \in Seq(Packets)
        /\ framePackets \in [Slots -> Packets \cup {Null}]
        /\ udpPacket \in Packets \cup {Null} /\ packet \in Packets \cup {Null}
    BY EmptySeq DEF Init
  <2> QED BY <2>1, <2>2, <2>3 DEF TypeOK
<1>2. Cardinality(Held) = 0
  <2>1. Held = {}
    BY HeldSlots DEF Init
  <2> QED BY <2>1, FS_EmptySet
<1>3. CountOK
  BY <1>2 DEF Init, CountOK, InRings, InHands, One
<1>4. HandsOK /\ PhaseOK /\ LastPutOK
  BY DEF Init, HandsOK, PhaseOK, LastPutOK, Clean
<1> QED BY <1>1, <1>3, <1>4 DEF IInv

-------------------------------------------------------------------------------
(* The steps of BTAETHopen and BTAETHclose *)

\* Opening and closing keep the types.
LEMMA OpenCloseType ==
    ASSUME IInv, OpenClose
    PROVE  TypeOK'
<1> USE DEF udpVars, parVars, heldVars, queueVars, mainVars
<1>1. CASE PreallocPacket
  <2>1. mallocCount' = mallocCount + 1 /\ mallocCount' \in Packets
    BY <1>1, LengthAssumption DEF IInv, TypeOK, PreallocPacket, Allocate, Packets
  <2>2. fill' \in Seq(Packets \cup {Null})
    BY <1>1, <2>1, PutFillProperties DEF IInv, TypeOK, PreallocPacket
  <2> QED BY <1>1, <2>1, <2>2, LengthAssumption DEF IInv, TypeOK, PreallocPacket, Packets
<1>2. CASE PreallocEnd
  BY <1>2 DEF IInv, TypeOK, PreallocEnd, MainLabels
<1>3. CASE StartUdp
  <2>1. closing' \in BOOLEAN
    BY <1>3, Zenon DEF IInv, TypeOK, StartUdp
  <2>2. mainPc' \in MainLabels /\ udpPc' \in UdpLabels
    BY <1>3 DEF IInv, TypeOK, StartUdp, MainLabels, UdpLabels
  <2> QED BY <1>3, <2>1, <2>2 DEF IInv, TypeOK, StartUdp
<1>4. CASE StartParse
  <2>1. closing' \in BOOLEAN
    BY <1>4, Zenon DEF IInv, TypeOK, StartParse
  <2>2. mainPc' \in MainLabels /\ parPc' \in ParLabels
    BY <1>4 DEF IInv, TypeOK, StartParse, MainLabels, ParLabels
  <2> QED BY <1>4, <2>1, <2>2 DEF IInv, TypeOK, StartParse
<1>5. CASE CloseCall
  <2>1. closing' \in BOOLEAN
    BY <1>5, Zenon DEF CloseCall
  <2> QED BY <1>5, <2>1 DEF IInv, TypeOK, CloseCall, MainLabels
<1>6. CASE JoinUdp \/ JoinParse
  BY <1>6 DEF IInv, TypeOK, JoinUdp, JoinParse, MainLabels
<1>7. CASE FreeParse
  <2>1. parse' \in Seq(Packets) /\ freed' \in Seq(Packets)
    <3>1. CASE parse # <<>> /\ FreeHead(parse) /\ parse' = Tail(parse)
      <4>1. Head(parse) \in Packets /\ parse' \in Seq(Packets)
        BY <3>1, TailProperties DEF IInv, TypeOK
      <4> QED BY <3>1, <4>1, AppendProperties DEF FreeHead, IInv, TypeOK
    <3> QED BY <1>7, <3>1 DEF FreeParse, IInv, TypeOK
  <2> QED BY <1>7, <2>1 DEF IInv, TypeOK, FreeParse, MainLabels
<1>8. CASE FreeFill
  <2>1. fill' \in Seq(Packets \cup {Null}) /\ freed' \in Seq(Packets)
    <3>1. CASE fill # <<>> /\ FreeHead(fill) /\ fill' = Tail(fill)
      <4>1. Head(fill) \in Packets \cup {Null} /\ fill' \in Seq(Packets \cup {Null})
        BY <3>1, TailProperties DEF IInv, TypeOK
      <4> QED BY <3>1, <4>1, AppendProperties DEF FreeHead, IInv, TypeOK
    <3> QED BY <1>8, <3>1 DEF FreeFill, IInv, TypeOK
  <2> QED BY <1>8, <2>1 DEF IInv, TypeOK, FreeFill, MainLabels
<1> QED BY <1>1, <1>2, <1>3, <1>4, <1>5, <1>6, <1>7, <1>8 DEF OpenClose

\* Opening allocates before it puts; closing only takes out.
LEMMA OpenCloseCount ==
    ASSUME IInv, OpenClose
    PROVE  CountOK' /\ LastPutOK'
<1> USE DEF udpVars, parVars, heldVars, queueVars, mainVars
<1>0. Held' = Held /\ Cardinality(Held) \in Nat
  BY HeldStays, HeldFinite DEF OpenClose, PreallocPacket, PreallocEnd, StartUdp, StartParse,
     CloseCall, JoinUdp, JoinParse, FreeParse, FreeFill
<1>a. /\ fill \in Seq(Packets \cup {Null}) /\ parse \in Seq(Packets)
      /\ Len(fill) \in Nat /\ Len(parse) \in Nat /\ mallocCount \in Nat
  BY LenProperties DEF IInv, TypeOK
<1>1. CASE PreallocPacket
  <2>1. mallocCount' = mallocCount + 1 /\ mallocCount' \in Packets /\ PutFill(mallocCount + 1)
    BY <1>1, LengthAssumption DEF IInv, TypeOK, PreallocPacket, Allocate, Packets
  <2>2. /\ Len(fill') = Len(fill) + 1
        /\ \A i \in 1 .. Len(fill) : fill'[i] = fill[i]
        /\ fill'[Len(fill) + 1] # Null
    BY <1>a, <2>1, PutFillProperties, PacketNotNull
  <2>3. Clean
    BY <1>1 DEF IInv, PhaseOK, PreallocPacket
  <2>4. /\ InRings' = InRings + 1 /\ InHands' = InHands
        /\ InRings \in Nat /\ InHands \in Nat
    BY <1>1, <1>a, <2>2 DEF InRings, InHands, One, PreallocPacket
  <2>5. \A i \in 1 .. Len(fill') : fill'[i] # Null
    BY <1>a, <2>2, <2>3 DEF IInv, CountOK
  <2>6. Clean'
    BY <1>1, <2>3 DEF Clean, PreallocPacket
  <2> QED BY <1>0, <1>a, <2>1, <2>3, <2>4, <2>5, <2>6 DEF CountOK, LastPutOK, IInv
<1>2. CASE PreallocEnd \/ StartUdp \/ StartParse \/ CloseCall \/ JoinUdp \/ JoinParse
  <2>1. UNCHANGED <<mallocCount, fill, parse, udpPacket, packet, cleanup, framePackets>>
    BY <1>2 DEF PreallocEnd, StartUdp, StartParse, CloseCall, JoinUdp, JoinParse
  <2>2. udpPc' = udpPc \/ Clean'
    BY <1>2, <2>1 DEF PreallocEnd, StartUdp, StartParse, CloseCall, JoinUdp, JoinParse,
       IInv, PhaseOK, Clean
  <2> QED BY <1>0, <2>1, <2>2 DEF IInv, CountOK, LastPutOK, AllNull, Clean, InRings, InHands, One
<1>3. CASE FreeParse
  <2>1. /\ UNCHANGED <<mallocCount, fill, udpPc, udpPacket, packet, cleanup, framePackets>>
        /\ Len(parse') \in Nat /\ Len(parse') <= Len(parse)
    BY <1>3, <1>a, TailProperties DEF FreeParse
  <2> QED BY <1>0, <1>a, <2>1, LengthAssumption
          DEF IInv, TypeOK, CountOK, LastPutOK, AllNull, Clean, InRings, InHands, One
<1>4. CASE FreeFill
  <2>1. /\ UNCHANGED <<mallocCount, parse, udpPc, udpPacket, packet, cleanup, framePackets>>
        /\ Len(fill') \in Nat /\ Len(fill') <= Len(fill)
        /\ \A i \in 1 .. Len(fill') : \E j \in 1 .. Len(fill) : fill'[i] = fill[j]
    <3>1. CASE fill # <<>> /\ fill' = Tail(fill)
      <4>1. /\ Len(fill') = Len(fill) - 1
            /\ \A i \in 1 .. Len(fill') : fill'[i] = fill[i + 1]
        BY <1>a, <3>1, TailProperties
      <4>2. \A i \in 1 .. Len(fill') : i + 1 \in 1 .. Len(fill)
        BY <1>a, <4>1
      <4>3. UNCHANGED <<mallocCount, parse, udpPc, udpPacket, packet, cleanup, framePackets>>
        BY <1>4 DEF FreeFill
      <4>4. \A i \in 1 .. Len(fill') : \E j \in 1 .. Len(fill) : fill'[i] = fill[j]
        BY <4>1, <4>2
      <4>5. Len(fill') \in Nat /\ Len(fill') <= Len(fill)
        BY <1>a, <3>1, <4>1, TailProperties
      <4> QED BY <4>3, <4>4, <4>5
    <3>2. CASE UNCHANGED fill
      <4>1. \A i \in 1 .. Len(fill') : \E j \in 1 .. Len(fill) : fill'[i] = fill[j]
        BY <3>2, Zenon
      <4> QED BY <1>4, <1>a, <3>2, <4>1 DEF FreeFill
    <3> QED BY <1>4, <3>1, <3>2 DEF FreeFill
  <2>2. Clean' <=> Clean
    BY <2>1 DEF Clean
  <2>3. ASSUME Clean PROVE CountOK'
    <3>1. \A i \in 1 .. Len(fill') : fill'[i] # Null
      BY <2>1, <2>3 DEF IInv, CountOK
    <3>2. InRings' <= InRings /\ InRings \in Nat /\ InRings' \in Nat
      BY <1>a, <2>1 DEF InRings
    <3>3. InHands' = InHands /\ InHands \in Nat
      BY <2>1 DEF InHands, One
    <3> QED BY <1>0, <1>a, <2>1, <2>3, <3>1, <3>2, <3>3 DEF IInv, CountOK
  <2>4. AllNull => AllNull'
    BY <2>1 DEF AllNull
  <2> QED BY <2>1, <2>2, <2>3, <2>4 DEF IInv, CountOK, LastPutOK
<1> QED BY <1>1, <1>2, <1>3, <1>4 DEF OpenClose

\* Opening and closing follow their phases and leave the packets in hand.
LEMMA OpenCloseHands ==
    ASSUME IInv, OpenClose
    PROVE  HandsOK' /\ PhaseOK'
<1> USE DEF udpVars, parVars, heldVars, queueVars, mainVars
<1>1. closing => closing'
  BY Zenon DEF OpenClose, PreallocPacket, PreallocEnd, StartUdp, StartParse,
     CloseCall, JoinUdp, JoinParse, FreeParse, FreeFill
<1>2. UNCHANGED <<udpPacket, packet, cleanup, framePacketsLen>>
  BY DEF OpenClose, PreallocPacket, PreallocEnd, StartUdp, StartParse,
     CloseCall, JoinUdp, JoinParse, FreeParse, FreeFill
<1>3. \/ UNCHANGED <<udpPc, parPc>> /\ (mainPc' = mainPc \/ mainPc' \notin {"prealloc", "startParse"})
      \/ UNCHANGED parPc /\ mainPc = "startUdp" /\ mainPc' = "startParse" /\ udpPc' = "start"
      \/ UNCHANGED udpPc /\ mainPc = "startParse" /\ mainPc' = "running" /\ parPc' = "top"
  BY DEF OpenClose, PreallocPacket, PreallocEnd, StartUdp, StartParse,
     CloseCall, JoinUdp, JoinParse, FreeParse, FreeFill
<1>4. mainPc' = "startUdp" => mainPc \in {"prealloc", "startUdp"}
  BY DEF OpenClose, PreallocPacket, PreallocEnd, StartUdp, StartParse,
     CloseCall, JoinUdp, JoinParse, FreeParse, FreeFill
<1> QED BY <1>1, <1>2, <1>3, <1>4 DEF IInv, HandsOK, PhaseOK, Clean
-------------------------------------------------------------------------------
(* The steps of the udpRead thread *)

\* The udpRead thread moves a packet at a time, or allocates one for its hand.
LEMMA UdpReadStep ==
    ASSUME IInv, UdpRead
    PROVE  IInv'
<1> USE DEF UdpGoto, mainVars, queueVars, udpVars, heldVars, parVars
<1>0. /\ Held' = Held /\ Cardinality(Held) \in Nat
      /\ UNCHANGED <<mainPc, closing, packet, parPc, heldVars>>
  BY HeldStays, HeldFinite
  DEF UdpRead, UdpStart, UdpLoop, UdpExit, UdpGet, UdpAlloc, UdpRecv, UdpPut
<1>a. /\ fill \in Seq(Packets \cup {Null}) /\ parse \in Seq(Packets) /\ freed \in Seq(Packets)
      /\ Len(fill) \in Nat /\ Len(parse) \in Nat /\ mallocCount \in Nat
      /\ One(packet) \in Nat /\ One(packet') = One(packet) /\ One(udpPacket) \in Nat
  BY <1>0, LenProperties DEF IInv, TypeOK, One
<1>b. Clean' <=> Clean
  BY <1>0 DEF Clean
<1>c. PhaseOK'
  <2>1. udpPc # "absent"
    BY DEF UdpRead, UdpStart, UdpLoop, UdpExit, UdpGet, UdpAlloc, UdpRecv, UdpPut
  <2> QED BY <1>0, <1>b, <2>1 DEF IInv, PhaseOK
\* Steps that move no packet.
<1>1. CASE UdpStart \/ UdpLoop \/ UdpRecv
  <2>1. /\ UNCHANGED <<mallocCount, fill, parse, udpPacket, freed>>
        /\ udpPc' \in {"top", "done", "get", "recv", "put", "crashed"}
    BY <1>1 DEF UdpStart, UdpLoop, UdpRecv
  <2>2. TypeOK'
    BY <1>0, <2>1 DEF IInv, TypeOK, UdpLabels
  <2>3. CountOK'
    BY <1>0, <1>b, <2>1 DEF IInv, CountOK, InRings, InHands, One
  <2>4. HandsOK'
    BY <1>0, <1>1, <1>b, <2>1 DEF IInv, HandsOK, UdpStart, UdpLoop, UdpRecv
  <2>5. ~Clean => UdpRecv \/ udpPc' \in {"top", "done"}
    BY <1>1 DEF UdpStart, UdpLoop, IInv, PhaseOK
  <2>6. LastPutOK'
    BY <1>b, <2>1, <2>5 DEF IInv, LastPutOK, UdpRecv
  <2> QED BY <1>c, <2>2, <2>3, <2>4, <2>6 DEF IInv
<1>2. CASE UdpExit
  <2>1. freed' \in Seq(Packets)
    BY <1>2, <1>a, AppendProperties DEF UdpExit, IInv, TypeOK
  <2>2. TypeOK'
    BY <1>0, <1>2, <2>1 DEF IInv, TypeOK, UdpExit, UdpLabels
  <2>3. CountOK'
    BY <1>0, <1>2, <1>a, <1>b DEF IInv, CountOK, InRings, InHands, One, UdpExit
  <2>4. HandsOK' /\ LastPutOK'
    BY <1>0, <1>2, <1>b DEF IInv, HandsOK, LastPutOK, UdpExit
  <2> QED BY <1>c, <2>2, <2>3, <2>4 DEF IInv
<1>3. CASE UdpGet
  <2>1. CASE fill = <<>>
    <3>1. udpPc = "get" /\ udpPc' = "alloc" /\ UNCHANGED <<mallocCount, fill, parse, udpPacket, freed>>
      BY <1>3, <2>1 DEF UdpGet
    <3>2. TypeOK' /\ HandsOK'
      BY <1>0, <1>b, <3>1 DEF IInv, TypeOK, HandsOK, UdpLabels
    <3>3. CountOK'
      BY <1>0, <1>b, <3>1 DEF IInv, CountOK, InRings, InHands, One
    <3>4. LastPutOK'
      BY <1>0, <1>b, <3>1 DEF IInv, LastPutOK, AllNull, heldVars
    <3> QED BY <1>c, <3>2, <3>3, <3>4 DEF IInv
  <2>2. CASE fill # <<>>
    <3>1. /\ udpPc = "get" /\ udpPc' = "recv" /\ udpPacket' = Head(fill) /\ fill' = Tail(fill)
          /\ UNCHANGED <<mallocCount, parse, freed>>
      BY <1>3, <2>2 DEF UdpGet
    <3>2. /\ Head(fill) \in Packets \cup {Null} /\ Head(fill) = fill[1]
          /\ fill' \in Seq(Packets \cup {Null}) /\ Len(fill) >= 1 /\ Len(fill') = Len(fill) - 1
          /\ \A i \in 1 .. Len(fill') : fill'[i] = fill[i + 1]
      BY <1>a, <2>2, <3>1, TailProperties
    <3>3. TypeOK'
      BY <1>0, <3>1, <3>2 DEF IInv, TypeOK, UdpLabels
    <3>4. ASSUME Clean PROVE CountOK' /\ udpPacket' # Null
      <4>1. Head(fill) # Null
        BY <1>a, <3>2, <3>4 DEF IInv, CountOK
      <4>2. \A i \in 1 .. Len(fill') : fill'[i] # Null
        <5>1. \A j \in 1 .. Len(fill) : fill[j] # Null
          BY <3>4 DEF IInv, CountOK
        <5>2. \A i \in 1 .. Len(fill') : i + 1 \in 1 .. Len(fill)
          BY <1>a, <3>2
        <5> QED BY <3>2, <5>1, <5>2
      <4>3. One(udpPacket') = 1 /\ One(udpPacket) = 0
        BY <3>1, <4>1 DEF One, IInv, HandsOK
      <4>4. InRings' = InRings - 1 /\ InHands' = InHands + 1 /\ InRings \in Nat /\ InHands \in Nat
        BY <1>0, <1>a, <3>1, <3>2, <4>3 DEF InRings, InHands
      <4>5. CountOK'
        BY <1>0, <1>a, <3>1, <3>4, <4>2, <4>4 DEF IInv, CountOK
      <4> QED BY <3>1, <4>1, <4>5
    <3>5. CountOK' /\ HandsOK'
      BY <1>0, <1>b, <3>1, <3>4 DEF IInv, HandsOK, CountOK
    <3>6. LastPutOK'
      <4>1. AllNull => Head(fill) = Null
        BY <1>a, <3>2 DEF AllNull
      <4> QED BY <1>b, <3>1, <4>1 DEF IInv, LastPutOK
    <3> QED BY <1>c, <3>3, <3>5, <3>6 DEF IInv
  <2> QED BY <2>1, <2>2
<1>4. CASE UdpAlloc
  <2>1. CASE udpPc' = "top" /\ UNCHANGED <<mallocCount, udpPacket>>
    <3>1. UNCHANGED <<fill, parse, freed>>
      BY <1>4 DEF UdpAlloc
    <3>2. TypeOK' /\ HandsOK' /\ LastPutOK'
      BY <1>0, <1>b, <2>1, <3>1 DEF IInv, TypeOK, HandsOK, LastPutOK, UdpLabels
    <3>3. CountOK'
      BY <1>0, <1>b, <2>1, <3>1 DEF IInv, CountOK, InRings, InHands, One
    <3> QED BY <1>c, <3>2, <3>3 DEF IInv
  <2>2. CASE udpPc' = "recv" /\ Allocate /\ udpPacket' = mallocCount + 1
    <3>1. /\ UNCHANGED <<fill, parse, freed>> /\ udpPc = "alloc"
          /\ mallocCount < QueueLen /\ mallocCount' = mallocCount + 1
      BY <1>4, <2>2 DEF UdpAlloc, Allocate
    <3>2. mallocCount' \in 0 .. QueueLen /\ udpPacket' \in Packets /\ udpPacket' # Null
      BY <1>a, <2>2, <3>1, LengthAssumption, NullAssumption DEF Packets
    <3>3. TypeOK' /\ HandsOK'
      BY <1>0, <1>b, <2>2, <3>1, <3>2 DEF IInv, TypeOK, HandsOK, UdpLabels
    <3>4. CountOK'
      <4>1. InRings' = InRings /\ InHands' = InHands + 1 /\ InRings \in Nat /\ InHands \in Nat
        BY <1>0, <1>a, <3>1, <3>2 DEF InRings, InHands, One, IInv, HandsOK
      <4> QED BY <1>0, <1>a, <1>b, <3>1, <4>1 DEF IInv, CountOK
    <3>5. LastPutOK'
      <4>1. ~AllNull
        BY <1>a, <3>1, LengthAssumption DEF AllNull
      <4> QED BY <1>b, <2>2, <3>1, <4>1 DEF IInv, LastPutOK
    <3> QED BY <1>c, <3>3, <3>4, <3>5 DEF IInv
  <2> QED BY <1>4, <2>1, <2>2 DEF UdpAlloc
<1>5. CASE UdpPut
  <2>1. /\ udpPc = "put" /\ udpPc' = "top" /\ udpPacket \in Packets /\ udpPacket' = Null
        /\ parse' = Append(parse, udpPacket) /\ UNCHANGED <<mallocCount, fill, freed>>
    BY <1>5 DEF UdpPut, PutParse, IInv, TypeOK, HandsOK
  <2>2. parse' \in Seq(Packets) /\ Len(parse') = Len(parse) + 1
    BY <1>a, <2>1, AppendProperties
  <2>3. TypeOK' /\ HandsOK' /\ LastPutOK'
    BY <1>0, <1>b, <2>1, <2>2 DEF IInv, TypeOK, HandsOK, LastPutOK, UdpLabels
  <2>4. CountOK'
    <3>1. One(udpPacket) = 1 /\ One(udpPacket') = 0
      BY <2>1, PacketNotNull DEF One
    <3>2. InRings' = InRings + 1 /\ InRings \in Nat
      BY <1>a, <2>1, <2>2 DEF InRings
    <3>3. InHands' = InHands - 1 /\ InHands \in Nat
      BY <1>a, <3>1 DEF InHands
    <3> QED BY <1>0, <1>a, <1>b, <2>1, <3>2, <3>3 DEF IInv, CountOK
  <2> QED BY <1>c, <2>3, <2>4 DEF IInv
<1> QED BY <1>1, <1>2, <1>3, <1>4, <1>5 DEF UdpRead
-------------------------------------------------------------------------------
(* The steps of the parseFrames thread *)

\* A put of a packet keeps the fill queue free of NULLs.
LEMMA PutKeepsClean ==
    ASSUME fill \in Seq(Packets \cup {Null}), NEW x \in Packets, PutFill(x),
           \A i \in 1 .. Len(fill) : fill[i] # Null
    PROVE  /\ fill' \in Seq(Packets \cup {Null}) /\ Len(fill') = Len(fill) + 1
           /\ Len(fill) < QueueLen
           /\ \A i \in 1 .. Len(fill') : fill'[i] # Null
<1>1. /\ fill' \in Seq(Packets \cup {Null}) /\ Len(fill') = Len(fill) + 1
      /\ Len(fill) \in Nat /\ Len(fill) < QueueLen
      /\ \A i \in 1 .. Len(fill) : fill'[i] = fill[i]
      /\ fill'[Len(fill) + 1] = x /\ x # Null
  BY PutFillProperties, PacketNotNull, LenProperties
<1> QED BY <1>1

\* One packet goes from the arrays back to be filled.
LEMMA PutBackStep ==
    ASSUME IInv, Clean, NEW sets, PutBackFirst(sets),
           UNCHANGED <<mallocCount, parse, udpPacket, packet, cleanup>>
    PROVE  /\ CountOK' /\ fill' \in Seq(Packets \cup {Null})
           /\ framePackets' \in [Slots -> Packets \cup {Null}]
<1>1. PICK k \in Occupied(sets) :
        PutFill(framePackets[k]) /\ framePackets' = [framePackets EXCEPT ![k] = Null]
  BY DEF PutBackFirst
<1>2. k \in Slots /\ framePackets[k] # Null
  BY DEF Occupied
<1>3. k \in Held
  BY <1>2, HeldSlots
<1>4. framePackets[k] \in Packets /\ Cardinality(Held') = Cardinality(Held) - 1
  BY <1>1, <1>3, HeldTake DEF IInv
<1>5. /\ fill' \in Seq(Packets \cup {Null}) /\ Len(fill') = Len(fill) + 1
      /\ \A i \in 1 .. Len(fill') : fill'[i] # Null
  BY <1>1, <1>4, PutKeepsClean DEF IInv, TypeOK, CountOK
<1>6. InRings' = InRings + 1 /\ InRings \in Nat /\ InHands' = InHands /\ InHands \in Nat
  BY <1>5, LenProperties DEF InRings, InHands, One, IInv, TypeOK
<1>7. CountOK'
  BY <1>4, <1>5, <1>6, HeldFinite DEF IInv, CountOK, TypeOK
<1> QED BY <1>1, <1>5, <1>7 DEF IInv, TypeOK

\* While the parser reassembles, nobody has put a NULL.
LEMMA ReassemblyClean ==
    ASSUME IInv, parPc \notin {"cleanup", "done"}
    PROVE  Clean
BY DEF IInv, PhaseOK

\* What the steps before the cleanup have in common.
LEMMA BeforeCleanup ==
    ASSUME IInv, parPc \notin {"cleanup", "done", "absent"},
           UNCHANGED <<mainPc, closing, mallocCount, udpPc, udpPacket, cleanup, freed>>
    PROVE  /\ LastPutOK'
           /\ Clean /\ Clean'
           /\ mainPc \notin {"prealloc", "startUdp", "startParse"}
BY DEF IInv, PhaseOK, LastPutOK, Clean

\* Taking a packet, deciding about it and looking at the loop condition.
LEMMA ParserTakes ==
    ASSUME IInv, ParLoop \/ ParGet \/ ParGot \/ ParHandle \/ ParExit
    PROVE  IInv'
<1> USE DEF ParGoto, mainVars, queueVars, udpVars, heldVars
<1>0. /\ UNCHANGED <<mainPc, closing, mallocCount, udpPc, udpPacket, cleanup, freed>>
      /\ UNCHANGED <<fill, framePackets, framePacketsLen>>
      /\ parPc \in {"top", "get", "got", "handle"}
  BY DEF ParLoop, ParGet, ParGot, ParHandle, ParExit
<1>1. LastPutOK' /\ Clean /\ Clean' /\ mainPc \notin {"prealloc", "startUdp", "startParse"}
  BY <1>0, BeforeCleanup
<1>2. Held' = Held /\ Cardinality(Held) \in Nat
  BY <1>0, HeldStays, HeldFinite
<1>a. /\ parse \in Seq(Packets) /\ Len(fill) \in Nat /\ Len(parse) \in Nat
      /\ One(udpPacket) \in Nat /\ One(udpPacket') = One(udpPacket)
  BY <1>0, LenProperties DEF IInv, TypeOK, One
<1>3. CASE UNCHANGED <<parse, packet>> /\ ~ParGet
  <2>1. arrays' \in BOOLEAN
    BY <1>3, Zenon DEF ParLoop, ParGet, ParGot, ParHandle, ParExit, IInv, TypeOK
  <2>2. parPc' \in ParLabels /\ frameSet' \in FrameSets
    BY <1>3 DEF ParLoop, ParGet, ParGot, ParHandle, ParExit, IInv, TypeOK, ParLabels
  <2>3. TypeOK'
    BY <1>0, <1>3, <2>1, <2>2 DEF IInv, TypeOK
  <2>4. CountOK'
    BY <1>0, <1>1, <1>2, <1>3 DEF IInv, CountOK, InRings, InHands, One
  <2>5. HandsOK' /\ PhaseOK'
    BY <1>0, <1>1, <1>3 DEF IInv, HandsOK, PhaseOK, ParLoop, ParGot, ParHandle, ParExit
  <2> QED BY <1>1, <2>3, <2>4, <2>5 DEF IInv
<1>4. CASE ParGet
  <2>1. CASE parPc' = "top" /\ UNCHANGED <<packet, parse>>
    <3>1. TypeOK' /\ HandsOK' /\ PhaseOK'
      BY <1>0, <1>1, <1>4, <2>1 DEF IInv, TypeOK, HandsOK, PhaseOK, ParGet, ParLabels
    <3>2. CountOK'
      BY <1>0, <1>1, <1>2, <2>1 DEF IInv, CountOK, InRings, InHands, One
    <3> QED BY <1>1, <3>1, <3>2 DEF IInv
  <2>2. CASE /\ parse # <<>> /\ parPc' = "got"
             /\ packet' = Head(parse) /\ parse' = Tail(parse)
    <3>1. packet' \in Packets /\ parse' \in Seq(Packets) /\ Len(parse') = Len(parse) - 1
      BY <1>a, <2>2, TailProperties
    <3>2. packet = Null /\ packet' # Null
      BY <1>4, <3>1, PacketNotNull DEF ParGet, IInv, HandsOK
    <3>3. TypeOK' /\ HandsOK' /\ PhaseOK'
      BY <1>0, <1>1, <1>4, <2>2, <3>1, <3>2
      DEF IInv, TypeOK, HandsOK, PhaseOK, ParGet, ParLabels
    <3>4. InRings' = InRings - 1 /\ InRings \in Nat
      BY <1>0, <1>a, <3>1 DEF InRings
    <3>5. InHands' = InHands + 1 /\ InHands \in Nat
      BY <1>a, <3>2 DEF InHands, One
    <3>6. CountOK'
      BY <1>0, <1>1, <1>2, <3>4, <3>5 DEF IInv, CountOK
    <3> QED BY <1>1, <3>3, <3>6 DEF IInv
  <2> QED BY <1>4, <2>1, <2>2 DEF ParGet
\* The packet is lost.
<1>5. CASE ParGot /\ packet' = Null
  <2>1. TypeOK'
    BY <1>0, <1>5 DEF IInv, TypeOK, ParGot, ParLabels
  <2>2. HandsOK' /\ PhaseOK'
    BY <1>0, <1>1, <1>5 DEF IInv, HandsOK, PhaseOK, ParGot
  <2>3. InRings' = InRings /\ InRings \in Nat
    BY <1>0, <1>5, <1>a DEF InRings, ParGot
  <2>4. InHands' <= InHands /\ InHands \in Nat /\ InHands' \in Nat
    BY <1>5, <1>a DEF InHands, One
  <2>5. CountOK'
    BY <1>0, <1>1, <1>2, <2>3, <2>4 DEF IInv, CountOK, TypeOK
  <2> QED BY <1>1, <2>1, <2>2, <2>5 DEF IInv
<1> QED BY <1>3, <1>4, <1>5 DEF ParLoop, ParGot, ParHandle, ParExit
\* Sending the held packets of a set back, and the end of that loop.
LEMMA ParserPutsBack ==
    ASSUME IInv, ParEvict \/ ParOverflow \/ ParComplete
    PROVE  IInv'
<1> USE DEF ParGoto, mainVars, queueVars, udpVars, heldVars
<1>0. /\ UNCHANGED <<mainPc, closing, mallocCount, udpPc, udpPacket, cleanup, freed>>
      /\ UNCHANGED <<parse, packet, frameSet>>
      /\ parPc \in {"evict", "store", "overflow", "complete"}
  BY DEF ParEvict, ParOverflow, ParComplete
<1>1. LastPutOK' /\ Clean /\ Clean' /\ mainPc \notin {"prealloc", "startUdp", "startParse"}
  BY <1>0, BeforeCleanup
<1>2. HandsOK' /\ PhaseOK'
  BY <1>0, <1>1 DEF IInv, HandsOK, PhaseOK, ParEvict, ParOverflow, ParComplete
<1>3. /\ parPc' \in ParLabels /\ arrays' \in BOOLEAN
      /\ framePacketsLen' \in FrameLen .. MaxFrameLen
  <2>1. arrays' \in BOOLEAN
    BY Zenon DEF ParEvict, ParOverflow, ParComplete, IInv, TypeOK
  <2>2. parPc' \in ParLabels
    BY DEF ParEvict, ParOverflow, ParComplete, IInv, TypeOK, ParLabels
  <2>3. framePacketsLen' \in FrameLen .. MaxFrameLen
    BY LengthAssumption DEF ParEvict, ParOverflow, ParComplete, IInv, TypeOK, PhaseOK
  <2> QED BY <2>1, <2>2, <2>3
<1>4. CASE UNCHANGED <<fill, framePackets>>
  <2>1. TypeOK'
    BY <1>0, <1>3, <1>4 DEF IInv, TypeOK
  <2>2. CountOK'
    BY <1>0, <1>1, <1>4, HeldStays DEF IInv, CountOK, InRings, InHands, One
  <2> QED BY <1>1, <1>2, <2>1, <2>2 DEF IInv
<1>5. ASSUME NEW sets, PutBackFirst(sets) PROVE IInv'
  <2>1. /\ CountOK' /\ fill' \in Seq(Packets \cup {Null})
        /\ framePackets' \in [Slots -> Packets \cup {Null}]
    BY <1>0, <1>1, <1>5, PutBackStep
  <2>2. TypeOK'
    BY <1>0, <1>3, <2>1 DEF IInv, TypeOK
  <2> QED BY <1>1, <1>2, <2>1, <2>2 DEF IInv
<1> QED BY <1>4, <1>5 DEF ParEvict, ParOverflow, ParComplete

\* Keeping a packet, and sending the current one back.
LEMMA ParserStores ==
    ASSUME IInv, ParKeep \/ ParReturn
    PROVE  IInv'
<1> USE DEF ParGoto, mainVars, queueVars, udpVars, heldVars
<1>0. /\ UNCHANGED <<mainPc, closing, mallocCount, udpPc, udpPacket, cleanup, freed>>
      /\ UNCHANGED <<parse, arrays, framePacketsLen, frameSet>>
      /\ packet' = Null
      /\ parPc \in {"store", "return"} /\ parPc' \in {"complete", "top"}
  BY DEF ParKeep, ParReturn, KeepIn
<1>1. LastPutOK' /\ Clean /\ Clean' /\ mainPc \notin {"prealloc", "startUdp", "startParse"}
  BY <1>0, BeforeCleanup
<1>2. HandsOK' /\ PhaseOK'
  BY <1>0, <1>1 DEF IInv, HandsOK, PhaseOK
<1>3. packet \in Packets /\ packet # Null
  BY <1>0 DEF IInv, TypeOK, HandsOK
<1>4. InHands' = InHands - 1 /\ InHands \in Nat /\ Len(fill) \in Nat /\ Len(parse) \in Nat
  BY <1>0, <1>3, LenProperties DEF InHands, One, IInv, TypeOK
\* It suffices to show what becomes of the queue and the arrays.
<1>5. ASSUME /\ fill' \in Seq(Packets \cup {Null})
             /\ framePackets' \in [Slots -> Packets \cup {Null}]
             /\ \A i \in 1 .. Len(fill') : fill'[i] # Null
             /\ Len(fill') + Cardinality(Held') <= Len(fill) + Cardinality(Held) + 1
      PROVE  IInv'
  <2>1. TypeOK'
    BY <1>0, <1>5 DEF IInv, TypeOK, ParLabels
  <2>2. Len(fill') \in Nat /\ Cardinality(Held') \in Nat /\ Cardinality(Held) \in Nat
    <3>1. Cardinality(Held') \in Nat
      <4>1. IsFiniteSet(Slots) /\ Held' \subseteq Slots
        BY FS_Interval, HeldSlots, LengthAssumption DEF Slots
      <4> QED BY <4>1, FS_Subset, FS_CardinalityType
    <3> QED BY <1>5, <3>1, HeldFinite, LenProperties
  <2>3. InRings' = Len(fill') + Len(parse) /\ InRings = Len(fill) + Len(parse)
    BY <1>0 DEF InRings
  <2>4. InRings + InHands + Cardinality(Held) <= mallocCount /\ mallocCount \in Nat
    BY <1>1 DEF IInv, CountOK, TypeOK
  <2>5. InRings' + InHands' + Cardinality(Held') <= mallocCount
    BY <1>4, <1>5, <2>2, <2>3, <2>4
  <2>6. CountOK'
    BY <1>0, <1>5, <2>5 DEF CountOK
  <2> QED BY <1>1, <1>2, <2>1, <2>6 DEF IInv
<1>6. /\ fill \in Seq(Packets \cup {Null}) /\ \A i \in 1 .. Len(fill) : fill[i] # Null
      /\ framePackets \in [Slots -> Packets \cup {Null}] /\ Cardinality(Held) \in Nat
  BY <1>1, HeldFinite DEF IInv, TypeOK, CountOK
<1>7. CASE ParKeep
  <2>1. PICK k \in Slots :
          /\ framePackets' = [framePackets EXCEPT ![k] = packet]
          /\ IF framePackets[k] = Null THEN UNCHANGED fill ELSE PutFill(framePackets[k])
    BY <1>7 DEF ParKeep, KeepIn
  <2>2. CASE framePackets[k] = Null
    <3>1. Cardinality(Held') = Cardinality(Held) + 1
      BY <1>3, <2>1, <2>2, HeldPut DEF IInv
    <3>2. UNCHANGED fill
      BY <2>1, <2>2
    <3>3. framePackets' \in [Slots -> Packets \cup {Null}]
      BY <1>3, <1>6, <2>1
    <3> QED BY <1>4, <1>5, <1>6, <3>1, <3>2, <3>3
  <2>3. CASE framePackets[k] # Null
    <3>1. Held' = Held
      BY <1>3, <2>1, <2>3, HeldReplace DEF IInv
    <3>2. framePackets[k] \in Packets /\ PutFill(framePackets[k])
      BY <1>6, <2>1, <2>3
    <3>3. /\ fill' \in Seq(Packets \cup {Null}) /\ Len(fill') = Len(fill) + 1
          /\ \A i \in 1 .. Len(fill') : fill'[i] # Null
      BY <1>6, <3>2, PutKeepsClean
    <3>4. framePackets' \in [Slots -> Packets \cup {Null}]
      BY <1>3, <1>6, <2>1
    <3> QED BY <1>4, <1>5, <1>6, <3>1, <3>3, <3>4
  <2> QED BY <2>2, <2>3
<1>8. CASE ParReturn
  <2>1. PutFill(packet) /\ UNCHANGED framePackets
    BY <1>8 DEF ParReturn
  <2>2. /\ fill' \in Seq(Packets \cup {Null}) /\ Len(fill') = Len(fill) + 1
        /\ \A i \in 1 .. Len(fill') : fill'[i] # Null
    BY <1>3, <1>6, <2>1, PutKeepsClean
  <2>3. Held' = Held
    BY <2>1, HeldStays
  <2> QED BY <1>4, <1>5, <1>6, <2>1, <2>2, <2>3
<1> QED BY <1>7, <1>8

\* The cleanup; its first NULL finds the udpRead thread with room for its packet
\* or with nothing but NULLs to get.
LEMMA ParserCleanup ==
    ASSUME IInv, ParCleanup
    PROVE  IInv'
<1> USE DEF ParGoto, mainVars, queueVars, udpVars, heldVars
<1>0. /\ UNCHANGED <<mainPc, closing, mallocCount, udpPc, udpPacket, freed>>
      /\ UNCHANGED <<parse, packet, frameSet, framePacketsLen>>
      /\ parPc = "cleanup" /\ closing
  BY DEF ParCleanup, IInv, PhaseOK
<1>a. /\ Len(fill) \in Nat /\ Len(parse) \in Nat /\ cleanup \in Nat /\ framePacketsLen \in Nat
      /\ One(udpPacket) \in Nat /\ One(packet) \in Nat /\ Cardinality(Held) \in Nat
      /\ framePacketsLen > 0 /\ framePacketsLen <= MaxFrameLen
  BY LenProperties, HeldFinite, LengthAssumption DEF IInv, TypeOK, One
<1>1. CASE parPc' = "done"
  <2>1. /\ UNCHANGED <<fill, cleanup>> /\ arrays' = FALSE
        /\ framePackets' = [k \in Slots |-> Null] /\ cleanup = 3 * framePacketsLen
    BY <1>0, <1>1 DEF ParCleanup
  <2>2. ~Clean /\ ~Clean'
    BY <1>a, <2>1 DEF Clean
  <2>3. arrays' \in BOOLEAN
    BY <2>1, Zenon
  <2>4. TypeOK'
    BY <1>0, <1>1, <2>1, <2>3 DEF IInv, TypeOK, ParLabels
  <2>5. CountOK' /\ HandsOK' /\ PhaseOK'
    BY <1>0, <1>1, <2>2 DEF IInv, CountOK, HandsOK, PhaseOK
  <2>6. AllNull => AllNull'
    BY <1>0, <2>1 DEF AllNull
  <2>7. LastPutOK'
    BY <1>0, <2>2, <2>6 DEF IInv, LastPutOK
  <2> QED BY <2>4, <2>5, <2>7 DEF IInv
<1>2. CASE parPc' = "cleanup"
  <2>1. /\ UNCHANGED <<arrays, framePackets>> /\ cleanup' = cleanup + 1
        /\ cleanup < 3 * framePacketsLen
        /\ PutFill(framePackets[cleanup]) \/ UNCHANGED fill
    BY <1>0, <1>2 DEF ParCleanup
  <2>2. cleanup \in Slots /\ cleanup' \in 0 .. 3 * MaxFrameLen
    BY <1>a, <2>1, LengthAssumption DEF Slots
  <2>3. framePackets[cleanup] \in Packets \cup {Null}
    BY <2>2 DEF IInv, TypeOK
  <2>4. fill' \in Seq(Packets \cup {Null})
    BY <2>1, <2>3, PutFillProperties DEF IInv, TypeOK
  <2>5. TypeOK'
    BY <1>0, <1>2, <2>1, <2>2, <2>4 DEF IInv, TypeOK
  <2>6. ~Clean'
    BY <1>a, <2>1 DEF Clean
  <2>7. CountOK' /\ HandsOK' /\ PhaseOK'
    BY <1>0, <1>2, <2>6 DEF IInv, CountOK, HandsOK, PhaseOK
  <2>8. ASSUME AllNull PROVE AllNull'
    <3>1. framePackets[cleanup] = Null
      BY <2>2, <2>8 DEF AllNull
    <3>2. \A i \in 1 .. Len(fill') : fill'[i] = Null
      <4>1. CASE UNCHANGED fill
        BY <2>8, <4>1 DEF AllNull
      <4>2. CASE PutFill(Null)
        <5>1. /\ Len(fill') = Len(fill) + 1 /\ fill'[Len(fill) + 1] = Null
              /\ \A i \in 1 .. Len(fill) : fill'[i] = fill[i]
          BY <4>2, PutFillProperties DEF IInv, TypeOK
        <5> QED BY <1>a, <2>8, <5>1 DEF AllNull
      <4> QED BY <2>1, <3>1, <4>1, <4>2
    <3> QED BY <1>0, <2>1, <2>8, <3>2 DEF AllNull
  <2>9. LastPutOK'
    <3>1. CASE ~Clean
      BY <1>0, <2>8, <3>1 DEF IInv, LastPutOK
    <3>2. CASE Clean
      <4>1. /\ Len(fill) + Len(parse) + One(udpPacket) + One(packet) + Cardinality(Held)
                 <= mallocCount
            /\ mallocCount \in 0 .. QueueLen
        <5>1. InRings + InHands + Cardinality(Held) <= mallocCount /\ mallocCount \in 0 .. QueueLen
          BY <3>2 DEF IInv, CountOK, TypeOK
        <5> QED BY <1>a, <5>1 DEF InRings, InHands
      <4>2. udpPacket # Null => Len(parse) < QueueLen
        BY <1>a, <4>1, LengthAssumption DEF One
      <4>3. ASSUME Len(parse) >= QueueLen PROVE AllNull
        <5>1. Len(fill) = 0 /\ Cardinality(Held) = 0 /\ mallocCount = QueueLen
          BY <1>a, <4>1, <4>3, LengthAssumption
        <5>2. Held = {}
          BY <5>1, HeldFinite, FS_EmptySet
        <5> QED BY <5>1, <5>2, HeldSlots DEF AllNull
      <4>4. Len(parse) < QueueLen \/ AllNull
        BY <1>a, <4>3, LengthAssumption
      <4> QED BY <1>0, <2>8, <4>2, <4>4 DEF IInv, LastPutOK, HandsOK
    <3> QED BY <3>1, <3>2
  <2> QED BY <2>5, <2>7, <2>9 DEF IInv
<1> QED BY <1>1, <1>2 DEF ParCleanup

-------------------------------------------------------------------------------
(* The theorems *)

\* Every step of every thread keeps the invariant.
LEMMA StepInvariant == IInv /\ [Next]_vars => IInv'
<1> SUFFICES ASSUME IInv, [Next]_vars PROVE IInv'
  OBVIOUS
<1>1. CASE OpenClose
  BY <1>1, OpenCloseType, OpenCloseCount, OpenCloseHands DEF IInv
<1>2. CASE UdpRead
  BY <1>2, UdpReadStep
<1>3. CASE ParseLoop
  BY <1>3, ParserTakes, ParserPutsBack, ParserStores, ParserCleanup DEF ParseLoop
<1>4. CASE UNCHANGED vars
  BY <1>4, HeldStays
  DEF vars, mainVars, queueVars, udpVars, parVars, heldVars, IInv, TypeOK, CountOK, HandsOK,
      PhaseOK, LastPutOK, AllNull, Clean, InRings, InHands, One
<1> QED BY <1>1, <1>2, <1>3, <1>4 DEF Next

\* The inductive invariant holds in every state.
THEOREM Invariance == Spec => []IInv
BY InitInvariant, StepInvariant, PTL DEF Spec

\* Every variable keeps its type; no more packets are allocated than the queues
\* are long.
THEOREM TypeCorrect == Spec => []TypeOK
BY Invariance, PTL DEF IInv

\* Whatever the lengths and whatever is received, no asserted put of one of the
\* three threads finds its queue full.
THEOREM RoomForEveryPut == Spec => []PutsFindRoom
<1>1. IInv => PutsFindRoom
  <2> SUFFICES ASSUME IInv PROVE PutsFindRoom
    OBVIOUS
  <2>1. /\ Len(fill) \in Nat /\ Len(parse) \in Nat /\ mallocCount \in 0 .. QueueLen
        /\ One(udpPacket) \in Nat /\ One(packet) \in Nat /\ Cardinality(Held) \in Nat
    BY LenProperties, HeldFinite DEF IInv, TypeOK, One
  <2>2. Clean => Len(fill) + Len(parse) + One(udpPacket) + One(packet) + Cardinality(Held)
                   <= mallocCount
    <3>1. Clean => InRings + InHands + Cardinality(Held) <= mallocCount
      BY DEF IInv, CountOK
    <3> QED BY <2>1, <3>1 DEF InRings, InHands
  <2>3. ASSUME mainPc = "prealloc", mallocCount < Prealloc PROVE Len(fill) < QueueLen
    <3>1. Clean
      BY <2>3 DEF IInv, PhaseOK
    <3> QED BY <2>1, <2>2, <2>3, <3>1, LengthAssumption
  <2>4. ASSUME udpPc = "put" PROVE Len(parse) < QueueLen
    <3>1. CASE Clean
      <4>1. One(udpPacket) = 1
        BY <2>4 DEF One, IInv, HandsOK
      <4> QED BY <2>1, <2>2, <3>1, <4>1, LengthAssumption
    <3>2. CASE ~Clean
      BY <2>4, <3>2 DEF IInv, LastPutOK
    <3> QED BY <3>1, <3>2
  <2>5. ASSUME parPc \in {"store", "return"} \/ Returning PROVE Len(fill) < QueueLen
    <3>1. Clean
      BY <2>5 DEF IInv, PhaseOK, Returning
    <3>2. One(packet) = 1 \/ Cardinality(Held) > 0
      <4>1. CASE parPc \in {"store", "return"}
        BY <4>1 DEF One, IInv, HandsOK
      <4>2. CASE Returning
        <5>1. Cardinality(Held) # 0
          BY <4>2, HeldFinite, FS_EmptySet DEF Returning
        <5> QED BY <2>1, <5>1
      <4> QED BY <2>5, <4>1, <4>2
    <3> QED BY <2>1, <2>2, <3>1, <3>2, LengthAssumption
  <2> QED BY <2>3, <2>4, <2>5 DEF PutsFindRoom
<1> QED BY <1>1, Invariance, PTL

-------------------------------------------------------------------------------
(* Where a packet is *)

\* Counting in a queue.
LEMMA CountAppend ==
    ASSUME NEW S, NEW q \in Seq(S), NEW x \in S, NEW n
    PROVE  /\ CountIn(Append(q, x), n) = CountIn(q, n) + InHand(x, n)
           /\ CountIn(q, n) \in Nat /\ InHand(x, n) \in {0, 1}
<1> DEFINE t == Append(q, x)
           C == {k \in DOMAIN q : q[k] = n}
           D == {k \in DOMAIN t : t[k] = n}
<1>1. /\ DOMAIN q = 1 .. Len(q) /\ DOMAIN t = 1 .. Len(q) + 1 /\ Len(q) \in Nat
      /\ \A k \in 1 .. Len(q) : t[k] = q[k]
      /\ t[Len(q) + 1] = x
  BY AppendProperties, LenProperties
<1> HIDE DEF t
<1>2. IsFiniteSet(C) /\ Cardinality(C) \in Nat
  <2>1. IsFiniteSet(1 .. Len(q)) /\ C \subseteq 1 .. Len(q)
    BY <1>1, FS_Interval
  <2> QED BY <2>1, FS_Subset, FS_CardinalityType
<1>3. CASE x = n
  <2>1. D = C \cup {Len(q) + 1} /\ Len(q) + 1 \notin C
    BY <1>1, <1>3
  <2>2. Cardinality(D) = Cardinality(C) + 1
    BY <1>2, <2>1, FS_AddElement
  <2> QED BY <1>2, <1>3, <2>2 DEF CountIn, InHand, t
<1>4. CASE x # n
  <2>1. D = C
    BY <1>1, <1>4
  <2>2. CountIn(q, n) = Cardinality(C) /\ CountIn(t, n) = Cardinality(D) /\ InHand(x, n) = 0
    BY <1>4 DEF CountIn, InHand
  <2> HIDE DEF C, D
  <2> QED BY <1>2, <2>1, <2>2 DEF t
<1> QED BY <1>3, <1>4

LEMMA CountTail ==
    ASSUME NEW S, NEW q \in Seq(S), q # <<>>, NEW n
    PROVE  /\ CountIn(q, n) = CountIn(Tail(q), n) + InHand(Head(q), n)
           /\ CountIn(Tail(q), n) \in Nat /\ CountIn(q, n) \in Nat
<1> DEFINE t == Tail(q)
           L == Len(q)
           C == {k \in 1 .. L - 1 : t[k] = n}
           D == {k \in 2 .. L : q[k] = n}
           E == {k \in 1 .. L : q[k] = n}
           f == [k \in C |-> k + 1]
<1>1. /\ L \in Nat /\ L >= 1 /\ DOMAIN q = 1 .. L /\ DOMAIN t = 1 .. L - 1
      /\ \A k \in 1 .. L - 1 : t[k] = q[k + 1]
      /\ Head(q) = q[1]
  BY HeadTailProperties, EmptySeq, LenProperties
<1> HIDE DEF t, L
<1>2. IsFiniteSet(C) /\ Cardinality(C) \in Nat
  <2>1. IsFiniteSet(1 .. L - 1) /\ C \subseteq 1 .. L - 1
    BY <1>1, FS_Interval
  <2> QED BY <2>1, FS_Subset, FS_CardinalityType
<1>3. IsFiniteSet(D) /\ Cardinality(D) = Cardinality(C)
  <2>1. \A k \in C : k \in Int /\ k + 1 \in D
    BY <1>1
  <2>2. \A j \in D : j \in Int /\ j - 1 \in C /\ j = (j - 1) + 1
    BY <1>1
  <2>3. f \in [C -> D]
    BY <2>1
  <2>4. \A j, k \in C : f[j] = f[k] => j = k
    BY <2>1
  <2>5. \A j \in D : \E k \in C : f[k] = j
    BY <2>2
  <2>6. f \in Bijection(C, D)
    BY <2>3, <2>4, <2>5 DEF Bijection, Injection, Surjection, IsInjective
  <2> QED BY <1>2, <2>6, FS_Bijection DEF ExistsBijection
<1>4. Cardinality(D) \in Nat /\ 1 \notin D
  BY <1>2, <1>3
<1>5. CountIn(q, n) = Cardinality(E) /\ CountIn(t, n) = Cardinality(C)
  BY <1>1 DEF CountIn
<1>6. CASE Head(q) = n
  <2>1. E = D \cup {1}
    BY <1>1, <1>6
  <2>2. Cardinality(E) = Cardinality(D) + 1
    BY <1>3, <1>4, <2>1, FS_AddElement
  <2>3. InHand(Head(q), n) = 1
    BY <1>6 DEF InHand
  <2> HIDE DEF C, D, E
  <2> QED BY <1>2, <1>3, <1>4, <1>5, <2>2, <2>3 DEF t
<1>7. CASE Head(q) # n
  <2>1. E = D
    BY <1>1, <1>7
  <2>2. InHand(Head(q), n) = 0
    BY <1>7 DEF InHand
  <2> HIDE DEF C, D, E
  <2> QED BY <1>2, <1>3, <1>4, <1>5, <2>1, <2>2 DEF t
<1> QED BY <1>6, <1>7

LEMMA CountNone ==
    ASSUME NEW n
    PROVE  CountIn(<<>>, n) = 0
<1>1. {k \in DOMAIN <<>> : <<>>[k] = n} = {}
  BY EmptySeq
<1> QED BY <1>1, FS_EmptySet DEF CountIn

\* Counting in the arrays.
Cells(n) == {k \in Slots : framePackets[k] = n /\ ~(parPc = "cleanup" /\ k < cleanup)}

LEMMA CellsFinite ==
    ASSUME NEW n
    PROVE  IsFiniteSet(Cells(n)) /\ InArrays(n) = Cardinality(Cells(n)) /\ InArrays(n) \in Nat
<1>1. IsFiniteSet(Slots) /\ Cells(n) \subseteq Slots
  BY FS_Interval, LengthAssumption DEF Slots, Cells
<1> QED BY <1>1, FS_Subset, FS_CardinalityType DEF InArrays, Cells

\* Steps that leave the arrays alone.
LEMMA ArraysStay ==
    ASSUME NEW n, UNCHANGED <<framePackets, cleanup>>,
           parPc = "cleanup" \/ parPc' = "cleanup" => UNCHANGED parPc \/ cleanup = 0
    PROVE  InArrays(n)' = InArrays(n)
<1>1. \A k \in Slots : k \in Nat
  BY LengthAssumption DEF Slots
<1>2. \A k \in Slots : ~(k < 0)
  BY <1>1
<1>3. (parPc' = "cleanup" <=> parPc = "cleanup") \/ cleanup = 0
  OBVIOUS
<1> QED BY <1>2, <1>3 DEF InArrays

\* One place gets another content before the cleanup.
LEMMA ArrayPut ==
    ASSUME TypeOK, NEW n, NEW k \in Slots, NEW x,
           framePackets' = [framePackets EXCEPT ![k] = x],
           parPc # "cleanup", parPc' # "cleanup"
    PROVE  InArrays(n)' + InHand(framePackets[k], n) = InArrays(n) + InHand(x, n)
<1>1. Cells(n) = {j \in Slots : framePackets[j] = n}
  BY DEF Cells
<1>2. InArrays(n)' = Cardinality({j \in Slots : framePackets'[j] = n})
  BY DEF InArrays
<1> DEFINE C == {j \in Slots : framePackets[j] = n}
           D == {j \in Slots : framePackets'[j] = n}
           R == C \ {k}
<1>3. IsFiniteSet(C) /\ InArrays(n) = Cardinality(C)
  BY <1>1, CellsFinite
<1>4. IsFiniteSet(R) /\ Cardinality(R) \in Nat /\ k \notin R
  BY <1>3, FS_Subset, FS_CardinalityType
<1>5. C = IF framePackets[k] = n THEN R \cup {k} ELSE R
  OBVIOUS
<1>6. D = IF x = n THEN R \cup {k} ELSE R
  BY DEF TypeOK
<1>7. Cardinality(R \cup {k}) = Cardinality(R) + 1
  BY <1>4, FS_AddElement
<1>8. Cardinality(C) = Cardinality(R) + InHand(framePackets[k], n)
  BY <1>4, <1>5, <1>7 DEF InHand
<1>9. Cardinality(D) = Cardinality(R) + InHand(x, n)
  BY <1>4, <1>6, <1>7 DEF InHand
<1>10. InHand(x, n) \in Nat /\ InHand(framePackets[k], n) \in Nat
  BY DEF InHand
<1> HIDE DEF C, D, R
<1> QED BY <1>2, <1>3, <1>4, <1>8, <1>9, <1>10 DEF D

-------------------------------------------------------------------------------
(* How packets move *)

\* A step leaves a packet where it is or moves it; a new one comes into being.
Moved(n) == Places(n)' = Places(n) + (IF mallocCount' = mallocCount + 1 /\ n = mallocCount + 1
                                      THEN 1 ELSE 0)

LEMMA PlacesType ==
    ASSUME TypeOK, NEW n
    PROVE  /\ CountIn(fill, n) \in Nat /\ CountIn(parse, n) \in Nat /\ CountIn(freed, n) \in Nat
           /\ InArrays(n) \in Nat /\ InHand(udpPacket, n) \in Nat /\ InHand(packet, n) \in Nat
           /\ Places(n) \in Nat
<1>1. \A q \in Seq(Packets \cup {Null}) : CountIn(q, n) \in Nat
  BY CountAppend
<1>2. CountIn(parse, n) \in Nat /\ CountIn(freed, n) \in Nat
  <2>1. \A q \in Seq(Packets) : q \in Seq(Packets \cup {Null})
    BY SeqDef
  <2> QED BY <1>1, <2>1 DEF TypeOK
<1>3. InHand(udpPacket, n) \in Nat /\ InHand(packet, n) \in Nat
  BY DEF InHand
<1>4. CountIn(fill, n) \in Nat /\ InArrays(n) \in Nat
  BY <1>1, CellsFinite DEF TypeOK
<1> QED BY <1>2, <1>3, <1>4 DEF Places

LEMMA PutFillCounts ==
    ASSUME TypeOK, NEW x \in Packets \cup {Null}, PutFill(x), NEW n
    PROVE  CountIn(fill', n) = CountIn(fill, n) + InHand(x, n) /\ InHand(x, n) \in {0, 1}
<1>1. fill' = Append(fill, x) /\ fill \in Seq(Packets \cup {Null})
  BY DEF PutFill, TypeOK
<1> QED BY <1>1, CountAppend

LEMMA NullNowhere == \A n \in Packets : InHand(Null, n) = 0
  BY PacketNotNull DEF InHand

LEMMA FreedCounts ==
    ASSUME TypeOK, NEW x \in Packets \cup {Null}, NEW n \in Packets,
           freed' = IF x = Null THEN freed ELSE Append(freed, x)
    PROVE  CountIn(freed', n) = CountIn(freed, n) + InHand(x, n) /\ InHand(x, n) \in {0, 1}
<1>1. CASE x = Null
  BY <1>1, NullNowhere, PlacesType
<1>2. CASE x # Null
  BY <1>2, CountAppend DEF TypeOK
<1> QED BY <1>1, <1>2

LEMMA OpenCloseMoves ==
    ASSUME IInv, OpenClose, NEW n \in Packets
    PROVE  Moved(n) /\ mallocCount' \in {mallocCount, mallocCount + 1}
<1> USE DEF udpVars, parVars, heldVars, queueVars, mainVars
<1>0. TypeOK /\ mallocCount \in Nat
  BY DEF IInv, TypeOK
<1>1. InArrays(n)' = InArrays(n) /\ UNCHANGED <<udpPacket, packet>>
  <2>1. /\ UNCHANGED <<framePackets, cleanup, udpPacket, packet>>
        /\ UNCHANGED parPc \/ cleanup = 0
    BY DEF OpenClose, PreallocPacket, PreallocEnd, StartUdp, StartParse,
       CloseCall, JoinUdp, JoinParse, FreeParse, FreeFill, IInv, PhaseOK, Clean
  <2> QED BY <2>1, ArraysStay
<1>2. CASE PreallocPacket
  <2>1. mallocCount + 1 \in Packets
    BY <1>0, <1>2, LengthAssumption DEF PreallocPacket, Allocate, Packets, TypeOK
  <2>2. CountIn(fill', n) = CountIn(fill, n) + InHand(mallocCount + 1, n)
    BY <1>0, <1>2, <2>1, PutFillCounts DEF PreallocPacket
  <2>3. mallocCount' = mallocCount + 1 /\ UNCHANGED <<parse, freed>>
    BY <1>2 DEF PreallocPacket, Allocate
  <2>4. InHand(mallocCount + 1, n) = IF n = mallocCount + 1 THEN 1 ELSE 0
    BY DEF InHand
  <2> QED BY <1>0, <1>1, <2>2, <2>3, <2>4, PlacesType DEF Moved, Places
<1>3. CASE PreallocEnd \/ StartUdp \/ StartParse \/ CloseCall \/ JoinUdp \/ JoinParse
  <2>1. UNCHANGED <<mallocCount, fill, parse, freed>>
    BY <1>3 DEF PreallocEnd, StartUdp, StartParse, CloseCall, JoinUdp, JoinParse
  <2> QED BY <1>0, <1>1, <2>1, PlacesType DEF Moved, Places
<1>4. CASE FreeParse
  <2>1. CASE parse = <<>>
    <3>1. UNCHANGED <<mallocCount, fill, parse, freed>>
      BY <1>4, <2>1 DEF FreeParse
    <3> QED BY <1>0, <1>1, <3>1, PlacesType DEF Moved, Places
  <2>2. CASE parse # <<>>
    <3>1. FreeHead(parse) /\ parse' = Tail(parse) /\ UNCHANGED <<mallocCount, fill>>
      BY <1>4, <2>2 DEF FreeParse
    <3>2. Head(parse) \in Packets
      BY <1>0, <2>2, TailProperties DEF TypeOK
    <3>3. CountIn(parse, n) = CountIn(parse', n) + InHand(Head(parse), n) /\ CountIn(parse', n) \in Nat
      BY <1>0, <2>2, <3>1, CountTail DEF TypeOK
    <3>4. CountIn(freed', n) = CountIn(freed, n) + InHand(Head(parse), n)
          /\ InHand(Head(parse), n) \in {0, 1}
      BY <1>0, <3>1, <3>2, FreedCounts DEF FreeHead
    <3> QED BY <1>0, <1>1, <3>1, <3>3, <3>4, PlacesType DEF Moved, Places
  <2> QED BY <2>1, <2>2
<1>5. CASE FreeFill
  <2>1. CASE fill = <<>>
    <3>1. UNCHANGED <<mallocCount, fill, parse, freed>>
      BY <1>5, <2>1 DEF FreeFill
    <3> QED BY <1>0, <1>1, <3>1, PlacesType DEF Moved, Places
  <2>2. CASE fill # <<>>
    <3>1. FreeHead(fill) /\ fill' = Tail(fill) /\ UNCHANGED <<mallocCount, parse>>
      BY <1>5, <2>2 DEF FreeFill
    <3>2. Head(fill) \in Packets \cup {Null}
      BY <1>0, <2>2, TailProperties DEF TypeOK
    <3>3. CountIn(fill, n) = CountIn(fill', n) + InHand(Head(fill), n) /\ CountIn(fill', n) \in Nat
      BY <1>0, <2>2, <3>1, CountTail DEF TypeOK
    <3>4. CountIn(freed', n) = CountIn(freed, n) + InHand(Head(fill), n)
          /\ InHand(Head(fill), n) \in {0, 1}
      BY <1>0, <3>1, <3>2, FreedCounts DEF FreeHead
    <3> QED BY <1>0, <1>1, <3>1, <3>3, <3>4, PlacesType DEF Moved, Places
  <2> QED BY <2>1, <2>2
<1> QED BY <1>2, <1>3, <1>4, <1>5 DEF OpenClose

LEMMA UdpMoves ==
    ASSUME IInv, UdpRead, NEW n \in Packets
    PROVE  Moved(n) /\ mallocCount' \in {mallocCount, mallocCount + 1}
<1> USE DEF UdpGoto, udpVars, parVars, heldVars, queueVars, mainVars
<1>0. TypeOK /\ mallocCount \in Nat
  BY DEF IInv, TypeOK
<1>1. InArrays(n)' = InArrays(n) /\ UNCHANGED packet
  <2>1. UNCHANGED <<framePackets, cleanup, packet, parPc>>
    BY DEF UdpRead, UdpStart, UdpLoop, UdpExit, UdpGet, UdpAlloc, UdpRecv, UdpPut
  <2> QED BY <2>1, ArraysStay
<1>2. CASE UNCHANGED <<mallocCount, fill, parse, freed, udpPacket>>
  BY <1>0, <1>1, <1>2, PlacesType DEF Moved, Places
<1>3. CASE UdpExit
  <2>1. CountIn(freed', n) = CountIn(freed, n) + InHand(udpPacket, n)
    BY <1>0, <1>3, FreedCounts DEF UdpExit, TypeOK
  <2>2. InHand(udpPacket', n) = 0 /\ UNCHANGED <<mallocCount, fill, parse>>
    BY <1>3, NullNowhere DEF UdpExit
  <2> QED BY <1>0, <1>1, <2>1, <2>2, PlacesType DEF Moved, Places
<1>4. CASE UdpGet /\ fill # <<>>
  <2>1. /\ fill' = Tail(fill) /\ udpPacket' = Head(fill) /\ udpPacket = Null
        /\ UNCHANGED <<mallocCount, parse, freed>>
    BY <1>4 DEF UdpGet, IInv, HandsOK
  <2>2. CountIn(fill, n) = CountIn(fill', n) + InHand(udpPacket', n) /\ CountIn(fill', n) \in Nat
    BY <1>0, <1>4, <2>1, CountTail DEF TypeOK
  <2>3. InHand(udpPacket, n) = 0 /\ InHand(udpPacket', n) \in {0, 1}
    BY <2>1, NullNowhere DEF InHand
  <2> QED BY <1>0, <1>1, <2>1, <2>2, <2>3, PlacesType DEF Moved, Places
<1>5. CASE UdpAlloc /\ udpPc' = "recv"
  <2>1. /\ mallocCount' = mallocCount + 1 /\ udpPacket' = mallocCount + 1 /\ udpPacket = Null
        /\ UNCHANGED <<fill, parse, freed>>
    BY <1>5 DEF UdpAlloc, Allocate, IInv, HandsOK
  <2>2. InHand(udpPacket, n) = 0 /\ InHand(udpPacket', n) = IF n = mallocCount + 1 THEN 1 ELSE 0
    BY <2>1, NullNowhere DEF InHand
  <2> QED BY <1>0, <1>1, <2>1, <2>2, PlacesType DEF Moved, Places
<1>6. CASE UdpPut
  <2>1. /\ parse' = Append(parse, udpPacket) /\ udpPacket' = Null /\ udpPacket \in Packets
        /\ UNCHANGED <<mallocCount, fill, freed>>
    BY <1>6 DEF UdpPut, PutParse, IInv, HandsOK, TypeOK
  <2>2. CountIn(parse', n) = CountIn(parse, n) + InHand(udpPacket, n)
    BY <1>0, <2>1, CountAppend DEF TypeOK
  <2>3. InHand(udpPacket', n) = 0
    BY <2>1, NullNowhere
  <2> QED BY <1>0, <1>1, <2>1, <2>2, <2>3, PlacesType DEF Moved, Places
<1>7. \/ UNCHANGED <<mallocCount, fill, parse, freed, udpPacket>>
      \/ UdpExit \/ (UdpGet /\ fill # <<>>) \/ (UdpAlloc /\ udpPc' = "recv") \/ UdpPut
  BY DEF UdpRead, UdpStart, UdpLoop, UdpGet, UdpAlloc, UdpRecv
<1> QED BY <1>2, <1>3, <1>4, <1>5, <1>6, <1>7

\* The first packet of some sets goes back to the fill queue.
LEMMA PutBackMoves ==
    ASSUME IInv, NEW sets, PutBackFirst(sets), NEW n \in Packets,
           parPc # "cleanup", parPc' # "cleanup",
           UNCHANGED <<parse, freed, udpPacket, packet>>
    PROVE  Places(n)' = Places(n)
<1>0. TypeOK
  BY DEF IInv
<1>1. PICK k \in Occupied(sets) : /\ PutFill(framePackets[k])
                                  /\ framePackets' = [framePackets EXCEPT ![k] = Null]
  BY DEF PutBackFirst
<1>2. k \in Slots /\ framePackets[k] \in Packets \cup {Null}
  BY <1>0 DEF Occupied, TypeOK
<1>3. CountIn(fill', n) = CountIn(fill, n) + InHand(framePackets[k], n)
      /\ InHand(framePackets[k], n) \in {0, 1}
  BY <1>0, <1>1, <1>2, PutFillCounts
<1>4. InArrays(n)' + InHand(framePackets[k], n) = InArrays(n) + InHand(Null, n)
  BY <1>0, <1>1, <1>2, ArrayPut
<1>5. InHand(Null, n) = 0 /\ InArrays(n)' \in Nat
  <2>1. InArrays(n)' = Cardinality(Cells(n))'
    BY DEF InArrays, Cells
  <2>2. IsFiniteSet(Slots) /\ Cells(n)' \subseteq Slots
    BY FS_Interval, LengthAssumption DEF Slots, Cells
  <2> QED BY <2>1, <2>2, NullNowhere, FS_Subset, FS_CardinalityType
<1> QED BY <1>0, <1>3, <1>4, <1>5, PlacesType DEF Places

\* The steps of the parser that lose nothing.
LEMMA ParserMoves ==
    ASSUME IInv, ParseLoop, ~(ParGot /\ closing), ~ParCleanup, NEW n \in Packets
    PROVE  Places(n)' = Places(n)
<1> USE DEF ParGoto, mainVars, queueVars, udpVars, heldVars
<1>0. TypeOK
  BY DEF IInv
<1>a. UNCHANGED <<freed, udpPacket, cleanup>> /\ parPc # "cleanup"
  BY DEF ParseLoop, ParLoop, ParGet, ParGot, ParHandle, ParEvict, ParOverflow, ParKeep,
         ParComplete, ParReturn, ParExit
<1>1. CASE UNCHANGED <<fill, parse, packet, framePackets>> /\ (parPc' = "cleanup" => cleanup = 0)
  <2>1. InArrays(n)' = InArrays(n)
    BY <1>1, <1>a, ArraysStay
  <2> QED BY <1>1, <1>a, <2>1 DEF Places
<1>2. CASE ParGet /\ parse # <<>> /\ ~closing
  <2>1. /\ packet' = Head(parse) /\ parse' = Tail(parse) /\ packet = Null
        /\ UNCHANGED <<fill, framePackets>> /\ parPc' # "cleanup"
    BY <1>2 DEF ParGet, IInv, HandsOK
  <2>2. CountIn(parse, n) = CountIn(parse', n) + InHand(packet', n) /\ CountIn(parse', n) \in Nat
    BY <1>0, <1>2, <2>1, CountTail DEF TypeOK
  <2>3. InHand(packet, n) = 0 /\ InHand(packet', n) \in {0, 1}
    BY <2>1, NullNowhere DEF InHand
  <2>4. InArrays(n)' = InArrays(n)
    BY <2>1, <1>a, ArraysStay
  <2> QED BY <1>0, <1>a, <2>1, <2>2, <2>3, <2>4, PlacesType DEF Places
<1>3. CASE (ParEvict \/ ParOverflow \/ ParComplete) /\ \E sets : PutBackFirst(sets)
  <2>1. UNCHANGED <<parse, packet>> /\ parPc' # "cleanup"
    BY <1>3 DEF ParEvict, ParOverflow, ParComplete
  <2> QED BY <1>3, <1>a, <2>1, PutBackMoves
<1>4. CASE ParKeep
  <2>1. PICK k \in Slots :
            /\ packet' = Null /\ framePackets' = [framePackets EXCEPT ![k] = packet]
            /\ IF framePackets[k] = Null THEN UNCHANGED fill ELSE PutFill(framePackets[k])
    BY <1>4 DEF ParKeep, KeepIn
  <2>2. parPc' # "cleanup" /\ UNCHANGED parse
    BY <1>4 DEF ParKeep
  <2>3. framePackets[k] \in Packets \cup {Null} /\ packet \in Packets \cup {Null}
    BY <1>0 DEF TypeOK
  <2>4. CountIn(fill', n) = CountIn(fill, n) + InHand(framePackets[k], n)
        /\ InHand(framePackets[k], n) \in {0, 1}
    <3>1. CASE framePackets[k] = Null
      BY <1>0, <2>1, <3>1, NullNowhere, PlacesType
    <3>2. CASE framePackets[k] # Null
      BY <1>0, <2>1, <2>3, <3>2, PutFillCounts
    <3> QED BY <3>1, <3>2
  <2>5. InArrays(n)' + InHand(framePackets[k], n) = InArrays(n) + InHand(packet, n)
    BY <1>0, <1>a, <2>1, <2>2, ArrayPut
  <2>6. InHand(packet', n) = 0 /\ InArrays(n)' \in Nat
    <3>1. InArrays(n)' = Cardinality(Cells(n))'
      BY DEF InArrays, Cells
    <3>2. IsFiniteSet(Slots) /\ Cells(n)' \subseteq Slots
      BY FS_Interval, LengthAssumption DEF Slots, Cells
    <3> QED BY <2>1, <3>1, <3>2, NullNowhere, FS_Subset, FS_CardinalityType
  <2> QED BY <1>0, <1>a, <2>2, <2>4, <2>5, <2>6, PlacesType DEF Places
<1>5. CASE ParReturn
  <2>1. /\ PutFill(packet) /\ packet' = Null /\ UNCHANGED <<parse, framePackets>>
        /\ parPc' # "cleanup" /\ packet \in Packets \cup {Null}
    BY <1>0, <1>5 DEF ParReturn, TypeOK
  <2>2. CountIn(fill', n) = CountIn(fill, n) + InHand(packet, n)
    BY <1>0, <2>1, PutFillCounts
  <2>3. InArrays(n)' = InArrays(n) /\ InHand(packet', n) = 0
    BY <2>1, <1>a, ArraysStay, NullNowhere
  <2> QED BY <1>0, <1>a, <2>1, <2>2, <2>3, PlacesType DEF Places
<1>6. \/ UNCHANGED <<fill, parse, packet, framePackets>> /\ (parPc' = "cleanup" => cleanup = 0)
      \/ ParGet /\ parse # <<>> /\ ~closing
      \/ (ParEvict \/ ParOverflow \/ ParComplete) /\ \E sets : PutBackFirst(sets)
      \/ ParKeep \/ ParReturn
  <2>1. CASE ParLoop \/ ParHandle \/ ParGet \/ ParGot
    BY <2>1 DEF ParLoop, ParHandle, ParGet, ParGot
  <2>2. CASE ParExit
    BY <2>2 DEF ParExit, IInv, PhaseOK, Clean
  <2>3. CASE ParEvict \/ ParOverflow \/ ParComplete
    BY <2>3 DEF ParEvict, ParOverflow, ParComplete
  <2> QED BY <2>1, <2>2, <2>3 DEF ParseLoop
<1> QED BY <1>1, <1>2, <1>3, <1>4, <1>5, <1>6

\* A packet got in the moment of closing is forgotten.
LEMMA GotForgets ==
    ASSUME IInv, ParGot, closing, NEW n \in Packets
    PROVE  Places(n)' = Places(n) - InHand(packet, n) /\ InHand(packet, n) \in {0, 1}
<1> USE DEF ParGoto, mainVars, queueVars, udpVars, heldVars
<1>1. /\ UNCHANGED <<fill, parse, freed, udpPacket, cleanup, framePackets>>
      /\ packet' = Null /\ parPc # "cleanup" /\ parPc' # "cleanup"
  BY DEF ParGot
<1>2. InArrays(n)' = InArrays(n) /\ InHand(packet', n) = 0 /\ InHand(packet, n) \in {0, 1}
  BY <1>1, ArraysStay, NullNowhere DEF InHand
<1> QED BY <1>1, <1>2, PlacesType DEF Places, IInv

\* Places that the arrays do not have.
Beyond == \A k \in Slots : 3 * framePacketsLen <= k => framePackets[k] = Null

\* The cleanup puts everything back that finds room.
LEMMA CleanupMoves ==
    ASSUME IInv, ParCleanup, NEW n \in Packets
    PROVE  /\ Places(n)' <= Places(n) /\ Places(n)' \in Nat
           /\ Beyond /\ (cleanup < 3 * framePacketsLen => Len(fill) < QueueLen)
                  => Places(n)' = Places(n)
<1> USE DEF ParGoto, mainVars, queueVars, udpVars, heldVars
<1>0. /\ UNCHANGED <<udpPacket, freed, parse, packet>> /\ parPc = "cleanup" /\ TypeOK
      /\ cleanup \in Nat /\ framePacketsLen \in Nat
  BY LengthAssumption DEF ParCleanup, IInv, TypeOK
<1>a. InArrays(n) = Cardinality(Cells(n)) /\ IsFiniteSet(Cells(n)) /\ InArrays(n) \in Nat
  BY CellsFinite
<1>1. CASE parPc' = "done"
  <2>1. /\ UNCHANGED fill /\ framePackets' = [k \in Slots |-> Null]
        /\ cleanup = 3 * framePacketsLen
    BY <1>0, <1>1 DEF ParCleanup
  <2>2. InArrays(n)' = 0
    <3>1. \A k \in Slots : framePackets'[k] # n
      BY <2>1, PacketNotNull
    <3>2. {k \in Slots : framePackets'[k] = n /\ ~(parPc' = "cleanup" /\ k < cleanup')} = {}
      BY <3>1
    <3> QED BY <3>2, FS_EmptySet DEF InArrays
  <2>3. Beyond => InArrays(n) = 0
    <3> SUFFICES ASSUME Beyond PROVE InArrays(n) = 0
      OBVIOUS
    <3>1. \A k \in Slots : k \in Nat
      BY LengthAssumption DEF Slots
    <3>2. \A k \in Slots : k < cleanup \/ framePackets[k] = Null
      BY <1>0, <2>1, <3>1 DEF Beyond
    <3>3. Cells(n) = {}
      BY <1>0, <3>2, PacketNotNull DEF Cells
    <3> QED BY <1>a, <3>3, FS_EmptySet
  <2> QED BY <1>0, <1>a, <2>1, <2>2, <2>3, PlacesType DEF Places
<1>2. CASE parPc' = "cleanup"
  <2> DEFINE x == framePackets[cleanup]
  <2>1. /\ UNCHANGED framePackets /\ cleanup' = cleanup + 1
        /\ cleanup < 3 * framePacketsLen
        /\ PutFill(x) \/ (Len(fill) = QueueLen /\ UNCHANGED fill)
    BY <1>0, <1>2 DEF ParCleanup
  <2>2. cleanup \in Slots /\ x \in Packets \cup {Null}
    BY <1>0, <2>1, LengthAssumption DEF Slots, TypeOK
  <2>3. InArrays(n) = InArrays(n)' + InHand(x, n) /\ InArrays(n)' \in Nat /\ InHand(x, n) \in {0, 1}
    <3> DEFINE D == {k \in Slots : framePackets[k] = n /\ ~(k < cleanup + 1)}
    <3>1. InArrays(n)' = Cardinality(D)
      BY <1>2, <2>1 DEF InArrays
    <3>2. \A k \in Slots : k \in Nat
      BY LengthAssumption DEF Slots
    <3>3. cleanup \notin D /\ \A k \in Slots : ~(k < cleanup) <=> ~(k < cleanup + 1) \/ k = cleanup
      BY <1>0, <3>2
    <3>4. Cells(n) = IF x = n THEN D \cup {cleanup} ELSE D
      BY <1>0, <2>2, <3>3 DEF Cells
    <3>5. IsFiniteSet(D) /\ Cardinality(D) \in Nat
      <4>1. D \subseteq Cells(n)
        BY <3>4
      <4> QED BY <1>a, <4>1, FS_Subset, FS_CardinalityType
    <3> HIDE DEF D
    <3>6. Cardinality(D \cup {cleanup}) = Cardinality(D) + 1
      BY <3>3, <3>5, FS_AddElement
    <3>7. Cardinality(Cells(n)) = Cardinality(D) + InHand(x, n) /\ InHand(x, n) \in {0, 1}
      BY <3>4, <3>5, <3>6 DEF InHand
    <3> QED BY <1>a, <3>1, <3>5, <3>7
  <2> HIDE DEF x
  <2>4. CASE PutFill(x)
    <3>1. CountIn(fill', n) = CountIn(fill, n) + InHand(x, n)
      BY <1>0, <2>2, <2>4, PutFillCounts
    <3>2. Places(n)' = Places(n)
      BY <1>0, <2>3, <3>1, PlacesType DEF Places
    <3> QED BY <1>0, <3>2, PlacesType
  <2>5. CASE Len(fill) = QueueLen /\ UNCHANGED fill
    <3>1. Places(n)' <= Places(n) /\ Places(n)' \in Nat
      BY <1>0, <2>3, <2>5, PlacesType DEF Places
    <3>2. ~(Len(fill) < QueueLen)
      BY <2>5, LengthAssumption
    <3> QED BY <2>1, <3>1, <3>2
  <2> QED BY <2>1, <2>4, <2>5
<1> QED BY <1>1, <1>2 DEF ParCleanup

-------------------------------------------------------------------------------
(* One owner *)

\* A packet that was allocated is somewhere, and once, until closing may lose it.
Owned(n) ==
    /\ Places(n) <= IF n <= mallocCount THEN 1 ELSE 0
    /\ ~closing /\ n <= mallocCount => Places(n) = 1
Owners == \A n \in Packets : Owned(n)

LEMMA InitOwners == Init => Owners
<1> SUFFICES ASSUME Init, NEW n \in Packets PROVE Owned(n)
  BY DEF Owners
<1>1. CountIn(fill, n) = 0 /\ CountIn(parse, n) = 0 /\ CountIn(freed, n) = 0
  BY CountNone DEF Init
<1>2. InHand(udpPacket, n) = 0 /\ InHand(packet, n) = 0
  BY NullNowhere DEF Init
<1>3. InArrays(n) = 0
  <2>1. \A k \in Slots : framePackets[k] # n
    BY PacketNotNull DEF Init
  <2>2. Cells(n) = {}
    BY <2>1 DEF Cells
  <2> QED BY <2>2, CellsFinite, FS_EmptySet
<1>4. mallocCount = 0 /\ n \in Nat /\ n >= 1
  BY LengthAssumption DEF Init, Packets
<1> QED BY <1>1, <1>2, <1>3, <1>4 DEF Owned, Places

\* Closing is never taken back.
LEMMA ClosingStays == IInv /\ [Next]_vars => (closing => closing')
BY DEF Next, OpenClose, UdpRead, ParseLoop, PreallocPacket, PreallocEnd, StartUdp, StartParse,
       CloseCall, JoinUdp, JoinParse, FreeParse, FreeFill, UdpStart, UdpLoop, UdpExit, UdpGet,
       UdpAlloc, UdpRecv, UdpPut, ParLoop, ParGet, ParGot, ParHandle, ParEvict, ParOverflow,
       ParKeep, ParComplete, ParReturn, ParExit, ParCleanup, vars, mainVars, Allocate, PutFill

LEMMA MovedOwned ==
    ASSUME IInv, NEW n \in Packets, Owned(n), Moved(n), closing => closing',
           mallocCount' \in {mallocCount, mallocCount + 1}
    PROVE  Owned(n)'
<1>1. Places(n) \in Nat /\ mallocCount \in Nat /\ n \in Nat
  BY PlacesType, PacketNotNull DEF IInv, TypeOK
<1> DEFINE P == Places(n)'
<1>2. P = Places(n) + (IF mallocCount' = mallocCount + 1 /\ n = mallocCount + 1 THEN 1 ELSE 0)
  BY DEF Moved
<1> SUFFICES /\ P <= IF n <= mallocCount' THEN 1 ELSE 0
             /\ ~closing' /\ n <= mallocCount' => P = 1
  BY DEF Owned
<1> HIDE DEF P
<1>3. CASE mallocCount' = mallocCount
  BY <1>1, <1>2, <1>3 DEF Owned
<1>4. CASE mallocCount' = mallocCount + 1
  BY <1>1, <1>2, <1>4 DEF Owned
<1> QED BY <1>3, <1>4

LEMMA StepOwners == IInv /\ Owners /\ [Next]_vars => Owners'
<1> SUFFICES ASSUME IInv, Owners, [Next]_vars, NEW n \in Packets PROVE Owned(n)'
  BY DEF Owners
<1>1. Owned(n) /\ (closing => closing')
  BY ClosingStays DEF Owners
<1>2. Places(n) \in Nat /\ mallocCount \in Nat /\ n \in Nat
  BY PlacesType, PacketNotNull DEF IInv, TypeOK
<1>3. CASE OpenClose
  BY <1>1, <1>3, OpenCloseMoves, MovedOwned
<1>4. CASE UdpRead
  BY <1>1, <1>4, UdpMoves, MovedOwned
<1>5. CASE ParseLoop
  <2>1. UNCHANGED <<mallocCount, closing>>
    BY <1>5 DEF ParseLoop, ParLoop, ParGet, ParGot, ParHandle, ParEvict, ParOverflow, ParKeep,
                ParComplete, ParReturn, ParExit, ParCleanup, mainVars
  <2>2. /\ Places(n)' = Places(n) \/ (closing /\ Places(n)' <= Places(n))
        /\ Places(n)' \in Int
    <3>1. CASE ParGot /\ closing
      <4>1. Places(n)' = Places(n) - InHand(packet, n) /\ InHand(packet, n) \in {0, 1}
        BY <3>1, GotForgets
      <4> HIDE DEF Places, InHand
      <4> QED BY <1>2, <3>1, <4>1
    <3>2. CASE ParCleanup
      <4>1. closing
        BY <3>2 DEF ParCleanup, ParGoto, IInv, PhaseOK
      <4> QED BY <3>2, <4>1, CleanupMoves
    <3>3. CASE ~(ParGot /\ closing) /\ ~ParCleanup
      BY <1>2, <1>5, <3>3, ParserMoves
    <3> QED BY <3>1, <3>2, <3>3
  <2> DEFINE P == Places(n)'
  <2> SUFFICES /\ P <= IF n <= mallocCount' THEN 1 ELSE 0
               /\ ~closing' /\ n <= mallocCount' => P = 1
    BY DEF Owned
  <2>3. P = Places(n) \/ (closing /\ P <= Places(n))
    BY <2>2
  <2>4. P \in Int
    BY <2>2, <1>2
  <2> HIDE DEF P
  <2> QED BY <1>1, <1>2, <2>1, <2>3, <2>4 DEF Owned
<1>6. CASE UNCHANGED vars
  <2>1. Moved(n) /\ mallocCount' = mallocCount
    <3>1. InArrays(n)' = InArrays(n)
      BY <1>6, ArraysStay DEF vars, parVars, heldVars
    <3>2. UNCHANGED <<fill, parse, freed, udpPacket, packet, mallocCount>>
      BY <1>6 DEF vars, parVars, udpVars, queueVars
    <3>3. Places(n)' = Places(n)
      BY <3>1, <3>2 DEF Places
    <3> HIDE DEF Places
    <3> QED BY <1>2, <3>2, <3>3 DEF Moved
  <2> QED BY <1>1, <2>1, MovedOwned
<1> QED BY <1>3, <1>4, <1>5, <1>6 DEF Next

\* Whatever the lengths and whatever is received, no packet has two owners, none
\* is lost while nobody closes, and the udpRead thread receives into a packet.
THEOREM OwnersCorrect == Spec => []OneOwner
<1>1. IInv /\ Owners => OneOwner
  <2> SUFFICES ASSUME IInv, Owners PROVE OneOwner
    OBVIOUS
  <2>1. ASSUME NEW n \in 1 .. mallocCount
        PROVE  Places(n) <= 1 /\ (~closing => Places(n) = 1)
    <3>1. n \in Packets /\ n <= mallocCount
      BY LengthAssumption DEF IInv, TypeOK, Packets
    <3>2. Owned(n)
      BY <3>1 DEF Owners
    <3> HIDE DEF Places
    <3> QED BY <3>1, <3>2 DEF Owned
  <2>2. ~closing /\ udpPc \in {"recv", "put"} => udpPacket # Null
    BY DEF IInv, HandsOK, PhaseOK
  <2> QED BY <2>1, <2>2 DEF OneOwner
<1> QED BY <1>1, Invariance, InitOwners, StepOwners, PTL DEF Spec

-------------------------------------------------------------------------------
(* What close frees *)

\* The arrays hold nothing.
Empty == \A k \in Slots : framePackets[k] = Null

\* Packets are kept where the arrays are, as long as they are there.
ArraysOK ==
    /\ Beyond
    /\ ~arrays => Empty
    /\ parPc \in {"get", "got", "handle", "evict", "store", "overflow", "complete", "cleanup"} => arrays
    /\ parPc \in {"absent", "done"} => packet = Null /\ Empty

\* Who has ended, and what is empty then.
EndsOK ==
    /\ udpPc \in {"absent", "done"} => udpPacket = Null
    /\ mainPc \in {"joinParse", "freeParse", "freeFill", "closed"} => udpPc \in {"absent", "done"}
    /\ mainPc \in {"freeParse", "freeFill", "closed"} => parPc \in {"absent", "done"}
    /\ mainPc \in {"freeFill", "closed"} => parse = <<>>
    /\ mainPc = "closed" => fill = <<>>

\* What the cleanup may have added to the queues.
RingsOK == parPc = "cleanup" => InRings + InHands <= mallocCount + cleanup

\* The one packet the parser may have forgotten.
Roomy == mallocCount + 3 * framePacketsLen <= QueueLen
Lost(n) == n <= mallocCount /\ Places(n) = 0
LossOK ==
    Roomy => \A n \in Packets :
                 Lost(n) => /\ closing /\ parPc \in {"top", "cleanup", "done", "crashed"}
                            /\ \A m \in Packets : Lost(m) => m = n

CloseInv == ArraysOK /\ EndsOK /\ RingsOK /\ LossOK

LEMMA SlotBound == /\ \A k \in Slots : k \in Nat
                   /\ framePacketsLen \in FrameLen .. MaxFrameLen => framePacketsLen \in Nat
BY LengthAssumption DEF Slots

LEMMA ArraysStep == IInv /\ ArraysOK /\ [Next]_vars => ArraysOK'
<1> SUFFICES ASSUME IInv, ArraysOK, [Next]_vars PROVE ArraysOK'
  OBVIOUS
<1> USE DEF udpVars, parVars, heldVars, queueVars, mainVars, ParGoto
<1>0. TypeOK /\ framePacketsLen \in Nat /\ \A k \in Slots : k \in Nat
  BY SlotBound DEF IInv, TypeOK
<1>1. CASE UNCHANGED parVars
  BY <1>1 DEF ArraysOK, Beyond, Empty
<1>2. CASE StartParse
  BY <1>2 DEF StartParse, ArraysOK, Beyond, Empty
<1>3. CASE ParLoop \/ ParGet \/ ParGot \/ ParHandle \/ ParReturn \/ ParExit
  <2>1. UNCHANGED <<framePacketsLen, framePackets>>
    BY <1>3 DEF ParLoop, ParGet, ParGot, ParHandle, ParReturn, ParExit
  <2>2. (Beyond' <=> Beyond) /\ (Empty' <=> Empty)
    BY <2>1 DEF Beyond, Empty
  <2>3. ~arrays' => ~arrays
    BY <1>3 DEF ParLoop, ParGet, ParGot, ParHandle, ParReturn, ParExit
  <2>4. parPc' \in {"get", "got", "handle", "evict", "store", "overflow", "complete", "cleanup"} => arrays'
    BY <1>3 DEF ParLoop, ParGet, ParGot, ParHandle, ParReturn, ParExit, ArraysOK
  <2>5. parPc' \in {"absent", "done"} => packet' = Null /\ Empty'
    BY <1>3, <2>2 DEF ParLoop, ParGet, ParGot, ParHandle, ParReturn, ParExit, ArraysOK, IInv, HandsOK
  <2> QED BY <2>2, <2>3, <2>4, <2>5 DEF ArraysOK
<1>4. CASE ParEvict \/ ParOverflow \/ ParComplete
  <2>1. arrays /\ parPc' \notin {"absent", "done"}
    BY <1>4 DEF ParEvict, ParOverflow, ParComplete, ArraysOK
  <2>2. CASE \E sets : PutBackFirst(sets)
    <3>1. PICK k \in Slots : /\ framePackets' = [framePackets EXCEPT ![k] = Null]
                             /\ framePackets[k] # Null
      BY <2>2 DEF PutBackFirst, Occupied
    <3>a. Held # {}
      BY <3>1, HeldSlots
    <3>2. \A j \in Slots : framePackets'[j] = framePackets[j] \/ framePackets'[j] = Null
      BY <1>0, <3>1 DEF TypeOK
    <3>3. framePacketsLen' = framePacketsLen /\ arrays' = arrays
      BY <1>4, <3>a DEF ParEvict, ParOverflow, ParComplete
    <3> QED BY <2>1, <3>2, <3>3 DEF ArraysOK, Beyond
  <2>3. CASE UNCHANGED <<framePackets, framePacketsLen, arrays>>
    BY <2>1, <2>3 DEF ArraysOK, Beyond, Empty
  <2>4. CASE Held = {} /\ ParGoto("overflow", "return") /\ framePackets' = framePackets
    <3>1. Empty'
      BY <2>4, HeldSlots DEF Empty
    <3> QED BY <2>4, <3>1 DEF ArraysOK, Beyond, Empty
  <2> QED BY <1>4, <2>2, <2>3, <2>4 DEF ParEvict, ParOverflow, ParComplete
<1>5. CASE ParKeep
  <2>1. PICK k \in Slots : Place(k) /\ framePackets' = [framePackets EXCEPT ![k] = packet]
    BY <1>5 DEF ParKeep, KeepIn
  <2>2. UNCHANGED <<framePacketsLen, arrays>> /\ arrays /\ parPc' \in {"complete", "top"}
    BY <1>5 DEF ParKeep, ArraysOK
  <2>3. Beyond'
    <3> SUFFICES ASSUME NEW j \in Slots, 3 * framePacketsLen <= j PROVE framePackets'[j] = Null
      BY <2>2 DEF Beyond
    <3>1. j # k
      BY <1>0, <2>1 DEF Place
    <3> QED BY <1>0, <2>1, <3>1 DEF TypeOK, ArraysOK, Beyond
  <2> QED BY <2>2, <2>3 DEF ArraysOK
<1>6. CASE ParCleanup
  <2>1. packet' = packet /\ packet = Null
    BY <1>6 DEF ParCleanup, IInv, HandsOK
  <2>2. CASE parPc' = "done"
    <3>1. Empty'
      BY <1>6, <2>2 DEF ParCleanup, Empty
    <3> QED BY <2>1, <2>2, <3>1 DEF ArraysOK, Beyond, Empty
  <2>3. CASE parPc' = "cleanup"
    <3>1. UNCHANGED <<framePackets, framePacketsLen, arrays>> /\ parPc = "cleanup"
      BY <1>6, <2>3 DEF ParCleanup
    <3> QED BY <2>3, <3>1 DEF ArraysOK, Beyond, Empty
  <2> QED BY <1>6, <2>2, <2>3 DEF ParCleanup
<1>7. OpenClose \/ UdpRead => UNCHANGED parVars \/ StartParse
  BY DEF OpenClose, UdpRead, PreallocPacket, PreallocEnd, StartUdp, StartParse, CloseCall, JoinUdp,
         JoinParse, FreeParse, FreeFill, UdpStart, UdpLoop, UdpExit, UdpGet, UdpAlloc, UdpRecv, UdpPut
<1> QED BY <1>1, <1>2, <1>3, <1>4, <1>5, <1>6, <1>7 DEF Next, ParseLoop, vars

LEMMA EndsStep == IInv /\ ArraysOK /\ EndsOK /\ [Next]_vars => EndsOK'
<1> SUFFICES ASSUME IInv, ArraysOK, EndsOK, [Next]_vars PROVE EndsOK'
  OBVIOUS
<1> USE DEF udpVars, parVars, heldVars, queueVars, mainVars
<1>1. CASE OpenClose
  <2>1. CASE PreallocPacket \/ PreallocEnd \/ StartUdp \/ StartParse \/ CloseCall
    BY <2>1 DEF PreallocPacket, PreallocEnd, StartUdp, StartParse, CloseCall, EndsOK
  <2>2. CASE JoinUdp \/ JoinParse
    BY <2>2 DEF JoinUdp, JoinParse, EndsOK
  <2>3. CASE FreeParse
    BY <2>3, EmptySeq DEF FreeParse, EndsOK
  <2>4. CASE FreeFill
    BY <2>4, EmptySeq DEF FreeFill, EndsOK
  <2> QED BY <1>1, <2>1, <2>2, <2>3, <2>4 DEF OpenClose
<1>2. CASE UdpRead
  BY <1>2 DEF UdpRead, UdpGoto, UdpStart, UdpLoop, UdpExit, UdpGet, UdpAlloc, UdpRecv, UdpPut,
              EndsOK, IInv, HandsOK
<1>3. CASE ParseLoop
  <2>1. UNCHANGED <<mainPc, udpVars>> /\ parPc \notin {"absent", "done"}
    BY <1>3 DEF ParseLoop, ParGoto, ParLoop, ParGet, ParGot, ParHandle, ParEvict, ParOverflow, ParKeep,
                ParComplete, ParReturn, ParExit, ParCleanup
  <2> QED BY <2>1 DEF EndsOK
<1>4. CASE UNCHANGED vars
  BY <1>4 DEF vars, EndsOK
<1> QED BY <1>1, <1>2, <1>3, <1>4 DEF Next

LEMMA RingsStep == IInv /\ IInv' /\ EndsOK /\ RingsOK /\ [Next]_vars => RingsOK'
<1> SUFFICES ASSUME IInv, IInv', EndsOK, RingsOK, [Next]_vars, parPc' = "cleanup"
             PROVE  InRings' + InHands' <= mallocCount' + cleanup'
  BY DEF RingsOK
<1> USE DEF udpVars, parVars, heldVars, queueVars, mainVars
<1>0. /\ Len(fill) \in Nat /\ Len(parse) \in Nat /\ mallocCount \in Nat /\ cleanup \in Nat
      /\ Len(fill)' \in Nat /\ Len(parse)' \in Nat /\ mallocCount' \in Nat /\ cleanup' \in Nat
      /\ One(udpPacket) \in {0, 1} /\ One(packet) \in {0, 1}
      /\ One(udpPacket') \in {0, 1} /\ One(packet') \in {0, 1}
      /\ Cardinality(Held') \in Nat
  <2>1. Cardinality(Held') \in Nat
    <3>1. IsFiniteSet(Slots) /\ Held' \subseteq Slots
      BY LengthAssumption, FS_Interval, HeldSlots DEF Slots
    <3> QED BY <3>1, FS_Subset, FS_CardinalityType
  <2> QED BY <2>1 DEF IInv, TypeOK, One
<1>1. CASE cleanup' = 0
  BY <1>0, <1>1 DEF IInv, CountOK, Clean, InRings, InHands
<1>2. CASE cleanup' # 0
  <2>1. CASE UNCHANGED vars
    BY <1>2, <2>1 DEF vars, RingsOK, InRings, InHands
  <2>2. CASE ParseLoop
    <3>1. CASE ParCleanup
      <4>1. /\ parPc = "cleanup" /\ cleanup' = cleanup + 1 /\ UNCHANGED <<mallocCount, parse, udpPacket, packet>>
            /\ PutFill(framePackets[cleanup]) \/ UNCHANGED fill
        BY <2>2, <3>1 DEF ParCleanup, ParGoto
      <4>2. Len(fill') <= Len(fill) + 1
        <5>1. CASE UNCHANGED fill
          BY <1>0, <5>1
        <5>2. CASE PutFill(framePackets[cleanup])
          BY <1>0, <5>2 DEF PutFill, IInv, TypeOK
        <5> QED BY <4>1, <5>1, <5>2
      <4> QED BY <1>0, <4>1, <4>2 DEF RingsOK, InRings, InHands
    <3>2. CASE ~ParCleanup
      <4>1. parPc # "cleanup" /\ parPc # "done" /\ cleanup' = cleanup
        BY <2>2, <3>2 DEF ParseLoop, ParGoto, ParLoop, ParGet, ParGot, ParHandle, ParEvict, ParOverflow,
           ParKeep, ParComplete, ParReturn, ParExit
      <4> QED BY <1>2, <4>1 DEF IInv, PhaseOK, Clean
    <3> QED BY <3>1, <3>2
  <2>3. CASE OpenClose
    <3>1. mainPc \notin {"prealloc", "startUdp", "startParse", "freeParse", "freeFill", "closed"}
          /\ parPc = "cleanup"
      BY <2>3 DEF OpenClose, IInv, PhaseOK, EndsOK, PreallocPacket, PreallocEnd, StartUdp, StartParse, CloseCall, JoinUdp,
                  JoinParse, FreeParse, FreeFill
    <3>2. UNCHANGED <<mallocCount, fill, parse, udpPacket, packet, cleanup>>
      BY <2>3, <3>1 DEF OpenClose, PreallocPacket, PreallocEnd, StartUdp, StartParse, CloseCall, JoinUdp,
                  JoinParse, FreeParse, FreeFill
    <3> QED BY <3>1, <3>2 DEF RingsOK, InRings, InHands
  <2>4. CASE UdpRead
    <3>1. UNCHANGED <<parPc, packet, cleanup>> /\ parPc = "cleanup"
      BY <2>4 DEF UdpRead, UdpStart, UdpLoop, UdpExit, UdpGet, UdpAlloc, UdpRecv, UdpPut
    <3>2. InRings + InHands <= mallocCount + cleanup
      BY <3>1 DEF RingsOK
    <3>3. CASE UNCHANGED <<mallocCount, fill, parse, udpPacket>>
      BY <3>1, <3>2, <3>3 DEF InRings, InHands
    <3>4. CASE UdpExit
      <4>1. UNCHANGED <<mallocCount, fill, parse>> /\ One(udpPacket') = 0
        BY <3>4 DEF UdpExit, One
      <4> QED BY <1>0, <3>1, <3>2, <4>1 DEF InRings, InHands
    <3>5. CASE UdpGet /\ fill # <<>>
      <4>1. UNCHANGED <<mallocCount, parse>> /\ Len(fill') = Len(fill) - 1
        BY <3>5, TailProperties DEF UdpGet, IInv, TypeOK
      <4> QED BY <1>0, <3>1, <3>2, <4>1 DEF InRings, InHands
    <3>6. CASE UdpAlloc /\ udpPc' = "recv"
      <4>1. UNCHANGED <<fill, parse>> /\ mallocCount' = mallocCount + 1
        BY <3>6 DEF UdpAlloc, Allocate, UdpGoto
      <4> QED BY <1>0, <3>1, <3>2, <4>1 DEF InRings, InHands
    <3>7. CASE UdpPut
      <4>1. /\ UNCHANGED <<mallocCount, fill>> /\ One(udpPacket') = 0 /\ One(udpPacket) = 1
            /\ parse' = Append(parse, udpPacket)
        BY <3>7 DEF UdpPut, UdpGoto, PutParse, One, IInv, HandsOK
      <4>2. Len(parse') = Len(parse) + 1
        BY <4>1 DEF IInv, TypeOK
      <4> QED BY <1>0, <3>1, <3>2, <4>1, <4>2 DEF InRings, InHands
    <3>8. \/ UNCHANGED <<mallocCount, fill, parse, udpPacket>>
          \/ UdpExit \/ (UdpGet /\ fill # <<>>) \/ (UdpAlloc /\ udpPc' = "recv") \/ UdpPut
      BY <2>4 DEF UdpRead, UdpGoto, UdpStart, UdpLoop, UdpGet, UdpAlloc, UdpRecv
    <3> QED BY <3>3, <3>4, <3>5, <3>6, <3>7, <3>8
  <2> QED BY <2>1, <2>2, <2>3, <2>4 DEF Next
<1> QED BY <1>1, <1>2

\* The cleanup finds room in a roomy queue.
LEMMA CleanupRoom ==
    ASSUME IInv, RingsOK, Roomy, ParCleanup, cleanup < 3 * framePacketsLen
    PROVE  Len(fill) < QueueLen
<1>1. /\ Len(fill) \in Nat /\ Len(parse) \in Nat /\ mallocCount \in Nat /\ cleanup \in Nat
      /\ framePacketsLen \in Nat /\ QueueLen \in Nat
      /\ One(udpPacket) \in {0, 1} /\ One(packet) \in {0, 1}
  BY SlotBound, LengthAssumption DEF IInv, TypeOK, One
<1>2. Len(fill) <= mallocCount + cleanup
  BY <1>1 DEF RingsOK, InRings, InHands, ParCleanup, ParGoto
<1> QED BY <1>1, <1>2 DEF Roomy

\* No step but the parser's forgetting loses a packet.
LEMMA FewLost ==
    ASSUME IInv, ArraysOK, RingsOK, Roomy, Next, NEW m \in Packets, Lost(m)'
    PROVE  Lost(m) \/ (ParGot /\ closing /\ m = packet)
<1>1. Places(m) \in Nat /\ mallocCount \in Nat /\ m \in Nat
  BY PlacesType, PacketNotNull DEF IInv, TypeOK
<1> DEFINE P == Places(m)'
<1>2. m <= mallocCount' /\ P = 0
  BY DEF Lost
<1>3. CASE OpenClose \/ UdpRead
  <2>1. Moved(m) /\ mallocCount' \in {mallocCount, mallocCount + 1}
    BY <1>3, OpenCloseMoves, UdpMoves
  <2>2. P = Places(m) + (IF mallocCount' = mallocCount + 1 /\ m = mallocCount + 1 THEN 1 ELSE 0)
    BY <2>1 DEF Moved
  <2> HIDE DEF P
  <2>3. Places(m) = 0 /\ m <= mallocCount
    BY <1>1, <1>2, <2>1, <2>2
  <2> QED BY <2>3 DEF Lost
<1>4. CASE ParseLoop
  <2>1. mallocCount' = mallocCount
    BY <1>4 DEF ParseLoop, ParLoop, ParGet, ParGot, ParHandle, ParEvict, ParOverflow, ParKeep,
                ParComplete, ParReturn, ParExit, ParCleanup
  <2>2. CASE ParGot /\ closing
    <3>1. P = Places(m) - InHand(packet, m)
      BY <2>2, GotForgets
    <3>2. InHand(packet, m) = IF packet = m THEN 1 ELSE 0
      BY DEF InHand
    <3> HIDE DEF P
    <3>3. packet = m \/ Places(m) = 0
      BY <1>1, <1>2, <3>1, <3>2
    <3> QED BY <1>2, <2>1, <2>2, <3>3 DEF Lost
  <2>3. CASE ParCleanup
    <3>1. P = Places(m)
      BY <2>3, CleanupMoves, CleanupRoom DEF ArraysOK
    <3> HIDE DEF P
    <3> QED BY <1>2, <2>1, <3>1 DEF Lost
  <2>4. CASE ~(ParGot /\ closing) /\ ~ParCleanup
    <3>1. P = Places(m)
      BY <1>4, <2>4, ParserMoves
    <3> HIDE DEF P
    <3> QED BY <1>2, <2>1, <3>1 DEF Lost
  <2> QED BY <2>2, <2>3, <2>4
<1> QED BY <1>3, <1>4 DEF Next

\* Room for more is room for less.
LEMMA RoomStays ==
    ASSUME NEW a \in Nat, NEW b \in Nat, NEW c \in Nat, NEW d \in Nat, NEW q \in Nat,
           a <= b, c <= d, b + 3 * d <= q
    PROVE  a + 3 * c <= q
OBVIOUS

LEMMA LossStep == IInv /\ ArraysOK /\ RingsOK /\ LossOK /\ [Next]_vars => LossOK'
<1> SUFFICES ASSUME IInv, ArraysOK, RingsOK, LossOK, [Next]_vars PROVE LossOK'
  OBVIOUS
<1>1. CASE UNCHANGED vars
  <2>1. \A m : InArrays(m)' = InArrays(m)
    BY <1>1, ArraysStay DEF vars, parVars, heldVars
  <2>2. /\ UNCHANGED <<fill, parse, freed, udpPacket, packet, mallocCount, framePacketsLen, closing, parPc>>
    BY <1>1 DEF vars, parVars, heldVars, udpVars, queueVars, mainVars
  <2>3. \A m : Places(m)' = Places(m)
    BY <2>1, <2>2 DEF Places
  <2>4. \A m : Lost(m)' <=> Lost(m)
    BY <2>2, <2>3 DEF Lost
  <2> QED BY <2>2, <2>4 DEF LossOK, Roomy
<1>2. CASE Next
  <2> SUFFICES ASSUME Roomy', NEW n \in Packets, Lost(n)'
               PROVE  /\ closing' /\ parPc' \in {"top", "cleanup", "done", "crashed"}
                      /\ \A m \in Packets : Lost(m)' => m = n
    BY DEF LossOK
  <2>1. Roomy
    <3>1. mallocCount \in Nat /\ framePacketsLen \in Nat /\ QueueLen \in Nat
      BY SlotBound, LengthAssumption DEF IInv, TypeOK
    <3>2. mallocCount' \in {mallocCount, mallocCount + 1}
      <4>1. CASE OpenClose \/ UdpRead
        <5>1. PICK m : m \in Packets
          OBVIOUS
        <5> QED BY <4>1, <5>1, OpenCloseMoves, UdpMoves
      <4>2. CASE ParseLoop
        BY <4>2 DEF ParseLoop, ParLoop, ParGet, ParGot, ParHandle, ParEvict, ParOverflow, ParKeep,
                    ParComplete, ParReturn, ParExit, ParCleanup
      <4> QED BY <1>2, <4>1, <4>2 DEF Next
    <3>3. framePacketsLen' \in {framePacketsLen, 2 * framePacketsLen}
      BY <1>2 DEF Next, OpenClose, UdpRead, ParseLoop, PreallocPacket, PreallocEnd, StartUdp, StartParse,
         CloseCall, JoinUdp, JoinParse, FreeParse, FreeFill, UdpStart, UdpLoop, UdpExit, UdpGet,
         UdpAlloc, UdpRecv, UdpPut, ParLoop, ParGet, ParGot, ParHandle, ParEvict, ParOverflow,
         ParKeep, ParComplete, ParReturn, ParExit, ParCleanup, parVars, heldVars
    <3>4. mallocCount' + 3 * framePacketsLen' <= QueueLen
      BY DEF Roomy
    <3>5. mallocCount <= mallocCount' /\ mallocCount' \in Nat
      BY <3>1, <3>2
    <3>6. framePacketsLen <= framePacketsLen' /\ framePacketsLen' \in Nat
      BY <3>1, <3>3
    <3> QED BY <3>1, <3>4, <3>5, <3>6, RoomStays DEF Roomy
  <2>2. \A m \in Packets : Lost(m)' => Lost(m) \/ (ParGot /\ closing /\ m = packet)
    BY <1>2, <2>1, FewLost
  <2>3. \A l \in Packets :
           Lost(l) => /\ closing /\ parPc \in {"top", "cleanup", "done", "crashed"}
                      /\ \A m \in Packets : Lost(m) => m = l
    BY <2>1 DEF LossOK
  <2>4. CASE ParGot /\ closing
    <3>1. parPc = "got" /\ parPc' = "top" /\ closing'
      BY <2>4 DEF ParGot, ParGoto, mainVars
    <3>2. \A m \in Packets : ~Lost(m)
      BY <2>3, <3>1
    <3> QED BY <2>2, <3>1, <3>2
  <2>5. CASE ~(ParGot /\ closing)
    <3>1. \A m \in Packets : Lost(m)' => Lost(m)
      BY <2>2, <2>5
    <3>2. closing /\ parPc \in {"top", "cleanup", "done", "crashed"}
          /\ \A m \in Packets : Lost(m) => m = n
      BY <2>3, <3>1
    <3>3. closing'
      BY <1>2, <3>2, ClosingStays
    <3>4. parPc' \in {"top", "cleanup", "done", "crashed"}
      <4>1. CASE OpenClose
        <5>1. UNCHANGED parPc \/ StartParse
          BY <4>1 DEF OpenClose, PreallocPacket, PreallocEnd, StartUdp, StartParse,
             CloseCall, JoinUdp, JoinParse, FreeParse, FreeFill, parVars
        <5>2. ~StartParse
          BY <3>2 DEF StartParse, IInv, PhaseOK
        <5> QED BY <3>2, <5>1, <5>2
      <4>2. CASE UdpRead
        BY <3>2, <4>2 DEF UdpRead, UdpStart, UdpLoop, UdpExit, UdpGet, UdpAlloc, UdpRecv, UdpPut, parVars
      <4>3. CASE ParseLoop
        BY <3>2, <4>3 DEF ParseLoop, ParGoto, ParLoop, ParGet, ParGot, ParHandle, ParEvict, ParOverflow,
           ParKeep, ParComplete, ParReturn, ParExit, ParCleanup
      <4> QED BY <1>2, <4>1, <4>2, <4>3 DEF Next
    <3> QED BY <3>1, <3>2, <3>3, <3>4
  <2> QED BY <2>4, <2>5
<1> QED BY <1>1, <1>2

LEMMA InitClose == Init => CloseInv
<1> SUFFICES ASSUME Init PROVE CloseInv
  OBVIOUS
<1>1. Empty
  BY DEF Init, Empty
<1>2. ArraysOK
  BY <1>1 DEF Init, ArraysOK, Beyond, Empty
<1>3. EndsOK /\ RingsOK
  BY DEF Init, EndsOK, RingsOK
<1>4. LossOK
  <2>1. \A n \in Packets : ~Lost(n)
    <3>1. \A n \in Packets : n \in Nat /\ n >= 1
      BY LengthAssumption DEF Packets
    <3> QED BY <3>1 DEF Init, Lost
  <2> QED BY <2>1 DEF LossOK
<1> QED BY <1>2, <1>3, <1>4 DEF CloseInv

LEMMA StepClose == IInv /\ CloseInv /\ [Next]_vars => CloseInv'
<1>1. IInv /\ [Next]_vars => IInv'
  BY StepInvariant
<1> QED BY <1>1, ArraysStep, EndsStep, RingsStep, LossStep DEF CloseInv

\* Whatever the lengths: a close that completes frees every packet but at most
\* one, if the fill queue can take the empty places of the arrays with the packets.
THEOREM CloseCorrect == Spec => []CloseFreesPackets
<1>1. IInv /\ CloseInv => CloseFreesPackets
  <2> SUFFICES ASSUME IInv, CloseInv, mainPc = "closed", Roomy
               PROVE  Cardinality(Unfreed) <= 1
    BY DEF CloseFreesPackets, Roomy
  <2>1. /\ fill = <<>> /\ parse = <<>> /\ udpPacket = Null /\ packet = Null /\ Empty
        /\ parPc # "cleanup"
    BY DEF CloseInv, EndsOK, ArraysOK
  <2>2. ASSUME NEW n \in Packets PROVE Places(n) = CountIn(freed, n)
    <3>1. CountIn(fill, n) = 0 /\ CountIn(parse, n) = 0
      BY <2>1, CountNone
    <3>2. InHand(udpPacket, n) = 0 /\ InHand(packet, n) = 0
      BY <2>1, NullNowhere
    <3>3. InArrays(n) = 0
      <4>1. Cells(n) = {}
        BY <2>1, PacketNotNull DEF Cells, Empty
      <4> QED BY <4>1, CellsFinite, FS_EmptySet
    <3>4. CountIn(freed, n) \in Nat
      BY PlacesType DEF IInv
    <3> QED BY <3>1, <3>2, <3>3, <3>4 DEF Places
  <2>3. ASSUME NEW n \in Unfreed PROVE n \in Packets /\ Lost(n)
    <3>1. n \in Packets /\ n <= mallocCount
      BY LengthAssumption DEF IInv, TypeOK, Packets, Unfreed
    <3>2. Places(n) = 0
      BY <2>2, <3>1 DEF Unfreed
    <3> QED BY <3>1, <3>2 DEF Lost
  <2>4. \A m, n \in Unfreed : m = n
    BY <2>3 DEF CloseInv, LossOK
  <2>5. CASE Unfreed = {}
    BY <2>5, FS_EmptySet
  <2>6. CASE Unfreed # {}
    <3>1. PICK n : Unfreed = {n}
      BY <2>4, <2>6
    <3>2. Cardinality({n}) = 1
      BY FS_Singleton
    <3> QED BY <3>1, <3>2
  <2> QED BY <2>5, <2>6
<1> QED BY <1>1, Invariance, InitClose, StepClose, PTL DEF Spec
-------------------------------------------------------------------------------
(* Crashes *)

Crashes ==
    /\ udpPc = "crashed" => closing /\ cleanup > 0
    /\ parPc = "crashed" => closing /\ ~arrays

LEMMA CrashStep == IInv /\ Crashes /\ [Next]_vars => Crashes'
<1> SUFFICES ASSUME IInv, Crashes, [Next]_vars PROVE Crashes'
  OBVIOUS
<1> USE DEF mainVars, queueVars, udpVars, parVars, heldVars
<1>1. /\ closing => closing'
      /\ cleanup \in Nat /\ cleanup' \in {cleanup, cleanup + 1}
  <2>1. cleanup \in Nat
    BY LengthAssumption DEF IInv, TypeOK
  <2>2. cleanup' \in {cleanup, cleanup + 1}
    BY DEF Next, OpenClose, UdpRead, ParseLoop, PreallocPacket, PreallocEnd, StartUdp, StartParse,
           CloseCall, JoinUdp, JoinParse, FreeParse, FreeFill, UdpStart, UdpLoop, UdpExit, UdpGet,
           UdpAlloc, UdpRecv, UdpPut, ParLoop, ParGet, ParGot, ParHandle, ParEvict, ParOverflow,
           ParKeep, ParComplete, ParReturn, ParExit, ParCleanup, vars
  <2> QED BY <2>1, <2>2, ClosingStays
<1>2. udpPc' = "crashed" => closing' /\ cleanup' > 0
  <2>1. CASE udpPc = "crashed"
    BY <1>1, <2>1 DEF Crashes
  <2>2. CASE UdpRecv
    <3> SUFFICES ASSUME udpPc' = "crashed" PROVE closing' /\ cleanup' > 0
      OBVIOUS
    <3>1. udpPc = "recv" /\ udpPacket = Null
      BY <2>2 DEF UdpRecv, UdpGoto
    <3>2. closing /\ cleanup # 0
      BY <3>1 DEF IInv, HandsOK, PhaseOK, Clean
    <3> QED BY <1>1, <3>2
  <2>3. CASE ~UdpRecv /\ udpPc # "crashed"
    BY <2>3 DEF Next, OpenClose, UdpRead, ParseLoop, PreallocPacket, PreallocEnd, StartUdp,
                StartParse, CloseCall, JoinUdp, JoinParse, FreeParse, FreeFill, UdpStart, UdpLoop,
                UdpExit, UdpGet, UdpAlloc, UdpPut, UdpGoto, ParLoop, ParGet, ParGot, ParHandle,
                ParEvict, ParOverflow, ParKeep, ParComplete, ParReturn, ParExit, ParCleanup, vars
  <2> QED BY <2>1, <2>2, <2>3
<1>3. parPc' = "crashed" => closing' /\ ~arrays'
  <2>1. CASE ParExit
    BY <1>1, <2>1 DEF ParExit, ParGoto, Crashes
  <2>2. CASE ParseLoop /\ ~ParExit
    BY <2>2 DEF ParseLoop, ParLoop, ParGet, ParGot, ParHandle, ParEvict, ParOverflow,
                ParKeep, ParComplete, ParReturn, ParCleanup, ParGoto
  <2>3. CASE ~ParseLoop
    <3>1. arrays' = arrays /\ (parPc' = "crashed" => parPc = "crashed")
      BY <2>3 DEF Next, OpenClose, UdpRead, PreallocPacket, PreallocEnd, StartUdp, StartParse,
                  CloseCall, JoinUdp, JoinParse, FreeParse, FreeFill, UdpStart, UdpLoop, UdpExit,
                  UdpGet, UdpAlloc, UdpRecv, UdpPut, vars
    <3> QED BY <1>1, <3>1 DEF Crashes
  <2> QED BY <2>1, <2>2, <2>3
<1> QED BY <1>2, <1>3 DEF Crashes

\* Neither thread uses a missing packet or missing arrays while the stream runs: the
\* udpRead thread only takes a NULL that the cleanup has put, and the parser only finds
\* no arrays when it cleans up without them.
THEOREM CrashesOnlyInClose == Spec => []Crashes
<1>1. Init => Crashes
  BY DEF Init, Crashes
<1> QED BY <1>1, CrashStep, Invariance, PTL DEF Spec
===============================================================================
