---------------------------- MODULE EthPacketPool ----------------------------
(***************************************************************************)
(* The packet buffers of an Ethernet data stream (sdk/bta_eth.c).          *)
(*                                                                         *)
(* BTAETHopen allocates some buffers into packetsToFillQueue; the udpRead  *)
(* thread takes one, receives a datagram into it and puts it into          *)
(* packetsToParseQueue; the parseFrames thread takes it from there and     *)
(* puts it back to be filled, except that the packets of an unfinished     *)
(* version 1 frame stay in one of the arrays framePacketsA, B, C.          *)
(* BTAETHclose stops both threads and frees what the two queues hold.      *)
(*                                                                         *)
(* The content of a packet is abstract: what the parser decides from it    *)
(* (reject it, which frame, which place, frame complete) is a choice.  The *)
(* two queues are the FIFOs BcbBuffer implements.                          *)
(***************************************************************************)
EXTENDS Integers, Sequences, FiniteSets

CONSTANTS QueueLen,      \* udpDataQueueLen, also the limit of allocations
          Prealloc,      \* udpDataQueueLenPrealloc
          FrameLen,      \* the initial framePacketsLen
          MaxFrameLen,   \* bound of framePacketsLen in the model
          Null

Packets   == 1 .. QueueLen
FrameSets == 0 .. 2                            \* framePacketsA, B and C
Slots     == 0 .. 3 * MaxFrameLen - 1          \* slot 3 * i + s is place i of set s
SetOf(k)  == k % 3

MainLabels == {"prealloc", "startUdp", "startParse", "running", "joinUdp",
               "joinParse", "freeParse", "freeFill", "closed"}
UdpLabels  == {"absent", "start", "top", "get", "alloc", "recv", "put", "done", "crashed"}
ParLabels  == {"absent", "top", "get", "got", "handle", "evict", "store", "overflow",
               "complete", "return", "cleanup", "done", "crashed"}

ASSUME LengthAssumption == /\ QueueLen \in Nat /\ Prealloc \in 0 .. QueueLen
                           /\ FrameLen \in Nat \ {0} /\ MaxFrameLen \in Nat
                           /\ FrameLen <= MaxFrameLen
ASSUME NullAssumption == Null \notin Int

VARIABLES
    mainPc,           \* the thread in BTAETHopen and BTAETHclose
    closing,          \* inst->closing
    mallocCount,      \* inst->udpDataQueueMallocCount; packet n is the n-th allocated
    fill,             \* inst->packetsToFillQueue
    parse,            \* inst->packetsToParseQueue
    udpPc, udpPacket, \* udpReadThread and the buffer it has in hand
    parPc, packet,    \* parseFramesThread and the packet it has in hand
    arrays,           \* framePacketsA, B and C are allocated
    framePacketsLen,
    framePackets,     \* what the three arrays hold
    frameSet,         \* the set of the current packet's frame
    cleanup,          \* slots the cleanup has put back so far
    freed             \* packets freed, in order

mainVars  == <<mainPc, closing>>
queueVars == <<fill, parse>>
udpVars   == <<udpPc, udpPacket>>
heldVars  == <<arrays, framePacketsLen, framePackets, frameSet, cleanup>>
parVars   == <<parPc, packet, heldVars>>
vars      == <<mainVars, mallocCount, queueVars, udpVars, parVars, freed>>

\* Both queues exist; no packet, no thread yet.
Init ==
    /\ mainPc = "prealloc" /\ closing = FALSE
    /\ mallocCount = 0
    /\ fill = <<>> /\ parse = <<>>
    /\ udpPc = "absent" /\ udpPacket = Null
    /\ parPc = "absent" /\ packet = Null
    /\ arrays = FALSE /\ framePacketsLen = FrameLen
    /\ framePackets = [k \in Slots |-> Null]
    /\ frameSet = 0 /\ cleanup = 0
    /\ freed = <<>>

-------------------------------------------------------------------------------
(* The queues: a put to a full queue fails, and its assert with it. *)

PutFill(x)  == Len(fill) < QueueLen /\ fill' = Append(fill, x)
PutParse(x) == Len(parse) < QueueLen /\ parse' = Append(parse, x)

\* BTAinitMemoryArea succeeded: the packet is counted.
Allocate == mallocCount < QueueLen /\ mallocCount' = mallocCount + 1

-------------------------------------------------------------------------------
(* BTAETHopen and BTAETHclose *)

PreallocPacket ==
    /\ mainPc = "prealloc" /\ mallocCount < Prealloc
    /\ Allocate /\ PutFill(mallocCount + 1)
    /\ UNCHANGED <<mainVars, parse, udpVars, parVars, freed>>

\* All allocated, or the memory is exhausted.
PreallocEnd ==
    /\ mainPc = "prealloc" /\ mainPc' = "startUdp"
    /\ UNCHANGED <<closing, mallocCount, queueVars, udpVars, parVars, freed>>

\* A thread that cannot be started makes the open call close.
StartUdp ==
    /\ mainPc = "startUdp"
    /\ \/ mainPc' = "startParse" /\ udpPc' = "start" /\ UNCHANGED closing
       \/ mainPc' = "joinUdp" /\ closing' = TRUE /\ UNCHANGED udpPc
    /\ UNCHANGED <<mallocCount, queueVars, udpPacket, parVars, freed>>

StartParse ==
    /\ mainPc = "startParse"
    /\ \/ mainPc' = "running" /\ parPc' = "top" /\ UNCHANGED closing
       \/ mainPc' = "joinUdp" /\ closing' = TRUE /\ UNCHANGED parPc
    /\ UNCHANGED <<mallocCount, queueVars, udpVars, packet, heldVars, freed>>

CloseCall ==
    /\ mainPc = "running" /\ mainPc' = "joinUdp"
    /\ closing' = TRUE
    /\ UNCHANGED <<mallocCount, queueVars, udpVars, parVars, freed>>

JoinUdp ==
    /\ mainPc = "joinUdp" /\ udpPc \in {"absent", "done"}
    /\ mainPc' = "joinParse"
    /\ UNCHANGED <<closing, mallocCount, queueVars, udpVars, parVars, freed>>

JoinParse ==
    /\ mainPc = "joinParse" /\ parPc \in {"absent", "done"}
    /\ mainPc' = "freeParse"
    /\ UNCHANGED <<closing, mallocCount, queueVars, udpVars, parVars, freed>>

\* BCBfree gets and frees until the queue is empty; a NULL is skipped by
\* BTAfreeMemoryArea.
FreeHead(queue) == freed' = IF Head(queue) = Null THEN freed ELSE Append(freed, Head(queue))

FreeParse ==
    /\ mainPc = "freeParse"
    /\ \/ /\ parse # <<>>
          /\ FreeHead(parse) /\ parse' = Tail(parse)
          /\ UNCHANGED mainPc
       \/ parse = <<>> /\ mainPc' = "freeFill" /\ UNCHANGED <<parse, freed>>
    /\ UNCHANGED <<closing, mallocCount, fill, udpVars, parVars>>

FreeFill ==
    /\ mainPc = "freeFill"
    /\ \/ /\ fill # <<>>
          /\ FreeHead(fill) /\ fill' = Tail(fill)
          /\ UNCHANGED mainPc
       \/ fill = <<>> /\ mainPc' = "closed" /\ UNCHANGED <<fill, freed>>
    /\ UNCHANGED <<closing, mallocCount, parse, udpVars, parVars>>

-------------------------------------------------------------------------------
(* udpReadRunFunction *)

UdpGoto(from, to) == udpPc = from /\ udpPc' = to

\* The thread ends at once when the data socket is invalid.
UdpStart ==
    /\ \/ UdpGoto("start", "top")
       \/ UdpGoto("start", "done")
    /\ UNCHANGED <<mainVars, mallocCount, queueVars, udpPacket, parVars, freed>>

\* (A loop condition that does not read closing.)
UdpLoopForever ==
    /\ UdpGoto("top", IF udpPacket = Null THEN "get" ELSE "recv")
    /\ UNCHANGED <<mainVars, mallocCount, queueVars, udpPacket, parVars, freed>>

\* The loop condition; a packet that nothing was received into stays in hand.
UdpLoop ==
    /\ ~closing
    /\ UdpGoto("top", IF udpPacket = Null THEN "get" ELSE "recv")
    /\ UNCHANGED <<mainVars, mallocCount, queueVars, udpPacket, parVars, freed>>

\* (An exit that forgets the packet in hand.)
UdpExitKeeps ==
    /\ closing /\ UdpGoto("top", "done")
    /\ udpPacket' = Null
    /\ UNCHANGED <<mainVars, mallocCount, queueVars, parVars, freed>>

UdpExit ==
    /\ closing /\ UdpGoto("top", "done")
    /\ freed' = IF udpPacket = Null THEN freed ELSE Append(freed, udpPacket)
    /\ udpPacket' = Null
    /\ UNCHANGED <<mainVars, mallocCount, queueVars, parVars>>

UdpGet ==
    /\ \/ /\ fill # <<>> /\ UdpGoto("get", "recv")
          /\ udpPacket' = Head(fill) /\ fill' = Tail(fill)
       \/ fill = <<>> /\ UdpGoto("get", "alloc") /\ UNCHANGED <<udpPacket, fill>>
    /\ UNCHANGED <<mainVars, mallocCount, parse, parVars, freed>>

\* (An allocation without its limit.)
UdpAllocUnbounded ==
    /\ \/ /\ UdpGoto("alloc", "recv") /\ mallocCount' = mallocCount + 1
          /\ udpPacket' = mallocCount + 1
       \/ UdpGoto("alloc", "top") /\ UNCHANGED <<mallocCount, udpPacket>>
    /\ UNCHANGED <<mainVars, queueVars, parVars, freed>>

\* One more buffer as long as the queues can take it; back to the loop when the
\* allocation fails or the limit is reached.
UdpAlloc ==
    /\ \/ UdpGoto("alloc", "recv") /\ Allocate /\ udpPacket' = mallocCount + 1
       \/ UdpGoto("alloc", "top") /\ UNCHANGED <<mallocCount, udpPacket>>
    /\ UNCHANGED <<mainVars, queueVars, parVars, freed>>

\* recvfrom returned a datagram, or a timeout or an error.  A NULL got from the
\* fill queue is dereferenced.
UdpRecv ==
    /\ \/ udpPacket # Null /\ UdpGoto("recv", "put")
       \/ udpPacket # Null /\ UdpGoto("recv", "top")
       \/ udpPacket = Null /\ UdpGoto("recv", "crashed")
    /\ UNCHANGED <<mainVars, mallocCount, queueVars, udpPacket, parVars, freed>>

UdpPut ==
    /\ UdpGoto("put", "top")
    /\ PutParse(udpPacket)
    /\ udpPacket' = Null
    /\ UNCHANGED <<mainVars, mallocCount, fill, parVars, freed>>
-------------------------------------------------------------------------------
(* parseFramesRunFunction *)

ParGoto(from, to) == parPc = from /\ parPc' = to

Occupied(sets) == {k \in Slots : SetOf(k) \in sets /\ framePackets[k] # Null}
Held == Occupied(FrameSets)

\* The loop condition, and the arrays when they are missing; the thread returns
\* when they cannot be allocated.
ParLoop ==
    /\ ~closing
    /\ \/ ParGoto("top", "get") /\ arrays' = TRUE
       \/ ~arrays /\ ParGoto("top", "done") /\ UNCHANGED arrays
    /\ UNCHANGED <<mainVars, mallocCount, queueVars, udpVars, packet,
                   framePacketsLen, framePackets, frameSet, cleanup, freed>>

\* (An inner loop that looks at the clock before it looks at the queue.)
ParGetClockFirst ==
    /\ \/ /\ ~closing /\ parse # <<>> /\ ParGoto("get", "got")
          /\ packet' = Head(parse) /\ parse' = Tail(parse)
       \/ ParGoto("get", "top") /\ UNCHANGED <<packet, parse>>
    /\ UNCHANGED <<mainVars, mallocCount, fill, udpVars, heldVars, freed>>

\* The inner loop: a packet, or none in time, or closing.
ParGet ==
    /\ \/ /\ ~closing /\ parse # <<>> /\ ParGoto("get", "got")
          /\ packet' = Head(parse) /\ parse' = Tail(parse)
       \/ (closing \/ parse = <<>>) /\ ParGoto("get", "top") /\ UNCHANGED <<packet, parse>>
    /\ UNCHANGED <<mainVars, mallocCount, fill, udpVars, heldVars, freed>>

\* closing is read again: if it was set meanwhile, the packet just got is
\* forgotten with the loop's local pointer.
ParGot ==
    /\ \/ ~closing /\ ParGoto("got", "handle") /\ UNCHANGED packet
       \/ closing /\ ParGoto("got", "top") /\ packet' = Null
    /\ UNCHANGED <<mainVars, mallocCount, queueVars, udpVars, heldVars, freed>>

\* The packet is rejected or copied (version 2); or it belongs to a version 1
\* frame not seen before, which takes over the set of another frame; or to one
\* that has a set.
ParHandle ==
    /\ \/ ParGoto("handle", "return") /\ UNCHANGED frameSet
       \/ (ParGoto("handle", "evict") \/ ParGoto("handle", "store")) /\ frameSet' \in FrameSets
    /\ UNCHANGED <<mainVars, mallocCount, queueVars, udpVars, packet, arrays,
                   framePacketsLen, framePackets, cleanup, freed>>

\* Put the first held packet of the given sets back to be filled; the loops go
\* from the first place up.
PutBackFirst(sets) ==
    \E k \in Occupied(sets) :
        /\ \A j \in Occupied(sets) : k <= j
        /\ PutFill(framePackets[k])
        /\ framePackets' = [framePackets EXCEPT ![k] = Null]

\* The packets of the frame that lost its set go back one by one.
ParEvict ==
    /\ \/ parPc = "evict" /\ PutBackFirst({frameSet}) /\ UNCHANGED parPc
       \/ /\ Occupied({frameSet}) = {} /\ ParGoto("evict", "store")
          /\ UNCHANGED <<fill, framePackets>>
    /\ UNCHANGED <<mainVars, mallocCount, parse, udpVars, packet, arrays,
                   framePacketsLen, frameSet, cleanup, freed>>

\* packetCounter >= framePacketsLen: everything goes back, the arrays are freed to
\* be allocated again at twice the length.
ParOverflow ==
    /\ \/ /\ ParGoto("store", "overflow") /\ 2 * framePacketsLen <= MaxFrameLen
          /\ UNCHANGED <<fill, framePackets, arrays, framePacketsLen>>
       \/ /\ parPc = "overflow" /\ PutBackFirst(FrameSets)
          /\ UNCHANGED <<parPc, arrays, framePacketsLen>>
       \/ /\ Held = {} /\ ParGoto("overflow", "return")
          /\ framePacketsLen' = 2 * framePacketsLen /\ arrays' = FALSE
          /\ UNCHANGED <<fill, framePackets>>
    /\ UNCHANGED <<mainVars, mallocCount, parse, udpVars, packet, frameSet, cleanup, freed>>

\* A place of the frame's set that exists.
Place(k) == k < 3 * framePacketsLen /\ SetOf(k) = frameSet

KeepIn(k) == packet' = Null /\ framePackets' = [framePackets EXCEPT ![k] = packet]

\* (A duplicate overwrites the old packet.)
ParKeepOverwrites ==
    /\ \/ ParGoto("store", "complete")
       \/ ParGoto("store", "top")
    /\ \E k \in Slots : Place(k) /\ KeepIn(k)
    /\ UNCHANGED <<mainVars, mallocCount, queueVars, udpVars, arrays,
                   framePacketsLen, frameSet, cleanup, freed>>

\* The packet stays in its place, and one received there before goes back; the
\* frame may be complete then.
ParKeep ==
    /\ \/ ParGoto("store", "complete")
       \/ ParGoto("store", "top")
    /\ \E k \in Slots :
         /\ Place(k) /\ KeepIn(k)
         /\ IF framePackets[k] = Null THEN UNCHANGED fill ELSE PutFill(framePackets[k])
    /\ UNCHANGED <<mainVars, mallocCount, parse, udpVars, arrays,
                   framePacketsLen, frameSet, cleanup, freed>>

\* The packets of a complete frame are copied and go back until the copy has the
\* announced length (at once if there is no memory for it).
ParComplete ==
    /\ \/ parPc = "complete" /\ PutBackFirst({frameSet}) /\ UNCHANGED parPc
       \/ ParGoto("complete", "top") /\ UNCHANGED <<fill, framePackets>>
    /\ UNCHANGED <<mainVars, mallocCount, parse, udpVars, packet, arrays,
                   framePacketsLen, frameSet, cleanup, freed>>

ParReturn ==
    /\ ParGoto("return", "top")
    /\ PutFill(packet) /\ packet' = Null
    /\ UNCHANGED <<mainVars, mallocCount, parse, udpVars, heldVars, freed>>

\* After the loop; the arrays are accessed whether or not they exist.
ParExit ==
    /\ closing
    /\ ParGoto("top", IF arrays THEN "cleanup" ELSE "crashed")
    /\ UNCHANGED <<mainVars, mallocCount, queueVars, udpVars, packet, heldVars, freed>>

\* Every place of the arrays is put into the fill queue, the empty ones as NULL
\* too, and a failing put is ignored; then the arrays are freed.
ParCleanup ==
    /\ \/ /\ parPc = "cleanup" /\ cleanup < 3 * framePacketsLen
          /\ \/ PutFill(framePackets[cleanup])
             \/ Len(fill) = QueueLen /\ UNCHANGED fill
          /\ cleanup' = cleanup + 1
          /\ UNCHANGED <<parPc, arrays, framePackets>>
       \/ /\ ParGoto("cleanup", "done") /\ cleanup = 3 * framePacketsLen
          /\ arrays' = FALSE /\ framePackets' = [k \in Slots |-> Null]
          /\ UNCHANGED <<fill, cleanup>>
    /\ UNCHANGED <<mainVars, mallocCount, parse, udpVars, packet,
                   framePacketsLen, frameSet, freed>>

-------------------------------------------------------------------------------
OpenClose == \/ PreallocPacket \/ PreallocEnd \/ StartUdp \/ StartParse \/ CloseCall
             \/ JoinUdp \/ JoinParse \/ FreeParse \/ FreeFill
UdpRead   == \/ UdpStart \/ UdpLoop \/ UdpExit \/ UdpGet \/ UdpAlloc \/ UdpRecv \/ UdpPut
ParseLoop == \/ ParLoop \/ ParGet \/ ParGot \/ ParHandle \/ ParEvict \/ ParOverflow
             \/ ParKeep \/ ParComplete \/ ParReturn \/ ParExit \/ ParCleanup

Next == OpenClose \/ UdpRead \/ ParseLoop

\* The threads run; every wait in them has a timeout, so each of their steps is
\* taken in time.  Nobody has to call close, the udpRead thread may be paused
\* (lpPauseCaptureThread) at its loop condition, and the loops of the parser that
\* end by the content of the packets end.
Fairness ==
    /\ WF_vars(OpenClose /\ ~CloseCall)
    /\ WF_vars(UdpRead /\ (closing \/ udpPc # "top"))
    /\ WF_vars(ParseLoop)

Spec == Init /\ [][Next]_vars
FairSpec == Spec /\ Fairness
-------------------------------------------------------------------------------
(* Properties *)

TypeOK ==
    /\ mainPc \in MainLabels /\ closing \in BOOLEAN
    /\ mallocCount \in 0 .. QueueLen
    /\ fill \in Seq(Packets \cup {Null}) /\ parse \in Seq(Packets)
    /\ udpPc \in UdpLabels /\ udpPacket \in Packets \cup {Null}
    /\ parPc \in ParLabels /\ packet \in Packets \cup {Null}
    /\ arrays \in BOOLEAN /\ framePacketsLen \in FrameLen .. MaxFrameLen
    /\ framePackets \in [Slots -> Packets \cup {Null}]
    /\ frameSet \in FrameSets /\ cleanup \in 0 .. 3 * MaxFrameLen
    /\ freed \in Seq(Packets)

\* "There are max as many packets around as the queue is long": while the stream
\* runs every put finds room, so that none of the asserts behind them can fail
\* (bta_eth.c:404, 1740, 1890 and the others of the parser).
Returning == parPc \in {"evict", "overflow", "complete"} /\ Held # {}
PutsFindRoom ==
    /\ mainPc = "prealloc" /\ mallocCount < Prealloc => Len(fill) < QueueLen
    /\ udpPc = "put" => Len(parse) < QueueLen
    /\ parPc \in {"store", "return"} \/ Returning => Len(fill) < QueueLen

\* Every packet is in at most one place, and as long as nobody closes in exactly
\* one: two threads never own a buffer together, none is freed twice or used
\* after it was freed, and none is lost while the stream runs.
CountIn(seq, n) == Cardinality({k \in DOMAIN seq : seq[k] = n})
InHand(x, n) == IF x = n THEN 1 ELSE 0
InArrays(n) == Cardinality({k \in Slots : framePackets[k] = n /\ ~(parPc = "cleanup" /\ k < cleanup)})
Places(n) == CountIn(fill, n) + CountIn(parse, n) + CountIn(freed, n)
             + InHand(udpPacket, n) + InHand(packet, n) + InArrays(n)
OneOwner ==
    /\ \A n \in 1 .. mallocCount : Places(n) <= 1 /\ (~closing => Places(n) = 1)
    /\ ~closing /\ udpPc \in {"recv", "put"} => udpPacket # Null

\* A close whose threads ended in their cleanup frees every packet but the one
\* the parser may have got in the moment of closing, provided the NULLs of the
\* empty places fit into the fill queue with them.
Unfreed == {n \in 1 .. mallocCount : CountIn(freed, n) = 0}
CloseFreesPackets ==
    mainPc = "closed" /\ mallocCount + 3 * framePacketsLen <= QueueLen => Cardinality(Unfreed) <= 1

\* Closing ends, unless the parser's cleanup found no arrays or its NULLs reached
\* the udpRead thread.
CloseCompletes == closing ~> (mainPc = "closed" \/ "crashed" \in {udpPc, parPc})

\* What was received is parsed: the oldest packet leaves the queue unless the
\* parser is gone.
ReceivedIsParsed ==
    \A n \in Packets : (parse # <<>> /\ Head(parse) = n) ~>
                          (parse = <<>> \/ Head(parse) # n \/ parPc \in {"absent", "done", "crashed"}
                           \/ udpPc = "crashed")
===============================================================================
