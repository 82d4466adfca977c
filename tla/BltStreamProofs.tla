--------------------------- MODULE BltStreamProofs ---------------------------
(***************************************************************************)
(* Theorems about BltStream for files of any length, a read-ahead queue of *)
(* any length and any number of calls: one thread at a time moves the      *)
(* position in the file, what is shown is what is dequeued, frames play in *)
(* order, and a stall ends only by the user.                               *)
(***************************************************************************)
EXTENDS BltStream, SequenceTheorems, TLAPS

Playing == {"create", "created", "play", "peek", "empty", "wait", "show", "stop", "join"}

\* While the stream thread may start a buffer thread there is none.
NoBuffer == stream \in {"loop", "turn", "direct", "create", "idle", "ended"} =>
                buffer = "none" /\ ~handle

\* A frame to be enqueued is one; playback has a direction.
WorkOK == /\ buffer = "put" => hand \in Indices
          /\ stream \in Playing => direction # 0

\* What the threads rely on at each place.
PlaceOK == NoBuffer /\ WorkOK /\ PeekedIsHead

-----------------------------------------------------------------------------
\* A frame between the one shown last and the position in the file.
Kept(f) == \/ f \in lost
           \/ \E i \in 1 .. Len(queue) : queue[i] = f
           \/ buffer = "put" /\ hand = f

\* Forwards, frames lie behind the one shown last and before the position, in order.
Forward ==
    /\ frameIndex < atFilePos
    /\ \A i \in 1 .. Len(queue) : frameIndex < queue[i] /\ queue[i] < atFilePos
    /\ \A i, j \in 1 .. Len(queue) : i < j => queue[i] < queue[j]
    /\ buffer = "put" => /\ frameIndex < hand /\ hand + 1 = atFilePos
                         /\ \A i \in 1 .. Len(queue) : queue[i] < hand
    /\ \A f \in Indices : frameIndex < f /\ f < atFilePos => Kept(f)

\* Backwards the position comes down; the frame shown last may be read again.
Backward ==
    /\ atFilePos <= frameIndex + 1
    /\ \A i \in 1 .. Len(queue) : queue[i] <= frameIndex /\ atFilePos <= queue[i]
    /\ \A i, j \in 1 .. Len(queue) : i < j => queue[j] < queue[i]
    /\ buffer = "put" => /\ hand <= frameIndex /\ hand = atFilePos
                         /\ \A i \in 1 .. Len(queue) : hand < queue[i]
    /\ \A f \in Indices : atFilePos <= f /\ f < frameIndex => Kept(f)

OrderOK == ~astray /\ stream # "ended" =>
    /\ direction > 0 => Forward
    /\ direction < 0 => Backward
    /\ direction = 0 => Positioned

IInv == TypeOK /\ PlaceOK /\ OrderOK

-----------------------------------------------------------------------------
(***************************************************************************)
(* The queue                                                               *)
(***************************************************************************)
LEMMA TailFacts ==
    ASSUME TypeOK, queue # <<>>
    PROVE  /\ Tail(queue) \in Seq(Indices) /\ Len(Tail(queue)) = Len(queue) - 1
           /\ Len(queue) \in Nat /\ Len(queue) > 0
           /\ Head(queue) = queue[1] /\ Head(queue) \in Indices
           /\ \A i \in 1 .. Len(queue) - 1 : Tail(queue)[i] = queue[i + 1]
  BY HeadTailProperties DEF TypeOK

LEMMA AppendFacts ==
    ASSUME TypeOK, hand \in Indices
    PROVE  /\ Append(queue, hand) \in Seq(Indices)
           /\ Len(Append(queue, hand)) = Len(queue) + 1 /\ Len(queue) \in Nat
           /\ \A i \in 1 .. Len(queue) : Append(queue, hand)[i] = queue[i]
           /\ Append(queue, hand)[Len(queue) + 1] = hand
           /\ queue # <<>> => Head(Append(queue, hand)) = Head(queue)
<1>1. queue \in Seq(Indices)
  BY DEF TypeOK
<1>2. /\ Append(queue, hand) \in Seq(Indices)
      /\ Len(Append(queue, hand)) = Len(queue) + 1 /\ Len(queue) \in Nat
      /\ \A i \in 1 .. Len(queue) : Append(queue, hand)[i] = queue[i]
      /\ Append(queue, hand)[Len(queue) + 1] = hand
  BY <1>1, AppendProperties
<1>3. queue # <<>> => Head(Append(queue, hand)) = Head(queue)
  <2> SUFFICES ASSUME queue # <<>> PROVE Head(Append(queue, hand)) = Head(queue)
    OBVIOUS
  <2>1. Len(queue) > 0 /\ Head(queue) = queue[1]
    BY TailFacts
  <2>2. Append(queue, hand) # <<>>
    BY <1>2, EmptySeq
  <2>3. Head(Append(queue, hand)) = Append(queue, hand)[1]
    BY <1>2, <2>2, HeadTailProperties
  <2> QED BY <1>2, <2>1, <2>3
<1> QED BY <1>2, <1>3

-----------------------------------------------------------------------------
(***************************************************************************)
(* Types and places                                                        *)
(***************************************************************************)
USE DEF playVars, fileVars, threadVars, streamVars, bufferVars, userVars

LEMMA PlaceInit == Init => TypeOK /\ PlaceOK
<1> SUFFICES ASSUME Init PROVE TypeOK /\ PlaceOK
  OBVIOUS
<1>1. queue \in Seq(Indices) /\ Len(queue) = 0
  BY DEF Init
<1>2. /\ handle \in BOOLEAN /\ abort \in BOOLEAN /\ endReached \in BOOLEAN
      /\ closing \in BOOLEAN /\ astray \in BOOLEAN /\ lost \subseteq Indices
  BY Zenon DEF Init
<1>3. TypeOK
  BY <1>1, <1>2, StreamAssumption DEF Init, TypeOK, Indices, Signs
<1> QED BY <1>3 DEF Init, PlaceOK, NoBuffer, WorkOK, PeekedIsHead, Playing

Sound == TypeOK /\ PlaceOK

LEMMA StreamPlaces == Sound /\ Stream => Sound'
<1> SUFFICES ASSUME TypeOK, PlaceOK, Stream PROVE TypeOK' /\ PlaceOK'
  BY DEF Sound
<1> USE DEF PlaceOK, NoBuffer, WorkOK, PeekedIsHead, Playing
<1>1. CASE Loop
  BY <1>1 DEF Loop, TypeOK
<1>2. CASE GoStraight
  BY <1>2 DEF GoStraight, TypeOK
<1>3. CASE TurnRound
  <2>1. frameIndex + 1 \in 0 .. FrameCount
    BY StreamAssumption, <1>3 DEF TurnRound, TypeOK, Indices
  <2>2. queue' \in Seq(Indices) /\ Len(queue') = 0
    BY <1>3 DEF TurnRound
  <2>3. astray' \in BOOLEAN /\ lost' \subseteq Indices
    BY <1>3, Zenon DEF TurnRound, PositionAfter
  <2>4. TypeOK'
    BY <1>3, <2>1, <2>2, <2>3, StreamAssumption DEF TurnRound, PositionAfter, TypeOK
  <2> QED BY <1>3, <2>4 DEF TurnRound
<1>4. CASE TurnRoundFails
  <2>1. queue' \in Seq(Indices) /\ Len(queue') = 0
    BY <1>4 DEF TurnRoundFails
  <2>2. TypeOK'
    BY <1>4, <2>1, StreamAssumption DEF TurnRoundFails, TypeOK
  <2> QED BY <1>4, <2>2 DEF TurnRoundFails
<1>5. CASE Direct
  <2>1. astray' \in BOOLEAN
    BY <1>5 DEF Direct, TypeOK
  <2>2. direction' \in Signs /\ direction' # 0
    BY <1>5 DEF Direct, Signs
  <2>3. TypeOK'
    BY <1>5, <2>1, <2>2 DEF Direct, TypeOK
  <2> QED BY <1>5, <2>2, <2>3 DEF Direct
<1>6. CASE CreateBuffer
  BY <1>6 DEF CreateBuffer, TypeOK
<1>7. CASE CreateBufferFails
  BY <1>7 DEF CreateBufferFails, TypeOK
<1>8. CASE BufferCreated
  BY <1>8 DEF BufferCreated, TypeOK
<1>9. CASE Play
  BY <1>9 DEF Play, TypeOK
<1>10. CASE Peek
  <2>1. Head(queue) \in Indices /\ queue # <<>>
    BY <1>10, TailFacts DEF Peek
  <2> QED BY <1>10, <2>1 DEF Peek, TypeOK
<1>11. CASE PeekTimesOut
  BY <1>11 DEF PeekTimesOut, TypeOK
<1>12. CASE Empty
  BY <1>12 DEF Empty, TypeOK, Signs
<1>13. CASE Wait
  BY <1>13 DEF Wait, TypeOK
<1>14. CASE Show
  <2>1. queue # <<>> /\ peeked = Head(queue)
    BY <1>14 DEF Show
  <2>2. Tail(queue) \in Seq(Indices) /\ Len(Tail(queue)) <= QueueLength /\ peeked \in Indices
    BY <2>1, TailFacts, StreamAssumption DEF TypeOK
  <2> QED BY <1>14, <2>2 DEF Show, TypeOK
<1>15. CASE Stop
  BY <1>15 DEF Stop, TypeOK
<1>16. CASE JoinBuffer
  BY <1>16 DEF JoinBuffer, TypeOK
<1>17. CASE EndIdle
  BY <1>17 DEF EndIdle, TypeOK
<1>18. CASE SeekSucceeds
  <2>1. seekTo + 1 \in 0 .. FrameCount /\ seekTo \in Indices /\ -1 \in -1 .. FrameCount
    BY <1>18, StreamAssumption DEF SeekSucceeds, ServesSeek, TypeOK, Indices
  <2>2. queue' \in Seq(Indices) /\ Len(queue') = 0
    BY <1>18 DEF SeekSucceeds
  <2>3. astray' \in BOOLEAN /\ lost' \subseteq Indices
    BY <1>18, Zenon DEF SeekSucceeds, PositionAfter
  <2>4. TypeOK'
    BY <1>18, <2>1, <2>2, <2>3, StreamAssumption DEF SeekSucceeds, PositionAfter, TypeOK
  <2> QED BY <1>18, <2>4 DEF SeekSucceeds, ServesSeek
<1>19. CASE SeekFails
  <2>1. FrameCount \in 0 .. FrameCount /\ -1 \in -1 .. FrameCount
    BY StreamAssumption
  <2>2. queue' \in Seq(Indices) /\ Len(queue') = 0
    BY <1>19 DEF SeekFails
  <2>3. TypeOK'
    BY <1>19, <2>1, <2>2, StreamAssumption DEF SeekFails, TypeOK
  <2> QED BY <1>19, <2>3 DEF SeekFails, ServesSeek
<1> QED BY <1>1, <1>2, <1>3, <1>4, <1>5, <1>6, <1>7, <1>8, <1>9, <1>10, <1>11, <1>12, <1>13,
           <1>14, <1>15, <1>16, <1>17, <1>18, <1>19 DEF Stream

LEMMA BufferPlaces == Sound /\ Buffer => Sound'
<1> SUFFICES ASSUME TypeOK, PlaceOK, Buffer PROVE TypeOK' /\ PlaceOK'
  BY DEF Sound
<1> USE DEF PlaceOK, NoBuffer, WorkOK, PeekedIsHead, Playing
<1>1. CASE BufferReadsForward
  <2>1. atFilePos \in Indices /\ atFilePos + 1 \in 0 .. FrameCount
    BY <1>1, StreamAssumption DEF BufferReadsForward, TypeOK, Indices
  <2>2. astray' \in BOOLEAN
    BY <1>1 DEF BufferReadsForward, Reads, TypeOK
  <2> QED BY <1>1, <2>1, <2>2 DEF BufferReadsForward, Reads, TypeOK
<1>2. CASE BufferReadsBackward
  <2>1. atFilePos - 1 \in Indices /\ atFilePos - 1 \in 0 .. FrameCount
    BY <1>2, StreamAssumption DEF BufferReadsBackward, TypeOK, Indices
  <2>2. astray' \in BOOLEAN
    BY <1>2 DEF BufferReadsBackward, Reads, TypeOK
  <2> QED BY <1>2, <2>1, <2>2 DEF BufferReadsBackward, Reads, TypeOK
<1>3. CASE BufferMeetsEnd
  BY <1>3 DEF BufferMeetsEnd, TypeOK
<1>4. CASE BufferEnds
  BY <1>4 DEF BufferEnds, TypeOK
<1>5. CASE BufferPuts
  <2>1. hand \in Indices
    BY <1>5 DEF BufferPuts
  <2> DEFINE q == Append(queue, hand)
  <2>2. q \in Seq(Indices) /\ Len(q) <= QueueLength
    BY <1>5, <2>1, AppendFacts, StreamAssumption DEF BufferPuts, TypeOK
  <2>3. queue # <<>> => q # <<>> /\ Head(q) = Head(queue)
    BY <2>1, AppendFacts, EmptySeq
  <2> HIDE DEF q
  <2>4. queue' = q
    BY <1>5 DEF BufferPuts, q
  <2>5. TypeOK'
    BY <1>5, <2>2, <2>4 DEF BufferPuts, TypeOK
  <2> QED BY <1>5, <2>3, <2>4, <2>5 DEF BufferPuts
<1>6. CASE BufferDrops
  BY <1>6 DEF BufferDrops, TypeOK
<1> QED BY <1>1, <1>2, <1>3, <1>4, <1>5, <1>6 DEF Buffer

LEMMA UserPlaces == Sound /\ User => Sound'
<1> SUFFICES ASSUME TypeOK, PlaceOK, User PROVE TypeOK' /\ PlaceOK'
  BY DEF Sound
<1> USE DEF PlaceOK, NoBuffer, WorkOK, PeekedIsHead, Playing
<1>1. ASSUME NEW value \in Signs, SetSpeed(value) PROVE TypeOK' /\ PlaceOK'
  BY <1>1, StreamAssumption DEF SetSpeed, Calls, TypeOK
<1>2. ASSUME NEW value \in Signs, Reverse(value) PROVE TypeOK' /\ PlaceOK'
  BY <1>2, StreamAssumption DEF Reverse, Calls, TypeOK, Signs
<1>3. ASSUME NEW index \in 0 .. FrameCount, Seek(index) PROVE TypeOK' /\ PlaceOK'
  BY <1>3, StreamAssumption DEF Seek, Calls, TypeOK, Signs
<1>4. ASSUME NEW value \in {-1, 1}, Increment(value) PROVE TypeOK' /\ PlaceOK'
  <2> DEFINE index == IF frameIndex + value < 0 THEN 0 ELSE frameIndex + value
  <2>1. index \in 0 .. FrameCount
    BY StreamAssumption DEF TypeOK, Indices
  <2>2. Seek(index)
    BY <1>4 DEF Increment
  <2> HIDE DEF index
  <2> QED BY <1>3, <2>1, <2>2
<1>5. CASE SeesNoBuffer
  BY <1>5 DEF SeesNoBuffer, TypeOK
<1>6. CASE Assign
  BY <1>6 DEF Assign, TypeOK
<1>7. CASE SeekReturns
  BY <1>7 DEF SeekReturns, TypeOK
<1>8. CASE JoinStream
  <2>1. queue' \in Seq(Indices) /\ Len(queue') = 0
    BY <1>8 DEF JoinStream
  <2> QED BY <1>8, <2>1, StreamAssumption DEF JoinStream, TypeOK
<1>9. CASE Close
  BY <1>9 DEF Close, TypeOK
<1> QED BY <1>1, <1>2, <1>3, <1>4, <1>5, <1>6, <1>7, <1>8, <1>9 DEF User, UserGoesOn

LEMMA PlaceStep == Sound /\ [Next]_vars => Sound'
<1> SUFFICES ASSUME Sound, [Next]_vars PROVE Sound'
  OBVIOUS
<1>1. CASE UNCHANGED vars
  BY <1>1 DEF Sound, TypeOK, PlaceOK, NoBuffer, WorkOK, PeekedIsHead, vars
<1> QED BY <1>1, StreamPlaces, BufferPlaces, UserPlaces DEF Next

-----------------------------------------------------------------------------
(***************************************************************************)
(* Order                                                                   *)
(***************************************************************************)
\* What a step leaves alone that touches none of the frames read.
LEMMA OrderKept ==
    ASSUME OrderOK, UNCHANGED <<frameIndex, atFilePos, lost, astray, queue, direction, hand>>,
           (buffer' = "put") = (buffer = "put"), stream # "ended" \/ stream' = "ended"
    PROVE  OrderOK'
  BY DEF OrderOK, Forward, Backward, Kept, Positioned

\* After a positioning nothing lies between the frame shown last and the position.
LEMMA OrderPositioned ==
    ASSUME TypeOK', Positioned', buffer' # "put"
    PROVE  OrderOK'
<1>1. frameIndex' \in Int /\ atFilePos' = frameIndex' + 1 /\ Len(queue') = 0
  BY DEF TypeOK, Positioned, Indices
<1> DEFINE shown == frameIndex'
           position == atFilePos'
           length == Len(queue')
<1> HIDE DEF shown, position, length
<1>2. shown \in Int /\ position = shown + 1 /\ length = 0
  BY <1>1 DEF shown, position, length
<1>3. \A i \in 1 .. Len(queue') : FALSE
  <2>1. \A i \in 1 .. length : FALSE
    BY <1>2
  <2> QED BY <2>1 DEF length
<1>4. /\ \A f \in Indices : ~(frameIndex' < f /\ f < atFilePos')
      /\ \A f \in Indices : ~(atFilePos' <= f /\ f < frameIndex')
  <2>1. \A f \in Int : ~(shown < f /\ f < position) /\ ~(position <= f /\ f < shown)
    BY <1>2
  <2> QED BY <2>1 DEF shown, position, Indices
<1>5. shown < position /\ position <= shown + 1
  BY <1>2
<1>6. Forward'
  <2>1. frameIndex' < atFilePos'
    BY <1>5 DEF shown, position
  <2> QED BY <1>3, <1>4, <2>1 DEF Forward
<1>7. Backward'
  <2>1. atFilePos' <= frameIndex' + 1
    BY <1>5 DEF shown, position
  <2> QED BY <1>3, <1>4, <2>1 DEF Backward
<1> QED BY <1>6, <1>7 DEF OrderOK

LEMMA OrderAstray == astray' => OrderOK'
  BY DEF OrderOK

LEMMA OrderEnded == stream' = "ended" => OrderOK'
  BY DEF OrderOK

LEMMA OrderInit == Init => OrderOK
<1> SUFFICES ASSUME Init PROVE OrderOK
  OBVIOUS
<1> QED BY DEF Init, OrderOK, Positioned

LEMMA OrderShow ==
    ASSUME Sound, OrderOK, Show
    PROVE  OrderOK'
<1> SUFFICES ASSUME ~astray PROVE OrderOK'
  BY OrderAstray DEF Show
<1>1. queue # <<>> /\ Head(queue) = peeked /\ direction # 0
  BY DEF Sound, PlaceOK, PeekedIsHead, WorkOK, Playing, Show
<1>2. /\ Len(queue) \in Nat /\ Len(queue) > 0 /\ Len(queue') = Len(queue) - 1
      /\ frameIndex' = queue[1] /\ frameIndex' \in Int /\ frameIndex \in Int
      /\ \A i \in 1 .. Len(queue) - 1 : queue'[i] = queue[i + 1]
      /\ \A i \in 1 .. Len(queue) : queue[i] \in Int
  <2>1. queue \in Seq(Indices) /\ Indices \subseteq Int
    BY DEF Sound, TypeOK, Indices
  <2>2. \A i \in 1 .. Len(queue) : queue[i] \in Int
    BY <2>1, ElementOfSeq
  <2> QED BY <1>1, <2>1, <2>2, TailFacts DEF Sound, TypeOK, Show
<1>3. /\ atFilePos' = atFilePos /\ atFilePos \in Int /\ lost' = lost /\ direction' = direction
      /\ buffer' = buffer /\ hand' = hand /\ stream # "ended" /\ astray' = astray
      /\ hand \in Int
  BY DEF Show, Sound, TypeOK, Indices
<1>4. \A i \in 1 .. Len(queue') : i + 1 \in 1 .. Len(queue) /\ queue'[i] = queue[i + 1]
  BY <1>2
<1>5. ASSUME NEW f, f # queue[1], Kept(f) PROVE Kept(f)'
  <2>1. ASSUME NEW i \in 1 .. Len(queue), queue[i] = f
        PROVE  \E j \in 1 .. Len(queue') : queue'[j] = f
    <3>1. i - 1 \in 1 .. Len(queue')
      BY <1>2, <1>5, <2>1
    <3>2. queue'[i - 1] = f
      BY <1>2, <2>1, <3>1
    <3> QED BY <3>1, <3>2
  <2> QED BY <1>3, <1>5, <2>1 DEF Kept
<1>6. ASSUME direction > 0, Forward PROVE Forward'
  <2>1. frameIndex' < atFilePos'
    BY <1>2, <1>3, <1>6 DEF Forward
  <2>2. \A i \in 1 .. Len(queue') : frameIndex' < queue'[i] /\ queue'[i] < atFilePos'
    BY <1>2, <1>3, <1>6 DEF Forward
  <2>3. \A i, j \in 1 .. Len(queue') : i < j => queue'[i] < queue'[j]
    <3> TAKE i, j \in 1 .. Len(queue')
    <3>1. i < j => i + 1 < j + 1
      BY <1>2
    <3> QED BY <1>6, <1>4, <3>1 DEF Forward
  <2>4. buffer' = "put" => /\ frameIndex' < hand' /\ hand' + 1 = atFilePos'
                           /\ \A i \in 1 .. Len(queue') : queue'[i] < hand'
    BY <1>2, <1>3, <1>6 DEF Forward
  <2>5. \A f \in Indices : frameIndex' < f /\ f < atFilePos' => Kept(f)'
    <3> TAKE f \in Indices
    <3> HAVE frameIndex' < f /\ f < atFilePos'
    <3>1. f \in Int
      BY DEF Indices
    <3>2. frameIndex < f /\ f # queue[1]
      BY <1>2, <1>6, <3>1 DEF Forward
    <3>3. Kept(f)
      BY <1>3, <1>6, <3>2 DEF Forward
    <3> QED BY <1>5, <3>2, <3>3
  <2> QED BY <2>1, <2>2, <2>3, <2>4, <2>5 DEF Forward
<1>7. ASSUME direction < 0, Backward PROVE Backward'
  <2>1. atFilePos' <= frameIndex' + 1
    BY <1>2, <1>3, <1>7 DEF Backward
  <2>2. \A i \in 1 .. Len(queue') : queue'[i] <= frameIndex' /\ atFilePos' <= queue'[i]
    <3> TAKE i \in 1 .. Len(queue')
    <3>1. 1 \in 1 .. Len(queue) /\ 1 < i + 1
      BY <1>2
    <3>2. queue[i + 1] < queue[1] /\ atFilePos <= queue[i + 1]
      BY <1>7, <1>4, <3>1 DEF Backward
    <3>3. queue[i + 1] \in Int /\ queue[1] \in Int
      BY <1>2, <1>4, <3>1
    <3> QED BY <1>2, <1>3, <1>4, <3>2, <3>3
  <2>3. \A i, j \in 1 .. Len(queue') : i < j => queue'[j] < queue'[i]
    <3> TAKE i, j \in 1 .. Len(queue')
    <3>1. i < j => i + 1 < j + 1
      BY <1>2
    <3> QED BY <1>7, <1>4, <3>1 DEF Backward
  <2>4. buffer' = "put" => /\ hand' <= frameIndex' /\ hand' = atFilePos'
                           /\ \A i \in 1 .. Len(queue') : hand' < queue'[i]
    BY <1>2, <1>3, <1>7 DEF Backward
  <2>5. \A f \in Indices : atFilePos' <= f /\ f < frameIndex' => Kept(f)'
    <3> TAKE f \in Indices
    <3> HAVE atFilePos' <= f /\ f < frameIndex'
    <3>1. f \in Int
      BY DEF Indices
    <3>2. f < frameIndex /\ f # queue[1]
      BY <1>2, <1>7, <3>1 DEF Backward
    <3>3. Kept(f)
      BY <1>3, <1>7, <3>2 DEF Backward
    <3> QED BY <1>5, <3>2, <3>3
  <2> QED BY <2>1, <2>2, <2>3, <2>4, <2>5 DEF Backward
<1>8. direction \in Int
  BY DEF Sound, TypeOK, Signs
<1> QED BY <1>1, <1>3, <1>6, <1>7, <1>8 DEF OrderOK

LEMMA OrderStream ==
    ASSUME Sound, Sound', OrderOK, Stream
    PROVE  OrderOK'
<1> USE DEF Sound
<1> USE DEF PlaceOK, NoBuffer
<1>1. CASE Loop
  BY <1>1, OrderKept DEF Loop
<1>2. CASE GoStraight
  BY <1>2, OrderKept DEF GoStraight
<1>3. CASE TurnRound
  BY <1>3, OrderPositioned DEF TurnRound, PositionAfter, Positioned
<1>4. CASE TurnRoundFails
  BY <1>4, OrderEnded DEF TurnRoundFails
<1>5. CASE Direct
  <2>1. CASE astray'
    BY <2>1, OrderAstray
  <2>2. CASE direction' = direction /\ astray' = astray
    BY <1>5, <2>2, OrderKept DEF Direct
  <2>3. CASE Positioned
    BY <1>5, <2>3, OrderPositioned DEF Direct, Positioned
  <2>4. astray' \/ (direction' = direction /\ astray' = astray) \/ Positioned
    BY <1>5 DEF Direct, TypeOK
  <2> QED BY <2>1, <2>2, <2>3, <2>4
<1>6. CASE CreateBuffer
  BY <1>6, OrderKept DEF CreateBuffer
<1>7. CASE CreateBufferFails
  BY <1>7, OrderEnded DEF CreateBufferFails
<1>8. CASE BufferCreated
  BY <1>8, OrderKept DEF BufferCreated
<1>9. CASE Play
  BY <1>9, OrderKept DEF Play
<1>10. CASE Peek
  BY <1>10, OrderKept DEF Peek
<1>11. CASE PeekTimesOut
  BY <1>11, OrderKept DEF PeekTimesOut
<1>12. CASE Empty
  BY <1>12, OrderKept DEF Empty
<1>13. CASE Wait
  BY <1>13, OrderKept DEF Wait
<1>14. CASE Show
  BY <1>14, OrderShow
<1>15. CASE Stop
  BY <1>15, OrderKept DEF Stop
<1>16. CASE JoinBuffer
  BY <1>16, OrderKept DEF JoinBuffer
<1>17. CASE EndIdle
  BY <1>17, OrderKept DEF EndIdle
<1>18. CASE SeekSucceeds
  BY <1>18, OrderPositioned DEF SeekSucceeds, ServesSeek, PositionAfter, Positioned
<1>19. CASE SeekFails
  BY <1>19, OrderAstray DEF SeekFails
<1> QED BY <1>1, <1>2, <1>3, <1>4, <1>5, <1>6, <1>7, <1>8, <1>9, <1>10, <1>11, <1>12, <1>13,
           <1>14, <1>15, <1>16, <1>17, <1>18, <1>19 DEF Stream

\* While there is a buffer thread playback has a direction.
LEMMA BufferPlays == Sound /\ buffer # "none" => direction # 0 /\ stream # "ended"
  BY DEF Sound, TypeOK, PlaceOK, NoBuffer, WorkOK, Playing

LEMMA IndexTypes ==
    ASSUME TypeOK
    PROVE  /\ frameIndex \in Int /\ atFilePos \in Int /\ hand \in Int
           /\ Len(queue) \in Nat /\ Indices \subseteq Int
           /\ \A i \in 1 .. Len(queue) : queue[i] \in Int
<1>1. /\ frameIndex \in Int /\ atFilePos \in Int /\ hand \in Int /\ Indices \subseteq Int
      /\ queue \in Seq(Indices)
  BY DEF TypeOK, Indices
<1>2. Len(queue) \in Nat /\ \A i \in 1 .. Len(queue) : queue[i] \in Indices
  BY <1>1, ElementOfSeq, LenProperties
<1> QED BY <1>1, <1>2

LEMMA OrderReadsForward ==
    ASSUME Sound, OrderOK, BufferReadsForward
    PROVE  OrderOK'
<1> SUFFICES ASSUME ~astray' PROVE OrderOK'
  BY OrderAstray
<1>1. ~astray /\ direction = speed /\ speed > 0 /\ buffer = "read" /\ stream # "ended"
  BY BufferPlays DEF BufferReadsForward, Reads
<1>2. direction \in Int /\ direction > 0
  BY <1>1 DEF Sound, TypeOK, Signs
<1>3. Forward
  BY <1>1, <1>2 DEF OrderOK
<1>4. /\ atFilePos' = atFilePos + 1 /\ hand' = atFilePos /\ buffer' = "put"
      /\ UNCHANGED <<frameIndex, queue, lost, direction>>
  BY DEF BufferReadsForward, Reads
<1>5. /\ frameIndex \in Int /\ atFilePos \in Int /\ Indices \subseteq Int
      /\ \A i \in 1 .. Len(queue) : queue[i] \in Int
  BY IndexTypes DEF Sound
<1>6. \A f \in Indices : frameIndex < f /\ f < atFilePos + 1 => Kept(f)'
  <2> TAKE f \in Indices
  <2> HAVE frameIndex < f /\ f < atFilePos + 1
  <2>1. CASE f = atFilePos
    BY <1>4, <2>1 DEF Kept
  <2>2. CASE f # atFilePos
    <3>1. Kept(f)
      BY <1>3, <1>5, <2>2 DEF Forward
    <3> QED BY <1>1, <1>4, <3>1 DEF Kept
  <2> QED BY <2>1, <2>2
<1>7. Forward'
  <2>1. /\ frameIndex < atFilePos + 1 /\ frameIndex < atFilePos
        /\ \A i \in 1 .. Len(queue) : /\ frameIndex < queue[i] /\ queue[i] < atFilePos + 1
                                      /\ queue[i] < atFilePos
        /\ \A i, j \in 1 .. Len(queue) : i < j => queue[i] < queue[j]
    BY <1>3, <1>5 DEF Forward
  <2> QED BY <1>4, <1>6, <2>1 DEF Forward
<1>8. direction' = direction
  BY <1>4
<1> QED BY <1>2, <1>7, <1>8 DEF OrderOK

LEMMA OrderReadsBackward ==
    ASSUME Sound, OrderOK, BufferReadsBackward
    PROVE  OrderOK'
<1> SUFFICES ASSUME ~astray' PROVE OrderOK'
  BY OrderAstray
<1>1. ~astray /\ direction = speed /\ speed < 0 /\ buffer = "read" /\ stream # "ended"
  BY BufferPlays DEF BufferReadsBackward, Reads
<1>2. direction \in Int /\ direction < 0
  BY <1>1 DEF Sound, TypeOK, Signs
<1>3. Backward
  BY <1>1, <1>2 DEF OrderOK
<1>4. /\ atFilePos' = atFilePos - 1 /\ hand' = atFilePos - 1 /\ buffer' = "put"
      /\ UNCHANGED <<frameIndex, queue, lost, direction>>
  BY DEF BufferReadsBackward, Reads
<1>5. /\ frameIndex \in Int /\ atFilePos \in Int /\ Indices \subseteq Int
      /\ \A i \in 1 .. Len(queue) : queue[i] \in Int
  BY IndexTypes DEF Sound
<1>6. \A f \in Indices : atFilePos - 1 <= f /\ f < frameIndex => Kept(f)'
  <2> TAKE f \in Indices
  <2> HAVE atFilePos - 1 <= f /\ f < frameIndex
  <2>1. CASE f = atFilePos - 1
    BY <1>4, <2>1 DEF Kept
  <2>2. CASE f # atFilePos - 1
    <3>1. f \in Int /\ atFilePos <= f
      BY <1>5, <2>2
    <3>2. Kept(f)
      BY <1>3, <3>1 DEF Backward
    <3> QED BY <1>1, <1>4, <3>2 DEF Kept
  <2> QED BY <2>1, <2>2
<1>7. Backward'
  <2>1. /\ atFilePos - 1 <= frameIndex + 1 /\ atFilePos - 1 <= frameIndex
        /\ \A i \in 1 .. Len(queue) : /\ queue[i] <= frameIndex /\ atFilePos - 1 <= queue[i]
                                      /\ atFilePos - 1 < queue[i]
        /\ \A i, j \in 1 .. Len(queue) : i < j => queue[j] < queue[i]
    BY <1>3, <1>5 DEF Backward
  <2> QED BY <1>4, <1>6, <2>1 DEF Backward
<1>8. direction' = direction
  BY <1>4
<1> QED BY <1>2, <1>7, <1>8 DEF OrderOK

LEMMA OrderPuts ==
    ASSUME Sound, OrderOK, BufferPuts
    PROVE  OrderOK'
<1> SUFFICES ASSUME ~astray PROVE OrderOK'
  BY OrderAstray DEF BufferPuts
<1>1. /\ buffer = "put" /\ buffer' = "read" /\ queue' = Append(queue, hand)
      /\ UNCHANGED <<frameIndex, atFilePos, lost, direction>>
  BY DEF BufferPuts
<1>2. hand \in Indices /\ direction # 0 /\ stream # "ended"
  BY <1>1, BufferPlays DEF Sound, PlaceOK, WorkOK
<1>3. /\ Len(queue') = Len(queue) + 1 /\ Len(queue) \in Nat
      /\ \A i \in 1 .. Len(queue) : queue'[i] = queue[i]
      /\ queue'[Len(queue) + 1] = hand
  BY <1>1, <1>2, AppendFacts DEF Sound
<1>4. \A i \in 1 .. Len(queue') : \/ i \in 1 .. Len(queue) /\ queue'[i] = queue[i]
                                  \/ i = Len(queue) + 1 /\ queue'[i] = hand
  BY <1>3
<1>5. ASSUME NEW f, Kept(f) PROVE Kept(f)'
  <2>1. CASE \E i \in 1 .. Len(queue) : queue[i] = f
    <3>1. PICK i \in 1 .. Len(queue) : queue[i] = f
      BY <2>1
    <3>2. i \in 1 .. Len(queue') /\ queue'[i] = f
      BY <1>3, <3>1
    <3> QED BY <3>2 DEF Kept
  <2>2. CASE hand = f
    <3>1. Len(queue) + 1 \in 1 .. Len(queue')
      BY <1>3
    <3> QED BY <1>3, <2>2, <3>1 DEF Kept
  <2> QED BY <1>1, <1>5, <2>1, <2>2 DEF Kept
<1>6. /\ frameIndex \in Int /\ atFilePos \in Int /\ hand \in Int
      /\ \A i \in 1 .. Len(queue) : queue[i] \in Int
  BY IndexTypes DEF Sound
<1>7. ASSUME Forward PROVE Forward'
  <2>1. /\ frameIndex < hand /\ hand < atFilePos
        /\ \A i \in 1 .. Len(queue) : queue[i] < hand
    BY <1>1, <1>6, <1>7 DEF Forward
  <2>2. \A i \in 1 .. Len(queue') : frameIndex < queue'[i] /\ queue'[i] < atFilePos
    BY <1>4, <1>7, <2>1 DEF Forward
  <2>3. ASSUME NEW i \in 1 .. Len(queue'), NEW j \in 1 .. Len(queue'), i < j
        PROVE  queue'[i] < queue'[j]
    <3>1. i \in 1 .. Len(queue) /\ queue'[i] = queue[i]
      BY <1>3, <2>3
    <3>2. CASE j \in 1 .. Len(queue) /\ queue'[j] = queue[j]
      BY <1>7, <2>3, <3>1, <3>2 DEF Forward
    <3>3. CASE queue'[j] = hand
      BY <2>1, <3>1, <3>3
    <3> QED BY <1>4, <3>2, <3>3
  <2> QED BY <1>1, <1>5, <1>7, <2>2, <2>3 DEF Forward
<1>8. ASSUME Backward PROVE Backward'
  <2>1. /\ hand <= frameIndex /\ atFilePos <= hand
        /\ \A i \in 1 .. Len(queue) : hand < queue[i]
    BY <1>1, <1>6, <1>8 DEF Backward
  <2>2. \A i \in 1 .. Len(queue') : queue'[i] <= frameIndex /\ atFilePos <= queue'[i]
    BY <1>4, <1>8, <2>1 DEF Backward
  <2>3. ASSUME NEW i \in 1 .. Len(queue'), NEW j \in 1 .. Len(queue'), i < j
        PROVE  queue'[j] < queue'[i]
    <3>1. i \in 1 .. Len(queue) /\ queue'[i] = queue[i]
      BY <1>3, <2>3
    <3>2. CASE j \in 1 .. Len(queue) /\ queue'[j] = queue[j]
      BY <1>8, <2>3, <3>1, <3>2 DEF Backward
    <3>3. CASE queue'[j] = hand
      BY <2>1, <3>1, <3>3
    <3> QED BY <1>4, <3>2, <3>3
  <2> QED BY <1>1, <1>5, <1>8, <2>2, <2>3 DEF Backward
<1> QED BY <1>1, <1>2, <1>7, <1>8 DEF OrderOK

LEMMA OrderDrops ==
    ASSUME Sound, OrderOK, BufferDrops
    PROVE  OrderOK'
<1>1. /\ buffer = "put" /\ buffer' = "done" /\ lost' = lost \cup {hand}
      /\ UNCHANGED <<frameIndex, atFilePos, astray, queue, direction, stream>>
  BY DEF BufferDrops
<1>2. direction # 0 /\ stream # "ended"
  BY <1>1, BufferPlays
<1>3. ASSUME NEW f, Kept(f) PROVE Kept(f)'
  BY <1>1, <1>3 DEF Kept
<1>4. Forward => Forward'
  BY <1>1, <1>3 DEF Forward
<1>5. Backward => Backward'
  BY <1>1, <1>3 DEF Backward
<1> QED BY <1>1, <1>2, <1>4, <1>5 DEF OrderOK

LEMMA OrderBuffer ==
    ASSUME Sound, OrderOK, Buffer
    PROVE  OrderOK'
<1>1. CASE BufferReadsForward
  BY <1>1, OrderReadsForward
<1>2. CASE BufferReadsBackward
  BY <1>2, OrderReadsBackward
<1>3. CASE BufferMeetsEnd
  BY <1>3, OrderKept DEF BufferMeetsEnd
<1>4. CASE BufferEnds
  BY <1>4, OrderKept DEF BufferEnds
<1>5. CASE BufferPuts
  BY <1>5, OrderPuts
<1>6. CASE BufferDrops
  BY <1>6, OrderDrops
<1> QED BY <1>1, <1>2, <1>3, <1>4, <1>5, <1>6 DEF Buffer

LEMMA OrderUser ==
    ASSUME OrderOK, User
    PROVE  OrderOK'
<1>1. ASSUME NEW value, SetSpeed(value) PROVE OrderOK'
  BY <1>1, OrderKept DEF SetSpeed
<1>2. ASSUME NEW value, Reverse(value) PROVE OrderOK'
  BY <1>2, OrderKept DEF Reverse
<1>3. ASSUME NEW index, Seek(index) PROVE OrderOK'
  BY <1>3, OrderKept DEF Seek
<1>4. ASSUME NEW value, Increment(value) PROVE OrderOK'
  BY <1>3, <1>4 DEF Increment
<1>5. CASE SeesNoBuffer
  BY <1>5, OrderKept DEF SeesNoBuffer
<1>6. CASE Assign
  BY <1>6, OrderKept DEF Assign
<1>7. CASE SeekReturns
  BY <1>7, OrderKept DEF SeekReturns
<1>8. CASE JoinStream
  BY <1>8, OrderEnded DEF JoinStream
<1>9. CASE Close
  BY <1>9, OrderKept DEF Close
<1> QED BY <1>1, <1>2, <1>3, <1>4, <1>5, <1>6, <1>7, <1>8, <1>9 DEF User, UserGoesOn

-----------------------------------------------------------------------------
(***************************************************************************)
(* The theorems                                                            *)
(***************************************************************************)
LEMMA IInvInit == Init => IInv
  BY PlaceInit, OrderInit DEF IInv

LEMMA IInvStep == IInv /\ [Next]_vars => IInv'
<1> SUFFICES ASSUME IInv, [Next]_vars PROVE IInv'
  OBVIOUS
<1>1. Sound /\ OrderOK /\ Sound'
  BY PlaceStep DEF IInv, Sound
<1>2. CASE UNCHANGED vars
  <2>1. OrderOK'
    BY <1>1, <1>2, OrderKept DEF vars
  <2> QED BY <1>1, <2>1 DEF IInv, Sound
<1>3. OrderOK' \/ UNCHANGED vars
  BY <1>1, OrderStream, OrderBuffer, OrderUser DEF Next
<1> QED BY <1>1, <1>2, <1>3 DEF IInv, Sound

LEMMA Invariant == Spec => []IInv
  BY IInvInit, IInvStep, PTL DEF Spec

\* Every variable keeps its type; in particular the queue is never longer than it may
\* be and the position in the file never leaves it.
THEOREM TypeCorrect == Spec => []TypeOK
<1>1. IInv => TypeOK
  BY DEF IInv
<1> QED BY <1>1, Invariant, PTL

\* Whenever the stream thread may move the position in the file, or has ended so that
\* the file is closed, there is no buffer thread, and its handle tells so.
THEOREM OneReaderCorrect == Spec => []OneReader
<1>1. IInv => OneReader
  BY DEF IInv, PlaceOK, NoBuffer, OneReader
<1> QED BY <1>1, Invariant, PTL

\* The frame peeked at is the first of the queue until it is shown.
THEOREM PeekedIsHeadCorrect == Spec => []PeekedIsHead
<1>1. IInv => PeekedIsHead
  BY DEF IInv, PlaceOK
<1> QED BY <1>1, Invariant, PTL

\* Each frame shown in play is the neighbour of the one before, in the direction of
\* play, except for frames dropped at a pause.
THEOREM OrderCorrect == Spec => PlaysInOrder
<1> DEFINE InOrder ==
        Shows /\ ~astray =>
            \/ /\ direction > 0 /\ frameIndex < frameIndex'
               /\ (frameIndex + 1) .. (frameIndex' - 1) \subseteq lost
            \/ /\ direction < 0 /\ frameIndex' <= frameIndex
               /\ (frameIndex' + 1) .. (frameIndex - 1) \subseteq lost
<1>1. ASSUME IInv, [Next]_vars PROVE [InOrder]_vars
  <2> SUFFICES ASSUME Shows, ~astray, ~UNCHANGED vars PROVE InOrder
    OBVIOUS
  <2>1. Show
    <3>1. stream = "show" /\ stream' = "play"
      BY DEF Shows
    <3>2. ~User /\ ~Buffer
      BY <3>1 DEF User, Buffer, SetSpeed, Reverse, Seek, Increment, UserGoesOn, SeesNoBuffer,
                  Assign, SeekReturns, JoinStream, Close, BufferReadsForward,
                  BufferReadsBackward, Reads, BufferMeetsEnd, BufferEnds, BufferPuts,
                  BufferDrops
    <3> QED BY <1>1, <3>1, <3>2
         DEF Next, Stream, Loop, GoStraight, TurnRound, TurnRoundFails, Direct, CreateBuffer,
             CreateBufferFails, BufferCreated, Play, Peek, PeekTimesOut, Empty, Wait, Stop,
             JoinBuffer, EndIdle, SeekSucceeds, SeekFails, ServesSeek
  <2>2. /\ queue # <<>> /\ frameIndex' = queue[1] /\ 1 \in 1 .. Len(queue)
        /\ direction # 0 /\ direction \in Int /\ OrderOK /\ stream # "ended"
    BY <1>1, <2>1, TailFacts DEF IInv, PlaceOK, WorkOK, PeekedIsHead, Playing, Show, TypeOK, Signs
  <2>3. /\ frameIndex \in Int /\ atFilePos \in Int /\ hand \in Int
        /\ \A i \in 1 .. Len(queue) : queue[i] \in Int
    BY <1>1, IndexTypes DEF IInv
  <2>4. frameIndex \in Indices \cup {-1} /\ queue[1] \in Indices
    BY <1>1, <2>2, TailFacts DEF IInv, TypeOK
  <2>5. CASE direction > 0
    <3>1. Forward
      BY <2>2, <2>5 DEF OrderOK
    <3>2. ASSUME NEW f \in (frameIndex + 1) .. (queue[1] - 1) PROVE f \in lost
      <4>1. f \in Indices /\ frameIndex < f /\ f < queue[1] /\ queue[1] < atFilePos
        <5>1. f \in Int /\ frameIndex < f /\ f < queue[1]
          BY <2>2, <2>3
        <5>2. f \in Indices
          BY <2>3, <2>4, <5>1, StreamAssumption DEF Indices
        <5>3. queue[1] < atFilePos
          BY <2>2, <3>1 DEF Forward
        <5> QED BY <5>1, <5>2, <5>3
      <4>2. Kept(f)
        BY <2>2, <2>3, <3>1, <4>1 DEF Forward, Indices
      <4>3. \A i \in 1 .. Len(queue) : queue[i] # f
        BY <2>2, <2>3, <3>1, <4>1 DEF Forward, Indices
      <4>4. ~(buffer = "put" /\ hand = f)
        BY <2>2, <2>3, <3>1, <4>1 DEF Forward, Indices
      <4> QED BY <4>2, <4>3, <4>4 DEF Kept
    <3>3. frameIndex < queue[1]
      BY <2>2, <3>1 DEF Forward
    <3> QED BY <2>2, <2>5, <3>2, <3>3
  <2>6. CASE direction < 0
    <3>1. Backward
      BY <2>2, <2>6 DEF OrderOK
    <3>2. ASSUME NEW f \in (queue[1] + 1) .. (frameIndex - 1) PROVE f \in lost
      <4>1. f \in Indices /\ f < frameIndex /\ queue[1] < f /\ atFilePos <= queue[1]
        <5>1. f \in Int /\ f < frameIndex /\ queue[1] < f
          BY <2>2, <2>3
        <5>2. f \in Indices
          BY <2>3, <2>4, <5>1, StreamAssumption DEF Indices
        <5>3. atFilePos <= queue[1]
          BY <2>2, <3>1 DEF Backward
        <5> QED BY <5>1, <5>2, <5>3
      <4>2. Kept(f)
        BY <2>2, <2>3, <3>1, <4>1 DEF Backward, Indices
      <4>3. \A i \in 1 .. Len(queue) : queue[i] # f
        BY <2>2, <2>3, <3>1, <4>1 DEF Backward, Indices
      <4>4. ~(buffer = "put" /\ hand = f)
        BY <2>2, <2>3, <3>1, <4>1 DEF Backward, Indices
      <4> QED BY <4>2, <4>3, <4>4 DEF Kept
    <3>3. queue[1] <= frameIndex
      BY <2>2, <3>1 DEF Backward
    <3> QED BY <2>2, <2>6, <3>2, <3>3
  <2> QED BY <2>2, <2>5, <2>6
<1> QED BY <1>1, Invariant, PTL DEF Spec, PlaysInOrder

-----------------------------------------------------------------------------
(***************************************************************************)
(* A stall                                                                 *)
(***************************************************************************)
\* No end was reported while the buffer thread could still come to one.
NoEndYet == buffer \in {"read", "put", "paused"} \/ stream = "create" => ~endReached

\* Playback goes on without a buffer thread, and nobody wants it to stop.
StalledInPlay == Stalled /\ speed # 0 /\ ~closing

LEMMA NoEndInit == Init => NoEndYet
  BY DEF Init, NoEndYet

LEMMA NoEndStep == NoEndYet /\ IInv /\ [Next]_vars => NoEndYet'
<1> SUFFICES ASSUME NoEndYet, IInv, [Next]_vars PROVE NoEndYet'
  OBVIOUS
<1> USE DEF NoEndYet
<1>1. NoBuffer
  BY DEF IInv, PlaceOK
<1>2. CASE UNCHANGED vars
  BY <1>2 DEF vars
<1>3. CASE Stream
  BY <1>1, <1>3
     DEF NoBuffer, Stream, Loop, GoStraight, TurnRound, TurnRoundFails, Direct, CreateBuffer,
         CreateBufferFails, BufferCreated, Play, Peek, PeekTimesOut, Empty, Wait, Show, Stop,
         JoinBuffer, EndIdle, SeekSucceeds, SeekFails, ServesSeek
<1>4. CASE Buffer
  BY <1>1, <1>4
     DEF NoBuffer, Buffer, BufferReadsForward, BufferReadsBackward, Reads, BufferMeetsEnd,
         BufferEnds, BufferPuts, BufferDrops
<1>5. CASE User
  BY <1>5 DEF User, SetSpeed, Reverse, Seek, Increment, UserGoesOn, SeesNoBuffer, Assign,
              SeekReturns, JoinStream, Close
<1> QED BY <1>2, <1>3, <1>4, <1>5 DEF Next

LEMMA NoEnd == Spec => []NoEndYet
  BY NoEndInit, NoEndStep, Invariant, PTL DEF Spec

LEMMA StallStep ==
    NoEndYet /\ StalledInPlay /\ [Stream \/ Buffer]_vars
        => StalledInPlay' /\ speed' = speed /\ atFilePos' = atFilePos
<1> SUFFICES ASSUME NoEndYet, StalledInPlay, [Stream \/ Buffer]_vars
             PROVE  StalledInPlay' /\ speed' = speed /\ atFilePos' = atFilePos
  OBVIOUS
<1> USE DEF StalledInPlay, Stalled
<1>1. ~endReached
  BY DEF NoEndYet
<1>2. CASE UNCHANGED vars
  BY <1>2 DEF vars
<1>3. CASE Stream
  BY <1>1, <1>3
     DEF Stream, Loop, GoStraight, TurnRound, TurnRoundFails, Direct, CreateBuffer,
         CreateBufferFails, BufferCreated, Play, Peek, PeekTimesOut, Empty, Wait, Show, Stop,
         JoinBuffer, EndIdle, SeekSucceeds, SeekFails, ServesSeek
<1>4. ~Buffer
  BY DEF Buffer, BufferReadsForward, BufferReadsBackward, Reads, BufferMeetsEnd, BufferEnds,
         BufferPuts, BufferDrops
<1> QED BY <1>2, <1>3, <1>4

\* When the user pauses and resumes before the stream thread looks, the buffer thread has
\* ended but is not started again: without another call of the user's, playback then
\* stays on for good, and nothing is read from the file any more.
THEOREM StallsForGood ==
    Spec => [](StalledInPlay /\ [][Stream \/ Buffer]_vars
                   => []StalledInPlay /\ [][UNCHANGED <<speed, atFilePos>>]_vars)
<1> DEFINE Rests == UNCHANGED <<speed, atFilePos>>
<1>1. NoEndYet /\ StalledInPlay /\ [Stream \/ Buffer]_vars => StalledInPlay' /\ [Rests]_vars
  BY StallStep
<1> HIDE DEF Rests
<1>2. Spec => [](StalledInPlay /\ [][Stream \/ Buffer]_vars
                     => []StalledInPlay /\ [][Rests]_vars)
  BY <1>1, NoEnd, PTL
<1> QED BY <1>2 DEF Rests

=============================================================================
