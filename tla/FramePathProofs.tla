--------------------------- MODULE FramePathProofs ---------------------------
(***************************************************************************)
(* Theorems about FramePath for queues of any length and any number of     *)
(* frames and grabs: nothing is used before it is allocated or after it    *)
(* was freed, each frame has one owner, a stop keeps the frames grabbed    *)
(* before it, the file has no holes but those the queue's overflow and     *)
(* late copies leave and no beginning of a record but before the whole of  *)
(* it or at the end, and the user gets frames in order and for good.       *)
(***************************************************************************)
EXTENDS FramePath, SequenceTheorems, TLAPS

InUse == device \notin {"none", "ended"}

Grabbing == grabber \notin {"none", "ended"}

All == IF mode = "DoNotQueue" THEN Objects \ {"frameQueue"} ELSE Objects

\* What is allocated and which threads run, by the place of the user's thread.
Lifetimes ==
    /\ main \notin {"begin", "freeRest", "closed"} => objects = All
    /\ main \in {"closing", "closeGrabber", "freeGrabber", "freeRest", "closed"} => closing
    /\ main \in {"begin", "opening"} => ~closing
    /\ InUse => main # "begin" /\ (closing => main = "closing")
    /\ Grabbing => /\ main \in {"open", "join", "closing", "closeGrabber"}
                   /\ main # "join" => enabled
                   /\ handle = "valid"
    /\ enabled => main \in {"create", "open", "closing", "closeGrabber"}
    /\ main = "create" => enabled

-----------------------------------------------------------------------------
Queued == ToSet(frameQueue)

\* The frames handed over and their places.
Owners ==
    /\ InHand \cup Queued \cup taken \cup freed = 1 .. last
    /\ InHand \cap Queued = {} /\ InHand \cap taken = {} /\ InHand \cap freed = {}
    /\ Queued \cap taken = {} /\ Queued \cap freed = {} /\ taken \cap freed = {}
    /\ IsInjective(frameQueue)
    /\ main = "closed" => Queued = {}

-----------------------------------------------------------------------------
Copies == ToSet(grabQueue)

\* The thread has looked at the queue for the last time, or may have.
LastLook == \/ grabber = "check"
            \/ grabber = "ended" /\ ~failed /\ ~enabled /\ handle # "none"

\* Where the frames of the present grab are.
GrabOK ==
    /\ grabbed \subseteq 1 .. last
    /\ device \in {"grab", "clone"} => last \notin grabbed
    /\ main \in {"join", "header"} => due = grabbed
    /\ ~enabled /\ main \notin {"join", "header"} => grabbed = {}
    /\ main \in {"open", "closing", "closeGrabber"} /\ enabled /\ handle # "none" /\ ~failed
          => Grabbing
    /\ main = "header" /\ handle # "none" => grabber = "ended"
    /\ ~failed \/ main \in {"enable", "create"} =>
          grabbed \subseteq Recorded \cup overflowed \cup Copies
                            \cup (IF grabber = "write" THEN {record} ELSE {})
    /\ LastLook => grabbed \cap Copies \subseteq unwatched

WorkOK == /\ grabber = "write" => record \in Frames
          /\ device \in {"grab", "clone", "callback", "enqueue"} => last \in Frames

-----------------------------------------------------------------------------
\* More copies may come in this grab.
Open == enabled \/ device = "clone"

\* A frame is in the device's hand and not yet copied; those before are dealt with.
Held == device \in {"grab", "clone"}
Done == IF Held THEN last - 1 ELSE last

\* Frame b comes next after a (0: none): what lies between is lost.  A copy queued
\* while grabbing was not enabled is the first of its grab, or the last.
Link(a, b, late, lost, open) ==
    a # 0 => /\ a < b
             /\ a \notin late => \A f \in a + 1 .. b - 1 : f \in lost
             /\ b \in late => ~open
Follows(a, b) == Link(a, b, strays, overflowed, Open)

InFile == {file[i].frame : i \in 1 .. Len(file)}

\* A failed write left a beginning at the end of the file.
Torn == file # <<>> /\ ~file[Len(file)].whole

\* The frame written last, the one before the queue, and the newest of the grab.
Written == IF file = <<>> THEN 0 ELSE file[Len(file)].frame
Prior   == IF grabber = "write" THEN record ELSE Written
Newest  == IF grabQueue = <<>> THEN Prior ELSE grabQueue[Len(grabQueue)]

\* The copies of a grab follow each other, and none is missing after the newest.
Linked ==
    /\ grabber = "write" /\ ~Torn => Follows(Written, record)
    /\ Torn => grabber = "write" /\ Written = record
    /\ grabQueue # <<>> => Follows(Prior, grabQueue[1])
    /\ \A i \in 1 .. Len(grabQueue) - 1 : Follows(grabQueue[i], grabQueue[i + 1])
    /\ Open /\ Newest \notin {0} \cup strays => Newest = Done

Past == /\ strays \cup Copies \cup InFile \subseteq 1 .. Done
        /\ grabber = "write" => record \in 1 .. Done

Alive == Grabbing \/ main \in {"enable", "create"}

\* The copies that will go to the file follow those that are there.
FileOK ==
    /\ FileHasNoHoles
    /\ Past
    /\ main \in {"clear", "enable", "create"} => file = <<>>
    /\ main = "enable" /\ grabQueue # <<>> =>
          Len(grabQueue) = 1 /\ grabQueue[1] \in strays /\ device # "clone"
    /\ Alive => Linked

IInv == TypeOK /\ WorkOK /\ Lifetimes /\ Owners /\ GrabOK /\ FileOK

-----------------------------------------------------------------------------
(***************************************************************************)
(* Sequences                                                               *)
(***************************************************************************)
LEMMA EmptyFacts ==
    ASSUME NEW S
    PROVE  <<>> \in Seq(S) /\ Len(<<>>) = 0 /\ ToSet(<<>>) = {} /\ IsInjective(<<>>)
<1>1. <<>> \in Seq(S) /\ Len(<<>>) = 0 /\ DOMAIN <<>> = {}
  BY EmptySeq
<1> QED BY <1>1 DEF ToSet, IsInjective

LEMMA AppendFacts ==
    ASSUME NEW S, NEW s \in Seq(S), NEW e \in S
    PROVE  /\ Append(s, e) \in Seq(S) /\ Len(Append(s, e)) = Len(s) + 1 /\ Len(s) \in Nat
           /\ ToSet(Append(s, e)) = ToSet(s) \cup {e}
           /\ IsInjective(s) /\ e \notin ToSet(s) => IsInjective(Append(s, e))
<1> DEFINE t == Append(s, e)
<1>1. /\ t \in Seq(S) /\ Len(t) = Len(s) + 1 /\ Len(s) \in Nat
      /\ \A i \in 1 .. Len(s) : t[i] = s[i]
      /\ t[Len(s) + 1] = e
      /\ DOMAIN s = 1 .. Len(s) /\ DOMAIN t = 1 .. Len(s) + 1
  BY AppendProperties, LenProperties
<1> HIDE DEF t
<1>2. \A i \in 1 .. Len(s) + 1 : i \in 1 .. Len(s) \/ i = Len(s) + 1
  BY <1>1
<1>3. 1 .. Len(s) \subseteq 1 .. Len(s) + 1 /\ Len(s) + 1 \in 1 .. Len(s) + 1
  BY <1>1
<1>4. ToSet(t) = ToSet(s) \cup {e}
  <2>1. ToSet(t) = {t[i] : i \in 1 .. Len(s) + 1} /\ ToSet(s) = {s[i] : i \in 1 .. Len(s)}
    BY <1>1 DEF ToSet
  <2> QED BY <1>1, <1>2, <1>3, <2>1
<1>5. IsInjective(s) /\ e \notin ToSet(s) => IsInjective(t)
  <2> SUFFICES ASSUME IsInjective(s), e \notin ToSet(s),
                      NEW a \in 1 .. Len(s) + 1, NEW b \in 1 .. Len(s) + 1, t[a] = t[b]
               PROVE  a = b
    BY <1>1 DEF IsInjective
  <2>1. \A i \in 1 .. Len(s) : s[i] # e
    BY <1>1 DEF ToSet
  <2>2. \A i, j \in 1 .. Len(s) : s[i] = s[j] => i = j
    BY <1>1 DEF IsInjective
  <2> QED BY <1>1, <1>2, <2>1, <2>2
<1> QED BY <1>1, <1>4, <1>5 DEF t

LEMMA TailFacts ==
    ASSUME NEW S, NEW s \in Seq(S), s # <<>>
    PROVE  /\ Tail(s) \in Seq(S) /\ Len(Tail(s)) = Len(s) - 1 /\ Len(s) \in Nat /\ Len(s) > 0
           /\ Head(s) \in S /\ ToSet(s) = {Head(s)} \cup ToSet(Tail(s))
           /\ IsInjective(s) => IsInjective(Tail(s)) /\ Head(s) \notin ToSet(Tail(s))
<1> DEFINE t == Tail(s)
<1>1. /\ t \in Seq(S) /\ Len(t) = Len(s) - 1 /\ Len(s) \in Nat /\ Len(s) > 0
      /\ Head(s) = s[1] /\ Head(s) \in S
      /\ \A i \in 1 .. Len(s) - 1 : t[i] = s[i + 1]
      /\ DOMAIN s = 1 .. Len(s) /\ DOMAIN t = 1 .. Len(s) - 1
  BY HeadTailProperties, LenProperties, EmptySeq
<1> HIDE DEF t
<1>2. \A i \in 1 .. Len(s) : i = 1 \/ (i - 1 \in 1 .. Len(s) - 1 /\ t[i - 1] = s[i])
  BY <1>1
<1>3. /\ 1 \in 1 .. Len(s)
      /\ \A i \in 1 .. Len(s) - 1 : i + 1 \in 1 .. Len(s) /\ i + 1 # 1
  BY <1>1
<1>4. ToSet(s) = {Head(s)} \cup ToSet(t)
  <2>1. ToSet(t) = {t[i] : i \in 1 .. Len(s) - 1} /\ ToSet(s) = {s[i] : i \in 1 .. Len(s)}
    BY <1>1 DEF ToSet
  <2>2. ToSet(s) \subseteq {Head(s)} \cup ToSet(t)
    BY <1>1, <1>2, <2>1
  <2>3. {Head(s)} \cup ToSet(t) \subseteq ToSet(s)
    BY <1>1, <1>3, <2>1
  <2> QED BY <2>2, <2>3
<1>5. IsInjective(s) => IsInjective(t) /\ Head(s) \notin ToSet(t)
  <2> SUFFICES ASSUME IsInjective(s) PROVE IsInjective(t) /\ Head(s) \notin ToSet(t)
    OBVIOUS
  <2>1. \A i, j \in 1 .. Len(s) : s[i] = s[j] => i = j
    BY <1>1 DEF IsInjective
  <2>2. \A i, j \in 1 .. Len(s) - 1 : t[i] = t[j] => i = j
    <3> TAKE i, j \in 1 .. Len(s) - 1
    <3>1. t[i] = t[j] => i + 1 = j + 1
      BY <1>1, <1>3, <2>1
    <3> QED BY <3>1
  <2>3. \A i \in 1 .. Len(s) - 1 : t[i] # s[1]
    BY <1>1, <1>3, <2>1
  <2> QED BY <1>1, <2>2, <2>3 DEF IsInjective, ToSet
<1> QED BY <1>1, <1>4, <1>5 DEF t

LEMMA ElementFacts ==
    ASSUME NEW S, NEW s \in Seq(S)
    PROVE  ToSet(s) \subseteq S
  BY LenProperties, ElementOfSeq DEF ToSet

-----------------------------------------------------------------------------
(***************************************************************************)
(* Types                                                                   *)
(***************************************************************************)
USE DEF deviceVars, frameVars, startVars, threadVars, history, grabVars, threadKeeps, userKeeps

Typed == TypeOK /\ WorkOK

LEMMA TypeInit == Init => Typed
<1> SUFFICES ASSUME Init PROVE TypeOK /\ WorkOK
  BY DEF Typed
<1>1. /\ closing \in BOOLEAN /\ enabled \in BOOLEAN /\ failed \in BOOLEAN
      /\ objects \subseteq Objects /\ taken \subseteq Frames /\ freed \subseteq Frames
      /\ grabbed \subseteq Frames /\ overflowed \subseteq Frames /\ unwatched \subseteq Frames
      /\ strays \subseteq Frames /\ due \subseteq Frames
  BY Zenon DEF Init
<1>2. /\ frameQueue \in Seq(Frames) /\ Len(frameQueue) = 0
      /\ grabQueue \in Seq(Frames) /\ Len(grabQueue) = 0 /\ file \in Seq(Entries)
  BY EmptyFacts DEF Init
<1>3. last \in 0 .. MaxFrames /\ record \in 0 .. MaxFrames /\ grabs \in 0 .. MaxGrabs
  BY FramePathAssumption DEF Init
<1>4. TypeOK
  BY <1>1, <1>2, <1>3, FramePathAssumption DEF Init, TypeOK
<1> QED BY <1>4 DEF Init, WorkOK

LEMMA TypeDevice ==
    ASSUME Typed, Device
    PROVE  Typed'
<1> SUFFICES TypeOK' /\ WorkOK'
  BY DEF Typed
<1> USE DEF Typed
<1>1. CASE HandOver
  <2>1. last' \in 0 .. MaxFrames /\ last' \in Frames
    BY <1>1, FramePathAssumption DEF HandOver, TypeOK, Frames
  <2> QED BY <1>1, <2>1 DEF HandOver, TypeOK, WorkOK
<1>2. CASE GrabLooks
  BY <1>2 DEF GrabLooks, TypeOK, WorkOK
<1>3. CASE GrabEnqueues
  <2>1. last \in Frames
    BY <1>3 DEF GrabEnqueues, WorkOK
  <2>2. grabQueue' \in Seq(Frames) /\ Len(grabQueue') <= GrabbingQueueLength
        /\ overflowed' \subseteq Frames
    <3>1. CASE Len(grabQueue) < GrabbingQueueLength
      <4>1. grabQueue' = Append(grabQueue, last) /\ overflowed' = overflowed
        BY <1>3, <3>1 DEF GrabEnqueues
      <4>2. /\ grabQueue \in Seq(Frames) /\ overflowed \subseteq Frames
        BY DEF TypeOK
      <4>3. /\ Append(grabQueue, last) \in Seq(Frames) /\ Len(grabQueue) \in Nat
            /\ Len(Append(grabQueue, last)) = Len(grabQueue) + 1
        BY <2>1, <4>2, AppendFacts
      <4>4. Len(Append(grabQueue, last)) <= GrabbingQueueLength
        BY <3>1, <4>3, FramePathAssumption
      <4> QED BY <4>1, <4>2, <4>3, <4>4
    <3>2. CASE ~(Len(grabQueue) < GrabbingQueueLength)
      <4>1. grabQueue # <<>>
        BY <3>2, EmptyFacts, FramePathAssumption
      <4>2. Head(grabQueue) \in Frames /\ Tail(grabQueue) \in Seq(Frames)
            /\ Len(Tail(grabQueue)) = Len(grabQueue) - 1 /\ Len(grabQueue) \in Nat
        BY <4>1, TailFacts DEF TypeOK
      <4>3. /\ grabQueue' = Append(Tail(grabQueue), last)
            /\ overflowed' = overflowed \cup {Head(grabQueue)}
        BY <1>3, <3>2 DEF GrabEnqueues
      <4>4. grabQueue' \in Seq(Frames) /\ Len(grabQueue') = Len(grabQueue)
        BY <2>1, <4>2, <4>3, AppendFacts
      <4> QED BY <4>2, <4>3, <4>4 DEF TypeOK
    <3> QED BY <3>1, <3>2
  <2>3. grabbed' \subseteq Frames /\ unwatched' \subseteq Frames /\ strays' \subseteq Frames
    BY <1>3, <2>1 DEF GrabEnqueues, TypeOK
  <2> QED BY <1>3, <2>2, <2>3 DEF GrabEnqueues, TypeOK, WorkOK
<1>4. CASE CallBack
  <2>1. taken' \subseteq Frames
    BY <1>4 DEF CallBack, TypeOK, WorkOK
  <2> QED BY <1>4, <2>1 DEF CallBack, TypeOK, WorkOK
<1>5. CASE Enqueue
  <2>1. last \in Frames
    BY <1>5 DEF Enqueue, WorkOK
  <2>2. frameQueue' \in Seq(Frames) /\ Len(frameQueue') <= FrameQueueLength
        /\ freed' \subseteq Frames
    <3>1. CASE UNCHANGED frameQueue /\ freed' = freed \cup {last}
      BY <2>1, <3>1 DEF TypeOK
    <3>2. CASE Len(frameQueue) < FrameQueueLength /\ frameQueue' = Append(frameQueue, last)
               /\ UNCHANGED freed
      BY <2>1, <3>2, AppendFacts, FramePathAssumption DEF TypeOK
    <3>3. CASE Len(frameQueue) = FrameQueueLength /\ freed' = freed \cup {Head(frameQueue)}
               /\ frameQueue' = Append(Tail(frameQueue), last)
      <4>1. frameQueue # <<>>
        BY <3>3, EmptyFacts, FramePathAssumption
      <4>2. Head(frameQueue) \in Frames /\ Tail(frameQueue) \in Seq(Frames)
            /\ Len(Tail(frameQueue)) = Len(frameQueue) - 1 /\ Len(frameQueue) \in Nat
        BY <4>1, TailFacts DEF TypeOK
      <4>3. frameQueue' \in Seq(Frames) /\ Len(frameQueue') = Len(frameQueue)
        BY <2>1, <3>3, <4>2, AppendFacts
      <4> QED BY <3>3, <4>2, <4>3 DEF TypeOK
    <3> QED BY <1>5, <3>1, <3>2, <3>3 DEF Enqueue
  <2> QED BY <1>5, <2>2 DEF Enqueue, TypeOK, WorkOK
<1>6. CASE DeviceEnds
  BY <1>6 DEF DeviceEnds, TypeOK, WorkOK
<1> QED BY <1>1, <1>2, <1>3, <1>4, <1>5, <1>6 DEF Device

LEMMA EntryFacts ==
    ASSUME NEW f \in Frames
    PROVE  /\ Whole(f) \in Entries /\ Whole(f).frame = f /\ Whole(f).whole
           /\ Beginning(f) \in Entries /\ Beginning(f).frame = f /\ ~Beginning(f).whole
           /\ \A e \in Entries : ~e.whole /\ e.frame = f => e = Beginning(f)
           /\ \A g : Whole(g) = Whole(f) => g = f
           /\ \A g : Whole(g) # Beginning(f)
  BY DEF Entries, Whole, Beginning

\* A failed write records no frame.
LEMMA FailedWriteFacts ==
    ASSUME Typed, FailedWrite, grabber = "write"
    PROVE  file' \in Seq(Entries) /\ Recorded' = Recorded
<1>1. file \in Seq(Entries) /\ record \in Frames
  BY DEF Typed, TypeOK, WorkOK
<1>2. CASE UNCHANGED file
  BY <1>1, <1>2 DEF Recorded
<1>3. CASE file' = Append(file, Beginning(record))
  <2>1. /\ file' \in Seq(Entries)
        /\ ToSet(file') = ToSet(file) \cup {Beginning(record)}
    BY <1>1, <1>3, EntryFacts, AppendFacts
  <2>2. \A f : Whole(f) # Beginning(record)
    BY <1>1, EntryFacts
  <2> QED BY <2>1, <2>2 DEF Recorded
<1> QED BY <1>2, <1>3 DEF FailedWrite

LEMMA TypeGrabber ==
    ASSUME Typed, Grabber
    PROVE  Typed'
<1> SUFFICES TypeOK' /\ WorkOK'
  BY DEF Typed
<1> USE DEF Typed
<1>1. CASE GrabberOpens
  <2>1. failed' \in BOOLEAN
    BY <1>1, Zenon DEF GrabberOpens, TypeOK
  <2> QED BY <1>1, <2>1 DEF GrabberOpens, TypeOK, WorkOK
<1>2. CASE GrabberTakes
  <2>1. Head(grabQueue) \in Frames /\ Tail(grabQueue) \in Seq(Frames)
        /\ Len(Tail(grabQueue)) <= GrabbingQueueLength
    BY <1>2, TailFacts, FramePathAssumption DEF GrabberTakes, TypeOK
  <2>2. record' \in Frames /\ record' \in 0 .. MaxFrames
    BY <1>2, <2>1, FramePathAssumption DEF GrabberTakes, Frames
  <2>3. TypeOK'
    BY <1>2, <2>1, <2>2 DEF GrabberTakes, TypeOK
  <2>4. WorkOK'
    BY <1>2, <2>2 DEF GrabberTakes, WorkOK
  <2> QED BY <2>3, <2>4
<1>3. CASE GrabberTimesOut
  BY <1>3 DEF GrabberTimesOut, TypeOK, WorkOK
<1>4. CASE GrabberChecks
  BY <1>4 DEF GrabberChecks, TypeOK, WorkOK
<1>5. CASE GrabberWrites
  <2>1. file' \in Seq(Entries)
    BY <1>5, EntryFacts, AppendFacts DEF GrabberWrites, TypeOK, WorkOK
  <2>2. record' \in 0 .. MaxFrames
    BY <1>5, FramePathAssumption DEF GrabberWrites
  <2> QED BY <1>5, <2>1, <2>2 DEF GrabberWrites, TypeOK, WorkOK
<1>6. CASE GrabberAborts
  <2>1. failed' \in BOOLEAN
    BY <1>6, Zenon DEF GrabberAborts, TypeOK
  <2>2. file' \in Seq(Entries)
    BY <1>6, FailedWriteFacts DEF GrabberAborts, WorkOK
  <2> QED BY <1>6, <2>1, <2>2 DEF GrabberAborts, TypeOK, WorkOK
<1>7. CASE GrabberRetries
  <2>1. file' \in Seq(Entries)
    BY <1>7, FailedWriteFacts DEF GrabberRetries, WorkOK
  <2> QED BY <1>7, <2>1 DEF GrabberRetries, TypeOK, WorkOK
<1>8. CASE GrabberCannotSerialise
  <2>1. Tail(grabQueue) \in Seq(Frames) /\ Len(Tail(grabQueue)) <= GrabbingQueueLength
    BY <1>8, TailFacts, FramePathAssumption DEF GrabberCannotSerialise, TypeOK
  <2>2. failed' \in BOOLEAN
    BY <1>8, Zenon DEF GrabberCannotSerialise
  <2> QED BY <1>8, <2>1, <2>2 DEF GrabberCannotSerialise, TypeOK, WorkOK
<1> QED BY <1>1, <1>2, <1>3, <1>4, <1>5, <1>6, <1>7, <1>8 DEF Grabber

LEMMA TypeUser ==
    ASSUME Typed, User
    PROVE  Typed'
<1> SUFFICES TypeOK' /\ WorkOK'
  BY DEF Typed
<1> USE DEF Typed
<1>1. CASE Allocate
  <2>1. objects' \subseteq Objects
    BY <1>1 DEF Allocate
  <2> QED BY <1>1, <2>1 DEF Allocate, TypeOK, WorkOK
<1>2. CASE StartDevice
  BY <1>2 DEF StartDevice, TypeOK, WorkOK
<1>3. CASE Opened
  BY <1>3 DEF Opened, TypeOK, WorkOK
<1>4. CASE Close
  <2>1. closing' \in BOOLEAN
    BY <1>4, Zenon DEF Close
  <2> QED BY <1>4, <2>1 DEF Close, TypeOK, WorkOK
<1>5. CASE GetFrame
  <2>1. Head(frameQueue) \in Frames /\ Tail(frameQueue) \in Seq(Frames)
        /\ Len(Tail(frameQueue)) <= FrameQueueLength
    BY <1>5, TailFacts, FramePathAssumption DEF GetFrame, TypeOK
  <2>2. taken' \subseteq Frames /\ frameQueue' = Tail(frameQueue)
    BY <1>5, <2>1 DEF GetFrame, TypeOK
  <2> QED BY <1>5, <2>1, <2>2 DEF GetFrame, TypeOK, WorkOK
<1>6. CASE FlushFrameQueue
  <2>1. frameQueue' \in Seq(Frames) /\ Len(frameQueue') = 0 /\ ToSet(frameQueue) \subseteq Frames
    BY <1>6, EmptyFacts, ElementFacts DEF FlushFrameQueue, TypeOK
  <2>2. freed' \subseteq Frames
    BY <1>6, <2>1 DEF FlushFrameQueue, TypeOK
  <2> QED BY <1>6, <2>1, <2>2, FramePathAssumption DEF FlushFrameQueue, TypeOK, WorkOK
<1>7. CASE CreateFile
  <2>1. file' \in Seq(Entries)
    BY <1>7, EmptyFacts DEF CreateFile
  <2>2. grabs' \in 0 .. MaxGrabs
    BY <1>7, FramePathAssumption DEF CreateFile, TypeOK
  <2> QED BY <1>7, <2>1, <2>2 DEF CreateFile, TypeOK, WorkOK
<1>8. CASE CreateFileFails
  <2>1. grabs' \in 0 .. MaxGrabs
    BY <1>8, FramePathAssumption DEF CreateFileFails, TypeOK
  <2> QED BY <1>8, <2>1 DEF CreateFileFails, TypeOK, WorkOK
<1>9. CASE StopGrabbing
  <2>1. enabled' \in BOOLEAN
    BY <1>9, Zenon DEF StopGrabbing, Disable
  <2> QED BY <1>9, <2>1 DEF StopGrabbing, Disable, TypeOK, WorkOK
<1>10. CASE ClearGrabQueue
  <2>1. grabQueue' \in Seq(Frames) /\ Len(grabQueue') = 0
    BY <1>10, EmptyFacts DEF ClearGrabQueue
  <2>2. /\ grabbed' \subseteq Frames /\ strays' \subseteq Frames /\ overflowed' \subseteq Frames
        /\ unwatched' \subseteq Frames /\ due' \subseteq Frames
    BY <1>10 DEF ClearGrabQueue, ForgetGrab
  <2> QED BY <1>10, <2>1, <2>2, FramePathAssumption DEF ClearGrabQueue, TypeOK, WorkOK
<1>11. CASE Enable
  <2>1. enabled' \in BOOLEAN
    BY <1>11, Zenon DEF Enable
  <2> QED BY <1>11, <2>1 DEF Enable, TypeOK, WorkOK
<1>12. CASE CreateThread
  <2>1. failed' \in BOOLEAN
    BY <1>12, Zenon DEF CreateThread
  <2> QED BY <1>12, <2>1 DEF CreateThread, TypeOK, WorkOK
<1>13. CASE CreateThreadFails
  BY <1>13 DEF CreateThreadFails, TypeOK, WorkOK
<1>14. CASE JoinGrabber
  BY <1>14 DEF JoinGrabber, TypeOK, WorkOK
<1>15. CASE FinishStop
  BY <1>15 DEF FinishStop, TypeOK, WorkOK
<1>16. CASE JoinDevice
  BY <1>16 DEF JoinDevice, TypeOK, WorkOK
<1>17. CASE CloseGrabber
  <2>1. enabled' \in BOOLEAN
    BY <1>17, Zenon DEF CloseGrabber, Disable, TypeOK
  <2> QED BY <1>17, <2>1 DEF CloseGrabber, Disable, TypeOK, WorkOK
<1>18. CASE FreeGrabber
  <2>1. grabQueue' \in Seq(Frames) /\ Len(grabQueue') = 0 /\ objects' \subseteq Objects
    BY <1>18, EmptyFacts DEF FreeGrabber, TypeOK
  <2> QED BY <1>18, <2>1, FramePathAssumption DEF FreeGrabber, TypeOK, WorkOK
<1>19. CASE FreeRest
  <2>1. frameQueue' \in Seq(Frames) /\ Len(frameQueue') = 0 /\ ToSet(frameQueue) \subseteq Frames
    BY <1>19, EmptyFacts, ElementFacts DEF FreeRest, TypeOK
  <2>2. freed' \subseteq Frames /\ objects' \subseteq Objects
    BY <1>19, <2>1 DEF FreeRest, TypeOK
  <2> QED BY <1>19, <2>1, <2>2, FramePathAssumption DEF FreeRest, TypeOK, WorkOK
<1> QED BY <1>1, <1>2, <1>3, <1>4, <1>5, <1>6, <1>7, <1>8, <1>9, <1>10, <1>11, <1>12, <1>13,
           <1>14, <1>15, <1>16, <1>17, <1>18, <1>19 DEF User, Returning

LEMMA TypeStep == Typed /\ [Next]_vars => Typed'
<1> SUFFICES ASSUME Typed, [Next]_vars PROVE Typed'
  OBVIOUS
<1>1. CASE UNCHANGED vars
  BY <1>1 DEF Typed, TypeOK, WorkOK, vars
<1> QED BY <1>1, TypeDevice, TypeGrabber, TypeUser DEF Next

-----------------------------------------------------------------------------
(***************************************************************************)
(* Lifetimes                                                               *)
(***************************************************************************)
LEMMA LifetimesInit == Init => Lifetimes
  BY DEF Init, Lifetimes, InUse, Grabbing

LEMMA LifetimesStep ==
    ASSUME TypeOK, Lifetimes, [Next]_vars
    PROVE  Lifetimes'
<1> USE DEF InUse, Grabbing, All
<1>1. CASE UNCHANGED vars
  BY <1>1 DEF Lifetimes, vars
<1>2. CASE Device
  <2>1. /\ UNCHANGED <<mode, main, objects, closing, enabled, handle, grabber>>
        /\ device \notin {"none", "ended"}
    BY <1>2 DEF Device, HandOver, GrabLooks, GrabEnqueues, CallBack, Enqueue, DeviceEnds
  <2> QED BY <2>1 DEF Lifetimes
<1>3. CASE Grabber
  <2>1. /\ UNCHANGED <<mode, main, objects, closing, enabled, handle, device>>
        /\ grabber \notin {"none", "ended"}
    BY <1>3 DEF Grabber, GrabberOpens, GrabberTakes, GrabberTimesOut, GrabberChecks,
                GrabberWrites, GrabberAborts, GrabberRetries, GrabberCannotSerialise
  <2> QED BY <2>1 DEF Lifetimes
<1>4. CASE User
  <2>1. CASE Allocate
    BY <2>1 DEF Lifetimes, Allocate
  <2>2. CASE StartDevice
    BY <2>2 DEF Lifetimes, StartDevice
  <2>3. CASE Opened
    BY <2>3 DEF Lifetimes, Opened
  <2>4. CASE Close
    BY <2>4 DEF Lifetimes, Close
  <2>5. CASE GetFrame
    BY <2>5 DEF Lifetimes, GetFrame
  <2>6. CASE FlushFrameQueue
    BY <2>6 DEF Lifetimes, FlushFrameQueue
  <2>7. CASE CreateFile
    BY <2>7 DEF Lifetimes, CreateFile
  <2>8. CASE CreateFileFails
    BY <2>8 DEF Lifetimes, CreateFileFails
  <2>9. CASE StopGrabbing
    BY <2>9 DEF Lifetimes, StopGrabbing, Disable
  <2>10. CASE ClearGrabQueue
    BY <2>10 DEF Lifetimes, ClearGrabQueue
  <2>11. CASE Enable
    BY <2>11 DEF Lifetimes, Enable
  <2>12. CASE CreateThread
    BY <2>12 DEF Lifetimes, CreateThread
  <2>13. CASE CreateThreadFails
    BY <2>13 DEF Lifetimes, CreateThreadFails
  <2>14. CASE JoinGrabber
    BY <2>14 DEF Lifetimes, JoinGrabber
  <2>15. CASE FinishStop
    BY <2>15 DEF Lifetimes, FinishStop
  <2>16. CASE JoinDevice
    BY <2>16 DEF Lifetimes, JoinDevice
  <2>17. CASE CloseGrabber
    BY <2>17 DEF Lifetimes, CloseGrabber, Disable
  <2>18. CASE FreeGrabber
    BY <2>18 DEF Lifetimes, FreeGrabber
  <2>19. CASE FreeRest
    BY <2>19 DEF Lifetimes, FreeRest
  <2> QED BY <1>4, <2>1, <2>2, <2>3, <2>4, <2>5, <2>6, <2>7, <2>8, <2>9, <2>10, <2>11, <2>12,
             <2>13, <2>14, <2>15, <2>16, <2>17, <2>18, <2>19 DEF User, Returning
<1> QED BY <1>1, <1>2, <1>3, <1>4 DEF Next

-----------------------------------------------------------------------------
(***************************************************************************)
(* Owners                                                                  *)
(***************************************************************************)
LEMMA OwnersInit == Init => Owners
<1> SUFFICES ASSUME Init PROVE Owners
  OBVIOUS
<1>1. Queued = {} /\ IsInjective(frameQueue)
  BY EmptyFacts DEF Init, Queued
<1>2. 1 .. last = {} /\ InHand = {}
  <2>1. last = 0 /\ device = "none"
    BY DEF Init
  <2>2. \A i \in 1 .. 0 : FALSE
    OBVIOUS
  <2> QED BY <2>1, <2>2 DEF InHand
<1> QED BY <1>1, <1>2 DEF Init, Owners

\* Steps that move no frame.
LEMMA OwnersKept ==
    ASSUME Owners, UNCHANGED <<last, frameQueue, taken, freed>>, InHand' = InHand,
           main' = "closed" => Queued = {}
    PROVE  Owners'
  BY DEF Owners, Queued

LEMMA OwnersDevice ==
    ASSUME Typed, Lifetimes, Owners, Device
    PROVE  Owners'
<1>1. frameQueue \in Seq(Frames) /\ last \in 0 .. MaxFrames /\ MaxFrames \in Nat
      /\ (device \in {"grab", "clone", "callback", "enqueue"} => last \in Frames)
  BY FramePathAssumption DEF Typed, TypeOK, WorkOK
<1>2. main # "closed" /\ main' = main
  BY DEF Device, HandOver, GrabLooks, GrabEnqueues, CallBack, Enqueue, DeviceEnds,
         Lifetimes, InUse
<1>3. CASE HandOver
  <2>1. last' = last + 1 /\ InHand' = {last + 1} /\ InHand = {}
        /\ UNCHANGED <<frameQueue, taken, freed>>
    BY <1>3 DEF HandOver, InHand
  <2>2. 1 .. last + 1 = (1 .. last) \cup {last + 1} /\ last + 1 \notin 1 .. last
    BY <1>1
  <2>3. Queued' = Queued /\ IsInjective(frameQueue)'
    BY <2>1 DEF Owners, Queued
  <2>4. last + 1 \notin Queued /\ last + 1 \notin taken /\ last + 1 \notin freed
    BY <2>2 DEF Owners
  <2> QED BY <1>2, <2>1, <2>2, <2>3, <2>4 DEF Owners
<1>4. CASE GrabLooks
  BY <1>2, <1>4, OwnersKept DEF GrabLooks, InHand
<1>5. CASE GrabEnqueues
  BY <1>2, <1>5, OwnersKept DEF GrabEnqueues, InHand
<1>6. CASE CallBack
  <2>1. CASE device' = "idle" /\ taken' = taken \cup {last}
    <3>1. InHand = {last} /\ InHand' = {} /\ UNCHANGED <<last, frameQueue, freed>>
      BY <1>6, <2>1 DEF CallBack, InHand
    <3>2. Queued' = Queued /\ IsInjective(frameQueue)'
      BY <3>1 DEF Owners, Queued
    <3> QED BY <1>2, <2>1, <3>1, <3>2 DEF Owners
  <2>2. CASE device' = "enqueue" /\ UNCHANGED taken
    BY <1>2, <1>6, <2>2, OwnersKept DEF CallBack, InHand
  <2> QED BY <1>6, <2>1, <2>2 DEF CallBack
<1>7. CASE Enqueue
  <2>1. InHand = {last} /\ InHand' = {} /\ UNCHANGED <<last, taken>> /\ last \in Frames
    BY <1>1, <1>7 DEF Enqueue, InHand
  <2>2. last \notin Queued /\ last \notin taken /\ last \notin freed
    BY <2>1 DEF Owners
  <2>3. CASE UNCHANGED frameQueue /\ freed' = freed \cup {last}
    <3>1. Queued' = Queued /\ IsInjective(frameQueue)'
      BY <2>3 DEF Owners, Queued
    <3> QED BY <1>2, <2>1, <2>2, <2>3, <3>1 DEF Owners
  <2>4. CASE frameQueue' = Append(frameQueue, last) /\ UNCHANGED freed
    <3>1. Queued' = Queued \cup {last} /\ IsInjective(frameQueue)'
      BY <1>1, <2>1, <2>2, <2>4, AppendFacts DEF Owners, Queued
    <3> QED BY <1>2, <2>1, <2>2, <2>4, <3>1 DEF Owners
  <2>5. CASE Len(frameQueue) = FrameQueueLength /\ freed' = freed \cup {Head(frameQueue)}
             /\ frameQueue' = Append(Tail(frameQueue), last)
    <3> DEFINE head == Head(frameQueue)
               tail == Tail(frameQueue)
    <3>1. frameQueue # <<>>
      BY <2>5, EmptyFacts, FramePathAssumption
    <3>2. tail \in Seq(Frames) /\ Queued = {head} \cup ToSet(tail)
          /\ IsInjective(tail) /\ head \notin ToSet(tail)
      BY <1>1, <3>1, TailFacts DEF Owners, Queued
    <3> HIDE DEF head, tail
    <3>3. last \notin ToSet(tail)
      BY <2>2, <3>2
    <3>4. Queued' = ToSet(tail) \cup {last} /\ IsInjective(frameQueue)'
      <4>1. frameQueue' = Append(tail, last)
        BY <2>5 DEF tail
      <4> QED BY <2>1, <3>2, <3>3, <4>1, AppendFacts DEF Queued
    <3>5. freed' = freed \cup {head}
      BY <2>5 DEF head
    <3> QED BY <1>2, <2>1, <2>2, <3>2, <3>3, <3>4, <3>5 DEF Owners
  <2> QED BY <1>7, <2>3, <2>4, <2>5 DEF Enqueue
<1>8. CASE DeviceEnds
  BY <1>2, <1>8, OwnersKept DEF DeviceEnds, InHand
<1> QED BY <1>3, <1>4, <1>5, <1>6, <1>7, <1>8 DEF Device

LEMMA OwnersUser ==
    ASSUME Typed, Lifetimes, Owners, User
    PROVE  Owners'
<1>1. frameQueue \in Seq(Frames)
  BY DEF Typed, TypeOK
<1>2. CASE GetFrame
  <2> DEFINE head == Head(frameQueue)
             tail == Tail(frameQueue)
  <2>1. Queued = {head} \cup ToSet(tail) /\ IsInjective(tail) /\ head \notin ToSet(tail)
    BY <1>1, <1>2, TailFacts DEF GetFrame, Owners, Queued
  <2>2. /\ taken' = taken \cup {head} /\ frameQueue' = tail
        /\ UNCHANGED <<main, device, last, freed>>
    BY <1>2 DEF GetFrame
  <2> HIDE DEF head, tail
  <2>3. Queued' = ToSet(tail) /\ IsInjective(frameQueue)' /\ InHand' = InHand /\ main # "closed"
    BY <1>2, <2>1, <2>2 DEF Queued, InHand, GetFrame
  <2> QED BY <2>1, <2>2, <2>3 DEF Owners
<1>3. CASE FlushFrameQueue \/ FreeRest
  <2>1. /\ freed' = freed \cup Queued /\ frameQueue' = <<>>
        /\ UNCHANGED <<device, last, taken>>
    BY <1>3 DEF FlushFrameQueue, FreeRest, Queued
  <2>2. Queued' = {} /\ IsInjective(frameQueue)' /\ InHand' = InHand
    BY <2>1, EmptyFacts DEF Queued, InHand
  <2> QED BY <2>1, <2>2 DEF Owners
<1>4. CASE StartDevice
  BY <1>4, OwnersKept DEF StartDevice, InHand, Owners
<1>5. CASE ~(GetFrame \/ FlushFrameQueue \/ FreeRest \/ StartDevice)
  <2>1. UNCHANGED <<last, frameQueue, taken, freed, device>> /\ main' # "closed"
    BY <1>5 DEF User, Returning, Allocate, Opened, Close, CreateFile, CreateFileFails,
                StopGrabbing, Disable, ClearGrabQueue, Enable, CreateThread, CreateThreadFails,
                JoinGrabber, FinishStop, JoinDevice, CloseGrabber, FreeGrabber
  <2> QED BY <2>1, OwnersKept DEF InHand
<1> QED BY <1>2, <1>3, <1>4, <1>5

LEMMA OwnersStep ==
    ASSUME Typed, Lifetimes, Owners, [Next]_vars
    PROVE  Owners'
<1>1. CASE UNCHANGED vars
  BY <1>1, OwnersKept DEF vars, InHand, Owners
<1>2. CASE Grabber
  <2>1. UNCHANGED <<main, last, frameQueue, taken, freed, device>>
    BY <1>2 DEF Grabber, GrabberOpens, GrabberTakes, GrabberTimesOut, GrabberChecks,
                GrabberWrites, GrabberAborts, GrabberRetries, GrabberCannotSerialise
  <2> QED BY <2>1, OwnersKept DEF InHand, Owners
<1> QED BY <1>1, <1>2, OwnersDevice, OwnersUser DEF Next

-----------------------------------------------------------------------------
(***************************************************************************)
(* The frames of a grab                                                    *)
(***************************************************************************)
\* Steps that touch neither the frames of the grab nor who has them.
LEMMA GrabKept ==
    ASSUME GrabOK, UNCHANGED <<last, grabbed, due, failed, enabled, handle, grabber,
                               file, overflowed, grabQueue, unwatched, record>>,
           device' \in {"grab", "clone"} => device \in {"grab", "clone"},
           main' = main
    PROVE  GrabOK'
  BY DEF GrabOK, Grabbing, LastLook, Recorded, Copies

LEMMA GrabInit == Init => GrabOK
  BY DEF Init, GrabOK, LastLook

LEMMA GrabDevice ==
    ASSUME Typed, Lifetimes, GrabOK, Device
    PROVE  GrabOK'
<1>1. CASE HandOver
  <2>1. /\ last' = last + 1 /\ last \in Nat
        /\ UNCHANGED <<grabbed, due, failed, enabled, handle, grabber, main,
                       file, overflowed, grabQueue, unwatched, record>>
    BY <1>1 DEF HandOver, Typed, TypeOK
  <2>2. 1 .. last \subseteq 1 .. last + 1 /\ last + 1 \notin 1 .. last
    BY <2>1
  <2> QED BY <2>1, <2>2 DEF GrabOK, Grabbing, LastLook, Recorded, Copies
<1>2. CASE GrabEnqueues
  <2>1. last \in Frames /\ last \in 1 .. last /\ last \notin grabbed
    BY <1>2 DEF GrabEnqueues, Typed, WorkOK, GrabOK, Frames
  <2>2. /\ UNCHANGED <<last, due, failed, enabled, handle, grabber, main, file, record>>
        /\ device' = "callback"
        /\ grabbed' = IF enabled THEN grabbed \cup {last} ELSE grabbed
        /\ unwatched' = IF enabled /\ grabber = "check" THEN unwatched \cup {last} ELSE unwatched
    BY <1>2 DEF GrabEnqueues
  <2>3. PICK lost : /\ overflowed' = overflowed \cup lost
                    /\ Copies \cup {last} = Copies' \cup lost
    <3>1. grabQueue \in Seq(Frames)
      BY DEF Typed, TypeOK
    <3>2. CASE Len(grabQueue) < GrabbingQueueLength
      <4>1. grabQueue' = Append(grabQueue, last) /\ overflowed' = overflowed
        BY <1>2, <3>2 DEF GrabEnqueues
      <4>2. Copies' = Copies \cup {last}
        BY <2>1, <3>1, <4>1, AppendFacts DEF Copies
      <4>3. overflowed' = overflowed \cup {} /\ Copies \cup {last} = Copies' \cup {}
        BY <4>1, <4>2
      <4> QED BY <4>3
    <3>3. CASE ~(Len(grabQueue) < GrabbingQueueLength)
      <4> DEFINE tail == Tail(grabQueue)
      <4>1. grabQueue # <<>>
        BY <3>3, EmptyFacts, FramePathAssumption
      <4>2. /\ grabQueue' = Append(tail, last)
            /\ overflowed' = overflowed \cup {Head(grabQueue)}
        BY <1>2, <3>3 DEF GrabEnqueues
      <4>3. tail \in Seq(Frames) /\ Copies = {Head(grabQueue)} \cup ToSet(tail)
        BY <3>1, <4>1, TailFacts DEF Copies
      <4> HIDE DEF tail
      <4>4. Copies' = ToSet(tail) \cup {last}
        BY <2>1, <4>2, <4>3, AppendFacts DEF Copies
      <4> QED BY <4>2, <4>3, <4>4
    <3> QED BY <3>2, <3>3
  <2>4. grabbed' \subseteq 1 .. last'
    BY <2>1, <2>2 DEF GrabOK
  <2>5. /\ main' \in {"join", "header"} => due' = grabbed'
        /\ ~enabled' /\ main' \notin {"join", "header"} => grabbed' = {}
    BY <2>2 DEF GrabOK, Lifetimes
  <2>6. ~failed' \/ main' \in {"enable", "create"} =>
            grabbed' \subseteq Recorded' \cup overflowed' \cup Copies'
                               \cup (IF grabber' = "write" THEN {record'} ELSE {})
    <3>1. Recorded' = Recorded
      BY <2>2 DEF Recorded
    <3>2. CASE failed /\ main \notin {"enable", "create"}
      BY <2>2, <3>2
    <3>3. CASE ~failed \/ main \in {"enable", "create"}
      <4>1. grabbed \subseteq Recorded \cup overflowed \cup Copies
                              \cup (IF grabber = "write" THEN {record} ELSE {})
        BY <3>3 DEF GrabOK
      <4> QED BY <2>2, <2>3, <3>1, <4>1
    <3> QED BY <3>2, <3>3
  <2>7. LastLook' => grabbed' \cap Copies' \subseteq unwatched'
    <3> SUFFICES ASSUME LastLook' PROVE grabbed' \cap Copies' \subseteq unwatched'
      OBVIOUS
    <3>1. LastLook /\ (enabled => grabber = "check")
      BY <2>2 DEF LastLook
    <3>2. grabbed \cap Copies \subseteq unwatched
      BY <3>1 DEF GrabOK
    <3> QED BY <2>1, <2>2, <2>3, <3>1, <3>2
  <2> QED BY <2>2, <2>4, <2>5, <2>6, <2>7 DEF GrabOK, Grabbing
<1>3. CASE GrabLooks
  BY <1>3, GrabKept DEF GrabLooks
<1>4. CASE CallBack
  BY <1>4, GrabKept DEF CallBack
<1>5. CASE Enqueue
  BY <1>5, GrabKept DEF Enqueue
<1>6. CASE DeviceEnds
  BY <1>6, GrabKept DEF DeviceEnds
<1> QED BY <1>1, <1>2, <1>3, <1>4, <1>5, <1>6 DEF Device

LEMMA GrabGrabber ==
    ASSUME Typed, Lifetimes, GrabOK, Grabber
    PROVE  GrabOK'
<1>1. /\ UNCHANGED <<last, device, grabbed, due, enabled, handle, main, overflowed, unwatched>>
      /\ Grabbing
  BY DEF Grabber, GrabberOpens, GrabberTakes, GrabberTimesOut, GrabberChecks, GrabberWrites,
         GrabberAborts, GrabberRetries, GrabberCannotSerialise, Grabbing
<1>2. main \notin {"header", "enable", "create"}
  BY <1>1 DEF Lifetimes
<1>3. /\ main \in {"open", "closing", "closeGrabber"} /\ enabled => Grabbing' \/ failed'
      /\ ~failed' => ~failed
  BY DEF Grabber, GrabberOpens, GrabberTakes, GrabberTimesOut, GrabberChecks, GrabberWrites,
         GrabberAborts, GrabberRetries, GrabberCannotSerialise, Grabbing
<1>4. CASE GrabberOpens
  BY <1>1, <1>2, <1>3, <1>4 DEF GrabberOpens, GrabOK, LastLook, Recorded, Copies
<1>5. CASE GrabberTakes
  <2>1. Copies = {record'} \cup Copies'
    BY <1>5, TailFacts DEF GrabberTakes, Typed, TypeOK, Copies
  <2>2. UNCHANGED <<file, failed>> /\ grabber = "dequeue" /\ grabber' = "write"
    BY <1>5 DEF GrabberTakes
  <2> QED BY <1>1, <1>2, <1>3, <2>1, <2>2 DEF GrabOK, LastLook, Recorded
<1>6. CASE GrabberTimesOut
  <2>1. Copies' = {} /\ Copies = {}
    BY <1>6, EmptyFacts DEF GrabberTimesOut, Copies
  <2> QED BY <1>1, <1>2, <1>3, <1>6, <2>1 DEF GrabberTimesOut, GrabOK, LastLook, Recorded
<1>7. CASE GrabberChecks
  BY <1>1, <1>2, <1>3, <1>7 DEF GrabberChecks, GrabOK, LastLook, Recorded, Copies
<1>8. CASE GrabberWrites
  <2>1. Recorded' = Recorded \cup {record}
    <3>1. record \in Frames /\ file \in Seq(Entries) /\ file' = Append(file, Whole(record))
      BY <1>8 DEF GrabberWrites, Typed, TypeOK, WorkOK
    <3>2. ToSet(file') = ToSet(file) \cup {Whole(record)}
      BY <3>1, EntryFacts, AppendFacts
    <3>3. \A f \in Frames : Whole(f) = Whole(record) => f = record
      BY <3>1, EntryFacts
    <3> QED BY <3>1, <3>2, <3>3 DEF Recorded
  <2>2. UNCHANGED <<grabQueue, failed>> /\ grabber = "write" /\ grabber' = "dequeue"
    BY <1>8 DEF GrabberWrites
  <2> QED BY <1>1, <1>2, <1>3, <2>1, <2>2 DEF GrabOK, LastLook, Copies
<1>9. CASE GrabberAborts
  BY <1>1, <1>2, <1>3, <1>9 DEF GrabberAborts, GrabOK, LastLook, Copies
<1>10. CASE GrabberRetries
  <2>1. Recorded' = Recorded
    BY <1>10, FailedWriteFacts DEF GrabberRetries
  <2> QED BY <1>1, <1>2, <1>3, <1>10, <2>1 DEF GrabberRetries, GrabOK, LastLook, Copies
<1>11. CASE GrabberCannotSerialise
  BY <1>1, <1>2, <1>3, <1>11 DEF GrabberCannotSerialise, GrabOK, LastLook
<1> QED BY <1>4, <1>5, <1>6, <1>7, <1>8, <1>9, <1>10, <1>11 DEF Grabber

LEMMA GrabUser ==
    ASSUME Typed, Lifetimes, GrabOK, User
    PROVE  GrabOK'
<1> USE DEF Grabbing, LastLook, Recorded, Copies
<1>1. CASE Allocate
  BY <1>1 DEF Lifetimes, GrabOK, Allocate
<1>2. CASE StartDevice
  BY <1>2, GrabKept DEF StartDevice
<1>3. CASE Opened
  BY <1>3 DEF Lifetimes, GrabOK, Opened
<1>4. CASE Close
  BY <1>4 DEF Lifetimes, GrabOK, Close
<1>5. CASE GetFrame
  BY <1>5, GrabKept DEF GetFrame
<1>6. CASE FlushFrameQueue
  BY <1>6, GrabKept DEF FlushFrameQueue
<1>7. CASE CreateFile
  BY <1>7 DEF Lifetimes, GrabOK, CreateFile
<1>8. CASE CreateFileFails
  BY <1>8, GrabKept DEF CreateFileFails
<1>9. CASE StopGrabbing
  BY <1>9 DEF Lifetimes, GrabOK, StopGrabbing, Disable
<1>10. CASE ClearGrabQueue
  BY <1>10 DEF Lifetimes, GrabOK, ClearGrabQueue, ForgetGrab
<1>11. CASE Enable
  BY <1>11 DEF Lifetimes, GrabOK, Enable
<1>12. CASE CreateThread
  BY <1>12 DEF Lifetimes, GrabOK, CreateThread
<1>13. CASE CreateThreadFails
  BY <1>13 DEF Lifetimes, GrabOK, CreateThreadFails
<1>14. CASE JoinGrabber
  BY <1>14 DEF Lifetimes, GrabOK, JoinGrabber
<1>15. CASE FinishStop
  BY <1>15 DEF Lifetimes, GrabOK, FinishStop
<1>16. CASE JoinDevice
  BY <1>16 DEF Lifetimes, GrabOK, JoinDevice
<1>17. CASE CloseGrabber
  BY <1>17 DEF Lifetimes, GrabOK, CloseGrabber, Disable
<1>18. CASE FreeGrabber
  <2>1. grabbed = {}
    BY <1>18 DEF Lifetimes, GrabOK, FreeGrabber
  <2> QED BY <1>18, <2>1 DEF Lifetimes, GrabOK, FreeGrabber
<1>19. CASE FreeRest
  BY <1>19 DEF Lifetimes, GrabOK, FreeRest
<1> QED BY <1>1, <1>2, <1>3, <1>4, <1>5, <1>6, <1>7, <1>8, <1>9, <1>10, <1>11, <1>12, <1>13,
           <1>14, <1>15, <1>16, <1>17, <1>18, <1>19 DEF User, Returning

LEMMA GrabStep ==
    ASSUME Typed, Lifetimes, GrabOK, [Next]_vars
    PROVE  GrabOK'
<1>1. CASE UNCHANGED vars
  BY <1>1, GrabKept DEF vars
<1> QED BY <1>1, GrabDevice, GrabGrabber, GrabUser DEF Next

-----------------------------------------------------------------------------
(***************************************************************************)
(* The frames of the file                                                  *)
(***************************************************************************)
LEMMA Numbers ==
    ASSUME Typed
    PROVE  /\ Frames \subseteq Nat \ {0} /\ last \in Nat
           /\ Len(grabQueue) \in Nat /\ (grabQueue # <<>> => Len(grabQueue) > 0)
           /\ \A i \in 1 .. Len(grabQueue) : grabQueue[i] \in Frames /\ grabQueue[i] \in Copies
           /\ file # <<>> => Len(file) > 0
           /\ Len(file) \in Nat
           /\ \A i \in 1 .. Len(file) : /\ file[i] \in Entries /\ file[i].frame \in Frames
                                        /\ file[i].frame \in InFile
           /\ Written \in Nat /\ Prior \in Nat /\ Newest \in Nat
<1>1. Frames \subseteq Nat \ {0} /\ last \in Nat /\ record \in Nat
  BY FramePathAssumption DEF Typed, TypeOK, Frames
<1>2. ASSUME NEW S, NEW s \in Seq(S)
      PROVE  /\ Len(s) \in Nat
             /\ \A i \in 1 .. Len(s) : s[i] \in S /\ s[i] \in ToSet(s)
             /\ s # <<>> => Len(s) > 0 /\ s[Len(s)] \in S
  <2>1. Len(s) \in Nat /\ \A i \in 1 .. Len(s) : s[i] \in S /\ s[i] \in ToSet(s)
    BY LenProperties, ElementOfSeq DEF ToSet
  <2>2. s # <<>> => Len(s) # 0
    BY EmptySeq
  <2> QED BY <2>1, <2>2
<1>3. /\ file \in Seq(Entries) /\ grabQueue \in Seq(Frames)
      /\ \A e \in Entries : e.frame \in Frames
  BY DEF Typed, TypeOK, Entries
<1>4. Written \in Nat
  BY <1>1, <1>2, <1>3 DEF Written
<1>5. Prior \in Nat
  BY <1>1, <1>4 DEF Prior
<1>6. Newest \in Nat
  BY <1>1, <1>2, <1>3, <1>5 DEF Newest
<1> QED BY <1>1, <1>2, <1>3, <1>4, <1>5, <1>6 DEF Copies, InFile

\* Steps that only add to what overflowed and to the strays.
LEMMA HolesKept ==
    ASSUME FileHasNoHoles, UNCHANGED file, strays \subseteq strays',
           overflowed \subseteq overflowed'
    PROVE  FileHasNoHoles'
  BY DEF FileHasNoHoles

LEMMA LinkKept ==
    ASSUME NEW a, NEW b, NEW late, NEW lost, NEW open, NEW late2, NEW lost2, NEW open2,
           Link(a, b, late, lost, open), late \subseteq late2, lost \subseteq lost2,
           open2 /\ b \in late2 => open /\ b \in late
    PROVE  Link(a, b, late2, lost2, open2)
  BY DEF Link

\* Between a, h and b nothing is missing but h, which is lost.
LEMMA LinkJoined ==
    ASSUME NEW a \in Nat, NEW h \in Nat \ {0}, NEW b \in Nat, NEW late, NEW lost, NEW open,
           Link(a, h, late, lost, open), Link(h, b, late, lost, open),
           h \notin late, h \in lost
    PROVE  Link(a, b, late, lost, open)
<1> SUFFICES ASSUME a # 0 PROVE Link(a, b, late, lost, open)
  BY DEF Link
<1>1. a < h /\ h < b /\ (b \in late => ~open)
  BY DEF Link
<1>2. ASSUME a \notin late, NEW f \in a + 1 .. b - 1 PROVE f \in lost
  <2>1. f \in a + 1 .. h - 1 \/ f = h \/ f \in h + 1 .. b - 1
    BY <1>1
  <2> QED BY <1>2, <2>1 DEF Link
<1> QED BY <1>1, <1>2 DEF Link

\* Steps after which no more copies may come than before.
LEMMA LinkedKept ==
    ASSUME Linked, UNCHANGED <<file, record, grabQueue, strays, overflowed>>,
           grabber' = "write" <=> grabber = "write",
           Open' => Open /\ Done' = Done
    PROVE  Linked'
<1>1. UNCHANGED <<Written, Prior, Newest, Torn>>
  BY DEF Written, Prior, Newest, Torn
<1>2. /\ grabber' = "write" /\ ~Torn' => Follows(Written, record)'
      /\ Torn' => grabber' = "write" /\ Written' = record'
  BY <1>1 DEF Linked, Follows, Link
<1>3. grabQueue' # <<>> => Follows(Prior, grabQueue[1])'
  BY <1>1 DEF Linked, Follows, Link
<1>4. (\A i \in 1 .. Len(grabQueue) - 1 : Follows(grabQueue[i], grabQueue[i + 1]))'
  <2> SUFFICES ASSUME NEW i \in 1 .. Len(grabQueue) - 1
               PROVE  Follows(grabQueue[i], grabQueue[i + 1])'
    OBVIOUS
  <2>1. Follows(grabQueue[i], grabQueue[i + 1])
    BY DEF Linked
  <2> QED BY <2>1 DEF Follows, Link
<1> QED BY <1>1, <1>2, <1>3, <1>4 DEF Linked

LEMMA FileKept ==
    ASSUME Typed, FileOK, UNCHANGED <<file, record, grabQueue, strays, overflowed>>,
           grabber' = "write" => grabber = "write",
           Alive' => Alive /\ (grabber = "write" => grabber' = "write"),
           Open' => Open /\ Done' = Done, Done' = Done \/ Done' = Done + 1,
           main' \in {"clear", "enable", "create"} => main' = main,
           main = "enable" /\ device # "clone" => device' # "clone"
    PROVE  FileOK'
<1>1. FileHasNoHoles'
  BY HolesKept DEF FileOK
<1>2. Alive' => Linked'
  BY LinkedKept DEF FileOK
<1>3. Past'
  <2>1. Done \in Int
    BY Numbers DEF Done
  <2>2. 1 .. Done \subseteq 1 .. Done'
    BY <2>1
  <2> QED BY <2>2 DEF FileOK, Past, Copies, InFile
<1> QED BY <1>1, <1>2, <1>3 DEF FileOK

LEMMA FileGrabEnqueues ==
    ASSUME Typed, Lifetimes, FileOK, GrabEnqueues
    PROVE  FileOK'
<1>1. /\ device = "clone" /\ device' = "callback"
      /\ UNCHANGED <<main, last, enabled, grabber, file, record>>
      /\ strays' = IF enabled THEN strays ELSE strays \cup {last}
  BY DEF GrabEnqueues
<1>2. UNCHANGED <<Written, Torn, Prior, InFile>> /\ Open /\ (Open' => enabled) /\ (Alive' => Alive)
  BY <1>1 DEF Open, Written, Torn, Prior, Grabbing, Alive, InFile
<1>3. Done = last - 1 /\ Done' = last
  BY <1>1 DEF Held, Done
<1>4. grabQueue \in Seq(Frames) /\ last \in Frames /\ last \in Nat \ {0}
  BY <1>1, Numbers DEF Typed, TypeOK, WorkOK
<1>5. last \notin strays /\ last \notin Copies /\ (grabber = "write" => last # record)
  BY <1>3, <1>4 DEF FileOK, Past
<1>6. strays \subseteq strays' /\ overflowed \subseteq overflowed'
  BY <1>1 DEF GrabEnqueues
<1>7. FileHasNoHoles'
  BY <1>1, <1>6, HolesKept DEF FileOK
<1>8. main = "enable" => grabQueue = <<>> /\ last \in strays'
  BY <1>1 DEF FileOK, Lifetimes
<1> DEFINE n == Len(grabQueue)
           s == Append(grabQueue, last)
           After(a, b) == Link(a, b, strays', overflowed', Open')
<1>9. /\ n \in Nat /\ Len(s) = n + 1 /\ s \in Seq(Frames)
      /\ \A i \in 1 .. n : s[i] = grabQueue[i] /\ s[i] \in Copies /\ s[i] \in Nat \ {0}
      /\ s[n + 1] = last
      /\ ToSet(s) = Copies \cup {last}
      /\ n = 0 <=> grabQueue = <<>>
  <2>1. /\ Len(s) = n + 1 /\ s \in Seq(Frames) /\ s[n + 1] = last
        /\ \A i \in 1 .. n : s[i] = grabQueue[i]
    BY <1>4, AppendProperties
  <2>2. \A i \in 1 .. n : grabQueue[i] \in Copies /\ grabQueue[i] \in Nat \ {0}
    BY Numbers
  <2>3. ToSet(s) = Copies \cup {last}
    BY <1>4, AppendFacts DEF Copies
  <2>4. n \in Nat /\ (n = 0 <=> grabQueue = <<>>)
    BY <1>4, EmptySeq, LenProperties
  <2> QED BY <2>1, <2>2, <2>3, <2>4
<1> HIDE DEF n, s
<1>10. Prior \in Nat /\ Newest \in Nat /\ (n > 0 => Newest = s[n]) /\ (n = 0 => Newest = Prior)
  <2>1. Prior \in Nat /\ Newest \in Nat
    BY Numbers
  <2> QED BY <1>9, <2>1 DEF Newest, n
<1>11. ASSUME NEW a, NEW b, Follows(a, b), b # last PROVE After(a, b)
  <2>1. Open' /\ b \in strays' => Open /\ b \in strays
    BY <1>1, <1>2, <1>11
  <2> QED BY <1>6, <1>11, <2>1, LinkKept DEF Follows
<1>12. ASSUME Linked
       PROVE  /\ grabber = "write" /\ ~Torn => After(Written, record)
              /\ After(Prior, s[1])
              /\ \A i \in 1 .. n : After(s[i], s[i + 1])
  <2>1. Newest <= Done
    BY <1>1, <1>3, <1>4, <1>9, <1>10, Numbers DEF FileOK, Past, Prior, Written
  <2>2. After(Newest, last)
    <3>1. Newest \notin {0} \cup strays => Newest = last - 1
      BY <1>2, <1>3, <1>12 DEF Linked
    <3>2. last \in strays' => ~Open'
      BY <1>1, <1>2, <1>5
    <3>3. Newest \notin {0} \cup strays' => \A f \in Newest + 1 .. last - 1 : f \in overflowed'
      BY <1>4, <1>6, <1>10, <3>1
    <3> QED BY <1>3, <1>4, <1>10, <2>1, <3>2, <3>3 DEF Link
  <2>3. grabber = "write" /\ ~Torn => After(Written, record)
    BY <1>5, <1>11, <1>12 DEF Linked
  <2>4. After(Prior, s[1])
    <3>1. CASE n = 0
      <4>1. s[1] = last /\ Newest = Prior
        BY <1>9, <1>10, <3>1
      <4> QED BY <2>2, <4>1
    <3>2. CASE n # 0
      <4>1. 1 \in 1 .. n
        BY <1>9, <3>2
      <4>2. Follows(Prior, s[1])
        BY <1>9, <1>12, <3>2, <4>1 DEF Linked
      <4>3. s[1] # last
        BY <1>5, <1>9, <4>1
      <4> QED BY <1>11, <4>2, <4>3
    <3> QED BY <3>1, <3>2
  <2>5. ASSUME NEW i \in 1 .. n PROVE After(s[i], s[i + 1])
    <3>1. CASE i = n
      <4>1. s[i] = Newest /\ s[i + 1] = last
        BY <1>9, <1>10, <2>5, <3>1
      <4> QED BY <2>2, <4>1
    <3>2. CASE i # n
      <4>1. i \in 1 .. n - 1 /\ i + 1 \in 1 .. n
        BY <1>9, <2>5, <3>2
      <4>2. Follows(s[i], s[i + 1])
        BY <1>9, <1>12, <2>5, <4>1 DEF Linked, n
      <4>3. s[i + 1] # last
        BY <1>5, <1>9, <4>1
      <4> QED BY <1>11, <4>2, <4>3
    <3> QED BY <3>1, <3>2
  <2> QED BY <2>3, <2>4, <2>5
<1> HIDE DEF After
<1>13. Past'
  <2>1. ToSet(grabQueue') \subseteq ToSet(s)
    <3>1. CASE n < GrabbingQueueLength
      BY <3>1 DEF GrabEnqueues, n, s
    <3>2. CASE ~(n < GrabbingQueueLength)
      <4>1. grabQueue # <<>> /\ grabQueue' = Append(Tail(grabQueue), last)
        BY <1>9, <3>2, FramePathAssumption DEF GrabEnqueues, n
      <4> DEFINE t == Tail(grabQueue)
      <4>2. t \in Seq(Frames) /\ ToSet(t) \subseteq Copies /\ grabQueue' = Append(t, last)
        BY <1>4, <4>1, TailFacts DEF Copies
      <4> HIDE DEF t
      <4>3. ToSet(grabQueue') = ToSet(t) \cup {last}
        BY <1>4, <4>2, AppendFacts
      <4> QED BY <1>9, <4>2, <4>3
    <3> QED BY <3>1, <3>2
  <2>2. 1 .. Done \subseteq 1 .. Done' /\ last \in 1 .. Done'
    BY <1>3, <1>4
  <2> QED BY <1>1, <1>2, <1>9, <2>1, <2>2 DEF FileOK, Past, Copies
<1>14. CASE n < GrabbingQueueLength
  <2>1. grabQueue' = s /\ overflowed' = overflowed
    BY <1>14 DEF GrabEnqueues, n, s
  <2>2. Len(grabQueue') = n + 1 /\ grabQueue' # <<>> /\ Newest' = last
    BY <1>9, <2>1, EmptySeq DEF Newest
  <2>3. ASSUME Alive PROVE Linked'
    <3>1. Linked
      BY <2>3 DEF FileOK
    <3>2. /\ grabber = "write" /\ ~Torn => After(Written, record)
          /\ After(Prior, s[1]) /\ \A i \in 1 .. n : After(s[i], s[i + 1])
      BY <1>12, <3>1
    <3>3. After(Prior, grabQueue'[1])
      BY <2>1, <3>2
    <3>4. \A i \in 1 .. Len(grabQueue') - 1 : After(grabQueue'[i], grabQueue'[i + 1])
      BY <1>9, <2>1, <2>2, <3>2
    <3> QED BY <1>1, <1>2, <1>3, <2>2, <3>1, <3>2, <3>3, <3>4 DEF Linked, Follows, After
  <2>4. main' = "enable" => Len(grabQueue') = 1 /\ grabQueue'[1] \in strays' /\ device' # "clone"
    BY <1>1, <1>8, <1>9, <2>1, <2>2
  <2> QED BY <1>1, <1>2, <1>7, <1>13, <2>3, <2>4 DEF FileOK
<1>15. CASE ~(n < GrabbingQueueLength)
  <2> DEFINE t == Tail(grabQueue)
  <2>1. n > 0 /\ grabQueue # <<>>
    BY <1>9, <1>15, FramePathAssumption
  <2>2. grabQueue' = Append(t, last) /\ overflowed' = overflowed \cup {s[1]}
    <3>1. Head(grabQueue) = s[1]
      BY <1>4, <1>9, <2>1, HeadTailProperties
    <3> QED BY <1>15, <3>1 DEF GrabEnqueues, n
  <2>3. /\ t \in Seq(Frames) /\ Len(t) = n - 1
        /\ \A i \in 1 .. n - 1 : t[i] = grabQueue[i + 1]
    BY <1>4, <2>1, HeadTailProperties DEF n
  <2> HIDE DEF t
  <2>4. Len(grabQueue') = n /\ \A i \in 1 .. n : grabQueue'[i] = s[i + 1]
    <3>1. /\ Len(grabQueue') = n - 1 + 1 /\ grabQueue'[n - 1 + 1] = last
          /\ \A i \in 1 .. n - 1 : grabQueue'[i] = t[i]
      BY <1>4, <2>2, <2>3, AppendProperties
    <3>2. \A i \in 1 .. n - 1 : i + 1 \in 1 .. n
      BY <1>9
    <3> QED BY <1>9, <2>3, <3>1, <3>2
  <2>5. grabQueue' # <<>> /\ Newest' = last
    BY <1>9, <2>1, <2>4, EmptySeq DEF Newest
  <2>6. ASSUME Alive PROVE Linked'
    <3>1. Linked
      BY <2>6 DEF FileOK
    <3>2. /\ grabber = "write" /\ ~Torn => After(Written, record)
          /\ After(Prior, s[1]) /\ \A i \in 1 .. n : After(s[i], s[i + 1])
      BY <1>12, <3>1
    <3>3. After(Prior, s[2])
      <4> SUFFICES ASSUME Prior # 0 PROVE After(Prior, s[2])
        BY DEF After, Link
      <4>1. s[1] \in Nat \ {0} /\ s[2] \in Nat /\ s[1] \in Copies
        BY <1>4, <1>9, <2>1, Numbers
      <4>2. s[1] \notin strays'
        <5>1. Follows(Prior, s[1])
          BY <1>9, <2>1, <3>1 DEF Linked
        <5> QED BY <1>1, <1>2, <1>5, <4>1, <5>1 DEF Follows, Link
      <4>3. After(s[1], s[2])
        BY <1>9, <2>1, <3>2
      <4> QED BY <1>10, <2>2, <3>2, <4>1, <4>2, <4>3, LinkJoined DEF After
    <3>4. After(Prior, grabQueue'[1])
      BY <1>9, <2>1, <2>4, <3>3
    <3>5. \A i \in 1 .. n - 1 : After(grabQueue'[i], grabQueue'[i + 1])
      <4> TAKE i \in 1 .. n - 1
      <4>1. i \in 1 .. n /\ i + 1 \in 1 .. n
        BY <1>9
      <4>2. After(s[i + 1], s[i + 1 + 1])
        BY <3>2, <4>1
      <4> QED BY <2>4, <4>1, <4>2
    <3> QED BY <1>1, <1>2, <1>3, <2>4, <2>5, <3>1, <3>2, <3>4, <3>5 DEF Linked, Follows, After
  <2>7. main' # "enable"
    BY <1>1, <1>8, <2>1
  <2> QED BY <1>1, <1>2, <1>7, <1>13, <2>6, <2>7 DEF FileOK
<1> QED BY <1>14, <1>15

LEMMA FileDevice ==
    ASSUME Typed, Lifetimes, FileOK, Device
    PROVE  FileOK'
<1>1. /\ ~GrabEnqueues => UNCHANGED <<file, record, grabQueue, strays, overflowed, grabber, main>>
      /\ enabled' = enabled /\ last \in Nat
  BY Numbers DEF Device, HandOver, GrabLooks, GrabEnqueues, CallBack, Enqueue, DeviceEnds
<1>2. CASE HandOver
  <2>1. Done' = Done /\ (Open' => Open) /\ device' # "clone" /\ (Alive' => Alive)
    BY <1>1, <1>2 DEF HandOver, Held, Done, Open, Alive, Grabbing
  <2> QED BY <1>1, <1>2, <2>1, FileKept DEF HandOver, GrabEnqueues
<1>3. CASE GrabLooks
  <2>1. /\ Open' => Open /\ Done' = Done
        /\ Done' = Done \/ Done' = Done + 1
        /\ Alive' => Alive
        /\ main = "enable" => device' # "clone"
    BY <1>1, <1>3 DEF GrabLooks, Held, Done, Open, Alive, Grabbing, Lifetimes
  <2> QED BY <1>1, <1>3, <2>1, FileKept DEF GrabLooks, GrabEnqueues
<1>4. CASE CallBack \/ Enqueue \/ DeviceEnds
  <2>1. /\ ~GrabEnqueues /\ Done' = Done /\ (Open' => Open) /\ (Alive' => Alive)
        /\ device' # "clone"
    BY <1>1, <1>4 DEF CallBack, Enqueue, DeviceEnds, GrabEnqueues, Held, Done, Open, Alive, Grabbing
  <2> QED BY <1>1, <2>1, FileKept
<1> QED BY <1>2, <1>3, <1>4, FileGrabEnqueues DEF Device

\* What comes next may be written: the whole of a record that was begun, or a record, or
\* the beginning of one, that follows the last.
LEMMA FileAppend ==
    ASSUME Typed, FileHasNoHoles, NEW e \in Entries, file' = Append(file, e),
           UNCHANGED <<strays, overflowed>>,
           Torn => e = Whole(Written),
           ~Torn => Link(Written, e.frame, strays, overflowed, Open)
    PROVE  /\ FileHasNoHoles' /\ InFile' = InFile \cup {e.frame}
           /\ Written' = e.frame /\ (Torn' <=> ~e.whole)
<1> DEFINE n == Len(file)
<1>1. /\ n \in Nat /\ Len(file') = n + 1 /\ file'[n + 1] = e /\ file' # <<>>
      /\ \A i \in 1 .. n : file'[i] = file[i]
  <2>1. file \in Seq(Entries) /\ n \in Nat
    BY Numbers DEF Typed, TypeOK
  <2>2. /\ Len(file') = n + 1 /\ file'[n + 1] = e
        /\ \A i \in 1 .. n : file'[i] = file[i]
    BY <2>1, AppendProperties
  <2> QED BY <2>1, <2>2, EmptyFacts
<1>2. n # 0 => /\ file # <<>> /\ file[n].frame \in Nat \ {0}
               /\ Written = file[n].frame /\ (Torn <=> ~file[n].whole)
  <2> SUFFICES ASSUME n # 0
               PROVE  /\ file # <<>> /\ file[n].frame \in Nat \ {0}
                      /\ Written = file[n].frame /\ (Torn <=> ~file[n].whole)
    OBVIOUS
  <2>1. file # <<>>
    BY EmptyFacts
  <2>2. n \in 1 .. n
    BY <1>1
  <2>3. file[n].frame \in Nat \ {0}
    BY <2>2, Numbers
  <2> QED BY <2>1, <2>3 DEF Written, Torn
<1> HIDE DEF n
<1>3. InFile' = InFile \cup {e.frame}
  <2>1. InFile' = {file'[i].frame : i \in 1 .. n + 1} /\ InFile = {file[i].frame : i \in 1 .. n}
    BY <1>1 DEF InFile, n
  <2>2. \A i : i \in 1 .. n + 1 <=> i \in 1 .. n \/ i = n + 1
    BY <1>1
  <2> QED BY <1>1, <2>1, <2>2
<1>4. Written' = e.frame /\ (Torn' <=> ~e.whole)
  BY <1>1 DEF Written, Torn
<1>5. FileHasNoHoles'
  <2> SUFFICES ASSUME NEW i \in 1 .. n
               PROVE  IF file'[i].whole
                      THEN /\ file'[i].frame < file'[i + 1].frame
                           /\ file'[i].frame \notin strays =>
                                \A f \in file'[i].frame + 1 .. file'[i + 1].frame - 1 :
                                    f \in overflowed
                      ELSE file'[i + 1] = Whole(file'[i].frame)
    BY <1>1 DEF FileHasNoHoles
  <2>1. CASE i = n
    <3>1. /\ file'[i] = file[n] /\ file'[i + 1] = e
          /\ Written = file[n].frame /\ Written # 0 /\ (Torn <=> ~file[n].whole)
      BY <1>1, <1>2, <2>1
    <3> QED BY <3>1 DEF Link
  <2>2. CASE i # n
    <3>1. i \in 1 .. Len(file) - 1 /\ i + 1 \in 1 .. n
      BY <1>1, <2>2 DEF n
    <3>2. file'[i] = file[i] /\ file'[i + 1] = file[i + 1]
      BY <1>1, <3>1
    <3> QED BY <3>1, <3>2 DEF FileHasNoHoles
  <2> QED BY <2>1, <2>2
<1> QED BY <1>3, <1>4, <1>5

\* A failed write leaves the beginning of the record in hand, if anything.
LEMMA FileFailedWrite ==
    ASSUME Typed, FileHasNoHoles, Linked, grabber = "write", FailedWrite,
           UNCHANGED <<strays, overflowed>>
    PROVE  /\ FileHasNoHoles' /\ InFile' \subseteq InFile \cup {record}
           /\ (Torn' = Torn /\ Written' = Written) \/ (Torn' /\ Written' = record)
<1>1. CASE UNCHANGED file
  BY <1>1, HolesKept DEF InFile, Torn, Written
<1>2. CASE Beginning(record) \notin ToSet(file) /\ file' = Append(file, Beginning(record))
  <2>1. /\ record \in Frames /\ Beginning(record) \in Entries
        /\ Beginning(record).frame = record /\ ~Beginning(record).whole
        /\ \A e \in Entries : ~e.whole /\ e.frame = record => e = Beginning(record)
    BY EntryFacts DEF Typed, WorkOK
  <2>2. ~Torn
    <3> SUFFICES ASSUME Torn PROVE FALSE
      OBVIOUS
    <3>1. /\ Len(file) \in 1 .. Len(file) /\ file[Len(file)] \in Entries
          /\ file[Len(file)] \in ToSet(file)
      <4>1. file \in Seq(Entries) /\ Len(file) \in Nat /\ Len(file) > 0
        BY Numbers DEF Torn, Typed, TypeOK
      <4> QED BY <4>1, LenProperties, ElementOfSeq DEF ToSet
    <3>2. file[Len(file)].frame = record /\ ~file[Len(file)].whole
      BY DEF Torn, Written, Linked
    <3> QED BY <1>2, <2>1, <3>1, <3>2
  <2>3. Link(Written, record, strays, overflowed, Open)
    BY <2>2 DEF Linked, Follows
  <2> QED BY <1>2, <2>1, <2>2, <2>3, FileAppend
<1> QED BY <1>1, <1>2 DEF FailedWrite

LEMMA FileGrabber ==
    ASSUME Typed, Lifetimes, FileOK, Grabber
    PROVE  FileOK'
<1>1. /\ UNCHANGED <<main, device, last, enabled, overflowed, strays>>
      /\ Grabbing /\ Linked
  BY DEF Grabber, GrabberOpens, GrabberTakes, GrabberTimesOut, GrabberChecks, GrabberWrites,
         GrabberAborts, GrabberRetries, GrabberCannotSerialise, Grabbing, FileOK, Alive
<1>2. main \notin {"clear", "enable", "create"}
  BY <1>1 DEF Lifetimes
<1>3. UNCHANGED <<Done, Held, Open>>
  BY <1>1 DEF Done, Held, Open
<1>4. CASE GrabberOpens \/ GrabberTimesOut \/ GrabberChecks
  <2>1. /\ UNCHANGED <<file, record, grabQueue>>
        /\ {grabber, grabber'} \cap {"write"} = {}
    BY <1>4 DEF GrabberOpens, GrabberTimesOut, GrabberChecks
  <2>2. Alive' => Alive
    BY <1>1 DEF Alive
  <2>3. (Open' => Open /\ Done' = Done) /\ Done' = Done
    BY <1>3
  <2> QED BY <1>1, <1>2, <2>1, <2>2, <2>3, FileKept
<1>5. CASE GrabberTakes
  <2> DEFINE t == Tail(grabQueue)
             n == Len(grabQueue)
  <2>1. /\ grabQueue # <<>> /\ record' = Head(grabQueue) /\ grabQueue' = t
        /\ grabber = "dequeue" /\ grabber' = "write" /\ file' = file
    BY <1>5 DEF GrabberTakes
  <2>2. /\ t \in Seq(Frames) /\ Len(t) = n - 1 /\ n \in Nat /\ n > 0
        /\ record' = grabQueue[1] /\ record' \in Frames
        /\ \A i \in 1 .. n - 1 : t[i] = grabQueue[i + 1]
    BY <2>1, HeadTailProperties, LenProperties, EmptySeq DEF Typed, TypeOK
  <2>3. Copies' \subseteq Copies /\ record' \in Copies /\ InFile' = InFile
    BY <2>1, TailFacts DEF Copies, InFile, Typed, TypeOK
  <2> HIDE DEF t, n
  <2>4. /\ Prior = Written /\ Written' = Written /\ Prior' = record'
        /\ ~Torn /\ Torn' = Torn
    BY <1>1, <2>1 DEF Prior, Written, Torn, Linked
  <2>5. Newest' = Newest
    <3>1. CASE n = 1
      <4>1. t = <<>>
        BY <2>2, <3>1, EmptySeq
      <4> QED BY <2>1, <2>2, <2>4, <3>1, <4>1 DEF Newest, n
    <3>2. CASE n # 1
      <4>1. t # <<>> /\ n - 1 \in 1 .. n - 1
        BY <2>2, <3>2, EmptyFacts
      <4> QED BY <2>1, <2>2, <4>1 DEF Newest, n
    <3> QED BY <3>1, <3>2
  <2>6. Link(Written, record', strays, overflowed, Open)
    BY <1>1, <2>1, <2>2, <2>4 DEF Linked, Follows
  <2>7. \A i \in 1 .. n - 1 : Link(grabQueue[i], grabQueue[i + 1], strays, overflowed, Open)
    BY <1>1 DEF Linked, Follows, n
  <2>8. t # <<>> => Link(record', t[1], strays, overflowed, Open)
    <3> SUFFICES ASSUME t # <<>> PROVE Link(record', t[1], strays, overflowed, Open)
      OBVIOUS
    <3>1. n - 1 # 0
      BY <2>2, EmptySeq
    <3>2. 1 \in 1 .. n - 1
      BY <2>2, <3>1
    <3> QED BY <2>2, <2>7, <3>2
  <2>9. \A i \in 1 .. Len(t) - 1 : Link(t[i], t[i + 1], strays, overflowed, Open)
    <3> TAKE i \in 1 .. Len(t) - 1
    <3>1. i \in 1 .. n - 1 /\ i + 1 \in 1 .. n - 1
      BY <2>2
    <3> QED BY <2>2, <2>7, <3>1
  <2>10. Linked'
    BY <1>1, <1>3, <2>1, <2>4, <2>5, <2>6, <2>8, <2>9 DEF Linked, Follows
  <2>11. Past'
    BY <1>1, <1>3, <2>3 DEF FileOK, Past
  <2>12. FileHasNoHoles'
    BY <1>1, <2>1, HolesKept DEF FileOK
  <2> QED BY <1>1, <1>2, <2>10, <2>11, <2>12 DEF FileOK
<1>6. CASE GrabberWrites
  <2>1. /\ file' = Append(file, Whole(record)) /\ grabQueue' = grabQueue
        /\ grabber = "write" /\ grabber' = "dequeue"
    BY <1>6 DEF GrabberWrites
  <2>2. record \in Frames /\ Whole(record) \in Entries /\ Whole(record).frame = record
        /\ Whole(record).whole
    BY <2>1, EntryFacts DEF Typed, WorkOK
  <2>3. Torn => Whole(record) = Whole(Written)
    BY <1>1 DEF Linked
  <2>4. ~Torn => Link(Written, record, strays, overflowed, Open)
    BY <1>1, <2>1 DEF Linked, Follows
  <2>5. /\ FileHasNoHoles' /\ InFile' = InFile \cup {record}
        /\ Written' = record /\ ~Torn'
    BY <1>1, <2>1, <2>2, <2>3, <2>4, FileAppend DEF FileOK
  <2>6. Prior = record /\ Prior' = record /\ Newest' = Newest
    BY <2>1, <2>5 DEF Prior, Newest
  <2>7. Linked'
    BY <1>1, <1>3, <2>1, <2>5, <2>6 DEF Linked, Follows
  <2>8. Past'
    BY <1>1, <1>3, <2>1, <2>5 DEF FileOK, Past, Copies
  <2> QED BY <1>1, <1>2, <2>5, <2>7, <2>8 DEF FileOK
<1>7. CASE GrabberAborts \/ GrabberRetries
  <2>1. /\ grabber = "write" /\ FailedWrite /\ UNCHANGED <<grabQueue, record>>
        /\ grabber' = "ended" \/ grabber' = "write"
    BY <1>7 DEF GrabberAborts, GrabberRetries
  <2>2. /\ FileHasNoHoles' /\ InFile' \subseteq InFile \cup {record}
        /\ (Torn' = Torn /\ Written' = Written) \/ (Torn' /\ Written' = record)
    BY <1>1, <2>1, FileFailedWrite DEF FileOK
  <2>3. Past'
    BY <1>1, <1>3, <2>1, <2>2 DEF FileOK, Past, Copies
  <2>4. ASSUME Alive' PROVE Linked'
    <3>1. grabber' = "write"
      BY <1>1, <1>2, <2>1, <2>4 DEF Alive, Grabbing
    <3>2. Prior = record /\ Prior' = record /\ Newest' = Newest
      BY <2>1, <3>1 DEF Prior, Newest
    <3>3. /\ grabber' = "write" /\ ~Torn' => Follows(Written, record)'
          /\ Torn' => grabber' = "write" /\ Written' = record'
      BY <1>1, <1>3, <2>1, <2>2, <3>1 DEF Linked, Follows
    <3> QED BY <1>1, <1>3, <2>1, <3>2, <3>3 DEF Linked, Follows
  <2> QED BY <1>1, <1>2, <2>2, <2>3, <2>4 DEF FileOK
<1>8. CASE GrabberCannotSerialise
  <2>1. /\ UNCHANGED <<file, record>> /\ grabQueue # <<>> /\ grabQueue' = Tail(grabQueue)
        /\ grabber' = "ended"
    BY <1>8 DEF GrabberCannotSerialise
  <2>2. Copies' \subseteq Copies /\ InFile' = InFile
    BY <2>1, TailFacts DEF Copies, InFile, Typed, TypeOK
  <2>3. Past' /\ FileHasNoHoles'
    BY <1>1, <1>3, <2>1, <2>2, HolesKept DEF FileOK, Past
  <2> QED BY <1>1, <1>2, <2>1, <2>3 DEF FileOK, Alive, Grabbing
<1> QED BY <1>4, <1>5, <1>6, <1>7, <1>8 DEF Grabber

LEMMA FileUser ==
    ASSUME Typed, Lifetimes, FileOK, User
    PROVE  FileOK'
<1>1. UNCHANGED last /\ last \in Nat
  BY Numbers DEF User, Allocate, StartDevice, Opened, Close, GetFrame, FlushFrameQueue, CreateFile,
                 CreateFileFails, StopGrabbing, Returning, ClearGrabQueue, Enable, CreateThread,
                 CreateThreadFails, JoinGrabber, FinishStop, JoinDevice, CloseGrabber, FreeGrabber,
                 FreeRest, Disable
<1>2. CASE CreateFile
  <2>1. /\ file' = <<>> /\ main' = "clear" /\ ~enabled /\ main = "open"
        /\ UNCHANGED <<device, strays, grabQueue, record, grabber>>
    BY <1>2 DEF CreateFile
  <2>2. ~Grabbing' /\ ~Grabbing
    BY <2>1 DEF Lifetimes, Grabbing
  <2>3. InFile' = {} /\ FileHasNoHoles'
    BY <2>1, EmptyFacts DEF InFile, FileHasNoHoles
  <2>4. Past'
    BY <1>1, <2>1, <2>3 DEF FileOK, Past, Done, Held, Copies
  <2> QED BY <2>1, <2>2, <2>3, <2>4 DEF FileOK, Alive
<1>3. CASE ClearGrabQueue
  <2>1. /\ grabQueue' = <<>> /\ main' = "enable" /\ main = "clear" /\ strays' = {}
        /\ UNCHANGED <<device, file, record, grabber, enabled>>
    BY <1>3 DEF ClearGrabQueue, ForgetGrab
  <2>2. grabber' \in {"none", "ended"} /\ file' = <<>>
    BY <2>1 DEF Lifetimes, Grabbing, FileOK
  <2>3. InFile' = {} /\ FileHasNoHoles' /\ Copies' = {}
    BY <2>1, <2>2, EmptyFacts DEF InFile, FileHasNoHoles, Copies
  <2>4. Past'
    BY <2>1, <2>2, <2>3 DEF Past
  <2>5. Written' = 0 /\ Prior' = 0 /\ Newest' = 0 /\ Len(grabQueue') = 0 /\ ~Torn'
    BY <2>1, <2>2, EmptyFacts DEF Written, Prior, Newest, Torn
  <2>6. Linked'
    BY <2>1, <2>2, <2>5 DEF Linked
  <2> QED BY <2>1, <2>2, <2>3, <2>4, <2>6 DEF FileOK
<1>4. CASE Enable
  <2>1. /\ main = "enable" /\ main' = "create" /\ enabled'
        /\ UNCHANGED <<device, file, record, grabber, grabQueue, strays, overflowed>>
    BY <1>4 DEF Enable
  <2>2. grabber' \in {"none", "ended"} /\ grabber \in {"none", "ended"} /\ file = <<>>
    BY <2>1 DEF Lifetimes, Grabbing, FileOK
  <2>3. FileHasNoHoles' /\ Past'
    BY <1>1, <2>1, <2>2, HolesKept DEF FileOK, Past, InFile, Copies, Done, Held
  <2>4. Written' = 0 /\ Prior' = 0 /\ ~Torn'
    BY <2>1, <2>2 DEF Written, Prior, Torn
  <2>5. grabQueue = <<>> \/ (Len(grabQueue) = 1 /\ grabQueue[1] \in strays)
    BY <2>1 DEF FileOK
  <2>6. Newest' \in {0} \cup strays'
    BY <2>1, <2>4, <2>5 DEF Newest
  <2>7. Len(grabQueue') \in {0, 1}
    BY <2>1, <2>5, EmptyFacts
  <2>8. Linked'
    BY <2>2, <2>4, <2>6, <2>7 DEF Linked, Follows, Link
  <2> QED BY <2>1, <2>2, <2>3, <2>8 DEF FileOK
<1>5. CASE CreateThread
  <2>1. /\ UNCHANGED <<file, record, grabQueue, strays, overflowed, device, enabled>>
        /\ main = "create" /\ main' = "open" /\ grabber' = "open"
    BY <1>5 DEF CreateThread
  <2>2. grabber \in {"none", "ended"} /\ Alive
    BY <2>1 DEF Lifetimes, Grabbing, Alive
  <2>3. Done' = Done /\ (Open' => Open)
    BY <1>1, <2>1 DEF Done, Held, Open
  <2> QED BY <2>1, <2>2, <2>3, FileKept
<1>6. CASE FreeGrabber
  <2>1. /\ main = "freeGrabber" /\ main' = "freeRest" /\ grabQueue' = <<>>
        /\ UNCHANGED <<device, file, record, grabber, strays, overflowed>>
    BY <1>6 DEF FreeGrabber
  <2>2. ~Grabbing /\ ~Grabbing'
    BY <2>1 DEF Lifetimes, Grabbing
  <2>3. Copies' = {} /\ FileHasNoHoles'
    BY <2>1, EmptyFacts, HolesKept DEF FileOK, Copies
  <2>4. Past'
    BY <1>1, <2>1, <2>3 DEF FileOK, Past, Done, Held, InFile
  <2> QED BY <2>1, <2>2, <2>3, <2>4 DEF FileOK, Alive
<1>7. CASE ~(CreateFile \/ ClearGrabQueue \/ Enable \/ CreateThread \/ FreeGrabber)
  <2>1. /\ UNCHANGED <<file, record, grabQueue, strays, overflowed, grabber>>
        /\ enabled' => enabled
        /\ device' = device \/ (device = "none" /\ device' = "idle")
        /\ main' \in {"clear", "enable", "create"} => main' = main
    BY <1>7 DEF User, Allocate, StartDevice, Opened, Close, GetFrame, FlushFrameQueue,
                CreateFileFails, StopGrabbing, Returning, CreateThreadFails, JoinGrabber, FinishStop,
                JoinDevice, CloseGrabber, FreeRest, Disable
  <2>2. Done' = Done /\ (Open' => Open)
    BY <1>1, <2>1 DEF Done, Held, Open
  <2>3. Alive' => Alive
    BY <2>1 DEF Alive, Grabbing
  <2> QED BY <2>1, <2>2, <2>3, FileKept
<1> QED BY <1>2, <1>3, <1>4, <1>5, <1>6, <1>7

LEMMA FileInit == Init => FileOK
<1> SUFFICES ASSUME Init PROVE FileOK
  OBVIOUS
<1>1. Len(file) = 0 /\ Copies = {} /\ InFile = {}
  BY EmptyFacts DEF Init, Copies, InFile
<1> QED BY <1>1 DEF Init, FileOK, FileHasNoHoles, Past, Alive, Grabbing

LEMMA FileStep ==
    ASSUME Typed, Lifetimes, FileOK, [Next]_vars
    PROVE  FileOK'
<1>1. CASE UNCHANGED vars
  <2>1. /\ UNCHANGED <<file, record, grabQueue, strays, overflowed, grabber, main, device, last, enabled>>
    BY <1>1 DEF vars
  <2>2. Done' = Done /\ (Open' => Open) /\ (Alive' => Alive)
    BY <2>1 DEF Done, Held, Open, Alive, Grabbing
  <2> QED BY <2>1, <2>2, FileKept
<1> QED BY <1>1, FileDevice, FileGrabber, FileUser DEF Next

-----------------------------------------------------------------------------
(***************************************************************************)
(* The theorems                                                            *)
(***************************************************************************)
LEMMA IInvInit == Init => IInv
  BY TypeInit, LifetimesInit, OwnersInit, GrabInit, FileInit DEF IInv, Typed

LEMMA IInvStep == IInv /\ [Next]_vars => IInv'
<1> SUFFICES ASSUME IInv, [Next]_vars PROVE IInv'
  OBVIOUS
<1>1. Typed'
  BY TypeStep DEF IInv, Typed
<1>2. Lifetimes' /\ Owners' /\ GrabOK' /\ FileOK'
  BY LifetimesStep, OwnersStep, GrabStep, FileStep DEF IInv, Typed
<1> QED BY <1>1, <1>2 DEF IInv, Typed

LEMMA Invariant == Spec => []IInv
  BY IInvInit, IInvStep, PTL DEF Spec

\* Every variable keeps its type; in particular neither queue is ever longer than it
\* may be.
THEOREM TypeCorrect == Spec => []TypeOK
<1>1. IInv => TypeOK
  BY DEF IInv
<1> QED BY <1>1, Invariant, PTL

\* Neither the device's thread nor the grabbing thread ever uses what BTAopen has not
\* yet allocated or BTAclose has already freed.
THEOREM LifetimesCorrect == Spec => []UsesOnlyLive
<1>1. IInv => UsesOnlyLive
  BY DEF IInv, Lifetimes, UsesOnlyLive, InUse, Grabbing, All, Objects
<1> QED BY <1>1, Invariant, PTL

\* Every frame handed over has one owner, and none is left behind by a close.
THEOREM OwnersCorrect == Spec => []OneOwner
<1> DEFINE Places == {InHand, Queued, taken, freed}
<1>1. ASSUME IInv PROVE OneOwner
  <2>1. \A f \in 1 .. last :
            \E place \in Places : f \in place /\ \A other \in Places \ {place} : f \notin other
    <3> TAKE f \in 1 .. last
    <3>1. f \in InHand \/ f \in Queued \/ f \in taken \/ f \in freed
      BY <1>1 DEF IInv, Owners
    <3>2. PICK place \in Places : f \in place
      BY <3>1
    <3>3. \A other \in Places \ {place} : f \notin other
      BY <1>1, <3>2 DEF IInv, Owners
    <3> QED BY <3>2, <3>3
  <2>2. main = "closed" => InHand = {}
    BY <1>1 DEF IInv, Lifetimes, InUse, InHand
  <2> QED BY <1>1, <2>1, <2>2 DEF IInv, Owners, OneOwner, Queued
<1> QED BY <1>1, Invariant, PTL

\* When a stop has joined the grabbing thread, the frames grabbed before it are in the
\* file, unless they overflowed or came after the thread's last look at the queue.
THEOREM StopCorrect == Spec => []StopKeepsFrames
<1>1. ASSUME IInv PROVE StopKeepsFrames
  <2> SUFFICES ASSUME main = "header", handle = "joined", ~failed
               PROVE  due \subseteq Recorded \cup overflowed \cup unwatched
    BY DEF StopKeepsFrames
  <2>1. /\ due = grabbed /\ grabber = "ended"
        /\ grabbed \subseteq Recorded \cup overflowed \cup Copies
    BY <1>1 DEF IInv, GrabOK
  <2>2. ~enabled
    BY <1>1 DEF IInv, Lifetimes
  <2>3. grabbed \cap Copies \subseteq unwatched
    BY <1>1, <2>1, <2>2 DEF IInv, GrabOK, LastLook
  <2> QED BY <2>1, <2>3
<1> QED BY <1>1, Invariant, PTL

\* The file holds frames in the order of the device, and between two of them none is
\* missing that the queue had room for, but after a copy that came late; what failed
\* writes left of a record stands directly before the whole of it, or at the end.
THEOREM FileCorrect == Spec => []FileHasNoHoles
<1>1. IInv => FileHasNoHoles
  BY DEF IInv, FileOK
<1> QED BY <1>1, Invariant, PTL

-----------------------------------------------------------------------------
(***************************************************************************)
(* What lasts: the order of the frames, the user's frames, a hanging stop  *)
(***************************************************************************)
Ascending(s) == \A i, j \in 1 .. Len(s) : i < j => s[i] < s[j]

LEMMA AscendingAppend ==
    ASSUME NEW s \in Seq(Frames), Ascending(s), NEW e \in Frames, \A f \in ToSet(s) : f < e
    PROVE  Ascending(Append(s, e))
<1> DEFINE t == Append(s, e)
<1>1. /\ Len(t) = Len(s) + 1 /\ Len(s) \in Nat /\ t[Len(s) + 1] = e
      /\ \A i \in 1 .. Len(s) : t[i] = s[i]
      /\ DOMAIN s = 1 .. Len(s)
  BY AppendProperties, LenProperties
<1> HIDE DEF t
<1>2. \A i \in 1 .. Len(s) : s[i] < e
  BY <1>1 DEF ToSet
<1>3. ASSUME NEW i \in 1 .. Len(s) + 1, NEW j \in 1 .. Len(s) + 1, i < j
      PROVE  t[i] < t[j]
  <2>1. i \in 1 .. Len(s) /\ (j \in 1 .. Len(s) \/ j = Len(s) + 1)
    BY <1>1, <1>3
  <2> QED BY <1>1, <1>2, <1>3, <2>1 DEF Ascending
<1> QED BY <1>1, <1>3 DEF Ascending, t

LEMMA AscendingTail ==
    ASSUME NEW s \in Seq(Frames), Ascending(s), s # <<>>
    PROVE  Ascending(Tail(s)) /\ \A f \in ToSet(Tail(s)) : Head(s) < f
<1> DEFINE t == Tail(s)
<1>1. /\ Len(t) = Len(s) - 1 /\ Len(s) \in Nat /\ Len(s) > 0 /\ Head(s) = s[1]
      /\ \A i \in 1 .. Len(s) - 1 : t[i] = s[i + 1]
      /\ DOMAIN t = 1 .. Len(s) - 1
  BY HeadTailProperties, LenProperties, EmptySeq
<1> HIDE DEF t
<1>2. \A i \in 1 .. Len(s) - 1 : i + 1 \in 1 .. Len(s) /\ 1 \in 1 .. Len(s) /\ 1 < i + 1
  BY <1>1
<1>3. Ascending(t)
  BY <1>1, <1>2 DEF Ascending
<1>4. \A i \in 1 .. Len(s) - 1 : Head(s) < t[i]
  BY <1>1, <1>2 DEF Ascending
<1> QED BY <1>1, <1>3, <1>4 DEF ToSet, t

LEMMA AscendingStep ==
    ASSUME IInv, Ascending(frameQueue), [Next]_vars
    PROVE  Ascending(frameQueue')
<1>1. frameQueue \in Seq(Frames) /\ last \in 0 .. MaxFrames /\ MaxFrames \in Nat
  BY FramePathAssumption DEF IInv, TypeOK
<1>2. CASE Enqueue
  <2>1. last \in Frames /\ InHand = {last}
    BY <1>2 DEF Enqueue, IInv, WorkOK, InHand
  <2>2. \A f \in Queued : f < last
    <3>1. Queued \subseteq 1 .. last /\ last \notin Queued
      BY <2>1 DEF IInv, Owners
    <3> QED BY <1>1, <3>1
  <2>3. CASE UNCHANGED frameQueue
    BY <2>3
  <2>4. CASE frameQueue' = Append(frameQueue, last)
    BY <1>1, <2>1, <2>2, <2>4, AscendingAppend DEF Queued
  <2>5. CASE Len(frameQueue) = FrameQueueLength /\ frameQueue' = Append(Tail(frameQueue), last)
    <3>1. frameQueue # <<>>
      BY <2>5, EmptyFacts, FramePathAssumption
    <3>2. Tail(frameQueue) \in Seq(Frames) /\ Ascending(Tail(frameQueue))
          /\ ToSet(Tail(frameQueue)) \subseteq Queued
      BY <1>1, <3>1, TailFacts, AscendingTail DEF Queued
    <3> QED BY <2>1, <2>2, <2>5, <3>2, AscendingAppend
  <2> QED BY <1>2, <2>3, <2>4, <2>5 DEF Enqueue
<1>3. CASE GetFrame
  BY <1>1, <1>3, AscendingTail DEF GetFrame
<1>4. CASE FlushFrameQueue \/ FreeRest
  <2>1. frameQueue' = <<>>
    BY <1>4 DEF FlushFrameQueue, FreeRest
  <2> QED BY <2>1, EmptyFacts DEF Ascending
<1>5. CASE ~(Enqueue \/ GetFrame \/ FlushFrameQueue \/ FreeRest)
  <2>1. UNCHANGED frameQueue
    BY <1>5 DEF Next, vars, Device, HandOver, GrabLooks, GrabEnqueues, CallBack, DeviceEnds, Grabber,
                GrabberOpens, GrabberTakes, GrabberTimesOut, GrabberChecks, GrabberWrites,
                GrabberAborts, GrabberRetries, GrabberCannotSerialise, User, Returning, Allocate, StartDevice, Opened, Close,
                CreateFile, CreateFileFails, StopGrabbing, Disable, ClearGrabQueue, Enable,
                CreateThread, CreateThreadFails, JoinGrabber, FinishStop, JoinDevice, CloseGrabber,
                FreeGrabber
  <2> QED BY <2>1
<1> QED BY <1>2, <1>3, <1>4, <1>5

\* Frames only come, and what is freed or the user's stays so.
LEMMA Monotone ==
    ASSUME IInv, [Next]_vars
    PROVE  /\ last' \in {last, last + 1}
           /\ taken \subseteq taken' /\ freed \subseteq freed'
<1>1. CASE Device
  BY <1>1 DEF Device, HandOver, GrabLooks, GrabEnqueues, CallBack, Enqueue, DeviceEnds
<1>2. CASE Grabber \/ UNCHANGED vars
  BY <1>2 DEF vars, Grabber, GrabberOpens, GrabberTakes, GrabberTimesOut, GrabberChecks,
              GrabberWrites, GrabberAborts, GrabberRetries, GrabberCannotSerialise
<1>3. CASE User
  BY <1>3 DEF User, Returning, Allocate, StartDevice, Opened, Close, GetFrame, FlushFrameQueue,
              CreateFile, CreateFileFails, StopGrabbing, Disable, ClearGrabQueue, Enable,
              CreateThread, CreateThreadFails, JoinGrabber, FinishStop, JoinDevice, CloseGrabber,
              FreeGrabber, FreeRest
<1> QED BY <1>1, <1>2, <1>3 DEF Next

\* Whatever may still come to the frame queue or out of it is newer than f.
Passed(f) == f <= last /\ \A g \in Queued \cup InHand : f < g

LEMMA PassedStays ==
    ASSUME IInv, [Next]_vars, NEW f \in Frames, Passed(f)
    PROVE  Passed(f)'
<1>1. IInv'
  BY IInvStep
<1>2. /\ last \in Nat /\ last' \in {last, last + 1} /\ f \in Nat
      /\ taken \subseteq taken' /\ freed \subseteq freed'
  BY Monotone DEF IInv, TypeOK, Frames
<1>3. ASSUME NEW g \in (Queued \cup InHand)' PROVE f < g
  <2>1. g \in 1 .. last' /\ g \notin taken' /\ g \notin freed'
    BY <1>1, <1>3 DEF IInv, Owners
  <2>2. CASE g \in 1 .. last
    <3>1. g \in Queued \cup InHand
      BY <1>2, <2>1, <2>2 DEF IInv, Owners
    <3> QED BY <3>1 DEF Passed
  <2>3. CASE g = last + 1
    BY <1>2, <2>3 DEF Passed
  <2> QED BY <1>2, <2>1, <2>2, <2>3
<1> QED BY <1>2, <1>3 DEF Passed

LEMMA OldestPasses ==
    ASSUME IInv, Ascending(frameQueue), NEW f \in Frames, GetFrame, f = Head(frameQueue)
    PROVE  Passed(f)'
<1>1. frameQueue \in Seq(Frames) /\ frameQueue # <<>> /\ last \in Nat
  BY DEF IInv, TypeOK, GetFrame
<1>2. /\ frameQueue' = Tail(frameQueue) /\ UNCHANGED <<last, device>>
  BY DEF GetFrame
<1>3. f \in Queued /\ \A g \in Queued' : f < g
  BY <1>1, <1>2, TailFacts, AscendingTail DEF Queued
<1>4. f \in 1 .. last /\ f \notin InHand
  BY <1>3 DEF IInv, Owners
<1>5. InHand' = InHand /\ InHand \subseteq {last}
  BY <1>2 DEF InHand
<1>6. f <= last /\ \A g \in InHand : f < g
  BY <1>1, <1>4, <1>5
<1> QED BY <1>2, <1>3, <1>5, <1>6 DEF Passed

\* The user gets the frames of the queue in the order of the device: a frame taken
\* from it is older than all that are and ever will be queued (BTAgetFrame,
\* BVQenqueue).
THEOREM OrderCorrect ==
    ASSUME NEW f \in Frames
    PROVE  Spec => /\ [][GetFrame /\ f = Head(frameQueue) => Passed(f)']_vars
                   /\ [](Passed(f) => []Passed(f))
<1> DEFINE Sorted == Ascending(frameQueue)
           Gets == GetFrame /\ f = Head(frameQueue)
           P == Passed(f)
<1>1. Init => Sorted
  BY EmptyFacts DEF Init, Ascending
<1>2. IInv /\ Sorted /\ [Next]_vars => Sorted'
  BY AscendingStep
<1>3. IInv /\ Sorted /\ [Next]_vars => [Gets => P']_vars
  BY OldestPasses
<1>4. IInv /\ [Next]_vars /\ P => P'
  BY PassedStays
<1> HIDE DEF Sorted, Gets, P
<1>5. Spec => []Sorted
  BY <1>1, <1>2, Invariant, PTL DEF Spec
<1>6. Spec => [][Gets => P']_vars
  BY <1>3, <1>5, Invariant, PTL DEF Spec
<1>7. Spec => [](P => []P)
  BY <1>4, Invariant, PTL DEF Spec
<1> QED BY <1>6, <1>7 DEF Gets, P

Users(f) == f \in taken /\ f \notin freed \cup Queued \cup InHand

\* A frame the user has, from the callback or from the queue, stays his: it is never
\* queued, handed over or destroyed again, by a flush and by a close neither.
THEOREM TakenStays ==
    ASSUME NEW f \in Frames
    PROVE  Spec => [](f \in taken => []Users(f))
<1> DEFINE Mine == f \in taken
           P == Users(f)
<1>1. IInv => (Mine => P)
  BY DEF IInv, Owners, Users
<1>2. IInv /\ [Next]_vars /\ Mine => Mine'
  BY Monotone
<1> HIDE DEF Mine, P
<1>3. Spec => [](Mine => []Mine)
  BY <1>2, Invariant, PTL DEF Spec
<1>4. Spec => [](Mine => []P)
  BY <1>1, <1>3, Invariant, PTL
<1> QED BY <1>4 DEF Mine, P

Hanging == main = "header" /\ header = "missing"

\* A stop of a grab whose file has no header line looks for it forever, whatever else
\* happens: neither it nor the close that called it returns (BGRBstop).
THEOREM StopHangs == Spec => [](Hanging => []Hanging)
<1>1. Hanging /\ [Next]_vars => Hanging'
  <2> SUFFICES ASSUME Hanging, [Next]_vars PROVE Hanging'
    OBVIOUS
  <2>1. CASE Device
    BY <2>1 DEF Hanging, Device, HandOver, GrabLooks, GrabEnqueues, CallBack, Enqueue, DeviceEnds
  <2>2. CASE Grabber \/ UNCHANGED vars
    BY <2>2 DEF Hanging, vars, Grabber, GrabberOpens, GrabberTakes, GrabberTimesOut,
                GrabberChecks, GrabberWrites, GrabberAborts, GrabberRetries,
                GrabberCannotSerialise
  <2>3. CASE User
    BY <2>3 DEF Hanging, User, Returning, Allocate, StartDevice, Opened, Close, GetFrame,
                FlushFrameQueue, CreateFile, CreateFileFails, StopGrabbing, ClearGrabQueue, Enable,
                CreateThread, CreateThreadFails, JoinGrabber, FinishStop, JoinDevice,
                CloseGrabber, FreeGrabber, FreeRest
  <2> QED BY <2>1, <2>2, <2>3 DEF Next
<1> QED BY <1>1, PTL DEF Spec

=============================================================================
