------------------------------ MODULE BltStream ------------------------------
(***************************************************************************)
(* Playback of a recorded stream (sdk/bta_stream.c: getFrameFromFile,      *)
(* bufferRunFunction, streamRunFunction, BTASTREAMsetLibParam,             *)
(* BTASTREAMclose), after BTASTREAMopen has started the stream thread.     *)
(*                                                                         *)
(* The stream thread shows frames at their time.  While playing it runs a  *)
(* buffer thread that reads ahead, forwards or backwards, into a queue in  *)
(* mode AvoidDrop.  While paused it serves seeks, for which the user's     *)
(* call waits.  All of them share speed, position and flags without a      *)
(* lock.  What happens to a frame once it is shown is FramePath's matter.  *)
(*                                                                         *)
(* Frames are their indices in the file.  The file is intact and memory    *)
(* does not run out.                                                       *)
(***************************************************************************)
EXTENDS Integers, Sequences

CONSTANTS FrameCount,   \* frames in the file
          QueueLength,  \* frameQueueInternalLength
          MaxCalls      \* bound: calls of the user

ASSUME StreamAssumption == /\ FrameCount \in Nat \ {0}
                           /\ QueueLength \in Nat \ {0}
                           /\ MaxCalls \in Nat

Indices == 0 .. FrameCount - 1
Signs   == -1 .. 1

VARIABLES
    speed,       \* sign of autoPlaybackSpeed
    seekTo,      \* frameIndexToSeek; FrameCount stands for all behind the end
    frameIndex,  \* of the frame shown last
    atFilePos,   \* frameIndexAtFilePos
    queue,       \* frameAndIndexQueueInst
    handle,      \* bufferThread is set
    abort,       \* abortBufferThread
    endReached,
    closing,
    stream,      \* where the stream thread is
    direction, peeked,
    buffer,      \* where the buffer thread is; it ends "done" or, by a pause, "paused"
    hand,        \* the frame it wants to enqueue
    user,        \* where the user's call is
    target,      \* the speed it is to set
    calls,
    lost,        \* history: frames the buffer thread dropped since the last positioning
    astray       \* history: the position in the file is not that of the frame shown

playVars   == <<speed, seekTo, frameIndex>>
fileVars   == <<atFilePos, lost, astray>>
threadVars == <<handle, abort, endReached>>
streamVars == <<stream, direction, peeked>>
bufferVars == <<buffer, hand>>
userVars   == <<closing, user, target, calls>>
vars == <<playVars, fileVars, queue, threadVars, streamVars, bufferVars, userVars>>

Init ==
    /\ speed = 0 /\ seekTo = -1 /\ frameIndex = -1
    /\ atFilePos = 0 /\ lost = {} /\ astray = FALSE
    /\ queue = <<>>
    /\ handle = FALSE /\ abort = FALSE /\ endReached = FALSE
    /\ stream = "loop" /\ direction = 0 /\ peeked = -1
    /\ buffer = "none" /\ hand = -1
    /\ closing = FALSE /\ user = "idle" /\ target = 0 /\ calls = 0

-----------------------------------------------------------------------------
(***************************************************************************)
(* The stream thread                                                       *)
(***************************************************************************)
\* getFrameFromFile succeeded for this index.
PositionAfter(index) == /\ atFilePos' = index + 1
                        /\ lost' = {} /\ astray' = FALSE

Loop ==
    /\ stream = "loop"
    /\ stream' = IF closing THEN "ended" ELSE IF speed # 0 THEN "turn" ELSE "idle"
    /\ UNCHANGED <<playVars, fileVars, queue, threadVars, direction, peeked, bufferVars, userVars>>

GoStraight ==
    /\ stream = "turn" /\ direction * speed >= 0
    /\ stream' = "direct"
    /\ UNCHANGED <<playVars, fileVars, queue, threadVars, direction, peeked, bufferVars, userVars>>

\* (What was read ahead stays queued.)
TurnRoundKeeps ==
    /\ stream = "turn" /\ direction * speed < 0 /\ frameIndex >= 0
    /\ PositionAfter(frameIndex)
    /\ stream' = "direct"
    /\ UNCHANGED <<playVars, queue, threadVars, direction, peeked, bufferVars, userVars>>

\* Playback goes on from the frame shown last.
TurnRound ==
    /\ stream = "turn" /\ direction * speed < 0 /\ frameIndex >= 0
    /\ queue' = <<>> /\ PositionAfter(frameIndex)
    /\ stream' = "direct"
    /\ UNCHANGED <<playVars, threadVars, direction, peeked, bufferVars, userVars>>

\* No frame was shown yet: there is none before the first, and the thread gives up.
TurnRoundFails ==
    /\ stream = "turn" /\ direction * speed < 0 /\ frameIndex < 0
    /\ queue' = <<>> /\ atFilePos' = 0
    /\ stream' = "ended"
    /\ UNCHANGED <<playVars, lost, astray, threadVars, direction, peeked, bufferVars, userVars>>

\* Playback in any direction would go on from the frame shown last.
Positioned == queue = <<>> /\ atFilePos = frameIndex + 1

\* The speed is read again: a pause in between counts as backwards.
Direct ==
    /\ stream = "direct"
    /\ direction' = IF speed > 0 THEN 1 ELSE -1
    /\ astray' = (astray \/ (direction' # direction /\ ~Positioned))
    /\ endReached' = FALSE /\ abort' = FALSE
    /\ stream' = "create"
    /\ UNCHANGED <<playVars, atFilePos, lost, queue, handle, peeked, bufferVars, userVars>>

\* The buffer thread may run before its handle is set.
CreateBuffer ==
    /\ stream = "create"
    /\ buffer' = "read" /\ stream' = "created"
    /\ UNCHANGED <<playVars, fileVars, queue, threadVars, direction, peeked, hand, userVars>>

CreateBufferFails ==
    /\ stream = "create"
    /\ stream' = "ended"
    /\ UNCHANGED <<playVars, fileVars, queue, threadVars, direction, peeked, bufferVars, userVars>>

BufferCreated ==
    /\ stream = "created"
    /\ handle' = TRUE /\ stream' = "play"
    /\ UNCHANGED <<playVars, fileVars, queue, abort, endReached, direction, peeked, bufferVars, userVars>>

Play ==
    /\ stream = "play"
    /\ stream' = IF speed # 0 /\ ~closing THEN "peek" ELSE "stop"
    /\ UNCHANGED <<playVars, fileVars, queue, threadVars, direction, peeked, bufferVars, userVars>>

Peek ==
    /\ stream = "peek" /\ queue # <<>>
    /\ peeked' = Head(queue) /\ stream' = "wait"
    /\ UNCHANGED <<playVars, fileVars, queue, threadVars, direction, bufferVars, userVars>>

PeekTimesOut ==
    /\ stream = "peek" /\ queue = <<>>
    /\ stream' = "empty"
    /\ UNCHANGED <<playVars, fileVars, queue, threadVars, direction, peeked, bufferVars, userVars>>

\* Meanwhile the buffer thread may have queued the last frames: they stay there.
Empty ==
    /\ stream = "empty"
    /\ speed' = IF endReached THEN 0 ELSE speed
    /\ stream' = "play"
    /\ UNCHANGED <<seekTo, frameIndex, fileVars, queue, threadVars, direction, peeked, bufferVars, userVars>>

Wait ==
    /\ stream = "wait"
    /\ stream' = IF speed # 0 /\ ~closing THEN "show" ELSE "play"
    /\ UNCHANGED <<playVars, fileVars, queue, threadVars, direction, peeked, bufferVars, userVars>>

\* The frame peeked at is shown, whichever is dequeued.
Show ==
    /\ stream = "show"
    /\ frameIndex' = peeked /\ queue' = Tail(queue)
    /\ stream' = "play"
    /\ UNCHANGED <<speed, seekTo, fileVars, threadVars, direction, peeked, bufferVars, userVars>>

Stop ==
    /\ stream = "stop"
    /\ abort' = TRUE /\ stream' = "join"
    /\ UNCHANGED <<playVars, fileVars, queue, handle, endReached, direction, peeked, bufferVars, userVars>>

\* (The buffer thread is left to itself.)
JoinBufferNot ==
    /\ stream = "join"
    /\ handle' = FALSE /\ stream' = "idle"
    /\ UNCHANGED <<playVars, fileVars, queue, abort, endReached, direction, peeked, bufferVars, userVars>>

JoinBuffer ==
    /\ stream = "join" /\ buffer \in {"done", "paused"}
    /\ buffer' = "none" /\ handle' = FALSE /\ stream' = "idle"
    /\ UNCHANGED <<playVars, fileVars, queue, abort, endReached, direction, peeked, hand, userVars>>

EndIdle ==
    /\ stream = "idle" /\ (speed # 0 \/ closing)
    /\ stream' = "loop"
    /\ UNCHANGED <<playVars, fileVars, queue, threadVars, direction, peeked, bufferVars, userVars>>

ServesSeek == stream = "idle" /\ speed = 0 /\ ~closing /\ seekTo >= 0

SeekSucceeds ==
    /\ ServesSeek /\ seekTo < FrameCount
    /\ queue' = <<>> /\ PositionAfter(seekTo)
    /\ frameIndex' = seekTo /\ seekTo' = -1
    /\ UNCHANGED <<speed, threadVars, streamVars, bufferVars, userVars>>

\* (The request is kept.)
SeekFailsKeeps ==
    /\ ServesSeek /\ seekTo = FrameCount
    /\ queue' = <<>> /\ atFilePos' = FrameCount /\ astray' = TRUE
    /\ UNCHANGED <<playVars, lost, threadVars, streamVars, bufferVars, userVars>>

\* There is no such frame, but looking for it has led to the end of the file.
SeekFails ==
    /\ ServesSeek /\ seekTo = FrameCount
    /\ queue' = <<>> /\ atFilePos' = FrameCount /\ astray' = TRUE
    /\ seekTo' = -1
    /\ UNCHANGED <<speed, frameIndex, lost, threadVars, streamVars, bufferVars, userVars>>

Stream == \/ Loop \/ GoStraight \/ TurnRound \/ TurnRoundFails \/ Direct
          \/ CreateBuffer \/ CreateBufferFails \/ BufferCreated
          \/ Play \/ Peek \/ PeekTimesOut \/ Empty \/ Wait \/ Show \/ Stop \/ JoinBuffer
          \/ EndIdle \/ SeekSucceeds \/ SeekFails

-----------------------------------------------------------------------------
(***************************************************************************)
(* The buffer thread                                                       *)
(***************************************************************************)
\* The next frame in the direction of the speed is deserialised, and the position
\* moves past it.
Reads(index, position) ==
    /\ hand' = index /\ atFilePos' = position
    /\ buffer' = "put"
    /\ astray' = (astray \/ direction # speed)
    /\ UNCHANGED <<playVars, lost, queue, threadVars, streamVars, userVars>>

BufferReadsForward ==
    /\ buffer = "read" /\ ~abort /\ speed > 0 /\ atFilePos < FrameCount
    /\ Reads(atFilePos, atFilePos + 1)

BufferReadsBackward ==
    /\ buffer = "read" /\ ~abort /\ speed < 0 /\ atFilePos > 0
    /\ Reads(atFilePos - 1, atFilePos - 1)

\* (The beginning of the file is no end.)
BufferMeetsEndOnly ==
    /\ buffer = "read" /\ ~abort
    /\ \/ speed > 0 /\ atFilePos = FrameCount /\ endReached' = TRUE
       \/ speed < 0 /\ atFilePos = 0 /\ UNCHANGED endReached
    /\ buffer' = "done"
    /\ UNCHANGED <<playVars, fileVars, queue, handle, abort, streamVars, hand, userVars>>

BufferMeetsEnd ==
    /\ buffer = "read" /\ ~abort
    /\ \/ speed > 0 /\ atFilePos = FrameCount
       \/ speed < 0 /\ atFilePos = 0
    /\ endReached' = TRUE /\ buffer' = "done"
    /\ UNCHANGED <<playVars, fileVars, queue, handle, abort, streamVars, hand, userVars>>

\* Told to, or by a pause.
BufferEnds ==
    /\ buffer = "read" /\ (abort \/ speed = 0)
    /\ buffer' = IF abort THEN "done" ELSE "paused"
    /\ UNCHANGED <<playVars, fileVars, queue, threadVars, streamVars, hand, userVars>>

\* (A full queue loses its oldest frame.)
BufferPutsOverOldest ==
    /\ buffer = "put" /\ ~abort
    /\ queue' = Append(IF Len(queue) < QueueLength THEN queue ELSE Tail(queue), hand)
    /\ buffer' = "read"
    /\ UNCHANGED <<playVars, fileVars, threadVars, streamVars, hand, userVars>>

\* (The queue grows.)
BufferPutsAlways ==
    /\ buffer = "put" /\ ~abort
    /\ queue' = Append(queue, hand) /\ buffer' = "read"
    /\ UNCHANGED <<playVars, fileVars, threadVars, streamVars, hand, userVars>>

\* A full queue is tried again and again.
BufferPuts ==
    /\ buffer = "put" /\ ~abort /\ Len(queue) < QueueLength
    /\ queue' = Append(queue, hand) /\ buffer' = "read"
    /\ UNCHANGED <<playVars, fileVars, threadVars, streamVars, hand, userVars>>

\* The frame is destroyed; the position stays behind it.
BufferDrops ==
    /\ buffer = "put" /\ abort
    /\ lost' = lost \cup {hand} /\ buffer' = "done"
    /\ UNCHANGED <<playVars, atFilePos, astray, queue, threadVars, streamVars, hand, userVars>>

Buffer == \/ BufferReadsForward \/ BufferReadsBackward \/ BufferMeetsEnd \/ BufferEnds
          \/ BufferPuts \/ BufferDrops

-----------------------------------------------------------------------------
(***************************************************************************)
(* The user's thread: BTASTREAMsetLibParam, BTASTREAMclose                 *)
(***************************************************************************)
Calls == user = "idle" /\ calls < MaxCalls /\ calls' = calls + 1

SetSpeed(value) ==
    /\ Calls /\ value * speed >= 0
    /\ speed' = value
    /\ UNCHANGED <<seekTo, frameIndex, fileVars, queue, threadVars, streamVars, bufferVars,
                   closing, user, target>>

\* A change of direction pauses until the buffer thread is gone.
Reverse(value) ==
    /\ Calls /\ value * speed < 0
    /\ speed' = 0 /\ target' = value /\ user' = "turning"
    /\ UNCHANGED <<seekTo, frameIndex, fileVars, queue, threadVars, streamVars, bufferVars, closing>>

SeesNoBuffer ==
    /\ user = "turning" /\ ~handle
    /\ user' = "assign"
    /\ UNCHANGED <<playVars, fileVars, queue, threadVars, streamVars, bufferVars, closing, target, calls>>

Assign ==
    /\ user = "assign"
    /\ speed' = target /\ user' = "idle"
    /\ UNCHANGED <<seekTo, frameIndex, fileVars, queue, threadVars, streamVars, bufferVars,
                   closing, target, calls>>

Seek(index) ==
    /\ Calls
    /\ speed' = 0 /\ seekTo' = index /\ user' = "seeking"
    /\ UNCHANGED <<frameIndex, fileVars, queue, threadVars, streamVars, bufferVars, closing, target>>

\* The frame shown last may be outdated when it is read.
Increment(value) == Seek(IF frameIndex + value < 0 THEN 0 ELSE frameIndex + value)

SeekReturns ==
    /\ user = "seeking" /\ seekTo < 0
    /\ user' = "idle"
    /\ UNCHANGED <<playVars, fileVars, queue, threadVars, streamVars, bufferVars, closing, target, calls>>

Close ==
    /\ user = "idle"
    /\ closing' = TRUE /\ user' = "joining"
    /\ UNCHANGED <<playVars, fileVars, queue, threadVars, streamVars, bufferVars, target, calls>>

JoinStream ==
    /\ user = "joining" /\ stream = "ended"
    /\ queue' = <<>> /\ user' = "closed"
    /\ UNCHANGED <<playVars, fileVars, threadVars, streamVars, bufferVars, closing, target, calls>>

UserGoesOn == SeesNoBuffer \/ Assign \/ SeekReturns \/ JoinStream

User == \/ \E value \in Signs : SetSpeed(value) \/ Reverse(value)
        \/ \E index \in 0 .. FrameCount : Seek(index)
        \/ \E value \in {-1, 1} : Increment(value)
        \/ UserGoesOn \/ Close

-----------------------------------------------------------------------------
Next == Stream \/ Buffer \/ User

\* Both threads run, and calls in progress go on.
Fairness == WF_vars(Stream) /\ WF_vars(Buffer) /\ WF_vars(UserGoesOn)

Spec == Init /\ [][Next]_vars /\ Fairness

-----------------------------------------------------------------------------
TypeOK ==
    /\ speed \in Signs /\ seekTo \in -1 .. FrameCount
    /\ frameIndex \in Indices \cup {-1}
    /\ atFilePos \in 0 .. FrameCount
    /\ queue \in Seq(Indices) /\ Len(queue) <= QueueLength
    /\ handle \in BOOLEAN /\ abort \in BOOLEAN /\ endReached \in BOOLEAN /\ closing \in BOOLEAN
    /\ stream \in {"loop", "turn", "direct", "create", "created", "play", "peek", "empty",
                   "wait", "show", "stop", "join", "idle", "ended"}
    /\ direction \in Signs /\ peeked \in Indices \cup {-1}
    /\ buffer \in {"none", "read", "put", "paused", "done"} /\ hand \in Indices \cup {-1}
    /\ user \in {"idle", "turning", "assign", "seeking", "joining", "closed"}
    /\ target \in Signs /\ calls \in 0 .. MaxCalls
    /\ lost \subseteq Indices /\ astray \in BOOLEAN

\* getFrameFromFile asserts that there is no buffer thread: whenever the stream thread
\* may call it, or has ended and lets the file be closed, the other one is gone, and
\* its handle tells so.
OneReader ==
    stream \in {"loop", "turn", "idle", "ended"} => buffer = "none" /\ ~handle

\* The frame the stream thread has peeked at is still the first of the queue, live, when
\* it is shown and another call of the queue removes "it".
PeekedIsHead ==
    stream \in {"wait", "show"} => queue # <<>> /\ Head(queue) = peeked

Shows == stream = "show" /\ stream' = "play"

\* While the user plays, pauses, resumes, seeks and turns round, each frame shown in
\* play is the neighbour of the one shown before it in the direction of play (going
\* backwards it may be the same one again), except for frames that the buffer thread
\* dropped at a pause.  A failed seek, and a pause or turn of the user's between two looks
\* of the stream thread at the speed, suspend this until the next positioning.
PlaysInOrder ==
    [][Shows /\ ~astray =>
         \/ /\ direction > 0 /\ frameIndex < frameIndex'
            /\ (frameIndex + 1) .. (frameIndex' - 1) \subseteq lost
         \/ /\ direction < 0 /\ frameIndex' <= frameIndex
            /\ (frameIndex' + 1) .. (frameIndex - 1) \subseteq lost]_vars

\* Calls that wait for one of the threads return, unless the stream thread has given up.
CallsReturn ==
    /\ user \in {"turning", "seeking"} ~> user = "idle" \/ (stream = "ended" /\ ~closing)
    /\ user = "joining" ~> user = "closed"

\* The buffer thread ended at a pause that was over before the stream thread saw it.
Stalled == /\ buffer = "paused"
           /\ stream \in {"created", "play", "peek", "empty", "wait", "show"}

\* Playback comes to an end of the file and stops by itself, whatever the user did
\* before, unless it stalls or the stream thread has given up.
PlaybackEnds == speed # 0 ~> speed = 0 \/ Stalled \/ stream = "ended"

=============================================================================
