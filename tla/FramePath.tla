------------------------------ MODULE FramePath ------------------------------
(***************************************************************************)
(* A frame's way from the device's thread to the user, and grabbing        *)
(* (sdk/bta_helper.c: BTApostprocessGrabCallbackEnqueue, BTAcallbackEnqueue;*)
(* sdk/bta_grabbing.c; sdk/bta.c: BTAopen, BTAclose, BTAgetFrame,          *)
(* BTAflushFrameQueue, BTAstartGrabbing).                                  *)
(*                                                                         *)
(* Three threads meet: the device's thread, which hands frame after frame  *)
(* to the grabber, the user's callback and the frame queue; the user's     *)
(* thread, which opens, takes frames, starts and stops grabs and closes;   *)
(* and the grabbing thread, which writes to the file.  The queues are      *)
(* those of DropQueue, which BvqQueue implements.                          *)
(*                                                                         *)
(* The device and its thread's inner life are external: it hands over a    *)
(* frame when it likes, ends when told to and is joined by winst->close.   *)
(***************************************************************************)
EXTENDS Integers, Sequences, SequencesExt

CONSTANTS FrameQueueLength,     \* configured by the user
          GrabbingQueueLength,
          MaxFrames, MaxGrabs   \* bounds: frames of the device, grabs started

ASSUME FramePathAssumption == /\ FrameQueueLength \in Nat \ {0}
                              /\ GrabbingQueueLength \in Nat \ {0}
                              /\ MaxFrames \in Nat /\ MaxGrabs \in Nat

Frames  == 1 .. MaxFrames
Modes   == {"DoNotQueue", "DropOldest", "DropCurrent"}   \* "AvoidDrop" is not for BTAopen
Objects == {"callbacks", "grabber", "frameQueue"}

\* What is written into the file: whole records, and beginnings of one.
Entries      == [frame : Frames, whole : BOOLEAN]
Whole(f)     == [frame |-> f, whole |-> TRUE]
Beginning(f) == [frame |-> f, whole |-> FALSE]

VARIABLES
    mode,        \* frameQueueMode
    main,        \* where the user's thread is
    objects,     \* what BTAopen allocated and BTAclose has not freed yet
    closing,     \* the device was told to end
    device,      \* where the device's thread is
    last,        \* the frame it handed over last, or is handing over
    frameQueue, taken, freed,    \* frames queued, in the user's hands, destroyed
    enabled,     \* grabbingEnabled
    grabQueue,   \* the grabber's copies of frames
    handle,      \* grabbingThread: "none", "valid" or "joined", a pointer to freed memory
    grabber,     \* where the grabbing thread is
    record,      \* the frame in its hand
    file,        \* what was written into it, a sequence of Entries
    header,      \* the header a stop will look for: "none" (no file), "written", "missing"
    grabs,
    failed,      \* history: the grabbing thread ended on an error
    grabbed, overflowed, unwatched, strays, due   \* histories, see below

deviceVars == <<device, last>>
frameVars  == <<frameQueue, taken, freed>>
startVars  == <<handle, header, grabs>>
threadVars == <<grabber, record, file, failed>>
history    == <<grabbed, overflowed, unwatched, strays, due>>
grabVars   == <<enabled, grabQueue, startVars, threadVars, history>>
vars == <<mode, main, objects, closing, deviceVars, frameVars, grabVars>>

Init ==
    /\ mode \in Modes
    /\ main = "begin" /\ objects = {} /\ closing = FALSE
    /\ device = "none" /\ last = 0
    /\ frameQueue = <<>> /\ taken = {} /\ freed = {}
    /\ enabled = FALSE /\ grabQueue = <<>> /\ handle = "none"
    /\ grabber = "none" /\ record = 0 /\ file = <<>> /\ header = "none"
    /\ grabs = 0 /\ failed = FALSE
    /\ grabbed = {} /\ overflowed = {} /\ unwatched = {} /\ strays = {} /\ due = {}

-----------------------------------------------------------------------------
(***************************************************************************)
(* The device's thread                                                     *)
(***************************************************************************)
HandOver ==
    /\ device = "idle" /\ ~closing /\ last < MaxFrames
    /\ last' = last + 1 /\ device' = "grab"
    /\ UNCHANGED <<mode, main, objects, closing, frameVars, grabVars>>

GrabLooks ==
    /\ device = "grab"
    /\ device' = IF enabled THEN "clone" ELSE "callback"
    /\ UNCHANGED <<mode, main, objects, closing, last, frameVars, grabVars>>

\* (A full queue grows.)
GrabEnqueuesUnbounded ==
    /\ device = "clone"
    /\ grabQueue' = Append(grabQueue, last) /\ UNCHANGED overflowed
    /\ grabbed' = IF enabled THEN grabbed \cup {last} ELSE grabbed
    /\ UNCHANGED <<unwatched, strays>>
    /\ device' = "callback"
    /\ UNCHANGED <<mode, main, objects, closing, last, frameVars,
                   enabled, startVars, threadVars, due>>

\* A copy is queued, in place of the oldest one if there is no room.  Meanwhile
\* grabbing may have been stopped, and the grabbing thread may look or not.
GrabEnqueues ==
    /\ device = "clone"
    /\ IF Len(grabQueue) < GrabbingQueueLength
       THEN grabQueue' = Append(grabQueue, last) /\ UNCHANGED overflowed
       ELSE /\ grabQueue' = Append(Tail(grabQueue), last)
            /\ overflowed' = overflowed \cup {Head(grabQueue)}
    /\ grabbed' = IF enabled THEN grabbed \cup {last} ELSE grabbed
    /\ unwatched' = IF enabled /\ grabber = "check" THEN unwatched \cup {last} ELSE unwatched
    /\ strays' = IF enabled THEN strays ELSE strays \cup {last}
    /\ device' = "callback"
    /\ UNCHANGED <<mode, main, objects, closing, last, frameVars,
                   enabled, startVars, threadVars, due>>

\* (A frame the user keeps is queued all the same.)
CallBackKeeps ==
    /\ device = "callback"
    /\ device' = "enqueue" /\ taken' \in {taken, taken \cup {last}}
    /\ UNCHANGED <<mode, main, objects, closing, last, frameQueue, freed, grabVars>>

\* The user's callback may keep the frame.
CallBack ==
    /\ device = "callback"
    /\ \/ device' = "idle" /\ taken' = taken \cup {last}
       \/ device' = "enqueue" /\ UNCHANGED taken
    /\ UNCHANGED <<mode, main, objects, closing, last, frameQueue, freed, grabVars>>

Enqueue ==
    /\ device = "enqueue"
    /\ device' = "idle"
    /\ \/ /\ mode = "DoNotQueue"
          /\ freed' = freed \cup {last} /\ UNCHANGED frameQueue
       \/ /\ mode # "DoNotQueue" /\ Len(frameQueue) < FrameQueueLength
          /\ frameQueue' = Append(frameQueue, last) /\ UNCHANGED freed
       \/ /\ mode = "DropOldest" /\ Len(frameQueue) = FrameQueueLength
          /\ freed' = freed \cup {Head(frameQueue)}
          /\ frameQueue' = Append(Tail(frameQueue), last)
       \/ /\ mode = "DropCurrent" /\ Len(frameQueue) = FrameQueueLength
          /\ freed' = freed \cup {last} /\ UNCHANGED frameQueue
    /\ UNCHANGED <<mode, main, objects, closing, last, taken, grabVars>>

DeviceEnds ==
    /\ device = "idle" /\ closing
    /\ device' = "ended"
    /\ UNCHANGED <<mode, main, objects, closing, last, frameVars, grabVars>>

Device == HandOver \/ GrabLooks \/ GrabEnqueues \/ CallBack \/ Enqueue \/ DeviceEnds

-----------------------------------------------------------------------------
(***************************************************************************)
(* The grabbing thread                                                     *)
(***************************************************************************)
threadKeeps == <<mode, main, objects, closing, deviceVars, frameVars, enabled, startVars, history>>

GrabberOpens ==
    /\ grabber = "open"
    /\ \/ grabber' = "dequeue" /\ UNCHANGED failed
       \/ grabber' = "ended" /\ failed' = TRUE
    /\ UNCHANGED <<threadKeeps, grabQueue, record, file>>

\* Serialising or compressing a frame fails: nothing of it is written.
GrabberCannotSerialise ==
    /\ grabber = "dequeue" /\ grabQueue # <<>>
    /\ grabQueue' = Tail(grabQueue)
    /\ grabber' = "ended" /\ failed' = TRUE
    /\ UNCHANGED <<threadKeeps, record, file>>

\* (The loop ends as soon as grabbing is disabled.)
GrabberTakesEnabled ==
    /\ grabber = "dequeue" /\ grabQueue # <<>>
    /\ IF enabled
       THEN record' = Head(grabQueue) /\ grabQueue' = Tail(grabQueue) /\ grabber' = "write"
       ELSE grabber' = "ended" /\ UNCHANGED <<record, grabQueue>>
    /\ UNCHANGED <<threadKeeps, file, failed>>

GrabberTakes ==
    /\ grabber = "dequeue" /\ grabQueue # <<>>
    /\ record' = Head(grabQueue) /\ grabQueue' = Tail(grabQueue)
    /\ grabber' = "write"
    /\ UNCHANGED <<threadKeeps, file, failed>>

GrabberTimesOut ==
    /\ grabber = "dequeue" /\ grabQueue = <<>>
    /\ grabber' = "check"
    /\ UNCHANGED <<threadKeeps, grabQueue, record, file, failed>>

\* Only after a time-out the thread looks whether it is to end.
GrabberChecks ==
    /\ grabber = "check"
    /\ grabber' = IF enabled THEN "dequeue" ELSE "ended"
    /\ UNCHANGED <<threadKeeps, grabQueue, record, file, failed>>

GrabberWrites ==
    /\ grabber = "write"
    /\ file' = Append(file, Whole(record))
    /\ record' = 0 /\ grabber' = "dequeue"
    /\ UNCHANGED <<threadKeeps, grabQueue, failed>>

\* A write that fails may have written a part, which stays in the file.  (The beginnings
\* that several failed writes of a record leave count as one.)
FailedWrite ==
    \/ UNCHANGED file
    \/ /\ Beginning(record) \notin ToSet(file)
       /\ file' = Append(file, Beginning(record))

\* After grabbing was stopped a failed write ends the thread.
GrabberAborts ==
    /\ grabber = "write" /\ ~enabled
    /\ FailedWrite
    /\ grabber' = "ended" /\ failed' = TRUE
    /\ UNCHANGED <<threadKeeps, grabQueue, record>>

\* (It is left at that.)
GrabberForgoes ==
    /\ grabber = "write" /\ enabled
    /\ FailedWrite
    /\ record' = 0 /\ grabber' = "dequeue"
    /\ UNCHANGED <<threadKeeps, grabQueue, failed>>

\* While grabbing is enabled, all of the record is written again.
GrabberRetries ==
    /\ grabber = "write" /\ enabled
    /\ FailedWrite
    /\ UNCHANGED <<threadKeeps, grabQueue, grabber, record, failed>>

Grabber == \/ GrabberOpens \/ GrabberCannotSerialise \/ GrabberTakes
           \/ GrabberTimesOut \/ GrabberChecks
           \/ GrabberWrites \/ GrabberAborts \/ GrabberRetries

-----------------------------------------------------------------------------
(***************************************************************************)
(* The user's thread: BTAopen                                              *)
(***************************************************************************)
userKeeps == <<mode, deviceVars, frameVars, threadVars>>

Allocate ==
    /\ main = "begin"
    /\ objects' = IF mode = "DoNotQueue" THEN Objects \ {"frameQueue"} ELSE Objects
    /\ main' = "opening"
    /\ UNCHANGED <<mode, closing, deviceVars, frameVars, grabVars>>

\* The device's thread starts before its open returns, and before BTAopen
\* has given the user the handle.
StartDevice ==
    /\ main = "opening" /\ device = "none"
    /\ device' = "idle"
    /\ UNCHANGED <<mode, main, objects, closing, last, frameVars, grabVars>>

Opened ==
    /\ main = "opening" /\ device # "none"
    /\ main' = "open"
    /\ UNCHANGED <<mode, objects, closing, deviceVars, frameVars, grabVars>>

\* A failed open and a close end alike.
Close ==
    /\ main \in {"opening", "open"}
    /\ main' = "closing" /\ closing' = TRUE
    /\ UNCHANGED <<mode, objects, deviceVars, frameVars, grabVars>>

(***************************************************************************)
(* BTAgetFrame, BTAflushFrameQueue                                         *)
(***************************************************************************)
GetFrame ==
    /\ main = "open" /\ frameQueue # <<>>
    /\ taken' = taken \cup {Head(frameQueue)}
    /\ frameQueue' = Tail(frameQueue)
    /\ UNCHANGED <<mode, main, objects, closing, deviceVars, freed, grabVars>>

FlushFrameQueue ==
    /\ main = "open" /\ frameQueue # <<>>
    /\ freed' = freed \cup ToSet(frameQueue)
    /\ frameQueue' = <<>>
    /\ UNCHANGED <<mode, main, objects, closing, deviceVars, taken, grabVars>>

(***************************************************************************)
(* BTAstartGrabbing with a configuration (BGRBstart)                       *)
(***************************************************************************)
\* The file is created; whether its header could be written is not looked at.
CreateFile ==
    /\ main = "open" /\ ~enabled /\ grabs < MaxGrabs
    /\ grabs' = grabs + 1
    /\ file' = <<>> /\ header' \in {"written", "missing"}
    /\ main' = "clear"
    /\ UNCHANGED <<mode, objects, closing, deviceVars, frameVars, enabled, grabQueue, handle,
                   grabber, record, failed, history>>

CreateFileFails ==
    /\ main = "open" /\ ~enabled /\ grabs < MaxGrabs
    /\ grabs' = grabs + 1 /\ header' = "none"
    /\ UNCHANGED <<mode, main, objects, closing, deviceVars, frameVars, enabled, grabQueue,
                   handle, threadVars, history>>

ForgetGrab == /\ grabbed' = {} /\ strays' = {} /\ overflowed' = {}
              /\ unwatched' = {} /\ due' = {}

\* (What the last grab left in the queue stays there.)
ClearGrabQueueNot ==
    /\ main = "clear"
    /\ main' = "enable" /\ ForgetGrab
    /\ UNCHANGED <<userKeeps, objects, closing, startVars, enabled, grabQueue>>

ClearGrabQueue ==
    /\ main = "clear"
    /\ grabQueue' = <<>> /\ main' = "enable" /\ ForgetGrab
    /\ UNCHANGED <<userKeeps, objects, closing, startVars, enabled>>

Enable ==
    /\ main = "enable"
    /\ enabled' = TRUE /\ main' = "create"
    /\ UNCHANGED <<userKeeps, objects, closing, startVars, grabQueue, history>>

CreateThread ==
    /\ main = "create"
    /\ handle' = "valid" /\ grabber' = "open" /\ failed' = FALSE
    /\ main' = "open"
    /\ UNCHANGED <<mode, objects, closing, deviceVars, frameVars, record, file, header,
                   grabs, enabled, grabQueue, history>>

\* Grabbing stays enabled.
CreateThreadFails ==
    /\ main = "create"
    /\ handle' = "none" /\ header' = "none"
    /\ main' = "open"
    /\ UNCHANGED <<userKeeps, objects, closing, grabs, enabled, grabQueue, history>>

(***************************************************************************)
(* BTAstartGrabbing with null (BGRBstop), and BTAclose                     *)
(***************************************************************************)
\* (The thread is joined first.)
DisableLater ==
    /\ UNCHANGED enabled /\ main' = "join" /\ due' = grabbed

Disable ==
    /\ enabled' = FALSE /\ main' = "join" /\ due' = grabbed

\* The user stops what he has started: a second stop would join a freed thread handle.
StopGrabbing ==
    /\ main = "open" /\ handle # "joined"
    /\ Disable
    /\ UNCHANGED <<userKeeps, objects, closing, startVars, grabQueue,
                   grabbed, overflowed, unwatched, strays>>

JoinGrabber ==
    /\ main = "join" /\ (handle = "none" \/ grabber = "ended")
    /\ handle' = IF handle = "none" THEN "none" ELSE "joined"
    /\ main' = "header"
    /\ UNCHANGED <<userKeeps, objects, closing, header, grabs, enabled, grabQueue, history>>

\* The line for the frame count is looked for in the file until it is found.
FinishStop ==
    /\ main = "header" /\ header # "missing"
    /\ header' = "none"
    /\ main' = IF closing THEN "freeGrabber" ELSE "open"
    /\ grabbed' = {} /\ unwatched' = {} /\ due' = {}
    /\ UNCHANGED <<userKeeps, objects, closing, handle, grabs, enabled, grabQueue,
                   overflowed, strays>>

\* (The device's thread is told to end, but not joined.)
JoinDeviceNot ==
    /\ main = "closing"
    /\ main' = "closeGrabber"
    /\ UNCHANGED <<mode, objects, closing, deviceVars, frameVars, grabVars>>

\* winst->close joins the device's thread before anything it uses is freed.
JoinDevice ==
    /\ main = "closing" /\ device \in {"none", "ended"}
    /\ main' = "closeGrabber"
    /\ UNCHANGED <<mode, objects, closing, deviceVars, frameVars, grabVars>>

CloseGrabber ==
    /\ main = "closeGrabber"
    /\ IF enabled THEN Disable ELSE main' = "freeGrabber" /\ UNCHANGED <<enabled, due>>
    /\ UNCHANGED <<userKeeps, objects, closing, startVars, grabQueue,
                   grabbed, overflowed, unwatched, strays>>

FreeGrabber ==
    /\ main = "freeGrabber"
    /\ objects' = objects \ {"grabber"} /\ grabQueue' = <<>>
    /\ main' = "freeRest"
    /\ UNCHANGED <<userKeeps, closing, startVars, enabled, history>>

FreeRest ==
    /\ main = "freeRest"
    /\ objects' = {}
    /\ freed' = freed \cup ToSet(frameQueue) /\ frameQueue' = <<>>
    /\ main' = "closed"
    /\ UNCHANGED <<mode, closing, deviceVars, taken, grabVars>>

Returning == \/ ClearGrabQueue \/ Enable \/ CreateThread \/ CreateThreadFails
             \/ JoinGrabber \/ FinishStop
             \/ JoinDevice \/ CloseGrabber \/ FreeGrabber \/ FreeRest

User == \/ Allocate \/ StartDevice \/ Opened \/ Close
        \/ GetFrame \/ FlushFrameQueue
        \/ CreateFile \/ CreateFileFails \/ StopGrabbing
        \/ Returning

-----------------------------------------------------------------------------
Next == Device \/ Grabber \/ User

\* While grabbing is enabled a write may fail again and again.
GrabberGoesOn == (grabber = "write" => ~enabled) /\ Grabber

\* The threads run, and calls in progress go on.
Fairness == WF_vars(Device) /\ WF_vars(GrabberGoesOn) /\ WF_vars(Returning)

Spec == Init /\ [][Next]_vars /\ Fairness

-----------------------------------------------------------------------------
TypeOK ==
    /\ mode \in Modes
    /\ main \in {"begin", "opening", "open", "clear", "enable", "create", "join", "header",
                 "closing", "closeGrabber", "freeGrabber", "freeRest", "closed"}
    /\ objects \subseteq Objects /\ closing \in BOOLEAN
    /\ device \in {"none", "idle", "grab", "clone", "callback", "enqueue", "ended"}
    /\ last \in 0 .. MaxFrames
    /\ frameQueue \in Seq(Frames) /\ Len(frameQueue) <= FrameQueueLength
    /\ grabQueue \in Seq(Frames) /\ Len(grabQueue) <= GrabbingQueueLength
    /\ taken \subseteq Frames /\ freed \subseteq Frames
    /\ enabled \in BOOLEAN /\ header \in {"none", "written", "missing"} /\ failed \in BOOLEAN
    /\ handle \in {"none", "valid", "joined"}
    /\ grabber \in {"none", "open", "dequeue", "check", "write", "ended"}
    /\ record \in 0 .. MaxFrames /\ file \in Seq(Entries)
    /\ grabs \in 0 .. MaxGrabs
    /\ grabbed \subseteq Frames /\ overflowed \subseteq Frames /\ unwatched \subseteq Frames
    /\ strays \subseteq Frames /\ due \subseteq Frames

InHand == IF device \in {"grab", "clone", "callback", "enqueue"} THEN {last} ELSE {}

\* Every frame handed over is in one place: in the device's hand, in the queue, with
\* the user, who must free it, or freed; and none is left behind by a close.
OneOwner ==
    /\ \A f \in 1 .. last :
          \E place \in {InHand, ToSet(frameQueue), taken, freed} :
             /\ f \in place
             /\ \A other \in {InHand, ToSet(frameQueue), taken, freed} \ {place} : f \notin other
    /\ IsInjective(frameQueue)
    /\ main = "closed" => ToSet(frameQueue) \cup InHand = {}

\* Neither the device's thread nor the grabbing thread ever uses what BTAopen has
\* not yet allocated or BTAclose has already freed.
UsesOnlyLive ==
    /\ device \in {"grab", "clone"} => "grabber" \in objects
    /\ device = "callback" => "callbacks" \in objects
    /\ device = "enqueue" /\ mode # "DoNotQueue" => "frameQueue" \in objects
    /\ grabber \notin {"none", "ended"} => "grabber" \in objects

\* The file holds frames in the order of the device, and between two of them none is
\* missing that the queue had room for.  Only the grab of a frame that began before the
\* last stop and ended after the start may put one before a gap.  What failed writes left
\* of a record stands nowhere but directly before the whole of it, or at the end.
FileHasNoHoles ==
    \A i \in 1 .. Len(file) - 1 :
        LET this == file[i].frame   next == file[i + 1].frame
        IN  IF file[i].whole
            THEN /\ this < next
                 /\ this \notin strays => \A f \in this + 1 .. next - 1 : f \in overflowed
            ELSE file[i + 1] = Whole(this)

Recorded == {f \in Frames : Whole(f) \in ToSet(file)}

\* Frames grabbed before a stop are in the file, whole, when the stop has joined the
\* thread, unless they overflowed, came between the thread's last look at the queue and
\* its look at grabbingEnabled, or the thread failed or was never there.
StopKeepsFrames ==
    main = "header" /\ handle = "joined" /\ ~failed =>
        due \subseteq Recorded \cup overflowed \cup unwatched

\* A stop and a close return, however many frames, write errors and calls there were,
\* if the header of the file was written.
StopAndCloseReturn ==
    /\ main = "join" ~> (main \in {"open", "closed"} \/ header = "missing")
    /\ closing ~> (main = "closed" \/ header = "missing")

=============================================================================
