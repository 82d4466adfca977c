# TLA+ models of the BltTofApi library

The BltTofApi library connects programs to Bluetechnix time-of-flight cameras. It
opens a device over Ethernet, USB or UART (or a recorded stream), reads registers,
receives frames and hands them to its user. This directory models the parts of it
in which threads, packets and queues meet. Paths below are relative to `src/`;
`PROJECT.json` maps every definition to the lines it models.

## 1. Inventory

| Component | State | Operations | Talks to |
|---|---|---|---|
| Item queue BVQ (`common/bvq_queue.c`), wrapped as frame queue BFQ (`sdk/bta_frame_queueing.c`) | ring, position, count, semaphore, mutex, mode | init, enqueue, dequeue, peek, clear, close | device threads enqueue; `BTAgetFrame`, the grabbing thread and the stream thread dequeue; `BTAflushFrameQueue` clears |
| Pointer FIFO BCB (`common/bcb_circular_buffer.c`) | ring, head, tail, full flag, mutex | put, get, size, reset, free | the two Ethernet threads |
| Packet buffers of the Ethernet stream (`sdk/bta_eth.c`, `common/memory_area.c`) | two BCBs, allocation count, the buffer in each thread's hand, version 1 arrays | open, udpRead thread, parseFrames thread, close | BCB, reassembly |
| Frame reassembly, version 2 (`sdk/bta_eth.c`) | `framesToParse`: counter, timestamp, packet counts and sizes, retries; `retransmissionSupport` | packet, NDA list, gap request, time-out, retry, give up | the device (data in, requests out); `BTAparseFrame` |
| Frame reassembly, version 1 | three arrays of packet pointers with counters | keep, evict, grow, complete | packet buffers |
| Ethernet connection (`sdk/bta_eth.c`) | control and data connection status, sockets, keep-alive time, `controlMutex` | monitor thread, keep-alive, send/receive of commands, reset | user threads through register functions |
| Shared-memory stream | semaphores and header shared with the camera process | shmRead thread | version 2 parser |
| Register access, flash update, discovery | answer buffers, progress, device list | read, write, flash, discover | control connection |
| API layer (`sdk/bta.c`) | handle, function pointers, queues, callbacks, library parameters | open, close, get/set frame parameters, library parameters | everything |
| Frame hand-over (`sdk/bta_helper.c`) | frame queue, grabbing, user's callback | parse, post-process, call back, enqueue | BVQ, grabbing |
| Grabbing (`sdk/bta_grabbing.c`) | queue, thread, enabled flag, file | start, grab, run, stop, close | BVQ, files |
| Stream playback (`sdk/bta_stream.c`, `bta_serialization.c`) | file position, index list, queue, direction, speed | buffer thread, stream thread, seek, parameters | BVQ, files |
| USB, UART, P100 | connection state, parser state of the byte stream | the same API over another wire | frame hand-over |
| Parsing and image processing, checksums, compression, OS wrappers | none between calls | functions | callers |

What is hard about them, and what being correct means:

* **BVQ**: a consumer waits for the semaphore before it takes the mutex, an enqueue
  posts before it counts, and a flush waits for the semaphore with the mutex held.
  Correct: a bounded FIFO with the overflow rule of its mode, every frame owned once,
  count and semaphore in step, calls with a time-out return.
* **BCB**: head = tail means empty or full. Correct: a bounded FIFO.
* **Packet buffers**: three threads pass a fixed stock of buffers round, with asserts
  instead of error paths, and `closing` may be set between any two steps. Correct: the
  asserts hold, no buffer is owned twice or lost, closing ends and frees.
* **Reassembly**: packets are lost, late, repeated and listed as not available;
  frames outnumber slots; requests fail. Correct: one slot per frame, counts agree
  with the data, frames leave in order, only what is missing is requested, every
  frame leaves in the end.
* **Connection**: several statuses and sockets checked outside locks, reconnection
  and time-outs. Correct: a lost connection is retried, answers go to their question.
* **API, hand-over, grabbing, stream**: threads that run while the structures they
  use are being set up or torn down. Correct: no use of what does not exist, no frame
  lost or delivered twice, every stop ends.

`PROJECT.json` lists the hazards line by line; those without a property belong to
details left out, as their notes say.

## 2. Modules and plan

| Step | Module | Models | Status |
|---|---|---|---|
| 1 | `BvqQueue`, implementing `DropQueue` | BVQ | checked, invariants and refinement proved |
| 2 | `BcbBuffer`, implementing `BoundedFifo` | BCB | checked, refinement proved |
| 3 | `EthPacketPool` | packet buffers, udpRead and parseFrames threads, close | checked, invariants proved |
| 4 | `EthReassembly` | version 2 reassembly and retransmission | checked, invariants proved |
| 5 | `EthControl`, implementing `RegisterService` | commands, probes and answers on an established control connection | checked, invariants and refinement proved |
| 6 | `EthConnection` | opening, the monitor's cycle, reconnecting, closing | checked, invariants proved |
| 7 | `FramePath` | open and close, hand-over to grabber, callback and queue, grabbing | checked, invariants proved |
| 8 | `BltStream` | the two threads of the player, seek, direction | checked, safety proved |
| 9 | version 1 reassembly, discovery list, USB, shared memory | | planned |

The modules stack as the code does: `EthPacketPool` treats its two queues as the
FIFOs that `BcbBuffer` is proved to implement (it never looks at a size, so only
the order and the refusal of a put to a full queue matter); `EthReassembly` takes
the packets that leave `packetsToParseQueue`; `EthControl` is about the inside of the
commands that are single steps of `EthConnection`; the frames that reassembly and
`BltStream` complete enter `FramePath`, whose queues, as the player's, are those of
`DropQueue`, which `BvqQueue` implements. No module declares a RECURSIVE operator.
`MC*` modules hold what only model checking needs. An operator whose comment
stands in parentheses, just before the definition it resembles, is a plausible
mistake in that definition, kept to show that the properties notice it.

## 3. The models

### BvqQueue

One `pc` per thread, with labels between the synchronisation calls of
`BVQenqueue`, `BVQdequeue` and `BVQclear`. The mutex hides what a critical section
does, so a section is one step, except around the semaphore, which others see
without the mutex: `EnqPost` and `EnqCount` are apart, and so are `ClearFree` and
`ClearWait`. `freeItem` says whether the queue was given a destructor (the frame
period queue is not). A producer whose item an `AvoidDrop` queue refuses keeps it
and may offer it again, as the code's callers do. `delivered` and `freed` are history
variables. The abstract content `Buffer` counts an item from the moment it is in
the ring, and no longer from the moment a flush destroyed it; with that mapping
each step is one of `DropQueue` or a stutter.

Bounds: `MaxItems` offers (5: the ring of two slots wraps and overflows with items to
spare). A dequeue with time-out 0 waits without a limit and one with a positive
time-out until it expires; only the second is modelled. `BVQpeek`, `BVQgetList`,
initialisation failures and `BVQclose` are left out.

### BcbBuffer

Each call holds the mutex from beginning to end, so a call is an action, and
`result` its answer. `Entries` maps the ring to the sequence of `BoundedFifo`.

### EthPacketPool

Packet *n* is the *n*-th buffer allocated. Three threads: the one in `BTAETHopen` and
`BTAETHclose` (`mainPc`), `udpReadRunFunction` (`udpPc`, `udpPacket`) and
`parseFramesRunFunction` (`parPc`, `packet`). Each step does at most one queue
operation and one look at `closing`. The content of a packet is abstract: whether the
parser rejects it, copies it (version 2) or keeps it in one of the arrays `framePacketsA`,
`B`, `C` (version 1), and in which place, is a choice. Slot 3·*i* + *s* is place *i* of
array *s*. `MaxFrameLen` bounds the doubling of the arrays. A null pointer that
is dereferenced ends the thread in the label "crashed".

Left out: reading from shared memory instead of UDP, and memory running out while
a complete version 1 frame is copied.

### EthReassembly

`slot` is `framesToParse`; a slot with timestamp 0 is free and only the length of its
arrays survives. `Receive` is the processing of one packet in the parser loop, from the
search of the slot to the parsing and the requests that follow; `GiveUp`, `Retry` and
`RetryFails` are the time-outs of a slot that the same loop looks at. `out` tells what
the last step handed to `BTAparseFrame` and which requests it made. `Read` keeps
what happens at an NDA entry outside the frame: the pointer is not advanced (lines 2201 to
2203), so it and all entries behind it are lost. The device
(`Send`, `Respond`) and the network are external: packets are lost and reordered, a
request is answered at any later time by packets, an NDA list, both or nothing.

Time is abstract. Timestamps matter by their order and by being equal (the clock
counts milliseconds), so `now` is a rank; a time-out may have passed whenever the
thread looks. Other abstractions: a packet with a wrong checksum, length or position is
a lost one; the device lists packets in ascending order, as requests name them (the
code looks for the first packet in the first entry only); the split of a request into
messages of 128 counters is not modelled; the network adds no duplicates of its own
(an original and its retransmission are two); the length of a frame is part of its
packet count, as both are rejected alike; `Streams` use different frame counters, so
the wrap of the 16-bit counter is not reached; memory does not run out. A place
beyond the previous frame's array, which the code reads at line 2355, holds
anything (`LooksOpen`).

### EthControl

Callers and the connection monitor run the same loop of attempts, `Command`. An
attempt starts with a transmission (`Send`, `SendFails`, `SendRefused`) and, if that
succeeds, keeps `controlMutex` until an answer was read or given up (`Accept`,
`Mismatch`, `GiveUp`, `GiveUpHalfway`); nobody else sees what happens between these
calls, so each is one step. The mutex is free between two attempts, and the number of
attempts, 1 over TCP and 3 over UDP, is chosen before the first one without it.
A behaviour uses one transport from beginning to end. `link` holds the state of
that connection, whether its socket is open and the failures counted
(`failcount`, not followed above the 2 at which `DetectLoss` acts). A UDP connection
that was lost goes on transmitting and is connected again by whatever it receives;
a TCP connection that was cut stays so here, and its answers are gone.

`Matches` is the comparison in `BTAparseControlHeader`. The number `n` of a
command is not in the code: it lets the properties tell whose answer was taken.
`applied`, `abandoned`, `intended` and `expected` are history variables. The device
and the network are external: over UDP requests are lost and executed in any order and
answers are lost; answers are read in the order they reached the host; over TCP
everything arrives in order until the socket closes, and what was sent before may
still be executed afterwards. The network adds no duplicates of its own.

Abstractions: a command accesses one register; wrong checksums and sizes of an answer
are not modelled (a datagram with such an error ends the command as a mismatch
does); payloads are not searched for a preamble while TCP looks for the next
answer; a TCP transmission that fails leaves no part of a request behind. Timers are
choices: a time-out may end any wait, and the monitor may probe whenever it is not in
a command. `RetrReqFails` stands for the retransmission requests of the parser
thread, which matter here only when they fail.

`RegisterService` is what the threads that share the connection may rely on: a command
reads or writes its register at one moment between its call and its return, or it
fails and has no effect. The mapping: a call in progress is the thread's `cmd`
(`calls`); it has taken effect when its answer is under way to the host, or the device
has executed it and its answer was lost (`replies`); `registers` are the device's. The promise ends
(`GoAstray`) with the first answer given up: nobody knows then whether the command was
executed, and its answer may be taken by another command. What still holds afterwards
is said by `StraysWereAbandoned` and `TcpReadIsCurrent`.

### EthConnection

The monitor thread (`monitor`), the thread in `BTAETHopen` or `BTAETHclose` (`main`) and
all others that issue commands (`Command`: users, and the parser with its
retransmission requests until a close has joined it). The monitor's cycle is cut at
the branches of `connectionMonitorRunFunction`, and between the registers that
`writeOrCheckDeviceUdpDataSettings` accesses, as others get `controlMutex` there.
A command holds that mutex from its first attempt to its answer or its failure and is
one step: `Answered`, or `Unanswered`, which covers what `transmit` and `receive`
leave behind in state, socket and `failcount` (`UdpFails`, `TcpFails`). A connect and
its first keep-alive hold the mutex, too. `Via` is the choice of the wire from the states.

The device is external. It restarts up to `MaxRestarts` times; it then does not know the
TCP connection (`peer`) and may have forgotten where to stream to (`stream`, the registers
that hold our address). `incomplete` is a history variable.

Abstractions: `connect` that succeeds at once counts as a failure in the code
(line 1105) and is among the failures; the order in which the automatic configuration
reads device type, local address and MAC address is kept only as far as their failures
differ; a register compared and found different ends the check as the code does, and
has no other effect; multicast groups and ports are left out; of what `BTAETHopen`
does after the connection is up only its failing is kept (`UserCloses`).

### FramePath

The device's thread (`device`) hands frame after frame to `BGRBgrab`, the callback and
the queue; the user's thread (`main`) opens, takes frames, flushes, starts and
stops grabs and closes; the grabbing thread (`grabber`) writes. Each step does at most
one access to what the others share: the look at `grabbingEnabled` and the enqueueing
of the copy are apart, and so are the grabber's time-out and its look. `objects`
are the things `BTAopen` allocates before it starts the device and `BTAclose` frees after
`winst->close` has joined the device's thread. The queues are those of `DropQueue`:
what happens inside their calls is `BvqQueue`'s matter.

`grabbed`, `overflowed`, `unwatched`, `strays`, `due` and `failed` are history variables:
frames grabbed in this grab, dropped by its full queue, queued between the
thread's time-out and its look, queued after the stop, and grabbed before the stop.

`file` is the sequence of what was written after the header: whole records, and the
beginnings that writes leave which fail after a part (`FailedWrite`; `BTAfLargeWrite`
reports an error then, and the part stays). The thread does not look at how much was
written: while grabbing is enabled it writes all of the remainder again
(`GrabberRetries`), else it ends (`GrabberAborts`). Serialising, compressing and
allocating may fail before anything is written (`GrabberCannotSerialise`).

Abstractions: a callback's only effect is to keep the frame or not; a record is taken from
the queue, serialised and compressed in one step and written in another; the beginnings
that several failed writes of one record leave count as one; what the C library keeps
in its buffer counts as written; failing allocations elsewhere are left out. The user ends his calls before he closes, and
stops only what he has started: a second stop would join a thread handle that was
freed (`pthread_helper.c:110`, `bta_grabbing.c:270`).

### BltStream

The stream thread (`stream`), the buffer thread it starts for each stretch of playback
(`buffer`) and the user's calls (`user`) share speed, position and flags without a lock;
each step reads or writes one of them, or a few of which no other thread sees the
parts. Of the speed only the sign matters. The queue works in mode AvoidDrop, and
nobody but the stream thread removes or flushes, so `DropQueue`'s steps are those
of a plain sequence. `BVQpeek` is `Peek` and `PeekTimesOut`. `atFilePos` is
`frameIndexAtFilePos`; `getFrameFromFile` finds any frame of an intact file, from any
position, and leaves the position behind it.

`lost` and `astray` are history variables: the frames the buffer thread dropped since
the last positioning, and whether playback does not go on from the frame shown last.

Abstractions: the file is intact, input and output do not fail, memory does not run out;
the formats of the file and the waiting for a frame's time are left out; one user thread
calls, and not from the callback.

## 4. What is checked

| Run | Shows | Bounds |
|---|---|---|
| `bvq` | `TypeOK`; `TokensMatchItems`: semaphore and tokens in hand equal the counted items; `OneOwner`: every item in one place; `ImplementsFifo`: refinement of `DropQueue`; `CallsReturn`, with a blocked flush as the only exception | 2 producers, 2 consumers, 1 flusher, 2 slots, 5 items, all modes |
| `bvq_flush` | violated: `GetFrameReturns` | the same |
| `bcb` | `ImplementsFifo`: refinement of `BoundedFifo` | 3 slots, 3 pointers |
| `eth_pool` | `PutsFindRoom`: asserts hold; `OneOwner`; `CloseFreesPackets`: a close frees all but the packet the parser had just got | 5 buffers, arrays of 3 × 1 |
| `eth_pool_live` | `CloseCompletes`, `ReceivedIsParsed` under fairness | 2 buffers, arrays growing from 1 to 2 |
| `eth_reassembly` | `OneSlotPerFrame`, `GotCountsData`, `HandedInOrder`, `OnlyMiscountedWait`: a frame of which nothing is missing waits only if a packet counts twice; `RequestsOnlyMissing` | 2 slots; 3 frames of 2 packets or 2 of 3; 2 messages under way, 1 attempt |
| `eth_reassembly_live` | `FrameLeaves` in every request mode | 2 frames of 2 packets |
| `eth_reassembly_nda` | violated: `CompleteIsComplete` | 1 frame of 3 packets |
| `eth_control` | `ExactUntilAbandoned`: until an answer is given up every success is the command's own; `StraysWereAbandoned`: no more is out of step than was given up; `TcpReadIsCurrent`: one late answer does not make a TCP read stale; `ImplementsService`: refinement of `RegisterService` (types: by proof only) | 1 caller and the monitor, 2 registers (one refused), 2 values, 2 commands over UDP, 3 over TCP |
| `eth_connection` | `SocketsMatchStates`; `OneControl`: after a connect the other control connection is out of use; `StreamComesHere`: after restarts and reconnections the device streams to this host; `OpenAndCloseReturn`; `LostIsRetried`, unless TCP is stuck | every configuration, 1 restart |
| `frame_path` | `OneOwner` of every frame; `UsesOnlyLive`: threads use only what is allocated; `FileHasNoHoles`: no frame is missing between two, and the beginning of a record stands only before the whole of it or at the end; `StopKeepsFrames`: what was grabbed before a stop is in the file, with the exceptions named; `StopAndCloseReturn`, if the file has its header | both queues of length 1, 3 frames, all modes; 2 grabs without a frame queue, 1 beside one that drops the oldest |
| `blt_stream` | `OneReader` of the file; `PeekedIsHead`; `PlaysInOrder`; `CallsReturn` unless the stream thread has given up; `PlaybackEnds` unless it stalls | 4 frames, a queue of 2, 4 calls and a close |

Why the bounds suffice. A second producer and a second consumer give every pair of
calls in progress; a ring of two slots wraps at once and is full, empty and in
between. Three slots of `BcbBuffer` make the length no power of two. With five buffers
the pool has room for both queues, both hands and an occupied array at a time, and
for the three NULLs of the cleanup next to two buffers (`CloseFreesPackets` is
about a cleanup whose NULLs fit); with two buffers the same NULLs do not fit and
the arrays overflow. Two slots for three frames force an eviction, three packets
give a gap in the middle and at the end, two messages under way are enough for
any reordering of neighbours and for an original behind its retransmission. A caller
and the monitor interleave at every attempt; over UDP two commands of up to three
attempts put six requests on the wire, and over TCP three commands are one to give up,
one to take the late answer and one to be affected by that. A restart of the device needs a
connection before and one after it, which one restart gives; further losses come from
the network without a bound. Queues of length 1 in `FramePath` are full after one
frame and overflow with the next; a third frame comes after a gap, and a second grab
finds what the first one left. A frame is grabbed before it is called back or queued, in
every mode alike, and the grabber sees of the frame queue only the pace of the device's
thread, which is arbitrary without it too: so the second grab is left to the mode without
a frame queue. Grabs are under no fairness, so this bound hides no failure to go on. In `BltStream` a queue of two, a frame in the buffer
thread's hand and one beyond leave something to read, to overtake and to drop; four
calls are enough to play, pause, resume and turn round, or to seek in between.

Deadlock checking is off where the system may stop: closed, blocked, or with nothing
left to offer within the bounds.

Fairness. `BvqQueue`: a thread inside a call keeps running, and one that keeps asking
for the mutex gets it (strong fairness); nobody has to start a call.
`EthPacketPool`: every wait of its threads has a time-out, so the threads move; nobody
has to close, and a paused udpRead thread may stay at its loop condition.
`EthReassembly`: the parser loops for ever, time passes, and requests can be
transmitted (with transmissions failing for good, an attempt is never counted and
a frame never given up, line 1848); nothing is assumed of device and network.
`EthConnection`: both threads run. The network heals: a connect tried again and again
comes up, a probe sent again and again is answered, and probes become due again and again
(strong fairness, as the monitor leaves the branch each cycle). Nothing is
assumed of restarts or commands. `FramePath`: the threads run and calls in progress go
on; a write may fail for ever while grabbing is enabled (`GrabberGoesOn`). `BltStream`: both threads run
and calls in progress go on; nobody has to call.
`EthControl` has no liveness property: its commands are bounded, and each ends because
its waits and its attempts are.

### What the runs found

1. **A flush and a dequeue can block each other for ever** (`bvq_flush`).
   `BVQclear` waits for the semaphore without a time-out and with the mutex held
   (`bvq_queue.c:121`); a dequeue that took its token and not yet the mutex
   completes the circle.
2. **A packet counts twice when it is received and listed as not available**
   (`eth_reassembly_nda`, `bta_eth.c:2206`), so that a frame with a hole is taken for
   complete and the hole is never requested.

Seen on the way and built into the models; the properties name these cases as
exceptions, or the instances avoid them where this is said.

* Packet buffers: the parser's cleanup puts NULLs into the fill queue that a udpRead
  thread past its loop condition may still receive into, and it accesses arrays that
  do not exist before its first pass and between an overflow and the next pass ("crashed",
  `bta_eth.c:2385`); the packet the parser has just got when a close begins
  is not freed.
* Reassembly: the packet that counts twice may also make the sum pass the total, which the
  test for equality (`bta_eth.c:2323`) never finds again: a frame of which nothing is missing
  stays until its time-out (in modes 0 and 1 `OnlyMiscountedWait` says that this is the
  only way); the case
  called "unreachable" at `bta_eth.c:2280` is reached when an original arrives after the
  list that declares it lost, and its data is thrown away;
  a packet that arrives after its frame was parsed opens the frame again; with all slots in use the oldest frame is dropped
  without being parsed; the end of the previous frame is looked for with the current
  frame's length (line 2355), so that after a longer frame follows a shorter one packets
  that were received are requested again (the streams of the run have frames of equal
  length; the theorem speaks of the time until frames of two lengths were sent).
* Commands: over UDP one late answer ends the next command for another register with
  an error that is not retried, and leaves that command's own answer for the one
  after it, and so on; the late answer to a write is taken by the next write to that
  register, which reports success though its own request may be lost; over TCP two
  answers given up can make a read return an old value, which is why
  `TcpReadIsCurrent` allows one.
* Connection: a TCP connection whose first keep-alive fails after some bytes were
  received keeps an open socket and the state Wanted, and is never tried again (`Stuck`;
  the comment at line 1134 expects the socket to be closed); when UDP comes back nobody
  writes the settings of the stream again, and when writing them fails it is not
  repeated before the next reconnection (`incomplete`); the automatic configuration needs
  the TCP address even if only UDP is used for control.
* Grabbing: a frame that arrives between the thread's time-out and its look at
  `grabbingEnabled` is not written (line 255); the search for the line of the frame count
  does not end if the header was not written (280; nothing looks at the result of
  writing it, 122); a write that fails after a part leaves that part before the whole
  record, which is written again (237 to 250), and a reader that walks the file by the
  lengths of the records goes astray there; a thread that cannot be created leaves grabbing enabled (128); the
  copy of a frame is not freed after it was written.
* Playback: a pause while the buffer thread waits for room drops the frame it holds, which
  is skipped on resuming (593); a pause that is over before the stream thread has
  seen it ends the buffer thread and leaves the player waiting for frames until the
  next pause (`Stalled`); the end of the file reached with frames still queued after a
  time-out of the peek pauses with those frames in the queue (804); a pause between
  the two looks at the speed counts as backwards (773 to 778); playing backwards and
  then forwards before any frame was shown makes the stream thread return (768), after
  freeing a frame that was never read; a seek behind the end reports success and leaves
  the position there.

## 5. What is proved

The proofs hold for every value of the constants that the named assumptions allow:
positive lengths, disjoint sets of threads of which the consumers are finitely
many, streams whose frames have different counters, a Null that is nothing else. Each
module with theorems has an inductive invariant `IInv`, or two where the second
builds on the first, and one lemma per action or group of actions. Three kinds of
results: the invariants and action properties of the runs; refinements; and what
lasts, of the form []( P => []P ): some of these say that a promise is kept for ever
(a frame given to the user stays his), others that a defect has no way out (a blocked
flush, a stuck connection, a stalled playback), however long the system runs.

* `BvqQueueProofs`: `TypeCorrect`, `TokensCorrect`, `OwnersCorrect`, `Refinement`,
  `OrderCorrect`, `FlushStaysBlocked`, `BlockedIsStill`. The
  tokens are not inductive alone: that the count stays within its bounds needs to know
  that an enqueue in progress found room, which needs the mutex to exclude other
  sections, which needs to know who is in one. `IInv` adds `RolesOK` (each thread in
  its own operation), `MutexOK` (holder = the thread in a critical section), `SectionOK`
  (what a thread has tested since it locked) and `WindowOK` (the live slots hold
  items). For the owners, the hands of the producers, `Buffer`, `delivered`, `freed`
  and the items not made yet are kept apart, with no item twice in one of them. The
  refinement maps each section to a step of `DropQueue` or a stutter by what it does to
  `Buffer`: an item stored at one end, taken from the other, replaced, or all freed.
  With one producer (the assumption of `OrderCorrect`; the SDK's queues have one) what
  was delivered, what `Buffer` holds and what the producer has in hand are ascending
  one after the other, so what is delivered ascends. A blocked flush holds the
  mutex; the tokens are all in hands (`TokensMatchItems`), so a consumer has one and waits
  for that mutex, and no step that would give a token back is possible.
* `BcbBufferProofs`: `TypeCorrect` and `Refinement`. The arithmetic of the wrap is in
  `Wrap` and `SlotProperties`; `PutAppends`, `GetTakesHead` and `ResetEmpties` say what
  a call does to `Entries`. `TypeOK` (with full ⇒ head = tail) is inductive.
* `EthPacketPoolProofs`: `TypeCorrect`, `RoomForEveryPut`, `OwnersCorrect`,
  `CloseCorrect`, `CrashesOnlyInClose`. `CountOK` bounds what queues, hands and arrays hold by what was
  allocated, as long as no NULL has been put; whoever is about to put has a buffer in
  hand (`HandsOK`), so there is room. NULLs come only after `closing`, when no put to
  the fill queue is asserted any more (`PhaseOK`), and then the udpRead thread puts at
  most once: `LastPutOK` keeps room for it, or shows that all buffers are gone and it
  cannot have one. For the owners, `Places` is counted for each packet: a step moves the
  packet from one place to another (`Moved`), creates it, or loses it where the
  parser does when closing (`GotForgets`, `CleanupMoves`). With room for the NULLs the
  cleanup loses none (`RingsOK` bounds the queues by allocations and places put back so
  far, `ArraysOK` says that nothing lies outside the arrays), so that at most one packet is
  lost (`LossOK`), and when all threads have ended the others are in `freed` (`EndsOK`).
  As the fill queue holds no NULL before the cleanup, a thread that dereferences one does
  so in a close.
* `EthReassemblyProofs`: `TypeCorrect`, `OneSlotCorrect`, `GotCorrect`,
  `OnlyMiscountedCorrect`, `RequestsCorrect`, `InOrderCorrect`, `CompleteCorrect`. `SlotOK` makes
  marks, counts and data of a slot agree: as many packets got as there is data, and at least
  as many NDA entries as places marked so, as each entry read counts; `SlotsOK` adds that the frames in use differ and were begun by the device, and
  `NetOK` that messages are about such frames; both are needed when a packet opens a
  slot. The clause for complete frames (`Waiting`) says that no frame whose sum
  equals the total stays, in modes 0 and 1 (in mode 2 a camera with retransmission leaves
  complete frames to their time-out, `bta_eth.c:2375`). `OnlyMiscountedCorrect` follows
  as the sum of a frame of which nothing is missing is never below the total, and equal to it
  if no packet counts twice (`CountedOnce`). `RequestsCorrect` holds in every state up to which the device began only
  frames of one packet count (`OneSize`): without that the statement is false (see
  section 4). `OneSize` can only become false, so a step that ends with it began
  with it. `CompleteCorrect` is about devices that do not retransmit (`~supported`):
  nothing is declared not available then (`Plain`), so a slot counts as complete only
  with all its data; with retransmission `eth_reassembly_nda` shows the opposite. For
  `HandedInOrder`, `RanksOccur` shows that every place in the order is taken by exactly one
  frame: ranks differ, so the frames fill all of them (`FS_Injection`).
* `EthControlProofs`: `TypeCorrect`, `StraysCorrect`, `ExactCorrect`, `ReadsCorrect`,
  `Refinement`.
  `ProgressOK` ties a thread's label to the mutex, to attempts left and to a proper
  request. `StraysWereAbandoned` is inductive with it: only the holder of the mutex has a
  message of its own under way, and giving up counts it. With nothing abandoned it leaves
  room for one message at most, and `FreshOK` says that this is the holder's own request or
  its own answer, made after the write was executed; so the answer read matches and
  `ExactUntilAbandoned` follows. Losses of the network only shorten the sequences
  (`Removed`, `CloseFewer`). Over TCP, requests and answers are one pipeline: `OwnLast`
  says that the holder's own message is its last, `HostCurrent` and `DeviceCurrent` that
  an answer to a read is out of date only if a write follows it. With one answer given up
  there are two messages, of which the last is the read itself, so no write follows
  the answer it takes. The refinement needs in addition that the numbers of commands tell
  them apart and that a command whose request is not yet executed is not among the
  executed ones (`Numbers`): the device's execution is then the abstract one, reading the
  answer the abstract return, transmissions and lost connections are stutters, and a
  command that fails without giving up an answer has no request under way.
* `EthConnectionProofs`: `TypeCorrect`, `SocketsCorrect`, `OneControlCorrect`,
  `StreamCorrect`, `WireForLife`, `StuckForGood`. `LinkOK` holds of states and sockets throughout, `Places` says
  what the labels of monitor and main tell about each other, and `SettingsOK` which
  registers are known to be written at each place of the cycle. A connection whose
  state is out of use (`OutOfUse`) stays so in every step (`LinkSteps`), which gives
  `WireForLife`; a stuck TCP connection leaves none of the monitor's branches open.
* `FramePathProofs`: `TypeCorrect`, `LifetimesCorrect`, `OwnersCorrect`, `StopCorrect`,
  `FileCorrect`, `OrderCorrect`, `TakenStays`, `StopHangs`. `Lifetimes` derives what is allocated and which threads run from the place
  of the user's thread; `Owners` partitions the frames; `GrabOK` says where the frames of
  the present grab are, also between the thread's last look at the queue and its end;
  `FileOK` that each copy follows the one before it (`Link`), in the file, in the
  thread's hand and in the queue, a late copy being the first or the last of its grab, and
  that while the thread lives only the record in hand has a beginning
  at the end of the file. The queue and the frame in
  the device's hand ascend, so a frame the user takes is older than all the others
  (`Passed`), and stays so; what he has is in none of the other places (`Owners`).
* `BltStreamProofs`: `TypeCorrect`, `OneReaderCorrect`, `PeekedIsHeadCorrect`,
  `OrderCorrect`, `StallsForGood`. `NoBuffer` says where in the stream thread no buffer thread exists;
  `Forward` and `Backward` order the frame shown, the queue, the frame in hand
  and the position in the file, and say that nothing between is missing but
  what was dropped. While the buffer thread may still meet the end of the file no
  end was reported (`NoEndYet`), so that in a stall the stream thread has no reason
  to stop.

Model-checked only: the liveness properties `CallsReturn` (queue and player),
`CloseCompletes`, `ReceivedIsParsed`, `FrameLeaves`, `OpenAndCloseReturn`, `LostIsRetried`,
`StopAndCloseReturn` and `PlaybackEnds`, as fairness is out of the prover's reach. The
exceptions these name are made precise by theorems: `FlushStaysBlocked`,
`CrashesOnlyInClose`, `StuckForGood`, `StopHangs` and `StallsForGood` say that a system
in the exceptional state does not leave it by itself, or when it gets there. Every safety
property of a passing run is a theorem.

## 6. What is not modelled

Planned: step 9. Not planned: parsing of frames, the image
filters, calibration and checksums (arithmetic without state between calls), JPG, LZMA
and the fast bilateral filter (third-party code), `sdk/inc` and `sdk/lib` (vendored
headers and binaries), the operating system wrappers (their mutexes, counting
semaphores and joins are part of the models that use them), the P100 driver
(sequential calls of a vendor library).

## 7. Running

    tlc -config MCBvqQueue.cfg MCBvqQueue
    tlapm BvqQueueProofs.tla

Each `.cfg` belongs to the module in `PROJECT.json`'s list of runs. The largest, `eth_pool`,
`eth_reassembly` and `frame_path`, visit 3.0, 1.4 and 1.0 million states.
