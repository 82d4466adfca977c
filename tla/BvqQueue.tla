------------------------------- MODULE BvqQueue -------------------------------
(***************************************************************************)
(* The multi-purpose queue of common/bvq_queue.c.  The SDK uses it for the *)
(* user's frame queue, the grabbing queue, the internal queue of the       *)
(* bltstream player and the frame period statistics.  A ring of item       *)
(* pointers is guarded by queueMutex; semQueueCount counts the items, and  *)
(* a consumer waits for it BEFORE it takes the mutex, so that a consumer   *)
(* may own a token without owning an item yet.                             *)
(*                                                                         *)
(* Threads step between the synchronisation calls of the code.  The mutex  *)
(* hides everything inside a critical section except the semaphore, so a   *)
(* post or wait inside one is a step of its own.                           *)
(***************************************************************************)
EXTENDS Integers, Sequences, FiniteSets, SequencesExt

CONSTANTS Producers,    \* threads that call BVQenqueue
          Consumers,    \* threads that call BVQdequeue
          Flushers,     \* threads that call BVQclear
          QueueLength,  \* inst->queueLength
          MaxItems,     \* bound: the producers offer items 1..MaxItems
          Null          \* the null pointer

Threads == Producers \cup Consumers \cup Flushers
Items   == 1 .. MaxItems
Slots   == 0 .. QueueLength - 1
Modes   == {"DropOldest", "DropCurrent", "AvoidDrop"}
Labels  == {"idle", "store", "post", "count",    \* BVQenqueue
            "wait", "lock", "take",              \* BVQdequeue
            "clear", "clearWait"}                \* BVQclear

ASSUME LengthAssumption == QueueLength \in Nat \ {0} /\ MaxItems \in Nat
ASSUME ThreadAssumption == /\ Producers \cap Consumers = {}
                           /\ Producers \cap Flushers = {}
                           /\ Consumers \cap Flushers = {}
                           /\ IsFiniteSet(Consumers)
ASSUME NullAssumption == Null \notin Threads /\ Null \notin Items

VARIABLES
    queueMode,      \* inst->queueMode, fixed by BVQinit
    freeItem,       \* inst->freeItem # 0, fixed by BVQinit
    queue,          \* inst->queue, the ring
    queuePos,       \* inst->queuePos, index of the newest item
    queueCount,     \* inst->queueCount
    semQueueCount,  \* value of inst->semQueueCount
    queueMutex,     \* thread that holds inst->queueMutex, or Null
    pc,             \* where each thread is
    item,           \* the item each producer has in hand, or Null
    made,           \* number of items produced so far
    delivered,      \* history: items handed to consumers, in order
    freed           \* history: items destroyed by freeItem, in order

config == <<queueMode, freeItem>>
ring   == <<queue, queuePos, queueCount>>
ghost  == <<delivered, freed>>
vars   == <<config, ring, semQueueCount, queueMutex, pc, item, made, ghost>>

\* BVQinit with a length above 0 and a mode that queues.
Init ==
    /\ queueMode \in Modes
    /\ freeItem \in BOOLEAN
    /\ queue = [s \in Slots |-> Null]
    /\ queuePos = 0 /\ queueCount = 0 /\ semQueueCount = 0
    /\ queueMutex = Null
    /\ pc = [t \in Threads |-> "idle"]
    /\ item = [p \in Producers |-> Null]
    /\ made = 0
    /\ delivered = <<>> /\ freed = <<>>

-------------------------------------------------------------------------------
Goto(t, from, to) == pc[t] = from /\ pc' = [pc EXCEPT ![t] = to]
Lock(t)   == queueMutex = Null /\ queueMutex' = t
Unlock(t) == queueMutex = t /\ queueMutex' = Null

\* The slot of the oldest item; queuePos - queueCount + 1, wrapped if negative.
OldestOffByOne == IF queuePos >= queueCount THEN queuePos - queueCount
                  ELSE queuePos + QueueLength - queueCount
OldestIndex == IF queuePos + 1 >= queueCount THEN queuePos + 1 - queueCount
               ELSE queuePos + 1 + QueueLength - queueCount

\* queuePos after the increment and its wrap at queueLength.
AdvancedNoWrap(pos) == pos + 1
Advanced(pos) == IF pos + 1 = QueueLength THEN 0 ELSE pos + 1

\* What destroying an item adds to the history; without a freeItem callback the
\* item (then a plain number) is only forgotten.
FreedWith(x) == IF freeItem THEN Append(freed, x) ELSE freed

-------------------------------------------------------------------------------
(* BVQenqueue *)

\* A producer brings a new item, or the one an AvoidDrop queue refused before.
EnqLock(p) ==
    /\ Goto(p, "idle", "store")
    /\ Lock(p)
    /\ \/ /\ item[p] = Null /\ made < MaxItems
          /\ made' = made + 1
          /\ item' = [item EXCEPT ![p] = made + 1]
       \/ item[p] # Null /\ UNCHANGED <<made, item>>
    /\ UNCHANGED <<config, ring, semQueueCount, ghost>>

Store(p) == /\ queuePos' = Advanced(queuePos)
            /\ queue' = [queue EXCEPT ![Advanced(queuePos)] = item[p]]

\* There is room: the item goes into the ring, the post and the count follow.
EnqStore(p) ==
    /\ Goto(p, "store", "post")
    /\ queueCount < QueueLength
    /\ Store(p)
    /\ item' = [item EXCEPT ![p] = Null]
    /\ UNCHANGED <<config, queueCount, semQueueCount, queueMutex, made, ghost>>

EnqPost(p) ==
    /\ Goto(p, "post", "count")
    /\ semQueueCount' = semQueueCount + 1
    /\ UNCHANGED <<config, ring, queueMutex, item, made, ghost>>

EnqCount(p) ==
    /\ Goto(p, "count", "idle")
    /\ queueCount' = queueCount + 1
    /\ Unlock(p)
    /\ UNCHANGED <<config, queue, queuePos, semQueueCount, item, made, ghost>>

\* Full in mode DropOldest: the slot after the newest is the oldest; its item is
\* destroyed and replaced, and neither the count nor the semaphore changes.
EnqReplaceAndPost(p) ==
    /\ Goto(p, "store", "idle")
    /\ queueMode = "DropOldest" /\ queueCount = QueueLength
    /\ freed' = FreedWith(queue[Advanced(queuePos)])
    /\ Store(p)
    /\ semQueueCount' = semQueueCount + 1
    /\ item' = [item EXCEPT ![p] = Null]
    /\ Unlock(p)
    /\ UNCHANGED <<config, queueCount, made, delivered>>

EnqReplace(p) ==
    /\ Goto(p, "store", "idle")
    /\ queueMode = "DropOldest" /\ queueCount = QueueLength
    /\ freed' = FreedWith(queue[Advanced(queuePos)])
    /\ Store(p)
    /\ item' = [item EXCEPT ![p] = Null]
    /\ Unlock(p)
    /\ UNCHANGED <<config, queueCount, semQueueCount, made, delivered>>

\* Full in mode DropCurrent: the offered item is destroyed.
EnqForget(p) ==
    /\ Goto(p, "store", "idle")
    /\ queueMode = "DropCurrent" /\ queueCount = QueueLength
    /\ item' = [item EXCEPT ![p] = Null]
    /\ Unlock(p)
    /\ UNCHANGED <<config, ring, semQueueCount, made, ghost>>

EnqDrop(p) ==
    /\ Goto(p, "store", "idle")
    /\ queueMode = "DropCurrent" /\ queueCount = QueueLength
    /\ freed' = FreedWith(item[p])
    /\ item' = [item EXCEPT ![p] = Null]
    /\ Unlock(p)
    /\ UNCHANGED <<config, ring, semQueueCount, made, delivered>>

\* Full in mode AvoidDrop: BTA_StatusOutOfMemory, the caller keeps the item.
EnqRefuseLocked(p) ==
    /\ Goto(p, "store", "idle")
    /\ queueMode = "AvoidDrop" /\ queueCount = QueueLength
    /\ UNCHANGED <<config, ring, semQueueCount, queueMutex, item, made, ghost>>

EnqRefuse(p) ==
    /\ Goto(p, "store", "idle")
    /\ queueMode = "AvoidDrop" /\ queueCount = QueueLength
    /\ Unlock(p)
    /\ UNCHANGED <<config, ring, semQueueCount, item, made, ghost>>

-------------------------------------------------------------------------------
(* BVQdequeue with a timeout above 0 *)

DeqCall(c) ==
    /\ Goto(c, "idle", "wait")
    /\ UNCHANGED <<config, ring, semQueueCount, queueMutex, item, made, ghost>>

DeqAcquire(c) ==
    /\ Goto(c, "wait", "lock")
    /\ semQueueCount > 0
    /\ semQueueCount' = semQueueCount - 1
    /\ UNCHANGED <<config, ring, queueMutex, item, made, ghost>>

\* A timed wait expires only while the semaphore is at 0.
DeqTimeout(c) ==
    /\ Goto(c, "wait", "idle")
    /\ semQueueCount = 0
    /\ UNCHANGED <<config, ring, semQueueCount, queueMutex, item, made, ghost>>

DeqLock(c) ==
    /\ Goto(c, "lock", "take")
    /\ Lock(c)
    /\ UNCHANGED <<config, ring, semQueueCount, item, made, ghost>>

DeqTake(c) ==
    /\ Goto(c, "take", "idle")
    /\ delivered' = Append(delivered, queue[OldestIndex])
    /\ queueCount' = queueCount - 1
    /\ Unlock(c)
    /\ UNCHANGED <<config, queue, queuePos, semQueueCount, item, made, freed>>

-------------------------------------------------------------------------------
(* BVQclear: with the mutex held, destroy the oldest item, wait for the      *)
(* semaphore WITHOUT a timeout, decrement the count, until nothing is left.  *)

ClearLock(f) ==
    /\ Goto(f, "idle", "clear")
    /\ Lock(f)
    /\ UNCHANGED <<config, ring, semQueueCount, item, made, ghost>>

ClearFree(f) ==
    /\ Goto(f, "clear", "clearWait")
    /\ freeItem /\ queueCount > 0
    /\ freed' = FreedWith(queue[OldestIndex])
    /\ queue' = [queue EXCEPT ![OldestIndex] = Null]
    /\ UNCHANGED <<config, queuePos, queueCount, semQueueCount, queueMutex, item, made, delivered>>

ClearWait(f) ==
    /\ Goto(f, "clearWait", "clear")
    /\ semQueueCount > 0
    /\ semQueueCount' = semQueueCount - 1
    /\ queueCount' = queueCount - 1
    /\ UNCHANGED <<config, queue, queuePos, queueMutex, item, made, ghost>>

ClearUnlock(f) ==
    /\ Goto(f, "clear", "idle")
    /\ ~freeItem \/ queueCount = 0
    /\ Unlock(f)
    /\ UNCHANGED <<config, ring, semQueueCount, item, made, ghost>>

-------------------------------------------------------------------------------
Enqueue(p) == \/ EnqLock(p) \/ EnqStore(p) \/ EnqPost(p) \/ EnqCount(p)
              \/ EnqReplace(p) \/ EnqDrop(p) \/ EnqRefuse(p)
Dequeue(c) == DeqCall(c) \/ DeqAcquire(c) \/ DeqTimeout(c) \/ DeqLock(c) \/ DeqTake(c)
Clear(f)   == ClearLock(f) \/ ClearFree(f) \/ ClearWait(f) \/ ClearUnlock(f)

Next == \/ \E p \in Producers : Enqueue(p)
        \/ \E c \in Consumers : Dequeue(c)
        \/ \E f \in Flushers : Clear(f)

\* A thread inside a call keeps running; nobody is obliged to start one.  The
\* mutex is free again and again, because no critical section but BVQclear's
\* can block, so a thread that keeps asking for it gets it (strong fairness).
Fairness ==
    /\ \A p \in Producers :
         WF_vars(EnqStore(p) \/ EnqPost(p) \/ EnqCount(p) \/ EnqReplace(p)
                 \/ EnqDrop(p) \/ EnqRefuse(p))
    /\ \A c \in Consumers :
         WF_vars(DeqAcquire(c) \/ DeqTimeout(c) \/ DeqTake(c)) /\ SF_vars(DeqLock(c))
    /\ \A f \in Flushers :
         WF_vars(ClearFree(f) \/ ClearWait(f) \/ ClearUnlock(f))

Spec == Init /\ [][Next]_vars
FairSpec == Spec /\ Fairness

-------------------------------------------------------------------------------
(* Derived state *)

\* An item was stored by an enqueue that has not counted it yet; a clear has
\* destroyed the oldest item and still counts it.
Stored  == \E p \in Producers : pc[p] \in {"post", "count"}
Cleared == \E f \in Flushers : pc[f] = "clearWait"
Posted  == \E p \in Producers : pc[p] = "count"

\* Consumers that got past the semaphore and have not taken their item yet.
TokenHolders == {c \in Consumers : pc[c] \in {"lock", "take"}}

\* The slot k places behind the newest item.
Behind(k) == IF queuePos >= k THEN queuePos - k ELSE queuePos + QueueLength - k

\* The number of live items in the ring, and the items, oldest first.
Live == queueCount + (IF Stored THEN 1 ELSE 0) - (IF Cleared THEN 1 ELSE 0)
Buffer == [k \in 1 .. Live |-> queue[Behind(Live - k)]]

\* A clear that waits for a token somebody else took.
FlushBlocked == \E f \in Flushers : pc[f] = "clearWait" /\ semQueueCount = 0

-------------------------------------------------------------------------------
(* Properties *)

\* Every variable keeps its type; in particular queuePos stays inside the ring
\* and queueCount between 0 and the length (bvq_queue.c:32-33).
TypeOK ==
    /\ queueMode \in Modes /\ freeItem \in BOOLEAN
    /\ queue \in [Slots -> Items \cup {Null}]
    /\ queuePos \in Slots /\ queueCount \in 0 .. QueueLength
    /\ semQueueCount \in Nat
    /\ queueMutex \in Threads \cup {Null}
    /\ pc \in [Threads -> Labels]
    /\ item \in [Producers -> Items \cup {Null}]
    /\ made \in 0 .. MaxItems
    /\ delivered \in Seq(Items) /\ freed \in Seq(Items)

\* The semaphore and the ring agree: the tokens left in the semaphore and those
\* held by consumers between the wait and their item are exactly the counted
\* items, plus the one posted but not counted yet.  It is what makes the
\* decrement of the unsigned queueCount in BVQdequeue safe.
TokensMatchItems ==
    semQueueCount + Cardinality(TokenHolders) = queueCount + (IF Posted THEN 1 ELSE 0)

\* Every item made is in exactly one place: a producer's hand, the ring, a
\* consumer, or destroyed.  Without freeItem it may also be forgotten.  So no
\* frame is leaked, freed twice or used after it was freed.
CountIn(seq, x) == Cardinality({k \in DOMAIN seq : seq[k] = x})
Places(i) == Cardinality({p \in Producers : item[p] = i})
             + CountIn(Buffer, i) + CountIn(delivered, i) + CountIn(freed, i)
OneOwner == \A i \in 1 .. made : Places(i) = 1 \/ (~freeItem /\ Places(i) = 0)

\* The queue implements the bounded FIFO with the overflow rule of its mode,
\* as bta_ext.h:37-42 documents the modes.
Fifo == INSTANCE DropQueue
        WITH mode <- queueMode, owned <- freeItem, buffer <- Buffer
ImplementsFifo == Fifo!Spec

\* Every call returns, unless a BVQclear got stuck on the semaphore.
CallsReturn == \A t \in Threads : pc[t] # "idle" ~> (pc[t] = "idle" \/ FlushBlocked)

\* BTAgetFrame with a timeout above 0 returns ("Timeout to wait if no frame is
\* yet available in [ms]", bta.h:383), whatever other threads call.
GetFrameReturns == \A c \in Consumers : pc[c] = "wait" ~> pc[c] = "idle"
===============================================================================
