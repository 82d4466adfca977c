---------------------------- MODULE BvqQueueProofs ----------------------------
(***************************************************************************)
(* Theorems about BvqQueue for any number of threads, items and slots: the *)
(* type invariant, the agreement of semaphore and ring, that every item    *)
(* has one owner, that the queue implements DropQueue, that one producer's *)
(* items are delivered in order, and that a flush that waits for a token   *)
(* which was taken ends the life of the queue.                             *)
(***************************************************************************)
EXTENDS BvqQueue, FiniteSetTheorems, SequenceTheorems, TLAPS

Critical == {"store", "post", "count", "take", "clear", "clearWait"}

\* Each kind of thread stays in its own operation.
RolesOK ==
    /\ \A p \in Producers : pc[p] \in {"idle", "store", "post", "count"}
    /\ \A c \in Consumers : pc[c] \in {"idle", "wait", "lock", "take"}
    /\ \A f \in Flushers  : pc[f] \in {"idle", "clear", "clearWait"}

\* The mutex is held exactly by the thread inside a critical section.
MutexOK == \A t \in Threads : pc[t] \in Critical <=> queueMutex = t

\* What a thread knows inside its critical section.
SectionOK ==
    /\ \A p \in Producers : pc[p] = "store" => item[p] \in Items
    /\ \A p \in Producers : pc[p] \in {"post", "count"} => queueCount < QueueLength
    /\ \A f \in Flushers : pc[f] = "clearWait" => queueCount > 0

\* The live slots of the ring hold items.
WindowOK == \A k \in 0 .. Live - 1 : queue[Behind(k)] \in Items

IInv == TypeOK /\ RolesOK /\ MutexOK /\ SectionOK /\ WindowOK /\ TokensMatchItems

-------------------------------------------------------------------------------
(* The ring *)

\* Arithmetic of the ring: behind the advanced position lie the same slots one
\* place further, and none of the first QueueLength - 1 is the new one.
LEMMA BehindAdvanced ==
    ASSUME queuePos \in Slots, queuePos' = Advanced(queuePos),
           NEW k \in 1 .. QueueLength - 1
    PROVE  /\ Behind(k)' = Behind(k - 1)
           /\ Behind(k - 1) # queuePos'
           /\ Behind(k - 1) \in Slots
BY LengthAssumption DEF Slots, Advanced, Behind

\* Different distances behind the newest item are different slots.
LEMMA BehindInjective ==
    ASSUME queuePos \in Slots,
           NEW j \in 0 .. QueueLength - 1, NEW k \in 0 .. QueueLength - 1, j # k
    PROVE  Behind(j) # Behind(k) /\ Behind(j) \in Slots
BY LengthAssumption DEF Slots, Behind

\* The oldest counted item is queueCount - 1 places behind the newest.
LEMMA OldestIsLast ==
    ASSUME queuePos \in Slots, queueCount \in 1 .. QueueLength
    PROVE  OldestIndex = Behind(queueCount - 1) /\ OldestIndex \in Slots
BY LengthAssumption DEF Slots, Behind, OldestIndex

\* Advancing stays inside the ring, and lands on the new newest slot.
LEMMA AdvancedInRing ==
    ASSUME queuePos \in Slots
    PROVE  Advanced(queuePos) \in Slots
BY LengthAssumption DEF Slots, Advanced

-------------------------------------------------------------------------------
(* Who is where *)

\* Inside a critical section a thread is alone.
LEMMA Alone ==
    ASSUME IInv, NEW t \in Threads, pc[t] \in Critical
    PROVE  /\ queueMutex = t
           /\ \A u \in Threads \ {t} : pc[u] \notin Critical
           /\ Stored <=> pc[t] \in {"post", "count"}
           /\ Posted <=> pc[t] = "count"
           /\ Cleared <=> pc[t] = "clearWait"
<1>1. queueMutex = t /\ \A u \in Threads \ {t} : pc[u] \notin Critical
  BY DEF IInv, MutexOK
<1>2. \A p \in Producers : pc[p] \in {"idle", "store", "post", "count"} /\ p \in Threads
  BY DEF IInv, RolesOK, Threads
<1>3. \A f \in Flushers : pc[f] \in {"idle", "clear", "clearWait"} /\ f \in Threads
  BY DEF IInv, RolesOK, Threads
<1>4. \A c \in Consumers : pc[c] \in {"idle", "wait", "lock", "take"} /\ c \in Threads
  BY DEF IInv, RolesOK, Threads
<1>5. t \in Producers \/ t \in Consumers \/ t \in Flushers
  BY DEF Threads
<1>6. Stored <=> pc[t] \in {"post", "count"}
  BY <1>1, <1>2, <1>3, <1>4, <1>5 DEF Stored, Critical
<1>7. Posted <=> pc[t] = "count"
  BY <1>1, <1>2, <1>3, <1>4, <1>5 DEF Posted, Critical
<1>8. Cleared <=> pc[t] = "clearWait"
  BY <1>1, <1>2, <1>3, <1>4, <1>5 DEF Cleared, Critical
<1>. QED BY <1>1, <1>6, <1>7, <1>8

\* While the mutex is free nobody is inside a critical section.
LEMMA Nobody ==
    ASSUME IInv, queueMutex = Null
    PROVE  ~Stored /\ ~Posted /\ ~Cleared /\ \A t \in Threads : pc[t] \notin Critical
<1>1. \A t \in Threads : pc[t] \notin Critical
  BY NullAssumption DEF IInv, MutexOK
<1>2. \A p \in Producers : p \in Threads
  BY DEF Threads
<1>3. \A f \in Flushers : f \in Threads
  BY DEF Threads
<1>. QED BY <1>1, <1>2, <1>3 DEF Stored, Posted, Cleared, Critical

\* The token holders are a finite set, counted by a natural number.
LEMMA HoldersFinite ==
    /\ IsFiniteSet(TokenHolders)
    /\ Cardinality(TokenHolders) \in Nat
<1>1. TokenHolders \in SUBSET Consumers
  BY DEF TokenHolders
<1>. QED BY <1>1, FS_Subset, FS_CardinalityType, ThreadAssumption

\* A step of a thread that is no consumer changes no token holder.
LEMMA SameHolders ==
    ASSUME \A c \in Consumers : pc'[c] = pc[c]
    PROVE  TokenHolders' = TokenHolders
BY DEF TokenHolders

-------------------------------------------------------------------------------
(* Preservation, one lemma per kind of step *)

\* Taking the mutex on entry, giving it back on exit and keeping it in between
\* preserve mutual exclusion.
LEMMA MutexKept ==
    ASSUME IInv, NEW t \in Threads, NEW from, NEW to, Goto(t, from, to),
           \/ Lock(t) /\ to \in Critical
           \/ Unlock(t) /\ to \notin Critical
           \/ UNCHANGED queueMutex /\ (from \in Critical <=> to \in Critical)
    PROVE  MutexOK'
<1>1. pc' = [pc EXCEPT ![t] = to] /\ pc \in [Threads -> Labels] /\ pc[t] = from
  BY DEF Goto, IInv, TypeOK
<1>2. \A u \in Threads : pc[u] \in Critical <=> queueMutex = u
  BY DEF IInv, MutexOK
<1>3. SUFFICES ASSUME NEW u \in Threads
               PROVE  pc'[u] \in Critical <=> queueMutex' = u
  BY DEF MutexOK, Critical
<1>4. pc'[u] = IF u = t THEN to ELSE pc[u]
  BY <1>1
<1>5. CASE Lock(t) /\ to \in Critical
  BY <1>2, <1>4, <1>5, NullAssumption DEF Lock
<1>6. CASE Unlock(t) /\ to \notin Critical
  BY <1>2, <1>4, <1>6, NullAssumption DEF Unlock
<1>7. CASE UNCHANGED queueMutex /\ (from \in Critical <=> to \in Critical)
  BY <1>1, <1>2, <1>4, <1>7
<1>. QED BY <1>5, <1>6, <1>7

\* The ring keeps its items when nothing in it changes.
LEMMA WindowKept ==
    ASSUME WindowOK, UNCHANGED <<queue, queuePos>>,
           NEW n \in Int, NEW m \in Int, Live = n, Live' = m, m <= n
    PROVE  WindowOK'
<1>1. \A k \in 0 .. m - 1 : queue[Behind(k)] \in Items
  BY DEF WindowOK
<1>2. \A k \in 0 .. m - 1 : Behind(k)' = Behind(k)
  BY DEF Behind
<1>. QED BY <1>1, <1>2 DEF WindowOK, Items

\* The ring keeps its items when the newest slot advances over a stored item.
LEMMA WindowStored ==
    ASSUME IInv, NEW p \in Producers, item[p] \in Items, Store(p),
           NEW n \in 0 .. QueueLength, NEW m \in 0 .. QueueLength,
           Live = n, Live' = m, m <= n + 1
    PROVE  WindowOK' /\ queue' \in [Slots -> Items \cup {Null}] /\ queuePos' \in Slots
<1>. DEFINE new == Advanced(queuePos)
<1>1. queuePos \in Slots /\ queue \in [Slots -> Items \cup {Null}]
  BY DEF IInv, TypeOK
<1>2. new \in Slots /\ queuePos' = new /\ queue' = [queue EXCEPT ![new] = item[p]]
  BY <1>1, AdvancedInRing DEF Store
<1>3. SUFFICES ASSUME NEW k \in 0 .. m - 1
               PROVE  (queue[Behind(k)])' \in Items
  BY <1>1, <1>2 DEF WindowOK, Items
<1>4. CASE k = 0
  <2>1. Behind(k)' = new
    BY <1>2, <1>4 DEF Behind, Slots
  <2>. QED BY <1>1, <1>2, <2>1
<1>5. CASE k # 0
  <2>1. k \in 1 .. QueueLength - 1 /\ k - 1 \in 0 .. n - 1
    BY <1>5, LengthAssumption
  <2>2. Behind(k)' = Behind(k - 1) /\ Behind(k - 1) # new /\ Behind(k - 1) \in Slots
    BY <1>1, <1>2, <2>1, BehindAdvanced
  <2>3. queue[Behind(k - 1)] \in Items
    BY <2>1 DEF IInv, WindowOK
  <2>. QED BY <1>1, <1>2, <2>2, <2>3
<1>. QED BY <1>4, <1>5

\* A step of the only thread inside, or of one that enters, decides alone what
\* stage the ring is in afterwards.
LEMMA NextStage ==
    ASSUME IInv, NEW t \in Threads, NEW from, NEW to, Goto(t, from, to),
           from \in Critical \/ queueMutex = Null
    PROVE  /\ Stored' <=> t \in Producers /\ to \in {"post", "count"}
           /\ Posted' <=> t \in Producers /\ to = "count"
           /\ Cleared' <=> t \in Flushers /\ to = "clearWait"
<1>1. pc' = [pc EXCEPT ![t] = to] /\ pc \in [Threads -> Labels] /\ pc[t] = from
  BY DEF Goto, IInv, TypeOK
<1>2. \A u \in Threads \ {t} : pc'[u] \notin Critical
  BY <1>1, Alone, Nobody
<1>3. pc'[t] = to
  BY <1>1
<1>4. \A u \in Producers \cup Flushers : u \in Threads
  BY DEF Threads
<1>. QED BY <1>2, <1>3, <1>4 DEF Stored, Posted, Cleared, Critical

\* A consumer outside its critical section does not touch the stage.
LEMMA SameStage ==
    ASSUME IInv, NEW c \in Consumers, NEW to, pc' = [pc EXCEPT ![c] = to]
    PROVE  Stored' = Stored /\ Posted' = Posted /\ Cleared' = Cleared
<1>1. \A u \in Producers \cup Flushers : pc'[u] = pc[u]
  BY ThreadAssumption DEF IInv, TypeOK, Threads
<1>. QED BY <1>1 DEF Stored, Posted, Cleared

\* Roles and types of the control state after any move.
LEMMA ControlKept ==
    ASSUME IInv, NEW t \in Threads, NEW from, NEW to, Goto(t, from, to),
           \/ t \in Producers /\ to \in {"idle", "store", "post", "count"}
           \/ t \in Consumers /\ to \in {"idle", "wait", "lock", "take"}
           \/ t \in Flushers /\ to \in {"idle", "clear", "clearWait"}
    PROVE  RolesOK' /\ pc' \in [Threads -> Labels]
<1>1. pc' = [pc EXCEPT ![t] = to] /\ pc \in [Threads -> Labels]
  BY DEF Goto, IInv, TypeOK
<1>2. to \in Labels
  BY DEF Labels
<1>3. \A u \in Threads : pc'[u] = IF u = t THEN to ELSE pc[u]
  BY <1>1
<1>4. RolesOK'
  BY <1>3, ThreadAssumption DEF IInv, RolesOK, Threads
<1>. QED BY <1>1, <1>2, <1>4

\* The only thread inside answers alone for the section facts.
LEMMA SectionKept ==
    ASSUME IInv, NEW t \in Threads, NEW from, NEW to, Goto(t, from, to),
           from \in Critical \/ queueMutex = Null,
           to = "store" => item'[t] \in Items,
           to \in {"post", "count"} => queueCount' < QueueLength,
           to = "clearWait" => queueCount' > 0
    PROVE  SectionOK'
<1>1. pc' = [pc EXCEPT ![t] = to] /\ pc \in [Threads -> Labels] /\ pc[t] = from
  BY DEF Goto, IInv, TypeOK
<1>2. \A u \in Threads : u # t => pc'[u] \notin Critical
  BY <1>1, Alone, Nobody
<1>3. pc'[t] = to
  BY <1>1
<1>. QED BY <1>2, <1>3 DEF SectionOK, Threads, Critical

\* The tokens are kept by a step of a thread that is no consumer when the
\* semaphore moves by as much as the count and the open post together.
LEMMA TokensKept ==
    ASSUME IInv, NEW t \in Threads \ Consumers, NEW from, NEW to, Goto(t, from, to),
           semQueueCount' - semQueueCount
             = queueCount' + (IF Posted' THEN 1 ELSE 0) - queueCount - (IF Posted THEN 1 ELSE 0),
           semQueueCount' \in Int, queueCount' \in Int
    PROVE  TokensMatchItems'
<1>1. TokenHolders' = TokenHolders
  BY SameHolders DEF Goto, IInv, TypeOK, Threads
<1>2. semQueueCount \in Nat /\ queueCount \in Nat /\ Cardinality(TokenHolders) \in Nat
  BY HoldersFinite, LengthAssumption DEF IInv, TypeOK
<1>3. TokensMatchItems
  BY DEF IInv
<1>. QED BY <1>1, <1>2, <1>3 DEF TokensMatchItems

-------------------------------------------------------------------------------
(* BVQenqueue *)

LEMMA EnqLockStep ==
    ASSUME IInv, NEW p \in Producers, EnqLock(p)
    PROVE  IInv'
<1>. p \in Threads
  BY DEF Threads
<1>0. Goto(p, "idle", "store") /\ queueMutex = Null /\ queueMutex' = p
  BY DEF EnqLock, Lock
<1>1. ~Stored /\ ~Cleared /\ ~Posted
  BY <1>0, Nobody
<1>2. ~Stored' /\ ~Cleared' /\ ~Posted'
  BY <1>0, NextStage, ThreadAssumption
<1>3. TypeOK /\ RolesOK /\ SectionOK /\ WindowOK /\ TokensMatchItems
  BY DEF IInv
<1>4. item'[p] \in Items /\ item' \in [Producers -> Items \cup {Null}] /\ made' \in 0 .. MaxItems
  <2>1. item \in [Producers -> Items \cup {Null}] /\ made \in 0 .. MaxItems /\ MaxItems \in Nat
    BY <1>3, LengthAssumption DEF TypeOK
  <2>2. CASE /\ made < MaxItems /\ made' = made + 1
             /\ item' = [item EXCEPT ![p] = made + 1]
    BY <2>1, <2>2 DEF Items
  <2>3. CASE item[p] # Null /\ UNCHANGED <<made, item>>
    BY <2>1, <2>3
  <2>. QED BY <2>2, <2>3 DEF EnqLock
<1>5. RolesOK' /\ pc' \in [Threads -> Labels]
  BY <1>0, ControlKept
<1>6. TypeOK'
  BY <1>0, <1>3, <1>4, <1>5 DEF EnqLock, TypeOK, config, ring, ghost
<1>7. MutexOK'
  BY <1>0, MutexKept DEF Critical, Lock
<1>8. SectionOK'
  BY <1>0, <1>4, SectionKept
<1>9. WindowOK'
  <2>1. queueCount \in Int /\ Live = queueCount /\ Live' = queueCount
    BY <1>1, <1>2, <1>3 DEF TypeOK, Live, EnqLock, ring
  <2>. QED BY <1>3, <2>1, WindowKept DEF EnqLock, ring
<1>10. TokensMatchItems'
  BY <1>0, <1>1, <1>2, <1>3, TokensKept, ThreadAssumption DEF EnqLock, ring, TypeOK
<1>. QED BY <1>5, <1>6, <1>7, <1>8, <1>9, <1>10 DEF IInv

LEMMA EnqStoreStep ==
    ASSUME IInv, NEW p \in Producers, EnqStore(p)
    PROVE  IInv'
<1>. p \in Threads \ Consumers
  BY ThreadAssumption DEF Threads
<1>0. Goto(p, "store", "post") /\ pc[p] = "store"
  BY DEF EnqStore, Goto
<1>1. ~Stored /\ ~Cleared /\ ~Posted
  BY <1>0, Alone DEF Critical
<1>2. Stored' /\ ~Cleared' /\ ~Posted'
  BY <1>0, NextStage, ThreadAssumption DEF Critical
<1>3. TypeOK /\ SectionOK
  BY DEF IInv
<1>4. RolesOK' /\ pc' \in [Threads -> Labels]
  BY <1>0, ControlKept
<1>5. WindowOK' /\ queue' \in [Slots -> Items \cup {Null}] /\ queuePos' \in Slots
  <2>1. item[p] \in Items
    BY <1>0, <1>3 DEF SectionOK
  <2>2. queueCount \in 0 .. QueueLength /\ queueCount < QueueLength /\ queueCount' = queueCount
    BY <1>3 DEF TypeOK, EnqStore
  <2>3. Live = queueCount /\ Live' = queueCount + 1
    BY <1>1, <1>2, <2>2 DEF Live
  <2>4. queueCount + 1 \in 0 .. QueueLength
    BY <2>2, LengthAssumption
  <2>5. Store(p)
    BY DEF EnqStore
  <2>. QED BY <2>1, <2>2, <2>3, <2>4, <2>5, WindowStored
<1>6. TypeOK'
  BY <1>3, <1>4, <1>5 DEF EnqStore, TypeOK, config, ghost
<1>7. MutexOK'
  BY <1>0, MutexKept DEF Critical, EnqStore
<1>8. SectionOK'
  BY <1>0, SectionKept DEF EnqStore, Critical
<1>9. TokensMatchItems'
  BY <1>0, <1>1, <1>2, <1>3, TokensKept, LengthAssumption DEF EnqStore, TypeOK
<1>. QED BY <1>4, <1>5, <1>6, <1>7, <1>8, <1>9 DEF IInv

LEMMA EnqPostStep ==
    ASSUME IInv, NEW p \in Producers, EnqPost(p)
    PROVE  IInv'
<1>. p \in Threads \ Consumers
  BY ThreadAssumption DEF Threads
<1>0. Goto(p, "post", "count") /\ pc[p] = "post"
  BY DEF EnqPost, Goto
<1>1. Stored /\ ~Cleared /\ ~Posted
  BY <1>0, Alone DEF Critical
<1>2. Stored' /\ ~Cleared' /\ Posted'
  BY <1>0, NextStage, ThreadAssumption DEF Critical
<1>3. TypeOK /\ SectionOK /\ WindowOK
  BY DEF IInv
<1>4. RolesOK' /\ pc' \in [Threads -> Labels]
  BY <1>0, ControlKept
<1>5. UNCHANGED ring /\ semQueueCount' = semQueueCount + 1
  BY DEF EnqPost
<1>6. TypeOK'
  BY <1>3, <1>4, <1>5 DEF EnqPost, TypeOK, config, ring, ghost
<1>7. MutexOK'
  BY <1>0, MutexKept DEF Critical, EnqPost
<1>8. SectionOK'
  BY <1>0, <1>3, <1>5, SectionKept DEF Critical, SectionOK, ring
<1>9. WindowOK'
  <2>1. queueCount + 1 \in Int /\ Live = queueCount + 1 /\ Live' = queueCount + 1
    BY <1>1, <1>2, <1>3, <1>5 DEF TypeOK, Live, ring
  <2>. QED BY <1>3, <1>5, <2>1, WindowKept DEF ring
<1>10. TokensMatchItems'
  BY <1>0, <1>1, <1>2, <1>3, <1>5, TokensKept, LengthAssumption DEF ring, TypeOK
<1>. QED BY <1>4, <1>6, <1>7, <1>8, <1>9, <1>10 DEF IInv

LEMMA EnqCountStep ==
    ASSUME IInv, NEW p \in Producers, EnqCount(p)
    PROVE  IInv'
<1>. p \in Threads \ Consumers
  BY ThreadAssumption DEF Threads
<1>0. Goto(p, "count", "idle") /\ pc[p] = "count"
  BY DEF EnqCount, Goto
<1>1. Stored /\ ~Cleared /\ Posted
  BY <1>0, Alone DEF Critical
<1>2. ~Stored' /\ ~Cleared' /\ ~Posted'
  BY <1>0, NextStage, ThreadAssumption DEF Critical
<1>3. TypeOK /\ SectionOK /\ WindowOK
  BY DEF IInv
<1>4. RolesOK' /\ pc' \in [Threads -> Labels]
  BY <1>0, ControlKept
<1>5. /\ queueCount' = queueCount + 1 /\ queueCount \in 0 .. QueueLength
      /\ queueCount < QueueLength
      /\ queue' = queue /\ queuePos' = queuePos /\ semQueueCount' = semQueueCount
      /\ queueMutex' = Null /\ queueMutex = p
  BY <1>0, <1>3 DEF EnqCount, Unlock, TypeOK, SectionOK
<1>6. TypeOK'
  BY <1>3, <1>4, <1>5, LengthAssumption DEF EnqCount, TypeOK, config, ghost
<1>7. MutexOK'
  BY <1>0, <1>5, MutexKept DEF Critical, Unlock
<1>8. SectionOK'
  BY <1>0, SectionKept DEF Critical
<1>9. WindowOK'
  <2>1. queueCount + 1 \in Int /\ Live = queueCount + 1 /\ Live' = queueCount + 1
    BY <1>1, <1>2, <1>5 DEF Live
  <2>. QED BY <1>3, <1>5, <2>1, WindowKept
<1>10. TokensMatchItems'
  BY <1>0, <1>1, <1>2, <1>3, <1>5, TokensKept, LengthAssumption DEF TypeOK
<1>. QED BY <1>4, <1>6, <1>7, <1>8, <1>9, <1>10 DEF IInv

\* The slot after the newest one of a full ring is the oldest.
LEMMA AdvancedIsOldest ==
    ASSUME queuePos \in Slots
    PROVE  Advanced(queuePos) = Behind(QueueLength - 1)
BY LengthAssumption DEF Slots, Behind, Advanced

\* An item given up extends the history of destroyed items.
LEMMA FreedTyped ==
    ASSUME freed \in Seq(Items), NEW x \in Items
    PROVE  FreedWith(x) \in Seq(Items)
BY DEF FreedWith

LEMMA EnqReplaceStep ==
    ASSUME IInv, NEW p \in Producers, EnqReplace(p)
    PROVE  IInv'
<1>. p \in Threads \ Consumers
  BY ThreadAssumption DEF Threads
<1>0. Goto(p, "store", "idle") /\ pc[p] = "store"
  BY DEF EnqReplace, Goto
<1>1. ~Stored /\ ~Cleared /\ ~Posted
  BY <1>0, Alone DEF Critical
<1>2. ~Stored' /\ ~Cleared' /\ ~Posted'
  BY <1>0, NextStage, ThreadAssumption DEF Critical
<1>3. TypeOK /\ SectionOK /\ WindowOK
  BY DEF IInv
<1>4. RolesOK' /\ pc' \in [Threads -> Labels]
  BY <1>0, ControlKept
<1>5. /\ queueCount' = queueCount /\ queueCount = QueueLength
      /\ QueueLength \in Nat \ {0}
      /\ Live = QueueLength /\ Live' = QueueLength
  BY <1>1, <1>2, LengthAssumption DEF EnqReplace, Live
<1>6. WindowOK' /\ queue' \in [Slots -> Items \cup {Null}] /\ queuePos' \in Slots
  <2>1. item[p] \in Items /\ Store(p)
    BY <1>0, <1>3 DEF SectionOK, EnqReplace
  <2>. QED BY <1>5, <2>1, WindowStored
<1>7. freed' \in Seq(Items)
  <2>1. queue[Advanced(queuePos)] \in Items
    BY <1>3, <1>5, AdvancedIsOldest DEF WindowOK, TypeOK
  <2>. QED BY <1>3, <2>1, FreedTyped DEF EnqReplace, TypeOK
<1>8. TypeOK'
  BY <1>3, <1>4, <1>5, <1>6, <1>7 DEF EnqReplace, TypeOK, config, Unlock
<1>9. MutexOK'
  BY <1>0, MutexKept DEF Critical, EnqReplace
<1>10. SectionOK'
  BY <1>0, SectionKept DEF Critical
<1>11. TokensMatchItems'
  BY <1>0, <1>1, <1>2, <1>3, <1>5, TokensKept, LengthAssumption DEF TypeOK, EnqReplace
<1>. QED BY <1>4, <1>6, <1>8, <1>9, <1>10, <1>11 DEF IInv

\* A step that leaves the critical section and the ring alone.
LEMMA LeaveStep ==
    ASSUME IInv, NEW t \in Threads \ Consumers, NEW from \in {"store", "clear"},
           Goto(t, from, "idle"), Unlock(t), t \in Producers \/ t \in Flushers,
           UNCHANGED <<config, ring, semQueueCount, made, delivered>>,
           item' \in [Producers -> Items \cup {Null}], freed' \in Seq(Items)
    PROVE  IInv'
<1>. pc[t] = from /\ from \in Critical
  BY DEF Goto, Critical
<1>1. ~Stored /\ ~Cleared /\ ~Posted
  BY Alone
<1>2. ~Stored' /\ ~Cleared' /\ ~Posted'
  BY NextStage
<1>3. TypeOK /\ WindowOK
  BY DEF IInv
<1>4. RolesOK' /\ pc' \in [Threads -> Labels]
  BY ControlKept
<1>5. TypeOK'
  BY <1>3, <1>4 DEF TypeOK, config, ring, Unlock
<1>6. MutexOK'
  BY MutexKept DEF Critical
<1>7. SectionOK'
  BY SectionKept
<1>8. WindowOK'
  <2>1. queueCount \in Int /\ Live = queueCount /\ Live' = queueCount
    BY <1>1, <1>2, <1>3 DEF TypeOK, Live, ring
  <2>. QED BY <1>3, <2>1, WindowKept DEF ring
<1>9. TokensMatchItems'
  BY <1>1, <1>2, <1>3, TokensKept, LengthAssumption DEF ring, TypeOK
<1>. QED BY <1>4, <1>5, <1>6, <1>7, <1>8, <1>9 DEF IInv

LEMMA EnqDropStep ==
    ASSUME IInv, NEW p \in Producers, EnqDrop(p)
    PROVE  IInv'
<1>. p \in Threads \ Consumers /\ TypeOK /\ SectionOK
  BY ThreadAssumption DEF Threads, IInv
<1>1. freed' \in Seq(Items)
  <2>1. item[p] \in Items
    BY DEF EnqDrop, Goto, SectionOK
  <2>. QED BY <2>1, FreedTyped DEF EnqDrop, TypeOK
<1>2. item' \in [Producers -> Items \cup {Null}]
  BY DEF EnqDrop, TypeOK
<1>. QED BY <1>1, <1>2, LeaveStep DEF EnqDrop

LEMMA EnqRefuseStep ==
    ASSUME IInv, NEW p \in Producers, EnqRefuse(p)
    PROVE  IInv'
<1>. p \in Threads \ Consumers /\ TypeOK
  BY ThreadAssumption DEF Threads, IInv
<1>. QED BY LeaveStep DEF EnqRefuse, TypeOK, ghost

-------------------------------------------------------------------------------
(* BVQclear *)

LEMMA ClearUnlockStep ==
    ASSUME IInv, NEW f \in Flushers, ClearUnlock(f)
    PROVE  IInv'
<1>. f \in Threads \ Consumers /\ TypeOK
  BY ThreadAssumption DEF Threads, IInv
<1>. QED BY LeaveStep DEF ClearUnlock, TypeOK, ghost

LEMMA ClearLockStep ==
    ASSUME IInv, NEW f \in Flushers, ClearLock(f)
    PROVE  IInv'
<1>. f \in Threads \ Consumers
  BY ThreadAssumption DEF Threads
<1>0. Goto(f, "idle", "clear") /\ queueMutex = Null /\ queueMutex' = f
  BY DEF ClearLock, Lock
<1>1. ~Stored /\ ~Cleared /\ ~Posted
  BY <1>0, Nobody
<1>2. ~Stored' /\ ~Cleared' /\ ~Posted'
  BY <1>0, NextStage
<1>3. TypeOK /\ WindowOK
  BY DEF IInv
<1>4. RolesOK' /\ pc' \in [Threads -> Labels]
  BY <1>0, ControlKept
<1>5. TypeOK'
  BY <1>0, <1>3, <1>4 DEF ClearLock, TypeOK, config, ring, ghost
<1>6. MutexOK'
  BY <1>0, MutexKept DEF Critical, Lock
<1>7. SectionOK'
  BY <1>0, SectionKept
<1>8. WindowOK'
  <2>1. queueCount \in Int /\ Live = queueCount /\ Live' = queueCount
    BY <1>1, <1>2, <1>3 DEF TypeOK, Live, ClearLock, ring
  <2>. QED BY <1>3, <2>1, WindowKept DEF ClearLock, ring
<1>9. TokensMatchItems'
  BY <1>0, <1>1, <1>2, <1>3, TokensKept, LengthAssumption DEF ClearLock, ring, TypeOK
<1>. QED BY <1>4, <1>5, <1>6, <1>7, <1>8, <1>9 DEF IInv

LEMMA ClearFreeStep ==
    ASSUME IInv, NEW f \in Flushers, ClearFree(f)
    PROVE  IInv'
<1>. f \in Threads \ Consumers
  BY ThreadAssumption DEF Threads
<1>0. Goto(f, "clear", "clearWait") /\ pc[f] = "clear"
  BY DEF ClearFree, Goto
<1>1. ~Stored /\ ~Cleared /\ ~Posted
  BY <1>0, Alone DEF Critical
<1>2. ~Stored' /\ Cleared' /\ ~Posted'
  BY <1>0, NextStage, ThreadAssumption DEF Critical
<1>3. TypeOK /\ WindowOK
  BY DEF IInv
<1>4. RolesOK' /\ pc' \in [Threads -> Labels]
  BY <1>0, ControlKept
<1>5. /\ queueCount \in 1 .. QueueLength /\ queueCount' = queueCount
      /\ queuePos \in Slots /\ queuePos' = queuePos
      /\ Live = queueCount /\ Live' = queueCount - 1
  BY <1>1, <1>2, <1>3, LengthAssumption DEF TypeOK, Live, ClearFree
<1>6. /\ OldestIndex = Behind(queueCount - 1) /\ OldestIndex \in Slots
      /\ queue[OldestIndex] \in Items
  <2>1. queueCount - 1 \in 0 .. Live - 1
    BY <1>5, LengthAssumption
  <2>. QED BY <1>3, <1>5, <2>1, OldestIsLast DEF WindowOK
<1>7. queue' = [queue EXCEPT ![OldestIndex] = Null]
  BY DEF ClearFree
<1>8. TypeOK'
  <2>1. freed' \in Seq(Items)
    BY <1>3, <1>6, FreedTyped DEF ClearFree, TypeOK
  <2>. QED BY <1>3, <1>4, <1>5, <1>6, <1>7, <2>1 DEF ClearFree, TypeOK, config
<1>9. WindowOK'
  <2>1. SUFFICES ASSUME NEW k \in 0 .. queueCount - 2
                 PROVE  (queue[Behind(k)])' \in Items
    BY <1>5 DEF WindowOK, Items
  <2>2. k \in 0 .. QueueLength - 1 /\ queueCount - 1 \in 0 .. QueueLength - 1
        /\ k # queueCount - 1 /\ k \in 0 .. Live - 1
    BY <1>5, LengthAssumption
  <2>3. Behind(k)' = Behind(k) /\ Behind(k) # OldestIndex /\ Behind(k) \in Slots
    BY <1>5, <1>6, <2>2, BehindInjective DEF Behind
  <2>4. queue[Behind(k)] \in Items
    BY <1>3, <2>2 DEF WindowOK
  <2>. QED BY <1>3, <1>7, <2>3, <2>4 DEF TypeOK
<1>10. MutexOK'
  BY <1>0, MutexKept DEF Critical, ClearFree
<1>11. SectionOK'
  BY <1>0, <1>5, SectionKept DEF Critical
<1>12. TokensMatchItems'
  BY <1>0, <1>1, <1>2, <1>3, <1>5, TokensKept, LengthAssumption DEF ClearFree, TypeOK
<1>. QED BY <1>4, <1>8, <1>9, <1>10, <1>11, <1>12 DEF IInv

LEMMA ClearWaitStep ==
    ASSUME IInv, NEW f \in Flushers, ClearWait(f)
    PROVE  IInv'
<1>. f \in Threads \ Consumers
  BY ThreadAssumption DEF Threads
<1>0. Goto(f, "clearWait", "clear") /\ pc[f] = "clearWait"
  BY DEF ClearWait, Goto
<1>1. ~Stored /\ Cleared /\ ~Posted
  BY <1>0, Alone DEF Critical
<1>2. ~Stored' /\ ~Cleared' /\ ~Posted'
  BY <1>0, NextStage DEF Critical
<1>3. TypeOK /\ SectionOK /\ WindowOK
  BY DEF IInv
<1>4. RolesOK' /\ pc' \in [Threads -> Labels]
  BY <1>0, ControlKept
<1>5. /\ queueCount \in 1 .. QueueLength /\ queueCount' = queueCount - 1
      /\ semQueueCount \in Nat /\ semQueueCount > 0 /\ semQueueCount' = semQueueCount - 1
      /\ queue' = queue /\ queuePos' = queuePos
  BY <1>0, <1>3, LengthAssumption DEF TypeOK, SectionOK, ClearWait
<1>6. TypeOK'
  BY <1>3, <1>4, <1>5, LengthAssumption DEF ClearWait, TypeOK, config, ghost
<1>7. MutexOK'
  BY <1>0, MutexKept DEF Critical, ClearWait
<1>8. SectionOK'
  BY <1>0, SectionKept DEF Critical
<1>9. WindowOK'
  <2>1. queueCount - 1 \in Int /\ Live = queueCount - 1 /\ Live' = queueCount - 1
    BY <1>1, <1>2, <1>5, LengthAssumption DEF Live
  <2>. QED BY <1>3, <1>5, <2>1, WindowKept
<1>10. TokensMatchItems'
  BY <1>0, <1>1, <1>2, <1>5, TokensKept, LengthAssumption
<1>. QED BY <1>4, <1>6, <1>7, <1>8, <1>9, <1>10 DEF IInv

-------------------------------------------------------------------------------
(* BVQdequeue *)

\* What a consumer's move does to the token holders.
LEMMA MovedHolders ==
    ASSUME IInv, NEW c \in Consumers, NEW to, pc' = [pc EXCEPT ![c] = to]
    PROVE  TokenHolders' = IF to \in {"lock", "take"} THEN TokenHolders \cup {c}
                           ELSE TokenHolders \ {c}
BY DEF TokenHolders, IInv, TypeOK, Threads

\* A step that moves only a consumer, and perhaps takes the semaphore or the
\* mutex, keeps everything but the tokens.
LEMMA ConsumerStep ==
    ASSUME IInv, NEW c \in Consumers, NEW from, NEW to, Goto(c, from, to),
           \/ Lock(c) /\ to = "take"
           \/ UNCHANGED queueMutex /\ from \notin Critical /\ to \in {"idle", "wait", "lock"},
           UNCHANGED <<config, ring, item, made, ghost>>, semQueueCount' \in Nat
    PROVE  /\ TypeOK' /\ RolesOK' /\ MutexOK' /\ SectionOK' /\ WindowOK'
           /\ Posted' = Posted /\ queueCount' = queueCount
<1>. c \in Threads /\ to \in {"idle", "wait", "lock", "take"}
  BY DEF Threads
<1>1. pc' = [pc EXCEPT ![c] = to]
  BY DEF Goto
<1>2. Stored' = Stored /\ Posted' = Posted /\ Cleared' = Cleared
  BY <1>1, SameStage
<1>3. TypeOK /\ SectionOK /\ WindowOK
  BY DEF IInv
<1>4. RolesOK' /\ pc' \in [Threads -> Labels]
  BY ControlKept
<1>5. queueMutex' \in Threads \cup {Null}
  BY <1>3 DEF Lock, TypeOK
<1>6. TypeOK'
  BY <1>3, <1>4, <1>5 DEF TypeOK, config, ring, ghost
<1>7. MutexOK'
  BY MutexKept DEF Critical
<1>8. SectionOK'
  <2>1. \A u \in Producers \cup Flushers : pc'[u] = pc[u]
    BY <1>1, <1>3, ThreadAssumption DEF TypeOK, Threads
  <2>. QED BY <1>3, <2>1 DEF SectionOK, ring
<1>9. WindowOK'
  <2>1. Live \in Int /\ Live' = Live
    BY <1>2, <1>3 DEF TypeOK, Live, ring
  <2>. QED BY <1>3, <2>1, WindowKept DEF ring
<1>. QED BY <1>2, <1>4, <1>6, <1>7, <1>8, <1>9 DEF ring

LEMMA DeqWaitStep ==
    ASSUME IInv, NEW c \in Consumers, DeqCall(c) \/ DeqTimeout(c)
    PROVE  IInv'
<1>1. PICK from, to : Goto(c, from, to) /\ from \in {"idle", "wait"} /\ to \in {"idle", "wait"}
  BY DEF DeqCall, DeqTimeout
<1>2. UNCHANGED <<config, ring, semQueueCount, queueMutex, item, made, ghost>>
  BY DEF DeqCall, DeqTimeout
<1>3. /\ TypeOK' /\ RolesOK' /\ MutexOK' /\ SectionOK' /\ WindowOK'
      /\ Posted' = Posted /\ queueCount' = queueCount
  BY <1>1, <1>2, ConsumerStep DEF Critical, IInv, TypeOK
<1>4. TokenHolders' = TokenHolders
  <2>1. c \notin TokenHolders
    BY <1>1 DEF Goto, TokenHolders
  <2>2. pc' = [pc EXCEPT ![c] = to] /\ to \notin {"lock", "take"}
    BY <1>1 DEF Goto
  <2>3. TokenHolders' = TokenHolders \ {c}
    BY <2>2, MovedHolders
  <2>. QED BY <2>1, <2>3
<1>. QED BY <1>2, <1>3, <1>4 DEF IInv, TokensMatchItems

LEMMA DeqAcquireStep ==
    ASSUME IInv, NEW c \in Consumers, DeqAcquire(c)
    PROVE  IInv'
<1>1. /\ Goto(c, "wait", "lock") /\ semQueueCount \in Nat /\ semQueueCount > 0
      /\ semQueueCount' = semQueueCount - 1
  BY DEF DeqAcquire, IInv, TypeOK
<1>2. /\ TypeOK' /\ RolesOK' /\ MutexOK' /\ SectionOK' /\ WindowOK'
      /\ Posted' = Posted /\ queueCount' = queueCount
  BY <1>1, ConsumerStep DEF Critical, DeqAcquire
<1>3. TokenHolders' = TokenHolders \cup {c} /\ c \notin TokenHolders
  BY <1>1, MovedHolders DEF Goto, TokenHolders
<1>4. Cardinality(TokenHolders') = Cardinality(TokenHolders) + 1
      /\ Cardinality(TokenHolders) \in Nat
  BY <1>3, HoldersFinite, FS_AddElement
<1>5. TokensMatchItems /\ queueCount \in Nat
  BY LengthAssumption DEF IInv, TypeOK
<1>6. TokensMatchItems'
  BY <1>1, <1>2, <1>4, <1>5 DEF TokensMatchItems
<1>. QED BY <1>2, <1>6 DEF IInv

LEMMA DeqLockStep ==
    ASSUME IInv, NEW c \in Consumers, DeqLock(c)
    PROVE  IInv'
<1>1. Goto(c, "lock", "take") /\ Lock(c) /\ semQueueCount' = semQueueCount
  BY DEF DeqLock
<1>2. /\ TypeOK' /\ RolesOK' /\ MutexOK' /\ SectionOK' /\ WindowOK'
      /\ Posted' = Posted /\ queueCount' = queueCount
  BY <1>1, ConsumerStep DEF DeqLock, IInv, TypeOK
<1>3. TokenHolders' = TokenHolders
  BY <1>1, MovedHolders DEF Goto, TokenHolders
<1>. QED BY <1>1, <1>2, <1>3 DEF IInv, TokensMatchItems

LEMMA DeqTakeStep ==
    ASSUME IInv, NEW c \in Consumers, DeqTake(c)
    PROVE  IInv'
<1>. c \in Threads
  BY DEF Threads
<1>0. Goto(c, "take", "idle") /\ pc[c] = "take"
  BY DEF DeqTake, Goto
<1>1. ~Stored /\ ~Cleared /\ ~Posted
  BY <1>0, Alone DEF Critical
<1>2. ~Stored' /\ ~Cleared' /\ ~Posted'
  BY <1>0, NextStage, ThreadAssumption DEF Critical
<1>3. TypeOK /\ WindowOK /\ TokensMatchItems
  BY DEF IInv
<1>4. RolesOK' /\ pc' \in [Threads -> Labels]
  BY <1>0, ControlKept
<1>5. TokenHolders' = TokenHolders \ {c} /\ c \in TokenHolders
  BY <1>0, MovedHolders DEF Goto, TokenHolders
<1>6. /\ Cardinality(TokenHolders') = Cardinality(TokenHolders) - 1
      /\ Cardinality(TokenHolders) \in Nat /\ Cardinality(TokenHolders) # 0
  BY <1>5, HoldersFinite, FS_RemoveElement, FS_EmptySet
<1>7. queueCount \in 1 .. QueueLength /\ queueCount' = queueCount - 1
      /\ semQueueCount \in Nat /\ semQueueCount' = semQueueCount
  BY <1>1, <1>3, <1>6, LengthAssumption DEF TokensMatchItems, TypeOK, DeqTake
<1>8. queue[OldestIndex] \in Items
  <2>1. Live = queueCount /\ queueCount - 1 \in 0 .. queueCount - 1
    BY <1>1, <1>7, LengthAssumption DEF Live
  <2>. QED BY <1>3, <1>7, <2>1, OldestIsLast DEF WindowOK, TypeOK
<1>9. TypeOK'
  <2>1. delivered' \in Seq(Items)
    BY <1>3, <1>8 DEF DeqTake, TypeOK
  <2>2. queueCount' \in 0 .. QueueLength
    BY <1>7, LengthAssumption
  <2>. QED BY <1>3, <1>4, <1>7, <2>1, <2>2 DEF DeqTake, TypeOK, config, Unlock
<1>10. MutexOK'
  BY <1>0, MutexKept DEF Critical, DeqTake
<1>11. SectionOK'
  BY <1>0, SectionKept DEF Critical
<1>12. WindowOK'
  <2>1. queueCount \in Int /\ queueCount - 1 \in Int /\ Live = queueCount /\ Live' = queueCount - 1
    BY <1>1, <1>2, <1>7, LengthAssumption DEF Live
  <2>. QED BY <1>3, <2>1, WindowKept DEF DeqTake
<1>13. TokensMatchItems'
  BY <1>1, <1>2, <1>3, <1>6, <1>7, LengthAssumption DEF TokensMatchItems
<1>. QED BY <1>4, <1>9, <1>10, <1>11, <1>12, <1>13 DEF IInv

-------------------------------------------------------------------------------
(* The theorems *)

LEMMA InitIInv == Init => IInv
<1>. SUFFICES ASSUME Init PROVE IInv
  OBVIOUS
<1>1. TypeOK
  BY LengthAssumption DEF Init, TypeOK, Slots, Labels
<1>2. RolesOK /\ MutexOK /\ SectionOK
  BY NullAssumption DEF Init, RolesOK, MutexOK, SectionOK, Critical, Threads
<1>3. ~Stored /\ ~Posted /\ ~Cleared
  BY DEF Init, Stored, Posted, Cleared, Threads
<1>4. WindowOK
  BY <1>3 DEF Init, WindowOK, Live
<1>5. TokenHolders = {}
  BY DEF Init, TokenHolders, Threads
<1>6. TokensMatchItems
  BY <1>3, <1>5, FS_EmptySet DEF Init, TokensMatchItems
<1>. QED BY <1>1, <1>2, <1>4, <1>6 DEF IInv

LEMMA NextIInv == IInv /\ [Next]_vars => IInv'
<1>. SUFFICES ASSUME IInv, [Next]_vars PROVE IInv'
  OBVIOUS
<1>1. ASSUME NEW p \in Producers, Enqueue(p) PROVE IInv'
  BY <1>1, EnqLockStep, EnqStoreStep, EnqPostStep, EnqCountStep, EnqReplaceStep,
     EnqDropStep, EnqRefuseStep DEF Enqueue
<1>2. ASSUME NEW c \in Consumers, Dequeue(c) PROVE IInv'
  BY <1>2, DeqWaitStep, DeqAcquireStep, DeqLockStep, DeqTakeStep DEF Dequeue
<1>3. ASSUME NEW f \in Flushers, Clear(f) PROVE IInv'
  BY <1>3, ClearLockStep, ClearFreeStep, ClearWaitStep, ClearUnlockStep DEF Clear
<1>4. CASE UNCHANGED vars
  <2>1. Stored' = Stored /\ Posted' = Posted /\ Cleared' = Cleared
        /\ TokenHolders' = TokenHolders
    BY <1>4 DEF vars, Stored, Posted, Cleared, TokenHolders
  <2>2. Live' = Live
    BY <1>4, <2>1 DEF vars, ring, Live
  <2>3. WindowOK'
    BY <1>4, <2>2 DEF IInv, WindowOK, vars, ring, Behind
  <2>4. TokensMatchItems'
    BY <1>4, <2>1 DEF IInv, TokensMatchItems, vars, ring
  <2>5. TypeOK' /\ RolesOK' /\ MutexOK' /\ SectionOK'
    BY <1>4 DEF IInv, TypeOK, RolesOK, MutexOK, SectionOK, vars, config, ring, ghost
  <2>. QED BY <2>3, <2>4, <2>5 DEF IInv
<1>. QED BY <1>1, <1>2, <1>3, <1>4 DEF Next

\* The inductive invariant holds in every reachable state, whatever the number
\* of threads, the length of the ring and the number of items.
THEOREM Invariance == Spec => []IInv
BY InitIInv, NextIInv, PTL DEF Spec

\* Every access of bvq_queue.c stays inside the ring, the unsigned counter
\* never wraps, and what BVQdequeue hands out or BVQclear frees is an item and
\* never a null or stale pointer.
THEOREM TypeCorrect == Spec => []TypeOK
BY Invariance, PTL DEF IInv

\* The semaphore and the count of the ring never drift apart, in any queue
\* mode and with BVQclear running against consumers.
THEOREM TokensCorrect == Spec => []TokensMatchItems
BY Invariance, PTL DEF IInv
-------------------------------------------------------------------------------
(* Sequences without repetition *)

LEMMA EmptyFacts ==
    ASSUME NEW S
    PROVE  <<>> \in Seq(S) /\ Len(<<>>) = 0 /\ ToSet(<<>>) = {} /\ IsInjective(<<>>)
<1>1. <<>> \in Seq(S) /\ Len(<<>>) = 0 /\ DOMAIN <<>> = {}
  BY EmptySeq
<1> QED BY <1>1 DEF ToSet, IsInjective

LEMMA AppendFacts ==
    ASSUME NEW S, NEW s \in Seq(S), NEW e \in S
    PROVE  /\ Append(s, e) \in Seq(S) /\ Len(Append(s, e)) = Len(s) + 1 /\ Len(s) \in Nat
           /\ ToSet(Append(s, e)) = ToSet(s) \cup {e}
           /\ IsInjective(s) /\ e \notin ToSet(s) => IsInjective(Append(s, e))
<1> DEFINE t == Append(s, e)
<1>1. /\ t \in Seq(S) /\ Len(t) = Len(s) + 1 /\ Len(s) \in Nat
      /\ \A i \in 1 .. Len(s) : t[i] = s[i]
      /\ t[Len(s) + 1] = e
      /\ DOMAIN s = 1 .. Len(s) /\ DOMAIN t = 1 .. Len(s) + 1
  BY AppendProperties, LenProperties
<1> HIDE DEF t
<1>2. \A i \in 1 .. Len(s) + 1 : i \in 1 .. Len(s) \/ i = Len(s) + 1
  BY <1>1
<1>3. 1 .. Len(s) \subseteq 1 .. Len(s) + 1 /\ Len(s) + 1 \in 1 .. Len(s) + 1
  BY <1>1
<1>4. ToSet(t) = ToSet(s) \cup {e}
  <2>1. ToSet(t) = {t[i] : i \in 1 .. Len(s) + 1} /\ ToSet(s) = {s[i] : i \in 1 .. Len(s)}
    BY <1>1 DEF ToSet
  <2> QED BY <1>1, <1>2, <1>3, <2>1
<1>5. IsInjective(s) /\ e \notin ToSet(s) => IsInjective(t)
  <2> SUFFICES ASSUME IsInjective(s), e \notin ToSet(s),
                      NEW a \in 1 .. Len(s) + 1, NEW b \in 1 .. Len(s) + 1, t[a] = t[b]
               PROVE  a = b
    BY <1>1 DEF IsInjective
  <2>1. \A i \in 1 .. Len(s) : s[i] # e
    BY <1>1 DEF ToSet
  <2>2. \A i, j \in 1 .. Len(s) : s[i] = s[j] => i = j
    BY <1>1 DEF IsInjective
  <2> QED BY <1>1, <1>2, <2>1, <2>2
<1> QED BY <1>1, <1>4, <1>5 DEF t

LEMMA TailFacts ==
    ASSUME NEW S, NEW s \in Seq(S), s # <<>>
    PROVE  /\ Tail(s) \in Seq(S) /\ Len(Tail(s)) = Len(s) - 1 /\ Len(s) \in Nat /\ Len(s) > 0
           /\ Head(s) \in S /\ ToSet(s) = {Head(s)} \cup ToSet(Tail(s))
           /\ IsInjective(s) => IsInjective(Tail(s)) /\ Head(s) \notin ToSet(Tail(s))
<1> DEFINE t == Tail(s)
<1>1. /\ t \in Seq(S) /\ Len(t) = Len(s) - 1 /\ Len(s) \in Nat /\ Len(s) > 0
      /\ Head(s) = s[1] /\ Head(s) \in S
      /\ \A i \in 1 .. Len(s) - 1 : t[i] = s[i + 1]
      /\ DOMAIN s = 1 .. Len(s) /\ DOMAIN t = 1 .. Len(s) - 1
  BY HeadTailProperties, LenProperties, EmptySeq
<1> HIDE DEF t
<1>2. \A i \in 1 .. Len(s) : i = 1 \/ (i - 1 \in 1 .. Len(s) - 1 /\ t[i - 1] = s[i])
  BY <1>1
<1>3. /\ 1 \in 1 .. Len(s)
      /\ \A i \in 1 .. Len(s) - 1 : i + 1 \in 1 .. Len(s) /\ i + 1 # 1
  BY <1>1
<1>4. ToSet(s) = {Head(s)} \cup ToSet(t)
  <2>1. ToSet(t) = {t[i] : i \in 1 .. Len(s) - 1} /\ ToSet(s) = {s[i] : i \in 1 .. Len(s)}
    BY <1>1 DEF ToSet
  <2>2. ToSet(s) \subseteq {Head(s)} \cup ToSet(t)
    BY <1>1, <1>2, <2>1
  <2>3. {Head(s)} \cup ToSet(t) \subseteq ToSet(s)
    BY <1>1, <1>3, <2>1
  <2> QED BY <2>2, <2>3
<1>5. IsInjective(s) => IsInjective(t) /\ Head(s) \notin ToSet(t)
  <2> SUFFICES ASSUME IsInjective(s) PROVE IsInjective(t) /\ Head(s) \notin ToSet(t)
    OBVIOUS
  <2>1. \A i, j \in 1 .. Len(s) : s[i] = s[j] => i = j
    BY <1>1 DEF IsInjective
  <2>2. \A i, j \in 1 .. Len(s) - 1 : t[i] = t[j] => i = j
    <3> TAKE i, j \in 1 .. Len(s) - 1
    <3>1. t[i] = t[j] => i + 1 = j + 1
      BY <1>1, <1>3, <2>1
    <3> QED BY <3>1
  <2>3. \A i \in 1 .. Len(s) - 1 : t[i] # s[1]
    BY <1>1, <1>3, <2>1
  <2> QED BY <1>1, <2>2, <2>3 DEF IsInjective, ToSet
<1> QED BY <1>1, <1>4, <1>5 DEF t

-------------------------------------------------------------------------------
(* The live items as a sequence *)

\* As many as there are live, and never more than the ring takes.
LEMMA BufferOK ==
    ASSUME IInv
    PROVE  /\ Live \in 0 .. QueueLength
           /\ Buffer \in Seq(Items) /\ Len(Buffer) = Live
           /\ \A k \in 1 .. Live : Buffer[k] = queue[Behind(Live - k)]
<1>1. queueCount \in 0 .. QueueLength /\ QueueLength \in Nat
  BY LengthAssumption DEF IInv, TypeOK
<1>2. Stored => queueCount < QueueLength
  BY DEF IInv, SectionOK, Stored
<1>3. Cleared => queueCount > 0
  BY DEF IInv, SectionOK, Cleared
<1>4. Live \in 0 .. QueueLength
  BY <1>1, <1>2, <1>3 DEF Live
<1>. HIDE DEF Live
<1>5. ASSUME NEW k \in 1 .. Live
      PROVE  queue[Behind(Live - k)] \in Items
  <2>1. Live - k \in 0 .. Live - 1
    BY <1>1, <1>4
  <2>. QED BY <2>1 DEF IInv, WindowOK
<1>6. Live \in Nat
  BY <1>1, <1>4
<1>7. Buffer \in Seq(Items) /\ Len(Buffer) = Live
  BY <1>5, <1>6 DEF Buffer
<1>. QED BY <1>4, <1>7 DEF Buffer

\* The oldest live item, when nobody else is inside.
LEMMA HeadIsOldest ==
    ASSUME IInv, ~Stored, ~Cleared, queueCount > 0
    PROVE  Buffer # <<>> /\ Head(Buffer) = queue[OldestIndex] /\ Live = queueCount
<1>1. queueCount \in 1 .. QueueLength /\ queuePos \in Slots /\ Live = queueCount
  BY LengthAssumption DEF IInv, TypeOK, Live
<1>2. OldestIndex = Behind(queueCount - 1)
  BY <1>1, OldestIsLast
<1>3. Buffer \in Seq(Items) /\ Len(Buffer) = queueCount /\ queueCount > 0
      /\ Buffer[1] = queue[Behind(queueCount - 1)]
  BY <1>1, BufferOK, LengthAssumption
<1>. QED BY <1>1, <1>2, <1>3, EmptySeq, HeadTailProperties

\* The n items that end with the newest one, at pos.
Spot(pos, k) == IF pos >= k THEN pos - k ELSE pos + QueueLength - k
Ring(q, pos, n) == [k \in 1 .. n |-> q[Spot(pos, n - k)]]

LEMMA BufferIsRing ==
    /\ Buffer = Ring(queue, queuePos, Live)
    /\ Buffer' = Ring(queue', queuePos', Live')
BY DEF Buffer, Ring, Behind, Spot

\* Arithmetic of the ring: different distances are different slots; advancing makes
\* every distance one longer and lands on none of them.
LEMMA SpotFacts ==
    ASSUME NEW pos \in Slots
    PROVE  /\ \A k \in 0 .. QueueLength - 1 : Spot(pos, k) \in Slots
           /\ \A j, k \in 0 .. QueueLength - 1 : j # k => Spot(pos, j) # Spot(pos, k)
           /\ Advanced(pos) \in Slots
           /\ Spot(Advanced(pos), 0) = Advanced(pos)
           /\ \A k \in 1 .. QueueLength - 1 : /\ Spot(Advanced(pos), k) = Spot(pos, k - 1)
                                              /\ Spot(pos, k - 1) # Advanced(pos)
BY LengthAssumption DEF Slots, Advanced, Spot

\* Storing an item puts it behind the others; into a full ring, instead of the oldest.
LEMMA RingStored ==
    ASSUME NEW q \in [Slots -> Items \cup {Null}], NEW pos \in Slots, NEW n \in 0 .. QueueLength,
           NEW x \in Items, Ring(q, pos, n) \in Seq(Items),
           NEW r, r = [q EXCEPT ![Advanced(pos)] = x]
    PROVE  /\ n < QueueLength =>
                 Ring(r, Advanced(pos), n + 1) = Append(Ring(q, pos, n), x)
           /\ n = QueueLength =>
                 Ring(r, Advanced(pos), n) = Append(Tail(Ring(q, pos, n)), x)
<1>. DEFINE new == Advanced(pos)
            s == Ring(q, pos, n)
<1>1. QueueLength \in Nat \ {0} /\ n \in Nat
  BY LengthAssumption
<1>2. /\ new \in Slots /\ Spot(new, 0) = new
      /\ \A k \in 1 .. QueueLength - 1 : Spot(new, k) = Spot(pos, k - 1) /\ Spot(pos, k - 1) # new
      /\ \A k \in 0 .. QueueLength - 1 : Spot(pos, k) \in Slots
  BY SpotFacts
<1>3. r[new] = x /\ \A i \in Slots \ {new} : r[i] = q[i]
  BY <1>2
<1>. HIDE DEF new
<1>4. \A k \in 1 .. QueueLength - 1 : r[Spot(new, k)] = q[Spot(pos, k - 1)]
  <2>1. TAKE k \in 1 .. QueueLength - 1
  <2>2. k - 1 \in 0 .. QueueLength - 1
    BY <1>1
  <2>. QED BY <1>2, <1>3, <2>2
<1>5. Len(s) = n /\ \A k \in 1 .. n : s[k] = q[Spot(pos, n - k)]
  BY <1>1 DEF Ring
<1>6. ASSUME n < QueueLength
      PROVE  Ring(r, new, n + 1) = Append(s, x)
  <2>. DEFINE t == Append(s, x)
  <2>1. /\ t \in Seq(Items) /\ Len(t) = n + 1 /\ t[n + 1] = x
        /\ \A k \in 1 .. n : t[k] = s[k]
    BY <1>1, <1>5, AppendProperties
  <2>. HIDE DEF t
  <2>2. \A k \in 1 .. n + 1 : r[Spot(new, n + 1 - k)] = t[k]
    <3>1. TAKE k \in 1 .. n + 1
    <3>2. CASE k = n + 1
      BY <1>1, <1>2, <1>3, <2>1, <3>2
    <3>3. CASE k # n + 1
      <4>1. k \in 1 .. n /\ n + 1 - k \in 1 .. QueueLength - 1 /\ n + 1 - k - 1 = n - k
        BY <1>1, <1>6, <3>3
      <4>2. r[Spot(new, n + 1 - k)] = q[Spot(pos, n + 1 - k - 1)]
        BY <1>4, <4>1
      <4>. QED BY <1>5, <2>1, <4>1, <4>2
    <3>. QED BY <3>2, <3>3
  <2>3. t = [k \in 1 .. n + 1 |-> t[k]]
    BY <2>1
  <2>. QED BY <2>2, <2>3 DEF Ring, t
<1>7. ASSUME n = QueueLength
      PROVE  Ring(r, new, n) = Append(Tail(s), x)
  <2>1. s # <<>>
    BY <1>1, <1>5, <1>7
  <2>2. /\ Tail(s) \in Seq(Items) /\ Len(Tail(s)) = n - 1
        /\ \A k \in 1 .. n - 1 : Tail(s)[k] = s[k + 1]
    BY <1>5, <2>1, HeadTailProperties
  <2>. DEFINE t == Append(Tail(s), x)
  <2>3. /\ t \in Seq(Items) /\ Len(t) = n /\ t[n] = x
        /\ \A k \in 1 .. n - 1 : t[k] = s[k + 1]
    BY <1>1, <2>2, AppendProperties
  <2>. HIDE DEF t
  <2>4. \A k \in 1 .. n : r[Spot(new, n - k)] = t[k]
    <3>1. TAKE k \in 1 .. n
    <3>2. CASE k = n
      BY <1>1, <1>2, <1>3, <2>3, <3>2
    <3>3. CASE k # n
      <4>1. /\ k \in 1 .. n - 1 /\ k + 1 \in 1 .. n /\ n - k \in 1 .. QueueLength - 1
            /\ n - k - 1 = n - (k + 1)
        BY <1>1, <1>7, <3>3
      <4>2. r[Spot(new, n - k)] = q[Spot(pos, n - k - 1)]
        BY <1>4, <4>1
      <4>3. t[k] = q[Spot(pos, n - (k + 1))]
        BY <1>5, <2>3, <4>1
      <4>. QED BY <4>1, <4>2, <4>3
    <3>. QED BY <3>2, <3>3
  <2>5. t = [k \in 1 .. n |-> t[k]]
    BY <2>3
  <2>. QED BY <2>4, <2>5 DEF Ring, t
<1>. QED BY <1>6, <1>7 DEF new

\* Without the oldest item, whatever its slot holds then.
LEMMA RingTaken ==
    ASSUME NEW q, NEW pos \in Slots, NEW n \in 1 .. QueueLength, Ring(q, pos, n) \in Seq(Items),
           NEW r, \A i \in Slots \ {Spot(pos, n - 1)} : r[i] = q[i]
    PROVE  Ring(r, pos, n - 1) = Tail(Ring(q, pos, n))
<1>. DEFINE s == Ring(q, pos, n)
<1>1. QueueLength \in Nat \ {0} /\ n \in Nat \ {0} /\ n - 1 \in 0 .. QueueLength - 1
  BY LengthAssumption
<1>2. Len(s) = n /\ \A k \in 1 .. n : s[k] = q[Spot(pos, n - k)]
  BY <1>1 DEF Ring
<1>3. s # <<>>
  BY <1>1, <1>2
<1>. DEFINE t == Tail(s)
<1>4. t \in Seq(Items) /\ Len(t) = n - 1 /\ \A k \in 1 .. n - 1 : t[k] = s[k + 1]
  BY <1>2, <1>3, HeadTailProperties
<1>. HIDE DEF t
<1>5. \A k \in 1 .. n - 1 : r[Spot(pos, n - 1 - k)] = t[k]
  <2>1. TAKE k \in 1 .. n - 1
  <2>2. /\ k + 1 \in 1 .. n /\ n - 1 - k = n - (k + 1)
        /\ n - 1 - k \in 0 .. QueueLength - 1 /\ n - 1 - k # n - 1
    BY <1>1
  <2>3. Spot(pos, n - 1 - k) \in Slots /\ Spot(pos, n - 1 - k) # Spot(pos, n - 1)
    BY <1>1, <2>2, SpotFacts
  <2>. QED BY <1>2, <1>4, <2>2, <2>3
<1>6. t = [k \in 1 .. n - 1 |-> t[k]]
  BY <1>4
<1>. QED BY <1>5, <1>6 DEF Ring, t

-------------------------------------------------------------------------------
(* Who has which item *)

Hands == {item[p] : p \in Producers} \ {Null}

\* Items 1 .. n in the producers' hands H, the ring B, with consumers G and destroyed
\* F: in no two of them and, if the queue destroys what it gives up, none lost.
Apart(H, B, G, F, n) ==
    /\ H \cup B \cup G \cup F \subseteq 1 .. n
    /\ H \cap B = {} /\ H \cap G = {} /\ H \cap F = {}
    /\ B \cap G = {} /\ B \cap F = {} /\ G \cap F = {}
    /\ freeItem => 1 .. n \subseteq H \cup B \cup G \cup F

OneHand == \A p, q \in Producers : item[p] = item[q] /\ item[p] # Null => p = q

OwnersOK == /\ Apart(Hands, ToSet(Buffer), ToSet(delivered), ToSet(freed), made)
            /\ OneHand
            /\ IsInjective(Buffer) /\ IsInjective(delivered) /\ IsInjective(freed)

LEMMA InHands == \A x : x \in Hands <=> x # Null /\ \E p \in Producers : item[p] = x
BY DEF Hands

\* A producer's hand when its item is gone.
LEMMA HandsEmptied ==
    ASSUME TypeOK, OneHand, NEW p \in Producers, item[p] # Null,
           item' = [item EXCEPT ![p] = Null]
    PROVE  OneHand' /\ Hands' = Hands \ {item[p]} /\ item[p] \in Hands
<1>1. \A r \in Producers : item'[r] = IF r = p THEN Null ELSE item[r]
  BY DEF TypeOK
<1>2. OneHand'
  BY <1>1 DEF OneHand
<1>3. Hands' \subseteq Hands \ {item[p]}
  BY <1>1 DEF Hands, OneHand
<1>4. Hands \ {item[p]} \subseteq Hands'
  <2>1. SUFFICES ASSUME NEW x, x \in Hands, x # item[p]
                 PROVE  x \in Hands'
    OBVIOUS
  <2>2. PICK r \in Producers : item[r] = x
    BY <2>1, InHands
  <2>3. item'[r] = x /\ x # Null
    BY <1>1, <2>1, <2>2, InHands
  <2>. QED BY <2>3 DEF Hands
<1>5. item[p] \in Hands
  BY DEF Hands
<1>. QED BY <1>2, <1>3, <1>4, <1>5

\* What is given up goes to the destroyed items or is forgotten.
LEMMA FreedFacts ==
    ASSUME NEW x \in Items, freed \in Seq(Items), freed' = FreedWith(x),
           IsInjective(freed), x \notin ToSet(freed)
    PROVE  /\ IsInjective(freed')
           /\ ToSet(freed') = IF freeItem THEN ToSet(freed) \cup {x} ELSE ToSet(freed)
BY AppendFacts DEF FreedWith

\* No item is where it was: the abstract queue does not see the step.
LEMMA QuietStep ==
    ASSUME IInv, OwnersOK, Live' = Live,
           UNCHANGED <<config, queue, queuePos, item, made, delivered, freed>>
    PROVE  OwnersOK' /\ UNCHANGED Fifo!vars /\ Hands' = Hands
<1>1. Buffer' = Buffer
  BY DEF Buffer, Behind
<1>2. Hands' = Hands /\ OneHand'
  BY DEF Hands, OneHand, OwnersOK
<1>3. OwnersOK'
  BY <1>1, <1>2 DEF OwnersOK, Apart, config
<1>. QED BY <1>1, <1>2, <1>3 DEF Fifo!vars, config

\* While nobody is inside or one thread is.
LEMMA LiveSame ==
    ASSUME IInv, NEW t \in Threads, NEW from, NEW to, Goto(t, from, to),
           from \in Critical \/ queueMutex = Null,
           \/ from \notin {"post", "count", "clearWait"} /\ to \notin {"post", "count", "clearWait"}
              /\ queueCount' = queueCount
           \/ from = "post" /\ to = "count" /\ t \in Producers /\ queueCount' = queueCount
           \/ from = "count" /\ to = "idle" /\ queueCount' = queueCount + 1
           \/ from = "clearWait" /\ to = "clear" /\ queueCount' = queueCount - 1
    PROVE  Live' = Live
<1>1. /\ Stored' <=> t \in Producers /\ to \in {"post", "count"}
      /\ Cleared' <=> t \in Flushers /\ to = "clearWait"
  BY NextStage
<1>2. pc[t] = from /\ queueCount \in Int
  BY LengthAssumption DEF Goto, IInv, TypeOK
<1>3. CASE from \in Critical
  <2>1. (Stored <=> from \in {"post", "count"}) /\ (Cleared <=> from = "clearWait")
    BY <1>2, <1>3, Alone
  <2>. QED BY <1>1, <1>2, <2>1 DEF Live
<1>4. CASE from \notin Critical /\ queueMutex = Null
  <2>1. ~Stored /\ ~Cleared
    BY <1>4, Nobody
  <2>. QED BY <1>1, <1>2, <1>4, <2>1 DEF Live, Critical
<1>. QED BY <1>3, <1>4

\* The item x leaves its producer's hand for the abstract queue.
Offer(x) == /\ x \in Hands /\ Hands' = Hands \ {x} /\ Fifo!IsNew(x)
            /\ Fifo!Accept(x) \/ Fifo!ReplaceOldest(x) \/ Fifo!RefuseNewest(x)
            /\ UNCHANGED config

\* What every step does for the abstract queue and the producers' hands.
Abstract == /\ OwnersOK'
            /\ \/ \E x \in Items : Offer(x)
               \/ (Fifo!Take \/ Fifo!Discard) /\ Hands' = Hands /\ UNCHANGED config
               \/ UNCHANGED Fifo!vars /\ Hands' \subseteq Hands \cup {made + 1}

LEMMA EnqLockOwners ==
    ASSUME IInv, OwnersOK, NEW p \in Producers, EnqLock(p)
    PROVE  Abstract
<1>. p \in Threads
  BY DEF Threads
<1>1. /\ Goto(p, "idle", "store") /\ queueMutex = Null /\ queueCount' = queueCount
      /\ UNCHANGED <<config, queue, queuePos, delivered, freed>>
  BY DEF EnqLock, Lock, ring, ghost
<1>2. Live' = Live
  BY <1>1, LiveSame
<1>3. CASE UNCHANGED <<made, item>>
  BY <1>1, <1>2, <1>3, QuietStep DEF Abstract
<1>4. CASE /\ item[p] = Null /\ made' = made + 1
           /\ item' = [item EXCEPT ![p] = made + 1]
  <2>1. made \in Nat /\ made + 1 # Null /\ item \in [Producers -> Items \cup {Null}]
    <3>1. made < MaxItems /\ made \in 0 .. MaxItems /\ MaxItems \in Nat
      BY <1>4, LengthAssumption, NullAssumption DEF EnqLock, IInv, TypeOK
    <3>2. made + 1 \in Items
      BY <3>1 DEF Items
    <3>. QED BY <3>1, <3>2, NullAssumption DEF IInv, TypeOK
  <2>2. \A r \in Producers : item'[r] = IF r = p THEN made + 1 ELSE item[r]
    BY <1>4, <2>1
  <2>3. \A x \in Hands : x \in 1 .. made
    BY DEF OwnersOK, Apart
  <2>4. \A r \in Producers : item[r] # made + 1
    <3>1. made + 1 \notin Hands
      BY <2>1, <2>3
    <3>. QED BY <2>1, <3>1, InHands
  <2>5. OneHand'
    BY <2>2, <2>4 DEF OwnersOK, OneHand
  <2>6. Hands' = Hands \cup {made + 1}
    <3>1. Hands' \subseteq Hands \cup {made + 1}
      BY <2>2 DEF Hands
    <3>2. ASSUME NEW x, x \in Hands
          PROVE  x \in Hands'
      <4>1. PICK r \in Producers : item[r] = x /\ x # Null
        BY <3>2 DEF Hands
      <4>2. item'[r] = x
        BY <1>4, <2>2, <4>1
      <4>. QED BY <4>1, <4>2 DEF Hands
    <3>3. made + 1 \in Hands'
      BY <2>1, <2>2 DEF Hands
    <3>. QED BY <3>1, <3>2, <3>3
  <2>7. Buffer' = Buffer
    BY <1>1, <1>2 DEF Buffer, Behind
  <2>8. Apart(Hands', ToSet(Buffer), ToSet(delivered), ToSet(freed), made + 1)
    <3>. DEFINE B == ToSet(Buffer)
                G == ToSet(delivered)
                F == ToSet(freed)
    <3>1. Apart(Hands, B, G, F, made)
      BY DEF OwnersOK
    <3>. HIDE DEF B, G, F
    <3>2. 1 .. made + 1 = (1 .. made) \cup {made + 1} /\ made + 1 \notin 1 .. made
      BY <2>1
    <3>3. Apart(Hands \cup {made + 1}, B, G, F, made + 1)
      BY <3>1, <3>2 DEF Apart
    <3>. QED BY <2>6, <3>3 DEF B, G, F
  <2>9. OwnersOK'
    BY <1>1, <1>4, <2>5, <2>7, <2>8 DEF OwnersOK, Apart, config
  <2>. QED BY <1>1, <2>6, <2>7, <2>9 DEF Abstract, Fifo!vars, config
<1>. QED BY <1>3, <1>4 DEF EnqLock

\* The item of a producer that has found the ring.
LEMMA InHand ==
    ASSUME IInv, OwnersOK, NEW p \in Producers, pc[p] = "store"
    PROVE  /\ item[p] \in Items /\ item[p] # Null /\ item[p] \in Hands
           /\ item[p] \notin ToSet(Buffer) \cup ToSet(delivered) \cup ToSet(freed)
           /\ ~Stored /\ ~Cleared /\ ~Posted /\ Live = queueCount
<1>1. item[p] \in Items
  BY DEF IInv, SectionOK
<1>2. item[p] \in Hands /\ item[p] # Null
  BY <1>1, NullAssumption DEF Hands
<1>3. ~Stored /\ ~Cleared /\ ~Posted
  BY Alone DEF Critical, Threads
<1>4. Live = queueCount
  BY <1>3, LengthAssumption DEF Live, IInv, TypeOK
<1>. QED BY <1>1, <1>2, <1>3, <1>4 DEF OwnersOK, Apart

LEMMA EnqStoreOwners ==
    ASSUME IInv, OwnersOK, NEW p \in Producers, EnqStore(p)
    PROVE  Abstract
<1>. DEFINE x == item[p]
            B == ToSet(Buffer)
<1>1. /\ pc[p] = "store" /\ Goto(p, "store", "post") /\ queueCount < QueueLength
      /\ queueCount' = queueCount /\ item' = [item EXCEPT ![p] = Null]
      /\ queuePos' = Advanced(queuePos)
      /\ queue' = [queue EXCEPT ![Advanced(queuePos)] = x]
      /\ UNCHANGED <<config, made, delivered, freed>>
  BY DEF EnqStore, Goto, Store, ghost
<1>2. /\ x \in Items /\ x # Null /\ x \in Hands
      /\ x \notin B \cup ToSet(delivered) \cup ToSet(freed) /\ Live = queueCount
  BY <1>1, InHand
<1>3. /\ Live \in 0 .. QueueLength /\ Live < QueueLength
      /\ Buffer \in Seq(Items) /\ Len(Buffer) = Live
  BY <1>1, <1>2, BufferOK
<1>4. Live' = Live + 1
  <2>1. Stored' /\ ~Cleared'
    BY <1>1, NextStage, ThreadAssumption DEF Critical, Threads
  <2>2. queueCount \in Int
    BY LengthAssumption DEF IInv, TypeOK
  <2>. QED BY <1>1, <1>2, <2>1, <2>2 DEF Live
<1>5. Buffer' = Append(Buffer, x)
  <2>1. queue \in [Slots -> Items \cup {Null}] /\ queuePos \in Slots
    BY DEF IInv, TypeOK
  <2>2. Ring(queue, queuePos, Live) \in Seq(Items)
    BY <1>3, BufferIsRing
  <2>3. Ring(queue', Advanced(queuePos), Live + 1) = Append(Ring(queue, queuePos, Live), x)
    <3>. HIDE DEF x
    <3>1. x \in Items /\ Live \in 0 .. QueueLength /\ Live < QueueLength
      BY <1>2, <1>3
    <3>2. queue' = [queue EXCEPT ![Advanced(queuePos)] = x]
      BY <1>1
    <3>3. Live < QueueLength =>
             Ring(queue', Advanced(queuePos), Live + 1) = Append(Ring(queue, queuePos, Live), x)
      BY <2>1, <2>2, <3>1, <3>2, RingStored
    <3>. QED BY <3>1, <3>3
  <2>. QED BY <1>1, <1>4, <2>3, BufferIsRing
<1>6. ToSet(Buffer') = B \cup {x} /\ IsInjective(Buffer')
  BY <1>2, <1>3, <1>5, AppendFacts DEF OwnersOK
<1>7. OneHand' /\ Hands' = Hands \ {x}
  BY <1>1, <1>2, HandsEmptied DEF OwnersOK, IInv
<1>8. OwnersOK'
  BY <1>1, <1>2, <1>6, <1>7 DEF OwnersOK, Apart, config
<1>9. Fifo!Accept(x) /\ Fifo!IsNew(x)
  BY <1>1, <1>2, <1>3, <1>5 DEF Fifo!Accept, Fifo!IsNew, ToSet, Fifo!ToSet
<1>. QED BY <1>1, <1>2, <1>7, <1>8, <1>9 DEF Abstract, Offer, config

\* The oldest item of a ring that nobody is changing, and the rest.
LEMMA Oldest ==
    ASSUME IInv, OwnersOK, ~Stored, ~Cleared, queueCount > 0
    PROVE  LET x == queue[OldestIndex]
           IN  /\ x \in Items /\ Buffer # <<>> /\ Head(Buffer) = x
               /\ Tail(Buffer) \in Seq(Items) /\ IsInjective(Tail(Buffer))
               /\ ToSet(Tail(Buffer)) = ToSet(Buffer) \ {x} /\ x \in ToSet(Buffer)
               /\ x \notin Hands \cup ToSet(delivered) \cup ToSet(freed)
<1>. DEFINE x == queue[OldestIndex]
<1>1. Buffer # <<>> /\ Head(Buffer) = x /\ Buffer \in Seq(Items)
  BY HeadIsOldest, BufferOK
<1>2. IsInjective(Buffer)
  BY DEF OwnersOK
<1>. HIDE DEF x
<1>3. /\ x \in Items /\ Tail(Buffer) \in Seq(Items) /\ IsInjective(Tail(Buffer))
      /\ ToSet(Buffer) = {x} \cup ToSet(Tail(Buffer)) /\ x \notin ToSet(Tail(Buffer))
  BY <1>1, <1>2, TailFacts
<1>4. ToSet(Tail(Buffer)) = ToSet(Buffer) \ {x} /\ x \in ToSet(Buffer)
  BY <1>3
<1>5. x \notin Hands \cup ToSet(delivered) \cup ToSet(freed)
  BY <1>4 DEF OwnersOK, Apart
<1>. QED BY <1>1, <1>3, <1>4, <1>5 DEF x

LEMMA EnqReplaceOwners ==
    ASSUME IInv, OwnersOK, NEW p \in Producers, EnqReplace(p)
    PROVE  Abstract
<1>. DEFINE x == item[p]
            y == queue[OldestIndex]
<1>1. /\ pc[p] = "store" /\ Goto(p, "store", "idle") /\ queueCount = QueueLength
      /\ queueMode = "DropOldest"
      /\ queueCount' = queueCount /\ item' = [item EXCEPT ![p] = Null]
      /\ queuePos' = Advanced(queuePos)
      /\ queue' = [queue EXCEPT ![Advanced(queuePos)] = x]
      /\ freed' = FreedWith(queue[Advanced(queuePos)])
      /\ UNCHANGED <<config, made, delivered>>
  BY DEF EnqReplace, Goto, Store
<1>2. /\ x \in Items /\ x # Null /\ x \in Hands
      /\ x \notin ToSet(Buffer) \cup ToSet(delivered) \cup ToSet(freed)
      /\ ~Stored /\ ~Cleared /\ Live = queueCount
  BY <1>1, InHand
<1>3. /\ queue \in [Slots -> Items \cup {Null}] /\ queuePos \in Slots /\ freed \in Seq(Items)
      /\ QueueLength \in Nat \ {0} /\ queueCount > 0
  BY <1>1, LengthAssumption DEF IInv, TypeOK
<1>4. Advanced(queuePos) = OldestIndex
  <2>1. OldestIndex = Behind(queueCount - 1)
    BY <1>1, <1>3, OldestIsLast
  <2>. QED BY <1>1, <1>3, <2>1, AdvancedIsOldest
<1>5. /\ y \in Items /\ Buffer # <<>> /\ Head(Buffer) = y
      /\ Tail(Buffer) \in Seq(Items) /\ IsInjective(Tail(Buffer))
      /\ ToSet(Tail(Buffer)) = ToSet(Buffer) \ {y} /\ y \in ToSet(Buffer)
      /\ y \notin Hands \cup ToSet(delivered) \cup ToSet(freed)
  BY <1>2, <1>3, Oldest
<1>6. Buffer \in Seq(Items) /\ Len(Buffer) = QueueLength /\ Live = QueueLength
  BY <1>1, <1>2, BufferOK
<1>. HIDE DEF x, y
<1>7. Live' = Live
  <2>1. p \in Threads
    BY DEF Threads
  <2>. QED BY <1>1, <2>1, LiveSame DEF Critical
<1>8. Buffer' = Append(Tail(Buffer), x)
  <2>1. Ring(queue, queuePos, QueueLength) \in Seq(Items)
    BY <1>6, BufferIsRing
  <2>2. QueueLength \in 0 .. QueueLength
    BY <1>3
  <2>3. Ring(queue', Advanced(queuePos), QueueLength)
          = Append(Tail(Ring(queue, queuePos, QueueLength)), x)
    <3>1. queue' = [queue EXCEPT ![Advanced(queuePos)] = x] /\ x \in Items
      BY <1>1, <1>2
    <3>2. queue \in [Slots -> Items \cup {Null}] /\ queuePos \in Slots
      BY <1>3
    <3>3. QueueLength = QueueLength =>
            Ring(queue', Advanced(queuePos), QueueLength)
              = Append(Tail(Ring(queue, queuePos, QueueLength)), x)
      BY <2>1, <2>2, <3>1, <3>2, RingStored
    <3>. QED BY <3>3
  <2>. QED BY <1>1, <1>6, <1>7, <2>3, BufferIsRing
<1>9. ToSet(Buffer') = (ToSet(Buffer) \ {y}) \cup {x} /\ IsInjective(Buffer')
  <2>1. x \notin ToSet(Tail(Buffer))
    BY <1>2, <1>5
  <2>2. Tail(Buffer) \in Seq(Items) /\ IsInjective(Tail(Buffer)) /\ x \in Items
    BY <1>2, <1>5
  <2>3. /\ ToSet(Append(Tail(Buffer), x)) = ToSet(Tail(Buffer)) \cup {x}
        /\ IsInjective(Append(Tail(Buffer), x))
    BY <2>1, <2>2, AppendFacts
  <2>. QED BY <1>5, <1>8, <2>3
<1>10. OneHand' /\ Hands' = Hands \ {x}
  BY <1>1, <1>2, HandsEmptied DEF OwnersOK, IInv, x
<1>11. /\ freed' = FreedWith(y) /\ IsInjective(freed')
       /\ ToSet(freed') = IF freeItem THEN ToSet(freed) \cup {y} ELSE ToSet(freed)
  <2>1. freed' = FreedWith(y)
    BY <1>1, <1>4 DEF y
  <2>2. IsInjective(freed) /\ y \notin ToSet(freed)
    BY <1>5 DEF OwnersOK
  <2>. QED BY <1>3, <1>5, <2>1, <2>2, FreedFacts
<1>12. OwnersOK'
  <2>. DEFINE H == Hands
              B == ToSet(Buffer)
              G == ToSet(delivered)
              F == ToSet(freed)
  <2>1. Apart(H, B, G, F, made) /\ x \in H /\ x \notin B \cup G \cup F /\ y \in B /\ y \notin H \cup G \cup F
    BY <1>2, <1>5 DEF OwnersOK
  <2>. HIDE DEF H, B, G, F
  <2>2. Apart(H \ {x}, (B \ {y}) \cup {x}, G, IF freeItem THEN F \cup {y} ELSE F, made)
    <3>1. CASE freeItem
      BY <2>1, <3>1 DEF Apart
    <3>2. CASE ~freeItem
      BY <2>1, <3>2 DEF Apart
    <3>. QED BY <3>1, <3>2
  <2>3. Apart(Hands', ToSet(Buffer'), ToSet(delivered'), ToSet(freed'), made')
    BY <1>1, <1>9, <1>10, <1>11, <2>2 DEF H, B, G, F
  <2>. QED BY <1>1, <1>9, <1>10, <1>11, <2>3 DEF OwnersOK, Apart, config
<1>13. Fifo!ReplaceOldest(x)
  BY <1>1, <1>5, <1>6, <1>8, <1>11 DEF Fifo!ReplaceOldest, Fifo!Free, FreedWith
<1>14. Fifo!IsNew(x)
  BY <1>2 DEF Fifo!IsNew, ToSet, Fifo!ToSet
<1>15. UNCHANGED config
  BY <1>1
<1>16. Offer(x)
  BY <1>2, <1>10, <1>13, <1>14, <1>15 DEF Offer
<1>. QED BY <1>2, <1>12, <1>16 DEF Abstract

LEMMA EnqDropOwners ==
    ASSUME IInv, OwnersOK, NEW p \in Producers, EnqDrop(p)
    PROVE  Abstract
<1>. DEFINE x == item[p]
<1>1. /\ pc[p] = "store" /\ Goto(p, "store", "idle") /\ queueCount = QueueLength
      /\ queueMode = "DropCurrent"
      /\ queueCount' = queueCount /\ item' = [item EXCEPT ![p] = Null]
      /\ freed' = FreedWith(x)
      /\ UNCHANGED <<config, queue, queuePos, made, delivered>>
  BY DEF EnqDrop, Goto, ring
<1>2. /\ x \in Items /\ x # Null /\ x \in Hands
      /\ x \notin ToSet(Buffer) \cup ToSet(delivered) \cup ToSet(freed)
      /\ Live = queueCount
  BY <1>1, InHand
<1>3. freed \in Seq(Items)
  BY DEF IInv, TypeOK
<1>. HIDE DEF x
<1>4. Live' = Live
  <2>1. p \in Threads
    BY DEF Threads
  <2>. QED BY <1>1, <2>1, LiveSame DEF Critical
<1>5. Buffer' = Buffer
  BY <1>1, <1>4 DEF Buffer, Behind
<1>6. Len(Buffer) = QueueLength
  BY <1>1, <1>2, BufferOK
<1>7. OneHand' /\ Hands' = Hands \ {x}
  BY <1>1, <1>2, HandsEmptied DEF OwnersOK, IInv, x
<1>8. /\ IsInjective(freed')
      /\ ToSet(freed') = IF freeItem THEN ToSet(freed) \cup {x} ELSE ToSet(freed)
  <2>1. IsInjective(freed) /\ x \notin ToSet(freed)
    BY <1>2 DEF OwnersOK
  <2>. QED BY <1>1, <1>2, <1>3, <2>1, FreedFacts
<1>9. OwnersOK'
  <2>. DEFINE H == Hands
              B == ToSet(Buffer)
              G == ToSet(delivered)
              F == ToSet(freed)
  <2>1. Apart(H, B, G, F, made) /\ x \in H /\ x \notin B \cup G \cup F
    BY <1>2 DEF OwnersOK
  <2>. HIDE DEF H, B, G, F
  <2>2. Apart(H \ {x}, B, G, IF freeItem THEN F \cup {x} ELSE F, made)
    <3>1. CASE freeItem
      BY <2>1, <3>1 DEF Apart
    <3>2. CASE ~freeItem
      BY <2>1, <3>2 DEF Apart
    <3>. QED BY <3>1, <3>2
  <2>3. Apart(Hands', ToSet(Buffer'), ToSet(delivered'), ToSet(freed'), made')
    BY <1>1, <1>5, <1>7, <1>8, <2>2 DEF H, B, G, F
  <2>. QED BY <1>1, <1>5, <1>7, <1>8, <2>3 DEF OwnersOK, Apart, config
<1>10. Fifo!RefuseNewest(x)
  BY <1>1, <1>5, <1>6 DEF Fifo!RefuseNewest, Fifo!Free, FreedWith
<1>11. Fifo!IsNew(x)
  BY <1>2 DEF Fifo!IsNew, ToSet, Fifo!ToSet
<1>. QED BY <1>1, <1>2, <1>7, <1>9, <1>10, <1>11 DEF Abstract, Offer, config

LEMMA DeqTakeOwners ==
    ASSUME IInv, OwnersOK, NEW c \in Consumers, DeqTake(c)
    PROVE  Abstract
<1>. DEFINE y == queue[OldestIndex]
<1>. c \in Threads
  BY DEF Threads
<1>1. /\ pc[c] = "take" /\ Goto(c, "take", "idle")
      /\ queueCount' = queueCount - 1 /\ delivered' = Append(delivered, y)
      /\ UNCHANGED <<config, queue, queuePos, item, made, freed>>
  BY DEF DeqTake, Goto
<1>2. ~Stored /\ ~Cleared /\ ~Posted /\ ~Stored' /\ ~Cleared'
  BY <1>1, Alone, NextStage, ThreadAssumption DEF Critical
<1>3. queueCount \in 1 .. QueueLength
  <2>1. c \in TokenHolders
    BY <1>1 DEF TokenHolders
  <2>2. Cardinality(TokenHolders) \in Nat /\ Cardinality(TokenHolders) # 0
    BY <2>1, HoldersFinite, FS_EmptySet
  <2>. QED BY <1>2, <2>2, LengthAssumption DEF IInv, TypeOK, TokensMatchItems
<1>4. /\ queue \in [Slots -> Items \cup {Null}] /\ queuePos \in Slots
      /\ delivered \in Seq(Items) /\ QueueLength \in Nat
  BY LengthAssumption DEF IInv, TypeOK
<1>5. /\ y \in Items /\ Buffer # <<>> /\ Head(Buffer) = y
      /\ Tail(Buffer) \in Seq(Items) /\ IsInjective(Tail(Buffer))
      /\ ToSet(Tail(Buffer)) = ToSet(Buffer) \ {y} /\ y \in ToSet(Buffer)
      /\ y \notin Hands \cup ToSet(delivered) \cup ToSet(freed)
  BY <1>2, <1>3, <1>4, Oldest
<1>6. Buffer \in Seq(Items) /\ Live = queueCount /\ Live' = queueCount - 1
  BY <1>1, <1>2, <1>3, BufferOK, LengthAssumption DEF Live
<1>. HIDE DEF y
<1>7. Buffer' = Tail(Buffer)
  <2>1. Ring(queue, queuePos, queueCount) \in Seq(Items)
    BY <1>6, BufferIsRing
  <2>2. Ring(queue, queuePos, queueCount - 1) = Tail(Ring(queue, queuePos, queueCount))
    BY <1>3, <1>4, <2>1, RingTaken
  <2>. QED BY <1>1, <1>6, <2>2, BufferIsRing
<1>8. ToSet(delivered') = ToSet(delivered) \cup {y} /\ IsInjective(delivered')
  <2>1. IsInjective(delivered) /\ y \notin ToSet(delivered)
    BY <1>5 DEF OwnersOK
  <2>. QED BY <1>1, <1>4, <1>5, <2>1, AppendFacts
<1>9. OwnersOK'
  <2>. DEFINE H == Hands
              B == ToSet(Buffer)
              G == ToSet(delivered)
              F == ToSet(freed)
  <2>1. Apart(H, B, G, F, made) /\ y \in B /\ y \notin H \cup G \cup F
    BY <1>5 DEF OwnersOK
  <2>. HIDE DEF H, B, G, F
  <2>2. Apart(H, B \ {y}, G \cup {y}, F, made)
    BY <2>1 DEF Apart
  <2>3. Hands' = Hands /\ OneHand'
    BY <1>1 DEF Hands, OneHand, OwnersOK
  <2>4. Apart(Hands', ToSet(Buffer'), ToSet(delivered'), ToSet(freed'), made')
    BY <1>1, <1>5, <1>7, <1>8, <2>2, <2>3 DEF H, B, G, F
  <2>. QED BY <1>1, <1>5, <1>7, <1>8, <2>3, <2>4 DEF OwnersOK, Apart, config
<1>10. Fifo!Take
  BY <1>1, <1>5, <1>7 DEF Fifo!Take
<1>11. Hands' = Hands
  BY <1>1 DEF Hands
<1>. QED BY <1>1, <1>9, <1>10, <1>11 DEF Abstract, config

LEMMA ClearFreeOwners ==
    ASSUME IInv, OwnersOK, NEW f \in Flushers, ClearFree(f)
    PROVE  Abstract
<1>. DEFINE y == queue[OldestIndex]
<1>. f \in Threads
  BY DEF Threads
<1>1. /\ pc[f] = "clear" /\ Goto(f, "clear", "clearWait") /\ freeItem /\ queueCount > 0
      /\ queueCount' = queueCount /\ freed' = Append(freed, y)
      /\ queue' = [queue EXCEPT ![OldestIndex] = Null]
      /\ UNCHANGED <<config, queuePos, item, made, delivered>>
  BY DEF ClearFree, Goto, FreedWith
<1>2. ~Stored /\ ~Cleared /\ ~Stored' /\ Cleared'
  BY <1>1, Alone, NextStage, ThreadAssumption DEF Critical
<1>3. /\ queue \in [Slots -> Items \cup {Null}] /\ queuePos \in Slots
      /\ freed \in Seq(Items) /\ QueueLength \in Nat /\ queueCount \in 1 .. QueueLength
  BY <1>1, LengthAssumption DEF IInv, TypeOK
<1>4. OldestIndex = Spot(queuePos, queueCount - 1)
  BY <1>3, OldestIsLast DEF Behind, Spot
<1>5. /\ y \in Items /\ Buffer # <<>> /\ Head(Buffer) = y
      /\ Tail(Buffer) \in Seq(Items) /\ IsInjective(Tail(Buffer))
      /\ ToSet(Tail(Buffer)) = ToSet(Buffer) \ {y} /\ y \in ToSet(Buffer)
      /\ y \notin Hands \cup ToSet(delivered) \cup ToSet(freed)
  BY <1>1, <1>2, <1>3, Oldest
<1>6. Buffer \in Seq(Items) /\ Live = queueCount /\ Live' = queueCount - 1
  BY <1>1, <1>2, <1>3, BufferOK, LengthAssumption DEF Live
<1>. HIDE DEF y
<1>7. Buffer' = Tail(Buffer)
  <2>1. Ring(queue, queuePos, queueCount) \in Seq(Items)
    BY <1>6, BufferIsRing
  <2>2. \A i \in Slots \ {Spot(queuePos, queueCount - 1)} : queue'[i] = queue[i]
    BY <1>1, <1>3, <1>4
  <2>3. Ring(queue', queuePos, queueCount - 1) = Tail(Ring(queue, queuePos, queueCount))
    BY <1>3, <2>1, <2>2, RingTaken
  <2>. QED BY <1>1, <1>6, <2>3, BufferIsRing
<1>8. ToSet(freed') = ToSet(freed) \cup {y} /\ IsInjective(freed')
  <2>1. IsInjective(freed) /\ y \notin ToSet(freed)
    BY <1>5 DEF OwnersOK
  <2>. QED BY <1>1, <1>3, <1>5, <2>1, AppendFacts
<1>9. OwnersOK'
  <2>. DEFINE H == Hands
              B == ToSet(Buffer)
              G == ToSet(delivered)
              F == ToSet(freed)
  <2>1. Apart(H, B, G, F, made) /\ y \in B /\ y \notin H \cup G \cup F
    BY <1>5 DEF OwnersOK
  <2>. HIDE DEF H, B, G, F
  <2>2. Apart(H, B \ {y}, G, F \cup {y}, made)
    BY <2>1 DEF Apart
  <2>3. Hands' = Hands /\ OneHand'
    BY <1>1 DEF Hands, OneHand, OwnersOK
  <2>4. Apart(Hands', ToSet(Buffer'), ToSet(delivered'), ToSet(freed'), made')
    BY <1>1, <1>5, <1>7, <1>8, <2>2, <2>3 DEF H, B, G, F
  <2>. QED BY <1>1, <1>5, <1>7, <1>8, <2>3, <2>4 DEF OwnersOK, Apart, config
<1>10. Fifo!Discard
  BY <1>1, <1>5, <1>7 DEF Fifo!Discard, Fifo!Free
<1>11. Hands' = Hands
  BY <1>1 DEF Hands
<1>. QED BY <1>1, <1>9, <1>10, <1>11 DEF Abstract, config

\* The other steps inside or at the border of a critical section.
LEMMA BorderOwners ==
    ASSUME IInv, OwnersOK,
           \/ \E p \in Producers : EnqPost(p) \/ EnqCount(p) \/ EnqRefuse(p)
           \/ \E c \in Consumers : DeqLock(c)
           \/ \E f \in Flushers : ClearLock(f) \/ ClearWait(f) \/ ClearUnlock(f)
    PROVE  Abstract
<1>1. \A t \in Producers \cup Consumers \cup Flushers : t \in Threads
  BY DEF Threads
<1>2. UNCHANGED <<config, queue, queuePos, item, made, delivered, freed>>
  BY DEF EnqPost, EnqCount, EnqRefuse, DeqLock, ClearLock, ClearWait, ClearUnlock, ring, ghost
<1>3. Live' = Live
  <2>1. ASSUME NEW p \in Producers, EnqPost(p)
        PROVE  Live' = Live
    BY <1>1, <2>1, LiveSame DEF EnqPost, Critical, ring
  <2>2. ASSUME NEW p \in Producers, EnqCount(p)
        PROVE  Live' = Live
    BY <1>1, <2>2, LiveSame DEF EnqCount, Critical
  <2>3. ASSUME NEW p \in Producers, EnqRefuse(p)
        PROVE  Live' = Live
    BY <1>1, <2>3, LiveSame DEF EnqRefuse, Critical, ring
  <2>4. ASSUME NEW c \in Consumers, DeqLock(c)
        PROVE  Live' = Live
    BY <1>1, <2>4, LiveSame DEF DeqLock, Lock, ring
  <2>5. ASSUME NEW f \in Flushers, ClearLock(f)
        PROVE  Live' = Live
    BY <1>1, <2>5, LiveSame DEF ClearLock, Lock, ring
  <2>6. ASSUME NEW f \in Flushers, ClearWait(f)
        PROVE  Live' = Live
    BY <1>1, <2>6, LiveSame DEF ClearWait, Critical
  <2>7. ASSUME NEW f \in Flushers, ClearUnlock(f)
        PROVE  Live' = Live
    BY <1>1, <2>7, LiveSame DEF ClearUnlock, Critical, ring
  <2>. QED BY <2>1, <2>2, <2>3, <2>4, <2>5, <2>6, <2>7
<1>. QED BY <1>2, <1>3, QuietStep DEF Abstract

\* A consumer that waits.
LEMMA WaitOwners ==
    ASSUME IInv, OwnersOK, NEW c \in Consumers, DeqCall(c) \/ DeqAcquire(c) \/ DeqTimeout(c)
    PROVE  Abstract
<1>1. /\ \E to : pc' = [pc EXCEPT ![c] = to]
      /\ queueCount' = queueCount
      /\ UNCHANGED <<config, queue, queuePos, item, made, delivered, freed>>
  BY DEF DeqCall, DeqAcquire, DeqTimeout, Goto, ring, ghost
<1>2. Stored' = Stored /\ Cleared' = Cleared
  BY <1>1, SameStage
<1>3. Live' = Live
  BY <1>1, <1>2 DEF Live
<1>. QED BY <1>1, <1>3, QuietStep DEF Abstract

LEMMA InitOwners == Init => OwnersOK /\ Fifo!Init
<1>. SUFFICES ASSUME Init PROVE OwnersOK /\ Fifo!Init
  OBVIOUS
<1>1. ~Stored /\ ~Cleared /\ Live = 0
  BY DEF Init, Stored, Cleared, Threads, Live
<1>2. Buffer = <<>>
  BY <1>1 DEF Buffer
<1>3. delivered = <<>> /\ freed = <<>> /\ made = 0 /\ \A p \in Producers : item[p] = Null
  BY DEF Init
<1>4. Hands = {} /\ OneHand
  BY <1>3 DEF Hands, OneHand
<1>5. ToSet(<<>>) = {} /\ IsInjective(<<>>)
  BY EmptyFacts
<1>6. OwnersOK
  BY <1>2, <1>3, <1>4, <1>5 DEF OwnersOK, Apart
<1>. QED BY <1>2, <1>3, <1>6 DEF Init, Fifo!Init, Modes

LEMMA NextOwners == IInv /\ OwnersOK /\ [Next]_vars => Abstract
<1>. SUFFICES ASSUME IInv, OwnersOK, [Next]_vars PROVE Abstract
  OBVIOUS
<1>1. ASSUME NEW p \in Producers, Enqueue(p) PROVE Abstract
  BY <1>1, EnqLockOwners, EnqStoreOwners, EnqReplaceOwners, EnqDropOwners, BorderOwners
  DEF Enqueue
<1>2. ASSUME NEW c \in Consumers, Dequeue(c) PROVE Abstract
  BY <1>2, WaitOwners, DeqTakeOwners, BorderOwners DEF Dequeue
<1>3. ASSUME NEW f \in Flushers, Clear(f) PROVE Abstract
  BY <1>3, ClearFreeOwners, BorderOwners DEF Clear
<1>4. CASE UNCHANGED vars
  <2>1. Live' = Live
    BY <1>4 DEF vars, ring, Live, Stored, Cleared
  <2>. QED BY <1>4, <2>1, QuietStep DEF Abstract, vars, ring, ghost
<1>. QED BY <1>1, <1>2, <1>3, <1>4 DEF Next

\* The abstract queue makes a step of its own or none.
LEMMA AbstractStep == Abstract => [Fifo!Next]_(Fifo!vars)
BY DEF Abstract, Offer, Fifo!Next, config

LEMMA OwnersInvariance == Spec => [](IInv /\ OwnersOK)
<1>1. Init => IInv /\ OwnersOK
  BY InitIInv, InitOwners
<1>2. IInv /\ OwnersOK /\ [Next]_vars => IInv' /\ OwnersOK'
  BY NextIInv, NextOwners DEF Abstract
<1>. QED BY <1>1, <1>2, PTL DEF Spec

\* How often an item is in a sequence without repetition.
LEMMA CountedOnce ==
    ASSUME NEW s \in Seq(Items), IsInjective(s), NEW x
    PROVE  CountIn(s, x) = IF x \in ToSet(s) THEN 1 ELSE 0
<1>. DEFINE K == {k \in DOMAIN s : s[k] = x}
<1>1. CASE x \in ToSet(s)
  <2>1. PICK k \in DOMAIN s : s[k] = x
    BY <1>1 DEF ToSet
  <2>2. K = {k}
    BY <2>1 DEF IsInjective
  <2>. QED BY <1>1, <2>2, FS_Singleton DEF CountIn
<1>2. CASE x \notin ToSet(s)
  <2>1. K = {}
    BY <1>2 DEF ToSet
  <2>. QED BY <1>2, <2>1, FS_EmptySet DEF CountIn
<1>. QED BY <1>1, <1>2

LEMMA InOneHand ==
    ASSUME OneHand, NEW x, x # Null
    PROVE  Cardinality({p \in Producers : item[p] = x}) = IF x \in Hands THEN 1 ELSE 0
<1>. DEFINE P == {p \in Producers : item[p] = x}
<1>1. CASE x \in Hands
  <2>1. PICK p \in Producers : item[p] = x
    BY <1>1, InHands
  <2>2. P = {p}
    BY <2>1 DEF OneHand
  <2>. QED BY <1>1, <2>2, FS_Singleton
<1>2. CASE x \notin Hands
  <2>1. P = {}
    BY <1>2, InHands
  <2>. QED BY <1>2, <2>1, FS_EmptySet
<1>. QED BY <1>1, <1>2

LEMMA OwnersCounted == IInv /\ OwnersOK => OneOwner
<1>. SUFFICES ASSUME IInv, OwnersOK, NEW i \in 1 .. made
              PROVE  Places(i) = 1 \/ (~freeItem /\ Places(i) = 0)
  BY DEF OneOwner
<1>1. i # Null
  <2>1. made \in 0 .. MaxItems /\ MaxItems \in Nat
    BY LengthAssumption DEF IInv, TypeOK
  <2>2. i \in Items
    BY <2>1 DEF Items
  <2>. QED BY <2>2, NullAssumption
<1>2. Buffer \in Seq(Items) /\ delivered \in Seq(Items) /\ freed \in Seq(Items)
  BY BufferOK DEF IInv, TypeOK
<1>. DEFINE H == Hands
            B == ToSet(Buffer)
            G == ToSet(delivered)
            F == ToSet(freed)
<1>3. Cardinality({p \in Producers : item[p] = i}) = IF i \in H THEN 1 ELSE 0
  BY <1>1, InOneHand DEF OwnersOK
<1>4. /\ CountIn(Buffer, i) = IF i \in B THEN 1 ELSE 0
      /\ CountIn(delivered, i) = IF i \in G THEN 1 ELSE 0
      /\ CountIn(freed, i) = IF i \in F THEN 1 ELSE 0
  BY <1>2, CountedOnce DEF OwnersOK
<1>5. Apart(H, B, G, F, made)
  BY DEF OwnersOK
<1>. HIDE DEF H, B, G, F
<1>6. Places(i) = (IF i \in H THEN 1 ELSE 0) + (IF i \in B THEN 1 ELSE 0)
                    + (IF i \in G THEN 1 ELSE 0) + (IF i \in F THEN 1 ELSE 0)
  BY <1>3, <1>4 DEF Places
<1>7. /\ i \in H => i \notin B /\ i \notin G /\ i \notin F
      /\ i \in B => i \notin G /\ i \notin F
      /\ i \in G => i \notin F
      /\ freeItem => i \in H \/ i \in B \/ i \in G \/ i \in F
  BY <1>5 DEF Apart
<1>. QED BY <1>6, <1>7

\* With any number of threads, slots and items every item is in exactly one place,
\* in whatever mode and whoever flushes: no frame is lost, handed out twice,
\* destroyed twice or destroyed and still handed out.
THEOREM OwnersCorrect == Spec => []OneOwner
BY OwnersInvariance, OwnersCounted, PTL

\* The ring with its semaphore and mutex implements the bounded FIFO with the
\* overflow rule of its mode (bta_ext.h:37-42), for any length and any threads.
THEOREM Refinement == Spec => ImplementsFifo
<1>1. Init => Fifo!Init
  BY InitOwners
<1>2. IInv /\ OwnersOK /\ [Next]_vars => [Fifo!Next]_(Fifo!vars)
  BY NextOwners, AbstractStep
<1>. QED BY <1>1, <1>2, OwnersInvariance, PTL DEF Spec, ImplementsFifo, Fifo!Spec

-------------------------------------------------------------------------------
(* The order of one producer's items *)

Rising(s) == \A j, k \in DOMAIN s : j < k => s[j] < s[k]

\* The items with consumers, in the ring and in the hand come in the order of their
\* numbers, which is the order of their making.
OrderOK == /\ Rising(delivered) /\ Rising(Buffer)
           /\ \A x \in ToSet(delivered), y \in ToSet(Buffer) : x < y
           /\ \A x \in ToSet(delivered) \cup ToSet(Buffer), y \in Hands : x < y

LEMMA RisingAppend ==
    ASSUME NEW s \in Seq(Items), NEW e \in Items, Rising(s), \A x \in ToSet(s) : x < e
    PROVE  Rising(Append(s, e))
<1>. DEFINE t == Append(s, e)
<1>1. /\ Len(s) \in Nat /\ DOMAIN s = 1 .. Len(s) /\ DOMAIN t = 1 .. Len(s) + 1
      /\ \A i \in 1 .. Len(s) : t[i] = s[i] /\ s[i] < e
      /\ t[Len(s) + 1] = e
  BY AppendProperties, LenProperties DEF ToSet
<1>. HIDE DEF t
<1>2. ASSUME NEW j \in 1 .. Len(s) + 1, NEW k \in 1 .. Len(s) + 1, j < k
      PROVE  t[j] < t[k]
  <2>1. j \in 1 .. Len(s)
    BY <1>1, <1>2
  <2>2. CASE k = Len(s) + 1
    BY <1>1, <2>1, <2>2
  <2>3. CASE k \in 1 .. Len(s)
    BY <1>1, <1>2, <2>1, <2>3 DEF Rising
  <2>. QED BY <1>1, <2>2, <2>3
<1>. QED BY <1>1, <1>2 DEF Rising, t

LEMMA RisingTail ==
    ASSUME NEW s \in Seq(Items), s # <<>>, Rising(s)
    PROVE  Rising(Tail(s)) /\ \A x \in ToSet(Tail(s)) : Head(s) < x
<1>. DEFINE t == Tail(s)
<1>1. /\ Len(s) \in Nat /\ Len(s) > 0 /\ Head(s) = s[1]
      /\ \A i \in 1 .. Len(s) - 1 : t[i] = s[i + 1]
      /\ DOMAIN s = 1 .. Len(s) /\ DOMAIN t = 1 .. Len(s) - 1
  BY HeadTailProperties, LenProperties, EmptySeq
<1>. HIDE DEF t
<1>2. \A i \in 1 .. Len(s) - 1 : i + 1 \in 1 .. Len(s) /\ 1 \in 1 .. Len(s) /\ 1 < i + 1
  BY <1>1
<1>3. ASSUME NEW j \in DOMAIN t, NEW k \in DOMAIN t, j < k
      PROVE  t[j] < t[k]
  <2>1. j + 1 < k + 1
    BY <1>1, <1>3
  <2>. QED BY <1>1, <1>2, <2>1 DEF Rising
<1>4. ASSUME NEW i \in DOMAIN t
      PROVE  s[1] < t[i]
  BY <1>1, <1>2 DEF Rising
<1>. QED BY <1>1, <1>3, <1>4 DEF Rising, ToSet, t

LEMMA OfferInOrder ==
    ASSUME \A p, q \in Producers : p = q, IInv, OwnersOK, OrderOK, NEW x \in Items, Offer(x)
    PROVE  OrderOK'
<1>1. Buffer \in Seq(Items) /\ delivered \in Seq(Items)
  BY BufferOK DEF IInv, TypeOK
<1>2. Hands' = {}
  BY DEF Offer, Hands
<1>3. \A y \in ToSet(Buffer) \cup ToSet(delivered) : y < x
  BY DEF Offer, OrderOK
<1>4. CASE Fifo!Accept(x)
  <2>1. Buffer' = Append(Buffer, x) /\ delivered' = delivered
    BY <1>4 DEF Fifo!Accept
  <2>2. ToSet(Buffer') = ToSet(Buffer) \cup {x} /\ Rising(Buffer')
    BY <1>1, <1>3, <2>1, AppendFacts, RisingAppend DEF OrderOK
  <2>. QED BY <1>2, <1>3, <2>1, <2>2 DEF OrderOK
<1>5. CASE Fifo!ReplaceOldest(x)
  <2>1. Buffer' = Append(Tail(Buffer), x) /\ delivered' = delivered /\ Buffer # <<>>
    BY <1>1, <1>5, LengthAssumption DEF Fifo!ReplaceOldest
  <2>2. /\ Tail(Buffer) \in Seq(Items) /\ ToSet(Tail(Buffer)) \subseteq ToSet(Buffer)
        /\ Rising(Tail(Buffer))
    BY <1>1, <2>1, TailFacts, RisingTail DEF OrderOK
  <2>3. ToSet(Buffer') = ToSet(Tail(Buffer)) \cup {x} /\ Rising(Buffer')
    <3>. DEFINE t == Tail(Buffer)
    <3>1. t \in Seq(Items) /\ Rising(t) /\ \A y \in ToSet(t) : y < x
      BY <1>3, <2>2
    <3>. HIDE DEF t
    <3>2. ToSet(Append(t, x)) = ToSet(t) \cup {x} /\ Rising(Append(t, x))
      BY <3>1, AppendFacts, RisingAppend
    <3>. QED BY <2>1, <3>2 DEF t
  <2>. QED BY <1>2, <1>3, <2>1, <2>2, <2>3 DEF OrderOK
<1>6. CASE Fifo!RefuseNewest(x)
  BY <1>2, <1>6 DEF Fifo!RefuseNewest, OrderOK
<1>. QED BY <1>4, <1>5, <1>6 DEF Offer

LEMMA RemoveInOrder ==
    ASSUME IInv, OwnersOK, OrderOK, Fifo!Take \/ Fifo!Discard, Hands' = Hands
    PROVE  OrderOK'
<1>. DEFINE y == Head(Buffer)
<1>1. Buffer \in Seq(Items) /\ delivered \in Seq(Items) /\ Buffer # <<>> /\ Buffer' = Tail(Buffer)
  BY BufferOK DEF IInv, TypeOK, Fifo!Take, Fifo!Discard
<1>2. /\ y \in Items /\ ToSet(Buffer) = {y} \cup ToSet(Buffer') /\ Rising(Buffer')
      /\ \A x \in ToSet(Buffer') : y < x
  BY <1>1, TailFacts, RisingTail DEF OrderOK
<1>. HIDE DEF y
<1>3. CASE delivered' = delivered
  BY <1>2, <1>3 DEF OrderOK
<1>4. CASE delivered' = Append(delivered, y)
  <2>1. \A x \in ToSet(delivered) : x < y
    BY <1>2 DEF OrderOK
  <2>2. ToSet(delivered') = ToSet(delivered) \cup {y} /\ Rising(delivered')
    BY <1>1, <1>2, <1>4, <2>1, AppendFacts, RisingAppend DEF OrderOK
  <2>. QED BY <1>2, <2>1, <2>2 DEF OrderOK
<1>. QED BY <1>3, <1>4 DEF Fifo!Take, Fifo!Discard, y

LEMMA NextInOrder ==
    ASSUME \A p, q \in Producers : p = q, IInv, OwnersOK, OrderOK, [Next]_vars
    PROVE  OrderOK'
<1>1. ASSUME UNCHANGED Fifo!vars, Hands' \subseteq Hands \cup {made + 1}
      PROVE  OrderOK'
  <2>1. Buffer' = Buffer /\ delivered' = delivered
    BY <1>1 DEF Fifo!vars
  <2>2. \A x \in ToSet(delivered) \cup ToSet(Buffer) : x < made + 1
    <3>1. \A x \in ToSet(delivered) \cup ToSet(Buffer) : x \in 1 .. made
      BY DEF OwnersOK, Apart
    <3>2. made \in Nat
      BY LengthAssumption DEF IInv, TypeOK
    <3>. QED BY <3>1, <3>2
  <2>. QED BY <1>1, <2>1, <2>2 DEF OrderOK
<1>. QED BY <1>1, NextOwners, OfferInOrder, RemoveInOrder DEF Abstract

\* With one producer, as the SDK's queues have (the thread that hands frames over),
\* consumers get the items in the order of their making, whatever is dropped,
\* refused and offered again, or flushed meanwhile, and however many consumers
\* there are.
DeliveredInOrder == Rising(delivered)

\* One producer's items are delivered in the order BVQenqueue was called for them.
THEOREM OrderCorrect ==
    ASSUME \A p, q \in Producers : p = q
    PROVE  Spec => []DeliveredInOrder
<1>1. Init => OrderOK
  <2>1. ASSUME Init
        PROVE  Buffer = <<>> /\ delivered = <<>>
    BY <2>1, InitOwners DEF Fifo!Init
  <2>2. ToSet(<<>>) = {}
    BY EmptyFacts
  <2>. QED BY <2>1, <2>2 DEF OrderOK, Rising
<1>2. IInv /\ OwnersOK /\ OrderOK /\ [Next]_vars => OrderOK'
  BY NextInOrder
<1>3. OrderOK => DeliveredInOrder
  BY DEF OrderOK, DeliveredInOrder
<1>. QED BY <1>1, <1>2, <1>3, OwnersInvariance, PTL DEF Spec

-------------------------------------------------------------------------------
(* A flush that got stuck *)

\* What is true of a stuck flush: it holds the mutex, and the consumer c that has
\* the token waits for it.
LEMMA FlushHolds ==
    ASSUME IInv, NEW f \in Flushers, pc[f] = "clearWait", semQueueCount = 0
    PROVE  /\ queueMutex = f /\ queueMutex # Null
           /\ \A t \in Threads \ {f} : pc[t] \notin Critical
           /\ \E c \in Consumers : pc[c] = "lock"
<1>. f \in Threads
  BY DEF Threads
<1>1. queueMutex = f /\ ~Posted /\ \A t \in Threads \ {f} : pc[t] \notin Critical
  BY Alone DEF Critical
<1>2. Cardinality(TokenHolders) # 0
  BY <1>1, LengthAssumption DEF IInv, TokensMatchItems, SectionOK, TypeOK
<1>3. PICK c \in Consumers : pc[c] \in {"lock", "take"}
  BY <1>2, FS_EmptySet DEF TokenHolders
<1>4. c \in Threads /\ c # f
  BY ThreadAssumption DEF Threads
<1>. QED BY <1>1, <1>3, <1>4, NullAssumption DEF Critical

\* While a flush is stuck consumers can only begin to wait and stop waiting.
LEMMA StuckStep ==
    ASSUME IInv, FlushBlocked, Next
    PROVE  /\ FlushBlocked'
           /\ \A t \in Threads : pc'[t] # pc[t] => t \in Consumers /\ pc[t] # "lock"
           /\ UNCHANGED <<ring, item, made, ghost>>
<1>1. PICK f \in Flushers : pc[f] = "clearWait" /\ semQueueCount = 0
  BY DEF FlushBlocked
<1>2. queueMutex # Null /\ \A t \in Threads \ {f} : pc[t] \notin Critical
  BY <1>1, FlushHolds
<1>3. ASSUME NEW p \in Producers, Enqueue(p)
      PROVE  FALSE
  <2>1. p \in Threads \ {f}
    BY ThreadAssumption DEF Threads
  <2>. QED BY <1>2, <1>3, <2>1
       DEF Enqueue, EnqLock, EnqStore, EnqPost, EnqCount, EnqReplace, EnqDrop, EnqRefuse,
           Goto, Lock, Critical
<1>4. ASSUME NEW g \in Flushers, Clear(g)
      PROVE  FALSE
  <2>1. g # f => g \in Threads \ {f}
    BY DEF Threads
  <2>. QED BY <1>1, <1>2, <1>4, <2>1
       DEF Clear, ClearLock, ClearFree, ClearWait, ClearUnlock, Goto, Lock, Critical
<1>5. ASSUME NEW c \in Consumers, Dequeue(c)
      PROVE  /\ FlushBlocked'
             /\ \A t \in Threads : pc'[t] # pc[t] => t \in Consumers /\ pc[t] # "lock"
             /\ UNCHANGED <<ring, item, made, ghost>>
  <2>1. c \in Threads \ {f}
    BY ThreadAssumption DEF Threads
  <2>2. DeqCall(c) \/ DeqTimeout(c)
    BY <1>1, <1>2, <1>5, <2>1
    DEF Dequeue, DeqAcquire, DeqLock, DeqTake, Goto, Lock, Critical
  <2>3. /\ semQueueCount' = semQueueCount /\ UNCHANGED <<ring, item, made, ghost>>
        /\ pc[c] \in {"idle", "wait"} /\ \E to : pc' = [pc EXCEPT ![c] = to]
    BY <2>2 DEF DeqCall, DeqTimeout, Goto, ghost
  <2>4. \A t \in Threads : t # c => pc'[t] = pc[t]
    BY <2>3 DEF IInv, TypeOK
  <2>5. f \in Threads
    BY DEF Threads
  <2>. QED BY <1>1, <2>1, <2>3, <2>4, <2>5 DEF FlushBlocked
<1>. QED BY <1>3, <1>4, <1>5 DEF Next

\* A BVQclear that waits for a token which a consumer took waits for ever: that
\* consumer waits for the mutex BVQclear holds.
THEOREM FlushStaysBlocked ==
    Spec => [](FlushBlocked => (\E c \in Consumers : pc[c] = "lock") /\ []FlushBlocked)
<1>1. IInv /\ FlushBlocked => \E c \in Consumers : pc[c] = "lock"
  BY FlushHolds DEF FlushBlocked
<1>2. IInv /\ FlushBlocked /\ [Next]_vars => FlushBlocked'
  <2>1. ASSUME FlushBlocked, UNCHANGED vars
        PROVE  FlushBlocked'
    BY <2>1 DEF FlushBlocked, vars
  <2>. QED BY <2>1, StuckStep
<1>. QED BY <1>1, <1>2, Invariance, PTL DEF Spec

\* And nothing moves in the queue any more: no call of BVQenqueue or BVQclear goes
\* on, no consumer that waits for the mutex gets it, and no item is stored, handed
\* out or destroyed.
BlockedStaysStill ==
    [][FlushBlocked => /\ \A t \in Threads : pc'[t] # pc[t] => t \in Consumers /\ pc[t] # "lock"
                       /\ UNCHANGED <<ring, item, made, ghost>>]_vars

\* A flush that waits for a token which was taken brings the whole queue to rest.
THEOREM BlockedIsStill == Spec => BlockedStaysStill
<1>1. IInv /\ [Next]_vars =>
         [FlushBlocked => /\ \A t \in Threads : pc'[t] # pc[t] => t \in Consumers /\ pc[t] # "lock"
                          /\ UNCHANGED <<ring, item, made, ghost>>]_vars
  BY StuckStep
<1>. QED BY <1>1, Invariance, PTL DEF Spec, BlockedStaysStill

===============================================================================
