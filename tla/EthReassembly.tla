---------------------------- MODULE EthReassembly ----------------------------
(***************************************************************************)
(* How BTAETHparseFramesRunFunction (sdk/bta_eth.c) puts frames together   *)
(* from version 2 packets, and requests the packets that are missing.      *)
(*                                                                         *)
(* Packets carry the counter of their frame, their place in it and the     *)
(* number of packets the frame has.  A few slots collect the packets of    *)
(* the frames under way.  The network loses and reorders; a request is     *)
(* answered, as the device pleases, with retransmitted packets and one     *)
(* "NDA" packet listing what it no longer has, or not at all, so that a    *)
(* packet may come twice and its NDA too.                                  *)
(*                                                                         *)
(* Clock readings matter only by their order: `now' is the rank of the     *)
(* last one, and the time-outs of a slot (no packet for a while, the next  *)
(* retry due) may have passed whenever the thread looks.                   *)
(***************************************************************************)
EXTENDS Integers, Sequences, FiniteSets, FiniteSetsExt, SequencesExt

CONSTANTS SlotCount,    \* framesToParseLen
          Streams,      \* what the device may send: sequences of [counter, total]
          Modes,        \* values of lpDataStreamRetrReqMode
          Supported,    \* values of flag 4 of a packet
          MaxAttempts,  \* lpDataStreamRetrReqMaxAttempts
          MaxTime,      \* bound on the ranks of clock readings
          MaxInFlight   \* bound on the messages in the network

\* Counters and places are 16 bits wide.
Largest  == 65535
Slots    == 0 .. SlotCount - 1
Sent     == UNION {ToSet(f) : f \in Streams}
Counters == {f.counter : f \in Sent}
Totals   == {f.total : f \in Sent}
Places   == 0 .. Max(Totals) - 1

ASSUME StreamsAssumption ==
    /\ \A f \in Streams : f \in Seq([counter : 0 .. Largest, total : 1 .. Largest]) /\ f # <<>>
    /\ Streams # {} /\ IsFiniteSet(Streams)
ASSUME BoundsAssumption ==
    /\ SlotCount \in Nat \ {0} /\ Modes \subseteq {0, 1, 2} /\ Supported \subseteq BOOLEAN
    /\ {MaxAttempts, MaxTime, MaxInFlight} \subseteq Nat \ {0}

VARIABLES slot,      \* framesToParse
          now,       \* rank of the last clock reading
          retransmissionSupport,
          mode,      \* inst->lpDataStreamRetrReqMode
          supported, \* what the device's packets say of retransmission
          frames,    \* the frames the device sends
          sender,    \* the device's next packet: frame k, place p
          net,       \* messages under way
          out        \* what the last step handed over and asked for

conf == <<mode, supported, frames>>
vars == <<slot, now, retransmissionSupport, conf, sender, net, out>>

Data(f, p, retr) == [kind |-> "data", counter |-> f.counter, total |-> f.total, pc |-> p, retr |-> retr]
Nda(c, L)        == [kind |-> "nda", counter |-> c, pcs |-> L]
Request(c, P)    == [kind |-> "request", counter |-> c, pcs |-> P]

Empty  == [time |-> 0, counter |-> 0, total |-> 0, len |-> 0, got |-> 0, nda |-> 0,
           sizes |-> [p \in Places |-> "none"], data |-> {}, retries |-> 0]
Silent == [parsed |-> <<>>, asked |-> {}]

Init == /\ slot = [i \in Slots |-> Empty]
        /\ now = 1
        /\ retransmissionSupport = FALSE
        /\ mode \in Modes /\ supported \in Supported /\ frames \in Streams
        /\ sender = [k |-> 1, p |-> 0]
        /\ net = {}
        /\ out = Silent

-----------------------------------------------------------------------------
(* The slots.  A slot is free when its timestamp is 0.                     *)

Pending(s)    == {i \in Slots : s[i].time # 0}
Complete(r)   == r.got + r.nda = r.total
Missing(r)    == {p \in 0 .. r.total - 1 : r.sizes[p] = "none"}

\* The timestamp is set to 0; nothing else of a free slot is read again but the
\* length of its arrays.
Freed(r)       == [Empty EXCEPT !.len = r.len]
Released(s, I) == [i \in Slots |-> IF i \in I THEN Freed(s[i]) ELSE s[i]]

\* The first of the slots with the smallest timestamp.
GetOldest == LET oldest == Min({slot[i].time : i \in Pending(slot)})
             IN  Min({i \in Slots : slot[i].time = oldest})

\* The last free slot, or else the oldest frame's: that frame is given up.
NewSlot == LET free == Slots \ Pending(slot)
           IN  IF free # {} THEN Max(free) ELSE GetOldest

\* (A search that stops at the first free slot.)
FoundBeforeFree(c) == {i \in Pending(slot) : /\ slot[i].counter = c
                                             /\ \A j \in 0 .. i - 1 : j \in Pending(slot)}

Found(c) == {i \in Pending(slot) : slot[i].counter = c}

\* (Arrays that are not grown for a frame with more packets.)
FreshKeepsArrays(i, m, t) == [Empty EXCEPT !.time = t, !.counter = m.counter,
                                           !.total = m.total, !.len = slot[i].len]

\* BTAinitFrameToParse: the arrays only grow.
Fresh(i, m, t) == [Empty EXCEPT !.time = t, !.counter = m.counter, !.total = m.total,
                                !.len = Max({slot[i].len, m.total})]

\* (The older unfinished frames are left alone.)
OlderNot(s, i) == {i}

\* What getOlderThan(slot i) returns, called until nothing is left: the older
\* frames and i itself, from the oldest on, the last slot first of equal ones.
ParsedFirst(s, i, j) == \/ s[i].time < s[j].time
                        \/ s[i].time = s[j].time /\ i > j
Older(s, i) == {j \in Pending(s) : j = i \/ ParsedFirst(s, j, i)}
Rank(s, I, i) == Cardinality({j \in I : ParsedFirst(s, j, i)})
OldestFirst(s, I) == [k \in 1 .. Cardinality(I) |-> CHOOSE i \in I : Rank(s, I, i) = k - 1]

\* The newest frame before that of slot i, the first slot of equal ones.
NewestBefore(s, i) ==
    LET before == {j \in Pending(s) : s[j].time < s[i].time}
        newest == Max({s[j].time : j \in before})
    IN  IF before = {} THEN {} ELSE {Min({j \in before : s[j].time = newest})}

\* What is handed over when the frames in the slots I are parsed in turn.
Handed(s, I, isComplete) ==
    LET Frame(j) == [counter |-> s[j].counter, time |-> s[j].time, missing |-> Missing(s[j]),
                     complete |-> isComplete /\ Complete(s[j])]
        order    == OldestFirst(s, I)
    IN  [k \in DOMAIN order |-> Frame(order[k])]

-----------------------------------------------------------------------------
(* Requests.                                                               *)

Ask(s, i, P) == [counter |-> s[i].counter, pcs |-> P, missing |-> Missing(s[i])]

\* The network once the requests A have been sent: each is under way or lost.
Requested(n, A) == {r \in {n \cup {Request(a.counter, a.pcs) : a \in B} : B \in SUBSET A} :
                        r = n \/ Cardinality(r) <= MaxInFlight}

-----------------------------------------------------------------------------
(* A packet is processed.                                                  *)

\* Walking back from place e while the packet before is missing.
GapBegin(r, e) == Min({b \in 0 .. e : \A k \in b .. e - 1 : r.sizes[k] = "none"})

\* The previous frame's last packet seems missing.  The place tested is the last
\* one of frame i; a place beyond the previous frame's array holds anything.
LooksOpen(s, i, prev) ==
    LET place == s[i].total - 1
    IN  IF place < s[prev].len THEN {s[prev].sizes[place] = "none"} ELSE BOOLEAN

\* (The gap is taken to include the packet just received.)
GapRequestsOneMore(s, i, p) ==
    IF p > 0 /\ s[i].sizes[p - 1] = "none"
    THEN {{Ask(s, i, GapBegin(s[i], p - 1) .. p)}} ELSE {{}}

\* The requests for the gap just before packet p of slot i, and for the end of
\* the previous frame when frame i has received nothing before p: every set of
\* requests that may come out.
GapRequests(s, i, p) ==
    LET isGap == p > 0 /\ s[i].sizes[p - 1] = "none"
        own   == IF isGap THEN {Ask(s, i, GapBegin(s[i], p - 1) .. p - 1)} ELSE {}
        prevs == IF p = 0 \/ (isGap /\ GapBegin(s[i], p - 1) = 0) THEN NewestBefore(s, i) ELSE {}
        End(j) == Ask(s, j, GapBegin(s[j], s[j].total - 1) .. s[j].total - 1)
    IN  {own \cup {End(j) : j \in J} :
            J \in {K \in SUBSET prevs : \A j \in prevs : (j \in K) \in LooksOpen(s, i, j)}}

\* What follows the processing of a packet of slot i, the slots being s by now
\* (retransmissionSupport was set from the packet).
Settle(s, n, i, gaps) ==
    LET parsed == IF ~Complete(s[i]) THEN {}
                  ELSE IF mode = 0 \/ ~supported THEN {i}
                  ELSE IF mode = 1 THEN Older(s, i) ELSE {}
        asks   == IF mode = 1 /\ supported /\ ~Complete(s[i]) THEN gaps ELSE {{}}
    IN  /\ slot' = Released(s, parsed)
        /\ \E A \in asks : /\ out' = [parsed |-> Handed(s, parsed, TRUE), asked |-> A]
                           /\ net' \in Requested(n, A)

\* A packet changed the slots to s but no slot is worked on any further.
Ignore(s, n) == /\ slot' = s /\ net' = n /\ out' = Silent

\* (A packet received twice counts twice.)
StoreCountsTwice(m, n, i, r) ==
    IF m.total # r.total
    THEN Ignore([slot EXCEPT ![i] = Freed(r)], n)
    ELSE IF r.sizes[m.pc] = "nda"
    THEN Ignore([slot EXCEPT ![i] = r], n)
    ELSE LET s == [slot EXCEPT ![i] = [r EXCEPT !.sizes[m.pc] = "data", !.got = @ + 1,
                                                !.data = @ \cup {m.pc}]]
         IN  Settle(s, n, i, GapRequests(s, i, m.pc))

\* The packet m goes into slot i, which holds r.
Store(m, n, i, r) ==
    IF m.total # r.total
    THEN Ignore([slot EXCEPT ![i] = Freed(r)], n)
    ELSE IF r.sizes[m.pc] = "nda"
    THEN Ignore([slot EXCEPT ![i] = r], n)
    ELSE LET got == IF r.sizes[m.pc] = "data" THEN r.got ELSE r.got + 1
             s   == [slot EXCEPT ![i] = [r EXCEPT !.sizes[m.pc] = "data", !.got = got,
                                                  !.data = @ \cup {m.pc}]]
         IN  Settle(s, n, i, GapRequests(s, i, m.pc))

\* A packet of a frame that has a slot.
KnownFrame(m, n) == /\ m.kind = "data"
                    /\ \E i \in Found(m.counter) : Store(m, n, i, slot[i])
                    /\ UNCHANGED now

\* A packet of a frame without a slot; a retransmitted one opens none.
NewFrame(m, n) == /\ m.kind = "data" /\ ~m.retr /\ Found(m.counter) = {}
                  /\ \E t \in {now, now + 1} \cap 1 .. MaxTime :
                        now' = t /\ Store(m, n, NewSlot, Fresh(NewSlot, m, t))

LateRetransmission(m, n) == /\ m.kind = "data" /\ m.retr /\ Found(m.counter) = {}
                            /\ Ignore(slot, n)
                            /\ UNCHANGED now

\* The entries of the list that are read: the reading gets stuck at an entry outside
\* the frame, the pointer being advanced only behind the others.
Read(list, total) == {k \in DOMAIN list : \A h \in 1 .. k : list[h] < total}

\* The slot r with the list noted; the entries count one by one, whatever they replace.
Noted(r, list) ==
    LET read   == Read(list, r.total)
        listed == {list[k] : k \in read}
    IN  [r EXCEPT !.nda = @ + Cardinality(read),
                  !.sizes = [p \in Places |-> IF p \in listed THEN "nda" ELSE @[p]]]

\* (The frame is not looked at after the list.)
NotAvailableForgets(m, n) ==
    /\ m.kind = "nda"
    /\ \/ Found(m.counter) = {} /\ Ignore(slot, n)
       \/ \E i \in Found(m.counter) :
             Ignore([slot EXCEPT ![i] = Noted(slot[i], m.pcs)], n)
    /\ UNCHANGED now

\* The list of packets the device does not have.  With the frame's first packet at
\* its head the frame is given up.
NotAvailable(m, n) ==
    /\ m.kind = "nda"
    /\ \/ Found(m.counter) = {} /\ Ignore(slot, n)
       \/ \E i \in Found(m.counter) :
             IF m.pcs[1] = 0 THEN Ignore(Released(slot, {i}), n)
             ELSE Settle([slot EXCEPT ![i] = Noted(slot[i], m.pcs)], n, i, {{}})
    /\ UNCHANGED now

\* The parser gets the message m.
Receive(m) ==
    /\ retransmissionSupport' = supported
    /\ \/ KnownFrame(m, net \ {m})
       \/ NewFrame(m, net \ {m})
       \/ LateRetransmission(m, net \ {m})
       \/ NotAvailable(m, net \ {m})
    /\ UNCHANGED <<conf, sender>>

-----------------------------------------------------------------------------
(* The time-outs of slot i.                                                *)

\* Give up: the older unfinished frames are parsed first, then this one.
GiveUp(i) ==
    /\ i \in Pending(slot)
    /\ retransmissionSupport => slot[i].retries >= MaxAttempts
    /\ slot' = Released(slot, Older(slot, i))
    /\ out' = [parsed |-> Handed(slot, Older(slot, i), FALSE), asked |-> {}]
    /\ UNCHANGED <<now, retransmissionSupport, conf, sender, net>>

Retrying(i) == /\ i \in Pending(slot) /\ retransmissionSupport
               /\ slot[i].retries < MaxAttempts
               /\ UNCHANGED <<now, retransmissionSupport, conf, sender>>

\* (The attempts are not counted.)
RetryUncounted(i) ==
    /\ Retrying(i)
    /\ out' = [parsed |-> <<>>, asked |-> {Ask(slot, i, Missing(slot[i]))}]
    /\ net' \in Requested(net, {Ask(slot, i, Missing(slot[i]))})
    /\ UNCHANGED slot

\* Request all that is missing.  With nothing missing nothing is sent, and the
\* attempt counts as well.
Retry(i) ==
    /\ Retrying(i)
    /\ slot' = [slot EXCEPT ![i].retries = @ + 1]
    /\ LET A == IF Missing(slot[i]) = {} THEN {} ELSE {Ask(slot, i, Missing(slot[i]))}
       IN  /\ out' = [parsed |-> <<>>, asked |-> A]
           /\ net' \in Requested(net, A)

\* The request could not be transmitted: the attempt does not count.
RetryFails(i) == /\ Retrying(i) /\ Missing(slot[i]) # {}
                 /\ out' = Silent /\ UNCHANGED <<slot, net>>

-----------------------------------------------------------------------------
(* The device and the network (external).                                  *)

\* The device sends its next packet, which gets lost or is under way.
Send == /\ sender.k \in DOMAIN frames
        /\ LET f == frames[sender.k]
           IN  /\ net' \in {net} \cup {n \in {net \cup {Data(f, sender.p, FALSE)}} :
                                         Cardinality(n) <= MaxInFlight}
               /\ sender' = IF sender.p + 1 < f.total THEN [sender EXCEPT !.p = @ + 1]
                            ELSE [k |-> sender.k + 1, p |-> 0]
        /\ out' = Silent
        /\ UNCHANGED <<slot, now, retransmissionSupport, conf>>

\* The last frame numbered c that the device has begun, and what it sent of it.
LastSent(c) == Max({k \in DOMAIN frames : /\ frames[k].counter = c
                                          /\ k < sender.k \/ (k = sender.k /\ sender.p > 0)})
SentOf(k)   == {p \in 0 .. frames[k].total - 1 : k < sender.k \/ p < sender.p}

\* The sequence of the places P in ascending order.
Ascending(P) == {list \in [1 .. Cardinality(P) -> P] :
                    \A h, k \in DOMAIN list : h < k => list[h] < list[k]}

\* The device answers the request m: it sends some of the packets again and lists
\* the others, or does not list them; what it has not come to yet it passes over.
Respond(m) ==
    /\ m.kind = "request"
    /\ LET k == LastSent(m.counter)
           P == m.pcs \cap SentOf(k)
       IN  \E R \in SUBSET P : \E N \in SUBSET {Nda(m.counter, list) : list \in Ascending(P \ R)} :
              /\ R = P => N = {}
              /\ net' = (net \ {m}) \cup N \cup {Data(frames[k], p, TRUE) : p \in R}
    /\ Cardinality(net') <= MaxInFlight
    /\ out' = Silent
    /\ UNCHANGED <<slot, now, retransmissionSupport, conf, sender>>

Next == \/ \E m \in net : Receive(m) \/ Respond(m)
        \/ \E i \in Slots : GiveUp(i) \/ Retry(i) \/ RetryFails(i)
        \/ Send

Spec == Init /\ [][Next]_vars

\* The parser thread keeps looping and requests can be transmitted.
Fairness == \A i \in Slots : WF_vars(GiveUp(i) \/ Retry(i))
FairSpec == Spec /\ Fairness

-----------------------------------------------------------------------------
(* Type invariant and properties.                                          *)

SlotType == [time : 0 .. MaxTime, counter : Counters \cup {0}, total : Totals \cup {0},
             len : Totals \cup {0}, got : 0 .. Max(Totals), nda : Nat,
             sizes : [Places -> {"none", "data", "nda"}], data : SUBSET Places,
             retries : 0 .. MaxAttempts]

\* The variables keep their types: never more packets got than a frame has.
TypeOK == /\ slot \in [Slots -> SlotType]
          /\ now \in 1 .. MaxTime
          /\ retransmissionSupport \in BOOLEAN
          /\ mode \in Modes /\ supported \in Supported /\ frames \in Streams
          /\ \A i \in Slots : slot[i].got <= slot[i].total /\ slot[i].total <= slot[i].len

\* A frame never collects its packets in two slots: every packet finds the slot
\* of its frame, wherever slots were freed or taken from other frames meanwhile.
OneSlotPerFrame == \A i, j \in Pending(slot) : slot[i].counter = slot[j].counter => i = j

\* packetCountGot is the number of packets whose data is in the frame, whatever
\* arrived twice and whatever was declared not available before or after.
GotCountsData == \A i \in Pending(slot) : slot[i].got = Cardinality(slot[i].data)

\* With retransmission (mode 1) frames are handed over in the order in which
\* their first packets came: never one when an older one is still under way.
HandedInOrder ==
    mode = 1 /\ supported =>
        \A k \in DOMAIN out.parsed :
            /\ \A h \in 1 .. k : out.parsed[h].time <= out.parsed[k].time
            /\ \A i \in Pending(slot) : out.parsed[k].time <= slot[i].time

\* Some packet counts twice: it was received, or listed, before a list names it.
Listed(r)      == {p \in Places : r.sizes[p] = "nda"}
CountsTwice(r) == r.data \cap Listed(r) # {} \/ r.nda > Cardinality(Listed(r))

\* A frame of which nothing is missing, every packet being received or known not to be
\* available, waits for a time-out only if some packet counts twice.
OnlyMiscountedWait ==
    mode # 2 => \A i \in Pending(slot) : Missing(slot[i]) = {} => CountsTwice(slot[i])

\* Only packets that are missing are requested: neither received ones nor those
\* known not to be available (sendRetrReqGap, sendRetrReqComplete).
RequestsOnlyMissing == \A a \in out.asked : a.pcs # {} /\ a.pcs \subseteq a.missing

\* "current frame is complete": a frame handed over for being complete has no
\* packet that was neither received nor declared not available.
CompleteIsComplete == \A k \in DOMAIN out.parsed :
                          out.parsed[k].complete => out.parsed[k].missing = {}

\* No frame stays under way for ever: it is parsed, given up, or its slot is
\* taken by a newer frame, as long as requests can be transmitted.
FrameLeaves == \A c \in Counters : Found(c) # {} ~> Found(c) = {}

=============================================================================
