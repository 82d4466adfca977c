--------------------------- MODULE EthControlProofs ---------------------------
(***************************************************************************)
(* Theorems about EthControl for every set of callers, registers and       *)
(* values and any number of commands: as long as no answer was given up,   *)
(* commands and answers belong together; over TCP a read returns what the  *)
(* writes sent before it leave in the register, as long as at most one     *)
(* answer was given up; and until one is given up the connection           *)
(* implements RegisterService.                                             *)
(***************************************************************************)
EXTENDS EthControl, SequenceTheorems, TLAPS

\* What is left of a sequence without one of its elements.
LEMMA Removed ==
    ASSUME NEW S, NEW s \in Seq(S), NEW i \in 1 .. Len(s)
    PROVE  /\ RemoveAt(s, i) \in Seq(S)
           /\ Len(RemoveAt(s, i)) = Len(s) - 1
           /\ \A j \in 1 .. Len(s) - 1 : \E k \in 1 .. Len(s) : RemoveAt(s, i)[j] = s[k]
<1> DEFINE front == SubSeq(s, 1, i - 1)
           rest  == SubSeq(s, i + 1, Len(s))
<1>1. /\ front \in Seq(S) /\ Len(front) = i - 1
      /\ \A j \in 1 .. i - 1 : front[j] = s[j]
  BY SubSeqProperties
<1>2. /\ rest \in Seq(S) /\ Len(rest) = Len(s) - i
      /\ \A j \in 1 .. Len(s) - i : rest[j] = s[j + i]
  <2>1. \A j \in i + 1 .. Len(s) : j \in 1 .. Len(s)
    OBVIOUS
  <2> QED BY <2>1, SubSeqProperties
<1>3. RemoveAt(s, i) = front \o rest
  BY DEF RemoveAt
<1> HIDE DEF front, rest
<1>4. /\ front \o rest \in Seq(S) /\ Len(front \o rest) = Len(s) - 1
      /\ \A j \in 1 .. Len(s) - 1 :
            (front \o rest)[j] = IF j <= i - 1 THEN front[j] ELSE rest[j - (i - 1)]
  <2>1. Len(s) \in Nat /\ Len(front) + Len(rest) = Len(s) - 1
    BY <1>1, <1>2
  <2>2. /\ front \o rest \in Seq(S) /\ Len(front \o rest) = Len(front) + Len(rest)
        /\ \A j \in 1 .. Len(front) + Len(rest) :
              (front \o rest)[j] = IF j <= Len(front) THEN front[j] ELSE rest[j - Len(front)]
    BY <1>1, <1>2, ConcatProperties
  <2> QED BY <1>1, <2>1, <2>2
<1>5. ASSUME NEW j \in 1 .. Len(s) - 1
      PROVE  \E k \in 1 .. Len(s) : (front \o rest)[j] = s[k]
  <2>1. CASE j <= i - 1
    BY <1>1, <1>4, <2>1
  <2>2. CASE j > i - 1
    <3>1. j - (i - 1) \in 1 .. Len(s) - i
      BY <2>2
    <3>2. (front \o rest)[j] = s[j + 1]
      BY <1>2, <1>4, <2>2, <3>1
    <3> QED BY <3>2
  <2>3. j <= i - 1 \/ j > i - 1
    <3>1. j \in Int /\ i \in Int
      OBVIOUS
    <3> QED BY <3>1
  <2> HIDE DEF front, rest
  <2> QED BY <2>1, <2>2, <2>3
<1> QED BY <1>3, <1>4, <1>5

-----------------------------------------------------------------------------
(***************************************************************************)
(* Types                                                                   *)
(***************************************************************************)
Links == [state : {"Connected", "Reconnecting"}, socket : BOOLEAN, fails : 0 .. LostAfter]

Results == [status : {"none", "Ok", "IllegalOperation", "NotConnected",
                      "DeviceUnreachable", "RuntimeError"},
            val : Value \cup {Null}, answered : Nat]

\* The outcomes of failures and answers are states of the link.
LEMMA LinkTypes ==
    ASSUME TypeOK
    PROVE  /\ SendFailures \subseteq Links /\ ReceiveFailures \subseteq Links
           /\ Heard(link) \in Links /\ Failed(Heard(link)) \in Links
           /\ Cut(Failed(Heard(link))) \in Links
           /\ Dropped(link) \in Links /\ Cut(link) \in Links
<1>1. link \in Links
  BY DEF TypeOK, Links
<1>2. \A l \in Links : /\ Failed(l) \in Links /\ Dropped(l) \in Links
                       /\ Cut(l) \in Links /\ Heard(l) \in Links
  <2> TAKE l \in Links
  <2>1. l.fails \in 0 .. 2 /\ (l.fails < 2 => l.fails + 1 \in 0 .. 2)
    BY DEF Links, LostAfter
  <2>2. Failed(l) \in Links
    BY <2>1 DEF Links, Failed, LostAfter
  <2>3. Dropped(l) \in Links
    BY DEF Links, Dropped
  <2>4. Cut(l) \in Links
    BY <2>3 DEF Links, Cut
  <2>5. Heard(l) \in Links
    <3>1. 0 \in 0 .. LostAfter
      BY DEF LostAfter
    <3>2. [l EXCEPT !.fails = 0] \in Links
      BY <3>1 DEF Links
    <3>3. Heard(l) = [[l EXCEPT !.fails = 0] EXCEPT !.state = "Connected"]
      BY DEF Heard, Links
    <3> QED BY <3>2, <3>3 DEF Links
  <2> QED BY <2>2, <2>3, <2>4, <2>5
<1> QED BY <1>1, <1>2 DEF SendFailures, ReceiveFailures

\* Closing a socket leaves the answers or nothing.
LEMMA CloseTypes ==
    ASSUME TypeOK, NEW l, Close(l)
    PROVE  toHost' \in Seq(Answers) /\ (toHost' = toHost \/ toHost' = <<>>)
  BY DEF TypeOK, Close

\* A finished or a repeated attempt.
LEMMA OutcomeTypes ==
    ASSUME TypeOK, NEW t \in Threads, NEW left \in Nat, Unreachable(t, left)
    PROVE  /\ mutex' = Null
           /\ pc' \in [Threads -> {"idle", "transmit", "receive"}]
           /\ result' \in [Threads -> Results]
<1>1. result \in [Threads -> Results] /\ Outcome("DeviceUnreachable") \in Results
  BY DEF TypeOK, Results, Outcome
<1>2. CASE left > 0
  BY <1>1, <1>2 DEF TypeOK, Unreachable
<1>3. CASE ~(left > 0)
  <2>1. Finish(t, Outcome("DeviceUnreachable"))
    BY <1>3 DEF Unreachable
  <2> HIDE DEF Outcome
  <2> QED BY <1>1, <2>1 DEF TypeOK, Finish
<1> QED BY <1>2, <1>3

\* The head of what has arrived, and the rest.
LEMMA HeadTypes ==
    ASSUME TypeOK, toHost # <<>>
    PROVE  /\ Head(toHost) \in Answers /\ Tail(toHost) \in Seq(Answers)
           /\ toHost[1] = Head(toHost) /\ Len(toHost) > 0
           /\ Len(Tail(toHost)) = Len(toHost) - 1
           /\ \A i \in 1 .. Len(toHost) - 1 : Tail(toHost)[i] = toHost[i + 1]
  BY HeadTailProperties DEF TypeOK

LEMMA StartTypes ==
    ASSUME TypeOK, NEW t \in Threads,
           NEW op, NEW a, NEW v, NEW tries \in 0 .. 3, Start(t, op, a, v, tries),
           [op |-> op, addr |-> a, val |-> v, n |-> started + 1] \in Requests
    PROVE  TypeOK'
<1>1. NoResult \in Results /\ result \in [Threads -> Results]
  BY DEF TypeOK, Results, NoResult
<1>2. result' \in [Threads -> Results]
  BY <1>1 DEF Start
<1>3. cmd' \in [Threads -> Requests \cup {NoCommand}]
  BY DEF TypeOK, Start
<1> QED BY <1>2, <1>3 DEF TypeOK, Start, deviceVars, historyVars, Results

LEMMA StartsTypes ==
    ASSUME TypeOK
    PROVE  /\ \A t \in Callers : StartRead(t) \/ StartWrite(t) => TypeOK'
           /\ StartProbe => TypeOK'
<1>1. started + 1 \in Nat /\ Attempts \in 0 .. 3
  BY DEF TypeOK, Attempts
<1>2. ASSUME NEW t \in Callers, StartRead(t) PROVE TypeOK'
  <2>1. PICK a \in Addr : Start(t, "read", a, Null, Attempts)
    BY <1>2 DEF StartRead
  <2>2. [op |-> "read", addr |-> a, val |-> Null, n |-> started + 1] \in Requests
    BY <1>1 DEF Requests
  <2> QED BY <1>1, <2>1, <2>2, StartTypes DEF Threads
<1>3. ASSUME NEW t \in Callers, StartWrite(t) PROVE TypeOK'
  <2>1. PICK a \in Addr, v \in Value : Start(t, "write", a, v, Attempts)
    BY <1>3 DEF StartWrite
  <2>2. [op |-> "write", addr |-> a, val |-> v, n |-> started + 1] \in Requests
    BY <1>1 DEF Requests
  <2> QED BY <1>1, <2>1, <2>2, StartTypes DEF Threads
<1>4. ASSUME StartProbe PROVE TypeOK'
  <2>1. [op |-> "keepAlive", addr |-> Null, val |-> Null, n |-> started + 1] \in Requests
    BY <1>1 DEF Requests
  <2> QED BY <1>4, <2>1, StartTypes DEF StartProbe, Threads
<1> QED BY <1>2, <1>3, <1>4

\* A command in progress is a request, and waits with the mutex held or has
\* attempts left.
ProgressOK ==
    \A t \in Threads : /\ pc[t] # "idle" => cmd[t] \in Requests /\ result[t] = NoResult
                       /\ pc[t] = "transmit" => attempts[t] > 0
                       /\ pc[t] = "receive" <=> mutex = t

LEMMA SendTypes ==
    ASSUME TypeOK, ProgressOK, NEW t \in Threads, Send(t)
    PROVE  TypeOK'
<1>1. cmd[t] \in Requests
  BY DEF ProgressOK, Send, CanTransmit
<1>2. toDevice' \in Seq(Requests)
  BY <1>1, AppendProperties DEF TypeOK, Send
<1>3. attempts' \in [Threads -> 0 .. 3]
  BY DEF TypeOK, Send, ProgressOK, CanTransmit
<1>4. cmd[t].op = "write" => cmd[t].addr \in Addr /\ cmd[t].val \in Value
  BY <1>1 DEF Requests
<1>5. cmd[t].op = "read" => cmd[t].addr \in Addr
  BY <1>1 DEF Requests
<1>6. intended' \in [Addr -> Value]
  BY <1>4 DEF TypeOK, Send
<1>7. expected' \in [Threads -> Value \cup {Null}]
  BY <1>5 DEF TypeOK, Send
<1>8. mutex' \in Threads \cup {Null} /\ pc' \in [Threads -> {"idle", "transmit", "receive"}]
  BY DEF TypeOK, Send
<1> QED BY <1>2, <1>3, <1>6, <1>7, <1>8 DEF TypeOK, Send, deviceVars

LEMMA CommandTypes ==
    ASSUME TypeOK, ProgressOK, NEW t \in Threads, Command(t)
    PROVE  TypeOK'
<1>0. link \in Links /\ result \in [Threads -> Results]
  BY DEF TypeOK, Links, Results
<1>1. CASE Send(t)
  BY <1>1, SendTypes
<1>2. CASE SendFails(t)
  <2>1. PICK l \in SendFailures : link' = l /\ Close(l)
    BY <1>2 DEF SendFails
  <2>2. link' \in Links
    BY <2>1, LinkTypes
  <2>3. toHost' \in Seq(Answers)
    BY <2>1, CloseTypes
  <2>4. attempts[t] > 0 /\ attempts[t] \in 0 .. 3
    BY <1>2 DEF SendFails, CanTransmit, ProgressOK, TypeOK
  <2>5. attempts[t] - 1 \in 0 .. 3 /\ attempts[t] - 1 \in Nat
    BY <2>4
  <2>6. attempts' \in [Threads -> 0 .. 3]
    BY <1>2, <2>5 DEF SendFails, TypeOK
  <2>7. /\ mutex' = Null /\ pc' \in [Threads -> {"idle", "transmit", "receive"}]
        /\ result' \in [Threads -> Results]
    BY <1>2, <2>5, OutcomeTypes DEF SendFails
  <2> QED BY <1>2, <2>2, <2>3, <2>6, <2>7 DEF TypeOK, SendFails, Links, Results,
                                              deviceVars, historyVars
<1>3. CASE SendRefused(t)
  <2>1. Outcome("NotConnected") \in Results
    BY DEF Outcome, Results
  <2>2. result' \in [Threads -> Results]
    BY <1>0, <1>3, <2>1 DEF SendRefused, Finish
  <2> QED BY <1>3, <2>2 DEF TypeOK, SendRefused, Finish, Results, deviceVars, historyVars
<1>4. CASE Accept(t)
  <2>1. Head(toHost) \in Answers /\ Tail(toHost) \in Seq(Answers)
    BY <1>4, HeadTypes DEF Accept
  <2>2. [status |-> IF Head(toHost).refused THEN "IllegalOperation" ELSE "Ok",
         val |-> Head(toHost).val, answered |-> Head(toHost).n] \in Results
    BY <2>1 DEF Answers, Results
  <2>3. result' \in [Threads -> Results]
    BY <1>0, <1>4, <2>2 DEF Accept, Finish
  <2>4. link' \in Links
    BY <1>4, LinkTypes DEF Accept
  <2> QED BY <1>4, <2>1, <2>3, <2>4 DEF TypeOK, Accept, Finish, Results, Links,
                                        deviceVars, historyVars
<1>5. CASE Mismatch(t)
  <2>1. Tail(toHost) \in Seq(Answers)
    BY <1>5, HeadTypes DEF Mismatch
  <2>2. Outcome("RuntimeError") \in Results
    BY DEF Outcome, Results
  <2>3. result' \in [Threads -> Results]
    BY <1>0, <1>5, <2>2 DEF Mismatch, Finish
  <2>4. link' \in Links
    BY <1>5, LinkTypes DEF Mismatch
  <2>5. mutex' \in Threads \cup {Null} /\ pc' \in [Threads -> {"idle", "transmit", "receive"}]
    BY <1>5 DEF TypeOK, Mismatch, Finish
  <2> QED BY <1>5, <2>1, <2>3, <2>4, <2>5 DEF TypeOK, Mismatch, Results, Links,
                                              deviceVars, historyVars
<1>6. CASE GiveUp(t) \/ GiveUpHalfway(t)
  <2>1. link' \in Links /\ toHost' \in Seq(Answers)
    <3>1. CASE GiveUp(t)
      <4>1. PICK l \in ReceiveFailures : link' = l /\ Close(l)
        BY <3>1 DEF GiveUp
      <4> QED BY <4>1, LinkTypes, CloseTypes
    <3>2. CASE link' = Failed(Heard(link)) /\ toHost' = Tail(toHost) /\ toHost # <<>>
      BY <3>2, LinkTypes, HeadTypes
    <3>3. CASE link' = Cut(Failed(Heard(link))) /\ toHost' = <<>>
      <4>1. <<>> \in Seq(Answers)
        OBVIOUS
      <4> QED BY <3>3, <4>1, LinkTypes
    <3> QED BY <1>6, <3>1, <3>2, <3>3 DEF GiveUpHalfway
  <2>2. attempts[t] \in Nat
    <3>1. attempts[t] \in 0 .. 3
      BY DEF TypeOK
    <3> QED BY <3>1
  <2>5. Unreachable(t, attempts[t])
    BY <1>6 DEF GiveUp, GiveUpHalfway
  <2>3. /\ mutex' = Null /\ pc' \in [Threads -> {"idle", "transmit", "receive"}]
        /\ result' \in [Threads -> Results]
    BY <2>2, <2>5, OutcomeTypes
  <2>4. /\ abandoned' = abandoned + 1
        /\ UNCHANGED <<transport, cmd, attempts, started, toDevice, reg, applied,
                       intended, expected>>
    BY <1>6 DEF GiveUp, GiveUpHalfway, deviceVars
  <2> QED BY <2>1, <2>3, <2>4 DEF TypeOK, Links, Results
<1> QED BY <1>1, <1>2, <1>3, <1>4, <1>5, <1>6 DEF Command

LEMMA NetworkTypes ==
    ASSUME TypeOK, NEW i \in DOMAIN toDevice, Serve(i) \/ Lose(i)
    PROVE  TypeOK'
<1>1. i \in 1 .. Len(toDevice) /\ toDevice \in Seq(Requests) /\ toDevice[i] \in Requests
  BY DEF TypeOK
<1>2. RemoveAt(toDevice, i) \in Seq(Requests)
  BY <1>1, Removed
<1>3. CASE Lose(i)
  BY <1>2, <1>3 DEF TypeOK, Lose, threadVars, deviceVars, historyVars
<1>4. CASE Serve(i)
  <2> DEFINE r == toDevice[i]
  <2>1. /\ r.op = "write" => r.addr \in Addr /\ r.val \in Value
        /\ r.op = "read" => r.addr \in Addr
        /\ r.op \in {"read", "write", "keepAlive"} /\ r.addr \in Addr \cup {Null} /\ r.n \in Nat
    BY <1>1 DEF Requests
  <2> HIDE DEF r
  <2>2. reg' \in [Addr -> Value]
    BY <1>4, <2>1 DEF TypeOK, Serve, r
  <2>3. applied' \subseteq Nat
    BY <1>4, <2>1 DEF TypeOK, Serve, r
  <2>4. Answer(r) \in Answers
    BY <2>1 DEF TypeOK, Answer, Answers
  <2>5. toHost' \in Seq(Answers)
    <3>1. toHost' = toHost \/ toHost' = Append(toHost, Answer(r))
      BY <1>4 DEF Serve, r
    <3>2. toHost \in Seq(Answers)
      BY DEF TypeOK
    <3>3. Append(toHost, Answer(r)) \in Seq(Answers)
      BY <2>4, <3>2, AppendProperties
    <3> QED BY <3>1, <3>2, <3>3
  <2> QED BY <1>2, <1>4, <2>2, <2>3, <2>5 DEF TypeOK, Serve, threadVars, historyVars
<1> QED BY <1>3, <1>4

LEMMA MonitorTypes ==
    ASSUME TypeOK, RetrReqFails \/ DetectLoss
    PROVE  TypeOK'
<1>1. PICK l \in Links : link' = l /\ Close(l)
  BY LinkTypes DEF RetrReqFails, DetectLoss
<1>2. link' \in Links /\ toHost' \in Seq(Answers)
  BY <1>1, CloseTypes
<1> QED BY <1>2 DEF TypeOK, Links, RetrReqFails, DetectLoss, threadVars, deviceVars, historyVars

-----------------------------------------------------------------------------
(***************************************************************************)
(* What threads are doing                                                  *)
(***************************************************************************)
LEMMA StartProgress ==
    ASSUME TypeOK, ProgressOK, NEW t \in Threads,
           NEW op, NEW a, NEW v, NEW tries \in 1 .. 3, Start(t, op, a, v, tries),
           [op |-> op, addr |-> a, val |-> v, n |-> started + 1] \in Requests
    PROVE  ProgressOK'
<1> SUFFICES ASSUME NEW u \in Threads
             PROVE  /\ pc'[u] # "idle" => cmd'[u] \in Requests /\ result'[u] = NoResult
                    /\ pc'[u] = "transmit" => attempts'[u] > 0
                    /\ pc'[u] = "receive" <=> mutex' = u
  BY DEF ProgressOK
<1>1. CASE u = t
  BY <1>1 DEF TypeOK, ProgressOK, Start
<1>2. CASE u # t
  BY <1>2 DEF TypeOK, ProgressOK, Start
<1> QED BY <1>1, <1>2

LEMMA StartsProgress ==
    ASSUME TypeOK, ProgressOK
    PROVE  /\ \A t \in Callers : StartRead(t) \/ StartWrite(t) => ProgressOK'
           /\ StartProbe => ProgressOK'
<1>1. started + 1 \in Nat /\ Attempts \in 1 .. 3
  BY DEF TypeOK, Attempts
<1>2. ASSUME NEW t \in Callers, StartRead(t) PROVE ProgressOK'
  <2>1. PICK a \in Addr : Start(t, "read", a, Null, Attempts)
    BY <1>2 DEF StartRead
  <2>2. [op |-> "read", addr |-> a, val |-> Null, n |-> started + 1] \in Requests
    BY <1>1 DEF Requests
  <2> QED BY <1>1, <2>1, <2>2, StartProgress DEF Threads
<1>3. ASSUME NEW t \in Callers, StartWrite(t) PROVE ProgressOK'
  <2>1. PICK a \in Addr, v \in Value : Start(t, "write", a, v, Attempts)
    BY <1>3 DEF StartWrite
  <2>2. [op |-> "write", addr |-> a, val |-> v, n |-> started + 1] \in Requests
    BY <1>1 DEF Requests
  <2> QED BY <1>1, <2>1, <2>2, StartProgress DEF Threads
<1>4. ASSUME StartProbe PROVE ProgressOK'
  <2>1. [op |-> "keepAlive", addr |-> Null, val |-> Null, n |-> started + 1] \in Requests
    BY <1>1 DEF Requests
  <2> QED BY <1>4, <2>1, StartProgress DEF StartProbe, Threads
<1> QED BY <1>2, <1>3, <1>4

LEMMA OutcomeProgress ==
    ASSUME TypeOK, ProgressOK, NEW t \in Threads, NEW left \in Nat, Unreachable(t, left),
           attempts' \in [Threads -> 0 .. 3], attempts'[t] = left,
           \A u \in Threads : u # t => attempts'[u] = attempts[u],
           mutex = Null \/ mutex = t, pc[t] # "idle", cmd' = cmd
    PROVE  ProgressOK'
<1> SUFFICES ASSUME NEW u \in Threads
             PROVE  /\ pc'[u] # "idle" => cmd'[u] \in Requests /\ result'[u] = NoResult
                    /\ pc'[u] = "transmit" => attempts'[u] > 0
                    /\ pc'[u] = "receive" <=> mutex' = u
  BY DEF ProgressOK
<1>0. mutex' = Null /\ u # Null
  BY ControlAssumption, OutcomeTypes
<1>1. CASE u = t /\ left > 0
  BY <1>0, <1>1 DEF TypeOK, ProgressOK, Unreachable
<1>2. CASE u = t /\ ~(left > 0)
  BY <1>0, <1>2 DEF TypeOK, ProgressOK, Unreachable, Finish
<1>3. CASE u # t
  <2>1. pc'[u] = pc[u] /\ result'[u] = result[u]
    BY <1>3 DEF TypeOK, Unreachable, Finish
  <2>2. pc[u] # "receive"
    BY <1>3, ControlAssumption DEF ProgressOK
  <2> QED BY <1>0, <1>3, <2>1, <2>2 DEF ProgressOK
<1> QED BY <1>1, <1>2, <1>3

\* A command that ends.
LEMMA FinishProgress ==
    ASSUME TypeOK, ProgressOK, NEW t \in Threads, NEW r, Finish(t, r),
           mutex = Null \/ mutex = t, cmd' = cmd, attempts' = attempts
    PROVE  ProgressOK'
<1> SUFFICES ASSUME NEW u \in Threads
             PROVE  /\ pc'[u] # "idle" => cmd'[u] \in Requests /\ result'[u] = NoResult
                    /\ pc'[u] = "transmit" => attempts'[u] > 0
                    /\ pc'[u] = "receive" <=> mutex' = u
  BY DEF ProgressOK
<1>1. CASE u = t
  BY <1>1, ControlAssumption DEF TypeOK, Finish
<1>2. CASE u # t
  <2>1. pc'[u] = pc[u] /\ result'[u] = result[u] /\ mutex' = Null
    BY <1>2 DEF TypeOK, Finish
  <2>2. pc[u] # "receive" /\ u # Null
    BY <1>2, ControlAssumption DEF ProgressOK
  <2> QED BY <1>2, <2>1, <2>2 DEF ProgressOK
<1> QED BY <1>1, <1>2

LEMMA CommandProgress ==
    ASSUME TypeOK, ProgressOK, NEW t \in Threads, Command(t)
    PROVE  ProgressOK'
<1>1. CASE Send(t)
  <2> SUFFICES ASSUME NEW u \in Threads
               PROVE  /\ pc'[u] # "idle" => cmd'[u] \in Requests /\ result'[u] = NoResult
                      /\ pc'[u] = "transmit" => attempts'[u] > 0
                      /\ pc'[u] = "receive" <=> mutex' = u
    BY DEF ProgressOK
  <2>1. CASE u = t
    BY <1>1, <2>1 DEF TypeOK, ProgressOK, Send, CanTransmit
  <2>2. CASE u # t
    <3>1. pc[u] # "receive"
      BY <1>1, ControlAssumption DEF ProgressOK, Send, CanTransmit
    <3> QED BY <1>1, <2>2, <3>1 DEF TypeOK, ProgressOK, Send
  <2> QED BY <2>1, <2>2
<1>2. CASE SendFails(t)
  <2>1. attempts[t] > 0 /\ attempts[t] \in 0 .. 3 /\ mutex = Null /\ pc[t] # "idle"
    BY <1>2 DEF SendFails, CanTransmit, ProgressOK, TypeOK
  <2>2. attempts[t] - 1 \in Nat /\ attempts[t] - 1 \in 0 .. 3
    BY <2>1
  <2>3. /\ attempts' \in [Threads -> 0 .. 3] /\ attempts'[t] = attempts[t] - 1
        /\ \A u \in Threads : u # t => attempts'[u] = attempts[u]
    BY <1>2, <2>2 DEF SendFails, TypeOK
  <2>4. Unreachable(t, attempts[t] - 1) /\ cmd' = cmd
    BY <1>2 DEF SendFails
  <2> QED BY <2>1, <2>2, <2>3, <2>4, OutcomeProgress
<1>3. CASE SendRefused(t)
  BY <1>3, FinishProgress DEF SendRefused, CanTransmit
<1>4. CASE Accept(t)
  BY <1>4, FinishProgress DEF Accept, Waiting
<1>5. CASE Mismatch(t)
  <2>1. CASE Finish(t, Outcome("RuntimeError"))
    BY <1>5, <2>1, FinishProgress DEF Mismatch, Waiting
  <2>2. CASE UNCHANGED <<mutex, pc, result>>
    BY <1>5, <2>2 DEF ProgressOK, Mismatch
  <2> QED BY <1>5, <2>1, <2>2 DEF Mismatch
<1>6. CASE GiveUp(t) \/ GiveUpHalfway(t)
  <2>1. /\ Waiting(t) /\ Unreachable(t, attempts[t]) /\ cmd' = cmd /\ attempts' = attempts
    BY <1>6 DEF GiveUp, GiveUpHalfway
  <2>2. attempts[t] \in Nat
    <3>1. attempts[t] \in 0 .. 3
      BY DEF TypeOK
    <3> QED BY <3>1
  <2>3. attempts' \in [Threads -> 0 .. 3]
    BY <2>1 DEF TypeOK
  <2>4. mutex = t /\ pc[t] # "idle"
    BY <2>1 DEF Waiting
  <2> QED BY <2>1, <2>2, <2>3, <2>4, OutcomeProgress
<1> QED BY <1>1, <1>2, <1>3, <1>4, <1>5, <1>6 DEF Command

\* The inductive part about single threads.
Sound == TypeOK /\ ProgressOK

LEMMA SoundInit == Init => Sound
<1> SUFFICES ASSUME Init PROVE Sound
  OBVIOUS
<1>1. TypeOK
  BY DEF Init, TypeOK, LostAfter, NoCommand, NoResult
<1>2. ProgressOK
  BY ControlAssumption DEF Init, ProgressOK
<1> QED BY <1>1, <1>2 DEF Sound

LEMMA SoundStep == Sound /\ [Next]_vars => Sound'
<1> SUFFICES ASSUME Sound, [Next]_vars PROVE Sound'
  OBVIOUS
<1> USE DEF Sound
<1>1. ASSUME NEW t \in Callers, StartRead(t) \/ StartWrite(t) PROVE Sound'
  BY <1>1, StartsTypes, StartsProgress
<1>2. CASE StartProbe
  BY <1>2, StartsTypes, StartsProgress
<1>3. ASSUME NEW t \in Threads, Command(t) PROVE Sound'
  BY <1>3, CommandTypes, CommandProgress
<1>4. CASE RetrReqFails \/ DetectLoss
  <2>1. ProgressOK'
    BY <1>4 DEF ProgressOK, RetrReqFails, DetectLoss, threadVars
  <2> QED BY <1>4, <2>1, MonitorTypes
<1>5. ASSUME NEW i \in DOMAIN toDevice, Serve(i) \/ Lose(i) PROVE Sound'
  <2>1. ProgressOK'
    BY <1>5 DEF ProgressOK, Serve, Lose, threadVars
  <2> QED BY <1>5, <2>1, NetworkTypes
<1>6. CASE UNCHANGED vars
  BY <1>6 DEF vars, threadVars, deviceVars, historyVars, TypeOK, ProgressOK
<1> QED BY <1>1, <1>2, <1>3, <1>4, <1>5, <1>6 DEF Next

\* The state of readRegister, BTAETHwriteRegister and the connection keeps its types.
THEOREM TypeCorrect == Spec => []TypeOK
<1>1. Sound => TypeOK
  BY DEF Sound
<1> QED BY <1>1, SoundInit, SoundStep, PTL DEF Spec

-----------------------------------------------------------------------------
(***************************************************************************)
(* Commands and their answers                                              *)
(***************************************************************************)
\* An answer to request r, which was executed if it is a write.
AnswerTo(r, a) == /\ a.op = r.op /\ a.addr = r.addr /\ a.n = r.n
                  /\ a.op = "write" /\ ~a.refused => a.n \in applied

\* As long as nothing was abandoned, whatever is under way belongs to the holder
\* of the mutex.
FreshOK ==
    abandoned = 0 =>
        /\ \A i \in 1 .. Len(toDevice) : toDevice[i] = cmd[mutex]
        /\ \A i \in 1 .. Len(toHost) : AnswerTo(cmd[mutex], toHost[i])

IInv == /\ TypeOK /\ ProgressOK
        /\ StraysWereAbandoned /\ FreshOK /\ ExactUntilAbandoned

\* Nothing under way without a holder, and one message with one.
LEMMA FewUnderWay ==
    ASSUME IInv, abandoned = 0
    PROVE  /\ Len(toDevice) \in Nat /\ Len(toHost) \in Nat
           /\ Len(toDevice) + Len(toHost) <= 1
           /\ mutex = Null => Len(toDevice) = 0 /\ Len(toHost) = 0
  BY DEF IInv, StraysWereAbandoned, TypeOK

\* The number of messages under way does not grow when the rest stays.
LEMMA CloseFewer ==
    ASSUME IInv, NEW l, Close(l)
    PROVE  /\ Len(toHost') \in Nat /\ Len(toHost') <= Len(toHost)
           /\ \A i \in 1 .. Len(toHost') : i \in 1 .. Len(toHost) /\ toHost'[i] = toHost[i]
<1>1. Len(toHost) \in Nat /\ Len(<<>>) = 0
  BY DEF IInv, TypeOK
<1> QED BY <1>1 DEF Close

LEMMA StartExact ==
    ASSUME IInv, NEW t \in Threads, NEW op, NEW a, NEW v, NEW tries,
           Start(t, op, a, v, tries)
    PROVE  StraysWereAbandoned' /\ FreshOK' /\ ExactUntilAbandoned'
<1> USE DEF IInv
<1>1. StraysWereAbandoned'
  BY DEF StraysWereAbandoned, Start, historyVars
<1>2. FreshOK'
  <2>1. mutex # Null => cmd'[mutex] = cmd[mutex]
    BY DEF Start, ProgressOK, TypeOK
  <2>2. mutex = Null /\ abandoned = 0 => Len(toDevice) = 0 /\ Len(toHost) = 0
    BY FewUnderWay
  <2> QED BY <2>1, <2>2 DEF FreshOK, AnswerTo, Start, historyVars, deviceVars
<1>3. ExactUntilAbandoned'
  <2> SUFFICES ASSUME abandoned = 0, NEW u \in Threads
               PROVE  /\ result'[u].status = "Ok" =>
                            /\ result'[u].answered = cmd'[u].n
                            /\ cmd'[u].op = "write" => cmd'[u].n \in applied'
                      /\ result'[u].status # "RuntimeError"
    BY DEF ExactUntilAbandoned, Start, historyVars
  <2>1. CASE u = t
    BY <2>1 DEF Start, TypeOK, NoResult
  <2>2. CASE u # t
    BY <2>2 DEF Start, TypeOK, ExactUntilAbandoned, deviceVars
  <2> QED BY <2>1, <2>2
<1> QED BY <1>1, <1>2, <1>3

LEMMA SendExact ==
    ASSUME IInv, NEW t \in Threads, Send(t)
    PROVE  StraysWereAbandoned' /\ FreshOK' /\ ExactUntilAbandoned'
<1> USE DEF IInv
<1>1. /\ mutex = Null /\ mutex' = t /\ t # Null /\ cmd' = cmd /\ abandoned' = abandoned
      /\ toHost' = toHost /\ toDevice' = Append(toDevice, cmd[t])
      /\ result' = result /\ applied' = applied
  BY ControlAssumption DEF Send, CanTransmit, deviceVars
<1>2. Len(toDevice) \in Nat /\ Len(toHost) \in Nat /\ abandoned \in Nat
  BY DEF TypeOK
<1>3. cmd[t] \in Requests /\ toDevice \in Seq(Requests)
  BY DEF ProgressOK, Send, CanTransmit, TypeOK
<1>4. Len(toDevice') = Len(toDevice) + 1 /\ toDevice'[Len(toDevice) + 1] = cmd[t]
  BY <1>1, <1>3, AppendProperties
<1>5. StraysWereAbandoned'
  BY <1>1, <1>2, <1>4 DEF StraysWereAbandoned
<1>6. FreshOK'
  <2>1. abandoned = 0 => Len(toDevice) = 0 /\ Len(toHost) = 0
    BY <1>1, FewUnderWay
  <2>2. abandoned = 0 => \A i \in 1 .. Len(toDevice') : toDevice'[i] = cmd'[mutex']
    BY <1>1, <1>4, <2>1
  <2>3. abandoned = 0 => \A i \in 1 .. Len(toHost') : FALSE
    BY <1>1, <2>1
  <2> QED BY <1>1, <2>2, <2>3 DEF FreshOK
<1>7. ExactUntilAbandoned'
  BY <1>1 DEF ExactUntilAbandoned
<1> QED BY <1>5, <1>6, <1>7

\* An attempt that ends without an answer, and any other change that leaves results
\* and requests alone.
LEMMA QuietExact ==
    ASSUME IInv, NEW l, Close(l),
           UNCHANGED <<mutex, cmd, result, toDevice, applied, abandoned>>
    PROVE  StraysWereAbandoned' /\ FreshOK' /\ ExactUntilAbandoned'
<1> USE DEF IInv
<1>1. StraysWereAbandoned'
  <2>1. Len(toDevice) \in Nat /\ Len(toHost) \in Nat /\ abandoned \in Nat
    BY DEF TypeOK
  <2> QED BY <2>1, CloseFewer DEF StraysWereAbandoned
<1>2. FreshOK'
  BY CloseFewer DEF FreshOK, AnswerTo
<1>3. ExactUntilAbandoned'
  BY DEF ExactUntilAbandoned
<1> QED BY <1>1, <1>2, <1>3
LEMMA UnreachableExact ==
    ASSUME IInv, NEW t \in Threads, NEW left \in Nat, Unreachable(t, left),
           UNCHANGED <<cmd, toDevice, applied>>,
           Len(toHost') \in Nat, abandoned' \in Nat,
           Len(toDevice) + Len(toHost') <= abandoned',
           abandoned' = 0 => abandoned = 0
    PROVE  StraysWereAbandoned' /\ FreshOK' /\ ExactUntilAbandoned'
<1> USE DEF IInv
<1>1. mutex' = Null /\ Len(toDevice) \in Nat
  BY OutcomeTypes DEF TypeOK
<1>2. StraysWereAbandoned'
  BY <1>1 DEF StraysWereAbandoned
<1>3. FreshOK'
  <2>1. abandoned' = 0 => Len(toDevice') = 0 /\ Len(toHost') = 0
    BY <1>1
  <2> QED BY <2>1 DEF FreshOK
<1>4. ExactUntilAbandoned'
  <2> SUFFICES ASSUME abandoned' = 0, NEW u \in Threads
               PROVE  /\ result'[u].status = "Ok" =>
                            /\ result'[u].answered = cmd'[u].n
                            /\ cmd'[u].op = "write" => cmd'[u].n \in applied'
                      /\ result'[u].status # "RuntimeError"
    BY DEF ExactUntilAbandoned
  <2>1. result'[u] = result[u] \/ result'[u] = Outcome("DeviceUnreachable")
    BY DEF Unreachable, Finish, TypeOK
  <2> QED BY <2>1 DEF ExactUntilAbandoned, Outcome
<1> QED BY <1>2, <1>3, <1>4

LEMMA FinishExact ==
    ASSUME IInv, NEW t \in Threads, NEW r, Finish(t, r), mutex = t,
           UNCHANGED <<cmd, toDevice, applied, abandoned>>,
           toHost # <<>>, toHost' = Tail(toHost),
           abandoned = 0 => /\ r.status = "Ok" =>
                                  /\ r.answered = cmd[t].n
                                  /\ cmd[t].op = "write" => cmd[t].n \in applied
                            /\ r.status # "RuntimeError"
    PROVE  StraysWereAbandoned' /\ FreshOK' /\ ExactUntilAbandoned'
<1> USE DEF IInv
<1>1. /\ mutex' = Null /\ mutex # Null
      /\ Len(toDevice) \in Nat /\ Len(toHost) \in Nat /\ abandoned \in Nat
      /\ Len(toHost) > 0 /\ Len(toHost') = Len(toHost) - 1
  BY HeadTypes, ControlAssumption DEF TypeOK, Finish
<1>2. StraysWereAbandoned'
  BY <1>1 DEF StraysWereAbandoned
<1>3. FreshOK'
  <2>1. abandoned' = 0 => Len(toDevice') = 0 /\ Len(toHost') = 0
    BY <1>1 DEF StraysWereAbandoned
  <2>2. abandoned' = 0 => \A i \in 1 .. Len(toDevice') : FALSE
    <3> SUFFICES ASSUME abandoned' = 0 PROVE \A i \in 1 .. Len(toDevice') : FALSE
      OBVIOUS
    <3>1. Len(toDevice') = 0
      BY <2>1
    <3> QED BY ONLY <3>1
  <2>3. abandoned' = 0 => \A i \in 1 .. Len(toHost') : FALSE
    <3> SUFFICES ASSUME abandoned' = 0 PROVE \A i \in 1 .. Len(toHost') : FALSE
      OBVIOUS
    <3>1. Len(toHost') = 0
      BY <2>1
    <3> QED BY ONLY <3>1
  <2> QED BY <2>2, <2>3 DEF FreshOK
<1>4. ExactUntilAbandoned'
  BY DEF ExactUntilAbandoned, Finish, TypeOK
<1> QED BY <1>2, <1>3, <1>4

\* Without anything abandoned, what arrives is the answer of whoever waits.
LEMMA OwnAnswer ==
    ASSUME IInv, NEW t \in Threads, Waiting(t), toHost # <<>>, abandoned = 0
    PROVE  AnswerTo(cmd[t], Head(toHost)) /\ Matches(cmd[t], Head(toHost))
<1>1. Len(toHost) > 0 /\ Len(toHost) \in Nat /\ toHost[1] = Head(toHost)
  BY HeadTypes DEF IInv, TypeOK
<1>2. AnswerTo(cmd[mutex], toHost[1])
  BY <1>1 DEF IInv, FreshOK
<1> QED BY <1>1, <1>2 DEF Waiting, AnswerTo, Matches

LEMMA CommandExact ==
    ASSUME IInv, NEW t \in Threads, Command(t)
    PROVE  StraysWereAbandoned' /\ FreshOK' /\ ExactUntilAbandoned'
<1> USE DEF IInv
<1>0. /\ Len(toDevice) \in Nat /\ Len(toHost) \in Nat /\ abandoned \in Nat
      /\ attempts[t] \in 0 .. 3 /\ attempts[t] \in Nat
  <2>1. attempts[t] \in 0 .. 3
    BY DEF TypeOK
  <2> QED BY <2>1 DEF TypeOK
<1>1. CASE Send(t)
  BY <1>1, SendExact
<1>2. CASE SendFails(t)
  <2>1. PICK l \in SendFailures : Close(l)
    BY <1>2 DEF SendFails
  <2>2. attempts[t] - 1 \in Nat
    BY <1>0, <1>2 DEF SendFails, CanTransmit, ProgressOK
  <2>3. /\ mutex = Null /\ abandoned' = abandoned /\ Unreachable(t, attempts[t] - 1)
        /\ UNCHANGED <<cmd, toDevice, applied>>
    BY <1>2 DEF SendFails, CanTransmit, deviceVars, historyVars
  <2>4. Len(toHost') \in Nat /\ Len(toDevice) + Len(toHost') <= abandoned'
    BY <1>0, <2>1, <2>3, CloseFewer DEF StraysWereAbandoned
  <2> QED BY <1>0, <2>2, <2>3, <2>4, UnreachableExact
<1>3. CASE SendRefused(t)
  <2>1. /\ mutex = Null /\ mutex' = Null
        /\ UNCHANGED <<cmd, toDevice, toHost, applied, abandoned>>
    BY <1>3 DEF SendRefused, CanTransmit, Finish, deviceVars, historyVars
  <2>2. StraysWereAbandoned' /\ FreshOK'
    BY <2>1 DEF StraysWereAbandoned, FreshOK, AnswerTo
  <2>3. \A u \in Threads : result'[u] = result[u] \/ result'[u] = Outcome("NotConnected")
    BY <1>3 DEF SendRefused, Finish, TypeOK
  <2> QED BY <2>1, <2>2, <2>3 DEF ExactUntilAbandoned, Outcome
<1>4. CASE Accept(t)
  <2> DEFINE r == [status |-> IF Head(toHost).refused THEN "IllegalOperation" ELSE "Ok",
                   val |-> Head(toHost).val, answered |-> Head(toHost).n]
  <2>1. /\ Finish(t, r) /\ Waiting(t) /\ toHost # <<>> /\ toHost' = Tail(toHost)
        /\ UNCHANGED <<cmd, toDevice, applied, abandoned>>
    BY <1>4 DEF Accept, deviceVars, historyVars
  <2>2. abandoned = 0 => /\ r.status = "Ok" =>
                               /\ r.answered = cmd[t].n
                               /\ cmd[t].op = "write" => cmd[t].n \in applied
                         /\ r.status # "RuntimeError"
    BY <2>1, OwnAnswer DEF AnswerTo
  <2> HIDE DEF r
  <2> QED BY <2>1, <2>2, FinishExact DEF Waiting
<1>5. CASE Mismatch(t)
  <2>1. /\ Waiting(t) /\ toHost # <<>> /\ toHost' = Tail(toHost)
        /\ UNCHANGED <<cmd, toDevice, applied, abandoned>>
    BY <1>5 DEF Mismatch, deviceVars, historyVars
  <2>2. abandoned # 0
    BY <1>5, <2>1, OwnAnswer DEF Mismatch
  <2>3. CASE Finish(t, Outcome("RuntimeError"))
    BY <2>1, <2>2, <2>3, FinishExact DEF Waiting
  <2>4. CASE UNCHANGED <<mutex, pc, result>>
    <3>1. Len(toHost') = Len(toHost) - 1
      BY <2>1, HeadTypes
    <3>2. StraysWereAbandoned'
      BY <1>0, <2>1, <2>4, <3>1 DEF StraysWereAbandoned
    <3> QED BY <2>1, <2>2, <3>2 DEF FreshOK, ExactUntilAbandoned
  <2> QED BY <1>5, <2>3, <2>4 DEF Mismatch
<1>6. CASE GiveUp(t) \/ GiveUpHalfway(t)
  <2>1. /\ Waiting(t) /\ Unreachable(t, attempts[t]) /\ abandoned' = abandoned + 1
        /\ UNCHANGED <<cmd, toDevice, applied>>
    BY <1>6 DEF GiveUp, GiveUpHalfway, deviceVars
  <2>2. Len(toHost') \in Nat /\ Len(toHost') <= Len(toHost)
    <3>1. CASE GiveUp(t)
      <4>1. PICK l \in ReceiveFailures : Close(l)
        BY <3>1 DEF GiveUp
      <4> QED BY <4>1, CloseFewer
    <3>2. CASE toHost' = Tail(toHost) /\ toHost # <<>>
      BY <1>0, <3>2, HeadTypes
    <3>3. CASE toHost' = <<>>
      BY <1>0, <3>3
    <3> QED BY <1>6, <3>1, <3>2, <3>3 DEF GiveUpHalfway
  <2>3. /\ Len(toDevice) + Len(toHost') <= abandoned' /\ abandoned' \in Nat /\ abandoned' # 0
    <3>1. Len(toDevice) + Len(toHost) <= abandoned + 1
      BY <1>0 DEF StraysWereAbandoned
    <3> QED BY <1>0, <2>1, <2>2, <3>1
  <2> QED BY <1>0, <2>1, <2>2, <2>3, UnreachableExact
<1> QED BY <1>1, <1>2, <1>3, <1>4, <1>5, <1>6 DEF Command

LEMMA NetworkExact ==
    ASSUME IInv, NEW i \in DOMAIN toDevice, Serve(i) \/ Lose(i)
    PROVE  StraysWereAbandoned' /\ FreshOK' /\ ExactUntilAbandoned'
<1> USE DEF IInv
<1> DEFINE r == toDevice[i]
<1>1. /\ i \in 1 .. Len(toDevice) /\ toDevice \in Seq(Requests) /\ toHost \in Seq(Answers)
      /\ Len(toDevice) \in Nat /\ Len(toHost) \in Nat /\ abandoned \in Nat
  BY DEF TypeOK
<1>2. /\ toDevice' = RemoveAt(toDevice, i)
      /\ toHost' = toHost \/ toHost' = Append(toHost, Answer(r))
      /\ UNCHANGED <<mutex, cmd, result, abandoned>>
      /\ applied \subseteq applied'
  BY DEF Serve, Lose, threadVars, deviceVars, historyVars
<1>3. Len(toDevice') = Len(toDevice) - 1
  BY <1>1, <1>2, Removed
<1>4. /\ Len(toHost') \in Nat /\ Len(toHost') <= Len(toHost) + 1
      /\ \A j \in 1 .. Len(toHost') :
            \/ j \in 1 .. Len(toHost) /\ toHost'[j] = toHost[j]
            \/ toHost'[j] = Answer(r)
  <2>1. CASE toHost' = toHost
    BY <1>1, <2>1
  <2>2. CASE toHost' = Append(toHost, Answer(r))
    <3> HIDE DEF r
    <3> QED BY <1>1, <2>2
  <2> QED BY <1>2, <2>1, <2>2
<1>5. StraysWereAbandoned'
  BY <1>1, <1>2, <1>3, <1>4 DEF StraysWereAbandoned
<1>6. FreshOK'
  <2> SUFFICES ASSUME abandoned = 0
               PROVE  /\ \A j \in 1 .. Len(toDevice') : toDevice'[j] = cmd'[mutex']
                      /\ \A j \in 1 .. Len(toHost') :
                            /\ toHost'[j].op = cmd[mutex].op /\ toHost'[j].addr = cmd[mutex].addr
                            /\ toHost'[j].n = cmd[mutex].n
                            /\ toHost'[j].op = "write" /\ ~toHost'[j].refused
                                  => toHost'[j].n \in applied'
    BY <1>2 DEF FreshOK, AnswerTo
  <2>1. Len(toDevice) = 1 /\ Len(toDevice') = 0 /\ r = cmd[mutex]
    BY <1>1, <1>3, FewUnderWay DEF FreshOK
  <2>2. ASSUME Serve(i)
        PROVE  r.op = "write" /\ r.addr \notin Refused => r.n \in applied'
    BY <2>2 DEF Serve
  <2>3. toHost' # toHost => Serve(i)
    BY DEF Lose
  <2>4. ASSUME NEW j \in 1 .. Len(toHost')
        PROVE  /\ toHost'[j].op = cmd[mutex].op /\ toHost'[j].addr = cmd[mutex].addr
               /\ toHost'[j].n = cmd[mutex].n
               /\ toHost'[j].op = "write" /\ ~toHost'[j].refused
                      => toHost'[j].n \in applied'
    <3>1. CASE j \in 1 .. Len(toHost) /\ toHost'[j] = toHost[j]
      BY <1>2, <3>1 DEF FreshOK, AnswerTo
    <3>2. CASE toHost'[j] = Answer(r) /\ toHost' # toHost
      <4> HIDE DEF r
      <4>1. /\ Answer(r).op = r.op /\ Answer(r).addr = r.addr /\ Answer(r).n = r.n
            /\ Answer(r).refused = (r.addr \in Refused)
        BY DEF Answer
      <4>2. ~Answer(r).refused => r.addr \notin Refused
        BY <4>1, Zenon
      <4>3. r.op = "write" /\ r.addr \notin Refused => r.n \in applied'
        BY <2>2, <2>3, <3>2
      <4> QED BY <2>1, <3>2, <4>1, <4>2, <4>3
    <3> QED BY <1>4, <3>1, <3>2
  <2> QED BY <2>1, <2>4
<1>7. ExactUntilAbandoned'
  BY <1>2 DEF ExactUntilAbandoned
<1> QED BY <1>5, <1>6, <1>7

LEMMA IInvInit == Init => IInv
<1> SUFFICES ASSUME Init PROVE IInv
  OBVIOUS
<1>1. TypeOK /\ ProgressOK
  BY SoundInit DEF Sound
<1>2. StraysWereAbandoned /\ FreshOK
  BY DEF Init, StraysWereAbandoned, FreshOK
<1>3. ExactUntilAbandoned
  BY DEF Init, ExactUntilAbandoned, NoResult
<1> QED BY <1>1, <1>2, <1>3 DEF IInv

LEMMA IInvStep == IInv /\ [Next]_vars => IInv'
<1> SUFFICES ASSUME IInv, [Next]_vars PROVE IInv'
  OBVIOUS
<1>0. TypeOK' /\ ProgressOK'
  BY SoundStep DEF Sound, IInv
<1>1. ASSUME NEW t \in Callers, StartRead(t) \/ StartWrite(t)
      PROVE  StraysWereAbandoned' /\ FreshOK' /\ ExactUntilAbandoned'
  BY <1>1, StartExact DEF StartRead, StartWrite, Threads
<1>2. ASSUME StartProbe
      PROVE  StraysWereAbandoned' /\ FreshOK' /\ ExactUntilAbandoned'
  BY <1>2, StartExact DEF StartProbe, Threads
<1>3. ASSUME NEW t \in Threads, Command(t)
      PROVE  StraysWereAbandoned' /\ FreshOK' /\ ExactUntilAbandoned'
  BY <1>3, CommandExact
<1>4. ASSUME RetrReqFails \/ DetectLoss
      PROVE  StraysWereAbandoned' /\ FreshOK' /\ ExactUntilAbandoned'
  <2>1. PICK l : Close(l)
    BY <1>4 DEF RetrReqFails, DetectLoss
  <2>2. UNCHANGED <<mutex, cmd, result, toDevice, applied, abandoned>>
    BY <1>4 DEF RetrReqFails, DetectLoss, threadVars, deviceVars, historyVars
  <2> QED BY <2>1, <2>2, QuietExact
<1>5. ASSUME NEW i \in DOMAIN toDevice, Serve(i) \/ Lose(i)
      PROVE  StraysWereAbandoned' /\ FreshOK' /\ ExactUntilAbandoned'
  BY <1>5, NetworkExact
<1>6. ASSUME UNCHANGED vars
      PROVE  StraysWereAbandoned' /\ FreshOK' /\ ExactUntilAbandoned'
  BY <1>6 DEF vars, threadVars, deviceVars, historyVars, IInv, StraysWereAbandoned,
              FreshOK, AnswerTo, ExactUntilAbandoned
<1> QED BY <1>0, <1>1, <1>2, <1>3, <1>4, <1>5, <1>6 DEF Next, IInv

\* What is under way without being awaited was given up before: the control
\* connection gets out of step by time-outs only.
THEOREM StraysCorrect == Spec => []StraysWereAbandoned
<1>1. IInv => StraysWereAbandoned
  BY DEF IInv
<1> QED BY <1>1, IInvInit, IInvStep, PTL DEF Spec

\* Until an answer is given up, callers and probes that share the connection get
\* their own answers, and a successful write was executed.
THEOREM ExactCorrect == Spec => []ExactUntilAbandoned
<1>1. IInv => ExactUntilAbandoned
  BY DEF IInv
<1> QED BY <1>1, IInvInit, IInvStep, PTL DEF Spec

-----------------------------------------------------------------------------
(***************************************************************************)
(* What reads return over TCP                                              *)
(***************************************************************************)
Writes(r, a) == r.op = "write" /\ r.addr = a /\ a \notin Refused

\* The last of the requests under way is the one whose answer is awaited, or that
\* answer is the last one under way.
OwnLast ==
    mutex # Null =>
        IF toDevice # <<>> THEN toDevice[Len(toDevice)] = cmd[mutex]
        ELSE toHost # <<>> /\ Matches(cmd[mutex], toHost[Len(toHost)])

\* An answer to a read has the register's content, unless that of a later write
\* follows it.
AnswerCurrent(s, i, g) ==
    /\ s[i].refused <=> s[i].addr \in Refused
    /\ s[i].op = "read" => s[i].addr \in Addr
    /\ s[i].op = "read" /\ s[i].addr \notin Refused =>
          s[i].val = g[s[i].addr] \/ \E j \in i + 1 .. Len(s) : Writes(s[j], s[i].addr)
HostCurrent == \A i \in 1 .. Len(toHost) : AnswerCurrent(toHost, i, reg)

\* What was sent last is what a register is going to hold.
Unwritten(s, k, a) == \A j \in k .. Len(s) : ~Writes(s[j], a)
WillHold(s, a, x, g) ==
    /\ Unwritten(s, 1, a) => x[a] = g[a]
    /\ \A i \in 1 .. Len(s) : Writes(s[i], a) /\ Unwritten(s, i + 1, a) => x[a] = s[i].val
DeviceCurrent == \A a \in Addr : WillHold(toDevice, a, intended, reg)

TcpLinkOK ==
    transport = "tcp" => /\ link.state = "Connected" => link.socket
                         /\ mutex # Null => link.socket
PipeOK == transport = "tcp" /\ link.socket => OwnLast /\ HostCurrent /\ DeviceCurrent
ReadsOK ==
    transport = "tcp" =>
        \A t \in Threads :
            /\ pc[t] = "receive" /\ cmd[t].op = "read" /\ cmd[t].addr \notin Refused =>
                  expected[t] = intended[cmd[t].addr]
            /\ abandoned <= 1 /\ result[t].status = "Ok" /\ cmd[t].op = "read" =>
                  result[t].val = expected[t]

TcpInv == TcpLinkOK /\ PipeOK /\ ReadsOK

\* A read answered with something else than a refusal returns what was expected.
LEMMA AcceptCurrent ==
    ASSUME IInv, TcpInv, NEW t \in Threads, Accept(t), transport = "tcp", abandoned <= 1,
           cmd[t].op = "read", ~Head(toHost).refused
    PROVE  Head(toHost).val = expected[t]
<1> DEFINE a == cmd[t].addr
           n == Len(toHost)
           d == Len(toDevice)
<1>0. /\ mutex = t /\ pc[t] = "receive" /\ t # Null /\ toHost # <<>>
      /\ Matches(cmd[t], Head(toHost))
  BY ControlAssumption DEF Accept, Waiting
<1>1. OwnLast /\ HostCurrent /\ DeviceCurrent
  BY <1>0 DEF TcpInv, TcpLinkOK, PipeOK
<1>2. cmd[t] \in Requests /\ a \in Addr
  <2>1. cmd[t] \in Requests
    BY <1>0 DEF IInv, ProgressOK
  <2> QED BY <2>1 DEF Requests
<1>3. /\ n \in Nat /\ d \in Nat /\ n >= 1 /\ n + d <= 2 /\ Head(toHost) = toHost[1]
      /\ (toDevice # <<>> <=> d > 0)
  <2>1. n \in Nat /\ d \in Nat /\ abandoned \in Nat /\ toDevice \in Seq(Requests)
    BY DEF IInv, TypeOK
  <2>2. n + d <= abandoned + 1
    BY <2>1, <1>0 DEF IInv, StraysWereAbandoned
  <2>3. n >= 1 /\ Head(toHost) = toHost[1]
    BY <1>0, HeadTypes DEF IInv, TypeOK
  <2>4. toDevice # <<>> <=> d > 0
    BY <2>1, EmptySeq
  <2> QED BY <2>1, <2>2, <2>3, <2>4
<1>4. /\ toHost[1].op = "read" /\ toHost[1].addr = a /\ a \notin Refused
      /\ \/ toHost[1].val = reg[a]
         \/ \E j \in 2 .. n : Writes(toHost[j], a)
  BY <1>0, <1>1, <1>3 DEF Matches, HostCurrent, AnswerCurrent
<1>5. \A j \in 2 .. n : ~Writes(toHost[j], a)
  <2> SUFFICES ASSUME NEW j \in 2 .. n, Writes(toHost[j], a) PROVE FALSE
    OBVIOUS
  <2>1. n = 2 /\ d = 0 /\ j = 2
    <3>1. n \in Nat /\ d \in Nat /\ n + d <= 2 /\ j \in 2 .. n
      BY <1>3
    <3> HIDE DEF n, d
    <3> QED BY ONLY <3>1
  <2>2. Matches(cmd[t], toHost[2])
    BY <1>0, <1>1, <1>3, <2>1 DEF OwnLast
  <2> QED BY <2>1, <2>2 DEF Matches, Writes
<1>6. \A j \in 1 .. d : ~Writes(toDevice[j], a)
  <2> SUFFICES ASSUME NEW j \in 1 .. d, Writes(toDevice[j], a) PROVE FALSE
    OBVIOUS
  <2>1. n = 1 /\ d = 1 /\ j = 1
    <3>1. n \in Nat /\ d \in Nat /\ n >= 1 /\ n + d <= 2 /\ j \in 1 .. d
      BY <1>3
    <3> HIDE DEF n, d
    <3> QED BY ONLY <3>1
  <2>2. toDevice[1] = cmd[t]
    BY <1>0, <1>1, <1>3, <2>1 DEF OwnLast
  <2> QED BY <2>1, <2>2 DEF Writes
<1>7. intended[a] = reg[a]
  BY <1>1, <1>2, <1>6 DEF DeviceCurrent, WillHold, Unwritten
<1>8. expected[t] = intended[a]
  BY <1>0, <1>4 DEF TcpInv, ReadsOK
<1> QED BY <1>3, <1>4, <1>5, <1>7, <1>8

\* Taking the first answer leaves the others in order.
LEMMA TailCurrent ==
    ASSUME TypeOK, HostCurrent, toHost # <<>>
    PROVE  \A i \in 1 .. Len(Tail(toHost)) : AnswerCurrent(Tail(toHost), i, reg)
<1> DEFINE s == Tail(toHost)
           n == Len(toHost)
<1>1. /\ n \in Nat /\ n >= 1 /\ Len(s) = n - 1 /\ \A i \in 1 .. n - 1 : s[i] = toHost[i + 1]
  BY HeadTailProperties, EmptySeq, LenProperties DEF TypeOK
<1> HIDE DEF s
<1> SUFFICES ASSUME NEW i \in 1 .. n - 1 PROVE AnswerCurrent(s, i, reg)
  BY <1>1 DEF s
<1>2. s[i] = toHost[i + 1] /\ i + 1 \in 1 .. n
  BY <1>1
<1>3. AnswerCurrent(toHost, i + 1, reg)
  BY <1>2 DEF HostCurrent
<1>4. ASSUME NEW j \in i + 1 + 1 .. n PROVE j - 1 \in i + 1 .. Len(s) /\ s[j - 1] = toHost[j]
  BY <1>1
<1> QED BY <1>2, <1>3, <1>4 DEF AnswerCurrent

\* Failures cut or leave a TCP connection.
LEMMA FailureLinks ==
    ASSUME TypeOK, TcpLinkOK, transport = "tcp", NEW l,
           l \in SendFailures \/ l \in ReceiveFailures \/ l = Cut(link)
    PROVE  /\ l.state = "Connected" => l.socket
           /\ l.socket => link.socket
<1>1. link \in [state : {"Connected", "Reconnecting"}, socket : BOOLEAN, fails : 0 .. LostAfter]
  BY DEF TypeOK
<1>2. link.state = "Connected" => link.socket
  BY DEF TcpLinkOK
<1>3. l = Failed(link) \/ l = Cut(Failed(link)) \/ l = Cut(link)
  BY DEF SendFailures, ReceiveFailures
<1>4. Failed(link).state = link.state /\ Failed(link).socket = link.socket
  BY <1>1 DEF Failed
<1>5. \A x \in {link, Failed(link)} : Cut(x).state # "Connected" /\ Cut(x).socket = FALSE
  <2> SUFFICES ASSUME NEW x \in {link, Failed(link)}
               PROVE Cut(x).state # "Connected" /\ Cut(x).socket = FALSE
    OBVIOUS
  <2>1. x = [state |-> x.state, socket |-> x.socket, fails |-> x.fails]
    BY <1>1 DEF Failed
  <2> QED BY <2>1 DEF Cut, Dropped
<1> QED BY <1>2, <1>3, <1>4, <1>5

\* A step that leaves nobody waiting.
LEMMA EndTcp ==
    ASSUME IInv, TcpInv, transport = "tcp", mutex' = Null,
           UNCHANGED <<transport, toDevice, reg, intended>>,
           link'.state = "Connected" => link'.socket,
           link'.socket => /\ link.socket
                           /\ toHost' = toHost \/ (toHost # <<>> /\ toHost' = Tail(toHost))
    PROVE  TcpLinkOK' /\ PipeOK'
<1>1. TcpLinkOK'
  BY DEF TcpLinkOK
<1>2. PipeOK'
  <2> SUFFICES ASSUME link'.socket PROVE OwnLast' /\ HostCurrent' /\ DeviceCurrent'
    BY DEF PipeOK
  <2>1. HostCurrent /\ DeviceCurrent
    BY DEF TcpInv, PipeOK
  <2>2. OwnLast'
    BY DEF OwnLast
  <2>3. HostCurrent'
    <3>1. CASE toHost' = toHost
      BY <2>1, <3>1 DEF HostCurrent
    <3>2. CASE toHost # <<>> /\ toHost' = Tail(toHost)
      BY <2>1, <3>2, TailCurrent DEF HostCurrent, IInv
    <3> QED BY <3>1, <3>2
  <2>4. DeviceCurrent'
    BY <2>1 DEF DeviceCurrent
  <2> QED BY <2>2, <2>3, <2>4
<1> QED BY <1>1, <1>2

\* A step after which no read succeeds that did not before.
LEMMA ReadsStay ==
    ASSUME IInv, TcpInv, UNCHANGED <<transport, cmd, expected, intended>>,
           abandoned' = abandoned \/ abandoned' = abandoned + 1,
           \A u \in Threads : /\ pc'[u] = "receive" => pc[u] = "receive"
                              /\ result'[u] = result[u] \/ result'[u].status # "Ok"
    PROVE  ReadsOK'
<1>1. abandoned' <= 1 => abandoned <= 1
  BY DEF IInv, TypeOK
<1> QED BY <1>1 DEF TcpInv, ReadsOK

LEMMA UnreachableReads ==
    ASSUME TypeOK, NEW t \in Threads, NEW left, Unreachable(t, left)
    PROVE  /\ mutex' = Null
           /\ \A u \in Threads : /\ pc'[u] = "receive" => pc[u] = "receive"
                                 /\ result'[u] = result[u] \/ result'[u].status # "Ok"
<1>1. Outcome("DeviceUnreachable").status # "Ok"
  BY DEF Outcome
<1> QED BY <1>1 DEF Unreachable, Finish, TypeOK

LEMMA StartTcp ==
    ASSUME IInv, TcpInv, NEW t \in Threads, NEW op, NEW a, NEW v, NEW tries,
           Start(t, op, a, v, tries)
    PROVE  TcpInv'
<1>1. /\ UNCHANGED <<transport, link, mutex, toDevice, toHost, reg, abandoned, intended, expected>>
      /\ pc[t] = "idle" /\ pc'[t] = "transmit" /\ result'[t] = NoResult
      /\ \A u \in Threads \ {t} : pc'[u] = pc[u] /\ cmd'[u] = cmd[u] /\ result'[u] = result[u]
  BY DEF Start, IInv, TypeOK, deviceVars, historyVars
<1>2. TcpLinkOK'
  BY <1>1 DEF TcpInv, TcpLinkOK
<1>3. mutex # Null => cmd'[mutex] = cmd[mutex]
  <2>1. mutex # Null => mutex \in Threads /\ mutex # t
    BY <1>1 DEF IInv, TypeOK, ProgressOK
  <2> QED BY <1>1, <2>1
<1>4. PipeOK'
  <2> SUFFICES ASSUME transport = "tcp", link.socket
               PROVE OwnLast' /\ HostCurrent' /\ DeviceCurrent'
    BY <1>1 DEF PipeOK
  <2>1. OwnLast /\ HostCurrent /\ DeviceCurrent
    BY DEF TcpInv, PipeOK
  <2>2. OwnLast'
    BY <1>1, <1>3, <2>1 DEF OwnLast, Matches
  <2>3. HostCurrent'
    BY <1>1, <2>1 DEF HostCurrent
  <2>4. DeviceCurrent'
    BY <1>1, <2>1 DEF DeviceCurrent
  <2> QED BY <2>2, <2>3, <2>4
<1>5. ReadsOK'
  <2> SUFFICES ASSUME transport = "tcp", NEW u \in Threads
               PROVE  /\ pc'[u] = "receive" /\ cmd'[u].op = "read" /\ cmd'[u].addr \notin Refused =>
                            expected[u] = intended[cmd'[u].addr]
                      /\ abandoned <= 1 /\ result'[u].status = "Ok" /\ cmd'[u].op = "read" =>
                            result'[u].val = expected[u]
    BY <1>1 DEF ReadsOK
  <2>1. CASE u = t
    BY <1>1, <2>1 DEF NoResult
  <2>2. CASE u # t
    BY <1>1, <2>2 DEF TcpInv, ReadsOK
  <2> QED BY <2>1, <2>2
<1> QED BY <1>2, <1>4, <1>5 DEF TcpInv

\* Appending a request.
LEMMA SendDevice ==
    ASSUME TypeOK, DeviceCurrent, NEW r \in Requests, toDevice' = Append(toDevice, r),
           reg' = reg,
           intended' = IF r.op = "write" /\ r.addr \notin Refused
                       THEN [intended EXCEPT ![r.addr] = r.val] ELSE intended
    PROVE  DeviceCurrent'
<1> DEFINE s == toDevice'
           d == Len(toDevice)
<1>1. /\ d \in Nat /\ Len(s) = d + 1 /\ s[d + 1] = r /\ \A i \in 1 .. d : s[i] = toDevice[i]
  BY AppendProperties DEF TypeOK
<1> HIDE DEF s
<1> SUFFICES ASSUME NEW a \in Addr PROVE WillHold(s, a, intended', reg)
  BY DEF DeviceCurrent, s
<1>2. WillHold(toDevice, a, intended, reg)
  BY DEF DeviceCurrent
<1>3. \A i \in 1 .. d + 1 : i \in 1 .. d \/ i = d + 1
  BY <1>1
<1>4. CASE Writes(r, a)
  <2>1. intended'[a] = r.val
    BY <1>4 DEF Writes, TypeOK
  <2>2. ASSUME NEW k \in 1 .. d + 1 PROVE ~Unwritten(s, k, a)
    <3>1. d + 1 \in k .. Len(s)
      BY <1>1
    <3> QED BY <1>1, <1>4, <3>1 DEF Unwritten
  <2>3. ~Unwritten(s, 1, a)
    BY <1>1, <2>2
  <2>4. ASSUME NEW i \in 1 .. Len(s), Unwritten(s, i + 1, a) PROVE i = d + 1
    <3>1. i + 1 \notin 1 .. d + 1
      BY <2>2, <2>4
    <3> QED BY <1>1, <3>1
  <2>5. \A i \in 1 .. Len(s) : Unwritten(s, i + 1, a) => s[i] = r
    BY <1>1, <2>4
  <2> QED BY <2>1, <2>3, <2>5 DEF WillHold
<1>5. CASE ~Writes(r, a)
  <2>1. intended'[a] = intended[a]
    BY <1>5 DEF Writes, TypeOK
  <2>2. ASSUME NEW k \in 1 .. d + 1, Unwritten(s, k, a) PROVE Unwritten(toDevice, k, a)
    <3>1. \A j \in k .. d : j \in k .. Len(s) /\ s[j] = toDevice[j]
      BY <1>1
    <3> QED BY <2>2, <3>1 DEF Unwritten
  <2>3. Unwritten(s, 1, a) => intended'[a] = reg[a]
    BY <1>1, <1>2, <2>1, <2>2 DEF WillHold
  <2>4. ASSUME NEW i \in 1 .. Len(s), Writes(s[i], a), Unwritten(s, i + 1, a)
        PROVE  intended'[a] = s[i].val
    <3>1. i \in 1 .. d /\ i + 1 \in 1 .. d + 1 /\ s[i] = toDevice[i]
      BY <1>1, <1>3, <1>5, <2>4
    <3>2. Unwritten(toDevice, i + 1, a)
      BY <2>2, <2>4, <3>1
    <3> QED BY <1>2, <2>1, <2>4, <3>1, <3>2 DEF WillHold
  <2> QED BY <2>3, <2>4 DEF WillHold
<1> QED BY <1>4, <1>5

LEMMA SendTcp ==
    ASSUME IInv, TcpInv, NEW t \in Threads, Send(t)
    PROVE  TcpInv'
<1>1. /\ UNCHANGED <<transport, link, cmd, result, toHost, reg, abandoned>>
      /\ mutex = Null /\ mutex' = t /\ toDevice' = Append(toDevice, cmd[t]) /\ Active
      /\ pc[t] = "transmit" /\ pc'[t] = "receive"
      /\ \A u \in Threads \ {t} : pc'[u] = pc[u] /\ expected'[u] = expected[u]
      /\ intended' = IF cmd[t].op = "write" /\ cmd[t].addr \notin Refused
                     THEN [intended EXCEPT ![cmd[t].addr] = cmd[t].val] ELSE intended
      /\ cmd[t].op = "read" /\ cmd[t].addr \notin Refused => expected'[t] = intended[cmd[t].addr]
  BY DEF Send, CanTransmit, IInv, TypeOK, deviceVars
<1>2. cmd[t] \in Requests /\ result[t] = NoResult
  BY <1>1 DEF IInv, ProgressOK
<1>3. TcpLinkOK'
  BY <1>1 DEF TcpInv, TcpLinkOK, Active
<1>4. PipeOK'
  <2> SUFFICES ASSUME transport = "tcp", link.socket
               PROVE OwnLast' /\ HostCurrent' /\ DeviceCurrent'
    BY <1>1 DEF PipeOK
  <2>1. HostCurrent /\ DeviceCurrent
    BY DEF TcpInv, PipeOK
  <2>2. OwnLast'
    <3>1. toDevice' # <<>> /\ toDevice'[Len(toDevice')] = cmd[t]
      <4>1. toDevice \in Seq(Requests) /\ Len(toDevice) \in Nat
        BY DEF IInv, TypeOK
      <4>2. /\ toDevice' \in Seq(Requests) /\ Len(toDevice') = Len(toDevice) + 1
            /\ toDevice'[Len(toDevice) + 1] = cmd[t]
        BY <1>1, <1>2, <4>1, AppendProperties
      <4>3. Len(toDevice') # 0
        BY <4>1, <4>2
      <4> QED BY <4>2, <4>3, EmptySeq
    <3> QED BY <1>1, <3>1 DEF OwnLast
  <2>3. HostCurrent'
    BY <1>1, <2>1 DEF HostCurrent
  <2>4. DeviceCurrent'
    BY <1>1, <1>2, <2>1, SendDevice DEF IInv
  <2> QED BY <2>2, <2>3, <2>4
<1>5. ReadsOK'
  <2> SUFFICES ASSUME transport = "tcp", NEW u \in Threads
               PROVE  /\ pc'[u] = "receive" /\ cmd[u].op = "read" /\ cmd[u].addr \notin Refused =>
                            expected'[u] = intended'[cmd[u].addr]
                      /\ abandoned <= 1 /\ result[u].status = "Ok" /\ cmd[u].op = "read" =>
                            result[u].val = expected'[u]
    BY <1>1 DEF ReadsOK
  <2>1. CASE u = t
    <3>1. cmd[t].op = "read" => intended' = intended
      BY <1>1
    <3> QED BY <1>1, <1>2, <2>1, <3>1 DEF NoResult
  <2>2. CASE u # t
    <3>1. pc[u] # "receive"
      BY <1>1, ControlAssumption DEF IInv, ProgressOK
    <3> QED BY <1>1, <2>2, <3>1 DEF TcpInv, ReadsOK
  <2> QED BY <2>1, <2>2
<1> QED BY <1>3, <1>4, <1>5 DEF TcpInv

LEMMA CommandTcp ==
    ASSUME IInv, TcpInv, NEW t \in Threads, Command(t), transport = "tcp"
    PROVE  TcpInv'
<1> USE DEF deviceVars, historyVars
<1>0. /\ TypeOK /\ TcpLinkOK /\ abandoned \in Nat
      /\ link \in [state : {"Connected", "Reconnecting"}, socket : BOOLEAN, fails : 0 .. LostAfter]
  BY DEF IInv, TypeOK, TcpInv
<1>1. CASE Send(t)
  BY <1>1, SendTcp
<1>2. CASE SendFails(t)
  <2>1. PICK l \in SendFailures : link' = l /\ Close(l)
    BY <1>2 DEF SendFails
  <2>2. /\ Unreachable(t, attempts[t] - 1)
        /\ UNCHANGED <<transport, cmd, toDevice, reg, intended, expected, abandoned>>
    BY <1>2 DEF SendFails
  <2>3. TcpLinkOK' /\ PipeOK'
    BY <1>0, <2>1, <2>2, FailureLinks, UnreachableReads, EndTcp DEF Close
  <2>4. ReadsOK'
    BY <1>0, <2>2, UnreachableReads, ReadsStay
  <2> QED BY <2>3, <2>4 DEF TcpInv
<1>3. CASE SendRefused(t)
  <2>1. /\ Finish(t, Outcome("NotConnected"))
        /\ UNCHANGED <<transport, link, cmd, toDevice, toHost, reg, intended, expected, abandoned>>
    BY <1>3 DEF SendRefused
  <2>2. TcpLinkOK' /\ PipeOK'
    BY <1>0, <2>1, EndTcp DEF Finish, TcpLinkOK
  <2>3. Outcome("NotConnected").status # "Ok"
    BY DEF Outcome
  <2>4. ReadsOK'
    BY <1>0, <2>1, <2>3, ReadsStay DEF Finish, TypeOK
  <2> QED BY <2>2, <2>4 DEF TcpInv
<1>4. CASE Accept(t)
  <2> DEFINE r == [status |-> IF Head(toHost).refused THEN "IllegalOperation" ELSE "Ok",
                   val |-> Head(toHost).val, answered |-> Head(toHost).n]
  <2>1. /\ Finish(t, r) /\ mutex = t /\ toHost # <<>> /\ toHost' = Tail(toHost)
        /\ link' = Heard(link)
        /\ UNCHANGED <<transport, cmd, toDevice, reg, intended, expected, abandoned>>
    BY <1>4 DEF Accept, Waiting
  <2>2. link.socket /\ link'.socket
    <3>1. link.socket
      BY <1>0, <2>1, ControlAssumption DEF TcpLinkOK
    <3>2. link'.socket = link.socket
      BY <1>0, <2>1 DEF Heard
    <3> QED BY <3>1, <3>2
  <2>3. TcpLinkOK' /\ PipeOK'
    BY <1>0, <2>1, <2>2, EndTcp DEF Finish
  <2>4. r.status = "Ok" => ~Head(toHost).refused
    OBVIOUS
  <2>5. r.val = Head(toHost).val
    OBVIOUS
  <2> HIDE DEF r
  <2>6. /\ result'[t] = r /\ \A u \in Threads \ {t} : result'[u] = result[u] /\ pc'[u] = pc[u]
        /\ pc'[t] = "idle"
    BY <1>0, <2>1 DEF Finish, TypeOK
  <2>7. abandoned <= 1 /\ r.status = "Ok" /\ cmd[t].op = "read" => r.val = expected[t]
    BY <1>4, <2>4, <2>5, AcceptCurrent
  <2>8. ReadsOK'
    <3> SUFFICES ASSUME NEW u \in Threads
                 PROVE  /\ pc'[u] = "receive" /\ cmd[u].op = "read" /\ cmd[u].addr \notin Refused =>
                              expected[u] = intended[cmd[u].addr]
                        /\ abandoned <= 1 /\ result'[u].status = "Ok" /\ cmd[u].op = "read" =>
                              result'[u].val = expected[u]
      BY <2>1 DEF ReadsOK
    <3>1. CASE u = t
      BY <2>6, <2>7, <3>1
    <3>2. CASE u # t
      BY <2>6, <3>2 DEF TcpInv, ReadsOK
    <3> QED BY <3>1, <3>2
  <2> QED BY <2>3, <2>8 DEF TcpInv
<1>5. CASE Mismatch(t)
  <2>1. /\ UNCHANGED <<mutex, pc, result>> /\ mutex = t /\ toHost # <<>> /\ toHost' = Tail(toHost)
        /\ ~Matches(cmd[t], Head(toHost)) /\ link' = Heard(link)
        /\ UNCHANGED <<transport, cmd, toDevice, reg, intended, expected, abandoned>>
    BY <1>5 DEF Mismatch, Waiting
  <2>2. link.socket /\ link'.socket
    <3>1. link.socket
      BY <1>0, <2>1, ControlAssumption DEF TcpLinkOK
    <3>2. link'.socket = link.socket
      BY <1>0, <2>1 DEF Heard
    <3> QED BY <3>1, <3>2
  <2>3. OwnLast /\ HostCurrent /\ DeviceCurrent
    BY <2>2 DEF TcpInv, PipeOK
  <2>4. OwnLast'
    <3> SUFFICES ASSUME toDevice = <<>>
                 PROVE  toHost' # <<>> /\ Matches(cmd[t], toHost'[Len(toHost')])
      BY <2>1, <2>3, ControlAssumption DEF OwnLast
    <3>1. Matches(cmd[t], toHost[Len(toHost)])
      BY <2>1, <2>3, ControlAssumption DEF OwnLast
    <3> DEFINE n == Len(toHost)
    <3>2. /\ n \in Nat /\ n >= 1 /\ Head(toHost) = toHost[1]
          /\ Len(toHost') = n - 1 /\ \A i \in 1 .. n - 1 : toHost'[i] = toHost[i + 1]
      BY <1>0, <2>1, HeadTailProperties, EmptySeq, LenProperties DEF TypeOK
    <3>3. n # 1
      BY <2>1, <3>1, <3>2
    <3>4. Len(toHost') \in 1 .. n - 1 /\ toHost'[n - 1] = toHost[n]
      <4> HIDE DEF n
      <4>1. n - 1 \in 1 .. n - 1 /\ (n - 1) + 1 = n
        BY <3>2, <3>3
      <4> QED BY <3>2, <4>1
    <3>5. toHost' # <<>>
      <4>1. Len(toHost') # 0
        BY <3>2, <3>4
      <4> QED BY <4>1, EmptySeq
    <3> QED BY <3>1, <3>2, <3>4, <3>5
  <2>5. HostCurrent'
    BY <1>0, <2>1, <2>3, TailCurrent DEF HostCurrent
  <2>6. DeviceCurrent'
    BY <2>1, <2>3 DEF DeviceCurrent
  <2>7. PipeOK' /\ TcpLinkOK'
    BY <2>2, <2>4, <2>5, <2>6 DEF PipeOK, TcpLinkOK
  <2>8. ReadsOK'
    BY <2>1, ReadsStay
  <2> QED BY <2>7, <2>8 DEF TcpInv
<1>6. CASE GiveUp(t) \/ GiveUpHalfway(t)
  <2>1. /\ Unreachable(t, attempts[t]) /\ abandoned' = abandoned + 1 /\ mutex = t
        /\ UNCHANGED <<transport, cmd, toDevice, reg, intended, expected>>
    BY <1>6 DEF GiveUp, GiveUpHalfway, Waiting
  <2>2. /\ link'.state = "Connected" => link'.socket
        /\ link'.socket => toHost' = toHost \/ (toHost # <<>> /\ toHost' = Tail(toHost))
    <3>1. CASE GiveUp(t)
      <4>1. PICK l \in ReceiveFailures : link' = l /\ Close(l)
        BY <3>1 DEF GiveUp
      <4> QED BY <1>0, <4>1, FailureLinks DEF Close
    <3>2. CASE GiveUpHalfway(t)
      <4>1. Heard(link) \in [state : {"Connected"}, socket : BOOLEAN, fails : 0 .. LostAfter]
            /\ Heard(link).socket = link.socket
        <5>1. 0 \in 0 .. LostAfter
          BY DEF LostAfter
        <5> QED BY <1>0, <5>1 DEF Heard
      <4>2. link.socket
        BY <1>0, <2>1, ControlAssumption DEF TcpLinkOK
      <4>3. Failed(Heard(link)).socket = Heard(link).socket
        BY <4>1 DEF Failed
      <4>4. Cut(Failed(Heard(link))).state # "Connected" /\ Cut(Failed(Heard(link))).socket = FALSE
        BY <4>1 DEF Failed, Cut, Dropped
      <4>5. \/ link' = Failed(Heard(link)) /\ toHost' = Tail(toHost)
            \/ link' = Cut(Failed(Heard(link)))
        BY <3>2 DEF GiveUpHalfway
      <4>6. toHost # <<>>
        BY <3>2 DEF GiveUpHalfway
      <4> QED BY <4>1, <4>2, <4>3, <4>4, <4>5, <4>6
    <3> QED BY <1>6, <3>1, <3>2
  <2>3. link.socket
    BY <1>0, <2>1, ControlAssumption DEF TcpLinkOK
  <2>4. TcpLinkOK' /\ PipeOK'
    BY <1>0, <2>1, <2>2, <2>3, UnreachableReads, EndTcp
  <2>5. ReadsOK'
    BY <1>0, <2>1, UnreachableReads, ReadsStay
  <2> QED BY <2>4, <2>5 DEF TcpInv
<1> QED BY <1>1, <1>2, <1>3, <1>4, <1>5, <1>6 DEF Command

\* The device executes the oldest request.
LEMMA ServeCurrent ==
    ASSUME TypeOK, toDevice # <<>>, HostCurrent, DeviceCurrent,
           toDevice' = Tail(toDevice),
           LET r == Head(toDevice)
           IN  /\ toHost' = Append(toHost, Answer(r))
               /\ reg' = IF r.op = "write" /\ r.addr \notin Refused
                         THEN [reg EXCEPT ![r.addr] = r.val] ELSE reg,
           UNCHANGED intended
    PROVE  HostCurrent' /\ DeviceCurrent'
<1> DEFINE r == Head(toDevice)
           s == toDevice'
           h == toHost'
           d == Len(toDevice)
           n == Len(toHost)
<1>1. /\ d \in Nat /\ d >= 1 /\ Len(s) = d - 1 /\ \A i \in 1 .. d - 1 : s[i] = toDevice[i + 1]
      /\ r = toDevice[1] /\ r \in Requests
  BY HeadTailProperties, EmptySeq, LenProperties DEF TypeOK
<1>2. n \in Nat /\ Len(h) = n + 1 /\ h[n + 1] = Answer(r) /\ \A i \in 1 .. n : h[i] = toHost[i]
  BY AppendProperties DEF TypeOK
<1>3. reg' = IF r.op = "write" /\ r.addr \notin Refused THEN [reg EXCEPT ![r.addr] = r.val] ELSE reg
  OBVIOUS
<1>4. \A a \in Addr : reg'[a] = IF Writes(r, a) THEN r.val ELSE reg[a]
  BY <1>3 DEF TypeOK, Writes
<1>5. /\ Answer(r).op = r.op /\ Answer(r).addr = r.addr
      /\ Answer(r).refused = (r.addr \in Refused)
      /\ r.op = "read" /\ r.addr \notin Refused => Answer(r).val = reg[r.addr]
  BY DEF Answer
<1>6. Answer(r).refused <=> r.addr \in Refused
  BY <1>5, Zenon
<1>7. \A a : Writes(Answer(r), a) <=> Writes(r, a)
  BY <1>5 DEF Writes
<1> HIDE DEF r, s, h
<1>8. ASSUME NEW i \in 1 .. Len(h) PROVE AnswerCurrent(h, i, reg')
  <2>1. CASE i = n + 1
    <3>1. r.op = "read" => reg' = reg /\ r.addr \in Addr
      BY <1>1, <1>3 DEF Requests
    <3> QED BY <1>2, <1>5, <1>6, <2>1, <3>1 DEF AnswerCurrent
  <2>2. CASE i \in 1 .. n
    <3>1. h[i] = toHost[i] /\ AnswerCurrent(toHost, i, reg)
      BY <1>2, <2>2 DEF HostCurrent
    <3> DEFINE a == toHost[i].addr
    <3>3. ASSUME NEW j \in i + 1 .. n PROVE j \in i + 1 .. Len(h) /\ h[j] = toHost[j]
      BY <1>2, <2>2
    <3>4. n + 1 \in i + 1 .. Len(h)
      BY <1>2, <2>2
    <3>5. CASE Writes(r, a)
      <4>1. Writes(h[n + 1], a)
        BY <1>2, <1>7, <3>5
      <4> QED BY <3>1, <3>4, <4>1 DEF AnswerCurrent
    <3>6. CASE ~Writes(r, a)
      <4>1. toHost[i].op = "read" => a \in Addr
        BY <3>1 DEF AnswerCurrent
      <4>2. a \in Addr => reg'[a] = reg[a]
        BY <1>4, <3>6
      <4> QED BY <3>1, <3>3, <4>1, <4>2 DEF AnswerCurrent
    <3> QED BY <3>5, <3>6
  <2> QED BY <1>2, <2>1, <2>2
<1>9. ASSUME NEW a \in Addr PROVE WillHold(s, a, intended, reg')
  <2>1. WillHold(toDevice, a, intended, reg)
    BY DEF DeviceCurrent
  <2>2. ASSUME NEW k \in 1 .. d, Unwritten(s, k, a) PROVE Unwritten(toDevice, k + 1, a)
    <3>1. ASSUME NEW j \in k + 1 .. d PROVE j - 1 \in k .. Len(s) /\ s[j - 1] = toDevice[j]
      BY <1>1
    <3> QED BY <2>2, <3>1 DEF Unwritten
  <2>3. Unwritten(s, 1, a) => intended[a] = reg'[a]
    <3> SUFFICES ASSUME Unwritten(s, 1, a) PROVE intended[a] = reg'[a]
      OBVIOUS
    <3>1. Unwritten(toDevice, 2, a)
      BY <1>1, <2>2
    <3>2. CASE Writes(r, a)
      BY <1>1, <1>4, <2>1, <3>1, <3>2 DEF WillHold
    <3>3. CASE ~Writes(r, a)
      <4>1. Unwritten(toDevice, 1, a)
        <5>1. \A j \in 1 .. d : j = 1 \/ j \in 2 .. d
          BY <1>1
        <5> QED BY <1>1, <3>1, <3>3, <5>1 DEF Unwritten
      <4> QED BY <1>4, <2>1, <3>3, <4>1 DEF WillHold
    <3> QED BY <3>2, <3>3
  <2>4. ASSUME NEW i \in 1 .. Len(s), Writes(s[i], a), Unwritten(s, i + 1, a)
        PROVE  intended[a] = s[i].val
    <3>1. i + 1 \in 1 .. d /\ s[i] = toDevice[i + 1]
      BY <1>1
    <3>2. Unwritten(toDevice, (i + 1) + 1, a)
      BY <2>2, <2>4, <3>1
    <3> QED BY <2>1, <2>4, <3>1, <3>2 DEF WillHold
  <2> QED BY <2>3, <2>4 DEF WillHold
<1> QED BY <1>8, <1>9 DEF HostCurrent, DeviceCurrent, s, h

LEMMA NetworkTcp ==
    ASSUME IInv, TcpInv, transport = "tcp", NEW i \in DOMAIN toDevice, Serve(i) \/ Lose(i)
    PROVE  TcpInv'
<1>1. /\ UNCHANGED <<transport, link, mutex, cmd, pc, result, abandoned, intended, expected>>
      /\ toDevice \in Seq(Requests) /\ toHost \in Seq(Answers) /\ TypeOK
  BY DEF Serve, Lose, threadVars, historyVars, IInv, TypeOK
<1>2. TcpLinkOK' /\ ReadsOK'
  BY <1>1 DEF TcpInv, TcpLinkOK, ReadsOK
<1>3. PipeOK'
  <2> SUFFICES ASSUME link.socket PROVE OwnLast' /\ HostCurrent' /\ DeviceCurrent'
    BY <1>1 DEF PipeOK
  <2>1. OwnLast /\ HostCurrent /\ DeviceCurrent
    BY DEF TcpInv, PipeOK
  <2> DEFINE r == Head(toDevice)
             d == Len(toDevice)
  <2>2. Serve(1) /\ i = 1
    BY DEF Lose, Lossy, Serve
  <2>3. /\ toDevice # <<>> /\ d \in Nat /\ d >= 1 /\ r = toDevice[1] /\ Tail(toDevice) \in Seq(Requests)
        /\ Len(Tail(toDevice)) = d - 1
        /\ \A j \in 1 .. d - 1 : Tail(toDevice)[j] = toDevice[j + 1]
    <3>1. toDevice # <<>>
      BY <1>1, <2>2, EmptySeq
    <3> QED BY <1>1, <3>1, HeadTailProperties, EmptySeq, LenProperties
  <2>4. RemoveAt(toDevice, 1) = Tail(toDevice)
    BY <1>1, <2>3 DEF RemoveAt
  <2>5. /\ toDevice' = Tail(toDevice) /\ toHost' = Append(toHost, Answer(r))
        /\ reg' = IF r.op = "write" /\ r.addr \notin Refused
                  THEN [reg EXCEPT ![r.addr] = r.val] ELSE reg
    BY <2>2, <2>3, <2>4 DEF Serve, Lossy
  <2>6. HostCurrent' /\ DeviceCurrent'
    BY <1>1, <2>1, <2>3, <2>5, ServeCurrent
  <2>7. OwnLast'
    <3> SUFFICES ASSUME mutex # Null
                 PROVE  IF Tail(toDevice) # <<>>
                        THEN toDevice'[Len(toDevice')] = cmd[mutex]
                        ELSE toHost' # <<>> /\ Matches(cmd[mutex], toHost'[Len(toHost')])
      BY <1>1, <2>5 DEF OwnLast
    <3>1. toDevice[d] = cmd[mutex]
      BY <2>1, <2>3 DEF OwnLast
    <3>2. CASE Tail(toDevice) # <<>>
      <4>1. d - 1 # 0
        BY <2>3, <3>2, EmptySeq
      <4>2. d - 1 \in 1 .. d - 1 /\ (d - 1) + 1 = d
        BY <2>3, <4>1
      <4>3. Tail(toDevice)[d - 1] = toDevice[d]
        BY <2>3, <4>2
      <4> QED BY <2>3, <2>5, <3>1, <3>2, <4>3
    <3>3. CASE Tail(toDevice) = <<>>
      <4>1. d = 1
        <5>1. Len(Tail(toDevice)) = 0
          BY <2>3, <3>3, EmptySeq
        <5>2. d \in Nat /\ d - 1 = 0
          BY <2>3, <5>1
        <5> HIDE DEF d
        <5> QED BY <5>2
      <4>2. r = cmd[mutex]
        BY <2>3, <3>1, <4>1
      <4>3. Answer(r).op = r.op /\ Answer(r).addr = r.addr
        BY DEF Answer
      <4> HIDE DEF r
      <4>4. toHost' # <<>> /\ toHost'[Len(toHost')] = Answer(r)
        BY <1>1, <2>5
      <4> QED BY <3>3, <4>2, <4>3, <4>4 DEF Matches
    <3> QED BY <3>2, <3>3
  <2> QED BY <2>6, <2>7
<1> QED BY <1>2, <1>3 DEF TcpInv

LEMMA TcpInvInit == Init => TcpInv
<1> SUFFICES ASSUME Init PROVE TcpInv
  OBVIOUS
<1>1. Len(toDevice) = 0 /\ Len(toHost) = 0
  BY DEF Init
<1>2. OwnLast
  BY DEF Init, OwnLast
<1>3. HostCurrent
  BY <1>1 DEF HostCurrent
<1>4. DeviceCurrent
  BY <1>1 DEF Init, DeviceCurrent, WillHold
<1>5. TcpLinkOK
  BY DEF Init, TcpLinkOK
<1>6. ReadsOK
  BY DEF Init, ReadsOK, NoResult
<1> QED BY <1>2, <1>3, <1>4, <1>5, <1>6 DEF TcpInv, PipeOK

LEMMA TcpInvStep == IInv /\ TcpInv /\ [Next]_vars => TcpInv'
<1> SUFFICES ASSUME IInv, TcpInv, [Next]_vars PROVE TcpInv'
  OBVIOUS
<1>1. transport' = transport
  BY DEF Next, StartRead, StartWrite, StartProbe, Start, Command, Send, SendFails, SendRefused,
         Accept, Mismatch, GiveUp, GiveUpHalfway, RetrReqFails, DetectLoss, Serve, Lose, vars
<1>2. CASE transport # "tcp"
  BY <1>1, <1>2 DEF TcpInv, TcpLinkOK, PipeOK, ReadsOK
<1>3. CASE transport = "tcp"
  <2>1. ASSUME NEW t \in Callers, StartRead(t) \/ StartWrite(t) PROVE TcpInv'
    BY <2>1, StartTcp DEF StartRead, StartWrite, Threads
  <2>2. ASSUME StartProbe PROVE TcpInv'
    BY <2>2, StartTcp DEF StartProbe, Threads
  <2>3. ASSUME NEW t \in Threads, Command(t) PROVE TcpInv'
    BY <1>3, <2>3, CommandTcp
  <2>4. ASSUME RetrReqFails \/ DetectLoss PROVE TcpInv'
    <3>1. /\ UNCHANGED <<mutex, cmd, pc, result, toDevice, reg, intended, expected, abandoned>>
          /\ mutex = Null
      BY <2>4 DEF RetrReqFails, DetectLoss, threadVars, deviceVars, historyVars
    <3>2. PICK l : link' = l /\ Close(l) /\ (l \in SendFailures \/ l = Cut(link))
      BY <1>3, <2>4 DEF RetrReqFails, DetectLoss
    <3>3. /\ link'.state = "Connected" => link'.socket
          /\ link'.socket => link.socket /\ toHost' = toHost
      BY <1>3, <3>2, FailureLinks DEF Close, TcpInv, IInv
    <3>4. TcpLinkOK' /\ PipeOK'
      BY <1>1, <1>3, <3>1, <3>3, EndTcp
    <3>5. ReadsOK'
      BY <1>1, <3>1, ReadsStay
    <3> QED BY <3>4, <3>5 DEF TcpInv
  <2>5. ASSUME NEW i \in DOMAIN toDevice, Serve(i) \/ Lose(i) PROVE TcpInv'
    BY <1>3, <2>5, NetworkTcp
  <2>6. ASSUME UNCHANGED vars PROVE TcpInv'
    <3>1. UNCHANGED <<transport, link, mutex, cmd, pc, result, toDevice, toHost, reg, intended,
                      expected, abandoned>>
      BY <2>6 DEF vars, threadVars, deviceVars, historyVars
    <3>2. TcpLinkOK' /\ ReadsOK'
      BY <3>1 DEF TcpInv, TcpLinkOK, ReadsOK
    <3>3. PipeOK'
      BY <3>1 DEF TcpInv, PipeOK, OwnLast, HostCurrent, DeviceCurrent
    <3> QED BY <3>2, <3>3 DEF TcpInv
  <2> QED BY <2>1, <2>2, <2>3, <2>4, <2>5, <2>6 DEF Next
<1> QED BY <1>2, <1>3

\* Over TCP, for any callers and registers, a read that succeeds returns what all
\* writes sent before it leave in the register, while at most one answer was given
\* up: the late one can only be taken by a command it is true for.
THEOREM ReadsCorrect == Spec => []TcpReadIsCurrent
<1>1. TcpInv => TcpReadIsCurrent
  BY DEF TcpInv, ReadsOK, TcpReadIsCurrent
<1> QED BY <1>1, IInvInit, IInvStep, TcpInvInit, TcpInvStep, PTL DEF Spec
-----------------------------------------------------------------------------
(***************************************************************************)
(* The service                                                             *)
(***************************************************************************)
\* Commands in progress differ in their numbers, and one whose request the device has
\* not seen was not executed.
Numbers ==
    abandoned = 0 =>
        /\ applied \subseteq 0 .. started
        /\ \A t \in Threads : cmd[t].n <= started
        /\ \A t \in Threads : pc[t] # "idle" => \A u \in Threads \ {t} : cmd[u].n # cmd[t].n
        /\ \A t \in Threads : pc[t] = "transmit" => cmd[t].n \notin applied
        /\ toDevice # <<>> => cmd[mutex].n \notin applied

\* What is under way as long as nothing was abandoned.
LEMMA UnderWay ==
    ASSUME IInv, abandoned = 0
    PROVE  /\ mutex = Null => toDevice = <<>> /\ toHost = <<>>
           /\ toHost # <<>> => toDevice = <<>>
           /\ \A i \in DOMAIN toDevice : /\ i = 1 /\ Len(toDevice) = 1 /\ toHost = <<>>
                                         /\ toDevice[i] = cmd[mutex]
                                         /\ mutex \in Threads /\ pc[mutex] = "receive"
<1>1. /\ toDevice \in Seq(Requests) /\ toHost \in Seq(Answers)
      /\ Len(toDevice) \in Nat /\ Len(toHost) \in Nat
      /\ Len(toDevice) + Len(toHost) <= 1
      /\ mutex = Null => Len(toDevice) = 0 /\ Len(toHost) = 0
  BY FewUnderWay DEF IInv, TypeOK
<1>2. /\ Len(toDevice) = 0 <=> toDevice = <<>>
      /\ Len(toHost) = 0 <=> toHost = <<>>
  BY <1>1, EmptySeq
<1>3. ASSUME NEW i \in DOMAIN toDevice
      PROVE  /\ i = 1 /\ Len(toDevice) = 1 /\ toHost = <<>>
             /\ toDevice[i] = cmd[mutex] /\ mutex \in Threads /\ pc[mutex] = "receive"
  <2>1. i \in 1 .. Len(toDevice) /\ i = 1 /\ Len(toDevice) = 1 /\ Len(toHost) = 0
    <3>1. i \in 1 .. Len(toDevice)
      BY <1>1, LenProperties
    <3>2. \A n, m \in Nat : n + m <= 1 => \A j \in 1 .. n : j = 1 /\ n = 1 /\ m = 0
      OBVIOUS
    <3> QED BY <1>1, <3>1, <3>2, Zenon
  <2>2. toDevice[i] = cmd[mutex]
    BY <2>1 DEF IInv, FreshOK
  <2>3. mutex \in Threads /\ pc[mutex] = "receive"
    BY <1>1, <2>1 DEF IInv, TypeOK, ProgressOK
  <2> QED BY <1>2, <2>1, <2>2, <2>3
<1> QED BY <1>1, <1>2, <1>3

\* A failed attempt leaves the command as it was, or fails it.
LEMMA FailureKinds ==
    ASSUME IInv, NEW t \in Threads, NEW left \in Int, Unreachable(t, left),
           mutex = Null, pc[t] = "transmit"
    PROVE  UNCHANGED <<mutex, pc, result>> \/ Finish(t, Outcome("DeviceUnreachable"))
  BY DEF Unreachable, IInv, TypeOK

\* What a step of a command is that gives up no answer.
LEMMA CommandKinds ==
    ASSUME IInv, NEW t \in Threads, Command(t), abandoned' = 0
    PROVE  /\ abandoned = 0 /\ UNCHANGED <<cmd, started, reg, applied>>
           /\ \/ Send(t)
              \/ /\ pc[t] = "transmit" /\ mutex = Null /\ UNCHANGED toDevice
                 /\ toHost' \in {toHost, <<>>}
                 /\ \/ UNCHANGED <<mutex, pc, result>>
                    \/ \E s \in {"NotConnected", "DeviceUnreachable"} : Finish(t, Outcome(s))
              \/ Accept(t)
<1>0. abandoned \in Nat /\ attempts[t] \in Int
  <2>1. attempts[t] \in 0 .. 3
    BY DEF IInv, TypeOK
  <2> QED BY <2>1 DEF IInv, TypeOK
<1>1. CASE Send(t)
  BY <1>1 DEF Send, deviceVars
<1>2. CASE SendFails(t)
  <2>1. /\ Unreachable(t, attempts[t] - 1) /\ pc[t] = "transmit" /\ mutex = Null
        /\ abandoned = 0 /\ UNCHANGED <<cmd, started, reg, applied, toDevice>>
        /\ toHost' \in {toHost, <<>>}
    BY <1>2 DEF SendFails, CanTransmit, deviceVars, historyVars, Close
  <2>2. UNCHANGED <<mutex, pc, result>> \/ Finish(t, Outcome("DeviceUnreachable"))
    BY <1>0, <2>1, FailureKinds
  <2> QED BY <2>1, <2>2
<1>3. CASE SendRefused(t)
  BY <1>3 DEF SendRefused, CanTransmit, deviceVars, historyVars
<1>4. CASE Accept(t)
  BY <1>4 DEF Accept, deviceVars, historyVars
<1>5. CASE Mismatch(t)
  <2>1. abandoned = 0 /\ Waiting(t) /\ toHost # <<>> /\ ~Matches(cmd[t], Head(toHost))
    BY <1>5 DEF Mismatch, historyVars
  <2> QED BY <2>1, OwnAnswer
<1>6. CASE GiveUp(t) \/ GiveUpHalfway(t)
  <2>1. abandoned' = abandoned + 1
    BY <1>6 DEF GiveUp, GiveUpHalfway
  <2> QED BY <1>0, <2>1
<1> QED BY <1>1, <1>2, <1>3, <1>4, <1>5, <1>6 DEF Command

LEMMA NumbersStart ==
    ASSUME IInv, Numbers, NEW t \in Threads, NEW op, NEW a, NEW v, NEW tries,
           Start(t, op, a, v, tries)
    PROVE  Numbers'
<1> SUFFICES ASSUME abandoned = 0
             PROVE  /\ applied \subseteq 0 .. started'
                    /\ \A u \in Threads : cmd'[u].n <= started'
                    /\ \A u \in Threads :
                          pc'[u] # "idle" => \A w \in Threads \ {u} : cmd'[w].n # cmd'[u].n
                    /\ \A u \in Threads : pc'[u] = "transmit" => cmd'[u].n \notin applied
                    /\ toDevice # <<>> => cmd'[mutex].n \notin applied
  BY DEF Numbers, Start, historyVars, deviceVars
<1>1. /\ started \in Nat /\ started' = started + 1
      /\ cmd'[t].n = started + 1 /\ pc[t] = "idle" /\ pc'[t] = "transmit"
      /\ \A u \in Threads \ {t} : cmd'[u] = cmd[u] /\ pc'[u] = pc[u]
  BY DEF IInv, TypeOK, Start
<1>2. \A u \in Threads : cmd[u].n \in Nat /\ cmd[u].n <= started
  BY DEF Numbers, IInv, TypeOK, Requests, NoCommand
<1>3. applied \subseteq 0 .. started /\ started + 1 \notin applied
  BY <1>1 DEF Numbers
<1>4. toDevice # <<>> => mutex \in Threads \ {t} /\ cmd[mutex].n \notin applied
  <2>1. toDevice # <<>> => mutex # Null /\ mutex # t
    BY <1>1, UnderWay DEF IInv, ProgressOK
  <2> QED BY <2>1 DEF IInv, TypeOK, Numbers
<1>5. \A u \in Threads : cmd'[u].n <= started + 1
  BY <1>1, <1>2
<1>6. ASSUME NEW u \in Threads, pc'[u] # "idle", NEW w \in Threads \ {u}
      PROVE  cmd'[w].n # cmd'[u].n
  <2>1. CASE u # t /\ w # t
    BY <1>1, <1>6, <2>1 DEF Numbers
  <2>2. CASE u = t \/ w = t
    BY <1>1, <1>2, <1>6, <2>2
  <2> QED BY <2>1, <2>2
<1> QED BY <1>1, <1>3, <1>4, <1>5, <1>6 DEF Numbers

LEMMA NumbersCommand ==
    ASSUME IInv, Numbers, NEW t \in Threads, Command(t)
    PROVE  Numbers'
<1> SUFFICES ASSUME abandoned' = 0 PROVE Numbers'
  BY DEF Numbers
<1>1. abandoned = 0 /\ UNCHANGED <<cmd, started, applied>>
  BY CommandKinds
<1>2. CASE Send(t)
  <2>1. /\ pc[t] = "transmit" /\ pc' = [pc EXCEPT ![t] = "receive"] /\ mutex' = t
    BY <1>2 DEF Send, CanTransmit
  <2>2. \A u \in Threads : /\ pc'[u] # "idle" => pc[u] # "idle"
                           /\ pc'[u] = "transmit" => pc[u] = "transmit"
    BY <2>1 DEF IInv, TypeOK
  <2> QED BY <1>1, <2>1, <2>2 DEF Numbers
<1>3. CASE ~Send(t)
  <2>1. toDevice' = <<>>
    <3>1. CASE Accept(t)
      BY <1>1, <3>1, UnderWay DEF Accept
    <3>2. CASE ~Accept(t)
      BY <1>1, <1>3, <3>2, CommandKinds, UnderWay
    <3> QED BY <3>1, <3>2
  <2>2. \A u \in Threads : /\ pc'[u] # "idle" => pc[u] # "idle"
                           /\ pc'[u] = "transmit" => pc[u] = "transmit"
    BY <1>3, CommandKinds DEF Finish, Accept, IInv, TypeOK
  <2> QED BY <1>1, <2>1, <2>2 DEF Numbers
<1> QED BY <1>2, <1>3

\* What the network does as long as nothing was abandoned: it takes the one request
\* under way, that of the holder of the mutex.
LEMMA NetworkKinds ==
    ASSUME IInv, NEW i \in DOMAIN toDevice, Serve(i) \/ Lose(i), abandoned = 0
    PROVE  /\ mutex \in Threads /\ pc[mutex] = "receive" /\ toDevice[i] = cmd[mutex]
           /\ toDevice # <<>> /\ toDevice' = <<>> /\ toHost = <<>>
           /\ cmd[mutex] \in Requests
<1>1. /\ i = 1 /\ Len(toDevice) = 1 /\ toHost = <<>> /\ toDevice[i] = cmd[mutex]
      /\ mutex \in Threads /\ pc[mutex] = "receive" /\ toDevice \in Seq(Requests)
  BY UnderWay DEF IInv, TypeOK
<1>2. toDevice' = RemoveAt(toDevice, i)
  BY DEF Serve, Lose
<1>3. toDevice' \in Seq(Requests) /\ Len(toDevice') = 0
  <2>1. i \in 1 .. Len(toDevice)
    BY <1>1
  <2>2. RemoveAt(toDevice, i) \in Seq(Requests) /\ Len(RemoveAt(toDevice, i)) = Len(toDevice) - 1
    BY <1>1, <2>1, Removed, Zenon
  <2>3. Len(toDevice) - 1 = 0
    BY <1>1
  <2> QED BY <1>2, <2>2, <2>3, Zenon
<1>4. toDevice # <<>> /\ toDevice' = <<>>
  BY <1>1, <1>3, EmptySeq
<1>5. cmd[mutex] \in Requests
  BY <1>1 DEF IInv, ProgressOK
<1> QED BY <1>1, <1>4, <1>5

LEMMA NumbersNetwork ==
    ASSUME IInv, Numbers, NEW i \in DOMAIN toDevice, Serve(i) \/ Lose(i)
    PROVE  Numbers'
<1>0. UNCHANGED <<pc, cmd, started, mutex, abandoned>>
  BY DEF Serve, Lose, threadVars, historyVars
<1> SUFFICES ASSUME abandoned = 0 PROVE Numbers'
  BY <1>0 DEF Numbers
<1>1. /\ mutex \in Threads /\ pc[mutex] = "receive" /\ toDevice[i] = cmd[mutex]
      /\ toDevice # <<>> /\ toDevice' = <<>> /\ cmd[mutex] \in Requests
  BY NetworkKinds
<1>2. applied' \subseteq applied \cup {cmd[mutex].n}
  BY <1>1 DEF Serve, Lose, deviceVars
<1>3. \A u \in Threads : pc[u] = "transmit" => cmd[u].n # cmd[mutex].n
  <2>1. \A u \in Threads \ {mutex} : cmd[u].n # cmd[mutex].n
    BY <1>1 DEF Numbers
  <2> QED BY <1>1, <2>1
<1>4. cmd[mutex].n \in 0 .. started
  <2>1. cmd[mutex].n \in Nat /\ cmd[mutex].n <= started /\ started \in Nat
    BY <1>1 DEF IInv, Numbers, TypeOK, Requests
  <2> QED BY <2>1
<1> QED BY <1>0, <1>1, <1>2, <1>3, <1>4 DEF Numbers

LEMMA NumbersInit == Init => Numbers
  BY DEF Init, Numbers, NoCommand

LEMMA NumbersStep ==
    ASSUME IInv, Numbers, [Next]_vars
    PROVE  Numbers'
<1>1. ASSUME NEW t \in Callers, StartRead(t) \/ StartWrite(t) PROVE Numbers'
  BY <1>1, NumbersStart DEF StartRead, StartWrite, Threads
<1>2. CASE StartProbe
  BY <1>2, NumbersStart DEF StartProbe, Threads
<1>3. CASE RetrReqFails \/ DetectLoss \/ UNCHANGED vars
  <2>1. UNCHANGED <<pc, cmd, started, mutex, toDevice, applied, abandoned>>
    BY <1>3 DEF RetrReqFails, DetectLoss, vars, threadVars, deviceVars, historyVars
  <2> QED BY <2>1 DEF Numbers
<1> QED BY <1>1, <1>2, <1>3, NumbersCommand, NumbersNetwork DEF Next

LEMMA ServiceInit == Init => Service!Init
<1> SUFFICES ASSUME Init PROVE Service!Init
  OBVIOUS
<1>1. /\ calls = [t \in Threads |-> Service!NoCall]
      /\ replies = [t \in Threads |-> Service!NoReply]
      /\ outcomes = [t \in Threads |-> Service!NoReply]
  BY DEF Init, calls, replies, outcomes, Asked, Told, NoCommand, NoResult,
         Service!NoCall, Service!NoReply
<1> QED BY <1>1 DEF Init, Service!Init

\* A command begins.
LEMMA ServiceStart ==
    ASSUME IInv, NEW t \in Threads, NEW op, NEW a, NEW v, NEW tries, Start(t, op, a, v, tries),
           [op |-> op, addr |-> a, val |-> v] \in Service!Calls
    PROVE  Service!Begin(t)
<1> DEFINE c == [op |-> op, addr |-> a, val |-> v]
<1>1. /\ pc[t] = "idle" /\ pc' = [pc EXCEPT ![t] = "transmit"]
      /\ cmd' = [cmd EXCEPT ![t] = [op |-> op, addr |-> a, val |-> v, n |-> started + 1]]
      /\ result' = [result EXCEPT ![t] = NoResult]
      /\ UNCHANGED <<reg, toHost, applied, abandoned>>
      /\ pc \in [Threads -> {"idle", "transmit", "receive"}]
      /\ DOMAIN cmd = Threads /\ DOMAIN result = Threads
  BY DEF Start, IInv, TypeOK, deviceVars, historyVars
<1>2. calls[t] = Service!NoCall /\ calls' = [calls EXCEPT ![t] = c]
  BY <1>1 DEF calls, Asked, NoCommand, Service!NoCall, IInv, TypeOK
<1>3. outcomes' = [outcomes EXCEPT ![t] = Service!NoReply]
  BY <1>1 DEF outcomes, Told, NoResult, Service!NoReply, IInv, TypeOK
<1>4. replies' = replies
  BY <1>1 DEF replies, IInv, TypeOK
<1> QED BY <1>1, <1>2, <1>3, <1>4 DEF Service!Begin

\* A command returns.
LEMMA ServiceReturn ==
    ASSUME IInv, NEW t \in Threads, NEW r, Finish(t, r),
           UNCHANGED <<cmd, reg, applied, abandoned>>,
           \A u \in Threads \ {t} : pc[u] # "receive"
    PROVE  Service!Return(t, Told(r.status, r.val))
<1>1. /\ pc' = [pc EXCEPT ![t] = "idle"] /\ result' = [result EXCEPT ![t] = r]
      /\ pc \in [Threads -> {"idle", "transmit", "receive"}]
      /\ DOMAIN result = Threads
  BY DEF Finish, IInv, TypeOK
<1>2. calls' = [calls EXCEPT ![t] = Service!NoCall]
  BY <1>1 DEF calls, Asked, NoCommand, Service!NoCall
<1>3. outcomes' = [outcomes EXCEPT ![t] = Told(r.status, r.val)]
  BY <1>1 DEF outcomes, Told, IInv, TypeOK
<1>4. replies' = [replies EXCEPT ![t] = Service!NoReply]
  <2>1. /\ \A u \in Threads : pc'[u] # "receive"
        /\ \A u \in Threads \ {t} : pc[u] # "receive"
    BY <1>1
  <2>2. replies' = [u \in Threads |-> Told("none", Null)]
    BY <2>1 DEF replies
  <2>3. /\ DOMAIN replies = Threads
        /\ \A u \in Threads \ {t} : replies[u] = Told("none", Null)
    BY <2>1 DEF replies
  <2>4. Service!NoReply = Told("none", Null)
    BY DEF Service!NoReply, Told
  <2>5. replies = [u \in Threads |-> replies[u]]
    BY DEF replies
  <2> QED BY <2>2, <2>3, <2>4, <2>5
<1> QED BY <1>2, <1>3, <1>4 DEF Service!Return

\* A step of a command that gives up no answer.
LEMMA ServiceCommand ==
    ASSUME IInv, Numbers, NEW t \in Threads, Command(t), abandoned' = 0
    PROVE  Service!Succeed(t) \/ Service!Fail(t) \/ UNCHANGED Service!vars
<1>1. abandoned = 0 /\ UNCHANGED <<cmd, reg, applied, abandoned>>
  BY CommandKinds
<1>2. CASE Send(t)
  <2>1. /\ pc[t] = "transmit" /\ mutex = Null /\ pc' = [pc EXCEPT ![t] = "receive"]
        /\ toHost' = toHost /\ result' = result
        /\ pc \in [Threads -> {"idle", "transmit", "receive"}]
    BY <1>2 DEF Send, CanTransmit, IInv, TypeOK
  <2>2. toHost = <<>> /\ cmd[t].n \notin applied
    BY <1>1, <2>1, UnderWay DEF Numbers
  <2>3. calls' = calls
    BY <1>1, <2>1 DEF calls
  <2>4. replies' = replies
    BY <1>1, <2>1, <2>2 DEF replies
  <2>5. outcomes' = outcomes
    BY <2>1 DEF outcomes
  <2> QED BY <1>1, <2>3, <2>4, <2>5 DEF Service!vars
<1>3. CASE Accept(t)
  <2> DEFINE answer == Head(toHost)
             r == [status |-> IF answer.refused THEN "IllegalOperation" ELSE "Ok",
                   val |-> answer.val, answered |-> answer.n]
  <2>1. Finish(t, r) /\ pc[t] = "receive" /\ mutex = t /\ toHost # <<>>
    BY <1>3 DEF Accept, Waiting
  <2>2. \A u \in Threads \ {t} : pc[u] # "receive"
    BY <2>1 DEF IInv, ProgressOK
  <2>3. replies[t] = Told(r.status, r.val)
    BY <2>1 DEF replies, ReadOff
  <2>4. replies[t] # Service!NoReply
    BY <2>3 DEF Told, Service!NoReply
  <2> HIDE DEF answer, r
  <2>5. Service!Return(t, replies[t])
    BY <1>1, <2>1, <2>2, <2>3, ServiceReturn
  <2> QED BY <2>4, <2>5 DEF Service!Succeed
<1>4. CASE ~Send(t) /\ ~Accept(t)
  <2>1. /\ pc[t] = "transmit" /\ mutex = Null
        /\ \/ UNCHANGED <<mutex, pc, result>>
           \/ \E s \in {"NotConnected", "DeviceUnreachable"} : Finish(t, Outcome(s))
    BY <1>4, CommandKinds
  <2>2. \A u \in Threads : pc[u] # "receive"
    BY <2>1, ControlAssumption DEF IInv, ProgressOK
  <2>3. CASE UNCHANGED <<mutex, pc, result>>
    <3>1. calls' = calls /\ outcomes' = outcomes
      BY <1>1, <2>3 DEF calls, outcomes
    <3>2. replies' = replies
      BY <2>2, <2>3 DEF replies
    <3> QED BY <1>1, <3>1, <3>2 DEF Service!vars
  <2>4. ASSUME NEW s \in {"NotConnected", "DeviceUnreachable"}, Finish(t, Outcome(s))
        PROVE  Service!Fail(t)
    <3>1. Service!Return(t, Told(Outcome(s).status, Outcome(s).val))
      BY <1>1, <2>2, <2>4, ServiceReturn
    <3>2. Told(Outcome(s).status, Outcome(s).val) = [status |-> s, val |-> Null]
      BY DEF Told, Outcome
    <3>3. replies[t] = Service!NoReply
      BY <2>2 DEF replies, Told, Service!NoReply
    <3>4. calls[t] # Service!NoCall
      <4>1. cmd[t] \in Requests
        BY <2>1 DEF IInv, ProgressOK
      <4>2. cmd[t].op # "none"
        BY <4>1 DEF Requests
      <4> QED BY <2>1, <4>2 DEF calls, Asked, Service!NoCall
    <3> QED BY <3>1, <3>2, <3>3, <3>4 DEF Service!Fail
  <2> QED BY <2>1, <2>3, <2>4
<1> QED BY <1>2, <1>3, <1>4

\* The device executes the command, or something is lost on the way.
LEMMA ServiceNetwork ==
    ASSUME IInv, Numbers, NEW i \in DOMAIN toDevice, Serve(i) \/ Lose(i), abandoned = 0
    PROVE  Service!Execute(mutex) \/ UNCHANGED Service!vars
<1> DEFINE t == mutex
           c == cmd[t]
<1>1. /\ t \in Threads /\ pc[t] = "receive" /\ toDevice[i] = c /\ toDevice # <<>>
      /\ toDevice' = <<>> /\ toHost = <<>> /\ c \in Requests
  BY NetworkKinds
<1>2. UNCHANGED <<pc, cmd, result, abandoned>>
  BY DEF Serve, Lose, threadVars, historyVars
<1>3. calls' = calls /\ outcomes' = outcomes
  BY <1>2 DEF calls, outcomes
<1>4. c.n \notin applied
  BY <1>1 DEF Numbers
<1>5. \A u \in Threads \ {t} : pc[u] # "receive"
  BY <1>1 DEF IInv, ProgressOK
<1>6. /\ replies[t] = Service!NoReply
      /\ replies = [u \in Threads |-> Service!NoReply]
  BY <1>1, <1>4, <1>5 DEF replies, Told, Service!NoReply
<1>7. CASE Lose(i)
  <2>1. toHost' = toHost /\ applied' = applied /\ reg' = reg
    BY <1>7 DEF Lose, deviceVars
  <2>2. replies' = replies
    BY <1>2, <2>1 DEF replies
  <2> QED BY <1>2, <1>3, <2>1, <2>2 DEF Service!vars
<1>8. CASE Serve(i)
  <2> DEFINE done == c.op = "write" /\ c.addr \notin Refused
  <2>1. /\ reg' = IF done THEN [reg EXCEPT ![c.addr] = c.val] ELSE reg
        /\ applied' = IF done THEN applied \cup {c.n} ELSE applied
        /\ toHost' = Append(toHost, Answer(c)) \/ toHost' = toHost
    BY <1>1, <1>8 DEF Serve
  <2>2. /\ calls[t] = [op |-> c.op, addr |-> c.addr, val |-> c.val]
        /\ calls[t] # Service!NoCall
    BY <1>1 DEF calls, Asked, Service!NoCall, Requests
  <2>3. CASE toHost' = Append(toHost, Answer(c))
    <3>1. toHost' # <<>> /\ Head(toHost') = Answer(c)
      <4>1. toHost' = <<Answer(c)>>
        BY <1>1, <2>3
      <4> QED BY <4>1
    <3>2. ReadOff(Answer(c)) = Service!ReplyTo(calls[t])
      <4>1. /\ Answer(c).refused = (c.addr \in Refused)
            /\ Answer(c).val = IF c.op = "read" /\ c.addr \notin Refused THEN reg[c.addr] ELSE Null
        BY DEF Answer
      <4>2. /\ calls[t].op = c.op /\ calls[t].addr = c.addr
        BY <2>2
      <4> HIDE DEF c, t
      <4>3. CASE c.addr \in Refused
        BY <4>1, <4>2, <4>3 DEF ReadOff, Told, Service!ReplyTo
      <4>4. CASE c.addr \notin Refused
        BY <4>1, <4>2, <4>4 DEF ReadOff, Told, Service!ReplyTo
      <4> QED BY <4>3, <4>4
    <3>3. replies' = [replies EXCEPT ![t] = Service!ReplyTo(calls[t])]
      <4>1. replies' = [u \in Threads |-> IF u = t THEN ReadOff(Answer(c)) ELSE Service!NoReply]
        BY <1>1, <1>2, <1>5, <3>1 DEF replies, Told, Service!NoReply
      <4> QED BY <1>1, <1>6, <3>2, <4>1
    <3>4. Service!Execute(t)
      BY <1>1, <1>2, <1>3, <1>6, <2>1, <2>2, <3>3 DEF Service!Execute
    <3> QED BY <3>4
  <2>4. CASE toHost' = toHost /\ done
    <3>1. Service!ReplyTo(calls[t]) = Told("Ok", Null)
      BY <2>2, <2>4 DEF Service!ReplyTo, Told
    <3>2. replies' = [replies EXCEPT ![t] = Service!ReplyTo(calls[t])]
      <4>1. replies' = [u \in Threads |-> IF u = t THEN Told("Ok", Null) ELSE Service!NoReply]
        BY <1>1, <1>2, <1>5, <2>1, <2>4 DEF replies, Told, Service!NoReply
      <4> QED BY <1>1, <1>6, <3>1, <4>1
    <3>3. Service!Execute(t)
      BY <1>1, <1>2, <1>3, <1>6, <2>1, <2>2, <3>2 DEF Service!Execute
    <3> QED BY <3>3
  <2>5. CASE toHost' = toHost /\ ~done
    <3>1. applied' = applied /\ reg' = reg
      BY <2>1, <2>5
    <3>2. replies' = replies
      BY <1>2, <2>5, <3>1 DEF replies
    <3> QED BY <1>2, <1>3, <3>1, <3>2 DEF Service!vars
  <2> QED BY <2>1, <2>3, <2>4, <2>5
<1> QED BY <1>7, <1>8

\* While answers are given up, registers change one by one, and none that is refused.
LEMMA ServiceAstray ==
    ASSUME IInv, [Next]_vars, abandoned' # 0
    PROVE  Service!GoAstray
<1>1. (abandoned # 0)' = TRUE
  OBVIOUS
<1>2. reg' = reg \/ \E a \in Addr \ Refused, v \in Value : reg' = [reg EXCEPT ![a] = v]
  <2>1. ASSUME NEW i \in DOMAIN toDevice, Serve(i)
        PROVE  reg' = reg \/ \E a \in Addr \ Refused, v \in Value : reg' = [reg EXCEPT ![a] = v]
    <3> DEFINE r == toDevice[i]
    <3>1. r \in Requests
      BY ElementOfSeq, LenProperties DEF IInv, TypeOK
    <3>2. r.op = "write" => r.addr \in Addr /\ r.val \in Value
      BY <3>1 DEF Requests
    <3> QED BY <2>1, <3>2 DEF Serve
  <2>2. ASSUME NEW i \in DOMAIN toDevice, Lose(i) PROVE reg' = reg
    BY <2>2 DEF Lose, deviceVars
  <2>3. ASSUME NEW t \in Threads, Command(t) PROVE reg' = reg
    BY <2>3 DEF Command, Send, SendFails, SendRefused, Accept, Mismatch, GiveUp, GiveUpHalfway,
                deviceVars
  <2>4. CASE RetrReqFails \/ DetectLoss \/ UNCHANGED vars
    BY <2>4 DEF RetrReqFails, DetectLoss, vars, deviceVars
  <2>5. ASSUME NEW t \in Callers, StartRead(t) \/ StartWrite(t) PROVE reg' = reg
    BY <2>5 DEF StartRead, StartWrite, Start, deviceVars
  <2>6. CASE StartProbe
    BY <2>6 DEF StartProbe, Start, deviceVars
  <2> QED BY <2>1, <2>2, <2>3, <2>4, <2>5, <2>6 DEF Next
<1> QED BY <1>1, <1>2 DEF Service!GoAstray

LEMMA ServiceStep ==
    ASSUME IInv, Numbers, [Next]_vars
    PROVE  [Service!Next]_(Service!vars)
<1>1. CASE abandoned' # 0
  BY <1>1, ServiceAstray DEF Service!Next
<1>2. CASE abandoned' = 0
  <2>1. ASSUME NEW t \in Callers, StartRead(t) PROVE Service!Begin(t) /\ t \in Threads
    <3>1. PICK a \in Addr : Start(t, "read", a, Null, Attempts)
      BY <2>1 DEF StartRead
    <3>2. [op |-> "read", addr |-> a, val |-> Null] \in Service!Calls
      BY DEF Service!Calls
    <3> QED BY <3>1, <3>2, ServiceStart DEF Threads
  <2>2. ASSUME NEW t \in Callers, StartWrite(t) PROVE Service!Begin(t) /\ t \in Threads
    <3>1. PICK a \in Addr, v \in Value : Start(t, "write", a, v, Attempts)
      BY <2>2 DEF StartWrite
    <3>2. [op |-> "write", addr |-> a, val |-> v] \in Service!Calls
      BY DEF Service!Calls
    <3> QED BY <3>1, <3>2, ServiceStart DEF Threads
  <2>3. CASE StartProbe
    <3>1. Start(Monitor, "keepAlive", Null, Null, 1) /\ Monitor \in Threads
      BY <2>3 DEF StartProbe, Threads
    <3>2. [op |-> "keepAlive", addr |-> Null, val |-> Null] \in Service!Calls
      BY DEF Service!Calls
    <3>3. Service!Begin(Monitor)
      BY <3>1, <3>2, ServiceStart
    <3> QED BY <3>1, <3>3 DEF Service!Next
  <2>4. ASSUME NEW t \in Threads, Command(t)
        PROVE  Service!Succeed(t) \/ Service!Fail(t) \/ UNCHANGED Service!vars
    BY <1>2, <2>4, ServiceCommand
  <2>5. ASSUME NEW i \in DOMAIN toDevice, Serve(i) \/ Lose(i)
        PROVE  (mutex \in Threads /\ Service!Execute(mutex)) \/ UNCHANGED Service!vars
    <3>1. abandoned = 0
      BY <1>2, <2>5 DEF Serve, Lose, historyVars
    <3> QED BY <2>5, <3>1, ServiceNetwork, NetworkKinds
  <2>6. CASE RetrReqFails \/ DetectLoss
    <3>1. /\ UNCHANGED <<pc, cmd, result, reg, applied, abandoned>> /\ mutex = Null
      BY <2>6 DEF RetrReqFails, DetectLoss, threadVars, deviceVars, historyVars
    <3>2. \A u \in Threads : pc[u] # "receive"
      BY <3>1, ControlAssumption DEF IInv, ProgressOK
    <3>3. calls' = calls /\ outcomes' = outcomes /\ replies' = replies
      BY <3>1, <3>2 DEF calls, outcomes, replies
    <3> QED BY <3>1, <3>3 DEF Service!vars
  <2>7. CASE UNCHANGED vars
    <3>1. UNCHANGED <<pc, cmd, result, reg, toHost, applied, abandoned>>
      BY <2>7 DEF vars, threadVars, deviceVars, historyVars
    <3>2. calls' = calls /\ outcomes' = outcomes /\ replies' = replies
      BY <3>1 DEF calls, outcomes, replies
    <3> QED BY <3>1, <3>2 DEF Service!vars
  <2> QED BY <2>1, <2>2, <2>3, <2>4, <2>5, <2>6, <2>7 DEF Next, Service!Next
<1> QED BY <1>1, <1>2

\* The control connection implements RegisterService: until an answer is given up,
\* each command of each thread takes effect at one moment between its call and its
\* return, or fails without effect.
THEOREM Refinement == Spec => ImplementsService
<1>1. IInv /\ Numbers /\ [Next]_vars => Numbers'
  BY NumbersStep
<1>2. IInv /\ Numbers /\ [Next]_vars => [Service!Next]_(Service!vars)
  BY ServiceStep
<1> QED BY <1>1, <1>2, NumbersInit, ServiceInit, IInvInit, IInvStep, PTL
        DEF Spec, ImplementsService, Service!Spec

=============================================================================
