------------------------------ MODULE EthControl ------------------------------
(***************************************************************************)
(* Commands and answers on an established Ethernet control connection      *)
(* (sdk/bta_eth.c: readRegister, BTAETHwriteRegister, sendKeepAliveMsg,    *)
(* sendRetrReq, transmit_2, receiveControlResponse_2, receive, and what    *)
(* the connection monitor does when answers stay away).                    *)
(*                                                                         *)
(* API callers and the connection monitor share the connection.  One       *)
(* attempt of a command, transmission and answer, happens with             *)
(* controlMutex held; between two attempts others may come in.  An answer  *)
(* is taken for the one awaited if it repeats the request's command and    *)
(* register address: nothing tells two requests for one register apart.    *)
(*                                                                         *)
(* The connection is followed until the monitor or a failure cuts it (TCP) *)
(* or for ever (UDP); opening and reconnecting are not part of this.       *)
(* UDP loses and reorders requests and loses answers, TCP delivers in      *)
(* order while its socket is open.  The device is external.                *)
(***************************************************************************)
EXTENDS Integers, Sequences, SequencesExt

CONSTANTS Callers, Monitor,  \* threads calling the API; the connection monitor
          Addr, Value,       \* register addresses and contents
          Refused,           \* addresses the device answers with an error
          MaxCommands,       \* bounds of the commands issued in the model, by transport
          Null

Threads    == Callers \cup {Monitor}
Transports == {"udp", "tcp"}
LostAfter  == 2              \* failcount at which the monitor declares a loss

ASSUME ControlAssumption == /\ MaxCommands \in [Transports -> Nat]
                            /\ Refused \subseteq Addr
                            /\ Value # {} /\ Monitor \notin Callers
                            /\ Null \notin Threads \cup Addr \cup Value

VARIABLES
    transport,   \* "udp" or "tcp": the one control connection that is not deactivated
    link,        \* its state, whether its socket is open, keepAliveInst->failcount
    mutex,       \* who holds controlMutex
    pc,          \* "idle", "transmit" or "receive"
    cmd,         \* the command in progress or the last one; n numbers the commands
    attempts,    \* attempts left
    result,      \* the last outcome; answered is the command whose answer was taken
    started,     \* commands issued so far
    toDevice,    \* requests under way
    toHost,      \* answers the host has not read yet
    reg,         \* the registers in the device
    applied,     \* history: the write commands the device has executed
    abandoned,   \* history: transmitted requests whose answer was given up
    intended,    \* history: what the registers hold once all writes sent are executed
    expected     \* history: what that was when a thread sent its read

threadVars  == <<mutex, pc, cmd, attempts, result, started>>
deviceVars  == <<reg, applied>>
historyVars == <<abandoned, intended, expected>>
vars == <<transport, link, threadVars, toDevice, toHost, deviceVars, historyVars>>

Requests == [op : {"read"}, addr : Addr, val : {Null}, n : Nat]
              \cup [op : {"write"}, addr : Addr, val : Value, n : Nat]
              \cup [op : {"keepAlive"}, addr : {Null}, val : {Null}, n : Nat]
Answers  == [op : {"read", "write", "keepAlive"}, addr : Addr \cup {Null},
             val : Value \cup {Null}, n : Nat, refused : BOOLEAN]
NoCommand == [op |-> "none", addr |-> Null, val |-> Null, n |-> 0]
NoResult  == [status |-> "none", val |-> Null, answered |-> 0]

\* BTAETHopen has succeeded: connected, nothing under way.
Init ==
    /\ transport \in Transports
    /\ link = [state |-> "Connected", socket |-> TRUE, fails |-> 0]
    /\ mutex = Null
    /\ pc = [t \in Threads |-> "idle"]
    /\ cmd = [t \in Threads |-> NoCommand]
    /\ attempts = [t \in Threads |-> 0]
    /\ result = [t \in Threads |-> NoResult]
    /\ started = 0
    /\ toDevice = <<>> /\ toHost = <<>>
    /\ reg \in [Addr -> Value]
    /\ applied = {} /\ abandoned = 0
    /\ intended = reg
    /\ expected = [t \in Threads |-> Null]

-----------------------------------------------------------------------------
(***************************************************************************)
(* What failures and answers do to the connection's state.  failcount      *)
(* saturates here where its value stops mattering.                         *)
(***************************************************************************)
Failed(l) == [l EXCEPT !.fails = IF @ < LostAfter THEN @ + 1 ELSE @]

Dropped(l) == [l EXCEPT !.state = IF @ = "Connected" THEN "Reconnecting" ELSE @]

\* A failed TCP connection is closed.
Cut(l) == [Dropped(l) EXCEPT !.socket = FALSE]

\* Something was received.
Heard(l) == [l EXCEPT !.state = "Connected", !.fails = 0]

\* transmit and receive serve UDP while it is reconnecting, TCP only while connected.
Active == \/ transport = "udp" /\ link.state \in {"Connected", "Reconnecting"}
          \/ transport = "tcp" /\ link.state = "Connected"

\* The outcomes of a transmission that does not succeed.
SendFailures ==
    IF transport = "udp" THEN {link, Failed(link), Dropped(Failed(link))}
                         ELSE {Failed(link), Cut(Failed(link))}

\* The outcomes of waiting for an answer in vain.
ReceiveFailures ==
    IF transport = "udp" THEN {Failed(link), Dropped(Failed(link))}
                         ELSE {Failed(link), Cut(Failed(link))}

\* Answers not read are gone with the socket.
Close(l) == toHost' = IF l.socket THEN toHost ELSE <<>>

-----------------------------------------------------------------------------
(***************************************************************************)
(* A command from its start to its return                                  *)
(***************************************************************************)
Start(t, op, a, v, tries) ==
    /\ pc[t] = "idle" /\ started < MaxCommands[transport]
    /\ started' = started + 1
    /\ cmd' = [cmd EXCEPT ![t] = [op |-> op, addr |-> a, val |-> v, n |-> started + 1]]
    /\ attempts' = [attempts EXCEPT ![t] = tries]
    /\ result' = [result EXCEPT ![t] = NoResult]
    /\ pc' = [pc EXCEPT ![t] = "transmit"]
    /\ UNCHANGED <<transport, link, mutex, toDevice, toHost, deviceVars, historyVars>>

\* The number of attempts is chosen once, without the mutex.
Attempts == IF transport = "tcp" /\ link.state = "Connected" THEN 1 ELSE 3

StartRead(t)  == \E a \in Addr : Start(t, "read", a, Null, Attempts)
StartWrite(t) == \E a \in Addr, v \in Value : Start(t, "write", a, v, Attempts)

\* The monitor probes from time to time while it believes in the connection.
StartProbe == Active /\ Start(Monitor, "keepAlive", Null, Null, 1)

Finish(t, r) == /\ mutex' = Null
                /\ pc' = [pc EXCEPT ![t] = "idle"]
                /\ result' = [result EXCEPT ![t] = r]

Outcome(status) == [status |-> status, val |-> Null, answered |-> 0]

\* The device could not be reached: unlock, then try again or give up.
Unreachable(t, left) ==
    IF left > 0
    THEN mutex' = Null /\ pc' = [pc EXCEPT ![t] = "transmit"] /\ UNCHANGED result
    ELSE Finish(t, Outcome("DeviceUnreachable"))

\* (A transmission that does not wait for the mutex.)
CanTransmitUnlocked(t) == pc[t] = "transmit"

CanTransmit(t) == pc[t] = "transmit" /\ mutex = Null

Send(t) ==
    /\ CanTransmit(t) /\ Active
    /\ attempts' = [attempts EXCEPT ![t] = @ - 1]
    /\ mutex' = t
    /\ pc' = [pc EXCEPT ![t] = "receive"]
    /\ toDevice' = Append(toDevice, cmd[t])
    /\ intended' = IF cmd[t].op = "write" /\ cmd[t].addr \notin Refused
                   THEN [intended EXCEPT ![cmd[t].addr] = cmd[t].val] ELSE intended
    /\ expected' = IF cmd[t].op = "read" /\ cmd[t].addr \notin Refused
                   THEN [expected EXCEPT ![t] = intended[cmd[t].addr]] ELSE expected
    /\ UNCHANGED <<transport, link, cmd, result, started, toHost, deviceVars, abandoned>>

\* (A request that is out already when its transmission counts as failed.)
SendFailsLate(t) ==
    /\ CanTransmit(t) /\ Active
    /\ attempts' = [attempts EXCEPT ![t] = @ - 1]
    /\ \E l \in SendFailures : link' = l /\ Close(l)
    /\ toDevice' = Append(toDevice, cmd[t])
    /\ Unreachable(t, attempts[t] - 1)
    /\ UNCHANGED <<transport, cmd, started, deviceVars, historyVars>>

SendFails(t) ==
    /\ CanTransmit(t) /\ Active
    /\ attempts' = [attempts EXCEPT ![t] = @ - 1]
    /\ \E l \in SendFailures : link' = l /\ Close(l)
    /\ Unreachable(t, attempts[t] - 1)
    /\ UNCHANGED <<transport, cmd, started, toDevice, deviceVars, historyVars>>

SendRefused(t) ==
    /\ CanTransmit(t) /\ ~Active
    /\ Finish(t, Outcome("NotConnected"))
    /\ UNCHANGED <<transport, link, cmd, attempts, started, toDevice, toHost,
                   deviceVars, historyVars>>

\* (The command is not compared.)
MatchesAddress(request, answer) == answer.addr = request.addr

\* Neither bytes of the value written nor anything else identifies the request.
Matches(request, answer) == answer.op = request.op /\ answer.addr = request.addr

Waiting(t) == pc[t] = "receive" /\ mutex = t

\* The answer read is taken for the one awaited.
Accept(t) ==
    /\ Waiting(t) /\ toHost # <<>>
    /\ Matches(cmd[t], Head(toHost))
    /\ LET answer == Head(toHost)
       IN  Finish(t, [status |-> IF answer.refused THEN "IllegalOperation" ELSE "Ok",
                      val |-> answer.val, answered |-> answer.n])
    /\ link' = Heard(link)
    /\ toHost' = Tail(toHost)
    /\ UNCHANGED <<transport, cmd, attempts, started, toDevice, deviceVars, historyVars>>

\* Another answer ends a command over UDP, and is skipped over TCP.
Mismatch(t) ==
    /\ Waiting(t) /\ toHost # <<>>
    /\ ~Matches(cmd[t], Head(toHost))
    /\ \/ transport = "udp" /\ Finish(t, Outcome("RuntimeError"))
       \/ transport = "tcp" /\ UNCHANGED <<mutex, pc, result>>
    /\ link' = Heard(link)
    /\ toHost' = Tail(toHost)
    /\ UNCHANGED <<transport, cmd, attempts, started, toDevice, deviceVars, historyVars>>

\* No answer: time-out, or select or recv fails.
GiveUp(t) ==
    /\ Waiting(t)
    /\ \E l \in ReceiveFailures : link' = l /\ Close(l)
    /\ abandoned' = abandoned + 1
    /\ Unreachable(t, attempts[t])
    /\ UNCHANGED <<transport, cmd, attempts, started, toDevice, deviceVars, intended, expected>>

\* Over TCP an answer may arrive in parts; without its rest it is lost to everyone.
GiveUpHalfway(t) ==
    /\ Waiting(t) /\ transport = "tcp" /\ toHost # <<>>
    /\ \/ link' = Failed(Heard(link)) /\ toHost' = Tail(toHost)
       \/ link' = Cut(Failed(Heard(link))) /\ toHost' = <<>>
    /\ abandoned' = abandoned + 1
    /\ Unreachable(t, attempts[t])
    /\ UNCHANGED <<transport, cmd, attempts, started, toDevice, deviceVars, intended, expected>>

-----------------------------------------------------------------------------
\* A retransmission request is transmitted and never answered.
RetrReqFails ==
    /\ mutex = Null /\ Active
    /\ \E l \in SendFailures : link' = l /\ Close(l)
    /\ UNCHANGED <<transport, threadVars, toDevice, deviceVars, historyVars>>

\* The monitor, between its probes, after too many failures.
DetectLoss ==
    /\ pc[Monitor] = "idle" /\ mutex = Null
    /\ link.fails >= LostAfter /\ link.state = "Connected"
    /\ LET l == IF transport = "udp" THEN Dropped(link) ELSE Cut(link)
       IN  link' = l /\ Close(l)
    /\ UNCHANGED <<transport, threadVars, toDevice, deviceVars, historyVars>>

-----------------------------------------------------------------------------
(***************************************************************************)
(* The network and the device                                              *)
(***************************************************************************)
Lossy == transport = "udp" \/ ~link.socket

Answer(r) == [op |-> r.op, addr |-> r.addr, n |-> r.n, refused |-> r.addr \in Refused,
              val |-> IF r.op = "read" /\ r.addr \notin Refused THEN reg[r.addr] ELSE Null]

\* The device executes a request; its answer arrives or is lost.
Serve(i) ==
    LET r == toDevice[i]
        done == r.op = "write" /\ r.addr \notin Refused
    IN  /\ i = 1 \/ transport = "udp"
        /\ toDevice' = RemoveAt(toDevice, i)
        /\ reg' = IF done THEN [reg EXCEPT ![r.addr] = r.val] ELSE reg
        /\ applied' = IF done THEN applied \cup {r.n} ELSE applied
        /\ \/ link.socket /\ toHost' = Append(toHost, Answer(r))
           \/ Lossy /\ UNCHANGED toHost
        /\ UNCHANGED <<transport, link, threadVars, historyVars>>

Lose(i) ==
    /\ Lossy
    /\ toDevice' = RemoveAt(toDevice, i)
    /\ UNCHANGED <<transport, link, threadVars, toHost, deviceVars, historyVars>>

-----------------------------------------------------------------------------
Command(t) == \/ Send(t) \/ SendFails(t) \/ SendRefused(t)
              \/ Accept(t) \/ Mismatch(t) \/ GiveUp(t) \/ GiveUpHalfway(t)

Next == \/ \E t \in Callers : StartRead(t) \/ StartWrite(t)
        \/ StartProbe
        \/ \E t \in Threads : Command(t)
        \/ RetrReqFails \/ DetectLoss
        \/ \E i \in DOMAIN toDevice : Serve(i) \/ Lose(i)

Spec == Init /\ [][Next]_vars

-----------------------------------------------------------------------------
TypeOK ==
    /\ transport \in Transports
    /\ link \in [state : {"Connected", "Reconnecting"}, socket : BOOLEAN, fails : 0 .. LostAfter]
    /\ mutex \in Threads \cup {Null}
    /\ pc \in [Threads -> {"idle", "transmit", "receive"}]
    /\ cmd \in [Threads -> Requests \cup {NoCommand}]
    /\ attempts \in [Threads -> 0 .. 3]
    /\ result \in [Threads -> [status : {"none", "Ok", "IllegalOperation", "NotConnected",
                                         "DeviceUnreachable", "RuntimeError"},
                               val : Value \cup {Null}, answered : Nat]]
    /\ started \in Nat
    /\ toDevice \in Seq(Requests) /\ toHost \in Seq(Answers)
    /\ reg \in [Addr -> Value] /\ applied \subseteq Nat
    /\ abandoned \in Nat
    /\ intended \in [Addr -> Value]
    /\ expected \in [Threads -> Value \cup {Null}]

\* As long as no answer was given up, a command that succeeds has taken its own
\* answer, a write that succeeds was executed, and none fails over a foreign
\* answer, whatever the interleaving of callers, probes and the network.
ExactUntilAbandoned ==
    abandoned = 0 =>
        \A t \in Threads :
            /\ result[t].status = "Ok" => /\ result[t].answered = cmd[t].n
                                          /\ cmd[t].op = "write" => cmd[t].n \in applied
            /\ result[t].status # "RuntimeError"

\* A request or answer under way that nobody waits for was given up before:
\* the connection is out of step by no more than what was abandoned.
StraysWereAbandoned ==
    Len(toDevice) + Len(toHost) <= abandoned + (IF mutex = Null THEN 0 ELSE 1)

\* Over TCP a read that succeeds returns what the register holds after all writes
\* sent before the read, even when one answer was given up and arrives late.
TcpReadIsCurrent ==
    transport = "tcp" /\ abandoned <= 1 =>
        \A t \in Threads : result[t].status = "Ok" /\ cmd[t].op = "read"
                               => result[t].val = expected[t]

\* What the connection promises, RegisterService, and how its state is found here: a
\* command took effect when its answer is under way to the host, or lost after the
\* device executed it.
Told(status, val) == [status |-> status, val |-> val]
Asked(c) == [op |-> c.op, addr |-> c.addr, val |-> c.val]
ReadOff(answer) == Told(IF answer.refused THEN "IllegalOperation" ELSE "Ok", answer.val)

calls    == [t \in Threads |-> IF pc[t] = "idle" THEN Asked(NoCommand) ELSE Asked(cmd[t])]
replies  == [t \in Threads |->
                IF pc[t] = "receive" /\ toHost # <<>> THEN ReadOff(Head(toHost))
                ELSE IF pc[t] = "receive" /\ cmd[t].n \in applied THEN Told("Ok", Null)
                ELSE Told("none", Null)]
outcomes == [t \in Threads |-> Told(result[t].status, result[t].val)]

Service == INSTANCE RegisterService WITH registers <- reg, call <- calls, reply <- replies,
                                         outcome <- outcomes, astray <- abandoned # 0

\* Until an answer is given up, every command takes effect at one moment between its
\* call and its return, or fails without effect, whoever shares the connection.
ImplementsService == Service!Spec

=============================================================================
