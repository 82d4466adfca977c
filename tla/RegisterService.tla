--------------------------- MODULE RegisterService ---------------------------
(***************************************************************************)
(* What the Ethernet control connection promises to the threads that share *)
(* it, without sockets, requests, answers, attempts and controlMutex: each *)
(* command takes effect at one moment between its call and its return, or  *)
(* fails and has no effect.  The promise ends when an answer is given up.  *)
(***************************************************************************)
CONSTANTS Threads,
          Addr, Value,  \* register addresses and contents
          Refused,      \* addresses the device answers with an error
          Null

VARIABLES registers,    \* the registers of the device
          call,         \* by thread: the command in progress
          reply,        \* by thread: what it will be answered, once it took effect
          outcome,      \* by thread: what the last command returned
          astray        \* an answer was given up

vars == <<registers, call, reply, outcome, astray>>

NoCall   == [op |-> "none", addr |-> Null, val |-> Null]
NoReply  == [status |-> "none", val |-> Null]
Calls    == [op : {"read"}, addr : Addr, val : {Null}]
              \cup [op : {"write"}, addr : Addr, val : Value]
              \cup [op : {"keepAlive"}, addr : {Null}, val : {Null}]

Init ==
    /\ registers \in [Addr -> Value]
    /\ call = [t \in Threads |-> NoCall]
    /\ reply = [t \in Threads |-> NoReply] /\ outcome = [t \in Threads |-> NoReply]
    /\ astray = FALSE

Begin(t) ==
    /\ call[t] = NoCall
    /\ \E c \in Calls : call' = [call EXCEPT ![t] = c]
    /\ outcome' = [outcome EXCEPT ![t] = NoReply]
    /\ UNCHANGED <<registers, reply, astray>>

ReplyTo(c) == [status |-> IF c.addr \in Refused THEN "IllegalOperation" ELSE "Ok",
               val |-> IF c.op = "read" /\ c.addr \notin Refused THEN registers[c.addr] ELSE Null]

\* The one moment in which a command reads or writes.
Execute(t) ==
    /\ call[t] # NoCall /\ reply[t] = NoReply
    /\ reply' = [reply EXCEPT ![t] = ReplyTo(call[t])]
    /\ registers' = IF call[t].op = "write" /\ call[t].addr \notin Refused
                    THEN [registers EXCEPT ![call[t].addr] = call[t].val] ELSE registers
    /\ UNCHANGED <<call, outcome, astray>>

Return(t, r) == /\ outcome' = [outcome EXCEPT ![t] = r]
                /\ call' = [call EXCEPT ![t] = NoCall]
                /\ reply' = [reply EXCEPT ![t] = NoReply]
                /\ UNCHANGED <<registers, astray>>

Succeed(t) == reply[t] # NoReply /\ Return(t, reply[t])

\* A command that could not be sent has no effect.
Fail(t) ==
    /\ call[t] # NoCall /\ reply[t] = NoReply
    /\ \E status \in {"NotConnected", "DeviceUnreachable"} :
          Return(t, [status |-> status, val |-> Null])

\* Nothing is promised of commands any more; but registers change one by one, and
\* those the device refuses never do.
GoAstray ==
    /\ astray' = TRUE
    /\ \/ registers' = registers
       \/ \E a \in Addr \ Refused, v \in Value : registers' = [registers EXCEPT ![a] = v]

Next == \/ \E t \in Threads : Begin(t) \/ Execute(t) \/ Succeed(t) \/ Fail(t)
        \/ GoAstray

Spec == Init /\ [][Next]_vars
=============================================================================
