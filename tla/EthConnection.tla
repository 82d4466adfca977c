---------------------------- MODULE EthConnection ----------------------------
(***************************************************************************)
(* The Ethernet connection from BTAETHopen to BTAETHclose                  *)
(* (sdk/bta_eth.c: connectionMonitorRunFunction,                           *)
(* writeOrCheckDeviceUdpDataSettings, BTAETHopen, BTAETHclose).            *)
(*                                                                         *)
(* The monitor thread opens the sockets the user asked for, tells the      *)
(* device where to stream to, probes the control connection, notices a     *)
(* loss and reconnects.  Users and the parser exchange commands with the   *)
(* device meanwhile.  An exchange holds controlMutex from beginning to     *)
(* end, so it is a step here; EthControl is about what happens inside.     *)
(*                                                                         *)
(* The device is external.  It may restart: then it does not know the TCP  *)
(* connection any more and may have lost the settings of its stream.       *)
(***************************************************************************)
EXTENDS Integers, Sequences

CONSTANTS Configs,      \* what users ask for: control connections, data, probes
          MaxRestarts   \* bound: restarts of the device

LostAfter == 2          \* failcount at which the monitor declares a loss

Parts  == {"udp", "tcp", "data"}
States == {"Deactivated", "Wanted", "Reconnecting", "Connected", "Closed"}

\* The registers that tell the device where to stream to, in the order they are written.
Settings == <<"ip0", "ip1", "port">>
AllSettings == {"ip0", "ip1", "port"}

ASSUME ConnectionAssumption ==
    /\ MaxRestarts \in Nat
    /\ Configs \subseteq [control : SUBSET {"udp", "tcp"}, data : {"none", "fixed", "auto"},
                          probing : BOOLEAN]
    /\ \A c \in Configs : c.control # {} \/ c.data = "fixed"

VARIABLES
    config,       \* the configuration of this handle
    link,         \* connection state and socket of each part
    fails,        \* keepAliveInst->failcount, not followed above LostAfter
    autoConfig,   \* udpDataAutoConfig
    addr,         \* udpDataIpAddr is known
    monitor,      \* where the monitor thread is
    reconnected,  \* something was connected in this cycle
    first,        \* firstCycle
    todo,         \* registers still to be written or checked
    semaphore,    \* semConnectionEstablishment
    main,         \* where the thread in BTAETHopen or BTAETHclose is
    closing,
    peer,         \* the device knows the TCP connection
    stream,       \* registers of the device that hold our address
    restarts,
    incomplete    \* history: a setting failed to be written since the last connect

linkVars    == <<link, fails>>
dataVars    == <<autoConfig, addr>>
monitorVars == <<monitor, reconnected, first, todo, incomplete>>
mainVars    == <<semaphore, main, closing>>
deviceVars  == <<peer, stream, restarts>>
vars == <<config, linkVars, dataVars, monitorVars, mainVars, deviceVars>>

Wanted(yes) == [state |-> IF yes THEN "Wanted" ELSE "Deactivated", socket |-> FALSE]

\* BTAETHopen has read the configuration; the device streams elsewhere.
Init ==
    /\ config \in Configs
    /\ link = [udp  |-> Wanted("udp" \in config.control),
               tcp  |-> Wanted("tcp" \in config.control),
               data |-> Wanted(config.data # "none")]
    /\ fails = 0
    /\ autoConfig = IF config.data = "auto" THEN 1 ELSE 0
    /\ addr = (config.data = "fixed")
    /\ monitor = "none" /\ reconnected = FALSE /\ first = TRUE /\ todo = <<>>
    /\ semaphore = FALSE /\ main = "start" /\ closing = FALSE
    /\ peer = FALSE /\ stream = {} /\ restarts = 0
    /\ incomplete = FALSE

-----------------------------------------------------------------------------
(***************************************************************************)
(* An exchange of a command and its answer                                 *)
(***************************************************************************)
UdpUp == link.udp.state = "Connected"
TcpUp == link.tcp.state = "Connected"
ControlConnected == UdpUp \/ TcpUp

\* The connection commands go over; UDP is served while it is reconnecting, too.
Via == IF link.udp.state \in {"Connected", "Reconnecting"} THEN "udp"
       ELSE IF TcpUp THEN "tcp" ELSE "none"

Plus(f, n) == IF f + n < LostAfter THEN f + n ELSE LostAfter

\* The device can be heard.
Reachable == Via = "udp" \/ (Via = "tcp" /\ peer)

\* Something was received: what the connection looks like then.
Heard == IF Via = "none" THEN link ELSE [link EXCEPT ![Via].state = "Connected"]

Answered == /\ Reachable
            /\ link' = Heard /\ fails' = 0

\* (A failed connection is cut, but its socket stays.)
CutButOpen(l) == [l EXCEPT !.tcp.state = "Reconnecting"]

Cut(l) == [l EXCEPT !.tcp = [state |-> "Reconnecting", socket |-> FALSE]]

\* Over UDP an attempt fails without being counted, is counted, or is a time-out
\* that also marks the connection; or something else than the answer was read.
UdpFails(l, f, tries) ==
    \/ link' = l /\ \E n \in 0 .. tries : fails' = Plus(f, n)
    \/ /\ link' = [l EXCEPT !.udp.state = "Reconnecting"]
       /\ \E n \in 1 .. tries : fails' = Plus(f, n)
    \/ link' = [l EXCEPT !.udp.state = "Connected"] /\ fails' = 0

\* Over TCP there is one attempt.  The answer stays away, comes in part or is an
\* error; select gives up and leaves the connection as it is, all else cuts it.
TcpFails(l, f) ==
    \/ /\ fails' \in {Plus(f, 1)} \cup IF peer THEN {1} ELSE {}
       /\ link' \in {l, Cut(l)}
    \/ peer /\ link' = l /\ fails' = 0

Unanswered(tries) ==
    \/ Via = "udp" /\ UdpFails(link, fails, tries)
    \/ Via = "tcp" /\ TcpFails(link, fails)
    \/ Via = "none" /\ UNCHANGED linkVars

-----------------------------------------------------------------------------
(***************************************************************************)
(* The cycle of the monitor                                                *)
(***************************************************************************)
GoTo(place) == monitor' = place

\* Between its branches the monitor looks whether it is to end.
ContinueAt(place) == monitor' = IF closing THEN "cleanup" ELSE place

Loop ==
    /\ monitor = "loop"
    /\ reconnected' = FALSE
    /\ ContinueAt("udpControl")
    /\ UNCHANGED <<config, linkVars, dataVars, first, todo, incomplete, mainVars, deviceVars>>

\* A part the user wants and that has no socket.
Missing(part) == link[part].state # "Deactivated" /\ ~link[part].socket

\* A UDP socket was bound and the first probe answered: TCP is not needed.
UdpConnects ==
    /\ monitor = "udpControl" /\ Missing("udp")
    /\ link' = [link EXCEPT !.udp = [state |-> "Connected", socket |-> TRUE],
                            !.tcp.state = "Deactivated"]
    /\ fails' = 0 /\ reconnected' = TRUE
    /\ ContinueAt("tcpControl")
    /\ UNCHANGED <<config, dataVars, first, todo, incomplete, mainVars, deviceVars>>

\* No socket, or no answer: the socket is closed again.
UdpConnectFails ==
    /\ monitor = "udpControl" /\ Missing("udp")
    /\ fails' \in {fails, Plus(fails, 1), 0}
    /\ ContinueAt("tcpControl")
    /\ UNCHANGED <<config, link, dataVars, reconnected, first, todo, incomplete, mainVars, deviceVars>>

UdpAsItIs ==
    /\ monitor = "udpControl" /\ ~Missing("udp")
    /\ ContinueAt("tcpControl")
    /\ UNCHANGED <<config, linkVars, dataVars, reconnected, first, todo, incomplete, mainVars, deviceVars>>

\* (UDP is left activated.)
TcpConnectsBeside ==
    /\ monitor = "tcpControl" /\ Missing("tcp")
    /\ link' = [link EXCEPT !.tcp = [state |-> "Connected", socket |-> TRUE]]
    /\ fails' = 0 /\ reconnected' = TRUE /\ peer' = TRUE /\ incomplete' = FALSE
    /\ ContinueAt("autoConfig")
    /\ UNCHANGED <<config, dataVars, first, todo, mainVars, stream, restarts>>

\* (Only a first connection counts as one.)
TcpConnectsQuietly ==
    /\ monitor = "tcpControl" /\ Missing("tcp")
    /\ link' = [link EXCEPT !.tcp = [state |-> "Connected", socket |-> TRUE],
                            !.udp.state = "Deactivated"]
    /\ fails' = 0 /\ reconnected' = first /\ peer' = TRUE /\ incomplete' = FALSE
    /\ ContinueAt("autoConfig")
    /\ UNCHANGED <<config, dataVars, first, todo, mainVars, stream, restarts>>

\* TCP connected and the first probe answered: UDP is not needed.
TcpConnects ==
    /\ monitor = "tcpControl" /\ Missing("tcp")
    /\ link' = [link EXCEPT !.tcp = [state |-> "Connected", socket |-> TRUE],
                            !.udp.state = "Deactivated"]
    /\ fails' = 0 /\ reconnected' = TRUE /\ peer' = TRUE /\ incomplete' = FALSE
    /\ ContinueAt("autoConfig")
    /\ UNCHANGED <<config, dataVars, first, todo, mainVars, stream, restarts>>

\* No connection: the state stays what it was.  Connected, but no answer: transmit or
\* receive closes the socket.  A part of the answer, or an error: nobody closes it.
TcpConnectFails ==
    /\ monitor = "tcpControl" /\ Missing("tcp")
    /\ \/ UNCHANGED linkVars
       \/ /\ link' = [link EXCEPT !.tcp = [state |-> "Wanted", socket |-> FALSE]]
          /\ fails' \in {Plus(fails, 1), 1}
       \/ /\ link' = [link EXCEPT !.tcp = [state |-> "Wanted", socket |-> TRUE]]
          /\ fails' \in {0, 1}
    /\ ContinueAt("autoConfig")
    /\ UNCHANGED <<config, dataVars, reconnected, first, todo, incomplete, mainVars, deviceVars>>

TcpAsItIs ==
    /\ monitor = "tcpControl" /\ ~Missing("tcp")
    /\ ContinueAt("autoConfig")
    /\ UNCHANGED <<config, linkVars, dataVars, reconnected, first, todo, incomplete, mainVars, deviceVars>>

NeedsAutoConfig == /\ ControlConnected /\ autoConfig > 0
                   /\ link.data.state # "Deactivated" /\ ~addr

\* The device type allows it, and one local address matches: the one of TCP is looked at.
\* Without the MAC address, read last, the default port is used.
AutoConfigSucceeds ==
    /\ monitor = "autoConfig" /\ NeedsAutoConfig
    /\ "tcp" \in config.control
    /\ Reachable
    /\ \/ Answered
       \/ Via = "udp" /\ UdpFails(Heard, 0, LostAfter)
       \/ Via = "tcp" /\ TcpFails(Heard, 0)
    /\ addr' = TRUE
    /\ ContinueAt("udpData")
    /\ UNCHANGED <<config, autoConfig, reconnected, first, todo, incomplete, mainVars, deviceVars>>

\* Not supported (-1), device type not read, or no local address found.
AutoConfigFails ==
    /\ monitor = "autoConfig" /\ NeedsAutoConfig
    /\ \/ Answered /\ autoConfig' \in {-1, 0}
       \/ Unanswered(LostAfter) /\ autoConfig' = 0
    /\ ContinueAt("udpData")
    /\ UNCHANGED <<config, addr, reconnected, first, todo, incomplete, mainVars, deviceVars>>

NoAutoConfig ==
    /\ monitor = "autoConfig" /\ ~NeedsAutoConfig
    /\ ContinueAt("udpData")
    /\ UNCHANGED <<config, linkVars, dataVars, reconnected, first, todo, incomplete, mainVars, deviceVars>>

\* The data socket is bound, or it is not and stays closed.
UdpDataBinds ==
    /\ monitor = "udpData" /\ Missing("data") /\ addr
    /\ link' = [link EXCEPT !.data = [state |-> "Connected", socket |-> TRUE]]
    /\ reconnected' = TRUE
    /\ ContinueAt("settings")
    /\ UNCHANGED <<config, fails, dataVars, first, todo, incomplete, mainVars, deviceVars>>

UdpDataAsItIs ==
    /\ monitor = "udpData"
    /\ ContinueAt("settings")
    /\ UNCHANGED <<config, linkVars, dataVars, reconnected, first, todo, incomplete, mainVars, deviceVars>>

-----------------------------------------------------------------------------
\* (The last register is forgotten.)
BeginSettingsShort ==
    /\ monitor = "settings"
    /\ IF reconnected /\ link.data.state = "Connected" /\ ControlConnected
       THEN GoTo("registers") /\ todo' = <<"ip0", "ip1">>
       ELSE GoTo("probe") /\ todo' = <<>>
    /\ UNCHANGED <<config, linkVars, dataVars, reconnected, first, incomplete, mainVars, deviceVars>>

\* After a connect, and with control and data connected, the stream's settings
\* are written (automatic configuration) or read and compared.
BeginSettings ==
    /\ monitor = "settings"
    /\ IF reconnected /\ link.data.state = "Connected" /\ ControlConnected
       THEN GoTo("registers") /\ todo' = Settings
       ELSE GoTo("probe") /\ todo' = <<>>
    /\ UNCHANGED <<config, linkVars, dataVars, reconnected, first, incomplete, mainVars, deviceVars>>

After(rest) == /\ todo' = rest
               /\ GoTo(IF rest = <<>> THEN "probe" ELSE "registers")

\* One register, by an exchange like a user's.  A register compared may end the check.
SettingAnswered ==
    /\ monitor = "registers" /\ Answered
    /\ \/ autoConfig > 0 /\ stream' = stream \cup {Head(todo)} /\ After(Tail(todo))
       \/ autoConfig <= 0 /\ stream' = stream /\ (After(Tail(todo)) \/ After(<<>>))
    /\ UNCHANGED <<config, dataVars, reconnected, first, incomplete, mainVars, peer, restarts>>

\* The first one that fails ends it; the device may have executed the write.
SettingFails ==
    /\ monitor = "registers" /\ Unanswered(LostAfter)
    /\ stream' \in {stream} \cup
                   IF autoConfig > 0 /\ Reachable THEN {stream \cup {Head(todo)}} ELSE {}
    /\ incomplete' = TRUE
    /\ After(<<>>)
    /\ UNCHANGED <<config, dataVars, reconnected, first, mainVars, peer, restarts>>

CanProbe == config.probing /\ Via # "none"

ProbeAnswered ==
    /\ monitor = "probe" /\ CanProbe /\ Answered
    /\ GoTo("detect")
    /\ UNCHANGED <<config, dataVars, reconnected, first, todo, incomplete, mainVars, deviceVars>>

ProbeFails ==
    /\ monitor = "probe" /\ CanProbe /\ Unanswered(1)
    /\ GoTo("detect")
    /\ UNCHANGED <<config, dataVars, reconnected, first, todo, incomplete, mainVars, deviceVars>>

\* Not possible or not due yet.
NoProbe ==
    /\ monitor = "probe"
    /\ GoTo("detect")
    /\ UNCHANGED <<config, linkVars, dataVars, reconnected, first, todo, incomplete, mainVars, deviceVars>>

\* (The semaphore is posted only when the cycle has connected something.)
DetectLossPostsLate ==
    /\ monitor = "detect"
    /\ link' = IF fails < LostAfter THEN link
               ELSE IF UdpUp THEN [link EXCEPT !.udp.state = "Reconnecting"]
               ELSE IF TcpUp THEN Cut(link) ELSE link
    /\ first' = (first /\ ~reconnected) /\ semaphore' = (semaphore \/ (first /\ reconnected))
    /\ GoTo("loop")
    /\ UNCHANGED <<config, fails, dataVars, reconnected, todo, incomplete, main, closing, deviceVars>>

\* Too many failures: UDP goes on trying, TCP is closed.  Then the first cycle is over.
DetectLoss ==
    /\ monitor = "detect"
    /\ link' = IF fails < LostAfter THEN link
               ELSE IF UdpUp THEN [link EXCEPT !.udp.state = "Reconnecting"]
               ELSE IF TcpUp THEN Cut(link) ELSE link
    /\ first' = FALSE /\ semaphore' = (semaphore \/ first)
    /\ GoTo("loop")
    /\ UNCHANGED <<config, fails, dataVars, reconnected, todo, incomplete, main, closing, deviceVars>>

\* Sockets still open are closed.
Cleanup ==
    /\ monitor = "cleanup"
    /\ link' = [p \in Parts |-> IF link[p].socket THEN [state |-> "Closed", socket |-> FALSE]
                                ELSE link[p]]
    /\ first' = FALSE /\ semaphore' = (semaphore \/ first)
    /\ GoTo("ended")
    /\ UNCHANGED <<config, fails, dataVars, reconnected, todo, incomplete, main, closing, deviceVars>>

Monitor ==
    \/ Loop
    \/ UdpConnects \/ UdpConnectFails \/ UdpAsItIs
    \/ TcpConnects \/ TcpConnectFails \/ TcpAsItIs
    \/ AutoConfigSucceeds \/ AutoConfigFails \/ NoAutoConfig
    \/ UdpDataBinds \/ UdpDataAsItIs
    \/ BeginSettings \/ SettingAnswered \/ SettingFails
    \/ ProbeAnswered \/ ProbeFails \/ NoProbe
    \/ DetectLoss \/ Cleanup

-----------------------------------------------------------------------------
(***************************************************************************)
(* BTAETHopen and BTAETHclose                                              *)
(***************************************************************************)
mainKeeps == <<config, linkVars, dataVars, reconnected, first, todo, incomplete, deviceVars>>

Close == main' = "closing" /\ closing' = TRUE

StartMonitor ==
    /\ main = "start"
    /\ main' = "wait" /\ GoTo("loop")
    /\ UNCHANGED <<mainKeeps, semaphore, closing>>

StartFails ==
    /\ main = "start" /\ Close
    /\ UNCHANGED <<mainKeeps, monitor, semaphore>>

\* (No time-out: the open relies on the monitor to finish its first cycle.)
WaitForMonitor ==
    /\ main = "wait" /\ semaphore
    /\ semaphore' = FALSE /\ main' = "checkControl"
    /\ UNCHANGED <<mainKeeps, monitor, closing>>

CheckControl ==
    /\ main = "checkControl"
    /\ IF config.control = {} \/ ControlConnected
       THEN main' = "checkData" /\ UNCHANGED closing ELSE Close
    /\ UNCHANGED <<mainKeeps, monitor, semaphore>>

CheckData ==
    /\ main = "checkData"
    /\ IF link.data.state \in {"Deactivated", "Connected"}
       THEN main' = "open" /\ UNCHANGED closing ELSE Close
    /\ UNCHANGED <<mainKeeps, monitor, semaphore>>

\* The user closes, or the open fails to set up what comes after the connection.
UserCloses ==
    /\ main = "open" /\ Close
    /\ UNCHANGED <<mainKeeps, monitor, semaphore>>

\* The monitor is joined and everything freed.
JoinMonitor ==
    /\ main = "closing" /\ monitor \in {"none", "ended"}
    /\ main' = "closed"
    /\ UNCHANGED <<mainKeeps, monitor, semaphore, closing>>

Main == \/ StartMonitor \/ StartFails \/ WaitForMonitor
        \/ CheckControl \/ CheckData \/ JoinMonitor

-----------------------------------------------------------------------------
(***************************************************************************)
(* Users, the parser's requests, and the device                            *)
(***************************************************************************)
\* The parser's thread goes on until a close has joined it.
Command ==
    /\ main \in {"open", "closing"}
    /\ Answered \/ Unanswered(LostAfter)
    /\ UNCHANGED <<config, dataVars, monitorVars, mainVars, deviceVars>>

DeviceRestarts ==
    /\ restarts < MaxRestarts
    /\ restarts' = restarts + 1
    /\ peer' = FALSE /\ stream' \in {stream, {}}
    /\ UNCHANGED <<config, linkVars, dataVars, monitorVars, mainVars>>

Next == Monitor \/ Main \/ UserCloses \/ Command \/ DeviceRestarts

Probe == ProbeAnswered \/ ProbeFails

\* Both threads run.  The network heals: a connection tried again and again comes up,
\* and a probe sent again and again is answered.  Probes become due again and again.
Fairness == /\ WF_vars(Monitor) /\ WF_vars(Main)
            /\ SF_vars(Probe) /\ SF_vars(ProbeAnswered)
            /\ SF_vars(TcpConnects)

Spec == Init /\ [][Next]_vars /\ Fairness

-----------------------------------------------------------------------------
TypeOK ==
    /\ config \in Configs
    /\ link \in [Parts -> [state : States, socket : BOOLEAN]]
    /\ fails \in 0 .. LostAfter
    /\ autoConfig \in {-1, 0, 1} /\ addr \in BOOLEAN
    /\ monitor \in {"none", "loop", "udpControl", "tcpControl", "autoConfig", "udpData",
                    "settings", "registers", "probe", "detect", "cleanup", "ended"}
    /\ reconnected \in BOOLEAN /\ first \in BOOLEAN /\ incomplete \in BOOLEAN
    /\ todo \in {<<>>, Settings, <<"ip1", "port">>, <<"port">>}
    /\ todo = <<>> <=> monitor # "registers"
    /\ semaphore \in BOOLEAN /\ closing \in BOOLEAN
    /\ main \in {"start", "wait", "checkControl", "checkData", "open", "closing", "closed"}
    /\ peer \in BOOLEAN /\ stream \subseteq AllSettings /\ restarts \in 0 .. MaxRestarts

\* No command, select or receive goes to a socket that is not open, whoever cut the
\* connection last, and a close leaves no socket open.
SocketsMatchStates ==
    /\ link.udp.state \in {"Connected", "Reconnecting"} => link.udp.socket
    /\ link.tcp.state = "Connected" => link.tcp.socket
    /\ link.tcp.state = "Reconnecting" => ~link.tcp.socket
    /\ link.data.state = "Connected" => link.data.socket
    /\ main = "closed" => \A p \in Parts : ~link[p].socket

\* Once a control connection is up the other one is out of use for good, through all
\* losses and reconnections: commands never change their wire.
OneControl ==
    /\ link.udp.state \in {"Connected", "Reconnecting"} => link.tcp.state = "Deactivated"
    /\ link.tcp.state \in {"Connected", "Reconnecting"} => link.udp.state = "Deactivated"

\* With automatic configuration a device on a live TCP connection streams to this
\* host, also after it restarted and was reconnected, unless a write failed on the way.
StreamComesHere ==
    /\ TcpUp /\ peer /\ link.data.state = "Connected" /\ autoConfig > 0
    /\ ~incomplete /\ ~closing
    /\ monitor \notin {"autoConfig", "udpData", "settings", "registers"}
    => stream = AllSettings

\* BTAETHopen, which waits for the monitor without a limit, and BTAETHclose, which joins
\* it, return whatever the network and the device do.
OpenAndCloseReturn ==
    /\ main = "start" ~> main \in {"open", "closing"}
    /\ closing ~> main = "closed"

\* A socket left open by a failed connect: TCP is not tried again.
Stuck == link.tcp.state = "Wanted" /\ link.tcp.socket

Alive == UdpUp \/ (TcpUp /\ peer)

\* On an open handle that probes, a control connection that was lost, or that a
\* restarted device has forgotten, is connected again, unless TCP is stuck.
LostIsRetried ==
    main = "open" /\ config.probing /\ config.control # {} /\ ~Alive
        ~> Alive \/ Stuck \/ closing

=============================================================================
