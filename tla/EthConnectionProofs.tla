------------------------- MODULE EthConnectionProofs -------------------------
(***************************************************************************)
(* Theorems about EthConnection for every set of configurations and any    *)
(* number of restarts of the device: sockets agree with the states of      *)
(* their connections, one control connection is in use, for good, a device *)
(* that is connected streams to this host, and a TCP connection that is    *)
(* stuck stays so.                                                         *)
(***************************************************************************)
EXTENDS EthConnection, SequenceTheorems, TLAPS

LinkStates == [state : States, socket : BOOLEAN]

\* A UDP control socket is open only while it is used.
UdpInUse == link.udp.socket => link.udp.state \in {"Connected", "Reconnecting"}

\* SocketsMatchStates while the handle is open, and OneControl.
LinkOK ==
    /\ link \in [Parts -> LinkStates] /\ fails \in 0 .. LostAfter
    /\ link.udp.state \in {"Connected", "Reconnecting"} => link.udp.socket
    /\ link.tcp.state = "Connected" => link.tcp.socket
    /\ link.tcp.state = "Reconnecting" => ~link.tcp.socket
    /\ link.data.state = "Connected" => link.data.socket
    /\ UdpInUse /\ OneControl

\* Types but those of the connections.
Rest ==
    /\ config \in Configs
    /\ autoConfig \in {-1, 0, 1} /\ addr \in BOOLEAN
    /\ monitor \in {"none", "loop", "udpControl", "tcpControl", "autoConfig", "udpData",
                    "settings", "registers", "probe", "detect", "cleanup", "ended"}
    /\ reconnected \in BOOLEAN /\ first \in BOOLEAN /\ incomplete \in BOOLEAN
    /\ todo \in {<<>>, Settings, <<"ip1", "port">>, <<"port">>}
    /\ todo = <<>> <=> monitor # "registers"
    /\ semaphore \in BOOLEAN /\ closing \in BOOLEAN
    /\ main \in {"start", "wait", "checkControl", "checkData", "open", "closing", "closed"}
    /\ peer \in BOOLEAN /\ stream \subseteq AllSettings /\ restarts \in 0 .. MaxRestarts

NoSockets == \A p \in Parts : ~link[p].socket

\* What the places of the threads say about each other.
Places == /\ main = "start" => monitor = "none"
          /\ monitor \in {"none", "ended"} => NoSockets
          /\ main = "closed" => monitor \in {"none", "ended"}
          /\ monitor \in {"cleanup", "ended"} => closing

\* A device that is to stream to this host, and no write to it has failed.
Expected == /\ TcpUp /\ peer /\ link.data.state = "Connected" /\ autoConfig > 0
            /\ ~incomplete /\ ~closing

\* Where in its cycle the monitor has nothing to tell the device.
Told == \/ monitor \in {"loop", "udpControl", "tcpControl", "probe", "detect"}
        \/ monitor \in {"autoConfig", "udpData", "settings"} /\ ~reconnected

\* The registers written so far.
SettingsOK ==
    Expected => /\ Told => stream = AllSettings
                /\ todo = <<"ip1", "port">> => "ip0" \in stream
                /\ todo = <<"port">> => {"ip0", "ip1"} \subseteq stream

IInv == LinkOK /\ Rest /\ Places /\ SettingsOK

-----------------------------------------------------------------------------
(***************************************************************************)
(* What an exchange of a command and its answer does to the connections    *)
(***************************************************************************)
Exchange ==
    /\ link' \in [Parts -> LinkStates] /\ fails' \in 0 .. LostAfter
    /\ link'.data = link.data
    /\ Via = "udp" => /\ link'.udp.state \in {"Connected", "Reconnecting"}
                      /\ link'.udp.socket = link.udp.socket
                      /\ link'.tcp = link.tcp
    /\ Via = "tcp" => /\ \/ link'.tcp = link.tcp
                         \/ link'.tcp.state = "Reconnecting" /\ ~link'.tcp.socket
                      /\ link'.udp = link.udp
    /\ Via = "none" => link' = link

LEMMA HeardFacts ==
    ASSUME TypeOK
    PROVE  /\ Via = "udp" => Heard = [link EXCEPT !.udp.state = "Connected"]
           /\ Via = "tcp" => Heard = link
           /\ Via = "none" => Heard = link
<1>1. link \in [Parts -> LinkStates]
  BY DEF TypeOK, LinkStates
<1>2. Via = "tcp" => link.tcp.state = "Connected"
  BY DEF Via, TcpUp
<1>3. Via = "tcp" => [link EXCEPT !.tcp.state = "Connected"] = link
  BY <1>1, <1>2 DEF LinkStates, Parts
<1> QED BY <1>3 DEF Heard

LEMMA PlusTypes ==
    ASSUME NEW f \in 0 .. LostAfter, NEW n \in Nat
    PROVE  Plus(f, n) \in 0 .. LostAfter
  BY DEF Plus, LostAfter

LEMMA CutFacts ==
    ASSUME link \in [Parts -> LinkStates]
    PROVE  /\ Cut(link) \in [Parts -> LinkStates]
           /\ Cut(link).data = link.data /\ Cut(link).udp = link.udp
           /\ Cut(link).tcp.state = "Reconnecting" /\ ~Cut(link).tcp.socket
<1> DEFINE closed == [state |-> "Reconnecting", socket |-> FALSE]
<1>1. closed.state = "Reconnecting" /\ ~closed.socket /\ closed \in LinkStates
  <2>1. closed.socket = FALSE /\ closed.state = "Reconnecting"
    OBVIOUS
  <2>2. FALSE \in BOOLEAN /\ "Reconnecting" \in States
    BY DEF States
  <2>3. closed \in LinkStates
    BY <2>2 DEF LinkStates
  <2> QED BY <2>1, <2>3
<1>2. Cut(link) = [link EXCEPT !.tcp = closed]
  BY DEF Cut
<1> HIDE DEF closed
<1> QED BY <1>1, <1>2 DEF Parts

LEMMA UdpExchange ==
    ASSUME TypeOK, Via = "udp", NEW f \in 0 .. LostAfter, NEW tries \in Nat,
           UdpFails(link, f, tries) \/ UdpFails(Heard, f, tries)
    PROVE  Exchange
<1>1. link \in [Parts -> LinkStates] /\ "udp" \in Parts
  BY DEF TypeOK, LinkStates, Parts
<1>2. link.udp.state \in {"Connected", "Reconnecting"}
  BY DEF Via, TcpUp
<1>3. Heard = [link EXCEPT !.udp.state = "Connected"]
  BY HeardFacts
<1>4. fails' \in 0 .. LostAfter
  <2>1. \A n \in 0 .. tries : n \in Nat /\ Plus(f, n) \in 0 .. LostAfter
    <3> TAKE n \in 0 .. tries
    <3>1. n \in Nat
      OBVIOUS
    <3> QED BY <3>1, PlusTypes
  <2>2. \A n \in 1 .. tries : n \in 0 .. tries
    OBVIOUS
  <2>3. 0 \in 0 .. LostAfter
    BY DEF LostAfter
  <2> QED BY <2>1, <2>2, <2>3 DEF UdpFails
<1>5. PICK s \in {"Connected", "Reconnecting"} :
          link' = [link EXCEPT !.udp.state = s]
  <2>1. CASE link' = link
    <3>1. link = [link EXCEPT !.udp.state = link.udp.state]
      BY <1>1 DEF LinkStates
    <3> QED BY <1>2, <2>1, <3>1
  <2>2. CASE link' = Heard
    BY <1>3, <2>2
  <2>3. CASE link' # link /\ link' # Heard
    <3>1. PICK l \in {link, Heard}, s \in {"Connected", "Reconnecting"} :
              link' = [l EXCEPT !.udp.state = s]
      BY <2>3 DEF UdpFails
    <3> QED BY <1>1, <1>3, <3>1 DEF LinkStates
  <2> QED BY <2>1, <2>2, <2>3
<1>6. /\ link' \in [Parts -> LinkStates] /\ link'.data = link.data /\ link'.tcp = link.tcp
      /\ link'.udp.state = s /\ link'.udp.socket = link.udp.socket
  BY <1>1, <1>5 DEF LinkStates, Parts, States
<1> QED BY <1>4, <1>6 DEF Exchange

LEMMA TcpExchange ==
    ASSUME TypeOK, Via = "tcp", NEW f \in 0 .. LostAfter,
           TcpFails(link, f) \/ TcpFails(Heard, f)
    PROVE  Exchange
<1>1. link \in [Parts -> LinkStates]
  BY DEF TypeOK, LinkStates
<1>2. TcpFails(link, f)
  BY HeardFacts
<1>3. fails' \in 0 .. LostAfter
  <2>1. Plus(f, 1) \in 0 .. LostAfter
    BY PlusTypes
  <2>2. 0 \in 0 .. LostAfter /\ 1 \in 0 .. LostAfter
    BY DEF LostAfter
  <2> QED BY <1>2, <2>1, <2>2 DEF TcpFails
<1>4. link' = link \/ link' = Cut(link)
  BY <1>2 DEF TcpFails
<1>5. /\ link' \in [Parts -> LinkStates] /\ link'.data = link.data /\ link'.udp = link.udp
      /\ link'.tcp = link.tcp \/ (link'.tcp.state = "Reconnecting" /\ ~link'.tcp.socket)
  BY <1>1, <1>4, CutFacts
<1> QED BY <1>3, <1>5 DEF Exchange

LEMMA ExchangeFacts ==
    ASSUME TypeOK, NEW tries \in Nat, Answered \/ Unanswered(tries)
    PROVE  Exchange
<1>1. link \in [Parts -> LinkStates] /\ fails \in 0 .. LostAfter
  BY DEF TypeOK, LinkStates
<1>2. CASE Answered
  <2>1. fails' \in 0 .. LostAfter /\ Via \in {"udp", "tcp"} /\ link' = Heard
    BY <1>2 DEF Answered, Reachable, LostAfter
  <2>2. CASE Via = "udp"
    <3>1. /\ link' \in [Parts -> LinkStates] /\ link'.data = link.data /\ link'.tcp = link.tcp
          /\ link'.udp.state = "Connected" /\ link'.udp.socket = link.udp.socket
      BY <1>1, <2>1, <2>2, HeardFacts DEF LinkStates, Parts, States
    <3> QED BY <2>1, <2>2, <3>1 DEF Exchange
  <2>3. CASE Via = "tcp"
    BY <1>1, <2>1, <2>3, HeardFacts DEF Exchange
  <2> QED BY <2>1, <2>2, <2>3
<1>3. CASE Unanswered(tries)
  <2>1. CASE Via = "udp"
    BY <1>1, <1>3, <2>1, UdpExchange DEF Unanswered
  <2>2. CASE Via = "tcp"
    BY <1>1, <1>3, <2>2, TcpExchange DEF Unanswered
  <2>3. CASE Via = "none"
    BY <1>1, <1>3, <2>3 DEF Unanswered, linkVars, Exchange
  <2> QED BY <2>1, <2>2, <2>3 DEF Via
<1> QED BY <1>2, <1>3

-----------------------------------------------------------------------------
(***************************************************************************)
(* Connections and sockets                                                 *)
(***************************************************************************)
\* Neither more sockets nor a connection that was not there.
NoMore == /\ NoSockets => NoSockets'
          /\ TcpUp' => TcpUp
          /\ link'.data.state = "Connected" => link.data.state = "Connected"

LEMMA ExchangeKeeps ==
    ASSUME LinkOK, Exchange
    PROVE  LinkOK' /\ NoMore
<1>1. CASE Via = "udp"
  <2>1. link.udp.state \in {"Connected", "Reconnecting"}
    BY <1>1 DEF Via
  <2>2. LinkOK'
    BY <1>1, <2>1 DEF LinkOK, UdpInUse, OneControl, Exchange
  <2>3. NoMore
    BY <1>1, <2>1 DEF LinkOK, NoMore, NoSockets, Parts, TcpUp, Exchange
  <2> QED BY <2>2, <2>3
<1>2. CASE Via = "tcp"
  <2>1. link.tcp.state = "Connected"
    BY <1>2 DEF Via, TcpUp
  <2>2. LinkOK'
    BY <1>2, <2>1 DEF LinkOK, UdpInUse, OneControl, Exchange
  <2>3. NoMore
    BY <1>2, <2>1 DEF LinkOK, NoMore, NoSockets, Parts, TcpUp, Exchange
  <2> QED BY <2>2, <2>3
<1>3. CASE Via = "none"
  BY <1>3 DEF LinkOK, UdpInUse, OneControl, NoMore, NoSockets, TcpUp, Exchange
<1> QED BY <1>1, <1>2, <1>3 DEF Via

\* The monitor gives a connection up.
LEMMA LossKeeps ==
    ASSUME LinkOK, fails' = fails,
           link' = IF fails < LostAfter THEN link
                   ELSE IF UdpUp THEN [link EXCEPT !.udp.state = "Reconnecting"]
                   ELSE IF TcpUp THEN Cut(link) ELSE link
    PROVE  LinkOK' /\ NoMore
<1>1. CASE link' = link
  BY <1>1 DEF LinkOK, UdpInUse, OneControl, NoMore, NoSockets, TcpUp
<1>2. CASE UdpUp /\ link' = [link EXCEPT !.udp.state = "Reconnecting"]
  <2>1. /\ link' \in [Parts -> LinkStates] /\ link'.tcp = link.tcp /\ link'.data = link.data
        /\ link'.udp.state = "Reconnecting" /\ link'.udp.socket = link.udp.socket
    BY <1>2 DEF LinkOK, LinkStates, Parts, States
  <2> QED BY <1>2, <2>1 DEF LinkOK, UdpInUse, OneControl, NoMore, NoSockets, Parts, UdpUp, TcpUp
<1>3. CASE TcpUp /\ link' = Cut(link)
  <2>1. /\ link' \in [Parts -> LinkStates] /\ link'.udp = link.udp /\ link'.data = link.data
        /\ link'.tcp.state = "Reconnecting" /\ ~link'.tcp.socket
    BY <1>3, CutFacts DEF LinkOK
  <2> QED BY <1>3, <2>1 DEF LinkOK, UdpInUse, OneControl, NoMore, NoSockets, Parts, TcpUp
<1> QED BY <1>1, <1>2, <1>3

LEMMA UdpConnectKeeps ==
    ASSUME LinkOK, UdpConnects
    PROVE  LinkOK' /\ ~TcpUp'
<1> DEFINE up == [state |-> "Connected", socket |-> TRUE]
<1>1. up \in LinkStates /\ up.state = "Connected" /\ up.socket
  <2>1. up.socket = TRUE /\ up.state = "Connected"
    OBVIOUS
  <2>2. TRUE \in BOOLEAN /\ "Connected" \in States
    BY DEF States
  <2>3. up \in LinkStates
    BY <2>2 DEF LinkStates
  <2> QED BY <2>1, <2>3
<1>2. link' = [link EXCEPT !.udp = up, !.tcp.state = "Deactivated"]
  BY DEF UdpConnects
<1> HIDE DEF up
<1>3. /\ link' \in [Parts -> LinkStates] /\ link'.udp = up /\ link'.data = link.data
      /\ link'.tcp.state = "Deactivated"
  BY <1>1, <1>2 DEF LinkOK, LinkStates, Parts, States
<1>4. fails' \in 0 .. LostAfter
  BY DEF UdpConnects, LostAfter
<1> QED BY <1>1, <1>3, <1>4 DEF LinkOK, UdpInUse, OneControl, TcpUp

LEMMA TcpConnectKeeps ==
    ASSUME LinkOK, TcpConnects
    PROVE  LinkOK'
<1> DEFINE up == [state |-> "Connected", socket |-> TRUE]
<1>1. up \in LinkStates /\ up.state = "Connected" /\ up.socket
  <2>1. up.socket = TRUE /\ up.state = "Connected"
    OBVIOUS
  <2>2. TRUE \in BOOLEAN /\ "Connected" \in States
    BY DEF States
  <2>3. up \in LinkStates
    BY <2>2 DEF LinkStates
  <2> QED BY <2>1, <2>3
<1>2. link' = [link EXCEPT !.tcp = up, !.udp.state = "Deactivated"]
  BY DEF TcpConnects
<1> HIDE DEF up
<1>3. /\ link' \in [Parts -> LinkStates] /\ link'.tcp = up /\ link'.data = link.data
      /\ link'.udp.state = "Deactivated"
  BY <1>1, <1>2 DEF LinkOK, LinkStates, Parts, States
<1>4. fails' \in 0 .. LostAfter
  BY DEF TcpConnects, LostAfter
<1>5. link.tcp.state # "Deactivated"
  BY DEF TcpConnects, Missing
<1>6. link'.udp.socket = link.udp.socket
  BY <1>2 DEF LinkOK, LinkStates, Parts
<1> QED BY <1>1, <1>3, <1>4, <1>5, <1>6 DEF LinkOK, UdpInUse, OneControl

LEMMA TcpFailKeeps ==
    ASSUME LinkOK, TcpConnectFails
    PROVE  LinkOK' /\ ~TcpUp'
<1>1. ~TcpUp /\ link.tcp.state # "Deactivated"
  BY DEF TcpConnectFails, Missing, LinkOK, TcpUp
<1>2. CASE UNCHANGED linkVars
  BY <1>1, <1>2 DEF LinkOK, UdpInUse, OneControl, TcpUp, linkVars
<1>3. ASSUME NEW open \in BOOLEAN,
             link' = [link EXCEPT !.tcp = [state |-> "Wanted", socket |-> open]],
             fails' \in {Plus(fails, 1), 0, 1}
      PROVE  LinkOK' /\ ~TcpUp'
  <2> DEFINE wanted == [state |-> "Wanted", socket |-> open]
  <2>1. wanted \in LinkStates /\ wanted.state = "Wanted"
    BY DEF LinkStates, States
  <2>2. link' = [link EXCEPT !.tcp = wanted]
    BY <1>3
  <2> HIDE DEF wanted
  <2>3. /\ link' \in [Parts -> LinkStates] /\ link'.tcp = wanted /\ link'.data = link.data
        /\ link'.udp = link.udp
    BY <2>1, <2>2 DEF LinkOK, Parts
  <2>4. fails' \in 0 .. LostAfter
    <3>1. Plus(fails, 1) \in 0 .. LostAfter
      BY PlusTypes DEF LinkOK
    <3>2. 0 \in 0 .. LostAfter /\ 1 \in 0 .. LostAfter
      BY DEF LostAfter
    <3> QED BY <1>3, <3>1, <3>2
  <2> QED BY <1>1, <2>1, <2>3, <2>4 DEF LinkOK, UdpInUse, OneControl, TcpUp
<1>4. TRUE \in BOOLEAN /\ FALSE \in BOOLEAN
  OBVIOUS
<1> QED BY <1>2, <1>3, <1>4 DEF TcpConnectFails

LEMMA BindKeeps ==
    ASSUME LinkOK, UdpDataBinds
    PROVE  LinkOK'
<1> DEFINE up == [state |-> "Connected", socket |-> TRUE]
<1>1. up \in LinkStates /\ up.state = "Connected" /\ up.socket
  <2>1. up.socket = TRUE /\ up.state = "Connected"
    OBVIOUS
  <2>2. TRUE \in BOOLEAN /\ "Connected" \in States
    BY DEF States
  <2>3. up \in LinkStates
    BY <2>2 DEF LinkStates
  <2> QED BY <2>1, <2>3
<1>2. link' = [link EXCEPT !.data = up] /\ fails' = fails
  BY DEF UdpDataBinds
<1> HIDE DEF up
<1>3. /\ link' \in [Parts -> LinkStates] /\ link'.data = up /\ link'.udp = link.udp
      /\ link'.tcp = link.tcp
  BY <1>1, <1>2 DEF LinkOK, Parts
<1> QED BY <1>1, <1>2, <1>3 DEF LinkOK, UdpInUse, OneControl

LEMMA CleanupKeeps ==
    ASSUME LinkOK, Cleanup
    PROVE  LinkOK' /\ NoSockets'
<1>1. \A p \in Parts : /\ link[p].socket => link'[p] = [state |-> "Closed", socket |-> FALSE]
                       /\ ~link[p].socket => link'[p] = link[p]
  BY DEF Cleanup
<1>2. \A p \in Parts : /\ link'[p] \in LinkStates /\ ~link'[p].socket
                       /\ link'[p].state = "Closed" \/ link'[p] = link[p]
  <2> TAKE p \in Parts
  <2> DEFINE closed == [state |-> "Closed", socket |-> FALSE]
  <2>1. FALSE \in BOOLEAN /\ "Closed" \in States
    BY DEF States
  <2>2. closed \in LinkStates
    BY <2>1 DEF LinkStates
  <2>3. closed.socket = FALSE /\ closed.state = "Closed"
    OBVIOUS
  <2>4. link[p] \in LinkStates
    BY DEF LinkOK
  <2> HIDE DEF closed
  <2>5. CASE link[p].socket
    <3>1. link'[p] = closed
      BY <1>1, <2>5 DEF closed
    <3> QED BY <2>2, <2>3, <3>1
  <2>6. CASE ~link[p].socket
    BY <1>1, <2>4, <2>6
  <2> QED BY <2>5, <2>6
<1>3. link' \in [Parts -> LinkStates]
  <2>1. link' = [p \in Parts |-> link'[p]]
    BY DEF Cleanup
  <2> QED BY <1>2, <2>1
<1>4. /\ link'.udp.state = "Closed" \/ link'.udp = link.udp
      /\ link'.tcp.state = "Closed" \/ link'.tcp = link.tcp
      /\ link'.data.state = "Closed" \/ link'.data = link.data
      /\ ~link'.udp.socket /\ ~link'.tcp.socket /\ ~link'.data.socket
  BY <1>2 DEF Parts
<1>5. fails' = fails
  BY DEF Cleanup
<1>6. ~link.udp.socket => link'.udp = link.udp
  BY <1>1 DEF Parts
<1>7. OneControl'
  BY <1>4, <1>6 DEF LinkOK, UdpInUse, OneControl
<1> QED BY <1>2, <1>3, <1>4, <1>5, <1>7 DEF LinkOK, UdpInUse, NoSockets

-----------------------------------------------------------------------------
(***************************************************************************)
(* The invariant                                                           *)
(***************************************************************************)
USE DEF linkVars, dataVars, monitorVars, mainVars, deviceVars, mainKeeps

LEMMA TodoFacts ==
    /\ Head(Settings) = "ip0" /\ Tail(Settings) = <<"ip1", "port">>
    /\ Head(<<"ip1", "port">>) = "ip1" /\ Tail(<<"ip1", "port">>) = <<"port">>
    /\ Head(<<"port">>) = "port" /\ Tail(<<"port">>) = <<>>
    /\ Settings # <<>> /\ <<"ip1", "port">> # <<>> /\ <<"port">> # <<>>
    /\ Settings # <<"ip1", "port">> /\ Settings # <<"port">>
    /\ <<"ip1", "port">> # <<"port">>
  BY DEF Settings

LEMMA InvTypes == LinkOK /\ Rest => TypeOK
  BY DEF LinkOK, LinkStates, Rest, TypeOK

\* A step of the monitor between its start and its end keeps what Places says.
LEMMA PlacesKept ==
    ASSUME Places, monitor \notin {"none", "ended"}, monitor' \notin {"none", "ended"},
           monitor' = "cleanup" => closing, main' = main, closing' = closing
    PROVE  Places'
  BY DEF Places

\* A step that tells the device nothing and after which nothing is to be told either.
LEMMA SettingsKept ==
    ASSUME SettingsOK, NoMore, peer' => peer, autoConfig' > 0 => autoConfig > 0,
           ~incomplete' => ~incomplete, ~closing' => ~closing,
           stream' = stream, todo' = todo, Told' => Told
    PROVE  SettingsOK'
<1>1. Expected' => Expected
  BY DEF Expected, NoMore
<1> QED BY <1>1 DEF SettingsOK

\* Where it does not matter what the device was told.
LEMMA SettingsVoid == ~Expected' => SettingsOK'
  BY DEF SettingsOK

LEMMA NoMoreSame == link' = link => NoMore
  BY DEF NoMore, NoSockets, TcpUp

LEMMA LinkSame == LinkOK /\ link' = link /\ fails' = fails => LinkOK'
  BY DEF LinkOK, UdpInUse, OneControl

LEMMA InvInit == Init => IInv
<1> SUFFICES ASSUME Init PROVE IInv
  OBVIOUS
<1>1. \A yes \in BOOLEAN : /\ Wanted(yes) \in LinkStates /\ ~Wanted(yes).socket
                           /\ Wanted(yes).state \in {"Wanted", "Deactivated"}
  <2> TAKE yes \in BOOLEAN
  <2>1. Wanted(yes).socket = FALSE /\ Wanted(yes).state \in {"Wanted", "Deactivated"}
    BY DEF Wanted
  <2>2. FALSE \in BOOLEAN /\ "Wanted" \in States /\ "Deactivated" \in States
    BY DEF States
  <2>3. Wanted(yes) \in LinkStates
    BY <2>2 DEF Wanted, LinkStates
  <2> QED BY <2>1, <2>3
<1>2. PICK u \in BOOLEAN, t \in BOOLEAN, d \in BOOLEAN :
          link = [udp |-> Wanted(u), tcp |-> Wanted(t), data |-> Wanted(d)]
  <2>1. /\ ("udp" \in config.control) \in BOOLEAN /\ ("tcp" \in config.control) \in BOOLEAN
        /\ (config.data # "none") \in BOOLEAN
    OBVIOUS
  <2> HIDE DEF Wanted
  <2> QED BY <2>1, Zenon DEF Init
<1>3. /\ link \in [Parts -> LinkStates]
      /\ link.udp.state \in {"Wanted", "Deactivated"} /\ ~link.udp.socket
      /\ link.tcp.state \in {"Wanted", "Deactivated"} /\ ~link.tcp.socket
      /\ link.data.state \in {"Wanted", "Deactivated"} /\ ~link.data.socket
  <2> HIDE DEF Wanted
  <2> QED BY <1>1, <1>2 DEF Parts
<1>4. fails \in 0 .. LostAfter
  BY DEF Init, LostAfter
<1>5. LinkOK
  BY <1>3, <1>4 DEF LinkOK, UdpInUse, OneControl
<1>6. Rest
  <2>1. /\ reconnected \in BOOLEAN /\ first \in BOOLEAN /\ incomplete \in BOOLEAN
        /\ semaphore \in BOOLEAN /\ closing \in BOOLEAN /\ peer \in BOOLEAN
        /\ stream \subseteq AllSettings /\ addr \in BOOLEAN
    BY Zenon DEF Init
  <2>2. autoConfig \in {-1, 0, 1} /\ restarts \in 0 .. MaxRestarts
    BY ConnectionAssumption DEF Init
  <2> QED BY <2>1, <2>2 DEF Init, Rest
<1>7. Places
  BY <1>3 DEF Init, Places, NoSockets, Parts
<1>8. SettingsOK
  BY <1>3 DEF SettingsOK, Expected, TcpUp
<1> QED BY <1>5, <1>6, <1>7, <1>8 DEF IInv

-----------------------------------------------------------------------------
(***************************************************************************)
(* The cycle of the monitor                                                *)
(***************************************************************************)
\* Steps of the monitor that leave the connections alone.
LEMMA QuietSteps ==
    ASSUME IInv,
           Loop \/ UdpAsItIs \/ TcpAsItIs \/ NoAutoConfig \/ UdpDataAsItIs \/ BeginSettings
                \/ NoProbe
    PROVE  IInv'
<1> USE DEF IInv
<1>1. LinkOK'
  BY LinkSame DEF Loop, UdpAsItIs, TcpAsItIs, NoAutoConfig, UdpDataAsItIs, BeginSettings, NoProbe
<1>2. NoMore
  BY NoMoreSame DEF Loop, UdpAsItIs, TcpAsItIs, NoAutoConfig, UdpDataAsItIs, BeginSettings, NoProbe
<1>3. CASE Loop
  <2>1. Rest'
    BY <1>3 DEF Rest, Loop, ContinueAt
  <2>2. Places'
    BY <1>3, PlacesKept DEF Loop, ContinueAt
  <2>3. SettingsOK'
    BY <1>2, <1>3, SettingsKept DEF Loop, Told
  <2> QED BY <1>1, <2>1, <2>2, <2>3
<1>4. CASE UdpAsItIs
  <2>1. Rest'
    BY <1>4 DEF Rest, UdpAsItIs, ContinueAt
  <2>2. Places'
    BY <1>4, PlacesKept DEF UdpAsItIs, ContinueAt
  <2>3. SettingsOK'
    BY <1>2, <1>4, SettingsKept DEF UdpAsItIs, Told
  <2> QED BY <1>1, <2>1, <2>2, <2>3
<1>5. CASE TcpAsItIs
  <2>1. Rest'
    BY <1>5 DEF Rest, TcpAsItIs, ContinueAt
  <2>2. Places'
    BY <1>5, PlacesKept DEF TcpAsItIs, ContinueAt
  <2>3. SettingsOK'
    BY <1>2, <1>5, SettingsKept DEF TcpAsItIs, Told
  <2> QED BY <1>1, <2>1, <2>2, <2>3
<1>6. CASE NoAutoConfig
  <2>1. Rest'
    BY <1>6 DEF Rest, NoAutoConfig, ContinueAt
  <2>2. Places'
    BY <1>6, PlacesKept DEF NoAutoConfig, ContinueAt
  <2>3. SettingsOK'
    BY <1>2, <1>6, SettingsKept DEF NoAutoConfig, ContinueAt, Told
  <2> QED BY <1>1, <2>1, <2>2, <2>3
<1>7. CASE UdpDataAsItIs
  <2>1. Rest'
    BY <1>7 DEF Rest, UdpDataAsItIs, ContinueAt
  <2>2. Places'
    BY <1>7, PlacesKept DEF UdpDataAsItIs, ContinueAt
  <2>3. SettingsOK'
    BY <1>2, <1>7, SettingsKept DEF UdpDataAsItIs, ContinueAt, Told
  <2> QED BY <1>1, <2>1, <2>2, <2>3
<1>8. CASE BeginSettings
  <2>1. Rest'
    BY <1>8, TodoFacts DEF Rest, BeginSettings, GoTo
  <2>2. Places'
    BY <1>8, PlacesKept DEF BeginSettings, GoTo
  <2>3. Expected' => Expected
    BY <1>2, <1>8 DEF BeginSettings, Expected, NoMore
  <2>4. ASSUME Expected /\ reconnected PROVE SettingsOK'
    <3>1. todo' = Settings /\ monitor' = "registers"
      BY <1>8, <2>4 DEF BeginSettings, GoTo, Expected, ControlConnected
    <3>2. ~Told'
      BY <3>1 DEF Told
    <3> QED BY <3>1, <3>2, TodoFacts DEF SettingsOK
  <2>5. ASSUME Expected /\ ~reconnected PROVE SettingsOK'
    <3>1. stream' = AllSettings
      BY <1>8, <2>5 DEF BeginSettings, SettingsOK, Told
    <3>2. todo' = <<>>
      BY <1>8, <2>5 DEF BeginSettings
    <3> QED BY <3>1, <3>2, TodoFacts DEF SettingsOK
  <2>6. SettingsOK'
    BY <2>3, <2>4, <2>5, SettingsVoid
  <2> QED BY <1>1, <2>1, <2>2, <2>6
<1>9. CASE NoProbe
  <2>1. Rest'
    BY <1>9 DEF Rest, NoProbe, GoTo
  <2>2. Places'
    BY <1>9, PlacesKept DEF NoProbe, GoTo
  <2>3. SettingsOK'
    BY <1>2, <1>9, SettingsKept DEF NoProbe, GoTo, Told
  <2> QED BY <1>1, <2>1, <2>2, <2>3
<1> QED BY <1>3, <1>4, <1>5, <1>6, <1>7, <1>8, <1>9

LEMMA UdpSteps ==
    ASSUME IInv, UdpConnects \/ UdpConnectFails
    PROVE  IInv'
<1> USE DEF IInv
<1>1. CASE UdpConnects
  <2>1. LinkOK' /\ ~TcpUp'
    BY <1>1, UdpConnectKeeps
  <2>2. Rest'
    BY <1>1, Zenon DEF Rest, UdpConnects, ContinueAt
  <2>3. Places'
    BY <1>1, PlacesKept DEF UdpConnects, ContinueAt
  <2>4. SettingsOK'
    BY <2>1, SettingsVoid DEF Expected
  <2> QED BY <2>1, <2>2, <2>3, <2>4
<1>2. CASE UdpConnectFails
  <2>1. fails' \in 0 .. LostAfter
    <3>1. Plus(fails, 1) \in 0 .. LostAfter
      BY PlusTypes DEF LinkOK
    <3>2. 0 \in 0 .. LostAfter
      BY DEF LostAfter
    <3> QED BY <1>2, <3>1, <3>2 DEF UdpConnectFails, LinkOK
  <2>2. LinkOK'
    BY <1>2, <2>1 DEF UdpConnectFails, LinkOK, UdpInUse, OneControl
  <2>3. Rest'
    BY <1>2 DEF Rest, UdpConnectFails, ContinueAt
  <2>4. Places'
    BY <1>2, PlacesKept DEF UdpConnectFails, ContinueAt
  <2>5. SettingsOK'
    BY <1>2, NoMoreSame, SettingsKept DEF UdpConnectFails, Told
  <2> QED BY <2>2, <2>3, <2>4, <2>5
<1> QED BY <1>1, <1>2

LEMMA TcpSteps ==
    ASSUME IInv, TcpConnects \/ TcpConnectFails
    PROVE  IInv'
<1> USE DEF IInv
<1>1. CASE TcpConnects
  <2>1. LinkOK'
    BY <1>1, TcpConnectKeeps
  <2>2. reconnected' \in BOOLEAN /\ peer' \in BOOLEAN /\ incomplete' \in BOOLEAN
    BY <1>1, Zenon DEF TcpConnects
  <2>3. Rest'
    BY <1>1, <2>2 DEF Rest, TcpConnects, ContinueAt
  <2>4. Places'
    BY <1>1, PlacesKept DEF TcpConnects, ContinueAt
  <2>5. SettingsOK'
    <3>1. todo' = <<>> /\ ~Told'
      BY <1>1 DEF TcpConnects, Rest, ContinueAt, Told
    <3> QED BY <3>1, TodoFacts DEF SettingsOK
  <2> QED BY <2>1, <2>3, <2>4, <2>5
<1>2. CASE TcpConnectFails
  <2>1. LinkOK' /\ ~TcpUp'
    BY <1>2, TcpFailKeeps
  <2>2. Rest'
    BY <1>2 DEF Rest, TcpConnectFails, ContinueAt
  <2>3. Places'
    BY <1>2, PlacesKept DEF TcpConnectFails, ContinueAt
  <2>4. SettingsOK'
    BY <2>1, SettingsVoid DEF Expected
  <2> QED BY <2>1, <2>2, <2>3, <2>4
<1> QED BY <1>1, <1>2

LEMMA DataSteps ==
    ASSUME IInv, AutoConfigSucceeds \/ AutoConfigFails \/ UdpDataBinds
    PROVE  IInv'
<1> USE DEF IInv
<1>1. CASE AutoConfigSucceeds
  <2>1. Exchange
    <3>1. TypeOK /\ 0 \in 0 .. LostAfter /\ LostAfter \in Nat
      BY InvTypes DEF LostAfter
    <3> QED BY <1>1, <3>1, ExchangeFacts, UdpExchange, TcpExchange DEF AutoConfigSucceeds
  <2>2. LinkOK' /\ NoMore
    BY <2>1, ExchangeKeeps
  <2>3. addr' \in BOOLEAN
    BY <1>1, Zenon DEF AutoConfigSucceeds
  <2>4. Rest'
    BY <1>1, <2>3 DEF Rest, AutoConfigSucceeds, ContinueAt
  <2>5. Places'
    BY <1>1, PlacesKept DEF AutoConfigSucceeds, ContinueAt
  <2>6. SettingsOK'
    BY <1>1, <2>2, SettingsKept DEF AutoConfigSucceeds, ContinueAt, Told
  <2> QED BY <2>2, <2>4, <2>5, <2>6
<1>2. CASE AutoConfigFails
  <2>1. Exchange
    <3>1. TypeOK /\ LostAfter \in Nat
      BY InvTypes DEF LostAfter
    <3> QED BY <1>2, <3>1, ExchangeFacts DEF AutoConfigFails
  <2>2. LinkOK' /\ NoMore
    BY <2>1, ExchangeKeeps
  <2>3. Rest'
    BY <1>2 DEF Rest, AutoConfigFails, ContinueAt
  <2>4. Places'
    BY <1>2, PlacesKept DEF AutoConfigFails, ContinueAt
  <2>5. SettingsOK'
    <3>1. ~(autoConfig' > 0)
      BY <1>2 DEF AutoConfigFails
    <3> QED BY <3>1, SettingsVoid DEF Expected
  <2> QED BY <2>2, <2>3, <2>4, <2>5
<1>3. CASE UdpDataBinds
  <2>1. LinkOK'
    BY <1>3, BindKeeps
  <2>2. reconnected' \in BOOLEAN
    BY <1>3, Zenon DEF UdpDataBinds
  <2>3. Rest'
    BY <1>3, <2>2 DEF Rest, UdpDataBinds, ContinueAt
  <2>4. Places'
    BY <1>3, PlacesKept DEF UdpDataBinds, ContinueAt
  <2>5. SettingsOK'
    <3>1. todo' = <<>> /\ ~Told'
      BY <1>3 DEF UdpDataBinds, Rest, ContinueAt, Told
    <3> QED BY <3>1, TodoFacts DEF SettingsOK
  <2> QED BY <2>1, <2>3, <2>4, <2>5
<1> QED BY <1>1, <1>2, <1>3

LEMMA RegisterSteps ==
    ASSUME IInv, SettingAnswered \/ SettingFails
    PROVE  IInv'
<1> USE DEF IInv
<1>1. TypeOK /\ LostAfter \in Nat
  BY InvTypes DEF LostAfter
<1>2. LinkOK' /\ NoMore
  <2>1. Exchange
    BY <1>1, ExchangeFacts DEF SettingAnswered, SettingFails
  <2> QED BY <2>1, ExchangeKeeps
<1>3. todo \in {Settings, <<"ip1", "port">>, <<"port">>} /\ monitor = "registers"
  BY DEF Rest, SettingAnswered, SettingFails
<1>4. Head(todo) \in AllSettings /\ Tail(todo) \in {<<>>, <<"ip1", "port">>, <<"port">>}
  BY <1>3, TodoFacts DEF AllSettings
<1>5. /\ todo' \in {<<>>, <<"ip1", "port">>, <<"port">>}
      /\ monitor' = IF todo' = <<>> THEN "probe" ELSE "registers"
      /\ UNCHANGED <<config, dataVars, reconnected, first, mainVars, peer, restarts>>
  BY <1>4 DEF SettingAnswered, SettingFails, After, GoTo
<1>6. Places'
  BY <1>3, <1>5, PlacesKept
<1>7. CASE SettingAnswered
  <2>1. stream' \subseteq AllSettings /\ incomplete' = incomplete
    BY <1>4, <1>7 DEF Rest, SettingAnswered
  <2>2. Rest'
    BY <1>5, <2>1, TodoFacts DEF Rest
  <2>3. ASSUME Expected /\ Expected' PROVE SettingsOK'
    <3>1. stream' = stream \cup {Head(todo)} /\ todo' = Tail(todo)
      <4>1. autoConfig > 0 /\ autoConfig \in Int
        BY <2>3 DEF Expected, Rest
      <4> QED BY <1>7, <4>1 DEF SettingAnswered, After
    <3>2. todo' = <<"ip1", "port">> => "ip0" \in stream'
      BY <1>3, <3>1, TodoFacts
    <3>3. todo' = <<"port">> => {"ip0", "ip1"} \subseteq stream'
      BY <1>3, <2>3, <3>1, TodoFacts DEF SettingsOK
    <3>4. todo' = <<>> => stream' = AllSettings
      BY <1>3, <2>1, <2>3, <3>1, TodoFacts DEF SettingsOK, AllSettings
    <3>5. Told' => todo' = <<>>
      BY <1>5 DEF Told
    <3> QED BY <3>2, <3>3, <3>4, <3>5 DEF SettingsOK
  <2>4. Expected' => Expected
    BY <1>2, <1>5, <2>1 DEF Expected, NoMore
  <2>5. SettingsOK'
    BY <2>3, <2>4, SettingsVoid
  <2> QED BY <1>2, <1>6, <2>2, <2>5
<1>8. CASE SettingFails
  <2>1. stream' \subseteq AllSettings /\ incomplete' = TRUE
    BY <1>4, <1>8 DEF Rest, SettingFails
  <2>2. incomplete' \in BOOLEAN
    BY <2>1
  <2>3. Rest'
    BY <1>5, <2>1, <2>2, TodoFacts DEF Rest
  <2>4. SettingsOK'
    BY <2>1, SettingsVoid DEF Expected
  <2> QED BY <1>2, <1>6, <2>3, <2>4
<1> QED BY <1>7, <1>8

LEMMA ProbeSteps ==
    ASSUME IInv, ProbeAnswered \/ ProbeFails
    PROVE  IInv'
<1> USE DEF IInv
<1>1. TypeOK /\ 1 \in Nat
  BY InvTypes
<1>2. LinkOK' /\ NoMore
  <2>1. Exchange
    BY <1>1, ExchangeFacts DEF ProbeAnswered, ProbeFails
  <2> QED BY <2>1, ExchangeKeeps
<1>3. /\ monitor = "probe" /\ monitor' = "detect"
      /\ UNCHANGED <<config, dataVars, reconnected, first, todo, incomplete, mainVars, deviceVars>>
  BY DEF ProbeAnswered, ProbeFails, GoTo
<1>4. Rest'
  BY <1>3 DEF Rest
<1>5. Places'
  BY <1>3, PlacesKept
<1>6. SettingsOK'
  BY <1>2, <1>3, SettingsKept DEF Told
<1> QED BY <1>2, <1>4, <1>5, <1>6

LEMMA EndSteps ==
    ASSUME IInv, DetectLoss \/ Cleanup
    PROVE  IInv'
<1> USE DEF IInv
<1>1. CASE DetectLoss
  <2>1. LinkOK' /\ NoMore
    BY <1>1, LossKeeps DEF DetectLoss
  <2>2. first' \in BOOLEAN /\ semaphore' \in BOOLEAN
    BY <1>1, Zenon DEF DetectLoss, Rest
  <2>3. Rest'
    BY <1>1, <2>2 DEF Rest, DetectLoss, GoTo
  <2>4. Places'
    BY <1>1, PlacesKept DEF DetectLoss, GoTo
  <2>5. SettingsOK'
    BY <1>1, <2>1, SettingsKept DEF DetectLoss, GoTo, Told
  <2> QED BY <2>1, <2>3, <2>4, <2>5
<1>2. CASE Cleanup
  <2>1. LinkOK' /\ NoSockets'
    BY <1>2, CleanupKeeps
  <2>2. first' \in BOOLEAN /\ semaphore' \in BOOLEAN
    BY <1>2, Zenon DEF Cleanup, Rest
  <2>3. Rest'
    BY <1>2, <2>2 DEF Rest, Cleanup, GoTo
  <2>4. Places'
    BY <1>2, <2>1 DEF Places, Cleanup, GoTo
  <2>5. SettingsOK'
    <3>1. closing'
      BY <1>2 DEF Places, Cleanup
    <3> QED BY <3>1, SettingsVoid DEF Expected
  <2> QED BY <2>1, <2>3, <2>4, <2>5
<1> QED BY <1>1, <1>2

-----------------------------------------------------------------------------
(***************************************************************************)
(* Everybody else                                                          *)
(***************************************************************************)
LEMMA MainSteps ==
    ASSUME IInv, Main \/ UserCloses
    PROVE  IInv'
<1> USE DEF IInv
<1>1. /\ link' = link /\ fails' = fails
      /\ UNCHANGED mainKeeps
  BY DEF Main, StartMonitor, StartFails, WaitForMonitor, CheckControl, CheckData, JoinMonitor,
         UserCloses
<1>2. LinkOK' /\ NoMore
  BY <1>1, LinkSame, NoMoreSame
<1>3. CASE StartMonitor
  <2>1. monitor = "none" /\ NoSockets
    BY <1>3 DEF Places, StartMonitor
  <2>2. Rest'
    BY <1>1, <1>3, <2>1 DEF Rest, StartMonitor, GoTo
  <2>3. Places'
    BY <1>3 DEF Places, StartMonitor, GoTo
  <2>4. ~TcpUp'
    BY <1>2, <2>1 DEF LinkOK, NoMore, NoSockets, Parts, TcpUp
  <2> QED BY <1>2, <2>2, <2>3, <2>4, SettingsVoid DEF Expected
<1>4. CASE ~StartMonitor
  <2>1. monitor' = monitor
    BY <1>4 DEF Main, StartFails, WaitForMonitor, CheckControl, CheckData, JoinMonitor, UserCloses
  <2>2. closing' \in BOOLEAN /\ semaphore' \in BOOLEAN /\ (closing => closing')
    BY <1>4, Zenon DEF Rest, Main, StartFails, WaitForMonitor, CheckControl, CheckData,
                       JoinMonitor, UserCloses, Close
  <2>3. /\ main' \in {"start", "wait", "checkControl", "checkData", "open", "closing", "closed"}
        /\ main' = "closed" => monitor \in {"none", "ended"}
        /\ main' = "start" => main = "start"
    BY <1>4 DEF Rest, Main, StartFails, WaitForMonitor, CheckControl, CheckData,
                JoinMonitor, UserCloses, Close
  <2>4. Rest'
    BY <1>1, <2>1, <2>2, <2>3 DEF Rest
  <2>5. Places'
    BY <1>2, <2>1, <2>2, <2>3 DEF Places, NoMore
  <2>6. SettingsOK'
    BY <1>1, <1>2, <2>1, <2>2, SettingsKept DEF Told
  <2> QED BY <1>2, <2>4, <2>5, <2>6
<1> QED BY <1>3, <1>4

LEMMA CommandSteps ==
    ASSUME IInv, Command
    PROVE  IInv'
<1> USE DEF IInv
<1>1. LinkOK' /\ NoMore
  <2>1. TypeOK /\ LostAfter \in Nat
    BY InvTypes DEF LostAfter
  <2>2. Exchange
    BY <2>1, ExchangeFacts DEF Command
  <2> QED BY <2>2, ExchangeKeeps
<1>2. UNCHANGED <<config, dataVars, monitorVars, mainVars, deviceVars>>
  BY DEF Command
<1>3. Rest'
  BY <1>2 DEF Rest
<1>4. Places'
  BY <1>1, <1>2 DEF Places, NoMore
<1>5. SettingsOK'
  BY <1>1, <1>2, SettingsKept DEF Told
<1> QED BY <1>1, <1>3, <1>4, <1>5

LEMMA RestartSteps ==
    ASSUME IInv, DeviceRestarts
    PROVE  IInv'
<1> USE DEF IInv
<1>1. peer' = FALSE /\ UNCHANGED <<config, linkVars, dataVars, monitorVars, mainVars>>
  BY DEF DeviceRestarts
<1>2. LinkOK'
  BY <1>1, LinkSame
<1>3. Rest'
  <2>1. peer' \in BOOLEAN
    BY <1>1
  <2>2. restarts' \in 0 .. MaxRestarts
    BY ConnectionAssumption DEF Rest, DeviceRestarts
  <2>3. stream' \subseteq AllSettings
    BY DEF Rest, DeviceRestarts
  <2> QED BY <1>1, <2>1, <2>2, <2>3 DEF Rest
<1>4. Places'
  BY <1>1 DEF Places, NoSockets
<1>5. SettingsOK'
  BY <1>1, SettingsVoid DEF Expected
<1> QED BY <1>2, <1>3, <1>4, <1>5

LEMMA InvStep == IInv /\ [Next]_vars => IInv'
<1> SUFFICES ASSUME IInv, [Next]_vars PROVE IInv'
  OBVIOUS
<1>1. CASE UNCHANGED vars
  BY <1>1 DEF vars, IInv, LinkOK, UdpInUse, OneControl, Rest, Places, NoSockets, SettingsOK,
              Expected, TcpUp, Told
<1>2. CASE Monitor
  BY <1>2, QuietSteps, UdpSteps, TcpSteps, DataSteps, RegisterSteps, ProbeSteps, EndSteps
     DEF Monitor
<1> QED BY <1>1, <1>2, MainSteps, CommandSteps, RestartSteps DEF Next

LEMMA Invariant == Spec => []IInv
  BY InvInit, InvStep, PTL DEF Spec

-----------------------------------------------------------------------------
(***************************************************************************)
(* The theorems                                                            *)
(***************************************************************************)
\* Every variable keeps its type.
THEOREM TypeCorrect == Spec => []TypeOK
<1>1. IInv => TypeOK
  BY InvTypes DEF IInv
<1> QED BY <1>1, Invariant, PTL

\* No command, select or receive goes to a socket that is not open, whoever cut the
\* connection last, and a close leaves no socket open.
THEOREM SocketsCorrect == Spec => []SocketsMatchStates
<1>1. IInv => SocketsMatchStates
  BY DEF IInv, LinkOK, Places, NoSockets, SocketsMatchStates
<1> QED BY <1>1, Invariant, PTL

\* Once a control connection is up the other one is out of use for good.
THEOREM OneControlCorrect == Spec => []OneControl
<1>1. IInv => OneControl
  BY DEF IInv, LinkOK
<1> QED BY <1>1, Invariant, PTL

\* With automatic configuration a device on a live TCP connection streams to this
\* host, however often it restarted, unless a write failed on the way.
THEOREM StreamCorrect == Spec => []StreamComesHere
<1>1. IInv => StreamComesHere
  <2> SUFFICES ASSUME IInv, Expected,
                      monitor \notin {"autoConfig", "udpData", "settings", "registers"}
               PROVE  stream = AllSettings
    BY DEF StreamComesHere, Expected
  <2>1. link.tcp.socket /\ ~closing
    BY DEF IInv, LinkOK, Expected, TcpUp
  <2>2. monitor \notin {"none", "ended", "cleanup"}
    BY <2>1 DEF IInv, Places, NoSockets, Parts
  <2>3. Told
    BY <2>2 DEF IInv, Rest, Told
  <2> QED BY <2>3 DEF IInv, SettingsOK
<1> QED BY <1>1, Invariant, PTL

-----------------------------------------------------------------------------
(***************************************************************************)
(* What is decided once and for all                                        *)
(***************************************************************************)
\* What may happen to the control connections in a step.
LinkChange == \/ Exchange \/ UdpConnects \/ TcpConnects \/ TcpConnectFails
              \/ UdpDataBinds \/ DetectLoss \/ Cleanup \/ link' = link

LEMMA LinkSteps ==
    ASSUME IInv, Next
    PROVE  /\ LinkChange /\ config' = config /\ (closing => closing')
           /\ monitor = "ended" => monitor' = "ended"
<1>1. LinkChange
  <2>1. TypeOK /\ 0 \in 0 .. LostAfter /\ LostAfter \in Nat /\ 1 \in Nat
    BY InvTypes DEF LostAfter, IInv
  <2>2. CASE Command
    BY <2>1, <2>2, ExchangeFacts DEF Command, LinkChange
  <2>3. CASE AutoConfigSucceeds
    BY <2>1, <2>3, ExchangeFacts, UdpExchange, TcpExchange DEF AutoConfigSucceeds, LinkChange
  <2>4. CASE AutoConfigFails
    BY <2>1, <2>4, ExchangeFacts DEF AutoConfigFails, LinkChange
  <2>5. CASE SettingAnswered \/ SettingFails
    BY <2>1, <2>5, ExchangeFacts DEF SettingAnswered, SettingFails, LinkChange
  <2>6. CASE ProbeAnswered \/ ProbeFails
    BY <2>1, <2>6, ExchangeFacts DEF ProbeAnswered, ProbeFails, LinkChange
  <2>7. CASE Loop \/ UdpConnectFails \/ UdpAsItIs \/ TcpAsItIs \/ NoAutoConfig
             \/ UdpDataAsItIs \/ BeginSettings \/ NoProbe
    BY <2>7 DEF Loop, UdpConnectFails, UdpAsItIs, TcpAsItIs, NoAutoConfig, UdpDataAsItIs,
                BeginSettings, NoProbe, LinkChange
  <2>8. CASE Main \/ UserCloses \/ DeviceRestarts
    BY <2>8 DEF Main, StartMonitor, StartFails, WaitForMonitor, CheckControl, CheckData,
                JoinMonitor, UserCloses, DeviceRestarts, LinkChange
  <2>. QED
    BY <2>2, <2>3, <2>4, <2>5, <2>6, <2>7, <2>8 DEF Next, Monitor, LinkChange
<1>2. CASE Monitor
  BY <1>1, <1>2
  DEF Monitor, Loop, UdpConnects, UdpConnectFails, UdpAsItIs, TcpConnects, TcpConnectFails,
      TcpAsItIs, AutoConfigSucceeds, AutoConfigFails, NoAutoConfig, UdpDataBinds, UdpDataAsItIs,
      BeginSettings, SettingAnswered, SettingFails, ProbeAnswered, ProbeFails, NoProbe,
      DetectLoss, Cleanup
<1>3. CASE Main \/ UserCloses
  <2>1. monitor = "ended" => ~StartMonitor
    BY DEF IInv, Places, StartMonitor
  <2>. QED
    BY <1>1, <1>3, <2>1 DEF Main, StartMonitor, StartFails, WaitForMonitor, CheckControl,
                            CheckData, JoinMonitor, UserCloses, Close
<1>4. CASE Command \/ DeviceRestarts
  BY <1>1, <1>4 DEF Command, DeviceRestarts
<1>. QED
  BY <1>2, <1>3, <1>4 DEF Next

\* A control connection that is out of use and cannot come into use any more.
OutOfUse(part) == \/ link[part].state = "Deactivated"
                  \/ link[part].state = "Closed" /\ monitor = "ended"

LEMMA CleanedUp ==
    ASSUME Cleanup, NEW part \in Parts, link[part].state = "Deactivated"
    PROVE  OutOfUse(part)'
<1>. DEFINE shut == [state |-> "Closed", socket |-> FALSE]
<1>1. link'[part] = IF link[part].socket THEN shut ELSE link[part]
  BY DEF Cleanup
<1>2. monitor' = "ended" /\ shut.state = "Closed"
  BY DEF Cleanup, GoTo
<1>. HIDE DEF shut
<1>. QED
  BY <1>1, <1>2 DEF OutOfUse

LEMMA OutOfUseStays ==
    ASSUME IInv, [Next]_vars, NEW part \in {"udp", "tcp"}, OutOfUse(part)
    PROVE  OutOfUse(part)'
<1>1. CASE UNCHANGED vars
  BY <1>1 DEF vars, OutOfUse
<1>2. CASE Next
  <2>1. monitor = "ended" => monitor' = "ended"
    BY <1>2, LinkSteps
  <2>2. ASSUME link'[part] = link[part]
        PROVE  OutOfUse(part)'
    BY <2>1, <2>2 DEF OutOfUse
  <2>3. link \in [Parts -> LinkStates] /\ part \in Parts
    BY DEF IInv, LinkOK, Parts
  <2>4. CASE Exchange
    BY <2>2, <2>4 DEF Exchange, OutOfUse, Via, TcpUp
  <2>5. CASE UdpConnects
    <3>1. part = "tcp"
      BY <2>5 DEF UdpConnects, Missing, OutOfUse
    <3>2. link'.tcp.state = "Deactivated"
      BY <2>3, <2>5 DEF UdpConnects, LinkStates, Parts
    <3>. QED
      BY <3>1, <3>2 DEF OutOfUse
  <2>6. CASE TcpConnects
    <3>1. part = "udp"
      BY <2>6 DEF TcpConnects, Missing, OutOfUse
    <3>2. link'.udp.state = "Deactivated"
      BY <2>3, <2>6 DEF TcpConnects, LinkStates, Parts
    <3>. QED
      BY <3>1, <3>2 DEF OutOfUse
  <2>7. CASE TcpConnectFails
    <3>1. part = "udp"
      BY <2>7 DEF TcpConnectFails, Missing, OutOfUse
    <3>2. link'.udp = link.udp
      BY <2>3, <2>7 DEF TcpConnectFails, Parts
    <3>. QED
      BY <2>2, <3>1, <3>2
  <2>8. CASE UdpDataBinds
    BY <2>2, <2>3, <2>8 DEF UdpDataBinds, Parts
  <2>9. CASE DetectLoss
    <3>1. /\ UdpUp => part = "tcp"
          /\ TcpUp => part = "udp"
      BY <2>9 DEF DetectLoss, OutOfUse, UdpUp, TcpUp
    <3>. QED
      BY <2>2, <2>3, <2>9, <3>1 DEF DetectLoss, Cut, Parts
  <2>10. CASE Cleanup
    <3>1. link[part].state = "Deactivated"
      BY <2>10 DEF Cleanup, OutOfUse
    <3>. QED
      BY <2>3, <2>10, <3>1, CleanedUp
  <2>. QED
    BY <1>2, <2>2, <2>4, <2>5, <2>6, <2>7, <2>8, <2>9, <2>10, LinkSteps DEF LinkChange
<1>. QED
  BY <1>1, <1>2

\* Commands never change their wire: once UDP was connected TCP never is, in the life
\* of the handle, and the other way round; through all losses and reconnections, and
\* while the handle is closed.
THEOREM WireForLife == Spec => [](UdpUp => []~TcpUp) /\ [](TcpUp => []~UdpUp)
<1>1. IInv /\ UdpUp => OutOfUse("tcp")
  BY DEF IInv, LinkOK, OneControl, UdpUp, OutOfUse
<1>2. IInv /\ TcpUp => OutOfUse("udp")
  BY DEF IInv, LinkOK, OneControl, TcpUp, OutOfUse
<1>3. OutOfUse("tcp") => ~TcpUp
  BY DEF OutOfUse, TcpUp
<1>4. OutOfUse("udp") => ~UdpUp
  BY DEF OutOfUse, UdpUp
<1>5. IInv /\ [Next]_vars /\ OutOfUse("tcp") => OutOfUse("tcp")'
  BY OutOfUseStays
<1>6. IInv /\ [Next]_vars /\ OutOfUse("udp") => OutOfUse("udp")'
  BY OutOfUseStays
<1>. QED
  BY <1>1, <1>2, <1>3, <1>4, <1>5, <1>6, Invariant, PTL DEF Spec

UdpUnwanted == "udp" \notin config.control

LEMMA UnwantedStep ==
    ASSUME IInv, [Next]_vars, UdpUnwanted => OutOfUse("udp")
    PROVE  (UdpUnwanted => OutOfUse("udp"))'
<1>1. config' = config
  BY LinkSteps DEF vars
<1>. QED
  BY <1>1, OutOfUseStays DEF UdpUnwanted

LEMMA StuckStep ==
    ASSUME IInv, [Next]_vars, OutOfUse("udp"), closing \/ Stuck
    PROVE  closing' \/ Stuck'
<1>. SUFFICES ASSUME ~closing, Stuck, ~closing'
              PROVE  Stuck'
  BY LinkSteps DEF vars
<1>1. ASSUME link'.tcp = link.tcp
      PROVE  Stuck'
  BY <1>1 DEF Stuck
<1>2. link \in [Parts -> LinkStates] /\ ~UdpUp /\ ~TcpUp /\ Via = "none"
  BY DEF IInv, LinkOK, Stuck, OutOfUse, UdpUp, TcpUp, Via
<1>3. CASE UNCHANGED vars
  BY <1>1, <1>3 DEF vars
<1>4. CASE Exchange
  BY <1>1, <1>2, <1>4 DEF Exchange
<1>5. CASE UdpConnects
  BY <1>5 DEF UdpConnects, Missing, OutOfUse
<1>6. CASE TcpConnects \/ TcpConnectFails
  BY <1>6 DEF TcpConnects, TcpConnectFails, Missing, Stuck
<1>7. CASE UdpDataBinds
  BY <1>1, <1>2, <1>7 DEF UdpDataBinds, Parts
<1>8. CASE DetectLoss
  BY <1>1, <1>2, <1>8 DEF DetectLoss
<1>9. CASE Cleanup
  BY <1>9 DEF IInv, Places, Cleanup
<1>. QED
  BY <1>1, <1>3, <1>4, <1>5, <1>6, <1>7, <1>8, <1>9, LinkSteps DEF LinkChange

\* A failed connect that left its socket open is the end for a handle without UDP
\* control: until the user closes it TCP is not tried again, and no command goes out.
THEOREM StuckForGood ==
    Spec => [](Stuck /\ UdpUnwanted => [](closing \/ (Stuck /\ Via = "none")))
<1>1. Init => (UdpUnwanted => OutOfUse("udp"))
  <2>1. ASSUME Init, UdpUnwanted
        PROVE  link.udp.state = "Deactivated"
    BY <2>1 DEF Init, UdpUnwanted, Wanted
  <2>. QED
    BY <2>1 DEF OutOfUse
<1>2. IInv /\ [Next]_vars /\ (UdpUnwanted => OutOfUse("udp")) => (UdpUnwanted => OutOfUse("udp"))'
  BY UnwantedStep
<1>. DEFINE P == UdpUnwanted /\ (closing \/ Stuck)
<1>3. IInv /\ [Next]_vars /\ (UdpUnwanted => OutOfUse("udp")) /\ P => P'
  <2>1. [Next]_vars /\ IInv => config' = config
    BY LinkSteps DEF vars
  <2>. QED
    BY <2>1, StuckStep DEF UdpUnwanted
<1>4. (UdpUnwanted => OutOfUse("udp")) /\ P => closing \/ (Stuck /\ Via = "none")
  BY DEF Stuck, OutOfUse, TcpUp, Via
<1>5. Stuck /\ UdpUnwanted => P
  OBVIOUS
<1>. HIDE DEF P
<1>. QED
  BY <1>1, <1>2, <1>3, <1>4, <1>5, Invariant, PTL DEF Spec

=============================================================================
