-------------------------- MODULE WiFiLock_proofs ---------------------------
(***************************************************************************)
(* Whatever the module says and when, whatever goes wrong and however      *)
(* often: the variables keep their types, and the websocket and the socket *)
(* below it come and go together.  If the module speaks in turn, no check  *)
(* of the target state stays behind.                                       *)
(***************************************************************************)
EXTENDS WiFiLock, SequenceTheorems, WellFoundedInduction, TLAPS

(* What the tasks, the firmware and the module say to each other.          *)
Units == {"GET", "text", "close"}

State == [comm : SUBSET {"Tx", "Rx"}, sckt : Sckts, conn : Conns, dev : Devs]

Orders == {"AT+CWMODE_CUR", "AT+CWJAP_CUR", "AT+CWSTARTSMART", "AT+CWSTOPSMART",
           "AT+CIPSTART", "AT+CIPCLOSE", "AT+CWQAP"}

Answers == {"ready", "OK", "ERROR", "FAIL", "CLOSED", "CONNECT", "no ip", "DNS Fail",
            "WIFI CONNECTED", "WIFI GOT IP", "WIFI DISCONNECT", "+CWJAP:", "busy p...",
            "smartconfig type:", "ssid:", "password:", "smartconfig connected wifi",
            "SEND OK", "SEND FAIL"}

Payloads == {"101", "404", "text", "close", "PAIRING!", "WSCLOSE!", "malformed"}

Plain == [at : Orders \cup Answers]
Sending == [at : {"AT+CIPSEND"}, n : Nat]

Command == Plain \cup Sending \cup [at : {"data"}, units : Seq(Units)]
Line == Plain \cup Sending \cup [at : {"+IPD"}, data : Payloads]

Message ==
  [head : {"ATCmd"}, line : Line] \cup [head : {"HciWiFiState"}, state : State]
    \cup [head : {"RxDataStream"}, data : Payloads] \cup [head : {"TxDataStream"}, len : Nat]
    \cup [head : {"Update"}, credential : Credentials]

Flags ==
  /\ pwsInit \in BOOLEAN /\ isPairingEnable \in BOOLEAN
  /\ errReason \in BOOLEAN /\ receiving \in BOOLEAN

Firmware ==
  /\ hci \in HciType /\ hciWiFiState \in State /\ pfnATCmdProcessor \in Processors
  /\ txLen \in Nat /\ mail \in Seq(Message)
  /\ wsState \in WsStates /\ staged \subseteq Credentials /\ flash \subseteq Credentials
  /\ timers \subseteq AppFlags \cup {"HciEnable", "PairingTimeout"}
  /\ appEvents \subseteq AppFlags /\ keys \in Seq(Keys)
  /\ running \in {"None", "HciWiFi", "AppLock"} /\ held \subseteq HciFlags /\ fault \in Nat

Serial == cmds \in Seq(Command) /\ wire \in Seq(Line)

Typed == Flags /\ Firmware /\ Serial

Timers == SUBSET (AppFlags \cup {"HciEnable", "PairingTimeout"})

(* A pairing has its struct as long as it has a callback.                  *)
Allocated(h) == h.pPairingInitStruct # {} => "Allocated" \in h.pPairingInitStruct

IInv == Typed /\ WebSocketFollowsSocket /\ Allocated(hci)

(* If the module speaks in turn: a line comes when nothing is pending.     *)
(* Only the data of a packet may come while a check is, which is then held *)
(* by the scheduler: its messages clear no target.                         *)
NoCheck(h) == h.tarState = Zero => "CheckHciWiFiState" \notin h.events

IsData(msg) ==
  \/ msg.head = "RxDataStream"
  \/ msg.head = "ATCmd" /\ msg.line.at = "+IPD"

OnlyData(msgs) == \A i \in 1 .. Len(msgs) : IsData(msgs[i])

Announced ==
  receiving =>
    mail = << >> /\ running # "HciWiFi" /\ wire # << >> /\ Head(wire).at = "+IPD"

Waiting ==
  running = "None" /\ mail # << >> => hci.events = {} \/ OnlyData(mail)

Holding ==
  running = "HciWiFi" /\ "CheckHciWiFiState" \in held =>
    hci.tarState # Zero /\ OnlyData(mail)

Turns ==
  /\ NoCheck(hci)
  /\ Announced /\ Waiting /\ Holding
  /\ running = "AppLock" => mail = << >>

-----------------------------------------------------------------------------
(* What the calls on the record of the HCI leave as it was.                *)

Leads(h, g) ==
  /\ g \in HciType
  /\ g.pSocketInitStruct = h.pSocketInitStruct
  /\ h.pPairingInitStruct # {} => g.pPairingInitStruct # {}
  /\ Allocated(h) => Allocated(g)
  /\ NoCheck(h) => NoCheck(g)

Targets == {Alone, Joined, Pairing, Online}

(* A posted state is what the connection was told to be, or nothing.       *)
LEMMA States == Targets \cup {Zero} \subseteq State /\ Zero \notin Targets
BY DEF Targets, State, Zero, Alone, Joined, Pairing, Online, Ready, HCI_WIFI_STATE,
       Sckts, Conns, Devs

(* Each call on the record of the HCI keeps what Leads says.               *)
LEMMA TargetLeads ==
  ASSUME NEW h \in HciType, NEW s \in Targets
  PROVE  Leads(h, Target(h, s))
<1>1. s \in {Zero, Alone, Joined, Pairing, Online} /\ s # Zero
  BY States DEF Targets
<1> QED
  BY <1>1 DEF Leads, Target, HciType, HciFlags, Allocated, NoCheck

(* So does one call after another, and none.                               *)
LEMMA LeadsOn ==
  ASSUME NEW h, NEW g, NEW f, h \in HciType, Leads(h, g), Leads(g, f)
  PROVE  Leads(h, f)
BY DEF Leads

(* No call at all.                                                         *)
LEMMA SameLeads ==
  ASSUME NEW h \in HciType
  PROVE  Leads(h, h)
BY DEF Leads

(* A connection is asked for.                                              *)
LEMMA ConnectionLeads ==
  ASSUME NEW h \in HciType
  PROVE  Leads(h, HciWiFiSetConnection(h))
<1> DEFINE g == [h EXCEPT !.pConnInitStruct = "Connecting"]
<1>1. Leads(h, g)
  BY DEF Leads, HciType, Allocated, NoCheck
<1>2. g \in HciType
  BY <1>1 DEF Leads
<1> HIDE DEF g
<1>3. Leads(g, Target(g, Joined))
  BY <1>2, TargetLeads DEF Targets
<1>4. Leads(h, Target(g, Joined))
  BY <1>1, <1>3, LeadsOn
<1> QED BY <1>4, Zenon DEF HciWiFiSetConnection, g

(* Pairing is asked for.                                                   *)
LEMMA PairingLeads ==
  ASSUME NEW h \in HciType
  PROVE  Leads(h, HciWiFiPairingStart(h))
<1> DEFINE g == [h EXCEPT !.pPairingInitStruct = {"Allocated", "Success", "Failure"}]
<1>1. Leads(h, g)
  BY DEF Leads, HciType, Allocated, NoCheck
<1>2. g \in HciType
  BY <1>1 DEF Leads
<1> HIDE DEF g
<1>3. Leads(g, Target(g, Pairing))
  BY <1>2, TargetLeads DEF Targets
<1>4. Leads(h, Target(g, Pairing))
  BY <1>1, <1>3, LeadsOn
<1> QED BY <1>4, Zenon DEF HciWiFiPairingStart, g

(* The socket is to be closed.                                             *)
LEMMA CloseLeads ==
  ASSUME NEW h \in HciType
  PROVE  Leads(h, HciWiFiSocketClose(h))
BY TargetLeads DEF Targets, HciWiFiSocketClose

(* Data is queued for the socket.                                          *)
LEMMA SendLeads ==
  ASSUME NEW h \in HciType, NEW unit \in Units
  PROVE  Leads(h, HciWiFiSocketSend(h, unit))
<1> DEFINE fifo == Append(h.scktTxFIFO, unit)
           flags == h.events \cup {"TxPoll"}
<1>1. fifo \in Seq({"GET", "text", "close"}) /\ flags \in SUBSET HciFlags
  BY DEF HciType, Units, HciFlags
<1>2. "CheckHciWiFiState" \in flags <=> "CheckHciWiFiState" \in h.events
  OBVIOUS
<1> HIDE DEF fifo, flags
<1>3. Leads(h, [h EXCEPT !.scktTxFIFO = fifo, !.events = flags])
  BY <1>1, <1>2 DEF Leads, HciType, Allocated, NoCheck
<1>4. HciWiFiSocketSend(h, unit) \in {h, [h EXCEPT !.scktTxFIFO = fifo, !.events = flags]}
  BY Zenon DEF HciWiFiSocketSend, fifo, flags
<1> QED BY <1>3, <1>4, SameLeads, Zenon

(* The calls of the websocket and of the application.                      *)
LEMMA CallsLead ==
  ASSUME NEW h \in HciType, NEW data
  PROVE  /\ Leads(h, Handshake(h)) /\ Leads(h, WebSocketSend(h))
         /\ Leads(h, WebSocketClose(h)) /\ Leads(h, OnWebSocketRxData(h, data))
         /\ Leads(h, ThenPair(h))
<1>1. \A u \in Units : Leads(h, HciWiFiSocketSend(h, u))
  BY SendLeads
<1>2. Leads(h, Handshake(h)) /\ Leads(h, WebSocketSend(h)) /\ Leads(h, WebSocketClose(h))
  BY <1>1, SameLeads, Zenon DEF Handshake, WebSocketSend, WebSocketClose, Units
<1>3. Leads(h, OnWebSocketRxData(h, data))
  BY <1>2, Zenon DEF OnWebSocketRxData
<1>4. Leads(h, ThenPair(h))
  BY PairingLeads, SameLeads, Zenon DEF ThenPair
<1> QED BY <1>2, <1>3, <1>4

(* The target state is checked, if that is asked for.                      *)
LEMMA CheckLeads ==
  ASSUME NEW h \in HciType
  PROVE  Leads(h, CheckTarget(h))
<1>1. CASE h.curState = h.tarState
  <2> DEFINE g == [h EXCEPT !.tarState = Zero, !.events = @ \ {"CheckHciWiFiState"}]
  <2>1. Leads(h, g)
    BY DEF Leads, HciType, Allocated, NoCheck
  <2> QED BY <1>1, <2>1, Zenon DEF CheckTarget
<1>2. CASE h.curState # h.tarState /\ h.tarState # Zero /\ h.curState # Zero
  <2> DEFINE g == [h EXCEPT !.events = @ \cup {"CheckHciWiFiState"}]
  <2>1. Leads(h, g)
    BY <1>2 DEF Leads, HciType, HciFlags, Allocated, NoCheck
  <2> QED BY <1>2, <2>1, Zenon DEF CheckTarget
<1>3. CASE h.curState # h.tarState /\ ~(h.tarState # Zero /\ h.curState # Zero)
  BY <1>3, SameLeads, Zenon DEF CheckTarget
<1> QED BY <1>1, <1>2, <1>3

-----------------------------------------------------------------------------
(* The lines of the module.                                                *)

Change == {None} \cup {Dev(d) : d \in Devs} \cup {Conn(c) : c \in Conns}
            \cup {Sckt(k) : k \in Sckts}

InOrder(table) == \A r \in table : r.next \in Processors /\ r.change \in Change

(* A row of a reply table is a row of the type that it is given.           *)
LEMMA RowInOrder ==
  ASSUME NEW proc, NEW at, NEW next \in Processors, NEW change \in Change, NEW post
  PROVE  /\ Row(proc, at, next, change, post).next \in Processors
         /\ Row(proc, at, next, change, post).change \in Change
BY DEF Row

(* The changes that the tables name.                                       *)
LEMMA Changes ==
  /\ None \in Change
  /\ Dev("Initialized") \in Change /\ Dev("Initializing") \in Change
  /\ Sckt("Opened") \in Change /\ Sckt("Opening") \in Change
  /\ Sckt("Closed") \in Change /\ Sckt("Closing") \in Change
  /\ Conn("Connected") \in Change /\ Conn("Connecting") \in Change /\ Conn("GotIP") \in Change
  /\ Conn("Disconnected") \in Change /\ Conn("Disconnecting") \in Change
  /\ Conn("PairingWaiting") \in Change /\ Conn("PairingStarted") \in Change
  /\ Conn("PairingSuccess") \in Change /\ Conn("PairingFailure") \in Change
  /\ Conn("PairingStopped") \in Change
BY DEF Change, Devs, Sckts, Conns

(* The processors that the tables name.                                    *)
LEMMA ProcessorNames ==
  /\ "NULL" \in Processors /\ "CWMODE_CUR" \in Processors /\ "CWJAP_CUR" \in Processors
  /\ "CWSTARTSMART" \in Processors /\ "CWSTOPSMART" \in Processors
  /\ "CIPSTART" \in Processors /\ "CIPSEND" \in Processors /\ "CIPCLOSE" \in Processors
  /\ "CWQAP" \in Processors /\ "SmartConfig" \in Processors
  /\ "TxDataStream" \in Processors
BY DEF Processors

(* All rows of all tables name processors and changes.                     *)
LEMMA TablesInOrder ==
  ASSUME pfnATCmdProcessor \in Processors
  PROVE  InOrder(Replies) /\ InOrder(Unasked) /\ InOrder(Echoes)
<1>1. InOrder(JoinReplies)
  BY RowInOrder, Changes, ProcessorNames, Zenon DEF InOrder, JoinReplies
<1>2. InOrder(SmartReplies)
  BY RowInOrder, Changes, ProcessorNames, Zenon DEF InOrder, SmartReplies
<1>3. InOrder(OpenReplies)
  BY RowInOrder, Changes, ProcessorNames, Zenon DEF InOrder, OpenReplies
<1>4. InOrder(OtherReplies)
  BY RowInOrder, Changes, ProcessorNames, Zenon DEF InOrder, OtherReplies
<1>5. InOrder(SmartConfigLines)
  BY RowInOrder, Changes, ProcessorNames, Zenon DEF InOrder, SmartConfigLines
<1>6. InOrder(TxReplies)
  BY RowInOrder, Changes, ProcessorNames, Zenon DEF InOrder, TxReplies
<1>7. InOrder(Replies)
  BY <1>1, <1>2, <1>3, <1>4, <1>5, <1>6 DEF InOrder, Replies
<1>8. InOrder(Unasked)
  BY RowInOrder, Changes DEF InOrder, Unasked, Generic
<1>9. InOrder(Echoes)
  BY RowInOrder, Changes, ProcessorNames, Zenon DEF InOrder, Echoes
<1> QED BY <1>7, <1>8, <1>9

(* So do those that a line meets.                                          *)
LEMMA RowsInOrder ==
  ASSUME pfnATCmdProcessor \in Processors, NEW at, NEW row \in RowsFor(at)
  PROVE  row.next \in Processors /\ row.change \in Change
BY TablesInOrder DEF RowsFor, RowsIn, InOrder

(* A change of a state makes a state.                                      *)
LEMMA ChangedState ==
  ASSUME NEW s \in State, NEW c \in Change
  PROVE  Changed(s, c) \in State
<1>1. CASE c = None
  BY <1>1 DEF Changed, None
<1>2. ASSUME NEW d \in Devs, c = Dev(d) PROVE Changed(s, c) \in State
  BY <1>2 DEF Changed, Dev, State
<1>3. ASSUME NEW d \in Conns, c = Conn(d) PROVE Changed(s, c) \in State
  BY <1>3 DEF Changed, Conn, State
<1>4. ASSUME NEW d \in Sckts, c = Sckt(d) PROVE Changed(s, c) \in State
  BY <1>4 DEF Changed, Sckt, State
<1> QED BY <1>1, <1>2, <1>3, <1>4 DEF Change

(* What is posted for a line is a message.                                 *)
LEMMA PostedMessages ==
  ASSUME NEW line \in Line, txLen \in Nat
  PROVE  Posted(line) \in Seq(Message)
<1>1. CASE line.at = "+IPD"
  <2>1. line.data \in Payloads
    BY <1>1 DEF Line, Plain, Sending, Orders, Answers
  <2>2. [head |-> "RxDataStream", data |-> line.data] \in Message
    BY <2>1 DEF Message
  <2> QED BY <1>1, <2>2 DEF Posted
<1>2. CASE line.at # "+IPD"
  <2>1. /\ [head |-> "Update", credential |-> "ssid"] \in Message
        /\ [head |-> "Update", credential |-> "passwd"] \in Message
        /\ [head |-> "TxDataStream", len |-> txLen] \in Message
    BY DEF Message, Credentials
  <2> QED BY <1>2, <2>1 DEF Posted
<1> QED BY <1>1, <1>2

-----------------------------------------------------------------------------
(* The HCI, the websocket and the pairing together.                        *)

Core ==
  /\ hci \in HciType /\ wsState \in WsStates /\ staged \subseteq Credentials
  /\ pwsInit \in BOOLEAN /\ WebSocketFollowsSocket /\ Allocated(hci)

CoreStep == Core' /\ (NoCheck(hci) => NoCheck(hci'))

(* While the socket stays as it is, an open websocket may move on.         *)
Talking == {"Handshaking", "HandshakePass", "Closing"}

(* A step that leaves the socket and its websocket in place.               *)
LEMMA SocketStays ==
  ASSUME Core, Leads(hci, hci'), pwsInit' = pwsInit, staged' = staged,
         wsState' = wsState \/ (wsState \in Talking /\ wsState' \in Talking)
  PROVE  CoreStep
<1>1. hci' \in HciType /\ hci'.pSocketInitStruct = hci.pSocketInitStruct
      /\ Allocated(hci') /\ (NoCheck(hci) => NoCheck(hci'))
      /\ (staged' # {} => hci'.pPairingInitStruct # {})
  BY DEF Core, Leads, WebSocketFollowsSocket, HasPairing
<1>2. wsState' \in WsStates
      /\ (wsState' = "Closed" <=> hci'.pSocketInitStruct = "NULL")
      /\ (wsState' = "Opening" <=> hci'.pSocketInitStruct = "Opening")
  BY <1>1 DEF Core, WsStates, Talking, WebSocketFollowsSocket
<1>3. pwsInit' \in BOOLEAN /\ (pwsInit' <=> hci'.pSocketInitStruct # "NULL")
  BY <1>1, Zenon DEF Core, WebSocketFollowsSocket
<1> QED BY <1>1, <1>2, <1>3, Zenon DEF CoreStep, Core, WebSocketFollowsSocket, HasPairing

(* Both go, and a pairing may begin.                                       *)
LEMMA SocketGoes ==
  ASSUME Core, Leads([hci EXCEPT !.pSocketInitStruct = "NULL"], hci'),
         pwsInit' = FALSE, staged' = staged, wsState' = "Closed"
  PROVE  CoreStep
<1>1. hci' \in HciType /\ hci'.pSocketInitStruct = "NULL"
      /\ Allocated(hci') /\ (NoCheck(hci) => NoCheck(hci'))
      /\ (staged' # {} => hci'.pPairingInitStruct # {})
  BY DEF Core, Leads, WebSocketFollowsSocket, HasPairing, HciType, Allocated, NoCheck
<1> QED
  BY <1>1, Zenon DEF CoreStep, Core, WebSocketFollowsSocket, HasPairing, WsStates

(* Both come.                                                              *)
LEMMA SocketComes ==
  ASSUME Core, Leads([hci EXCEPT !.pSocketInitStruct = "Opening"], hci'),
         pwsInit' = TRUE, staged' = staged, wsState' = "Opening"
  PROVE  CoreStep
<1>1. hci' \in HciType /\ hci'.pSocketInitStruct = "Opening"
      /\ Allocated(hci') /\ (NoCheck(hci) => NoCheck(hci'))
      /\ (staged' # {} => hci'.pPairingInitStruct # {})
  BY DEF Core, Leads, WebSocketFollowsSocket, HasPairing, HciType, Allocated, NoCheck
<1> QED
  BY <1>1, Zenon DEF CoreStep, Core, WebSocketFollowsSocket, HasPairing, WsStates

(* The socket below it is open, and the websocket shakes hands.            *)
LEMMA SocketOpens ==
  ASSUME Core, Leads([hci EXCEPT !.pSocketInitStruct = "Opened"], hci'),
         hci.pSocketInitStruct = "Opening",
         pwsInit' = pwsInit, staged' = staged, wsState' = "Handshaking"
  PROVE  CoreStep
<1>1. hci' \in HciType /\ hci'.pSocketInitStruct = "Opened"
      /\ Allocated(hci') /\ (NoCheck(hci) => NoCheck(hci'))
      /\ (staged' # {} => hci'.pPairingInitStruct # {})
  BY DEF Core, Leads, WebSocketFollowsSocket, HasPairing, HciType, Allocated, NoCheck
<1>2. pwsInit' \in BOOLEAN /\ pwsInit'
  BY Zenon DEF Core, WebSocketFollowsSocket
<1> QED
  BY <1>1, <1>2, Zenon DEF CoreStep, Core, WebSocketFollowsSocket, HasPairing, WsStates

(* The handlers of a posted state; h has that state.                       *)
LEMMA CheckedLeads ==
  ASSUME Core, NEW h, Leads(hci, h), hci' = CheckTarget(h)
  PROVE  Leads(hci, hci')
<1>1. h \in HciType /\ hci \in HciType
  BY Zenon DEF Leads, Core
<1>2. Leads(h, CheckTarget(h))
  BY <1>1, CheckLeads, Zenon
<1>3. Leads(hci, CheckTarget(h))
  BY <1>1, <1>2, LeadsOn, Zenon
<1> QED BY <1>3, Zenon

(* What a handler sets besides, of no concern to the socket.               *)
LEMMA WithCurState ==
  ASSUME NEW h \in HciType, NEW state \in State
  PROVE  Leads(h, [h EXCEPT !.curState = state])
BY DEF Leads, HciType, State, Allocated, NoCheck

(* The struct of the connection.                                           *)
LEMMA WithConnection ==
  ASSUME NEW h \in HciType, NEW c \in {"NULL", "Connecting", "Connected"}
  PROVE  Leads(h, [h EXCEPT !.pConnInitStruct = c])
BY DEF Leads, HciType, Allocated, NoCheck

(* The data that waits for the socket.                                     *)
LEMMA WithFifo ==
  ASSUME NEW h \in HciType, NEW fifo \in Seq(Units)
  PROVE  Leads(h, [h EXCEPT !.scktTxFIFO = fifo])
BY DEF Leads, HciType, Allocated, NoCheck, Units

(* Both of them.                                                           *)
LEMMA WithBoth ==
  ASSUME NEW h \in HciType, NEW c \in {"NULL", "Connecting", "Connected"},
         NEW fifo \in Seq(Units)
  PROVE  Leads(h, [h EXCEPT !.pConnInitStruct = c, !.scktTxFIFO = fifo])
BY DEF Leads, HciType, Allocated, NoCheck, Units

(* The struct of the socket is freed, if there was one.                    *)
LEMMA FreedLeads ==
  ASSUME Core, NEW h, Leads(hci, h)
  PROVE  /\ FreeSocket(h) \in HciType
         /\ NoSocket => Leads(hci, FreeSocket(h))
         /\ ~NoSocket => Leads([hci EXCEPT !.pSocketInitStruct = "NULL"], FreeSocket(h))
<1> DEFINE g == [h EXCEPT !.pSocketInitStruct = "NULL"]
           f == [hci EXCEPT !.pSocketInitStruct = "NULL"]
<1>1. h \in HciType /\ hci \in HciType
  BY DEF Leads, Core
<1>2. f \in HciType /\ Leads(f, g) /\ g \in HciType
  BY <1>1 DEF Leads, HciType, Allocated, NoCheck
<1> HIDE DEF f, g
<1>3. Leads(g, ThenPair(g))
  BY <1>2, CallsLead
<1>4. Leads(f, ThenPair(g))
  BY <1>2, <1>3, LeadsOn, Zenon
<1>5. CASE NoSocket
  BY <1>1, <1>5, Zenon DEF FreeSocket
<1>6. CASE ~NoSocket
  <2>1. FreeSocket(h) = ThenPair(g)
    BY <1>6, Zenon DEF FreeSocket, g
  <2>2. Leads(f, FreeSocket(h)) /\ FreeSocket(h) \in HciType
    BY <1>4, <2>1, Zenon DEF Leads
  <2> QED BY <1>6, <2>2, Zenon DEF f
<1> QED BY <1>5, <1>6

(* What follows when the socket was freed, if there was one.               *)
LEMMA AfterFreeing ==
  ASSUME Core, NEW h, Leads(hci, h), NEW g, Leads(FreeSocket(h), g), hci' = CheckTarget(g),
         SocketClosed, staged' = staged
  PROVE  CoreStep
<1>1. FreeSocket(h) \in HciType /\ g \in HciType /\ hci \in HciType
  BY FreedLeads, Zenon DEF Leads, Core
<1>2. Leads(FreeSocket(h), hci')
  <2>1. Leads(g, CheckTarget(g))
    BY <1>1, CheckLeads, Zenon
  <2>2. Leads(FreeSocket(h), CheckTarget(g))
    BY <1>1, <2>1, LeadsOn, Zenon
  <2> QED BY <2>2, Zenon
<1>3. CASE NoSocket
  <2>1. Leads(hci, hci')
    BY <1>1, <1>2, <1>3, FreedLeads, LeadsOn, Zenon
  <2>2. wsState' = wsState /\ pwsInit' = pwsInit
    BY <1>3, Zenon DEF SocketClosed, wsVars
  <2> QED BY <2>1, <2>2, SocketStays
<1>4. CASE ~NoSocket
  <2> DEFINE f == [hci EXCEPT !.pSocketInitStruct = "NULL"]
  <2>1. f \in HciType
    BY <1>1 DEF HciType
  <2>2. Leads(f, hci')
    BY <1>2, <1>4, <2>1, FreedLeads, LeadsOn, Zenon
  <2>3. wsState' = "Closed" /\ pwsInit' = FALSE
    BY <1>4, Zenon DEF SocketClosed, onSocketClosed
  <2> QED BY <2>2, <2>3, SocketGoes
<1> QED BY <1>3, <1>4

(* The handler of a posted state keeps the core right, state by state.     *)
LEMMA StateStep ==
  ASSUME Core, NEW state \in State, ProcessHciState(state)
  PROVE  CoreStep
<1> DEFINE h == [hci EXCEPT !.curState = state]
<1>1. hci \in HciType /\ h \in HciType /\ Leads(hci, h)
  BY WithCurState DEF Core, Leads
<1>2. h.pSocketInitStruct = hci.pSocketInitStruct
      /\ h.pPairingInitStruct = hci.pPairingInitStruct
      /\ h.pConnInitStruct = hci.pConnInitStruct
  BY <1>1 DEF HciType
<1>3. \/ StateReported(h) \/ StateInitializing(h) \/ StateDisconnected(h)
      \/ StateOpened(h) \/ StateJoined(h) \/ StateClosing(h)
      \/ StatePaired(h) \/ StatePairingStopped(h)
  BY Zenon DEF ProcessHciState
<1>4. Zero \in State
  BY States
<1> HIDE DEF h
<1>5. CASE StateReported(h)
  <2>1. hci' = CheckTarget(h) /\ wsState' = wsState /\ pwsInit' = pwsInit /\ staged' = staged
    BY <1>5, Zenon DEF StateReported, Uninvolved, wsVars
  <2> QED BY <1>1, <2>1, CheckedLeads, SocketStays
<1>6. CASE StateInitializing(h)
  <2> DEFINE g == [h EXCEPT !.curState = Zero]
  <2>1. hci' = CheckTarget(g) /\ wsState' = wsState /\ pwsInit' = pwsInit /\ staged' = staged
    BY <1>6, Zenon DEF StateInitializing, Uninvolved, wsVars
  <2>2. Leads(hci, g)
    BY <1>1, <1>4, WithCurState, LeadsOn, Zenon
  <2> QED BY <2>1, <2>2, CheckedLeads, SocketStays, Zenon
<1>7. CASE StateDisconnected(h)
  <2> DEFINE g == [FreeSocket(h) EXCEPT !.pConnInitStruct = "NULL"]
  <2>1. hci' = CheckTarget(g) /\ SocketClosed /\ staged' = staged
    BY <1>7, Zenon DEF StateDisconnected
  <2>2. FreeSocket(h) \in HciType
    BY <1>1, FreedLeads
  <2>3. Leads(FreeSocket(h), g)
    BY <2>2, WithConnection
  <2> QED BY <1>1, <2>1, <2>3, AfterFreeing, Zenon
<1>8. CASE StateOpened(h)
  <2>1. pwsInit' = pwsInit /\ staged' = staged
    BY <1>8, Zenon DEF StateOpened, onSocketOpened, wsVars
  <2>2. CASE h.pSocketInitStruct = "Opening"
    <3> DEFINE f == [hci EXCEPT !.pSocketInitStruct = "Opened"]
               g == [h EXCEPT !.pSocketInitStruct = "Opened"]
    <3>1. hci' = CheckTarget(Handshake(g)) /\ wsState' = "Handshaking"
      BY <1>8, <2>2, Zenon DEF StateOpened, onSocketOpened
    <3>2. f \in HciType /\ Leads(f, g) /\ g \in HciType
      BY <1>1 DEF Leads, HciType, Allocated, NoCheck
    <3> HIDE DEF f, g
    <3>3. Leads(g, Handshake(g)) /\ Handshake(g) \in HciType
      BY <3>2, CallsLead, Zenon DEF Leads
    <3>4. Leads(Handshake(g), CheckTarget(Handshake(g)))
      BY <3>3, CheckLeads, Zenon
    <3>5. Leads(f, hci')
      BY <3>1, <3>2, <3>3, <3>4, LeadsOn, Zenon
    <3> QED BY <1>2, <2>1, <2>2, <3>1, <3>5, SocketOpens, Zenon DEF f
  <2>3. CASE h.pSocketInitStruct # "Opening"
    <3>1. hci' = CheckTarget(h) /\ wsState' = wsState
      BY <1>8, <2>3, Zenon DEF StateOpened, wsVars
    <3> QED BY <1>1, <2>1, <3>1, CheckedLeads, SocketStays, Zenon
  <2> QED BY <2>2, <2>3
<1>9. CASE StateJoined(h)
  <2> DEFINE e == FreeSocket(h)
             c == IF e.pConnInitStruct = "NULL" THEN e.pConnInitStruct ELSE "Connected"
             k == [e EXCEPT !.pConnInitStruct = c, !.scktTxFIFO = << >>]
  <2>1. e \in HciType
    BY <1>1, FreedLeads, Zenon
  <2>2. SocketClosed /\ staged' = staged
    BY <1>9, Zenon DEF StateJoined
  <2>3. hci' = CheckTarget(k)
    BY <1>9, Zenon DEF StateJoined
  <2> HIDE DEF e
  <2>4. c \in {"NULL", "Connecting", "Connected"}
    OBVIOUS
  <2> HIDE DEF c
  <2>5. Leads(e, k)
    <3>1. << >> \in Seq(Units)
      OBVIOUS
    <3> QED BY <2>1, <2>4, <3>1, WithBoth, Zenon
  <2> QED BY <1>1, <2>2, <2>3, <2>5, AfterFreeing, Zenon DEF e
<1>10. CASE StateClosing(h)
  <2> DEFINE g == [h EXCEPT !.scktTxFIFO = << >>]
  <2>1. hci' = CheckTarget(g) /\ wsState' = wsState /\ pwsInit' = pwsInit /\ staged' = staged
    BY <1>10, Zenon DEF StateClosing, Uninvolved, wsVars
  <2>2. << >> \in Seq(Units)
    OBVIOUS
  <2>3. Leads(hci, g)
    BY <1>1, <2>2, WithFifo, LeadsOn, Zenon
  <2> QED BY <2>1, <2>3, CheckedLeads, SocketStays, Zenon
<1>11. CASE StatePaired(h)
  <2>1. wsState' = wsState /\ pwsInit' = pwsInit /\ staged' = staged
    BY <1>11, Zenon DEF StatePaired, Uninvolved, wsVars
  <2>2. PICK c \in {"Failure", "Success"} :
          hci' = CheckTarget([h EXCEPT !.curState = Zero, !.pPairingInitStruct = @ \ {c}])
    BY <1>11, Zenon DEF StatePaired
  <2> DEFINE g == [h EXCEPT !.curState = Zero, !.pPairingInitStruct = @ \ {c}]
  <2>3. Leads(hci, g)
    <3>1. Allocated(h) /\ Allocated(hci)
      BY <1>2 DEF Core, Allocated
    <3>2. g \in HciType /\ (h.pPairingInitStruct # {} => "Allocated" \in g.pPairingInitStruct)
          /\ g.pSocketInitStruct = h.pSocketInitStruct
          /\ g.tarState = h.tarState /\ g.events = h.events
      BY <1>1, <1>4, <3>1 DEF HciType, State, Allocated
    <3>3. (NoCheck(hci) => NoCheck(h)) /\ (NoCheck(h) => NoCheck(g))
      BY <1>1, <3>2 DEF Leads, NoCheck
    <3>4. Allocated(g)
      BY <1>1, <3>1, <3>2 DEF HciType, Allocated
    <3> QED BY <1>2, <3>2, <3>3, <3>4 DEF Leads
  <2> QED BY <2>1, <2>2, <2>3, CheckedLeads, SocketStays, Zenon
<1>12. CASE StatePairingStopped(h)
  <2> DEFINE Ends(g) == /\ g \in HciType /\ g.pSocketInitStruct = hci.pSocketInitStruct
                        /\ Allocated(g) /\ (NoCheck(hci) => NoCheck(g))
  <2>1. wsState' = wsState /\ pwsInit' = pwsInit /\ staged' = {}
    BY <1>12, Zenon
       DEF StatePairingStopped, onWiFiPairingSuccess, onWiFiPairingFailure, wsVars
  <2> DEFINE g1 == [h EXCEPT !.curState = Zero, !.pPairingInitStruct = {}]
             g2 == [h EXCEPT !.pPairingInitStruct = {}]
  <2>2. hci' = CheckTarget(g1) \/ hci' = CheckTarget(g2)
    BY <1>12, Zenon DEF StatePairingStopped
  <2>3. Ends(g1) /\ Ends(g2)
    BY <1>1, <1>2, <1>4 DEF HciType, State, Allocated, Leads, NoCheck
  <2>4. \A g : Ends(g) => Ends(CheckTarget(g))
    BY CheckLeads DEF Leads
  <2> HIDE DEF g1, g2
  <2>5. Ends(hci')
    BY <2>2, <2>3, <2>4, Zenon
  <2>6. pwsInit' \in BOOLEAN /\ (pwsInit' <=> hci'.pSocketInitStruct # "NULL")
    BY <2>1, <2>5, Zenon DEF Core, WebSocketFollowsSocket
  <2>7. /\ wsState' = "Closed" <=> hci'.pSocketInitStruct = "NULL"
        /\ wsState' = "Opening" <=> hci'.pSocketInitStruct = "Opening"
        /\ wsState' \in WsStates /\ staged' \subseteq Credentials
    BY <2>1, <2>5 DEF Core, WebSocketFollowsSocket
  <2> QED
    BY <2>1, <2>5, <2>6, <2>7, Zenon DEF CoreStep, Core, WebSocketFollowsSocket
<1> QED
  BY <1>3, <1>5, <1>6, <1>7, <1>8, <1>9, <1>10, <1>11, <1>12

-----------------------------------------------------------------------------
(* The other messages and the flags of the HCI task.                       *)

(* Flags come and go, but the check of the target only goes.               *)
LEMMA WithEvents ==
  ASSUME NEW h \in HciType, NEW flags \in SUBSET HciFlags,
         "CheckHciWiFiState" \in flags => "CheckHciWiFiState" \in h.events
  PROVE  Leads(h, [h EXCEPT !.events = flags])
BY DEF Leads, HciType, Allocated, NoCheck

(* A transfer begins or ends.                                              *)
LEMMA WithComm ==
  ASSUME NEW h \in HciType, NEW comm \in SUBSET {"Tx", "Rx"}
  PROVE  Leads(h, [h EXCEPT !.curState.comm = comm])
BY DEF Leads, HciType, Allocated, NoCheck

(* A line of the module: it changes the state that is posted, not the core. *)
LEMMA LineStep ==
  ASSUME Core, NEW line, NEW row, HciWiFiATCoP(line, row)
  PROVE  CoreStep
<1>1. hci \in HciType
  BY DEF Core
<1> DEFINE flags == hci.events \cup {"Transmitted"}
<1>2. flags \in SUBSET HciFlags /\ ("CheckHciWiFiState" \in flags => "CheckHciWiFiState" \in hci.events)
  BY <1>1 DEF HciType, HciFlags
<1>3. hci' \in {hci, [hci EXCEPT !.events = flags]}
      /\ wsState' = wsState /\ pwsInit' = pwsInit /\ staged' = staged
  BY Zenon DEF HciWiFiATCoP, wsVars
<1> HIDE DEF flags
<1>4. Leads(hci, hci')
  BY <1>1, <1>2, <1>3, WithEvents, SameLeads, Zenon
<1> QED BY <1>3, <1>4, SocketStays

(* Received data is passed on to the websocket.                            *)
LEMMA RxStep ==
  ASSUME Core, NEW data, ProcessRxDataStream(data)
  PROVE  CoreStep
<1>1. hci \in HciType
  BY DEF Core
<1> DEFINE comm == hci.curState.comm \ {"Rx"}
           h == [hci EXCEPT !.curState.comm = comm]
<1>2. comm \in SUBSET {"Tx", "Rx"}
  BY <1>1 DEF HciType
<1>3. (RxHandshaking(h, data) \/ RxHandshakePass(h, data) \/ RxOtherwise(h, data))
      /\ staged' = staged
  BY Zenon DEF ProcessRxDataStream
<1> HIDE DEF comm
<1>4. Leads(hci, h) /\ h \in HciType
  BY <1>1, <1>2, WithComm, Zenon DEF Leads
<1> HIDE DEF h
<1>5. CASE RxHandshaking(h, data)
  <2>1. hci' = h /\ pwsInit' = pwsInit /\ wsState = "Handshaking"
        /\ wsState' \in {"HandshakePass", "Closing"}
    BY <1>5, Zenon DEF RxHandshaking
  <2>2. Leads(hci, hci')
    BY <1>4, <2>1, Zenon
  <2>3. wsState \in Talking /\ wsState' \in Talking
    BY <2>1 DEF Talking
  <2> QED BY <1>3, <2>1, <2>2, <2>3, SocketStays, Zenon
<1>6. CASE RxHandshakePass(h, data)
  <2>1. hci' \in {OnWebSocketRxData(h, data), HciWiFiSocketClose(h), WebSocketClose(h)}
    BY <1>6, Zenon DEF RxHandshakePass
  <2>2. Leads(h, OnWebSocketRxData(h, data)) /\ Leads(h, HciWiFiSocketClose(h))
        /\ Leads(h, WebSocketClose(h))
    BY <1>4, CallsLead, CloseLeads, Zenon
  <2>3. Leads(hci, hci')
    BY <1>1, <1>4, <2>1, <2>2, LeadsOn, Zenon
  <2>4. pwsInit' = pwsInit /\ wsState = "HandshakePass" /\ wsState' \in {wsState, "Closing"}
    BY <1>6, Zenon DEF RxHandshakePass, onWebSocketRxData, WebSocketCloses, wsVars
  <2>5. wsState \in Talking /\ wsState' \in Talking
    BY <2>4 DEF Talking
  <2> QED BY <1>3, <2>3, <2>4, <2>5, SocketStays, Zenon
<1>7. CASE RxOtherwise(h, data)
  <2>1. hci' \in {h, HciWiFiSocketClose(h)} /\ pwsInit' = pwsInit /\ wsState' = wsState
    BY <1>7, Zenon DEF RxOtherwise, wsVars
  <2>2. Leads(h, HciWiFiSocketClose(h))
    BY <1>4, CloseLeads, Zenon
  <2>3. Leads(hci, hci')
    BY <1>1, <1>4, <2>1, <2>2, LeadsOn, Zenon
  <2> QED BY <1>3, <2>1, <2>3, SocketStays, Zenon
<1> QED BY <1>3, <1>5, <1>6, <1>7

(* Data is handed over to the module.                                      *)
LEMMA TxStep ==
  ASSUME Core, NEW len \in Nat, ProcessTxDataStream(len)
  PROVE  CoreStep
<1>1. hci \in HciType
  BY DEF Core
<1> DEFINE fifo == SubSeq(hci.scktTxFIFO, len + 1, Len(hci.scktTxFIFO))
<1>2. fifo \in Seq(Units)
  <2>1. hci.scktTxFIFO \in Seq(Units)
    BY <1>1 DEF HciType, Units
  <2> DEFINE f == hci.scktTxFIFO
  <2>2. f \in Seq(Units)
    BY <2>1
  <2> HIDE DEF f
  <2>3. Len(f) \in Nat /\ \A i \in (len + 1) .. Len(f) : f[i] \in Units
    BY <2>2
  <2>4. SubSeq(f, len + 1, Len(f)) \in Seq(Units)
    BY <2>3, SubSeqProperties
  <2> QED BY <2>4 DEF f
<1>3. hci' = [hci EXCEPT !.scktTxFIFO = fifo]
      /\ wsState' = wsState /\ pwsInit' = pwsInit /\ staged' = staged
  BY Zenon DEF ProcessTxDataStream, Uninvolved, wsVars
<1> HIDE DEF fifo
<1>4. Leads(hci, hci')
  BY <1>1, <1>2, <1>3, WithFifo, Zenon
<1> QED BY <1>3, <1>4, SocketStays

(* A pairing tells what to store.                                          *)
LEMMA UpdateStep ==
  ASSUME Core, NEW credential \in Credentials, HasPairing, PairingUpdate(credential)
  PROVE  CoreStep
<1>1. hci' = hci /\ wsState' = wsState /\ pwsInit' = pwsInit
      /\ staged' = staged \cup {credential}
  BY Zenon DEF PairingUpdate, onWiFiPairingUpdate, wsVars
<1>2. staged' \subseteq Credentials
  BY <1>1 DEF Core
<1> QED
  BY <1>1, <1>2, Zenon
     DEF CoreStep, Core, WebSocketFollowsSocket, HasPairing, Allocated, NoCheck

(* A flag of the HCI task.                                                 *)
LEMMA FlagStep ==
  ASSUME Core, NEW f, HciProcessEvent(f), wsState' = wsState, pwsInit' = pwsInit,
         staged' = staged
  PROVE  CoreStep
<1>1. hci \in HciType
  BY DEF Core
<1> DEFINE flags == hci.events \ {f}
           h == [hci EXCEPT !.events = flags]
<1>2. flags \in SUBSET HciFlags
      /\ ("CheckHciWiFiState" \in flags => "CheckHciWiFiState" \in hci.events)
  BY <1>1 DEF HciType
<1>3. StateController(h) \/ HciEnable(h) \/ TxPoll(h) \/ Transmitted(h) \/ Receiving(h)
      \/ PairingTimeout(h)
  BY Zenon DEF HciProcessEvent
<1> HIDE DEF flags
<1>4. Leads(hci, h) /\ h \in HciType
  BY <1>1, <1>2, WithEvents, Zenon DEF Leads
<1> HIDE DEF h
<1> DEFINE zero == [h EXCEPT !.curState = Zero]
           tx == h.curState.comm \cup {"Tx"}
           no == h.curState.comm \ {"Tx"}
           rx == h.curState.comm \cup {"Rx"}
<1>5. hci' \in {h, zero, [h EXCEPT !.curState.comm = tx], [h EXCEPT !.curState.comm = no],
               [h EXCEPT !.curState.comm = rx]}
  BY <1>3, Zenon
     DEF StateController, HciEnable, TxPoll, Transmitted, Receiving, PairingTimeout, Wait, Steer
<1>6. Leads(h, h) /\ Leads(h, zero)
  BY <1>4, States, WithCurState, SameLeads
<1>7. tx \in SUBSET {"Tx", "Rx"} /\ no \in SUBSET {"Tx", "Rx"} /\ rx \in SUBSET {"Tx", "Rx"}
  BY <1>4 DEF HciType
<1> HIDE DEF zero, tx, no, rx
<1>8. Leads(h, hci')
  BY <1>4, <1>5, <1>6, <1>7, WithComm, Zenon
<1>9. Leads(hci, hci')
  BY <1>1, <1>4, <1>8, LeadsOn, Zenon
<1> QED BY <1>9, SocketStays

-----------------------------------------------------------------------------
(* The application task.                                                   *)

(* A key is reported.                                                      *)
LEMMA KeyStep ==
  ASSUME Core, NEW key, ProcessOsalMsgKey(key), wsState' = wsState, pwsInit' = pwsInit,
         staged' = staged
  PROVE  CoreStep
<1>1. hci \in HciType
  BY DEF Core
<1>2. hci' \in {hci, HciWiFiPairingStart(hci)}
  BY Zenon DEF ProcessOsalMsgKey
<1>3. Leads(hci, hci')
  BY <1>1, <1>2, SameLeads, PairingLeads, Zenon
<1> QED BY <1>3, SocketStays

(* A flag of the application.                                              *)
LEMMA AppStep ==
  ASSUME Core, NEW f, ProcessEvent(f), staged' = staged
  PROVE  CoreStep
<1>1. hci \in HciType
  BY DEF Core
<1>2. CASE SendHBP \/ StartWiFiConn \/ CloseWebSocket
  <2>1. hci' \in {hci, WebSocketSend(hci), WebSocketClose(hci), HciWiFiSetConnection(hci),
                 HciWiFiPairingStart(hci)}
    BY <1>2, Zenon DEF SendHBP, StartWiFiConn, CloseWebSocket
  <2>2. Leads(hci, hci')
    BY <1>1, <2>1, SameLeads, CallsLead, ConnectionLeads, PairingLeads, Zenon
  <2>3. /\ pwsInit' = pwsInit
        /\ wsState' \in {wsState, IF wsState = "HandshakePass" THEN "Closing" ELSE wsState}
    BY <1>2, Zenon DEF SendHBP, StartWiFiConn, CloseWebSocket, WebSocketCloses, wsVars
  <2>4. wsState' = wsState \/ (wsState \in Talking /\ wsState' \in Talking)
    BY <2>3 DEF Talking
  <2> QED BY <2>2, <2>3, <2>4, SocketStays
<1>3. CASE OpenWebSocket
  <2>1. CASE hci.curState = Joined
    <3> DEFINE g == [hci EXCEPT !.pSocketInitStruct = "Opening"]
    <3>1. hci' = Target(g, Online) /\ wsState' = "Opening" /\ pwsInit' = TRUE
      BY <1>3, <2>1, Zenon DEF OpenWebSocket, WebSocketOpen, HciWiFiSocketOpen
    <3>2. g \in HciType
      BY <1>1 DEF HciType
    <3> HIDE DEF g
    <3>3. Leads(g, Target(g, Online))
      BY <3>2, TargetLeads DEF Targets
    <3>4. Leads(g, hci')
      BY <3>1, <3>3, Zenon
    <3> QED BY <3>1, <3>4, SocketComes, Zenon DEF g
  <2>2. CASE hci.curState # Joined
    <3>1. hci' = hci /\ wsState' = wsState /\ pwsInit' = pwsInit
      BY <1>3, <2>2, Zenon DEF OpenWebSocket, wsVars
    <3>2. Leads(hci, hci')
      BY <1>1, <3>1, SameLeads, Zenon
    <3> QED BY <3>1, <3>2, SocketStays
  <2> QED BY <2>1, <2>2
<1> QED BY <1>2, <1>3, Zenon DEF ProcessEvent

-----------------------------------------------------------------------------
(* The types that a message leaves behind.                                 *)

(* Every message of the HCI task keeps the core right.                     *)
LEMMA MessageStep ==
  ASSUME Core, NEW msg \in Message, FailedByMsg(msg) = {}, ProcessOsalMsg(msg)
  PROVE  CoreStep
<1>1. CASE msg.head = "ATCmd"
  <2>1. PICK row \in RowsFor(msg.line.at) : HciWiFiATCoP(msg.line, row)
    BY <1>1 DEF ProcessOsalMsg
  <2> QED BY <2>1, LineStep
<1>2. CASE msg.head = "HciWiFiState"
  <2>1. ProcessHciState(msg.state)
    BY <1>2 DEF ProcessOsalMsg
  <2>2. msg.state \in State
    BY <1>2 DEF Message
  <2> QED BY <2>1, <2>2, StateStep
<1>3. CASE msg.head = "RxDataStream"
  <2>1. ProcessRxDataStream(msg.data)
    BY <1>3 DEF ProcessOsalMsg
  <2> QED BY <2>1, RxStep
<1>4. CASE msg.head = "TxDataStream"
  <2>1. ProcessTxDataStream(msg.len)
    BY <1>4 DEF ProcessOsalMsg
  <2>2. msg.len \in Nat
    BY <1>4 DEF Message
  <2> QED BY <2>1, <2>2, TxStep
<1>5. CASE msg.head = "Update"
  <2>1. PairingUpdate(msg.credential)
    BY <1>5 DEF ProcessOsalMsg
  <2>2. msg.credential \in Credentials /\ HasPairing
    BY <1>5 DEF Message, FailedByMsg, Failing
  <2> QED BY <2>1, <2>2, UpdateStep
<1> QED BY <1>1, <1>2, <1>3, <1>4, <1>5 DEF Message

(* A command on the serial line.                                           *)
LEMMA Issued ==
  ASSUME cmds \in Seq(Command), NEW c \in Command, Issue(c)
  PROVE  cmds' \in Seq(Command)
BY DEF Issue

(* The words of the firmware are commands, and are echoed as lines.        *)
LEMMA OrdersAreCommands ==
  \A c \in Orders : AT(c) \in Command /\ AT(c) \in Line
BY DEF AT, Command, Line, Plain

(* The types that a line leaves behind.                                    *)
LEMMA LineTypes ==
  ASSUME Typed, mail # << >>, NEW line \in Line, NEW row \in RowsFor(line.at),
         HciWiFiATCoP(line, row)
  PROVE  /\ hciWiFiState' \in State /\ pfnATCmdProcessor' \in Processors
         /\ txLen' \in Nat /\ mail' \in Seq(Message)
         /\ timers' \in Timers /\ errReason' \in BOOLEAN
<1> USE DEF Typed, Firmware
<1>1. pfnATCmdProcessor' \in Processors /\ hciWiFiState' \in State
  BY RowsInOrder, ChangedState DEF HciWiFiATCoP
<1>2. txLen' \in Nat
  <2>1. line.at = "AT+CIPSEND" => line.n \in Nat
    BY DEF Line, Plain, Sending, Orders, Answers
  <2> QED BY <2>1 DEF HciWiFiATCoP
<1>3. mail' \in Seq(Message)
  <2> DEFINE m == [head |-> "HciWiFiState", state |-> hciWiFiState']
             tail == IF row.post THEN <<m>> ELSE << >>
  <2>1. m \in Message
    BY <1>1 DEF Message
  <2>2. tail \in Seq(Message)
    BY <2>1
  <2>3. Posted(line) \in Seq(Message)
    BY PostedMessages
  <2>4. Tail(mail) \in Seq(Message)
    BY HeadTailProperties
  <2>5. mail' = Tail(mail) \o Posted(line) \o tail
    BY Zenon DEF HciWiFiATCoP
  <2> HIDE DEF tail
  <2> QED BY <2>2, <2>3, <2>4, <2>5
<1>4. timers' \in Timers
  BY DEF HciWiFiATCoP, PairingTimer, Timers
<1>5. errReason' \in BOOLEAN
  <2>1. \/ errReason' = errReason
        \/ errReason' = (row.next # "NULL"
                            /\ (errReason \/ line.at \in {"no ip", "DNS Fail"}))
    BY Zenon DEF HciWiFiATCoP
  <2>2. errReason \in BOOLEAN
    BY Zenon DEF Flags
  <2> QED BY <2>1, <2>2, Zenon
<1> QED BY <1>1, <1>2, <1>3, <1>4, <1>5

(* Those that a posted state leaves behind.                                *)
LEMMA StateTypes ==
  ASSUME Typed, NEW state \in State, ProcessHciState(state)
  PROVE  /\ timers' \in Timers /\ isPairingEnable' \in BOOLEAN
         /\ flash' \subseteq Credentials /\ cmds' \in Seq(Command)
<1> DEFINE h == [hci EXCEPT !.curState = state]
<1>1. \/ StateReported(h) \/ StateInitializing(h) \/ StateDisconnected(h)
      \/ StateOpened(h) \/ StateJoined(h) \/ StateClosing(h)
      \/ StatePaired(h) \/ StatePairingStopped(h)
  BY Zenon DEF ProcessHciState
<1> HIDE DEF h
<1>2. timers \in Timers /\ flash \subseteq Credentials /\ staged \subseteq Credentials
      /\ cmds \in Seq(Command)
  BY DEF Typed, Firmware, Serial, Timers
<1>3. isPairingEnable' \in BOOLEAN
  BY <1>1, Zenon
     DEF Typed, Flags, StateReported, StateInitializing, StateDisconnected, StateOpened,
         StateJoined, StateClosing, StatePaired, StatePairingStopped, Uninvolved,
         SocketClosed, onWebSocketClosed
<1>4. flash' \subseteq Credentials
  BY <1>1, <1>2, Zenon
     DEF StateReported, StateInitializing, StateDisconnected, StateOpened,
         StateJoined, StateClosing, StatePaired, StatePairingStopped, Uninvolved,
         onWiFiPairingSuccess, onWiFiPairingFailure
<1>5. cmds' \in Seq(Command)
  <2>1. NoCommand \/ \E c \in {"AT+CWMODE_CUR", "AT+CWSTOPSMART", "AT+CWQAP"} : Issue(AT(c))
    BY <1>1, Zenon
       DEF StateReported, StateInitializing, StateDisconnected, StateOpened,
           StateJoined, StateClosing, StatePaired, StatePairingStopped
  <2>2. CASE NoCommand
    BY <1>2, <2>2 DEF NoCommand
  <2>3. ASSUME NEW c \in {"AT+CWMODE_CUR", "AT+CWSTOPSMART", "AT+CWQAP"}, Issue(AT(c))
        PROVE  cmds' \in Seq(Command)
    BY <1>2, <2>3, OrdersAreCommands, Issued DEF Orders
  <2> QED BY <2>1, <2>2, <2>3
<1>6. timers' \in Timers
  <2>1. \A t \in Timers : /\ OnWebSocketClosed(t) \in Timers /\ OnWiFiConnected(t) \in Timers
                         /\ OnWiFiDisconnected(t) \in Timers
                         /\ t \cup {"StartWiFiConn"} \in Timers
    BY DEF Timers, AppFlags, OnWebSocketClosed, OnWiFiConnected, OnWiFiDisconnected
  <2>2. TimersOfSocket \in Timers
    BY <1>2, <2>1, Zenon DEF TimersOfSocket
  <2> QED
    BY <1>1, <1>2, <2>1, <2>2, Zenon
       DEF StateReported, StateInitializing, StateDisconnected, StateOpened,
           StateJoined, StateClosing, StatePaired, StatePairingStopped, Uninvolved,
           onWiFiPairingSuccess, onWiFiPairingFailure
<1> QED BY <1>3, <1>4, <1>5, <1>6

(* Those of received data.                                                 *)
LEMMA RxTypes ==
  ASSUME Typed, NEW data, ProcessRxDataStream(data)
  PROVE  /\ timers' \in Timers /\ isPairingEnable' \in BOOLEAN
         /\ flash' = flash /\ cmds' = cmds
<1> DEFINE h == [hci EXCEPT !.curState.comm = @ \ {"Rx"}]
<1>1. (RxHandshaking(h, data) \/ RxHandshakePass(h, data) \/ RxOtherwise(h, data))
      /\ flash' = flash /\ cmds' = cmds
  BY Zenon DEF ProcessRxDataStream, NoCommand
<1> HIDE DEF h
<1>2. timers \in Timers /\ isPairingEnable \in BOOLEAN
  BY DEF Typed, Firmware, Flags, Timers
<1>3. timers \cup {"CloseWebSocket", "SendHBP"} \in Timers
  BY <1>2 DEF Timers, AppFlags
<1>4. timers' \in Timers
  BY <1>1, <1>2, <1>3, Zenon
     DEF RxHandshaking, RxHandshakePass, RxOtherwise, onWebSocketOpened, onWebSocketRxData
<1>5. isPairingEnable' \in BOOLEAN
  <2>1. isPairingEnable' = isPairingEnable
        \/ isPairingEnable' = (isPairingEnable \/ data = "PAIRING!")
    BY <1>1, Zenon DEF RxHandshaking, RxHandshakePass, RxOtherwise, onWebSocketRxData
  <2> QED BY <1>2, <2>1
<1> QED BY <1>1, <1>4, <1>5

(* Those of data to send.                                                  *)
LEMMA TxTypes ==
  ASSUME Typed, NEW len \in Nat, Len(hci.scktTxFIFO) >= len, ProcessTxDataStream(len)
  PROVE  timers' = timers /\ isPairingEnable' = isPairingEnable
         /\ flash' = flash /\ cmds' \in Seq(Command)
<1> DEFINE f == hci.scktTxFIFO
           c == [at |-> "data", units |-> SubSeq(f, 1, len)]
<1>1. f \in Seq(Units)
  BY DEF Typed, Firmware, HciType, Units
<1>2. Issue(c) /\ timers' = timers /\ isPairingEnable' = isPairingEnable /\ flash' = flash
  BY Zenon DEF ProcessTxDataStream, Uninvolved
<1>3. Len(f) >= len
  OBVIOUS
<1> HIDE DEF f
<1>4. \A i \in 1 .. len : f[i] \in Units
  BY <1>1, <1>3
<1>5. SubSeq(f, 1, len) \in Seq(Units)
  BY <1>4, SubSeqProperties
<1>6. c \in Command
  BY <1>5 DEF Command
<1> HIDE DEF c
<1> QED BY <1>2, <1>6, Issued DEF Typed, Serial

(* Those of a flag of the HCI task.                                        *)
LEMMA FlagTypes ==
  ASSUME Typed, NEW f, HciProcessEvent(f)
  PROVE  timers' = timers /\ cmds' \in Seq(Command)
<1> DEFINE h == [hci EXCEPT !.events = @ \ {f}]
<1>1. StateController(h) \/ HciEnable(h) \/ TxPoll(h) \/ Transmitted(h) \/ Receiving(h)
      \/ PairingTimeout(h)
  BY Zenon DEF HciProcessEvent
<1> HIDE DEF h
<1>2. timers' = timers
  BY <1>1, Zenon
     DEF StateController, HciEnable, TxPoll, Transmitted, Receiving, PairingTimeout
<1>3. NoCommand \/ SendNext \/ \E c \in Orders : Issue(AT(c))
  <2>1. CommandFor \subseteq {AT(c) : c \in Orders}
    BY DEF CommandFor, Orders
  <2>2. "AT+CWSTOPSMART" \in Orders
    BY DEF Orders
  <2> QED
    BY <1>1, <2>1, <2>2, Zenon
       DEF StateController, HciEnable, TxPoll, Transmitted, Receiving, PairingTimeout,
           Wait, Steer
<1>4. cmds \in Seq(Command)
  BY DEF Typed, Serial
<1>5. ASSUME NoCommand PROVE cmds' \in Seq(Command)
  BY <1>4, <1>5 DEF NoCommand
<1>6. ASSUME SendNext PROVE cmds' \in Seq(Command)
  <2>1. Len(hci.scktTxFIFO) \in Nat
    BY DEF Typed, Firmware, HciType
  <2>2. [at |-> "AT+CIPSEND", n |-> Len(hci.scktTxFIFO)] \in Command
    BY <2>1 DEF Command, Sending
  <2> QED BY <1>4, <1>6, <2>2, Issued, Zenon DEF SendNext
<1>7. ASSUME NEW c \in Orders, Issue(AT(c)) PROVE cmds' \in Seq(Command)
  BY <1>4, <1>7, OrdersAreCommands, Issued, Zenon
<1> QED BY <1>2, <1>3, <1>5, <1>6, <1>7, Zenon

(* Those of a flag of the application.                                     *)
LEMMA AppTypes ==
  ASSUME Typed, NEW f, ProcessEvent(f)
  PROVE  timers' \in Timers
<1>1. timers \in Timers /\ timers \cup {"OpenWebSocket"} \in Timers
      /\ timers \cup {"StartWiFiConn"} \in Timers
  BY DEF Typed, Firmware, Timers, AppFlags
<1> QED
  BY <1>1, Zenon DEF ProcessEvent, SendHBP, OpenWebSocket, StartWiFiConn, CloseWebSocket

-----------------------------------------------------------------------------
(* The serial line.                                                        *)

(* What the module says are lines.                                         *)
LEMMA Said ==
  ASSUME wire \in Seq(Line), NEW lines \in Seq(Orders \cup Answers), Say(lines)
  PROVE  wire' \in Seq(Line)
<1> DEFINE said == [i \in 1 .. Len(lines) |-> AT(lines[i])]
<1>1. \A i \in 1 .. Len(lines) : AT(lines[i]) \in Line
  BY DEF AT, Line, Plain
<1>2. said \in Seq(Line)
  BY <1>1
<1>3. wire' = wire \o said
  BY DEF Say
<1> HIDE DEF said
<1> QED BY <1>2, <1>3

(* So is the data that it passes on.                                       *)
LEMMA SaidData ==
  ASSUME wire \in Seq(Line), NEW data \in Payloads, SayIPD(data)
  PROVE  wire' \in Seq(Line)
<1>1. IPD(data) \in Line
  BY DEF IPD, Line
<1> QED BY <1>1 DEF SayIPD

(* Of the words the module knows, it may say any one, two or three.        *)
Words == Orders \cup Answers

(* The words of the module, one by one.                                    *)
LEMMA WordsKnown ==
  /\ "ready" \in Words /\ "OK" \in Words /\ "ERROR" \in Words /\ "FAIL" \in Words
  /\ "CLOSED" \in Words /\ "CONNECT" \in Words /\ "no ip" \in Words
  /\ "DNS Fail" \in Words /\ "WIFI CONNECTED" \in Words /\ "WIFI GOT IP" \in Words
  /\ "WIFI DISCONNECT" \in Words /\ "+CWJAP:" \in Words /\ "busy p..." \in Words
  /\ "smartconfig type:" \in Words /\ "ssid:" \in Words /\ "password:" \in Words
  /\ "smartconfig connected wifi" \in Words
  /\ "SEND OK" \in Words /\ "SEND FAIL" \in Words
BY DEF Words, Answers

(* It says up to three of them at a time.                                  *)
LEMMA Spoken ==
  ASSUME wire \in Seq(Line)
  PROVE  /\ \A a \in Words : Say(<<a>>) => wire' \in Seq(Line)
         /\ \A a, b \in Words : Say(<<a, b>>) => wire' \in Seq(Line)
         /\ \A a, b, c \in Words : Say(<<a, b, c>>) => wire' \in Seq(Line)
<1>1. \A a \in Words : <<a>> \in Seq(Words)
  OBVIOUS
<1>2. \A a, b \in Words : <<a, b>> \in Seq(Words)
  OBVIOUS
<1>3. \A a, b, c \in Words : <<a, b, c>> \in Seq(Words)
  OBVIOUS
<1> QED BY <1>1, <1>2, <1>3, Said, Zenon DEF Words

(* A command is executed.                                                  *)
LEMMA ExecuteTypes ==
  ASSUME wire \in Seq(Line), NEW c \in Command, Execute(c)
  PROVE  wire' \in Seq(Line)
<1>1. c.at \in {"AT+CWMODE_CUR", "AT+CWQAP", "AT+CWSTARTSMART", "AT+CWSTOPSMART",
               "AT+CIPCLOSE", "AT+CWJAP_CUR", "AT+CIPSTART"} => c.at \in Words
  BY DEF Words, Orders
<1>2. CASE c.at = "AT+CWMODE_CUR" /\ Say(<<c.at, "OK">>)
  BY <1>1, <1>2, Spoken, WordsKnown, Zenon
<1>3. CASE c.at \in {"AT+CWSTARTSMART", "AT+CWSTOPSMART"} /\ Say(<<c.at, "OK">>)
  BY <1>1, <1>3, Spoken, WordsKnown, Zenon
<1>4. CASE c.at = "AT+CWQAP"
           /\ (Say(<<c.at, "OK", "WIFI DISCONNECT">>) \/ Say(<<c.at, "OK">>))
  BY <1>1, <1>4, Spoken, WordsKnown, Zenon
<1>5. CASE c.at = "AT+CIPCLOSE" /\ (Say(<<c.at, "CLOSED", "OK">>) \/ Say(<<c.at, "ERROR">>))
  BY <1>1, <1>5, Spoken, WordsKnown, Zenon
<1>6. CASE c.at \in {"AT+CWJAP_CUR", "AT+CIPSTART"} /\ Say(<<c.at>>)
  BY <1>1, <1>6, Spoken, WordsKnown, Zenon
<1>7. ASSUME c.at = "AT+CIPSEND",
             wire' = wire \o <<c, AT("OK")>> \/ wire' = wire \o <<c, AT("ERROR")>>
      PROVE  wire' \in Seq(Line)
  <2>1. c \in Line
    BY <1>7 DEF Command, Line, Plain, Sending, Orders, Answers
  <2>2. AT("OK") \in Line /\ AT("ERROR") \in Line
    BY DEF AT, Line, Plain, Answers
  <2>3. <<c, AT("OK")>> \in Seq(Line) /\ <<c, AT("ERROR")>> \in Seq(Line)
    BY <2>1, <2>2
  <2>4. \A said \in Seq(Line) : wire \o said \in Seq(Line)
    OBVIOUS
  <2> QED BY <1>7, <2>3, <2>4, Zenon
<1>8. CASE c.at = "AT+CWQAP"
           /\ Say(IF esp.conn THEN <<c.at, "OK", "WIFI DISCONNECT">> ELSE <<c.at, "OK">>)
  <2>1. CASE esp.conn
    BY <1>4, <1>8, <2>1, Zenon
  <2>2. CASE ~esp.conn
    BY <1>4, <1>8, <2>2, Zenon
  <2> QED BY <2>1, <2>2
<1>9. CASE c.at = "AT+CIPCLOSE"
           /\ Say(IF esp.sckt THEN <<c.at, "CLOSED", "OK">> ELSE <<c.at, "ERROR">>)
  <2>1. CASE esp.sckt
    BY <1>5, <1>9, <2>1, Zenon
  <2>2. CASE ~esp.sckt
    BY <1>5, <1>9, <2>2, Zenon
  <2> QED BY <2>1, <2>2
<1> QED BY <1>2, <1>3, <1>6, <1>7, <1>8, <1>9, Zenon DEF Execute

(* Every step of the module leaves types behind.                           *)
LEMMA ModuleTypes ==
  ASSUME Typed, NEW caught, EspNext(caught)
  PROVE  Serial'
<1>1. cmds \in Seq(Command) /\ wire \in Seq(Line)
  BY DEF Typed, Serial
<1>2. ASSUME cmds # << >> PROVE Head(cmds) \in Command /\ Tail(cmds) \in Seq(Command)
  BY <1>1, <1>2, HeadTailProperties
<1>3. wire' \in Seq(Line)
  <2>1. CASE Boot \/ Busy \/ Join \/ Open \/ SmartConfig \/ ServerCloses
    BY <1>1, <2>1, Spoken, WordsKnown, Zenon
       DEF Boot, Busy, Join, Open, SmartConfig, ServerCloses
  <2>2. CASE ReadCommand
    BY <1>1, <1>2, <2>2, ExecuteTypes, Zenon DEF ReadCommand
  <2>3. CASE Transmit
    BY <1>1, <2>3, Spoken, WordsKnown, Zenon DEF Transmit
  <2>4. CASE ServerAnswers \/ ServerSends
    <3>1. {"101", "text", "close", "404", "PAIRING!", "WSCLOSE!", "malformed"} \subseteq Payloads
      BY DEF Payloads
    <3>2. \E data \in Payloads : SayIPD(data)
      BY <2>4, <3>1 DEF ServerAnswers, ServerSends
    <3> QED BY <1>1, <3>2, SaidData, Zenon
  <2>5. CASE AccessPointLost
    <3>1. CASE esp.sckt
      BY <1>1, <2>5, <3>1, Spoken, WordsKnown, Zenon DEF AccessPointLost
    <3>2. CASE ~esp.sckt
      BY <1>1, <2>5, <3>2, Spoken, WordsKnown, Zenon DEF AccessPointLost
    <3> QED BY <3>1, <3>2
  <2> QED
    BY <2>1, <2>2, <2>3, <2>4, <2>5, Zenon DEF EspNext, Answering, Unsolicited
<1>4. cmds' \in Seq(Command)
  <2>1. cmds' = cmds \/ (cmds # << >> /\ cmds' = Tail(cmds))
    BY Zenon
       DEF EspNext, Answering, Unsolicited, Boot, ReadCommand, Busy, Join, Open, Transmit,
           SmartConfig, ServerAnswers, ServerSends, ServerCloses, AccessPointLost
  <2> QED BY <1>1, <1>2, <2>1
<1> QED BY <1>3, <1>4 DEF Serial

-----------------------------------------------------------------------------
(* The invariant in two parts: what the socket depends on, and the rest.   *)

Others ==
  /\ isPairingEnable \in BOOLEAN /\ errReason \in BOOLEAN /\ receiving \in BOOLEAN
  /\ hciWiFiState \in State /\ pfnATCmdProcessor \in Processors /\ txLen \in Nat
  /\ mail \in Seq(Message) /\ flash \subseteq Credentials /\ timers \in Timers
  /\ appEvents \subseteq AppFlags /\ keys \in Seq(Keys)
  /\ running \in {"None", "HciWiFi", "AppLock"} /\ held \subseteq HciFlags /\ fault \in Nat
  /\ cmds \in Seq(Command) /\ wire \in Seq(Line)

(* The invariant is the core and the others.                               *)
LEMMA Parts == (IInv => Core /\ Others) /\ (Core /\ Others => IInv)
<1>1. IInv => Core
  BY Zenon DEF IInv, Core, Typed, Flags, Firmware
<1>2. IInv => Others
  BY Zenon DEF IInv, Others, Typed, Flags, Firmware, Serial, Timers
<1>3. timers \in Timers => timers \subseteq AppFlags \cup {"HciEnable", "PairingTimeout"}
  BY DEF Timers
<1>4. Core /\ Others => IInv
  BY <1>3, Zenon DEF IInv, Core, Others, Typed, Flags, Firmware, Serial
<1> QED BY <1>1, <1>2, <1>4, Zenon

(* It holds after a step that keeps both.                                  *)
LEMMA PartsNext == Core' /\ Others' => IInv'
<1>1. timers' \in Timers => timers' \subseteq AppFlags \cup {"HciEnable", "PairingTimeout"}
  BY DEF Timers
<1> QED BY <1>1, Zenon DEF IInv, Core, Others, Typed, Flags, Firmware, Serial

(* What only sets events, or nothing of the core, keeps the core.          *)
LEMMA EventsKeepCore ==
  ASSUME Core, NEW flags \in SUBSET HciFlags, hci' = [hci EXCEPT !.events = flags],
         UNCHANGED wsVars, staged' = staged
  PROVE  Core'
<1>1. /\ hci' \in HciType /\ hci'.pSocketInitStruct = hci.pSocketInitStruct
      /\ hci'.pPairingInitStruct = hci.pPairingInitStruct
  BY DEF Core, HciType
<1> QED
  BY <1>1, Zenon DEF Core, wsVars, WebSocketFollowsSocket, HasPairing, Allocated

(* A step that does not touch the core keeps it.                           *)
LEMMA SameCore ==
  ASSUME Core, UNCHANGED <<hci, wsVars, staged>>
  PROVE  Core'
BY Zenon DEF Core, wsVars, WebSocketFollowsSocket, HasPairing, Allocated

(* The record of the HCI at the start.                                     *)
LEMMA InitType == HciWiFi_Init \in HciType
<1>1. << >> \in Seq({"GET", "text", "close"})
  OBVIOUS
<1>2. Zero \in [comm : SUBSET {"Tx", "Rx"}, sckt : Sckts, conn : Conns, dev : Devs]
  BY States DEF State
<1> QED BY <1>1, <1>2, Zenon DEF HciWiFi_Init, HciType

(* The invariant holds at the start.                                       *)
LEMMA InitIInv == Init => IInv
<1> SUFFICES ASSUME Init PROVE IInv
  OBVIOUS
<1>1. HciWiFi_Init \in HciType
  BY InitType
<1>2. /\ HciWiFi_Init.pSocketInitStruct = "NULL"
      /\ HciWiFi_Init.pPairingInitStruct = {}
  BY DEF HciWiFi_Init
<1>3. Core
  <2>1. hci = HciWiFi_Init /\ wsState = "Closed" /\ pwsInit = FALSE /\ staged = {}
    BY Zenon DEF Init, HciWiFiInit, WsInit, AppLock_Init
  <2>2. "Closed" # "Opening" /\ "NULL" # "Opening" /\ "Closed" \in WsStates
    BY DEF WsStates
  <2> QED BY <1>1, <1>2, <2>1, <2>2, Zenon DEF Core, WebSocketFollowsSocket, Allocated
<1>4. Others
  <2>1. << >> \in Seq(Message) /\ << >> \in Seq(Keys) /\ << >> \in Seq(Command)
        /\ << >> \in Seq(Line)
    OBVIOUS
  <2>2. /\ "NULL" \in Processors /\ Zero \in State /\ 0 \in Nat
        /\ {"StartWiFiConn", "HciEnable"} \in Timers
    BY States DEF Processors, Timers, AppFlags
  <2> QED
    BY <2>1, <2>2, Zenon
       DEF Init, HciWiFiInit, AppLock_Init, EspInit, KernelInit, Others
<1> QED BY <1>3, <1>4, Parts, Zenon

-----------------------------------------------------------------------------
(* The messages of the HCI task.                                           *)

(* All the types that a message of the HCI task leaves behind.             *)
LEMMA MessageTypes ==
  ASSUME IInv, mail # << >>, FailedByMsg(Head(mail)) = {}, ProcessOsalMsg(Head(mail))
  PROVE  /\ hciWiFiState' \in State /\ pfnATCmdProcessor' \in Processors
         /\ txLen' \in Nat /\ errReason' \in BOOLEAN /\ isPairingEnable' \in BOOLEAN
         /\ mail' \in Seq(Message) /\ timers' \in Timers /\ flash' \subseteq Credentials
         /\ appEvents' = appEvents /\ keys' = keys /\ cmds' \in Seq(Command)
<1> DEFINE msg == Head(mail)
<1>1. Core /\ Others /\ Typed
  BY Parts DEF IInv
<1>2. msg \in Message /\ Tail(mail) \in Seq(Message)
  BY <1>1, HeadTailProperties DEF Others
<1>3. ProcessOsalMsg(msg) /\ FailedByMsg(msg) = {}
  OBVIOUS
<1> HIDE DEF msg
<1>4. CASE msg.head = "ATCmd"
  <2>1. PICK row \in RowsFor(msg.line.at) : HciWiFiATCoP(msg.line, row)
    BY <1>3, <1>4 DEF ProcessOsalMsg
  <2>2. msg.line \in Line
    BY <1>2, <1>4 DEF Message
  <2>3. UNCHANGED <<isPairingEnable, flash, appEvents, keys, cmds>>
    BY <2>1 DEF HciWiFiATCoP
  <2>4. /\ hciWiFiState' \in State /\ pfnATCmdProcessor' \in Processors
        /\ txLen' \in Nat /\ mail' \in Seq(Message)
        /\ timers' \in Timers /\ errReason' \in BOOLEAN
    BY <1>1, <2>1, <2>2, LineTypes, Zenon
  <2> QED BY <1>1, <2>3, <2>4, Zenon DEF Others
<1>5. CASE msg.head # "ATCmd"
  <2>1. mail' = Tail(mail) /\ UNCHANGED <<atVars, appEvents, keys>>
    BY <1>3, <1>5 DEF ProcessOsalMsg
  <2>2. /\ timers' \in Timers /\ isPairingEnable' \in BOOLEAN
        /\ flash' \subseteq Credentials /\ cmds' \in Seq(Command)
    <3>1. CASE msg.head = "HciWiFiState"
      <4>1. ProcessHciState(msg.state) /\ msg.state \in State
        BY <1>2, <1>3, <3>1 DEF ProcessOsalMsg, Message
      <4> QED BY <1>1, <4>1, StateTypes, Zenon
    <3>2. CASE msg.head = "RxDataStream"
      <4>1. ProcessRxDataStream(msg.data)
        BY <1>3, <3>2 DEF ProcessOsalMsg
      <4> QED BY <1>1, <4>1, RxTypes, Zenon DEF Others
    <3>3. CASE msg.head = "TxDataStream"
      <4>1. ProcessTxDataStream(msg.len) /\ msg.len \in Nat
        BY <1>2, <1>3, <3>3 DEF ProcessOsalMsg, Message
      <4>2. Len(hci.scktTxFIFO) >= msg.len
        BY <1>3, <3>3 DEF FailedByMsg, Failing
      <4>3. /\ timers' = timers /\ isPairingEnable' = isPairingEnable
            /\ flash' = flash /\ cmds' \in Seq(Command)
        BY <1>1, <4>1, <4>2, TxTypes, Zenon
      <4> QED BY <1>1, <4>3, Zenon DEF Others
    <3>4. CASE msg.head = "Update"
      <4>1. PairingUpdate(msg.credential)
        BY <1>3, <3>4 DEF ProcessOsalMsg
      <4>2. UNCHANGED <<cmds, isPairingEnable, flash, timers>>
        BY <4>1 DEF PairingUpdate, NoCommand
      <4> QED BY <1>1, <4>2, Zenon DEF Others
    <3> QED BY <1>2, <1>5, <3>1, <3>2, <3>3, <3>4 DEF Message
  <2>3. UNCHANGED <<hciWiFiState, pfnATCmdProcessor, txLen, errReason>>
    BY <2>1 DEF atVars
  <2> QED BY <1>1, <1>2, <2>1, <2>2, <2>3, Zenon DEF Others
<1> QED BY <1>4, <1>5

-----------------------------------------------------------------------------
(* The assertions are lines of the code, and the first of them is one.     *)

(* The first of some lines of the code is a line.                          *)
LEMMA LeastLine ==
  ASSUME NEW T, T \subseteq Nat, T # {}
  PROVE  (CHOOSE l \in T : \A k \in T : l <= k) \in Nat
<1> DEFINE Less == OpToRel(<, Nat)
<1>1. IsWellFoundedOn(Less, Nat)
  BY NatLessThanWellFounded
<1>2. PICK x \in T : \A y \in T : <<y, x>> \notin Less
  BY <1>1, WFMin
<1>3. \A y \in T : ~(y < x)
  BY <1>2 DEF OpToRel
<1>4. \E l \in T : \A k \in T : l <= k
  BY <1>3
<1> QED BY <1>4

(* The assertions of a posted state are lines.                             *)
LEMMA StateLines ==
  ASSUME NEW state
  PROVE  FailedByState(state) \subseteq Nat
<1>1. \A n \in Nat, ok \in BOOLEAN : Failing(n, ok) \subseteq Nat
  BY DEF Failing
<1> QED BY DEF FailedByState, Failing

(* So are all that a message can violate.                                  *)
LEMMA Lines ==
  ASSUME mail \in Seq(Message)
  PROVE  Violated \subseteq Nat
<1>1. ASSUME mail # << >> PROVE FailedByMsg(Head(mail)) \subseteq Nat
  <2> DEFINE msg == Head(mail)
  <2>1. msg \in Message
    BY <1>1, HeadTailProperties
  <2> HIDE DEF msg
  <2>2. msg.head \in {"ATCmd", "HciWiFiState", "RxDataStream", "TxDataStream", "Update"}
    BY <2>1 DEF Message
  <2>3. FailedByMsg(msg) \subseteq Nat
    BY <2>2, StateLines DEF FailedByMsg, Failing
  <2> QED BY <2>3 DEF msg
<1>2. FailedByFlag(HciFlag) \subseteq Nat
  BY DEF FailedByFlag, Failing
<1>3. FailedByEvent(AppFlag) \subseteq Nat
  BY DEF FailedByEvent
<1> QED BY <1>1, <1>2, <1>3 DEF Violated

-----------------------------------------------------------------------------
(* The actions, one by one: the core ...                                   *)

(* Every step keeps the core right.                                        *)
LEMMA CoreNext ==
  ASSUME IInv, [Next]_vars
  PROVE  Core'
<1>1. Core /\ Others
  BY Parts
<1>2. hci.events \subseteq HciFlags /\ held \subseteq HciFlags /\ mail \in Seq(Message)
  BY <1>1 DEF Core, HciType, Others
<1>3. CASE HciReceives
  <2>1. {} \in SUBSET HciFlags
    OBVIOUS
  <2> QED BY <1>1, <1>3, <2>1, EventsKeepCore, Zenon DEF HciReceives, appVars
<1>4. CASE HciMessage
  <2>1. mail # << >> /\ FailedByMsg(Head(mail)) = {} /\ ProcessOsalMsg(Head(mail))
    BY <1>4, Zenon DEF HciMessage
  <2>2. Head(mail) \in Message
    BY <1>2, <2>1, HeadTailProperties
  <2> QED BY <1>1, <2>1, <2>2, MessageStep, Zenon DEF CoreStep
<1>5. CASE HciReturns
  <2>1. hci' = [hci EXCEPT !.events = hci.events \cup held]
    BY <1>5 DEF HciReturns
  <2>2. hci.events \cup held \in SUBSET HciFlags
    BY <1>2
  <2> QED BY <1>1, <1>5, <2>1, <2>2, EventsKeepCore, Zenon DEF HciReturns, appVars
<1>6. CASE HciEvent
  BY <1>1, <1>6, FlagStep, Zenon DEF HciEvent, CoreStep, wsVars
<1>7. CASE AppMessage
  BY <1>1, <1>7, KeyStep, Zenon DEF AppMessage, CoreStep, wsVars
<1>8. CASE AppEvent
  BY <1>1, <1>8, AppStep, Zenon DEF AppEvent, CoreStep
<1>9. CASE HalHead
  <2>1. hci' = [hci EXCEPT !.events = hci.events \cup {"Receiving"}]
    BY <1>9 DEF HalHead
  <2>2. hci.events \cup {"Receiving"} \in SUBSET HciFlags
    BY <1>2 DEF HciFlags
  <2> QED BY <1>1, <1>9, <2>1, <2>2, EventsKeepCore, Zenon DEF HalHead, appVars
<1>10. ASSUME NEW f \in AppFlags \cup {"HciEnable", "PairingTimeout"}, Expire(f)
       PROVE  Core'
  <2>1. CASE f \in AppFlags
    BY <1>1, <1>10, <2>1, SameCore, Zenon DEF Expire
  <2>2. CASE f \notin AppFlags
    <3>1. hci' = [hci EXCEPT !.events = hci.events \cup {f}]
      BY <1>10, <2>2 DEF Expire
    <3>2. hci.events \cup {f} \in SUBSET HciFlags
      BY <1>2, <2>2 DEF HciFlags
    <3> QED BY <1>1, <1>10, <3>1, <3>2, EventsKeepCore, Zenon DEF Expire
  <2> QED BY <2>1, <2>2
<1>11. CASE Restart
  <2>1. Core' <=> (/\ HciWiFi_Init \in HciType /\ "Closed" \in WsStates
                   /\ Allocated(HciWiFi_Init)
                   /\ HciWiFi_Init.pSocketInitStruct = "NULL")
    <3>1. /\ hci' = HciWiFi_Init /\ wsState' = "Closed" /\ pwsInit' = FALSE
          /\ staged' = {}
      BY <1>11, Zenon DEF Restart
    <3>2. "Closed" # "Opening" /\ "NULL" # "Opening"
      OBVIOUS
    <3> QED BY <3>1, <3>2, Zenon DEF Core, WebSocketFollowsSocket
  <2>2. HciWiFi_Init \in HciType
    BY InitType
  <2>3. Allocated(HciWiFi_Init) /\ HciWiFi_Init.pSocketInitStruct = "NULL"
    BY DEF Allocated, HciWiFi_Init
  <2>4. "Closed" \in WsStates
    BY DEF WsStates
  <2> QED BY <2>1, <2>2, <2>3, <2>4, Zenon
<1>12. CASE AppReceives \/ AppReturns \/ HalLine \/ AssertionFails \/ Outside
            \/ (\E key \in Keys : Press(key)) \/ UNCHANGED vars
  <2>1. UNCHANGED <<hci, wsVars, staged>>
    BY <1>12, Zenon
       DEF AppReceives, AppReturns, HalLine, AssertionFails, Outside, Press, vars, appVars
  <2> QED BY <1>1, <2>1, SameCore, Zenon
<1> QED
  BY <1>3, <1>4, <1>5, <1>6, <1>7, <1>8, <1>9, <1>10, <1>11, <1>12, Zenon
     DEF Next, Tasks, Environment

(* ... and the rest.                                                       *)
LEMMA OthersNext ==
  ASSUME IInv, [Next]_vars
  PROVE  Others'
<1>1. Others /\ Typed
  BY Parts DEF IInv
<1>2. hci.events \subseteq HciFlags
  BY Parts DEF Core, HciType
<1>3. CASE HciReceives
  <2>1. running' \in {"None", "HciWiFi", "AppLock"} /\ held' \subseteq HciFlags
    BY <1>2, <1>3 DEF HciReceives
  <2> QED
    BY <1>1, <1>3, <2>1, Zenon DEF HciReceives, Others, appVars, espVars, atVars
<1>4. CASE HciMessage
  <2>1. mail # << >> /\ FailedByMsg(Head(mail)) = {} /\ ProcessOsalMsg(Head(mail))
        /\ UNCHANGED <<wire, running, held, receiving, fault>>
    BY <1>4, Zenon DEF HciMessage, kernelVars
  <2> QED BY <1>1, <2>1, MessageTypes, Zenon DEF Others
<1>5. CASE HciReturns
  <2>1. running' \in {"None", "HciWiFi", "AppLock"} /\ held' \subseteq HciFlags
    BY <1>5 DEF HciReturns
  <2> QED
    BY <1>1, <1>5, <2>1, Zenon DEF HciReturns, Others, appVars, espVars, atVars
<1>6. CASE HciEvent
  <2>1. timers' = timers /\ cmds' \in Seq(Command)
    BY <1>1, <1>6, FlagTypes, Zenon DEF HciEvent
  <2> QED BY <1>1, <1>6, <2>1, Zenon DEF HciEvent, Others, atVars, kernelVars
<1>7. CASE AppReceives \/ AppReturns
  <2>1. running' \in {"None", "HciWiFi", "AppLock"}
    BY <1>7 DEF AppReceives, AppReturns
  <2> QED
    BY <1>1, <1>7, <2>1, Zenon
       DEF AppReceives, AppReturns, Others, appVars, espVars, atVars
<1>8. CASE AppMessage
  <2>1. keys' \in Seq(Keys)
    <3>1. keys \in Seq(Keys) /\ keys # << >> /\ keys' = Tail(keys)
      BY <1>1, <1>8 DEF AppMessage, Others
    <3> QED BY <3>1, HeadTailProperties
  <2>2. flash' \subseteq Credentials
    <3>1. flash' = flash \/ flash' = {}
      BY <1>8, Zenon DEF AppMessage, ProcessOsalMsgKey
    <3> QED BY <1>1, <3>1 DEF Others
  <2> QED
    BY <1>1, <1>8, <2>1, <2>2, Zenon DEF AppMessage, Others, espVars, atVars, kernelVars
<1>9. CASE AppEvent
  <2>1. appEvents' \subseteq AppFlags
    BY <1>1, <1>9 DEF AppEvent, Others
  <2>2. timers' \in Timers
    BY <1>1, <1>9, AppTypes, Zenon DEF AppEvent
  <2> QED
    BY <1>1, <1>9, <2>1, <2>2, Zenon DEF AppEvent, Others, espVars, atVars, kernelVars
<1>10. CASE AssertionFails
  <2>1. Violated \subseteq Nat
    BY <1>1, Lines, Zenon DEF Others
  <2>2. fault' \in Nat
    BY <1>10, <2>1, LeastLine, Zenon DEF AssertionFails
  <2> QED
    BY <1>1, <1>10, <2>2, Zenon DEF AssertionFails, Others, appVars, espVars, atVars
<1>11. CASE Restart
  <2>1. << >> \in Seq(Message) /\ << >> \in Seq(Keys) /\ << >> \in Seq(Command)
        /\ << >> \in Seq(Line)
    OBVIOUS
  <2>2. /\ "NULL" \in Processors /\ Zero \in State /\ 0 \in Nat
        /\ {"StartWiFiConn", "HciEnable"} \in Timers
    BY States DEF Processors, Timers, AppFlags
  <2> QED BY <1>1, <1>11, <2>1, <2>2, Zenon DEF Restart, Others
<1>12. CASE HalHead
  BY <1>1, <1>12, Zenon DEF HalHead, Others, appVars, espVars, atVars
<1>13. CASE HalLine
  <2>1. wire \in Seq(Line) /\ mail \in Seq(Message) /\ wire # << >>
        /\ wire' = Tail(wire)
        /\ mail' = Append(mail, [head |-> "ATCmd", line |-> Head(wire)])
    BY <1>1, <1>13, Zenon DEF HalLine, Others
  <2>2. Head(wire) \in Line /\ wire' \in Seq(Line)
    BY <2>1, HeadTailProperties
  <2>3. [head |-> "ATCmd", line |-> Head(wire)] \in Message
    BY <2>2 DEF Message
  <2>4. mail' \in Seq(Message)
    BY <2>1, <2>3, AppendProperties, Zenon
  <2> QED BY <1>1, <1>13, <2>2, <2>4, Zenon DEF HalLine, Others, appVars, atVars
<1>14. ASSUME NEW key \in Keys, Press(key) PROVE Others'
  <2>1. keys' \in Seq(Keys)
    <3>1. keys' = Append(keys, key) /\ keys \in Seq(Keys)
      BY <1>1, <1>14, Zenon DEF Press, Others
    <3> QED BY <3>1, AppendProperties, Zenon
  <2> QED BY <1>1, <1>14, <2>1, Zenon DEF Press, Others, atVars, kernelVars
<1>15. ASSUME NEW f \in AppFlags \cup {"HciEnable", "PairingTimeout"}, Expire(f)
       PROVE  Others'
  <2>1. timers' \in Timers
    <3>1. timers' = timers \ {f} /\ timers \in Timers
      BY <1>1, <1>15, Zenon DEF Expire, Others
    <3> QED BY <3>1 DEF Timers
  <2>2. appEvents' \subseteq AppFlags
    <3>1. appEvents' = appEvents \/ (f \in AppFlags /\ appEvents' = appEvents \cup {f})
      BY <1>15, Zenon DEF Expire
    <3> QED BY <1>1, <3>1 DEF Others
  <2> QED BY <1>1, <1>15, <2>1, <2>2, Zenon DEF Expire, Others, atVars, kernelVars
<1>16. CASE Outside
  <2>1. Serial'
    BY <1>1, <1>16, ModuleTypes, Zenon DEF Outside
  <2> QED
    BY <1>1, <1>16, <2>1, Zenon DEF Outside, Others, Serial, appVars, atVars, kernelVars
<1>17. CASE UNCHANGED vars
  BY <1>1, <1>17, Zenon DEF vars, Others, appVars, espVars, atVars, kernelVars
<1> QED
  BY <1>3, <1>4, <1>5, <1>6, <1>7, <1>8, <1>9, <1>10, <1>11, <1>12, <1>13, <1>14,
     <1>15, <1>16, <1>17, Zenon DEF Next, Tasks, Environment

-----------------------------------------------------------------------------
(* Data clears no target: what is handed over may set one.                 *)
LEMMA DataKeepsTarget ==
  ASSUME NEW data, ProcessRxDataStream(data), hci \in HciType, hci.tarState # Zero
  PROVE  hci'.tarState # Zero
<1> DEFINE h == [hci EXCEPT !.curState.comm = hci.curState.comm \ {"Rx"}]
<1>1. h.tarState = hci.tarState /\ DOMAIN h = DOMAIN hci
  BY DEF HciType
<1>2. hci' \in {h, OnWebSocketRxData(h, data), HciWiFiSocketClose(h), WebSocketClose(h)}
  BY Zenon DEF ProcessRxDataStream, RxHandshaking, RxHandshakePass, RxOtherwise
<1>3. h \in HciType
  BY DEF HciType
<1> HIDE DEF h
<1>4. \A u : HciWiFiSocketSend(h, u).tarState = h.tarState
  BY <1>3 DEF HciWiFiSocketSend, HciType
<1>5. WebSocketSend(h).tarState = h.tarState /\ WebSocketClose(h).tarState = h.tarState
  BY <1>4 DEF WebSocketSend, WebSocketClose
<1>6. OnWebSocketRxData(h, data).tarState = h.tarState
  BY <1>5 DEF OnWebSocketRxData
<1>7. HciWiFiSocketClose(h).tarState = Joined
  BY <1>3 DEF HciWiFiSocketClose, Target, HciType
<1>8. Joined # Zero
  BY DEF Joined, Ready, Zero, HCI_WIFI_STATE
<1> QED BY <1>1, <1>2, <1>5, <1>6, <1>7, <1>8

(* The head of a packet posts no state: no processor waits for it. *)
LEMMA HeadPostsNone ==
  ASSUME NEW row \in RowsFor("+IPD")
  PROVE  ~row.post
<1>1. \A r, p, a, n, c, b : r = Row(p, a, n, c, b) => r.at = a /\ r.post = b
  BY DEF Row
<1>2. ASSUME NEW r \in Replies PROVE r.at # "+IPD"
  <2>0. \A p, a, n, c, b : r = Row(p, a, n, c, b) => r.at = a
    BY <1>1, Zenon
  <2>1. CASE r \in JoinReplies
    <3>1. r.at \in {"+CWJAP:", "FAIL", "OK", "WIFI CONNECTED",
                    "WIFI DISCONNECT", "WIFI GOT IP"}
      BY <2>0, <2>1, Zenon DEF JoinReplies
    <3> QED BY <3>1
  <2>2. CASE r \in SmartReplies
    <3>1. r.at \in {"OK"}
      BY <2>0, <2>2, Zenon DEF SmartReplies
    <3> QED BY <3>1
  <2>3. CASE r \in OpenReplies
    <3> DEFINE n == IF errReason THEN "NULL" ELSE "CIPSTART"
    <3>1. \/ r.at = "CONNECT" \/ r.at = "OK" \/ r.at = "no ip" \/ r.at = "DNS Fail"
          \/ r.at = "ERROR" \/ r.at = "CLOSED"
      BY <2>0, <2>3, Zenon DEF OpenReplies, n
    <3> QED BY <3>1
  <2>4. CASE r \in OtherReplies
    <3>1. r.at \in {"AT+CWQAP", "OK"}
      BY <2>0, <2>4, Zenon DEF OtherReplies
    <3> QED BY <3>1
  <2>5. CASE r \in SmartConfigLines
    <3>1. r.at \in {"AT+CWSTOPSMART", "WIFI CONNECTED", "WIFI DISCONNECT",
                    "WIFI GOT IP", "password:", "smartconfig connected wifi",
                    "smartconfig type:", "ssid:"}
      BY <2>0, <2>5, Zenon DEF SmartConfigLines
    <3> QED BY <3>1
  <2>6. CASE r \in TxReplies
    <3>1. r.at \in {"CLOSED", "SEND FAIL", "SEND OK"}
      BY <2>0, <2>6, Zenon DEF TxReplies
    <3> QED BY <3>1
  <2> QED BY <1>2, <2>1, <2>2, <2>3, <2>4, <2>5, <2>6, Zenon DEF Replies
<1>3. RowsIn(Replies, "+IPD") = {}
  BY <1>2 DEF RowsIn
<1>4. Generic("+IPD", None, FALSE) \in RowsIn(Unasked, "+IPD")
  BY <1>1, Zenon DEF RowsIn, Unasked, Generic, Row
<1>5. row \in Unasked /\ row.at = "+IPD"
  BY <1>3, <1>4, Zenon DEF RowsFor, RowsIn
<1>6. row.post = FALSE
      \/ row.at \in {"busy p...", "ready", "WIFI CONNECTED", "WIFI GOT IP",
                     "WIFI DISCONNECT", "CLOSED"}
  <2>1. \A p, a, n, c, b : row = Row(p, a, n, c, b) => row.at = a
    BY <1>1, Zenon
  <2>2. \A p, a, n, c, b : row = Row(p, a, n, c, b) => row.post = b
    BY <1>1, Zenon
  <2>3. CASE row = Generic("+IPD", None, FALSE) \/ row = Generic("busy p...", None, FALSE)
    BY <2>2, <2>3, Zenon DEF Generic
  <2>4. CASE ~(row = Generic("+IPD", None, FALSE) \/ row = Generic("busy p...", None, FALSE))
    BY <1>5, <2>1, <2>4, Zenon DEF Unasked, Generic
  <2> QED BY <2>3, <2>4
<1>7. "+IPD" \notin {"busy p...", "ready", "WIFI CONNECTED", "WIFI GOT IP",
                    "WIFI DISCONNECT", "CLOSED"}
  OBVIOUS
<1> QED BY <1>5, <1>6, <1>7, Zenon

LEMMA DataStep ==
  ASSUME hci \in HciType, mail \in Seq(Message), mail # << >>, OnlyData(mail),
         hci.tarState # Zero, ProcessOsalMsg(Head(mail))
  PROVE  OnlyData(mail') /\ hci'.tarState # Zero
<1>1. Head(mail) = mail[1] /\ 1 \in 1 .. Len(mail)
      /\ Tail(mail) \in Seq(Message) /\ Len(Tail(mail)) = Len(mail) - 1
      /\ \A i \in 1 .. Len(Tail(mail)) : Tail(mail)[i] = mail[i + 1]
  OBVIOUS
<1>2. IsData(Head(mail)) /\ OnlyData(Tail(mail))
  BY <1>1 DEF OnlyData
<1>3. CASE Head(mail).head = "RxDataStream"
  <2>1. ProcessRxDataStream(Head(mail).data) /\ mail' = Tail(mail)
    BY <1>3 DEF ProcessOsalMsg
  <2> QED BY <1>2, <2>1, DataKeepsTarget
<1>4. CASE Head(mail).head = "ATCmd" /\ Head(mail).line.at = "+IPD"
  <2> DEFINE line == Head(mail).line
             msg == [head |-> "RxDataStream", data |-> line.data]
  <2>1. PICK row \in RowsFor("+IPD") : HciWiFiATCoP(line, row)
    BY <1>4 DEF ProcessOsalMsg
  <2>2. ~row.post
    BY HeadPostsNone
  <2>3. Posted(line) = <<msg>>
    BY <1>4 DEF Posted
  <2>4. mail' = Tail(mail) \o <<msg>>
    <3>1. mail' = Tail(mail) \o Posted(line) \o << >>
      BY <2>1, <2>2 DEF HciWiFiATCoP
    <3>2. (Tail(mail) \o <<msg>>) \o << >> = Tail(mail) \o <<msg>>
      <4> HIDE DEF msg
      <4> QED BY <1>1
    <3> QED BY <2>3, <3>1, <3>2
  <2>5. IsData(msg)
    BY DEF IsData
  <2>6. OnlyData(mail')
    <3> HIDE DEF msg
    <3>1. mail' = Append(Tail(mail), msg)
      <4>1. \A m \in Seq(Message) : \A x : m \o <<x>> = Append(m, x)
        OBVIOUS
      <4> QED BY <1>1, <2>4, <4>1, Zenon
    <3>2. Len(mail') = Len(Tail(mail)) + 1 /\ Len(Tail(mail)) \in Nat
      BY <1>1, <3>1
    <3>3. mail'[Len(mail')] = msg
          /\ \A i \in 1 .. Len(Tail(mail)) : mail'[i] = Tail(mail)[i]
      BY <1>1, <3>1
    <3>4. ASSUME NEW i \in 1 .. Len(mail') PROVE IsData(mail'[i])
      <4>1. i = Len(mail') \/ i \in 1 .. Len(Tail(mail))
        BY <3>2
      <4> QED BY <1>2, <2>5, <3>3, <4>1 DEF OnlyData
    <3> QED BY <3>4 DEF OnlyData
  <2>7. hci'.tarState = hci.tarState
    BY <2>1 DEF HciWiFiATCoP, HciType
  <2> QED BY <2>6, <2>7
<1> QED BY <1>2, <1>3, <1>4 DEF IsData

LEMMA TurnsNext ==
  ASSUME IInv, Turns, Orderly, [Next]_vars
  PROVE  Turns'
<1> USE DEF Turns
<1>1. Core /\ mail \in Seq(Message) /\ hci \in HciType
  BY Parts, Zenon DEF IInv, Typed, Firmware, Core
<1>2. CASE HciReceives
  <2>1. NoCheck(hci)'
    BY <1>2 DEF HciReceives, NoCheck
  <2>2. Announced'
    BY <1>2 DEF HciReceives, Announced, espVars
  <2>3. Holding'
    BY <1>1, <1>2 DEF HciReceives, Holding, Waiting, NoCheck, HciType
  <2> QED BY <1>2, <2>1, <2>2, <2>3 DEF HciReceives, Waiting
<1>3. CASE HciMessage
  <2>1. /\ mail # << >> /\ FailedByMsg(Head(mail)) = {} /\ ProcessOsalMsg(Head(mail))
        /\ UNCHANGED <<running, held, receiving>> /\ running = "HciWiFi"
    BY <1>3, Zenon DEF HciMessage, kernelVars
  <2>2. Head(mail) \in Message
    BY <1>1, <2>1, HeadTailProperties
  <2>3. NoCheck(hci')
    BY <1>1, <2>1, <2>2, MessageStep, Zenon DEF CoreStep
  <2>4. Holding'
    BY <1>1, <2>1, DataStep, Zenon DEF Holding
  <2> QED BY <2>1, <2>3, <2>4 DEF Announced, Waiting
<1>4. CASE HciReturns
  BY <1>1, <1>4 DEF HciReturns, NoCheck, Announced, Waiting, Holding, Core, HciType
<1>5. CASE HciEvent
  <2>1. running = "None" /\ mail = << >> /\ UNCHANGED <<mail, wire, running, receiving>>
    BY <1>5, Zenon DEF HciEvent, kernelVars
  <2>2. NoCheck(hci')
    BY <1>1, <1>5, FlagStep, Zenon DEF HciEvent, CoreStep, wsVars
  <2> QED BY <2>1, <2>2 DEF Announced, Waiting, Holding
<1>6. CASE AppReceives
  BY <1>6 DEF AppReceives, HciIdle, NoCheck, Announced, Waiting, Holding, espVars
<1>7. CASE AppMessage
  <2>1. running = "AppLock" /\ mail = << >> /\ UNCHANGED <<mail, wire, running, receiving>>
    BY <1>7 DEF AppMessage, kernelVars, espVars
  <2>2. NoCheck(hci')
    BY <1>1, <1>7, KeyStep, Zenon DEF AppMessage, CoreStep, wsVars
  <2> QED BY <2>1, <2>2 DEF Announced, Waiting, Holding
<1>8. CASE AppReturns
  BY <1>8 DEF AppReturns, NoCheck, Announced, Waiting, Holding, espVars
<1>9. CASE AppEvent
  <2>1. running = "None" /\ mail = << >> /\ UNCHANGED <<mail, wire, running, receiving>>
    BY <1>9 DEF AppEvent, kernelVars, espVars, HciIdle
  <2>2. NoCheck(hci')
    BY <1>1, <1>9, AppStep, Zenon DEF AppEvent, CoreStep
  <2> QED BY <2>1, <2>2 DEF Announced, Waiting, Holding
<1>10. CASE HalHead
  <2>1. NoCheck(hci')
    BY <1>1, <1>10 DEF HalHead, NoCheck, HciType
  <2> QED BY <1>10, <2>1 DEF HalHead, HciIdle, Announced, Waiting, Holding, espVars
<1>11. CASE HalLine
  <2>1. running = "None" /\ running' = "None" /\ receiving' = FALSE /\ hci' = hci
    BY <1>11 DEF HalLine
  <2>2. CASE hci.events = {}
    BY <2>1, <2>2 DEF NoCheck, Announced, Waiting, Holding
  <2>3. CASE hci.events # {}
    <3>1. mail = << >> /\ Head(wire).at = "+IPD"
      BY <1>11, <2>3 DEF HalLine, HciIdle, Announced
    <3>2. mail' = <<[head |-> "ATCmd", line |-> Head(wire)]>>
      BY <1>11, <3>1 DEF HalLine
    <3>3. OnlyData(mail')
      BY <3>1, <3>2 DEF OnlyData, IsData
    <3> QED BY <2>1, <3>3 DEF NoCheck, Announced, Waiting, Holding
  <2> QED BY <2>2, <2>3
<1>12. ASSUME NEW f \in AppFlags \cup {"HciEnable", "PairingTimeout"}, Expire(f)
       PROVE  Turns'
  <2>1. running = "None" /\ mail = << >> /\ UNCHANGED <<mail, wire, running, receiving>>
    BY <1>12 DEF Expire, Idle, HciIdle, kernelVars
  <2>2. NoCheck(hci')
    <3>1. CASE f \in AppFlags
      BY <1>12, <3>1, Zenon DEF Expire
    <3>2. CASE f \notin AppFlags
      <4>1. hci' = [hci EXCEPT !.events = hci.events \cup {f}]
        BY <1>12, <3>2 DEF Expire
      <4> QED BY <1>1, <1>12, <3>2, <4>1 DEF NoCheck, HciType
    <3> QED BY <3>1, <3>2
  <2> QED BY <2>1, <2>2 DEF Announced, Waiting, Holding
<1>13. CASE Restart
  BY <1>13 DEF Restart, NoCheck, HciWiFi_Init, Alone, Zero, Ready, HCI_WIFI_STATE,
               Announced, Waiting, Holding
<1>14. CASE Outside
  <2>1. wire = << >> /\ UNCHANGED <<hci, mail, running, held, receiving>>
    BY <1>14 DEF Outside, EspNext, kernelVars
  <2> QED BY <2>1 DEF NoCheck, Announced, Waiting, Holding
<1>15. CASE AssertionFails \/ (\E key \in Keys : Press(key)) \/ UNCHANGED vars
  <2>1. UNCHANGED <<hci, mail, wire, running, held, receiving>>
    BY <1>15, Zenon DEF AssertionFails, Press, vars, kernelVars, espVars
  <2> QED BY <2>1 DEF NoCheck, Announced, Waiting, Holding
<1> QED
  BY <1>2, <1>3, <1>4, <1>5, <1>6, <1>7, <1>8, <1>9, <1>10, <1>11, <1>12, <1>13, <1>14,
     <1>15, Zenon DEF Next, Tasks, Environment

-----------------------------------------------------------------------------
(* The types, as a property of the whole.                                  *)
THEOREM TypesHold == Spec => []TypeOK
<1>1. IInv => TypeOK
  BY Zenon DEF IInv, Typed, Flags, Firmware, TypeOK
<1>2. IInv /\ [Next]_vars => IInv'
  BY CoreNext, OthersNext, PartsNext, Zenon
<1> QED BY <1>1, <1>2, InitIInv, PTL DEF Spec

(* The websocket and its socket come and go together, whatever the module  *)
(* says in whatever order, and credentials are staged only while a pairing *)
(* is under way: neither a leak nor a use after free, in every execution   *)
(* with any number of failures.                                            *)
THEOREM SocketAndWebSocket == Spec => []WebSocketFollowsSocket
<1>1. IInv => WebSocketFollowsSocket
  BY Zenon DEF IInv
<1>2. IInv /\ [Next]_vars => IInv'
  BY CoreNext, OthersNext, PartsNext, Zenon
<1> QED BY <1>1, <1>2, InitIInv, PTL DEF Spec

(* If the module speaks in turn, no check of the target state is pending   *)
(* once the target is cleared ("job done, clear target state"), whatever   *)
(* keys are pressed, though the data of a packet may come while a check is *)
(* pending and the scheduler then gives that check back.                   *)
THEOREM NoCheckStays ==
  ASSUME Orderly
  PROVE  Spec => []NoCheckWithoutTarget
<1>1. Init => Turns
  BY DEF Init, HciWiFiInit, KernelInit, Turns, NoCheck, HciWiFi_Init, Alone, Zero, Ready,
         HCI_WIFI_STATE, Announced, Waiting, Holding
<1>2. IInv /\ Turns /\ [Next]_vars => IInv' /\ Turns'
  BY CoreNext, OthersNext, PartsNext, TurnsNext, Zenon
<1>3. Turns => NoCheckWithoutTarget
  BY DEF Turns, NoCheck, NoCheckWithoutTarget
<1> QED BY <1>1, <1>2, <1>3, InitIInv, PTL DEF Spec
=============================================================================
