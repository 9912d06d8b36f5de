------------------------------ MODULE HciWiFi -------------------------------
(***************************************************************************)
(* The HCI task (src/firmware/hci): the AT command processor that turns    *)
(* the lines of the module into states (hci_wifiatcop.c), the state        *)
(* handler with its callbacks and the state controller that steers the     *)
(* module to the target state by commands (hci_wifi.c, hci_wificmd.c).     *)
(*                                                                         *)
(* Every action is one run of the task's handler for one message or one    *)
(* flag.  A handler whose HAL_ASSERT fails leaves the line in fault; what  *)
(* else it did is of no interest, the device restarts.                     *)
(***************************************************************************)
EXTENDS AppLock, Esp8266

VARIABLES
  mail,         \* the queued messages of the task
  hciWiFiState, \* what the AT command processor last knew
  pfnATCmdProcessor,
  txLen,
  errReason     \* a reason for the coming ERROR was given

atVars == <<hciWiFiState, pfnATCmdProcessor, txLen, errReason>>

Processors ==
  {"NULL", "CWMODE_CUR", "CWJAP_CUR", "CWSTARTSMART", "CWSTOPSMART", "CIPSTART",
   "CIPSEND", "CIPCLOSE", "CWQAP", "SmartConfig", "TxDataStream"}

HciWiFiInit ==
  /\ hci = HciWiFi_Init
  /\ mail = << >>
  /\ hciWiFiState = Zero
  /\ pfnATCmdProcessor = "NULL"
  /\ txLen = 0
  /\ errReason = FALSE

Issue(c) == cmds' = Append(cmds, c)
NoCommand == UNCHANGED cmds

-----------------------------------------------------------------------------
(* HciWiFiATCoP: what the lines mean, by processor.  A row says which      *)
(* processor takes over, what changes in hciWiFiState and whether the      *)
(* state is posted to the task.                                            *)

Row(proc, at, next, change, post) ==
  [proc |-> proc, at |-> at, next |-> next, change |-> change, post |-> post]

None == [of |-> "none", to |-> "none"]
Dev(s) == [of |-> "dev", to |-> s]
Conn(s) == [of |-> "conn", to |-> s]
Sckt(s) == [of |-> "sckt", to |-> s]

Changed(state, change) ==
  CASE change.of = "dev"  -> [state EXCEPT !.dev = change.to]
    [] change.of = "conn" -> [state EXCEPT !.conn = change.to]
    [] change.of = "sckt" -> [state EXCEPT !.sckt = change.to]
    [] OTHER -> state

JoinReplies ==
  {Row("CWMODE_CUR", "OK", "NULL", Dev("Initialized"), TRUE),
   Row("CWJAP_CUR", "WIFI CONNECTED", "CWJAP_CUR", Conn("Connected"), FALSE),
   Row("CWJAP_CUR", "WIFI GOT IP", "CWJAP_CUR", Conn("GotIP"), FALSE),
   Row("CWJAP_CUR", "WIFI DISCONNECT", "CWJAP_CUR", Conn("Disconnected"), FALSE),
   Row("CWJAP_CUR", "+CWJAP:", "CWJAP_CUR", Conn("Disconnected"), FALSE),
   Row("CWJAP_CUR", "OK", "NULL", None, TRUE),
   Row("CWJAP_CUR", "FAIL", "NULL", Conn("Disconnected"), TRUE)}

SmartReplies ==
  {Row("CWSTARTSMART", "OK", "SmartConfig", Conn("PairingWaiting"), TRUE),
   Row("CWSTOPSMART", "OK", "NULL", Conn("PairingStopped"), TRUE)}

OpenReplies ==
  {Row("CIPSTART", "CONNECT", "CIPSTART", Sckt("Opened"), FALSE),
   Row("CIPSTART", "OK", "NULL", None, TRUE),
   Row("CIPSTART", "no ip", "CIPSTART", None, FALSE),
   Row("CIPSTART", "DNS Fail", "CIPSTART", None, FALSE),
   Row("CIPSTART", "ERROR", IF errReason THEN "NULL" ELSE "CIPSTART",
       Sckt("Closed"), errReason),
   Row("CIPSTART", "CLOSED", "NULL", Sckt("Closed"), TRUE)}

OtherReplies ==
  {Row("CIPSEND", "OK", "TxDataStream", None, FALSE),
   Row("CIPCLOSE", "OK", "NULL", Sckt("Closed"), TRUE),
   Row("CWQAP", "AT+CWQAP", "CWQAP", None, FALSE),
   Row("CWQAP", "OK", "NULL", None, FALSE)}

SmartConfigLines ==
  {Row("SmartConfig", "smartconfig type:", "SmartConfig", None, FALSE),
   Row("SmartConfig", "ssid:", "SmartConfig", None, FALSE),
   Row("SmartConfig", "password:", "SmartConfig", None, FALSE),
   Row("SmartConfig", "WIFI CONNECTED", "SmartConfig", None, FALSE),
   Row("SmartConfig", "WIFI GOT IP", "SmartConfig", None, FALSE),
   Row("SmartConfig", "smartconfig connected wifi", "NULL", Conn("PairingSuccess"), TRUE),
   Row("SmartConfig", "WIFI DISCONNECT", "NULL", Conn("PairingFailure"), TRUE),
   Row("SmartConfig", "AT+CWSTOPSMART", "CWSTOPSMART", None, FALSE)}

TxReplies ==
  {Row("TxDataStream", "SEND OK", "NULL", None, FALSE),
   Row("TxDataStream", "CLOSED", "TxDataStream", Sckt("Closed"), FALSE),
   Row("TxDataStream", "SEND FAIL", "NULL", None, TRUE)}

Replies ==
  JoinReplies \cup SmartReplies \cup OpenReplies \cup OtherReplies
    \cup SmartConfigLines \cup TxReplies

(* ATCmdProcessor_Generic takes the lines that may come at any time ...    *)
Generic(at, change, post) == Row(pfnATCmdProcessor, at, pfnATCmdProcessor, change, post)

Unasked ==
  {Generic("+IPD", None, FALSE),
   Generic("busy p...", None, FALSE),
   Generic("ready", Dev("Initializing"), TRUE),
   Generic("WIFI CONNECTED", Conn("Connected"), TRUE),
   Generic("WIFI GOT IP", Conn("GotIP"), TRUE),
   Generic("WIFI DISCONNECT", Conn("Disconnected"), TRUE),
   Generic("CLOSED", Sckt("Closed"), TRUE)}

(* ... and the echo of a command while no processor is at work.            *)
Echoes ==
  {Row("NULL", "AT+CWMODE_CUR", "CWMODE_CUR", None, FALSE),
   Row("NULL", "AT+CWJAP_CUR", "CWJAP_CUR", Conn("Connecting"), TRUE),
   Row("NULL", "AT+CWSTARTSMART", "CWSTARTSMART", None, FALSE),
   Row("NULL", "AT+CIPSTART", "CIPSTART", Sckt("Opening"), TRUE),
   Row("NULL", "AT+CIPSEND", "CIPSEND", None, FALSE),
   Row("NULL", "smartconfig type:", "SmartConfig", Conn("PairingStarted"), TRUE),
   Row("NULL", "AT+CIPCLOSE", "CIPCLOSE", Sckt("Closing"), TRUE),
   Row("NULL", "AT+CWSTOPSMART", "CWSTOPSMART", None, FALSE),
   Row("NULL", "AT+CWQAP", "CWQAP", Conn("Disconnecting"), TRUE)}

(* The rows for a line: the processor's own, else the generic ones. *)
RowsIn(table, at) == {r \in table : r.proc = pfnATCmdProcessor /\ r.at = at}

RowsFor(at) ==
  IF RowsIn(Replies, at) # {} THEN RowsIn(Replies, at)
    ELSE IF RowsIn(Unasked, at) # {} THEN RowsIn(Unasked, at)
    ELSE RowsIn(Echoes, at)

(* What a line adds to the task's messages besides the state. *)
Posted(line) ==
  CASE line.at = "+IPD" -> <<[head |-> "RxDataStream", data |-> line.data]>>
    [] pfnATCmdProcessor = "SmartConfig" /\ line.at = "ssid:"
         -> <<[head |-> "Update", credential |-> "ssid"]>>
    [] pfnATCmdProcessor = "SmartConfig" /\ line.at = "password:"
         -> <<[head |-> "Update", credential |-> "passwd"]>>
    [] pfnATCmdProcessor = "CIPSEND" /\ line.at = "OK"
         -> <<[head |-> "TxDataStream", len |-> txLen]>>
    [] OTHER -> << >>

(* Mutant: the end of SmartConfig does not stop the timer. *)
PairingTimer_RunsOn(at, row) ==
  IF \/ pfnATCmdProcessor = "CWSTARTSMART" /\ row.next = "SmartConfig"
     \/ /\ pfnATCmdProcessor = "SmartConfig" /\ row.next = "SmartConfig"
        /\ RowsIn(SmartConfigLines, at) # {}
    THEN timers \cup {"PairingTimeout"}
    ELSE timers

(* The PairingTimeout timer is started by the OK of AT+CWSTARTSMART,       *)
(* restarted by every line of SmartConfig and stopped by its end.          *)
PairingTimer(at, row) ==
  CASE \/ pfnATCmdProcessor = "CWSTARTSMART" /\ row.next = "SmartConfig"
       \/ /\ pfnATCmdProcessor = "SmartConfig" /\ row.next = "SmartConfig"
          /\ RowsIn(SmartConfigLines, at) # {}
         -> timers \cup {"PairingTimeout"}
    [] pfnATCmdProcessor = "SmartConfig" /\ row.next = "NULL"
         -> timers \ {"PairingTimeout"}
    [] OTHER -> timers

HciWiFiATCoP(line, row) ==
  /\ pfnATCmdProcessor' = row.next
  /\ hciWiFiState' = Changed(hciWiFiState, row.change)
  /\ txLen' = IF pfnATCmdProcessor = "NULL" /\ line.at = "AT+CIPSEND"
                THEN line.n ELSE txLen
  /\ errReason' =
       IF pfnATCmdProcessor # "CIPSTART" THEN errReason
         ELSE row.next # "NULL" /\ (errReason \/ line.at \in {"no ip", "DNS Fail"})
  /\ timers' = PairingTimer(line.at, row)
  /\ mail' = Tail(mail) \o Posted(line)
               \o (IF row.post
                     THEN <<[head |-> "HciWiFiState", state |-> hciWiFiState']>>
                     ELSE << >>)
  /\ hci' = IF pfnATCmdProcessor = "TxDataStream" /\ line.at = "SEND OK"
              THEN [hci EXCEPT !.events = @ \cup {"Transmitted"}]
              ELSE hci
  /\ UNCHANGED <<wsVars, isPairingEnable, staged, flash, appEvents, keys, cmds>>

-----------------------------------------------------------------------------
(* HciWiFi_ProcessHciState: the posted state becomes the current one, and  *)
(* the callbacks of what it ends or completes are made.                    *)

Failing(line, ok) == IF ok THEN {} ELSE {line}
NoSocket == hci.pSocketInitStruct = "NULL"
NoTx == hci.scktTxFIFO = << >>
HasConn == hci.pConnInitStruct # "NULL"
HasPairing == hci.pPairingInitStruct # {}

(* The assertions a state makes.  (824 is the use of a NULL pointer, which *)
(* calls what it finds in the vector table; 847 stands behind it.)         *)
FailedByState(state) ==
  CASE state = Initializing -> Failing(526, NoSocket) \cup Failing(527, NoTx)
    [] state = Ready("Closed", "Connecting") ->
         Failing(538, HasConn) \cup Failing(539, NoSocket) \cup Failing(540, NoTx)
    [] state = Ready("Closed", "Connected") ->
         Failing(548, HasConn) \cup Failing(549, NoSocket) \cup Failing(550, NoTx)
    [] state = Alone -> Failing(562, NoTx)
    [] state = Ready("Opening", "GotIP") -> Failing(638, NoTx)
    [] state = Online ->
         Failing(646, HasConn) \cup Failing(647, ~NoSocket) \cup Failing(648, NoTx)
    [] state = Ready("Closing", "GotIP") ->
         Failing(747, HasConn) \cup Failing(748, ~NoSocket)
    [] state = Pairing -> Failing(763, HasPairing)
    [] state = Ready("Closed", "PairingSuccess") -> Failing(792, HasPairing)
    [] state = Ready("Closed", "PairingFailure") -> Failing(812, HasPairing)
    [] state = Stopped ->
         Failing(824, HasPairing)
           \cup Failing(847, hci.pPairingInitStruct # {"Allocated"})
    [] state \in {Joined, Ready("Closed", "PairingStarted"),
                  Ready("Closed", "Disconnecting"),
                  Ready("Opening", "Disconnected")} -> {}
    [] OTHER -> {876}

(* Mutant: a check that is no longer needed stays pending. *)
CheckTarget_Pending(h) ==
  [h EXCEPT !.tarState = IF @ = h.curState THEN Zero ELSE @,
            !.events = IF h.curState # Zero THEN @ \cup {"CheckHciWiFiState"} ELSE @]

(* The end of the handler: is the target reached, or is there more to do?  *)
CheckTarget(h) ==
  IF h.curState = h.tarState
    THEN [h EXCEPT !.tarState = Zero, !.events = @ \ {"CheckHciWiFiState"}]
    ELSE IF h.tarState # Zero /\ h.curState # Zero
           THEN [h EXCEPT !.events = @ \cup {"CheckHciWiFiState"}]
           ELSE h

(* A socket that exists is freed, and its onSocketClosed called. *)
FreeSocket(h) ==
  IF NoSocket THEN h ELSE ThenPair([h EXCEPT !.pSocketInitStruct = "NULL"])

SocketClosed ==
  IF NoSocket
    THEN UNCHANGED <<wsVars, isPairingEnable>>
    ELSE onSocketClosed /\ onWebSocketClosed

TimersOfSocket == IF NoSocket THEN timers ELSE OnWebSocketClosed(timers)

Uninvolved == UNCHANGED <<wsVars, isPairingEnable, staged, flash, timers>>

(* The states that only report progress, and the one the module boots into.*)
StateReported(h) ==
  /\ h.curState \in {Ready("Closed", c) : c \in {"Connecting", "Connected",
                       "PairingWaiting", "PairingStarted", "Disconnecting"}}
                    \cup {Ready("Opening", "GotIP"), Ready("Opening", "Disconnected")}
  /\ hci' = CheckTarget(h)
  /\ NoCommand /\ Uninvolved

StateInitializing(h) ==
  /\ h.curState = Initializing
  /\ hci' = CheckTarget([h EXCEPT !.curState = Zero])
  /\ Issue(AT("AT+CWMODE_CUR"))
  /\ Uninvolved

(* Disconnected: a socket and a connection that exist are gone. *)
StateDisconnected(h) ==
  /\ h.curState = Alone
  /\ hci' = CheckTarget([FreeSocket(h) EXCEPT !.pConnInitStruct = "NULL"])
  /\ SocketClosed
  /\ timers' = IF HasConn THEN OnWiFiDisconnected(TimersOfSocket)
                          ELSE TimersOfSocket
  /\ NoCommand /\ UNCHANGED <<staged, flash>>

StateOpened(h) ==
  /\ h.curState = Online
  /\ hci' = IF h.pSocketInitStruct = "Opening"
              THEN CheckTarget(Handshake([h EXCEPT !.pSocketInitStruct = "Opened"]))
              ELSE CheckTarget(h)
  /\ IF h.pSocketInitStruct = "Opening" THEN onSocketOpened ELSE UNCHANGED wsVars
  /\ NoCommand /\ UNCHANGED <<isPairingEnable, staged, flash, timers>>

(* Joined: the connection is made, or the socket is gone. *)
StateJoined(h) ==
  /\ h.curState = Joined
  /\ hci' = CheckTarget([FreeSocket(h) EXCEPT
              !.pConnInitStruct = IF @ = "NULL" THEN @ ELSE "Connected",
              !.scktTxFIFO = << >>])
  /\ SocketClosed
  /\ timers' = IF NoSocket
                 THEN IF h.pConnInitStruct = "Connecting"
                        THEN OnWiFiConnected(timers) ELSE timers
                 ELSE OnWebSocketClosed(IF h.pConnInitStruct = "Connecting"
                                          THEN OnWiFiConnected(timers) ELSE timers)
  /\ NoCommand /\ UNCHANGED <<staged, flash>>

StateClosing(h) ==
  /\ h.curState = Ready("Closing", "GotIP")
  /\ hci' = CheckTarget([h EXCEPT !.scktTxFIFO = << >>])
  /\ NoCommand /\ Uninvolved

(* Mutant: SmartConfig is not stopped. *)
StatePaired_Running(h) ==
  /\ h.curState \in {Ready("Closed", "PairingSuccess"),
                     Ready("Closed", "PairingFailure")}
  /\ hci' = CheckTarget([h EXCEPT !.curState = Zero])
  /\ NoCommand /\ Uninvolved

(* SmartConfig is over either way: stop it, and remember by the callback   *)
(* that is left which way it was.                                          *)
StatePaired(h) ==
  /\ \/ /\ h.curState = Ready("Closed", "PairingSuccess")
        /\ hci' = CheckTarget([h EXCEPT !.curState = Zero,
                                        !.pPairingInitStruct = @ \ {"Failure"}])
     \/ /\ h.curState = Ready("Closed", "PairingFailure")
        /\ hci' = CheckTarget([h EXCEPT !.curState = Zero,
                                        !.pPairingInitStruct = @ \ {"Success"}])
  /\ Issue(AT("AT+CWSTOPSMART"))
  /\ Uninvolved

StatePairingStopped(h) ==
  /\ h.curState = Stopped
  /\ IF "Failure" \notin h.pPairingInitStruct
       THEN /\ hci' = CheckTarget([h EXCEPT !.curState = Zero,
                                            !.pPairingInitStruct = {}])
            /\ Issue(AT("AT+CWQAP"))
            /\ onWiFiPairingSuccess
       ELSE /\ hci' = CheckTarget([h EXCEPT !.pPairingInitStruct = {}])
            /\ NoCommand
            /\ onWiFiPairingFailure
  /\ UNCHANGED <<wsVars, isPairingEnable>>

ProcessHciState(state) ==
  LET h == [hci EXCEPT !.curState = state]
  IN  \/ StateReported(h) \/ StateInitializing(h) \/ StateDisconnected(h)
      \/ StateOpened(h) \/ StateJoined(h) \/ StateClosing(h)
      \/ StatePaired(h) \/ StatePairingStopped(h)

-----------------------------------------------------------------------------
(* The other messages *)

(* onSocketRxData, the callback of an open websocket. *)
RxHandshaking(h, data) ==
  /\ wsState = "Handshaking"
  /\ hci' = h
  /\ UNCHANGED <<pwsInit, isPairingEnable>>
  /\ IF data = "101"
       THEN wsState' = "HandshakePass" /\ onWebSocketOpened
       ELSE wsState' = "Closing" /\ UNCHANGED timers

RxHandshakePass(h, data) ==
  /\ wsState = "HandshakePass"
  /\ \/ /\ data \in {"text", "PAIRING!", "WSCLOSE!"}
        /\ hci' = OnWebSocketRxData(h, data)
        /\ onWebSocketRxData(data)
     \/ /\ data = "close"
        /\ hci' = HciWiFiSocketClose(h)
        /\ wsState' = "Closing"
        /\ UNCHANGED <<pwsInit, isPairingEnable, timers>>
     \/ /\ data \in {"101", "404", "malformed"}
        /\ hci' = WebSocketClose(h)
        /\ WebSocketCloses
        /\ UNCHANGED <<isPairingEnable, timers>>

(* While closing, anything but a close frame forces the socket closed;     *)
(* a websocket that is not in use ignores what comes.                      *)
RxOtherwise(h, data) ==
  /\ wsState \in {"Closed", "Opening", "Closing"}
  /\ hci' = IF wsState = "Closing" /\ data # "close" THEN HciWiFiSocketClose(h) ELSE h
  /\ UNCHANGED <<wsVars, isPairingEnable, timers>>

ProcessRxDataStream(data) ==
  /\ LET h == [hci EXCEPT !.curState.comm = @ \ {"Rx"}]
     IN  \/ RxHandshaking(h, data) \/ RxHandshakePass(h, data)
         \/ RxOtherwise(h, data)
  /\ NoCommand /\ UNCHANGED <<staged, flash>>

ProcessTxDataStream(len) ==
  /\ Issue([at |-> "data", units |-> SubSeq(hci.scktTxFIFO, 1, len)])
  /\ hci' = [hci EXCEPT !.scktTxFIFO = SubSeq(@, len + 1, Len(@))]
  /\ Uninvolved

PairingUpdate(credential) ==
  /\ onWiFiPairingUpdate(credential)
  /\ NoCommand
  /\ UNCHANGED <<hci, wsVars, isPairingEnable, flash, timers>>

FailedByMsg(msg) ==
  CASE msg.head = "ATCmd" -> Failing(56, RowsFor(msg.line.at) # {})
    [] msg.head = "HciWiFiState" -> FailedByState(msg.state)
    [] msg.head = "RxDataStream" -> Failing(492, ~NoSocket)
    [] msg.head = "TxDataStream" ->
         Failing(1080, ~NoTx) \cup Failing(1081, Len(hci.scktTxFIFO) >= msg.len)
    [] msg.head = "Update" -> Failing(473, HasPairing)

(* HciWiFi_ProcessOsalMsg *)
ProcessOsalMsg(msg) ==
  \/ /\ msg.head = "ATCmd"
     /\ \E row \in RowsFor(msg.line.at) : HciWiFiATCoP(msg.line, row)
  \/ /\ \/ msg.head = "HciWiFiState" /\ ProcessHciState(msg.state)
        \/ msg.head = "RxDataStream" /\ ProcessRxDataStream(msg.data)
        \/ msg.head = "TxDataStream" /\ ProcessTxDataStream(msg.len)
        \/ msg.head = "Update" /\ PairingUpdate(msg.credential)
     /\ mail' = Tail(mail)
     /\ UNCHANGED <<atVars, appEvents, keys>>

-----------------------------------------------------------------------------
(* HciWiFi_StateController: the command that brings the module nearer to   *)
(* the target.  The current state is unknown until the answer comes.       *)

Steer(h, c) == Issue(c) /\ hci' = [h EXCEPT !.curState = Zero]
Wait(h) == NoCommand /\ hci' = h

(* A socket is only closed when nothing is being sent or received.         *)
CloseSocket == hci.curState.sckt = "Opened" /\ hci.curState.comm = {}

Apart == hci.curState.conn \in {"Disconnected", "PairingStopped"}

(* Mutant: it does not look at the state of the socket. *)
MayOpen_AnySocket ==
  hci.curState.dev = "Initialized" /\ hci.curState.conn = "GotIP" /\ ~NoSocket

MayOpen == hci.curState = Joined /\ ~NoSocket

CommandFor ==
  LET cur == hci.curState
  IN  CASE hci.tarState = Joined /\ cur.dev = "Initialized" ->
             IF Apart
               THEN IF HasConn THEN {AT("AT+CWJAP_CUR")} ELSE {}
               ELSE IF cur.conn = "GotIP" /\ CloseSocket THEN {AT("AT+CIPCLOSE")} ELSE {}
        [] hci.tarState = Pairing /\ cur.dev = "Initialized" /\ Apart ->
             {AT("AT+CWSTARTSMART")}
        [] hci.tarState \in {Pairing, Alone} /\ cur.dev = "Initialized"
           /\ cur.conn = "GotIP" ->
             IF cur.sckt = "Closed" THEN {AT("AT+CWQAP")}
             ELSE IF CloseSocket THEN {AT("AT+CIPCLOSE")} ELSE {}
        [] hci.tarState = Online ->
             IF MayOpen THEN {AT("AT+CIPSTART")} ELSE {}
        [] OTHER -> {}

StateController(h) ==
  /\ IF h.curState = h.tarState \/ CommandFor = {}
       THEN Wait(h)
       ELSE \E c \in CommandFor : Steer(h, c)
  /\ UNCHANGED <<timers, esp>>

(* The target states it knows; a cleared target (0x0000) is none of them.  *)
FailedByFlag(f) ==
  IF f = "CheckHciWiFiState" /\ hci.curState # hci.tarState
    THEN Failing(1070, hci.tarState # Zero)
    ELSE {}

-----------------------------------------------------------------------------
(* The other flags *)

SendNext == Issue([at |-> "AT+CIPSEND", n |-> Len(hci.scktTxFIFO)])

HciEnable(h) ==
  /\ esp' = PoweredUp
  /\ Wait(h) /\ UNCHANGED timers

(* Mutant: it does not look whether a transfer is under way. *)
TxPoll_Again(h) ==
  /\ IF h.curState.sckt = "Opened" /\ ~NoTx
       THEN /\ hci' = [h EXCEPT !.curState.comm = @ \cup {"Tx"}]
            /\ SendNext
       ELSE Wait(h)
  /\ UNCHANGED <<timers, esp>>

TxPoll(h) ==
  /\ IF h.curState \in {Online, [Online EXCEPT !.comm = {"Rx"}]} /\ ~NoTx
       THEN /\ hci' = [h EXCEPT !.curState.comm = @ \cup {"Tx"}]
            /\ SendNext
       ELSE Wait(h)
  /\ UNCHANGED <<timers, esp>>

(* Mutants: the flag is not cleared; all of the state is cleared. *)
Transmitted_KeepsTx(h) ==
  /\ IF NoTx THEN Wait(h) ELSE SendNext /\ hci' = h
  /\ UNCHANGED <<timers, esp>>

Transmitted_ClearsAll(h) ==
  /\ IF NoTx THEN Wait([h EXCEPT !.curState = Zero]) ELSE SendNext /\ hci' = h
  /\ UNCHANGED <<timers, esp>>

Transmitted(h) ==
  /\ IF NoTx
       THEN Wait([h EXCEPT !.curState.comm = @ \ {"Tx"}])
       ELSE SendNext /\ hci' = h
  /\ UNCHANGED <<timers, esp>>

Receiving(h) ==
  /\ Wait([h EXCEPT !.curState.comm = @ \cup {"Rx"}])
  /\ UNCHANGED <<timers, esp>>

PairingTimeout(h) ==
  /\ Steer(h, AT("AT+CWSTOPSMART"))
  /\ UNCHANGED <<timers, esp>>

(* HciWiFi_ProcessEvent without a message works off the first flag. *)
HciOrder == <<"CheckHciWiFiState", "HciEnable", "TxPoll", "Transmitted",
              "Receiving", "PairingTimeout">>

HciProcessEvent(f) ==
  LET h == [hci EXCEPT !.events = @ \ {f}]
  IN  \/ f = "CheckHciWiFiState" /\ StateController(h)
      \/ f = "HciEnable" /\ HciEnable(h)
      \/ f = "TxPoll" /\ TxPoll(h)
      \/ f = "Transmitted" /\ Transmitted(h)
      \/ f = "Receiving" /\ Receiving(h)
      \/ f = "PairingTimeout" /\ PairingTimeout(h)
=============================================================================
