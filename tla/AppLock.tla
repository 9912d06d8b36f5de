------------------------------ MODULE AppLock -------------------------------
(***************************************************************************)
(* The application task (src/firmware/app/app_lock.c) as far as it keeps   *)
(* the lock connected: the stored credentials, pairing, the connection to  *)
(* the access point and the websocket, and the timers that drive them.     *)
(* The door, its relay, LEDs and buzzer do not touch any of this.          *)
(*                                                                         *)
(* A handler is an action; it says what becomes of hci as well, since the  *)
(* calls it makes end there.  A callback is an action on the variables of  *)
(* this module, and an operator on hci or timers where the HCI goes on     *)
(* working on these after the callback.                                    *)
(***************************************************************************)
EXTENDS WebSocket

CONSTANT Keys   \* what may be done at the door

ASSUME KeysAssumption == Keys \subseteq {"DoorOpened", "LongPress"}

VARIABLES
  isPairingEnable,
  staged,       \* which of pSSID and pPASSWD are allocated
  flash,        \* which credentials the data flash holds
  timers,       \* the running OSAL timers of both tasks, by their event
  appEvents,    \* the event word of this task without SYS_EVENT_MSG
  keys          \* its queued key messages

appVars == <<isPairingEnable, staged, flash, timers, appEvents, keys>>

Credentials == {"ssid", "passwd"}
AppFlags == {"SendHBP", "OpenWebSocket", "StartWiFiConn", "CloseWebSocket"}

(* AppLock_Init, and the timer that HciWiFi_Init starts; flash is kept.    *)
AppLock_Init ==
  /\ isPairingEnable = FALSE
  /\ staged = {}
  /\ timers = {"StartWiFiConn", "HciEnable"}
  /\ appEvents = {}
  /\ keys = << >>

-----------------------------------------------------------------------------
(* Key messages *)

(* Mutant: a long press pairs only where the door would. *)
ProcessOsalMsgKey_WhenOff(key) ==
  /\ flash' = IF key = "LongPress" THEN {} ELSE flash
  /\ hci' = IF /\ hci.curState.dev = "Initialized"
               /\ hci.curState.conn # "GotIP"
              THEN HciWiFiPairingStart(hci)
              ELSE hci

(* The door was opened (key 1 left), which starts pairing when the module  *)
(* is not joined; a long press (key 0) erases the credentials and pairs.   *)
ProcessOsalMsgKey(key) ==
  \/ /\ key = "DoorOpened"
     /\ hci' = IF /\ hci.curState.dev = "Initialized"
                  /\ hci.curState.conn # "GotIP"
                 THEN HciWiFiPairingStart(hci)
                 ELSE hci
     /\ UNCHANGED flash
  \/ /\ key = "LongPress"
     /\ flash' = {}
     /\ hci' = HciWiFiPairingStart(hci)

-----------------------------------------------------------------------------
(* Events: the handler works off flag f, and `failed' is the line of the   *)
(* assertion it violates, if any.                                          *)

FailedByEvent(f) ==
  CASE f = "StartWiFiConn" /\ hci.curState \in {Alone, Stopped}
       /\ "ssid" \in flash /\ hci.pConnInitStruct # "NULL" -> {453}
    [] f = "OpenWebSocket" /\ hci.curState = Joined /\ pwsInit -> {308}
    [] f = "OpenWebSocket" /\ hci.curState = Joined /\ ~pwsInit
       /\ hci.pSocketInitStruct # "NULL" -> {334}
    [] OTHER -> {}

SendHBP ==
  /\ hci' = WebSocketSend(hci)
  /\ UNCHANGED <<wsVars, timers>>

(* Mutant: it does not look whether the module is joined. *)
OpenWebSocket_AnyState ==
  /\ hci' = HciWiFiSocketOpen(hci)
  /\ WebSocketOpen
  /\ UNCHANGED timers

OpenWebSocket ==
  IF hci.curState = Joined
    THEN /\ hci' = HciWiFiSocketOpen(hci)
         /\ WebSocketOpen
         /\ UNCHANGED timers
    ELSE /\ timers' = timers \cup {"OpenWebSocket"}
         /\ UNCHANGED <<hci, wsVars>>

StartWiFiConn ==
  /\ IF hci.curState \in {Alone, Stopped}
       THEN /\ hci' = IF "ssid" \in flash THEN HciWiFiSetConnection(hci)
                                          ELSE HciWiFiPairingStart(hci)
            /\ UNCHANGED timers
       ELSE /\ timers' = timers \cup {"StartWiFiConn"}
            /\ UNCHANGED hci
  /\ UNCHANGED wsVars

CloseWebSocket ==
  /\ hci' = WebSocketClose(hci)
  /\ WebSocketCloses
  /\ UNCHANGED timers

(* AppLock_ProcessEvent without a message works off the first flag. *)
AppOrder == <<"SendHBP", "OpenWebSocket", "StartWiFiConn", "CloseWebSocket">>

ProcessEvent(f) ==
  \/ f = "SendHBP" /\ SendHBP
  \/ f = "OpenWebSocket" /\ OpenWebSocket
  \/ f = "StartWiFiConn" /\ StartWiFiConn
  \/ f = "CloseWebSocket" /\ CloseWebSocket

-----------------------------------------------------------------------------
(* Callbacks of the HCI *)

OnWiFiConnected(running) == running \cup {"OpenWebSocket"}
OnWiFiDisconnected(running) == running \cup {"StartWiFiConn"}

onWiFiPairingUpdate(credential) == staged' = staged \cup {credential}

(* What was received is written to the flash, also where nothing was.      *)
onWiFiPairingSuccess ==
  /\ flash' = staged
  /\ staged' = {}
  /\ timers' = timers \cup {"StartWiFiConn"}

onWiFiPairingFailure ==
  /\ staged' = {}
  /\ timers' = timers \cup {"StartWiFiConn"}
  /\ UNCHANGED flash

-----------------------------------------------------------------------------
(* Callbacks of the websocket *)

onWebSocketOpened == timers' = timers \cup {"CloseWebSocket", "SendHBP"}

(* A text message restarts both timers and is answered (UUID?, STATE? and  *)
(* so on), or asks for the websocket to be closed, for pairing or as such. *)
OnWebSocketRxData(h, data) ==
  IF data = "text" THEN WebSocketSend(h) ELSE WebSocketClose(h)

onWebSocketRxData(data) ==
  /\ timers' = timers \cup {"CloseWebSocket", "SendHBP"}
  /\ isPairingEnable' = (isPairingEnable \/ data = "PAIRING!")
  /\ IF data = "text" THEN UNCHANGED wsVars ELSE WebSocketCloses

(* Mutant: nothing reopens it. *)
OnWebSocketClosed_Gives(running) == running \ {"SendHBP", "CloseWebSocket"}

(* onWebSocketClosed reopens later, or starts the pairing asked for.       *)
OnWebSocketClosed(running) ==
  IF isPairingEnable
    THEN running \ {"SendHBP"}
    ELSE (running \ {"SendHBP", "CloseWebSocket"}) \cup {"OpenWebSocket"}

ThenPair(h) == IF isPairingEnable THEN HciWiFiPairingStart(h) ELSE h

onWebSocketClosed == isPairingEnable' = FALSE
=============================================================================
