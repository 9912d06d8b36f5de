------------------------------ MODULE WiFiLock ------------------------------
(***************************************************************************)
(* The connected lock: the HCI task, the application task, the serial line *)
(* to the module, the OSAL timers and the OSAL scheduler between them.     *)
(*                                                                         *)
(* Tasks run to completion and the HCI task before the application task;   *)
(* each has its own FIFO of messages (module Osal).  The loop in which a   *)
(* handler receives all its messages is one run of the handler in several  *)
(* steps: nothing else runs in between, and the event flags that           *)
(* osal_run_system handed to the HCI task are held meanwhile.              *)
(***************************************************************************)
EXTENDS HciWiFi

VARIABLES
  running,      \* the task that receives its messages
  held,         \* the event flags its handler was called with
  receiving,    \* HalATCmdSIOPollRx has seen the head of a +IPD packet
  fault         \* the line of the assertion that failed, or 0

kernelVars == <<running, held, receiving, fault>>
vars == <<hci, wsVars, appVars, espVars, mail, atVars, kernelVars>>

KernelInit ==
  /\ running = "None"
  /\ held = {}
  /\ receiving = FALSE
  /\ fault = 0

Init ==
  /\ HciWiFiInit /\ WsInit /\ AppLock_Init /\ EspInit /\ KernelInit
  /\ flash \in {{}, Credentials}

-----------------------------------------------------------------------------
(* The HCI task *)

HciReceives ==
  /\ running = "None" /\ mail # << >>
  /\ running' = "HciWiFi"
  /\ held' = hci.events
  /\ hci' = [hci EXCEPT !.events = {}]
  /\ UNCHANGED <<wsVars, appVars, espVars, mail, atVars, receiving, fault>>

HciMessage ==
  /\ running = "HciWiFi" /\ mail # << >>
  /\ FailedByMsg(Head(mail)) = {}
  /\ ProcessOsalMsg(Head(mail))
  /\ UNCHANGED <<esp, wire, budget, kernelVars>>

HciReturns ==
  /\ running = "HciWiFi" /\ mail = << >>
  /\ hci' = [hci EXCEPT !.events = @ \cup held]
  /\ held' = {}
  /\ running' = "None"
  /\ UNCHANGED <<wsVars, appVars, espVars, mail, atVars, receiving, fault>>

HciFlag == First(HciOrder, hci.events)

HciEvent ==
  /\ running = "None" /\ mail = << >> /\ hci.events # {}
  /\ FailedByFlag(HciFlag) = {}
  /\ HciProcessEvent(HciFlag)
  /\ UNCHANGED <<wsVars, isPairingEnable, staged, flash, appEvents, keys, wire, budget,
                 mail, atVars, kernelVars>>

HciIdle == mail = << >> /\ hci.events = {}

-----------------------------------------------------------------------------
(* The application task runs when the HCI task has nothing to do; while it *)
(* receives its messages the HCI task has to wait.                         *)

AppReceives ==
  /\ running = "None" /\ HciIdle /\ keys # << >>
  /\ running' = "AppLock"
  /\ UNCHANGED <<hci, wsVars, appVars, espVars, mail, atVars, held, receiving, fault>>

AppMessage ==
  /\ running = "AppLock" /\ keys # << >>
  /\ ProcessOsalMsgKey(Head(keys))
  /\ keys' = Tail(keys)
  /\ UNCHANGED <<wsVars, isPairingEnable, staged, timers, appEvents, espVars, mail,
                 atVars, kernelVars>>

AppReturns ==
  /\ running = "AppLock" /\ keys = << >>
  /\ running' = "None"
  /\ UNCHANGED <<hci, wsVars, appVars, espVars, mail, atVars, held, receiving, fault>>

AppFlag == First(AppOrder, appEvents)

AppEvent ==
  /\ running = "None" /\ HciIdle /\ keys = << >> /\ appEvents # {}
  /\ FailedByEvent(AppFlag) = {}
  /\ ProcessEvent(AppFlag)
  /\ appEvents' = appEvents \ {AppFlag}
  /\ UNCHANGED <<isPairingEnable, staged, flash, keys, espVars, mail, atVars, kernelVars>>

(* HAL_ASSERT: the first assertion that fails resets the device.           *)
Violated ==
  CASE running = "HciWiFi" /\ mail # << >> -> FailedByMsg(Head(mail))
    [] running = "None" /\ mail = << >> /\ hci.events # {} -> FailedByFlag(HciFlag)
    [] running = "None" /\ HciIdle /\ keys = << >> /\ appEvents # {} ->
         FailedByEvent(AppFlag)
    [] OTHER -> {}

AssertionFails ==
  /\ Violated # {}
  /\ fault' = CHOOSE l \in Violated : \A k \in Violated : l <= k
  /\ UNCHANGED <<hci, wsVars, appVars, espVars, mail, atVars, running, held, receiving>>

Restart ==
  /\ fault # 0
  /\ hci' = HciWiFi_Init
  /\ mail' = << >>
  /\ hciWiFiState' = Zero /\ pfnATCmdProcessor' = "NULL"
  /\ txLen' = 0 /\ errReason' = FALSE
  /\ wsState' = "Closed" /\ pwsInit' = FALSE
  /\ isPairingEnable' = FALSE /\ staged' = {}
  /\ timers' = {"StartWiFiConn", "HciEnable"}
  /\ appEvents' = {} /\ keys' = << >>
  /\ esp' = EspOff /\ cmds' = << >> /\ wire' = << >>
  /\ running' = "None" /\ held' = {} /\ receiving' = FALSE /\ fault' = 0
  /\ UNCHANGED <<flash, budget>>

Idle == running = "None" /\ HciIdle /\ keys = << >> /\ appEvents = {}

-----------------------------------------------------------------------------
(* The Hal task: it delivers what has arrived from the module line by line,*)
(* and announces a +IPD packet by its head before its data is complete.    *)
(* An orderly module pauses between its lines, but nobody pauses between   *)
(* the head of a packet and its data: the task may have handled the flag   *)
(* of the head when the data comes, or both come in one run of the Hal     *)
(* task; then the message of the data is handled before the flag.          *)

HalHead ==
  /\ running = "None"
  /\ wire # << >> /\ Head(wire).at = "+IPD" /\ ~receiving
  /\ Orderly => HciIdle
  /\ receiving' = TRUE
  /\ hci' = [hci EXCEPT !.events = @ \cup {"Receiving"}]
  /\ UNCHANGED <<wsVars, appVars, espVars, mail, atVars, running, held, fault>>

HalLine ==
  /\ running = "None"
  /\ wire # << >> /\ (Head(wire).at = "+IPD" => receiving)
  /\ Orderly => receiving \/ HciIdle
  /\ receiving' = FALSE
  /\ mail' = Append(mail, [head |-> "ATCmd", line |-> Head(wire)])
  /\ wire' = Tail(wire)
  /\ UNCHANGED <<hci, wsVars, appVars, esp, cmds, budget, atVars, running, held, fault>>

(* The door is opened, or the inner button pressed for long, at any time.  *)
Press(key) ==
  /\ running = "None"
  /\ keys' = Append(keys, key)
  /\ Spend
  /\ UNCHANGED <<hci, wsVars, isPairingEnable, staged, flash, timers, appEvents,
                 esp, cmds, wire, mail, atVars, kernelVars>>

(* Timers are long against the work of the tasks and the serial line.      *)
Expire(f) ==
  /\ f \in timers
  /\ Idle /\ wire = << >> /\ cmds = << >>
  /\ timers' = timers \ {f}
  /\ IF f \in AppFlags
       THEN appEvents' = appEvents \cup {f} /\ UNCHANGED hci
       ELSE hci' = [hci EXCEPT !.events = @ \cup {f}] /\ UNCHANGED appEvents
  /\ IF f = "PairingTimeout" THEN Spend ELSE Free
  /\ UNCHANGED <<wsVars, isPairingEnable, staged, flash, keys, esp, cmds, wire, mail,
                 atVars, kernelVars>>

Outside ==
  /\ EspNext(Idle /\ wire = << >>)
  /\ UNCHANGED <<hci, wsVars, appVars, mail, atVars, kernelVars>>

-----------------------------------------------------------------------------

Tasks ==
  \/ HciReceives \/ HciMessage \/ HciReturns \/ HciEvent
  \/ AppReceives \/ AppMessage \/ AppReturns \/ AppEvent
  \/ HalHead \/ HalLine
  \/ AssertionFails

Environment ==
  \/ Outside
  \/ \E key \in Keys : Press(key)
  \/ \E f \in AppFlags \cup {"HciEnable", "PairingTimeout"} : Expire(f)

Next ==
  \/ fault = 0 /\ (Tasks \/ Environment)
  \/ Restart

(* The main loop runs for ever and the timers tick; the module, the server *)
(* and the phone do what they have to do, if nothing goes wrong.           *)
Fairness ==
  /\ WF_vars(fault = 0 /\ Tasks)
  /\ SF_vars(fault = 0 /\ Outside /\ Free)
  /\ \A f \in AppFlags \cup {"HciEnable"} : SF_vars(fault = 0 /\ Expire(f))
  /\ WF_vars(Restart)

Spec == Init /\ [][Next]_vars

FairSpec == Spec /\ Fairness

-----------------------------------------------------------------------------

TypeOK ==
  /\ hci \in HciType
  /\ wsState \in WsStates /\ pwsInit \in BOOLEAN
  /\ isPairingEnable \in BOOLEAN
  /\ staged \subseteq Credentials /\ flash \subseteq Credentials
  /\ timers \subseteq AppFlags \cup {"HciEnable", "PairingTimeout"}
  /\ appEvents \subseteq AppFlags
  /\ keys \in Seq(Keys)
  /\ pfnATCmdProcessor \in Processors
  /\ running \in {"None", "HciWiFi", "AppLock"}
  /\ held \subseteq HciFlags /\ receiving \in BOOLEAN
  /\ fault \in Nat

(* No assertion of the HCI or the application ever fails: whatever the     *)
(* module answers is processed in a state that expects it, with the types  *)
(* above.                                                                  *)
AssertionsHold == TypeOK /\ fault = 0

(* The websocket and the socket below it are created and freed together:   *)
(* pwsInit is allocated exactly while pSocketInitStruct is, and the state  *)
(* of the websocket is one a socket in that stage can have.  (They are     *)
(* changed by callbacks in the middle of ProcessHciState.)  Likewise the   *)
(* credentials that were received are stored or freed when a pairing ends. *)
WebSocketFollowsSocket ==
  /\ pwsInit <=> hci.pSocketInitStruct # "NULL"
  /\ wsState = "Closed" <=> hci.pSocketInitStruct = "NULL"
  /\ wsState = "Opening" <=> hci.pSocketInitStruct = "Opening"
  /\ staged # {} => HasPairing

(* Data reaches the application only while its socket is open, although it *)
(* waits on the wire and in the queue while the connection goes away.      *)
DataToOpenSocket ==
  mail # << >> /\ Head(mail).head = "RxDataStream"
    => hci.pSocketInitStruct = "Opened"

(* A module that waits for the data of AT+CIPSEND gets data: no command is *)
(* ever written in between (it would be sent to the server as payload).    *)
CommandsInPlace ==
  esp.busy = "AT+CIPSEND" /\ cmds # << >> => Head(cmds).at = "data"

(* Of the connection that the module has, the one that it opens and those  *)
(* that it was told to open there is never more than one, although the     *)
(* firmware learns of none of them before its lines come back.             *)
OneConnection ==
  LET orders == {i \in 1 .. Len(cmds) : cmds[i].at = "AT+CIPSTART"}
  IN  /\ \A i, j \in orders : i = j
      /\ esp.sckt \/ esp.busy = "AT+CIPSTART" => orders = {}
      /\ ~(esp.sckt /\ esp.busy = "AT+CIPSTART")

(* Nothing is on its way in either direction. *)
Settled ==
  /\ fault = 0 /\ Idle /\ wire = << >> /\ cmds = << >>
  /\ esp.power = "On" /\ esp.busy = "None"

(* Whenever everything has settled, what the firmware believes of the      *)
(* module is true, in the AT command processor as in the state handler     *)
(* (in between, curState is unknown or behind the posted states).  While   *)
(* it waits for the phone nothing is said of the access point: a long      *)
(* press that meets the end of a pairing makes a failure of its success,   *)
(* and SmartConfig is then started in a module that is joined.             *)
ShadowSettles ==
  Settled =>
    /\ hciWiFiState = [hci.curState EXCEPT !.comm = {}]
    /\ hciWiFiState.sckt = IF esp.sckt THEN "Opened" ELSE "Closed"
    /\ hciWiFiState.conn # "PairingWaiting" =>
         (hciWiFiState.conn = "GotIP" <=> esp.conn)

(* A finished transfer leaves nothing behind: once everything has settled, *)
(* what was to be sent is sent and Tx of curState is clear.  Rx may be set *)
(* still (the flag of a head that came together with its data is handled   *)
(* after the data), but only as long as the socket is open.                *)
TransferSettles ==
  Settled =>
    /\ hci.scktTxFIFO = << >>
    /\ hci.curState.comm \subseteq {"Rx"}
    /\ hci.curState.comm # {} => hci.curState.sckt = "Opened"

(* The contract between the tasks: module Session, whose join is the       *)
(* connection struct of the HCI and whose ws is the application's state.   *)
Sessions == INSTANCE Session WITH
  link <- hci.pConnInitStruct,
  ws <- wsState

SessionOrder == Sessions!Spec

(* However often the connection breaks, the lock gets back to a websocket  *)
(* the server has accepted: there is always a timer, a command or an       *)
(* answer left that leads there.                                           *)
EventuallyOnline == []<>(wsState = "HandshakePass")

(* A pairing that the module has begun comes to an end, whichever of the   *)
(* phone, its timeout and a long press comes first.                        *)
PairingEnds == hci.curState = Pairing ~> ~HasPairing

(* A transfer under way: data announced, or one of the two flags set.      *)
Transferring == receiving \/ hci.curState.comm # {}

(* After a long press the module is put into pairing, whatever was under   *)
(* way in the connection, the device restarting or not: unless the press   *)
(* met a transfer.  The state controller ignores the target while data is  *)
(* sent or received, and nothing asks it again before the socket closes;   *)
(* the data may also be a close frame, which replaces the target.          *)
LongPressPairs ==
  running = "AppLock" /\ keys # << >> /\ Head(keys) = "LongPress"
    ~> (hci.curState = Pairing \/ (HasPairing /\ Transferring))

(* A websocket that is being closed is closed, although WebSocketClose     *)
(* leaves it to the server to answer and to close the socket.              *)
ClosingCloses == wsState = "Closing" ~> wsState = "Closed"

-----------------------------------------------------------------------------
(* What comments of the code say, and it does not keep: the first of them  *)
(* only when the module answers out of turn.                               *)

(* "job done, clear target state" (hci_wifi.c:889), and the event with it. *)
NoCheckWithoutTarget ==
  running = "None" /\ hci.tarState = Zero
    => "CheckHciWiFiState" \notin hci.events

(* "expected to received "WIFI DISCONNECT" later on" (hci_wifiatcop.c).    *)
DisconnectFollows ==
  hciWiFiState.conn = "Disconnecting" ~> hciWiFiState.conn # "Disconnecting"
=============================================================================
