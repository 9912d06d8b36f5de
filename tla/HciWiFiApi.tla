----------------------------- MODULE HciWiFiApi -----------------------------
(***************************************************************************)
(* The static variables of src/firmware/hci/hci_wifi.c, kept in the record *)
(* hci, and the calls the application makes on them.  The calls are        *)
(* operators from the record to the record because they are re-entrant:    *)
(* the callbacks the HCI makes while it works on its variables make them.  *)
(***************************************************************************)
EXTENDS Naturals, Sequences, FiniteSets, TLC

VARIABLE hci

(* HCI_WIFI_STATE(comm, sckt, conn, dev); comm is the set of its two bits. *)
HCI_WIFI_STATE(comm, sckt, conn, dev) ==
  [comm |-> comm, sckt |-> sckt, conn |-> conn, dev |-> dev]

Zero == HCI_WIFI_STATE({}, "Closed", "Disconnected", "Off")
Initializing == HCI_WIFI_STATE({}, "Closed", "Disconnected", "Initializing")
Ready(sckt, conn) == HCI_WIFI_STATE({}, sckt, conn, "Initialized")

Online == Ready("Opened", "GotIP")
Joined == Ready("Closed", "GotIP")
Alone == Ready("Closed", "Disconnected")
Pairing == Ready("Closed", "PairingWaiting")
Stopped == Ready("Closed", "PairingStopped")

HciFlags ==
  {"CheckHciWiFiState", "HciEnable", "TxPoll", "Transmitted", "Receiving",
   "PairingTimeout"}

Sckts == {"Closed", "Opening", "Opened", "Closing"}
Conns == {"Disconnected", "Disconnecting", "Connected", "Connecting", "GotIP",
          "PairingWaiting", "PairingStarted", "PairingSuccess",
          "PairingFailure", "PairingStopped"}
Devs == {"Off", "Initializing", "Initialized"}

HciType ==
  [curState : [comm : SUBSET {"Tx", "Rx"}, sckt : Sckts, conn : Conns, dev : Devs],
   tarState : {Zero, Alone, Joined, Pairing, Online},
   \* the three init structs; a callback that was cleared shows in the value
   pConnInitStruct : {"NULL", "Connecting", "Connected"},
   pPairingInitStruct : SUBSET {"Allocated", "Success", "Failure"},
   pSocketInitStruct : {"NULL", "Opening", "Opened"},
   scktTxFIFO : Seq({"GET", "text", "close"}),
   events : SUBSET HciFlags]

(* The flag a handler works off: the first in the order it tests them.     *)
First(order, flags) ==
  LET set == {i \in DOMAIN order : order[i] \in flags}
  IN  order[CHOOSE i \in set : \A j \in set : i <= j]

(* HciWiFi_Init (the HciEnable timer is started with the others).          *)
HciWiFi_Init ==
  [curState |-> Zero, tarState |-> Alone,
   pConnInitStruct |-> "NULL", pPairingInitStruct |-> {},
   pSocketInitStruct |-> "NULL", scktTxFIFO |-> << >>, events |-> {}]

-----------------------------------------------------------------------------

Target(h, state) ==
  [h EXCEPT !.tarState = state, !.events = @ \cup {"CheckHciWiFiState"}]

(* An accepted HciWiFiSetConnection; it is refused while a connection      *)
(* struct exists.                                                          *)
HciWiFiSetConnection(h) ==
  Target([h EXCEPT !.pConnInitStruct = "Connecting"], Joined)

HciWiFiPairingStart(h) ==
  Target([h EXCEPT !.pPairingInitStruct = {"Allocated", "Success", "Failure"}],
         Pairing)

HciWiFiSocketOpen(h) ==
  Target([h EXCEPT !.pSocketInitStruct = "Opening"], Online)

(* Mutant: the socket is freed at once. *)
HciWiFiSocketClose_Frees(h) ==
  Target([h EXCEPT !.pSocketInitStruct = "NULL"], Joined)

HciWiFiSocketClose(h) == Target(h, Joined)

(* HciWiFiSocketSend*: one call per piece in the code, and one unit of the *)
(* FIFO per websocket frame (or handshake request) here.                   *)
HciWiFiSocketSend(h, unit) ==
  IF /\ h.curState.dev = "Initialized"
     /\ h.curState.conn = "GotIP"
     /\ h.curState.sckt = "Opened"
    THEN [h EXCEPT !.scktTxFIFO = Append(@, unit),
                   !.events = @ \cup {"TxPoll"}]
    ELSE h
=============================================================================
