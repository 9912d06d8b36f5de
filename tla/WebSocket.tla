----------------------------- MODULE WebSocket ------------------------------
(***************************************************************************)
(* The websocket client (src/firmware/app/websocket.c): its state, its     *)
(* calls and the callbacks it registers with the HCI.  What a call does to *)
(* the variables of the HCI is an operator on the record hci; what it does *)
(* to the websocket's own variables is an action.                          *)
(***************************************************************************)
EXTENDS HciWiFiApi

VARIABLES
  wsState,
  pwsInit       \* the init struct is allocated

wsVars == <<wsState, pwsInit>>

WsStates == {"Closed", "Opening", "Handshaking", "HandshakePass", "Closing"}

WsInit == wsState = "Closed" /\ pwsInit = FALSE

-----------------------------------------------------------------------------

(* WebSocketOpen past its checks of the state. *)
WebSocketOpen == wsState' = "Opening" /\ pwsInit' = TRUE

(* WebSocketSend: text is dropped unless the handshake has passed.         *)
WebSocketSend(h) ==
  IF wsState = "HandshakePass" THEN HciWiFiSocketSend(h, "text") ELSE h

(* Mutant: the websocket is closing, but the server is not told. *)
WebSocketClose_Silent(h) == h

(* WebSocketClose sends a close frame and waits for the server's; it does  *)
(* not close the socket.                                                   *)
WebSocketClose(h) ==
  IF wsState = "HandshakePass" THEN HciWiFiSocketSend(h, "close") ELSE h

WebSocketCloses ==
  /\ wsState' = IF wsState = "HandshakePass" THEN "Closing" ELSE wsState
  /\ UNCHANGED pwsInit

-----------------------------------------------------------------------------

(* onSocketOpened requests the handshake. *)
Handshake(h) == HciWiFiSocketSend(h, "GET")

onSocketOpened ==
  /\ wsState' = "Handshaking"
  /\ UNCHANGED pwsInit

(* Mutant: the struct is not freed. *)
onSocketClosed_Leaks == wsState' = "Closed" /\ UNCHANGED pwsInit

(* onSocketClosed frees the struct and calls onWebSocketClosed. *)
onSocketClosed == wsState' = "Closed" /\ pwsInit' = FALSE
=============================================================================
