------------------------------ MODULE Session -------------------------------
(***************************************************************************)
(* What the HCI and the websocket promise the application: the order in    *)
(* which a connection to the access point and a websocket over it come and *)
(* go, as far as the callbacks of the application show it.                 *)
(***************************************************************************)

VARIABLES
  link,  \* the connection: "NULL", "Connecting" or "Connected"
  ws     \* the websocket

Init == link = "NULL" /\ ws = "Closed"

(* The connection is asked for and made (onWiFiConnected), and lost        *)
(* (onWiFiDisconnected), which takes the websocket with it.                *)
Connect == link = "NULL" /\ link' = "Connecting" /\ UNCHANGED ws
Connected == link = "Connecting" /\ link' = "Connected" /\ UNCHANGED ws
Disconnected == link # "NULL" /\ link' = "NULL" /\ ws' = "Closed"

(* A websocket is only opened over a connection, and shakes hands before   *)
(* it passes (onWebSocketOpened); it may be closed at any stage.           *)
Step(from, to) == ws \in from /\ ws' = to /\ UNCHANGED link

Open == link = "Connected" /\ Step({"Closed"}, "Opening")
Opened == Step({"Opening"}, "Handshaking")
Accepted == Step({"Handshaking"}, "HandshakePass")
Leave == Step({"Handshaking", "HandshakePass"}, "Closing")
Closed == Step({"Opening", "Handshaking", "HandshakePass", "Closing"}, "Closed")

(* The device restarts. *)
Reset == link' = "NULL" /\ ws' = "Closed"

Next ==
  \/ Connect \/ Connected \/ Disconnected
  \/ Open \/ Opened \/ Accepted \/ Leave \/ Closed
  \/ Reset

Spec == Init /\ [][Next]_<<link, ws>>
=============================================================================
