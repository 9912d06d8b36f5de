----------------------------- MODULE KeepAlive ------------------------------
(***************************************************************************)
(* How the lock application (app_lock.c) tells a silent server from one    *)
(* that is there: every text restarts two timers, one that sends a         *)
(* heartbeat and one that closes the websocket.  A timer that expires sets *)
(* a flag, and stopping it then does not take the flag back                *)
(* (osal_timers.c); the HCI task, which hands over the texts, runs before  *)
(* the application whose flag it is.                                       *)
(*                                                                         *)
(* Time passes in steps; all handlers that are due run in between.         *)
(***************************************************************************)
EXTENDS Naturals

CONSTANTS HbpDelay,     \* DELAY_SEND_HBP: 30 s
          CloseDelay,   \* DELAY_CLOSE_WEBSOCKET: 60 s
          MaxAnswer     \* how long a server in time takes to answer a heartbeat

ASSUME KeepAliveAssumption ==
    /\ HbpDelay \in Nat \ {0} /\ CloseDelay \in Nat /\ MaxAnswer \in Nat
    /\ HbpDelay + MaxAnswer < CloseDelay

VARIABLES wsState,  \* "Closed", "HandshakePass" or "Closing"
          timer,    \* what is left of each timer, 0 when it does not run
          flags,    \* of the application
          isPairingEnable,
          texts,    \* received, and not handed over by the HCI task
          asked,    \* for how long the server has known of a heartbeat; 0: of none
          late,     \* the server may take any time to answer
          silent,   \* time since the last text was handed over, or the websocket opened
          beats     \* heartbeats since then

vars == <<wsState, timer, flags, isPairingEnable, texts, asked, late, silent, beats>>

Events == {"SendHBP", "CloseWebSocket"}
Texts == {"text", "PAIRING!", "WSCLOSE!"}

Running == [SendHBP |-> HbpDelay, CloseWebSocket |-> CloseDelay]

Init ==
    /\ wsState = "Closed" /\ timer = [e \in Events |-> 0] /\ flags = {}
    /\ isPairingEnable = FALSE
    /\ texts = << >> /\ asked = 0 /\ late = FALSE
    /\ silent = 0 /\ beats = 0

-----------------------------------------------------------------------------
(* Time, and the server *)

\* osalTimerUpdate; a server in time has answered by then
Tick ==
    /\ flags = {} /\ texts = << >>
    /\ late \/ asked <= MaxAnswer
    /\ timer' = [e \in Events |-> IF timer[e] > 0 THEN timer[e] - 1 ELSE 0]
    /\ flags' = {e \in Events : timer[e] = 1}
    /\ asked' = IF asked > 0 /\ ~late THEN asked + 1 ELSE asked
    /\ silent' = IF silent < CloseDelay THEN silent + 1 ELSE silent
    /\ UNCHANGED <<wsState, isPairingEnable, texts, late, beats>>

\* An answer, or a command
ServerSays(text) ==
    /\ wsState = "HandshakePass" /\ texts = << >>
    /\ texts' = <<text>> /\ asked' = 0
    /\ UNCHANGED <<wsState, timer, flags, isPairingEnable, late, silent, beats>>

ServerLate ==
    /\ ~late /\ late' = TRUE
    /\ UNCHANGED <<wsState, timer, flags, isPairingEnable, texts, asked, silent, beats>>

-----------------------------------------------------------------------------
(* In the HCI task *)

onWebSocketOpened ==
    /\ wsState = "Closed" /\ wsState' = "HandshakePass"
    /\ timer' = Running
    /\ texts' = << >> /\ asked' = 0 /\ late' = FALSE
    /\ silent' = 0 /\ beats' = 0
    /\ UNCHANGED <<flags, isPairingEnable>>

\* Mutant: what arrives only restarts the second timer
Restarted_CloseOnly == [timer EXCEPT !["CloseWebSocket"] = CloseDelay]

\* Both timers are stopped and started again, whatever their flags
Restarted == Running

\* What WebSocketClose sends, the server answers by closing
onWebSocketRxData ==
    /\ texts # << >> /\ texts' = << >>
    /\ timer' = Restarted
    /\ isPairingEnable' = (isPairingEnable \/ texts[1] = "PAIRING!")
    /\ wsState' = IF texts[1] = "text" THEN wsState ELSE "Closing"
    /\ silent' = 0 /\ beats' = 0
    /\ UNCHANGED <<flags, asked, late>>

\* With pairing asked for, CloseWebSocket goes on running.
Stopped ==
    [e \in Events |-> IF e = "CloseWebSocket" /\ isPairingEnable THEN timer[e] ELSE 0]

\* The socket is closed, by whomever
onWebSocketClosed ==
    /\ wsState # "Closed" /\ wsState' = "Closed"
    /\ timer' = Stopped
    /\ isPairingEnable' = FALSE
    /\ texts' = << >> /\ asked' = 0
    /\ UNCHANGED <<flags, late, silent, beats>>

-----------------------------------------------------------------------------
(* AppLock_ProcessEvent: a text that waits is handed over first *)

Due(e) == e \in flags /\ texts = << >> /\ flags' = flags \ {e}

\* Nothing is sent but in HandshakePass.
SendHBP ==
    /\ Due("SendHBP")
    /\ IF wsState = "HandshakePass"
       THEN asked' = 1 /\ beats' = beats + 1
       ELSE UNCHANGED <<asked, beats>>
    /\ UNCHANGED <<wsState, timer, isPairingEnable, texts, late, silent>>

CloseWebSocket ==
    /\ Due("CloseWebSocket") /\ "SendHBP" \notin flags
    /\ wsState' = IF wsState = "HandshakePass" THEN "Closing" ELSE wsState
    /\ UNCHANGED <<timer, isPairingEnable, texts, asked, late, silent, beats>>

Next ==
    \/ Tick \/ \E text \in Texts : ServerSays(text)
    \/ ServerLate
    \/ onWebSocketOpened \/ onWebSocketRxData \/ onWebSocketClosed
    \/ SendHBP \/ CloseWebSocket

Spec == Init /\ [][Next]_vars

\* Time passes, and the main loop serves its tasks.
FairSpec ==
    /\ Spec
    /\ WF_vars(Tick) /\ WF_vars(onWebSocketRxData)
    /\ WF_vars(SendHBP) /\ WF_vars(CloseWebSocket)

-----------------------------------------------------------------------------
TypeOK ==
    /\ wsState \in {"Closed", "HandshakePass", "Closing"}
    /\ timer \in [Events -> 0 .. CloseDelay] /\ flags \subseteq Events
    /\ isPairingEnable \in BOOLEAN /\ late \in BOOLEAN
    /\ texts = << >> \/ texts[1] \in Texts
    /\ asked \in 0 .. MaxAnswer + 1 /\ silent \in 0 .. CloseDelay /\ beats \in 0 .. 2

\* The time of an open websocket runs out only on a server that is late, after 60 s
\* without a text and with a heartbeat in between.
OnlyTheSilent ==
    [][wsState = "HandshakePass" /\ "CloseWebSocket" \in flags' \ flags =>
         late /\ silent' = CloseDelay /\ beats > 0]_vars

\* A server that is late is heard or left.
SilentIsLeft ==
    wsState = "HandshakePass" /\ late ~> wsState # "HandshakePass" \/ texts # << >>
=============================================================================
