------------------------------ MODULE WsFrames ------------------------------
(****************************************************************************)
(* The frames of an open websocket: onSocketRxData and the two functions    *)
(* that send (websocket.c), with what onWebSocketRxData (app_lock.c) does   *)
(* with a text.  TCP hands the server's frames over in segments of its own  *)
(* choice.                                                                  *)
(*                                                                          *)
(* A byte is a triple: an opcode with FIN set, a mask bit with a length, or *)
(* a character.  Offsets are the code's, from 0.                            *)
(****************************************************************************)
EXTENDS Integers, Sequences, SequencesExt

CONSTANTS Requests,     \* texts that are answered: UUID?, STATE?, OPEN! ...
          Closers,      \* texts that close the websocket: PAIRING! and WSCLOSE!
          OtherTexts,   \* texts the application does not know
          MaxFrames,    \* bound: frames the server sends
          MaxJoined     \* bound: bytes of a segment

WsFramesAssumption ==
    /\ MaxFrames \in Nat /\ MaxJoined \in Nat
    /\ Requests \cap Closers = {} /\ OtherTexts \cap (Requests \cup Closers) = {}

VARIABLES server,   \* the texts it has sent, its bytes on the way, and what TCP has done to them
          seg,      \* the segment onSocketRxData works on
          lenProc,  \* bytes of it that it has processed
          wsState,
          texts,    \* what onWebSocketRxData was called with
          out,      \* frames that WebSocketSend and WebSocketClose have sent
          closes    \* HciWiFiSocketClose was called

vars == <<server, seg, lenProc, wsState, texts, out, closes>>

Texts == Requests \cup Closers \cup OtherTexts

Op(code) == <<"op", code, 0>>
LenByte(mask, n) == <<"len", mask, n>>
Chars(text) == [i \in 1 .. Len(text) |-> <<"char", text[i], 0>>]

TextFrame(text) == <<Op("text"), LenByte("plain", Len(text))>> \o Chars(text)
CloseFrame == <<Op("close"), LenByte("plain", 2)>> \o Chars(<<"code", "code">>)

\* Frames that the client does not take: masked, too long, or of another kind
OddFrames == {<<Op("text"), LenByte("masked", 0)>>,
              <<Op("text"), LenByte("plain", 126)>>,
              <<Op("ping"), LenByte("plain", 0)>>}

Init ==
    /\ server = [texts |-> << >>, frames |-> << >>, left |-> MaxFrames,
                 joined |-> FALSE, split |-> FALSE]
    /\ seg = << >> /\ lenProc = 0
    /\ wsState = "HandshakePass"
    /\ texts = << >> /\ out = << >> /\ closes = FALSE

-----------------------------------------------------------------------------
(* The server and TCP *)

Sends(frame, said) ==
    /\ server.left > 0
    /\ server' = [server EXCEPT !.frames = Append(@, frame), !.left = @ - 1,
                                !.texts = @ \o said]
    /\ UNCHANGED <<seg, lenProc, wsState, texts, out, closes>>

ServerSends ==
    \/ \E text \in Texts : Sends(TextFrame(text), <<text>>)
    \/ Sends(CloseFrame, << >>)
    \/ \E frame \in OddFrames : Sends(frame, << >>)

\* The next segment: k frames, or what is left of the first of them, and n bytes of
\* the next frame.
Segment(k, n) ==
    LET bytes == FlattenSeq(SubSeq(server.frames, 1, k))
        next == server.frames[k + 1]
        rest == SubSeq(server.frames, k + 1, Len(server.frames))
    IN
    /\ seg = << >> /\ wsState # "Closed"
    /\ k + n > 0
    /\ n > 0 => k < Len(server.frames) /\ n < Len(next)
    /\ seg' = IF n = 0 THEN bytes ELSE bytes \o SubSeq(next, 1, n)
    /\ Len(seg') <= MaxJoined
    /\ server' = [server EXCEPT
                    !.frames = IF n = 0 THEN rest
                               ELSE [rest EXCEPT ![1] = SubSeq(@, n + 1, Len(@))],
                    !.joined = @ \/ k > 1 \/ (k > 0 /\ n > 0),
                    !.split = @ \/ n > 0]
    /\ UNCHANGED <<lenProc, wsState, texts, out, closes>>

-----------------------------------------------------------------------------
(* What the client sends *)

WebSocketSend(state, frames) ==
    IF state = "HandshakePass" THEN Append(frames, "text") ELSE frames

WebSocketClose(state, frames) ==
    IF state = "HandshakePass" THEN Append(frames, "close") ELSE frames

Closing(state) == IF state = "HandshakePass" THEN "Closing" ELSE state

\* What onWebSocketRxData does with a text
OnWebSocketRxData(text) ==
    /\ texts' = Append(texts, text)
    /\ out' = CASE text \in Requests -> WebSocketSend(wsState, out)
                [] text \in Closers -> WebSocketClose(wsState, out)
                [] OTHER -> out
    /\ wsState' = IF text \in Closers THEN Closing(wsState) ELSE wsState

-----------------------------------------------------------------------------
(* onSocketRxData *)

ByteAt(i) == seg[i + 1]

\* The string at an offset, when a zero is put at `end': it ends there, at a length of
\* zero, or behind the segment (hal_atcmdsio.c:80).
StringAt(from, end) ==
    LET zeros == {i \in from .. Len(seg) :
                    i \in {end, Len(seg)} \/ ByteAt(i) = LenByte("plain", 0)}
        to == CHOOSE i \in zeros : \A j \in zeros : i <= j
    IN  [i \in 1 .. to - from |-> ByteAt(from + i - 1)[2]]

Return == seg' = << >> /\ lenProc' = 0

CloseWith ==
    /\ out' = WebSocketClose(wsState, out) /\ wsState' = Closing(wsState)
    /\ Return
    /\ UNCHANGED <<texts, closes>>

\* Mutant: the rest of the segment is not looked at
TextHere_FirstOnly ==
    /\ OnWebSocketRxData(StringAt(lenProc + 2, 2 + ByteAt(lenProc + 1)[3]))
    /\ Return
    /\ UNCHANGED closes

\* A frame with a text, from here to the next one
TextHere ==
    LET len == ByteAt(lenProc + 1)[3]
        next == lenProc + 2 + len
    IN
    /\ OnWebSocketRxData(StringAt(lenProc + 2, 2 + len))
    /\ IF next < Len(seg) THEN lenProc' = next /\ UNCHANGED seg ELSE Return
    /\ UNCHANGED closes

\* A round of the loop over a segment that came while the handshake was passed
Frame ==
    LET whole == Len(seg) - lenProc >= 2
        op == ByteAt(lenProc)
        len == ByteAt(lenProc + 1)
    IN
    \/ /\ whole /\ op = Op("text") /\ len[2] = "plain" /\ len[3] <= 125
       /\ TextHere
    \/ /\ whole /\ op = Op("text") /\ (len[2] = "masked" \/ len[3] > 125)
       /\ CloseWith
    \/ /\ whole /\ op = Op("close")
       /\ closes' = TRUE /\ wsState' = "Closing" /\ Return
       /\ UNCHANGED <<texts, out>>
    \/ /\ whole /\ op \notin {Op("text"), Op("close")}
       /\ CloseWith
    \/ /\ ~whole
       /\ CloseWith

\* The state is looked at once for a segment
Loop ==
    /\ seg # << >>
    /\ lenProc > 0 \/ wsState = "HandshakePass"
    /\ Frame
    /\ UNCHANGED server

\* A segment that comes when the websocket is closing: the server's close frame with
\* its code, or the socket is closed without it.
WhileClosing ==
    LET answer == /\ ByteAt(0) = Op("close") /\ Len(seg) >= 2
                  /\ ByteAt(1)[2] = "plain" /\ ByteAt(1)[3] \in 2 .. 125
    IN
    /\ seg # << >> /\ lenProc = 0 /\ wsState = "Closing"
    /\ closes' = (closes \/ ~answer)
    /\ Return
    /\ UNCHANGED <<server, wsState, texts, out>>

\* onSocketClosed, when the socket is closed from either side
SocketClosed ==
    /\ wsState # "Closed" /\ seg = << >>
    /\ wsState' = "Closed"
    /\ UNCHANGED <<server, seg, lenProc, texts, out, closes>>

Next ==
    \/ ServerSends
    \/ \E k \in 0 .. Len(server.frames), n \in 0 .. 3 : Segment(k, n)
    \/ Loop \/ WhileClosing \/ SocketClosed

Spec == Init /\ [][Next]_vars

-----------------------------------------------------------------------------
TypeOK ==
    /\ wsState \in {"HandshakePass", "Closing", "Closed"}
    /\ lenProc \in 0 .. MaxJoined /\ (lenProc < Len(seg) \/ (seg = << >> /\ lenProc = 0))
    /\ out \in Seq({"text", "close"}) /\ closes \in BOOLEAN

\* Nothing follows the client's close frame, whatever else is in the segment that made
\* the application close (websocket.c:346 and :376).
NothingAfterClose == \A i \in 1 .. Len(out) - 1 : out[i] # "close"

\* Frames that TCP does not join or split are heard one by one, as they were sent, and
\* nothing but them.
AloneAsSent == ~server.joined /\ ~server.split => IsPrefix(texts, server.texts)

\* While the websocket stays open, every text of whole frames is heard as one text,
\* also when TCP has joined it to others: the loop finds each frame.
EachIsHeard ==
    LET waiting == SelectSeq(server.frames, LAMBDA f : f[1] = Op("text")) IN
    seg = << >> /\ wsState = "HandshakePass" /\ ~server.split =>
        Len(texts) + Len(SelectSeq(waiting, LAMBDA f : f \notin OddFrames)) = Len(server.texts)

\* Frames are decoded wherever they are in a segment (websocket.c:181, "decode websocket
\* data and call onWebSocketRxData()"), as long as none is split.
DecodedAsSent == ~server.split => IsPrefix(texts, server.texts)
=============================================================================
