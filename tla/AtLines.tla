------------------------------ MODULE AtLines -------------------------------
(****************************************************************************)
(* From the bytes of the ESP8266 to what the HCI task hears: lines, and the *)
(* data of +IPD packets.  HalATCmdSIOPollRx (hal_atcmdsio.c) makes messages *)
(* of bytes, HciWiFi_ProcessOsalMsg (hci_wifi.c) works them off, and the    *)
(* blocks of the heap pass from one to the other.                           *)
(*                                                                          *)
(* A byte is a pair: a character, or <<"ipd", n>>, which stands for the     *)
(* bytes of "+IPD,n".                                                       *)
(****************************************************************************)
EXTENDS Naturals, Sequences, FiniteSets

CONSTANTS Lines,        \* lines the ESP8266 says, without their line feed
          Payloads,     \* data the server sends: sequences of bytes
          MaxSaid,      \* bound: lines and packets
          MaxLine,      \* HAL_ATCMDSIO_MSG_MAX_LEN - 1
          MaxHead,      \* the bytes that a packet's head has at most: 10
          NULL

AtLinesAssumption ==
    /\ MaxSaid \in Nat /\ MaxLine \in Nat /\ MaxHead \in Nat
    /\ MaxHead >= 2 /\ MaxLine >= MaxHead
    /\ << >> \notin Payloads

VARIABLES wire,     \* bytes that the ESP8266 has said and the poll has not read
          said,     \* lines and packets so far
          ctrl,     \* pRxBufCtrl and what it points to, or NULL
          lenIPD, pRxDataStream,
          msgs,     \* the messages of the HCI task
          heard,    \* lines and data, as the HCI task was given them
          blocks    \* blocks of the heap in use

vars == <<wire, said, ctrl, lenIPD, pRxDataStream, msgs, heard, blocks>>

LF == <<"LF", 0>>
Colon == <<":", 0>>
IpdHead(n) == <<"ipd", n>>

Init ==
    /\ wire = << >> /\ said = [lines |-> << >>, data |-> << >>]
    /\ ctrl = NULL /\ lenIPD = 0 /\ pRxDataStream = NULL
    /\ msgs = << >> /\ heard = [lines |-> << >>, data |-> << >>]
    /\ blocks = 0

Budget == Len(said.lines) + Len(said.data) < MaxSaid

\* The ESP8266 says a line
SayLine(line) ==
    /\ Budget
    /\ wire' = wire \o Append(line, LF)
    /\ said' = [said EXCEPT !.lines = Append(@, Append(line, LF))]
    /\ UNCHANGED <<ctrl, lenIPD, pRxDataStream, msgs, heard, blocks>>

\* ... or passes on data
SayData(payload) ==
    /\ Budget
    /\ wire' = wire \o <<IpdHead(Len(payload)), Colon>> \o payload
    /\ said' = [said EXCEPT !.data = Append(@, payload)]
    /\ UNCHANGED <<ctrl, lenIPD, pRxDataStream, msgs, heard, blocks>>

-----------------------------------------------------------------------------
(* HalATCmdSIOPollRx, for a byte *)

\* The message of a line or a packet, which takes the buffer with it
Sent(c, data) == Append(msgs, [head |-> "ATCmd", buf |-> c.buf, data |-> data])

\* A byte of a packet's data; with no memory for it, it is only counted
DataByte(byte) ==
    LET more == IF pRxDataStream = NULL THEN NULL ELSE Append(pRxDataStream, byte)
        c == [ctrl EXCEPT !.cnt = @ + 1]
        last == c.cnt = lenIPD
    IN
    /\ lenIPD' = IF last THEN 0 ELSE lenIPD
    /\ pRxDataStream' = IF last THEN NULL ELSE more
    /\ msgs' = IF last THEN Sent(c, more) ELSE msgs
    /\ ctrl' = IF last THEN NULL ELSE c
    /\ UNCHANGED blocks     \* the message for the struct

\* The struct, the buffer and the byte in it, while there is room
Stored(c, byte) ==
    IF c = NULL THEN [buf |-> <<byte>>, cnt |-> 1]
    ELSE IF c.cnt < MaxLine
    THEN [buf |-> Append(SubSeq(c.buf, 1, c.cnt), byte), cnt |-> c.cnt + 1]
    ELSE c

IsHead(c, byte) == byte = Colon /\ c.cnt <= MaxHead /\ c.buf[1][1] = "ipd"

\* A byte of a line, or of a packet's head.  Memory for a line is asserted; for data it
\* may be refused.
LineByte(byte) ==
    LET c == Stored(ctrl, byte)
        got == IF ctrl = NULL THEN 2 ELSE 0
    IN
    \/ /\ IsHead(c, byte)
       /\ lenIPD' = c.buf[1][2]
       /\ ctrl' = [c EXCEPT !.cnt = 0]
       /\ \/ pRxDataStream' = << >> /\ blocks' = blocks + got + 1
          \/ pRxDataStream' = NULL /\ blocks' = blocks + got
       /\ UNCHANGED msgs
    \/ /\ ~IsHead(c, byte) /\ byte = LF
       /\ msgs' = Sent(c, NULL)
       /\ ctrl' = NULL
       /\ blocks' = blocks + got
       /\ UNCHANGED <<lenIPD, pRxDataStream>>
    \/ /\ ~IsHead(c, byte) /\ byte # LF
       /\ ctrl' = c
       /\ blocks' = blocks + got
       /\ UNCHANGED <<lenIPD, pRxDataStream, msgs>>

\* The task runs between any two polls, and a poll may end behind any byte
PollRx ==
    /\ wire # << >>
    /\ wire' = Tail(wire)
    /\ IF lenIPD > 0 THEN DataByte(Head(wire)) ELSE LineByte(Head(wire))
    /\ UNCHANGED <<said, heard>>

-----------------------------------------------------------------------------
(* HciWiFi_ProcessOsalMsg, for a message *)

\* A line is processed and freed.  The head of a packet becomes a message of its own,
\* which comes behind what waits already.
ATCmd ==
    LET msg == Head(msgs) IN
    /\ msgs # << >> /\ msg.head = "ATCmd"
    /\ IF msg.buf[1][1] = "ipd"
       THEN /\ msgs' = Append(Tail(msgs), [head |-> "RxDataStream", data |-> msg.data])
            /\ blocks' = blocks - 1     \* the buffer; one message for the other
            /\ UNCHANGED heard
       ELSE /\ msgs' = Tail(msgs)
            /\ heard' = [heard EXCEPT !.lines = Append(@, msg.buf)]
            /\ blocks' = blocks - 2
    /\ UNCHANGED <<wire, said, ctrl, lenIPD, pRxDataStream>>

RxDataStream ==
    LET msg == Head(msgs) IN
    /\ msgs # << >> /\ msg.head = "RxDataStream"
    /\ msgs' = Tail(msgs)
    /\ heard' = [heard EXCEPT !.data = Append(@, msg.data)]
    /\ blocks' = blocks - (IF msg.data = NULL THEN 1 ELSE 2)
    /\ UNCHANGED <<wire, said, ctrl, lenIPD, pRxDataStream>>

Next ==
    \/ \E line \in Lines : SayLine(line)
    \/ \E payload \in Payloads : SayData(payload)
    \/ PollRx \/ ATCmd \/ RxDataStream

\* The main loop polls as long as bytes come (hal_drivers.c:141) and serves its tasks.
Fairness == WF_vars(PollRx) /\ WF_vars(ATCmd) /\ WF_vars(RxDataStream)

Spec == Init /\ [][Next]_vars
FairSpec == Spec /\ Fairness

-----------------------------------------------------------------------------
TypeOK ==
    /\ blocks \in Nat
    /\ lenIPD > 0 => ctrl # NULL /\ ctrl.cnt < lenIPD
    /\ pRxDataStream # NULL => Len(pRxDataStream) = ctrl.cnt
    /\ ctrl # NULL => Len(ctrl.buf) \in 1 .. MaxLine

\* A line as it should be heard: what is too long is cut off
Due(line) == SubSeq(line, 1, IF Len(line) <= MaxLine THEN Len(line) ELSE MaxLine)

\* Lines are heard in order, none of them broken up or run into another, whatever the
\* data between them looks like.
LinesAsSaid ==
    /\ Len(heard.lines) <= Len(said.lines)
    /\ \A i \in 1 .. Len(heard.lines) : heard.lines[i] = Due(said.lines[i])

\* The data of a packet is heard whole and in order, or as missing.
DataAsSaid ==
    /\ Len(heard.data) <= Len(said.data)
    /\ \A i \in 1 .. Len(heard.data) : heard.data[i] \in {NULL, said.data[i]}

\* Every block has one owner: the receiver, a message or its reader.
BlocksOwned ==
    blocks =
        (IF ctrl = NULL THEN 0 ELSE 2)
        + (IF pRxDataStream = NULL THEN 0 ELSE 1)
        + Len(msgs)
        + Cardinality({i \in 1 .. Len(msgs) : msgs[i].head = "ATCmd"})
        + Cardinality({i \in 1 .. Len(msgs) : msgs[i].data # NULL})

\* All that is said is heard in the end: no byte in a packet or behind a long line
\* leaves the receiver waiting for ever, and nothing is kept.
AllHeard ==
    <>[](/\ Len(heard.lines) = Len(said.lines) /\ Len(heard.data) = Len(said.data)
         /\ blocks = 0)
=============================================================================
