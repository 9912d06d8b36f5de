------------------------------- MODULE MCLink -------------------------------
(***************************************************************************)
(* The way between the server and the application, for TLC: the bytes of   *)
(* the UART (SerialLine), the lines and packets they make (AtLines), the   *)
(* frames in the packets (WsFrames) and the watch over their silence       *)
(* (KeepAlive).  Each part has the promise of the one below as its input,  *)
(* whatever that input may be; so one of them moves in a behaviour.        *)
(***************************************************************************)
EXTENDS KeepAlive, Sequences, FiniteSets

CONSTANTS RxSize, TxSize, MaxIn, MaxOut, Burst, Byte,
          Lines, Payloads, MaxSaid, MaxLine, MaxHead, NULL,
          Requests, Closers, OtherTexts, MaxFrames, MaxJoined

VARIABLES part,
          rx, tx, thre, fifo, events, pc, slot, byte, space, probe, fault,
          arrived, read, handed, sent, burst,
          wire, said, ctrl, lenIPD, pRxDataStream, msgs, heard, blocks,
          server, seg, lenProc, wsFramesState, rxTexts, out, closes

Uart == INSTANCE SerialLine
AtCmd == INSTANCE AtLines
Frames == INSTANCE WsFrames WITH wsState <- wsFramesState, texts <- rxTexts

ASSUME LinkAssumption ==
    Uart!SerialAssumption /\ AtCmd!AtLinesAssumption /\ Frames!WsFramesAssumption

uartVars == <<rx, tx, thre, fifo, events, pc, slot, byte, space, probe, fault,
              arrived, read, handed, sent, burst>>
atCmdVars == <<wire, said, ctrl, lenIPD, pRxDataStream, msgs, heard, blocks>>
frameVars == <<server, seg, lenProc, wsFramesState, rxTexts, out, closes>>
watchVars == vars
linkVars == <<part, uartVars, atCmdVars, frameVars, watchVars>>

LinkInit ==
    /\ part \in {"uart", "atcmd", "frames", "watch"}
    /\ Uart!Init /\ AtCmd!Init /\ Frames!Init /\ Init

OnlyUart == part = "uart" /\ UNCHANGED <<part, atCmdVars, frameVars, watchVars>>
OnlyAtCmd == part = "atcmd" /\ UNCHANGED <<part, uartVars, frameVars, watchVars>>
OnlyFrames == part = "frames" /\ UNCHANGED <<part, uartVars, atCmdVars, watchVars>>
OnlyWatch == part = "watch" /\ UNCHANGED <<part, uartVars, atCmdVars, frameVars>>

LinkNext ==
    \/ Uart!Next /\ OnlyUart
    \/ AtCmd!Next /\ OnlyAtCmd
    \/ Frames!Next /\ OnlyFrames
    \/ Next /\ OnlyWatch

LinkSpec == LinkInit /\ [][LinkNext]_linkVars

\* The fairness of SerialLine, of AtLines and of KeepAlive
LinkFairSpec ==
    /\ LinkSpec
    /\ WF_linkVars(Uart!Hal /\ OnlyUart) /\ WF_linkVars(Uart!TxInterrupt /\ OnlyUart)
    /\ WF_linkVars(Uart!Restart /\ OnlyUart)
    /\ WF_linkVars(AtCmd!PollRx /\ OnlyAtCmd) /\ WF_linkVars(AtCmd!ATCmd /\ OnlyAtCmd)
    /\ WF_linkVars(AtCmd!RxDataStream /\ OnlyAtCmd)
    /\ WF_linkVars(Tick /\ OnlyWatch) /\ WF_linkVars(onWebSocketRxData /\ OnlyWatch)
    /\ WF_linkVars(SendHBP /\ OnlyWatch) /\ WF_linkVars(CloseWebSocket /\ OnlyWatch)

-----------------------------------------------------------------------------
\* The transmit ring has the room that a poll has counted; lines and data are heard as
\* they were said, and their blocks have one owner; every frame of a segment is heard
\* while the websocket is open, and nothing is sent after a close frame.
LinkSound ==
    /\ part = "uart" => Uart!TypeOK /\ Uart!TxHasRoom
    /\ part = "atcmd" => /\ AtCmd!TypeOK /\ AtCmd!LinesAsSaid
                        /\ AtCmd!DataAsSaid /\ AtCmd!BlocksOwned
    /\ part = "frames" => /\ Frames!TypeOK /\ Frames!EachIsHeard
                         /\ Frames!AloneAsSent /\ Frames!NothingAfterClose
    /\ part = "watch" => TypeOK

\* hal_uart.c: in both directions a byte is passed on in its order and once, whatever
\* the interrupt interrupts.
RingsAreChannels ==
    /\ Uart!RxInOrder!Init /\ Uart!TxInOrder!Init
    /\ [][part = "uart" => /\ [Uart!RxInOrder!Next]_Uart!RxInOrder!vars
                          /\ [Uart!TxInOrder!Next]_Uart!TxInOrder!vars]_linkVars

\* Nobody waits for ever: no byte stays in a ring or in the FIFO (hal_uart.c,
\* hal_atcmdsio.c), all that is said is heard and no block kept (hci_wifi.c), and a server
\* that has fallen silent is heard again or left (app_lock.c).
AllArrives == Uart!RxDrains /\ Uart!TxDrains /\ AtCmd!AllHeard /\ SilentIsLeft

\* websocket.c:181, "decode websocket data and call onWebSocketRxData()": frames are
\* decoded wherever they are in a segment, as long as none is split.
DecodedAsSent == Frames!DecodedAsSent
-----------------------------------------------------------------------------
(* Small rings that both wrap several times. *)
MCByte == 1 .. (IF MaxIn > MaxOut THEN MaxIn ELSE MaxOut)

(* An empty line, one with a colon, one that is too long; data that looks  *)
(* like a line, like a head, and like nothing.  The bytes are AtLines'.    *)
c == <<"c", 0>>
LF == <<"LF", 0>>
Colon == <<":", 0>>
SomeLines == {<< >>, <<c, Colon>>, <<c, c, c, c, c>>}
SomeData == {<<c>>, <<LF, Colon>>, <<<<"ipd", 1>>, Colon, LF>>}

(* A short request, one that is longer by more than a header, and a text   *)
(* that closes.                                                            *)
Short == <<"s">>
Long == <<"l", "o", "n", "g">>
AllRequests == {Short, Long}
CloseText == {<<"c">>}
Unknown == {<<>>}
=============================================================================
