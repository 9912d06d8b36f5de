----------------------------- MODULE SerialLine -----------------------------
(****************************************************************************)
(* One UART with its two rings, the FIFO of bytes to send, the interrupt    *)
(* and the Hal task (hal_uart.c, and the polls of hal_atcmdsio.c and        *)
(* hal_terminal.c, which are the same).  The task is interrupted anywhere;  *)
(* it is modelled by the accesses to what it shares with the interrupt.     *)
(* Bytes are numbered in the order in which they arrive, or are handed over *)
(* to be sent.                                                              *)
(*                                                                          *)
(* A ring has one producer and one consumer, an interrupt at one of the     *)
(* ends.  One slot is kept free, so that head = tail means empty.  A        *)
(* consumer that is not an interrupt moves the tail in two steps, and       *)
(* between them the tail may stand on maxBufSize, outside the buffer.       *)
(****************************************************************************)
EXTENDS Naturals, Sequences

CONSTANTS Byte,
          RxSize, TxSize,   \* HAL_UART1_RX_BUFFER_SIZE, HAL_UART1_TX_BUFFER_SIZE
          MaxIn, MaxOut,    \* bound: bytes received and bytes sent
          Burst             \* bound: bytes that may arrive inside one HalUartGet

-----------------------------------------------------------------------------
\* The rings

Slots(size) == 0 .. size - 1

Ring(size) == [buf : [Slots(size) -> Byte \cup {0}], head : Slots(size), tail : 0 .. size]

\* HalUartOpen; the static buffers are zero
Opened(size) == [buf |-> [i \in Slots(size) |-> 0], head |-> 0, tail |-> 0]

\* i++; if (i >= maxBufSize) i = 0;
Following(i, size) == IF i + 1 >= size THEN 0 ELSE i + 1

IsEmpty(r) == r.tail = r.head

\* if (newHead == tail): the free slot is all that is left
IsFull(r, size) == Following(r.head, size) = r.tail

\* The byte is stored before the head makes it visible
Stored(r, size, b) ==
    [r EXCEPT !.buf = [@ EXCEPT ![r.head] = b], !.head = Following(@, size)]

Dropped(r, size) == [r EXCEPT !.tail = Following(@, size)]

\* The bytes between tail and head, oldest first (read by properties only)
Contents(r, size) ==
    LET first == r.tail % size
        count == (r.head + size - first) % size
    IN  [k \in 1 .. count |-> r.buf[(first + k - 1) % size]]

-----------------------------------------------------------------------------

SerialAssumption ==
    /\ RxSize \in Nat \ {0, 1} /\ TxSize \in Nat \ {0, 1}
    /\ MaxIn \in Nat /\ MaxOut \in Nat /\ Burst \in Nat
    /\ \A n \in 1 .. MaxIn : n \in Byte
    /\ \A n \in 1 .. MaxOut : n \in Byte

VARIABLES rx, tx,       \* uartCfg[port].rxBuf, .txBuf
          thre,         \* UART_IER_THRE_IEN of the UART
          fifo,         \* txFIFO
          events,       \* HAL_UARTn_RX_DATA_EVT and ..._TX_DATA_EVT of the Hal task
          pc,           \* where the Hal task is
          slot,         \* HalUartGet: the index it is going to read
          byte,         \* HalUartGet: *pByte
          space, probe, \* PollTx: space; HalUartQryTxBuf: newHead
          fault,        \* the assertion that failed
          arrived, read, handed, sent,   \* histories
          burst         \* bytes that arrived inside the present HalUartGet

rxVars == <<rx, slot, byte, arrived, read, burst>>
txVars == <<tx, thre, fifo, space, probe, handed, sent>>
vars == <<rxVars, txVars, events, pc, fault>>

TypeOK ==
    /\ rx \in Ring(RxSize) /\ tx \in Ring(TxSize)
    /\ tx.tail \in Slots(TxSize)
    /\ thre \in BOOLEAN
    /\ fifo \in Seq(Byte)
    /\ events \subseteq {"RX", "TX"}
    /\ pc \in {"idle", "get", "take", "wrap", "send", "count", "test", "enable"}
    /\ slot \in Slots(RxSize) /\ byte \in Byte \cup {0}
    /\ space \in 0 .. TxSize - 1 /\ probe \in Slots(TxSize)
    /\ fault \in {"none", "rx", "tx"}
    /\ arrived \in 0 .. MaxIn /\ handed \in 0 .. MaxOut /\ burst \in 0 .. Burst
    /\ read \in Seq(Byte \cup {0}) /\ sent \in Seq(Byte)

\* HalUartOpen, and no FIFO
Init ==
    /\ rx = Opened(RxSize) /\ tx = Opened(TxSize)
    /\ thre = FALSE /\ fifo = << >> /\ events = {}
    /\ pc = "idle" /\ slot = 0 /\ byte = 0 /\ space = 0 /\ probe = 0
    /\ fault = "none" /\ burst = 0
    /\ arrived = 0 /\ handed = 0 /\ read = << >> /\ sent = << >>

-----------------------------------------------------------------------------
(* The interrupt *)

InGet == pc \in {"take", "wrap"}

\* HalUartIsr, receive part: each byte is put into the ring and announced
RxInterrupt ==
    /\ fault = "none"
    /\ arrived < MaxIn
    /\ InGet => burst < Burst
    /\ arrived' = arrived + 1
    /\ burst' = IF InGet THEN burst + 1 ELSE 0
    /\ IF IsFull(rx, RxSize)
       THEN fault' = "rx" /\ UNCHANGED <<rx, events>>
       ELSE /\ rx' = Stored(rx, RxSize, arrived + 1)
            /\ events' = events \cup {"RX"}
            /\ UNCHANGED fault
    /\ UNCHANGED <<txVars, pc, slot, byte, read>>

\* Mutant: nobody is told that there is something to read
Announced_Never(popped) == {}

\* The event a transmit interrupt leaves, whether it sent a byte or not
Announced(popped) == {"TX"}

\* HalUartIsr, transmit part: the next byte, or no more interrupts
TxInterrupt ==
    /\ fault = "none"
    /\ thre
    /\ IF IsEmpty(tx)
       THEN thre' = FALSE /\ UNCHANGED <<tx, sent>>
       ELSE /\ sent' = Append(sent, tx.buf[tx.tail])
            /\ tx' = Dropped(tx, TxSize)
            /\ UNCHANGED thre
    /\ events' = events \cup Announced(~IsEmpty(tx))
    /\ UNCHANGED <<rxVars, fifo, space, probe, handed, pc, fault>>

-----------------------------------------------------------------------------
(* The Hal task: PollRx has priority *)

PollRx ==
    /\ pc = "idle" /\ fault = "none"
    /\ "RX" \in events
    /\ events' = events \ {"RX"}
    /\ pc' = "get"
    /\ UNCHANGED <<rxVars, txVars, fault>>

\* HalUartGet, up to the store of the tail.  The build stores tail + 1 before it
\* reads the byte, and corrects the tail afterwards.
HalUartGet ==
    /\ pc = "get" /\ fault = "none"
    /\ IF IsEmpty(rx)
       THEN pc' = "idle" /\ UNCHANGED rxVars
       ELSE /\ slot' = rx.tail
            /\ rx' = [rx EXCEPT !.tail = @ + 1]
            /\ burst' = 0
            /\ pc' = "take"
            /\ UNCHANGED <<byte, arrived, read>>
    /\ UNCHANGED <<txVars, events, fault>>

GetByte ==
    /\ pc = "take" /\ fault = "none"
    /\ byte' = rx.buf[slot]
    /\ pc' = "wrap"
    /\ UNCHANGED <<rx, slot, arrived, read, burst, txVars, events, fault>>

\* while (HalUartGet(...) == HAL_UART_ERR_None)
AfterByte == "get"

WrapTail ==
    /\ pc = "wrap" /\ fault = "none"
    /\ rx' = IF rx.tail >= RxSize THEN [rx EXCEPT !.tail = 0] ELSE rx
    /\ read' = Append(read, byte)
    /\ byte' = 0 /\ slot' = 0 /\ burst' = 0
    /\ pc' = AfterByte
    /\ UNCHANGED <<arrived, txVars, events, fault>>

\* Mutant: the byte passes those that wait in the FIFO
SendByte_Direct ==
    /\ pc \in {"idle", "get"} /\ fault = "none"
    /\ handed < MaxOut
    /\ handed' = handed + 1
    /\ IF IsFull(tx, TxSize)
       THEN fifo' = Append(fifo, handed + 1) /\ UNCHANGED <<tx, thre>>
       ELSE tx' = Stored(tx, TxSize, handed + 1) /\ thre' = TRUE /\ UNCHANGED fifo
    /\ events' = events \cup {"TX"}
    /\ UNCHANGED <<rxVars, space, probe, sent, pc, fault>>

\* HalATCmdSIOSendByte, by a handler (HalTerminalPrintChar, from PollRx too)
SendByte ==
    /\ pc \in {"idle", "get"} /\ fault = "none"
    /\ handed < MaxOut
    /\ handed' = handed + 1
    /\ fifo' = Append(fifo, handed + 1)
    /\ events' = events \cup {"TX"}
    /\ UNCHANGED <<rxVars, tx, thre, space, probe, sent, pc, fault>>

PollTx ==
    /\ pc = "idle" /\ fault = "none"
    /\ "TX" \in events /\ "RX" \notin events
    /\ events' = events \ {"TX"}
    /\ space' = 0
    /\ pc' = "send"
    /\ UNCHANGED <<rxVars, tx, thre, fifo, probe, handed, sent, fault>>

\* if (newHead != tail) space++
Counts(next) == next # tx.tail

SendDone ==
    /\ pc = "send" /\ fault = "none"
    /\ fifo = << >>
    /\ pc' = "idle" /\ space' = 0
    /\ UNCHANGED <<rxVars, tx, thre, fifo, probe, handed, sent, events, fault>>

SendAsks ==
    /\ pc = "send" /\ fault = "none"
    /\ fifo # << >> /\ space = 0
    /\ probe' = tx.head
    /\ pc' = "count"
    /\ UNCHANGED <<rxVars, tx, thre, fifo, space, handed, sent, events, fault>>

\* HalUartQryTxBuf reads the tail twice in each round of its loop
CountSlot ==
    /\ pc = "count" /\ fault = "none"
    /\ LET next == Following(probe, TxSize) IN
       /\ probe' = next
       /\ space' = IF Counts(next) THEN space + 1 ELSE space
    /\ pc' = "test"
    /\ UNCHANGED <<rxVars, tx, thre, fifo, handed, sent, events, fault>>

TestTail ==
    /\ pc = "test" /\ fault = "none"
    /\ IF probe # tx.tail
       THEN pc' = "count" /\ UNCHANGED probe
       ELSE pc' = (IF space > 0 THEN "send" ELSE "idle") /\ probe' = 0
    /\ UNCHANGED <<rxVars, tx, thre, fifo, space, handed, sent, events, fault>>

\* HalUartPut: the byte is taken from the FIFO for the call
HalUartPut ==
    /\ pc = "send" /\ fault = "none"
    /\ fifo # << >> /\ space > 0
    /\ fifo' = Tail(fifo)
    /\ space' = space - 1
    /\ IF IsFull(tx, TxSize)
       THEN fault' = "tx" /\ UNCHANGED <<tx, pc>>
       ELSE /\ tx' = Stored(tx, TxSize, Head(fifo))
            /\ pc' = "enable"
            /\ UNCHANGED fault
    /\ UNCHANGED <<rxVars, thre, probe, handed, sent, events>>

EnableThre ==
    /\ pc = "enable" /\ fault = "none"
    /\ thre' = TRUE
    /\ pc' = "send"
    /\ UNCHANGED <<rxVars, tx, fifo, space, probe, handed, sent, events, fault>>

\* HAL_ASSERT: the device is reset, and what it had not delivered is gone
Restart ==
    /\ fault # "none"
    /\ rx' = Opened(RxSize) /\ tx' = Opened(TxSize)
    /\ thre' = FALSE /\ fifo' = << >> /\ events' = {}
    /\ pc' = "idle" /\ slot' = 0 /\ byte' = 0 /\ space' = 0 /\ probe' = 0
    /\ fault' = "none" /\ burst' = 0
    /\ UNCHANGED <<arrived, handed, read, sent>>

-----------------------------------------------------------------------------

Hal ==
    \/ PollRx \/ HalUartGet \/ GetByte \/ WrapTail
    \/ PollTx \/ SendDone \/ SendAsks \/ CountSlot \/ TestTail \/ HalUartPut \/ EnableThre

Next == RxInterrupt \/ TxInterrupt \/ SendByte \/ Hal \/ Restart

Spec == Init /\ [][Next]_vars

\* The main loop goes on, an enabled transmit interrupt is taken, a reset is one
FairSpec == Spec /\ WF_vars(Hal) /\ WF_vars(TxInterrupt) /\ WF_vars(Restart)

-----------------------------------------------------------------------------
(* Received, and not yet read by the task *)
RxWaiting ==
    IF pc = "take" THEN <<rx.buf[slot]>> \o Contents(rx, RxSize)
    ELSE IF pc = "wrap" THEN <<byte>> \o Contents(rx, RxSize)
    ELSE Contents(rx, RxSize)

\* The bytes of the module reach the line assembly in their order, each once, unless
\* the assertion of halUartRxByte resets the device (hal_uart.c:108, 131).
RxInOrder == INSTANCE ByteChannel WITH waiting <- RxWaiting, delivered <- read, down <- fault # "none"

\* Handed over to be sent, and not yet written to the UART
TxWaiting == Contents(tx, TxSize) \o fifo

\* The bytes of commands leave in their order, each once, however interrupt, poll and
\* senders interleave (hal_uart.c:150, hal_atcmdsio.c:155).
TxInOrder == INSTANCE ByteChannel WITH waiting <- TxWaiting, delivered <- sent, down <- fault # "none"

\* The space that a poll has counted, and goes on using while the interrupt moves the
\* tail, is there: HAL_ASSERT(HalUartPut(...) == HAL_UART_ERR_None) never fails.
TxHasRoom == fault # "tx"

\* A poll that leaves bytes behind, for want of space or for a count that the interrupt
\* has overtaken, is always called again: everything queued is sent.
TxDrains == (TxWaiting # << >>) ~> (TxWaiting = << >>)

\* A byte whose event is taken while an earlier one is handled is read all the same.
RxDrains == (RxWaiting # << >>) ~> (RxWaiting = << >>)
=============================================================================
