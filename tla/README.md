# The Wi-Fi lock's firmware in TLA+

This directory models the firmware of a Wi-Fi door lock (`src/firmware`): a
NuvoTon M051 that opens a lock through a relay, watches the contact of the door,
and keeps a websocket open to a server through an ESP8266 module it drives with
AT commands over a UART. It holds

* modules (`*.tla`) translated from the C sources, one per component, and modules
  that compose the components that interact,
* small abstract modules that say what a component promises (`Mailbox`,
  `MsgQueues`, `Session`, `Timers`, `KeyReports`, `LockPulse`, `ByteQueue`,
  `Allocator`, `ByteChannel`, `NvStore`), which the detailed ones are checked, and
  in part proved, to implement,
* TLC configurations (`*.cfg`), and eight modules of proofs (`*_proofs.tla`).

Run a configuration with `tlc -config WiFiTurns.cfg WiFiLock.tla`, check a
proof with `tlapm Osal_proofs.tla`. `PROJECT.json` lists the runs, the source
lines each definition stands for, the hazards and the findings.

## 1. The system and its parts

The program is one loop (`main.c`, `osal_run_system` in `osal.c:1178`). Each pass
updates the clock and the timers, polls the keys, and runs the handler of the
first task whose event word is not zero. Tasks, by priority:

| task | handler | gets | does |
|---|---|---|---|
| 0 Hal | `Hal_ProcessEvent` | flags of drivers, set by interrupts and timers | bytes of the UARTs, buzzer, LEDs, keys |
| 1 CbTimer | `osal_CbTimerProcessEvent` | one flag per callback timer | calls the callback (long touch of a key) |
| 2 HciWiFi | `HciWiFi_ProcessEvent` | lines of the ESP8266 and states as messages, 5 flags | the connection, the socket, pairing |
| 3 AppLock | `AppLock_ProcessEvent` | key and terminal messages, 7 timer events | when to connect, the websocket, lock, door |

Handlers are not preempted except by interrupts, which only set flags, count
ticks and fill ring buffers. They reach each other in three ways: messages
(`osal_msg_send`, one heap buffer each), event flags (set directly or by a timer),
and direct calls with callbacks: the application calls the HCI
(`HciWiFiSetConnection`, `...PairingStart`) and the websocket, the websocket calls
the HCI's socket functions, and the HCI task calls back into both in the middle of
its own state change.

### Inventory

| component | state | operations | what is hard | what makes it correct |
|---|---|---|---|---|
| kernel, `osal.c` | `osal_qHead`, header of each buffer, `tasksEvents` | send, receive, deallocate, set and clear events, schedule | flags are taken, cleared by receive and ORed back while others set them; one list for all tasks | FIFO per task, nothing lost, stranded or linked twice; delivery |
| timers and clock, `osal_timers.c`, `osal_clock.c` | list of records, `systick`, `preSystick`, `osal_systemClock` | start, reload, stop, update | stopped records linger; 16-bit wrap; late passes; 8-bit shortcut | each timer due exactly when it should be; clock |
| callback timers, `osal_cbtimer.c` | table of slots | start, stop, handle | a slot is freed with its event pending and used again | the right callback |
| HCI, `hci_wifi.c`, `hci_wificmd.c` | current and target state, three init structs, transmit FIFO, flags | 5 API calls, 15 reported states, data, flags | commands, reports, timers and calls cross; `curState` is behind or unknown; callbacks re-enter | no assertion fails; beliefs agree with the module; data only to open sockets |
| AT processor, `hci_wifiatcop.c` | its own state word, the current processor | one table per command | a line that nobody expects asserts | every line has a row; commands end |
| websocket, `websocket.c` | `wsState`, `pwsInit`, place in the segment | open, send, close, callbacks, frames of a segment | closing relies on the server; several frames in a segment; closing from within the loop | follows the socket; closing ends; each frame heard once, nothing sent after a close |
| application, `app_lock.c` | credentials, flags, timers | keys, events, callbacks | a chain of timers and callbacks must never break; stopped timers leave their events; credentials are two pages and RAM | always gets back online; long press is obeyed; only a silent server is left; no torn or mixed credentials |
| keys, `hal_key.c` | debounced state, long-touch notes | poll, debounce, touch | bouncing, a release that meets its timer | one correct report per touch |
| buzzer, `hal_buzzer.c` | beep task, its event and timer | beep, update | three sources replace each other's beeps | never stuck on, never updated without a task |
| LEDs and relay, `hal_led.c` | mode and times per LED, one shared timer | set, blink, update | the relay is an LED among LEDs that blink at any time | one exact pulse per request |
| serial line, `hal_uart.c`, `hal_atcmdsio.c` | two rings, `txFIFO`, events | interrupt, poll, send | the interrupt between any two accesses; room counted against a tail that moves | no byte lost, repeated or reordered but for a reset; both directions drain |
| line assembly, `hal_atcmdsio.c`, `hci_wifi.c` | line buffer, `lenIPD`, data block, messages | poll, line, data | data that looks like lines, lines too long | each line and block once and in order, each heap block freed once |
| terminal, `hal_terminal.c` | line buffer | poll | as the serial line | not modelled (the same rings, one owner, no data) |
| byte FIFO, `osal_fifo.c` | chain of pages, length | create, put, get, delete | the heap is empty in the middle of a put; the last page is left early | a queue of bytes, no page lost |
| heap, `umm_malloc.c` | two lists threaded through the blocks | malloc, realloc, free | splitting, joining both ways, moving | sound lists, no two free neighbours, data kept, an allocator |
| flash, `hal_flash.c`; credentials in `app_lock.c` | three pages | erase, program, read | power fails between two words | the old text, the new one or none |
| non-volatile store, `osal_snv.c` (not called) | two pages of items | init, read, write, compact | power fails anywhere, also while recovering | the last value written, durable |
| calendar, `osal_clock.c` | seconds since 2000 | to and from dates | leap years, 2100, 32 bits | the Gregorian calendar, both ways |
| strings, numbers, `stringx.c`, `osal.c` | - | number to text and back | signs, widths, overflow | what is written is read; what is read is meant, or refused |
| MD5, device id, drivers, vendor library | - | thin, pure or third-party | - | not modelled |
| buffer manager, power manager | - | not in this build | - | not modelled |
| ESP8266, access point, phone, server | external | - | everything above meets it | modelled from the recorded dialogues |

`PROJECT.json` has the same list with the sources, and under `hazards` every place
where an order, a crossing, a boundary or a stop between two steps matters.

## 2. The modules

### Kernel: `Osal`, `Mailbox`, `Osal_proofs`; `OsalQueue`, `MsgQueues`

`Osal` has the queue as the list of its buffers, the header field `dest_id`,
`tasksEvents`, and the running handler's copy of its event word (`events`). One
action per kernel operation; what a handler does besides (sending, setting and
clearing any flag of any task) is arbitrary (`Clients`), so that the results hold
for every handler of the program and every interrupt. `osal_msg_receive` sets or
clears `SYS_EVENT_MSG` in the same action that unlinks the message, as the code
does in one call. `Mailbox` is one FIFO per task; `MailboxFifo` says that the
shared list implements it.

`OsalQueue` is a level below: the links in the headers of the buffers and the head
of each queue, with all five functions that change them (`osal_msg_enqueue`,
`_dequeue`, `_push`, `_extract`, `_enqueue_max`) and `osal_msg_send` and
`_receive` on top. `MsgQueues` has the same calls on sequences.

### The connected lock: `HciWiFiApi`, `WebSocket`, `AppLock`, `HciWiFi`, `Esp8266`, `WiFiLock`, `Session`, `WiFiLock_proofs`, `Dialogue_proofs`

The call graph of the code is circular (application, websocket, HCI, callbacks),
so the modules are layered by who changes what:

* `HciWiFiApi`: the HCI's state as one record and its API calls as operators from
  that record to the next one (`hci_wifi.c:194-460`);
* `WebSocket`: `WebSocketOpen/Send/Close` and the callbacks of the socket;
* `AppLock`: keys, events and all callbacks of the application. A callback that
  calls back into the HCI is an operator applied to the HCI's record, so the
  re-entrance of the code (a state handler goes on with a record its callback has
  changed) is kept;
* `HciWiFi`: the AT command processor as tables (`Replies`, `Unasked`, `Echoes`). A
  `Row` says which processor takes which line, which one takes over, what changes in
  `hciWiFiState` and whether the state is posted; the rows of the current processor
  come before the generic ones, as the calls in the code do. Then the state
  handler (`State*`), the state controller and the task's flags;
* `Esp8266`: the outside world, external (see 4);
* `WiFiLock`: the two tasks under the kernel's scheduling, the serial line, the
  timers, failed assertions and restarts.

An assertion of the code is neither assumed nor ignored: `FailedBy...` says which
line's assertion a message or flag would fail, `AssertionFails` records it in
`fault`, and `Restart` is the reset of `HAL_ASSERT_RESET` with the flash kept.

The loop `while (pMsg)` of a handler is several steps of one run: `running` says
whose, nothing else runs meanwhile, and `held` is the copy of the event word that
`osal_run_system` ORs back afterwards. Lines have their heads only: digits, texts
and lengths are left out, and the transmit FIFO counts frames. A timer is running
or not; it expires when the tasks and the line are idle, since every delay is
seconds long while a line takes milliseconds. A key is pressed at any time
(`Press`). A `+IPD` packet is two steps of the Hal task, `HalHead` and `HalLine`,
with anything in between or nothing: where nothing is, one run of
`HalATCmdSIOPollRx` has met both, and the message of the data is handled before the
flag of its head. `Orderly` is a module that pauses between its lines until the
HCI task has worked off the last one; between the head of a packet and its data
no module pauses. `Session` is what all this looks like to the application.

### Timers: `OsalTimers`, `Timers`, `OsalTimers_proofs`; `Calendar`

The list of records is a function of heap blocks (some may be missing: the caller
then gets `NO_TIMER_AVAIL`); nothing depends on the list's order once a timer has
one record, and `OneRecordPerTimer` is that. `SystickUpdate` is the interrupt,
`TimeUpdate` is `osalTimeUpdate` with its wrap arithmetic and the whole of
`osalTimerUpdate`; `now` counts true milliseconds and is read only by properties.
In `Timers` a running timer is a due time and nothing lingers.

`Calendar` is the arithmetic of `osal_ConvertUTCTime` and `osal_ConvertUTCSecs`
(`MonthLength` with its shift at August, the leap years, the loops that count years
and months away), driven over days.

### Keys, door, alarm, buzzer: `CbTimers`, `CbTimerTask`, `HalKey`, `Door`, `KeyReports`, `MCDoor`, `Door_proofs`

The drivers are records with operators, the keys' in `HalKey`, the buzzer's at the head of
`Door`; `Door` composes them under the scheduler's
priorities: Hal (buzzer before keys), CbTimer, then the application with its
messages before its events. The handler of the server's `OPEN!` has two halves
that share no state: `Door` has the alarm, `Relay` the relay. The contact may
move before the first debounced reading, which the program does not report, and
between the poll and the reading of one pass, which it may never read again:
`early` and `misread` are true where this has happened, and `DoorIsKnown` is
claimed for the rest. `held`, `settled`, `early` and `misread` are history variables.

A touch for which `osal_CbTimerStart` finds no slot fails the assertion of
`HalKeyHandle`: `AssertionFails` is the reset, after which everything starts as in
`Init` but with the pins as they are. `KeyReports` allows this (`Restart`), and what
was not handed over is lost with it.

`CbTimerTask` is the table of slots for clients that do anything at any time, also
from within a callback, where `Door` has the two keys only; its proofs are in `Services_proofs`.

### LEDs and relay: `Relay`, `LockPulse`, `Relay_proofs`

`HAL_OPEN_LOCK` is `HalLedBlink(HAL_LED_Relay, 1, 50, 1000)`: the relay is one of
the LEDs that share the update event and its timer. A pass of the main loop adds all
its time to the clock at once (`Tick`, up to `MaxPass`), and the LEDs are updated
after it. `sts->next` is a value of the 32-bit clock. One that lies past the wrap is
smaller than now and over at once; one that an update jumps over together with the wrap is
again far ahead, and the LED stays as it is: its wait is then cut to 16
bits, so that it is looked at again and again until the clock gets there, or, if
nothing remains of the wait, not before another LED is blinked. `astray` notes the LEDs
whose `next` the clock does not reach before it wraps, `across` that the relay was one
of them since the last request. `LockPulse` is what the lock is to do. It allows the pulse
of such a request, and no other, to end at any time or not before the next one,
which may find the relay on and is served as any other. The other LEDs are set and
blinked at any time, which covers every callback that does so.

In `Door` and `Relay` time passes in units, and only while the Hal and CbTimer
tasks have nothing to do: they are served first after each update, and their handlers
take microseconds, every timer 50 ms and more. The application may be late by any number of
units (`Relay`, and `Door` up to `MaxMsgs` waiting reports).

### The link: `SerialLine`, `ByteChannel`; `AtLines`; `WsFrames`; `KeepAlive`; `MCLink`; `Parts_proofs`

* `SerialLine` is one UART with its two rings, the interrupt, the
  FIFO of bytes to send and the Hal task, cut at each access to what the interrupt
  shares: `HalUartGet` stores the tail one past the end before it wraps it, and
  as built reads the byte after that. `ByteChannel` delivers in order, each byte
  once, unless it fails and restarts.
* `AtLines` takes bytes to lines and `+IPD` data, with the heap blocks that pass from
  the driver to the HCI task. A character is a value; the digits of a head are one.
* `WsFrames` is the loop of `onSocketRxData` over the frames of a segment at the
  code's own offsets, with `WebSocketSend`, `WebSocketClose` and the callback of the
  application that may close the websocket from within the loop.
* `KeepAlive` is the heartbeat and the timeout of the application with their flags,
  which stopping a timer does not take back, and the texts that wait for the HCI task.

### The memory: `OsalFifo`, `ByteQueue`; `Heap`, `Allocator`

`OsalFifo` has the pages with their heads and tails, and a heap that may refuse.
`Heap` has the blocks of `umm_malloc.c`: the list of all blocks with the mark of
the free ones, and the list of the free ones, which lies where a taken block has
its data. So a function that forgets a link, or moves too little, overwrites
data in the model as it would in the code.

### What survives: `Credentials`; `Snv`, `NvStore`; `Parts_proofs`

`Credentials` has the three pages of the application, written word by word. The
handlers that write are a list of steps (`job`), and the power may fail between
any two or within an erasure, which leaves a page partly erased. `Snv` turns the
calls of `osal_snv.c` into plans of single flash operations in the same way, and
its recovery is modelled step by step, so that it can be cut, too. Failed
verifications (`failF`) are among the faults. A word read as what it is not, or
beyond its page, is an error of the model.

### Conversions: `Numbers`

The operators of `stringx.c` and `_ltoa` on sequences of characters, modulo the
width of the build's integers.

### Several parts in one module: `MCServices`, `MCStorage`, `MCLink`

These parts do not call each other in what is modelled: what one takes from another
(a page, a block, a byte) is arbitrary in its module. `MCServices`, `MCStorage` and
`MCLink` therefore choose one `part` in `Init` and let only that one move. A
run goes through every behaviour of every part, and through no product of
them, and its properties name the part they speak of. Of several invariants of a
component the conjunction is checked: `ServicesSound`, `StorageSound`, `LinkSound`,
`AllArrives`, `ConversionsHold`; each conjunct has its comment in the
component's module.

## 3. The runs

| run | module | instance | states | properties |
|---|---|---|---|---|
| `kernel` | `Osal` | 3 tasks, 3 buffers, 1 flag | 27 thousand | `NoStrandedMessage`, `BufferOwnership`, `MailboxFifo`, `Delivery` |
| `turns` | `WiFiLock` | module speaks in turn, 6 disturbances, no keys | 11 thousand | `AssertionsHold`, `TransferSettles`, `NoCheckWithoutTarget` |
| `crossing` | `WiFiLock` | everything crosses, 2 disturbances, both keys, restarts | 2.5 million | `WebSocketFollowsSocket`, `DataToOpenSocket`, `OneConnection`, `CommandsInPlace`, `ShadowSettles`, `SessionOrder` |
| `live` | `WiFiLock` | in turn, 2 disturbances, both keys, restarts | 25 thousand | `EventuallyOnline`, `PairingEnds`, `LongPressPairs`, `ClosingCloses` |
| `timers` | `OsalTimers` | 2 timers, 3 blocks, byte 2, counter 5, 11 ms | 278 thousand | `TypeOK`, `OneRecordPerTimer`, `ClockKeepsTime`, `TimersKeepContract` |
| `door` | `MCDoor` | 2 slots, both keys bouncing, beeps, `OPEN!`, restarts | 2.2 million | `DriversSound`, `DoorIsKnown`, `KeysAreReported` |
| `relay` | `Relay` | 2 LEDs, a slow and a fast blink, a clock that jumps and wraps | 33 thousand | `RelayAtRest`, `OneExactPulse`, `GateReopens` |
| `services` | `MCServices` | see below | 974 thousand | `ServicesSound`, `FifoIsQueue`, `HeapAllocates`, `IsQueues`, `CalledInTime`, `ConversionsHold` |
| `storage` | `MCStorage` | see below | 1.3 million | `StorageSound`, `OldNewOrNothing`, `IsStore` |
| `link` | `MCLink` | see below | 354 thousand | `LinkSound`, `RingsAreChannels`, `AllArrives`, `OnlyTheSilent` |
| `disconnecting` | `WiFiLock` | violated, see 5 | | `DisconnectFollows` |
| `frames_joined` | `MCLink` | violated, see 5 | | `DecodedAsSent` |

What they show:

* **kernel.** Whatever handlers and interrupts do, a message in the queue is always
  announced to its addressee, buffers are linked once, each task sees a FIFO, and
  a message is received if handlers return and the tasks above fall idle. Both
  premises of `Delivery` are needed: a handler that keeps sending to itself never
  leaves its loop, and priorities are strict.
* **turns, live.** If the module waits for the firmware to work off each line,
  then lost connections, refusals, timeouts, a server that closes and a phone that
  gives up fail no assertion (with nobody at the door) and leave nothing to be sent;
  of the flags `Rx` may be left, on an open socket only (see 5). The lock gets back online
  every time; with the keys, a pairing that the module has begun ends, and a long press
  is obeyed whatever the connection was doing, unless it meets a transfer (see 5). A press
  whose message still waits when a failed assertion restarts the lock is lost with it.
* **crossing.** If lines, commands, timers and keys cross freely, assertions do fail
  (see 5), but what the firmware then believes is still true whenever things have
  settled: the websocket follows the socket, data reaches open sockets only, the
  module is never told to open a second connection, no command is ever sent to the
  server as payload, and the callbacks come in the order of `Session`.
* **timers.** See 6.
* **door.** A slot of the callback timers may be freed with its event pending and
  taken by the other key, whose callback is then called at once; the run shows
  that this never mixes up the keys' notes, and that a key that is noted can always
  be stopped. What it does cost is slots (see 5).
  Whatever beeps replace each other, the buzzer is never left sounding.
* **relay.** However the other LEDs restart the shared timer, and however far the
  clock jumps in a pass, the relay's pulse ends with the first update at which
  `PulseTime` is over, and the gate keeps the next request away from it. A pulse that
  meets the wrap of the clock may be shorter or stay on (see 5); the request after it
  is served as any other, and the gate always opens again.
* **services.** The FIFO is a queue of bytes whatever the heap refuses, and its
  length is right after a refusal. Three clients of the heap allocate, resize and
  free in any order: both lists stay as `umm_integrity.c` wants them, no two free
  neighbours remain, and memory is refused only where no run of blocks is long
  enough. The linked lists of messages are queues. A callback timer is called
  when it has expired, or when it took a slot whose event was left set, and never
  forgotten. Every day from 2000 to 2136 converts to its date and back; every
  number of 16 bits to its text and back.
* **storage.** The power fails once in the credentials, and is cut or fails to
  verify twice in the store, at any step, those of a recovery included (but a cut
  erasure never leaves a second active page, see 5). A stored
  text is the old one, the new one or none; a password is never newer than the name of
  the network it is tried with; an item of the store reads as the last value that was
  completely written, or as the one whose write was cut, and stays it.
* **link.** A byte that the interrupt has taken reaches the line assembly in its order
  and once, whatever access it interrupts, or the assertion of an overflow
  resets the device; the same for what is sent, and what was counted as room is still
  there when it is used. Lines and data are told apart whatever they look like. Each
  frame of a segment is heard while the websocket is open, and none is sent after a
  close. A server is left for silence only if it kept silent for the whole
  time and was asked, and then always.

### Bounds, and why they are enough

* `Budget` counts what goes wrong outside (refused or failed commands, lost access
  point, closing server, SmartConfig timing out, keys pressed). Two let one
  disturbance hit the recovery from another one; every unfinished recovery of the
  code is one command or one timer deep. `turns` affords six. After the budget
  the outside is well behaved, which is what lets `live` ask for getting online.
* `Orderly = FALSE` puts no bound on crossing; queues are bounded by the dialogue of
  the commands under way.
* `kernel`: with three buffers, two messages of one task surround a third of another,
  the case `osal_msg_extract` has to get right; three tasks have one above and one
  below the middle. The safety properties are proved for every size.
* `timers`: a byte of 2 makes timeouts of 4 borrow; a counter of 5 wraps twice in 11
  ms with a lag of 3; a third block lets a stopped record linger while the two
  timers run. Proved for every size.
* `door`: `Debounce` 1, `AlarmDelay` 2, `LongTouch` 3 keep the order of 50 ms and
  2000 ms, and all three can meet in one unit; with 2 slots each key finds one, takes
  over one that was freed with its event set, or finds none and restarts. Proved
  for every number of slots and all delays.
* `relay`: pulse 2 + 2, gate 6, as 500 + 500 ms and 5000 ms; the fast blink of the
  other LED steps in the middle of the pulse, the slow one outlasts it. A pass of up to 3
  jumps over the end of a pulse and over the clock's wrap at 16, before, in or after a
  request; a wait of 4 wraps four times in a round of the clock, so that a wait cut to
  nothing occurs. All LEDs but the relay are alike. `GateTime >= 2 * PulseTime +
  MaxPass - 1` is an assumption: a pass of the main loop takes less than 4 s.
* `services`: three pages of two bytes are filled, freed with room in them and
  used again with what they held. Seven blocks of the heap, five to give, make
  holes between three clients, and the sizes 4, 5, 13 and 21 lie on both sides of the
  ends of one, two and three blocks. Four messages let one be taken out of the
  middle of a queue. `LastDay` is what 32 bits of seconds reach; each day is
  taken at another time of the day (`Stride`). The texts have up to five characters
  with signs, prefixes, both cases and what is neither.
* `storage`: words of two characters, a name that fills its page, texts that do not
  fit; a store of two pages with two items of one and two words, where a third
  write compacts. `SYMMETRY` swaps the two values of the items, which no
  action tells apart. The items fit a page, as the clients' must (see 5).
* `link`: rings of 4 and 3 slots wrap twice with 8 bytes in and 5 out; one byte may
  come inside `HalUartGet`, which suffices to fill the slot that is being read;
  three lines or packets follow each other in every order; three frames are joined
  into one segment. `HbpDelay` 6, `CloseDelay` 12 and answers in up to 4 keep the order of 30 s,
  60 s and a server in time, and answers meet both expiries.

### Fairness, and why the code justifies it

* `Osal`: `WF(Kernel)`: the main loop and the handlers go on. Nobody need send.
* `WiFiLock`: `WF` of the tasks (the main loop), `WF(Restart)` (the watchdog-like
  reset of the assertion handler), `SF` of each running timer (a timer that runs
  expires, though it waits for quiet again and again), and `SF` of what the
  outside does of itself: a module that answers, a server that accepts. Disturbances
  have no fairness, nor has `PairingTimeout`, which counts as one.
* `Relay`: `WF(HalLedEvent)` (the main loop), `SF(Tick)` and `SF(OpenLockEnable)`:
  LEDs that are set again and again delay time and the application without
  stopping them.
* `MCLink`: `WF` of the Hal task, of the transmit interrupt while it is enabled, and of
  the reset (`SerialLine`); of the poll and of the two messages of the HCI task
  (`AtLines`); of time, and of the tasks that serve the flags and the texts
  (`KeepAlive`). The module, the server and the receive interrupt owe nothing.

No other run assumes fairness. `CHECK_DEADLOCK FALSE` is set where the system may
really stop: with crossing lines a processor may wait for a line that was
answered differently, and nothing retries (finding `disconnecting`); and in `services`
and `link`, whose bounded inputs come to an end.

## 4. The outside world

`Esp8266` is external. It has the dialogues of `src/documents/log-*.txt`: echo and answer of each
command, the lines the module says of itself (`WIFI DISCONNECT`, `CLOSED`,
`+IPD`, SmartConfig's stages), `busy p...`. The server accepts or refuses
the handshake, answers a close frame or closes by itself, and may send a request.
A module that joins its stored access point by itself when it boots is not
modelled: the firmware's state handler has no case for it.

## 5. Findings, and known behaviour

Two runs are violated; `findings` in `PROJECT.json` quotes the comment of the code
that each contradicts.

| run | what happens |
|---|---|
| `disconnecting` | `AT+CWQAP` on a connection just lost is answered by `OK` alone; "expected to received WIFI DISCONNECT later on" (`hci_wifiatcop.c:453`) never comes true and the lock stays offline. |
| `frames_joined` | Of the second frame of a segment the end is computed from the start of the segment (`websocket.c:192`): the text is handed over with what follows it, and a zero is written into the frame before. |

The modules have more behaviours that a reader of the comments would not expect. They
are reachable in the models, the properties of the passing runs are stated
so as to allow them and nothing more, and no run of its own is kept for them:

* Opening the door during pairing asks for pairing again: the target outlives the
  pairing, SmartConfig is started without its struct (`hci_wifi.c:763` asserts). In
  `crossing` this is a restart.
* `CLOSED` of the server crosses `AT+CIPCLOSE`: `hci_wifi.c:748` asserts; a restart in
  `crossing`.
* `osal_clear_event` clears the event word, but not the copy a handler returns: the
  check event comes back for a target that is gone (`hci_wifi.c:889`).
* `osal_stop_timerEx` does not take back an event that is set: the door alarm sounds
  although the door has just opened (`app_lock.c:214`), and the websocket is closed
  though the server's answer has just been handed over (`app_lock.c:657`).
  `OnlyTheSilent` speaks of the moment in which the time runs out for this reason.
* A callback timer that takes a slot freed with its event set is called at once
  (`osal_cbtimer.c:361`); `CalledInTime` names that case. The keys cannot be
  confused by it (`door`). But such a slot is not freed after its callback, since its
  timer runs (`osal_cbtimer.c:201`), though the driver of the keys has forgotten it. A
  door whose contact moves with every debounced reading, while the button is held for just
  as long as a long touch takes, again and again, can so take about
  `LongTouch / (2 * Debounce) + 2` slots, 22 with the 2000 ms and 50 ms of this build.
  There are 15: then the assertion at `hal_key.c:91` fails and the lock restarts. `Door`
  has that restart for every number of slots, and the run `door` with 2.
* `osal_msg_enqueue_max` puts a message into an empty queue whatever `max` is, and with
  0 counts on from 255 (`osal.c:938`); `max` is 2 in `services`.
* A frame that is not a whole unmasked text of at most 125 bytes closes the websocket,
  where the comments say "ignore otherwise" (`websocket.c:182`).
* A password of more than 32 characters is not stored, next to "Saved to flash."
  (`app_lock.c:132`, `601`). A second name in one pairing leaks the first
  (`app_lock.c:545`), which no model shows.
* A pulse of the relay that meets the wrap of the clock (after 49 days) is cut short when its
  end lies past the wrap (`hal_led.c:307`). When one update jumps over its end and the wrap,
  the relay stays on and the gate opens again with it: until the next request, or until
  the clock gets to `sts->next` 49 days later. Meanwhile each cut wait (line 347) looks
  at it in vain, or no timer is started, if 2^16 divides what remains.
* When the head of a `+IPD` packet and its data come in one run of the Hal task,
  `Receiving` is handled after the data (`hci_wifi.c:60`, `121`) and sets `Rx` for good. The
  state controller then ignores every target as long as the socket is open
  (`hci_wifi.c:978`); the lock itself never closes it, only the server or a
  lost connection does. `TransferSettles` allows this and no other flag.
* A long press that meets a transfer is not obeyed: its check is used up while `Tx` or `Rx`
  is set, and neither the end of the transfer (`hci_wifi.c:115`, `491`) nor anything else
  asks for it again. The credentials are erased and the pairing's struct stays, but the lock
  goes on online until the socket closes or the button is pressed again. If the
  data is a close frame, its answer even replaces the target. `LongPressPairs` excepts a press
  that meets a transfer, and only that.
* A long press that meets the end of a successful pairing makes a failure of it, and
  SmartConfig is started in a module that is still joined. `ShadowSettles` says nothing
  of the access point while the firmware waits for the phone.
* Nothing but the server closes a websocket that is being closed (`websocket.c:371`); the
  lock stays offline with a server that never answers. `ClosingCloses` assumes one that does.
* `osal_snv.c`: item 255 is taken for a neighbour of itself and lost by the first
  compaction (line 569); an item of 252 bytes and more is read from its header (line
  456); after a compaction a write does not ask for room, and would write past the
  page (line 809); two active pages, which one cut moment of an erasure can leave, are
  both erased (line 230). The instance has none of these, and the program calls
  none of it.

Known and stated by a passing property: the clock loses one millisecond in each
round of the 16-bit tick counter (`ClockKeepsTime`), since `osal_clock.c:153` counts
`UINT16_MAX` where 2^16 is meant.

## 6. What is proved

For every value of the constants, by `tlapm`, from the named assumptions on them
(`OsalAssumption`, `TimersAssumption`, `KeepAliveAssumption`, `DoorAssumption`,
`RelayAssumption`, `EspAssumption`, `KeysAssumption`, `LinkAssumption`, `CbTimerAssumption`,
`CredentialsAssumption`, `FifoAssumption`, `OsalQueueAssumption`, `HeapAssumption`), which TLC evaluates in the runs:

* `Osal_proofs`: `TypeCorrect`, `OwnershipHolds`, `NobodyStranded`
  (`Spec => []BufferOwnership`, `Spec => []NoStrandedMessage`). The inductive
  invariant is `TypeOK /\ BufferOwnership /\ NoStrandedMessage`. Ownership is
  needed for the step of `Receive`: only because a buffer is linked once, taking it
  out leaves every other message of the task announced; and `Deallocate` must not
  free what is linked. The two lemmas on the queue (`SendQueue`, `ExtractQueue`) say
  which positions an append or an extraction leaves. Stranding is excluded since the
  one moment at which a message is not announced in the event word, between
  `osal_run_system`'s taking it and the handler's last receive, is covered by the
  handler's own copy.
* `MailboxesAreFifo`: `Spec => MailboxFifo`, the refinement of `Mailbox`. A task's mailbox is
  selected from the shared list by a recursive function (`Selected`), and what that
  computes is proved by induction over the list (`Counting`, from the library's theorem that
  a set of numbers has a least one): appending a message appends it to one mailbox
  (`SelectedMore`), extracting the first one for a task takes the head of its mailbox
  (`HeadTaken`) and no other task misses it (`NotMissed`). `BufferOwnership` is the invariant it needs:
  the header of a buffer that was linked twice would be rewritten where it still waits.
* `Services_proofs` proves of the services in the company of the run `services` what their
  sections below prove of each alone: `FifoServes` (`ServicesSpec => FifoIsQueue`), `QueuesServe`
  (`max # 0 => (ServicesSpec => IsQueues)`), `CallsServe` (`ServicesSpec => CalledInTime`) and, with
  the heap, `HeapServes` (`ServicesSpec => HeapAllocates`) and `ServicesAreSound`
  (`ServicesSpec => []ServicesSound`). A step of the company is a step of one service, and the others
  stand still.
* `Services_proofs`, the heap: `HeapServes` is the refinement of `Allocator`, for any number and size of
  blocks, any clients and requests. The invariant `HeapInv` has the set `A` of the blocks at which
  chunks begin as a witness. `InOrder` says that these are linked both ways in order of their place
  (`Chunked`) and that the free ones among them are a ring through block 0 (`Ring`, with the
  function that numbers them as a witness); `Merged`, that no two free ones are neighbours. The rest
  is that the taken chunks are the clients', with their data and of the size they asked for.
  Splitting, joining and unlinking are each proved to lead from such a heap to such a heap with one
  chunk more or less; `Malloced` and `Resized` say what `umm_malloc` and the five
  branches of `umm_realloc` leave, and that every other chunk is the same to its client
  (`SameChunk`). What a client writes changes no list (`WriteHeap`), as it stays between the head of its
  chunk and the next one. That both lists, followed along their links, meet exactly the chunks and the free
  ones is the lemma on walks that the linked lists of messages use, too (`WalkFinds`). A refusal is
  justified by `NoRoom`: a run of cells that nobody has lies within one free chunk,
  since two would have been joined.
* `Services_proofs`, the byte FIFO: `ByteFifoIsQueue` (`Fifo!Spec => Fifo!FifoIsQueue`, the
  refinement of `ByteQueue`) and `ByteFifoPages` (`PagesAccounted` and `LengthIsBytes`), for any
  heap, page size and bytes. The invariant `FifoInv` has the list of pages as a witness (`Listed`): the
  pages in use, linked from the handle's first to its last, each with bytes to be
  read. `PagesFrom` and `Bytes` follow the links by recursion, and mean something only if these
  never come back, for freed pages too, which keep their link; `Ranked` says so (a
  link leads to a page that was allocated later), and from it `PagesJoin` and `BytesJoin` show by
  induction over the rank that the two functions exist. Then there are two facts on what is joined along
  a list: it is the same if the pages are (`SameAlong`, for a get, which changes the first page
  only), and longer by a byte if the last page is (`LongerAlong`, for a put).
* `Services_proofs`, the linked lists: `LinkedListsAreQueues` (`Queue!Spec => Queue!IsQueues`, the
  refinement of `MsgQueues`) and `LinkedListsAreSound` (`ListsAreSound` and `MailIsAnnounced`), for any
  messages and tasks. The invariant `QueueInv` has the list of each queue as a witness (`AllIn`): its
  messages are different (`Distinct`), each linked to the next and the last to none (`Chained`), no
  message is in two, one that is in none has no link and no task. `WalkedAlong` is the induction: a walk along
  such links meets exactly the list, and `CountOf` says that no list is longer than there are messages, so the
  walk ends. Then there are three facts on links: a list is still linked after what an append, a push and
  an unlinking write (`LinkedLast`, `LinkedFirst`, `LinkedAround`, the last one also for a message in the
  middle, for which `osal_msg_receive` must know the one before it). The third needs that no message
  is twice in a list. That a free message has an empty link is
  what `osal_msg_enqueue_max` needs, since it does not write it. `LinkedListsAreQueues` excludes a
  `max` of 0 (see 5), `LinkedListsAreSound` does not.
* `OsalTimers_proofs`: `TypeCorrect` and `OneRecord` from `TypeOK /\
  OneRecordPerTimer` (type correctness includes that a record in the list never has
  0 left, which the update needs to be able to tell an expired timer from one that
  was started with 0).
* `KeepsContract`: `Spec => TimersKeepContract`, the refinement of `Timers`. The
  lemma `CountDownSubtracts` says that the 8-bit shortcut and the 32-bit branch both
  give `max(t - d, 0)`; `Written` says what writing one record does to the due
  times of all timers; then there is one lemma per action. A stopped record is
  invisible to the mapping, so its removal in the next update is no step of `Timers`.
* `KeepsTime`: `Spec => []ClockKeepsTime`. The property speaks of `seen \div Wrap`,
  which no step preserves as such; the invariant `ClockInv` has the number `q` of
  rounds as a witness (`seen = q * Wrap + preSystick` and clock `= seen - q`), and
  `DivOfRounds` gets the quotient back. The assumption `MaxLag < Wrap` (no pass takes
  65 s) is what it rests on.
* `Parts_proofs`, the watch: `TypeCorrect` and `SilenceOnly` of `KeepAlive` (`Spec => OnlyTheSilent`), for every
  pair of delays and every time an answer may take, as long as a heartbeat can be
  answered before the websocket is given up. The invariant is `Typed /\
  (wsState = "HandshakePass" => Measured /\ Asked)`: `Measured` says that the two
  timers of an open websocket measure the silence (`silent + timer = delay`), which
  holds only because a text restarts both; `Asked` that the heartbeat has been
  sent or is about to be, and that a server in time which was asked has not been
  silent for longer than an answer takes. The flag that a stopped timer leaves is why
  both are needed: after it the timers run on, and only the measure tells
  that the next expiry is a whole period away.
* `WiFiLock_proofs`: `TypesHold`, `SocketAndWebSocket`
  (`Spec => []WebSocketFollowsSocket`), for any `Budget`, any keys, crossing or not,
  with the restarts. The invariant is `Typed /\ WebSocketFollowsSocket /\
  Allocated(hci)`; the last, that the pairing's struct is there while it has a
  callback, is what keeps `staged` from outliving it. The state handler changes the HCI's
  record, calls back into the application and goes on with what the callback has
  made of it; the relation `Leads(h, g)` collects what any of these calls keeps
  (the socket's struct, that a pairing stays a pairing, `NoCheck`), and is transitive:
  a handler is then a chain of `Leads` with at most one change of the socket, for
  which `SocketGoes`, `SocketComes` and `SocketOpens` say what the websocket has to do. The table
  of the AT processor is proved once, row by row (`Row`), not once for each line.
* `NoCheckStays`: `Orderly => (Spec => []NoCheckWithoutTarget)`, for every number of
  disturbances and with the keys, which the run `turns` does not have. `Orderly` is
  needed: with crossing lines the property fails (5). It does not empty the event word,
  though: the data of a packet may come while a check is pending, be handled first, and the copy
  that the handler returns brings the check back (`Holding`, `Waiting`). The invariant `Turns`
  says when that can be: only data is then on its way (`OnlyData`), and data
  neither changes nor clears the target (`DataKeepsTarget`), nor posts a state whose
  handler would (`HeadPostsNone`); before any other line the event word is empty.
* `Dialogue_proofs`: `DataReachesOpenSocket` (`Spec => []DataToOpenSocket`),
  `SessionsInOrder` (`Spec => SessionOrder`, the refinement of `Session`) and
  `ConnectionIsOne` (`Spec => []OneConnection`), for any
  `Budget`, any keys, crossing or not, with the restarts. None is a matter of the
  firmware alone: the code trusts that `+IPD` follows `CONNECT` and `OK`, that
  `WIFI GOT IP` follows a join it has asked for, and that nothing of a former connection is
  said in the words of a new one. So the invariant `Dialogue` is that of `SocketAndWebSocket`
  and five parts more:
  * `Module`: the module's state is one of those that `Esp8266` goes through.
  * `Foreseen` looks ahead. What a line means depends on the processor that meets it, and
    that on the lines before it. A context (`Ctx`) is what the AT processor goes by: who it
    is, the connection and socket it has heard of, whether it knows the reason of an
    `ERROR`. A path is a sequence of contexts, each leading to the next by a step of the
    tables (`Takes`); the tables are restated as such steps, and `LineTakes` shows that
    each row of `HciWiFi` is one. `Foreseen` says that every path from here through the
    messages that wait and then the lines on the wire meets only lines its context can
    be in (`Fit`), and ends in a context that the module's state allows (`Ends`). Working off
    a message is then the path's first step, moving a line from the wire to the queue changes no path,
    and a line the module says has only to lead from one end to the next, which
    the lemmas on `Hear` show for each command and event of the module.
  * `Chains` brings what was heard to what is posted. The handler of a posted state runs later,
    with the messages before it; a rule says which messages are due a condition, which
    end it and which make it true, and `Chain` that whoever is due it has a maker
    after the last end, or the condition holds now and nothing before ends it. There are three: a
    `GotIP` finds a connection that is asked for or made, data finds the socket open, and
    while a socket is on its way the task is not in the state from which it opens one.
  * `OpeningLaw`: at most one `AT+CIPSTART` is on its way, and no wish for another is pending
    with it, neither as a flag of the HCI task nor in the copy of its event word.
  * `ConnectionLaw`: a socket's struct needs a connection that is made.

  A path ends where no row takes its line: there the assertion of line 56 fails, and
  nothing follows but the restart. Nothing is assumed about which lines these are.

  `OneConnection` needs more, as `Foreseen` says nothing once a line on the way is one
  that no row takes, while the task may still work off a flag before that line. So
  `Single` looks back instead: no `AT+CIPSTART` is under way while the module has or opens a
  connection (`Owns`), it never does both (`Apartness`), and by `Pledge` whoever owns one has said so:
  its echo is on the wire or in the queue, or the firmware has heard it, and nothing behind
  tells of an end (`Enders`). A task that may open has an empty queue and is in a state in which
  `Chains` gives no socket (`JoinedShut`); so the echo is on the wire, and `OpeningLaw` forbids that.
* `Door_proofs`: `DriversAreSound` (`Spec => []DriversSound`), `DoorStaysKnown`
  (`Spec => []DoorIsKnown`) and `KeysReport` (`Spec => KeysAreReported`, the refinement of
  `KeyReports`). The invariant `Always` has three parts, each kept by itself. `KeysRight`
  says that a noted key owns its slot, that the button owns no other (`OneSlot`), and
  that its slot measures how long it has been down (`Measured`: what is left and `held`
  add up to `LongTouch`). Measuring survives the early callbacks
  only because the button never gets a slot with an event left over: the callback task
  runs before the keys are read again, so that none is there then (`NoneFreed`), and
  in one reading the button comes before the door. The door has no such measure, and
  needs none: its callback reports nothing. `Driven(buzzer)` says that a beep task with no pause has one
  beep, without which the last update would leave the buzzer on. `DoorRight` says that
  the reports in the queue, applied to what the application believes, give the last
  reading.
* `Services_proofs`, the callback timers for any clients: `SlotsAreKept` and `CallsAreDue`
  (`CbTimer!Spec => CbTimer!CalledInTime`). The invariant is the types, `SlotsAreDriven`,
  `ExpiredIsPending` and `CallIsDue`: a slot with a callback and an event has expired or
  was taken with that event. A step of the clients or of a callback is a chain of the
  operations of `CbTimers`, each of which keeps a table lawful (`Lawful`); what is noted of
  the slots is looked at once, at its end.
* `Relay_proofs`: `RelayIsAtRest` (`Spec => []RelayAtRest`) and `RelayImplementsPulse`
  (`Spec => OneExactPulse`), for any LEDs and periods of their blinks (each blink of the
  program is on for half of its period), any length of a pass and any sizes of the clock and
  of a wait, however often they wrap. The invariant is `Typed /\ NoLedOverslept /\ Near(led) /\
  Staged(led) /\ Gated`: the relay is at rest, asked, open or shut again, with what
  remains until `next` and the time since the request adding up, give or take a pass;
  the gate's timer counts from the same moment, and `GateTime >= 2 * PulseTime + MaxPass -
  1` keeps a second request out. `NoLedOverslept` (no LED is due before the shared timer
  fires) is proved with it: the update is on time for the relay because it is for all. Only
  the LEDs in `astray` are excepted from it, and `Staged` has that the relay is never one
  of them without `across`; `Near`, that what remains of the others' waits fits into 16 bits.
* `Parts_proofs`, the serial line: `RoomIsThere`, `TxIsChannel`, `RxIsChannel`, for rings of any
  size and any bytes, and the same of the composition that the run `link`
  checks (`RingsOfTheLink`: `Burst <= 1 => (LinkSpec => RingsAreChannels)`), as it
  does with the watch (`SilenceOfTheLink`). The transmit
  side rests on `TxRoom`: what was counted lies before the tail at each point of the
  count, though the interrupt moves it. The receive side rests on `RxRoom`, that
  inside `HalUartGet` the ring is not full but by the byte that came meanwhile.
  `Burst <= 1` is what makes that enough: with two bytes inside one `HalUartGet` the
  slot that is being read may be filled and its byte lost, and TLC finds it. The
  function is some ten instructions, a byte at 115200 baud takes 87 microseconds.

* `Parts_proofs`, the pages of the network: `TextsStayWhole`, `WritesAreWhole`
  (`Network!Spec => Network!OldNewOrNothing`), `NameComesFirst` and `NothingIsLost`, for
  names, passwords and words of every length and any number of cuts. `CredentialsAssumption`
  says that texts have no NUL and names fit their page (32 bytes, as in IEEE 802.11).
  How a page is read is brought to two lemmas: a page that holds a text and blanks
  is read as the text or as nothing (`ReadMixed`), and blanking some of a page leaves
  what was read or nothing (`ReadBlanked`). The invariant `NetInv` is about what the handler still
  owes. `WordsOwed`: a word belongs to the text that was saved last, and its page holds only that
  text and blanks when its turn comes, as something of the same page comes before it.
  `NameIsFirst`: while words of the password are owed, the former name is gone or is
  going first; without it a cut would leave an old name with a new password. `PairTold` is
  what a reader then finds: a name and a password that were told in this order. `KeepInv`
  adds that nothing is forgotten: what is not in the page is owed, and no erasure
  comes after what it would undo; that the loops reach the end of a page needs its size to be a
  multiple of a word (`WholeWords`). `NothingIsLost` is for texts without a byte of 0xFF
  (`PureTexts`), which `flashReadSSID` takes for a blank; UTF-8 has none.

Only model-checked:

* liveness (`Delivery`, the run `live`, `GateReopens`, `AllArrives`), which is beyond the
  prover;
* `AssertionsHold`, `TransferSettles`, `CommandsInPlace` and `ShadowSettles` of the connected
  lock. `Foreseen` says of a line what it is where it fits, not that some row takes
  it, which line 56's assertion asks; `CommandsInPlace` and `ShadowSettles` also need
  which commands may wait together, of which `OpeningLaw` and `Single` have `AT+CIPSTART` only;
  `TransferSettles` speaks of the queue of frames, which no part of `Dialogue` counts;
* the lines and frames of `LinkSound`, and `StorageSound`, `IsStore`, `ConversionsHold`.
  `Numbers`, `Calendar`, `WsFrames` and `Snv` compute over data with folds and
  recursive functions. The prover cannot use a theorem of induction that takes an operator; what it can use
  is that a set of numbers has a least one (`Counting`), and the proofs of `MailboxFifo`, of
  the byte FIFO, of the linked lists and of the heap show what that takes for each function. These have none yet;
* `ServerIsTold` of `Credentials`, for which no proof has been tried yet.

## 7. Not modelled, and what is abstracted

* Memory: every allocation succeeds in the connected lock; the program asserts
  otherwise. `OsalFifo` and `Heap` have the exhaustion.
* The levels of the link are not composed with the connected lock: `WiFiLock` has lines
  and frames as units on one reliable wire, and `AtLines`, `SerialLine`, `WsFrames` show
  what that unit rests on. A product of their states is out of TLC's reach.
* The handshake's key (base64 of random bytes) is a right or a wrong answer; a frame
  split over segments is not put together by the code either, which closes.
* Timers count from the start of the pass that starts them: in a long pass a timer
  may expire early by its length. `Timers` is stated on the clock for this reason.
* The terminal (`hal_terminal.c`) assembles lines as `hal_atcmdsio.c` does, with one
  owner and without data; the application sends each of its lines to the server as a
  text (`app_lock.c:269`), which is not modelled. The texts that answer the
  server's requests and the colours of the LEDs are wording.
* A `+IPD` packet that is longer than `HAL_ATCMDSIO_IPD_MAX_LEN` comes without its data
  (`pData` NULL, `hal_atcmdsio.c:122`) and the websocket ignores it (`websocket.c:108`). Neither
  `AtLines` nor `WiFiLock` has such packets.
* `osal_bufmgr.c` and `osal_pwrmgr.c` are not reached in this build, `osal_memory.c` is
  replaced by the heap; the poison and the statistics of the heap are switched off.
* `osal_memcpy` and its like, the string comparisons, `md5.c` (the code of the RFC),
  the device id and the interrupt table are pure or thin.
* Three quarters of the lines of the repository are third-party headers and drivers
  (CMSIS, the M051 board support, `stdlib`), which have no logic of this program.
  The program's own C files have about 12 thousand lines.

## 8. What is left

The components of the program are modelled as far as 7 says. What would add
most now is proofs, in this order: `CommandsInPlace` and `ShadowSettles` from `Dialogue`
with a law of each command in place of `OpeningLaw`; `Fit` with a row for every line,
and from it `AssertionsHold` for an orderly module; the server's page of `Credentials` as its
other two.
