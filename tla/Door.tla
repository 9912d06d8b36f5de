-------------------------------- MODULE Door --------------------------------
(***************************************************************************)
(* The button, the door and the alarm: the drivers of the keys and of the  *)
(* buzzer in the Hal task (priority 0), the callback timers (1), and the   *)
(* part of the application (3) that watches the door.  The server's OPEN!  *)
(* and the other beeps come from the connection and are inputs.  OPEN!     *)
(* also pulses the relay, which shares no state with this part.            *)
(*                                                                         *)
(* Time passes in units.  The passes of the main loop that the two upper   *)
(* tasks need are far shorter than any timer, so time passes only when     *)
(* they have nothing to do; the application may be late by any time.       *)
(***************************************************************************)
EXTENDS Integers, HalKey

CONSTANTS
  Idle,         \* no beep task
  Debounce,     \* KEY_DEBOUNCE_TIME
  AlarmDelay,   \* from OPEN! to the alarm
  AlarmBeep,    \* on, off and number of the alarm's beeps
  OtherBeeps,   \* those of the connection's beeps
  MaxMsgs       \* how many reports may wait while time passes

-----------------------------------------------------------------------------
(* The buzzer (src/firmware/hal/hal_buzzer.c).  A beep task is a struct on *)
(* the heap with the times and the counts; its steps are driven by         *)
(* HAL_BUZZER_UPDATE_EVENT of the Hal task, set at once for the first and  *)
(* by a timer for the others.  The state is                                *)
(*   ctrl   the beep task, Idle without one,                               *)
(*   on     whether the PWM output sounds,                                 *)
(*   event, left   the event, and the time its timer has left.             *)

HalBuzzerInit == [ctrl |-> Idle, on |-> FALSE, event |-> FALSE, left |-> 0]

BeepTasks == [on_time : Nat, off_time : Nat, beep_cnt : Nat, on_cnt : Nat, off_cnt : Nat]

BeepTask(onTime, offTime, beeps) ==
  [on_time |-> onTime, off_time |-> offTime,
   beep_cnt |-> IF offTime = 0 THEN 1 ELSE beeps, on_cnt |-> 0, off_cnt |-> 0]

(* The former task, its event and its timer go first. *)
HalBuzzerBeep(b, onTime, offTime, beeps) ==
  IF onTime > 0 /\ beeps > 0
    THEN [ctrl |-> BeepTask(onTime, offTime, beeps),
          on |-> FALSE, event |-> TRUE, left |-> 0]
    ELSE [ctrl |-> Idle, on |-> onTime > 0, event |-> FALSE, left |-> 0]

HalBuzzerUpdate(b) ==
  LET c == b.ctrl
  IN  CASE c.on_cnt <= c.off_cnt ->
             [ctrl |-> [c EXCEPT !.on_cnt = @ + 1],
              on |-> TRUE, event |-> FALSE, left |-> c.on_time]
        [] c.on_cnt > c.off_cnt /\ c.on_cnt >= c.beep_cnt ->
             [ctrl |-> Idle, on |-> FALSE, event |-> FALSE, left |-> b.left]
        [] OTHER ->
             [ctrl |-> [c EXCEPT !.off_cnt = @ + 1],
              on |-> FALSE, event |-> FALSE, left |-> c.off_time]

(* One unit of time passes. *)
HalBuzzerTick(b) ==
  [b EXCEPT !.left = IF @ = 0 THEN 0 ELSE @ - 1,
            !.event = @ \/ b.left = 1]

-----------------------------------------------------------------------------

ASSUME DoorAssumption ==
  /\ NumCbTimers \in Nat \ {0} /\ NoCallback \notin Keys
  /\ {Debounce, LongTouch, AlarmDelay, MaxMsgs} \subseteq Nat \ {0}
  /\ {AlarmBeep} \cup OtherBeeps \subseteq (Nat \ {0}) \X Nat \X (Nat \ {0})
  /\ Idle \notin BeepTasks

VARIABLES
  pressed,      \* the keys that are down: the pins
  preKeyState,  \* the pins HalKeyPoll saw last
  key,          \* the driver of the keys, see HalKey
  debounce,     \* HAL_KEY_EVENT: whether it is set, and what its timer has left
  buzzer,       \* the driver of the buzzer
  app,          \* isDoorOpen, and the event and timer of DoorOpenAlarm
  settled,      \* the keys have been read once
  early,        \* the door moved before that, and has not been reported since
  misread,      \* the last reading was not what the poll of its pass saw
  held          \* for how long the button has been read as down

vars == <<pressed, preKeyState, key, debounce, buzzer, app, settled, early, misread, held>>

Init ==
  /\ pressed \in SUBSET Keys
  /\ preKeyState = {}
  /\ key = HalKeyInit
  /\ debounce = [event |-> FALSE, left |-> 0]
  /\ buzzer = HalBuzzerInit
  /\ app = [isDoorOpen |-> Door \notin pressed, event |-> FALSE, left |-> 0]
  /\ settled = (Door \notin pressed) /\ early = FALSE /\ misread = FALSE
  /\ held = 0

-----------------------------------------------------------------------------

(* A key moves, perhaps bouncing.                                          *)
Touch(k) ==
  /\ pressed' = (pressed \ {k}) \cup ({k} \ pressed)
  /\ early' = (early \/ (k = Door /\ ~settled))
  /\ UNCHANGED <<preKeyState, key, debounce, buzzer, app, settled, misread, held>>

(* Each pass of the main loop polls; a change starts the debouncing anew.  *)
HalKeyPoll ==
  /\ pressed # preKeyState
  /\ preKeyState' = pressed
  /\ debounce' = [debounce EXCEPT !.left = Debounce]
  /\ UNCHANGED <<pressed, key, buzzer, app, settled, early, misread, held>>

HalReady == debounce.event \/ buzzer.event
CbReady  == key.cb.events # {}

(* The Hal task: the buzzer comes before the keys. *)
HalBuzzerEvent ==
  /\ buzzer.event /\ buzzer.ctrl # Idle
  /\ buzzer' = HalBuzzerUpdate(buzzer)
  /\ UNCHANGED <<pressed, preKeyState, key, debounce, app, settled, early, misread, held>>

(* The handler reads the pins again: in the pass that has just polled them,*)
(* but they may have moved in between.                                     *)
HalKeyEvent ==
  /\ debounce.event /\ ~buzzer.event
  /\ SlotsSuffice(key, pressed)
  /\ debounce' = [debounce EXCEPT !.event = FALSE]
  /\ key' = HalKeyHandle(key, pressed)
  /\ settled' = TRUE
  /\ early' = (early /\ (Door \in pressed <=> Door \in key.keyState))
  /\ misread' = (pressed # preKeyState)
  /\ held' = IF Button \in key.keyState \cap pressed THEN held ELSE 0
  /\ UNCHANGED <<pressed, preKeyState, buzzer, app>>

(* Without a slot its assertion fails, and HAL_ASSERT_RESET restarts all.  *)
AssertionFails ==
  /\ debounce.event /\ ~buzzer.event
  /\ ~SlotsSuffice(key, pressed)
  /\ preKeyState' = {}
  /\ key' = HalKeyInit
  /\ debounce' = [event |-> FALSE, left |-> 0]
  /\ buzzer' = HalBuzzerInit
  /\ app' = [isDoorOpen |-> Door \notin pressed, event |-> FALSE, left |-> 0]
  /\ settled' = (Door \notin pressed) /\ early' = FALSE /\ misread' = FALSE
  /\ held' = 0
  /\ UNCHANGED pressed

CbTimerEvent ==
  /\ CbReady /\ ~HalReady
  /\ key' = CbTimerProcessEvent(key)
  /\ UNCHANGED <<pressed, preKeyState, debounce, buzzer, app, settled, early, misread, held>>

-----------------------------------------------------------------------------

(* appLock_ProcessOsalMsgKey for all the messages of a run, as far as the  *)
(* door goes: the last report tells whether it is open, and a report of    *)
(* its opening stops the alarm's timer and the buzzer.                     *)
DoorReports(msgs) == {i \in DOMAIN msgs : msgs[i][1] = Door}

DoorOpens(msgs) == \E i \in DoorReports(msgs) : msgs[i][2] = "Leave"

OpenAfter(msgs, isDoorOpen) ==
  IF DoorReports(msgs) = {} THEN isDoorOpen
  ELSE \E i \in DoorReports(msgs) :
         msgs[i][2] = "Leave" /\ \A j \in DoorReports(msgs) : j <= i

AppMessages ==
  /\ key.msgs # <<>> /\ ~HalReady /\ ~CbReady
  /\ app' = [app EXCEPT !.isDoorOpen = OpenAfter(key.msgs, @),
                        !.left = IF DoorOpens(key.msgs) THEN 0 ELSE @]
  /\ buzzer' = IF DoorOpens(key.msgs) THEN HalBuzzerBeep(buzzer, 0, 0, 0) ELSE buzzer
  /\ key' = [key EXCEPT !.msgs = <<>>]
  /\ UNCHANGED <<pressed, preKeyState, debounce, settled, early, misread, held>>

(* Messages come before events, and DoorOpenAlarm is the last event.       *)
AppAlarm ==
  /\ app.event /\ key.msgs = <<>> /\ ~HalReady /\ ~CbReady
  /\ app' = [app EXCEPT !.event = FALSE]
  /\ buzzer' = HalBuzzerBeep(buzzer, AlarmBeep[1], AlarmBeep[2], AlarmBeep[3])
  /\ UNCHANGED <<pressed, preKeyState, key, debounce, settled, early, misread, held>>

(* The server's OPEN!, handled in the HCI task. *)
OpenRequest ==
  /\ ~HalReady /\ ~CbReady
  /\ ~app.isDoorOpen
  /\ app' = [app EXCEPT !.left = AlarmDelay]
  /\ UNCHANGED <<pressed, preKeyState, key, debounce, buzzer, settled, early, misread, held>>

(* onWiFiConnected, onWiFiPairingWaiting and WsOpenedBeep. *)
OtherBeep(b) ==
  /\ ~HalReady /\ ~CbReady
  /\ buzzer' = HalBuzzerBeep(buzzer, b[1], b[2], b[3])
  /\ UNCHANGED <<pressed, preKeyState, key, debounce, app, settled, early, misread, held>>

(* One unit of time passes. *)
Counted(timer) ==
  [timer EXCEPT !.left = IF @ = 0 THEN 0 ELSE @ - 1, !.event = @ \/ timer.left = 1]

Tick ==
  /\ ~HalReady /\ ~CbReady /\ preKeyState = pressed
  /\ Len(key.msgs) < MaxMsgs
  /\ key' = [key EXCEPT !.cb = CbTimerTick(@)]
  /\ debounce' = Counted(debounce)
  /\ app' = Counted(app)
  /\ buzzer' = HalBuzzerTick(buzzer)
  /\ held' = IF Button \in key.keyState /\ held < LongTouch THEN held + 1 ELSE held
  /\ UNCHANGED <<pressed, preKeyState, settled, early, misread>>

Input == (\E k \in Keys : Touch(k)) \/ OpenRequest \/ (\E b \in OtherBeeps : OtherBeep(b))

Program ==
  \/ HalKeyPoll \/ HalBuzzerEvent \/ HalKeyEvent \/ AssertionFails
  \/ CbTimerEvent \/ AppMessages \/ AppAlarm \/ Tick

Next == Input \/ Program

Spec == Init /\ [][Next]_vars

-----------------------------------------------------------------------------

TypeOK ==
  /\ pressed \subseteq Keys /\ preKeyState \subseteq Keys
  /\ key.cb.data \in [Slots -> Keys \cup {NoCallback}]
  /\ key.cb.left \in [Slots -> 0 .. LongTouch] /\ key.cb.events \subseteq Slots
  /\ key.keyState \subseteq Keys /\ key.tidEn \subseteq Keys
  /\ key.tid \in [Keys -> Slots]
  /\ debounce \in [event : BOOLEAN, left : 0 .. Debounce]
  /\ buzzer.on \in BOOLEAN /\ buzzer.event \in BOOLEAN /\ buzzer.left \in Nat
  /\ app \in [isDoorOpen : BOOLEAN, event : BOOLEAN, left : 0 .. AlarmDelay]
  /\ {settled, early, misread} \subseteq BOOLEAN /\ held \in 0 .. LongTouch

(* Where the driver of the keys believes that a long-touch timer runs, its *)
(* slot is that key's and its callback is still to come (hal_key.c asserts *)
(* that it can be stopped); although a slot may be freed with its event    *)
(* set, taken by the other key and called too early.                       *)
KeysOwnTheirSlots ==
  \A k \in key.tidEn :
    LET i == key.tid[k]
    IN  key.cb.data[i] = k /\ (key.cb.left[i] > 0 \/ i \in key.cb.events)

(* HalBuzzerUpdate never runs without a beep task (its assertions), and    *)
(* the buzzer never goes on sounding with nothing to end it, whichever     *)
(* beeps replace or cancel each other.                                     *)
BuzzerIsDriven ==
  /\ buzzer.ctrl # Idle <=> buzzer.event \/ buzzer.left > 0
  /\ buzzer.on => buzzer.ctrl # Idle

(* When the keys have been still and all is handled, the application knows *)
(* whether the door is open, however its contact has bounced.  It is wrong *)
(* only for a door that moved before the first reading, until its next     *)
(* report, and after a reading that no poll has seen, until the next one.  *)
Still == pressed = preKeyState /\ ~debounce.event /\ debounce.left = 0 /\ key.msgs = <<>>

DoorIsKnown == Still /\ ~early /\ ~misread => (app.isDoorOpen <=> Door \notin pressed)

(* The alarm's timer runs only while the door is closed, as far as the     *)
(* application has been told: an OPEN! that meets a door that has just     *)
(* been opened starts no alarm once the report of the door is handled.     *)
AlarmWaitsForDoor == app.left > 0 => ~app.isDoorOpen

(* Keys, buzzer and alarm share the callback timers and the door, and each *)
(* of the three is sound whatever the others do.                           *)
DriversSound == TypeOK /\ KeysOwnTheirSlots /\ BuzzerIsDriven /\ AlarmWaitsForDoor

(* The driver of the keys keeps the contract of module KeyReports.         *)
Contract == INSTANCE KeyReports WITH
  down <- key.keyState,
  told <- Button \in key.keyState /\ Button \notin key.tidEn,
  msgs <- key.msgs

KeysAreReported == Contract!Spec
=============================================================================
