-------------------------------- MODULE Relay -------------------------------
(***************************************************************************)
(* Opening the lock: the relay is an LED that blinks once, and a flag with *)
(* a timer keeps the requests apart.  The other LEDs blink with it on the  *)
(* same timer, set by the connection at any time.  Time passes in units,   *)
(* several at once when a pass of the main loop takes long, and only when  *)
(* the Hal task has nothing to do: it is served first after each update.   *)
(***************************************************************************)
EXTENDS Integers, FiniteSets

CONSTANTS
  Leds,           \* HAL_LED_* of the board but the one of the door
  HAL_LED_Relay, HAL_LED_System,
  Halves,         \* half the periods of the other LEDs' blinks
  PulseTime,      \* half the period of the relay's blink
  GateTime,       \* DELAY_OPENLOCK_ENABLE
  MaxPass,        \* what one osalTimeUpdate may add to the clock
  ClockSize,      \* 2^32, where osal_systemClock wraps
  WaitSize        \* 2^16, what a wait of HalLedUpdate holds

Others == Leds \ {HAL_LED_Relay}

(* Every blink of the program is on for 50 percent of its period.          *)
Blinks == {<<t, t>> : t \in Halves}

ASSUME RelayAssumption ==
  /\ HAL_LED_Relay \in Leds /\ HAL_LED_System \in Others
  /\ ClockSize \in Nat \ {0} /\ WaitSize \in Nat /\ WaitSize <= ClockSize
  /\ PulseTime \in 1 .. WaitSize - 1 /\ Halves \subseteq 1 .. WaitSize - 1
  /\ MaxPass \in 1 .. WaitSize - 1
  /\ GateTime \in Nat /\ GateTime >= 2 * PulseTime + MaxPass - 1

-----------------------------------------------------------------------------
(***************************************************************************)
(* The LEDs (src/firmware/hal/hal_led.c), the relay of the lock among      *)
(* them.  Blinking LEDs share one timer and one event of the Hal task; the *)
(* handler steps the LEDs whose time has come and starts the timer for the *)
(* next one.  The state is                                                 *)
(*   ctl     per LED: its mode, the blink cycles left, the times on and    *)
(*           off, and next, the clock's value at its next change,          *)
(*   lit     HalLedState, the LEDs that are on,                            *)
(*   pre     preBlinkState, those that were on before they blinked,        *)
(*   event, left   HAL_LED_BLINK_EVENT, and the time its timer has left,   *)
(*   clock   osal_systemClock,                                             *)
(*   astray  history: the LEDs whose next the clock does not reach before  *)
(*           it wraps.                                                     *)
(* Leds need not hold the LED of the door, which HalLedInit turns on and   *)
(* which never blinks.                                                     *)
(***************************************************************************)

Steady(mode) == [mode |-> mode, cycles |-> 0, onTime |-> 0, offTime |-> 0, next |-> 0]

HalLedInit ==
  [ctl |-> [l \in Leds |-> Steady({})], lit |-> {}, pre |-> {}, event |-> FALSE, left |-> 0,
   clock |-> 0, astray |-> {}]

Lighted(leds, l, on) == IF on THEN leds \cup {l} ELSE leds \ {l}

(* HalLedSet with ON or OFF ends a blinking; its timer runs on. *)
HalLedSet(led, l, on) ==
  [led EXCEPT !.ctl[l] = Steady(IF on THEN {"On"} ELSE {}),
              !.lit = Lighted(@, l, on),
              !.astray = @ \ {l}]

(* HalLedBlink: cycles = 0 is for ever.  All blinking LEDs are updated at  *)
(* once, so that the timer is started anew for the next of them.           *)
HalLedBlink(led, l, cycles, onTime, offTime) ==
  [led EXCEPT !.pre = IF {"Blink", "Flash"} \cap led.ctl[l].mode = {}
                        THEN @ \cup ({l} \cap led.lit) ELSE @,
              !.ctl[l] = [mode |-> {"Blink"} \cup (IF cycles = 0 THEN {"Flash"} ELSE {}),
                          cycles |-> cycles, onTime |-> onTime, offTime |-> offTime,
                          next |-> led.clock],
              !.event = TRUE,
              !.left = 0,
              !.astray = @ \ {l}]

Blinking(led) == {l \in Leds : "Blink" \in led.ctl[l].mode}

(* time >= sts->next, on numbers that wrap.                                *)
Passed(led, l) == led.clock >= led.ctl[l].next

(* What the update makes of an LED whose time has come: it waits for this  *)
(* long, until this value of the clock.                                    *)
Wait(c) == IF "On" \in c.mode THEN c.offTime ELSE c.onTime

Stepped(c, clock) ==
  [c EXCEPT !.mode   = IF "On" \in @ THEN @ \ {"On"} ELSE @ \cup {"On"},
            !.cycles = IF "On" \in c.mode /\ "Flash" \notin c.mode THEN @ - 1 ELSE @,
            !.next   = (clock + Wait(c)) % ClockSize]

(* Those that have blinked to their end. *)
Ended(led) ==
  {l \in Blinking(led) : /\ Passed(led, l)
                         /\ {"On", "Flash"} \cap led.ctl[l].mode = {}
                         /\ led.ctl[l].cycles = 0}

(* The shortest wait of a blinking LED, in 16 bits; without one the timer  *)
(* is not started.  An LED that is left behind by the wrap may wait for    *)
(* a multiple of 2^16, which is no wait.                                   *)
Remaining(led, l) == (led.ctl[l].next - led.clock) % ClockSize

NextUpdate(led) ==
  LET waits == {Remaining(led, l) % WaitSize : l \in Blinking(led)} \ {0}
  IN  IF waits = {} THEN led.left ELSE CHOOSE w \in waits : \A v \in waits : w <= v

HalLedUpdate(led) ==
  LET ended   == Ended(led)
      stepped == {l \in Blinking(led) \ ended : Passed(led, l)}
      ctl2    == [l \in Leds |->
                    CASE l \in ended   -> Steady(IF l \in led.pre THEN {"On"} ELSE {})
                      [] l \in stepped -> Stepped(led.ctl[l], led.clock)
                      [] OTHER         -> led.ctl[l]]
      led2    == [led EXCEPT
                    !.ctl = ctl2,
                    !.lit = {l \in Leds : IF l \in ended \cup stepped
                                            THEN "On" \in ctl2[l].mode ELSE l \in @},
                    !.pre = @ \ ended,
                    !.event = FALSE,
                    !.astray = (@ \ (ended \cup stepped)) \cup
                      {l \in stepped : led.clock + Wait(led.ctl[l]) >= ClockSize}]
  IN  [led2 EXCEPT !.left = NextUpdate(led2)]

(* What is left of a time when d more has passed. *)
Less(t, d) == IF t > d THEN t - d ELSE 0

(* osalTimeUpdate after a pass of length d.                                *)
HalLedTick(led, d) ==
  [led EXCEPT !.left   = Less(@, d),
              !.event  = @ \/ led.left \in 1 .. d,
              !.clock  = (@ + d) % ClockSize,
              !.astray = IF led.clock + d < ClockSize THEN @
                           ELSE @ \cup {l \in Blinking(led) : ~Passed(led, l)}]

-----------------------------------------------------------------------------

VARIABLES
  led,      \* the driver of the LEDs, see above
  gate,     \* isOpenLockEnable, and the event and timer of OpenLockEnable
  since,    \* for how long the last request was accepted
  across    \* the clock wraps in or behind a half of its blink

vars == <<led, gate, since, across>>

(* AppLock_Init makes the System LED blink. *)
Init ==
  /\ \E b \in Blinks : led = HalLedBlink(HalLedInit, HAL_LED_System, 0, b[1], b[2])
  /\ gate = [isOpenLockEnable |-> TRUE, event |-> FALSE, left |-> 0]
  /\ since = GateTime /\ across = FALSE

(* Whether the clock meets the relay's blink. *)
Noted == across' = (across \/ HAL_LED_Relay \in led'.astray)

(* The Hal task. *)
HalLedEvent ==
  /\ led.event
  /\ led' = HalLedUpdate(led)
  /\ Noted
  /\ UNCHANGED <<gate, since>>

Accepted == since' = 0 /\ across' = FALSE

(* Mutants: a request interrupts the last one; the flag is not cleared;    *)
(* the timer that sets it again is not started.                            *)
OpenLock_Ungated ==
  /\ ~led.event
  /\ led' = HalLedBlink(led, HAL_LED_Relay, 1, PulseTime, PulseTime)
  /\ gate' = [gate EXCEPT !.isOpenLockEnable = FALSE, !.left = GateTime]
  /\ Accepted

OpenLock_KeepsEnable ==
  /\ ~led.event
  /\ gate.isOpenLockEnable
  /\ led' = HalLedBlink(led, HAL_LED_Relay, 1, PulseTime, PulseTime)
  /\ gate' = [gate EXCEPT !.left = GateTime]
  /\ Accepted

OpenLock_NoTimer ==
  /\ ~led.event
  /\ gate.isOpenLockEnable
  /\ led' = HalLedBlink(led, HAL_LED_Relay, 1, PulseTime, PulseTime)
  /\ gate' = [gate EXCEPT !.isOpenLockEnable = FALSE]
  /\ Accepted

(* A short touch of the button, or the server's OPEN!. *)
OpenLock ==
  /\ ~led.event
  /\ gate.isOpenLockEnable
  /\ led' = HalLedBlink(led, HAL_LED_Relay, 1, PulseTime, PulseTime)
  /\ gate' = [gate EXCEPT !.isOpenLockEnable = FALSE, !.left = GateTime]
  /\ Accepted

(* The event OpenLockEnable of the application. *)
OpenLockEnable ==
  /\ ~led.event
  /\ gate.event
  /\ gate' = [gate EXCEPT !.isOpenLockEnable = TRUE, !.event = FALSE]
  /\ UNCHANGED <<led, since, across>>

(* The application and the connection show their states. *)
SetLed(l, on) ==
  /\ ~led.event
  /\ led' = HalLedSet(led, l, on)
  /\ UNCHANGED <<gate, since, across>>

BlinkLed(l, b) ==
  /\ ~led.event
  /\ led' = HalLedBlink(led, l, 0, b[1], b[2])
  /\ UNCHANGED <<gate, since, across>>

(* A pass of the main loop: all its time is added at once. *)
Tick ==
  /\ ~led.event
  /\ \E d \in 1 .. MaxPass :
       /\ led' = HalLedTick(led, d)
       /\ gate' = [gate EXCEPT !.left = Less(@, d),
                               !.event = @ \/ gate.left \in 1 .. d]
       /\ since' = GateTime - Less(GateTime - since, d)
  /\ Noted

Next ==
  \/ HalLedEvent \/ OpenLock \/ OpenLockEnable \/ Tick
  \/ \E l \in Others : (\E on \in BOOLEAN : SetLed(l, on)) \/ (\E b \in Blinks : BlinkLed(l, b))

Spec == Init /\ [][Next]_vars

(* The main loop goes on and time passes, whatever the connection shows,   *)
(* and the application gets its turn between the updates.                  *)
FairSpec == Spec /\ WF_vars(HalLedEvent) /\ SF_vars(OpenLockEnable) /\ SF_vars(Tick)

-----------------------------------------------------------------------------

TypeOK ==
  /\ \A l \in Leds :
       /\ led.ctl[l].mode \subseteq {"On", "Blink", "Flash"}
       /\ "Flash" \in led.ctl[l].mode => "Blink" \in led.ctl[l].mode
       /\ led.ctl[l].next \in 0 .. ClockSize - 1 /\ led.ctl[l].cycles \in 0 .. 1
  /\ led.lit \subseteq Leds /\ led.pre \subseteq Leds /\ led.astray \subseteq Leds
  /\ led.event \in BOOLEAN /\ led.left \in 0 .. WaitSize - 1
  /\ led.clock \in 0 .. ClockSize - 1
  /\ gate \in [isOpenLockEnable : BOOLEAN, event : BOOLEAN, left : 0 .. GateTime]
  /\ since \in 0 .. GateTime /\ across \in BOOLEAN

(* However the LEDs are set and blinked, the one timer they share never    *)
(* sleeps past the next change of one of them, unless the wrap is between. *)
NoLedOverslept ==
  \A l \in Blinking(led) \ led.astray :
    led.event \/ (led.left > 0 /\ led.left <= led.ctl[l].next - led.clock)

(* The relay is on only in the middle of its blink, and the lock cannot be *)
(* asked to open before it is at rest, unless the clock wraps across its   *)
(* blink: then it may be on when the lock can be asked again.  The LEDs it *)
(* shares its timer with are never overslept.                              *)
RelayAtRest ==
  /\ TypeOK /\ NoLedOverslept
  /\ HAL_LED_Relay \in led.lit => "Blink" \in led.ctl[HAL_LED_Relay].mode
  /\ gate.isOpenLockEnable => across \/ HAL_LED_Relay \notin Blinking(led) \cup led.lit

(* The blink of the relay is the pulse that module LockPulse asks for: it  *)
(* ends with the update in which its time is over, unless the clock wraps. *)
Pulse == INSTANCE LockPulse WITH open <- HAL_LED_Relay \in led.lit

OneExactPulse == Pulse!Spec

(* The lock can be opened again some time after it was.                    *)
GateReopens == ~gate.isOpenLockEnable ~> gate.isOpenLockEnable
=============================================================================
