---------------------------- MODULE Relay_proofs ----------------------------
(***************************************************************************)
(* For all LEDs, blinks, times and passes, and however often the clock     *)
(* wraps: the timer of the LEDs is never late for those that the wrap      *)
(* spares, and so is the relay: at rest when the lock may be asked to      *)
(* open, and its blink is the pulse of module LockPulse.                   *)
(***************************************************************************)
EXTENDS Relay, WellFoundedInduction, TLAPS

R == HAL_LED_Relay

Waits == 0 .. WaitSize - 1
Times == 0 .. ClockSize - 1

(* The LEDs but the relay blink for ever, the relay blinks once.           *)
Control == [mode : SUBSET {"On", "Blink", "Flash"}, cycles : 0 .. 1,
            onTime : Waits, offTime : Waits, next : Times]

LedType == [ctl : [Leds -> Control], lit : SUBSET Leds, pre : SUBSET Leds,
            event : BOOLEAN, left : Waits, clock : Times, astray : SUBSET Leds]

Driven(l, c) ==
  /\ "Flash" \in c.mode => "Blink" \in c.mode
  /\ "Blink" \in c.mode => c.onTime > 0 /\ c.offTime > 0
  /\ "Blink" \in c.mode /\ "Flash" \notin c.mode => l = R
  /\ "Blink" \in c.mode /\ "On" \in c.mode /\ "Flash" \notin c.mode => c.cycles = 1

GateType == [isOpenLockEnable : BOOLEAN, event : BOOLEAN, left : 0 .. GateTime]

Typed ==
  /\ led \in LedType
  /\ \A l \in Leds : Driven(l, led.ctl[l])
  /\ gate \in GateType
  /\ since \in 0 .. GateTime /\ across \in BOOLEAN

(* An LED that the wrap spares changes within a wait from now.             *)
Near(s) == \A l \in Blinking(s) \ s.astray : s.ctl[l].next - s.clock < WaitSize

(* The four stages of a request.                                           *)
AtRest(s) == s.ctl[R].mode = {} /\ R \notin s.lit /\ (across \/ since >= PulseTime)

Asked(s) ==
  /\ s.ctl[R] = [mode |-> {"Blink"}, cycles |-> 1, onTime |-> PulseTime,
                 offTime |-> PulseTime, next |-> s.clock]
  /\ s.event /\ since = 0 /\ ~across

Opened(s) ==
  /\ s.ctl[R].mode = {"Blink", "On"} /\ s.ctl[R].cycles = 1
  /\ s.ctl[R].offTime = PulseTime
  /\ R \in s.lit
  /\ across \/ (/\ s.ctl[R].next - s.clock + since = PulseTime
                 /\ since <= PulseTime + MaxPass - 1)

Shut(s) ==
  /\ s.ctl[R].mode = {"Blink"} /\ s.ctl[R].cycles = 0
  /\ R \notin s.lit
  /\ across \/ (/\ s.ctl[R].next - s.clock + since <= 2 * PulseTime + MaxPass - 1
                 /\ since >= PulseTime)

(* The relay was off when it began to blink, and the clock does not wrap   *)
(* in a blink that is not known to meet the wrap.                          *)
Staged(s) ==
  /\ AtRest(s) \/ Asked(s) \/ Opened(s) \/ Shut(s)
  /\ R \notin s.pre
  /\ R \in s.astray => across

(* The gate's timer measures the time from the last request, after which   *)
(* the relay has blinked to its end.                                       *)
Gated ==
  /\ gate.left + since = GateTime
  /\ gate.isOpenLockEnable \/ gate.event => since = GateTime
  /\ ~(gate.isOpenLockEnable /\ gate.event)
  /\ gate.isOpenLockEnable => across \/ led.ctl[R].mode = {}

IInv == Typed /\ NoLedOverslept /\ Near(led) /\ Staged(led) /\ Gated

USE DEF R

(* A set of numbers has a smallest one.                                    *)
LEMMA NatMin ==
  ASSUME NEW T, T \subseteq Nat, T # {}
  PROVE  \E x \in T : \A y \in T : x <= y
<1> DEFINE Below == OpToRel(<, Nat)
<1>1. IsWellFoundedOn(Below, Nat)
  BY NatLessThanWellFounded
<1>2. PICK x \in T : \A y \in T : <<y, x>> \notin Below
  BY <1>1, WFMin
<1>3. \A y \in T : ~(y < x)
  BY <1>2 DEF OpToRel
<1> QED BY <1>3

(* Times modulo the sizes of their types.                                  *)
LEMMA Modulus ==
  ASSUME NEW n \in Nat \ {0}, NEW a \in Int
  PROVE  /\ a % n \in 0 .. n - 1
         /\ a \in 0 .. n - 1 => a % n = a
OBVIOUS

(* An LED waits for what is left until its next change: the whole of a     *)
(* wait that was just started, and what is ahead of the clock otherwise.   *)
LEMMA WaitsOut ==
  ASSUME NEW t \in Times, NEW w \in Waits
  PROVE  /\ (t + w) % ClockSize \in Times
         /\ t + w < ClockSize => (t + w) % ClockSize = t + w
<1> DEFINE a == t + w
<1>1. a \in Int /\ a >= 0 /\ ClockSize \in Nat \ {0}
  BY RelayAssumption DEF Times, Waits
<1> HIDE DEF a
<1>2. /\ a % ClockSize \in 0 .. ClockSize - 1
      /\ a \in 0 .. ClockSize - 1 => a % ClockSize = a
  BY <1>1, Modulus
<1>3. a < ClockSize => a \in 0 .. ClockSize - 1
  BY <1>1
<1> QED BY <1>2, <1>3 DEF Times, a

LEMMA WaitsShort ==
  ASSUME NEW t \in Times, NEW n \in Times
  PROVE  /\ ((n - t) % ClockSize) % WaitSize \in Waits
         /\ n > t /\ n - t < WaitSize => ((n - t) % ClockSize) % WaitSize = n - t
<1> DEFINE r == (n - t) % ClockSize
<1>1. ClockSize \in Nat \ {0} /\ WaitSize \in Nat \ {0} /\ n - t \in Int
  BY RelayAssumption DEF Times
<1>2. r \in 0 .. ClockSize - 1 /\ (n - t \in 0 .. ClockSize - 1 => r = n - t)
  BY <1>1, Modulus
<1>3. n > t => n - t \in 0 .. ClockSize - 1
  BY <1>1 DEF Times
<1> HIDE DEF r
<1>4. r \in Int
  BY <1>1, <1>2
<1>5. r % WaitSize \in 0 .. WaitSize - 1 /\ (r \in 0 .. WaitSize - 1 => r % WaitSize = r)
  BY <1>1, <1>4, Modulus
<1>6. ASSUME n > t, n - t < WaitSize PROVE r % WaitSize = n - t
  <2>1. r = n - t
    BY <1>2, <1>3, <1>6
  <2>2. n - t \in 0 .. WaitSize - 1
    BY <1>1, <1>6 DEF Times
  <2> QED BY <1>5, <2>1, <2>2
<1>7. r % WaitSize \in Waits
  BY <1>5 DEF Waits
<1> QED BY <1>6, <1>7 DEF r

(* What the calls of the driver do, field by field.                        *)
BlinksIt(l, n, on, off) == led' = HalLedBlink(led, l, n, on, off)

(* What HalLedBlink leaves of one LED and of the others.                   *)
LEMMA BlinkEffect ==
  ASSUME led \in LedType, NEW l \in Leds, NEW n \in 0 .. 1,
         NEW on \in Waits, NEW off \in Waits, BlinksIt(l, n, on, off)
  PROVE  /\ led' \in LedType
         /\ led'.ctl = [led.ctl EXCEPT ![l] =
                  [mode |-> {"Blink"} \cup (IF n = 0 THEN {"Flash"} ELSE {}),
                   cycles |-> n, onTime |-> on, offTime |-> off, next |-> led.clock]]
         /\ led'.lit = led.lit /\ led'.event /\ led'.clock = led.clock
         /\ led'.astray = led.astray \ {l}
         /\ led'.pre = IF {"Blink", "Flash"} \cap led.ctl[l].mode = {}
                         THEN led.pre \cup ({l} \cap led.lit) ELSE led.pre
<1> DEFINE m == {"Blink"} \cup (IF n = 0 THEN {"Flash"} ELSE {})
           c == [mode |-> m, cycles |-> n, onTime |-> on, offTime |-> off, next |-> led.clock]
           p == IF {"Blink", "Flash"} \cap led.ctl[l].mode = {}
                  THEN led.pre \cup ({l} \cap led.lit) ELSE led.pre
           a == led.astray \ {l}
<1>1. m \in SUBSET {"On", "Blink", "Flash"}
  OBVIOUS
<1>2. c \in Control
  BY <1>1 DEF Control, LedType
<1>3. p \in SUBSET Leds /\ a \in SUBSET Leds /\ 0 \in Waits
  BY RelayAssumption DEF LedType, Waits
<1>4. led' = [led EXCEPT !.pre = p, !.ctl[l] = c, !.event = TRUE, !.left = 0, !.astray = a]
  BY DEF BlinksIt, HalLedBlink
<1> HIDE DEF c, p, a
<1>5. led' \in LedType
  BY <1>2, <1>3, <1>4 DEF LedType
<1>6. /\ led'.ctl = [led.ctl EXCEPT ![l] = c] /\ led'.pre = p /\ led'.astray = a
      /\ led'.lit = led.lit /\ led'.event /\ led'.clock = led.clock
  BY <1>2, <1>3, <1>4 DEF LedType
<1> QED BY <1>5, <1>6, Zenon DEF c, p, a

Sets(l, on) == led' = HalLedSet(led, l, on)

LEMMA SteadyType ==
  ASSUME NEW m \in {{}, {"On"}}
  PROVE  Steady(m) \in Control /\ Steady(m).mode = m /\ \A l \in Leds : Driven(l, Steady(m))
<1>1. 0 \in Waits /\ 0 \in Times
  BY RelayAssumption DEF Waits, Times
<1> QED BY <1>1 DEF Steady, Control, Driven

(* What HalLedSet leaves.                                                  *)
LEMMA SetEffect ==
  ASSUME led \in LedType, NEW l \in Leds, NEW on \in BOOLEAN, Sets(l, on)
  PROVE  /\ led' \in LedType
         /\ led'.ctl[l] = Steady(IF on THEN {"On"} ELSE {})
         /\ \A k \in Leds \ {l} : /\ led'.ctl[k] = led.ctl[k]
                                  /\ k \in led'.lit <=> k \in led.lit
                                  /\ k \in led'.astray <=> k \in led.astray
         /\ led'.pre = led.pre /\ led'.event = led.event /\ led'.left = led.left
         /\ led'.clock = led.clock
<1> DEFINE m == IF on THEN {"On"} ELSE {}
           c == Steady(m)
           lit == IF on THEN led.lit \cup {l} ELSE led.lit \ {l}
           a == led.astray \ {l}
<1>1. m \in {{}, {"On"}}
  OBVIOUS
<1> HIDE DEF m
<1>2. c \in Control
  BY <1>1, SteadyType
<1>3. lit \in SUBSET Leds /\ \A k \in Leds \ {l} : k \in lit <=> k \in led.lit
  BY DEF LedType
<1>4. a \in SUBSET Leds /\ \A k \in Leds \ {l} : k \in a <=> k \in led.astray
  BY DEF LedType
<1>5. led' = [led EXCEPT !.ctl[l] = c, !.lit = lit, !.astray = a]
  BY DEF Sets, HalLedSet, Lighted, m
<1> HIDE DEF c, lit, a
<1>6. led' \in LedType
  BY <1>2, <1>3, <1>4, <1>5 DEF LedType
<1>7. /\ led'.ctl = [led.ctl EXCEPT ![l] = c] /\ led'.lit = lit /\ led'.pre = led.pre
      /\ led'.event = led.event /\ led'.left = led.left /\ led'.clock = led.clock
      /\ led'.astray = a
  BY <1>2, <1>3, <1>4, <1>5 DEF LedType
<1>8. led'.ctl[l] = c /\ \A k \in Leds \ {l} : led'.ctl[k] = led.ctl[k]
  BY <1>7 DEF LedType
<1> QED BY <1>3, <1>4, <1>6, <1>7, <1>8 DEF c, m

Ticks(d) == led' = HalLedTick(led, d)

LEMMA LessType ==
  ASSUME NEW n \in Nat, NEW t \in 0 .. n, NEW d \in Nat
  PROVE  /\ Less(t, d) \in 0 .. n
         /\ t > d => Less(t, d) = t - d
         /\ t <= d => Less(t, d) = 0
BY DEF Less

(* What a pass leaves: the clock goes on by its length, or wraps.          *)
LEMMA TickEffect ==
  ASSUME led \in LedType, NEW d \in 1 .. MaxPass, Ticks(d)
  PROVE  /\ led' \in LedType
         /\ led'.ctl = led.ctl /\ led'.lit = led.lit /\ led'.pre = led.pre
         /\ led'.left = Less(led.left, d)
         /\ led'.event <=> led.event \/ led.left \in 1 .. d
         /\ \/ led'.clock = led.clock + d /\ led'.astray = led.astray
            \/ led'.astray = led.astray \cup {l \in Blinking(led) : ~Passed(led, l)}
<1> DEFINE event == led.event \/ led.left \in 1 .. d
           clock == (led.clock + d) % ClockSize
           lost  == led.astray \cup {l \in Blinking(led) : ~Passed(led, l)}
           a     == IF led.clock + d < ClockSize THEN led.astray ELSE lost
           left  == Less(led.left, d)
<1>1. led.clock \in Times /\ d \in Waits /\ led.left \in 0 .. WaitSize - 1 /\ WaitSize - 1 \in Nat
  BY RelayAssumption DEF LedType, Waits
<1>2. event \in BOOLEAN
  OBVIOUS
<1>3. left \in Waits
  BY <1>1, LessType DEF Waits
<1>4. lost \in SUBSET Leds
  BY DEF LedType, Blinking
<1>5. a \in SUBSET Leds
  BY <1>4 DEF LedType
<1>6. clock \in Times /\ (led.clock + d < ClockSize => clock = led.clock + d)
  BY <1>1, WaitsOut
<1>7. led' = [led EXCEPT !.left = left, !.event = event, !.clock = clock, !.astray = a]
  BY DEF Ticks, HalLedTick
<1>8. (a = led.astray /\ led.clock + d < ClockSize) \/ a = lost
  OBVIOUS
<1> HIDE DEF event, clock, left, a, lost
<1>9. led' \in LedType
  BY <1>2, <1>3, <1>5, <1>6, <1>7 DEF LedType
<1>10. /\ led'.ctl = led.ctl /\ led'.lit = led.lit /\ led'.pre = led.pre
       /\ led'.left = left /\ led'.event = event /\ led'.clock = clock /\ led'.astray = a
  BY <1>2, <1>3, <1>5, <1>6, <1>7 DEF LedType
<1>11. \/ led'.clock = led.clock + d /\ led'.astray = led.astray
       \/ led'.astray = lost
  BY <1>6, <1>8, <1>10
<1> QED BY <1>9, <1>10, <1>11 DEF event, left, lost

(* An LED that has not blinked to its end is stepped and waits again.      *)
LEMMA SteppedEffect ==
  ASSUME NEW l \in Leds, NEW c \in Control, NEW t \in Times, Driven(l, c), "Blink" \in c.mode,
         "On" \in c.mode \/ "Flash" \in c.mode \/ c.cycles # 0
  PROVE  /\ Stepped(c, t) \in Control /\ Driven(l, Stepped(c, t))
         /\ "Blink" \in Stepped(c, t).mode
         /\ Stepped(c, t).next = (t + Wait(c)) % ClockSize
         /\ Wait(c) \in Waits /\ Wait(c) > 0
         /\ "On" \in c.mode =>
              /\ Stepped(c, t).mode = c.mode \ {"On"} /\ Wait(c) = c.offTime
              /\ "Flash" \notin c.mode => Stepped(c, t).cycles = c.cycles - 1
         /\ "On" \notin c.mode =>
              /\ Stepped(c, t).mode = c.mode \cup {"On"} /\ Wait(c) = c.onTime
              /\ Stepped(c, t).cycles = c.cycles
         /\ Stepped(c, t).offTime = c.offTime
<1> DEFINE m == IF "On" \in c.mode THEN c.mode \ {"On"} ELSE c.mode \cup {"On"}
           n == IF "On" \in c.mode /\ "Flash" \notin c.mode THEN c.cycles - 1 ELSE c.cycles
           w == Wait(c)
           x == (t + w) % ClockSize
<1>1. m \in SUBSET {"On", "Blink", "Flash"} /\ n \in 0 .. 1
  BY DEF Control, Driven
<1>2. w \in Waits /\ w > 0
  BY DEF Control, Driven, Wait
<1>3. /\ "Blink" \in m /\ ("Flash" \in m <=> "Flash" \in c.mode)
      /\ "On" \in m <=> "On" \notin c.mode
  OBVIOUS
<1>4. /\ "On" \in c.mode => m = c.mode \ {"On"} /\ w = c.offTime
                            /\ ("Flash" \notin c.mode => n = c.cycles - 1)
      /\ "On" \notin c.mode => m = c.mode \cup {"On"} /\ w = c.onTime /\ n = c.cycles
  BY DEF Wait
<1>5. Stepped(c, t) = [c EXCEPT !.mode = m, !.cycles = n, !.next = x]
  BY DEF Stepped
<1> HIDE DEF m, n, w
<1>6. x \in Times
  BY <1>2, WaitsOut
<1> HIDE DEF x
<1>7. /\ Stepped(c, t) \in Control
      /\ Stepped(c, t).mode = m /\ Stepped(c, t).cycles = n /\ Stepped(c, t).next = x
      /\ Stepped(c, t).offTime = c.offTime /\ Stepped(c, t).onTime = c.onTime
  BY <1>1, <1>5, <1>6 DEF Control
<1>8. "On" \notin c.mode /\ "Flash" \notin c.mode => n = 1
  BY <1>4 DEF Control
<1>9. Driven(l, Stepped(c, t))
  BY <1>3, <1>7, <1>8 DEF Driven
<1> QED BY <1>2, <1>3, <1>4, <1>7, <1>9 DEF x, w

(* The LEDs whose time has come, and what becomes of each LED.             *)
Stepping(s) == {l \in Blinking(s) \ Ended(s) : Passed(s, l)}

NewControl(s, l) ==
  CASE l \in Ended(s)    -> Steady(IF l \in s.pre THEN {"On"} ELSE {})
    [] l \in Stepping(s) -> Stepped(s.ctl[l], s.clock)
    [] OTHER             -> s.ctl[l]

NewAstray(s) ==
  (s.astray \ (Ended(s) \cup Stepping(s))) \cup
     {l \in Stepping(s) : s.clock + Wait(s.ctl[l]) >= ClockSize}

(* Each LED is in order after an update, and one that the wrap spares      *)
(* waits for the clock to come to its next change.                         *)
LEMMA NewControlEffect ==
  ASSUME led \in LedType, NEW l \in Leds, Driven(l, led.ctl[l]), Near(led)
  PROVE  /\ NewControl(led, l) \in Control /\ Driven(l, NewControl(led, l))
         /\ "Blink" \in NewControl(led, l).mode /\ l \notin NewAstray(led) =>
              /\ NewControl(led, l).next > led.clock
              /\ NewControl(led, l).next - led.clock < WaitSize
<1> DEFINE c == led.ctl[l]
           t == led.clock
<1>1. c \in Control /\ t \in Times
  BY DEF LedType
<1>2. CASE l \in Ended(led)
  <2> DEFINE m == IF l \in led.pre THEN {"On"} ELSE {}
  <2>1. NewControl(led, l) = Steady(m)
    BY <1>2, Zenon DEF NewControl, Stepping
  <2>2. m \in {{}, {"On"}}
    OBVIOUS
  <2> HIDE DEF m
  <2>3. Steady(m) \in Control /\ Driven(l, Steady(m)) /\ Steady(m).mode = m
    BY <2>2, SteadyType
  <2> QED BY <2>1, <2>2, <2>3
<1>3. CASE l \in Stepping(led)
  <2>1. l \notin Ended(led) /\ "Blink" \in c.mode /\ Passed(led, l)
    BY <1>3 DEF Stepping, Blinking
  <2>2. "On" \in c.mode \/ "Flash" \in c.mode \/ c.cycles # 0
    BY <2>1 DEF Ended, Blinking
  <2>3. NewControl(led, l) = Stepped(c, t)
    BY <1>3, <2>1, Zenon DEF NewControl
  <2>4. /\ Stepped(c, t) \in Control /\ Driven(l, Stepped(c, t))
        /\ Stepped(c, t).next = (t + Wait(c)) % ClockSize
        /\ Wait(c) \in Waits /\ Wait(c) > 0
    BY <1>1, <2>1, <2>2, SteppedEffect
  <2>5. ASSUME l \notin NewAstray(led)
        PROVE  Stepped(c, t).next > t /\ Stepped(c, t).next - t < WaitSize
    <3>1. ~(t + Wait(c) >= ClockSize)
      BY <1>3, <2>5, Zenon DEF NewAstray
    <3> DEFINE w == Wait(c)
    <3>2. w \in Waits /\ w > 0 /\ t + w < ClockSize
      <4>1. Wait(c) \in Int /\ t \in Int /\ ClockSize \in Int
        BY <1>1, <2>4, RelayAssumption DEF Waits, Times
      <4> QED BY <2>4, <3>1, <4>1
    <3> HIDE DEF w
    <3>3. (t + w) % ClockSize = t + w
      BY <1>1, <3>2, WaitsOut
    <3>4. Stepped(c, t).next = t + w
      BY <2>4, <3>3 DEF w
    <3> QED BY <1>1, <3>2, <3>4, RelayAssumption DEF Waits, Times
  <2> QED BY <2>3, <2>4, <2>5
<1>4. CASE l \notin Ended(led) /\ l \notin Stepping(led)
  <2>1. NewControl(led, l) = c
    BY <1>4, Zenon DEF NewControl
  <2>2. "Blink" \in c.mode => ~Passed(led, l) /\ l \in Blinking(led)
    BY <1>4 DEF Stepping, Blinking
  <2>3. l \notin NewAstray(led) => l \notin led.astray
    BY <1>4 DEF NewAstray
  <2>4. ASSUME "Blink" \in c.mode, l \notin NewAstray(led)
        PROVE  c.next > t /\ c.next - t < WaitSize
    BY <1>1, <2>2, <2>3, <2>4 DEF Passed, Control, Times, Near
  <2> QED BY <1>1, <2>1, <2>4
<1> QED BY <1>2, <1>3, <1>4

Updates == led' = HalLedUpdate(led)

(* What HalLedUpdate leaves.                                               *)
LEMMA UpdateEffect ==
  ASSUME led \in LedType, \A l \in Leds : Driven(l, led.ctl[l]), Near(led), Updates
  PROVE  /\ led' \in LedType
         /\ \A l \in Leds : led'.ctl[l] = NewControl(led, l)
         /\ \A l \in Leds : l \in led'.lit <=> IF l \in Ended(led) \cup Stepping(led)
                                               THEN "On" \in NewControl(led, l).mode
                                               ELSE l \in led.lit
         /\ led'.pre = led.pre \ Ended(led) /\ led'.event = FALSE /\ led'.clock = led.clock
         /\ led'.astray = NewAstray(led)
         /\ \A l \in Blinking(led') \ led'.astray :
              led'.left > 0 /\ led'.left <= led'.ctl[l].next - led'.clock
<1> DEFINE ctl == [l \in Leds |-> NewControl(led, l)]
           lit == {l \in Leds : IF l \in Ended(led) \cup Stepping(led)
                                  THEN "On" \in ctl[l].mode ELSE l \in led.lit}
           pre == led.pre \ Ended(led)
           a   == NewAstray(led)
           led2 == [led EXCEPT !.ctl = ctl, !.lit = lit, !.pre = pre, !.event = FALSE,
                               !.astray = a]
           left == NextUpdate(led2)
<1>1. led' = [led2 EXCEPT !.left = left]
  BY Zenon DEF Updates, HalLedUpdate, NewControl, Stepping, NewAstray
<1>2. \A l \in Leds : /\ NewControl(led, l) \in Control
                      /\ "Blink" \in NewControl(led, l).mode /\ l \notin NewAstray(led) =>
                           /\ NewControl(led, l).next > led.clock
                           /\ NewControl(led, l).next - led.clock < WaitSize
  BY NewControlEffect
<1>3. ctl \in [Leds -> Control] /\ lit \in SUBSET Leds /\ pre \in SUBSET Leds
  BY <1>2 DEF LedType
<1>4. a \in SUBSET Leds
  BY DEF LedType, NewAstray, Stepping, Blinking
<1>5. \A l \in Leds : ctl[l] = NewControl(led, l)
  OBVIOUS
<1>6. \A l \in Leds : l \in lit <=> IF l \in Ended(led) \cup Stepping(led)
                                    THEN "On" \in NewControl(led, l).mode
                                    ELSE l \in led.lit
  BY <1>5
<1>7. pre = led.pre \ Ended(led)
  OBVIOUS
<1> HIDE DEF ctl, lit, pre, a
<1>8. led2 \in LedType /\ led2.ctl = ctl /\ led2.lit = lit /\ led2.pre = pre
      /\ led2.event = FALSE /\ led2.clock = led.clock /\ led2.left = led.left
      /\ led2.astray = a
  BY <1>3, <1>4 DEF LedType
<1> HIDE DEF led2
<1>9. left \in Waits
      /\ \A l \in Blinking(led2) \ a : left > 0 /\ left <= led2.ctl[l].next - led.clock
  <2> DEFINE w(l) == Remaining(led2, l) % WaitSize
             waits == {w(l) : l \in Blinking(led2)} \ {0}
  <2>1. \A l \in Blinking(led2) :
          /\ w(l) \in Waits
          /\ l \notin a => w(l) = led2.ctl[l].next - led.clock /\ w(l) # 0
    <3> SUFFICES ASSUME NEW l \in Blinking(led2)
                 PROVE  /\ w(l) \in Waits
                        /\ l \notin a => w(l) = led2.ctl[l].next - led.clock /\ w(l) # 0
      OBVIOUS
    <3> DEFINE n == led2.ctl[l].next
               t == led.clock
    <3>1. l \in Leds /\ "Blink" \in led2.ctl[l].mode
      BY DEF Blinking
    <3>2. n \in Times /\ t \in Times
      BY <1>8, <3>1 DEF LedType, Control
    <3>3. w(l) = ((n - t) % ClockSize) % WaitSize
      BY <1>8 DEF Remaining
    <3>4. led2.ctl[l] = NewControl(led, l)
      BY <1>5, <1>8, <3>1
    <3>5. l \notin a => n > t /\ n - t < WaitSize
      BY <1>2, <3>1, <3>4 DEF a
    <3> HIDE DEF n, t, w
    <3>6. w(l) \in Waits /\ (n > t /\ n - t < WaitSize => w(l) = n - t)
      BY <3>2, <3>3, WaitsShort
    <3>7. n > t => n - t # 0
      BY <3>2 DEF Times
    <3> QED BY <3>5, <3>6, <3>7 DEF n, t
  <2>2. waits \subseteq Nat \ {0} /\ waits \subseteq Waits
    BY <2>1 DEF Waits
  <2>3. left = IF waits = {} THEN led2.left
                 ELSE CHOOSE x \in waits : \A v \in waits : x <= v
    BY Zenon DEF NextUpdate
  <2>4. \A l \in Blinking(led2) \ a : w(l) \in waits
    BY <2>1
  <2> HIDE DEF waits, left, w
  <2>5. CASE waits = {}
    BY <1>8, <2>3, <2>4, <2>5 DEF LedType
  <2>6. CASE waits # {}
    <3>1. \E x \in waits : \A v \in waits : x <= v
      BY <2>2, <2>6, NatMin
    <3>2. left \in waits /\ \A v \in waits : left <= v
      BY <2>3, <2>6, <3>1, Zenon
    <3>3. left \in Waits /\ left > 0
      BY <2>2, <3>2 DEF Waits
    <3>4. \A l \in Blinking(led2) \ a : left <= w(l)
      BY <2>4, <3>2, Zenon
    <3>5. \A l \in Blinking(led2) \ a : w(l) = led2.ctl[l].next - led.clock
      BY <2>1
    <3>6. \A l \in Blinking(led2) \ a : left <= led2.ctl[l].next - led.clock
      BY <3>4, <3>5
    <3> QED BY <3>3, <3>6
  <2> QED BY <2>5, <2>6
<1> HIDE DEF left
<1>10. led' \in LedType /\ led'.ctl = ctl /\ led'.lit = lit /\ led'.pre = pre
      /\ led'.event = FALSE /\ led'.clock = led.clock /\ led'.left = left /\ led'.astray = a
  BY <1>1, <1>8, <1>9 DEF LedType
<1>11. Blinking(led') = Blinking(led2)
  BY <1>8, <1>10 DEF Blinking
<1>12. \A l \in Blinking(led') \ led'.astray :
         led'.left > 0 /\ led'.left <= led'.ctl[l].next - led'.clock
  BY <1>8, <1>9, <1>10, <1>11
<1> QED BY <1>5, <1>6, <1>7, <1>10, <1>12 DEF a

(* The invariant holds at the start.                                       *)
LEMMA InitIInv == Init => IInv
<1> SUFFICES ASSUME Init PROVE IInv
  OBVIOUS
<1> USE RelayAssumption
<1> DEFINE S == HAL_LED_System
<1>1. PICK b \in Blinks : led = HalLedBlink(HalLedInit, S, 0, b[1], b[2])
  BY DEF Init
<1>2. S \in Leds /\ S # R /\ b[1] \in Waits \ {0} /\ b[2] \in Waits \ {0}
  BY DEF Others, Blinks, Waits
<1>3. HalLedInit \in LedType /\ \A l \in Leds : HalLedInit.ctl[l] = Steady({})
  <2>1. Steady({}) \in Control /\ 0 \in Waits /\ 0 \in Times
    BY SteadyType DEF Waits, Times
  <2> QED BY <2>1 DEF HalLedInit, LedType
<1>4. /\ led \in LedType
      /\ led.ctl = [HalLedInit.ctl EXCEPT ![S] =
                     [mode |-> {"Blink", "Flash"}, cycles |-> 0,
                      onTime |-> b[1], offTime |-> b[2], next |-> 0]]
      /\ led.lit = {} /\ led.pre = {} /\ led.event /\ led.clock = 0 /\ led.astray = {}
  <2>1. /\ HalLedInit.ctl[S].mode = {} /\ HalLedInit.lit = {} /\ HalLedInit.pre = {}
        /\ HalLedInit.clock = 0 /\ HalLedInit.astray = {}
    BY <1>2 DEF HalLedInit, Steady
  <2> DEFINE c == [mode |-> {"Blink"} \cup {"Flash"}, cycles |-> 0, onTime |-> b[1],
                   offTime |-> b[2], next |-> 0]
             p == {} \cup ({S} \cap {})
             a == {} \ {S}
  <2>2. c \in Control /\ p = {} /\ a = {} /\ 0 \in Waits
    BY <1>2 DEF Control, Times, Waits
  <2>3. {"Blink", "Flash"} \cap HalLedInit.ctl[S].mode = {}
    BY <2>1
  <2>4. led = [HalLedInit EXCEPT !.pre = p, !.ctl[S] = c, !.event = TRUE, !.left = 0,
                                 !.astray = a]
    BY <1>1, <2>1, <2>3, Zenon DEF HalLedBlink
  <2> HIDE DEF c, p, a
  <2>5. led \in LedType
    BY <1>2, <1>3, <2>2, <2>4 DEF LedType
  <2>6. /\ led.ctl = [HalLedInit.ctl EXCEPT ![S] = c]
        /\ led.lit = {} /\ led.pre = {} /\ led.event /\ led.clock = 0 /\ led.astray = {}
    BY <1>2, <1>3, <2>1, <2>2, <2>4 DEF LedType
  <2>7. c = [mode |-> {"Blink", "Flash"}, cycles |-> 0, onTime |-> b[1],
             offTime |-> b[2], next |-> 0]
    BY DEF c
  <2> QED BY <2>5, <2>6, <2>7
<1>5. \A l \in Leds : Driven(l, led.ctl[l])
  <2>1. Driven(S, led.ctl[S])
    BY <1>2, <1>3, <1>4 DEF Driven, LedType, Waits
  <2>2. \A l \in Leds \ {S} : led.ctl[l] = Steady({})
    BY <1>2, <1>3, <1>4 DEF LedType
  <2>3. \A l \in Leds : Driven(l, Steady({}))
    BY SteadyType
  <2> QED BY <2>1, <2>2, <2>3
<1>6. led.ctl[R].mode = {}
  BY <1>2, <1>3, <1>4 DEF Steady, HalLedInit
<1>7. Typed
  <2>1. across \in BOOLEAN
    BY Zenon DEF Init
  <2> QED BY <1>4, <1>5, <2>1 DEF Init, Typed, GateType
<1>8. Staged(led)
  BY <1>4, <1>6 DEF Init, Staged, AtRest
<1>9. NoLedOverslept
  BY <1>4 DEF NoLedOverslept
<1>10. Near(led)
  <2>1. \A l \in Leds : led.ctl[l].next = 0
    BY <1>2, <1>3, <1>4 DEF Steady, LedType
  <2> QED BY <1>4, <2>1 DEF Near, Blinking
<1> QED BY <1>6, <1>7, <1>8, <1>9, <1>10 DEF Init, IInv, Gated

(* Below, each action preserves the invariant and is a step of the pulse   *)
(* or none.                                                                *)
Mapped == Pulse!Next \/ UNCHANGED Pulse!vars

(* A step that leaves the relay alone is none of the pulse.                *)
LEMMA Stuttering ==
  ASSUME R \in led'.lit <=> R \in led.lit, since' = since, across' = across
  PROVE  Mapped
<1>1. (R \in led'.lit) = (R \in led.lit)
  OBVIOUS
<1> QED BY <1>1, Zenon DEF Mapped, Pulse!vars

(* across as a condition.                                                  *)
LEMMA NotedEffect ==
  ASSUME Noted
  PROVE  across' \in BOOLEAN /\ (across' <=> across \/ R \in led'.astray)
<1>1. CASE across \/ R \in led'.astray
  <2>1. (across \/ R \in led'.astray) = TRUE
    BY <1>1
  <2>2. across' = TRUE
    BY <2>1, Zenon DEF Noted
  <2> QED BY <1>1, <2>2, Zenon
<1>2. CASE ~(across \/ R \in led'.astray)
  <2>1. (across \/ R \in led'.astray) = FALSE
    BY <1>2
  <2>2. across' = FALSE
    BY <2>1, Zenon DEF Noted
  <2> QED BY <1>2, <2>2, Zenon
<1> QED BY <1>1, <1>2

LEMMA SameBoolean ==
  ASSUME NEW a \in BOOLEAN, NEW b \in BOOLEAN, a <=> b
  PROVE  a = b
OBVIOUS

(* The steps of the pulse that an update of the LEDs makes.                *)
Releases == R \in led'.lit /\ since = 0 /\ ~across
Closes   == R \in led.lit /\ R \notin led'.lit /\ (across \/ since >= PulseTime)
Rests    == (R \in led'.lit <=> R \in led.lit) /\ (across' <=> across)

(* HalLedUpdate brings the pulse to its next stage.                        *)
LEMMA UpdateStage ==
  ASSUME Typed, Near(led), Staged(led), Updates, Noted, since' = since
  PROVE  /\ Staged(led)'
         /\ Rests \/ Releases \/ Closes
         /\ led.ctl[R].mode = {} => led'.ctl[R].mode = {}
<1> USE RelayAssumption
<1>1. R \in Leds /\ led \in LedType /\ \A l \in Leds : Driven(l, led.ctl[l])
  BY DEF Typed
<1>2. /\ led' \in LedType /\ led'.ctl[R] = NewControl(led, R)
      /\ R \in led'.lit <=> IF R \in Ended(led) \cup Stepping(led)
                           THEN "On" \in NewControl(led, R).mode ELSE R \in led.lit
      /\ led'.pre = led.pre \ Ended(led) /\ led'.clock = led.clock
      /\ led'.astray = NewAstray(led)
  BY <1>1, UpdateEffect
<1> DEFINE c == led.ctl[R]
           t == led.clock
<1>3. c \in Control /\ Driven(R, c) /\ t \in Times /\ since \in Nat /\ c.next \in Int /\ t \in Int
  BY <1>1 DEF LedType, Typed, Control, Times
<1>4. /\ R \notin led'.pre /\ (R \in led'.astray => across')
      /\ across' <=> across \/ R \in led'.astray
  BY <1>2, NotedEffect DEF Staged
<1>5. CASE R \notin Ended(led) \cup Stepping(led)
  <2>1. led'.ctl[R] = c /\ (R \in led'.lit <=> R \in led.lit)
    BY <1>2, <1>5, Zenon DEF NewControl
  <2>2. R \in led'.astray => R \in led.astray
    BY <1>2, <1>5 DEF NewAstray
  <2>3. across' <=> across
    BY <1>4, <2>2 DEF Staged
  <2>4. ~Asked(led)
    BY <1>1, <1>3, <1>5 DEF Asked, Ended, Stepping, Blinking, Passed
  <2>5. AtRest(led) \/ Opened(led) \/ Shut(led)
    BY <2>4 DEF Staged
  <2>6. AtRest(led)' \/ Opened(led)' \/ Shut(led)'
    BY <1>2, <2>1, <2>3, <2>5 DEF AtRest, Opened, Shut
  <2> QED BY <1>4, <2>1, <2>3, <2>6 DEF Staged, Rests
<1>6. CASE R \in Ended(led)
  <2>1. "Blink" \in c.mode /\ "On" \notin c.mode /\ c.cycles = 0
    BY <1>6 DEF Ended, Blinking
  <2>2. Shut(led)
    BY <2>1 DEF Staged, AtRest, Asked, Opened
  <2>3. led'.ctl[R] = Steady({})
    BY <1>2, <1>6, Zenon DEF NewControl, Stepping, Staged
  <2>4. led'.ctl[R].mode = {} /\ R \notin led'.lit
    BY <1>2, <1>6, <2>3 DEF Steady
  <2>5. R \notin led'.astray
    BY <1>2, <1>6 DEF NewAstray, Stepping
  <2>6. across' <=> across
    BY <1>4, <2>5
  <2>7. AtRest(led)'
    BY <2>2, <2>4, <2>6 DEF AtRest, Shut
  <2> QED BY <1>4, <2>2, <2>4, <2>6, <2>7 DEF Staged, Shut, Rests
<1>7. CASE R \in Stepping(led)
  <2>1. R \notin Ended(led) /\ "Blink" \in c.mode /\ Passed(led, R)
    BY <1>7 DEF Stepping, Blinking
  <2>2. "On" \in c.mode \/ "Flash" \in c.mode \/ c.cycles # 0
    BY <1>1, <2>1 DEF Ended, Blinking
  <2>3. led'.ctl[R] = Stepped(c, t) /\ (R \in led'.lit <=> "On" \in led'.ctl[R].mode)
    BY <1>2, <1>7, <2>1, Zenon DEF NewControl
  <2>4. ~AtRest(led) /\ ~Shut(led)
    BY <2>1, <2>2 DEF AtRest, Shut
  <2> DEFINE w == Wait(c)
  <2>5. /\ Stepped(c, t).next = (t + w) % ClockSize /\ w \in Waits
        /\ "On" \in c.mode =>
             /\ Stepped(c, t).mode = c.mode \ {"On"} /\ w = c.offTime
             /\ "Flash" \notin c.mode => Stepped(c, t).cycles = c.cycles - 1
        /\ "On" \notin c.mode =>
             /\ Stepped(c, t).mode = c.mode \cup {"On"} /\ w = c.onTime
             /\ Stepped(c, t).cycles = c.cycles
        /\ Stepped(c, t).offTime = c.offTime
    BY <1>1, <1>3, <2>1, <2>2, SteppedEffect
  <2>6. across' \/ led'.ctl[R].next = t + w
    <3>1. w >= ClockSize - t => R \in led'.astray
      <4>1. t + w >= ClockSize => R \in NewAstray(led)
        BY <1>7 DEF NewAstray
      <4>2. w >= ClockSize - t => t + w >= ClockSize
        BY <1>3, <2>5 DEF Waits
      <4> QED BY <1>2, <4>1, <4>2
    <3> HIDE DEF w
    <3>2. ~(w >= ClockSize - t) => t + w < ClockSize
      BY <1>3, <2>5 DEF Waits
    <3>3. t + w < ClockSize => (t + w) % ClockSize = t + w
      BY <1>3, <2>5, WaitsOut
    <3> QED BY <1>4, <2>3, <2>5, <3>1, <3>2, <3>3
  <2> HIDE DEF w
  <2>7. CASE Asked(led)
    <3>1. c.mode = {"Blink"} /\ c.cycles = 1 /\ c.onTime = PulseTime /\ c.offTime = PulseTime
      BY <2>7 DEF Asked
    <3>2. /\ led'.ctl[R].mode = {"Blink", "On"} /\ led'.ctl[R].cycles = 1
          /\ led'.ctl[R].offTime = PulseTime /\ w = PulseTime
      BY <2>3, <2>5, <3>1
    <3>3. R \in led'.lit /\ since = 0 /\ ~across
      BY <2>3, <2>7, <3>2 DEF Asked
    <3>4. across' \/ led'.ctl[R].next - led'.clock + since' = PulseTime
      BY <1>2, <1>3, <2>6, <3>2, <3>3
    <3>5. since' <= PulseTime + MaxPass - 1
      BY <3>3
    <3>6. Opened(led)'
      BY <3>2, <3>3, <3>4, <3>5 DEF Opened
    <3> QED BY <1>4, <3>1, <3>3, <3>6 DEF Staged, Releases
  <2>8. CASE Opened(led)
    <3>1. c.mode = {"Blink", "On"} /\ c.cycles = 1 /\ c.offTime = PulseTime
      BY <2>8 DEF Opened
    <3>2. /\ led'.ctl[R].mode = {"Blink"} /\ led'.ctl[R].cycles = 0 /\ w = PulseTime
      BY <2>3, <2>5, <3>1
    <3>3. R \notin led'.lit /\ R \in led.lit
      BY <2>3, <2>8, <3>2 DEF Opened
    <3>4. across \/ (since >= PulseTime /\ since <= PulseTime + MaxPass - 1)
      <4>1. t >= c.next
        BY <2>1 DEF Passed
      <4>2. across \/ (c.next - t + since = PulseTime /\ since <= PulseTime + MaxPass - 1)
        BY <2>8 DEF Opened
      <4> QED BY <1>3, <4>1, <4>2
    <3>5. across' \/ (/\ led'.ctl[R].next - led'.clock + since' <= 2 * PulseTime + MaxPass - 1
                      /\ since' >= PulseTime)
      <4>1. across' \/ led'.ctl[R].next - led'.clock = PulseTime
        BY <1>2, <1>3, <2>6, <3>2
      <4>2. across => across'
        BY <1>4
      <4> HIDE DEF c, t
      <4>3. ASSUME ~across'
            PROVE  /\ led'.ctl[R].next - led'.clock + since' <= 2 * PulseTime + MaxPass - 1
                   /\ since' >= PulseTime
        <5>1. /\ led'.ctl[R].next - led'.clock = PulseTime
              /\ since' >= PulseTime /\ since' <= PulseTime + MaxPass - 1
          BY <3>4, <4>1, <4>2, <4>3
        <5> QED BY <1>3, <5>1
      <4> QED BY <4>3
    <3>6. Shut(led)'
      BY <3>2, <3>3, <3>5 DEF Shut
    <3> QED BY <1>4, <3>1, <3>3, <3>4, <3>6 DEF Staged, Closes
  <2> QED BY <2>4, <2>7, <2>8 DEF Staged
<1> QED BY <1>5, <1>6, <1>7

(* The event of the LEDs.                                                  *)
LEMMA EventStep ==
  ASSUME IInv, HalLedEvent
  PROVE  IInv' /\ Mapped
<1> USE DEF IInv
<1>1. Updates /\ Noted /\ UNCHANGED <<gate, since>>
  BY Zenon DEF Updates, HalLedEvent
<1>2. led \in LedType /\ (\A l \in Leds : Driven(l, led.ctl[l])) /\ across \in BOOLEAN
  BY DEF Typed
<1>3. /\ led' \in LedType /\ \A l \in Leds : led'.ctl[l] = NewControl(led, l)
      /\ led'.clock = led.clock /\ led'.astray = NewAstray(led)
      /\ \A l \in Blinking(led') \ led'.astray :
           led'.left > 0 /\ led'.left <= led'.ctl[l].next - led'.clock
  BY <1>1, <1>2, UpdateEffect
<1>4. across' \in BOOLEAN /\ (across' <=> across \/ R \in led'.astray)
  BY <1>1, NotedEffect
<1>5. Typed'
  <2>1. \A l \in Leds : Driven(l, led'.ctl[l])
    BY <1>2, <1>3, NewControlEffect
  <2> QED BY <1>1, <1>3, <1>4, <2>1 DEF Typed
<1>6. NoLedOverslept'
  BY <1>3 DEF NoLedOverslept, Blinking
<1>7. Near(led)'
  <2> SUFFICES ASSUME NEW l \in Leds, "Blink" \in led'.ctl[l].mode, l \notin led'.astray
               PROVE  led'.ctl[l].next - led'.clock < WaitSize
    BY DEF Near, Blinking
  <2>1. led'.ctl[l] = NewControl(led, l) /\ l \notin NewAstray(led) /\ Driven(l, led.ctl[l])
    BY <1>2, <1>3
  <2> QED BY <1>2, <1>3, <2>1, NewControlEffect
<1>8. /\ Staged(led)'
      /\ Rests \/ Releases \/ Closes
      /\ led.ctl[R].mode = {} => led'.ctl[R].mode = {}
  BY <1>1, UpdateStage
<1>9. Gated'
  BY <1>1, <1>4, <1>8 DEF Gated
<1>10. Mapped
  <2>1. CASE Rests
    <3>1. across' = across
      BY <1>2, <1>4, <2>1, SameBoolean DEF Rests
    <3> QED BY <1>1, <2>1, <3>1, Stuttering DEF Rests
  <2>2. CASE Releases
    <3>1. (R \in led'.lit) = TRUE
      BY <2>2 DEF Releases
    <3> QED BY <1>1, <1>4, <2>2, <3>1, Zenon DEF Mapped, Pulse!Next, Pulse!Release, Releases
  <2>3. CASE Closes
    <3>1. (R \in led'.lit) = FALSE
      BY <2>3 DEF Closes
    <3>2. across' \in {across, TRUE}
      BY <1>2, <1>4
    <3> QED BY <1>1, <2>3, <3>1, <3>2, Zenon DEF Mapped, Pulse!Next, Pulse!Close, Closes
  <2> QED BY <1>8, <2>1, <2>2, <2>3
<1> QED BY <1>5, <1>6, <1>7, <1>8, <1>9, <1>10

(* Whatever is shown by another LED leaves the relay alone.                *)
LEMMA OtherStage ==
  ASSUME Staged(led), led'.ctl[R] = led.ctl[R], R \in led'.lit <=> R \in led.lit,
         R \in led'.astray <=> R \in led.astray,
         R \notin led'.pre, led'.clock = led.clock, led.event => led'.event,
         UNCHANGED <<since, across>>
  PROVE  Staged(led)'
BY DEF Staged, AtRest, Asked, Opened, Shut

(* Another LED is switched.                                                *)
LEMMA SetStep ==
  ASSUME IInv, NEW l \in Others, NEW on \in BOOLEAN, SetLed(l, on)
  PROVE  IInv' /\ Mapped
<1> USE RelayAssumption DEF IInv
<1>1. Sets(l, on) /\ UNCHANGED <<gate, since, across>>
  BY Zenon DEF Sets, SetLed
<1>2. l \in Leds /\ l # R /\ R \in Leds /\ led \in LedType
      /\ \A k \in Leds : Driven(k, led.ctl[k])
  BY DEF Typed, Others
<1>3. /\ led' \in LedType
      /\ led'.ctl[l] = Steady(IF on THEN {"On"} ELSE {})
      /\ \A k \in Leds \ {l} : /\ led'.ctl[k] = led.ctl[k]
                               /\ k \in led'.lit <=> k \in led.lit
                               /\ k \in led'.astray <=> k \in led.astray
      /\ led'.pre = led.pre /\ led'.event = led.event /\ led'.left = led.left
      /\ led'.clock = led.clock
  BY <1>1, <1>2, SetEffect
<1>4. "Blink" \notin led'.ctl[l].mode /\ Driven(l, led'.ctl[l])
  <2> DEFINE m == IF on THEN {"On"} ELSE {}
  <2>1. m \in {{}, {"On"}}
    OBVIOUS
  <2>2. led'.ctl[l] = Steady(m)
    BY <1>3
  <2> HIDE DEF m
  <2>3. Steady(m).mode = m /\ Driven(l, Steady(m))
    BY <1>2, <2>1, SteadyType
  <2> QED BY <2>1, <2>2, <2>3
<1>5. Typed'
  <2>1. \A k \in Leds : Driven(k, led'.ctl[k])
    BY <1>2, <1>3, <1>4
  <2>2. across' \in BOOLEAN
    BY <1>1, Zenon DEF Typed
  <2> QED BY <1>1, <1>3, <2>1, <2>2 DEF Typed
<1>6. NoLedOverslept'
  BY <1>2, <1>3, <1>4 DEF NoLedOverslept, Blinking
<1>7. Near(led)'
  BY <1>2, <1>3, <1>4 DEF Near, Blinking
<1>8. Staged(led)'
  BY <1>1, <1>2, <1>3, OtherStage DEF Staged
<1>9. Gated'
  BY <1>1, <1>2, <1>3 DEF Gated
<1>10. Mapped
  <2>1. R \in led'.lit <=> R \in led.lit
    BY <1>2, <1>3
  <2> QED BY <1>1, <2>1, Stuttering
<1> QED BY <1>5, <1>6, <1>7, <1>8, <1>9, <1>10

(* A blink that starts now is on its way: the event is set.                *)
LEMMA BlinkKeeps ==
  ASSUME IInv, NEW l \in Leds, led' \in LedType, led'.event,
         led'.clock = led.clock, led'.astray = led.astray \ {l},
         \A k \in Leds \ {l} : led'.ctl[k] = led.ctl[k],
         led'.ctl[l].next = led.clock
  PROVE  NoLedOverslept' /\ Near(led)'
<1>1. NoLedOverslept'
  BY DEF NoLedOverslept
<1>2. led.clock \in Int /\ WaitSize > 0
  BY RelayAssumption DEF IInv, Typed, LedType, Times
<1>3. ASSUME NEW k \in Leds, "Blink" \in led'.ctl[k].mode, k \notin led'.astray
      PROVE  led'.ctl[k].next - led'.clock < WaitSize
  <2>1. CASE k = l
    BY <1>2, <2>1
  <2>2. CASE k # l
    BY <1>3, <2>2 DEF IInv, Near, Blinking
  <2> QED BY <2>1, <2>2
<1>4. Near(led)'
  BY <1>3 DEF Near, Blinking
<1> QED BY <1>1, <1>4

(* Another LED is made to blink.                                           *)
LEMMA BlinkStep ==
  ASSUME IInv, NEW l \in Others, NEW b \in Blinks, BlinkLed(l, b)
  PROVE  IInv' /\ Mapped
<1> USE RelayAssumption DEF IInv
<1>1. BlinksIt(l, 0, b[1], b[2]) /\ UNCHANGED <<gate, since, across>>
  BY Zenon DEF BlinksIt, BlinkLed
<1>2. l \in Leds /\ l # R /\ R \in Leds /\ led \in LedType
      /\ \A k \in Leds : Driven(k, led.ctl[k])
  BY DEF Typed, Others
<1>3. b[1] \in Waits \ {0} /\ b[2] \in Waits \ {0} /\ 0 \in 0 .. 1
  <2>1. PICK t \in Halves : b = <<t, t>>
    BY Zenon DEF Blinks
  <2> QED BY <2>1 DEF Waits
<1>4. /\ led' \in LedType
      /\ led'.ctl = [led.ctl EXCEPT ![l] =
                  [mode |-> {"Blink"} \cup (IF 0 = 0 THEN {"Flash"} ELSE {}),
                   cycles |-> 0, onTime |-> b[1], offTime |-> b[2], next |-> led.clock]]
      /\ led'.lit = led.lit /\ led'.event /\ led'.clock = led.clock
      /\ led'.astray = led.astray \ {l}
      /\ led'.pre = IF {"Blink", "Flash"} \cap led.ctl[l].mode = {}
                      THEN led.pre \cup ({l} \cap led.lit) ELSE led.pre
  <2>1. b[1] \in Waits /\ b[2] \in Waits
    BY <1>3
  <2> QED BY <1>1, <1>2, <1>3, <2>1, BlinkEffect, Zenon
<1>5. \A k \in Leds \ {l} : led'.ctl[k] = led.ctl[k]
  BY <1>2, <1>4 DEF LedType
<1>6. Driven(l, led'.ctl[l]) /\ led'.ctl[l].next = led.clock
  BY <1>2, <1>3, <1>4 DEF Driven, LedType, Waits
<1>7. Typed'
  <2>1. \A k \in Leds : Driven(k, led'.ctl[k])
    BY <1>2, <1>5, <1>6
  <2>2. across' \in BOOLEAN
    BY <1>1, Zenon DEF Typed
  <2> QED BY <1>1, <1>4, <2>1, <2>2 DEF Typed
<1>8. NoLedOverslept' /\ Near(led)'
  BY <1>2, <1>4, <1>5, <1>6, BlinkKeeps
<1>9. Staged(led)'
  <2>1. R \notin led'.pre
    BY <1>2, <1>4 DEF Staged
  <2> QED BY <1>1, <1>2, <1>4, <1>5, <2>1, OtherStage
<1>10. Gated'
  BY <1>1, <1>2, <1>5 DEF Gated
<1>11. Mapped
  BY <1>1, <1>4, Zenon DEF Mapped, Pulse!vars
<1> QED BY <1>7, <1>8, <1>9, <1>10, <1>11

(* OPEN!                                                                   *)
LEMMA OpenLockStep ==
  ASSUME IInv, OpenLock
  PROVE  IInv' /\ Mapped
<1> USE RelayAssumption DEF IInv
<1>1. /\ BlinksIt(R, 1, PulseTime, PulseTime) /\ gate.isOpenLockEnable /\ since' = 0
      /\ gate' = [gate EXCEPT !.isOpenLockEnable = FALSE, !.left = GateTime]
      /\ across' = FALSE
  BY Zenon DEF BlinksIt, OpenLock, Accepted
<1>2. R \in Leds /\ led \in LedType /\ (\A k \in Leds : Driven(k, led.ctl[k])) /\ gate \in GateType
  BY DEF Typed
<1>3. since = GateTime /\ ~gate.event /\ (across \/ led.ctl[R].mode = {})
  BY <1>1 DEF Gated
<1>4. R \in led.lit => across
  BY <1>3 DEF Staged, AtRest, Asked, Opened, Shut
<1>5. /\ led' \in LedType
      /\ led'.ctl = [led.ctl EXCEPT ![R] =
                  [mode |-> {"Blink"} \cup (IF 1 = 0 THEN {"Flash"} ELSE {}),
                   cycles |-> 1, onTime |-> PulseTime, offTime |-> PulseTime,
                   next |-> led.clock]]
      /\ led'.lit = led.lit /\ led'.event /\ led'.clock = led.clock
      /\ led'.astray = led.astray \ {R}
      /\ led'.pre = IF {"Blink", "Flash"} \cap led.ctl[R].mode = {}
                      THEN led.pre \cup ({R} \cap led.lit) ELSE led.pre
  <2>1. 1 \in 0 .. 1 /\ PulseTime \in Waits
    BY DEF Waits
  <2> QED BY <1>1, <1>2, <2>1, BlinkEffect, Zenon
<1>6. led'.ctl[R] = [mode |-> {"Blink"}, cycles |-> 1, onTime |-> PulseTime,
                     offTime |-> PulseTime, next |-> led.clock]
  BY <1>2, <1>5 DEF LedType
<1>7. \A k \in Leds \ {R} : led'.ctl[k] = led.ctl[k]
  BY <1>2, <1>5 DEF LedType
<1>8. Typed'
  <2>1. Driven(R, led'.ctl[R])
    BY <1>6 DEF Driven
  <2>2. \A k \in Leds : Driven(k, led'.ctl[k])
    BY <1>2, <1>7, <2>1
  <2>3. gate' \in GateType /\ since' \in 0 .. GateTime
    <3>1. GateTime \in 0 .. GateTime /\ 0 \in 0 .. GateTime
      OBVIOUS
    <3> QED BY <1>1, <1>2, <3>1 DEF GateType
  <2> QED BY <1>1, <1>5, <2>2, <2>3 DEF Typed
<1>9. NoLedOverslept' /\ Near(led)'
  <2>1. led'.ctl[R].next = led.clock
    BY <1>6
  <2> QED BY <1>2, <1>5, <1>7, <2>1, BlinkKeeps
<1>10. Staged(led)'
  <2>1. Asked(led)'
    BY <1>1, <1>5, <1>6 DEF Asked
  <2>2. R \notin led'.pre
    <3>1. CASE "Blink" \in led.ctl[R].mode
      BY <1>5, <3>1 DEF Staged
    <3>2. CASE "Blink" \notin led.ctl[R].mode
      <4>1. R \notin led.lit
        BY <3>2, <1>3 DEF Staged, AtRest, Asked, Opened, Shut
      <4> QED BY <1>5, <4>1 DEF Staged
    <3> QED BY <3>1, <3>2
  <2> QED BY <1>5, <2>1, <2>2 DEF Staged
<1>11. Gated'
  BY <1>1, <1>2, <1>3 DEF Gated, GateType
<1>12. Mapped
  <2>1. (R \in led'.lit) = (R \in led.lit)
    BY <1>5
  <2> QED BY <1>1, <1>3, <1>4, <2>1, Zenon DEF Mapped, Pulse!Next, Pulse!Accept
<1> QED BY <1>8, <1>9, <1>10, <1>11, <1>12

(* Between two updates nothing is left to be done for the relay: what it   *)
(* waits for is ahead, or the wrap is in between.                          *)
LEMMA RelayWaits ==
  ASSUME IInv, ~led.event
  PROVE  /\ ~Asked(led)
         /\ ~across /\ "Blink" \in led.ctl[R].mode => led.ctl[R].next > led.clock
         /\ ~across /\ R \in led.lit => since < PulseTime
         /\ ~across /\ R \notin led.lit => since >= PulseTime
         /\ ~across /\ since = GateTime => led.ctl[R].mode = {} /\ R \notin led.lit
<1> USE RelayAssumption DEF IInv
<1>1. ~Asked(led)
  BY DEF Asked
<1>2. R \in Leds /\ led.ctl[R].next \in Int /\ led.clock \in Int /\ led.left \in Int /\ since \in Int
  BY DEF Typed, LedType, Control, Times, Waits
<1>3. ASSUME ~across, "Blink" \in led.ctl[R].mode PROVE led.ctl[R].next > led.clock
  <2>1. R \notin led.astray
    BY <1>3 DEF Staged
  <2>2. led.left > 0 /\ led.left <= led.ctl[R].next - led.clock
    BY <1>2, <1>3, <2>1 DEF NoLedOverslept, Blinking
  <2> QED BY <1>2, <2>2
<1>4. Opened(led) /\ ~across => since < PulseTime
  BY <1>2, <1>3 DEF Opened
<1>5. Shut(led) /\ ~across => since >= PulseTime /\ since < GateTime
  BY <1>2, <1>3 DEF Shut
<1>6. AtRest(led) /\ ~across => since >= PulseTime
  BY DEF AtRest
<1>7. AtRest(led) \/ Opened(led) \/ Shut(led)
  BY <1>1 DEF Staged
<1> QED BY <1>1, <1>2, <1>3, <1>4, <1>5, <1>6, <1>7 DEF AtRest, Opened, Shut

(* The lock can be asked again.                                            *)
LEMMA EnableStep ==
  ASSUME IInv, OpenLockEnable
  PROVE  IInv' /\ Mapped
<1> USE RelayAssumption DEF IInv
<1>1. /\ ~led.event /\ gate.event /\ UNCHANGED <<led, since, across>>
      /\ gate' = [gate EXCEPT !.isOpenLockEnable = TRUE, !.event = FALSE]
  BY Zenon DEF OpenLockEnable
<1>2. Typed'
  <2>1. gate' \in GateType
    BY <1>1 DEF Typed, GateType
  <2>2. across' \in BOOLEAN
    BY <1>1, Zenon DEF Typed
  <2> QED BY <1>1, <2>1, <2>2 DEF Typed
<1>3. NoLedOverslept' /\ Near(led)' /\ Staged(led)'
  BY <1>1 DEF NoLedOverslept, Near, Blinking, Staged, AtRest, Asked, Opened, Shut
<1>4. Gated'
  <2>1. across \/ led.ctl[R].mode = {}
    BY <1>1, RelayWaits DEF Gated
  <2> QED BY <1>1, <2>1 DEF Gated, Typed, GateType
<1>5. Mapped
  BY <1>1, Zenon DEF Mapped, Pulse!vars
<1> QED BY <1>2, <1>3, <1>4, <1>5

(* Time passes.                                                            *)
LEMMA TickStep ==
  ASSUME IInv, Tick
  PROVE  IInv' /\ Mapped
<1> USE RelayAssumption DEF IInv
<1>1. PICK d \in 1 .. MaxPass :
        /\ ~led.event /\ Ticks(d) /\ Noted
        /\ since' = GateTime - Less(GateTime - since, d)
        /\ gate' = [gate EXCEPT !.left = Less(@, d), !.event = @ \/ gate.left \in 1 .. d]
  BY Zenon DEF Tick, Ticks
<1>2. R \in Leds /\ led \in LedType /\ (\A k \in Leds : Driven(k, led.ctl[k]))
      /\ since \in 0 .. GateTime /\ gate \in GateType /\ across \in BOOLEAN
  BY DEF Typed
<1>3. /\ led' \in LedType
      /\ led'.ctl = led.ctl /\ led'.lit = led.lit /\ led'.pre = led.pre
      /\ led'.left = Less(led.left, d)
      /\ led'.event <=> led.event \/ led.left \in 1 .. d
      /\ \/ led'.clock = led.clock + d /\ led'.astray = led.astray
         \/ led'.astray = led.astray \cup {l \in Blinking(led) : ~Passed(led, l)}
  BY <1>1, <1>2, TickEffect
<1>4. across' \in BOOLEAN /\ (across' <=> across \/ R \in led'.astray)
  BY <1>1, NotedEffect
<1>5. \A l \in Blinking(led) \ led.astray : led.left > 0 /\ led.left <= led.ctl[l].next - led.clock
  BY <1>1 DEF NoLedOverslept
<1>6. led.left \in Nat /\ led.clock \in Int /\ \A l \in Leds : led.ctl[l].next \in Int
  BY <1>2 DEF LedType, Control, Waits, Times
<1>7. since' = IF since + d < GateTime THEN since + d ELSE GateTime
  <2>1. CASE GateTime - since > d
    BY <1>1, <1>2, <2>1 DEF Less
  <2>2. CASE GateTime - since <= d
    BY <1>1, <1>2, <2>2 DEF Less
  <2> QED BY <1>2, <2>1, <2>2
<1>8. gate'.left = Less(gate.left, d) /\ gate' \in GateType
      /\ gate'.isOpenLockEnable = gate.isOpenLockEnable
      /\ (gate'.event <=> gate.event \/ gate.left \in 1 .. d)
  <2> DEFINE left == Less(gate.left, d)
             event == gate.event \/ gate.left \in 1 .. d
  <2>1. left \in 0 .. GateTime /\ event \in BOOLEAN
    BY <1>2, LessType DEF GateType
  <2>2. gate' = [gate EXCEPT !.left = left, !.event = event]
    BY <1>1, Zenon
  <2> HIDE DEF left, event
  <2>3. gate'.left = left /\ gate' \in GateType
        /\ gate'.isOpenLockEnable = gate.isOpenLockEnable /\ gate'.event = event
    BY <1>2, <2>1, <2>2 DEF GateType
  <2> QED BY <2>3 DEF left, event
<1>9. \/ led'.clock = led.clock + d /\ led'.astray = led.astray
      \/ \A l \in Blinking(led) : l \in led'.astray
  <2>1. \A l \in Blinking(led) \ led.astray : ~Passed(led, l)
    BY <1>5, <1>6 DEF Passed, Blinking
  <2> QED BY <1>3, <2>1
<1>10. Typed'
  <2>1. since' \in 0 .. GateTime
    BY <1>2, <1>7
  <2> QED BY <1>2, <1>3, <1>4, <1>8, <2>1 DEF Typed
<1>11. NoLedOverslept' /\ Near(led)'
  <2> SUFFICES ASSUME NEW l \in Leds, "Blink" \in led'.ctl[l].mode, l \notin led'.astray
               PROVE  /\ led'.event \/ (led'.left > 0 /\ led'.left <= led'.ctl[l].next - led'.clock)
                      /\ led'.ctl[l].next - led'.clock < WaitSize
    BY DEF NoLedOverslept, Near, Blinking
  <2>1. l \in Blinking(led) /\ l \notin led.astray /\ led'.ctl[l] = led.ctl[l]
        /\ led'.clock = led.clock + d
    BY <1>3, <1>9 DEF Blinking
  <2>2. /\ led.left > 0 /\ led.left <= led.ctl[l].next - led.clock
        /\ led.ctl[l].next - led.clock < WaitSize /\ led.ctl[l].next \in Int
    BY <1>5, <1>6, <2>1 DEF Near
  <2>3. led'.event \/ led.left > d
    BY <1>3, <1>6, <2>2
  <2>4. led.left > d => led'.left = led.left - d
    BY <1>3, <1>6, LessType DEF Less
  <2> QED BY <1>6, <2>1, <2>2, <2>3, <2>4
<1>12. /\ ~Asked(led)
       /\ ~across /\ "Blink" \in led.ctl[R].mode => led.ctl[R].next > led.clock
       /\ ~across /\ R \in led.lit => since < PulseTime
       /\ ~across /\ R \notin led.lit => since >= PulseTime
       /\ ~across /\ since = GateTime => led.ctl[R].mode = {} /\ R \notin led.lit
  BY <1>1, RelayWaits
<1>13. across' \/ "Blink" \notin led.ctl[R].mode
       \/ (led'.clock = led.clock + d /\ ~across)
  <2>1. "Blink" \in led.ctl[R].mode => R \in Blinking(led)
    BY <1>2 DEF Blinking
  <2> QED BY <1>4, <1>9, <2>1
<1>14. Staged(led)'
  <2>1. across => across'
    BY <1>4
  <2>2. since' \in Int /\ since' >= since /\ since' <= since + d
    BY <1>2, <1>7
  <2>3. AtRest(led) => AtRest(led)'
    BY <1>2, <1>3, <2>1, <2>2 DEF AtRest
  <2>4. Opened(led) => Opened(led)'
    <3> SUFFICES ASSUME Opened(led), ~across'
                 PROVE  /\ led'.ctl[R].next - led'.clock + since' = PulseTime
                        /\ since' <= PulseTime + MaxPass - 1
      BY <1>3 DEF Opened
    <3>1. led'.clock = led.clock + d /\ ~across /\ led.ctl[R].next > led.clock
      BY <1>12, <1>13 DEF Opened
    <3>2. led.ctl[R].next - led.clock + since = PulseTime
      BY <3>1 DEF Opened
    <3>3. since < PulseTime /\ since + d <= GateTime
      BY <1>2, <1>6, <3>1, <3>2
    <3>4. since' = since + d
      BY <1>2, <1>7, <3>3
    <3> QED BY <1>2, <1>3, <1>6, <3>1, <3>2, <3>3, <3>4
  <2>5. Shut(led) => Shut(led)'
    <3> SUFFICES ASSUME Shut(led), ~across'
                 PROVE  /\ led'.ctl[R].next - led'.clock + since' <= 2 * PulseTime + MaxPass - 1
                        /\ since' >= PulseTime
      BY <1>3 DEF Shut
    <3>1. led'.clock = led.clock + d /\ ~across
      BY <1>13 DEF Shut
    <3>2. /\ led.ctl[R].next - led.clock + since <= 2 * PulseTime + MaxPass - 1
          /\ since >= PulseTime
      BY <3>1 DEF Shut
    <3> QED BY <1>2, <1>3, <1>6, <2>2, <3>1, <3>2
  <2>6. R \notin led'.pre /\ (R \in led'.astray => across')
    BY <1>3, <1>4 DEF Staged
  <2> QED BY <1>12, <2>3, <2>4, <2>5, <2>6 DEF Staged
<1>15. Gated'
  <2>1. gate.left \in Nat /\ gate.left + since = GateTime
    BY <1>2 DEF Gated, GateType
  <2>2. gate'.left + since' = GateTime
    BY <1>2, <1>7, <1>8, <2>1 DEF Less
  <2>3. gate'.isOpenLockEnable \/ gate'.event => since' = GateTime
    BY <1>2, <1>7, <1>8, <2>1 DEF Gated
  <2>4. ~(gate'.isOpenLockEnable /\ gate'.event)
    BY <1>2, <1>8, <2>1 DEF Gated
  <2>5. gate'.isOpenLockEnable => across' \/ led'.ctl[R].mode = {}
    BY <1>3, <1>4, <1>8 DEF Gated
  <2> QED BY <2>2, <2>3, <2>4, <2>5 DEF Gated
<1>16. Mapped
  <2>1. (R \in led'.lit) = (R \in led.lit)
    BY <1>3
  <2>2. CASE since = GateTime
    <3>1. since' = since
      BY <1>2, <1>7, <2>2
    <3>2. across' <=> across
      <4>1. ~across => R \notin led'.astray
        BY <1>3, <1>12, <2>2 DEF Staged, Blinking
      <4> QED BY <1>4, <4>1
    <3>3. across' = across
      BY <1>2, <1>4, <3>2, SameBoolean
    <3> QED BY <2>1, <3>1, <3>3, Zenon DEF Mapped, Pulse!vars
  <2>3. CASE since # GateTime
    <3>1. since < GateTime
      BY <1>2, <2>3
    <3>2. ~across => IF R \in led.lit THEN since < PulseTime ELSE since >= PulseTime
      BY <1>12
    <3>3. across' \in {across, TRUE}
      BY <1>2, <1>4
    <3> QED BY <1>7, <2>1, <3>1, <3>2, <3>3, Zenon DEF Mapped, Pulse!Next, Pulse!Tick
  <2> QED BY <2>2, <2>3
<1> QED BY <1>10, <1>11, <1>14, <1>15, <1>16

(* Every step keeps the invariant and is one of the pulse or none.         *)
LEMMA NextIInv == IInv /\ [Next]_vars => IInv' /\ Mapped
<1> SUFFICES ASSUME IInv, [Next]_vars PROVE IInv' /\ Mapped
  OBVIOUS
<1>1. CASE UNCHANGED vars
  <2>1. UNCHANGED <<led, gate, since, across>>
    BY <1>1 DEF vars
  <2>2. Typed'
    BY <2>1, Zenon DEF IInv, Typed
  <2>3. (NoLedOverslept /\ Near(led) /\ Staged(led) /\ Gated)'
    BY <2>1 DEF IInv, NoLedOverslept, Near, Blinking, Staged, AtRest, Asked, Opened, Shut, Gated
  <2>4. Mapped
    BY <2>1, Zenon DEF Mapped, Pulse!vars
  <2> QED BY <2>2, <2>3, <2>4 DEF IInv
<1>2. CASE Next
  BY <1>2, EventStep, OpenLockStep, EnableStep, TickStep, SetStep, BlinkStep DEF Next
<1> QED BY <1>1, <1>2

(* HalLedUpdate, OpenLock and OpenLockEnable of app_lock.c: the relay is   *)
(* on only in its blink and, unless the clock wraps across the blink, at   *)
(* rest when the lock may be asked to open; and the shared timer is late   *)
(* for no LED that the wrap spares.                                        *)
THEOREM RelayIsAtRest == Spec => []RelayAtRest
<1>1. IInv => RelayAtRest
  <2> SUFFICES ASSUME IInv PROVE RelayAtRest
    OBVIOUS
  <2> USE RelayAssumption DEF IInv
  <2>1. TypeOK
    BY DEF Typed, TypeOK, LedType, Control, Driven, GateType, Waits, Times
  <2>2. R \in led.lit => "Blink" \in led.ctl[R].mode
    BY DEF Staged, AtRest, Asked, Opened, Shut
  <2>3. gate.isOpenLockEnable => across \/ R \notin Blinking(led) \cup led.lit
    BY <2>2 DEF Gated, Blinking
  <2> QED BY <2>1, <2>2, <2>3 DEF RelayAtRest
<1> QED BY <1>1, InitIInv, NextIInv, PTL DEF Spec

(* Each accepted request releases the lock once, at once and until the     *)
(* update at which the pulse is over, whatever the other LEDs show, unless *)
(* the clock wraps across it: Relay implements LockPulse.                  *)
THEOREM RelayImplementsPulse == Spec => OneExactPulse
<1>1. Init => Pulse!Init
  <2> SUFFICES ASSUME Init PROVE Pulse!Init
    OBVIOUS
  <2>1. since = GateTime /\ ~across
    BY Zenon DEF Init
  <2>2. R \notin led.lit
    <3>1. GateTime # 0 /\ gate.isOpenLockEnable
      BY RelayAssumption DEF Init
    <3>2. led.ctl[R].mode = {} /\ Staged(led)
      BY InitIInv, <2>1, <3>1 DEF IInv, Gated
    <3> QED BY <3>2 DEF Staged, AtRest, Asked, Opened, Shut
  <2> QED BY <2>1, <2>2 DEF Pulse!Init
<1>2. IInv /\ [Next]_vars => [Pulse!Next]_Pulse!vars
  BY NextIInv DEF Mapped
<1> QED BY <1>1, <1>2, InitIInv, NextIInv, PTL DEF Spec, OneExactPulse, Pulse!Spec
=============================================================================
