----------------------------- MODULE OsalTimers -----------------------------
(***************************************************************************)
(* The timers and the clock of OSAL (src/firmware/osal/osal_timers.c and   *)
(* osal_clock.c).  A 16-bit counter of the 1 ms interrupt is turned into   *)
(* elapsed time by the main loop, which moves the clock and counts every   *)
(* timer down; a timer that reaches 0 sets its event.  A stopped timer is  *)
(* only marked, and leaves the list in the next update.                    *)
(*                                                                         *)
(* The list is a function of the heap blocks its records are in; nothing   *)
(* depends on its order as long as a timer has one record.                 *)
(***************************************************************************)
EXTENDS Naturals, TLC

CONSTANTS
  Timer,        \* the pairs of a task and an event flag
  Timeouts,     \* what timers are started with
  Blocks,       \* the heap blocks there are for timer records
  None,         \* event_flag 0: the timer was stopped
  Free,         \* the block holds no record
  Byte,         \* 256, the carry of 8-bit arithmetic
  Wrap,         \* 2^16, the range of systick
  MaxLag,       \* how many ticks a pass of the main loop may take
  MaxTime       \* the length of a run

ASSUME TimersAssumption ==
  /\ Timeouts \subseteq Nat \ {0}
  /\ {None, Free} \cap Timer = {} /\ None # Free
  /\ Byte \in Nat \ {0}
  /\ Wrap \in Nat \ {0, 1}
  /\ MaxLag \in 1 .. Wrap - 1
  /\ MaxTime \in Nat

VARIABLES
  timers,       \* the records: id (task_id and event_flag), timeout, reload
  events,       \* the timers whose event is set
  systick, preSystick,
  osal_systemClock,
  now           \* the milliseconds since reset, which the program cannot see

vars == <<timers, events, systick, preSystick, osal_systemClock, now>>

NoRecord == [id |-> Free, timeout |-> 0, reload |-> 0]

Init ==
  /\ timers = [b \in Blocks |-> NoRecord]
  /\ events = {}
  /\ systick = 0 /\ preSystick = 0
  /\ osal_systemClock = 0
  /\ now = 0

-----------------------------------------------------------------------------

(* osalFindTimer *)
FindTimer(x) == {b \in Blocks : timers[b].id = x}

(* Mutant: it does not look for an existing timer first. *)
AddTimer_Always(x, d) ==
  \E b \in FindTimer(Free) :
    timers' = [timers EXCEPT ![b] = [id |-> x, timeout |-> d, reload |-> 0]]

(* osalAddTimer: an existing timer is set anew (it keeps its reload time), *)
(* else a block is allocated; without one the caller gets NO_TIMER_AVAIL.  *)
SlotFor(x) == IF FindTimer(x) # {} THEN FindTimer(x) ELSE FindTimer(Free)

AddTimer(x, d) ==
  \/ \E b \in FindTimer(x) :
       timers' = [timers EXCEPT ![b] = [@ EXCEPT !.timeout = d]]
  \/ /\ FindTimer(x) = {}
     /\ \E b \in FindTimer(Free) :
          timers' = [timers EXCEPT ![b] = [id |-> x, timeout |-> d, reload |-> 0]]
  \/ SlotFor(x) = {} /\ UNCHANGED timers

Untouched == UNCHANGED <<events, systick, preSystick, osal_systemClock, now>>

StartTimerEx(x, d) == AddTimer(x, d) /\ Untouched

StartReloadTimer(x, d) ==
  /\ \/ \E b \in SlotFor(x) :
          timers' = [timers EXCEPT ![b] = [id |-> x, timeout |-> d, reload |-> d]]
     \/ SlotFor(x) = {} /\ UNCHANGED timers
  /\ Untouched

(* osal_stop_timerEx marks the record; an event that is already set stays. *)
StopTimerEx(x) ==
  /\ \E b \in FindTimer(x) : timers' = [timers EXCEPT ![b].id = None]
  /\ Untouched

(* The task works off the event. *)
Take(x) ==
  /\ x \in events
  /\ events' = events \ {x}
  /\ UNCHANGED <<timers, systick, preSystick, osal_systemClock, now>>

-----------------------------------------------------------------------------

(* Mutant: a counter that does not wrap. *)
SystickUpdate_Wide ==
  /\ now < MaxTime
  /\ systick' = systick + 1
  /\ now' = now + 1
  /\ UNCHANGED <<timers, events, preSystick, osal_systemClock>>

(* The SysTick interrupt.  MaxLag is the latest the main loop comes round. *)
Unseen == IF systick >= preSystick THEN systick - preSystick
                                   ELSE Wrap - preSystick + systick

SystickUpdate ==
  /\ now < MaxTime /\ Unseen < MaxLag
  /\ systick' = (systick + 1) % Wrap
  /\ now' = now + 1
  /\ UNCHANGED <<timers, events, preSystick, osal_systemClock>>

(* Mutant: the low bytes are subtracted without looking at the borrow.     *)
CountDown_Borrows(t, d) ==
  IF d < Byte THEN (t - (t % Byte)) + (((t % Byte) + (Byte - d)) % Byte)
  ELSE IF t > d THEN t - d ELSE 0

(* What is left of timeout t: the low bytes are subtracted where this      *)
(* needs no borrow, the whole numbers elsewhere.                           *)
CountDown(t, d) ==
  IF d < Byte /\ t % Byte >= d
    THEN t - d
    ELSE IF t > d THEN t - d ELSE 0

(* osalTimerUpdate: a reload timer that is due starts again, and the other *)
(* ones that are due or stopped give their blocks back.                    *)
Updated(rec, d) ==
  LET t == CountDown(rec.timeout, d)
      gone == rec.id \in {Free, None}
  IN  CASE gone \/ (t = 0 /\ rec.reload = 0) -> NoRecord
        [] ~gone /\ t = 0 /\ rec.reload # 0 -> [rec EXCEPT !.timeout = rec.reload]
        [] OTHER -> [rec EXCEPT !.timeout = t]

Expired(d) ==
  {x \in Timer : \E b \in FindTimer(x) : CountDown(timers[b].timeout, d) = 0}

(* osalTimeUpdate: where the counter has wrapped, UINT16_MAX stands for    *)
(* the 2^16 it is short of by one.                                         *)
Elapsed == IF systick > preSystick THEN systick - preSystick
                                   ELSE (Wrap - 1) - preSystick + systick

TimerUpdate(d) ==
  /\ osal_systemClock' = osal_systemClock + d
  /\ timers' = [b \in Blocks |-> Updated(timers[b], d)]
  /\ events' = events \cup Expired(d)

(* Mutant: preSystick is only set where time has elapsed on the clock.     *)
TimeUpdate_Forgets ==
  /\ systick # preSystick
  /\ IF systick > preSystick THEN preSystick' = systick ELSE UNCHANGED preSystick
  /\ IF Elapsed > 0
       THEN TimerUpdate(Elapsed)
       ELSE UNCHANGED <<osal_systemClock, timers, events>>
  /\ UNCHANGED <<systick, now>>

TimeUpdate ==
  /\ systick # preSystick
  /\ preSystick' = systick
  /\ IF Elapsed > 0
       THEN TimerUpdate(Elapsed)
       ELSE UNCHANGED <<osal_systemClock, timers, events>>
  /\ UNCHANGED <<systick, now>>

Next ==
  \/ \E x \in Timer, d \in Timeouts : StartTimerEx(x, d) \/ StartReloadTimer(x, d)
  \/ \E x \in Timer : StopTimerEx(x) \/ Take(x)
  \/ SystickUpdate \/ TimeUpdate

Spec == Init /\ [][Next]_vars

-----------------------------------------------------------------------------

Record ==
  [id : {Free}, timeout : {0}, reload : {0}]
    \cup [id : Timer \cup {None}, timeout : Nat \ {0}, reload : Nat]

TypeOK ==
  /\ timers \in [Blocks -> Record]
  /\ events \subseteq Timer
  /\ systick \in 0 .. Wrap - 1 /\ preSystick \in 0 .. Wrap - 1
  /\ osal_systemClock \in Nat /\ now \in Nat

(* A timer never has two records, although a stopped one lingers in the    *)
(* list and may be started again: a second record would set the event      *)
(* twice, and osal_stop_timerEx would stop only the first.                 *)
OneRecordPerTimer ==
  \A b, c \in Blocks : timers[b].id \in Timer /\ timers[b].id = timers[c].id => b = c

(* The clock ("Milliseconds since last reboot", osal_timers.c:103) counts  *)
(* every millisecond the main loop has seen but one of each round of the   *)
(* counter: it never runs ahead (no timer expires before its time, as seen *)
(* from the start of the pass that started it), and it falls behind by no  *)
(* more than that, however late the passes come.                           *)
ClockKeepsTime ==
  LET seen == now - Unseen
  IN  osal_systemClock = seen - seen \div Wrap

(* The list of counters does what module Timers promises: a timer with a   *)
(* record is due when the clock has gone on by its timeout.                *)
RecordOf(list, x) == CHOOSE b \in Blocks : list[b].id = x
Runs(list, x) == \E b \in Blocks : list[b].id = x
Due(list, time, x) ==
  IF Runs(list, x) THEN time + list[RecordOf(list, x)].timeout ELSE 0
Period(list, x) == IF Runs(list, x) THEN list[RecordOf(list, x)].reload ELSE 0

Contract == INSTANCE Timers WITH
  clock <- osal_systemClock,
  due <- [x \in Timer |-> Due(timers, osal_systemClock, x)],
  period <- [x \in Timer |-> Period(timers, x)]

TimersKeepContract == Contract!Spec

(* Blocks and timers are interchangeable, and no property is a liveness    *)
(* property.                                                               *)
Interchange == Permutations(Blocks) \cup Permutations(Timer)
=============================================================================
