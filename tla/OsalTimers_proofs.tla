-------------------------- MODULE OsalTimers_proofs --------------------------
(***************************************************************************)
(* For all timers, timeouts, heaps and widths of the counters, the list of *)
(* timer records keeps the contract of module Timers, and the clock keeps  *)
(* time but for a millisecond in each round of the tick counter.           *)
(***************************************************************************)
EXTENDS OsalTimers, TLAPS

(* The two ways of subtracting agree: what is left is never negative and   *)
(* never borrows.                                                          *)
LEMMA CountDownSubtracts ==
  ASSUME NEW t \in Nat, NEW d \in Nat
  PROVE  CountDown(t, d) = IF t > d THEN t - d ELSE 0
<1>1. t % Byte <= t
  <2>1. Byte \in Nat \ {0}
    BY TimersAssumption
  <2>2. t % Byte \in 0 .. Byte - 1 /\ t = Byte * (t \div Byte) + (t % Byte)
    BY <2>1
  <2>3. t \div Byte \in Nat
    BY <2>1
  <2>4. Byte * (t \div Byte) \in Nat
    BY <2>1, <2>3
  <2> QED BY <2>2, <2>4
<1> QED BY <1>1, TimersAssumption DEF CountDown

(* An update keeps a record what it is, or frees its block.                *)
LEMMA UpdatedRecord ==
  ASSUME NEW rec \in Record, NEW d \in Nat
  PROVE  /\ Updated(rec, d) \in Record
         /\ Updated(rec, d).id \in Timer => Updated(rec, d).id = rec.id
<1> DEFINE t == CountDown(rec.timeout, d)
<1> USE TimersAssumption
<1>1. CASE rec.id \in {Free, None}
  BY <1>1 DEF Updated, Record, NoRecord
<1>2. CASE rec.id \in Timer
  <2>1. /\ rec \in [id : Timer \cup {None}, timeout : Nat \ {0}, reload : Nat]
        /\ t \in Nat
    BY <1>2, CountDownSubtracts DEF Record
  <2>2. CASE t = 0 /\ rec.reload = 0
    BY <1>2, <2>2 DEF Updated, Record, NoRecord
  <2>3. CASE t = 0 /\ rec.reload # 0
    BY <1>2, <2>1, <2>3 DEF Updated, Record
  <2>4. CASE t # 0
    BY <1>2, <2>1, <2>4 DEF Updated, Record
  <2> QED BY <2>1, <2>2, <2>3, <2>4
<1> QED BY <1>1, <1>2 DEF Record

(* What an update makes of the record of a running timer.                  *)
LEMMA UpdatedTimer ==
  ASSUME NEW rec \in Record, rec.id \in Timer, NEW d \in Nat
  PROVE  Updated(rec, d) =
           IF rec.timeout > d THEN [rec EXCEPT !.timeout = rec.timeout - d]
           ELSE IF rec.reload # 0 THEN [rec EXCEPT !.timeout = rec.reload]
           ELSE NoRecord
<1>1. rec.id # Free /\ rec.id # None /\ rec.timeout \in Nat
  BY TimersAssumption DEF Record
<1>2. CountDown(rec.timeout, d) = IF rec.timeout > d THEN rec.timeout - d ELSE 0
  BY <1>1, CountDownSubtracts
<1>3. CASE rec.timeout > d
  <2>1. CountDown(rec.timeout, d) = rec.timeout - d /\ rec.timeout - d # 0
    BY <1>1, <1>2, <1>3
  <2> QED BY <1>1, <1>3, <2>1 DEF Updated
<1>4. CASE ~(rec.timeout > d)
  <2>1. CountDown(rec.timeout, d) = 0
    BY <1>2, <1>4
  <2> QED BY <1>1, <1>4, <2>1 DEF Updated
<1> QED BY <1>3, <1>4

(* The milliseconds an update counts. *)
LEMMA ElapsedInNat ==
  ASSUME TypeOK PROVE Elapsed \in Nat
BY TimersAssumption DEF TypeOK, Elapsed

(* The records and counters keep their types, and a stopped record that    *)
(* lingers never leads to a second one for its timer.                      *)
IInv == TypeOK /\ OneRecordPerTimer

LEMMA InitIInv == Init => IInv
BY TimersAssumption DEF Init, IInv, TypeOK, OneRecordPerTimer, Record, NoRecord

LEMMA NextIInv == IInv /\ [Next]_vars => IInv'
<1> SUFFICES ASSUME IInv, [Next]_vars PROVE IInv'
  OBVIOUS
<1> USE TimersAssumption DEF IInv, TypeOK, OneRecordPerTimer
<1>1. ASSUME NEW x \in Timer, NEW d \in Timeouts, StartTimerEx(x, d) PROVE IInv'
  <2>1. timers' \in [Blocks -> Record]
    BY <1>1 DEF StartTimerEx, AddTimer, SlotFor, FindTimer, Record
  <2>2. OneRecordPerTimer'
    BY <1>1 DEF StartTimerEx, AddTimer, SlotFor, FindTimer, Record
  <2> QED BY <1>1, <2>1, <2>2 DEF StartTimerEx, Untouched
<1>2. ASSUME NEW x \in Timer, NEW d \in Timeouts, StartReloadTimer(x, d) PROVE IInv'
  <2>1. timers' \in [Blocks -> Record]
    BY <1>2 DEF StartReloadTimer, SlotFor, FindTimer, Record
  <2>2. OneRecordPerTimer'
    BY <1>2 DEF StartReloadTimer, SlotFor, FindTimer, Record
  <2> QED BY <1>2, <2>1, <2>2 DEF StartReloadTimer, Untouched
<1>3. ASSUME NEW x \in Timer, StopTimerEx(x) PROVE IInv'
  BY <1>3 DEF StopTimerEx, FindTimer, Record, Untouched
<1>4. ASSUME NEW x \in Timer, Take(x) PROVE IInv'
  BY <1>4 DEF Take
<1>5. CASE SystickUpdate
  BY <1>5 DEF SystickUpdate
<1>6. CASE TimeUpdate
  <2>1. CASE Elapsed > 0
    <3>1. Elapsed \in Nat
      BY ElapsedInNat
    <3>2. timers' = [b \in Blocks |-> Updated(timers[b], Elapsed)]
      BY <1>6, <2>1 DEF TimeUpdate, TimerUpdate
    <3>3. timers' \in [Blocks -> Record]
      BY <3>1, <3>2, UpdatedRecord
    <3>4. OneRecordPerTimer'
      BY <3>1, <3>2, UpdatedRecord
    <3>5. events' \subseteq Timer /\ osal_systemClock' \in Nat
      BY <1>6, <2>1, <3>1 DEF TimeUpdate, TimerUpdate, Expired
    <3> QED BY <1>6, <3>3, <3>4, <3>5 DEF TimeUpdate
  <2>2. CASE ~(Elapsed > 0)
    BY <1>6, <2>2 DEF TimeUpdate
  <2> QED BY <2>1, <2>2
<1>7. CASE UNCHANGED vars
  BY <1>7 DEF vars
<1> QED BY <1>1, <1>2, <1>3, <1>4, <1>5, <1>6, <1>7 DEF Next

(* The type invariant holds in every behaviour of the timers.              *)
THEOREM TypeCorrect == Spec => []TypeOK
<1>1. IInv => TypeOK
  BY DEF IInv
<1> QED BY <1>1, InitIInv, NextIInv, PTL DEF Spec

(* osalAddTimer and osal_stop_timerEx never leave a timer with two records.*)
THEOREM OneRecord == Spec => []OneRecordPerTimer
<1>1. IInv => OneRecordPerTimer
  BY DEF IInv
<1> QED BY <1>1, InitIInv, NextIInv, PTL DEF Spec

-----------------------------------------------------------------------------

(* What a list with one record per timer maps to. *)
Unique(list) ==
  \A b, c \in Blocks : list[b].id \in Timer /\ list[b].id = list[c].id => b = c

LEMMA Running ==
  ASSUME NEW list, Unique(list), NEW time, NEW x \in Timer,
         NEW b \in Blocks, list[b].id = x
  PROVE  /\ Due(list, time, x) = time + list[b].timeout
         /\ Period(list, x) = list[b].reload
<1>1. RecordOf(list, x) \in Blocks /\ list[RecordOf(list, x)].id = x
  BY DEF RecordOf
<1>2. RecordOf(list, x) = b
  BY <1>1 DEF Unique
<1> QED BY <1>2 DEF Due, Period, Runs

LEMMA NotRunning ==
  ASSUME NEW list, NEW time, NEW x \in Timer, \A b \in Blocks : list[b].id # x
  PROVE  Due(list, time, x) = 0 /\ Period(list, x) = 0
BY DEF Due, Period, Runs

(* Writing record r into block b changes what x maps to, and nothing else, *)
(* if b held x or nothing before and holds x or a stopped record now.      *)
LEMMA Written ==
  ASSUME NEW list, NEW list2, Unique(list), Unique(list2),
         NEW r, NEW b \in Blocks, NEW x \in Timer, NEW time,
         list2[b] = r, \A c \in Blocks \ {b} : list2[c] = list[c],
         \/ r.id = x /\ list[b].id \in {x, Free}
         \/ r.id = None /\ list[b].id = x
  PROVE  /\ Due(list2, time, x) = IF r.id = x THEN time + r.timeout ELSE 0
         /\ Period(list2, x) = IF r.id = x THEN r.reload ELSE 0
         /\ \A y \in Timer \ {x} : /\ Due(list2, time, y) = Due(list, time, y)
                                  /\ Period(list2, y) = Period(list, y)
<1>1. None \notin Timer /\ Free \notin Timer
  BY TimersAssumption
<1>2. /\ Due(list2, time, x) = IF r.id = x THEN time + r.timeout ELSE 0
      /\ Period(list2, x) = IF r.id = x THEN r.reload ELSE 0
  <2>1. CASE r.id = x
    BY <2>1, Running
  <2>2. CASE r.id = None /\ list[b].id = x
    <3>1. \A c \in Blocks \ {b} : list[c].id # x
      BY <2>2 DEF Unique
    <3>2. \A c \in Blocks : list2[c].id # x
      BY <1>1, <2>2, <3>1
    <3> QED BY <1>1, <2>2, <3>2, NotRunning
  <2> QED BY <2>1, <2>2
<1>3. ASSUME NEW y \in Timer \ {x}
      PROVE  /\ Due(list2, time, y) = Due(list, time, y)
             /\ Period(list2, y) = Period(list, y)
  <2>1. list[b].id # y /\ list2[b].id # y
    BY <1>1
  <2>2. CASE \E c \in Blocks : list[c].id = y
    <3>1. PICK c \in Blocks : list[c].id = y
      BY <2>2
    <3>2. c # b /\ list2[c] = list[c]
      BY <2>1, <3>1
    <3>3. Due(list, time, y) = time + list[c].timeout /\ Period(list, y) = list[c].reload
      BY <3>1, Running
    <3>4. Due(list2, time, y) = time + list[c].timeout /\ Period(list2, y) = list[c].reload
      BY <3>1, <3>2, Running
    <3> QED BY <3>3, <3>4
  <2>3. CASE \A c \in Blocks : list[c].id # y
    <3>1. \A c \in Blocks : list2[c].id # y
      BY <2>1, <2>3
    <3> QED BY <2>3, <3>1, NotRunning
  <2> QED BY <2>2, <2>3
<1> QED BY <1>2, <1>3

LEMMA InitContract == Init => Contract!Init
<1> SUFFICES ASSUME Init PROVE Contract!Init
  OBVIOUS
<1>1. \A x \in Timer : \A b \in Blocks : timers[b].id # x
  BY TimersAssumption DEF Init, NoRecord
<1>2. \A x \in Timer : Due(timers, osal_systemClock, x) = 0 /\ Period(timers, x) = 0
  BY <1>1, NotRunning
<1> QED BY <1>2 DEF Init, Contract!Init


DueNow == [x \in Timer |-> Due(timers, osal_systemClock, x)]
PeriodNow == [x \in Timer |-> Period(timers, x)]

(* A step that writes one record, seen as a step of the contract.          *)
LEMMA WriteStep ==
  ASSUME IInv, IInv', NEW r \in Record, NEW b \in Blocks, NEW x \in Timer,
         timers'[b] = r, \A c \in Blocks \ {b} : timers'[c] = timers[c],
         UNCHANGED osal_systemClock,
         \/ r.id = x /\ timers[b].id \in {x, Free}
         \/ r.id = None /\ timers[b].id = x
  PROVE  /\ DueNow' = [DueNow EXCEPT ![x] =
                         IF r.id = x THEN osal_systemClock + r.timeout ELSE 0]
         /\ PeriodNow' = [PeriodNow EXCEPT ![x] = IF r.id = x THEN r.reload ELSE 0]
<1>1. timers \in [Blocks -> Record] /\ Unique(timers) /\ Unique(timers')
  BY DEF IInv, TypeOK, OneRecordPerTimer, Unique
<1>2. /\ Due(timers', osal_systemClock, x)
           = IF r.id = x THEN osal_systemClock + r.timeout ELSE 0
      /\ Period(timers', x) = IF r.id = x THEN r.reload ELSE 0
      /\ \A y \in Timer \ {x} :
           /\ Due(timers', osal_systemClock, y) = Due(timers, osal_systemClock, y)
           /\ Period(timers', y) = Period(timers, y)
  BY <1>1, Written
<1>3. DueNow' = [y \in Timer |-> Due(timers', osal_systemClock, y)]
  BY DEF DueNow
<1>4. PeriodNow' = [y \in Timer |-> Period(timers', y)]
  BY DEF PeriodNow
<1> QED BY <1>2, <1>3, <1>4 DEF DueNow, PeriodNow

(* The period of a timer that runs is that of its record, and that of one  *)
(* that does not is 0.                                                     *)
LEMMA PeriodOf ==
  ASSUME IInv, NEW x \in Timer
  PROVE  /\ \A b \in FindTimer(x) : PeriodNow[x] = timers[b].reload
         /\ FindTimer(x) = {} => PeriodNow[x] = 0 /\ DueNow[x] = 0
<1>1. Unique(timers)
  BY DEF IInv, OneRecordPerTimer, Unique
<1>2. ASSUME NEW b \in FindTimer(x) PROVE PeriodNow[x] = timers[b].reload
  BY <1>1, <1>2, Running DEF FindTimer, PeriodNow
<1>3. ASSUME FindTimer(x) = {} PROVE PeriodNow[x] = 0 /\ DueNow[x] = 0
  <2>1. \A b \in Blocks : timers[b].id # x
    BY <1>3 DEF FindTimer
  <2> QED BY <2>1, NotRunning DEF PeriodNow, DueNow
<1> QED BY <1>2, <1>3

LEMMA StartContract ==
  ASSUME IInv, IInv', NEW x \in Timer, NEW d \in Timeouts, StartTimerEx(x, d)
  PROVE  Contract!Start(x, d) \/ UNCHANGED Contract!vars
<1> USE TimersAssumption DEF IInv, TypeOK
<1>1. UNCHANGED <<events, osal_systemClock>>
  BY DEF StartTimerEx, Untouched
<1>2. CASE \E b \in FindTimer(x) :
             timers' = [timers EXCEPT ![b] = [@ EXCEPT !.timeout = d]]
  <2>1. PICK b \in FindTimer(x) :
               timers' = [timers EXCEPT ![b] = [@ EXCEPT !.timeout = d]]
    BY <1>2
  <2> DEFINE r == [id |-> x, timeout |-> d, reload |-> timers[b].reload]
  <2>2. b \in Blocks /\ timers[b].id = x
    BY DEF FindTimer
  <2>3. timers[b] \in [id : Timer \cup {None}, timeout : Nat \ {0}, reload : Nat]
    BY <2>2 DEF Record
  <2>4. [timers[b] EXCEPT !.timeout = d] = r /\ r \in Record
    BY <2>2, <2>3 DEF Record
  <2>5. timers'[b] = r /\ \A c \in Blocks \ {b} : timers'[c] = timers[c]
    BY <2>1, <2>2, <2>4
  <2>6. /\ DueNow' = [DueNow EXCEPT ![x] = osal_systemClock + d]
        /\ PeriodNow' = [PeriodNow EXCEPT ![x] = timers[b].reload]
    BY <1>1, <2>2, <2>4, <2>5, WriteStep
  <2>7. PeriodNow' = PeriodNow
    BY <2>6, PeriodOf DEF PeriodNow
  <2> QED BY <1>1, <2>6, <2>7 DEF Contract!Start, DueNow, PeriodNow
<1>3. CASE /\ FindTimer(x) = {}
           /\ \E b \in FindTimer(Free) : timers' =
                [timers EXCEPT ![b] = [id |-> x, timeout |-> d, reload |-> 0]]
  <2> DEFINE r == [id |-> x, timeout |-> d, reload |-> 0]
  <2>1. PICK b \in FindTimer(Free) : timers' = [timers EXCEPT ![b] = r]
    BY <1>3
  <2>2. b \in Blocks /\ timers[b].id = Free /\ r \in Record
    BY DEF FindTimer, Record
  <2>3. timers'[b] = r /\ \A c \in Blocks \ {b} : timers'[c] = timers[c]
    BY <2>1, <2>2
  <2>4. /\ DueNow' = [DueNow EXCEPT ![x] = osal_systemClock + d]
        /\ PeriodNow' = [PeriodNow EXCEPT ![x] = 0]
    BY <1>1, <2>2, <2>3, WriteStep
  <2>5. PeriodNow' = PeriodNow
    BY <1>3, <2>4, PeriodOf DEF PeriodNow
  <2> QED BY <1>1, <2>4, <2>5 DEF Contract!Start, DueNow, PeriodNow
<1>4. CASE UNCHANGED timers
  BY <1>1, <1>4 DEF Contract!vars, Due, Period, Runs, RecordOf
<1> QED BY <1>2, <1>3, <1>4 DEF StartTimerEx, AddTimer

LEMMA StartReloadContract ==
  ASSUME IInv, IInv', NEW x \in Timer, NEW d \in Timeouts, StartReloadTimer(x, d)
  PROVE  Contract!StartReload(x, d) \/ UNCHANGED Contract!vars
<1> USE TimersAssumption DEF IInv, TypeOK
<1> DEFINE r == [id |-> x, timeout |-> d, reload |-> d]
<1>1. UNCHANGED <<events, osal_systemClock>>
  BY DEF StartReloadTimer, Untouched
<1>2. CASE \E b \in SlotFor(x) : timers' = [timers EXCEPT ![b] = r]
  <2>1. PICK b \in SlotFor(x) : timers' = [timers EXCEPT ![b] = r]
    BY <1>2
  <2>2. b \in Blocks /\ timers[b].id \in {x, Free} /\ r \in Record
    BY DEF SlotFor, FindTimer, Record
  <2>3. timers'[b] = r /\ \A c \in Blocks \ {b} : timers'[c] = timers[c]
    BY <2>1, <2>2
  <2>4. /\ DueNow' = [DueNow EXCEPT ![x] = osal_systemClock + d]
        /\ PeriodNow' = [PeriodNow EXCEPT ![x] = d]
    BY <1>1, <2>2, <2>3, WriteStep
  <2> QED BY <1>1, <2>4 DEF Contract!StartReload, DueNow, PeriodNow
<1>3. CASE UNCHANGED timers
  BY <1>1, <1>3 DEF Contract!vars, Due, Period, Runs, RecordOf
<1> QED BY <1>2, <1>3 DEF StartReloadTimer

LEMMA StopContract ==
  ASSUME IInv, IInv', NEW x \in Timer, StopTimerEx(x)
  PROVE  Contract!Stop(x)
<1> USE TimersAssumption DEF IInv, TypeOK
<1>1. UNCHANGED <<events, osal_systemClock>>
  BY DEF StopTimerEx, Untouched
<1>2. PICK b \in FindTimer(x) : timers' = [timers EXCEPT ![b].id = None]
  BY DEF StopTimerEx
<1> DEFINE r == [timers[b] EXCEPT !.id = None]
<1>3. b \in Blocks /\ timers[b].id = x /\ r \in Record /\ r.id = None
  BY DEF FindTimer, Record
<1>4. timers'[b] = r /\ \A c \in Blocks \ {b} : timers'[c] = timers[c]
  BY <1>2, <1>3
<1>5. r.id # x
  BY <1>3
<1> HIDE DEF r, IInv, TypeOK
<1>6. /\ DueNow' = [DueNow EXCEPT ![x] = 0]
      /\ PeriodNow' = [PeriodNow EXCEPT ![x] = 0]
  BY <1>1, <1>3, <1>4, <1>5, WriteStep
<1> QED BY <1>1, <1>6 DEF Contract!Stop, DueNow, PeriodNow

(* An update of the clock by d. *)
LEMMA UpdateContract ==
  ASSUME IInv, IInv', NEW d \in Nat \ {0}, TimerUpdate(d)
  PROVE  Contract!Elapse
<1> USE TimersAssumption
<1> DEFINE time == osal_systemClock
           expired == {x \in Timer : 0 < DueNow[x] /\ DueNow[x] <= time'}
<1>1. time \in Nat /\ time' = time + d
  BY DEF IInv, TypeOK, TimerUpdate
<1>2. Unique(timers) /\ Unique(timers')
  BY DEF IInv, OneRecordPerTimer, Unique
<1>3. \A b \in Blocks : timers[b] \in Record /\ timers'[b] = Updated(timers[b], d)
  BY DEF IInv, TypeOK, TimerUpdate
<1>4. ASSUME NEW x \in Timer, NEW b \in Blocks, timers[b].id = x
      PROVE  LET t == timers[b].timeout
                 p == timers[b].reload
             IN  /\ t \in Nat \ {0} /\ p \in Nat
                 /\ DueNow[x] = time + t /\ PeriodNow[x] = p
                 /\ x \in Expired(d) <=> t <= d
                 /\ DueNow'[x] = IF t > d THEN time + t
                                 ELSE IF p > 0 THEN time' + p ELSE 0
                 /\ PeriodNow'[x] = p
  <2> DEFINE t == timers[b].timeout
             p == timers[b].reload
  <2>1. /\ timers[b] \in [id : Timer \cup {None}, timeout : Nat \ {0}, reload : Nat]
        /\ t \in Nat \ {0} /\ p \in Nat
    BY <1>3, <1>4 DEF Record
  <2>2. DueNow[x] = time + t /\ PeriodNow[x] = p
    BY <1>2, <1>4, Running DEF DueNow, PeriodNow
  <2>3. CountDown(t, d) = IF t > d THEN t - d ELSE 0
    BY <2>1, CountDownSubtracts
  <2>4. x \in Expired(d) <=> t <= d
    <3>1. \A c \in FindTimer(x) : c = b
      BY <1>2, <1>4 DEF FindTimer, Unique
    <3>2. b \in FindTimer(x)
      BY <1>4 DEF FindTimer
    <3>3. x \in Expired(d) <=> CountDown(t, d) = 0
      BY <3>1, <3>2 DEF Expired
    <3> QED BY <2>1, <2>3, <3>3
  <2>5. CASE t > d
    <3>1. timers'[b] = [timers[b] EXCEPT !.timeout = t - d]
      BY <1>3, <1>4, <2>1, <2>5, UpdatedTimer
    <3>2. /\ timers'[b].id = x /\ timers'[b].timeout = t - d
          /\ timers'[b].reload = p
      BY <1>4, <2>1, <3>1
    <3>3. DueNow'[x] = time' + (t - d) /\ PeriodNow'[x] = p
      BY <1>2, <3>2, Running DEF DueNow, PeriodNow
    <3> QED BY <1>1, <2>1, <2>2, <2>4, <2>5, <3>3
  <2>6. CASE t <= d /\ p > 0
    <3>1. timers'[b] = [timers[b] EXCEPT !.timeout = p]
      BY <1>3, <1>4, <2>1, <2>6, UpdatedTimer
    <3>2. /\ timers'[b].id = x /\ timers'[b].timeout = p /\ timers'[b].reload = p
      BY <1>4, <2>1, <3>1
    <3>3. DueNow'[x] = time' + p /\ PeriodNow'[x] = p
      BY <1>2, <3>2, Running DEF DueNow, PeriodNow
    <3> QED BY <1>1, <2>1, <2>2, <2>4, <2>6, <3>3
  <2>7. CASE t <= d /\ p = 0
    <3>1. timers'[b] = NoRecord
      BY <1>3, <1>4, <2>1, <2>7, UpdatedTimer
    <3>2. \A c \in Blocks : timers'[c].id # x
      <4> TAKE c \in Blocks
      <4>1. CASE c = b
        BY <3>1, <4>1 DEF NoRecord
      <4>2. CASE c # b
        <5>1. timers[c].id # x
          BY <1>2, <1>4, <4>2 DEF Unique
        <5>2. timers'[c].id \in Timer => timers'[c].id = timers[c].id
          BY <1>3, UpdatedRecord
        <5> QED BY <5>1, <5>2
      <4> QED BY <4>1, <4>2
    <3>3. DueNow'[x] = 0 /\ PeriodNow'[x] = 0
      BY <3>2, NotRunning DEF DueNow, PeriodNow
    <3> QED BY <1>1, <2>1, <2>2, <2>4, <2>7, <3>3
  <2> QED BY <2>1, <2>5, <2>6, <2>7
<1>5. ASSUME NEW x \in Timer, \A b \in Blocks : timers[b].id # x
      PROVE  /\ DueNow[x] = 0 /\ PeriodNow[x] = 0 /\ x \notin Expired(d)
             /\ DueNow'[x] = 0 /\ PeriodNow'[x] = 0
  <2>1. \A b \in Blocks : timers'[b].id # x
    <3> TAKE b \in Blocks
    <3>1. timers'[b].id \in Timer => timers'[b].id = timers[b].id
      BY <1>3, UpdatedRecord
    <3> QED BY <1>5, <3>1
  <2>2. x \notin Expired(d)
    BY <1>5 DEF Expired, FindTimer
  <2> QED BY <1>5, <2>1, <2>2, NotRunning DEF DueNow, PeriodNow
<1>6. ASSUME NEW x \in Timer
      PROVE  /\ x \in Expired(d) <=> x \in expired
             /\ DueNow'[x] = IF x \notin expired THEN DueNow[x]
                             ELSE IF PeriodNow[x] > 0 THEN time' + PeriodNow[x] ELSE 0
             /\ PeriodNow'[x] = PeriodNow[x]
  <2>1. CASE \E b \in Blocks : timers[b].id = x
    BY <1>1, <1>4, <2>1
  <2>2. CASE \A b \in Blocks : timers[b].id # x
    BY <1>5, <2>2
  <2> QED BY <2>1, <2>2
<1>7. Expired(d) = expired
  BY <1>6 DEF Expired
<1>8. events' = events \cup expired
  BY <1>7 DEF TimerUpdate
<1>9. /\ DueNow' = [x \in Timer |->
                      IF x \notin expired THEN DueNow[x]
                      ELSE IF PeriodNow[x] > 0 THEN time' + PeriodNow[x] ELSE 0]
      /\ PeriodNow' = PeriodNow
  BY <1>6 DEF DueNow, PeriodNow
<1> QED BY <1>1, <1>8, <1>9 DEF Contract!Elapse, DueNow, PeriodNow

(* An update in which the clock stands still changes nothing it maps to.   *)
LEMMA TimeUpdateContract ==
  ASSUME IInv, IInv', TimeUpdate
  PROVE  Contract!Elapse \/ UNCHANGED Contract!vars
<1>1. CASE Elapsed > 0
  <2>1. Elapsed \in Nat \ {0}
    BY <1>1, ElapsedInNat DEF IInv
  <2>2. TimerUpdate(Elapsed)
    BY <1>1 DEF TimeUpdate
  <2> QED BY <2>1, <2>2, UpdateContract
<1>2. CASE ~(Elapsed > 0)
  BY <1>2 DEF TimeUpdate, Contract!vars
<1> QED BY <1>1, <1>2

LEMMA NextContract ==
  IInv /\ IInv' /\ [Next]_vars => [Contract!Next]_Contract!vars
<1> SUFFICES ASSUME IInv, IInv', [Next]_vars PROVE [Contract!Next]_Contract!vars
  OBVIOUS
<1>1. ASSUME NEW x \in Timer, NEW d \in Timeouts, StartTimerEx(x, d)
      PROVE  [Contract!Next]_Contract!vars
  BY <1>1, StartContract DEF Contract!Next
<1>2. ASSUME NEW x \in Timer, NEW d \in Timeouts, StartReloadTimer(x, d)
      PROVE  [Contract!Next]_Contract!vars
  BY <1>2, StartReloadContract DEF Contract!Next
<1>3. ASSUME NEW x \in Timer, StopTimerEx(x) PROVE [Contract!Next]_Contract!vars
  BY <1>3, StopContract DEF Contract!Next
<1>4. ASSUME NEW x \in Timer, Take(x) PROVE [Contract!Next]_Contract!vars
  <2>1. Contract!Take(x)
    BY <1>4 DEF Take, Contract!Take
  <2> QED BY <2>1 DEF Contract!Next
<1>5. CASE SystickUpdate
  BY <1>5 DEF SystickUpdate, Contract!vars
<1>6. CASE TimeUpdate
  BY <1>6, TimeUpdateContract DEF Contract!Next
<1>7. CASE UNCHANGED vars
  BY <1>7 DEF vars, Contract!vars
<1> QED BY <1>1, <1>2, <1>3, <1>4, <1>5, <1>6, <1>7 DEF Next

(* The records and the counting of osal_timers.c implement the contract of *)
(* module Timers: a timer sets its event in the first update of the clock  *)
(* that reaches its time, and in no other.                                 *)
THEOREM KeepsContract == Spec => TimersKeepContract
<1>1. Init /\ IInv => Contract!Init
  BY InitContract
<1> QED BY <1>1, InitIInv, NextIInv, NextContract, PTL
        DEF Spec, Contract!Spec, TimersKeepContract

-----------------------------------------------------------------------------

(* The counter after q rounds.  The number of rounds is the number of      *)
(* milliseconds the clock has lost.                                        *)
Rounds(q) ==
  LET seen == now - Unseen
  IN  /\ Unseen <= MaxLag /\ Unseen >= 0
      /\ seen = q * Wrap + preSystick
      /\ osal_systemClock = seen - q

ClockInv == TypeOK /\ \E q \in Nat : Rounds(q)

LEMMA DivOfRounds ==
  ASSUME NEW q \in Nat, NEW r \in 0 .. Wrap - 1
  PROVE  (q * Wrap + r) \div Wrap = q
<1>1. Wrap \in Nat \ {0}
  BY TimersAssumption
<1> DEFINE n == q * Wrap + r
           k == n \div Wrap
<1>2. n \in Nat /\ k \in Nat
  BY <1>1
<1>3. n = Wrap * k + (n % Wrap) /\ n % Wrap \in 0 .. Wrap - 1
  BY <1>1, <1>2
<1>4. Wrap * (k - q) = r - (n % Wrap)
  BY <1>1, <1>2, <1>3
<1>5. CASE k > q
  <2>1. Wrap * (k - q) >= Wrap
    BY <1>1, <1>2, <1>5
  <2> QED BY <1>1, <1>2, <1>3, <1>4, <2>1
<1>6. CASE k < q
  <2>1. Wrap * (q - k) >= Wrap
    BY <1>1, <1>2, <1>6
  <2>2. Wrap * (q - k) = (n % Wrap) - r
    BY <1>1, <1>2, <1>3
  <2> QED BY <1>1, <1>2, <1>3, <2>1, <2>2
<1> QED BY <1>2, <1>5, <1>6

LEMMA InitClock == Init => ClockInv
<1> SUFFICES ASSUME Init PROVE ClockInv
  OBVIOUS
<1>1. TypeOK
  BY InitIInv DEF IInv
<1>2. 0 * Wrap = 0
  BY TimersAssumption
<1>3. Rounds(0)
  BY <1>2, TimersAssumption DEF Init, Rounds, Unseen
<1> QED BY <1>1, <1>3 DEF ClockInv

LEMMA TickClock ==
  ASSUME TypeOK, NEW q \in Nat, Rounds(q), SystickUpdate
  PROVE  Rounds(q)'
<1> USE TimersAssumption DEF TypeOK
<1>1. systick' = IF systick = Wrap - 1 THEN 0 ELSE systick + 1
  <2>1. CASE systick = Wrap - 1
    <3>1. systick + 1 = Wrap /\ Wrap % Wrap = 0
      BY <2>1
    <3> QED BY <2>1, <3>1 DEF SystickUpdate
  <2>2. CASE systick # Wrap - 1
    <3>1. systick + 1 \in 0 .. Wrap - 1
      BY <2>2
    <3>2. (systick + 1) % Wrap = systick + 1
      BY <3>1
    <3> QED BY <2>2, <3>2 DEF SystickUpdate
  <2> QED BY <2>1, <2>2
<1>2. Unseen' = Unseen + 1
  BY <1>1 DEF SystickUpdate, Unseen
<1>3. now' - Unseen' = now - Unseen
  BY <1>2 DEF SystickUpdate, Unseen
<1>4. Unseen' <= MaxLag /\ Unseen' >= 0
  BY <1>2 DEF SystickUpdate, Rounds, Unseen
<1> QED BY <1>3, <1>4 DEF Rounds, SystickUpdate

LEMMA SeeClock ==
  ASSUME TypeOK, NEW q \in Nat, Rounds(q), TimeUpdate
  PROVE  Rounds(q)' \/ Rounds(q + 1)'
<1> USE TimersAssumption DEF TypeOK
<1>1. /\ preSystick' = systick /\ systick' = systick /\ now' = now
      /\ systick # preSystick
  BY DEF TimeUpdate
<1>2. Unseen' = 0
  BY <1>1 DEF Unseen
<1>3. osal_systemClock' = osal_systemClock + Elapsed
  <2>1. Elapsed \in Nat
    BY ElapsedInNat
  <2> QED BY <2>1 DEF TimeUpdate, TimerUpdate
<1>4. q * Wrap \in Nat /\ (q + 1) * Wrap = q * Wrap + Wrap
  OBVIOUS
<1>5. CASE systick > preSystick
  <2>1. Unseen = systick - preSystick /\ Elapsed = systick - preSystick
    BY <1>5 DEF Unseen, Elapsed
  <2>2. now = q * Wrap + systick /\ osal_systemClock' = now - q
    BY <1>3, <1>4, <2>1 DEF Rounds
  <2>3. Rounds(q)'
    BY <1>1, <1>2, <2>2 DEF Rounds
  <2> QED BY <2>3
<1>6. CASE systick < preSystick
  <2>1. /\ Unseen = Wrap - preSystick + systick
        /\ Elapsed = (Wrap - 1) - preSystick + systick
    BY <1>6 DEF Unseen, Elapsed
  <2>2. now = (q + 1) * Wrap + systick /\ osal_systemClock' = now - (q + 1)
    BY <1>3, <1>4, <2>1 DEF Rounds
  <2>3. Rounds(q + 1)'
    BY <1>1, <1>2, <2>2 DEF Rounds
  <2> QED BY <2>3
<1> QED BY <1>1, <1>5, <1>6

LEMMA NextClock == IInv' /\ ClockInv /\ [Next]_vars => ClockInv'
<1> SUFFICES ASSUME IInv', ClockInv, [Next]_vars PROVE ClockInv'
  OBVIOUS
<1>1. TypeOK' /\ TypeOK
  BY DEF IInv, ClockInv
<1>2. PICK q \in Nat : Rounds(q)
  BY DEF ClockInv
<1>3. CASE SystickUpdate
  BY <1>1, <1>2, <1>3, TickClock DEF ClockInv
<1>4. CASE TimeUpdate
  <2>1. q + 1 \in Nat
    OBVIOUS
  <2> QED BY <1>1, <1>2, <1>4, <2>1, SeeClock DEF ClockInv
<1>5. CASE UNCHANGED <<systick, preSystick, osal_systemClock, now>>
  <2>1. Rounds(q)'
    BY <1>2, <1>5 DEF Rounds, Unseen
  <2> QED BY <1>1, <2>1 DEF ClockInv
<1>6. SystickUpdate \/ TimeUpdate \/ UNCHANGED <<systick, preSystick, osal_systemClock, now>>
  BY DEF Next, vars, StartTimerEx, StartReloadTimer, StopTimerEx, Take, Untouched
<1> QED BY <1>3, <1>4, <1>5, <1>6

(* The clock of osal_clock.c loses one millisecond in each round of the    *)
(* tick counter, and no more, as long as no pass of the main loop takes a  *)
(* whole round.                                                            *)
THEOREM KeepsTime == Spec => []ClockKeepsTime
<1>1. ClockInv => ClockKeepsTime
  <2> SUFFICES ASSUME ClockInv PROVE ClockKeepsTime
    OBVIOUS
  <2>1. PICK q \in Nat : Rounds(q)
    BY DEF ClockInv
  <2>2. (now - Unseen) \div Wrap = q
    BY <2>1, DivOfRounds DEF ClockInv, TypeOK, Rounds
  <2> QED BY <2>1, <2>2 DEF Rounds, ClockKeepsTime
<1> QED BY <1>1, InitIInv, NextIInv, InitClock, NextClock, PTL DEF Spec
=============================================================================
