------------------------------ MODULE Calendar ------------------------------
(****************************************************************************)
(* The calendar of the OSAL clock (osal_clock.c): seconds since the 1st of  *)
(* January 2000, and the struct of year, month, day and time of day.  A     *)
(* time is a pair of days and seconds of the day, as 32 bits hold them; the *)
(* months and the days of a month count from 0.                             *)
(*                                                                          *)
(* The clock runs in steps of Stride seconds, from reset to where 32 bits   *)
(* end.                                                                     *)
(****************************************************************************)
EXTENDS Integers

CONSTANTS LastDay,      \* the day that 2^32 seconds end in
          Stride

DAY == 86400
BEGYEAR == 2000

ASSUME CalendarAssumption ==
    /\ LastDay \in 0 .. 65535       \* numDays and days are uint16_t
    /\ Stride \in 1 .. DAY

VARIABLES days, secs,   \* OSAL_timeSeconds, as days and seconds of the day
          tm            \* what osal_ConvertUTCTime makes of it

vars == <<days, secs, tm>>

\* Mutant: the last year of a century is a leap year, too
IsLeapYear_Julian(yr) == yr % 4 = 0
IsLeapYear(yr) == yr % 400 = 0 \/ (yr % 100 # 0 /\ yr % 4 = 0)
YearLength(yr) == IF IsLeapYear(yr) THEN 366 ELSE 365

MonthLength(leap, mon) ==
    IF mon = 1 THEN 28 + (IF leap THEN 1 ELSE 0)
    ELSE IF (IF mon > 6 THEN mon - 1 ELSE mon) % 2 = 1 THEN 30 ELSE 31

\* The days of the months before mon, and of the years before yr
MonthsBefore ==
    LET upto[leap \in BOOLEAN, m \in 0 .. 12] ==
            IF m = 0 THEN 0 ELSE upto[leap, m - 1] + MonthLength(leap, m - 1)
    IN [leap \in BOOLEAN |-> [mon \in 0 .. 12 |-> upto[leap, mon]]]

YearsBefore ==
    LET upto[y \in BEGYEAR .. BEGYEAR + LastDay \div 365 + 2] ==
            IF y = BEGYEAR THEN 0 ELSE upto[y - 1] + YearLength(y - 1)
    IN [yr \in BEGYEAR .. BEGYEAR + LastDay \div 365 + 2 |-> upto[yr]]

\* osal_ConvertUTCTime takes years off while they fit, then months.
YearOf(d) ==
    CHOOSE yr \in BEGYEAR .. BEGYEAR + d \div 365 : YearsBefore[yr] <= d /\ d < YearsBefore[yr + 1]

MonthOf(yr, d) ==
    LET before == MonthsBefore[IsLeapYear(yr)]
    IN CHOOSE mon \in 0 .. 11 : before[mon] <= d /\ d < before[mon + 1]

ConvertUTCTime(d, s) ==
    LET yr == YearOf(d)
        rest == d - YearsBefore[yr]
        mon == MonthOf(yr, rest)
    IN [year |-> yr, month |-> mon, day |-> rest - MonthsBefore[IsLeapYear(yr)][mon],
        hour |-> s \div 3600, minutes |-> (s % 3600) \div 60, seconds |-> s % 60]

\* osal_ConvertUTCSecs
ConvertUTCSecs(t) ==
    <<t.day + MonthsBefore[IsLeapYear(t.year)][t.month] + YearsBefore[t.year],
      (t.hour * 60 + t.minutes) * 60 + t.seconds>>

-----------------------------------------------------------------------------
Init == days = 0 /\ secs = 0 /\ tm = ConvertUTCTime(0, 0)

\* osalClockUpdate, after Stride seconds
ClockUpdate ==
    /\ secs' = (secs + Stride) % DAY
    /\ days' = days + (secs + Stride) \div DAY
    /\ days' <= LastDay
    /\ tm' = ConvertUTCTime(days', secs')

Spec == Init /\ [][ClockUpdate]_vars

-----------------------------------------------------------------------------
\* The types, with a month that is one and a day that the month has.
TypeOK ==
    /\ days \in 0 .. LastDay /\ secs \in 0 .. DAY - 1
    /\ tm.month \in 0 .. 11
    /\ tm.day \in 0 .. MonthLength(IsLeapYear(tm.year), tm.month) - 1
    /\ tm.hour \in 0 .. 23 /\ tm.minutes \in 0 .. 59 /\ tm.seconds \in 0 .. 59

\* osal_ConvertUTCSecs takes back what osal_ConvertUTCTime did, for all of the 136 years.
RoundTrip == ConvertUTCSecs(tm) = <<days, secs>>

\* A calendar that knows no more than how long the months are: the day after
Lengths == <<31, 28, 31, 30, 31, 30, 31, 31, 30, 31, 30, 31>>
LastOf(yr, mon) ==
    Lengths[mon + 1] - (IF mon = 1 /\ yr % 4 = 0 /\ yr # 2100 THEN 0 ELSE 1)

\* The dates follow each other as they do in a calendar.
DayAfterDay ==
    [][days' = days + 1 =>
         \/ tm'.year = tm.year /\ tm'.month = tm.month /\ tm'.day = tm.day + 1
         \/ /\ tm'.year = tm.year /\ tm'.month = tm.month + 1 /\ tm'.day = 0
            /\ tm.day = LastOf(tm.year, tm.month)
         \/ /\ tm'.year = tm.year + 1 /\ tm'.month = 0 /\ tm'.day = 0
            /\ tm.month = 11 /\ tm.day = 30]_vars
=============================================================================
