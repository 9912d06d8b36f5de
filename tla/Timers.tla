------------------------------- MODULE Timers -------------------------------
(***************************************************************************)
(* What the timers of OSAL promise to the tasks: a timer started for d     *)
(* milliseconds sets its event in the first update of the clock at which   *)
(* d of them have passed, once, unless it is stopped or started anew       *)
(* before; a reload timer goes on from there.                              *)
(***************************************************************************)
EXTENDS Naturals

CONSTANTS Timer, Timeouts

VARIABLES
  clock,
  due,      \* when a running timer expires; what a stopped one has is 0
  period,   \* the period of a reload timer, else 0
  events    \* the events that were set and not yet taken

vars == <<clock, due, period, events>>

Init ==
  /\ clock = 0
  /\ due = [x \in Timer |-> 0]
  /\ period = [x \in Timer |-> 0]
  /\ events = {}

Start(x, d) ==
  /\ due' = [due EXCEPT ![x] = clock + d]
  /\ UNCHANGED <<clock, period, events>>

StartReload(x, d) ==
  /\ due' = [due EXCEPT ![x] = clock + d]
  /\ period' = [period EXCEPT ![x] = d]
  /\ UNCHANGED <<clock, events>>

Stop(x) ==
  /\ due' = [due EXCEPT ![x] = 0]
  /\ period' = [period EXCEPT ![x] = 0]
  /\ UNCHANGED <<clock, events>>

(* The clock goes on by any number of milliseconds.                        *)
Elapse ==
  LET expired == {x \in Timer : 0 < due[x] /\ due[x] <= clock'}
  IN  /\ clock' \in Nat /\ clock <= clock'
      /\ events' = events \cup expired
      /\ due' = [x \in Timer |->
                   IF x \notin expired THEN due[x]
                   ELSE IF period[x] > 0 THEN clock' + period[x] ELSE 0]
      /\ UNCHANGED period

Take(x) ==
  /\ events' = events \ {x}
  /\ UNCHANGED <<clock, due, period>>

Next ==
  \/ \E x \in Timer, d \in Timeouts : Start(x, d) \/ StartReload(x, d)
  \/ \E x \in Timer : Stop(x) \/ Take(x)
  \/ Elapse

Spec == Init /\ [][Next]_vars
=============================================================================
