----------------------------- MODULE LockPulse ------------------------------
(***************************************************************************)
(* What the relay of the lock is to do: each request that is accepted      *)
(* releases the lock once, at once and until the first update of the clock *)
(* at which PulseTime is over; the next one is accepted GateTime later,    *)
(* and those in between are ignored.  A pulse that the clock's wrap meets  *)
(* may end at any time or not before the next request, which is served as  *)
(* any other.                                                              *)
(***************************************************************************)
EXTENDS Integers

CONSTANTS PulseTime, GateTime, MaxPass

VARIABLES
  open,     \* the relay is on
  since,    \* for how long the request was accepted; GateTime when none is
  across    \* the clock's wrap meets its pulse

vars == <<open, since, across>>

Init == ~open /\ since = GateTime /\ ~across

Accept ==
  /\ since = GateTime
  /\ open => across
  /\ since' = 0 /\ across' = FALSE
  /\ UNCHANGED open

Release == since = 0 /\ ~across /\ open' = TRUE /\ across' \in BOOLEAN /\ UNCHANGED since

Close ==
  /\ open
  /\ across \/ since >= PulseTime
  /\ open' = FALSE
  /\ across' \in {across, TRUE}
  /\ UNCHANGED since

(* Time passes, several units at once; it does not go on over a release or *)
(* a close that is due.                                                    *)
Tick ==
  /\ since < GateTime
  /\ ~across => IF open THEN since < PulseTime ELSE since >= PulseTime
  /\ \E d \in 1 .. MaxPass : since' = IF since + d < GateTime THEN since + d ELSE GateTime
  /\ across' \in {across, TRUE}
  /\ UNCHANGED open

Next == Accept \/ Release \/ Close \/ Tick

Spec == Init /\ [][Next]_vars
=============================================================================
