---------------------------- MODULE CbTimerTask -----------------------------
(***************************************************************************)
(* The callback task of OSAL (src/firmware/osal/osal_cbtimer.c) with all   *)
(* of its interface: clients of other tasks start, update and stop timers  *)
(* at any time, also between the moment a timer expires and the one in     *)
(* which its event is handled, and a callback may do so itself.            *)
(***************************************************************************)
EXTENDS CbTimers

CONSTANTS Callbacks, Timeouts

CbTimerAssumption ==
  /\ NumCbTimers \in Nat \ {0} /\ NoCallback \notin Callbacks
  /\ Timeouts \subseteq Nat \ {0}

VARIABLES
  cb,       \* the table, see CbTimers
  since     \* history: what a slot has seen since it was started or called

vars == <<cb, since>>

Init == cb = CbTimerInit /\ since = [i \in Slots |-> "free"]

(* A slot is "retaken" when it is started with the event of the timer      *)
(* before it still set.                                                    *)
Noted(called) ==
  since' = [i \in Slots |->
              IF cb'.data[i] = NoCallback THEN "free"
              ELSE IF i \in called THEN "started"
              ELSE IF cb.data[i] # NoCallback THEN since[i]
              ELSE IF i \in cb'.events THEN "retaken" ELSE "started"]

Start(x, d) ==
  /\ Unused(cb) # {}
  /\ cb' \in {CbTimerStart(cb, x, d), CbTimerStartReload(cb, x, d)}
  /\ Noted({})

Update(i, d) == cb' = CbTimerUpdate(cb, i, d) /\ UNCHANGED since

Stop(i) ==
  /\ cb.data[i] # NoCallback
  /\ cb' = CbTimerStop(cb, i)
  /\ Noted({})

(* The callback may stop its timer, and start it again: in this slot when  *)
(* it has stopped it before, in another one otherwise.                     *)
Called(i, d) ==
  {cb, CbTimerStop(cb, i)}
  \cup {CbTimerStart(t, cb.data[i], d) :
          t \in {u \in {cb, CbTimerStop(cb, i)} : Unused(u) # {}}}

ProcessEvent ==
  /\ cb.events # {}
  /\ LET i == FirstOf(cb.events) IN
     /\ IF cb.data[i] = NoCallback
        THEN cb' = CbTimerHandled(cb)
        ELSE \E d \in Timeouts : \E t \in Called(i, d) : cb' = CbTimerHandled(t)
     /\ Noted({i})

(* Time passes whether the events are handled or not.                      *)
Tick ==
  /\ cb' = CbTimerTick(cb)
  /\ since' = [i \in Slots |-> IF cb.left[i] = 1 THEN "expired" ELSE since[i]]

Next ==
  \/ \E x \in Callbacks, d \in Timeouts : Start(x, d)
  \/ \E i \in Slots, d \in Timeouts : Update(i, d)
  \/ \E i \in Slots : Stop(i)
  \/ ProcessEvent
  \/ Tick

Spec == Init /\ [][Next]_vars

-----------------------------------------------------------------------------
(* The table holds callbacks, and timeouts no longer than those asked for. *)
TypeOK ==
  /\ cb \in [data : [Slots -> Callbacks \cup {NoCallback}],
            left : [Slots -> UNION {0 .. d : d \in Timeouts \cup {0}}],
            reload : [Slots -> Timeouts \cup {0}], events : SUBSET Slots]
  /\ since \in [Slots -> {"free", "started", "retaken", "expired"}]

(* No slot is lost and none runs unseen: a slot that holds a callback has  *)
(* a timer that runs or an event still to be handled, and the timer of a   *)
(* free slot does not run.  Otherwise the 15 slots would be used up for    *)
(* good: osal_CbTimerProcessEvent frees a slot only by asking whether its  *)
(* timer runs.                                                             *)
SlotsAreDriven ==
  \A i \in Slots : IF cb.data[i] = NoCallback THEN cb.left[i] = 0
                   ELSE cb.left[i] > 0 \/ i \in cb.events

(* An expired timer that nobody has stopped still has its event: what its  *)
(* owner does in between, osal_CbTimerUpdate of it included, does not      *)
(* cancel the call.                                                        *)
ExpiredIsPending == \A i \in Slots : since[i] = "expired" => i \in cb.events

CallOf(i) == ProcessEvent /\ i = FirstOf(cb.events) /\ cb.data[i] # NoCallback

(* A callback is called when its timer has expired since it was started,   *)
(* or since the last call of a reload timer; and, the one way in which it  *)
(* is called early, when its slot was freed with the event still set.      *)
CalledInTime ==
  [][\A i \in Slots : CallOf(i) => since[i] \in {"expired", "retaken"}]_vars
=============================================================================
