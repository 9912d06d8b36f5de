------------------------------ MODULE CbTimers ------------------------------
(***************************************************************************)
(* The callback timers of OSAL (src/firmware/osal/osal_cbtimer.c): a table *)
(* of slots, each with an OSAL timer and an event of the callback task.    *)
(* The slot remembers whom to call; a slot without a callback is free,     *)
(* even if its event is still to be handled.  A table is                   *)
(*   data    what the callback of a slot is called with,                   *)
(*   left    the time its timer has left, 0 if it does not run,            *)
(*   reload  what the timer starts again with, 0 if it does not,           *)
(*   events  the slots whose event is set.                                 *)
(***************************************************************************)
EXTENDS Naturals

CONSTANTS NumCbTimers, NoCallback

Slots == 0 .. NumCbTimers - 1

CbTimerInit ==
  [data |-> [i \in Slots |-> NoCallback], left |-> [i \in Slots |-> 0],
   reload |-> [i \in Slots |-> 0], events |-> {}]

(* cbTimerSetup takes the first unused slot. *)
Unused(cb) == {i \in Slots : cb.data[i] = NoCallback}
FirstOf(slots) == CHOOSE i \in slots : \A j \in slots : i <= j

CbTimerStart(cb, x, d) ==
  LET i == FirstOf(Unused(cb)) IN [cb EXCEPT !.data[i] = x, !.left[i] = d]

CbTimerStartReload(cb, x, d) ==
  LET i == FirstOf(Unused(cb))
  IN  [cb EXCEPT !.data[i] = x, !.left[i] = d, !.reload[i] = d]

(* osal_CbTimerUpdate; a timer that no longer runs is not found. *)
CbTimerUpdate(cb, i, d) ==
  IF cb.data[i] # NoCallback /\ cb.left[i] # 0 THEN [cb EXCEPT !.left[i] = d] ELSE cb

(* osal_CbTimerStop frees the slot; an event that is already set stays.    *)
CbTimerStop(cb, i) == [cb EXCEPT !.data[i] = NoCallback, !.left[i] = 0, !.reload[i] = 0]

(* Mutant: the event is still set. *)
CbTimerHandled_EventSet(cb) ==
  LET i == FirstOf(cb.events)
  IN  [cb EXCEPT !.data[i] = IF cb.left[i] = 0 THEN NoCallback ELSE @]

(* osal_CbTimerProcessEvent after the call: the slot is freed unless its   *)
(* timer runs (which the code takes for a reload timer).                   *)
CbTimerHandled(cb) ==
  LET i == FirstOf(cb.events)
  IN  [cb EXCEPT !.events = @ \ {i},
                 !.data[i] = IF cb.left[i] = 0 THEN NoCallback ELSE @]

(* One unit of time passes. *)
CbTimerTick(cb) ==
  [cb EXCEPT !.left = [i \in Slots |-> CASE @[i] = 0 -> 0
                                         [] @[i] = 1 -> cb.reload[i]
                                         [] OTHER -> @[i] - 1],
             !.events = @ \cup {i \in Slots : cb.left[i] = 1}]
=============================================================================
