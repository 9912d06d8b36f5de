------------------------------- MODULE HalKey -------------------------------
(***************************************************************************)
(* The two keys (src/firmware/hal/hal_key.c): the button on the inside,    *)
(* reported as a short or a long touch, and the contact of the door,       *)
(* reported as it closes and opens.  The state of the driver is            *)
(*   cb        the callback timers, which only the keys use,               *)
(*   keyState  the keys that were down at the last debounced reading,      *)
(*   tidEn     the keys whose long-touch timer is thought to run,          *)
(*   tid       the slot of that timer,                                     *)
(*   msgs      the messages to the application, oldest first.              *)
(***************************************************************************)
EXTENDS CbTimers, Sequences

CONSTANTS LongTouch     \* KEY_TOUCH_LONG, in units of time

Button == 0
Door   == 1
Keys   == {Button, Door}

HalKeyInit ==
  [cb |-> CbTimerInit, keyState |-> {}, tidEn |-> {}, tid |-> [k \in Keys |-> 0],
   msgs |-> <<>>]

(* What HalDriverInit enables with HalKeyEvtConfig. *)
KeyEvtEn == [k \in Keys |-> IF k = Button THEN {"Short", "Long"} ELSE {"Enter", "Leave"}]
Report(msgs, k, evt) == IF evt \in KeyEvtEn[k] THEN Append(msgs, <<k, evt>>) ELSE msgs

TouchEnter(key, k) ==
  [key EXCEPT !.cb = CbTimerStart(@, k, LongTouch),
              !.tid[k] = FirstOf(Unused(key.cb)),
              !.tidEn = @ \cup {k},
              !.msgs = Report(@, k, "Enter")]

(* Mutant: a touch that was short is not also reported as left. *)
TouchLeave_ShortOnly(key, k) ==
  IF k \in key.tidEn
    THEN [key EXCEPT !.cb = CbTimerStop(@, key.tid[k]),
                     !.tidEn = @ \ {k},
                     !.msgs = Report(@, k, "Short")]
    ELSE [key EXCEPT !.msgs = Report(@, k, "Leave")]

TouchLeave(key, k) ==
  IF k \in key.tidEn
    THEN [key EXCEPT !.cb = CbTimerStop(@, key.tid[k]),
                     !.tidEn = @ \ {k},
                     !.msgs = Report(Report(@, k, "Short"), k, "Leave")]
    ELSE [key EXCEPT !.msgs = Report(@, k, "Leave")]

(* One round of HalKeyHandle's loop over the keys. *)
Handle(key, k, pins) ==
  CASE k \in pins /\ k \notin key.keyState -> TouchEnter(key, k)
    [] k \notin pins /\ k \in key.keyState -> TouchLeave(key, k)
    [] OTHER -> key

(* Mutant: the keys in the wrong order. *)
HalKeyHandle_DoorFirst(key, pins) ==
  [Handle(Handle(key, Door, pins), Button, pins) EXCEPT !.keyState = pins]

HalKeyHandle(key, pins) ==
  [Handle(Handle(key, Button, pins), Door, pins) EXCEPT !.keyState = pins]

(* The assertion of each round in which a touch begins: osal_CbTimerStart  *)
(* finds a slot.                                                           *)
SlotsSuffice(key, pins) ==
  /\ Button \in pins \ key.keyState => Unused(key.cb) # {}
  /\ Door \in pins \ key.keyState => Unused(Handle(key, Button, pins).cb) # {}

(* Mutant: the note that the timer runs stays. *)
onButtonTouchLong_KeepsNote(key, k) == [key EXCEPT !.msgs = Report(@, k, "Long")]

onButtonTouchLong(key, k) ==
  [key EXCEPT !.tidEn = @ \ {k}, !.msgs = Report(@, k, "Long")]

(* The callback task handles its first event. *)
CbTimerProcessEvent(key) ==
  LET x == key.cb.data[FirstOf(key.cb.events)]
      called == IF x = NoCallback THEN key ELSE onButtonTouchLong(key, x)
  IN  [called EXCEPT !.cb = CbTimerHandled(@)]
=============================================================================
