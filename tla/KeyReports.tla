----------------------------- MODULE KeyReports -----------------------------
(***************************************************************************)
(* What the driver of the keys promises to the application: the button is  *)
(* reported once per touch, as long when it has been down for LongTouch,   *)
(* else as short when it is let go; the door is reported whenever it       *)
(* closes or opens; and the reports come in the order of the readings.     *)
(***************************************************************************)
EXTENDS Naturals, Sequences

CONSTANTS Button, Door, LongTouch

VARIABLES
  down,     \* the keys that were down at the last reading
  held,     \* for how long the button has been down, as far as it matters
  told,     \* whether this touch of the button was already reported
  msgs

vars == <<down, held, told, msgs>>

Init == down = {} /\ held = 0 /\ told = FALSE /\ msgs = <<>>

ShortTouch(pins) ==
  IF Button \in down \ pins /\ ~told THEN <<<<Button, "Short">>>> ELSE <<>>

DoorMoves(pins) ==
  CASE Door \in pins \ down -> <<<<Door, "Enter">>>>
    [] Door \in down \ pins -> <<<<Door, "Leave">>>>
    [] OTHER -> <<>>

Read(pins) ==
  /\ down' = pins
  /\ msgs' = msgs \o ShortTouch(pins) \o DoorMoves(pins)
  /\ told' = (told /\ Button \in pins)
  /\ held' = IF Button \in down \cap pins THEN held ELSE 0

LongTouchReached == Button \in down /\ held = LongTouch /\ ~told

Long ==
  /\ LongTouchReached
  /\ told' = TRUE
  /\ msgs' = Append(msgs, <<Button, "Long">>)
  /\ UNCHANGED <<down, held>>

(* Time does not pass over a long touch. *)
Tick ==
  /\ ~LongTouchReached
  /\ held' = IF Button \in down /\ held < LongTouch THEN held + 1 ELSE held
  /\ UNCHANGED <<down, told, msgs>>

Take == msgs' = <<>> /\ UNCHANGED <<down, held, told>>

(* The driver may restart; what it has not yet handed over is lost.        *)
Restart == down' = {} /\ held' = 0 /\ told' = FALSE /\ msgs' = <<>>

Next ==
  \/ \E pins \in SUBSET {Button, Door} : Read(pins)
  \/ Long \/ Tick \/ Take \/ Restart

Spec == Init /\ [][Next]_vars
=============================================================================
