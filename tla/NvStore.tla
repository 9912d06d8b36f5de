------------------------------ MODULE NvStore ------------------------------
(***************************************************************************)
(* What a non-volatile store promises: a write takes effect at one moment, *)
(* or not at all if the power fails or the store says that it failed; no   *)
(* other item changes; what was answered with success stays.               *)
(***************************************************************************)
CONSTANTS Ids, Values, None

VARIABLES value,    \* what a restart would find of each item
          write,    \* the write that is under way, or <<>>
          answer    \* what the last call returned

vars == <<value, write, answer>>

Init ==
    /\ value = [id \in Ids |-> None]
    /\ write = << >>
    /\ answer = "none"

\* The item changes, or already has the value that is written
TakeEffect ==
    /\ write # << >>
    /\ UNCHANGED <<write, answer>>
    /\ value' = [value EXCEPT ![write[1]] = write[2]]

Ask(id, v) ==
    /\ write = << >>
    /\ write' = <<id, v>>
    /\ answer' = "none"

Answer(a) ==
    /\ write # << >> /\ write' = << >>
    /\ answer' = a
    /\ a = "SUCCESS" => value[write[1]] = write[2]

PowerFails ==
    /\ write' = << >>
    /\ answer' = "none"

Next ==
    \/ TakeEffect
    \/ /\ \/ \E id \in Ids, v \in Values : Ask(id, v)
          \/ \E a \in {"SUCCESS", "NV_OPER_FAILED"} : Answer(a)
          \/ PowerFails
       /\ UNCHANGED value

Spec == Init /\ [][Next]_vars
=============================================================================
