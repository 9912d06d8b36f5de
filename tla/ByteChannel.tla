---------------------------- MODULE ByteChannel ----------------------------
(*************************************************************************)
(* What a direction of the serial line promises: bytes come out in the   *)
(* order in which they went in, each once, and only a failed assertion,  *)
(* with the restart that follows, loses those that are on their way.     *)
(*************************************************************************)
EXTENDS Sequences

CONSTANT Byte

VARIABLES waiting,    \* accepted and not yet delivered
          delivered,  \* everything delivered so far (history)
          down        \* an assertion has failed

vars == <<waiting, delivered, down>>

Init ==
    /\ waiting = << >>
    /\ delivered = << >>
    /\ down = FALSE

Accept(b) ==
    /\ ~down
    /\ waiting' = Append(waiting, b)
    /\ UNCHANGED <<delivered, down>>

Deliver ==
    /\ ~down
    /\ waiting # << >>
    /\ waiting' = Tail(waiting)
    /\ delivered' = Append(delivered, Head(waiting))
    /\ UNCHANGED down

Fail ==
    /\ ~down
    /\ down' = TRUE
    /\ UNCHANGED <<waiting, delivered>>

Restart ==
    /\ down
    /\ down' = FALSE
    /\ waiting' = << >>
    /\ UNCHANGED delivered

Next == (\E b \in Byte : Accept(b)) \/ Deliver \/ Fail \/ Restart

Spec == Init /\ [][Next]_vars
=============================================================================
