----------------------------- MODULE ByteQueue -----------------------------
(****************************************************************************)
(* What osal_fifo.c promises its callers: a queue of bytes that exists from *)
(* create to delete.  A put may be refused (no memory), and then nothing    *)
(* has changed; a get of the empty queue gives 0.                           *)
(****************************************************************************)
EXTENDS Sequences

CONSTANTS Byte, Absent, Refused

VARIABLES queue,    \* Absent, or the bytes
          result    \* what the last call returned

vars == <<queue, result>>

Init == queue = Absent /\ result = Refused

Create ==
    /\ queue = Absent
    /\ \/ queue' = << >> /\ result' = 0
       \/ UNCHANGED queue /\ result' = Refused

Put(b) ==
    /\ queue # Absent
    /\ \/ queue' = Append(queue, b) /\ result' = b
       \/ UNCHANGED queue /\ result' = Refused

Get ==
    /\ queue # Absent
    /\ IF queue = << >>
       THEN result' = 0 /\ UNCHANGED queue
       ELSE result' = Head(queue) /\ queue' = Tail(queue)

Delete ==
    /\ queue # Absent
    /\ queue' = Absent
    /\ result' = 0

Next == Create \/ (\E b \in Byte : Put(b)) \/ Get \/ Delete

Spec == Init /\ [][Next]_vars
=============================================================================
