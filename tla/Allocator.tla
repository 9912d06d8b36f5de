----------------------------- MODULE Allocator -----------------------------
(***************************************************************************)
(* What the heap promises: a chunk is a run of cells that nobody else has; *)
(* a request is denied only when there is no run long enough.  A denied    *)
(* resize leaves the chunk where it is.                                    *)
(***************************************************************************)
EXTENDS Naturals, FiniteSets

CONSTANTS Clients, LastCell,
          Amounts     \* bound: the cells that are asked for

VARIABLES chunk,    \* the cells each client has
          denied    \* the last request, if it was denied: the client and the cells it needed

vars == <<chunk, denied>>

Runs(n) == {i .. (i + n - 1) : i \in 1 .. (LastCell + 1 - n)}

Taken(others) == UNION {chunk[o] : o \in others}

Init ==
    /\ chunk = [o \in Clients |-> {}]
    /\ denied = << >>

\* A run of n cells that none of the others has
Free(n, others) == {run \in Runs(n) : run \cap Taken(others) = {}}

\* A first request, or one for more or less than the client has
Request(o, n) ==
    LET runs == Free(n, Clients \ {o}) IN
    \/ /\ \E run \in runs : chunk' = [chunk EXCEPT ![o] = run]
       /\ denied' = << >>
    \/ /\ runs = {}
       /\ denied' = <<o, n>>
       /\ UNCHANGED chunk

Return(o) ==
    /\ chunk[o] # {}
    /\ chunk' = [chunk EXCEPT ![o] = {}]
    /\ denied' = << >>

Next == \E o \in Clients : Return(o) \/ \E n \in Amounts : Request(o, n)

Spec == Init /\ [][Next]_vars
=============================================================================
