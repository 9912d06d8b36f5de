------------------------------ MODULE Mailbox -------------------------------
(***************************************************************************)
(* What osal_msg_send and osal_msg_receive promise to the tasks: every     *)
(* task has a mailbox of its own, messages leave it in the order they were *)
(* sent, one at a time, and each of them exactly once.                     *)
(***************************************************************************)
EXTENDS Naturals, Sequences

CONSTANTS Tasks, Msgs, NULL

VARIABLES mail, inHand

Init ==
  /\ mail = [t \in Tasks |-> << >>]
  /\ inHand = NULL

Send(t, m) ==
  /\ m # inHand
  /\ \A u \in Tasks : \A i \in 1 .. Len(mail[u]) : mail[u][i] # m
  /\ mail' = [mail EXCEPT ![t] = Append(@, m)]
  /\ UNCHANGED inHand

Receive(t) ==
  /\ inHand = NULL
  /\ mail[t] # << >>
  /\ inHand' = Head(mail[t])
  /\ mail' = [mail EXCEPT ![t] = Tail(@)]

Release ==
  /\ inHand' = NULL
  /\ UNCHANGED mail

Next ==
  \/ \E t \in Tasks, m \in Msgs : Send(t, m)
  \/ \E t \in Tasks : Receive(t)
  \/ Release

Spec == Init /\ [][Next]_<<mail, inHand>>
=============================================================================
