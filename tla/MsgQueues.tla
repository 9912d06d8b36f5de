----------------------------- MODULE MsgQueues ------------------------------
(***************************************************************************)
(* What the queue functions of OSAL promise: every queue is a sequence of  *)
(* messages.  The queue of the tasks gives each task the first message     *)
(* that is for it; a queue of one's own gives its first message, and one   *)
(* that is filled with osal_msg_enqueue_max never holds more than max.     *)
(***************************************************************************)
EXTENDS Naturals, Sequences

CONSTANTS Tasks, Msgs, max

VARIABLES
  mail,   \* the queue of the tasks: [msg, to]
  plain,  \* a queue filled with osal_msg_enqueue and osal_msg_push
  limited \* a queue filled with osal_msg_enqueue_max

vars == <<mail, plain, limited>>

Init == mail = << >> /\ plain = << >> /\ limited = << >>

Queued ==
  {mail[i].msg : i \in 1 .. Len(mail)} \cup {plain[i] : i \in 1 .. Len(plain)}
  \cup {limited[i] : i \in 1 .. Len(limited)}

Send(m, t) ==
  /\ mail' \in {Append(mail, [msg |-> m, to |-> t]), <<[msg |-> m, to |-> t]>> \o mail}
  /\ UNCHANGED <<plain, limited>>

Receive(t) ==
  /\ \E i \in 1 .. Len(mail) :
       /\ mail[i].to = t /\ \A j \in 1 .. i - 1 : mail[j].to # t
       /\ mail' = SubSeq(mail, 1, i - 1) \o SubSeq(mail, i + 1, Len(mail))
  /\ UNCHANGED <<plain, limited>>

Enqueue(m) ==
  /\ plain' \in {Append(plain, m), <<m>> \o plain}
  /\ UNCHANGED <<mail, limited>>

EnqueueMax(m) ==
  /\ Len(limited) < max /\ limited' = Append(limited, m)
  /\ UNCHANGED <<mail, plain>>

Dequeue ==
  /\ UNCHANGED mail
  /\ \/ plain # << >> /\ plain' = Tail(plain) /\ UNCHANGED limited
     \/ limited # << >> /\ limited' = Tail(limited) /\ UNCHANGED plain

Next ==
  \/ \E m \in Msgs \ Queued : Enqueue(m) \/ EnqueueMax(m) \/ \E t \in Tasks : Send(m, t)
  \/ \E t \in Tasks : Receive(t)
  \/ Dequeue

Spec == Init /\ [][Next]_vars
=============================================================================
