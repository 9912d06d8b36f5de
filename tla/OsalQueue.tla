----------------------------- MODULE OsalQueue ------------------------------
(***************************************************************************)
(* The message queues of src/firmware/osal/osal.c as linked lists.  The    *)
(* header before a message holds the link to the next one and the task it  *)
(* is for; a queue is a pointer to its first message.  The queue of the    *)
(* tasks is osal_qHead; a task may keep queues of its own, and the model   *)
(* has one filled with osal_msg_enqueue and osal_msg_push and one filled   *)
(* with osal_msg_enqueue_max.                                              *)
(*                                                                         *)
(* Every function runs in a critical section, so each is one step.  A      *)
(* caller sends or queues a message that it holds, one in no queue.        *)
(***************************************************************************)
EXTENDS Naturals, Sequences, FiniteSets

CONSTANTS
  Tasks, Msgs, NULL,
  max         \* what osal_msg_enqueue_max is called with, a uint8_t

TASK_NO_TASK == 255

OsalQueueAssumption ==
  /\ Tasks \subseteq 0 .. 254 /\ NULL \notin Msgs /\ IsFiniteSet(Msgs)
  /\ max \in 0 .. 255

VARIABLES
  queue,      \* the first message of each queue
  next,       \* OSAL_MSG_NEXT of each message
  dest_id,    \* OSAL_MSG_ID of each message
  announced   \* the tasks with SYS_EVENT_MSG set

vars == <<queue, next, dest_id, announced>>

Queues == {"osal_qHead", "plain", "limited"}

Init ==
  /\ queue = [q \in Queues |-> NULL]
  /\ next = [m \in Msgs |-> NULL]
  /\ dest_id = [m \in Msgs |-> TASK_NO_TASK]
  /\ announced = {}

-----------------------------------------------------------------------------

(* The messages a walk along the links of a queue meets, in that order.    *)
Walk(q) ==
  LET walk[n \in Nat] ==
        IF n = 0 THEN << >>
        ELSE LET before == walk[n - 1]
                 at == IF n = 1 THEN queue[q]
                       ELSE IF Len(before) < n - 1 THEN NULL ELSE next[before[n - 1]]
             IN  IF at = NULL THEN before ELSE Append(before, at)
  IN  walk[Cardinality(Msgs) + 1]

Met(q) == {Walk(q)[i] : i \in 1 .. Len(Walk(q))}
Held == Msgs \ UNION {Met(q) : q \in Queues}

(* osal_msg_enqueue *)
Enqueue(q, m) ==
  IF queue[q] = NULL
  THEN queue' = [queue EXCEPT ![q] = m] /\ next' = [next EXCEPT ![m] = NULL]
  ELSE /\ next' = [next EXCEPT ![m] = NULL, ![Walk(q)[Len(Walk(q))]] = m]
       /\ UNCHANGED queue

(* osal_msg_push *)
Push(q, m) ==
  /\ next' = [next EXCEPT ![m] = queue[q]]
  /\ queue' = [queue EXCEPT ![q] = m]

(* osal_msg_extract, and osal_msg_dequeue for the first message *)
Unlink(q, m, prev) ==
  /\ IF m = queue[q]
     THEN /\ queue' = [queue EXCEPT ![q] = next[m]]
          /\ next' = [next EXCEPT ![m] = NULL]
     ELSE /\ next' = [next EXCEPT ![prev] = next[m], ![m] = NULL]
          /\ UNCHANGED queue
  /\ dest_id' = [dest_id EXCEPT ![m] = TASK_NO_TASK]

-----------------------------------------------------------------------------

(* osal_msg_send and osal_msg_push_front (osal_msg_enqueue_push)           *)
Send(m, t) ==
  /\ next[m] = NULL /\ dest_id[m] = TASK_NO_TASK
  /\ dest_id' = [dest_id EXCEPT ![m] = t]
  /\ Enqueue("osal_qHead", m) \/ Push("osal_qHead", m)
  /\ announced' = announced \cup {t}

(* The event is set again only for a second message. *)
Left(mine, t) == IF Cardinality(mine) > 1 THEN announced \cup {t} ELSE announced \ {t}

(* osal_msg_receive; prevHdr is the last message met before the one found  *)
Receive(t) ==
  LET walk == Walk("osal_qHead")
      mine == {i \in 1 .. Len(walk) : dest_id[walk[i]] = t}
  IN  /\ announced' = Left(mine, t)
      /\ IF mine = {} THEN UNCHANGED <<queue, next, dest_id>>
         ELSE LET i == CHOOSE i \in mine : \A j \in mine : i <= j
              IN  Unlink("osal_qHead", walk[i], IF i = 1 THEN NULL ELSE walk[i - 1])

EnqueueOwn(m) ==
  /\ Enqueue("plain", m) \/ Push("plain", m)
  /\ UNCHANGED <<dest_id, announced>>

(* Mutant: max is not counted down for the first message.                  *)
Reached_OneMore(q) == max < Len(Walk(q))

(* The walk of osal_msg_enqueue_max has counted max, a uint8_t, down to 0. *)
Reached(q) == (max + 255) % 256 < Len(Walk(q))

(* osal_msg_enqueue_max; it does not write the link of the message.        *)
EnqueueMax(m) ==
  /\ IF queue["limited"] = NULL
     THEN queue' = [queue EXCEPT !["limited"] = m] /\ UNCHANGED next
     ELSE /\ ~Reached("limited")
          /\ next' = [next EXCEPT ![Walk("limited")[Len(Walk("limited"))]] = m]
          /\ UNCHANGED queue
  /\ UNCHANGED <<dest_id, announced>>

(* osal_msg_dequeue *)
Dequeue(q) ==
  /\ queue[q] # NULL
  /\ Unlink(q, queue[q], NULL)
  /\ UNCHANGED announced

Next ==
  \/ \E m \in Held : EnqueueOwn(m) \/ EnqueueMax(m) \/ \E t \in Tasks : Send(m, t)
  \/ \E t \in Tasks : Receive(t)
  \/ Dequeue("plain") \/ Dequeue("limited")

Spec == Init /\ [][Next]_vars

-----------------------------------------------------------------------------
TypeOK ==
  /\ queue \in [Queues -> Msgs \cup {NULL}]
  /\ next \in [Msgs -> Msgs \cup {NULL}]
  /\ dest_id \in [Msgs -> Tasks \cup {TASK_NO_TASK}]
  /\ announced \subseteq Tasks

(* The lists stay lists: no message is in two queues or twice in one, and  *)
(* a message that is in none has an empty header, which is what            *)
(* osal_msg_enqueue_push asks of it and osal_msg_enqueue_max relies on.    *)
ListsAreSound ==
  /\ \A q \in Queues : Cardinality(Met(q)) = Len(Walk(q))
  /\ \A q, r \in Queues : q # r => Met(q) \cap Met(r) = {}
  /\ \A m \in Held : next[m] = NULL /\ dest_id[m] = TASK_NO_TASK

(* A task has SYS_EVENT_MSG as long as the queue holds a message for it,   *)
(* and osal_msg_receive leaves it without when it takes the last one.      *)
MailIsAnnounced == announced = {dest_id[m] : m \in Met("osal_qHead")}

(* The linked lists are the queues the functions promise.                  *)
Abstract == INSTANCE MsgQueues WITH
  mail <- [i \in 1 .. Len(Walk("osal_qHead")) |->
             [msg |-> Walk("osal_qHead")[i], to |-> dest_id[Walk("osal_qHead")[i]]]],
  plain <- Walk("plain"), limited <- Walk("limited")

(* Messages come out of every queue in the order of the queue, none is     *)
(* lost or made up, and osal_msg_enqueue_max "enqueues an OSAL message     *)
(* into an OSAL queue if the length of the queue is less than max"         *)
(* (osal.c).                                                               *)
IsQueues == Abstract!Spec
=============================================================================
