-------------------------------- MODULE Osal --------------------------------
(***************************************************************************)
(* The OSAL kernel (src/firmware/osal/osal.c): one message queue shared by *)
(* all the tasks, one event word per task, and the run-to-completion       *)
(* scheduler of osal_run_system.  A task handler gets the whole event word *)
(* of its task, works off ONE flag of it (SYS_EVENT_MSG first, receiving   *)
(* until osal_msg_receive finds nothing) and returns the flags it left,    *)
(* which the scheduler ORs back into the event word.                       *)
(*                                                                         *)
(* What a handler does besides that is arbitrary: it may send messages to  *)
(* any task and set or clear any flag of any task.  Interrupts (and the    *)
(* polls of osal_run_system) set flags at any time.                        *)
(***************************************************************************)
EXTENDS Naturals, Sequences

CONSTANTS
  TaskCnt,      \* tasksCnt: tasks are numbered by priority, 0 is the highest
  Msgs,         \* the message buffers of the heap
  Flags,        \* the event flags other than SYS_EVENT_MSG
  SYS_EVENT_MSG,
  NULL

TASK_NO_TASK == 255

ASSUME OsalAssumption ==
  /\ TaskCnt \in 1 .. 254
  /\ SYS_EVENT_MSG \notin Flags
  /\ NULL \notin Msgs

Tasks == 0 .. TaskCnt - 1
EventFlags == Flags \cup {SYS_EVENT_MSG}

VARIABLES
  osal_qHead,    \* the queue: the buffers in list order
  dest_id,       \* the header field: addressee of a queued buffer
  tasksEvents,
  activeTaskID,
  events,        \* the running handler's copy of its event word
  pMsg           \* the message the running handler is processing

vars == <<osal_qHead, dest_id, tasksEvents, activeTaskID, events, pMsg>>

Init ==
  /\ osal_qHead = << >>
  /\ dest_id = [m \in Msgs |-> TASK_NO_TASK]
  /\ tasksEvents = [t \in Tasks |-> {}]
  /\ activeTaskID = TASK_NO_TASK
  /\ events = {}
  /\ pMsg = NULL

-----------------------------------------------------------------------------

(* The positions of the queue that hold a message for task t. *)
MailOf(t) == {i \in 1 .. Len(osal_qHead) : dest_id[osal_qHead[i]] = t}

(* The queue without its i-th message (osal_msg_extract). *)
Without(i) ==
  [k \in 1 .. Len(osal_qHead) - 1 |-> osal_qHead[IF k < i THEN k ELSE k + 1]]

(* Mutants of Send: a buffer is sent although it is queued already; the    *)
(* buffer is put in front of the queue.                                    *)
Send_Unchecked(m, t) ==
  /\ m # pMsg
  /\ dest_id' = [dest_id EXCEPT ![m] = t]
  /\ Len(osal_qHead) < 4 /\ osal_qHead' = Append(osal_qHead, m)
  /\ tasksEvents' = [tasksEvents EXCEPT ![t] = @ \cup {SYS_EVENT_MSG}]
  /\ UNCHANGED <<activeTaskID, events, pMsg>>

Send_InFront(m, t) ==
  /\ dest_id[m] = TASK_NO_TASK
  /\ m # pMsg
  /\ dest_id' = [dest_id EXCEPT ![m] = t]
  /\ osal_qHead' = <<m>> \o osal_qHead
  /\ tasksEvents' = [tasksEvents EXCEPT ![t] = @ \cup {SYS_EVENT_MSG}]
  /\ UNCHANGED <<activeTaskID, events, pMsg>>

(* osal_msg_allocate and osal_msg_send: a buffer that is neither queued    *)
(* nor in use is addressed, appended to the queue and announced.           *)
Send(m, t) ==
  /\ dest_id[m] = TASK_NO_TASK
  /\ m # pMsg
  /\ dest_id' = [dest_id EXCEPT ![m] = t]
  /\ osal_qHead' = Append(osal_qHead, m)
  /\ tasksEvents' = [tasksEvents EXCEPT ![t] = @ \cup {SYS_EVENT_MSG}]
  /\ UNCHANGED <<activeTaskID, events, pMsg>>

SetEvent(t, f) ==
  /\ tasksEvents' = [tasksEvents EXCEPT ![t] = @ \cup {f}]
  /\ UNCHANGED <<osal_qHead, dest_id, activeTaskID, events, pMsg>>

(* Only running task code clears flags. *)
ClearEvent(t, f) ==
  /\ activeTaskID # TASK_NO_TASK
  /\ tasksEvents' = [tasksEvents EXCEPT ![t] = @ \ {f}]
  /\ UNCHANGED <<osal_qHead, dest_id, activeTaskID, events, pMsg>>

(* The loop of osal_run_system hands its events to the first ready task.   *)
RunSystem(t) ==
  /\ activeTaskID = TASK_NO_TASK
  /\ tasksEvents[t] # {}
  /\ \A u \in Tasks : u < t => tasksEvents[u] = {}
  /\ activeTaskID' = t
  /\ events' = tasksEvents[t]
  /\ tasksEvents' = [tasksEvents EXCEPT ![t] = {}]
  /\ UNCHANGED <<osal_qHead, dest_id, pMsg>>

(* osal_msg_receive by the running handler: the first message for it       *)
(* leaves the queue, and the flag says whether there is a second one.      *)
Receive(t) ==
  /\ activeTaskID = t
  /\ SYS_EVENT_MSG \in events
  /\ pMsg = NULL
  /\ \E i \in MailOf(t) :
       /\ \A j \in MailOf(t) : i <= j
       /\ pMsg' = osal_qHead[i]
       /\ dest_id' = [dest_id EXCEPT ![osal_qHead[i]] = TASK_NO_TASK]
       /\ osal_qHead' = Without(i)
       /\ tasksEvents' =
            [tasksEvents EXCEPT ![t] = IF MailOf(t) # {i}
                                         THEN @ \cup {SYS_EVENT_MSG}
                                         ELSE @ \ {SYS_EVENT_MSG}]
  /\ UNCHANGED <<activeTaskID, events>>

(* osal_msg_deallocate of the message just processed. *)
Deallocate ==
  /\ pMsg # NULL
  /\ pMsg' = NULL
  /\ UNCHANGED <<osal_qHead, dest_id, tasksEvents, activeTaskID, events>>

(* A mutant of Return: the flags left replace those set meanwhile.         *)
Return_Overwrites(t, left, evts) ==
  /\ activeTaskID' = TASK_NO_TASK
  /\ events' = {}
  /\ tasksEvents' = [tasksEvents EXCEPT ![t] = left]
  /\ UNCHANGED <<osal_qHead, dest_id, pMsg>>

(* The handler returns `left'; the scheduler adds it back. *)
Return(t, left, evts) ==
  /\ activeTaskID' = TASK_NO_TASK
  /\ events' = {}
  /\ tasksEvents' = [tasksEvents EXCEPT ![t] = evts \cup left]
  /\ UNCHANGED <<osal_qHead, dest_id, pMsg>>

(* The receive that finds nothing clears the flag and ends the handler.    *)
MessagesDone(t) ==
  /\ activeTaskID = t
  /\ SYS_EVENT_MSG \in events
  /\ pMsg = NULL
  /\ MailOf(t) = {}
  /\ Return(t, events \ {SYS_EVENT_MSG}, tasksEvents[t] \ {SYS_EVENT_MSG})

(* A handler without a message works off one flag. *)
FlagDone(t, f) ==
  /\ activeTaskID = t
  /\ SYS_EVENT_MSG \notin events
  /\ f \in events
  /\ Return(t, events \ {f}, tasksEvents[t])

Kernel ==
  \/ \E t \in Tasks : RunSystem(t) \/ Receive(t) \/ MessagesDone(t)
  \/ \E t \in Tasks, f \in Flags : FlagDone(t, f)
  \/ Deallocate

Clients ==
  \/ \E m \in Msgs, t \in Tasks : Send(m, t)
  \/ \E t \in Tasks, f \in Flags : SetEvent(t, f) \/ ClearEvent(t, f)

Next == Kernel \/ Clients

(* The main loop and the handlers run forever; nobody has to send.         *)
Fairness == WF_vars(Kernel)

Spec == Init /\ [][Next]_vars /\ Fairness

-----------------------------------------------------------------------------

(* The types of the variables, which the proofs start from.               *)
TypeOK ==
  /\ osal_qHead \in Seq(Msgs)
  /\ dest_id \in [Msgs -> Tasks \cup {TASK_NO_TASK}]
  /\ tasksEvents \in [Tasks -> SUBSET EventFlags]
  /\ activeTaskID \in Tasks \cup {TASK_NO_TASK}
  /\ events \in SUBSET EventFlags
  /\ pMsg \in Msgs \cup {NULL}

(* No message is stranded: whenever a message waits for a task, the task's *)
(* event word announces it or its handler is still receiving.  (The flag   *)
(* is cleared by osal_msg_receive, taken by osal_run_system and put back   *)
(* by its last statement; a message sent between any two of these must not *)
(* be forgotten, since nothing else would ever run the addressee.)         *)
NoStrandedMessage ==
  \A i \in 1 .. Len(osal_qHead) :
    LET t == dest_id[osal_qHead[i]]
    IN  \/ SYS_EVENT_MSG \in tasksEvents[t]
        \/ activeTaskID = t /\ SYS_EVENT_MSG \in events

(* The header and the list agree: a buffer is linked exactly once while it *)
(* has an addressee, and is free or being processed otherwise.  (A buffer  *)
(* that osal_msg_deallocate refuses or frees while it is linked would      *)
(* corrupt the list.)                                                      *)
BufferOwnership ==
  /\ \A i, j \in 1 .. Len(osal_qHead) :
       osal_qHead[i] = osal_qHead[j] => i = j
  /\ \A m \in Msgs : (dest_id[m] # TASK_NO_TASK)
                       <=> (\E i \in 1 .. Len(osal_qHead) : osal_qHead[i] = m)
  /\ pMsg # NULL => dest_id[pMsg] = TASK_NO_TASK

(* The messages of the queue q that d addresses to t, in their order.  (It *)
(* is SelectSeq, as a function that the proofs can unfold.)                *)
Selected(q, d, t) ==
  LET pick[n \in 0 .. Len(q)] ==
        IF n = 0 THEN << >>
          ELSE IF d[q[n]] = t THEN Append(pick[n - 1], q[n])
          ELSE pick[n - 1]
  IN  pick[Len(q)]

(* Per task, the shared list is a FIFO mailbox: the abstract promise of    *)
(* osal_msg_send and osal_msg_receive, whatever the other tasks do.        *)
Mailboxes == INSTANCE Mailbox WITH
  mail <- [t \in Tasks |-> Selected(osal_qHead, dest_id, t)],
  inHand <- pMsg

MailboxFifo == Mailboxes!Spec

(* Delivery: a message waiting for task t is received, provided every      *)
(* handler returns (tasks are not preempted: one that keeps sending to     *)
(* itself would receive for ever) and the tasks above t are idle from some *)
(* point on (priorities are strict: a busy task starves every one below).  *)
HandlersReturn == []<>(activeTaskID = TASK_NO_TASK)
Idle(t) == tasksEvents[t] = {} /\ activeTaskID # t

Delivery ==
  HandlersReturn =>
    \A t \in Tasks :
      (\A u \in 0 .. t - 1 : <>[]Idle(u))
        => \A m \in Msgs : dest_id[m] = t ~> dest_id[m] # t
=============================================================================
