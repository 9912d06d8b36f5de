---------------------------- MODULE Osal_proofs -----------------------------
(***************************************************************************)
(* For every number of tasks, every heap of message buffers and every set  *)
(* of flags, the kernel keeps its types, never links a buffer twice, never *)
(* strands a message and gives every task a mailbox that is a FIFO.        *)
(***************************************************************************)
EXTENDS Osal, SequenceTheorems, WellFoundedInduction, TLAPS

(* Appending to the queue and taking its i-th message out of it.           *)
LEMMA SendQueue ==
  ASSUME NEW q \in Seq(Msgs), NEW m \in Msgs
  PROVE  /\ Append(q, m) \in Seq(Msgs)
         /\ Len(Append(q, m)) = Len(q) + 1
         /\ \A k \in 1 .. Len(q) : Append(q, m)[k] = q[k]
         /\ Append(q, m)[Len(q) + 1] = m
  OBVIOUS

LEMMA ExtractQueue ==
  ASSUME osal_qHead \in Seq(Msgs), NEW i \in 1 .. Len(osal_qHead)
  PROVE  /\ Without(i) \in Seq(Msgs)
         /\ Len(Without(i)) = Len(osal_qHead) - 1
         /\ \A k \in 1 .. Len(osal_qHead) - 1 :
              Without(i)[k] = osal_qHead[IF k < i THEN k ELSE k + 1]
<1> DEFINE n == Len(osal_qHead)
<1>1. n \in Nat /\ n - 1 \in Nat
  BY LenProperties
<1>2. \A k \in 1 .. n - 1 : osal_qHead[IF k < i THEN k ELSE k + 1] \in Msgs
  <2> TAKE k \in 1 .. n - 1
  <2>1. (IF k < i THEN k ELSE k + 1) \in 1 .. n
    BY <1>1
  <2> QED BY <2>1, ElementOfSeq
<1>3. Without(i) \in [1 .. n - 1 -> Msgs]
  BY <1>2 DEF Without
<1>4. Without(i) \in Seq(Msgs)
  BY <1>1, <1>3, SeqDef
<1>5. Len(Without(i)) = n - 1
  BY <1>1, <1>3, <1>4, LenProperties
<1> QED BY <1>3, <1>4, <1>5 DEF Without

(* What the kernel's words hold: the type invariant, Spec => []TypeOK.     *)
THEOREM TypeCorrect == Spec => []TypeOK
<1>1. Init => TypeOK
  BY OsalAssumption DEF Init, TypeOK, Tasks, EventFlags
<1>2. TypeOK /\ [Next]_vars => TypeOK'
  <2> SUFFICES ASSUME TypeOK, [Next]_vars PROVE TypeOK'
    OBVIOUS
  <2> USE OsalAssumption DEF TypeOK
  <2>1. ASSUME NEW m \in Msgs, NEW t \in Tasks, Send(m, t) PROVE TypeOK'
    <3>1. osal_qHead' \in Seq(Msgs)
      BY <2>1, SendQueue DEF Send
    <3> QED BY <2>1, <3>1 DEF Send, EventFlags
  <2>2. ASSUME NEW t \in Tasks, NEW f \in Flags, SetEvent(t, f) \/ ClearEvent(t, f)
        PROVE  TypeOK'
    BY <2>2 DEF SetEvent, ClearEvent, EventFlags
  <2>3. ASSUME NEW t \in Tasks, RunSystem(t) PROVE TypeOK'
    BY <2>3 DEF RunSystem
  <2>4. ASSUME NEW t \in Tasks, Receive(t) PROVE TypeOK'
    <3>1. PICK i \in MailOf(t) :
            /\ pMsg' = osal_qHead[i]
            /\ dest_id' = [dest_id EXCEPT ![osal_qHead[i]] = TASK_NO_TASK]
            /\ osal_qHead' = Without(i)
            /\ tasksEvents' =
                 [tasksEvents EXCEPT ![t] = IF MailOf(t) # {i}
                                              THEN @ \cup {SYS_EVENT_MSG}
                                              ELSE @ \ {SYS_EVENT_MSG}]
      BY <2>4 DEF Receive
    <3>2. i \in 1 .. Len(osal_qHead)
      BY DEF MailOf
    <3>3. osal_qHead' \in Seq(Msgs)
      BY <3>1, <3>2, ExtractQueue
    <3>4. pMsg' \in Msgs
      BY <3>1, <3>2, ElementOfSeq
    <3>5. tasksEvents' \in [Tasks -> SUBSET EventFlags]
      BY <3>1 DEF EventFlags
    <3>6. dest_id' \in [Msgs -> Tasks \cup {TASK_NO_TASK}]
      BY <3>1
    <3> QED BY <2>4, <3>3, <3>4, <3>5, <3>6 DEF Receive
  <2>5. ASSUME NEW t \in Tasks, MessagesDone(t) PROVE TypeOK'
    BY <2>5 DEF MessagesDone, Return
  <2>6. ASSUME NEW t \in Tasks, NEW f \in Flags, FlagDone(t, f) PROVE TypeOK'
    BY <2>6 DEF FlagDone, Return
  <2>7. CASE Deallocate
    BY <2>7 DEF Deallocate
  <2>8. CASE UNCHANGED vars
    BY <2>8 DEF vars
  <2> QED BY <2>1, <2>2, <2>3, <2>4, <2>5, <2>6, <2>7, <2>8
          DEF Next, Kernel, Clients
<1> QED BY <1>1, <1>2, PTL DEF Spec

-----------------------------------------------------------------------------

(* What the send, the receive and everything else do to the queue.         *)
LEMMA QuietStep ==
  ASSUME [Next]_vars
  PROVE  \/ \E m \in Msgs, t \in Tasks : Send(m, t)
         \/ \E t \in Tasks : Receive(t)
         \/ /\ UNCHANGED <<osal_qHead, dest_id>>
            /\ pMsg' \in {pMsg, NULL}
  BY DEF Next, Kernel, Clients, vars, SetEvent, ClearEvent, RunSystem,
         Deallocate, MessagesDone, FlagDone, Return

(* The queue links each buffer at most once, exactly those that have an    *)
(* addressee, and never the one in a handler's hands.                      *)
THEOREM OwnershipHolds == Spec => []BufferOwnership
<1>1. Init => BufferOwnership
  BY OsalAssumption, EmptySeq DEF Init, BufferOwnership
<1>2. TypeOK /\ BufferOwnership /\ [Next]_vars => BufferOwnership'
  <2> SUFFICES ASSUME TypeOK, BufferOwnership, [Next]_vars
               PROVE  BufferOwnership'
    OBVIOUS
  <2>0. /\ osal_qHead \in Seq(Msgs)
        /\ dest_id \in [Msgs -> Tasks \cup {TASK_NO_TASK}]
        /\ Len(osal_qHead) \in Nat
        /\ TASK_NO_TASK \notin Tasks
        /\ \A i \in 1 .. Len(osal_qHead) : osal_qHead[i] \in Msgs
    BY OsalAssumption, ElementOfSeq, LenProperties
       DEF TypeOK, Tasks, TASK_NO_TASK
  <2>1. ASSUME NEW m \in Msgs, NEW t \in Tasks, Send(m, t)
        PROVE  BufferOwnership'
    <3>1. /\ Len(osal_qHead') = Len(osal_qHead) + 1
          /\ \A k \in 1 .. Len(osal_qHead) : osal_qHead'[k] = osal_qHead[k]
          /\ osal_qHead'[Len(osal_qHead) + 1] = m
      BY <2>0, <2>1, SendQueue DEF Send
    <3>2. \A k \in 1 .. Len(osal_qHead) : osal_qHead[k] # m
      BY <2>1 DEF Send, BufferOwnership
    <3>3. \A i, j \in 1 .. Len(osal_qHead') :
            osal_qHead'[i] = osal_qHead'[j] => i = j
      BY <2>0, <3>1, <3>2 DEF BufferOwnership
    <3>4. \A b \in Msgs :
            (dest_id'[b] # TASK_NO_TASK)
              <=> (\E i \in 1 .. Len(osal_qHead') : osal_qHead'[i] = b)
      <4> TAKE b \in Msgs
      <4>1. CASE b = m
        BY <2>0, <2>1, <3>1, <4>1 DEF Send
      <4>2. CASE b # m
        BY <2>0, <2>1, <3>1, <4>2 DEF Send, BufferOwnership
      <4> QED BY <4>1, <4>2
    <3>5. pMsg' # NULL => dest_id'[pMsg'] = TASK_NO_TASK
      BY <2>0, <2>1 DEF Send, BufferOwnership, TypeOK
    <3> QED BY <3>3, <3>4, <3>5 DEF BufferOwnership
  <2>2. ASSUME NEW t \in Tasks, Receive(t) PROVE BufferOwnership'
    <3>1. PICK i \in MailOf(t) :
            /\ pMsg' = osal_qHead[i]
            /\ dest_id' = [dest_id EXCEPT ![osal_qHead[i]] = TASK_NO_TASK]
            /\ osal_qHead' = Without(i)
      BY <2>2 DEF Receive
    <3>2. i \in 1 .. Len(osal_qHead) /\ osal_qHead[i] \in Msgs
      BY <2>0 DEF MailOf
    <3>3. /\ Len(osal_qHead') = Len(osal_qHead) - 1
          /\ \A k \in 1 .. Len(osal_qHead) - 1 :
               osal_qHead'[k] = osal_qHead[IF k < i THEN k ELSE k + 1]
      BY <2>0, <3>1, <3>2, ExtractQueue
    <3>4. \A j, k \in 1 .. Len(osal_qHead') :
            osal_qHead'[j] = osal_qHead'[k] => j = k
      BY <2>0, <3>2, <3>3 DEF BufferOwnership
    <3>5. \A b \in Msgs :
            (dest_id'[b] # TASK_NO_TASK)
              <=> (\E k \in 1 .. Len(osal_qHead') : osal_qHead'[k] = b)
      <4> TAKE b \in Msgs
      <4>1. CASE b = osal_qHead[i]
        <5>1. \A k \in 1 .. Len(osal_qHead') : osal_qHead'[k] # b
          BY <2>0, <3>2, <3>3, <4>1 DEF BufferOwnership
        <5> QED BY <2>0, <3>1, <4>1, <5>1
      <4>2. CASE b # osal_qHead[i]
        <5>1. \A j \in 1 .. Len(osal_qHead) : osal_qHead[j] = b =>
                \E k \in 1 .. Len(osal_qHead') : osal_qHead'[k] = b
          <6> TAKE j \in 1 .. Len(osal_qHead)
          <6> HAVE osal_qHead[j] = b
          <6>1. CASE j < i
            BY <2>0, <3>2, <3>3, <6>1
          <6>2. CASE j > i
            <7>1. j - 1 \in 1 .. Len(osal_qHead')
              BY <2>0, <3>2, <3>3, <6>2
            <7>2. osal_qHead'[j - 1] = b
              BY <2>0, <3>2, <3>3, <6>2, <7>1
            <7> QED BY <7>1, <7>2
          <6> QED BY <2>0, <3>2, <4>2, <6>1, <6>2
        <5>2. \A k \in 1 .. Len(osal_qHead') : osal_qHead'[k] = b =>
                \E j \in 1 .. Len(osal_qHead) : osal_qHead[j] = b
          BY <2>0, <3>2, <3>3
        <5> QED BY <2>0, <3>1, <4>2, <5>1, <5>2 DEF BufferOwnership
      <4> QED BY <4>1, <4>2
    <3>6. dest_id'[pMsg'] = TASK_NO_TASK
      BY <2>0, <3>1, <3>2
    <3> QED BY <3>4, <3>5, <3>6 DEF BufferOwnership
  <2>3. ASSUME UNCHANGED <<osal_qHead, dest_id>>, pMsg' \in {pMsg, NULL}
        PROVE  BufferOwnership'
    BY <2>3 DEF BufferOwnership
  <2> QED BY <2>1, <2>2, <2>3, QuietStep
<1> QED BY <1>1, <1>2, TypeCorrect, PTL DEF Spec

-----------------------------------------------------------------------------


(* A message in the queue implies that its addressee has been told of it   *)
(* or is receiving: the invariant that keeps run-to-completion tasks from  *)
(* sleeping on their mail.  It needs BufferOwnership: a buffer linked      *)
(* twice would be re-addressed by the second send, or unaddressed by the   *)
(* first receive, while it still waits in the queue.                       *)
THEOREM NobodyStranded == Spec => []NoStrandedMessage
<1>1. Init => NoStrandedMessage
  BY EmptySeq DEF Init, NoStrandedMessage
<1>2. TypeOK /\ BufferOwnership /\ NoStrandedMessage /\ [Next]_vars
        => NoStrandedMessage'
  <2> SUFFICES ASSUME TypeOK, BufferOwnership, NoStrandedMessage, [Next]_vars
               PROVE  NoStrandedMessage'
    OBVIOUS
  <2> DEFINE Told(t) == \/ SYS_EVENT_MSG \in tasksEvents[t]
                        \/ activeTaskID = t /\ SYS_EVENT_MSG \in events
             Waiting(k) == dest_id[osal_qHead[k]]
  <2>0. /\ osal_qHead \in Seq(Msgs) /\ Len(osal_qHead) \in Nat
        /\ dest_id \in [Msgs -> Tasks \cup {TASK_NO_TASK}]
        /\ tasksEvents \in [Tasks -> SUBSET EventFlags]
        /\ TASK_NO_TASK \notin Tasks
        /\ SYS_EVENT_MSG \notin Flags
        /\ \A k \in 1 .. Len(osal_qHead) :
             /\ osal_qHead[k] \in Msgs
             /\ Waiting(k) \in Tasks
             /\ Told(Waiting(k))
    <3>1. \A k \in 1 .. Len(osal_qHead) : osal_qHead[k] \in Msgs
      BY ElementOfSeq DEF TypeOK
    <3>2. \A k \in 1 .. Len(osal_qHead) : Waiting(k) \in Tasks
      BY <3>1 DEF TypeOK, BufferOwnership
    <3> QED BY <3>1, <3>2, OsalAssumption, LenProperties
            DEF TypeOK, NoStrandedMessage, Tasks, TASK_NO_TASK
  <2> HIDE DEF Told
  <2>1. ASSUME NEW m \in Msgs, NEW t \in Tasks, Send(m, t)
        PROVE  NoStrandedMessage'
    <3>1. /\ Len(osal_qHead') = Len(osal_qHead) + 1
          /\ \A k \in 1 .. Len(osal_qHead) : osal_qHead'[k] = osal_qHead[k]
          /\ osal_qHead'[Len(osal_qHead) + 1] = m
      BY <2>0, <2>1, SendQueue DEF Send
    <3>2. \A k \in 1 .. Len(osal_qHead) : osal_qHead[k] # m
      BY <2>1 DEF Send, BufferOwnership
    <3> SUFFICES ASSUME NEW k \in 1 .. Len(osal_qHead')
                 PROVE  Told(Waiting(k))'
      BY DEF NoStrandedMessage, Told
    <3>3. CASE k = Len(osal_qHead) + 1
      BY <2>0, <2>1, <3>1, <3>3 DEF Send, Told
    <3>4. CASE k \in 1 .. Len(osal_qHead)
      BY <2>0, <2>1, <3>1, <3>2, <3>4 DEF Send, Told
    <3> QED BY <2>0, <3>1, <3>3, <3>4
  <2>2. ASSUME NEW t \in Tasks, Receive(t) PROVE NoStrandedMessage'
    <3>1. PICK i \in MailOf(t) :
            /\ dest_id' = [dest_id EXCEPT ![osal_qHead[i]] = TASK_NO_TASK]
            /\ osal_qHead' = Without(i)
      BY <2>2 DEF Receive
    <3>2. i \in 1 .. Len(osal_qHead)
      BY DEF MailOf
    <3> SUFFICES ASSUME NEW k \in 1 .. Len(osal_qHead')
                 PROVE  Told(Waiting(k))'
      BY DEF NoStrandedMessage, Told
    <3>3. PICK j \in 1 .. Len(osal_qHead) :
            j # i /\ osal_qHead'[k] = osal_qHead[j]
      <4> DEFINE j == IF k < i THEN k ELSE k + 1
      <4>1. /\ Len(osal_qHead') = Len(osal_qHead) - 1
            /\ osal_qHead'[k] = osal_qHead[j]
        BY <2>0, <3>1, <3>2, ExtractQueue
      <4>2. j \in 1 .. Len(osal_qHead) /\ j # i
        BY <2>0, <3>2, <4>1
      <4> QED BY <4>1, <4>2
    <3>4. Waiting(k)' = Waiting(j)
      BY <2>0, <3>1, <3>2, <3>3 DEF BufferOwnership
    <3>5. CASE Waiting(j) = t
      BY <2>2, <3>4, <3>5 DEF Receive, Told
    <3>6. CASE Waiting(j) # t
      BY <2>0, <2>2, <3>4, <3>6 DEF Receive, Told
    <3> QED BY <3>5, <3>6
  <2>3. ASSUME NEW t \in Tasks, NEW f \in Flags, SetEvent(t, f) \/ ClearEvent(t, f)
        PROVE  NoStrandedMessage'
    BY <2>0, <2>3 DEF SetEvent, ClearEvent, NoStrandedMessage, Told
  <2>4. ASSUME NEW t \in Tasks, RunSystem(t) PROVE NoStrandedMessage'
    BY <2>0, <2>4 DEF RunSystem, NoStrandedMessage, Told
  <2>5. ASSUME NEW t \in Tasks, MessagesDone(t) PROVE NoStrandedMessage'
    BY <2>0, <2>5 DEF MessagesDone, Return, MailOf, NoStrandedMessage, Told
  <2>6. ASSUME NEW t \in Tasks, NEW f \in Flags, FlagDone(t, f)
        PROVE  NoStrandedMessage'
    BY <2>0, <2>6 DEF FlagDone, Return, NoStrandedMessage, Told
  <2>7. CASE Deallocate
    BY <2>7 DEF Deallocate, NoStrandedMessage
  <2>8. CASE UNCHANGED vars
    BY <2>8 DEF vars, NoStrandedMessage
  <2> QED BY <2>1, <2>2, <2>3, <2>4, <2>5, <2>6, <2>7, <2>8
          DEF Next, Kernel, Clients
<1> QED BY <1>1, <1>2, TypeCorrect, OwnershipHolds, PTL DEF Spec

-----------------------------------------------------------------------------

(* Induction over the numbers up to N.                                     *)
LEMMA Counting ==
  ASSUME NEW N \in Nat, NEW S, 0 \in S,
         \A n \in 1 .. N : n - 1 \in S => n \in S
  PROVE  \A n \in 0 .. N : n \in S
<1> DEFINE Less == OpToRel(<, Nat)
           T == {n \in 0 .. N : n \notin S}
<1> SUFFICES ASSUME T # {} PROVE FALSE
  OBVIOUS
<1>1. IsWellFoundedOn(Less, Nat)
  BY NatLessThanWellFounded
<1>2. T \subseteq Nat
  OBVIOUS
<1>3. PICK x \in T : \A y \in T : <<y, x>> \notin Less
  <2> HIDE DEF T
  <2> QED BY <1>1, <1>2, WFMin
<1>4. \A y \in T : ~(y < x)
  BY <1>2, <1>3 DEF OpToRel
<1>5. x \in 0 .. N /\ x \notin S
  OBVIOUS
<1>6. x \in 1 .. N /\ x - 1 \in 0 .. N
  BY <1>5
<1>7. x - 1 \in S
  <2>1. x - 1 \notin T
    BY <1>4, <1>6
  <2> QED BY <1>6, <2>1
<1> QED BY <1>5, <1>6, <1>7

(* One step of a selection, and the selection made step by step.           *)
Step(q, d, t, s, n) == IF d[q[n]] = t THEN Append(s, q[n]) ELSE s

Picks(f, q, d, t, N) ==
  /\ f = [n \in 0 .. N |-> f[n]]
  /\ f[0] = << >>
  /\ \A n \in 1 .. N : f[n] = Step(q, d, t, f[n - 1], n)

LEMMA PicksExist ==
  ASSUME NEW N \in Nat, NEW q, NEW d, NEW t
  PROVE  \E f : Picks(f, q, d, t, N)
<1> DEFINE S == {n \in 0 .. N : \E f : Picks(f, q, d, t, n)}
<1>1. 0 \in S
  <2> DEFINE f == [n \in 0 .. 0 |-> << >>]
  <2>1. Picks(f, q, d, t, 0)
    BY DEF Picks
  <2> QED BY <2>1
<1>2. ASSUME NEW n \in 1 .. N, n - 1 \in S PROVE n \in S
  <2>1. PICK f : Picks(f, q, d, t, n - 1)
    BY <1>2
  <2> DEFINE g == [k \in 0 .. n |-> IF k = n THEN Step(q, d, t, f[n - 1], n) ELSE f[k]]
  <2>2. g = [k \in 0 .. n |-> g[k]] /\ g[0] = << >>
    BY <2>1 DEF Picks
  <2>3. ASSUME NEW k \in 1 .. n PROVE g[k] = Step(q, d, t, g[k - 1], k)
    BY <2>1 DEF Picks
  <2>4. Picks(g, q, d, t, n)
    <3> HIDE DEF g
    <3> QED BY <2>2, <2>3 DEF Picks
  <2> QED BY <2>4
<1> HIDE DEF S
<1>3. \A n \in 0 .. N : n \in S
  BY <1>1, <1>2, Counting
<1>4. N \in S
  BY <1>3
<1> QED BY <1>4 DEF S

(* The function that Selected chooses is one.                              *)
LEMMA SelectedPicks ==
  ASSUME NEW q, Len(q) \in Nat, NEW d, NEW t
  PROVE  \E f : Picks(f, q, d, t, Len(q)) /\ Selected(q, d, t) = f[Len(q)]
<1> DEFINE N == Len(q)
           Made(f) == f = [n \in 0 .. N |->
                             IF n = 0 THEN << >>
                               ELSE IF d[q[n]] = t THEN Append(f[n - 1], q[n])
                               ELSE f[n - 1]]
           c == CHOOSE f : Made(f)
<1>1. PICK g : Picks(g, q, d, t, N)
  BY PicksExist
<1>2. Made(g)
  <2>1. \A n \in 0 .. N : g[n] = IF n = 0 THEN << >>
                               ELSE IF d[q[n]] = t THEN Append(g[n - 1], q[n])
                               ELSE g[n - 1]
    <3> TAKE n \in 0 .. N
    <3>1. CASE n = 0
      BY <1>1, <3>1 DEF Picks
    <3>2. CASE n # 0
      <4>1. n \in 1 .. N
        BY <3>2
      <4> QED BY <1>1, <3>2, <4>1 DEF Picks, Step
    <3> QED BY <3>1, <3>2
  <2> QED BY <1>1, <2>1 DEF Picks
<1>3. Made(c)
  <2> HIDE DEF Made
  <2> QED BY <1>2
<1>4. Selected(q, d, t) = c[N]
  BY DEF Selected
<1> HIDE DEF c
<1>5. Picks(c, q, d, t, N)
  <2>1. DOMAIN c = 0 .. N /\ c = [n \in 0 .. N |-> c[n]]
    BY <1>3
  <2>2. c[0] = << >>
    BY <1>3
  <2>3. ASSUME NEW n \in 1 .. N PROVE c[n] = Step(q, d, t, c[n - 1], n)
    <3>1. n \in 0 .. N /\ n # 0
      OBVIOUS
    <3>2. c[n] = IF n = 0 THEN << >>
                   ELSE IF d[q[n]] = t THEN Append(c[n - 1], q[n]) ELSE c[n - 1]
      BY <1>3, <3>1
    <3> QED BY <3>1, <3>2 DEF Step
  <2> QED BY <2>1, <2>2, <2>3 DEF Picks
<1> QED BY <1>4, <1>5

(* Selections that meet the same are the same.                             *)
LEMMA PicksAgree ==
  ASSUME NEW N \in Nat, NEW L \in Nat, NEW M \in Nat, N <= L, N <= M,
         NEW q, NEW r, NEW d, NEW e, NEW t, NEW f, NEW g,
         Picks(f, q, d, t, L), Picks(g, r, e, t, M),
         \A k \in 1 .. N : r[k] = q[k] /\ (e[q[k]] = t <=> d[q[k]] = t)
  PROVE  \A n \in 0 .. N : g[n] = f[n]
<1> DEFINE S == {n \in 0 .. N : g[n] = f[n]}
<1>1. 0 \in S
  BY DEF Picks
<1>2. ASSUME NEW n \in 1 .. N, n - 1 \in S PROVE n \in S
  <2>1. n \in 1 .. L /\ n \in 1 .. M
    OBVIOUS
  <2>2. f[n] = Step(q, d, t, f[n - 1], n) /\ g[n] = Step(r, e, t, g[n - 1], n)
    BY <2>1 DEF Picks
  <2>3. g[n] = f[n]
    BY <1>2, <2>2 DEF Step
  <2> QED BY <2>3
<1>3. \A n \in 0 .. N : n \in S
  <2> HIDE DEF S
  <2> QED BY <1>1, <1>2, Counting
<1> QED BY <1>3

(* A selection holds what the queue holds for t, and nothing else.         *)
LEMMA PicksHold ==
  ASSUME NEW q \in Seq(Msgs), NEW d, NEW t, NEW f, Picks(f, q, d, t, Len(q))
  PROVE  \A n \in 0 .. Len(q) :
           /\ f[n] \in Seq(Msgs)
           /\ \A j \in 1 .. Len(f[n]) : \E k \in 1 .. n : f[n][j] = q[k] /\ d[q[k]] = t
<1> DEFINE N == Len(q)
           Held(n) == /\ f[n] \in Seq(Msgs)
                      /\ \A j \in 1 .. Len(f[n]) :
                           \E k \in 1 .. n : f[n][j] = q[k] /\ d[q[k]] = t
           S == {n \in 0 .. N : Held(n)}
<1>0. N \in Nat /\ \A k \in 1 .. N : q[k] \in Msgs
  BY LenProperties, ElementOfSeq
<1>1. 0 \in S
  <2>1. f[0] = << >>
    BY DEF Picks
  <2>2. f[0] \in Seq(Msgs) /\ Len(f[0]) = 0
    BY <2>1
  <2>3. 0 \in 0 .. N
    BY <1>0
  <2>4. \A j \in 1 .. Len(f[0]) : FALSE
    BY <2>2
  <2> QED BY <2>2, <2>3, <2>4
<1>2. ASSUME NEW n \in 1 .. N, n - 1 \in S PROVE n \in S
  <2>1. f[n] = Step(q, d, t, f[n - 1], n) /\ q[n] \in Msgs
    BY <1>0 DEF Picks
  <2>2. Held(n - 1)
    BY <1>2
  <2> DEFINE s == f[n - 1]
  <2>3. s \in Seq(Msgs) /\ \A j \in 1 .. Len(s) : \E k \in 1 .. n - 1 : s[j] = q[k] /\ d[q[k]] = t
    BY <2>2
  <2> HIDE DEF s
  <2>4. CASE d[q[n]] = t
    <3>1. f[n] = Append(s, q[n])
      BY <2>1, <2>4 DEF Step, s
    <3>2. /\ f[n] \in Seq(Msgs) /\ Len(f[n]) = Len(s) + 1 /\ Len(s) \in Nat
          /\ \A j \in 1 .. Len(s) : f[n][j] = s[j]
          /\ f[n][Len(s) + 1] = q[n]
      BY <2>1, <2>3, <3>1, SendQueue, LenProperties
    <3>3. ASSUME NEW j \in 1 .. Len(f[n])
          PROVE  \E k \in 1 .. n : f[n][j] = q[k] /\ d[q[k]] = t
      <4>1. CASE j = Len(s) + 1
        BY <2>4, <3>2, <4>1
      <4>2. CASE j # Len(s) + 1
        <5>1. j \in 1 .. Len(s)
          BY <3>2, <4>2
        <5>2. PICK k \in 1 .. n - 1 : s[j] = q[k] /\ d[q[k]] = t
          BY <2>3, <5>1
        <5>3. k \in 1 .. n
          OBVIOUS
        <5> QED BY <3>2, <5>1, <5>2, <5>3
      <4> QED BY <4>1, <4>2
    <3> QED BY <3>2, <3>3
  <2>5. CASE d[q[n]] # t
    <3>1. f[n] = s
      BY <2>1, <2>5 DEF Step, s
    <3>2. ASSUME NEW j \in 1 .. Len(s) PROVE \E k \in 1 .. n : s[j] = q[k] /\ d[q[k]] = t
      <4>1. PICK k \in 1 .. n - 1 : s[j] = q[k] /\ d[q[k]] = t
        BY <2>3
      <4>2. k \in 1 .. n
        OBVIOUS
      <4> QED BY <4>1, <4>2
    <3> QED BY <2>3, <3>1, <3>2
  <2> QED BY <2>4, <2>5
<1>3. \A n \in 0 .. N : n \in S
  <2> HIDE DEF S
  <2> QED BY <1>0, <1>1, <1>2, Counting
<1> QED BY <1>3

(* r is the queue q without its i-th message, and e addresses all others   *)
(* as d does.                                                              *)
Less1(q, r, d, e, t, i) ==
  /\ Len(r) = Len(q) - 1
  /\ \A k \in 1 .. Len(r) : r[k] = q[IF k < i THEN k ELSE k + 1]
  /\ \A k \in 1 .. Len(q) : k # i => (e[q[k]] = t <=> d[q[k]] = t)

LEMMA LessStep ==
  ASSUME NEW q \in Seq(Msgs), NEW r, NEW d, NEW e, NEW t, NEW i \in 1 .. Len(q), NEW f, NEW g,
         Less1(q, r, d, e, t, i),
         Picks(f, q, d, t, Len(q)), Picks(g, r, e, t, Len(r))
  PROVE  /\ \A n \in 0 .. i - 1 : g[n] = f[n]
         /\ \A n \in i + 1 .. Len(q) :
              /\ f[n] = Step(q, d, t, f[n - 1], n)
              /\ g[n - 1] = Step(q, d, t, g[n - 2], n)
<1>0. Len(q) \in Nat /\ Len(r) = Len(q) - 1 /\ Len(r) \in Nat /\ i - 1 \in Nat
  BY LenProperties DEF Less1
<1>1. \A k \in 1 .. i - 1 : r[k] = q[k] /\ (e[q[k]] = t <=> d[q[k]] = t)
  <2> TAKE k \in 1 .. i - 1
  <2>1. k \in 1 .. Len(r) /\ k \in 1 .. Len(q) /\ k < i /\ k # i
    BY <1>0
  <2> QED BY <2>1 DEF Less1
<1>2. \A n \in 0 .. i - 1 : g[n] = f[n]
  <2> DEFINE j == i - 1
  <2>1. j \in Nat /\ j <= Len(q) /\ j <= Len(r)
    BY <1>0
  <2>2. \A k \in 1 .. j : r[k] = q[k] /\ (e[q[k]] = t <=> d[q[k]] = t)
    BY <1>1
  <2> HIDE DEF j
  <2>3. \A n \in 0 .. j : g[n] = f[n]
    BY <1>0, <2>1, <2>2, PicksAgree
  <2> QED BY <2>3 DEF j
<1>3. ASSUME NEW n \in i + 1 .. Len(q)
      PROVE  /\ f[n] = Step(q, d, t, f[n - 1], n)
             /\ g[n - 1] = Step(q, d, t, g[n - 2], n)
  <2>1. n \in 1 .. Len(q) /\ n - 1 \in 1 .. Len(r) /\ (n - 1) - 1 = n - 2 /\ n # i
    BY <1>0
  <2>2. f[n] = Step(q, d, t, f[n - 1], n)
    BY <2>1 DEF Picks
  <2>3. g[n - 1] = Step(r, e, t, g[n - 2], n - 1)
    BY <2>1 DEF Picks
  <2>4. r[n - 1] = q[n] /\ (e[q[n]] = t <=> d[q[n]] = t)
    <3>1. ~(n - 1 < i) /\ (n - 1) + 1 = n
      BY <1>0
    <3> QED BY <2>1, <3>1 DEF Less1
  <2> QED BY <2>2, <2>3, <2>4 DEF Step
<1> QED BY <1>2, <1>3

(* Who is not its addressee does not miss it, ...                          *)
LEMMA NotMissed ==
  ASSUME NEW q \in Seq(Msgs), NEW r, Len(r) \in Nat, NEW d, NEW e, NEW t,
         NEW i \in 1 .. Len(q), Less1(q, r, d, e, t, i), d[q[i]] # t
  PROVE  Selected(r, e, t) = Selected(q, d, t)
<1>0. Len(q) \in Nat /\ Len(r) = Len(q) - 1
  BY LenProperties DEF Less1
<1>1. PICK f : Picks(f, q, d, t, Len(q)) /\ Selected(q, d, t) = f[Len(q)]
  BY <1>0, SelectedPicks
<1>2. PICK g : Picks(g, r, e, t, Len(r)) /\ Selected(r, e, t) = g[Len(r)]
  BY SelectedPicks
<1>3. /\ \A n \in 0 .. i - 1 : g[n] = f[n]
      /\ \A n \in i + 1 .. Len(q) : /\ f[n] = Step(q, d, t, f[n - 1], n)
                                    /\ g[n - 1] = Step(q, d, t, g[n - 2], n)
  BY <1>1, <1>2, LessStep
<1> DEFINE S == {n \in 0 .. Len(q) : n >= i => g[n - 1] = f[n]}
<1>4. 0 \in S
  BY <1>0
<1>5. ASSUME NEW n \in 1 .. Len(q), n - 1 \in S PROVE n \in S
  <2>1. CASE n = i
    <3>1. f[n] = Step(q, d, t, f[n - 1], n)
      BY <1>1 DEF Picks
    <3>2. f[n] = f[n - 1]
      BY <2>1, <3>1 DEF Step
    <3>3. g[n - 1] = f[n - 1]
      BY <1>3, <2>1
    <3> QED BY <3>2, <3>3
  <2>2. CASE n > i
    <3>1. n \in i + 1 .. Len(q) /\ (n - 1) - 1 = n - 2
      BY <1>0, <2>2
    <3>2. g[n - 2] = f[n - 1]
      BY <1>5, <3>1
    <3>3. g[n - 1] = f[n]
      BY <1>3, <3>1, <3>2
    <3> QED BY <3>3
  <2>3. CASE n < i
    BY <2>3
  <2> QED BY <2>1, <2>2, <2>3
<1>6. \A n \in 0 .. Len(q) : n \in S
  <2> HIDE DEF S
  <2> QED BY <1>0, <1>4, <1>5, Counting
<1>7. g[Len(q) - 1] = f[Len(q)]
  BY <1>0, <1>6
<1> QED BY <1>0, <1>1, <1>2, <1>7

(* ... and whose first one it is misses the head.                          *)
FirstOf(q, d, t, i) == d[q[i]] = t /\ \A k \in 1 .. i - 1 : d[q[k]] # t

Beheads(q, r, d, e, t, i) ==
  /\ Selected(q, d, t) # << >>
  /\ Head(Selected(q, d, t)) = q[i]
  /\ Selected(r, e, t) = Tail(Selected(q, d, t))

LEMMA HeadTaken ==
  ASSUME NEW q \in Seq(Msgs), NEW r, Len(r) \in Nat, NEW d, NEW e, NEW t,
         NEW i \in 1 .. Len(q), Less1(q, r, d, e, t, i), FirstOf(q, d, t, i)
  PROVE  Beheads(q, r, d, e, t, i)
<1> USE DEF FirstOf
<1>0. Len(q) \in Nat /\ Len(r) = Len(q) - 1 /\ \A k \in 1 .. Len(q) : q[k] \in Msgs
  BY LenProperties, ElementOfSeq DEF Less1
<1>1. PICK f : Picks(f, q, d, t, Len(q)) /\ Selected(q, d, t) = f[Len(q)]
  BY <1>0, SelectedPicks
<1>2. PICK g : Picks(g, r, e, t, Len(r)) /\ Selected(r, e, t) = g[Len(r)]
  BY SelectedPicks
<1>3. /\ \A n \in 0 .. i - 1 : g[n] = f[n]
      /\ \A n \in i + 1 .. Len(q) : /\ f[n] = Step(q, d, t, f[n - 1], n)
                                    /\ g[n - 1] = Step(q, d, t, g[n - 2], n)
  BY <1>1, <1>2, LessStep
<1>4. \A n \in 0 .. Len(q) : f[n] \in Seq(Msgs)
  BY <1>1, PicksHold
<1> DEFINE S == {n \in 0 .. Len(q) :
                   /\ n < i => f[n] = << >>
                   /\ n >= i => f[n] # << >> /\ Head(f[n]) = q[i] /\ g[n - 1] = Tail(f[n])}
<1>5. 0 \in S
  BY <1>0, <1>1 DEF Picks
<1>6. ASSUME NEW n \in 1 .. Len(q), n - 1 \in S PROVE n \in S
  <2>1. f[n] = Step(q, d, t, f[n - 1], n) /\ q[n] \in Msgs
    BY <1>0, <1>1 DEF Picks
  <2>2. CASE n < i
    <3>1. f[n - 1] = << >> /\ n \in 1 .. i - 1
      BY <1>6, <2>2
    <3>2. f[n] = << >>
      BY <2>1, <3>1 DEF Step
    <3> QED BY <2>2, <3>2
  <2>3. CASE n = i
    <3>1. f[n - 1] = << >> /\ n - 1 \in 0 .. i - 1
      BY <1>6, <2>3
    <3>2. f[n] = Append(<< >>, q[i])
      BY <2>1, <2>3, <3>1 DEF Step
    <3>3. f[n] = <<q[i]>>
      BY <3>2
    <3>4. f[n] # << >> /\ Head(f[n]) = q[i] /\ Tail(f[n]) = << >>
      BY <3>3
    <3>5. g[n - 1] = f[n - 1]
      BY <1>3, <3>1
    <3>6. g[n - 1] = Tail(f[n])
      BY <3>1, <3>4, <3>5
    <3>7. ~(n < i)
      BY <2>3
    <3> QED BY <3>4, <3>6, <3>7
  <2>4. CASE n > i
    <3>1. n \in i + 1 .. Len(q) /\ (n - 1) - 1 = n - 2 /\ n - 1 \in 0 .. Len(q)
      BY <1>0, <2>4
    <3> DEFINE s == f[n - 1]
    <3>2. s # << >> /\ Head(s) = q[i] /\ g[n - 2] = Tail(s)
      BY <1>6, <2>4, <3>1
    <3>3. s \in Seq(Msgs)
      BY <1>4, <3>1
    <3>4. f[n] = Step(q, d, t, s, n) /\ g[n - 1] = Step(q, d, t, Tail(s), n)
      BY <1>3, <3>1, <3>2
    <3> HIDE DEF s
    <3>5. f[n] # << >> /\ Head(f[n]) = q[i] /\ g[n - 1] = Tail(f[n])
      <4>1. CASE d[q[n]] = t
        <5>1. f[n] = Append(s, q[n]) /\ g[n - 1] = Append(Tail(s), q[n])
          BY <3>4, <4>1 DEF Step
        <5>2. Append(s, q[n]) # << >> /\ Head(Append(s, q[n])) = Head(s)
              /\ Tail(Append(s, q[n])) = Append(Tail(s), q[n])
          <6>1. Append(s, q[n]) # << >>
            BY <2>1, <3>3, AppendProperties
          <6>2. /\ Head(Append(s, q[n])) = IF s = << >> THEN q[n] ELSE Head(s)
                /\ Tail(Append(s, q[n])) = IF s = << >> THEN << >> ELSE Append(Tail(s), q[n])
            BY <2>1, <3>3, HeadTailAppend
          <6> QED BY <3>2, <6>1, <6>2
        <5> QED BY <3>2, <5>1, <5>2
      <4>2. CASE d[q[n]] # t
        BY <3>2, <3>4, <4>2 DEF Step
      <4> QED BY <4>1, <4>2
    <3> QED BY <2>4, <3>5
  <2> QED BY <2>2, <2>3, <2>4
<1>7. \A n \in 0 .. Len(q) : n \in S
  <2> HIDE DEF S
  <2> QED BY <1>0, <1>5, <1>6, Counting
<1>8. LET n == Len(q) IN f[n] # << >> /\ Head(f[n]) = q[i] /\ g[n - 1] = Tail(f[n])
  BY <1>0, <1>7
<1> QED BY <1>0, <1>1, <1>2, <1>8 DEF Beheads

(* A message that is appended is the last one of its addressee's.          *)
LEMMA SelectedMore ==
  ASSUME NEW q \in Seq(Msgs), NEW m \in Msgs, NEW d, NEW e, NEW t,
         \A k \in 1 .. Len(q) : e[q[k]] = t <=> d[q[k]] = t
  PROVE  Selected(Append(q, m), e, t)
           = IF e[m] = t THEN Append(Selected(q, d, t), m) ELSE Selected(q, d, t)
<1> DEFINE r == Append(q, m)
<1>0. /\ Len(q) \in Nat /\ Len(r) = Len(q) + 1 /\ Len(r) \in Nat
      /\ \A k \in 1 .. Len(q) : r[k] = q[k]
      /\ r[Len(r)] = m
  BY SendQueue, LenProperties
<1> HIDE DEF r
<1>1. PICK f : Picks(f, q, d, t, Len(q)) /\ Selected(q, d, t) = f[Len(q)]
  BY <1>0, SelectedPicks
<1>2. PICK g : Picks(g, r, e, t, Len(r)) /\ Selected(r, e, t) = g[Len(r)]
  BY <1>0, SelectedPicks
<1>3. \A n \in 0 .. Len(q) : g[n] = f[n]
  <2> DEFINE N == Len(q)
             L == Len(r)
  <2>1. N \in Nat /\ L \in Nat /\ N <= L /\ N <= N
    BY <1>0
  <2>2. \A k \in 1 .. N : r[k] = q[k] /\ (e[q[k]] = t <=> d[q[k]] = t)
    BY <1>0
  <2>3. Picks(f, q, d, t, N) /\ Picks(g, r, e, t, L)
    BY <1>1, <1>2
  <2> HIDE DEF N, L
  <2>4. \A n \in 0 .. N : g[n] = f[n]
    BY <2>1, <2>2, <2>3, PicksAgree
  <2> QED BY <2>4 DEF N
<1>4. Len(r) \in 1 .. Len(r) /\ Len(r) - 1 = Len(q) /\ Len(q) \in 0 .. Len(q)
  BY <1>0
<1>5. g[Len(r)] = Step(r, e, t, f[Len(q)], Len(r))
  BY <1>2, <1>3, <1>4 DEF Picks
<1>6. Selected(r, e, t) = IF e[m] = t THEN Append(Selected(q, d, t), m) ELSE Selected(q, d, t)
  BY <1>0, <1>1, <1>2, <1>5 DEF Step
<1> QED BY <1>6 DEF r

(* Mailboxes do not hold what the queue does not hold.                     *)
LEMMA SelectedIn ==
  ASSUME NEW q \in Seq(Msgs), NEW d, NEW t
  PROVE  /\ Selected(q, d, t) \in Seq(Msgs)
         /\ \A j \in 1 .. Len(Selected(q, d, t)) :
              \E k \in 1 .. Len(q) : Selected(q, d, t)[j] = q[k]
<1>0. Len(q) \in Nat
  BY LenProperties
<1>1. PICK f : Picks(f, q, d, t, Len(q)) /\ Selected(q, d, t) = f[Len(q)]
  BY <1>0, SelectedPicks
<1>2. Len(q) \in 0 .. Len(q)
  BY <1>0
<1> QED BY <1>1, <1>2, PicksHold

(* Each task sees a mailbox of its own: what it receives is what was sent  *)
(* to it, in that order and once, though all share one list:               *)
(* osal_msg_send and osal_msg_receive, osal.c:526-685.                     *)
THEOREM MailboxesAreFifo == Spec => MailboxFifo
<1> DEFINE box == [t \in Tasks |-> Selected(osal_qHead, dest_id, t)]
<1>1. Init => Mailboxes!Init
  <2> SUFFICES ASSUME Init PROVE Mailboxes!Init
    OBVIOUS
  <2>1. ASSUME NEW t \in Tasks PROVE Selected(osal_qHead, dest_id, t) = << >>
    <3>1. osal_qHead = << >> /\ Len(osal_qHead) = 0
      BY DEF Init
    <3>2. PICK f : /\ Picks(f, osal_qHead, dest_id, t, Len(osal_qHead))
                   /\ Selected(osal_qHead, dest_id, t) = f[Len(osal_qHead)]
      BY <3>1, SelectedPicks
    <3> QED BY <3>1, <3>2 DEF Picks
  <2> QED BY <2>1 DEF Mailboxes!Init, Init
<1>2. TypeOK /\ BufferOwnership /\ [Next]_vars
        => [Mailboxes!Next]_<<box, pMsg>>
  <2> SUFFICES ASSUME TypeOK, BufferOwnership, [Next]_vars
               PROVE  [Mailboxes!Next]_<<box, pMsg>>
    OBVIOUS
  <2>0. /\ osal_qHead \in Seq(Msgs) /\ Len(osal_qHead) \in Nat
        /\ dest_id \in [Msgs -> Tasks \cup {TASK_NO_TASK}]
        /\ TASK_NO_TASK \notin Tasks
        /\ \A k \in 1 .. Len(osal_qHead) : osal_qHead[k] \in Msgs
    BY OsalAssumption, ElementOfSeq, LenProperties DEF TypeOK, Tasks, TASK_NO_TASK
  <2>1. ASSUME NEW m \in Msgs, NEW u \in Tasks, Send(m, u) PROVE Mailboxes!Next
    <3>1. /\ dest_id' = [dest_id EXCEPT ![m] = u]
          /\ osal_qHead' = Append(osal_qHead, m) /\ pMsg' = pMsg /\ m # pMsg
      BY <2>1 DEF Send
    <3>2. \A k \in 1 .. Len(osal_qHead) : osal_qHead[k] # m
      BY <2>1 DEF Send, BufferOwnership
    <3>3. ASSUME NEW t \in Tasks
          PROVE  box'[t] = IF t = u THEN Append(box[t], m) ELSE box[t]
      <4>1. \A k \in 1 .. Len(osal_qHead) :
              dest_id'[osal_qHead[k]] = t <=> dest_id[osal_qHead[k]] = t
        BY <2>0, <3>1, <3>2
      <4>2. dest_id'[m] = u
        BY <2>0, <3>1
      <4>3. ASSUME NEW e, e = dest_id'
            PROVE  Selected(Append(osal_qHead, m), e, t)
                     = IF e[m] = t THEN Append(Selected(osal_qHead, dest_id, t), m)
                                   ELSE Selected(osal_qHead, dest_id, t)
        BY <2>0, <4>1, <4>3, SelectedMore
      <4> QED BY <3>1, <4>2, <4>3
    <3>4. box' = [box EXCEPT ![u] = Append(@, m)]
      BY <3>3
    <3>5. ASSUME NEW t \in Tasks, NEW j \in 1 .. Len(box[t]) PROVE box[t][j] # m
      BY <2>0, <3>2, SelectedIn
    <3> HIDE DEF box
    <3>6. Mailboxes!Send(u, m)
      BY <3>1, <3>4, <3>5 DEF Mailboxes!Send, box
    <3> QED BY <3>6 DEF Mailboxes!Next
  <2>2. ASSUME NEW u \in Tasks, Receive(u) PROVE Mailboxes!Next
    <3>1. PICK i \in MailOf(u) :
            /\ \A j \in MailOf(u) : i <= j
            /\ pMsg' = osal_qHead[i]
            /\ dest_id' = [dest_id EXCEPT ![osal_qHead[i]] = TASK_NO_TASK]
            /\ osal_qHead' = Without(i)
      BY <2>2 DEF Receive
    <3>2. /\ i \in 1 .. Len(osal_qHead) /\ dest_id[osal_qHead[i]] = u
          /\ \A k \in 1 .. i - 1 : dest_id[osal_qHead[k]] # u
      BY <2>0, <3>1 DEF MailOf
    <3>3. osal_qHead' \in Seq(Msgs) /\ Len(osal_qHead') \in Nat
      BY <2>0, <3>1, <3>2, ExtractQueue, LenProperties
    <3>4. ASSUME NEW t \in Tasks
          PROVE  Less1(osal_qHead, osal_qHead', dest_id, dest_id', t, i)
      <4>1. /\ Len(osal_qHead') = Len(osal_qHead) - 1
            /\ \A k \in 1 .. Len(osal_qHead') :
                 osal_qHead'[k] = osal_qHead[IF k < i THEN k ELSE k + 1]
        BY <2>0, <3>1, <3>2, ExtractQueue
      <4>2. \A k \in 1 .. Len(osal_qHead) :
              k # i => dest_id'[osal_qHead[k]] = dest_id[osal_qHead[k]]
        BY <2>0, <3>1, <3>2 DEF BufferOwnership
      <4> QED BY <4>1, <4>2 DEF Less1
    <3>5. /\ box[u] # << >> /\ Head(box[u]) = osal_qHead[i]
          /\ box'[u] = Tail(box[u])
      <4>1. Less1(osal_qHead, osal_qHead', dest_id, dest_id', u, i)
        BY <3>4
      <4>2. FirstOf(osal_qHead, dest_id, u, i)
        BY <3>2 DEF FirstOf
      <4>3. Beheads(osal_qHead, osal_qHead', dest_id, dest_id', u, i)
        BY <2>0, <3>2, <3>3, <4>1, <4>2, HeadTaken
      <4> QED BY <4>3 DEF Beheads
    <3>6. ASSUME NEW t \in Tasks, t # u PROVE box'[t] = box[t]
      BY <2>0, <3>2, <3>3, <3>4, <3>6, NotMissed
    <3>7. box' = [box EXCEPT ![u] = Tail(@)]
      <4>1. box' = [t \in Tasks |-> box'[t]] /\ box = [t \in Tasks |-> box[t]]
        OBVIOUS
      <4> HIDE DEF box
      <4> QED BY <3>5, <3>6, <4>1
    <3>8. pMsg = NULL
      BY <2>2 DEF Receive
    <3> HIDE DEF box
    <3>9. Mailboxes!Receive(u)
      BY <3>1, <3>5, <3>7, <3>8 DEF Mailboxes!Receive, box
    <3> QED BY <3>9 DEF Mailboxes!Next
  <2>3. ASSUME UNCHANGED <<osal_qHead, dest_id>>, pMsg' \in {pMsg, NULL}
        PROVE  [Mailboxes!Next]_<<box, pMsg>>
    <3>1. box' = box
      BY <2>3
    <3> HIDE DEF box
    <3>2. CASE pMsg' = NULL
      BY <3>1, <3>2 DEF Mailboxes!Next, Mailboxes!Release, box
    <3>3. CASE pMsg' = pMsg
      BY <3>1, <3>3
    <3> QED BY <2>3, <3>2, <3>3
  <2> QED BY <2>1, <2>2, <2>3, QuietStep
<1> QED BY <1>1, <1>2, TypeCorrect, OwnershipHolds, PTL DEF Spec, MailboxFifo, Mailboxes!Spec

=============================================================================
