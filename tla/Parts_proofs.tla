----------------------------- MODULE Parts_proofs -----------------------------
(***************************************************************************)
(* Of the parts that the runs check in company: the serial line where it   *)
(* is used, below the lines, the frames and the watch; the watch itself;   *)
(* and the pages of the flash that hold the network's name and password.   *)
(***************************************************************************)
EXTENDS MCLink, SequenceTheorems, WellFoundedInduction, TLAPS

(* The serial line is a part of the company, with its parameters.          *)
LEMMA LineAssumption == Uart!SerialAssumption
BY LinkAssumption

-----------------------------------------------------------------------------
Bytes == Byte \cup {0}

\* The oldest slot, and how many are in use
Oldest(r, size) == IF r.tail = size THEN 0 ELSE r.tail
Used(r, size) ==
    IF r.head >= Oldest(r, size) THEN r.head - Oldest(r, size)
    ELSE r.head + size - Oldest(r, size)
Wrapped(i, size) == IF i >= size THEN i - size ELSE i

-----------------------------------------------------------------------------
(* The contents of a ring, slot by slot.                                    *)

\* The remainder that an index leaves, one round of the ring at most.
LEMMA Modulo ==
    ASSUME NEW s \in Nat \ {0}, NEW a \in Nat, a < s + s
    PROVE  a % s = Wrapped(a, s)
<1>1. CASE a < s
    <2>1. a % s = a
        BY <1>1
    <2> QED BY <1>1, <2>1 DEF Wrapped
<1>2. CASE a >= s
    <2>1. a % s = a - s
        BY <1>2
    <2> QED BY <1>2, <2>1 DEF Wrapped
<1> QED BY <1>1, <1>2

\* The contents of a ring are its used slots from the oldest on.
LEMMA ContentsAre ==
    ASSUME NEW size \in Nat \ {0, 1}, NEW r \in Uart!Ring(size)
    PROVE  /\ Uart!Contents(r, size) \in Seq(Bytes)
           /\ Len(Uart!Contents(r, size)) = Used(r, size)
           /\ \A k \in 1 .. Used(r, size) :
                 Uart!Contents(r, size)[k] = r.buf[Wrapped(Oldest(r, size) + k - 1, size)]
           /\ Used(r, size) \in 0 .. size - 1
<1> DEFINE first == r.tail % size
           count == (r.head + size - first) % size
<1>1. r.head \in 0 .. size - 1 /\ r.tail \in 0 .. size /\ r.buf \in [0 .. size - 1 -> Bytes]
    BY DEF Uart!Ring, Uart!Slots, Bytes
<1>2. first = Oldest(r, size) /\ first \in 0 .. size - 1
    BY <1>1, Modulo DEF Wrapped, Oldest
<1>3. count = Used(r, size) /\ count \in 0 .. size - 1
    <2> HIDE DEF first
    <2>1. r.head + size - first \in Nat /\ r.head + size - first < size + size
        BY <1>1, <1>2
    <2>2. count = Wrapped(r.head + size - first, size)
        BY <2>1, Modulo
    <2> HIDE DEF count
    <2> QED BY <1>1, <1>2, <2>1, <2>2 DEF Wrapped, Used
<1>4. Uart!Contents(r, size) = [k \in 1 .. count |-> r.buf[(first + k - 1) % size]]
    BY DEF Uart!Contents
<1> HIDE DEF first, count
<1>5. \A k \in 1 .. count :
         /\ (first + k - 1) % size = Wrapped(first + k - 1, size)
         /\ Wrapped(first + k - 1, size) \in 0 .. size - 1
    <2> TAKE k \in 1 .. count
    <2>1. first + k - 1 \in Nat /\ first + k - 1 < size + size
        BY <1>2, <1>3
    <2>2. (first + k - 1) % size = Wrapped(first + k - 1, size)
        BY <2>1, Modulo
    <2> QED BY <2>1, <2>2 DEF Wrapped
<1>6. \A k \in 1 .. count : r.buf[(first + k - 1) % size] \in Bytes
    BY <1>1, <1>5
<1>7. Uart!Contents(r, size) \in Seq(Bytes) /\ Len(Uart!Contents(r, size)) = count
    BY <1>3, <1>4, <1>6
<1>8. \A k \in 1 .. count : Uart!Contents(r, size)[k] = r.buf[Wrapped(first + k - 1, size)]
    BY <1>4, <1>5
<1> QED BY <1>2, <1>3, <1>7, <1>8

\* What the properties of the sequences need of it
InUse(r, size, k) == r.buf[Wrapped(Oldest(r, size) + k - 1, size)]

\* A ring is empty without a used slot, and full with one left.
LEMMA FullOrEmpty ==
    ASSUME NEW size \in Nat \ {0, 1}, NEW r \in Uart!Ring(size)
    PROVE  /\ r.tail \in Uart!Slots(size) => (Uart!IsFull(r, size) <=> Used(r, size) = size - 1)
           /\ r.tail \in Uart!Slots(size) => (Uart!IsEmpty(r) <=> Used(r, size) = 0)
BY DEF Uart!Ring, Uart!Slots, Uart!IsFull, Uart!IsEmpty, Uart!Following, Used, Oldest

\* A byte is stored in a ring that is not full.
LEMMA StoredTyped ==
    ASSUME NEW size \in Nat \ {0, 1}, NEW r \in Uart!Ring(size), NEW b \in Byte
    PROVE  /\ Uart!Stored(r, size, b) \in Uart!Ring(size)
           /\ Uart!Stored(r, size, b).tail = r.tail
           /\ Uart!Stored(r, size, b).head = Uart!Following(r.head, size)
           /\ Uart!Stored(r, size, b).buf = [r.buf EXCEPT ![r.head] = b]
<1>1. r.head \in 0 .. size - 1 /\ r.tail \in 0 .. size /\ r.buf \in [0 .. size - 1 -> Bytes]
    BY DEF Uart!Ring, Uart!Slots, Bytes
<1>2. [r.buf EXCEPT ![r.head] = b] \in [0 .. size - 1 -> Bytes]
    BY <1>1 DEF Bytes
<1>3. Uart!Following(r.head, size) \in 0 .. size - 1
    BY <1>1 DEF Uart!Following
<1>4. Uart!Stored(r, size, b) \in Uart!Ring(size)
    BY <1>1, <1>2, <1>3 DEF Uart!Stored, Uart!Ring, Uart!Slots, Bytes
<1>5. /\ Uart!Stored(r, size, b).tail = r.tail
      /\ Uart!Stored(r, size, b).head = Uart!Following(r.head, size)
      /\ Uart!Stored(r, size, b).buf = [r.buf EXCEPT ![r.head] = b]
    BY DEF Uart!Stored, Uart!Ring
<1> QED BY <1>4, <1>5

\* Only the tail moves.
LEMMA TailMoved ==
    ASSUME NEW size \in Nat \ {0, 1}, NEW r \in Uart!Ring(size), NEW t \in 0 .. size,
           NEW g, g = [r EXCEPT !.tail = t]
    PROVE  g \in Uart!Ring(size) /\ g.tail = t /\ g.head = r.head /\ g.buf = r.buf
BY DEF Uart!Ring

\* A byte is stored behind the others.
LEMMA StoredBehind ==
    ASSUME NEW size \in Nat \ {0, 1}, NEW r \in Uart!Ring(size), NEW b \in Byte,
           Used(r, size) < size - 1
    PROVE  /\ Uart!Stored(r, size, b) \in Uart!Ring(size)
           /\ Uart!Stored(r, size, b).tail = r.tail
           /\ Used(Uart!Stored(r, size, b), size) = Used(r, size) + 1
           /\ \A i \in Uart!Slots(size) : i # r.head => Uart!Stored(r, size, b).buf[i] = r.buf[i]
           /\ Uart!Contents(Uart!Stored(r, size, b), size) = Append(Uart!Contents(r, size), b)
<1> DEFINE s == Uart!Stored(r, size, b)
<1>1. r.head \in 0 .. size - 1 /\ r.tail \in 0 .. size /\ r.buf \in [0 .. size - 1 -> Bytes]
    BY DEF Uart!Ring, Uart!Slots, Bytes
<1>2. s \in Uart!Ring(size)
    BY StoredTyped
<1>3. /\ s.tail = r.tail /\ s.head = Uart!Following(r.head, size)
      /\ s.buf = [r.buf EXCEPT ![r.head] = b]
    BY StoredTyped
<1> HIDE DEF s
<1>4. Used(s, size) = Used(r, size) + 1 /\ Oldest(s, size) = Oldest(r, size)
    BY <1>1, <1>3 DEF Used, Oldest, Uart!Following
<1>5. \A k \in 1 .. Used(r, size) : InUse(s, size, k) = InUse(r, size, k)
    BY <1>1, <1>3, <1>4 DEF InUse, Wrapped, Used, Oldest
<1>6. InUse(s, size, Used(s, size)) = b
    BY <1>1, <1>3, <1>4 DEF InUse, Wrapped, Used, Oldest
<1> DEFINE old == Uart!Contents(r, size)
           new == Uart!Contents(s, size)
<1>7. /\ old \in Seq(Bytes) /\ Len(old) = Used(r, size)
      /\ \A k \in 1 .. Used(r, size) : old[k] = InUse(r, size, k)
    BY ContentsAre, Zenon DEF InUse
<1>8. /\ new \in Seq(Bytes) /\ Len(new) = Used(s, size)
      /\ \A k \in 1 .. Used(s, size) : new[k] = InUse(s, size, k)
    BY <1>2, ContentsAre, Zenon DEF InUse
<1>9. Used(r, size) \in Nat
    BY <1>1 DEF Used, Oldest
<1> HIDE DEF old, new
<1>10. b \in Bytes
    BY DEF Bytes
<1>11. new = Append(old, b)
    <2>1. /\ Append(old, b) \in Seq(Bytes) /\ Len(Append(old, b)) = Used(r, size) + 1
          /\ \A k \in 1 .. Used(r, size) : Append(old, b)[k] = old[k]
          /\ Append(old, b)[Used(r, size) + 1] = b
        BY <1>7, <1>10, AppendProperties
    <2>2. \A k \in 1 .. Len(new) : new[k] = Append(old, b)[k]
        <3> TAKE k \in 1 .. Len(new)
        <3>1. CASE k \in 1 .. Used(r, size)
            BY <1>4, <1>5, <1>7, <1>8, <1>9, <2>1, <3>1
        <3>2. CASE k = Used(r, size) + 1
            <4>1. k = Used(s, size) /\ k \in 1 .. Used(s, size)
                BY <1>4, <1>8, <3>2
            <4>2. new[k] = InUse(s, size, k)
                BY <1>8, <4>1
            <4>3. new[k] = b
                BY <1>6, <4>1, <4>2
            <4>4. Append(old, b)[k] = b
                BY <2>1, <3>2, Zenon
            <4> QED BY <4>3, <4>4, Zenon
        <3>3. k \in 1 .. Used(r, size) \/ k = Used(r, size) + 1
            BY <1>4, <1>8, <1>9
        <3> QED BY <3>1, <3>2, <3>3, Zenon
    <2> QED BY <1>4, <1>8, <2>1, <2>2, SeqEqual
<1>12. \A i \in Uart!Slots(size) : i # r.head => s.buf[i] = r.buf[i]
    BY <1>1, <1>3 DEF Uart!Slots
<1> QED BY <1>2, <1>3, <1>4, <1>11, <1>12 DEF s, old, new

\* The oldest byte leaves, when the tail is moved past it ...
LEMMA OldestLeaves ==
    ASSUME NEW size \in Nat \ {0, 1}, NEW r \in Uart!Ring(size), NEW g \in Uart!Ring(size),
           r.tail \in Uart!Slots(size), Used(r, size) > 0,
           g.head = r.head, g.buf = r.buf, g.tail \in {r.tail + 1, Uart!Following(r.tail, size)}
    PROVE  /\ Used(g, size) = Used(r, size) - 1
           /\ Uart!Contents(r, size) # << >>
           /\ Head(Uart!Contents(r, size)) = r.buf[r.tail]
           /\ Uart!Contents(g, size) = Tail(Uart!Contents(r, size))
<1>1. r.head \in 0 .. size - 1 /\ r.tail \in 0 .. size - 1
    BY DEF Uart!Ring, Uart!Slots
<1>2. Used(g, size) = Used(r, size) - 1 /\ Used(r, size) \in 0 .. size - 1
    BY <1>1 DEF Used, Oldest, Uart!Following
<1>3. \A k \in 1 .. Used(g, size) : InUse(g, size, k) = InUse(r, size, k + 1)
    BY <1>1, <1>2 DEF InUse, Wrapped, Used, Oldest, Uart!Following
<1>4. InUse(r, size, 1) = r.buf[r.tail]
    BY <1>1 DEF InUse, Wrapped, Oldest
<1> DEFINE old == Uart!Contents(r, size)
           new == Uart!Contents(g, size)
<1>5. /\ old \in Seq(Bytes) /\ Len(old) = Used(r, size)
      /\ \A k \in 1 .. Used(r, size) : old[k] = InUse(r, size, k)
    BY ContentsAre, Zenon DEF InUse
<1>6. /\ new \in Seq(Bytes) /\ Len(new) = Used(g, size)
      /\ \A k \in 1 .. Used(g, size) : new[k] = InUse(g, size, k)
    BY ContentsAre, Zenon DEF InUse
<1> HIDE DEF old, new
<1>7. old # << >> /\ Head(old) = r.buf[r.tail]
    BY <1>2, <1>4, <1>5
<1>8. Tail(old) \in Seq(Bytes) /\ Len(Tail(old)) = Used(g, size)
      /\ \A k \in 1 .. Used(g, size) : Tail(old)[k] = old[k + 1]
    BY <1>2, <1>5
<1>9. \A k \in 1 .. Len(new) : new[k] = Tail(old)[k]
    BY <1>2, <1>3, <1>5, <1>6, <1>8
<1>10. new = Tail(old)
    BY <1>6, <1>8, <1>9, SeqEqual
<1> QED BY <1>2, <1>7, <1>10 DEF old, new

\* ... and a tail behind the buffer is as good as one at its start.
LEMMA TailWraps ==
    ASSUME NEW size \in Nat \ {0, 1}, NEW r \in Uart!Ring(size), NEW g \in Uart!Ring(size),
           g.head = r.head, g.buf = r.buf, Oldest(g, size) = Oldest(r, size)
    PROVE  Used(g, size) = Used(r, size) /\ Uart!Contents(g, size) = Uart!Contents(r, size)
<1>1. Used(g, size) = Used(r, size)
    BY DEF Used
<1>2. \A k \in 1 .. Used(g, size) : InUse(g, size, k) = InUse(r, size, k)
    BY DEF InUse
<1> DEFINE old == Uart!Contents(r, size)
           new == Uart!Contents(g, size)
<1>3. /\ old \in Seq(Bytes) /\ Len(old) = Used(r, size)
      /\ \A k \in 1 .. Used(r, size) : old[k] = InUse(r, size, k)
    BY ContentsAre, Zenon DEF InUse
<1>4. /\ new \in Seq(Bytes) /\ Len(new) = Used(g, size)
      /\ \A k \in 1 .. Used(g, size) : new[k] = InUse(g, size, k)
    BY ContentsAre, Zenon DEF InUse
<1> HIDE DEF old, new
<1>5. \A k \in 1 .. Len(new) : new[k] = old[k]
    BY <1>1, <1>2, <1>3, <1>4
<1>6. new = old
    BY <1>1, <1>3, <1>4, <1>5, SeqEqual
<1> QED BY <1>1, <1>6 DEF old, new

\* A ring that has just been opened is empty.
LEMMA NothingYet ==
    ASSUME NEW size \in Nat \ {0, 1}
    PROVE  /\ Uart!Opened(size) \in Uart!Ring(size) /\ Uart!Opened(size).tail = 0
           /\ Used(Uart!Opened(size), size) = 0 /\ Uart!Contents(Uart!Opened(size), size) = << >>
<1> DEFINE r == Uart!Opened(size)
<1>1. r \in Uart!Ring(size) /\ r.tail = 0 /\ r.head = 0
    BY DEF Uart!Opened, Uart!Ring, Uart!Slots
<1> HIDE DEF r
<1>2. Used(r, size) = 0
    BY <1>1 DEF Used, Oldest
<1>3. Uart!Contents(r, size) \in Seq(Bytes) /\ Len(Uart!Contents(r, size)) = 0
    BY <1>1, <1>2, ContentsAre
<1> QED BY <1>1, <1>2, <1>3, EmptySeq DEF r

-----------------------------------------------------------------------------
(* The invariant of the receive side.                                       *)

Places == {"idle", "get", "take", "wrap", "send", "count", "test", "enable"}

RxTyped ==
    /\ rx \in Uart!Ring(RxSize) /\ slot \in Uart!Slots(RxSize) /\ byte \in Bytes
    /\ pc \in Places
    /\ arrived \in 0 .. MaxIn /\ burst \in 0 .. Burst /\ read \in Seq(Bytes)
    /\ Uart!InGet => rx.tail = slot + 1
    /\ ~Uart!InGet => rx.tail \in Uart!Slots(RxSize)

\* The types of the receive side at the start.
LEMMA RxTypedInit == Uart!SerialAssumption /\ Uart!Init => RxTyped
<1> SUFFICES ASSUME Uart!SerialAssumption, Uart!Init PROVE RxTyped
    OBVIOUS
<1>1. RxSize \in Nat \ {0, 1} /\ MaxIn \in Nat /\ Burst \in Nat
    BY DEF Uart!SerialAssumption
<1>2. rx \in Uart!Ring(RxSize) /\ rx.tail = 0
    BY <1>1, NothingYet DEF Uart!Init
<1> QED BY <1>1, <1>2 DEF Uart!Init, RxTyped, Places, Uart!InGet, Uart!Slots, Bytes

\* Every step keeps them.
LEMMA RxTypedNext ==
    ASSUME Uart!SerialAssumption, RxTyped, [Uart!Next]_(Uart!vars)
    PROVE  RxTyped'
<1>1. /\ RxSize \in Nat \ {0, 1} /\ MaxIn \in Nat /\ Burst \in Nat
      /\ \A n \in 1 .. MaxIn : n \in Byte
    BY DEF Uart!SerialAssumption
<1>2. CASE Uart!RxInterrupt
    <2>1. arrived' \in 1 .. MaxIn /\ arrived' = arrived + 1
        BY <1>1, <1>2 DEF Uart!RxInterrupt, RxTyped
    <2>2. arrived + 1 \in Byte
        BY <1>1, <2>1
    <2>3. rx' \in Uart!Ring(RxSize) /\ rx'.tail = rx.tail
        <3>1. rx' = rx \/ rx' = Uart!Stored(rx, RxSize, arrived + 1)
            BY <1>2 DEF Uart!RxInterrupt
        <3>2. rx \in Uart!Ring(RxSize)
            BY DEF RxTyped
        <3>3. CASE rx' = rx
            BY <3>2, <3>3, Zenon
        <3>4. CASE rx' = Uart!Stored(rx, RxSize, arrived + 1)
            BY <1>1, <2>2, <3>2, <3>4, StoredTyped, Zenon
        <3> QED BY <3>1, <3>3, <3>4
    <2>4. burst' \in 0 .. Burst
        BY <1>1, <1>2 DEF Uart!RxInterrupt, RxTyped
    <2>5. UNCHANGED <<pc, slot, byte, read>>
        BY <1>2 DEF Uart!RxInterrupt
    <2> QED BY <2>1, <2>3, <2>4, <2>5 DEF RxTyped, Uart!InGet
<1>3. CASE Uart!HalUartGet
    <2>1. CASE Uart!IsEmpty(rx)
        BY <1>3, <2>1 DEF Uart!HalUartGet, RxTyped, Uart!rxVars, Uart!InGet, Places
    <2>2. CASE ~Uart!IsEmpty(rx)
        <3>1. /\ slot' = rx.tail /\ rx' = [rx EXCEPT !.tail = @ + 1] /\ burst' = 0
              /\ pc' = "take" /\ UNCHANGED <<byte, arrived, read>>
            BY <1>3, <2>2 DEF Uart!HalUartGet
        <3>2. rx.tail \in 0 .. RxSize - 1
            BY <1>3 DEF Uart!HalUartGet, RxTyped, Uart!InGet, Uart!Slots
        <3>3. rx' \in Uart!Ring(RxSize) /\ rx'.tail = rx.tail + 1
            BY <1>1, <3>1, <3>2 DEF RxTyped, Uart!Ring, Uart!Slots
        <3> QED BY <1>1, <3>1, <3>2, <3>3 DEF RxTyped, Uart!InGet, Places, Uart!Slots
    <2> QED BY <2>1, <2>2
<1>4. CASE Uart!GetByte
    <2>1. rx.buf[slot] \in Bytes
        BY <1>1 DEF RxTyped, Uart!Ring, Bytes
    <2> QED BY <1>4, <2>1 DEF Uart!GetByte, RxTyped, Uart!InGet, Places
<1>5. CASE Uart!WrapTail
    <2>1. read' \in Seq(Bytes)
        BY <1>5 DEF Uart!WrapTail, RxTyped
    <2>2. rx' \in Uart!Ring(RxSize) /\ rx'.tail \in Uart!Slots(RxSize)
        <3>1. CASE rx.tail >= RxSize
            <4>1. rx' = [rx EXCEPT !.tail = 0]
                BY <1>5, <3>1 DEF Uart!WrapTail
            <4>2. 0 \in 0 .. RxSize /\ 0 \in Uart!Slots(RxSize)
                BY <1>1 DEF Uart!Slots
            <4> QED BY <1>1, <4>1, <4>2, TailMoved DEF RxTyped
        <3>2. CASE ~(rx.tail >= RxSize)
            <4>1. rx' = rx /\ rx.tail = slot + 1
                BY <1>5, <3>2, Zenon DEF Uart!WrapTail, RxTyped, Uart!InGet
            <4>2. rx.tail \in Uart!Slots(RxSize)
                BY <1>1, <3>2, <4>1 DEF RxTyped, Uart!Slots
            <4> QED BY <4>1, <4>2, Zenon DEF RxTyped
        <3> QED BY <3>1, <3>2
    <2>3. 0 \in Uart!Slots(RxSize) /\ 0 \in 0 .. Burst
        BY <1>1 DEF Uart!Slots
    <2> QED
        BY <1>5, <2>1, <2>2, <2>3 DEF Uart!WrapTail, RxTyped, Uart!InGet, Places, Uart!AfterByte, Bytes
<1>6. CASE Uart!Restart
    <2>1. rx' \in Uart!Ring(RxSize) /\ rx'.tail = 0
        BY <1>1, <1>6, NothingYet DEF Uart!Restart
    <2> QED BY <1>1, <1>6, <2>1 DEF Uart!Restart, RxTyped, Uart!InGet, Places, Uart!Slots, Bytes
<1>7. CASE Uart!TxInterrupt \/ Uart!SendByte \/ Uart!PollRx \/ Uart!PollTx \/ Uart!SendDone \/ Uart!SendAsks \/ Uart!CountSlot
           \/ Uart!TestTail \/ Uart!HalUartPut \/ Uart!EnableThre \/ UNCHANGED Uart!vars
    <2>1. /\ UNCHANGED Uart!rxVars
          /\ pc' = pc \/ {pc, pc'} \subseteq Places \ {"take", "wrap"}
        BY <1>7
           DEF Uart!TxInterrupt, Uart!SendByte, Uart!PollRx, Uart!PollTx, Uart!SendDone, Uart!SendAsks, Uart!CountSlot, Uart!TestTail,
               Uart!HalUartPut, Uart!EnableThre, Uart!vars, Places
    <2> QED BY <2>1 DEF Uart!rxVars, RxTyped, Uart!InGet, Places
<1> QED
    BY <1>2, <1>3, <1>4, <1>5, <1>6, <1>7 DEF Uart!Next, Uart!Hal

-----------------------------------------------------------------------------
(* Received bytes stay in order.                                            *)

\* A byte in front of the others
LEMMA InFront ==
    ASSUME NEW S, NEW s \in Seq(S), NEW a \in S, NEW b \in S
    PROVE  /\ <<a>> \o s \in Seq(S) /\ <<a>> \o s # << >>
           /\ Head(<<a>> \o s) = a /\ Tail(<<a>> \o s) = s
           /\ <<a>> \o Append(s, b) = Append(<<a>> \o s, b)
           /\ s # << >> => <<Head(s)>> \o Tail(s) = s
OBVIOUS

\* The byte that a HalUartGet reads is not overwritten before it has done so.
RxRoom == Uart!InGet => Used(rx, RxSize) < RxSize - 1 + burst

\* The receive side at the start is an empty channel.
LEMMA RxInit ==
    ASSUME Uart!SerialAssumption, Uart!Init
    PROVE  RxTyped /\ RxRoom /\ Uart!RxInOrder!Init
<1>1. pc = "idle" /\ rx = Uart!Opened(RxSize) /\ read = << >> /\ fault = "none"
    BY DEF Uart!Init
<1>2. Uart!RxWaiting = << >>
    BY <1>1, NothingYet DEF Uart!RxWaiting, Uart!SerialAssumption
<1> QED BY <1>1, <1>2, RxTypedInit DEF RxRoom, Uart!InGet, Uart!RxInOrder!Init

\* Steps that the receive side does not take part in.
LEMMA RxStays ==
    ASSUME UNCHANGED <<rx, slot, byte, read, fault>>,
           pc' = pc \/ (~Uart!InGet /\ ~Uart!InGet')
    PROVE  UNCHANGED Uart!RxInOrder!vars
BY DEF Uart!RxInOrder!vars, Uart!RxWaiting, Uart!InGet

\* Every step keeps the room, and is one of the channel or none.
LEMMA RxRefines ==
    ASSUME Uart!SerialAssumption, Burst <= 1, RxTyped, RxRoom, [Uart!Next]_(Uart!vars)
    PROVE  RxRoom' /\ [Uart!RxInOrder!Next]_(Uart!RxInOrder!vars)
<1>1. /\ RxSize \in Nat \ {0, 1} /\ MaxIn \in Nat /\ Burst \in Nat
      /\ \A n \in 1 .. MaxIn : n \in Byte
    BY DEF Uart!SerialAssumption
<1>2. rx \in Uart!Ring(RxSize) /\ slot \in Uart!Slots(RxSize) /\ byte \in Bytes /\ read \in Seq(Bytes)
      /\ burst \in Nat
    BY <1>1 DEF RxTyped
<1> DEFINE C == Uart!Contents(rx, RxSize)
<1>3. C \in Seq(Bytes) /\ Used(rx, RxSize) \in 0 .. RxSize - 1
    BY <1>1, <1>2, ContentsAre
<1> HIDE DEF C
<1>4. CASE Uart!RxInterrupt
    <2> DEFINE b == arrived + 1
    <2>1. b \in Byte /\ b \in Bytes /\ fault = "none"
        BY <1>1, <1>4 DEF Uart!RxInterrupt, RxTyped, Bytes
    <2>2. UNCHANGED <<pc, slot, byte, read>>
        BY <1>4 DEF Uart!RxInterrupt
    <2>3. CASE Uart!IsFull(rx, RxSize)
        <3>1. fault' = "rx" /\ rx' = rx
            BY <1>4, <2>3 DEF Uart!RxInterrupt
        <3>2. Uart!RxWaiting' = Uart!RxWaiting
            BY <2>2, <3>1 DEF Uart!RxWaiting
        <3>3. Uart!RxInOrder!Fail
            BY <2>1, <2>2, <3>1, <3>2 DEF Uart!RxInOrder!Fail
        <3>4. RxRoom'
            <4>1. Uart!InGet => burst' = burst + 1
                BY <1>4 DEF Uart!RxInterrupt
            <4> QED BY <1>1, <1>2, <1>3, <2>2, <3>1, <4>1 DEF RxRoom, Uart!InGet
        <3> QED BY <3>3, <3>4 DEF Uart!RxInOrder!Next
    <2>4. CASE ~Uart!IsFull(rx, RxSize)
        <3>1. fault' = fault /\ rx' = Uart!Stored(rx, RxSize, b)
            BY <1>4, <2>4 DEF Uart!RxInterrupt
        <3>2. Used(rx, RxSize) < RxSize - 1
            <4>1. CASE Uart!InGet
                BY <1>1, <1>2, <1>4, <4>1 DEF RxRoom, Uart!RxInterrupt
            <4>2. CASE ~Uart!InGet
                BY <1>1, <1>2, <1>3, <2>4, <4>2, FullOrEmpty DEF RxTyped
            <4> QED BY <4>1, <4>2
        <3> HIDE DEF b
        <3>3. /\ Used(rx', RxSize) = Used(rx, RxSize) + 1
              /\ \A i \in Uart!Slots(RxSize) : i # rx.head => rx'.buf[i] = rx.buf[i]
              /\ Uart!Contents(rx', RxSize) = Append(C, b)
            BY <1>1, <1>2, <2>1, <3>1, <3>2, StoredBehind, Zenon DEF C
        <3>4. Uart!RxWaiting' = Append(Uart!RxWaiting, b)
            <4>1. CASE pc = "take"
                <5>1. slot # rx.head
                    <6>1. rx.tail = slot + 1 /\ rx.head \in 0 .. RxSize - 1
                        BY <1>2, <4>1 DEF RxTyped, Uart!InGet, Uart!Ring, Uart!Slots
                    <6> QED BY <1>1, <1>2, <3>2, <6>1 DEF Used, Oldest, Uart!Slots
                <5>2. rx'.buf[slot] = rx.buf[slot]
                    BY <1>2, <3>3, <5>1
                <5>3. rx.buf[slot] \in Bytes
                    BY <1>1, <1>2 DEF Uart!Ring, Bytes
                <5>4. Uart!RxWaiting = <<rx.buf[slot]>> \o C
                    BY <4>1 DEF Uart!RxWaiting, C
                <5>5. Uart!RxWaiting' = <<rx.buf[slot]>> \o Append(C, b)
                    BY <2>2, <3>3, <4>1, <5>2, Zenon DEF Uart!RxWaiting
                <5>6. <<rx.buf[slot]>> \o Append(C, b) = Append(<<rx.buf[slot]>> \o C, b)
                    BY <1>3, <2>1, <5>3, InFront
                <5> QED BY <5>4, <5>5, <5>6, Zenon
            <4>2. CASE pc = "wrap"
                <5>1. Uart!RxWaiting = <<byte>> \o C
                    BY <4>2 DEF Uart!RxWaiting, C
                <5>2. Uart!RxWaiting' = <<byte>> \o Append(C, b)
                    BY <2>2, <3>3, <4>2 DEF Uart!RxWaiting
                <5>3. <<byte>> \o Append(C, b) = Append(<<byte>> \o C, b)
                    BY <1>2, <1>3, <2>1, InFront
                <5> QED BY <5>1, <5>2, <5>3, Zenon
            <4>3. CASE pc \notin {"take", "wrap"}
                BY <2>2, <3>3, <4>3 DEF Uart!RxWaiting, C
            <4> QED BY <4>1, <4>2, <4>3
        <3>5. Uart!RxInOrder!Accept(b)
            BY <2>1, <2>2, <3>1, <3>4 DEF Uart!RxInOrder!Accept
        <3>6. RxRoom'
            <4>1. Uart!InGet => burst' = burst + 1 /\ burst = 0
                BY <1>1, <1>2, <1>4 DEF Uart!RxInterrupt
            <4> QED BY <1>1, <1>2, <1>3, <2>2, <3>2, <3>3, <4>1 DEF RxRoom, Uart!InGet
        <3> QED BY <2>1, <3>5, <3>6, Zenon DEF Uart!RxInOrder!Next
    <2> QED BY <2>3, <2>4
<1>5. CASE Uart!HalUartGet
    <2>1. CASE Uart!IsEmpty(rx)
        <3>1. UNCHANGED <<rx, slot, byte, read, fault>> /\ ~Uart!InGet /\ ~Uart!InGet'
            BY <1>5, <2>1 DEF Uart!HalUartGet, Uart!rxVars, Uart!InGet
        <3> QED BY <3>1, RxStays DEF RxRoom
    <2>2. CASE ~Uart!IsEmpty(rx)
        <3>1. /\ slot' = rx.tail /\ rx' = [rx EXCEPT !.tail = rx.tail + 1] /\ burst' = 0
              /\ pc = "get" /\ pc' = "take" /\ read' = read /\ fault' = fault
            BY <1>5, <2>2 DEF Uart!HalUartGet
        <3>2. rx.tail \in Uart!Slots(RxSize) /\ rx.tail \in 0 .. RxSize - 1
            BY <3>1 DEF RxTyped, Uart!InGet, Uart!Slots
        <3>3. Used(rx, RxSize) > 0
            BY <1>1, <1>2, <1>3, <2>2, <3>2, FullOrEmpty
        <3>4. /\ rx' \in Uart!Ring(RxSize) /\ rx'.tail = rx.tail + 1
              /\ rx'.head = rx.head /\ rx'.buf = rx.buf
            <4>1. rx.tail + 1 \in 0 .. RxSize
                BY <1>1, <3>2
            <4> QED BY <1>1, <1>2, <3>1, <4>1, TailMoved
        <3>5. /\ Used(rx', RxSize) = Used(rx, RxSize) - 1 /\ C # << >>
              /\ Head(C) = rx.buf[rx.tail] /\ Uart!Contents(rx', RxSize) = Tail(C)
            BY <1>1, <1>2, <3>2, <3>3, <3>4, OldestLeaves DEF C
        <3>6. Uart!RxWaiting = C
            BY <3>1 DEF Uart!RxWaiting, C
        <3>7. Uart!RxWaiting' = <<Head(C)>> \o Tail(C)
            BY <3>1, <3>4, <3>5 DEF Uart!RxWaiting
        <3>8. Uart!RxWaiting' = Uart!RxWaiting
            BY <1>3, <3>5, <3>6, <3>7
        <3>9. RxRoom'
            BY <1>1, <1>3, <3>1, <3>5 DEF RxRoom
        <3> QED BY <3>1, <3>8, <3>9 DEF Uart!RxInOrder!vars
    <2> QED BY <2>1, <2>2
<1>6. CASE Uart!GetByte
    <2>1. Uart!RxWaiting' = Uart!RxWaiting /\ UNCHANGED <<read, fault, rx, burst>>
        BY <1>6 DEF Uart!GetByte, Uart!RxWaiting
    <2>2. RxRoom'
        BY <1>6, <2>1 DEF Uart!GetByte, RxRoom, Uart!InGet
    <2> QED BY <2>1, <2>2 DEF Uart!RxInOrder!vars
<1>7. CASE Uart!WrapTail
    <2>1. /\ pc = "wrap" /\ pc' = "get" /\ read' = Append(read, byte) /\ fault = "none"
          /\ fault' = fault
        BY <1>7 DEF Uart!WrapTail, Uart!AfterByte
    <2>2. Uart!RxWaiting = <<byte>> \o C
        BY <2>1 DEF Uart!RxWaiting, C
    <2>3. Uart!Contents(rx', RxSize) = C
        <3>1. CASE rx.tail >= RxSize
            <4>1. rx' = [rx EXCEPT !.tail = 0] /\ 0 \in 0 .. RxSize
                BY <1>1, <1>7, <3>1 DEF Uart!WrapTail
            <4>2. /\ rx' \in Uart!Ring(RxSize) /\ rx'.tail = 0
                  /\ rx'.head = rx.head /\ rx'.buf = rx.buf
                BY <1>1, <1>2, <4>1, TailMoved
            <4>3. Oldest(rx', RxSize) = Oldest(rx, RxSize)
                <5>1. rx.tail = RxSize
                    BY <1>1, <1>2, <3>1 DEF Uart!Ring
                <5> QED BY <1>1, <4>2, <5>1 DEF Oldest
            <4> QED BY <1>1, <1>2, <4>2, <4>3, TailWraps, Zenon DEF C
        <3>2. CASE ~(rx.tail >= RxSize)
            BY <1>7, <3>2 DEF Uart!WrapTail, C
        <3> QED BY <3>1, <3>2
    <2>4. Uart!RxWaiting' = C
        BY <2>1, <2>3 DEF Uart!RxWaiting
    <2>5. Uart!RxInOrder!Deliver
        <3>1. /\ <<byte>> \o C # << >> /\ Head(<<byte>> \o C) = byte
              /\ Tail(<<byte>> \o C) = C
            BY <1>2, <1>3, InFront
        <3> QED BY <2>1, <2>2, <2>4, <3>1, Zenon DEF Uart!RxInOrder!Deliver
    <2>6. RxRoom'
        BY <2>1 DEF RxRoom, Uart!InGet
    <2> QED BY <2>5, <2>6 DEF Uart!RxInOrder!Next
<1>8. CASE Uart!Restart
    <2>1. rx' = Uart!Opened(RxSize) /\ pc' = "idle" /\ fault' = "none" /\ fault # "none"
          /\ read' = read
        BY <1>8 DEF Uart!Restart
    <2>2. Uart!RxWaiting' = << >>
        BY <1>1, <2>1, NothingYet DEF Uart!RxWaiting
    <2>3. Uart!RxInOrder!Restart
        BY <2>1, <2>2 DEF Uart!RxInOrder!Restart
    <2> QED BY <2>1, <2>3 DEF Uart!RxInOrder!Next, RxRoom, Uart!InGet
<1>9. CASE Uart!HalUartPut
    <2>1. /\ UNCHANGED <<rx, slot, byte, read, burst>> /\ ~Uart!InGet /\ ~Uart!InGet' /\ fault = "none"
          /\ Uart!RxWaiting' = Uart!RxWaiting
        BY <1>9 DEF Uart!HalUartPut, Uart!rxVars, Uart!InGet, Uart!RxWaiting
    <2>2. Uart!RxInOrder!Fail \/ fault' = fault
        BY <2>1, <1>9 DEF Uart!HalUartPut, Uart!RxInOrder!Fail
    <2> QED BY <2>1, <2>2 DEF Uart!RxInOrder!Next, Uart!RxInOrder!vars, RxRoom
<1>10. CASE Uart!TxInterrupt \/ Uart!SendByte \/ Uart!PollRx \/ Uart!PollTx \/ Uart!SendDone \/ Uart!SendAsks \/ Uart!CountSlot
            \/ Uart!TestTail \/ Uart!EnableThre \/ UNCHANGED Uart!vars
    <2>1. /\ UNCHANGED Uart!rxVars /\ UNCHANGED fault
          /\ pc' = pc \/ (~Uart!InGet /\ ~Uart!InGet')
        BY <1>10
           DEF Uart!TxInterrupt, Uart!SendByte, Uart!PollRx, Uart!PollTx, Uart!SendDone, Uart!SendAsks, Uart!CountSlot, Uart!TestTail,
               Uart!EnableThre, Uart!vars, Uart!InGet
    <2>2. UNCHANGED <<rx, slot, byte, read, fault, burst>>
        BY <2>1 DEF Uart!rxVars
    <2>3. RxRoom'
        BY <2>1, <2>2 DEF RxRoom, Uart!InGet
    <2> QED BY <2>1, <2>2, <2>3, RxStays
<1> QED
    BY <1>4, <1>5, <1>6, <1>7, <1>8, <1>9, <1>10 DEF Uart!Next, Uart!Hal

-----------------------------------------------------------------------------
(* The transmit side: what a poll has counted is there.                     *)

TxTyped ==
    /\ tx \in Uart!Ring(TxSize) /\ tx.tail \in Uart!Slots(TxSize)
    /\ Uart!Contents(tx, TxSize) \in Seq(Byte) /\ fifo \in Seq(Byte) /\ sent \in Seq(Byte)
    /\ thre \in BOOLEAN /\ events \subseteq {"RX", "TX"}
    /\ space \in 0 .. TxSize - 1 /\ probe \in Uart!Slots(TxSize)
    /\ fault \in {"none", "rx"} /\ handed \in 0 .. MaxOut /\ pc \in Places

\* How far a slot is ahead of the head; the whole ring, for the head itself, at the end of
\* a round of the loop
Ahead(head, i) == IF i >= head THEN i - head ELSE i + TxSize - head
Reached(head, i) == IF i > head THEN i - head ELSE i + TxSize - head

\* From the head to the tail
Way == TxSize - Used(tx, TxSize)

\* The tail only runs away from a poll that counts towards it.
TxRoom ==
    /\ pc \in {"send", "enable"} => space < Way
    /\ pc = "count" => Ahead(tx.head, probe) < Way /\ space <= Ahead(tx.head, probe)
    /\ pc = "test" => Reached(tx.head, probe) <= Way /\ space <= Reached(tx.head, probe) /\ space < Way

\* A round of the loop, in numbers
LEMMA Round ==
    ASSUME NEW head \in 0 .. TxSize - 1, NEW tail \in 0 .. TxSize - 1,
           NEW i \in 0 .. TxSize - 1, TxSize \in Nat \ {0, 1}
    PROVE  /\ Ahead(head, i) \in 0 .. TxSize - 1 /\ Reached(head, i) \in 1 .. TxSize
           /\ Reached(head, i) = Reached(head, tail) => i = tail
           /\ Reached(head, i) # TxSize => Reached(head, i) = Ahead(head, i)
           /\ Reached(head, Uart!Following(i, TxSize)) = Ahead(head, i) + 1
BY DEF Ahead, Reached, Uart!Following

\* The transmit side at the start is an empty channel.
LEMMA TxInit ==
    ASSUME Uart!SerialAssumption, Uart!Init
    PROVE  TxTyped /\ TxRoom /\ Uart!TxInOrder!Init
<1>1. TxSize \in Nat \ {0, 1} /\ MaxOut \in Nat
    BY DEF Uart!SerialAssumption
<1>2. /\ tx \in Uart!Ring(TxSize) /\ tx.tail = 0 /\ Uart!Contents(tx, TxSize) = << >>
      /\ fifo = << >> /\ sent = << >>
    BY <1>1, NothingYet DEF Uart!Init
<1>3. TxTyped
    <2>1. /\ tx.tail \in Uart!Slots(TxSize) /\ 0 \in Uart!Slots(TxSize) /\ 0 \in 0 .. TxSize - 1
          /\ 0 \in 0 .. MaxOut /\ "idle" \in Places
        BY <1>1, <1>2 DEF Uart!Slots, Places
    <2>2. << >> \in Seq(Byte)
        OBVIOUS
    <2>3. {} \subseteq {"RX", "TX"} /\ "none" \in {"none", "rx"} /\ FALSE \in BOOLEAN
        OBVIOUS
    <2> QED BY <1>2, <2>1, <2>2, <2>3, Zenon DEF Uart!Init, TxTyped
<1>4. TxRoom
    BY DEF Uart!Init, TxRoom
<1>5. Uart!TxInOrder!Init
    BY <1>2 DEF Uart!Init, Uart!TxInOrder!Init, Uart!TxWaiting
<1> QED BY <1>3, <1>4, <1>5

\* What the ring and the FIFO hold stays in order while they change at the ends.
LEMMA InTwo ==
    ASSUME NEW s \in Seq(Byte), NEW t \in Seq(Byte), NEW b \in Byte
    PROVE  /\ s \o Append(t, b) = Append(s \o t, b)
           /\ s # << >> => /\ s \o t # << >> /\ Head(s \o t) = Head(s)
                           /\ Tail(s \o t) = Tail(s) \o t
           /\ t # << >> => Append(s, Head(t)) \o Tail(t) = s \o t
<1>1. s \o Append(t, b) = Append(s \o t, b)
    OBVIOUS
<1>2. ASSUME s # << >>
      PROVE  s \o t # << >> /\ Head(s \o t) = Head(s) /\ Tail(s \o t) = Tail(s) \o t
    <2>1. s \o t # << >> /\ Head(s \o t) = Head(s)
        BY <1>2
    <2>2. Tail(s \o t) = Tail(s) \o t
        BY <1>2
    <2> QED BY <2>1, <2>2
<1>3. ASSUME t # << >>
      PROVE  Append(s, Head(t)) \o Tail(t) = s \o t
    BY <1>3
<1> QED BY <1>1, <1>2, <1>3

\* Steps that leave the ring and the FIFO of the transmit side alone.
LEMMA TxStays ==
    ASSUME TxTyped, TxRoom, UNCHANGED <<tx, thre, fifo, handed, sent, fault>>,
           events' \subseteq {"RX", "TX"}, pc' \in Places
    PROVE  /\ space' \in 0 .. TxSize - 1 /\ probe' \in Uart!Slots(TxSize) => TxTyped'
           /\ UNCHANGED Uart!TxInOrder!vars
<1>1. UNCHANGED Uart!TxInOrder!vars
    BY DEF Uart!TxInOrder!vars, Uart!TxWaiting
<1>2. Uart!Contents(tx, TxSize)' = Uart!Contents(tx, TxSize)
    OBVIOUS
<1>3. space' \in 0 .. TxSize - 1 /\ probe' \in Uart!Slots(TxSize) => TxTyped'
    BY <1>2, Zenon DEF TxTyped
<1> QED BY <1>1, <1>3

\* Every step keeps the types and the room, and is one of the channel or none.
LEMMA TxNext ==
    ASSUME Uart!SerialAssumption, TxTyped, TxRoom, [Uart!Next]_(Uart!vars)
    PROVE  TxTyped' /\ TxRoom' /\ [Uart!TxInOrder!Next]_(Uart!TxInOrder!vars)
<1>1. /\ TxSize \in Nat \ {0, 1} /\ MaxOut \in Nat
      /\ \A n \in 1 .. MaxOut : n \in Byte
    BY DEF Uart!SerialAssumption
<1>2. /\ tx \in Uart!Ring(TxSize) /\ tx.tail \in Uart!Slots(TxSize) /\ probe \in Uart!Slots(TxSize)
      /\ space \in 0 .. TxSize - 1 /\ fifo \in Seq(Byte) /\ sent \in Seq(Byte)
      /\ tx.tail \in 0 .. TxSize - 1 /\ tx.head \in 0 .. TxSize - 1
      /\ probe \in 0 .. TxSize - 1 /\ handed \in 0 .. MaxOut
    BY DEF TxTyped, Uart!Ring, Uart!Slots
<1> DEFINE C == Uart!Contents(tx, TxSize)
<1>3. C \in Seq(Byte) /\ Used(tx, TxSize) \in 0 .. TxSize - 1
    BY <1>1, <1>2, ContentsAre DEF TxTyped
<1> HIDE DEF C
<1>4. Uart!TxWaiting = C \o fifo
    BY DEF Uart!TxWaiting, C
<1> DEFINE at == Ahead(tx.head, probe)
           end == Reached(tx.head, probe)
<1>16. Way = Reached(tx.head, tx.tail) /\ Way \in 1 .. TxSize
    BY <1>1, <1>2 DEF Way, Used, Oldest, Reached
<1>17. /\ at \in 0 .. TxSize - 1 /\ end \in 1 .. TxSize
       /\ end = Way => probe = tx.tail
       /\ end # TxSize => end = at
       /\ Reached(tx.head, Uart!Following(probe, TxSize)) = at + 1
    BY <1>1, <1>2, <1>16, Round, Zenon
<1>18. Uart!Following(probe, TxSize) \in 0 .. TxSize - 1
    BY <1>1, <1>2 DEF Uart!Following
<1>19. ASSUME at + 1 = Way PROVE Uart!Following(probe, TxSize) = tx.tail
    <2> DEFINE next == Uart!Following(probe, TxSize)
    <2>1. Reached(tx.head, next) = Reached(tx.head, tx.tail)
        BY <1>16, <1>17, <1>19, Zenon
    <2> HIDE DEF next
    <2>2. next \in 0 .. TxSize - 1
        BY <1>18 DEF next
    <2>3. next = tx.tail
        BY <1>1, <1>2, <2>1, <2>2, Round
    <2> QED BY <2>3 DEF next
<1>5. CASE Uart!RxInterrupt
    <2>1. /\ UNCHANGED <<tx, thre, fifo, space, probe, handed, sent, pc>>
          /\ events' \subseteq {"RX", "TX"} /\ fault = "none" /\ fault' \in {"none", "rx"}
        BY <1>5 DEF Uart!RxInterrupt, Uart!txVars, TxTyped
    <2>2. Uart!Contents(tx, TxSize)' = Uart!Contents(tx, TxSize)
        BY <2>1
    <2>3. TxTyped'
        BY <2>1, <2>2, Zenon DEF TxTyped
    <2>4. TxRoom'
        BY <2>1 DEF TxRoom, Way, Ahead, Reached
    <2>5. Uart!TxInOrder!Fail \/ UNCHANGED Uart!TxInOrder!vars
        BY <2>1, <2>2 DEF Uart!TxInOrder!Fail, Uart!TxInOrder!vars, Uart!TxWaiting
    <2> QED BY <2>3, <2>4, <2>5 DEF Uart!TxInOrder!Next
<1>6. CASE Uart!TxInterrupt
    <2>1. /\ UNCHANGED <<fifo, space, probe, handed, pc, fault>> /\ fault = "none"
          /\ events' \subseteq {"RX", "TX"}
        BY <1>6 DEF Uart!TxInterrupt, TxTyped, Uart!Announced
    <2>2. CASE Uart!IsEmpty(tx)
        <3>1. thre' = FALSE /\ UNCHANGED <<tx, sent>>
            BY <1>6, <2>2 DEF Uart!TxInterrupt
        <3>2. Uart!Contents(tx, TxSize)' = Uart!Contents(tx, TxSize)
            BY <3>1
        <3>3. TxTyped'
            BY <2>1, <3>1, <3>2, Zenon DEF TxTyped
        <3>4. TxRoom'
            BY <2>1, <3>1 DEF TxRoom, Way, Ahead, Reached
        <3>5. UNCHANGED Uart!TxInOrder!vars
            BY <2>1, <3>1, <3>2 DEF Uart!TxInOrder!vars, Uart!TxWaiting
        <3> QED BY <3>3, <3>4, <3>5
    <2>3. CASE ~Uart!IsEmpty(tx)
        <3>1. /\ sent' = Append(sent, tx.buf[tx.tail]) /\ tx' = Uart!Dropped(tx, TxSize)
              /\ thre' = thre
            BY <1>6, <2>3 DEF Uart!TxInterrupt
        <3>2. Uart!Following(tx.tail, TxSize) \in 0 .. TxSize
              /\ Uart!Following(tx.tail, TxSize) \in Uart!Slots(TxSize)
            BY <1>1, <1>2 DEF Uart!Following, Uart!Slots
        <3>3. tx' = [tx EXCEPT !.tail = Uart!Following(tx.tail, TxSize)]
            BY <3>1 DEF Uart!Dropped
        <3>4. /\ tx' \in Uart!Ring(TxSize) /\ tx'.tail = Uart!Following(tx.tail, TxSize)
              /\ tx'.head = tx.head /\ tx'.buf = tx.buf
            BY <1>1, <1>2, <3>2, <3>3, TailMoved
        <3>5. Used(tx, TxSize) > 0
            BY <1>1, <1>2, <1>3, <2>3, FullOrEmpty
        <3>6. /\ Used(tx', TxSize) = Used(tx, TxSize) - 1 /\ C # << >>
              /\ Head(C) = tx.buf[tx.tail] /\ Uart!Contents(tx', TxSize) = Tail(C)
            BY <1>1, <1>2, <3>4, <3>5, OldestLeaves DEF C
        <3>7. Head(C) \in Byte /\ Tail(C) \in Seq(Byte)
            BY <1>3, <3>6
        <3>8. sent' \in Seq(Byte) /\ sent' = Append(sent, Head(C))
            BY <1>2, <3>1, <3>6, <3>7
        <3>9. TxTyped'
            BY <2>1, <3>1, <3>2, <3>4, <3>6, <3>7, <3>8, Zenon DEF TxTyped
        <3>10. TxRoom'
            <4>1. /\ Way' = Way + 1 /\ Ahead(tx.head, probe)' = Ahead(tx.head, probe)
                  /\ Reached(tx.head, probe)' = Reached(tx.head, probe)
                BY <1>1, <1>3, <2>1, <3>4, <3>6 DEF Way, Ahead, Reached
            <4>2. Way \in Nat /\ Ahead(tx.head, probe) \in Nat /\ Reached(tx.head, probe) \in Nat
                BY <1>1, <1>2, <1>3 DEF Way, Ahead, Reached
            <4>3. space' = space /\ pc' = pc
                BY <2>1
            <4> QED BY <1>2, <4>1, <4>2, <4>3 DEF TxRoom
        <3>11. Uart!TxInOrder!Deliver
            <4>1. Uart!TxWaiting' = Tail(C) \o fifo
                BY <2>1, <3>6 DEF Uart!TxWaiting
            <4>2. C \o fifo # << >> /\ Head(C \o fifo) = Head(C)
                  /\ Tail(C \o fifo) = Tail(C) \o fifo
                BY <1>2, <1>3, <3>6, <3>7, InTwo
            <4> QED
                BY <1>4, <2>1, <3>8, <4>1, <4>2, Zenon DEF Uart!TxInOrder!Deliver
        <3> QED BY <3>9, <3>10, <3>11 DEF Uart!TxInOrder!Next
    <2> QED BY <2>2, <2>3
<1>7. CASE Uart!SendByte
    <2>1. /\ UNCHANGED <<tx, thre, space, probe, sent, pc, fault>> /\ fault = "none"
          /\ fifo' = Append(fifo, handed + 1) /\ handed' = handed + 1
          /\ events' \subseteq {"RX", "TX"} /\ handed + 1 \in 1 .. MaxOut
        BY <1>1, <1>2, <1>7 DEF Uart!SendByte, TxTyped
    <2>2. Uart!Contents(tx, TxSize)' = Uart!Contents(tx, TxSize) /\ handed + 1 \in Byte
          /\ handed' \in 0 .. MaxOut
        BY <1>1, <2>1
    <2>3. fifo' \in Seq(Byte)
        BY <1>2, <2>1, <2>2
    <2>4. TxTyped'
        BY <2>1, <2>2, <2>3, Zenon DEF TxTyped
    <2>5. TxRoom'
        BY <2>1 DEF TxRoom, Way, Ahead, Reached
    <2>6. C \o Append(fifo, handed + 1) = Append(C \o fifo, handed + 1)
        BY <1>2, <1>3, <2>2, InTwo
    <2>7. Uart!TxInOrder!Accept(handed + 1)
        <3>1. Uart!TxWaiting' = C \o Append(fifo, handed + 1)
            BY <2>1, <2>2 DEF Uart!TxWaiting, C
        <3> QED BY <1>4, <2>1, <2>6, <3>1 DEF Uart!TxInOrder!Accept
    <2> QED BY <2>2, <2>4, <2>5, <2>7 DEF Uart!TxInOrder!Next
<1>8. CASE Uart!CountSlot
    <2>1. /\ UNCHANGED <<tx, thre, fifo, handed, sent, fault, events>>
          /\ pc = "count" /\ pc' = "test" /\ probe' = Uart!Following(probe, TxSize)
          /\ space' = IF Uart!Following(probe, TxSize) # tx.tail THEN space + 1 ELSE space
        BY <1>8 DEF Uart!CountSlot, Uart!Counts, Uart!rxVars
    <2>2. Ahead(tx.head, probe) < Way /\ space <= Ahead(tx.head, probe)
        BY <2>1 DEF TxRoom
    <2> HIDE DEF at, end
    <2>5. /\ Way' = Way /\ at < Way /\ space <= at
          /\ Reached(tx.head, probe)' = at + 1
        BY <1>17, <2>1, <2>2 DEF Way, Reached, at
    <2>6. /\ space' <= at + 1 /\ space' < Way /\ space' \in Nat
        BY <1>1, <1>2, <1>16, <1>17, <1>19, <2>1, <2>5
    <2>3. TxRoom' /\ space' \in 0 .. TxSize - 1
        BY <1>1, <1>16, <1>17, <2>1, <2>5, <2>6 DEF TxRoom
    <2>4. probe' \in Uart!Slots(TxSize)
        BY <1>1, <1>2, <2>1 DEF Uart!Following, Uart!Slots
    <2> QED BY <2>1, <2>3, <2>4, TxStays DEF Places, TxTyped
<1>9. CASE Uart!TestTail
    <2>1. /\ UNCHANGED <<tx, thre, fifo, handed, sent, fault, events, space>>
          /\ pc = "test"
          /\ \/ probe # tx.tail /\ pc' = "count" /\ probe' = probe
             \/ pc' \in {"send", "idle"} /\ probe' = 0
        BY <1>9 DEF Uart!TestTail, Uart!rxVars
    <2>2. Reached(tx.head, probe) <= Way /\ space <= Reached(tx.head, probe) /\ space < Way
        BY <2>1 DEF TxRoom
    <2>3. TxRoom'
        <3> HIDE DEF at, end
        <3>1. Way' = Way /\ (probe' = probe => Ahead(tx.head, probe)' = at)
            BY <2>1 DEF Way, Ahead, at
        <3>2. end <= Way /\ space <= end /\ space < Way
            BY <2>2 DEF end
        <3>3. CASE probe # tx.tail /\ pc' = "count" /\ probe' = probe
            <4>1. end < Way /\ end = at
                BY <1>1, <1>16, <1>17, <3>2, <3>3
            <4> QED BY <2>1, <3>1, <3>2, <3>3, <4>1 DEF TxRoom
        <3>4. CASE pc' \in {"send", "idle"}
            BY <2>1, <3>1, <3>2, <3>4 DEF TxRoom
        <3> QED BY <2>1, <3>3, <3>4
    <2>4. probe' \in Uart!Slots(TxSize) /\ space' \in 0 .. TxSize - 1
        BY <1>1, <1>2, <2>1 DEF Uart!Slots
    <2> QED BY <2>1, <2>3, <2>4, TxStays DEF Places, TxTyped
<1>10. CASE Uart!HalUartPut
    <2>1. /\ UNCHANGED <<thre, probe, handed, sent, events>> /\ fifo # << >>
          /\ fifo' = Tail(fifo) /\ space' = space - 1 /\ space > 0 /\ pc = "send"
          /\ fault = "none"
        BY <1>10 DEF Uart!HalUartPut
    <2>2. Used(tx, TxSize) < TxSize - 1 /\ space < Way
        BY <1>1, <1>2, <1>3, <2>1 DEF TxRoom, Way
    <2>3. ~Uart!IsFull(tx, TxSize)
        BY <1>1, <1>2, <1>3, <2>2, FullOrEmpty
    <2>4. tx' = Uart!Stored(tx, TxSize, Head(fifo)) /\ pc' = "enable" /\ fault' = fault
        BY <1>10, <2>3 DEF Uart!HalUartPut
    <2>5. Head(fifo) \in Byte /\ fifo' \in Seq(Byte)
        BY <1>2, <2>1
    <2>6. /\ tx' \in Uart!Ring(TxSize) /\ tx'.tail = tx.tail
          /\ Used(tx', TxSize) = Used(tx, TxSize) + 1
          /\ Uart!Contents(tx', TxSize) = Append(C, Head(fifo))
        BY <1>1, <1>2, <2>2, <2>4, <2>5, StoredBehind, Zenon DEF C
    <2>7. TxTyped'
        <3>1. Append(C, Head(fifo)) \in Seq(Byte)
            BY <1>3, <2>5
        <3>2. space' \in 0 .. TxSize - 1 /\ "enable" \in Places
            BY <1>1, <1>2, <2>1 DEF Places
        <3> QED BY <2>1, <2>4, <2>5, <2>6, <3>1, <3>2, Zenon DEF TxTyped
    <2>8. TxRoom'
        BY <1>1, <1>2, <1>3, <2>1, <2>2, <2>4, <2>6 DEF TxRoom, Way
    <2>9. UNCHANGED Uart!TxInOrder!vars
        <3>1. Uart!TxWaiting' = Append(C, Head(fifo)) \o Tail(fifo)
            BY <2>1, <2>6 DEF Uart!TxWaiting
        <3>2. Append(C, Head(fifo)) \o Tail(fifo) = C \o fifo
            BY <1>2, <1>3, <2>1, <2>5, InTwo
        <3> QED BY <1>4, <2>1, <2>4, <3>1, <3>2 DEF Uart!TxInOrder!vars
    <2> QED BY <2>7, <2>8, <2>9
<1>11. CASE Uart!SendAsks
    <2>1. /\ UNCHANGED <<tx, thre, fifo, handed, sent, fault, events, space>>
          /\ space = 0 /\ pc' = "count" /\ probe' = tx.head
        BY <1>11 DEF Uart!SendAsks, Uart!rxVars
    <2>2. TxRoom'
        BY <1>1, <1>2, <1>3, <2>1 DEF TxRoom, Ahead, Way
    <2>3. probe' \in Uart!Slots(TxSize) /\ space' \in 0 .. TxSize - 1
        BY <1>2, <2>1 DEF Uart!Slots
    <2> QED BY <2>1, <2>2, <2>3, TxStays DEF Places, TxTyped
<1>12. CASE Uart!EnableThre
    <2>1. /\ UNCHANGED <<tx, fifo, handed, sent, fault, events, space, probe>>
          /\ pc = "enable" /\ pc' = "send" /\ thre' = TRUE
        BY <1>12 DEF Uart!EnableThre, Uart!rxVars
    <2>2. Uart!Contents(tx, TxSize)' = Uart!Contents(tx, TxSize)
        BY <2>1
    <2>3. TxRoom'
        BY <2>1 DEF TxRoom, Way
    <2>4. TxTyped'
        <3>1. "send" \in Places
            BY DEF Places
        <3> QED BY <2>1, <2>2, <3>1, Zenon DEF TxTyped
    <2>5. UNCHANGED Uart!TxInOrder!vars
        BY <2>1, <2>2 DEF Uart!TxInOrder!vars, Uart!TxWaiting
    <2> QED BY <2>3, <2>4, <2>5
<1>13. CASE Uart!PollTx
    <2>1. /\ UNCHANGED <<tx, thre, fifo, handed, sent, fault, probe>>
          /\ events' \subseteq {"RX", "TX"} /\ space' = 0 /\ pc' = "send"
        BY <1>13 DEF Uart!PollTx, Uart!rxVars, TxTyped
    <2>2. TxRoom'
        BY <1>1, <1>3, <2>1 DEF TxRoom, Way
    <2>3. probe' \in Uart!Slots(TxSize) /\ space' \in 0 .. TxSize - 1
        BY <1>1, <1>2, <2>1
    <2> QED BY <2>1, <2>2, <2>3, TxStays DEF Places
<1>14. CASE Uart!PollRx \/ Uart!HalUartGet \/ Uart!GetByte \/ Uart!WrapTail \/ Uart!SendDone \/ UNCHANGED Uart!vars
    <2>1. /\ UNCHANGED <<tx, thre, fifo, handed, sent, fault, probe>>
          /\ events' \subseteq {"RX", "TX"} /\ (space' = space \/ space' = 0)
          /\ \/ pc' = pc /\ space' = space
             \/ pc' \in {"get", "idle", "take", "wrap"}
        BY <1>14
           DEF Uart!PollRx, Uart!HalUartGet, Uart!GetByte, Uart!WrapTail, Uart!SendDone, Uart!vars, Uart!txVars, Uart!rxVars, TxTyped,
               Uart!AfterByte
    <2>2. TxRoom'
        BY <2>1 DEF TxRoom, Way, Ahead, Reached
    <2>3. probe' \in Uart!Slots(TxSize) /\ space' \in 0 .. TxSize - 1 /\ pc' \in Places
        BY <1>1, <1>2, <2>1 DEF Places, TxTyped
    <2> QED BY <2>1, <2>2, <2>3, TxStays
<1>15. CASE Uart!Restart
    <2>1. /\ tx' = Uart!Opened(TxSize) /\ fifo' = << >> /\ sent' = sent /\ handed' = handed
          /\ thre' = FALSE /\ events' = {} /\ pc' = "idle" /\ space' = 0 /\ probe' = 0
          /\ fault' = "none" /\ fault # "none"
        BY <1>15 DEF Uart!Restart
    <2>2. /\ tx' \in Uart!Ring(TxSize) /\ tx'.tail = 0 /\ Uart!Contents(tx', TxSize) = << >>
        BY <1>1, <2>1, NothingYet
    <2>3. TxTyped'
        <3>1. /\ 0 \in Uart!Slots(TxSize) /\ 0 \in 0 .. TxSize - 1 /\ "idle" \in Places
            BY <1>1 DEF Uart!Slots, Places
        <3>2. << >> \in Seq(Byte)
            OBVIOUS
        <3>3. {} \subseteq {"RX", "TX"} /\ "none" \in {"none", "rx"} /\ FALSE \in BOOLEAN
            OBVIOUS
        <3> QED BY <2>1, <2>2, <3>1, <3>2, <3>3, Zenon DEF TxTyped
    <2>4. TxRoom'
        BY <2>1 DEF TxRoom
    <2>5. Uart!TxInOrder!Restart
        BY <2>1, <2>2 DEF Uart!TxInOrder!Restart, Uart!TxWaiting
    <2> QED BY <2>3, <2>4, <2>5 DEF Uart!TxInOrder!Next
<1> QED
    BY <1>5, <1>6, <1>7, <1>8, <1>9, <1>10, <1>11, <1>12, <1>13, <1>14, <1>15
       DEF Uart!Next, Uart!Hal

-----------------------------------------------------------------------------

\* The types, and no failed HalUartPut.
THEOREM RoomIsThere == Uart!SerialAssumption => (Uart!Spec => [](Uart!TypeOK /\ Uart!TxHasRoom))
<1> SUFFICES ASSUME Uart!SerialAssumption PROVE Uart!Spec => [](Uart!TypeOK /\ Uart!TxHasRoom)
    OBVIOUS
<1>1. Uart!Init => RxTyped /\ TxTyped /\ TxRoom
    BY RxTypedInit, TxInit
<1>2. RxTyped /\ TxTyped /\ TxRoom /\ [Uart!Next]_(Uart!vars) => RxTyped' /\ TxTyped' /\ TxRoom'
    BY RxTypedNext, TxNext
<1>3. RxTyped /\ TxTyped => Uart!TypeOK /\ Uart!TxHasRoom
    BY DEF RxTyped, TxTyped, Uart!TypeOK, Uart!TxHasRoom, Places, Bytes
<1> QED BY <1>1, <1>2, <1>3, PTL DEF Uart!Spec

\* The transmit side is a channel, whatever the interrupt interrupts.
THEOREM TxIsChannel == Uart!SerialAssumption => (Uart!Spec => Uart!TxInOrder!Spec)
<1> SUFFICES ASSUME Uart!SerialAssumption PROVE Uart!Spec => Uart!TxInOrder!Spec
    OBVIOUS
<1>1. Uart!Init => TxTyped /\ TxRoom /\ Uart!TxInOrder!Init
    BY TxInit
<1>2. TxTyped /\ TxRoom /\ [Uart!Next]_(Uart!vars)
        => TxTyped' /\ TxRoom' /\ [Uart!TxInOrder!Next]_(Uart!TxInOrder!vars)
    BY TxNext
<1> QED BY <1>1, <1>2, PTL DEF Uart!Spec, Uart!TxInOrder!Spec

\* So is the receive side, if no more than one byte arrives inside a HalUartGet.
THEOREM RxIsChannel == Uart!SerialAssumption /\ Burst <= 1 => (Uart!Spec => Uart!RxInOrder!Spec)
<1> SUFFICES ASSUME Uart!SerialAssumption, Burst <= 1 PROVE Uart!Spec => Uart!RxInOrder!Spec
    OBVIOUS
<1>1. Uart!Init => RxTyped /\ RxRoom /\ Uart!RxInOrder!Init
    BY RxInit
<1>2. RxTyped /\ RxRoom /\ [Uart!Next]_(Uart!vars)
        => RxTyped' /\ RxRoom' /\ [Uart!RxInOrder!Next]_(Uart!RxInOrder!vars)
    BY RxTypedNext, RxRefines
<1> QED BY <1>1, <1>2, PTL DEF Uart!Spec, Uart!RxInOrder!Spec

-----------------------------------------------------------------------------
(* The line in company.                                                    *)

(* What the line keeps, while it is the part that moves.                   *)
LineKeeps == RxTyped /\ RxRoom /\ TxTyped /\ TxRoom

(* The line at the start.                                                  *)
LEMMA LineStarts ==
  LinkInit => LineKeeps /\ Uart!RxInOrder!Init /\ Uart!TxInOrder!Init
<1> SUFFICES ASSUME LinkInit PROVE LineKeeps /\ Uart!RxInOrder!Init /\ Uart!TxInOrder!Init
  OBVIOUS
<1>1. Uart!Init
  BY DEF LinkInit
<1>2. TxTyped /\ TxRoom /\ Uart!TxInOrder!Init
  BY <1>1, LineAssumption, TxInit
<1>3. RxTyped /\ RxRoom /\ Uart!RxInOrder!Init
  BY <1>1, LineAssumption, RxInit
<1> QED BY <1>2, <1>3 DEF LineKeeps

(* A step of another part leaves the line alone.                           *)
LEMMA LineSteps ==
  [LinkNext]_linkVars => [Uart!Next]_(Uart!vars)
<1> SUFFICES ASSUME [LinkNext]_linkVars PROVE [Uart!Next]_(Uart!vars)
  OBVIOUS
<1>1. CASE UNCHANGED uartVars
  BY <1>1 DEF uartVars, Uart!vars, Uart!rxVars, Uart!txVars
<1>2. (Uart!Next /\ OnlyUart) \/ UNCHANGED uartVars
  BY DEF LinkNext, OnlyAtCmd, OnlyFrames, OnlyWatch, linkVars
<1> QED BY <1>1, <1>2

(* In both directions a byte is passed on in its order and once, whatever  *)
(* the interrupt of hal_uart.c interrupts, if no more than one byte arrives *)
(* inside a HalUartGet.                                                    *)
THEOREM RingsOfTheLink == Burst <= 1 => (LinkSpec => RingsAreChannels)
<1> SUFFICES ASSUME Burst <= 1 PROVE LinkSpec => RingsAreChannels
  OBVIOUS
<1>1. LinkInit => LineKeeps /\ Uart!RxInOrder!Init /\ Uart!TxInOrder!Init
  BY LineStarts
<1>2. LineKeeps /\ [LinkNext]_linkVars
        => /\ LineKeeps'
           /\ [part = "uart" => /\ [Uart!RxInOrder!Next]_Uart!RxInOrder!vars
                                /\ [Uart!TxInOrder!Next]_Uart!TxInOrder!vars]_linkVars
  <2> SUFFICES ASSUME LineKeeps, [Uart!Next]_(Uart!vars)
               PROVE  /\ LineKeeps'
                      /\ [Uart!RxInOrder!Next]_(Uart!RxInOrder!vars)
                      /\ [Uart!TxInOrder!Next]_(Uart!TxInOrder!vars)
    BY LineSteps
  <2>1. RxTyped'
    BY LineAssumption, RxTypedNext DEF LineKeeps
  <2>2. RxRoom' /\ [Uart!RxInOrder!Next]_(Uart!RxInOrder!vars)
    BY LineAssumption, RxRefines DEF LineKeeps
  <2>3. TxTyped' /\ TxRoom' /\ [Uart!TxInOrder!Next]_(Uart!TxInOrder!vars)
    BY LineAssumption, TxNext DEF LineKeeps
  <2> QED BY <2>1, <2>2, <2>3 DEF LineKeeps
<1> QED BY <1>1, <1>2, PTL DEF LinkSpec, RingsAreChannels

-----------------------------------------------------------------------------
(***************************************************************************)
(* The watch: for all delays of the two timers and all times a server may  *)
(* take, as long as a heartbeat can be answered before the websocket is    *)
(* given up, only a server that is late is given up.                       *)
(***************************************************************************)

H == "SendHBP"
C == "CloseWebSocket"

(* At most one text waits; a heartbeat that is still to come was not sent. *)
Typed ==
    /\ wsState \in {"Closed", "HandshakePass", "Closing"}
    /\ timer \in [Events -> 0 .. CloseDelay] /\ timer[H] <= HbpDelay
    /\ flags \subseteq Events
    /\ isPairingEnable \in BOOLEAN /\ late \in BOOLEAN
    /\ texts = << >> \/ \E t \in Texts : texts = <<t>>
    /\ asked \in 0 .. MaxAnswer + 1 /\ silent \in 0 .. CloseDelay /\ beats \in 0 .. 2
    /\ beats = 2 => timer[H] = 0 /\ H \notin flags
    /\ beats = 1 => timer[H] = 0 \/ H \notin flags

(* The timers of an open websocket measure the silence.                    *)
Measured ==
    /\ timer[C] > 0 => silent + timer[C] = CloseDelay
    /\ timer[C] = 0 => silent = CloseDelay
    /\ timer[H] > 0 => silent + timer[H] = HbpDelay
    /\ timer[H] = 0 => silent >= HbpDelay

(* The heartbeat that is due is sent at once; a server in time that has    *)
(* not been heard since has been asked, and not for long.                  *)
Asked ==
    /\ timer[H] = 0 => H \in flags \/ beats > 0
    /\ H \in flags => silent <= HbpDelay
    /\ ~late /\ asked > 0 => silent < HbpDelay + asked
    /\ ~late /\ beats > 0 /\ texts = << >> => asked > 0

IInv == Typed /\ (wsState = "HandshakePass" => Measured /\ Asked)

USE DEF H, C

LEMMA InitIInv == Init => IInv
<1> SUFFICES ASSUME Init PROVE IInv
  OBVIOUS
<1> USE KeepAliveAssumption
<1>1. timer \in [Events -> 0 .. CloseDelay] /\ timer[H] = 0
  BY DEF Init, Events
<1>2. flags \subseteq Events /\ H \notin flags
  BY DEF Init
<1>3. asked \in 0 .. MaxAnswer + 1 /\ silent \in 0 .. CloseDelay /\ beats \in 0 .. 2
  BY DEF Init
<1>4. isPairingEnable \in BOOLEAN /\ late \in BOOLEAN
  BY Zenon DEF Init
<1> QED BY <1>1, <1>2, <1>3, <1>4 DEF Init, IInv, Typed

LEMMA TickIInv == IInv /\ Tick => IInv'
<1> SUFFICES ASSUME IInv, Tick PROVE IInv'
  OBVIOUS
<1> USE KeepAliveAssumption
<1>1. /\ timer[H] \in 0 .. HbpDelay /\ timer[C] \in 0 .. CloseDelay
      /\ timer'[H] = IF timer[H] > 0 THEN timer[H] - 1 ELSE 0
      /\ timer'[C] = IF timer[C] > 0 THEN timer[C] - 1 ELSE 0
      /\ H \in flags' <=> timer[H] = 1
  BY DEF IInv, Typed, Tick, Events
<1>2. Typed'
  <2>1. timer' \in [Events -> 0 .. CloseDelay] /\ flags' \subseteq Events
    BY DEF IInv, Typed, Tick
  <2>2. asked' \in 0 .. MaxAnswer + 1 /\ silent' \in 0 .. CloseDelay
    BY DEF IInv, Typed, Tick
  <2> QED BY <1>1, <2>1, <2>2 DEF IInv, Typed, Tick
<1>3. ASSUME wsState' = "HandshakePass" PROVE Measured'
  BY <1>1, <1>3 DEF IInv, Typed, Measured, Tick
<1>4. ASSUME wsState' = "HandshakePass" PROVE Asked'
  BY <1>1, <1>4 DEF IInv, Typed, Measured, Asked, Tick
<1> QED BY <1>2, <1>3, <1>4 DEF IInv

(* A text takes no time.                                                   *)
LEMMA ServerSaysIInv == ASSUME NEW text \in Texts PROVE IInv /\ ServerSays(text) => IInv'
BY KeepAliveAssumption DEF IInv, Typed, Measured, Asked, ServerSays

LEMMA ServerLateIInv == IInv /\ ServerLate => IInv'
BY DEF IInv, Typed, Measured, Asked, ServerLate

(* Both timers run from their delays again when the websocket opens and    *)
(* with every text, even with a flag left set.                             *)
Restart ==
    /\ timer' = Running /\ silent' = 0 /\ beats' = 0 /\ texts' = << >> /\ flags' = flags
    /\ wsState' \in {"Closed", "HandshakePass", "Closing"}
    /\ isPairingEnable' \in BOOLEAN /\ late' \in BOOLEAN
    /\ asked' \in 0 .. MaxAnswer + 1

LEMMA RestartIInv == IInv /\ Restart => IInv'
<1> SUFFICES ASSUME IInv, Restart PROVE IInv'
  OBVIOUS
<1> USE KeepAliveAssumption
<1>1. /\ timer' \in [Events -> 0 .. CloseDelay]
      /\ timer'[H] = HbpDelay /\ timer'[C] = CloseDelay
  BY DEF Restart, Running, Events
<1>2. Typed'
  BY <1>1 DEF IInv, Typed, Restart
<1>3. silent' = 0 /\ beats' = 0
  BY DEF Restart
<1>4. asked' \in Nat
  BY DEF Restart
<1>5. Measured'
  BY <1>1, <1>3 DEF Measured
<1>6. Asked'
  <2>1. (timer[H] = 0 => H \in flags \/ beats > 0)'
    BY <1>1, <1>4
  <2>2. (H \in flags => silent <= HbpDelay)'
    BY <1>3, <1>4
  <2>3. (asked > 0 => silent < HbpDelay + asked)'
    <3>1. \A n \in Nat : 0 < HbpDelay + n
      OBVIOUS
    <3> QED BY <1>3, <1>4, <3>1, Zenon
  <2>4. ~(beats > 0)'
    BY <1>3
  <2> QED BY <2>1, <2>2, <2>3, <2>4, Zenon DEF Asked
<1> QED BY <1>2, <1>5, <1>6 DEF IInv

LEMMA OpenedIInv == IInv /\ onWebSocketOpened => IInv'
<1> SUFFICES ASSUME IInv, onWebSocketOpened PROVE IInv'
  OBVIOUS
<1>1. isPairingEnable' \in BOOLEAN /\ late' \in BOOLEAN
  BY Zenon DEF onWebSocketOpened, IInv, Typed
<1>2. asked' \in 0 .. MaxAnswer + 1
  BY KeepAliveAssumption DEF onWebSocketOpened
<1> QED BY <1>1, <1>2, RestartIInv DEF onWebSocketOpened, Restart

LEMMA RxDataIInv == IInv /\ onWebSocketRxData => IInv'
<1> SUFFICES ASSUME IInv, onWebSocketRxData PROVE IInv'
  OBVIOUS
<1>1. isPairingEnable' \in BOOLEAN /\ late' \in BOOLEAN
  BY Zenon DEF onWebSocketRxData, IInv, Typed
<1>2. wsState' \in {"Closed", "HandshakePass", "Closing"} /\ asked' \in 0 .. MaxAnswer + 1
  BY DEF onWebSocketRxData, IInv, Typed
<1> QED BY <1>1, <1>2, RestartIInv DEF onWebSocketRxData, Restarted, Restart

LEMMA ClosedIInv == IInv /\ onWebSocketClosed => IInv'
<1> SUFFICES ASSUME IInv, onWebSocketClosed PROVE IInv'
  OBVIOUS
<1>1. timer' \in [Events -> 0 .. CloseDelay] /\ timer'[H] = 0
  BY KeepAliveAssumption DEF IInv, Typed, onWebSocketClosed, Stopped, Events
<1>2. isPairingEnable' \in BOOLEAN /\ late' \in BOOLEAN
  BY Zenon DEF IInv, Typed, onWebSocketClosed
<1> QED BY <1>1, <1>2, KeepAliveAssumption DEF IInv, Typed, onWebSocketClosed

(* The heartbeat is sent in the moment the timer runs out, or at once      *)
(* after a text: the answer has all its time before the websocket closes.  *)
LEMMA SendHBPIInv == IInv /\ SendHBP => IInv'
<1> SUFFICES ASSUME IInv, SendHBP PROVE IInv'
  OBVIOUS
<1> USE KeepAliveAssumption
<1>1. H \in flags /\ texts = << >> /\ flags' = flags \ {H} /\ UNCHANGED <<wsState, timer>>
  BY DEF SendHBP, Due
<1>2. timer[H] \in 0 .. HbpDelay
  BY DEF IInv, Typed, Events
<1>3. CASE wsState = "HandshakePass"
  <2>1. asked' = 1 /\ beats' = beats + 1 /\ UNCHANGED <<isPairingEnable, texts, late, silent>>
    BY <1>3 DEF SendHBP
  <2>2. Typed'
    BY <1>1, <1>2, <2>1 DEF IInv, Typed
  <2>3. Measured' /\ Asked'
    BY <1>1, <1>3, <2>1 DEF IInv, Typed, Measured, Asked
  <2> QED BY <2>2, <2>3 DEF IInv
<1>4. CASE wsState # "HandshakePass"
  BY <1>1, <1>4 DEF IInv, Typed, SendHBP
<1> QED BY <1>3, <1>4

LEMMA CloseWebSocketIInv == IInv /\ CloseWebSocket => IInv'
BY DEF IInv, Typed, Measured, Asked, CloseWebSocket, Due

LEMMA StepIInv == IInv /\ [Next]_vars => IInv'
<1> SUFFICES ASSUME IInv, [Next]_vars PROVE IInv'
  OBVIOUS
<1>1. CASE UNCHANGED vars
  BY <1>1 DEF vars, IInv, Typed, Measured, Asked
<1> QED
  BY <1>1, TickIInv, ServerSaysIInv, ServerLateIInv, OpenedIInv, RxDataIInv, ClosedIInv,
     SendHBPIInv, CloseWebSocketIInv DEF Next

LEMMA Inductive == Spec => []IInv
BY InitIInv, StepIInv, PTL DEF Spec

(* A websocket sends two heartbeats at most since it was last told that    *)
(* the server is there, one of them for a flag that a text did not take    *)
(* back; the age of an unanswered one is bounded.                          *)
THEOREM TypeCorrect == Spec => []TypeOK
<1>1. IInv => TypeOK
  BY DEF IInv, Typed, TypeOK
<1> QED BY <1>1, Inductive, PTL

(* app_lock.c gives up an open websocket only for the silence of a server  *)
(* that is late: 60 s after the last text, a heartbeat sent in between.    *)
THEOREM SilenceOnly == Spec => OnlyTheSilent
<1> DEFINE OutOfTime ==
      wsState = "HandshakePass" /\ C \in flags' \ flags
        => late /\ silent' = CloseDelay /\ beats > 0
<1>1. IInv /\ [Next]_vars => [OutOfTime]_vars
  <2> SUFFICES ASSUME IInv, Next, wsState = "HandshakePass", C \in flags' \ flags
               PROVE  late /\ silent' = CloseDelay /\ beats > 0
    OBVIOUS
  <2> USE KeepAliveAssumption
  <2>1. Tick
    BY DEF Next, ServerSays, ServerLate, onWebSocketOpened, onWebSocketRxData,
           onWebSocketClosed, SendHBP, CloseWebSocket, Due
  <2>2. /\ timer[C] = 1 /\ timer[H] \in 0 .. HbpDelay
        /\ flags = {} /\ texts = << >> /\ (late \/ asked <= MaxAnswer)
    BY <2>1 DEF Tick, IInv, Typed, Events
  <2>3. silent + 1 = CloseDelay /\ silent' = CloseDelay
    BY <2>1, <2>2 DEF Tick, IInv, Typed, Measured
  <2>4. beats > 0
    BY <2>2, <2>3 DEF IInv, Typed, Measured, Asked
  <2>5. late
    BY <2>2, <2>3, <2>4 DEF IInv, Typed, Asked
  <2> QED BY <2>3, <2>4, <2>5
<1> QED BY <1>1, Inductive, PTL DEF Spec, OnlyTheSilent

(* The watch is no other in the composition.                               *)
THEOREM SilenceOfTheLink == LinkSpec => OnlyTheSilent
<1>1. LinkInit => Init
  BY DEF LinkInit
<1>2. [LinkNext]_linkVars => [Next]_vars
  BY DEF LinkNext, OnlyUart, OnlyAtCmd, OnlyFrames, OnlyWatch, linkVars, watchVars
<1> QED BY <1>1, <1>2, SilenceOnly, PTL DEF LinkSpec, Spec

-----------------------------------------------------------------------------
(***************************************************************************)
(* The pages of the network (module Credentials), for texts and words of   *)
(* every length, and however often the power fails.                        *)
(***************************************************************************)
CONSTANTS Ssids, Passwds, Urls, Default, MaxName, MaxServer, WordChars, NUL, FF, Port,
          MaxPairings, MaxUpdates, MaxCuts

VARIABLES flash, job, pSSID, pPASSWD, mode, opening, used, told, urls, saved, cuts

Network == INSTANCE Credentials

NetPages == {"ssid", "passwd"}

(* A text without an end in it, as the characters that stand for it in a   *)
(* page; and a page in which some of them are still blank.                 *)
Ended(t) == t \in Seq(Network!Range(t)) /\ NUL \notin Network!Range(t)
Fill(t, i) == IF i <= Len(t) THEN t[i] ELSE NUL
Mixed(chars, t) == \A i \in 1 .. MaxName : chars[i] \in {FF, Fill(t, i)}

(* What flashReadSSID and flashReadPASSWD make of the contents of a page.  *)
Read(chars) ==
  LET text == Network!Text(chars)
      scanned == SubSeq(text, 1, Network!Min({MaxName, Len(text)}))
  IN  IF Network!Contains(scanned, FF) THEN << >> ELSE text

LEMMA ReadPage == \A page : Network!FlashRead(page) = Read(flash[page])
BY DEF Network!FlashRead, Read

(* The least of some numbers is one of them.                               *)
LEMMA LeastOfSome ==
  ASSUME NEW T, T \subseteq Nat, T # {}
  PROVE  Network!Min(T) \in T /\ \A k \in T : Network!Min(T) <= k
<1> DEFINE Less == OpToRel(<, Nat)
<1>1. IsWellFoundedOn(Less, Nat)
  BY NatLessThanWellFounded
<1>2. PICK x \in T : \A y \in T : <<y, x>> \notin Less
  BY <1>1, WFMin
<1>3. \A y \in T : ~(y < x)
  BY <1>2 DEF OpToRel
<1>4. \A y \in T : x <= y
  BY <1>3
<1>5. \E l \in T : \A k \in T : l <= k
  BY <1>4
<1> QED BY <1>5 DEF Network!Min

(* Where the text of a page ends: at its first NUL, or with the page.      *)
EndsAt(chars, e) ==
  /\ e \in 0 .. MaxName /\ Network!Text(chars) = SubSeq(chars, 1, e)
  /\ \A i \in 1 .. e : chars[i] # NUL
  /\ e # MaxName => chars[e + 1] = NUL

LEMMA TextEnds ==
  ASSUME MaxName \in Nat, NEW S, NEW chars \in [1 .. MaxName -> S]
  PROVE  \E e : EndsAt(chars, e)
<1> DEFINE Nuls == {j \in DOMAIN chars : chars[j] = NUL}
           T == {i - 1 : i \in Nuls} \cup {Len(chars)}
           e == Network!Min(T)
<1>1. DOMAIN chars = 1 .. MaxName /\ chars \in Seq(S) /\ Len(chars) = MaxName
  BY SeqDef, LenProperties
<1>2. T \subseteq 0 .. MaxName
  BY <1>1
<1>3. e \in T /\ \A k \in T : e <= k
  <2>1. Len(chars) \in T /\ T \subseteq Nat
    BY <1>2
  <2> HIDE DEF T
  <2> QED BY <2>1, LeastOfSome
<1>4. Network!Text(chars) = SubSeq(chars, 1, e)
  BY DEF Network!Text
<1> HIDE DEF e
<1>5. \A i \in 1 .. e : chars[i] # NUL
  <2> SUFFICES ASSUME NEW i \in 1 .. e, chars[i] = NUL PROVE FALSE
    OBVIOUS
  <2>1. i \in Nuls /\ i - 1 \in T
    BY <1>1, <1>2, <1>3
  <2> QED BY <1>2, <1>3, <2>1
<1>6. e # MaxName => chars[e + 1] = NUL
  BY <1>1, <1>2, <1>3
<1> QED BY <1>2, <1>3, <1>4, <1>5, <1>6 DEF EndsAt

(* A page is read as its text, or as nothing if there is a blank in it.    *)
LEMMA ReadText ==
  ASSUME MaxName \in Nat, NEW S, NEW chars \in [1 .. MaxName -> S], NEW e, EndsAt(chars, e)
  PROVE  /\ SubSeq(chars, 1, e) \in Seq(S) /\ Len(SubSeq(chars, 1, e)) = e
         /\ \A i \in 1 .. e : SubSeq(chars, 1, e)[i] = chars[i]
         /\ (\E i \in 1 .. e : chars[i] = FF) => Read(chars) = << >>
         /\ (\A i \in 1 .. e : chars[i] # FF) => Read(chars) = SubSeq(chars, 1, e)
<1> DEFINE t == SubSeq(chars, 1, e)
<1>1. e \in 0 .. MaxName /\ Network!Text(chars) = t
  BY DEF EndsAt
<1>2. chars \in Seq(S) /\ Len(chars) = MaxName
  BY SeqDef, LenProperties
<1>3. t \in Seq(S) /\ Len(t) = e /\ \A i \in 1 .. e : t[i] = chars[i]
  BY <1>1, <1>2, SubSeqProperties
<1> HIDE DEF t
<1>4. Network!Min({MaxName, Len(t)}) = e
  <2> DEFINE T == {MaxName, Len(t)}
  <2>1. T \subseteq Nat /\ T # {}
    BY <1>1, <1>3
  <2>2. MaxName \in T /\ e \in T /\ \A k \in T : k = MaxName \/ k = e
    BY <1>3
  <2> HIDE DEF T
  <2>3. Network!Min(T) \in T /\ \A k \in T : Network!Min(T) <= k
    BY <2>1, LeastOfSome
  <2>4. /\ Network!Min(T) = MaxName \/ Network!Min(T) = e
        /\ Network!Min(T) <= e
    BY <2>2, <2>3
  <2>5. Network!Min(T) = e
    BY <1>1, <2>4
  <2> QED BY <2>5 DEF T
<1>5. SubSeq(t, 1, e) = t
  BY <1>1, <1>3, SubSeqProperties
<1>6. Read(chars) = IF Network!Contains(t, FF) THEN << >> ELSE t
  BY <1>1, <1>4, <1>5, Zenon DEF Read
<1>7. Network!Contains(t, FF) <=> \E i \in 1 .. e : chars[i] = FF
  BY <1>3 DEF Network!Contains
<1>8. (\E i \in 1 .. e : chars[i] = FF) => Read(chars) = << >>
  BY <1>6, <1>7
<1>9. (\A i \in 1 .. e : chars[i] # FF) => Read(chars) = t
  BY <1>6, <1>7
<1> QED BY <1>3, <1>8, <1>9 DEF t

(* While a text is written, its page is read as the text or as nothing.    *)
LEMMA ReadMixed ==
  ASSUME MaxName \in Nat, NUL # FF, NEW S, NEW chars \in [1 .. MaxName -> S],
         NEW t, Ended(t), Len(t) <= MaxName, Mixed(chars, t)
  PROVE  Read(chars) \in {<< >>, t}
<1>1. PICK e : EndsAt(chars, e)
  BY TextEnds
<1>2. CASE \E i \in 1 .. e : chars[i] = FF
  BY <1>1, <1>2, ReadText
<1>3. CASE \A i \in 1 .. e : chars[i] # FF
  <2> DEFINE r == SubSeq(chars, 1, e)
  <2>1. /\ r \in Seq(S) /\ Len(r) = e /\ Read(chars) = r
        /\ \A i \in 1 .. e : r[i] = chars[i]
    BY <1>1, <1>3, ReadText
  <2>2. /\ e \in 0 .. MaxName /\ \A i \in 1 .. e : chars[i] # NUL
        /\ e # MaxName => chars[e + 1] = NUL
    BY <1>1 DEF EndsAt
  <2>3. t \in Seq(Network!Range(t)) /\ Len(t) \in Nat /\ \A i \in 1 .. Len(t) : t[i] # NUL
    BY DEF Ended, Network!Range
  <2>4. \A i \in 1 .. e : i <= Len(t) /\ chars[i] = t[i]
    BY <1>3, <2>2, <2>3 DEF Mixed, Fill
  <2>5. e <= Len(t)
    BY <2>2, <2>3, <2>4
  <2>6. Len(t) <= e
    <3>1. CASE e = MaxName
      BY <3>1
    <3>2. CASE e # MaxName
      <4>1. e + 1 \in 1 .. MaxName /\ chars[e + 1] = NUL
        BY <2>2, <3>2
      <4>2. Fill(t, e + 1) = NUL
        BY <4>1 DEF Mixed
      <4> QED BY <2>2, <2>3, <4>1, <4>2 DEF Fill
    <3> QED BY <3>1, <3>2
  <2>7. e = Len(t)
    BY <2>2, <2>3, <2>5, <2>6
  <2> HIDE DEF r
  <2>8. r = t
    BY <2>1, <2>3, <2>4, <2>7, SeqEqual
  <2> QED BY <2>1, <2>8
<1> QED BY <1>2, <1>3

(* A page of which some characters are blanked is read as before, or as    *)
(* nothing.                                                                *)
LEMMA ReadBlanked ==
  ASSUME MaxName \in Nat, NUL # FF, NEW S, NEW a \in [1 .. MaxName -> S],
         NEW b \in [1 .. MaxName -> S], \A i \in 1 .. MaxName : b[i] \in {FF, a[i]}
  PROVE  Read(b) \in {<< >>, Read(a)}
<1>1. PICK e : EndsAt(a, e)
  BY TextEnds
<1>2. PICK f : EndsAt(b, f)
  BY TextEnds
<1>3. CASE \E i \in 1 .. f : b[i] = FF
  BY <1>2, <1>3, ReadText
<1>4. CASE \A i \in 1 .. f : b[i] # FF
  <2> DEFINE r == SubSeq(a, 1, e)
             s == SubSeq(b, 1, f)
  <2>1. /\ s \in Seq(S) /\ Len(s) = f /\ Read(b) = s
        /\ \A i \in 1 .. f : s[i] = b[i]
    BY <1>2, <1>4, ReadText
  <2>2. /\ e \in 0 .. MaxName /\ \A i \in 1 .. e : a[i] # NUL
        /\ e # MaxName => a[e + 1] = NUL
        /\ f \in 0 .. MaxName /\ \A i \in 1 .. f : b[i] # NUL
        /\ f # MaxName => b[f + 1] = NUL
    BY <1>1, <1>2 DEF EndsAt
  <2>3. \A i \in 1 .. f : b[i] = a[i]
    BY <1>4, <2>2
  <2>4. f <= e
    <3>1. CASE e = MaxName
      BY <2>2, <3>1
    <3>2. CASE e # MaxName /\ f > e
      BY <2>2, <2>3, <3>2
    <3> QED BY <2>2, <3>1, <3>2
  <2>5. e <= f
    <3>1. CASE f = MaxName
      BY <2>2, <3>1
    <3>2. CASE f # MaxName
      <4>1. a[f + 1] = NUL
        BY <2>2, <3>2
      <4> QED BY <2>2, <4>1
    <3> QED BY <3>1, <3>2
  <2>6. e = f
    BY <2>2, <2>4, <2>5
  <2>0. \A i \in 1 .. e : a[i] # FF
    BY <1>4, <2>3, <2>6
  <2>7. /\ r \in Seq(S) /\ Len(r) = e /\ Read(a) = r
        /\ \A i \in 1 .. e : r[i] = a[i]
    BY <1>1, <2>0, ReadText
  <2> HIDE DEF r, s
  <2>8. r = s
    BY <2>1, <2>3, <2>6, <2>7, SeqEqual
  <2> QED BY <2>1, <2>7, <2>8
<1> QED BY <1>3, <1>4
-----------------------------------------------------------------------------
(* The texts, and what a name is for the buffer it is written to.          *)
Names == Ssids \cup {<< >>}
Words == Passwds \cup {<< >>}
Known == [ssid |-> Names, passwd |-> Words]

Chars == {NUL, FF} \cup UNION {Network!Range(t) : t \in Names \cup Words}

LEMMA Strings ==
  ASSUME Network!CredentialsAssumption
  PROVE  /\ MaxName \in Nat /\ WordChars \in Nat \ {0} /\ MaxServer \in Nat /\ NUL # FF
         /\ \A t \in Names \cup Words : Ended(t)
         /\ \A t \in Names : Len(t) <= MaxName
<1>1. Ended(<< >>) /\ Len(<< >>) = 0
  BY DEF Ended, Network!Range
<1>2. \A t \in Ssids \cup Passwds : Ended(t)
  BY Zenon DEF Network!CredentialsAssumption, Ended, Network!Range
<1>3. /\ MaxName \in Nat /\ WordChars \in Nat \ {0} /\ MaxServer \in Nat /\ NUL # FF
      /\ \A t \in Ssids : Len(t) <= MaxName
  BY Zenon DEF Network!CredentialsAssumption
<1> QED BY <1>1, <1>2, <1>3 DEF Names, Words

(* The characters of a text are characters, and so are those of a page     *)
(* into which a word of one was written.                                   *)
LEMMA FillsAreChars ==
  ASSUME NEW t \in Names \cup Words, Ended(t), NEW i \in Nat \ {0}
  PROVE  Fill(t, i) \in Chars
<1>1. t \in Seq(Network!Range(t))
  BY DEF Ended
<1>2. CASE i <= Len(t)
  <2>1. t[i] \in Network!Range(t)
    BY <1>1, <1>2
  <2> QED BY <1>2, <2>1 DEF Fill, Chars
<1>3. CASE ~(i <= Len(t))
  BY <1>3 DEF Fill, Chars
<1> QED BY <1>2, <1>3

(* A blank page is read as nothing.                                        *)
LEMMA ReadBlank ==
  ASSUME MaxName \in Nat, NUL # FF, NEW S, NEW chars \in [1 .. MaxName -> S],
         \A i \in 1 .. MaxName : chars[i] = FF
  PROVE  Read(chars) = << >>
<1>1. Ended(<< >>) /\ Len(<< >>) = 0
  BY DEF Ended, Network!Range
<1>2. Mixed(chars, << >>)
  BY <1>1 DEF Mixed, Fill
<1> DEFINE t == << >>
<1>3. Ended(t) /\ Len(t) <= MaxName /\ Mixed(chars, t)
  BY <1>1, <1>2
<1> HIDE DEF t
<1>4. Read(chars) \in {<< >>, t}
  BY <1>3, ReadMixed
<1> QED BY <1>4 DEF t

-----------------------------------------------------------------------------
(* The steps that a handler owes.                                          *)
Ops == [page : Network!Pages, at : Nat, text : Names \cup Words \cup Urls \cup {Default}]

Programs(op, p) == op.page = p /\ op.at # 0

(* What a handler writes to one page: it erases it before all else.        *)
Write(W, p, t) ==
  /\ W \in Seq(Ops)
  /\ \A k \in 1 .. Len(W) : W[k].page = p
  /\ \A k \in 1 .. Len(W) : Programs(W[k], p) => W[k].text = t /\ k # 1
  
LEMMA ErasesAreWrites ==
  ASSUME NEW p \in Network!Pages
  PROVE  /\ Write(Network!Erase(p), p, << >>) /\ Len(Network!Erase(p)) = 1
         /\ Network!Erase(p)[1].page = p /\ Network!Erase(p)[1].at = 0
<1> DEFINE op == [page |-> p, at |-> 0, text |-> << >>]
<1>1. op \in Ops /\ op.page = p /\ op.at = 0
  BY DEF Ops, Names
<1>2. Network!Erase(p) = <<op>>
  BY DEF Network!Erase
<1> HIDE DEF op
<1>3. <<op>> \in Seq(Ops) /\ Len(<<op>>) = 1 /\ <<op>>[1] = op
  BY <1>1
<1> QED BY <1>1, <1>2, <1>3 DEF Write, Programs

LEMMA ProgramsOfPage ==
  ASSUME Network!CredentialsAssumption, NEW p \in Network!Pages,
         NEW t \in Names \cup Words \cup Urls \cup {Default}
  PROVE  /\ Network!Program(p, t) \in Seq(Ops)
         /\ \A k \in 1 .. Len(Network!Program(p, t)) :
              /\ Network!Program(p, t)[k].page = p
              /\ Network!Program(p, t)[k].at = k
              /\ Network!Program(p, t)[k].text = t
<1> DEFINE n == Network!Size(p) \div WordChars
           op(w) == [page |-> p, at |-> w, text |-> t]
<1>1. Network!Size(p) \in Nat /\ WordChars \in Nat \ {0}
  BY Strings DEF Network!Size
<1>2. n \in Nat
  BY <1>1
<1>3. Network!Program(p, t) = [w \in 1 .. n |-> op(w)]
  BY DEF Network!Program, Network!Words
<1> HIDE DEF n
<1>4. \A w \in 1 .. n : op(w) \in Ops
  BY <1>2 DEF Ops
<1>5. [w \in 1 .. n |-> op(w)] \in [1 .. n -> Ops]
  BY <1>4
<1>6. Network!Program(p, t) \in Seq(Ops) /\ Len(Network!Program(p, t)) = n
  BY <1>2, <1>3, <1>5, SeqDef, LenProperties
<1>7. \A k \in 1 .. n : Network!Program(p, t)[k] = op(k)
  BY <1>3
<1> QED BY <1>6, <1>7

LEMMA WritesOfPage ==
  ASSUME Network!CredentialsAssumption, NEW p \in Network!Pages,
         NEW t \in Names \cup Words \cup Urls \cup {Default}
  PROVE  /\ Write(Network!Erase(p) \o Network!Program(p, t), p, t)
         /\ Len(Network!Erase(p) \o Network!Program(p, t)) >= 1
         /\ (Network!Erase(p) \o Network!Program(p, t))[1].at = 0
<1> DEFINE E == Network!Erase(p)
           P == Network!Program(p, t)
<1>1. E \in Seq(Ops) /\ Len(E) = 1 /\ E[1].page = p /\ E[1].at = 0
  BY ErasesAreWrites DEF Write
<1>2. /\ P \in Seq(Ops)
      /\ \A k \in 1 .. Len(P) : P[k].page = p /\ P[k].text = t
  BY ProgramsOfPage
<1> HIDE DEF E, P
<1>3. /\ E \o P \in Seq(Ops) /\ Len(E \o P) = 1 + Len(P) /\ Len(P) \in Nat
      /\ (E \o P)[1] = E[1]
      /\ \A k \in 2 .. 1 + Len(P) : (E \o P)[k] = P[k - 1]
  <2>1. /\ E \o P \in Seq(Ops) /\ Len(E \o P) = Len(E) + Len(P)
        /\ \A k \in 1 .. Len(E) : (E \o P)[k] = E[k]
        /\ \A k \in Len(E) + 1 .. Len(E) + Len(P) : (E \o P)[k] = P[k - Len(E)]
    BY <1>1, <1>2, ConcatProperties
  <2>2. Len(P) \in Nat
    BY <1>2
  <2> HIDE <1>2
  <2> QED BY <1>1, <2>1, <2>2
<1>4. \A k \in 1 .. Len(E \o P) : /\ (E \o P)[k].page = p
                                  /\ k # 1 => (E \o P)[k].text = t
  <2> TAKE k \in 1 .. Len(E \o P)
  <2>1. CASE k = 1
    BY <1>1, <1>3, <2>1
  <2>2. CASE k # 1
    <3>1. k - 1 \in 1 .. Len(P) /\ (E \o P)[k] = P[k - 1]
      BY <1>3, <2>2
    <3> QED BY <1>2, <2>2, <3>1
  <2> QED BY <2>1, <2>2
<1>5. Write(E \o P, p, t)
  BY <1>1, <1>3, <1>4 DEF Write, Programs
<1>6. Len(E \o P) >= 1 /\ (E \o P)[1].at = 0
  BY <1>1, <1>3
<1> QED BY <1>5, <1>6 DEF E, P

(* Every word that is owed to a page is of one text and comes after        *)
(* something of the same page.                                             *)
Owed(J, p, t) ==
  \A k \in 1 .. Len(J) :
    Programs(J[k], p) => J[k].text = t /\ k # 1 /\ J[k - 1].page = p

NoneOwed(J, p) == \A k \in 1 .. Len(J) : ~Programs(J[k], p)

(* One page written after the other.                                       *)
LEMMA WritesInTurn ==
  ASSUME NEW V, NEW W, NEW p, NEW q, p # q, NEW s, NEW t, Write(V, p, s), Write(W, q, t),
         NEW J, J = V \o W
  PROVE  /\ J \in Seq(Ops) /\ Len(J) = Len(V) + Len(W)
         /\ Len(V) > 0 => J[1] = V[1]
         /\ Owed(J, p, s) /\ Owed(J, q, t)
         /\ Len(W) = 0 => NoneOwed(J, q)
<1>1. V \in Seq(Ops) /\ W \in Seq(Ops)
  BY DEF Write
<1>2. /\ J \in Seq(Ops) /\ Len(J) = Len(V) + Len(W)
      /\ Len(V) \in Nat /\ Len(W) \in Nat
      /\ \A k \in 1 .. Len(V) : J[k] = V[k]
      /\ \A k \in Len(V) + 1 .. Len(V) + Len(W) : J[k] = W[k - Len(V)]
  BY <1>1, ConcatProperties
<1>3. Len(V) > 0 => J[1] = V[1]
  BY <1>2
<1>4. ASSUME NEW k \in 1 .. Len(V)
      PROVE  /\ J[k].page = p
             /\ Programs(J[k], p) => /\ J[k].text = s /\ k # 1
                                     /\ J[k - 1].page = p
  <2>1. J[k] = V[k] /\ V[k].page = p
    BY <1>2 DEF Write
  <2>2. Programs(V[k], p) => V[k].text = s /\ k # 1
    BY DEF Write
  <2>3. k # 1 => J[k - 1] = V[k - 1] /\ V[k - 1].page = p
    <3>1. k # 1 => k - 1 \in 1 .. Len(V)
      BY <1>2
    <3> QED BY <1>2, <3>1 DEF Write
  <2> QED BY <2>1, <2>2, <2>3
<1>5. ASSUME NEW k \in Len(V) + 1 .. Len(V) + Len(W)
      PROVE  /\ J[k].page = q
             /\ Programs(J[k], q) => /\ J[k].text = t /\ k # 1
                                     /\ J[k - 1].page = q
  <2> DEFINE j == k - Len(V)
  <2>1. j \in 1 .. Len(W) /\ J[k] = W[j]
    BY <1>2
  <2>2. W[j].page = q /\ (Programs(W[j], q) => W[j].text = t /\ j # 1)
    BY <2>1 DEF Write
  <2>3. j # 1 => J[k - 1] = W[j - 1] /\ W[j - 1].page = q
    <3>1. j # 1 => j - 1 \in 1 .. Len(W) /\ k - 1 \in Len(V) + 1 .. Len(V) + Len(W)
                   /\ (k - 1) - Len(V) = j - 1
      BY <1>2, <2>1
    <3> QED BY <1>2, <3>1 DEF Write
  <2>4. j # 1 => k # 1
    BY <1>2, <2>1
  <2> QED BY <2>1, <2>2, <2>3, <2>4
<1>6. ASSUME NEW k \in 1 .. Len(J)
      PROVE  \/ (k \in 1 .. Len(V) /\ Len(V) > 0)
             \/ (k \in Len(V) + 1 .. Len(V) + Len(W) /\ Len(W) > 0)
  <2>1. k \in 1 .. Len(V) + Len(W) /\ Len(V) \in Nat /\ Len(W) \in Nat
    BY <1>2
  <2> QED BY <2>1
<1>7. Owed(J, p, s) /\ Owed(J, q, t)
  BY <1>4, <1>5, <1>6 DEF Owed, Programs
<1>8. Len(W) = 0 => NoneOwed(J, q)
  BY <1>4, <1>6 DEF NoneOwed, Programs
<1> QED BY <1>2, <1>3, <1>7, <1>8
-----------------------------------------------------------------------------
(* The invariant.                                                          *)
R(p) == Read(flash[p])

NetTyped ==
  /\ DOMAIN flash = Network!Pages
  /\ \A p \in NetPages : flash[p] \in [1 .. MaxName -> Chars]
  /\ job \in Seq(Ops)
  /\ pSSID \in Names /\ pPASSWD \in Words
  /\ \A p \in NetPages : saved[p] \in Known[p]
  /\ told \in Seq(Names \X Words)
  /\ DOMAIN used = {"ssid", "passwd", "server"}
  /\ mode \in {"idle", "pairing", "joining", "joined"} /\ opening \in BOOLEAN
  /\ \A p \in NetPages : R(p) \in Known[p]

(* A word that is still owed belongs to the text that was told last, and   *)
(* its page holds nothing but that text and blanks by then: something of   *)
(* the same page comes before it, first its erasure.                       *)
OwedWord(k, p) ==
  /\ Len(saved[p]) <= MaxName /\ job[k].text = saved[p]
  /\ told # << >> /\ told[Len(told)][1] = saved["ssid"]
  /\ p = "passwd" => told[Len(told)][2] = saved["passwd"]
  /\ IF k = 1 THEN Mixed(flash[p], saved[p]) ELSE job[k - 1].page = p

WordsOwed ==
  \A k \in 1 .. Len(job) : \A p \in NetPages : Programs(job[k], p) => OwedWord(k, p)

(* The former name is gone, or is going first, while words of the password *)
(* are owed.                                                               *)
NameIsFirst ==
  \A k \in 1 .. Len(job) : Programs(job[k], "passwd") =>
     \/ job[1].page = "ssid" /\ job[1].at = 0
     \/ R("ssid") \in {<< >>, saved["ssid"]}

(* The password was told with the name, or before it.                      *)
Told(s, w) ==
  \E i \in DOMAIN told : \E j \in 1 .. i : told[i][1] = s /\ told[j][2] = w

PairTold ==
  /\ R("passwd") # << >> => \E j \in DOMAIN told : told[j][2] = R("passwd")
  /\ R("ssid") # << >> /\ R("passwd") # << >> => Told(R("ssid"), R("passwd"))

NetInv == NetTyped /\ WordsOwed /\ NameIsFirst /\ PairTold /\ Network!PasswordNotNewer

-----------------------------------------------------------------------------
(* What the first of the owed steps makes of its page, performed or torn.  *)
LEMMA Written ==
  ASSUME Network!CredentialsAssumption, NetTyped, WordsOwed, job # << >>,
         NEW p \in NetPages, job[1].page = p, NEW chars,
         chars = Network!Performed(flash[p], job[1]) \/ chars \in Network!Torn(flash[p], job[1])
  PROVE  /\ chars \in [1 .. MaxName -> Chars]
         /\ Read(chars) \in {R(p), << >>} \/ (Programs(job[1], p) /\ Read(chars) = saved[p])
<1> DEFINE a == flash[p]
           h == job[1]
<1>1. /\ MaxName \in Nat /\ NUL # FF /\ \A t \in Names \cup Words : Ended(t)
      /\ a \in [1 .. MaxName -> Chars] /\ DOMAIN a = 1 .. MaxName
      /\ FF \in Chars
  BY Strings DEF NetTyped, Chars
<1>2. 1 \in 1 .. Len(job) /\ saved[p] \in Known[p] /\ p \in {"ssid", "passwd"}
  BY DEF NetTyped, NetPages
<1>3. saved[p] \in Names \cup Words
  BY <1>2 DEF Known
<1>4. CASE h.at = 0
  <2>1. \A i \in 1 .. MaxName : chars[i] \in {FF, a[i]}
    BY <1>1, <1>4 DEF Network!Performed, Network!Torn
  <2>2. DOMAIN chars = 1 .. MaxName /\ chars = [i \in 1 .. MaxName |-> chars[i]]
    BY <1>1, <1>4 DEF Network!Performed, Network!Torn
  <2> HIDE DEF a, h
  <2>3. \A i \in 1 .. MaxName : chars[i] \in Chars
    BY <1>1, <2>1
  <2>4. chars \in [1 .. MaxName -> Chars]
    BY <2>2, <2>3
  <2>5. Read(chars) \in {<< >>, Read(a)}
    BY <1>1, <2>1, <2>4, ReadBlanked
  <2> QED BY <2>4, <2>5 DEF a, R
<1>5. CASE h.at # 0
  <2>1. /\ Len(saved[p]) <= MaxName /\ h.text = saved[p] /\ Mixed(a, saved[p])
        /\ Programs(h, p)
    BY <1>2, <1>5 DEF WordsOwed, OwedWord, Programs
  <2>2. chars = a \/ chars = Network!Performed(a, h)
    BY <1>5 DEF Network!Torn
  <2>3. ASSUME chars = Network!Performed(a, h)
        PROVE  /\ DOMAIN chars = 1 .. MaxName /\ chars = [i \in 1 .. MaxName |-> chars[i]]
               /\ \A i \in 1 .. MaxName : chars[i] \in {a[i], Fill(saved[p], i)}
    BY <1>1, <1>5, <2>1, <2>3 DEF Network!Performed, Fill
  <2> HIDE DEF a, h
  <2>4. \A i \in 1 .. MaxName : Fill(saved[p], i) \in Chars
    BY <1>1, <1>3, FillsAreChars
  <2>5. chars \in [1 .. MaxName -> Chars] /\ Mixed(chars, saved[p])
    <3>1. CASE chars = a
      BY <1>1, <2>1, <3>1
    <3>2. CASE chars = Network!Performed(a, h)
      <4>1. \A i \in 1 .. MaxName : chars[i] \in Chars
        BY <1>1, <2>3, <2>4, <3>2
      <4>2. \A i \in 1 .. MaxName : chars[i] \in {FF, Fill(saved[p], i)}
        BY <2>1, <2>3, <3>2 DEF Mixed
      <4> QED BY <2>3, <3>2, <4>1, <4>2 DEF Mixed
    <3> QED BY <2>2, <3>1, <3>2
  <2>6. Read(chars) \in {<< >>, saved[p]}
    BY <1>1, <1>3, <2>1, <2>5, ReadMixed
  <2> QED BY <2>1, <2>5, <2>6 DEF h
<1> QED BY <1>4, <1>5

(* A step that is performed leaves blanks, or blanks and the text.         *)
LEMMA Left ==
  ASSUME Network!CredentialsAssumption, NetTyped, WordsOwed, job # << >>,
         NEW p \in NetPages, job[1].page = p, NEW chars,
         chars = Network!Performed(flash[p], job[1])
  PROVE  /\ \A t : Len(t) <= MaxName /\ job[1].at = 0 => Mixed(chars, t)
         /\ job[1].at = 0 => Read(chars) = << >>
         /\ job[1].at # 0 => Mixed(chars, saved[p])
<1> DEFINE a == flash[p]
           h == job[1]
<1>1. /\ MaxName \in Nat /\ NUL # FF
      /\ a \in [1 .. MaxName -> Chars] /\ DOMAIN a = 1 .. MaxName
  BY Strings DEF NetTyped, Chars
<1>2. 1 \in 1 .. Len(job)
  BY DEF NetTyped
<1>3. chars \in [1 .. MaxName -> Chars]
  BY Written
<1>4. CASE h.at = 0
  <2>1. \A i \in 1 .. MaxName : chars[i] = FF
    BY <1>1, <1>4 DEF Network!Performed
  <2>2. Read(chars) = << >>
    BY <1>1, <1>3, <2>1, ReadBlank
  <2>3. \A t : Mixed(chars, t)
    BY <2>1 DEF Mixed
  <2> QED BY <1>4, <2>2, <2>3
<1>5. CASE h.at # 0
  <2>1. /\ Len(saved[p]) <= MaxName /\ h.text = saved[p] /\ Mixed(a, saved[p])
    BY <1>2, <1>5 DEF WordsOwed, OwedWord, Programs
  <2>2. \A i \in 1 .. MaxName : chars[i] \in {a[i], Fill(saved[p], i)}
    BY <1>1, <1>5, <2>1 DEF Network!Performed, Fill
  <2> HIDE DEF a, h
  <2>3. Mixed(chars, saved[p])
    BY <2>1, <2>2 DEF Mixed
  <2> QED BY <1>5, <2>3 DEF h
<1> QED BY <1>4, <1>5

(* What a step or a loss of power does to what is read: nothing, or it is  *)
(* gone, or it is the text that was to be written.                         *)
Reread(p) ==
  /\ flash'[p] \in [1 .. MaxName -> Chars]
  /\ \/ Read(flash'[p]) \in {R(p), << >>}
     \/ (job # << >> /\ Programs(job[1], p) /\ Read(flash'[p]) = saved[p])

LEMMA StepRereads ==
  ASSUME Network!CredentialsAssumption, NetTyped, WordsOwed, Network!Step \/ Network!PowerOff
  PROVE  DOMAIN flash' = Network!Pages /\ \A p \in NetPages : Reread(p)
<1>1. NetPages \subseteq Network!Pages
  BY DEF NetPages, Network!Pages
<1>2. CASE flash' = flash
  BY <1>2 DEF NetTyped, Reread, R
<1>3. ASSUME job # << >>, NEW chars,
             chars = Network!Performed(flash[job[1].page], job[1])
               \/ chars \in Network!Torn(flash[job[1].page], job[1]),
             flash' = [flash EXCEPT ![job[1].page] = chars]
      PROVE  DOMAIN flash' = Network!Pages /\ \A p \in NetPages : Reread(p)
  <2>1. DOMAIN flash' = Network!Pages /\ DOMAIN flash = Network!Pages
    BY <1>3 DEF NetTyped
  <2>2. ASSUME NEW p \in NetPages, p # job[1].page
        PROVE  Reread(p)
    <3>1. flash'[p] = flash[p]
      BY <1>1, <1>3, <2>1, <2>2
    <3> QED BY <3>1 DEF Reread, NetTyped, R
  <2>3. ASSUME NEW p \in NetPages, p = job[1].page
        PROVE  Reread(p)
    <3>1. flash'[p] = chars
      BY <1>1, <1>3, <2>1, <2>3
    <3>2. /\ chars \in [1 .. MaxName -> Chars]
          /\ Read(chars) \in {R(p), << >>} \/ (Programs(job[1], p) /\ Read(chars) = saved[p])
      BY <1>3, <2>3, Written
    <3> QED BY <1>3, <3>1, <3>2 DEF Reread
  <2> QED BY <2>1, <2>2, <2>3
<1>4. job # << >> => Head(job) = job[1]
  BY DEF NetTyped
<1>5. CASE Network!Step
  <2>1. /\ job # << >>
        /\ flash' = [flash EXCEPT ![Head(job).page] =
                       Network!Performed(flash[Head(job).page], Head(job))]
    BY <1>5 DEF Network!Step
  <2> QED BY <1>3, <1>4, <2>1
<1>6. CASE Network!PowerOff
  <2>1. \/ flash' = flash
        \/ job # << >> /\ \E chars \in Network!Torn(flash[Head(job).page], Head(job)) :
                            flash' = [flash EXCEPT ![Head(job).page] = chars]
    BY <1>6 DEF Network!PowerOff
  <2> QED BY <1>2, <1>3, <1>4, <2>1
<1> QED BY <1>5, <1>6

(* Nothing new is read but what was told, name before password.            *)
LEMMA PairStaysTold ==
  ASSUME NetInv, \A p \in NetPages : Reread(p), told' = told
  PROVE  PairTold'
<1> DEFINE s == Read(flash'["ssid"])
           w == Read(flash'["passwd"])
<1>1. R("ssid")' = s /\ R("passwd")' = w
  BY DEF R
<1>2. /\ \/ s \in {R("ssid"), << >>}
         \/ (job # << >> /\ Programs(job[1], "ssid") /\ s = saved["ssid"])
      /\ \/ w \in {R("passwd"), << >>}
         \/ (job # << >> /\ Programs(job[1], "passwd") /\ w = saved["passwd"])
  BY DEF Reread, NetPages
<1>3. /\ R("passwd") # << >> => \E j \in DOMAIN told : told[j][2] = R("passwd")
      /\ R("ssid") # << >> /\ R("passwd") # << >> => Told(R("ssid"), R("passwd"))
  BY DEF NetInv, PairTold
<1>4. /\ told \in Seq(Names \X Words) /\ Len(told) \in Nat /\ DOMAIN told = 1 .. Len(told)
      /\ told # << >> => Len(told) \in DOMAIN told
      /\ job # << >> => 1 \in 1 .. Len(job)
  BY DEF NetInv, NetTyped
<1>5. ASSUME job # << >>, Programs(job[1], "ssid")
      PROVE  told # << >> /\ told[Len(told)][1] = saved["ssid"]
  BY <1>4, <1>5 DEF NetInv, WordsOwed, OwedWord, NetPages
<1>6. ASSUME job # << >>, Programs(job[1], "passwd")
      PROVE  /\ told # << >> /\ told[Len(told)][1] = saved["ssid"]
             /\ told[Len(told)][2] = saved["passwd"]
             /\ R("ssid") \in {<< >>, saved["ssid"]}
             /\ ~Programs(job[1], "ssid")
  BY <1>4, <1>6 DEF NetInv, WordsOwed, OwedWord, NetPages, NameIsFirst, Programs
<1> HIDE DEF s, w
<1>7. w # << >> => \E j \in DOMAIN told : told[j][2] = w
  <2>1. CASE w \in {R("passwd"), << >>}
    BY <1>3, <2>1
  <2>2. CASE job # << >> /\ Programs(job[1], "passwd") /\ w = saved["passwd"]
    BY <1>4, <1>6, <2>2
  <2> QED BY <1>2, <2>1, <2>2
<1>8. ASSUME s # << >>, w # << >> PROVE Told(s, w)
  <2>1. CASE job # << >> /\ Programs(job[1], "ssid") /\ s = saved["ssid"]
    <3>1. told # << >> /\ told[Len(told)][1] = s
      BY <1>5, <2>1
    <3>2. PICK j \in DOMAIN told : told[j][2] = w
      BY <1>7, <1>8
    <3>3. Len(told) \in DOMAIN told /\ j \in 1 .. Len(told)
      BY <1>4, <3>1
    <3> QED BY <3>1, <3>2, <3>3 DEF Told
  <2>2. CASE job # << >> /\ Programs(job[1], "passwd") /\ w = saved["passwd"]
    <3>1. /\ told # << >> /\ told[Len(told)][1] = saved["ssid"]
          /\ told[Len(told)][2] = w /\ s = saved["ssid"]
      BY <1>2, <1>6, <1>8, <2>2
    <3>2. Len(told) \in DOMAIN told /\ Len(told) \in 1 .. Len(told)
      BY <1>4, <3>1
    <3> QED BY <3>1, <3>2 DEF Told
  <2>3. CASE s = R("ssid") /\ w = R("passwd")
    BY <1>3, <1>8, <2>3
  <2> QED BY <1>2, <1>8, <2>1, <2>2, <2>3
<1> QED BY <1>1, <1>7, <1>8 DEF PairTold, Told

(* What is known of the reads alone.                                       *)
LEMMA RereadsAreKnown ==
  ASSUME NetTyped, \A p \in NetPages : Reread(p)
  PROVE  \A p \in NetPages : Read(flash'[p]) \in Known[p]
<1>1. \A p \in NetPages : R(p) \in Known[p] /\ saved[p] \in Known[p] /\ << >> \in Known[p]
  BY DEF NetTyped, Known, Names, Words, NetPages
<1> QED BY <1>1 DEF Reread

(* What PasswordNotNewer says of what is tried outlives everything.        *)
LEMMA UsedStays ==
  ASSUME Network!PasswordNotNewer, used' = used, told' = told
  PROVE  Network!PasswordNotNewer'
BY DEF Network!PasswordNotNewer

-----------------------------------------------------------------------------
(* The handler goes on.                                                    *)
LEMMA StepKeeps ==
  ASSUME Network!CredentialsAssumption, NetInv, Network!Step
  PROVE  NetInv'
<1>1. /\ job # << >> /\ job' = Tail(job)
      /\ flash' = [flash EXCEPT ![Head(job).page] =
                     Network!Performed(flash[Head(job).page], Head(job))]
      /\ UNCHANGED <<pSSID, pPASSWD, mode, opening, used, told, urls, saved, cuts>>
  BY DEF Network!Step
<1>2. NetTyped /\ WordsOwed /\ NameIsFirst
  BY DEF NetInv
<1>3. DOMAIN flash' = Network!Pages /\ \A p \in NetPages : Reread(p)
  BY <1>2, StepRereads
<1>4. /\ job \in Seq(Ops) /\ Head(job) = job[1] /\ Len(job) \in Nat /\ Len(job) > 0
      /\ 1 \in 1 .. Len(job)
      /\ job' \in Seq(Ops) /\ Len(job') = Len(job) - 1
      /\ \A k \in 1 .. Len(job') : k + 1 \in 1 .. Len(job) /\ job'[k] = job[k + 1]
  BY <1>1, <1>2 DEF NetTyped
<1>5. NetTyped'
  <2>1. \A p \in NetPages : Read(flash'[p]) \in Known[p]
    BY <1>2, <1>3, RereadsAreKnown
  <2>2. \A p \in NetPages : flash'[p] \in [1 .. MaxName -> Chars]
    BY <1>3 DEF Reread
  <2> QED BY <1>1, <1>2, <1>3, <1>4, <2>1, <2>2 DEF NetTyped, R
<1>6. ASSUME NEW p \in NetPages
      PROVE  IF p = job[1].page
             THEN flash'[p] = Network!Performed(flash[p], job[1])
             ELSE flash'[p] = flash[p]
  <2>1. p \in Network!Pages /\ DOMAIN flash = Network!Pages
    BY <1>2 DEF NetTyped, NetPages, Network!Pages
  <2> QED BY <1>1, <1>4, <2>1
<1>7. WordsOwed'
  <2> SUFFICES ASSUME NEW k \in 1 .. Len(job'), NEW p \in NetPages, Programs(job'[k], p)
               PROVE  OwedWord(k, p)'
    BY DEF WordsOwed, Programs
  <2>1. k + 1 \in 1 .. Len(job) /\ job'[k] = job[k + 1] /\ Programs(job[k + 1], p) /\ k \in Nat
    BY <1>4
  <2>2. OwedWord(k + 1, p)
    BY <1>2, <2>1 DEF WordsOwed
  <2>3. /\ Len(saved[p]) <= MaxName /\ job[k + 1].text = saved[p]
        /\ told # << >> /\ told[Len(told)][1] = saved["ssid"]
        /\ p = "passwd" => told[Len(told)][2] = saved["passwd"]
        /\ job[k].page = p
    <3>1. k + 1 # 1 /\ (k + 1) - 1 = k
      BY <2>1
    <3> QED BY <2>2, <3>1 DEF OwedWord
  <2>4. CASE k = 1
    <3>1. p = job[1].page /\ flash'[p] = Network!Performed(flash[p], job[1])
      BY <1>6, <2>3, <2>4
    <3>2. Mixed(flash'[p], saved[p])
      BY <1>1, <1>2, <2>3, <3>1, Left
    <3> QED BY <1>1, <2>1, <2>3, <2>4, <3>2 DEF OwedWord
  <2>5. CASE k # 1
    <3>1. k - 1 \in 1 .. Len(job') /\ (k - 1) + 1 = k
      BY <1>4, <2>1, <2>5
    <3>2. job'[k - 1] = job[k]
      BY <1>4, <3>1
    <3> QED BY <1>1, <2>1, <2>3, <2>5, <3>2 DEF OwedWord
  <2> QED BY <2>4, <2>5
<1>8. NameIsFirst'
  <2> SUFFICES ASSUME NEW k \in 1 .. Len(job'), Programs(job'[k], "passwd")
               PROVE  R("ssid")' \in {<< >>, saved["ssid"]}
    BY <1>1 DEF NameIsFirst, Programs
  <2>1. k + 1 \in 1 .. Len(job) /\ Programs(job[k + 1], "passwd")
    BY <1>4
  <2>2. \/ job[1].page = "ssid" /\ job[1].at = 0
        \/ R("ssid") \in {<< >>, saved["ssid"]}
    BY <1>2, <2>1 DEF NameIsFirst
  <2>3. CASE job[1].page = "ssid" /\ job[1].at = 0
    <3>1. flash'["ssid"] = Network!Performed(flash["ssid"], job[1])
      BY <1>6, <2>3 DEF NetPages
    <3>2. "ssid" \in NetPages
      BY DEF NetPages
    <3>3. Read(flash'["ssid"]) = << >>
      BY <1>1, <1>2, <2>3, <3>1, <3>2, Left
    <3> QED BY <3>3 DEF R
  <2>4. CASE R("ssid") \in {<< >>, saved["ssid"]}
    BY <1>3, <2>4 DEF Reread, R, NetPages
  <2> QED BY <2>2, <2>3, <2>4
<1>9. PairTold'
  BY <1>1, <1>3, PairStaysTold
<1>10. Network!PasswordNotNewer'
  BY <1>1, UsedStays DEF NetInv
<1> QED BY <1>5, <1>7, <1>8, <1>9, <1>10 DEF NetInv

(* The power fails.                                                        *)
LEMMA PowerOffKeeps ==
  ASSUME Network!CredentialsAssumption, NetInv, Network!PowerOff
  PROVE  NetInv'
<1>1. /\ job' = << >> /\ pSSID' = << >> /\ pPASSWD' = << >>
      /\ mode' = "idle" /\ opening' = FALSE /\ used' = used /\ told' = told
  BY DEF Network!PowerOff
<1>2. NetTyped /\ WordsOwed
  BY DEF NetInv
<1>3. DOMAIN flash' = Network!Pages /\ \A p \in NetPages : Reread(p)
  BY <1>2, StepRereads
<1>4. \A p \in NetPages : Read(flash'[p]) \in Known[p]
  BY <1>2, <1>3, RereadsAreKnown
<1>5. /\ Network!FlashRead("ssid")' = Read(flash'["ssid"])
      /\ Network!FlashRead("passwd")' = Read(flash'["passwd"])
  BY DEF Network!FlashRead, Network!Text, Network!Contains, Network!Min, Read
<1>6. \/ saved' = saved
      \/ saved' = [ssid |-> Read(flash'["ssid"]), passwd |-> Read(flash'["passwd"])]
  <2>1. \/ saved' = saved
        \/ saved' = [ssid |-> Network!FlashRead("ssid")',
                     passwd |-> Network!FlashRead("passwd")']
    BY Zenon DEF Network!PowerOff
  <2> QED BY <1>5, <2>1
<1>7. \A p \in NetPages : saved'[p] \in Known[p]
  <2>1. CASE saved' = saved
    BY <1>2, <2>1 DEF NetTyped
  <2>2. CASE saved' = [ssid |-> Read(flash'["ssid"]), passwd |-> Read(flash'["passwd"])]
    BY <1>4, <2>2 DEF NetPages
  <2> QED BY <1>6, <2>1, <2>2
<1>8. NetTyped'
  <2>1. job' \in Seq(Ops) /\ pSSID' \in Names /\ pPASSWD' \in Words
    BY <1>1 DEF Names, Words
  <2>2. \A p \in NetPages : flash'[p] \in [1 .. MaxName -> Chars]
    BY <1>3 DEF Reread
  <2> QED BY <1>1, <1>2, <1>3, <1>4, <1>7, <2>1, <2>2 DEF NetTyped, R
<1>9. WordsOwed' /\ NameIsFirst'
  BY <1>1 DEF WordsOwed, NameIsFirst
<1>10. PairTold'
  BY <1>1, <1>3, PairStaysTold
<1>11. Network!PasswordNotNewer'
  BY <1>1, UsedStays DEF NetInv
<1> QED BY <1>8, <1>9, <1>10, <1>11 DEF NetInv

(* Nothing is written of the network: the pages and what is read of them   *)
(* stay.                                                                   *)
LEMMA NothingWritten ==
  ASSUME NetInv, flash' = flash, told' = told, job' \in Seq(Ops),
         \A k \in 1 .. Len(job') : \A p \in NetPages : ~Programs(job'[k], p),
         pSSID' \in Names, pPASSWD' \in Words, \A p \in NetPages : saved'[p] \in Known[p],
         DOMAIN used' = DOMAIN used,
         mode' \in {"idle", "pairing", "joining", "joined"}, opening' \in BOOLEAN
  PROVE  NetTyped' /\ WordsOwed' /\ NameIsFirst' /\ PairTold'
<1>1. NetTyped'
  BY DEF NetInv, NetTyped, R
<1>2. WordsOwed'
  BY DEF WordsOwed, Programs
<1>3. NameIsFirst'
  BY DEF NameIsFirst, NetPages, Programs
<1>4. PairTold'
  BY DEF NetInv, PairTold, Told, R
<1> QED BY <1>1, <1>2, <1>3, <1>4

(* The actions that wait until nothing is owed and write nothing.          *)
LEMMA QuietKeeps ==
  ASSUME NetInv, UNCHANGED <<flash, job, told, saved>>, job = << >>,
         pSSID' \in Names, pPASSWD' \in Words, DOMAIN used' = DOMAIN used,
         mode' \in {"idle", "pairing", "joining", "joined"}, opening' \in BOOLEAN,
         Network!PasswordNotNewer'
  PROVE  NetInv'
<1>1. /\ job' \in Seq(Ops)
      /\ \A k \in 1 .. Len(job') : \A p \in NetPages : ~Programs(job'[k], p)
      /\ \A p \in NetPages : saved'[p] \in Known[p]
  BY DEF NetInv, NetTyped
<1> QED BY <1>1, NothingWritten DEF NetInv

(* The pages of the server's address are none of the network's.            *)
LEMMA ServerIsApart ==
  ASSUME Network!CredentialsAssumption, NEW t \in Urls \cup {Default}
  PROVE  /\ Network!FlashWriteServer(t) \in Seq(Ops)
         /\ \A k \in 1 .. Len(Network!FlashWriteServer(t)) :
              \A p \in NetPages : ~Programs(Network!FlashWriteServer(t)[k], p)
<1> DEFINE W == Network!Erase("server") \o Network!Program("server", t)
<1>1. "server" \in Network!Pages /\ "server" \notin NetPages
  BY DEF Network!Pages, NetPages
<1>2. Write(W, "server", t)
  BY <1>1, WritesOfPage
<1>3. W \in Seq(Ops) /\ \A k \in 1 .. Len(W) : \A p \in NetPages : ~Programs(W[k], p)
  BY <1>1, <1>2 DEF Write, Programs
<1>4. Network!FlashWriteServer(t) = W \/ Network!FlashWriteServer(t) = << >>
  BY DEF Network!FlashWriteServer
<1> HIDE DEF W
<1>5. CASE Network!FlashWriteServer(t) = W
  BY <1>3, <1>5
<1>6. CASE Network!FlashWriteServer(t) = << >>
  BY <1>6
<1> QED BY <1>4, <1>5, <1>6

(* The server's address is written.                                        *)
LEMMA ServerKeeps ==
  ASSUME Network!CredentialsAssumption, NetInv,
         Network!TryServer \/ \E url \in Urls : Network!ServerUpdate(url)
  PROVE  NetInv'
<1>1. UNCHANGED <<flash, pSSID, pPASSWD, mode, told, saved>>
  BY DEF Network!TryServer, Network!ServerUpdate
<1>2. job = << >>
  BY DEF Network!TryServer, Network!ServerUpdate, Network!Ready
<1>3. \/ job' = << >>
      \/ \E t \in Urls \cup {Default} : job' = Network!FlashWriteServer(t)
  BY <1>2 DEF Network!TryServer, Network!ServerUpdate
<1>4. /\ job' \in Seq(Ops)
      /\ \A k \in 1 .. Len(job') : \A p \in NetPages : ~Programs(job'[k], p)
  <2>1. CASE job' = << >>
    BY <2>1
  <2>2. CASE \E t \in Urls \cup {Default} : job' = Network!FlashWriteServer(t)
    BY <2>2, ServerIsApart
  <2> QED BY <1>3, <2>1, <2>2
<1>5. /\ DOMAIN used' = DOMAIN used /\ opening' \in BOOLEAN
      /\ used'["ssid"] = used["ssid"] /\ used'["passwd"] = used["passwd"]
  BY DEF NetInv, NetTyped, Network!TryServer, Network!ServerUpdate
<1>6. NetTyped' /\ WordsOwed' /\ NameIsFirst' /\ PairTold'
  BY <1>1, <1>4, <1>5, NothingWritten DEF NetInv, NetTyped
<1>7. Network!PasswordNotNewer'
  BY <1>1, <1>5 DEF NetInv, Network!PasswordNotNewer
<1> QED BY <1>6, <1>7 DEF NetInv

(* What is known of the network is erased.                                 *)
LEMMA KeyLongKeeps ==
  ASSUME Network!CredentialsAssumption, NetInv, Network!KeyLong
  PROVE  NetInv'
<1>1. /\ job' = Network!Erase("ssid") \o Network!Erase("passwd")
      /\ saved' = [ssid |-> << >>, passwd |-> << >>] /\ mode' = "pairing"
      /\ UNCHANGED <<flash, pSSID, pPASSWD, opening, used, told>>
  BY DEF Network!KeyLong
<1>2. /\ Write(Network!Erase("ssid"), "ssid", << >>) /\ Len(Network!Erase("ssid")) = 1
      /\ Write(Network!Erase("passwd"), "passwd", << >>) /\ Len(Network!Erase("passwd")) = 1
      /\ Network!Erase("ssid")[1].at = 0 /\ Network!Erase("passwd")[1].at = 0
  BY ErasesAreWrites DEF Network!Pages
<1>3. /\ job' \in Seq(Ops) /\ Len(job') = 2
      /\ job'[1] = Network!Erase("ssid")[1] /\ job'[2] = Network!Erase("passwd")[1]
  BY <1>1, <1>2, ConcatProperties DEF Write
<1>4. \A k \in 1 .. Len(job') : \A p \in NetPages : ~Programs(job'[k], p)
  BY <1>2, <1>3 DEF Programs
<1>5. \A p \in NetPages : saved'[p] \in Known[p]
  BY <1>1 DEF NetPages, Known, Names, Words
<1>6. NetTyped' /\ WordsOwed' /\ NameIsFirst' /\ PairTold'
  BY <1>1, <1>3, <1>4, <1>5, NothingWritten DEF NetInv, NetTyped
<1> QED BY <1>1, <1>6, UsedStays DEF NetInv

(* What was told stays told when more is.                                  *)
LEMMA ToldStays ==
  ASSUME told \in Seq(Names \X Words), NEW n \in Names \X Words, told' = Append(told, n)
  PROVE  /\ told' \in Seq(Names \X Words) /\ told' # << >> /\ told'[Len(told')] = n
         /\ \A i \in DOMAIN told : i \in DOMAIN told' /\ told'[i] = told[i]
         /\ \A s, w : Told(s, w) => Told(s, w)'
<1>1. /\ Len(told) \in Nat /\ DOMAIN told = 1 .. Len(told)
      /\ told' \in Seq(Names \X Words) /\ Len(told') = Len(told) + 1
      /\ DOMAIN told' = 1 .. Len(told') /\ told'[Len(told')] = n
      /\ \A i \in 1 .. Len(told) : told'[i] = told[i]
  BY AppendProperties
<1>2. \A i \in DOMAIN told : i \in DOMAIN told' /\ told'[i] = told[i]
  BY <1>1
<1>3. \A i \in DOMAIN told : \A j \in 1 .. i : j \in DOMAIN told
  BY <1>1
<1>4. \A s, w : Told(s, w) => Told(s, w)'
  BY <1>2, <1>3 DEF Told
<1>5. told' # << >>
  BY <1>1
<1> QED BY <1>1, <1>2, <1>4, <1>5

(* The handler of a pairing erases and writes the name and then, if it     *)
(* fits, the password.                                                     *)
LEMMA PairIsWritten ==
  ASSUME Network!CredentialsAssumption, NEW s \in Names, NEW w \in Words, NEW J,
         J = Network!FlashWrite("ssid", s) \o Network!FlashWrite("passwd", w)
  PROVE  /\ J \in Seq(Ops) /\ J[1].page = "ssid" /\ J[1].at = 0
         /\ Owed(J, "ssid", s) /\ Owed(J, "passwd", w)
         /\ Len(w) <= MaxName \/ NoneOwed(J, "passwd")
<1> DEFINE V == Network!FlashWrite("ssid", s)
           W == Network!FlashWrite("passwd", w)
           p == "ssid"
           q == "passwd"
<1>1. /\ "ssid" \in Network!Pages /\ Network!Size("ssid") = MaxName
      /\ "passwd" \in Network!Pages /\ Network!Size("passwd") = MaxName
      /\ Len(s) <= MaxName
  BY Strings DEF Network!Pages, Network!Size
<1>2. Write(V, "ssid", s) /\ Len(V) >= 1 /\ V[1].at = 0
  <2>1. V = Network!Erase("ssid") \o Network!Program("ssid", s)
    BY <1>1 DEF Network!FlashWrite
  <2> QED BY <1>1, <2>1, WritesOfPage
<1>3. Write(W, "passwd", w) /\ (Len(W) > 0 => Len(w) <= MaxName)
  <2>1. CASE Len(w) <= MaxName
    <3>1. W = Network!Erase("passwd") \o Network!Program("passwd", w)
      BY <1>1, <2>1 DEF Network!FlashWrite
    <3> QED BY <1>1, <2>1, <3>1, WritesOfPage
  <2>2. CASE ~(Len(w) <= MaxName)
    <3>1. W = << >>
      BY <1>1, <2>2 DEF Network!FlashWrite
    <3> HIDE DEF W
    <3> QED BY <3>1 DEF Write
  <2> QED BY <2>1, <2>2
<1>4. J = V \o W /\ p # q /\ Write(V, p, s) /\ Write(W, q, w)
  BY <1>2, <1>3
<1> HIDE DEF V, W, p, q
<1>5. 1 \in 1 .. Len(V) /\ Len(V) > 0 /\ V[1].page = p
  BY <1>2, <1>4 DEF Write
<1>6. /\ J \in Seq(Ops)
      /\ Len(V) > 0 => J[1] = V[1]
      /\ Owed(J, p, s) /\ Owed(J, q, w)
      /\ Len(W) = 0 => NoneOwed(J, q)
  <2>1. J \in Seq(Ops)
    BY <1>4, WritesInTurn
  <2>2. Len(V) > 0 => J[1] = V[1]
    BY <1>4, WritesInTurn
  <2>3. Owed(J, p, s)
    BY <1>4, WritesInTurn
  <2>4. Owed(J, q, w)
    BY <1>4, WritesInTurn
  <2>5. Len(W) = 0 => NoneOwed(J, q)
    BY <1>4, WritesInTurn
  <2> QED BY <2>1, <2>2, <2>3, <2>4, <2>5
<1>7. Len(W) \in Nat
  BY <1>4 DEF Write
<1>8. J[1].page = p /\ J[1].at = 0
  BY <1>2, <1>5, <1>6
<1>9. Len(w) <= MaxName \/ NoneOwed(J, q)
  BY <1>3, <1>6, <1>7
<1> QED BY <1>6, <1>8, <1>9 DEF p, q

(* What a pairing brought is written, the name first.                      *)
LEMMA PairingSuccessKeeps ==
  ASSUME Network!CredentialsAssumption, NetInv, Network!PairingSuccess
  PROVE  NetInv'
<1>1. /\ job' = Network!FlashWrite("ssid", pSSID) \o Network!FlashWrite("passwd", pPASSWD)
      /\ told' = Append(told, <<pSSID, pPASSWD>>)
      /\ saved' = [ssid |-> pSSID,
                   passwd |-> IF Len(pPASSWD) <= MaxName THEN pPASSWD ELSE saved.passwd]
      /\ pSSID' = << >> /\ pPASSWD' = << >> /\ mode' = "idle"
      /\ UNCHANGED <<flash, opening, used>>
  BY DEF Network!PairingSuccess
<1>2. NetTyped /\ PairTold /\ Network!PasswordNotNewer /\ pSSID \in Names /\ pPASSWD \in Words
  BY DEF NetInv, NetTyped
<1>3. Len(pSSID) <= MaxName
  BY <1>2, Strings
<1>6. /\ job' \in Seq(Ops) /\ job'[1].page = "ssid" /\ job'[1].at = 0
      /\ Owed(job', "ssid", pSSID) /\ Owed(job', "passwd", pPASSWD)
      /\ Len(pPASSWD) <= MaxName \/ NoneOwed(job', "passwd")
  BY <1>1, <1>2, PairIsWritten
<1>7. /\ told' \in Seq(Names \X Words) /\ told' # << >>
      /\ told'[Len(told')] = <<pSSID, pPASSWD>>
      /\ \A i \in DOMAIN told : i \in DOMAIN told' /\ told'[i] = told[i]
      /\ \A s, w : Told(s, w) => Told(s, w)'
  <2>1. <<pSSID, pPASSWD>> \in Names \X Words /\ told \in Seq(Names \X Words)
    BY <1>2 DEF NetTyped
  <2> QED BY <1>1, <2>1, ToldStays
<1>8. NetTyped'
  <2>1. \A p \in NetPages : saved'[p] \in Known[p]
    BY <1>1, <1>2 DEF NetTyped, NetPages, Known
  <2>2. pSSID' \in Names /\ pPASSWD' \in Words
    BY <1>1 DEF Names, Words
  <2> QED BY <1>1, <1>2, <1>6, <1>7, <2>1, <2>2 DEF NetTyped, R
<1>9. WordsOwed'
  <2> SUFFICES ASSUME NEW k \in 1 .. Len(job'), NEW p \in NetPages, Programs(job'[k], p)
               PROVE  OwedWord(k, p)'
    BY DEF WordsOwed, Programs
  <2>1. told'[Len(told')][1] = pSSID /\ told'[Len(told')][2] = pPASSWD
    BY <1>7
  <2>2. CASE p = "ssid"
    <3>1. job'[k].text = pSSID /\ k # 1 /\ job'[k - 1].page = "ssid"
      BY <1>6, <2>2 DEF Owed
    <3>2. saved'["ssid"] = pSSID
      BY <1>1
    <3> QED BY <1>3, <1>7, <2>1, <2>2, <3>1, <3>2 DEF OwedWord
  <2>3. CASE p = "passwd"
    <3>1. job'[k].text = pPASSWD /\ k # 1 /\ job'[k - 1].page = "passwd" /\ Len(pPASSWD) <= MaxName
      BY <1>6, <2>3 DEF Owed, NoneOwed
    <3>2. saved'["ssid"] = pSSID /\ saved'["passwd"] = pPASSWD /\ Len(pPASSWD) <= MaxName
      BY <1>1, <3>1
    <3> QED BY <1>7, <2>1, <2>3, <3>1, <3>2 DEF OwedWord
  <2> QED BY <2>2, <2>3 DEF NetPages
<1>10. NameIsFirst'
  BY <1>6 DEF NameIsFirst
<1>11. PairTold'
  <2> DEFINE s == R("ssid")
             w == R("passwd")
  <2>1. R("ssid")' = s /\ R("passwd")' = w
    BY <1>1 DEF R
  <2>2. /\ w # << >> => \E j \in DOMAIN told : told[j][2] = w
        /\ s # << >> /\ w # << >> => Told(s, w)
    BY <1>2 DEF PairTold
  <2> HIDE DEF s, w
  <2>3. w # << >> => \E j \in DOMAIN told' : told'[j][2] = w
    BY <1>7, <2>2
  <2>4. s # << >> /\ w # << >> =>
          \E i \in DOMAIN told' : \E j \in 1 .. i : told'[i][1] = s /\ told'[j][2] = w
    BY <1>7, <2>2 DEF Told
  <2> QED BY <2>1, <2>3, <2>4 DEF PairTold, Told
<1>12. Network!PasswordNotNewer'
  <2>1. Network!PasswordNotNewer =
          (used.ssid \in Ssids /\ used.passwd # << >> => Told(used.ssid, used.passwd))
    BY DEF Network!PasswordNotNewer, Told
  <2>2. used.ssid \in Ssids /\ used.passwd # << >> => Told(used.ssid, used.passwd)'
    <3> DEFINE s == used.ssid
               w == used.passwd
    <3>1. s \in Ssids /\ w # << >> => Told(s, w)
      BY <1>2, <2>1
    <3>2. s' = s /\ w' = w
      BY <1>1
    <3> HIDE DEF s, w
    <3>3. s \in Ssids /\ w # << >> =>
            \E i \in DOMAIN told' : \E j \in 1 .. i : told'[i][1] = s /\ told'[j][2] = w
      BY <1>7, <3>1 DEF Told
    <3> QED BY <3>2, <3>3 DEF s, w, Told
  <2> QED BY <1>1, <2>2 DEF Network!PasswordNotNewer, Told
<1> QED BY <1>8, <1>9, <1>10, <1>11, <1>12 DEF NetInv

(* The network is tried: what is read was told, but for a name that runs   *)
(* on behind its buffer, which is no name that was told.                   *)
LEMMA StartWiFiConnKeeps ==
  ASSUME Network!CredentialsAssumption, NetInv, Network!StartWiFiConn
  PROVE  NetInv'
<1>1. /\ job = << >> /\ UNCHANGED <<flash, job, pSSID, pPASSWD, opening, told, saved>>
      /\ mode' \in {"pairing", "joining"}
      /\ \/ used' = used
         \/ \E s \in Network!Overread(R("ssid")) :
              used' = [used EXCEPT !.ssid = s, !.passwd = R("passwd")]
      /\ used' = used \/ R("ssid") # << >>
  BY ReadPage, Zenon DEF Network!StartWiFiConn, Network!Ready, R
<1>2. NetTyped /\ PairTold /\ Network!PasswordNotNewer
  BY DEF NetInv
<1>3. CASE used' = used
  <2>1. Network!PasswordNotNewer'
    BY <1>1, <1>2, <1>3, UsedStays
  <2> QED BY <1>1, <1>2, <1>3, <2>1, QuietKeeps DEF NetTyped
<1>4. ASSUME R("ssid") # << >>, NEW s \in Network!Overread(R("ssid")),
             used' = [used EXCEPT !.ssid = s, !.passwd = R("passwd")]
      PROVE  NetInv'
  <2>1. used'.ssid = s /\ used'.passwd = R("passwd") /\ DOMAIN used' = DOMAIN used
    BY <1>2, <1>4 DEF NetTyped
  <2>2. s \in Ssids => s = R("ssid")
    <3>1. R("ssid") \in Names /\ \A t \in Names : Ended(t) /\ Len(t) <= MaxName
      BY <1>2, Strings DEF NetTyped, Known, NetPages
    <3>2. CASE s = Append(R("ssid"), FF) /\ Len(R("ssid")) = MaxName
      <4>1. Len(s) = MaxName + 1
        BY <3>1, <3>2 DEF Ended
      <4>2. s \notin Names
        BY <3>1, <4>1, Strings
      <4> QED BY <4>2 DEF Names
    <3> QED BY <1>4, <3>2 DEF Network!Overread
  <2>3. Network!PasswordNotNewer'
    <3> SUFFICES ASSUME s \in Ssids, R("passwd") # << >>
                 PROVE  Told(s, R("passwd"))
      BY <1>1, <2>1 DEF Network!PasswordNotNewer, Told
    <3> QED BY <1>2, <1>4, <2>2 DEF PairTold
  <2>4. /\ pSSID' \in Names /\ pPASSWD' \in Words /\ opening' \in BOOLEAN
        /\ mode' \in {"idle", "pairing", "joining", "joined"}
    BY <1>1, <1>2 DEF NetTyped
  <2> QED BY <1>1, <2>1, <2>3, <2>4, QuietKeeps
<1> QED BY <1>1, <1>3, <1>4

LEMMA NextKeeps ==
  ASSUME Network!CredentialsAssumption, NetInv, [Network!Next]_(Network!vars)
  PROVE  NetInv'
<1> USE DEF Network!Ready
<1>1. /\ pSSID \in Names /\ pPASSWD \in Words /\ Network!PasswordNotNewer
      /\ mode \in {"idle", "pairing", "joining", "joined"} /\ opening \in BOOLEAN
      /\ << >> \in Names /\ << >> \in Words
  BY DEF NetInv, NetTyped, Names, Words
<1>2. CASE Network!Step
  BY <1>2, StepKeeps
<1>3. CASE Network!PairingStart
  BY <1>1, <1>3, QuietKeeps, UsedStays DEF Network!PairingStart
<1>4. CASE Network!KeyLong
  BY <1>4, KeyLongKeeps
<1>5. ASSUME NEW ssid \in Ssids, Network!UpdateSSID(ssid) PROVE NetInv'
  <2>1. ssid \in Names
    BY DEF Names
  <2> QED BY <1>1, <1>5, <2>1, QuietKeeps, UsedStays DEF Network!UpdateSSID
<1>6. ASSUME NEW passwd \in Passwds, Network!UpdatePASSWD(passwd) PROVE NetInv'
  <2>1. passwd \in Words
    BY DEF Words
  <2> QED BY <1>1, <1>6, <2>1, QuietKeeps, UsedStays DEF Network!UpdatePASSWD
<1>7. CASE Network!PairingSuccess
  BY <1>7, PairingSuccessKeeps
<1>8. CASE Network!PairingFailure
  BY <1>1, <1>8, QuietKeeps, UsedStays DEF Network!PairingFailure
<1>9. CASE Network!StartWiFiConn
  BY <1>9, StartWiFiConnKeeps
<1>10. CASE Network!WiFiConnected
  BY <1>1, <1>10, QuietKeeps, UsedStays DEF Network!WiFiConnected
<1>11. CASE Network!WiFiDisconnected
  BY <1>1, <1>11, QuietKeeps, UsedStays DEF Network!WiFiDisconnected
<1>12. CASE Network!OpenWebSocket
  BY <1>1, <1>12, QuietKeeps, UsedStays DEF Network!OpenWebSocket
<1>13. CASE Network!TryServer
  BY <1>13, ServerKeeps
<1>14. ASSUME NEW url \in Urls, Network!ServerUpdate(url) PROVE NetInv'
  BY <1>14, ServerKeeps
<1>15. CASE Network!PowerOff
  BY <1>15, PowerOffKeeps
<1>16. CASE UNCHANGED Network!vars
  BY <1>16 DEF Network!vars, NetInv, NetTyped, WordsOwed, OwedWord, NameIsFirst, PairTold, Told,
     R, Network!PasswordNotNewer
<1> QED
  BY <1>2, <1>3, <1>4, <1>5, <1>6, <1>7, <1>8, <1>9, <1>10, <1>11, <1>12, <1>13, <1>14,
     <1>15, <1>16, Zenon DEF Network!Next

LEMMA InitIsKnown ==
  ASSUME Network!CredentialsAssumption, Network!Init
  PROVE  NetInv
<1>1. /\ flash = [page \in Network!Pages |-> [i \in 1 .. Network!Size(page) |-> FF]]
      /\ job = << >> /\ pSSID = << >> /\ pPASSWD = << >>
      /\ mode = "idle" /\ opening = FALSE
      /\ used = [ssid |-> << >>, passwd |-> << >>, server |-> << >>]
      /\ told = << >> /\ saved = [ssid |-> << >>, passwd |-> << >>]
  BY Zenon DEF Network!Init
<1>2. MaxName \in Nat /\ NUL # FF /\ FF \in Chars
  BY Strings DEF Chars
<1>3. ASSUME NEW p \in NetPages
      PROVE  /\ flash[p] \in [1 .. MaxName -> Chars]
             /\ \A i \in 1 .. MaxName : flash[p][i] = FF
  <2>1. p \in Network!Pages /\ Network!Size(p) = MaxName
    BY DEF NetPages, Network!Pages, Network!Size
  <2>2. flash[p] = [i \in 1 .. MaxName |-> FF]
    BY <1>1, <2>1
  <2> QED BY <1>2, <2>2
<1>4. \A p \in NetPages : R(p) = << >>
  BY <1>2, <1>3, ReadBlank DEF R
<1>5. << >> \in Names /\ << >> \in Words /\ \A p \in NetPages : << >> \in Known[p]
  BY DEF Names, Words, Known, NetPages
<1>6. NetTyped
  <2>1. DOMAIN flash = Network!Pages /\ \A p \in NetPages : saved[p] = << >>
    BY <1>1 DEF NetPages
  <2>2. job \in Seq(Ops) /\ told \in Seq(Names \X Words)
    BY <1>1
  <2> QED BY <1>1, <1>3, <1>4, <1>5, <2>1, <2>2 DEF NetTyped
<1>7. WordsOwed /\ NameIsFirst
  BY <1>1 DEF WordsOwed, NameIsFirst
<1>8. PairTold
  BY <1>4 DEF PairTold, NetPages
<1>9. Network!PasswordNotNewer
  BY <1>1 DEF Network!PasswordNotNewer
<1> QED BY <1>6, <1>7, <1>8, <1>9 DEF NetInv

LEMMA NetworkInv == ASSUME Network!CredentialsAssumption PROVE Network!Spec => []NetInv
<1>1. Network!Init => NetInv
  BY InitIsKnown
<1>2. NetInv /\ [Network!Next]_(Network!vars) => NetInv'
  BY NextKeeps
<1> QED BY <1>1, <1>2, PTL DEF Network!Spec

(* Whenever the power fails, in whatever step, what is read back of a name *)
(* or a password is one that was told, whole, or nothing.                  *)
THEOREM TextsStayWhole ==
  ASSUME Network!CredentialsAssumption
  PROVE  Network!Spec => []Network!TypeOK
<1>1. NetInv => Network!TypeOK
  <2> SUFFICES ASSUME NetInv PROVE Network!TypeOK
    OBVIOUS
  <2>1. /\ mode \in {"idle", "pairing", "joining", "joined"} /\ opening \in BOOLEAN
        /\ R("ssid") \in Names /\ R("passwd") \in Words
    BY DEF NetInv, NetTyped, NetPages, Known
  <2>2. Network!FlashRead("ssid") = R("ssid") /\ Network!FlashRead("passwd") = R("passwd")
    BY ReadPage DEF R
  <2>3. Network!Texts("ssid") = Ssids /\ Network!Texts("passwd") = Passwds
    BY DEF Network!Texts
  <2> QED BY <2>1, <2>2, <2>3 DEF Network!TypeOK, Names, Words
<1> QED BY <1>1, NetworkInv, PTL

(* A step, or a loss of power within one, leaves what was read, or what    *)
(* the handler writes, or nothing.                                         *)
THEOREM WritesAreWhole ==
  ASSUME Network!CredentialsAssumption
  PROVE  Network!Spec => Network!OldNewOrNothing
<1>1. NetInv /\ [Network!Next]_(Network!vars) =>
        [\A page \in {"ssid", "passwd"} :
           Network!FlashRead(page)' # Network!FlashRead(page) =>
             \/ Network!FlashRead(page)' = << >>
             \/ job # << >> /\ Network!FlashRead(page)' = saved[page]]_(Network!vars)
  <2> SUFFICES ASSUME NetInv, Network!Next, NEW page \in {"ssid", "passwd"}
               PROVE  Network!FlashRead(page)' # Network!FlashRead(page) =>
                        \/ Network!FlashRead(page)' = << >>
                        \/ job # << >> /\ Network!FlashRead(page)' = saved[page]
    OBVIOUS
  <2>1. Network!FlashRead(page) = R(page)
    BY ReadPage DEF R
  <2>2. Network!FlashRead(page)' = Read(flash'[page])
    BY DEF Network!FlashRead, Network!Text, Network!Contains, Network!Min, Read
  <2>3. CASE Network!Step \/ Network!PowerOff
    <3>1. Reread(page)
      BY <2>3, StepRereads DEF NetInv, NetPages
    <3> QED BY <2>1, <2>2, <3>1 DEF Reread
  <2>4. CASE flash' = flash
    BY <2>1, <2>2, <2>4 DEF R
  <2>5. Network!Step \/ Network!PowerOff \/ flash' = flash
    BY Zenon DEF Network!Next, Network!PairingStart, Network!KeyLong, Network!UpdateSSID,
       Network!UpdatePASSWD, Network!PairingSuccess, Network!PairingFailure,
       Network!StartWiFiConn, Network!WiFiConnected, Network!WiFiDisconnected,
       Network!OpenWebSocket, Network!TryServer, Network!ServerUpdate
  <2> QED BY <2>3, <2>4, <2>5
<1> QED BY <1>1, NetworkInv, PTL DEF Network!Spec, Network!OldNewOrNothing

(* No network is tried with a password that was told after its name.       *)
THEOREM NameComesFirst ==
  ASSUME Network!CredentialsAssumption
  PROVE  Network!Spec => []Network!PasswordNotNewer
<1>1. NetInv => Network!PasswordNotNewer
  BY DEF NetInv
<1> QED BY <1>1, NetworkInv, PTL

-----------------------------------------------------------------------------
(* Between handlers the pages hold what was saved: nothing that a handler  *)
(* owes is left undone, and no erasure comes after what it would undo.     *)

(* A page is made of whole words.                                          *)
LEMMA WholeWords ==
  ASSUME NEW N \in Nat, NEW W \in Nat \ {0}, N % W = 0, NEW i \in 1 .. N
  PROVE  (i - 1) \div W + 1 \in 1 .. N \div W
<1> DEFINE q == N \div W
           d == (i - 1) \div W
<1>1. q \in Nat /\ N = W * q
  BY Z3
<1>2. d \in Nat /\ i - 1 = W * d + ((i - 1) % W) /\ (i - 1) % W \in 0 .. W - 1
  BY Z3
<1> HIDE DEF q, d
<1>3. CASE d < q
  BY <1>1, <1>2, <1>3 DEF q, d
<1>4. CASE d >= q
  <2>1. d - q \in Nat /\ W * d = W * q + W * (d - q)
    BY <1>1, <1>2, <1>4
  <2>2. W * (d - q) >= 0
    BY <2>1
  <2> QED BY <1>1, <1>2, <2>1, <2>2
<1> QED BY <1>1, <1>2, <1>3, <1>4

LEMMA WordsOfPage ==
  ASSUME Network!CredentialsAssumption, NEW p \in NetPages, NEW i \in 1 .. MaxName
  PROVE  /\ Network!WordOf(i) \in Network!Words(p)
         /\ Network!WordOf(i) \in Nat \ {0}
<1>1. /\ MaxName \in Nat /\ WordChars \in Nat \ {0} /\ MaxName % WordChars = 0
      /\ Network!Size(p) = MaxName
  BY DEF Network!CredentialsAssumption, Network!Size, NetPages
<1>2. (i - 1) \div WordChars + 1 \in 1 .. MaxName \div WordChars
  BY <1>1, WholeWords
<1>3. MaxName \div WordChars \in Nat
  BY <1>1
<1> DEFINE w == (i - 1) \div WordChars + 1
<1>4. Network!WordOf(i) = w /\ Network!Words(p) = 1 .. MaxName \div WordChars
  BY <1>1 DEF Network!WordOf, Network!Words
<1> HIDE DEF w
<1>5. w \in 1 .. MaxName \div WordChars
  BY <1>2 DEF w
<1> QED BY <1>3, <1>4, <1>5

LEMMA QuotientIsNat ==
  ASSUME NEW a \in Nat, NEW b \in Nat \ {0}
  PROVE  a \div b \in Nat
OBVIOUS

(* No erasure comes after a step on its page.                              *)
ErasedFirst(J) ==
  \A k \in 1 .. Len(J) : J[k].at = 0 => \A j \in 1 .. k - 1 : J[j].page # J[k].page

NothingOf(J, p) == \A k \in 1 .. Len(J) : J[k].page # p
OnlyOf(J, P) == \A k \in 1 .. Len(J) : J[k].page \in P
EraseOf(J, p) == \E k \in 1 .. Len(J) : J[k].page = p /\ J[k].at = 0
WordOwed(J, p, w) == \E k \in 1 .. Len(J) : J[k].page = p /\ J[k].at = w
AllOwed(J, p) == \A w \in Network!Words(p) : WordOwed(J, p, w)

LEMMA WritesAreFull ==
  ASSUME Network!CredentialsAssumption, NEW p \in Network!Pages,
         NEW t \in Names \cup Words \cup Urls \cup {Default},
         NEW W, W = Network!Erase(p) \o Network!Program(p, t)
  PROVE  ErasedFirst(W) /\ EraseOf(W, p) /\ AllOwed(W, p)
<1> DEFINE E == Network!Erase(p)
           P == Network!Program(p, t)
           n == Network!Size(p) \div WordChars
<1>1. E \in Seq(Ops) /\ Len(E) = 1 /\ E[1].page = p /\ E[1].at = 0
  BY ErasesAreWrites DEF Write
<1>2. /\ P \in Seq(Ops)
      /\ \A k \in 1 .. Len(P) : P[k].page = p /\ P[k].at = k
  BY ProgramsOfPage
<1>3. Len(P) = n /\ n \in Nat /\ Network!Words(p) = 1 .. n
  <2>1. Network!Size(p) \in Nat /\ WordChars \in Nat \ {0}
    BY Strings DEF Network!Size
  <2>2. n \in Nat
    BY <2>1, QuotientIsNat
  <2>3. DOMAIN P = 1 .. n
    BY DEF Network!Program, Network!Words
  <2> QED BY <1>2, <2>2, <2>3, LenProperties DEF Network!Words
<1> HIDE DEF E, P, n
<1>4. /\ Len(W) = 1 + n /\ W[1] = E[1]
      /\ \A k \in 2 .. 1 + n : W[k] = P[k - 1]
  <2>1. /\ Len(E \o P) = Len(E) + Len(P)
        /\ \A k \in 1 .. Len(E) : (E \o P)[k] = E[k]
        /\ \A k \in Len(E) + 1 .. Len(E) + Len(P) : (E \o P)[k] = P[k - Len(E)]
    <3>1. E \in Seq(Ops) /\ P \in Seq(Ops)
      BY <1>1, <1>2
    <3> QED BY <3>1, ConcatProperties
  <2>2. W = E \o P
    BY DEF E, P
  <2> QED BY <1>1, <1>3, <2>1, <2>2
<1>5. \A k \in 1 .. Len(W) : W[k].page = p /\ W[k].at = k - 1
  <2> TAKE k \in 1 .. Len(W)
  <2>1. CASE k = 1
    BY <1>1, <1>4, <2>1
  <2>2. CASE k # 1
    <3>1. k - 1 \in 1 .. Len(P) /\ W[k] = P[k - 1]
      BY <1>3, <1>4, <2>2
    <3> QED BY <1>2, <3>1
  <2> QED BY <2>1, <2>2
<1>6. ErasedFirst(W)
  <2> SUFFICES ASSUME NEW k \in 1 .. Len(W), W[k].at = 0, NEW j \in 1 .. k - 1
               PROVE  FALSE
    BY DEF ErasedFirst
  <2>1. k - 1 = 0
    BY <1>5
  <2> QED BY <1>3, <1>4, <2>1
<1>7. EraseOf(W, p)
  <2>1. 1 \in 1 .. Len(W)
    BY <1>3, <1>4
  <2> QED BY <1>5, <2>1 DEF EraseOf
<1>8. AllOwed(W, p)
  <2> SUFFICES ASSUME NEW w \in 1 .. n PROVE WordOwed(W, p, w)
    BY <1>3 DEF AllOwed
  <2>1. w + 1 \in 1 .. Len(W) /\ (w + 1) - 1 = w
    BY <1>3, <1>4
  <2> QED BY <1>5, <2>1 DEF WordOwed
<1> QED BY <1>6, <1>7, <1>8

(* And so is one page after the other.                                     *)
LEMMA FullInTurn ==
  ASSUME NEW V, NEW W, NEW p, NEW q, p # q, NEW s, NEW t, Write(V, p, s), Write(W, q, t),
         ErasedFirst(V), ErasedFirst(W), NEW J, J = V \o W
  PROVE  /\ ErasedFirst(J) /\ OnlyOf(J, {p, q})
         /\ EraseOf(V, p) => EraseOf(J, p)
         /\ EraseOf(W, q) => EraseOf(J, q)
         /\ AllOwed(V, p) => AllOwed(J, p)
         /\ AllOwed(W, q) => AllOwed(J, q)
         /\ Len(W) = 0 => NothingOf(J, q)
<1>1. V \in Seq(Ops) /\ W \in Seq(Ops)
  BY DEF Write
<1>2. /\ Len(J) = Len(V) + Len(W) /\ Len(V) \in Nat /\ Len(W) \in Nat
      /\ \A k \in 1 .. Len(V) : J[k] = V[k]
      /\ \A k \in Len(V) + 1 .. Len(V) + Len(W) : J[k] = W[k - Len(V)]
  BY <1>1, ConcatProperties
<1>3. \A k \in 1 .. Len(V) : k \in 1 .. Len(J) /\ J[k] = V[k] /\ V[k].page = p
  BY <1>2 DEF Write
<1>4. \A k \in 1 .. Len(W) : /\ k + Len(V) \in 1 .. Len(J) /\ J[k + Len(V)] = W[k]
                             /\ W[k].page = q
  <2> TAKE k \in 1 .. Len(W)
  <2>1. k + Len(V) \in Len(V) + 1 .. Len(V) + Len(W) /\ (k + Len(V)) - Len(V) = k
    BY <1>2
  <2> QED BY <1>2, <2>1 DEF Write
<1>5. \A k \in 1 .. Len(J) : \/ k \in 1 .. Len(V)
                             \/ (k - Len(V) \in 1 .. Len(W) /\ k = (k - Len(V)) + Len(V))
  BY <1>2
<1>6. OnlyOf(J, {p, q})
  BY <1>3, <1>4, <1>5 DEF OnlyOf
<1>7. Len(W) = 0 => NothingOf(J, q)
  BY <1>3, <1>5 DEF NothingOf
<1>8. EraseOf(V, p) => EraseOf(J, p)
  BY <1>3 DEF EraseOf
<1>9. EraseOf(W, q) => EraseOf(J, q)
  BY <1>4 DEF EraseOf
<1>10. AllOwed(V, p) => AllOwed(J, p)
  BY <1>3 DEF AllOwed, WordOwed
<1>11. AllOwed(W, q) => AllOwed(J, q)
  BY <1>4 DEF AllOwed, WordOwed
<1>12. ErasedFirst(J)
  <2> SUFFICES ASSUME NEW k \in 1 .. Len(J), J[k].at = 0, NEW j \in 1 .. k - 1
               PROVE  J[j].page # J[k].page
    BY DEF ErasedFirst
  <2>1. j \in 1 .. Len(J) /\ k \in Nat /\ j \in Nat
    BY <1>2
  <2>2. CASE k \in 1 .. Len(V)
    <3>1. j \in 1 .. Len(V) /\ j \in 1 .. k - 1
      BY <1>2, <2>2
    <3> QED BY <1>3, <2>2, <3>1 DEF ErasedFirst
  <2>3. CASE k - Len(V) \in 1 .. Len(W) /\ j \in 1 .. Len(V)
    <3>1. J[k] = W[k - Len(V)] /\ W[k - Len(V)].page = q
      BY <1>4, <1>5, <2>3
    <3> QED BY <1>3, <2>3, <3>1
  <2>4. CASE k - Len(V) \in 1 .. Len(W) /\ j - Len(V) \in 1 .. Len(W)
    <3>1. /\ (k - Len(V)) + Len(V) = k /\ (j - Len(V)) + Len(V) = j
          /\ j - Len(V) \in 1 .. (k - Len(V)) - 1
      BY <1>2, <2>1, <2>4
    <3>2. J[k] = W[k - Len(V)] /\ J[j] = W[j - Len(V)]
      BY <1>4, <2>4, <3>1
    <3> QED BY <2>4, <3>1, <3>2 DEF ErasedFirst
  <2> QED BY <1>5, <2>1, <2>2, <2>3, <2>4
<1> QED BY <1>6, <1>7, <1>8, <1>9, <1>10, <1>11, <1>12

(* A page that holds all of a text is read as the text.                    *)
LEMMA ReadFilled ==
  ASSUME MaxName \in Nat, NUL # FF, NEW S, NEW chars \in [1 .. MaxName -> S],
         NEW t, Ended(t), Len(t) <= MaxName, FF \notin Network!Range(t),
         \A i \in 1 .. MaxName : chars[i] = Fill(t, i)
  PROVE  Read(chars) = t
<1>1. PICK e : EndsAt(chars, e)
  BY TextEnds
<1>2. /\ e \in 0 .. MaxName /\ \A i \in 1 .. e : chars[i] # NUL
      /\ e # MaxName => chars[e + 1] = NUL
  BY <1>1 DEF EndsAt
<1>3. /\ t \in Seq(Network!Range(t)) /\ Len(t) \in Nat /\ DOMAIN t = 1 .. Len(t)
      /\ \A i \in 1 .. Len(t) : t[i] # NUL /\ t[i] # FF
  BY DEF Ended, Network!Range
<1>4. \A i \in 1 .. e : chars[i] # FF
  BY <1>2, <1>3 DEF Fill
<1>5. Len(Read(chars)) = e
  <2>1. Read(chars) = SubSeq(chars, 1, e) /\ Len(SubSeq(chars, 1, e)) = e
    BY <1>1, <1>4, ReadText
  <2> QED BY <2>1, Zenon
<1>6. Read(chars) \in {<< >>, t}
  <2>1. Mixed(chars, t)
    BY DEF Mixed
  <2> QED BY <2>1, ReadMixed
<1>7. CASE Read(chars) = << >>
  <2>1. e = 0
    BY <1>5, <1>7
  <2>2. CASE MaxName = 0
    BY <1>3, <1>7, <2>2
  <2>3. CASE MaxName # 0
    <3>1. 1 \in 1 .. MaxName /\ chars[1] = NUL
      BY <1>2, <2>1, <2>3
    <3>2. Fill(t, 1) = NUL
      BY <3>1
    <3>3. Len(t) = 0
      BY <1>3, <3>2 DEF Fill
    <3> QED BY <1>3, <1>7, <3>3
  <2> QED BY <2>2, <2>3
<1> QED BY <1>6, <1>7

(* What is still owed when the first step is done.                         *)
LEMMA TailOwes ==
  ASSUME NEW J \in Seq(Ops), J # << >>, NEW T, T = Tail(J), ErasedFirst(J), NEW p
  PROVE  /\ ErasedFirst(T)
         /\ NothingOf(J, p) => NothingOf(T, p) /\ J[1].page # p
         /\ EraseOf(T, p) => EraseOf(J, p) /\ J[1].page # p
         /\ EraseOf(J, p) => EraseOf(T, p) \/ (J[1].page = p /\ J[1].at = 0)
         /\ \A w : WordOwed(J, p, w) =>
                     WordOwed(T, p, w) \/ (J[1].page = p /\ J[1].at = w)
<1>1. /\ Len(J) \in Nat /\ 1 \in 1 .. Len(J) /\ Len(T) = Len(J) - 1
      /\ \A k \in 1 .. Len(T) : k + 1 \in 1 .. Len(J) /\ T[k] = J[k + 1]
      /\ \A k \in 1 .. Len(J) : k = 1 \/ (k - 1 \in 1 .. Len(T) /\ T[k - 1] = J[k])
  OBVIOUS
<1>2. ErasedFirst(T)
  <2> SUFFICES ASSUME NEW k \in 1 .. Len(T), T[k].at = 0, NEW j \in 1 .. k - 1
               PROVE  T[j].page # T[k].page
    BY DEF ErasedFirst
  <2>1. /\ k + 1 \in 1 .. Len(J) /\ T[k] = J[k + 1] /\ j \in 1 .. Len(T)
        /\ j + 1 \in 1 .. (k + 1) - 1
    BY <1>1
  <2>2. T[j] = J[j + 1]
    BY <1>1, <2>1
  <2> QED BY <2>1, <2>2 DEF ErasedFirst
<1>3. NothingOf(J, p) => NothingOf(T, p) /\ J[1].page # p
  BY <1>1 DEF NothingOf
<1>4. EraseOf(T, p) => EraseOf(J, p) /\ J[1].page # p
  <2> SUFFICES ASSUME NEW k \in 1 .. Len(T), T[k].page = p, T[k].at = 0
               PROVE  EraseOf(J, p) /\ J[1].page # p
    BY DEF EraseOf
  <2>1. /\ k + 1 \in 1 .. Len(J) /\ J[k + 1].page = p /\ J[k + 1].at = 0
        /\ 1 \in 1 .. (k + 1) - 1
    BY <1>1
  <2> QED BY <2>1 DEF EraseOf, ErasedFirst
<1>5. EraseOf(J, p) => EraseOf(T, p) \/ (J[1].page = p /\ J[1].at = 0)
  BY <1>1 DEF EraseOf
<1>6. \A w : WordOwed(J, p, w) => WordOwed(T, p, w) \/ (J[1].page = p /\ J[1].at = w)
  BY <1>1 DEF WordOwed
<1> QED BY <1>2, <1>3, <1>4, <1>5, <1>6

-----------------------------------------------------------------------------
(* A byte of 0xFF is none of a text.                                       *)
PureTexts == \A text \in Ssids \cup Passwds : FF \notin Network!Range(text)

(* The page of a text that is to stay or to be written: all of it is there *)
(* or owed, and if its erasure is owed then all of it is owed.             *)
Whole(p) ==
  /\ Len(saved[p]) <= MaxName
  /\ \A i \in 1 .. MaxName :
       flash[p][i] = Fill(saved[p], i) \/ WordOwed(job, p, Network!WordOf(i))
  /\ EraseOf(job, p) => AllOwed(job, p)

Kept(p) ==
  \/ R(p) = saved[p] /\ NothingOf(job, p)
  \/ saved[p] = << >> /\ (R(p) = << >> \/ EraseOf(job, p))
  \/ Whole(p)

(* A handler writes the pages of the network or that of the server; only   *)
(* the latter's runs within OpenWebSocket.                                 *)
OnlyServer(J) == \A p \in NetPages : NothingOf(J, p)

KeepInv ==
  /\ saved = [ssid |-> saved["ssid"], passwd |-> saved["passwd"]]
  /\ ErasedFirst(job)
  /\ OnlyServer(job) \/ NothingOf(job, "server")
  /\ opening => OnlyServer(job)
  /\ \A p \in NetPages : Kept(p)

(* When nothing of a page is owed it holds what was saved.                 *)
LEMMA Settled ==
  ASSUME Network!CredentialsAssumption, PureTexts, NetInv,
         NEW p \in NetPages, Kept(p), NothingOf(job, p)
  PROVE  R(p) = saved[p]
<1>1. ~EraseOf(job, p) /\ \A w : ~WordOwed(job, p, w)
  BY DEF NothingOf, EraseOf, WordOwed
<1>2. CASE Whole(p)
  <2>1. /\ MaxName \in Nat /\ NUL # FF /\ \A t \in Names \cup Words : Ended(t)
        /\ flash[p] \in [1 .. MaxName -> Chars]
    BY Strings DEF NetInv, NetTyped
  <2>2. saved[p] \in Names \cup Words
    BY DEF NetInv, NetTyped, Known, NetPages
  <2>3. FF \notin Network!Range(saved[p])
    <3>1. CASE saved[p] = << >>
      BY <3>1 DEF Network!Range
    <3>2. CASE saved[p] \in Ssids \cup Passwds
      BY <3>2 DEF PureTexts
    <3> QED BY <2>2, <3>1, <3>2 DEF Names, Words
  <2>4. Len(saved[p]) <= MaxName /\ \A i \in 1 .. MaxName : flash[p][i] = Fill(saved[p], i)
    BY <1>1, <1>2 DEF Whole
  <2>5. Read(flash[p]) = saved[p]
    BY <2>1, <2>2, <2>3, <2>4, ReadFilled
  <2> QED BY <2>5 DEF R
<1> QED BY <1>1, <1>2 DEF Kept

(* The handler goes on.                                                    *)
LEMMA StepIsKept ==
  ASSUME Network!CredentialsAssumption, PureTexts, NetInv, KeepInv, Network!Step
  PROVE  KeepInv'
<1>1. /\ job # << >> /\ job' = Tail(job)
      /\ flash' = [flash EXCEPT ![Head(job).page] =
                     Network!Performed(flash[Head(job).page], Head(job))]
      /\ saved' = saved /\ opening' = opening
  BY DEF Network!Step
<1>2. NetTyped /\ WordsOwed /\ ErasedFirst(job) /\ job \in Seq(Ops)
  BY DEF NetInv, KeepInv, NetTyped
<1>3. \A p :
        /\ ErasedFirst(job')
        /\ NothingOf(job, p) => NothingOf(job', p) /\ job[1].page # p
        /\ EraseOf(job', p) => EraseOf(job, p) /\ job[1].page # p
        /\ EraseOf(job, p) => EraseOf(job', p) \/ (job[1].page = p /\ job[1].at = 0)
        /\ \A w : WordOwed(job, p, w) =>
                    WordOwed(job', p, w) \/ (job[1].page = p /\ job[1].at = w)
  BY <1>1, <1>2, TailOwes
<1>4. ASSUME NEW p \in NetPages
      PROVE  IF p = job[1].page
             THEN flash'[p] = Network!Performed(flash[p], job[1])
             ELSE flash'[p] = flash[p]
  <2>1. p \in Network!Pages /\ DOMAIN flash = Network!Pages
    BY <1>2 DEF NetTyped, NetPages, Network!Pages
  <2>2. Head(job) = job[1]
    BY <1>1, <1>2
  <2> QED BY <1>1, <2>1, <2>2
<1>5. ASSUME NEW p \in NetPages, job[1].page # p
      PROVE  Kept(p)'
  <2>1. R(p)' = R(p) /\ flash'[p] = flash[p]
    BY <1>4, <1>5 DEF R
  <2>2. /\ NothingOf(job, p) => NothingOf(job', p)
        /\ EraseOf(job', p) <=> EraseOf(job, p)
        /\ \A w : WordOwed(job, p, w) => WordOwed(job', p, w)
    BY <1>3, <1>5
  <2>3. AllOwed(job, p) => AllOwed(job', p)
    BY <2>2 DEF AllOwed
  <2>4. Whole(p) => Whole(p)'
    <3> SUFFICES ASSUME Whole(p) PROVE Whole(p)'
      OBVIOUS
    <3>1. /\ Len(saved'[p]) <= MaxName
          /\ \A i \in 1 .. MaxName : \/ flash'[p][i] = Fill(saved'[p], i)
                                     \/ WordOwed(job', p, Network!WordOf(i))
          /\ EraseOf(job', p) => AllOwed(job', p)
      BY <1>1, <2>1, <2>2, <2>3 DEF Whole
    <3> QED BY <3>1 DEF Whole, WordOwed, EraseOf, AllOwed, Fill, Network!WordOf, Network!Words,
               Network!Size
  <2>5. saved'[p] = saved[p] /\ Kept(p)
    BY <1>1 DEF KeepInv
  <2> QED BY <2>1, <2>2, <2>4, <2>5 DEF Kept, NothingOf, EraseOf
<1>6. ASSUME NEW p \in NetPages, job[1].page = p
      PROVE  Kept(p)'
  <2>1. Kept(p) /\ ~NothingOf(job, p) /\ ~EraseOf(job', p) /\ saved'[p] = saved[p]
    BY <1>1, <1>3, <1>6 DEF KeepInv
  <2>2. flash'[p] = Network!Performed(flash[p], job[1])
    BY <1>4, <1>6
  <2>3. Reread(p)
    BY <1>2, StepRereads
  <2>4. CASE saved[p] = << >> /\ (R(p) = << >> \/ EraseOf(job, p))
    <3>1. CASE job[1].at = 0
      <4>1. Read(flash'[p]) = << >>
        BY <1>1, <1>2, <1>6, <2>2, <3>1, Left
      <4> QED BY <2>1, <2>4, <4>1 DEF Kept, R
    <3>2. CASE job[1].at # 0
      <4>1. R(p) = << >>
        BY <1>3, <2>1, <2>4, <3>2
      <4>2. Read(flash'[p]) = << >>
        BY <2>3, <2>4, <4>1 DEF Reread
      <4> QED BY <2>1, <2>4, <4>2 DEF Kept, R
    <3> QED BY <3>1, <3>2
  <2>5. CASE Whole(p)
    <3>1. ASSUME NEW i \in 1 .. MaxName
          PROVE  \/ flash'[p][i] = Fill(saved[p], i)
                 \/ WordOwed(job', p, Network!WordOf(i))
      <4>1. Network!WordOf(i) \in Network!Words(p) /\ Network!WordOf(i) # 0
        BY WordsOfPage
      <4>2. CASE job[1].at = 0
        <5>1. EraseOf(job, p)
          BY <1>1, <1>2, <1>6, <4>2 DEF EraseOf
        <5>2. WordOwed(job, p, Network!WordOf(i))
          BY <2>5, <4>1, <5>1 DEF Whole, AllOwed
        <5> QED BY <1>3, <4>1, <4>2, <5>2
      <4>3. CASE job[1].at # 0 /\ job[1].at = Network!WordOf(i)
        <5>1. job[1].text = saved[p]
          <6>1. 1 \in 1 .. Len(job)
            BY <1>1, <1>2
          <6> QED BY <1>2, <1>6, <4>3, <6>1 DEF WordsOwed, OwedWord, Programs
        <5>2. i \in DOMAIN flash[p]
          BY <1>2 DEF NetTyped
        <5>3. flash'[p][i] = Fill(saved[p], i)
          BY <2>2, <4>3, <5>1, <5>2 DEF Network!Performed, Fill
        <5> QED BY <5>3
      <4>4. CASE job[1].at # 0 /\ job[1].at # Network!WordOf(i)
        <5>1. i \in DOMAIN flash[p]
          BY <1>2 DEF NetTyped
        <5>2. flash'[p][i] = flash[p][i]
          BY <2>2, <4>4, <5>1 DEF Network!Performed
        <5>3. flash[p][i] = Fill(saved[p], i) \/ WordOwed(job, p, Network!WordOf(i))
          BY <2>5 DEF Whole
        <5> QED BY <1>3, <4>4, <5>2, <5>3
      <4> QED BY <4>2, <4>3, <4>4
    <3>2. Len(saved'[p]) <= MaxName
      BY <2>1, <2>5 DEF Whole
    <3>3. Whole(p)'
      BY <2>1, <3>1, <3>2 DEF Whole, WordOwed, EraseOf, Fill, Network!WordOf
    <3> QED BY <3>3 DEF Kept
  <2> QED BY <2>1, <2>4, <2>5 DEF Kept
<1>7. ErasedFirst(job') /\ (NothingOf(job, "server") => NothingOf(job', "server"))
  BY <1>3
<1>8. OnlyServer(job) => OnlyServer(job')
  BY <1>3 DEF OnlyServer
<1>9. \A p \in NetPages : Kept(p)'
  BY <1>5, <1>6
<1> QED BY <1>1, <1>7, <1>8, <1>9 DEF KeepInv, ErasedFirst, NothingOf, OnlyServer

(* Whatever starts when nothing is owed finds the pages as they were       *)
(* saved; where the handler owes nothing of a page, that is so afterwards. *)
LEMMA StaysSettled ==
  ASSUME Network!CredentialsAssumption, PureTexts, NetInv, KeepInv,
         NEW p \in NetPages, NothingOf(job, p),
         flash' = flash, saved'[p] = saved[p], NothingOf(job', p)
  PROVE  Kept(p)'
<1>1. R(p) = saved[p]
  BY Settled DEF KeepInv
<1> QED BY <1>1 DEF Kept, R, NothingOf

LEMMA NothingOwed ==
  ASSUME NEW J, J = << >>
  PROVE  ErasedFirst(J) /\ \A p : NothingOf(J, p)
BY DEF ErasedFirst, NothingOf

(* The power fails: what is read afterwards is what is saved then.         *)
LEMMA PowerOffIsKept ==
  ASSUME Network!CredentialsAssumption, PureTexts, NetInv, KeepInv, Network!PowerOff
  PROVE  KeepInv'
<1>1. job' = << >> /\ opening' = FALSE
  BY DEF Network!PowerOff
<1>2. ErasedFirst(job') /\ \A p : NothingOf(job', p)
  BY <1>1, NothingOwed
<1>3. /\ Network!FlashRead("ssid")' = Read(flash'["ssid"])
      /\ Network!FlashRead("passwd")' = Read(flash'["passwd"])
  BY DEF Network!FlashRead, Network!Text, Network!Contains, Network!Min, Read
<1>4. CASE saved' = [ssid |-> Network!FlashRead("ssid")', passwd |-> Network!FlashRead("passwd")']
  <2>1. saved' = [ssid |-> Read(flash'["ssid"]), passwd |-> Read(flash'["passwd"])]
    BY <1>3, <1>4
  <2>2. saved' = [ssid |-> saved'["ssid"], passwd |-> saved'["passwd"]]
    BY <2>1
  <2>3. \A p \in NetPages : R(p)' = saved'[p]
    BY <2>1 DEF NetPages, R
  <2>4. \A p \in NetPages : Kept(p)'
    BY <1>2, <2>3 DEF Kept, NothingOf
  <2> QED BY <1>1, <1>2, <2>2, <2>4 DEF KeepInv, OnlyServer, ErasedFirst, NothingOf
<1>5. CASE job = << >> /\ flash' = flash /\ saved' = saved
  <2>1. \A p \in NetPages : Kept(p)'
    BY <1>2, <1>5, NothingOwed, StaysSettled
  <2> QED BY <1>1, <1>2, <1>5, <2>1 DEF KeepInv, OnlyServer, ErasedFirst, NothingOf
<1>6. ASSUME job # << >>, opening \/ Head(job).page = "server", saved' = saved,
             NEW chars, flash' = [flash EXCEPT ![Head(job).page] = chars]
      PROVE  KeepInv'
  <2>1. Head(job) = job[1] /\ 1 \in 1 .. Len(job)
    BY <1>6 DEF NetInv, NetTyped
  <2>2. OnlyServer(job)
    BY <1>6, <2>1 DEF KeepInv, NothingOf
  <2>3. ASSUME NEW p \in NetPages PROVE Kept(p)'
    <3>1. NothingOf(job, p) /\ job[1].page # p
      BY <2>1, <2>2 DEF OnlyServer, NothingOf
    <3>2. flash'[p] = flash[p]
      <4>1. p \in DOMAIN flash
        BY DEF NetInv, NetTyped, NetPages, Network!Pages
      <4> QED BY <1>6, <2>1, <3>1, <4>1
    <3>3. R(p) = saved[p]
      BY <3>1, Settled DEF KeepInv
    <3> QED BY <1>2, <1>6, <3>2, <3>3 DEF Kept, R, NothingOf
  <2> QED BY <1>1, <1>2, <1>6, <2>3 DEF KeepInv, OnlyServer, ErasedFirst, NothingOf
<1>7. \/ saved' = [ssid |-> Network!FlashRead("ssid")', passwd |-> Network!FlashRead("passwd")']
      \/ job = << >> /\ flash' = flash /\ saved' = saved
      \/ /\ job # << >> /\ (opening \/ Head(job).page = "server") /\ saved' = saved
         /\ \E chars : flash' = [flash EXCEPT ![Head(job).page] = chars]
  BY Zenon DEF Network!PowerOff
<1> QED BY <1>4, <1>5, <1>6, <1>7

(* Nothing of the network is written.                                      *)
LEMMA ServerIsKept ==
  ASSUME Network!CredentialsAssumption, PureTexts, NetInv, KeepInv, job = << >>,
         flash' = flash, saved' = saved, ErasedFirst(job'), OnlyServer(job')
  PROVE  KeepInv'
<1>1. \A p : NothingOf(job, p)
  BY NothingOwed
<1>2. \A p \in NetPages : Kept(p)'
  BY <1>1, StaysSettled DEF OnlyServer
<1> QED BY <1>2 DEF KeepInv, OnlyServer, ErasedFirst, NothingOf

LEMMA ServerIsWritten ==
  ASSUME Network!CredentialsAssumption, NEW t \in Urls \cup {Default},
         NEW J, J = Network!FlashWriteServer(t)
  PROVE  ErasedFirst(J) /\ OnlyServer(J)
<1> DEFINE W == Network!Erase("server") \o Network!Program("server", t)
<1>1. "server" \in Network!Pages /\ "server" \notin NetPages
  BY DEF Network!Pages, NetPages
<1>2. Write(W, "server", t) /\ ErasedFirst(W)
  BY <1>1, WritesOfPage, WritesAreFull
<1>3. J = W \/ J = << >>
  BY DEF Network!FlashWriteServer
<1> HIDE DEF W
<1>4. CASE J = W
  BY <1>1, <1>2, <1>4 DEF Write, OnlyServer, NothingOf
<1>5. CASE J = << >>
  BY <1>5, NothingOwed DEF OnlyServer
<1> QED BY <1>3, <1>4, <1>5

(* The long press.                                                         *)
LEMMA KeyLongIsKept ==
  ASSUME Network!CredentialsAssumption, PureTexts, NetInv, KeepInv, Network!KeyLong
  PROVE  KeepInv'
<1> DEFINE V == Network!Erase("ssid")
           W == Network!Erase("passwd")
           p == "ssid"
           q == "passwd"
           J == V \o W
<1>1. /\ job' = J /\ opening = FALSE /\ opening' = opening /\ flash' = flash
      /\ saved' = [ssid |-> << >>, passwd |-> << >>]
  BY DEF Network!KeyLong, Network!Ready
<1>2. ASSUME NEW r \in NetPages
      PROVE  ErasedFirst(Network!Erase(r)) /\ EraseOf(Network!Erase(r), r)
  <2>1. /\ Len(Network!Erase(r)) = 1
        /\ Network!Erase(r)[1].page = r /\ Network!Erase(r)[1].at = 0
    BY ErasesAreWrites DEF NetPages, Network!Pages
  <2> QED BY <2>1 DEF ErasedFirst, EraseOf
<1>3. /\ p # q /\ Write(V, p, << >>) /\ Write(W, q, << >>)
      /\ ErasedFirst(V) /\ ErasedFirst(W) /\ EraseOf(V, p) /\ EraseOf(W, q)
  BY <1>2, ErasesAreWrites DEF NetPages, Network!Pages
<1> HIDE DEF V, W, p, q
<1>4. ErasedFirst(J)
  BY <1>3, FullInTurn
<1>5. EraseOf(J, p)
  BY <1>3, FullInTurn
<1>6. EraseOf(J, q)
  BY <1>3, FullInTurn
<1>7. OnlyOf(J, {p, q})
  BY <1>3, FullInTurn
<1> HIDE DEF J
<1>8. NothingOf(job', "server")
  BY <1>1, <1>7 DEF NothingOf, OnlyOf, p, q
<1>9. \A r \in NetPages : Kept(r)'
  BY <1>1, <1>5, <1>6 DEF Kept, EraseOf, NetPages, p, q
<1> QED BY <1>1, <1>4, <1>8, <1>9 DEF KeepInv, ErasedFirst, NothingOf

(* A pairing: the name is erased and written whole, and so is the password *)
(* if it fits; if not, nothing of its page is owed.                        *)
LEMMA PairIsOwed ==
  ASSUME Network!CredentialsAssumption, NEW s \in Names, NEW w \in Words, NEW J,
         J = Network!FlashWrite("ssid", s) \o Network!FlashWrite("passwd", w)
  PROVE  /\ ErasedFirst(J) /\ NothingOf(J, "server") /\ AllOwed(J, "ssid")
         /\ Len(w) <= MaxName => AllOwed(J, "passwd")
         /\ ~(Len(w) <= MaxName) => NothingOf(J, "passwd")
<1> DEFINE V == Network!FlashWrite("ssid", s)
           W == Network!FlashWrite("passwd", w)
           p == "ssid"
           q == "passwd"
<1>1. /\ "ssid" \in Network!Pages /\ Network!Size("ssid") = MaxName
      /\ "passwd" \in Network!Pages /\ Network!Size("passwd") = MaxName
      /\ Len(s) <= MaxName
  BY Strings DEF Network!Pages, Network!Size
<1>2. Write(V, "ssid", s) /\ ErasedFirst(V) /\ AllOwed(V, "ssid")
  <2>1. V = Network!Erase("ssid") \o Network!Program("ssid", s)
    BY <1>1 DEF Network!FlashWrite
  <2> QED BY <1>1, <2>1, WritesOfPage, WritesAreFull
<1>3. CASE Len(w) <= MaxName
  <2>1. W = Network!Erase("passwd") \o Network!Program("passwd", w)
    BY <1>1, <1>3 DEF Network!FlashWrite
  <2>2. Write(W, "passwd", w) /\ ErasedFirst(W) /\ AllOwed(W, "passwd")
    BY <1>1, <2>1, WritesOfPage, WritesAreFull
  <2>3. /\ J = V \o W /\ p # q /\ Write(V, p, s) /\ Write(W, q, w)
        /\ ErasedFirst(V) /\ ErasedFirst(W) /\ AllOwed(V, p) /\ AllOwed(W, q)
    BY <1>2, <2>2
  <2> HIDE DEF V, W, p, q
  <2>4. ErasedFirst(J)
    BY <2>3, FullInTurn
  <2>5. AllOwed(J, p)
    BY <2>3, FullInTurn
  <2>6. AllOwed(J, q)
    BY <2>3, FullInTurn
  <2>7. OnlyOf(J, {p, q})
    BY <2>3, FullInTurn
  <2>8. NothingOf(J, "server")
    BY <2>7 DEF NothingOf, OnlyOf, p, q
  <2> QED BY <1>3, <2>4, <2>5, <2>6, <2>8 DEF p, q
<1>4. CASE ~(Len(w) <= MaxName)
  <2>1. W = << >>
    BY <1>1, <1>4 DEF Network!FlashWrite
  <2> HIDE DEF W
  <2>2. Write(W, "passwd", w) /\ ErasedFirst(W) /\ Len(W) = 0
    BY <2>1 DEF Write, ErasedFirst
  <2>3. /\ J = V \o W /\ p # q /\ Write(V, p, s) /\ Write(W, q, w)
        /\ ErasedFirst(V) /\ ErasedFirst(W) /\ AllOwed(V, p) /\ Len(W) = 0
    BY <1>2, <2>2 DEF W
  <2> HIDE DEF V, p, q
  <2>4. ErasedFirst(J)
    BY <2>3, FullInTurn
  <2>5. AllOwed(J, p)
    BY <2>3, FullInTurn
  <2>6. Len(W) = 0 => NothingOf(J, q)
    BY <2>3, FullInTurn
  <2>7. OnlyOf(J, {p, q})
    BY <2>3, FullInTurn
  <2>8. NothingOf(J, "server")
    BY <2>7 DEF NothingOf, OnlyOf, p, q
  <2> QED BY <1>4, <2>3, <2>4, <2>5, <2>6, <2>8 DEF p, q
<1> QED BY <1>3, <1>4

LEMMA PairingSuccessIsKept ==
  ASSUME Network!CredentialsAssumption, PureTexts, NetInv, KeepInv, Network!PairingSuccess
  PROVE  KeepInv'
<1>1. /\ job' = Network!FlashWrite("ssid", pSSID) \o Network!FlashWrite("passwd", pPASSWD)
      /\ saved' = [ssid |-> pSSID,
                   passwd |-> IF Len(pPASSWD) <= MaxName THEN pPASSWD ELSE saved.passwd]
      /\ job = << >> /\ opening = FALSE /\ opening' = opening /\ flash' = flash
  BY DEF Network!PairingSuccess, Network!Ready
<1>2. pSSID \in Names /\ pPASSWD \in Words /\ Len(pSSID) <= MaxName
  BY Strings DEF NetInv, NetTyped
<1>3. /\ ErasedFirst(job') /\ NothingOf(job', "server") /\ AllOwed(job', "ssid")
      /\ Len(pPASSWD) <= MaxName => AllOwed(job', "passwd")
      /\ ~(Len(pPASSWD) <= MaxName) => NothingOf(job', "passwd")
  BY <1>1, <1>2, PairIsOwed
<1>4. ASSUME NEW p \in NetPages, AllOwed(job', p), Len(saved'[p]) <= MaxName
      PROVE  Kept(p)'
  <2>1. \A i \in 1 .. MaxName : WordOwed(job', p, Network!WordOf(i))
    BY <1>4, WordsOfPage DEF AllOwed
  <2>2. Whole(p)'
    BY <1>4, <2>1 DEF Whole, WordOwed, EraseOf, AllOwed, Fill, Network!WordOf, Network!Words,
       Network!Size
  <2> QED BY <2>2 DEF Kept
<1>5. Kept("ssid")'
  <2>1. saved'["ssid"] = pSSID /\ "ssid" \in NetPages
    BY <1>1 DEF NetPages
  <2> QED BY <1>2, <1>3, <1>4, <2>1
<1>6. Kept("passwd")'
  <2>1. "passwd" \in NetPages
    BY DEF NetPages
  <2>2. CASE Len(pPASSWD) <= MaxName
    <3>1. saved'["passwd"] = pPASSWD
      BY <1>1, <2>2
    <3> QED BY <1>3, <1>4, <2>1, <2>2, <3>1
  <2>3. CASE ~(Len(pPASSWD) <= MaxName)
    <3>1. saved'["passwd"] = saved["passwd"] /\ NothingOf(job', "passwd")
      BY <1>1, <1>3, <2>3
    <3>2. NothingOf(job, "passwd")
      BY <1>1, NothingOwed
    <3> QED BY <1>1, <2>1, <3>1, <3>2, StaysSettled
  <2> QED BY <2>2, <2>3
<1>7. saved' = [ssid |-> saved'["ssid"], passwd |-> saved'["passwd"]]
  BY <1>1
<1>8. \A p \in NetPages : Kept(p)'
  BY <1>5, <1>6 DEF NetPages
<1> QED BY <1>1, <1>3, <1>7, <1>8 DEF KeepInv, ErasedFirst, NothingOf

LEMMA NextIsKept ==
  ASSUME Network!CredentialsAssumption, PureTexts, NetInv, KeepInv,
         [Network!Next]_(Network!vars)
  PROVE  KeepInv'
<1>1. CASE Network!Step
  BY <1>1, StepIsKept
<1>2. CASE Network!KeyLong
  BY <1>2, KeyLongIsKept
<1>3. CASE Network!PairingSuccess
  BY <1>3, PairingSuccessIsKept
<1>4. CASE Network!PowerOff
  BY <1>4, PowerOffIsKept
<1>5. CASE UNCHANGED Network!vars
  BY <1>5 DEF Network!vars, KeepInv, ErasedFirst, OnlyServer, NothingOf, Kept, Whole, R, EraseOf,
     AllOwed, WordOwed, Network!Words, Network!Size, Network!WordOf, Fill
<1>6. ASSUME job = << >>, flash' = flash, saved' = saved,
             job' = << >> \/ \E t \in Urls \cup {Default} : job' = Network!FlashWriteServer(t)
      PROVE  KeepInv'
  <2>1. ErasedFirst(job') /\ OnlyServer(job')
    <3>1. CASE job' = << >>
      BY <3>1, NothingOwed DEF OnlyServer
    <3>2. ASSUME NEW t \in Urls \cup {Default}, job' = Network!FlashWriteServer(t)
          PROVE  ErasedFirst(job') /\ OnlyServer(job')
      BY <3>2, ServerIsWritten
    <3> QED BY <1>6, <3>1, <3>2
  <2> QED BY <1>6, <2>1, ServerIsKept
<1>7. CASE Network!TryServer
  <2>1. /\ job = << >> /\ flash' = flash /\ saved' = saved
        /\ job' = job \/ job' = Network!FlashWriteServer(Default)
    BY <1>7, Zenon DEF Network!TryServer
  <2> QED BY <1>6, <2>1
<1>8. ASSUME NEW url \in Urls, Network!ServerUpdate(url) PROVE KeepInv'
  <2>1. /\ job = << >> /\ flash' = flash /\ saved' = saved
        /\ job' = Network!FlashWriteServer(url)
    BY <1>8 DEF Network!ServerUpdate, Network!Ready
  <2> QED BY <1>6, <2>1
<1>9. CASE \/ Network!PairingStart \/ \E ssid \in Ssids : Network!UpdateSSID(ssid)
           \/ \E passwd \in Passwds : Network!UpdatePASSWD(passwd)
           \/ Network!PairingFailure \/ Network!StartWiFiConn
           \/ Network!WiFiConnected \/ Network!WiFiDisconnected \/ Network!OpenWebSocket
  <2>1. job = << >> /\ job' = job /\ flash' = flash /\ saved' = saved
    BY <1>9, Zenon DEF Network!PairingStart, Network!UpdateSSID, Network!UpdatePASSWD,
       Network!PairingFailure, Network!StartWiFiConn, Network!WiFiConnected,
       Network!WiFiDisconnected, Network!OpenWebSocket, Network!Ready
  <2> QED BY <1>6, <2>1
<1> QED
  BY <1>1, <1>2, <1>3, <1>4, <1>5, <1>7, <1>8, <1>9, Zenon DEF Network!Next

(* Between handlers the pages of the network hold what the last pairing or *)
(* the long press left, and a loss of power then costs nothing: as long as *)
(* no text has a byte of 0xFF in it, which would be taken for a blank.     *)
THEOREM NothingIsLost ==
  ASSUME Network!CredentialsAssumption, PureTexts
  PROVE  Network!Spec => []Network!SavedStays
<1>1. Network!Init => KeepInv
  <2> SUFFICES ASSUME Network!Init PROVE KeepInv
    OBVIOUS
  <2>1. job = << >> /\ opening = FALSE /\ saved = [ssid |-> << >>, passwd |-> << >>]
    BY Zenon DEF Network!Init
  <2>2. NetInv
    BY InitIsKnown
  <2>3. ErasedFirst(job) /\ \A p : NothingOf(job, p)
    BY <2>1, NothingOwed
  <2>4. \A p \in NetPages : R(p) = << >>
    <3>1. \A p \in NetPages : /\ flash[p] = [i \in 1 .. MaxName |-> FF]
                              /\ flash[p] \in [1 .. MaxName -> Chars]
      BY <2>2 DEF Network!Init, NetInv, NetTyped, NetPages, Network!Pages, Network!Size
    <3>2. \A p \in NetPages : \A i \in 1 .. MaxName : flash[p][i] = FF
      BY <3>1
    <3> QED BY <3>1, <3>2, Strings, ReadBlank DEF R
  <2> QED BY <2>1, <2>3, <2>4 DEF KeepInv, Kept, OnlyServer, NetPages
<1>2. NetInv /\ KeepInv /\ [Network!Next]_(Network!vars) => KeepInv'
  BY NextIsKept
<1>3. NetInv /\ KeepInv => Network!SavedStays
  <2> SUFFICES ASSUME NetInv, KeepInv, job = << >>
               PROVE  [ssid |-> Network!FlashRead("ssid"),
                       passwd |-> Network!FlashRead("passwd")] = saved
    BY DEF Network!SavedStays
  <2>1. \A p \in NetPages : R(p) = saved[p]
    BY NothingOwed, Settled DEF KeepInv
  <2>2. Network!FlashRead("ssid") = saved["ssid"] /\ Network!FlashRead("passwd") = saved["passwd"]
    BY <2>1, ReadPage DEF R, NetPages
  <2> QED BY <2>2 DEF KeepInv
<1> QED BY <1>1, <1>2, <1>3, NetworkInv, PTL DEF Network!Spec
=============================================================================
