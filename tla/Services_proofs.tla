--------------------------- MODULE Services_proofs ---------------------------
(***************************************************************************)
(* The services of the kernel that its tasks share, each for every value   *)
(* of its parameters and for clients that call it in any order: the pages  *)
(* of a byte FIFO are one queue of bytes, the linked lists of messages are *)
(* the queues they promise to be, a callback is called when it is due, and *)
(* the heap gives runs of blocks that nobody else has.                     *)
(***************************************************************************)
EXTENDS MCServices, SequenceTheorems, FiniteSetTheorems, WellFoundedInduction, TLAPS

(* Induction over the numbers up to N.                                     *)
LEMMA Counting ==
  ASSUME NEW N \in Nat, NEW S, 0 \in S,
         \A n \in 1 .. N : n - 1 \in S => n \in S
  PROVE  \A n \in 0 .. N : n \in S
<1> DEFINE Less == OpToRel(<, Nat)
           T == {n \in 0 .. N : n \notin S}
<1> SUFFICES ASSUME T # {} PROVE FALSE
  OBVIOUS
<1>1. IsWellFoundedOn(Less, Nat)
  BY NatLessThanWellFounded
<1>2. T \subseteq Nat
  OBVIOUS
<1>3. PICK x \in T : \A y \in T : <<y, x>> \notin Less
  <2> HIDE DEF T
  <2> QED BY <1>1, <1>2, WFMin
<1>4. \A y \in T : ~(y < x)
  BY <1>2, <1>3 DEF OpToRel
<1>5. x \in 0 .. N /\ x \notin S
  OBVIOUS
<1>6. x \in 1 .. N /\ x - 1 \in 0 .. N
  BY <1>5
<1>7. x - 1 \in S
  <2>1. x - 1 \notin T
    BY <1>4, <1>6
  <2> QED BY <1>6, <2>1
<1> QED BY <1>5, <1>6, <1>7

(* Counting down from n.                                                   *)
LEMMA CountingDown ==
  ASSUME NEW n \in Nat \ {0}, NEW S, n \in S,
         \A k \in 1 .. n - 1 : k + 1 \in S => k \in S
  PROVE  \A k \in 1 .. n : k \in S
<1> DEFINE N == n - 1
           T == {j \in 0 .. N : n - j \in S}
<1>1. N \in Nat /\ 0 \in T
  OBVIOUS
<1>2. ASSUME NEW j \in 1 .. N, j - 1 \in T PROVE j \in T
  <2>1. n - j \in 1 .. n - 1 /\ (n - j) + 1 = n - (j - 1)
    OBVIOUS
  <2>2. n - (j - 1) \in S
    BY <1>2
  <2> QED BY <2>1, <2>2
<1>3. \A j \in 0 .. N : j \in T
  <2> HIDE DEF T, N
  <2> QED BY <1>1, <1>2, Counting
<1>4. ASSUME NEW k \in 1 .. n PROVE k \in S
  <2>1. n - k \in 0 .. N /\ n - (n - k) = k
    OBVIOUS
  <2> QED BY <1>3, <2>1
<1> QED BY <1>4

-----------------------------------------------------------------------------
(* Lists along links, whatever they are of.                                *)

(* The list l, linked by g from its first element to its last.             *)
LinkedTo(l, g, null) ==
  \A k \in 1 .. Len(l) : g[l[k]] = IF k = Len(l) THEN null ELSE l[k + 1]

(* A walk from s along the links g, as far as the n-th element.            *)
WalkFrom(s, g, null) ==
  CHOOSE f : f = [n \in Nat |->
    IF n = 0 THEN << >>
    ELSE LET before == f[n - 1]
             at == IF n = 1 THEN s
                   ELSE IF Len(before) < n - 1 THEN null ELSE g[before[n - 1]]
         IN  IF at = null THEN before ELSE Append(before, at)]

(* One element further.                                                    *)
FurtherOn(s, g, before, n, null) ==
  LET at == IF n = 1 THEN s
            ELSE IF Len(before) < n - 1 THEN null ELSE g[before[n - 1]]
  IN  IF at = null THEN before ELSE Append(before, at)

FirstOf(l, null) == IF l = << >> THEN null ELSE l[1]

UpTo(l, n) == SubSeq(l, 1, IF n <= Len(l) THEN n ELSE Len(l))

LEMMA OneFurtherOn ==
  ASSUME NEW S, NEW null, null \notin S, NEW l \in Seq(S), NEW g, LinkedTo(l, g, null),
         NEW n \in Nat \ {0}
  PROVE  FurtherOn(FirstOf(l, null), g, UpTo(l, n - 1), n, null) = UpTo(l, n)
<1> DEFINE x == UpTo(l, n - 1)
           y == UpTo(l, n)
           N == Len(l)
<1>1. N \in Nat /\ \A k \in 1 .. N : l[k] \in S
  BY LenProperties, ElementOfSeq
<1>2. /\ x \in Seq(S) /\ Len(x) = (IF n - 1 <= N THEN n - 1 ELSE N)
      /\ \A k \in 1 .. Len(x) : x[k] = l[k]
      /\ y \in Seq(S) /\ Len(y) = (IF n <= N THEN n ELSE N)
      /\ \A k \in 1 .. Len(y) : y[k] = l[k]
  <2>1. ASSUME NEW e \in 0 .. N
        PROVE  /\ SubSeq(l, 1, e) \in Seq(S) /\ Len(SubSeq(l, 1, e)) = e
               /\ \A k \in 1 .. e : SubSeq(l, 1, e)[k] = l[k]
    <3>1. \A i \in 1 .. e : l[i] \in S
      BY <1>1
    <3>2. /\ SubSeq(l, 1, e) \in Seq(S)
          /\ Len(SubSeq(l, 1, e)) = IF 1 <= e THEN e - 1 + 1 ELSE 0
          /\ \A i \in 1 .. e - 1 + 1 : SubSeq(l, 1, e)[i] = l[1 + i - 1]
      BY <1>1, <3>1, SubSeqProperties
    <3>3. e - 1 + 1 = e /\ \A i \in 1 .. e : 1 + i - 1 = i
      BY <1>1
    <3> QED BY <1>1, <3>2, <3>3
  <2> DEFINE d == IF n - 1 <= N THEN n - 1 ELSE N
             e == IF n <= N THEN n ELSE N
  <2>2. d \in 0 .. N /\ e \in 0 .. N
    BY <1>1
  <2>3. x = SubSeq(l, 1, d) /\ y = SubSeq(l, 1, e)
    BY DEF UpTo
  <2> HIDE DEF d, e
  <2>4. /\ x \in Seq(S) /\ Len(x) = d /\ \A k \in 1 .. d : x[k] = l[k]
        /\ y \in Seq(S) /\ Len(y) = e /\ \A k \in 1 .. e : y[k] = l[k]
    <3> HIDE DEF x, y
    <3> QED BY <2>1, <2>2, <2>3
  <2> QED BY <2>4 DEF d, e
<1> HIDE DEF x, y
<1>3. CASE n > N
  <2>1. x = y
    <3>1. Len(x) = Len(y)
      BY <1>1, <1>2, <1>3
    <3> QED BY <1>2, <3>1, SeqEqual
  <2>2. CASE n = 1
    <3>1. l = << >>
      BY <1>1, <1>3, <2>2, EmptySeq
    <3> QED BY <2>1, <2>2, <3>1 DEF FurtherOn, FirstOf, x, y
  <2>3. CASE n # 1 /\ n - 1 > N
    <3>1. Len(x) < n - 1
      BY <1>1, <1>2, <2>3
    <3> QED BY <2>1, <2>3, <3>1 DEF FurtherOn, x, y
  <2>4. CASE n # 1 /\ ~(n - 1 > N)
    <3>1. n - 1 = N /\ N \in 1 .. N /\ Len(x) = N
      BY <1>1, <1>2, <1>3, <2>4
    <3>2. x[n - 1] = l[N] /\ g[l[N]] = null
      BY <1>2, <3>1 DEF LinkedTo
    <3> QED BY <2>1, <2>4, <3>1, <3>2 DEF FurtherOn, x, y
  <2> QED BY <2>2, <2>3, <2>4
<1>4. CASE ~(n > N)
  <2>0. n \in 1 .. N /\ l[n] \in S /\ Len(x) = n - 1 /\ Len(y) = n
    BY <1>1, <1>2, <1>4
  <2>1. y = Append(x, l[n])
    <3> DEFINE z == Append(x, l[n])
    <3>1. /\ z \in Seq(S) /\ Len(z) = n /\ (\A k \in 1 .. n - 1 : z[k] = x[k])
          /\ z[n] = l[n]
      BY <1>2, <2>0, AppendProperties
    <3>2. \A k \in 1 .. n : y[k] = z[k]
      <4> TAKE k \in 1 .. n
      <4>1. y[k] = l[k]
        BY <1>2, <2>0
      <4>2. k # n => k \in 1 .. n - 1
        BY <1>1
      <4> HIDE DEF z
      <4> QED BY <1>2, <2>0, <3>1, <4>1, <4>2
    <3> HIDE DEF z
    <3>3. y = z
      BY <1>2, <2>0, <3>1, <3>2, SeqEqual
    <3> QED BY <3>3 DEF z
  <2>2. CASE n = 1
    <3>1. FirstOf(l, null) = l[n] /\ FirstOf(l, null) # null
      BY <1>1, <2>0, <2>2, EmptySeq DEF FirstOf
    <3> QED BY <2>1, <2>2, <3>1 DEF FurtherOn, x, y
  <2>3. CASE n # 1
    <3>1. n - 1 \in 1 .. N /\ n - 1 # N /\ (n - 1) + 1 = n
      BY <1>1, <2>0, <2>3
    <3>2. x[n - 1] = l[n - 1]
      BY <1>2, <2>0, <3>1
    <3>3. g[l[n - 1]] = l[n]
      BY <3>1 DEF LinkedTo
    <3>4. ~(Len(x) < n - 1) /\ l[n] # null
      BY <2>0, <3>1
    <3> QED BY <2>1, <2>3, <3>2, <3>3, <3>4 DEF FurtherOn, x, y
  <2> QED BY <2>2, <2>3
<1> QED BY <1>3, <1>4

LEMMA WalkFinds ==
  ASSUME NEW S, NEW null, null \notin S, NEW l \in Seq(S), NEW g, LinkedTo(l, g, null),
         NEW N \in Nat, Len(l) <= N
  PROVE  WalkFrom(FirstOf(l, null), g, null)[N] = l
<1> DEFINE s == FirstOf(l, null)
           Made(f) == f = [n \in Nat |-> IF n = 0 THEN << >> ELSE FurtherOn(s, g, f[n - 1], n, null)]
           c == CHOOSE f : Made(f)
           f == [n \in Nat |-> UpTo(l, n)]
<1>0. Len(l) \in Nat
  OBVIOUS
<1>1. UpTo(l, 0) = << >>
  BY <1>0 DEF UpTo
<1>2. Made(f)
  <2>1. \A n \in Nat : n # 0 => f[n] = FurtherOn(s, g, f[n - 1], n, null)
    <3> TAKE n \in Nat
    <3>1. n # 0 => n - 1 \in Nat /\ f[n] = UpTo(l, n) /\ f[n - 1] = UpTo(l, n - 1)
      OBVIOUS
    <3> HIDE DEF f
    <3> QED BY <3>1, OneFurtherOn
  <2>2. f[0] = << >> /\ f = [n \in Nat |-> f[n]]
    BY <1>1
  <2> HIDE DEF f, s
  <2> QED BY <2>1, <2>2
<1>3. Made(c)
  <2> HIDE DEF Made, f
  <2> QED BY <1>2
<1>4. WalkFrom(s, g, null) = c
  BY Zenon DEF WalkFrom, FurtherOn
<1> HIDE DEF c
<1> DEFINE T == {n \in 0 .. N : c[n] = UpTo(l, n)}
<1>5. 0 \in T
  BY <1>1, <1>3
<1>6. ASSUME NEW n \in 1 .. N, n - 1 \in T PROVE n \in T
  <2>1. c[n - 1] = UpTo(l, n - 1) /\ n \in Nat \ {0}
    BY <1>6
  <2>2. c[n] = FurtherOn(s, g, c[n - 1], n, null)
    BY <1>3, <2>1
  <2>3. FurtherOn(s, g, UpTo(l, n - 1), n, null) = UpTo(l, n)
    BY <2>1, OneFurtherOn
  <2> HIDE DEF s
  <2> QED BY <2>1, <2>2, <2>3
<1>7. N \in T
  <2> HIDE DEF T
  <2>1. \A n \in 0 .. N : n \in T
    BY <1>5, <1>6, Counting
  <2> QED BY <2>1
<1>8. UpTo(l, N) = l
  <2>1. UpTo(l, N) = SubSeq(l, 1, Len(l))
    BY <1>0 DEF UpTo
  <2> QED BY <2>1
<1> QED BY <1>4, <1>7, <1>8

(* Different elements, and no more of them than there are.                 *)
Distinct(l) == \A i, j \in 1 .. Len(l) : l[i] = l[j] => i = j
SetOf(l) == {l[i] : i \in 1 .. Len(l)}

LEMMA CountOf ==
  ASSUME NEW S, IsFiniteSet(S), NEW l \in Seq(S), Distinct(l)
  PROVE  /\ Cardinality(SetOf(l)) = Len(l) /\ Len(l) <= Cardinality(S)
         /\ Cardinality(S) \in Nat
<1> DEFINE n == Len(l)
<1>1. n \in Nat /\ l \in [1 .. n -> SetOf(l)] /\ SetOf(l) \subseteq S
  <2>1. \A k \in 1 .. n : l[k] \in S
    BY ElementOfSeq
  <2>2. n \in Nat /\ l = [k \in 1 .. n |-> l[k]]
    BY LenProperties
  <2>3. \A k \in 1 .. n : l[k] \in SetOf(l)
    BY DEF SetOf
  <2>4. SetOf(l) \subseteq S
    BY <2>1 DEF SetOf
  <2> HIDE DEF n
  <2> QED BY <2>2, <2>3, <2>4
<1>2. l \in Bijection(1 .. n, SetOf(l))
  BY <1>1 DEF Distinct, SetOf, Bijection, Injection, Surjection, IsInjective
<1>3. IsFiniteSet(1 .. n) /\ Cardinality(1 .. n) = n
  BY <1>1, FS_Interval
<1>4. Cardinality(SetOf(l)) = n
  BY <1>2, <1>3, FS_Bijection DEF ExistsBijection
<1>5. Cardinality(SetOf(l)) <= Cardinality(S) /\ Cardinality(S) \in Nat
  BY <1>1, FS_Subset, FS_CardinalityType
<1> QED BY <1>4, <1>5

-----------------------------------------------------------------------------
(* The byte FIFO that the UARTs and the frames use, OsalFifo: for every     *)
(* heap, page size and byte it is one queue of bytes.                       *)

(* Links and what is found along them                                      *)

(* The links of the pages g never come back: each leads to a higher rank.  *)
Ranked(g, r, N) ==
  /\ N \in Nat /\ r \in [PageBlocks -> 0 .. N]
  /\ \A b \in PageBlocks : g[b].nextPage \in PageBlocks => r[b] < r[g[b].nextPage]

(* f joins what u says of the pages, from each one on.                     *)
Joins(f, g, u) ==
  /\ f = [b \in PageBlocks \cup {NULL} |-> f[b]]
  /\ f[NULL] = << >>
  /\ \A b \in PageBlocks : f[b] = u[b] \o f[g[b].nextPage]

(* Down to the rank k it can be joined; so it can be joined for all.       *)
LEMMA JoinsExist ==
  ASSUME NULL \notin PageBlocks, NEW g, \A b \in PageBlocks : g[b].nextPage \in PageBlocks \cup {NULL},
         NEW r, NEW N, Ranked(g, r, N), NEW u
  PROVE  \E f : Joins(f, g, u)
<1> DEFINE Part(f, k) ==
             /\ f = [b \in PageBlocks \cup {NULL} |-> f[b]]
             /\ f[NULL] = << >>
             /\ \A b \in PageBlocks : r[b] > N - k => f[b] = u[b] \o f[g[b].nextPage]
           S == {k \in 0 .. N + 1 : \E f : Part(f, k)}
<1>0. N \in Nat /\ N + 1 \in Nat /\ \A b \in PageBlocks : r[b] \in 0 .. N
  BY DEF Ranked
<1>1. 0 \in S
  <2> DEFINE f == [b \in PageBlocks \cup {NULL} |-> << >>]
  <2>1. \A b \in PageBlocks : ~(r[b] > N - 0)
    BY <1>0
  <2>2. f = [b \in PageBlocks \cup {NULL} |-> f[b]] /\ f[NULL] = << >>
    OBVIOUS
  <2>3. Part(f, 0)
    <3> HIDE DEF f
    <3> QED BY <2>1, <2>2
  <2> HIDE DEF f, Part
  <2> QED BY <1>0, <2>3
<1>2. ASSUME NEW k \in 1 .. N + 1, k - 1 \in S PROVE k \in S
  <2>1. PICK f : Part(f, k - 1)
    BY <1>2
  <2> DEFINE h == [b \in PageBlocks \cup {NULL} |->
                     IF b \in PageBlocks /\ r[b] = (N - k) + 1
                       THEN u[b] \o f[g[b].nextPage] ELSE f[b]]
  <2>2. h = [b \in PageBlocks \cup {NULL} |-> h[b]] /\ h[NULL] = << >>
    BY <2>1
  <2>3. ASSUME NEW b \in PageBlocks, r[b] > N - k PROVE h[b] = u[b] \o h[g[b].nextPage]
    <3> DEFINE c == g[b].nextPage
    <3>1. c \in PageBlocks => r[c] > (N - k) + 1
      BY <1>0, <2>3 DEF Ranked
    <3>2. c \in PageBlocks \cup {NULL}
      OBVIOUS
    <3>3. h[c] = f[c]
      BY <1>0, <3>1, <3>2
    <3>4. CASE r[b] = (N - k) + 1
      BY <3>3, <3>4
    <3>5. CASE r[b] # (N - k) + 1
      <4>1. r[b] > N - (k - 1)
        BY <1>0, <2>3, <3>5
      <4>2. f[b] = u[b] \o f[c]
        BY <2>1, <4>1
      <4>3. h[b] = f[b]
        BY <3>5
      <4> QED BY <3>3, <4>2, <4>3
    <3> QED BY <3>4, <3>5
  <2>4. Part(h, k)
    <3> HIDE DEF h
    <3> QED BY <2>2, <2>3
  <2> HIDE DEF Part
  <2> QED BY <2>4
<1>3. \A k \in 0 .. N + 1 : k \in S
  <2> HIDE DEF S
  <2> QED BY <1>0, <1>1, <1>2, Counting
<1>4. PICK f : Part(f, N + 1)
  <2> HIDE DEF Part
  <2>1. N + 1 \in S
    BY <1>0, <1>3
  <2> QED BY <2>1
<1>5. \A b \in PageBlocks : r[b] > N - (N + 1)
  BY <1>0
<1> QED BY <1>4, <1>5 DEF Joins

(* The pages from each one on, and their bytes, of any pages g.            *)
Alone == [b \in PageBlocks |-> <<b>>]
UnreadOf(g) ==
  [b \in PageBlocks |-> [i \in 1 .. g[b].tail - g[b].head |-> g[b].buf[g[b].head + i - 1]]]

PagesIn(g) ==
  CHOOSE f : f = [p \in PageBlocks \cup {NULL} |->
                    IF p = NULL THEN << >> ELSE <<p>> \o f[g[p].nextPage]]
BytesIn(g) ==
  CHOOSE f : f = [p \in PageBlocks \cup {NULL} |->
                    IF p = NULL THEN << >>
                      ELSE [i \in 1 .. g[p].tail - g[p].head |-> g[p].buf[g[p].head + i - 1]]
                             \o f[g[p].nextPage]]

LEMMA AsIn == Fifo!PagesFrom = PagesIn(page) /\ Fifo!Bytes = BytesIn(page)
BY DEF Fifo!PagesFrom, Fifo!Bytes, Fifo!Unread, PagesIn, BytesIn

LEMMA PagesJoin ==
  ASSUME NULL \notin PageBlocks, NEW g, \A b \in PageBlocks : g[b].nextPage \in PageBlocks \cup {NULL},
         NEW r, NEW N, Ranked(g, r, N)
  PROVE  Joins(PagesIn(g), g, Alone)
<1> DEFINE Made(f) == f = [p \in PageBlocks \cup {NULL} |->
                             IF p = NULL THEN << >> ELSE <<p>> \o f[g[p].nextPage]]
           c == CHOOSE f : Made(f)
<1>1. PICK f : Joins(f, g, Alone)
  BY JoinsExist
<1>2. Made(f)
  <2>1. \A p \in PageBlocks \cup {NULL} :
          f[p] = IF p = NULL THEN << >> ELSE <<p>> \o f[g[p].nextPage]
    BY <1>1 DEF Joins, Alone
  <2> QED BY <1>1, <2>1 DEF Joins
<1>3. Made(c)
  <2> HIDE DEF Made
  <2> QED BY <1>2
<1>4. c = PagesIn(g)
  BY DEF PagesIn
<1> HIDE DEF c
<1>5. \A p \in PageBlocks \cup {NULL} :
        c[p] = IF p = NULL THEN << >> ELSE <<p>> \o c[g[p].nextPage]
  BY <1>3
<1>6. c = [p \in PageBlocks \cup {NULL} |-> c[p]]
  BY <1>3
<1>7. Joins(c, g, Alone)
  BY <1>5, <1>6 DEF Joins, Alone
<1> QED BY <1>4, <1>7

LEMMA BytesJoin ==
  ASSUME NULL \notin PageBlocks, NEW g, \A b \in PageBlocks : g[b].nextPage \in PageBlocks \cup {NULL},
         NEW r, NEW N, Ranked(g, r, N)
  PROVE  Joins(BytesIn(g), g, UnreadOf(g))
<1> DEFINE Made(f) == f = [p \in PageBlocks \cup {NULL} |->
                    IF p = NULL THEN << >>
                      ELSE [i \in 1 .. g[p].tail - g[p].head |-> g[p].buf[g[p].head + i - 1]]
                             \o f[g[p].nextPage]]
           c == CHOOSE f : Made(f)
           u == UnreadOf(g)
<1>0. \A p \in PageBlocks :
        u[p] = [i \in 1 .. g[p].tail - g[p].head |-> g[p].buf[g[p].head + i - 1]]
  BY DEF UnreadOf
<1>1. PICK f : Joins(f, g, u)
  BY JoinsExist
<1> HIDE DEF u
<1>2. Made(f)
  <2>1. \A p \in PageBlocks \cup {NULL} :
          f[p] = IF p = NULL THEN << >>
                      ELSE [i \in 1 .. g[p].tail - g[p].head |-> g[p].buf[g[p].head + i - 1]]
                             \o f[g[p].nextPage]
    BY <1>0, <1>1, Zenon DEF Joins
  <2> QED BY <1>1, <2>1 DEF Joins
<1>3. Made(c)
  <2> HIDE DEF Made
  <2> QED BY <1>2
<1>4. c = BytesIn(g)
  BY DEF BytesIn
<1> HIDE DEF c
<1>5. \A p \in PageBlocks \cup {NULL} :
        c[p] = IF p = NULL THEN << >>
                      ELSE [i \in 1 .. g[p].tail - g[p].head |-> g[p].buf[g[p].head + i - 1]]
                             \o c[g[p].nextPage]
  BY <1>3, Zenon
<1>6. c = [p \in PageBlocks \cup {NULL} |-> c[p]]
  BY <1>3
<1>7. Joins(c, g, u)
  BY <1>0, <1>5, <1>6, Zenon DEF Joins
<1> QED BY <1>4, <1>7 DEF u

-----------------------------------------------------------------------------
(* The list l of pages, linked in g from its first page to its last.       *)
StartOf(l) == IF l = << >> THEN NULL ELSE l[1]
EndOf(l) == IF l = << >> THEN NULL ELSE l[Len(l)]

Linked(l, g) ==
  \A k \in 1 .. Len(l) : g[l[k]].nextPage = IF k = Len(l) THEN NULL ELSE l[k + 1]

Joint(f, u, l, k) ==
  /\ k = Len(l) => f[l[k]] = u[l[k]] \o << >>
  /\ k # Len(l) => f[l[k]] = u[l[k]] \o f[l[k + 1]]

LEMMA JoinLink ==
  ASSUME NEW l \in Seq(PageBlocks), NEW g, Linked(l, g), NEW f, NEW u, Joins(f, g, u)
  PROVE  \A k \in 1 .. Len(l) : Joint(f, u, l, k)
<1> TAKE k \in 1 .. Len(l)
<1>1. l[k] \in PageBlocks
  BY ElementOfSeq
<1>2. f[l[k]] = u[l[k]] \o f[g[l[k]].nextPage]
  BY <1>1 DEF Joins
<1>3. f[NULL] = << >>
  BY DEF Joins
<1>4. k = Len(l) => g[l[k]].nextPage = NULL
  BY DEF Linked
<1>5. k # Len(l) => g[l[k]].nextPage = l[k + 1]
  BY DEF Linked
<1> QED BY <1>2, <1>3, <1>4, <1>5 DEF Joint

(* What is joined along a list of pages is a sequence, ...                 *)
LEMMA TypedAlong ==
  ASSUME NEW l \in Seq(PageBlocks), NEW g, Linked(l, g), NEW f, NEW u, Joins(f, g, u),
         NEW S, \A k \in 1 .. Len(l) : u[l[k]] \in Seq(S)
  PROVE  \A k \in 1 .. Len(l) : f[l[k]] \in Seq(S)
<1> SUFFICES ASSUME l # << >> PROVE \A k \in 1 .. Len(l) : f[l[k]] \in Seq(S)
  OBVIOUS
<1> DEFINE n == Len(l)
           T == {k \in 1 .. n : f[l[k]] \in Seq(S)}
<1>0. n \in Nat \ {0} /\ \A k \in 1 .. n : l[k] \in PageBlocks
  BY EmptySeq, LenProperties, ElementOfSeq
<1>9. \A k \in 1 .. n : Joint(f, u, l, k)
  BY JoinLink
<1>1. n \in T
  <2>1. f[l[n]] = u[l[n]] \o << >> /\ u[l[n]] \in Seq(S)
    <3>1. n \in 1 .. n
      BY <1>0
    <3> QED BY <3>1, <1>9 DEF Joint
  <2> QED BY <1>0, <2>1
<1>2. ASSUME NEW k \in 1 .. n - 1, k + 1 \in T PROVE k \in T
  <2>1. k \in 1 .. n /\ k # n
    BY <1>0
  <2>2. f[l[k]] = u[l[k]] \o f[l[k + 1]] /\ u[l[k]] \in Seq(S)
    BY <2>1, <1>9 DEF Joint
  <2>3. f[l[k + 1]] \in Seq(S)
    BY <1>2
  <2>4. f[l[k]] \in Seq(S)
    BY <2>2, <2>3
  <2> QED BY <2>1, <2>4
<1>3. \A k \in 1 .. n : k \in T
  <2> HIDE DEF T, n
  <2> QED BY <1>0, <1>1, <1>2, CountingDown
<1> QED BY <1>3

(* ... the same if all the pages are the same, ...                         *)
LEMMA SameAlong ==
  ASSUME NEW l \in Seq(PageBlocks), NEW g, Linked(l, g), NEW f, NEW u, Joins(f, g, u),
         NEW e, Linked(l, e), NEW h, NEW v, Joins(h, e, v),
         \A k \in 1 .. Len(l) : v[l[k]] = u[l[k]]
  PROVE  h[StartOf(l)] = f[StartOf(l)]
<1>1. CASE l = << >>
  BY <1>1 DEF StartOf, Joins
<1>2. CASE l # << >>
  <2> DEFINE n == Len(l)
             T == {k \in 1 .. n : h[l[k]] = f[l[k]]}
  <2>0. n \in Nat \ {0} /\ \A k \in 1 .. n : l[k] \in PageBlocks
    BY <1>2, EmptySeq, LenProperties, ElementOfSeq
  <2>9. \A k \in 1 .. n : Joint(f, u, l, k) /\ Joint(h, v, l, k)
    BY JoinLink
  <2>1. n \in T
    <3>0. n \in 1 .. n
      BY <2>0
    <3>1. f[l[n]] = u[l[n]] \o << >> /\ h[l[n]] = v[l[n]] \o << >>
      BY <3>0, <2>9 DEF Joint
    <3>2. v[l[n]] = u[l[n]]
      BY <3>0
    <3> QED BY <3>0, <3>1, <3>2
  <2>2. ASSUME NEW k \in 1 .. n - 1, k + 1 \in T PROVE k \in T
    <3>1. k \in 1 .. n /\ k # n
      BY <2>0
    <3>2. f[l[k]] = u[l[k]] \o f[l[k + 1]] /\ h[l[k]] = v[l[k]] \o h[l[k + 1]]
      BY <3>1, <2>9 DEF Joint
    <3>3. v[l[k]] = u[l[k]] /\ h[l[k + 1]] = f[l[k + 1]]
      BY <2>2, <3>1
    <3> QED BY <3>1, <3>2, <3>3
  <2>3. \A k \in 1 .. n : k \in T
    <3> HIDE DEF T, n
    <3> QED BY <2>0, <2>1, <2>2, CountingDown
  <2>4. 1 \in 1 .. n
    BY <2>0
  <2> QED BY <1>2, <2>3, <2>4 DEF StartOf
<1> QED BY <1>1, <1>2

(* ... and one longer if the last page has one more.                       *)
LongerBy(b, h, f, p) == h[p] = Append(f[p], b)

LEMMA LongerAlong ==
  ASSUME NEW l \in Seq(PageBlocks), l # << >>,
         NEW f, NEW h, NEW u, NEW S, NEW b \in S,
         \A k \in 1 .. Len(l) : u[l[k]] \in Seq(S) /\ f[l[k]] \in Seq(S),
         \A k \in 1 .. Len(l) - 1 : /\ f[l[k]] = u[l[k]] \o f[l[k + 1]]
                                    /\ h[l[k]] = u[l[k]] \o h[l[k + 1]],
         LongerBy(b, h, f, l[Len(l)])
  PROVE  LongerBy(b, h, f, l[1])
<1> DEFINE n == Len(l)
           T == {k \in 1 .. n : h[l[k]] = Append(f[l[k]], b)}
<1>0. n \in Nat \ {0}
  BY EmptySeq, LenProperties
<1>1. n \in T
  BY <1>0 DEF LongerBy
<1>2. ASSUME NEW k \in 1 .. n - 1, k + 1 \in T PROVE k \in T
  <2>1. k \in 1 .. n /\ k + 1 \in 1 .. n
    BY <1>0
  <2> DEFINE x == u[l[k]]
             y == f[l[k + 1]]
  <2>2. f[l[k]] = x \o y /\ h[l[k]] = x \o h[l[k + 1]] /\ h[l[k + 1]] = Append(y, b)
    BY <1>2
  <2>3. x \in Seq(S) /\ y \in Seq(S)
    BY <2>1
  <2> HIDE DEF x, y
  <2>4. x \o Append(y, b) = Append(x \o y, b)
    BY <2>3
  <2>5. h[l[k]] = Append(f[l[k]], b)
    BY <2>2, <2>4
  <2> QED BY <2>1, <2>5
<1>3. \A k \in 1 .. n : k \in T
  <2> HIDE DEF T, n
  <2> QED BY <1>0, <1>1, <1>2, CountingDown
<1>4. 1 \in 1 .. n
  BY <1>0
<1> QED BY <1>3, <1>4 DEF LongerBy

(* The pages from the first one on are those of the list.                  *)
LEMMA PagesAlong ==
  ASSUME NEW l \in Seq(PageBlocks), NEW g, Linked(l, g), NEW f, Joins(f, g, Alone)
  PROVE  f[StartOf(l)] = l
<1>1. CASE l = << >>
  BY <1>1 DEF StartOf, Joins
<1>2. CASE l # << >>
  <2> DEFINE n == Len(l)
             rest(k) == [i \in 1 .. n - k + 1 |-> l[k + i - 1]]
             T == {k \in 1 .. n : f[l[k]] = rest(k)}
  <2>0. n \in Nat \ {0} /\ \A k \in 1 .. n : l[k] \in PageBlocks
    BY <1>2, EmptySeq, LenProperties, ElementOfSeq
  <2>9. ASSUME NEW k \in 1 .. n PROVE rest(k) \in Seq(PageBlocks) /\ Len(rest(k)) = n - k + 1
    <3>1. n - k + 1 \in Nat
      BY <2>0
    <3>2. \A i \in 1 .. n - k + 1 : l[k + i - 1] \in PageBlocks
      <4> TAKE i \in 1 .. n - k + 1
      <4>1. k + i - 1 \in 1 .. n
        BY <2>0
      <4> QED BY <2>0, <4>1
    <3>3. rest(k) \in [1 .. n - k + 1 -> PageBlocks]
      BY <3>2
    <3> HIDE DEF rest
    <3> QED BY <3>1, <3>3, SeqDef, LenProperties
  <2>8. \A k \in 1 .. n : Joint(f, Alone, l, k)
    BY JoinLink
  <2>1. n \in T
    <3>0. n \in 1 .. n /\ l[n] \in PageBlocks
      BY <2>0
    <3>1. f[l[n]] = Alone[l[n]] \o << >>
      BY <3>0, <2>8 DEF Joint
    <3>2. f[l[n]] = <<l[n]>>
      BY <3>0, <3>1 DEF Alone
    <3>3. rest(n) = <<l[n]>>
      BY <2>0
    <3> QED BY <2>0, <3>2, <3>3
  <2>2. ASSUME NEW k \in 1 .. n - 1, k + 1 \in T PROVE k \in T
    <3>1. k \in 1 .. n /\ k # n /\ k + 1 \in 1 .. n
      BY <2>0
    <3> DEFINE s == rest(k + 1)
    <3>2. f[l[k]] = <<l[k]>> \o s
      <4>1. f[l[k]] = Alone[l[k]] \o f[l[k + 1]] /\ l[k] \in PageBlocks
        BY <2>0, <3>1, <2>8 DEF Joint
      <4>2. f[l[k + 1]] = s
        BY <2>2
      <4>3. Alone[l[k]] = <<l[k]>>
        BY <4>1 DEF Alone
      <4> QED BY <4>1, <4>2, <4>3
    <3>3. s \in Seq(PageBlocks) /\ Len(s) = n - k
      BY <2>0, <2>9, <3>1
    <3>4. \A i \in 1 .. n - k : s[i] = l[k + i]
      BY <2>0, <3>1
    <3> HIDE DEF s
    <3>5. /\ <<l[k]>> \o s \in Seq(PageBlocks) /\ Len(<<l[k]>> \o s) = n - k + 1
          /\ \A i \in 1 .. n - k + 1 : (<<l[k]>> \o s)[i] = l[k + i - 1]
      <4>1. l[k] \in PageBlocks
        BY <2>0, <3>1
      <4>2. <<l[k]>> \o s \in Seq(PageBlocks) /\ Len(<<l[k]>> \o s) = n - k + 1
        BY <2>0, <3>1, <3>3, <4>1
      <4>3. ASSUME NEW i \in 1 .. n - k + 1 PROVE (<<l[k]>> \o s)[i] = l[k + i - 1]
        <5>1. CASE i = 1
          BY <2>0, <3>1, <3>3, <4>1, <5>1
        <5>2. CASE i # 1
          <6>1. i - 1 \in 1 .. n - k
            BY <2>0, <3>1, <5>2
          <6>2. (<<l[k]>> \o s)[i] = s[i - 1]
            BY <3>3, <4>1, <6>1
          <6>3. k + (i - 1) = k + i - 1
            BY <3>1
          <6> QED BY <3>4, <6>1, <6>2, <6>3
        <5> QED BY <5>1, <5>2
      <4> QED BY <4>2, <4>3
    <3>6. <<l[k]>> \o s = rest(k)
      <4> DEFINE x == <<l[k]>> \o s
                 y == rest(k)
      <4>1. x \in Seq(PageBlocks) /\ y \in Seq(PageBlocks) /\ Len(x) = Len(y)
        BY <2>9, <3>1, <3>5
      <4>2. \A i \in 1 .. Len(x) : x[i] = y[i]
        BY <3>5
      <4> HIDE DEF x, y
      <4>3. x = y
        BY <4>1, <4>2, SeqEqual
      <4> QED BY <4>3 DEF x, y
    <3> QED BY <3>1, <3>2, <3>6
  <2>3. \A k \in 1 .. n : k \in T
    <3> HIDE DEF T, n
    <3> QED BY <2>0, <2>1, <2>2, CountingDown
  <2>4. 1 \in 1 .. n /\ f[l[1]] = rest(1)
    BY <2>0, <2>3
  <2>5. rest(1) = l
    <3> DEFINE y == rest(1)
    <3>1. y \in Seq(PageBlocks) /\ Len(y) = Len(l) /\ \A i \in 1 .. Len(l) : y[i] = l[i]
      <4>1. n - 1 + 1 = n /\ \A i \in 1 .. n : 1 + i - 1 = i
        BY <2>0
      <4> QED BY <2>4, <2>9, <4>1
    <3> HIDE DEF y
    <3>2. y = l
      BY <3>1, SeqEqual
    <3> QED BY <3>2 DEF y
  <2> QED BY <1>2, <2>4, <2>5 DEF StartOf
<1> QED BY <1>1, <1>2

-----------------------------------------------------------------------------
(* The invariant of the FIFO: the pages in use are linked in a list, from  *)
(* the first page of the handle to its last, and have bytes to be read;    *)
(* the pages that were freed link to pages that were allocated later.      *)
Listed(l) ==
  /\ l \in Seq(PageBlocks) /\ Linked(l, page)
  /\ \A i, j \in 1 .. Len(l) : l[i] = l[j] => i = j
  /\ used = {l[k] : k \in 1 .. Len(l)}
  /\ handle.headPage = StartOf(l) /\ handle.tailPage = EndOf(l)
  /\ \A k \in 1 .. Len(l) : page[l[k]].head < page[l[k]].tail

FifoInv ==
  /\ Fifo!TypeOK
  /\ \E r, N : Ranked(page, r, N)
  /\ handle = NULL => used = {}
  /\ handle # NULL => /\ \E l : Listed(l)
                      /\ handle.datalen = Len(Fifo!Bytes[handle.headPage])

Bytes == Seq(Byte \cup {0})

(* What it says of a FIFO that exists.                                     *)
LEMMA FifoFacts ==
  ASSUME Fifo!FifoAssumption, FifoInv
  PROVE  /\ page \in [PageBlocks -> Fifo!Page] /\ NULL \notin PageBlocks
         /\ \A b \in PageBlocks : page[b].nextPage \in PageBlocks \cup {NULL}
         /\ \A b \in PageBlocks : UnreadOf(page)[b] \in Bytes
         /\ Joins(Fifo!Bytes, page, UnreadOf(page))
         /\ Joins(Fifo!PagesFrom, page, Alone)
<1>1. page \in [PageBlocks -> Fifo!Page] /\ NULL \notin PageBlocks
  BY DEF FifoInv, Fifo!TypeOK, Fifo!FifoAssumption
<1>2. \A b \in PageBlocks : page[b].nextPage \in PageBlocks \cup {NULL}
  BY <1>1 DEF Fifo!Page
<1>3. PICK r, N : Ranked(page, r, N)
  BY DEF FifoInv
<1>4. Joins(Fifo!Bytes, page, UnreadOf(page)) /\ Joins(Fifo!PagesFrom, page, Alone)
  BY <1>1, <1>2, <1>3, AsIn, PagesJoin, BytesJoin
<1>5. ASSUME NEW b \in PageBlocks PROVE UnreadOf(page)[b] \in Bytes
  <2> DEFINE p == page[b]
             n == p.tail - p.head
  <2>0. PageSize \in Nat
    BY DEF Fifo!FifoAssumption
  <2>1. p.head \in 0 .. PageSize /\ p.tail \in 0 .. PageSize
        /\ p.buf \in [0 .. PageSize - 1 -> Byte \cup {0}]
    BY <1>1 DEF Fifo!Page
  <2>2. UnreadOf(page)[b] = [i \in 1 .. n |-> p.buf[p.head + i - 1]]
    BY DEF UnreadOf
  <2> HIDE DEF p
  <2>3. CASE n > 0
    <3>1. \A i \in 1 .. n : p.buf[p.head + i - 1] \in Byte \cup {0}
      <4> TAKE i \in 1 .. n
      <4>1. p.head + i - 1 \in 0 .. PageSize - 1
        BY <2>0, <2>1
      <4> QED BY <2>1, <4>1
    <3>2. n \in Nat
      BY <2>0, <2>1, <2>3
    <3>3. [i \in 1 .. n |-> p.buf[p.head + i - 1]] \in [1 .. n -> Byte \cup {0}]
      BY <3>1
    <3> QED BY <2>2, <3>2, <3>3, SeqDef DEF Bytes
  <2>4. CASE ~(n > 0)
    <3>1. n \in Int
      BY <2>0, <2>1
    <3>2. 1 .. n = {} /\ 1 .. 0 = {}
      BY <2>4, <3>1
    <3> DEFINE w == [i \in 1 .. n |-> p.buf[p.head + i - 1]]
    <3>3. w \in [1 .. n -> Byte \cup {0}]
      BY <3>2
    <3>4. w \in [1 .. 0 -> Byte \cup {0}]
      <4> HIDE DEF w, n
      <4> QED BY <3>2, <3>3
    <3>5. w \in Seq(Byte \cup {0})
      <4> HIDE DEF w
      <4> QED BY <3>4, SeqDef
    <3> QED BY <2>2, <3>5 DEF Bytes
  <2> QED BY <2>3, <2>4
<1> QED BY <1>1, <1>2, <1>4, <1>5

(* The bytes that wait are bytes, and there are some if there are pages.   *)
LEMMA WaitingBytes ==
  ASSUME Fifo!FifoAssumption, FifoInv, NEW l, Listed(l)
  PROVE  /\ \A k \in 1 .. Len(l) : Fifo!Bytes[l[k]] \in Bytes
         /\ Fifo!Bytes[StartOf(l)] \in Bytes
         /\ Fifo!Bytes[StartOf(l)] = << >> <=> l = << >>
         /\ Fifo!PagesFrom[StartOf(l)] = l
<1>1. l \in Seq(PageBlocks) /\ Linked(l, page) /\ Len(l) \in Nat
      /\ \A k \in 1 .. Len(l) : l[k] \in PageBlocks
  BY LenProperties, ElementOfSeq DEF Listed
<1>2. /\ \A b \in PageBlocks : UnreadOf(page)[b] \in Bytes
      /\ Joins(Fifo!Bytes, page, UnreadOf(page)) /\ Joins(Fifo!PagesFrom, page, Alone)
  BY FifoFacts
<1>3. \A k \in 1 .. Len(l) : Fifo!Bytes[l[k]] \in Bytes
  <2>1. \A k \in 1 .. Len(l) : UnreadOf(page)[l[k]] \in Seq(Byte \cup {0})
    BY <1>1, <1>2 DEF Bytes
  <2> QED BY <1>1, <1>2, <2>1, TypedAlong DEF Bytes
<1>4. Fifo!PagesFrom[StartOf(l)] = l
  BY <1>1, <1>2, PagesAlong
<1>5. CASE l = << >>
  <2>1. Fifo!Bytes[StartOf(l)] = << >>
    BY <1>2, <1>5 DEF StartOf, Joins
  <2>2. Fifo!Bytes[StartOf(l)] \in Bytes
    BY <2>1 DEF Bytes
  <2> QED BY <1>3, <1>4, <1>5, <2>1, <2>2
<1>6. CASE l # << >>
  <2>1. 1 \in 1 .. Len(l) /\ StartOf(l) = l[1]
    BY <1>1, <1>6, EmptySeq DEF StartOf
  <2> DEFINE u == UnreadOf(page)[l[1]]
             rest == IF 1 = Len(l) THEN << >> ELSE Fifo!Bytes[l[2]]
  <2>2. Fifo!Bytes[l[1]] = u \o rest
    <3>1. \A k \in 1 .. Len(l) : Joint(Fifo!Bytes, UnreadOf(page), l, k)
      BY <1>1, <1>2, JoinLink
    <3>2. 1 + 1 = 2
      OBVIOUS
    <3> QED BY <2>1, <3>1, <3>2 DEF Joint
  <2>3. u \in Bytes /\ rest \in Bytes
    <3>1. 1 # Len(l) => 2 \in 1 .. Len(l)
      <4>1. Len(l) \in Nat
        BY <1>1
      <4> QED BY <2>1, <4>1
    <3> QED BY <1>1, <1>2, <1>3, <2>1, <3>1 DEF Bytes
  <2>4. Len(u) > 0
    <3> DEFINE p == page[l[1]]
    <3>1. /\ p.head \in 0 .. PageSize /\ p.tail \in 0 .. PageSize /\ PageSize \in Nat
          /\ p.head < p.tail
      BY <1>1, <2>1, FifoFacts DEF Listed, Fifo!Page, Fifo!FifoAssumption
    <3>2. u = [i \in 1 .. p.tail - p.head |-> p.buf[p.head + i - 1]]
      BY <1>1, <2>1 DEF UnreadOf
    <3> HIDE DEF p
    <3>3. DOMAIN u = 1 .. p.tail - p.head /\ 1 \in DOMAIN u
      BY <3>1, <3>2
    <3> HIDE DEF u
    <3>4. Len(u) \in Nat /\ DOMAIN u = 1 .. Len(u)
      BY <2>3, LenProperties DEF Bytes
    <3>5. 1 \in 1 .. Len(u)
      BY <3>3, <3>4
    <3> QED BY <3>4, <3>5
  <2> HIDE DEF u, rest
  <2>5. u \o rest # << >>
    BY <2>3, <2>4 DEF Bytes
  <2> QED BY <1>3, <1>4, <1>6, <2>1, <2>2, <2>5
<1> QED BY <1>5, <1>6

-----------------------------------------------------------------------------
(* The steps.  What is found along the links after one, ...                *)
LEMMA Renewed ==
  ASSUME Fifo!FifoAssumption, Fifo!TypeOK', \E r, N : Ranked(page', r, N)
  PROVE  Joins(Fifo!Bytes', page', UnreadOf(page'))
<1>1. Fifo!Bytes' = BytesIn(page')
  BY DEF Fifo!Bytes, Fifo!Unread, BytesIn
<1>2. PICK r, N : Ranked(page', r, N)
  OBVIOUS
<1> DEFINE g == page'
<1>3. NULL \notin PageBlocks /\ g \in [PageBlocks -> Fifo!Page]
  BY DEF Fifo!FifoAssumption, Fifo!TypeOK
<1>4. Ranked(g, r, N) /\ Fifo!Bytes' = BytesIn(g)
  BY <1>1, <1>2
<1> HIDE DEF g
<1>5. \A b \in PageBlocks : g[b].nextPage \in PageBlocks \cup {NULL}
  BY <1>3 DEF Fifo!Page
<1>6. Joins(BytesIn(g), g, UnreadOf(g))
  BY <1>3, <1>4, <1>5, BytesJoin
<1> QED BY <1>4, <1>6 DEF g

(* ... and the links themselves: the same, or one more to a new page.      *)
LEMMA SameRanks ==
  ASSUME NEW g, NEW e, \A b \in PageBlocks : e[b].nextPage = g[b].nextPage,
         \E r, N : Ranked(g, r, N)
  PROVE  \E r, N : Ranked(e, r, N)
BY DEF Ranked

LEMMA NewRank ==
  ASSUME NULL \notin PageBlocks, NEW g, NEW e, NEW p \in PageBlocks, e[p].nextPage = NULL,
         \A b \in PageBlocks : b # p => e[b].nextPage \in {g[b].nextPage, p},
         \E r, N : Ranked(g, r, N)
  PROVE  \E r, N : Ranked(e, r, N)
<1>1. PICK r, N : Ranked(g, r, N)
  OBVIOUS
<1> DEFINE q == [r EXCEPT ![p] = N + 1]
<1>2. N \in Nat /\ r \in [PageBlocks -> 0 .. N] /\ N + 1 \in Nat
  BY <1>1 DEF Ranked
<1>3. q \in [PageBlocks -> 0 .. N + 1]
  BY <1>2
<1>4. ASSUME NEW b \in PageBlocks, e[b].nextPage \in PageBlocks PROVE q[b] < q[e[b].nextPage]
  <2>1. b # p
    BY <1>4
  <2>2. q[b] = r[b] /\ r[b] \in 0 .. N
    BY <1>2, <2>1
  <2>3. CASE e[b].nextPage = p
    BY <1>2, <2>2, <2>3
  <2>4. CASE e[b].nextPage # p
    <3>1. e[b].nextPage = g[b].nextPage
      BY <2>1, <2>4
    <3>2. r[b] < r[g[b].nextPage]
      BY <1>1, <1>4, <3>1 DEF Ranked
    <3> QED BY <1>2, <1>4, <2>2, <2>4, <3>1, <3>2
  <2> QED BY <2>3, <2>4
<1>5. Ranked(e, q, N + 1)
  BY <1>2, <1>3, <1>4 DEF Ranked
<1> QED BY <1>5

Served == FifoInv' /\ [Fifo!AsQueue!Next]_(Fifo!AsQueue!vars)

(* The queue is there when the handle is.                                  *)
LEMMA QueuedBytes ==
  ASSUME Fifo!FifoAssumption, FifoInv, handle # NULL, NEW l, Listed(l)
  PROVE  /\ Fifo!Queued = Fifo!Bytes[StartOf(l)] /\ Fifo!Queued \in Bytes
         /\ Fifo!Queued # NULL
         /\ handle.headPage = StartOf(l)
         /\ handle.datalen = Len(Fifo!Queued)
         /\ handle \in Fifo!Handle
<1>1. Fifo!Queued = Fifo!Bytes[StartOf(l)] /\ handle.headPage = StartOf(l)
  BY DEF Listed, Fifo!Queued
<1>2. Fifo!Queued \in Bytes
  BY <1>1, WaitingBytes
<1>3. Fifo!Queued # NULL
  BY <1>2 DEF Bytes, Fifo!FifoAssumption
<1>4. handle.datalen = Len(Fifo!Queued) /\ handle \in Fifo!Handle
  BY DEF FifoInv, Fifo!Queued, Fifo!TypeOK
<1> QED BY <1>1, <1>2, <1>3, <1>4

LEMMA CreateServed ==
  ASSUME Fifo!FifoAssumption, FifoInv, Fifo!Create
  PROVE  Served
<1>1. handle = NULL /\ used = {} /\ page' = page /\ used' = used
  BY DEF Fifo!Create, FifoInv
<1>2. Fifo!Queued = NULL
  BY <1>1 DEF Fifo!Queued
<1>3. Fifo!TypeOK /\ \E r, N : Ranked(page, r, N)
  BY DEF FifoInv
<1>4. CASE handle' = handle /\ result' = NULL
  <2>1. FifoInv'
    BY <1>1, <1>3, <1>4 DEF FifoInv, Fifo!TypeOK
  <2>2. Fifo!Queued' = NULL
    BY <1>1, <1>4 DEF Fifo!Queued
  <2> QED BY <1>2, <1>4, <2>1, <2>2 DEF Served, Fifo!AsQueue!Next, Fifo!AsQueue!Create
<1>5. CASE handle' = [datalen |-> 0, headPage |-> NULL, tailPage |-> NULL] /\ result' = 0
  <2>1. handle' \in Fifo!Handle /\ handle' # NULL
    BY <1>5 DEF Fifo!Handle, Fifo!FifoAssumption
  <2>2. Fifo!TypeOK' /\ \E r, N : Ranked(page', r, N)
    BY <1>1, <1>3, <1>5, <2>1 DEF Fifo!TypeOK
  <2>3. Fifo!Bytes'[NULL] = << >>
    BY <2>2, Renewed DEF Joins
  <2>4. Listed(<< >>)'
    BY <1>1, <1>5, EmptySeq DEF Listed, Linked, StartOf, EndOf
  <2>5. handle'.datalen = Len(Fifo!Bytes'[handle'.headPage])
    BY <1>5, <2>3
  <2>6. FifoInv'
    BY <2>1, <2>2, <2>4, <2>5 DEF FifoInv
  <2>7. Fifo!Queued' = << >>
    BY <1>5, <2>1, <2>3 DEF Fifo!Queued
  <2> QED BY <1>2, <1>5, <2>6, <2>7 DEF Served, Fifo!AsQueue!Next, Fifo!AsQueue!Create
<1> QED BY <1>1, <1>4, <1>5 DEF Fifo!Create

LEMMA DeleteServed ==
  ASSUME Fifo!FifoAssumption, FifoInv, Fifo!Delete
  PROVE  Served
<1>1. /\ handle # NULL /\ used' = Fifo!Freed /\ handle' = NULL /\ result' = 0
      /\ page' = page
  BY DEF Fifo!Delete
<1>2. PICK l : Listed(l)
  BY <1>1 DEF FifoInv
<1>3. Fifo!Queued # NULL /\ handle.headPage = StartOf(l)
  BY <1>1, <1>2, QueuedBytes
<1>4. Fifo!PagesFrom[handle.headPage] = l
  BY <1>2, <1>3, WaitingBytes
<1>5. used' = {}
  BY <1>1, <1>2, <1>4 DEF Fifo!Freed, Listed
<1>6. FifoInv'
  BY <1>1, <1>5 DEF FifoInv, Fifo!TypeOK
<1>7. Fifo!Queued' = NULL
  BY <1>1 DEF Fifo!Queued
<1> QED BY <1>1, <1>3, <1>6, <1>7 DEF Served, Fifo!AsQueue!Next, Fifo!AsQueue!Delete

-----------------------------------------------------------------------------
(* The first page and the rest of the list.                                *)
LEMMA ListOfPages ==
  ASSUME Fifo!FifoAssumption, FifoInv, NEW l, Listed(l), l # << >>
  PROVE  /\ Len(l) \in Nat \ {0} /\ \A k \in 1 .. Len(l) : l[k] \in PageBlocks
         /\ StartOf(l) = l[1] /\ EndOf(l) = l[Len(l)] /\ l[1] \in PageBlocks
         /\ Tail(l) \in Seq(PageBlocks) /\ Linked(Tail(l), page)
         /\ Len(Tail(l)) = Len(l) - 1
         /\ \A k \in 1 .. Len(l) - 1 : Tail(l)[k] = l[k + 1]
         /\ page[l[1]].nextPage = StartOf(Tail(l))
         /\ \A k \in 1 .. Len(Tail(l)) : Tail(l)[k] # l[1]
<1>1. l \in Seq(PageBlocks) /\ Linked(l, page)
  BY DEF Listed
<1>2. Len(l) \in Nat \ {0} /\ \A k \in 1 .. Len(l) : l[k] \in PageBlocks
  BY <1>1, EmptySeq, LenProperties, ElementOfSeq
<1>3. StartOf(l) = l[1] /\ EndOf(l) = l[Len(l)] /\ l[1] \in PageBlocks
  BY <1>2 DEF StartOf, EndOf
<1> DEFINE m == Tail(l)
           n == Len(l)
<1>4. m \in Seq(PageBlocks) /\ Len(m) = n - 1 /\ \A k \in 1 .. n - 1 : m[k] = l[k + 1]
  BY <1>1
<1> HIDE DEF m
<1>5. Linked(m, page)
  <2> SUFFICES ASSUME NEW k \in 1 .. Len(m)
               PROVE  page[m[k]].nextPage = IF k = Len(m) THEN NULL ELSE m[k + 1]
    BY DEF Linked
  <2>1. k + 1 \in 1 .. n /\ m[k] = l[k + 1]
    BY <1>2, <1>4
  <2>2. page[l[k + 1]].nextPage = IF k + 1 = n THEN NULL ELSE l[(k + 1) + 1]
    BY <1>1, <2>1 DEF Linked
  <2>3. CASE k = Len(m)
    BY <1>2, <1>4, <2>1, <2>2, <2>3
  <2>4. CASE k # Len(m)
    <3>1. k + 1 # n /\ k + 1 \in 1 .. n - 1
      BY <1>2, <1>4, <2>4
    <3>2. m[k + 1] = l[(k + 1) + 1]
      BY <1>4, <3>1
    <3> QED BY <2>1, <2>2, <2>4, <3>1, <3>2
  <2> QED BY <2>3, <2>4
<1>6. page[l[1]].nextPage = StartOf(m)
  <2>1. 1 \in 1 .. n
    BY <1>2
  <2>2. page[l[1]].nextPage = IF 1 = n THEN NULL ELSE l[1 + 1]
    BY <1>1, <2>1 DEF Linked
  <2>3. CASE n = 1
    <3>1. m = << >>
      BY <1>4, <2>3, EmptySeq
    <3> QED BY <2>2, <2>3, <3>1 DEF StartOf
  <2>4. CASE n # 1
    <3>1. 1 \in 1 .. n - 1 /\ Len(m) # 0
      BY <1>2, <1>4, <2>4
    <3>2. m[1] = l[1 + 1] /\ m # << >>
      BY <1>4, <3>1, EmptySeq
    <3> QED BY <2>2, <2>4, <3>2 DEF StartOf
  <2> QED BY <2>3, <2>4
<1>7. ASSUME NEW k \in 1 .. Len(m) PROVE m[k] # l[1]
  <2>1. k + 1 \in 1 .. n /\ 1 \in 1 .. n /\ k + 1 # 1 /\ m[k] = l[k + 1]
    BY <1>2, <1>4
  <2> QED BY <2>1 DEF Listed
<1> QED BY <1>2, <1>3, <1>4, <1>5, <1>6, <1>7 DEF m

(* What a get leaves of a page.                                            *)
ReadFrom(g, e, p) ==
  /\ e \in [PageBlocks -> Fifo!Page]
  /\ \A b \in PageBlocks : e[b].nextPage = g[b].nextPage /\ e[b].tail = g[b].tail
  /\ \A b \in PageBlocks : b # p => e[b] = g[b] /\ UnreadOf(e)[b] = UnreadOf(g)[b]
  /\ e[p].head = g[p].head + 1
  /\ UnreadOf(g)[p] \in Bytes => /\ Head(UnreadOf(g)[p]) = g[p].buf[g[p].head]
                                 /\ UnreadOf(g)[p] # << >>
                                 /\ UnreadOf(e)[p] = Tail(UnreadOf(g)[p])
                                 /\ Len(UnreadOf(g)[p]) = g[p].tail - g[p].head
  /\ g[p].buf[g[p].head] \in Byte \cup {0}

LEMMA OneLess ==
  ASSUME PageSize \in Nat, NEW g \in [PageBlocks -> Fifo!Page], NEW p \in PageBlocks,
         g[p].head < g[p].tail,
         NEW e, e = [g EXCEPT ![p].head = @ + 1]
  PROVE  ReadFrom(g, e, p)
<1> DEFINE x == g[p]
           y == e[p]
<1>1. /\ x.head \in 0 .. PageSize /\ x.tail \in 0 .. PageSize
      /\ x.buf \in [0 .. PageSize - 1 -> Byte \cup {0}] /\ x \in Fifo!Page
  BY DEF Fifo!Page
<1>2. y = [x EXCEPT !.head = @ + 1] /\ DOMAIN e = PageBlocks /\ e = [g EXCEPT ![p] = y]
  OBVIOUS
<1>3. y \in Fifo!Page /\ y.nextPage = x.nextPage /\ y.tail = x.tail /\ y.buf = x.buf
      /\ y.head = x.head + 1
  BY <1>1, <1>2 DEF Fifo!Page
<1>4. e \in [PageBlocks -> Fifo!Page]
  BY <1>2, <1>3
<1>5. \A b \in PageBlocks : b # p => e[b] = g[b] /\ UnreadOf(e)[b] = UnreadOf(g)[b]
  <2>1. \A b \in PageBlocks : b # p => e[b] = g[b]
    BY <1>2
  <2> QED BY <2>1 DEF UnreadOf
<1> DEFINE u == UnreadOf(g)[p]
           v == UnreadOf(e)[p]
           n == x.tail - x.head
<1>6. u = [i \in 1 .. n |-> x.buf[x.head + i - 1]]
  BY DEF UnreadOf
<1>7. v = [i \in 1 .. n - 1 |-> x.buf[x.head + i]]
  <2>1. v = [i \in 1 .. y.tail - y.head |-> y.buf[y.head + i - 1]]
    BY DEF UnreadOf
  <2> HIDE DEF y, x
  <2>2. y.tail - y.head = n - 1
    BY <1>1, <1>3
  <2>3. \A i \in 1 .. n - 1 : y.buf[y.head + i - 1] = x.buf[x.head + i]
    <3> TAKE i \in 1 .. n - 1
    <3>1. y.head + i - 1 = x.head + i
      BY <1>1, <1>3
    <3> QED BY <1>3, <3>1
  <2> QED BY <2>1, <2>2, <2>3
<1>8. n \in Nat \ {0} /\ x.head \in 0 .. PageSize - 1
  BY <1>1
<1>9. ASSUME u \in Bytes
      PROVE  /\ Head(u) = x.buf[x.head] /\ u # << >> /\ v = Tail(u) /\ Len(u) = n
  <2> HIDE DEF x, u, v, n
  <2>1. Len(u) = n
    BY <1>6, <1>8, <1>9, LenProperties DEF Bytes
  <2>2. u # << >> /\ u[1] = x.buf[x.head]
    <3>1. 1 \in 1 .. n /\ x.head + 1 - 1 = x.head
      BY <1>1, <1>8
    <3> QED BY <1>6, <1>8, <2>1, <3>1, EmptySeq
  <2>3. Head(u) = u[1]
    BY <1>9, <2>2 DEF Bytes
  <2>4. /\ Tail(u) \in Bytes /\ Len(Tail(u)) = Len(u) - 1
        /\ \A i \in 1 .. Len(Tail(u)) : Tail(u)[i] = u[i + 1]
    BY <1>9, <2>2, HeadTailProperties DEF Bytes
  <2>5. \A i \in 1 .. n - 1 : i + 1 \in 1 .. n /\ u[i + 1] = x.buf[x.head + i]
    <3> TAKE i \in 1 .. n - 1
    <3>1. i + 1 \in 1 .. n /\ x.head + (i + 1) - 1 = x.head + i
      BY <1>1, <1>8
    <3>2. u[i + 1] = x.buf[x.head + (i + 1) - 1]
      BY <1>6, <3>1
    <3> QED BY <3>1, <3>2
  <2>6. v \in Bytes /\ Len(v) = n - 1
    <3>1. \A i \in 1 .. n - 1 : x.buf[x.head + i] \in Byte \cup {0}
      <4> TAKE i \in 1 .. n - 1
      <4>1. i + 1 \in 1 .. Len(u)
        BY <2>1, <2>5
      <4> QED BY <1>9, <2>5, <4>1, ElementOfSeq DEF Bytes
    <3>2. v \in [1 .. n - 1 -> Byte \cup {0}] /\ n - 1 \in Nat
      BY <1>7, <1>8, <3>1
    <3> QED BY <3>2, SeqDef, LenProperties DEF Bytes
  <2> DEFINE w == Tail(u)
  <2>7. w \in Bytes /\ Len(w) = Len(v) /\ \A i \in 1 .. Len(v) : v[i] = w[i]
    BY <1>7, <2>1, <2>4, <2>5, <2>6
  <2> HIDE DEF w
  <2>8. v = w
    BY <2>6, <2>7, SeqEqual DEF Bytes
  <2> QED BY <2>1, <2>2, <2>3, <2>8 DEF w
<1>10. x.buf[x.head] \in Byte \cup {0}
  BY <1>1, <1>8
<1>11. \A b \in PageBlocks : e[b].nextPage = g[b].nextPage /\ e[b].tail = g[b].tail
  BY <1>3, <1>5
<1> HIDE DEF x, y, u, v, n
<1>12. /\ u \in Bytes => /\ Head(u) = x.buf[x.head] /\ u # << >> /\ v = Tail(u)
                         /\ Len(u) = x.tail - x.head
       /\ y.head = x.head + 1
  BY <1>3, <1>9 DEF n
<1> QED BY <1>4, <1>5, <1>10, <1>11, <1>12 DEF ReadFrom, x, y, u, v

(* The first byte of two sequences.                                        *)
JoinedFirst(u, z) ==
  /\ u \o z # << >> /\ Head(u \o z) = Head(u) /\ Tail(u \o z) = Tail(u) \o z
  /\ Len(Tail(u \o z)) = Len(u \o z) - 1 /\ Len(Tail(u)) = Len(u) - 1
  /\ Tail(u) \o z \in Bytes
  /\ Len(u) = 1 => Tail(u) \o z = z

LEMMA FirstOfTwo ==
  ASSUME NEW u \in Bytes, u # << >>, NEW z \in Bytes
  PROVE  JoinedFirst(u, z)
<1>1. Tail(u) \in Bytes /\ Len(Tail(u)) = Len(u) - 1
  BY DEF Bytes
<1>2. u \o z # << >> /\ Head(u \o z) = Head(u)
  BY DEF Bytes
<1> DEFINE x == Tail(u \o z)
           y == Tail(u) \o z
<1>3. x \in Bytes /\ Len(x) = Len(u) + Len(z) - 1
      /\ \A i \in 1 .. Len(x) : x[i] = (u \o z)[i + 1]
  <2>1. u \o z \in Bytes /\ Len(u \o z) = Len(u) + Len(z)
    BY DEF Bytes
  <2>2. x \in Bytes /\ Len(x) = Len(u \o z) - 1 /\ \A i \in 1 .. Len(x) : x[i] = (u \o z)[i + 1]
    BY <1>2, <2>1, HeadTailProperties DEF Bytes
  <2> QED BY <2>1, <2>2
<1>4. y \in Bytes /\ Len(y) = Len(u) - 1 + Len(z)
  BY <1>1 DEF Bytes
<1>5. Len(u) \in Nat \ {0} /\ Len(z) \in Nat
  BY EmptySeq, LenProperties DEF Bytes
<1>6. ASSUME NEW i \in 1 .. Len(x) PROVE x[i] = y[i]
  <2>1. x[i] = (u \o z)[i + 1] /\ i + 1 \in 1 .. Len(u) + Len(z)
    BY <1>3, <1>5
  <2>2. CASE i + 1 <= Len(u)
    <3>1. (u \o z)[i + 1] = u[i + 1]
      BY <1>5, <2>1, <2>2 DEF Bytes
    <3>2. i \in 1 .. Len(Tail(u))
      BY <1>1, <1>5, <2>1, <2>2
    <3>3. y[i] = Tail(u)[i]
      BY <1>1, <1>5, <3>2 DEF Bytes
    <3>4. Tail(u)[i] = u[i + 1]
      BY <3>2, HeadTailProperties DEF Bytes
    <3> QED BY <2>1, <3>1, <3>3, <3>4
  <2>3. CASE ~(i + 1 <= Len(u))
    <3>1. (u \o z)[i + 1] = z[(i + 1) - Len(u)]
      BY <1>5, <2>1, <2>3 DEF Bytes
    <3>2. y[i] = z[i - Len(Tail(u))]
      BY <1>1, <1>5, <2>1, <2>3 DEF Bytes
    <3>3. i - Len(Tail(u)) = (i + 1) - Len(u)
      BY <1>1, <1>5
    <3> QED BY <2>1, <3>1, <3>2, <3>3
  <2> QED BY <2>2, <2>3
<1>7. x = y
  <2> HIDE DEF x, y
  <2>1. Len(x) = Len(y)
    BY <1>3, <1>4, <1>5
  <2> QED BY <1>3, <1>4, <1>6, <2>1, SeqEqual DEF Bytes
<1>8. Len(u \o z) = Len(u) + Len(z)
  BY DEF Bytes
<1>9. Len(u) = 1 => y = z
  <2>1. \A s \in Bytes : Len(s) = 0 => s = << >>
    BY EmptySeq DEF Bytes
  <2> SUFFICES ASSUME Len(u) = 1 PROVE y = z
    OBVIOUS
  <2> DEFINE w == Tail(u)
  <2>2. w = << >>
    <3>1. w \in Bytes /\ Len(w) = 0
      BY <1>1
    <3> HIDE DEF w
    <3> QED BY <2>1, <3>1
  <2>3. << >> \o z = z
    BY DEF Bytes
  <2> QED BY <2>2, <2>3
<1> QED BY <1>1, <1>2, <1>3, <1>4, <1>5, <1>7, <1>8, <1>9 DEF JoinedFirst

(* A get of the empty FIFO, ...                                            *)
LEMMA EmptyGetServed ==
  ASSUME Fifo!FifoAssumption, FifoInv, Fifo!Get, handle.datalen = 0
  PROVE  Served
<1>1. handle # NULL /\ handle' = handle /\ page' = page /\ used' = used /\ result' = 0
  BY DEF Fifo!Get
<1>2. PICK l : Listed(l)
  BY <1>1 DEF FifoInv
<1>3. Fifo!Queued # NULL /\ Fifo!Queued \in Bytes /\ Len(Fifo!Queued) = 0
  BY <1>1, <1>2, QueuedBytes
<1>4. Fifo!Queued = << >>
  BY <1>3, EmptySeq DEF Bytes
<1>5. Fifo!Queued' = Fifo!Queued /\ Fifo!Bytes' = Fifo!Bytes
  BY <1>1 DEF Fifo!Queued, Fifo!Bytes, Fifo!Unread
<1>6. FifoInv'
  BY <1>1, <1>5 DEF FifoInv, Listed, Fifo!TypeOK
<1> QED BY <1>1, <1>3, <1>4, <1>5, <1>6 DEF Served, Fifo!AsQueue!Next, Fifo!AsQueue!Get

(* ... and of its first byte, with which its page may go.                  *)
LEMMA FirstGetServed ==
  ASSUME Fifo!FifoAssumption, FifoInv, Fifo!Get, handle.datalen # 0
  PROVE  Served
<1> DEFINE h == handle.headPage
           q == Fifo!Queued
           e == page'
<1>1. /\ handle # NULL /\ result' = page[h].buf[page[h].head]
      /\ e = [page EXCEPT ![h].head = @ + 1]
      /\ \/ /\ page[h].head + 1 = page[h].tail /\ used' = used \ {h}
            /\ handle' = Fifo!WithoutHead(page[h].nextPage)
         \/ /\ page[h].head + 1 # page[h].tail /\ used' = used
            /\ handle' = [handle EXCEPT !.datalen = @ - 1]
  BY DEF Fifo!Get
<1>2. PICK l : Listed(l)
  BY <1>1 DEF FifoInv
<1>3. /\ q = Fifo!Bytes[StartOf(l)] /\ q \in Bytes /\ q # NULL /\ h = StartOf(l)
      /\ handle.datalen = Len(q) /\ handle \in Fifo!Handle
  BY <1>1, <1>2, QueuedBytes
<1>4. l # << >>
  <2>1. q # << >>
    BY <1>3, EmptySeq DEF Bytes
  <2> QED BY <1>2, <1>3, <2>1, WaitingBytes
<1> DEFINE m == Tail(l)
           n == Len(l)
<1>5. /\ n \in Nat \ {0} /\ \A k \in 1 .. n : l[k] \in PageBlocks
      /\ h = l[1] /\ EndOf(l) = l[n] /\ h \in PageBlocks
      /\ m \in Seq(PageBlocks) /\ Linked(m, page) /\ Len(m) = n - 1
      /\ \A k \in 1 .. n - 1 : m[k] = l[k + 1]
      /\ page[h].nextPage = StartOf(m)
      /\ \A k \in 1 .. n - 1 : m[k] # h
  BY <1>2, <1>3, <1>4, ListOfPages
<1>6. /\ page \in [PageBlocks -> Fifo!Page] /\ NULL \notin PageBlocks
      /\ \A b \in PageBlocks : UnreadOf(page)[b] \in Bytes
      /\ Joins(Fifo!Bytes, page, UnreadOf(page)) /\ PageSize \in Nat
  BY FifoFacts DEF Fifo!FifoAssumption
<1>7. page[h].head < page[h].tail /\ page[h].head \in Nat /\ page[h].tail \in Nat
  <2>1. 1 \in 1 .. n
    BY <1>5
  <2> QED BY <1>2, <1>5, <1>6, <2>1 DEF Listed, Fifo!Page
<1> HIDE DEF m, e, h
<1> DEFINE u == UnreadOf(page)[h]
           v == UnreadOf(e)[h]
<1>8. /\ e \in [PageBlocks -> Fifo!Page]
      /\ \A b \in PageBlocks : e[b].nextPage = page[b].nextPage /\ e[b].tail = page[b].tail
      /\ \A b \in PageBlocks : b # h => e[b] = page[b] /\ UnreadOf(e)[b] = UnreadOf(page)[b]
      /\ e[h].head = page[h].head + 1
      /\ Head(u) = page[h].buf[page[h].head] /\ u # << >>
      /\ v = Tail(u) /\ Len(u) = page[h].tail - page[h].head
      /\ result' \in Byte \cup {0}
  <2>1. \A a : a = [page EXCEPT ![h].head = @ + 1] => ReadFrom(page, a, h)
    BY <1>5, <1>6, <1>7, OneLess
  <2>2. ReadFrom(page, e, h)
    BY <1>1, <2>1
  <2> QED BY <1>1, <1>5, <1>6, <2>2 DEF ReadFrom
<1>9. \E r, N : Ranked(e, r, N)
  BY <1>8, SameRanks DEF FifoInv
<1>10. handle' \in Fifo!Handle /\ handle'.datalen = Len(q) - 1
  <2>1. handle.datalen - 1 \in Nat /\ StartOf(m) \in PageBlocks \cup {NULL}
    BY <1>3, <1>5, <1>6 DEF Fifo!Handle, Fifo!Page
  <2> QED BY <1>1, <1>3, <1>5, <2>1 DEF Fifo!Handle, Fifo!WithoutHead
<1>11. Fifo!TypeOK'
  BY <1>1, <1>8, <1>10 DEF FifoInv, Fifo!TypeOK, e
<1>12. Joins(Fifo!Bytes', e, UnreadOf(e))
  BY <1>9, <1>11, Renewed DEF e
<1> DEFINE z == Fifo!Bytes[StartOf(m)]
<1>13. Linked(m, e) /\ Linked(l, e)
  <2>1. \A k \in 1 .. Len(m) : m[k] \in PageBlocks
    BY <1>5, ElementOfSeq
  <2>2. Linked(m, e)
    BY <1>5, <1>8, <2>1 DEF Linked
  <2>3. Linked(l, e)
    BY <1>2, <1>5, <1>8 DEF Linked, Listed
  <2> QED BY <2>2, <2>3
<1>14. Fifo!Bytes'[StartOf(m)] = z
  <2>1. \A k \in 1 .. Len(m) : UnreadOf(e)[m[k]] = UnreadOf(page)[m[k]]
    <3>1. \A k \in 1 .. Len(m) : m[k] \in PageBlocks /\ m[k] # h
      BY <1>5, ElementOfSeq
    <3> QED BY <1>8, <3>1
  <2> QED BY <1>5, <1>6, <1>12, <1>13, <2>1, SameAlong
<1>15. z \in Bytes
  <2>1. CASE m = << >>
    BY <1>6, <2>1 DEF StartOf, Joins, Bytes
  <2>2. CASE m # << >>
    <3>1. 1 \in 1 .. n - 1 /\ 1 + 1 \in 1 .. n
      BY <1>5, <2>2, EmptySeq
    <3>2. StartOf(m) = l[1 + 1]
      BY <1>5, <2>2, <3>1 DEF StartOf
    <3> QED BY <1>2, <3>1, <3>2, WaitingBytes
  <2> QED BY <2>1, <2>2
<1>16. q = u \o z
  BY <1>3, <1>5, <1>6 DEF Joins
<1>17. Fifo!Bytes'[h] = v \o z
  <2>1. \A b \in PageBlocks : Fifo!Bytes'[b] = UnreadOf(e)[b] \o Fifo!Bytes'[e[b].nextPage]
    BY <1>12 DEF Joins
  <2>2. e[h].nextPage = StartOf(m)
    BY <1>5, <1>8
  <2> QED BY <1>5, <1>14, <2>1, <2>2
<1>18. u \in Bytes
  BY <1>5, <1>6
<1> HIDE DEF u, v, z, q
<1>19. JoinedFirst(u, z)
  BY <1>8, <1>15, <1>18, FirstOfTwo
<1>20. /\ q # << >> /\ result' = Head(q) /\ Tail(q) = v \o z /\ Len(Tail(q)) = Len(q) - 1
       /\ Len(u) = 1 => Tail(q) = z
       /\ Tail(q) \in Bytes
  BY <1>1, <1>8, <1>16, <1>19 DEF JoinedFirst
<1>21. handle' # NULL
  BY <1>10 DEF Fifo!FifoAssumption
<1>22. CASE /\ page[h].head + 1 = page[h].tail /\ used' = used \ {h}
            /\ handle' = Fifo!WithoutHead(page[h].nextPage)
  <2>1. handle'.headPage = StartOf(m) /\ handle'.tailPage = EndOf(m)
    <3>1. /\ handle'.headPage = StartOf(m)
          /\ handle'.tailPage = IF StartOf(m) = NULL THEN NULL ELSE handle.tailPage
      BY <1>3, <1>5, <1>22 DEF Fifo!WithoutHead, Fifo!Handle
    <3>2. CASE m = << >>
      BY <3>1, <3>2 DEF StartOf, EndOf
    <3>3. CASE m # << >>
      <4>1. n - 1 \in 1 .. n - 1 /\ 1 \in 1 .. n - 1 /\ 1 + 1 \in 1 .. n /\ (n - 1) + 1 = n
        BY <1>5, <3>3, EmptySeq
      <4>2. StartOf(m) \in PageBlocks /\ EndOf(m) = l[n]
        BY <1>5, <3>3, <4>1 DEF StartOf, EndOf
      <4>3. handle.tailPage = EndOf(l)
        BY <1>2 DEF Listed
      <4> QED BY <1>5, <1>6, <3>1, <4>2, <4>3
    <3> QED BY <3>2, <3>3
  <2>2. used' = {m[k] : k \in 1 .. Len(m)}
    <3>1. used = {l[k] : k \in 1 .. n}
      BY <1>2 DEF Listed
    <3>2. ASSUME NEW b \in used' PROVE \E k \in 1 .. Len(m) : b = m[k]
      <4>1. PICK k \in 1 .. n : b = l[k] /\ k # 1
        BY <1>5, <1>22, <3>1, <3>2
      <4>2. k - 1 \in 1 .. n - 1 /\ (k - 1) + 1 = k
        BY <1>5, <4>1
      <4> QED BY <1>5, <4>1, <4>2
    <3>3. ASSUME NEW k \in 1 .. Len(m) PROVE m[k] \in used'
      <4>1. k \in 1 .. n - 1 /\ k + 1 \in 1 .. n
        BY <1>5
      <4> QED BY <1>5, <1>22, <3>1, <4>1
    <3> QED BY <3>2, <3>3
  <2>3. \A i, j \in 1 .. Len(m) : m[i] = m[j] => i = j
    <3> TAKE i, j \in 1 .. Len(m)
    <3>1. i + 1 \in 1 .. n /\ j + 1 \in 1 .. n /\ i \in 1 .. n - 1 /\ j \in 1 .. n - 1
      BY <1>5
    <3>2. l[i + 1] = l[j + 1] => i + 1 = j + 1
      BY <1>2, <3>1 DEF Listed
    <3> QED BY <1>5, <3>1, <3>2
  <2>4. \A k \in 1 .. Len(m) : e[m[k]].head < e[m[k]].tail
    <3> TAKE k \in 1 .. Len(m)
    <3>1. k + 1 \in 1 .. n /\ m[k] = l[k + 1] /\ m[k] # h /\ m[k] \in PageBlocks
      BY <1>5
    <3>2. page[m[k]].head < page[m[k]].tail
      BY <1>2, <3>1 DEF Listed
    <3> QED BY <1>8, <3>1, <3>2
  <2>5. Listed(m)'
    BY <1>5, <1>13, <2>1, <2>2, <2>3, <2>4 DEF Listed, e
  <2>6. Len(u) = 1
    BY <1>7, <1>8, <1>22
  <2>7. Fifo!Queued' = Tail(q)
    BY <1>14, <1>20, <1>21, <2>1, <2>6 DEF Fifo!Queued, z
  <2>8. handle'.datalen = Len(Fifo!Bytes'[handle'.headPage])
    BY <1>10, <1>14, <1>20, <2>1, <2>6
  <2>9. FifoInv'
    BY <1>9, <1>11, <1>21, <2>5, <2>8 DEF FifoInv, e
  <2> QED BY <1>3, <1>20, <2>7, <2>9 DEF Served, Fifo!AsQueue!Next, Fifo!AsQueue!Get, q
<1>23. CASE /\ page[h].head + 1 # page[h].tail /\ used' = used
            /\ handle' = [handle EXCEPT !.datalen = @ - 1]
  <2>1. handle'.headPage = handle.headPage /\ handle'.tailPage = handle.tailPage
    BY <1>3, <1>23 DEF Fifo!Handle
  <2>2. \A k \in 1 .. n : e[l[k]].head < e[l[k]].tail
    <3> TAKE k \in 1 .. n
    <3>1. l[k] \in PageBlocks /\ page[l[k]].head < page[l[k]].tail
      BY <1>2, <1>5 DEF Listed
    <3>2. CASE l[k] = h
      <4>1. page[h].head + 1 < page[h].tail
        BY <1>7, <1>23
      <4> QED BY <1>5, <1>8, <3>2, <4>1
    <3>3. CASE l[k] # h
      BY <1>8, <3>1, <3>3
    <3> QED BY <3>2, <3>3
  <2>3. Listed(l)'
    BY <1>2, <1>13, <1>23, <2>1, <2>2 DEF Listed, e
  <2>4. handle'.headPage = h
    BY <2>1 DEF h
  <2>5. Fifo!Queued' = Tail(q)
    BY <1>17, <1>20, <1>21, <2>4 DEF Fifo!Queued
  <2>6. handle'.datalen = Len(Fifo!Bytes'[handle'.headPage])
    BY <1>10, <1>17, <1>20, <2>4
  <2>7. FifoInv'
    BY <1>9, <1>11, <1>21, <2>3, <2>6 DEF FifoInv, e
  <2> QED BY <1>3, <1>20, <2>5, <2>7 DEF Served, Fifo!AsQueue!Next, Fifo!AsQueue!Get, q
<1> QED BY <1>1, <1>22, <1>23

(* A put into the last page: the byte comes after all that waits, ...      *)
PutsInto(g, e, t, b) ==
  /\ e \in [PageBlocks -> Fifo!Page]
  /\ \A c \in PageBlocks : e[c].nextPage = g[c].nextPage /\ e[c].head = g[c].head
  /\ \A c \in PageBlocks : c # t => e[c] = g[c] /\ UnreadOf(e)[c] = UnreadOf(g)[c]
  /\ e[t].tail = g[t].tail + 1
  /\ UnreadOf(e)[t] = Append(UnreadOf(g)[t], b)

LEMMA OneMore ==
  ASSUME PageSize \in Nat, NEW g \in [PageBlocks -> Fifo!Page], NEW t \in PageBlocks,
         g[t].head < g[t].tail, g[t].tail < PageSize, NEW b \in Byte,
         UnreadOf(g)[t] \in Bytes,
         NEW e, e = [g EXCEPT ![t].buf = [@ EXCEPT ![g[t].tail] = b], ![t].tail = @ + 1]
  PROVE  PutsInto(g, e, t, b)
<1> DEFINE x == g[t]
           y == e[t]
<1>1. /\ x.head \in 0 .. PageSize /\ x.tail \in 0 .. PageSize
      /\ x.buf \in [0 .. PageSize - 1 -> Byte \cup {0}] /\ x \in Fifo!Page
  BY DEF Fifo!Page
<1>2. y = [x EXCEPT !.buf = [@ EXCEPT ![x.tail] = b], !.tail = @ + 1]
      /\ DOMAIN e = PageBlocks /\ \A c \in PageBlocks : c # t => e[c] = g[c]
  OBVIOUS
<1> HIDE DEF x, y
<1>3. /\ y.buf = [x.buf EXCEPT ![x.tail] = b] /\ y.tail = x.tail + 1
      /\ y.nextPage = x.nextPage /\ y.head = x.head
  BY <1>1, <1>2 DEF Fifo!Page
<1>4. y.buf \in [0 .. PageSize - 1 -> Byte \cup {0}] /\ x.tail + 1 \in 0 .. PageSize
      /\ x.tail \in 0 .. PageSize - 1
  BY <1>1, <1>3 DEF x
<1>5. y \in Fifo!Page
  BY <1>1, <1>2, <1>4 DEF Fifo!Page
<1>6. e \in [PageBlocks -> Fifo!Page]
  <2>1. \A c \in PageBlocks : e[c] \in Fifo!Page
    BY <1>2, <1>5 DEF y
  <2>2. e = [c \in PageBlocks |-> e[c]]
    OBVIOUS
  <2> QED BY <2>1, <2>2
<1>7. \A c \in PageBlocks : e[c].nextPage = g[c].nextPage /\ e[c].head = g[c].head
  BY <1>2, <1>3 DEF x, y
<1>8. \A c \in PageBlocks : c # t => UnreadOf(e)[c] = UnreadOf(g)[c]
  BY <1>2 DEF UnreadOf
<1> DEFINE u == UnreadOf(g)[t]
           v == UnreadOf(e)[t]
           n == x.tail - x.head
<1>9. u = [i \in 1 .. n |-> x.buf[x.head + i - 1]] /\ n \in Nat
  BY <1>1 DEF UnreadOf, x
<1>10. v = [i \in 1 .. n + 1 |-> y.buf[x.head + i - 1]]
  <2>1. v = [i \in 1 .. y.tail - y.head |-> y.buf[y.head + i - 1]]
    BY DEF UnreadOf, y
  <2>2. y.tail - y.head = n + 1
    BY <1>1, <1>3
  <2> QED BY <1>3, <2>1, <2>2
<1> HIDE DEF u, v, n
<1>11. Len(u) = n /\ u \in Bytes
  BY <1>9, LenProperties DEF Bytes, u
<1> DEFINE w == Append(u, b)
<1>12. w \in Bytes /\ Len(w) = n + 1 /\ (\A i \in 1 .. n : w[i] = u[i]) /\ w[n + 1] = b
  BY <1>11 DEF Bytes
<1> HIDE DEF w
<1>13. ASSUME NEW i \in 1 .. n + 1 PROVE v[i] = w[i]
  <2>1. v[i] = y.buf[x.head + i - 1]
    BY <1>10
  <2>2. CASE i = n + 1
    <3>1. x.head + i - 1 = x.tail
      BY <1>1, <2>2 DEF n
    <3>2. y.buf[x.tail] = b
      BY <1>1, <1>3, <1>4
    <3> QED BY <1>12, <2>1, <2>2, <3>1, <3>2
  <2>3. CASE i # n + 1
    <3>1. i \in 1 .. n
      BY <1>9, <2>3
    <3>2. x.head + i - 1 \in 0 .. PageSize - 1 /\ x.head + i - 1 # x.tail
      BY <1>1, <1>4, <3>1 DEF n
    <3>3. y.buf[x.head + i - 1] = x.buf[x.head + i - 1]
      BY <1>1, <1>3, <3>2
    <3> QED BY <1>9, <1>12, <2>1, <3>1, <3>3
  <2> QED BY <2>2, <2>3
<1>14. v \in Bytes /\ Len(v) = n + 1
  <2>1. \A i \in 1 .. n + 1 : w[i] \in Byte \cup {0}
    BY <1>12, ElementOfSeq DEF Bytes
  <2>2. v \in [1 .. n + 1 -> Byte \cup {0}] /\ n + 1 \in Nat
    BY <1>9, <1>10, <1>13, <2>1
  <2> QED BY <2>2, SeqDef, LenProperties DEF Bytes
<1>15. v = w
  BY <1>12, <1>13, <1>14, SeqEqual DEF Bytes
<1> QED BY <1>2, <1>3, <1>6, <1>7, <1>8, <1>15 DEF PutsInto, w, v, u, x, y

LEMMA PutInPageServed ==
  ASSUME Fifo!FifoAssumption, FifoInv, NEW b \in Byte, Fifo!PutInPage(b)
  PROVE  Served
<1> DEFINE t == handle.tailPage
           q == Fifo!Queued
           e == page'
<1>1. /\ handle # NULL /\ ~Fifo!NeedsPage /\ used' = used /\ result' = b
      /\ e = [page EXCEPT ![t].buf = [@ EXCEPT ![page[t].tail] = b], ![t].tail = @ + 1]
      /\ handle' = [handle EXCEPT !.datalen = @ + 1]
  BY DEF Fifo!PutInPage
<1>2. PICK l : Listed(l)
  BY <1>1 DEF FifoInv
<1>3. /\ q = Fifo!Bytes[StartOf(l)] /\ q \in Bytes /\ q # NULL
      /\ handle.datalen = Len(q) /\ handle \in Fifo!Handle
  BY <1>1, <1>2, QueuedBytes
<1>4. t # NULL /\ ~(page[t].tail >= PageSize) /\ t = EndOf(l)
  BY <1>1, <1>2 DEF Fifo!NeedsPage, Listed
<1>5. l # << >>
  BY <1>4 DEF EndOf
<1> DEFINE n == Len(l)
<1>6. /\ n \in Nat \ {0} /\ \A k \in 1 .. n : l[k] \in PageBlocks
      /\ StartOf(l) = l[1] /\ t = l[n] /\ t \in PageBlocks /\ n \in 1 .. n
  <2>1. n \in Nat \ {0} /\ (\A k \in 1 .. n : l[k] \in PageBlocks) /\ StartOf(l) = l[1] /\ t = l[n]
    BY <1>2, <1>4, <1>5, ListOfPages
  <2> QED BY <2>1
<1>7. /\ page \in [PageBlocks -> Fifo!Page] /\ NULL \notin PageBlocks
      /\ \A c \in PageBlocks : UnreadOf(page)[c] \in Bytes
      /\ Joins(Fifo!Bytes, page, UnreadOf(page)) /\ PageSize \in Nat
  BY FifoFacts DEF Fifo!FifoAssumption
<1>8. page[t].head < page[t].tail /\ page[t].tail < PageSize
  <2>1. page[t].tail \in Nat
    BY <1>6, <1>7 DEF Fifo!Page
  <2> QED BY <1>2, <1>4, <1>6, <1>7, <2>1 DEF Listed
<1> HIDE DEF e, t, q
<1>9. PutsInto(page, e, t, b)
  <2>1. \A a : a = [page EXCEPT ![t].buf = [@ EXCEPT ![page[t].tail] = b], ![t].tail = @ + 1]
                  => PutsInto(page, a, t, b)
    BY <1>6, <1>7, <1>8, OneMore
  <2> QED BY <1>1, <2>1
<1>10. \E r, N : Ranked(e, r, N)
  BY <1>9, SameRanks DEF FifoInv, PutsInto
<1>11. handle' \in Fifo!Handle /\ handle'.datalen = Len(q) + 1
       /\ handle'.headPage = handle.headPage /\ handle'.tailPage = handle.tailPage
  <2>1. handle.datalen + 1 \in Nat
    BY <1>3 DEF Fifo!Handle
  <2> QED BY <1>1, <1>3, <2>1 DEF Fifo!Handle
<1>12. Fifo!TypeOK'
  BY <1>1, <1>9, <1>11 DEF FifoInv, Fifo!TypeOK, PutsInto, e
<1>13. Joins(Fifo!Bytes', e, UnreadOf(e))
  BY <1>10, <1>12, Renewed DEF e
<1>14. Linked(l, e) /\ Linked(l, page) /\ l \in Seq(PageBlocks)
  <2>1. Linked(l, page) /\ l \in Seq(PageBlocks)
    BY <1>2 DEF Listed
  <2> QED BY <1>6, <1>9, <2>1 DEF Linked, PutsInto
<1> DEFINE f == Fifo!Bytes
           u == UnreadOf(page)
           h == Fifo!Bytes'
           v == UnreadOf(e)
<1>15. /\ \A k \in 1 .. n : Joint(f, u, l, k)
       /\ \A k \in 1 .. n : Joint(h, v, l, k)
  BY <1>7, <1>13, <1>14, JoinLink
<1>16. \A k \in 1 .. n : f[l[k]] \in Bytes /\ u[l[k]] \in Bytes
  BY <1>2, <1>6, <1>7, WaitingBytes
<1>17. (\A c \in PageBlocks : c # t => v[c] = u[c]) /\ v[t] = Append(u[t], b)
  BY <1>9 DEF PutsInto
<1>18. ASSUME NEW k \in 1 .. n - 1
       PROVE  f[l[k]] = u[l[k]] \o f[l[k + 1]] /\ h[l[k]] = u[l[k]] \o h[l[k + 1]]
  <2>1. k \in 1 .. n /\ k # n /\ l[k] \in PageBlocks
    BY <1>6
  <2>2. l[k] # t
    BY <1>2, <1>6, <2>1 DEF Listed
  <2>3. v[l[k]] = u[l[k]]
    BY <1>17, <2>1, <2>2
  <2>4. Joint(f, u, l, k) /\ Joint(h, v, l, k)
    BY <1>15, <2>1
  <2> HIDE DEF f, u, h, v
  <2> QED BY <2>1, <2>3, <2>4 DEF Joint
<1>19. h[l[n]] = Append(f[l[n]], b)
  <2>1. Joint(f, u, l, n) /\ Joint(h, v, l, n)
    BY <1>6, <1>15
  <2> HIDE DEF f, u, h, v
  <2>2. f[t] = u[t] \o << >> /\ h[t] = v[t] \o << >>
    BY <1>6, <2>1 DEF Joint
  <2>3. u[t] \in Bytes /\ v[t] \in Bytes
    BY <1>6, <1>16, <1>17 DEF Bytes
  <2>4. f[t] = u[t] /\ h[t] = v[t]
    BY <2>2, <2>3 DEF Bytes
  <2> QED BY <1>6, <1>17, <2>4
<1>20. h[l[1]] = Append(f[l[1]], b)
  <2> HIDE DEF f, u, h, v
  <2>1. \A k \in 1 .. n : u[l[k]] \in Seq(Byte \cup {0}) /\ f[l[k]] \in Seq(Byte \cup {0})
    BY <1>16 DEF Bytes
  <2>2. b \in Byte \cup {0}
    OBVIOUS
  <2>3. LongerBy(b, h, f, l[n])
    BY <1>19 DEF LongerBy
  <2>4. LongerBy(b, h, f, l[1])
    BY <1>5, <1>14, <1>18, <2>1, <2>2, <2>3, LongerAlong
  <2> QED BY <2>4 DEF LongerBy
<1>21. Fifo!Bytes'[StartOf(l)] = Append(q, b)
  BY <1>3, <1>6, <1>20
<1>22. handle' # NULL
  BY <1>11 DEF Fifo!FifoAssumption
<1>23. \A k \in 1 .. n : e[l[k]].head < e[l[k]].tail
  <2> TAKE k \in 1 .. n
  <2>1. l[k] \in PageBlocks /\ page[l[k]].head < page[l[k]].tail
    BY <1>2, <1>6 DEF Listed
  <2>2. page[l[k]].head \in Nat /\ page[l[k]].tail \in Nat
    BY <1>7, <2>1 DEF Fifo!Page
  <2>3. CASE l[k] = t
    <3>1. e[t].head = page[t].head /\ e[t].tail = page[t].tail + 1
      BY <1>6, <1>9 DEF PutsInto
    <3> QED BY <2>1, <2>2, <2>3, <3>1
  <2>4. CASE l[k] # t
    BY <1>9, <2>1, <2>4 DEF PutsInto
  <2> QED BY <2>3, <2>4
<1>24. Listed(l)'
  BY <1>1, <1>2, <1>11, <1>14, <1>23 DEF Listed, e
<1>25. handle'.headPage = StartOf(l)
  BY <1>2, <1>11 DEF Listed
<1>26. Fifo!Queued' = Append(q, b)
  BY <1>21, <1>22, <1>25 DEF Fifo!Queued
<1>27. handle'.datalen = Len(Fifo!Bytes'[handle'.headPage])
  <2>1. Len(Append(q, b)) = Len(q) + 1
    BY <1>3 DEF Bytes
  <2> QED BY <1>11, <1>21, <1>25, <2>1
<1>28. FifoInv'
  BY <1>10, <1>12, <1>22, <1>24, <1>27 DEF FifoInv, e
<1>29. Fifo!AsQueue!Put(b)
  BY <1>1, <1>3, <1>26 DEF Fifo!AsQueue!Put, q
<1> QED BY <1>28, <1>29 DEF Served, Fifo!AsQueue!Next

(* ... and so it does if it is put into a new page behind the last one.    *)
GrowsBy(g, e, p, b, t) ==
  /\ e \in [PageBlocks -> Fifo!Page]
  /\ e[p].head = 0 /\ e[p].tail = 1 /\ e[p].nextPage = NULL /\ UnreadOf(e)[p] = <<b>>
  /\ \A c \in PageBlocks : c # p => /\ e[c].head = g[c].head /\ e[c].tail = g[c].tail
                               /\ UnreadOf(e)[c] = UnreadOf(g)[c]
                               /\ e[c].nextPage = IF c = t THEN p ELSE g[c].nextPage

LEMMA OnePageMore ==
  ASSUME PageSize \in Nat \ {0}, NULL \notin PageBlocks, NEW g \in [PageBlocks -> Fifo!Page],
         NEW p \in PageBlocks, NEW b \in Byte, NEW t, t # p, t \in PageBlocks \cup {NULL},
         NEW x, x = [g[p] EXCEPT !.buf = [@ EXCEPT ![0] = b], !.head = 0, !.tail = 1,
                                 !.nextPage = NULL],
         NEW e, e = IF t = NULL THEN [g EXCEPT ![p] = x]
                    ELSE [g EXCEPT ![p] = x, ![t].nextPage = p]
  PROVE  GrowsBy(g, e, p, b, t)
<1>1. /\ g[p] \in Fifo!Page /\ g[p].buf \in [0 .. PageSize - 1 -> Byte \cup {0}]
      /\ 0 \in 0 .. PageSize - 1 /\ 1 \in 0 .. PageSize /\ 0 \in 0 .. PageSize
  BY DEF Fifo!Page
<1>2. /\ x.head = 0 /\ x.tail = 1 /\ x.nextPage = NULL
      /\ x.buf = [g[p].buf EXCEPT ![0] = b] /\ x \in Fifo!Page
  <2>1. [g[p].buf EXCEPT ![0] = b] \in [0 .. PageSize - 1 -> Byte \cup {0}]
    BY <1>1
  <2> QED BY <1>1, <2>1 DEF Fifo!Page
<1>3. e[p] = x /\ DOMAIN e = PageBlocks /\ e = [c \in PageBlocks |-> e[c]]
  BY Zenon
<1>4. ASSUME NEW c \in PageBlocks, c # p
      PROVE  /\ e[c] \in Fifo!Page /\ e[c].head = g[c].head /\ e[c].tail = g[c].tail
             /\ e[c].buf = g[c].buf
             /\ e[c].nextPage = IF c = t THEN p ELSE g[c].nextPage
  <2>1. CASE c = t
    <3>1. e[c] = [g[c] EXCEPT !.nextPage = p] /\ g[c] \in Fifo!Page
      BY <1>4, <2>1
    <3> QED BY <2>1, <3>1 DEF Fifo!Page
  <2>2. CASE c # t
    <3>1. e[c] = g[c] /\ g[c] \in Fifo!Page
      BY <1>4, <2>2
    <3> QED BY <2>2, <3>1
  <2> QED BY <2>1, <2>2
<1>5. e \in [PageBlocks -> Fifo!Page]
  <2>1. \A c \in PageBlocks : e[c] \in Fifo!Page
    BY <1>2, <1>3, <1>4
  <2> QED BY <1>3, <2>1
<1>6. \A c \in PageBlocks : c # p => UnreadOf(e)[c] = UnreadOf(g)[c]
  <2> TAKE c \in PageBlocks
  <2>1. c # p => e[c].head = g[c].head /\ e[c].tail = g[c].tail /\ e[c].buf = g[c].buf
    BY <1>4
  <2>2. /\ UnreadOf(e)[c] = [i \in 1 .. e[c].tail - e[c].head |-> e[c].buf[e[c].head + i - 1]]
        /\ UnreadOf(g)[c] = [i \in 1 .. g[c].tail - g[c].head |-> g[c].buf[g[c].head + i - 1]]
    BY DEF UnreadOf
  <2> QED BY <2>1, <2>2
<1>7. UnreadOf(e)[p] = <<b>>
  <2> DEFINE w == UnreadOf(e)[p]
  <2>1. w = [i \in 1 .. e[p].tail - e[p].head |-> e[p].buf[e[p].head + i - 1]]
    BY Zenon DEF UnreadOf
  <2>2. x.buf[0] = b
    BY <1>1, <1>2
  <2>3. e[p].tail = 1 /\ e[p].head = 0 /\ e[p].buf[0] = b
    BY <1>2, <1>3, <2>2, Zenon
  <2> HIDE DEF w
  <2>4. DOMAIN w = 1 .. e[p].tail - e[p].head
    BY <2>1, Zenon
  <2>7. DOMAIN w = {1}
    BY <2>3, <2>4
  <2>8. w[1] = e[p].buf[e[p].head + 1 - 1]
    <3>1. 1 \in 1 .. e[p].tail - e[p].head
      BY <2>3
    <3> QED BY <2>1, <3>1, Zenon
  <2>9. w[1] = b
    BY <2>3, <2>8
  <2>10. \A D, f : f = [i \in D |-> e[p].buf[e[p].head + i - 1]] => f = [i \in DOMAIN f |-> f[i]]
    OBVIOUS
  <2>5. w = [i \in {1} |-> b]
    BY <2>1, <2>7, <2>9, <2>10
  <2>6. <<b>> = [i \in {1} |-> b]
    OBVIOUS
  <2> QED BY <2>5, <2>6 DEF w
<1> QED BY <1>2, <1>3, <1>4, <1>5, <1>6, <1>7 DEF GrowsBy

LEMMA PutInNewPageServed ==
  ASSUME Fifo!FifoAssumption, FifoInv, NEW b \in Byte, Fifo!PutInNewPage(b)
  PROVE  Served
<1> DEFINE t == handle.tailPage
           q == Fifo!Queued
           e == page'
<1>1. handle # NULL
  BY DEF Fifo!PutInNewPage
<1>2. PICK l : Listed(l)
  BY <1>1 DEF FifoInv
<1>3. /\ q = Fifo!Bytes[StartOf(l)] /\ q \in Bytes /\ q # NULL
      /\ handle.datalen = Len(q) /\ handle \in Fifo!Handle
  BY <1>1, <1>2, QueuedBytes
<1>4. CASE Fifo!OutOfMemory /\ result' = NULL
  <2>1. handle' = handle /\ page' = page /\ used' = used
    BY <1>4 DEF Fifo!OutOfMemory
  <2>2. Fifo!Queued' = q /\ Fifo!Bytes' = Fifo!Bytes
    BY <2>1 DEF Fifo!Queued, Fifo!Bytes, Fifo!Unread
  <2>3. FifoInv'
    BY <1>4, <2>1, <2>2 DEF FifoInv, Listed, Fifo!TypeOK
  <2>4. Fifo!AsQueue!Put(b)
    BY <1>3, <1>4, <2>2 DEF Fifo!AsQueue!Put
  <2> QED BY <2>3, <2>4 DEF Served, Fifo!AsQueue!Next
<1>5. ASSUME NEW p \in PageBlocks \ used, used' = used \cup {p}, result' = b,
             IF t = NULL
             THEN /\ page' = [page EXCEPT ![p] = Fifo!NewPage(p, b)]
                  /\ handle' = [handle EXCEPT !.datalen = @ + 1, !.headPage = p, !.tailPage = p]
             ELSE /\ page' = [page EXCEPT ![p] = Fifo!NewPage(p, b), ![t].nextPage = p]
                  /\ handle' = [handle EXCEPT !.datalen = @ + 1, !.tailPage = p]
      PROVE  Served
  <2> DEFINE n == Len(l)
             m == Append(l, p)
  <2>1. /\ page \in [PageBlocks -> Fifo!Page] /\ NULL \notin PageBlocks
        /\ \A c \in PageBlocks : UnreadOf(page)[c] \in Bytes
        /\ Joins(Fifo!Bytes, page, UnreadOf(page)) /\ PageSize \in Nat \ {0}
    BY FifoFacts DEF Fifo!FifoAssumption
  <2>2. l \in Seq(PageBlocks) /\ n \in Nat /\ (\A k \in 1 .. n : l[k] \in PageBlocks)
        /\ used = {l[k] : k \in 1 .. n} /\ t = EndOf(l) /\ handle.headPage = StartOf(l)
        /\ Linked(l, page)
    BY <1>2, LenProperties, ElementOfSeq DEF Listed
  <2>3. /\ m \in Seq(PageBlocks) /\ Len(m) = n + 1 /\ m[n + 1] = p
        /\ \A k \in 1 .. n : m[k] = l[k] /\ l[k] # p
    BY <1>5, <2>2
  <2>4. l # << >> => n \in 1 .. n /\ 1 \in 1 .. n /\ t = l[n] /\ StartOf(l) = l[1]
    BY <2>2, EmptySeq DEF EndOf, StartOf
  <2>5. l = << >> <=> t = NULL
    BY <2>1, <2>2, <2>4 DEF EndOf
  <2>6. m # << >> /\ StartOf(m) = (IF l = << >> THEN p ELSE l[1]) /\ EndOf(m) = p
    <3>1. m # << >>
      <4>1. Len(m) # 0
        BY <2>2, <2>3
      <4> QED BY <4>1, EmptySeq
    <3>2. l = << >> => n + 1 = 1
      BY <2>2, EmptySeq
    <3>3. l # << >> => m[1] = l[1]
      BY <2>3, <2>4
    <3> HIDE DEF m
    <3> QED BY <2>3, <3>1, <3>2, <3>3 DEF StartOf, EndOf
  <2> HIDE DEF m, e, q
  <2>7. GrowsBy(page, e, p, b, t)
    <3>1. t \in PageBlocks \cup {NULL} /\ t # p
      BY <1>5, <2>1, <2>2, <2>3, <2>4, <2>5
    <3> DEFINE x == Fifo!NewPage(p, b)
    <3>2. x = [page[p] EXCEPT !.buf = [@ EXCEPT ![0] = b], !.head = 0, !.tail = 1,
                              !.nextPage = NULL]
      BY DEF Fifo!NewPage
    <3>3. e = IF t = NULL THEN [page EXCEPT ![p] = x]
              ELSE [page EXCEPT ![p] = x, ![t].nextPage = p]
      BY <1>5 DEF e
    <3> HIDE DEF x, t
    <3> QED BY <2>1, <3>1, <3>2, <3>3, OnePageMore
  <2>8. /\ handle' \in Fifo!Handle /\ handle'.datalen = Len(q) + 1
        /\ handle'.headPage = StartOf(m) /\ handle'.tailPage = EndOf(m)
    <3>1. handle.datalen + 1 \in Nat
      BY <1>3 DEF Fifo!Handle
    <3>2. CASE t = NULL
      BY <1>3, <1>5, <2>5, <2>6, <3>1, <3>2 DEF Fifo!Handle
    <3>3. CASE t # NULL
      <4>1. handle.headPage = StartOf(m)
        BY <2>2, <2>4, <2>5, <2>6, <3>3
      <4> QED BY <1>3, <1>5, <2>6, <3>1, <3>3, <4>1 DEF Fifo!Handle
    <3> QED BY <3>2, <3>3
  <2> HIDE DEF t
  <2>9. \E r, N : Ranked(e, r, N)
    <3>1. \A c \in PageBlocks : c # p => e[c].nextPage \in {page[c].nextPage, p}
      BY <2>7 DEF GrowsBy
    <3>2. e[p].nextPage = NULL
      BY <2>7 DEF GrowsBy
    <3>3. \E r, N : Ranked(page, r, N)
      BY DEF FifoInv
    <3> QED BY <2>1, <3>1, <3>2, <3>3, NewRank
  <2>10. Fifo!TypeOK'
    BY <1>5, <2>7, <2>8 DEF FifoInv, Fifo!TypeOK, GrowsBy, e
  <2>11. Joins(Fifo!Bytes', e, UnreadOf(e))
    BY <2>9, <2>10, Renewed DEF e
  <2>12. Linked(m, e)
    <3> SUFFICES ASSUME NEW k \in 1 .. n + 1
                 PROVE  e[m[k]].nextPage = IF k = n + 1 THEN NULL ELSE m[k + 1]
      BY <2>3 DEF Linked
    <3>1. CASE k = n + 1
      BY <2>3, <2>7, <3>1 DEF GrowsBy
    <3>2. CASE k # n + 1
      <4>1. k \in 1 .. n /\ n \in 1 .. n /\ l # << >>
        BY <2>2, <3>2, EmptySeq
      <4>2. e[l[k]].nextPage = IF l[k] = t THEN p ELSE page[l[k]].nextPage
        BY <2>2, <2>3, <2>7, <4>1 DEF GrowsBy
      <4>3. CASE k = n
        BY <2>3, <2>4, <4>1, <4>2, <4>3
      <4>4. CASE k # n
        <5>1. l[k] # t /\ k + 1 \in 1 .. n
          BY <1>2, <2>2, <2>4, <4>1, <4>4 DEF Listed
        <5>2. page[l[k]].nextPage = l[k + 1]
          BY <2>2, <4>1, <4>4 DEF Linked
        <5> QED BY <2>3, <3>2, <4>1, <4>2, <5>1, <5>2
      <4> QED BY <4>3, <4>4
    <3> QED BY <3>1, <3>2
  <2> DEFINE f == Fifo!Bytes
             u == UnreadOf(page)
             h == Fifo!Bytes'
             v == UnreadOf(e)
  <2>13. \A k \in 1 .. n : Joint(f, u, l, k)
    BY <2>1, <2>2, JoinLink
  <2>14. \A k \in 1 .. n + 1 : Joint(h, v, m, k)
    <3>1. \A k \in 1 .. Len(m) : Joint(h, v, m, k)
      BY <2>3, <2>11, <2>12, JoinLink
    <3> QED BY <2>3, <3>1
  <2>15. v[p] = <<b>> /\ \A k \in 1 .. n : v[l[k]] = u[l[k]]
    BY <2>2, <2>3, <2>7 DEF GrowsBy
  <2>16. \A k \in 1 .. n : f[l[k]] \in Bytes /\ u[l[k]] \in Bytes
    BY <1>2, <2>1, <2>2, WaitingBytes
  <2> HIDE DEF f, u, h, v
  <2>17. h[p] = <<b>>
    <3>1. n + 1 \in 1 .. n + 1
      BY <2>2
    <3>2. h[p] = v[p] \o << >>
      BY <2>3, <2>14, <3>1 DEF Joint
    <3> QED BY <2>15, <3>2
  <2>18. h[StartOf(m)] = Append(q, b)
    <3>1. CASE l = << >>
      <4>1. q = << >>
        <5>1. StartOf(l) = NULL /\ f[NULL] = << >>
          BY <2>1, <3>1 DEF StartOf, Joins, f
        <5> QED BY <1>3, <5>1 DEF f, q
      <4> QED BY <2>6, <2>17, <3>1, <4>1
    <3>2. CASE l # << >>
      <4>1. ASSUME NEW k \in 1 .. n - 1
            PROVE  f[l[k]] = u[l[k]] \o f[l[k + 1]] /\ h[l[k]] = u[l[k]] \o h[l[k + 1]]
        <5>1. k \in 1 .. n /\ k # n /\ k + 1 \in 1 .. n /\ k \in 1 .. n + 1 /\ k # n + 1
          BY <2>2
        <5>2. Joint(f, u, l, k) /\ Joint(h, v, m, k)
          BY <2>13, <2>14, <5>1
        <5> QED BY <2>3, <2>15, <5>1, <5>2 DEF Joint
      <4>2. LongerBy(b, h, f, l[n])
        <5>1. n \in 1 .. n /\ n \in 1 .. n + 1 /\ n # n + 1
          BY <2>2, <2>4, <3>2
        <5>2. Joint(f, u, l, n) /\ Joint(h, v, m, n)
          BY <2>13, <2>14, <5>1
        <5> DEFINE y == u[l[n]]
        <5>3. f[l[n]] = y \o << >> /\ h[l[n]] = y \o h[p] /\ y \in Bytes
          BY <2>3, <2>15, <2>16, <5>1, <5>2 DEF Joint
        <5> HIDE DEF y
        <5>4. y \o << >> = y /\ y \o <<b>> = Append(y, b)
          BY <5>3 DEF Bytes
        <5> QED BY <2>17, <5>3, <5>4 DEF LongerBy
      <4>3. \A k \in 1 .. n : u[l[k]] \in Seq(Byte \cup {0}) /\ f[l[k]] \in Seq(Byte \cup {0})
        BY <2>16 DEF Bytes
      <4>4. b \in Byte \cup {0}
        OBVIOUS
      <4>5. LongerBy(b, h, f, l[1])
        BY <2>2, <3>2, <4>1, <4>2, <4>3, <4>4, LongerAlong
      <4>6. q = f[l[1]]
        BY <1>3, <2>4, <3>2 DEF f, q
      <4> QED BY <2>6, <3>2, <4>5, <4>6 DEF LongerBy
    <3> QED BY <3>1, <3>2
  <2>19. handle' # NULL
    BY <2>8 DEF Fifo!FifoAssumption
  <2>20. used' = {m[k] : k \in 1 .. n + 1}
    <3>1. ASSUME NEW c \in used' PROVE \E k \in 1 .. n + 1 : c = m[k]
      <4>1. CASE c = p
        BY <2>2, <2>3, <4>1
      <4>2. CASE c # p
        <5>1. PICK k \in 1 .. n : c = l[k]
          BY <1>5, <2>2, <3>1, <4>2
        <5> QED BY <2>2, <2>3, <5>1
      <4> QED BY <4>1, <4>2
    <3>2. ASSUME NEW k \in 1 .. n + 1 PROVE m[k] \in used'
      <4>1. k = n + 1 \/ k \in 1 .. n
        BY <2>2
      <4> QED BY <1>5, <2>2, <2>3, <4>1
    <3> QED BY <3>1, <3>2
  <2>21. \A i, j \in 1 .. n + 1 : m[i] = m[j] => i = j
    <3> TAKE i, j \in 1 .. n + 1
    <3>1. (i = n + 1 \/ i \in 1 .. n) /\ (j = n + 1 \/ j \in 1 .. n)
      BY <2>2
    <3>2. i \in 1 .. n /\ j \in 1 .. n => (l[i] = l[j] => i = j)
      BY <1>2 DEF Listed
    <3> QED BY <2>3, <3>1, <3>2
  <2>22. \A k \in 1 .. n + 1 : e[m[k]].head < e[m[k]].tail
    <3> TAKE k \in 1 .. n + 1
    <3>1. CASE k = n + 1
      BY <2>3, <2>7, <3>1 DEF GrowsBy
    <3>2. CASE k # n + 1
      <4>1. k \in 1 .. n
        BY <2>2, <3>2
      <4>2. page[l[k]].head < page[l[k]].tail
        BY <1>2, <4>1 DEF Listed
      <4> QED BY <2>2, <2>3, <2>7, <4>1, <4>2 DEF GrowsBy
    <3> QED BY <3>1, <3>2
  <2>23. Listed(m)'
    BY <2>3, <2>8, <2>12, <2>20, <2>21, <2>22 DEF Listed, e
  <2>24. Fifo!Queued' = Append(q, b)
    BY <2>8, <2>18, <2>19 DEF Fifo!Queued, h
  <2>25. handle'.datalen = Len(Fifo!Bytes'[handle'.headPage])
    <3>1. Len(Append(q, b)) = Len(q) + 1
      BY <1>3 DEF Bytes
    <3> QED BY <2>8, <2>18, <3>1 DEF h
  <2>26. FifoInv'
    BY <2>9, <2>10, <2>19, <2>23, <2>25 DEF FifoInv, e
  <2>27. Fifo!AsQueue!Put(b)
    BY <1>3, <1>5, <2>24 DEF Fifo!AsQueue!Put, q
  <2> QED BY <2>26, <2>27 DEF Served, Fifo!AsQueue!Next
<1> QED BY <1>4, <1>5 DEF Fifo!PutInNewPage

-----------------------------------------------------------------------------
LEMMA FirstServed ==
  ASSUME Fifo!FifoAssumption, Fifo!Init
  PROVE  FifoInv /\ Fifo!AsQueue!Init
<1>1. /\ handle = NULL /\ used = {} /\ result = NULL
      /\ page = [b \in PageBlocks |-> [buf |-> [i \in 0 .. PageSize - 1 |-> 0],
                                   head |-> 0, tail |-> 0, nextPage |-> NULL]]
  BY DEF Fifo!Init
<1>2. Fifo!TypeOK
  <2>1. [i \in 0 .. PageSize - 1 |-> 0] \in [0 .. PageSize - 1 -> Byte \cup {0}]
    OBVIOUS
  <2>2. 0 \in 0 .. PageSize
    BY DEF Fifo!FifoAssumption
  <2> QED BY <1>1, <2>1, <2>2 DEF Fifo!TypeOK, Fifo!Page
<1>3. \E r, N : Ranked(page, r, N)
  <2>1. \A b \in PageBlocks : page[b].nextPage \notin PageBlocks
    BY <1>1 DEF Fifo!FifoAssumption
  <2>2. 0 \in Nat /\ [b \in PageBlocks |-> 0] \in [PageBlocks -> 0 .. 0]
    OBVIOUS
  <2>3. Ranked(page, [b \in PageBlocks |-> 0], 0)
    BY <2>1, <2>2 DEF Ranked
  <2> QED BY <2>3
<1> QED BY <1>1, <1>2, <1>3 DEF FifoInv, Fifo!AsQueue!Init, Fifo!Queued

LEMMA StepServed ==
  ASSUME Fifo!FifoAssumption, FifoInv, [Fifo!Next]_(Fifo!vars)
  PROVE  Served
<1>1. CASE Fifo!Create
  BY <1>1, CreateServed
<1>2. CASE Fifo!Get
  BY <1>2, EmptyGetServed, FirstGetServed
<1>3. CASE Fifo!Delete
  BY <1>3, DeleteServed
<1>4. ASSUME NEW b \in Byte, Fifo!PutInNewPage(b) PROVE Served
  BY <1>4, PutInNewPageServed
<1>5. ASSUME NEW b \in Byte, Fifo!PutInPage(b) PROVE Served
  BY <1>5, PutInPageServed
<1>6. CASE UNCHANGED Fifo!vars
  <2>1. handle' = handle /\ page' = page /\ used' = used /\ result' = result
    BY <1>6 DEF Fifo!vars
  <2>2. Fifo!Queued' = Fifo!Queued /\ Fifo!Bytes' = Fifo!Bytes
    BY <2>1 DEF Fifo!Queued, Fifo!Bytes, Fifo!Unread
  <2>3. FifoInv'
    BY <2>1, <2>2 DEF FifoInv, Listed, Fifo!TypeOK
  <2> QED BY <2>1, <2>2, <2>3 DEF Served, Fifo!AsQueue!vars
<1> QED BY <1>1, <1>2, <1>3, <1>4, <1>5, <1>6 DEF Fifo!Next

(* For every heap, every page size and every byte: pages that come and go  *)
(* are one queue of bytes, as FifoIsQueue of the run services says it is.  *)
THEOREM ByteFifoIsQueue ==
  ASSUME Fifo!FifoAssumption
  PROVE  Fifo!Spec => Fifo!FifoIsQueue
<1>1. Fifo!Init => FifoInv /\ Fifo!AsQueue!Init
  BY FirstServed
<1>2. FifoInv /\ [Fifo!Next]_(Fifo!vars) => FifoInv' /\ [Fifo!AsQueue!Next]_(Fifo!AsQueue!vars)
  BY StepServed DEF Served
<1> QED BY <1>1, <1>2, PTL DEF Fifo!Spec, Fifo!FifoIsQueue, Fifo!AsQueue!Spec

(* The invariant says what the heap and the callers rely on.               *)
LEMMA FifoInvSays ==
  ASSUME Fifo!FifoAssumption, FifoInv
  PROVE  Fifo!TypeOK /\ Fifo!PagesAccounted /\ Fifo!LengthIsBytes
<1>1. Fifo!TypeOK
  BY DEF FifoInv
<1>2. CASE handle = NULL
  BY <1>1, <1>2 DEF FifoInv, Fifo!PagesAccounted, Fifo!LengthIsBytes, Fifo!ListOf
<1>3. CASE handle # NULL
  <2>1. PICK l : Listed(l)
    BY <1>3 DEF FifoInv
  <2>2. handle.datalen = Len(Fifo!Queued) /\ handle.headPage = StartOf(l)
    BY <1>3, <2>1, QueuedBytes
  <2>3. Fifo!PagesFrom[handle.headPage] = l
    BY <2>1, <2>2, WaitingBytes
  <2> QED BY <1>1, <1>3, <2>1, <2>2, <2>3
          DEF Fifo!PagesAccounted, Fifo!LengthIsBytes, Fifo!ListOf, Listed, EndOf
<1> QED BY <1>2, <1>3

(* The heap gets every page back once, the list holds none that it has     *)
(* back, and osal_fifo_len is the number of bytes that can be got.         *)
THEOREM ByteFifoPages ==
  ASSUME Fifo!FifoAssumption
  PROVE  Fifo!Spec => [](Fifo!TypeOK /\ Fifo!PagesAccounted /\ Fifo!LengthIsBytes)
<1>1. Fifo!Init => FifoInv
  BY FirstServed
<1>2. FifoInv /\ [Fifo!Next]_(Fifo!vars) => FifoInv'
  BY StepServed DEF Served
<1>3. FifoInv => Fifo!TypeOK /\ Fifo!PagesAccounted /\ Fifo!LengthIsBytes
  BY FifoInvSays
<1> QED BY <1>1, <1>2, <1>3, PTL DEF Fifo!Spec

-----------------------------------------------------------------------------
(* The message queues as linked lists, OsalQueue: for every set of messages *)
(* and tasks the links keep to the sequences that MsgQueues promises.       *)

LEMMA SameSets ==
  /\ \A S : Queue!Cardinality(S) = Cardinality(S)
  /\ \A S : Queue!IsFiniteSet(S) <=> IsFiniteSet(S)
BY DEF Queue!Cardinality, Cardinality, Queue!IsFiniteSet, IsFiniteSet

(* The list l of messages, linked by g from its first message to its last. *)
Chained(l, g) ==
  \A k \in 1 .. Len(l) : g[l[k]] = IF k = Len(l) THEN NULL ELSE l[k + 1]

(* A walk from s along the links g, as far as the n-th message.            *)
Walked(s, g) ==
  CHOOSE f : f = [n \in Nat |->
    IF n = 0 THEN << >>
    ELSE LET before == f[n - 1]
             at == IF n = 1 THEN s
                   ELSE IF Len(before) < n - 1 THEN NULL ELSE g[before[n - 1]]
         IN  IF at = NULL THEN before ELSE Append(before, at)]

LEMMA WalkIsWalked ==
  \A q : Queue!Walk(q) = Walked(queue[q], next)[Queue!Cardinality(Msgs) + 1]
BY Zenon DEF Queue!Walk, Walked

LEMMA WalkedAlong ==
  ASSUME NULL \notin Msgs, NEW l \in Seq(Msgs), NEW g, Chained(l, g),
         NEW N \in Nat, Len(l) <= N
  PROVE  Walked(StartOf(l), g)[N] = l
<1>1. Walked(StartOf(l), g) = WalkFrom(FirstOf(l, NULL), g, NULL)
  BY Zenon DEF Walked, WalkFrom, StartOf, FirstOf
<1>2. LinkedTo(l, g, NULL)
  BY DEF Chained, LinkedTo
<1> QED BY <1>1, <1>2, WalkFinds

-----------------------------------------------------------------------------
(* Lists that grow at either end, and lose a message.                      *)
LEMMA OfList ==
  ASSUME NEW l \in Seq(Msgs)
  PROVE  /\ Len(l) \in Nat /\ (\A k \in 1 .. Len(l) : l[k] \in Msgs)
         /\ l # << >> => /\ Len(l) \in 1 .. Len(l) /\ 1 \in 1 .. Len(l) /\ StartOf(l) = l[1]
                         /\ Len(l) # 0
         /\ l = << >> => Len(l) = 0 /\ StartOf(l) = NULL
<1>1. Len(l) \in Nat /\ (\A k \in 1 .. Len(l) : l[k] \in Msgs)
  BY LenProperties, ElementOfSeq
<1>2. l # << >> => Len(l) # 0
  BY EmptySeq
<1> QED BY <1>1, <1>2 DEF StartOf

Linking(l, g) == l \in Seq(Msgs) /\ Distinct(l) /\ Chained(l, g)

LEMMA SameLinks ==
  ASSUME NEW l, NEW g, Linking(l, g), NEW e, \A b \in SetOf(l) : e[b] = g[b]
  PROVE  Linking(l, e)
BY DEF Linking, SetOf, Chained

Enqueued(l, m, e) ==
  /\ Linking(Append(l, m), e) /\ SetOf(Append(l, m)) = SetOf(l) \cup {m}
  /\ StartOf(Append(l, m)) = IF l = << >> THEN m ELSE StartOf(l)

LEMMA LinkedLast ==
  ASSUME NULL \notin Msgs, NEW l, NEW g, Linking(l, g), NEW m \in Msgs, m \notin SetOf(l),
         NEW e, e[m] = NULL, l # << >> => e[l[Len(l)]] = m,
         \A b \in SetOf(l) : b # l[Len(l)] => e[b] = g[b]
  PROVE  Enqueued(l, m, e)
<1> DEFINE n == Len(l)
           x == Append(l, m)
<1>1. l \in Seq(Msgs) /\ Distinct(l) /\ Chained(l, g)
  BY DEF Linking
<1>2. /\ n \in Nat /\ (\A k \in 1 .. n : l[k] \in Msgs /\ l[k] \in SetOf(l) /\ l[k] # m)
      /\ l # << >> => n \in 1 .. n /\ 1 \in 1 .. n /\ StartOf(l) = l[1]
      /\ l = << >> => n = 0
  BY <1>1, OfList DEF SetOf
<1>3. /\ x \in Seq(Msgs) /\ Len(x) = n + 1 /\ (\A k \in 1 .. n : x[k] = l[k]) /\ x[n + 1] = m
      /\ x # << >>
  BY <1>1, AppendProperties
<1> HIDE DEF x
<1>4. Distinct(x)
  <2> SUFFICES ASSUME NEW i \in 1 .. n + 1, NEW j \in 1 .. n + 1, x[i] = x[j] PROVE i = j
    BY <1>3 DEF Distinct
  <2>1. (i = n + 1 \/ i \in 1 .. n) /\ (j = n + 1 \/ j \in 1 .. n)
    BY <1>2
  <2> QED BY <1>1, <1>2, <1>3, <2>1 DEF Distinct
<1>5. Chained(x, e)
  <2> SUFFICES ASSUME NEW k \in 1 .. n + 1
               PROVE  e[x[k]] = IF k = n + 1 THEN NULL ELSE x[k + 1]
    BY <1>3 DEF Chained
  <2>1. CASE k = n + 1
    BY <1>3, <2>1
  <2>2. CASE k = n /\ k # n + 1
    <3>1. l # << >> /\ x[k] = l[n] /\ x[k + 1] = m
      BY <1>2, <1>3, <2>2
    <3> QED BY <2>2, <3>1
  <2>3. CASE k # n /\ k # n + 1
    <3>1. k \in 1 .. n /\ k + 1 \in 1 .. n /\ n \in 1 .. n
      BY <1>2, <2>3
    <3>2. l[k] # l[n] /\ l[k] \in SetOf(l)
      BY <1>1, <1>2, <2>3, <3>1 DEF Distinct
    <3>3. e[l[k]] = g[l[k]] /\ g[l[k]] = l[k + 1]
      BY <1>1, <2>3, <3>1, <3>2 DEF Chained
    <3> QED BY <1>3, <2>3, <3>1, <3>3
  <2> QED BY <2>1, <2>2, <2>3
<1>6. SetOf(x) = SetOf(l) \cup {m}
  <2>1. \A k : k \in 1 .. n + 1 <=> k = n + 1 \/ k \in 1 .. n
    BY <1>2
  <2> QED BY <1>3, <2>1 DEF SetOf
<1>7. StartOf(x) = IF l = << >> THEN m ELSE StartOf(l)
  BY <1>2, <1>3 DEF StartOf
<1> QED BY <1>3, <1>4, <1>5, <1>6, <1>7 DEF Enqueued, Linking, x

Pushed(l, m, e) ==
  /\ Linking(<<m>> \o l, e) /\ SetOf(<<m>> \o l) = SetOf(l) \cup {m}
  /\ StartOf(<<m>> \o l) = m

LEMMA OneBefore ==
  ASSUME NEW S, NEW l \in Seq(S), NEW m \in S
  PROVE  /\ <<m>> \o l \in Seq(S) /\ Len(<<m>> \o l) = 1 + Len(l)
         /\ \A k \in 1 .. 1 + Len(l) : (<<m>> \o l)[k] = IF k <= 1 THEN m ELSE l[k - 1]
<1>0. <<m>> \in Seq(S)
  OBVIOUS
<1>1. PICK y \in Seq(S) : y = <<m>>
  BY Zenon, <1>0
<1>2. Len(y) = 1 /\ y[1] = m
  BY <1>1
<1>3. /\ y \o l \in Seq(S) /\ Len(y \o l) = Len(y) + Len(l)
      /\ \A k \in 1 .. Len(y) + Len(l) : (y \o l)[k] = IF k <= Len(y) THEN y[k] ELSE l[k - Len(y)]
  BY ConcatProperties
<1>4. \A k \in 1 .. 1 + Len(l) : k <= 1 => k = 1
  BY LenProperties
<1> QED BY <1>1, <1>2, <1>3, <1>4

LEMMA LinkedFirst ==
  ASSUME NULL \notin Msgs, NEW l, NEW g, Linking(l, g), NEW m \in Msgs, m \notin SetOf(l),
         NEW e, e[m] = StartOf(l), \A b \in SetOf(l) : e[b] = g[b]
  PROVE  Pushed(l, m, e)
<1> DEFINE n == Len(l)
           y == <<m>>
           x == y \o l
<1>1. l \in Seq(Msgs) /\ Distinct(l) /\ Chained(l, g)
  BY DEF Linking
<1>2. /\ n \in Nat /\ (\A k \in 1 .. n : l[k] \in Msgs /\ l[k] \in SetOf(l) /\ l[k] # m)
      /\ l # << >> => n \in 1 .. n /\ 1 \in 1 .. n /\ StartOf(l) = l[1]
      /\ l = << >> => n = 0 /\ StartOf(l) = NULL
  BY <1>1, OfList DEF SetOf
<1>3. /\ x \in Seq(Msgs) /\ Len(x) = n + 1 /\ x[1] = m
      /\ (\A k \in 2 .. n + 1 : x[k] = l[k - 1])
      /\ x # << >>
  <2>1. /\ x \in Seq(Msgs) /\ Len(x) = 1 + n
        /\ \A k \in 1 .. 1 + n : x[k] = IF k <= 1 THEN m ELSE l[k - 1]
    BY <1>1, OneBefore
  <2>2. \A k \in 2 .. n + 1 : k \in 1 .. 1 + n /\ ~(k <= 1)
    BY <1>2
  <2>3. 1 \in 1 .. 1 + n /\ 1 + n = n + 1 /\ 1 + n # 0
    BY <1>2
  <2> HIDE DEF x
  <2>4. x # << >>
    BY <2>1, <2>3
  <2> QED BY <2>1, <2>2, <2>3, <2>4
<1> HIDE DEF x
<1>4. Distinct(x)
  <2> SUFFICES ASSUME NEW i \in 1 .. n + 1, NEW j \in 1 .. n + 1, x[i] = x[j] PROVE i = j
    BY <1>3 DEF Distinct
  <2>1. \A k \in 1 .. n + 1 :
          k = 1 \/ (k \in 2 .. n + 1 /\ k - 1 \in 1 .. n /\ x[k] = l[k - 1] /\ x[k] # m)
    BY <1>2, <1>3
  <2>2. CASE i = 1
    BY <1>3, <2>1, <2>2
  <2>3. CASE i # 1
    <3>1. j # 1 /\ l[i - 1] = l[j - 1] /\ i - 1 \in 1 .. n /\ j - 1 \in 1 .. n
      BY <1>3, <2>1, <2>3
    <3>2. i - 1 = j - 1
      BY <1>1, <3>1 DEF Distinct
    <3> QED BY <1>2, <3>2
  <2> QED BY <2>2, <2>3
<1>5. Chained(x, e)
  <2> SUFFICES ASSUME NEW k \in 1 .. n + 1
               PROVE  e[x[k]] = IF k = n + 1 THEN NULL ELSE x[k + 1]
    BY <1>3 DEF Chained
  <2>1. CASE k = 1
    <3>1. n # 0 => 2 \in 2 .. n + 1 /\ x[2] = l[1]
      BY <1>2, <1>3
    <3>2. n # 0 => l # << >>
      OBVIOUS
    <3> QED BY <1>2, <1>3, <2>1, <3>1, <3>2
  <2>2. CASE k # 1
    <3>1. k \in 2 .. n + 1 /\ k - 1 \in 1 .. n
      BY <1>2, <2>2
    <3>2. x[k] = l[k - 1] /\ e[l[k - 1]] = g[l[k - 1]]
      BY <1>2, <1>3, <3>1
    <3>3. g[l[k - 1]] = IF k - 1 = n THEN NULL ELSE l[(k - 1) + 1]
      BY <1>1, <3>1 DEF Chained
    <3>4. k # n + 1 => k + 1 \in 2 .. n + 1 /\ (k + 1) - 1 = k /\ (k - 1) + 1 = k
      BY <1>2, <3>1
    <3>5. k # n + 1 => x[k + 1] = l[(k - 1) + 1]
      BY <1>3, <3>4
    <3> QED BY <1>2, <3>1, <3>2, <3>3, <3>5
  <2> QED BY <2>1, <2>2
<1>6. SetOf(x) = SetOf(l) \cup {m}
  <2>1. ASSUME NEW b \in SetOf(x) PROVE b \in SetOf(l) \cup {m}
    <3>1. PICK k \in 1 .. n + 1 : b = x[k]
      BY <1>3, <2>1 DEF SetOf
    <3>2. k # 1 => k \in 2 .. n + 1 /\ k - 1 \in 1 .. n
      BY <1>2
    <3> QED BY <1>2, <1>3, <3>1, <3>2
  <2>2. ASSUME NEW b \in SetOf(l) \cup {m} PROVE b \in SetOf(x)
    <3>1. CASE b = m
      <4>1. 1 \in 1 .. n + 1
        BY <1>2
      <4> QED BY <1>3, <3>1, <4>1 DEF SetOf
    <3>2. CASE b # m
      <4>1. PICK k \in 1 .. n : b = l[k]
        BY <2>2, <3>2 DEF SetOf
      <4>2. k + 1 \in 2 .. n + 1 /\ k + 1 \in 1 .. n + 1 /\ (k + 1) - 1 = k
        BY <1>2
      <4>3. x[k + 1] = b
        BY <1>3, <4>1, <4>2
      <4> QED BY <1>3, <4>2, <4>3 DEF SetOf
    <3> QED BY <3>1, <3>2
  <2> QED BY <2>1, <2>2
<1>7. StartOf(x) = m
  BY <1>3 DEF StartOf
<1> QED BY <1>3, <1>4, <1>5, <1>6, <1>7 DEF Pushed, Linking, x

Removed(l, i) == [k \in 1 .. Len(l) - 1 |-> l[IF k < i THEN k ELSE k + 1]]

LEMMA OfRemoved ==
  ASSUME NEW l \in Seq(Msgs), NEW i \in 1 .. Len(l)
  PROVE  /\ Removed(l, i) \in Seq(Msgs) /\ Len(Removed(l, i)) = Len(l) - 1
         /\ \A k \in 1 .. Len(l) - 1 : Removed(l, i)[k] = l[IF k < i THEN k ELSE k + 1]
<1> DEFINE n == Len(l)
           x == Removed(l, i)
<1>1. n \in Nat /\ n - 1 \in Nat /\ \A k \in 1 .. n : l[k] \in Msgs
  BY OfList
<1>2. \A k \in 1 .. n - 1 : l[IF k < i THEN k ELSE k + 1] \in Msgs
  <2> TAKE k \in 1 .. n - 1
  <2>1. (IF k < i THEN k ELSE k + 1) \in 1 .. n
    BY <1>1
  <2> QED BY <1>1, <2>1
<1>3. x \in [1 .. n - 1 -> Msgs]
  BY <1>2 DEF Removed
<1>4. x \in Seq(Msgs) /\ Len(x) = n - 1
  BY <1>1, <1>3, SeqDef, LenProperties
<1> QED BY <1>4 DEF Removed

Unlinked(l, i, g, e) ==
  /\ Linking(Removed(l, i), e) /\ SetOf(Removed(l, i)) = SetOf(l) \ {l[i]}
  /\ StartOf(Removed(l, i)) = IF i = 1 THEN g[l[1]] ELSE StartOf(l)

LEMMA LinkedAround ==
  ASSUME NULL \notin Msgs, NEW l, NEW g, Linking(l, g), NEW i \in 1 .. Len(l), NEW e,
         i # 1 => e[l[i - 1]] = g[l[i]],
         \A k \in 1 .. Len(l) : k # i /\ k # i - 1 => e[l[k]] = g[l[k]]
  PROVE  Unlinked(l, i, g, e)
<1> DEFINE n == Len(l)
           x == Removed(l, i)
           at(k) == IF k < i THEN k ELSE k + 1
<1>1. l \in Seq(Msgs) /\ Distinct(l) /\ Chained(l, g)
  BY DEF Linking
<1>2. n \in Nat \ {0} /\ (\A k \in 1 .. n : l[k] \in Msgs) /\ l # << >> /\ StartOf(l) = l[1]
      /\ 1 \in 1 .. n
  BY <1>1, OfList
<1>3. /\ x \in Seq(Msgs) /\ Len(x) = n - 1
      /\ \A k \in 1 .. n - 1 : x[k] = l[at(k)] /\ at(k) \in 1 .. n /\ at(k) # i
  <2>1. \A k \in 1 .. n - 1 : at(k) \in 1 .. n /\ at(k) # i
    BY <1>2
  <2> QED BY <1>1, <2>1, OfRemoved
<1> HIDE DEF x
<1>4. Distinct(x)
  <2> SUFFICES ASSUME NEW k \in 1 .. n - 1, NEW j \in 1 .. n - 1, x[k] = x[j] PROVE k = j
    BY <1>3 DEF Distinct
  <2>1. l[at(k)] = l[at(j)] /\ at(k) \in 1 .. n /\ at(j) \in 1 .. n
    BY <1>3
  <2>2. at(k) = at(j)
    <3> HIDE DEF at
    <3> QED BY <1>1, <2>1 DEF Distinct
  <2> QED BY <2>2
<1>5. \A k \in 1 .. n : g[l[k]] = IF k = n THEN NULL ELSE l[k + 1]
  BY <1>1 DEF Chained
<1>6. Chained(x, e)
  <2> SUFFICES ASSUME NEW k \in 1 .. n - 1
               PROVE  e[x[k]] = IF k = n - 1 THEN NULL ELSE x[k + 1]
    BY <1>3 DEF Chained
  <2>1. k # n - 1 => k + 1 \in 1 .. n - 1
    BY <1>2
  <2>2. CASE k < i - 1
    <3>1. k \in 1 .. n /\ k # i /\ k # i - 1 /\ k + 1 < i /\ k # n /\ k # n - 1 /\ k < i
      BY <1>2, <2>2
    <3>2. x[k] = l[k] /\ x[k + 1] = l[k + 1]
      BY <1>3, <2>1, <3>1
    <3> QED BY <1>5, <3>1, <3>2
  <2>3. CASE k = i - 1
    <3>1. k < i /\ i # 1 /\ ~(k + 1 < i) /\ k + 1 = i
      BY <1>2, <2>3
    <3>2. x[k] = l[i - 1] /\ e[x[k]] = g[l[i]]
      BY <1>3, <2>3, <3>1
    <3>3. g[l[i]] = IF i = n THEN NULL ELSE l[i + 1]
      BY <1>5
    <3>4. k # n - 1 => x[k + 1] = l[i + 1]
      BY <1>3, <2>1, <3>1
    <3>5. k = n - 1 <=> i = n
      BY <1>2, <2>3
    <3> QED BY <3>2, <3>3, <3>4, <3>5
  <2>4. CASE k > i - 1
    <3>1. ~(k < i) /\ ~(k + 1 < i) /\ k + 1 \in 1 .. n /\ k + 1 # i /\ k + 1 # i - 1
      BY <1>2, <2>4
    <3>2. x[k] = l[k + 1]
      BY <1>3, <3>1
    <3>3. e[l[k + 1]] = g[l[k + 1]]
      BY <3>1
    <3>4. g[l[k + 1]] = IF k + 1 = n THEN NULL ELSE l[(k + 1) + 1]
      BY <1>5, <3>1
    <3>5. k # n - 1 => x[k + 1] = l[(k + 1) + 1]
      BY <1>3, <2>1, <3>1
    <3>6. k = n - 1 <=> k + 1 = n
      BY <1>2
    <3> QED BY <3>2, <3>3, <3>4, <3>5, <3>6
  <2> QED BY <1>2, <2>2, <2>3, <2>4
<1>7. SetOf(x) = SetOf(l) \ {l[i]}
  <2>1. ASSUME NEW b \in SetOf(x) PROVE b \in SetOf(l) \ {l[i]}
    <3>1. PICK k \in 1 .. n - 1 : b = x[k]
      BY <1>3, <2>1 DEF SetOf
    <3>2. b = l[at(k)] /\ at(k) \in 1 .. n /\ at(k) # i
      BY <1>3, <3>1
    <3> HIDE DEF at
    <3> QED BY <1>1, <3>2 DEF SetOf, Distinct
  <2>2. ASSUME NEW b \in SetOf(l) \ {l[i]} PROVE b \in SetOf(x)
    <3>1. PICK j \in 1 .. n : b = l[j] /\ j # i
      BY <2>2 DEF SetOf
    <3>2. CASE j < i
      <4>1. j \in 1 .. n - 1 /\ x[j] = l[j]
        BY <1>2, <1>3, <3>2
      <4> QED BY <1>3, <3>1, <4>1 DEF SetOf
    <3>3. CASE j > i
      <4>1. j - 1 \in 1 .. n - 1 /\ ~(j - 1 < i) /\ (j - 1) + 1 = j
        BY <1>2, <3>3
      <4>2. x[j - 1] = l[j]
        BY <1>3, <4>1
      <4> QED BY <1>3, <3>1, <4>1, <4>2 DEF SetOf
    <3> QED BY <1>2, <3>1, <3>2, <3>3
  <2> QED BY <2>1, <2>2
<1>8. StartOf(x) = IF i = 1 THEN g[l[1]] ELSE StartOf(l)
  <2>1. CASE n = 1
    <3>1. i = 1 /\ x = << >> /\ g[l[1]] = NULL
      BY <1>2, <1>3, <1>5, <2>1, EmptySeq
    <3> QED BY <3>1 DEF StartOf
  <2>2. CASE n # 1
    <3>1. x # << >> /\ 1 \in 1 .. n - 1 /\ StartOf(x) = x[1]
      BY <1>2, <1>3, <2>2, OfList
    <3>2. CASE i = 1
      <4>1. x[1] = l[1 + 1] /\ g[l[1]] = l[1 + 1]
        BY <1>2, <1>3, <1>5, <2>2, <3>1, <3>2
      <4> QED BY <3>1, <3>2, <4>1
    <3>3. CASE i # 1
      <4>1. 1 < i
        BY <1>2, <3>3
      <4>2. x[1] = l[1]
        BY <1>3, <3>1, <4>1
      <4> QED BY <1>2, <3>1, <3>3, <4>2
    <3> QED BY <3>2, <3>3
  <2> QED BY <2>1, <2>2
<1> QED BY <1>3, <1>4, <1>6, <1>7, <1>8 DEF Unlinked, Linking, x

-----------------------------------------------------------------------------
(* What the queues hold: L names the list of each.                         *)
AllIn(L, Q, g, h) ==
  /\ L = [q \in Queue!Queues |-> L[q]]
  /\ \A q \in Queue!Queues : Linking(L[q], g) /\ Q[q] = StartOf(L[q])
  /\ \A q, r \in Queue!Queues : q # r => SetOf(L[q]) \cap SetOf(L[r]) = {}
  /\ \A m \in Msgs : m \notin SetOf(L["osal_qHead"]) => h[m] = Queue!TASK_NO_TASK
  /\ \A m \in Msgs : (\A q \in Queue!Queues : m \notin SetOf(L[q])) => g[m] = NULL

LEMMA OneListChanges ==
  ASSUME NEW L, NEW Q, NEW g, NEW h, AllIn(L, Q, g, h), NEW q \in Queue!Queues,
         NEW x, NEW Q1, NEW e, NEW h1, Linking(x, e), Q1[q] = StartOf(x),
         \A r \in Queue!Queues : r # q => Q1[r] = Q[r] /\ SetOf(x) \cap SetOf(L[r]) = {},
         \A r \in Queue!Queues : r # q => \A b \in SetOf(L[r]) : e[b] = g[b],
         \A m \in Msgs \ SetOf(x) : e[m] = NULL \/ (m \notin SetOf(L[q]) /\ e[m] = g[m]),
         \A m \in Msgs : m \notin SetOf([L EXCEPT ![q] = x]["osal_qHead"])
                             => h1[m] = Queue!TASK_NO_TASK
  PROVE  AllIn([L EXCEPT ![q] = x], Q1, e, h1)
<1> DEFINE K == [L EXCEPT ![q] = x]
<1>1. K = [r \in Queue!Queues |-> K[r]] /\ K[q] = x
      /\ \A r \in Queue!Queues : r # q => K[r] = L[r]
  BY DEF AllIn
<1> HIDE DEF K
<1>2. \A r \in Queue!Queues : Linking(K[r], e) /\ Q1[r] = StartOf(K[r])
  BY <1>1, SameLinks DEF AllIn
<1>3. \A r, s \in Queue!Queues : r # s => SetOf(K[r]) \cap SetOf(K[s]) = {}
  BY <1>1 DEF AllIn
<1>4. \A m \in Msgs : m \notin SetOf(K["osal_qHead"]) => h1[m] = Queue!TASK_NO_TASK
  BY DEF K
<1>5. ASSUME NEW m \in Msgs, \A r \in Queue!Queues : m \notin SetOf(K[r])
      PROVE  e[m] = NULL
  <2>1. m \notin SetOf(x) /\ \A r \in Queue!Queues : r # q => m \notin SetOf(L[r])
    BY <1>1, <1>5
  <2> QED BY <2>1 DEF AllIn
<1> QED BY <1>1, <1>2, <1>3, <1>4, <1>5 DEF AllIn, K

ListsHold(L) == Queue!TypeOK /\ AllIn(L, queue, next, dest_id)

(* A walk meets the list of the queue.                                     *)
LEMMA WalksAre ==
  ASSUME Queue!OsalQueueAssumption, NEW L, AllIn(L, queue, next, dest_id),
         NEW q \in Queue!Queues
  PROVE  Queue!Walk(q) = L[q]
<1>1. NULL \notin Msgs /\ IsFiniteSet(Msgs)
  BY SameSets DEF Queue!OsalQueueAssumption
<1>2. Linking(L[q], next) /\ queue[q] = StartOf(L[q])
  BY DEF AllIn
<1>3. Len(L[q]) <= Cardinality(Msgs) /\ Cardinality(Msgs) \in Nat
  BY <1>1, <1>2, CountOf DEF Linking
<1>4. Cardinality(Msgs) + 1 \in Nat /\ Len(L[q]) <= Cardinality(Msgs) + 1
  BY <1>2, <1>3, LenProperties DEF Linking
<1>5. Walked(StartOf(L[q]), next)[Cardinality(Msgs) + 1] = L[q]
  BY <1>1, <1>2, <1>4, WalkedAlong DEF Linking
<1> QED BY <1>2, <1>5, WalkIsWalked, SameSets

LEMMA NextWalksAre ==
  ASSUME Queue!OsalQueueAssumption, NEW L, AllIn(L, queue', next', dest_id'),
         NEW q \in Queue!Queues
  PROVE  Queue!Walk(q)' = L[q]
<1>1. NULL \notin Msgs /\ IsFiniteSet(Msgs)
  BY SameSets DEF Queue!OsalQueueAssumption
<1>2. Linking(L[q], next') /\ queue'[q] = StartOf(L[q])
  BY DEF AllIn
<1>3. Len(L[q]) <= Cardinality(Msgs) /\ Cardinality(Msgs) \in Nat
  BY <1>1, <1>2, CountOf DEF Linking
<1>4. Cardinality(Msgs) + 1 \in Nat /\ Len(L[q]) <= Cardinality(Msgs) + 1
  BY <1>2, <1>3, LenProperties DEF Linking
<1>5. Walked(StartOf(L[q]), next')[Cardinality(Msgs) + 1] = L[q]
  BY <1>1, <1>2, <1>4, WalkedAlong DEF Linking
<1>6. Queue!Walk(q)' = Walked(queue'[q], next')[Queue!Cardinality(Msgs) + 1]
  BY Zenon DEF Queue!Walk, Walked
<1> QED BY <1>2, <1>5, <1>6, SameSets

Free(L, m) == m \in Msgs /\ \A q \in Queue!Queues : m \notin SetOf(L[q])

(* A header is written for a message of the queue of the tasks only.       *)
Addressed(q, m) ==
  /\ \A b \in Msgs : b # m => dest_id'[b] = dest_id[b]
  /\ q # "osal_qHead" => dest_id'[m] = Queue!TASK_NO_TASK

LEMMA LastStep ==
  ASSUME Queue!OsalQueueAssumption, NEW L, ListsHold(L), NEW m, Free(L, m),
         NEW q \in Queue!Queues, next' \in [Msgs -> Msgs \cup {NULL}], next'[m] = NULL,
         L[q] # << >> => next'[L[q][Len(L[q])]] = m,
         \A b \in Msgs : b # m /\ (L[q] # << >> => b # L[q][Len(L[q])]) => next'[b] = next[b],
         \A r \in Queue!Queues : queue'[r] = IF r = q /\ L[q] = << >> THEN m ELSE queue[r],
         Addressed(q, m)
  PROVE  AllIn([L EXCEPT ![q] = Append(L[q], m)], queue', next', dest_id')
<1> DEFINE l == L[q]
           x == Append(l, m)
<1>0. NULL \notin Msgs /\ m \in Msgs /\ m \notin SetOf(l) /\ AllIn(L, queue, next, dest_id)
  BY DEF Queue!OsalQueueAssumption, Free, ListsHold
<1>1. Linking(l, next) /\ queue[q] = StartOf(l)
  BY <1>0 DEF AllIn
<1>2. \A r \in Queue!Queues : \A b \in SetOf(L[r]) : b \in Msgs /\ b # m
  BY <1>0, OfList DEF Free, AllIn, Linking, SetOf
<1>3. Enqueued(l, m, next')
  <2> HIDE DEF l
  <2>1. \A b \in SetOf(l) : b # l[Len(l)] => next'[b] = next[b]
    BY <1>2 DEF l
  <2>2. l # << >> => next'[l[Len(l)]] = m
    BY DEF l
  <2> QED BY <1>0, <1>1, <2>1, <2>2, LinkedLast
<1>4. Linking(x, next') /\ queue'[q] = StartOf(x) /\ SetOf(x) = SetOf(l) \cup {m}
  BY <1>1, <1>3 DEF Enqueued
<1>5. l # << >> => l[Len(l)] \in SetOf(l)
  BY <1>1, OfList DEF Linking, SetOf
<1> HIDE DEF x
<1>6. ASSUME NEW r \in Queue!Queues, r # q
      PROVE  /\ queue'[r] = queue[r] /\ SetOf(x) \cap SetOf(L[r]) = {}
             /\ \A b \in SetOf(L[r]) : next'[b] = next[b]
  <2>1. SetOf(l) \cap SetOf(L[r]) = {}
    BY <1>0, <1>6 DEF AllIn
  <2>2. m \notin SetOf(L[r])
    BY <1>2
  <2> QED BY <1>2, <1>4, <1>5, <1>6, <2>1, <2>2
<1>7. \A b \in Msgs \ SetOf(x) : b \notin SetOf(L[q]) /\ next'[b] = next[b]
  BY <1>4, <1>5
<1>8. ASSUME NEW b \in Msgs, b \notin SetOf([L EXCEPT ![q] = x]["osal_qHead"])
      PROVE  dest_id'[b] = Queue!TASK_NO_TASK
  <2>1. "osal_qHead" \in Queue!Queues /\ L = [r \in Queue!Queues |-> L[r]]
    BY <1>0 DEF Queue!Queues, AllIn
  <2>2. CASE q = "osal_qHead"
    <3>1. b \notin SetOf(L[q]) /\ b # m
      BY <1>4, <1>8, <2>1, <2>2
    <3> QED BY <1>0, <2>2, <3>1 DEF Addressed, AllIn
  <2>3. CASE q # "osal_qHead"
    <3>1. b \notin SetOf(L["osal_qHead"])
      BY <1>8, <2>1, <2>3
    <3> QED BY <1>0, <2>3, <3>1 DEF Addressed, AllIn
  <2> QED BY <2>2, <2>3
<1>9. AllIn([L EXCEPT ![q] = x], queue', next', dest_id')
  <2> HIDE DEF l
  <2> QED BY <1>0, <1>4, <1>6, <1>7, <1>8, OneListChanges
<1> QED BY <1>9 DEF x

LEMMA EnqueueStep ==
  ASSUME Queue!OsalQueueAssumption, NEW L, ListsHold(L), NEW m, Free(L, m),
         NEW q \in Queue!Queues, Queue!Enqueue(q, m), Addressed(q, m)
  PROVE  /\ AllIn([L EXCEPT ![q] = Append(L[q], m)], queue', next', dest_id')
         /\ queue' \in [Queue!Queues -> Msgs \cup {NULL}]
         /\ next' \in [Msgs -> Msgs \cup {NULL}]
<1> DEFINE l == L[q]
<1>0. NULL \notin Msgs /\ m \in Msgs /\ m \notin SetOf(l) /\ AllIn(L, queue, next, dest_id)
      /\ queue \in [Queue!Queues -> Msgs \cup {NULL}]
      /\ next \in [Msgs -> Msgs \cup {NULL}]
  BY DEF Queue!OsalQueueAssumption, Free, ListsHold, Queue!TypeOK
<1>1. l \in Seq(Msgs) /\ queue[q] = StartOf(l) /\ Queue!Walk(q) = l
  BY <1>0, WalksAre DEF AllIn, Linking
<1>2. queue[q] = NULL <=> l = << >>
  BY <1>0, <1>1, OfList DEF StartOf
<1>3. CASE l = << >>
  <2>1. queue' = [queue EXCEPT ![q] = m] /\ next' = [next EXCEPT ![m] = NULL]
    BY <1>2, <1>3 DEF Queue!Enqueue
  <2> HIDE DEF l
  <2>2. next'[m] = NULL /\ (\A b \in Msgs : b # m => next'[b] = next[b])
        /\ (\A r \in Queue!Queues : queue'[r] = IF r = q THEN m ELSE queue[r])
        /\ queue' \in [Queue!Queues -> Msgs \cup {NULL}]
        /\ next' \in [Msgs -> Msgs \cup {NULL}]
    BY <1>0, <2>1
  <2>3. L[q] = << >>
    BY <1>3 DEF l
  <2> QED BY <1>0, <2>2, <2>3, LastStep
<1>4. CASE l # << >>
  <2>1. queue' = queue /\ next' = [next EXCEPT ![m] = NULL, ![l[Len(l)]] = m]
    BY <1>1, <1>2, <1>4 DEF Queue!Enqueue
  <2>2. l[Len(l)] \in Msgs /\ l[Len(l)] # m
    BY <1>0, <1>1, <1>4, OfList DEF SetOf
  <2>3. L[q] # << >> /\ l = L[q]
    BY <1>4
  <2> HIDE DEF l
  <2>4. next'[m] = NULL /\ next'[l[Len(l)]] = m
        /\ (\A b \in Msgs : b # m /\ b # l[Len(l)] => next'[b] = next[b])
        /\ next' \in [Msgs -> Msgs \cup {NULL}]
    BY <1>0, <2>1, <2>2
  <2> QED BY <1>0, <2>1, <2>3, <2>4, LastStep
<1> QED BY <1>3, <1>4

LEMMA EnqueueMaxStep ==
  ASSUME Queue!OsalQueueAssumption, NEW L, ListsHold(L), NEW m, Free(L, m), Queue!EnqueueMax(m)
  PROVE  /\ AllIn([L EXCEPT !["limited"] = Append(L["limited"], m)], queue', next', dest_id')
         /\ queue' \in [Queue!Queues -> Msgs \cup {NULL}]
         /\ next' \in [Msgs -> Msgs \cup {NULL}]
<1> DEFINE q == "limited"
           l == L[q]
<1>0. NULL \notin Msgs /\ m \in Msgs /\ m \notin SetOf(l) /\ AllIn(L, queue, next, dest_id)
      /\ queue \in [Queue!Queues -> Msgs \cup {NULL}]
      /\ next \in [Msgs -> Msgs \cup {NULL}] /\ q \in Queue!Queues
  BY DEF Queue!OsalQueueAssumption, Free, ListsHold, Queue!TypeOK, Queue!Queues
<1>1. l \in Seq(Msgs) /\ queue[q] = StartOf(l) /\ Queue!Walk(q) = l
  BY <1>0, WalksAre DEF AllIn, Linking
<1>2. queue[q] = NULL <=> l = << >>
  BY <1>0, <1>1, OfList DEF StartOf
<1>3. next[m] = NULL /\ dest_id[m] = Queue!TASK_NO_TASK /\ dest_id' = dest_id
  <2>1. m \notin SetOf(L["osal_qHead"])
    BY DEF Free, Queue!Queues
  <2> QED BY <1>0, <2>1 DEF Free, AllIn, Queue!EnqueueMax
<1>4. Addressed(q, m)
  BY <1>3 DEF Addressed
<1>5. CASE l = << >>
  <2>1. queue' = [queue EXCEPT ![q] = m] /\ next' = next
    BY <1>2, <1>5 DEF Queue!EnqueueMax
  <2>3. L[q] = << >>
    BY <1>5 DEF l
  <2> HIDE DEF l, q
  <2>2. (\A r \in Queue!Queues : queue'[r] = IF r = q THEN m ELSE queue[r])
        /\ queue' \in [Queue!Queues -> Msgs \cup {NULL}]
    BY <1>0, <2>1
  <2>4. AllIn([L EXCEPT ![q] = Append(L[q], m)], queue', next', dest_id')
    BY <1>0, <1>3, <1>4, <2>1, <2>2, <2>3, LastStep
  <2> QED BY <1>0, <2>1, <2>2, <2>4 DEF q
<1>6. CASE l # << >>
  <2>1. queue' = queue /\ next' = [next EXCEPT ![l[Len(l)]] = m]
    BY <1>1, <1>2, <1>6 DEF Queue!EnqueueMax
  <2>2. l[Len(l)] \in Msgs /\ l[Len(l)] # m
    BY <1>0, <1>1, <1>6, OfList DEF SetOf
  <2>3. L[q] # << >> /\ l = L[q]
    BY <1>6
  <2> HIDE DEF l, q
  <2>4. next'[m] = NULL /\ next'[l[Len(l)]] = m
        /\ (\A b \in Msgs : b # m /\ b # l[Len(l)] => next'[b] = next[b])
        /\ next' \in [Msgs -> Msgs \cup {NULL}]
    BY <1>0, <1>3, <2>1, <2>2
  <2>5. AllIn([L EXCEPT ![q] = Append(L[q], m)], queue', next', dest_id')
    BY <1>0, <1>4, <2>1, <2>3, <2>4, LastStep
  <2> QED BY <1>0, <2>1, <2>4, <2>5 DEF q
<1> QED BY <1>5, <1>6

LEMMA PushStep ==
  ASSUME Queue!OsalQueueAssumption, NEW L, ListsHold(L), NEW m, Free(L, m),
         NEW q \in Queue!Queues, Queue!Push(q, m), Addressed(q, m)
  PROVE  /\ AllIn([L EXCEPT ![q] = <<m>> \o L[q]], queue', next', dest_id')
         /\ queue' \in [Queue!Queues -> Msgs \cup {NULL}]
         /\ next' \in [Msgs -> Msgs \cup {NULL}]
<1> DEFINE l == L[q]
           x == <<m>> \o l
<1>0. NULL \notin Msgs /\ m \in Msgs /\ m \notin SetOf(l) /\ AllIn(L, queue, next, dest_id)
      /\ queue \in [Queue!Queues -> Msgs \cup {NULL}]
      /\ next \in [Msgs -> Msgs \cup {NULL}]
  BY DEF Queue!OsalQueueAssumption, Free, ListsHold, Queue!TypeOK
<1>1. Linking(l, next) /\ queue[q] = StartOf(l)
  BY <1>0 DEF AllIn
<1>2. queue' = [queue EXCEPT ![q] = m] /\ next' = [next EXCEPT ![m] = queue[q]]
  BY DEF Queue!Push
<1>3. \A r \in Queue!Queues : \A b \in SetOf(L[r]) : b \in Msgs /\ b # m
  BY <1>0, OfList DEF Free, AllIn, Linking, SetOf
<1> HIDE DEF x
<1>4. /\ queue' \in [Queue!Queues -> Msgs \cup {NULL}]
      /\ next' \in [Msgs -> Msgs \cup {NULL}]
      /\ next'[m] = StartOf(l) /\ \A b \in Msgs : b # m => next'[b] = next[b]
      /\ queue'[q] = m /\ \A r \in Queue!Queues : r # q => queue'[r] = queue[r]
  BY <1>0, <1>1, <1>2
<1>5. Pushed(l, m, next')
  <2>1. \A b \in SetOf(l) : next'[b] = next[b]
    BY <1>3, <1>4
  <2> HIDE DEF l
  <2> QED BY <1>0, <1>1, <1>4, <2>1, LinkedFirst
<1>6. Linking(x, next') /\ queue'[q] = StartOf(x) /\ SetOf(x) = SetOf(l) \cup {m}
  BY <1>4, <1>5 DEF Pushed, x
<1>7. ASSUME NEW r \in Queue!Queues, r # q
      PROVE  /\ queue'[r] = queue[r] /\ SetOf(x) \cap SetOf(L[r]) = {}
             /\ \A b \in SetOf(L[r]) : next'[b] = next[b]
  <2>1. SetOf(l) \cap SetOf(L[r]) = {}
    BY <1>0, <1>7 DEF AllIn
  <2> QED BY <1>3, <1>4, <1>6, <1>7, <2>1
<1>8. \A b \in Msgs \ SetOf(x) : b \notin SetOf(L[q]) /\ next'[b] = next[b]
  BY <1>4, <1>6
<1>9. ASSUME NEW b \in Msgs, b \notin SetOf([L EXCEPT ![q] = x]["osal_qHead"])
      PROVE  dest_id'[b] = Queue!TASK_NO_TASK
  <2>1. "osal_qHead" \in Queue!Queues /\ L = [r \in Queue!Queues |-> L[r]]
    BY <1>0 DEF Queue!Queues, AllIn
  <2>2. CASE q = "osal_qHead"
    <3>1. b \notin SetOf(L[q]) /\ b # m
      BY <1>6, <1>9, <2>1, <2>2
    <3> QED BY <1>0, <2>2, <3>1 DEF Addressed, AllIn
  <2>3. CASE q # "osal_qHead"
    <3>1. b \notin SetOf(L["osal_qHead"])
      BY <1>9, <2>1, <2>3
    <3> QED BY <1>0, <2>3, <3>1 DEF Addressed, AllIn
  <2> QED BY <2>2, <2>3
<1>10. AllIn([L EXCEPT ![q] = x], queue', next', dest_id')
  <2> HIDE DEF l
  <2> QED BY <1>0, <1>6, <1>7, <1>8, <1>9, OneListChanges
<1> QED BY <1>4, <1>10 DEF x

LEMMA UnlinkStep ==
  ASSUME Queue!OsalQueueAssumption, NEW L, ListsHold(L), NEW q \in Queue!Queues,
         NEW i \in 1 .. Len(L[q]), NEW prev, i # 1 => prev = L[q][i - 1],
         Queue!Unlink(q, L[q][i], prev)
  PROVE  /\ AllIn([L EXCEPT ![q] = Removed(L[q], i)], queue', next', dest_id')
         /\ queue' \in [Queue!Queues -> Msgs \cup {NULL}]
         /\ next' \in [Msgs -> Msgs \cup {NULL}]
         /\ dest_id' = [dest_id EXCEPT ![L[q][i]] = Queue!TASK_NO_TASK]
         /\ SetOf(Removed(L[q], i)) = SetOf(L[q]) \ {L[q][i]}
<1> DEFINE l == L[q]
           m == l[i]
           x == Removed(l, i)
<1>0. NULL \notin Msgs /\ AllIn(L, queue, next, dest_id)
      /\ queue \in [Queue!Queues -> Msgs \cup {NULL}]
      /\ next \in [Msgs -> Msgs \cup {NULL}]
      /\ dest_id \in [Msgs -> Tasks \cup {Queue!TASK_NO_TASK}]
  BY DEF Queue!OsalQueueAssumption, Free, ListsHold, Queue!TypeOK
<1>1. Linking(l, next) /\ queue[q] = StartOf(l)
  BY <1>0 DEF AllIn
<1>2. Len(l) \in Nat /\ i \in 1 .. Len(l) /\ m \in Msgs /\ m \in SetOf(l)
      /\ \A k \in 1 .. Len(l) : l[k] \in Msgs /\ l[k] \in SetOf(l) /\ (k # i => l[k] # m)
  BY <1>1, OfList DEF Linking, SetOf, Distinct
<1>3. queue[q] = l[1] /\ 1 \in 1 .. Len(l)
  <2>1. l # << >>
    BY <1>2
  <2> QED BY <1>1, <2>1, OfList DEF Linking
<1>4. dest_id' = [dest_id EXCEPT ![m] = Queue!TASK_NO_TASK]
  BY DEF Queue!Unlink
<1>5. /\ next' \in [Msgs -> Msgs \cup {NULL}] /\ next'[m] = NULL
      /\ queue' \in [Queue!Queues -> Msgs \cup {NULL}]
      /\ \A r \in Queue!Queues : r # q => queue'[r] = queue[r]
      /\ queue'[q] = IF i = 1 THEN next[m] ELSE queue[q]
      /\ i # 1 => next'[l[i - 1]] = next[m]
      /\ \A b \in Msgs : b # m /\ (i # 1 => b # l[i - 1]) => next'[b] = next[b]
  <2>1. CASE i = 1
    <3>1. queue' = [queue EXCEPT ![q] = next[m]] /\ next' = [next EXCEPT ![m] = NULL]
      BY <1>3, <2>1 DEF Queue!Unlink
    <3> HIDE DEF m, l
    <3> QED BY <1>0, <1>2, <2>1, <3>1
  <2>2. CASE i # 1
    <3>1. prev = l[i - 1] /\ i - 1 \in 1 .. Len(l) /\ i - 1 # i
      BY <1>2, <2>2
    <3>2. m # queue[q] /\ prev \in Msgs /\ prev # m
      BY <1>2, <1>3, <2>2, <3>1
    <3>3. queue' = queue /\ next' = [next EXCEPT ![prev] = next[m], ![m] = NULL]
      BY <3>2 DEF Queue!Unlink
    <3> HIDE DEF m, l
    <3> QED BY <1>0, <1>2, <2>2, <3>1, <3>2, <3>3
  <2> QED BY <2>1, <2>2
<1>6. Unlinked(l, i, next, next')
  <2>1. ASSUME NEW k \in 1 .. Len(l), k # i, k # i - 1 PROVE next'[l[k]] = next[l[k]]
    <3>1. i # 1 => i - 1 \in 1 .. Len(l)
      BY <1>2
    <3>2. i # 1 => l[k] # l[i - 1]
      BY <1>1, <2>1, <3>1 DEF Linking, Distinct
    <3> QED BY <1>2, <1>5, <2>1, <3>2
  <2> HIDE DEF l, m
  <2> QED BY <1>0, <1>1, <1>2, <1>5, <2>1, LinkedAround DEF m
<1> HIDE DEF x
<1>7. Linking(x, next') /\ queue'[q] = StartOf(x) /\ SetOf(x) = SetOf(l) \ {m}
  <2>1. i = 1 => m = l[1]
    OBVIOUS
  <2> QED BY <1>1, <1>5, <1>6, <2>1 DEF Unlinked, x
<1>8. i # 1 => l[i - 1] \in SetOf(l)
  <2>1. i # 1 => i - 1 \in 1 .. Len(l)
    BY <1>2
  <2> QED BY <2>1 DEF SetOf
<1>9. ASSUME NEW r \in Queue!Queues, r # q
      PROVE  /\ queue'[r] = queue[r] /\ SetOf(x) \cap SetOf(L[r]) = {}
             /\ \A b \in SetOf(L[r]) : next'[b] = next[b]
  <2>1. SetOf(l) \cap SetOf(L[r]) = {}
    BY <1>0, <1>9 DEF AllIn
  <2>2. \A b \in SetOf(L[r]) : b \in Msgs
    BY <1>0, OfList DEF AllIn, Linking, SetOf
  <2> HIDE DEF m, l
  <2> QED BY <1>2, <1>5, <1>7, <1>8, <1>9, <2>1, <2>2
<1>10. \A b \in Msgs \ SetOf(x) : next'[b] = NULL \/ (b \notin SetOf(L[q]) /\ next'[b] = next[b])
  <2> TAKE b \in Msgs \ SetOf(x)
  <2>1. b = m \/ b \notin SetOf(l)
    BY <1>7
  <2>2. CASE b = m
    BY <1>5, <2>2
  <2>3. CASE b # m
    <3>1. b \notin SetOf(l) /\ (i # 1 => b # l[i - 1])
      BY <1>8, <2>1, <2>3
    <3> QED BY <1>5, <2>3, <3>1
  <2> QED BY <2>2, <2>3
<1>11. ASSUME NEW b \in Msgs, b \notin SetOf([L EXCEPT ![q] = x]["osal_qHead"])
       PROVE  dest_id'[b] = Queue!TASK_NO_TASK
  <2>1. "osal_qHead" \in Queue!Queues /\ L = [r \in Queue!Queues |-> L[r]]
    BY <1>0 DEF Queue!Queues, AllIn
  <2>2. b = m \/ b \notin SetOf(L["osal_qHead"])
    <3>1. CASE q = "osal_qHead"
      BY <1>7, <1>11, <2>1, <3>1
    <3>2. CASE q # "osal_qHead"
      BY <1>11, <2>1, <3>2
    <3> QED BY <3>1, <3>2
  <2>3. b \notin SetOf(L["osal_qHead"]) => dest_id[b] = Queue!TASK_NO_TASK
    BY <1>0 DEF AllIn
  <2> QED BY <1>0, <1>2, <1>4, <2>2, <2>3
<1>12. AllIn([L EXCEPT ![q] = x], queue', next', dest_id')
  <2> HIDE DEF l, m
  <2> QED BY <1>0, <1>7, <1>9, <1>10, <1>11, OneListChanges
<1> QED BY <1>4, <1>5, <1>7, <1>12 DEF x

-----------------------------------------------------------------------------
LEMMA LeastOf ==
  ASSUME NEW S, S \subseteq Nat, S # {}
  PROVE  \E i \in S : \A j \in S : i <= j
<1> DEFINE Less == OpToRel(<, Nat)
<1>1. IsWellFoundedOn(Less, Nat)
  BY NatLessThanWellFounded
<1>2. PICK x \in S : \A y \in S : <<y, x>> \notin Less
  BY <1>1, WFMin
<1>3. \A y \in S : ~(y < x)
  BY <1>2 DEF OpToRel
<1> QED BY <1>3

(* There is mail left if there is more than one message for the task.      *)
LEMMA MoreThanOne ==
  ASSUME NEW n \in Nat, NEW S \in SUBSET (1 .. n), NEW i \in S
  PROVE  Cardinality(S) > 1 <=> \E j \in S : j # i
<1>1. IsFiniteSet(1 .. n)
  BY FS_Interval
<1>2. IsFiniteSet(S)
  BY <1>1, FS_Subset
<1>3. CASE S = {i}
  BY <1>3, FS_Singleton
<1>4. CASE S # {i}
  <2>1. PICK j \in S : j # i
    BY <1>4
  <2>2. IsFiniteSet({i}) /\ Cardinality({i}) = 1 /\ j \notin {i}
    BY <2>1, FS_Singleton
  <2>3. Cardinality({i} \cup {j}) = 2
    BY <2>2, FS_AddElement
  <2>4. {i} \cup {j} \subseteq S
    OBVIOUS
  <2>5. Cardinality({i} \cup {j}) <= Cardinality(S) /\ Cardinality(S) \in Nat
    BY <1>2, <2>4, FS_Subset, FS_CardinalityType
  <2> QED BY <2>1, <2>3, <2>5
<1> QED BY <1>3, <1>4

(* Without its i-th element.                                               *)
Around(s, i) == SubSeq(s, 1, i - 1) \o SubSeq(s, i + 1, Len(s))

LEMMA AroundIth ==
  ASSUME NEW S, NEW s \in Seq(S), NEW i \in 1 .. Len(s)
  PROVE  /\ Around(s, i) \in Seq(S) /\ Len(Around(s, i)) = Len(s) - 1
         /\ \A k \in 1 .. Len(s) - 1 : Around(s, i)[k] = s[IF k < i THEN k ELSE k + 1]
<1> DEFINE n == Len(s)
           a == SubSeq(s, 1, i - 1)
           b == SubSeq(s, i + 1, n)
<1>1. n \in Nat /\ i \in Nat /\ 1 <= i /\ i <= n /\ \A k \in 1 .. n : s[k] \in S
  BY LenProperties, ElementOfSeq
<1>2. /\ a \in Seq(S) /\ Len(a) = i - 1
      /\ \A k \in 1 .. i - 1 : a[k] = s[k]
  <2>1. \A k \in 1 .. i - 1 : s[k] \in S
    BY <1>1
  <2>2. /\ a \in Seq(S) /\ Len(a) = (IF 1 <= i - 1 THEN (i - 1) - 1 + 1 ELSE 0)
        /\ \A k \in 1 .. (i - 1) - 1 + 1 : a[k] = s[1 + k - 1]
    BY <1>1, <2>1, SubSeqProperties
  <2> HIDE DEF a
  <2>3. \A k \in 1 .. i - 1 : 1 + k - 1 = k
    BY <1>1
  <2>4. (i - 1) - 1 + 1 = i - 1
    BY <1>1
  <2> QED BY <1>1, <2>2, <2>3, <2>4
<1>3. /\ b \in Seq(S) /\ Len(b) = n - i
      /\ \A k \in 1 .. n - i : b[k] = s[i + k]
  <2>1. \A k \in i + 1 .. n : s[k] \in S
    BY <1>1
  <2>2. /\ b \in Seq(S) /\ Len(b) = (IF i + 1 <= n THEN n - (i + 1) + 1 ELSE 0)
        /\ \A k \in 1 .. n - (i + 1) + 1 : b[k] = s[(i + 1) + k - 1]
    BY <1>1, <2>1, SubSeqProperties
  <2> HIDE DEF b
  <2>3. n - (i + 1) + 1 = n - i /\ (i + 1 <= n \/ n - i = 0)
    BY <1>1
  <2>4. \A k \in 1 .. n - i : k \in 1 .. n - (i + 1) + 1 /\ (i + 1) + k - 1 = i + k
    BY <1>1
  <2>5. \A k \in 1 .. n - i : b[k] = s[i + k]
    <3> TAKE k \in 1 .. n - i
    <3>1. b[k] = s[(i + 1) + k - 1]
      BY <2>2, <2>4
    <3> QED BY <2>4, <3>1
  <2> QED BY <2>2, <2>3, <2>5
<1> HIDE DEF a, b
<1>4. /\ a \o b \in Seq(S) /\ Len(a \o b) = Len(a) + Len(b)
      /\ \A k \in 1 .. Len(a) + Len(b) : (a \o b)[k] = IF k <= Len(a) THEN a[k] ELSE b[k - Len(a)]
  BY <1>2, <1>3, ConcatProperties
<1>5. Len(a) + Len(b) = n - 1
  BY <1>1, <1>2, <1>3
<1>6. ASSUME NEW k \in 1 .. n - 1 PROVE (a \o b)[k] = s[IF k < i THEN k ELSE k + 1]
  <2>1. CASE k < i
    <3>1. k \in 1 .. i - 1 /\ k <= Len(a)
      BY <1>1, <1>2, <2>1
    <3> QED BY <1>2, <1>4, <1>5, <2>1, <3>1
  <2>2. CASE ~(k < i)
    <3>1. ~(k <= Len(a)) /\ k - Len(a) \in 1 .. n - i /\ i + (k - Len(a)) = k + 1
      BY <1>1, <1>2, <2>2
    <3> QED BY <1>3, <1>4, <1>5, <2>2, <3>1
  <2> QED BY <2>1, <2>2
<1> QED BY <1>4, <1>5, <1>6 DEF a, b, Around

LEMMA TailIsRemoved ==
  ASSUME NEW l \in Seq(Msgs), l # << >>
  PROVE  Removed(l, 1) = Tail(l)
<1>1. Len(l) \in Nat \ {0} /\ 1 \in 1 .. Len(l)
  BY OfList
<1>2. /\ Removed(l, 1) \in Seq(Msgs) /\ Len(Removed(l, 1)) = Len(l) - 1
      /\ \A k \in 1 .. Len(l) - 1 : Removed(l, 1)[k] = l[IF k < 1 THEN k ELSE k + 1]
  BY <1>1, OfRemoved
<1>3. /\ Tail(l) \in Seq(Msgs) /\ Len(Tail(l)) = Len(l) - 1
      /\ \A k \in 1 .. Len(l) - 1 : Tail(l)[k] = l[k + 1]
  BY <1>1, HeadTailProperties
<1>4. \A k \in 1 .. Len(l) - 1 : ~(k < 1)
  BY <1>1
<1> QED BY <1>2, <1>3, <1>4, SeqEqual

(* The queue of the tasks as MsgQueues has it.                             *)
Mailed(l, h) == [i \in 1 .. Len(l) |-> [msg |-> l[i], to |-> h[l[i]]]]
Letters == [msg : Msgs, to : Tasks \cup {Queue!TASK_NO_TASK}]
Headers == [Msgs -> Tasks \cup {Queue!TASK_NO_TASK}]

LEMMA MailedIs ==
  ASSUME NEW l \in Seq(Msgs), NEW h \in Headers
  PROVE  /\ Mailed(l, h) \in Seq(Letters) /\ Len(Mailed(l, h)) = Len(l)
         /\ \A i \in 1 .. Len(l) : Mailed(l, h)[i] = [msg |-> l[i], to |-> h[l[i]]]
<1>1. Len(l) \in Nat /\ \A k \in 1 .. Len(l) : l[k] \in Msgs
  BY OfList
<1>2. \A k \in 1 .. Len(l) : [msg |-> l[k], to |-> h[l[k]]] \in Letters
  BY <1>1 DEF Letters, Headers
<1>3. Mailed(l, h) \in [1 .. Len(l) -> Letters]
  BY <1>2 DEF Mailed
<1>4. Mailed(l, h) \in Seq(Letters)
  BY <1>1, <1>3, SeqDef
<1>5. Len(Mailed(l, h)) = Len(l)
  BY <1>1, <1>3, <1>4, LenProperties
<1> QED BY <1>4, <1>5 DEF Mailed

LEMMA MailedLast ==
  ASSUME NEW l \in Seq(Msgs), NEW m \in Msgs, NEW h \in Headers, NEW f \in Headers,
         \A b \in SetOf(l) : f[b] = h[b]
  PROVE  Mailed(Append(l, m), f) = Append(Mailed(l, h), [msg |-> m, to |-> f[m]])
<1> DEFINE x == Append(l, m)
           s == Mailed(l, h)
           c == [msg |-> m, to |-> f[m]]
           y == Append(s, c)
           n == Len(l)
<1>1. n \in Nat /\ (\A k \in 1 .. n : l[k] \in SetOf(l))
  BY OfList DEF SetOf
<1>2. x \in Seq(Msgs) /\ Len(x) = n + 1 /\ (\A k \in 1 .. n : x[k] = l[k]) /\ x[n + 1] = m
  BY AppendProperties
<1>3. s \in Seq(Letters) /\ Len(s) = n /\ \A k \in 1 .. n : s[k] = [msg |-> l[k], to |-> h[l[k]]]
  BY MailedIs
<1>4. c \in Letters
  BY DEF Letters, Headers
<1> HIDE DEF x, s
<1>5. y \in Seq(Letters) /\ Len(y) = n + 1 /\ (\A k \in 1 .. n : y[k] = s[k]) /\ y[n + 1] = c
  BY <1>3, <1>4, AppendProperties
<1>6. /\ Mailed(x, f) \in Seq(Letters) /\ Len(Mailed(x, f)) = n + 1
      /\ \A k \in 1 .. n + 1 : Mailed(x, f)[k] = [msg |-> x[k], to |-> f[x[k]]]
  BY <1>2, MailedIs
<1> HIDE DEF y, c
<1>7. ASSUME NEW k \in 1 .. n + 1 PROVE Mailed(x, f)[k] = y[k]
  <2>1. CASE k = n + 1
    BY <1>2, <1>5, <1>6, <2>1 DEF c
  <2>2. CASE k # n + 1
    <3>1. k \in 1 .. n
      BY <1>1, <2>2
    <3>2. x[k] = l[k] /\ f[l[k]] = h[l[k]]
      BY <1>1, <1>2, <3>1
    <3> QED BY <1>3, <1>5, <1>6, <3>1, <3>2
  <2> QED BY <2>1, <2>2
<1>8. Mailed(x, f) = y
  BY <1>5, <1>6, <1>7, SeqEqual
<1> QED BY <1>8 DEF x, y, s, c

LEMMA MailedFirst ==
  ASSUME NEW l \in Seq(Msgs), NEW m \in Msgs, NEW h \in Headers, NEW f \in Headers,
         \A b \in SetOf(l) : f[b] = h[b]
  PROVE  Mailed(<<m>> \o l, f) = <<[msg |-> m, to |-> f[m]]>> \o Mailed(l, h)
<1> DEFINE x == <<m>> \o l
           s == Mailed(l, h)
           c == [msg |-> m, to |-> f[m]]
           y == <<c>> \o s
           n == Len(l)
<1>1. n \in Nat /\ (\A k \in 1 .. n : l[k] \in SetOf(l))
  BY OfList DEF SetOf
<1>2. x \in Seq(Msgs) /\ Len(x) = 1 + n
      /\ \A k \in 1 .. 1 + n : x[k] = IF k <= 1 THEN m ELSE l[k - 1]
  BY OneBefore
<1>3. s \in Seq(Letters) /\ Len(s) = n /\ \A k \in 1 .. n : s[k] = [msg |-> l[k], to |-> h[l[k]]]
  BY MailedIs
<1>4. c \in Letters
  BY DEF Letters, Headers
<1> HIDE DEF x, s, c
<1>5. y \in Seq(Letters) /\ Len(y) = 1 + n
      /\ \A k \in 1 .. 1 + n : y[k] = IF k <= 1 THEN c ELSE s[k - 1]
  BY <1>3, <1>4, OneBefore
<1>6. /\ Mailed(x, f) \in Seq(Letters) /\ Len(Mailed(x, f)) = 1 + n
      /\ \A k \in 1 .. 1 + n : Mailed(x, f)[k] = [msg |-> x[k], to |-> f[x[k]]]
  BY <1>2, MailedIs
<1> HIDE DEF y
<1>7. ASSUME NEW k \in 1 .. 1 + n PROVE Mailed(x, f)[k] = y[k]
  <2>1. CASE k <= 1
    BY <1>2, <1>5, <1>6, <2>1 DEF c
  <2>2. CASE ~(k <= 1)
    <3>1. k - 1 \in 1 .. n
      BY <1>1, <2>2
    <3>2. x[k] = l[k - 1] /\ f[l[k - 1]] = h[l[k - 1]]
      BY <1>1, <1>2, <2>2, <3>1
    <3> QED BY <1>3, <1>5, <1>6, <2>2, <3>1, <3>2
  <2> QED BY <2>1, <2>2
<1>8. Mailed(x, f) = y
  BY <1>5, <1>6, <1>7, SeqEqual
<1> QED BY <1>8 DEF x, y, s, c

LEMMA MailedAround ==
  ASSUME NEW l \in Seq(Msgs), NEW i \in 1 .. Len(l), NEW h \in Headers, NEW f \in Headers,
         \A b \in SetOf(Removed(l, i)) : f[b] = h[b]
  PROVE  Mailed(Removed(l, i), f) = Around(Mailed(l, h), i)
<1> DEFINE x == Removed(l, i)
           s == Mailed(l, h)
           y == Around(s, i)
           n == Len(l)
<1>1. n \in Nat /\ (\A k \in 1 .. n : l[k] \in Msgs) /\ n - 1 \in Nat
  BY OfList
<1>2. /\ x \in Seq(Msgs) /\ Len(x) = n - 1
      /\ \A k \in 1 .. n - 1 : x[k] = l[IF k < i THEN k ELSE k + 1]
  BY OfRemoved
<1>3. s \in Seq(Letters) /\ Len(s) = n /\ \A k \in 1 .. n : s[k] = [msg |-> l[k], to |-> h[l[k]]]
  BY MailedIs
<1> HIDE DEF x, s
<1>5. y \in Seq(Letters) /\ Len(y) = n - 1
      /\ \A k \in 1 .. n - 1 : y[k] = s[IF k < i THEN k ELSE k + 1]
  BY <1>3, AroundIth
<1>6. /\ Mailed(x, f) \in Seq(Letters) /\ Len(Mailed(x, f)) = n - 1
      /\ \A k \in 1 .. n - 1 : Mailed(x, f)[k] = [msg |-> x[k], to |-> f[x[k]]]
  BY <1>2, MailedIs
<1> HIDE DEF y
<1>7. ASSUME NEW k \in 1 .. n - 1 PROVE Mailed(x, f)[k] = y[k]
  <2> DEFINE j == IF k < i THEN k ELSE k + 1
  <2>1. j \in 1 .. n
    BY <1>1
  <2>2. x[k] = l[j] /\ y[k] = s[j]
    BY <1>2, <1>5
  <2>3. x[k] \in SetOf(x)
    BY <1>2 DEF SetOf
  <2>4. f[x[k]] = h[x[k]]
    BY <2>3 DEF x
  <2> HIDE DEF j
  <2>5. Mailed(x, f)[k] = [msg |-> l[j], to |-> h[l[j]]]
    BY <1>6, <2>2, <2>4
  <2> QED BY <1>3, <2>1, <2>2, <2>5
<1>8. Mailed(x, f) = y
  BY <1>5, <1>6, <1>7, SeqEqual
<1> QED BY <1>8 DEF x, y, s

-----------------------------------------------------------------------------
(* The queues of MsgQueues, and its steps said of them.                    *)
Mail == Mailed(Queue!Walk("osal_qHead"), dest_id)
Plain == Queue!Walk("plain")
Limited == Queue!Walk("limited")

LEMMA QueuedIs ==
  Queue!Abstract!Queued = {Mail[i].msg : i \in 1 .. Len(Mail)} \cup {Plain[i] : i \in 1 .. Len(Plain)}
                          \cup {Limited[i] : i \in 1 .. Len(Limited)}
BY Zenon DEF Queue!Abstract!Queued, Mail, Mailed, Plain, Limited

LEMMA FirstIs ==
  ASSUME Mail = << >>, Plain = << >>, Limited = << >>
  PROVE  Queue!Abstract!Init
BY Zenon DEF Queue!Abstract!Init, Mail, Mailed, Plain, Limited

LEMMA SendIs ==
  ASSUME NEW m, NEW t, Plain' = Plain, Limited' = Limited,
         \/ Mail' = Append(Mail, [msg |-> m, to |-> t])
         \/ Mail' = <<[msg |-> m, to |-> t]>> \o Mail
  PROVE  Queue!Abstract!Send(m, t)
BY Zenon DEF Queue!Abstract!Send, Mail, Mailed, Plain, Limited

LEMMA ReceiveIs ==
  ASSUME NEW t, Plain' = Plain, Limited' = Limited, NEW i \in 1 .. Len(Mail), Mail[i].to = t,
         \A j \in 1 .. i - 1 : Mail[j].to # t, Mail' = Around(Mail, i)
  PROVE  Queue!Abstract!Receive(t)
BY Zenon DEF Queue!Abstract!Receive, Mail, Mailed, Plain, Limited, Around

LEMMA EnqueueIs ==
  ASSUME NEW m, Mail' = Mail, Limited' = Limited,
         Plain' = Append(Plain, m) \/ Plain' = <<m>> \o Plain
  PROVE  Queue!Abstract!Enqueue(m)
BY Zenon DEF Queue!Abstract!Enqueue, Mail, Mailed, Plain, Limited

LEMMA EnqueueMaxIs ==
  ASSUME NEW m, Mail' = Mail, Plain' = Plain, Len(Limited) < max, Limited' = Append(Limited, m)
  PROVE  Queue!Abstract!EnqueueMax(m)
BY Zenon DEF Queue!Abstract!EnqueueMax, Mail, Mailed, Plain, Limited

LEMMA DequeueIs ==
  ASSUME Mail' = Mail,
         \/ Plain # << >> /\ Plain' = Tail(Plain) /\ Limited' = Limited
         \/ Limited # << >> /\ Limited' = Tail(Limited) /\ Plain' = Plain
  PROVE  Queue!Abstract!Dequeue
BY Zenon DEF Queue!Abstract!Dequeue, Mail, Mailed, Plain, Limited

LEMMA SameIs ==
  ASSUME Mail' = Mail, Plain' = Plain, Limited' = Limited
  PROVE  UNCHANGED Queue!Abstract!vars
BY Zenon DEF Queue!Abstract!vars, Mail, Mailed, Plain, Limited

-----------------------------------------------------------------------------
(* The invariant: every queue is a list, no message is in two, and a task  *)
(* is announced for each message in the queue of the tasks.                *)
Kept(L) ==
  ListsHold(L) /\ announced = {dest_id[b] : b \in SetOf(L["osal_qHead"])}

QueueInv == \E L : Kept(L)

QueueServed == QueueInv' /\ [Queue!Abstract!Next]_(Queue!Abstract!vars)

LEMMA SetLast ==
  ASSUME NEW l \in Seq(Msgs), NEW m \in Msgs
  PROVE  SetOf(Append(l, m)) = SetOf(l) \cup {m}
<1>1. /\ Len(Append(l, m)) = Len(l) + 1 /\ Append(l, m)[Len(l) + 1] = m
      /\ \A k \in 1 .. Len(l) : Append(l, m)[k] = l[k]
  BY AppendProperties
<1>2. \A k : k \in 1 .. Len(l) + 1 <=> k = Len(l) + 1 \/ k \in 1 .. Len(l)
  BY OfList
<1> QED BY <1>1, <1>2 DEF SetOf

LEMMA SetFirst ==
  ASSUME NEW l \in Seq(Msgs), NEW m \in Msgs
  PROVE  SetOf(<<m>> \o l) = SetOf(l) \cup {m}
<1> DEFINE x == <<m>> \o l
           n == Len(l)
<1>1. n \in Nat /\ Len(x) = 1 + n
      /\ \A k \in 1 .. 1 + n : x[k] = IF k <= 1 THEN m ELSE l[k - 1]
  BY OneBefore, OfList
<1> HIDE DEF x
<1>2. ASSUME NEW b \in SetOf(x) PROVE b \in SetOf(l) \cup {m}
  <2>1. PICK k \in 1 .. 1 + n : b = x[k]
    BY <1>1 DEF SetOf
  <2>2. ~(k <= 1) => k - 1 \in 1 .. n
    BY <1>1
  <2> QED BY <1>1, <2>1, <2>2 DEF SetOf
<1>3. ASSUME NEW b \in SetOf(l) \cup {m} PROVE b \in SetOf(x)
  <2>1. CASE b = m
    <3>1. 1 \in 1 .. 1 + n /\ x[1] = m
      BY <1>1
    <3> QED BY <1>1, <2>1, <3>1 DEF SetOf
  <2>2. CASE b # m
    <3>1. PICK k \in 1 .. n : b = l[k]
      BY <1>3, <2>2 DEF SetOf
    <3>2. k + 1 \in 1 .. 1 + n /\ ~(k + 1 <= 1) /\ (k + 1) - 1 = k
      BY <1>1
    <3>3. x[k + 1] = b
      BY <1>1, <3>1, <3>2
    <3> QED BY <1>1, <3>2, <3>3 DEF SetOf
  <2> QED BY <2>1, <2>2
<1> QED BY <1>2, <1>3 DEF x

(* What the queues of MsgQueues are, before a step and after it.           *)
LEMMA QueuesAre ==
  ASSUME Queue!OsalQueueAssumption, NEW L, ListsHold(L)
  PROVE  /\ Mail = Mailed(L["osal_qHead"], dest_id) /\ Plain = L["plain"]
         /\ Limited = L["limited"] /\ dest_id \in Headers
         /\ \A q \in Queue!Queues : Queue!Walk(q) = L[q] /\ L[q] \in Seq(Msgs)
         /\ {"osal_qHead", "plain", "limited"} = Queue!Queues
         /\ L = [q \in Queue!Queues |-> L[q]]
<1>1. {"osal_qHead", "plain", "limited"} = Queue!Queues
  BY DEF Queue!Queues
<1>2. \A q \in Queue!Queues : Queue!Walk(q) = L[q]
  BY WalksAre DEF ListsHold
<1>3. (\A q \in Queue!Queues : L[q] \in Seq(Msgs)) /\ L = [q \in Queue!Queues |-> L[q]]
  BY DEF ListsHold, AllIn, Linking
<1>4. dest_id \in Headers
  BY DEF ListsHold, Queue!TypeOK, Headers
<1> QED BY <1>1, <1>2, <1>3, <1>4 DEF Mail, Plain, Limited

LEMMA NextQueuesAre ==
  ASSUME Queue!OsalQueueAssumption, NEW L, AllIn(L, queue', next', dest_id')
  PROVE  /\ Mail' = Mailed(L["osal_qHead"], dest_id') /\ Plain' = L["plain"]
         /\ Limited' = L["limited"]
<1>1. {"osal_qHead", "plain", "limited"} = Queue!Queues
  BY DEF Queue!Queues
<1>2. \A q \in Queue!Queues : Queue!Walk(q)' = L[q]
  BY NextWalksAre
<1>3. Queue!Walk("osal_qHead")' = L["osal_qHead"] /\ Queue!Walk("plain")' = L["plain"]
      /\ Queue!Walk("limited")' = L["limited"]
  BY <1>1, <1>2
<1> QED BY <1>3 DEF Mail, Plain, Limited

(* A held message is in no queue.                                          *)
LEMMA HeldIs ==
  ASSUME Queue!OsalQueueAssumption, NEW L, ListsHold(L), NEW m \in Queue!Held
  PROVE  Free(L, m) /\ m \in Msgs \ Queue!Abstract!Queued
<1>1. \A q \in Queue!Queues : Queue!Met(q) = SetOf(L[q])
  BY QueuesAre DEF Queue!Met, SetOf
<1>2. Free(L, m)
  BY <1>1 DEF Free, Queue!Held
<1>3. {Mail[i].msg : i \in 1 .. Len(Mail)} = SetOf(L["osal_qHead"])
  <2>1. L["osal_qHead"] \in Seq(Msgs) /\ dest_id \in Headers
        /\ Mail = Mailed(L["osal_qHead"], dest_id)
    BY QueuesAre
  <2>2. Len(Mail) = Len(L["osal_qHead"])
        /\ \A i \in 1 .. Len(L["osal_qHead"]) :
             Mail[i] = [msg |-> L["osal_qHead"][i], to |-> dest_id[L["osal_qHead"][i]]]
    BY <2>1, MailedIs
  <2>3. ASSUME NEW i \in 1 .. Len(L["osal_qHead"]) PROVE Mail[i].msg = L["osal_qHead"][i]
    <3> DEFINE c == Mail[i]
    <3>1. c = [msg |-> L["osal_qHead"][i], to |-> dest_id[L["osal_qHead"][i]]]
      BY <2>2
    <3> HIDE DEF c
    <3>2. c.msg = L["osal_qHead"][i]
      BY <3>1
    <3> QED BY <3>2 DEF c
  <2> QED BY <2>2, <2>3 DEF SetOf
<1>4. Queue!Abstract!Queued
        = SetOf(L["osal_qHead"]) \cup SetOf(L["plain"]) \cup SetOf(L["limited"])
  <2>1. Plain = L["plain"] /\ Limited = L["limited"]
    BY QueuesAre
  <2>2. {Plain[i] : i \in 1 .. Len(Plain)} = SetOf(L["plain"])
    BY <2>1 DEF SetOf
  <2>3. {Limited[i] : i \in 1 .. Len(Limited)} = SetOf(L["limited"])
    BY <2>1 DEF SetOf
  <2> QED BY <1>3, <2>2, <2>3, QueuedIs, Zenon
<1> QED BY <1>2, <1>4, QueuesAre DEF Free

LEMMA KeptAgain ==
  ASSUME Queue!OsalQueueAssumption, NEW L, AllIn(L, queue', next', dest_id'),
         queue' \in [Queue!Queues -> Msgs \cup {NULL}],
         next' \in [Msgs -> Msgs \cup {NULL}],
         dest_id' \in Headers,
         announced' = {dest_id'[b] : b \in SetOf(L["osal_qHead"])}, announced' \subseteq Tasks
  PROVE  QueueInv'
<1>1. Queue!TypeOK'
  BY DEF Queue!TypeOK, Headers
<1> QED BY <1>1 DEF QueueInv, Kept, ListsHold

LEMMA SendServed ==
  ASSUME Queue!OsalQueueAssumption, NEW L, Kept(L), NEW m \in Queue!Held, NEW t \in Tasks,
         Queue!Send(m, t)
  PROVE  QueueServed
<1> DEFINE q == "osal_qHead"
           l == L[q]
<1>0. ListsHold(L) /\ Free(L, m) /\ m \in Msgs \ Queue!Abstract!Queued /\ m \in Msgs
      /\ announced = {dest_id[b] : b \in SetOf(l)} /\ m \notin SetOf(l) /\ announced \subseteq Tasks
  BY HeldIs DEF Kept, Free, Queue!Queues, ListsHold, Queue!TypeOK
<1>1. /\ Mail = Mailed(l, dest_id) /\ Plain = L["plain"] /\ Limited = L["limited"]
      /\ dest_id \in Headers /\ l \in Seq(Msgs)
      /\ {q, "plain", "limited"} = Queue!Queues
      /\ L = [r \in Queue!Queues |-> L[r]] /\ q \in Queue!Queues
  BY <1>0, QueuesAre
<1>2. dest_id' = [dest_id EXCEPT ![m] = t] /\ announced' = announced \cup {t}
  BY DEF Queue!Send
<1>3. /\ dest_id' \in Headers /\ dest_id'[m] = t
      /\ \A b \in Msgs : b # m => dest_id'[b] = dest_id[b]
  BY <1>0, <1>1, <1>2 DEF Headers
<1>4. Addressed(q, m)
  BY <1>3 DEF Addressed
<1>5. \A b \in SetOf(l) : b \in Msgs /\ b # m /\ dest_id'[b] = dest_id[b]
  BY <1>0, <1>1, <1>3, OfList DEF SetOf
<1>6. announced' = {dest_id'[b] : b \in SetOf(l) \cup {m}}
  BY <1>0, <1>2, <1>3, <1>5
<1>7. ASSUME NEW x, x \in {Append(l, m), <<m>> \o l},
             AllIn([L EXCEPT ![q] = x], queue', next', dest_id'),
             queue' \in [Queue!Queues -> Msgs \cup {NULL}],
             next' \in [Msgs -> Msgs \cup {NULL}]
      PROVE  QueueServed
  <2> DEFINE K == [L EXCEPT ![q] = x]
  <2>1. K[q] = x /\ K["plain"] = L["plain"] /\ K["limited"] = L["limited"]
    BY <1>1
  <2>2. SetOf(x) = SetOf(l) \cup {m}
    BY <1>0, <1>1, <1>7, SetLast, SetFirst
  <2>3. QueueInv'
    <3>1. AllIn(K, queue', next', dest_id') /\ announced' = {dest_id'[b] : b \in SetOf(K["osal_qHead"])}
          /\ announced' \subseteq Tasks
      BY <1>0, <1>2, <1>6, <1>7, <2>1, <2>2
    <3> HIDE DEF K
    <3> QED BY <1>3, <1>7, <3>1, KeptAgain
  <2>4. Mail' = Mailed(x, dest_id') /\ Plain' = Plain /\ Limited' = Limited
    <3>1. AllIn(K, queue', next', dest_id')
      BY <1>7
    <3> HIDE DEF K
    <3> QED BY <1>1, <2>1, <3>1, NextQueuesAre
  <2>5. \/ Mailed(x, dest_id') = Append(Mailed(l, dest_id), [msg |-> m, to |-> dest_id'[m]])
        \/ Mailed(x, dest_id') = <<[msg |-> m, to |-> dest_id'[m]]>> \o Mailed(l, dest_id)
    <3> HIDE DEF l
    <3>1. CASE x = Append(l, m)
      BY <1>0, <1>1, <1>3, <1>5, <3>1, MailedLast
    <3>2. CASE x = <<m>> \o l
      BY <1>0, <1>1, <1>3, <1>5, <3>2, MailedFirst
    <3> QED BY <1>7, <3>1, <3>2 DEF l
  <2>6. Queue!Abstract!Send(m, t)
    BY <1>1, <1>3, <2>4, <2>5, SendIs
  <2> QED BY <1>0, <2>3, <2>6 DEF QueueServed, Queue!Abstract!Next
<1>8. CASE Queue!Enqueue(q, m)
  BY <1>0, <1>1, <1>4, <1>7, <1>8, EnqueueStep
<1>9. CASE Queue!Push(q, m)
  BY <1>0, <1>1, <1>4, <1>7, <1>9, PushStep
<1> QED BY <1>8, <1>9 DEF Queue!Send

LEMMA ReceiveServed ==
  ASSUME Queue!OsalQueueAssumption, NEW L, Kept(L), NEW t \in Tasks, Queue!Receive(t)
  PROVE  QueueServed
<1> DEFINE q == "osal_qHead"
           l == L[q]
           n == Len(l)
           mine == {i \in 1 .. n : dest_id[l[i]] = t}
<1>0. ListsHold(L) /\ announced = {dest_id[b] : b \in SetOf(l)} /\ announced \subseteq Tasks
  BY DEF Kept, ListsHold, Queue!TypeOK
<1>1. /\ Mail = Mailed(l, dest_id) /\ Plain = L["plain"] /\ Limited = L["limited"]
      /\ dest_id \in Headers /\ l \in Seq(Msgs) /\ Queue!Walk(q) = l
      /\ {q, "plain", "limited"} = Queue!Queues
      /\ L = [r \in Queue!Queues |-> L[r]] /\ q \in Queue!Queues
  BY <1>0, QueuesAre
<1>2. n \in Nat /\ (\A k \in 1 .. n : l[k] \in Msgs) /\ Distinct(l) /\ mine \subseteq Nat
  BY <1>0, <1>1, OfList DEF ListsHold, AllIn, Linking
<1>3. announced' = IF Cardinality(mine) > 1 THEN announced \cup {t} ELSE announced \ {t}
  BY <1>1, SameSets DEF Queue!Receive, Queue!Left
<1>4. CASE mine = {}
  <2>1. queue' = queue /\ next' = next /\ dest_id' = dest_id
    BY <1>1, <1>4 DEF Queue!Receive
  <2>2. Cardinality(mine) = 0
    BY <1>4, FS_EmptySet
  <2>3. t \notin announced
    BY <1>0, <1>4 DEF SetOf
  <2>4. announced' = announced
    BY <1>3, <2>2, <2>3
  <2>5. QueueInv' /\ AllIn(L, queue', next', dest_id')
    <3>1. Queue!TypeOK' /\ AllIn(L, queue', next', dest_id')
      BY <1>0, <2>1, <2>4 DEF ListsHold, Queue!TypeOK
    <3> QED BY <1>0, <2>1, <2>4, <3>1 DEF QueueInv, Kept, ListsHold
  <2>6. Mail' = Mail /\ Plain' = Plain /\ Limited' = Limited
    BY <1>1, <2>1, <2>5, NextQueuesAre
  <2> QED BY <2>5, <2>6, SameIs DEF QueueServed
<1>5. CASE mine # {}
  <2> DEFINE Least(i) == i \in mine /\ \A j \in mine : i <= j
             i == CHOOSE i \in mine : \A j \in mine : i <= j
             m == l[i]
             x == Removed(l, i)
             K == [L EXCEPT ![q] = x]
  <2>1. Least(i)
    <3> HIDE DEF mine
    <3> QED BY <1>2, <1>5, LeastOf
  <2>2. Queue!Unlink(q, l[i], IF i = 1 THEN NULL ELSE l[i - 1])
    <3> DEFINE Of(w) == {j \in 1 .. Len(w) : dest_id[w[j]] = t}
               First(w) == CHOOSE j \in Of(w) : \A k \in Of(w) : j <= k
               Taken(w) == Of(w) # {} =>
                 Queue!Unlink(q, w[First(w)], IF First(w) = 1 THEN NULL ELSE w[First(w) - 1])
    <3>1. Taken(Queue!Walk(q))
      BY Zenon DEF Queue!Receive
    <3>2. Taken(l)
      <4> HIDE DEF Taken, l
      <4> QED BY <1>1, <3>1
    <3> QED BY <1>5, <3>2
  <2> HIDE DEF i
  <2>3. i \in 1 .. n /\ dest_id[l[i]] = t /\ \A j \in 1 .. i - 1 : dest_id[l[j]] # t
    <3>1. i \in 1 .. n /\ dest_id[l[i]] = t
      BY <2>1
    <3>2. ASSUME NEW j \in 1 .. i - 1 PROVE dest_id[l[j]] # t
      <4>1. j \in 1 .. n /\ ~(i <= j)
        BY <1>2, <3>1
      <4> QED BY <2>1, <4>1
    <3> QED BY <3>1, <3>2
  <2>4. /\ AllIn([L EXCEPT ![q] = Removed(L[q], i)], queue', next', dest_id')
        /\ queue' \in [Queue!Queues -> Msgs \cup {NULL}]
        /\ next' \in [Msgs -> Msgs \cup {NULL}]
        /\ dest_id' = [dest_id EXCEPT ![L[q][i]] = Queue!TASK_NO_TASK]
        /\ SetOf(Removed(L[q], i)) = SetOf(L[q]) \ {L[q][i]}
    <3>1. L[q] = l
      OBVIOUS
    <3> HIDE DEF l, q
    <3> QED BY <1>0, <1>1, <2>2, <2>3, <3>1, UnlinkStep
  <2>5. AllIn(K, queue', next', dest_id') /\ SetOf(x) = SetOf(l) \ {m}
    BY <2>4
  <2> HIDE DEF x
  <2>6. K[q] = x /\ K["plain"] = L["plain"] /\ K["limited"] = L["limited"]
    BY <1>1
  <2>7. dest_id' \in Headers /\ \A b \in SetOf(x) : dest_id'[b] = dest_id[b]
    <3>1. \A b \in SetOf(x) : b \in Msgs /\ b # m
      BY <1>2, <2>5 DEF SetOf
    <3> QED BY <1>1, <1>2, <2>3, <2>4, <3>1 DEF Headers
  <2>8. announced' = {dest_id'[b] : b \in SetOf(x)} /\ announced' \subseteq Tasks
    <3>1. Cardinality(mine) > 1 <=> \E j \in mine : j # i
      <4>1. n \in Nat /\ mine \in SUBSET (1 .. n) /\ i \in mine
        BY <1>2, <2>1
      <4> HIDE DEF mine, n
      <4>2. \A a \in Nat : \A S \in SUBSET (1 .. a) : \A k \in S :
              Cardinality(S) > 1 <=> \E j \in S : j # k
        BY Zenon, MoreThanOne
      <4> QED BY <4>1, <4>2, Zenon
    <3>2. (\E j \in mine : j # i) <=> \E b \in SetOf(x) : dest_id[b] = t
      <4>1. ASSUME NEW j \in mine, j # i PROVE \E b \in SetOf(x) : dest_id[b] = t
        <5>1. l[j] \in SetOf(l) /\ l[j] # m /\ dest_id[l[j]] = t
          BY <1>2, <2>3, <4>1 DEF SetOf, Distinct
        <5> QED BY <2>5, <5>1
      <4>2. ASSUME NEW b \in SetOf(x), dest_id[b] = t PROVE \E j \in mine : j # i
        <5>1. b \in SetOf(l) /\ b # m
          BY <2>5
        <5>2. PICK j \in 1 .. n : b = l[j]
          BY <5>1 DEF SetOf
        <5> QED BY <4>2, <5>1, <5>2
      <4> QED BY <4>1, <4>2
    <3>3. {dest_id'[b] : b \in SetOf(x)} = {dest_id[b] : b \in SetOf(x)}
      BY <2>7
    <3>4. announced = {dest_id[b] : b \in SetOf(x)} \cup {t}
      <4>1. m \in SetOf(l) /\ dest_id[m] = t
        BY <2>3 DEF SetOf
      <4> HIDE DEF l, m
      <4> QED BY <1>0, <2>5, <4>1
    <3> QED BY <1>0, <1>3, <3>1, <3>2, <3>3, <3>4
  <2>9. QueueInv'
    <3>1. announced' = {dest_id'[b] : b \in SetOf(K["osal_qHead"])}
      BY <2>6, <2>8
    <3> HIDE DEF K
    <3> QED BY <2>4, <2>5, <2>7, <2>8, <3>1, KeptAgain
  <2>10. Mail' = Mailed(x, dest_id') /\ Plain' = Plain /\ Limited' = Limited
    <3> HIDE DEF K
    <3> QED BY <1>1, <2>5, <2>6, NextQueuesAre
  <2>11. Mail' = Around(Mail, i)
    <3>1. Mailed(Removed(l, i), dest_id') = Around(Mailed(l, dest_id), i)
      <4> HIDE DEF l
      <4> QED BY <1>1, <2>3, <2>7, MailedAround DEF x
    <3> QED BY <1>1, <2>10, <3>1 DEF x
  <2>12. /\ Len(Mail) = n /\ \A k \in 1 .. n : Mail[k].to = dest_id[l[k]]
    <3>1. Len(Mail) = n /\ \A k \in 1 .. n : Mail[k] = [msg |-> l[k], to |-> dest_id[l[k]]]
      BY <1>1, MailedIs
    <3>2. ASSUME NEW k \in 1 .. n PROVE Mail[k].to = dest_id[l[k]]
      <4> DEFINE c == Mail[k]
      <4>1. c = [msg |-> l[k], to |-> dest_id[l[k]]]
        BY <3>1
      <4> HIDE DEF c
      <4>2. c.to = dest_id[l[k]]
        BY <4>1
      <4> QED BY <4>2 DEF c
    <3> QED BY <3>1, <3>2
  <2>13. Queue!Abstract!Receive(t)
    <3>1. i \in 1 .. Len(Mail) /\ Mail[i].to = t
      BY <2>3, <2>12
    <3>2. \A j \in 1 .. i - 1 : j \in 1 .. n
      BY <1>2, <2>3
    <3>3. \A j \in 1 .. i - 1 : Mail[j].to # t
      BY <2>3, <2>12, <3>2
    <3> QED BY <2>10, <2>11, <3>1, <3>3, ReceiveIs
  <2> QED BY <2>9, <2>13 DEF QueueServed, Queue!Abstract!Next
<1> QED BY <1>4, <1>5

(* A queue of a task's own, q: the queue of the tasks is as it was.        *)
LEMMA OwnQueue ==
  ASSUME Queue!OsalQueueAssumption, NEW L, Kept(L), NEW q \in {"plain", "limited"}, NEW x,
         AllIn([L EXCEPT ![q] = x], queue', next', dest_id'),
         queue' \in [Queue!Queues -> Msgs \cup {NULL}],
         next' \in [Msgs -> Msgs \cup {NULL}], dest_id' \in Headers,
         \A b \in SetOf(L["osal_qHead"]) : dest_id'[b] = dest_id[b], announced' = announced
  PROVE  /\ QueueInv' /\ Mail' = Mail
         /\ Plain = L["plain"] /\ Plain' = (IF q = "plain" THEN x ELSE L["plain"])
         /\ Limited = L["limited"] /\ Limited' = (IF q = "limited" THEN x ELSE L["limited"])
<1> DEFINE K == [L EXCEPT ![q] = x]
           l == L["osal_qHead"]
<1>0. ListsHold(L) /\ announced = {dest_id[b] : b \in SetOf(l)} /\ announced \subseteq Tasks
  BY DEF Kept, ListsHold, Queue!TypeOK
<1>1. /\ Mail = Mailed(l, dest_id) /\ Plain = L["plain"] /\ Limited = L["limited"]
      /\ dest_id \in Headers /\ l \in Seq(Msgs)
      /\ {"osal_qHead", "plain", "limited"} = Queue!Queues
      /\ L = [r \in Queue!Queues |-> L[r]]
  BY <1>0, QueuesAre
<1>2. /\ K["osal_qHead"] = l /\ K["plain"] = (IF q = "plain" THEN x ELSE L["plain"])
      /\ K["limited"] = (IF q = "limited" THEN x ELSE L["limited"])
  BY <1>1
<1>3. AllIn(K, queue', next', dest_id')
  OBVIOUS
<1> HIDE DEF K
<1>4. announced' = {dest_id'[b] : b \in SetOf(K["osal_qHead"])} /\ announced' \subseteq Tasks
  BY <1>0, <1>2
<1>5. QueueInv'
  BY <1>3, <1>4, KeptAgain
<1>6. Mail' = Mailed(l, dest_id') /\ Plain' = K["plain"] /\ Limited' = K["limited"]
  BY <1>2, <1>3, NextQueuesAre
<1>7. Mailed(l, dest_id') = Mailed(l, dest_id)
  <2>1. \A k \in 1 .. Len(l) : dest_id'[l[k]] = dest_id[l[k]]
    BY DEF SetOf
  <2> HIDE DEF l
  <2> QED BY <2>1 DEF Mailed
<1> QED BY <1>1, <1>2, <1>5, <1>6, <1>7

LEMMA EnqueueServed ==
  ASSUME Queue!OsalQueueAssumption, NEW L, Kept(L), NEW m \in Queue!Held, Queue!EnqueueOwn(m)
  PROVE  QueueServed
<1> DEFINE q == "plain"
<1>0. ListsHold(L) /\ Free(L, m) /\ m \in Msgs \ Queue!Abstract!Queued
  BY HeldIs DEF Kept
<1>1. dest_id \in Headers /\ q \in Queue!Queues
  BY <1>0, QueuesAre
<1>2. dest_id' = dest_id /\ announced' = announced
  BY DEF Queue!EnqueueOwn
<1>3. Addressed(q, m)
  <2>1. m \notin SetOf(L["osal_qHead"]) /\ m \in Msgs
    BY <1>0 DEF Free, Queue!Queues
  <2> QED BY <1>0, <1>2, <2>1 DEF ListsHold, AllIn, Addressed
<1>4. ASSUME NEW x, x \in {Append(L[q], m), <<m>> \o L[q]},
             AllIn([L EXCEPT ![q] = x], queue', next', dest_id'),
             queue' \in [Queue!Queues -> Msgs \cup {NULL}],
             next' \in [Msgs -> Msgs \cup {NULL}]
      PROVE  QueueServed
  <2>1. /\ QueueInv' /\ Mail' = Mail /\ Plain = L[q] /\ Plain' = x /\ Limited' = Limited
    BY <1>1, <1>2, <1>4, OwnQueue
  <2>2. Queue!Abstract!Enqueue(m)
    BY <1>4, <2>1, EnqueueIs
  <2> QED BY <1>0, <2>1, <2>2 DEF QueueServed, Queue!Abstract!Next
<1>5. CASE Queue!Enqueue(q, m)
  BY <1>0, <1>1, <1>3, <1>4, <1>5, EnqueueStep
<1>6. CASE Queue!Push(q, m)
  BY <1>0, <1>1, <1>3, <1>4, <1>6, PushStep
<1> QED BY <1>5, <1>6 DEF Queue!EnqueueOwn

(* The walk of osal_msg_enqueue_max stops where the queue is full.         *)
LEMMA EnqueueMaxServed ==
  ASSUME Queue!OsalQueueAssumption, NEW L, Kept(L), NEW m \in Queue!Held,
         Queue!EnqueueMax(m)
  PROVE  QueueInv' /\ (max # 0 => QueueServed)
<1> DEFINE q == "limited"
           l == L[q]
<1>0. ListsHold(L) /\ Free(L, m) /\ m \in Msgs \ Queue!Abstract!Queued
  BY HeldIs DEF Kept
<1>1. dest_id \in Headers /\ q \in Queue!Queues /\ Queue!Walk(q) = l /\ l \in Seq(Msgs)
      /\ Len(l) \in Nat
  BY <1>0, QueuesAre, LenProperties
<1>2. dest_id' = dest_id /\ announced' = announced
  BY DEF Queue!EnqueueMax
<1>3. /\ AllIn([L EXCEPT ![q] = Append(L[q], m)], queue', next', dest_id')
      /\ queue' \in [Queue!Queues -> Msgs \cup {NULL}]
      /\ next' \in [Msgs -> Msgs \cup {NULL}]
  BY <1>0, EnqueueMaxStep
<1>4. /\ QueueInv' /\ Mail' = Mail /\ Limited = l /\ Limited' = Append(l, m) /\ Plain' = Plain
  BY <1>1, <1>2, <1>3, OwnQueue
<1> SUFFICES ASSUME max # 0 PROVE QueueServed
  BY <1>4
<1>5. max \in 1 .. 255
  BY DEF Queue!OsalQueueAssumption
<1>6. Len(l) < max
  <2>1. CASE queue[q] = NULL
    <3>1. l = << >>
      BY <1>0, <1>1, <2>1, OfList DEF ListsHold, AllIn, Queue!OsalQueueAssumption, StartOf
    <3>2. Len(l) = 0
      BY <3>1
    <3> QED BY <1>5, <3>2
  <2>2. CASE queue[q] # NULL
    <3>1. ~((max + 255) % 256 < Len(l))
      BY <1>1, <2>2 DEF Queue!EnqueueMax, Queue!Reached
    <3>2. (max + 255) % 256 = max - 1
      BY <1>5
    <3> HIDE DEF l
    <3> QED BY <1>1, <1>5, <3>1, <3>2
  <2> QED BY <2>1, <2>2
<1>7. Queue!Abstract!EnqueueMax(m)
  BY <1>4, <1>6, EnqueueMaxIs
<1> QED BY <1>0, <1>4, <1>7 DEF QueueServed, Queue!Abstract!Next

LEMMA DequeueServed ==
  ASSUME Queue!OsalQueueAssumption, NEW L, Kept(L), NEW q \in {"plain", "limited"},
         Queue!Dequeue(q)
  PROVE  QueueServed
<1> DEFINE l == L[q]
<1>0. ListsHold(L) /\ NULL \notin Msgs
  BY DEF Kept, Queue!OsalQueueAssumption
<1>1. dest_id \in Headers /\ q \in Queue!Queues /\ l \in Seq(Msgs) /\ queue[q] = StartOf(l)
      /\ "osal_qHead" \in Queue!Queues
  <2>1. q \in Queue!Queues /\ dest_id \in Headers
    BY <1>0, QueuesAre
  <2> QED BY <1>0, <2>1, QueuesAre DEF ListsHold, AllIn
<1>2. queue[q] # NULL /\ announced' = announced /\ Queue!Unlink(q, queue[q], NULL)
  BY DEF Queue!Dequeue
<1>3. l # << >> /\ queue[q] = l[1] /\ 1 \in 1 .. Len(l)
  BY <1>1, <1>2, OfList
<1>4. /\ AllIn([L EXCEPT ![q] = Removed(L[q], 1)], queue', next', dest_id')
      /\ queue' \in [Queue!Queues -> Msgs \cup {NULL}]
      /\ next' \in [Msgs -> Msgs \cup {NULL}]
      /\ dest_id' = [dest_id EXCEPT ![L[q][1]] = Queue!TASK_NO_TASK]
  <2>1. PICK i \in 1 .. Len(L[q]) : i = 1
    BY <1>3
  <2>2. PICK prev : prev = NULL
    OBVIOUS
  <2>3. Queue!Unlink(q, L[q][i], prev) /\ (i # 1 => prev = L[q][i - 1])
    BY <1>2, <1>3, <2>1, <2>2
  <2>4. /\ AllIn([L EXCEPT ![q] = Removed(L[q], i)], queue', next', dest_id')
        /\ queue' \in [Queue!Queues -> Msgs \cup {NULL}]
        /\ next' \in [Msgs -> Msgs \cup {NULL}]
        /\ dest_id' = [dest_id EXCEPT ![L[q][i]] = Queue!TASK_NO_TASK]
    <3>1. q \in Queue!Queues /\ ListsHold(L) /\ Queue!OsalQueueAssumption
      BY <1>0, <1>1
    <3> QED BY <2>3, <3>1, UnlinkStep
  <2> QED BY <2>1, <2>4
<1>5. dest_id' \in Headers /\ \A b \in SetOf(L["osal_qHead"]) : dest_id'[b] = dest_id[b]
  <2>1. l[1] \in Msgs /\ l[1] \in SetOf(l)
    BY <1>1, <1>3, OfList DEF SetOf
  <2>2. SetOf(l) \cap SetOf(L["osal_qHead"]) = {}
    BY <1>0, <1>1 DEF ListsHold, AllIn
  <2>3. \A b \in SetOf(L["osal_qHead"]) : b \in Msgs
    BY <1>0, <1>1, OfList DEF SetOf, ListsHold, AllIn, Linking
  <2> QED BY <1>1, <1>4, <2>1, <2>2, <2>3 DEF Headers
<1>6. Removed(l, 1) = Tail(l)
  BY <1>1, <1>3, TailIsRemoved
<1>7. AllIn([L EXCEPT ![q] = Tail(l)], queue', next', dest_id')
  BY <1>4, <1>6
<1>8. /\ QueueInv' /\ Mail' = Mail
      /\ Plain = L["plain"] /\ Plain' = (IF q = "plain" THEN Tail(l) ELSE L["plain"])
      /\ Limited = L["limited"] /\ Limited' = (IF q = "limited" THEN Tail(l) ELSE L["limited"])
  <2> HIDE DEF l
  <2> QED BY <1>2, <1>4, <1>5, <1>7, OwnQueue
<1>9. Queue!Abstract!Dequeue
  <2>1. \/ Plain # << >> /\ Plain' = Tail(Plain) /\ Limited' = Limited
        \/ Limited # << >> /\ Limited' = Tail(Limited) /\ Plain' = Plain
    BY <1>3, <1>8
  <2> QED BY <1>8, <2>1, DequeueIs
<1> QED BY <1>8, <1>9 DEF QueueServed, Queue!Abstract!Next

LEMMA QueueFirstServed ==
  ASSUME Queue!OsalQueueAssumption, Queue!Init
  PROVE  QueueInv /\ Queue!Abstract!Init
<1> DEFINE L == [q \in Queue!Queues |-> << >>]
<1>1. << >> \in Seq(Msgs) /\ Len(<< >>) = 0 /\ SetOf(<< >>) = {} /\ StartOf(<< >>) = NULL
  BY DEF SetOf, StartOf
<1>2. \A q \in Queue!Queues : L[q] = << >>
  OBVIOUS
<1>3. AllIn(L, queue, next, dest_id)
  <2>1. Linking(<< >>, next)
    BY <1>1 DEF Linking, Distinct, Chained
  <2>2. L = [q \in Queue!Queues |-> L[q]]
    OBVIOUS
  <2> HIDE DEF L
  <2> QED BY <1>1, <1>2, <2>1, <2>2 DEF AllIn, Queue!Init, Queue!Queues
<1>4. Queue!TypeOK
  BY DEF Queue!Init, Queue!TypeOK
<1>5. "osal_qHead" \in Queue!Queues /\ announced = {}
  BY DEF Queue!Init, Queue!Queues
<1>6. announced = {dest_id[b] : b \in SetOf(L["osal_qHead"])}
  BY <1>1, <1>2, <1>5
<1> HIDE DEF L
<1>7. Kept(L)
  BY <1>3, <1>4, <1>6 DEF Kept, ListsHold
<1>8. Mail = << >> /\ Plain = << >> /\ Limited = << >>
  <2>1. /\ Mail = Mailed(L["osal_qHead"], dest_id) /\ Plain = L["plain"] /\ Limited = L["limited"]
        /\ dest_id \in Headers /\ {"osal_qHead", "plain", "limited"} = Queue!Queues
    BY <1>7, QueuesAre DEF Kept
  <2>2. Mail = Mailed(<< >>, dest_id) /\ Plain = << >> /\ Limited = << >>
    BY <1>2, <2>1
  <2>3. Mailed(<< >>, dest_id) \in Seq(Letters) /\ Len(Mailed(<< >>, dest_id)) = 0
    BY <1>1, <2>1, MailedIs
  <2> QED BY <2>2, <2>3, EmptySeq
<1> QED BY <1>7, <1>8, FirstIs DEF QueueInv

LEMMA QueueStepServed ==
  ASSUME Queue!OsalQueueAssumption, QueueInv, [Queue!Next]_(Queue!vars)
  PROVE  QueueInv' /\ (max # 0 => QueueServed)
<1>0. PICK L : Kept(L)
  BY DEF QueueInv
<1>1. ASSUME NEW m \in Queue!Held, Queue!EnqueueOwn(m) PROVE QueueServed
  BY <1>0, <1>1, EnqueueServed
<1>2. ASSUME NEW m \in Queue!Held, Queue!EnqueueMax(m)
      PROVE  QueueInv' /\ (max # 0 => QueueServed)
  BY <1>0, <1>2, EnqueueMaxServed
<1>3. ASSUME NEW m \in Queue!Held, NEW t \in Tasks, Queue!Send(m, t) PROVE QueueServed
  BY <1>0, <1>3, SendServed
<1>4. ASSUME NEW t \in Tasks, Queue!Receive(t) PROVE QueueServed
  BY <1>0, <1>4, ReceiveServed
<1>5. ASSUME NEW q \in {"plain", "limited"}, Queue!Dequeue(q) PROVE QueueServed
  BY <1>0, <1>5, DequeueServed
<1>6. CASE UNCHANGED Queue!vars
  <2>1. queue' = queue /\ next' = next /\ dest_id' = dest_id /\ announced' = announced
    BY <1>6 DEF Queue!vars
  <2>2. QueueInv' /\ AllIn(L, queue', next', dest_id')
    <3>1. Queue!TypeOK' /\ AllIn(L, queue', next', dest_id')
      BY <1>0, <2>1 DEF Kept, ListsHold, Queue!TypeOK
    <3> QED BY <1>0, <2>1, <3>1 DEF QueueInv, Kept, ListsHold
  <2>3. Mail' = Mail /\ Plain' = Plain /\ Limited' = Limited
    BY <1>0, <2>1, <2>2, QueuesAre, NextQueuesAre DEF Kept
  <2> QED BY <2>2, <2>3, SameIs DEF QueueServed
<1> QED BY <1>1, <1>2, <1>3, <1>4, <1>5, <1>6 DEF Queue!Next, QueueServed

(* For every set of messages and every set of tasks: the linked lists are  *)
(* the queues that osal_msg_send, osal_msg_enqueue, osal_msg_push,         *)
(* osal_msg_enqueue_max and osal_msg_receive promise, for every max but 0. *)
THEOREM LinkedListsAreQueues ==
  ASSUME Queue!OsalQueueAssumption, max # 0
  PROVE  Queue!Spec => Queue!IsQueues
<1>1. Queue!Init => QueueInv /\ Queue!Abstract!Init
  BY QueueFirstServed
<1>2. QueueInv /\ [Queue!Next]_(Queue!vars)
        => QueueInv' /\ [Queue!Abstract!Next]_(Queue!Abstract!vars)
  BY QueueStepServed DEF QueueServed
<1> QED BY <1>1, <1>2, PTL DEF Queue!Spec, Queue!IsQueues, Queue!Abstract!Spec

LEMMA QueueInvSays ==
  ASSUME Queue!OsalQueueAssumption, QueueInv
  PROVE  Queue!TypeOK /\ Queue!ListsAreSound /\ Queue!MailIsAnnounced
<1>0. PICK L : Kept(L)
  BY DEF QueueInv
<1>1. ListsHold(L) /\ AllIn(L, queue, next, dest_id) /\ IsFiniteSet(Msgs)
  BY <1>0, SameSets DEF Kept, ListsHold, Queue!OsalQueueAssumption
<1>2. \A q \in Queue!Queues : Queue!Walk(q) = L[q] /\ Queue!Met(q) = SetOf(L[q])
  BY <1>1, QueuesAre DEF Queue!Met, SetOf
<1>3. \A q \in Queue!Queues : Queue!Cardinality(Queue!Met(q)) = Len(Queue!Walk(q))
  BY <1>1, <1>2, SameSets, CountOf DEF AllIn, Linking
<1>4. \A q, r \in Queue!Queues : q # r => Queue!Met(q) \cap Queue!Met(r) = {}
  BY <1>1, <1>2 DEF AllIn
<1>5. "osal_qHead" \in Queue!Queues
  BY DEF Queue!Queues
<1>6. \A m \in Queue!Held : next[m] = NULL /\ dest_id[m] = Queue!TASK_NO_TASK
  BY <1>1, <1>2, <1>5 DEF AllIn, Queue!Held
<1>7. announced = {dest_id[m] : m \in Queue!Met("osal_qHead")}
  BY <1>0, <1>2, <1>5 DEF Kept
<1> QED BY <1>1, <1>3, <1>4, <1>6, <1>7
        DEF Queue!ListsAreSound, Queue!MailIsAnnounced, ListsHold

(* No message is in two queues or twice in one, one that is in none has an *)
(* empty header, and a task is announced exactly while mail waits for it.  *)
THEOREM LinkedListsAreSound ==
  ASSUME Queue!OsalQueueAssumption
  PROVE  Queue!Spec => [](Queue!TypeOK /\ Queue!ListsAreSound /\ Queue!MailIsAnnounced)
<1>1. Queue!Init => QueueInv
  BY QueueFirstServed
<1>2. QueueInv /\ [Queue!Next]_(Queue!vars) => QueueInv'
  BY QueueStepServed
<1>3. QueueInv => Queue!TypeOK /\ Queue!ListsAreSound /\ Queue!MailIsAnnounced
  BY QueueInvSays
<1> QED BY <1>1, <1>2, <1>3, PTL DEF Queue!Spec

-----------------------------------------------------------------------------
(* The callback timers by themselves, for clients that do anything at any  *)
(* time (module CbTimerTask).                                              *)

Times == UNION {0 .. d : d \in Timeouts \cup {0}}

TimerTables ==
  [data : [CbTimer!Slots -> Callbacks \cup {NoCallback}], left : [CbTimer!Slots -> Times],
   reload : [CbTimer!Slots -> Timeouts \cup {0}], events : SUBSET CbTimer!Slots]

(* A table whose slots are driven.                                         *)
Lawful(t) ==
  /\ t \in TimerTables
  /\ \A i \in CbTimer!Slots : IF t.data[i] = NoCallback THEN t.left[i] = 0
                      ELSE t.left[i] > 0 \/ i \in t.events

(* A slot that is called has expired, or was taken with its event set.     *)
CallIsDue ==
  \A i \in cb.events :
    cb.data[i] # NoCallback => since[i] \in {"expired", "retaken"}

TimerInv == CbTimer!TypeOK /\ CbTimer!SlotsAreDriven /\ CbTimer!ExpiredIsPending /\ CallIsDue

(* The same in terms of tables.                                            *)
LEMMA TimerParts ==
  TimerInv <=> /\ Lawful(cb) /\ CallIsDue
               /\ since \in [CbTimer!Slots -> {"free", "started", "retaken", "expired"}]
               /\ \A i \in CbTimer!Slots : since[i] = "expired" => i \in cb.events
BY DEF TimerInv, Lawful, TimerTables, Times, CbTimer!Slots, CbTimer!TypeOK,
       CbTimer!SlotsAreDriven, CbTimer!ExpiredIsPending

(* ... and after a step.                                                   *)
LEMMA TimerPartsNext ==
  TimerInv' <=> /\ Lawful(cb') /\ CallIsDue'
                /\ since' \in [CbTimer!Slots -> {"free", "started", "retaken", "expired"}]
                /\ \A i \in CbTimer!Slots : since'[i] = "expired" => i \in cb'.events
BY DEF TimerInv, Lawful, TimerTables, Times, CbTimer!Slots, CbTimer!TypeOK,
       CbTimer!SlotsAreDriven, CbTimer!ExpiredIsPending

(* Times are numbers, and smaller ones are times, too.                     *)
LEMMA TimesAreTimes ==
  ASSUME CbTimer!CbTimerAssumption
  PROVE  /\ Times \subseteq Nat /\ 0 \in Times
         /\ \A d \in Timeouts : d \in Times /\ d \in Nat /\ d > 0
         /\ \A n \in Times : n # 0 => n - 1 \in Times
BY DEF CbTimer!CbTimerAssumption, Times

(* The first of some slots is one of them.                                 *)
LEMMA FirstOfSome ==
  ASSUME NEW T, T \subseteq CbTimer!Slots, T # {}
  PROVE  CbTimer!FirstOf(T) \in T
<1> DEFINE Less == OpToRel(<, Nat)
<1>1. IsWellFoundedOn(Less, Nat)
  BY NatLessThanWellFounded
<1>2. T \subseteq Nat
  BY DEF CbTimer!Slots
<1>3. PICK x \in T : \A y \in T : <<y, x>> \notin Less
  BY <1>1, <1>2, WFMin
<1>4. \A y \in T : ~(y < x)
  BY <1>2, <1>3 DEF OpToRel
<1>5. \A y \in T : x <= y
  BY <1>2, <1>4
<1>6. \E i \in T : \A j \in T : i <= j
  BY <1>5
<1> QED BY <1>6 DEF CbTimer!FirstOf

(* A slot is taken, ...                                                    *)
LEMMA SlotTaken ==
  ASSUME CbTimer!CbTimerAssumption, NEW t, Lawful(t), CbTimer!Unused(t) # {},
         NEW x \in Callbacks, NEW d \in Timeouts,
         NEW r \in {CbTimer!CbTimerStart(t, x, d), CbTimer!CbTimerStartReload(t, x, d)}
  PROVE  Lawful(r) /\ r.events = t.events
<1> DEFINE i == CbTimer!FirstOf(CbTimer!Unused(t))
<1>1. i \in CbTimer!Slots
  BY FirstOfSome DEF CbTimer!Unused, CbTimer!Slots
<1>2. x # NoCallback /\ d > 0 /\ d \in Times
  BY TimesAreTimes DEF CbTimer!CbTimerAssumption
<1>3. /\ t \in TimerTables
      /\ \A j \in CbTimer!Slots : IF t.data[j] = NoCallback THEN t.left[j] = 0
                          ELSE t.left[j] > 0 \/ j \in t.events
  BY DEF Lawful
<1>4. \/ r = [t EXCEPT !.data[i] = x, !.left[i] = d]
      \/ r = [t EXCEPT !.data[i] = x, !.left[i] = d, !.reload[i] = d]
  BY DEF CbTimer!CbTimerStart, CbTimer!CbTimerStartReload
<1> HIDE DEF i
<1>5. /\ r.data = [t.data EXCEPT ![i] = x] /\ r.left = [t.left EXCEPT ![i] = d]
      /\ r.events = t.events
  BY <1>3, <1>4 DEF TimerTables
<1>7. r \in TimerTables
  <2>1. /\ [t.data EXCEPT ![i] = x] \in [CbTimer!Slots -> Callbacks \cup {NoCallback}]
        /\ [t.left EXCEPT ![i] = d] \in [CbTimer!Slots -> Times]
        /\ [t.reload EXCEPT ![i] = d] \in [CbTimer!Slots -> Timeouts \cup {0}]
    BY <1>1, <1>2, <1>3 DEF TimerTables
  <2>2. CASE r = [t EXCEPT !.data[i] = x, !.left[i] = d]
    <3>1. r = [t EXCEPT !.data = [t.data EXCEPT ![i] = x],
                        !.left = [t.left EXCEPT ![i] = d]]
      BY <1>3, <2>2 DEF TimerTables
    <3> QED BY <1>3, <2>1, <3>1 DEF TimerTables
  <2>3. CASE r = [t EXCEPT !.data[i] = x, !.left[i] = d, !.reload[i] = d]
    <3>1. r = [t EXCEPT !.data = [t.data EXCEPT ![i] = x],
                        !.left = [t.left EXCEPT ![i] = d],
                        !.reload = [t.reload EXCEPT ![i] = d]]
      BY <1>3, <2>3 DEF TimerTables
    <3> QED BY <1>3, <2>1, <3>1 DEF TimerTables
  <2> QED BY <1>4, <2>2, <2>3
<1>6. \A j \in CbTimer!Slots : IF r.data[j] = NoCallback THEN r.left[j] = 0
                       ELSE r.left[j] > 0 \/ j \in r.events
  BY <1>1, <1>2, <1>3, <1>5 DEF TimerTables
<1> QED BY <1>5, <1>6, <1>7 DEF Lawful

(* ... freed, ...                                                          *)
LEMMA SlotFreed ==
  ASSUME CbTimer!CbTimerAssumption, NEW t, Lawful(t), NEW i \in CbTimer!Slots,
         NEW r, r = CbTimer!CbTimerStop(t, i)
  PROVE  Lawful(r) /\ r.events = t.events
<1>1. r = [t EXCEPT !.data[i] = NoCallback, !.left[i] = 0, !.reload[i] = 0]
  BY DEF CbTimer!CbTimerStop
<1>2. /\ t \in TimerTables
      /\ \A j \in CbTimer!Slots : IF t.data[j] = NoCallback THEN t.left[j] = 0
                          ELSE t.left[j] > 0 \/ j \in t.events
  BY DEF Lawful
<1>3. /\ r.data = [t.data EXCEPT ![i] = NoCallback] /\ r.left = [t.left EXCEPT ![i] = 0]
      /\ r.events = t.events
  BY <1>1, <1>2 DEF TimerTables
<1>5. r \in TimerTables
  <2>1. /\ [t.data EXCEPT ![i] = NoCallback] \in [CbTimer!Slots -> Callbacks \cup {NoCallback}]
        /\ [t.left EXCEPT ![i] = 0] \in [CbTimer!Slots -> Times]
        /\ [t.reload EXCEPT ![i] = 0] \in [CbTimer!Slots -> Timeouts \cup {0}]
    BY <1>2, TimesAreTimes DEF TimerTables
  <2>2. r = [t EXCEPT !.data = [t.data EXCEPT ![i] = NoCallback],
                      !.left = [t.left EXCEPT ![i] = 0],
                      !.reload = [t.reload EXCEPT ![i] = 0]]
    BY <1>1, <1>2 DEF TimerTables
  <2> QED BY <1>2, <2>1, <2>2 DEF TimerTables
<1>4. \A j \in CbTimer!Slots : IF r.data[j] = NoCallback THEN r.left[j] = 0
                       ELSE r.left[j] > 0 \/ j \in r.events
  BY <1>2, <1>3 DEF TimerTables
<1> QED BY <1>3, <1>4, <1>5 DEF Lawful

(* ... and called, after which it is free unless its timer runs.           *)
LEMMA SlotHandled ==
  ASSUME CbTimer!CbTimerAssumption, NEW t, Lawful(t), t.events # {},
         NEW i, i = CbTimer!FirstOf(t.events), NEW r, r = CbTimer!CbTimerHandled(t)
  PROVE  /\ i \in t.events /\ i \in CbTimer!Slots
         /\ Lawful(r) /\ r.events = t.events \ {i}
<1>1. /\ t \in TimerTables
      /\ \A j \in CbTimer!Slots : IF t.data[j] = NoCallback THEN t.left[j] = 0
                          ELSE t.left[j] > 0 \/ j \in t.events
  BY DEF Lawful
<1>2. i \in t.events /\ i \in CbTimer!Slots
  BY <1>1, FirstOfSome DEF TimerTables
<1>3. r = [t EXCEPT !.events = @ \ {i},
                    !.data[i] = IF t.left[i] = 0 THEN NoCallback ELSE @]
  BY Zenon DEF CbTimer!CbTimerHandled
<1>4. /\ r.data = [t.data EXCEPT ![i] = IF t.left[i] = 0 THEN NoCallback ELSE @]
      /\ r.left = t.left /\ r.events = t.events \ {i}
  BY <1>1, <1>3 DEF TimerTables
<1>6. r \in TimerTables
  <2> DEFINE x == IF t.left[i] = 0 THEN NoCallback ELSE t.data[i]
  <2>1. x \in Callbacks \cup {NoCallback}
    BY <1>1, <1>2 DEF TimerTables
  <2>2. r = [t EXCEPT !.events = t.events \ {i}, !.data = [t.data EXCEPT ![i] = x]]
    BY <1>1, <1>3 DEF TimerTables
  <2> HIDE DEF x
  <2>3. [t.data EXCEPT ![i] = x] \in [CbTimer!Slots -> Callbacks \cup {NoCallback}]
    BY <1>1, <2>1 DEF TimerTables
  <2> QED BY <1>1, <2>2, <2>3 DEF TimerTables
<1>5. \A j \in CbTimer!Slots : IF r.data[j] = NoCallback THEN r.left[j] = 0
                       ELSE r.left[j] > 0 \/ j \in r.events
  <2>1. \A j \in CbTimer!Slots : t.left[j] \in Nat
    BY <1>1, TimesAreTimes DEF TimerTables
  <2> QED BY <1>1, <1>2, <1>4, <2>1 DEF TimerTables
<1> QED BY <1>2, <1>4, <1>5, <1>6 DEF Lawful

(* What the history makes of it.                                           *)
LEMMA NotedRight ==
  ASSUME TimerInv, NEW called \in SUBSET CbTimer!Slots, CbTimer!Noted(called), Lawful(cb'),
         cb'.events = cb.events \ called
  PROVE  TimerInv'
<1>1. /\ since \in [CbTimer!Slots -> {"free", "started", "retaken", "expired"}]
      /\ \A i \in CbTimer!Slots : since[i] = "expired" => i \in cb.events
      /\ CallIsDue
  BY TimerParts
<1>2. since' = [i \in CbTimer!Slots |->
                  IF cb'.data[i] = NoCallback THEN "free"
                  ELSE IF i \in called THEN "started"
                  ELSE IF cb.data[i] # NoCallback THEN since[i]
                  ELSE IF i \in cb'.events THEN "retaken" ELSE "started"]
  BY Zenon DEF CbTimer!Noted, CbTimer!Slots
<1>3. cb'.events \subseteq CbTimer!Slots
  BY DEF Lawful, TimerTables
<1>4. /\ since' \in [CbTimer!Slots -> {"free", "started", "retaken", "expired"}]
      /\ \A i \in CbTimer!Slots : since'[i] = "expired" => i \in cb'.events
  BY <1>1, <1>2
<1>5. CallIsDue'
  BY <1>1, <1>2, <1>3 DEF CallIsDue
<1> QED BY <1>4, <1>5, TimerPartsNext

(* Every step keeps the table.                                             *)
LEMMA TimerStep ==
  ASSUME CbTimer!CbTimerAssumption, TimerInv, [CbTimer!Next]_(CbTimer!vars)
  PROVE  TimerInv'
<1> USE TimerParts, TimerPartsNext
<1>1. Lawful(cb) /\ cb \in TimerTables
  BY DEF Lawful
<1>2. CASE \E x \in Callbacks, d \in Timeouts : CbTimer!Start(x, d)
  <2>1. PICK x \in Callbacks, d \in Timeouts : CbTimer!Start(x, d)
    BY <1>2
  <2>2. Lawful(cb') /\ cb'.events = cb.events
    BY <1>1, <2>1, SlotTaken DEF CbTimer!Start
  <2>3. CbTimer!Noted({})
    BY <2>1, Zenon DEF CbTimer!Start
  <2> QED BY <2>2, <2>3, NotedRight
<1>3. CASE \E i \in CbTimer!Slots, d \in Timeouts : CbTimer!Update(i, d)
  <2>1. PICK i \in CbTimer!Slots, d \in Timeouts : CbTimer!Update(i, d)
    BY <1>3
  <2>2. since' = since
    BY <2>1, Zenon DEF CbTimer!Update
  <2>3. CASE cb' = cb
    BY <2>2, <2>3 DEF TimerInv, CallIsDue, CbTimer!TypeOK, CbTimer!SlotsAreDriven,
                      CbTimer!ExpiredIsPending
  <2>4. CASE cb' # cb
    <3>1. cb.data[i] # NoCallback /\ cb' = [cb EXCEPT !.left[i] = d]
      BY <2>1, <2>4 DEF CbTimer!Update, CbTimer!CbTimerUpdate
    <3>2. /\ cb'.data = cb.data /\ cb'.events = cb.events /\ cb' \in TimerTables
          /\ cb'.left = [cb.left EXCEPT ![i] = d]
      BY <1>1, <3>1, TimesAreTimes DEF TimerTables
    <3>3. d > 0
      BY TimesAreTimes
    <3>4. Lawful(cb')
      BY <1>1, <3>1, <3>2, <3>3 DEF Lawful, TimerTables
    <3> QED BY <2>2, <3>2, <3>4 DEF CallIsDue
  <2> QED BY <2>3, <2>4
<1>4. CASE \E i \in CbTimer!Slots : CbTimer!Stop(i)
  <2>1. PICK i \in CbTimer!Slots : CbTimer!Stop(i)
    BY <1>4
  <2>2. Lawful(cb') /\ cb'.events = cb.events
    BY <1>1, <2>1, SlotFreed DEF CbTimer!Stop
  <2>3. CbTimer!Noted({})
    BY <2>1, Zenon DEF CbTimer!Stop
  <2> QED BY <2>2, <2>3, NotedRight
<1>5. CASE CbTimer!ProcessEvent
  <2> DEFINE i == CbTimer!FirstOf(cb.events)
  <2>1. /\ cb.events # {} /\ CbTimer!Noted({i})
        /\ \/ cb' = CbTimer!CbTimerHandled(cb)
           \/ /\ cb.data[i] # NoCallback
              /\ \E d \in Timeouts : \E t \in CbTimer!Called(i, d) : cb' = CbTimer!CbTimerHandled(t)
    BY <1>5, Zenon DEF CbTimer!ProcessEvent
  <2>2. i \in cb.events /\ i \in CbTimer!Slots
    BY <1>1, <2>1, SlotHandled
  <2> HIDE DEF i
  <2>3. ASSUME NEW t, Lawful(t), t.events = cb.events, cb' = CbTimer!CbTimerHandled(t)
        PROVE  Lawful(cb') /\ cb'.events = cb.events \ {i}
    BY <2>1, <2>3, SlotHandled DEF i
  <2>4. CASE cb' = CbTimer!CbTimerHandled(cb)
    BY <1>1, <2>1, <2>2, <2>3, <2>4, NotedRight
  <2>5. ASSUME cb.data[i] # NoCallback, NEW d \in Timeouts, NEW t \in CbTimer!Called(i, d),
               cb' = CbTimer!CbTimerHandled(t)
        PROVE  TimerInv'
    <3>1. Lawful(CbTimer!CbTimerStop(cb, i)) /\ CbTimer!CbTimerStop(cb, i).events = cb.events
      BY <1>1, <2>2, SlotFreed
    <3>2. cb.data[i] \in Callbacks
      BY <1>1, <2>2, <2>5 DEF TimerTables
    <3>3. \/ t \in {cb, CbTimer!CbTimerStop(cb, i)}
          \/ \E u \in {cb, CbTimer!CbTimerStop(cb, i)} :
               CbTimer!Unused(u) # {} /\ t = CbTimer!CbTimerStart(u, cb.data[i], d)
      BY <2>5, Zenon DEF CbTimer!Called
    <3>4. Lawful(t) /\ t.events = cb.events
      <4>1. CASE t \in {cb, CbTimer!CbTimerStop(cb, i)}
        BY <1>1, <3>1, <4>1
      <4>2. ASSUME NEW u \in {cb, CbTimer!CbTimerStop(cb, i)}, CbTimer!Unused(u) # {},
                   t = CbTimer!CbTimerStart(u, cb.data[i], d)
            PROVE  Lawful(t) /\ t.events = cb.events
        <5>1. Lawful(u) /\ u.events = cb.events
          BY <1>1, <3>1
        <5> QED BY <3>2, <4>2, <5>1, SlotTaken
      <4> QED BY <3>3, <4>1, <4>2
    <3> QED BY <2>1, <2>2, <2>3, <2>5, <3>4, NotedRight
  <2> QED BY <2>1, <2>4, <2>5
<1>6. CASE CbTimer!Tick
  <2>1. /\ cb' = CbTimer!CbTimerTick(cb)
        /\ since' = [i \in CbTimer!Slots |-> IF cb.left[i] = 1 THEN "expired" ELSE since[i]]
    BY <1>6, Zenon DEF CbTimer!Tick, CbTimer!Slots
  <2>2. /\ cb'.data = cb.data
        /\ cb'.left = [i \in CbTimer!Slots |-> CASE cb.left[i] = 0 -> 0
                                         [] cb.left[i] = 1 -> cb.reload[i]
                                         [] OTHER -> cb.left[i] - 1]
        /\ cb'.reload = cb.reload
        /\ cb'.events = cb.events \cup {i \in CbTimer!Slots : cb.left[i] = 1}
        /\ cb' = [cb EXCEPT !.left = cb'.left, !.events = cb'.events]
    BY <1>1, <2>1 DEF CbTimer!CbTimerTick, TimerTables, CbTimer!Slots
  <2>3. \A i \in CbTimer!Slots : /\ cb.left[i] \in Times /\ cb.left[i] \in Nat
                                 /\ cb.reload[i] \in Times /\ cb.reload[i] \in Nat
                                 /\ cb.left[i] # 0 => cb.left[i] - 1 \in Times
    BY <1>1, TimesAreTimes DEF TimerTables
  <2>4. cb' \in TimerTables
    <3>1. cb'.left \in [CbTimer!Slots -> Times]
      BY <2>2, <2>3, TimesAreTimes
    <3> QED BY <1>1, <2>2, <3>1 DEF TimerTables
  <2>5. \A i \in CbTimer!Slots : IF cb'.data[i] = NoCallback THEN cb'.left[i] = 0
                         ELSE cb'.left[i] > 0 \/ i \in cb'.events
    <3> SUFFICES ASSUME NEW i \in CbTimer!Slots
                 PROVE  IF cb.data[i] = NoCallback THEN cb'.left[i] = 0
                        ELSE cb'.left[i] > 0 \/ i \in cb'.events
      BY <2>2
    <3>1. /\ cb'.left[i] = CASE cb.left[i] = 0 -> 0
                              [] cb.left[i] = 1 -> cb.reload[i]
                              [] OTHER -> cb.left[i] - 1
          /\ i \in cb'.events <=> i \in cb.events \/ cb.left[i] = 1
      BY <2>2
    <3>2. /\ cb.left[i] \in Nat
          /\ IF cb.data[i] = NoCallback THEN cb.left[i] = 0
             ELSE cb.left[i] > 0 \/ i \in cb.events
      BY <1>1, <2>3 DEF Lawful
    <3>3. CASE cb.left[i] = 0
      BY <3>1, <3>2, <3>3
    <3>4. CASE cb.left[i] = 1
      BY <3>1, <3>2, <3>4
    <3>5. CASE cb.left[i] # 0 /\ cb.left[i] # 1
      <4>1. cb'.left[i] = cb.left[i] - 1
        BY <3>1, <3>5
      <4> QED BY <3>2, <3>5, <4>1
    <3> QED BY <3>3, <3>4, <3>5
  <2>6. Lawful(cb')
    BY <2>4, <2>5 DEF Lawful
  <2>7. cb'.events \subseteq CbTimer!Slots
    BY <2>4 DEF TimerTables
  <2>8. CallIsDue'
    BY <2>1, <2>2, <2>7 DEF CallIsDue
  <2> QED BY <2>1, <2>2, <2>6, <2>8
<1>7. CASE UNCHANGED CbTimer!vars
  BY <1>7 DEF CbTimer!vars, CallIsDue
<1> QED
  BY <1>2, <1>3, <1>4, <1>5, <1>6, <1>7, Zenon DEF CbTimer!Next, CbTimer!Slots

(* For every number of slots and any clients: no slot is lost, and none    *)
(* runs unseen.                                                            *)
LEMMA TimersInv == ASSUME CbTimer!CbTimerAssumption PROVE CbTimer!Spec => []TimerInv
<1>1. CbTimer!Init => TimerInv
  BY TimesAreTimes DEF CbTimer!Init, CbTimer!CbTimerInit, TimerInv, CallIsDue, CbTimer!TypeOK,
     CbTimer!SlotsAreDriven, CbTimer!ExpiredIsPending, CbTimer!Slots, Times
<1>2. TimerInv /\ [CbTimer!Next]_(CbTimer!vars) => TimerInv'
  BY TimerStep
<1> QED BY <1>1, <1>2, PTL DEF CbTimer!Spec

(* No slot is lost and none runs unseen, and a call that is due stays due  *)
(* until it is made or its timer is stopped, whatever the callbacks do.    *)
THEOREM SlotsAreKept ==
  ASSUME CbTimer!CbTimerAssumption
  PROVE  CbTimer!Spec => [](CbTimer!TypeOK /\ CbTimer!SlotsAreDriven /\ CbTimer!ExpiredIsPending)
<1>1. TimerInv => CbTimer!TypeOK /\ CbTimer!SlotsAreDriven /\ CbTimer!ExpiredIsPending
  BY DEF TimerInv
<1> QED BY <1>1, TimersInv, PTL

(* A callback is called when its timer has expired, or when its slot was   *)
(* taken with the event of the former timer still set.                     *)
THEOREM CallsAreDue ==
  ASSUME CbTimer!CbTimerAssumption
  PROVE  CbTimer!Spec => CbTimer!CalledInTime
<1>1. TimerInv =>
        [\A i \in CbTimer!Slots :
           CbTimer!CallOf(i) => since[i] \in {"expired", "retaken"}]_(CbTimer!vars)
  <2> SUFFICES ASSUME TimerInv, NEW i \in CbTimer!Slots, CbTimer!CallOf(i)
               PROVE  since[i] \in {"expired", "retaken"}
    OBVIOUS
  <2>1. Lawful(cb) /\ CallIsDue
    BY TimerParts
  <2>2. cb.events # {} /\ i = CbTimer!FirstOf(cb.events) /\ cb.data[i] # NoCallback
    BY Zenon DEF CbTimer!CallOf, CbTimer!ProcessEvent
  <2>3. i \in cb.events
    BY <2>1, <2>2, SlotHandled
  <2> QED BY <2>1, <2>2, <2>3 DEF CallIsDue
<1> QED BY <1>1, TimersInv, PTL DEF CbTimer!CalledInTime

-----------------------------------------------------------------------------
(* The heap: what its blocks hold, the chunks that they form, each from its *)
(* first block to the next one's, and the ring of the free ones.            *)
End == Umm!Last
\* What free says
Yes == TRUE
No == FALSE

Words == Int \cup Clients
Marks == BOOLEAN \cup Clients
Cells == [next : Words, free : Marks, prev : Words, nfree : Words, pfree : Words]
Heaps == [Umm!Blocks -> Cells]

Chunked(h, A) ==
  /\ A \subseteq Umm!Blocks /\ {0, 1, End} \subseteq A
  /\ \A a \in A : h[a].free \in {Yes, No}
  /\ h[0].free = No /\ h[End].free = No /\ h[End].next = 0
  /\ \A a \in A \ {End} : h[a].next \in A /\ a < h[a].next /\ h[h[a].next].prev = a
  /\ \A a \in A \ {0} : h[a].prev \in A /\ h[a].prev < a /\ h[h[a].prev].next = a
  /\ \A a \in A \ {End}, x \in A : x <= a \/ h[a].next <= x

LEMMA HeapFacts ==
  /\ NumBlocks \in Nat /\ NumBlocks >= 3 /\ End = NumBlocks - 1 /\ End \in Nat
  /\ Umm!Blocks = 0 .. End /\ {0, 1, End} \subseteq Umm!Blocks /\ 1 # End
  /\ Clients \cap Int = {}
BY ServicesAssumption DEF Umm!HeapAssumption, Umm!Blocks, Umm!Last, End

LEMMA YesNo ==
  {Yes, No} = BOOLEAN /\ Yes # No /\ {Yes, No} \subseteq Marks /\ Umm!Blocks \subseteq Words
<1>1. Yes # No /\ {Yes, No} = BOOLEAN
  BY DEF Yes, No
<1>2. BOOLEAN \subseteq Marks
  BY Zenon DEF Marks
<1>3. Umm!Blocks \subseteq Words
  BY HeapFacts DEF Words
<1> QED BY <1>1, <1>2, <1>3

(* What one assignment to a field of a block changes.                      *)
PutsNext(h, g, b, v) ==
  /\ g \in Heaps
  /\ \A x \in Umm!Blocks :
       /\ x # b => g[x] = h[x]
       /\ g[x].next = IF x = b THEN v ELSE h[x].next
       /\ g[x].free = h[x].free /\ g[x].prev = h[x].prev /\ g[x].nfree = h[x].nfree /\ g[x].pfree = h[x].pfree

PutsFree(h, g, b, v) ==
  /\ g \in Heaps
  /\ \A x \in Umm!Blocks :
       /\ x # b => g[x] = h[x]
       /\ g[x].free = IF x = b THEN v ELSE h[x].free
       /\ g[x].next = h[x].next /\ g[x].prev = h[x].prev /\ g[x].nfree = h[x].nfree /\ g[x].pfree = h[x].pfree

PutsPrev(h, g, b, v) ==
  /\ g \in Heaps
  /\ \A x \in Umm!Blocks :
       /\ x # b => g[x] = h[x]
       /\ g[x].prev = IF x = b THEN v ELSE h[x].prev
       /\ g[x].next = h[x].next /\ g[x].free = h[x].free /\ g[x].nfree = h[x].nfree /\ g[x].pfree = h[x].pfree

PutsNfree(h, g, b, v) ==
  /\ g \in Heaps
  /\ \A x \in Umm!Blocks :
       /\ x # b => g[x] = h[x]
       /\ g[x].nfree = IF x = b THEN v ELSE h[x].nfree
       /\ g[x].next = h[x].next /\ g[x].free = h[x].free /\ g[x].prev = h[x].prev /\ g[x].pfree = h[x].pfree

PutsPfree(h, g, b, v) ==
  /\ g \in Heaps
  /\ \A x \in Umm!Blocks :
       /\ x # b => g[x] = h[x]
       /\ g[x].pfree = IF x = b THEN v ELSE h[x].pfree
       /\ g[x].next = h[x].next /\ g[x].free = h[x].free /\ g[x].prev = h[x].prev /\ g[x].nfree = h[x].nfree

LEMMA PutNext ==
  ASSUME NEW h \in Heaps, NEW b \in Umm!Blocks, NEW v \in Words
  PROVE  PutsNext(h, [h EXCEPT ![b].next = v], b, v)
BY DEF Heaps, Cells, PutsNext

LEMMA PutFree ==
  ASSUME NEW h \in Heaps, NEW b \in Umm!Blocks, NEW v \in Marks
  PROVE  PutsFree(h, [h EXCEPT ![b].free = v], b, v)
BY DEF Heaps, Cells, PutsFree

LEMMA PutPrev ==
  ASSUME NEW h \in Heaps, NEW b \in Umm!Blocks, NEW v \in Words
  PROVE  PutsPrev(h, [h EXCEPT ![b].prev = v], b, v)
BY DEF Heaps, Cells, PutsPrev

LEMMA PutNfree ==
  ASSUME NEW h \in Heaps, NEW b \in Umm!Blocks, NEW v \in Words
  PROVE  PutsNfree(h, [h EXCEPT ![b].nfree = v], b, v)
BY DEF Heaps, Cells, PutsNfree

LEMMA PutPfree ==
  ASSUME NEW h \in Heaps, NEW b \in Umm!Blocks, NEW v \in Words
  PROVE  PutsPfree(h, [h EXCEPT ![b].pfree = v], b, v)
BY DEF Heaps, Cells, PutsPfree

(* A chunk is split after n blocks: what comes after them starts a chunk.  *)
LEMMA SplitFields ==
  ASSUME NEW h \in Heaps, NEW c \in Umm!Blocks, NEW n \in Nat, c + n \in Umm!Blocks,
         n > 0, h[c].next \in Umm!Blocks, c + n < h[c].next, NEW free \in {Yes, No}
  PROVE  LET g == Umm!SplitBlock(h, c, n, free) IN
         /\ g \in Heaps
         /\ \A x \in Umm!Blocks :
              /\ g[x].next = IF x = c THEN c + n ELSE IF x = c + n THEN h[c].next ELSE h[x].next
              /\ g[x].free = IF x = c THEN No ELSE IF x = c + n THEN free ELSE h[x].free
              /\ g[x].prev = IF x = c + n THEN c ELSE IF x = h[c].next THEN c + n ELSE h[x].prev
              /\ g[x].nfree = h[x].nfree
              /\ g[x].pfree = h[x].pfree
              /\ x \notin {c, c + n, h[c].next} => g[x] = h[x]
<1> DEFINE far == h[c].next
           d == c + n
<1> DEFINE g1 == [h EXCEPT ![d].next = far]
           g2 == [g1 EXCEPT ![d].free = free]
           g3 == [g2 EXCEPT ![d].prev = c]
           g4 == [g3 EXCEPT ![far].prev = d]
           g5 == [g4 EXCEPT ![c].next = d]
           g6 == [g5 EXCEPT ![c].free = No]
<1>1. /\ c \in Words /\ d \in Words /\ d \in Umm!Blocks /\ far \in Words /\ free \in Marks
      /\ No \in Marks
      /\ c # d /\ c # far /\ d # far /\ far \in Umm!Blocks
  BY HeapFacts, YesNo
<1>2. Umm!SplitBlock(h, c, n, free) = g6
  BY DEF Umm!SplitBlock, No
<1> HIDE DEF far, d
<1> HIDE DEF g1, g2, g3, g4, g5, g6
<1>3. PutsNext(h, g1, d, far)
  BY <1>1, PutNext DEF g1
<1>4. PutsFree(g1, g2, d, free)
  BY <1>1, <1>3, PutFree DEF g2, PutsNext
<1>5. PutsPrev(g2, g3, d, c)
  BY <1>1, <1>4, PutPrev DEF g3, PutsFree
<1>6. PutsPrev(g3, g4, far, d)
  BY <1>1, <1>5, PutPrev DEF g4, PutsPrev
<1>7. PutsNext(g4, g5, c, d)
  BY <1>1, <1>6, PutNext DEF g5, PutsPrev
<1>8. PutsFree(g5, g6, c, No)
  BY <1>1, <1>7, PutFree DEF g6, PutsNext
<1>9. g6 \in Heaps
  BY <1>8 DEF PutsFree
<1>10. ASSUME NEW x \in Umm!Blocks
       PROVE  /\ g6[x].next = IF x = c THEN d ELSE IF x = d THEN far ELSE h[x].next
              /\ g6[x].free = IF x = c THEN No ELSE IF x = d THEN free ELSE h[x].free
              /\ g6[x].prev = IF x = d THEN c ELSE IF x = far THEN d ELSE h[x].prev
              /\ g6[x].nfree = h[x].nfree
              /\ g6[x].pfree = h[x].pfree
              /\ x \notin {c, d, far} => g6[x] = h[x]
  <2> USE <1>1, <1>3, <1>4, <1>5, <1>6, <1>7, <1>8 DEF PutsFree, PutsNext, PutsPrev
  <2>1. g6[x].next = IF x = c THEN d ELSE IF x = d THEN far ELSE h[x].next
    OBVIOUS
  <2>2. g6[x].free = IF x = c THEN No ELSE IF x = d THEN free ELSE h[x].free
    OBVIOUS
  <2>3. g6[x].prev = IF x = d THEN c ELSE IF x = far THEN d ELSE h[x].prev
    OBVIOUS
  <2>4. g6[x].nfree = h[x].nfree
    OBVIOUS
  <2>5. g6[x].pfree = h[x].pfree
    OBVIOUS
  <2>6. x \notin {c, d, far} => g6[x] = h[x]
    OBVIOUS
  <2> QED BY <2>1, <2>2, <2>3, <2>4, <2>5, <2>6
<1> QED BY <1>2, <1>9, <1>10 DEF far, d

(* A block leaves the free list, whose links close behind it.              *)
LEMMA DisconnectFields ==
  ASSUME NEW h \in Heaps, NEW c \in Umm!Blocks, h[c].pfree \in Umm!Blocks,
         h[c].nfree \in Umm!Blocks, c # h[c].pfree, c # h[c].nfree
  PROVE  LET g == Umm!Disconnect(h, c) IN
         /\ g \in Heaps
         /\ \A x \in Umm!Blocks :
              /\ g[x].next = h[x].next
              /\ g[x].free = IF x = c THEN No ELSE h[x].free
              /\ g[x].prev = h[x].prev
              /\ g[x].nfree = IF x = h[c].pfree THEN h[c].nfree ELSE h[x].nfree
              /\ g[x].pfree = IF x = h[c].nfree THEN h[c].pfree ELSE h[x].pfree
              /\ x \notin {c, h[c].pfree, h[c].nfree} => g[x] = h[x]
<1> DEFINE p == h[c].pfree
           s == h[c].nfree
<1> DEFINE g1 == [h EXCEPT ![p].nfree = s]
           g2 == [g1 EXCEPT ![s].pfree = p]
           g3 == [g2 EXCEPT ![c].free = No]
<1>1. /\ p \in Umm!Blocks /\ s \in Umm!Blocks /\ p \in Words /\ s \in Words /\ No \in Marks
      /\ c # p /\ c # s
  BY HeapFacts, YesNo
<1>2. Umm!Disconnect(h, c) = g3
  BY DEF Umm!Disconnect, No
<1> HIDE DEF p, s
<1> HIDE DEF g1, g2, g3
<1>3. PutsNfree(h, g1, p, s)
  BY <1>1, PutNfree DEF g1
<1>4. PutsPfree(g1, g2, s, p)
  BY <1>1, <1>3, PutPfree DEF g2, PutsNfree
<1>5. PutsFree(g2, g3, c, No)
  BY <1>1, <1>4, PutFree DEF g3, PutsPfree
<1>6. g3 \in Heaps
  BY <1>5 DEF PutsFree
<1>7. ASSUME NEW x \in Umm!Blocks
       PROVE  /\ g3[x].next = h[x].next
              /\ g3[x].free = IF x = c THEN No ELSE h[x].free
              /\ g3[x].prev = h[x].prev
              /\ g3[x].nfree = IF x = p THEN s ELSE h[x].nfree
              /\ g3[x].pfree = IF x = s THEN p ELSE h[x].pfree
              /\ x \notin {c, p, s} => g3[x] = h[x]
  <2> USE <1>1, <1>3, <1>4, <1>5 DEF PutsFree, PutsNfree, PutsPfree
  <2>1. g3[x].next = h[x].next
    OBVIOUS
  <2>2. g3[x].free = IF x = c THEN No ELSE h[x].free
    OBVIOUS
  <2>3. g3[x].prev = h[x].prev
    OBVIOUS
  <2>4. g3[x].nfree = IF x = p THEN s ELSE h[x].nfree
    OBVIOUS
  <2>5. g3[x].pfree = IF x = s THEN p ELSE h[x].pfree
    OBVIOUS
  <2>6. x \notin {c, p, s} => g3[x] = h[x]
    OBVIOUS
  <2> QED BY <2>1, <2>2, <2>3, <2>4, <2>5, <2>6
<1> QED BY <1>2, <1>6, <1>7 DEF p, s

(* What is left of a split block takes its place in the free list.         *)
LEMMA MoveFreeFields ==
  ASSUME NEW h \in Heaps, NEW c \in Umm!Blocks, NEW d \in Umm!Blocks, h[c].pfree \in Umm!Blocks,
         h[c].nfree \in Umm!Blocks, d # h[c].pfree, d # h[c].nfree, d # c,
         c # h[c].pfree, c # h[c].nfree
  PROVE  LET g == Umm!MoveFree(h, c, d) IN
         /\ g \in Heaps
         /\ \A x \in Umm!Blocks :
              /\ g[x].next = h[x].next
              /\ g[x].free = h[x].free
              /\ g[x].prev = h[x].prev
              /\ g[x].nfree = IF x = h[c].pfree THEN d ELSE IF x = d THEN h[c].nfree ELSE h[x].nfree
              /\ g[x].pfree = IF x = h[c].nfree THEN d ELSE IF x = d THEN h[c].pfree ELSE h[x].pfree
              /\ x \notin {d, h[c].pfree, h[c].nfree} => g[x] = h[x]
<1> DEFINE p == h[c].pfree
           s == h[c].nfree
<1> DEFINE g1 == [h EXCEPT ![p].nfree = d]
           g2 == [g1 EXCEPT ![d].pfree = p]
           g3 == [g2 EXCEPT ![s].pfree = d]
           g4 == [g3 EXCEPT ![d].nfree = s]
<1>1. /\ p \in Umm!Blocks /\ s \in Umm!Blocks /\ p \in Words /\ s \in Words /\ d \in Words
      /\ d # p /\ d # s /\ c # d
  BY HeapFacts, YesNo
<1>2. Umm!MoveFree(h, c, d) = g4
  BY DEF Umm!MoveFree
<1> HIDE DEF p, s
<1> HIDE DEF g1, g2, g3, g4
<1>3. PutsNfree(h, g1, p, d)
  BY <1>1, PutNfree DEF g1
<1>4. PutsPfree(g1, g2, d, p)
  BY <1>1, <1>3, PutPfree DEF g2, PutsNfree
<1>5. PutsPfree(g2, g3, s, d)
  BY <1>1, <1>4, PutPfree DEF g3, PutsPfree
<1>6. PutsNfree(g3, g4, d, s)
  BY <1>1, <1>5, PutNfree DEF g4, PutsPfree
<1>7. g4 \in Heaps
  BY <1>6 DEF PutsNfree
<1>8. ASSUME NEW x \in Umm!Blocks
       PROVE  /\ g4[x].next = h[x].next
              /\ g4[x].free = h[x].free
              /\ g4[x].prev = h[x].prev
              /\ g4[x].nfree = IF x = p THEN d ELSE IF x = d THEN s ELSE h[x].nfree
              /\ g4[x].pfree = IF x = s THEN d ELSE IF x = d THEN p ELSE h[x].pfree
              /\ x \notin {d, p, s} => g4[x] = h[x]
  <2> USE <1>1, <1>3, <1>4, <1>5, <1>6 DEF PutsNfree, PutsPfree
  <2>1. g4[x].next = h[x].next
    OBVIOUS
  <2>2. g4[x].free = h[x].free
    OBVIOUS
  <2>3. g4[x].prev = h[x].prev
    OBVIOUS
  <2>4. g4[x].nfree = IF x = p THEN d ELSE IF x = d THEN s ELSE h[x].nfree
    OBVIOUS
  <2>5. g4[x].pfree = IF x = s THEN d ELSE IF x = d THEN p ELSE h[x].pfree
    OBVIOUS
  <2>6. x \notin {d, p, s} => g4[x] = h[x]
    OBVIOUS
  <2> QED BY <2>1, <2>2, <2>3, <2>4, <2>5, <2>6
<1> QED BY <1>2, <1>7, <1>8 DEF p, s

(* A chunk becomes part of the previous one.                               *)
LEMMA DownFields ==
  ASSUME NEW h \in Heaps, NEW c \in Umm!Blocks, h[c].prev \in Umm!Blocks,
         h[c].next \in Umm!Blocks, h[c].prev # h[c].next, NEW free \in {Yes, No}
  PROVE  LET g == Umm!AssimilateDown(h, c, free) IN
         /\ g \in Heaps
         /\ \A x \in Umm!Blocks :
              /\ g[x].next = IF x = h[c].prev THEN h[c].next ELSE h[x].next
              /\ g[x].free = IF x = h[c].prev THEN free ELSE h[x].free
              /\ g[x].prev = IF x = h[c].next THEN h[c].prev ELSE h[x].prev
              /\ g[x].nfree = h[x].nfree
              /\ g[x].pfree = h[x].pfree
              /\ x \notin {h[c].prev, h[c].next} => g[x] = h[x]
<1> DEFINE p == h[c].prev
           far == h[c].next
<1> DEFINE g1 == [h EXCEPT ![p].next = far]
           g2 == [g1 EXCEPT ![p].free = free]
           g3 == [g2 EXCEPT ![far].prev = p]
<1>1. /\ p \in Umm!Blocks /\ far \in Umm!Blocks /\ p \in Words /\ far \in Words /\ free \in Marks
      /\ p # far
  BY HeapFacts, YesNo
<1>2. Umm!AssimilateDown(h, c, free) = g3
  BY DEF Umm!AssimilateDown
<1> HIDE DEF p, far
<1> HIDE DEF g1, g2, g3
<1>3. PutsNext(h, g1, p, far)
  BY <1>1, PutNext DEF g1
<1>4. PutsFree(g1, g2, p, free)
  BY <1>1, <1>3, PutFree DEF g2, PutsNext
<1>5. PutsPrev(g2, g3, far, p)
  BY <1>1, <1>4, PutPrev DEF g3, PutsFree
<1>6. g3 \in Heaps
  BY <1>5 DEF PutsPrev
<1>7. ASSUME NEW x \in Umm!Blocks
       PROVE  /\ g3[x].next = IF x = p THEN far ELSE h[x].next
              /\ g3[x].free = IF x = p THEN free ELSE h[x].free
              /\ g3[x].prev = IF x = far THEN p ELSE h[x].prev
              /\ g3[x].nfree = h[x].nfree
              /\ g3[x].pfree = h[x].pfree
              /\ x \notin {p, far} => g3[x] = h[x]
  <2> USE <1>1, <1>3, <1>4, <1>5 DEF PutsFree, PutsNext, PutsPrev
  <2>1. g3[x].next = IF x = p THEN far ELSE h[x].next
    OBVIOUS
  <2>2. g3[x].free = IF x = p THEN free ELSE h[x].free
    OBVIOUS
  <2>3. g3[x].prev = IF x = far THEN p ELSE h[x].prev
    OBVIOUS
  <2>4. g3[x].nfree = h[x].nfree
    OBVIOUS
  <2>5. g3[x].pfree = h[x].pfree
    OBVIOUS
  <2>6. x \notin {p, far} => g3[x] = h[x]
    OBVIOUS
  <2> QED BY <2>1, <2>2, <2>3, <2>4, <2>5, <2>6
<1> QED BY <1>2, <1>6, <1>7 DEF p, far

(* What umm_free does to a block that no free block precedes.              *)
AtHead(h, c) ==
  [h EXCEPT ![h[0].nfree].pfree = c, ![c].nfree = h[0].nfree, ![c].pfree = 0, ![0].nfree = c,
            ![c].free = TRUE]

(* A chunk that is freed comes first in the free list.                     *)
LEMMA PushFields ==
  ASSUME NEW h \in Heaps, NEW c \in Umm!Blocks, c # 0, h[0].nfree \in Umm!Blocks, h[0].nfree # c
  PROVE  LET g == AtHead(h, c) IN
         /\ g \in Heaps
         /\ \A x \in Umm!Blocks :
              /\ g[x].next = h[x].next
              /\ g[x].free = IF x = c THEN Yes ELSE h[x].free
              /\ g[x].prev = h[x].prev
              /\ g[x].nfree = IF x = c THEN h[0].nfree ELSE IF x = 0 THEN c ELSE h[x].nfree
              /\ g[x].pfree = IF x = c THEN 0 ELSE IF x = h[0].nfree THEN c ELSE h[x].pfree
              /\ x \notin {c, h[0].nfree, 0} => g[x] = h[x]
<1> DEFINE s == h[0].nfree
<1> DEFINE g1 == [h EXCEPT ![s].pfree = c]
           g2 == [g1 EXCEPT ![c].nfree = s]
           g3 == [g2 EXCEPT ![c].pfree = 0]
           g4 == [g3 EXCEPT ![0].nfree = c]
           g5 == [g4 EXCEPT ![c].free = Yes]
<1>1. /\ 0 \in Umm!Blocks /\ s \in Umm!Blocks /\ 0 \in Words /\ s \in Words /\ c \in Words /\ Yes \in Marks
      /\ c # s /\ c # 0
  BY HeapFacts, YesNo
<1>2. AtHead(h, c) = g5
  BY DEF AtHead, Yes
<1> HIDE DEF s
<1> HIDE DEF g1, g2, g3, g4, g5
<1>3. PutsPfree(h, g1, s, c)
  BY <1>1, PutPfree DEF g1
<1>4. PutsNfree(g1, g2, c, s)
  BY <1>1, <1>3, PutNfree DEF g2, PutsPfree
<1>5. PutsPfree(g2, g3, c, 0)
  BY <1>1, <1>4, PutPfree DEF g3, PutsNfree
<1>6. PutsNfree(g3, g4, 0, c)
  BY <1>1, <1>5, PutNfree DEF g4, PutsPfree
<1>7. PutsFree(g4, g5, c, Yes)
  BY <1>1, <1>6, PutFree DEF g5, PutsNfree
<1>8. g5 \in Heaps
  BY <1>7 DEF PutsFree
<1>9. ASSUME NEW x \in Umm!Blocks
       PROVE  /\ g5[x].next = h[x].next
              /\ g5[x].free = IF x = c THEN Yes ELSE h[x].free
              /\ g5[x].prev = h[x].prev
              /\ g5[x].nfree = IF x = c THEN s ELSE IF x = 0 THEN c ELSE h[x].nfree
              /\ g5[x].pfree = IF x = c THEN 0 ELSE IF x = s THEN c ELSE h[x].pfree
              /\ x \notin {c, s, 0} => g5[x] = h[x]
  <2> USE <1>1, <1>3, <1>4, <1>5, <1>6, <1>7 DEF PutsFree, PutsNfree, PutsPfree
  <2>1. g5[x].next = h[x].next
    OBVIOUS
  <2>2. g5[x].free = IF x = c THEN Yes ELSE h[x].free
    OBVIOUS
  <2>3. g5[x].prev = h[x].prev
    OBVIOUS
  <2>4. g5[x].nfree = IF x = c THEN s ELSE IF x = 0 THEN c ELSE h[x].nfree
    OBVIOUS
  <2>5. g5[x].pfree = IF x = c THEN 0 ELSE IF x = s THEN c ELSE h[x].pfree
    OBVIOUS
  <2>6. x \notin {c, s, 0} => g5[x] = h[x]
    OBVIOUS
  <2> QED BY <2>1, <2>2, <2>3, <2>4, <2>5, <2>6
<1> QED BY <1>2, <1>8, <1>9 DEF s

(* The next chunk, if free, becomes part of c.                             *)
LEMMA UpFields ==
  ASSUME NEW h \in Heaps, NEW c \in Umm!Blocks, NEW n \in Umm!Blocks, n = h[c].next,
         h[n].free = Yes, h[n].next \in Umm!Blocks, h[n].pfree \in Umm!Blocks,
         h[n].nfree \in Umm!Blocks, n # h[n].pfree, n # h[n].nfree, n # c
  PROVE  LET g == Umm!AssimilateUp(h, c) IN
         /\ g \in Heaps
         /\ \A x \in Umm!Blocks :
              /\ g[x].next = IF x = c THEN h[n].next ELSE h[x].next
              /\ g[x].free = IF x = n THEN No ELSE h[x].free
              /\ g[x].prev = IF x = h[n].next THEN c ELSE h[x].prev
              /\ g[x].nfree = IF x = h[n].pfree THEN h[n].nfree ELSE h[x].nfree
              /\ g[x].pfree = IF x = h[n].nfree THEN h[n].pfree ELSE h[x].pfree
              /\ x \notin {c, n, h[n].next, h[n].pfree, h[n].nfree} => g[x] = h[x]
<1> DEFINE far == h[n].next
           p == h[n].pfree
           s == h[n].nfree
           g0 == Umm!Disconnect(h, n)
           g1 == [g0 EXCEPT ![far].prev = c]
           g2 == [g1 EXCEPT ![c].next = far]
<1>1. /\ p \in Umm!Blocks /\ s \in Umm!Blocks /\ far \in Umm!Blocks /\ far \in Words /\ c \in Words
      /\ n # p /\ n # s
  BY YesNo
<1>2. /\ g0 \in Heaps
      /\ \A x \in Umm!Blocks :
           /\ g0[x].next = h[x].next /\ g0[x].prev = h[x].prev
           /\ g0[x].free = IF x = n THEN No ELSE h[x].free
           /\ g0[x].nfree = IF x = p THEN s ELSE h[x].nfree
           /\ g0[x].pfree = IF x = s THEN p ELSE h[x].pfree
           /\ x \notin {n, p, s} => g0[x] = h[x]
  <2> HIDE DEF g0
  <2> QED BY DisconnectFields DEF g0
<1>3. g0[n].next = far
  BY <1>2
<1>4. Umm!AssimilateUp(h, c) = g2
  <2>1. Umm!AssimilateUp(h, c) = [g0 EXCEPT ![g0[n].next].prev = c, ![c].next = g0[n].next]
    BY DEF Umm!AssimilateUp, Yes
  <2> HIDE DEF g0
  <2> QED BY <1>3, <2>1
<1> HIDE DEF far, p, s, g0, g1, g2
<1>5. PutsPrev(g0, g1, far, c)
  BY <1>1, <1>2, PutPrev DEF g1
<1>6. PutsNext(g1, g2, c, far)
  BY <1>1, <1>5, PutNext DEF g2, PutsPrev
<1>7. g2 \in Heaps
  BY <1>6 DEF PutsNext
<1>8. ASSUME NEW x \in Umm!Blocks
      PROVE  /\ g2[x].next = IF x = c THEN far ELSE h[x].next
             /\ g2[x].free = IF x = n THEN No ELSE h[x].free
             /\ g2[x].prev = IF x = far THEN c ELSE h[x].prev
             /\ g2[x].nfree = IF x = p THEN s ELSE h[x].nfree
             /\ g2[x].pfree = IF x = s THEN p ELSE h[x].pfree
             /\ x \notin {c, n, far, p, s} => g2[x] = h[x]
  BY <1>1, <1>2, <1>5, <1>6 DEF PutsNext, PutsPrev
<1> QED BY <1>4, <1>7, <1>8 DEF far, p, s

-----------------------------------------------------------------------------
(* The chunks after one is split, and after one joins the previous one.    *)
LEMMA ChunkSplit ==
  ASSUME NEW h, NEW g, NEW A, Chunked(h, A), NEW c \in A \ {0, End}, NEW d \in Nat,
         c < d, d < h[c].next,
         \A x \in Umm!Blocks :
           /\ g[x].next = IF x = c THEN d ELSE IF x = d THEN h[c].next ELSE h[x].next
           /\ g[x].prev = IF x = d THEN c ELSE IF x = h[c].next THEN d ELSE h[x].prev
           /\ x \notin {c, d} => g[x].free = h[x].free,
         g[c].free \in {Yes, No}, g[d].free \in {Yes, No}
  PROVE  d \notin A /\ d # End /\ Chunked(g, A \cup {d})
<1> DEFINE far == h[c].next
<1>1. /\ A \subseteq Umm!Blocks /\ {0, 1, End} \subseteq A
      /\ \A a \in A : h[a].free \in {Yes, No}
      /\ h[0].free = No /\ h[End].free = No /\ h[End].next = 0
      /\ \A a \in A \ {End} : h[a].next \in A /\ a < h[a].next /\ h[h[a].next].prev = a
      /\ \A a \in A \ {0} : h[a].prev \in A /\ h[a].prev < a /\ h[h[a].prev].next = a
      /\ \A a \in A \ {End}, x \in A : x <= a \/ h[a].next <= x
  BY DEF Chunked
<1>2. Umm!Blocks = 0 .. End /\ End \in Nat
  BY HeapFacts
<1>3. /\ far \in A /\ far \in 0 .. End /\ c \in 0 .. End /\ d \in 0 .. End
      /\ d \in Umm!Blocks /\ far \in Umm!Blocks /\ c \in Umm!Blocks
      /\ d # End /\ d # 0 /\ far # c /\ far # d
  <2>1. c \in A \ {End} /\ far \in A /\ c < far
    BY <1>1
  <2>2. far \in 0 .. End /\ c \in 0 .. End
    BY <1>1, <1>2, <2>1
  <2> HIDE DEF far
  <2>3. d < far
    BY DEF far
  <2> QED BY <1>2, <2>1, <2>2, <2>3
<1>4. d \notin A
  BY <1>1, <1>2, <1>3
<1> DEFINE B == A \cup {d}
<1>5. B \subseteq Umm!Blocks /\ {0, 1, End} \subseteq B
  BY <1>1, <1>3
<1>6. \A a \in B : g[a].free \in {Yes, No}
  BY <1>1, <1>3
<1>7. g[0].free = No /\ g[End].free = No /\ g[End].next = 0
  BY <1>1, <1>3, <1>4
<1>8. ASSUME NEW a \in B \ {End}
      PROVE  g[a].next \in B /\ a < g[a].next /\ g[g[a].next].prev = a
  <2>1. CASE a = c
    BY <1>1, <1>3, <2>1
  <2>2. CASE a = d
    <3>1. g[d].next = far /\ g[far].prev = d
      BY <1>3
    <3>2. d < far
      OBVIOUS
    <3> QED BY <1>3, <2>2, <3>1, <3>2
  <2>3. CASE a \notin {c, d}
    <3>1. a \in A \ {End} /\ g[a].next = h[a].next /\ h[a].next \in A /\ h[h[a].next].prev = a /\ a < h[a].next
      BY <1>1, <1>3, <2>3
    <3>2. h[a].next # far
      BY <1>1, <1>3, <2>3, <3>1
    <3>3. h[a].next # d
      BY <1>4, <3>1
    <3>4. g[h[a].next].prev = h[h[a].next].prev
      BY <1>1, <3>1, <3>2, <3>3
    <3> QED BY <3>1, <3>4
  <2> QED BY <2>1, <2>2, <2>3
<1>9. ASSUME NEW a \in B \ {0}
      PROVE  g[a].prev \in B /\ g[a].prev < a /\ g[g[a].prev].next = a
  <2>1. CASE a = d
    BY <1>3, <2>1
  <2>2. CASE a = far
    <3>1. g[far].prev = d /\ g[d].next = far
      BY <1>3
    <3>2. d < far
      OBVIOUS
    <3> QED BY <1>3, <2>2, <3>1, <3>2
  <2>3. CASE a \notin {d, far}
    <3>1. a \in A \ {0} /\ g[a].prev = h[a].prev /\ h[a].prev \in A /\ h[h[a].prev].next = a /\ h[a].prev < a
      BY <1>1, <1>3, <2>3
    <3>2. h[a].prev # c /\ h[a].prev # d
      BY <1>4, <2>3, <3>1
    <3> QED BY <1>1, <3>1, <3>2
  <2> QED BY <2>1, <2>2, <2>3
<1>10. ASSUME NEW a \in B \ {End}, NEW x \in B PROVE x <= a \/ g[a].next <= x
  <2>0. a \in 0 .. End /\ x \in 0 .. End
    BY <1>2, <1>5
  <2>1. CASE a = c
    BY <1>1, <1>2, <1>3, <2>0, <2>1
  <2>2. CASE a = d
    <3>1. x \in A \ {d} => x <= c \/ far <= x
      BY <1>1, <1>3
    <3> QED BY <1>2, <1>3, <2>0, <2>2, <3>1
  <2>3. CASE a \notin {c, d}
    <3>1. a \in A \ {End} /\ g[a].next = h[a].next /\ h[a].next \in 0 .. End
      BY <1>1, <1>2, <1>3, <2>3
    <3>2. CASE x = d
      <4>1. (c <= a \/ h[a].next <= c) /\ (a <= c \/ far <= a)
        BY <1>1, <1>3, <3>1
      <4> QED BY <1>2, <1>3, <2>0, <2>3, <3>1, <3>2, <4>1
    <3>3. CASE x # d
      BY <1>1, <3>1, <3>3
    <3> QED BY <3>2, <3>3
  <2> QED BY <2>1, <2>2, <2>3
<1>11. Chunked(g, B)
  BY <1>5, <1>6, <1>7, <1>8, <1>9, <1>10 DEF Chunked
<1> QED BY <1>3, <1>4, <1>11

LEMMA ChunkJoin ==
  ASSUME NEW h, NEW g, NEW A, Chunked(h, A), NEW p \in A \ {0, End}, NEW c, c = h[p].next,
         c # End,
         \A x \in Umm!Blocks \ {c} :
           /\ g[x].next = IF x = p THEN h[c].next ELSE h[x].next
           /\ g[x].prev = IF x = h[c].next THEN p ELSE h[x].prev
           /\ x # p => g[x].free = h[x].free,
         g[p].free \in {Yes, No}
  PROVE  Chunked(g, A \ {c})
<1> DEFINE far == h[c].next
<1>1. /\ A \subseteq Umm!Blocks /\ {0, 1, End} \subseteq A
      /\ \A a \in A : h[a].free \in {Yes, No}
      /\ h[0].free = No /\ h[End].free = No /\ h[End].next = 0
      /\ \A a \in A \ {End} : h[a].next \in A /\ a < h[a].next /\ h[h[a].next].prev = a
      /\ \A a \in A \ {0} : h[a].prev \in A /\ h[a].prev < a /\ h[h[a].prev].next = a
      /\ \A a \in A \ {End}, x \in A : x <= a \/ h[a].next <= x
  BY DEF Chunked
<1>2. Umm!Blocks = 0 .. End /\ End \in Nat /\ 1 # End
  BY HeapFacts
<1>3. /\ p \in 0 .. End /\ c \in A /\ c \in 0 .. End /\ far \in A /\ far \in 0 .. End
      /\ p < c /\ c < far /\ h[c].prev = p /\ h[far].prev = c
  BY <1>1, <1>2
<1>4. c # 0 /\ c # 1 /\ p # far
  BY <1>2, <1>3
<1> DEFINE B == A \ {c}
<1>5. B \subseteq Umm!Blocks /\ {0, 1, End} \subseteq B
  BY <1>1, <1>3, <1>4
<1>6. \A a \in B : g[a].free \in {Yes, No}
  BY <1>1, <1>3
<1>7. g[0].free = No /\ g[End].free = No /\ g[End].next = 0
  BY <1>1, <1>3, <1>4
<1>8. ASSUME NEW a \in B \ {End}
      PROVE  g[a].next \in B /\ a < g[a].next /\ g[g[a].next].prev = a
  <2>1. CASE a = p
    BY <1>1, <1>3, <1>2, <2>1
  <2>2. CASE a # p
    <3>1. a \in A \ {End} /\ g[a].next = h[a].next /\ h[a].next \in A /\ h[h[a].next].prev = a /\ a < h[a].next
      BY <1>1, <1>3, <2>2
    <3>2. h[a].next # far /\ h[a].next # c
      BY <1>3, <2>2, <3>1
    <3>3. g[h[a].next].prev = h[h[a].next].prev
      BY <1>1, <3>1, <3>2
    <3> QED BY <3>1, <3>2, <3>3
  <2> QED BY <2>1, <2>2
<1>9. ASSUME NEW a \in B \ {0}
      PROVE  g[a].prev \in B /\ g[a].prev < a /\ g[g[a].prev].next = a
  <2>1. CASE a = far
    BY <1>1, <1>3, <1>2, <2>1
  <2>2. CASE a # far
    <3>1. a \in A \ {0} /\ g[a].prev = h[a].prev /\ h[a].prev \in A /\ h[h[a].prev].next = a /\ h[a].prev < a
      BY <1>1, <1>3, <2>2
    <3>2. h[a].prev # c /\ h[a].prev # p
      BY <1>3, <2>2, <3>1
    <3>3. g[h[a].prev].next = h[h[a].prev].next
      BY <1>1, <3>1, <3>2
    <3> QED BY <3>1, <3>2, <3>3
  <2> QED BY <2>1, <2>2
<1>10. ASSUME NEW a \in B \ {End}, NEW x \in B PROVE x <= a \/ g[a].next <= x
  <2>0. a \in 0 .. End /\ x \in 0 .. End
    BY <1>2, <1>5
  <2>1. CASE a = p
    <3>1. (x <= p \/ c <= x) /\ (x <= c \/ far <= x) /\ g[p].next = far
      BY <1>1, <1>2, <1>3
    <3> QED BY <1>3, <2>0, <2>1, <3>1
  <2>2. CASE a # p
    <3>1. a \in A \ {End} /\ g[a].next = h[a].next
      BY <1>1, <1>3, <2>2
    <3> QED BY <1>1, <3>1
  <2> QED BY <2>1, <2>2
<1> QED BY <1>5, <1>6, <1>7, <1>8, <1>9, <1>10 DEF Chunked

-----------------------------------------------------------------------------
(* The ring of the free chunks: f numbers them in the order of their links, *)
(* from block 0 on and back to it.                                          *)
Ring(h, A, n, f) ==
  /\ n \in Nat /\ f \in [0 .. n + 1 -> A] /\ f[0] = 0 /\ f[n + 1] = 0
  /\ \A i \in 1 .. n : f[i] # 0 /\ h[f[i]].free = Yes
  /\ \A i, j \in 1 .. n : f[i] = f[j] => i = j
  /\ \A a \in A : h[a].free = Yes => \E i \in 1 .. n : f[i] = a
  /\ \A i \in 0 .. n : h[f[i]].nfree = f[i + 1] /\ h[f[i + 1]].pfree = f[i]

(* The ring does not depend on what is not in it.                          *)
SameRing(h, g, A, B) ==
  /\ 0 \in B
  /\ \A a \in A : h[a].free = Yes => a \in B /\ g[a].free = Yes
  /\ \A b \in B : g[b].free = Yes => b \in A /\ h[b].free = Yes
  /\ \A a \in A : h[a].free = Yes \/ a = 0 => g[a].nfree = h[a].nfree /\ g[a].pfree = h[a].pfree

LEMMA RingSame ==
  ASSUME NEW h, NEW g, NEW A, NEW B, NEW n, NEW f, Ring(h, A, n, f), SameRing(h, g, A, B)
  PROVE  Ring(g, B, n, f)
<1> USE DEF SameRing
<1>1. /\ n \in Nat /\ f \in [0 .. n + 1 -> A] /\ f[0] = 0 /\ f[n + 1] = 0
      /\ \A i \in 1 .. n : f[i] # 0 /\ h[f[i]].free = Yes
      /\ \A i, j \in 1 .. n : f[i] = f[j] => i = j
      /\ \A a \in A : h[a].free = Yes => \E i \in 1 .. n : f[i] = a
      /\ \A i \in 0 .. n : h[f[i]].nfree = f[i + 1] /\ h[f[i + 1]].pfree = f[i]
  BY DEF Ring
<1>2. \A i \in 0 .. n + 1 : f[i] \in A /\ f[i] \in B /\ (f[i] = 0 \/ h[f[i]].free = Yes)
  <2> TAKE i \in 0 .. n + 1
  <2>1. i = 0 \/ i = n + 1 \/ i \in 1 .. n
    BY <1>1
  <2> QED BY <1>1, <2>1
<1>3. f \in [0 .. n + 1 -> B]
  BY <1>1, <1>2
<1>4. \A i \in 1 .. n : f[i] # 0 /\ g[f[i]].free = Yes
  BY <1>1, <1>2
<1>5. \A a \in B : g[a].free = Yes => \E i \in 1 .. n : f[i] = a
  BY <1>1
<1>6. \A i \in 0 .. n : g[f[i]].nfree = f[i + 1] /\ g[f[i + 1]].pfree = f[i]
  <2> TAKE i \in 0 .. n
  <2>1. i \in 0 .. n + 1 /\ i + 1 \in 0 .. n + 1
    BY <1>1
  <2> QED BY <1>1, <1>2, <2>1
<1> QED BY <1>1, <1>3, <1>4, <1>5, <1>6 DEF Ring

(* The place of a free chunk, and its neighbours.                          *)
LEMMA InRing ==
  ASSUME NEW h, NEW A, NEW n, NEW f, Ring(h, A, n, f), NEW c \in A, h[c].free = Yes
  PROVE  /\ h[c].pfree \in A /\ h[c].nfree \in A /\ c # h[c].pfree /\ c # h[c].nfree /\ c # 0
         /\ \E i \in 1 .. n : c = f[i] /\ h[c].pfree = f[i - 1] /\ h[c].nfree = f[i + 1]
<1>1. /\ n \in Nat /\ f \in [0 .. n + 1 -> A] /\ f[0] = 0 /\ f[n + 1] = 0
      /\ \A i \in 1 .. n : f[i] # 0 /\ h[f[i]].free = Yes
      /\ \A i, j \in 1 .. n : f[i] = f[j] => i = j
      /\ \A a \in A : h[a].free = Yes => \E i \in 1 .. n : f[i] = a
      /\ \A i \in 0 .. n : h[f[i]].nfree = f[i + 1] /\ h[f[i + 1]].pfree = f[i]
  BY DEF Ring
<1>2. PICK i \in 1 .. n : f[i] = c
  BY <1>1
<1>3. i - 1 \in 0 .. n /\ i \in 0 .. n /\ (i - 1) + 1 = i /\ i + 1 \in 0 .. n + 1 /\ i - 1 \in 0 .. n + 1
  BY <1>1
<1>4. h[c].pfree = f[i - 1] /\ h[c].nfree = f[i + 1]
  BY <1>1, <1>2, <1>3
<1>5. f[i] # f[i - 1]
  <2>1. CASE i - 1 = 0
    BY <1>1, <2>1
  <2>2. CASE i - 1 # 0
    <3>1. i - 1 \in 1 .. n /\ i - 1 # i
      BY <1>1, <2>2
    <3> QED BY <1>1, <3>1
  <2> QED BY <2>1, <2>2
<1>6. f[i] # f[i + 1]
  <2>1. CASE i = n
    BY <1>1, <2>1
  <2>2. CASE i # n
    <3>1. i + 1 \in 1 .. n /\ i + 1 # i
      BY <1>1, <2>2
    <3> QED BY <1>1, <3>1
  <2> QED BY <2>1, <2>2
<1> QED BY <1>1, <1>2, <1>3, <1>4, <1>5, <1>6

(* The links close behind a chunk that leaves the ring.                    *)
Removes(h, g, A, c) ==
  \A x \in A :
    /\ g[x].free = IF x = c THEN No ELSE h[x].free
    /\ g[x].nfree = IF x = h[c].pfree THEN h[c].nfree ELSE h[x].nfree
    /\ g[x].pfree = IF x = h[c].nfree THEN h[c].pfree ELSE h[x].pfree

LEMMA RingRemove ==
  ASSUME NEW h, NEW g, NEW A, NEW n, NEW f, Ring(h, A, n, f), NEW c \in A, h[c].free = Yes,
         Removes(h, g, A, c)
  PROVE  \E m, e : Ring(g, A, m, e)
<1> USE DEF Removes
<1>0. n \in Nat /\ \A i, j \in 1 .. n : f[i] = f[j] => i = j
  BY DEF Ring
<1>1. /\ n \in Nat /\ f \in [0 .. n + 1 -> A] /\ f[0] = 0 /\ f[n + 1] = 0
      /\ \A i \in 1 .. n : f[i] # 0 /\ h[f[i]].free = Yes
      /\ \A i, j \in 1 .. n : f[i] = f[j] => i = j
      /\ \A a \in A : h[a].free = Yes => \E i \in 1 .. n : f[i] = a
      /\ \A i \in 0 .. n : h[f[i]].nfree = f[i + 1] /\ h[f[i + 1]].pfree = f[i]
  BY DEF Ring
<1>2. PICK i \in 1 .. n : c = f[i] /\ h[c].pfree = f[i - 1] /\ h[c].nfree = f[i + 1]
  BY InRing
<1> DEFINE to(k) == IF k < i THEN k ELSE k + 1
           m == n - 1
           e == [k \in 0 .. m + 1 |-> f[to(k)]]
<1>3. m \in Nat /\ m + 1 = n /\ i \in 1 .. m + 1
  BY <1>1
<1>4. \A k \in 0 .. m + 1 : to(k) \in 0 .. n + 1 /\ to(k) # i /\ e[k] = f[to(k)] /\ e[k] \in A
  BY <1>1, <1>3
<1>5. e \in [0 .. m + 1 -> A] /\ e[0] = 0 /\ e[m + 1] = 0
  BY <1>1, <1>3, <1>4
<1>6. \A k \in 1 .. m : to(k) \in 1 .. n
  BY <1>1, <1>3
<1>7. \A j, k \in 1 .. m : to(j) = to(k) => j = k
  BY <1>1, <1>3
<1> HIDE DEF e, m
<1>8. \A k \in 1 .. m : e[k] # 0 /\ g[e[k]].free = Yes
  <2> TAKE k \in 1 .. m
  <2>1. to(k) \in 1 .. n /\ to(k) # i /\ e[k] = f[to(k)]
    BY <1>3, <1>4, <1>6
  <2>2. e[k] # c /\ e[k] # 0 /\ h[e[k]].free = Yes /\ e[k] \in A
    <3> HIDE DEF to
    <3> QED BY <1>1, <1>2, <2>1
  <2> QED BY <2>2
<1>9. \A j, k \in 1 .. m : e[j] = e[k] => j = k
  <2> TAKE j, k \in 1 .. m
  <2>1. to(k) \in 1 .. n /\ e[k] = f[to(k)] /\ to(j) \in 1 .. n /\ e[j] = f[to(j)]
    BY <1>3, <1>4, <1>6
  <2>2. e[j] = e[k] => to(j) = to(k)
    <3> DEFINE u == to(j)
               v == to(k)
    <3>1. u \in 1 .. n /\ v \in 1 .. n /\ e[j] = f[u] /\ e[k] = f[v]
      BY <2>1
    <3> HIDE DEF u, v
    <3>2. e[j] = e[k] => u = v
      <4>1. ASSUME e[j] = e[k] PROVE f[u] = f[v]
        BY <3>1, <4>1
      <4>2. f[u] = f[v] => u = v
        BY <1>0, <3>1
      <4> QED BY <4>1, <4>2
    <3> QED BY <3>2 DEF u, v
  <2>3. to(j) = to(k) => j = k
    BY <1>7
  <2> QED BY <2>2, <2>3
<1>10. \A a \in A : g[a].free = Yes => \E k \in 1 .. m : e[k] = a
  <2> SUFFICES ASSUME NEW a \in A, g[a].free = Yes PROVE \E k \in 1 .. m : e[k] = a
    OBVIOUS
  <2>1. a # c /\ h[a].free = Yes
    BY YesNo
  <2>2. PICK j \in 1 .. n : f[j] = a
    BY <1>1, <2>1
  <2>3. j # i
    BY <1>2, <2>1, <2>2
  <2> DEFINE k == IF j < i THEN j ELSE j - 1
  <2>4. k \in 1 .. m /\ to(k) = j
    BY <1>3, <2>3
  <2> QED BY <1>3, <1>4, <2>2, <2>4
<1>11. \A k \in 0 .. m : g[e[k]].nfree = e[k + 1] /\ g[e[k + 1]].pfree = e[k]
  <2> TAKE k \in 0 .. m
  <2>0. k \in 0 .. m + 1 /\ k + 1 \in 0 .. m + 1
    BY <1>3
  <2>1. e[k] = f[to(k)] /\ e[k + 1] = f[to(k + 1)] /\ e[k] \in A /\ e[k + 1] \in A
    BY <1>4, <2>0
  <2>2. CASE k + 1 = i
    <3>1. to(k) = i - 1 /\ to(k + 1) = i + 1
      BY <1>3, <2>2
    <3> HIDE DEF to
    <3>2. e[k] = h[c].pfree /\ e[k + 1] = h[c].nfree
      BY <1>2, <2>1, <3>1
    <3> QED BY <2>1, <3>2
  <2>3. CASE k + 1 # i
    <3>1. to(k + 1) = to(k) + 1 /\ to(k) \in 0 .. n /\ to(k) # i - 1 /\ to(k) # i /\ to(k) + 1 # i + 1
      BY <1>3, <2>3
    <3> DEFINE t == to(k)
    <3> HIDE DEF to, t
    <3>2. h[e[k]].nfree = e[k + 1] /\ h[e[k + 1]].pfree = e[k]
      BY <1>1, <2>1, <3>1 DEF t
    <3>3. e[k] # h[c].pfree \/ e[k + 1] = h[c].nfree
      <4>1. ASSUME f[t] = f[i - 1] PROVE FALSE
        <5>1. t \in 0 .. n /\ t # i - 1 /\ i - 1 \in 0 .. n
          BY <1>1, <3>1 DEF t
        <5> QED BY <1>1, <4>1, <5>1
      <4> QED BY <1>2, <2>1, <4>1 DEF t
    <3>4. e[k + 1] # h[c].nfree \/ e[k] = h[c].pfree
      <4>1. ASSUME f[t + 1] = f[i + 1] PROVE FALSE
        <5>1. t \in 0 .. n /\ t # i
          BY <1>1, <3>1 DEF t
        <5>2. t + 1 # i + 1 /\ (t + 1 = n + 1 \/ t + 1 \in 1 .. n) /\ (i + 1 = n + 1 \/ i + 1 \in 1 .. n)
          BY <1>1, <5>1
        <5> DEFINE u == t + 1
                   v == i + 1
        <5>3. f[u] = f[v] /\ u # v /\ (u = n + 1 \/ u \in 1 .. n) /\ (v = n + 1 \/ v \in 1 .. n)
          BY <4>1, <5>2
        <5> HIDE DEF u, v
        <5> QED BY <1>1, <5>3
      <4> QED BY <1>2, <2>1, <3>1, <4>1 DEF t
    <3> QED BY <2>1, <3>2, <3>3, <3>4
  <2> QED BY <2>2, <2>3
<1>12. Ring(g, A, m, e)
  <2> HIDE DEF to
  <2> QED BY <1>3, <1>5, <1>8, <1>9, <1>10, <1>11 DEF Ring
<1> QED BY <1>12

(* What is left of a chunk takes its place.                                *)
Replaces(h, g, A, c, d) ==
  /\ g[d].free = Yes /\ g[c].free = No
  /\ g[d].nfree = h[c].nfree /\ g[d].pfree = h[c].pfree
  /\ \A x \in A :
       /\ x # c => g[x].free = h[x].free
       /\ g[x].nfree = IF x = h[c].pfree THEN d ELSE h[x].nfree
       /\ g[x].pfree = IF x = h[c].nfree THEN d ELSE h[x].pfree

LEMMA RingReplace ==
  ASSUME NEW h, NEW g, NEW A, NEW n, NEW f, Ring(h, A, n, f), NEW c \in A, h[c].free = Yes,
         NEW d, d \notin A, 0 \in A, Replaces(h, g, A, c, d)
  PROVE  \E m, e : Ring(g, A \cup {d}, m, e)
<1> USE DEF Replaces
<1>1. /\ n \in Nat /\ f \in [0 .. n + 1 -> A] /\ f[0] = 0 /\ f[n + 1] = 0
      /\ \A i \in 1 .. n : f[i] # 0 /\ h[f[i]].free = Yes
      /\ \A i, j \in 1 .. n : f[i] = f[j] => i = j
      /\ \A a \in A : h[a].free = Yes => \E i \in 1 .. n : f[i] = a
      /\ \A i \in 0 .. n : h[f[i]].nfree = f[i + 1] /\ h[f[i + 1]].pfree = f[i]
  BY DEF Ring
<1>2. PICK i \in 1 .. n : c = f[i] /\ h[c].pfree = f[i - 1] /\ h[c].nfree = f[i + 1]
  BY InRing
<1> DEFINE e == [k \in 0 .. n + 1 |-> IF k = i THEN d ELSE f[k]]
           B == A \cup {d}
<1>3. e \in [0 .. n + 1 -> B] /\ e[0] = 0 /\ e[n + 1] = 0 /\ e[i] = d
  BY <1>1
<1>4. \A k \in 0 .. n + 1 : k # i => e[k] = f[k] /\ f[k] \in A
  BY <1>1
<1>5. \A k \in 1 .. n : k # i => f[k] # c
  BY <1>1, <1>2
<1>6. d # 0
  OBVIOUS
<1> HIDE DEF e
<1>7. \A k \in 1 .. n : e[k] # 0 /\ g[e[k]].free = Yes
  <2> TAKE k \in 1 .. n
  <2>1. k \in 0 .. n + 1
    BY <1>1
  <2>2. CASE k = i
    BY <1>3, <1>6, <2>2
  <2>3. CASE k # i
    <3>1. e[k] = f[k] /\ f[k] \in A /\ f[k] # c /\ f[k] # 0 /\ h[f[k]].free = Yes
      BY <1>1, <1>4, <1>5, <2>1, <2>3
    <3> QED BY <3>1
  <2> QED BY <2>2, <2>3
<1>8. \A j, k \in 1 .. n : e[j] = e[k] => j = k
  <2> TAKE j, k \in 1 .. n
  <2>1. k \in 0 .. n + 1 /\ j \in 0 .. n + 1
    BY <1>1
  <2> QED BY <1>1, <1>3, <1>4, <2>1
<1>9. \A a \in B : g[a].free = Yes => \E k \in 1 .. n : e[k] = a
  <2> SUFFICES ASSUME NEW a \in B, g[a].free = Yes PROVE \E k \in 1 .. n : e[k] = a
    OBVIOUS
  <2>1. CASE a = d
    BY <1>3, <2>1
  <2>2. CASE a # d
    <3>1. a \in A /\ a # c /\ h[a].free = Yes
      BY <2>2, YesNo
    <3>2. PICK k \in 1 .. n : f[k] = a
      BY <1>1, <3>1
    <3>3. k # i /\ k \in 0 .. n + 1
      BY <1>1, <1>2, <3>1, <3>2
    <3> QED BY <1>4, <3>2, <3>3
  <2> QED BY <2>1, <2>2
<1>10. \A k \in 0 .. n : g[e[k]].nfree = e[k + 1] /\ g[e[k + 1]].pfree = e[k]
  <2> TAKE k \in 0 .. n
  <2>0. /\ k \in 0 .. n + 1 /\ k + 1 \in 0 .. n + 1 /\ i - 1 \in 0 .. n /\ i \in 0 .. n
        /\ i # i - 1 /\ i + 1 # i /\ i + 1 \in 0 .. n + 1 /\ (i - 1) + 1 = i
    BY <1>1
  <2>1. CASE k = i
    <3>1. e[k] = d /\ e[k + 1] = h[c].nfree /\ h[c].nfree \in A
      BY <1>2, <1>3, <1>4, <2>0, <2>1
    <3> QED BY <3>1
  <2>2. CASE k = i - 1
    <3>1. e[k] = h[c].pfree /\ e[k + 1] = d /\ h[c].pfree \in A
      BY <1>2, <1>3, <1>4, <2>0, <2>2
    <3> QED BY <3>1
  <2>3. CASE k # i /\ k # i - 1
    <3>0. k + 1 # i
      BY <2>0, <2>3
    <3>1. e[k] = f[k] /\ e[k + 1] = f[k + 1] /\ f[k] \in A /\ f[k + 1] \in A
      BY <1>4, <2>0, <2>3, <3>0
    <3>2. h[f[k]].nfree = f[k + 1] /\ h[f[k + 1]].pfree = f[k]
      BY <1>1
    <3>3. f[k] # h[c].pfree
      <4>1. CASE i - 1 = 0
        BY <1>1, <1>2, <2>0, <2>3, <4>1
      <4>2. CASE i - 1 # 0
        <5>1. i - 1 \in 1 .. n
          BY <1>1, <4>2
        <5>2. k = 0 \/ k \in 1 .. n
          BY <1>1
        <5> QED BY <1>1, <1>2, <2>3, <5>1, <5>2
      <4> QED BY <4>1, <4>2
    <3>4. f[k + 1] # h[c].nfree
      <4>1. k + 1 \in 1 .. n + 1 /\ k + 1 # i + 1 /\ i + 1 \in 1 .. n + 1
        BY <1>1, <2>3
      <4>2. (k + 1 = n + 1 \/ k + 1 \in 1 .. n) /\ (i + 1 = n + 1 \/ i + 1 \in 1 .. n)
        BY <1>1
      <4> QED BY <1>1, <1>2, <4>1, <4>2
    <3> QED BY <3>1, <3>2, <3>3, <3>4
  <2> QED BY <2>1, <2>2, <2>3
<1>11. Ring(g, B, n, e)
  BY <1>1, <1>3, <1>7, <1>8, <1>9, <1>10 DEF Ring
<1> QED BY <1>11

(* A chunk that is freed becomes the first of the ring.                    *)
LEMMA RingPush ==
  ASSUME NEW h, NEW g, NEW A, NEW n, NEW f, Ring(h, A, n, f), NEW c \in A, h[c].free = No, c # 0,
         0 \in A,
         \A x \in A :
           /\ g[x].free = IF x = c THEN Yes ELSE h[x].free
           /\ g[x].nfree = IF x = c THEN h[0].nfree ELSE IF x = 0 THEN c ELSE h[x].nfree
           /\ g[x].pfree = IF x = c THEN 0 ELSE IF x = h[0].nfree THEN c ELSE h[x].pfree
  PROVE  \E m, e : Ring(g, A, m, e)
<1>0. n \in Nat /\ \A i, j \in 1 .. n : f[i] = f[j] => i = j
  BY DEF Ring
<1>1. /\ n \in Nat /\ f \in [0 .. n + 1 -> A] /\ f[0] = 0 /\ f[n + 1] = 0
      /\ \A i \in 1 .. n : f[i] # 0 /\ h[f[i]].free = Yes
      /\ \A i, j \in 1 .. n : f[i] = f[j] => i = j
      /\ \A a \in A : h[a].free = Yes => \E i \in 1 .. n : f[i] = a
      /\ \A i \in 0 .. n : h[f[i]].nfree = f[i + 1] /\ h[f[i + 1]].pfree = f[i]
  BY DEF Ring
<1> DEFINE m == n + 1
           e == [k \in 0 .. m + 1 |-> IF k = 0 THEN 0 ELSE IF k = 1 THEN c ELSE f[k - 1]]
<1>2. m \in Nat
  BY <1>1
<1>3. \A k \in 2 .. m + 1 : k - 1 \in 1 .. n + 1 /\ e[k] = f[k - 1] /\ e[k] \in A
  BY <1>1
<1>4. e[0] = 0 /\ e[1] = c /\ e[m + 1] = 0 /\ e = [k \in 0 .. m + 1 |-> e[k]]
  BY <1>1
<1>5. \A i \in 1 .. n : f[i] # c
  BY <1>1, YesNo
<1> HIDE DEF e
<1>6. e \in [0 .. m + 1 -> A]
  <2>1. \A k \in 0 .. m + 1 : k = 0 \/ k = 1 \/ k \in 2 .. m + 1
    BY <1>2
  <2> QED BY <1>3, <1>4, <2>1
<1>7. \A k \in 1 .. m : k = 1 \/ (k \in 2 .. m + 1 /\ k - 1 \in 1 .. n)
  BY <1>1
<1>8. \A k \in 1 .. m : e[k] # 0 /\ g[e[k]].free = Yes
  <2> TAKE k \in 1 .. m
  <2>1. CASE k = 1
    BY <1>4, <2>1
  <2>2. CASE k # 1
    <3>1. e[k] = f[k - 1] /\ k - 1 \in 1 .. n /\ e[k] \in A
      BY <1>3, <1>7, <2>2
    <3>2. f[k - 1] # 0 /\ f[k - 1] # c /\ h[f[k - 1]].free = Yes
      BY <1>1, <1>5, <3>1
    <3>3. e[k] # 0 /\ e[k] # c /\ h[e[k]].free = Yes
      BY <3>1, <3>2
    <3>4. g[e[k]].free = h[e[k]].free
      BY <3>1, <3>3
    <3> QED BY <3>3, <3>4
  <2> QED BY <2>1, <2>2
<1>9. \A j, k \in 1 .. m : e[j] = e[k] => j = k
  <2> TAKE j, k \in 1 .. m
  <2>1. ASSUME NEW i \in 1 .. m, i # 1 PROVE e[i] # c
    <3>1. e[i] = f[i - 1] /\ i - 1 \in 1 .. n
      BY <1>3, <1>7, <2>1
    <3> QED BY <1>5, <3>1
  <2>2. CASE j # 1 /\ k # 1
    <3>1. e[j] = f[j - 1] /\ e[k] = f[k - 1] /\ j - 1 \in 1 .. n /\ k - 1 \in 1 .. n
      BY <1>3, <1>7, <2>2
    <3>2. e[j] = e[k] => j - 1 = k - 1
      <4> DEFINE u == j - 1
                 v == k - 1
      <4>1. u \in 1 .. n /\ v \in 1 .. n /\ e[j] = f[u] /\ e[k] = f[v]
        BY <3>1
      <4> HIDE DEF u, v
      <4>2. e[j] = e[k] => u = v
        <5>1. ASSUME e[j] = e[k] PROVE f[u] = f[v]
          BY <4>1, <5>1
        <5>2. f[u] = f[v] => u = v
          BY <1>0, <4>1
        <5> QED BY <5>1, <5>2
      <4> QED BY <4>2 DEF u, v
    <3>3. j - 1 = k - 1 => j = k
      BY <1>2
    <3> QED BY <3>2, <3>3
  <2> QED BY <1>4, <2>1, <2>2
<1>10. \A a \in A : g[a].free = Yes => \E k \in 1 .. m : e[k] = a
  <2> SUFFICES ASSUME NEW a \in A, g[a].free = Yes PROVE \E k \in 1 .. m : e[k] = a
    OBVIOUS
  <2>1. CASE a = c
    <3>1. 1 \in 1 .. m
      BY <1>2, <1>1
    <3> QED BY <1>4, <2>1, <3>1
  <2>2. CASE a # c
    <3>1. PICK j \in 1 .. n : f[j] = a
      BY <1>1, <2>2
    <3>2. j + 1 \in 1 .. m /\ j + 1 \in 2 .. m + 1 /\ (j + 1) - 1 = j
      BY <1>1
    <3>3. e[j + 1] = f[(j + 1) - 1]
      BY <1>3, <3>2
    <3>4. e[j + 1] = a
      BY <3>1, <3>2, <3>3
    <3> HIDE DEF m
    <3> USE <3>2
    <3> WITNESS j + 1 \in 1 .. m
    <3> QED BY <3>2, <3>4
  <2> QED BY <2>1, <2>2
<1>11. \A k \in 0 .. m : g[e[k]].nfree = e[k + 1] /\ g[e[k + 1]].pfree = e[k]
  <2> TAKE k \in 0 .. m
  <2>0. 1 \in 0 .. n + 1 /\ 0 \in 0 .. n /\ 0 + 1 = 1 /\ h[0].nfree = f[1] /\ f[1] \in A /\ f[1] # c
    BY <1>1, <1>5
  <2>1. CASE k = 0
    BY <1>4, <2>0, <2>1
  <2>2. CASE k = 1
    <3>1. 2 \in 2 .. m + 1 /\ 1 + 1 = 2 /\ 2 - 1 = 1
      BY <1>1
    <3>2. e[2] = f[1]
      BY <1>3, <3>1
    <3> QED BY <1>4, <2>0, <2>2, <3>1, <3>2
  <2>3. CASE k # 0 /\ k # 1
    <3>1. k \in 2 .. m + 1 /\ k + 1 \in 2 .. m + 1 /\ (k + 1) - 1 = k /\ k - 1 \in 1 .. n /\ (k - 1) + 1 = k /\ k \in 2 .. n + 1
      BY <1>1, <2>3
    <3>2. e[k] = f[k - 1] /\ e[k + 1] = f[k] /\ f[k] \in A /\ f[k - 1] \in A
      BY <1>3, <3>1
    <3>3. h[f[k - 1]].nfree = f[k] /\ h[f[k]].pfree = f[k - 1]
      BY <1>1, <3>1
    <3>4. f[k - 1] # c /\ f[k - 1] # 0
      BY <1>1, <1>5, <3>1
    <3>5. f[k] # c /\ f[k] # f[1]
      <4>1. CASE k = n + 1
        <5>1. 1 \in 1 .. n
          BY <1>1, <3>1, <4>1
        <5> QED BY <1>1, <4>1, <5>1
      <4>2. CASE k # n + 1
        <5>1. 1 \in 1 .. n /\ k \in 1 .. n
          BY <1>1, <3>1, <4>2
        <5> QED BY <1>1, <1>5, <2>3, <5>1
      <4> QED BY <4>1, <4>2
    <3> QED BY <2>0, <3>2, <3>3, <3>4, <3>5
  <2> QED BY <2>1, <2>2, <2>3
<1>12. Ring(g, A, m, e)
  BY <1>2, <1>4, <1>6, <1>8, <1>9, <1>10, <1>11 DEF Ring
<1> QED BY <1>12

-----------------------------------------------------------------------------
(* A heap in order, with its chunks A; those in use; no two free ones are  *)
(* neighbours; and what a client sees of its chunk.                        *)
InOrder(h, A) == h \in Heaps /\ Chunked(h, A) /\ \E n, f : Ring(h, A, n, f)
Held(h, A) == {a \in A \ {0, End} : h[a].free = No}
Merged(h, A) == \A a \in A \ {End} : h[a].free = No \/ h[h[a].next].free = No
SameChunk(h, g, a) ==
  /\ g[a].next = h[a].next /\ g[a].nfree = h[a].nfree /\ g[a].pfree = h[a].pfree
  /\ \A x \in Umm!Blocks : a < x /\ x < h[a].next => g[x] = h[x]

(* What the chunks are, said at once.                                      *)
LEMMA ChunkFacts ==
  ASSUME NEW h, NEW A, Chunked(h, A)
  PROVE  /\ A \subseteq 0 .. End /\ A \subseteq Umm!Blocks /\ 0 \in A /\ 1 \in A /\ End \in A
         /\ h[0].free = No /\ h[End].free = No /\ h[0].next = 1
         /\ \A a \in A : h[a].free \in {Yes, No}
         /\ \A a \in A \ {End} : h[a].next \in A /\ a < h[a].next /\ h[h[a].next].prev = a
         /\ \A a \in A \ {0} : h[a].prev \in A \ {End} /\ h[a].prev < a /\ h[h[a].prev].next = a
         /\ \A a \in A \ {0} : a # 1 => h[a].prev # 0
<1>1. /\ A \subseteq 0 .. End /\ A \subseteq Umm!Blocks /\ 0 \in A /\ 1 \in A /\ End \in A
      /\ h[0].free = No /\ h[End].free = No
      /\ \A a \in A : h[a].free \in {Yes, No}
      /\ \A a \in A \ {End} : h[a].next \in A /\ a < h[a].next /\ h[h[a].next].prev = a
      /\ \A a \in A \ {0} : h[a].prev \in A /\ h[a].prev < a /\ h[h[a].prev].next = a
  BY HeapFacts DEF Chunked
<1>2. h[0].next = 1
  <2>1. 1 <= 0 \/ h[0].next <= 1
    BY HeapFacts, <1>1 DEF Chunked
  <2>2. h[0].next \in 0 .. End /\ 0 < h[0].next
    <3>1. 0 # End
      BY HeapFacts
    <3> QED BY <1>1, <3>1
  <2> QED BY HeapFacts, <2>1, <2>2
<1>3. \A a \in A \ {0} : h[a].prev # End
  BY HeapFacts, <1>1
<1> QED BY <1>1, <1>2, <1>3

(* No block inside a chunk is a chunk's first.                             *)
LEMMA Inside ==
  ASSUME NEW h, NEW A, Chunked(h, A), NEW a \in A \ {End}, NEW x \in Umm!Blocks,
         a < x, x < h[a].next
  PROVE  x \notin A
<1>1. a \in 0 .. End /\ h[a].next \in 0 .. End /\ x \in 0 .. End /\ End \in Nat
  BY ChunkFacts, HeapFacts
<1>2. x \in A => x <= a \/ h[a].next <= x
  BY DEF Chunked
<1> QED BY <1>1, <1>2

LEMMA ChunkStays ==
  ASSUME NEW h, NEW g, NEW A, Chunked(h, A), NEW a \in A \ {End},
         g[a].next = h[a].next, g[a].nfree = h[a].nfree, g[a].pfree = h[a].pfree,
         \A x \in Umm!Blocks \ A : g[x] = h[x]
  PROVE  SameChunk(h, g, a)
BY Inside DEF SameChunk

LEMMA SameTwice ==
  ASSUME NEW h, NEW u, NEW g, NEW a, SameChunk(h, u, a), SameChunk(u, g, a)
  PROVE  SameChunk(h, g, a)
BY DEF SameChunk

(* The neighbours of a free chunk in the ring are free or block 0.         *)
LEMMA RingNeighbours ==
  ASSUME NEW h, NEW A, InOrder(h, A), NEW c \in A, h[c].free = Yes
  PROVE  LET p == h[c].pfree
             s == h[c].nfree
         IN  /\ p \in A /\ s \in A /\ p # c /\ s # c /\ c # 0 /\ c # End
             /\ (p = 0 \/ h[p].free = Yes) /\ (s = 0 \/ h[s].free = Yes)
             /\ p \notin Held(h, A) /\ s \notin Held(h, A)
<1>1. PICK n, f : Ring(h, A, n, f)
  BY DEF InOrder
<1>2. /\ h[c].pfree \in A /\ h[c].nfree \in A /\ c # h[c].pfree /\ c # h[c].nfree /\ c # 0
  BY <1>1, InRing
<1>3. PICK i \in 1 .. n : c = f[i] /\ h[c].pfree = f[i - 1] /\ h[c].nfree = f[i + 1]
  BY <1>1, InRing
<1>4. /\ n \in Nat /\ f[0] = 0 /\ f[n + 1] = 0 /\ \A j \in 1 .. n : h[f[j]].free = Yes
  BY <1>1 DEF Ring
<1>5. (i - 1 = 0 \/ i - 1 \in 1 .. n) /\ (i + 1 = n + 1 \/ i + 1 \in 1 .. n)
  BY <1>4
<1>6. (f[i - 1] = 0 \/ h[f[i - 1]].free = Yes) /\ (f[i + 1] = 0 \/ h[f[i + 1]].free = Yes)
  BY <1>4, <1>5
<1>7. c # End
  BY ChunkFacts, YesNo DEF InOrder
<1> QED BY <1>2, <1>3, <1>6, <1>7, YesNo DEF Held

(* A free chunk is taken out of the ring as it is.                         *)
LEMMA DisconnectHeap ==
  ASSUME NEW h, NEW A, InOrder(h, A), NEW c \in A, h[c].free = Yes
  PROVE  LET g == Umm!Disconnect(h, c) IN
         /\ InOrder(g, A) /\ Held(g, A) = Held(h, A) \cup {c}
         /\ \A a \in A : /\ g[a].next = h[a].next /\ g[a].prev = h[a].prev
                         /\ g[a].free = IF a = c THEN No ELSE h[a].free
         /\ \A a \in Held(h, A) : SameChunk(h, g, a)
         /\ \A x \in Umm!Blocks \ A : g[x] = h[x]
<1> DEFINE g == Umm!Disconnect(h, c)
           p == h[c].pfree
           s == h[c].nfree
<1>0. h \in Heaps /\ Chunked(h, A)
  BY DEF InOrder
<1>1. /\ p \in A /\ s \in A /\ p # c /\ s # c /\ c # 0 /\ c # End
      /\ p \notin Held(h, A) /\ s \notin Held(h, A)
  BY RingNeighbours
<1>2. A \subseteq Umm!Blocks
  BY <1>0, ChunkFacts
<1>3. /\ g \in Heaps
      /\ \A x \in Umm!Blocks :
              /\ g[x].next = h[x].next
              /\ g[x].free = IF x = c THEN No ELSE h[x].free
              /\ g[x].prev = h[x].prev
              /\ g[x].nfree = IF x = p THEN s ELSE h[x].nfree
              /\ g[x].pfree = IF x = s THEN p ELSE h[x].pfree
              /\ x \notin {c, p, s} => g[x] = h[x]
  <2>1. c \in Umm!Blocks /\ p \in Umm!Blocks /\ s \in Umm!Blocks
    BY <1>1, <1>2
  <2> QED BY <1>0, <1>1, <2>1, DisconnectFields
<1> HIDE DEF g, p, s
<1>4. Chunked(g, A)
  <2>1. \A a \in A : g[a].next = h[a].next /\ g[a].prev = h[a].prev
    BY <1>2, <1>3
  <2>2. \A a \in A : g[a].free \in {Yes, No} /\ (h[a].free = No => g[a].free = No)
    BY <1>0, <1>2, <1>3, ChunkFacts
  <2>3. /\ A \subseteq Umm!Blocks /\ {0, 1, End} \subseteq A
        /\ g[0].free = No /\ g[End].free = No /\ g[End].next = 0
    BY <1>0, <2>1, <2>2 DEF Chunked
  <2>4. \A a \in A \ {End} : g[a].next \in A /\ a < g[a].next /\ g[g[a].next].prev = a
    BY <1>0, <2>1 DEF Chunked
  <2>5. \A a \in A \ {0} : g[a].prev \in A /\ g[a].prev < a /\ g[g[a].prev].next = a
    BY <1>0, <2>1 DEF Chunked
  <2>6. \A a \in A \ {End}, x \in A : x <= a \/ g[a].next <= x
    BY <1>0, <2>1 DEF Chunked
  <2> QED BY <2>2, <2>3, <2>4, <2>5, <2>6 DEF Chunked
<1>5. \E n, f : Ring(g, A, n, f)
  <2>1. PICK n, f : Ring(h, A, n, f)
    BY DEF InOrder
  <2>2. Removes(h, g, A, c)
    BY <1>2, <1>3 DEF p, s, Removes
  <2> QED BY <2>1, <2>2, RingRemove
<1>6. Held(g, A) = Held(h, A) \cup {c}
  BY <1>1, <1>2, <1>3 DEF Held
<1>7. \A x \in Umm!Blocks \ A : g[x] = h[x]
  BY <1>1, <1>3
<1>8. ASSUME NEW a \in Held(h, A) PROVE SameChunk(h, g, a)
  <2>1. a \in A \ {End} /\ a \in Umm!Blocks /\ a # p /\ a # s
    BY <1>1, <1>2 DEF Held
  <2>2. g[a].next = h[a].next /\ g[a].nfree = h[a].nfree /\ g[a].pfree = h[a].pfree
    BY <1>3, <2>1
  <2> QED BY <1>0, <1>7, <2>1, <2>2, ChunkStays
<1>9. \A a \in A : /\ g[a].next = h[a].next /\ g[a].prev = h[a].prev
                   /\ g[a].free = IF a = c THEN No ELSE h[a].free
  BY <1>2, <1>3
<1> QED BY <1>3, <1>4, <1>5, <1>6, <1>7, <1>8, <1>9 DEF InOrder, g

(* A free chunk is split: its first n blocks are taken, the rest is free.  *)
TakesFirst(h, g, A, c, n) ==
  LET B == A \cup {c + n} IN
  /\ InOrder(g, B) /\ Held(g, B) = Held(h, A) \cup {c} /\ g[c].next = c + n
  /\ \A a \in Held(h, A) : SameChunk(h, g, a)
  /\ Merged(h, A) => Merged(g, B)

LEMMA SplitFreeHeap ==
  ASSUME NEW h, NEW A, InOrder(h, A), NEW c \in A, h[c].free = Yes,
         NEW n \in Nat, n > 0, c + n < h[c].next
  PROVE  TakesFirst(h, Umm!MoveFree(Umm!SplitBlock(h, c, n, Yes), c, c + n), A, c, n)
<1> DEFINE d == c + n
           far == h[c].next
           p == h[c].pfree
           s == h[c].nfree
           u == Umm!SplitBlock(h, c, n, Yes)
           g == Umm!MoveFree(u, c, d)
           B == A \cup {d}
<1>0. h \in Heaps /\ Chunked(h, A)
  BY DEF InOrder
<1>1. /\ p \in A /\ s \in A /\ p # c /\ s # c /\ c # 0 /\ c # End
      /\ p \notin Held(h, A) /\ s \notin Held(h, A)
  BY RingNeighbours
<1>2. A \subseteq Umm!Blocks /\ A \subseteq 0 .. End /\ far \in A /\ 0 \in A
  BY <1>0, <1>1, ChunkFacts
<1>3. d \in Umm!Blocks /\ d \in Nat /\ c < d /\ d < far /\ far \in Umm!Blocks /\ c \in Umm!Blocks
  BY <1>2, HeapFacts
<1>4. d \notin A /\ d # c
  BY <1>0, <1>1, <1>3, Inside
<1>5. /\ u \in Heaps
      /\ \A x \in Umm!Blocks :
              /\ u[x].next = IF x = c THEN d ELSE IF x = d THEN far ELSE h[x].next
              /\ u[x].free = IF x = c THEN No ELSE IF x = d THEN Yes ELSE h[x].free
              /\ u[x].prev = IF x = d THEN c ELSE IF x = far THEN d ELSE h[x].prev
              /\ u[x].nfree = h[x].nfree
              /\ u[x].pfree = h[x].pfree
              /\ x \notin {c, d, far} => u[x] = h[x]
  BY <1>0, <1>3, SplitFields
<1> HIDE DEF u
<1>6. u[c].pfree = p /\ u[c].nfree = s
  BY <1>3, <1>5
<1>7. /\ g \in Heaps
      /\ \A x \in Umm!Blocks :
              /\ g[x].next = u[x].next
              /\ g[x].free = u[x].free
              /\ g[x].prev = u[x].prev
              /\ g[x].nfree = IF x = p THEN d ELSE IF x = d THEN s ELSE u[x].nfree
              /\ g[x].pfree = IF x = s THEN d ELSE IF x = d THEN p ELSE u[x].pfree
              /\ x \notin {d, p, s} => g[x] = u[x]
  <2>1. p \in Umm!Blocks /\ s \in Umm!Blocks /\ d # p /\ d # s
    BY <1>1, <1>2, <1>4
  <2> HIDE DEF p, s, d
  <2> QED BY <1>1, <1>3, <1>4, <1>5, <1>6, <2>1, MoveFreeFields
<1> HIDE DEF g, p, s, d, far
<1>8. /\ g \in Heaps
      /\ \A x \in Umm!Blocks :
              /\ g[x].next = IF x = c THEN d ELSE IF x = d THEN far ELSE h[x].next
              /\ g[x].free = IF x = c THEN No ELSE IF x = d THEN Yes ELSE h[x].free
              /\ g[x].prev = IF x = d THEN c ELSE IF x = far THEN d ELSE h[x].prev
              /\ g[x].nfree = IF x = p THEN d ELSE IF x = d THEN s ELSE h[x].nfree
              /\ g[x].pfree = IF x = s THEN d ELSE IF x = d THEN p ELSE h[x].pfree
              /\ x \notin {c, d, far, p, s} => g[x] = h[x]
  BY <1>5, <1>7
<1>9. Chunked(g, B)
  <2>1. g[c].free \in {Yes, No} /\ g[d].free \in {Yes, No}
    BY <1>3, <1>4, <1>8
  <2> QED BY <1>0, <1>1, <1>3, <1>8, <2>1, ChunkSplit DEF far
<1>10. \E m, e : Ring(g, B, m, e)
  <2>1. PICK m, f : Ring(h, A, m, f)
    BY DEF InOrder
  <2>2. /\ g[d].free = Yes /\ g[c].free = No /\ g[d].nfree = h[c].nfree /\ g[d].pfree = h[c].pfree
    BY <1>1, <1>3, <1>4, <1>8 DEF p, s
  <2>3. \A x \in A :
           /\ x # c => g[x].free = h[x].free
           /\ g[x].nfree = IF x = h[c].pfree THEN d ELSE h[x].nfree
           /\ g[x].pfree = IF x = h[c].nfree THEN d ELSE h[x].pfree
    BY <1>2, <1>4, <1>8 DEF p, s
  <2>4. Replaces(h, g, A, c, d)
    BY <2>2, <2>3 DEF Replaces
  <2> QED BY <1>2, <1>4, <2>1, <2>4, RingReplace
<1>11. Held(g, B) = Held(h, A) \cup {c}
  <2>1. ASSUME NEW a PROVE a \in Held(g, B) <=> a \in Held(h, A) \cup {c}
    <3>1. CASE a = d
      BY <1>3, <1>4, <1>8, <3>1, YesNo DEF Held
    <3>2. CASE a = c
      BY <1>1, <1>3, <1>8, <3>2 DEF Held
    <3>3. CASE a \notin {c, d}
      BY <1>2, <1>8, <3>3 DEF Held
    <3> QED BY <3>1, <3>2, <3>3
  <2> QED BY <2>1
<1>12. g[c].next = d
  BY <1>3, <1>8
<1>13. ASSUME NEW a \in Held(h, A) PROVE SameChunk(h, g, a)
  <2>1. a \in A \ {End} /\ a \in Umm!Blocks /\ a # p /\ a # s /\ a # c /\ a # d
    BY <1>1, <1>2, <1>4, YesNo DEF Held
  <2>2. g[a].next = h[a].next /\ g[a].nfree = h[a].nfree /\ g[a].pfree = h[a].pfree
    BY <1>8, <2>1
  <2>3. ASSUME NEW x \in Umm!Blocks, a < x, x < h[a].next PROVE g[x] = h[x]
    <3>1. x \notin A
      BY <1>0, <2>1, <2>3, Inside
    <3>2. x # d
      <4>1. (c <= a \/ h[a].next <= c) /\ (a <= c \/ far <= a)
        BY <1>0, <1>1, <2>1 DEF Chunked, far
      <4>2. a \in Nat /\ c \in Nat /\ far \in Nat /\ h[a].next \in Nat
        BY <1>0, <1>2, <2>1, ChunkFacts, HeapFacts
      <4> QED BY <1>3, <2>1, <2>3, <4>1, <4>2
    <3> QED BY <1>1, <1>2, <1>8, <3>1, <3>2
  <2> QED BY <2>2, <2>3 DEF SameChunk
<1>14. ASSUME Merged(h, A) PROVE Merged(g, B)
  <2> SUFFICES ASSUME NEW a \in B \ {End} PROVE g[a].free = No \/ g[g[a].next].free = No
    BY DEF Merged
  <2>1. CASE a = c
    BY <1>3, <1>8, <2>1
  <2>2. CASE a = d
    <3>1. h[far].free = No
      BY <1>1, <1>14, YesNo DEF Merged, far
    <3>2. far # c /\ far # d
      BY <1>3, HeapFacts
    <3> QED BY <1>3, <1>4, <1>8, <2>2, <3>1, <3>2
  <2>3. CASE a \notin {c, d}
    <3>1. a \in A \ {End} /\ g[a].next = h[a].next /\ g[a].free = h[a].free /\ h[a].next \in A
      BY <1>0, <1>2, <1>8, <2>3, ChunkFacts
    <3>2. h[a].free = No \/ h[h[a].next].free = No
      BY <1>14, <3>1 DEF Merged
    <3>3. g[h[a].next].free = h[h[a].next].free \/ g[h[a].next].free = No
      BY <1>2, <1>4, <1>8, <3>1
    <3> QED BY <3>1, <3>2, <3>3
  <2> QED BY <2>1, <2>2, <2>3
<1>15. Umm!MoveFree(Umm!SplitBlock(h, c, n, Yes), c, c + n) = g
  BY DEF g, u, d
<1> QED BY <1>8, <1>9, <1>10, <1>11, <1>12, <1>13, <1>14, <1>15 DEF InOrder, TakesFirst, d

(* A chunk in use is split: what comes after its first n blocks is a chunk *)
(* in use too.                                                             *)
CutsOff(h, g, A, c, n) ==
  LET B == A \cup {c + n} IN
  /\ InOrder(g, B) /\ Held(g, B) = Held(h, A) \cup {c + n} /\ c + n \notin A
  /\ g[c].next = c + n /\ g[c].nfree = h[c].nfree /\ g[c].pfree = h[c].pfree
  /\ \A x \in Umm!Blocks : c < x /\ x < c + n => g[x] = h[x]
  /\ \A a \in Held(h, A) \ {c} : SameChunk(h, g, a)
  /\ Merged(h, A) => Merged(g, B)

LEMMA SplitHeldHeap ==
  ASSUME NEW h, NEW A, InOrder(h, A), NEW c \in Held(h, A),
         NEW n \in Nat, n > 0, c + n < h[c].next
  PROVE  CutsOff(h, Umm!SplitBlock(h, c, n, No), A, c, n)
<1> DEFINE d == c + n
           far == h[c].next
           g == Umm!SplitBlock(h, c, n, No)
           B == A \cup {d}
<1>0. h \in Heaps /\ Chunked(h, A)
  BY DEF InOrder
<1>1. c \in A /\ c # 0 /\ c # End /\ h[c].free = No
  BY DEF Held
<1>2. A \subseteq Umm!Blocks /\ A \subseteq 0 .. End /\ far \in A /\ 0 \in A /\ End \in A
  BY <1>0, <1>1, ChunkFacts
<1>3. d \in Umm!Blocks /\ d \in Nat /\ c < d /\ d < far /\ far \in Umm!Blocks /\ c \in Umm!Blocks
  <2>1. c \in 0 .. End /\ far \in 0 .. End /\ d < far
    BY <1>1, <1>2
  <2> HIDE DEF far
  <2> QED BY <2>1, HeapFacts
<1>4. d \notin A /\ d # c /\ d # 0 /\ d # End
  BY <1>0, <1>1, <1>2, <1>3, Inside
<1>5. /\ g \in Heaps
      /\ \A x \in Umm!Blocks :
              /\ g[x].next = IF x = c THEN d ELSE IF x = d THEN far ELSE h[x].next
              /\ g[x].free = IF x = c THEN No ELSE IF x = d THEN No ELSE h[x].free
              /\ g[x].prev = IF x = d THEN c ELSE IF x = far THEN d ELSE h[x].prev
              /\ g[x].nfree = h[x].nfree
              /\ g[x].pfree = h[x].pfree
              /\ x \notin {c, d, far} => g[x] = h[x]
  BY <1>0, <1>3, SplitFields
<1> HIDE DEF g
<1>6. Chunked(g, B)
  <2>1. g[c].free \in {Yes, No} /\ g[d].free \in {Yes, No}
    BY <1>3, <1>4, <1>5
  <2> HIDE DEF d
  <2> QED BY <1>0, <1>1, <1>3, <1>5, <2>1, ChunkSplit
<1> HIDE DEF d, far
<1>7. \E m, e : Ring(g, B, m, e)
  <2>1. PICK m, f : Ring(h, A, m, f)
    BY DEF InOrder
  <2>2. \A a \in A : h[a].free = Yes => a \in B /\ g[a].free = Yes
    BY <1>1, <1>2, <1>4, <1>5, YesNo
  <2>3. \A b \in B : g[b].free = Yes => b \in A /\ h[b].free = Yes
    BY <1>1, <1>2, <1>3, <1>4, <1>5, YesNo
  <2>4. \A a \in A : g[a].nfree = h[a].nfree /\ g[a].pfree = h[a].pfree
    BY <1>2, <1>5
  <2>5. SameRing(h, g, A, B)
    BY <1>2, <2>2, <2>3, <2>4 DEF SameRing
  <2> QED BY <2>1, <2>5, RingSame
<1>8. Held(g, B) = Held(h, A) \cup {d}
  <2>1. ASSUME NEW a PROVE a \in Held(g, B) <=> a \in Held(h, A) \cup {d}
    <3>1. CASE a = d
      BY <1>3, <1>4, <1>5, <3>1 DEF Held
    <3>2. CASE a = c
      BY <1>1, <1>3, <1>4, <1>5, <3>2 DEF Held
    <3>3. CASE a \notin {c, d}
      BY <1>2, <1>5, <3>3 DEF Held
    <3> QED BY <3>1, <3>2, <3>3
  <2> QED BY <2>1
<1>9. g[c].next = d /\ g[c].nfree = h[c].nfree /\ g[c].pfree = h[c].pfree
  BY <1>3, <1>5
<1>10. ASSUME NEW x \in Umm!Blocks, c < x, x < d PROVE g[x] = h[x]
  <2>1. x # c /\ x # d /\ x # far
    BY <1>2, <1>3, <1>10, HeapFacts
  <2> QED BY <1>5, <2>1
<1>11. ASSUME NEW a \in Held(h, A) \ {c} PROVE SameChunk(h, g, a)
  <2>1. a \in A \ {End} /\ a \in Umm!Blocks /\ a # c /\ a # d
    BY <1>2, <1>4 DEF Held
  <2>2. g[a].next = h[a].next /\ g[a].nfree = h[a].nfree /\ g[a].pfree = h[a].pfree
    BY <1>5, <2>1
  <2>3. ASSUME NEW x \in Umm!Blocks, a < x, x < h[a].next PROVE g[x] = h[x]
    <3>1. x \notin A
      BY <1>0, <2>1, <2>3, Inside
    <3>2. x # d
      <4>1. (c <= a \/ h[a].next <= c) /\ (a <= c \/ far <= a)
        BY <1>0, <1>1, <2>1 DEF Chunked, far
      <4>2. a \in Nat /\ c \in Nat /\ far \in Nat /\ h[a].next \in Nat
        BY <1>0, <1>1, <1>2, <2>1, ChunkFacts, HeapFacts
      <4> QED BY <1>3, <2>1, <2>3, <4>1, <4>2
    <3> QED BY <1>1, <1>2, <1>5, <3>1, <3>2
  <2> QED BY <2>2, <2>3 DEF SameChunk
<1>12. ASSUME Merged(h, A) PROVE Merged(g, B)
  <2> SUFFICES ASSUME NEW a \in B \ {End} PROVE g[a].free = No \/ g[g[a].next].free = No
    BY DEF Merged
  <2>1. CASE a \in {c, d}
    BY <1>3, <1>5, <2>1
  <2>2. CASE a \notin {c, d}
    <3>1. a \in A \ {End} /\ g[a].next = h[a].next /\ g[a].free = h[a].free /\ h[a].next \in A
      BY <1>0, <1>2, <1>5, <2>2, ChunkFacts
    <3>2. h[a].free = No \/ h[h[a].next].free = No
      BY <1>12, <3>1 DEF Merged
    <3>3. g[h[a].next].free = h[h[a].next].free \/ g[h[a].next].free = No
      BY <1>2, <1>5, <3>1
    <3> QED BY <3>1, <3>2, <3>3
  <2> QED BY <2>1, <2>2
<1>13. Umm!SplitBlock(h, c, n, No) = g
  BY DEF g
<1> QED BY <1>4, <1>5, <1>6, <1>7, <1>8, <1>9, <1>10, <1>11, <1>12, <1>13 DEF InOrder, CutsOff, d

(* A chunk in use takes in the next one, which is free.                    *)
LEMMA UpHeap ==
  ASSUME NEW h, NEW A, InOrder(h, A), NEW c \in Held(h, A), h[h[c].next].free = Yes
  PROVE  LET g == Umm!AssimilateUp(h, c)
             n == h[c].next
             B == A \ {n}
         IN  /\ InOrder(g, B) /\ Held(g, B) = Held(h, A)
             /\ n \in A \ {End} /\ g[c].next = h[n].next /\ g[c].prev = h[c].prev
             /\ g[c].nfree = h[c].nfree /\ g[c].pfree = h[c].pfree
             /\ \A x \in Umm!Blocks : c < x /\ x < n => g[x] = h[x]
             /\ \A a \in Held(h, A) \ {c} : SameChunk(h, g, a)
             /\ \A a \in B : g[a].free = h[a].free
             /\ Merged(h, A) => Merged(g, B) /\ g[g[c].next].free = No
<1> DEFINE n == h[c].next
           far == h[n].next
           p == h[n].pfree
           s == h[n].nfree
           g == Umm!AssimilateUp(h, c)
           B == A \ {n}
<1>0. h \in Heaps /\ Chunked(h, A)
  BY DEF InOrder
<1>1. c \in A /\ c # 0 /\ c # End /\ h[c].free = No
  BY DEF Held
<1>2. A \subseteq Umm!Blocks /\ A \subseteq 0 .. End /\ n \in A /\ 0 \in A /\ End \in A
  BY <1>0, <1>1, ChunkFacts
<1>3. /\ p \in A /\ s \in A /\ p # n /\ s # n /\ n # 0 /\ n # End
      /\ p \notin Held(h, A) /\ s \notin Held(h, A) /\ h[n].free = Yes
      /\ (p = 0 \/ h[p].free = Yes) /\ (s = 0 \/ h[s].free = Yes)
  BY <1>2, RingNeighbours
<1>4. far \in A /\ c < n /\ n < far /\ c \in 0 .. End /\ n \in 0 .. End /\ far \in 0 .. End
  BY <1>0, <1>1, <1>2, <1>3, ChunkFacts
<1>5. /\ g \in Heaps
      /\ \A x \in Umm!Blocks :
              /\ g[x].next = IF x = c THEN far ELSE h[x].next
              /\ g[x].free = IF x = n THEN No ELSE h[x].free
              /\ g[x].prev = IF x = far THEN c ELSE h[x].prev
              /\ g[x].nfree = IF x = p THEN s ELSE h[x].nfree
              /\ g[x].pfree = IF x = s THEN p ELSE h[x].pfree
              /\ x \notin {c, n, far, p, s} => g[x] = h[x]
  <2>1. /\ c \in Umm!Blocks /\ n \in Umm!Blocks /\ far \in Umm!Blocks /\ p \in Umm!Blocks
        /\ s \in Umm!Blocks /\ n # c
    <3> HIDE DEF n, far, p, s
    <3> QED BY <1>1, <1>2, <1>3, <1>4, HeapFacts
  <2> QED BY <1>0, <1>3, <2>1, UpFields
<1> HIDE DEF g
<1>6. Chunked(g, B)
  <2>1. g[c].free \in {Yes, No}
    BY <1>1, <1>2, <1>4, <1>5
  <2>2. \A x \in Umm!Blocks \ {n} :
           /\ g[x].next = IF x = c THEN h[n].next ELSE h[x].next
           /\ g[x].prev = IF x = h[n].next THEN c ELSE h[x].prev
           /\ x # c => g[x].free = h[x].free
    BY <1>5
  <2> HIDE DEF far, p, s
  <2> QED BY <1>0, <1>1, <1>3, <2>1, <2>2, ChunkJoin
<1> HIDE DEF n, far, p, s
<1>7. \E m, e : Ring(g, B, m, e)
  <2>1. PICK m, f : Ring(h, A, m, f)
    BY DEF InOrder
  <2>2. Removes(h, g, A, n)
    BY <1>2, <1>5 DEF p, s, Removes
  <2>3. PICK k, e : Ring(g, A, k, e)
    BY <1>2, <1>3, <2>1, <2>2, RingRemove
  <2>4. \A a \in A : g[a].free = Yes => a \in B
    BY <1>2, <1>5, YesNo
  <2>5. SameRing(g, g, A, B)
    BY <1>2, <1>3, <2>4 DEF SameRing
  <2> QED BY <2>3, <2>5, RingSame
<1>8. Held(g, B) = Held(h, A)
  <2>1. \A a \in B : g[a].free = h[a].free
    BY <1>2, <1>5
  <2>2. n \notin Held(h, A)
    BY <1>3, YesNo DEF Held
  <2> QED BY <2>1, <2>2 DEF Held
<1>9. /\ g[c].next = far /\ g[c].prev = h[c].prev
      /\ g[c].nfree = h[c].nfree /\ g[c].pfree = h[c].pfree
  <2>1. c \in Umm!Blocks /\ c # far /\ c # p /\ c # s
    BY <1>1, <1>2, <1>3, <1>4
  <2> QED BY <1>5, <2>1
<1>10. ASSUME NEW x \in Umm!Blocks, c < x, x < n PROVE g[x] = h[x]
  <2>1. x \notin A
    BY <1>0, <1>1, <1>10, Inside DEF n
  <2> QED BY <1>1, <1>2, <1>3, <1>4, <1>5, <2>1
<1>11. ASSUME NEW a \in Held(h, A) \ {c} PROVE SameChunk(h, g, a)
  <2>1. a \in A \ {End} /\ a \in Umm!Blocks /\ a # c /\ a # p /\ a # s
    BY <1>2, <1>3 DEF Held
  <2>2. g[a].next = h[a].next /\ g[a].nfree = h[a].nfree /\ g[a].pfree = h[a].pfree
    BY <1>5, <2>1
  <2>3. \A x \in Umm!Blocks \ A : g[x] = h[x]
    BY <1>1, <1>2, <1>3, <1>4, <1>5
  <2> QED BY <1>0, <2>1, <2>2, <2>3, ChunkStays
<1>12. \A a \in B : g[a].free = h[a].free
  BY <1>2, <1>5
<1>13. ASSUME Merged(h, A) PROVE Merged(g, B) /\ g[far].free = No
  <2>1. h[far].free = No
    BY <1>2, <1>3, <1>13, YesNo DEF Merged, far
  <2>2. far \in B
    BY <1>4
  <2>3. ASSUME NEW a \in B \ {End} PROVE g[a].free = No \/ g[g[a].next].free = No
    <3>1. CASE a = c
      BY <1>1, <1>12, <3>1
    <3>2. CASE a # c
      <4>1. a \in A \ {End} /\ g[a].next = h[a].next /\ h[a].next \in A /\ h[h[a].next].prev = a
        BY <1>0, <1>2, <1>5, <3>2, ChunkFacts
      <4>2. h[a].next # n
        BY <1>0, <1>1, <3>2, <4>1, ChunkFacts DEF n
      <4>3. h[a].free = No \/ h[h[a].next].free = No
        BY <1>13, <4>1 DEF Merged
      <4> QED BY <1>12, <4>1, <4>2, <4>3
    <3> QED BY <3>1, <3>2
  <2> QED BY <1>12, <2>1, <2>2, <2>3 DEF Merged
<1> QED BY <1>2, <1>3, <1>5, <1>6, <1>7, <1>8, <1>9, <1>10, <1>11, <1>12, <1>13 DEF InOrder, g, n, far

(* A chunk in use becomes part of the previous one.                        *)
Lowers(h, g, A, c) ==
  LET p == h[c].prev
      B == A \ {c}
  IN  /\ p \in A \ {0, End} /\ InOrder(g, B) /\ Held(g, B) = Held(h, A) \ {c}
      /\ g[p].next = h[c].next
      /\ \A a \in B : g[a].free = h[a].free /\ (a # p => g[a].next = h[a].next)
      /\ \A a \in Held(h, A) \ {c, p} : SameChunk(h, g, a)
      /\ g[c].nfree = h[c].nfree /\ g[c].pfree = h[c].pfree
      /\ \A x \in Umm!Blocks \ A : g[x] = h[x]

LEMMA DownHeap ==
  ASSUME NEW h, NEW A, InOrder(h, A), NEW c \in Held(h, A), h[c].prev # 0
  PROVE  Lowers(h, Umm!AssimilateDown(h, c, h[h[c].prev].free), A, c)
<1> DEFINE p == h[c].prev
           far == h[c].next
           g == Umm!AssimilateDown(h, c, h[p].free)
           B == A \ {c}
<1>0. h \in Heaps /\ Chunked(h, A)
  BY DEF InOrder
<1>1. c \in A /\ c # 0 /\ c # End /\ h[c].free = No
  BY DEF Held
<1>2. A \subseteq Umm!Blocks /\ A \subseteq 0 .. End /\ far \in A /\ 0 \in A /\ End \in A
  BY <1>0, <1>1, ChunkFacts
<1>3. /\ p \in A \ {0, End} /\ p < c /\ c < far /\ h[p].next = c /\ h[p].free \in {Yes, No}
      /\ p \in 0 .. End /\ c \in 0 .. End /\ far \in 0 .. End
  BY <1>0, <1>1, <1>2, ChunkFacts
<1>4. p # far /\ c # far /\ p # c
  BY <1>3
<1>5. /\ g \in Heaps
      /\ \A x \in Umm!Blocks :
              /\ g[x].next = IF x = p THEN far ELSE h[x].next
              /\ g[x].free = IF x = p THEN h[p].free ELSE h[x].free
              /\ g[x].prev = IF x = far THEN p ELSE h[x].prev
              /\ g[x].nfree = h[x].nfree
              /\ g[x].pfree = h[x].pfree
              /\ x \notin {p, far} => g[x] = h[x]
  <2>1. c \in Umm!Blocks /\ p \in Umm!Blocks /\ far \in Umm!Blocks
    BY <1>1, <1>2, <1>3
  <2> QED BY <1>0, <1>3, <1>4, <2>1, DownFields
<1> HIDE DEF g
<1>6. \A x \in Umm!Blocks : g[x].free = h[x].free
  BY <1>5
<1>7. Chunked(g, B)
  <2>1. g[p].free \in {Yes, No}
    BY <1>2, <1>3, <1>6
  <2>2. \A x \in Umm!Blocks \ {c} :
           /\ g[x].next = IF x = p THEN h[c].next ELSE h[x].next
           /\ g[x].prev = IF x = h[c].next THEN p ELSE h[x].prev
           /\ x # p => g[x].free = h[x].free
    BY <1>5
  <2> HIDE DEF far, p
  <2> QED BY <1>0, <1>1, <1>3, <2>1, <2>2, ChunkJoin
<1> HIDE DEF far, p
<1>8. \E m, e : Ring(g, B, m, e)
  <2>1. PICK m, f : Ring(h, A, m, f)
    BY DEF InOrder
  <2>2. \A a \in A : g[a].free = h[a].free /\ g[a].nfree = h[a].nfree /\ g[a].pfree = h[a].pfree
    BY <1>2, <1>5, <1>6
  <2>3. h[c].free # Yes
    BY <1>1, YesNo
  <2>4. SameRing(h, g, A, B)
    BY <1>1, <1>2, <2>2, <2>3 DEF SameRing
  <2> QED BY <2>1, <2>4, RingSame
<1>9. Held(g, B) = Held(h, A) \ {c}
  BY <1>2, <1>6 DEF Held
<1>10. g[p].next = far /\ \A a \in B : g[a].free = h[a].free /\ (a # p => g[a].next = h[a].next)
  BY <1>2, <1>3, <1>5, <1>6
<1>11. \A x \in Umm!Blocks \ A : g[x] = h[x]
  BY <1>2, <1>3, <1>5
<1>12. ASSUME NEW a \in Held(h, A) \ {c, p} PROVE SameChunk(h, g, a)
  <2>1. a \in A \ {End} /\ a \in Umm!Blocks /\ a # p
    BY <1>2 DEF Held
  <2>2. g[a].next = h[a].next /\ g[a].nfree = h[a].nfree /\ g[a].pfree = h[a].pfree
    BY <1>5, <2>1
  <2> QED BY <1>0, <1>11, <2>1, <2>2, ChunkStays
<1>13. g[c].nfree = h[c].nfree /\ g[c].pfree = h[c].pfree
  BY <1>1, <1>2, <1>5
<1> QED BY <1>3, <1>5, <1>7, <1>8, <1>9, <1>10, <1>11, <1>12, <1>13 DEF InOrder, Lowers, g, p, far

(* A chunk in use becomes the first of the free list.                      *)
LEMMA PushHeap ==
  ASSUME NEW h, NEW A, InOrder(h, A), NEW c \in Held(h, A)
  PROVE  LET g == AtHead(h, c) IN
         /\ InOrder(g, A) /\ Held(g, A) = Held(h, A) \ {c}
         /\ \A a \in Held(h, A) \ {c} : SameChunk(h, g, a)
         /\ \A a \in A : /\ g[a].next = h[a].next /\ g[a].prev = h[a].prev
                         /\ g[a].free = IF a = c THEN Yes ELSE h[a].free
<1> DEFINE s == h[0].nfree
           g == AtHead(h, c)
<1>0. h \in Heaps /\ Chunked(h, A)
  BY DEF InOrder
<1>1. c \in A /\ c # 0 /\ c # End /\ h[c].free = No
  BY DEF Held
<1>2. A \subseteq Umm!Blocks /\ 0 \in A /\ End \in A
  BY <1>0, ChunkFacts
<1>3. s \in A /\ s # c /\ (s = 0 \/ h[s].free = Yes)
  <2>1. PICK n, f : Ring(h, A, n, f)
    BY DEF InOrder
  <2>2. /\ n \in Nat /\ f \in [0 .. n + 1 -> A] /\ f[0] = 0 /\ f[n + 1] = 0
        /\ \A i \in 1 .. n : h[f[i]].free = Yes
    BY <2>1 DEF Ring
  <2>3. s = f[1]
    <3>1. 0 \in 0 .. n /\ 0 + 1 = 1
      BY <2>2
    <3> QED BY <2>1, <2>2, <3>1 DEF Ring
  <2>4. 1 \in 0 .. n + 1 /\ (1 = n + 1 \/ 1 \in 1 .. n)
    BY <2>2
  <2> HIDE DEF s
  <2> QED BY <1>1, <2>2, <2>3, <2>4, YesNo
<1>4. /\ g \in Heaps
      /\ \A x \in Umm!Blocks :
              /\ g[x].next = h[x].next
              /\ g[x].free = IF x = c THEN Yes ELSE h[x].free
              /\ g[x].prev = h[x].prev
              /\ g[x].nfree = IF x = c THEN s ELSE IF x = 0 THEN c ELSE h[x].nfree
              /\ g[x].pfree = IF x = c THEN 0 ELSE IF x = s THEN c ELSE h[x].pfree
              /\ x \notin {c, s, 0} => g[x] = h[x]
  <2>1. c \in Umm!Blocks /\ s \in Umm!Blocks
    BY <1>1, <1>2, <1>3
  <2> QED BY <1>0, <1>1, <1>3, <2>1, PushFields
<1> HIDE DEF g
<1>5. \A a \in A : /\ g[a].next = h[a].next /\ g[a].prev = h[a].prev
                   /\ g[a].free = IF a = c THEN Yes ELSE h[a].free
  BY <1>2, <1>4
<1>6. Chunked(g, A)
  <2>1. \A a \in A : g[a].free \in {Yes, No} /\ (a # c => g[a].free = h[a].free)
    BY <1>0, <1>5, ChunkFacts
  <2>3. /\ A \subseteq Umm!Blocks /\ {0, 1, End} \subseteq A
        /\ g[0].free = No /\ g[End].free = No /\ g[End].next = 0
    BY <1>0, <1>1, <1>2, <1>5, <2>1 DEF Chunked
  <2>4. \A a \in A \ {End} : g[a].next \in A /\ a < g[a].next /\ g[g[a].next].prev = a
    BY <1>0, <1>5 DEF Chunked
  <2>5. \A a \in A \ {0} : g[a].prev \in A /\ g[a].prev < a /\ g[g[a].prev].next = a
    BY <1>0, <1>5 DEF Chunked
  <2>6. \A a \in A \ {End}, x \in A : x <= a \/ g[a].next <= x
    BY <1>0, <1>5 DEF Chunked
  <2> QED BY <2>1, <2>3, <2>4, <2>5, <2>6 DEF Chunked
<1>7. \E m, e : Ring(g, A, m, e)
  <2>1. PICK n, f : Ring(h, A, n, f)
    BY DEF InOrder
  <2>2. \A x \in A :
           /\ g[x].free = IF x = c THEN Yes ELSE h[x].free
           /\ g[x].nfree = IF x = c THEN h[0].nfree ELSE IF x = 0 THEN c ELSE h[x].nfree
           /\ g[x].pfree = IF x = c THEN 0 ELSE IF x = h[0].nfree THEN c ELSE h[x].pfree
    BY <1>2, <1>4
  <2> QED BY <1>1, <1>2, <2>1, <2>2, RingPush
<1> HIDE DEF s
<1>8. Held(g, A) = Held(h, A) \ {c}
  BY <1>5, YesNo DEF Held
<1>9. ASSUME NEW a \in Held(h, A) \ {c} PROVE SameChunk(h, g, a)
  <2>1. a \in A \ {End} /\ a \in Umm!Blocks /\ a # s /\ a # 0 /\ a # c
    BY <1>2, <1>3, YesNo DEF Held
  <2>2. g[a].next = h[a].next /\ g[a].nfree = h[a].nfree /\ g[a].pfree = h[a].pfree
    BY <1>4, <2>1
  <2>3. \A x \in Umm!Blocks \ A : g[x] = h[x]
    BY <1>1, <1>2, <1>3, <1>4
  <2> QED BY <1>0, <2>1, <2>2, <2>3, ChunkStays
<1> QED BY <1>4, <1>5, <1>6, <1>7, <1>8, <1>9 DEF InOrder, g

(* A chunk is freed.                                                       *)
LEMMA FreeHeap ==
  ASSUME NEW h, NEW A, InOrder(h, A), Merged(h, A), NEW c \in Held(h, A)
  PROVE  LET g == Umm!UmmFree(h, c) IN
         \E B : /\ InOrder(g, B) /\ Merged(g, B) /\ Held(g, B) = Held(h, A) \ {c}
                /\ \A a \in Held(h, A) \ {c} : SameChunk(h, g, a)
<1> DEFINE u == Umm!AssimilateUp(h, c)
           g == Umm!UmmFree(h, c)
           n == h[c].next
<1>0. Chunked(h, A) /\ c \in A /\ c # 0 /\ c # End
  BY DEF InOrder, Held
<1>1. \E U : /\ InOrder(u, U) /\ Merged(u, U) /\ Held(u, U) = Held(h, A)
             /\ u[u[c].next].free = No
             /\ \A a \in Held(h, A) \ {c} : SameChunk(h, u, a)
  <2>1. n \in A /\ h[n].free \in {Yes, No}
    BY <1>0, ChunkFacts
  <2>2. CASE h[n].free = Yes
    <3>1. /\ InOrder(u, A \ {n}) /\ Held(u, A \ {n}) = Held(h, A)
          /\ \A a \in Held(h, A) \ {c} : SameChunk(h, u, a)
          /\ Merged(u, A \ {n}) /\ u[u[c].next].free = No
      BY <2>2, UpHeap
    <3> QED BY <3>1
  <2>3. CASE h[n].free = No
    <3>1. u = h
      BY <2>3 DEF Umm!AssimilateUp, No
    <3>2. \A a : SameChunk(h, h, a)
      BY DEF SameChunk
    <3> QED BY <2>3, <3>1, <3>2
  <2> QED BY <2>1, <2>2, <2>3
<1> HIDE DEF u
<1>2. PICK U : /\ InOrder(u, U) /\ Merged(u, U) /\ Held(u, U) = Held(h, A)
               /\ u[u[c].next].free = No
               /\ \A a \in Held(h, A) \ {c} : SameChunk(h, u, a)
  BY <1>1
<1> DEFINE p == u[c].prev
<1>3. /\ Chunked(u, U) /\ c \in Held(u, U) /\ c \in U /\ c # 0 /\ c # End /\ u[c].free = No
      /\ p \in U \ {End} /\ u[p].free \in {Yes, No} /\ u[p].next = c /\ (p = 0 => u[p].free = No)
      /\ u[c].next \in U /\ u[c].next # c
  <2>1. Chunked(u, U) /\ c \in Held(u, U) /\ c \in U /\ c # 0 /\ c # End /\ u[c].free = No
    BY <1>2 DEF InOrder, Held
  <2>2. /\ p \in U \ {End} /\ u[p].free \in {Yes, No} /\ u[p].next = c /\ (p = 0 => u[p].free = No)
        /\ u[c].next \in U /\ c < u[c].next /\ c \in 0 .. End
    BY <2>1, ChunkFacts
  <2> QED BY <2>1, <2>2, HeapFacts
<1>4. \A a \in U \ {End} : u[a].next \in U /\ (u[a].next = c => a = p)
  BY <1>3, ChunkFacts
<1>5. CASE u[p].free = Yes
  <2> DEFINE B == U \ {c}
  <2>1. g = Umm!AssimilateDown(u, c, u[p].free)
    BY <1>5 DEF Umm!UmmFree, Yes, u
  <2>2. p # 0 /\ p # c
    BY <1>3, <1>5, YesNo
  <2> HIDE DEF g
  <2>3. /\ InOrder(g, B) /\ Held(g, B) = Held(u, U) \ {c} /\ g[p].next = u[c].next
        /\ \A a \in B : g[a].free = u[a].free /\ (a # p => g[a].next = u[a].next)
        /\ \A a \in Held(u, U) \ {c, p} : SameChunk(u, g, a)
    <3>1. Lowers(u, Umm!AssimilateDown(u, c, u[p].free), U, c)
      BY <1>2, <1>3, <2>2, DownHeap
    <3> QED BY <2>1, <3>1 DEF Lowers
  <2>4. p \notin Held(h, A)
    BY <1>2, <1>5, YesNo DEF Held
  <2>5. \A a \in Held(h, A) \ {c} : SameChunk(h, g, a)
    BY <1>2, <2>3, <2>4, SameTwice
  <2>6. Merged(g, B)
    <3> SUFFICES ASSUME NEW a \in B \ {End} PROVE g[a].free = No \/ g[g[a].next].free = No
      BY DEF Merged
    <3>1. CASE a = p
      BY <1>2, <1>3, <2>3, <3>1
    <3>2. CASE a # p
      <4>1. g[a].next = u[a].next /\ u[a].next \in B /\ g[a].free = u[a].free
        BY <1>4, <2>3, <3>2
      <4>2. u[a].free = No \/ u[u[a].next].free = No
        BY <1>2 DEF Merged
      <4> QED BY <2>3, <4>1, <4>2
    <3> QED BY <3>1, <3>2
  <2> QED BY <1>2, <2>3, <2>5, <2>6 DEF g
<1>6. CASE u[p].free = No
  <2>1. g = AtHead(u, c)
    BY <1>6 DEF Umm!UmmFree, No, u, AtHead
  <2> HIDE DEF g
  <2>2. /\ InOrder(g, U) /\ Held(g, U) = Held(u, U) \ {c}
        /\ \A a \in Held(u, U) \ {c} : SameChunk(u, g, a)
        /\ \A a \in U : /\ g[a].next = u[a].next /\ g[a].prev = u[a].prev
                        /\ g[a].free = IF a = c THEN Yes ELSE u[a].free
    BY <1>2, <1>3, <2>1, PushHeap
  <2>3. \A a \in Held(h, A) \ {c} : SameChunk(h, g, a)
    BY <1>2, <2>2, SameTwice
  <2>4. Merged(g, U)
    <3> SUFFICES ASSUME NEW a \in U \ {End} PROVE g[a].free = No \/ g[g[a].next].free = No
      BY DEF Merged
    <3>1. CASE a = c
      BY <1>2, <1>3, <2>2, <3>1
    <3>2. CASE a # c
      <4>1. g[a].next = u[a].next /\ u[a].next \in U /\ g[a].free = u[a].free
        BY <1>4, <2>2, <3>2
      <4>2. u[a].free = No \/ u[u[a].next].free = No
        BY <1>2 DEF Merged
      <4>3. u[a].next = c => u[a].free = No
        BY <1>4, <1>6
      <4> QED BY <2>2, <4>1, <4>2, <4>3
    <3> QED BY <3>1, <3>2
  <2> QED BY <1>2, <2>2, <2>3, <2>4 DEF g
<1> QED BY <1>3, <1>5, <1>6

LEMMA AlongIsWalk ==
  ASSUME NEW g
  PROVE  Umm!Along(g) = WalkFrom(g[0], g, 0)[NumBlocks]
BY Zenon DEF Umm!Along, WalkFrom

(* A list of different blocks is found along its links.                    *)
LEMMA AlongBlocks ==
  ASSUME NEW l \in Seq(1 .. End), Distinct(l), NEW g, LinkedTo(l, g, 0), g[0] = FirstOf(l, 0)
  PROVE  Umm!Along(g) = l
<1>1. Len(l) \in Nat /\ Len(l) <= End
  <2>1. IsFiniteSet(1 .. End) /\ Cardinality(1 .. End) = End
    BY HeapFacts, FS_Interval
  <2> QED BY <2>1, CountOf, LenProperties
<1>2. Len(l) <= NumBlocks /\ NumBlocks \in Nat /\ 0 \notin 1 .. End
  BY <1>1, HeapFacts
<1>3. WalkFrom(FirstOf(l, 0), g, 0)[NumBlocks] = l
  BY <1>2, WalkFinds
<1> QED BY <1>3, AlongIsWalk

(* The free list is the ring, from block 0 on.                             *)
LEMMA FreeListIs ==
  ASSUME NEW h, NEW A, Chunked(h, A), NEW n, NEW f, Ring(h, A, n, f)
  PROVE  LET l == Umm!FreeList(h) IN
         /\ l \in Seq(1 .. End) /\ Len(l) = n /\ n \in Nat
         /\ \A i \in 1 .. n : l[i] = f[i] /\ l[i] \in A /\ l[i] # 0 /\ h[l[i]].free = Yes
<1> DEFINE l == [i \in 1 .. n |-> f[i]]
           g == [b \in Umm!Blocks |-> h[b].nfree]
<1>1. /\ n \in Nat /\ f \in [0 .. n + 1 -> A] /\ f[0] = 0 /\ f[n + 1] = 0
      /\ \A i \in 1 .. n : f[i] # 0 /\ h[f[i]].free = Yes
      /\ \A i, j \in 1 .. n : f[i] = f[j] => i = j
      /\ \A i \in 0 .. n : h[f[i]].nfree = f[i + 1]
  BY DEF Ring
<1>2. A \subseteq 0 .. End /\ A \subseteq Umm!Blocks /\ 0 \in A /\ End \in Nat
  BY ChunkFacts, HeapFacts
<1>3. \A i \in 1 .. n : f[i] \in A /\ f[i] \in 1 .. End
  <2> TAKE i \in 1 .. n
  <2>1. i \in 0 .. n + 1
    BY <1>1
  <2>2. f[i] \in A /\ f[i] # 0
    BY <1>1, <2>1
  <2>3. \A x \in 0 .. End : x # 0 => x \in 1 .. End
    BY <1>2
  <2> QED BY <1>2, <2>2, <2>3
<1>4. l \in Seq(1 .. End) /\ Len(l) = n /\ \A i \in 1 .. n : l[i] = f[i]
  BY <1>1, <1>3, IsASeq
<1> HIDE DEF l
<1>5. Distinct(l)
  BY <1>1, <1>4 DEF Distinct
<1>6. LinkedTo(l, g, 0)
  <2> SUFFICES ASSUME NEW k \in 1 .. n PROVE g[l[k]] = IF k = n THEN 0 ELSE l[k + 1]
    BY <1>4 DEF LinkedTo
  <2>1. k \in 0 .. n /\ (k # n => k + 1 \in 1 .. n)
    BY <1>1
  <2>2. g[f[k]] = f[k + 1]
    BY <1>1, <1>2, <1>3, <2>1
  <2> HIDE DEF g
  <2> QED BY <1>1, <1>4, <2>1, <2>2
<1>7. g[0] = FirstOf(l, 0)
  <2>1. 0 \in 0 .. n /\ 0 + 1 = 1
    BY <1>1
  <2>2. g[0] = f[1]
    BY <1>1, <1>2, <2>1
  <2>3. l = << >> <=> n = 0
    BY <1>4, EmptySeq
  <2>4. n # 0 => 1 \in 1 .. n
    BY <1>1
  <2> HIDE DEF g
  <2> QED BY <1>1, <1>4, <2>2, <2>3, <2>4 DEF FirstOf
<1>8. Umm!FreeList(h) = l
  BY <1>4, <1>5, <1>6, <1>7, AlongBlocks DEF Umm!FreeList
<1> QED BY <1>1, <1>3, <1>4, <1>8

(* A set of numbers has a least one.                                       *)
LEMMA LeastNat ==
  ASSUME NEW S, S # {}, S \subseteq Nat
  PROVE  \E x \in S : \A y \in S : ~(y < x)
<1> DEFINE Less == OpToRel(<, Nat)
<1>1. IsWellFoundedOn(Less, Nat)
  BY NatLessThanWellFounded
<1>2. PICK x \in S : \A y \in S : <<y, x>> \notin Less
  BY <1>1, WFMin
<1> QED BY <1>2 DEF OpToRel

(* Best fit: a free chunk that is large enough, if there is one.           *)
LEMMA BestFitIs ==
  ASSUME NEW h, NEW A, InOrder(h, A), NEW n \in Nat
  PROVE  LET c == Umm!BestFit(h, n) IN
         \/ c = 0 /\ \A a \in A : h[a].free = Yes => ~(Umm!SizeOf(h, a) >= n)
         \/ c # 0 /\ c \in A /\ h[c].free = Yes /\ Umm!SizeOf(h, c) >= n
<1>0. Chunked(h, A) /\ h \in Heaps
  BY DEF InOrder
<1>1. PICK m, f : Ring(h, A, m, f)
  BY DEF InOrder
<1> DEFINE l == Umm!FreeList(h)
           fits == {i \in 1 .. Len(l) : Umm!SizeOf(h, l[i]) >= n}
           best == {i \in fits : \A j \in fits :
                      \/ Umm!SizeOf(h, l[i]) < Umm!SizeOf(h, l[j])
                      \/ Umm!SizeOf(h, l[i]) = Umm!SizeOf(h, l[j]) /\ i <= j}
<1>2. /\ Len(l) = m /\ m \in Nat
      /\ \A i \in 1 .. m : l[i] = f[i] /\ l[i] \in A /\ l[i] # 0 /\ h[l[i]].free = Yes
  BY <1>0, <1>1, FreeListIs
<1>3. \A a \in A : h[a].free = Yes => \E i \in 1 .. m : f[i] = a
  BY <1>1 DEF Ring
<1>4. Umm!BestFit(h, n) = IF fits = {} THEN 0 ELSE l[CHOOSE i \in best : TRUE]
  BY DEF Umm!BestFit
<1> HIDE DEF l
<1>5. \A i \in 1 .. m : Umm!SizeOf(h, l[i]) \in Nat
  <2> TAKE i \in 1 .. m
  <2>1. l[i] \in A \ {0, End}
    BY <1>0, <1>2, ChunkFacts, YesNo
  <2>2. h[l[i]].next \in A /\ l[i] < h[l[i]].next /\ A \subseteq 0 .. End
    BY <1>0, <2>1, ChunkFacts
  <2>3. h[l[i]].next \in 0 .. End /\ l[i] \in 0 .. End
    BY <2>1, <2>2
  <2> QED BY <2>2, <2>3, HeapFacts DEF Umm!SizeOf
<1>6. CASE fits = {}
  <2>1. ASSUME NEW a \in A, h[a].free = Yes PROVE ~(Umm!SizeOf(h, a) >= n)
    <3>1. PICK i \in 1 .. m : l[i] = a
      BY <1>2, <1>3, <2>1
    <3> QED BY <1>2, <1>6, <3>1
  <2> QED BY <1>4, <1>6, <2>1
<1>7. CASE fits # {}
  <2> DEFINE T(s) == \E i \in fits : Umm!SizeOf(h, l[i]) = s
             Sz == {s \in Nat : T(s)}
  <2>1. fits \subseteq 1 .. m
    BY <1>2
  <2> HIDE DEF fits
  <2>2. Sz # {} /\ Sz \subseteq Nat
    BY <1>5, <1>7, <2>1
  <2>3. PICK s \in Sz : \A t \in Sz : ~(t < s)
    <3> HIDE DEF Sz
    <3> QED BY <2>2, LeastNat
  <2> DEFINE I == {i \in fits : Umm!SizeOf(h, l[i]) = s}
  <2>4. I # {} /\ I \subseteq Nat /\ I \subseteq fits
    <3>1. T(s)
      OBVIOUS
    <3>2. PICK i \in fits : Umm!SizeOf(h, l[i]) = s
      BY <3>1
    <3>3. fits \subseteq Nat
      BY <1>2, <2>1
    <3> QED BY <3>2, <3>3
  <2>5. PICK i \in I : \A j \in I : ~(j < i)
    <3> HIDE DEF I
    <3> QED BY <2>4, LeastNat
  <2>6. i \in best
    <3> SUFFICES ASSUME NEW j \in fits
                 PROVE  \/ Umm!SizeOf(h, l[i]) < Umm!SizeOf(h, l[j])
                        \/ Umm!SizeOf(h, l[i]) = Umm!SizeOf(h, l[j]) /\ i <= j
      BY <2>5
    <3>1. Umm!SizeOf(h, l[i]) = s /\ s \in Nat /\ Umm!SizeOf(h, l[j]) \in Nat /\ i \in Nat /\ j \in Nat
      BY <1>2, <1>5, <2>1, <2>3, <2>5
    <3>2. ~(Umm!SizeOf(h, l[j]) < s)
      BY <2>3, <3>1
    <3>3. Umm!SizeOf(h, l[j]) = s => ~(j < i)
      BY <2>5
    <3> QED BY <3>1, <3>2, <3>3
  <2> DEFINE k == CHOOSE i_1 \in best : TRUE
  <2>7. k \in best
    <3> HIDE DEF best
    <3> QED BY <2>6
  <2>8. k \in 1 .. m /\ Umm!SizeOf(h, l[k]) >= n
    BY <2>1, <2>7 DEF fits
  <2>9. Umm!BestFit(h, n) = l[k]
    BY <1>4, <1>7
  <2> HIDE DEF k
  <2> QED BY <1>2, <2>8, <2>9
<1> QED BY <1>6, <1>7

(* Only the data of the chunk at p is written.                             *)
Writes(h, g, A, p) ==
  /\ g \in Heaps
  /\ \A x \in A : g[x].next = h[x].next /\ g[x].free = h[x].free /\ g[x].prev = h[x].prev
  /\ \A x \in Umm!Blocks : x # p /\ ~(p < x /\ x < h[p].next) => g[x] = h[x]

(* All else is as it was. *)
Overwritten(h, g, A, p) ==
  /\ InOrder(g, A) /\ Held(g, A) = Held(h, A) /\ g[p].next = h[p].next
  /\ \A a \in Held(h, A) \ {p} : SameChunk(h, g, a)
  /\ Merged(h, A) => Merged(g, A)

LEMMA WriteHeap ==
  ASSUME NEW h, NEW A, InOrder(h, A), NEW p \in Held(h, A), NEW g, Writes(h, g, A, p)
  PROVE  Overwritten(h, g, A, p)
<1>0. Chunked(h, A) /\ p \in A /\ p # 0 /\ p # End /\ h[p].free = No
  BY DEF InOrder, Held
<1>1. g \in Heaps /\ \A x \in A : g[x].next = h[x].next /\ g[x].free = h[x].free /\ g[x].prev = h[x].prev
  BY DEF Writes
<1>2. A \subseteq Umm!Blocks /\ A \subseteq 0 .. End /\ 0 \in A
  BY <1>0, ChunkFacts
<1>3. \A x \in A \ {p} : g[x] = h[x]
  <2> TAKE x \in A \ {p}
  <2>1. ~(p < x /\ x < h[p].next)
    BY <1>0, <1>2, Inside
  <2> QED BY <1>2, <2>1 DEF Writes
<1>4. Chunked(g, A)
  <2>3. /\ A \subseteq Umm!Blocks /\ {0, 1, End} \subseteq A /\ \A a \in A : g[a].free \in {Yes, No}
        /\ g[0].free = No /\ g[End].free = No /\ g[End].next = 0
    BY <1>0, <1>1 DEF Chunked
  <2>4. \A a \in A \ {End} : g[a].next \in A /\ a < g[a].next /\ g[g[a].next].prev = a
    BY <1>0, <1>1 DEF Chunked
  <2>5. \A a \in A \ {0} : g[a].prev \in A /\ g[a].prev < a /\ g[g[a].prev].next = a
    BY <1>0, <1>1 DEF Chunked
  <2>6. \A a \in A \ {End}, x \in A : x <= a \/ g[a].next <= x
    BY <1>0, <1>1 DEF Chunked
  <2> QED BY <2>3, <2>4, <2>5, <2>6 DEF Chunked
<1>5. \E n, f : Ring(g, A, n, f)
  <2>1. PICK n, f : Ring(h, A, n, f)
    BY DEF InOrder
  <2>2. \A a \in A : h[a].free = Yes \/ a = 0 => g[a].nfree = h[a].nfree /\ g[a].pfree = h[a].pfree
    BY <1>0, <1>3, YesNo
  <2>3. SameRing(h, g, A, A)
    BY <1>1, <1>2, <2>2 DEF SameRing
  <2> QED BY <2>1, <2>3, RingSame
<1>6. Held(g, A) = Held(h, A)
  BY <1>1 DEF Held
<1>7. ASSUME NEW a \in Held(h, A) \ {p} PROVE SameChunk(h, g, a)
  <2>1. a \in A \ {End} /\ a # p
    BY DEF Held
  <2>2. ASSUME NEW x \in Umm!Blocks, a < x, x < h[a].next PROVE g[x] = h[x]
    <3>1. (p <= a \/ h[a].next <= p) /\ (a <= p \/ h[p].next <= a)
      BY <1>0, <2>1 DEF Chunked
    <3>2. h[a].next \in 0 .. End /\ h[p].next \in 0 .. End /\ a \in 0 .. End /\ p \in 0 .. End /\ x \in 0 .. End
      BY <1>0, <1>2, <2>1, ChunkFacts, HeapFacts
    <3> DEFINE far == h[p].next
               end == h[a].next
    <3>3. x # p /\ ~(p < x /\ x < far)
      <4>1. (p <= a \/ end <= p) /\ (a <= p \/ far <= a) /\ a < x /\ x < end /\ a # p
        BY <2>1, <2>2, <3>1
      <4>2. far \in 0 .. End /\ end \in 0 .. End
        BY <3>2
      <4> HIDE DEF far, end
      <4> QED BY <3>2, <4>1, <4>2, HeapFacts
    <3> QED BY <3>3 DEF Writes
  <2>3. g[a] = h[a]
    BY <1>3, <2>1
  <2> QED BY <2>2, <2>3 DEF SameChunk
<1>8. Merged(h, A) => Merged(g, A)
  <2>1. \A a \in A \ {End} : h[a].next \in A
    BY <1>0, ChunkFacts
  <2> QED BY <1>1, <2>1 DEF Merged
<1>9. InOrder(g, A)
  BY <1>1, <1>4, <1>5 DEF InOrder
<1> QED BY <1>0, <1>1, <1>6, <1>7, <1>8, <1>9 DEF Overwritten

(* The data of a chunk moves to another one, or down in the same one.      *)
LEMMA MoveHeap ==
  ASSUME NEW h, NEW A, InOrder(h, A), NEW p \in Held(h, A), NEW c \in Umm!Blocks,
         NEW size \in Nat \ {0}, p + size <= h[p].next, c + size <= NumBlocks
  PROVE  LET g == Umm!MoveData(h, c, p, size) IN
         /\ Writes(h, g, A, p)
         /\ g[p].nfree = h[c].nfree /\ g[p].pfree = h[c].pfree
         /\ \A x \in 1 .. size - 1 : g[p + x] = h[c + x]
<1> DEFINE g == Umm!MoveData(h, c, p, size)
           far == h[p].next
<1>0. h \in Heaps /\ Chunked(h, A) /\ p \in A /\ p # 0 /\ p # End
  BY DEF InOrder, Held
<1>1. /\ A \subseteq Umm!Blocks /\ A \subseteq 0 .. End /\ p \in 0 .. End /\ far \in 0 .. End
      /\ End \in Nat /\ NumBlocks = End + 1 /\ Umm!Blocks = 0 .. End /\ c \in 0 .. End
  BY <1>0, ChunkFacts, HeapFacts
<1>2. g = [b \in Umm!Blocks |->
        IF b = p THEN [h[b] EXCEPT !.nfree = h[c].nfree, !.pfree = h[c].pfree]
        ELSE IF b \in p + 1 .. p + size - 1 THEN h[b - p + c]
        ELSE h[b]]
  BY DEF Umm!MoveData
<1> HIDE DEF g, far
<1>3. \A b \in Umm!Blocks : h[b] \in Cells
  BY <1>0 DEF Heaps
<1>4. ASSUME NEW b \in p + 1 .. p + size - 1
      PROVE  b \in Umm!Blocks /\ b - p + c \in Umm!Blocks /\ p < b /\ b < far /\ g[b] = h[b - p + c]
  <2>1. b \in 0 .. End /\ b - p + c \in 0 .. End /\ p < b /\ b < far
    BY <1>1 DEF far
  <2>2. b # p /\ b \in Umm!Blocks
    BY <1>1, <2>1
  <2>3. g[b] = h[b - p + c]
    BY <1>2, <2>2
  <2> QED BY <1>1, <2>1, <2>2, <2>3
<1>5. /\ g[p] \in Cells
      /\ g[p].next = h[p].next /\ g[p].free = h[p].free /\ g[p].prev = h[p].prev
      /\ g[p].nfree = h[c].nfree /\ g[p].pfree = h[c].pfree
  <2>1. g[p] = [h[p] EXCEPT !.nfree = h[c].nfree, !.pfree = h[c].pfree]
    BY <1>1, <1>2
  <2>2. h[p] \in Cells /\ h[c] \in Cells
    BY <1>1, <1>3
  <2> QED BY <2>1, <2>2 DEF Cells
<1>6. \A b \in Umm!Blocks : b # p /\ b \notin p + 1 .. p + size - 1 => g[b] = h[b]
  BY <1>2
<1>7. g \in Heaps
  <2>1. \A b \in Umm!Blocks : g[b] \in Cells
    BY <1>3, <1>4, <1>5, <1>6
  <2>2. g = [b \in Umm!Blocks |-> g[b]]
    BY <1>2
  <2> QED BY <2>1, <2>2 DEF Heaps
<1>8. \A x \in A : g[x].next = h[x].next /\ g[x].free = h[x].free /\ g[x].prev = h[x].prev
  <2> TAKE x \in A
  <2>1. x \notin p + 1 .. p + size - 1
    BY <1>0, <1>4, Inside DEF far
  <2> QED BY <1>1, <1>5, <1>6, <2>1
<1>9. \A x \in Umm!Blocks : x # p /\ ~(p < x /\ x < h[p].next) => g[x] = h[x]
  BY <1>4, <1>6 DEF far
<1>10. \A x \in 1 .. size - 1 : g[p + x] = h[c + x]
  <2> TAKE x \in 1 .. size - 1
  <2>1. p + x \in p + 1 .. p + size - 1 /\ (p + x) - p + c = c + x
    BY <1>1
  <2> QED BY <1>4, <2>1
<1> QED BY <1>5, <1>7, <1>8, <1>9, <1>10 DEF Writes, g

(* A chunk of n blocks is taken from the free ones, or none is large enough. *)
Malloced(h, A, n, c, g) ==
  \/ /\ c = 0 /\ g = h
     /\ \A a \in A : h[a].free = Yes => ~(Umm!SizeOf(h, a) >= n)
  \/ /\ c # 0 /\ c \in A /\ h[c].free = Yes
     /\ \E B : /\ InOrder(g, B) /\ Merged(g, B) /\ Held(g, B) = Held(h, A) \cup {c}
               /\ g[c].next = c + n
               /\ \A a \in Held(h, A) : SameChunk(h, g, a)

LEMMA MallocHeap ==
  ASSUME NEW h, NEW A, InOrder(h, A), Merged(h, A), NEW n \in Nat \ {0}
  PROVE  LET m == Umm!UmmMalloc(h, n) IN Malloced(h, A, n, m.at, m.heap)
<1> DEFINE c == Umm!BestFit(h, n)
           m == Umm!UmmMalloc(h, n)
           g == m.heap
<1>0. Chunked(h, A)
  BY DEF InOrder
<1>1. /\ m.at = c
      /\ g = IF c = 0 THEN h
             ELSE IF Umm!SizeOf(h, c) = n THEN Umm!Disconnect(h, c)
             ELSE Umm!MoveFree(Umm!SplitBlock(h, c, n, Yes), c, c + n)
  BY DEF Umm!UmmMalloc, Yes
<1>2. \/ c = 0 /\ \A a \in A : h[a].free = Yes => ~(Umm!SizeOf(h, a) >= n)
      \/ c # 0 /\ c \in A /\ h[c].free = Yes /\ Umm!SizeOf(h, c) >= n
  BY BestFitIs
<1> SUFFICES Malloced(h, A, n, m.at, g)
  OBVIOUS
<1> HIDE DEF c, g, m
<1>3. CASE c = 0
  BY <1>1, <1>2, <1>3 DEF Malloced
<1>4. CASE c # 0
  <2>1. c \in A \ {0, End} /\ h[c].free = Yes
    BY <1>0, <1>2, <1>4, ChunkFacts, YesNo
  <2>2. h[c].next \in 0 .. End /\ c \in 0 .. End /\ Umm!SizeOf(h, c) = h[c].next - c
    BY <1>0, <2>1, ChunkFacts DEF Umm!SizeOf
  <2>3. CASE Umm!SizeOf(h, c) = n
    <3>1. g = Umm!Disconnect(h, c)
      BY <1>1, <1>4, <2>3
    <3>2. /\ InOrder(g, A) /\ Held(g, A) = Held(h, A) \cup {c}
          /\ \A a \in A : /\ g[a].next = h[a].next
                          /\ g[a].free = IF a = c THEN No ELSE h[a].free
          /\ \A a \in Held(h, A) : SameChunk(h, g, a)
      BY <2>1, <3>1, DisconnectHeap
    <3>3. g[c].next = c + n
      <4> DEFINE far == h[c].next
      <4>1. far - c = n /\ far \in 0 .. End /\ g[c].next = far
        BY <2>1, <2>2, <2>3, <3>2
      <4> HIDE DEF far
      <4> QED BY <2>2, <4>1, HeapFacts
    <3>4. Merged(g, A)
      <4> SUFFICES ASSUME NEW a \in A \ {End} PROVE g[a].free = No \/ g[g[a].next].free = No
        BY DEF Merged
      <4>1. g[a].next = h[a].next /\ h[a].next \in A
        BY <1>0, <3>2, ChunkFacts
      <4>2. h[a].free = No \/ h[h[a].next].free = No
        BY DEF Merged
      <4> QED BY <3>2, <4>1, <4>2
    <3> QED BY <1>1, <2>1, <3>2, <3>3, <3>4 DEF Malloced
  <2>4. CASE Umm!SizeOf(h, c) # n
    <3>1. g = Umm!MoveFree(Umm!SplitBlock(h, c, n, Yes), c, c + n)
      BY <1>1, <1>4, <2>4
    <3>2. c + n < h[c].next
      <4> DEFINE far == h[c].next
      <4>1. far - c # n /\ far - c >= n /\ far \in 0 .. End
        BY <1>2, <1>4, <2>2, <2>4
      <4> HIDE DEF far
      <4>2. c + n < far
        BY <2>2, <4>1, HeapFacts
      <4> QED BY <4>2 DEF far
    <3> DEFINE B == A \cup {c + n}
    <3>3. /\ InOrder(g, B) /\ Held(g, B) = Held(h, A) \cup {c} /\ g[c].next = c + n
          /\ \A a \in Held(h, A) : SameChunk(h, g, a)
          /\ Merged(g, B)
      <4>1. TakesFirst(h, g, A, c, n)
        BY <2>1, <3>1, <3>2, SplitFreeHeap
      <4> QED BY <4>1 DEF TakesFirst
    <3> HIDE DEF B
    <3> QED BY <1>1, <2>1, <3>3 DEF Malloced
  <2> QED BY <2>3, <2>4
<1> QED BY <1>3, <1>4

(* The data of size blocks, as far as there is room for them in a chunk of *)
(* n blocks.                                                               *)
SameData(h, c, g, p, n, size) ==
  /\ g[p].nfree = h[c].nfree /\ g[p].pfree = h[c].pfree
  /\ \A x \in 1 .. n - 1 : x < size => g[p + x] = h[c + x]

(* The chunk at c, with data of size blocks, is now the one at p, of n     *)
(* blocks.                                                                 *)
Resized(h, A, c, size, n, p, g) ==
  /\ p # 0 /\ p \notin Held(h, A) \ {c}
  /\ \E B : /\ InOrder(g, B) /\ Merged(g, B) /\ Held(g, B) = (Held(h, A) \ {c}) \cup {p}
            /\ g[p].next = p + n
            /\ \A a \in Held(h, A) \ {c} : SameChunk(h, g, a)
  /\ SameData(h, c, g, p, n, size)

(* What is too much of a chunk is freed.                                   *)
LEMMA TrimHeap ==
  ASSUME NEW h, NEW A, InOrder(h, A), Merged(h, A), NEW c \in Held(h, A),
         NEW n \in Nat \ {0}, Umm!SizeOf(h, c) >= n, NEW size
  PROVE  Resized(h, A, c, size, n, c, Umm!Trimmed(h, c, n))
<1> DEFINE d == c + n
           far == h[c].next
           g == Umm!Trimmed(h, c, n)
           u == Umm!SplitBlock(h, c, n, No)
<1>0. Chunked(h, A) /\ c \in A /\ c # 0 /\ c # End /\ h[c].free = No
  BY DEF InOrder, Held
<1>1. far \in 0 .. End /\ c \in 0 .. End /\ far - c >= n /\ A \subseteq Umm!Blocks
  BY <1>0, ChunkFacts DEF Umm!SizeOf
<1>2. g = IF far - c > n THEN Umm!UmmFree(u, d) ELSE h
  BY DEF Umm!Trimmed, Umm!SizeOf, No
<1>3. CASE ~(far - c > n)
  <2>1. g = h
    BY <1>2, <1>3
  <2>2. far = c + n
    <3> HIDE DEF far
    <3> QED BY <1>1, <1>3, HeapFacts
  <2>3. \A a : SameChunk(h, h, a)
    BY DEF SameChunk
  <2>4. SameData(h, c, h, c, n, size)
    BY DEF SameData
  <2>5. Held(h, A) = (Held(h, A) \ {c}) \cup {c}
    OBVIOUS
  <2>6. Resized(h, A, c, size, n, c, h)
    BY <1>0, <2>2, <2>3, <2>4, <2>5 DEF Resized
  <2> QED BY <2>1, <2>6
<1>4. CASE far - c > n
  <2>1. g = Umm!UmmFree(u, d)
    BY <1>2, <1>4
  <2>2. c + n < far
    <3> HIDE DEF far
    <3> QED BY <1>1, <1>4, HeapFacts
  <2> DEFINE U == A \cup {d}
  <2>3. /\ InOrder(u, U) /\ Held(u, U) = Held(h, A) \cup {d} /\ d \notin A
        /\ u[c].next = d /\ u[c].nfree = h[c].nfree /\ u[c].pfree = h[c].pfree
        /\ \A x \in Umm!Blocks : c < x /\ x < d => u[x] = h[x]
        /\ \A a \in Held(h, A) \ {c} : SameChunk(h, u, a)
        /\ Merged(u, U)
    <3>1. CutsOff(h, u, A, c, n)
      BY <2>2, SplitHeldHeap
    <3> QED BY <3>1 DEF CutsOff
  <2> HIDE DEF u, g, U
  <2>4. d \in Held(u, U)
    BY <2>3
  <2>5. PICK B : /\ InOrder(g, B) /\ Merged(g, B) /\ Held(g, B) = Held(u, U) \ {d}
                 /\ \A a \in Held(u, U) \ {d} : SameChunk(u, g, a)
    BY <2>1, <2>3, <2>4, FreeHeap
  <2>6. Held(g, B) = Held(h, A) /\ Held(h, A) = (Held(h, A) \ {c}) \cup {c}
    BY <2>3, <2>5 DEF Held
  <2> HIDE DEF d
  <2>7. SameChunk(u, g, c)
    BY <2>5, <2>6
  <2>8. \A a \in Held(h, A) \ {c} : SameChunk(h, g, a)
    BY <2>3, <2>5, <2>6, SameTwice
  <2>9. /\ g[c].next = d /\ g[c].nfree = h[c].nfree /\ g[c].pfree = h[c].pfree
        /\ \A x \in Umm!Blocks : c < x /\ x < d => g[x] = h[x]
    BY <2>3, <2>7 DEF SameChunk
  <2>10. ASSUME NEW x \in 1 .. n - 1 PROVE g[c + x] = h[c + x]
    <3>1. c + x \in 0 .. End /\ c < c + x /\ c + x < c + n
      <4> HIDE DEF far
      <4> QED BY <1>1, <2>2, HeapFacts
    <3> QED BY <2>9, <3>1, HeapFacts DEF d
  <2>11. SameData(h, c, g, c, n, size)
    BY <2>9, <2>10 DEF SameData
  <2> QED BY <1>0, <2>5, <2>6, <2>8, <2>9, <2>11 DEF Resized, d, g
<1> QED BY <1>3, <1>4

(* The previous chunk, which is free, takes in the one at c, whose data    *)
(* move down.                                                              *)
LowersData(h, g, A, c, p, size) ==
  /\ p # 0 /\ p \notin Held(h, A) /\ p < c
  /\ \E B : /\ InOrder(g, B) /\ Merged(g, B) /\ Held(g, B) = (Held(h, A) \ {c}) \cup {p}
            /\ g[p].next = h[c].next
            /\ \A a \in Held(h, A) \ {c} : SameChunk(h, g, a)
  /\ g[p].nfree = h[c].nfree /\ g[p].pfree = h[c].pfree
  /\ \A x \in 1 .. size - 1 : g[p + x] = h[c + x]

LEMMA LowerHeap ==
  ASSUME NEW h, NEW A, InOrder(h, A), Merged(h, A), NEW c \in Held(h, A),
         NEW p, p = h[c].prev, h[p].free = Yes,
         NEW size \in Nat \ {0}, c + size <= h[c].next
  PROVE  LowersData(h, Umm!MoveData(Umm!AssimilateDown(Umm!Disconnect(h, p), c, No), c, p, size), A, c, p, size)
<1> DEFINE u == Umm!Disconnect(h, p)
           v == Umm!AssimilateDown(u, c, No)
           g == Umm!MoveData(v, c, p, size)
           far == h[c].next
           B == A \ {c}
<1>0. Chunked(h, A) /\ c \in A /\ c # 0 /\ c # End /\ h[c].free = No
  BY DEF InOrder, Held
<1>1. /\ p \in A \ {0, End} /\ p < c /\ h[p].next = c /\ c < far /\ far \in A
      /\ p \in 0 .. End /\ c \in 0 .. End /\ far \in 0 .. End /\ A \subseteq Umm!Blocks
  <2>1. p \in A \ {End} /\ p < c /\ h[p].next = c /\ c < far /\ far \in A
    BY <1>0, ChunkFacts
  <2>2. p # 0
    BY <1>0, ChunkFacts, YesNo
  <2>3. A \subseteq 0 .. End /\ A \subseteq Umm!Blocks
    BY <1>0, ChunkFacts
  <2> QED BY <1>0, <2>1, <2>2, <2>3
<1>2. /\ InOrder(u, A) /\ Held(u, A) = Held(h, A) \cup {p}
      /\ \A a \in A : /\ u[a].next = h[a].next /\ u[a].prev = h[a].prev
                      /\ u[a].free = IF a = p THEN No ELSE h[a].free
      /\ \A a \in Held(h, A) : SameChunk(h, u, a)
      /\ \A x \in Umm!Blocks \ A : u[x] = h[x]
  BY <1>1, DisconnectHeap
<1> HIDE DEF u
<1>3. c \in Held(u, A) /\ u[c].prev = p /\ u[p].free = No /\ u[c].next = far /\ SameChunk(h, u, c)
  BY <1>0, <1>1, <1>2
<1>4. Lowers(u, v, A, c)
  <2>1. v = Umm!AssimilateDown(u, c, u[u[c].prev].free)
    BY <1>3
  <2>2. u[c].prev # 0
    BY <1>1, <1>3
  <2> HIDE DEF v
  <2> QED BY <1>2, <1>3, <2>1, <2>2, DownHeap
<1> HIDE DEF v
<1>5. /\ InOrder(v, B) /\ Held(v, B) = Held(u, A) \ {c}
      /\ v[p].next = far
      /\ \A a \in B : v[a].free = u[a].free /\ (a # p => v[a].next = u[a].next)
      /\ \A a \in Held(u, A) \ {c, p} : SameChunk(u, v, a)
      /\ v[c].nfree = u[c].nfree /\ v[c].pfree = u[c].pfree
      /\ \A x \in Umm!Blocks \ A : v[x] = u[x]
  BY <1>3, <1>4 DEF Lowers
<1>6. Merged(v, B)
  <2> SUFFICES ASSUME NEW a \in B \ {End} PROVE v[a].free = No \/ v[v[a].next].free = No
    BY DEF Merged
  <2>1. CASE a = p
    BY <1>3, <1>5, <2>1
  <2>2. CASE a # p
    <3>1. v[a].next = h[a].next /\ h[a].next \in A /\ h[h[a].next].prev = a
      BY <1>0, <1>2, <1>5, <2>2, ChunkFacts
    <3>2. h[a].next # c
      BY <2>2, <3>1
    <3>3. h[a].free = No \/ h[h[a].next].free = No
      BY DEF Merged
    <3> QED BY <1>2, <1>5, <3>1, <3>2, <3>3
  <2> QED BY <2>1, <2>2
<1>7. p \in Held(v, B) /\ p \in Umm!Blocks /\ c \in Umm!Blocks
  <2>1. p # c
    BY <1>1, HeapFacts
  <2> QED BY <1>0, <1>1, <1>2, <1>5, <2>1
<1>8. p + size <= far /\ c + size <= NumBlocks
  <2>1. c + size <= far
    OBVIOUS
  <2> HIDE DEF far
  <2> QED BY <1>1, <2>1, HeapFacts
<1>9. /\ Writes(v, g, B, p)
      /\ g[p].nfree = v[c].nfree /\ g[p].pfree = v[c].pfree
      /\ \A x \in 1 .. size - 1 : g[p + x] = v[c + x]
  BY <1>5, <1>7, <1>8, MoveHeap
<1> HIDE DEF g, B
<1>10. /\ InOrder(g, B) /\ Held(g, B) = Held(v, B) /\ g[p].next = v[p].next
       /\ \A a \in Held(v, B) \ {p} : SameChunk(v, g, a)
       /\ Merged(g, B)
  <2>1. InOrder(v, B) /\ Merged(v, B)
    BY <1>5, <1>6
  <2>2. p \in Held(v, B)
    BY <1>7
  <2>3. Writes(v, g, B, p)
    BY <1>9
  <2>4. Overwritten(v, g, B, p)
    BY <2>1, <2>2, <2>3, WriteHeap, Zenon
  <2> QED BY <2>1, <2>4 DEF Overwritten
<1>11. p \notin Held(h, A)
  BY <1>1, YesNo DEF Held
<1>12. ASSUME NEW a \in Held(h, A) \ {c} PROVE SameChunk(h, g, a)
  <2>1. a # p
    BY <1>11
  <2>2. SameChunk(h, u, a) /\ SameChunk(u, v, a) /\ SameChunk(v, g, a)
    BY <1>2, <1>5, <1>10, <2>1
  <2> QED BY <2>2, SameTwice
<1>13. ASSUME NEW x \in 1 .. size - 1 PROVE g[p + x] = h[c + x]
  <2>1. c + x \in Umm!Blocks /\ c < c + x /\ c + x < far
    <3>1. c + size <= far
      OBVIOUS
    <3> HIDE DEF far
    <3>2. c + x \in 0 .. End /\ c < c + x /\ c + x < far
      BY <1>1, <3>1, HeapFacts
    <3> QED BY <3>2, HeapFacts
  <2>2. c + x \notin A
    BY <1>0, <2>1, Inside
  <2>3. v[c + x] = h[c + x]
    BY <1>2, <1>5, <2>1, <2>2
  <2> QED BY <1>9, <2>3
<1>14. g[p].nfree = h[c].nfree /\ g[p].pfree = h[c].pfree
  BY <1>3, <1>5, <1>9 DEF SameChunk
<1>15. Held(g, B) = (Held(h, A) \ {c}) \cup {p} /\ g[p].next = far
  BY <1>1, <1>2, <1>5, <1>10
<1> QED BY <1>1, <1>10, <1>11, <1>12, <1>13, <1>14, <1>15 DEF LowersData, g, v, u

(* What a chunk is resized to after it has taken in the next one.          *)
TakesIn(h, u, A, U, c, size) ==
  /\ Held(u, U) = Held(h, A)
  /\ \A a \in Held(h, A) \ {c} : SameChunk(h, u, a)
  /\ u[c].nfree = h[c].nfree /\ u[c].pfree = h[c].pfree
  /\ \A x \in 1 .. size - 1 : u[c + x] = h[c + x]

LEMMA UpThen ==
  ASSUME NEW h, NEW A, NEW u, NEW U, NEW c, NEW size \in Nat, TakesIn(h, u, A, U, c, size),
         NEW n \in Nat, NEW p, NEW g, Resized(u, U, c, size, n, p, g)
  PROVE  Resized(h, A, c, size, n, p, g)
<1>1. /\ Held(u, U) = Held(h, A)
      /\ \A a \in Held(h, A) \ {c} : SameChunk(h, u, a)
      /\ u[c].nfree = h[c].nfree /\ u[c].pfree = h[c].pfree
      /\ \A x \in 1 .. size - 1 : u[c + x] = h[c + x]
  BY DEF TakesIn
<1>2. /\ p # 0 /\ p \notin Held(u, U) \ {c}
      /\ SameData(u, c, g, p, n, size)
  BY DEF Resized
<1>3. PICK B : /\ InOrder(g, B) /\ Merged(g, B) /\ Held(g, B) = (Held(u, U) \ {c}) \cup {p}
               /\ g[p].next = p + n
               /\ \A a \in Held(u, U) \ {c} : SameChunk(u, g, a)
  BY DEF Resized
<1>4. \A a \in Held(h, A) \ {c} : SameChunk(h, g, a)
  BY <1>1, <1>3, SameTwice
<1>5. SameData(h, c, g, p, n, size)
  <2>1. \A x \in 1 .. n - 1 : x < size => x \in 1 .. size - 1
    OBVIOUS
  <2> QED BY <1>1, <1>2, <2>1 DEF SameData
<1> QED BY <1>1, <1>2, <1>3, <1>4, <1>5 DEF Resized

(* What a chunk is resized to after the previous one has taken it in.      *)
LEMMA LowerThen ==
  ASSUME NEW h, NEW A, NEW w, NEW c, NEW p, NEW size \in Nat, LowersData(h, w, A, c, p, size),
         NEW n \in Nat \ {0}, h[c].next - p >= n
  PROVE  Resized(h, A, c, size, n, p, Umm!Trimmed(w, p, n))
<1> DEFINE g == Umm!Trimmed(w, p, n)
<1>1. /\ p # 0 /\ p \notin Held(h, A)
      /\ w[p].nfree = h[c].nfree /\ w[p].pfree = h[c].pfree
      /\ \A x \in 1 .. size - 1 : w[p + x] = h[c + x]
  BY DEF LowersData
<1>2. PICK B : /\ InOrder(w, B) /\ Merged(w, B) /\ Held(w, B) = (Held(h, A) \ {c}) \cup {p}
               /\ w[p].next = h[c].next
               /\ \A a \in Held(h, A) \ {c} : SameChunk(h, w, a)
  BY DEF LowersData
<1>3. p \in Held(w, B) /\ Umm!SizeOf(w, p) >= n
  BY <1>2 DEF Umm!SizeOf
<1>4. Resized(w, B, p, size, n, p, g)
  BY <1>2, <1>3, TrimHeap
<1> HIDE DEF g
<1>5. PICK D : /\ InOrder(g, D) /\ Merged(g, D) /\ Held(g, D) = (Held(w, B) \ {p}) \cup {p}
               /\ g[p].next = p + n
               /\ \A a \in Held(w, B) \ {p} : SameChunk(w, g, a)
  BY <1>4 DEF Resized
<1>6. Held(g, D) = (Held(h, A) \ {c}) \cup {p}
  BY <1>2, <1>5
<1>7. \A a \in Held(h, A) \ {c} : SameChunk(h, g, a)
  BY <1>1, <1>2, <1>5, SameTwice
<1>8. SameData(h, c, g, p, n, size)
  <2>1. SameData(w, p, g, p, n, size)
    BY <1>4 DEF Resized
  <2>2. \A x \in 1 .. n - 1 : x < size => x \in 1 .. size - 1
    OBVIOUS
  <2> QED BY <1>1, <2>1, <2>2 DEF SameData
<1> QED BY <1>1, <1>5, <1>6, <1>7, <1>8 DEF Resized, g

(* realloc: in place, with the next chunk, with the previous one, with     *)
(* both, or in a new one; or nowhere, and then nothing has changed.        *)
LEMMA ReallocHeap ==
  ASSUME NEW h, NEW A, InOrder(h, A), Merged(h, A), NEW c \in Held(h, A), NEW n \in Nat \ {0}
  PROVE  LET r == Umm!UmmRealloc(h, c, n)
             size == Umm!SizeOf(h, c)
             above == IF h[h[c].next].free THEN Umm!SizeOf(h, h[c].next) ELSE 0
             below == IF h[h[c].prev].free THEN c - h[c].prev ELSE 0
         IN  \/ /\ r.at = 0 /\ r.heap = h /\ ~(below + size + above >= n)
                /\ \A a \in A : h[a].free = Yes => ~(Umm!SizeOf(h, a) >= n)
             \/ Resized(h, A, c, size, n, r.at, r.heap)
<1> DEFINE size == Umm!SizeOf(h, c)
           nxt == h[c].next
           p == h[c].prev
           up == IF h[nxt].free THEN Umm!SizeOf(h, nxt) ELSE 0
           down == IF h[p].free THEN c - p ELSE 0
           u == Umm!AssimilateUp(h, c)
           Down(g) == Umm!MoveData(Umm!AssimilateDown(Umm!Disconnect(g, p), c, No), c, p, size)
           m == Umm!UmmMalloc(h, n)
           r == Umm!UmmRealloc(h, c, n)
<1> SUFFICES \/ /\ r.at = 0 /\ r.heap = h /\ ~(down + size + up >= n)
               /\ \A a \in A : h[a].free = Yes => ~(Umm!SizeOf(h, a) >= n)
             \/ Resized(h, A, c, size, n, r.at, r.heap)
  OBVIOUS
<1>0. Chunked(h, A) /\ c \in A /\ c # 0 /\ c # End /\ h[c].free = No
  BY DEF InOrder, Held
<1>1. r = IF size >= n THEN [at |-> c, heap |-> Umm!Trimmed(h, c, n)]
          ELSE IF size + up >= n THEN [at |-> c, heap |-> Umm!Trimmed(u, c, n)]
          ELSE IF down + size >= n THEN [at |-> p, heap |-> Umm!Trimmed(Down(h), p, n)]
          ELSE IF down + size + up >= n
               THEN [at |-> p, heap |-> Umm!Trimmed(Down(u), p, n)]
          ELSE IF m.at # 0
               THEN [at |-> m.at, heap |-> Umm!UmmFree(Umm!MoveData(m.heap, c, m.at, size), c)]
          ELSE [at |-> 0, heap |-> h]
  BY DEF Umm!UmmRealloc, No
<1>2. /\ nxt \in A /\ p \in A \ {End} /\ c < nxt /\ p < c /\ h[nxt].free \in {Yes, No}
      /\ h[p].free \in {Yes, No} /\ (h[nxt].free = Yes => nxt # End)
      /\ nxt \in 0 .. End /\ p \in 0 .. End /\ c \in 0 .. End /\ A \subseteq Umm!Blocks
  <2>1. /\ nxt \in A /\ p \in A \ {End} /\ c < nxt /\ p < c /\ h[End].free = No
    BY <1>0, ChunkFacts
  <2>2. /\ A \subseteq 0 .. End /\ A \subseteq Umm!Blocks /\ \A a \in A : h[a].free \in {Yes, No}
    BY <1>0, ChunkFacts
  <2> QED BY <1>0, <2>1, <2>2, YesNo
<1>3. /\ up = (IF h[nxt].free = Yes THEN Umm!SizeOf(h, nxt) ELSE 0)
      /\ down = (IF h[p].free = Yes THEN c - p ELSE 0)
  BY <1>2 DEF Yes, No
<1>4. size \in Nat \ {0} /\ size = nxt - c /\ c + size = nxt /\ down \in Nat /\ up \in Nat
  <2>1. size = nxt - c
    BY DEF Umm!SizeOf
  <2>2. h[nxt].free = Yes => Umm!SizeOf(h, nxt) \in Nat
    <3> SUFFICES ASSUME h[nxt].free = Yes PROVE Umm!SizeOf(h, nxt) \in Nat
      OBVIOUS
    <3>1. h[nxt].next \in 0 .. End /\ nxt < h[nxt].next /\ Umm!SizeOf(h, nxt) = h[nxt].next - nxt
      BY <1>0, <1>2, ChunkFacts DEF Umm!SizeOf
    <3> HIDE DEF nxt
    <3> QED BY <1>2, <3>1, HeapFacts
  <2>3. c - p \in Nat
    <3> HIDE DEF p
    <3> QED BY <1>2, HeapFacts
  <2>4. up \in Nat /\ down \in Nat
    <3> HIDE DEF up, down
    <3> QED BY <1>3, <2>2, <2>3
  <2> HIDE DEF nxt, size, up, down
  <2> QED BY <1>2, <2>1, <2>4, HeapFacts
<1>5. h[nxt].free = No => up = 0
  BY <1>3, YesNo
<1>6. h[p].free = No => down = 0
  BY <1>3, YesNo
<1> DEFINE U == A \ {nxt}
<1>7. ASSUME h[nxt].free = Yes
      PROVE  /\ InOrder(u, U) /\ Merged(u, U) /\ c \in Held(u, U)
             /\ TakesIn(h, u, A, U, c, size)
             /\ u[c].next = nxt + up /\ u[c].prev = p /\ u[p].free = h[p].free
  <2>1. /\ InOrder(u, U) /\ Held(u, U) = Held(h, A) /\ u[c].next = h[nxt].next /\ u[c].prev = p
        /\ u[c].nfree = h[c].nfree /\ u[c].pfree = h[c].pfree
        /\ \A x \in Umm!Blocks : c < x /\ x < nxt => u[x] = h[x]
        /\ \A a \in Held(h, A) \ {c} : SameChunk(h, u, a)
        /\ \A a \in U : u[a].free = h[a].free
        /\ Merged(u, U)
    BY <1>7, UpHeap
  <2>2. u[p].free = h[p].free
    <3>1. p # nxt
      <4> HIDE DEF p, nxt
      <4> QED BY <1>2, HeapFacts
    <3> QED BY <1>2, <2>1, <3>1
  <2>3. \A x \in 1 .. size - 1 : u[c + x] = h[c + x]
    <3> TAKE x \in 1 .. size - 1
    <3>1. c + x \in 0 .. End /\ c < c + x /\ c + x < nxt
      <4> HIDE DEF nxt, size
      <4> QED BY <1>2, <1>4, HeapFacts
    <3> QED BY <2>1, <3>1, HeapFacts
  <2>4. h[nxt].next = nxt + up
    <3>1. up = h[nxt].next - nxt
      BY <1>3, <1>7 DEF Umm!SizeOf
    <3>2. h[nxt].next \in 0 .. End
      BY <1>0, <1>2, <1>7, ChunkFacts
    <3> DEFINE far == h[nxt].next
    <3> HIDE DEF far, nxt, up
    <3>3. far = nxt + up
      BY <1>2, <3>1, <3>2, HeapFacts DEF far
    <3> QED BY <3>3 DEF far
  <2> HIDE DEF u, size, U, nxt, p, up
  <2> QED BY <2>1, <2>2, <2>3, <2>4 DEF TakesIn
<1> HIDE DEF up, down, u, m, r, size, U
<1>8. CASE size >= n
  BY <1>1, <1>8, TrimHeap DEF size
<1>9. CASE ~(size >= n) /\ size + up >= n
  <2>1. r.at = c /\ r.heap = Umm!Trimmed(u, c, n)
    BY <1>1, <1>9
  <2>2. h[nxt].free = Yes
    BY <1>2, <1>4, <1>5, <1>9
  <2>3. Umm!SizeOf(u, c) >= n
    <3>1. Umm!SizeOf(u, c) = (nxt + up) - c
      BY <1>7, <2>2 DEF Umm!SizeOf
    <3> HIDE DEF nxt
    <3> QED BY <1>2, <1>4, <1>9, <3>1
  <2>4. Resized(u, U, c, size, n, c, r.heap)
    BY <1>7, <2>1, <2>2, <2>3, TrimHeap
  <2>5. Resized(h, A, c, size, n, c, r.heap)
    BY <1>4, <1>7, <2>2, <2>4, UpThen
  <2> QED BY <2>1, <2>5
<1>10. CASE ~(size >= n) /\ ~(size + up >= n) /\ down + size >= n
  <2>1. r.at = p /\ r.heap = Umm!Trimmed(Down(h), p, n)
    BY <1>1, <1>10
  <2>2. h[p].free = Yes
    BY <1>2, <1>4, <1>6, <1>10
  <2>3. nxt - p >= n /\ c + size <= nxt
    <3>1. down = c - p
      BY <1>3, <2>2
    <3> HIDE DEF nxt, p
    <3> QED BY <1>2, <1>4, <1>10, <3>1
  <2>4. LowersData(h, Down(h), A, c, p, size)
    BY <1>4, <2>2, <2>3, LowerHeap
  <2> HIDE DEF Down
  <2>5. Resized(h, A, c, size, n, p, r.heap)
    BY <1>4, <2>1, <2>3, <2>4, LowerThen
  <2> QED BY <2>1, <2>5
<1>11. CASE ~(size >= n) /\ ~(size + up >= n) /\ ~(down + size >= n) /\ down + size + up >= n
  <2>1. r.at = p /\ r.heap = Umm!Trimmed(Down(u), p, n)
    BY <1>1, <1>11
  <2>2. h[p].free = Yes /\ h[nxt].free = Yes
    BY <1>2, <1>4, <1>5, <1>6, <1>11
  <2>3. u[c].next - p >= n /\ c + size <= u[c].next
    <3>1. down = c - p /\ u[c].next = nxt + up
      BY <1>3, <1>7, <2>2
    <3>2. (nxt + up) - p >= n /\ c + size <= nxt + up
      <4> HIDE DEF nxt, p
      <4> QED BY <1>2, <1>4, <1>11, <3>1
    <3> QED BY <3>1, <3>2
  <2>4. LowersData(u, Down(u), U, c, p, size)
    <3>1. /\ InOrder(u, U) /\ Merged(u, U) /\ c \in Held(u, U) /\ p = u[c].prev
          /\ u[p].free = Yes
      BY <1>7, <2>2
    <3> HIDE DEF p
    <3> QED BY <1>4, <2>3, <3>1, LowerHeap
  <2> HIDE DEF Down
  <2>5. Resized(u, U, c, size, n, p, r.heap)
    BY <1>4, <2>1, <2>3, <2>4, LowerThen
  <2>6. Resized(h, A, c, size, n, p, r.heap)
    BY <1>4, <1>7, <2>2, <2>5, UpThen
  <2> QED BY <2>1, <2>6
<1> DEFINE at == m.at
           v == m.heap
           w == Umm!MoveData(v, c, at, size)
<1>12. Malloced(h, A, n, at, v)
  BY MallocHeap DEF m
<1>13. CASE ~(down + size + up >= n) /\ at = 0
  <2>1. ~(size >= n) /\ ~(size + up >= n) /\ ~(down + size >= n)
    BY <1>4, <1>13
  <2>2. r.at = 0 /\ r.heap = h
    BY <1>1, <1>13, <2>1
  <2> QED BY <1>12, <1>13, <2>2 DEF Malloced
<1>14. CASE ~(down + size + up >= n) /\ at # 0
  <2>1. ~(size >= n) /\ ~(size + up >= n) /\ ~(down + size >= n)
    BY <1>4, <1>14
  <2> DEFINE g == Umm!UmmFree(w, c)
  <2>2. r.at = at /\ r.heap = g
    BY <1>1, <1>14, <2>1
  <2> HIDE DEF at, v
  <2>3. at \in A /\ h[at].free = Yes
    BY <1>12, <1>14 DEF Malloced
  <2>4. PICK V : /\ InOrder(v, V) /\ Merged(v, V) /\ Held(v, V) = Held(h, A) \cup {at}
                 /\ v[at].next = at + n
                 /\ \A a \in Held(h, A) : SameChunk(h, v, a)
    BY <1>12, <1>14 DEF Malloced
  <2>5. at \notin Held(h, A) /\ at # c
    BY <1>0, <2>3, YesNo DEF Held
  <2>6. /\ Writes(v, w, V, at) /\ w[at].nfree = v[c].nfree /\ w[at].pfree = v[c].pfree
        /\ \A x \in 1 .. size - 1 : w[at + x] = v[c + x]
    <3>1. at + size <= v[at].next
      <4>1. at \in 0 .. End /\ size < n
        <5>1. size < n
          BY <1>4, <2>1
        <5> QED BY <1>0, <2>3, <5>1, ChunkFacts
      <4> QED BY <1>4, <2>4, <4>1, HeapFacts
    <3>2. c + size <= NumBlocks /\ c \in Umm!Blocks
      <4> HIDE DEF nxt
      <4> QED BY <1>0, <1>2, <1>4, HeapFacts
    <3> QED BY <1>4, <2>4, <3>1, <3>2, MoveHeap
  <2> HIDE DEF w
  <2>7. /\ InOrder(w, V) /\ Held(w, V) = Held(v, V) /\ w[at].next = v[at].next
        /\ \A a \in Held(v, V) \ {at} : SameChunk(v, w, a)
        /\ Merged(w, V)
    <3>1. InOrder(v, V) /\ Merged(v, V)
      BY <2>4
    <3>2. at \in Held(v, V)
      BY <2>4
    <3>3. Writes(v, w, V, at)
      BY <2>6
    <3>4. Overwritten(v, w, V, at)
      BY <3>1, <3>2, <3>3, WriteHeap, Zenon
    <3> QED BY <3>1, <3>4 DEF Overwritten
  <2>8. PICK B : /\ InOrder(g, B) /\ Merged(g, B) /\ Held(g, B) = Held(w, V) \ {c}
                 /\ \A a \in Held(w, V) \ {c} : SameChunk(w, g, a)
    <3>1. c \in Held(w, V)
      BY <2>4, <2>7
    <3> QED BY <2>7, <3>1, FreeHeap
  <2> HIDE DEF g
  <2>9. Held(g, B) = (Held(h, A) \ {c}) \cup {at}
    BY <2>4, <2>5, <2>7, <2>8
  <2>10. ASSUME NEW a \in Held(h, A) \ {c} PROVE SameChunk(h, g, a)
    <3>1. a # at
      BY <2>5
    <3>2. SameChunk(h, v, a) /\ SameChunk(v, w, a) /\ SameChunk(w, g, a)
      BY <2>4, <2>7, <2>8, <3>1
    <3> QED BY <3>2, SameTwice
  <2>11. SameChunk(w, g, at)
    BY <2>4, <2>5, <2>7, <2>8
  <2>12. g[at].next = at + n
    BY <2>4, <2>7, <2>11 DEF SameChunk
  <2>13. SameData(h, c, g, at, n, size)
    <3>1. g[at].nfree = h[c].nfree /\ g[at].pfree = h[c].pfree
      <4>1. SameChunk(h, v, c)
        BY <2>4
      <4> QED BY <2>6, <2>11, <4>1 DEF SameChunk
    <3>2. ASSUME NEW x \in 1 .. n - 1, x < size PROVE g[at + x] = h[c + x]
      <4>1. x \in 1 .. size - 1 /\ at \in 0 .. End /\ w[at].next \in 0 .. End
        <5>1. x \in 1 .. size - 1
          BY <1>4, <3>2
        <5>2. Chunked(w, V) /\ at \in V \ {End}
          BY <2>4, <2>7 DEF InOrder, Held
        <5> QED BY <5>1, <5>2, ChunkFacts
      <4>2. c + x \in Umm!Blocks /\ c < c + x /\ c + x < nxt
        <5> HIDE DEF nxt
        <5> QED BY <1>2, <1>4, <4>1, HeapFacts
      <4>3. v[c + x] = h[c + x]
        <5>1. SameChunk(h, v, c)
          BY <2>4
        <5> QED BY <4>2, <5>1 DEF SameChunk
      <4>4. at + x \in Umm!Blocks /\ at < at + x /\ at + x < w[at].next
        <5>1. w[at].next = at + n
          BY <2>4, <2>7
        <5>2. at + n \in 0 .. End
          BY <4>1, <5>1
        <5> QED BY <4>1, <5>1, <5>2, HeapFacts
      <4>5. g[at + x] = w[at + x]
        BY <2>11, <4>4 DEF SameChunk
      <4> QED BY <2>6, <4>1, <4>3, <4>5
    <3> QED BY <3>1, <3>2 DEF SameData
  <2>14. Resized(h, A, c, size, n, at, g)
    BY <1>14, <2>5, <2>8, <2>9, <2>10, <2>12, <2>13 DEF Resized
  <2> QED BY <2>2, <2>14 DEF g
<1> QED BY <1>8, <1>9, <1>10, <1>11, <1>13, <1>14

(* Every block is in a chunk: nothing leaks.                               *)
LEMMA Cover ==
  ASSUME NEW h, NEW A, Chunked(h, A), NEW x \in 0 .. End - 1
  PROVE  \E a \in A \ {End} : a <= x /\ x < h[a].next
<1> DEFINE N == End - 1
           S == {y \in 0 .. N : \E a \in A \ {End} : a <= y /\ y < h[a].next}
<1>1. End \in Nat /\ 0 # End /\ N \in Nat /\ A \subseteq 0 .. End
  BY ChunkFacts, HeapFacts
<1>2. 0 \in S
  <2>1. 0 \in A \ {End} /\ h[0].next = 1
    BY <1>1, ChunkFacts
  <2>2. 0 <= 0 /\ 0 < h[0].next /\ 0 \in 0 .. N
    BY <1>1, <2>1
  <2> QED BY <2>1, <2>2
<1>3. ASSUME NEW y \in 1 .. N, y - 1 \in S PROVE y \in S
  <2>1. PICK a \in A \ {End} : a <= y - 1 /\ y - 1 < h[a].next
    BY <1>3
  <2> DEFINE b == h[a].next
  <2>2. b \in A /\ b \in 0 .. End /\ a \in 0 .. End
    BY <1>1, <2>1, ChunkFacts
  <2>3. CASE y < b
    <3>1. a <= y /\ y \in 0 .. N
      BY <1>1, <2>1, <2>2
    <3> QED BY <2>3, <3>1
  <2>4. CASE ~(y < b)
    <3>1. b = y /\ b # End /\ y \in 0 .. N
      <4> HIDE DEF b
      <4>1. y - 1 < b
        BY <2>1 DEF b
      <4> QED BY <1>1, <2>2, <2>4, <4>1
    <3>2. b < h[b].next /\ b <= y
      <4>1. b < h[b].next
        BY <2>2, <3>1, ChunkFacts
      <4> HIDE DEF b
      <4> QED BY <1>1, <3>1, <4>1
    <3> HIDE DEF b
    <3> QED BY <2>2, <3>1, <3>2
  <2> QED BY <2>3, <2>4
<1> HIDE DEF S
<1>4. \A y \in 0 .. N : y \in S
  BY <1>1, <1>2, <1>3, Counting
<1> QED BY <1>4 DEF S

(* Chunks do not overlap.                                                  *)
LEMMA Apart ==
  ASSUME NEW h, NEW A, Chunked(h, A), NEW a \in A \ {End}, NEW b \in A \ {End}, a # b,
         NEW x \in Int, a <= x, x < h[a].next
  PROVE  ~(b <= x /\ x < h[b].next)
<1>1. (b <= a \/ h[a].next <= b) /\ (a <= b \/ h[b].next <= a)
  BY DEF Chunked
<1>2. a \in 0 .. End /\ b \in 0 .. End /\ h[a].next \in 0 .. End /\ h[b].next \in 0 .. End
  BY ChunkFacts
<1> DEFINE e == h[a].next
           f == h[b].next
<1>3. (b <= a \/ e <= b) /\ (a <= b \/ f <= a) /\ x < e /\ e \in 0 .. End /\ f \in 0 .. End
  BY <1>1, <1>2
<1>4. ~(b <= x /\ x < f)
  <2> HIDE DEF e, f
  <2> QED BY <1>2, <1>3, HeapFacts
<1> QED BY <1>4

(* No room: every run of n blocks meets a chunk in use, when no free chunk *)
(* has n blocks and the one at c has less with its free neighbours.        *)
LEMMA NoRoom ==
  ASSUME NEW h, NEW A, InOrder(h, A), Merged(h, A), NEW c \in Held(h, A) \cup {0},
         NEW n \in Nat \ {0},
         \A a \in A : h[a].free = Yes => ~(Umm!SizeOf(h, a) >= n),
         c # 0 => LET above == IF h[h[c].next].free THEN Umm!SizeOf(h, h[c].next) ELSE 0
                      below == IF h[h[c].prev].free THEN c - h[c].prev ELSE 0
                  IN  ~(below + Umm!SizeOf(h, c) + above >= n),
         NEW i \in 1 .. End - n
  PROVE  \E a \in Held(h, A) \ {c}, x \in i .. i + n - 1 : a <= x /\ x < h[a].next
<1> SUFFICES ASSUME \A a \in Held(h, A) \ {c}, x \in i .. i + n - 1 : ~(a <= x /\ x < h[a].next)
             PROVE  FALSE
  OBVIOUS
<1> DEFINE far(a) == h[a].next
<1>0. Chunked(h, A)
  BY DEF InOrder
<1>1. End \in Nat /\ A \subseteq 0 .. End /\ n \in Nat /\ n >= 1 /\ i \in Nat /\ i >= 1 /\ i + n <= End
  BY <1>0, ChunkFacts, HeapFacts
<1>2. \A a \in A \ {End} : far(a) \in A /\ a < far(a) /\ far(a) \in 0 .. End /\ a \in 0 .. End
  BY <1>0, <1>1, ChunkFacts
<1>3. \A a \in A \ {End} : a \in Held(h, A) \/ a = 0 \/ h[a].free = Yes
  BY <1>0, ChunkFacts DEF Held
\* a chunk that the run starts in or reaches is free, or the one at c
<1>4. ASSUME NEW a \in A \ {End}, NEW x \in i .. i + n - 1, a <= x, x < far(a)
      PROVE  a # 0 /\ (a = c \/ h[a].free = Yes)
  <2>1. a # 0
    <3>1. far(0) = 1
      BY <1>0, ChunkFacts
    <3> HIDE DEF far
    <3> QED BY <1>1, <1>4, <3>1
  <2> QED BY <1>3, <1>4, <2>1
\* the run goes on past the end of a chunk only if one of the two is the one at c
<1>5. ASSUME NEW a \in A \ {End}, far(a) <= i + n - 1, i <= far(a), a = c \/ h[a].free = Yes
      PROVE  /\ far(a) \in A \ {End} /\ (far(a) = c \/ h[far(a)].free = Yes) /\ (a = c \/ far(a) = c)
             /\ a < far(a) /\ far(a) < far(far(a)) /\ far(far(a)) \in 0 .. End
  <2>1. far(a) # End /\ far(a) \in i .. i + n - 1
    <3>1. far(a) \in 0 .. End
      BY <1>2
    <3> HIDE DEF far
    <3> QED BY <1>1, <1>5, <3>1
  <2>2. /\ far(a) \in A \ {End} /\ far(a) <= far(a) /\ far(a) < far(far(a))
        /\ far(far(a)) \in 0 .. End
    <3>1. far(a) \in A \ {End}
      BY <1>2, <2>1
    <3>2. far(a) < far(far(a)) /\ far(far(a)) \in 0 .. End /\ far(a) \in 0 .. End
      BY <1>2, <3>1
    <3> HIDE DEF far
    <3> QED BY <3>1, <3>2, HeapFacts
  <2>3. h[a].free = Yes => h[far(a)].free = No
    BY YesNo DEF Merged
  <2>4. a < far(a)
    BY <1>2
  <2> HIDE DEF far
  <2>5. far(a) = c \/ h[far(a)].free = Yes
    BY <1>4, <2>1, <2>2
  <2> QED BY <1>5, <2>2, <2>3, <2>4, <2>5, YesNo
<1>6. PICK a \in A \ {End} : a <= i /\ i < far(a)
  <2>1. i \in 0 .. End - 1
    BY <1>1
  <2> QED BY <1>0, <2>1, Cover
<1>7. (a = c \/ h[a].free = Yes) /\ i <= far(a) /\ a \in 0 .. End /\ far(a) \in 0 .. End
  <2>0. a \in 0 .. End /\ far(a) \in 0 .. End
    BY <1>2
  <2> HIDE DEF far
  <2>1. i \in i .. i + n - 1 /\ a \in 0 .. End /\ far(a) \in 0 .. End
    BY <1>1, <2>0
  <2>2. i <= far(a)
    BY <1>1, <1>6, <2>1
  <2> QED BY <1>4, <1>6, <2>1, <2>2
<1> DEFINE above == IF h[h[c].next].free THEN Umm!SizeOf(h, h[c].next) ELSE 0
           below == IF h[h[c].prev].free THEN c - h[c].prev ELSE 0
<1>8. ASSUME NEW x \in A, x = c \/ h[x].free = Yes, c # 0
      PROVE  /\ c \in A \ {0, End} /\ far(c) \in A /\ c \in 0 .. End /\ far(c) \in 0 .. End /\ c < far(c)
             /\ above \in Nat /\ below \in Nat
             /\ (x = far(c) => above = far(x) - x)
             /\ (far(x) = c /\ x # End => below = c - x)
             /\ ~(below + (far(c) - c) + above >= n)
  <2>1. c \in A \ {0, End} /\ far(c) \in A /\ c \in 0 .. End /\ far(c) \in 0 .. End /\ c < far(c)
    BY <1>2, <1>8 DEF Held
  <2> DEFINE p == h[c].prev
             b == far(c)
  <2>2. /\ p \in A /\ p \in 0 .. End /\ p < c /\ h[b].free \in {Yes, No} /\ h[p].free \in {Yes, No}
        /\ (x # End /\ far(x) = c => p = x)
    BY <1>0, <1>1, <2>1, ChunkFacts
  <2>3. /\ above = (IF h[b].free = Yes THEN Umm!SizeOf(h, b) ELSE 0)
        /\ below = (IF h[p].free = Yes THEN c - p ELSE 0)
    BY <2>2 DEF Yes, No
  <2>4. /\ ~(below + Umm!SizeOf(h, c) + above >= n) /\ Umm!SizeOf(h, c) = far(c) - c
        /\ Umm!SizeOf(h, b) = far(b) - b
    BY <1>8 DEF Umm!SizeOf
  <2>5. h[b].free = Yes => b < far(b) /\ far(b) \in 0 .. End
    <3>1. h[b].free = Yes => b # End
      BY <1>0, YesNo, ChunkFacts
    <3> QED BY <1>2, <2>1, <3>1
  <2>6. x = far(c) => h[x].free = Yes
    <3>1. far(c) # c
      BY <2>1, HeapFacts
    <3> QED BY <1>8, <3>1
  <2>7. far(x) = c /\ x # End => h[x].free = Yes
    <3>1. x # End => x < far(x)
      BY <1>2
    <3>2. x # End /\ far(x) = c => x # c
      <4> HIDE DEF far
      <4> QED BY <2>1, <3>1, HeapFacts
    <3> QED BY <1>8, <3>2
  <2> DEFINE e == far(b)
             f == far(c)
  <2>8. (h[b].free = Yes => b < e /\ e \in 0 .. End) /\ b \in 0 .. End
    BY <2>1, <2>5
  <2>9. above \in Nat /\ below \in Nat
    <3>1. above = (IF h[b].free = Yes THEN e - b ELSE 0)
      BY <2>3, <2>4
    <3> HIDE DEF above, below, b, e, p, far
    <3> QED BY <2>1, <2>2, <2>3, <2>8, <3>1, HeapFacts
  <2>10. x = far(c) => above = far(x) - x
    <3> HIDE DEF above
    <3> QED BY <2>3, <2>4, <2>6
  <2>11. far(x) = c /\ x # End => below = c - x
    <3> HIDE DEF below
    <3> QED BY <2>2, <2>3, <2>7
  <2> HIDE DEF above, below
  <2> QED BY <2>1, <2>4, <2>9, <2>10, <2>11
<1> HIDE DEF above, below
<1>9. \A x \in A : h[x].free = Yes => ~(far(x) - x >= n)
  BY DEF Umm!SizeOf
<1> HIDE DEF far
\* the run is within the chunk that it starts in
<1>10. CASE i + n - 1 < far(a)
  <2>1. far(a) - a >= n
    BY <1>1, <1>6, <1>7, <1>10
  <2>2. CASE h[a].free = Yes
    BY <1>9, <2>1, <2>2
  <2>3. CASE a = c
    <3>1. a # 0
      BY <1>4, <1>6, <1>1
    <3>2. /\ above \in Nat /\ below \in Nat /\ ~(below + (far(c) - c) + above >= n)
      BY <1>8, <2>3, <3>1
    <3> QED BY <1>1, <1>7, <2>1, <2>3, <3>2
  <2> QED BY <1>7, <2>2, <2>3
<1> DEFINE b == far(a)
<1>11. CASE ~(i + n - 1 < far(a))
  <2>1. /\ b \in A \ {End} /\ (b = c \/ h[b].free = Yes) /\ (a = c \/ b = c)
        /\ a < b /\ b < far(b) /\ far(b) \in 0 .. End
    <3>1. far(a) <= i + n - 1
      BY <1>1, <1>7, <1>11
    <3> QED BY <1>5, <1>7, <3>1
  <2>2. c # 0 /\ b \in 0 .. End /\ b # 0 /\ i <= b
    <3>1. b \in 0 .. End /\ b # 0 /\ i <= b
      BY <1>1, <1>7, <2>1
    <3>2. a # 0
      BY <1>4, <1>6, <1>1
    <3> QED BY <2>1, <3>1, <3>2
  <2> DEFINE d == far(b)
  <2>3. i <= d /\ d \in 0 .. End
    BY <1>1, <2>1, <2>2
  <2>4. CASE a = c
    <3>1. above \in Nat /\ below \in Nat /\ above = d - b /\ ~(below + (b - c) + above >= n)
      BY <1>8, <2>1, <2>2, <2>4
    <3>2. i + n - 1 >= d
      <4> HIDE DEF b, d
      <4> QED BY <1>1, <1>6, <1>7, <2>2, <2>3, <2>4, <3>1
    <3>3. b = c \/ d = c
      <4>1. d <= i + n - 1
        BY <1>1, <2>3, <3>2
      <4> QED BY <1>5, <2>1, <2>3, <4>1
    <3> HIDE DEF b, d
    <3> QED BY <1>7, <2>1, <2>2, <2>3, <2>4, <3>3 DEF d
  <2>5. CASE b = c
    <3>0. a \in A /\ a # End /\ far(a) = c
      BY <2>5
    <3>1. above \in Nat /\ below \in Nat /\ below = c - a /\ ~(below + (d - c) + above >= n)
      BY <1>7, <1>8, <2>2, <2>5, <3>0
    <3>2. i + n - 1 >= d
      <4>1. a <= i
        BY <1>6
      <4> HIDE DEF b, d
      <4> QED BY <1>1, <1>7, <2>2, <2>3, <2>5, <3>1, <4>1
    <3>3. /\ d \in A \ {End} /\ (d = c \/ h[d].free = Yes)
          /\ b < d /\ d < far(d) /\ far(d) \in 0 .. End
      <4>1. d <= i + n - 1
        BY <1>1, <2>3, <3>2
      <4> QED BY <1>5, <2>1, <2>3, <4>1
    <3> DEFINE e == far(d)
    <3>4. above = e - d /\ i <= e /\ e \in 0 .. End /\ d # c
      <4>1. d # c
        <5> HIDE DEF b, d
        <5> QED BY <2>2, <2>3, <2>5, <3>3
      <4>2. above = e - d
        BY <1>8, <2>2, <2>5, <3>3
      <4> HIDE DEF b, d
      <4> QED BY <1>1, <2>3, <3>3, <4>1, <4>2
    <3>5. i + n - 1 >= e
      <4>1. a <= i
        BY <1>6
      <4> HIDE DEF b, d, e
      <4> QED BY <1>1, <1>7, <2>2, <2>3, <2>5, <3>1, <3>4, <4>1
    <3>6. d = c \/ e = c
      <4>1. e <= i + n - 1
        BY <1>1, <3>4, <3>5
      <4> QED BY <1>5, <3>3, <3>4, <4>1
    <3>7. b < d /\ d < e
      BY <3>3
    <3> HIDE DEF b, d, e
    <3> QED BY <2>2, <2>3, <2>5, <3>4, <3>6, <3>7
  <2> QED BY <2>1, <2>4, <2>5
<1> QED BY <1>10, <1>11

-----------------------------------------------------------------------------
(* The clients of the heap                                                 *)

(* The chunk at c holds the data of its client.                            *)
OwnData(h, c, o) ==
  /\ h[c].nfree = o /\ h[c].pfree = o
  /\ \A x \in Umm!Blocks : c < x /\ x < h[c].next => h[x] = Umm!Block(o, o, o, o, o)

LEMMA DataStays ==
  ASSUME NEW h, NEW g, NEW a, NEW o, SameChunk(h, g, a), OwnData(h, a, o)
  PROVE  OwnData(g, a, o)
BY DEF SameChunk, OwnData

(* A client writes its chunk from the k-th block on.                       *)
LEMMA WrittenHeap ==
  ASSUME NEW h, NEW A, InOrder(h, A), NEW p \in Held(h, A), NEW o \in Clients, NEW k \in Nat
  PROVE  LET g == Umm!Written(h, o, p, k) IN
         /\ Writes(h, g, A, p)
         /\ g[p].nfree = IF k = 0 THEN o ELSE h[p].nfree
         /\ g[p].pfree = IF k = 0 THEN o ELSE h[p].pfree
         /\ \A x \in Umm!Blocks : p < x /\ x < h[p].next =>
              g[x] = IF x >= p + k THEN Umm!Block(o, o, o, o, o) ELSE h[x]
<1> DEFINE g == Umm!Written(h, o, p, k)
           own == Umm!Block(o, o, o, o, o)
           far == h[p].next
<1>0. h \in Heaps /\ Chunked(h, A) /\ p \in A /\ p # 0 /\ p # End
  BY DEF InOrder, Held
<1>1. /\ A \subseteq Umm!Blocks /\ p \in 0 .. End /\ far \in 0 .. End /\ p \in Umm!Blocks
      /\ Umm!Blocks = 0 .. End /\ End \in Nat
  BY <1>0, ChunkFacts, HeapFacts
<1>2. own \in Cells /\ o \in Words /\ \A b \in Umm!Blocks : h[b] \in Cells
  BY <1>0 DEF Heaps, Cells, Words, Marks, Umm!Block
<1>3. g = [b \in Umm!Blocks |->
             IF b = p /\ k = 0 THEN [h[b] EXCEPT !.nfree = o, !.pfree = o]
             ELSE IF b > p /\ b >= p + k /\ b < far THEN own
             ELSE h[b]]
  BY DEF Umm!Written
<1> HIDE DEF g, own, far
<1>4. /\ g[p] \in Cells
      /\ g[p].next = h[p].next /\ g[p].free = h[p].free /\ g[p].prev = h[p].prev
      /\ g[p].nfree = (IF k = 0 THEN o ELSE h[p].nfree)
      /\ g[p].pfree = (IF k = 0 THEN o ELSE h[p].pfree)
  <2>0. ~(p > p)
    BY <1>1
  <2>1. g[p] = IF k = 0 THEN [h[p] EXCEPT !.nfree = o, !.pfree = o] ELSE h[p]
    <3>1. CASE k = 0
      BY <1>1, <1>3, <3>1
    <3>2. CASE k # 0
      BY <1>1, <1>3, <2>0, <3>2
    <3> QED BY <3>1, <3>2
  <2>2. h[p] \in Cells
    BY <1>1, <1>2
  <2> QED BY <1>2, <2>1, <2>2 DEF Cells
<1>5. \A b \in Umm!Blocks : b # p => g[b] = IF b > p /\ b >= p + k /\ b < far THEN own ELSE h[b]
  BY <1>3
<1>6. g \in Heaps
  <2>1. \A b \in Umm!Blocks : g[b] \in Cells
    BY <1>2, <1>4, <1>5
  <2>2. g = [b \in Umm!Blocks |-> g[b]]
    BY <1>3
  <2> QED BY <2>1, <2>2 DEF Heaps
<1>7. \A x \in A : g[x].next = h[x].next /\ g[x].free = h[x].free /\ g[x].prev = h[x].prev
  <2> TAKE x \in A
  <2>1. ~(x > p /\ x < far)
    BY <1>0, <1>1, Inside DEF far
  <2> QED BY <1>1, <1>4, <1>5, <2>1
<1>8. \A x \in Umm!Blocks : x # p /\ ~(p < x /\ x < h[p].next) => g[x] = h[x]
  BY <1>1, <1>5 DEF far
<1>9. \A x \in Umm!Blocks : p < x /\ x < h[p].next => g[x] = IF x >= p + k THEN own ELSE h[x]
  BY <1>1, <1>5 DEF far
<1> QED BY <1>4, <1>6, <1>7, <1>8, <1>9 DEF Writes, g, own

(* The blocks of a chunk have room for the bytes asked for, and none to    *)
(* spare.                                                                  *)
LEMMA BlocksOf ==
  ASSUME NEW size \in Sizes
  PROVE  LET n == Umm!UmmBlocks(size) IN
         /\ n \in Nat \ {0}
         /\ size <= n * BlockSize - (BlockSize - BodySize)
         /\ n > 1 => size > (n - 1) * BlockSize - (BlockSize - BodySize)
<1> DEFINE n == Umm!UmmBlocks(size)
           d == size - (1 + BodySize)
           q == d \div BlockSize
<1>1. size \in Nat \ {0} /\ BlockSize \in Nat /\ BodySize \in Nat \ {0} /\ BlockSize > BodySize
  BY ServicesAssumption DEF Umm!HeapAssumption
<1>2. n = IF size <= BodySize THEN 1 ELSE 2 + q
  BY DEF Umm!UmmBlocks
<1> HIDE DEF n
<1>3. CASE size <= BodySize
  <2>1. n = 1
    BY <1>2, <1>3
  <2>2. n * BlockSize = BlockSize
    BY <1>1, <2>1
  <2> QED BY <1>1, <1>3, <2>1, <2>2 DEF n
<1>4. CASE ~(size <= BodySize)
  <2>1. d \in Nat /\ n = 2 + q
    BY <1>1, <1>2, <1>4
  <2>2. q \in Nat /\ BlockSize * q <= d /\ d < BlockSize * q + BlockSize
    <3>1. d \in Int /\ BlockSize \in Int /\ BlockSize > 0
      BY <1>1, <2>1
    <3> HIDE DEF d
    <3>2. q \in Int /\ BlockSize * q <= d /\ d < BlockSize * q + BlockSize
      BY <1>1, <3>1
    <3>3. q >= 0
      BY <1>1, <2>1, <3>2
    <3> QED BY <3>2, <3>3
  <2> HIDE DEF q
  <2>3. /\ n * BlockSize = BlockSize * q + BlockSize + BlockSize
        /\ (n - 1) * BlockSize = BlockSize * q + BlockSize
    BY <1>1, <2>1, <2>2
  <2> DEFINE t == BlockSize * q
             u == n * BlockSize
             v == (n - 1) * BlockSize
  <2>4. t \in Nat /\ t <= d /\ d < t + BlockSize /\ u = t + BlockSize + BlockSize /\ v = t + BlockSize
    BY <1>1, <2>2, <2>3
  <2>5. n \in Nat \ {0}
    BY <2>1, <2>2
  <2> HIDE DEF t, u, v
  <2>6. size <= u - (BlockSize - BodySize) /\ size > v - (BlockSize - BodySize)
    BY <1>1, <2>4
  <2> QED BY <2>5, <2>6 DEF u, v, n
<1> QED BY <1>3, <1>4

(* What a call leaves: the client o had the chunk at c and has the one at  *)
(* p now, of n blocks and with its data; 0 is none.                        *)
Granted(h, g, A, c, p, o, n) ==
  /\ p \in Umm!Blocks /\ p \notin Held(h, A) \ {c}
  /\ \E B : InOrder(g, B) /\ Merged(g, B) /\ Held(g, B) = (Held(h, A) \ {c}) \cup ({p} \ {0})
  /\ \A a \in Held(h, A) \ {c} : SameChunk(h, g, a)
  /\ p # 0 => OwnData(g, p, o) /\ g[p].next = p + n

LEMMA AllocServed ==
  ASSUME NEW h, NEW A, InOrder(h, A), Merged(h, A), NEW o \in Clients, NEW n \in Nat \ {0},
         Umm!UmmMalloc(h, n).at # 0
  PROVE  LET m == Umm!UmmMalloc(h, n) IN
         Granted(h, Umm!Written(m.heap, o, m.at, 0), A, 0, m.at, o, n)
<1> DEFINE p == Umm!UmmMalloc(h, n).at
           v == Umm!UmmMalloc(h, n).heap
           g == Umm!Written(v, o, p, 0)
<1>1. Malloced(h, A, n, p, v)
  BY MallocHeap
<1> SUFFICES Granted(h, g, A, 0, p, o, n)
  OBVIOUS
<1> HIDE DEF p, v
<1>2. p # 0
  BY DEF p
<1>3. PICK B : /\ InOrder(v, B) /\ Merged(v, B) /\ Held(v, B) = Held(h, A) \cup {p}
               /\ v[p].next = p + n
               /\ \A a \in Held(h, A) : SameChunk(h, v, a)
  BY <1>1, <1>2 DEF Malloced
<1>4. p \in Held(v, B) /\ p \in Umm!Blocks /\ p \notin Held(h, A)
  <2>1. p \in A /\ h[p].free = Yes
    BY <1>1, <1>2 DEF Malloced
  <2>2. A \subseteq Umm!Blocks
    BY ChunkFacts DEF InOrder
  <2> QED BY <1>3, <2>1, <2>2, YesNo DEF Held
<1>5. /\ Writes(v, g, B, p) /\ g[p].nfree = o /\ g[p].pfree = o
      /\ \A x \in Umm!Blocks : p < x /\ x < v[p].next => g[x] = Umm!Block(o, o, o, o, o)
  <2>1. /\ Writes(v, g, B, p)
        /\ g[p].nfree = IF 0 = 0 THEN o ELSE v[p].nfree
        /\ g[p].pfree = IF 0 = 0 THEN o ELSE v[p].pfree
        /\ \A x \in Umm!Blocks : p < x /\ x < v[p].next =>
             g[x] = IF x >= p + 0 THEN Umm!Block(o, o, o, o, o) ELSE v[x]
    BY <1>3, <1>4, WrittenHeap
  <2>2. \A x \in Umm!Blocks : p < x => x >= p + 0
    BY <1>4, HeapFacts
  <2> HIDE DEF g
  <2> QED BY <2>1, <2>2
<1> HIDE DEF g
<1>6. /\ InOrder(g, B) /\ Held(g, B) = Held(v, B) /\ g[p].next = v[p].next
      /\ \A a \in Held(v, B) \ {p} : SameChunk(v, g, a)
      /\ Merged(g, B)
  <2>1. InOrder(v, B) /\ Merged(v, B)
    BY <1>3
  <2>2. p \in Held(v, B)
    BY <1>4
  <2>3. Writes(v, g, B, p)
    BY <1>5
  <2>4. Overwritten(v, g, B, p)
    BY <2>1, <2>2, <2>3, WriteHeap, Zenon
  <2> QED BY <2>1, <2>4 DEF Overwritten
<1>7. OwnData(g, p, o)
  BY <1>5, <1>6 DEF OwnData
<1>8. Held(g, B) = (Held(h, A) \ {0}) \cup ({p} \ {0})
  BY <1>2, <1>3, <1>6 DEF Held
<1>9. \A a \in Held(h, A) \ {0} : SameChunk(h, g, a)
  BY <1>3, <1>4, <1>6, SameTwice
<1> QED BY <1>3, <1>4, <1>6, <1>7, <1>8, <1>9 DEF Granted

LEMMA ReallocServed ==
  ASSUME NEW h, NEW A, InOrder(h, A), Merged(h, A), NEW c \in Held(h, A), NEW o \in Clients,
         OwnData(h, c, o), NEW n \in Nat \ {0}, Umm!UmmRealloc(h, c, n).at # 0
  PROVE  LET r == Umm!UmmRealloc(h, c, n) IN
         Granted(h, Umm!Written(r.heap, o, r.at, Umm!SizeOf(h, c)), A, c, r.at, o, n)
<1> DEFINE p == Umm!UmmRealloc(h, c, n).at
           v == Umm!UmmRealloc(h, c, n).heap
           size == Umm!SizeOf(h, c)
           g == Umm!Written(v, o, p, size)
<1>1. Resized(h, A, c, size, n, p, v)
  BY ReallocHeap
<1> SUFFICES Granted(h, g, A, c, p, o, n)
  OBVIOUS
<1> HIDE DEF p, v
<1>2. p # 0 /\ p \notin Held(h, A) \ {c} /\ SameData(h, c, v, p, n, size)
  BY <1>1 DEF Resized
<1>3. PICK B : /\ InOrder(v, B) /\ Merged(v, B) /\ Held(v, B) = (Held(h, A) \ {c}) \cup {p}
               /\ v[p].next = p + n
               /\ \A a \in Held(h, A) \ {c} : SameChunk(h, v, a)
  BY <1>1 DEF Resized
<1>4. p \in Held(v, B) /\ p \in 0 .. End /\ p \in Umm!Blocks /\ p + n \in 0 .. End
  <2>1. p \in Held(v, B) /\ p \in B \ {End}
    BY <1>3 DEF Held
  <2> QED BY <1>3, <2>1, ChunkFacts DEF InOrder
<1>5. size \in Nat \ {0} /\ c \in 0 .. End /\ c + size = h[c].next /\ h[c].next \in 0 .. End
  <2>1. c \in A \ {End} /\ Chunked(h, A)
    BY DEF Held, InOrder
  <2>2. c \in 0 .. End /\ h[c].next \in 0 .. End /\ c < h[c].next /\ size = h[c].next - c
    BY <2>1, ChunkFacts DEF Umm!SizeOf
  <2> DEFINE far == h[c].next
  <2> HIDE DEF size, far
  <2>3. size \in Nat \ {0} /\ c \in 0 .. End /\ c + size = far /\ far \in 0 .. End
    BY <2>2, HeapFacts DEF far
  <2> QED BY <2>3 DEF far
<1>6. /\ Writes(v, g, B, p) /\ g[p].nfree = v[p].nfree /\ g[p].pfree = v[p].pfree
      /\ \A x \in Umm!Blocks : p < x /\ x < v[p].next =>
           g[x] = IF x >= p + size THEN Umm!Block(o, o, o, o, o) ELSE v[x]
  <2> HIDE DEF size
  <2>1. size \in Nat /\ size # 0
    BY <1>5
  <2> QED BY <1>3, <1>4, <2>1, WrittenHeap
<1> HIDE DEF g
<1>7. /\ InOrder(g, B) /\ Held(g, B) = Held(v, B) /\ g[p].next = v[p].next
      /\ \A a \in Held(v, B) \ {p} : SameChunk(v, g, a)
      /\ Merged(g, B)
  <2>1. InOrder(v, B) /\ Merged(v, B)
    BY <1>3
  <2>2. p \in Held(v, B)
    BY <1>4
  <2>3. Writes(v, g, B, p)
    BY <1>6
  <2>4. Overwritten(v, g, B, p)
    BY <2>1, <2>2, <2>3, WriteHeap, Zenon
  <2> QED BY <2>1, <2>4 DEF Overwritten
<1> HIDE DEF size
<1>8. OwnData(g, p, o)
  <2>1. g[p].nfree = o /\ g[p].pfree = o
    BY <1>2, <1>6 DEF SameData, OwnData
  <2>2. ASSUME NEW x \in Umm!Blocks, p < x, x < g[p].next PROVE g[x] = Umm!Block(o, o, o, o, o)
    <3>0. x \in 0 .. End /\ x < p + n
      BY <1>3, <1>7, <2>2, HeapFacts
    <3>1. CASE x >= p + size
      BY <1>6, <1>7, <2>2, <3>1
    <3>2. CASE ~(x >= p + size)
      <4> DEFINE k == x - p
      <4>1. k \in 1 .. n - 1 /\ k < size /\ p + k = x
        BY <1>4, <1>5, <2>2, <3>0, <3>2, HeapFacts
      <4>2. g[x] = v[x]
        BY <1>6, <1>7, <2>2, <3>2
      <4> HIDE DEF k
      <4>3. v[p + k] = h[c + k]
        BY <1>2, <4>1 DEF SameData
      <4>4. c + k \in 0 .. End /\ c < c + k /\ c + k < h[c].next
        <5> DEFINE far == h[c].next
        <5>1. far \in 0 .. End /\ c + size = far
          BY <1>5
        <5> HIDE DEF far
        <5>2. c + k \in 0 .. End /\ c < c + k /\ c + k < far
          BY <1>5, <4>1, <5>1, HeapFacts
        <5> QED BY <5>2 DEF far
      <4>5. h[c + k] = Umm!Block(o, o, o, o, o)
        BY <4>4, HeapFacts DEF OwnData
      <4> QED BY <4>1, <4>2, <4>3, <4>5
    <3> QED BY <3>1, <3>2
  <2> QED BY <2>1, <2>2 DEF OwnData
<1>9. Held(g, B) = (Held(h, A) \ {c}) \cup ({p} \ {0})
  BY <1>2, <1>3, <1>7
<1>10. \A a \in Held(h, A) \ {c} : SameChunk(h, g, a)
  BY <1>2, <1>3, <1>7, SameTwice
<1> QED BY <1>2, <1>3, <1>4, <1>7, <1>8, <1>9, <1>10 DEF Granted

LEMMA FreeServed ==
  ASSUME NEW h, NEW A, InOrder(h, A), Merged(h, A), NEW c \in Held(h, A), NEW o, NEW n
  PROVE  Granted(h, Umm!UmmFree(h, c), A, c, 0, o, n)
<1> DEFINE g == Umm!UmmFree(h, c)
<1>1. PICK B : /\ InOrder(g, B) /\ Merged(g, B) /\ Held(g, B) = Held(h, A) \ {c}
               /\ \A a \in Held(h, A) \ {c} : SameChunk(h, g, a)
  BY FreeHeap
<1> HIDE DEF g
<1>2. 0 \in Umm!Blocks /\ 0 \notin Held(h, A)
  BY HeapFacts DEF Held
<1>3. Granted(h, g, A, c, 0, o, n)
  <2>1. Held(g, B) = (Held(h, A) \ {c}) \cup ({0} \ {0})
    BY <1>1
  <2> QED BY <1>1, <1>2, <2>1 DEF Granted
<1> QED BY <1>3 DEF g

-----------------------------------------------------------------------------
(* The invariant of the heap: its blocks are chunks in order with nothing  *)
(* left to merge; those in use are the clients', one each, with their data *)
(* and of the size that they asked for.                                    *)
HeapIn(A) ==
  /\ InOrder(heap, A) /\ Merged(heap, A)
  /\ Held(heap, A) = {ptr[o] : o \in {x \in Clients : ptr[x] # 0}}

HeapInv ==
  /\ ptr \in [Clients -> Umm!Blocks] /\ asked \in [Clients -> Sizes \cup {0}]
  /\ \A o, x \in Clients : ptr[o] = ptr[x] /\ ptr[o] # 0 => o = x
  /\ \E A : HeapIn(A)
  /\ \A o \in Clients : ptr[o] # 0 =>
       /\ OwnData(heap, ptr[o], o) /\ asked[o] \in Sizes
       /\ heap[ptr[o]].next = ptr[o] + Umm!UmmBlocks(asked[o])

LEMMA HeldOf ==
  ASSUME NEW A, HeapIn(A), NEW o \in Clients, ptr[o] # 0
  PROVE  ptr[o] \in Held(heap, A)
BY DEF HeapIn

LEMMA ServedKeeps ==
  ASSUME HeapInv, NEW A, HeapIn(A), NEW o \in Clients, NEW p, NEW size,
         p # 0 => size \in Sizes, p = 0 => size = 0,
         Granted(heap, heap', A, ptr[o], p, o, Umm!UmmBlocks(size)),
         ptr' = [ptr EXCEPT ![o] = p], asked' = [asked EXCEPT ![o] = size]
  PROVE  HeapInv'
<1> DEFINE c == ptr[o]
           held == Held(heap, A)
           n == Umm!UmmBlocks(size)
<1>1. /\ p \in Umm!Blocks /\ p \notin held \ {c}
      /\ \A a \in held \ {c} : SameChunk(heap, heap', a)
      /\ p # 0 => OwnData(heap', p, o) /\ heap'[p].next = p + n
  BY DEF Granted
<1>2. PICK B : /\ InOrder(heap', B) /\ Merged(heap', B)
               /\ Held(heap', B) = (held \ {c}) \cup ({p} \ {0})
  BY DEF Granted
<1>3. /\ ptr \in [Clients -> Umm!Blocks] /\ asked \in [Clients -> Sizes \cup {0}]
      /\ \A y, x \in Clients : ptr[y] = ptr[x] /\ ptr[y] # 0 => y = x
      /\ held = {ptr[y] : y \in {x \in Clients : ptr[x] # 0}}
  BY DEF HeapInv, HeapIn
<1> HIDE DEF held
<1>4. /\ ptr' \in [Clients -> Umm!Blocks] /\ asked' \in [Clients -> Sizes \cup {0}]
      /\ \A x \in Clients : /\ ptr'[x] = IF x = o THEN p ELSE ptr[x]
                            /\ asked'[x] = IF x = o THEN size ELSE asked[x]
  BY <1>1, <1>3
<1>5. \A x \in Clients : x # o /\ ptr[x] # 0 => ptr[x] \in held /\ ptr[x] # c /\ ptr[x] # p
  <2>1. \A x \in Clients : ptr[x] # 0 => ptr[x] \in held
    BY <1>3
  <2> QED BY <1>1, <1>3, <2>1
<1>6. \A y, x \in Clients : ptr'[y] = ptr'[x] /\ ptr'[y] # 0 => y = x
  BY <1>3, <1>4, <1>5
<1>7. HeapIn(B)'
  <2>1. Held(heap', B) = {ptr'[y] : y \in {x \in Clients : ptr'[x] # 0}}
    <3>1. ASSUME NEW a \in Held(heap', B) PROVE \E x \in Clients : ptr'[x] # 0 /\ a = ptr'[x]
      <4>1. CASE a \in {p} \ {0}
        BY <1>4, <4>1
      <4>2. CASE a \in held \ {c}
        <5>1. PICK x \in Clients : ptr[x] # 0 /\ a = ptr[x]
          BY <1>3, <4>2
        <5>2. x # o
          BY <4>2, <5>1
        <5> QED BY <1>4, <5>1, <5>2
      <4> QED BY <1>2, <4>1, <4>2
    <3>2. ASSUME NEW x \in Clients, ptr'[x] # 0 PROVE ptr'[x] \in Held(heap', B)
      <4>1. CASE x = o
        BY <1>2, <1>4, <3>2, <4>1
      <4>2. CASE x # o
        BY <1>2, <1>4, <1>5, <3>2, <4>2
      <4> QED BY <4>1, <4>2
    <3> DEFINE S == Held(heap', B)
    <3> HIDE DEF S
    <3>3. S = {ptr'[y] : y \in {x \in Clients : ptr'[x] # 0}}
      BY <3>1, <3>2 DEF S
    <3> QED BY <3>3 DEF S
  <2> QED BY <1>2, <2>1 DEF HeapIn
<1>8. ASSUME NEW x \in Clients, ptr'[x] # 0
      PROVE  /\ OwnData(heap', ptr'[x], x) /\ asked'[x] \in Sizes
             /\ heap'[ptr'[x]].next = ptr'[x] + Umm!UmmBlocks(asked'[x])
  <2>1. CASE x = o
    BY <1>1, <1>4, <1>8, <2>1
  <2>2. CASE x # o
    <3>1. ptr'[x] = ptr[x] /\ asked'[x] = asked[x] /\ ptr[x] # 0
      BY <1>4, <1>8, <2>2
    <3>2. /\ OwnData(heap, ptr[x], x) /\ asked[x] \in Sizes
          /\ heap[ptr[x]].next = ptr[x] + Umm!UmmBlocks(asked[x])
      BY <3>1 DEF HeapInv
    <3>3. SameChunk(heap, heap', ptr[x])
      BY <1>1, <1>5, <2>2, <3>1
    <3>4. OwnData(heap', ptr[x], x)
      BY <3>2, <3>3, DataStays
    <3>5. heap'[ptr[x]].next = heap[ptr[x]].next
      BY <3>3 DEF SameChunk
    <3> QED BY <3>1, <3>2, <3>4, <3>5
  <2> QED BY <2>1, <2>2
<1> QED BY <1>4, <1>6, <1>7, <1>8 DEF HeapInv

(* The cells of the clients, as the allocator sees them.                   *)
CellsOf == [o \in Clients |-> Umm!Chunk(o)]

LEMMA CellsAre ==
  ASSUME HeapInv, NEW A, HeapIn(A), NEW o \in Clients, ptr[o] # 0
  PROVE  /\ CellsOf[o] = ptr[o] .. heap[ptr[o]].next - 1
         /\ ptr[o] \in A \ {0, End} /\ ptr[o] \in 0 .. End /\ heap[ptr[o]].next \in 0 .. End
         /\ ptr[o] < heap[ptr[o]].next /\ ptr[o] \in CellsOf[o]
<1>1. ptr[o] \in A \ {0, End} /\ Chunked(heap, A)
  BY HeldOf DEF Held, HeapIn, InOrder
<1>2. ptr[o] \in 0 .. End /\ heap[ptr[o]].next \in 0 .. End /\ ptr[o] < heap[ptr[o]].next
  BY <1>1, ChunkFacts
<1>3. CellsOf[o] = ptr[o] .. heap[ptr[o]].next - 1
  BY DEF CellsOf, Umm!Chunk
<1> DEFINE far == heap[ptr[o]].next
           c == ptr[o]
<1>4. c \in c .. far - 1
  <2>1. c \in 0 .. End /\ far \in 0 .. End /\ c < far
    BY <1>2
  <2> HIDE DEF far, c
  <2> QED BY <2>1, HeapFacts
<1> QED BY <1>1, <1>2, <1>3, <1>4

(* The client o has the n cells from p on now, and the others what they had. *)
HasNow(o, p, n) ==
  /\ p = 0 => CellsOf' = [CellsOf EXCEPT ![o] = {}]
  /\ p # 0 => CellsOf' = [CellsOf EXCEPT ![o] = p .. p + n - 1]

(* The cells of the other clients stay.                                    *)
LEMMA OthersStay ==
  ASSUME HeapInv, NEW A, HeapIn(A), NEW o \in Clients, NEW p, NEW n,
         p # 0 => n \in Nat,
         Granted(heap, heap', A, ptr[o], p, o, n), ptr' = [ptr EXCEPT ![o] = p]
  PROVE  HasNow(o, p, n)
<1>1. /\ ptr \in [Clients -> Umm!Blocks]
      /\ \A x, y \in Clients : ptr[x] = ptr[y] /\ ptr[x] # 0 => x = y
  BY DEF HeapInv
<1>2. /\ \A a \in Held(heap, A) \ {ptr[o]} : SameChunk(heap, heap', a)
      /\ p # 0 => heap'[p].next = p + n
  BY DEF Granted
<1>3. \A x \in Clients : ptr'[x] = IF x = o THEN p ELSE ptr[x]
  BY <1>1
<1>4. CellsOf' = [x \in Clients |-> IF ptr'[x] = 0 THEN {} ELSE ptr'[x] .. heap'[ptr'[x]].next - 1]
  BY DEF CellsOf, Umm!Chunk
<1>5. CellsOf = [x \in Clients |-> IF ptr[x] = 0 THEN {} ELSE ptr[x] .. heap[ptr[x]].next - 1]
  BY DEF CellsOf, Umm!Chunk
<1>6. ASSUME NEW x \in Clients, x # o PROVE CellsOf'[x] = CellsOf[x]
  <2>1. ptr'[x] = ptr[x]
    BY <1>3, <1>6
  <2>2. CASE ptr[x] = 0
    BY <1>4, <1>5, <2>1, <2>2
  <2>3. CASE ptr[x] # 0
    <3>1. ptr[x] \in Held(heap, A) \ {ptr[o]}
      BY <1>1, <1>6, <2>3, HeldOf
    <3>2. heap'[ptr[x]].next = heap[ptr[x]].next
      BY <1>2, <3>1 DEF SameChunk
    <3> QED BY <1>4, <1>5, <2>1, <2>3, <3>2
  <2> QED BY <2>2, <2>3
<1>7. CellsOf'[o] = IF p = 0 THEN {} ELSE p .. heap'[p].next - 1
  <2>1. ptr'[o] = p
    BY <1>3
  <2> QED BY <1>4, <2>1
<1>8. CellsOf = [x \in Clients |-> CellsOf[x]] /\ CellsOf' = [x \in Clients |-> CellsOf'[x]]
  BY <1>4, <1>5
<1>9. CASE p = 0
  BY <1>6, <1>7, <1>8, <1>9 DEF HasNow
<1>10. CASE p # 0
  <2> DEFINE far == heap'[p].next
             run == p .. p + n - 1
  <2>1. far = p + n /\ CellsOf'[o] = p .. far - 1 /\ p \in Int /\ n \in Int
    BY <1>2, <1>7, <1>10, HeapFacts DEF Granted
  <2> HIDE DEF far
  <2>2. CellsOf'[o] = run
    BY <2>1
  <2> HIDE DEF run
  <2>3. CellsOf' = [CellsOf EXCEPT ![o] = run]
    BY <1>6, <1>8, <2>2
  <2> QED BY <1>10, <2>3 DEF run, HasNow
<1> QED BY <1>9, <1>10

(* A chunk that is given is a run that nobody else has.                    *)
LEMMA RunIsFree ==
  ASSUME HeapInv, NEW A, HeapIn(A), NEW o \in Clients, NEW p, p # 0, NEW n \in Nat \ {0},
         Granted(heap, heap', A, ptr[o], p, o, n)
  PROVE  p .. p + n - 1 \in Umm!Abstract!Free(n, Clients \ {o})
<1> DEFINE c == ptr[o]
<1>1. /\ \A a \in Held(heap, A) \ {c} : SameChunk(heap, heap', a)
      /\ p \notin Held(heap, A) \ {c} /\ heap'[p].next = p + n
  BY DEF Granted
<1>2. PICK B : /\ InOrder(heap', B)
               /\ Held(heap', B) = (Held(heap, A) \ {c}) \cup ({p} \ {0})
  BY DEF Granted
<1>3. Chunked(heap', B) /\ p \in B \ {0, End}
  BY <1>2 DEF InOrder, Held
<1>4. p \in 0 .. End /\ p + n \in 0 .. End /\ p # 0
  <2>1. p \in 0 .. End /\ heap'[p].next \in 0 .. End
    BY <1>3, ChunkFacts
  <2> QED BY <1>1, <2>1
<1>5. p .. p + n - 1 \in Umm!Abstract!Runs(n)
  <2>1. p \in 1 .. ((NumBlocks - 2) + 1 - n)
    BY <1>4, HeapFacts
  <2> QED BY <2>1 DEF Umm!Abstract!Runs
<1>6. ASSUME NEW x \in Clients \ {o}, NEW y \in p .. p + n - 1 PROVE y \notin CellsOf[x]
  <2>1. CASE ptr[x] = 0
    BY <2>1 DEF CellsOf, Umm!Chunk
  <2>2. CASE ptr[x] # 0
    <3> DEFINE a == ptr[x]
    <3>1. a \in Held(heap, A) \ {c} /\ CellsOf[x] = a .. heap[a].next - 1
      BY <2>2, HeldOf, CellsAre DEF HeapInv
    <3>2. a \in B \ {End} /\ a # p /\ heap'[a].next = heap[a].next
      BY <1>1, <1>2, <3>1 DEF Held, SameChunk
    <3> HIDE DEF a
    <3>3. y \in Int /\ p <= y /\ y < heap'[p].next
      BY <1>1, <1>4
    <3>4. ~(a <= y /\ y < heap'[a].next)
      BY <1>3, <3>2, <3>3, Apart
    <3> DEFINE far == heap[a].next
    <3>5. far \in 0 .. End /\ a \in 0 .. End
      BY <1>3, <3>2, ChunkFacts
    <3>6. ~(a <= y /\ y < far) /\ CellsOf[x] = a .. far - 1
      BY <3>1, <3>2, <3>4
    <3> HIDE DEF far
    <3> QED BY <3>3, <3>5, <3>6
  <2> QED BY <2>1, <2>2
<1>7. (p .. p + n - 1) \cap Umm!Abstract!Taken(Clients \ {o}) = {}
  BY <1>6 DEF Umm!Abstract!Taken, CellsOf
<1> QED BY <1>5, <1>7 DEF Umm!Abstract!Free

(* Nothing is denied while there is a run that nobody else has.            *)
LEMMA DeniedRight ==
  ASSUME HeapInv, NEW A, HeapIn(A), NEW o \in Clients, NEW n \in Nat \ {0}, NEW c, c = ptr[o],
         \A a \in A : heap[a].free = Yes => ~(Umm!SizeOf(heap, a) >= n),
         c # 0 => LET above == IF heap[heap[c].next].free THEN Umm!SizeOf(heap, heap[c].next) ELSE 0
                      below == IF heap[heap[c].prev].free THEN c - heap[c].prev ELSE 0
                  IN  ~(below + Umm!SizeOf(heap, c) + above >= n)
  PROVE  Umm!Abstract!Free(n, Clients \ {o}) = {}
<1> SUFFICES ASSUME NEW i \in 1 .. ((NumBlocks - 2) + 1 - n)
             PROVE  (i .. i + n - 1) \cap Umm!Abstract!Taken(Clients \ {o}) # {}
  BY DEF Umm!Abstract!Free, Umm!Abstract!Runs
<1>1. i \in 1 .. End - n
  BY HeapFacts
<1>2. InOrder(heap, A) /\ Merged(heap, A) /\ c \in Held(heap, A) \cup {0}
  BY HeldOf DEF HeapIn
<1>3. PICK a \in Held(heap, A) \ {c}, y \in i .. i + n - 1 : a <= y /\ y < heap[a].next
  BY <1>1, <1>2, NoRoom
<1>4. PICK x \in Clients : ptr[x] # 0 /\ a = ptr[x]
  BY <1>3 DEF HeapIn
<1>5. x # o
  BY <1>3, <1>4
<1>6. y \in CellsOf[x]
  <2>1. CellsOf[x] = a .. heap[a].next - 1 /\ a \in 0 .. End /\ heap[a].next \in 0 .. End
    BY <1>4, CellsAre
  <2> DEFINE far == heap[a].next
  <2>2. CellsOf[x] = a .. far - 1 /\ a \in 0 .. End /\ far \in 0 .. End /\ a <= y /\ y < far
    BY <1>3, <2>1
  <2> HIDE DEF far
  <2> QED BY <2>2
<1> QED BY <1>4, <1>5, <1>6 DEF Umm!Abstract!Taken, CellsOf

-----------------------------------------------------------------------------
(* The calls                                                               *)
LEMMA AllocStep ==
  ASSUME HeapInv, NEW o \in Clients, NEW size \in Sizes, Umm!Alloc(o, size)
  PROVE  HeapInv' /\ Umm!Abstract!Next
<1> DEFINE n == Umm!UmmBlocks(size)
           got == Umm!UmmMalloc(heap, n)
<1>1. PICK A : HeapIn(A)
  BY DEF HeapInv
<1>2. n \in Nat \ {0} /\ InOrder(heap, A) /\ Merged(heap, A) /\ ptr[o] = 0
  BY <1>1, BlocksOf DEF HeapIn, Umm!Alloc
<1>3. n \in {Umm!UmmBlocks(s) : s \in Sizes}
  OBVIOUS
<1>4. CASE got.at = 0
  <2>1. denied' = <<o, n>> /\ UNCHANGED <<heap, ptr, asked>>
    BY <1>4 DEF Umm!Alloc
  <2>2. Malloced(heap, A, n, got.at, got.heap)
    BY <1>2, MallocHeap
  <2> HIDE DEF n, got
  <2>3. \A a \in A : heap[a].free = Yes => ~(Umm!SizeOf(heap, a) >= n)
    BY <1>4, <2>2 DEF Malloced
  <2>4. Umm!Abstract!Free(n, Clients \ {o}) = {}
    BY <1>1, <1>2, <2>3, DeniedRight
  <2>5. CellsOf' = CellsOf
    BY <2>1 DEF CellsOf, Umm!Chunk
  <2>6. Umm!Abstract!Request(o, n)
    BY <2>1, <2>4, <2>5 DEF Umm!Abstract!Request, CellsOf
  <2>7. HeapInv'
    BY <2>1 DEF HeapInv, HeapIn
  <2> QED BY <1>3, <2>6, <2>7 DEF Umm!Abstract!Next
<1>5. CASE got.at # 0
  <2> DEFINE p == got.at
  <2>1. /\ heap' = Umm!Written(got.heap, o, p, 0) /\ ptr' = [ptr EXCEPT ![o] = p]
        /\ asked' = [asked EXCEPT ![o] = size] /\ denied' = << >>
    BY <1>5 DEF Umm!Alloc
  <2>2. Granted(heap, heap', A, ptr[o], p, o, n)
    BY <1>2, <1>5, <2>1, AllocServed
  <2> HIDE DEF p
  <2>3. HeapInv'
    BY <1>1, <1>5, <2>1, <2>2, ServedKeeps DEF p
  <2>4. p .. p + n - 1 \in Umm!Abstract!Free(n, Clients \ {o})
    BY <1>1, <1>2, <1>5, <2>2, RunIsFree DEF p
  <2>5. CellsOf' = [CellsOf EXCEPT ![o] = p .. p + n - 1]
    <3>1. p # 0 /\ n \in Nat
      BY <1>2, <1>5 DEF p
    <3> HIDE DEF n
    <3>2. HasNow(o, p, n)
      BY <1>1, <2>1, <2>2, <3>1, OthersStay
    <3> QED BY <3>1, <3>2 DEF HasNow
  <2> HIDE DEF n, got
  <2>6. Umm!Abstract!Request(o, n)
    BY <2>1, <2>4, <2>5 DEF Umm!Abstract!Request, CellsOf
  <2> QED BY <1>3, <2>3, <2>6 DEF Umm!Abstract!Next
<1> QED BY <1>4, <1>5

LEMMA ReallocStep ==
  ASSUME HeapInv, NEW o \in Clients, NEW size \in Sizes, Umm!Realloc(o, size)
  PROVE  HeapInv' /\ Umm!Abstract!Next
<1> DEFINE n == Umm!UmmBlocks(size)
           c == ptr[o]
           got == Umm!UmmRealloc(heap, c, n)
<1>1. PICK A : HeapIn(A)
  BY DEF HeapInv
<1>2. /\ n \in Nat \ {0} /\ InOrder(heap, A) /\ Merged(heap, A) /\ c # 0 /\ c \in Held(heap, A)
      /\ OwnData(heap, c, o)
  BY <1>1, BlocksOf, HeldOf DEF HeapIn, HeapInv, Umm!Realloc
<1>3. n \in {Umm!UmmBlocks(s) : s \in Sizes}
  OBVIOUS
<1>4. CASE got.at = 0
  <2>1. denied' = <<o, n>> /\ UNCHANGED <<heap, ptr, asked>>
    BY <1>4 DEF Umm!Realloc
  <2> DEFINE above == IF heap[heap[c].next].free THEN Umm!SizeOf(heap, heap[c].next) ELSE 0
             below == IF heap[heap[c].prev].free THEN c - heap[c].prev ELSE 0
  <2>2. \/ /\ ~(below + Umm!SizeOf(heap, c) + above >= n)
           /\ \A a \in A : heap[a].free = Yes => ~(Umm!SizeOf(heap, a) >= n)
        \/ Resized(heap, A, c, Umm!SizeOf(heap, c), n, got.at, got.heap)
    BY <1>2, ReallocHeap
  <2>3. ~Resized(heap, A, c, Umm!SizeOf(heap, c), n, got.at, got.heap)
    BY <1>4 DEF Resized
  <2>4. Umm!Abstract!Free(n, Clients \ {o}) = {}
    <3>1. c = ptr[o] /\ ~(below + Umm!SizeOf(heap, c) + above >= n)
      BY <2>2, <2>3
    <3>2. \A a \in A : heap[a].free = Yes => ~(Umm!SizeOf(heap, a) >= n)
      BY <2>2, <2>3
    <3> HIDE DEF n, got, c
    <3> QED BY <1>1, <1>2, <3>1, <3>2, DeniedRight
  <2> HIDE DEF n, got
  <2>5. CellsOf' = CellsOf
    BY <2>1 DEF CellsOf, Umm!Chunk
  <2>6. Umm!Abstract!Request(o, n)
    BY <2>1, <2>4, <2>5 DEF Umm!Abstract!Request, CellsOf
  <2>7. HeapInv'
    BY <2>1 DEF HeapInv, HeapIn
  <2> QED BY <1>3, <2>6, <2>7 DEF Umm!Abstract!Next
<1>5. CASE got.at # 0
  <2> DEFINE p == got.at
  <2>1. /\ heap' = Umm!Written(got.heap, o, p, Umm!SizeOf(heap, c)) /\ ptr' = [ptr EXCEPT ![o] = p]
        /\ asked' = [asked EXCEPT ![o] = size] /\ denied' = << >>
    BY <1>5 DEF Umm!Realloc
  <2>2. Granted(heap, heap', A, ptr[o], p, o, n)
    BY <1>2, <1>5, <2>1, ReallocServed
  <2> HIDE DEF p
  <2>3. HeapInv'
    BY <1>1, <1>5, <2>1, <2>2, ServedKeeps DEF p
  <2>4. p .. p + n - 1 \in Umm!Abstract!Free(n, Clients \ {o})
    BY <1>1, <1>2, <1>5, <2>2, RunIsFree DEF p
  <2>5. CellsOf' = [CellsOf EXCEPT ![o] = p .. p + n - 1]
    <3>1. p # 0 /\ n \in Nat
      BY <1>2, <1>5 DEF p
    <3> HIDE DEF n
    <3>2. HasNow(o, p, n)
      BY <1>1, <2>1, <2>2, <3>1, OthersStay
    <3> QED BY <3>1, <3>2 DEF HasNow
  <2> HIDE DEF n, got
  <2>6. Umm!Abstract!Request(o, n)
    BY <2>1, <2>4, <2>5 DEF Umm!Abstract!Request, CellsOf
  <2> QED BY <1>3, <2>3, <2>6 DEF Umm!Abstract!Next
<1> QED BY <1>4, <1>5

LEMMA FreeStep ==
  ASSUME HeapInv, NEW o \in Clients, Umm!Free(o)
  PROVE  HeapInv' /\ Umm!Abstract!Next
<1> DEFINE c == ptr[o]
<1>1. PICK A : HeapIn(A)
  BY DEF HeapInv
<1>2. /\ c # 0 /\ heap' = Umm!UmmFree(heap, c) /\ ptr' = [ptr EXCEPT ![o] = 0]
      /\ asked' = [asked EXCEPT ![o] = 0] /\ denied' = << >>
  BY DEF Umm!Free
<1>3. InOrder(heap, A) /\ Merged(heap, A) /\ c \in Held(heap, A)
  BY <1>1, <1>2, HeldOf DEF HeapIn
<1>4. Granted(heap, heap', A, ptr[o], 0, o, Umm!UmmBlocks(0))
  BY <1>2, <1>3, FreeServed
<1>5. HeapInv'
  BY <1>1, <1>2, <1>4, ServedKeeps
<1>6. CellsOf' = [CellsOf EXCEPT ![o] = {}]
  BY <1>1, <1>2, <1>4, OthersStay DEF HasNow
<1>7. CellsOf[o] # {}
  BY <1>1, <1>2, CellsAre
<1>8. Umm!Abstract!Return(o)
  BY <1>2, <1>6, <1>7 DEF Umm!Abstract!Return, CellsOf
<1> QED BY <1>5, <1>8 DEF Umm!Abstract!Next

LEMMA HeapStep ==
  ASSUME HeapInv, Umm!Next
  PROVE  HeapInv' /\ Umm!Abstract!Next
BY AllocStep, ReallocStep, FreeStep DEF Umm!Next

-----------------------------------------------------------------------------
(* All blocks in the order of their links                                  *)

(* The chunks from k to the end of the heap.                               *)
ChunksFrom(h, A, k, l) ==
  /\ l \in Seq(A \ {0}) /\ Len(l) \in Nat \ {0} /\ l[1] = k /\ l[Len(l)] = End
  /\ \A i \in 1 .. Len(l) - 1 : l[i + 1] = h[l[i]].next

(* Every chunk is followed by others up to the end of the heap.            *)
LEMMA ChunksToEnd ==
  ASSUME NEW h, NEW A, Chunked(h, A)
  PROVE  \E l : ChunksFrom(h, A, 1, l)
<1>0. /\ A \subseteq 0 .. End /\ End \in Nat /\ End # 0 /\ End \in A /\ 1 \in A /\ 1 \in 1 .. End
      /\ \A a \in A \ {End} : h[a].next \in A /\ a < h[a].next
  BY ChunkFacts, HeapFacts
<1> DEFINE T == {k \in 1 .. End : \A x \in A \ {0} : x >= k => \E l : ChunksFrom(h, A, x, l)}
<1>1. End \in T
  <2> SUFFICES ASSUME NEW x \in A \ {0}, x >= End PROVE \E l : ChunksFrom(h, A, x, l)
    BY <1>0
  <2>1. x = End
    <3>1. x \in 0 .. End
      BY <1>0
    <3> QED BY <1>0, <3>1
  <2> DEFINE l == <<End>>
  <2>2. l \in Seq(A \ {0}) /\ Len(l) = 1 /\ l[1] = End
    BY <1>0
  <2>3. ChunksFrom(h, A, x, l)
    <3> HIDE DEF l
    <3> QED BY <2>1, <2>2 DEF ChunksFrom
  <2> QED BY <2>3
<1>2. ASSUME NEW k \in 1 .. End - 1, k + 1 \in T PROVE k \in T
  <2>1. k \in 1 .. End /\ \A x \in A \ {0} : x >= k + 1 => \E l : ChunksFrom(h, A, x, l)
    BY <1>0, <1>2
  <2> SUFFICES ASSUME NEW x \in A \ {0}, x >= k PROVE \E l : ChunksFrom(h, A, x, l)
    BY <2>1
  <2>2. CASE x # k
    <3>1. x >= k + 1
      <4>1. x \in 0 .. End
        BY <1>0
      <4> QED BY <2>2, <4>1
    <3> QED BY <2>1, <3>1
  <2>3. CASE x = k
    <3> DEFINE far == h[x].next
    <3>1. x # End /\ x \in A
      BY <1>0, <2>3
    <3>2. far \in A \ {0} /\ far >= k + 1
      <4>1. far \in A /\ x < far
        BY <1>0, <3>1
      <4>2. far \in 0 .. End /\ x \in 0 .. End
        BY <1>0, <4>1
      <4> HIDE DEF far
      <4> QED BY <2>3, <4>1, <4>2
    <3>3. PICK l : ChunksFrom(h, A, far, l)
      <4> HIDE DEF far
      <4> QED BY <2>1, <3>2
    <3> DEFINE n == Len(l)
               b == [i \in 1 .. n + 1 |-> IF i = 1 THEN x ELSE l[i - 1]]
    <3>4. /\ l \in Seq(A \ {0}) /\ n \in Nat \ {0} /\ l[1] = far /\ l[n] = End
          /\ \A i \in 1 .. n - 1 : l[i + 1] = h[l[i]].next
          /\ \A i \in 1 .. n : l[i] \in A \ {0}
      BY <3>3, ElementOfSeq DEF ChunksFrom
    <3>5. \A i \in 1 .. n + 1 : b[i] \in A \ {0}
      <4> TAKE i \in 1 .. n + 1
      <4>1. i # 1 => i - 1 \in 1 .. n
        BY <3>4
      <4> QED BY <3>4, <4>1
    <3>6. /\ b \in Seq(A \ {0}) /\ Len(b) = n + 1
          /\ \A i \in 1 .. n + 1 : b[i] = IF i = 1 THEN x ELSE l[i - 1]
      BY <3>4, <3>5, IsASeq
    <3> HIDE DEF b
    <3>7. b[1] = x /\ b[n + 1] = End
      <4>1. 1 \in 1 .. n + 1 /\ n + 1 \in 1 .. n + 1 /\ n + 1 # 1 /\ (n + 1) - 1 = n
        BY <3>4
      <4> HIDE DEF n
      <4> QED BY <3>4, <3>6, <4>1
    <3>8. \A i \in 1 .. n : b[i + 1] = h[b[i]].next
      <4> TAKE i \in 1 .. n
      <4>1. i + 1 \in 1 .. n + 1 /\ i + 1 # 1 /\ (i + 1) - 1 = i /\ i \in 1 .. n + 1
        BY <3>4
      <4>2. b[i + 1] = l[i]
        BY <3>6, <4>1
      <4>3. CASE i = 1
        BY <3>4, <3>6, <4>1, <4>2, <4>3
      <4>4. CASE i # 1
        <5>1. i - 1 \in 1 .. n - 1 /\ (i - 1) + 1 = i
          BY <3>4, <4>4
        <5>2. b[i] = l[i - 1]
          BY <3>6, <4>1, <4>4
        <5>3. l[i] = h[l[i - 1]].next
          BY <3>4, <5>1
        <5> QED BY <4>2, <5>2, <5>3
      <4> QED BY <4>3, <4>4
    <3>9. n + 1 \in Nat \ {0} /\ (n + 1) - 1 = n
      BY <3>4
    <3>10. ChunksFrom(h, A, x, b)
      <4> HIDE DEF n
      <4> QED BY <3>6, <3>7, <3>8, <3>9 DEF ChunksFrom
    <3> QED BY <3>10
  <2> QED BY <2>2, <2>3
<1>3. \A k \in 1 .. End : k \in T
  <2> HIDE DEF T
  <2> QED BY <1>0, <1>1, <1>2, CountingDown
<1>4. 1 \in T
  <2> HIDE DEF T
  <2> QED BY <1>0, <1>3
<1> QED BY <1>0, <1>4

(* What ascends step by step has no element twice.                         *)
LEMMA AscendingDistinct ==
  ASSUME NEW N \in Nat, NEW l \in Seq(0 .. N),
         \A i \in 1 .. Len(l) - 1 : l[i] < l[i + 1]
  PROVE  Distinct(l)
<1> DEFINE n == Len(l)
           T == {j \in 0 .. n : \A i \in 1 .. j - 1 : l[i] < l[j]}
<1>1. n \in Nat /\ \A i \in 1 .. n : l[i] \in 0 .. N
  BY ElementOfSeq
<1>2. 0 \in T
  BY <1>1
<1>3. ASSUME NEW j \in 1 .. n, j - 1 \in T PROVE j \in T
  <2>1. \A i \in 1 .. (j - 1) - 1 : l[i] < l[j - 1]
    BY <1>3
  <2> SUFFICES ASSUME NEW i \in 1 .. j - 1 PROVE l[i] < l[j]
    BY <1>1
  <2>2. j - 1 \in 1 .. n - 1 /\ (j - 1) + 1 = j /\ j - 1 \in 1 .. n /\ i \in 1 .. n
    BY <1>1
  <2>3. l[j - 1] < l[j]
    BY <2>2
  <2>4. l[i] \in 0 .. N /\ l[j] \in 0 .. N /\ l[j - 1] \in 0 .. N
    BY <1>1, <2>2
  <2>5. CASE i = j - 1
    BY <2>3, <2>5
  <2>6. CASE i # j - 1
    <3>1. l[i] < l[j - 1]
      BY <2>1, <2>2, <2>6
    <3> DEFINE u == l[i]
               v == l[j - 1]
               w == l[j]
    <3>2. u \in Int /\ v \in Int /\ w \in Int /\ u < v /\ v < w
      BY <2>3, <2>4, <3>1
    <3> HIDE DEF u, v, w
    <3>3. u < w
      BY <3>2
    <3> QED BY <3>3 DEF u, w
  <2> QED BY <2>5, <2>6
<1>4. \A j \in 0 .. n : j \in T
  <2> HIDE DEF T, n
  <2> QED BY <1>1, <1>2, <1>3, Counting
<1>5. ASSUME NEW i \in 1 .. n, NEW j \in 1 .. n, i < j PROVE l[i] # l[j]
  <2>1. j \in 0 .. n /\ i \in 1 .. j - 1
    BY <1>1, <1>5
  <2>2. l[i] < l[j]
    BY <1>4, <2>1
  <2>3. l[i] \in 0 .. N /\ l[j] \in 0 .. N
    BY <1>1
  <2> QED BY <2>2, <2>3
<1>6. \A i, j \in 1 .. n : i < j \/ j < i \/ i = j
  BY <1>1
<1> HIDE DEF n
<1>7. \A i, j \in 1 .. n : l[i] = l[j] => i = j
  BY <1>5, <1>6
<1> QED BY <1>7 DEF n, Distinct

(* The blocks in the order of their links, found along them.               *)
LEMMA BlockListIs ==
  ASSUME NEW A, Chunked(heap, A)
  PROVE  LET l == Umm!BlockList IN
         /\ ChunksFrom(heap, A, 1, l)
         /\ \A i \in 1 .. Len(l) : l[i] \in A \ {0}
         /\ \A i \in 1 .. Len(l) - 1 : l[i] # End /\ l[i] < l[i + 1]
<1>0. /\ A \subseteq 0 .. End /\ End \in Nat /\ 1 \in A /\ heap[0].next = 1 /\ 0 \in Umm!Blocks
      /\ A \subseteq Umm!Blocks
      /\ \A a \in A \ {End} : heap[a].next \in A /\ a < heap[a].next
      /\ heap[End].next = 0
  BY ChunkFacts, HeapFacts DEF Chunked
<1>1. PICK l : ChunksFrom(heap, A, 1, l)
  BY ChunksToEnd
<1> DEFINE n == Len(l)
           g == [b \in Umm!Blocks |-> heap[b].next]
<1>2. /\ l \in Seq(A \ {0}) /\ n \in Nat \ {0} /\ l[1] = 1 /\ l[n] = End
      /\ \A i \in 1 .. n - 1 : l[i + 1] = heap[l[i]].next
      /\ \A i \in 1 .. n : l[i] \in A \ {0}
  BY <1>1, ElementOfSeq DEF ChunksFrom
<1>3. \A i \in 1 .. n - 1 : l[i] # End /\ l[i] < l[i + 1]
  <2> TAKE i \in 1 .. n - 1
  <2>1. i \in 1 .. n /\ i + 1 \in 1 .. n
    BY <1>2
  <2>2. l[i] \in A \ {0} /\ l[i + 1] \in A \ {0} /\ l[i + 1] = heap[l[i]].next
    BY <1>2, <2>1
  <2>3. l[i] # End
    BY <1>0, <2>2
  <2> QED BY <1>0, <2>2, <2>3
<1>4. l \in Seq(0 .. End) /\ l \in Seq(1 .. End)
  <2>1. A \ {0} \subseteq 0 .. End
    BY <1>0
  <2>2. A \ {0} \subseteq 1 .. End
    <3> SUFFICES ASSUME NEW a \in A \ {0} PROVE a \in 1 .. End
      OBVIOUS
    <3>1. a \in 0 .. End /\ a # 0
      BY <1>0
    <3> QED BY <1>0, <3>1
  <2>3. l = [i \in 1 .. n |-> l[i]]
    BY <1>2
  <2> HIDE DEF n
  <2>4. \A i \in 1 .. n : l[i] \in 0 .. End
    BY <1>2, <2>1
  <2>5. \A i \in 1 .. n : l[i] \in 1 .. End
    BY <1>2, <2>2
  <2> DEFINE m == [i \in 1 .. n |-> l[i]]
  <2>6. m \in Seq(0 .. End) /\ m \in Seq(1 .. End)
    BY <1>2, <2>4, <2>5, IsASeq
  <2> HIDE DEF m
  <2>7. l = m
    BY <2>3 DEF m
  <2> QED BY <2>6, <2>7
<1>5. Distinct(l)
  BY <1>0, <1>3, <1>4, AscendingDistinct
<1>6. LinkedTo(l, g, 0)
  <2> SUFFICES ASSUME NEW k \in 1 .. n PROVE g[l[k]] = IF k = n THEN 0 ELSE l[k + 1]
    BY DEF LinkedTo
  <2>1. l[k] \in Umm!Blocks /\ g[l[k]] = heap[l[k]].next
    BY <1>0, <1>2
  <2>2. k # n => k \in 1 .. n - 1
    BY <1>2
  <2> HIDE DEF g
  <2> QED BY <1>0, <1>2, <2>1, <2>2
<1>7. g[0] = FirstOf(l, 0)
  <2>1. l # << >>
    BY <1>2
  <2> QED BY <1>0, <1>2, <2>1 DEF FirstOf
<1>8. Umm!BlockList = l
  BY <1>4, <1>5, <1>6, <1>7, AlongBlocks DEF Umm!BlockList
<1> QED BY <1>1, <1>2, <1>3, <1>8

(* The block of the free marks, as the integrity check reads them.         *)
LEMMA FreeMark ==
  ASSUME NEW x, x \in {Yes, No}
  PROVE  (x <=> x = Yes) /\ (x = No => ~x)
BY Zenon DEF Yes, No

(* What umm_integrity_check looks for.                                     *)
LEMMA HeapIsLinked ==
  ASSUME NEW A, InOrder(heap, A), Merged(heap, A)
  PROVE  Umm!IntegrityCheck /\ Umm!Coalesced
<1>0. Chunked(heap, A) /\ heap \in Heaps
  BY DEF InOrder
<1>1. PICK n, f : Ring(heap, A, n, f)
  BY DEF InOrder
<1> DEFINE free == Umm!FreeList(heap)
           all == Umm!BlockList
           back == [b \in Umm!Blocks |-> heap[b].pfree]
           below == [b \in Umm!Blocks |-> heap[b].prev]
<1>2. /\ free \in Seq(1 .. End) /\ Len(free) = n /\ n \in Nat
      /\ \A i \in 1 .. n : free[i] = f[i] /\ free[i] \in A /\ free[i] # 0 /\ heap[free[i]].free = Yes
  BY <1>0, <1>1, FreeListIs
<1>3. /\ ChunksFrom(heap, A, 1, all)
      /\ \A i \in 1 .. Len(all) : all[i] \in A \ {0}
      /\ \A i \in 1 .. Len(all) - 1 : all[i] # End /\ all[i] < all[i + 1]
  BY <1>0, BlockListIs
<1>4. Umm!IntegrityCheck = (/\ Umm!Links(free, back) /\ Umm!Links(all, below)
                            /\ \A i \in 1 .. Len(all) - 1 : all[i] < all[i + 1]
                            /\ \A i \in 1 .. Len(all) :
                                 heap[all[i]].free <=> \E j \in 1 .. Len(free) : free[j] = all[i])
  BY Zenon DEF Umm!IntegrityCheck
<1>5. Umm!Coalesced = \A i \in 1 .. Len(all) - 1 : ~(heap[all[i]].free /\ heap[all[i + 1]].free)
  BY Zenon DEF Umm!Coalesced
<1> HIDE DEF free, all
<1>6. /\ A \subseteq Umm!Blocks /\ heap[0].next = 1 /\ 1 \in A /\ 1 \in Umm!Blocks /\ 0 # End
      /\ 0 \in A
      /\ \A a \in A \ {End} : heap[a].next \in A /\ heap[heap[a].next].prev = a
      /\ \A a \in A : heap[a].free \in {Yes, No}
  BY <1>0, ChunkFacts, HeapFacts
<1>7. Len(all) \in Nat \ {0} /\ all[1] = 1 /\ \A i \in 1 .. Len(all) - 1 : all[i + 1] = heap[all[i]].next
  BY <1>3 DEF ChunksFrom
<1>8. Umm!Links(free, back)
  <2> SUFFICES ASSUME NEW i \in 1 .. n PROVE back[free[i]] = IF i = 1 THEN 0 ELSE free[i - 1]
    BY <1>2 DEF Umm!Links
  <2>1. free[i] \in Umm!Blocks /\ free[i] = f[i]
    BY <1>2, <1>6
  <2>2. i - 1 \in 0 .. n /\ (i - 1) + 1 = i /\ (i # 1 => i - 1 \in 1 .. n)
    BY <1>2
  <2>3. heap[f[i]].pfree = f[i - 1] /\ f[0] = 0
    BY <1>1, <2>2 DEF Ring
  <2>4. back[free[i]] = f[i - 1]
    BY <2>1, <2>3
  <2> HIDE DEF back
  <2> QED BY <1>2, <2>2, <2>3, <2>4
<1>9. Umm!Links(all, below)
  <2> SUFFICES ASSUME NEW i \in 1 .. Len(all) PROVE below[all[i]] = IF i = 1 THEN 0 ELSE all[i - 1]
    BY DEF Umm!Links
  <2>1. below[all[i]] = heap[all[i]].prev
    BY <1>3, <1>6
  <2> HIDE DEF below
  <2>2. CASE i = 1
    <3>1. heap[1].prev = 0
      BY <1>6
    <3> QED BY <1>7, <2>1, <2>2, <3>1
  <2>3. CASE i # 1
    <3>1. i - 1 \in 1 .. Len(all) - 1 /\ (i - 1) + 1 = i /\ i - 1 \in 1 .. Len(all)
      BY <1>7, <2>3
    <3>2. all[i] = heap[all[i - 1]].next /\ all[i - 1] \in A \ {End}
      BY <1>3, <1>7, <3>1
    <3> QED BY <1>6, <2>1, <2>3, <3>2
  <2> QED BY <2>2, <2>3
<1>10. ASSUME NEW i \in 1 .. Len(all)
       PROVE  heap[all[i]].free <=> \E j \in 1 .. Len(free) : free[j] = all[i]
  <2>1. all[i] \in A /\ heap[all[i]].free \in {Yes, No}
    BY <1>3, <1>6
  <2>2. (\E j \in 1 .. Len(free) : free[j] = all[i]) => heap[all[i]].free = Yes
    BY <1>2
  <2>3. heap[all[i]].free = Yes => \E j \in 1 .. Len(free) : free[j] = all[i]
    <3> SUFFICES ASSUME heap[all[i]].free = Yes PROVE \E j \in 1 .. n : free[j] = all[i]
      BY <1>2
    <3>1. PICK j \in 1 .. n : f[j] = all[i]
      BY <1>1, <2>1 DEF Ring
    <3> QED BY <1>2, <3>1
  <2>4. heap[all[i]].free <=> heap[all[i]].free = Yes
    BY <2>1, FreeMark
  <2> QED BY <2>2, <2>3, <2>4, Zenon
<1>11. ASSUME NEW i \in 1 .. Len(all) - 1
       PROVE  ~(heap[all[i]].free /\ heap[all[i + 1]].free)
  <2>1. i \in 1 .. Len(all) /\ i + 1 \in 1 .. Len(all)
    BY <1>7
  <2>2. all[i] \in A \ {End} /\ all[i + 1] \in A /\ all[i + 1] = heap[all[i]].next
    BY <1>3, <1>7, <2>1
  <2>3. heap[all[i]].free = No \/ heap[all[i + 1]].free = No
    BY <2>2 DEF Merged
  <2> QED BY <2>3, Zenon DEF No
<1>12. Umm!IntegrityCheck
  BY <1>3, <1>4, <1>8, <1>9, <1>10, Zenon
<1>13. Umm!Coalesced
  BY <1>5, <1>11, Zenon
<1> QED BY <1>12, <1>13

(* The invariant says what the clients rely on.                            *)
LEMMA HeapInvSays ==
  ASSUME HeapInv
  PROVE  /\ Umm!TypeOK /\ Umm!IntegrityCheck /\ Umm!Coalesced
         /\ Umm!DataKept /\ Umm!RoomAsAsked
<1>1. PICK A : HeapIn(A)
  BY DEF HeapInv
<1>2. InOrder(heap, A) /\ Merged(heap, A) /\ Chunked(heap, A) /\ heap \in Heaps
  BY <1>1 DEF HeapIn, InOrder
<1>3. ASSUME NEW o \in Clients, ptr[o] # 0
      PROVE  /\ ptr[o] \in A \ {End} /\ heap[ptr[o]].free = No
             /\ ptr[o] \in 0 .. End /\ heap[ptr[o]].next \in 0 .. End /\ ptr[o] < heap[ptr[o]].next
  <2>1. ptr[o] \in A \ {End} /\ heap[ptr[o]].free = No
    BY <1>1, <1>3, HeldOf DEF Held
  <2> QED BY <1>2, <2>1, ChunkFacts
<1>4. Umm!TypeOK
  <2>1. ptr \in [Clients -> Umm!Blocks] /\ asked \in [Clients -> Sizes \cup {0}]
    BY DEF HeapInv
  <2>2. ASSUME NEW b \in Umm!Blocks PROVE heap[b].free \in BOOLEAN \/ heap[b].free \in Clients
    <3>1. heap[b].free \in Marks
      BY <1>2 DEF Heaps, Cells
    <3> QED BY <3>1, Zenon DEF Marks
  <2>3. ASSUME NEW o \in Clients, ptr[o] # 0
        PROVE  heap[ptr[o]].next \in ptr[o] + 1 .. Umm!Last /\ heap[ptr[o]].free = FALSE
    <3> DEFINE far == heap[ptr[o]].next
               p == ptr[o]
    <3>1. p \in 0 .. End /\ far \in 0 .. End /\ p < far /\ End \in Nat /\ Umm!Last = End
      BY <1>3, <2>3, HeapFacts DEF End
    <3>2. heap[ptr[o]].free = FALSE
      BY <1>3, <2>3, Zenon DEF No
    <3>3. far \in p + 1 .. Umm!Last
      <4> HIDE DEF far, p
      <4> QED BY <3>1
    <3> QED BY <3>2, <3>3, Zenon
  <2> QED BY <2>1, <2>2, <2>3, Zenon DEF Umm!TypeOK
<1>5. Umm!DataKept
  <2> SUFFICES ASSUME NEW o \in Clients, ptr[o] # 0
               PROVE  /\ heap[ptr[o]].nfree = o /\ heap[ptr[o]].pfree = o
                      /\ \A b \in ptr[o] + 1 .. heap[ptr[o]].next - 1 :
                           heap[b] = Umm!Block(o, o, o, o, o)
    BY Zenon DEF Umm!DataKept
  <2>1. OwnData(heap, ptr[o], o)
    BY DEF HeapInv
  <2>2. ASSUME NEW b \in ptr[o] + 1 .. heap[ptr[o]].next - 1
        PROVE  b \in Umm!Blocks /\ ptr[o] < b /\ b < heap[ptr[o]].next
    <3> DEFINE far == heap[ptr[o]].next
               p == ptr[o]
    <3>1. p \in 0 .. End /\ far \in 0 .. End /\ b \in p + 1 .. far - 1 /\ Umm!Blocks = 0 .. End
      BY <1>3, HeapFacts
    <3> HIDE DEF far, p
    <3>2. b \in 0 .. End /\ p < b /\ b < far
      BY <3>1, HeapFacts
    <3> QED BY <3>1, <3>2 DEF far, p
  <2> QED BY <2>1, <2>2 DEF OwnData
<1>6. Umm!RoomAsAsked
  <2> SUFFICES ASSUME NEW o \in Clients, ptr[o] # 0
               PROVE  LET n == Umm!SizeOf(heap, ptr[o]) IN
                      /\ asked[o] <= n * BlockSize - (BlockSize - BodySize)
                      /\ n > 1 => asked[o] > (n - 1) * BlockSize - (BlockSize - BodySize)
    BY Zenon DEF Umm!RoomAsAsked
  <2> DEFINE n == Umm!UmmBlocks(asked[o])
  <2>1. asked[o] \in Sizes /\ heap[ptr[o]].next = ptr[o] + n
    BY DEF HeapInv
  <2>2. n \in Nat /\ ptr[o] \in Int
    BY <1>3, <2>1, BlocksOf
  <2>3. Umm!SizeOf(heap, ptr[o]) = n
    <3> HIDE DEF n
    <3> QED BY <2>1, <2>2 DEF Umm!SizeOf
  <2>4. /\ asked[o] <= n * BlockSize - (BlockSize - BodySize)
        /\ n > 1 => asked[o] > (n - 1) * BlockSize - (BlockSize - BodySize)
    BY <2>1, BlocksOf
  <2> HIDE DEF n
  <2> QED BY <2>3, <2>4
<1> QED BY <1>2, <1>4, <1>5, <1>6, HeapIsLinked

(* umm_init: one free block between the head of the free list and the end. *)
LEMMA HeapFirst ==
  ASSUME Umm!Init
  PROVE  HeapInv /\ Umm!Abstract!Init
<1> DEFINE A == {0, 1, End}
           f == [i \in 0 .. 2 |-> IF i = 1 THEN 1 ELSE 0]
<1>0. /\ End \in Nat /\ End >= 2 /\ Umm!Blocks = 0 .. End /\ Umm!Last = End
      /\ 0 \in Umm!Blocks /\ 1 \in Umm!Blocks /\ End \in Umm!Blocks
      /\ 0 # 1 /\ 0 # End /\ 1 # End
  <2>1. Umm!Last = End
    BY DEF End
  <2> QED BY <2>1, HeapFacts
<1>1. heap = [b \in Umm!Blocks |->
                CASE b = 0 -> Umm!Block(1, No, 0, 1, 1)
                  [] b = 1 -> Umm!Block(End, Yes, 0, 0, 0)
                  [] b = End -> Umm!Block(0, No, 1, 0, 0)
                  [] OTHER -> Umm!Block(0, No, 0, 0, 0)]
  BY <1>0, Zenon DEF Umm!Init, Umm!UmmInit, Yes, No
<1>2. /\ ptr = [o \in Clients |-> 0] /\ asked = [o \in Clients |-> 0] /\ denied = << >>
  BY DEF Umm!Init
<1>3. heap \in Heaps
  <2>1. ASSUME NEW b \in Umm!Blocks PROVE heap[b] \in Cells
    <3>1. {0, 1, End} \subseteq Words /\ Yes \in Marks /\ No \in Marks
      BY <1>0, YesNo DEF Words
    <3>2. heap[b] \in {Umm!Block(1, No, 0, 1, 1), Umm!Block(End, Yes, 0, 0, 0),
                       Umm!Block(0, No, 1, 0, 0), Umm!Block(0, No, 0, 0, 0)}
      BY <1>0, <1>1
    <3> QED BY <3>1, <3>2 DEF Cells, Umm!Block
  <2>2. heap = [b \in Umm!Blocks |-> heap[b]]
    BY <1>1
  <2> QED BY <2>1, <2>2 DEF Heaps
<1>4. /\ heap[0].next = 1 /\ heap[0].free = No /\ heap[0].nfree = 1 /\ heap[0].pfree = 1
      /\ heap[1].next = End /\ heap[1].free = Yes /\ heap[1].prev = 0
      /\ heap[1].nfree = 0 /\ heap[1].pfree = 0
      /\ heap[End].next = 0 /\ heap[End].free = No /\ heap[End].prev = 1
  BY <1>0, <1>1 DEF Umm!Block
<1>5. Chunked(heap, A)
  <2>1. \A a \in A \ {End} : heap[a].next \in A /\ a < heap[a].next /\ heap[heap[a].next].prev = a
    BY <1>0, <1>4
  <2>2. \A a \in A \ {0} : heap[a].prev \in A /\ heap[a].prev < a /\ heap[heap[a].prev].next = a
    BY <1>0, <1>4
  <2>3. \A a \in A \ {End}, x \in A : x <= a \/ heap[a].next <= x
    BY <1>0, <1>4
  <2>4. \A a \in A : heap[a].free \in {Yes, No}
    BY <1>4
  <2> QED BY <1>0, <1>4, <2>1, <2>2, <2>3, <2>4 DEF Chunked
<1>6. Ring(heap, A, 1, f)
  <2>1. f[0] = 0 /\ f[1] = 1 /\ f[2] = 0 /\ f \in [0 .. 1 + 1 -> A] /\ 1 + 1 = 2 /\ 0 + 1 = 1
    OBVIOUS
  <2> HIDE DEF f
  <2>2. \A a \in A : heap[a].free = Yes => a = 1
    BY <1>4, YesNo
  <2>3. \A i \in 0 .. 1 : heap[f[i]].nfree = f[i + 1] /\ heap[f[i + 1]].pfree = f[i]
    <3> TAKE i \in 0 .. 1
    <3>1. i = 0 \/ i = 1
      OBVIOUS
    <3> QED BY <1>4, <2>1, <3>1
  <2>4. \A i \in 1 .. 1 : i = 1
    OBVIOUS
  <2>5. 1 \in 1 .. 1 /\ 1 \in Nat
    OBVIOUS
  <2> QED BY <1>4, <2>1, <2>2, <2>3, <2>4, <2>5, YesNo DEF Ring
<1>7. InOrder(heap, A)
  BY <1>3, <1>5, <1>6 DEF InOrder
<1>8. Merged(heap, A)
  BY <1>0, <1>4 DEF Merged
<1>9. Held(heap, A) = {}
  BY <1>0, <1>4, YesNo DEF Held
<1> HIDE DEF A
<1>10. HeapIn(A)
  <2>1. {ptr[o] : o \in {x \in Clients : ptr[x] # 0}} = {}
    BY <1>2
  <2> QED BY <1>7, <1>8, <1>9, <2>1 DEF HeapIn
<1>11. HeapInv
  <2>1. ptr \in [Clients -> Umm!Blocks] /\ asked \in [Clients -> Sizes \cup {0}]
    BY <1>0, <1>2
  <2>2. \A o \in Clients : ptr[o] = 0
    BY <1>2
  <2> QED BY <1>10, <2>1, <2>2 DEF HeapInv
<1>12. Umm!Abstract!Init
  BY <1>2 DEF Umm!Abstract!Init, Umm!Chunk
<1> QED BY <1>11, <1>12

(* Every call does what the allocator may do, and keeps the invariant.     *)
LEMMA HeapStepServed ==
  ASSUME HeapInv, [Umm!Next]_(Umm!vars)
  PROVE  HeapInv' /\ [Umm!Abstract!Next]_(Umm!Abstract!vars)
<1>1. CASE Umm!Next
  BY <1>1, HeapStep
<1>2. CASE UNCHANGED Umm!vars
  <2>1. heap' = heap /\ ptr' = ptr /\ asked' = asked /\ denied' = denied
    BY <1>2 DEF Umm!vars
  <2>2. HeapInv'
    BY <2>1 DEF HeapInv, HeapIn
  <2>3. UNCHANGED Umm!Abstract!vars
    BY <2>1 DEF Umm!Abstract!vars, Umm!Chunk
  <2> QED BY <2>2, <2>3
<1> QED BY <1>1, <1>2

-----------------------------------------------------------------------------
(* The services in company: one of them moves and the others stand still.  *)

(* The byte FIFO takes a step of its own or stands still.                  *)
LEMMA FifoMoves ==
  [ServicesNext]_servicesVars => [Fifo!Next]_(Fifo!vars)
<1> SUFFICES ASSUME [ServicesNext]_servicesVars PROVE [Fifo!Next]_(Fifo!vars)
  OBVIOUS
<1>1. Fifo!Next \/ UNCHANGED fifoVars
  BY Zenon DEF ServicesNext, servicesVars
<1> QED BY <1>1 DEF fifoVars, Fifo!vars

(* The linked lists take a step of their own or stand still.               *)
LEMMA QueueMoves ==
  [ServicesNext]_servicesVars => [Queue!Next]_(Queue!vars)
<1> SUFFICES ASSUME [ServicesNext]_servicesVars PROVE [Queue!Next]_(Queue!vars)
  OBVIOUS
<1>1. Queue!Next \/ UNCHANGED queueVars
  BY Zenon DEF ServicesNext, servicesVars
<1> QED BY <1>1 DEF queueVars, Queue!vars

(* The callback timers take a step of their own or stand still.            *)
LEMMA CbTimerMoves ==
  [ServicesNext]_servicesVars => [CbTimer!Next]_(CbTimer!vars)
<1> SUFFICES ASSUME [ServicesNext]_servicesVars PROVE [CbTimer!Next]_(CbTimer!vars)
  OBVIOUS
<1>1. CbTimer!Next \/ UNCHANGED cbVars
  BY Zenon DEF ServicesNext, servicesVars
<1> QED BY <1>1 DEF cbVars, CbTimer!vars

(* The heap takes a step of its own or stands still.                       *)
LEMMA HeapMoves ==
  [ServicesNext]_servicesVars => [Umm!Next]_(Umm!vars)
<1> SUFFICES ASSUME [ServicesNext]_servicesVars PROVE [Umm!Next]_(Umm!vars)
  OBVIOUS
<1>1. Umm!Next \/ UNCHANGED heapVars
  BY Zenon DEF ServicesNext, servicesVars
<1> QED BY <1>1 DEF heapVars, Umm!vars

(* For every heap of pages, page size and set of bytes, the pages that come *)
(* and go are one queue of bytes: osal_fifo.c.                             *)
THEOREM FifoServes == ServicesSpec => FifoIsQueue
<1>1. ServicesInit => FifoInv /\ Fifo!AsQueue!Init
  BY FirstServed, ServicesAssumption DEF ServicesInit
<1>2. FifoInv /\ [ServicesNext]_servicesVars
        => /\ FifoInv'
           /\ [part = "fifo" => [Fifo!AsQueue!Next]_Fifo!AsQueue!vars]_servicesVars
  <2> SUFFICES ASSUME FifoInv, [Fifo!Next]_(Fifo!vars)
               PROVE  FifoInv' /\ [Fifo!AsQueue!Next]_(Fifo!AsQueue!vars)
    BY FifoMoves
  <2> QED BY StepServed, ServicesAssumption DEF Served
<1> QED BY <1>1, <1>2, PTL DEF ServicesSpec, FifoIsQueue

(* For all messages and tasks, and a limited queue that may hold one, the  *)
(* linked lists of osal.c are the queues that their functions promise.     *)
THEOREM QueuesServe == max # 0 => (ServicesSpec => IsQueues)
<1> SUFFICES ASSUME max # 0 PROVE ServicesSpec => IsQueues
  OBVIOUS
<1>1. ServicesInit => QueueInv /\ Queue!Abstract!Init
  BY QueueFirstServed, ServicesAssumption DEF ServicesInit
<1>2. QueueInv /\ [ServicesNext]_servicesVars
        => /\ QueueInv'
           /\ [part = "queue" => [Queue!Abstract!Next]_Queue!Abstract!vars]_servicesVars
  <2> SUFFICES ASSUME QueueInv, [Queue!Next]_(Queue!vars)
               PROVE  QueueInv' /\ [Queue!Abstract!Next]_(Queue!Abstract!vars)
    BY QueueMoves
  <2> QED BY QueueStepServed, ServicesAssumption DEF QueueServed
<1> QED BY <1>1, <1>2, PTL DEF ServicesSpec, IsQueues

(* For every number of slots and any clients, a callback is called when    *)
(* its timer has expired, or its slot was taken with the event set:        *)
(* osal_cbtimer.c.                                                         *)
THEOREM CallsServe == ServicesSpec => CalledInTime
<1>1. CbTimer!CbTimerAssumption
  BY ServicesAssumption
<1>2. ServicesSpec => CbTimer!Spec
  <2>1. ServicesInit => CbTimer!Init
    BY DEF ServicesInit
  <2> QED BY <2>1, CbTimerMoves, PTL DEF ServicesSpec, CbTimer!Spec
<1> QED BY <1>1, <1>2, CallsAreDue, PTL DEF CalledInTime

(* For every number and size of blocks, clients and sizes: chunks never    *)
(* overlap, nothing leaks, and memory is denied only when no run of blocks *)
(* is long enough, whatever is asked for, resized and freed: umm_malloc.c. *)
THEOREM HeapServes == ServicesSpec => HeapAllocates
<1>1. ServicesInit => HeapInv /\ Umm!Abstract!Init
  BY HeapFirst DEF ServicesInit
<1>2. HeapInv /\ [ServicesNext]_servicesVars
        => /\ HeapInv'
           /\ [part = "heap" => [Umm!Abstract!Next]_Umm!Abstract!vars]_servicesVars
  <2> SUFFICES ASSUME HeapInv, [Umm!Next]_(Umm!vars)
               PROVE  HeapInv' /\ [Umm!Abstract!Next]_(Umm!Abstract!vars)
    BY HeapMoves
  <2> QED BY HeapStepServed
<1> QED BY <1>1, <1>2, PTL DEF ServicesSpec, HeapAllocates

(* The pages of the byte FIFO are its own and its length is what can be    *)
(* got; the heap passes its integrity check, has nothing left to merge and *)
(* keeps its clients' data; no message is in two queues or unannounced; no *)
(* slot of the callback timers is lost: whatever the clients do.           *)
THEOREM ServicesAreSound == ServicesSpec => []ServicesSound
<1> DEFINE Inv == FifoInv /\ HeapInv /\ QueueInv /\ TimerInv
<1>0. Fifo!FifoAssumption /\ Queue!OsalQueueAssumption /\ CbTimer!CbTimerAssumption
  BY ServicesAssumption
<1>1. ServicesInit => FifoInv /\ HeapInv /\ QueueInv
  BY <1>0, FirstServed, HeapFirst, QueueFirstServed DEF ServicesInit
<1>2. FifoInv /\ [ServicesNext]_servicesVars => FifoInv'
  BY <1>0, FifoMoves, StepServed DEF Served
<1>3. HeapInv /\ [ServicesNext]_servicesVars => HeapInv'
  BY HeapMoves, HeapStepServed
<1>4. QueueInv /\ [ServicesNext]_servicesVars => QueueInv'
  BY <1>0, QueueMoves, QueueStepServed
<1>5. ServicesSpec => CbTimer!Spec
  <2>1. ServicesInit => CbTimer!Init
    BY DEF ServicesInit
  <2> QED BY <2>1, CbTimerMoves, PTL DEF ServicesSpec, CbTimer!Spec
<1>6. CbTimer!Spec => []TimerInv
  BY <1>0, TimersInv
<1>7. Inv => ServicesSound
  <2> SUFFICES ASSUME Inv PROVE ServicesSound
    OBVIOUS
  <2>1. Fifo!TypeOK /\ Fifo!PagesAccounted /\ Fifo!LengthIsBytes
    BY <1>0, FifoInvSays
  <2>2. Umm!TypeOK /\ Umm!IntegrityCheck /\ Umm!Coalesced /\ Umm!DataKept /\ Umm!RoomAsAsked
    BY HeapInvSays
  <2>3. Queue!TypeOK /\ Queue!ListsAreSound /\ Queue!MailIsAnnounced
    BY <1>0, QueueInvSays
  <2>4. CbTimer!TypeOK /\ CbTimer!SlotsAreDriven /\ CbTimer!ExpiredIsPending
    BY DEF TimerInv
  <2> QED BY <2>1, <2>2, <2>3, <2>4 DEF ServicesSound
<1> QED BY <1>1, <1>2, <1>3, <1>4, <1>5, <1>6, <1>7, PTL DEF ServicesSpec
=============================================================================
