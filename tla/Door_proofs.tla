---------------------------- MODULE Door_proofs -----------------------------
(***************************************************************************)
(* However the keys bounce, whatever beeps and requests the connection     *)
(* sends, and however many slots the callback timers have: the drivers     *)
(* keep their notes, the application knows whether the door is open, and   *)
(* every touch is reported once and as what it was.                        *)
(***************************************************************************)
EXTENDS Door, SequenceTheorems, WellFoundedInduction, TLAPS

Events == {"Short", "Long", "Enter", "Leave"}
Reports == Keys \X Events

Tables ==
  [data : [Slots -> Keys \cup {NoCallback}], left : [Slots -> 0 .. LongTouch],
   reload : [Slots -> {0}], events : SUBSET Slots]

Drivers ==
  [cb : Tables, keyState : SUBSET Keys, tidEn : SUBSET Keys, tid : [Keys -> Slots],
   msgs : Seq(Reports)]

(* A timer runs only for a callback, and the button has no slot but the    *)
(* one that its note names.                                                *)
Noted(g) ==
  \A k \in g.tidEn :
    LET i == g.tid[k]
    IN  g.cb.data[i] = k /\ (g.cb.left[i] > 0 \/ i \in g.cb.events)

InUse(cb) == \A i \in Slots : cb.left[i] > 0 => cb.data[i] # NoCallback

OneSlot(g) ==
  \A i \in Slots : g.cb.data[i] = Button => Button \in g.tidEn /\ g.tid[Button] = i

Sound(g) == Noted(g) /\ InUse(g.cb) /\ OneSlot(g)

(* The slot of the button measures how long it has been down.              *)
Measured(g, h) ==
  Button \in g.tidEn =>
    LET i == g.tid[Button]
    IN  /\ g.cb.left[i] + h = LongTouch
        /\ i \in g.cb.events <=> g.cb.left[i] = 0

(* A slot that is freed with its event set stays so until the callback     *)
(* task has run, and the keys are not read again before that.              *)
NoneFreed(cb) == \A i \in cb.events : cb.data[i] # NoCallback

-----------------------------------------------------------------------------
(* The least of some slots is one of them.                                 *)
LEMMA LeastSlot ==
  ASSUME NEW T, T \subseteq Slots, T # {}, DoorAssumption
  PROVE  FirstOf(T) \in T
<1> DEFINE Less == OpToRel(<, Nat)
<1>1. IsWellFoundedOn(Less, Nat)
  BY NatLessThanWellFounded
<1>2. Slots \subseteq Nat
  BY DEF Slots, DoorAssumption
<1>3. PICK x \in T : \A y \in T : <<y, x>> \notin Less
  BY <1>1, <1>2, WFMin
<1>4. \A y \in T : ~(y < x)
  BY <1>2, <1>3 DEF OpToRel
<1>5. \A y \in T : x <= y
  BY <1>2, <1>4
<1>6. \E l \in T : \A k \in T : l <= k
  BY <1>5
<1> QED BY <1>6 DEF FirstOf

(* The first unused slot is unused.                                        *)
LEMMA FreeSlot ==
  ASSUME DoorAssumption, NEW cb \in Tables, Unused(cb) # {}
  PROVE  FirstOf(Unused(cb)) \in Slots /\ cb.data[FirstOf(Unused(cb))] = NoCallback
<1>1. Unused(cb) \subseteq Slots
  BY DEF Unused
<1>2. FirstOf(Unused(cb)) \in Unused(cb)
  BY <1>1, LeastSlot
<1> QED BY <1>2 DEF Unused

(* What is reported.                                                       *)
LEMMA Reporting ==
  ASSUME NEW m \in Seq(Reports)
  PROVE  /\ Report(m, Button, "Enter") = m
         /\ Report(m, Button, "Leave") = m
         /\ Report(m, Button, "Short") = Append(m, <<Button, "Short">>)
         /\ Report(m, Button, "Long") = Append(m, <<Button, "Long">>)
         /\ Report(m, Door, "Enter") = Append(m, <<Door, "Enter">>)
         /\ Report(m, Door, "Leave") = Append(m, <<Door, "Leave">>)
         /\ Report(m, Door, "Short") = m
         /\ Report(m, Door, "Long") = m
<1>1. /\ KeyEvtEn[Button] = {"Short", "Long"}
      /\ KeyEvtEn[Door] = {"Enter", "Leave"}
  BY DEF KeyEvtEn, Keys, Button, Door
<1> QED BY <1>1 DEF Report

(* A table in which a slot was taken, and one in which it was freed.       *)
LEMMA Taken ==
  ASSUME DoorAssumption, NEW cb \in Tables, NEW k \in Keys, Unused(cb) # {},
         NEW i, i = FirstOf(Unused(cb)),
         NEW d, d = CbTimerStart(cb, k, LongTouch)
  PROVE  /\ d \in Tables /\ i \in Slots /\ cb.data[i] = NoCallback
         /\ d.data[i] = k /\ d.left[i] = LongTouch
         /\ \A j \in Slots \ {i} : d.data[j] = cb.data[j] /\ d.left[j] = cb.left[j]
         /\ d.events = cb.events
<1>1. i \in Slots /\ cb.data[i] = NoCallback
  BY FreeSlot
<1>2. d = [cb EXCEPT !.data[i] = k, !.left[i] = LongTouch]
  BY DEF CbTimerStart
<1>3. LongTouch \in 0 .. LongTouch
  BY DEF DoorAssumption
<1>4. /\ d.data = [cb.data EXCEPT ![i] = k] /\ d.left = [cb.left EXCEPT ![i] = LongTouch]
      /\ d.reload = cb.reload /\ d.events = cb.events
      /\ DOMAIN d = {"data", "left", "reload", "events"}
  BY <1>2 DEF Tables
<1>5. /\ [cb.data EXCEPT ![i] = k] \in [Slots -> Keys \cup {NoCallback}]
      /\ [cb.left EXCEPT ![i] = LongTouch] \in [Slots -> 0 .. LongTouch]
  BY <1>1, <1>3 DEF Tables
<1>6. d = [cb EXCEPT !.data = [cb.data EXCEPT ![i] = k],
                     !.left = [cb.left EXCEPT ![i] = LongTouch]]
  BY <1>2 DEF Tables
<1>7. d \in Tables
  BY <1>5, <1>6 DEF Tables
<1> QED BY <1>1, <1>4, <1>7 DEF Tables

(* A table in which a slot was freed.                                      *)
LEMMA Stopped ==
  ASSUME DoorAssumption, NEW cb \in Tables, NEW i \in Slots,
         NEW d, d = CbTimerStop(cb, i)
  PROVE  /\ d \in Tables
         /\ d.data[i] = NoCallback /\ d.left[i] = 0
         /\ \A j \in Slots \ {i} : d.data[j] = cb.data[j] /\ d.left[j] = cb.left[j]
         /\ d.events = cb.events
<1>1. d = [cb EXCEPT !.data[i] = NoCallback, !.left[i] = 0, !.reload[i] = 0]
  BY DEF CbTimerStop
<1>2. 0 \in 0 .. LongTouch
  BY DEF DoorAssumption
<1>3. /\ d.data = [cb.data EXCEPT ![i] = NoCallback] /\ d.left = [cb.left EXCEPT ![i] = 0]
      /\ d.reload = [cb.reload EXCEPT ![i] = 0] /\ d.events = cb.events
  BY <1>1 DEF Tables
<1>4. /\ [cb.data EXCEPT ![i] = NoCallback] \in [Slots -> Keys \cup {NoCallback}]
      /\ [cb.left EXCEPT ![i] = 0] \in [Slots -> 0 .. LongTouch]
      /\ [cb.reload EXCEPT ![i] = 0] \in [Slots -> {0}]
  BY <1>2 DEF Tables
<1>5. d = [cb EXCEPT !.data = [cb.data EXCEPT ![i] = NoCallback],
                     !.left = [cb.left EXCEPT ![i] = 0],
                     !.reload = [cb.reload EXCEPT ![i] = 0]]
  BY <1>1 DEF Tables
<1>6. d \in Tables
  BY <1>4, <1>5 DEF Tables
<1> QED BY <1>3, <1>6 DEF Tables

(* Reports are reports.                                                    *)
LEMMA ReportTyped ==
  ASSUME NEW m \in Seq(Reports), NEW k \in Keys, NEW e \in Events
  PROVE  Report(m, k, e) \in Seq(Reports)
<1>1. <<k, e>> \in Reports
  BY DEF Reports
<1>2. Append(m, <<k, e>>) \in Seq(Reports)
  BY <1>1, AppendProperties
<1> QED BY <1>2 DEF Report

(* A touch of a key begins, and ends.                                      *)
LEMMA Entered ==
  ASSUME DoorAssumption, NEW g \in Drivers, NEW k \in Keys, Unused(g.cb) # {},
         NEW r, r = TouchEnter(g, k)
  PROVE  /\ r \in Drivers
         /\ r.cb = CbTimerStart(g.cb, k, LongTouch)
         /\ r.tid = [g.tid EXCEPT ![k] = FirstOf(Unused(g.cb))]
         /\ r.tidEn = g.tidEn \cup {k} /\ r.keyState = g.keyState
         /\ r.msgs = Report(g.msgs, k, "Enter")
<1> DEFINE i == FirstOf(Unused(g.cb))
           cb == CbTimerStart(g.cb, k, LongTouch)
           m == Report(g.msgs, k, "Enter")
<1>1. /\ g.cb \in Tables /\ g.tid \in [Keys -> Slots] /\ g.msgs \in Seq(Reports)
      /\ g.tidEn \in SUBSET Keys
  BY DEF Drivers
<1>2. cb \in Tables /\ i \in Slots
  BY <1>1, Taken
<1>3. m \in Seq(Reports)
  BY <1>1, ReportTyped DEF Events
<1>4. r = [g EXCEPT !.cb = cb, !.tid = [g.tid EXCEPT ![k] = i],
                   !.tidEn = g.tidEn \cup {k}, !.msgs = m]
  BY <1>1 DEF TouchEnter, Drivers
<1>5. [g.tid EXCEPT ![k] = i] \in [Keys -> Slots] /\ g.tidEn \cup {k} \in SUBSET Keys
  BY <1>1, <1>2
<1> HIDE DEF cb, i, m
<1>6. /\ r.cb = cb /\ r.tid = [g.tid EXCEPT ![k] = i] /\ r.tidEn = g.tidEn \cup {k}
      /\ r.keyState = g.keyState /\ r.msgs = m
  BY <1>4 DEF Drivers
<1>7. r \in Drivers
  BY <1>2, <1>3, <1>4, <1>5 DEF Drivers
<1> QED BY <1>6, <1>7 DEF cb, i, m

(* A touch ends before its timer does ...                                  *)
LEMMA LeftTimed ==
  ASSUME DoorAssumption, NEW g \in Drivers, NEW k \in Keys, k \in g.tidEn,
         NEW r, r = TouchLeave(g, k)
  PROVE  /\ r \in Drivers
         /\ r.cb = CbTimerStop(g.cb, g.tid[k])
         /\ r.tid = g.tid /\ r.tidEn = g.tidEn \ {k} /\ r.keyState = g.keyState
         /\ r.msgs = Report(Report(g.msgs, k, "Short"), k, "Leave")
<1> DEFINE cb == CbTimerStop(g.cb, g.tid[k])
           m == Report(Report(g.msgs, k, "Short"), k, "Leave")
<1>1. /\ g.cb \in Tables /\ g.tid[k] \in Slots /\ g.msgs \in Seq(Reports)
      /\ g.tidEn \ {k} \in SUBSET Keys
  BY DEF Drivers
<1>2. cb \in Tables
  BY <1>1, Stopped
<1>3. m \in Seq(Reports)
  BY <1>1, ReportTyped DEF Events
<1>4. r = [g EXCEPT !.cb = cb, !.tidEn = g.tidEn \ {k}, !.msgs = m]
  BY DEF TouchLeave, Drivers
<1> HIDE DEF cb, m
<1>5. /\ r.cb = cb /\ r.tid = g.tid /\ r.tidEn = g.tidEn \ {k}
      /\ r.keyState = g.keyState /\ r.msgs = m
  BY <1>4 DEF Drivers
<1>6. r \in Drivers
  BY <1>1, <1>2, <1>3, <1>4 DEF Drivers
<1> QED BY <1>5, <1>6 DEF cb, m

(* ... and after it.                                                       *)
LEMMA LeftUntimed ==
  ASSUME NEW g \in Drivers, NEW k \in Keys, k \notin g.tidEn,
         NEW r, r = TouchLeave(g, k)
  PROVE  /\ r \in Drivers
         /\ r.cb = g.cb /\ r.tid = g.tid /\ r.tidEn = g.tidEn
         /\ r.keyState = g.keyState /\ r.msgs = Report(g.msgs, k, "Leave")
<1> DEFINE m == Report(g.msgs, k, "Leave")
<1>1. m \in Seq(Reports)
  BY ReportTyped DEF Events, Drivers
<1>2. r = [g EXCEPT !.msgs = m]
  BY DEF TouchLeave, Drivers
<1> HIDE DEF m
<1>3. /\ r.cb = g.cb /\ r.tid = g.tid /\ r.tidEn = g.tidEn
      /\ r.keyState = g.keyState /\ r.msgs = m
  BY <1>2 DEF Drivers
<1>4. r \in Drivers
  BY <1>1, <1>2 DEF Drivers
<1> QED BY <1>3, <1>4 DEF m

(* The notes stay right when a touch begins, the button's if it was not    *)
(* being timed.                                                            *)
LEMMA SoundWhenEntered ==
  ASSUME DoorAssumption, NEW g \in Drivers, NEW k \in Keys, Unused(g.cb) # {},
         NEW r, r = TouchEnter(g, k), Sound(g), k = Button => Button \notin g.tidEn
  PROVE  Sound(r)
<1> DEFINE i == FirstOf(Unused(g.cb))
<1>1. /\ r.tid = [g.tid EXCEPT ![k] = i] /\ r.tidEn = g.tidEn \cup {k}
      /\ r.cb = CbTimerStart(g.cb, k, LongTouch)
  BY Entered
<1>2. g.cb \in Tables /\ g.tid \in [Keys -> Slots] /\ g.tidEn \in SUBSET Keys
  BY DEF Drivers
<1> DEFINE cb == r.cb
<1>3. /\ i \in Slots /\ g.cb.data[i] = NoCallback
      /\ cb.data[i] = k /\ cb.left[i] = LongTouch
      /\ \A j \in Slots \ {i} : cb.data[j] = g.cb.data[j] /\ cb.left[j] = g.cb.left[j]
      /\ cb.events = g.cb.events
  BY <1>1, <1>2, Taken
<1>4. NoCallback \notin Keys /\ LongTouch \in Nat \ {0}
  BY DEF DoorAssumption
<1> HIDE DEF i
<1>5. r.tid[k] = i /\ \A x \in Keys \ {k} : r.tid[x] = g.tid[x]
  BY <1>1, <1>2, <1>3
<1>6. \A x \in g.tidEn : g.tid[x] # i
  BY <1>2, <1>3, <1>4 DEF Sound, Noted
<1>7. Noted(r)
  <2> SUFFICES ASSUME NEW x \in r.tidEn
               PROVE  cb.data[r.tid[x]] = x /\ (cb.left[r.tid[x]] > 0 \/ r.tid[x] \in cb.events)
    BY DEF Noted
  <2>1. CASE x = k
    BY <1>3, <1>4, <1>5, <2>1
  <2>2. CASE x # k
    <3>1. x \in g.tidEn /\ x \in Keys /\ r.tid[x] = g.tid[x] /\ g.tid[x] \in Slots \ {i}
      BY <1>1, <1>2, <1>5, <1>6, <2>2
    <3> QED BY <1>3, <3>1 DEF Sound, Noted
  <2> QED BY <2>1, <2>2
<1>8. InUse(r.cb)
  BY <1>3, <1>4 DEF Sound, InUse
<1>9. OneSlot(r)
  <2> SUFFICES ASSUME NEW j \in Slots, cb.data[j] = Button
               PROVE  Button \in r.tidEn /\ r.tid[Button] = j
    BY DEF OneSlot
  <2>1. CASE j = i
    BY <1>1, <1>3, <1>5, <2>1
  <2>2. CASE j # i
    <3>1. g.cb.data[j] = Button
      BY <1>3, <2>2
    <3>2. Button \in g.tidEn /\ g.tid[Button] = j
      BY <3>1 DEF Sound, OneSlot
    <3> QED BY <1>1, <1>2, <1>5, <3>2
  <2> QED BY <2>1, <2>2
<1> QED BY <1>7, <1>8, <1>9 DEF Sound

(* They stay right when a touch ends.                                      *)
LEMMA SoundWhenLeft ==
  ASSUME DoorAssumption, NEW g \in Drivers, NEW k \in Keys,
         NEW r, r = TouchLeave(g, k), Sound(g)
  PROVE  Sound(r)
<1>1. CASE k \notin g.tidEn
  <2>1. r.cb = g.cb /\ r.tid = g.tid /\ r.tidEn = g.tidEn
    BY <1>1, LeftUntimed
  <2> QED BY <2>1 DEF Sound, Noted, InUse, OneSlot
<1>2. CASE k \in g.tidEn
  <2> DEFINE i == g.tid[k]
             cb == r.cb
  <2>1. r.tid = g.tid /\ r.tidEn = g.tidEn \ {k} /\ r.cb = CbTimerStop(g.cb, i)
    BY <1>2, LeftTimed
  <2>2. g.cb \in Tables /\ g.tid \in [Keys -> Slots] /\ g.tidEn \in SUBSET Keys
    BY DEF Drivers
  <2>3. i \in Slots
    BY <2>2
  <2>5. g.cb.data[i] = k
    BY <1>2 DEF Sound, Noted
  <2> HIDE DEF i
  <2>4. /\ cb.data[i] = NoCallback /\ cb.left[i] = 0
        /\ \A j \in Slots \ {i} : cb.data[j] = g.cb.data[j] /\ cb.left[j] = g.cb.left[j]
        /\ cb.events = g.cb.events
    <3> DEFINE d == CbTimerStop(g.cb, i)
    <3>1. /\ d.data[i] = NoCallback /\ d.left[i] = 0
          /\ \A j \in Slots \ {i} : d.data[j] = g.cb.data[j] /\ d.left[j] = g.cb.left[j]
          /\ d.events = g.cb.events
      BY <2>2, <2>3, Stopped
    <3> QED BY <2>1, <3>1, Zenon
  <2>6. NoCallback \notin Keys
    BY DEF DoorAssumption
  <2>7. Noted(r)
    <3> SUFFICES ASSUME NEW x \in r.tidEn
                 PROVE  /\ cb.data[r.tid[x]] = x
                        /\ cb.left[r.tid[x]] > 0 \/ r.tid[x] \in cb.events
      BY DEF Noted
    <3>1. x \in g.tidEn /\ x # k /\ r.tid[x] = g.tid[x]
      BY <2>1
    <3>2. g.cb.data[g.tid[x]] = x /\ (g.cb.left[g.tid[x]] > 0 \/ g.tid[x] \in g.cb.events)
      BY <3>1 DEF Sound, Noted
    <3>3. g.tid[x] \in Slots \ {i}
      BY <2>2, <2>5, <3>1, <3>2
    <3> QED BY <2>4, <3>1, <3>2, <3>3
  <2>8. InUse(r.cb)
    BY <2>3, <2>4 DEF Sound, InUse
  <2>9. OneSlot(r)
    <3> SUFFICES ASSUME NEW j \in Slots, cb.data[j] = Button
                 PROVE  Button \in r.tidEn /\ r.tid[Button] = j
      BY DEF OneSlot
    <3>1. j # i
      BY <2>4, <2>6 DEF Keys
    <3>2. g.cb.data[j] = Button
      BY <2>4, <3>1
    <3>3. Button \in g.tidEn /\ g.tid[Button] = j
      BY <3>2 DEF Sound, OneSlot
    <3>4. k # Button
      BY <3>1, <3>3 DEF i
    <3> QED BY <2>1, <3>3, <3>4
  <2> QED BY <2>7, <2>8, <2>9 DEF Sound
<1> QED BY <1>1, <1>2

(* The round of the button, in which no slot is taken that is still to be  *)
(* called for another touch.                                               *)
ShortReport(g, pins) ==
  IF Button \in g.keyState \ pins /\ Button \in g.tidEn THEN <<<<Button, "Short">>>> ELSE <<>>

(* The button is pressed: its touch is timed from now on.                  *)
LEMMA ButtonDown ==
  ASSUME DoorAssumption, NEW g \in Drivers, Sound(g), NoneFreed(g.cb),
         Button \notin g.tidEn, Unused(g.cb) # {}, NEW r, r = TouchEnter(g, Button)
  PROVE  /\ r \in Drivers /\ Sound(r) /\ r.keyState = g.keyState
         /\ Measured(r, 0) /\ Button \in r.tidEn /\ r.msgs = g.msgs
<1> DEFINE i == FirstOf(Unused(g.cb))
           d == CbTimerStart(g.cb, Button, LongTouch)
<1>1. Button \in Keys /\ g.msgs \in Seq(Reports) /\ g.cb \in Tables
  BY DEF Keys, Drivers
<1>2. r \in Drivers /\ r.keyState = g.keyState /\ r.tidEn = g.tidEn \cup {Button}
  BY <1>1, Entered
<1>3. r.cb = d
  BY <1>1, Entered
<1>4. r.tid = [g.tid EXCEPT ![Button] = i]
  BY <1>1, Entered
<1>5. r.msgs = Report(g.msgs, Button, "Enter")
  BY <1>1, Entered
<1>6. Sound(r)
  BY <1>1, SoundWhenEntered
<1>7. r.msgs = g.msgs
  BY <1>1, <1>5, Reporting
<1>8. /\ i \in Slots /\ g.cb.data[i] = NoCallback /\ d.left[i] = LongTouch
      /\ d.events = g.cb.events
  BY <1>1, Taken
<1>9. r.tid[Button] = i
  BY <1>1, <1>4 DEF Drivers
<1>10. i \notin g.cb.events
  BY <1>8 DEF NoneFreed
<1> HIDE DEF i, d
<1>11. r.cb.left[r.tid[Button]] = LongTouch /\ r.tid[Button] \notin r.cb.events
  BY <1>3, <1>8, <1>9, <1>10, Zenon
<1>12. Measured(r, 0)
  BY <1>11 DEF Measured, DoorAssumption
<1> QED BY <1>2, <1>6, <1>7, <1>12

(* The round of the loop for the button.                                   *)
LEMMA ButtonRound ==
  ASSUME DoorAssumption, NEW g \in Drivers, NEW h \in 0 .. LongTouch, NEW pins,
         Sound(g), Measured(g, h), NoneFreed(g.cb),
         Button \in g.tidEn => Button \in g.keyState,
         Button \in pins \ g.keyState => Unused(g.cb) # {},
         NEW r, r = Handle(g, Button, pins)
  PROVE  /\ r \in Drivers /\ Sound(r) /\ r.keyState = g.keyState
         /\ Measured(r, IF Button \in g.keyState \cap pins THEN h ELSE 0)
         /\ Button \in r.tidEn
              <=> Button \in pins /\ (Button \in g.tidEn \/ Button \notin g.keyState)
         /\ r.msgs = g.msgs \o ShortReport(g, pins)
<1>1. Button \in Keys /\ g.msgs \in Seq(Reports) /\ g.cb \in Tables
  BY DEF Keys, Drivers
<1>2. g.msgs \o <<>> = g.msgs
  BY <1>1
<1>3. CASE Button \in pins /\ Button \notin g.keyState
  <2>1. r = TouchEnter(g, Button) /\ Unused(g.cb) # {} /\ Button \notin g.tidEn
    BY <1>3 DEF Handle
  <2>2. /\ r \in Drivers /\ Sound(r) /\ r.keyState = g.keyState
        /\ Measured(r, 0) /\ Button \in r.tidEn /\ r.msgs = g.msgs
    BY <2>1, ButtonDown, Zenon
  <2>3. ShortReport(g, pins) = <<>>
    BY <1>3 DEF ShortReport
  <2>4. r.msgs = g.msgs \o ShortReport(g, pins)
    BY <1>2, <2>2, <2>3
  <2>5. Measured(r, IF Button \in g.keyState \cap pins THEN h ELSE 0)
    BY <1>3, <2>2
  <2> QED BY <1>3, <2>2, <2>4, <2>5
<1>4. CASE Button \notin pins /\ Button \in g.keyState /\ Button \in g.tidEn
  <2>1. r = TouchLeave(g, Button)
    BY <1>4 DEF Handle
  <2>2. /\ r \in Drivers /\ r.keyState = g.keyState /\ r.tidEn = g.tidEn \ {Button}
        /\ r.msgs = Report(Report(g.msgs, Button, "Short"), Button, "Leave")
    BY <1>1, <1>4, <2>1, LeftTimed
  <2>3. Sound(r)
    BY <1>1, <2>1, SoundWhenLeft, Zenon
  <2>4. r.msgs = Append(g.msgs, <<Button, "Short">>)
    <3>1. Report(g.msgs, Button, "Short") \in Seq(Reports)
      BY <1>1, ReportTyped DEF Events
    <3> QED BY <1>1, <2>2, <3>1, Reporting
  <2>5. ShortReport(g, pins) = <<<<Button, "Short">>>>
    BY <1>4 DEF ShortReport
  <2>6. <<Button, "Short">> \in Reports
    BY DEF Reports, Keys, Events
  <2>7. Append(g.msgs, <<Button, "Short">>) = g.msgs \o <<<<Button, "Short">>>>
    BY <1>1, <2>6, AppendIsConcat
  <2>8. r.msgs = g.msgs \o ShortReport(g, pins)
    BY <2>4, <2>5, <2>7
  <2>9. Button \notin r.tidEn
    BY <2>2
  <2> QED BY <1>4, <2>2, <2>3, <2>8, <2>9 DEF Measured
<1>5. CASE Button \notin pins /\ Button \in g.keyState /\ Button \notin g.tidEn
  <2>1. r = TouchLeave(g, Button)
    BY <1>5 DEF Handle
  <2>2. /\ r \in Drivers /\ r.keyState = g.keyState /\ r.tidEn = g.tidEn
        /\ r.msgs = Report(g.msgs, Button, "Leave")
    BY <1>1, <1>5, <2>1, LeftUntimed
  <2>3. Sound(r)
    BY <1>1, <2>1, SoundWhenLeft, Zenon
  <2>4. r.msgs = g.msgs
    BY <1>1, <2>2, Reporting
  <2>5. ShortReport(g, pins) = <<>>
    BY <1>5 DEF ShortReport
  <2>6. r.msgs = g.msgs \o ShortReport(g, pins)
    BY <1>2, <2>4, <2>5
  <2> QED BY <1>5, <2>2, <2>3, <2>6 DEF Measured
<1>6. CASE Button \in pins <=> Button \in g.keyState
  <2>1. r = g
    BY <1>6 DEF Handle
  <2>2. ShortReport(g, pins) = <<>>
    BY <1>6 DEF ShortReport
  <2>3. Measured(g, IF Button \in g.keyState \cap pins THEN h ELSE 0)
    BY <1>6 DEF Measured
  <2> QED BY <1>2, <1>6, <2>1, <2>2, <2>3
<1> QED BY <1>3, <1>4, <1>5, <1>6

(* The round of the door, which does not touch the button's slot.          *)
DoorReport(g, pins) ==
  CASE Door \in pins \ g.keyState -> <<<<Door, "Enter">>>>
    [] Door \in g.keyState \ pins -> <<<<Door, "Leave">>>>
    [] OTHER -> <<>>

SameTiming(g, r) ==
  /\ Button \in r.tidEn <=> Button \in g.tidEn
  /\ Button \in g.tidEn =>
       /\ r.tid[Button] = g.tid[Button]
       /\ r.cb.left[r.tid[Button]] = g.cb.left[g.tid[Button]]
       /\ r.tid[Button] \in r.cb.events <=> g.tid[Button] \in g.cb.events

(* The measure of the button depends on its timing alone.                  *)
LEMMA StillMeasured ==
  ASSUME NEW g, NEW r, NEW h, SameTiming(g, r), Measured(g, h)
  PROVE  Measured(r, h)
BY DEF SameTiming, Measured

(* The door closes: the timing of the button is not disturbed ...          *)
LEMMA DoorDown ==
  ASSUME DoorAssumption, NEW g \in Drivers, Sound(g), Unused(g.cb) # {},
         NEW r, r = TouchEnter(g, Door)
  PROVE  /\ r \in Drivers /\ Sound(r) /\ r.keyState = g.keyState
         /\ SameTiming(g, r) /\ r.msgs = Append(g.msgs, <<Door, "Enter">>)
<1> DEFINE i == FirstOf(Unused(g.cb))
           d == CbTimerStart(g.cb, Door, LongTouch)
<1>1. /\ Door \in Keys /\ Button \in Keys /\ Door # Button
      /\ g.msgs \in Seq(Reports) /\ g.cb \in Tables /\ g.tid \in [Keys -> Slots]
  BY DEF Keys, Drivers, Door, Button
<1>2. r \in Drivers /\ r.keyState = g.keyState /\ r.tidEn = g.tidEn \cup {Door}
  BY <1>1, Entered
<1>3. r.cb = d
  BY <1>1, Entered
<1>4. r.tid = [g.tid EXCEPT ![Door] = i]
  BY <1>1, Entered
<1>5. r.msgs = Report(g.msgs, Door, "Enter")
  BY <1>1, Entered
<1>6. Sound(r)
  BY <1>1, SoundWhenEntered
<1>7. r.msgs = Append(g.msgs, <<Door, "Enter">>)
  BY <1>1, <1>5, Reporting
<1>8. /\ i \in Slots /\ g.cb.data[i] = NoCallback
      /\ \A j \in Slots \ {i} : d.left[j] = g.cb.left[j]
      /\ d.events = g.cb.events
  BY <1>1, Taken
<1> HIDE DEF i, d
<1>9. ASSUME Button \in g.tidEn
      PROVE  /\ r.tid[Button] = g.tid[Button]
             /\ r.cb.left[r.tid[Button]] = g.cb.left[g.tid[Button]]
             /\ r.tid[Button] \in r.cb.events <=> g.tid[Button] \in g.cb.events
  <2>1. r.tid[Button] = g.tid[Button] /\ g.tid[Button] \in Slots
    BY <1>1, <1>4
  <2>2. g.cb.data[g.tid[Button]] = Button
    BY <1>9 DEF Sound, Noted
  <2>3. g.tid[Button] # i
    BY <1>1, <1>8, <2>2 DEF DoorAssumption
  <2> QED BY <1>3, <1>8, <2>1, <2>3
<1>10. SameTiming(g, r)
  BY <1>1, <1>2, <1>9 DEF SameTiming
<1> QED BY <1>2, <1>6, <1>7, <1>10

(* ... nor when it opens, whichever slot is freed.                         *)
LEMMA DoorUp ==
  ASSUME DoorAssumption, NEW g \in Drivers, Sound(g), NEW r, r = TouchLeave(g, Door)
  PROVE  /\ r \in Drivers /\ Sound(r) /\ r.keyState = g.keyState
         /\ SameTiming(g, r) /\ r.msgs = Append(g.msgs, <<Door, "Leave">>)
<1>1. /\ Door \in Keys /\ Button \in Keys /\ Door # Button
      /\ g.msgs \in Seq(Reports) /\ g.cb \in Tables /\ g.tid \in [Keys -> Slots]
  BY DEF Keys, Drivers, Door, Button
<1>2. Sound(r)
  BY <1>1, SoundWhenLeft
<1>3. CASE Door \notin g.tidEn
  <2>1. /\ r \in Drivers /\ r.cb = g.cb /\ r.tid = g.tid /\ r.tidEn = g.tidEn
        /\ r.keyState = g.keyState
    BY <1>1, <1>3, LeftUntimed
  <2>2. r.msgs = Report(g.msgs, Door, "Leave")
    BY <1>1, <1>3, LeftUntimed
  <2>3. r.msgs = Append(g.msgs, <<Door, "Leave">>)
    BY <1>1, <2>2, Reporting
  <2> QED BY <1>2, <2>1, <2>3 DEF SameTiming
<1>4. CASE Door \in g.tidEn
  <2> DEFINE i == g.tid[Door]
             d == CbTimerStop(g.cb, i)
  <2>1. r \in Drivers /\ r.keyState = g.keyState /\ r.tidEn = g.tidEn \ {Door}
    BY <1>1, <1>4, LeftTimed
  <2>2. r.cb = d /\ r.tid = g.tid
    BY <1>1, <1>4, LeftTimed
  <2>3. r.msgs = Report(Report(g.msgs, Door, "Short"), Door, "Leave")
    BY <1>1, <1>4, LeftTimed
  <2>4. r.msgs = Append(g.msgs, <<Door, "Leave">>)
    BY <1>1, <2>3, Reporting
  <2>5. i \in Slots
    BY <1>1
  <2>5a. g.cb.data[i] = Door
    BY <1>4 DEF Sound, Noted
  <2> HIDE DEF i
  <2>6. /\ d.data[i] = NoCallback /\ d.left[i] = 0
        /\ \A j \in Slots \ {i} : d.data[j] = g.cb.data[j] /\ d.left[j] = g.cb.left[j]
        /\ d.events = g.cb.events
    BY <1>1, <2>5, Stopped
  <2> HIDE DEF d
  <2>7. ASSUME Button \in g.tidEn
        PROVE  /\ r.tid[Button] = g.tid[Button]
               /\ r.cb.left[r.tid[Button]] = g.cb.left[g.tid[Button]]
               /\ r.tid[Button] \in r.cb.events <=> g.tid[Button] \in g.cb.events
    <3>1. g.cb.data[g.tid[Button]] = Button /\ g.tid[Button] \in Slots
      BY <1>1, <2>7 DEF Sound, Noted
    <3>2. g.tid[Button] # i
      BY <1>1, <2>5a, <3>1
    <3> QED BY <2>2, <2>6, <3>1, <3>2
  <2>8. SameTiming(g, r)
    BY <1>1, <2>1, <2>7 DEF SameTiming
  <2> QED BY <1>2, <2>1, <2>4, <2>8
<1> QED BY <1>3, <1>4

(* The round of the loop for the door.                                     *)
LEMMA DoorRound ==
  ASSUME DoorAssumption, NEW g \in Drivers, NEW pins, Sound(g),
         Door \in pins \ g.keyState => Unused(g.cb) # {},
         NEW r, r = Handle(g, Door, pins)
  PROVE  /\ r \in Drivers /\ Sound(r) /\ r.keyState = g.keyState
         /\ SameTiming(g, r) /\ r.msgs = g.msgs \o DoorReport(g, pins)
<1>1. /\ g.msgs \in Seq(Reports) /\ <<Door, "Enter">> \in Reports
      /\ <<Door, "Leave">> \in Reports
  BY DEF Keys, Drivers, Reports, Events
<1>2. g.msgs \o <<>> = g.msgs
  BY <1>1
<1>2a. Append(g.msgs, <<Door, "Enter">>) = g.msgs \o <<<<Door, "Enter">>>>
  BY <1>1, AppendIsConcat
<1>2b. Append(g.msgs, <<Door, "Leave">>) = g.msgs \o <<<<Door, "Leave">>>>
  BY <1>1, AppendIsConcat
<1>3. CASE Door \in pins /\ Door \notin g.keyState
  <2>1. r = TouchEnter(g, Door) /\ Unused(g.cb) # {}
    BY <1>3 DEF Handle
  <2>2. /\ r \in Drivers /\ Sound(r) /\ r.keyState = g.keyState
        /\ SameTiming(g, r) /\ r.msgs = Append(g.msgs, <<Door, "Enter">>)
    BY <2>1, DoorDown, Zenon
  <2>3. DoorReport(g, pins) = <<<<Door, "Enter">>>>
    BY <1>3 DEF DoorReport
  <2> QED BY <1>2a, <2>2, <2>3
<1>4. CASE Door \notin pins /\ Door \in g.keyState
  <2>1. r = TouchLeave(g, Door)
    BY <1>4 DEF Handle
  <2>2. /\ r \in Drivers /\ Sound(r) /\ r.keyState = g.keyState
        /\ SameTiming(g, r) /\ r.msgs = Append(g.msgs, <<Door, "Leave">>)
    BY <2>1, DoorUp, Zenon
  <2>3. DoorReport(g, pins) = <<<<Door, "Leave">>>>
    BY <1>4 DEF DoorReport
  <2> QED BY <1>2b, <2>2, <2>3
<1>5. CASE Door \in pins <=> Door \in g.keyState
  <2>1. r = g
    BY <1>5 DEF Handle
  <2>2. DoorReport(g, pins) = <<>>
    BY <1>5 DEF DoorReport
  <2> QED BY <1>2, <2>1, <2>2 DEF SameTiming
<1> QED BY <1>3, <1>4, <1>5

-----------------------------------------------------------------------------
(* A reading of the keys: both rounds.                                     *)
LEMMA Reading ==
  ASSUME DoorAssumption, NEW g \in Drivers, NEW h \in 0 .. LongTouch, NEW pins \in SUBSET Keys,
         Sound(g), Measured(g, h), NoneFreed(g.cb), SlotsSuffice(g, pins),
         Button \in g.tidEn => Button \in g.keyState,
         NEW r, r = HalKeyHandle(g, pins)
  PROVE  /\ r \in Drivers /\ Sound(r) /\ r.keyState = pins
         /\ Measured(r, IF Button \in g.keyState \cap pins THEN h ELSE 0)
         /\ Button \in r.tidEn
              <=> Button \in pins /\ (Button \in g.tidEn \/ Button \notin g.keyState)
         /\ r.msgs = (g.msgs \o ShortReport(g, pins)) \o DoorReport(g, pins)
<1> DEFINE h2 == IF Button \in g.keyState \cap pins THEN h ELSE 0
           b == Handle(g, Button, pins)
           d == Handle(b, Door, pins)
<1>1. Button \in pins \ g.keyState => Unused(g.cb) # {}
  BY DEF SlotsSuffice
<1>2. Door \in pins \ g.keyState => Unused(b.cb) # {}
  BY DEF SlotsSuffice
<1>3. r = [d EXCEPT !.keyState = pins]
  BY DEF HalKeyHandle
<1> HIDE DEF d
<1>4. /\ b \in Drivers /\ Sound(b) /\ b.keyState = g.keyState
      /\ Measured(b, h2)
      /\ Button \in b.tidEn
              <=> Button \in pins /\ (Button \in g.tidEn \/ Button \notin g.keyState)
      /\ b.msgs = g.msgs \o ShortReport(g, pins)
  BY <1>1, ButtonRound, Zenon
<1>5. d = Handle(b, Door, pins)
  BY DEF d
<1> HIDE DEF b, h2
<1>6. Door \in pins \ b.keyState => Unused(b.cb) # {}
  BY <1>2, <1>4
<1>7. /\ d \in Drivers /\ Sound(d) /\ SameTiming(b, d)
      /\ d.msgs = b.msgs \o DoorReport(b, pins)
  BY <1>4, <1>5, <1>6, DoorRound, Zenon
<1>8. DoorReport(b, pins) = DoorReport(g, pins)
  BY <1>4, Zenon DEF DoorReport
<1>9. Measured(d, h2)
  BY <1>4, <1>7, StillMeasured
<1>10. /\ r.cb = d.cb /\ r.tid = d.tid /\ r.tidEn = d.tidEn /\ r.msgs = d.msgs
       /\ r.keyState = pins
  BY <1>3, <1>7 DEF Drivers
<1>11. r \in Drivers
  BY <1>3, <1>7 DEF Drivers
<1>12. Sound(r)
  BY <1>7, <1>10 DEF Sound, Noted, InUse, OneSlot
<1>13. Measured(r, h2)
  BY <1>9, <1>10 DEF Measured
<1>14. Button \in r.tidEn <=> Button \in b.tidEn
  BY <1>7, <1>10 DEF SameTiming
<1>15. r.msgs = (g.msgs \o ShortReport(g, pins)) \o DoorReport(g, pins)
  BY <1>4, <1>7, <1>8, <1>10
<1> QED BY <1>4, <1>10, <1>11, <1>12, <1>13, <1>14, <1>15, Zenon DEF h2

(* The callback task handles the first of its events.                      *)
LEMMA Handled ==
  ASSUME DoorAssumption, NEW cb \in Tables, cb.events # {},
         NEW i, i = FirstOf(cb.events), NEW d, d = CbTimerHandled(cb)
  PROVE  /\ d \in Tables /\ i \in cb.events /\ i \in Slots
         /\ d.data[i] = IF cb.left[i] = 0 THEN NoCallback ELSE cb.data[i]
         /\ \A j \in Slots \ {i} : d.data[j] = cb.data[j]
         /\ d.left = cb.left /\ d.events = cb.events \ {i}
<1>1. cb.events \subseteq Slots /\ cb.data \in [Slots -> Keys \cup {NoCallback}]
  BY DEF Tables
<1>2. i \in cb.events /\ i \in Slots
  BY <1>1, LeastSlot
<1> DEFINE x == IF cb.left[i] = 0 THEN NoCallback ELSE cb.data[i]
<1>3. x \in Keys \cup {NoCallback}
  BY <1>1, <1>2
<1>4. d = [cb EXCEPT !.events = cb.events \ {i}, !.data = [cb.data EXCEPT ![i] = x]]
  BY DEF CbTimerHandled, Tables
<1> HIDE DEF x
<1>5. [cb.data EXCEPT ![i] = x] \in [Slots -> Keys \cup {NoCallback}]
  BY <1>1, <1>3
<1>6. d \in Tables
  BY <1>1, <1>4, <1>5 DEF Tables
<1>7. d.data = [cb.data EXCEPT ![i] = x] /\ d.left = cb.left /\ d.events = cb.events \ {i}
  BY <1>4 DEF Tables
<1> QED BY <1>1, <1>2, <1>6, <1>7 DEF x

(* A callback is called, and a slot may have none.                         *)
LEMMA Called ==
  ASSUME DoorAssumption, NEW g \in Drivers, g.cb.events # {},
         NEW i, i = FirstOf(g.cb.events), NEW x, x = g.cb.data[i],
         NEW r, r = CbTimerProcessEvent(g)
  PROVE  /\ r \in Drivers /\ r.cb = CbTimerHandled(g.cb)
         /\ r.keyState = g.keyState /\ r.tid = g.tid /\ r.tidEn = g.tidEn \ {x}
         /\ r.msgs = IF x = Button THEN Append(g.msgs, <<Button, "Long">>) ELSE g.msgs
<1> DEFINE d == CbTimerHandled(g.cb)
           called == IF x = NoCallback THEN g ELSE onButtonTouchLong(g, x)
           m == IF x = Button THEN Append(g.msgs, <<Button, "Long">>) ELSE g.msgs
<1>1. /\ g.cb \in Tables /\ g.msgs \in Seq(Reports) /\ g.tidEn \in SUBSET Keys
  BY DEF Drivers
<1>2. d \in Tables /\ i \in Slots
  BY <1>1, Handled
<1>3. x \in Keys \cup {NoCallback} /\ NoCallback \notin Keys
  BY <1>1, <1>2 DEF Tables, DoorAssumption
<1>4. Button \in Keys /\ Keys = {Button, Door} /\ Button # Door
  BY DEF Keys, Button, Door
<1>5. m \in Seq(Reports)
  <2>1. <<Button, "Long">> \in Reports
    BY <1>4 DEF Reports, Events
  <2>2. Append(g.msgs, <<Button, "Long">>) \in Seq(Reports)
    BY <1>1, <2>1, AppendProperties
  <2> QED BY <1>1, <2>2
<1>6. called = [g EXCEPT !.tidEn = g.tidEn \ {x}, !.msgs = m]
  <2>1. CASE x = NoCallback
    <3>1. g.tidEn \ {x} = g.tidEn /\ m = g.msgs
      BY <1>1, <1>3, <1>4, <2>1
    <3>2. g = [g EXCEPT !.tidEn = g.tidEn, !.msgs = g.msgs]
      BY DEF Drivers
    <3> QED BY <2>1, <3>1, <3>2
  <2>2. CASE x # NoCallback
    <3>1. x \in Keys
      BY <1>3, <2>2
    <3>2. Report(g.msgs, x, "Long") = m
      BY <1>1, <1>4, <3>1, Reporting
    <3> QED BY <2>2, <3>2 DEF onButtonTouchLong, Drivers
  <2> QED BY <2>1, <2>2
<1>7. r = [called EXCEPT !.cb = CbTimerHandled(called.cb)]
  BY DEF CbTimerProcessEvent
<1> HIDE DEF m, called
<1>8. called.cb = g.cb /\ called \in Drivers
  BY <1>1, <1>5, <1>6 DEF Drivers
<1>9. r = [called EXCEPT !.cb = d]
  BY <1>7, <1>8
<1> HIDE DEF d
<1>10. r.cb = d /\ r.keyState = g.keyState /\ r.tid = g.tid /\ r.tidEn = g.tidEn \ {x}
       /\ r.msgs = m
  BY <1>6, <1>8, <1>9 DEF Drivers
<1>11. r \in Drivers
  BY <1>2, <1>8, <1>9 DEF Drivers
<1> QED BY <1>10, <1>11 DEF d, m

(* A callback keeps the notes right, also one that comes too early.        *)
LEMMA SoundWhenCalled ==
  ASSUME DoorAssumption, NEW g \in Drivers, NEW h \in 0 .. LongTouch, g.cb.events # {},
         Sound(g), Measured(g, h), NEW r, r = CbTimerProcessEvent(g)
  PROVE  Sound(r) /\ Measured(r, h)
<1> DEFINE i == FirstOf(g.cb.events)
           x == g.cb.data[i]
<1>1. g.cb \in Tables /\ g.tid \in [Keys -> Slots] /\ g.tidEn \in SUBSET Keys
  BY DEF Drivers
<1>2. /\ r.cb = CbTimerHandled(g.cb) /\ r.tid = g.tid /\ r.tidEn = g.tidEn \ {x}
  BY Called
<1> DEFINE d == CbTimerHandled(g.cb)
<1>3. /\ i \in g.cb.events /\ i \in Slots
      /\ d.data[i] = IF g.cb.left[i] = 0 THEN NoCallback ELSE x
      /\ \A j \in Slots \ {i} : d.data[j] = g.cb.data[j]
      /\ d.left = g.cb.left /\ d.events = g.cb.events \ {i}
  BY <1>1, Handled
<1>4. NoCallback \notin Keys /\ Button \in Keys /\ g.cb.left \in [Slots -> 0 .. LongTouch]
  BY <1>1 DEF DoorAssumption, Keys, Tables
<1> HIDE DEF i, x, d
<1>5. \A k \in r.tidEn : /\ k \in g.tidEn /\ k # x /\ g.cb.data[g.tid[k]] = k
                         /\ g.tid[k] \in Slots \ {i}
  BY <1>1, <1>2 DEF Sound, Noted, x
<1>6. Noted(r)
  <2> SUFFICES ASSUME NEW k \in r.tidEn
               PROVE  LET j == g.tid[k] IN d.data[j] = k /\ (d.left[j] > 0 \/ j \in d.events)
    BY <1>2 DEF Noted, d
  <2>1. g.cb.left[g.tid[k]] > 0 \/ g.tid[k] \in g.cb.events
    BY <1>5 DEF Sound, Noted
  <2> QED BY <1>3, <1>5, <2>1
<1>7. InUse(r.cb)
  <2> SUFFICES ASSUME NEW j \in Slots, d.left[j] > 0
               PROVE  d.data[j] # NoCallback
    BY <1>2 DEF InUse, d
  <2>1. g.cb.data[j] # NoCallback
    BY <1>3 DEF Sound, InUse
  <2>2. CASE j = i
    BY <1>3, <2>1, <2>2 DEF x
  <2>3. CASE j # i
    BY <1>3, <2>1, <2>3
  <2> QED BY <2>2, <2>3
<1>8. OneSlot(r)
  <2> SUFFICES ASSUME NEW j \in Slots, d.data[j] = Button
               PROVE  Button \in r.tidEn /\ r.tid[Button] = j
    BY <1>2 DEF OneSlot, d
  <2>1. CASE j = i
    <3>1. g.cb.left[i] # 0 /\ g.cb.data[i] = Button
      BY <1>3, <1>4, <2>1 DEF x
    <3>2. Button \in g.tidEn /\ g.tid[Button] = i
      BY <1>3, <3>1 DEF Sound, OneSlot
    <3> QED BY <1>3, <3>1, <3>2 DEF Measured
  <2>2. CASE j # i
    <3>1. g.cb.data[j] = Button
      BY <1>3, <2>2
    <3>2. Button \in g.tidEn /\ g.tid[Button] = j
      BY <3>1 DEF Sound, OneSlot
    <3>3. x # Button
      BY <1>3, <2>2, <3>2 DEF Sound, OneSlot, x
    <3> QED BY <1>2, <3>2, <3>3
  <2> QED BY <2>1, <2>2
<1>9. Measured(r, h)
  BY <1>2, <1>3, <1>5 DEF Measured, d
<1> QED BY <1>6, <1>7, <1>8, <1>9 DEF Sound

(* A unit of time passes, when no callback waits.                          *)
LEMMA Passing ==
  ASSUME DoorAssumption, NEW g \in Drivers, NEW h \in 0 .. LongTouch, g.cb.events = {},
         Sound(g), Measured(g, h), Button \in g.tidEn => Button \in g.keyState,
         NEW r, r = [g EXCEPT !.cb = CbTimerTick(@)]
  PROVE  /\ r \in Drivers /\ Sound(r) /\ NoneFreed(r.cb)
         /\ Measured(r, IF Button \in g.keyState /\ h < LongTouch THEN h + 1 ELSE h)
         /\ r.keyState = g.keyState /\ r.tidEn = g.tidEn /\ r.msgs = g.msgs
<1> DEFINE d == CbTimerTick(g.cb)
<1>1. /\ g.cb.data \in [Slots -> Keys \cup {NoCallback}]
      /\ g.cb.left \in [Slots -> 0 .. LongTouch] /\ g.cb.reload \in [Slots -> {0}]
      /\ g.tid \in [Keys -> Slots] /\ g.tidEn \in SUBSET Keys
  BY DEF Drivers, Tables
<1>2. LongTouch \in Nat \ {0} /\ Button \in Keys
  BY DEF DoorAssumption, Keys
<1> DEFINE left == [j \in Slots |-> CASE g.cb.left[j] = 0 -> 0
                                     [] g.cb.left[j] = 1 -> g.cb.reload[j]
                                     [] OTHER -> g.cb.left[j] - 1]
           due == {j \in Slots : g.cb.left[j] = 1}
<1>3. d = [g.cb EXCEPT !.left = left, !.events = due]
  BY DEF CbTimerTick, Drivers, Tables
<1>4. \A j \in Slots : left[j] = IF g.cb.left[j] = 0 THEN 0 ELSE g.cb.left[j] - 1
  BY <1>1
<1>5. left \in [Slots -> 0 .. LongTouch]
  <2>1. \A j \in Slots : left[j] \in 0 .. LongTouch
    BY <1>1, <1>2, <1>4
  <2> QED BY <2>1
<1> HIDE DEF left
<1>6. d.data = g.cb.data /\ d.left = left /\ d.events = due
  BY <1>3 DEF Drivers, Tables
<1>7. d \in Tables
  BY <1>3, <1>5 DEF Drivers, Tables
<1> HIDE DEF d
<1>8. r = [g EXCEPT !.cb = d]
  BY DEF d
<1>9. r.cb = d /\ r.keyState = g.keyState /\ r.tid = g.tid /\ r.tidEn = g.tidEn
      /\ r.msgs = g.msgs
  BY <1>8 DEF Drivers
<1>10. r \in Drivers
  BY <1>7, <1>8 DEF Drivers
<1>11. Noted(r)
  <2> SUFFICES ASSUME NEW k \in g.tidEn
               PROVE  LET i == g.tid[k] IN d.data[i] = k /\ (d.left[i] > 0 \/ i \in d.events)
    BY <1>9 DEF Noted
  <2>1. g.tid[k] \in Slots /\ g.cb.data[g.tid[k]] = k /\ g.cb.left[g.tid[k]] > 0
    BY <1>1 DEF Sound, Noted
  <2> QED BY <1>1, <1>4, <1>6, <2>1
<1>12. InUse(r.cb)
  BY <1>1, <1>4, <1>6, <1>9 DEF Sound, InUse
<1>13. OneSlot(r)
  BY <1>6, <1>9 DEF Sound, OneSlot
<1>14. NoneFreed(r.cb)
  BY <1>1, <1>6, <1>9 DEF Sound, InUse, NoneFreed
<1>15. Measured(r, IF Button \in g.keyState /\ h < LongTouch THEN h + 1 ELSE h)
  <2> SUFFICES ASSUME Button \in g.tidEn
               PROVE  LET i == g.tid[Button]
                      IN  /\ d.left[i] + (h + 1) = LongTouch
                          /\ i \in d.events <=> d.left[i] = 0
                          /\ h < LongTouch
    BY <1>9 DEF Measured
  <2>1. /\ g.tid[Button] \in Slots /\ g.cb.left[g.tid[Button]] > 0
        /\ g.cb.left[g.tid[Button]] + h = LongTouch
    BY <1>1, <1>2 DEF Measured, Sound, Noted
  <2>2. d.left[g.tid[Button]] = g.cb.left[g.tid[Button]] - 1
    BY <1>1, <1>4, <1>6, <2>1
  <2> QED BY <1>1, <1>2, <1>6, <2>1, <2>2
<1> QED BY <1>9, <1>10, <1>11, <1>12, <1>13, <1>14, <1>15 DEF Sound

-----------------------------------------------------------------------------
(* The invariant has three parts: of the keys, of the buzzer and of the    *)
(* door.                                                                   *)
Countdowns(d) == [event : BOOLEAN, left : 0 .. d]

KeysRight ==
  /\ pressed \in SUBSET Keys /\ preKeyState \in SUBSET Keys /\ key \in Drivers
  /\ debounce \in Countdowns(Debounce) /\ held \in 0 .. LongTouch
  /\ Sound(key) /\ Measured(key, held)
  /\ Button \in key.tidEn => Button \in key.keyState
  /\ debounce.event => NoneFreed(key.cb)

(* A timer of an event counts down.                                        *)
LEMMA Counts ==
  ASSUME NEW d \in Nat, NEW t \in Countdowns(d), NEW c, c = Counted(t)
  PROVE  /\ c \in Countdowns(d)
         /\ c.event = (t.event \/ t.left = 1)
         /\ c.left = IF t.left = 0 THEN 0 ELSE t.left - 1
<1>1. t.event \in BOOLEAN /\ t.left \in 0 .. d
  BY DEF Countdowns
<1> DEFINE left == IF t.left = 0 THEN 0 ELSE t.left - 1
           event == (t.event \/ t.left = 1)
<1>2. left \in 0 .. d
  BY <1>1
<1>3. event \in BOOLEAN
  OBVIOUS
<1>4. c = [t EXCEPT !.left = left, !.event = event]
  BY DEF Counted, Countdowns
<1> HIDE DEF left, event
<1>5. c \in Countdowns(d)
  BY <1>2, <1>3, <1>4 DEF Countdowns
<1>6. c.left = left
  BY <1>4 DEF Countdowns
<1>7. c.event = event
  BY <1>4, Zenon DEF Countdowns
<1> QED BY <1>5, <1>6, <1>7 DEF left, event

(* The messages are taken.                                                 *)
LEMMA Emptied ==
  ASSUME NEW g \in Drivers, NEW r, r = [g EXCEPT !.msgs = <<>>]
  PROVE  /\ r \in Drivers /\ r.msgs = <<>>
         /\ r.cb = g.cb /\ r.keyState = g.keyState /\ r.tid = g.tid /\ r.tidEn = g.tidEn
<1>1. <<>> \in Seq(Reports)
  OBVIOUS
<1> QED BY <1>1 DEF Drivers

(* The driver at the start, and after a restart.                           *)
LEMMA Fresh ==
  ASSUME DoorAssumption
  PROVE  /\ HalKeyInit \in Drivers /\ Sound(HalKeyInit)
         /\ HalKeyInit.tidEn = {} /\ HalKeyInit.keyState = {} /\ HalKeyInit.msgs = <<>>
         /\ [event |-> FALSE, left |-> 0] \in Countdowns(Debounce)
<1>1. <<>> \in Seq(Reports) /\ 0 \in Slots /\ 0 \in 0 .. LongTouch /\ 0 \in 0 .. Debounce
  BY DEF DoorAssumption, Slots
<1>2. /\ [j \in Slots |-> NoCallback] \in [Slots -> Keys \cup {NoCallback}]
      /\ [j \in Slots |-> 0] \in [Slots -> 0 .. LongTouch]
      /\ [j \in Slots |-> 0] \in [Slots -> {0}]
      /\ [k \in Keys |-> 0] \in [Keys -> Slots]
  BY <1>1
<1>3. CbTimerInit \in Tables
  BY <1>2 DEF CbTimerInit, Tables
<1>4. HalKeyInit \in Drivers
  BY <1>1, <1>2, <1>3 DEF HalKeyInit, Drivers
<1>5. /\ HalKeyInit.tidEn = {} /\ HalKeyInit.keyState = {} /\ HalKeyInit.msgs = <<>>
      /\ HalKeyInit.cb = CbTimerInit
  BY DEF HalKeyInit
<1>6. \A j \in Slots : CbTimerInit.left[j] = 0 /\ CbTimerInit.data[j] = NoCallback
  BY DEF CbTimerInit
<1>7. Sound(HalKeyInit)
  BY <1>5, <1>6 DEF Sound, Noted, InUse, OneSlot, DoorAssumption, Keys
<1>8. [event |-> FALSE, left |-> 0] \in Countdowns(Debounce)
  BY <1>1 DEF Countdowns
<1> QED BY <1>4, <1>5, <1>7, <1>8

(* The part of the keys holds at the start.                                *)
LEMMA KeysInit == DoorAssumption /\ Init => KeysRight
<1> SUFFICES ASSUME DoorAssumption, Init PROVE KeysRight
  OBVIOUS
<1>1. /\ key = HalKeyInit /\ debounce = [event |-> FALSE, left |-> 0]
      /\ pressed \in SUBSET Keys /\ preKeyState = {} /\ held = 0
  BY DEF Init
<1>2. 0 \in 0 .. LongTouch
  BY DEF DoorAssumption
<1> QED BY <1>1, <1>2, Fresh DEF KeysRight, Measured

(* Every step keeps the keys right.                                        *)
LEMMA KeysNext == DoorAssumption /\ KeysRight /\ [Next]_vars => KeysRight'
<1> SUFFICES ASSUME DoorAssumption, KeysRight, [Next]_vars PROVE KeysRight'
  OBVIOUS
<1>1. /\ pressed \in SUBSET Keys /\ preKeyState \in SUBSET Keys /\ key \in Drivers
      /\ debounce \in Countdowns(Debounce) /\ held \in 0 .. LongTouch
      /\ Sound(key) /\ Measured(key, held)
      /\ Button \in key.tidEn => Button \in key.keyState
      /\ debounce.event => NoneFreed(key.cb)
  BY DEF KeysRight
<1>2. /\ Debounce \in Nat \ {0} /\ LongTouch \in Nat \ {0}
      /\ Debounce \in 0 .. Debounce /\ 0 \in 0 .. LongTouch
  BY DEF DoorAssumption
<1>3. ASSUME UNCHANGED <<pressed, preKeyState, key, debounce, held>>
      PROVE  KeysRight'
  BY <1>1, <1>3, Zenon DEF KeysRight
<1>4. ASSUME NEW k \in Keys, Touch(k) PROVE KeysRight'
  <2>1. pressed' \in SUBSET Keys /\ UNCHANGED <<preKeyState, key, debounce, held>>
    BY <1>1, <1>4 DEF Touch
  <2> QED BY <1>1, <2>1, Zenon DEF KeysRight
<1>5. CASE HalKeyPoll
  <2>1. /\ preKeyState' = pressed /\ UNCHANGED <<pressed, key, held>>
        /\ debounce' = [debounce EXCEPT !.left = Debounce]
    BY <1>5 DEF HalKeyPoll
  <2>2. debounce' \in Countdowns(Debounce)
    BY <1>1, <1>2, <2>1 DEF Countdowns
  <2>3. debounce'.event = debounce.event
    BY <1>1, <2>1 DEF Countdowns
  <2> QED BY <1>1, <2>1, <2>2, <2>3, Zenon DEF KeysRight
<1>6. CASE HalKeyEvent
  <2>1. /\ debounce.event /\ SlotsSuffice(key, pressed)
        /\ debounce' = [debounce EXCEPT !.event = FALSE]
        /\ key' = HalKeyHandle(key, pressed)
        /\ held' = IF Button \in key.keyState \cap pressed THEN held ELSE 0
        /\ UNCHANGED <<pressed, preKeyState>>
    BY <1>6 DEF HalKeyEvent
  <2>2. /\ key' \in Drivers /\ Sound(key') /\ key'.keyState = pressed
        /\ Measured(key', IF Button \in key.keyState \cap pressed THEN held ELSE 0)
        /\ Button \in key'.tidEn
             <=> Button \in pressed /\ (Button \in key.tidEn \/ Button \notin key.keyState)
    <3>1. NoneFreed(key.cb)
      BY <1>1, <2>1
    <3> QED BY <1>1, <2>1, <3>1, Reading
  <2>3. debounce' \in Countdowns(Debounce)
    BY <1>1, <2>1 DEF Countdowns
  <2>4. ~debounce'.event
    BY <1>1, <2>1 DEF Countdowns
  <2>5. held' \in 0 .. LongTouch
    BY <1>1, <1>2, <2>1
  <2> QED BY <1>1, <2>1, <2>2, <2>3, <2>4, <2>5, Zenon DEF KeysRight
<1>7. CASE AssertionFails
  <2>1. /\ preKeyState' = {} /\ key' = HalKeyInit
        /\ debounce' = [event |-> FALSE, left |-> 0]
        /\ held' = 0 /\ UNCHANGED pressed
    BY <1>7 DEF AssertionFails
  <2> QED BY <1>1, <1>2, <2>1, Fresh DEF KeysRight, Measured
<1>8. CASE CbTimerEvent
  <2>1. /\ key.cb.events # {} /\ ~debounce.event
        /\ key' = CbTimerProcessEvent(key)
        /\ UNCHANGED <<pressed, preKeyState, debounce, held>>
    BY <1>8 DEF CbTimerEvent, CbReady, HalReady
  <2>2. Sound(key') /\ Measured(key', held)
    BY <1>1, <2>1, SoundWhenCalled, Zenon
  <2>3. key' \in Drivers /\ key'.keyState = key.keyState /\ key'.tidEn \subseteq key.tidEn
    BY <1>1, <2>1, Called
  <2> QED BY <1>1, <2>1, <2>2, <2>3 DEF KeysRight
<1>9. CASE AppMessages
  <2>1. /\ key' = [key EXCEPT !.msgs = <<>>]
        /\ UNCHANGED <<pressed, preKeyState, debounce, held>>
    BY <1>9 DEF AppMessages
  <2>2. /\ key' \in Drivers /\ key'.cb = key.cb /\ key'.keyState = key.keyState
        /\ key'.tid = key.tid /\ key'.tidEn = key.tidEn
    BY <1>1, <2>1, Emptied, Zenon
  <2>3. Sound(key') /\ Measured(key', held)
    BY <1>1, <2>2 DEF Sound, Noted, InUse, OneSlot, Measured
  <2> QED BY <1>1, <2>1, <2>2, <2>3 DEF KeysRight
<1>10. CASE Tick
  <2>1. /\ key.cb.events = {}
        /\ key' = [key EXCEPT !.cb = CbTimerTick(@)] /\ debounce' = Counted(debounce)
        /\ held' = IF Button \in key.keyState /\ held < LongTouch THEN held + 1 ELSE held
        /\ UNCHANGED <<pressed, preKeyState>>
    BY <1>10 DEF Tick, CbReady
  <2>2. /\ key' \in Drivers /\ Sound(key') /\ NoneFreed(key'.cb)
        /\ Measured(key', held')
        /\ key'.keyState = key.keyState /\ key'.tidEn = key.tidEn
    BY <1>1, <2>1, Passing, Zenon
  <2>3. debounce' \in Countdowns(Debounce)
    BY <1>1, <1>2, <2>1, Counts
  <2>4. held' \in 0 .. LongTouch
    BY <1>1, <1>2, <2>1
  <2> QED BY <1>1, <2>1, <2>2, <2>3, <2>4 DEF KeysRight
<1>11. CASE OpenRequest \/ HalBuzzerEvent \/ AppAlarm \/ UNCHANGED vars
  BY <1>3, <1>11, Zenon DEF OpenRequest, HalBuzzerEvent, AppAlarm, vars
<1>12. ASSUME NEW b \in OtherBeeps, OtherBeep(b) PROVE KeysRight'
  BY <1>3, <1>12, Zenon DEF OtherBeep
<1> QED BY <1>4, <1>5, <1>6, <1>7, <1>8, <1>9, <1>10, <1>11, <1>12 DEF Next, Input, Program

-----------------------------------------------------------------------------
(* What the reports that wait will tell the application of the door.       *)
LEMMA NothingNew == \A open : OpenAfter(<<>>, open) = open
BY DEF OpenAfter, DoorReports

(* A report of the button tells nothing of the door.                       *)
LEMMA NotTheDoor ==
  ASSUME NEW m \in Seq(Reports), NEW e \in Events, NEW n, n = Append(m, <<Button, e>>), NEW open
  PROVE  OpenAfter(n, open) = OpenAfter(m, open)
<1>1. <<Button, e>> \in Reports /\ <<Button, e>>[1] # Door
  BY DEF Reports, Keys, Button, Door
<1>2. /\ DOMAIN m = 1 .. Len(m) /\ DOMAIN n = 1 .. Len(m) + 1 /\ Len(m) \in Nat
      /\ \A i \in 1 .. Len(m) : n[i] = m[i]
      /\ n[Len(m) + 1] = <<Button, e>>
  BY <1>1, AppendProperties
<1>3. DoorReports(n) = DoorReports(m)
  BY <1>1, <1>2 DEF DoorReports
<1>4. \A i \in DoorReports(m) : n[i] = m[i]
  BY <1>2 DEF DoorReports
<1> QED BY <1>3, <1>4, Zenon DEF OpenAfter

(* One of the door tells all.                                              *)
LEMMA TheDoor ==
  ASSUME NEW m \in Seq(Reports), NEW e \in Events, NEW n, n = Append(m, <<Door, e>>), NEW open
  PROVE  OpenAfter(n, open) <=> e = "Leave"
<1>1. <<Door, e>> \in Reports /\ <<Door, e>>[1] = Door /\ <<Door, e>>[2] = e
  BY DEF Reports, Keys
<1>2. /\ DOMAIN n = 1 .. Len(m) + 1 /\ Len(m) \in Nat
      /\ n[Len(m) + 1] = <<Door, e>>
  BY <1>1, AppendProperties
<1>3. /\ Len(m) + 1 \in DoorReports(n)
      /\ \A i \in DoorReports(n) : i <= Len(m) + 1 /\ i \in Nat
  BY <1>1, <1>2 DEF DoorReports
<1>4. \A i \in DoorReports(n) : (\A j \in DoorReports(n) : j <= i) <=> i = Len(m) + 1
  BY <1>2, <1>3
<1>5. n[Len(m) + 1][2] = e
  BY <1>1, <1>2
<1> HIDE DEF DoorReports
<1> QED BY <1>3, <1>4, <1>5, Zenon DEF OpenAfter

(* A reading tells of the door what it has read.                           *)
LEMMA Told ==
  ASSUME NEW g \in Drivers, NEW pins, NEW open,
         NEW m, m = (g.msgs \o ShortReport(g, pins)) \o DoorReport(g, pins)
  PROVE  /\ Door \in pins \ g.keyState => ~OpenAfter(m, open)
         /\ Door \in g.keyState \ pins => OpenAfter(m, open)
         /\ (Door \in pins <=> Door \in g.keyState) =>
              OpenAfter(m, open) = OpenAfter(g.msgs, open)
<1> DEFINE b == g.msgs \o ShortReport(g, pins)
<1>1. /\ g.msgs \in Seq(Reports) /\ <<Button, "Short">> \in Reports
      /\ <<Door, "Enter">> \in Reports /\ <<Door, "Leave">> \in Reports
      /\ {"Short", "Enter", "Leave"} \subseteq Events
  BY DEF Drivers, Reports, Keys, Events
<1>2. b \in Seq(Reports) /\ OpenAfter(b, open) = OpenAfter(g.msgs, open)
  <2>1. CASE ShortReport(g, pins) = <<>>
    <3>1. b = g.msgs
      BY <1>1, <2>1
    <3> HIDE DEF b
    <3> QED BY <1>1, <3>1, Zenon
  <2>2. CASE ShortReport(g, pins) = <<<<Button, "Short">>>>
    <3>1. b = Append(g.msgs, <<Button, "Short">>)
      BY <1>1, <2>2, AppendIsConcat
    <3> HIDE DEF b
    <3>2. b \in Seq(Reports)
      BY <1>1, <3>1, AppendProperties
    <3>3. "Short" \in Events
      BY <1>1
    <3>4. OpenAfter(b, open) = OpenAfter(g.msgs, open)
      BY <1>1, <3>1, <3>3, NotTheDoor, Zenon
    <3> QED BY <3>2, <3>4
  <2> QED BY <2>1, <2>2 DEF ShortReport
<1> HIDE DEF b
<1>3. m = b \o DoorReport(g, pins)
  BY DEF b
<1>4. ASSUME Door \in pins \ g.keyState PROVE ~OpenAfter(m, open)
  <2>1. DoorReport(g, pins) = <<<<Door, "Enter">>>>
    BY <1>4 DEF DoorReport
  <2>2. m = Append(b, <<Door, "Enter">>)
    BY <1>1, <1>2, <1>3, <2>1, AppendIsConcat
  <2> QED BY <1>1, <1>2, <2>2, TheDoor
<1>5. ASSUME Door \in g.keyState \ pins PROVE OpenAfter(m, open)
  <2>1. DoorReport(g, pins) = <<<<Door, "Leave">>>>
    BY <1>5 DEF DoorReport
  <2>2. m = Append(b, <<Door, "Leave">>)
    BY <1>1, <1>2, <1>3, <2>1, AppendIsConcat
  <2> QED BY <1>1, <1>2, <2>2, TheDoor
<1>6. ASSUME Door \in pins <=> Door \in g.keyState
      PROVE  OpenAfter(m, open) = OpenAfter(g.msgs, open)
  <2>1. DoorReport(g, pins) = <<>>
    BY <1>6 DEF DoorReport
  <2>2. m = b
    BY <1>2, <1>3, <2>1
  <2> QED BY <1>2, <2>2
<1> QED BY <1>4, <1>5, <1>6

-----------------------------------------------------------------------------
(* The buzzer: a beep task has something to wait for, and none is left     *)
(* sounding.  An event and a timer are never both set, and a task without  *)
(* pauses beeps once.                                                      *)
Buzzers == [ctrl : BeepTasks \cup {Idle}, on : BOOLEAN, event : BOOLEAN, left : Nat]

Driven(b) ==
  /\ b \in Buzzers
  /\ b.ctrl # Idle <=> b.event \/ b.left > 0
  /\ b.on => b.ctrl # Idle
  /\ b.event => b.left = 0
  /\ b.ctrl # Idle => b.ctrl.on_time > 0 /\ (b.ctrl.off_time = 0 => b.ctrl.beep_cnt = 1)

(* Whatever beep is begun, the buzzer is driven.                           *)
LEMMA Beeps ==
  ASSUME DoorAssumption, NEW onTime \in Nat, NEW offTime \in Nat, NEW beeps \in Nat,
         onTime > 0 => beeps > 0, NEW old, NEW b, b = HalBuzzerBeep(old, onTime, offTime, beeps)
  PROVE  Driven(b)
<1>1. CASE onTime > 0
  <2> DEFINE t == BeepTask(onTime, offTime, beeps)
  <2>1. t \in BeepTasks /\ t # Idle
    BY DEF BeepTask, BeepTasks, DoorAssumption
  <2>2. t.on_time = onTime /\ t.off_time = offTime /\ (offTime = 0 => t.beep_cnt = 1)
    BY DEF BeepTask
  <2> HIDE DEF t
  <2>3. b = [ctrl |-> t, on |-> FALSE, event |-> TRUE, left |-> 0]
    BY <1>1 DEF HalBuzzerBeep, t
  <2> QED BY <1>1, <2>1, <2>2, <2>3 DEF Driven, Buzzers
<1>2. CASE ~(onTime > 0)
  <2>1. b = [ctrl |-> Idle, on |-> onTime > 0, event |-> FALSE, left |-> 0]
    BY <1>2, Zenon DEF HalBuzzerBeep
  <2>2. (onTime > 0) = FALSE
    BY <1>2
  <2>3. b = [ctrl |-> Idle, on |-> FALSE, event |-> FALSE, left |-> 0]
    BY <2>1, <2>2, Zenon
  <2> QED BY <2>3 DEF Driven, Buzzers
<1> QED BY <1>1, <1>2

(* So it is after an update, which finds its beep task.                    *)
LEMMA Updates ==
  ASSUME DoorAssumption, NEW b, Driven(b), b.event, NEW u, u = HalBuzzerUpdate(b)
  PROVE  Driven(u)
<1> DEFINE c == b.ctrl
<1>1. c \in BeepTasks /\ c # Idle /\ b.left = 0
  BY DEF Driven, Buzzers
<1>2. c.on_time > 0 /\ (c.off_time = 0 => c.beep_cnt = 1)
  BY <1>1 DEF Driven
<1>3. /\ c.on_time \in Nat /\ c.off_time \in Nat /\ c.beep_cnt \in Nat
      /\ c.on_cnt \in Nat /\ c.off_cnt \in Nat
  BY <1>1 DEF BeepTasks
<1>4. CASE c.on_cnt <= c.off_cnt
  <2> DEFINE n == [c EXCEPT !.on_cnt = @ + 1]
  <2>1. n \in BeepTasks /\ n.on_time = c.on_time /\ n.off_time = c.off_time
        /\ n.beep_cnt = c.beep_cnt
    BY <1>1 DEF BeepTasks
  <2>2. n # Idle
    BY <2>1 DEF DoorAssumption
  <2> HIDE DEF n
  <2>3. u = [ctrl |-> n, on |-> TRUE, event |-> FALSE, left |-> c.on_time]
    BY <1>3, <1>4 DEF HalBuzzerUpdate, n
  <2> HIDE DEF c
  <2> QED BY <1>2, <1>3, <2>1, <2>2, <2>3 DEF Driven, Buzzers
<1>5. CASE c.on_cnt > c.off_cnt /\ c.on_cnt >= c.beep_cnt
  <2>1. ~(c.on_cnt <= c.off_cnt)
    BY <1>3, <1>5
  <2>2. u = [ctrl |-> Idle, on |-> FALSE, event |-> FALSE, left |-> 0]
    BY <1>1, <1>5, <2>1 DEF HalBuzzerUpdate
  <2> QED BY <2>2 DEF Driven, Buzzers
<1>6. CASE c.on_cnt > c.off_cnt /\ ~(c.on_cnt >= c.beep_cnt)
  <2> DEFINE n == [c EXCEPT !.off_cnt = @ + 1]
  <2>1. n \in BeepTasks /\ n.on_time = c.on_time /\ n.off_time = c.off_time
        /\ n.beep_cnt = c.beep_cnt
    BY <1>1 DEF BeepTasks
  <2>2. n # Idle
    BY <2>1 DEF DoorAssumption
  <2>3. c.off_time > 0
    BY <1>2, <1>3, <1>6
  <2>4. ~(c.on_cnt <= c.off_cnt)
    BY <1>3, <1>6
  <2> HIDE DEF n
  <2>5. u = [ctrl |-> n, on |-> FALSE, event |-> FALSE, left |-> c.off_time]
    BY <1>6, <2>4 DEF HalBuzzerUpdate, n
  <2> HIDE DEF c
  <2> QED BY <1>2, <1>3, <2>1, <2>2, <2>3, <2>5 DEF Driven, Buzzers
<1>7. c.on_cnt <= c.off_cnt \/ c.on_cnt > c.off_cnt
  BY <1>3
<1> QED BY <1>4, <1>5, <1>6, <1>7

(* So it is when time passes.                                              *)
LEMMA Waits ==
  ASSUME NEW b, Driven(b), ~b.event, NEW u, u = HalBuzzerTick(b)
  PROVE  Driven(u)
<1>1. b \in Buzzers /\ b.left \in Nat
  BY DEF Driven, Buzzers
<1> DEFINE left == IF b.left = 0 THEN 0 ELSE b.left - 1
           event == (b.event \/ b.left = 1)
<1>2. left \in Nat /\ (event <=> b.left = 1)
  BY <1>1
<1>3. event \in BOOLEAN
  OBVIOUS
<1>4. (event => left = 0) /\ (event \/ left > 0 <=> b.left > 0)
  BY <1>1, <1>2
<1>5. u = [b EXCEPT !.left = left, !.event = event]
  BY <1>1 DEF HalBuzzerTick, Buzzers
<1> HIDE DEF left, event
<1>6. u \in Buzzers
  BY <1>1, <1>2, <1>3, <1>5 DEF Buzzers
<1>7. u.ctrl = b.ctrl /\ u.on = b.on /\ u.left = left
  BY <1>1, <1>5 DEF Buzzers
<1>8. u.event = event
  BY <1>1, <1>5, Zenon DEF Buzzers
<1>9. (u.event => u.left = 0) /\ (u.event \/ u.left > 0 <=> b.left > 0)
  BY <1>4, <1>7, <1>8, Zenon
<1>10. b.ctrl # Idle <=> b.left > 0
  BY DEF Driven
<1> QED BY <1>6, <1>7, <1>9, <1>10, Zenon DEF Driven

(* The buzzer at the start.                                                *)
LEMMA BuzzerInit == DoorAssumption /\ Init => Driven(buzzer)
BY DEF Init, HalBuzzerInit, Driven, Buzzers

(* Every step keeps the buzzer driven.                                     *)
LEMMA BuzzerNext == DoorAssumption /\ Driven(buzzer) /\ [Next]_vars => Driven(buzzer')
<1> SUFFICES ASSUME DoorAssumption, Driven(buzzer), [Next]_vars PROVE Driven(buzzer')
  OBVIOUS
<1>1. ASSUME UNCHANGED buzzer PROVE Driven(buzzer')
  BY <1>1
<1>2. /\ AlarmBeep[1] \in Nat \ {0} /\ AlarmBeep[2] \in Nat /\ AlarmBeep[3] \in Nat \ {0}
      /\ \A b \in OtherBeeps : b[1] \in Nat \ {0} /\ b[2] \in Nat /\ b[3] \in Nat \ {0}
  BY DEF DoorAssumption
<1>3. CASE HalBuzzerEvent
  BY <1>3, Updates DEF HalBuzzerEvent
<1>4. CASE AssertionFails
  <2>1. buzzer' = HalBuzzerInit
    BY <1>4 DEF AssertionFails
  <2> QED BY <2>1 DEF HalBuzzerInit, Driven, Buzzers
<1>5. CASE AppMessages
  <2>1. CASE DoorOpens(key.msgs)
    <3>1. buzzer' = HalBuzzerBeep(buzzer, 0, 0, 0)
      BY <1>5, <2>1 DEF AppMessages
    <3> QED BY <3>1, Beeps
  <2>2. CASE ~DoorOpens(key.msgs)
    BY <1>1, <1>5, <2>2 DEF AppMessages
  <2> QED BY <2>1, <2>2
<1>6. CASE AppAlarm
  <2>1. buzzer' = HalBuzzerBeep(buzzer, AlarmBeep[1], AlarmBeep[2], AlarmBeep[3])
    BY <1>6 DEF AppAlarm
  <2> QED BY <1>2, <2>1, Beeps
<1>7. ASSUME NEW b \in OtherBeeps, OtherBeep(b) PROVE Driven(buzzer')
  <2>1. buzzer' = HalBuzzerBeep(buzzer, b[1], b[2], b[3])
    BY <1>7 DEF OtherBeep
  <2> QED BY <1>2, <2>1, Beeps
<1>8. CASE Tick
  BY <1>8, Waits DEF Tick, HalReady
<1>9. CASE OpenRequest \/ HalKeyPoll \/ HalKeyEvent \/ CbTimerEvent \/ UNCHANGED vars
  BY <1>1, <1>9, Zenon DEF OpenRequest, HalKeyPoll, HalKeyEvent, CbTimerEvent, vars
<1>10. ASSUME NEW k \in Keys, Touch(k) PROVE Driven(buzzer')
  BY <1>1, <1>10, Zenon DEF Touch
<1> QED BY <1>3, <1>4, <1>5, <1>6, <1>7, <1>8, <1>9, <1>10 DEF Next, Input, Program

-----------------------------------------------------------------------------
(* The door: what is reported and not yet handled counts as known.         *)
Apps == [isDoorOpen : BOOLEAN, event : BOOLEAN, left : 0 .. AlarmDelay]

ReadRight == ~misread /\ ~debounce.event /\ debounce.left = 0 => key.keyState = preKeyState

Unsettled == ~settled => Door \notin key.keyState /\ (~early => Door \in pressed)

Learnt == settled /\ ~early => (OpenAfter(key.msgs, app.isDoorOpen) <=> Door \notin key.keyState)

DoorRight ==
  /\ app \in Apps /\ settled \in BOOLEAN /\ early \in BOOLEAN /\ misread \in BOOLEAN
  /\ ReadRight /\ Unsettled /\ Learnt /\ AlarmWaitsForDoor

(* What of the state the door depends on.                                  *)
LEMMA SameDoor ==
  ASSUME DoorRight,
         UNCHANGED <<pressed, preKeyState, debounce, app, settled, early, misread>>,
         key'.keyState = key.keyState,
         OpenAfter(key'.msgs, app.isDoorOpen) = OpenAfter(key.msgs, app.isDoorOpen)
  PROVE  DoorRight'
<1>1. app' \in Apps /\ settled' \in BOOLEAN /\ early' \in BOOLEAN /\ misread' \in BOOLEAN
  BY Zenon DEF DoorRight
<1>2. ReadRight' /\ Unsettled'
  BY DEF DoorRight, ReadRight, Unsettled
<1>3. Learnt'
  BY Zenon DEF DoorRight, Learnt
<1>4. AlarmWaitsForDoor'
  BY Zenon DEF DoorRight, AlarmWaitsForDoor
<1> QED BY <1>1, <1>2, <1>3, <1>4, Zenon DEF DoorRight

(* The application at the start, and after a restart.                      *)
LEMMA Started ==
  ASSUME DoorAssumption, NEW open \in BOOLEAN,
         NEW a, a = [isDoorOpen |-> open, event |-> FALSE, left |-> 0]
  PROVE  a \in Apps /\ a.isDoorOpen = open /\ a.left = 0
<1>1. 0 \in 0 .. AlarmDelay
  BY DEF DoorAssumption
<1>2. FALSE \in BOOLEAN
  OBVIOUS
<1>3. a \in Apps
  BY <1>1, <1>2 DEF Apps
<1>4. a.isDoorOpen = open
  BY Zenon
<1>5. a.left = 0
  OBVIOUS
<1> QED BY <1>3, <1>4, <1>5

(* The door at the start.                                                  *)
LEMMA DoorInit == DoorAssumption /\ Init => DoorRight
<1> SUFFICES ASSUME DoorAssumption, Init PROVE DoorRight
  OBVIOUS
<1>1. /\ key.keyState = {} /\ key.msgs = <<>>
  BY Fresh DEF Init
<1>2. /\ app = [isDoorOpen |-> Door \notin pressed, event |-> FALSE, left |-> 0]
      /\ settled = (Door \notin pressed) /\ early = FALSE /\ misread = FALSE /\ preKeyState = {}
  BY DEF Init
<1>3. settled \in BOOLEAN /\ early \in BOOLEAN /\ misread \in BOOLEAN
  BY <1>2, Zenon
<1>4. app \in Apps /\ app.isDoorOpen = (Door \notin pressed) /\ app.left = 0
  <2> DEFINE open == Door \notin pressed
  <2>1. open \in BOOLEAN
    OBVIOUS
  <2>2. app = [isDoorOpen |-> open, event |-> FALSE, left |-> 0]
    BY <1>2, Zenon
  <2> HIDE DEF open
  <2>3. app \in Apps /\ app.isDoorOpen = open /\ app.left = 0
    BY <2>1, <2>2, Started, Zenon
  <2> QED BY <2>3, Zenon DEF open
<1>5. ReadRight
  BY <1>1, <1>2, Zenon DEF ReadRight
<1>5a. settled <=> Door \notin pressed
  BY <1>2, Zenon
<1>5b. Unsettled
  BY <1>1, <1>5a, Zenon DEF Unsettled
<1>5c. AlarmWaitsForDoor
  <2>1. ~(app.left > 0)
    BY <1>4
  <2> QED BY <2>1, Zenon DEF AlarmWaitsForDoor
<1>6. Learnt
  BY <1>1, <1>2, <1>4, NothingNew, Zenon DEF Learnt
<1> QED BY <1>3, <1>4, <1>5, <1>5b, <1>5c, <1>6, Zenon DEF DoorRight

(* Every step keeps what is known of the door.                             *)
LEMMA DoorNext == DoorAssumption /\ KeysRight /\ DoorRight /\ [Next]_vars => DoorRight'
<1> SUFFICES ASSUME DoorAssumption, KeysRight, DoorRight, [Next]_vars PROVE DoorRight'
  OBVIOUS
<1>1. /\ pressed \in SUBSET Keys /\ preKeyState \in SUBSET Keys /\ key \in Drivers
      /\ debounce \in Countdowns(Debounce) /\ held \in 0 .. LongTouch
      /\ Sound(key) /\ Measured(key, held)
      /\ Button \in key.tidEn => Button \in key.keyState
      /\ key.msgs \in Seq(Reports)
  BY DEF KeysRight, Drivers
<1>2. /\ app \in Apps /\ settled \in BOOLEAN /\ early \in BOOLEAN /\ misread \in BOOLEAN
      /\ ReadRight /\ Unsettled /\ Learnt /\ AlarmWaitsForDoor
  BY DEF DoorRight
<1>3. Debounce \in Nat \ {0} /\ AlarmDelay \in Nat \ {0} /\ AlarmDelay \in 0 .. AlarmDelay
  BY DEF DoorAssumption
<1>4. ASSUME NEW k \in Keys, Touch(k) PROVE DoorRight'
  <2>1. /\ pressed' = (pressed \ {k}) \cup ({k} \ pressed)
        /\ early' = (early \/ (k = Door /\ ~settled))
        /\ UNCHANGED <<preKeyState, key, debounce, app, settled, misread>>
    BY <1>4 DEF Touch
  <2>2. early' \in BOOLEAN
    BY <2>1
  <2>3. Unsettled'
    BY <1>2, <2>1 DEF Unsettled
  <2>4. Learnt'
    BY <1>2, <2>1, Zenon DEF Learnt
  <2>5. ReadRight' /\ AlarmWaitsForDoor'
    BY <1>2, <2>1, Zenon DEF ReadRight, AlarmWaitsForDoor
  <2> QED BY <1>2, <2>1, <2>2, <2>3, <2>4, <2>5, Zenon DEF DoorRight
<1>5. CASE HalKeyPoll
  <2>1. /\ debounce' = [debounce EXCEPT !.left = Debounce]
        /\ UNCHANGED <<pressed, key, app, settled, early, misread>>
    BY <1>5 DEF HalKeyPoll
  <2>2. debounce'.left # 0
    BY <1>1, <1>3, <2>1 DEF Countdowns
  <2>3. ReadRight'
    BY <2>2 DEF ReadRight
  <2> QED BY <1>2, <2>1, <2>3, Zenon DEF DoorRight, Unsettled, Learnt, AlarmWaitsForDoor
<1>6. CASE HalKeyEvent
  <2>1. /\ debounce.event /\ SlotsSuffice(key, pressed)
        /\ key' = HalKeyHandle(key, pressed)
        /\ settled' = TRUE
        /\ early' = (early /\ (Door \in pressed <=> Door \in key.keyState))
        /\ misread' = (pressed # preKeyState)
        /\ UNCHANGED <<pressed, preKeyState, app>>
    BY <1>6 DEF HalKeyEvent
  <2>2. NoneFreed(key.cb)
    BY <2>1 DEF KeysRight
  <2>3. /\ key' \in Drivers /\ Sound(key') /\ key'.keyState = pressed
        /\ key'.msgs = (key.msgs \o ShortReport(key, pressed)) \o DoorReport(key, pressed)
    <3>1. /\ key \in Drivers /\ held \in 0 .. LongTouch /\ pressed \in SUBSET Keys
          /\ Sound(key) /\ Measured(key, held) /\ NoneFreed(key.cb)
          /\ SlotsSuffice(key, pressed) /\ (Button \in key.tidEn => Button \in key.keyState)
      BY <1>1, <2>1, <2>2
    <3>2. key' = HalKeyHandle(key, pressed)
      BY <2>1
    <3>3. ASSUME NEW r, r = HalKeyHandle(key, pressed)
          PROVE  /\ r \in Drivers /\ Sound(r) /\ r.keyState = pressed
                 /\ r.msgs = (key.msgs \o ShortReport(key, pressed)) \o DoorReport(key, pressed)
      BY <3>1, <3>3, Reading, SMTT(60)
    <3> QED BY <3>2, <3>3, Zenon
  <2> DEFINE open == app.isDoorOpen
  <2>4. /\ Door \in pressed \ key.keyState => ~OpenAfter(key'.msgs, open)
        /\ Door \in key.keyState \ pressed => OpenAfter(key'.msgs, open)
        /\ (Door \in pressed <=> Door \in key.keyState) =>
             OpenAfter(key'.msgs, open) = OpenAfter(key.msgs, open)
    <3>1. key'.msgs = (key.msgs \o ShortReport(key, pressed)) \o DoorReport(key, pressed)
      BY <2>3
    <3> HIDE DEF open
    <3> QED BY <1>1, <3>1, Told
  <2>5. early' \in BOOLEAN /\ misread' \in BOOLEAN /\ settled' \in BOOLEAN
    BY <2>1
  <2>6. ReadRight'
    BY <2>1, <2>3 DEF ReadRight
  <2>7. Unsettled'
    BY <2>1 DEF Unsettled
  <2>8. ASSUME ~early' PROVE OpenAfter(key'.msgs, open) <=> Door \notin pressed
    <3>1. ASSUME Door \in pressed <=> Door \in key.keyState
          PROVE  OpenAfter(key.msgs, open) <=> Door \notin key.keyState
      <4>1. ~early
        BY <1>2, <2>1, <2>8, <3>1
      <4>2. settled
        BY <1>2, <3>1, <4>1 DEF Unsettled
      <4> QED BY <1>2, <4>1, <4>2, Zenon DEF Learnt
    <3> QED BY <2>4, <3>1, Zenon
  <2>9. Learnt'
    BY <2>1, <2>3, <2>8, Zenon DEF Learnt
  <2>10. AlarmWaitsForDoor'
    BY <1>2, <2>1, Zenon DEF AlarmWaitsForDoor
  <2> QED BY <1>2, <2>1, <2>5, <2>6, <2>7, <2>9, <2>10, Zenon DEF DoorRight
<1>7. CASE AssertionFails
  <2>1. /\ key' = HalKeyInit /\ preKeyState' = {} /\ UNCHANGED pressed
        /\ app' = [isDoorOpen |-> Door \notin pressed, event |-> FALSE, left |-> 0]
        /\ settled' = (Door \notin pressed) /\ early' = FALSE /\ misread' = FALSE
    BY <1>7 DEF AssertionFails
  <2>2. key'.keyState = {} /\ key'.msgs = <<>>
    BY <2>1, Fresh
  <2>3. settled' \in BOOLEAN /\ early' \in BOOLEAN /\ misread' \in BOOLEAN
    BY <2>1, Zenon
  <2>4. app' \in Apps /\ app'.isDoorOpen = (Door \notin pressed) /\ app'.left = 0
    <3> DEFINE open == Door \notin pressed
    <3>1. open \in BOOLEAN
      OBVIOUS
    <3>2. app' = [isDoorOpen |-> open, event |-> FALSE, left |-> 0]
      BY <2>1, Zenon
    <3> HIDE DEF open
    <3>3. app' \in Apps /\ app'.isDoorOpen = open /\ app'.left = 0
      BY <3>1, <3>2, Started, Zenon
    <3> QED BY <3>3, Zenon DEF open
  <2>5. ReadRight'
    BY <2>1, <2>2, Zenon DEF ReadRight
  <2>5a. settled' <=> Door \notin pressed'
    BY <2>1, Zenon
  <2>5b. Unsettled'
    BY <2>2, <2>5a, Zenon DEF Unsettled
  <2>5c. AlarmWaitsForDoor'
    <3>1. ~(app'.left > 0)
      BY <2>4
    <3> QED BY <3>1, Zenon DEF AlarmWaitsForDoor
  <2>6. Learnt'
    BY <2>1, <2>2, <2>4, NothingNew, Zenon DEF Learnt
  <2> QED BY <2>3, <2>4, <2>5, <2>5b, <2>5c, <2>6, Zenon DEF DoorRight
<1>8. CASE CbTimerEvent
  <2>1. /\ key.cb.events # {} /\ key' = CbTimerProcessEvent(key)
        /\ UNCHANGED <<pressed, preKeyState, debounce, app, settled, early, misread>>
    BY <1>8 DEF CbTimerEvent, CbReady
  <2> DEFINE x == key.cb.data[FirstOf(key.cb.events)]
  <2>2. /\ key'.keyState = key.keyState
        /\ key'.msgs = IF x = Button THEN Append(key.msgs, <<Button, "Long">>) ELSE key.msgs
    BY <1>1, <2>1, Called
  <2>3. "Long" \in Events
    BY DEF Events
  <2>4. OpenAfter(key'.msgs, app.isDoorOpen) = OpenAfter(key.msgs, app.isDoorOpen)
    <3> HIDE DEF x
    <3>1. CASE x = Button
      <4>1. key'.msgs = Append(key.msgs, <<Button, "Long">>)
        BY <2>2, <3>1
      <4>2. key.msgs \in Seq(Reports)
        BY <1>1
      <4> DEFINE n == key'.msgs
                 m == key.msgs
      <4>3. n = Append(m, <<Button, "Long">>) /\ m \in Seq(Reports)
        BY <4>1, <4>2
      <4> HIDE DEF n, m
      <4>4. OpenAfter(n, app.isDoorOpen) = OpenAfter(m, app.isDoorOpen)
        BY <2>3, <4>3, NotTheDoor, Zenon
      <4> QED BY <4>4, Zenon DEF n, m
    <3>2. CASE x # Button
      <4>1. key'.msgs = key.msgs
        BY <2>2, <3>2, Zenon
      <4> QED BY <4>1, Zenon
    <3> QED BY <3>1, <3>2
  <2> QED BY <2>1, <2>2, <2>4, SameDoor
<1>9. CASE AppMessages
  <2> DEFINE open == OpenAfter(key.msgs, app.isDoorOpen)
             left == IF DoorOpens(key.msgs) THEN 0 ELSE app.left
  <2>1. /\ app' = [app EXCEPT !.isDoorOpen = open, !.left = left]
        /\ key' = [key EXCEPT !.msgs = <<>>]
        /\ UNCHANGED <<pressed, preKeyState, debounce, settled, early, misread>>
    BY <1>2, <1>9 DEF AppMessages, Apps
  <2>2. key'.keyState = key.keyState /\ key'.msgs = <<>>
    BY <1>1, <2>1, Emptied
  <2>3. open \in BOOLEAN
    BY <1>2 DEF OpenAfter, Apps
  <2>4. left \in 0 .. AlarmDelay
    BY <1>2, <1>3 DEF Apps
  <2>5. open => DoorOpens(key.msgs) \/ app.isDoorOpen
    BY DEF OpenAfter, DoorOpens
  <2>6. left > 0 => ~open
    BY <1>2, <2>5 DEF AlarmWaitsForDoor
  <2> HIDE DEF open, left
  <2>7. app' \in Apps /\ app'.left = left
    BY <1>2, <2>1, <2>3, <2>4 DEF Apps
  <2>8. app'.isDoorOpen = open
    BY <1>2, <2>1, Zenon DEF Apps
  <2>9. ReadRight' /\ Unsettled'
    BY <1>2, <2>1, <2>2 DEF ReadRight, Unsettled
  <2>10. Learnt'
    BY <1>2, <2>1, <2>2, <2>8, NothingNew, Zenon DEF Learnt, open
  <2>11. AlarmWaitsForDoor'
    BY <2>6, <2>7, <2>8, Zenon DEF AlarmWaitsForDoor
  <2> QED BY <1>2, <2>1, <2>7, <2>9, <2>10, <2>11, Zenon DEF DoorRight
<1>10. CASE AppAlarm \/ OpenRequest \/ Tick
  <2>1. /\ key'.keyState = key.keyState /\ key'.msgs = key.msgs
        /\ UNCHANGED <<pressed, preKeyState, settled, early, misread>>
    BY <1>1, <1>10 DEF AppAlarm, OpenRequest, Tick, Drivers
  <2>2. /\ app' \in Apps
        /\ app'.left > 0 => app.left > 0 \/ ~app.isDoorOpen
    <3>1. CASE AppAlarm
      BY <1>2, <3>1 DEF AppAlarm, Apps
    <3>2. CASE OpenRequest
      BY <1>2, <1>3, <3>2 DEF OpenRequest, Apps
    <3>3. CASE Tick
      <4> DEFINE left == IF app.left = 0 THEN 0 ELSE app.left - 1
                 event == (app.event \/ app.left = 1)
      <4>1. app' = [app EXCEPT !.left = left, !.event = event]
        BY <1>2, <3>3 DEF Tick, Counted, Apps
      <4>2. left \in 0 .. AlarmDelay /\ (left > 0 => app.left > 0)
        BY <1>2, <1>3 DEF Apps
      <4>3. event \in BOOLEAN
        OBVIOUS
      <4> HIDE DEF left, event
      <4> QED BY <1>2, <4>1, <4>2, <4>3 DEF Apps
    <3> QED BY <1>10, <3>1, <3>2, <3>3
  <2>3. app'.isDoorOpen = app.isDoorOpen
    BY <1>2, <1>10, Zenon DEF AppAlarm, OpenRequest, Tick, Counted, Apps
  <2>4. ReadRight'
    <3>1. CASE debounce' = debounce
      BY <1>2, <2>1, <3>1, Zenon DEF ReadRight
    <3>2. CASE debounce' = Counted(debounce)
      <4>1. /\ debounce'.event = (debounce.event \/ debounce.left = 1)
            /\ debounce'.left = IF debounce.left = 0 THEN 0 ELSE debounce.left - 1
            /\ debounce.left \in Nat
        BY <1>1, <1>3, <3>2, Counts DEF Countdowns
      <4>2. ~debounce'.event /\ debounce'.left = 0 => ~debounce.event /\ debounce.left = 0
        <5>1. ~debounce'.event => ~debounce.event /\ debounce.left # 1
          BY <4>1, Zenon
        <5>2. debounce'.left = 0 /\ debounce.left # 1 => debounce.left = 0
          BY <4>1
        <5> QED BY <5>1, <5>2, Zenon
      <4> QED BY <1>2, <2>1, <4>2, Zenon DEF ReadRight
    <3> QED BY <1>10, <3>1, <3>2 DEF AppAlarm, OpenRequest, Tick
  <2>5. Unsettled'
    BY <1>2, <2>1 DEF Unsettled
  <2>6. Learnt'
    BY <1>2, <2>1, <2>3, Zenon DEF Learnt
  <2>7. AlarmWaitsForDoor'
    BY <1>2, <2>2, <2>3, Zenon DEF AlarmWaitsForDoor
  <2> QED BY <1>2, <2>1, <2>2, <2>4, <2>5, <2>6, <2>7, Zenon DEF DoorRight
<1>11. CASE HalBuzzerEvent \/ UNCHANGED vars
  BY <1>11, SameDoor, Zenon DEF HalBuzzerEvent, vars
<1>12. ASSUME NEW b \in OtherBeeps, OtherBeep(b) PROVE DoorRight'
  BY <1>12, SameDoor, Zenon DEF OtherBeep
<1> QED BY <1>4, <1>5, <1>6, <1>7, <1>8, <1>9, <1>10, <1>11, <1>12 DEF Next, Input, Program

-----------------------------------------------------------------------------
Always == KeysRight /\ Driven(buzzer) /\ DoorRight

(* The invariant.                                                          *)
LEMMA AlwaysHolds == Spec => []Always
<1>1. Init => Always
  BY DoorAssumption, KeysInit, BuzzerInit, DoorInit DEF Always
<1>2. Always /\ [Next]_vars => Always'
  BY DoorAssumption, KeysNext, BuzzerNext, DoorNext DEF Always
<1> QED BY <1>1, <1>2, PTL DEF Spec

(* Keys, buzzer and alarm share the callback timers and the door, and each *)
(* is sound whatever the others do: hal_key.c can stop every timer that it *)
(* believes to run, the updates of hal_buzzer.c find their beep task and   *)
(* the last one silences it, and no alarm is due for an open door.         *)
THEOREM DriversAreSound == Spec => []DriversSound
<1>1. Always => DriversSound
  <2> SUFFICES ASSUME Always PROVE DriversSound
    OBVIOUS
  <2>1. /\ pressed \in SUBSET Keys /\ preKeyState \in SUBSET Keys /\ key \in Drivers
        /\ debounce \in Countdowns(Debounce) /\ held \in 0 .. LongTouch /\ Sound(key)
    BY DEF Always, KeysRight
  <2>2. /\ app \in Apps /\ settled \in BOOLEAN /\ early \in BOOLEAN /\ misread \in BOOLEAN
        /\ AlarmWaitsForDoor
    BY DEF Always, DoorRight
  <2>3. /\ buzzer \in Buzzers /\ (buzzer.ctrl # Idle <=> buzzer.event \/ buzzer.left > 0)
        /\ (buzzer.on => buzzer.ctrl # Idle)
    BY DEF Always, Driven
  <2>4. buzzer.on \in BOOLEAN /\ buzzer.event \in BOOLEAN /\ buzzer.left \in Nat
    BY <2>3 DEF Buzzers
  <2>5. /\ key.cb.data \in [Slots -> Keys \cup {NoCallback}]
        /\ key.cb.left \in [Slots -> 0 .. LongTouch] /\ key.cb.events \subseteq Slots
        /\ key.keyState \subseteq Keys /\ key.tidEn \subseteq Keys
        /\ key.tid \in [Keys -> Slots]
    BY <2>1 DEF Drivers, Tables
  <2>6. {settled, early, misread} \subseteq BOOLEAN
    BY <2>2
  <2>7. TypeOK
    BY <2>1, <2>2, <2>4, <2>5, <2>6, Zenon DEF TypeOK, Countdowns, Apps
  <2>8. KeysOwnTheirSlots
    BY <2>1 DEF KeysOwnTheirSlots, Sound, Noted
  <2>9. BuzzerIsDriven
    BY <2>3 DEF BuzzerIsDriven
  <2> QED BY <2>2, <2>7, <2>8, <2>9 DEF DriversSound
<1> QED BY <1>1, AlwaysHolds, PTL

(* Once the keys are still and all is handled, the application knows       *)
(* whether the door is open, however its contact has bounced, unless the   *)
(* door moved before the first reading or a reading was not polled.        *)
THEOREM DoorStaysKnown == Spec => []DoorIsKnown
<1>1. Always => DoorIsKnown
  <2> SUFFICES ASSUME Always, Still, ~early, ~misread
               PROVE  app.isDoorOpen <=> Door \notin pressed
    BY DEF DoorIsKnown
  <2>1. key.keyState = pressed /\ key.msgs = <<>>
    BY DEF Always, DoorRight, ReadRight, Still
  <2>2. settled
    BY <2>1 DEF Always, DoorRight, Unsettled
  <2>3. OpenAfter(key.msgs, app.isDoorOpen) <=> Door \notin key.keyState
    BY <2>2, Zenon DEF Always, DoorRight, Learnt
  <2>4. OpenAfter(key.msgs, app.isDoorOpen) = app.isDoorOpen
    <3> DEFINE m == key.msgs
    <3>1. m = <<>>
      BY <2>1
    <3> HIDE DEF m
    <3>2. OpenAfter(m, app.isDoorOpen) = app.isDoorOpen
      BY <3>1, NothingNew, Zenon
    <3> QED BY <3>2, Zenon DEF m
  <2>5. app.isDoorOpen <=> Door \notin key.keyState
    BY <2>3, <2>4, Zenon
  <2> QED BY <2>1, <2>5, Zenon
<1> QED BY <1>1, AlwaysHolds, PTL

-----------------------------------------------------------------------------
(* Each step of the drivers is one of the contract's, or none of them.     *)
LEMMA ContractInit == Init => Contract!Init
<1> SUFFICES ASSUME Init PROVE Contract!Init
  OBVIOUS
<1>1. key.keyState = {} /\ key.msgs = <<>> /\ held = 0
  BY DoorAssumption, Fresh DEF Init
<1>2. (Button \in key.keyState /\ Button \notin key.tidEn) = FALSE
  BY <1>1
<1> QED BY <1>1, <1>2, Zenon DEF Contract!Init

(* A reading of the pins is one of the contract.                           *)
LEMMA ContractReads == KeysRight /\ HalKeyEvent => Contract!Read(pressed)
<1> SUFFICES ASSUME KeysRight, HalKeyEvent PROVE Contract!Read(pressed)
  OBVIOUS
<1>1. /\ key \in Drivers /\ held \in 0 .. LongTouch /\ pressed \in SUBSET Keys
      /\ Sound(key) /\ Measured(key, held) /\ NoneFreed(key.cb)
      /\ SlotsSuffice(key, pressed) /\ (Button \in key.tidEn => Button \in key.keyState)
  BY DEF KeysRight, HalKeyEvent
<1>2. /\ key' = HalKeyHandle(key, pressed)
      /\ held' = IF Button \in key.keyState \cap pressed THEN held ELSE 0
  BY DEF HalKeyEvent
<1>3. ASSUME NEW r, r = HalKeyHandle(key, pressed)
      PROVE  /\ r.keyState = pressed
             /\ Button \in r.tidEn
                  <=> Button \in pressed /\ (Button \in key.tidEn \/ Button \notin key.keyState)
             /\ r.msgs = (key.msgs \o ShortReport(key, pressed)) \o DoorReport(key, pressed)
  BY <1>1, <1>3, DoorAssumption, Reading, SMTT(60)
<1>4. /\ key'.keyState = pressed
      /\ Button \in key'.tidEn
           <=> Button \in pressed /\ (Button \in key.tidEn \/ Button \notin key.keyState)
      /\ key'.msgs = (key.msgs \o ShortReport(key, pressed)) \o DoorReport(key, pressed)
  BY <1>2, <1>3, Zenon
<1>5. Contract!ShortTouch(pressed) = ShortReport(key, pressed)
  BY <1>1 DEF Contract!ShortTouch, ShortReport
<1>6. Contract!DoorMoves(pressed) = DoorReport(key, pressed)
  BY Zenon DEF Contract!DoorMoves, DoorReport
<1>7. (Button \in key'.keyState /\ Button \notin key'.tidEn)
        = ((Button \in key.keyState /\ Button \notin key.tidEn) /\ Button \in pressed)
  BY <1>4, Zenon
<1> QED BY <1>2, <1>4, <1>5, <1>6, <1>7, Zenon DEF Contract!Read

(* A callback reports a long touch, or nothing.                            *)
LEMMA ContractCalls ==
  KeysRight /\ CbTimerEvent => Contract!Long \/ UNCHANGED Contract!vars
<1> SUFFICES ASSUME KeysRight, CbTimerEvent PROVE Contract!Long \/ UNCHANGED Contract!vars
  OBVIOUS
<1> DEFINE i == FirstOf(key.cb.events)
           x == key.cb.data[i]
<1>1. /\ key \in Drivers /\ Sound(key) /\ Measured(key, held)
      /\ held \in 0 .. LongTouch
      /\ (Button \in key.tidEn => Button \in key.keyState)
  BY DEF KeysRight
<1>2. /\ key.cb.events # {} /\ key' = CbTimerProcessEvent(key) /\ held' = held
  BY DEF CbTimerEvent, CbReady
<1>3. /\ key'.keyState = key.keyState /\ key'.tidEn = key.tidEn \ {x}
      /\ key'.msgs = IF x = Button THEN Append(key.msgs, <<Button, "Long">>) ELSE key.msgs
  BY <1>1, <1>2, DoorAssumption, Called
<1>4. i \in key.cb.events /\ i \in Slots /\ key.cb.left \in [Slots -> 0 .. LongTouch]
  <2>1. key.cb.events \subseteq Slots /\ key.cb.left \in [Slots -> 0 .. LongTouch]
    BY <1>1 DEF Drivers, Tables
  <2> QED BY <1>2, <2>1, DoorAssumption, LeastSlot
<1> HIDE DEF i
<1>5. CASE x = Button
  <2>1. Button \in key.tidEn /\ key.tid[Button] = i
    BY <1>1, <1>4, <1>5 DEF Sound, OneSlot
  <2>2. held = LongTouch
    BY <1>1, <1>4, <2>1, DoorAssumption DEF Measured, DoorAssumption
  <2>3. (Button \in key'.keyState /\ Button \notin key'.tidEn) = TRUE
    BY <1>1, <1>3, <1>5, <2>1
  <2>4. key'.msgs = Append(key.msgs, <<Button, "Long">>)
    BY <1>3, <1>5, Zenon
  <2>5. Contract!LongTouchReached
    BY <1>1, <2>1, <2>2, Zenon DEF Contract!LongTouchReached
  <2> QED BY <1>2, <1>3, <2>3, <2>4, <2>5, Zenon DEF Contract!Long
<1>6. CASE x # Button
  <2>1. key'.msgs = key.msgs
    BY <1>3, <1>6, Zenon
  <2>2. (Button \in key'.keyState /\ Button \notin key'.tidEn)
          = (Button \in key.keyState /\ Button \notin key.tidEn)
    BY <1>3, <1>6
  <2> QED BY <1>2, <1>3, <2>1, <2>2, Zenon DEF Contract!vars
<1> QED BY <1>5, <1>6

(* Time does not pass over a long touch.                                   *)
LEMMA ContractTicks == KeysRight /\ Tick => Contract!Tick
<1> SUFFICES ASSUME KeysRight, Tick PROVE Contract!Tick
  OBVIOUS
<1>1. /\ key \in Drivers /\ Sound(key) /\ Measured(key, held) /\ held \in 0 .. LongTouch
      /\ (Button \in key.tidEn => Button \in key.keyState)
  BY DEF KeysRight
<1>2. /\ key.cb.events = {} /\ key' = [key EXCEPT !.cb = CbTimerTick(@)]
      /\ held' = IF Button \in key.keyState /\ held < LongTouch THEN held + 1 ELSE held
  BY DEF Tick, CbReady
<1>3. key'.keyState = key.keyState /\ key'.tidEn = key.tidEn /\ key'.msgs = key.msgs
  BY <1>1, <1>2 DEF Drivers
<1>4. ASSUME Button \in key.tidEn PROVE held # LongTouch
  <2>1. /\ key.tid[Button] \in Slots /\ key.cb.left[key.tid[Button]] \in 0 .. LongTouch
    BY <1>1 DEF Drivers, Tables, Keys
  <2> QED BY <1>1, <1>2, <1>4, <2>1 DEF Measured
<1>5. ~Contract!LongTouchReached
  BY <1>4, Zenon DEF Contract!LongTouchReached
<1>6. (Button \in key'.keyState /\ Button \notin key'.tidEn)
        = (Button \in key.keyState /\ Button \notin key.tidEn)
  BY <1>3
<1> QED BY <1>2, <1>3, <1>5, <1>6, Zenon DEF Contract!Tick

(* Every step is one of the contract or none.                              *)
LEMMA ContractNext ==
  KeysRight /\ [Next]_vars => [Contract!Next]_Contract!vars
<1> SUFFICES ASSUME KeysRight, [Next]_vars PROVE [Contract!Next]_Contract!vars
  OBVIOUS
<1>1. ASSUME key' = key, held' = held PROVE [Contract!Next]_Contract!vars
  BY <1>1, Zenon DEF Contract!vars
<1>2. CASE HalKeyEvent
  <2>1. pressed \in SUBSET {Button, Door}
    BY DEF KeysRight, Keys
  <2>2. Contract!Read(pressed)
    BY <1>2, ContractReads
  <2> QED BY <2>1, <2>2, Zenon DEF Contract!Next
<1>3. CASE AssertionFails
  <2>1. key'.keyState = {} /\ key'.msgs = <<>> /\ held' = 0
    BY <1>3, DoorAssumption, Fresh DEF AssertionFails
  <2>2. (Button \in key'.keyState /\ Button \notin key'.tidEn) = FALSE
    BY <2>1
  <2> QED BY <2>1, <2>2, Zenon DEF Contract!Restart, Contract!Next
<1>4. CASE CbTimerEvent
  BY <1>4, ContractCalls, Zenon DEF Contract!Next
<1>5. CASE AppMessages
  <2>1. key'.msgs = <<>> /\ key'.keyState = key.keyState /\ key'.tidEn = key.tidEn /\ held' = held
    BY <1>5, Emptied DEF KeysRight, AppMessages
  <2> QED BY <2>1, Zenon DEF Contract!Take, Contract!Next
<1>6. CASE Tick
  BY <1>6, ContractTicks, Zenon DEF Contract!Next
<1>7. CASE OpenRequest \/ HalKeyPoll \/ HalBuzzerEvent \/ AppAlarm \/ UNCHANGED vars
  BY <1>1, <1>7, Zenon DEF OpenRequest, HalKeyPoll, HalBuzzerEvent, AppAlarm, vars
<1>8. ASSUME NEW b \in OtherBeeps, OtherBeep(b) PROVE [Contract!Next]_Contract!vars
  BY <1>1, <1>8, Zenon DEF OtherBeep
<1>9. ASSUME NEW k \in Keys, Touch(k) PROVE [Contract!Next]_Contract!vars
  BY <1>1, <1>9, Zenon DEF Touch
<1> QED BY <1>2, <1>3, <1>4, <1>5, <1>6, <1>7, <1>8, <1>9 DEF Next, Input, Program

(* The button is reported once per touch, long exactly when it was down    *)
(* for the time of a long touch; the door at each of its moves; all in the *)
(* order of the readings, as KeyReports says.                              *)
THEOREM KeysReport == Spec => KeysAreReported
<1>1. Spec => []KeysRight
  <2>1. Always => KeysRight
    BY DEF Always
  <2> QED BY <2>1, AlwaysHolds, PTL
<1> QED BY <1>1, ContractInit, ContractNext, PTL DEF Spec, KeysAreReported, Contract!Spec

=============================================================================
