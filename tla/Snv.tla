-------------------------------- MODULE Snv --------------------------------
(****************************************************************************)
(* osal_snv.c: items in one of two flash pages, each item its data words    *)
(* followed by a header word.  A full page is compacted into the other one. *)
(* A page is a header and words; the code's calls are turned into a plan of *)
(* single flash operations, each of which can be cut by a loss of power or  *)
(* fail its verification.  Offsets are in words.                            *)
(*                                                                          *)
(* A word is data or an item header, and reading one as the other's fields  *)
(* is an error of the model.                                                *)
(****************************************************************************)
EXTENDS Integers, Sequences

CONSTANTS Ids,          \* item ids, below 256
          AlignedLen,         \* the aligned length of each item, in words
          Values,
          PageWords,    \* OSAL_NV_PAGE_SIZE, with the page header
          LenWidth,     \* 256 bytes, in words: what findItem's uint8 len can tell
          Thresholds,   \* bound: the arguments of osal_snv_compact, in percent
          MaxFaults,    \* bound: operations that are cut or fail
          None, Junk

ASSUME SnvAssumption ==
    /\ Ids \subseteq 0 .. 255
    /\ AlignedLen \in [Ids -> Nat]
    /\ PageWords \in Nat /\ LenWidth \in Nat \ {0} /\ MaxFaults \in Nat

VARIABLES flash,        \* each page's header and words
          activePg, pgOff, failF,
          plan,         \* the flash operations the code is about to do
          pc,           \* what follows when the plan is done
          job,          \* the locals of the function at work
          write, answer,    \* the call and its result
          asserted,     \* HAL_ASSERT_FORCED was reached
          faults

vars == <<flash, activePg, pgOff, failF, plan, pc, job, write, answer, asserted, faults>>

NoJob == [at |-> "none"]

Pages == {1, 2}         \* OSAL_NV_PAGE_BEG and OSAL_NV_PAGE_END; 0 is OSAL_NV_PAGE_NULL
Offsets == 1 .. PageWords - 1
Other(pg) == 3 - pg

-----------------------------------------------------------------------------
(* Words.  idBit and lenBit are the marks of an identifier and a length that *)
(* are not valid yet; -1 stands for all ones, -2 for bits that were cut.     *)

Hdr(id, idBit, len, lenBit) == [id |-> id, idBit |-> idBit, len |-> len, lenBit |-> lenBit]
Data(v) == [data |-> v]
ErasedWord == Hdr(-1, TRUE, -1, TRUE)

ErasedPage == [hdr |-> "erased", word |-> [o \in Offsets |-> ErasedWord]]

FindOffset(pg) ==
    LET from[o \in 0 .. PageWords - 1] ==
          IF o = 0 THEN 1 ELSE IF pg.word[o] # ErasedWord THEN o + 1 ELSE from[o - 1]
    IN  from[PageWords - 1]

Corrupt == -1

\* findItem: downwards from the header below offset; 0 when not found
FindItem(pg, offset, id) ==
    LET find[o \in 0 .. PageWords] ==
          IF o < 1 THEN 0
          ELSE LET h == pg.word[o] IN
               IF h.id = id /\ ~h.idBit THEN o - (h.len % LenWidth)
               ELSE IF h.lenBit THEN find[o - 1]
               ELSE IF h.len + 1 <= o THEN find[o - h.len - 1]
               ELSE Corrupt
    IN  find[offset - 1]

\* AlignedLen[id] words from an offset, as a value
ReadAt(pg, o, id) ==
    IF \E v \in Values : \A i \in 0 .. AlignedLen[id] - 1 : pg.word[o + i] = Data(v)
    THEN CHOOSE v \in Values : \A i \in 0 .. AlignedLen[id] - 1 : pg.word[o + i] = Data(v)
    ELSE Junk

\* osal_snv_read
Read(pg, offset, id) ==
    LET o == FindItem(pg, offset, id) IN IF o <= 0 THEN None ELSE ReadAt(pg, o, id)

-----------------------------------------------------------------------------
(* Flash operations: what they do, and what they may leave when they are cut *)

Word(pg, o, to, cut) == [op |-> "word", pg |-> pg, at |-> o, to |-> to, cut |-> cut]
Mark(pg, to, cut) == [op |-> "mark", pg |-> pg, to |-> to, cut |-> cut]
Erase(pg) == [op |-> "erase", pg |-> pg]

Done(f, p) ==
    CASE p.op = "word" -> [f EXCEPT ![p.pg].word[p.at] = p.to]
      [] p.op = "mark" -> [f EXCEPT ![p.pg].hdr = p.to]
      [] p.op = "erase" -> [f EXCEPT ![p.pg] = ErasedPage]

\* A page whose erasure is cut keeps its header, loses it or has a broken one, and any
\* of its words may be broken.  That its header reads as active again is left out: initNV
\* then erases both pages (osal_snv.c:230).
Cut(f, p) ==
    CASE p.op = "word" -> {[f EXCEPT ![p.pg].word[p.at] = w] : w \in p.cut}
      [] p.op = "mark" -> {[f EXCEPT ![p.pg].hdr = h] : h \in p.cut}
      [] p.op = "erase" ->
            {[f EXCEPT ![p.pg] = [hdr |-> h, word |-> [o \in Offsets |-> Data(Junk)]]] :
                h \in {f[p.pg].hdr, "erased", "broken"}}

SetActivePage(pg) == Mark(pg, "active", {"broken"})

\* One bit tells an active page from one that is transferred
SetXferPage(pg) == Mark(pg, "xfer", {})

CleanErasedPage(pg) == IF flash[pg] = ErasedPage THEN << >> ELSE <<Erase(pg)>>

\* Mutant: the header is complete before the data is written
WriteItem_IdFirst(pg, o, id, v) ==
    LET n == AlignedLen[id] IN
    <<Word(pg, o + n, Hdr(-1, TRUE, n, TRUE), {Hdr(-1, TRUE, -2, TRUE)}),
      Word(pg, o + n, Hdr(-1, TRUE, n, FALSE), {}),
      Word(pg, o + n, Hdr(id, TRUE, n, FALSE), {Hdr(-2, TRUE, n, FALSE)}),
      Word(pg, o + n, Hdr(id, FALSE, n, FALSE), {})>>
    \o [i \in 1 .. n |-> Word(pg, o + i - 1, Data(v), {Data(Junk)})]

\* The length, marked as invalid, then as valid; the data; the id, likewise
WriteItem(pg, o, id, v) ==
    LET n == AlignedLen[id] IN
    <<Word(pg, o + n, Hdr(-1, TRUE, n, TRUE), {Hdr(-1, TRUE, -2, TRUE)}),
      Word(pg, o + n, Hdr(-1, TRUE, n, FALSE), {})>>
    \o [i \in 1 .. n |-> Word(pg, o + i - 1, Data(v), {Data(Junk)})]
    \o <<Word(pg, o + n, Hdr(id, TRUE, n, FALSE), {Hdr(-2, TRUE, n, FALSE)}),
         Word(pg, o + n, Hdr(id, FALSE, n, FALSE), {})>>

\* Data and header, as they are in the source page
XferItem(dst, dstOff, len, srcOff) ==
    [i \in 1 .. len + 1 |->
        Word(dst, dstOff + i - 1, flash[activePg].word[srcOff + i - 1], {Data(Junk)})]

\* writeWord, erasePage: nothing is done after a failure
Intend(ops) == plan' = IF failF THEN << >> ELSE ops

Perform ==
    /\ plan # << >>
    /\ flash' = Done(flash, Head(plan))
    /\ plan' = Tail(plan)
    /\ UNCHANGED <<activePg, pgOff, failF, pc, job, write, answer, asserted, faults>>

\* The verification finds another value
Fail ==
    /\ plan # << >> /\ faults < MaxFaults
    /\ flash' \in {flash} \cup Cut(flash, Head(plan))
    /\ failF' = TRUE
    /\ plan' = << >>
    /\ faults' = faults + 1
    /\ UNCHANGED <<activePg, pgOff, pc, job, write, answer, asserted>>

\* The power fails, in an operation, before or after it
PowerOff ==
    /\ pc # "off"
    /\ \/ plan = << >> /\ UNCHANGED <<flash, faults>>
       \/ /\ plan # << >> /\ faults < MaxFaults
          /\ flash' \in {flash} \cup Cut(flash, Head(plan))
          /\ faults' = faults + 1
    /\ plan' = << >> /\ pc' = "off" /\ write' = << >> /\ answer' = "none"
    /\ job' = NoJob
    /\ activePg' = 0 /\ pgOff' = 0 /\ failF' = FALSE
    /\ UNCHANGED asserted

-----------------------------------------------------------------------------
(* initNV *)

At(where) == plan = << >> /\ pc = where

InitNV ==
    /\ pc = "off"
    /\ failF' = FALSE /\ activePg' = 0
    /\ job' = [at |-> "init", pg |-> 1, xferPg |-> 0]
    /\ pc' = "scan"
    /\ UNCHANGED <<flash, pgOff, plan, write, answer, asserted, faults>>

\* One page of the loop: a page that is neither active nor being transferred is erased,
\* and so are both if both are active.
Scan ==
    LET pg == job.pg
        hdr == flash[pg].hdr
        both == hdr = "active" /\ activePg # 0
    IN
    /\ At("scan")
    /\ job' = [job EXCEPT !.pg = pg + 1, !.xferPg = IF hdr = "xfer" THEN pg ELSE @]
    /\ activePg' = IF both THEN 0 ELSE IF hdr = "active" THEN pg ELSE activePg
    /\ Intend(IF both THEN CleanErasedPage(activePg) \o CleanErasedPage(pg)
              ELSE IF hdr \in {"active", "xfer"} THEN << >> ELSE CleanErasedPage(pg))
    /\ pc' = IF pg = 2 THEN "choose" ELSE "scan"
    /\ UNCHANGED <<flash, pgOff, failF, write, answer, asserted, faults>>

\* Where compactPage starts
Compaction(src, off, for) ==
    [at |-> for, src |-> src, srcOff |-> off - 1, dstOff |-> 1, lastId |-> 255]

Choose ==
    LET xfer == job.xferPg IN
    /\ At("choose")
    /\ \/ /\ activePg = 0 /\ xfer = 0
          /\ Intend(<<SetActivePage(1)>>) /\ pc' = "formatted"
          /\ UNCHANGED <<activePg, pgOff, job>>
       \/ /\ activePg = 0 /\ xfer # 0
          /\ activePg' = xfer /\ pgOff' = FindOffset(flash[xfer])
          /\ job' = Compaction(xfer, pgOff', "init") /\ pc' = "compact"
          /\ UNCHANGED plan
       \/ /\ activePg # 0
          /\ Intend(IF xfer = 0 THEN << >> ELSE <<Erase(xfer)>>)
          /\ pc' = "opened"
          /\ UNCHANGED <<activePg, pgOff, job>>
    /\ UNCHANGED <<flash, failF, write, answer, asserted, faults>>

\* osal_snv_init asserts when not even an empty page can be activated
Formatted ==
    /\ At("formatted")
    /\ activePg' = IF failF THEN 0 ELSE 1
    /\ pgOff' = 1
    /\ pc' = IF failF THEN "failed" ELSE "idle"
    /\ job' = NoJob
    /\ UNCHANGED <<flash, failF, plan, write, answer, asserted, faults>>

Opened ==
    /\ At("opened")
    /\ pgOff' = FindOffset(flash[activePg])
    /\ pc' = "idle"
    /\ job' = NoJob
    /\ UNCHANGED <<flash, activePg, failF, plan, write, answer, asserted, faults>>

-----------------------------------------------------------------------------
(* osal_snv_write and osal_snv_compact *)

Write(id, v) ==
    LET found == FindItem(flash[activePg], pgOff, id)
        same == found > 0 /\ ReadAt(flash[activePg], found, id) = v
    IN
    /\ At("idle") /\ write = << >>
    /\ asserted' = (asserted \/ found = Corrupt)
    /\ write' = <<id, v>> /\ answer' = "none"
    /\ \/ /\ same
          /\ pc' = "same"
          /\ UNCHANGED plan
       \/ /\ ~same /\ pgOff + AlignedLen[id] + 1 <= PageWords
          /\ Intend(WriteItem(activePg, pgOff, id, v)) /\ pc' = "wrote"
       \/ /\ ~same /\ pgOff + AlignedLen[id] + 1 > PageWords
          /\ Intend(<<SetXferPage(activePg)>>) /\ pc' = "xfer"
    /\ job' = [at |-> "write"]
    /\ UNCHANGED <<flash, activePg, pgOff, failF, faults>>

\* The value is there already
Same ==
    /\ At("same")
    /\ write' = << >> /\ answer' = "SUCCESS" /\ pc' = "idle"
    /\ job' = NoJob
    /\ UNCHANGED <<flash, activePg, pgOff, failF, plan, asserted, faults>>

Wrote ==
    /\ At("wrote")
    /\ write' = << >> /\ pc' = "idle"
    /\ answer' = IF failF THEN "NV_OPER_FAILED" ELSE "SUCCESS"
    /\ pgOff' = IF failF THEN pgOff ELSE pgOff + AlignedLen[write[1]] + 1
    /\ job' = NoJob
    /\ UNCHANGED <<flash, activePg, failF, plan, asserted, faults>>

Compact(threshold) ==
    /\ At("idle") /\ write = << >>
    /\ pgOff * 100 >= PageWords * threshold
    /\ Intend(<<SetXferPage(activePg)>>) /\ pc' = "xfer"
    /\ job' = [at |-> "compact"]
    /\ UNCHANGED <<flash, activePg, pgOff, failF, write, answer, asserted, faults>>

-----------------------------------------------------------------------------
(* compactPage *)

CompactPage ==
    /\ At("xfer")
    /\ job' = Compaction(activePg, pgOff, job.at) /\ pc' = "compact"
    /\ UNCHANGED <<flash, activePg, pgOff, failF, plan, write, answer, asserted, faults>>

\* What the loop does with the header at srcOff: a word or an item to skip, an item to
\* copy, or the end of it all.
Look(h, dst) ==
    IF h.id = -1 /\ h.idBit
    THEN IF h.lenBit THEN "word" ELSE IF h.len + 1 <= job.srcOff THEN "item" ELSE "corrupt"
    ELSE IF ~h.idBit /\ h.id # job.lastId /\ FindItem(dst, job.dstOff, h.id) <= 0
         THEN "copy"
         ELSE "item"

CompactItem ==
    LET h == flash[job.src].word[job.srcOff]
        dst == Other(job.src)
        look == Look(h, flash[dst])
    IN
    /\ At("compact") /\ job.srcOff >= 1
    /\ IF failF \/ look = "corrupt"
       THEN pc' = "compacted" /\ UNCHANGED <<plan, job>>
       ELSE /\ Intend(IF look = "copy"
                      THEN XferItem(dst, job.dstOff, h.len, job.srcOff - h.len) ELSE << >>)
            /\ job' = [job EXCEPT
                         !.srcOff = IF look = "word" THEN @ - 1 ELSE @ - h.len - 1,
                         !.dstOff = IF look = "copy" THEN @ + h.len + 1 ELSE @,
                         !.lastId = IF h.idBit THEN @ ELSE h.id]
            /\ UNCHANGED pc
    /\ asserted' = (asserted \/ (~failF /\ (look = "corrupt" \/ FindItem(flash[dst], job.dstOff, h.id) = Corrupt)))
    /\ UNCHANGED <<flash, activePg, pgOff, failF, write, answer, faults>>

\* All items are copied
Activate ==
    /\ At("compact") /\ job.srcOff < 1
    /\ Intend(<<SetActivePage(Other(job.src))>>) /\ pc' = "activated"
    /\ UNCHANGED <<flash, activePg, pgOff, failF, job, write, answer, asserted, faults>>

Activated ==
    /\ At("activated")
    /\ activePg' = IF failF THEN activePg ELSE Other(job.src)
    /\ pgOff' = IF failF THEN pgOff ELSE job.dstOff
    /\ Intend(<<Erase(job.src)>>) /\ pc' = "compacted"
    /\ UNCHANGED <<flash, failF, job, write, answer, asserted, faults>>

\* Back to osal_snv_write, or to the end of initNV and osal_snv_compact
Compacted ==
    /\ At("compacted")
    /\ IF job.at = "write"
       THEN Intend(WriteItem(activePg, pgOff, write[1], write[2])) /\ pc' = "wrote"
            /\ UNCHANGED job
       ELSE pc' = "idle" /\ job' = NoJob /\ UNCHANGED plan
    /\ UNCHANGED <<flash, activePg, pgOff, failF, write, answer, asserted, faults>>

-----------------------------------------------------------------------------
Init ==
    /\ flash = [pg \in Pages |-> ErasedPage]
    /\ activePg = 0 /\ pgOff = 0 /\ failF = FALSE
    /\ plan = << >> /\ pc = "off" /\ job = NoJob
    /\ write = << >> /\ answer = "none"
    /\ asserted = FALSE /\ faults = 0

Next ==
    \/ Perform \/ Fail \/ PowerOff
    \/ InitNV \/ Scan \/ Choose \/ Formatted \/ Opened
    \/ \E id \in Ids, v \in Values : Write(id, v)
    \/ \E t \in Thresholds : Compact(t)
    \/ Same \/ Wrote
    \/ CompactPage \/ CompactItem \/ Activate \/ Activated \/ Compacted

Spec == Init /\ [][Next]_vars

-----------------------------------------------------------------------------
\* What a restart would find: in the active page, or in the one that is transferred
Durable ==
    LET active == {pg \in Pages : flash[pg].hdr = "active"}
        xfer == {pg \in Pages : flash[pg].hdr = "xfer"}
        kept == IF active # {} THEN active ELSE xfer
        pg == flash[CHOOSE p \in kept : TRUE]
        offset == FindOffset(pg)
    IN  [id \in Ids |-> IF kept \in {{1}, {2}} THEN Read(pg, offset, id) ELSE None]

TypeOK ==
    /\ activePg \in Pages \cup {0} /\ pgOff \in 0 .. PageWords
    /\ failF \in BOOLEAN /\ asserted \in BOOLEAN /\ faults \in 0 .. MaxFaults
    /\ \A pg \in Pages :
        /\ flash[pg].hdr \in {"erased", "active", "xfer", "broken"}
        /\ DOMAIN flash[pg].word = Offsets
    /\ pc = "idle" => activePg # 0 /\ plan = << >>

\* Whatever was cut (as in Cut) or has failed before, the chain of the items in the page is never
\* broken: the assertions of findItem and compactPage hold (osal_snv.c:478 and :619).
ChainHolds == ~asserted

\* A word is only written where its bits can be cleared: on an erased word, or on the
\* same header with one mark more.
OnlyClearsBits ==
    plan # << >> /\ Head(plan).op = "word" =>
        LET p == Head(plan)
            old == flash[p.pg].word[p.at]
        IN  \/ old = ErasedWord
            \/ "len" \in DOMAIN p.to
               /\ old \in {Hdr(-1, TRUE, p.to.len, TRUE), Hdr(-1, TRUE, p.to.len, FALSE),
                           Hdr(p.to.id, TRUE, p.to.len, FALSE)}

\* What osal_snv_read finds from the offset in memory is what a restart would find
ReadsAreDurable ==
    At("idle") => \A id \in Ids : Read(flash[activePg], pgOff, id) = Durable[id]

\* A write is one step on the flash, under the failures of Cut at any operation; no step
\* of a compaction or of a recovery changes or loses an item.  A cut erasure that leaves
\* two active pages, which initNV meets by erasing both, is not among them.
Store == INSTANCE NvStore WITH value <- Durable
IsStore == Store!Spec
=============================================================================
