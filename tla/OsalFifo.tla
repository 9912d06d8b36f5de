------------------------------ MODULE OsalFifo ------------------------------
(****************************************************************************)
(* The byte FIFO of osal_fifo.c: a handle and a list of pages, allocated    *)
(* when the last page is full and freed when the first one has been read.   *)
(* Blocks are the pages the heap can give; any allocation may fail, since   *)
(* the rest of the program uses the same heap.  A freed page keeps what was *)
(* in it, as memory does.                                                   *)
(****************************************************************************)
EXTENDS Naturals, Sequences

CONSTANTS Blocks,      \* addresses of pages
          NULL,
          Byte,
          PageSize     \* OSAL_FIFO_PAGE_SIZE

Handle == [datalen : Nat, headPage : Blocks \cup {NULL}, tailPage : Blocks \cup {NULL}]

\* NULL is no page, no handle, no byte and no bytes
FifoAssumption ==
    /\ NULL \notin Blocks /\ NULL \notin Handle
    /\ PageSize \in Nat \ {0}
    /\ 0 \notin Byte /\ NULL \notin Byte /\ NULL \notin Seq(Byte \cup {0})

VARIABLES handle,   \* FIFOHandle_t, or NULL
          page,     \* the memory of the pages: FIFOPage_t
          used,     \* pages the heap has given away
          result    \* the value of the last call; NULL: none

vars == <<handle, page, used, result>>

Page == [buf : [0 .. PageSize - 1 -> Byte \cup {0}], head : 0 .. PageSize,
         tail : 0 .. PageSize, nextPage : Blocks \cup {NULL}]

TypeOK ==
    /\ handle \in Handle \cup {NULL}
    /\ page \in [Blocks -> Page]
    /\ used \subseteq Blocks
    /\ result \in Byte \cup {0, NULL}

Init ==
    /\ handle = NULL /\ used = {} /\ result = NULL
    /\ page = [b \in Blocks |-> [buf |-> [i \in 0 .. PageSize - 1 |-> 0],
                                 head |-> 0, tail |-> 0, nextPage |-> NULL]]

\* osal_fifo_create; the handle's memory is not modelled
Create ==
    /\ handle = NULL
    /\ \/ handle' = [datalen |-> 0, headPage |-> NULL, tailPage |-> NULL] /\ result' = 0
       \/ UNCHANGED handle /\ result' = NULL
    /\ UNCHANGED <<page, used>>

NeedsPage ==
    IF handle.tailPage = NULL THEN TRUE ELSE page[handle.tailPage].tail >= PageSize

\* The new last page, with the byte in it; the rest of the buffer is as it was freed
NewPage(p, b) ==
    [page[p] EXCEPT !.buf = [@ EXCEPT ![0] = b], !.head = 0, !.tail = 1, !.nextPage = NULL]

\* return NULL, before anything has changed
OutOfMemory == UNCHANGED <<handle, page, used>>

\* osal_fifo_put, when it has to allocate a page first
PutInNewPage(b) ==
    /\ handle # NULL /\ NeedsPage
    /\ \/ \E p \in Blocks \ used :
            /\ used' = used \cup {p}
            /\ IF handle.tailPage = NULL
               THEN /\ page' = [page EXCEPT ![p] = NewPage(p, b)]
                    /\ handle' = [handle EXCEPT !.datalen = @ + 1, !.headPage = p, !.tailPage = p]
               ELSE /\ page' = [page EXCEPT ![p] = NewPage(p, b), ![handle.tailPage].nextPage = p]
                    /\ handle' = [handle EXCEPT !.datalen = @ + 1, !.tailPage = p]
            /\ result' = b
       \/ OutOfMemory /\ result' = NULL

\* osal_fifo_put, with room in the last page
PutInPage(b) ==
    /\ handle # NULL /\ ~NeedsPage
    /\ LET t == handle.tailPage IN
       page' = [page EXCEPT ![t].buf = [@ EXCEPT ![page[t].tail] = b], ![t].tail = @ + 1]
    /\ handle' = [handle EXCEPT !.datalen = @ + 1]
    /\ result' = b
    /\ UNCHANGED used

\* Mutant: the last page is freed, but still taken for the tail
WithoutHead_Stale(next) == [handle EXCEPT !.datalen = @ - 1, !.headPage = next]

\* The handle when its first page is freed: the last page goes with the only one
WithoutHead(next) ==
    [handle EXCEPT !.datalen = @ - 1, !.headPage = next,
                   !.tailPage = IF next = NULL THEN NULL ELSE @]

\* osal_fifo_get: a page is freed as soon as all that was put into it is read, even
\* when there is room in it
Get ==
    /\ handle # NULL
    /\ IF handle.datalen = 0
       THEN result' = 0 /\ UNCHANGED <<handle, page, used>>
       ELSE LET h == handle.headPage IN
            /\ result' = page[h].buf[page[h].head]
            /\ page' = [page EXCEPT ![h].head = @ + 1]
            /\ IF page[h].head + 1 = page[h].tail
               THEN used' = used \ {h} /\ handle' = WithoutHead(page[h].nextPage)
               ELSE handle' = [handle EXCEPT !.datalen = @ - 1] /\ UNCHANGED used

\* The pages of the list from p on
PagesFrom[p \in Blocks \cup {NULL}] ==
    IF p = NULL THEN << >> ELSE <<p>> \o PagesFrom[page[p].nextPage]

\* All pages of the list, read or not
Freed == {b \in used : \A i \in 1 .. Len(PagesFrom[handle.headPage]) : PagesFrom[handle.headPage][i] # b}

\* osal_fifo_delete
Delete ==
    /\ handle # NULL
    /\ used' = Freed
    /\ handle' = NULL /\ result' = 0
    /\ UNCHANGED page

Next ==
    \/ Create \/ Get \/ Delete
    \/ \E b \in Byte : PutInNewPage(b) \/ PutInPage(b)

Spec == Init /\ [][Next]_vars

-----------------------------------------------------------------------------
Unread(p) == [i \in 1 .. page[p].tail - page[p].head |-> page[p].buf[page[p].head + i - 1]]

\* The bytes of the pages of the list, in order
Bytes[p \in Blocks \cup {NULL}] ==
    IF p = NULL THEN << >> ELSE Unread(p) \o Bytes[page[p].nextPage]

Queued == IF handle = NULL THEN NULL ELSE Bytes[handle.headPage]

\* Pages that come and go are one queue of bytes: nothing is lost, doubled or moved at a
\* page's end, by a refused put, or by a page that is freed with room in it.
AsQueue == INSTANCE ByteQueue WITH queue <- Queued, result <- result,
                                   Absent <- NULL, Refused <- NULL
FifoIsQueue == AsQueue!Spec

ListOf(h) == IF h = NULL THEN {} ELSE {PagesFrom[h.headPage][i] : i \in 1 .. Len(PagesFrom[h.headPage])}

\* The heap gets every page back once, and the list has none that was given back: the
\* pages in use are those of the list, and the last one is where a put writes.
PagesAccounted ==
    /\ used = ListOf(handle)
    /\ handle # NULL =>
          LET list == PagesFrom[handle.headPage] IN
          handle.tailPage = IF list = << >> THEN NULL ELSE list[Len(list)]

\* osal_fifo_len, by which the polls of the UARTs and the sending of frames end their
\* loops, is the number of bytes that can be got.
LengthIsBytes == handle # NULL => handle.datalen = Len(Queued)
=============================================================================
