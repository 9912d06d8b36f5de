-------------------------------- MODULE Heap --------------------------------
(*****************************************************************************)
(* The heap of umm_malloc.c, behind osal_mem_alloc and osal_mem_free: blocks *)
(* of 8 bytes, each with the numbers of the next and the previous block in   *)
(* use or free, and while it is free with those of its neighbours in the     *)
(* free list, in the memory that holds data otherwise.  Data overwrites all  *)
(* of a chunk but its first block's header, and reading data as a number is  *)
(* an error of the model.  Clients stands for the parts of the program; a    *)
(* client's data is its name.                                                *)
(*****************************************************************************)
EXTENDS Integers, Sequences

CONSTANTS Clients,
          NumBlocks,    \* UMM_NUMBLOCKS
          BlockSize,    \* sizeof(umm_block): 8
          BodySize,     \* sizeof of its body: 4
          Sizes         \* bound: the sizes that are asked for

HeapAssumption ==
    /\ NumBlocks \in Nat /\ NumBlocks >= 3
    /\ BodySize \in Nat \ {0} /\ BlockSize \in Nat /\ BlockSize > BodySize
    /\ Sizes \subseteq Nat \ {0}
    /\ Clients \cap Int = {}

VARIABLES heap,     \* theHeap: the blocks
          ptr,      \* the block each client's pointer is in, 0: NULL
          asked,    \* the bytes each client has asked for
          denied    \* the last request, if it was denied: the client and the blocks it needed

vars == <<heap, ptr, asked, denied>>

Blocks == 0 .. NumBlocks - 1
Last == NumBlocks - 1

\* size bytes and a header, in blocks
UmmBlocks(size) ==
    IF size <= BodySize THEN 1 ELSE 2 + (size - (1 + BodySize)) \div BlockSize

Block(next, free, prev, nfree, pfree) ==
    [next |-> next, free |-> free, prev |-> prev, nfree |-> nfree, pfree |-> pfree]

\* umm_init: block 0 heads the free list, block 1 is all there is, the last one ends it
UmmInit ==
    [b \in Blocks |->
        CASE b = 0 -> Block(1, FALSE, 0, 1, 1)
          [] b = 1 -> Block(Last, TRUE, 0, 0, 0)
          [] b = Last -> Block(0, FALSE, 1, 0, 0)
          [] OTHER -> Block(0, FALSE, 0, 0, 0)]

Init ==
    /\ heap = UmmInit
    /\ ptr = [o \in Clients |-> 0]
    /\ asked = [o \in Clients |-> 0]
    /\ denied = << >>

-----------------------------------------------------------------------------
(* The functions of umm_malloc.c, from heap to heap *)

SplitBlock(h, c, n, free) ==
    LET far == h[c].next IN
    [h EXCEPT ![c + n].next = far, ![c + n].free = free, ![c + n].prev = c,
              ![far].prev = c + n,
              ![c].next = c + n, ![c].free = FALSE]

Disconnect(h, c) ==
    [h EXCEPT ![h[c].pfree].nfree = h[c].nfree,
              ![h[c].nfree].pfree = h[c].pfree,
              ![c].free = FALSE]

\* The next block, if free, becomes part of c
AssimilateUp(h, c) ==
    LET n == h[c].next
        d == Disconnect(h, n)
    IN  IF h[n].free
        THEN [d EXCEPT ![d[n].next].prev = c, ![c].next = d[n].next]
        ELSE h

\* c becomes part of the previous block
AssimilateDown(h, c, free) ==
    LET p == h[c].prev IN
    [h EXCEPT ![p].next = h[c].next, ![p].free = free, ![h[c].next].prev = p]

UmmFree(h, c) ==
    LET u == AssimilateUp(h, c) IN
    IF u[u[c].prev].free
    THEN AssimilateDown(u, c, TRUE)
    ELSE [u EXCEPT ![u[0].nfree].pfree = c,
                   ![c].nfree = u[0].nfree, ![c].pfree = 0, ![0].nfree = c,
                   ![c].free = TRUE]

\* The blocks met along the links from block 0 on, until a link is 0
Along(link) ==
    LET walk[n \in Nat] ==
            IF n = 0 THEN << >>
            ELSE LET before == walk[n - 1]
                     at == IF n = 1 THEN link[0]
                           ELSE IF Len(before) < n - 1 THEN 0 ELSE link[before[n - 1]]
                 IN  IF at = 0 THEN before ELSE Append(before, at)
    IN  walk[NumBlocks]

\* The free list, from its head on
FreeList(h) == Along([b \in Blocks |-> h[b].nfree])

SizeOf(h, c) == h[c].next - c

\* Mutant: only the first free block is looked at
BestFit_HeadOnly(h, n) == IF SizeOf(h, h[0].nfree) >= n THEN h[0].nfree ELSE 0

\* The first of the smallest free blocks that are large enough, or 0
BestFit(h, n) ==
    LET list == FreeList(h)
        fits == {i \in 1 .. Len(list) : SizeOf(h, list[i]) >= n}
        best == {i \in fits : \A j \in fits :
                    \/ SizeOf(h, list[i]) < SizeOf(h, list[j])
                    \/ SizeOf(h, list[i]) = SizeOf(h, list[j]) /\ i <= j}
    IN  IF fits = {} THEN 0 ELSE list[CHOOSE i \in best : TRUE]

\* What is left of a free block takes its place in the free list
MoveFree(h, c, d) ==
    [h EXCEPT ![h[c].pfree].nfree = d, ![d].pfree = h[c].pfree,
              ![h[c].nfree].pfree = d, ![d].nfree = h[c].nfree]

\* umm_malloc: the heap and the block, 0 when there is none
UmmMalloc(h, n) ==
    LET c == BestFit(h, n) IN
    [at |-> c,
     heap |-> IF c = 0 THEN h
              ELSE IF SizeOf(h, c) = n THEN Disconnect(h, c)
              ELSE MoveFree(SplitBlock(h, c, n, TRUE), c, c + n)]

\* Mutant: realloc moves only the first block of the data
MoveData_FirstOnly(h, from, to, n) ==
    [h EXCEPT ![to].nfree = h[from].nfree, ![to].pfree = h[from].pfree]

\* memmove of the data of a chunk of n blocks
MoveData(h, from, to, n) ==
    [b \in Blocks |->
        IF b = to THEN [h[b] EXCEPT !.nfree = h[from].nfree, !.pfree = h[from].pfree]
        ELSE IF b \in to + 1 .. to + n - 1 THEN h[b - to + from]
        ELSE h[b]]

\* The end of umm_realloc: what is too much is split off and freed
Trimmed(h, c, n) ==
    IF SizeOf(h, c) > n THEN UmmFree(SplitBlock(h, c, n, FALSE), c + n) ELSE h

\* umm_realloc of the chunk at c: the neighbours that are free may be used, the next
\* one first; only then a new chunk
UmmRealloc(h, c, n) ==
    LET size == SizeOf(h, c)
        next == IF h[h[c].next].free THEN SizeOf(h, h[c].next) ELSE 0
        prev == IF h[h[c].prev].free THEN c - h[c].prev ELSE 0
        p == h[c].prev
        Down(g) == MoveData(AssimilateDown(Disconnect(g, p), c, FALSE), c, p, size)
        fresh == UmmMalloc(h, n)
    IN  IF size >= n THEN [at |-> c, heap |-> Trimmed(h, c, n)]
        ELSE IF size + next >= n THEN [at |-> c, heap |-> Trimmed(AssimilateUp(h, c), c, n)]
        ELSE IF prev + size >= n THEN [at |-> p, heap |-> Trimmed(Down(h), p, n)]
        ELSE IF prev + size + next >= n
             THEN [at |-> p, heap |-> Trimmed(Down(AssimilateUp(h, c)), p, n)]
        ELSE IF fresh.at # 0
             THEN [at |-> fresh.at,
                   heap |-> UmmFree(MoveData(fresh.heap, c, fresh.at, size), c)]
        ELSE [at |-> 0, heap |-> h]

-----------------------------------------------------------------------------
(* The clients *)

\* The client writes its data to the blocks of its chunk from the k-th on
Written(h, o, c, k) ==
    [b \in Blocks |->
        IF b = c /\ k = 0 THEN [h[b] EXCEPT !.nfree = o, !.pfree = o]
        ELSE IF b > c /\ b >= c + k /\ b < h[c].next THEN Block(o, o, o, o, o)
        ELSE h[b]]

Alloc(o, size) ==
    LET got == UmmMalloc(heap, UmmBlocks(size)) IN
    /\ ptr[o] = 0
    /\ IF got.at = 0
       THEN denied' = <<o, UmmBlocks(size)>> /\ UNCHANGED <<heap, ptr, asked>>
       ELSE /\ heap' = Written(got.heap, o, got.at, 0)
            /\ ptr' = [ptr EXCEPT ![o] = got.at]
            /\ asked' = [asked EXCEPT ![o] = size]
            /\ denied' = << >>

Realloc(o, size) ==
    LET got == UmmRealloc(heap, ptr[o], UmmBlocks(size)) IN
    /\ ptr[o] # 0
    /\ IF got.at = 0
       THEN denied' = <<o, UmmBlocks(size)>> /\ UNCHANGED <<heap, ptr, asked>>
       ELSE /\ heap' = Written(got.heap, o, got.at, SizeOf(heap, ptr[o]))
            /\ ptr' = [ptr EXCEPT ![o] = got.at]
            /\ asked' = [asked EXCEPT ![o] = size]
            /\ denied' = << >>

Free(o) ==
    /\ ptr[o] # 0
    /\ heap' = UmmFree(heap, ptr[o])
    /\ ptr' = [ptr EXCEPT ![o] = 0]
    /\ asked' = [asked EXCEPT ![o] = 0]
    /\ denied' = << >>

Next == \E o \in Clients : Free(o) \/ \E s \in Sizes : Alloc(o, s) \/ Realloc(o, s)

Spec == Init /\ [][Next]_vars

-----------------------------------------------------------------------------
TypeOK ==
    /\ ptr \in [Clients -> Blocks]
    /\ asked \in [Clients -> Sizes \cup {0}]
    /\ \A b \in Blocks : heap[b].free \in BOOLEAN \/ heap[b].free \in Clients
    /\ \A o \in Clients : ptr[o] # 0 =>
            heap[ptr[o]].next \in ptr[o] + 1 .. Last /\ heap[ptr[o]].free = FALSE

\* All blocks in the order of their links, without block 0
BlockList == Along([b \in Blocks |-> heap[b].next])

Links(list, back) == \A i \in 1 .. Len(list) : back[list[i]] = IF i = 1 THEN 0 ELSE list[i - 1]

\* What umm_integrity_check looks for (umm_integrity.c:26), at any time: both lists are
\* linked backwards as forwards, the blocks ascend, and those marked free are those of
\* the free list.
IntegrityCheck ==
    LET free == FreeList(heap)
        all == BlockList
    IN  /\ Links(free, [b \in Blocks |-> heap[b].pfree])
        /\ Links(all, [b \in Blocks |-> heap[b].prev])
        /\ \A i \in 1 .. Len(all) - 1 : all[i] < all[i + 1]
        /\ \A i \in 1 .. Len(all) : heap[all[i]].free <=> \E j \in 1 .. Len(free) : free[j] = all[i]

\* No two free blocks are neighbours: umm_free, which looks one block up and one down,
\* and the remainder of umm_realloc leave nothing to merge.
Coalesced ==
    LET all == BlockList IN
    \A i \in 1 .. Len(all) - 1 : ~(heap[all[i]].free /\ heap[all[i + 1]].free)

\* Nobody's data is overwritten, by another client, by the links of the heap, or in a
\* realloc that moves it down over itself.
DataKept ==
    \A o \in Clients : ptr[o] # 0 =>
        /\ heap[ptr[o]].nfree = o /\ heap[ptr[o]].pfree = o
        /\ \A b \in ptr[o] + 1 .. heap[ptr[o]].next - 1 : heap[b] = Block(o, o, o, o, o)

\* The blocks of a chunk have room for the bytes asked for, and none to spare
RoomAsAsked ==
    \A o \in Clients : ptr[o] # 0 =>
        LET n == SizeOf(heap, ptr[o]) IN
        /\ asked[o] <= n * BlockSize - (BlockSize - BodySize)
        /\ n > 1 => asked[o] > (n - 1) * BlockSize - (BlockSize - BodySize)

Chunk(o) == IF ptr[o] = 0 THEN {} ELSE ptr[o] .. heap[ptr[o]].next - 1

\* Chunks never overlap, nothing leaks, and memory is refused only when no run of free
\* blocks, with the client's own ones in a realloc, is long enough.
Abstract == INSTANCE Allocator WITH
                chunk <- [o \in Clients |-> Chunk(o)], LastCell <- NumBlocks - 2,
                Amounts <- {UmmBlocks(s) : s \in Sizes}
HeapAllocates == Abstract!Spec
=============================================================================
