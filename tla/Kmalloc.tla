------------------------------ MODULE Kmalloc ------------------------------
(***************************************************************************)
(* The kernel heap (memory/kmalloc.cpp): a list of blocks, each behind its *)
(* header, that kmalloc splits and kfree merges.                           *)
(*                                                                         *)
(* Addresses are byte offsets into heap_pool; a block is known by the      *)
(* address of its header.  merge_free_blocks takes a step for each turn of *)
(* its loop; it runs with interrupts off, so nothing else moves.           *)
(*                                                                         *)
(* The fields of a header are magic, size, free, next, at 0, 4, 8 and 12:  *)
(* free is ALIGN bytes behind magic.  A header that was merged away may    *)
(* keep its magic inside another block; kfree takes it for a block and     *)
(* writes 1 where its free was, which may be the magic of a block that     *)
(* begins there.  What clients write into their blocks is left out: it may *)
(* destroy the magic of a merged-away header, and kfree refuses then.      *)
(* Definitions named X_<fault> are faulty variants of the X that follows.  *)
(***************************************************************************)
EXTENDS Integers, FiniteSets, FiniteSetsExt

CONSTANTS
  HEAP,     \* KMALLOC_HEAP_SIZE
  HDR,      \* sizeof(BlockHeader)
  ALIGN,    \* 8
  WORD,     \* 2^32: usize wraps
  Asked     \* bound: the sizes clients ask for

ASSUME KmallocAssumption ==
  /\ HEAP \in Nat /\ HDR \in Nat \ {0} /\ ALIGN \in Nat \ {0} /\ WORD \in Nat
  /\ HDR <= HEAP /\ HEAP % ALIGN = 0 /\ HDR % ALIGN = 0 /\ WORD % ALIGN = 0
  /\ HEAP < WORD /\ HDR = 2 * ALIGN
  /\ Asked \subseteq 1 .. WORD - 1

NULL == -1

VARIABLES
  heap,     \* header address -> [size, free, next]
  broken,   \* headers of heap whose magic was overwritten
  dead,     \* where a header was merged away and its magic may be left
  cur,      \* the block merge_free_blocks is at; NULL when nobody is in kfree
  held,     \* history: header address of a block a client has -> size asked
  misused,  \* history: a block was freed under the client that had it; from
            \* then on nobody is known to hold anything
  copy      \* history: the copy of the krealloc in progress, [bytes, room, asked]

vars == <<heap, broken, dead, cur, held, misused, copy>>

Addr  == 0 .. HEAP - HDR
Block == [size : 0 .. HEAP, free : BOOLEAN, next : Addr \cup {NULL}]

Nobody == [a \in {} |-> 0]
NoCopy == [bytes |-> 0, room |-> 0, asked |-> 0]

\* kmalloc_init: one free block.
Init ==
  /\ heap = [a \in {0} |-> [size |-> HEAP - HDR, free |-> TRUE, next |-> NULL]]
  /\ broken = {} /\ dead = {}
  /\ cur = NULL
  /\ held = Nobody /\ misused = FALSE
  /\ copy = NoCopy

-----------------------------------------------------------------------------
Aligned_down(size) == size - (size % ALIGN)

\* (size + 7) & ~7: within 7 of 2^32 it is 0.
Aligned(size) == LET s == (size + ALIGN - 1) % WORD IN s - (s % ALIGN)

\* The sizes whose rounding wraps.
Wraps(size) == size > WORD - ALIGN

Fits(a, n) == heap[a].free /\ heap[a].size >= n

\* The first block of the list that fits.
FirstFit(a, n) == Fits(a, n) /\ \A b \in DOMAIN heap : Fits(b, n) => a <= b

Splits(a, n) == heap[a].size >= n + HDR + ALIGN

\* Block a cut to n bytes, with the rest a free block of its own, and taken.
Split(a, n) ==
  LET b == a + HDR + n IN
  [x \in DOMAIN heap \cup {b} |->
     CASE x = b -> [size |-> heap[a].size - n - HDR, free |-> TRUE, next |-> heap[a].next]
       [] x = a -> [size |-> n, free |-> FALSE, next |-> b]
       [] OTHER -> heap[x]]

Take(a, n) == IF Splits(a, n) THEN Split(a, n) ELSE [heap EXCEPT ![a].free = FALSE]

\* New headers are written over dead ones, their magic or their free over a
\* dead magic.
Left(new) == dead \ (new \cup {b + ALIGN : b \in new})

Held(h, a, size) == [x \in DOMAIN h \cup {a} |-> IF x = a THEN size ELSE h[x]]
Dropped(h, a)    == [x \in DOMAIN h \ {a} |-> h[x]]

\* A call that finds no block returns null and changes nothing.
kmalloc(size) ==
  /\ cur = NULL
  /\ \E a \in DOMAIN heap :
       /\ FirstFit(a, Aligned(size))
       /\ heap' = Take(a, Aligned(size))
       /\ held' = IF misused THEN held ELSE Held(held, a, size)
  /\ dead' = Left(DOMAIN heap' \ DOMAIN heap)
  /\ UNCHANGED <<broken, cur, misused, copy>>

Freed_not(h, a) == h

Freed(h, a) == [h EXCEPT ![a].free = TRUE]

\* kfree by the client that has the block, up to the call of merge_free_blocks ...
kfree(a) ==
  /\ cur = NULL
  /\ a \in DOMAIN held \ broken
  /\ heap' = Freed(heap, a)
  /\ cur' = 0
  /\ held' = Dropped(held, a)
  /\ UNCHANGED <<broken, dead, misused, copy>>

\* ... which returns if the magic is not there: the client has freed its block,
\* and the block stays in use.
kfree_refused(a) ==
  /\ cur = NULL
  /\ a \in DOMAIN held \cap broken
  /\ held' = Dropped(held, a)
  /\ UNCHANGED <<heap, broken, dead, cur, misused, copy>>

\* kfree by a client that had the block before and frees it again ...
kfree_again(a) ==
  /\ cur = NULL
  /\ a \in DOMAIN heap \ broken
  /\ heap' = Freed(heap, a)
  /\ cur' = 0
  /\ misused' = (misused \/ a \in DOMAIN held)
  /\ held' = IF misused' THEN Nobody ELSE held
  /\ UNCHANGED <<broken, dead, copy>>

\* ... and when the block was merged away since: free = 1 goes into the magic of
\* the header ALIGN bytes on, one of the list or a dead one.
kfree_merged(a) ==
  /\ cur = NULL
  /\ a \in dead
  /\ broken' = broken \cup ({a + ALIGN} \cap DOMAIN heap)
  /\ dead' = dead \ {a + ALIGN}
  /\ cur' = 0
  /\ UNCHANGED <<heap, held, misused, copy>>

Mergeable_never(a) == FALSE

Mergeable(a) == heap[a].free /\ heap[heap[a].next].free

Merged_short(a) ==
  [heap EXCEPT ![a].size = @ + heap[heap[a].next].size, ![a].next = heap[heap[a].next].next]

Merged(a) ==
  [heap EXCEPT ![a].size = @ + HDR + heap[heap[a].next].size,
               ![a].next = heap[heap[a].next].next]

Onward_stuck(a) == a

Onward(a) == heap[a].next

\* One turn of the loop of merge_free_blocks: the block takes its neighbour in
\* and stays, or the loop goes on to the neighbour, or it ends.
Merge_step ==
  /\ cur # NULL
  /\ \/ /\ heap[cur].next = NULL
        /\ cur' = NULL /\ copy' = NoCopy /\ UNCHANGED <<heap, broken, dead>>
     \/ /\ heap[cur].next # NULL /\ Mergeable(cur)
        /\ heap' = [x \in DOMAIN heap \ {heap[cur].next} |-> Merged(cur)[x]]
        /\ broken' = broken \ {heap[cur].next}
        /\ dead' = dead \cup ({heap[cur].next} \ broken)
        /\ UNCHANGED <<cur, copy>>
     \/ /\ heap[cur].next # NULL /\ ~Mergeable(cur)
        /\ cur' = Onward(cur) /\ UNCHANGED <<heap, broken, dead, copy>>
  /\ UNCHANGED <<held, misused>>

Enough(a, size) == heap[a].size >= size

\* krealloc of a block that is large enough keeps it (without the magic it
\* returns null and does nothing) ...
krealloc_keeps(a, size) ==
  /\ cur = NULL /\ ~misused
  /\ a \in DOMAIN held \ broken /\ Enough(a, size)
  /\ held' = Held(held, a, size)
  /\ UNCHANGED <<heap, broken, dead, cur, misused, copy>>

\* ... and otherwise copies the whole block into a new one and frees it.  For a
\* size that wraps the copy runs over the headers behind the new block; copy
\* records that, and what it destroys is not followed.
krealloc_moves(a, size) ==
  /\ cur = NULL /\ ~misused
  /\ a \in DOMAIN held \ broken /\ ~Enough(a, size)
  /\ \E b \in DOMAIN heap :
       /\ FirstFit(b, Aligned(size))
       /\ LET h == Take(b, Aligned(size)) IN
            /\ heap' = Freed(h, a)
            /\ copy' = [bytes |-> heap[a].size, room |-> h[b].size, asked |-> size]
       /\ held' = Held(Dropped(held, a), b, size)
  /\ dead' = Left(DOMAIN heap' \ DOMAIN heap)
  /\ cur' = 0
  /\ UNCHANGED <<broken, misused>>

Next ==
  \/ \E size \in Asked : kmalloc(size)
  \/ \E a \in DOMAIN held : kfree(a) \/ kfree_refused(a)
  \/ \E a \in DOMAIN heap : kfree_again(a)
  \/ \E a \in dead : kfree_merged(a)
  \/ Merge_step
  \/ \E a \in DOMAIN held, size \in Asked : krealloc_keeps(a, size) \/ krealloc_moves(a, size)

Spec == Init /\ [][Next]_vars

\* A kfree goes on to its end: interrupts are off.
FairSpec == Spec /\ WF_vars(Merge_step)

\* kmem_info, and through it SYS_MEM.
kmem_info ==
  [used |-> MapThenSumSet(LAMBDA a : heap[a].size, {a \in DOMAIN heap : ~heap[a].free}),
   free |-> MapThenSumSet(LAMBDA a : heap[a].size, {a \in DOMAIN heap : heap[a].free})]

-----------------------------------------------------------------------------
TypeOK ==
  /\ DOMAIN heap \subseteq Addr /\ heap \in [DOMAIN heap -> Block]
  /\ broken \subseteq DOMAIN heap /\ dead \subseteq Addr
  /\ cur \in DOMAIN heap \cup {NULL}
  /\ DOMAIN held \subseteq Addr /\ held \in [DOMAIN held -> Asked]
  /\ misused \in BOOLEAN
  /\ copy \in [bytes : Nat, room : Nat, asked : Nat]

EndOf(a) == a + HDR + heap[a].size

\* The blocks tile the heap in the order of the list, through every split and
\* every turn of merge_free_blocks, also after blocks were freed twice or freed
\* after they were merged away: no header lies inside another block and no byte
\* is lost.
Tiling ==
  /\ TypeOK
  /\ 0 \in DOMAIN heap
  /\ \A a \in DOMAIN heap :
       /\ heap[a].next = IF EndOf(a) = HEAP THEN NULL ELSE EndOf(a)
       /\ heap[a].next # NULL => heap[a].next \in DOMAIN heap
       /\ \A b \in DOMAIN heap : a < b => EndOf(a) <= b

\* Between calls no two neighbours are free: kfree leaves no request to fail
\* that the free memory around a block could serve.
NoFreeNeighbours ==
  cur = NULL => \A a \in DOMAIN heap :
                  heap[a].free /\ heap[a].next # NULL => ~heap[heap[a].next].free

InUse == {a \in DOMAIN heap : ~heap[a].free}

\* Unless a block was freed under its owner: clients have blocks in use, and a
\* block in use that no client has is one whose magic was overwritten when
\* somebody freed a merged-away block again; kfree refused it.
BlocksHeld ==
  ~misused => DOMAIN held \subseteq InUse /\ InUse \subseteq DOMAIN held \cup broken

\* Blocks in use and blocks of clients agree as BlocksHeld says, and kmem_info
\* counts them: used bytes, free bytes and headers are the heap at any time, and
\* the used bytes are those of the clients' blocks until a block is freed under
\* its owner or loses its magic.
HeldExactly ==
  /\ BlocksHeld
  /\ kmem_info.used + kmem_info.free + HDR * Cardinality(DOMAIN heap) = HEAP
  /\ ~misused /\ broken = {} =>
       kmem_info.used = MapThenSumSet(LAMBDA a : heap[a].size, DOMAIN held)

\* A client's block is as large as it asked for, and krealloc copies no more
\* than its new block holds, except for sizes whose rounding wraps: they get an
\* empty block instead of a null pointer, and krealloc copies past its end.
HeldFits ==
  /\ ~misused => \A a \in DOMAIN held : heap[a].size >= held[a] \/ Wraps(held[a])
  /\ copy.bytes <= copy.room \/ Wraps(copy.asked)

\* merge_free_blocks ends: kfree turns interrupts on again.
KfreeReturns == cur # NULL ~> cur = NULL
=============================================================================
