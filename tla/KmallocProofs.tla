--------------------------- MODULE KmallocProofs ---------------------------
(***************************************************************************)
(* Proofs about the kernel heap, for every heap, header and alignment and  *)
(* all sizes asked for.                                                    *)
(*                                                                         *)
(* Tiles is Tiling of any list h, so that the lemmas on splitting and      *)
(* merging can speak of the list that a call makes. Its last part, that a  *)
(* block ends before every block behind it and not just the next one, is   *)
(* what keeps a change at one place from meeting a block elsewhere.        *)
(* MergedSoFar is the loop invariant of merge_free_blocks.  A free of a    *)
(* merged-away header moves no boundary: it costs a block its magic, and   *)
(* Owned follows which blocks kfree still takes.                           *)
(*                                                                         *)
(* The sums of kmem_info are folds over the list.  That they come out is   *)
(* shown on the addresses: headers and sizes of the blocks below a block   *)
(* add up to its address, since the lowest block for which they did not    *)
(* would follow one for which they do (Least takes the place of an         *)
(* induction).                                                             *)
(***************************************************************************)
EXTENDS Kmalloc, FiniteSetTheorems, WellFoundedInduction, TLAPS

\* The blocks of h tile the heap in the order of the list.
Tiles(h) ==
  /\ DOMAIN h \subseteq Addr /\ h \in [DOMAIN h -> Block]
  /\ 0 \in DOMAIN h
  /\ \A a \in DOMAIN h :
       LET end == a + HDR + h[a].size IN
       /\ h[a].next = IF end = HEAP THEN NULL ELSE end
       /\ h[a].next # NULL => h[a].next \in DOMAIN h
       /\ \A b \in DOMAIN h : a < b => end <= b

\* Nobody is known to hold a block once one was freed under its owner.
Owned == BlocksHeld /\ (misused => held = Nobody)

\* merge_free_blocks has left no two free neighbours behind it.
MergedSoFar ==
  \A a \in DOMAIN heap :
    /\ cur = NULL \/ a < cur
    /\ heap[a].free /\ heap[a].next # NULL
    => ~heap[heap[a].next].free

Inv == TypeOK /\ Tiles(heap) /\ Owned /\ MergedSoFar /\ HeldFits

-----------------------------------------------------------------------------
\* Of the constants the tiling depends on, no more than this is needed.
LEMMA Numbers == HEAP \in Nat /\ HDR \in Nat /\ HDR > 0 /\ HDR <= HEAP /\ ALIGN \in Nat /\ ALIGN > 0
  BY KmallocAssumption

\* What a tiling says of one block: it lies in the heap, before the blocks
\* behind it, and leads to the first of them.
LEMMA BlockOf ==
  ASSUME NEW h, Tiles(h), NEW a \in DOMAIN h
  PROVE  /\ a \in Nat /\ a \in Addr /\ h[a] \in Block
         /\ h[a].size \in Nat /\ h[a].free \in BOOLEAN
         /\ a + HDR + h[a].size <= HEAP
         /\ h[a].next = NULL => a + HDR + h[a].size = HEAP
         /\ h[a].next # NULL => /\ h[a].next \in DOMAIN h
                                /\ h[a].next = a + HDR + h[a].size
                                /\ a + HDR + h[a].size # HEAP
         /\ \A b \in DOMAIN h : a < b => a + HDR + h[a].size <= b
<1> USE Numbers
<1>1. h[a] \in Block /\ a \in Addr
  BY DEF Tiles
<1>2. a \in Nat /\ h[a].size \in Nat /\ h[a].free \in BOOLEAN
  BY <1>1 DEF Addr, Block
<1>3. h[a].next # NULL => h[a].next \in Addr /\ h[a].next \in DOMAIN h
  BY <1>1 DEF Tiles
<1>4. /\ h[a].next = NULL => a + HDR + h[a].size = HEAP
      /\ h[a].next # NULL => /\ h[a].next = a + HDR + h[a].size
                             /\ a + HDR + h[a].size # HEAP
  BY <1>2 DEF Tiles, NULL
<1>5. a + HDR + h[a].size <= HEAP
  BY <1>2, <1>3, <1>4 DEF Addr
<1>6. \A b \in DOMAIN h : a < b => a + HDR + h[a].size <= b
  BY DEF Tiles
<1> QED  BY <1>1, <1>2, <1>3, <1>4, <1>5, <1>6

\* The converse, in the same words.
LEMMA TilesIf ==
  ASSUME NEW h, DOMAIN h \subseteq Addr, h \in [DOMAIN h -> Block], 0 \in DOMAIN h,
         \A a \in DOMAIN h :
           /\ h[a].next = NULL => a + HDR + h[a].size = HEAP
           /\ h[a].next # NULL => /\ h[a].next \in DOMAIN h
                                  /\ h[a].next = a + HDR + h[a].size
                                  /\ a + HDR + h[a].size # HEAP
           /\ \A b \in DOMAIN h : a < b => a + HDR + h[a].size <= b
  PROVE  Tiles(h)
  BY DEF Tiles

\* Rounding up never goes below the size, unless it wraps.
LEMMA AlignedCovers ==
  ASSUME NEW size \in Asked
  PROVE  /\ Aligned(size) \in Nat
         /\ Aligned(size) >= size \/ Wraps(size)
<1> USE KmallocAssumption
<1>1. size \in Nat
  OBVIOUS
<1> DEFINE s == (size + ALIGN - 1) % WORD
<1>2. s \in Nat /\ (~Wraps(size) => s = size + ALIGN - 1)
  BY <1>1 DEF Wraps
<1> HIDE DEF s
<1>3. s % ALIGN \in 0 .. ALIGN - 1 /\ s % ALIGN <= s
  BY <1>2
<1>4. Aligned(size) = s - (s % ALIGN)
  BY DEF Aligned, s
<1> QED  BY <1>1, <1>2, <1>3, <1>4

\* kmalloc_init makes one block of the whole heap.
LEMMA TilesInit == Init => Tiles(heap)
  BY KmallocAssumption DEF Init, Tiles, Addr, Block, NULL

\* Setting or clearing BlockHeader::free moves no boundary.
LEMMA TilesFlag ==
  ASSUME NEW h, Tiles(h), NEW a, NEW f \in BOOLEAN
  PROVE  Tiles([h EXCEPT ![a].free = f])
<1> DEFINE g == [h EXCEPT ![a].free = f]
<1>1. /\ DOMAIN g = DOMAIN h
      /\ \A x \in DOMAIN h : /\ g[x].size = h[x].size /\ g[x].next = h[x].next
                             /\ g[x] \in Block
  BY DEF Tiles, Block
<1>2. g \in [DOMAIN h -> Block]
  BY <1>1
<1> HIDE DEF g
<1>3. Tiles(g)
  BY <1>1, <1>2 DEF Tiles
<1> QED  BY <1>3 DEF g

\* Cutting a free block in two leaves a tiling: the new header lies inside the
\* old block, behind the bytes that were asked for.
LEMMA TilesSplit ==
  ASSUME Tiles(heap), NEW a \in DOMAIN heap, NEW n \in Nat, Splits(a, n)
  PROVE  /\ Tiles(Split(a, n))
         /\ a + HDR + n \in Nat /\ a + HDR + n \notin DOMAIN heap
         /\ DOMAIN Split(a, n) = DOMAIN heap \cup {a + HDR + n}
<1> USE Numbers
<1> DEFINE b == a + HDR + n
           g == Split(a, n)
<1>1. \A x \in DOMAIN heap :
        /\ x \in Nat /\ x \in Addr /\ heap[x] \in Block /\ heap[x].size \in Nat
        /\ x + HDR + heap[x].size <= HEAP
        /\ heap[x].next = NULL => x + HDR + heap[x].size = HEAP
        /\ heap[x].next # NULL => /\ heap[x].next \in DOMAIN heap
                                  /\ heap[x].next = x + HDR + heap[x].size
                                  /\ x + HDR + heap[x].size # HEAP
        /\ \A y \in DOMAIN heap : x < y => x + HDR + heap[x].size <= y
  BY BlockOf
<1>2. b \in Nat /\ a < b /\ b + HDR + ALIGN <= a + HDR + heap[a].size
  BY <1>1 DEF Splits
<1>3. b \notin DOMAIN heap /\ b \in Addr
  BY <1>1, <1>2 DEF Addr
<1>4. /\ DOMAIN g = DOMAIN heap \cup {b}
      /\ g[b] = [size |-> heap[a].size - n - HDR, free |-> TRUE, next |-> heap[a].next]
      /\ g[a] = [size |-> n, free |-> FALSE, next |-> b]
      /\ \A x \in DOMAIN heap \ {a} : g[x] = heap[x]
  BY <1>2, <1>3 DEF Split
<1>5. g = [x \in DOMAIN g |-> g[x]]
  BY DEF Split
<1> HIDE DEF g, b
<1>6. heap[a].size - n - HDR \in 0 .. HEAP /\ n \in 0 .. HEAP
  BY <1>1, <1>2 DEF b
<1>7. \A x \in DOMAIN g : g[x] \in Block
  <2>1. heap[a].next \in Addr \cup {NULL}
    BY <1>1 DEF Block
  <2>2. g[a] \in Block
    BY <1>3, <1>4, <1>6 DEF Block
  <2>3. g[b] \in Block
    BY <1>4, <1>6, <2>1 DEF Block
  <2> QED  BY <1>1, <1>4, <2>2, <2>3
<1>8. g \in [DOMAIN g -> Block] /\ DOMAIN g \subseteq Addr /\ 0 \in DOMAIN g
  BY <1>1, <1>3, <1>4, <1>5, <1>7 DEF Tiles
<1>9. b + HDR + g[b].size = a + HDR + heap[a].size /\ a + HDR + g[a].size = b
  BY <1>1, <1>2, <1>4 DEF b
<1>10. ASSUME NEW x \in DOMAIN g
       PROVE  /\ g[x].next = NULL => x + HDR + g[x].size = HEAP
              /\ g[x].next # NULL => /\ g[x].next \in DOMAIN g
                                     /\ g[x].next = x + HDR + g[x].size
                                     /\ x + HDR + g[x].size # HEAP
              /\ \A y \in DOMAIN g : x < y => x + HDR + g[x].size <= y
  <2>1. CASE x = a
    <3>1. b # HEAP /\ g[a].next = b
      BY <1>1, <1>2, <1>4
    <3>2. \A y \in DOMAIN heap : a < y => b <= y
      BY <1>1, <1>2
    <3>3. \A y \in DOMAIN g : a < y => b <= y
      BY <1>2, <1>4, <3>2
    <3>4. b # NULL /\ b \in DOMAIN g
      BY <1>2, <1>4 DEF NULL
    <3> QED  BY <1>9, <2>1, <3>1, <3>3, <3>4
  <2>2. CASE x = b
    <3>1. \A y \in DOMAIN heap : b < y => a + HDR + heap[a].size <= y
      BY <1>1, <1>2
    <3>2. g[b].next = heap[a].next
      BY <1>4
    <3>3. ~(b < b)
      BY <1>2
    <3>4. \A y \in DOMAIN g : b < y => a + HDR + heap[a].size <= y
      BY <1>4, <3>1, <3>3
    <3>5. b + HDR + g[b].size = a + HDR + heap[a].size
      BY <1>9
    <3> QED  BY <1>1, <1>4, <2>2, <3>2, <3>4, <3>5
  <2>3. CASE x \in DOMAIN heap \ {a}
    <3>1. x < b => x + HDR + heap[x].size <= b
      <4>1. CASE x < a
        BY <1>1, <1>2, <2>3, <4>1
      <4>2. CASE a < x
        BY <1>1, <1>2, <2>3, <4>2
      <4> QED  BY <1>1, <2>3, <4>1, <4>2
    <3>2. g[x] = heap[x]
      BY <1>4, <2>3
    <3>3. \A y \in DOMAIN heap : x < y => x + HDR + heap[x].size <= y
      BY <1>1, <2>3
    <3>4. \A y \in DOMAIN g : x < y => x + HDR + g[x].size <= y
      BY <1>4, <3>1, <3>2, <3>3
    <3> QED  BY <1>1, <1>4, <2>3, <3>2, <3>4
  <2> QED  BY <1>4, <2>1, <2>2, <2>3
<1>11. Tiles(g)
  BY <1>8, <1>10, TilesIf
<1> QED  BY <1>2, <1>3, <1>4, <1>11 DEF g, b

\* A block taken by kmalloc or krealloc: it is in use, at least n bytes long,
\* and no other block but the new one changes.
LEMMA TilesTake ==
  ASSUME Tiles(heap), NEW a \in DOMAIN heap, NEW n \in Nat, Fits(a, n), NEW g, g = Take(a, n)
  PROVE  /\ Tiles(g)
         /\ DOMAIN heap \subseteq DOMAIN g
         /\ ~g[a].free /\ g[a].size >= n
         /\ \A x \in DOMAIN heap \ {a} : g[x] = heap[x]
         /\ \A x \in DOMAIN g \ DOMAIN heap :
              /\ g[x].free /\ g[x].next = heap[a].next
              /\ g[a].next = x /\ ~(x < a)
         /\ DOMAIN g = DOMAIN heap => g[a].next = heap[a].next
<1> USE Numbers
<1>1. a \in Nat /\ heap[a].size \in Nat /\ heap[a] \in Block
  BY BlockOf
<1>2. CASE Splits(a, n)
  <2>1. g = Split(a, n)
    BY <1>2 DEF Take
  <2>2. Tiles(g) /\ a + HDR + n \notin DOMAIN heap /\ DOMAIN g = DOMAIN heap \cup {a + HDR + n}
    BY <1>2, <2>1, TilesSplit
  <2>3. /\ g[a + HDR + n] = [size |-> heap[a].size - n - HDR, free |-> TRUE, next |-> heap[a].next]
        /\ g[a] = [size |-> n, free |-> FALSE, next |-> a + HDR + n]
        /\ \A x \in DOMAIN heap \ {a} : g[x] = heap[x]
    BY <2>1, <2>2 DEF Split
  <2> QED  BY <1>1, <2>2, <2>3
<1>3. CASE ~Splits(a, n)
  <2>1. g = [heap EXCEPT ![a].free = FALSE]
    BY <1>3 DEF Take
  <2>2. FALSE \in BOOLEAN
    OBVIOUS
  <2>3. Tiles([heap EXCEPT ![a].free = FALSE])
    BY <2>2, TilesFlag
  <2> QED  BY <1>1, <2>1, <2>3 DEF Fits, Block
<1> QED  BY <1>2, <1>3

\* One merge: the block ends where its neighbour ended, and no other block led
\* to the neighbour.
LEMMA TilesMerge ==
  ASSUME Tiles(heap), NEW a \in DOMAIN heap, heap[a].next # NULL,
         NEW g, g = [x \in DOMAIN heap \ {heap[a].next} |-> Merged(a)[x]]
  PROVE  /\ Tiles(g)
         /\ a < heap[a].next /\ heap[a].next \in DOMAIN heap
         /\ g[a].free = heap[a].free /\ g[a].next = heap[heap[a].next].next
         /\ \A x \in DOMAIN g \ {a} : g[x] = heap[x] /\ g[x].next # heap[a].next
<1> USE Numbers
<1> DEFINE b == heap[a].next
<1>1. \A x \in DOMAIN heap :
        /\ x \in Nat /\ x \in Addr /\ heap[x] \in Block /\ heap[x].size \in Nat
        /\ x + HDR + heap[x].size <= HEAP
        /\ heap[x].next = NULL => x + HDR + heap[x].size = HEAP
        /\ heap[x].next # NULL => /\ heap[x].next \in DOMAIN heap
                                  /\ heap[x].next = x + HDR + heap[x].size
                                  /\ x + HDR + heap[x].size # HEAP
        /\ \A y \in DOMAIN heap : x < y => x + HDR + heap[x].size <= y
  BY BlockOf
<1>2. b \in DOMAIN heap /\ b = a + HDR + heap[a].size
  BY <1>1
<1>3. a < b /\ b # 0
  BY <1>1, <1>2
<1>4. /\ DOMAIN g = DOMAIN heap \ {b}
      /\ g[a].size = heap[a].size + HDR + heap[b].size
      /\ g[a].next = heap[b].next /\ g[a].free = heap[a].free
      /\ \A x \in DOMAIN g \ {a} : g[x] = heap[x]
  BY <1>1, <1>2, <1>3 DEF Merged, Block
<1>5. g[a] = [[heap[a] EXCEPT !.size = heap[a].size + HDR + heap[b].size] EXCEPT !.next = heap[b].next]
  <2>1. a \in DOMAIN heap \ {heap[a].next}
    BY <1>1, <1>2, <1>3
  <2>2. g[a] = Merged(a)[a]
    BY <2>1, Zenon
  <2> QED  BY <1>2, <1>3, <2>2 DEF Merged
<1>6. g = [x \in DOMAIN g |-> g[x]]
  OBVIOUS
<1> HIDE DEF b
<1>7. a + HDR + g[a].size = b + HDR + heap[b].size
  BY <1>1, <1>2, <1>4
<1>8. g[a].size \in 0 .. HEAP
  BY <1>1, <1>2, <1>4
<1>9. \A x \in DOMAIN g : g[x] \in Block
  <2>1. g[a].next \in Addr \cup {NULL}
    BY <1>1, <1>2, <1>4 DEF Block
  <2>2. [heap[a] EXCEPT !.size = g[a].size] \in Block
    BY <1>1, <1>8 DEF Block
  <2>3. \A r \in Block : [r EXCEPT !.next = g[a].next] \in Block
    BY <2>1 DEF Block
  <2>4. g[a] \in Block
    <3>1. g[a] = [[heap[a] EXCEPT !.size = g[a].size] EXCEPT !.next = g[a].next]
      BY <1>4, <1>5, Zenon
    <3> QED  BY <2>2, <2>3, <3>1, Zenon
  <2> QED  BY <1>1, <1>4, <2>4
<1>10. g \in [DOMAIN g -> Block] /\ DOMAIN g \subseteq Addr /\ 0 \in DOMAIN g
  BY <1>1, <1>3, <1>4, <1>6, <1>9 DEF Tiles
<1>11. ASSUME NEW x \in DOMAIN g, x # a
       PROVE  heap[x].next # b
  <2>1. x < a \/ a < x
    BY <1>1, <1>4, <1>11
  <2>2. x < a => x + HDR + heap[x].size < b
    BY <1>1, <1>3, <1>4
  <2>3. a < x => x + HDR + heap[x].size > b
    BY <1>1, <1>2, <1>4
  <2>4. b # NULL /\ b \in Nat
    BY <1>1, <1>2, <1>3 DEF NULL
  <2> QED  BY <1>1, <1>4, <2>1, <2>2, <2>3, <2>4
<1>12. ASSUME NEW x \in DOMAIN g
       PROVE  /\ g[x].next = NULL => x + HDR + g[x].size = HEAP
              /\ g[x].next # NULL => /\ g[x].next \in DOMAIN g
                                     /\ g[x].next = x + HDR + g[x].size
                                     /\ x + HDR + g[x].size # HEAP
              /\ \A y \in DOMAIN g : x < y => x + HDR + g[x].size <= y
  <2>1. CASE x = a
    <3>1. \A y \in DOMAIN g : a < y => b + HDR + heap[b].size <= y
      <4> SUFFICES ASSUME NEW y \in DOMAIN g, a < y PROVE b + HDR + heap[b].size <= y
        OBVIOUS
      <4>1. b <= y /\ y # b
        BY <1>1, <1>2, <1>4
      <4> QED  BY <1>1, <1>2, <1>4, <4>1
    <3>2. heap[b].next # b
      BY <1>1, <1>2 DEF NULL
    <3>3. heap[b].next # NULL => heap[b].next \in DOMAIN g
      BY <1>1, <1>2, <1>4, <3>2
    <3> QED  BY <1>1, <1>2, <1>4, <1>7, <2>1, <3>1, <3>3
  <2>2. CASE x # a
    BY <1>1, <1>4, <1>11, <2>2
  <2> QED  BY <2>1, <2>2
<1>13. Tiles(g)
  BY <1>10, <1>12, TilesIf
<1> QED  BY <1>2, <1>3, <1>4, <1>11, <1>13 DEF b
-----------------------------------------------------------------------------
\* kmalloc_init: one free block, which is the heap.
LEMMA InvInit == Init => Inv
<1> SUFFICES ASSUME Init PROVE Inv
  OBVIOUS
<1>1. Tiles(heap)
  BY TilesInit
<1>2. TypeOK
  BY <1>1 DEF Init, TypeOK, Tiles, Nobody, NoCopy
<1>3. Owned /\ HeldFits
  BY DEF Init, Owned, BlocksHeld, InUse, HeldFits, Nobody, NoCopy
<1>4. MergedSoFar
  BY DEF Init, MergedSoFar
<1> QED  BY <1>1, <1>2, <1>3, <1>4 DEF Inv

\* kmalloc: what surrounds the block it takes was not free, so that the rest it
\* splits off has no free neighbour either.
LEMMA InvKmalloc ==
  ASSUME Inv, NEW size \in Asked, kmalloc(size)
  PROVE  Inv'
<1> USE DEF Inv
<1>1. PICK a \in DOMAIN heap :
        /\ FirstFit(a, Aligned(size))
        /\ heap' = Take(a, Aligned(size))
        /\ held' = IF misused THEN held ELSE Held(held, a, size)
  BY DEF kmalloc
<1>2. cur = NULL /\ UNCHANGED <<broken, cur, misused, copy>> /\ dead' \subseteq dead
  BY DEF kmalloc, Left
<1>3. Aligned(size) \in Nat /\ (Aligned(size) >= size \/ Wraps(size)) /\ size \in Nat
  BY AlignedCovers, KmallocAssumption
<1>4. heap[a].free /\ Fits(a, Aligned(size))
  BY <1>1 DEF FirstFit, Fits
<1>5. /\ Tiles(heap')
      /\ DOMAIN heap \subseteq DOMAIN heap'
      /\ ~heap'[a].free /\ heap'[a].size >= Aligned(size)
      /\ \A x \in DOMAIN heap \ {a} : heap'[x] = heap[x]
      /\ \A x \in DOMAIN heap' \ DOMAIN heap : heap'[x].free /\ heap'[x].next = heap[a].next
  BY <1>1, <1>3, <1>4, TilesTake
<1>6. (heap'[a].size >= size \/ Wraps(size)) /\ a \in Addr
  <2>1. heap'[a].size \in Nat /\ a \in Addr
    BY <1>5, BlockOf
  <2> QED  BY <1>3, <1>5, <2>1
<1>7. Owned'
  <2>1. CASE misused
    BY <1>1, <1>2, <2>1 DEF Owned, BlocksHeld
  <2>2. CASE ~misused
    <3>1. DOMAIN held' = DOMAIN held \cup {a}
      BY <1>1, <2>2 DEF Held
    <3>2. InUse' = InUse \cup {a}
      BY <1>5 DEF InUse
    <3> QED  BY <1>2, <2>2, <3>1, <3>2 DEF Owned, BlocksHeld
  <2> QED  BY <2>1, <2>2
<1>8. TypeOK'
  <2>1. held' \in [DOMAIN held' -> Asked] /\ DOMAIN held' \subseteq Addr
    BY <1>1, <1>6 DEF TypeOK, Held
  <2> QED  BY <1>2, <1>5, <2>1 DEF TypeOK, Tiles
<1>9. MergedSoFar'
  <2> SUFFICES ASSUME NEW x \in DOMAIN heap', heap'[x].free, heap'[x].next # NULL
               PROVE  ~heap'[heap'[x].next].free
    BY DEF MergedSoFar
  <2>1. x # a
    BY <1>5
  <2>2. CASE x \in DOMAIN heap
    <3>1. heap'[x] = heap[x]
      BY <1>5, <2>1, <2>2
    <3>2. heap[x].next \in DOMAIN heap
      BY <2>2, <3>1, BlockOf
    <3>3. ~heap[heap[x].next].free
      BY <1>2, <2>2, <3>1 DEF MergedSoFar
    <3> QED  BY <1>4, <1>5, <3>1, <3>2, <3>3
  <2>3. CASE x \notin DOMAIN heap
    <3>1. heap'[x].next = heap[a].next
      BY <1>5, <2>3
    <3>2. heap[a].next \in DOMAIN heap
      BY <3>1, BlockOf
    <3>3. ~heap[heap[a].next].free
      BY <1>2, <1>4, <3>1 DEF MergedSoFar
    <3> QED  BY <1>4, <1>5, <3>1, <3>2, <3>3
  <2> QED  BY <2>2, <2>3
<1>10. HeldFits'
  <2> SUFFICES ASSUME ~misused, NEW x \in DOMAIN held'
               PROVE  heap'[x].size >= held'[x] \/ Wraps(held'[x])
    BY <1>2 DEF HeldFits
  <2>1. held' = Held(held, a, size)
    BY <1>1
  <2>2. CASE x = a
    BY <1>6, <2>1, <2>2 DEF Held
  <2>3. CASE x # a
    <3>1. x \in DOMAIN held /\ held'[x] = held[x]
      BY <2>1, <2>3 DEF Held
    <3>2. x \in DOMAIN heap
      BY <3>1 DEF Owned, BlocksHeld, InUse
    <3> QED  BY <1>5, <2>3, <3>1, <3>2 DEF HeldFits
  <2> QED  BY <2>2, <2>3
<1> QED  BY <1>5, <1>7, <1>8, <1>9, <1>10

\* kfree of a block, by whoever: only the one flag changes, and the merge starts
\* over.
LEMMA InvKfree ==
  ASSUME Inv, \/ \E a \in DOMAIN held : kfree(a)
              \/ \E a \in DOMAIN heap : kfree_again(a)
  PROVE  Inv'
<1> USE DEF Inv
<1>1. PICK a \in DOMAIN heap : kfree(a) \/ kfree_again(a)
  <2>1. ASSUME NEW a \in DOMAIN held PROVE a \in DOMAIN heap
    BY DEF Owned, BlocksHeld, InUse, Nobody
  <2> QED  BY <2>1
<1>2. heap' = Freed(heap, a) /\ cur' = 0 /\ cur = NULL /\ UNCHANGED <<broken, dead, copy>>
  BY <1>1 DEF kfree, kfree_again
<1>3. Tiles(heap')
  <2>1. TRUE \in BOOLEAN
    OBVIOUS
  <2>2. Tiles([heap EXCEPT ![a].free = TRUE])
    BY <2>1, TilesFlag
  <2> QED  BY <1>2, <2>2 DEF Freed
<1>4. /\ DOMAIN heap' = DOMAIN heap /\ heap'[a].free
      /\ \A x \in DOMAIN heap : heap'[x].size = heap[x].size
      /\ \A x \in DOMAIN heap \ {a} : heap'[x] = heap[x]
  <2>1. heap[a] \in Block
    BY BlockOf
  <2> QED  BY <1>2, <2>1 DEF Freed, Block
<1>5. MergedSoFar'
  <2>1. \A x \in DOMAIN heap' : x \in Nat
    BY <1>3, BlockOf
  <2> QED  BY <1>2, <2>1 DEF MergedSoFar, NULL
<1>6. /\ misused' \in BOOLEAN /\ held' \in [DOMAIN held' -> Asked] /\ DOMAIN held' \subseteq DOMAIN held
      /\ misused' => held' = Nobody
      /\ ~misused' => /\ ~misused /\ DOMAIN held' = DOMAIN held \ {a}
                      /\ \A x \in DOMAIN held' : held'[x] = held[x]
  <2>1. CASE kfree(a)
    <3>1. a \in DOMAIN held /\ held' = Dropped(held, a) /\ misused' = misused
      BY <2>1 DEF kfree
    <3>2. ~misused
      BY <3>1 DEF Owned, Nobody
    <3> QED  BY <3>1, <3>2 DEF Dropped, TypeOK
  <2>2. CASE kfree_again(a)
    <3>1. /\ misused' = (misused \/ a \in DOMAIN held)
          /\ held' = IF misused' THEN Nobody ELSE held
      BY <2>2 DEF kfree_again
    <3>2. misused' \in BOOLEAN
      BY <3>1
    <3>3. DOMAIN Nobody = {} /\ Nobody \in [DOMAIN Nobody -> Asked]
      BY DEF Nobody
    <3>4. CASE misused'
      BY <3>1, <3>2, <3>3, <3>4
    <3>5. CASE ~misused'
      BY <3>1, <3>2, <3>5 DEF TypeOK
    <3> QED  BY <3>4, <3>5
  <2> QED  BY <1>1, <2>1, <2>2
<1>7. TypeOK'
  BY <1>2, <1>3, <1>4, <1>6 DEF TypeOK, Tiles
<1>8. Owned'
  <2>1. InUse' = InUse \ {a}
    BY <1>4 DEF InUse
  <2> QED  BY <1>2, <1>6, <2>1 DEF Owned, BlocksHeld
<1>9. HeldFits'
  <2>1. ASSUME ~misused', NEW x \in DOMAIN held'
        PROVE  heap'[x].size >= held'[x] \/ Wraps(held'[x])
    BY <1>4, <1>6, <2>1 DEF HeldFits, Owned, BlocksHeld, InUse
  <2> QED  BY <1>2, <2>1 DEF HeldFits
<1> QED  BY <1>3, <1>5, <1>7, <1>8, <1>9

\* kfree that finds no magic, and kfree of a merged-away header: no block changes,
\* and a block that a client loses or that loses its magic is one of broken.
LEMMA InvKfreeElse ==
  ASSUME Inv, \/ \E a \in DOMAIN held : kfree_refused(a)
              \/ \E a \in dead : kfree_merged(a)
  PROVE  Inv'
<1> USE DEF Inv
<1>1. CASE \E a \in DOMAIN held : kfree_refused(a)
  <2>1. PICK a \in DOMAIN held : kfree_refused(a)
    BY <1>1
  <2>2. /\ a \in broken /\ held' = Dropped(held, a)
        /\ UNCHANGED <<heap, broken, dead, cur, misused, copy>>
    BY <2>1 DEF kfree_refused
  <2>3. ~misused
    BY DEF Owned, Nobody
  <2>4. /\ DOMAIN held' = DOMAIN held \ {a} /\ held' \in [DOMAIN held' -> Asked]
        /\ \A x \in DOMAIN held' : held'[x] = held[x]
    BY <2>2 DEF Dropped, TypeOK
  <2>5. InUse' = InUse
    BY <2>2 DEF InUse
  <2>6. TypeOK' /\ Owned'
    BY <2>2, <2>3, <2>4, <2>5 DEF TypeOK, Owned, BlocksHeld
  <2>7. Tiles(heap') /\ MergedSoFar'
    BY <2>2 DEF MergedSoFar
  <2>8. HeldFits'
    BY <2>2, <2>4 DEF HeldFits
  <2> QED  BY <2>6, <2>7, <2>8
<1>2. CASE \E a \in dead : kfree_merged(a)
  <2>1. PICK a \in dead : kfree_merged(a)
    BY <1>2
  <2>2. /\ broken' = broken \cup ({a + ALIGN} \cap DOMAIN heap) /\ dead' \subseteq dead
        /\ cur' = 0 /\ UNCHANGED <<heap, held, misused, copy>>
    BY <2>1 DEF kfree_merged
  <2>3. InUse' = InUse /\ broken \subseteq broken' /\ broken' \subseteq DOMAIN heap
    BY <2>2 DEF InUse, TypeOK
  <2>4. TypeOK'
    BY <2>2, <2>3 DEF TypeOK, Tiles
  <2>5. Owned'
    BY <2>2, <2>3 DEF Owned, BlocksHeld
  <2>6. Tiles(heap') /\ MergedSoFar'
    <3>1. \A x \in DOMAIN heap : x \in Nat
      BY BlockOf
    <3> QED  BY <2>2, <3>1 DEF MergedSoFar, NULL
  <2>7. HeldFits'
    BY <2>2 DEF HeldFits
  <2> QED  BY <2>4, <2>5, <2>6, <2>7
<1> QED  BY <1>1, <1>2

\* A turn of merge_free_blocks touches free blocks only, and moves on from a
\* block only when it and its neighbour are not both free.
LEMMA InvMerge ==
  ASSUME Inv, Merge_step
  PROVE  Inv'
<1> USE DEF Inv
<1>1. cur \in DOMAIN heap /\ cur # NULL /\ UNCHANGED <<held, misused>>
  BY DEF Merge_step, TypeOK
<1>2. \A x \in DOMAIN heap :
        /\ x \in Nat /\ heap[x].size \in Nat /\ x + HDR + heap[x].size <= HEAP
        /\ heap[x].next = NULL => x + HDR + heap[x].size = HEAP
        /\ heap[x].next # NULL => heap[x].next \in DOMAIN heap /\ heap[x].next = x + HDR + heap[x].size
        /\ \A y \in DOMAIN heap : x < y => x + HDR + heap[x].size <= y
  BY BlockOf
<1>3. CASE /\ heap[cur].next = NULL
           /\ cur' = NULL /\ copy' = NoCopy /\ UNCHANGED <<heap, broken, dead>>
  <2>1. \A x \in DOMAIN heap : x < cur \/ x = cur
    BY <1>1, <1>2, <1>3, Numbers
  <2>2. MergedSoFar'
    BY <1>3, <2>1 DEF MergedSoFar
  <2> QED  BY <1>1, <1>3, <2>2 DEF TypeOK, Owned, BlocksHeld, InUse, HeldFits, NoCopy
<1>4. CASE /\ heap[cur].next # NULL /\ ~Mergeable(cur)
           /\ cur' = Onward(cur) /\ UNCHANGED <<heap, broken, dead, copy>>
  <2>1. cur' = heap[cur].next /\ cur' \in DOMAIN heap
    BY <1>1, <1>2, <1>4 DEF Onward
  <2>2. \A x \in DOMAIN heap : x < cur' => x < cur \/ x = cur
    BY <1>1, <1>2, <1>4, <2>1, Numbers
  <2>3. cur' # NULL
    BY <1>4, <2>1
  <2>4. MergedSoFar'
    BY <1>4, <2>2, <2>3 DEF MergedSoFar, Mergeable
  <2> QED  BY <1>1, <1>4, <2>1, <2>4 DEF TypeOK, Owned, BlocksHeld, InUse, HeldFits
<1>5. CASE /\ heap[cur].next # NULL /\ Mergeable(cur)
           /\ heap' = [x \in DOMAIN heap \ {heap[cur].next} |-> Merged(cur)[x]]
           /\ broken' = broken \ {heap[cur].next}
           /\ dead' = dead \cup ({heap[cur].next} \ broken)
           /\ UNCHANGED <<cur, copy>>
  <2> DEFINE b == heap[cur].next
  <2>1. /\ Tiles(heap')
        /\ cur < b /\ b \in DOMAIN heap /\ heap[cur].free /\ heap[b].free
        /\ heap'[cur].free = heap[cur].free
        /\ \A x \in DOMAIN heap' \ {cur} : heap'[x] = heap[x] /\ heap'[x].next # b
    <3>1. heap[cur].free /\ heap[b].free
      BY <1>5 DEF Mergeable
    <3>2. /\ Tiles(heap')
          /\ cur < b /\ b \in DOMAIN heap
          /\ heap'[cur].free = heap[cur].free
          /\ \A x \in DOMAIN heap' \ {cur} : heap'[x] = heap[x] /\ heap'[x].next # b
      BY <1>1, <1>5, TilesMerge
    <3> QED  BY <3>1, <3>2
  <2>2. DOMAIN heap' = DOMAIN heap \ {b} /\ cur \in DOMAIN heap'
    BY <1>1, <1>2, <1>5, <2>1
  <2>9. broken' = broken \ {b} /\ dead' \subseteq dead \cup {b} /\ b \in Addr
    BY <1>5, <2>1 DEF TypeOK
  <2> HIDE DEF b
  <2>3. TypeOK'
    <3>1. broken' \subseteq DOMAIN heap' /\ dead' \subseteq Addr
      BY <2>2, <2>9 DEF TypeOK
    <3> QED  BY <1>1, <1>5, <2>1, <2>2, <3>1 DEF TypeOK, Tiles
  <2>4. InUse' = InUse /\ b \notin InUse
    BY <2>1, <2>2 DEF InUse
  <2>5. Owned'
    BY <1>1, <2>4, <2>9 DEF Owned, BlocksHeld
  <2>6. MergedSoFar'
    <3> SUFFICES ASSUME NEW x \in DOMAIN heap', x < cur, heap'[x].free, heap'[x].next # NULL
                 PROVE  ~heap'[heap'[x].next].free
      BY <1>1, <1>5 DEF MergedSoFar
    <3>1. x # cur /\ x \in DOMAIN heap
      BY <1>1, <1>2, <2>2
    <3>2. heap'[x] = heap[x] /\ heap[x].next # b
      BY <2>1, <3>1
    <3>3. ~heap[heap[x].next].free /\ heap[x].next \in DOMAIN heap
      BY <1>2, <3>1, <3>2 DEF MergedSoFar
    <3> QED  BY <2>1, <2>2, <3>2, <3>3
  <2>7. HeldFits'
    <3>1. ASSUME ~misused, NEW x \in DOMAIN held
          PROVE  heap'[x] = heap[x]
      <4>1. x \in DOMAIN heap /\ ~heap[x].free
        BY <3>1 DEF Owned, BlocksHeld, InUse
      <4> QED  BY <2>1, <2>2, <4>1
    <3> QED  BY <1>1, <1>5, <3>1 DEF HeldFits
  <2> QED  BY <2>1, <2>3, <2>5, <2>6, <2>7
<1> QED  BY <1>3, <1>4, <1>5 DEF Merge_step

\* krealloc frees the block it leaves after it has taken another one.
LEMMA InvKrealloc ==
  ASSUME Inv, NEW a \in DOMAIN held, NEW size \in Asked,
         krealloc_keeps(a, size) \/ krealloc_moves(a, size)
  PROVE  Inv'
<1> USE DEF Inv
<1>1. ~misused /\ cur = NULL /\ misused' = misused
  BY DEF krealloc_keeps, krealloc_moves
<1>2. a \in DOMAIN heap /\ ~heap[a].free
  BY <1>1 DEF Owned, BlocksHeld, InUse
<1>3. size \in Nat /\ heap[a].size \in Nat
  BY <1>2, BlockOf, KmallocAssumption
<1>4. CASE krealloc_keeps(a, size)
  <2>1. /\ UNCHANGED <<heap, broken, dead, cur, misused, copy>>
        /\ heap[a].size >= size /\ held' = Held(held, a, size)
    BY <1>4 DEF krealloc_keeps, Enough
  <2>2. /\ DOMAIN held' = DOMAIN held /\ held' \in [DOMAIN held' -> Asked]
        /\ held'[a] = size /\ \A x \in DOMAIN held \ {a} : held'[x] = held[x]
    BY <2>1 DEF Held, TypeOK
  <2>3. TypeOK' /\ Owned' /\ MergedSoFar'
    BY <1>1, <2>1, <2>2 DEF TypeOK, Owned, BlocksHeld, InUse, MergedSoFar
  <2>4. HeldFits'
    BY <1>1, <2>1, <2>2 DEF HeldFits
  <2> QED  BY <2>1, <2>3, <2>4
<1>5. CASE krealloc_moves(a, size)
  <2> DEFINE n == Aligned(size)
  <2>1. PICK b \in DOMAIN heap :
          /\ FirstFit(b, n)
          /\ heap' = Freed(Take(b, n), a)
          /\ copy' = [bytes |-> heap[a].size, room |-> Take(b, n)[b].size, asked |-> size]
          /\ held' = Held(Dropped(held, a), b, size)
    BY <1>5 DEF krealloc_moves
  <2>2. cur' = 0 /\ heap[a].size < size /\ broken' = broken /\ dead' \subseteq dead
    BY <1>3, <1>5 DEF krealloc_moves, Enough, Left
  <2>3. n \in Nat /\ (n >= size \/ Wraps(size))
    BY AlignedCovers
  <2>4. heap[b].free /\ Fits(b, n) /\ a # b
    BY <1>2, <2>1 DEF FirstFit, Fits
  <2> DEFINE h == Take(b, n)
  <2> HIDE DEF n, h
  <2>5. /\ Tiles(h)
        /\ DOMAIN heap \subseteq DOMAIN h
        /\ ~h[b].free /\ h[b].size >= n
        /\ \A x \in DOMAIN heap \ {b} : h[x] = heap[x]
        /\ \A x \in DOMAIN h \ DOMAIN heap : h[x].free
    BY <2>3, <2>4, TilesTake DEF h
  <2>6. Tiles(heap')
    <3>1. TRUE \in BOOLEAN
      OBVIOUS
    <3>2. Tiles([h EXCEPT ![a].free = TRUE])
      BY <2>5, <3>1, TilesFlag
    <3> QED  BY <2>1, <3>2 DEF Freed, h
  <2>7. /\ DOMAIN heap' = DOMAIN h /\ heap'[a].free
        /\ \A x \in DOMAIN h \ {a} : heap'[x] = h[x]
    <3>1. a \in DOMAIN h /\ h[a] \in Block
      BY <1>2, <2>5, BlockOf
    <3> QED  BY <2>1, <3>1 DEF Freed, Block, h
  <2>8. h[b].size \in Nat /\ b \in Addr /\ (h[b].size >= size \/ Wraps(size))
    <3>1. h[b].size \in Nat /\ b \in Addr
      BY <2>5, BlockOf
    <3> QED  BY <1>3, <2>3, <2>5, <3>1
  <2>9. /\ DOMAIN held' = (DOMAIN held \ {a}) \cup {b} /\ held' \in [DOMAIN held' -> Asked]
        /\ held'[b] = size /\ \A x \in DOMAIN held' \ {b} : held'[x] = held[x]
    BY <2>1 DEF Held, Dropped, TypeOK
  <2>10. copy' = [bytes |-> heap[a].size, room |-> h[b].size, asked |-> size]
    BY <2>1 DEF h
  <2>11. TypeOK'
    <3>1. DOMAIN held' \subseteq Addr /\ broken' \subseteq DOMAIN heap'
      BY <2>2, <2>5, <2>7, <2>8, <2>9 DEF TypeOK
    <3> QED  BY <1>1, <1>3, <2>2, <2>6, <2>8, <2>9, <2>10, <3>1 DEF TypeOK, Tiles
  <2>12. Owned'
    <3>1. InUse' = (InUse \ {a}) \cup {b}
      BY <2>4, <2>5, <2>7 DEF InUse
    <3> QED  BY <1>1, <2>2, <2>9, <3>1 DEF Owned, BlocksHeld
  <2>13. MergedSoFar'
    <3>1. \A x \in DOMAIN heap' : x \in Nat
      BY <2>6, BlockOf
    <3> QED  BY <2>2, <3>1 DEF MergedSoFar, NULL
  <2>14. HeldFits'
    <3>1. ASSUME NEW x \in DOMAIN held'
          PROVE  heap'[x].size >= held'[x] \/ Wraps(held'[x])
      <4>1. CASE x = b
        BY <2>4, <2>5, <2>7, <2>8, <2>9, <4>1
      <4>2. CASE x # b
        <5>1. x \in DOMAIN held /\ x # a /\ x \in DOMAIN heap /\ held'[x] = held[x]
          BY <1>1, <2>9, <4>2 DEF Owned, BlocksHeld, InUse
        <5>2. heap'[x] = heap[x]
          BY <2>5, <2>7, <4>2, <5>1
        <5> QED  BY <1>1, <5>1, <5>2 DEF HeldFits
      <4> QED  BY <4>1, <4>2
    <3>2. copy'.bytes <= copy'.room \/ Wraps(copy'.asked)
      BY <1>3, <2>2, <2>8, <2>10
    <3> QED  BY <3>1, <3>2 DEF HeldFits
  <2> QED  BY <2>6, <2>11, <2>12, <2>13, <2>14
<1> QED  BY <1>4, <1>5

\* The invariant holds throughout.
LEMMA Invariance == Spec => []Inv
<1>1. Inv /\ [Next]_vars => Inv'
  <2> SUFFICES ASSUME Inv, [Next]_vars PROVE Inv'
    OBVIOUS
  <2>1. CASE UNCHANGED vars
    BY <2>1 DEF vars, Inv, TypeOK, Tiles, Owned, BlocksHeld, InUse, MergedSoFar, HeldFits
  <2>2. CASE \E size \in Asked : kmalloc(size)
    BY <2>2, InvKmalloc
  <2>3. CASE Merge_step
    BY <2>3, InvMerge
  <2>4. CASE \E a \in DOMAIN held, size \in Asked :
               krealloc_keeps(a, size) \/ krealloc_moves(a, size)
    BY <2>4, InvKrealloc
  <2>5. CASE (\E a \in DOMAIN held : kfree(a)) \/ \E a \in DOMAIN heap : kfree_again(a)
    BY <2>5, InvKfree
  <2>6. CASE (\E a \in DOMAIN held : kfree_refused(a)) \/ \E a \in dead : kfree_merged(a)
    BY <2>6, InvKfreeElse
  <2> QED  BY <2>1, <2>2, <2>3, <2>4, <2>5, <2>6 DEF Next
<1> QED  BY <1>1, InvInit, PTL DEF Spec

-----------------------------------------------------------------------------
\* The block list of kmalloc.cpp tiles the heap, whatever is asked for and freed,
\* also in the middle of merge_free_blocks, after double frees and after frees of
\* blocks that were merged away.
THEOREM TilingHolds == Spec => []Tiling
<1>1. Inv => Tiling
  <2> SUFFICES ASSUME Inv PROVE Tiling
    OBVIOUS
  <2> QED  BY DEF Inv, Tiling, Tiles, EndOf
<1> QED  BY <1>1, Invariance, PTL

\* When kfree has returned, no two neighbours are free.
THEOREM NoFreeNeighboursHolds == Spec => []NoFreeNeighbours
<1>1. Inv => NoFreeNeighbours
  BY DEF Inv, MergedSoFar, NoFreeNeighbours
<1> QED  BY <1>1, Invariance, PTL

\* Until a client frees what another one has: clients' blocks are in use, and a
\* block in use without a client is one that kfree refused because a free of a
\* merged-away block had overwritten its magic.
THEOREM BlocksHeldHolds == Spec => []BlocksHeld
<1>1. Inv => BlocksHeld
  BY DEF Inv, Owned
<1> QED  BY <1>1, Invariance, PTL

\* kmalloc and krealloc give at least what was asked for, and krealloc copies
\* within its new block, for all sizes but those whose rounding wraps.
THEOREM HeldFitsHolds == Spec => []HeldFits
<1>1. Inv => HeldFits
  BY DEF Inv
<1> QED  BY <1>1, Invariance, PTL

-----------------------------------------------------------------------------
\* A nonempty set of natural numbers has a least element: the form in which
\* induction is used below.
LEMMA Least ==
  ASSUME NEW T \in SUBSET Nat, T # {}
  PROVE  \E n \in T : \A m \in T : n <= m
<1>1. \E x \in T : \A y \in T : ~(<<y, x>> \in OpToRel(<, Nat))
  BY NatLessThanWellFounded, WFMin
<1>2. PICK n \in T : \A y \in T : ~(<<y, n>> \in OpToRel(<, Nat))
  BY <1>1
<1>3. \A y \in T : ~(y < n)
  BY <1>2 DEF OpToRel
<1> QED  BY <1>3

\* The recursion of the fold that kmem_info's sums are, for sizes in the list h.
Pick(s) == CHOOSE x \in s : TRUE
Step(h, g, s) == IF s = {} THEN 0 ELSE h[Pick(s)].size + g[s \ {Pick(s)}]
Iterates(h, S, g) == g = [s \in SUBSET S |-> Step(h, g, s)]

\* What MapThenSumSet computes.
LEMMA SumIs ==
  ASSUME NEW h, NEW S
  PROVE  MapThenSumSet(LAMBDA a : h[a].size, S) = (CHOOSE g : Iterates(h, S, g))[S]
BY DEF MapThenSumSet, MapThenFoldSet, Iterates, Step, Pick

\* The recursion has a solution on the subsets of a finite set.
LEMMA SumExists ==
  ASSUME NEW h, NEW S, IsFiniteSet(S), \A a \in S : h[a].size \in Nat
  PROVE  \E g \in [SUBSET S -> Nat] : Iterates(h, S, g)
<1> DEFINE Solves(g, n) == \A s \in SUBSET S : Cardinality(s) <= n => g[s] = Step(h, g, s)
           T == {n \in Nat : ~\E g \in [SUBSET S -> Nat] : Solves(g, n)}
<1>1. \A s \in SUBSET S : IsFiniteSet(s) /\ Cardinality(s) \in Nat /\ Cardinality(s) <= Cardinality(S)
  BY FS_Subset, FS_CardinalityType
<1>2. \A s \in SUBSET S : s # {} => /\ Pick(s) \in s /\ s \ {Pick(s)} \in SUBSET S
                                    /\ Cardinality(s \ {Pick(s)}) = Cardinality(s) - 1
  <2> SUFFICES ASSUME NEW s \in SUBSET S, s # {}
               PROVE  /\ Pick(s) \in s /\ s \ {Pick(s)} \in SUBSET S
                      /\ Cardinality(s \ {Pick(s)}) = Cardinality(s) - 1
    OBVIOUS
  <2>1. Pick(s) \in s
    BY DEF Pick
  <2> QED  BY <1>1, <2>1, FS_RemoveElement
<1>3. \A s \in SUBSET S : s = {} <=> Cardinality(s) = 0
  BY <1>1, FS_EmptySet
<1>4. T = {}
  <2> SUFFICES ASSUME T # {} PROVE FALSE
    OBVIOUS
  <2>1. PICK n \in T : \A m \in T : n <= m
    <3>1. T \in SUBSET Nat
      OBVIOUS
    <3> QED  BY <3>1, Least
  <2>2. n \in Nat /\ ~\E g \in [SUBSET S -> Nat] : Solves(g, n)
    OBVIOUS
  <2>3. n # 0
    <3> SUFFICES ASSUME n = 0 PROVE FALSE
      OBVIOUS
    <3>1. PICK g : g = [s \in SUBSET S |-> 0]
      OBVIOUS
    <3>2. g \in [SUBSET S -> Nat]
      BY <3>1
    <3>3. Solves(g, 0)
      BY <1>1, <1>3, <3>1 DEF Step
    <3> QED  BY <2>2, <3>2, <3>3
  <2>4. PICK m \in Nat : n = m + 1
    <3>1. n - 1 \in Nat /\ n = (n - 1) + 1
      BY <2>2, <2>3
    <3> QED  BY <3>1
  <2>5. PICK g \in [SUBSET S -> Nat] : Solves(g, m)
    <3>1. m \notin T
      <4>1. ~(n <= m)
        BY <2>4
      <4> QED  BY <2>1, <4>1
    <3> QED  BY <3>1
  <2>6. \A s \in SUBSET S : Step(h, g, s) \in Nat
    <3> SUFFICES ASSUME NEW s \in SUBSET S, s # {} PROVE h[Pick(s)].size + g[s \ {Pick(s)}] \in Nat
      BY DEF Step
    <3>1. h[Pick(s)].size \in Nat /\ g[s \ {Pick(s)}] \in Nat
      BY <1>2
    <3> QED  BY <3>1
  <2>7. PICK k : k = [s \in SUBSET S |-> IF Cardinality(s) <= m THEN g[s] ELSE Step(h, g, s)]
    OBVIOUS
  <2>8. k \in [SUBSET S -> Nat]
    BY <2>6, <2>7
  <2>9. \A s \in SUBSET S : k[s] = Step(h, g, s) \/ ~(Cardinality(s) <= n)
    BY <2>5, <2>7
  <2>10. \A s \in SUBSET S : Cardinality(s) <= n => Step(h, k, s) = Step(h, g, s)
    <3> SUFFICES ASSUME NEW s \in SUBSET S, Cardinality(s) <= n, s # {}
                 PROVE  k[s \ {Pick(s)}] = g[s \ {Pick(s)}]
      BY DEF Step
    <3>1. s \ {Pick(s)} \in SUBSET S /\ Cardinality(s \ {Pick(s)}) <= m
      <4>1. Cardinality(s) \in Nat /\ Cardinality(s \ {Pick(s)}) = Cardinality(s) - 1
            /\ s \ {Pick(s)} \in SUBSET S
        BY <1>1, <1>2
      <4> QED  BY <2>4, <4>1
    <3> QED  BY <2>7, <3>1
  <2>11. Solves(k, n)
    BY <2>9, <2>10
  <2> QED  BY <2>2, <2>8, <2>11
<1>5. Cardinality(S) \in Nat
  BY FS_CardinalityType
<1>6. PICK g \in [SUBSET S -> Nat] : Solves(g, Cardinality(S))
  BY <1>4, <1>5
<1>7. \A s \in SUBSET S : g[s] = Step(h, g, s)
  BY <1>1, <1>6
<1>8. g = [s \in SUBSET S |-> Step(h, g, s)]
  BY <1>7
<1> QED  BY <1>8 DEF Iterates

\* Sums over subsets of one set are values of one solution.
LEMMA SumUnique ==
  ASSUME NEW h, NEW S, IsFiniteSet(S), NEW g, Iterates(h, S, g), NEW Q \in SUBSET S,
         NEW k, Iterates(h, Q, k)
  PROVE  k[Q] = g[Q]
<1> DEFINE T == {n \in Nat : \E s \in SUBSET Q : Cardinality(s) = n /\ k[s] # g[s]}
<1>1. \A s \in SUBSET Q : s \in SUBSET S /\ k[s] = Step(h, k, s) /\ g[s] = Step(h, g, s)
  BY DEF Iterates
<1>2. \A s \in SUBSET Q : IsFiniteSet(s) /\ Cardinality(s) \in Nat
  BY <1>1, FS_Subset, FS_CardinalityType
<1>3. T = {}
  <2> SUFFICES ASSUME T # {} PROVE FALSE
    OBVIOUS
  <2>1. PICK n \in T : \A m \in T : n <= m
    <3>1. T \in SUBSET Nat
      OBVIOUS
    <3> QED  BY <3>1, Least
  <2>2. PICK s \in SUBSET Q : Cardinality(s) = n /\ k[s] # g[s]
    OBVIOUS
  <2>3. s # {}
    BY <1>1, <2>2 DEF Step
  <2>4. Pick(s) \in s
    BY <2>3 DEF Pick
  <2>5. PICK r : r = s \ {Pick(s)}
    OBVIOUS
  <2>6. r \in SUBSET Q /\ Cardinality(r) = n - 1 /\ Cardinality(r) \in Nat /\ n \in Nat
    <3>1. r \in SUBSET Q
      BY <2>5
    <3> QED  BY <1>2, <2>2, <2>4, <2>5, <3>1, FS_RemoveElement
  <2>7. Cardinality(r) \notin T
    BY <2>1, <2>6
  <2>8. k[r] = g[r]
    BY <2>6, <2>7
  <2> QED  BY <1>1, <2>2, <2>3, <2>5, <2>8 DEF Step
<1>4. Cardinality(Q) \in Nat
  BY <1>2
<1> QED  BY <1>3, <1>4

\* A sum is that of any one of its terms and of the rest.
AddsUp(h, S, g) == \A Q \in SUBSET S : \A x \in Q : g[Q] = h[x].size + g[Q \ {x}]

\* The order of the summation does not matter.
LEMMA SumRemove ==
  ASSUME NEW h, NEW S, IsFiniteSet(S), \A a \in S : h[a].size \in Nat,
         NEW g, g \in [SUBSET S -> Nat], Iterates(h, S, g)
  PROVE  AddsUp(h, S, g)
<1> DEFINE T == {n \in Nat : \E s \in SUBSET S : \E y \in s :
                               Cardinality(s) = n /\ g[s] # h[y].size + g[s \ {y}]}
<1>1. \A s \in SUBSET S : g[s] = Step(h, g, s) /\ g[s] \in Nat
  BY DEF Iterates
<1>2. \A s \in SUBSET S : IsFiniteSet(s) /\ Cardinality(s) \in Nat
  BY FS_Subset, FS_CardinalityType
<1>3. T = {}
  <2> SUFFICES ASSUME T # {} PROVE FALSE
    OBVIOUS
  <2>1. PICK n \in T : \A m \in T : n <= m
    <3>1. T \in SUBSET Nat
      OBVIOUS
    <3> QED  BY <3>1, Least
  <2>2. PICK s \in SUBSET S : \E y \in s : Cardinality(s) = n /\ g[s] # h[y].size + g[s \ {y}]
    OBVIOUS
  <2>3. PICK y \in s : Cardinality(s) = n /\ g[s] # h[y].size + g[s \ {y}]
    BY <2>2
  <2>4. PICK c : c = Pick(s)
    OBVIOUS
  <2>5. c \in s /\ s # {}
    BY <2>3, <2>4 DEF Pick
  <2>6. g[s] = h[c].size + g[s \ {c}]
    BY <1>1, <2>4, <2>5 DEF Step
  <2>7. c # y
    BY <2>3, <2>6
  <2>8. PICK r, q : r = s \ {c} /\ q = s \ {y}
    OBVIOUS
  <2>9. /\ r \in SUBSET S /\ q \in SUBSET S /\ y \in r /\ c \in q /\ r \ {y} = q \ {c}
        /\ q \ {c} \in SUBSET S
    BY <2>5, <2>7, <2>8
  <2>10. Cardinality(r) = n - 1 /\ Cardinality(q) = n - 1 /\ n \in Nat /\ n - 1 \in Nat
    <3>1. Cardinality(r) = Cardinality(s) - 1 /\ Cardinality(q) = Cardinality(s) - 1
      BY <1>2, <2>3, <2>5, <2>8, FS_RemoveElement
    <3>2. Cardinality(r) \in Nat /\ Cardinality(s) \in Nat
      BY <1>2, <2>9
    <3> QED  BY <2>3, <3>1, <3>2
  <2>11. n - 1 \notin T
    <3> HIDE DEF T
    <3> QED  BY <2>1, <2>10
  <2>12. g[r] = h[y].size + g[r \ {y}] /\ g[q] = h[c].size + g[q \ {c}]
    BY <2>9, <2>10, <2>11
  <2>13. /\ g[s] \in Nat /\ g[r] \in Nat /\ g[q] \in Nat /\ g[q \ {c}] \in Nat
         /\ h[y].size \in Nat /\ h[c].size \in Nat
    BY <1>1, <2>3, <2>5, <2>9
  <2>14. g[s] = h[c].size + g[r] /\ g[s] # h[y].size + g[q] /\ g[r] = h[y].size + g[q \ {c}]
    BY <2>3, <2>6, <2>8, <2>9, <2>12
  <2> QED  BY <2>12, <2>13, <2>14
<1> QED  BY <1>2, <1>3 DEF AddsUp

\* The sum kmem_info takes over the blocks Q.
Sizes(h, Q) == MapThenSumSet(LAMBDA a : h[a].size, Q)

\* kmem_info's sums are values of one solution, whatever set they run over.
LEMMA SumOf ==
  ASSUME NEW h, NEW S, IsFiniteSet(S), \A a \in S : h[a].size \in Nat,
         NEW g, Iterates(h, S, g), NEW Q \in SUBSET S
  PROVE  Sizes(h, Q) = g[Q]
<1>1. IsFiniteSet(Q) /\ \A a \in Q : h[a].size \in Nat
  BY FS_Subset
<1>2. \E k : Iterates(h, Q, k)
  BY <1>1, SumExists
<1>3. Iterates(h, Q, CHOOSE k : Iterates(h, Q, k))
  BY <1>2
<1>4. (CHOOSE k : Iterates(h, Q, k))[Q] = g[Q]
  BY <1>3, SumUnique
<1> QED  BY <1>4, SumIs DEF Sizes

\* The sizes of all blocks and the headers make up the heap.
LEMMA SizesAddUp ==
  ASSUME NEW h, Tiles(h), NEW U \in SUBSET DOMAIN h
  PROVE  Sizes(h, U) + Sizes(h, DOMAIN h \ U) + HDR * Cardinality(DOMAIN h) = HEAP
<1>1. PICK D, F : D = DOMAIN h /\ F = DOMAIN h \ U
  OBVIOUS
<1>2. HEAP \in Nat /\ HDR \in Nat /\ HDR > 0 /\ HDR <= HEAP
  BY Numbers
<1>3. D \in SUBSET Addr /\ 0 \in D
  BY <1>1 DEF Tiles
<1>4. ASSUME NEW a \in D
      PROVE  /\ a \in Nat /\ a < HEAP /\ h[a].size \in Nat /\ h[a].free \in BOOLEAN
             /\ a + HDR + h[a].size \in D \cup {HEAP}
             /\ \A b \in D : a < b => a + HDR + h[a].size <= b
  <2>1. a \in Nat /\ a < HEAP
    BY <1>2, <1>3 DEF Addr
  <2> QED  BY <1>1, <2>1, BlockOf
<1>5. IsFiniteSet(D)
  <2>1. IsFiniteSet(Addr)
    BY <1>2, FS_Interval DEF Addr
  <2> QED  BY <1>3, <2>1, FS_Subset
<1>6. PICK g \in [SUBSET D -> Nat] : Iterates(h, D, g)
  BY <1>4, <1>5, SumExists
<1> DEFINE Before(Q, a) == {b \in Q : b < a}
           Claim(a) == g[Before(U, a)] + g[Before(F, a)] + HDR * Cardinality(Before(D, a)) = a
<1>7. U \in SUBSET D /\ F \in SUBSET D /\ \A a \in D : (a \in U <=> a \notin F)
  BY <1>1
<1>8. \A a : /\ Before(U, a) \in SUBSET D /\ Before(F, a) \in SUBSET D
             /\ Before(D, a) \in SUBSET D
  BY <1>7
<1>9. \A Q \in SUBSET D : IsFiniteSet(Q) /\ Cardinality(Q) \in Nat
  BY <1>5, FS_Subset, FS_CardinalityType
<1>10. Claim(0)
  <2>1. Before(U, 0) = {} /\ Before(F, 0) = {} /\ Before(D, 0) = {}
    BY <1>4, <1>7
  <2>2. g[{}] = 0
    BY <1>6 DEF Iterates, Step
  <2>3. HDR * 0 = 0 /\ Cardinality({}) = 0
    BY <1>2, FS_EmptySet
  <2>4. g[Before(U, 0)] = 0 /\ g[Before(F, 0)] = 0 /\ HDR * Cardinality(Before(D, 0)) = 0
    BY <2>1, <2>2, <2>3
  <2> HIDE DEF Before
  <2> QED  BY <2>4
<1>11. ASSUME NEW a \in D, Claim(a) PROVE Claim(a + HDR + h[a].size)
  <2>1. PICK e, z : e = a + HDR + z /\ z = h[a].size
    OBVIOUS
  <2>2. a \in Nat /\ z \in Nat /\ e \in Nat /\ a < e
    BY <1>2, <1>4, <2>1
  <2>3. \A b \in D : b \in Nat /\ (b < e <=> b < a \/ b = a)
    <3> SUFFICES ASSUME NEW b \in D PROVE b \in Nat /\ (b < e <=> b < a \/ b = a)
      OBVIOUS
    <3>1. b \in Nat /\ (a < b => e <= b)
      BY <1>4, <2>1
    <3> QED  BY <2>2, <3>1
  <2>4. \A Q \in SUBSET D : /\ a \in Q => Before(Q, e) = Before(Q, a) \cup {a}
                            /\ a \notin Q => Before(Q, e) = Before(Q, a)
                            /\ a \notin Before(Q, a)
    <3> SUFFICES ASSUME NEW Q \in SUBSET D
                 PROVE  /\ a \in Q => Before(Q, e) = Before(Q, a) \cup {a}
                        /\ a \notin Q => Before(Q, e) = Before(Q, a)
                        /\ a \notin Before(Q, a)
      OBVIOUS
    <3>1. \A b \in Q : b \in Before(Q, e) <=> b \in Before(Q, a) \/ b = a
      BY <2>3
    <3>2. \A b : b \in Before(Q, e) \/ b \in Before(Q, a) => b \in Q
      OBVIOUS
    <3>3. a \notin Before(Q, a)
      BY <2>2
    <3> HIDE DEF Before
    <3> QED  BY <3>1, <3>2, <3>3
  <2>5. Cardinality(Before(D, e)) = Cardinality(Before(D, a)) + 1
    <3>1. Before(D, e) = Before(D, a) \cup {a} /\ a \notin Before(D, a)
      BY <2>4
    <3> QED  BY <1>8, <1>9, <3>1, FS_AddElement
  <2> HIDE DEF Before
  <2>6. ASSUME NEW Q \in SUBSET D, a \in Q PROVE g[Before(Q, e)] = z + g[Before(Q, a)]
    <3>1. PICK P, R : P = Before(Q, e) /\ R = Before(Q, a)
      OBVIOUS
    <3>2. P = R \cup {a} /\ a \notin R
      BY <2>4, <2>6, <3>1
    <3>3. R \in SUBSET D
      BY <3>1 DEF Before
    <3>4. P \in SUBSET D /\ a \in P /\ P \ {a} = R
      BY <3>2, <3>3
    <3>5. \A x \in D : h[x].size \in Nat
      BY <1>4
    <3>6. AddsUp(h, D, g)
      BY <1>5, <1>6, <3>5, SumRemove
    <3>7. g[P] = h[a].size + g[P \ {a}]
      BY <3>4, <3>6 DEF AddsUp
    <3> QED  BY <2>1, <3>1, <3>4, <3>7
  <2>7. PICK u, v, x, y : /\ u = g[Before(U, a)] /\ v = g[Before(F, a)]
                          /\ x = g[Before(U, e)] /\ y = g[Before(F, e)]
    OBVIOUS
  <2>8. u \in Nat /\ v \in Nat /\ ((x = z + u /\ y = v) \/ (x = u /\ y = z + v))
    <3>1. u \in Nat /\ v \in Nat
      BY <1>6, <1>8, <2>7
    <3>2. CASE a \in U
      BY <1>7, <2>4, <2>6, <2>7, <3>1, <3>2
    <3>3. CASE a \in F
      BY <1>7, <2>4, <2>6, <2>7, <3>1, <3>3
    <3> QED  BY <1>7, <3>2, <3>3
  <2>9. PICK c, d : c = Cardinality(Before(D, a)) /\ d = Cardinality(Before(D, e))
    OBVIOUS
  <2>10. c \in Nat /\ d = c + 1 /\ u + v + HDR * c = a
    BY <1>8, <1>9, <1>11, <2>5, <2>7, <2>9
  <2>11. HDR * d = HDR * c + HDR /\ HDR * c \in Nat
    BY <1>2, <2>10
  <2>12. x + y + HDR * d = e
    BY <1>2, <2>1, <2>2, <2>8, <2>10, <2>11
  <2> QED  BY <2>1, <2>7, <2>9, <2>12
<1>12. Claim(HEAP)
  <2> HIDE DEF Claim
  <2> DEFINE T == {n \in Nat : HEAP - n \in D /\ Claim(HEAP - n)}
  <2>1. HEAP - HEAP = 0
    BY <1>2
  <2>2. T \in SUBSET Nat /\ HEAP \in T
    BY <1>2, <1>3, <1>10, <2>1
  <2>3. PICK n \in T : \A m \in T : n <= m
    BY <2>2, Least
  <2>4. PICK a : a = HEAP - n
    OBVIOUS
  <2>5. a \in D /\ Claim(a)
    BY <2>4
  <2>6. PICK e : e = a + HDR + h[a].size
    OBVIOUS
  <2>7. Claim(e) /\ e \in D \cup {HEAP}
    BY <1>4, <1>11, <2>5, <2>6
  <2>8. ASSUME e \in D PROVE FALSE
    <3>1. e \in Nat /\ e < HEAP /\ e > a /\ a \in Nat /\ n \in Nat
      BY <1>2, <1>4, <2>5, <2>6, <2>8
    <3>2. PICK m \in Nat : m = HEAP - e /\ HEAP - m = e
      BY <1>2, <3>1
    <3>3. m \in T
      BY <2>7, <2>8, <3>2
    <3>4. n <= m
      BY <2>3, <3>3
    <3> QED  BY <1>2, <2>4, <3>1, <3>2, <3>4
  <2> QED  BY <2>7, <2>8
<1>13. Before(U, HEAP) = U /\ Before(F, HEAP) = F /\ Before(D, HEAP) = D
  BY <1>4, <1>7
<1>14. Sizes(h, U) = g[U] /\ Sizes(h, F) = g[F]
  <2>1. \A a \in D : h[a].size \in Nat
    BY <1>4
  <2> QED  BY <1>5, <1>6, <1>7, <2>1, SumOf
<1> QED  BY <1>1, <1>12, <1>13, <1>14

\* kmem_info's used bytes, free bytes and headers always make up the heap; the
\* used bytes are those of the clients' blocks until a block is freed under its
\* owner or loses its magic to a free of a merged-away block.
THEOREM HeldExactlyHolds == Spec => []HeldExactly
<1>1. ASSUME Inv PROVE HeldExactly
  <2>1. BlocksHeld /\ Tiles(heap)
    BY <1>1 DEF Inv, Owned
  <2>2. PICK U : U = {a \in DOMAIN heap : ~heap[a].free}
    OBVIOUS
  <2>3. DOMAIN heap \ U = {a \in DOMAIN heap : heap[a].free} /\ U \in SUBSET DOMAIN heap
    BY <2>2
  <2>4. Sizes(heap, U) + Sizes(heap, DOMAIN heap \ U) + HDR * Cardinality(DOMAIN heap) = HEAP
    BY <2>1, <2>3, SizesAddUp
  <2>5. kmem_info.used = Sizes(heap, U) /\ kmem_info.free = Sizes(heap, DOMAIN heap \ U)
    BY <2>2, <2>3 DEF kmem_info, Sizes
  <2>6. ~misused /\ broken = {} => U = DOMAIN held
    <3>1. U = InUse
      BY <2>2 DEF InUse
    <3> QED  BY <2>1, <3>1 DEF BlocksHeld
  <2>7. ~misused /\ broken = {} => kmem_info.used = MapThenSumSet(LAMBDA a : heap[a].size, DOMAIN held)
    BY <2>5, <2>6 DEF Sizes
  <2> QED  BY <2>1, <2>4, <2>5, <2>7 DEF HeldExactly
<1> QED  BY <1>1, Invariance, PTL
=============================================================================
