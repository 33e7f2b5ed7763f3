---------------------------- MODULE MemoryProofs ----------------------------
(***************************************************************************)
(* Proofs about memory: first the frame allocator, for every memory map    *)
(* and layout, then virtual memory and the shared regions over it.         *)
(*                                                                         *)
(* The counter used is unsigned in pmm.cpp and goes down in pmm_free: that *)
(* it never wraps (PmmTypeOK) rests on its being exact (Counted), which in *)
(* turn rests on pmm_alloc and pmm_free moving a frame of the allocatable  *)
(* range in or out of the bitmap whenever they move the counter.           *)
(*                                                                         *)
(* Inv is the allocator's invariant.  Memory adds who has which frame and  *)
(* that pages are handed out in order; Ownership, over it, says which call *)
(* or region answers for which page.                                       *)
(* The middle of a call is where both bite: a create that has got done     *)
(* pages has them in one run ending at next_virt, because nothing else     *)
(* moves until it returns; this is what lets a failed create, and later a  *)
(* close, find its pages by counting up from the first.                    *)
(***************************************************************************)
EXTENDS Shmem, PmmClients, FiniteSetTheorems, SequenceTheorems, TLAPS

\* Until pmm_init has found a region there is nothing to allocate, and the
\* reserved pages are always the bitmap's and the heap's.
Layout ==
  /\ total = 0 => base = NULL /\ bmap_skip = 0
  /\ total # 0 => base # NULL /\ bmap_skip = BitmapPages(total) + KMALLOC_RESERVED_PAGES
  /\ total # 0 => \E i \in DOMAIN e820 : /\ e820[i].type = 1
                                         /\ base = e820[i].base /\ total = e820[i].length
  /\ boot \in {"none", "memory"} => total = 0 /\ used = 0

Counted == used = bmap_skip + Cardinality(Allocatable \cap bitmap)

Inv == PmmTypeOK /\ Layout /\ Counted

-----------------------------------------------------------------------------
\* The size of the bitmap is a number of pages.
LEMMA BitmapPagesNat == ASSUME NEW t \in Nat PROVE BitmapPages(t) \in Nat
<1>1. \A a \in Nat, b \in Nat \ {0} : (a + b - 1) \div b \in Nat
  OBVIOUS
<1> QED  BY <1>1, PmmAssumption DEF BitmapPages, CeilDiv

\* Taking a clear frame, or giving back a set one, moves the count by one.
LEMMA CountMoves ==
  ASSUME total \in Nat, bmap_skip \in Nat, NEW f \in Allocatable
  PROVE  /\ Cardinality(Allocatable \cap bitmap) \in Nat
         /\ f \notin bitmap => Cardinality(Allocatable \cap (bitmap \cup {f}))
                                 = Cardinality(Allocatable \cap bitmap) + 1
         /\ f \in bitmap => /\ Cardinality(Allocatable \cap (bitmap \ {f}))
                                 = Cardinality(Allocatable \cap bitmap) - 1
                            /\ Cardinality(Allocatable \cap (bitmap \ {f})) \in Nat
<1>1. IsFiniteSet(Allocatable \cap bitmap)
  <2>1. bmap_skip \in Int /\ total - 1 \in Int
    OBVIOUS
  <2>2. IsFiniteSet(Allocatable)
    BY <2>1, FS_Interval DEF Allocatable
  <2> QED  BY <2>2, FS_Intersection
<1>2. /\ Allocatable \cap (bitmap \cup {f}) = (Allocatable \cap bitmap) \cup {f}
      /\ Allocatable \cap (bitmap \ {f}) = (Allocatable \cap bitmap) \ {f}
  OBVIOUS
<1>3. Cardinality(Allocatable \cap bitmap) \in Nat
  BY <1>1, FS_CardinalityType
<1>4. f \notin bitmap => Cardinality((Allocatable \cap bitmap) \cup {f})
                           = Cardinality(Allocatable \cap bitmap) + 1
  BY <1>1, FS_AddElement
<1>5. f \in bitmap => Cardinality((Allocatable \cap bitmap) \ {f})
                        = Cardinality(Allocatable \cap bitmap) - 1
  BY <1>1, FS_RemoveElement
<1>6. Cardinality((Allocatable \cap bitmap) \ {f}) \in Nat
  BY <1>1, FS_RemoveElement, FS_CardinalityType
<1> QED  BY <1>2, <1>3, <1>4, <1>5, <1>6

\* The statics of pmm.cpp satisfy the invariant.
LEMMA InvInit == PmmInit => Inv
<1> SUFFICES ASSUME PmmInit PROVE Inv
  OBVIOUS
<1> USE DEF PmmInit
<1>1. PmmTypeOK
  BY DEF PmmTypeOK, Boots, NULL, Frames
<1>2. Layout
  BY DEF Layout, NULL
<1>3. Counted
  BY FS_EmptySet DEF Counted, Allocatable
<1> QED  BY <1>1, <1>2, <1>3 DEF Inv

\* The initialisers of kernel_main, run one after the other.
LEMMA InvBoot ==
  ASSUME Inv, memory_init \/ pmm_init \/ kmalloc_init
  PROVE  Inv'
<1> USE PmmAssumption DEF Inv
<1>1. ASSUME NEW i \in DOMAIN e820
      PROVE  e820[i].base \in Nat /\ e820[i].length \in Nat
  <2>1. e820 \in Seq([base : Nat, length : Nat, type : {1, 2}])
    BY DEF PmmTypeOK
  <2>2. i \in 1 .. Len(e820)
    BY <2>1, LenProperties
  <2>3. e820[i] \in [base : Nat, length : Nat, type : {1, 2}]
    BY <2>1, <2>2, ElementOfSeq
  <2> QED  BY <2>3
<1>2. CASE memory_init \/ kmalloc_init
  <2>1. heap_base' \in Nat /\ heap_pool' \in Nat
    BY <1>1, <1>2 DEF memory_init, kmalloc_init, PmmTypeOK
  <2>3. PmmTypeOK'
    BY <1>2, <2>1 DEF memory_init, kmalloc_init, PmmTypeOK, Boots, Frames
  <2>2. (Layout /\ Counted)'
    BY <1>2 DEF memory_init, kmalloc_init, Layout, Counted, Allocatable, BitmapPages, CeilDiv
  <2> QED  BY <2>2, <2>3
<1>3. CASE pmm_init
  <2>1. CASE NoBest /\ UNCHANGED <<total, base, bmap_skip, bitmap, used>>
    BY <1>3, <2>1 DEF pmm_init, PmmTypeOK, Boots, Frames, Layout, Counted, Allocatable,
       BitmapPages, CeilDiv
  <2>2. ASSUME NEW i \in DOMAIN e820, Best(i),
               total' = e820[i].length, base' = e820[i].base,
               bmap_skip' = Skip(e820[i].length),
               bitmap' = {f \in 0 .. e820[i].length - 1 : f < Skip(e820[i].length)},
               used' = Skip(e820[i].length)
        PROVE  Inv'
    <3>1. total' \in Nat /\ total' # 0 /\ base' \in Nat /\ base' # NULL
      BY <1>1, <2>2 DEF Best, Usable, NULL
    <3>2. BitmapPages(total') \in Nat
      BY <3>1, BitmapPagesNat
    <3>3. bmap_skip' = BitmapPages(total') + KMALLOC_RESERVED_PAGES /\ bmap_skip' \in Nat
      BY <2>2, <3>2 DEF Skip
    <3>4. (Allocatable \cap bitmap)' = {}
      BY <2>2, <3>1, <3>3 DEF Allocatable
    <3>5. PmmTypeOK'
      BY <1>3, <2>2, <3>1, <3>3 DEF pmm_init, PmmTypeOK, Boots, Frames
    <3>6. Layout'
      BY <1>3, <2>2, <3>1, <3>2, <3>3 DEF pmm_init, Layout, BitmapPages, CeilDiv, Best, Usable
    <3>7. Counted'
      <4>1. Cardinality({}) = 0
        BY FS_EmptySet
      <4>2. Cardinality((Allocatable \cap bitmap)') = 0
        BY <3>4, <4>1
      <4> QED  BY <2>2, <3>3, <4>2 DEF Counted
    <3> QED  BY <3>5, <3>6, <3>7
  <2> QED  BY <1>3, <2>1, <2>2 DEF pmm_init
<1> QED  BY <1>2, <1>3

\* pmm_alloc marks the frame it returns and counts it.
LEMMA InvAlloc ==
  ASSUME Inv, boot = "up", UNCHANGED layout, NEW addr, pmm_alloc(addr)
  PROVE  Inv'
<1> USE PmmAssumption DEF Inv
<1>1. CASE UNCHANGED <<bitmap, used>>
  BY <1>1 DEF layout, PmmTypeOK, Layout, Counted, Allocatable, BitmapPages, CeilDiv
<1>2. ASSUME NEW f \in Allocatable, FirstClear(f), Mark(f)
      PROVE  Inv'
  <2>1. /\ total \in Nat /\ bmap_skip \in Nat /\ base \in Nat /\ used \in Nat
        /\ f \in Nat /\ f < total /\ bitmap \subseteq 0 .. total - 1
    BY DEF PmmTypeOK, Allocatable
  <2>2. f \notin bitmap
    BY <1>2 DEF FirstClear
  <2>3. bitmap' = bitmap \cup {f} /\ used' = used + 1
    BY <1>2 DEF Mark
  <2>4. UNCHANGED <<e820, boot, heap_base, base, total, bmap_skip, heap_pool>>
    BY DEF layout
  <2>5. PmmTypeOK'
    <3>1. used' \in Nat /\ bitmap' \subseteq 0 .. total' - 1
      BY <2>1, <2>3, <2>4
    <3> QED  BY <2>4, <3>1 DEF PmmTypeOK
  <2>6. Layout'
    BY <2>4 DEF Layout, BitmapPages, CeilDiv
  <2>7. Counted'
    <3>1. /\ Cardinality(Allocatable \cap bitmap) \in Nat
          /\ Cardinality(Allocatable \cap (bitmap \cup {f}))
               = Cardinality(Allocatable \cap bitmap) + 1
      BY <2>1, <2>2, CountMoves
    <3>2. Allocatable' = Allocatable
      BY <2>4 DEF Allocatable
    <3> QED  BY <2>1, <2>3, <2>4, <3>1, <3>2 DEF Counted
  <2> QED  BY <2>5, <2>6, <2>7
<1> QED  BY <1>1, <1>2 DEF pmm_alloc

\* pmm_free lets go, and counts, only a frame that is marked.
LEMMA InvFree ==
  ASSUME Inv, boot = "up", UNCHANGED layout, NEW addr, pmm_free(addr)
  PROVE  Inv'
<1> USE PmmAssumption DEF Inv
<1>1. CASE UNCHANGED <<bitmap, used>>
  BY <1>1 DEF layout, PmmTypeOK, Layout, Counted, Allocatable, BitmapPages, CeilDiv
<1>2. CASE /\ Freeable(addr)
           /\ bitmap' = bitmap \ {addr - base}
           /\ used' = used - 1
  <2> DEFINE f == addr - base
  <2>1. /\ total \in Nat /\ bmap_skip \in Nat /\ used \in Nat
        /\ bitmap \subseteq 0 .. total - 1
    BY DEF PmmTypeOK
  <2>2. f \in Allocatable /\ f \in bitmap
    BY <1>2 DEF Freeable
  <2>3. UNCHANGED <<e820, boot, heap_base, base, total, bmap_skip, heap_pool>>
    BY DEF layout
  <2>4. bitmap' = bitmap \ {f}
    BY <1>2
  <2> HIDE DEF f
  <2>5. Allocatable' = Allocatable
    BY <2>3 DEF Allocatable
  <2>6. /\ Cardinality(Allocatable \cap bitmap) \in Nat
        /\ Cardinality(Allocatable \cap (bitmap \ {f})) \in Nat
        /\ Cardinality(Allocatable \cap (bitmap \ {f}))
             = Cardinality(Allocatable \cap bitmap) - 1
    BY <2>1, <2>2, CountMoves
  <2>7. Counted' /\ used' \in Nat
    <3>1. used = bmap_skip + Cardinality(Allocatable \cap bitmap)
      BY DEF Counted
    <3>2. Cardinality((Allocatable \cap bitmap)') = Cardinality(Allocatable \cap bitmap) - 1
      BY <2>4, <2>5, <2>6
    <3>3. used' = bmap_skip' + Cardinality((Allocatable \cap bitmap)')
      BY <1>2, <2>1, <2>3, <2>6, <3>1, <3>2
    <3>4. Cardinality((Allocatable \cap bitmap)') \in Nat
      BY <2>4, <2>5, <2>6
    <3> QED  BY <2>1, <2>3, <3>3, <3>4 DEF Counted
  <2>8. PmmTypeOK'
    BY <2>1, <2>3, <2>4, <2>7 DEF PmmTypeOK
  <2>9. Layout'
    BY <2>3 DEF Layout, BitmapPages, CeilDiv
  <2> QED  BY <2>7, <2>8, <2>9
<1> QED  BY <1>1, <1>2 DEF pmm_free

-----------------------------------------------------------------------------
(***************************************************************************)
(* The allocator's clients.                                                *)
(***************************************************************************)

AllocatableFrames == {base + f : f \in Allocatable}

\* What the clients have been given are allocatable frames.
Owners ==
  /\ held \in [Clients -> SUBSET AllocatableFrames]
  /\ lost \in [Clients -> SUBSET Frames]
  /\ HeldOnce

ClientsInv == Inv /\ Owners

\* The first client comes after boot.
LEMMA ClientsInvInit == ClientsInit => ClientsInv
<1> SUFFICES ASSUME ClientsInit PROVE ClientsInv
  OBVIOUS
<1>1. Inv
  BY InvInit DEF ClientsInit
<1>2. \A c \in Clients : held[c] = {} /\ lost[c] = {}
  BY DEF ClientsInit
<1>3. Allocatable = {}
  BY DEF ClientsInit, PmmInit, Allocatable
<1>4. HeldOnce
  BY <1>2, <1>3 DEF HeldOnce, Sound, Marked
<1> QED  BY <1>1, <1>4 DEF ClientsInv, Owners, ClientsInit

\* The frames are laid out before any client has one.
LEMMA ClientsInvBooting == ASSUME ClientsInv, Booting PROVE ClientsInv'
<1> USE DEF ClientsInv
<1>1. Inv' /\ UNCHANGED <<held, lost>>
  BY InvBoot DEF Booting
<1>2. CASE UNCHANGED <<base, total, bmap_skip, bitmap>>
  <2>1. Allocatable' = Allocatable /\ Frames' = Frames /\ AllocatableFrames' = AllocatableFrames
    BY <1>2 DEF Allocatable, Frames, AllocatableFrames
  <2>2. HeldOnce'
    BY <1>1, <1>2, <2>1 DEF Owners, HeldOnce, Sound, Marked
  <2> QED  BY <1>1, <2>1, <2>2 DEF Owners
<1>3. CASE pmm_init /\ ~UNCHANGED <<base, total, bmap_skip, bitmap>>
  <2>1. Allocatable = {} /\ Frames = {}
    BY <1>3 DEF pmm_init, Inv, PmmTypeOK, Layout, Allocatable, Frames, NULL
  <2>2. \A c \in Clients : held[c] = {} /\ lost[c] = {}
    BY <2>1 DEF Owners, AllocatableFrames
  <2>3. PICK i \in DOMAIN e820 :
          /\ total' = e820[i].length /\ bmap_skip' = Skip(e820[i].length)
          /\ bitmap' = {f \in 0 .. e820[i].length - 1 : f < Skip(e820[i].length)}
    BY <1>3 DEF pmm_init
  <2>4. total' \in Nat /\ bmap_skip' \in Nat
    BY <1>1 DEF Inv, PmmTypeOK
  <2>5. (Allocatable \cap bitmap)' = {}
    BY <2>3, <2>4 DEF Allocatable
  <2>6. HeldOnce'
    BY <1>1, <2>2, <2>5 DEF HeldOnce, Sound, Marked
  <2> QED  BY <1>1, <2>2, <2>6 DEF Owners
<1> QED  BY <1>2, <1>3 DEF Booting, memory_init, kmalloc_init

\* A frame pmm_alloc returns was nobody's, whatever was freed before.
LEMMA ClientsInvAlloc == ASSUME ClientsInv, NEW c \in Clients, Alloc(c) PROVE ClientsInv'
<1> USE DEF ClientsInv
<1>1. PICK addr \in Frames \cup {NULL} :
        /\ pmm_alloc(addr)
        /\ held' = [held EXCEPT ![c] = @ \cup ({addr} \ {NULL})]
        /\ lost' = [lost EXCEPT ![c] = @ \ {addr}]
  BY DEF Alloc
<1>2. boot = "up" /\ UNCHANGED layout
  BY DEF Alloc
<1>3. Inv'
  BY <1>1, <1>2, InvAlloc
<1>4. Allocatable' = Allocatable /\ Frames' = Frames /\ base' = base
      /\ AllocatableFrames' = AllocatableFrames
  BY <1>2 DEF layout, Allocatable, Frames, AllocatableFrames
<1>5. /\ base \in Nat /\ total \in Nat /\ bmap_skip \in Nat
      /\ held \in [Clients -> SUBSET AllocatableFrames]
      /\ lost \in [Clients -> SUBSET Frames]
  BY DEF Inv, PmmTypeOK, Owners
<1>6. NULL \notin Frames
  BY DEF Inv, Layout, PmmTypeOK, Frames, NULL
<1>7. /\ held'[c] = held[c] \cup ({addr} \ {NULL}) /\ lost'[c] = lost[c] \ {addr}
      /\ \A d \in Clients \ {c} : held'[d] = held[d] /\ lost'[d] = lost[d]
  BY <1>1, <1>5
<1>8. lost' \in [Clients -> SUBSET Frames']
  BY <1>1, <1>4, <1>5
<1>9. CASE addr = NULL /\ UNCHANGED bitmap
  <2>1. \A a \in Frames : Marked(a)' <=> Marked(a)
    BY <1>4, <1>9 DEF Marked
  <2>2. held' = held /\ lost' = lost
    BY <1>1, <1>5, <1>6, <1>9
  <2>3. HeldOnce'
    BY <1>4, <2>1, <2>2 DEF Owners, HeldOnce, Sound
  <2> QED  BY <1>3, <1>4, <1>5, <1>8, <2>2, <2>3 DEF Owners
<1>10. ASSUME NEW f \in Allocatable, FirstClear(f), addr = base + f, bitmap' = bitmap \cup {f}
       PROVE  ClientsInv'
  <2>1. f \in Nat /\ f < total /\ f \notin bitmap
    BY <1>5, <1>10 DEF Allocatable, FirstClear
  <2>2. addr \in Frames /\ addr # NULL /\ addr - base = f
    BY <1>5, <1>6, <1>10, <2>1 DEF Frames
  <2>3. ~Marked(addr) /\ Marked(addr)' /\ \A a \in Frames \ {addr} : Marked(a)' <=> Marked(a)
    <3>1. \A a \in Frames \ {addr} : a - base # f
      BY <1>5, <1>10, <2>1 DEF Frames
    <3> QED  BY <1>4, <1>10, <2>1, <2>2, <3>1 DEF Marked
  <2>4. held' \in [Clients -> SUBSET AllocatableFrames']
    <3>1. addr \in AllocatableFrames
      BY <1>10 DEF AllocatableFrames
    <3> QED  BY <1>1, <1>4, <1>5, <3>1
  <2>5. \A d \in Clients : addr \notin Sound(d)
    BY <2>2, <2>3 DEF Owners, HeldOnce
  <2>6. Sound(c)' = Sound(c) \cup {addr} /\ \A d \in Clients \ {c} : Sound(d)' = Sound(d)
    BY <1>7, <2>2 DEF Sound
  <2>7. ASSUME NEW d \in Clients, NEW e \in Clients, d # e PROVE Sound(d)' \cap Sound(e)' = {}
    <3>1. Sound(d) \cap Sound(e) = {}
      BY <2>7 DEF Owners, HeldOnce
    <3> QED  BY <2>5, <2>6, <2>7, <3>1
  <2>8. UNION {Sound(d)' : d \in Clients} = {a \in Frames : Marked(a)'}
    <3>1. \A a : (\E d \in Clients : a \in Sound(d)) <=> a \in Frames /\ Marked(a)
      BY DEF Owners, HeldOnce
    <3>2. \A a : (\E d \in Clients : a \in Sound(d)') <=> a = addr \/ \E d \in Clients : a \in Sound(d)
      BY <2>6
    <3>3. \A a : (\E d \in Clients : a \in Sound(d)') <=> a \in Frames /\ Marked(a)'
      BY <2>2, <2>3, <3>1, <3>2
    <3> QED  BY <3>3
  <2>9. HeldOnce'
    BY <1>4, <2>7, <2>8 DEF HeldOnce
  <2> QED  BY <1>3, <1>8, <2>4, <2>9 DEF Owners
<1> QED  BY <1>1, <1>9, <1>10 DEF pmm_alloc, Mark

\* A frame pmm_free lets go is no longer anybody's; the others are whose they were.
LEMMA ClientsInvFree == ASSUME ClientsInv, NEW c \in Clients, Free(c) PROVE ClientsInv'
<1> USE DEF ClientsInv
<1>1. PICK addr \in Frames \cup {NULL, base + total} :
        /\ pmm_free(addr)
        /\ held' = [held EXCEPT ![c] = @ \ {addr}]
        /\ lost' = [d \in Clients |->
                      IF d = c THEN lost[d] \ {addr}
                      ELSE lost[d] \cup IF Freeable(addr) THEN held[d] \cap {addr} ELSE {}]
  BY DEF Free
<1>2. boot = "up" /\ UNCHANGED layout
  BY DEF Free
<1>3. Inv'
  BY <1>1, <1>2, InvFree
<1>4. Allocatable' = Allocatable /\ Frames' = Frames /\ base' = base
      /\ AllocatableFrames' = AllocatableFrames
  BY <1>2 DEF layout, Allocatable, Frames, AllocatableFrames
<1>5. /\ base \in Nat /\ total \in Nat /\ bmap_skip \in Nat /\ addr \in Nat
      /\ held \in [Clients -> SUBSET AllocatableFrames]
      /\ lost \in [Clients -> SUBSET Frames]
  BY DEF Inv, PmmTypeOK, Owners, Frames, NULL
<1>6. NULL \notin Frames
  BY DEF Inv, Layout, PmmTypeOK, Frames, NULL
<1>7. \A d \in Clients : held[d] \subseteq Frames
  BY <1>5 DEF AllocatableFrames, Allocatable, Frames
<1>8. held' \in [Clients -> SUBSET AllocatableFrames'] /\ lost' \in [Clients -> SUBSET Frames']
  BY <1>1, <1>4, <1>5, <1>7
<1>9. /\ held'[c] = held[c] \ {addr} /\ lost'[c] = lost[c] \ {addr}
      /\ \A d \in Clients \ {c} :
           /\ held'[d] = held[d]
           /\ lost'[d] = lost[d] \cup IF Freeable(addr) THEN held[d] \cap {addr} ELSE {}
  BY <1>1, <1>5
<1>10. Freeable(addr) <=> addr \in Frames /\ Marked(addr)
  <2>1. addr - base \in Allocatable => addr \in Frames
    BY <1>5 DEF Allocatable, Frames
  <2> QED  BY <1>6, <2>1 DEF Freeable, Marked
<1>11. \A d \in Clients : Sound(d)' = Sound(d) \ {addr}
  <2> SUFFICES ASSUME NEW d \in Clients PROVE Sound(d)' = Sound(d) \ {addr}
    OBVIOUS
  <2>1. CASE d = c
    BY <1>9, <2>1 DEF Sound
  <2>2. CASE d # c /\ Freeable(addr)
    BY <1>9, <2>2 DEF Sound
  <2>3. CASE d # c /\ ~Freeable(addr)
    <3>1. addr \notin Sound(d)
      BY <1>10, <2>3 DEF Owners, HeldOnce
    <3> QED  BY <1>9, <2>3, <3>1 DEF Sound
  <2> QED  BY <2>1, <2>2, <2>3
<1>12. \A a \in Frames : Marked(a)' <=> Marked(a) /\ a # addr
  <2>1. CASE Freeable(addr) /\ bitmap' = bitmap \ {addr - base}
    <3>1. \A a \in Frames : a - base = addr - base <=> a = addr
      BY <1>5 DEF Frames
    <3> QED  BY <1>4, <2>1, <3>1 DEF Marked
  <2>2. CASE ~Freeable(addr) /\ UNCHANGED bitmap
    BY <1>4, <1>10, <2>2 DEF Marked
  <2> QED  BY <1>1, <2>1, <2>2 DEF pmm_free
<1>13. HeldOnce'
  <2>1. ASSUME NEW d \in Clients, NEW e \in Clients, d # e PROVE Sound(d)' \cap Sound(e)' = {}
    <3>1. Sound(d) \cap Sound(e) = {}
      BY <2>1 DEF Owners, HeldOnce
    <3> QED  BY <1>11, <3>1
  <2>2. UNION {Sound(d)' : d \in Clients} = {a \in Frames : Marked(a)'}
    <3>1. \A a : (\E d \in Clients : a \in Sound(d)) <=> a \in Frames /\ Marked(a)
      BY DEF Owners, HeldOnce
    <3>2. \A a : (\E d \in Clients : a \in Sound(d)') <=> a \in Frames /\ Marked(a)'
      BY <1>11, <1>12, <3>1
    <3> QED  BY <3>2
  <2> QED  BY <1>4, <2>1, <2>2 DEF HeldOnce
<1> QED  BY <1>3, <1>8, <1>13 DEF Owners

\* The invariant holds throughout.
LEMMA Invariance == PmmSpec => []ClientsInv
<1>1. ClientsInv /\ [PmmNext]_clientVars => ClientsInv'
  <2> SUFFICES ASSUME ClientsInv, [PmmNext]_clientVars PROVE ClientsInv'
    OBVIOUS
  <2>1. CASE UNCHANGED clientVars
    BY <2>1 DEF clientVars, pmmVars, ClientsInv, Inv, PmmTypeOK, Layout, Counted, Owners,
       HeldOnce, Sound, Marked, AllocatableFrames, Allocatable, Frames
  <2> QED  BY <2>1, ClientsInvBooting, ClientsInvAlloc, ClientsInvFree DEF PmmNext
<1> QED  BY <1>1, ClientsInvInit, PTL DEF PmmSpec

-----------------------------------------------------------------------------
\* The statics of pmm.cpp stay in range: used, which is unsigned, never wraps,
\* however often and with whatever addresses pmm_free is called.
THEOREM TypeCorrect == PmmSpec => []PmmTypeOK
<1>1. ClientsInv => PmmTypeOK
  BY DEF ClientsInv, Inv
<1> QED  BY <1>1, Invariance, PTL

\* pmm_alloc never hands out a frame that is a client's: two clients have one
\* frame only if another client freed it under one of them, whatever addresses
\* pmm_free is called with and in whatever order.
THEOREM HeldOnceHolds == PmmSpec => []HeldOnce
<1>1. ClientsInv => HeldOnce
  BY DEF ClientsInv, Owners
<1> QED  BY <1>1, Invariance, PTL

\* What pmm_free_count reports is the number of frames pmm_alloc can still give.
THEOREM FreeCountExactHolds == PmmSpec => []FreeCountExact
<1>1. ClientsInv => FreeCountExact
  <2> SUFFICES ASSUME Inv, bmap_skip <= total
               PROVE  total - used = Cardinality(Allocatable \ bitmap)
    BY DEF FreeCountExact, pmm_free_count, ClientsInv
  <2>1. total \in Nat /\ bmap_skip \in Nat /\ total - 1 \in Int
    BY DEF Inv, PmmTypeOK
  <2>2. IsFiniteSet(Allocatable) /\ Cardinality(Allocatable) = total - bmap_skip
    <3>1. /\ IsFiniteSet(Allocatable)
          /\ Cardinality(Allocatable)
               = IF bmap_skip > total - 1 THEN 0 ELSE (total - 1) - bmap_skip + 1
      BY <2>1, FS_Interval, bmap_skip \in Int DEF Allocatable
    <3> QED  BY <2>1, <3>1
  <2>3. /\ Cardinality(Allocatable \ bitmap)
             = Cardinality(Allocatable) - Cardinality(Allocatable \cap bitmap)
        /\ Cardinality(Allocatable \cap bitmap) \in Nat
    BY <2>2, FS_Difference, FS_Intersection, FS_CardinalityType
  <2> QED  BY <2>1, <2>2, <2>3 DEF Inv, Counted
<1> QED  BY <1>1, Invariance, PTL

\* No client ever gets a frame the bitmap lies in.
THEOREM BitmapReservedHolds == PmmSpec => []BitmapReserved
<1>1. ClientsInv => BitmapReserved
  <2> SUFFICES ASSUME ClientsInv, NEW c \in Clients, NEW a \in held[c]
               PROVE  a - base >= BitmapPages(total)
    BY DEF BitmapReserved
  <2>1. total \in Nat /\ base \in Nat /\ bmap_skip \in Nat
    BY DEF ClientsInv, Inv, PmmTypeOK
  <2>2. PICK f \in Allocatable : a = base + f
    BY DEF ClientsInv, Owners, AllocatableFrames
  <2>3. BitmapPages(total) \in Nat /\ total # 0 /\ a - base = f
    BY <2>1, <2>2, BitmapPagesNat DEF Allocatable
  <2> QED  BY <2>1, <2>2, <2>3, PmmAssumption DEF ClientsInv, Inv, Layout, Allocatable
<1> QED  BY <1>1, Invariance, PTL

-----------------------------------------------------------------------------
\* memory_init and pmm_init scan the map separately and choose the same region,
\* and kmalloc_init puts the heap into it.
HeapPlaced ==
  /\ boot = "memory" => \A i \in DOMAIN e820 : Best(i) => heap_base = e820[i].base
  /\ boot \in {"pmm", "up"} /\ total # 0 => heap_base = base /\ base >= LOW
  /\ boot = "up" => heap_pool = (IF heap_base < LOW THEN LOW ELSE heap_base) + KMALLOC_PMM_SKIP

\* The scan has one outcome.
LEMMA BestUnique ==
  ASSUME PmmTypeOK, NEW i \in DOMAIN e820, NEW j \in DOMAIN e820, Best(i), Best(j)
  PROVE  i = j
<1>1. e820 \in Seq([base : Nat, length : Nat, type : {1, 2}])
  BY PmmAssumption DEF PmmTypeOK
<1>2. i \in Nat /\ j \in Nat /\ i \in 1 .. Len(e820) /\ j \in 1 .. Len(e820)
  BY <1>1, LenProperties
<1>3. e820[i].length \in Nat /\ e820[j].length \in Nat
  <2>1. e820[i] \in [base : Nat, length : Nat, type : {1, 2}]
        /\ e820[j] \in [base : Nat, length : Nat, type : {1, 2}]
    BY <1>1, <1>2, ElementOfSeq
  <2> QED  BY <2>1
<1>4. ~(i < j) /\ ~(j < i)
  BY <1>2, <1>3 DEF Best
<1> QED  BY <1>2, <1>4

\* Neither initialiser can run again and move its part away.
LEMMA HeapPlacedHolds == PmmSpec => []HeapPlaced
<1>1. PmmInit => HeapPlaced
  BY DEF PmmInit, HeapPlaced
<1>2. ClientsInv /\ HeapPlaced /\ [PmmNext]_clientVars => HeapPlaced'
  <2> SUFFICES ASSUME Inv, HeapPlaced, [PmmNext]_clientVars PROVE HeapPlaced'
    BY DEF ClientsInv
  <2>0. PmmTypeOK
    BY DEF Inv
  <2>1. CASE memory_init
    <3>1. boot' = "memory" /\ e820' = e820
      BY <2>1 DEF memory_init
    <3>2. ASSUME NEW i \in DOMAIN e820, Best(i) PROVE heap_base' = e820[i].base
      <4>1. PICK j \in DOMAIN e820 : Best(j) /\ heap_base' = e820[j].base
        BY <2>1, <3>2 DEF memory_init, NoBest
      <4>2. i = j
        BY <2>0, <3>2, <4>1, BestUnique
      <4> QED  BY <4>1, <4>2
    <3>3. \A i \in DOMAIN e820 : Best(i)' => Best(i)
      BY <3>1 DEF Best, Usable
    <3> QED  BY <3>1, <3>2, <3>3 DEF HeapPlaced
  <2>2. CASE pmm_init
    <3>1. boot = "memory" /\ boot' = "pmm" /\ heap_base' = heap_base
      BY <2>2 DEF pmm_init
    <3>2. ASSUME total' # 0 PROVE heap_base' = base' /\ base' >= LOW
      <4>1. total = 0
        BY <3>1 DEF Inv, Layout
      <4>2. PICK i \in DOMAIN e820 : Best(i) /\ base' = e820[i].base
        BY <2>2, <3>2, <4>1 DEF pmm_init
      <4> QED  BY <3>1, <4>2 DEF HeapPlaced, Best, Usable
    <3> QED  BY <3>1, <3>2 DEF HeapPlaced
  <2>3. CASE kmalloc_init
    BY <2>3 DEF kmalloc_init, HeapPlaced
  <2>4. CASE UNCHANGED clientVars \/ \E c \in Clients : Alloc(c) \/ Free(c)
    <3>1. UNCHANGED layout
      BY <2>4 DEF Alloc, Free, clientVars, pmmVars, layout
    <3> QED  BY <3>1 DEF layout, HeapPlaced, Best, Usable
  <2> QED  BY <2>1, <2>2, <2>3, <2>4 DEF PmmNext, Booting
<1> QED  BY <1>1, <1>2, Invariance, PTL DEF PmmSpec, ClientsInit

\* What kmalloc.cpp takes for granted: its heap, KMALLOC_PMM_SKIP pages into the
\* region, begins after the bitmap and ends within what pmm.cpp reserves.
HeapWithinReserve ==
  /\ BitmapPages(total) <= KMALLOC_PMM_SKIP
  /\ KMALLOC_PMM_SKIP + KMALLOC_PAGES <= BitmapPages(total) + KMALLOC_RESERVED_PAGES

\* On every machine whose bitmap has a size for which the heap lies in the pages
\* reserved for it, no frame of the heap is ever handed out or holds the bitmap;
\* the size is all that the claim in kmalloc.cpp depends on.
THEOREM HeapReservedWhereItFits == PmmSpec => [](HeapWithinReserve => HeapReserved)
<1>1. ASSUME ClientsInv, HeapPlaced, HeapWithinReserve PROVE HeapReserved
  <2> SUFFICES ASSUME boot = "up", NEW a \in heap_pool .. heap_pool + KMALLOC_PAGES - 1,
                      a \in Frames
               PROVE  (\A c \in Clients : a \notin held[c]) /\ a - base >= BitmapPages(total)
    BY DEF HeapReserved
  <2>1. /\ total \in Nat /\ base \in Nat /\ bmap_skip \in Nat /\ heap_pool \in Nat
        /\ LOW \in Nat /\ KMALLOC_PAGES \in Nat /\ KMALLOC_PMM_SKIP \in Nat
        /\ KMALLOC_RESERVED_PAGES \in Nat
    BY <1>1, PmmAssumption DEF ClientsInv, Inv, PmmTypeOK
  <2>2. PICK b \in Nat : b = BitmapPages(total)
    BY <2>1, BitmapPagesNat
  <2>3. total # 0 /\ a \in Int
    BY <2>1 DEF Frames
  <2>4. heap_pool = base + KMALLOC_PMM_SKIP
    BY <1>1, <2>1, <2>3 DEF HeapPlaced
  <2>5. bmap_skip = b + KMALLOC_RESERVED_PAGES
    BY <1>1, <2>2, <2>3 DEF ClientsInv, Inv, Layout
  <2>6. a - base >= b /\ a - base < bmap_skip
    BY <1>1, <2>1, <2>2, <2>3, <2>4, <2>5 DEF HeapWithinReserve
  <2>7. a - base \notin Allocatable
    BY <2>1, <2>3, <2>6 DEF Allocatable
  <2>8. \A c \in Clients : a \notin held[c]
    <3>1. ASSUME NEW f \in Allocatable PROVE a # base + f
      <4>1. f \in Int
        BY <2>1 DEF Allocatable
      <4>2. a = base + f => a - base = f
        BY <2>1, <4>1
      <4> QED  BY <2>7, <4>2
    <3>2. a \notin AllocatableFrames
      BY <3>1 DEF AllocatableFrames
    <3> QED  BY <1>1, <3>2 DEF ClientsInv, Owners
  <2> QED  BY <2>2, <2>6, <2>8
<1> QED  BY <1>1, Invariance, HeapPlacedHolds, PTL

-----------------------------------------------------------------------------
(***************************************************************************)
(* Virtual memory and the shared regions.                                  *)
(***************************************************************************)

Buffer == {Identity(v) : v \in FB_PAGES}

\* The frames in use are those of the mapped pages and of the loader, each once.
FramesOwned ==
  /\ \A u, v \in Virt : pt[u] \in Frames /\ pt[u] = pt[v] => u = v
  /\ \A v \in Virt : pt[v] \notin frames
  /\ \A a \in Frames : Marked(a) <=> a \in frames \/ \E v \in Virt : pt[v] = a

\* Pages are handed out in order.  A page that was has a directory entry and is
\* mapped to a frame or not at all; one that was not is as paging_init left it.
InOrder ==
  \A v \in Virt :
    /\ v >= next_virt => pt[v] = IF v \in FB_PAGES THEN Identity(v) ELSE NULL
    /\ v < next_virt => pt[v] \in Frames \cup {NULL} /\ dir[v \div DIR_PAGES] # "absent"

Memory ==
  /\ Inv
  /\ next_virt \in Virt
  /\ pt \in [Virt -> Frames \cup {NULL} \cup Buffer]
  /\ dir \in [Dirs -> {"absent", "kernel", "user"}]
  /\ frames \subseteq Frames
  /\ FramesOwned /\ InOrder
  /\ boot # "up" => next_virt = 0 /\ frames = {}

\* Each region is a run of pages that were handed out.
RegionsSound ==
  \A r \in Used : /\ regions[r].virt + regions[r].pages <= next_virt
                  /\ regions[r].pages = PagesOf(regions[r].asked)

\* What the call in progress knows of its pages.
CallSound ==
  /\ op # Idle => boot = "up"
  /\ op.kind = "create" =>
       /\ op.done <= op.pages /\ op.pages = PagesOf(op.asked)
       /\ op.done > 0 => op.virt + op.done = next_virt
       /\ op.slot \notin Used /\ Missing(op.name)
       /\ \A v \in InHand : v % DIR_PAGES # 0 => dir[v \div DIR_PAGES] = "user"
  /\ op.kind = "cleanup" =>
       op.done <= op.pages /\ (op.pages > 0 => op.virt + op.pages = next_virt)
  /\ op.kind = "close" =>
       /\ op.done <= op.pages /\ op.slot \in Used
       /\ op.virt = regions[op.slot].virt /\ op.pages = regions[op.slot].pages

\* The mapped pages among those handed out, and who answers for them.
Live == {v \in Virt : v < next_virt /\ pt[v] # NULL}

LiveOwned ==
  /\ Live = ((UNION {PagesOfRegion(r) : r \in Used}) \ Given) \cup InHand \cup kpages
  /\ InHand \cap kpages = {}
  /\ \A r \in Used :
       /\ PagesOfRegion(r) \cap (kpages \cup InHand) = {}
       /\ \A q \in Used \ {r} : PagesOfRegion(r) \cap PagesOfRegion(q) = {}

Ownership ==
  /\ regions \in [Regions -> Region \cup {NoRegion}]
  /\ op \in Ops
  /\ kpages \subseteq Virt
  /\ RegionsSound /\ CallSound /\ LiveOwned
  /\ NameUnique /\ RingThreeReachable

ShmemInv == Memory /\ Ownership

-----------------------------------------------------------------------------
\* A page's directory entry exists, and is that of the page before except at the
\* first page of an entry.
LEMMA DirOf ==
  ASSUME NEW v \in Virt
  PROVE  /\ v \div DIR_PAGES \in Dirs
         /\ v % DIR_PAGES # 0 => v > 0 /\ (v - 1) \div DIR_PAGES = v \div DIR_PAGES
<1>1. DIR_PAGES \in Nat /\ DIR_PAGES > 0 /\ VIRT_PAGES \in Nat /\ VIRT_PAGES > 0
      /\ v \in 0 .. VIRT_PAGES - 1
  BY ShmemAssumption DEF Virt
<1>2. \A x \in Nat : /\ x \div DIR_PAGES \in Nat /\ x % DIR_PAGES \in 0 .. DIR_PAGES - 1
                     /\ x = ((x \div DIR_PAGES) * DIR_PAGES) + (x % DIR_PAGES)
  BY <1>1
<1>3. \A a, b \in Nat : a * DIR_PAGES < (b + 1) * DIR_PAGES => a <= b
  <2> TAKE a, b \in Nat
  <2>1. a >= b + 1 => a * DIR_PAGES >= (b + 1) * DIR_PAGES
    BY <1>1
  <2>2. a * DIR_PAGES \in Nat /\ (b + 1) * DIR_PAGES \in Nat
    BY <1>1
  <2> QED  BY <2>1, <2>2
<1>4. ASSUME NEW x \in Nat, NEW y \in Nat, x <= y PROVE x \div DIR_PAGES <= y \div DIR_PAGES
  <2> DEFINE a == x \div DIR_PAGES
             b == y \div DIR_PAGES
             p == a * DIR_PAGES
             q == b * DIR_PAGES
             l == x % DIR_PAGES
             m == y % DIR_PAGES
  <2>1. /\ a \in Nat /\ b \in Nat /\ l \in 0 .. DIR_PAGES - 1 /\ m \in 0 .. DIR_PAGES - 1
        /\ x = p + l /\ y = q + m
    BY <1>2
  <2> HIDE DEF a, b, l, m
  <2>2. p \in Nat /\ q \in Nat /\ (b + 1) * DIR_PAGES = q + DIR_PAGES
    BY <1>1, <2>1
  <2> HIDE DEF p, q
  <2>3. p < q + DIR_PAGES
    BY <1>1, <1>4, <2>1, <2>2
  <2>4. a <= b
    BY <1>3, <2>1, <2>2, <2>3 DEF p
  <2> QED  BY <2>4 DEF a, b
<1>5. v \div DIR_PAGES \in Dirs
  <2>1. v \div DIR_PAGES <= (VIRT_PAGES - 1) \div DIR_PAGES
    BY <1>1, <1>4
  <2>2. v \div DIR_PAGES \in Nat /\ (VIRT_PAGES - 1) \div DIR_PAGES \in Nat
    BY <1>1, <1>2
  <2> QED  BY <2>1, <2>2 DEF Dirs
<1>6. ASSUME v % DIR_PAGES # 0 PROVE v > 0 /\ (v - 1) \div DIR_PAGES = v \div DIR_PAGES
  <2>1. v > 0
    <3>1. 0 % DIR_PAGES = 0
      BY <1>1
    <3> QED  BY <1>1, <1>6, <3>1
  <2> DEFINE a == (v - 1) \div DIR_PAGES
             b == v \div DIR_PAGES
             p == a * DIR_PAGES
             q == b * DIR_PAGES
             l == (v - 1) % DIR_PAGES
             m == v % DIR_PAGES
  <2>2. v - 1 \in Nat /\ v \in Nat
    BY <1>1, <2>1
  <2>3. /\ a \in Nat /\ b \in Nat /\ l \in 0 .. DIR_PAGES - 1 /\ m \in 1 .. DIR_PAGES - 1
        /\ v - 1 = p + l /\ v = q + m
    BY <1>2, <1>6, <2>2
  <2>4. a <= b
    BY <1>4, <2>2
  <2> HIDE DEF a, b, l, m
  <2>5. p \in Nat /\ q \in Nat /\ (a + 1) * DIR_PAGES = p + DIR_PAGES
    BY <1>1, <2>3
  <2> HIDE DEF p, q
  <2>6. q < p + DIR_PAGES
    BY <1>1, <2>2, <2>3, <2>5
  <2>7. b <= a
    BY <1>3, <2>3, <2>5, <2>6 DEF q
  <2> QED  BY <2>1, <2>3, <2>4, <2>7 DEF a, b
<1> QED  BY <1>5, <1>6

\* No frame has the null address.
LEMMA NullIsNoFrame == ASSUME Inv PROVE NULL \notin Frames
BY DEF Inv, Layout, PmmTypeOK, Frames, NULL

\* The frame buffer is not in memory ...
LEMMA BufferOutside ==
  ASSUME NEW m \in E820Maps, NEW i \in DOMAIN m, m[i].type = 1
  PROVE  Buffer \cap (m[i].base .. m[i].base + m[i].length - 1) = {}
BY FramebufferAssumption DEF Buffer

\* ... so that none of its pages has the address of a frame.
LEMMA BufferIsNoFrame ==
  ASSUME Inv
  PROVE  Buffer \cap Frames = {} /\ NULL \notin Buffer
<1>1. VIRT_PAGES \in Nat /\ FRAMES_4GB \in Nat /\ VIRT_PAGES < FRAMES_4GB
  BY ShmemAssumption, FramebufferAssumption, PmmAssumption
<1>2. e820 \in E820Maps /\ base \in Nat /\ total \in Nat
  BY DEF Inv, PmmTypeOK
<1>3. Buffer \cap Frames = {}
  <2>1. CASE total = 0
    BY <1>2, <2>1 DEF Frames
  <2>2. CASE total # 0
    <3>1. PICK i \in DOMAIN e820 :
            e820[i].type = 1 /\ base = e820[i].base /\ total = e820[i].length
      BY <2>2 DEF Inv, Layout
    <3>2. Buffer \cap (e820[i].base .. e820[i].base + e820[i].length - 1) = {}
      BY <1>2, <3>1, BufferOutside
    <3> QED  BY <3>1, <3>2 DEF Frames
  <2> QED  BY <2>1, <2>2
<1>4. \A v \in FB_PAGES : Identity(v) # NULL
  <2>1. \A v \in FB_PAGES : v \in Nat
    BY <1>1, FramebufferAssumption
  <2> QED  BY <1>1, <2>1 DEF Identity, NULL
<1> QED  BY <1>3, <1>4 DEF Buffer

\* pmm_alloc hands out a frame nobody had, and no other changes.
LEMMA OneAlloc ==
  ASSUME Inv, boot = "up", UNCHANGED layout, NEW addr \in Frames, pmm_alloc(addr), addr # NULL
  PROVE  /\ Inv' /\ Frames' = Frames
         /\ ~Marked(addr) /\ Marked(addr)'
         /\ \A a \in Frames \ {addr} : (Marked(a)' <=> Marked(a))
<1>1. Inv'
  BY InvAlloc
<1>2. Frames' = Frames /\ Allocatable' = Allocatable /\ base' = base
  BY DEF layout, Frames, Allocatable
<1>3. PICK f \in Allocatable : FirstClear(f) /\ addr = base + f /\ bitmap' = bitmap \cup {f}
  BY DEF pmm_alloc, Mark
<1>4. base \in Nat /\ total \in Nat /\ f \in Int
  BY DEF Inv, PmmTypeOK, Allocatable
<1>5. addr - base = f /\ f \notin bitmap /\ \A a \in Frames \ {addr} : a - base # f
  BY <1>3, <1>4 DEF FirstClear, Frames
<1> QED  BY <1>1, <1>2, <1>3, <1>5 DEF Marked

\* pmm_free of a frame somebody has: it is nobody's, and no other changes.
LEMMA OneFree ==
  ASSUME Inv, boot = "up", UNCHANGED layout, NEW addr \in Frames, Marked(addr), pmm_free(addr)
  PROVE  /\ Inv' /\ Frames' = Frames
         /\ ~Marked(addr)'
         /\ \A a \in Frames \ {addr} : (Marked(a)' <=> Marked(a))
<1>1. Inv'
  BY InvFree
<1>2. Frames' = Frames /\ Allocatable' = Allocatable /\ base' = base
  BY DEF layout, Frames, Allocatable
<1>3. Freeable(addr)
  BY NullIsNoFrame DEF Freeable, Marked
<1>4. bitmap' = bitmap \ {addr - base}
  BY <1>3 DEF pmm_free
<1>5. \A a \in Frames \ {addr} : a - base # addr - base
  BY DEF Frames, Inv, PmmTypeOK
<1> QED  BY <1>1, <1>2, <1>4, <1>5 DEF Marked

-----------------------------------------------------------------------------
\* vmm_alloc maps a frame nobody had at the next page; with PAGE_USER the page is
\* within reach of ring 3 unless it is the first of its directory entry.
LEMMA MapStep ==
  ASSUME Memory, boot = "up", NEW v \in Virt, NEW user \in BOOLEAN, vmm_alloc(v, user),
         UNCHANGED <<layout, frames>>
  PROVE  /\ Memory' /\ boot' = "up"
         /\ v = next_virt /\ next_virt' = v + 1 /\ v \notin Live /\ Live' = Live \cup {v}
         /\ \A u \in Virt \ {v} : pt'[u] = pt[u]
         /\ \A d \in Dirs : dir[d] = "user" => dir'[d] = "user"
         /\ user /\ v % DIR_PAGES # 0 => dir'[v \div DIR_PAGES] = "user"
<1> USE DEF Memory
<1>1. PICK addr \in Frames : pmm_alloc(addr) /\ addr # NULL /\ paging_map(v, addr, user)
  BY DEF vmm_alloc
<1>2. v = next_virt /\ next_virt' = next_virt + 1 /\ next_virt # VIRT_PAGES - 1
  BY DEF vmm_alloc, Chosen, Exhausted
<1>3. pt' = [pt EXCEPT ![v] = addr] /\ dir' = DirAfterMap(v, user)
  BY <1>1 DEF paging_map
<1>4. /\ Inv' /\ Frames' = Frames /\ ~Marked(addr) /\ Marked(addr)'
      /\ \A a \in Frames \ {addr} : (Marked(a)' <=> Marked(a))
  BY <1>1, OneAlloc
<1>5. VIRT_PAGES \in Nat /\ next_virt \in Nat /\ next_virt' \in Virt
  BY <1>2, ShmemAssumption DEF Virt
<1>6. pt'[v] = addr /\ pt'[v] # NULL /\ \A u \in Virt \ {v} : pt'[u] = pt[u]
  BY <1>1, <1>3
<1>7. pt[v] \notin Frames
  <2>1. v >= next_virt
    BY <1>2, <1>5
  <2> QED  BY <2>1, BufferIsNoFrame, NullIsNoFrame DEF InOrder, Buffer
<1>8. pt' \in [Virt -> Frames' \cup {NULL} \cup Buffer'] /\ frames' \subseteq Frames'
  BY <1>1, <1>3, <1>4 DEF Buffer, Identity
<1>9. addr \notin frames /\ \A u \in Virt : pt[u] # addr
  BY <1>1, <1>4 DEF FramesOwned
<1>10. FramesOwned'
  <2>1. \A u, w \in Virt : pt'[u] \in Frames /\ pt'[u] = pt'[w] => u = w
    BY <1>6, <1>9 DEF FramesOwned
  <2>2. \A u \in Virt : pt'[u] \notin frames
    BY <1>6, <1>9 DEF FramesOwned
  <2>3. ASSUME NEW a \in Frames
        PROVE  Marked(a)' <=> a \in frames \/ \E u \in Virt : pt'[u] = a
    <3>1. CASE a = addr
      BY <1>4, <1>6, <3>1
    <3>2. CASE a # addr
      <4>1. (Marked(a)' <=> Marked(a))
        BY <1>4, <3>2
      <4>2. (\E u \in Virt : pt'[u] = a) <=> (\E u \in Virt : pt[u] = a)
        BY <1>6, <1>7, <3>2
      <4> QED  BY <4>1, <4>2 DEF FramesOwned
    <3> QED  BY <3>1, <3>2
  <2> QED  BY <1>4, <2>1, <2>2, <2>3 DEF FramesOwned
<1> DEFINE e == v \div DIR_PAGES
<1>11. e \in Dirs /\ \A u \in Virt : u \div DIR_PAGES \in Dirs
  BY DirOf
<1> HIDE DEF e
<1>12. /\ dir' \in [Dirs -> {"absent", "kernel", "user"}]
       /\ \A d \in Dirs : dir[d] # "absent" => dir'[d] # "absent"
       /\ \A d \in Dirs : dir[d] = "user" => dir'[d] = "user"
       /\ dir'[e] # "absent"
       /\ user /\ dir[e] # "absent" => dir'[e] = "user"
  <2>1. dir' = [dir EXCEPT ![e] = CASE @ = "absent"         -> "kernel"
                                    [] @ = "kernel" /\ user -> "user"
                                    [] OTHER                -> @]
    BY <1>3 DEF DirAfterMap, e
  <2>2. dir[e] \in {"absent", "kernel", "user"}
    BY <1>11
  <2>3. PICK x : dir' = [dir EXCEPT ![e] = x] /\ x = CASE dir[e] = "absent"         -> "kernel"
                                                      [] dir[e] = "kernel" /\ user -> "user"
                                                      [] OTHER                     -> dir[e]
    BY <2>1
  <2>4. /\ x \in {"kernel", "user"} /\ (dir[e] = "user" => x = "user")
        /\ user /\ dir[e] # "absent" => x = "user"
    BY <2>2, <2>3
  <2>5. dir' = [dir EXCEPT ![e] = x]
    BY <2>3
  <2> QED  BY <1>11, <2>4, <2>5
<1>13. InOrder'
  <2> SUFFICES ASSUME NEW u \in Virt
               PROVE  /\ u >= next_virt' => pt'[u] = IF u \in FB_PAGES THEN Identity(u) ELSE NULL
                      /\ u < next_virt' => pt'[u] \in Frames \cup {NULL}
                      /\ u < next_virt' => dir'[u \div DIR_PAGES] # "absent"
    BY <1>4 DEF InOrder, Identity
  <2>1. u \in Nat
    BY <1>5 DEF Virt
  <2>2. ASSUME u >= next_virt' PROVE pt'[u] = IF u \in FB_PAGES THEN Identity(u) ELSE NULL
    BY <1>2, <1>5, <1>6, <2>1, <2>2 DEF InOrder
  <2>4. ASSUME u < next_virt' PROVE pt'[u] \in Frames \cup {NULL}
    <3>1. u = v \/ u < next_virt
      BY <1>2, <1>5, <2>1, <2>4
    <3> QED  BY <1>1, <1>6, <3>1 DEF InOrder
  <2>3. ASSUME u < next_virt' PROVE dir'[u \div DIR_PAGES] # "absent"
    <3>1. u = v \/ u < next_virt
      BY <1>2, <1>5, <2>1, <2>3
    <3>2. u < next_virt => dir[u \div DIR_PAGES] # "absent"
      BY DEF InOrder
    <3> QED  BY <1>11, <1>12, <3>1, <3>2 DEF e
  <2> QED  BY <2>2, <2>3, <2>4
<1>14. ASSUME user, v % DIR_PAGES # 0 PROVE dir'[v \div DIR_PAGES] = "user"
  <2>1. v > 0 /\ (v - 1) \div DIR_PAGES = v \div DIR_PAGES
    BY <1>14, DirOf
  <2>2. v - 1 \in Virt /\ v - 1 < next_virt
    BY <1>2, <1>5, <2>1 DEF Virt
  <2>3. dir[e] # "absent"
    BY <2>1, <2>2 DEF InOrder, e
  <2> QED  BY <1>12, <1>14, <2>3 DEF e
<1>15. Live' = Live \cup {v} /\ v \notin Live
  <2>1. \A u \in Virt : u < next_virt' <=> u < next_virt \/ u = v
    BY <1>2, <1>5 DEF Virt
  <2>2. ~(v < next_virt)
    BY <1>2, <1>5
  <2> QED  BY <1>6, <2>1, <2>2 DEF Live
<1>16. boot' = "up"
  BY DEF layout
<1> QED  BY <1>2, <1>4, <1>5, <1>6, <1>8, <1>10, <1>12, <1>13, <1>14, <1>15, <1>16

\* vmm_free of a mapped page gives its frame back, whoever asks.
LEMMA UnmapStep ==
  ASSUME Memory, boot = "up", NEW v \in Live, vmm_free(v), UNCHANGED <<layout, next_virt, frames>>
  PROVE  /\ Memory' /\ boot' = "up" /\ dir' = dir
         /\ Live' = Live \ {v} /\ \A u \in Virt \ {v} : pt'[u] = pt[u]
<1> USE DEF Memory
<1>0. PICK addr : addr = pt[v]
  OBVIOUS
<1>1. v \in Virt /\ addr # NULL /\ v < next_virt
  BY <1>0 DEF Live
<1>2. addr \in Frames
  BY <1>0, <1>1 DEF InOrder
<1>3. paging_get_physical(v) = addr
  BY <1>0, <1>1, <1>2 DEF paging_get_physical, InOrder, Live
<1>4. paging_unmap(v) /\ pmm_free(addr)
  BY <1>1, <1>3 DEF vmm_free
<1>5. pt' = [pt EXCEPT ![v] = NULL] /\ dir' = dir
  BY <1>4 DEF paging_unmap
<1>6. Marked(addr)
  BY <1>0, <1>1, <1>2 DEF FramesOwned
<1>7. /\ Inv' /\ Frames' = Frames /\ ~Marked(addr)'
      /\ \A a \in Frames \ {addr} : (Marked(a)' <=> Marked(a))
  BY <1>2, <1>4, <1>6, OneFree
<1>8. pt'[v] = NULL /\ \A u \in Virt \ {v} : pt'[u] = pt[u]
  BY <1>1, <1>5
<1>9. pt' \in [Virt -> Frames' \cup {NULL} \cup Buffer']
  BY <1>1, <1>5, <1>7 DEF Buffer, Identity
<1>10. NULL \notin Frames
  BY NullIsNoFrame
<1>11. FramesOwned'
  <2>1. \A u, w \in Virt : pt'[u] \in Frames /\ pt'[u] = pt'[w] => u = w
    BY <1>8, <1>10 DEF FramesOwned
  <2>2. \A u \in Virt : pt'[u] \notin frames
    BY <1>8, <1>10 DEF FramesOwned
  <2>3. ASSUME NEW a \in Frames
        PROVE  Marked(a)' <=> a \in frames \/ \E u \in Virt : pt'[u] = a
    <3>1. CASE a = addr
      <4>1. a \notin frames /\ \A u \in Virt : pt'[u] # a
        BY <1>0, <1>1, <1>2, <1>8, <1>10, <3>1 DEF FramesOwned
      <4> QED  BY <1>7, <3>1, <4>1
    <3>2. CASE a # addr
      <4>1. (Marked(a)' <=> Marked(a))
        BY <1>7, <3>2
      <4>2. (\E u \in Virt : pt'[u] = a) <=> (\E u \in Virt : pt[u] = a)
        BY <1>0, <1>8, <1>10, <3>2
      <4> QED  BY <4>1, <4>2 DEF FramesOwned
    <3> QED  BY <3>1, <3>2
  <2> QED  BY <1>7, <2>1, <2>2, <2>3 DEF FramesOwned
<1>12. InOrder'
  <2> SUFFICES ASSUME NEW u \in Virt
               PROVE  /\ u >= next_virt => pt'[u] = IF u \in FB_PAGES THEN Identity(u) ELSE NULL
                      /\ u < next_virt => pt'[u] \in Frames \cup {NULL} /\ dir[u \div DIR_PAGES] # "absent"
    BY <1>5, <1>7 DEF InOrder, Identity
  <2>1. u = v => u < next_virt /\ ~(u >= next_virt)
    BY <1>1, ShmemAssumption DEF Virt
  <2> QED  BY <1>8, <2>1 DEF InOrder
<1>13. Live' = Live \ {v}
  BY <1>8 DEF Live
<1>14. boot' = "up"
  BY DEF layout
<1> QED  BY <1>5, <1>7, <1>8, <1>9, <1>11, <1>12, <1>13, <1>14

\* The ELF loader's frames: no page is touched.
LEMMA LoaderStep ==
  ASSUME Memory, boot = "up", UNCHANGED <<layout, next_virt, pt, dir>>,
         \/ \E addr \in Frames : pmm_alloc(addr) /\ addr # NULL /\ frames' = frames \cup {addr}
         \/ \E addr \in frames : pmm_free(addr) /\ frames' = frames \ {addr}
  PROVE  Memory'
<1> USE DEF Memory
<1>1. NULL \notin Frames
  BY NullIsNoFrame
<1>2. InOrder' /\ boot' = "up" /\ Buffer' = Buffer
  BY DEF InOrder, layout, Frames, Buffer, Identity
<1>3. ASSUME NEW addr \in Frames, pmm_alloc(addr), addr # NULL, frames' = frames \cup {addr}
      PROVE  Memory'
  <2>1. /\ Inv' /\ Frames' = Frames /\ ~Marked(addr) /\ Marked(addr)'
        /\ \A a \in Frames \ {addr} : (Marked(a)' <=> Marked(a))
    BY <1>3, OneAlloc
  <2>2. addr \notin frames /\ \A u \in Virt : pt[u] # addr
    BY <2>1 DEF FramesOwned
  <2>3. FramesOwned'
    BY <1>3, <2>1, <2>2 DEF FramesOwned
  <2> QED  BY <1>2, <1>3, <2>1, <2>3
<1>4. ASSUME NEW addr \in frames, pmm_free(addr), frames' = frames \ {addr}
      PROVE  Memory'
  <2>1. addr \in Frames /\ Marked(addr) /\ \A u \in Virt : pt[u] # addr
    BY DEF FramesOwned
  <2>2. /\ Inv' /\ Frames' = Frames /\ ~Marked(addr)'
        /\ \A a \in Frames \ {addr} : (Marked(a)' <=> Marked(a))
    BY <1>4, <2>1, OneFree
  <2>3. FramesOwned'
    BY <1>4, <2>1, <2>2 DEF FramesOwned
  <2> QED  BY <1>2, <1>4, <2>2, <2>3
<1> QED  BY <1>3, <1>4

\* The statics of vmm.cpp and shmem.cpp: no page is handed out and no call runs.
LEMMA ShmemInvInit == Init => ShmemInv
<1> SUFFICES ASSUME Init PROVE ShmemInv
  OBVIOUS
<1> USE DEF Init
<1>1. VIRT_PAGES \in Nat \ {0}
  BY ShmemAssumption
<1>2. Inv /\ boot = "none" /\ Frames = {}
  BY InvInit DEF PmmInit, Frames, NULL
<1>3. /\ next_virt = 0 /\ next_virt \in Virt
      /\ \A v \in Virt : v \in Nat /\ pt[v] = IF v \in FB_PAGES THEN Identity(v) ELSE NULL
  BY <1>1 DEF Virt
<1>4. FramesOwned
  BY <1>2, <1>3 DEF FramesOwned
<1>5. InOrder
  BY <1>3 DEF InOrder
<1>6. Memory
  <2>1. pt \in [Virt -> Frames \cup {NULL} \cup Buffer]
    BY <1>3 DEF Buffer
  <2>2. dir \in [Dirs -> {"absent", "kernel", "user"}]
    OBVIOUS
  <2> QED  BY <1>2, <1>3, <1>4, <1>5, <2>1, <2>2 DEF Memory
<1>7. Used = {} /\ Live = {}
  <2>1. \A v \in Virt : ~(v < next_virt)
    BY <1>3
  <2>2. Used = {}
    BY DEF Used, NoRegion
  <2> QED  BY <2>1, <2>2 DEF Live
<1>8. op.kind = "idle" /\ InHand = {} /\ Given = {} /\ op \in Ops
  BY DEF Idle, InHand, Given, Ops
<1>9. LiveOwned
  BY <1>7, <1>8 DEF LiveOwned
<1>10. RegionsSound /\ CallSound /\ NameUnique /\ RingThreeReachable
  BY <1>7, <1>8 DEF RegionsSound, CallSound, NameUnique, RingThreeReachable
<1> QED  BY <1>6, <1>8, <1>9, <1>10 DEF ShmemInv, Ownership

\* The initialisers run before any page is handed out: pmm_init may choose the frames
\* afresh.
LEMMA BootStep == ASSUME ShmemInv, Boot PROVE ShmemInv'
<1>1. UNCHANGED vmVars /\ (memory_init \/ pmm_init \/ kmalloc_init)
  BY DEF Boot
<1>2. Inv'
  BY <1>1, InvBoot DEF ShmemInv, Memory
<1>7. NULL \notin Frames'
  <2>1. /\ total' \in Nat /\ base' \in Nat
        /\ total' # 0 => base' # 0
    BY <1>2 DEF Inv, Layout, PmmTypeOK, NULL
  <2>2. ASSUME NEW t \in Nat, NEW b \in Nat, t # 0 => b # 0 PROVE 0 \notin b .. b + t - 1
    BY <2>2
  <2> QED  BY <2>1, <2>2 DEF Frames, NULL
<1> USE DEF ShmemInv, Memory
<1>3. boot # "up" /\ next_virt = 0 /\ frames = {} /\ op = Idle
  BY <1>1 DEF memory_init, pmm_init, kmalloc_init, Ownership, CallSound
<1>4. \A v \in Virt : v >= 0 /\ pt[v] = IF v \in FB_PAGES THEN Identity(v) ELSE NULL
  BY <1>3, ShmemAssumption DEF InOrder, Virt
<1>5. \A v \in Virt : pt[v] \notin Frames /\ pt[v] \notin Frames'
  <2>1. Buffer \cap Frames' = {}
    <3>1. CASE UNCHANGED <<base, total>>
      BY <3>1, BufferIsNoFrame DEF Frames
    <3>2. CASE pmm_init /\ ~UNCHANGED <<base, total>>
      <4>1. PICK i \in DOMAIN e820 :
              e820[i].type = 1 /\ base' = e820[i].base /\ total' = e820[i].length
        BY <3>2 DEF pmm_init, Best, Usable
      <4>2. Buffer \cap (e820[i].base .. e820[i].base + e820[i].length - 1) = {}
        BY <4>1, BufferOutside DEF Inv, PmmTypeOK
      <4> QED  BY <4>1, <4>2 DEF Frames
    <3> QED  BY <1>1, <3>1, <3>2 DEF memory_init, kmalloc_init
  <2> QED  BY <1>4, <1>7, <2>1, BufferIsNoFrame, NullIsNoFrame DEF Buffer
<1>6. \A a \in Frames' : ~Marked(a)'
  <2>1. CASE UNCHANGED <<base, total, bmap_skip, bitmap>>
    <3>1. \A a \in Frames : ~Marked(a)
      BY <1>3, <1>5 DEF FramesOwned
    <3> QED  BY <2>1, <3>1 DEF Frames, Marked, Allocatable
  <2>2. CASE pmm_init /\ ~UNCHANGED <<base, total, bmap_skip, bitmap>>
    <3>1. PICK i \in DOMAIN e820 :
            /\ total' = e820[i].length /\ bmap_skip' = Skip(e820[i].length)
            /\ bitmap' = {f \in 0 .. e820[i].length - 1 : f < Skip(e820[i].length)}
      BY <2>2 DEF pmm_init
    <3>2. total' \in Nat /\ bmap_skip' \in Nat
      BY <1>2 DEF Inv, PmmTypeOK
    <3>3. (Allocatable \cap bitmap)' = {}
      BY <3>1, <3>2 DEF Allocatable
    <3> QED  BY <3>3 DEF Marked
  <2> QED  BY <1>1, <2>1, <2>2 DEF memory_init, kmalloc_init
<1>8. FramesOwned'
  BY <1>1, <1>3, <1>5, <1>6 DEF FramesOwned, vmVars
<1>9. pt' \in [Virt -> Frames' \cup {NULL} \cup Buffer']
  BY <1>1, <1>4 DEF vmVars, Buffer, Identity
<1>12. InOrder'
  <2>1. \A v \in Virt : v >= next_virt' /\ ~(v < next_virt')
    BY <1>1, <1>3, ShmemAssumption DEF vmVars, Virt
  <2> QED  BY <1>1, <1>4, <2>1 DEF vmVars, InOrder, Identity
<1>10. Memory'
  BY <1>1, <1>2, <1>3, <1>8, <1>9, <1>12 DEF vmVars
<1>11. Ownership'
  BY <1>1, <1>3 DEF vmVars, Ownership, RegionsSound, CallSound, LiveOwned, NameUnique,
     RingThreeReachable, Used, Live, Missing, InHand, Given, PagesOfRegion, Idle
<1> QED  BY <1>10, <1>11

-----------------------------------------------------------------------------
\* The number of pages of a region: at least one, and enough for the size unless
\* the rounding up wraps.
LEMMA PagesOfCovers ==
  ASSUME NEW size \in Sizes
  PROVE  /\ PagesOf(size) \in Nat /\ PagesOf(size) > 0
         /\ size + PAGE_SIZE <= WORD => size <= PagesOf(size) * PAGE_SIZE
<1>1. /\ PAGE_SIZE \in Nat /\ PAGE_SIZE > 0 /\ WORD \in Nat /\ WORD > 0
      /\ size \in Nat
  BY ShmemAssumption
<1> DEFINE w == (size + PAGE_SIZE - 1) % WORD
           p == w \div PAGE_SIZE
           m == w % PAGE_SIZE
           q == p * PAGE_SIZE
<1>2. \A x \in Nat : x % WORD \in Nat /\ (x < WORD => x % WORD = x)
  BY <1>1
<1>3. size + PAGE_SIZE - 1 \in Nat
  BY <1>1
<1>4. w \in Nat /\ (size + PAGE_SIZE - 1 < WORD => w = size + PAGE_SIZE - 1)
  BY <1>2, <1>3
<1> HIDE DEF w
<1>5. p \in Nat /\ m \in 0 .. PAGE_SIZE - 1 /\ w = q + m
  BY <1>1, <1>4
<1> HIDE DEF p, m
<1>6. q \in Nat
  BY <1>1, <1>5
<1>7. PagesOf(size) = IF p = 0 THEN 1 ELSE p
  BY DEF PagesOf, p, w
<1>8. p = 0 => q = 0
  BY <1>1
<1>9. PagesOf(size) \in Nat /\ PagesOf(size) > 0
  BY <1>5, <1>7
<1>10. PagesOf(size) * PAGE_SIZE = IF p = 0 THEN PAGE_SIZE ELSE q
  BY <1>1, <1>7
<1> HIDE DEF q
<1>11. ASSUME size + PAGE_SIZE <= WORD PROVE size <= q
  <2>1. w = size + PAGE_SIZE - 1
    BY <1>1, <1>4, <1>11
  <2> QED  BY <1>1, <1>5, <1>6, <2>1
<1> QED  BY <1>1, <1>6, <1>8, <1>9, <1>10, <1>11

\* The pages of a region were handed out.
LEMMA RegionPages ==
  ASSUME ShmemInv, NEW r \in Used
  PROVE  /\ r \in Regions /\ regions[r] \in Region
         /\ regions[r].name \in Names /\ regions[r].asked \in Sizes
         /\ regions[r].virt \in Virt /\ regions[r].pages \in Nat
         /\ \A v \in PagesOfRegion(r) : v \in Virt /\ v < next_virt
         /\ \A v \in Virt : v \in PagesOfRegion(r) <=>
                              v >= regions[r].virt /\ v < regions[r].virt + regions[r].pages
<1> USE DEF ShmemInv, Ownership
<1>1. r \in Regions /\ regions[r].used /\ regions[r] \in Region \cup {NoRegion}
  BY DEF Used
<1>2. regions[r] \in Region
  BY <1>1 DEF NoRegion
<1>3. /\ regions[r].name \in Names /\ regions[r].asked \in Sizes
      /\ regions[r].virt \in Virt /\ regions[r].pages \in Nat
  BY <1>2 DEF Region
<1>4. VIRT_PAGES \in Nat /\ next_virt \in Virt
  BY ShmemAssumption DEF Memory
<1>5. regions[r].virt + regions[r].pages <= next_virt
  BY DEF RegionsSound
<1>6. \A v \in PagesOfRegion(r) : v \in Virt /\ v < next_virt
  BY <1>3, <1>4, <1>5 DEF PagesOfRegion, Virt
<1>7. \A v \in Virt : v \in PagesOfRegion(r) <=>
                        v >= regions[r].virt /\ v < regions[r].virt + regions[r].pages
  BY <1>3, <1>4 DEF PagesOfRegion, Virt
<1> QED  BY <1>1, <1>2, <1>3, <1>6, <1>7

\* LiveOwned, page by page.
LEMMA Pagewise ==
  ASSUME LiveOwned
  PROVE  \A v : v \in Live <=> \/ (\E r \in Used : v \in PagesOfRegion(r)) /\ v \notin Given
                               \/ v \in InHand \/ v \in kpages
<1>1. Live = ((UNION {PagesOfRegion(r) : r \in Used}) \ Given) \cup InHand \cup kpages
  BY DEF LiveOwned
<1> QED  BY <1>1, Zenon

\* What a step that leaves the table of regions alone keeps of it.
LEMMA RegionsKept ==
  ASSUME ShmemInv, UNCHANGED regions, next_virt' \in Virt, next_virt' >= next_virt,
         \A d \in Dirs : dir[d] = "user" => dir'[d] = "user"
  PROVE  /\ regions' \in [Regions -> Region \cup {NoRegion}]
         /\ RegionsSound' /\ NameUnique' /\ RingThreeReachable'
         /\ Used' = Used /\ \A r \in Used : PagesOfRegion(r)' = PagesOfRegion(r)
         /\ \A name \in Names : Missing(name) => Missing(name)'
<1> USE DEF ShmemInv, Ownership
<1>1. Used' = Used /\ \A r \in Used : PagesOfRegion(r)' = PagesOfRegion(r)
  BY DEF Used, PagesOfRegion
<1>2. RegionsSound'
  <2> SUFFICES ASSUME NEW r \in Used
               PROVE  /\ regions[r].virt + regions[r].pages <= next_virt'
                      /\ regions[r].pages = PagesOf(regions[r].asked)
    BY <1>1 DEF RegionsSound, PagesOf
  <2>1. /\ regions[r].virt + regions[r].pages <= next_virt
        /\ regions[r].pages = PagesOf(regions[r].asked)
    BY DEF RegionsSound
  <2>2. regions[r].virt \in Int /\ regions[r].pages \in Int /\ next_virt \in Int /\ next_virt' \in Int
    BY RegionPages, ShmemAssumption DEF Virt, Memory
  <2> QED  BY <2>1, <2>2
<1>3. NameUnique'
  BY <1>1 DEF NameUnique
<1>4. RingThreeReachable'
  <2> SUFFICES ASSUME NEW r \in Used, NEW v \in PagesOfRegion(r), v % DIR_PAGES # 0
               PROVE  dir'[v \div DIR_PAGES] = "user"
    BY <1>1 DEF RingThreeReachable
  <2>1. v \div DIR_PAGES \in Dirs
    BY RegionPages, DirOf
  <2>2. dir[v \div DIR_PAGES] = "user"
    BY DEF RingThreeReachable
  <2> QED  BY <2>1, <2>2
<1>5. \A name \in Names : Missing(name) => Missing(name)'
  BY <1>1 DEF Missing
<1> QED  BY <1>1, <1>2, <1>3, <1>4, <1>5

\* The fields of the call in progress.
LEMMA OpFields ==
  ASSUME op \in Ops
  PROVE  /\ op.kind = "create" => /\ op.slot \in Regions /\ op.name \in Names /\ op.asked \in Sizes
                                  /\ op.pages \in Nat /\ op.virt \in Virt /\ op.done \in Nat
         /\ op.kind = "cleanup" => op.pages \in Nat /\ op.virt \in Virt /\ op.done \in Nat
         /\ op.kind = "close" => /\ op.slot \in Regions
                                 /\ op.pages \in Nat /\ op.virt \in Virt /\ op.done \in Nat
         /\ op.kind \in {"create", "cleanup", "close"} => op # Idle
         /\ op.kind = "idle" <=> op = Idle
         /\ op.kind \in {"idle", "create", "cleanup", "close"}
<1>1. Idle.kind = "idle"
  BY DEF Idle
<1> QED  BY <1>1 DEF Ops

\* The pages between two calls: the regions' and kernel code's.
LEMMA BetweenCalls ==
  ASSUME ShmemInv, op = Idle
  PROVE  InHand = {} /\ Given = {}
BY DEF Idle, InHand, Given

\* A step that touches neither the frames nor the page tables keeps Memory.
LEMMA MemoryKept ==
  ASSUME Memory, UNCHANGED <<pmmVars, next_virt, pt, dir, frames>>
  PROVE  /\ Memory' /\ boot' = boot /\ Live' = Live
         /\ next_virt' \in Virt /\ next_virt' >= next_virt
         /\ \A d \in Dirs : dir[d] = "user" => dir'[d] = "user"
<1>1. Memory' /\ boot' = boot /\ Live' = Live
  BY DEF Memory, pmmVars, Inv, PmmTypeOK, Layout, Counted, BitmapPages, CeilDiv,
     FramesOwned, InOrder, Marked, Buffer, Identity, Frames, Allocatable, Live
<1>2. next_virt' \in Virt /\ next_virt' >= next_virt
  BY ShmemAssumption DEF Memory, Virt
<1> QED  BY <1>1, <1>2

\* shmem_create's checks: the slot is free and no region has the name.
LEMMA CreateStep ==
  ASSUME ShmemInv, NEW name \in Names, NEW size \in Sizes, shmem_create(name, size)
  PROVE  ShmemInv'
<1> USE DEF ShmemInv, Ownership
<1>1. boot = "up" /\ op = Idle /\ Missing(name)
  BY DEF shmem_create, Ready
<1>2. PICK r \in Regions :
        /\ FreeSlot(r)
        /\ op' = [kind |-> "create", slot |-> r, name |-> name, asked |-> size,
                  pages |-> PagesOf(size), virt |-> 0, done |-> 0]
  BY DEF shmem_create
<1>3. UNCHANGED <<pmmVars, next_virt, pt, dir, regions, kpages, frames>>
  BY DEF shmem_create
<1>4. Memory' /\ boot' = boot /\ Live' = Live
  BY <1>3, MemoryKept
<1>5. next_virt' \in Virt /\ next_virt' >= next_virt /\ \A d \in Dirs : dir[d] = "user" => dir'[d] = "user"
  BY <1>3, MemoryKept
<1>6. /\ regions' \in [Regions -> Region \cup {NoRegion}]
      /\ RegionsSound' /\ NameUnique' /\ RingThreeReachable'
      /\ Used' = Used /\ \A q \in Used : PagesOfRegion(q)' = PagesOfRegion(q)
      /\ Missing(name)'
  BY <1>1, <1>3, <1>5, RegionsKept
<1>7. PagesOf(size) \in Nat /\ 0 \in Virt
  BY PagesOfCovers, ShmemAssumption DEF Virt
<1>8. op' \in Ops
  BY <1>2, <1>7 DEF Ops
<1>9. InHand' = {} /\ Given' = {}
  BY <1>2 DEF InHand, Given
<1>10. CallSound'
  <2>1. r \notin Used' /\ boot' = "up"
    BY <1>1, <1>2, <1>4, <1>6 DEF FreeSlot
  <2>2. op'.kind = "create" /\ op'.slot = r /\ op'.name = name /\ op'.done = 0
        /\ op'.pages = PagesOf(op'.asked)
    BY <1>2
  <2>3. op'.done <= op'.pages
    BY <1>2, <1>7
  <2> QED  BY <1>6, <1>9, <2>1, <2>2, <2>3 DEF CallSound, Missing, PagesOf
<1>11. LiveOwned'
  <2>1. Live' = Live /\ kpages' = kpages
    BY <1>3, <1>4
  <2>2. InHand = {} /\ Given = {}
    BY <1>1, BetweenCalls
  <2> QED  BY <1>6, <1>9, <2>1, <2>2 DEF LiveOwned
<1> QED  BY <1>3, <1>4, <1>6, <1>8, <1>10, <1>11

\* One page of a create: it follows the page before, as nobody else asked for one.
LEMMA CreatePageStep == ASSUME ShmemInv, shmem_create_page PROVE ShmemInv'
<1> USE DEF ShmemInv, Ownership
<1>1. op.kind = "create" /\ op.done < op.pages
  BY DEF shmem_create_page
<1>2. PICK v \in Virt :
        /\ vmm_alloc(v, TRUE)
        /\ op' = [op EXCEPT !.virt = IF op.done = 0 THEN v ELSE @, !.done = @ + 1]
  BY DEF shmem_create_page
<1>3. UNCHANGED <<layout, regions, kpages, frames>>
  BY DEF shmem_create_page
<1>4. /\ op.slot \in Regions /\ op.name \in Names /\ op.asked \in Sizes
      /\ op.pages \in Nat /\ op.virt \in Virt /\ op.done \in Nat /\ op # Idle
  BY <1>1, OpFields
<1>5. boot = "up"
  BY <1>4 DEF CallSound
<1>6. /\ Memory' /\ boot' = "up"
      /\ v = next_virt /\ next_virt' = v + 1 /\ v \notin Live /\ Live' = Live \cup {v}
      /\ \A d \in Dirs : dir[d] = "user" => dir'[d] = "user"
      /\ v % DIR_PAGES # 0 => dir'[v \div DIR_PAGES] = "user"
  BY <1>2, <1>3, <1>5, MapStep
<1>7. v \in Nat /\ op.virt \in Nat /\ VIRT_PAGES \in Nat /\ next_virt' \in Virt /\ next_virt' >= next_virt
  BY <1>4, <1>6, ShmemAssumption DEF Virt, Memory
<1>8. /\ regions' \in [Regions -> Region \cup {NoRegion}]
      /\ RegionsSound' /\ NameUnique' /\ RingThreeReachable'
      /\ Used' = Used /\ \A q \in Used : PagesOfRegion(q)' = PagesOfRegion(q)
      /\ Missing(op.name) => \A q \in Used : regions'[q].name # op.name
  <2>1. /\ regions' \in [Regions -> Region \cup {NoRegion}]
        /\ RegionsSound' /\ NameUnique' /\ RingThreeReachable'
        /\ Used' = Used /\ \A q \in Used : PagesOfRegion(q)' = PagesOfRegion(q)
    BY <1>3, <1>6, <1>7, RegionsKept
  <2> QED  BY <1>3, <2>1 DEF Missing
<1>9. PICK w : w = IF op.done = 0 THEN v ELSE op.virt
  OBVIOUS
<1>10. /\ op'.kind = "create" /\ op'.slot = op.slot /\ op'.name = op.name /\ op'.asked = op.asked
       /\ op'.pages = op.pages /\ op'.virt = w /\ op'.done = op.done + 1
       /\ op' \in Ops
  <2>1. op \in [kind : {"create"}, slot : Regions, name : Names, asked : Sizes, pages : Nat,
                virt : Virt, done : Nat]
    BY <1>1, <1>4 DEF Ops, Idle
  <2>2. w \in Virt /\ op.done + 1 \in Nat
    BY <1>4, <1>9
  <2> DEFINE o == [op EXCEPT !.virt = w]
  <2>3. /\ o \in [kind : {"create"}, slot : Regions, name : Names, asked : Sizes, pages : Nat,
                  virt : Virt, done : Nat]
        /\ o.kind = "create" /\ o.slot = op.slot /\ o.name = op.name /\ o.asked = op.asked
        /\ o.pages = op.pages /\ o.virt = w /\ o.done = op.done
    BY <2>1, <2>2
  <2>4. op' = [o EXCEPT !.done = op.done + 1]
    BY <1>2, <1>9, <2>1
  <2> HIDE DEF o
  <2> QED  BY <2>2, <2>3, <2>4 DEF Ops
<1>11. w + op.done = v /\ w \in Nat
  BY <1>1, <1>4, <1>6, <1>7, <1>9 DEF CallSound
<1>12. InHand = op.virt .. op.virt + op.done - 1 /\ Given = {} /\ Given' = {}
  BY <1>1, <1>10 DEF InHand, Given
<1>13. InHand' = InHand \cup {v}
  <2>1. InHand' = w .. w + (op.done + 1) - 1
    BY <1>10 DEF InHand
  <2>2. InHand' = w .. v
    BY <1>4, <1>7, <1>11, <2>1
  <2>3. CASE op.done = 0
    <3>1. InHand = {} /\ w = v
      BY <1>7, <1>9, <1>12, <2>3
    <3> QED  BY <1>7, <2>2, <3>1
  <2>4. CASE op.done # 0
    <3>1. w = op.virt /\ op.virt + op.done = v /\ op.done > 0
      BY <1>4, <1>9, <1>11, <2>4
    <3>2. InHand = w .. v - 1
      BY <1>4, <1>7, <1>12, <3>1
    <3> QED  BY <1>4, <1>7, <2>2, <3>1, <3>2
  <2> QED  BY <2>3, <2>4
<1>14. CallSound'
  <2>1. ASSUME NEW u \in InHand', u % DIR_PAGES # 0 PROVE dir'[u \div DIR_PAGES] = "user"
    <3>1. CASE u = v
      BY <1>6, <2>1, <3>1
    <3>2. CASE u # v
      <4>1. u \in InHand
        BY <1>13, <2>1, <3>2
      <4>2. u \in Virt
        BY <4>1 DEF LiveOwned, Live
      <4>3. u \div DIR_PAGES \in Dirs
        BY <4>2, DirOf
      <4>4. dir[u \div DIR_PAGES] = "user"
        BY <1>1, <2>1, <4>1 DEF CallSound
      <4> QED  BY <1>6, <4>3, <4>4
    <3> QED  BY <3>1, <3>2
  <2>2. op'.done <= op'.pages /\ op'.pages = PagesOf(op'.asked) /\ op'.virt + op'.done = next_virt'
    <3>1. op.pages = PagesOf(op.asked)
      BY <1>1 DEF CallSound
    <3>2. op'.done <= op'.pages /\ op'.virt + op'.done = next_virt'
      BY <1>1, <1>4, <1>6, <1>7, <1>10, <1>11
    <3> QED  BY <1>10, <3>1, <3>2 DEF PagesOf
  <2>3. op'.slot \notin Used' /\ Missing(op.name)
    BY <1>1, <1>8, <1>10 DEF CallSound
  <2>4. \A q \in Used' : regions'[q].name # op'.name
    BY <1>8, <1>10, <2>3
  <2> QED  BY <1>6, <1>10, <2>1, <2>2, <2>3, <2>4 DEF CallSound, Missing, PagesOf
<1>15. LiveOwned'
  <2>1. v \notin kpages /\ v \notin InHand
    BY <1>6 DEF LiveOwned
  <2>2. \A r \in Used : v \notin PagesOfRegion(r)
    BY <1>6, <1>7, RegionPages
  <2> QED  BY <1>3, <1>6, <1>8, <1>12, <1>13, <2>1, <2>2 DEF LiveOwned
<1> QED  BY <1>3, <1>6, <1>8, <1>10, <1>14, <1>15

\* A page could not be had: the call turns to giving back the ones it has.
LEMMA CreateFailsStep == ASSUME ShmemInv, shmem_create_fails PROVE ShmemInv'
<1> USE DEF ShmemInv, Ownership
<1>1. op.kind = "create" /\ op.done < op.pages
      /\ op' = [kind |-> "cleanup", virt |-> op.virt, pages |-> op.done, done |-> 0]
  BY DEF shmem_create_fails
<1>2. UNCHANGED <<pmmVars, next_virt, pt, dir, frames>> /\ UNCHANGED <<regions, kpages>>
  BY DEF shmem_create_fails, vmm_alloc_fails, layout, pmmVars
<1>3. op.virt \in Virt /\ op.done \in Nat /\ op.virt \in Nat /\ op # Idle
  BY <1>1, OpFields, ShmemAssumption DEF Virt
<1>4. /\ Memory' /\ boot' = boot /\ Live' = Live
      /\ next_virt' \in Virt /\ next_virt' >= next_virt
      /\ \A d \in Dirs : dir[d] = "user" => dir'[d] = "user"
  BY <1>2, MemoryKept
<1>5. /\ regions' \in [Regions -> Region \cup {NoRegion}]
      /\ RegionsSound' /\ NameUnique' /\ RingThreeReachable'
      /\ Used' = Used /\ \A q \in Used : PagesOfRegion(q)' = PagesOfRegion(q)
  BY <1>2, <1>4, RegionsKept
<1>6. op' \in Ops
  BY <1>1, <1>3 DEF Ops
<1>7. InHand' = InHand /\ Given' = {} /\ Given = {}
  <2>1. InHand = op.virt .. op.virt + op.done - 1 /\ Given' = {} /\ Given = {}
    BY <1>1 DEF InHand, Given
  <2>2. InHand' = op.virt + 0 .. op.virt + op.done - 1
    BY <1>1 DEF InHand
  <2> QED  BY <1>3, <2>1, <2>2
<1>8. CallSound'
  <2>1. boot = "up" /\ (op.done > 0 => op.virt + op.done = next_virt)
    BY <1>1, <1>3 DEF CallSound
  <2>2. /\ op'.kind = "cleanup" /\ op'.done <= op'.pages
        /\ op'.pages > 0 => op'.virt + op'.pages = next_virt'
    BY <1>1, <1>2, <1>3, <2>1
  <2> QED  BY <1>4, <2>1, <2>2 DEF CallSound
<1>9. LiveOwned'
  BY <1>2, <1>4, <1>5, <1>7 DEF LiveOwned
<1> QED  BY <1>2, <1>4, <1>5, <1>6, <1>8, <1>9

\* The undoing finds its pages where it counts them: each is mapped and its own.
LEMMA CleanupStep == ASSUME ShmemInv, shmem_create_cleanup PROVE ShmemInv'
<1> USE DEF ShmemInv, Ownership
<1>1. op.kind = "cleanup" /\ op.done < op.pages /\ op' = [op EXCEPT !.done = @ + 1]
  BY DEF shmem_create_cleanup
<1>2. UNCHANGED <<layout, next_virt, frames>> /\ UNCHANGED <<regions, kpages>>
  BY DEF shmem_create_cleanup
<1>3. /\ op.virt \in Virt /\ op.done \in Nat /\ op.pages \in Nat /\ op.virt \in Nat /\ op # Idle
  BY <1>1, OpFields, ShmemAssumption DEF Virt
<1>4. PICK v : v = op.virt + op.done
  OBVIOUS
<1>5. InHand = v .. op.virt + op.pages - 1 /\ Given = {}
  BY <1>1, <1>4 DEF InHand, Given
<1>6. v \in InHand /\ v \in Nat
  BY <1>1, <1>3, <1>4, <1>5
<1>7. v \in Live /\ vmm_free(v) /\ boot = "up"
  BY <1>3, <1>4, <1>6 DEF LiveOwned, shmem_create_cleanup, CallSound
<1>8. Memory' /\ boot' = "up" /\ dir' = dir /\ Live' = Live \ {v}
  BY <1>2, <1>7, UnmapStep
<1>9. next_virt' \in Virt /\ next_virt' >= next_virt
  BY <1>2, ShmemAssumption DEF Virt, Memory
<1>10. /\ regions' \in [Regions -> Region \cup {NoRegion}]
       /\ RegionsSound' /\ NameUnique' /\ RingThreeReachable'
       /\ Used' = Used /\ \A q \in Used : PagesOfRegion(q)' = PagesOfRegion(q)
  BY <1>2, <1>8, <1>9, RegionsKept
<1>11. /\ op' \in Ops /\ op'.kind = "cleanup" /\ op'.virt = op.virt /\ op'.pages = op.pages
       /\ op'.done = op.done + 1
  <2>1. op \in [kind : {"cleanup"}, virt : Virt, pages : Nat, done : Nat]
    BY <1>1 DEF Ops, Idle
  <2> QED  BY <1>1, <2>1 DEF Ops
<1>12. InHand' = InHand \ {v} /\ Given' = {}
  <2>1. InHand' = op.virt + (op.done + 1) .. op.virt + op.pages - 1 /\ Given' = {}
    BY <1>11 DEF InHand, Given
  <2> QED  BY <1>3, <1>4, <1>5, <2>1
<1>13. CallSound'
  <2>1. op.pages > 0 => op.virt + op.pages = next_virt
    BY <1>1 DEF CallSound
  <2>2. op'.done <= op'.pages /\ (op'.pages > 0 => op'.virt + op'.pages = next_virt')
    BY <1>1, <1>2, <1>3, <1>11, <2>1
  <2> QED  BY <1>8, <1>11, <2>2 DEF CallSound
<1>14. LiveOwned'
  <2>1. v \notin kpages /\ \A r \in Used : v \notin PagesOfRegion(r)
    BY <1>6 DEF LiveOwned
  <2> QED  BY <1>2, <1>5, <1>8, <1>10, <1>12, <2>1 DEF LiveOwned
<1> QED  BY <1>2, <1>8, <1>10, <1>11, <1>13, <1>14

\* A close finds the pages of its region the same way.
LEMMA ClosePageStep == ASSUME ShmemInv, shmem_close_page PROVE ShmemInv'
<1> USE DEF ShmemInv, Ownership
<1>1. op.kind = "close" /\ op.done < op.pages /\ op' = [op EXCEPT !.done = @ + 1]
  BY DEF shmem_close_page
<1>2. UNCHANGED <<layout, next_virt, frames>> /\ UNCHANGED <<regions, kpages>>
  BY DEF shmem_close_page
<1>3. /\ op.virt \in Virt /\ op.done \in Nat /\ op.pages \in Nat /\ op.virt \in Nat /\ op # Idle
  BY <1>1, OpFields, ShmemAssumption DEF Virt
<1>4. PICK v : v = op.virt + op.done
  OBVIOUS
<1>5. PICK s : s = op.slot
  OBVIOUS
<1>6. s \in Used /\ op.virt = regions[s].virt /\ op.pages = regions[s].pages
  BY <1>1, <1>5 DEF CallSound
<1>7. InHand = {} /\ Given = op.virt .. op.virt + op.done - 1
  BY <1>1 DEF InHand, Given
<1>8. v \in PagesOfRegion(s) /\ v \notin Given /\ v \in Nat
  BY <1>1, <1>3, <1>4, <1>6, <1>7 DEF PagesOfRegion
<1>9. v \in Live /\ vmm_free(v) /\ boot = "up"
  <2>3. v \in Live
    BY <1>6, <1>8, Pagewise
  <2> QED  BY <1>3, <1>4, <2>3 DEF shmem_close_page, CallSound
<1>10. Memory' /\ boot' = "up" /\ dir' = dir /\ Live' = Live \ {v}
  BY <1>2, <1>9, UnmapStep
<1>11. next_virt' \in Virt /\ next_virt' >= next_virt
  BY <1>2, ShmemAssumption DEF Virt, Memory
<1>12. /\ regions' \in [Regions -> Region \cup {NoRegion}]
       /\ RegionsSound' /\ NameUnique' /\ RingThreeReachable'
       /\ Used' = Used /\ \A q \in Used : PagesOfRegion(q)' = PagesOfRegion(q)
  BY <1>2, <1>10, <1>11, RegionsKept
<1>13. /\ op' \in Ops /\ op'.kind = "close" /\ op'.virt = op.virt /\ op'.pages = op.pages
       /\ op'.done = op.done + 1 /\ op'.slot = s
  <2>1. op \in [kind : {"close"}, slot : Regions, virt : Virt, pages : Nat, done : Nat]
    BY <1>1 DEF Ops, Idle
  <2> QED  BY <1>1, <1>5, <2>1 DEF Ops
<1>14. InHand' = {} /\ Given' = Given \cup {v}
  <2>1. InHand' = {} /\ Given' = op.virt .. op.virt + (op.done + 1) - 1
    BY <1>13 DEF InHand, Given
  <2> QED  BY <1>3, <1>4, <1>7, <2>1
<1>15. CallSound'
  <2>1. op'.done <= op'.pages
    BY <1>1, <1>3, <1>13
  <2> QED  BY <1>2, <1>6, <1>10, <1>12, <1>13, <2>1 DEF CallSound
<1>16. LiveOwned'
  <2>1. v \notin kpages
    BY <1>6, <1>8 DEF LiveOwned
  <2>2. \A u : u \in Live <=> \/ (\E r \in Used : u \in PagesOfRegion(r)) /\ u \notin Given
                              \/ u \in kpages
    BY <1>7, Pagewise
  <2>3. \A u : u \in Live' <=> \/ (\E r \in Used' : u \in PagesOfRegion(r)') /\ u \notin Given'
                               \/ u \in InHand' \/ u \in kpages'
    BY <1>2, <1>10, <1>12, <1>14, <2>1, <2>2
  <2>4. Live' = ((UNION {PagesOfRegion(r) : r \in Used})' \ Given') \cup InHand' \cup kpages'
    BY <2>3, Zenon
  <2>5. \A r \in Used : /\ PagesOfRegion(r) \cap kpages = {}
                        /\ \A q \in Used \ {r} : PagesOfRegion(r) \cap PagesOfRegion(q) = {}
    BY DEF LiveOwned
  <2>6. \A r \in Used' : /\ PagesOfRegion(r)' \cap (kpages' \cup InHand') = {}
                         /\ \A q \in Used' \ {r} : PagesOfRegion(r)' \cap PagesOfRegion(q)' = {}
    BY <1>2, <1>12, <1>14, <2>5
  <2> QED  BY <1>14, <2>4, <2>6, Zenon DEF LiveOwned
<1> QED  BY <1>2, <1>10, <1>12, <1>13, <1>15, <1>16

\* A create that has all its pages enters them as a region.
LEMMA CreateReturnsStep == ASSUME ShmemInv, shmem_create_returns PROVE ShmemInv'
<1> USE DEF ShmemInv, Ownership
<1>1. op.kind \in {"create", "cleanup"} /\ op.done = op.pages /\ op' = Idle
  BY DEF shmem_create_returns
<1>2. UNCHANGED <<pmmVars, next_virt, pt, dir, frames>> /\ UNCHANGED kpages
  BY DEF shmem_create_returns
<1>3. /\ Memory' /\ boot' = boot /\ Live' = Live
      /\ next_virt' \in Virt /\ next_virt' >= next_virt
      /\ \A d \in Dirs : dir[d] = "user" => dir'[d] = "user"
  BY <1>2, MemoryKept
<1>4. op'.kind = "idle" /\ op' \in Ops /\ InHand' = {} /\ Given' = {} /\ Given = {} /\ CallSound'
  BY <1>1 DEF Idle, Ops, InHand, Given, CallSound
<1>5. op.virt \in Nat /\ op.virt \in Virt /\ op.pages \in Nat /\ op.done \in Nat
  BY <1>1, OpFields, ShmemAssumption DEF Virt
<1>6. CASE op.kind = "cleanup"
  <2>1. UNCHANGED regions
    BY <1>6 DEF shmem_create_returns
  <2>2. /\ regions' \in [Regions -> Region \cup {NoRegion}]
        /\ RegionsSound' /\ NameUnique' /\ RingThreeReachable'
        /\ Used' = Used /\ \A q \in Used : PagesOfRegion(q)' = PagesOfRegion(q)
    BY <1>3, <2>1, RegionsKept
  <2>3. InHand = {}
    <3>1. InHand = op.virt + op.done .. op.virt + op.pages - 1
      BY <1>6 DEF InHand
    <3> QED  BY <1>1, <1>5, <3>1
  <2>4. LiveOwned'
    BY <1>2, <1>3, <1>4, <2>2, <2>3 DEF LiveOwned
  <2> QED  BY <1>2, <1>3, <1>4, <2>2, <2>4
<1>7. CASE op.kind = "create"
  <2> DEFINE s == op.slot
             n == op.name
             new == [used |-> TRUE, name |-> Cut[n], virt |-> op.virt,
                     pages |-> op.pages, asked |-> op.asked]
  <2>1. s \in Regions /\ n \in Names /\ op.asked \in Sizes
    BY <1>7, OpFields
  <2>2. regions' = [regions EXCEPT ![s] = new]
    BY <1>7 DEF shmem_create_returns
  <2>3. /\ s \notin Used /\ Missing(n) /\ op.pages = PagesOf(op.asked)
        /\ op.done > 0 => op.virt + op.done = next_virt
        /\ \A v \in InHand : v % DIR_PAGES # 0 => dir[v \div DIR_PAGES] = "user"
    BY <1>7 DEF CallSound
  <2>4. op.virt + op.pages = next_virt
    BY <1>1, <1>5, <2>1, <2>3, PagesOfCovers
  <2>5. new \in Region /\ Cut[n] \in Names
    BY <1>5, <2>1, ShmemAssumption DEF Region
  <2>6. regions' \in [Regions -> Region \cup {NoRegion}]
    BY <2>1, <2>2, <2>5
  <2>7. regions'[s] = new /\ \A r \in Regions \ {s} : regions'[r] = regions[r]
    BY <2>1, <2>2
  <2>8. Used \subseteq Regions
    BY DEF Used
  <2>9. Used' = Used \cup {s}
    BY <2>1, <2>3, <2>7 DEF Used
  <2>10. \A r \in Used : PagesOfRegion(r)' = PagesOfRegion(r) /\ regions'[r] = regions[r]
    BY <2>3, <2>7, <2>8 DEF PagesOfRegion
  <2>11. InHand = op.virt .. op.virt + op.pages - 1
    BY <1>1, <1>7 DEF InHand
  <2>12. PICK c : c = s
    OBVIOUS
  <2>13. PagesOfRegion(c)' = InHand
    BY <2>7, <2>11, <2>12 DEF PagesOfRegion
  <2>14. RegionsSound'
    <3>1. /\ regions'[s].virt + regions'[s].pages <= next_virt'
          /\ regions'[s].pages = PagesOf(op.asked) /\ regions'[s].asked = op.asked
      BY <1>2, <1>5, <2>3, <2>4, <2>7
    <3>2. \A r \in Used : /\ regions'[r].virt + regions'[r].pages <= next_virt'
                          /\ regions'[r].pages = PagesOf(regions[r].asked)
                          /\ regions'[r].asked = regions[r].asked
      BY <1>2, <2>10 DEF RegionsSound
    <3> QED  BY <2>9, <3>1, <3>2 DEF RegionsSound, PagesOf
  <2>15. NameUnique'
    <3> SUFFICES ASSUME NEW r \in Used', NEW q \in Used', r # q,
                        regions'[r].name = regions'[q].name
                 PROVE  \E m \in Names : m # Cut[m] /\ Cut[m] = regions'[r].name
      BY DEF NameUnique
    <3>1. CASE r \in Used /\ q \in Used
      BY <2>10, <3>1 DEF NameUnique
    <3>2. ASSUME NEW x \in Used, regions[x].name = Cut[n] PROVE n # Cut[n]
      BY <2>3, <3>2 DEF Missing
    <3>3. regions'[s].name = Cut[n]
      BY <2>7
    <3>4. CASE r = s /\ q \in Used
      BY <2>1, <2>10, <3>2, <3>3, <3>4
    <3>5. CASE q = s /\ r \in Used
      BY <2>1, <2>10, <3>2, <3>3, <3>5
    <3> QED  BY <2>9, <3>1, <3>4, <3>5
  <2>16. RingThreeReachable'
    <3> SUFFICES ASSUME NEW r \in Used', NEW v \in PagesOfRegion(r)', v % DIR_PAGES # 0
                 PROVE  dir'[v \div DIR_PAGES] = "user"
      BY DEF RingThreeReachable
    <3>1. CASE r = c
      BY <1>2, <2>3, <2>13, <3>1
    <3>2. CASE r # c
      <4>1. r \in Used /\ v \in PagesOfRegion(r)
        BY <2>9, <2>10, <2>12, <3>2
      <4> QED  BY <1>2, <4>1 DEF RingThreeReachable
    <3> QED  BY <3>1, <3>2
  <2>17. LiveOwned'
    <3>1. kpages' = kpages /\ Live' = Live /\ InHand' = {} /\ Given' = {}
      BY <1>2, <1>3, <1>4
    <3>2. Used' = Used \cup {c} /\ c \notin Used
      BY <2>3, <2>9, <2>12
    <3>3. ASSUME NEW v
          PROVE  (\E r \in Used' : v \in PagesOfRegion(r)')
                   <=> (\E r \in Used : v \in PagesOfRegion(r)) \/ v \in InHand
      BY <2>10, <2>13, <3>2
    <3>4. \A v : v \in Live' <=> \/ (\E r \in Used' : v \in PagesOfRegion(r)') /\ v \notin Given'
                                 \/ v \in InHand' \/ v \in kpages'
      BY <1>4, <3>1, <3>3, Pagewise
    <3>5. ASSUME NEW r \in Used' PROVE PagesOfRegion(r)' \cap kpages = {}
      BY <2>10, <2>13, <3>2 DEF LiveOwned
    <3>6. ASSUME NEW r \in Used', NEW q \in Used' \ {r}
          PROVE  PagesOfRegion(r)' \cap PagesOfRegion(q)' = {}
      BY <2>10, <2>13, <3>2 DEF LiveOwned
    <3>7. Live' = ((UNION {PagesOfRegion(r) : r \in Used})' \ Given') \cup InHand' \cup kpages'
      BY <3>4, Zenon
    <3> QED  BY <3>1, <3>5, <3>6, <3>7 DEF LiveOwned
  <2> QED  BY <1>2, <1>3, <1>4, <2>6, <2>14, <2>15, <2>16, <2>17
<1> QED  BY <1>1, <1>6, <1>7

\* shmem_close's search: the slot it finds is a region.
LEMMA CloseStep ==
  ASSUME ShmemInv, NEW name \in Names, shmem_close(name) PROVE ShmemInv'
<1> USE DEF ShmemInv, Ownership
<1>1. boot = "up" /\ op = Idle
  BY DEF shmem_close, Ready
<1>2. PICK s \in Regions :
        /\ Found(name, s)
        /\ op' = [kind |-> "close", slot |-> s, virt |-> regions[s].virt,
                  pages |-> regions[s].pages, done |-> 0]
  BY DEF shmem_close
<1>3. UNCHANGED <<pmmVars, next_virt, pt, dir, frames>> /\ UNCHANGED <<regions, kpages>>
  BY DEF shmem_close
<1>4. /\ Memory' /\ boot' = boot /\ Live' = Live
      /\ next_virt' \in Virt /\ next_virt' >= next_virt
      /\ \A d \in Dirs : dir[d] = "user" => dir'[d] = "user"
  BY <1>3, MemoryKept
<1>5. /\ regions' \in [Regions -> Region \cup {NoRegion}]
      /\ RegionsSound' /\ NameUnique' /\ RingThreeReachable'
      /\ Used' = Used /\ \A q \in Used : PagesOfRegion(q)' = PagesOfRegion(q)
  BY <1>3, <1>4, RegionsKept
<1>6. s \in Used
  BY <1>2 DEF Found
<1>7. regions[s].virt \in Virt /\ regions[s].pages \in Nat /\ regions[s].virt \in Nat
  BY <1>6, RegionPages, ShmemAssumption DEF Virt
<1>8. op' \in Ops
  BY <1>2, <1>7 DEF Ops
<1>9. InHand' = {} /\ Given' = {}
  <2>1. InHand' = {} /\ Given' = regions[s].virt .. regions[s].virt + 0 - 1
    BY <1>2 DEF InHand, Given
  <2> QED  BY <1>7, <2>1
<1>10. CallSound'
  <2>1. op'.kind = "close" /\ op'.slot = s /\ op'.done <= op'.pages
        /\ op'.virt = regions'[s].virt /\ op'.pages = regions'[s].pages
    BY <1>2, <1>3, <1>7
  <2> QED  BY <1>1, <1>4, <1>5, <1>6, <2>1 DEF CallSound
<1>11. LiveOwned'
  <2>1. InHand = {} /\ Given = {}
    BY <1>1, BetweenCalls
  <2> QED  BY <1>3, <1>4, <1>5, <1>9, <2>1 DEF LiveOwned
<1> QED  BY <1>3, <1>4, <1>5, <1>8, <1>10, <1>11

\* A close that has freed all the pages clears the slot: none is left behind.
LEMMA CloseReturnsStep == ASSUME ShmemInv, shmem_close_returns PROVE ShmemInv'
<1> USE DEF ShmemInv, Ownership
<1>1. op.kind = "close" /\ op.done = op.pages /\ op' = Idle
  BY DEF shmem_close_returns
<1>2. UNCHANGED <<pmmVars, next_virt, pt, dir, frames>> /\ UNCHANGED kpages
  BY DEF shmem_close_returns
<1>3. Memory' /\ boot' = boot /\ Live' = Live
  BY <1>2, MemoryKept
<1>4. op'.kind = "idle" /\ op' \in Ops /\ InHand' = {} /\ Given' = {} /\ InHand = {} /\ CallSound'
  BY <1>1 DEF Idle, Ops, InHand, Given, CallSound
<1>5. PICK s : s = op.slot
  OBVIOUS
<1>6. s \in Used /\ op.virt = regions[s].virt /\ op.pages = regions[s].pages
  BY <1>1, <1>5 DEF CallSound
<1>7. Given = PagesOfRegion(s)
  BY <1>1, <1>6 DEF Given, PagesOfRegion
<1>8. regions' = [regions EXCEPT ![s] = NoRegion]
  BY <1>5 DEF shmem_close_returns
<1>9. Used \subseteq Regions
  BY DEF Used
<1>10. Used' = Used \ {s} /\ \A r \in Used' : regions'[r] = regions[r]
  BY <1>6, <1>8, <1>9 DEF Used, NoRegion
<1>11. \A r \in Used' : PagesOfRegion(r)' = PagesOfRegion(r)
  BY <1>10 DEF PagesOfRegion
<1>12. regions' \in [Regions -> Region \cup {NoRegion}]
  BY <1>8
<1>13. RegionsSound'
  BY <1>2, <1>10 DEF RegionsSound, PagesOf
<1>14. NameUnique'
  BY <1>10 DEF NameUnique
<1>15. RingThreeReachable'
  BY <1>2, <1>10, <1>11 DEF RingThreeReachable
<1>16. LiveOwned'
  <2>2. \A r \in Used \ {s} : PagesOfRegion(r) \cap PagesOfRegion(s) = {}
    BY <1>6 DEF LiveOwned
  <2>3. ASSUME NEW v
        PROVE  (\E r \in Used' : v \in PagesOfRegion(r)')
                 <=> (\E r \in Used : v \in PagesOfRegion(r)) /\ v \notin PagesOfRegion(s)
    BY <1>6, <1>10, <1>11, <2>2
  <2>4. \A v : v \in Live' <=> \/ (\E r \in Used' : v \in PagesOfRegion(r)') /\ v \notin Given'
                               \/ v \in InHand' \/ v \in kpages'
    BY <1>2, <1>3, <1>4, <1>7, <2>3, Pagewise
  <2>5. Live' = ((UNION {PagesOfRegion(r) : r \in Used})' \ Given') \cup InHand' \cup kpages'
    BY <2>4, Zenon
  <2>6. \A r \in Used : /\ PagesOfRegion(r) \cap kpages = {}
                        /\ \A q \in Used \ {r} : PagesOfRegion(r) \cap PagesOfRegion(q) = {}
    BY DEF LiveOwned
  <2> QED  BY <1>2, <1>4, <1>10, <1>11, <2>5, <2>6 DEF LiveOwned
<1> QED  BY <1>2, <1>3, <1>4, <1>12, <1>13, <1>14, <1>15, <1>16

\* Kernel code takes and frees pages between the calls.
LEMMA KernelStep ==
  ASSUME ShmemInv, kernel_vmm_alloc \/ \E v \in kpages : kernel_vmm_free(v)
  PROVE  ShmemInv'
<1> USE DEF ShmemInv, Ownership
<1>1. boot = "up" /\ op = Idle /\ UNCHANGED <<layout, regions, op, frames>>
  BY DEF kernel_vmm_alloc, kernel_vmm_free, Ready
<1>2. InHand = {} /\ Given = {} /\ InHand' = {} /\ Given' = {} /\ op' \in Ops
  BY <1>1 DEF Idle, InHand, Given, Ops
<1>3. CallSound'
  BY <1>1 DEF CallSound, Idle
<1>4. CASE kernel_vmm_alloc
  <2>1. PICK v \in Virt : vmm_alloc(v, FALSE) /\ kpages' = kpages \cup {v}
    BY <1>4 DEF kernel_vmm_alloc
  <2>2. /\ Memory'
        /\ v = next_virt /\ next_virt' = v + 1 /\ v \notin Live /\ Live' = Live \cup {v}
        /\ \A d \in Dirs : dir[d] = "user" => dir'[d] = "user"
    BY <1>1, <2>1, MapStep
  <2>3. next_virt' \in Virt /\ next_virt' >= next_virt
    BY <2>2, ShmemAssumption DEF Virt, Memory
  <2>4. /\ regions' \in [Regions -> Region \cup {NoRegion}]
        /\ RegionsSound' /\ NameUnique' /\ RingThreeReachable'
        /\ Used' = Used /\ \A q \in Used : PagesOfRegion(q)' = PagesOfRegion(q)
    BY <1>1, <2>2, <2>3, RegionsKept
  <2>5. \A r \in Used : v \notin PagesOfRegion(r)
    BY <2>2, RegionPages, ShmemAssumption DEF Virt, Memory
  <2>6. LiveOwned'
    BY <1>2, <2>1, <2>2, <2>4, <2>5 DEF LiveOwned
  <2> QED  BY <1>2, <1>3, <2>1, <2>2, <2>4, <2>6
<1>5. ASSUME NEW v \in kpages, kernel_vmm_free(v) PROVE ShmemInv'
  <2>1. vmm_free(v) /\ kpages' = kpages \ {v} /\ UNCHANGED next_virt
    BY <1>5 DEF kernel_vmm_free
  <2>2. v \in Live /\ \A r \in Used : v \notin PagesOfRegion(r)
    BY <1>5 DEF LiveOwned
  <2>3. Memory' /\ dir' = dir /\ Live' = Live \ {v}
    BY <1>1, <2>1, <2>2, UnmapStep
  <2>4. next_virt' \in Virt /\ next_virt' >= next_virt
    BY <2>1, ShmemAssumption DEF Virt, Memory
  <2>5. /\ regions' \in [Regions -> Region \cup {NoRegion}]
        /\ RegionsSound' /\ NameUnique' /\ RingThreeReachable'
        /\ Used' = Used /\ \A q \in Used : PagesOfRegion(q)' = PagesOfRegion(q)
    BY <1>1, <2>3, <2>4, RegionsKept
  <2>6. LiveOwned'
    BY <1>2, <2>1, <2>2, <2>3, <2>5 DEF LiveOwned
  <2> QED  BY <1>2, <1>3, <2>1, <2>3, <2>5, <2>6
<1> QED  BY <1>4, <1>5

\* The loader's frames concern no page.
LEMMA ElfStep ==
  ASSUME ShmemInv, elf_alloc \/ \E addr \in frames : elf_free(addr)
  PROVE  ShmemInv'
<1> USE DEF ShmemInv
<1>1. boot = "up" /\ UNCHANGED <<layout, next_virt, pt, dir, regions, op, kpages>>
  BY DEF elf_alloc, elf_free, Ready
<1>2. Memory'
  BY <1>1, LoaderStep DEF elf_alloc, elf_free
<1>3. Ownership'
  BY <1>1 DEF layout, Ownership, RegionsSound, CallSound, LiveOwned, NameUnique,
     RingThreeReachable, Used, Live, Missing, InHand, Given, PagesOfRegion
<1> QED  BY <1>2, <1>3

-----------------------------------------------------------------------------
\* The invariant holds throughout.
LEMMA ShmemInvariance == Spec => []ShmemInv
<1>1. Init => ShmemInv
  BY ShmemInvInit
<1>2. ShmemInv /\ [Next]_vars => ShmemInv'
  <2> SUFFICES ASSUME ShmemInv, [Next]_vars PROVE ShmemInv'
    OBVIOUS
  <2>1. CASE Boot
    BY <2>1, BootStep
  <2>2. CASE \E name \in Names, size \in Sizes : shmem_create(name, size)
    BY <2>2, CreateStep
  <2>3. CASE shmem_create_page
    BY <2>3, CreatePageStep
  <2>4. CASE shmem_create_fails
    BY <2>4, CreateFailsStep
  <2>5. CASE shmem_create_cleanup
    BY <2>5, CleanupStep
  <2>6. CASE shmem_create_returns
    BY <2>6, CreateReturnsStep
  <2>7. CASE \E name \in Names : shmem_close(name)
    BY <2>7, CloseStep
  <2>8. CASE shmem_close_page
    BY <2>8, ClosePageStep
  <2>9. CASE shmem_close_returns
    BY <2>9, CloseReturnsStep
  <2>10. CASE kernel_vmm_alloc \/ \E v \in kpages : kernel_vmm_free(v)
    BY <2>10, KernelStep
  <2>11. CASE elf_alloc \/ \E addr \in frames : elf_free(addr)
    BY <2>11, ElfStep
  <2>12. CASE UNCHANGED vars
    <3>1. UNCHANGED <<pmmVars, next_virt, pt, dir, frames>> /\ UNCHANGED <<regions, op, kpages>>
      BY <2>12 DEF vars, vmVars
    <3>2. Memory' /\ boot' = boot /\ Live' = Live
      BY <3>1, MemoryKept DEF ShmemInv
    <3>3. Ownership'
      BY <3>1, <3>2 DEF ShmemInv, Ownership, RegionsSound, CallSound, LiveOwned, NameUnique,
         RingThreeReachable, Used, Missing, InHand, Given, PagesOfRegion
    <3> QED  BY <3>2, <3>3 DEF ShmemInv
  <2> QED  BY <2>1, <2>2, <2>3, <2>4, <2>5, <2>6, <2>7, <2>8, <2>9, <2>10, <2>11, <2>12 DEF Next
<1> QED  BY <1>1, <1>2, PTL DEF Spec

\* Through every create, failed create, close, kernel allocation and program
\* load, a frame in use is exactly one page's or one of the loader's: vmm_alloc
\* and vmm_free neither leak a frame nor share one.
THEOREM FramesConservedHolds == Spec => []FramesConserved
<1>1. ShmemInv => FramesConserved
  <2> SUFFICES ASSUME ShmemInv, NEW a \in Frames
               PROVE  (IF Marked(a) THEN 1 ELSE 0)
                        = Cardinality({v \in Virt : pt[v] = a}) + (IF a \in frames THEN 1 ELSE 0)
    BY DEF FramesConserved
  <2> USE DEF ShmemInv, Memory
  <2> DEFINE S == {v \in Virt : pt[v] = a}
  <2>3. CASE S = {}
    <3>1. Cardinality(S) = 0
      BY <2>3, FS_EmptySet
    <3>2. Marked(a) <=> a \in frames
      BY <2>3 DEF FramesOwned
    <3> QED  BY <3>1, <3>2
  <2>4. CASE S # {}
    <3>1. PICK v \in Virt : pt[v] = a
      BY <2>4
    <3>2. S = {v}
      BY <3>1 DEF FramesOwned
    <3>3. Cardinality(S) = 1
      BY <3>2, FS_Singleton
    <3>4. Marked(a) /\ a \notin frames
      BY <3>1 DEF FramesOwned
    <3> QED  BY <3>3, <3>4
  <2> QED  BY <2>3, <2>4
<1> QED  BY <1>1, ShmemInvariance, PTL

\* Every mapped page is one region's, kernel code's or the call's in progress, or
\* shows the display and has not been handed out: shmem_create's undoing and
\* shmem_close free exactly the pages that were got for the region, for any
\* number of pages, at any failure and wherever the frame buffer is.
THEOREM PagesOwnedHolds == Spec => []PagesOwned
<1>1. ASSUME ShmemInv PROVE PagesOwned
  <2> USE <1>1 DEF ShmemInv, Memory, Ownership
  <2>1. \A v \in Virt : v >= next_virt <=> ~(v < next_virt)
    BY ShmemAssumption DEF Virt
  <2>2. Display \subseteq Virt
    BY FramebufferAssumption DEF Display, Virt
  <2>3. \A v \in Virt : v \in Mapped <=> v \in Display \/ v \in Live
    <3> SUFFICES ASSUME NEW v \in Virt PROVE v \in Mapped <=> v \in Display \/ v \in Live
      OBVIOUS
    <3>1. CASE v < next_virt
      BY <2>1, <3>1 DEF Mapped, Display, Live
    <3>2. CASE v >= next_virt
      <4>1. v \in FB_PAGES => pt[v] # NULL
        BY <3>2, BufferIsNoFrame DEF InOrder, Buffer
      <4>2. v \notin FB_PAGES => pt[v] = NULL
        BY <3>2 DEF InOrder
      <4> QED  BY <2>1, <3>2, <4>1, <4>2 DEF Mapped, Display, Live
    <3> QED  BY <2>1, <3>1, <3>2
  <2>4. Mapped = Display \cup Live
    <3>1. Mapped \subseteq Virt /\ Live \subseteq Virt
      BY DEF Mapped, Live
    <3> QED  BY <2>2, <2>3, <3>1
  <2>5. Display \cap Live = {} /\ \A r \in Used : \A v \in PagesOfRegion(r) : v \notin Display
    <3>1. \A v \in Display : v \in Virt /\ ~(v < next_virt)
      BY <2>1, <2>2 DEF Display
    <3> QED  BY <3>1, RegionPages DEF Live
  <2>6. InHand \cup kpages \subseteq Live
    BY DEF LiveOwned
  <2> QED  BY <2>4, <2>5, <2>6 DEF PagesOwned, LiveOwned
<1> QED  BY <1>1, ShmemInvariance, PTL

\* A region a program has is the one of its name, covers the size asked for and
\* is within ring 3's reach, with the exceptions the code has: names that are cut,
\* sizes that wrap, first pages of a directory entry.
THEOREM RegionsServeHolds == Spec => []RegionsServe
<1>1. ShmemInv => RegionsServe
  <2> SUFFICES ASSUME ShmemInv PROVE RegionsServe
    OBVIOUS
  <2>1. TypeOK
    BY DEF ShmemInv, Memory, Ownership, TypeOK, Inv, Buffer
  <2>2. RegionCovers
    <3> SUFFICES ASSUME NEW r \in Used, regions[r].asked + PAGE_SIZE <= WORD
                 PROVE  regions[r].asked <= regions[r].pages * PAGE_SIZE
      BY DEF RegionCovers
    <3>1. regions[r].asked \in Sizes
      BY RegionPages
    <3>2. regions[r].pages = PagesOf(regions[r].asked)
      BY DEF ShmemInv, Ownership, RegionsSound
    <3> QED  BY <3>1, <3>2, PagesOfCovers
  <2> QED  BY <2>1, <2>2 DEF RegionsServe, ShmemInv, Ownership
<1> QED  BY <1>1, ShmemInvariance, PTL

\* next_virt only grows, and vmm_alloc maps nothing below it: a page that was
\* freed stays unmapped, whatever is allocated later.
THEOREM AddressesNotReusedHolds == Spec => AddressesNotReused
<1> DEFINE Kept == \A v \in Virt : v < next_virt /\ pt[v] = NULL => pt'[v] = NULL
<1>1. ShmemInv /\ [Next]_vars => [Kept]_vars
  <2> SUFFICES ASSUME ShmemInv, [Next]_vars,
                      NEW v \in Virt, v < next_virt, pt[v] = NULL
               PROVE  pt'[v] = NULL
    OBVIOUS
  <2> USE DEF ShmemInv
  <2>1. next_virt \in Int /\ v \in Int
    BY ShmemAssumption DEF Virt, Memory
  <2>2. ASSUME NEW u \in Virt, NEW user \in BOOLEAN, vmm_alloc(u, user)
        PROVE  pt'[v] = NULL
    <3>1. u = next_virt /\ \E addr \in Frames : pt' = [pt EXCEPT ![u] = addr]
      BY <2>2 DEF vmm_alloc, Chosen, paging_map
    <3> QED  BY <2>1, <3>1 DEF Memory
  <2>3. ASSUME NEW u, vmm_free(u) PROVE pt'[v] = NULL
    BY <2>3 DEF vmm_free, paging_unmap, Memory
  <2>4. CASE shmem_create_page \/ kernel_vmm_alloc
    BY <2>2, <2>4 DEF shmem_create_page, kernel_vmm_alloc
  <2>5. CASE shmem_create_cleanup \/ shmem_close_page \/ \E u \in kpages : kernel_vmm_free(u)
    BY <2>3, <2>5 DEF shmem_create_cleanup, shmem_close_page, kernel_vmm_free
  <2>6. CASE Boot \/ UNCHANGED vars
    BY <2>6 DEF Boot, vars, vmVars
  <2>7. CASE shmem_create_fails \/ shmem_create_returns \/ shmem_close_returns \/ elf_alloc
    BY <2>7 DEF shmem_create_fails, vmm_alloc_fails, shmem_create_returns, shmem_close_returns, elf_alloc
  <2>8. CASE \E name \in Names, size \in Sizes : shmem_create(name, size)
    BY <2>8 DEF shmem_create
  <2>9. CASE \E name \in Names : shmem_close(name)
    BY <2>9 DEF shmem_close
  <2>10. CASE \E addr \in frames : elf_free(addr)
    BY <2>10 DEF elf_free
  <2> QED  BY <2>4, <2>5, <2>6, <2>7, <2>8, <2>9, <2>10 DEF Next
<1> QED  BY <1>1, ShmemInvariance, PTL DEF Spec, AddressesNotReused
=============================================================================
