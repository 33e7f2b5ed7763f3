-------------------------------- MODULE Pmm --------------------------------
(***************************************************************************)
(* The physical memory manager (memory/pmm/pmm.cpp) and how it shares the  *)
(* largest usable E820 region with the kernel heap (memory/memory.cpp and  *)
(* kmalloc_init of memory/kmalloc.cpp).                                    *)
(*                                                                         *)
(* Addresses are counted in page frames.  The bitmap is the set of frames, *)
(* relative to its own base, whose bit is set.  The units that fix the     *)
(* layout (bits of a bitmap word, words of a page, pages of the heap) are  *)
(* constants, so that small memories show the same layouts as large ones.  *)
(*                                                                         *)
(* The code keeps the 64-bit base and length of an entry in 32-bit words   *)
(* (pmm_init, memory_init, kmalloc_init).  The maps are those on which     *)
(* that loses nothing: usable entries end below 4 GB.                      *)
(*                                                                         *)
(* Who the frames are handed to is in PmmClients and Shmem.                *)
(* Definitions named X_<fault> are faulty variants of the X that follows.  *)
(***************************************************************************)
EXTENDS Integers, FiniteSets, Sequences

CONSTANTS
  E820Maps,               \* the memory maps the firmware may report
  FRAMES_4GB,             \* frames below 4 GB (0x100000)
  LOW,                    \* first frame above 1 MB (0x100000 / PAGE_SIZE)
  WORD_BITS,              \* frames per bitmap word (32)
  WORDS_PER_PAGE,         \* bitmap words per page (1024)
  KMALLOC_RESERVED_PAGES, \* pmm.cpp: pages reserved after the bitmap (128)
  KMALLOC_PMM_SKIP,       \* kmalloc.cpp: pages it takes the bitmap to be (8)
  KMALLOC_PAGES           \* kmalloc.cpp: pages of the heap (128)

ASSUME PmmAssumption ==
  /\ E820Maps \subseteq Seq([base : Nat, length : Nat, type : {1, 2}])
  /\ FRAMES_4GB \in Nat
  /\ \A m \in E820Maps : \A i \in DOMAIN m :
       m[i].type = 1 => m[i].base + m[i].length <= FRAMES_4GB
  /\ LOW \in Nat \ {0}
  /\ WORD_BITS \in Nat \ {0}
  /\ WORDS_PER_PAGE \in Nat \ {0}
  /\ KMALLOC_RESERVED_PAGES \in Nat
  /\ KMALLOC_PMM_SKIP \in Nat
  /\ KMALLOC_PAGES \in Nat

NULL == 0       \* the null address: no usable frame is frame 0

VARIABLES
  e820,         \* the map found at boot
  boot,         \* the initialisers of kernel_main that have run
  heap_base,    \* memory.cpp: first frame of the chosen region
  base,         \* pmm.cpp: the frame the bitmap starts at
  total, bmap_skip, used,
  bitmap,       \* frames (relative to base) whose bit is set
  heap_pool     \* kmalloc.cpp: first frame of the heap

layout == <<e820, boot, heap_base, base, total, bmap_skip, heap_pool>>
pmmVars == <<e820, boot, heap_base, base, total, bmap_skip, used, bitmap,
             heap_pool>>

Boots == {"none", "memory", "pmm", "up"}

Allocatable == bmap_skip .. total - 1

-----------------------------------------------------------------------------
Usable(e) == e.type = 1 /\ e.base >= LOW

\* The scan of memory_init and pmm_init: the first of the longest usable
\* entries; entries of length 0 are never taken.
Best(i) ==
  /\ Usable(e820[i]) /\ e820[i].length > 0
  /\ \A j \in DOMAIN e820 : Usable(e820[j]) =>
        IF j < i THEN e820[j].length < e820[i].length
                 ELSE e820[j].length <= e820[i].length

NoBest == \A i \in DOMAIN e820 : ~Best(i)

CeilDiv(a, b) == (a + b - 1) \div b
BitmapPages(t) == CeilDiv(CeilDiv(t, WORD_BITS), WORDS_PER_PAGE)

Skip_none(t)        == 0
Skip_bitmap_only(t) == BitmapPages(t)

\* bmap_skip: the bitmap's own pages and the heap's.
Skip(t) == BitmapPages(t) + KMALLOC_RESERVED_PAGES

PmmInit ==
  /\ e820 \in E820Maps
  /\ boot = "none"
  /\ heap_base = 0 /\ base = NULL /\ heap_pool = NULL
  /\ total = 0 /\ bmap_skip = 0 /\ used = 0
  /\ bitmap = {}

memory_init ==
  /\ boot = "none" /\ boot' = "memory"
  /\ \/ \E i \in DOMAIN e820 : Best(i) /\ heap_base' = e820[i].base
     \/ NoBest /\ UNCHANGED heap_base
  /\ UNCHANGED <<e820, base, total, bmap_skip, used, bitmap, heap_pool>>

pmm_init ==
  /\ boot = "memory" /\ boot' = "pmm"
  /\ \/ \E i \in DOMAIN e820 :
          LET skip == Skip(e820[i].length) IN
          /\ Best(i)
          /\ total' = e820[i].length
          /\ base' = e820[i].base
          /\ bmap_skip' = skip
          /\ bitmap' = {f \in 0 .. e820[i].length - 1 : f < skip}
          /\ used' = skip
     \/ NoBest /\ UNCHANGED <<total, base, bmap_skip, bitmap, used>>
  /\ UNCHANGED <<e820, heap_base, heap_pool>>

kmalloc_init ==
  /\ boot = "pmm" /\ boot' = "up"
  /\ heap_pool' = (IF heap_base < LOW THEN LOW ELSE heap_base) + KMALLOC_PMM_SKIP
  /\ UNCHANGED <<e820, heap_base, base, total, bmap_skip, used, bitmap>>

-----------------------------------------------------------------------------
\* pmm_alloc returns the lowest clear frame from bmap_skip on, and 0 if there
\* is none.  addr is what it returns.
FirstClear(f) ==
  /\ f \in Allocatable \ bitmap
  /\ \A g \in Allocatable \ bitmap : f <= g

Mark_unmarked(f)  == used' = used + 1 /\ UNCHANGED bitmap
Mark_uncounted(f) == bitmap' = bitmap \cup {f} /\ UNCHANGED used

Mark(f) == bitmap' = bitmap \cup {f} /\ used' = used + 1

pmm_alloc(addr) ==
  \/ \E f \in Allocatable :
       /\ FirstClear(f)
       /\ addr = base + f
       /\ Mark(f)
  \/ /\ Allocatable \subseteq bitmap
     /\ addr = NULL
     /\ UNCHANGED <<bitmap, used>>

\* pmm_free ignores 0, addresses outside the allocatable frames (below the
\* bitmap the subtraction wraps to a frame past total) and clear frames.
Freeable(addr) == addr # NULL /\ addr - base \in Allocatable \cap bitmap

pmm_free(addr) ==
  \/ /\ Freeable(addr)
     /\ bitmap' = bitmap \ {addr - base}
     /\ used' = used - 1
  \/ /\ ~Freeable(addr)
     /\ UNCHANGED <<bitmap, used>>

Frames == base .. base + total - 1

\* The frame at address a is handed out.
Marked(a) == a - base \in Allocatable \cap bitmap

-----------------------------------------------------------------------------
\* What pmm_used and pmm_free_count report.
pmm_used       == used
pmm_free_count == total - used

PmmTypeOK ==
  /\ e820 \in E820Maps
  /\ boot \in Boots
  /\ heap_base \in Nat /\ base \in Nat /\ heap_pool \in Nat
  /\ total \in Nat /\ bmap_skip \in Nat /\ used \in Nat
  /\ bitmap \subseteq 0 .. total - 1

\* The counters of pmm.cpp stay exact through any sequence of calls, double
\* frees and foreign addresses included: the free count is the number of
\* frames pmm_alloc can still hand out.
FreeCountExact ==
  bmap_skip <= total => pmm_free_count = Cardinality(Allocatable \ bitmap)
=============================================================================
