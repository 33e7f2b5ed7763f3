------------------------------- MODULE Shmem -------------------------------
(***************************************************************************)
(* Virtual memory and named shared regions: memory/vmm/vmm.cpp, the page   *)
(* tables of memory/paging/paging.cpp and memory/shmem/shmem.cpp, over the *)
(* frame allocator of Pmm.                                                 *)
(*                                                                         *)
(* A virtual page is its number above 0xD0000000.  The loops of            *)
(* shmem_create and shmem_close take one step per page; they run inside a  *)
(* system call with interrupts off, so nothing else moves until they       *)
(* return, and op says how far they are.                                   *)
(*                                                                         *)
(* paging_init maps the frame buffer of the display where the display has  *)
(* it, and that may be among these pages: FB_PAGES.  vmm_alloc does not    *)
(* look at the page tables, so next_virt may come to such a page and hand  *)
(* it out; its mapping is then replaced, and undone by vmm_free.           *)
(* Definitions named X_<fault> are faulty variants of the X that follows.  *)
(***************************************************************************)
EXTENDS Pmm

CONSTANTS
  VIRT_PAGES,   \* pages from 0xD0000000 to the end of the address space
  FB_PAGES,     \* those that paging_init maps to the display's frame buffer
  DIR_PAGES,    \* pages of one page-directory entry (1024)
  SHMEM_MAX,    \* region slots
  PAGE_SIZE,    \* bytes of a page
  WORD,         \* 2^32: sizes are uint32_t
  Sizes,        \* the sizes asked for
  Names,        \* region names
  Cut           \* name_copy: the name that is stored for each name

ASSUME ShmemAssumption ==
  /\ VIRT_PAGES \in Nat \ {0} /\ DIR_PAGES \in Nat \ {0} /\ SHMEM_MAX \in Nat
  /\ PAGE_SIZE \in Nat \ {0} /\ WORD \in Nat /\ PAGE_SIZE < WORD
  /\ Sizes \subseteq 0 .. WORD - 1
  /\ Cut \in [Names -> Names]
  /\ \A n \in Names : Cut[Cut[n]] = Cut[n]

\* The address a page has that is mapped to itself.
Identity(v) == FRAMES_4GB - VIRT_PAGES + v

\* The display has its frame buffer where no usable memory is.
ASSUME FramebufferAssumption ==
  /\ VIRT_PAGES < FRAMES_4GB
  /\ FB_PAGES \subseteq 0 .. VIRT_PAGES - 1
  /\ \A m \in E820Maps : \A i \in DOMAIN m : m[i].type = 1 =>
       \A v \in FB_PAGES : Identity(v) \notin m[i].base .. m[i].base + m[i].length - 1

Virt    == 0 .. VIRT_PAGES - 1
Dirs    == 0 .. (VIRT_PAGES - 1) \div DIR_PAGES
Regions == 0 .. SHMEM_MAX - 1

VARIABLES
  next_virt,  \* vmm.cpp: the next virtual page to hand out
  pt,         \* page tables: virtual page -> frame address, NULL if not present
  dir,        \* page directory: "absent", "kernel" (no PAGE_USER) or "user"
  regions,    \* shmem.cpp: slot -> region, NoRegion if not used
  op,         \* the shmem call in progress
  kpages,     \* pages kernel code has from vmm_alloc (self tests of the shell)
  frames      \* frames the ELF loader has from pmm_alloc

vmVars == <<next_virt, pt, dir, regions, op, kpages, frames>>
vars   == <<pmmVars, vmVars>>

NoRegion == [used |-> FALSE]
Region   == [used : {TRUE}, name : Names, virt : Virt, pages : Nat, asked : Sizes]
Idle     == [kind |-> "idle"]

Mapped == {v \in Virt : pt[v] # NULL}
Used   == {r \in Regions : regions[r].used}

\* The contents of vmm.cpp's and shmem.cpp's statics; paging_init maps the frame
\* buffer to itself, for the kernel, and nothing else here.
Init ==
  /\ PmmInit
  /\ next_virt = 0
  /\ pt = [v \in Virt |-> IF v \in FB_PAGES THEN Identity(v) ELSE NULL]
  /\ dir = [d \in Dirs |-> IF \E v \in FB_PAGES : v \div DIR_PAGES = d
                           THEN "kernel" ELSE "absent"]
  /\ regions = [r \in Regions |-> NoRegion]
  /\ op = Idle
  /\ kpages = {} /\ frames = {}

-----------------------------------------------------------------------------
DirAfterMap_never_user(v, user) ==
  [dir EXCEPT ![v \div DIR_PAGES] = IF @ = "absent" THEN "kernel" ELSE @]

\* paging_map drops PAGE_USER when it makes the directory entry present.
DirAfterMap(v, user) ==
  LET d == v \div DIR_PAGES
  IN  [dir EXCEPT ![d] = CASE @ = "absent"           -> "kernel"
                           [] @ = "kernel" /\ user   -> "user"
                           [] OTHER                  -> @]

paging_map(v, addr, user) ==
  /\ pt' = [pt EXCEPT ![v] = addr]
  /\ dir' = DirAfterMap(v, user)

paging_unmap_lost(v) == UNCHANGED <<pt, dir>>

paging_unmap(v) == pt' = [pt EXCEPT ![v] = NULL] /\ UNCHANGED dir

paging_get_physical(v) == IF dir[v \div DIR_PAGES] = "absent" THEN NULL ELSE pt[v]

Chosen_lowest(v) == pt[v] = NULL /\ \A u \in 0 .. v - 1 : pt[u] # NULL

\* next_virt + PAGE_SIZE < next_virt: the sum wraps at the last page.
Exhausted == next_virt = VIRT_PAGES - 1
Chosen(v) == v = next_virt

\* vmm_alloc(0, flags) succeeds with page v ...
vmm_alloc(v, user) ==
  /\ ~Exhausted
  /\ Chosen(v)
  /\ \E addr \in Frames :
       /\ pmm_alloc(addr) /\ addr # NULL
       /\ paging_map(v, addr, user)
  /\ next_virt' = next_virt + 1

\* ... and fails when no frame is left, or no address, after giving the frame
\* it got back.
vmm_alloc_fails ==
  /\ Allocatable \subseteq bitmap \/ Exhausted
  /\ UNCHANGED <<bitmap, used, pt, dir, next_virt>>

vmm_free(v) ==
  LET phys == paging_get_physical(v) IN
  \/ /\ phys = NULL
     /\ UNCHANGED <<bitmap, used, pt, dir>>
  \/ /\ phys # NULL
     /\ paging_unmap(v)
     /\ pmm_free(phys)

-----------------------------------------------------------------------------

\* uint32_t pages = (size + 0xFFF) / 0x1000; the sum wraps.
PagesOf(size) ==
  LET p == ((size + PAGE_SIZE - 1) % WORD) \div PAGE_SIZE
  IN  IF p = 0 THEN 1 ELSE p

\* The first slot whose stored name is the name passed.
Found(name, r) ==
  /\ r \in Used /\ regions[r].name = name
  /\ \A q \in Used : q < r => regions[q].name # name

Missing(name) == \A r \in Used : regions[r].name # name

FreeSlot(r) == r \in Regions \ Used /\ \A q \in Regions \ Used : r <= q

Ready == boot = "up" /\ op = Idle

\* shmem_create past its early returns: the name is new and a slot is free.
shmem_create(name, size) ==
  /\ Ready
  /\ Missing(name)
  /\ \E r \in Regions :
       /\ FreeSlot(r)
       /\ op' = [kind |-> "create", slot |-> r, name |-> name, asked |-> size,
                 pages |-> PagesOf(size), virt |-> 0, done |-> 0]
  /\ UNCHANGED <<pmmVars, next_virt, pt, dir, regions, kpages, frames>>

shmem_create_page ==
  /\ op.kind = "create" /\ op.done < op.pages
  /\ \E v \in Virt :
       /\ vmm_alloc(v, TRUE)
       /\ op' = [op EXCEPT !.virt = IF op.done = 0 THEN v ELSE @, !.done = @ + 1]
  /\ UNCHANGED <<layout, regions, kpages, frames>>

shmem_create_fails_leaks ==
  /\ op.kind = "create" /\ op.done < op.pages
  /\ vmm_alloc_fails
  /\ op' = Idle
  /\ UNCHANGED <<layout, regions, kpages, frames>>

shmem_create_fails ==
  /\ op.kind = "create" /\ op.done < op.pages
  /\ vmm_alloc_fails
  /\ op' = [kind |-> "cleanup", virt |-> op.virt, pages |-> op.done, done |-> 0]
  /\ UNCHANGED <<layout, regions, kpages, frames>>

shmem_create_cleanup ==
  /\ op.kind = "cleanup" /\ op.done < op.pages
  /\ vmm_free(op.virt + op.done)
  /\ op' = [op EXCEPT !.done = @ + 1]
  /\ UNCHANGED <<layout, next_virt, regions, kpages, frames>>

shmem_create_returns ==
  /\ op.kind \in {"create", "cleanup"} /\ op.done = op.pages
  /\ op' = Idle
  /\ regions' = IF op.kind = "cleanup" THEN regions
                ELSE [regions EXCEPT ![op.slot] =
                        [used |-> TRUE, name |-> Cut[op.name], virt |-> op.virt,
                         pages |-> op.pages, asked |-> op.asked]]
  /\ UNCHANGED <<pmmVars, next_virt, pt, dir, kpages, frames>>

shmem_close(name) ==
  /\ Ready
  /\ \E r \in Regions :
       /\ Found(name, r)
       /\ op' = [kind |-> "close", slot |-> r, virt |-> regions[r].virt,
                 pages |-> regions[r].pages, done |-> 0]
  /\ UNCHANGED <<pmmVars, next_virt, pt, dir, regions, kpages, frames>>

shmem_close_page ==
  /\ op.kind = "close" /\ op.done < op.pages
  /\ vmm_free(op.virt + op.done)
  /\ op' = [op EXCEPT !.done = @ + 1]
  /\ UNCHANGED <<layout, next_virt, regions, kpages, frames>>

shmem_close_returns ==
  /\ op.kind = "close" /\ op.done = op.pages
  /\ regions' = [regions EXCEPT ![op.slot] = NoRegion]
  /\ op' = Idle
  /\ UNCHANGED <<pmmVars, next_virt, pt, dir, kpages, frames>>

\* The other users of the allocators: the self tests (two pages, then freed)
\* and the ELF loader's frames.
kernel_vmm_alloc ==
  /\ Ready /\ Cardinality(kpages) < 2
  /\ \E v \in Virt : vmm_alloc(v, FALSE) /\ kpages' = kpages \cup {v}
  /\ UNCHANGED <<layout, regions, op, frames>>

kernel_vmm_free(v) ==
  /\ Ready
  /\ vmm_free(v)
  /\ kpages' = kpages \ {v}
  /\ UNCHANGED <<layout, next_virt, regions, op, frames>>

elf_alloc ==
  /\ Ready
  /\ \E addr \in Frames : pmm_alloc(addr) /\ addr # NULL /\ frames' = frames \cup {addr}
  /\ UNCHANGED <<layout, next_virt, pt, dir, regions, op, kpages>>

elf_free(addr) ==
  /\ Ready
  /\ pmm_free(addr)
  /\ frames' = frames \ {addr}
  /\ UNCHANGED <<layout, next_virt, pt, dir, regions, op, kpages>>

Boot == (memory_init \/ pmm_init \/ kmalloc_init) /\ UNCHANGED vmVars

Next ==
  \/ Boot
  \/ \E name \in Names, size \in Sizes : shmem_create(name, size)
  \/ shmem_create_page
  \/ shmem_create_fails
  \/ shmem_create_cleanup
  \/ shmem_create_returns
  \/ \E name \in Names : shmem_close(name)
  \/ shmem_close_page
  \/ shmem_close_returns
  \/ kernel_vmm_alloc
  \/ \E v \in kpages : kernel_vmm_free(v)
  \/ elf_alloc
  \/ \E addr \in frames : elf_free(addr)

Spec == Init /\ [][Next]_vars

-----------------------------------------------------------------------------
Ops ==
  {Idle}
  \cup [kind : {"create"}, slot : Regions, name : Names, asked : Sizes, pages : Nat,
        virt : Virt, done : Nat]
  \cup [kind : {"cleanup"}, virt : Virt, pages : Nat, done : Nat]
  \cup [kind : {"close"}, slot : Regions, virt : Virt, pages : Nat, done : Nat]

TypeOK ==
  /\ PmmTypeOK
  /\ next_virt \in Virt
  /\ pt \in [Virt -> Frames \cup {NULL} \cup {Identity(v) : v \in FB_PAGES}]
  /\ dir \in [Dirs -> {"absent", "kernel", "user"}]
  /\ regions \in [Regions -> Region \cup {NoRegion}]
  /\ op \in Ops
  /\ kpages \subseteq Virt
  /\ frames \subseteq Frames

PagesOfRegion(r) == regions[r].virt .. regions[r].virt + regions[r].pages - 1

\* The pages the call in progress answers for, and those of it already gone.
InHand == CASE op.kind = "create"  -> op.virt .. op.virt + op.done - 1
            [] op.kind = "cleanup" -> op.virt + op.done .. op.virt + op.pages - 1
            [] OTHER               -> {}
Given == IF op.kind = "close" THEN op.virt .. op.virt + op.done - 1 ELSE {}

\* No frame leaks and none is shared, also while a create that ran out of
\* memory undoes its work: every frame handed out is exactly one page's or one
\* of the loader's.
FramesConserved ==
  \A a \in Frames :
    (IF Marked(a) THEN 1 ELSE 0)
      = Cardinality({v \in Virt : pt[v] = a}) + (IF a \in frames THEN 1 ELSE 0)

\* The pages of the frame buffer that vmm_alloc has not come to.
Display == {v \in FB_PAGES : v >= next_virt}

\* Every mapped page belongs to exactly one of the display, the regions, kernel
\* code and the call in progress: a failed create leaves no page behind, a close
\* none of its region, and, as shmem_close frees by virt_addr + p * 0x1000, each
\* region is a run of consecutive pages that meets no other owner's.
PagesOwned ==
  /\ Mapped = Display \cup ((UNION {PagesOfRegion(r) : r \in Used}) \ Given) \cup InHand \cup kpages
  /\ Display \cap (InHand \cup kpages \cup UNION {PagesOfRegion(r) : r \in Used}) = {}
  /\ InHand \cap kpages = {}
  /\ \A r \in Used :
       /\ PagesOfRegion(r) \cap (kpages \cup InHand) = {}
       /\ \A q \in Used \ {r} : PagesOfRegion(r) \cap PagesOfRegion(q) = {}

\* A name denotes one region, except for names name_copy cuts short: those
\* never match what was stored, and every create of them makes a new region.
NameUnique ==
  \A r, q \in Used :
    regions[r].name = regions[q].name =>
      r = q \/ \E n \in Names : n # Cut[n] /\ Cut[n] = regions[r].name

\* A region is at least as large as its creator asked for, unless the rounding
\* up of the size wraps.
RegionCovers ==
  \A r \in Used :
    regions[r].asked + PAGE_SIZE <= WORD =>
      regions[r].asked <= regions[r].pages * PAGE_SIZE

\* A region's pages can be reached from ring 3, except the first page of a
\* directory entry: the paging_map that makes the entry present leaves
\* PAGE_USER out, and only a later user mapping there adds it.
RingThreeReachable ==
  \A r \in Used : \A v \in PagesOfRegion(r) :
    v % DIR_PAGES # 0 => dir[v \div DIR_PAGES] = "user"

\* What a program relies on that has created or opened a region: it is the one
\* of that name, as large as asked, and in its reach.
RegionsServe == TypeOK /\ NameUnique /\ RegionCovers /\ RingThreeReachable

\* A page that was freed is never mapped again: a pointer kept across another
\* program's shmem_close faults, and never reaches a later region.
AddressesNotReused ==
  [][\A v \in Virt : v < next_virt /\ pt[v] = NULL => pt'[v] = NULL]_vars
=============================================================================
