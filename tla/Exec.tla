-------------------------------- MODULE Exec --------------------------------
(***************************************************************************)
(* Running programs: the ELF loader and elf_exec (fs/elf/elf.cpp) over the *)
(* frame allocator and the page tables, with ring3.asm, kctx.asm and the   *)
(* system calls SYS_EXEC and SYS_EXIT.                                     *)
(*                                                                         *)
(* A program runs inside the elf_exec that started it, so that progs is    *)
(* the stack of those activations.  A call of elf_exec up to the jump into *)
(* ring 3, or to its failure, is one step: only interrupt handlers run     *)
(* meanwhile, and they touch neither pages nor frames.  Files that are not *)
(* ELF executables are refused before anything changes.                    *)
(* Definitions named X_<fault> are faulty variants of the X that follows.  *)
(***************************************************************************)
EXTENDS Integers, FiniteSets, Sequences

CONSTANTS
  Images,            \* executables: [lo, hi, sound], addresses in bytes
  PAGE,              \* bytes of a page
  LAST_PAGE,         \* virtual pages are 1 .. LAST_PAGE
  FRAMES,            \* the frames of the allocator, by physical page number
  USER_STACK_BASE,   \* page of the first user stack
  USER_STACK_PAGES, USER_STACK_STEP,
  MAX_EXEC_DEPTH,
  MaxOthers          \* bound: frames other clients hold at a time

Virt == 1 .. LAST_PAGE
NULL == 0
BOOT == -1           \* kernel stack 0x9FFFC; the top of exec_kstack[d] is d

Span(first, n) == first .. first + n - 1
StackPages(d)  == Span(USER_STACK_BASE + d * USER_STACK_STEP, USER_STACK_PAGES)

ASSUME ExecAssumption ==
  /\ PAGE \in Nat \ {0} /\ LAST_PAGE \in Nat
  /\ IsFiniteSet(FRAMES) /\ FRAMES \subseteq Nat \ {0}
  /\ USER_STACK_PAGES \in Nat \ {0} /\ USER_STACK_STEP \in Nat
  /\ USER_STACK_BASE \in Virt
  /\ MAX_EXEC_DEPTH \in Nat \ {0} /\ MaxOthers \in Nat
  /\ StackPages(MAX_EXEC_DEPTH - 1) \subseteq Virt
  /\ \A im \in Images : /\ im.lo \in Nat /\ im.hi \in Nat /\ im.sound \in BOOLEAN
                        /\ im.lo < im.hi
                        /\ im.lo >= PAGE /\ im.hi <= (LAST_PAGE + 1) * PAGE

VARIABLES
  pt,              \* page -> physical page, NULL if not present
  free,            \* the frames that are free
  exec_ctx_depth,
  esp0,            \* kernel_tss.esp0: the stack a system call starts on
  progs,           \* the elf_exec calls in progress, the running program last
  halted,          \* a page fault in ring 0
  others,          \* frames other clients hold (shared regions, vmm_alloc)
  overlap,         \* history: "none"; "load", "failed": a load met pages in use
  leaked,          \* history: frames of programs refused as too deep
  stale            \* history: pages refused programs were left mapped at

mm   == <<pt, free>>
hist == <<overlap, leaked, stale>>
vars == <<mm, exec_ctx_depth, esp0, progs, halted, others, hist>>

\* paging_init maps the low memory to itself.
Init ==
  /\ pt = [v \in Virt |-> v] /\ free = FRAMES
  /\ exec_ctx_depth = 0 /\ esp0 = BOOT
  /\ progs = <<>> /\ halted = FALSE
  /\ others = {} /\ leaked = {} /\ stale = {} /\ overlap = "none"

-----------------------------------------------------------------------------
\* Page tables and allocator together: m is a record [pt, free].
Mem == [pt |-> pt, free |-> free]

\* pmm_alloc hands out the lowest free frame first.
Below(f, fr)   == Cardinality({g \in fr : g < f})
Nth(fr, k)     == CHOOSE f \in fr : Below(f, fr) = k

MapPages(m, first, n) ==
  [pt   |-> [v \in Virt |-> IF v \in Span(first, n) THEN Nth(m.free, v - first)
                                                    ELSE m.pt[v]],
   free |-> {f \in m.free : Below(f, m.free) >= n}]

\* pmm_free of what the pages map to; it ignores what is not an allocated frame.
GiveBack(m, pages) == [m EXCEPT !.free = @ \cup ({m.pt[v] : v \in pages} \cap FRAMES)]

\* paging_unmap and pmm_free of every page that is mapped.
Unmap(m, pages) ==
  [GiveBack(m, pages) EXCEPT !.pt = [v \in Virt |-> IF v \in pages THEN NULL ELSE @[v]]]

PagesOf_down(im) == (im.hi - im.lo) \div PAGE

\* uint32_t pages = (total + 0xFFF) / 0x1000, counted from load_base: one page
\* short if load_base is not at the start of a page.
PagesOf(im) == (im.hi - im.lo + PAGE - 1) \div PAGE

FirstPage(im)  == im.lo \div PAGE
ImagePages(im) == Span(FirstPage(im), PagesOf(im))
Touched(im)    == FirstPage(im) .. (im.hi - 1) \div PAGE

Smaller(i, j) == IF i < j THEN i ELSE j

\* elf_load.  Where it fails it has mapped the pages it got frames for, gives
\* the frames back and leaves the pages mapped.  pages: what it mapped.
elf_load(m, im) ==
  LET got    == Smaller(PagesOf(im), Cardinality(m.free))
      pages  == Span(FirstPage(im), got)
      mapped == MapPages(m, FirstPage(im), got)
      ok     == got = PagesOf(im) /\ im.sound
  IN  [ok |-> ok, pages |-> pages, mem |-> IF ok THEN mapped ELSE GiveBack(mapped, pages)]

\* The copy of the segments writes to a page that is not present.
Faults(r, im) == r.ok /\ \E v \in Touched(im) : r.mem.pt[v] = NULL

kstack_top(d) == IF d \in 0 .. MAX_EXEC_DEPTH - 1 THEN d ELSE BOOT

\* Where elf_exec itself runs: on the shell's stack, or on the stack of the
\* system call of the program that is running.
Here == IF progs = <<>> THEN BOOT ELSE esp0

ProgPages(p) == ImagePages(p.image) \cup StackPages(p.depth)

Meets(pages) == \E i \in DOMAIN progs : ProgPages(progs[i]) \cap pages # {}
Marked(pages) ==
  [i \in DOMAIN progs |->
     [progs[i] EXCEPT !.met = @ \/ ProgPages(progs[i]) \cap pages # {}]]

\* Both how and the level before are taken into account: "failed" stays.
Overlapped(how, pages) == IF Meets(pages) /\ overlap # "failed" THEN how ELSE overlap

SetMem(m) == pt' = m.pt /\ free' = m.free

\* r is what elf_load returned.
Elf_exec_load_fails(im, r) ==
  /\ ~r.ok
  /\ SetMem(r.mem)
  /\ progs' = Marked(r.pages)
  /\ overlap' = Overlapped("failed", r.pages)
  /\ stale' = stale \cup r.pages
  /\ UNCHANGED <<exec_ctx_depth, esp0, halted, others, leaked>>

Elf_exec_faults(im, r) ==
  /\ Faults(r, im)
  /\ halted' = TRUE
  /\ UNCHANGED <<mm, exec_ctx_depth, esp0, progs, others, hist>>

TooDeep == exec_ctx_depth >= MAX_EXEC_DEPTH

\* The nesting is checked once the program is loaded, and the program is left.
Elf_exec_too_deep(im, r) ==
  /\ r.ok /\ ~Faults(r, im)
  /\ TooDeep
  /\ SetMem(r.mem)
  /\ progs' = Marked(r.pages)
  /\ overlap' = Overlapped("load", r.pages)
  /\ leaked' = leaked \cup (free \ r.mem.free)
  /\ stale' = stale \cup r.pages
  /\ UNCHANGED <<exec_ctx_depth, esp0, halted, others>>

\* Without a stack both the pages of the stack and the image are given back.
Undo(m, stk, im) == Unmap(Unmap(m, stk), ImagePages(im))

Elf_exec_no_stack(im, r) ==
  LET got == Cardinality(r.mem.free)
      sp  == USER_STACK_BASE + exec_ctx_depth * USER_STACK_STEP
      stk == Span(sp, got)
  IN
  /\ r.ok /\ ~Faults(r, im)
  /\ ~TooDeep
  /\ got < USER_STACK_PAGES
  /\ SetMem(Undo(MapPages(r.mem, sp, got), stk, im))
  /\ progs' = Marked(r.pages \cup stk)
  /\ overlap' = IF r.pages \cap stk # {} /\ overlap = "none" THEN "load"
                ELSE Overlapped("load", r.pages \cup stk)
  /\ UNCHANGED <<exec_ctx_depth, esp0, halted, others, leaked, stale>>

Deeper(d) == d + 1

\* The program runs: esp0 is a stack of its own and the context is saved.
Elf_exec_starts(im, r) ==
  LET d     == exec_ctx_depth
      m     == MapPages(r.mem, USER_STACK_BASE + d * USER_STACK_STEP, USER_STACK_PAGES)
      pages == r.pages \cup StackPages(d)
      self  == r.pages \cap StackPages(d) # {}
  IN
  /\ r.ok /\ ~Faults(r, im)
  /\ ~TooDeep
  /\ Cardinality(r.mem.free) >= USER_STACK_PAGES
  /\ SetMem(m)
  /\ esp0' = kstack_top(d)
  /\ exec_ctx_depth' = Deeper(d)
  /\ progs' = Append(Marked(pages), [image |-> im, depth |-> d, ctx |-> Here, met |-> self,
                                     own |-> [v \in pages |-> m.pt[v]]])
  /\ overlap' = IF self /\ overlap = "none" THEN "load" ELSE Overlapped("load", pages)
  /\ UNCHANGED <<halted, others, leaked, stale>>

elf_exec(im) ==
  /\ ~halted
  /\ LET r == elf_load(Mem, im) IN
       \/ Elf_exec_load_fails(im, r)
       \/ Elf_exec_faults(im, r)
       \/ Elf_exec_too_deep(im, r)
       \/ Elf_exec_no_stack(im, r)
       \/ Elf_exec_starts(im, r)

Esp0After_same(d) == kstack_top(d)

\* What elf_exec restores when the program it ran at depth d has ended.
Esp0After(d) == IF d > 0 THEN kstack_top(d - 1) ELSE BOOT

\* A stack unmapped and its frames not freed.
Cleaned_leaks(m, p) ==
  [Unmap(m, StackPages(p.depth) \cup ImagePages(p.image)) EXCEPT
     !.free = GiveBack(m, ImagePages(p.image)).free]

\* The stack, then elf_unload.
Cleaned(m, p) == Unmap(Unmap(m, StackPages(p.depth)), ImagePages(p.image))

\* SYS_EXIT: elf_exit jumps back into the elf_exec that runs the program.
elf_exit ==
  /\ ~halted /\ exec_ctx_depth > 0
  /\ LET p == progs[exec_ctx_depth] IN
       /\ exec_ctx_depth' = p.depth
       /\ esp0' = Esp0After(p.depth)
       /\ SetMem(Cleaned(Mem, p))
       /\ progs' = SubSeq(progs, 1, p.depth)
  /\ UNCHANGED <<halted, others, hist>>

\* Another client of the allocator takes a frame or gives one back.
Other_alloc ==
  /\ ~halted /\ free # {} /\ Cardinality(others) < MaxOthers
  /\ free' = free \ {Nth(free, 0)} /\ others' = others \cup {Nth(free, 0)}
  /\ UNCHANGED <<pt, exec_ctx_depth, esp0, progs, halted, hist>>

Other_free(f) ==
  /\ ~halted /\ f \in others
  /\ free' = free \cup {f} /\ others' = others \ {f}
  /\ UNCHANGED <<pt, exec_ctx_depth, esp0, progs, halted, hist>>

Next ==
  \/ \E im \in Images : elf_exec(im)
  \/ elf_exit
  \/ Other_alloc
  \/ \E f \in others : Other_free(f)

Spec == Init /\ [][Next]_vars

-----------------------------------------------------------------------------
TypeOK ==
  /\ pt \in [Virt -> Virt \cup FRAMES \cup {NULL}]
  /\ free \subseteq FRAMES /\ others \subseteq FRAMES /\ leaked \subseteq FRAMES
  /\ stale \subseteq Virt
  /\ exec_ctx_depth \in 0 .. MAX_EXEC_DEPTH /\ exec_ctx_depth = Len(progs)
  /\ esp0 \in {BOOT} \cup 0 .. MAX_EXEC_DEPTH - 1
  /\ halted \in BOOLEAN
  /\ overlap \in {"none", "load", "failed"}

\* While a program runs, its system calls start on a kernel stack on which no
\* elf_exec is waiting for a program to end, through every nesting, exit and
\* failed start: they overwrite no saved context.  As many contexts are saved as
\* programs are nested.
EntryStackFree ==
  /\ TypeOK
  /\ progs # <<>> => \A i \in DOMAIN progs : progs[i].ctx # esp0

Owned == UNION {{progs[i].own[v] : v \in DOMAIN progs[i].own} : i \in DOMAIN progs}

\* As long as no program was loaded over the pages of another, the frames in
\* use are those of the running programs, those other clients hold, and those
\* of programs refused as too deep: no error path loses or keeps another one.
FramesConserved == overlap = "none" => FRAMES \ free = Owned \cup others \cup leaked

\* A program that nothing was loaded over keeps its pages and has its frames to
\* itself, whatever starts, fails or ends above it, unless a load that failed
\* met a running program (whose exit then frees frames it does not own).  For a
\* load address at the start of a page this is every page the image touches.
RunningIntact ==
  overlap # "failed" =>
    \A i \in DOMAIN progs :
      LET p == progs[i] IN
      ~p.met => /\ p.image.lo % PAGE = 0 => Touched(p.image) \subseteq DOMAIN p.own
                /\ \A v \in DOMAIN p.own :
                     /\ pt[v] = p.own[v] /\ p.own[v] \notin free \cup others
                     /\ \A u \in Virt \ {v} : pt[u] = pt[v] => u = pt[v] \/ u \in stale
=============================================================================
