# WarkRune: formal models

TLA+ models of the WarkRune kernel (`src/kernel`), model-checked with TLC, and
theorems about them proved with TLAPS. Every definition that stands for code is
listed in `PROJECT.json` with the lines it stands for.

## The system

WarkRune is a 32-bit x86 hobby operating system: one address space, one
processor, a shell in ring 0 and ELF programs in ring 3. `kernel_main`
(`kernel.cpp`) brings the parts up one by one and ends in the shell's loop.

| Part | Source | State | Operations | What makes it correct |
|---|---|---|---|---|
| Scheduler | `system/sched`, `system/tss`, `system/idt/idt.asm` | task table, current task, quantum, `esp0` | init, add, kill, tick | each task resumes on its own stack where it stopped; nobody starves; a killed task is gone |
| Frame allocator | `memory/pmm`, `memory/memory.cpp` | bitmap, counters, region | init, alloc, free | no frame twice; exact counters; bitmap, heap and frames disjoint |
| Virtual memory | `memory/vmm`, `memory/paging` | page tables, next address | map, unmap, alloc, free | a page's frame belongs to it alone |
| Shared regions | `memory/shmem` | region table | create, open, close | a failed create leaves nothing behind; a close frees its own pages only |
| Kernel heap | `memory/kmalloc.cpp` | block list | kmalloc, kfree, krealloc | blocks tile the heap, are merged, and are as large as asked |
| FAT12 driver | `fs/fat12.cpp` | the disk, open files | open, create, read, write, flush, close, delete, rename, mkdir, rmdir, ls | chains disjoint and ended; sizes covered; no cluster lost; a tree of files to its callers |
| Descriptors, pipes | `system/ipc/fd.cpp` | descriptor table, pipe rings | open, create, pipe, read, write, close | a pipe is a queue and lives as long as an end of it; no driver descriptor lost |
| Timer | `system/pit` | 64-bit tick count | tick, sleep, read | a reading is exact; a sleep is long enough and ends |
| ELF loader | `fs/elf`, `ring3`, `kctx.asm` | nesting depth, exec stacks, user pages | load, exec, exit | a parent survives its child; no frame is lost; a system call enters on a free stack |
| System calls | `system/syscall` | path buffer | dispatch | each call reaches its part with checked arguments |
| Shell | `shell/shell.cpp` | current directory, redirections | commands, pipelines, serial shell | a line's output goes where the line says, and it gives back what it opened |
| Keyboard, mouse | `io` | scancode ring, packet | interrupt, read | codes in order, letters in their case; packets aligned |
| Disk, serial, speaker, ACPI, RTC, graphics, library | `io`, `system`, `Graphics`, `klib` | device registers, pixels | port I/O | - |

How they interact. Calls are direct. The shared state is the frame bitmap
(used by `vmm`, `elf`, and, through the region's layout, `kmalloc`), the page
tables, the one descriptor table of all programs and the shell, and the driver's
table below it. The only concurrency is that of interrupts: the timer
(`pit_tick`, then `sched_tick`, which may change stacks), the keyboard and the
mouse. System calls come through an interrupt gate, with interrupts off;
several things they call (`kmalloc`, the pipes, `read_scancode`, `pit_ticks`)
turn them on again without looking. No code in the repository calls
`sched_add_task`: the multitasking the scheduler offers is an interface, and it
is modelled as one, for every way of calling it.

What is hard: ticks between any two instructions of kernel code, and what
`sched_tick` believes about the stack it interrupted; loads that are not atomic;
creates and program starts that fail half-way; programs that start programs in
one address space, each with its own kernel stack; the serial shell, which runs
a command line in the middle of a program of another command line; the end of a
full disk, a full directory, a full table, a full pipe, a full ring; two
descriptors on one file; a restart with open files; the order in which the two
ends of a pipe are closed; bytes of the mouse taken by the wrong reader; a long
sequence of allocations and frees, some of them wrong, that must not wear the
counters or the block list out. The full list, each at its line and with the
properties that cover it, is in `PROJECT.json` under `hazards`.

## Modules

| Module | Models | Checked by |
|---|---|---|
| `Sched` | `sched.cpp`, `timer_handler`, `tss.cpp` | `Sched.cfg` |
| `SchedProofs` | theorems about `Sched` | - |
| `Pmm` | `pmm.cpp`, `memory.cpp`, `kmalloc_init` | with `PmmClients` and `Shmem` |
| `PmmClients`, `MCPmm` | the callers of `pmm_alloc` and `pmm_free`, over `Pmm` | `Pmm.cfg`, `PmmHeapOverlap.cfg` |
| `Shmem`, `MCShmem` | `shmem.cpp`, `vmm.cpp`, `paging.cpp` over `Pmm` | `Shmem.cfg` |
| `MemoryProofs` | theorems about `PmmClients` and `Shmem` | - |
| `Fat12`, `MCFat12` | `fat12.cpp` | `Fat12.cfg` |
| `Fat12Proofs` | theorems about `Fat12` | - |
| `FileStore` | what a file system promises (abstract) | - |
| `Fat12Store`, `MCFat12Store` | the mapping from `Fat12` to `FileStore` | `Fat12Store.cfg` |
| `PipeQueues` | what pipes promise (abstract) | - |
| `Fd`, `MCFd` | `fd.cpp`, and its mapping to `PipeQueues` | `Fd.cfg` |
| `Pit` | `pit.cpp` against the interrupt flag | `Pit.cfg` |
| `PitProofs` | theorems about `Pit` | - |
| `Exec`, `MCExec` | `elf.cpp`, `kctx.asm` over page tables and frames | `Exec.cfg` |
| `ExecProofs` | theorems about `Exec` | - |
| `Kmalloc` | `kmalloc.cpp` | `Kmalloc.cfg` |
| `KmallocProofs` | theorems about `Kmalloc` | - |
| `Shell` | `run_pipeline`, `dispatch`, the serial shell, over `Fd` | `Shell.cfg` |
| `ShellProofs` | theorems about `Fd`, that it implements `PipeQueues`, and about `Shell` | - |
| `Input`, `MCInput` | `keyboard.asm`, `keyboard.hpp`, `mouse.cpp` | `Input.cfg` |
| `InputProofs` | theorems about `Input` | - |

Definitions named `X_<fault>` are faulty variants of the `X` after them (a
dropped guard, a lost update, an off-by-one). No specification uses them; they
show that each property notices a mistake in the code it is about.

### Sched

A stack pointer is the kernel stack it points into and a depth in it. `cpu` is
the processor's own pointer: `timer_handler` pushes the frame on whatever stack
the processor is on and hands that pointer to `sched_tick`, so a wrong return
value is carried on by the next tick instead of being repaired by the model.
`frame` is a history variable: where each stack's code was interrupted.
`sched_tick` follows the code: save (line 142), count the quantum (144-147),
search (149-157), keep or switch (159-167). `sched_add_task` is two actions,
because a tick may come between the filling of the slot and `task_count++`.
`sched_test` is the step from `"sched"` to `"tested"`: it restores everything
but `esp0`, which its own switches leave at a made-up address. Only task 0 runs
code with interrupts on in ring 0 (it is the shell), so only it adds tasks.

### Pmm, PmmClients

Addresses are frame numbers. The units that fix the layout (bits of a bitmap
word, words of a page, pages of the heap) are constants, so that a few frames
show the layouts of large machines. The code keeps the 64-bit base and length of
an E820 entry in 32-bit words (`pmm.cpp:31-32`, `kmalloc.cpp:50`); the assumption
on `FRAMES_4GB` is that usable entries end below 4 GB, where that loses nothing.

`PmmClients` adds who calls: a client frees what it holds, what it has freed
before, and addresses it never had. `held` and `lost` are history variables:
what a client was given and has not freed, and what of it another client's
`pmm_free` has let go meanwhile. `pmm.cpp` keeps no owners, so a stale second
free of a frame that was handed out again does let it go under its new owner, and
the next `pmm_alloc` may give it to somebody else. `HeldOnce` says that this is
the only way for two clients to have one frame.

### Shmem

Extends `Pmm`: `vmm_alloc` is `pmm_alloc` and `paging_map` in one step, as
nothing runs in between. The loops of `shmem_create` and `shmem_close` take a
step per page, so that the run visits a create that fails at every page;
`op` is the call in progress. Names are model values and `Cut` is what
`name_copy` makes of them: a name of more than 31 characters is stored as
another name. `dir` says whether a page-directory entry has `PAGE_USER`.
`FB_PAGES` are the pages of this range that `paging_init` has mapped to the
display's frame buffer, which on a PC often lies at 0xE0000000 or 0xFD000000.

### Fat12, FileStore, Fat12Store

The disk is the allocation table, the root directory and the clusters' contents in
units (a directory entry, or a piece of a file). Each call is one action built
from the driver's own helpers (`fat_alloc`, `alloc_dir_entry`, `dir_write_entry`,
...), which transform a disk; `Skip` and `Write` are the loops of `fat12_write`,
with `Skipped` and `Written` as their bodies. A call that is refused before it
changes anything is no step. `Restart` is the power call under open files:
`orphans` remembers the clusters it cut off and the one that `fat12_mkdir` loses
when its parent is full, so that `NoLostClusters` can say that nothing else loses
one. `FileStore` is the promise: a tree, contents, descriptors with a position,
and how much of a file survives a restart. `Fat12Store` computes that tree from
the driver's state and checks that every step of the driver is a step of it.

Three constants name what callers may do and the driver does not refuse: open a
file twice (`SharedOpen`), delete an open file (`DeleteOpen`), rename across
directories (`CrossDirRename`). All runs have them FALSE: the properties hold for
callers that do none of it. Set to TRUE, the first breaks `NoLostClusters` (two
descriptors that both allocate a first cluster), the second `NoCrossLink` (the
descriptor writes into clusters that are free or another file's), and the third
`NamesUnique` (line 877 looks in the new path's directory, and the name is
written into the old one). The comment at lines 879-880 restricts rename to one
directory; nothing says what the other two should do.

### Fd, PipeQueues

`fd_read` and `fd_write` on a pipe are one step: their loops run between `cli` and
`sti`. Of the FAT12 driver only the set of its open descriptors is kept.
`PipesAreQueues` is a refinement: the rings are queues of at most `PIPE_BUF` bytes
with two ends, and only a pipe with both ends closed begins anew.

### Pit

A load of `ticks` is two loads in either order, and at most one tick falls
between two of the caller's steps. The interrupt flag is part of the state:
`pit_sleep` inherits it, `pit_ticks` clears and sets it. `caller` is who sleeps:
the kernel with interrupts on, or a program, whose `SYS_TIME` came through an
interrupt gate. The program's `hlt` is the end of everything, and
`SleepReturns` is about the kernel.

### Exec

`elf_exec` runs a program inside itself: its activation waits on a kernel stack
until `elf_exit` jumps back into it. `progs` is the stack of those activations,
each with the stack its saved context lies on (`ctx`) and, as history, the
frames it was given (`own`). A call up to the jump into ring 3 is one step, since
only interrupt handlers run meanwhile. `Init` is the identity mapping of
`paging_init`: a program is mapped over it, and a page of an ended program is
mapped to nothing at all, so that a later copy of a segment may fault
(`Elf_exec_faults`; the kernel halts, and the run does not ask for a next step).

The code does not keep programs apart, and the properties say what it does keep.
`overlap` remembers whether a load has met the pages of a running program
(`"load"`), or did so and failed (`"failed"`, after which an exit frees frames
that belong to others). `leaked` are the frames of programs refused as too deep,
`stale` the pages refused programs were left mapped at. `FramesConserved` and
`RunningIntact` hold beside those and nothing else.

### Kmalloc

A block is known by the offset of its header. `merge_free_blocks` takes a step
per turn of its loop, so that the tiling is checked in the middle of it and its
end is a liveness property; no other call can begin meanwhile (interrupts are
off). `kfree_again` frees any block, whoever has it, as `SYS_MEM` lets a program
do; once a block was freed under its owner, `misused` ends what the model says
about ownership, and the list must still be sound. A header that was merged away
is in `dead` as long as its magic may be there. Freeing it (`kfree_merged`) writes
1 to the byte where its `free` was, and if a block's header begins there, that
block loses its magic and is in `broken`: `kfree` refuses it from then on
(`kfree_refused`) and `krealloc` returns null. Left out are the contents of
blocks: a client may have destroyed a dead magic (the call is then refused), the
stray byte may hit a client's data, and a `krealloc` whose size wraps copies over
the headers behind its new block (`copy.bytes` beyond `copy.room`), after which
the model goes on with the list as it was. `size` is kept in a word that
wraps: the largest sizes are rounded to 0 and get an empty block.

### Shell

Extends `Fd` and drives it: `calls` is the stack of `run_pipeline` activations,
the keyboard's and, inside a program that waits for a key, the serial line's.
There is no third: the serial shell refuses `exec` and cannot start a program.
A line is one of the four shapes the code tells apart; a command is what it does
to the descriptors (print, copy its input, run a program), one output at a
time. A line with a syntax error prints and returns, as `Create_fails` does.
Programs open files and pipes, close what they opened, and exit without closing.
The descriptor that `cmd_syscall` opens and closes within one command is left
out: no other step comes between.

`Counted` keeps the history `PipeDelivers` needs: how much the left side wrote,
how much `cat` read, and whether another activation touched the pipe.

### Input

The keyboard handler and `read_scancode` (interrupts off) are single steps over
the ring; `pending` is what a queue would hold, with the case each letter was
typed in. The mouse sends packets byte by byte to the handler, whose decoder is
modelled on the bytes' values: after the initialisation took or lost bytes it
may read a movement as a header. `truth` is the state the whole packets sent so
far make. The two share no variable, and each behaviour follows one of them
(`active`).

## Runs

| Run | Expected | What it shows |
|---|---|---|
| `sched` | pass | four tasks, ticks anywhere: stacks and `esp0` agree with the table; a task killed by another stays dead; a READY task runs |
| `pmm` | pass | no frame to two clients but through another's free, exact counters, bitmap and heap reserved, where the bitmap has the size `kmalloc.cpp` assumes |
| `pmm_heap_overlap` | violation | `HeapReserved`: with a smaller bitmap the heap's last page is allocatable |
| `shmem` | pass | no page or frame lost or shared while creates fail at every page, beside a frame buffer; `RegionsServe`: names, sizes and ring-3 reach; freed addresses are not reused |
| `fat12` | pass | chains, sizes, clusters and directories on a disk and in subdirectories that fill up, with restarts |
| `fat12_store` | pass | the driver implements `FileStore` |
| `fd` | pass | pipes and driver descriptors are owned, whatever the order of closes; pipes are bounded queues, also when reused |
| `pit` | pass | exact readings, no early wake-up, every sleep of the kernel ends |
| `exec` | pass | system calls enter on a stack no `elf_exec` waits on; frames are conserved on every error path; a running program nothing was loaded over keeps its pages |
| `kmalloc` | pass | the blocks tile the heap at every turn of the merge, no two neighbours stay free, blocks in use are those clients have, but for blocks whose magic was overwritten, and fit; `kfree` returns |
| `shell` | pass | redirections never outlive their descriptors, output goes where the line says, nothing is left open, pipes deliver what fitted, lines end |
| `input` | pass | the scancode ring is a queue, letters keep their case, the mouse's state is that of its packets, a decoder out of step recovers |

The type invariants are checked as a conjunct of another invariant of the same
module (`RegionsServe`, `DirectoriesSound`, `DescriptorsOwned`, `EntryStackFree`,
`Tiling`, `TargetsOpen`, `RingIsQueue`); those of `Sched` and `Pmm`, with
`OneRunning` and `UnpublishedHidden`, are proved instead. The violation is a
disagreement between the code and its own comments; `PROJECT.json` quotes both
sides under `findings`.

### Known disagreements

Met while modelling, and not runs of their own. The models do what the code
does; where a property would be false for it, the property or the run's bounds
say so.

- `sched.cpp:162` makes the task it leaves READY even if it was killed, so that a
  task killed while it is the current one runs again, although `sched_test`
  (lines 111-114, 128-129) takes a killed task to be out of the rotation.
  `KilledStaysDead` is about the others.
- `pit.cpp:25`: `SYS_TIME` reaches `pit_sleep` through an interrupt gate
  (`syscall.cpp:294`), with interrupts off, and its `hlt` never ends, although
  `syscall.hpp:20` offers sleep to programs. `SleepReturns` is restricted to the
  kernel's sleeps in its formula; without that the `pit` run refutes it.
- `fat12.cpp:542` returns `max_ents` (10000) for a subdirectory it has just
  lengthened, and `dir_write_entry` refuses that index, although lines 515-516
  promise an entry ("Extends subdirectory chain if needed"); `fat12_mkdir` then
  loses its cluster. Subdirectories do fill up in the `fat12` run, and
  `NoLostClusters` excepts that cluster by name (`orphans`).
- `vmm.cpp:20` hands out addresses from 0xD0000000 upwards without a look at the
  page tables, and `paging.cpp:67-70` may have mapped the frame buffer there: a
  region that reaches it takes its pages over, `shmem_close` unmaps them, and
  `fb_present` then draws into the region or faults. No document speaks of the
  two together; `PagesOwned` counts pages as the display's only below that point.
- `kmalloc.cpp:93-95` takes a merged-away header for a block and writes over what
  lies there now, which may be another block's magic; that block, if in use, is
  never freed. `BlocksHeld` excepts such blocks (`broken`).
- `pmm.cpp:60-67` keeps no owners: a second free by one client lets a frame go
  that another has by now. `HeldOnce` excepts such frames (`lost`).
- `fat12.cpp:974` takes index 0 for "not found", although line 493 says
  "Returns entry index or -1": the first directory of its parent cannot be listed.
- `elf.cpp:98` counts pages from `load_base`, so that an image that begins within
  a page may end in one that was not mapped for it; `RunningIntact` claims the
  touched pages for images that begin at a page.
- `elf.cpp:103-104` and `:117-118` free frames that stay mapped, and `:198`
  refuses a program that is already loaded; `stale` and `leaked` are those.
- `shell.cpp:853`: a plain command on the serial line prints to wherever the
  outer line's output goes, and its `cat` reads the outer line's pipe.
- `shell.cpp:532`: in `a > b | c` the `>` is not in what is split there, and the
  file is named after the command; no descriptor is affected.
- `keyboard.hpp:28`: releasing one shift key while the other is down ends shift;
  `CaseKept` excepts it.
- `kctx.asm:18` does not use the saved return address: it returns through the
  stack slot, which is why `EntryStackFree` matters.
- `keyboard.asm:39` changes `ebx`, which its C++ callers expect to be kept.

### Bounds

- `Sched`: `MAX_TASKS` 4 is the real value. A quantum of 3 has a first, a middle
  and a last tick; the code only distinguishes those. Two depths tell a frame
  from another one on the same stack.
- `Pmm`: a bitmap page covers six frames; the maps have two regions in either
  order, a tie, reserved holes, and no usable region. One or two bitmap pages.
  Two clients and up to five frames: enough for one to free a frame twice, the
  other to be given it in between, and the first to be given it again.
- `Shmem`: three allocatable frames, five pages over three directory entries and
  two slots, so that creates fail for want of each; sizes 0, a byte over a page,
  and one whose rounding wraps. The middle page is the frame buffer's, so that
  regions lie below it, take it over, and lie above it.
- `Fat12`: three clusters of one entry or one piece of a file, three names for a
  root directory of two entries, a directory below the root with two names, of
  which the second finds it full, transfers that cross a cluster and overrun the
  disk. The refinement run has two clusters of two units, and two contents, which
  tell whose data is where.
- `Fd`: three descriptors beside the standard streams, which may be closed, one
  file, and two pipes of two bytes: a pipe with one end left beside a whole one,
  transfers that stop short and wrap around. Both outcomes of `fd_open` occur. A
  `fd_pipe` that finds one slot undoes what it did and is no step. The bytes are
  interchangeable, and symmetric in the run.
- `Pit`: the low half has two bits, so that three wraps fall into a run;
  `MaxStart` bounds the ticks at which a call may begin, never the tick itself
  during a call. Both kinds of callers.
- `Exec`: eight frames, some of them below the pages' own numbers, as in a
  machine whose allocator's region overlaps the identity mapping; three images,
  one of two pages, one unsound that meets it, and one that begins within a page
  and reaches into the first stack; a nesting of two, so that the third program
  is too deep; stacks of two pages. A program with its stack takes three or four
  frames and other clients one, so that starts fail at every point.
- `Kmalloc`: a heap of six headers' size, requests of one alignment unit, of two,
  of an odd size, and one whose rounding wraps: up to five blocks. Two
  blocks of one unit, freed, and one of two units in their place leave a dead header
  right before the header that follows.
- `Shell`: four descriptors beside the streams and two pipes of two bytes, read
  one byte at a time: a pipe with a file and one more descriptor, so that every
  create and pipe of the inner line fails in some behaviour; pipes overflow. Programs
  that have left or hold a descriptor open no more (`MaxLeft`): a file or both ends
  of a pipe may be left behind, which fills the table together with an outer line.
- `Input`: a ring of four (three codes), two shift keys and a letter; a screen of
  three by two, movements of which one looks like a header.

### Fairness

`Sched` assumes weak fairness of the tick only: `pit_init` leaves the PIT
running for ever and nothing in the scheduler masks it. Nobody owes kernel code
a step. `Pit` adds weak fairness of the caller's own steps: the processor
executes. `Kmalloc` assumes it of `merge_free_blocks` (interrupts are off and it
makes no call), `Shell` of what the kernel does by itself between two outputs of
a command, and not of users, programs, or a command's wish to print more.
`Input` assumes that a mouse that began a packet sends the rest; `Realigns`
states as its premise that the mouse goes on being moved, and that its movements
have bit 3 clear from some time on (with others the check of that bit cannot
tell). Everything else is safety and assumes nothing. `Pit` is checked
without the deadlock check: a program's sleep halts the processor with interrupts
off, and it really has stopped.

## Proofs

Every theorem is about all values of the constants, bounds included, under the
named `ASSUME`s of the modules (and, for `HeapReservedWhereItFits` and `Fat12`, the
hypotheses named below): numbers have the right sign, the heap and the
word are multiples of the alignment, memory maps are sequences of entries, the
images and the user stacks lie in the address space, a header byte of the mouse
has bit 3 set. TLC evaluates these on every run. An invariant of a run is seldom
inductive as it stands; each module defines what has to be added and says why.

`SchedProofs`: `TypeOK`, `OneRunning`, `StackOwnership`, `KernelStackOwned`,
`UnpublishedHidden` and `KilledStaysDead`. The inductive invariant adds: before
`sched_init` the table is empty and the processor is on stack 0 (`BringUp`);
slot `i` has stack `i` as its `esp0` (`StacksAssigned`), without which a switch
could load another task's; the slot being filled is the one after the last and
is complete (`Filled`), without which publishing it could break
`StackOwnership`. A tick is split as the code is: quantum, keep, switch.

`MemoryProofs`, on `PmmClients`: `PmmTypeOK`, `HeldOnce`, `FreeCountExact`,
`BitmapReserved`. The heart is `Counted`: the counter is the reserved pages plus
the set bits of the allocatable range. That `used`, which is unsigned and counts
down, never wraps follows from it, and it holds because `pmm_alloc` and `pmm_free`
move a frame of that range whenever they move the counter (lemma `CountMoves`).
`HeldOnce`, for any number of clients, is inductive with that: `Owners` ties what
clients hold to the marked frames. `Layout` ties the reserved pages to the region.
`HeapReserved` is false in general (`pmm_heap_overlap`). `HeapReservedWhereItFits`
says where it holds: on every machine whose bitmap ends at or before page
`KMALLOC_PMM_SKIP` of the region and leaves the heap within the reserve. It needs
that `memory_init` and `pmm_init`, which scan the map separately, choose one
region (`BestUnique`, `HeapPlaced`).

`MemoryProofs`, on `Shmem`, over the allocator's invariant: `FramesConserved`,
`PagesOwned`, `RegionsServe` and `AddressesNotReused`. `Memory` says that the
frames held are those of the mapped pages and the loader's, one page each, and
that pages are handed out in order. `Ownership` adds what the call in progress
knows (`CallSound`): the pages it has got are one run that ends at `next_virt`,
which is what lets the undoing of a failed create, and a later close, find its
pages by counting from the first.

`ShellProofs`, on `Fd`: `DescriptorsOwned`, and the refinement of `PipeQueues`
(`PipesRefineQueues`: initial states map to initial states and each step to a
step or a stutter). `EndsSingle` (no two descriptors on one end) is needed for a
close to leave the other pipes' ends as they are. `RingsSound` (the write
position is `count` after the read position) makes the mapped queue of a ring
after a wrapped transfer that of before with the bytes appended or removed. The
lemmas on reads and writes are about transfers of any length, so that the shell's
proofs can use them for `cat`'s chunks and for the output of commands.

`ShellProofs`, on `Shell`, adds to that invariant what `run_pipeline` knows:
`TargetsOpen`, `OutputInPlace`, `NothingLost`, `PipeDelivers`, and
`DescriptorsOwned` once more, now for the shell's calls instead of arbitrary ones.
None of the four is inductive. `Placed` says which descriptors an activation has
open by the shape of its line and how far it has come, and `Owners` that no other
activation or program has them: without it the `fd_close` of one line could close
what another still writes to. `Stacked` says that an activation that waits is the
keyboard's and is in a program. That is what makes `OutputInPlace` true although a
nested line resets `g_out_fd`: the outer command prints nothing after its program
returns (`Routed` allows the reset in `prog` and `done` only). `Balanced` relates
the ring's count to the bytes written and read, in every state of the pipeline;
the end of `cat`'s loop is then the case of an empty ring.

`Fat12Proofs`: `NoCrossLink`, `ChainsEnd`, `SizeWithinChain` and
`DirectoriesSound`, for every size of the disk, of clusters, of the root directory
and of the table of open files, and any paths and transfers, with full disks,
full directories and restarts among the steps. Two hypotheses, both satisfied by
the run's instance, are stated in each theorem. `Orderly` is the run's own: the
callers do none of the three things above. `[]SmallDirs` says that every
subdirectory that can be reached, with one cluster more, has at most 10000 entries
(`SUBDIR_MAX_ENTS`). Past that the index `alloc_dir_entry` returns for a lengthened
directory is that of an entry in use, which the driver would overwrite.
Subdirectories may fill up below that limit, as they do in the run: the cluster
`fat12_mkdir` then loses is free of everything else.

The invariant is about the whole disk, because the directories that can be reached
change with every call: it holds of all entries in allocated places, and
`DirectoriesIs` shows that those the driver finds are among them. The heart is
`Links`, `EntHeads` and `FdHeads`: no allocated cluster has two links to it, and
the first cluster of an entry or a descriptor has none and is nobody else's. From
this alone it follows that chains end, never meet, and have a cluster per link
(`HeadChain`, `ChainsApart`, `CardChain`). A rename or delete is safe for the other
entries because a place belongs to one slot of one directory (`PlacesApart`), and
a write because a file's clusters hold no entries (`Kinds`). `Grows` names what an
allocation leaves alone, so that a call which allocates several times (a write
that skips past the end) is a chain of such steps: `SkipInv` and `WriteInv` are
its loops, whose bodies keep the whole invariant at every turn. `Anchored` is what
`fat12_flush` relies on when it writes back to a directory and an index it has
remembered since the open.

`PitProofs`: `TicksExact` and `NeverEarly`. The invariant carries from each load
to the comparison that what was loaded lies between the tick the sleep began at
and now, as long as the high word stands still.

`ExecProofs`: `EntryStackFree`, `FramesConserved`, `RunningIntact`. `Nested`
says what every activation saved. `Apart` says that a page of a running program
maps no frame that is free, another client's or another such page's, apart from
pages left mapped by `paging_init` or a refused load; it makes an exit, which
frees whatever its pages map, free nobody else's frames. `Apart` is only claimed
until a failed load meets a running program, because it is false afterwards, and
`Accounted`, the balance of all frames, until any load does. The proof has to
know that `n` calls of `pmm_alloc` give the `n` lowest frames, and that there are
that many: `Ranks`, an induction. It is done by taking the least counterexample
(`Least`, from the well-foundedness of `<`), since the induction theorems of the
library take operators.

`KmallocProofs`: `Tiling`, `NoFreeNeighbours`, `HeldFits`, `HeldExactly`. `Tiles`
is the tiling of any list; splitting and merging are lemmas about it.
`MergedSoFar` is the loop invariant of `merge_free_blocks`. Once a client has
freed what was not its own, nobody is taken to hold anything (`Owned`), and the
tiling still holds. A free of a merged-away header changes no boundary and no flag
of the list: a block it costs its magic is one of `broken`, and once in use stays
so. The sums of `HeldExactly` (what `kmem_info` counts) are folds over the blocks.
Lemmas `SumExists`, `SumUnique` and `SumRemove` show that the fold is a sum (it
exists, does not depend on the set it is taken in, and loses exactly the size of a
block that is left out). `SizesAddUp` shows that the blocks below each block add
up to its address. All of these are inductions, done by the least counterexample.

`InputProofs`: `RingIsQueue`, `CaseKept`, `Tracks`. `CaseSound` says of every code
that waits what shift will be once the codes before it are read; it is needed
because a letter's case is decided when it is read. `Decoding` says that the bytes
the decoder has and those to come make the packet the mouse sent.

Only model-checked:

- liveness: `NoStarvation`, `SleepReturns`, that `kfree` and command lines end,
  `Realigns`; the prover does not do fairness;
- `NoLostClusters`: the invariant of `Fat12Proofs` says what a chain may hold, not
  that every allocated cluster is on one, which each call that links or frees
  clusters would have to be shown to keep;
- `ImplementsFileStore`: its mapping computes the tree of files by a recursive
  operator, and what such an operator returns cannot be proved here.

## Not modelled

The list with reasons is in `PROJECT.json` under `components`. Drivers that only
move bytes through ports, ACPI and RTC tables, graphics, text, the kernel
library, panic and the bootloader keep no state whose change a property could be
about. Below the modules' level: the TLB, the packing of 12-bit table entries,
the compiler's layout of stack frames.

## Plan

In this order.

1. `Fat12Disk`: `fat12_write` and `fat12_mkdir` at the level of sector writes,
   two table copies, a power cut between any two.
2. The rest of the system calls: the pointer checks, the path buffer that a call
   of the serial shell shares with the call it interrupts, and the current
   directory of the shell.
