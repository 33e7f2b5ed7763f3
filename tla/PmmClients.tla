----------------------------- MODULE PmmClients -----------------------------
(***************************************************************************)
(* The clients of the frame allocator: the parts of the kernel that call   *)
(* pmm_alloc and pmm_free (memory/vmm/vmm.cpp, fs/elf/elf.cpp, the self    *)
(* tests), in any order and with any address.  pmm.cpp keeps no owners; a  *)
(* client only has the addresses it was given.  held and lost record them, *)
(* and constrain nothing.                                                  *)
(***************************************************************************)
EXTENDS Pmm

CONSTANT Clients

VARIABLES
  held,   \* history: the frames a client was given and has not freed since
  lost    \* history: those of them that another client's pmm_free let go

clientVars == <<pmmVars, held, lost>>

ClientsInit ==
  /\ PmmInit
  /\ held = [c \in Clients |-> {}]
  /\ lost = [c \in Clients |-> {}]

Booting ==
  /\ memory_init \/ pmm_init \/ kmalloc_init
  /\ UNCHANGED <<held, lost>>

Alloc(c) ==
  /\ boot = "up"
  /\ \E addr \in Frames \cup {NULL} :
       /\ pmm_alloc(addr)
       /\ held' = [held EXCEPT ![c] = @ \cup ({addr} \ {NULL})]
       /\ lost' = [lost EXCEPT ![c] = @ \ {addr}]
  /\ UNCHANGED layout

\* The address may be one the client has freed before, or never got.  If the
\* frame has been handed to others by now, it is let go under them.
Free(c) ==
  /\ boot = "up"
  /\ \E addr \in Frames \cup {NULL, base + total} :
       /\ pmm_free(addr)
       /\ held' = [held EXCEPT ![c] = @ \ {addr}]
       /\ lost' = [d \in Clients |->
                     IF d = c THEN lost[d] \ {addr}
                     ELSE lost[d] \cup IF Freeable(addr) THEN held[d] \cap {addr} ELSE {}]
  /\ UNCHANGED layout

PmmNext == Booting \/ \E c \in Clients : Alloc(c) \/ Free(c)

PmmSpec == ClientsInit /\ [][PmmNext]_clientVars

-----------------------------------------------------------------------------
\* What a client may count on as its own.
Sound(c) == held[c] \ lost[c]

\* pmm_alloc hands no frame to two clients: two have the same frame only after
\* one of the two has had it freed under it by another client (pmm_free does
\* not know whose a frame is, so a stale second free does that).  And every
\* frame marked in the bitmap, and no other, is some client's.
HeldOnce ==
  /\ \A c, d \in Clients : c # d => Sound(c) \cap Sound(d) = {}
  /\ UNION {Sound(c) : c \in Clients} = {a \in Frames : Marked(a)}

\* The frames the bitmap itself lies in are never handed out.
BitmapReserved ==
  \A c \in Clients : \A a \in held[c] : a - base >= BitmapPages(total)

\* kmalloc.cpp: "pmm.cpp extends bmap_skip by KMALLOC_PAGES so PMM never
\* re-allocates these frames": the frames of the kernel heap are neither
\* handed out nor part of the bitmap.
HeapReserved ==
  boot = "up" =>
    \A a \in heap_pool .. heap_pool + KMALLOC_PAGES - 1 :
       a \in Frames => (\A c \in Clients : a \notin held[c]) /\ a - base >= BitmapPages(total)
=============================================================================
