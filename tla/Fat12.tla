------------------------------- MODULE Fat12 -------------------------------
(***************************************************************************)
(* The FAT12 driver (fs/fat12.cpp): the allocation table, directories and  *)
(* files as they lie on the disk, and the table of open files.             *)
(*                                                                         *)
(* A cluster has UNITS units; a unit holds one directory entry, or one     *)
(* piece of a file, and sizes and positions are counted in units.  The     *)
(* calls run to completion one at a time (the driver is entered from       *)
(* system calls, with interrupts off, and from the shell; no interrupt     *)
(* handler touches it), so each is one action; a call that is refused      *)
(* before it changes anything is no step.  The two copies of the table are *)
(* written by the same fat_set and are one variable here.                  *)
(* Definitions named X_<fault> are faulty variants of the X that follows.  *)
(***************************************************************************)
EXTENDS Integers, Sequences, FiniteSetsExt

CONSTANTS
  CLUSTERS,       \* g_total_clusters
  ROOT_ENTRIES,   \* g_root_entries
  UNITS,          \* units of a cluster
  FAT12_MAX_FDS,
  Names,          \* path components as callers write them
  Names83,        \* 8.3 names
  To83,           \* to_83, from Names to Names83: upper case, cut to 8 and 3
  Paths,          \* the paths callers pass: sequences of Names
  Values,         \* contents of a unit
  Transfers,      \* bound: the lengths, in units, of reads and writes
  \* What callers may do; the driver itself refuses none of it.
  SharedOpen,     \* open a file that is open already
  DeleteOpen,     \* delete a file that is open
  CrossDirRename  \* rename from one directory to another

ASSUME Fat12Assumption ==
  /\ CLUSTERS \in Nat \ {0} /\ ROOT_ENTRIES \in Nat \ {0} /\ UNITS \in Nat \ {0}
  /\ FAT12_MAX_FDS \in Nat \ {0} /\ Transfers \subseteq Nat \ {0}
  /\ To83 \in [Names -> Names83]
  /\ Paths \subseteq Seq(Names)
  /\ SharedOpen \in BOOLEAN /\ DeleteOpen \in BOOLEAN /\ CrossDirRename \in BOOLEAN

FREE == 0
EOC  == -1
ROOT == 0                       \* directory cluster 0 is the root directory
Cluster == 2 .. CLUSTERS + 1
FDs     == 0 .. FAT12_MAX_FDS - 1
Unit    == 0 .. UNITS - 1

\* What a unit can hold.  A zeroed unit reads as DIR_END in a directory; of a
\* deleted entry only the mark in its first byte is ever looked at.
Zero    == [k |-> "zero"]
Deleted == [k |-> "deleted"]
Data(v) == [k |-> "data", val |-> v]
Ent(name, isdir, first, size) ==
  [k |-> "ent", name |-> name, dir |-> isdir, first |-> first, size |-> size]

NoFD == [used |-> FALSE]

VARIABLES
  fat,      \* cluster -> FREE, EOC or the next cluster
  root,     \* the root directory: a sequence of units
  data,     \* cluster -> its units
  g_fds,    \* the table of open files
  orphans   \* history: clusters that a restart cut off or mkdir lost

disk == <<fat, root, data>>
vars == <<fat, root, data, g_fds, orphans>>

-----------------------------------------------------------------------------
\* Reading the disk.

After(f, c) == IF c \in Cluster THEN f[c] ELSE EOC

\* The clusters of a chain in order.  CLUSTERS bounds the links followed (a chain
\* without a cycle has fewer).
Chain(f, c) ==
  LET walk[k \in 0 .. CLUSTERS] == IF k = 0 THEN c ELSE After(f, walk[k - 1])
  IN  [k \in {n \in 1 .. CLUSTERS + 1 : walk[n - 1] \in Cluster} |-> walk[k - 1]]

InChain(f, c) == LET s == Chain(f, c) IN {s[i] : i \in DOMAIN s}

\* The units of a directory by index, as dir_read_entry finds them.
Units(dc) ==
  LET chain == Chain(fat, dc)
  IN  IF dc = ROOT THEN root
      ELSE [i \in 0 .. UNITS * Len(chain) - 1 |-> data[chain[i \div UNITS + 1]][i % UNITS]]

Entry(dc, i) == Units(dc)[i]

\* The entries the scans see: they stop at the first DIR_END.
Seen(units) ==
  LET ends == {i \in DOMAIN units : units[i] = Zero}
  IN  {i \in DOMAIN units : units[i].k = "ent" /\ \A j \in ends : i < j}

Listed(dc) == Seen(Units(dc))

NotFound == -1

find_in_dir(dc, name) ==
  LET units == Units(dc)
      hits  == {i \in Seen(units) : units[i].name = name}
  IN  IF hits = {} THEN NotFound ELSE Min(hits)

\* One component of a path, from directory dc.
Descend(dc, name) ==
  LET i == find_in_dir(dc, name)
  IN  IF dc = NotFound THEN NotFound
      ELSE IF i = NotFound \/ ~Entry(dc, i).dir THEN NotFound
      ELSE Entry(dc, i).first

\* resolve_path: the directory of the last component, NotFound when a
\* component on the way is missing or not a directory.
resolve_path(path) ==
  LET dir[k \in 1 .. Len(path)] ==
        IF k = 1 THEN ROOT ELSE Descend(dir[k - 1], To83[path[k - 1]])
  IN  dir[Len(path)]

NameOf(path) == To83[path[Len(path)]]

\* resolve_path and find_in_dir: where the path leads.  ok is FALSE for the
\* root itself and when the way there is broken; idx may be NotFound.
Lookup(path) ==
  LET dc == resolve_path(path)
  IN  IF path = <<>> \/ dc = NotFound THEN [ok |-> FALSE, dc |-> ROOT, idx |-> NotFound]
      ELSE [ok |-> TRUE, dc |-> dc, idx |-> find_in_dir(dc, NameOf(path))]

Hit(l)  == l.ok /\ l.idx # NotFound
Miss(l) == l.ok /\ l.idx = NotFound
IsDir(l) == Entry(l.dc, l.idx).dir

-----------------------------------------------------------------------------
\* Changing the disk.  d is a disk [fat, root, data] in the course of a call.

Disk == [fat |-> fat, root |-> root, data |-> data]
SetDisk(d) == fat' = d.fat /\ root' = d.root /\ data' = d.data

Blank == [u \in Unit |-> Zero]

\* fat_alloc: the lowest free cluster, 0 when the disk is full.
FreeClusters(d) == {c \in Cluster : d.fat[c] = FREE}
fat_alloc(d) == IF FreeClusters(d) = {} THEN 0 ELSE Min(FreeClusters(d))

Claim_unmarked(d, c) == [d EXCEPT !.data[c] = Blank]
Claim_dirty(d, c)    == [d EXCEPT !.fat[c] = EOC]

\* fat_alloc and zero_cluster, and the link from cluster c to it.
Claim(d, c) == [d EXCEPT !.fat[c] = EOC, !.data[c] = Blank]
Extend(d, last, c) == [Claim(d, c) EXCEPT !.fat[last] = c]

fat_free_chain_head(d, c) == IF c \in Cluster THEN [d EXCEPT !.fat[c] = FREE] ELSE d

fat_free_chain(d, c) ==
  [d EXCEPT !.fat = [x \in Cluster |-> IF x \in InChain(d.fat, c) THEN FREE ELSE d.fat[x]]]

\* dir_write_entry; indices past the directory's chain are refused.
InDir(d, dc, i) ==
  i < (IF dc = ROOT THEN ROOT_ENTRIES ELSE UNITS * Len(Chain(d.fat, dc)))

dir_write_entry(d, dc, i, e) ==
  IF ~InDir(d, dc, i) THEN d
  ELSE IF dc = ROOT THEN [d EXCEPT !.root[i] = e]
  ELSE [d EXCEPT !.data[Chain(d.fat, dc)[i \div UNITS + 1]][i % UNITS] = e]

\* alloc_dir_entry: the first unused slot; a full subdirectory gets another
\* cluster, but the index returned is SUBDIR_MAX_ENTS.  d is the disk before.
SUBDIR_MAX_ENTS == 10000

Vacant(dc) == LET units == Units(dc) IN {i \in DOMAIN units : units[i].k # "ent"}

alloc_dir_entry(d, dc) ==
  LET new  == fat_alloc(d)
      last == Chain(d.fat, dc)[Len(Chain(d.fat, dc))]
  IN  IF Vacant(dc) # {} THEN [d |-> d, idx |-> Min(Vacant(dc))]
      ELSE IF dc = ROOT \/ new = 0 THEN [d |-> d, idx |-> NotFound]
      ELSE [d |-> Extend(d, last, new), idx |-> SUBDIR_MAX_ENTS]

HasSlot(a) == a.idx # NotFound

-----------------------------------------------------------------------------
\* A disk fresh from mkfs, and fat12_init.
Init ==
  /\ fat = [c \in Cluster |-> FREE]
  /\ root = [i \in 0 .. ROOT_ENTRIES - 1 |-> Zero]
  /\ data = [c \in Cluster |-> Blank]
  /\ g_fds = [fd \in FDs |-> NoFD]
  /\ orphans = {}

Open(fd) == g_fds[fd].used

\* fd_alloc: the lowest unused descriptor.
FreeFD(fd) == ~Open(fd) /\ \A x \in FDs : ~Open(x) => fd <= x
NewFD(first, size, dc, i) ==
  [used |-> TRUE, first |-> first, size |-> size, pos |-> 0, parent |-> dc, idx |-> i]

\* The descriptors open on entry i of directory dc.
OpenOn(dc, i) == {fd \in FDs : Open(fd) /\ g_fds[fd].parent = dc /\ g_fds[fd].idx = i}

\* In the calls, l is bound to the one Lookup(path), so that it is made once.
fat12_open(path) ==
  \E l \in {Lookup(path)} :
    LET e == Entry(l.dc, l.idx)
    IN  /\ Hit(l) /\ ~IsDir(l)
        /\ SharedOpen \/ OpenOn(l.dc, l.idx) = {}
        /\ \E fd \in FDs :
             /\ FreeFD(fd)
             /\ g_fds' = [g_fds EXCEPT ![fd] = NewFD(e.first, e.size, l.dc, l.idx)]
        /\ UNCHANGED <<fat, root, data, orphans>>

\* A create whose entry cannot be written has still extended the directory,
\* and one that finds no descriptor has still made the file.
fat12_create(path) ==
  \E l \in {Lookup(path)} :
    LET a == alloc_dir_entry(Disk, l.dc)
    IN  /\ Miss(l)
        /\ HasSlot(a)
        /\ SetDisk(dir_write_entry(a.d, l.dc, a.idx, Ent(NameOf(path), FALSE, 0, 0)))
        /\ \/ \E fd \in FDs :
                /\ FreeFD(fd) /\ InDir(a.d, l.dc, a.idx)
                /\ g_fds' = [g_fds EXCEPT ![fd] = NewFD(0, 0, l.dc, a.idx)]
           \/ /\ ~InDir(a.d, l.dc, a.idx) \/ \A fd \in FDs : Open(fd)
              /\ UNCHANGED g_fds
        /\ UNCHANGED orphans

-----------------------------------------------------------------------------
ReadLen_unclipped(f, n) ==
  LET have == UNITS * Len(Chain(fat, f.first)) - f.pos
  IN  IF have <= 0 THEN 0 ELSE Min({n, have})

\* fat12_read: how many units a read of n gets; the chain may end early.
ReadLen(f, n) ==
  LET chain == Chain(fat, f.first)
      left  == f.size - f.pos
      have  == UNITS * Len(chain) - f.pos
  IN  IF f.pos >= f.size \/ f.first = 0 \/ have <= 0 THEN 0 ELSE Min({n, left, have})

fat12_read(fd, n) ==
  /\ Open(fd)
  /\ g_fds' = [g_fds EXCEPT ![fd].pos = @ + ReadLen(g_fds[fd], n)]
  /\ UNCHANGED <<fat, root, data, orphans>>

\* The cluster after c, allocated if c ends the chain; 0 if there is none.
Follow(d, c) ==
  LET new == fat_alloc(d)
  IN  IF d.fat[c] # EOC THEN [d |-> d, c |-> d.fat[c]]
      ELSE IF new = 0 THEN [d |-> d, c |-> 0]
      ELSE [d |-> Extend(d, c, new), c |-> new]

Skipped(s) == IF s.c = 0 THEN s ELSE Follow(s.d, s.c)

\* The loop that finds the cluster of the position.
Skip(d, c, n) ==
  LET loop[k \in 0 .. n] == IF k = 0 THEN [d |-> d, c |-> c] ELSE Skipped(loop[k - 1])
  IN  loop[n]

\* The loop that writes: put up to left units v from unit off of cluster c on,
\* and go on to the next cluster; done counts what was written.
Put(d, c, off, take, v) ==
  [d EXCEPT !.data[c] = [u \in Unit |-> IF u \in off .. off + take - 1 THEN Data(v) ELSE @[u]]]

Written(w, v) ==
  LET take == Min({w.left, UNITS - w.off})
      put  == Put(w.d, w.c, w.off, take, v)
      next == IF take = w.left THEN [d |-> put, c |-> w.c] ELSE Follow(put, w.c)
  IN  IF w.left = 0 \/ w.c = 0 THEN w
      ELSE [d |-> next.d, c |-> next.c, off |-> 0, left |-> w.left - take, done |-> w.done + take]

Write(s, off, n, v) ==
  LET loop[k \in 0 .. n] ==
        IF k = 0 THEN [d |-> s.d, c |-> s.c, off |-> off, left |-> n, done |-> 0]
        ELSE Written(loop[k - 1], v)
  IN  loop[n]

fat12_write(fd, n, v) ==
  LET f     == g_fds[fd]
      first == IF f.first = 0 THEN fat_alloc(Disk) ELSE f.first
      d0    == IF f.first = 0 THEN Claim(Disk, first) ELSE Disk
      w     == Write(Skip(d0, first, f.pos \div UNITS), f.pos % UNITS, n, v)
  IN  /\ Open(fd)
      /\ first # 0
      /\ SetDisk(w.d)
      /\ g_fds' = [g_fds EXCEPT ![fd].first = first,
                                ![fd].pos = @ + w.done,
                                ![fd].size = Max({f.size, f.pos + w.done})]
      /\ UNCHANGED orphans

Flushed_first_only(fd) ==
  LET f == g_fds[fd]
  IN  dir_write_entry(Disk, f.parent, f.idx, [Entry(f.parent, f.idx) EXCEPT !.first = f.first])

\* fat12_flush rewrites the entry the descriptor was opened on, with the size
\* and first cluster the descriptor has.
Flushed(fd) ==
  LET f == g_fds[fd]
      e == Entry(f.parent, f.idx)
  IN  IF ~InDir(Disk, f.parent, f.idx) THEN Disk
      ELSE dir_write_entry(Disk, f.parent, f.idx,
             IF e.k = "ent" THEN [e EXCEPT !.size = f.size, !.first = f.first] ELSE e)

fat12_flush(fd) ==
  /\ Open(fd)
  /\ SetDisk(Flushed(fd))
  /\ UNCHANGED <<g_fds, orphans>>

fat12_close(fd) ==
  /\ Open(fd)
  /\ SetDisk(Flushed(fd))
  /\ g_fds' = [g_fds EXCEPT ![fd] = NoFD]
  /\ UNCHANGED orphans

-----------------------------------------------------------------------------
\* fat_free_chain, and the mark in the entry.
Removed(l) ==
  dir_write_entry(fat_free_chain(Disk, Entry(l.dc, l.idx).first), l.dc, l.idx, Deleted)

fat12_delete(path) ==
  \E l \in {Lookup(path)} :
    /\ Hit(l) /\ ~IsDir(l)
    /\ DeleteOpen \/ OpenOn(l.dc, l.idx) = {}
    /\ SetDisk(Removed(l))
    /\ UNCHANGED <<g_fds, orphans>>

Renamed_copied(l, m, name) ==
  LET a == alloc_dir_entry(Disk, m.dc)
  IN  dir_write_entry(a.d, m.dc, a.idx, [Entry(l.dc, l.idx) EXCEPT !.name = name])

\* fat12_rename looks for the new name in the new directory (m), and writes it
\* into the entry where it is, in the old one.
Renamed(l, m, name) ==
  dir_write_entry(Disk, l.dc, l.idx, [Entry(l.dc, l.idx) EXCEPT !.name = name])

fat12_rename(old, new) ==
  \E l \in {Lookup(old)}, m \in {Lookup(new)} :
    /\ Hit(l) /\ Miss(m)
    /\ CrossDirRename \/ l.dc = m.dc
    /\ SetDisk(Renamed(l, m, NameOf(new)))
    /\ UNCHANGED <<g_fds, orphans>>

\* fat12_mkdir gives its cluster back, zeroed, only if alloc_dir_entry says -1.
\* If alloc_dir_entry has just extended the directory, the index it returns is
\* refused by dir_write_entry, and the cluster stays allocated.
fat12_mkdir(path) ==
  \E l \in {Lookup(path)} :
    LET new == fat_alloc(Disk)
        a   == alloc_dir_entry(Claim(Disk, new), l.dc)
    IN  /\ Miss(l)
        /\ new # 0
        /\ SetDisk(IF HasSlot(a)
                   THEN dir_write_entry(a.d, l.dc, a.idx, Ent(NameOf(path), TRUE, new, 0))
                   ELSE [a.d EXCEPT !.fat[new] = FREE])
        /\ orphans' = orphans \cup
             IF HasSlot(a) /\ ~InDir(a.d, l.dc, a.idx) THEN {new} ELSE {}
        /\ UNCHANGED g_fds

Empty(dc) == Listed(dc) = {}

fat12_rmdir(path) ==
  \E l \in {Lookup(path)} :
    /\ Hit(l) /\ IsDir(l)
    /\ Empty(Entry(l.dc, l.idx).first)
    /\ SetDisk(Removed(l))
    /\ UNCHANGED <<g_fds, orphans>>

\* fat12_ls, reduced to what it returns: 0 is taken for "not found", and -1
\* for "found", with whatever the uninitialised entry on the stack says.
fat12_ls(path) ==
  LET l == Lookup(path)
  IN  CASE path = <<>>              -> {TRUE}
        [] path # <<>> /\ ~l.ok     -> {FALSE}
        [] l.ok /\ l.idx = 0        -> {FALSE}
        [] Miss(l)                  -> BOOLEAN
        [] OTHER                    -> {IsDir(l)}

\* The directories in use: the root and, with a directory, its subdirectories.
DirIds == {ROOT} \cup Cluster
Subdirs(dc) ==
  LET units == Units(dc)
  IN  {units[i].first : i \in {j \in Seen(units) : units[j].dir}}

Directories ==
  LET into   == UNION {{<<dc, x>> : x \in Subdirs(dc)} : dc \in DirIds}
      closed == {S \in SUBSET DirIds : ROOT \in S /\ \A e \in into : e[1] \in S => e[2] \in S}
  IN  {x \in DirIds : \A S \in closed : x \in S}

\* The listed entries: <<directory, index>>.
EntryHeads == UNION {{<<dc, i>> : i \in Listed(dc)} : dc \in Directories}
HeadOf(o) == Entry(o[1], o[2]).first
SizeOf(o) == Entry(o[1], o[2]).size
ChainOf(o) == InChain(fat, HeadOf(o))
FDChains == UNION {InChain(fat, g_fds[fd].first) : fd \in {x \in FDs : Open(x)}}

\* SYS_POWER restarts the machine under open files; fat12_init forgets them.
\* The chain of a file that was never flushed stays allocated.
Restart ==
  /\ g_fds' = [fd \in FDs |-> NoFD]
  /\ orphans' = orphans \cup (FDChains \ UNION {ChainOf(o) : o \in EntryHeads})
  /\ UNCHANGED <<fat, root, data>>

Next ==
  \/ \E path \in Paths :
       \/ fat12_open(path)
       \/ fat12_create(path)
       \/ fat12_delete(path)
       \/ fat12_mkdir(path)
       \/ fat12_rmdir(path)
  \/ \E old, new \in Paths : fat12_rename(old, new)
  \/ \E fd \in FDs, n \in Transfers :
       \/ fat12_read(fd, n)
       \/ \E v \in Values : fat12_write(fd, n, v)
  \/ \E fd \in FDs : fat12_flush(fd) \/ fat12_close(fd)
  \/ Restart

Spec == Init /\ [][Next]_vars

-----------------------------------------------------------------------------
EntrySet == [k : {"ent"}, name : Names83, dir : BOOLEAN, first : Cluster \cup {0}, size : Nat]
FDSet    == [used : {TRUE}, first : Cluster \cup {0}, size : Nat, pos : Nat,
             parent : Cluster \cup {ROOT}, idx : Nat]

TypeOK ==
  /\ fat \in [Cluster -> Cluster \cup {FREE, EOC}]
  /\ root \in [0 .. ROOT_ENTRIES - 1 -> EntrySet \cup {Zero, Deleted}]
  /\ data \in [Cluster -> [Unit -> EntrySet \cup {Zero, Deleted} \cup {Data(v) : v \in Values}]]
  /\ g_fds \in [FDs -> FDSet \cup {NoFD}]
  /\ orphans \subseteq Cluster

\* No two files or directories share a cluster, and an open file's clusters
\* belong to its own entry alone: writing one file cannot damage another.
NoCrossLink ==
  LET chain == [o \in EntryHeads |-> ChainOf(o)]
      heads == DOMAIN chain
  IN  /\ \A o, p \in heads : o # p => chain[o] \cap chain[p] = {}
      /\ \A fd \in FDs : Open(fd) =>
           \A o \in heads \ {<<g_fds[fd].parent, g_fds[fd].idx>>} :
             chain[o] \cap InChain(fat, g_fds[fd].first) = {}

Ended(c) == LET s == Chain(fat, c) IN s = <<>> \/ (fat[s[Len(s)]] = EOC /\ Len(s) <= CLUSTERS)

\* Every chain ends in an end-of-chain mark: it does not run into free
\* clusters (which the next allocation would give to another file) or a cycle.
ChainsEnd ==
  /\ \A o \in EntryHeads : Ended(HeadOf(o))
  /\ \A fd \in FDs : Open(fd) => Ended(g_fds[fd].first)

\* A file's size never promises more than its chain holds, on the disk and in
\* the descriptors, even when the disk fills up in the middle of a write.
SizeWithinChain ==
  /\ \A o \in EntryHeads : SizeOf(o) <= UNITS * Cardinality(ChainOf(o))
  /\ \A fd \in FDs : Open(fd) =>
       /\ g_fds[fd].pos <= g_fds[fd].size
       /\ g_fds[fd].size <= UNITS * Cardinality(InChain(fat, g_fds[fd].first))

\* Every allocated cluster belongs to an entry or an open file, with two
\* exceptions: the chains of files a restart closed before their first flush,
\* and the cluster of a directory that fat12_mkdir could not enter because its
\* parent was full and has only now been extended.
NoLostClusters ==
  {c \in Cluster : fat[c] # FREE} \subseteq
    UNION {ChainOf(o) : o \in EntryHeads} \cup FDChains \cup orphans

\* A directory never lists a name twice.
NamesUnique ==
  \A dc \in Directories : \A i, j \in Listed(dc) :
    Entry(dc, i).name = Entry(dc, j).name => i = j

\* A directory holds entries only: no cluster becomes part of one with the
\* contents it had as a file.
DirectoriesClean ==
  \A dc \in Directories \ {ROOT} : \A i \in DOMAIN Units(dc) : Entry(dc, i).k # "data"

\* An open file's entry stays listed where the descriptor will write it back.
DescriptorsAnchored ==
  \A fd \in FDs : Open(fd) =>
    /\ g_fds[fd].parent \in Directories
    /\ g_fds[fd].idx \in Listed(g_fds[fd].parent)
    /\ ~Entry(g_fds[fd].parent, g_fds[fd].idx).dir

\* The directories are sound: entries only, no name twice, and every open
\* file's entry where its descriptor will write it back.
DirectoriesSound == TypeOK /\ DirectoriesClean /\ NamesUnique /\ DescriptorsAnchored
=============================================================================
