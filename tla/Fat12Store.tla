----------------------------- MODULE Fat12Store -----------------------------
(***************************************************************************)
(* The driver of Fat12 implements the promise of FileStore, as long as no  *)
(* file is opened twice and no rename crosses directories.                 *)
(***************************************************************************)
EXTENDS Fat12

VARIABLES tree, open   \* the file store, as it is read off the driver's state

storeMap == <<tree, open>>

\* The entries below directory dc, which has path prefix.
RECURSIVE Below(_, _, _)
Below(dc, prefix, depth) ==
  LET units == Units(dc)
      here  == {[path |-> Append(prefix, units[i].name), dc |-> dc, idx |-> i, entry |-> units[i]]
                 : i \in Seen(units)}
      dirs  == {n \in here : n.entry.dir}
  IN  here \cup (IF depth = 0 THEN {}
                 ELSE UNION {Below(n.entry.first, n.path, depth - 1) : n \in dirs})

\* The first size units of a chain.
Content(first, size) ==
  LET chain == Chain(fat, first)
  IN  [i \in 1 .. size |-> data[chain[(i - 1) \div UNITS + 1]][(i - 1) % UNITS].val]

\* A file's contents are those of its open descriptor, if it has one.
Node(n) ==
  LET fds == OpenOn(n.dc, n.idx)
      f   == IF fds = {} THEN n.entry ELSE g_fds[CHOOSE fd \in fds : TRUE]
  IN  IF n.entry.dir THEN [dir |-> TRUE]
      ELSE [dir |-> FALSE, content |-> Content(f.first, f.size), saved |-> n.entry.size]

\* Every entry of the disk, with its path.
Nodes == Below(ROOT, <<>>, CLUSTERS)

Tree ==
  LET nodes == Nodes
  IN  [p \in {n.path : n \in nodes} |->
         CHOOSE x \in {Node(n) : n \in {m \in nodes : m.path = p}} : TRUE]

OpenFiles ==
  LET nodes == Nodes
      path(f) == (CHOOSE n \in nodes : n.dc = f.parent /\ n.idx = f.idx).path
  IN  [fd \in FDs |-> IF Open(fd)
                      THEN [used |-> TRUE, path |-> path(g_fds[fd]), pos |-> g_fds[fd].pos]
                      ELSE [used |-> FALSE]]

MapInit == Init /\ tree = Tree /\ open = OpenFiles
MapNext == Next /\ tree' = Tree' /\ open' = OpenFiles'
MapSpec == MapInit /\ [][MapNext]_<<vars, storeMap>>

Store == INSTANCE FileStore WITH
  Descriptors <- FDs, Contents <- Values, Lengths <- Transfers, NameSet <- Names83

\* The driver is a file store: every call does to the tree, the contents and
\* the descriptors what FileStore says, whatever happens to the clusters.
ImplementsFileStore == Store!StoreSpec
=============================================================================
