----------------------------- MODULE FileStore -----------------------------
(***************************************************************************)
(* What the file system promises its callers: a tree of named files and    *)
(* directories, files that hold what was written to them, and descriptors  *)
(* that read and write at a position of their own.                         *)
(*                                                                         *)
(* saved is how much of a file survives a restart: writes past it stay     *)
(* with the descriptor until the file is flushed or closed.  A write may   *)
(* take less than was asked (the disk may be full), and a create may make  *)
(* the file without opening it (no descriptor may be left).                *)
(***************************************************************************)
EXTENDS Integers, Sequences, SequencesExt

CONSTANTS Descriptors, Contents, Lengths, NameSet

VARIABLES
  tree,   \* path -> node; the root is the empty path and not in it
  open    \* descriptor -> the path it is open on and its position

storeVars == <<tree, open>>

Closed == [used |-> FALSE]
Dir    == [dir |-> TRUE]
File(content, saved) == [dir |-> FALSE, content |-> content, saved |-> saved]

Here == DOMAIN tree
ParentOK(p) == p # <<>> /\ (Front(p) = <<>> \/ (Front(p) \in Here /\ tree[Front(p)].dir))
OpenAt(p) == {d \in Descriptors : open[d].used /\ open[d].path = p}

With(p, node) == [q \in Here \cup {p} |-> IF q = p THEN node ELSE tree[q]]
Without(p)    == [q \in Here \ {p} |-> tree[q]]
On(p)         == [used |-> TRUE, path |-> p, pos |-> 0]

NewPaths == {Append(p, n) : p \in Here \cup {<<>>}, n \in NameSet}

StoreInit == tree = [p \in {} |-> Dir] /\ open = [d \in Descriptors |-> Closed]

Create(p) ==
  /\ ParentOK(p) /\ p \notin Here
  /\ tree' = With(p, File(<<>>, 0))
  /\ \/ \E d \in Descriptors : ~open[d].used /\ open' = [open EXCEPT ![d] = On(p)]
     \/ UNCHANGED open

OpenFile(d, p) ==
  /\ ~open[d].used /\ ~tree[p].dir
  /\ open' = [open EXCEPT ![d] = On(p)]
  /\ UNCHANGED tree

Read(d, n) ==
  /\ open[d].used
  /\ LET left == Len(tree[open[d].path].content) - open[d].pos
     IN  open' = [open EXCEPT ![d].pos = @ + (IF n < left THEN n ELSE left)]
  /\ UNCHANGED tree

\* s with units v at positions from + 1 to from + n.
Overwritten(s, from, n, v) ==
  [i \in 1 .. (IF from + n > Len(s) THEN from + n ELSE Len(s)) |->
     IF i \in from + 1 .. from + n THEN v ELSE s[i]]

Write(d, n, v) ==
  /\ open[d].used
  /\ \E done \in 0 .. n :
       /\ tree' = [tree EXCEPT ![open[d].path].content = Overwritten(@, open[d].pos, done, v)]
       /\ open' = [open EXCEPT ![d].pos = @ + done]

Save(d) == [tree EXCEPT ![open[d].path].saved = Len(tree[open[d].path].content)]

Flush(d) == open[d].used /\ tree' = Save(d) /\ UNCHANGED open
Close(d) == open[d].used /\ tree' = Save(d) /\ open' = [open EXCEPT ![d] = Closed]

Delete(p) == ~tree[p].dir /\ OpenAt(p) = {} /\ tree' = Without(p) /\ UNCHANGED open

Mkdir(p) == ParentOK(p) /\ p \notin Here /\ tree' = With(p, Dir) /\ UNCHANGED open

Rmdir(p) ==
  /\ tree[p].dir
  /\ \A q \in Here : Front(q) # p
  /\ tree' = Without(p)
  /\ UNCHANGED open

\* The node and all below it change their name; open files stay open.
Renamed(p, new, q) == IF IsPrefix(p, q) THEN new \o SubSeq(q, Len(p) + 1, Len(q)) ELSE q

Rename(p, new) ==
  /\ new \notin Here /\ Front(new) = Front(p)
  /\ tree' = [q \in {Renamed(p, new, r) : r \in Here} |-> tree[Renamed(new, p, q)]]
  /\ open' = [d \in Descriptors |->
                IF open[d].used THEN [open[d] EXCEPT !.path = Renamed(p, new, @)] ELSE Closed]

Restart ==
  /\ open' = [d \in Descriptors |-> Closed]
  /\ tree' = [p \in Here |->
                IF tree[p].dir THEN Dir
                ELSE File(SubSeq(tree[p].content, 1, tree[p].saved), tree[p].saved)]

StoreNext ==
  \/ \E p \in NewPaths : Create(p) \/ Mkdir(p)
  \/ \E p \in Here : Delete(p) \/ Rmdir(p)
  \/ \E p \in Here, n \in NewPaths : Rename(p, n)
  \/ \E d \in Descriptors :
       \/ \E p \in Here : OpenFile(d, p)
       \/ \E n \in Lengths : Read(d, n) \/ \E v \in Contents : Write(d, n, v)
       \/ Flush(d)
       \/ Close(d)
  \/ Restart

StoreSpec == StoreInit /\ [][StoreNext]_storeVars
=============================================================================
