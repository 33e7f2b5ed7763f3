---------------------------- MODULE Fat12Proofs ----------------------------
(***************************************************************************)
(* Proofs about the FAT12 driver, for disks, tables and transfers of any   *)
(* size.                                                                   *)
(*                                                                         *)
(* The invariant is about the whole disk, seen as one function from places *)
(* to units, and not about the directories alone that can be reached:      *)
(*   - an allocated cluster has at most one link to it, and the chain of   *)
(*     an entry or a descriptor begins at a cluster without one (Links,    *)
(*     EntHeads, FdHeads), so that chains cannot meet or go round;         *)
(*   - no two entries, and no two descriptors, have the same first         *)
(*     cluster, and a descriptor shares its own with its entry alone;      *)
(*   - a descriptor's entry stays where it is, and is nobody else's        *)
(*     (Anchored), so that the write-back changes the right one;           *)
(*   - files hold no entries and directories no data (Kinds), so that      *)
(*     writing a file makes no entry, and freeing one removes none;        *)
(*   - a directory has nothing behind its end mark and no name twice       *)
(*     (Tidy), so that what the scans do not see is not there.             *)
(* Lemmas about one change to the disk (claim, link, fill, put an entry,   *)
(* free a chain) come first, then the loops of a write, then one lemma per *)
(* call.  Inductions are done by the least counterexample (Least).         *)
(***************************************************************************)
EXTENDS Fat12, FiniteSetTheorems, FunctionTheorems, SequenceTheorems, WellFoundedInduction, TLAPS

\* Callers keep to one descriptor a file, delete no open file and rename within
\* a directory.
Orderly == ~SharedOpen /\ ~DeleteOpen /\ ~CrossDirRename

\* A subdirectory, with one cluster more, has no entry at the index the scans
\* stop at and alloc_dir_entry returns.
FitsScan(f, dc) == dc # ROOT => UNITS * (Len(Chain(f, dc)) + 1) <= SUBDIR_MAX_ENTS
SmallDirs == \A dc \in Directories : FitsScan(fat, dc)

-----------------------------------------------------------------------------
\* The disk as one function from places (directory or cluster, and unit) to
\* what they hold.
Places == ({ROOT} \X (0 .. ROOT_ENTRIES - 1)) \cup (Cluster \X Unit)
Contents(r, da) == [p \in Places |-> IF p[1] = ROOT THEN r[p[2]] ELSE da[p[1]][p[2]]]

UnitSet == EntrySet \cup {Zero, Deleted} \cup {Data(v) : v \in Values}
Table == [Cluster -> Cluster \cup {FREE, EOC}]

DirLen(f, dc) == IF dc = ROOT THEN ROOT_ENTRIES ELSE UNITS * Len(Chain(f, dc))
Slots(f, dc)  == 0 .. DirLen(f, dc) - 1
PlaceOf(f, dc, i) ==
  IF dc = ROOT THEN <<ROOT, i>> ELSE <<Chain(f, dc)[i \div UNITS + 1], i % UNITS>>

\* The entries in allocated places, and the directories they make.
Live(f, U) == {p \in Places : (p[1] = ROOT \/ f[p[1]] # FREE) /\ U[p].k = "ent"}
Dirs(f, U) == {ROOT} \cup {U[p].first : p \in {q \in Live(f, U) : U[q].dir}}

\* The directories that can be reached.
Visible(f, U, dc) ==
  {i \in Slots(f, dc) : /\ U[PlaceOf(f, dc, i)].k = "ent"
                        /\ \A j \in Slots(f, dc) : U[PlaceOf(f, dc, j)] = Zero => i < j}
Subs(f, U, dc) ==
  {U[PlaceOf(f, dc, i)].first : i \in {j \in Visible(f, U, dc) : U[PlaceOf(f, dc, j)].dir}}
Closed(f, U, S) == ROOT \in S /\ \A dc \in S : Subs(f, U, dc) \subseteq S
Tree(f, U) == {x \in DirIds : \A S \in SUBSET DirIds : Closed(f, U, S) => x \in S}

Used(g) == {x \in FDs : g[x].used}
Anchor(f, x) == PlaceOf(f, x.parent, x.idx)

\* Links go to allocated clusters, at most one to each.
Links(f) ==
  \A a \in Cluster : f[a] \in Cluster =>
    f[f[a]] # FREE /\ \A b \in Cluster : f[b] = f[a] => b = a

\* h starts a chain.
IsHead(f, h) == h \in Cluster /\ f[h] # FREE /\ \A a \in Cluster : f[a] # h

EntHeads(f, U) ==
  \A p \in Live(f, U) :
    /\ U[p].dir => U[p].first # 0
    /\ U[p].first # 0 => /\ IsHead(f, U[p].first)
                         /\ \A q \in Live(f, U) : U[q].first = U[p].first => q = p

FdHeads(f, U, g) ==
  \A x \in Used(g) : g[x].first # 0 =>
    /\ IsHead(f, g[x].first)
    /\ \A y \in Used(g) : g[y].first = g[x].first => y = x
    /\ \A p \in Live(f, U) : U[p].first = g[x].first => p = Anchor(f, g[x])

Anchored(f, U, g) ==
  \A x \in Used(g) :
    LET p == Anchor(f, g[x]) IN
    /\ g[x].parent \in Tree(f, U)
    /\ g[x].idx \in Visible(f, U, g[x].parent)
    /\ ~U[p].dir /\ U[p].first \in {0, g[x].first}
    /\ \A y \in Used(g) : y # x => g[y].parent # g[x].parent \/ g[y].idx # g[x].idx

Room(f, h) == UNITS * Len(Chain(f, h))

Sized(f, U, g) ==
  /\ \A p \in Live(f, U) : U[p].size <= Room(f, U[p].first)
  /\ \A x \in Used(g) : g[x].pos <= g[x].size /\ g[x].size <= Room(f, g[x].first)

NoData(U, c) == \A u \in Unit : U[<<c, u>>].k # "data"
NoEnts(U, c) == \A u \in Unit : U[<<c, u>>].k # "ent"

Kinds(f, U, g) ==
  /\ \A i \in 0 .. ROOT_ENTRIES - 1 : U[<<ROOT, i>>].k # "data"
  /\ \A p \in Live(f, U) : \A c \in InChain(f, U[p].first) :
       IF U[p].dir THEN NoData(U, c) ELSE NoEnts(U, c)
  /\ \A x \in Used(g) : \A c \in InChain(f, g[x].first) : NoEnts(U, c)

\* A directory has no entry behind its end, and no name twice.
Tidy(f, U) ==
  \A dc \in Dirs(f, U) : \A i, j \in Slots(f, dc) :
    /\ i < j /\ U[PlaceOf(f, dc, i)] = Zero => U[PlaceOf(f, dc, j)] = Zero
    /\ i # j /\ U[PlaceOf(f, dc, i)].k = "ent" /\ U[PlaceOf(f, dc, j)].k = "ent"
         => U[PlaceOf(f, dc, i)].name # U[PlaceOf(f, dc, j)].name

Typed(f, U, g) == f \in Table /\ U \in [Places -> UnitSet] /\ g \in [FDs -> FDSet \cup {NoFD}]

DInv(f, U, g) ==
  /\ Typed(f, U, g) /\ Links(f) /\ EntHeads(f, U) /\ FdHeads(f, U, g) /\ Anchored(f, U, g)
  /\ Sized(f, U, g) /\ Kinds(f, U, g) /\ Tidy(f, U)

\* The disk d of a call, with descriptors g.
DiskSet == [fat : Table, root : [0 .. ROOT_ENTRIES - 1 -> UnitSet],
            data : [Cluster -> [Unit -> UnitSet]]]
View(d) == Contents(d.root, d.data)
DiskInv(d, g) == d \in DiskSet /\ DInv(d.fat, View(d), g)

Inv == DiskInv(Disk, g_fds) /\ orphans \subseteq Cluster

-----------------------------------------------------------------------------
\* The constants.
LEMMA Numbers ==
  /\ CLUSTERS \in Nat /\ CLUSTERS > 0 /\ UNITS \in Nat /\ UNITS > 0
  /\ ROOT_ENTRIES \in Nat /\ ROOT_ENTRIES > 0
  /\ Cluster = 2 .. CLUSTERS + 1 /\ Unit = 0 .. UNITS - 1
  /\ 0 \notin Cluster /\ EOC \notin Cluster /\ FREE \notin Cluster /\ EOC # FREE
  /\ ROOT \notin Cluster /\ Cluster \subseteq Nat /\ FREE = 0 /\ ROOT = 0 /\ EOC = -1
BY Fat12Assumption DEF Cluster, Unit, EOC, FREE, ROOT

\* A nonempty set of natural numbers has a least element: the form in which
\* induction is used below.
LEMMA Least ==
  ASSUME NEW T \in SUBSET Nat, T # {}
  PROVE  \E n \in T : \A m \in T : n <= m
<1>1. \E x \in T : \A y \in T : ~(<<y, x>> \in OpToRel(<, Nat))
  BY NatLessThanWellFounded, WFMin
<1>2. PICK n \in T : \A y \in T : ~(<<y, n>> \in OpToRel(<, Nat))
  BY <1>1
<1>3. \A y \in T : ~(y < n)
  BY <1>2 DEF OpToRel
<1> QED  BY <1>3

\* h is N steps of a loop over states S, from x.
Runs(S, x, step, N, h) ==
  h \in [0 .. N -> S] /\ h[0] = x /\ \A k \in 1 .. N : h[k] = step[<<h[k - 1], k>>]

\* A loop of N steps runs.
LEMMA Loop ==
  ASSUME NEW S, NEW x \in S, NEW step \in [S \X Nat -> S], NEW N \in Nat
  PROVE  \E h : Runs(S, x, step, N, h)
<1> DEFINE T == {n \in Nat : ~\E h : Runs(S, x, step, n, h)}
<1>1. SUFFICES ASSUME T # {} PROVE FALSE
  BY <1>1
<1>2. PICK n \in T : \A m \in T : n <= m
  BY <1>1, Least
<1>3. n # 0
  <2>1. Runs(S, x, step, 0, [k \in 0 .. 0 |-> x])
    BY DEF Runs
  <2> QED  BY <2>1, <1>2
<1>4. n \in Nat /\ n - 1 \in Nat /\ n - 1 \notin T
  BY <1>2, <1>3
<1>5. PICK h : Runs(S, x, step, n - 1, h)
  BY <1>4
<1>6. PICK y : y = step[<<h[n - 1], n>>]
  OBVIOUS
<1>7. y \in S
  <2>1. h[n - 1] \in S
    BY <1>4, <1>5 DEF Runs
  <2> QED  BY <1>4, <1>6, <2>1
<1>8. PICK e : e = [k \in 0 .. n |-> IF k = n THEN y ELSE h[k]]
  OBVIOUS
<1>9. e \in [0 .. n -> S] /\ e[0] = x
  BY <1>3, <1>4, <1>5, <1>7, <1>8 DEF Runs
<1>10. ASSUME NEW k \in 1 .. n PROVE e[k] = step[<<e[k - 1], k>>]
  <2>1. e[k - 1] = h[k - 1]
    BY <1>4, <1>8
  <2>2. CASE k = n
    <3>1. e[n] = y
      BY <1>4, <1>8
    <3>2. e[n - 1] = h[n - 1]
      BY <2>1, <2>2
    <3> QED  BY <1>6, <2>2, <3>1, <3>2
  <2>3. CASE k # n
    <3>1. k \in 1 .. n - 1 /\ e[k] = h[k]
      BY <1>4, <1>8, <2>3
    <3> QED  BY <1>5, <2>1, <3>1 DEF Runs
  <2> QED  BY <2>2, <2>3
<1>11. Runs(S, x, step, n, e)
  BY <1>9, <1>10 DEF Runs
<1> QED  BY <1>2, <1>11

-----------------------------------------------------------------------------
\* Chains.

\* s is the chain from c.
IsChain(f, c, s) ==
  /\ s \in Seq(Cluster) /\ Len(s) <= CLUSTERS + 1
  /\ c \in Cluster <=> Len(s) > 0
  /\ Len(s) > 0 => s[1] = c
  /\ \A i \in 1 .. Len(s) - 1 : s[i + 1] = f[s[i]]
  /\ Len(s) > 0 /\ Len(s) <= CLUSTERS => f[s[Len(s)]] \notin Cluster

\* Chain is the chain.
LEMMA ChainIs ==
  ASSUME NEW f \in Table, NEW c \in Int
  PROVE  IsChain(f, c, Chain(f, c))
<1> DEFINE Solves(w) == w = [k \in 0 .. CLUSTERS |-> IF k = 0 THEN c ELSE After(f, w[k - 1])]
           W == CHOOSE w : Solves(w)
<1>1. \A x \in Int : After(f, x) \in Int
  BY Numbers DEF After, Table, Cluster
<1>2. \E w : Solves(w)
  <2> DEFINE step == [y \in Int \X Nat |-> After(f, y[1])]
  <2>1. step \in [Int \X Nat -> Int]
    BY <1>1
  <2>2. CLUSTERS \in Nat
    BY Numbers
  <2>3. \E h : Runs(Int, c, step, CLUSTERS, h)
    <3> HIDE DEF step
    <3> QED  BY <2>1, <2>2, Loop
  <2>4. PICK h \in [0 .. CLUSTERS -> Int] :
           h[0] = c /\ \A k \in 1 .. CLUSTERS : h[k] = step[<<h[k - 1], k>>]
    <3> HIDE DEF step
    <3> QED  BY <2>3 DEF Runs
  <2>5. ASSUME NEW k \in 1 .. CLUSTERS PROVE h[k] = After(f, h[k - 1])
    <3>1. h[k - 1] \in Int /\ k \in Nat
      BY <2>2
    <3> QED  BY <2>4, <3>1
  <2>6. \A k \in 0 .. CLUSTERS : h[k] = IF k = 0 THEN c ELSE After(f, h[k - 1])
    BY <2>2, <2>4, <2>5
  <2>7. Solves(h)
    BY <2>6
  <2> QED  BY <2>7
<1>3. Solves(W)
  BY <1>2
<1>4. PICK w : w = W
  OBVIOUS
<1>5. /\ DOMAIN w = 0 .. CLUSTERS
      /\ \A k \in 0 .. CLUSTERS : w[k] = IF k = 0 THEN c ELSE After(f, w[k - 1])
  <2>1. Solves(w)
    BY <1>3, <1>4
  <2> QED  BY <2>1
<1>6. Chain(f, c) = [k \in {n \in 1 .. CLUSTERS + 1 : w[n - 1] \in Cluster} |-> w[k - 1]]
  BY <1>4 DEF Chain
<1> HIDE DEF W, Solves
<1> DEFINE T == {n \in 0 .. CLUSTERS + 1 : n = CLUSTERS + 1 \/ w[n] \notin Cluster}
<1>7. PICK n \in T : \A m \in T : n <= m
  <2>1. T \in SUBSET Nat /\ CLUSTERS + 1 \in T
    BY Numbers
  <2> QED  BY <2>1, Least
<1>8. /\ n \in Nat /\ n <= CLUSTERS + 1
      /\ n = CLUSTERS + 1 \/ w[n] \notin Cluster
      /\ \A m \in 0 .. n - 1 : w[m] \in Cluster
  BY <1>7, Numbers
<1>9. \A m \in n .. CLUSTERS : w[m] \notin Cluster
  <2> DEFINE B == {m \in n .. CLUSTERS : w[m] \in Cluster}
  <2>1. SUFFICES ASSUME B # {} PROVE FALSE
    BY <2>1
  <2>2. B \in SUBSET Nat
    BY <1>8
  <2>3. PICK m \in B : \A j \in B : m <= j
    BY <2>1, <2>2, Least
  <2>4. m # n
    BY <1>8, <2>3, Numbers
  <2>5. m - 1 \in n .. CLUSTERS /\ m \in 0 .. CLUSTERS /\ m # 0 /\ m - 1 \notin B
    BY <1>8, <2>3, <2>4, Numbers
  <2>6. w[m - 1] \notin Cluster
    BY <2>5
  <2>7. w[m] = EOC
    BY <1>5, <2>5, <2>6 DEF After
  <2> QED  BY <2>3, <2>7, Numbers
<1>10. {j \in 1 .. CLUSTERS + 1 : w[j - 1] \in Cluster} = 1 .. n
  BY <1>8, <1>9, Numbers
<1>11. Chain(f, c) = [k \in 1 .. n |-> w[k - 1]]
  BY <1>6, <1>10
<1>12. PICK s : s = Chain(f, c)
  OBVIOUS
<1>13. \A k \in 1 .. n : s[k] = w[k - 1] /\ s[k] \in Cluster
  BY <1>8, <1>11, <1>12
<1>14. s \in Seq(Cluster) /\ Len(s) = n
  <2>1. s \in [1 .. n -> Cluster]
    BY <1>11, <1>12, <1>13
  <2> QED  BY <1>8, <2>1, SeqDef, LenProperties
<1>15. w[0] = c
  BY <1>5, Numbers
<1>16. c \in Cluster <=> n > 0
  BY <1>8, <1>9, <1>15, Numbers
<1>17. \A i \in 1 .. n - 1 : s[i + 1] = f[s[i]]
  <2> TAKE i \in 1 .. n - 1
  <2>1. i + 1 \in 1 .. n /\ i \in 1 .. n /\ i \in 0 .. CLUSTERS /\ i # 0 /\ i + 1 - 1 = i
    BY <1>8, Numbers
  <2>2. s[i + 1] = w[i] /\ s[i] = w[i - 1] /\ w[i - 1] \in Cluster
    BY <1>13, <2>1
  <2>3. w[i] = After(f, w[i - 1])
    BY <1>5, <2>1
  <2> QED  BY <2>2, <2>3 DEF After
<1>18. n > 0 /\ n <= CLUSTERS => f[s[n]] \notin Cluster
  <2>1. SUFFICES ASSUME n > 0, n <= CLUSTERS PROVE f[s[n]] \notin Cluster
    OBVIOUS
  <2>2. n \in 1 .. n /\ n \in 0 .. CLUSTERS /\ n # 0
    BY <1>8, <2>1, Numbers
  <2>3. s[n] = w[n - 1] /\ w[n - 1] \in Cluster
    BY <1>13, <2>2
  <2>4. w[n] = f[s[n]]
    BY <1>5, <2>2, <2>3 DEF After
  <2>5. w[n] \notin Cluster
    BY <1>8, <2>1, Numbers
  <2> QED  BY <2>4, <2>5
<1>19. n > 0 => s[1] = c
  BY <1>8, <1>13, <1>15
<1>20. IsChain(f, c, s)
  BY <1>8, <1>14, <1>16, <1>17, <1>18, <1>19 DEF IsChain
<1> QED  BY <1>12, <1>20

\* There is only one.
LEMMA ChainUnique ==
  ASSUME NEW f \in Table, NEW c \in Int, NEW s, IsChain(f, c, s)
  PROVE  Chain(f, c) = s
<1>1. PICK t : t = Chain(f, c)
  OBVIOUS
<1>2. IsChain(f, c, t)
  BY <1>1, ChainIs
<1>3. PICK m, n : m = Len(s) /\ n = Len(t)
  OBVIOUS
<1>4. /\ m \in Nat /\ n \in Nat /\ s \in [1 .. m -> Cluster] /\ t \in [1 .. n -> Cluster]
      /\ m > 0 <=> n > 0
      /\ m <= CLUSTERS + 1 /\ n <= CLUSTERS + 1
  BY <1>2, <1>3, LenProperties DEF IsChain
<1> DEFINE T == {i \in Nat : i >= 1 /\ i <= m /\ i <= n /\ s[i] # t[i]}
<1>5. T = {}
  <2>1. SUFFICES ASSUME T # {} PROVE FALSE
    OBVIOUS
  <2>2. PICK i \in T : \A j \in T : i <= j
    BY <2>1, Least
  <2>3. i # 1
    BY <1>2, <1>3, <2>2 DEF IsChain
  <2>4. PICK j : j = i - 1
    OBVIOUS
  <2>5. j \in Nat /\ j \notin T /\ j >= 1 /\ j <= m - 1 /\ j <= n - 1 /\ i = j + 1
    BY <1>4, <2>2, <2>3, <2>4
  <2>6. s[j] = t[j]
    BY <1>4, <2>5
  <2>7. s[j + 1] = f[s[j]] /\ t[j + 1] = f[t[j]]
    BY <1>2, <1>3, <1>4, <2>5 DEF IsChain
  <2> QED  BY <2>2, <2>5, <2>6, <2>7
<1>6. \A i \in Nat : i >= 1 /\ i <= m /\ i <= n => s[i] = t[i]
  BY <1>5
<1> HIDE DEF T
<1>7. m = n
  <2>1. ~(m < n)
    <3>1. SUFFICES ASSUME m < n PROVE FALSE
      OBVIOUS
    <3>2. m > 0 /\ m <= CLUSTERS /\ m \in 1 .. n - 1 /\ s[m] = t[m] /\ m + 1 \in 1 .. n
      BY <1>4, <1>6, <3>1, Numbers
    <3>3. f[s[m]] \notin Cluster
      BY <1>3, <3>2 DEF IsChain
    <3>4. t[m + 1] = f[t[m]]
      BY <1>2, <1>3, <3>2 DEF IsChain
    <3>5. t[m + 1] \in Cluster
      BY <1>4, <3>2
    <3> QED  BY <3>2, <3>3, <3>4, <3>5
  <2>2. ~(n < m)
    <3>1. SUFFICES ASSUME n < m PROVE FALSE
      OBVIOUS
    <3>2. n > 0 /\ n <= CLUSTERS /\ n \in 1 .. m - 1 /\ s[n] = t[n] /\ n + 1 \in 1 .. m
      BY <1>4, <1>6, <3>1, Numbers
    <3>3. f[t[n]] \notin Cluster
      BY <1>2, <1>3, <3>2 DEF IsChain
    <3>4. s[n + 1] = f[s[n]]
      BY <1>3, <3>2 DEF IsChain
    <3>5. s[n + 1] \in Cluster
      BY <1>4, <3>2
    <3> QED  BY <3>2, <3>3, <3>4, <3>5
  <2> QED  BY <1>4, <2>1, <2>2
<1>8. \A i \in 1 .. m : s[i] = t[i]
  BY <1>4, <1>6, <1>7
<1>9. s = t
  BY <1>4, <1>7, <1>8
<1> QED  BY <1>1, <1>9

\* s is a chain that ends, with no cluster twice.
GoodChain(f, h, s) ==
  /\ s \in Seq(Cluster) /\ DOMAIN s = 1 .. Len(s)
  /\ Len(s) \in Nat /\ Len(s) >= 1 /\ Len(s) <= CLUSTERS
  /\ s[1] = h
  /\ \A i \in 1 .. Len(s) : s[i] \in Cluster /\ f[s[i]] # FREE
  /\ \A i \in 1 .. Len(s) - 1 : s[i + 1] = f[s[i]]
  /\ f[s[Len(s)]] = EOC
  /\ \A i, j \in 1 .. Len(s) : s[i] = s[j] => i = j

\* The chain from a head is one.
LEMMA HeadChain ==
  ASSUME NEW f \in Table, Links(f), NEW h, IsHead(f, h)
  PROVE  GoodChain(f, h, Chain(f, h))
<1>1. PICK s : s = Chain(f, h)
  OBVIOUS
<1>2. h \in Cluster /\ h \in Int /\ f[h] # FREE /\ \A a \in Cluster : f[a] # h
  BY Numbers DEF IsHead
<1>3. IsChain(f, h, s)
  BY <1>1, <1>2, ChainIs
<1>4. PICK n : n = Len(s)
  OBVIOUS
<1>5. /\ n \in Nat /\ n >= 1 /\ n <= CLUSTERS + 1
      /\ s \in Seq(Cluster) /\ s \in [1 .. n -> Cluster] /\ DOMAIN s = 1 .. n
      /\ s[1] = h
      /\ \A i \in 1 .. n - 1 : s[i + 1] = f[s[i]]
      /\ n <= CLUSTERS => f[s[n]] \notin Cluster
  BY <1>2, <1>3, <1>4, LenProperties DEF IsChain
<1>6. \A i \in 1 .. n : i # 1 => i - 1 \in 1 .. n - 1 /\ i - 1 \in 1 .. n /\ s[i] = f[s[i - 1]]
  <2> TAKE i \in 1 .. n
  <2>1. SUFFICES ASSUME i # 1 PROVE i - 1 \in 1 .. n - 1 /\ i - 1 \in 1 .. n /\ s[i] = f[s[i - 1]]
    OBVIOUS
  <2>2. PICK j : j = i - 1
    OBVIOUS
  <2>3. j \in 1 .. n - 1 /\ j \in 1 .. n /\ i = j + 1
    BY <1>5, <2>1, <2>2
  <2>4. s[j + 1] = f[s[j]]
    BY <1>5, <2>3
  <2> QED  BY <2>2, <2>3, <2>4
<1>7. \A i \in 1 .. n : s[i] \in Cluster /\ f[s[i]] # FREE
  <2> TAKE i \in 1 .. n
  <2>1. s[i] \in Cluster
    BY <1>5
  <2>2. CASE i = 1
    BY <1>2, <1>5, <2>2
  <2>3. CASE i # 1
    <3>1. s[i - 1] \in Cluster /\ s[i] = f[s[i - 1]]
      BY <1>5, <1>6, <2>3
    <3> QED  BY <2>1, <3>1 DEF Links
  <2> QED  BY <2>1, <2>2, <2>3
<1>8. \A i, j \in 1 .. n : s[i] = s[j] => i = j
  <2> DEFINE T == {i \in 1 .. n : \E j \in 1 .. n : i < j /\ s[i] = s[j]}
  <2>1. T = {}
    <3>1. SUFFICES ASSUME T # {} PROVE FALSE
      OBVIOUS
    <3>2. T \in SUBSET Nat
      BY <1>5
    <3>3. PICK i \in T : \A j \in T : i <= j
      BY <3>1, <3>2, Least
    <3>4. PICK j \in 1 .. n : i < j /\ s[i] = s[j]
      BY <3>3
    <3>5. j # 1 /\ j - 1 \in 1 .. n /\ s[j] = f[s[j - 1]] /\ s[j - 1] \in Cluster
      BY <1>5, <1>6, <1>7, <3>3, <3>4
    <3>6. i # 1
      BY <1>2, <1>5, <3>4, <3>5
    <3>7. i \in 1 .. n /\ i - 1 \in 1 .. n /\ s[i] = f[s[i - 1]] /\ s[i - 1] \in Cluster /\ s[i] \in Cluster
      BY <1>6, <1>7, <3>3, <3>6
    <3>8. s[i - 1] = s[j - 1]
      BY <3>4, <3>5, <3>7 DEF Links
    <3>9. i - 1 \in T
      BY <3>4, <3>5, <3>7, <3>8
    <3> QED  BY <3>2, <3>3, <3>9
  <2> QED  BY <2>1
<1>9. n <= CLUSTERS
  <2>1. SUFFICES ASSUME n > CLUSTERS PROVE FALSE
    BY <1>5, Numbers
  <2>2. IsFiniteSet(1 .. n) /\ Cardinality(1 .. n) = n
    <3>1. 1 \in Int /\ n \in Int /\ ~(1 > n) /\ n - 1 + 1 = n
      BY <1>5
    <3> QED  BY <3>1, FS_Interval
  <2>3. IsFiniteSet(Cluster) /\ Cardinality(Cluster) = CLUSTERS
    <3>1. PICK a, b : a = 2 /\ b = CLUSTERS + 1
      OBVIOUS
    <3>2. a \in Int /\ b \in Int /\ ~(a > b) /\ b - a + 1 = CLUSTERS
      BY <3>1, Numbers
    <3>3. Cardinality(a .. b) = b - a + 1 /\ IsFiniteSet(a .. b)
      BY <3>2, FS_Interval
    <3> QED  BY <3>1, <3>2, <3>3 DEF Cluster
  <2>4. Cardinality(Cluster) < Cardinality(1 .. n)
    BY <2>1, <2>2, <2>3
  <2>5. \E x, y \in 1 .. n : x # y /\ s[x] = s[y]
    BY <1>5, <2>2, <2>3, <2>4, FS_PigeonHole
  <2> QED  BY <1>8, <2>5
<1>10. f[s[n]] = EOC
  <2>1. n \in 1 .. n
    BY <1>5
  <2>2. s[n] \in Cluster /\ f[s[n]] # FREE /\ f[s[n]] \notin Cluster
    BY <1>5, <1>7, <1>9, <2>1
  <2> QED  BY <2>2 DEF Table
<1>11. GoodChain(f, h, s)
  BY <1>4, <1>5, <1>7, <1>8, <1>9, <1>10 DEF GoodChain
<1> QED  BY <1>1, <1>11

\* Chains from two heads have no cluster in common.
LEMMA ChainsApart ==
  ASSUME NEW f \in Table, Links(f), NEW h, IsHead(f, h), NEW k, IsHead(f, k),
         NEW c \in InChain(f, h), c \in InChain(f, k)
  PROVE  h = k
<1>1. PICK s, t : s = Chain(f, h) /\ t = Chain(f, k)
  OBVIOUS
<1>2. GoodChain(f, h, s) /\ GoodChain(f, k, t)
  BY <1>1, HeadChain
<1>3. PICK m, n : m = Len(s) /\ n = Len(t)
  OBVIOUS
<1>4. /\ m \in Nat /\ n \in Nat /\ DOMAIN s = 1 .. m /\ DOMAIN t = 1 .. n /\ s[1] = h /\ t[1] = k
      /\ \A i \in 1 .. m : s[i] \in Cluster
      /\ \A i \in 1 .. n : t[i] \in Cluster
      /\ \A i \in 1 .. m - 1 : s[i + 1] = f[s[i]]
      /\ \A i \in 1 .. n - 1 : t[i + 1] = f[t[i]]
  BY <1>2, <1>3 DEF GoodChain
<1> DEFINE T == {i \in 1 .. m : \E j \in 1 .. n : s[i] = t[j]}
<1>5. T # {}
  <2>1. PICK i \in 1 .. m : c = s[i]
    BY <1>1, <1>4 DEF InChain
  <2>2. PICK j \in 1 .. n : c = t[j]
    BY <1>1, <1>4 DEF InChain
  <2> QED  BY <2>1, <2>2
<1>6. T \in SUBSET Nat
  BY <1>4
<1>7. PICK i \in T : \A j \in T : i <= j
  BY <1>5, <1>6, Least
<1>8. PICK j \in 1 .. n : s[i] = t[j]
  BY <1>7
<1>9. \A a \in Cluster : f[a] # h /\ f[a] # k
  BY DEF IsHead
<1>10. CASE i = 1 /\ j = 1
  BY <1>4, <1>8, <1>10
<1>11. CASE i = 1 /\ j # 1
  <2>1. PICK l : l = j - 1
    OBVIOUS
  <2>2. l \in 1 .. n - 1 /\ l \in 1 .. n /\ j = l + 1
    BY <1>4, <1>11, <2>1
  <2>3. t[l] \in Cluster /\ f[t[l]] = t[j]
    BY <1>4, <2>2
  <2> QED  BY <1>4, <1>8, <1>9, <1>11, <2>3
<1>12. CASE i # 1
  <2>1. PICK l : l = i - 1
    OBVIOUS
  <2>2. l \in 1 .. m - 1 /\ l \in 1 .. m /\ i = l + 1
    BY <1>4, <1>7, <1>12, <2>1
  <2>3. s[l] \in Cluster /\ f[s[l]] = s[i] /\ s[i] \in Cluster
    BY <1>4, <1>7, <2>2
  <2>4. j # 1
    BY <1>4, <1>8, <1>9, <2>3
  <2>5. PICK q : q = j - 1
    OBVIOUS
  <2>6. q \in 1 .. n - 1 /\ q \in 1 .. n /\ j = q + 1
    BY <1>4, <2>4, <2>5
  <2>7. t[q] \in Cluster /\ f[t[q]] = t[j]
    BY <1>4, <2>6
  <2>8. s[l] = t[q]
    BY <1>8, <2>3, <2>7 DEF Links
  <2>9. l \in T
    BY <2>2, <2>6, <2>8
  <2>10. i <= l
    BY <1>7, <2>9
  <2>11. l \in Nat
    BY <2>2
  <2> QED  BY <2>2, <2>10, <2>11
<1> QED  BY <1>10, <1>11, <1>12

\* A chain none of whose links change stays as it is.
LEMMA SameChain ==
  ASSUME NEW f \in Table, Links(f), NEW h, IsHead(f, h), NEW f2 \in Table,
         \A c \in InChain(f, h) : f2[c] = f[c]
  PROVE  Chain(f2, h) = Chain(f, h)
<1>1. PICK s : s = Chain(f, h)
  OBVIOUS
<1>2. GoodChain(f, h, s)
  BY <1>1, HeadChain
<1>3. \A i \in 1 .. Len(s) : f2[s[i]] = f[s[i]]
  BY <1>1, <1>2 DEF GoodChain, InChain
<1>4. PICK n : n = Len(s)
  OBVIOUS
<1>5. /\ n \in Nat /\ n >= 1 /\ n <= CLUSTERS /\ s \in Seq(Cluster) /\ s[1] = h
      /\ \A i \in 1 .. n - 1 : s[i + 1] = f[s[i]]
      /\ f[s[n]] = EOC
      /\ \A i \in 1 .. n : f2[s[i]] = f[s[i]]
  BY <1>2, <1>3, <1>4 DEF GoodChain
<1>6. n \in 1 .. n /\ n <= CLUSTERS + 1 /\ \A i \in 1 .. n - 1 : i \in 1 .. n
  BY <1>5, Numbers
<1>7. \A i \in 1 .. n - 1 : s[i + 1] = f2[s[i]]
  BY <1>5, <1>6
<1>8. f2[s[n]] = EOC /\ EOC \notin Cluster
  BY <1>5, <1>6, Numbers
<1>9. h \in Cluster /\ h \in Int
  BY Numbers DEF IsHead
<1>10. n > 0
  BY <1>5
<1>11. IsChain(f2, h, s)
  BY <1>4, <1>5, <1>6, <1>7, <1>8, <1>9, <1>10 DEF IsChain
<1> QED  BY <1>1, <1>9, <1>11, ChainUnique

\* Linking a fresh cluster to the end of a chain makes it one longer.
LEMMA LongerChain ==
  ASSUME NEW f \in Table, Links(f), NEW h, IsHead(f, h),
         NEW last \in InChain(f, h), f[last] = EOC, NEW new \in Cluster, f[new] = FREE,
         NEW f2 \in Table, f2[new] = EOC, f2[last] = new,
         \A c \in Cluster \ {last, new} : f2[c] = f[c]
  PROVE  Chain(f2, h) = Append(Chain(f, h), new)
<1>1. PICK s, n : s = Chain(f, h) /\ n = Len(s)
  OBVIOUS
<1>2. GoodChain(f, h, s)
  BY <1>1, HeadChain
<1>3. /\ n \in Nat /\ n >= 1 /\ n <= CLUSTERS /\ s \in Seq(Cluster) /\ DOMAIN s = 1 .. n /\ s[1] = h
      /\ \A i \in 1 .. n : s[i] \in Cluster /\ f[s[i]] # FREE
      /\ \A i \in 1 .. n - 1 : s[i + 1] = f[s[i]]
      /\ f[s[n]] = EOC
      /\ \A i, j \in 1 .. n : s[i] = s[j] => i = j
  BY <1>1, <1>2 DEF GoodChain
<1>4. n \in 1 .. n /\ \A i \in 1 .. n - 1 : i \in 1 .. n /\ i + 1 \in 1 .. n /\ i # n
  BY <1>3
<1>5. PICK k \in 1 .. n : last = s[k]
  BY <1>1, <1>3 DEF InChain
<1>6. k = n
  <2>1. SUFFICES ASSUME k # n PROVE FALSE
    OBVIOUS
  <2>2. k \in 1 .. n - 1
    BY <1>3, <1>5, <2>1
  <2>3. s[k + 1] = EOC /\ s[k + 1] \in Cluster
    BY <1>3, <1>4, <1>5, <2>2
  <2> QED  BY <2>3, Numbers
<1>7. \A i \in 1 .. n - 1 : s[i + 1] = f2[s[i]]
  <2> TAKE i \in 1 .. n - 1
  <2>1. s[i] # last /\ s[i] # new /\ s[i] \in Cluster
    BY <1>3, <1>4, <1>5, <1>6
  <2> QED  BY <1>3, <2>1
<1>8. PICK t : t = Append(s, new)
  OBVIOUS
<1>9. /\ t \in Seq(Cluster) /\ Len(t) = n + 1 /\ t[n + 1] = new
      /\ \A i \in 1 .. n : t[i] = s[i]
  BY <1>1, <1>3, <1>8, AppendProperties
<1>10. \A i \in 1 .. n : t[i + 1] = f2[t[i]]
  <2> TAKE i \in 1 .. n
  <2>1. CASE i = n
    BY <1>5, <1>6, <1>9, <2>1
  <2>2. CASE i # n
    <3>1. i \in 1 .. n - 1 /\ i + 1 \in 1 .. n
      BY <1>3, <2>2
    <3> QED  BY <1>7, <1>9, <3>1
  <2> QED  BY <2>1, <2>2
<1>11. h \in Cluster /\ h \in Int
  BY Numbers DEF IsHead
<1>12. PICK m : m = n + 1
  OBVIOUS
<1>13. /\ m \in Nat /\ m > 0 /\ m <= CLUSTERS + 1 /\ t \in Seq(Cluster) /\ Len(t) = m /\ t[1] = h
       /\ \A i \in 1 .. m - 1 : t[i + 1] = f2[t[i]]
       /\ f2[t[m]] \notin Cluster
  <2>1. 1 \in 1 .. n /\ m - 1 = n
    BY <1>3, <1>12
  <2>2. t[1] = h
    BY <1>3, <1>9, <2>1
  <2>3. f2[t[m]] \notin Cluster
    BY <1>9, <1>12, Numbers
  <2> QED  BY <1>3, <1>9, <1>10, <1>12, <2>1, <2>2, <2>3, Numbers
<1>14. IsChain(f2, h, t)
  BY <1>11, <1>13 DEF IsChain
<1> QED  BY <1>1, <1>8, <1>11, <1>14, ChainUnique

\* A cluster that ends its own chain.
LEMMA ChainOfOne ==
  ASSUME NEW f \in Table, NEW c \in Cluster, f[c] = EOC
  PROVE  Chain(f, c) = <<c>> /\ InChain(f, c) = {c}
<1>1. <<c>> \in Seq(Cluster) /\ Len(<<c>>) = 1 /\ <<c>>[1] = c /\ 1 .. 1 - 1 = {}
  OBVIOUS
<1>2. EOC \notin Cluster /\ 1 <= CLUSTERS + 1 /\ c \in Int
  BY Numbers
<1>3. PICK s, n : s = <<c>> /\ n = Len(s)
  OBVIOUS
<1>4. n = 1 /\ s[1] = c /\ s \in Seq(Cluster) /\ DOMAIN s = {1}
  BY <1>1, <1>3
<1>5. IsChain(f, c, s)
  BY <1>2, <1>3, <1>4 DEF IsChain
<1>6. Chain(f, c) = s
  BY <1>2, <1>5, ChainUnique
<1> QED  BY <1>3, <1>4, <1>6 DEF InChain

\* No chain starts at 0.
LEMMA NoChain ==
  ASSUME NEW f \in Table
  PROVE  Chain(f, 0) = <<>> /\ InChain(f, 0) = {} /\ Len(Chain(f, 0)) = 0
<1>1. IsChain(f, 0, Chain(f, 0))
  BY ChainIs
<1>2. Chain(f, 0) \in Seq(Cluster) /\ Len(Chain(f, 0)) = 0
  BY <1>1, Numbers, LenProperties DEF IsChain
<1>3. Chain(f, 0) = <<>>
  BY <1>2, EmptySeq
<1> QED  BY <1>2, <1>3 DEF InChain

-----------------------------------------------------------------------------
\* Directories and the places of their entries.

\* What dividing an index by the units of a cluster gives.
LEMMA DivMod ==
  ASSUME NEW i \in Nat
  PROVE  /\ i \div UNITS \in Nat /\ i % UNITS \in Unit
         /\ i = UNITS * (i \div UNITS) + (i % UNITS)
<1>1. \A n \in Nat \ {0} : /\ i \div n \in Nat /\ i % n \in 0 .. n - 1
                           /\ i = n * (i \div n) + (i % n)
  OBVIOUS
<1>2. UNITS \in Nat \ {0} /\ Unit = 0 .. UNITS - 1
  BY Numbers
<1>3. /\ i \div UNITS \in Nat /\ i % UNITS \in 0 .. UNITS - 1
      /\ i = UNITS * (i \div UNITS) + (i % UNITS)
  BY <1>1, <1>2
<1> QED  BY <1>2, <1>3

\* An index is within n clusters if its cluster is.
LEMMA DivBound ==
  ASSUME NEW i \in Nat, NEW n \in Nat
  PROVE  i < UNITS * n <=> i \div UNITS < n
<1>1. PICK q, r : q = i \div UNITS /\ r = i % UNITS
  OBVIOUS
<1>2. q \in Nat /\ r \in Nat /\ r < UNITS /\ i = UNITS * q + r /\ UNITS \in Nat
  BY <1>1, DivMod, Numbers
<1>3. ASSUME q < n PROVE i < UNITS * n
  <2>1. PICK k \in Nat : n = q + 1 + k
    <3>1. n - q - 1 \in Nat /\ n = q + 1 + (n - q - 1)
      BY <1>2, <1>3
    <3> QED  BY <3>1
  <2>2. UNITS * n = UNITS * q + UNITS + UNITS * k /\ UNITS * k \in Nat /\ UNITS * q \in Nat
    BY <1>2, <2>1
  <2> QED  BY <1>2, <2>2
<1>4. ASSUME n <= q PROVE ~(i < UNITS * n)
  <2>1. PICK k \in Nat : q = n + k
    <3>1. q - n \in Nat /\ q = n + (q - n)
      BY <1>2, <1>4
    <3> QED  BY <3>1
  <2>2. UNITS * q = UNITS * n + UNITS * k /\ UNITS * k \in Nat /\ UNITS * n \in Nat
    BY <1>2, <2>1
  <2> QED  BY <1>2, <2>2
<1> QED  BY <1>1, <1>2, <1>3, <1>4

\* What holds of the table and the entries alone.
Base(f, U) == f \in Table /\ U \in [Places -> UnitSet] /\ Links(f) /\ EntHeads(f, U)

\* Only entries are marked so.
LEMMA Entries ==
  ASSUME NEW u \in UnitSet
  PROVE  /\ u.k = "ent" <=> u \in EntrySet
         /\ u.k \in {"ent", "zero", "deleted", "data"}
         /\ u.k = "zero" <=> u = Zero
         /\ u.k = "ent" => /\ u.first \in Cluster \cup {0} /\ u.dir \in BOOLEAN
                           /\ u.size \in Nat /\ u.name \in Names83
BY DEF UnitSet, EntrySet, Zero, Deleted, Data

\* The fields of live entries.
LEMMA LiveTyped ==
  ASSUME NEW f, NEW U \in [Places -> UnitSet], NEW p \in Live(f, U)
  PROVE  /\ p \in Places /\ U[p] \in EntrySet /\ U[p].k = "ent"
         /\ U[p].first \in Cluster \cup {0} /\ U[p].dir \in BOOLEAN /\ U[p].size \in Nat
<1>1. p \in Places /\ U[p] \in UnitSet /\ U[p].k = "ent"
  BY DEF Live
<1> QED  BY <1>1, Entries

\* A directory is the root, or the head of a chain.
LEMMA DirHeads ==
  ASSUME NEW f, NEW U, Base(f, U), NEW dc \in Dirs(f, U)
  PROVE  /\ dc \in DirIds
         /\ dc = ROOT \/ (dc # ROOT /\ IsHead(f, dc))
<1>1. CASE dc = ROOT
  BY <1>1 DEF DirIds
<1>2. CASE dc # ROOT
  <2>1. PICK p \in Live(f, U) : U[p].dir /\ dc = U[p].first
    BY <1>2 DEF Dirs
  <2>2. dc # 0 /\ IsHead(f, dc)
    BY <2>1 DEF Base, EntHeads
  <2> QED  BY <1>2, <2>2 DEF IsHead, DirIds
<1> QED  BY <1>1, <1>2

\* Whatever follows a table's links has a length.
LEMMA LenChain ==
  ASSUME NEW f \in Table, NEW c \in DirIds
  PROVE  /\ Len(Chain(f, c)) \in Nat /\ DirLen(f, c) \in Nat /\ UNITS * Len(Chain(f, c)) \in Nat
         /\ \A i \in Slots(f, c) : i \in Nat /\ i < DirLen(f, c)
<1>1. c \in Int
  BY Numbers DEF DirIds
<1>2. Chain(f, c) \in Seq(Cluster)
  BY <1>1, ChainIs DEF IsChain
<1>3. Len(Chain(f, c)) \in Nat
  BY <1>2, LenProperties
<1>4. UNITS * Len(Chain(f, c)) \in Nat
  BY <1>3, Numbers
<1>5. DirLen(f, c) \in Nat
  BY <1>4, Numbers DEF DirLen
<1> QED  BY <1>3, <1>4, <1>5 DEF Slots

\* Where slot i of a directory lies: in the root, or in an allocated cluster of
\* the directory's chain.
LEMMA PlaceFacts ==
  ASSUME NEW f, NEW U, Base(f, U), NEW dc \in Dirs(f, U), NEW i \in Slots(f, dc)
  PROVE  /\ PlaceOf(f, dc, i) \in Places
         /\ PlaceOf(f, dc, i)[1] = ROOT \/ f[PlaceOf(f, dc, i)[1]] # FREE
         /\ dc = ROOT => PlaceOf(f, dc, i) = <<ROOT, i>>
         /\ dc # ROOT => /\ PlaceOf(f, dc, i)[1] \in InChain(f, dc)
                         /\ PlaceOf(f, dc, i)[1] \in Cluster
                         /\ i \div UNITS + 1 \in 1 .. Len(Chain(f, dc))
                         /\ PlaceOf(f, dc, i) = <<Chain(f, dc)[i \div UNITS + 1], i % UNITS>>
<1>1. f \in Table /\ dc \in DirIds
  BY DirHeads DEF Base
<1>2. i \in Nat /\ i < DirLen(f, dc)
  BY <1>1, LenChain
<1>3. CASE dc = ROOT
  <2>1. PlaceOf(f, dc, i) = <<ROOT, i>> /\ i \in 0 .. ROOT_ENTRIES - 1
    BY <1>2, <1>3, Numbers DEF PlaceOf, DirLen
  <2> QED  BY <1>3, <2>1 DEF Places
<1>4. CASE dc # ROOT
  <2>1. IsHead(f, dc)
    BY <1>4, DirHeads
  <2>2. PICK s : s = Chain(f, dc)
    OBVIOUS
  <2>3. GoodChain(f, dc, s)
    BY <2>1, <2>2, HeadChain DEF Base
  <2>4. Len(s) \in Nat /\ i < UNITS * Len(s)
    BY <1>2, <1>4, <2>2, <2>3 DEF DirLen, GoodChain
  <2>5. PICK q : q = i \div UNITS + 1
    OBVIOUS
  <2>6. q \in 1 .. Len(s) /\ i % UNITS \in Unit
    <3>1. PICK n \in Nat : n = Len(s)
      BY <2>4
    <3>2. i \div UNITS \in Nat /\ i \div UNITS < n /\ i % UNITS \in Unit
      BY <1>2, <2>4, <3>1, DivMod, DivBound
    <3>3. q \in 1 .. n
      BY <2>5, <3>2
    <3> QED  BY <3>1, <3>2, <3>3
  <2>7. s[q] \in Cluster /\ f[s[q]] # FREE /\ s[q] \in InChain(f, dc)
    BY <2>2, <2>3, <2>6 DEF GoodChain, InChain
  <2>8. PlaceOf(f, dc, i) = <<s[q], i % UNITS>>
    BY <1>4, <2>2, <2>5 DEF PlaceOf
  <2> QED  BY <1>4, <2>2, <2>5, <2>6, <2>7, <2>8 DEF Places
<1> QED  BY <1>3, <1>4

\* Two slots, of one directory or two, are two places.
LEMMA PlacesApart ==
  ASSUME NEW f, NEW U, Base(f, U),
         NEW dc \in Dirs(f, U), NEW i \in Slots(f, dc),
         NEW ec \in Dirs(f, U), NEW j \in Slots(f, ec),
         PlaceOf(f, dc, i) = PlaceOf(f, ec, j)
  PROVE  dc = ec /\ i = j
<1>1. f \in Table /\ dc \in DirIds /\ ec \in DirIds
  BY DirHeads DEF Base
<1>2. i \in Nat /\ j \in Nat
  BY <1>1, LenChain
<1>3. dc = ROOT <=> ec = ROOT
  BY PlaceFacts, Numbers
<1>4. CASE dc = ROOT
  <2>1. PlaceOf(f, dc, i) = <<ROOT, i>> /\ PlaceOf(f, ec, j) = <<ROOT, j>>
    BY <1>3, <1>4, PlaceFacts
  <2> QED  BY <1>3, <1>4, <2>1
<1>5. CASE dc # ROOT
  <2>1. IsHead(f, dc) /\ IsHead(f, ec)
    BY <1>3, <1>5, DirHeads
  <2>2. dc = ec
    <3>1. PICK c : c = PlaceOf(f, dc, i)[1]
      OBVIOUS
    <3>2. c \in InChain(f, dc) /\ c \in InChain(f, ec)
      BY <1>3, <1>5, <3>1, PlaceFacts
    <3> QED  BY <2>1, <3>2, ChainsApart DEF Base
  <2>3. PICK s : s = Chain(f, dc)
    OBVIOUS
  <2>4. \A k, l \in 1 .. Len(s) : s[k] = s[l] => k = l
    BY <2>1, <2>3, HeadChain DEF Base, GoodChain
  <2>5. /\ i \div UNITS + 1 \in 1 .. Len(s) /\ j \div UNITS + 1 \in 1 .. Len(s)
        /\ PlaceOf(f, dc, i) = <<s[i \div UNITS + 1], i % UNITS>>
        /\ PlaceOf(f, ec, j) = <<s[j \div UNITS + 1], j % UNITS>>
    BY <1>5, <2>2, <2>3, PlaceFacts
  <2>6. PICK a, b, k, l : /\ a = i \div UNITS + 1 /\ b = j \div UNITS + 1
                          /\ k = i % UNITS /\ l = j % UNITS
    OBVIOUS
  <2>7. a \in 1 .. Len(s) /\ b \in 1 .. Len(s) /\ <<s[a], k>> = <<s[b], l>>
    BY <2>5, <2>6
  <2>8. a = b /\ k = l
    BY <2>4, <2>7
  <2>9. i = j
    <3>1. i = UNITS * (i \div UNITS) + k /\ i \div UNITS \in Nat
      BY <1>2, <2>6, DivMod
    <3>2. j = UNITS * (j \div UNITS) + k /\ j \div UNITS \in Nat
      BY <1>2, <2>6, <2>8, DivMod
    <3>3. i \div UNITS = j \div UNITS
      BY <2>6, <2>8, <3>1, <3>2
    <3> QED  BY <3>1, <3>2, <3>3
  <2> QED  BY <2>2, <2>9
<1> QED  BY <1>4, <1>5

\* The entries of a directory's slots are live; those that name directories name
\* directories.
LEMMA SlotLive ==
  ASSUME NEW f, NEW U, Base(f, U), NEW dc \in Dirs(f, U), NEW i \in Slots(f, dc)
  PROVE  /\ U[PlaceOf(f, dc, i)] \in UnitSet
         /\ U[PlaceOf(f, dc, i)].k = "ent" => /\ PlaceOf(f, dc, i) \in Live(f, U)
                                              /\ U[PlaceOf(f, dc, i)].dir => U[PlaceOf(f, dc, i)].first \in Dirs(f, U)
<1>1. PICK p : p = PlaceOf(f, dc, i)
  OBVIOUS
<1>2. p \in Places /\ (p[1] = ROOT \/ f[p[1]] # FREE)
  BY <1>1, PlaceFacts
<1>3. U[p] \in UnitSet
  BY <1>2 DEF Base
<1> QED  BY <1>1, <1>2, <1>3 DEF Live, Dirs

\* Subdirectories are directories, and so is all that can be reached.
LEMMA TreeInDirs ==
  ASSUME NEW f, NEW U, Base(f, U)
  PROVE  /\ \A dc \in Dirs(f, U) : Subs(f, U, dc) \subseteq Dirs(f, U)
         /\ Tree(f, U) \subseteq Dirs(f, U) /\ Dirs(f, U) \subseteq DirIds /\ ROOT \in Dirs(f, U)
<1>1. ASSUME NEW dc \in Dirs(f, U) PROVE Subs(f, U, dc) \subseteq Dirs(f, U)
  BY SlotLive DEF Subs, Visible
<1>2. Dirs(f, U) \subseteq DirIds /\ ROOT \in Dirs(f, U)
  BY DirHeads DEF Dirs
<1>3. Closed(f, U, Dirs(f, U))
  BY <1>1, <1>2 DEF Closed
<1>4. Tree(f, U) \subseteq Dirs(f, U)
  BY <1>2, <1>3 DEF Tree
<1> QED  BY <1>1, <1>2, <1>4

\* The root can be reached, and from a directory its subdirectories.
LEMMA TreeClosed ==
  ASSUME NEW f, NEW U, Base(f, U)
  PROVE  ROOT \in Tree(f, U) /\ \A dc \in Tree(f, U) : Subs(f, U, dc) \subseteq Tree(f, U)
<1>1. ROOT \in Tree(f, U)
  BY DEF Tree, Closed, DirIds
<1>2. ASSUME NEW dc \in Tree(f, U), NEW x \in Subs(f, U, dc) PROVE x \in Tree(f, U)
  <2>1. x \in DirIds
    BY TreeInDirs
  <2>2. ASSUME NEW S \in SUBSET DirIds, Closed(f, U, S) PROVE x \in S
    BY <2>2 DEF Tree, Closed
  <2> QED  BY <2>1, <2>2 DEF Tree
<1> QED  BY <1>1, <1>2

\* What can be reached stays so, but for directories X that have no others below.
LEMMA TreeKept ==
  ASSUME NEW f, NEW U, Base(f, U), NEW f2, NEW U2, NEW X \in SUBSET DirIds,
         \A dc \in Dirs(f, U) \ X : Subs(f, U, dc) \subseteq Subs(f2, U2, dc) \cup X,
         \A dc \in X : Subs(f, U, dc) \subseteq X
  PROVE  Tree(f, U) \ X \subseteq Tree(f2, U2)
<1>1. SUFFICES ASSUME NEW x \in Tree(f, U) \ X, NEW S \in SUBSET DirIds, Closed(f2, U2, S)
               PROVE  x \in S
  BY DEF Tree
<1>2. PICK R : R = (S \cap Dirs(f, U)) \cup X
  OBVIOUS
<1>3. R \in SUBSET DirIds /\ ROOT \in R
  BY <1>1, <1>2, TreeInDirs DEF Closed
<1>4. \A dc \in R : Subs(f, U, dc) \subseteq R
  <2> TAKE dc \in R
  <2>1. CASE dc \in X
    BY <1>2, <2>1
  <2>2. CASE dc \notin X
    <3>1. dc \in S /\ dc \in Dirs(f, U)
      BY <1>2, <2>2
    <3>2. Subs(f, U, dc) \subseteq Subs(f2, U2, dc) \cup X /\ Subs(f, U, dc) \subseteq Dirs(f, U)
      BY <2>2, <3>1, TreeInDirs
    <3>3. Subs(f2, U2, dc) \subseteq S
      BY <1>1, <3>1 DEF Closed
    <3> QED  BY <1>2, <3>2, <3>3
  <2> QED  BY <2>1, <2>2
<1>5. x \in R
  BY <1>3, <1>4 DEF Tree, Closed
<1> QED  BY <1>2, <1>5

-----------------------------------------------------------------------------
\* Growth: clusters are claimed, chains get longer and files are written, but no
\* entry changes.

\* The disk f2, U2 is f, U grown.
Grows(f, U, f2, U2) ==
  /\ f2 \in Table /\ U2 \in [Places -> UnitSet] /\ Links(f2)
  /\ Live(f2, U2) = Live(f, U) /\ \A p \in Live(f, U) : U2[p] = U[p]
  /\ \A h \in Cluster : IsHead(f, h) =>
       /\ IsHead(f2, h) /\ Len(Chain(f, h)) <= Len(Chain(f2, h))
       /\ \A i \in 1 .. Len(Chain(f, h)) : Chain(f2, h)[i] = Chain(f, h)[i]
  /\ \A dc \in Dirs(f, U) : \A i \in Slots(f, dc) : U2[PlaceOf(f, dc, i)] = U[PlaceOf(f, dc, i)]
  /\ \A dc \in Dirs(f, U) : \A i \in Slots(f2, dc) \ Slots(f, dc) : U2[PlaceOf(f2, dc, i)] = Zero

\* More clusters have more units.
LEMMA TimesMono ==
  ASSUME NEW m \in Nat, NEW n \in Nat, m <= n
  PROVE  UNITS * m <= UNITS * n
<1>1. PICK k \in Nat : n = m + k
  <2>1. n - m \in Nat /\ n = m + (n - m)
    OBVIOUS
  <2> QED  BY <2>1
<1>2. UNITS * n = UNITS * m + UNITS * k /\ UNITS * k \in Nat /\ UNITS * m \in Nat
  BY <1>1, Numbers
<1> QED  BY <1>2

\* The entries stay what they are.
LEMMA GrownBase ==
  ASSUME NEW f, NEW U, Base(f, U), NEW f2, NEW U2, Grows(f, U, f2, U2)
  PROVE  Base(f2, U2) /\ Dirs(f2, U2) = Dirs(f, U)
<1>1. Live(f2, U2) = Live(f, U) /\ \A p \in Live(f, U) : U2[p] = U[p]
  BY DEF Grows
<1>2. Dirs(f2, U2) = Dirs(f, U)
  BY <1>1 DEF Dirs
<1>3. \A h \in Cluster : IsHead(f, h) => IsHead(f2, h)
  BY DEF Grows
<1>4. EntHeads(f2, U2)
  <2>1. SUFFICES ASSUME NEW p \in Live(f, U)
                 PROVE  /\ U[p].dir => U[p].first # 0
                        /\ U[p].first # 0 => /\ IsHead(f2, U[p].first)
                                             /\ \A q \in Live(f, U) : U[q].first = U[p].first => q = p
    BY <1>1 DEF EntHeads
  <2>2. U[p].first # 0 => IsHead(f2, U[p].first)
    BY <1>3 DEF Base, EntHeads, IsHead
  <2> QED  BY <2>2 DEF Base, EntHeads
<1> QED  BY <1>2, <1>4 DEF Base, Grows

\* The slots of a directory stay where they are.
LEMMA GrownSlots ==
  ASSUME NEW f, NEW U, Base(f, U), NEW f2, NEW U2, Grows(f, U, f2, U2),
         NEW dc \in Dirs(f, U)
  PROVE  /\ DirLen(f, dc) \in Nat /\ DirLen(f2, dc) \in Nat /\ DirLen(f, dc) <= DirLen(f2, dc)
         /\ \A i \in Slots(f, dc) : /\ i \in Slots(f2, dc) /\ PlaceOf(f2, dc, i) = PlaceOf(f, dc, i)
                                    /\ U2[PlaceOf(f2, dc, i)] = U[PlaceOf(f, dc, i)]
         /\ \A i \in Slots(f2, dc) : \/ i \in Slots(f, dc)
                                     \/ i >= DirLen(f, dc) /\ U2[PlaceOf(f2, dc, i)] = Zero
<1>1. f \in Table /\ f2 \in Table /\ dc \in DirIds
  BY DirHeads DEF Base, Grows
<1>2. DirLen(f, dc) \in Nat /\ DirLen(f2, dc) \in Nat
  BY <1>1, LenChain
<1>3. DirLen(f, dc) <= DirLen(f2, dc) /\ \A i \in Slots(f, dc) : PlaceOf(f2, dc, i) = PlaceOf(f, dc, i)
  <2>1. CASE dc = ROOT
    BY <1>2, <2>1 DEF DirLen, PlaceOf
  <2>2. CASE dc # ROOT
    <3>1. IsHead(f, dc) /\ dc \in Cluster
      BY <2>2, DirHeads DEF IsHead
    <3>2. /\ Len(Chain(f, dc)) <= Len(Chain(f2, dc))
          /\ \A i \in 1 .. Len(Chain(f, dc)) : Chain(f2, dc)[i] = Chain(f, dc)[i]
      BY <3>1 DEF Grows
    <3>3. Len(Chain(f, dc)) \in Nat /\ Len(Chain(f2, dc)) \in Nat
      BY <1>1, LenChain
    <3>4. DirLen(f, dc) <= DirLen(f2, dc)
      BY <2>2, <3>2, <3>3, TimesMono DEF DirLen
    <3>5. ASSUME NEW i \in Slots(f, dc) PROVE PlaceOf(f2, dc, i) = PlaceOf(f, dc, i)
      <4>1. i \div UNITS + 1 \in 1 .. Len(Chain(f, dc))
        BY <2>2, PlaceFacts
      <4>2. Chain(f2, dc)[i \div UNITS + 1] = Chain(f, dc)[i \div UNITS + 1]
        BY <3>2, <4>1
      <4> QED  BY <2>2, <4>2 DEF PlaceOf
    <3> QED  BY <3>4, <3>5
  <2> QED  BY <2>1, <2>2
<1>4. \A i \in Slots(f, dc) : i \in Slots(f2, dc)
  BY <1>2, <1>3 DEF Slots
<1>5. \A i \in Slots(f, dc) : U2[PlaceOf(f2, dc, i)] = U[PlaceOf(f, dc, i)]
  BY <1>3 DEF Grows
<1>6. \A i \in Slots(f2, dc) : i \notin Slots(f, dc) => i >= DirLen(f, dc) /\ U2[PlaceOf(f2, dc, i)] = Zero
  BY <1>2 DEF Slots, Grows
<1> QED  BY <1>2, <1>3, <1>4, <1>5, <1>6

\* Its entries stay in sight, and it has no more of them.
LEMMA GrownVisible ==
  ASSUME NEW f, NEW U, Base(f, U), NEW f2, NEW U2, Grows(f, U, f2, U2),
         NEW dc \in Dirs(f, U)
  PROVE  /\ Visible(f, U, dc) \subseteq Visible(f2, U2, dc)
         /\ Subs(f, U, dc) \subseteq Subs(f2, U2, dc)
<1>1. ASSUME NEW i \in Visible(f, U, dc) PROVE i \in Visible(f2, U2, dc)
  <2>1. i \in Slots(f, dc) /\ U[PlaceOf(f, dc, i)].k = "ent"
    BY DEF Visible
  <2>2. i \in Slots(f2, dc) /\ U2[PlaceOf(f2, dc, i)].k = "ent"
    BY <2>1, GrownSlots
  <2>3. ASSUME NEW j \in Slots(f2, dc), U2[PlaceOf(f2, dc, j)] = Zero PROVE i < j
    <3>1. CASE j \in Slots(f, dc)
      <4>1. U[PlaceOf(f, dc, j)] = Zero
        BY <2>3, <3>1, GrownSlots
      <4> QED  BY <3>1, <4>1 DEF Visible
    <3>2. CASE j \notin Slots(f, dc)
      <4>1. j >= DirLen(f, dc) /\ DirLen(f, dc) \in Nat /\ DirLen(f2, dc) \in Nat
        BY <3>2, GrownSlots
      <4> QED  BY <2>1, <4>1 DEF Slots
    <3> QED  BY <3>1, <3>2
  <2> QED  BY <2>2, <2>3 DEF Visible
<1>2. ASSUME NEW i \in Visible(f, U, dc) PROVE U2[PlaceOf(f2, dc, i)] = U[PlaceOf(f, dc, i)]
  BY GrownSlots DEF Visible
<1> QED  BY <1>1, <1>2 DEF Subs

\* The directories stay reachable.
LEMMA GrownTree ==
  ASSUME NEW f, NEW U, Base(f, U), NEW f2, NEW U2, Grows(f, U, f2, U2)
  PROVE  Tree(f, U) \subseteq Tree(f2, U2)
<1>1. \A dc \in Dirs(f, U) \ {} : Subs(f, U, dc) \subseteq Subs(f2, U2, dc) \cup {}
  BY GrownVisible
<1>2. PICK X : X = {}
  OBVIOUS
<1>3. /\ X \in SUBSET DirIds
      /\ \A dc \in Dirs(f, U) \ X : Subs(f, U, dc) \subseteq Subs(f2, U2, dc) \cup X
      /\ \A dc \in X : Subs(f, U, dc) \subseteq X
  BY <1>1, <1>2
<1>4. Tree(f, U) \ X \subseteq Tree(f2, U2)
  BY <1>3, TreeKept
<1> QED  BY <1>2, <1>4

\* What DInv says of the descriptors' types.
LEMMA FdTyped ==
  ASSUME NEW f, NEW U, NEW g, Typed(f, U, g), NEW x \in Used(g)
  PROVE  /\ x \in FDs /\ g[x] \in FDSet
         /\ g[x].first \in Cluster \cup {0} /\ g[x].size \in Nat /\ g[x].pos \in Nat
         /\ g[x].parent \in DirIds /\ g[x].idx \in Nat /\ g[x].used = TRUE
<1>1. x \in FDs /\ g[x] \in FDSet \cup {NoFD} /\ g[x].used
  BY DEF Typed, Used
<1>2. NoFD.used = FALSE
  BY DEF NoFD
<1>3. g[x] \in FDSet
  BY <1>1, <1>2
<1> QED  BY <1>1, <1>3 DEF FDSet, DirIds, ROOT

\* DInv has the base in it.
LEMMA DInvBase ==
  ASSUME NEW f, NEW U, NEW g, DInv(f, U, g)
  PROVE  Base(f, U) /\ f \in Table /\ U \in [Places -> UnitSet] /\ Links(f) /\ Typed(f, U, g)
BY DEF DInv, Base, Typed

\* The room of a chain in a grown disk.
LEMMA GrownRoom ==
  ASSUME NEW f \in Table, Links(f), NEW U, NEW f2, NEW U2, Grows(f, U, f2, U2),
         NEW h \in Cluster \cup {0}, h # 0 => IsHead(f, h)
  PROVE  Room(f, h) \in Nat /\ Room(f2, h) \in Nat /\ Room(f, h) <= Room(f2, h)
<1>1. f2 \in Table /\ h \in DirIds
  BY Numbers DEF Grows, DirIds
<1>2. Len(Chain(f, h)) \in Nat /\ Len(Chain(f2, h)) \in Nat /\ Room(f, h) \in Nat /\ Room(f2, h) \in Nat
  BY <1>1, LenChain DEF Room
<1>3. Len(Chain(f, h)) <= Len(Chain(f2, h))
  <2>1. CASE h = 0
    BY <1>1, <2>1, NoChain
  <2>2. CASE h # 0
    BY <2>2 DEF Grows
  <2> QED  BY <2>1, <2>2
<1> QED  BY <1>2, <1>3, TimesMono DEF Room

\* A disk that grows keeps the invariant.
LEMMA Grown ==
  ASSUME NEW f, NEW U, NEW g, DInv(f, U, g), NEW f2, NEW U2, Grows(f, U, f2, U2),
         Kinds(f2, U2, g)
  PROVE  DInv(f2, U2, g)
<1>1. Base(f, U) /\ f \in Table /\ Links(f) /\ Typed(f, U, g)
  BY DInvBase
<1>2. Base(f2, U2) /\ Dirs(f2, U2) = Dirs(f, U)
  BY <1>1, GrownBase
<1>3. Live(f2, U2) = Live(f, U) /\ \A p \in Live(f, U) : U2[p] = U[p]
  BY DEF Grows
<1>4. Typed(f2, U2, g)
  BY <1>1 DEF Typed, Grows
<1>5. ASSUME NEW x \in Used(g)
      PROVE  /\ g[x].parent \in Dirs(f, U) /\ g[x].parent \in Tree(f2, U2)
             /\ g[x].idx \in Slots(f, g[x].parent) /\ g[x].idx \in Visible(f2, U2, g[x].parent)
             /\ Anchor(f2, g[x]) = Anchor(f, g[x])
             /\ U2[Anchor(f2, g[x])] = U[Anchor(f, g[x])]
  <2>1. g[x].parent \in Tree(f, U) /\ g[x].idx \in Visible(f, U, g[x].parent)
    BY DEF DInv, Anchored
  <2>2. g[x].parent \in Dirs(f, U) /\ g[x].parent \in Tree(f2, U2)
    BY <1>1, <2>1, TreeInDirs, GrownTree
  <2>3. g[x].idx \in Slots(f, g[x].parent) /\ g[x].idx \in Visible(f2, U2, g[x].parent)
    BY <1>1, <2>1, <2>2, GrownVisible DEF Visible
  <2> QED  BY <1>1, <2>2, <2>3, GrownSlots DEF Anchor
<1>6. FdHeads(f2, U2, g)
  <2>1. SUFFICES ASSUME NEW x \in Used(g), g[x].first # 0
                 PROVE  /\ IsHead(f2, g[x].first)
                        /\ \A y \in Used(g) : g[y].first = g[x].first => y = x
                        /\ \A p \in Live(f, U) : U[p].first = g[x].first => p = Anchor(f2, g[x])
    BY <1>3 DEF FdHeads
  <2>2. /\ IsHead(f, g[x].first)
        /\ \A y \in Used(g) : g[y].first = g[x].first => y = x
        /\ \A p \in Live(f, U) : U[p].first = g[x].first => p = Anchor(f, g[x])
    BY <2>1 DEF DInv, FdHeads
  <2>3. IsHead(f2, g[x].first)
    BY <2>2 DEF Grows, IsHead
  <2> QED  BY <1>5, <2>2, <2>3
<1>7. Anchored(f2, U2, g)
  <2>1. SUFFICES ASSUME NEW x \in Used(g)
                 PROVE  /\ g[x].parent \in Tree(f2, U2)
                        /\ g[x].idx \in Visible(f2, U2, g[x].parent)
                        /\ ~U2[Anchor(f2, g[x])].dir /\ U2[Anchor(f2, g[x])].first \in {0, g[x].first}
                        /\ \A y \in Used(g) : y # x => g[y].parent # g[x].parent \/ g[y].idx # g[x].idx
    BY DEF Anchored
  <2>2. /\ ~U[Anchor(f, g[x])].dir /\ U[Anchor(f, g[x])].first \in {0, g[x].first}
        /\ \A y \in Used(g) : y # x => g[y].parent # g[x].parent \/ g[y].idx # g[x].idx
    BY DEF DInv, Anchored
  <2> QED  BY <1>5, <2>2
<1>8. Sized(f2, U2, g)
  <2>1. ASSUME NEW p \in Live(f, U) PROVE U[p].size <= Room(f2, U[p].first)
    <3>1. U[p].first \in Cluster \cup {0} /\ U[p].size \in Nat
      BY <1>1, LiveTyped DEF Base
    <3>2. U[p].first # 0 => IsHead(f, U[p].first)
      BY <1>1 DEF Base, EntHeads
    <3>3. U[p].size <= Room(f, U[p].first)
      BY DEF DInv, Sized
    <3>4. /\ Room(f, U[p].first) \in Nat /\ Room(f2, U[p].first) \in Nat
          /\ Room(f, U[p].first) <= Room(f2, U[p].first)
      BY <1>1, <3>1, <3>2, GrownRoom
    <3> QED  BY <3>1, <3>3, <3>4
  <2>2. ASSUME NEW x \in Used(g)
        PROVE  g[x].pos <= g[x].size /\ g[x].size <= Room(f2, g[x].first)
    <3>1. g[x].first \in Cluster \cup {0} /\ g[x].size \in Nat
      BY <1>1, FdTyped
    <3>2. g[x].first # 0 => IsHead(f, g[x].first)
      BY DEF DInv, FdHeads
    <3>3. g[x].pos <= g[x].size /\ g[x].size <= Room(f, g[x].first)
      BY DEF DInv, Sized
    <3>4. /\ Room(f, g[x].first) \in Nat /\ Room(f2, g[x].first) \in Nat
          /\ Room(f, g[x].first) <= Room(f2, g[x].first)
      BY <1>1, <3>1, <3>2, GrownRoom
    <3> QED  BY <3>1, <3>3, <3>4
  <2> QED  BY <1>3, <2>1, <2>2 DEF Sized
<1>9. Tidy(f2, U2)
  <2>1. SUFFICES ASSUME NEW dc \in Dirs(f, U), NEW i \in Slots(f2, dc), NEW j \in Slots(f2, dc)
                 PROVE  /\ i < j /\ U2[PlaceOf(f2, dc, i)] = Zero => U2[PlaceOf(f2, dc, j)] = Zero
                        /\ i # j /\ U2[PlaceOf(f2, dc, i)].k = "ent" /\ U2[PlaceOf(f2, dc, j)].k = "ent"
                             => U2[PlaceOf(f2, dc, i)].name # U2[PlaceOf(f2, dc, j)].name
    BY <1>2 DEF Tidy
  <2>2. Zero.k # "ent"
    BY DEF Zero
  <2>3. CASE i \in Slots(f, dc) /\ j \in Slots(f, dc)
    <3>1. U2[PlaceOf(f2, dc, i)] = U[PlaceOf(f, dc, i)] /\ U2[PlaceOf(f2, dc, j)] = U[PlaceOf(f, dc, j)]
      BY <1>1, <2>3, GrownSlots
    <3> QED  BY <2>3, <3>1 DEF DInv, Tidy
  <2>4. CASE j \notin Slots(f, dc)
    <3>1. U2[PlaceOf(f2, dc, j)] = Zero
      BY <1>1, <2>4, GrownSlots
    <3> QED  BY <2>2, <3>1
  <2>5. CASE i \notin Slots(f, dc) /\ j \in Slots(f, dc)
    <3>1. U2[PlaceOf(f2, dc, i)] = Zero /\ i >= DirLen(f, dc) /\ DirLen(f, dc) \in Nat /\ DirLen(f2, dc) \in Nat
      BY <1>1, <2>5, GrownSlots
    <3>2. ~(i < j)
      BY <2>5, <3>1 DEF Slots
    <3> QED  BY <2>2, <3>1, <3>2
  <2> QED  BY <2>3, <2>4, <2>5
<1> QED  BY <1>2, <1>4, <1>6, <1>7, <1>8, <1>9 DEF DInv, Base

\* Zeroing cluster c.
Blanked(U, c) == [p \in Places |-> IF p[1] = c THEN Zero ELSE U[p]]

\* It changes that cluster only.
LEMMA BlankedIs ==
  ASSUME NEW U \in [Places -> UnitSet], NEW c \in Cluster
  PROVE  /\ Blanked(U, c) \in [Places -> UnitSet]
         /\ \A p \in Places : p[1] # c => Blanked(U, c)[p] = U[p]
         /\ \A p \in Places : p[1] = c => Blanked(U, c)[p] = Zero
         /\ NoData(Blanked(U, c), c) /\ NoEnts(Blanked(U, c), c)
         /\ \A d \in Cluster \ {c} : /\ NoData(U, d) => NoData(Blanked(U, c), d)
                                     /\ NoEnts(U, d) => NoEnts(Blanked(U, c), d)
         /\ \A i \in 0 .. ROOT_ENTRIES - 1 : Blanked(U, c)[<<ROOT, i>>] = U[<<ROOT, i>>]
<1>1. Zero \in UnitSet /\ Zero.k # "ent" /\ Zero.k # "data"
  BY DEF UnitSet, Zero
<1>2. \A d \in Cluster, u \in Unit : <<d, u>> \in Places
  BY DEF Places
<1>3. \A i \in 0 .. ROOT_ENTRIES - 1 : <<ROOT, i>> \in Places /\ ROOT # c
  BY Numbers DEF Places
<1> QED  BY <1>1, <1>2, <1>3 DEF Blanked, NoData, NoEnts

\* A free cluster is part of no chain.
LEMMA FreeNotInChain ==
  ASSUME NEW f \in Table, Links(f), NEW h, IsHead(f, h), NEW c \in InChain(f, h)
  PROVE  c \in Cluster /\ f[c] # FREE
<1>1. PICK s : s = Chain(f, h)
  OBVIOUS
<1>2. GoodChain(f, h, s)
  BY <1>1, HeadChain
<1>3. PICK i \in DOMAIN s : c = s[i]
  BY <1>1 DEF InChain
<1> QED  BY <1>2, <1>3 DEF GoodChain

\* Heads that have an owner.
LEMMA Owned ==
  ASSUME NEW f, NEW U, NEW g, DInv(f, U, g)
  PROVE  /\ \A p \in Live(f, U) : U[p].first \in Cluster \cup {0} /\ (U[p].first # 0 => IsHead(f, U[p].first))
         /\ \A x \in Used(g) : g[x].first \in Cluster \cup {0} /\ (g[x].first # 0 => IsHead(f, g[x].first))
<1>1. Base(f, U) /\ U \in [Places -> UnitSet] /\ Typed(f, U, g)
  BY DInvBase
<1>2. \A p \in Live(f, U) : U[p].first \in Cluster \cup {0}
  BY <1>1, LiveTyped
<1>3. \A x \in Used(g) : g[x].first \in Cluster \cup {0}
  BY <1>1, FdTyped
<1> QED  BY <1>1, <1>2, <1>3 DEF DInv, FdHeads, Base, EntHeads

\* Setting one element of the table.
Marked(f, c, e) == [f EXCEPT ![c] = e]

\* Claiming (or only zeroing) a free cluster.
LEMMA Claimed ==
  ASSUME NEW f, NEW U, NEW g, DInv(f, U, g), NEW c \in Cluster, f[c] = FREE,
         NEW e, e = FREE \/ e = EOC, NEW f2, f2 = Marked(f, c, e)
  PROVE  /\ DInv(f2, Blanked(U, c), g) /\ Live(f2, Blanked(U, c)) = Live(f, U)
         /\ Grows(f, U, f2, Blanked(U, c))
<1>1. Base(f, U) /\ f \in Table /\ U \in [Places -> UnitSet] /\ Links(f)
  BY DInvBase
<1>2. PICK U2 : U2 = Blanked(U, c)
  OBVIOUS
<1>3. /\ U2 \in [Places -> UnitSet]
      /\ \A p \in Places : p[1] # c => U2[p] = U[p]
      /\ \A p \in Places : p[1] = c => U2[p] = Zero
      /\ \A d \in Cluster \ {c} : (NoData(U, d) => NoData(U2, d)) /\ (NoEnts(U, d) => NoEnts(U2, d))
      /\ \A i \in 0 .. ROOT_ENTRIES - 1 : U2[<<ROOT, i>>] = U[<<ROOT, i>>]
  BY <1>1, <1>2, BlankedIs
<1>4. f2 \in Table /\ f2[c] = e /\ \A a \in Cluster \ {c} : f2[a] = f[a]
  BY <1>1, Numbers DEF Table, Marked
<1>5. e \notin Cluster
  BY Numbers
<1>6. Links(f2)
  <2>1. SUFFICES ASSUME NEW a \in Cluster, f2[a] \in Cluster
                 PROVE  f2[f2[a]] # FREE /\ \A b \in Cluster : f2[b] = f2[a] => b = a
    BY DEF Links
  <2>2. a # c /\ f2[a] = f[a]
    BY <1>4, <1>5, <2>1
  <2>3. f[f[a]] # FREE /\ \A b \in Cluster : f[b] = f[a] => b = a
    BY <1>1, <2>1, <2>2 DEF Links
  <2>4. f[a] # c
    BY <2>3
  <2> QED  BY <1>4, <1>5, <2>1, <2>2, <2>3, <2>4
<1>7. Live(f2, U2) = Live(f, U) /\ \A p \in Live(f, U) : U2[p] = U[p] /\ p[1] # c
  <2>1. c # ROOT /\ Zero.k # "ent"
    BY Numbers DEF Zero
  <2>2. \A p \in Places : p[1] = c => p \notin Live(f, U) /\ p \notin Live(f2, U2)
    BY <1>3, <2>1 DEF Live
  <2>3. \A p \in Places : p[1] = ROOT \/ p[1] \in Cluster
    BY DEF Places
  <2>4. \A p \in Places : p[1] # c => (p \in Live(f, U) <=> p \in Live(f2, U2))
    BY <1>3, <1>4, <2>3 DEF Live
  <2>5. Live(f, U) \subseteq Places /\ Live(f2, U2) \subseteq Places
    BY DEF Live
  <2> QED  BY <1>3, <2>2, <2>4, <2>5
<1>8. ASSUME NEW h \in Cluster, IsHead(f, h)
      PROVE  IsHead(f2, h) /\ Chain(f2, h) = Chain(f, h) /\ InChain(f2, h) = InChain(f, h) /\ c \notin InChain(f, h)
  <2>1. c \notin InChain(f, h)
    BY <1>1, <1>8, FreeNotInChain
  <2>2. \A a \in InChain(f, h) : f2[a] = f[a]
    BY <1>1, <1>4, <1>8, <2>1, FreeNotInChain
  <2>3. Chain(f2, h) = Chain(f, h)
    BY <1>1, <1>4, <1>8, <2>2, SameChain
  <2>4. IsHead(f2, h)
    BY <1>4, <1>5, <1>8 DEF IsHead
  <2> QED  BY <2>1, <2>3, <2>4 DEF InChain
<1>9. ASSUME NEW dc \in Dirs(f, U), NEW i \in Slots(f, dc) PROVE U2[PlaceOf(f, dc, i)] = U[PlaceOf(f, dc, i)]
  <2>1. PlaceOf(f, dc, i) \in Places /\ (PlaceOf(f, dc, i)[1] = ROOT \/ f[PlaceOf(f, dc, i)[1]] # FREE)
    BY <1>1, PlaceFacts
  <2> QED  BY <1>3, <2>1, Numbers
<1>10. ASSUME NEW dc \in Dirs(f, U) PROVE Slots(f2, dc) = Slots(f, dc)
  <2>1. CASE dc = ROOT
    BY <2>1 DEF Slots, DirLen
  <2>2. CASE dc # ROOT
    <3>1. IsHead(f, dc) /\ dc \in Cluster
      BY <1>1, <2>2, DirHeads DEF IsHead
    <3> QED  BY <1>8, <3>1 DEF Slots, DirLen
  <2> QED  BY <2>1, <2>2
<1>11. Grows(f, U, f2, U2)
  <2>1. \A h \in Cluster : IsHead(f, h) =>
           /\ IsHead(f2, h) /\ Len(Chain(f, h)) <= Len(Chain(f2, h))
           /\ \A i \in 1 .. Len(Chain(f, h)) : Chain(f2, h)[i] = Chain(f, h)[i]
    <3> TAKE h \in Cluster
    <3> HAVE IsHead(f, h)
    <3>1. Len(Chain(f, h)) \in Nat
      BY <1>1, LenChain DEF DirIds
    <3>2. IsHead(f2, h) /\ Chain(f2, h) = Chain(f, h)
      BY <1>8
    <3>3. Len(Chain(f, h)) <= Len(Chain(f2, h))
      BY <3>1, <3>2
    <3> QED  BY <3>2, <3>3
  <2> QED  BY <1>3, <1>4, <1>6, <1>7, <1>9, <1>10, <2>1 DEF Grows
<1>12. Kinds(f2, U2, g)
  <2>1. \A i \in 0 .. ROOT_ENTRIES - 1 : U2[<<ROOT, i>>].k # "data"
    BY <1>3 DEF DInv, Kinds
  <2>2. ASSUME NEW h \in Cluster \cup {0}, h # 0 => IsHead(f, h), NEW d \in InChain(f2, h)
        PROVE  d \in InChain(f, h) /\ d \in Cluster \ {c}
    <3>1. h # 0
      BY <1>4, <2>2, NoChain
    <3>2. h \in Cluster /\ IsHead(f, h)
      BY <2>2, <3>1
    <3> QED  BY <1>1, <1>8, <3>2, FreeNotInChain
  <2>3. ASSUME NEW p \in Live(f, U), NEW d \in InChain(f2, U[p].first)
        PROVE  IF U[p].dir THEN NoData(U2, d) ELSE NoEnts(U2, d)
    <3>1. d \in InChain(f, U[p].first) /\ d \in Cluster \ {c}
      BY <2>2, Owned
    <3>2. IF U[p].dir THEN NoData(U, d) ELSE NoEnts(U, d)
      BY <3>1 DEF DInv, Kinds
    <3> QED  BY <1>3, <3>1, <3>2
  <2>4. ASSUME NEW x \in Used(g), NEW d \in InChain(f2, g[x].first) PROVE NoEnts(U2, d)
    <3>1. d \in InChain(f, g[x].first) /\ d \in Cluster \ {c}
      BY <2>2, Owned
    <3>2. NoEnts(U, d)
      BY <3>1 DEF DInv, Kinds
    <3> QED  BY <1>3, <3>1, <3>2
  <2> QED  BY <1>7, <2>1, <2>3, <2>4 DEF Kinds
<1>13. DInv(f2, U2, g)
  BY <1>11, <1>12, Grown
<1> QED  BY <1>2, <1>7, <1>11, <1>13

\* The units of a chain that got one cluster longer.
LEMMA NewUnits ==
  ASSUME NEW f \in Table, NEW f2 \in Table, NEW h \in Cluster, NEW new \in Cluster,
         Chain(f2, h) = Append(Chain(f, h), new),
         NEW i \in Slots(f2, h), i \notin Slots(f, h)
  PROVE  PlaceOf(f2, h, i)[1] = new /\ PlaceOf(f2, h, i) \in Places
<1>1. PICK s, n : s = Chain(f, h) /\ n = Len(s)
  OBVIOUS
<1>2. h # ROOT /\ h \in DirIds /\ h \in Int
  BY Numbers DEF DirIds
<1>3. s \in Seq(Cluster) /\ n \in Nat
  BY <1>1, <1>2, ChainIs, LenChain DEF IsChain
<1>4. Len(Chain(f2, h)) = n + 1 /\ Chain(f2, h)[n + 1] = new
  BY <1>1, <1>3, AppendProperties
<1>5. DirLen(f, h) = UNITS * n /\ DirLen(f2, h) = UNITS * (n + 1)
  BY <1>1, <1>2, <1>4 DEF DirLen
<1>6. i \in Nat /\ i < UNITS * (n + 1) /\ ~(i < UNITS * n) /\ n + 1 \in Nat
  BY <1>2, <1>3, <1>5, LenChain DEF Slots
<1>7. i \div UNITS \in Nat /\ i \div UNITS < n + 1 /\ ~(i \div UNITS < n) /\ i % UNITS \in Unit
  BY <1>3, <1>6, DivMod, DivBound
<1>8. i \div UNITS + 1 = n + 1
  BY <1>3, <1>7
<1> QED  BY <1>2, <1>4, <1>7, <1>8 DEF PlaceOf, Places

\* Linking a fresh, zeroed cluster to the end of a chain.
LEMMA Extended ==
  ASSUME NEW f, NEW U, NEW g, DInv(f, U, g), NEW last \in Cluster, f[last] = EOC,
         NEW new \in Cluster, f[new] = FREE, NEW f2, f2 = [f EXCEPT ![new] = EOC, ![last] = new]
  PROVE  /\ DInv(f2, Blanked(U, new), g) /\ Live(f2, Blanked(U, new)) = Live(f, U)
         /\ Grows(f, U, f2, Blanked(U, new))
<1>1. Base(f, U) /\ f \in Table /\ U \in [Places -> UnitSet] /\ Links(f)
  BY DInvBase
<1>2. PICK U2 : U2 = Blanked(U, new)
  OBVIOUS
<1>3. /\ U2 \in [Places -> UnitSet]
      /\ \A p \in Places : p[1] # new => U2[p] = U[p]
      /\ \A p \in Places : p[1] = new => U2[p] = Zero
      /\ NoData(U2, new) /\ NoEnts(U2, new)
      /\ \A d \in Cluster \ {new} : (NoData(U, d) => NoData(U2, d)) /\ (NoEnts(U, d) => NoEnts(U2, d))
      /\ \A i \in 0 .. ROOT_ENTRIES - 1 : U2[<<ROOT, i>>] = U[<<ROOT, i>>]
  BY <1>1, <1>2, BlankedIs
<1>4. last # new
  BY Numbers
<1>5. /\ f2 \in Table /\ f2[new] = EOC /\ f2[last] = new
      /\ \A a \in Cluster \ {last, new} : f2[a] = f[a]
  BY <1>1, <1>4, Numbers DEF Table
<1>6. \A a \in Cluster : f[a] # new
  BY <1>1 DEF Links
<1>7. Links(f2)
  <2>1. SUFFICES ASSUME NEW a \in Cluster, f2[a] \in Cluster
                 PROVE  f2[f2[a]] # FREE /\ \A b \in Cluster : f2[b] = f2[a] => b = a
    BY DEF Links
  <2>2. a # new
    BY <1>5, <2>1, Numbers
  <2>3. CASE a = last
    BY <1>5, <1>6, <2>3, Numbers
  <2>4. CASE a # last
    <3>1. f2[a] = f[a] /\ f[a] \in Cluster /\ f[a] # new
      BY <1>5, <1>6, <2>1, <2>2, <2>4
    <3>2. f[f[a]] # FREE /\ \A b \in Cluster : f[b] = f[a] => b = a
      BY <1>1, <3>1 DEF Links
    <3>3. f2[f[a]] # FREE
      BY <1>5, <3>1, <3>2, Numbers
    <3>4. \A b \in Cluster : f2[b] = f[a] => b = a
      BY <1>5, <3>1, <3>2, Numbers
    <3> QED  BY <3>1, <3>3, <3>4
  <2> QED  BY <2>3, <2>4
<1>8. Live(f2, U2) = Live(f, U) /\ \A p \in Live(f, U) : U2[p] = U[p] /\ p[1] # new
  <2>1. new # ROOT /\ Zero.k # "ent" /\ EOC # FREE /\ new # FREE
    BY Numbers DEF Zero
  <2>2. \A p \in Places : p[1] = new => p \notin Live(f, U) /\ p \notin Live(f2, U2)
    BY <1>3, <2>1 DEF Live
  <2>3. \A p \in Places : p[1] = ROOT \/ p[1] \in Cluster
    BY DEF Places
  <2>4. \A c \in Cluster : c # new => (f2[c] # FREE <=> f[c] # FREE)
    BY <1>5, <2>1
  <2>5. \A p \in Places : p[1] # new => (p \in Live(f, U) <=> p \in Live(f2, U2))
    BY <1>3, <2>3, <2>4 DEF Live
  <2>6. Live(f, U) \subseteq Places /\ Live(f2, U2) \subseteq Places
    BY DEF Live
  <2> QED  BY <1>3, <2>2, <2>5, <2>6
<1>9. ASSUME NEW h \in Cluster, IsHead(f, h)
      PROVE  IsHead(f2, h) /\ (Chain(f2, h) = Chain(f, h) \/ Chain(f2, h) = Append(Chain(f, h), new))
  <2>1. new \notin InChain(f, h)
    BY <1>1, <1>9, FreeNotInChain
  <2>2. IsHead(f2, h)
    <3>1. h # new /\ f[h] # FREE /\ \A a \in Cluster : f[a] # h
      BY <1>9 DEF IsHead
    <3>2. f2[h] # FREE
      BY <1>5, <3>1, Numbers
    <3>3. \A a \in Cluster : f2[a] # h
      BY <1>5, <3>1, Numbers
    <3> QED  BY <3>2, <3>3 DEF IsHead
  <2>3. CASE last \in InChain(f, h)
    <3>1. f \in Table /\ Links(f) /\ f2 \in Table
      BY <1>1, <1>5
    <3>2. Chain(f2, h) = Append(Chain(f, h), new)
      BY ONLY <3>1, <1>5, <1>9, <2>3, f[last] = EOC, f[new] = FREE, new \in Cluster, LongerChain
    <3> QED  BY <2>2, <3>2
  <2>4. CASE last \notin InChain(f, h)
    <3>1. \A a \in InChain(f, h) : f2[a] = f[a]
      BY <1>1, <1>5, <1>9, <2>1, <2>4, FreeNotInChain
    <3> QED  BY <1>1, <1>5, <1>9, <2>2, <3>1, SameChain
  <2> QED  BY <2>3, <2>4
<1>10. ASSUME NEW h \in Cluster, IsHead(f, h)
       PROVE  /\ Len(Chain(f, h)) <= Len(Chain(f2, h))
              /\ \A i \in 1 .. Len(Chain(f, h)) : Chain(f2, h)[i] = Chain(f, h)[i]
              /\ \A c \in InChain(f2, h) : c \in InChain(f, h) \/ c = new
  <2>1. PICK s, n : s = Chain(f, h) /\ n = Len(s)
    OBVIOUS
  <2>2. s \in Seq(Cluster) /\ n \in Nat /\ DOMAIN s = 1 .. n
    BY <1>1, <1>10, <2>1, HeadChain DEF GoodChain
  <2>3. CASE Chain(f2, h) = s
    <3>1. Len(Chain(f2, h)) = n
      BY <2>1, <2>3
    <3>2. n <= n
      BY <2>2
    <3> QED  BY <2>1, <2>3, <3>1, <3>2 DEF InChain
  <2>4. CASE Chain(f2, h) = Append(s, new)
    <3>1. PICK t : t = Append(s, new)
      OBVIOUS
    <3>2. /\ t \in Seq(Cluster) /\ Len(t) = n + 1 /\ t[n + 1] = new /\ DOMAIN t = 1 .. n + 1
          /\ \A i \in 1 .. n : t[i] = s[i]
      BY <2>1, <2>2, <3>1, AppendProperties, LenProperties
    <3>3. \A i \in 1 .. n + 1 : i \in 1 .. n \/ i = n + 1
      BY <2>2
    <3>4. \A c \in InChain(f2, h) : c \in InChain(f, h) \/ c = new
      <4> TAKE c \in InChain(f2, h)
      <4>1. PICK i \in 1 .. n + 1 : c = t[i]
        BY <2>4, <3>1, <3>2 DEF InChain
      <4>2. CASE i = n + 1
        BY <3>2, <4>1, <4>2
      <4>3. CASE i # n + 1
        <5>1. i \in 1 .. n
          BY <3>3, <4>3
        <5>2. c = s[i] /\ i \in DOMAIN s
          BY <2>2, <3>2, <4>1, <5>1
        <5> QED  BY <2>1, <5>2 DEF InChain
      <4> QED  BY <4>2, <4>3
    <3>5. n <= n + 1
      BY <2>2
    <3> QED  BY <2>1, <2>4, <3>1, <3>2, <3>4, <3>5
  <2> QED  BY <1>9, <1>10, <2>1, <2>3, <2>4
<1>11. ASSUME NEW dc \in Dirs(f, U), NEW i \in Slots(f, dc) PROVE U2[PlaceOf(f, dc, i)] = U[PlaceOf(f, dc, i)]
  <2>1. PlaceOf(f, dc, i) \in Places /\ (PlaceOf(f, dc, i)[1] = ROOT \/ f[PlaceOf(f, dc, i)[1]] # FREE)
    BY <1>1, PlaceFacts
  <2> QED  BY <1>3, <2>1, Numbers
<1>12. ASSUME NEW dc \in Dirs(f, U), NEW i \in Slots(f2, dc), i \notin Slots(f, dc)
       PROVE  U2[PlaceOf(f2, dc, i)] = Zero
  <2>1. dc # ROOT
    BY <1>12 DEF Slots, DirLen
  <2>2. IsHead(f, dc) /\ dc \in Cluster
    BY <1>1, <2>1, DirHeads DEF IsHead
  <2>3. Chain(f2, dc) # Chain(f, dc)
    BY <1>12, <2>1 DEF Slots, DirLen
  <2>4. PlaceOf(f2, dc, i)[1] = new /\ PlaceOf(f2, dc, i) \in Places
    <3>1. Chain(f2, dc) = Append(Chain(f, dc), new)
      BY <1>9, <2>2, <2>3
    <3>2. f \in Table /\ f2 \in Table
      BY <1>1, <1>5
    <3> QED  BY ONLY <2>2, <3>1, <3>2, new \in Cluster, i \in Slots(f2, dc), i \notin Slots(f, dc), NewUnits
  <2> QED  BY <1>3, <2>4
<1>13. Grows(f, U, f2, U2)
  BY <1>3, <1>5, <1>7, <1>8, <1>9, <1>10, <1>11, <1>12 DEF Grows
<1>14. Kinds(f2, U2, g)
  <2>1. \A i \in 0 .. ROOT_ENTRIES - 1 : U2[<<ROOT, i>>].k # "data"
    BY <1>3 DEF DInv, Kinds
  <2>2. ASSUME NEW h \in Cluster \cup {0}, h # 0 => IsHead(f, h), NEW d \in InChain(f2, h)
        PROVE  d = new \/ (d \in InChain(f, h) /\ d \in Cluster \ {new})
    <3>1. h # 0
      BY <1>5, <2>2, NoChain
    <3>2. h \in Cluster /\ IsHead(f, h)
      BY <2>2, <3>1
    <3> QED  BY <1>1, <1>10, <3>2, FreeNotInChain
  <2>3. ASSUME NEW p \in Live(f, U), NEW d \in InChain(f2, U[p].first)
        PROVE  IF U[p].dir THEN NoData(U2, d) ELSE NoEnts(U2, d)
    <3>1. CASE d = new
      BY <1>3, <3>1
    <3>2. CASE d # new
      <4>1. d \in InChain(f, U[p].first) /\ d \in Cluster \ {new}
        BY <2>2, <3>2, Owned
      <4>2. IF U[p].dir THEN NoData(U, d) ELSE NoEnts(U, d)
        BY <4>1 DEF DInv, Kinds
      <4> QED  BY <1>3, <4>1, <4>2
    <3> QED  BY <3>1, <3>2
  <2>4. ASSUME NEW x \in Used(g), NEW d \in InChain(f2, g[x].first) PROVE NoEnts(U2, d)
    <3>1. CASE d = new
      BY <1>3, <3>1
    <3>2. CASE d # new
      <4>1. d \in InChain(f, g[x].first) /\ d \in Cluster \ {new}
        BY <2>2, <3>2, Owned
      <4>2. NoEnts(U, d)
        BY <4>1 DEF DInv, Kinds
      <4> QED  BY <1>3, <4>1, <4>2
    <3> QED  BY <3>1, <3>2
  <2> QED  BY <1>8, <2>1, <2>3, <2>4 DEF Kinds
<1>15. DInv(f2, U2, g)
  BY <1>13, <1>14, Grown
<1> QED  BY <1>2, <1>8, <1>13, <1>15

\* Writing units of cluster c.
Filled(U, c, W, v) == [p \in Places |-> IF p[1] = c /\ p[2] \in W THEN Data(v) ELSE U[p]]

\* Writing into a cluster of an open file.
LEMMA FilledIn ==
  ASSUME NEW f, NEW U, NEW g, DInv(f, U, g), NEW x \in Used(g), NEW c \in InChain(f, g[x].first),
         NEW W, NEW v \in Values
  PROVE  /\ DInv(f, Filled(U, c, W, v), g) /\ Live(f, Filled(U, c, W, v)) = Live(f, U)
         /\ Grows(f, U, f, Filled(U, c, W, v))
<1>1. Base(f, U) /\ f \in Table /\ U \in [Places -> UnitSet] /\ Links(f)
  BY DInvBase
<1>2. g[x].first # 0
  BY <1>1, NoChain
<1>3. IsHead(f, g[x].first)
  BY <1>2, Owned
<1>4. c \in Cluster /\ f[c] # FREE
  BY <1>1, <1>3, FreeNotInChain
<1>5. PICK U2 : U2 = Filled(U, c, W, v)
  OBVIOUS
<1>6. Data(v) \in UnitSet /\ Data(v).k = "data"
  BY DEF UnitSet, Data
<1>7. /\ U2 \in [Places -> UnitSet]
      /\ \A p \in Places : p[1] # c => U2[p] = U[p]
      /\ \A p \in Places : p[1] = c => U2[p] = U[p] \/ U2[p] = Data(v)
  BY <1>1, <1>5, <1>6 DEF Filled
<1>8. NoEnts(U, c)
  BY DEF DInv, Kinds
<1>9. \A p \in Places : p[1] = c => U[p].k # "ent" /\ U2[p].k # "ent"
  <2>1. \A p \in Places : p[1] = c => p[2] \in Unit /\ p = <<c, p[2]>>
    BY <1>4, Numbers DEF Places
  <2>2. \A p \in Places : p[1] = c => U[p].k # "ent"
    BY <1>8, <2>1 DEF NoEnts
  <2> QED  BY <1>6, <1>7, <2>2
<1>10. Live(f, U2) = Live(f, U) /\ \A p \in Live(f, U) : U2[p] = U[p] /\ p[1] # c
  BY <1>7, <1>9 DEF Live
<1>11. ASSUME NEW dc \in Dirs(f, U), dc # ROOT PROVE c \notin InChain(f, dc)
  <2>1. SUFFICES ASSUME c \in InChain(f, dc) PROVE FALSE
    OBVIOUS
  <2>2. dc = g[x].first
    BY <1>1, <1>3, <1>11, <2>1, DirHeads, ChainsApart
  <2>3. PICK p \in Live(f, U) : U[p].dir /\ dc = U[p].first
    BY <1>11 DEF Dirs
  <2>4. p = Anchor(f, g[x])
    BY <1>2, <2>2, <2>3 DEF DInv, FdHeads
  <2> QED  BY <2>3, <2>4 DEF DInv, Anchored
<1>12. ASSUME NEW dc \in Dirs(f, U), NEW i \in Slots(f, dc) PROVE U2[PlaceOf(f, dc, i)] = U[PlaceOf(f, dc, i)]
  <2>1. PlaceOf(f, dc, i) \in Places /\ PlaceOf(f, dc, i)[1] # c
    <3>1. CASE dc = ROOT
      BY <1>1, <1>4, <3>1, PlaceFacts, Numbers
    <3>2. CASE dc # ROOT
      BY <1>1, <1>11, <3>2, PlaceFacts
    <3> QED  BY <3>1, <3>2
  <2> QED  BY <1>7, <2>1
<1>13. Grows(f, U, f, U2)
  <2>1. \A h \in Cluster : Len(Chain(f, h)) <= Len(Chain(f, h))
    BY <1>1, LenChain DEF DirIds
  <2> QED  BY <1>1, <1>7, <1>10, <1>12, <2>1 DEF Grows
<1>14. ASSUME NEW d \in Cluster
       PROVE  /\ d # c /\ NoData(U, d) => NoData(U2, d)
              /\ NoEnts(U, d) => NoEnts(U2, d)
  <2>1. \A u \in Unit : <<d, u>> \in Places
    BY DEF Places
  <2> QED  BY <1>6, <1>7, <2>1 DEF NoData, NoEnts
<1>15. Kinds(f, U2, g)
  <2>1. \A i \in 0 .. ROOT_ENTRIES - 1 : U2[<<ROOT, i>>].k # "data"
    <3>1. \A i \in 0 .. ROOT_ENTRIES - 1 : <<ROOT, i>> \in Places /\ ROOT # c
      BY <1>4, Numbers DEF Places
    <3>2. \A i \in 0 .. ROOT_ENTRIES - 1 : U2[<<ROOT, i>>] = U[<<ROOT, i>>]
      BY <1>7, <3>1
    <3> QED  BY <3>2 DEF DInv, Kinds
  <2>2. ASSUME NEW p \in Live(f, U), NEW d \in InChain(f, U[p].first)
        PROVE  IF U[p].dir THEN NoData(U2, d) ELSE NoEnts(U2, d)
    <3>1. U[p].first # 0
      BY <1>1, NoChain
    <3>2. d \in Cluster
      BY <1>1, <3>1, Owned, FreeNotInChain
    <3>3. U[p].dir => NoData(U, d)
      BY DEF DInv, Kinds
    <3>4. CASE ~U[p].dir
      <4>1. NoEnts(U, d)
        BY <3>4 DEF DInv, Kinds
      <4> QED  BY <1>14, <3>2, <3>4, <4>1
    <3>5. CASE U[p].dir
      <4>1. U[p].first \in Dirs(f, U) /\ U[p].first # ROOT
        BY <3>1, <3>5 DEF Dirs, ROOT
      <4>2. d # c
        BY <1>11, <4>1
      <4> QED  BY <1>14, <3>2, <3>3, <3>5, <4>2
    <3> QED  BY <3>4, <3>5
  <2>3. ASSUME NEW y \in Used(g), NEW d \in InChain(f, g[y].first) PROVE NoEnts(U2, d)
    <3>1. g[y].first # 0
      BY <1>1, NoChain
    <3>2. d \in Cluster
      BY <1>1, <3>1, Owned, FreeNotInChain
    <3>3. NoEnts(U, d)
      BY DEF DInv, Kinds
    <3> QED  BY <1>14, <3>2, <3>3
  <2> QED  BY <1>10, <2>1, <2>2, <2>3 DEF Kinds
<1>16. DInv(f, U2, g)
  BY <1>13, <1>15, Grown
<1> QED  BY <1>5, <1>10, <1>13, <1>16

-----------------------------------------------------------------------------
\* Changing one entry.

\* Writing e into place p.
PutAt(U, p, e) == [U EXCEPT ![p] = e]

\* Writing e into slot i of directory dc changes that slot only.
LEMMA PutPlace ==
  ASSUME NEW f, NEW U, Base(f, U), NEW dc \in Dirs(f, U), NEW i \in Slots(f, dc),
         NEW p, p = PlaceOf(f, dc, i), NEW e \in UnitSet, NEW U2, U2 = PutAt(U, p, e)
  PROVE  /\ U2 \in [Places -> UnitSet] /\ U2[p] = e
         /\ p \in Places /\ (p[1] = ROOT \/ f[p[1]] # FREE)
         /\ \A q \in Places : q # p => U2[q] = U[q]
         /\ \A ec \in Dirs(f, U) : \A j \in Slots(f, ec) :
              ec # dc \/ j # i => PlaceOf(f, ec, j) # p /\ U2[PlaceOf(f, ec, j)] = U[PlaceOf(f, ec, j)]
<1>1. p \in Places /\ (p[1] = ROOT \/ f[p[1]] # FREE)
  BY PlaceFacts
<1>2. U \in [Places -> UnitSet]
  BY DEF Base
<1>3. U2 \in [Places -> UnitSet] /\ U2[p] = e /\ \A q \in Places : q # p => U2[q] = U[q]
  BY <1>1, <1>2 DEF PutAt
<1>4. ASSUME NEW ec \in Dirs(f, U), NEW j \in Slots(f, ec), ec # dc \/ j # i
      PROVE  PlaceOf(f, ec, j) # p /\ PlaceOf(f, ec, j) \in Places
  BY <1>4, PlacesApart, PlaceFacts
<1> QED  BY <1>1, <1>3, <1>4

\* A cluster with a place of a directory is in no file's chain.
LEMMA NotInFile ==
  ASSUME NEW f, NEW U, NEW g, DInv(f, U, g), NEW dc \in Dirs(f, U), NEW c \in InChain(f, dc), dc # ROOT
  PROVE  /\ \A q \in Live(f, U) : c \in InChain(f, U[q].first) => U[q].dir /\ U[q].first = dc
         /\ \A x \in Used(g) : c \notin InChain(f, g[x].first)
<1>1. Base(f, U) /\ f \in Table /\ Links(f)
  BY DInvBase
<1>2. IsHead(f, dc)
  BY <1>1, DirHeads
<1>3. PICK p \in Live(f, U) : U[p].dir /\ dc = U[p].first
  BY DEF Dirs
<1>4. ASSUME NEW q \in Live(f, U), c \in InChain(f, U[q].first) PROVE U[q].dir /\ U[q].first = dc
  <2>1. U[q].first # 0
    BY <1>1, <1>4, NoChain
  <2>2. U[q].first = dc
    BY <1>1, <1>2, <1>4, <2>1, Owned, ChainsApart
  <2>3. q = p
    BY <1>1, <1>3, <2>1, <2>2 DEF Base, EntHeads
  <2> QED  BY <1>3, <2>2, <2>3
<1>5. ASSUME NEW x \in Used(g), c \in InChain(f, g[x].first) PROVE FALSE
  <2>1. g[x].first # 0
    BY <1>1, <1>5, NoChain
  <2>2. g[x].first = dc
    BY <1>1, <1>2, <1>5, <2>1, Owned, ChainsApart
  <2>3. p = Anchor(f, g[x])
    BY <1>3, <2>1, <2>2 DEF DInv, FdHeads
  <2> QED  BY <1>3, <2>3 DEF DInv, Anchored
<1> QED  BY <1>4, <1>5

\* c starts a chain that no entry and no descriptor has.
Unowned(f, U, g, c) ==
  /\ IsHead(f, c)
  /\ \A q \in Live(f, U) : U[q].first # c
  /\ \A x \in Used(g) : g[x].first # c

\* What a new entry e may name: nothing yet, or a zeroed cluster as a directory.
Fresh(f, U, g, e) ==
  /\ e \in EntrySet /\ e.size = 0
  /\ \/ ~e.dir /\ e.first = 0
     \/ /\ e.dir /\ Unowned(f, U, g, e.first) /\ f[e.first] = EOC
        /\ \A u \in Unit : U[<<e.first, u>>] = Zero

\* A new entry in the first unused slot of a directory.
LEMMA NewEnt ==
  ASSUME NEW f, NEW U, NEW g, DInv(f, U, g), NEW dc \in Dirs(f, U), NEW i \in Slots(f, dc),
         U[PlaceOf(f, dc, i)].k # "ent",
         \A j \in Slots(f, dc) : j < i => U[PlaceOf(f, dc, j)].k = "ent",
         NEW e, Fresh(f, U, g, e),
         \A j \in Slots(f, dc) : U[PlaceOf(f, dc, j)].k = "ent" => U[PlaceOf(f, dc, j)].name # e.name,
         NEW U2, U2 = PutAt(U, PlaceOf(f, dc, i), e)
  PROVE  /\ DInv(f, U2, g) /\ i \in Visible(f, U2, dc) /\ Tree(f, U) \subseteq Tree(f, U2)
         /\ U2[PlaceOf(f, dc, i)] = e
<1>1. Base(f, U) /\ f \in Table /\ U \in [Places -> UnitSet] /\ Links(f) /\ Typed(f, U, g)
  BY DInvBase
<1>2. PICK p : p = PlaceOf(f, dc, i)
  OBVIOUS
<1>3. e \in UnitSet /\ e.k = "ent" /\ e.first \in Cluster \cup {0} /\ e.dir \in BOOLEAN /\ e.size = 0
  BY DEF Fresh, UnitSet, EntrySet
<1>4. /\ U2 \in [Places -> UnitSet] /\ U2[p] = e
      /\ p \in Places /\ (p[1] = ROOT \/ f[p[1]] # FREE)
      /\ \A q \in Places : q # p => U2[q] = U[q]
      /\ \A ec \in Dirs(f, U) : \A j \in Slots(f, ec) :
           ec # dc \/ j # i => PlaceOf(f, ec, j) # p /\ U2[PlaceOf(f, ec, j)] = U[PlaceOf(f, ec, j)]
  BY <1>1, <1>2, <1>3, PutPlace
<1>5. U[p].k # "ent" /\ p \notin Live(f, U)
  BY <1>2 DEF Live
<1>6. Live(f, U2) = Live(f, U) \cup {p} /\ \A q \in Live(f, U) : U2[q] = U[q] /\ q # p
  BY <1>3, <1>4, <1>5 DEF Live
<1>7. \/ ~e.dir /\ e.first = 0 /\ Dirs(f, U2) = Dirs(f, U)
      \/ /\ e.dir /\ e.first # 0 /\ e.first \in Cluster /\ Unowned(f, U, g, e.first) /\ e.first \notin Dirs(f, U)
         /\ Dirs(f, U2) = Dirs(f, U) \cup {e.first}
  <2>1. CASE ~e.dir /\ e.first = 0
    BY <1>4, <1>6, <2>1 DEF Dirs
  <2>2. CASE e.dir /\ Unowned(f, U, g, e.first)
    <3>1. e.first \in Cluster /\ e.first # 0 /\ e.first # ROOT
      BY <2>2, Numbers DEF Unowned, IsHead
    <3>2. e.first \notin Dirs(f, U)
      BY <2>2, <3>1 DEF Dirs, Unowned
    <3>3. Dirs(f, U2) = Dirs(f, U) \cup {e.first}
      BY <1>4, <1>6, <2>2 DEF Dirs
    <3> QED  BY <2>2, <3>1, <3>2, <3>3
  <2> QED  BY <2>1, <2>2 DEF Fresh
<1>8. e.first # 0 => /\ IsHead(f, e.first) /\ f[e.first] = EOC
                     /\ \A u \in Unit : U[<<e.first, u>>] = Zero
                     /\ \A q \in Live(f, U) : U[q].first # e.first
                     /\ \A x \in Used(g) : g[x].first # e.first
  BY <1>7 DEF Fresh, Unowned
<1>9. EntHeads(f, U2)
  <2>1. ASSUME NEW q \in Live(f, U)
        PROVE  /\ U[q].dir => U[q].first # 0
               /\ U[q].first # 0 => /\ IsHead(f, U[q].first)
                                    /\ \A r \in Live(f, U) : U[r].first = U[q].first => r = q
    BY <1>1 DEF Base, EntHeads
  <2>2. SUFFICES ASSUME NEW q \in Live(f, U) \cup {p}
                 PROVE  /\ U2[q].dir => U2[q].first # 0
                        /\ U2[q].first # 0 => /\ IsHead(f, U2[q].first)
                                              /\ \A r \in Live(f, U) \cup {p} : U2[r].first = U2[q].first => r = q
    BY <1>6 DEF EntHeads
  <2>3. CASE q = p
    BY <1>4, <1>6, <1>7, <1>8, <2>3
  <2>4. CASE q # p
    BY <1>4, <1>6, <1>8, <2>1, <2>4
  <2> QED  BY <2>3, <2>4
<1>10. Base(f, U2)
  BY <1>1, <1>4, <1>9 DEF Base
<1>11. ASSUME NEW ec \in Dirs(f, U), NEW j \in Visible(f, U, ec)
       PROVE  /\ j \in Visible(f, U2, ec) /\ U2[PlaceOf(f, ec, j)] = U[PlaceOf(f, ec, j)]
              /\ PlaceOf(f, ec, j) # p
  <2>1. j \in Slots(f, ec) /\ U[PlaceOf(f, ec, j)].k = "ent"
    BY DEF Visible
  <2>2. PlaceOf(f, ec, j) # p
    BY <1>5, <2>1
  <2>3. U2[PlaceOf(f, ec, j)] = U[PlaceOf(f, ec, j)]
    BY <1>2, <1>4, <2>1, <2>2
  <2>4. ASSUME NEW l \in Slots(f, ec), U2[PlaceOf(f, ec, l)] = Zero PROVE j < l
    <3>1. PlaceOf(f, ec, l) # p
      BY <1>3, <1>4, <2>4 DEF Zero
    <3>2. U[PlaceOf(f, ec, l)] = Zero
      BY <1>2, <1>4, <2>4, <3>1
    <3> QED  BY <3>2 DEF Visible
  <2> QED  BY <2>1, <2>2, <2>3, <2>4 DEF Visible
<1>12. Tree(f, U) \subseteq Tree(f, U2)
  <2>1. ASSUME NEW ec \in Dirs(f, U) PROVE Subs(f, U, ec) \subseteq Subs(f, U2, ec)
    BY <1>11 DEF Subs
  <2>2. PICK X : X = {}
    OBVIOUS
  <2>3. /\ X \in SUBSET DirIds
        /\ \A ec \in Dirs(f, U) \ X : Subs(f, U, ec) \subseteq Subs(f, U2, ec) \cup X
        /\ \A ec \in X : Subs(f, U, ec) \subseteq X
    BY <2>1, <2>2
  <2>4. Tree(f, U) \ X \subseteq Tree(f, U2)
    BY <1>1, <2>3, TreeKept
  <2> QED  BY <2>2, <2>4
<1>13. i \in Visible(f, U2, dc)
  <2>1. ASSUME NEW j \in Slots(f, dc), U2[PlaceOf(f, dc, j)] = Zero PROVE i < j
    <3>1. f \in Table /\ dc \in DirIds
      BY <1>1, DirHeads
    <3>2. i \in Nat /\ j \in Nat
      BY <3>1, LenChain
    <3>3. j # i
      BY <1>2, <1>3, <1>4, <2>1 DEF Zero
    <3>4. U[PlaceOf(f, dc, j)] = Zero
      BY <1>4, <2>1, <3>3
    <3>5. ~(j < i)
      BY <3>4 DEF Zero
    <3> QED  BY <3>2, <3>3, <3>5
  <2> QED  BY <1>2, <1>3, <1>4, <2>1 DEF Visible
<1>14. FdHeads(f, U2, g)
  <2>1. SUFFICES ASSUME NEW x \in Used(g), g[x].first # 0
                 PROVE  /\ IsHead(f, g[x].first)
                        /\ \A y \in Used(g) : g[y].first = g[x].first => y = x
                        /\ \A q \in Live(f, U) \cup {p} : U2[q].first = g[x].first => q = Anchor(f, g[x])
    BY <1>6 DEF FdHeads
  <2>2. /\ IsHead(f, g[x].first)
        /\ \A y \in Used(g) : g[y].first = g[x].first => y = x
        /\ \A q \in Live(f, U) : U[q].first = g[x].first => q = Anchor(f, g[x])
    BY <2>1 DEF DInv, FdHeads
  <2>3. U2[p].first # g[x].first
    BY <1>4, <1>8, <2>1
  <2> QED  BY <1>6, <2>2, <2>3
<1>15. Anchored(f, U2, g)
  <2>1. SUFFICES ASSUME NEW x \in Used(g)
                 PROVE  /\ g[x].parent \in Tree(f, U2)
                        /\ g[x].idx \in Visible(f, U2, g[x].parent)
                        /\ ~U2[Anchor(f, g[x])].dir /\ U2[Anchor(f, g[x])].first \in {0, g[x].first}
                        /\ \A y \in Used(g) : y # x => g[y].parent # g[x].parent \/ g[y].idx # g[x].idx
    BY DEF Anchored
  <2>2. /\ g[x].parent \in Tree(f, U) /\ g[x].idx \in Visible(f, U, g[x].parent)
        /\ ~U[Anchor(f, g[x])].dir /\ U[Anchor(f, g[x])].first \in {0, g[x].first}
        /\ \A y \in Used(g) : y # x => g[y].parent # g[x].parent \/ g[y].idx # g[x].idx
    BY DEF DInv, Anchored
  <2>3. g[x].parent \in Dirs(f, U)
    BY <1>1, <2>2, TreeInDirs
  <2>4. g[x].idx \in Visible(f, U2, g[x].parent) /\ U2[Anchor(f, g[x])] = U[Anchor(f, g[x])]
    BY <1>11, <2>2, <2>3 DEF Anchor
  <2> QED  BY <1>12, <2>2, <2>4
<1>16. Sized(f, U2, g)
  <2>1. Room(f, e.first) \in Nat
    <3>1. e.first \in DirIds
      BY <1>3, Numbers DEF DirIds
    <3> QED  BY <1>1, <3>1, LenChain DEF Room
  <2>2. \A q \in Live(f, U) \cup {p} : U2[q].size <= Room(f, U2[q].first)
    BY <1>3, <1>4, <1>6, <2>1 DEF DInv, Sized
  <2> QED  BY <1>6, <2>2 DEF DInv, Sized
<1>17. ASSUME NEW c \in Cluster
       PROVE  /\ NoData(U, c) => NoData(U2, c)
              /\ c # p[1] /\ NoEnts(U, c) => NoEnts(U2, c)
  <2>1. \A u \in Unit : <<c, u>> \in Places
    BY DEF Places
  <2>2. c # p[1] => \A u \in Unit : <<c, u>> # p
    OBVIOUS
  <2> QED  BY <1>3, <1>4, <2>1, <2>2 DEF NoData, NoEnts
<1>18. /\ \A q \in Live(f, U) : p[1] \in InChain(f, U[q].first) => U[q].dir
       /\ \A x \in Used(g) : p[1] \notin InChain(f, g[x].first)
  <2>1. CASE dc = ROOT
    <3>1. p[1] = ROOT /\ p[1] \notin Cluster
      BY <1>1, <1>2, <2>1, PlaceFacts, Numbers
    <3>2. ASSUME NEW h \in Cluster \cup {0}, h # 0 => IsHead(f, h) PROVE p[1] \notin InChain(f, h)
      BY <1>1, <3>1, <3>2, FreeNotInChain, NoChain
    <3> QED  BY <3>2, Owned
  <2>2. CASE dc # ROOT
    <3>1. p[1] \in InChain(f, dc)
      BY <1>1, <1>2, <2>2, PlaceFacts
    <3> QED  BY <2>2, <3>1, NotInFile
  <2> QED  BY <2>1, <2>2
<1>19. Kinds(f, U2, g)
  <2>1. \A j \in 0 .. ROOT_ENTRIES - 1 : U2[<<ROOT, j>>].k # "data"
    <3>1. \A j \in 0 .. ROOT_ENTRIES - 1 : <<ROOT, j>> \in Places /\ U[<<ROOT, j>>].k # "data"
      BY DEF Places, DInv, Kinds
    <3> QED  BY <1>3, <1>4, <3>1
  <2>2. ASSUME NEW q \in Live(f, U), NEW c \in InChain(f, U[q].first)
        PROVE  IF U[q].dir THEN NoData(U2, c) ELSE NoEnts(U2, c)
    <3>1. c \in Cluster
      BY <1>1, Owned, NoChain, FreeNotInChain
    <3>2. CASE U[q].dir
      <4>1. NoData(U, c)
        BY <3>2 DEF DInv, Kinds
      <4> QED  BY <1>17, <3>1, <3>2, <4>1
    <3>3. CASE ~U[q].dir
      <4>1. NoEnts(U, c) /\ c # p[1]
        BY <1>18, <3>3 DEF DInv, Kinds
      <4> QED  BY <1>17, <3>1, <3>3, <4>1
    <3> QED  BY <3>2, <3>3
  <2>3. ASSUME NEW x \in Used(g), NEW c \in InChain(f, g[x].first) PROVE NoEnts(U2, c)
    <3>1. c \in Cluster
      BY <1>1, Owned, NoChain, FreeNotInChain
    <3>2. NoEnts(U, c) /\ c # p[1]
      BY <1>18 DEF DInv, Kinds
    <3> QED  BY <1>17, <3>1, <3>2
  <2>4. ASSUME NEW c \in InChain(f, e.first)
        PROVE  IF e.dir THEN NoData(U2, c) ELSE NoEnts(U2, c)
    <3>1. e.first # 0
      BY <1>1, NoChain
    <3>2. c = e.first /\ c \in Cluster
      BY <1>1, <1>3, <1>8, <3>1, ChainOfOne
    <3>3. NoData(U, c)
      BY <1>8, <3>1, <3>2 DEF NoData, Zero
    <3> QED  BY <1>7, <1>17, <3>1, <3>2, <3>3
  <2>5. \A q \in Live(f, U2) : \A c \in InChain(f, U2[q].first) :
          IF U2[q].dir THEN NoData(U2, c) ELSE NoEnts(U2, c)
    BY <1>4, <1>6, <2>2, <2>4
  <2> QED  BY <2>1, <2>3, <2>5 DEF Kinds
<1>20. Tidy(f, U2)
  <2>1. SUFFICES ASSUME NEW ec \in Dirs(f, U2), NEW j \in Slots(f, ec), NEW l \in Slots(f, ec)
                 PROVE  /\ j < l /\ U2[PlaceOf(f, ec, j)] = Zero => U2[PlaceOf(f, ec, l)] = Zero
                        /\ j # l /\ U2[PlaceOf(f, ec, j)].k = "ent" /\ U2[PlaceOf(f, ec, l)].k = "ent"
                             => U2[PlaceOf(f, ec, j)].name # U2[PlaceOf(f, ec, l)].name
    BY DEF Tidy
  <2>2. CASE ec \in Dirs(f, U)
    <3>1. /\ j < l /\ U[PlaceOf(f, ec, j)] = Zero => U[PlaceOf(f, ec, l)] = Zero
          /\ j # l /\ U[PlaceOf(f, ec, j)].k = "ent" /\ U[PlaceOf(f, ec, l)].k = "ent"
               => U[PlaceOf(f, ec, j)].name # U[PlaceOf(f, ec, l)].name
      BY <2>2 DEF DInv, Tidy
    <3>2. CASE ec # dc \/ (j # i /\ l # i)
      <4>1. U2[PlaceOf(f, ec, j)] = U[PlaceOf(f, ec, j)] /\ U2[PlaceOf(f, ec, l)] = U[PlaceOf(f, ec, l)]
        BY <1>4, <2>2, <3>2
      <4> QED  BY <3>1, <4>1
    <3>3. CASE ec = dc /\ j = i
      <4>1. U2[PlaceOf(f, ec, j)] = e
        BY <1>2, <1>4, <3>3
      <4>2. e # Zero
        BY <1>3 DEF Zero
      <4>3. l # i => U2[PlaceOf(f, ec, l)] = U[PlaceOf(f, ec, l)]
        BY <1>4, <2>2
      <4> QED  BY <3>3, <4>1, <4>2, <4>3
    <3>4. CASE ec = dc /\ l = i /\ j # i
      <4>1. U2[PlaceOf(f, ec, l)] = e
        BY <1>2, <1>4, <3>4
      <4>2. U2[PlaceOf(f, ec, j)] = U[PlaceOf(f, ec, j)]
        BY <1>4, <2>2, <3>4
      <4>3. j < l => U[PlaceOf(f, ec, j)].k = "ent"
        BY <3>4
      <4>4. Zero.k # "ent"
        BY DEF Zero
      <4> QED  BY <3>4, <4>1, <4>2, <4>3, <4>4
    <3> QED  BY <3>2, <3>3, <3>4
  <2>3. CASE ec \notin Dirs(f, U)
    <3>1. ec = e.first /\ e.first # 0 /\ ec \in Cluster /\ e.dir
      BY <1>7, <2>1, <2>3
    <3>2. InChain(f, ec) = {ec}
      BY <1>1, <1>8, <3>1, ChainOfOne
    <3>3. ASSUME NEW m \in Slots(f, ec) PROVE U2[PlaceOf(f, ec, m)] = Zero
      <4>1. PICK r : r = PlaceOf(f, ec, m)
        OBVIOUS
      <4>2. r \in Places /\ r[1] = ec
        BY <1>10, <2>1, <3>1, <3>2, <4>1, PlaceFacts, Numbers
      <4>3. r[2] \in Unit /\ r = <<ec, r[2]>>
        BY <3>1, <4>2, Numbers DEF Places
      <4>4. U[r] = Zero
        BY <1>8, <3>1, <4>3
      <4>5. r # p
        <5>1. SUFFICES ASSUME r = p PROVE FALSE
          OBVIOUS
        <5>2. dc # ROOT /\ p[1] \in InChain(f, dc)
          BY <1>1, <1>2, <3>1, <4>2, <5>1, PlaceFacts, Numbers
        <5>3. ec \in InChain(f, dc) /\ ec \in InChain(f, ec) /\ IsHead(f, dc) /\ IsHead(f, ec)
          BY <1>1, <1>8, <3>1, <3>2, <4>2, <5>1, <5>2, DirHeads
        <5>4. dc = ec
          BY <1>1, <5>3, ChainsApart
        <5> QED  BY <2>3, <5>4
      <4> QED  BY <1>4, <4>1, <4>2, <4>4, <4>5
    <3>4. Zero.k # "ent"
      BY DEF Zero
    <3> QED  BY <2>1, <3>3, <3>4
  <2> QED  BY <2>2, <2>3
<1>21. Typed(f, U2, g)
  BY <1>1, <1>4 DEF Typed
<1>22. DInv(f, U2, g)
  BY <1>10, <1>14, <1>15, <1>16, <1>19, <1>20, <1>21 DEF DInv, Base
<1> QED  BY <1>2, <1>4, <1>12, <1>13, <1>22

\* What entry p may become: the same file or directory under another name, or
\* what a descriptor open on it says of its chain and size.
Same(U, p, e) == e.first = U[p].first /\ e.size = U[p].size
Current(f, p, e, x) == p = Anchor(f, x) /\ e.first = x.first /\ e.size = x.size

\* Changing an entry where it is.
LEMMA ChangeEnt ==
  ASSUME NEW f, NEW U, NEW g, DInv(f, U, g), NEW dc \in Dirs(f, U), NEW i \in Slots(f, dc),
         NEW p, p = PlaceOf(f, dc, i), U[p].k = "ent",
         NEW e \in EntrySet, e.dir = U[p].dir,
         Same(U, p, e) \/ \E x \in Used(g) : Current(f, p, e, g[x]),
         \A j \in Slots(f, dc) : j # i /\ U[PlaceOf(f, dc, j)].k = "ent" => U[PlaceOf(f, dc, j)].name # e.name,
         NEW U2, U2 = PutAt(U, p, e)
  PROVE  DInv(f, U2, g)
<1>1. Base(f, U) /\ f \in Table /\ U \in [Places -> UnitSet] /\ Links(f) /\ Typed(f, U, g)
  BY DInvBase
<1>2. e \in UnitSet /\ e.k = "ent" /\ e.first \in Cluster \cup {0} /\ e.dir \in BOOLEAN /\ e.size \in Nat
  BY DEF UnitSet, EntrySet
<1>3. /\ U2 \in [Places -> UnitSet] /\ U2[p] = e
      /\ p \in Places /\ (p[1] = ROOT \/ f[p[1]] # FREE)
      /\ \A q \in Places : q # p => U2[q] = U[q]
      /\ \A ec \in Dirs(f, U) : \A j \in Slots(f, ec) :
           ec # dc \/ j # i => PlaceOf(f, ec, j) # p /\ U2[PlaceOf(f, ec, j)] = U[PlaceOf(f, ec, j)]
  BY <1>1, <1>2, PutPlace
<1>4. p \in Live(f, U)
  BY <1>3 DEF Live
<1>5. /\ Live(f, U2) = Live(f, U)
      /\ \A q \in Places : U2[q].dir = U[q].dir
      /\ \A q \in Places : q # p => U2[q] = U[q]
  BY <1>2, <1>3, <1>4 DEF Live
<1>6. ASSUME NEW x \in Used(g), Anchor(f, g[x]) = p
      PROVE  g[x].parent = dc /\ g[x].idx = i /\ ~U[p].dir
  <2>1. g[x].parent \in Tree(f, U) /\ g[x].idx \in Visible(f, U, g[x].parent) /\ ~U[p].dir
    BY <1>6 DEF DInv, Anchored
  <2>2. g[x].parent \in Dirs(f, U) /\ g[x].idx \in Slots(f, g[x].parent)
    BY <1>1, <2>1, TreeInDirs DEF Visible
  <2>3. PlaceOf(f, g[x].parent, g[x].idx) = PlaceOf(f, dc, i)
    BY <1>6 DEF Anchor
  <2> QED  BY <1>1, <2>1, <2>2, <2>3, PlacesApart
<1>7. ASSUME NEW x \in Used(g), NEW y \in Used(g), Anchor(f, g[x]) = p, Anchor(f, g[y]) = p
      PROVE  x = y
  <2>1. g[x].parent = g[y].parent /\ g[x].idx = g[y].idx
    BY <1>6, <1>7
  <2> QED  BY <2>1 DEF DInv, Anchored
<1>8. U[p].dir => U2[p].first = U[p].first
  BY <1>3, <1>6 DEF Same, Current
<1>9. Dirs(f, U2) = Dirs(f, U)
  <2>1. \A q \in Live(f, U) : q \in Places
    BY DEF Live
  <2>2. \A q \in Live(f, U) : U2[q].dir = U[q].dir /\ (U[q].dir => U2[q].first = U[q].first)
    BY <1>5, <1>8, <2>1
  <2> QED  BY <1>5, <2>2 DEF Dirs
<1>10. \/ U2[p].first = U[p].first
       \/ \E x \in Used(g) : p = Anchor(f, g[x]) /\ U2[p].first = g[x].first
  BY <1>3 DEF Same, Current
<1>11. EntHeads(f, U2)
  <2>1. ASSUME NEW q \in Live(f, U)
        PROVE  /\ U[q].dir => U[q].first # 0
               /\ U[q].first # 0 => /\ IsHead(f, U[q].first)
                                    /\ \A r \in Live(f, U) : U[r].first = U[q].first => r = q
    BY <1>1 DEF Base, EntHeads
  <2>2. \A q \in Live(f, U) : q \in Places
    BY DEF Live
  <2>3. CASE U2[p].first = U[p].first
    <3>1. \A q \in Live(f, U) : U2[q].dir = U[q].dir /\ U2[q].first = U[q].first
      BY <1>5, <2>2, <2>3
    <3> QED  BY <1>5, <2>1, <3>1 DEF EntHeads
  <2>4. ASSUME NEW x \in Used(g), p = Anchor(f, g[x]), U2[p].first = g[x].first PROVE EntHeads(f, U2)
    <3>1. U2[p].first # 0 => /\ IsHead(f, U2[p].first)
                             /\ \A r \in Live(f, U) : U[r].first = U2[p].first => r = p
      BY <2>4 DEF DInv, FdHeads
    <3>2. ~U2[p].dir
      BY <1>5, <1>3, <1>6, <2>4
    <3>3. SUFFICES ASSUME NEW q \in Live(f, U)
                   PROVE  /\ U2[q].dir => U2[q].first # 0
                          /\ U2[q].first # 0 => /\ IsHead(f, U2[q].first)
                                                /\ \A r \in Live(f, U) : U2[r].first = U2[q].first => r = q
      BY <1>5 DEF EntHeads
    <3>4. CASE q = p
      BY <1>5, <2>2, <3>1, <3>2, <3>4
    <3>5. CASE q # p
      <4>1. U2[q] = U[q]
        BY <1>5, <2>2, <3>5
      <4>2. U[q].first # 0 => U2[p].first # U[q].first
        BY <3>1, <3>5
      <4>3. \A r \in Live(f, U) : r # p => U2[r] = U[r]
        BY <1>5, <2>2
      <4> QED  BY <2>1, <3>5, <4>1, <4>2, <4>3
    <3> QED  BY <3>4, <3>5
  <2> QED  BY <1>10, <2>3, <2>4
<1>12. Base(f, U2)
  BY <1>1, <1>3, <1>11 DEF Base
<1>13. ASSUME NEW ec \in Dirs(f, U), NEW j \in Slots(f, ec)
       PROVE  /\ U2[PlaceOf(f, ec, j)].k = "ent" <=> U[PlaceOf(f, ec, j)].k = "ent"
              /\ U2[PlaceOf(f, ec, j)] = Zero <=> U[PlaceOf(f, ec, j)] = Zero
              /\ U2[PlaceOf(f, ec, j)].dir = U[PlaceOf(f, ec, j)].dir
              /\ U[PlaceOf(f, ec, j)].dir => U2[PlaceOf(f, ec, j)].first = U[PlaceOf(f, ec, j)].first
  <2>1. PlaceOf(f, ec, j) \in Places
    BY <1>1, PlaceFacts
  <2>2. e # Zero /\ U[p] # Zero
    BY <1>2 DEF Zero
  <2>3. CASE PlaceOf(f, ec, j) = p
    BY <1>2, <1>3, <1>5, <1>8, <2>1, <2>2, <2>3
  <2>4. CASE PlaceOf(f, ec, j) # p
    BY <1>5, <2>1, <2>4
  <2> QED  BY <2>3, <2>4
<1>14. ASSUME NEW ec \in Dirs(f, U) PROVE Visible(f, U2, ec) = Visible(f, U, ec)
  BY <1>13 DEF Visible
<1>15. Tree(f, U) \subseteq Tree(f, U2)
  <2>1. ASSUME NEW ec \in Dirs(f, U) PROVE Subs(f, U, ec) \subseteq Subs(f, U2, ec)
    <3>1. \A j \in Visible(f, U, ec) : j \in Slots(f, ec)
      BY DEF Visible
    <3> QED  BY <1>13, <1>14, <3>1 DEF Subs
  <2>2. PICK X : X = {}
    OBVIOUS
  <2>3. /\ X \in SUBSET DirIds
        /\ \A ec \in Dirs(f, U) \ X : Subs(f, U, ec) \subseteq Subs(f, U2, ec) \cup X
        /\ \A ec \in X : Subs(f, U, ec) \subseteq X
    BY <2>1, <2>2
  <2>4. Tree(f, U) \ X \subseteq Tree(f, U2)
    BY <1>1, <2>3, TreeKept
  <2> QED  BY <2>2, <2>4
<1>16. FdHeads(f, U2, g)
  <2>1. SUFFICES ASSUME NEW x \in Used(g), g[x].first # 0
                 PROVE  /\ IsHead(f, g[x].first)
                        /\ \A y \in Used(g) : g[y].first = g[x].first => y = x
                        /\ \A q \in Live(f, U) : U2[q].first = g[x].first => q = Anchor(f, g[x])
    BY <1>5 DEF FdHeads
  <2>2. /\ IsHead(f, g[x].first)
        /\ \A y \in Used(g) : g[y].first = g[x].first => y = x
        /\ \A q \in Live(f, U) : U[q].first = g[x].first => q = Anchor(f, g[x])
    BY <2>1 DEF DInv, FdHeads
  <2>3. U2[p].first = g[x].first => p = Anchor(f, g[x])
    BY <1>4, <1>10, <2>2
  <2>4. \A q \in Live(f, U) : q # p => U2[q] = U[q]
    BY <1>5 DEF Live
  <2> QED  BY <2>2, <2>3, <2>4
<1>17. Anchored(f, U2, g)
  <2>1. SUFFICES ASSUME NEW x \in Used(g)
                 PROVE  /\ g[x].parent \in Tree(f, U2)
                        /\ g[x].idx \in Visible(f, U2, g[x].parent)
                        /\ ~U2[Anchor(f, g[x])].dir /\ U2[Anchor(f, g[x])].first \in {0, g[x].first}
                        /\ \A y \in Used(g) : y # x => g[y].parent # g[x].parent \/ g[y].idx # g[x].idx
    BY DEF Anchored
  <2>2. /\ g[x].parent \in Tree(f, U) /\ g[x].idx \in Visible(f, U, g[x].parent)
        /\ ~U[Anchor(f, g[x])].dir /\ U[Anchor(f, g[x])].first \in {0, g[x].first}
        /\ \A y \in Used(g) : y # x => g[y].parent # g[x].parent \/ g[y].idx # g[x].idx
    BY DEF DInv, Anchored
  <2>3. g[x].parent \in Dirs(f, U) /\ g[x].idx \in Slots(f, g[x].parent)
    BY <1>1, <2>2, TreeInDirs DEF Visible
  <2>4. Anchor(f, g[x]) \in Places
    BY <1>1, <2>3, PlaceFacts DEF Anchor
  <2>5. ~U2[Anchor(f, g[x])].dir
    BY <1>5, <2>2, <2>4
  <2>6. U2[Anchor(f, g[x])].first \in {0, g[x].first}
    <3>1. CASE Anchor(f, g[x]) = p
      BY <1>7, <1>10, <2>2, <3>1
    <3>2. CASE Anchor(f, g[x]) # p
      BY <1>5, <2>2, <2>4, <3>2
    <3> QED  BY <3>1, <3>2
  <2> QED  BY <1>14, <1>15, <2>2, <2>3, <2>5, <2>6
<1>18. Sized(f, U2, g)
  <2>1. \A q \in Live(f, U) : U[q].size <= Room(f, U[q].first) /\ q \in Places
    BY DEF DInv, Sized, Live
  <2>2. \A x \in Used(g) : g[x].pos <= g[x].size /\ g[x].size <= Room(f, g[x].first)
    BY DEF DInv, Sized
  <2>3. e.size <= Room(f, e.first)
    BY <1>4, <2>1, <2>2 DEF Same, Current
  <2>4. \A q \in Live(f, U) : U2[q].size <= Room(f, U2[q].first)
    BY <1>3, <1>5, <2>1, <2>3
  <2> QED  BY <1>5, <2>2, <2>4 DEF Sized
<1>19. ASSUME NEW c \in Cluster
       PROVE  (NoData(U, c) => NoData(U2, c)) /\ (NoEnts(U, c) => NoEnts(U2, c))
  <2>1. \A u \in Unit : <<c, u>> \in Places
    BY DEF Places
  <2>2. ASSUME NEW u \in Unit PROVE U2[<<c, u>>].k = U[<<c, u>>].k
    BY <1>2, <1>3, <2>1
  <2> QED  BY <2>2 DEF NoData, NoEnts
<1>20. Kinds(f, U2, g)
  <2>1. \A j \in 0 .. ROOT_ENTRIES - 1 : U2[<<ROOT, j>>].k # "data"
    <3>1. \A j \in 0 .. ROOT_ENTRIES - 1 : <<ROOT, j>> \in Places /\ U[<<ROOT, j>>].k # "data"
      BY DEF Places, DInv, Kinds
    <3> QED  BY <1>2, <1>3, <3>1
  <2>2. ASSUME NEW x \in Used(g), NEW c \in InChain(f, g[x].first) PROVE NoEnts(U2, c)
    <3>1. c \in Cluster
      BY <1>1, Owned, NoChain, FreeNotInChain
    <3>2. NoEnts(U, c)
      BY DEF DInv, Kinds
    <3> QED  BY <1>19, <3>1, <3>2
  <2>3. ASSUME NEW q \in Live(f, U), NEW c \in InChain(f, U[q].first)
        PROVE  IF U[q].dir THEN NoData(U2, c) ELSE NoEnts(U2, c)
    <3>1. c \in Cluster
      BY <1>1, Owned, NoChain, FreeNotInChain
    <3>2. IF U[q].dir THEN NoData(U, c) ELSE NoEnts(U, c)
      BY DEF DInv, Kinds
    <3> QED  BY <1>19, <3>1, <3>2
  <2>4. ASSUME NEW q \in Live(f, U), NEW c \in InChain(f, U2[q].first)
        PROVE  IF U2[q].dir THEN NoData(U2, c) ELSE NoEnts(U2, c)
    <3>1. q \in Places
      BY DEF Live
    <3>2. U2[q].dir = U[q].dir
      BY <1>5, <3>1
    <3>3. CASE U2[q].first = U[q].first
      BY <2>3, <2>4, <3>2, <3>3
    <3>4. CASE U2[q].first # U[q].first
      <4>1. q = p
        BY <1>5, <3>1, <3>4
      <4>2. PICK x \in Used(g) : p = Anchor(f, g[x]) /\ U2[p].first = g[x].first
        BY <1>10, <3>4, <4>1
      <4>3. ~U2[q].dir
        BY <1>6, <3>2, <4>1, <4>2
      <4> QED  BY <2>2, <2>4, <4>1, <4>2, <4>3
    <3> QED  BY <3>3, <3>4
  <2> QED  BY <1>5, <2>1, <2>2, <2>4 DEF Kinds
<1>21. Tidy(f, U2)
  <2>1. SUFFICES ASSUME NEW ec \in Dirs(f, U), NEW j \in Slots(f, ec), NEW l \in Slots(f, ec)
                 PROVE  /\ j < l /\ U2[PlaceOf(f, ec, j)] = Zero => U2[PlaceOf(f, ec, l)] = Zero
                        /\ j # l /\ U2[PlaceOf(f, ec, j)].k = "ent" /\ U2[PlaceOf(f, ec, l)].k = "ent"
                             => U2[PlaceOf(f, ec, j)].name # U2[PlaceOf(f, ec, l)].name
    BY <1>9 DEF Tidy
  <2>2. /\ j < l /\ U[PlaceOf(f, ec, j)] = Zero => U[PlaceOf(f, ec, l)] = Zero
        /\ j # l /\ U[PlaceOf(f, ec, j)].k = "ent" /\ U[PlaceOf(f, ec, l)].k = "ent"
             => U[PlaceOf(f, ec, j)].name # U[PlaceOf(f, ec, l)].name
    BY DEF DInv, Tidy
  <2>3. j < l /\ U2[PlaceOf(f, ec, j)] = Zero => U2[PlaceOf(f, ec, l)] = Zero
    BY <1>13, <2>2
  <2>4. ASSUME j # l, U2[PlaceOf(f, ec, j)].k = "ent", U2[PlaceOf(f, ec, l)].k = "ent"
        PROVE  U2[PlaceOf(f, ec, j)].name # U2[PlaceOf(f, ec, l)].name
    <3>1. U[PlaceOf(f, ec, j)].k = "ent" /\ U[PlaceOf(f, ec, l)].k = "ent"
      BY <1>13, <2>4
    <3>2. CASE ec # dc \/ (j # i /\ l # i)
      BY <1>3, <2>2, <2>4, <3>1, <3>2
    <3>3. CASE ec = dc /\ j = i
      BY <1>3, <2>4, <3>1, <3>3
    <3>4. CASE ec = dc /\ l = i
      BY <1>3, <2>4, <3>1, <3>4
    <3> QED  BY <3>2, <3>3, <3>4
  <2> QED  BY <2>3, <2>4
<1>22. Typed(f, U2, g)
  BY <1>1, <1>3 DEF Typed
<1> QED  BY <1>12, <1>16, <1>17, <1>18, <1>20, <1>21, <1>22 DEF DInv, Base

-----------------------------------------------------------------------------
\* Removing an entry.

\* The table without the chain of h.
Freed(f, h) == [x \in Cluster |-> IF x \in InChain(f, h) THEN FREE ELSE f[x]]

\* Freeing a chain leaves the others.
LEMMA FreedChains ==
  ASSUME NEW f \in Table, Links(f), NEW h \in Cluster \cup {0}, h # 0 => IsHead(f, h),
         NEW f2, f2 = Freed(f, h)
  PROVE  /\ f2 \in Table /\ Links(f2)
         /\ \A c \in Cluster : f2[c] = IF c \in InChain(f, h) THEN FREE ELSE f[c]
         /\ \A k \in Cluster : IsHead(f, k) /\ k # h =>
              IsHead(f2, k) /\ Chain(f2, k) = Chain(f, k) /\ InChain(f2, k) = InChain(f, k)
<1>1. \A c \in Cluster : f2[c] = IF c \in InChain(f, h) THEN FREE ELSE f[c]
  BY DEF Freed
<1>2. f2 \in Table
  BY DEF Freed, Table
<1>3. ASSUME NEW a \in Cluster, f[a] \in InChain(f, h) PROVE a \in InChain(f, h)
  <2>1. h # 0 /\ IsHead(f, h)
    BY <1>3, NoChain
  <2>2. PICK s : s = Chain(f, h)
    OBVIOUS
  <2>3. PICK n : n = Len(s)
    OBVIOUS
  <2>4. /\ n \in Nat /\ DOMAIN s = 1 .. n /\ s[1] = h
        /\ \A j \in 1 .. n : s[j] \in Cluster
        /\ \A j \in 1 .. n - 1 : s[j + 1] = f[s[j]]
    BY <2>1, <2>2, <2>3, HeadChain DEF GoodChain
  <2>5. PICK j \in 1 .. n : f[a] = s[j]
    BY <1>3, <2>2, <2>4 DEF InChain
  <2>6. j # 1
    BY <2>1, <2>4, <2>5 DEF IsHead
  <2>7. PICK l : l = j - 1
    OBVIOUS
  <2>8. l \in 1 .. n - 1 /\ l \in 1 .. n /\ j = l + 1
    BY <2>4, <2>6, <2>7
  <2>9. s[l] \in Cluster /\ f[s[l]] = f[a] /\ f[a] \in Cluster
    BY <2>4, <2>5, <2>8
  <2>10. a = s[l]
    BY <2>9 DEF Links
  <2> QED  BY <2>2, <2>4, <2>8, <2>10 DEF InChain
<1>4. Links(f2)
  <2>1. SUFFICES ASSUME NEW a \in Cluster, f2[a] \in Cluster
                 PROVE  f2[f2[a]] # FREE /\ \A b \in Cluster : f2[b] = f2[a] => b = a
    BY DEF Links
  <2>2. a \notin InChain(f, h) /\ f2[a] = f[a]
    BY <1>1, <2>1, Numbers
  <2>3. f[f[a]] # FREE /\ \A b \in Cluster : f[b] = f[a] => b = a
    BY <2>1, <2>2 DEF Links
  <2>4. f[a] \notin InChain(f, h)
    BY <1>3, <2>2
  <2> QED  BY <1>1, <2>1, <2>2, <2>3, <2>4, Numbers
<1>5. ASSUME NEW k \in Cluster, IsHead(f, k), k # h
      PROVE  IsHead(f2, k) /\ Chain(f2, k) = Chain(f, k) /\ InChain(f2, k) = InChain(f, k)
  <2>1. \A c \in InChain(f, k) : c \in Cluster /\ c \notin InChain(f, h)
    <3> TAKE c \in InChain(f, k)
    <3>1. c \in Cluster
      BY <1>5, FreeNotInChain
    <3>2. c \notin InChain(f, h)
      BY <1>5, NoChain, ChainsApart
    <3> QED  BY <3>1, <3>2
  <2>2. \A c \in InChain(f, k) : f2[c] = f[c]
    BY <1>1, <2>1
  <2>3. Chain(f2, k) = Chain(f, k)
    <3>1. f2 \in Table
      BY <1>2
    <3> QED  BY ONLY f \in Table, Links(f), <1>5, <2>2, <3>1, SameChain
  <2>4. k \in InChain(f, k)
    <3>1. GoodChain(f, k, Chain(f, k))
      BY <1>5, HeadChain
    <3>2. 1 \in DOMAIN Chain(f, k) /\ Chain(f, k)[1] = k
      BY <3>1 DEF GoodChain
    <3> QED  BY <3>2 DEF InChain
  <2>5. IsHead(f2, k)
    <3>1. f2[k] # FREE
      BY <1>5, <2>2, <2>4 DEF IsHead
    <3>2. \A a \in Cluster : f2[a] # k
      BY <1>1, <1>5, Numbers DEF IsHead
    <3> QED  BY <3>1, <3>2 DEF IsHead
  <2> QED  BY <2>3, <2>5 DEF InChain
<1> QED  BY <1>1, <1>2, <1>4, <1>5

\* The unit u of the cluster after q others.
LEMMA SlotAt ==
  ASSUME NEW q \in Nat, NEW u \in Unit
  PROVE  /\ UNITS * q + u \in Nat
         /\ (UNITS * q + u) \div UNITS = q /\ (UNITS * q + u) % UNITS = u
<1>1. UNITS \in Nat /\ u \in Nat /\ u < UNITS /\ UNITS * q \in Nat
  BY Numbers
<1>2. PICK i : i = UNITS * q + u
  OBVIOUS
<1>3. PICK a, b : a = i \div UNITS /\ b = i % UNITS
  OBVIOUS
<1>4. i \in Nat
  BY <1>1, <1>2
<1>5. a \in Nat /\ b \in Nat /\ b < UNITS /\ i = UNITS * a + b
  BY <1>1, <1>3, <1>4, DivMod, Numbers
<1>6. ~(a < q)
  <2>1. SUFFICES ASSUME a + 1 <= q PROVE FALSE
    BY <1>5
  <2>2. UNITS * (a + 1) <= UNITS * q /\ UNITS * (a + 1) = UNITS * a + UNITS /\ UNITS * a \in Nat
    BY <1>1, <1>5, <2>1, TimesMono
  <2> QED  BY <1>1, <1>2, <1>5, <2>2
<1>7. ~(q < a)
  <2>1. SUFFICES ASSUME q + 1 <= a PROVE FALSE
    BY <1>5
  <2>2. UNITS * (q + 1) <= UNITS * a /\ UNITS * (q + 1) = UNITS * q + UNITS /\ UNITS * a \in Nat
    BY <1>1, <1>5, <2>1, TimesMono
  <2> QED  BY <1>1, <1>2, <1>5, <2>2
<1>8. a = q
  BY <1>5, <1>6, <1>7
<1>9. b = u
  BY <1>1, <1>2, <1>5, <1>8
<1> QED  BY <1>2, <1>3, <1>4, <1>8, <1>9

\* A directory's entries are all in sight of the scans.
LEMMA AllVisible ==
  ASSUME NEW f, NEW U, NEW g, DInv(f, U, g), NEW dc \in Dirs(f, U), NEW i \in Slots(f, dc),
         U[PlaceOf(f, dc, i)].k = "ent"
  PROVE  i \in Visible(f, U, dc)
<1>1. f \in Table /\ dc \in DirIds
  BY DInvBase, DirHeads
<1>2. ASSUME NEW j \in Slots(f, dc), U[PlaceOf(f, dc, j)] = Zero PROVE i < j
  <2>1. i \in Nat /\ j \in Nat
    BY <1>1, LenChain
  <2>2. U[PlaceOf(f, dc, i)] # Zero
    BY DEF Zero
  <2>3. ~(j < i)
    BY <1>2, <2>2 DEF DInv, Tidy
  <2> QED  BY <1>2, <2>1, <2>2, <2>3
<1> QED  BY <1>2 DEF Visible

\* Each unit of a directory's chain is one of its slots.
LEMMA UnitSlot ==
  ASSUME NEW f, NEW U, Base(f, U), NEW dc \in Dirs(f, U), dc # ROOT,
         NEW c \in InChain(f, dc), NEW u \in Unit
  PROVE  \E i \in Slots(f, dc) : PlaceOf(f, dc, i) = <<c, u>>
<1>1. PICK s : s = Chain(f, dc)
  OBVIOUS
<1>2. PICK n : n = Len(s)
  OBVIOUS
<1>3. n \in Nat /\ DOMAIN s = 1 .. n
  BY <1>1, <1>2, DirHeads, HeadChain DEF Base, GoodChain
<1>4. PICK k \in 1 .. n : c = s[k]
  BY <1>1, <1>3 DEF InChain
<1>5. PICK q : q = k - 1
  OBVIOUS
<1>6. q \in Nat /\ q < n /\ k = q + 1
  BY <1>3, <1>5
<1>7. PICK i : i = UNITS * q + u
  OBVIOUS
<1>8. i \in Nat /\ i \div UNITS = q /\ i % UNITS = u
  BY <1>6, <1>7, SlotAt
<1>9. i < UNITS * n
  BY <1>3, <1>6, <1>8, DivBound
<1>10. i \in Slots(f, dc)
  <2>1. DirLen(f, dc) = UNITS * n /\ UNITS * n \in Nat
    BY <1>1, <1>2, <1>3, Numbers DEF DirLen
  <2> QED  BY <1>8, <1>9, <2>1 DEF Slots
<1>11. PlaceOf(f, dc, i) = <<c, u>>
  BY <1>1, <1>4, <1>6, <1>8 DEF PlaceOf
<1> QED  BY <1>10, <1>11

\* The clusters of a file, or of an empty directory, hold no entries.
LEMMA EmptyChain ==
  ASSUME NEW f, NEW U, NEW g, DInv(f, U, g), NEW p \in Live(f, U),
         U[p].dir => Visible(f, U, U[p].first) = {}, NEW c \in InChain(f, U[p].first)
  PROVE  NoEnts(U, c)
<1>1. CASE ~U[p].dir
  BY <1>1 DEF DInv, Kinds
<1>2. CASE U[p].dir
  <2>1. PICK h : h = U[p].first
    OBVIOUS
  <2>2. Base(f, U)
    BY DInvBase
  <2>3. h \in Dirs(f, U) /\ h # ROOT
    BY <1>2, <2>1, <2>2 DEF Dirs, Base, EntHeads, ROOT
  <2>4. SUFFICES ASSUME NEW u \in Unit, U[<<c, u>>].k = "ent" PROVE FALSE
    BY DEF NoEnts
  <2>5. PICK i \in Slots(f, h) : PlaceOf(f, h, i) = <<c, u>>
    BY <2>1, <2>2, <2>3, UnitSlot
  <2>6. i \in Visible(f, U, h)
    BY <2>3, <2>4, <2>5, AllVisible
  <2> QED  BY <1>2, <2>1, <2>6
<1> QED  BY <1>1, <1>2

\* Removing an entry that no descriptor is open on: a file, or an empty directory.
LEMMA RemoveEnt ==
  ASSUME NEW f, NEW U, NEW g, DInv(f, U, g), NEW dc \in Dirs(f, U), NEW i \in Slots(f, dc),
         NEW p, p = PlaceOf(f, dc, i), U[p].k = "ent",
         \A x \in Used(g) : g[x].parent # dc \/ g[x].idx # i,
         U[p].dir => Visible(f, U, U[p].first) = {},
         NEW f2, f2 = Freed(f, U[p].first), NEW U2, U2 = PutAt(U, p, Deleted)
  PROVE  DInv(f2, U2, g) /\ i \in Slots(f2, dc) /\ PlaceOf(f2, dc, i) = p
<1>1. Base(f, U) /\ f \in Table /\ U \in [Places -> UnitSet] /\ Links(f) /\ Typed(f, U, g)
  BY DInvBase
<1>2. Deleted \in UnitSet /\ Deleted.k # "ent" /\ Deleted.k # "data" /\ Deleted # Zero
  BY DEF UnitSet, Deleted, Zero
<1>3. /\ U2 \in [Places -> UnitSet] /\ U2[p] = Deleted
      /\ p \in Places /\ (p[1] = ROOT \/ f[p[1]] # FREE)
      /\ \A q \in Places : q # p => U2[q] = U[q]
      /\ \A ec \in Dirs(f, U) : \A j \in Slots(f, ec) :
           ec # dc \/ j # i => PlaceOf(f, ec, j) # p /\ U2[PlaceOf(f, ec, j)] = U[PlaceOf(f, ec, j)]
  BY <1>1, <1>2, PutPlace
<1>4. p \in Live(f, U)
  BY <1>3 DEF Live
<1>5. PICK h : h = U[p].first
  OBVIOUS
<1>6. h \in Cluster \cup {0} /\ (h # 0 => IsHead(f, h)) /\ f2 = Freed(f, h)
  BY <1>4, <1>5, Owned
<1>7. /\ f2 \in Table /\ Links(f2)
      /\ \A c \in Cluster : f2[c] = IF c \in InChain(f, h) THEN FREE ELSE f[c]
      /\ \A k \in Cluster : IsHead(f, k) /\ k # h =>
           IsHead(f2, k) /\ Chain(f2, k) = Chain(f, k) /\ InChain(f2, k) = InChain(f, k)
  BY <1>1, <1>6, FreedChains
<1>8. \A q \in Live(f, U) : q[1] \notin InChain(f, h)
  <2>1. SUFFICES ASSUME NEW q \in Live(f, U), q[1] \in InChain(f, h) PROVE FALSE
    OBVIOUS
  <2>2. q[1] \in Cluster
    BY <1>1, <1>6, <2>1, NoChain, FreeNotInChain
  <2>3. q \in Places /\ U[q].k = "ent"
    BY DEF Live
  <2>4. q[2] \in Unit /\ q = <<q[1], q[2]>>
    BY <2>2, <2>3, Numbers DEF Places
  <2>5. NoEnts(U, q[1])
    BY <1>4, <1>5, <2>1, EmptyChain
  <2> QED  BY <2>3, <2>4, <2>5 DEF NoEnts
<1>9. Live(f2, U2) = Live(f, U) \ {p}
  <2>1. \A q \in Places : q[1] = ROOT \/ q[1] \in Cluster
    BY DEF Places
  <2>2. ASSUME NEW q \in Live(f, U), q # p PROVE q \in Live(f2, U2)
    BY <1>3, <1>7, <1>8, <2>1, <2>2 DEF Live
  <2>3. ASSUME NEW q \in Live(f2, U2) PROVE q \in Live(f, U) /\ q # p
    <3>1. q # p
      BY <1>2, <1>3 DEF Live
    <3> QED  BY <1>3, <1>7, <2>1, <3>1 DEF Live
  <2> QED  BY <2>2, <2>3
<1>10. \A q \in Live(f2, U2) : q \in Live(f, U) /\ q # p /\ U2[q] = U[q]
  BY <1>3, <1>9 DEF Live
<1>11. ASSUME NEW q \in Live(f, U), q # p, U[q].first # 0 PROVE U[q].first # h
  BY <1>1, <1>4, <1>5, <1>11 DEF Base, EntHeads
<1>12. ASSUME NEW x \in Used(g)
       PROVE  /\ g[x].parent \in Dirs(f, U) /\ g[x].idx \in Slots(f, g[x].parent)
              /\ Anchor(f, g[x]) # p
              /\ g[x].first # 0 => g[x].first # h
              /\ U[p].dir => g[x].parent # h
  <2>1. g[x].parent \in Tree(f, U) /\ g[x].idx \in Visible(f, U, g[x].parent)
    BY DEF DInv, Anchored
  <2>2. g[x].parent \in Dirs(f, U) /\ g[x].idx \in Slots(f, g[x].parent)
    BY <1>1, <2>1, TreeInDirs DEF Visible
  <2>3. Anchor(f, g[x]) # p
    BY <1>1, <2>2, PlacesApart DEF Anchor
  <2>4. g[x].first # 0 => g[x].first # h
    BY <1>4, <1>5, <2>3 DEF DInv, FdHeads
  <2> QED  BY <1>5, <2>1, <2>2, <2>3, <2>4
<1>13. \A d \in Dirs(f2, U2) : d \in Dirs(f, U) /\ (d # ROOT => d # h)
  <2> TAKE d \in Dirs(f2, U2)
  <2>1. CASE d = ROOT
    BY <2>1 DEF Dirs
  <2>2. CASE d # ROOT
    <3>1. PICK q \in Live(f2, U2) : U2[q].dir /\ d = U2[q].first
      BY <2>2 DEF Dirs
    <3>2. q \in Live(f, U) /\ q # p /\ U[q].dir /\ d = U[q].first
      BY <1>10, <3>1
    <3>3. d # h
      BY <1>11, <2>2, <3>2 DEF ROOT
    <3> QED  BY <3>2, <3>3 DEF Dirs
  <2> QED  BY <2>1, <2>2
<1>14. ASSUME NEW d \in Dirs(f, U), d = ROOT \/ d # h
       PROVE  /\ Slots(f2, d) = Slots(f, d)
              /\ \A j \in Slots(f, d) : PlaceOf(f2, d, j) = PlaceOf(f, d, j)
  <2>1. CASE d = ROOT
    BY <2>1 DEF Slots, DirLen, PlaceOf
  <2>2. CASE d # ROOT
    <3>1. d \in Cluster /\ IsHead(f, d) /\ d # h
      BY <1>1, <1>14, <2>2, DirHeads DEF IsHead
    <3>2. Chain(f2, d) = Chain(f, d)
      BY <1>7, <3>1
    <3> QED  BY <2>2, <3>2 DEF Slots, DirLen, PlaceOf
  <2> QED  BY <2>1, <2>2
<1>15. ASSUME NEW d \in Dirs(f, U), NEW j \in Visible(f, U, d), d = ROOT \/ d # h, d # dc \/ j # i
       PROVE  /\ j \in Visible(f2, U2, d) /\ PlaceOf(f2, d, j) = PlaceOf(f, d, j)
              /\ U2[PlaceOf(f2, d, j)] = U[PlaceOf(f, d, j)]
  <2>1. j \in Slots(f, d) /\ U[PlaceOf(f, d, j)].k = "ent"
    BY DEF Visible
  <2>2. PlaceOf(f2, d, j) = PlaceOf(f, d, j) /\ U2[PlaceOf(f2, d, j)] = U[PlaceOf(f, d, j)]
    BY <1>3, <1>14, <1>15, <2>1
  <2>3. ASSUME NEW l \in Slots(f2, d), U2[PlaceOf(f2, d, l)] = Zero PROVE j < l
    <3>1. l \in Slots(f, d) /\ U2[PlaceOf(f, d, l)] = Zero
      BY <1>14, <1>15, <2>3
    <3>2. U[PlaceOf(f, d, l)] = Zero
      BY <1>2, <1>3, <3>1
    <3> QED  BY <3>1, <3>2 DEF Visible
  <2> QED  BY <1>14, <1>15, <2>1, <2>2, <2>3 DEF Visible
<1>16. PICK X : X = IF U[p].dir THEN {h} ELSE {}
  OBVIOUS
<1>17. \A d \in Dirs(f, U) \ X : d = ROOT \/ d # h
  <2>1. SUFFICES ASSUME NEW d \in Dirs(f, U) \ X, d # ROOT, d = h PROVE FALSE
    OBVIOUS
  <2>2. PICK q \in Live(f, U) : U[q].dir /\ d = U[q].first
    BY <2>1 DEF Dirs
  <2>3. q = p
    BY <1>11, <2>1, <2>2 DEF ROOT
  <2> QED  BY <1>16, <2>1, <2>2, <2>3
<1>18. Tree(f, U) \ X \subseteq Tree(f2, U2)
  <2>1. X \in SUBSET DirIds
    BY <1>6, <1>16, Numbers DEF DirIds
  <2>2. \A d \in X : Subs(f, U, d) \subseteq X
    BY <1>5, <1>16 DEF Subs
  <2>3. ASSUME NEW d \in Dirs(f, U) \ X, NEW y \in Subs(f, U, d) PROVE y \in Subs(f2, U2, d) \cup X
    <3>1. PICK j \in Visible(f, U, d) : U[PlaceOf(f, d, j)].dir /\ y = U[PlaceOf(f, d, j)].first
      BY DEF Subs
    <3>2. CASE d = dc /\ j = i
      BY <1>5, <1>16, <3>1, <3>2
    <3>3. CASE d # dc \/ j # i
      <4>1. /\ j \in Visible(f2, U2, d) /\ PlaceOf(f2, d, j) = PlaceOf(f, d, j)
            /\ U2[PlaceOf(f2, d, j)] = U[PlaceOf(f, d, j)]
        BY <1>15, <1>17, <3>3
      <4> QED  BY <3>1, <4>1 DEF Subs
    <3> QED  BY <3>2, <3>3
  <2>4. \A d \in Dirs(f, U) \ X : Subs(f, U, d) \subseteq Subs(f2, U2, d) \cup X
    BY <2>3
  <2> HIDE DEF Subs
  <2> QED  BY <1>1, <2>1, <2>2, <2>4, TreeKept
<1>19. EntHeads(f2, U2)
  <2>1. SUFFICES ASSUME NEW q \in Live(f2, U2)
                 PROVE  /\ U2[q].dir => U2[q].first # 0
                        /\ U2[q].first # 0 => /\ IsHead(f2, U2[q].first)
                                              /\ \A r \in Live(f2, U2) : U2[r].first = U2[q].first => r = q
    BY DEF EntHeads
  <2>2. q \in Live(f, U) /\ q # p /\ U2[q] = U[q]
    BY <1>10
  <2>3. /\ U[q].dir => U[q].first # 0
        /\ U[q].first # 0 => /\ IsHead(f, U[q].first)
                             /\ \A r \in Live(f, U) : U[r].first = U[q].first => r = q
    BY <1>1, <2>2 DEF Base, EntHeads
  <2>4. U[q].first # 0 => IsHead(f2, U[q].first)
    BY <1>7, <1>11, <2>2, <2>3 DEF IsHead
  <2> QED  BY <1>10, <2>2, <2>3, <2>4
<1>20. FdHeads(f2, U2, g)
  <2>1. SUFFICES ASSUME NEW x \in Used(g), g[x].first # 0
                 PROVE  /\ IsHead(f2, g[x].first)
                        /\ \A y \in Used(g) : g[y].first = g[x].first => y = x
                        /\ \A q \in Live(f2, U2) : U2[q].first = g[x].first => q = Anchor(f2, g[x])
    BY DEF FdHeads
  <2>2. /\ IsHead(f, g[x].first)
        /\ \A y \in Used(g) : g[y].first = g[x].first => y = x
        /\ \A q \in Live(f, U) : U[q].first = g[x].first => q = Anchor(f, g[x])
    BY <2>1 DEF DInv, FdHeads
  <2>3. IsHead(f2, g[x].first)
    BY <1>7, <1>12, <2>1, <2>2 DEF IsHead
  <2>4. ASSUME NEW q \in Live(f2, U2), U2[q].first = g[x].first PROVE q = Anchor(f2, g[x])
    <3>1. q \in Live(f, U) /\ U[q].first = g[x].first
      BY <1>10, <2>4
    <3>2. q = Anchor(f, g[x])
      BY <2>2, <3>1
    <3>3. g[x].parent = ROOT \/ g[x].parent # h
      BY <1>12, <1>16, <1>17
    <3>4. Anchor(f2, g[x]) = Anchor(f, g[x])
      BY <1>12, <1>14, <3>3 DEF Anchor
    <3> QED  BY <3>2, <3>4
  <2> QED  BY <2>2, <2>3, <2>4
<1>21. Anchored(f2, U2, g)
  <2>1. SUFFICES ASSUME NEW x \in Used(g)
                 PROVE  /\ g[x].parent \in Tree(f2, U2)
                        /\ g[x].idx \in Visible(f2, U2, g[x].parent)
                        /\ ~U2[Anchor(f2, g[x])].dir /\ U2[Anchor(f2, g[x])].first \in {0, g[x].first}
                        /\ \A y \in Used(g) : y # x => g[y].parent # g[x].parent \/ g[y].idx # g[x].idx
    BY DEF Anchored
  <2>2. /\ g[x].parent \in Tree(f, U) /\ g[x].idx \in Visible(f, U, g[x].parent)
        /\ ~U[Anchor(f, g[x])].dir /\ U[Anchor(f, g[x])].first \in {0, g[x].first}
        /\ \A y \in Used(g) : y # x => g[y].parent # g[x].parent \/ g[y].idx # g[x].idx
    BY DEF DInv, Anchored
  <2>3. g[x].parent \in Tree(f2, U2)
    BY <1>12, <1>16, <1>18, <2>2
  <2>4. g[x].parent = ROOT \/ g[x].parent # h
    BY <1>12, <1>16, <1>17
  <2>5. g[x].idx \in Visible(f2, U2, g[x].parent) /\ U2[Anchor(f2, g[x])] = U[Anchor(f, g[x])]
    BY <1>12, <1>15, <2>2, <2>4 DEF Anchor
  <2> QED  BY <2>2, <2>3, <2>5
<1>22. ASSUME NEW k \in Cluster \cup {0}, k # 0 => IsHead(f, k) /\ k # h
       PROVE  Chain(f2, k) = Chain(f, k) /\ InChain(f2, k) = InChain(f, k) /\ Room(f2, k) = Room(f, k)
  <2>1. CASE k = 0
    BY <1>1, <1>7, <2>1, NoChain DEF Room
  <2>2. CASE k # 0
    <3>1. Chain(f2, k) = Chain(f, k) /\ InChain(f2, k) = InChain(f, k)
      BY <1>7, <1>22, <2>2
    <3> QED  BY <3>1 DEF Room
  <2> QED  BY <2>1, <2>2
<1>23. ASSUME NEW q \in Live(f2, U2)
       PROVE  /\ q \in Live(f, U) /\ U2[q] = U[q] /\ InChain(f2, U[q].first) = InChain(f, U[q].first)
              /\ Room(f2, U[q].first) = Room(f, U[q].first)
  BY <1>10, <1>11, <1>22, Owned
<1>24. ASSUME NEW x \in Used(g)
       PROVE  /\ InChain(f2, g[x].first) = InChain(f, g[x].first)
              /\ Room(f2, g[x].first) = Room(f, g[x].first)
  BY <1>12, <1>22, Owned
<1>25. Sized(f2, U2, g)
  BY <1>23, <1>24 DEF DInv, Sized
<1>26. ASSUME NEW c \in Cluster
       PROVE  (NoData(U, c) => NoData(U2, c)) /\ (NoEnts(U, c) => NoEnts(U2, c))
  <2>1. \A u \in Unit : <<c, u>> \in Places
    BY DEF Places
  <2> QED  BY <1>2, <1>3, <2>1 DEF NoData, NoEnts
<1>27. Kinds(f2, U2, g)
  <2>1. \A j \in 0 .. ROOT_ENTRIES - 1 : U2[<<ROOT, j>>].k # "data"
    <3>1. \A j \in 0 .. ROOT_ENTRIES - 1 : <<ROOT, j>> \in Places /\ U[<<ROOT, j>>].k # "data"
      BY DEF Places, DInv, Kinds
    <3> QED  BY <1>2, <1>3, <3>1
  <2>2. ASSUME NEW x \in Used(g), NEW c \in InChain(f2, g[x].first) PROVE NoEnts(U2, c)
    <3>1. c \in InChain(f, g[x].first)
      BY <1>24
    <3>2. c \in Cluster
      BY <1>1, <3>1, Owned, NoChain, FreeNotInChain
    <3>3. NoEnts(U, c)
      BY <3>1 DEF DInv, Kinds
    <3> QED  BY <1>26, <3>2, <3>3
  <2>3. ASSUME NEW q \in Live(f2, U2), NEW c \in InChain(f2, U2[q].first)
        PROVE  IF U2[q].dir THEN NoData(U2, c) ELSE NoEnts(U2, c)
    <3>1. q \in Live(f, U) /\ U2[q] = U[q] /\ c \in InChain(f, U[q].first)
      BY <1>23
    <3>2. c \in Cluster
      BY <1>1, <3>1, Owned, NoChain, FreeNotInChain
    <3>3. IF U[q].dir THEN NoData(U, c) ELSE NoEnts(U, c)
      BY <3>1 DEF DInv, Kinds
    <3> QED  BY <1>26, <3>1, <3>2, <3>3
  <2> QED  BY <2>1, <2>2, <2>3 DEF Kinds
<1>28. Tidy(f2, U2)
  <2>1. SUFFICES ASSUME NEW d \in Dirs(f2, U2), NEW j \in Slots(f2, d), NEW l \in Slots(f2, d)
                 PROVE  /\ j < l /\ U2[PlaceOf(f2, d, j)] = Zero => U2[PlaceOf(f2, d, l)] = Zero
                        /\ j # l /\ U2[PlaceOf(f2, d, j)].k = "ent" /\ U2[PlaceOf(f2, d, l)].k = "ent"
                             => U2[PlaceOf(f2, d, j)].name # U2[PlaceOf(f2, d, l)].name
    BY DEF Tidy
  <2>2. d \in Dirs(f, U) /\ (d = ROOT \/ d # h)
    BY <1>13
  <2>3. /\ j \in Slots(f, d) /\ l \in Slots(f, d)
        /\ PlaceOf(f2, d, j) = PlaceOf(f, d, j) /\ PlaceOf(f2, d, l) = PlaceOf(f, d, l)
    BY <1>14, <2>2
  <2>4. /\ j < l /\ U[PlaceOf(f, d, j)] = Zero => U[PlaceOf(f, d, l)] = Zero
        /\ j # l /\ U[PlaceOf(f, d, j)].k = "ent" /\ U[PlaceOf(f, d, l)].k = "ent"
             => U[PlaceOf(f, d, j)].name # U[PlaceOf(f, d, l)].name
    BY <2>2, <2>3 DEF DInv, Tidy
  <2>5. ASSUME NEW m \in Slots(f, d)
        PROVE  \/ U2[PlaceOf(f, d, m)] = U[PlaceOf(f, d, m)]
               \/ U2[PlaceOf(f, d, m)] = Deleted /\ U[PlaceOf(f, d, m)].k = "ent"
    BY <1>3, <2>2
  <2>6. Zero.k # "ent"
    BY DEF Zero
  <2> QED  BY <1>2, <2>3, <2>4, <2>5, <2>6
<1>29. Typed(f2, U2, g)
  BY <1>1, <1>3, <1>7 DEF Typed
<1>30. DInv(f2, U2, g)
  BY <1>7, <1>19, <1>20, <1>21, <1>25, <1>27, <1>28, <1>29 DEF DInv
<1>31. dc = ROOT \/ dc # h
  BY <1>1, <1>4, <1>8, PlaceFacts
<1> QED  BY <1>14, <1>30, <1>31

-----------------------------------------------------------------------------
\* The descriptors.

\* Closing some of them.
LEMMA FewerFds ==
  ASSUME NEW f, NEW U, NEW g, DInv(f, U, g), NEW g2 \in [FDs -> FDSet \cup {NoFD}],
         Used(g2) \subseteq Used(g), \A x \in Used(g2) : g2[x] = g[x]
  PROVE  DInv(f, U, g2)
<1>1. Typed(f, U, g2)
  BY DEF DInv, Typed
<1>2. FdHeads(f, U, g2)
  BY DEF DInv, FdHeads
<1>3. Anchored(f, U, g2)
  BY DEF DInv, Anchored
<1>4. Sized(f, U, g2)
  BY DEF DInv, Sized
<1>5. Kinds(f, U, g2)
  BY DEF DInv, Kinds
<1> QED  BY <1>1, <1>2, <1>3, <1>4, <1>5 DEF DInv

\* Opening the file of an entry that no descriptor is open on.
LEMMA OneMoreFd ==
  ASSUME NEW f, NEW U, NEW g, DInv(f, U, g), NEW dc \in Tree(f, U), NEW i \in Visible(f, U, dc),
         NEW p, p = PlaceOf(f, dc, i), ~U[p].dir,
         \A y \in Used(g) : g[y].parent # dc \/ g[y].idx # i,
         NEW x \in FDs, x \notin Used(g),
         NEW g2, g2 = [g EXCEPT ![x] = NewFD(U[p].first, U[p].size, dc, i)]
  PROVE  DInv(f, U, g2)
<1>1. Base(f, U) /\ f \in Table /\ U \in [Places -> UnitSet] /\ Links(f) /\ Typed(f, U, g)
  BY DInvBase
<1>2. dc \in Dirs(f, U) /\ dc \in DirIds /\ i \in Slots(f, dc) /\ i \in Nat
  BY <1>1, TreeInDirs, LenChain DEF Visible
<1>3. p \in Live(f, U) /\ U[p].first \in Cluster \cup {0} /\ U[p].size \in Nat
  BY <1>1, <1>2, SlotLive, LiveTyped DEF Visible
<1>4. PICK r : r = NewFD(U[p].first, U[p].size, dc, i)
  OBVIOUS
<1>5. /\ r \in FDSet /\ r.used = TRUE /\ r.first = U[p].first /\ r.size = U[p].size /\ r.pos = 0
      /\ r.parent = dc /\ r.idx = i
  BY <1>2, <1>3, <1>4 DEF NewFD, FDSet, DirIds
<1>6. /\ g2 \in [FDs -> FDSet \cup {NoFD}] /\ g2[x] = r
      /\ \A y \in FDs : y # x => g2[y] = g[y]
  BY <1>1, <1>4, <1>5 DEF Typed
<1>7. Used(g2) = Used(g) \cup {x} /\ \A y \in Used(g) : y # x /\ g2[y] = g[y]
  BY <1>5, <1>6 DEF Used
<1>8. Anchor(f, r) = p
  BY <1>5 DEF Anchor
<1>9. ASSUME NEW y \in Used(g) PROVE Anchor(f, g[y]) # p
  <2>1. g[y].parent \in Dirs(f, U) /\ g[y].idx \in Slots(f, g[y].parent)
    BY <1>1, TreeInDirs DEF DInv, Anchored, Visible
  <2> QED  BY <1>1, <1>2, <2>1, PlacesApart DEF Anchor
<1>10. FdHeads(f, U, g2)
  <2>1. ASSUME r.first # 0
        PROVE  /\ IsHead(f, r.first)
               /\ \A y \in Used(g) : g[y].first # r.first
               /\ \A q \in Live(f, U) : U[q].first = r.first => q = Anchor(f, r)
    <3>1. IsHead(f, r.first) /\ \A q \in Live(f, U) : U[q].first = r.first => q = p
      BY <1>1, <1>3, <1>5, <2>1 DEF Base, EntHeads
    <3>2. \A y \in Used(g) : g[y].first # r.first
      BY <1>3, <1>5, <1>9, <2>1 DEF DInv, FdHeads
    <3> QED  BY <1>8, <3>1, <3>2
  <2>2. ASSUME NEW y \in Used(g), g[y].first # 0
        PROVE  /\ IsHead(f, g[y].first)
               /\ \A z \in Used(g) : g[z].first = g[y].first => z = y
               /\ \A q \in Live(f, U) : U[q].first = g[y].first => q = Anchor(f, g[y])
    BY <2>2 DEF DInv, FdHeads
  <2>3. SUFFICES ASSUME NEW y \in Used(g) \cup {x}, g2[y].first # 0
                 PROVE  /\ IsHead(f, g2[y].first)
                        /\ \A z \in Used(g) \cup {x} : g2[z].first = g2[y].first => z = y
                        /\ \A q \in Live(f, U) : U[q].first = g2[y].first => q = Anchor(f, g2[y])
    BY <1>7 DEF FdHeads
  <2>4. CASE y = x
    BY <1>6, <1>7, <2>1, <2>3, <2>4
  <2>5. CASE y # x
    BY <1>6, <1>7, <2>1, <2>2, <2>3, <2>5
  <2> QED  BY <2>4, <2>5
<1>11. Anchored(f, U, g2)
  <2>1. SUFFICES ASSUME NEW y \in Used(g2)
                 PROVE  /\ g2[y].parent \in Tree(f, U)
                        /\ g2[y].idx \in Visible(f, U, g2[y].parent)
                        /\ ~U[Anchor(f, g2[y])].dir /\ U[Anchor(f, g2[y])].first \in {0, g2[y].first}
                        /\ \A z \in Used(g2) : z # y => g2[z].parent # g2[y].parent \/ g2[z].idx # g2[y].idx
    BY DEF Anchored
  <2>4. \A z \in Used(g2) : z = x \/ (z \in Used(g) /\ z # x /\ g2[z] = g[z])
    BY <1>7
  <2>2. CASE y = x
    <3>1. g2[y] = r
      BY <1>6, <2>2
    <3>2. \A z \in Used(g2) : z # y => g2[z].parent # g2[y].parent \/ g2[z].idx # g2[y].idx
      <4> TAKE z \in Used(g2)
      <4> HAVE z # y
      <4>1. z \in Used(g) /\ g2[z] = g[z]
        BY <2>2, <2>4
      <4>2. g2[y].parent = dc /\ g2[y].idx = i
        BY <1>5, <3>1
      <4> QED  BY <4>1, <4>2
    <3> QED  BY <1>5, <1>8, <3>1, <3>2
  <2>3. CASE y # x
    <3> y \in Used(g)
      BY <1>7, <2>3
    <3>1. /\ g[y].parent \in Tree(f, U) /\ g[y].idx \in Visible(f, U, g[y].parent)
          /\ ~U[Anchor(f, g[y])].dir /\ U[Anchor(f, g[y])].first \in {0, g[y].first}
          /\ \A z \in Used(g) : z # y => g[z].parent # g[y].parent \/ g[z].idx # g[y].idx
      BY <2>3 DEF DInv, Anchored
    <3>2. g2[y] = g[y]
      BY <2>3, <2>4
    <3>3. \A z \in Used(g2) : z # y => g2[z].parent # g2[y].parent \/ g2[z].idx # g2[y].idx
      <4> TAKE z \in Used(g2)
      <4>1. CASE z = x
        <5>1. g2[z] = r
          BY <1>6, <4>1
        <5> QED  BY <1>5, <3>2, <5>1
      <4>2. CASE z # x
        BY <2>4, <3>1, <3>2, <4>2
      <4> QED  BY <4>1, <4>2
    <3> QED  BY <3>1, <3>2, <3>3
  <2> QED  BY <2>2, <2>3
<1>12. Sized(f, U, g2)
  <2>1. r.pos <= r.size /\ r.size <= Room(f, r.first)
    BY <1>3, <1>5 DEF DInv, Sized
  <2> QED  BY <1>6, <1>7, <2>1 DEF DInv, Sized
<1>13. Kinds(f, U, g2)
  <2>1. \A c \in InChain(f, r.first) : NoEnts(U, c)
    BY <1>3, <1>5 DEF DInv, Kinds
  <2> QED  BY <1>6, <1>7, <2>1 DEF DInv, Kinds
<1>14. Typed(f, U, g2)
  BY <1>1, <1>6 DEF Typed
<1> QED  BY <1>10, <1>11, <1>12, <1>13, <1>14 DEF DInv

\* What a read or a write makes of a descriptor: another position and size, and
\* a first cluster if it had none.
Moves(f, U, g, r, s) ==
  /\ s \in FDSet /\ s.parent = r.parent /\ s.idx = r.idx
  /\ s.pos <= s.size /\ s.size <= Room(f, s.first)
  /\ \/ s.first = r.first
     \/ /\ r.first = 0 /\ Unowned(f, U, g, s.first)
        /\ \A c \in InChain(f, s.first) : NoEnts(U, c)

\* Setting a descriptor.
LEMMA MovedFd ==
  ASSUME NEW f, NEW U, NEW g, DInv(f, U, g), NEW x \in Used(g), NEW s, Moves(f, U, g, g[x], s),
         NEW g2, g2 = [g EXCEPT ![x] = s]
  PROVE  DInv(f, U, g2)
<1>1. Base(f, U) /\ f \in Table /\ U \in [Places -> UnitSet] /\ Links(f) /\ Typed(f, U, g)
  BY DInvBase
<1>2. s \in FDSet /\ s.used = TRUE /\ s.parent = g[x].parent /\ s.idx = g[x].idx
  BY DEF Moves, FDSet
<1>3. /\ g2 \in [FDs -> FDSet \cup {NoFD}] /\ g2[x] = s /\ x \in FDs
      /\ \A y \in FDs : y # x => g2[y] = g[y]
  BY <1>1, <1>2 DEF Typed, Used
<1>4. Used(g2) = Used(g) /\ \A y \in Used(g) : y # x => g2[y] = g[y]
  BY <1>2, <1>3 DEF Used
<1>5. \A y \in Used(g) : Anchor(f, g2[y]) = Anchor(f, g[y]) /\ g2[y].parent = g[y].parent /\ g2[y].idx = g[y].idx
  BY <1>2, <1>3, <1>4 DEF Anchor
<1>6. FdHeads(f, U, g2)
  <2>1. ASSUME NEW y \in Used(g), g[y].first # 0
        PROVE  /\ IsHead(f, g[y].first)
               /\ \A z \in Used(g) : g[z].first = g[y].first => z = y
               /\ \A q \in Live(f, U) : U[q].first = g[y].first => q = Anchor(f, g[y])
    BY <2>1 DEF DInv, FdHeads
  <2>2. CASE s.first = g[x].first
    <3>1. \A y \in Used(g) : g2[y].first = g[y].first
      BY <1>3, <1>4, <2>2
    <3> QED  BY <1>4, <1>5, <2>1, <3>1 DEF FdHeads
  <2>3. CASE Unowned(f, U, g, s.first)
    <3>1. /\ IsHead(f, s.first) /\ \A q \in Live(f, U) : U[q].first # s.first
          /\ \A y \in Used(g) : g[y].first # s.first
      BY <2>3 DEF Unowned
    <3>2. SUFFICES ASSUME NEW y \in Used(g), g2[y].first # 0
                   PROVE  /\ IsHead(f, g2[y].first)
                          /\ \A z \in Used(g) : g2[z].first = g2[y].first => z = y
                          /\ \A q \in Live(f, U) : U[q].first = g2[y].first => q = Anchor(f, g[y])
      BY <1>4, <1>5 DEF FdHeads
    <3>3. CASE y = x
      BY <1>3, <1>4, <3>1, <3>3
    <3>4. CASE y # x
      BY <1>3, <1>4, <2>1, <3>1, <3>2, <3>4
    <3> QED  BY <3>3, <3>4
  <2> QED  BY <2>2, <2>3 DEF Moves
<1>7. Anchored(f, U, g2)
  <2>1. SUFFICES ASSUME NEW y \in Used(g)
                 PROVE  /\ g[y].parent \in Tree(f, U)
                        /\ g[y].idx \in Visible(f, U, g[y].parent)
                        /\ ~U[Anchor(f, g[y])].dir /\ U[Anchor(f, g[y])].first \in {0, g2[y].first}
                        /\ \A z \in Used(g) : z # y => g[z].parent # g[y].parent \/ g[z].idx # g[y].idx
    BY <1>4, <1>5 DEF Anchored
  <2>2. /\ g[y].parent \in Tree(f, U) /\ g[y].idx \in Visible(f, U, g[y].parent)
        /\ ~U[Anchor(f, g[y])].dir /\ U[Anchor(f, g[y])].first \in {0, g[y].first}
        /\ \A z \in Used(g) : z # y => g[z].parent # g[y].parent \/ g[z].idx # g[y].idx
    BY DEF DInv, Anchored
  <2>3. g2[y].first = g[y].first \/ g[y].first = 0
    BY <1>3, <1>4 DEF Moves
  <2> QED  BY <2>2, <2>3
<1>8. Sized(f, U, g2)
  BY <1>3, <1>4 DEF DInv, Sized, Moves
<1>9. Kinds(f, U, g2)
  <2>1. \A c \in InChain(f, s.first) : NoEnts(U, c)
    BY DEF DInv, Kinds, Moves
  <2> QED  BY <1>3, <1>4, <2>1 DEF DInv, Kinds
<1>10. Typed(f, U, g2)
  BY <1>1, <1>3 DEF Typed
<1> QED  BY <1>6, <1>7, <1>8, <1>9, <1>10 DEF DInv

-----------------------------------------------------------------------------
\* The operations on a disk, as changes of its table and its places.

\* The fields of a disk.
LEMMA DiskFields ==
  ASSUME NEW d \in DiskSet
  PROVE  /\ d.fat \in Table /\ d.root \in [0 .. ROOT_ENTRIES - 1 -> UnitSet]
         /\ d.data \in [Cluster -> [Unit -> UnitSet]]
         /\ View(d) \in [Places -> UnitSet]
         /\ \A i \in 0 .. ROOT_ENTRIES - 1 : View(d)[<<ROOT, i>>] = d.root[i]
         /\ \A c \in Cluster, u \in Unit : View(d)[<<c, u>>] = d.data[c][u]
<1>1. /\ d.fat \in Table /\ d.root \in [0 .. ROOT_ENTRIES - 1 -> UnitSet]
      /\ d.data \in [Cluster -> [Unit -> UnitSet]]
  BY DEF DiskSet
<1>2. \A p \in Places : \/ p[1] = ROOT /\ p[2] \in 0 .. ROOT_ENTRIES - 1
                        \/ p[1] # ROOT /\ p[1] \in Cluster /\ p[2] \in Unit
  BY Numbers DEF Places
<1>3. View(d) \in [Places -> UnitSet]
  BY <1>1, <1>2 DEF View, Contents
<1>4. \A i \in 0 .. ROOT_ENTRIES - 1 : <<ROOT, i>> \in Places /\ View(d)[<<ROOT, i>>] = d.root[i]
  BY DEF View, Contents, Places
<1>5. \A c \in Cluster, u \in Unit : <<c, u>> \in Places /\ c # ROOT /\ View(d)[<<c, u>>] = d.data[c][u]
  BY Numbers DEF View, Contents, Places
<1> QED  BY <1>1, <1>3, <1>4, <1>5

\* Two ways to have the same contents.
LEMMA SameView ==
  ASSUME NEW d \in DiskSet, NEW U \in [Places -> UnitSet],
         \A i \in 0 .. ROOT_ENTRIES - 1 : U[<<ROOT, i>>] = d.root[i],
         \A c \in Cluster, u \in Unit : U[<<c, u>>] = d.data[c][u]
  PROVE  View(d) = U
<1>1. \A p \in Places : \/ p = <<ROOT, p[2]>> /\ p[2] \in 0 .. ROOT_ENTRIES - 1
                        \/ p = <<p[1], p[2]>> /\ p[1] \in Cluster /\ p[2] \in Unit
  BY DEF Places
<1>2. /\ View(d) \in [Places -> UnitSet]
      /\ \A i \in 0 .. ROOT_ENTRIES - 1 : View(d)[<<ROOT, i>>] = d.root[i]
      /\ \A c \in Cluster, u \in Unit : View(d)[<<c, u>>] = d.data[c][u]
  BY DiskFields
<1>3. \A p \in Places : View(d)[p] = U[p]
  BY <1>1, <1>2
<1> QED  BY <1>2, <1>3

\* Claiming a cluster.
LEMMA ViewClaim ==
  ASSUME NEW d \in DiskSet, NEW c \in Cluster
  PROVE  /\ Claim(d, c) \in DiskSet /\ Claim(d, c).fat = [d.fat EXCEPT ![c] = EOC]
         /\ View(Claim(d, c)) = Blanked(View(d), c)
<1>1. PICK e : e = Claim(d, c)
  OBVIOUS
<1>2. /\ d.fat \in Table /\ d.root \in [0 .. ROOT_ENTRIES - 1 -> UnitSet]
      /\ d.data \in [Cluster -> [Unit -> UnitSet]]
      /\ View(d) \in [Places -> UnitSet]
      /\ \A i \in 0 .. ROOT_ENTRIES - 1 : View(d)[<<ROOT, i>>] = d.root[i]
      /\ \A x \in Cluster, u \in Unit : View(d)[<<x, u>>] = d.data[x][u]
  BY DiskFields
<1>3. Blank \in [Unit -> UnitSet] /\ EOC \in Cluster \cup {FREE, EOC}
  BY DEF Blank, UnitSet
<1>4. PICK f2, da2 : f2 = [d.fat EXCEPT ![c] = EOC] /\ da2 = [d.data EXCEPT ![c] = Blank]
  OBVIOUS
<1>5. f2 \in Table /\ da2 \in [Cluster -> [Unit -> UnitSet]]
  BY <1>2, <1>3, <1>4 DEF Table
<1>6. e = [fat |-> f2, root |-> d.root, data |-> da2]
  BY <1>1, <1>4 DEF Claim, DiskSet
<1>7. e \in DiskSet /\ e.fat = f2 /\ e.root = d.root /\ e.data = da2
  BY <1>2, <1>5, <1>6 DEF DiskSet
<1>8. PICK U2 : U2 = Blanked(View(d), c)
  OBVIOUS
<1>9. /\ U2 \in [Places -> UnitSet]
      /\ \A p \in Places : p[1] # c => U2[p] = View(d)[p]
      /\ \A p \in Places : p[1] = c => U2[p] = Zero
      /\ \A i \in 0 .. ROOT_ENTRIES - 1 : U2[<<ROOT, i>>] = View(d)[<<ROOT, i>>]
  BY <1>2, <1>8, BlankedIs
<1>10. ASSUME NEW x \in Cluster, NEW u \in Unit PROVE U2[<<x, u>>] = da2[x][u]
  <2>1. <<x, u>> \in Places
    BY DEF Places
  <2>2. CASE x = c
    BY <1>2, <1>4, <1>9, <2>1, <2>2 DEF Blank
  <2>3. CASE x # c
    BY <1>2, <1>4, <1>9, <2>1, <2>3
  <2> QED  BY <2>2, <2>3
<1>11. View(e) = U2
  BY <1>2, <1>7, <1>9, <1>10, SameView
<1> QED  BY <1>1, <1>4, <1>7, <1>8, <1>11

\* Claiming a cluster and linking it.
LEMMA ViewExtend ==
  ASSUME NEW d \in DiskSet, NEW last \in Cluster, NEW c \in Cluster
  PROVE  /\ Extend(d, last, c) \in DiskSet
         /\ Extend(d, last, c).fat = [d.fat EXCEPT ![c] = EOC, ![last] = c]
         /\ View(Extend(d, last, c)) = Blanked(View(d), c)
<1>1. PICK e : e = Claim(d, c)
  OBVIOUS
<1>2. e \in DiskSet /\ e.fat = [d.fat EXCEPT ![c] = EOC] /\ View(e) = Blanked(View(d), c)
  BY <1>1, ViewClaim
<1>3. PICK x : x = Extend(d, last, c)
  OBVIOUS
<1>4. PICK f2 : f2 = [e.fat EXCEPT ![last] = c]
  OBVIOUS
<1>5. f2 \in Table /\ f2 = [d.fat EXCEPT ![c] = EOC, ![last] = c]
  BY <1>2, <1>4, DiskFields DEF Table
<1>6. x = [fat |-> f2, root |-> e.root, data |-> e.data]
  BY <1>1, <1>2, <1>3, <1>4 DEF Extend, DiskSet
<1>7. x \in DiskSet /\ x.fat = f2 /\ x.root = e.root /\ x.data = e.data
  BY <1>2, <1>5, <1>6 DEF DiskSet
<1>8. View(x) = View(e)
  BY <1>7 DEF View
<1> QED  BY <1>2, <1>3, <1>5, <1>7, <1>8

\* Writing units of a file.
LEMMA ViewPut ==
  ASSUME NEW d \in DiskSet, NEW c \in Cluster, NEW off, NEW take, NEW v \in Values
  PROVE  /\ Put(d, c, off, take, v) \in DiskSet /\ Put(d, c, off, take, v).fat = d.fat
         /\ View(Put(d, c, off, take, v)) = Filled(View(d), c, off .. off + take - 1, v)
<1>1. PICK e, W : e = Put(d, c, off, take, v) /\ W = off .. off + take - 1
  OBVIOUS
<1>2. /\ d.fat \in Table /\ d.root \in [0 .. ROOT_ENTRIES - 1 -> UnitSet]
      /\ d.data \in [Cluster -> [Unit -> UnitSet]]
      /\ View(d) \in [Places -> UnitSet]
      /\ \A i \in 0 .. ROOT_ENTRIES - 1 : View(d)[<<ROOT, i>>] = d.root[i]
      /\ \A x \in Cluster, u \in Unit : View(d)[<<x, u>>] = d.data[x][u]
  BY DiskFields
<1>3. PICK b : b = [u \in Unit |-> IF u \in W THEN Data(v) ELSE d.data[c][u]]
  OBVIOUS
<1>4. PICK da2 : da2 = [d.data EXCEPT ![c] = b]
  OBVIOUS
<1>5. Data(v) \in UnitSet
  BY DEF UnitSet
<1>6. b \in [Unit -> UnitSet]
  BY <1>2, <1>3, <1>5
<1>7. da2 \in [Cluster -> [Unit -> UnitSet]] /\ da2[c] = b /\ \A x \in Cluster : x # c => da2[x] = d.data[x]
  BY <1>2, <1>4, <1>6
<1>8. e = [fat |-> d.fat, root |-> d.root, data |-> da2]
  BY <1>1, <1>3, <1>4 DEF Put, DiskSet
<1>9. e \in DiskSet /\ e.fat = d.fat /\ e.root = d.root /\ e.data = da2
  BY <1>2, <1>7, <1>8 DEF DiskSet
<1>10. PICK U2 : U2 = Filled(View(d), c, W, v)
  OBVIOUS
<1>11. /\ U2 \in [Places -> UnitSet]
       /\ \A p \in Places : U2[p] = IF p[1] = c /\ p[2] \in W THEN Data(v) ELSE View(d)[p]
  BY <1>2, <1>5, <1>10 DEF Filled
<1>12. ASSUME NEW x \in Cluster, NEW u \in Unit PROVE U2[<<x, u>>] = da2[x][u]
  <2>1. <<x, u>> \in Places
    BY DEF Places
  <2>2. CASE x = c
    BY <1>2, <1>3, <1>7, <1>11, <2>1, <2>2
  <2>3. CASE x # c
    BY <1>2, <1>7, <1>11, <2>1, <2>3
  <2> QED  BY <2>2, <2>3
<1>13. ASSUME NEW i \in 0 .. ROOT_ENTRIES - 1 PROVE U2[<<ROOT, i>>] = d.root[i]
  <2>1. <<ROOT, i>> \in Places /\ ROOT # c
    BY Numbers DEF Places
  <2> QED  BY <1>2, <1>11, <2>1
<1>14. View(e) = U2
  BY <1>9, <1>11, <1>12, <1>13, SameView
<1> QED  BY <1>1, <1>9, <1>10, <1>14

\* Freeing a chain.
LEMMA ViewFree ==
  ASSUME NEW d \in DiskSet, NEW c
  PROVE  /\ fat_free_chain(d, c) \in DiskSet /\ fat_free_chain(d, c).fat = Freed(d.fat, c)
         /\ View(fat_free_chain(d, c)) = View(d)
<1>1. PICK e, f2 : e = fat_free_chain(d, c) /\ f2 = Freed(d.fat, c)
  OBVIOUS
<1>2. f2 \in Table
  BY <1>1, DiskFields DEF Freed, Table
<1>3. e = [fat |-> f2, root |-> d.root, data |-> d.data]
  BY <1>1 DEF fat_free_chain, Freed, DiskSet
<1>4. e \in DiskSet /\ e.fat = f2 /\ e.root = d.root /\ e.data = d.data
  BY <1>2, <1>3, DiskFields DEF DiskSet
<1> QED  BY <1>1, <1>4 DEF View

\* The slots of whatever is read as a directory are places.
LEMMA PlaceIn ==
  ASSUME NEW f \in Table, NEW dc \in DirIds, NEW i \in Slots(f, dc)
  PROVE  /\ i \in Nat /\ PlaceOf(f, dc, i) \in Places
         /\ dc = ROOT => PlaceOf(f, dc, i) = <<ROOT, i>> /\ i \in 0 .. ROOT_ENTRIES - 1
         /\ dc # ROOT => /\ PlaceOf(f, dc, i) = <<Chain(f, dc)[i \div UNITS + 1], i % UNITS>>
                         /\ Chain(f, dc)[i \div UNITS + 1] \in Cluster /\ i % UNITS \in Unit
<1>1. i \in Nat /\ i < DirLen(f, dc)
  BY LenChain
<1>2. CASE dc = ROOT
  <2>1. PlaceOf(f, dc, i) = <<ROOT, i>> /\ i \in 0 .. ROOT_ENTRIES - 1
    BY <1>1, <1>2, Numbers DEF PlaceOf, DirLen
  <2> QED  BY <1>1, <1>2, <2>1 DEF Places
<1>3. CASE dc # ROOT
  <2>1. PICK s : s = Chain(f, dc)
    OBVIOUS
  <2>2. dc \in Int
    BY Numbers DEF DirIds
  <2>3. s \in Seq(Cluster) /\ Len(s) \in Nat
    BY <2>1, <2>2, ChainIs, LenChain DEF IsChain
  <2>4. i < UNITS * Len(s)
    BY <1>1, <1>3, <2>1 DEF DirLen
  <2>5. PICK n \in Nat : n = Len(s)
    BY <2>3
  <2>6. i \div UNITS \in Nat /\ i \div UNITS < n /\ i % UNITS \in Unit
    BY <1>1, <2>4, <2>5, DivMod, DivBound
  <2>7. PICK q : q = i \div UNITS + 1
    OBVIOUS
  <2>8. q \in 1 .. Len(s)
    BY <2>5, <2>6, <2>7
  <2>9. s[q] \in Cluster
    BY <2>3, <2>8, ElementOfSeq
  <2>10. PlaceOf(f, dc, i) = <<s[q], i % UNITS>>
    BY <1>3, <2>1, <2>7 DEF PlaceOf
  <2> QED  BY <1>1, <1>3, <2>1, <2>6, <2>7, <2>9, <2>10 DEF Places
<1> QED  BY <1>2, <1>3

\* Writing an entry.
LEMMA ViewEntry ==
  ASSUME NEW d \in DiskSet, NEW dc \in DirIds, NEW i \in Slots(d.fat, dc), NEW e \in UnitSet,
         NEW x, x = dir_write_entry(d, dc, i, e)
  PROVE  /\ InDir(d, dc, i) /\ x \in DiskSet /\ x.fat = d.fat
         /\ View(x) = PutAt(View(d), PlaceOf(d.fat, dc, i), e)
<1>1. /\ d.fat \in Table /\ d.root \in [0 .. ROOT_ENTRIES - 1 -> UnitSet]
      /\ d.data \in [Cluster -> [Unit -> UnitSet]]
      /\ View(d) \in [Places -> UnitSet]
      /\ \A j \in 0 .. ROOT_ENTRIES - 1 : View(d)[<<ROOT, j>>] = d.root[j]
      /\ \A c \in Cluster, u \in Unit : View(d)[<<c, u>>] = d.data[c][u]
  BY DiskFields
<1>2. PICK p, U2 : p = PlaceOf(d.fat, dc, i) /\ U2 = PutAt(View(d), p, e)
  OBVIOUS
<1>3. p \in Places
  BY <1>1, <1>2, PlaceIn
<1>4. U2 \in [Places -> UnitSet] /\ U2[p] = e /\ \A q \in Places : q # p => U2[q] = View(d)[q]
  BY <1>1, <1>2, <1>3 DEF PutAt
<1>5. InDir(d, dc, i)
  BY <1>1, LenChain DEF InDir, DirLen
<1>6. \A j \in 0 .. ROOT_ENTRIES - 1 : <<ROOT, j>> \in Places
  BY DEF Places
<1>7. \A c \in Cluster, u \in Unit : <<c, u>> \in Places
  BY DEF Places
<1>8. CASE dc = ROOT
  <2>1. p = <<ROOT, i>> /\ i \in 0 .. ROOT_ENTRIES - 1
    BY <1>1, <1>2, <1>8, PlaceIn
  <2>2. PICK r2 : r2 = [d.root EXCEPT ![i] = e]
    OBVIOUS
  <2>3. /\ r2 \in [0 .. ROOT_ENTRIES - 1 -> UnitSet] /\ r2[i] = e
        /\ \A j \in 0 .. ROOT_ENTRIES - 1 : j # i => r2[j] = d.root[j]
    BY <1>1, <2>1, <2>2
  <2>4. x = [d EXCEPT !.root[i] = e]
    BY <1>5, <1>8 DEF dir_write_entry
  <2>5. x = [fat |-> d.fat, root |-> r2, data |-> d.data]
    BY <2>2, <2>4 DEF DiskSet
  <2>6. x \in DiskSet /\ x.fat = d.fat /\ x.root = r2 /\ x.data = d.data
    BY <1>1, <2>3, <2>5 DEF DiskSet
  <2>7. \A j \in 0 .. ROOT_ENTRIES - 1 : U2[<<ROOT, j>>] = r2[j]
    BY <1>1, <1>4, <1>6, <2>1, <2>3
  <2>8. \A c \in Cluster, u \in Unit : U2[<<c, u>>] = d.data[c][u]
    BY <1>1, <1>4, <1>7, <2>1, Numbers
  <2>9. View(x) = U2
    BY <1>4, <2>6, <2>7, <2>8, SameView
  <2> QED  BY <1>2, <1>5, <2>6, <2>9
<1>9. CASE dc # ROOT
  <2>1. PICK a, u : a = Chain(d.fat, dc)[i \div UNITS + 1] /\ u = i % UNITS
    OBVIOUS
  <2>2. p = <<a, u>> /\ a \in Cluster /\ u \in Unit
    BY <1>1, <1>2, <1>9, <2>1, PlaceIn
  <2>3. PICK da2 : da2 = [d.data EXCEPT ![a][u] = e]
    OBVIOUS
  <2>4. /\ da2 \in [Cluster -> [Unit -> UnitSet]] /\ da2[a][u] = e
        /\ \A c \in Cluster, w \in Unit : <<c, w>> # <<a, u>> => da2[c][w] = d.data[c][w]
    BY <1>1, <2>2, <2>3
  <2>5. x = [d EXCEPT !.data[a][u] = e]
    BY <1>5, <1>9, <2>1 DEF dir_write_entry
  <2>6. x = [fat |-> d.fat, root |-> d.root, data |-> da2]
    BY <2>3, <2>5 DEF DiskSet
  <2>7. x \in DiskSet /\ x.fat = d.fat /\ x.root = d.root /\ x.data = da2
    BY <1>1, <2>4, <2>6 DEF DiskSet
  <2>8. \A j \in 0 .. ROOT_ENTRIES - 1 : U2[<<ROOT, j>>] = d.root[j]
    BY <1>1, <1>4, <1>6, <2>2, Numbers
  <2>9. ASSUME NEW c \in Cluster, NEW w \in Unit PROVE U2[<<c, w>>] = da2[c][w]
    <3>1. CASE <<c, w>> = <<a, u>>
      <4>1. c = a /\ w = u
        BY <3>1
      <4>2. U2[<<c, w>>] = e
        BY <1>4, <2>2, <3>1
      <4> QED  BY <2>4, <4>1, <4>2
    <3>2. CASE <<c, w>> # <<a, u>>
      <4>1. da2[c][w] = d.data[c][w]
        BY <2>4, <3>2
      <4>2. U2[<<c, w>>] = View(d)[<<c, w>>]
        BY <1>4, <1>7, <2>2, <3>2
      <4> QED  BY <1>1, <4>1, <4>2
    <3> QED  BY <3>1, <3>2
  <2>10. View(x) = U2
    BY <1>4, <2>7, <2>8, <2>9, SameView
  <2> QED  BY <1>2, <1>5, <2>7, <2>10
<1> QED  BY <1>8, <1>9

-----------------------------------------------------------------------------
\* Reading the disk.

\* The disk between two calls.
V == View(Disk)

\* Its parts.
LEMMA DiskParts ==
  ASSUME Disk \in DiskSet
  PROVE  /\ Disk.fat = fat /\ Disk.root = root /\ Disk.data = data
         /\ fat \in Table /\ V \in [Places -> UnitSet]
         /\ root \in [0 .. ROOT_ENTRIES - 1 -> UnitSet]
         /\ \A i \in 0 .. ROOT_ENTRIES - 1 : V[<<ROOT, i>>] = root[i]
         /\ \A c \in Cluster, u \in Unit : V[<<c, u>>] = data[c][u]
<1>1. Disk.fat = fat /\ Disk.root = root /\ Disk.data = data
  BY DEF Disk
<1> QED  BY <1>1, DiskFields DEF V

\* The units of a directory are what its slots hold.
LEMMA UnitsAre ==
  ASSUME Disk \in DiskSet, NEW dc \in DirIds
  PROVE  /\ DOMAIN Units(dc) = Slots(fat, dc)
         /\ \A i \in Slots(fat, dc) : /\ Units(dc)[i] = V[PlaceOf(fat, dc, i)]
                                      /\ Units(dc)[i] \in UnitSet /\ Entry(dc, i) = V[PlaceOf(fat, dc, i)]
<1>1. /\ fat \in Table /\ V \in [Places -> UnitSet]
      /\ root \in [0 .. ROOT_ENTRIES - 1 -> UnitSet]
      /\ \A i \in 0 .. ROOT_ENTRIES - 1 : V[<<ROOT, i>>] = root[i]
      /\ \A c \in Cluster, u \in Unit : V[<<c, u>>] = data[c][u]
  BY DiskParts
<1>2. DOMAIN Units(dc) = Slots(fat, dc) /\ \A i \in Slots(fat, dc) : Units(dc)[i] = V[PlaceOf(fat, dc, i)]
  <2>1. CASE dc = ROOT
    <3>1. Units(dc) = root /\ Slots(fat, dc) = 0 .. ROOT_ENTRIES - 1
      BY <2>1 DEF Units, Slots, DirLen
    <3>2. \A i \in Slots(fat, dc) : PlaceOf(fat, dc, i) = <<ROOT, i>>
      BY <2>1 DEF PlaceOf
    <3> QED  BY <1>1, <3>1, <3>2
  <2>2. CASE dc # ROOT
    <3>1. Slots(fat, dc) = 0 .. UNITS * Len(Chain(fat, dc)) - 1
      BY <2>2 DEF Slots, DirLen
    <3>2. Units(dc) = [i \in Slots(fat, dc) |-> data[Chain(fat, dc)[i \div UNITS + 1]][i % UNITS]]
      BY <2>2, <3>1 DEF Units
    <3>3. ASSUME NEW i \in Slots(fat, dc) PROVE Units(dc)[i] = V[PlaceOf(fat, dc, i)]
      <4>1. PICK a, u : a = Chain(fat, dc)[i \div UNITS + 1] /\ u = i % UNITS
        OBVIOUS
      <4>2. PlaceOf(fat, dc, i) = <<a, u>> /\ a \in Cluster /\ u \in Unit
        BY <1>1, <2>2, <4>1, PlaceIn
      <4>3. Units(dc)[i] = data[a][u]
        BY <3>2, <4>1
      <4> QED  BY <1>1, <4>2, <4>3
    <3> QED  BY <3>2, <3>3
  <2> QED  BY <2>1, <2>2
<1>3. ASSUME NEW i \in Slots(fat, dc) PROVE V[PlaceOf(fat, dc, i)] \in UnitSet
  BY <1>1, PlaceIn
<1> QED  BY <1>2, <1>3 DEF Entry

\* The scans see the visible entries.
LEMMA ListedIs ==
  ASSUME Disk \in DiskSet, NEW dc \in DirIds
  PROVE  Seen(Units(dc)) = Visible(fat, V, dc) /\ Listed(dc) = Visible(fat, V, dc)
<1>1. PICK us, P : us = Units(dc) /\ P = [i \in Slots(fat, dc) |-> V[PlaceOf(fat, dc, i)]]
  OBVIOUS
<1>2. DOMAIN us = Slots(fat, dc) /\ \A i \in Slots(fat, dc) : us[i] = V[PlaceOf(fat, dc, i)]
  BY <1>1, UnitsAre
<1>3. Seen(us) = {i \in DOMAIN us : us[i].k = "ent" /\ \A j \in DOMAIN us : us[j] = Zero => i < j}
  BY DEF Seen
<1>4. Seen(us) = Visible(fat, V, dc)
  BY <1>2, <1>3 DEF Visible
<1> QED  BY <1>1, <1>4 DEF Listed

\* The directories in use are the ones that can be reached.
LEMMA DirectoriesIs ==
  ASSUME Disk \in DiskSet
  PROVE  Directories = Tree(fat, V)
<1>1. ASSUME NEW dc \in DirIds PROVE Subdirs(dc) = Subs(fat, V, dc)
  <2>1. PICK us : us = Units(dc)
    OBVIOUS
  <2>2. \A i \in Visible(fat, V, dc) : us[i] = V[PlaceOf(fat, dc, i)]
    BY <2>1, UnitsAre DEF Visible
  <2>3. Seen(us) = Visible(fat, V, dc)
    BY <2>1, ListedIs
  <2>4. Subdirs(dc) = {us[i].first : i \in {j \in Visible(fat, V, dc) : us[j].dir}}
    BY <2>1, <2>3 DEF Subdirs
  <2> QED  BY <2>2, <2>4 DEF Subs
<1>2. PICK into : into = UNION {{<<dc, x>> : x \in Subdirs(dc)} : dc \in DirIds}
  OBVIOUS
<1>3. ASSUME NEW dc \in DirIds, NEW x PROVE <<dc, x>> \in into <=> x \in Subs(fat, V, dc)
  BY <1>1, <1>2
<1>4. \A e \in into : \E dc \in DirIds : \E x \in Subs(fat, V, dc) : e = <<dc, x>>
  BY <1>1, <1>2
<1>5. ASSUME NEW S \in SUBSET DirIds
      PROVE  (ROOT \in S /\ \A e \in into : e[1] \in S => e[2] \in S) <=> Closed(fat, V, S)
  <2>1. ASSUME \A e \in into : e[1] \in S => e[2] \in S, NEW dc \in S, NEW x \in Subs(fat, V, dc)
        PROVE  x \in S
    <3>1. PICK e : e = <<dc, x>>
      OBVIOUS
    <3>2. e \in into
      BY <1>3, <3>1
    <3>3. e[1] = dc /\ e[2] = x
      BY <3>1
    <3> QED  BY <2>1, <3>2, <3>3
  <2>2. ASSUME \A dc \in S : Subs(fat, V, dc) \subseteq S, NEW e \in into, e[1] \in S
        PROVE  e[2] \in S
    BY <1>4, <2>2
  <2> QED  BY <2>1, <2>2 DEF Closed
<1>6. Directories = {x \in DirIds : \A S \in {R \in SUBSET DirIds :
                       ROOT \in R /\ \A e \in into : e[1] \in R => e[2] \in R} : x \in S}
  BY <1>2 DEF Directories
<1> QED  BY <1>5, <1>6 DEF Tree

\* The least of some natural numbers.
LEMMA MinIs ==
  ASSUME NEW T \in SUBSET Nat, T # {}
  PROVE  Min(T) \in T /\ \A m \in T : Min(T) <= m
<1>1. \E n \in T : \A m \in T : n <= m
  BY Least
<1> QED  BY <1>1 DEF Min

\* What find_in_dir finds.
LEMMA FindIs ==
  ASSUME Disk \in DiskSet, NEW dc \in DirIds, NEW name, NEW i, i = find_in_dir(dc, name)
  PROVE  \/ /\ i # NotFound /\ i \in Nat /\ i \in Visible(fat, V, dc) /\ i \in Slots(fat, dc)
            /\ V[PlaceOf(fat, dc, i)].name = name /\ Entry(dc, i) = V[PlaceOf(fat, dc, i)]
         \/ i = NotFound /\ \A j \in Visible(fat, V, dc) : V[PlaceOf(fat, dc, j)].name # name
<1>1. PICK us, hits : us = Units(dc) /\ hits = {j \in Seen(us) : us[j].name = name}
  OBVIOUS
<1>2. i = IF hits = {} THEN NotFound ELSE Min(hits)
  BY <1>1 DEF find_in_dir
<1>3. Seen(us) = Visible(fat, V, dc)
  BY <1>1, ListedIs
<1>4. fat \in Table
  BY DiskParts
<1>5. \A j \in Visible(fat, V, dc) : /\ j \in Slots(fat, dc) /\ j \in Nat /\ us[j] = V[PlaceOf(fat, dc, j)]
                                     /\ Entry(dc, j) = V[PlaceOf(fat, dc, j)]
  BY <1>1, <1>4, UnitsAre, LenChain DEF Visible
<1>6. CASE hits = {}
  BY <1>1, <1>2, <1>3, <1>5, <1>6
<1>7. CASE hits # {}
  <2>1. hits \in SUBSET Nat
    BY <1>1, <1>3, <1>5
  <2>2. i \in hits
    BY <1>2, <1>7, <2>1, MinIs
  <2>3. i \in Visible(fat, V, dc) /\ us[i].name = name
    BY <1>1, <1>3, <2>2
  <2>4. i # NotFound
    BY <1>5, <2>3 DEF NotFound
  <2> QED  BY <1>5, <2>3, <2>4
<1> QED  BY <1>6, <1>7

\* One component of a path leads from one directory to another.
LEMMA DescendIs ==
  ASSUME Disk \in DiskSet, Base(fat, V), NEW dc \in Tree(fat, V) \cup {NotFound}, NEW name
  PROVE  Descend(dc, name) \in Tree(fat, V) \cup {NotFound}
<1>1. CASE dc = NotFound
  BY <1>1 DEF Descend
<1>2. CASE dc # NotFound
  <2>1. dc \in Tree(fat, V) /\ dc \in DirIds
    BY <1>2, TreeInDirs
  <2>2. PICK i : i = find_in_dir(dc, name)
    OBVIOUS
  <2>3. CASE i = NotFound \/ ~Entry(dc, i).dir
    BY <1>2, <2>2, <2>3 DEF Descend
  <2>4. CASE i # NotFound /\ Entry(dc, i).dir
    <3>1. i \in Visible(fat, V, dc) /\ Entry(dc, i) = V[PlaceOf(fat, dc, i)]
      BY <2>1, <2>2, <2>4, FindIs
    <3>2. Entry(dc, i).first \in Subs(fat, V, dc)
      BY <2>4, <3>1 DEF Subs
    <3>3. Entry(dc, i).first \in Tree(fat, V)
      BY <2>1, <3>2, TreeClosed
    <3>4. Descend(dc, name) = Entry(dc, i).first
      BY <1>2, <2>2, <2>4 DEF Descend
    <3> QED  BY <3>3, <3>4
  <2> QED  BY <2>3, <2>4
<1> QED  BY <1>1, <1>2

\* A path leads to a directory, or nowhere.
LEMMA ResolveIs ==
  ASSUME Disk \in DiskSet, Base(fat, V), NEW path \in Paths, path # <<>>
  PROVE  resolve_path(path) \in Tree(fat, V) \cup {NotFound}
<1> DEFINE Solves(w) == w = [k \in 1 .. Len(path) |->
                               IF k = 1 THEN ROOT ELSE Descend(w[k - 1], To83[path[k - 1]])]
           W == CHOOSE w : Solves(w)
<1>1. PICK S : S = Tree(fat, V) \cup {NotFound}
  OBVIOUS
<1>2. PICK n : n = Len(path)
  OBVIOUS
<1>3. n \in Nat /\ n >= 1
  <2>1. path \in Seq(Names)
    BY Fat12Assumption
  <2> QED  BY <1>2, <2>1, LenProperties, EmptySeq
<1>4. ROOT \in S
  BY <1>1, TreeClosed
<1>5. \E w \in [1 .. n -> S] : Solves(w)
  <2> DEFINE step == [y \in S \X Nat |-> Descend(y[1], To83[path[y[2]]])]
  <2>1. \A y \in S, k \in Nat : Descend(y, To83[path[k]]) \in S
    BY <1>1, DescendIs
  <2>2. step \in [S \X Nat -> S] /\ \A y \in S, k \in Nat : step[<<y, k>>] = Descend(y, To83[path[k]])
    BY <2>1
  <2>3. n - 1 \in Nat
    BY <1>3
  <2>4. \E h : Runs(S, ROOT, step, n - 1, h)
    <3> HIDE DEF step
    <3> QED  BY <1>4, <2>2, <2>3, Loop
  <2>5. PICK h : Runs(S, ROOT, step, n - 1, h)
    BY <2>4
  <2>6. h \in [0 .. n - 1 -> S] /\ h[0] = ROOT /\ \A k \in 1 .. n - 1 : h[k] = step[<<h[k - 1], k>>]
    <3> HIDE DEF step
    <3> QED  BY <2>5 DEF Runs
  <2> HIDE DEF step
  <2>7. PICK w : w = [k \in 1 .. n |-> h[k - 1]]
    OBVIOUS
  <2>8. w \in [1 .. n -> S]
    BY <1>3, <2>6, <2>7
  <2>9. ASSUME NEW k \in 1 .. n
        PROVE  w[k] = IF k = 1 THEN ROOT ELSE Descend(w[k - 1], To83[path[k - 1]])
    <3>1. CASE k = 1
      BY <1>3, <2>6, <2>7, <3>1
    <3>2. CASE k # 1
      <4>1. PICK j : j = k - 1
        OBVIOUS
      <4>2. j \in 1 .. n - 1 /\ j \in 1 .. n /\ j \in Nat /\ j - 1 \in 0 .. n - 1
        BY <1>3, <3>2, <4>1
      <4>3. w[k] = h[j] /\ w[j] = h[j - 1] /\ h[j - 1] \in S
        BY <2>6, <2>7, <4>1, <4>2
      <4>4. h[j] = Descend(h[j - 1], To83[path[j]])
        BY <2>2, <2>6, <4>2, <4>3
      <4> QED  BY <3>2, <4>1, <4>3, <4>4
    <3> QED  BY <3>1, <3>2
  <2>10. Solves(w)
    BY <1>2, <2>7, <2>9
  <2> QED  BY <2>8, <2>10
<1>6. PICK w \in [1 .. n -> S] : Solves(w)
  BY <1>5
<1>7. Solves(W)
  BY <1>6
<1>8. W[n] \in S
  <2>1. PICK z : z = W
    OBVIOUS
  <2>2. Solves(z)
    BY <1>7, <2>1
  <2>3. \A k \in 1 .. n : z[k] = IF k = 1 THEN ROOT ELSE Descend(z[k - 1], To83[path[k - 1]])
    BY <1>2, <2>2
  <2> HIDE DEF W, Solves
  <2> DEFINE T == {k \in 1 .. n : z[k] \notin S}
  <2>4. T = {}
    <3>1. SUFFICES ASSUME T # {} PROVE FALSE
      OBVIOUS
    <3>2. T \in SUBSET Nat
      BY <1>3
    <3>3. PICK k \in T : \A m \in T : k <= m
      BY <3>1, <3>2, Least
    <3>4. k # 1
      BY <1>3, <1>4, <2>3, <3>3
    <3>5. PICK j : j = k - 1
      OBVIOUS
    <3>6. j \in 1 .. n /\ j \notin T
      BY <1>3, <3>2, <3>3, <3>4, <3>5
    <3>7. z[j] \in S
      BY <3>6
    <3>8. z[k] = Descend(z[j], To83[path[j]])
      BY <2>3, <3>3, <3>4, <3>5
    <3>9. z[k] \in S
      BY <1>1, <3>7, <3>8, DescendIs
    <3> QED  BY <3>3, <3>9
  <2>5. n \in 1 .. n
    BY <1>3
  <2>6. z[n] \in S
    BY <2>4, <2>5
  <2> QED  BY <2>1, <2>6
<1>9. resolve_path(path) = W[n]
  BY <1>2 DEF resolve_path
<1> QED  BY <1>1, <1>8, <1>9

\* Where a path leads: to an entry, or to a directory that has no entry of that
\* name.
LEMMA LookupIs ==
  ASSUME Disk \in DiskSet, Base(fat, V), NEW path \in Paths, NEW l, l = Lookup(path), l.ok
  PROVE  /\ path # <<>> /\ NameOf(path) \in Names83
         /\ l.dc \in Tree(fat, V) /\ l.dc \in Dirs(fat, V) /\ l.dc \in DirIds
         /\ Hit(l) => /\ l.idx \in Nat /\ l.idx \in Visible(fat, V, l.dc) /\ l.idx \in Slots(fat, l.dc)
                      /\ V[PlaceOf(fat, l.dc, l.idx)].name = NameOf(path)
                      /\ Entry(l.dc, l.idx) = V[PlaceOf(fat, l.dc, l.idx)]
         /\ Miss(l) => \A j \in Visible(fat, V, l.dc) : V[PlaceOf(fat, l.dc, j)].name # NameOf(path)
<1>1. PICK dc : dc = resolve_path(path)
  OBVIOUS
<1>2. /\ path # <<>> /\ dc # NotFound
      /\ l = [ok |-> TRUE, dc |-> dc, idx |-> find_in_dir(dc, NameOf(path))]
  <2>1. ~(path = <<>> \/ dc = NotFound)
    BY <1>1 DEF Lookup
  <2> QED  BY <1>1, <2>1 DEF Lookup
<1>3. l.dc = dc /\ l.idx = find_in_dir(dc, NameOf(path))
  BY <1>2
<1>4. dc \in Tree(fat, V)
  BY <1>1, <1>2, ResolveIs
<1>5. dc \in Dirs(fat, V) /\ dc \in DirIds
  BY <1>4, TreeInDirs
<1>6. NameOf(path) \in Names83
  <2>1. path \in Seq(Names) /\ To83 \in [Names -> Names83]
    BY Fat12Assumption
  <2>2. Len(path) \in 1 .. Len(path)
    BY <1>2, <2>1, LenProperties, EmptySeq
  <2>3. path[Len(path)] \in Names
    BY <2>1, <2>2, ElementOfSeq
  <2> QED  BY <2>1, <2>3 DEF NameOf
<1>7. PICK i : i = find_in_dir(dc, NameOf(path))
  OBVIOUS
<1>8. \/ /\ i # NotFound /\ i \in Nat /\ i \in Visible(fat, V, dc) /\ i \in Slots(fat, dc)
         /\ V[PlaceOf(fat, dc, i)].name = NameOf(path) /\ Entry(dc, i) = V[PlaceOf(fat, dc, i)]
      \/ i = NotFound /\ \A j \in Visible(fat, V, dc) : V[PlaceOf(fat, dc, j)].name # NameOf(path)
  BY <1>5, <1>7, FindIs
<1> QED  BY <1>2, <1>3, <1>4, <1>5, <1>6, <1>7, <1>8 DEF Hit, Miss

-----------------------------------------------------------------------------
\* The steps of a call.

\* fat_alloc finds a free cluster, if there is one.
LEMMA AllocIs ==
  ASSUME NEW d \in DiskSet, NEW c, c = fat_alloc(d), c # 0
  PROVE  c \in Cluster /\ d.fat[c] = FREE
<1>1. FreeClusters(d) # {} /\ c = Min(FreeClusters(d))
  BY DEF fat_alloc
<1>2. FreeClusters(d) \in SUBSET Nat
  BY Numbers DEF FreeClusters
<1>3. c \in FreeClusters(d)
  BY <1>1, <1>2, MinIs
<1> QED  BY <1>3 DEF FreeClusters

\* Claiming a free cluster gives a zeroed chain of one cluster that nobody has.
LEMMA ClaimInv ==
  ASSUME NEW d, NEW g, DiskInv(d, g), NEW c \in Cluster, d.fat[c] = FREE,
         NEW e, e = Claim(d, c)
  PROVE  /\ DiskInv(e, g) /\ Grows(d.fat, View(d), e.fat, View(e))
         /\ Unowned(e.fat, View(e), g, c) /\ e.fat[c] = EOC
         /\ \A u \in Unit : View(e)[<<c, u>>] = Zero
<1>1. d \in DiskSet /\ DInv(d.fat, View(d), g)
  BY DEF DiskInv
<1>2. e \in DiskSet /\ e.fat = [d.fat EXCEPT ![c] = EOC] /\ View(e) = Blanked(View(d), c)
  BY <1>1, ViewClaim
<1>3. PICK f, U, f2, U2 : f = d.fat /\ U = View(d) /\ f2 = e.fat /\ U2 = View(e)
  OBVIOUS
<1>4. DInv(f, U, g) /\ f[c] = FREE /\ f2 = [f EXCEPT ![c] = EOC] /\ U2 = Blanked(U, c)
  BY <1>1, <1>2, <1>3
<1>5. DInv(f2, U2, g) /\ Live(f2, U2) = Live(f, U) /\ Grows(f, U, f2, U2)
  <2>1. f2 = Marked(f, c, EOC)
    BY <1>4 DEF Marked
  <2>2. DInv(f, U, g) /\ c \in Cluster /\ f[c] = FREE
    BY <1>4
  <2>3. /\ DInv(f2, Blanked(U, c), g) /\ Live(f2, Blanked(U, c)) = Live(f, U)
        /\ Grows(f, U, f2, Blanked(U, c))
    BY ONLY <2>1, <2>2, Claimed
  <2> QED  BY <1>4, <2>3
<1>6. f \in Table /\ Links(f) /\ U \in [Places -> UnitSet] /\ Base(f, U)
  BY <1>4, DInvBase
<1>7. f2[c] = EOC /\ \A a \in Cluster : a # c => f2[a] = f[a]
  BY <1>4, <1>6 DEF Table
<1>8. \A a \in Cluster : f[a] # c
  BY <1>4, <1>6 DEF Links
<1>9. IsHead(f2, c)
  <2>1. \A a \in Cluster : f2[a] # c
    BY <1>7, <1>8, Numbers
  <2> QED  BY <1>7, <2>1, Numbers DEF IsHead
<1>10. \A q \in Live(f2, U2) : U2[q].first # c
  <2> TAKE q \in Live(f2, U2)
  <2>1. q \in Live(f, U) /\ U2[q] = U[q]
    BY <1>5 DEF Grows
  <2>2. U[q].first # 0 => f[U[q].first] # FREE
    BY <1>4, <2>1, Owned DEF IsHead
  <2> QED  BY <1>4, <2>1, <2>2, Numbers
<1>11. \A x \in Used(g) : g[x].first # c
  <2> TAKE x \in Used(g)
  <2>1. g[x].first # 0 => f[g[x].first] # FREE
    BY <1>4, Owned DEF IsHead
  <2> QED  BY <1>4, <2>1, Numbers
<1>12. Unowned(f2, U2, g, c)
  BY <1>9, <1>10, <1>11 DEF Unowned
<1>13. \A u \in Unit : U2[<<c, u>>] = Zero
  <2>1. \A u \in Unit : <<c, u>> \in Places
    BY DEF Places
  <2> QED  BY <1>4, <2>1 DEF Blanked
<1> QED  BY <1>2, <1>3, <1>5, <1>7, <1>12, <1>13 DEF DiskInv

\* Linking a free cluster to the end of a chain.
LEMMA ExtendInv ==
  ASSUME NEW d, NEW g, DiskInv(d, g), NEW last \in Cluster, d.fat[last] = EOC,
         NEW c \in Cluster, d.fat[c] = FREE, NEW e, e = Extend(d, last, c)
  PROVE  /\ DiskInv(e, g) /\ Grows(d.fat, View(d), e.fat, View(e))
         /\ e.fat[c] = EOC /\ e.fat[last] = c /\ \A a \in Cluster \ {last, c} : e.fat[a] = d.fat[a]
<1>1. d \in DiskSet /\ DInv(d.fat, View(d), g)
  BY DEF DiskInv
<1>2. e \in DiskSet /\ e.fat = [d.fat EXCEPT ![c] = EOC, ![last] = c] /\ View(e) = Blanked(View(d), c)
  BY <1>1, ViewExtend
<1>3. PICK f, U, f2, U2 : f = d.fat /\ U = View(d) /\ f2 = e.fat /\ U2 = View(e)
  OBVIOUS
<1>4. /\ DInv(f, U, g) /\ f[c] = FREE /\ f[last] = EOC
      /\ f2 = [f EXCEPT ![c] = EOC, ![last] = c] /\ U2 = Blanked(U, c)
  BY <1>1, <1>2, <1>3
<1>5. DInv(f2, U2, g) /\ Grows(f, U, f2, U2)
  BY ONLY <1>4, c \in Cluster, last \in Cluster, Extended
<1>6. f \in Table /\ last # c
  BY <1>4, DInvBase, Numbers
<1>7. f2[c] = EOC /\ f2[last] = c /\ \A a \in Cluster \ {last, c} : f2[a] = f[a]
  BY <1>4, <1>6 DEF Table
<1> QED  BY <1>2, <1>3, <1>5, <1>7 DEF DiskInv

\* A disk that stays as it is has grown, by nothing.
LEMMA GrowsRefl ==
  ASSUME NEW f, NEW U, Base(f, U)
  PROVE  Grows(f, U, f, U)
<1>1. f \in Table /\ U \in [Places -> UnitSet] /\ Links(f)
  BY DEF Base
<1>2. \A h \in Cluster : Len(Chain(f, h)) <= Len(Chain(f, h))
  BY <1>1, LenChain DEF DirIds
<1> QED  BY <1>1, <1>2 DEF Grows

\* s.c is cluster k of the chain from h, or there is none.
AtCluster(d, h, k, c) == c = 0 \/ (k \in 1 .. Len(Chain(d.fat, h)) /\ c = Chain(d.fat, h)[k])

\* Going on to the next cluster of a chain, which may be a new one.
LEMMA FollowInv ==
  ASSUME NEW d, NEW g, DiskInv(d, g), NEW h, IsHead(d.fat, h), NEW k \in Nat,
         NEW c, c # 0, AtCluster(d, h, k, c), NEW r, r = Follow(d, c)
  PROVE  /\ DiskInv(r.d, g) /\ Grows(d.fat, View(d), r.d.fat, View(r.d))
         /\ AtCluster(r.d, h, k + 1, r.c)
<1>1. d \in DiskSet /\ DInv(d.fat, View(d), g) /\ d.fat \in Table /\ Links(d.fat) /\ Base(d.fat, View(d))
  BY DInvBase DEF DiskInv
<1>2. PICK s : s = Chain(d.fat, h)
  OBVIOUS
<1>3. PICK n : n = Len(s)
  OBVIOUS
<1>4. /\ n \in Nat /\ n >= 1 /\ n <= CLUSTERS /\ s \in Seq(Cluster) /\ DOMAIN s = 1 .. n
      /\ \A i \in 1 .. n : s[i] \in Cluster /\ d.fat[s[i]] # FREE
      /\ \A i \in 1 .. n - 1 : s[i + 1] = d.fat[s[i]]
      /\ d.fat[s[n]] = EOC
  BY <1>1, <1>2, <1>3, HeadChain DEF GoodChain
<1>5. k \in 1 .. n /\ c = s[k] /\ c \in Cluster
  BY <1>2, <1>3, <1>4 DEF AtCluster
<1>6. CASE k < n
  <2>1. k \in 1 .. n - 1 /\ k + 1 \in 1 .. n
    BY <1>4, <1>5, <1>6
  <2>2. d.fat[c] = s[k + 1] /\ s[k + 1] \in Cluster
    BY <1>4, <1>5, <2>1
  <2>3. d.fat[c] # EOC
    BY <2>2, Numbers
  <2>4. r = [d |-> d, c |-> d.fat[c]]
    BY <2>3 DEF Follow
  <2>5. r.d = d /\ r.c = s[k + 1]
    BY <2>2, <2>4
  <2>6. AtCluster(r.d, h, k + 1, r.c)
    BY <1>2, <1>3, <2>1, <2>5 DEF AtCluster
  <2> QED  BY <1>1, <2>5, <2>6, GrowsRefl
<1>7. CASE k = n
  <2>1. d.fat[c] = EOC
    BY <1>4, <1>5, <1>7
  <2>2. PICK new : new = fat_alloc(d)
    OBVIOUS
  <2>3. CASE new = 0
    <3>1. r = [d |-> d, c |-> 0]
      BY <2>1, <2>2, <2>3 DEF Follow
    <3>2. r.d = d /\ r.c = 0
      BY <3>1
    <3> QED  BY <1>1, <3>2, GrowsRefl DEF AtCluster
  <2>4. CASE new # 0
    <3>1. new \in Cluster /\ d.fat[new] = FREE
      BY <1>1, <2>2, <2>4, AllocIs
    <3>2. PICK e : e = Extend(d, c, new)
      OBVIOUS
    <3>3. r = [d |-> e, c |-> new]
      BY <2>1, <2>2, <2>4, <3>2 DEF Follow
    <3>4. r.d = e /\ r.c = new
      BY <3>3
    <3>5. /\ DiskInv(e, g) /\ Grows(d.fat, View(d), e.fat, View(e))
          /\ e.fat[new] = EOC /\ e.fat[c] = new /\ \A a \in Cluster \ {c, new} : e.fat[a] = d.fat[a]
      BY <1>5, <2>1, <3>1, <3>2, ExtendInv
    <3>6. e.fat \in Table
      BY <3>5, DiskFields DEF DiskInv
    <3>7. c \in InChain(d.fat, h)
      BY <1>2, <1>4, <1>5 DEF InChain
    <3>8. Chain(e.fat, h) = Append(s, new)
      BY <1>1, <1>2, <2>1, <3>1, <3>5, <3>6, <3>7, LongerChain
    <3>9. Len(Append(s, new)) = n + 1 /\ Append(s, new)[n + 1] = new
      BY <1>3, <1>4, <3>1, AppendProperties
    <3>10. k + 1 \in 1 .. n + 1
      BY <1>4, <1>7
    <3>11. AtCluster(e, h, k + 1, new)
      BY <1>7, <3>8, <3>9, <3>10 DEF AtCluster
    <3> QED  BY <3>4, <3>5, <3>11
  <2> QED  BY <2>3, <2>4
<1> QED  BY <1>4, <1>5, <1>6, <1>7

\* Follow, whatever the disk.
LEMMA FollowType ==
  ASSUME NEW d \in DiskSet, NEW c \in Cluster
  PROVE  Follow(d, c) \in [d : DiskSet, c : Cluster \cup {0}]
<1>1. d.fat[c] \in Cluster \cup {FREE, EOC} /\ FREE = 0
  BY DiskFields, Numbers DEF Table
<1>2. PICK new : new = fat_alloc(d)
  OBVIOUS
<1>3. new # 0 => new \in Cluster /\ Extend(d, c, new) \in DiskSet
  BY <1>2, AllocIs, ViewExtend
<1> QED  BY <1>1, <1>2, <1>3 DEF Follow

\* The loop that finds the cluster of the position.
LEMMA SkipInv ==
  ASSUME NEW d, NEW g, DiskInv(d, g), NEW x \in Used(g), g[x].first # 0, NEW n \in Nat,
         NEW r, r = Skip(d, g[x].first, n)
  PROVE  /\ DiskInv(r.d, g) /\ AtCluster(r.d, g[x].first, n + 1, r.c)
         /\ r \in [d : DiskSet, c : Cluster \cup {0}]
<1>1. PICK h : h = g[x].first
  OBVIOUS
<1> DEFINE S == [d : DiskSet, c : Cluster \cup {0}]
           Solves(w) == w = [k \in 0 .. n |-> IF k = 0 THEN [d |-> d, c |-> h] ELSE Skipped(w[k - 1])]
           W == CHOOSE w : Solves(w)
<1>2. d \in DiskSet /\ h \in Cluster /\ h # 0
  BY <1>1, Owned DEF DiskInv
<1>3. PICK b : b = [d |-> d, c |-> h]
  OBVIOUS
<1>4. b \in S /\ b.d = d /\ b.c = h
  BY <1>2, <1>3
<1>5. ASSUME NEW s \in S PROVE Skipped(s) \in S
  <2>1. s.d \in DiskSet /\ s.c \in Cluster \cup {0}
    OBVIOUS
  <2> QED  BY <2>1, FollowType DEF Skipped
<1>6. \E w : Solves(w)
  <2> DEFINE step == [y \in S \X Nat |-> Skipped(y[1])]
  <2>1. step \in [S \X Nat -> S] /\ \A s \in S, k \in Nat : step[<<s, k>>] = Skipped(s)
    BY <1>5
  <2>2. PICK w : Runs(S, b, step, n, w)
    <3> HIDE DEF step, S
    <3> QED  BY <1>4, <2>1, Loop
  <2>3. w \in [0 .. n -> S] /\ w[0] = b /\ \A k \in 1 .. n : w[k] = step[<<w[k - 1], k>>]
    <3> HIDE DEF step, S
    <3> QED  BY <2>2 DEF Runs
  <2> HIDE DEF step, S
  <2>4. ASSUME NEW k \in 1 .. n PROVE w[k] = Skipped(w[k - 1])
    <3>1. k - 1 \in 0 .. n /\ k \in Nat
      OBVIOUS
    <3>2. w[k - 1] \in S
      BY <2>3, <3>1
    <3> QED  BY <2>1, <2>3, <3>1, <3>2
  <2>5. \A k \in 0 .. n : w[k] = IF k = 0 THEN [d |-> d, c |-> h] ELSE Skipped(w[k - 1])
    BY <1>3, <2>3, <2>4
  <2>6. Solves(w)
    BY <2>3, <2>5
  <2> QED  BY <2>6
<1>7. Solves(W)
  BY <1>6
<1>8. PICK w : w = W
  OBVIOUS
<1>9. w[0] = b /\ \A k \in 1 .. n : w[k] = Skipped(w[k - 1])
  <2>1. Solves(w)
    BY <1>7, <1>8
  <2>2. \A k \in 0 .. n : w[k] = IF k = 0 THEN [d |-> d, c |-> h] ELSE Skipped(w[k - 1])
    BY <2>1
  <2>3. 0 \in 0 .. n /\ \A k \in 1 .. n : k \in 0 .. n /\ k # 0
    OBVIOUS
  <2> QED  BY <1>3, <2>2, <2>3
<1>10. r = w[n]
  BY <1>1, <1>8 DEF Skip
<1> HIDE DEF W, Solves, S
<1> DEFINE Good(k) == DiskInv(w[k].d, g) /\ AtCluster(w[k].d, h, k + 1, w[k].c) /\ w[k] \in S
           T == {k \in 0 .. n : ~Good(k)}
<1>11. Good(0)
  <2>1. IsHead(d.fat, h)
    BY <1>1, Owned DEF DiskInv
  <2>2. GoodChain(d.fat, h, Chain(d.fat, h))
    BY <2>1, HeadChain, DInvBase DEF DiskInv
  <2>3. 1 \in 1 .. Len(Chain(d.fat, h)) /\ h = Chain(d.fat, h)[1] /\ 0 + 1 = 1
    BY <2>2 DEF GoodChain
  <2> QED  BY <1>2, <1>4, <1>9, <2>3 DEF AtCluster
<1>12. ASSUME NEW k \in 1 .. n, Good(k - 1) PROVE Good(k)
  <2>1. PICK s, j : s = w[k - 1] /\ j = k - 1
    OBVIOUS
  <2>2. j \in Nat /\ k = j + 1 /\ k \in Nat
    BY <2>1
  <2>3. DiskInv(s.d, g) /\ AtCluster(s.d, h, k, s.c) /\ s \in S /\ w[k] = Skipped(s)
    BY <1>9, <1>12, <2>1, <2>2
  <2>6. w[k] \in S
    BY <1>5, <2>3
  <2>4. CASE s.c = 0
    BY <2>3, <2>4, <2>6 DEF Skipped, AtCluster
  <2>5. CASE s.c # 0
    <3>1. w[k] = Follow(s.d, s.c)
      BY <2>3, <2>5 DEF Skipped
    <3>2. IsHead(s.d.fat, h)
      BY <1>1, <1>2, <2>3, Owned DEF DiskInv
    <3>3. DiskInv(w[k].d, g) /\ AtCluster(w[k].d, h, k + 1, w[k].c)
      BY <2>2, <2>3, <2>5, <3>1, <3>2, FollowInv
    <3> QED  BY <2>6, <3>3
  <2> QED  BY <2>4, <2>5
<1>13. T = {}
  <2>1. SUFFICES ASSUME T # {} PROVE FALSE
    OBVIOUS
  <2>2. T \in SUBSET Nat
    OBVIOUS
  <2>3. PICK k \in T : \A m \in T : k <= m
    BY <2>1, <2>2, Least
  <2> HIDE DEF Good
  <2>4. k # 0
    BY <1>11, <2>3
  <2>5. k \in 1 .. n /\ k - 1 \in 0 .. n /\ k - 1 \notin T
    BY <2>2, <2>3, <2>4
  <2> QED  BY <1>12, <2>3, <2>5
<1>14. Good(n)
  <2> HIDE DEF Good
  <2>1. n \in 0 .. n
    OBVIOUS
  <2> QED  BY <1>13, <2>1
<1> QED  BY <1>1, <1>10, <1>14 DEF S

\* The states of the loop that writes.
WriteSet == [d : DiskSet, c : Cluster \cup {0}, off : Unit, left : Nat, done : Nat]

\* What one round of the loop takes.
Take(w) == Min({w.left, UNITS - w.off})

\* At least nothing, at most what is left and what the cluster has room for.
LEMMA TakeIs ==
  ASSUME NEW w \in WriteSet
  PROVE  /\ Take(w) \in Nat /\ Take(w) <= w.left /\ w.off + Take(w) <= UNITS
         /\ Take(w) = w.left \/ w.off + Take(w) = UNITS
         /\ w.off \in Nat /\ w.left \in Nat /\ w.done \in Nat /\ w.left - Take(w) \in Nat /\ w.done + Take(w) \in Nat
<1>1. PICK a, b : a = w.left /\ b = UNITS - w.off
  OBVIOUS
<1>2. w.off \in Nat /\ w.off < UNITS /\ a \in Nat /\ b \in Nat /\ w.done \in Nat /\ UNITS \in Nat
  BY <1>1, Numbers DEF WriteSet
<1>3. {a, b} \in SUBSET Nat /\ {a, b} # {}
  BY <1>2
<1>4. PICK t : t = Take(w)
  OBVIOUS
<1>5. t \in {a, b} /\ \A m \in {a, b} : t <= m
  BY <1>1, <1>3, <1>4, MinIs DEF Take
<1> QED  BY <1>1, <1>2, <1>4, <1>5

\* One round, whatever the disk.
LEMMA WrittenType ==
  ASSUME NEW w \in WriteSet, NEW v \in Values
  PROVE  Written(w, v) \in WriteSet
<1>1. CASE w.left = 0 \/ w.c = 0
  BY <1>1 DEF Written
<1>2. CASE ~(w.left = 0 \/ w.c = 0)
  <2>1. w.d \in DiskSet /\ w.c \in Cluster
    BY <1>2 DEF WriteSet
  <2>2. PICK t : t = Take(w)
    OBVIOUS
  <2>3. w.left - t \in Nat /\ w.done + t \in Nat
    BY <2>2, TakeIs
  <2>4. PICK put : put = Put(w.d, w.c, w.off, t, v)
    OBVIOUS
  <2>5. put \in DiskSet
    BY <2>1, <2>4, ViewPut
  <2>6. PICK next : next = IF t = w.left THEN [d |-> put, c |-> w.c] ELSE Follow(put, w.c)
    OBVIOUS
  <2>7. next \in [d : DiskSet, c : Cluster \cup {0}]
    BY <2>1, <2>5, <2>6, FollowType
  <2>8. Written(w, v) = [d |-> next.d, c |-> next.c, off |-> 0, left |-> w.left - t, done |-> w.done + t]
    BY <1>2, <2>2, <2>4, <2>6 DEF Written, Take
  <2>9. 0 \in Unit
    BY Numbers
  <2> QED  BY <2>3, <2>7, <2>8, <2>9 DEF WriteSet
<1> QED  BY <1>1, <1>2

\* The writing has got to the end of the chain, or is at its position in it.
Writing(w, g, h, pos) ==
  /\ w \in WriteSet /\ DiskInv(w.d, g) /\ pos + w.done <= Room(w.d.fat, h)
  /\ w.left # 0 /\ w.c # 0 =>
       \E q \in Nat : AtCluster(w.d, h, q + 1, w.c) /\ UNITS * q + w.off = pos + w.done

\* One round of writing.
LEMMA WrittenInv ==
  ASSUME NEW w, NEW g, NEW x \in Used(g), g[x].first # 0, NEW pos \in Nat, NEW v \in Values,
         Writing(w, g, g[x].first, pos), NEW r, r = Written(w, v)
  PROVE  Writing(r, g, g[x].first, pos)
<1>1. PICK h : h = g[x].first
  OBVIOUS
<1>2. w \in WriteSet /\ DiskInv(w.d, g) /\ r \in WriteSet
  BY WrittenType DEF Writing
<1>3. CASE w.left = 0 \/ w.c = 0
  BY <1>3 DEF Written
<1>4. CASE ~(w.left = 0 \/ w.c = 0)
  <2>1. w.d \in DiskSet /\ w.c \in Cluster /\ w.c # 0
    BY <1>2, <1>4 DEF WriteSet
  <2>2. PICK q \in Nat : AtCluster(w.d, h, q + 1, w.c) /\ UNITS * q + w.off = pos + w.done
    BY <1>1, <1>4 DEF Writing
  <2>3. PICK t : t = Take(w)
    OBVIOUS
  <2>4. /\ t \in Nat /\ t <= w.left /\ w.off + t <= UNITS /\ (t = w.left \/ w.off + t = UNITS)
        /\ w.off \in Nat /\ w.left \in Nat /\ w.done \in Nat
    BY <1>2, <2>3, TakeIs
  <2>5. PICK put : put = Put(w.d, w.c, w.off, t, v)
    OBVIOUS
  <2>6. put \in DiskSet /\ put.fat = w.d.fat /\ View(put) = Filled(View(w.d), w.c, w.off .. w.off + t - 1, v)
    BY <2>1, <2>5, ViewPut
  <2>7. IsHead(w.d.fat, h) /\ w.d.fat \in Table /\ Links(w.d.fat)
    BY <1>1, <1>2, Owned, DInvBase DEF DiskInv
  <2>8. w.c \in InChain(w.d.fat, h) /\ q + 1 \in 1 .. Len(Chain(w.d.fat, h))
    <3>1. q + 1 \in 1 .. Len(Chain(w.d.fat, h)) /\ w.c = Chain(w.d.fat, h)[q + 1]
      BY <2>1, <2>2 DEF AtCluster
    <3>2. DOMAIN Chain(w.d.fat, h) = 1 .. Len(Chain(w.d.fat, h))
      BY <2>7, HeadChain DEF GoodChain
    <3> QED  BY <3>1, <3>2 DEF InChain
  <2>9. DiskInv(put, g)
    <3>1. PICK f, U, W : f = w.d.fat /\ U = View(w.d) /\ W = w.off .. w.off + t - 1
      OBVIOUS
    <3>2. DInv(f, U, g) /\ w.c \in InChain(f, g[x].first)
      BY <1>1, <1>2, <2>8, <3>1 DEF DiskInv
    <3>3. DInv(f, Filled(U, w.c, W, v), g)
      BY <3>2, FilledIn
    <3> QED  BY <2>6, <3>1, <3>3 DEF DiskInv
  <2>10. AtCluster(put, h, q + 1, w.c)
    BY <2>2, <2>6 DEF AtCluster
  <2>11. pos + (w.done + t) <= Room(put.fat, h) /\ Room(put.fat, h) \in Nat
    <3>1. PICK n : n = Len(Chain(w.d.fat, h))
      OBVIOUS
    <3>2. n \in Nat /\ q + 1 <= n /\ q + 1 \in Nat
      BY <2>7, <2>8, <3>1, HeadChain DEF GoodChain
    <3>3. UNITS * (q + 1) <= UNITS * n
      BY <3>2, TimesMono
    <3>4. UNITS * (q + 1) = UNITS * q + UNITS /\ UNITS * q \in Nat /\ UNITS * n \in Nat /\ UNITS \in Nat
      BY <3>2, Numbers
    <3>5. Room(put.fat, h) = UNITS * n
      BY <2>6, <3>1 DEF Room
    <3> QED  BY <2>2, <2>4, <3>3, <3>4, <3>5
  <2>12. PICK next : next = IF t = w.left THEN [d |-> put, c |-> w.c] ELSE Follow(put, w.c)
    OBVIOUS
  <2>13. r = [d |-> next.d, c |-> next.c, off |-> 0, left |-> w.left - t, done |-> w.done + t]
    BY <1>4, <2>3, <2>5, <2>12 DEF Written, Take
  <2>14. r.d = next.d /\ r.c = next.c /\ r.off = 0 /\ r.left = w.left - t /\ r.done = w.done + t
    BY <2>13
  <2>15. CASE t = w.left
    <3>1. r.d = put /\ r.left = 0
      BY <2>4, <2>12, <2>14, <2>15
    <3> QED  BY <1>1, <1>2, <2>9, <2>11, <2>14, <3>1 DEF Writing
  <2>16. CASE t # w.left
    <3>1. next = Follow(put, w.c)
      BY <2>12, <2>16
    <3>2. IsHead(put.fat, h)
      BY <2>6, <2>7
    <3>3. /\ DiskInv(next.d, g) /\ Grows(put.fat, View(put), next.d.fat, View(next.d))
          /\ AtCluster(next.d, h, (q + 1) + 1, next.c)
      BY <2>1, <2>9, <2>10, <3>1, <3>2, FollowInv
    <3>4. Room(put.fat, h) <= Room(next.d.fat, h) /\ Room(next.d.fat, h) \in Nat
      <4>1. put.fat \in Table /\ Links(put.fat) /\ h \in Cluster
        BY <2>6, <2>7 DEF IsHead
      <4> QED  BY <3>2, <3>3, <4>1, GrownRoom
    <3>5. pos + r.done <= Room(r.d.fat, h)
      BY <2>4, <2>11, <2>14, <3>4
    <3>6. UNITS * (q + 1) + r.off = pos + r.done
      <4>1. UNITS * (q + 1) = UNITS * q + UNITS /\ UNITS * q \in Nat /\ UNITS \in Nat
        BY Numbers
      <4> QED  BY <2>2, <2>4, <2>14, <2>16, <4>1
    <3>7. q + 1 \in Nat /\ AtCluster(r.d, h, (q + 1) + 1, r.c) /\ DiskInv(r.d, g)
      BY <2>14, <3>3
    <3> QED  BY <1>1, <1>2, <3>5, <3>6, <3>7 DEF Writing
  <2> QED  BY <2>15, <2>16
<1> QED  BY <1>3, <1>4

\* The loop that writes.
LEMMA WriteInv ==
  ASSUME NEW s \in [d : DiskSet, c : Cluster \cup {0}], NEW g, DiskInv(s.d, g), NEW x \in Used(g),
         g[x].first # 0, NEW pos \in Nat, pos <= Room(s.d.fat, g[x].first),
         AtCluster(s.d, g[x].first, pos \div UNITS + 1, s.c),
         NEW n \in Nat, NEW v \in Values, NEW r, r = Write(s, pos % UNITS, n, v)
  PROVE  /\ DiskInv(r.d, g) /\ r.done \in Nat /\ pos + r.done <= Room(r.d.fat, g[x].first)
<1>1. PICK h : h = g[x].first
  OBVIOUS
<1>2. PICK off : off = pos % UNITS
  OBVIOUS
<1> DEFINE Solves(w) ==
             w = [k \in 0 .. n |-> IF k = 0 THEN [d |-> s.d, c |-> s.c, off |-> off, left |-> n, done |-> 0]
                                   ELSE Written(w[k - 1], v)]
           W == CHOOSE w : Solves(w)
<1>3. PICK b : b = [d |-> s.d, c |-> s.c, off |-> off, left |-> n, done |-> 0]
  OBVIOUS
<1>4. b \in WriteSet /\ b.d = s.d /\ b.c = s.c /\ b.off = off /\ b.done = 0
  BY <1>2, <1>3, DivMod DEF WriteSet
<1>5. \E w : Solves(w)
  <2> DEFINE step == [y \in WriteSet \X Nat |-> Written(y[1], v)]
  <2>1. step \in [WriteSet \X Nat -> WriteSet] /\ \A y \in WriteSet, k \in Nat : step[<<y, k>>] = Written(y, v)
    BY WrittenType
  <2>2. PICK w : Runs(WriteSet, b, step, n, w)
    <3> HIDE DEF step
    <3> QED  BY <1>4, <2>1, Loop
  <2>3. w \in [0 .. n -> WriteSet] /\ w[0] = b /\ \A k \in 1 .. n : w[k] = step[<<w[k - 1], k>>]
    <3> HIDE DEF step
    <3> QED  BY <2>2 DEF Runs
  <2> HIDE DEF step
  <2>4. ASSUME NEW k \in 1 .. n PROVE w[k] = Written(w[k - 1], v)
    <3>1. k - 1 \in 0 .. n /\ k \in Nat
      OBVIOUS
    <3>2. w[k - 1] \in WriteSet
      BY <2>3, <3>1
    <3> QED  BY <2>1, <2>3, <3>1, <3>2
  <2>5. \A k \in 0 .. n : w[k] = IF k = 0 THEN [d |-> s.d, c |-> s.c, off |-> off, left |-> n, done |-> 0]
                                 ELSE Written(w[k - 1], v)
    BY <1>3, <2>3, <2>4
  <2>6. Solves(w)
    BY <2>3, <2>5
  <2> QED  BY <2>6
<1>6. Solves(W)
  BY <1>5
<1>7. PICK w : w = W
  OBVIOUS
<1>8. w[0] = b /\ \A k \in 1 .. n : w[k] = Written(w[k - 1], v)
  <2>1. Solves(w)
    BY <1>6, <1>7
  <2>2. \A k \in 0 .. n : w[k] = IF k = 0 THEN [d |-> s.d, c |-> s.c, off |-> off, left |-> n, done |-> 0]
                                 ELSE Written(w[k - 1], v)
    BY <2>1
  <2>3. 0 \in 0 .. n /\ \A k \in 1 .. n : k \in 0 .. n /\ k # 0
    OBVIOUS
  <2> QED  BY <1>3, <2>2, <2>3
<1>9. r = w[n]
  BY <1>2, <1>7 DEF Write
<1> HIDE DEF W, Solves
<1>10. Writing(w[0], g, h, pos)
  <2>1. PICK q : q = pos \div UNITS
    OBVIOUS
  <2>2. q \in Nat /\ pos = UNITS * q + off
    BY <1>2, <2>1, DivMod
  <2>3. AtCluster(b.d, h, q + 1, b.c) /\ UNITS * q + b.off = pos + b.done /\ pos + b.done <= Room(b.d.fat, h)
    BY <1>1, <1>4, <2>1, <2>2
  <2> QED  BY <1>1, <1>4, <1>8, <2>2, <2>3 DEF Writing
<1> DEFINE T == {k \in 0 .. n : ~Writing(w[k], g, h, pos)}
<1>11. T = {}
  <2>1. SUFFICES ASSUME T # {} PROVE FALSE
    OBVIOUS
  <2>2. T \in SUBSET Nat
    OBVIOUS
  <2>3. PICK k \in T : \A m \in T : k <= m
    BY <2>1, <2>2, Least
  <2>4. k # 0
    BY <1>10, <2>3
  <2>5. k \in 1 .. n /\ k - 1 \in 0 .. n /\ k - 1 \notin T
    BY <2>2, <2>3, <2>4
  <2>6. Writing(w[k - 1], g, h, pos) /\ w[k] = Written(w[k - 1], v)
    BY <1>8, <2>5
  <2>7. Writing(w[k], g, h, pos)
    BY <1>1, <2>6, WrittenInv
  <2> QED  BY <2>3, <2>7
<1>12. Writing(w[n], g, h, pos)
  <2>1. n \in 0 .. n
    OBVIOUS
  <2> QED  BY <1>11, <2>1
<1> QED  BY <1>1, <1>9, <1>12 DEF Writing, WriteSet

\* A directory that got another cluster ends before the index that stands for it.
LEMMA NoSuchSlot ==
  ASSUME NEW d, NEW g, DiskInv(d, g), NEW dc, IsHead(d.fat, dc), dc # ROOT, FitsScan(d.fat, dc),
         NEW last \in InChain(d.fat, dc), d.fat[last] = EOC, NEW new \in Cluster, d.fat[new] = FREE,
         NEW e \in DiskSet, e.fat[new] = EOC, e.fat[last] = new,
         \A c \in Cluster \ {last, new} : e.fat[c] = d.fat[c]
  PROVE  ~InDir(e, dc, SUBDIR_MAX_ENTS)
<1>1. d.fat \in Table /\ Links(d.fat) /\ e.fat \in Table
  BY DInvBase, DiskFields DEF DiskInv
<1>2. PICK s, n : s = Chain(d.fat, dc) /\ n = Len(s)
  OBVIOUS
<1>3. s \in Seq(Cluster) /\ n \in Nat
  BY <1>1, <1>2, HeadChain DEF GoodChain
<1>4. Chain(e.fat, dc) = Append(s, new)
  BY <1>1, <1>2, LongerChain
<1>5. Len(Chain(e.fat, dc)) = n + 1
  BY <1>2, <1>3, <1>4
<1>6. UNITS * (n + 1) <= SUBDIR_MAX_ENTS /\ SUBDIR_MAX_ENTS \in Nat /\ UNITS * (n + 1) \in Nat
  BY <1>2, <1>3, Numbers DEF FitsScan, SUBDIR_MAX_ENTS
<1>7. ~(SUBDIR_MAX_ENTS < UNITS * (n + 1))
  BY <1>6
<1> QED  BY <1>5, <1>7 DEF InDir

\* alloc_dir_entry returns the first unused slot, or an index that is none.
LEMMA AllocEntry ==
  ASSUME NEW g, DiskInv(Disk, g), NEW d, DiskInv(d, g), Grows(fat, V, d.fat, View(d)),
         NEW dc \in Dirs(fat, V), FitsScan(d.fat, dc), NEW a, a = alloc_dir_entry(d, dc), HasSlot(a)
  PROVE  \/ /\ a.d = d /\ a.idx \in Slots(d.fat, dc)
            /\ View(d)[PlaceOf(d.fat, dc, a.idx)].k # "ent"
            /\ \A j \in Slots(d.fat, dc) : j < a.idx => View(d)[PlaceOf(d.fat, dc, j)].k = "ent"
         \/ DiskInv(a.d, g) /\ ~InDir(a.d, dc, a.idx)
<1>1. Disk \in DiskSet /\ DInv(fat, V, g) /\ Base(fat, V) /\ fat \in Table
  BY DInvBase DEF DiskInv, Disk, V
<1>2. dc \in DirIds
  BY <1>1, DirHeads
<1>3. CASE Vacant(dc) # {}
  <2>1. Vacant(dc) = {i \in Slots(fat, dc) : V[PlaceOf(fat, dc, i)].k # "ent"}
    BY <1>1, <1>2, UnitsAre DEF Vacant
  <2>2. Vacant(dc) \in SUBSET Nat
    BY <1>1, <1>2, <2>1, LenChain
  <2>3. PICK i : i = Min(Vacant(dc))
    OBVIOUS
  <2>4. i \in Vacant(dc) /\ \A m \in Vacant(dc) : i <= m
    BY <1>3, <2>2, <2>3, MinIs
  <2>5. a.d = d /\ a.idx = i
    BY <1>3, <2>3 DEF alloc_dir_entry
  <2>6. i \in Slots(fat, dc) /\ i \in Nat /\ V[PlaceOf(fat, dc, i)].k # "ent"
    BY <2>1, <2>2, <2>4
  <2>7. i \in Slots(d.fat, dc) /\ View(d)[PlaceOf(d.fat, dc, i)] = V[PlaceOf(fat, dc, i)]
    BY <1>1, <2>6, GrownSlots
  <2>8. ASSUME NEW j \in Slots(d.fat, dc), j < i PROVE View(d)[PlaceOf(d.fat, dc, j)].k = "ent"
    <3>1. DirLen(fat, dc) \in Nat /\ DirLen(d.fat, dc) \in Nat
      BY <1>1, GrownSlots
    <3>2. i < DirLen(fat, dc) /\ j \in Nat
      BY <2>6, <3>1 DEF Slots
    <3>3. ~(j >= DirLen(fat, dc))
      BY <2>6, <2>8, <3>1, <3>2
    <3>4. j \in Slots(fat, dc)
      BY <1>1, <3>3, GrownSlots
    <3>5. View(d)[PlaceOf(d.fat, dc, j)] = V[PlaceOf(fat, dc, j)]
      BY <1>1, <3>4, GrownSlots
    <3>6. j \notin Vacant(dc)
      BY <2>4, <2>6, <2>8, <3>2
    <3> QED  BY <2>1, <3>4, <3>5, <3>6
  <2> QED  BY <2>5, <2>6, <2>7, <2>8
<1>4. CASE Vacant(dc) = {}
  <2>1. PICK new, last, e : /\ new = fat_alloc(d) /\ last = Chain(d.fat, dc)[Len(Chain(d.fat, dc))]
                            /\ e = Extend(d, last, new)
    OBVIOUS
  <2>2. dc # ROOT /\ new # 0 /\ a = [d |-> e, idx |-> SUBDIR_MAX_ENTS]
    BY <1>4, <2>1 DEF alloc_dir_entry, HasSlot
  <2>3. a.d = e /\ a.idx = SUBDIR_MAX_ENTS
    BY <2>2
  <2>4. Dirs(d.fat, View(d)) = Dirs(fat, V)
    BY <1>1, GrownBase
  <2>5. DInv(d.fat, View(d), g) /\ Base(d.fat, View(d)) /\ d.fat \in Table /\ Links(d.fat) /\ d \in DiskSet
    BY DInvBase DEF DiskInv
  <2>6. IsHead(d.fat, dc)
    BY <2>2, <2>4, <2>5, DirHeads
  <2>7. last \in Cluster /\ last \in InChain(d.fat, dc) /\ d.fat[last] = EOC
    <3>1. PICK s, n : s = Chain(d.fat, dc) /\ n = Len(s)
      OBVIOUS
    <3>2. /\ n \in Nat /\ n >= 1 /\ d.fat[s[n]] = EOC /\ \A i \in 1 .. n : s[i] \in Cluster
          /\ DOMAIN s = 1 .. n
      BY <2>5, <2>6, <3>1, HeadChain DEF GoodChain
    <3>3. n \in 1 .. n
      BY <3>2
    <3>4. s[n] \in InChain(d.fat, dc)
      BY <3>1, <3>2, <3>3 DEF InChain
    <3> QED  BY <2>1, <3>1, <3>2, <3>3, <3>4
  <2>8. new \in Cluster /\ d.fat[new] = FREE
    BY <2>1, <2>2, <2>5, AllocIs
  <2>9. /\ DiskInv(e, g) /\ e.fat[new] = EOC /\ e.fat[last] = new
        /\ \A c \in Cluster \ {last, new} : e.fat[c] = d.fat[c]
    BY <2>1, <2>7, <2>8, ExtendInv
  <2>10. e \in DiskSet
    BY <2>9 DEF DiskInv
  <2>11. ~InDir(e, dc, SUBDIR_MAX_ENTS)
    BY <2>2, <2>6, <2>7, <2>8, <2>9, <2>10, NoSuchSlot
  <2> QED  BY <2>3, <2>9, <2>11
<1> QED  BY <1>3, <1>4

\* A new entry for a name the directory does not have.
LEMMA NewEntry ==
  ASSUME NEW g, DiskInv(Disk, g), NEW d, DiskInv(d, g), Grows(fat, V, d.fat, View(d)),
         NEW dc \in Dirs(fat, V), FitsScan(d.fat, dc), NEW e, Fresh(d.fat, View(d), g, e),
         \A j \in Visible(fat, V, dc) : V[PlaceOf(fat, dc, j)].name # e.name,
         NEW a, a = alloc_dir_entry(d, dc), HasSlot(a),
         NEW x, x = dir_write_entry(a.d, dc, a.idx, e)
  PROVE  /\ DiskInv(x, g)
         /\ InDir(a.d, dc, a.idx) =>
              /\ a.idx \in Visible(x.fat, View(x), dc) /\ View(x)[PlaceOf(x.fat, dc, a.idx)] = e
              /\ Tree(d.fat, View(d)) \subseteq Tree(x.fat, View(x))
              /\ \A y \in Used(g) : g[y].parent # dc \/ g[y].idx # a.idx
<1>1. Disk \in DiskSet /\ DInv(fat, V, g) /\ Base(fat, V) /\ fat \in Table
  BY DInvBase DEF DiskInv, Disk, V
<1>2. d \in DiskSet /\ DInv(d.fat, View(d), g) /\ Base(d.fat, View(d))
  BY DInvBase DEF DiskInv
<1>3. dc \in Dirs(d.fat, View(d)) /\ dc \in DirIds
  BY <1>1, GrownBase, DirHeads
<1>4. CASE DiskInv(a.d, g) /\ ~InDir(a.d, dc, a.idx)
  BY <1>4 DEF dir_write_entry
<1>5. CASE /\ a.d = d /\ a.idx \in Slots(d.fat, dc)
           /\ View(d)[PlaceOf(d.fat, dc, a.idx)].k # "ent"
           /\ \A j \in Slots(d.fat, dc) : j < a.idx => View(d)[PlaceOf(d.fat, dc, j)].k = "ent"
  <2>1. PICK f, U, i : f = d.fat /\ U = View(d) /\ i = a.idx
    OBVIOUS
  <2>2. e \in UnitSet
    BY DEF Fresh, UnitSet
  <2>3. x \in DiskSet /\ x.fat = f /\ View(x) = PutAt(U, PlaceOf(f, dc, i), e)
    BY <1>2, <1>3, <1>5, <2>1, <2>2, ViewEntry
  <2>4. ASSUME NEW j \in Slots(f, dc), U[PlaceOf(f, dc, j)].k = "ent"
        PROVE  U[PlaceOf(f, dc, j)].name # e.name
    <3>1. j \in Slots(fat, dc)
      <4>1. Zero.k # "ent"
        BY DEF Zero
      <4> QED  BY <1>1, <2>1, <2>4, <4>1, GrownSlots
    <3>2. U[PlaceOf(f, dc, j)] = V[PlaceOf(fat, dc, j)]
      BY <1>1, <2>1, <3>1, GrownSlots
    <3>3. j \in Visible(fat, V, dc)
      BY <1>1, <2>4, <3>1, <3>2, AllVisible
    <3> QED  BY <3>2, <3>3
  <2>5. PICK U2 : U2 = PutAt(U, PlaceOf(f, dc, i), e)
    OBVIOUS
  <2>6. /\ DInv(f, U, g) /\ dc \in Dirs(f, U) /\ i \in Slots(f, dc)
        /\ U[PlaceOf(f, dc, i)].k # "ent"
        /\ \A j \in Slots(f, dc) : j < i => U[PlaceOf(f, dc, j)].k = "ent"
        /\ Fresh(f, U, g, e)
        /\ \A j \in Slots(f, dc) : U[PlaceOf(f, dc, j)].k = "ent" => U[PlaceOf(f, dc, j)].name # e.name
    BY <1>2, <1>3, <1>5, <2>1, <2>4
  <2>7. /\ DInv(f, U2, g) /\ i \in Visible(f, U2, dc) /\ Tree(f, U) \subseteq Tree(f, U2)
        /\ U2[PlaceOf(f, dc, i)] = e
    BY <2>5, <2>6, NewEnt
  <2>8. \A y \in Used(g) : g[y].parent # dc \/ g[y].idx # i
    <3>1. SUFFICES ASSUME NEW y \in Used(g), g[y].parent = dc, g[y].idx = i PROVE FALSE
      OBVIOUS
    <3>2. i \in Visible(f, U, dc)
      BY <2>6, <3>1 DEF DInv, Anchored
    <3> QED  BY <2>6, <3>2 DEF Visible
  <2> QED  BY <2>1, <2>3, <2>5, <2>7, <2>8 DEF DiskInv
<1> QED  BY <1>4, <1>5, AllocEntry

-----------------------------------------------------------------------------
\* The calls.

\* The disk after a call.
LEMMA NextDisk ==
  ASSUME NEW d \in DiskSet, SetDisk(d)
  PROVE  Disk' = d
<1>1. d = [fat |-> d.fat, root |-> d.root, data |-> d.data]
  BY DEF DiskSet
<1> QED  BY <1>1 DEF SetDisk, Disk

\* The invariant after a call.
LEMMA NextInv ==
  ASSUME NEW d, NEW g, DiskInv(d, g), Disk' = d, g_fds' = g, orphans' \subseteq Cluster
  PROVE  Inv'
<1>1. DiskInv(Disk', g_fds')
  OBVIOUS
<1>2. DiskInv(Disk, g_fds)'
  BY <1>1
<1> QED  BY <1>2 DEF Inv, Cluster

\* The invariant, and what it says of the disk now.
LEMMA InvNow ==
  ASSUME Inv
  PROVE  /\ DiskInv(Disk, g_fds) /\ Disk \in DiskSet /\ Disk.fat = fat /\ View(Disk) = V
         /\ DInv(fat, V, g_fds) /\ Base(fat, V) /\ fat \in Table /\ V \in [Places -> UnitSet]
         /\ orphans \subseteq Cluster /\ Typed(fat, V, g_fds)
         /\ \A fd \in FDs : Open(fd) <=> fd \in Used(g_fds)
<1>1. DiskInv(Disk, g_fds) /\ orphans \subseteq Cluster
  BY DEF Inv
<1>2. Disk.fat = fat /\ View(Disk) = V
  BY DEF Disk, V
<1>3. Disk \in DiskSet /\ DInv(fat, V, g_fds)
  BY <1>1, <1>2 DEF DiskInv
<1>4. Base(fat, V) /\ fat \in Table /\ V \in [Places -> UnitSet] /\ Typed(fat, V, g_fds)
  BY <1>3, DInvBase
<1>5. \A fd \in FDs : Open(fd) <=> fd \in Used(g_fds)
  BY DEF Open, Used
<1> QED  BY <1>1, <1>2, <1>3, <1>4, <1>5

\* A step that changes no more than the table of open files.
LEMMA SameDisk ==
  ASSUME Inv, NEW g, g_fds' = g, DInv(fat, V, g), UNCHANGED <<fat, root, data>>,
         orphans' \subseteq Cluster
  PROVE  Inv'
<1>1. PICK d : d = Disk
  OBVIOUS
<1>2. Disk' = d
  BY <1>1 DEF Disk
<1>3. DiskInv(d, g)
  BY <1>1, InvNow DEF DiskInv
<1> QED  BY <1>2, <1>3, NextInv

\* fat12_open: the descriptor is the only one on its entry.
LEMMA OpenStep ==
  ASSUME Orderly, Inv, NEW path \in Paths, fat12_open(path)
  PROVE  Inv'
<1>1. PICK l : l = Lookup(path)
  OBVIOUS
<1>2. PICK p : p = PlaceOf(fat, l.dc, l.idx)
  OBVIOUS
<1>3. /\ Hit(l) /\ ~IsDir(l)
      /\ SharedOpen \/ OpenOn(l.dc, l.idx) = {}
      /\ \E fd \in FDs :
           /\ FreeFD(fd)
           /\ g_fds' = [g_fds EXCEPT ![fd] = NewFD(Entry(l.dc, l.idx).first, Entry(l.dc, l.idx).size, l.dc, l.idx)]
      /\ UNCHANGED <<fat, root, data, orphans>>
  BY <1>1 DEF fat12_open
<1>4. PICK x \in FDs :
        /\ FreeFD(x)
        /\ g_fds' = [g_fds EXCEPT ![x] = NewFD(Entry(l.dc, l.idx).first, Entry(l.dc, l.idx).size, l.dc, l.idx)]
  BY <1>3
<1>5. /\ l.dc \in Tree(fat, V) /\ l.idx \in Visible(fat, V, l.dc) /\ Entry(l.dc, l.idx) = V[p]
  BY <1>1, <1>2, <1>3, InvNow, LookupIs DEF Hit
<1>6. ~V[p].dir
  BY <1>3, <1>5 DEF IsDir
<1>7. x \notin Used(g_fds)
  BY <1>4, InvNow DEF FreeFD
<1>8. \A y \in Used(g_fds) : g_fds[y].parent # l.dc \/ g_fds[y].idx # l.idx
  BY <1>3, InvNow DEF OpenOn, Orderly, Used
<1>9. PICK g : g = [g_fds EXCEPT ![x] = NewFD(V[p].first, V[p].size, l.dc, l.idx)]
  OBVIOUS
<1>10. g_fds' = g
  BY <1>4, <1>5, <1>9
<1>11. DInv(fat, V, g)
  BY <1>2, <1>5, <1>6, <1>7, <1>8, <1>9, InvNow, OneMoreFd
<1>12. orphans' \subseteq Cluster
  BY <1>3, InvNow
<1> QED  BY <1>3, <1>10, <1>11, <1>12, SameDisk

\* fat12_read: the position stays within the size.
LEMMA ReadStep ==
  ASSUME Inv, NEW fd \in FDs, NEW n \in Transfers, fat12_read(fd, n)
  PROVE  Inv'
<1>1. PICK r, k : r = g_fds[fd] /\ k = ReadLen(g_fds[fd], n)
  OBVIOUS
<1>2. PICK s : s = [r EXCEPT !.pos = @ + k]
  OBVIOUS
<1>3. fd \in Used(g_fds) /\ g_fds' = [g_fds EXCEPT ![fd] = s] /\ UNCHANGED <<fat, root, data, orphans>>
  BY <1>1, <1>2, InvNow DEF fat12_read, Typed
<1>4. r \in FDSet /\ r.size \in Nat /\ r.pos \in Nat /\ r.first \in Cluster \cup {0}
  BY <1>1, <1>3, InvNow, FdTyped
<1>5. r.pos <= r.size /\ r.size <= Room(fat, r.first)
  BY <1>1, <1>3, InvNow DEF DInv, Sized
<1>6. k \in Nat /\ r.pos + k <= r.size
  <2>1. PICK have : have = UNITS * Len(Chain(fat, r.first)) - r.pos
    OBVIOUS
  <2>2. k = IF r.pos >= r.size \/ r.first = 0 \/ have <= 0 THEN 0 ELSE Min({n, r.size - r.pos, have})
    BY <1>1, <2>1 DEF ReadLen
  <2>3. CASE r.pos >= r.size \/ r.first = 0 \/ have <= 0
    BY <1>4, <1>5, <2>2, <2>3
  <2>4. CASE ~(r.pos >= r.size \/ r.first = 0 \/ have <= 0)
    <3>1. n \in Nat
      BY Fat12Assumption
    <3>2. r.first \in DirIds
      BY <1>4 DEF DirIds, ROOT
    <3>3. have \in Nat
      BY <1>4, <2>1, <2>4, <3>2, LenChain, InvNow
    <3>4. PICK T : T = {n, r.size - r.pos, have}
      OBVIOUS
    <3>5. T \in SUBSET Nat /\ T # {} /\ r.size - r.pos \in T
      BY <1>4, <2>4, <3>1, <3>3, <3>4
    <3>6. Min(T) \in T /\ Min(T) <= r.size - r.pos
      BY <3>5, MinIs
    <3> QED  BY <1>4, <2>2, <2>4, <3>4, <3>5, <3>6
  <2> QED  BY <2>3, <2>4
<1>7. Moves(fat, V, g_fds, r, s)
  <2>1. s \in FDSet /\ s.parent = r.parent /\ s.idx = r.idx /\ s.first = r.first /\ s.size = r.size /\ s.pos = r.pos + k
    <3>1. PICK q : q = r.pos + k
      OBVIOUS
    <3>2. q \in Nat
      BY <1>4, <1>6, <3>1
    <3>3. s = [r EXCEPT !.pos = q]
      BY <1>2, <1>4, <3>1 DEF FDSet
    <3>4. s \in FDSet /\ s.parent = r.parent /\ s.idx = r.idx /\ s.first = r.first /\ s.size = r.size /\ s.pos = q
      BY <1>4, <3>2, <3>3 DEF FDSet
    <3> QED  BY <3>1, <3>4
  <2> QED  BY <1>5, <1>6, <2>1 DEF Moves
<1>8. PICK g : g = [g_fds EXCEPT ![fd] = s]
  OBVIOUS
<1>9. DInv(fat, V, g)
  BY <1>1, <1>3, <1>7, <1>8, InvNow, MovedFd
<1> QED  BY <1>3, <1>8, <1>9, InvNow, SameDisk

\* Restart forgets the open files.
LEMMA RestartStep ==
  ASSUME Inv, Restart
  PROVE  Inv'
<1>1. PICK g : g = [fd \in FDs |-> NoFD]
  OBVIOUS
<1>2. g \in [FDs -> FDSet \cup {NoFD}] /\ Used(g) = {}
  BY <1>1 DEF Used, NoFD
<1>3. DInv(fat, V, g)
  BY <1>2, InvNow, FewerFds
<1>4. FDChains \subseteq Cluster
  <2>1. SUFFICES ASSUME NEW c \in FDChains PROVE c \in Cluster
    OBVIOUS
  <2>2. PICK x \in Used(g_fds) : c \in InChain(fat, g_fds[x].first)
    BY InvNow DEF FDChains
  <2>3. g_fds[x].first = 0 \/ IsHead(fat, g_fds[x].first)
    BY InvNow, Owned
  <2>4. g_fds[x].first # 0
    BY <2>2, InvNow, NoChain
  <2> QED  BY <2>2, <2>3, <2>4, InvNow, FreeNotInChain DEF DInv
<1>5. orphans' \subseteq Cluster
  BY <1>4, InvNow DEF Restart
<1> QED  BY <1>1, <1>3, <1>5, SameDisk DEF Restart

\* Where an open file's entry is.
LEMMA AnchorIs ==
  ASSUME Inv, NEW x \in Used(g_fds), NEW r, r = g_fds[x], NEW p, p = Anchor(fat, r)
  PROVE  /\ r.parent \in Tree(fat, V) /\ r.parent \in Dirs(fat, V) /\ r.parent \in DirIds
         /\ r.idx \in Visible(fat, V, r.parent) /\ r.idx \in Slots(fat, r.parent)
         /\ p = PlaceOf(fat, r.parent, r.idx) /\ V[p].k = "ent" /\ V[p] \in EntrySet /\ ~V[p].dir
         /\ Entry(r.parent, r.idx) = V[p]
<1>1. p = PlaceOf(fat, r.parent, r.idx)
  BY DEF Anchor
<1>2. r.parent \in Tree(fat, V) /\ r.idx \in Visible(fat, V, r.parent) /\ ~V[p].dir
  BY InvNow DEF DInv, Anchored
<1>3. r.parent \in Dirs(fat, V) /\ r.parent \in DirIds
  BY <1>2, InvNow, TreeInDirs
<1>4. r.idx \in Slots(fat, r.parent) /\ V[p].k = "ent"
  BY <1>1, <1>2 DEF Visible
<1>5. Entry(r.parent, r.idx) = V[p]
  BY <1>1, <1>3, <1>4, InvNow, UnitsAre
<1>6. V[p] \in EntrySet
  BY <1>1, <1>3, <1>4, InvNow, SlotLive, Entries
<1> QED  BY <1>1, <1>2, <1>3, <1>4, <1>5, <1>6

\* The write-back gives the entry the size and first cluster of the only
\* descriptor there is on it.
LEMMA FlushedInv ==
  ASSUME Inv, NEW fd \in FDs, Open(fd), NEW d, d = Flushed(fd)
  PROVE  DiskInv(d, g_fds)
<1>1. PICK r : r = g_fds[fd]
  OBVIOUS
<1>2. PICK p : p = Anchor(fat, r)
  OBVIOUS
<1>3. PICK e : e = V[p]
  OBVIOUS
<1>4. PICK e2 : e2 = [e EXCEPT !.size = r.size, !.first = r.first]
  OBVIOUS
<1>5. fd \in Used(g_fds)
  BY InvNow
<1>6. /\ r.parent \in Dirs(fat, V) /\ r.parent \in DirIds /\ r.idx \in Slots(fat, r.parent)
      /\ p = PlaceOf(fat, r.parent, r.idx) /\ e.k = "ent" /\ e \in EntrySet
      /\ Entry(r.parent, r.idx) = e
  BY <1>1, <1>2, <1>3, <1>5, AnchorIs
<1>7. r.first \in Cluster \cup {0} /\ r.size \in Nat
  BY <1>1, <1>5, InvNow, FdTyped
<1>8. /\ e2 \in EntrySet /\ e2.first = r.first /\ e2.size = r.size /\ e2.dir = e.dir
      /\ e2.name = e.name
  BY <1>4, <1>6, <1>7 DEF EntrySet
<1>9. PICK y : y = dir_write_entry(Disk, r.parent, r.idx, e2)
  OBVIOUS
<1>10. e2 \in UnitSet
  BY <1>8 DEF UnitSet
<1>11. InDir(Disk, r.parent, r.idx) /\ y \in DiskSet /\ y.fat = fat /\ View(y) = PutAt(V, p, e2)
  BY <1>6, <1>9, <1>10, InvNow, ViewEntry
<1>12. d = y
  BY <1>1, <1>4, <1>6, <1>9, <1>11 DEF Flushed
<1>13. PICK U2 : U2 = PutAt(V, p, e2)
  OBVIOUS
<1>14. \A j \in Slots(fat, r.parent) : j # r.idx /\ V[PlaceOf(fat, r.parent, j)].k = "ent"
          => V[PlaceOf(fat, r.parent, j)].name # e2.name
  BY <1>3, <1>6, <1>8, InvNow DEF DInv, Tidy
<1>15. Current(fat, p, e2, g_fds[fd])
  BY <1>1, <1>2, <1>8 DEF Current
<1>16. DInv(fat, U2, g_fds)
  BY <1>3, <1>5, <1>6, <1>8, <1>13, <1>14, <1>15, InvNow, ChangeEnt
<1> QED  BY <1>11, <1>12, <1>13, <1>16 DEF DiskInv

\* fat12_flush.
LEMMA FlushStep ==
  ASSUME Inv, NEW fd \in FDs, fat12_flush(fd)
  PROVE  Inv'
<1>1. PICK d, g : d = Flushed(fd) /\ g = g_fds
  OBVIOUS
<1>2. DiskInv(d, g)
  BY <1>1, FlushedInv DEF fat12_flush
<1>3. Disk' = d
  BY <1>1, <1>2, NextDisk DEF fat12_flush, DiskInv
<1> QED  BY <1>1, <1>2, <1>3, InvNow, NextInv DEF fat12_flush

\* fat12_close.
LEMMA CloseStep ==
  ASSUME Inv, NEW fd \in FDs, fat12_close(fd)
  PROVE  Inv'
<1>1. PICK d, g : d = Flushed(fd) /\ g = [g_fds EXCEPT ![fd] = NoFD]
  OBVIOUS
<1>2. DiskInv(d, g_fds)
  BY <1>1, FlushedInv DEF fat12_close
<1>3. Disk' = d
  BY <1>1, <1>2, NextDisk DEF fat12_close, DiskInv
<1>4. /\ g \in [FDs -> FDSet \cup {NoFD}] /\ Used(g) \subseteq Used(g_fds)
      /\ \A x \in Used(g) : g[x] = g_fds[x]
  BY <1>1, InvNow DEF Typed, Used, NoFD
<1>5. DiskInv(d, g)
  BY <1>2, <1>4, FewerFds DEF DiskInv
<1> QED  BY <1>1, <1>3, <1>5, InvNow, NextInv DEF fat12_close

\* fat_free_chain and the mark in the entry, where no file is open there.
LEMMA RemovedInv ==
  ASSUME Inv, NEW path \in Paths, NEW l, l = Lookup(path), Hit(l),
         \A x \in Used(g_fds) : g_fds[x].parent # l.dc \/ g_fds[x].idx # l.idx,
         IsDir(l) => Empty(Entry(l.dc, l.idx).first),
         NEW d, d = Removed(l)
  PROVE  DiskInv(d, g_fds)
<1>1. PICK p : p = PlaceOf(fat, l.dc, l.idx)
  OBVIOUS
<1>2. PICK h : h = V[p].first
  OBVIOUS
<1>3. /\ l.dc \in Dirs(fat, V) /\ l.dc \in DirIds /\ l.idx \in Slots(fat, l.dc)
      /\ Entry(l.dc, l.idx) = V[p] /\ l.idx \in Visible(fat, V, l.dc)
  BY <1>1, InvNow, LookupIs DEF Hit
<1>4. V[p].k = "ent"
  BY <1>1, <1>3 DEF Visible
<1>5. V[p] \in EntrySet /\ h \in DirIds
  <2>1. V[p] \in EntrySet
    BY <1>1, <1>3, <1>4, InvNow, SlotLive, Entries
  <2> QED  BY <1>2, <2>1 DEF EntrySet, DirIds, ROOT
<1>6. V[p].dir => Visible(fat, V, h) = {}
  BY <1>2, <1>3, <1>5, InvNow, ListedIs DEF IsDir, Empty
<1>7. PICK y : y = fat_free_chain(Disk, h)
  OBVIOUS
<1>8. y \in DiskSet /\ y.fat = Freed(fat, h) /\ View(y) = V
  BY <1>7, InvNow, ViewFree
<1>9. d = dir_write_entry(y, l.dc, l.idx, Deleted)
  BY <1>2, <1>3, <1>7 DEF Removed
<1>10. PICK f2, U2 : f2 = Freed(fat, h) /\ U2 = PutAt(V, p, Deleted)
  OBVIOUS
<1>11. DInv(f2, U2, g_fds) /\ l.idx \in Slots(f2, l.dc) /\ PlaceOf(f2, l.dc, l.idx) = p
  BY <1>1, <1>2, <1>3, <1>4, <1>6, <1>10, InvNow, RemoveEnt
<1>12. Deleted \in UnitSet
  BY DEF UnitSet
<1>13. d \in DiskSet /\ d.fat = y.fat /\ View(d) = PutAt(View(y), PlaceOf(y.fat, l.dc, l.idx), Deleted)
  BY <1>3, <1>8, <1>9, <1>10, <1>11, <1>12, ViewEntry
<1> QED  BY <1>8, <1>10, <1>11, <1>13 DEF DiskInv

\* fat12_delete.
LEMMA DeleteStep ==
  ASSUME Orderly, Inv, NEW path \in Paths, fat12_delete(path)
  PROVE  Inv'
<1>1. PICK l : l = Lookup(path)
  OBVIOUS
<1>2. PICK d, g : d = Removed(l) /\ g = g_fds
  OBVIOUS
<1>3. /\ Hit(l) /\ ~IsDir(l) /\ OpenOn(l.dc, l.idx) = {} /\ SetDisk(d)
      /\ UNCHANGED <<g_fds, orphans>>
  BY <1>1, <1>2 DEF fat12_delete, Orderly
<1>4. \A x \in Used(g_fds) : g_fds[x].parent # l.dc \/ g_fds[x].idx # l.idx
  BY <1>3, InvNow DEF OpenOn, Used
<1>5. DiskInv(d, g)
  BY <1>1, <1>2, <1>3, <1>4, RemovedInv
<1>6. Disk' = d
  BY <1>3, <1>5, NextDisk DEF DiskInv
<1> QED  BY <1>2, <1>3, <1>5, <1>6, InvNow, NextInv

\* fat12_rmdir: a directory's entry is not a file's, so no file is open there.
LEMMA RmdirStep ==
  ASSUME Inv, NEW path \in Paths, fat12_rmdir(path)
  PROVE  Inv'
<1>1. PICK l : l = Lookup(path)
  OBVIOUS
<1>2. PICK d, g : d = Removed(l) /\ g = g_fds
  OBVIOUS
<1>3. /\ Hit(l) /\ IsDir(l) /\ Empty(Entry(l.dc, l.idx).first) /\ SetDisk(d)
      /\ UNCHANGED <<g_fds, orphans>>
  BY <1>1, <1>2 DEF fat12_rmdir
<1>4. ASSUME NEW x \in Used(g_fds), g_fds[x].parent = l.dc, g_fds[x].idx = l.idx PROVE FALSE
  <2>1. PICK r : r = g_fds[x]
    OBVIOUS
  <2>2. PICK p : p = Anchor(fat, r)
    OBVIOUS
  <2>3. ~V[p].dir /\ Entry(r.parent, r.idx) = V[p]
    BY <2>1, <2>2, AnchorIs
  <2> QED  BY <1>3, <1>4, <2>1, <2>3 DEF IsDir
<1>5. DiskInv(d, g)
  BY <1>1, <1>2, <1>3, <1>4, RemovedInv
<1>6. Disk' = d
  BY <1>3, <1>5, NextDisk DEF DiskInv
<1> QED  BY <1>2, <1>3, <1>5, <1>6, InvNow, NextInv

\* fat12_rename within a directory: the new name is not there yet.
LEMMA RenameStep ==
  ASSUME Orderly, Inv, NEW old \in Paths, NEW new \in Paths, fat12_rename(old, new)
  PROVE  Inv'
<1>1. PICK l, m, name : l = Lookup(old) /\ m = Lookup(new) /\ name = NameOf(new)
  OBVIOUS
<1>2. PICK d, g : d = Renamed(l, m, name) /\ g = g_fds
  OBVIOUS
<1>3. Hit(l) /\ Miss(m) /\ l.dc = m.dc /\ SetDisk(d) /\ UNCHANGED <<g_fds, orphans>>
  BY <1>1, <1>2 DEF fat12_rename, Orderly
<1>4. PICK p : p = PlaceOf(fat, l.dc, l.idx)
  OBVIOUS
<1>5. /\ l.dc \in Dirs(fat, V) /\ l.dc \in DirIds /\ l.idx \in Slots(fat, l.dc)
      /\ Entry(l.dc, l.idx) = V[p] /\ l.idx \in Visible(fat, V, l.dc)
  BY <1>1, <1>3, <1>4, InvNow, LookupIs DEF Hit
<1>6. name \in Names83 /\ \A j \in Visible(fat, V, l.dc) : V[PlaceOf(fat, l.dc, j)].name # name
  BY <1>1, <1>3, InvNow, LookupIs DEF Miss
<1>7. PICK e : e = V[p]
  OBVIOUS
<1>8. PICK e2 : e2 = [e EXCEPT !.name = name]
  OBVIOUS
<1>9. e.k = "ent" /\ e \in EntrySet
  BY <1>4, <1>5, <1>7, InvNow, SlotLive, Entries DEF Visible
<1>10. e2 \in EntrySet /\ e2.dir = e.dir /\ e2.first = e.first /\ e2.size = e.size /\ e2.name = name
  BY <1>6, <1>8, <1>9 DEF EntrySet
<1>11. d = dir_write_entry(Disk, l.dc, l.idx, e2)
  BY <1>2, <1>5, <1>7, <1>8 DEF Renamed
<1>12. e2 \in UnitSet
  BY <1>10 DEF UnitSet
<1>13. d \in DiskSet /\ d.fat = fat /\ View(d) = PutAt(V, p, e2)
  <2>1. PICK dc, i, o : dc = l.dc /\ i = l.idx /\ o = Disk
    OBVIOUS
  <2>2. o \in DiskSet /\ o.fat = fat /\ View(o) = V /\ dc \in DirIds /\ i \in Slots(o.fat, dc)
    BY <1>5, <2>1, InvNow
  <2>3. d = dir_write_entry(o, dc, i, e2)
    BY <1>11, <2>1
  <2>4. d \in DiskSet /\ d.fat = o.fat /\ View(d) = PutAt(View(o), PlaceOf(o.fat, dc, i), e2)
    BY <1>12, <2>2, <2>3, ViewEntry
  <2> QED  BY <1>4, <2>1, <2>2, <2>4
<1>14. \A j \in Slots(fat, l.dc) : j # l.idx /\ V[PlaceOf(fat, l.dc, j)].k = "ent"
          => V[PlaceOf(fat, l.dc, j)].name # e2.name
  BY <1>5, <1>6, <1>10, InvNow, AllVisible
<1>15. Same(V, p, e2)
  BY <1>7, <1>10 DEF Same
<1>16. PICK U2 : U2 = PutAt(V, p, e2)
  OBVIOUS
<1>17. DInv(fat, U2, g)
  BY <1>2, <1>4, <1>5, <1>7, <1>9, <1>10, <1>14, <1>15, <1>16, InvNow, ChangeEnt
<1>18. DiskInv(d, g)
  BY <1>13, <1>16, <1>17 DEF DiskInv
<1>19. Disk' = d
  BY <1>3, <1>13, NextDisk
<1> QED  BY <1>2, <1>3, <1>18, <1>19, InvNow, NextInv

\* fat12_create: a new name, on an entry that no descriptor is open on.
LEMMA CreateStep ==
  ASSUME Inv, SmallDirs, NEW path \in Paths, fat12_create(path)
  PROVE  Inv'
<1>1. PICK l, e, d : l = Lookup(path) /\ e = Ent(NameOf(path), FALSE, 0, 0) /\ d = Disk
  OBVIOUS
<1>2. PICK dc, a : dc = l.dc /\ a = alloc_dir_entry(d, l.dc)
  OBVIOUS
<1>3. PICK x : x = dir_write_entry(a.d, dc, a.idx, e)
  OBVIOUS
<1>4. /\ Miss(l) /\ HasSlot(a) /\ SetDisk(x) /\ UNCHANGED orphans
      /\ \/ \E fd \in FDs :
              /\ FreeFD(fd) /\ InDir(a.d, dc, a.idx)
              /\ g_fds' = [g_fds EXCEPT ![fd] = NewFD(0, 0, dc, a.idx)]
         \/ UNCHANGED g_fds
  BY <1>1, <1>2, <1>3 DEF fat12_create
<1>5. /\ NameOf(path) \in Names83 /\ dc \in Tree(fat, V) /\ dc \in Dirs(fat, V) /\ dc \in DirIds
      /\ \A j \in Visible(fat, V, dc) : V[PlaceOf(fat, dc, j)].name # NameOf(path)
  BY <1>1, <1>2, <1>4, InvNow, LookupIs DEF Miss
<1>6. e \in EntrySet /\ e.size = 0 /\ e.dir = FALSE /\ e.first = 0 /\ e.name = NameOf(path)
  BY <1>1, <1>5 DEF Ent, EntrySet
<1>7. d.fat = fat /\ View(d) = V /\ DiskInv(d, g_fds) /\ DiskInv(Disk, g_fds)
  BY <1>1, InvNow
<1>8. Fresh(d.fat, View(d), g_fds, e)
  BY <1>6 DEF Fresh
<1>9. Grows(fat, V, d.fat, View(d))
  BY <1>7, InvNow, GrowsRefl
<1>10. a = alloc_dir_entry(d, dc)
  BY <1>2
<1>11. /\ DiskInv(x, g_fds)
       /\ InDir(a.d, dc, a.idx) =>
            /\ a.idx \in Visible(x.fat, View(x), dc) /\ View(x)[PlaceOf(x.fat, dc, a.idx)] = e
            /\ Tree(d.fat, View(d)) \subseteq Tree(x.fat, View(x))
            /\ \A y \in Used(g_fds) : g_fds[y].parent # dc \/ g_fds[y].idx # a.idx
  <2>1. \A j \in Visible(fat, V, dc) : V[PlaceOf(fat, dc, j)].name # e.name
    BY <1>5, <1>6
  <2>2. HasSlot(a) /\ dc \in Dirs(fat, V) /\ FitsScan(d.fat, dc)
    BY <1>4, <1>5, <1>7, InvNow, DirectoriesIs DEF SmallDirs
  <2>3. PICK g : g = g_fds
    OBVIOUS
  <2>4. DiskInv(d, g) /\ DiskInv(Disk, g) /\ Fresh(d.fat, View(d), g, e)
    BY <1>7, <1>8, <2>3
  <2>5. /\ DiskInv(x, g)
        /\ InDir(a.d, dc, a.idx) =>
             /\ a.idx \in Visible(x.fat, View(x), dc) /\ View(x)[PlaceOf(x.fat, dc, a.idx)] = e
             /\ Tree(d.fat, View(d)) \subseteq Tree(x.fat, View(x))
             /\ \A y \in Used(g) : g[y].parent # dc \/ g[y].idx # a.idx
    BY <1>3, <1>9, <1>10, <2>1, <2>2, <2>4, NewEntry
  <2> QED  BY <2>3, <2>5
<1>12. Disk' = x
  BY <1>4, <1>11, NextDisk DEF DiskInv
<1>13. orphans' \subseteq Cluster
  BY <1>4, InvNow
<1>14. CASE UNCHANGED g_fds
  <2>1. PICK g : g = g_fds
    OBVIOUS
  <2> QED  BY <1>11, <1>12, <1>13, <1>14, <2>1, NextInv
<1>15. ASSUME NEW fd \in FDs, FreeFD(fd), InDir(a.d, dc, a.idx),
              g_fds' = [g_fds EXCEPT ![fd] = NewFD(0, 0, dc, a.idx)]
       PROVE  Inv'
  <2>1. PICK f, U, i, p : f = x.fat /\ U = View(x) /\ i = a.idx /\ p = PlaceOf(x.fat, dc, a.idx)
    OBVIOUS
  <2>2. DInv(f, U, g_fds)
    BY <1>11, <2>1 DEF DiskInv
  <2>3. /\ dc \in Tree(f, U) /\ i \in Visible(f, U, dc) /\ p = PlaceOf(f, dc, i) /\ U[p] = e
        /\ \A y \in Used(g_fds) : g_fds[y].parent # dc \/ g_fds[y].idx # i
    BY <1>5, <1>7, <1>11, <1>15, <2>1
  <2>4. fd \notin Used(g_fds)
    BY <1>15, InvNow DEF FreeFD
  <2>5. PICK g : g = [g_fds EXCEPT ![fd] = NewFD(U[p].first, U[p].size, dc, i)]
    OBVIOUS
  <2>6. g_fds' = g
    BY <1>6, <1>15, <2>1, <2>3, <2>5
  <2>7. ~U[p].dir
    BY <1>6, <2>3
  <2>8. DInv(f, U, g)
    BY <2>2, <2>3, <2>4, <2>5, <2>7, OneMoreFd
  <2>9. DiskInv(x, g)
    BY <1>11, <2>1, <2>8 DEF DiskInv
  <2> QED  BY <1>12, <1>13, <2>6, <2>9, NextInv
<1> QED  BY <1>4, <1>14, <1>15

\* fat12_mkdir gives its cluster back when the directory has no slot for it.
LEMMA GivenBack ==
  ASSUME NEW d, NEW g, DiskInv(d, g), NEW c \in Cluster, d.fat[c] = FREE,
         NEW e, e = Claim(d, c), NEW b, b = [e EXCEPT !.fat[c] = FREE]
  PROVE  DiskInv(b, g)
<1>1. d \in DiskSet /\ DInv(d.fat, View(d), g)
  BY DEF DiskInv
<1>2. e \in DiskSet /\ e.fat = [d.fat EXCEPT ![c] = EOC] /\ View(e) = Blanked(View(d), c)
  BY <1>1, ViewClaim
<1>3. PICK f : f = [e.fat EXCEPT ![c] = FREE]
  OBVIOUS
<1>4. d.fat \in Table /\ e.fat \in Table
  BY <1>1, <1>2, DiskFields
<1>5. f \in Table
  BY <1>3, <1>4 DEF Table
<1>6. b.fat = f /\ b.root = e.root /\ b.data = e.data /\ b \in DiskSet
  BY <1>2, <1>3, <1>5 DEF DiskSet
<1>7. View(b) = Blanked(View(d), c)
  BY <1>2, <1>6 DEF View
<1>8. f = Marked(d.fat, c, FREE)
  BY <1>2, <1>3, <1>4 DEF Marked, Table
<1>9. PICK U : U = View(d)
  OBVIOUS
<1>10. PICK z, o : z = FREE /\ o = d.fat
  OBVIOUS
<1>11. DInv(o, U, g) /\ o[c] = FREE /\ (z = FREE \/ z = EOC) /\ f = Marked(o, c, z)
  BY <1>1, <1>8, <1>9, <1>10
<1>12. DInv(f, Blanked(U, c), g)
  BY ONLY <1>11, c \in Cluster, Claimed
<1> QED  BY <1>6, <1>7, <1>9, <1>12 DEF DiskInv

\* An allocation without a slot leaves the disk as it was.
LEMMA NoSlot ==
  ASSUME NEW d, NEW dc, NEW a, a = alloc_dir_entry(d, dc), ~HasSlot(a), Disk \in DiskSet, dc \in DirIds
  PROVE  a.d = d
<1>1. CASE Vacant(dc) # {}
  <2>1. a.d = d /\ a.idx = Min(Vacant(dc))
    BY <1>1 DEF alloc_dir_entry
  <2> QED  BY <2>1
<1>2. CASE Vacant(dc) = {} /\ (dc = ROOT \/ fat_alloc(d) = 0)
  BY <1>2 DEF alloc_dir_entry
<1>3. CASE Vacant(dc) = {} /\ ~(dc = ROOT \/ fat_alloc(d) = 0)
  <2>1. a.idx = SUBDIR_MAX_ENTS
    BY <1>3 DEF alloc_dir_entry
  <2> QED  BY <2>1 DEF HasSlot, SUBDIR_MAX_ENTS, NotFound
<1> QED  BY <1>1, <1>2, <1>3

\* fat12_mkdir.
LEMMA MkdirStep ==
  ASSUME Inv, SmallDirs, NEW path \in Paths, fat12_mkdir(path)
  PROVE  Inv'
<1>1. PICK l, c : l = Lookup(path) /\ c = fat_alloc(Disk)
  OBVIOUS
<1>2. PICK dc, d, e : dc = l.dc /\ d = Claim(Disk, c) /\ e = Ent(NameOf(path), TRUE, c, 0)
  OBVIOUS
<1>3. PICK a : a = alloc_dir_entry(d, dc)
  OBVIOUS
<1>4. PICK x : x = IF HasSlot(a) THEN dir_write_entry(a.d, dc, a.idx, e) ELSE [a.d EXCEPT !.fat[c] = FREE]
  OBVIOUS
<1>5. Miss(l) /\ c # 0 /\ SetDisk(x) /\ UNCHANGED g_fds /\ orphans' \subseteq orphans \cup {c}
  BY <1>1, <1>2, <1>3, <1>4 DEF fat12_mkdir
<1>6. /\ NameOf(path) \in Names83 /\ dc \in Tree(fat, V) /\ dc \in Dirs(fat, V) /\ dc \in DirIds
      /\ \A j \in Visible(fat, V, dc) : V[PlaceOf(fat, dc, j)].name # NameOf(path)
  BY <1>1, <1>2, <1>5, InvNow, LookupIs DEF Miss
<1>7. c \in Cluster /\ Disk.fat[c] = FREE
  BY <1>1, <1>5, InvNow, AllocIs
<1>8. /\ DiskInv(d, g_fds) /\ Grows(fat, V, d.fat, View(d))
      /\ Unowned(d.fat, View(d), g_fds, c) /\ d.fat[c] = EOC
      /\ \A u \in Unit : View(d)[<<c, u>>] = Zero
  <2>1. PICK o : o = Disk
    OBVIOUS
  <2>2. DiskInv(o, g_fds) /\ o.fat[c] = FREE /\ d = Claim(o, c) /\ o.fat = fat /\ View(o) = V
    BY <1>2, <1>7, <2>1, InvNow
  <2> QED  BY <1>7, <2>2, ClaimInv
<1>9. e \in EntrySet /\ e.size = 0 /\ e.dir = TRUE /\ e.first = c /\ e.name = NameOf(path)
  BY <1>2, <1>6, <1>7 DEF Ent, EntrySet
<1>10. Fresh(d.fat, View(d), g_fds, e)
  BY <1>8, <1>9 DEF Fresh
<1>11. DiskInv(x, g_fds)
  <2>1. CASE HasSlot(a)
    <3>1. x = dir_write_entry(a.d, dc, a.idx, e)
      BY <1>4, <2>1
    <3>2. FitsScan(d.fat, dc)
      <4>1. FitsScan(fat, dc)
        BY <1>6, InvNow, DirectoriesIs DEF SmallDirs
      <4>2. CASE dc = ROOT
        BY <4>2 DEF FitsScan
      <4>3. CASE dc # ROOT
        <5>1. fat \in Table /\ Links(fat) /\ IsHead(fat, dc) /\ d.fat \in Table
          BY <1>6, <1>8, <4>3, InvNow, DirHeads, DInvBase DEF DInv, DiskInv
        <5>2. d.fat = [fat EXCEPT ![c] = EOC]
          BY <1>2, <1>7, InvNow, ViewClaim
        <5>3. \A b \in InChain(fat, dc) : d.fat[b] = fat[b]
          <6>1. TAKE b \in InChain(fat, dc)
          <6>2. b \in Cluster /\ fat[b] # FREE
            BY <5>1, FreeNotInChain
          <6>3. b # c
            BY <1>7, <6>2, InvNow
          <6> QED  BY <5>1, <5>2, <6>2, <6>3 DEF Table
        <5>4. Chain(d.fat, dc) = Chain(fat, dc)
          BY <5>1, <5>3, SameChain
        <5> QED  BY <4>1, <5>4 DEF FitsScan
      <4> QED  BY <4>2, <4>3
    <3>3. DiskInv(Disk, g_fds) /\ \A j \in Visible(fat, V, dc) : V[PlaceOf(fat, dc, j)].name # e.name
      BY <1>6, <1>9, InvNow
    <3> QED  BY <1>3, <1>6, <1>8, <1>10, <2>1, <3>1, <3>2, <3>3, NewEntry
  <2>2. CASE ~HasSlot(a)
    <3>1. a.d = d
      BY <1>3, <1>6, <2>2, InvNow, NoSlot
    <3>2. x = [d EXCEPT !.fat[c] = FREE]
      BY <1>4, <2>2, <3>1
    <3> QED  BY <1>2, <1>7, <3>2, InvNow, GivenBack
  <2> QED  BY <2>1, <2>2
<1>12. Disk' = x
  BY <1>5, <1>11, NextDisk DEF DiskInv
<1>13. PICK g : g = g_fds
  OBVIOUS
<1>14. orphans' \subseteq Cluster
  BY <1>5, <1>7, InvNow
<1> QED  BY <1>5, <1>11, <1>12, <1>13, <1>14, InvNow, NextInv

\* The first write of an empty file gives its descriptor a cluster.
LEMMA FirstCluster ==
  ASSUME Inv, NEW fd \in Used(g_fds), NEW r, r = g_fds[fd],
         NEW c, c = (IF r.first = 0 THEN fat_alloc(Disk) ELSE r.first), c # 0,
         NEW d, d = (IF r.first = 0 THEN Claim(Disk, c) ELSE Disk),
         NEW g, g = [g_fds EXCEPT ![fd] = [r EXCEPT !.first = c]]
  PROVE  DiskInv(d, g)
<1>1. /\ r \in FDSet /\ r.first \in Cluster \cup {0} /\ r.size \in Nat /\ r.pos \in Nat /\ fd \in FDs
  BY InvNow, FdTyped
<1>2. CASE r.first # 0
  <2>1. c = r.first /\ d = Disk
    BY <1>2
  <2>2. [r EXCEPT !.first = c] = r
    BY <1>1, <2>1 DEF FDSet
  <2>3. g = g_fds
    BY <2>2, InvNow DEF Typed
  <2> QED  BY <2>1, <2>3, InvNow
<1>3. CASE r.first = 0
  <2>1. PICK o : o = Disk
    OBVIOUS
  <2>2. DiskInv(o, g_fds) /\ o \in DiskSet /\ d = Claim(o, c) /\ c = fat_alloc(o)
    BY <1>3, <2>1, InvNow
  <2>3. c \in Cluster /\ o.fat[c] = FREE
    BY <2>2, AllocIs
  <2>4. /\ DiskInv(d, g_fds) /\ Unowned(d.fat, View(d), g_fds, c) /\ d.fat[c] = EOC
        /\ \A u \in Unit : View(d)[<<c, u>>] = Zero
    BY <2>2, <2>3, ClaimInv
  <2>5. PICK f, U : f = d.fat /\ U = View(d)
    OBVIOUS
  <2>6. DInv(f, U, g_fds) /\ f \in Table
    BY <2>4, <2>5, DInvBase DEF DiskInv
  <2>7. r.pos <= r.size /\ r.size <= Room(f, 0) /\ Room(f, 0) = 0
    <3>1. r.pos <= r.size /\ r.size <= Room(f, 0)
      BY <1>3, <2>6 DEF DInv, Sized
    <3>2. Room(f, 0) = 0
      BY <2>6, NoChain, Numbers DEF Room
    <3> QED  BY <3>1, <3>2
  <2>8. InChain(f, c) = {c} /\ Room(f, c) \in Nat
    <3>1. Chain(f, c) = <<c>> /\ InChain(f, c) = {c}
      BY <2>3, <2>4, <2>5, <2>6, ChainOfOne
    <3>2. Len(Chain(f, c)) = 1
      BY <3>1
    <3> QED  BY <3>1, <3>2, Numbers DEF Room
  <2>9. NoEnts(U, c)
    BY <2>4, <2>5 DEF NoEnts, Zero
  <2>10. PICK s : s = [r EXCEPT !.first = c]
    OBVIOUS
  <2>11. /\ s \in FDSet /\ s.parent = r.parent /\ s.idx = r.idx /\ s.pos = r.pos /\ s.size = r.size
         /\ s.first = c
    BY <1>1, <2>3, <2>10 DEF FDSet
  <2>12. Moves(f, U, g_fds, r, s)
    <3>1. s.pos <= s.size /\ s.size <= Room(f, s.first)
      BY <1>1, <2>7, <2>8, <2>11
    <3>2. Unowned(f, U, g_fds, s.first) /\ \A b \in InChain(f, s.first) : NoEnts(U, b)
      BY <2>4, <2>5, <2>8, <2>9, <2>11
    <3> QED  BY <1>3, <2>11, <3>1, <3>2 DEF Moves
  <2>13. g = [g_fds EXCEPT ![fd] = s]
    BY <2>10
  <2>14. DInv(f, U, g)
    <3>1. Moves(f, U, g_fds, g_fds[fd], s) /\ fd \in Used(g_fds)
      BY <2>12
    <3> QED  BY ONLY <2>6, <2>13, <3>1, MovedFd
  <2> QED  BY <2>4, <2>5, <2>14 DEF DiskInv
<1> QED  BY <1>2, <1>3

\* fat12_write: the loops may end early, on a full disk.
LEMMA WriteStep ==
  ASSUME Inv, NEW fd \in FDs, NEW n \in Transfers, NEW v \in Values, fat12_write(fd, n, v)
  PROVE  Inv'
<1>1. PICK r : r = g_fds[fd]
  OBVIOUS
<1>2. PICK c : c = IF r.first = 0 THEN fat_alloc(Disk) ELSE r.first
  OBVIOUS
<1>3. PICK d : d = IF r.first = 0 THEN Claim(Disk, c) ELSE Disk
  OBVIOUS
<1>4. PICK s : s = Skip(d, c, r.pos \div UNITS)
  OBVIOUS
<1>5. PICK w : w = Write(s, r.pos % UNITS, n, v)
  OBVIOUS
<1>6. PICK m : m = Max({r.size, r.pos + w.done})
  OBVIOUS
<1>7. /\ Open(fd) /\ c # 0 /\ SetDisk(w.d) /\ UNCHANGED orphans
      /\ g_fds' = [g_fds EXCEPT ![fd].first = c, ![fd].pos = @ + w.done, ![fd].size = m]
  BY <1>1, <1>2, <1>3, <1>4, <1>5, <1>6 DEF fat12_write
<1>8. fd \in Used(g_fds) /\ g_fds \in [FDs -> FDSet \cup {NoFD}]
  BY <1>7, InvNow DEF Typed
<1>9. r \in FDSet /\ r.first \in Cluster \cup {0} /\ r.size \in Nat /\ r.pos \in Nat
  BY <1>1, <1>8, InvNow, FdTyped
<1>10. PICK r1 : r1 = [r EXCEPT !.first = c]
  OBVIOUS
<1>11. PICK g : g = [g_fds EXCEPT ![fd] = r1]
  OBVIOUS
<1>12. DiskInv(d, g)
  <2>1. g = [g_fds EXCEPT ![fd] = [r EXCEPT !.first = c]]
    BY <1>10, <1>11
  <2> QED  BY <1>1, <1>2, <1>3, <1>7, <1>8, <2>1, FirstCluster
<1>13. g[fd] = r1 /\ r1.first = c /\ r1.pos = r.pos /\ r1.size = r.size /\ r1.used = TRUE
       /\ r1.parent = r.parent /\ r1.idx = r.idx
  BY <1>8, <1>9, <1>10, <1>11 DEF FDSet
<1>14. fd \in Used(g)
  BY <1>13 DEF Used
<1>15. PICK q : q = r.pos \div UNITS
  OBVIOUS
<1>16. q \in Nat /\ n \in Nat
  BY <1>9, <1>15, DivMod, Fat12Assumption
<1>17. DiskInv(s.d, g) /\ AtCluster(s.d, c, q + 1, s.c) /\ s \in [d : DiskSet, c : Cluster \cup {0}]
  BY <1>4, <1>7, <1>12, <1>13, <1>14, <1>15, <1>16, SkipInv
<1>18. r.pos <= Room(s.d.fat, c)
  <2>1. r.pos <= r.size /\ r.size <= Room(s.d.fat, c)
    BY <1>13, <1>14, <1>17 DEF DiskInv, DInv, Sized
  <2>2. Room(s.d.fat, c) \in Int
    <3>1. c \in DirIds
      <4>1. c \in Cluster \cup {0}
        BY <1>12, <1>13, <1>14, FdTyped, DInvBase DEF DiskInv
      <4> QED  BY <4>1 DEF DirIds, ROOT
    <3>2. s.d.fat \in Table
      BY <1>17, DInvBase DEF DiskInv
    <3> QED  BY <3>1, <3>2, LenChain DEF Room
  <2> QED  BY <1>9, <2>1, <2>2
<1>19. DiskInv(w.d, g) /\ w.done \in Nat /\ r.pos + w.done <= Room(w.d.fat, c)
  <2>1. AtCluster(s.d, g[fd].first, r.pos \div UNITS + 1, s.c) /\ r.pos <= Room(s.d.fat, g[fd].first)
    BY <1>13, <1>15, <1>17, <1>18
  <2>2. g[fd].first # 0
    BY <1>7, <1>13
  <2> QED  BY <1>5, <1>9, <1>13, <1>14, <1>16, <1>17, <2>1, <2>2, WriteInv
<1>20. PICK o : o = r.pos + w.done
  OBVIOUS
<1>21. o \in Nat /\ m \in {r.size, o} /\ m \in Nat /\ o <= m
  <2>1. o \in Nat
    BY <1>9, <1>19, <1>20
  <2>2. \E y \in {r.size, o} : \A z \in {r.size, o} : y >= z
    <3>1. CASE r.size >= o
      BY <1>9, <2>1, <3>1
    <3>2. CASE ~(r.size >= o)
      BY <1>9, <2>1, <3>2
    <3> QED  BY <3>1, <3>2
  <2>3. m \in {r.size, o} /\ \A z \in {r.size, o} : m >= z
    BY <1>6, <1>20, <2>2 DEF Max
  <2> QED  BY <1>9, <2>1, <2>3
<1>22. r.size <= Room(w.d.fat, c)
  BY <1>13, <1>14, <1>19 DEF DiskInv, DInv, Sized
<1>23. PICK t : t = [r1 EXCEPT !.pos = o, !.size = m]
  OBVIOUS
<1>24. /\ t \in FDSet /\ t.parent = r1.parent /\ t.idx = r1.idx /\ t.first = r1.first
       /\ t.pos = o /\ t.size = m
  <2>1. r1 \in FDSet
    BY <1>12, <1>13, <1>14, FdTyped, DInvBase DEF DiskInv
  <2> QED  BY <1>21, <1>23, <2>1 DEF FDSet
<1>25. Moves(w.d.fat, View(w.d), g, r1, t)
  BY <1>13, <1>19, <1>20, <1>21, <1>22, <1>24 DEF Moves
<1>26. PICK g2 : g2 = [g EXCEPT ![fd] = t]
  OBVIOUS
<1>27. DiskInv(w.d, g2)
  <2>1. PICK f, U : f = w.d.fat /\ U = View(w.d)
    OBVIOUS
  <2>2. DInv(f, U, g) /\ Moves(f, U, g, g[fd], t)
    BY <1>13, <1>19, <1>25, <2>1 DEF DiskInv
  <2>3. DInv(f, U, g2)
    BY <1>14, <1>26, <2>2, MovedFd
  <2> QED  BY <1>19, <2>1, <2>3 DEF DiskInv
<1>28. g_fds' = g2
  <2>1. g_fds' = [g_fds EXCEPT ![fd] = [[[r EXCEPT !.first = c] EXCEPT !.pos = o] EXCEPT !.size = m]]
    BY <1>1, <1>7, <1>8, <1>9, <1>20 DEF FDSet
  <2>2. t = [[[r EXCEPT !.first = c] EXCEPT !.pos = o] EXCEPT !.size = m]
    BY <1>10, <1>23
  <2>3. g2 = [g_fds EXCEPT ![fd] = t]
    BY <1>8, <1>11, <1>26
  <2> QED  BY <2>1, <2>2, <2>3
<1>29. PICK e : e = w.d
  OBVIOUS
<1>30. DiskInv(e, g2) /\ Disk' = e
  BY <1>7, <1>27, <1>29, NextDisk DEF DiskInv
<1> QED  BY <1>7, <1>28, <1>30, InvNow, NextInv

-----------------------------------------------------------------------------
\* The invariant holds of a fresh disk, and every call keeps it.

\* A disk fresh from mkfs.
LEMMA InitInv == Init => Inv
<1> SUFFICES ASSUME Init PROVE Inv
  OBVIOUS
<1>1. fat \in Table /\ \A c \in Cluster : fat[c] = FREE
  BY DEF Init, Table
<1>2. root \in [0 .. ROOT_ENTRIES - 1 -> UnitSet] /\ data \in [Cluster -> [Unit -> UnitSet]]
  BY DEF Init, Blank, UnitSet
<1>3. Disk \in DiskSet
  BY <1>1, <1>2 DEF Disk, DiskSet
<1>4. V \in [Places -> UnitSet] /\ \A p \in Places : V[p] = Zero
  <2>1. V \in [Places -> UnitSet]
    BY <1>3, DiskParts
  <2>2. ASSUME NEW i \in 0 .. ROOT_ENTRIES - 1 PROVE V[<<ROOT, i>>] = Zero
    BY <1>3, DiskParts DEF Init
  <2>3. ASSUME NEW c \in Cluster, NEW u \in Unit PROVE V[<<c, u>>] = Zero
    BY <1>3, DiskParts DEF Init, Blank
  <2> QED  BY <2>1, <2>2, <2>3 DEF Places
<1>5. Live(fat, V) = {}
  BY <1>4 DEF Live, Zero
<1>6. Used(g_fds) = {} /\ g_fds \in [FDs -> FDSet \cup {NoFD}]
  BY DEF Init, Used, NoFD
<1>7. Dirs(fat, V) = {ROOT}
  BY <1>5 DEF Dirs
<1>8. Typed(fat, V, g_fds)
  BY <1>1, <1>4, <1>6 DEF Typed
<1>9. Links(fat)
  BY <1>1, Numbers DEF Links
<1>10. Kinds(fat, V, g_fds)
  <2>1. \A i \in 0 .. ROOT_ENTRIES - 1 : V[<<ROOT, i>>].k # "data"
    BY <1>4 DEF Places, Zero
  <2> QED  BY <1>5, <1>6, <2>1 DEF Kinds
<1>11. Tidy(fat, V)
  <2>1. ASSUME NEW i \in Slots(fat, ROOT) PROVE V[PlaceOf(fat, ROOT, i)] = Zero
    <3>1. PlaceOf(fat, ROOT, i) \in Places
      BY <1>1, PlaceIn DEF DirIds
    <3> QED  BY <1>4, <3>1
  <2> QED  BY <1>7, <2>1 DEF Tidy, Zero
<1>12. DInv(fat, V, g_fds)
  BY <1>5, <1>6, <1>8, <1>9, <1>10, <1>11 DEF DInv, EntHeads, FdHeads, Anchored, Sized
<1>13. Disk.fat = fat /\ View(Disk) = V /\ orphans \subseteq Cluster
  BY DEF Disk, V, Init
<1> QED  BY <1>3, <1>12, <1>13 DEF Inv, DiskInv

\* Every step.
LEMMA NextKeeps ==
  ASSUME Orderly, Inv, SmallDirs, [Next]_vars
  PROVE  Inv'
<1>1. ASSUME NEW path \in Paths,
             fat12_open(path) \/ fat12_create(path) \/ fat12_delete(path) \/ fat12_mkdir(path) \/ fat12_rmdir(path)
      PROVE  Inv'
  BY <1>1, OpenStep, CreateStep, DeleteStep, MkdirStep, RmdirStep
<1>2. ASSUME NEW old \in Paths, NEW new \in Paths, fat12_rename(old, new) PROVE Inv'
  BY <1>2, RenameStep
<1>3. ASSUME NEW fd \in FDs, NEW n \in Transfers,
             fat12_read(fd, n) \/ \E v \in Values : fat12_write(fd, n, v)
      PROVE  Inv'
  BY <1>3, ReadStep, WriteStep
<1>4. ASSUME NEW fd \in FDs, fat12_flush(fd) \/ fat12_close(fd) PROVE Inv'
  BY <1>4, FlushStep, CloseStep
<1>5. CASE Restart
  BY <1>5, RestartStep
<1>6. CASE UNCHANGED vars
  <2>1. PICK g : g = g_fds
    OBVIOUS
  <2> QED  BY <1>6, <2>1, InvNow, SameDisk DEF vars
<1> QED  BY <1>1, <1>2, <1>3, <1>4, <1>5, <1>6 DEF Next

\* With orderly callers, and as long as the directories stay small enough for
\* the scans, every call keeps the invariant.
THEOREM Invariance == ASSUME Orderly PROVE Spec /\ []SmallDirs => []Inv
<1>1. Init => Inv
  BY InitInv
<1>2. Inv /\ SmallDirs /\ [Next]_vars => Inv'
  BY NextKeeps
<1> QED  BY <1>1, <1>2, PTL DEF Spec

-----------------------------------------------------------------------------
\* What the invariant says of the listed entries.

\* Where a listed entry is.
LEMMA HeadIs ==
  ASSUME Inv, NEW o \in EntryHeads
  PROVE  \E dc \in Tree(fat, V) : \E i \in Visible(fat, V, dc) :
           /\ o = <<dc, i>> /\ dc \in Dirs(fat, V) /\ i \in Slots(fat, dc)
           /\ PlaceOf(fat, dc, i) \in Live(fat, V)
           /\ HeadOf(o) = V[PlaceOf(fat, dc, i)].first /\ SizeOf(o) = V[PlaceOf(fat, dc, i)].size
<1>1. PICK dc \in Directories : \E i \in Listed(dc) : o = <<dc, i>>
  BY DEF EntryHeads
<1>2. PICK i \in Listed(dc) : o = <<dc, i>>
  BY <1>1
<1>3. dc \in Tree(fat, V) /\ dc \in Dirs(fat, V) /\ dc \in DirIds
  BY InvNow, DirectoriesIs, TreeInDirs
<1>4. i \in Visible(fat, V, dc)
  BY <1>3, InvNow, ListedIs
<1>5. i \in Slots(fat, dc) /\ V[PlaceOf(fat, dc, i)].k = "ent"
  BY <1>4 DEF Visible
<1>6. Entry(dc, i) = V[PlaceOf(fat, dc, i)] /\ PlaceOf(fat, dc, i) \in Live(fat, V)
  BY <1>3, <1>5, InvNow, UnitsAre, SlotLive
<1>7. HeadOf(o) = Entry(dc, i).first /\ SizeOf(o) = Entry(dc, i).size
  BY <1>2 DEF HeadOf, SizeOf
<1> QED  BY <1>2, <1>3, <1>4, <1>5, <1>6, <1>7

\* The heads of the chains.
LEMMA HeadsNow ==
  ASSUME Inv
  PROVE  /\ \A o \in EntryHeads : HeadOf(o) \in Cluster \cup {0} /\ (HeadOf(o) # 0 => IsHead(fat, HeadOf(o)))
         /\ \A x \in FDs : Open(x) => /\ g_fds[x].first \in Cluster \cup {0}
                                      /\ g_fds[x].first # 0 => IsHead(fat, g_fds[x].first)
<1>1. ASSUME NEW o \in EntryHeads
      PROVE  HeadOf(o) \in Cluster \cup {0} /\ (HeadOf(o) # 0 => IsHead(fat, HeadOf(o)))
  <2>1. PICK p \in Live(fat, V) : HeadOf(o) = V[p].first
    BY HeadIs
  <2> QED  BY <2>1, InvNow, Owned
<1> QED  BY <1>1, InvNow, Owned

\* A chain has a cluster for every link.
LEMMA CardChain ==
  ASSUME NEW f \in Table, Links(f), NEW h \in Cluster \cup {0}, h # 0 => IsHead(f, h)
  PROVE  Cardinality(InChain(f, h)) = Len(Chain(f, h))
<1>1. CASE h = 0
  BY <1>1, NoChain, FS_EmptySet
<1>2. CASE h # 0
  <2>1. PICK s : s = Chain(f, h)
    OBVIOUS
  <2>2. GoodChain(f, h, s)
    BY <1>2, <2>1, HeadChain
  <2>3. InChain(f, h) = {s[i] : i \in 1 .. Len(s)}
    BY <2>1, <2>2 DEF InChain, GoodChain
  <2>4. s \in Bijection(1 .. Len(s), InChain(f, h))
    <3>1. DOMAIN s = 1 .. Len(s) /\ s = [i \in 1 .. Len(s) |-> s[i]]
      BY <2>2 DEF GoodChain
    <3>2. s \in [1 .. Len(s) -> InChain(f, h)]
      BY <2>3, <3>1
    <3>3. \A i, j \in 1 .. Len(s) : s[i] = s[j] => i = j
      BY <2>2 DEF GoodChain
    <3>4. \A c \in InChain(f, h) : \E i \in 1 .. Len(s) : s[i] = c
      BY <2>3
    <3> QED  BY <3>2, <3>3, <3>4, Fun_IsBij
  <2>5. Len(s) \in Nat
    BY <2>2 DEF GoodChain
  <2> QED  BY <2>1, <2>4, <2>5, FS_CountingElements DEF ExistsBijection
<1> QED  BY <1>1, <1>2

\* What the invariant says of two listed entries, and of an open file and an
\* entry that is not its own.
LEMMA NoCrossLinkNow ==
  ASSUME Inv
  PROVE  NoCrossLink
<1>1. DInv(fat, V, g_fds) /\ Base(fat, V) /\ fat \in Table /\ Links(fat)
  BY InvNow DEF DInv
<1>2. ASSUME NEW h \in Cluster \cup {0}, h # 0 => IsHead(fat, h), NEW c \in InChain(fat, h)
      PROVE  h # 0 /\ IsHead(fat, h)
  BY <1>1, <1>2, NoChain
<1>3. ASSUME NEW o \in EntryHeads, NEW q \in EntryHeads, NEW c \in ChainOf(o), c \in ChainOf(q)
      PROVE  o = q
  <2>1. PICK dc \in Tree(fat, V) : \E i \in Visible(fat, V, dc) :
           /\ o = <<dc, i>> /\ dc \in Dirs(fat, V) /\ i \in Slots(fat, dc)
           /\ PlaceOf(fat, dc, i) \in Live(fat, V) /\ HeadOf(o) = V[PlaceOf(fat, dc, i)].first
    BY HeadIs
  <2>2. PICK i \in Visible(fat, V, dc) :
           /\ o = <<dc, i>> /\ dc \in Dirs(fat, V) /\ i \in Slots(fat, dc)
           /\ PlaceOf(fat, dc, i) \in Live(fat, V) /\ HeadOf(o) = V[PlaceOf(fat, dc, i)].first
    BY <2>1
  <2>3. PICK ec \in Tree(fat, V) : \E j \in Visible(fat, V, ec) :
           /\ q = <<ec, j>> /\ ec \in Dirs(fat, V) /\ j \in Slots(fat, ec)
           /\ PlaceOf(fat, ec, j) \in Live(fat, V) /\ HeadOf(q) = V[PlaceOf(fat, ec, j)].first
    BY HeadIs
  <2>4. PICK j \in Visible(fat, V, ec) :
           /\ q = <<ec, j>> /\ ec \in Dirs(fat, V) /\ j \in Slots(fat, ec)
           /\ PlaceOf(fat, ec, j) \in Live(fat, V) /\ HeadOf(q) = V[PlaceOf(fat, ec, j)].first
    BY <2>3
  <2>5. PICK h, k : h = HeadOf(o) /\ k = HeadOf(q)
    OBVIOUS
  <2>6. c \in InChain(fat, h) /\ c \in InChain(fat, k)
    BY <1>3, <2>5 DEF ChainOf
  <2>7. h # 0 /\ IsHead(fat, h) /\ IsHead(fat, k)
    BY <1>2, <2>5, <2>6, HeadsNow
  <2>8. h = k
    BY <1>1, <2>6, <2>7, ChainsApart
  <2>9. PlaceOf(fat, dc, i) = PlaceOf(fat, ec, j)
    BY <1>1, <2>2, <2>4, <2>5, <2>7, <2>8 DEF DInv, EntHeads
  <2> QED  BY <1>1, <2>2, <2>4, <2>9, PlacesApart
<1>4. ASSUME NEW x \in FDs, Open(x), NEW o \in EntryHeads, NEW c \in ChainOf(o), c \in InChain(fat, g_fds[x].first)
      PROVE  o = <<g_fds[x].parent, g_fds[x].idx>>
  <2>1. PICK dc \in Tree(fat, V) : \E i \in Visible(fat, V, dc) :
           /\ o = <<dc, i>> /\ dc \in Dirs(fat, V) /\ i \in Slots(fat, dc)
           /\ PlaceOf(fat, dc, i) \in Live(fat, V) /\ HeadOf(o) = V[PlaceOf(fat, dc, i)].first
    BY HeadIs
  <2>2. PICK i \in Visible(fat, V, dc) :
           /\ o = <<dc, i>> /\ dc \in Dirs(fat, V) /\ i \in Slots(fat, dc)
           /\ PlaceOf(fat, dc, i) \in Live(fat, V) /\ HeadOf(o) = V[PlaceOf(fat, dc, i)].first
    BY <2>1
  <2>3. PICK r, h, k : r = g_fds[x] /\ h = HeadOf(o) /\ k = g_fds[x].first
    OBVIOUS
  <2>4. c \in InChain(fat, h) /\ c \in InChain(fat, k) /\ x \in Used(g_fds)
    BY <1>4, <2>3, InvNow DEF ChainOf
  <2>5. k # 0 /\ IsHead(fat, h) /\ IsHead(fat, k)
    BY <1>2, <1>4, <2>3, <2>4, HeadsNow
  <2>6. h = k
    BY <1>1, <2>4, <2>5, ChainsApart
  <2>7. PlaceOf(fat, dc, i) = Anchor(fat, r)
    BY <1>1, <2>2, <2>3, <2>4, <2>5, <2>6 DEF DInv, FdHeads
  <2>8. r.parent \in Dirs(fat, V) /\ r.idx \in Slots(fat, r.parent) /\ Anchor(fat, r) = PlaceOf(fat, r.parent, r.idx)
    BY <2>3, <2>4, AnchorIs
  <2>9. dc = r.parent /\ i = r.idx
    BY <1>1, <2>2, <2>7, <2>8, PlacesApart
  <2> QED  BY <2>2, <2>3, <2>9
<1> QED  BY <1>3, <1>4 DEF NoCrossLink

\* No two files or directories share a cluster, and an open file's clusters
\* belong to its own entry alone, on a disk of any size.
THEOREM NoCrossLinkHolds == ASSUME Orderly PROVE Spec /\ []SmallDirs => []NoCrossLink
<1>1. Inv => NoCrossLink
  BY NoCrossLinkNow
<1> QED  BY <1>1, Invariance, PTL

\* A head's chain ends in an end-of-chain mark.
LEMMA EndedNow ==
  ASSUME Inv, NEW h \in Cluster \cup {0}, h # 0 => IsHead(fat, h)
  PROVE  Ended(h)
<1>1. fat \in Table /\ Links(fat)
  BY InvNow DEF DInv
<1>2. CASE h = 0
  BY <1>1, <1>2, NoChain DEF Ended
<1>3. CASE h # 0
  <2>1. GoodChain(fat, h, Chain(fat, h))
    BY <1>1, <1>3, HeadChain
  <2> QED  BY <2>1 DEF GoodChain, Ended
<1> QED  BY <1>2, <1>3

\* Every chain of a listed entry or an open file ends in an end-of-chain mark:
\* none runs into a free cluster or a cycle.
THEOREM ChainsEndHolds == ASSUME Orderly PROVE Spec /\ []SmallDirs => []ChainsEnd
<1>1. Inv => ChainsEnd
  BY HeadsNow, EndedNow DEF ChainsEnd
<1> QED  BY <1>1, Invariance, PTL

\* Sizes and positions stay within the chains, also when the disk fills up in
\* the middle of a write.
THEOREM SizeWithinChainHolds == ASSUME Orderly PROVE Spec /\ []SmallDirs => []SizeWithinChain
<1>1. ASSUME Inv PROVE SizeWithinChain
  <2>1. fat \in Table /\ Links(fat) /\ Sized(fat, V, g_fds)
    BY <1>1, InvNow DEF DInv
  <2>2. ASSUME NEW o \in EntryHeads PROVE SizeOf(o) <= UNITS * Cardinality(ChainOf(o))
    <3>1. PICK p \in Live(fat, V) : HeadOf(o) = V[p].first /\ SizeOf(o) = V[p].size
      BY <1>1, HeadIs
    <3>2. SizeOf(o) <= Room(fat, HeadOf(o))
      BY <2>1, <3>1 DEF Sized
    <3>3. Cardinality(InChain(fat, HeadOf(o))) = Len(Chain(fat, HeadOf(o)))
      BY <1>1, <2>1, HeadsNow, CardChain
    <3> QED  BY <3>2, <3>3 DEF Room, ChainOf
  <2>3. ASSUME NEW x \in FDs, Open(x)
        PROVE  /\ g_fds[x].pos <= g_fds[x].size
               /\ g_fds[x].size <= UNITS * Cardinality(InChain(fat, g_fds[x].first))
    <3>1. x \in Used(g_fds)
      BY <1>1, <2>3, InvNow
    <3>2. g_fds[x].pos <= g_fds[x].size /\ g_fds[x].size <= Room(fat, g_fds[x].first)
      BY <2>1, <3>1 DEF Sized
    <3>3. Cardinality(InChain(fat, g_fds[x].first)) = Len(Chain(fat, g_fds[x].first))
      BY <1>1, <2>1, <2>3, HeadsNow, CardChain
    <3> QED  BY <3>2, <3>3 DEF Room
  <2> QED  BY <2>2, <2>3 DEF SizeWithinChain
<1> QED  BY <1>1, Invariance, PTL

\* What the invariant says of the directories and the variables.
LEMMA DirectoriesNow ==
  ASSUME Inv
  PROVE  DirectoriesSound
<1>1. TypeOK
  <2>1. fat \in Table /\ root \in [0 .. ROOT_ENTRIES - 1 -> UnitSet] /\ data \in [Cluster -> [Unit -> UnitSet]]
    BY InvNow DEF DiskSet, Disk
  <2>2. ASSUME NEW i \in 0 .. ROOT_ENTRIES - 1 PROVE root[i] \in EntrySet \cup {Zero, Deleted}
    <3>1. root[i] \in UnitSet
      BY <2>1
    <3>2. V[<<ROOT, i>>] = root[i]
      BY InvNow, DiskParts
    <3>3. root[i].k # "data"
      BY <3>2, InvNow DEF DInv, Kinds
    <3> QED  BY <3>1, <3>3 DEF UnitSet, Data
  <2>3. root \in [0 .. ROOT_ENTRIES - 1 -> EntrySet \cup {Zero, Deleted}]
    BY <2>1, <2>2
  <2>4. g_fds \in [FDs -> FDSet \cup {NoFD}] /\ orphans \subseteq Cluster
    BY InvNow DEF Typed
  <2> QED  BY <2>1, <2>3, <2>4 DEF TypeOK, Table, UnitSet
<1>2. ASSUME NEW dc \in Directories, dc # ROOT, NEW i \in DOMAIN Units(dc)
      PROVE  Entry(dc, i).k # "data"
  <2>1. dc \in Dirs(fat, V) /\ dc \in DirIds
    BY InvNow, DirectoriesIs, TreeInDirs
  <2>2. i \in Slots(fat, dc) /\ Entry(dc, i) = V[PlaceOf(fat, dc, i)]
    BY <2>1, InvNow, UnitsAre
  <2>3. PICK p \in Live(fat, V) : V[p].dir /\ V[p].first = dc
    BY <1>2, <2>1 DEF Dirs
  <2>4. PICK c, u : c = Chain(fat, dc)[i \div UNITS + 1] /\ u = i % UNITS
    OBVIOUS
  <2>5. PlaceOf(fat, dc, i) = <<c, u>> /\ c \in InChain(fat, dc) /\ u \in Unit
    <3>1. PlaceOf(fat, dc, i) = <<c, u>> /\ PlaceOf(fat, dc, i)[1] \in InChain(fat, dc)
      BY <1>2, <2>1, <2>2, <2>4, InvNow, PlaceFacts
    <3>2. u \in Unit
      BY <1>2, <2>1, <2>2, <2>4, InvNow, PlaceIn
    <3> QED  BY <3>1, <3>2
  <2>6. NoData(V, c)
    BY <2>3, <2>5, InvNow DEF DInv, Kinds
  <2> QED  BY <2>2, <2>5, <2>6 DEF NoData
<1>3. ASSUME NEW dc \in Directories, NEW i \in Listed(dc), NEW j \in Listed(dc),
             Entry(dc, i).name = Entry(dc, j).name
      PROVE  i = j
  <2>1. dc \in Dirs(fat, V) /\ dc \in DirIds
    BY InvNow, DirectoriesIs, TreeInDirs
  <2>2. i \in Visible(fat, V, dc) /\ j \in Visible(fat, V, dc)
    BY <2>1, InvNow, ListedIs
  <2>3. /\ i \in Slots(fat, dc) /\ V[PlaceOf(fat, dc, i)].k = "ent"
        /\ j \in Slots(fat, dc) /\ V[PlaceOf(fat, dc, j)].k = "ent"
    BY <2>2 DEF Visible
  <2>4. Entry(dc, i) = V[PlaceOf(fat, dc, i)] /\ Entry(dc, j) = V[PlaceOf(fat, dc, j)]
    BY <2>1, <2>3, InvNow, UnitsAre
  <2> QED  BY <1>3, <2>1, <2>3, <2>4, InvNow DEF DInv, Tidy
<1>4. ASSUME NEW x \in FDs, Open(x)
      PROVE  /\ g_fds[x].parent \in Directories
             /\ g_fds[x].idx \in Listed(g_fds[x].parent)
             /\ ~Entry(g_fds[x].parent, g_fds[x].idx).dir
  <2>1. PICK r : r = g_fds[x]
    OBVIOUS
  <2>2. PICK p : p = Anchor(fat, r)
    OBVIOUS
  <2>3. x \in Used(g_fds)
    BY <1>4, InvNow
  <2>4. /\ r.parent \in Tree(fat, V) /\ r.parent \in DirIds /\ r.idx \in Visible(fat, V, r.parent)
        /\ ~V[p].dir /\ Entry(r.parent, r.idx) = V[p]
    BY <2>1, <2>2, <2>3, AnchorIs
  <2>5. r.parent \in Directories /\ r.idx \in Listed(r.parent)
    BY <2>4, InvNow, DirectoriesIs, ListedIs
  <2> QED  BY <2>1, <2>4, <2>5
<1>5. DirectoriesClean
  BY <1>2 DEF DirectoriesClean
<1>6. NamesUnique
  BY <1>3 DEF NamesUnique
<1>7. DescriptorsAnchored
  BY <1>4 DEF DescriptorsAnchored
<1> QED  BY <1>1, <1>5, <1>6, <1>7 DEF DirectoriesSound

\* Directories hold entries only and list no name twice, and every open file's
\* entry stays listed where its descriptor will write it back.
THEOREM DirectoriesSoundHolds == ASSUME Orderly PROVE Spec /\ []SmallDirs => []DirectoriesSound
<1>1. Inv => DirectoriesSound
  BY DirectoriesNow
<1> QED  BY <1>1, Invariance, PTL
=============================================================================
