---------------------------- MODULE ExecProofs ------------------------------
(***************************************************************************)
(* Proofs about running programs: nested elf_exec calls, their stacks,     *)
(* pages and frames, for every set of executables and every layout.        *)
(*                                                                         *)
(* Nested says what each activation saved, which is what makes the stack   *)
(* of a system call free.  Apart says what the page tables may share with  *)
(* the allocator while no failed load has met a running program: a page of *)
(* a running program maps neither a free frame nor another client's, and   *)
(* no frame another such page maps.  This is why the exit of one program,  *)
(* which frees whatever its pages map, takes nothing from another one, and *)
(* why a frame newly allocated is mapped nowhere else but where paging_init*)
(* or a refused load left it.  Accounted adds what is needed to count the  *)
(* frames while no load has met a running program at all.                  *)
(***************************************************************************)
EXTENDS Exec, FiniteSetTheorems, SequenceTheorems, WellFoundedInduction, TLAPS

Phys   == Virt \cup FRAMES \cup {NULL}
Memory == [pt : [Virt -> Phys], free : SUBSET FRAMES]
Prog   == [image : Images, depth : Nat, ctx : Int, met : BOOLEAN,
           own : UNION {[P -> Phys] : P \in SUBSET Virt}]

Running(v) == \E i \in DOMAIN progs : v \in ProgPages(progs[i])

\* Every activation is one level deeper than the one below, waits on that one's
\* stack, and the running program's system calls start on the next one; a program
\* that was not loaded over shares no page with those above it.
Nested ==
  /\ progs \in Seq(Prog)
  /\ exec_ctx_depth = Len(progs) /\ exec_ctx_depth <= MAX_EXEC_DEPTH
  /\ esp0 = IF exec_ctx_depth = 0 THEN BOOT ELSE exec_ctx_depth - 1
  /\ \A i \in 1 .. Len(progs) :
       /\ progs[i].depth = i - 1
       /\ progs[i].ctx = IF i = 1 THEN BOOT ELSE i - 2
       /\ DOMAIN progs[i].own = ProgPages(progs[i])
  /\ \A i, j \in 1 .. Len(progs) :
       i < j /\ ~progs[i].met => ProgPages(progs[i]) \cap ProgPages(progs[j]) = {}

\* Where a frame may be mapped beside the page of its owner.
LeftAt(v, f) == v = f \/ v \in stale

Apart ==
  /\ free \cap others = {}
  /\ \A v \in Virt : pt[v] \in free \cup others => ~Running(v) /\ LeftAt(v, pt[v])
  /\ \A u, v \in Virt : u # v /\ Running(v) /\ pt[v] # NULL /\ pt[u] = pt[v]
                          => ~Running(u) /\ LeftAt(u, pt[v])
  /\ \A i \in DOMAIN progs : ~progs[i].met =>
       \A v \in DOMAIN progs[i].own : pt[v] = progs[i].own[v] /\ pt[v] \in FRAMES

\* No program was loaded over another one.
Disjoint == \A i \in DOMAIN progs : ~progs[i].met

\* The frames that are not free are those of the running programs' pages, other
\* clients' and the leaked ones, of which no frame is two.
Accounted ==
  /\ leaked \cap (free \cup others) = {}
  /\ \A v \in Virt : Running(v) => pt[v] \notin leaked
  /\ \A f \in FRAMES : f \notin free <=> \/ \E v \in Virt : Running(v) /\ pt[v] = f
                                        \/ f \in others \cup leaked

ExecInv ==
  /\ TypeOK /\ Nested
  /\ overlap # "failed" => Apart
  /\ overlap = "none" => Disjoint /\ Accounted

-----------------------------------------------------------------------------
\* A nonempty set of natural numbers has a least element: the form in which
\* induction is used below.
LEMMA Least ==
  ASSUME NEW T \in SUBSET Nat, T # {}
  PROVE  \E n \in T : \A m \in T : n <= m
<1>1. \E x \in T : \A y \in T : ~(<<y, x>> \in OpToRel(<, Nat))
  BY NatLessThanWellFounded, WFMin
<1>2. PICK n \in T : \A y \in T : ~(<<y, n>> \in OpToRel(<, Nat))
  BY <1>1
<1>3. \A y \in T : ~(y < n)
  BY <1>2 DEF OpToRel
<1> QED  BY <1>3

\* The frames below a frame: pmm_alloc's order.
LEMMA BelowGrows ==
  ASSUME NEW fr \in SUBSET Nat, IsFiniteSet(fr), NEW f \in fr
  PROVE  /\ Below(f, fr) \in Nat
         /\ \A g \in fr : f < g => Below(f, fr) < Below(g, fr)
<1> DEFINE B(x) == {h \in fr : h < x}
<1>1. \A x \in fr : B(x) \in SUBSET fr
  OBVIOUS
<1>2. \A x \in fr : IsFiniteSet(B(x)) /\ Cardinality(B(x)) \in Nat
  BY <1>1, FS_Subset, FS_CardinalityType
<1>3. ASSUME NEW g \in fr, f < g PROVE Cardinality(B(f)) < Cardinality(B(g))
  <2>0. f \in Nat /\ g \in Nat /\ \A h \in fr : h \in Nat
    OBVIOUS
  <2>1. B(f) \in SUBSET B(g) /\ f \in B(g) /\ f \notin B(f)
    <3>1. \A h \in fr : h < f => h < g
      BY <1>3, <2>0
    <3>2. ~(f < f)
      BY <2>0
    <3>3. B(f) \subseteq B(g)
      BY <3>1
    <3> QED  BY <1>3, <3>2, <3>3
  <2>2. Cardinality(B(f)) <= Cardinality(B(g)) /\ (Cardinality(B(g)) = Cardinality(B(f)) => B(g) = B(f))
    BY <1>2, <2>1, FS_Subset
  <2>3. B(g) # B(f)
    BY <2>1
  <2>4. Cardinality(B(f)) \in Nat /\ Cardinality(B(g)) \in Nat
    BY <1>2
  <2> QED  BY <2>2, <2>3, <2>4
<1> QED  BY <1>2, <1>3 DEF Below

\* The n lowest frames are n frames, so that each rank below the number of
\* frames is some frame's.
LEMMA Ranks ==
  ASSUME NEW fr \in SUBSET Nat, IsFiniteSet(fr), NEW k \in Nat, k < Cardinality(fr)
  PROVE  \E f \in fr : Below(f, fr) = k
<1> DEFINE Lowest(n) == {f \in fr : Below(f, fr) < n}
           T == {n \in Nat : n <= Cardinality(fr) /\ Cardinality(Lowest(n)) # n}
<1>0. Cardinality(fr) \in Nat
  BY FS_CardinalityType
<1>1. \A n \in Nat : Lowest(n) \in SUBSET fr
  OBVIOUS
<1>2. \A n \in Nat : IsFiniteSet(Lowest(n)) /\ Cardinality(Lowest(n)) \in Nat
  BY <1>1, FS_Subset, FS_CardinalityType
<1>3. \A f \in fr : Below(f, fr) \in Nat
  BY BelowGrows
<1>4. T = {}
  <2> SUFFICES ASSUME T # {} PROVE FALSE
    OBVIOUS
  <2>1. PICK n \in T : \A m \in T : n <= m
    <3>1. T \in SUBSET Nat
      OBVIOUS
    <3> QED  BY <3>1, Least
  <2>2. n # 0
    <3>0. \A f \in fr : ~(Below(f, fr) < 0)
      BY <1>3
    <3>1. Lowest(0) = {}
      BY <3>0
    <3>2. Cardinality(Lowest(0)) = 0
      BY <3>1, FS_EmptySet
    <3> QED  BY <3>2
  <2>3. PICK m \in Nat : m = n - 1
    BY <2>2
  <2>4. Cardinality(Lowest(m)) = m /\ m < Cardinality(fr)
    BY <1>0, <2>1, <2>3
  <2>5. fr \ Lowest(m) # {}
    <3>1. fr # Lowest(m)
      BY <1>0, <2>4
    <3> QED  BY <3>1
  <2>6. PICK f \in fr \ Lowest(m) : \A g \in fr \ Lowest(m) : f <= g
    <3>1. fr \ Lowest(m) \in SUBSET Nat
      OBVIOUS
    <3> HIDE DEF Lowest
    <3> QED  BY <2>5, <3>1, Least
  <2>7. f \in fr /\ f \in Nat /\ ~(Below(f, fr) < m)
    BY <2>6
  <2>8. {g \in fr : g < f} = Lowest(m)
    <3>1. ASSUME NEW g \in fr, g < f PROVE g \in Lowest(m)
      BY <2>6, <2>7, <3>1
    <3>2. ASSUME NEW g \in Lowest(m) PROVE g < f
      <4>1. g \in fr /\ g \in Nat /\ Below(g, fr) < m
        OBVIOUS
      <4>2. f < g => Below(f, fr) < Below(g, fr)
        BY <2>7, <4>1, BelowGrows
      <4>3. g # f
        BY <2>7, <4>1
      <4> QED  BY <1>3, <2>7, <4>1, <4>2, <4>3
    <3> QED  BY <3>1, <3>2
  <2>9. Below(f, fr) = m
    BY <2>4, <2>8 DEF Below
  <2>10. Lowest(n) = Lowest(m) \cup {f}
    <3>1. ASSUME NEW g \in Lowest(n) PROVE g \in Lowest(m) \cup {f}
      <4>1. g \in fr /\ g \in Nat /\ Below(g, fr) <= m
        BY <1>3, <2>3, <3>1
      <4>2. g < f => g \in Lowest(m)
        BY <2>8, <4>1
      <4>3. f < g => Below(f, fr) < Below(g, fr)
        BY <2>7, <4>1, BelowGrows
      <4> QED  BY <1>3, <2>7, <2>9, <4>1, <4>2, <4>3
    <3>2. ASSUME NEW g \in Lowest(m) PROVE g \in Lowest(n)
      BY <1>3, <2>3
    <3>3. f \in Lowest(n)
      BY <2>3, <2>7, <2>9
    <3> QED  BY <3>1, <3>2, <3>3
  <2>11. Cardinality(Lowest(n)) = m + 1
    <3>1. f \notin Lowest(m)
      BY <2>6
    <3>2. PICK L : L = Lowest(m)
      OBVIOUS
    <3>3. IsFiniteSet(L)
      BY <1>2, <3>2
    <3>4. Cardinality(L \cup {f}) = Cardinality(L) + 1
      BY <3>1, <3>2, <3>3, FS_AddElement
    <3> HIDE DEF Lowest
    <3> QED  BY <2>4, <2>10, <3>2, <3>4
  <2> QED  BY <2>1, <2>3, <2>11
<1>5. Cardinality(Lowest(k)) = k /\ Cardinality(Lowest(k + 1)) = k + 1
  <2>1. k \notin T /\ k + 1 \notin T
    BY <1>4
  <2> QED  BY <1>0, <2>1
<1>6. PICK f \in Lowest(k + 1) : f \notin Lowest(k)
  <2>1. Lowest(k + 1) # Lowest(k)
    BY <1>5
  <2>2. \A f \in fr : Below(f, fr) < k => Below(f, fr) < k + 1
    BY <1>3
  <2>3. Lowest(k) \subseteq Lowest(k + 1)
    BY <2>2
  <2> QED  BY <2>1, <2>3
<1>7. f \in fr /\ Below(f, fr) < k + 1 /\ ~(Below(f, fr) < k) /\ Below(f, fr) \in Nat
  BY <1>3, <1>6
<1> QED  BY <1>7

\* pmm_alloc's k-th next frame.
LEMMA NthIs ==
  ASSUME NEW fr \in SUBSET Nat, IsFiniteSet(fr), NEW k \in Nat, k < Cardinality(fr)
  PROVE  Nth(fr, k) \in fr /\ Below(Nth(fr, k), fr) = k
<1>1. \E f \in fr : Below(f, fr) = k
  BY Ranks
<1> QED  BY <1>1 DEF Nth

-----------------------------------------------------------------------------
\* b is the memory a after the pages P were mapped to frames that were free, each
\* to its own; Exact: only those frames were taken.
Fresh(a, b, P) ==
  /\ b \in Memory
  /\ \A v \in Virt \ P : b.pt[v] = a.pt[v]
  /\ \A v \in P : b.pt[v] \in a.free \ b.free
  /\ \A u, v \in P : b.pt[u] = b.pt[v] => u = v
  /\ b.free \subseteq a.free

Exact(a, b, P) == \A f \in a.free \ b.free : \E v \in P : b.pt[v] = f

\* The frames are numbered from 1.
LEMMA FramesFinite ==
  ASSUME NEW fr \in SUBSET FRAMES
  PROVE  /\ fr \in SUBSET Nat /\ IsFiniteSet(fr) /\ Cardinality(fr) \in Nat
         /\ NULL \notin fr
<1>1. IsFiniteSet(FRAMES) /\ FRAMES \subseteq Nat \ {0}
  BY ExecAssumption
<1>2. IsFiniteSet(fr) /\ Cardinality(fr) \in Nat
  BY <1>1, FS_Subset, FS_CardinalityType
<1> QED  BY <1>1, <1>2 DEF NULL

\* The loop of pmm_alloc and paging_map.
LEMMA MapFresh ==
  ASSUME NEW m \in Memory, NEW first \in Nat, NEW n \in Nat, n <= Cardinality(m.free),
         Span(first, n) \subseteq Virt
  PROVE  /\ Fresh(m, MapPages(m, first, n), Span(first, n))
         /\ Exact(m, MapPages(m, first, n), Span(first, n))
<1>1. PICK fr, t : fr = m.free /\ t = m.pt
  OBVIOUS
<1>2. fr \in SUBSET FRAMES /\ t \in [Virt -> Phys]
  BY <1>1 DEF Memory
<1>3. fr \in SUBSET Nat /\ IsFiniteSet(fr) /\ Cardinality(fr) \in Nat
  BY <1>2, FramesFinite
<1>4. \A v \in Span(first, n) : /\ v \in Virt /\ v \in Nat /\ v - first \in Nat /\ v - first < n
                                /\ v - first < Cardinality(fr)
  BY <1>1, <1>3 DEF Span
<1>5. \A k \in Nat : k < Cardinality(fr) => Nth(fr, k) \in fr /\ Below(Nth(fr, k), fr) = k
  BY <1>3, NthIs
<1> DEFINE at == [v \in Virt |-> IF v \in Span(first, n) THEN Nth(fr, v - first) ELSE t[v]]
           rest == {f \in fr : Below(f, fr) >= n}
<1>6. MapPages(m, first, n) = [pt |-> at, free |-> rest]
  BY <1>1 DEF MapPages
<1>7. \A v \in Span(first, n) : at[v] = Nth(fr, v - first) /\ at[v] \in fr /\ Below(at[v], fr) = v - first
  BY <1>4, <1>5
<1>8. at \in [Virt -> Phys] /\ rest \in SUBSET FRAMES
  BY <1>2, <1>7 DEF Phys
<1>9. \A v \in Virt \ Span(first, n) : at[v] = t[v]
  OBVIOUS
<1>10. \A v \in Span(first, n) : at[v] \in fr \ rest
  <2>1. ASSUME NEW v \in Span(first, n) PROVE ~(Below(at[v], fr) >= n)
    <3> HIDE DEF at
    <3>1. Below(at[v], fr) = v - first
      BY <1>7
    <3>2. v - first \in Nat /\ v - first < n
      BY <1>4
    <3> QED  BY <3>1, <3>2
  <2> QED  BY <1>7, <2>1
<1>11. \A u, v \in Span(first, n) : at[u] = at[v] => u = v
  <2> SUFFICES ASSUME NEW u \in Span(first, n), NEW v \in Span(first, n), at[u] = at[v] PROVE u = v
    OBVIOUS
  <2>1. u - first = v - first
    BY <1>7
  <2> QED  BY <1>4, <2>1
<1>12. \A f \in fr \ rest : \E v \in Span(first, n) : at[v] = f
  <2> SUFFICES ASSUME NEW f \in fr, ~(Below(f, fr) >= n) PROVE \E v \in Span(first, n) : at[v] = f
    OBVIOUS
  <2>1. PICK k \in Nat : k = Below(f, fr) /\ k < n
    BY <1>3, BelowGrows
  <2>2. first + k \in Span(first, n) /\ (first + k) - first = k
    BY <2>1 DEF Span
  <2>3. at[first + k] \in fr /\ Below(at[first + k], fr) = k
    BY <1>7, <2>2
  <2>4. PICK g \in fr : g = at[first + k] /\ Below(g, fr) = k
    BY <2>3
  <2>5. g = f
    <3>1. g \in Nat /\ f \in Nat
      BY <1>3
    <3>2. (f < g => Below(f, fr) < Below(g, fr)) /\ (g < f => Below(g, fr) < Below(f, fr))
      BY <1>3, BelowGrows
    <3> QED  BY <2>1, <2>4, <3>1, <3>2
  <2> QED  BY <2>2, <2>4, <2>5
<1> HIDE DEF at, rest
<1>13. PICK b : b = MapPages(m, first, n)
  OBVIOUS
<1>14. b \in Memory /\ b.pt = at /\ b.free = rest
  BY <1>6, <1>8, <1>13 DEF Memory
<1>15. rest \subseteq fr
  BY DEF rest
<1>16. Fresh(m, b, Span(first, n)) /\ Exact(m, b, Span(first, n))
  BY <1>1, <1>9, <1>10, <1>11, <1>12, <1>14, <1>15 DEF Fresh, Exact
<1> QED  BY <1>13, <1>16

\* Two such loops, one after the other: the second may map over the first.
LEMMA FreshTwice ==
  ASSUME NEW a \in Memory, NEW b, NEW c, NEW P \in SUBSET Virt, NEW Q \in SUBSET Virt,
         Fresh(a, b, P), Fresh(b, c, Q)
  PROVE  /\ Fresh(a, c, P \cup Q)
         /\ Exact(a, b, P) /\ Exact(b, c, Q) /\ P \cap Q = {} => Exact(a, c, P \cup Q)
<1>1. \A v \in P \ Q : c.pt[v] = b.pt[v] /\ c.pt[v] \in a.free \ b.free
  BY DEF Fresh
<1>2. \A v \in Q : c.pt[v] \in b.free \ c.free
  BY DEF Fresh
<1>3. c.free \subseteq b.free /\ b.free \subseteq a.free /\ c \in Memory
  BY DEF Fresh
<1>4. \A u, v \in P \cup Q : c.pt[u] = c.pt[v] => u = v
  BY <1>1, <1>2 DEF Fresh
<1>5. \A v \in Virt \ (P \cup Q) : c.pt[v] = a.pt[v]
  BY DEF Fresh
<1>6. Fresh(a, c, P \cup Q)
  BY <1>1, <1>2, <1>3, <1>4, <1>5 DEF Fresh
<1>7. ASSUME Exact(a, b, P), Exact(b, c, Q), P \cap Q = {} PROVE Exact(a, c, P \cup Q)
  BY <1>1, <1>7 DEF Exact
<1> QED  BY <1>6, <1>7

\* pmm_free of what pages map to, and paging_unmap of them.
LEMMA GiveBackIs ==
  ASSUME NEW m \in Memory, NEW P \in SUBSET Virt
  PROVE  /\ GiveBack(m, P) \in Memory /\ GiveBack(m, P).pt = m.pt
         /\ \A f : f \in GiveBack(m, P).free <=> f \in m.free \/ (f \in FRAMES /\ \E v \in P : m.pt[v] = f)
<1> DEFINE fr == m.free \cup ({m.pt[v] : v \in P} \cap FRAMES)
<1>1. fr \in SUBSET FRAMES /\ \A f : f \in fr <=> f \in m.free \/ (f \in FRAMES /\ \E v \in P : m.pt[v] = f)
  BY DEF Memory
<1>2. GiveBack(m, P) = [m EXCEPT !.free = fr]
  BY DEF GiveBack
<1> HIDE DEF fr
<1>3. GiveBack(m, P) \in Memory /\ GiveBack(m, P).pt = m.pt /\ GiveBack(m, P).free = fr
  BY <1>1, <1>2 DEF Memory
<1> QED  BY <1>1, <1>3

\* paging_unmap and pmm_free of every page.
LEMMA UnmapIs ==
  ASSUME NEW m \in Memory, NEW P \in SUBSET Virt
  PROVE  /\ Unmap(m, P) \in Memory
         /\ \A v \in Virt : Unmap(m, P).pt[v] = IF v \in P THEN NULL ELSE m.pt[v]
         /\ \A f : f \in Unmap(m, P).free <=> f \in m.free \/ (f \in FRAMES /\ \E v \in P : m.pt[v] = f)
<1>1. PICK g : g = GiveBack(m, P)
  OBVIOUS
<1>2. /\ g \in Memory /\ g.pt = m.pt
      /\ \A f : f \in g.free <=> f \in m.free \/ (f \in FRAMES /\ \E v \in P : m.pt[v] = f)
  BY <1>1, GiveBackIs
<1> DEFINE at == [v \in Virt |-> IF v \in P THEN NULL ELSE g.pt[v]]
<1>3. Unmap(m, P) = [g EXCEPT !.pt = at]
  BY <1>1 DEF Unmap
<1>4. at \in [Virt -> Phys] /\ \A v \in Virt : at[v] = IF v \in P THEN NULL ELSE m.pt[v]
  BY <1>2 DEF Memory, Phys
<1> HIDE DEF at
<1>5. Unmap(m, P) \in Memory /\ Unmap(m, P).pt = at /\ Unmap(m, P).free = g.free
  BY <1>2, <1>3, <1>4 DEF Memory
<1> QED  BY <1>2, <1>4, <1>5

\* The stack, then the image: a page in both is freed once.
LEMMA UnmapTwice ==
  ASSUME NEW m \in Memory, NEW P \in SUBSET Virt, NEW Q \in SUBSET Virt
  PROVE  LET b == Unmap(Unmap(m, P), Q) IN
         /\ b \in Memory
         /\ \A v \in Virt : b.pt[v] = IF v \in P \cup Q THEN NULL ELSE m.pt[v]
         /\ \A f : f \in b.free <=> f \in m.free \/ (f \in FRAMES /\ \E v \in P \cup Q : m.pt[v] = f)
<1>1. PICK a : a = Unmap(m, P)
  OBVIOUS
<1>2. /\ a \in Memory
      /\ \A v \in Virt : a.pt[v] = IF v \in P THEN NULL ELSE m.pt[v]
      /\ \A f : f \in a.free <=> f \in m.free \/ (f \in FRAMES /\ \E v \in P : m.pt[v] = f)
  BY <1>1, UnmapIs
<1>3. PICK b : b = Unmap(a, Q)
  OBVIOUS
<1>4. /\ b \in Memory
      /\ \A v \in Virt : b.pt[v] = IF v \in Q THEN NULL ELSE a.pt[v]
      /\ \A f : f \in b.free <=> f \in a.free \/ (f \in FRAMES /\ \E v \in Q : a.pt[v] = f)
  BY <1>2, <1>3, UnmapIs
<1>5. NULL \notin FRAMES
  BY FramesFinite
<1>6. \A v \in Virt : b.pt[v] = IF v \in P \cup Q THEN NULL ELSE m.pt[v]
  BY <1>2, <1>4
<1>7. \A f : f \in b.free <=> f \in m.free \/ (f \in FRAMES /\ \E v \in P \cup Q : m.pt[v] = f)
  BY <1>2, <1>4, <1>5
<1> QED  BY <1>1, <1>3, <1>4, <1>6, <1>7

-----------------------------------------------------------------------------
\* Division by the page size.
LEMMA Pages ==
  ASSUME NEW x \in Nat
  PROVE  /\ x \div PAGE \in Nat /\ x % PAGE \in 0 .. PAGE - 1
         /\ x = ((x \div PAGE) * PAGE) + (x % PAGE)
<1>1. PAGE \in Nat /\ PAGE > 0
  BY ExecAssumption
<1> QED  BY <1>1

\* A multiple of PAGE that exceeds another by less than a page is not larger.
LEMMA PagesOrder ==
  ASSUME NEW a \in Nat, NEW b \in Nat, a * PAGE < (b * PAGE) + PAGE
  PROVE  a <= b
<1>1. PAGE \in Nat /\ PAGE > 0
  BY ExecAssumption
<1> DEFINE p == a * PAGE
           q == b * PAGE
           q1 == (b + 1) * PAGE
<1>2. a >= b + 1 => p >= q1
  BY <1>1
<1>3. q1 = q + PAGE /\ p \in Nat /\ q \in Nat /\ p < q + PAGE
  BY <1>1
<1> HIDE DEF p, q, q1
<1> QED  BY <1>1, <1>2, <1>3

\* elf_load maps pages of the address space; it maps every page an image touches
\* if the image starts at the start of a page.
LEMMA ImagePagesIn ==
  ASSUME NEW im \in Images
  PROVE  /\ FirstPage(im) \in Nat /\ PagesOf(im) \in Nat
         /\ ImagePages(im) \subseteq Virt
         /\ im.lo % PAGE = 0 => Touched(im) \subseteq ImagePages(im)
<1>1. PAGE \in Nat /\ PAGE > 0 /\ LAST_PAGE \in Nat
  BY ExecAssumption
<1> DEFINE lo == im.lo
           hi == im.hi
<1>2. lo \in Nat /\ hi \in Nat /\ lo < hi /\ lo >= PAGE /\ hi <= (LAST_PAGE + 1) * PAGE
  BY ExecAssumption
<1> HIDE DEF lo, hi
<1>3. lo \in Nat /\ hi - 1 \in Nat /\ hi - lo + PAGE - 1 \in Nat
  BY <1>1, <1>2
<1> DEFINE f == lo \div PAGE
           n == (hi - lo + PAGE - 1) \div PAGE
           e == (hi - 1) \div PAGE
           fm == lo % PAGE
           nm == (hi - lo + PAGE - 1) % PAGE
           em == (hi - 1) % PAGE
           fp == f * PAGE
           np == n * PAGE
           ep == e * PAGE
           top == (LAST_PAGE + 1) * PAGE
<1>4. /\ f \in Nat /\ fm \in 0 .. PAGE - 1 /\ lo = fp + fm
      /\ n \in Nat /\ nm \in 0 .. PAGE - 1 /\ hi - lo + PAGE - 1 = np + nm
      /\ e \in Nat /\ em \in 0 .. PAGE - 1 /\ hi - 1 = ep + em
  BY <1>3, Pages
<1>5. FirstPage(im) = f /\ PagesOf(im) = n /\ Touched(im) = f .. e
  BY DEF FirstPage, PagesOf, Touched, lo, hi
<1>6. /\ top = (LAST_PAGE * PAGE) + PAGE /\ LAST_PAGE * PAGE \in Nat /\ top \in Nat
      /\ hi <= top
  BY <1>1, <1>2
<1> HIDE DEF f, n, e, fm, nm, em, top
<1>7. fp \in Nat /\ np \in Nat /\ ep \in Nat /\ f + n \in Nat /\ (f + n) * PAGE = fp + np
      /\ (e + 1) * PAGE = ep + PAGE /\ e + 1 \in Nat
  BY <1>1, <1>4
<1> DEFINE fnp == (f + n) * PAGE
           ep1 == (e + 1) * PAGE
           lp == LAST_PAGE * PAGE
<1>8. fnp = fp + np /\ ep1 = ep + PAGE /\ lp \in Nat /\ top = lp + PAGE
  BY <1>6, <1>7
<1> HIDE DEF fp, np, ep, fnp, ep1, lp
<1>9. f >= 1
  <2>1. PAGE < fp + PAGE
    BY <1>1, <1>2, <1>4, <1>7
  <2>2. 1 * PAGE = PAGE
    BY <1>1
  <2>3. 1 * PAGE < (f * PAGE) + PAGE
    BY <2>1, <2>2 DEF fp
  <2> QED  BY <1>4, <2>3, PagesOrder
<1>10. f + n <= e + 1
  <2>1. fnp < ep1 + PAGE
    BY <1>1, <1>2, <1>4, <1>7, <1>8
  <2> QED  BY <1>4, <1>7, <2>1, PagesOrder DEF fnp, ep1
<1>11. e <= LAST_PAGE
  <2>1. ep < lp + PAGE
    BY <1>1, <1>2, <1>4, <1>6, <1>7, <1>8
  <2> QED  BY <1>1, <1>4, <2>1, PagesOrder DEF ep, lp
<1>12. f .. f + n - 1 \subseteq 1 .. LAST_PAGE
  BY <1>1, <1>4, <1>9, <1>10, <1>11
<1>13. ASSUME fm = 0 PROVE e + 1 <= f + n
  <2>1. ep1 < fnp + PAGE
    BY <1>1, <1>2, <1>4, <1>7, <1>8, <1>13
  <2> QED  BY <1>4, <1>7, <2>1, PagesOrder DEF fnp, ep1
<1>14. fm = 0 => f .. e \subseteq f .. f + n - 1
  BY <1>4, <1>13
<1>15. im.lo % PAGE = fm
  BY DEF fm, lo
<1> QED  BY <1>4, <1>5, <1>12, <1>14, <1>15 DEF ImagePages, Span, Virt

\* The user stack of every nesting is in the address space, and so is any part of
\* it.
LEMMA StackPagesIn ==
  ASSUME NEW d \in 0 .. MAX_EXEC_DEPTH - 1
  PROVE  /\ USER_STACK_BASE + d * USER_STACK_STEP \in Nat
         /\ StackPages(d) \subseteq Virt
<1>1. /\ USER_STACK_PAGES \in Nat /\ USER_STACK_PAGES > 0 /\ USER_STACK_STEP \in Nat
      /\ USER_STACK_BASE \in 1 .. LAST_PAGE /\ LAST_PAGE \in Nat
      /\ MAX_EXEC_DEPTH \in Nat /\ MAX_EXEC_DEPTH > 0
      /\ StackPages(MAX_EXEC_DEPTH - 1) \subseteq 1 .. LAST_PAGE
  BY ExecAssumption DEF Virt
<1> DEFINE x == d * USER_STACK_STEP
           y == (MAX_EXEC_DEPTH - 1) * USER_STACK_STEP
<1>2. x \in Nat /\ y \in Nat /\ x <= y
  BY <1>1
<1>3. StackPages(MAX_EXEC_DEPTH - 1) = USER_STACK_BASE + y .. USER_STACK_BASE + y + USER_STACK_PAGES - 1
  BY DEF StackPages, Span
<1>4. StackPages(d) = USER_STACK_BASE + x .. USER_STACK_BASE + x + USER_STACK_PAGES - 1
  BY DEF StackPages, Span
<1> HIDE DEF x, y
<1>5. USER_STACK_BASE + y + USER_STACK_PAGES - 1 \in 1 .. LAST_PAGE
  <2>1. USER_STACK_BASE + y + USER_STACK_PAGES - 1
          \in USER_STACK_BASE + y .. USER_STACK_BASE + y + USER_STACK_PAGES - 1
    BY <1>1, <1>2
  <2> QED  BY <1>1, <1>3, <2>1
<1>6. StackPages(d) \subseteq 1 .. LAST_PAGE
  BY <1>1, <1>2, <1>4, <1>5
<1> QED  BY <1>1, <1>2, <1>6 DEF Virt, x

-----------------------------------------------------------------------------
\* What elf_load does to the memory: a program that is loaded has frames of its
\* own, and a load that fails gives every frame back but leaves the pages mapped.
LEMMA LoadIs ==
  ASSUME NEW m \in Memory, NEW im \in Images, NEW r, r = elf_load(m, im)
  PROVE  /\ r.ok \in BOOLEAN /\ r.pages \in SUBSET Virt /\ r.mem \in Memory
         /\ r.ok => /\ r.pages = ImagePages(im)
                    /\ Fresh(m, r.mem, r.pages) /\ Exact(m, r.mem, r.pages)
         /\ ~r.ok => /\ r.mem.free = m.free
                     /\ \A v \in Virt \ r.pages : r.mem.pt[v] = m.pt[v]
                     /\ \A v \in r.pages : r.mem.pt[v] \in m.free
<1>1. m.free \in SUBSET FRAMES /\ Cardinality(m.free) \in Nat
  BY FramesFinite DEF Memory
<1>2. FirstPage(im) \in Nat /\ PagesOf(im) \in Nat /\ ImagePages(im) \subseteq Virt
  BY ImagePagesIn
<1>3. PICK got, pages, mapped, ok :
        /\ got = Smaller(PagesOf(im), Cardinality(m.free))
        /\ pages = Span(FirstPage(im), got)
        /\ mapped = MapPages(m, FirstPage(im), got)
        /\ ok = (got = PagesOf(im) /\ im.sound)
  OBVIOUS
<1>4. r = [ok |-> ok, pages |-> pages, mem |-> IF ok THEN mapped ELSE GiveBack(mapped, pages)]
  BY <1>3 DEF elf_load
<1>5. got \in Nat /\ got <= PagesOf(im) /\ got <= Cardinality(m.free)
  BY <1>1, <1>2, <1>3 DEF Smaller
<1>6. pages \subseteq Virt
  <2>1. pages \subseteq ImagePages(im)
    BY <1>2, <1>3, <1>5 DEF ImagePages, Span
  <2> QED  BY <1>2, <2>1
<1>7. Fresh(m, mapped, pages) /\ Exact(m, mapped, pages)
  BY <1>2, <1>3, <1>5, <1>6, MapFresh
<1>8. mapped \in Memory
  BY <1>7 DEF Fresh
<1>9. /\ GiveBack(mapped, pages) \in Memory /\ GiveBack(mapped, pages).pt = mapped.pt
      /\ \A f : f \in GiveBack(mapped, pages).free
                  <=> f \in mapped.free \/ (f \in FRAMES /\ \E v \in pages : mapped.pt[v] = f)
  BY <1>6, <1>8, GiveBackIs
<1>10. ok \in BOOLEAN /\ r.ok = ok /\ r.pages = pages
  BY <1>3, <1>4
<1>11. CASE ok
  <2>1. r.mem = mapped
    BY <1>4, <1>11
  <2>2. pages = ImagePages(im)
    BY <1>3, <1>11 DEF ImagePages
  <2> QED  BY <1>6, <1>7, <1>8, <1>10, <1>11, <2>1, <2>2
<1>12. CASE ~ok
  <2>1. r.mem = GiveBack(mapped, pages)
    BY <1>4, <1>12
  <2>2. \A f : f \in GiveBack(mapped, pages).free <=> f \in m.free
    BY <1>1, <1>7, <1>9 DEF Fresh, Exact
  <2>3. r.mem.free = m.free
    BY <2>1, <2>2
  <2>4. /\ \A v \in Virt \ pages : r.mem.pt[v] = m.pt[v]
        /\ \A v \in pages : r.mem.pt[v] \in m.free
    BY <1>7, <1>9, <2>1 DEF Fresh
  <2> QED  BY <1>6, <1>9, <1>10, <1>12, <2>1, <2>3, <2>4
<1> QED  BY <1>10, <1>11, <1>12

\* The history of which programs were loaded over changes nothing else of them.
LEMMA MarkedIs ==
  ASSUME progs \in Seq(Prog), NEW P
  PROVE  /\ Marked(P) \in Seq(Prog) /\ Len(Marked(P)) = Len(progs)
         /\ \A i \in 1 .. Len(progs) :
              /\ Marked(P)[i].image = progs[i].image /\ Marked(P)[i].depth = progs[i].depth
              /\ Marked(P)[i].ctx = progs[i].ctx /\ Marked(P)[i].own = progs[i].own
              /\ Marked(P)[i].met <=> (progs[i].met \/ ProgPages(progs[i]) \cap P # {})
<1>1. DOMAIN progs = 1 .. Len(progs) /\ Len(progs) \in Nat
  BY LenProperties
<1>2. ASSUME NEW i \in 1 .. Len(progs)
      PROVE  /\ Marked(P)[i] \in Prog
             /\ Marked(P)[i].image = progs[i].image /\ Marked(P)[i].depth = progs[i].depth
             /\ Marked(P)[i].ctx = progs[i].ctx /\ Marked(P)[i].own = progs[i].own
             /\ Marked(P)[i].met <=> (progs[i].met \/ ProgPages(progs[i]) \cap P # {})
  <2>1. PICK p, b : /\ p = progs[i] /\ b \in BOOLEAN
                    /\ b = (progs[i].met \/ ProgPages(progs[i]) \cap P # {})
    OBVIOUS
  <2>2. p \in Prog
    BY <2>1, ElementOfSeq
  <2>3. Marked(P)[i] = [p EXCEPT !.met = b]
    BY <1>1, <2>1 DEF Marked
  <2>4. /\ [p EXCEPT !.met = b] \in Prog
        /\ [p EXCEPT !.met = b].image = p.image /\ [p EXCEPT !.met = b].depth = p.depth
        /\ [p EXCEPT !.met = b].ctx = p.ctx /\ [p EXCEPT !.met = b].own = p.own
        /\ [p EXCEPT !.met = b].met = b
    BY <2>1, <2>2 DEF Prog
  <2> QED  BY <2>1, <2>3, <2>4
<1>3. Marked(P) \in [1 .. Len(progs) -> Prog]
  <2>1. DOMAIN Marked(P) = 1 .. Len(progs) /\ Marked(P) = [i \in 1 .. Len(progs) |-> Marked(P)[i]]
    BY <1>1 DEF Marked
  <2> QED  BY <1>2, <2>1
<1>4. Marked(P) \in Seq(Prog) /\ Len(Marked(P)) = Len(progs)
  BY <1>1, <1>3, SeqDef, LenProperties
<1> QED  BY <1>2, <1>4

-----------------------------------------------------------------------------
\* The last conjunct of Apart, which the three lemmas below leave to the actions.
OwnKept ==
  \A i \in DOMAIN progs : ~progs[i].met =>
    \A v \in DOMAIN progs[i].own : pt[v] = progs[i].own[v] /\ pt[v] \in FRAMES

\* Programs loaded over others or not: what was free is nobody's.
LEMMA ApartFresh ==
  ASSUME Apart, NEW P \in SUBSET Virt, NEW m, Fresh(Mem, m, P), pt' = m.pt, free' = m.free,
         others' = others, stale \subseteq stale', OwnKept',
         \A v \in Virt : Running(v)' => Running(v) \/ v \in P
  PROVE  Apart'
<1>1. /\ \A v \in Virt \ P : pt'[v] = pt[v]
      /\ \A v \in P : pt'[v] \in free \ free'
      /\ \A u, v \in P : pt'[u] = pt'[v] => u = v
      /\ free' \subseteq free
  BY DEF Fresh, Mem
<1>2. /\ free \cap others = {}
      /\ \A v \in Virt : pt[v] \in free \cup others => ~Running(v) /\ LeftAt(v, pt[v])
  BY DEF Apart
<1>3. \A v, f : LeftAt(v, f) => LeftAt(v, f)'
  BY DEF LeftAt
<1>4. (free \cap others = {})'
  BY <1>1, <1>2
<1>5. ASSUME NEW v \in Virt, pt'[v] \in free' \cup others' PROVE ~Running(v)' /\ LeftAt(v, pt[v])'
  <2>1. v \notin P
    BY <1>1, <1>2, <1>5
  <2>2. pt'[v] = pt[v] /\ pt[v] \in free \cup others
    BY <1>1, <1>5, <2>1
  <2>3. ~Running(v) /\ LeftAt(v, pt[v])
    BY <1>2, <2>2
  <2>4. ~Running(v)'
    BY <2>1, <2>3
  <2>5. LeftAt(v, pt[v])'
    BY <2>2, <2>3 DEF LeftAt
  <2> QED  BY <2>4, <2>5
<1>6. ASSUME NEW u \in Virt, NEW v \in Virt, u # v, Running(v)', pt'[v] # NULL, pt'[u] = pt'[v]
      PROVE  ~Running(u)' /\ LeftAt(u, pt[v])'
  <2>1. CASE v \in P
    <3>1. u \notin P
      BY <1>1, <1>6, <2>1
    <3>2. pt[u] = pt'[v] /\ pt[u] \in free
      BY <1>1, <1>6, <2>1, <3>1
    <3>3. ~Running(u) /\ LeftAt(u, pt[u])
      BY <1>2, <3>2
    <3>4. ~Running(u)'
      BY <3>1, <3>3
    <3>5. LeftAt(u, pt[v])'
      BY <3>2, <3>3 DEF LeftAt
    <3> QED  BY <3>4, <3>5
  <2>2. CASE v \notin P
    <3>1. Running(v) /\ pt'[v] = pt[v]
      BY <1>1, <1>6, <2>2
    <3>2. u \notin P
      BY <1>1, <1>2, <1>6, <3>1
    <3>3. pt[u] = pt[v] /\ pt[v] # NULL
      BY <1>1, <1>6, <3>1, <3>2
    <3>4. ~Running(u) /\ LeftAt(u, pt[v])
      BY <1>6, <3>1, <3>3 DEF Apart
    <3>5. ~Running(u)'
      BY <3>2, <3>4
    <3>6. LeftAt(u, pt[v])'
      BY <3>1, <3>4 DEF LeftAt
    <3> QED  BY <3>5, <3>6
  <2> QED  BY <2>1, <2>2
<1> QED  BY <1>4, <1>5, <1>6 DEF Apart, OwnKept

\* Pages unmapped, and the frames of running programs' pages freed: nobody else's
\* page maps them.
LEMMA ApartClear ==
  ASSUME Apart, NEW P \in SUBSET Virt,
         \A v \in Virt : pt'[v] = IF v \in P THEN NULL ELSE pt[v],
         free \subseteq FRAMES, others \subseteq FRAMES,
         \A f \in free' : f \in free \/ (f \in FRAMES /\ \E v \in P : Running(v) /\ pt[v] = f),
         others' = others, stale' = stale, OwnKept',
         \A v \in Virt : Running(v)' => Running(v)
  PROVE  Apart'
<1>1. NULL \notin FRAMES
  BY FramesFinite
<1>2. /\ free \cap others = {}
      /\ \A v \in Virt : pt[v] \in free \cup others => ~Running(v) /\ LeftAt(v, pt[v])
  BY DEF Apart
<1>3. (free \cap others = {})'
  BY <1>2
<1>4. ASSUME NEW v \in Virt, pt'[v] \in free' \cup others' PROVE ~Running(v)' /\ LeftAt(v, pt[v])'
  <2>1. v \notin P /\ pt'[v] = pt[v]
    BY <1>1, <1>4
  <2>2. ~Running(v) /\ LeftAt(v, pt[v])
    <3>1. CASE pt[v] \in free \cup others
      BY <1>2, <3>1
    <3>2. CASE pt[v] \notin free \cup others
      <4>1. PICK w \in P : Running(w) /\ pt[w] = pt[v] /\ pt[v] \in FRAMES
        BY <1>4, <2>1, <3>2
      <4>2. w \in Virt /\ v # w /\ pt[w] # NULL
        BY <1>1, <2>1, <4>1
      <4> QED  BY <4>1, <4>2 DEF Apart
    <3> QED  BY <3>1, <3>2
  <2> QED  BY <2>1, <2>2 DEF LeftAt
<1>5. ASSUME NEW u \in Virt, NEW v \in Virt, u # v, Running(v)', pt'[v] # NULL, pt'[u] = pt'[v]
      PROVE  ~Running(u)' /\ LeftAt(u, pt[v])'
  <2>1. pt'[v] = pt[v] /\ pt'[u] = pt[u] /\ Running(v)
    BY <1>5
  <2>2. ~Running(u) /\ LeftAt(u, pt[v])
    BY <1>5, <2>1 DEF Apart
  <2> QED  BY <2>1, <2>2 DEF LeftAt
<1> QED  BY <1>3, <1>4, <1>5 DEF Apart, OwnKept

\* Pages of no running program, left mapped to frames that are free.
LEMMA ApartLeft ==
  ASSUME Apart, NEW P \in SUBSET Virt,
         \A v \in Virt \ P : pt'[v] = pt[v],
         \A v \in P : pt'[v] \in free /\ ~Running(v),
         free' = free, others' = others, stale' = stale \cup P, OwnKept',
         \A v \in Virt : Running(v)' => Running(v)
  PROVE  Apart'
<1>1. /\ free \cap others = {}
      /\ \A v \in Virt : pt[v] \in free \cup others => ~Running(v) /\ LeftAt(v, pt[v])
  BY DEF Apart
<1>2. ASSUME NEW v \in Virt, pt'[v] \in free' \cup others' PROVE ~Running(v)' /\ LeftAt(v, pt[v])'
  BY <1>1, <1>2 DEF LeftAt
<1>3. ASSUME NEW u \in Virt, NEW v \in Virt, u # v, Running(v)', pt'[v] # NULL, pt'[u] = pt'[v]
      PROVE  ~Running(u)' /\ LeftAt(u, pt[v])'
  <2>1. Running(v) /\ v \notin P /\ pt'[v] = pt[v]
    BY <1>3
  <2>2. u \notin P
    BY <1>1, <1>3, <2>1
  <2>3. ~Running(u) /\ LeftAt(u, pt[v])
    BY <1>3, <2>1, <2>2 DEF Apart
  <2> QED  BY <2>1, <2>3 DEF LeftAt
<1> QED  BY <1>1, <1>2, <1>3 DEF Apart, OwnKept

-----------------------------------------------------------------------------
\* Frames of a program that starts, or of one refused as too deep.
LEMMA AccountedFresh ==
  ASSUME Apart, Accounted, NEW P \in SUBSET Virt, NEW m, Fresh(Mem, m, P), Exact(Mem, m, P),
         pt' = m.pt, free' = m.free, others' = others, \A v \in P : ~Running(v),
         \/ leaked' = leaked \cup (free \ free') /\ \A v \in Virt : Running(v)' <=> Running(v)
         \/ leaked' = leaked /\ \A v \in Virt : Running(v)' <=> Running(v) \/ v \in P
  PROVE  Accounted'
<1>1. /\ \A v \in Virt \ P : pt'[v] = pt[v]
      /\ \A v \in P : pt'[v] \in free \ free'
      /\ free' \subseteq free
      /\ \A f \in free \ free' : \E v \in P : pt'[v] = f
  BY DEF Fresh, Exact, Mem
<1>2. /\ free \cap others = {}
      /\ \A v \in Virt : Running(v) => pt[v] \notin free /\ v \notin P /\ pt'[v] = pt[v]
  BY <1>1 DEF Apart
<1>3. /\ leaked \cap (free \cup others) = {}
      /\ \A v \in Virt : Running(v) => pt[v] \notin leaked
      /\ \A f \in FRAMES : f \notin free <=> \/ \E v \in Virt : Running(v) /\ pt[v] = f
                                            \/ f \in others \cup leaked
  BY DEF Accounted
<1>4. CASE leaked' = leaked \cup (free \ free') /\ \A v \in Virt : Running(v)' <=> Running(v)
  <2>1. leaked' \cap (free' \cup others') = {}
    BY <1>1, <1>2, <1>3, <1>4
  <2>2. \A v \in Virt : Running(v)' => pt'[v] \notin leaked'
    BY <1>2, <1>3, <1>4
  <2>3. ASSUME NEW f \in FRAMES
        PROVE  f \notin free' <=> \/ \E v \in Virt : Running(v)' /\ pt'[v] = f
                                  \/ f \in others' \cup leaked'
    <3>1. (\E v \in Virt : Running(v)' /\ pt'[v] = f) <=> (\E v \in Virt : Running(v) /\ pt[v] = f)
      BY <1>2, <1>4
    <3> QED  BY <1>1, <1>3, <1>4, <3>1
  <2> QED  BY <2>1, <2>2, <2>3 DEF Accounted
<1>5. CASE leaked' = leaked /\ \A v \in Virt : Running(v)' <=> Running(v) \/ v \in P
  <2>1. leaked' \cap (free' \cup others') = {}
    BY <1>1, <1>3, <1>5
  <2>2. \A v \in Virt : Running(v)' => pt'[v] \notin leaked'
    BY <1>1, <1>2, <1>3, <1>5
  <2>3. ASSUME NEW f \in FRAMES
        PROVE  f \notin free' <=> \/ \E v \in Virt : Running(v)' /\ pt'[v] = f
                                  \/ f \in others' \cup leaked'
    <3>1. (\E v \in Virt : Running(v)' /\ pt'[v] = f)
            <=> (\E v \in Virt : Running(v) /\ pt[v] = f) \/ (\E v \in P : pt'[v] = f)
      BY <1>2, <1>5
    <3>2. (\E v \in P : pt'[v] = f) <=> f \in free \ free'
      BY <1>1
    <3> QED  BY <1>1, <1>2, <1>3, <1>5, <3>1, <3>2
  <2> QED  BY <2>1, <2>2, <2>3 DEF Accounted
<1> QED  BY <1>4, <1>5

\* Pages that no running program has, whatever becomes of them.
LEMMA AccountedSame ==
  ASSUME Accounted, UNCHANGED <<free, others, leaked>>,
         \A v \in Virt : Running(v)' <=> Running(v),
         \A v \in Virt : Running(v) => pt'[v] = pt[v]
  PROVE  Accounted'
<1>1. ASSUME NEW f PROVE (\E v \in Virt : Running(v)' /\ pt'[v] = f)
                           <=> (\E v \in Virt : Running(v) /\ pt[v] = f)
  OBVIOUS
<1>2. /\ leaked \cap (free \cup others) = {}
      /\ \A v \in Virt : Running(v) => pt[v] \notin leaked
      /\ \A f \in FRAMES : f \notin free <=> \/ \E v \in Virt : Running(v) /\ pt[v] = f
                                            \/ f \in others \cup leaked
  BY DEF Accounted
<1>3. /\ leaked' \cap (free' \cup others') = {}
      /\ \A v \in Virt : Running(v)' => pt'[v] \notin leaked'
  BY <1>2
<1>4. \A f \in FRAMES : f \notin free' <=> \/ \E v \in Virt : Running(v)' /\ pt'[v] = f
                                          \/ f \in others' \cup leaked'
  BY <1>1, <1>2
<1> QED  BY <1>3, <1>4 DEF Accounted

\* The pages of a program that ends.
LEMMA AccountedExit ==
  ASSUME Apart, Accounted, NEW P \in SUBSET Virt, UNCHANGED <<others, leaked>>,
         others \subseteq FRAMES,
         \A v \in P : Running(v),
         \A v \in Virt : Running(v)' <=> Running(v) /\ v \notin P,
         \A v \in Virt \ P : pt'[v] = pt[v],
         \A f : f \in free' <=> f \in free \/ (f \in FRAMES /\ \E v \in P : pt[v] = f)
  PROVE  Accounted'
<1>1. NULL \notin FRAMES
  BY FramesFinite
<1>2. /\ leaked \cap (free \cup others) = {}
      /\ \A v \in Virt : Running(v) => pt[v] \notin leaked
      /\ \A f \in FRAMES : f \notin free <=> \/ \E v \in Virt : Running(v) /\ pt[v] = f
                                            \/ f \in others \cup leaked
  BY DEF Accounted
<1>3. \A v \in P : pt[v] \notin others /\ pt[v] \notin leaked
  BY <1>2 DEF Apart
<1>4. \A u \in Virt, v \in P : Running(u) /\ u \notin P /\ pt[v] \in FRAMES => pt[u] # pt[v]
  BY <1>1 DEF Apart
<1>5. leaked' \cap (free' \cup others') = {}
  BY <1>2, <1>3
<1>6. \A v \in Virt : Running(v)' => pt'[v] \notin leaked'
  BY <1>2
<1>7. ASSUME NEW f \in FRAMES
      PROVE  f \notin free' <=> \/ \E v \in Virt : Running(v)' /\ pt'[v] = f
                                \/ f \in others' \cup leaked'
  <2>1. (\E v \in Virt : Running(v)' /\ pt'[v] = f) <=> (\E v \in Virt : Running(v) /\ v \notin P /\ pt[v] = f)
    OBVIOUS
  <2>2. CASE \E v \in P : pt[v] = f
    <3>1. f \in free' /\ f \notin others \cup leaked
      BY <1>3, <2>2
    <3>2. ~\E v \in Virt : Running(v) /\ v \notin P /\ pt[v] = f
      BY <1>4, <2>2
    <3> QED  BY <2>1, <3>1, <3>2
  <2>3. CASE ~\E v \in P : pt[v] = f
    <3>1. f \in free' <=> f \in free
      BY <2>3
    <3>2. (\E v \in Virt : Running(v) /\ v \notin P /\ pt[v] = f) <=> (\E v \in Virt : Running(v) /\ pt[v] = f)
      BY <2>3
    <3> QED  BY <1>2, <2>1, <3>1, <3>2
  <2> QED  BY <2>2, <2>3
<1> QED  BY <1>5, <1>6, <1>7 DEF Accounted

-----------------------------------------------------------------------------
\* The activations in progress.
LEMMA Activations ==
  ASSUME Nested
  PROVE  /\ DOMAIN progs = 1 .. Len(progs) /\ Len(progs) \in 0 .. MAX_EXEC_DEPTH
         /\ \A i \in 1 .. Len(progs) :
              /\ progs[i] \in Prog /\ progs[i].image \in Images /\ progs[i].met \in BOOLEAN
              /\ progs[i].depth \in 0 .. MAX_EXEC_DEPTH - 1
              /\ ProgPages(progs[i]) \subseteq Virt
<1>1. DOMAIN progs = 1 .. Len(progs) /\ Len(progs) \in Nat /\ MAX_EXEC_DEPTH \in Nat
      /\ Len(progs) <= MAX_EXEC_DEPTH
  BY ExecAssumption, LenProperties DEF Nested
<1>2. ASSUME NEW i \in 1 .. Len(progs)
      PROVE  /\ progs[i] \in Prog /\ progs[i].image \in Images /\ progs[i].met \in BOOLEAN
             /\ progs[i].depth \in 0 .. MAX_EXEC_DEPTH - 1
             /\ ProgPages(progs[i]) \subseteq Virt
  <2>1. progs[i] \in Prog
    BY ElementOfSeq DEF Nested
  <2>2. progs[i].image \in Images /\ progs[i].met \in BOOLEAN
    BY <2>1 DEF Prog
  <2>3. progs[i].depth \in 0 .. MAX_EXEC_DEPTH - 1
    BY <1>1 DEF Nested
  <2>4. ProgPages(progs[i]) \subseteq Virt
    BY <2>2, <2>3, ImagePagesIn, StackPagesIn DEF ProgPages
  <2> QED  BY <2>1, <2>2, <2>3, <2>4
<1> QED  BY <1>1, <1>2

\* What each of them saved.
LEMMA Saved ==
  ASSUME Nested
  PROVE  /\ progs \in Seq(Prog)
         /\ \A i \in 1 .. Len(progs) :
              /\ progs[i].depth = i - 1
              /\ progs[i].ctx = IF i = 1 THEN BOOT ELSE i - 2
              /\ DOMAIN progs[i].own = ProgPages(progs[i])
BY DEF Nested

\* A load that starts no program leaves the activations as they are.
LEMMA MarkedStep ==
  ASSUME Nested, NEW P \in SUBSET Virt, progs' = Marked(P), UNCHANGED <<exec_ctx_depth, esp0>>
  PROVE  /\ Nested' /\ \A v \in Virt : Running(v)' <=> Running(v)
         /\ Meets(P) <=> \E v \in P : Running(v)
         /\ OwnKept /\ (\A v \in Virt \ P : pt'[v] = pt[v]) => OwnKept'
         /\ Disjoint /\ ~Meets(P) => Disjoint'
<1>1. /\ DOMAIN progs = 1 .. Len(progs)
      /\ \A i \in 1 .. Len(progs) : ProgPages(progs[i]) \subseteq Virt
  BY Activations
<1>2. progs \in Seq(Prog)
  BY DEF Nested
<1>3. progs' \in Seq(Prog) /\ Len(progs') = Len(progs)
  BY <1>2, MarkedIs
<1>4. \A i \in 1 .. Len(progs) :
        /\ progs'[i].image = progs[i].image /\ progs'[i].depth = progs[i].depth
        /\ progs'[i].ctx = progs[i].ctx /\ progs'[i].own = progs[i].own
        /\ progs'[i].met <=> (progs[i].met \/ ProgPages(progs[i]) \cap P # {})
  BY <1>2, MarkedIs
<1>5. DOMAIN progs' = 1 .. Len(progs)
  BY <1>3, LenProperties
<1>6. \A i \in 1 .. Len(progs) : ProgPages(progs'[i]) = ProgPages(progs[i])
  BY <1>4 DEF ProgPages
<1>7. Nested'
  <2>1. \A i \in 1 .. Len(progs) :
          /\ progs'[i].depth = i - 1
          /\ progs'[i].ctx = IF i = 1 THEN BOOT ELSE i - 2
          /\ DOMAIN progs'[i].own = ProgPages(progs'[i])
    BY <1>4, <1>6 DEF Nested
  <2>2. \A i, j \in 1 .. Len(progs) :
          i < j /\ ~progs'[i].met => ProgPages(progs'[i]) \cap ProgPages(progs'[j]) = {}
    BY <1>4, <1>6 DEF Nested
  <2> QED  BY <1>3, <2>1, <2>2 DEF Nested, ProgPages
<1>8. \A v \in Virt : Running(v)' <=> Running(v)
  BY <1>1, <1>5, <1>6 DEF Running
<1>9. Meets(P) <=> \E v \in P : Running(v)
  BY <1>1 DEF Meets, Running
<1>10. ASSUME OwnKept, \A v \in Virt \ P : pt'[v] = pt[v] PROVE OwnKept'
  <2> SUFFICES ASSUME NEW i \in 1 .. Len(progs), ~progs'[i].met, NEW v \in DOMAIN progs'[i].own
               PROVE  pt'[v] = progs'[i].own[v] /\ pt'[v] \in FRAMES
    BY <1>5 DEF OwnKept
  <2>1. ~progs[i].met /\ progs'[i].own = progs[i].own /\ v \in ProgPages(progs[i]) /\ v \notin P
    BY <1>4 DEF Nested
  <2>2. v \in Virt /\ pt'[v] = pt[v]
    BY <1>1, <1>10, <2>1
  <2>3. pt[v] = progs[i].own[v] /\ pt[v] \in FRAMES
    BY <1>1, <1>10, <2>1 DEF OwnKept
  <2> QED  BY <2>1, <2>2, <2>3
<1>11. ASSUME Disjoint, ~Meets(P) PROVE Disjoint'
  <2>1. \A i \in 1 .. Len(progs) : ProgPages(progs[i]) \cap P = {}
    BY <1>1, <1>11 DEF Meets
  <2>2. \A i \in 1 .. Len(progs) : ~progs'[i].met
    BY <1>1, <1>4, <1>11, <2>1 DEF Disjoint
  <2> QED  BY <1>5, <2>2 DEF Disjoint
<1> QED  BY <1>7, <1>8, <1>9, <1>10, <1>11

\* The memory as elf_exec finds it.
LEMMA MemIs == ASSUME TypeOK PROVE Mem \in Memory /\ Mem.pt = pt /\ Mem.free = free
BY DEF TypeOK, Mem, Memory, Phys

\* elf_load fails.
LEMMA LoadFailsStep ==
  ASSUME ExecInv, NEW im \in Images, NEW r, r = elf_load(Mem, im), Elf_exec_load_fails(im, r)
  PROVE  ExecInv'
<1>1. TypeOK /\ Nested
  BY DEF ExecInv
<1>2. Mem \in Memory /\ Mem.pt = pt /\ Mem.free = free
  BY <1>1, MemIs
<1>3. PICK P : P = r.pages
  OBVIOUS
<1>4. /\ ~r.ok /\ pt' = r.mem.pt /\ free' = r.mem.free /\ progs' = Marked(P)
      /\ overlap' = Overlapped("failed", P) /\ stale' = stale \cup P
      /\ UNCHANGED <<exec_ctx_depth, esp0, halted, others, leaked>>
  BY <1>3 DEF Elf_exec_load_fails, SetMem
<1>5. /\ P \in SUBSET Virt /\ r.mem \in Memory /\ free' = free
      /\ \A v \in Virt \ P : pt'[v] = pt[v]
      /\ \A v \in P : pt'[v] \in free
  BY <1>2, <1>3, <1>4, LoadIs
<1>6. /\ Nested' /\ \A v \in Virt : Running(v)' <=> Running(v)
      /\ Meets(P) <=> \E v \in P : Running(v)
      /\ OwnKept => OwnKept'
      /\ Disjoint /\ ~Meets(P) => Disjoint'
  BY <1>1, <1>4, <1>5, MarkedStep
<1>7. TypeOK'
  <2>1. pt' \in [Virt -> Phys] /\ free' \subseteq FRAMES
    BY <1>4, <1>5 DEF Memory
  <2>2. overlap' \in {"none", "load", "failed"}
    BY <1>1, <1>4 DEF Overlapped, TypeOK
  <2> QED  BY <1>1, <1>4, <1>5, <1>6, <2>1, <2>2 DEF TypeOK, Nested, Phys
<1>8. ASSUME overlap' # "failed" PROVE overlap # "failed" /\ overlap' = overlap /\ ~Meets(P)
  BY <1>4, <1>8 DEF Overlapped
<1>9. ASSUME overlap' # "failed" PROVE Apart'
  <2>1. Apart /\ \A v \in P : ~Running(v)
    BY <1>6, <1>8, <1>9 DEF ExecInv
  <2>2. OwnKept'
    BY <1>6, <2>1 DEF Apart, OwnKept
  <2> QED  BY <1>4, <1>5, <1>6, <2>1, <2>2, ApartLeft
<1>10. ASSUME overlap' = "none" PROVE (Disjoint /\ Accounted)'
  <2>1. Disjoint /\ Accounted /\ ~Meets(P) /\ \A v \in P : ~Running(v)
    BY <1>6, <1>8, <1>10 DEF ExecInv
  <2>2. \A v \in Virt : Running(v) => pt'[v] = pt[v]
    BY <1>5, <2>1
  <2> QED  BY <1>4, <1>5, <1>6, <2>1, <2>2, AccountedSame
<1> QED  BY <1>6, <1>7, <1>9, <1>10 DEF ExecInv

\* The program is loaded, and refused: its frames are lost and its pages left.
LEMMA TooDeepStep ==
  ASSUME ExecInv, NEW im \in Images, NEW r, r = elf_load(Mem, im), Elf_exec_too_deep(im, r)
  PROVE  ExecInv'
<1>1. TypeOK /\ Nested
  BY DEF ExecInv
<1>2. Mem \in Memory /\ Mem.pt = pt /\ Mem.free = free
  BY <1>1, MemIs
<1>3. PICK P, m : P = r.pages /\ m = r.mem
  OBVIOUS
<1>4. /\ r.ok /\ pt' = m.pt /\ free' = m.free /\ progs' = Marked(P)
      /\ overlap' = Overlapped("load", P) /\ stale' = stale \cup P
      /\ leaked' = leaked \cup (free \ free')
      /\ UNCHANGED <<exec_ctx_depth, esp0, halted, others>>
  BY <1>3 DEF Elf_exec_too_deep, SetMem
<1>5. P \in SUBSET Virt /\ m \in Memory /\ Fresh(Mem, m, P) /\ Exact(Mem, m, P)
  BY <1>2, <1>3, <1>4, LoadIs
<1>6. \A v \in Virt \ P : pt'[v] = pt[v]
  BY <1>2, <1>4, <1>5 DEF Fresh
<1>7. /\ Nested' /\ \A v \in Virt : Running(v)' <=> Running(v)
      /\ Meets(P) <=> \E v \in P : Running(v)
      /\ OwnKept => OwnKept'
      /\ Disjoint /\ ~Meets(P) => Disjoint'
  BY <1>1, <1>4, <1>5, <1>6, MarkedStep
<1>8. TypeOK'
  <2>1. pt' \in [Virt -> Phys] /\ free' \subseteq FRAMES
    BY <1>4, <1>5 DEF Memory
  <2>2. overlap' \in {"none", "load", "failed"}
    BY <1>1, <1>4 DEF Overlapped, TypeOK
  <2>3. leaked' \subseteq FRAMES
    BY <1>1, <1>4 DEF TypeOK
  <2> QED  BY <1>1, <1>4, <1>5, <1>7, <2>1, <2>2, <2>3 DEF TypeOK, Nested, Phys
<1>9. ASSUME overlap' # "failed" PROVE Apart'
  <2>1. Apart
    BY <1>4, <1>9 DEF ExecInv, Overlapped
  <2>2. OwnKept'
    BY <1>7, <2>1 DEF Apart, OwnKept
  <2>3. stale \subseteq stale' /\ others' = others
    BY <1>4
  <2> QED  BY <1>4, <1>5, <1>7, <2>1, <2>2, <2>3, ApartFresh
<1>10. ASSUME overlap' = "none" PROVE (Disjoint /\ Accounted)'
  <2>1. overlap = "none" /\ ~Meets(P)
    BY <1>4, <1>10 DEF Overlapped
  <2>2. Apart /\ Disjoint /\ Accounted /\ \A v \in P : ~Running(v)
    BY <1>7, <2>1 DEF ExecInv
  <2>3. Accounted'
    BY <1>4, <1>5, <1>7, <2>2, AccountedFresh
  <2> QED  BY <1>7, <2>1, <2>2, <2>3
<1> QED  BY <1>7, <1>8, <1>9, <1>10 DEF ExecInv

\* The part of the stack that could be had is given back, then the image.
LEMMA NoStackStep ==
  ASSUME ExecInv, NEW im \in Images, NEW r, r = elf_load(Mem, im), Elf_exec_no_stack(im, r)
  PROVE  ExecInv'
<1>1. TypeOK /\ Nested
  BY DEF ExecInv
<1>2. Mem \in Memory /\ Mem.pt = pt /\ Mem.free = free
  BY <1>1, MemIs
<1>3. PICK I, a, got, sp, stk :
        /\ I = r.pages /\ a = r.mem /\ got = Cardinality(r.mem.free)
        /\ sp = USER_STACK_BASE + exec_ctx_depth * USER_STACK_STEP /\ stk = Span(sp, got)
  OBVIOUS
<1>4. PICK c, b : c = MapPages(a, sp, got) /\ b = Undo(c, stk, im)
  OBVIOUS
<1>5. PICK P : P = I \cup stk
  OBVIOUS
<1>6. /\ r.ok /\ ~TooDeep /\ got < USER_STACK_PAGES
      /\ pt' = b.pt /\ free' = b.free /\ progs' = Marked(P)
      /\ overlap' = IF I \cap stk # {} /\ overlap = "none" THEN "load" ELSE Overlapped("load", P)
      /\ UNCHANGED <<exec_ctx_depth, esp0, halted, others, leaked, stale>>
  BY <1>3, <1>4, <1>5 DEF Elf_exec_no_stack, SetMem
<1>7. /\ I \in SUBSET Virt /\ I = ImagePages(im) /\ a \in Memory
      /\ Fresh(Mem, a, I) /\ Exact(Mem, a, I)
  BY <1>2, <1>3, <1>6, LoadIs
<1>8. got \in Nat /\ got <= Cardinality(a.free)
  BY <1>3, <1>7, FramesFinite DEF Memory
<1>9. sp \in Nat /\ stk \in SUBSET Virt
  <2>1. exec_ctx_depth \in 0 .. MAX_EXEC_DEPTH - 1
    BY <1>1, <1>6, Activations, ExecAssumption DEF TooDeep, Nested
  <2>2. sp \in Nat /\ StackPages(exec_ctx_depth) \subseteq Virt
    BY <1>3, <2>1, StackPagesIn
  <2>3. stk \subseteq StackPages(exec_ctx_depth)
    BY <1>3, <1>6, <1>8, <2>2, ExecAssumption DEF StackPages, Span
  <2> QED  BY <2>2, <2>3
<1>10. Fresh(a, c, stk) /\ Exact(a, c, stk)
  BY <1>3, <1>4, <1>7, <1>8, <1>9, MapFresh
<1>11. P \in SUBSET Virt /\ Fresh(Mem, c, P) /\ (I \cap stk = {} => Exact(Mem, c, P))
  BY <1>2, <1>5, <1>7, <1>9, <1>10, FreshTwice
<1>12. /\ b \in Memory
       /\ \A v \in Virt : b.pt[v] = IF v \in P THEN NULL ELSE c.pt[v]
       /\ \A f : f \in b.free <=> f \in c.free \/ (f \in FRAMES /\ \E v \in P : c.pt[v] = f)
  <2>1. c \in Memory
    BY <1>10 DEF Fresh
  <2>2. b = Unmap(Unmap(c, stk), I) /\ P = stk \cup I
    BY <1>4, <1>5, <1>7 DEF Undo
  <2> QED  BY <1>7, <1>9, <2>1, <2>2, UnmapTwice
<1>13. /\ \A v \in Virt : pt'[v] = IF v \in P THEN NULL ELSE pt[v]
       /\ free' \subseteq free
       /\ I \cap stk = {} => free' = free
  <2>1. \A v \in Virt \ P : c.pt[v] = pt[v]
    BY <1>2, <1>11 DEF Fresh
  <2>2. c.free \subseteq free /\ \A v \in P : c.pt[v] \in free
    BY <1>2, <1>11 DEF Fresh
  <2>3. I \cap stk = {} => \A f \in free \ c.free : \E v \in P : c.pt[v] = f
    BY <1>2, <1>11 DEF Exact
  <2>4. free \subseteq FRAMES
    BY <1>1 DEF TypeOK
  <2>5. free' \subseteq free
    BY <1>6, <1>12, <2>2
  <2>6. I \cap stk = {} => free \subseteq free'
    BY <1>6, <1>12, <2>3, <2>4
  <2> QED  BY <1>6, <1>12, <2>1, <2>5, <2>6
<1>14. /\ Nested' /\ \A v \in Virt : Running(v)' <=> Running(v)
       /\ Meets(P) <=> \E v \in P : Running(v)
       /\ OwnKept => OwnKept'
       /\ Disjoint /\ ~Meets(P) => Disjoint'
  <2>1. \A v \in Virt \ P : pt'[v] = pt[v]
    BY <1>13
  <2> QED  BY <1>1, <1>6, <1>11, <2>1, MarkedStep
<1>15. TypeOK'
  <2>1. pt' \in [Virt -> Phys] /\ free' \subseteq FRAMES
    BY <1>6, <1>12 DEF Memory
  <2>2. overlap' \in {"none", "load", "failed"}
    BY <1>1, <1>6 DEF Overlapped, TypeOK
  <2> QED  BY <1>1, <1>6, <1>14, <2>1, <2>2 DEF TypeOK, Nested, Phys
<1>16. ASSUME overlap' # "failed" PROVE Apart'
  <2>1. Apart
    BY <1>6, <1>16 DEF ExecInv, Overlapped
  <2>2. OwnKept'
    BY <1>14, <2>1 DEF Apart, OwnKept
  <2>3. free \subseteq FRAMES /\ others \subseteq FRAMES /\ others' = others /\ stale' = stale
    BY <1>1, <1>6 DEF TypeOK
  <2>4. \A f \in free' : f \in free
    BY <1>13
  <2>5. \A v \in Virt : pt'[v] = IF v \in P THEN NULL ELSE pt[v]
    BY <1>13
  <2> QED  BY <1>11, <1>14, <2>1, <2>2, <2>3, <2>4, <2>5, ApartClear
<1>17. ASSUME overlap' = "none" PROVE (Disjoint /\ Accounted)'
  <2>1. overlap = "none" /\ I \cap stk = {} /\ ~Meets(P)
    BY <1>6, <1>17 DEF Overlapped
  <2>2. Disjoint /\ Accounted /\ \A v \in P : ~Running(v)
    BY <1>14, <2>1 DEF ExecInv
  <2>3. UNCHANGED <<free, others, leaked>> /\ \A v \in Virt : Running(v) => pt'[v] = pt[v]
    BY <1>6, <1>13, <2>1, <2>2
  <2>4. Accounted'
    BY <1>14, <2>2, <2>3, AccountedSame
  <2> QED  BY <1>14, <2>1, <2>2, <2>4
<1> QED  BY <1>14, <1>15, <1>16, <1>17 DEF ExecInv

\* A program starts: one activation more, on the next stack, with pages mapped to
\* frames of its own.
LEMMA StartStep ==
  ASSUME ExecInv, NEW im \in Images, NEW r, r = elf_load(Mem, im), Elf_exec_starts(im, r)
  PROVE  ExecInv'
<1>1. TypeOK /\ Nested
  BY DEF ExecInv
<1>2. Mem \in Memory /\ Mem.pt = pt /\ Mem.free = free
  BY <1>1, MemIs
<1>3. PICK d, I, a : d = exec_ctx_depth /\ I = r.pages /\ a = r.mem
  OBVIOUS
<1>4. PICK m, P, self :
        /\ m = MapPages(a, USER_STACK_BASE + d * USER_STACK_STEP, USER_STACK_PAGES)
        /\ P = I \cup StackPages(d)
        /\ self \in BOOLEAN /\ self = (I \cap StackPages(d) # {})
  OBVIOUS
<1>5. PICK new : new = [image |-> im, depth |-> d, ctx |-> Here, met |-> self,
                        own |-> [v \in P |-> m.pt[v]]]
  OBVIOUS
<1>6. PICK q : q = Marked(P)
  OBVIOUS
<1>7. /\ r.ok /\ ~TooDeep /\ Cardinality(a.free) >= USER_STACK_PAGES
      /\ pt' = m.pt /\ free' = m.free /\ esp0' = kstack_top(d) /\ exec_ctx_depth' = d + 1
      /\ progs' = Append(q, new)
      /\ overlap' = IF self /\ overlap = "none" THEN "load" ELSE Overlapped("load", P)
      /\ UNCHANGED <<halted, others, leaked, stale>>
  BY <1>3, <1>4, <1>5, <1>6 DEF Elf_exec_starts, SetMem, Deeper
<1>8. /\ I \in SUBSET Virt /\ I = ImagePages(im) /\ a \in Memory
      /\ Fresh(Mem, a, I) /\ Exact(Mem, a, I)
  BY <1>2, <1>3, <1>7, LoadIs
<1>9. d \in 0 .. MAX_EXEC_DEPTH - 1 /\ d = Len(progs) /\ DOMAIN progs = 1 .. d
      /\ MAX_EXEC_DEPTH \in Nat /\ d \in Nat
  BY <1>1, <1>3, <1>7, Activations, ExecAssumption DEF TooDeep, Nested
<1>10. Fresh(a, m, StackPages(d)) /\ Exact(a, m, StackPages(d)) /\ StackPages(d) \in SUBSET Virt
  <2>1. USER_STACK_BASE + d * USER_STACK_STEP \in Nat /\ StackPages(d) \subseteq Virt
    BY <1>9, StackPagesIn
  <2>2. USER_STACK_PAGES \in Nat /\ USER_STACK_PAGES <= Cardinality(a.free)
    BY <1>7, <1>8, ExecAssumption, FramesFinite DEF Memory
  <2> QED  BY <1>4, <1>8, <2>1, <2>2, MapFresh DEF StackPages
<1>11. P \in SUBSET Virt /\ Fresh(Mem, m, P) /\ (~self => Exact(Mem, m, P)) /\ m \in Memory
  <2>1. P \in SUBSET Virt /\ Fresh(Mem, m, P) /\ (I \cap StackPages(d) = {} => Exact(Mem, m, P))
    BY <1>2, <1>4, <1>8, <1>10, FreshTwice
  <2> QED  BY <1>4, <2>1 DEF Fresh
<1>12. /\ \A v \in Virt \ P : pt'[v] = pt[v]
       /\ \A v \in P : pt'[v] \in free \ free'
  BY <1>2, <1>7, <1>11 DEF Fresh
<1>13. new \in Prog /\ DOMAIN new.own = P /\ ProgPages(new) = P
       /\ new.depth = d /\ new.met = self /\ new.ctx = Here /\ \A v \in P : new.own[v] = pt'[v]
  <2>1. m.pt \in [Virt -> Phys]
    BY <1>11 DEF Memory
  <2>2. [v \in P |-> m.pt[v]] \in UNION {[Q -> Phys] : Q \in SUBSET Virt}
    <3>1. [v \in P |-> m.pt[v]] \in [P -> Phys]
      BY <1>11, <2>1
    <3> QED  BY <1>11, <3>1
  <2>3. Here \in Int
    BY <1>1, <1>9 DEF Here, Nested, BOOT
  <2>4. new \in Prog
    BY <1>4, <1>5, <1>9, <2>2, <2>3 DEF Prog
  <2>5. ProgPages(new) = P
    BY <1>4, <1>5, <1>8 DEF ProgPages
  <2> QED  BY <1>5, <1>7, <2>4, <2>5
<1>14. /\ q \in Seq(Prog) /\ Len(q) = d
       /\ \A i \in 1 .. d :
            /\ q[i].image = progs[i].image /\ q[i].depth = progs[i].depth
            /\ q[i].ctx = progs[i].ctx /\ q[i].own = progs[i].own
            /\ q[i].met <=> (progs[i].met \/ ProgPages(progs[i]) \cap P # {})
  <2>1. progs \in Seq(Prog)
    BY <1>1, Saved
  <2> QED  BY <1>6, <1>9, <2>1, MarkedIs
<1>15. /\ progs' \in Seq(Prog) /\ Len(progs') = d + 1 /\ DOMAIN progs' = 1 .. d + 1
       /\ progs'[d + 1] = new /\ \A i \in 1 .. d : progs'[i] = q[i]
  BY <1>7, <1>9, <1>13, <1>14, AppendProperties
<1>16. \A i \in 1 .. d : ProgPages(progs'[i]) = ProgPages(progs[i])
  BY <1>14, <1>15 DEF ProgPages
<1>17. \A i \in 1 .. d + 1 : i \in 1 .. d \/ i = d + 1
  BY <1>9
<1>18. Nested'
  <2>1. esp0' = d /\ d + 1 # 0 /\ (d + 1) - 1 = d /\ d + 1 <= MAX_EXEC_DEPTH
    BY <1>7, <1>9 DEF kstack_top
  <2>2. Here = IF d + 1 = 1 THEN BOOT ELSE (d + 1) - 2
    <3>1. progs = <<>> <=> d = 0
      BY <1>1, <1>9, EmptySeq DEF Nested
    <3> QED  BY <1>1, <1>3, <1>9, <3>1 DEF Here, Nested
  <2>3. ASSUME NEW i \in 1 .. d + 1
        PROVE  /\ progs'[i].depth = i - 1
               /\ progs'[i].ctx = IF i = 1 THEN BOOT ELSE i - 2
               /\ DOMAIN progs'[i].own = ProgPages(progs'[i])
    <3>1. CASE i \in 1 .. d
      <4>1. /\ progs[i].depth = i - 1
            /\ progs[i].ctx = IF i = 1 THEN BOOT ELSE i - 2
            /\ DOMAIN progs[i].own = ProgPages(progs[i])
        BY <1>1, <1>9, <3>1, Saved
      <4>2. /\ progs'[i].depth = progs[i].depth /\ progs'[i].ctx = progs[i].ctx
            /\ progs'[i].own = progs[i].own /\ ProgPages(progs'[i]) = ProgPages(progs[i])
        BY <1>14, <1>15, <1>16, <3>1
      <4> QED  BY <4>1, <4>2
    <3>2. CASE i = d + 1
      BY <1>9, <1>13, <1>15, <2>1, <2>2, <3>2
    <3> QED  BY <1>17, <3>1, <3>2
  <2>4. ASSUME NEW i \in 1 .. d + 1, NEW j \in 1 .. d + 1, i < j, ~progs'[i].met
        PROVE  ProgPages(progs'[i]) \cap ProgPages(progs'[j]) = {}
    <3>1. i \in 1 .. d
      BY <1>9, <2>4
    <3>2. ~progs[i].met /\ ProgPages(progs[i]) \cap P = {}
      BY <1>14, <1>15, <2>4, <3>1
    <3>3. CASE j \in 1 .. d
      BY <1>1, <1>9, <1>16, <2>4, <3>1, <3>2, <3>3 DEF Nested
    <3>4. CASE j = d + 1
      BY <1>13, <1>15, <1>16, <3>1, <3>2, <3>4
    <3> QED  BY <1>17, <3>3, <3>4
  <2> QED  BY <1>7, <1>15, <2>1, <2>3, <2>4 DEF Nested, ProgPages
<1>19. \A v \in Virt : Running(v)' <=> Running(v) \/ v \in P
  <2> SUFFICES ASSUME NEW v \in Virt PROVE Running(v)' <=> Running(v) \/ v \in P
    OBVIOUS
  <2>1. Running(v)' <=> \E i \in 1 .. d + 1 : v \in ProgPages(progs'[i])
    BY <1>15 DEF Running, ProgPages
  <2>2. d + 1 \in 1 .. d + 1 /\ \A i \in 1 .. d : i \in 1 .. d + 1
    BY <1>9
  <2>3. Running(v) <=> \E i \in 1 .. d : v \in ProgPages(progs[i])
    BY <1>9 DEF Running
  <2> QED  BY <1>13, <1>15, <1>16, <1>17, <2>1, <2>2, <2>3
<1>20. Meets(P) <=> \E v \in P : Running(v)
  BY <1>9, <1>11 DEF Meets, Running
<1>21. TypeOK'
  <2>1. pt' \in [Virt -> Phys] /\ free' \subseteq FRAMES
    BY <1>7, <1>11 DEF Memory
  <2>2. overlap' \in {"none", "load", "failed"}
    BY <1>1, <1>7 DEF Overlapped, TypeOK
  <2>3. esp0' \in {BOOT} \cup 0 .. MAX_EXEC_DEPTH - 1 /\ exec_ctx_depth' \in 0 .. MAX_EXEC_DEPTH
    BY <1>7, <1>9 DEF kstack_top
  <2> QED  BY <1>1, <1>7, <1>15, <2>1, <2>2, <2>3 DEF TypeOK, Phys
<1>22. ASSUME overlap' # "failed" PROVE Apart'
  <2>1. Apart
    BY <1>7, <1>22 DEF ExecInv, Overlapped
  <2>2. OwnKept'
    <3> SUFFICES ASSUME NEW i \in 1 .. d + 1, ~progs'[i].met, NEW v \in DOMAIN progs'[i].own
                 PROVE  pt'[v] = progs'[i].own[v] /\ pt'[v] \in FRAMES
      BY <1>15 DEF OwnKept
    <3>1. CASE i \in 1 .. d
      <4>1. ~progs[i].met /\ progs'[i].own = progs[i].own /\ v \in ProgPages(progs[i]) /\ v \notin P
        BY <1>1, <1>9, <1>14, <1>15, <3>1 DEF Nested
      <4>2. v \in Virt
        BY <1>1, <1>9, <3>1, <4>1, Activations
      <4> QED  BY <1>9, <1>12, <2>1, <3>1, <4>1, <4>2 DEF Apart
    <3>2. CASE i = d + 1
      BY <1>1, <1>12, <1>13, <1>15, <3>2 DEF TypeOK
    <3> QED  BY <1>17, <3>1, <3>2
  <2>3. others' = others /\ stale \subseteq stale'
    BY <1>7
  <2> QED  BY <1>7, <1>11, <1>19, <2>1, <2>2, <2>3, ApartFresh
<1>23. ASSUME overlap' = "none" PROVE (Disjoint /\ Accounted)'
  <2>1. overlap = "none" /\ ~self /\ ~Meets(P)
    BY <1>4, <1>7, <1>23 DEF Overlapped
  <2>2. Apart /\ Disjoint /\ Accounted /\ \A v \in P : ~Running(v)
    BY <1>20, <2>1 DEF ExecInv
  <2>3. Accounted'
    <3>1. leaked' = leaked /\ others' = others
      BY <1>7
    <3> QED  BY <1>7, <1>11, <1>19, <2>1, <2>2, <3>1, AccountedFresh
  <2>4. \A i \in 1 .. d : ProgPages(progs[i]) \cap P = {}
    BY <1>9, <2>1 DEF Meets
  <2>5. ASSUME NEW i \in 1 .. d + 1 PROVE ~progs'[i].met
    <3>1. i \in 1 .. d => ~progs'[i].met
      BY <1>9, <1>14, <1>15, <2>2, <2>4 DEF Disjoint
    <3> QED  BY <1>13, <1>15, <1>17, <2>1, <3>1
  <2>6. Disjoint'
    BY <1>15, <2>5 DEF Disjoint
  <2> QED  BY <2>3, <2>6
<1> QED  BY <1>18, <1>21, <1>22, <1>23 DEF ExecInv

\* The program that runs ends: its pages' frames are freed, and they were nobody
\* else's.
LEMMA ExitStep == ASSUME ExecInv, elf_exit PROVE ExecInv'
<1>1. TypeOK /\ Nested
  BY DEF ExecInv
<1>2. Mem \in Memory /\ Mem.pt = pt /\ Mem.free = free
  BY <1>1, MemIs
<1>3. PICK n, p : n = exec_ctx_depth /\ p = progs[n]
  OBVIOUS
<1>4. /\ n = Len(progs) /\ n \in 1 .. MAX_EXEC_DEPTH /\ DOMAIN progs = 1 .. n
      /\ n \in Nat /\ MAX_EXEC_DEPTH \in Nat
  BY <1>1, <1>3, Activations, ExecAssumption DEF elf_exit, Nested
<1>5. p.image \in Images /\ p.depth \in 0 .. MAX_EXEC_DEPTH - 1 /\ p.depth = n - 1
  <2>1. n \in 1 .. Len(progs)
    BY <1>4
  <2> QED  BY <1>1, <1>3, <2>1, Activations, Saved
<1>6. PICK b, P : b = Cleaned(Mem, p) /\ P = ProgPages(p)
  OBVIOUS
<1>7. /\ exec_ctx_depth' = n - 1 /\ esp0' = Esp0After(n - 1)
      /\ pt' = b.pt /\ free' = b.free /\ progs' = SubSeq(progs, 1, n - 1)
      /\ UNCHANGED <<halted, others, overlap, leaked, stale>>
  BY <1>3, <1>5, <1>6 DEF elf_exit, SetMem, hist
<1>8. /\ P \in SUBSET Virt /\ b \in Memory
      /\ \A v \in Virt : pt'[v] = IF v \in P THEN NULL ELSE pt[v]
      /\ \A f : f \in free' <=> f \in free \/ (f \in FRAMES /\ \E v \in P : pt[v] = f)
  <2>1. StackPages(p.depth) \in SUBSET Virt /\ ImagePages(p.image) \in SUBSET Virt
    BY <1>5, StackPagesIn, ImagePagesIn
  <2>2. P = StackPages(p.depth) \cup ImagePages(p.image)
    BY <1>6 DEF ProgPages
  <2>3. b = Unmap(Unmap(Mem, StackPages(p.depth)), ImagePages(p.image))
    BY <1>6 DEF Cleaned
  <2>4. /\ b \in Memory
        /\ \A v \in Virt : b.pt[v] = IF v \in P THEN NULL ELSE Mem.pt[v]
        /\ \A f : f \in b.free <=> f \in Mem.free \/ (f \in FRAMES /\ \E v \in P : Mem.pt[v] = f)
    BY <1>2, <2>1, <2>2, <2>3, UnmapTwice
  <2> QED  BY <1>2, <1>7, <2>1, <2>2, <2>4
<1>9. /\ progs' \in Seq(Prog) /\ Len(progs') = n - 1 /\ DOMAIN progs' = 1 .. n - 1
      /\ \A i \in 1 .. n - 1 : progs'[i] = progs[i]
  <2>1. progs \in Seq(Prog) /\ 1 \in 1 .. Len(progs) + 1 /\ n - 1 \in 0 .. Len(progs)
    BY <1>1, <1>4 DEF Nested
  <2> QED  BY <1>4, <1>7, <2>1, SubSeqProperties, LenProperties
<1>10. \A i \in 1 .. n - 1 : i \in 1 .. n /\ i < n
  BY <1>4
<1>11. Nested'
  <2>1. \A i \in 1 .. n - 1 :
          /\ progs'[i].depth = i - 1
          /\ progs'[i].ctx = IF i = 1 THEN BOOT ELSE i - 2
          /\ DOMAIN progs'[i].own = ProgPages(progs'[i])
    BY <1>1, <1>4, <1>9, <1>10 DEF Nested
  <2>2. \A i, j \in 1 .. n - 1 :
          i < j /\ ~progs'[i].met => ProgPages(progs'[i]) \cap ProgPages(progs'[j]) = {}
    BY <1>1, <1>4, <1>9, <1>10 DEF Nested
  <2>3. esp0' = IF n - 1 = 0 THEN BOOT ELSE (n - 1) - 1
    BY <1>4, <1>7 DEF Esp0After, kstack_top
  <2>4. n - 1 <= MAX_EXEC_DEPTH
    BY <1>4
  <2> QED  BY <1>7, <1>9, <2>1, <2>2, <2>3, <2>4 DEF Nested, ProgPages
<1>12. /\ \A v \in P : Running(v)
       /\ \A v \in Virt : Running(v) <=> v \in P \/ \E i \in 1 .. n - 1 : v \in ProgPages(progs[i])
       /\ \A v \in Virt : Running(v)' <=> \E i \in 1 .. n - 1 : v \in ProgPages(progs[i])
  <2>1. n \in 1 .. n /\ \A i \in 1 .. n : i = n \/ i \in 1 .. n - 1
    BY <1>4
  <2>2. \A v \in P : Running(v)
    BY <1>3, <1>4, <1>6, <2>1 DEF Running
  <2>3. \A v \in Virt : Running(v) <=> v \in P \/ \E i \in 1 .. n - 1 : v \in ProgPages(progs[i])
    BY <1>3, <1>4, <1>6, <1>10, <2>1 DEF Running
  <2>4. \A v \in Virt : Running(v)' <=> \E i \in 1 .. n - 1 : v \in ProgPages(progs[i])
    BY <1>9 DEF Running, ProgPages
  <2> QED  BY <2>2, <2>3, <2>4
<1>13. \A i \in 1 .. n - 1 : ~progs[i].met => ProgPages(progs[i]) \cap P = {}
  <2>1. n \in 1 .. n
    BY <1>4
  <2> QED  BY <1>1, <1>3, <1>4, <1>6, <1>10, <2>1 DEF Nested
<1>14. TypeOK'
  <2>1. pt' \in [Virt -> Phys] /\ free' \subseteq FRAMES
    BY <1>7, <1>8 DEF Memory
  <2>2. esp0' \in {BOOT} \cup 0 .. MAX_EXEC_DEPTH - 1 /\ n - 1 \in 0 .. MAX_EXEC_DEPTH
    BY <1>4, <1>7 DEF Esp0After, kstack_top
  <2> QED  BY <1>1, <1>7, <1>9, <2>1, <2>2 DEF TypeOK, Phys
<1>15. ASSUME overlap' # "failed" PROVE Apart'
  <2>1. Apart
    BY <1>7, <1>15 DEF ExecInv
  <2>2. OwnKept'
    <3> SUFFICES ASSUME NEW i \in 1 .. n - 1, ~progs[i].met, NEW v \in DOMAIN progs[i].own
                 PROVE  pt'[v] = progs[i].own[v] /\ pt'[v] \in FRAMES
      BY <1>9 DEF OwnKept
    <3>1. v \in ProgPages(progs[i]) /\ v \notin P /\ v \in Virt
      <4>1. i \in 1 .. Len(progs)
        BY <1>4, <1>10
      <4>2. v \in ProgPages(progs[i]) /\ ProgPages(progs[i]) \subseteq Virt
        BY <1>1, <4>1, Activations, Saved
      <4> QED  BY <1>13, <4>2
    <3>2. pt[v] = progs[i].own[v] /\ pt[v] \in FRAMES
      BY <1>4, <1>10, <2>1 DEF Apart
    <3> QED  BY <1>8, <3>1, <3>2
  <2>3. free \subseteq FRAMES /\ others \subseteq FRAMES /\ others' = others /\ stale' = stale
    BY <1>1, <1>7 DEF TypeOK
  <2>4. \A f \in free' : f \in free \/ (f \in FRAMES /\ \E v \in P : Running(v) /\ pt[v] = f)
    BY <1>8, <1>12
  <2>5. \A v \in Virt : Running(v)' => Running(v)
    BY <1>12
  <2>6. P \in SUBSET Virt /\ \A v \in Virt : pt'[v] = IF v \in P THEN NULL ELSE pt[v]
    BY <1>8
  <2> QED  BY <2>1, <2>2, <2>3, <2>4, <2>5, <2>6, ApartClear
<1>16. ASSUME overlap' = "none" PROVE (Disjoint /\ Accounted)'
  <2>1. Apart /\ Disjoint /\ Accounted
    BY <1>7, <1>16 DEF ExecInv
  <2>2. Disjoint'
    BY <1>4, <1>9, <1>10, <2>1 DEF Disjoint
  <2>3. \A v \in Virt : Running(v)' <=> Running(v) /\ v \notin P
    <3>1. \A i \in 1 .. n - 1 : ProgPages(progs[i]) \cap P = {}
      BY <1>4, <1>10, <1>13, <2>1 DEF Disjoint
    <3> QED  BY <1>12, <3>1
  <2>4. P \in SUBSET Virt /\ \A v \in Virt \ P : pt'[v] = pt[v]
    BY <1>8
  <2>5. others \subseteq FRAMES /\ UNCHANGED <<others, leaked>>
    BY <1>1, <1>7 DEF TypeOK
  <2>6. Accounted'
    BY <1>8, <1>12, <2>1, <2>3, <2>4, <2>5, AccountedExit
  <2> QED  BY <2>2, <2>6
<1> QED  BY <1>11, <1>14, <1>15, <1>16 DEF ExecInv

\* Other clients of the allocator take no page and give none back.
LEMMA OtherStep ==
  ASSUME ExecInv, UNCHANGED <<pt, exec_ctx_depth, esp0, progs, halted, overlap, leaked, stale>>,
         free' \subseteq FRAMES, others' \subseteq FRAMES,
         free \cap others = {} => free' \cap others' = {},
         free' \cup others' = free \cup others
  PROVE  ExecInv'
<1>1. TypeOK /\ Nested
  BY DEF ExecInv
<1>2. TypeOK'
  BY <1>1 DEF TypeOK
<1>3. Nested'
  BY <1>1 DEF Nested, ProgPages
<1>4. \A v : Running(v)' <=> Running(v)
  BY DEF Running, ProgPages
<1>5. ASSUME overlap # "failed" PROVE Apart'
  <2>1. Apart
    BY <1>5 DEF ExecInv
  <2> QED  BY <1>4, <2>1 DEF Apart, LeftAt
<1>6. ASSUME overlap = "none" PROVE (Disjoint /\ Accounted)'
  <2>1. Disjoint /\ Accounted /\ Apart
    BY <1>6 DEF ExecInv
  <2>2. Disjoint'
    BY <2>1 DEF Disjoint
  <2>3. free \cap others = {} /\ free' \cap others' = {}
    BY <2>1 DEF Apart
  <2>4. \A f \in FRAMES : f \notin free' <=> \/ \E v \in Virt : Running(v)' /\ pt'[v] = f
                                            \/ f \in others' \cup leaked'
    <3> SUFFICES ASSUME NEW f \in FRAMES
                 PROVE  f \notin free' <=> \/ \E v \in Virt : Running(v) /\ pt[v] = f
                                           \/ f \in others' \cup leaked
      BY <1>4
    <3>1. f \notin free <=> \/ \E v \in Virt : Running(v) /\ pt[v] = f
                            \/ f \in others \cup leaked
      BY <2>1 DEF Accounted
    <3>2. f \in free => ~(\E v \in Virt : Running(v) /\ pt[v] = f) /\ f \notin others \cup leaked
      BY <3>1
    <3>3. f \in others => ~(\E v \in Virt : Running(v) /\ pt[v] = f) /\ f \notin leaked
      BY <2>1 DEF Apart, Accounted
    <3> QED  BY <2>3, <3>1, <3>2, <3>3
  <2> QED  BY <1>4, <2>1, <2>2, <2>4 DEF Accounted
<1> QED  BY <1>2, <1>3, <1>5, <1>6 DEF ExecInv

-----------------------------------------------------------------------------
\* At boot nothing runs, and every page maps itself.
LEMMA ExecInit == Init => ExecInv
<1> SUFFICES ASSUME Init PROVE ExecInv
  OBVIOUS
<1>1. progs = <<>> /\ Len(progs) = 0 /\ progs \in Seq(Prog) /\ DOMAIN progs = {}
  BY DEF Init
<1>2. \A v : ~Running(v)
  BY <1>1 DEF Running
<1>3. TypeOK
  <2>1. pt \in [Virt -> Virt \cup FRAMES \cup {NULL}]
    BY DEF Init
  <2>2. 0 \in 0 .. MAX_EXEC_DEPTH
    BY ExecAssumption
  <2> QED  BY <1>1, <2>1, <2>2 DEF TypeOK, Init
<1>4. Nested
  BY <1>1, ExecAssumption DEF Nested, Init
<1>5. \A v \in Virt : pt[v] = v
  BY DEF Init
<1>6. Apart
  BY <1>1, <1>2, <1>5 DEF Apart, LeftAt, Init
<1>7. Disjoint
  BY <1>1 DEF Disjoint
<1>8. Accounted
  BY <1>2 DEF Accounted, Init
<1> QED  BY <1>3, <1>4, <1>6, <1>7, <1>8 DEF ExecInv

\* Every step keeps the invariant.
LEMMA ExecStep == ExecInv /\ [Next]_vars => ExecInv'
<1> SUFFICES ASSUME ExecInv, [Next]_vars PROVE ExecInv'
  OBVIOUS
<1>1. TypeOK
  BY DEF ExecInv
<1>2. ASSUME NEW im \in Images, elf_exec(im) PROVE ExecInv'
  <2>1. PICK r : r = elf_load(Mem, im)
    OBVIOUS
  <2>2. \/ Elf_exec_load_fails(im, r) \/ Elf_exec_faults(im, r) \/ Elf_exec_too_deep(im, r)
        \/ Elf_exec_no_stack(im, r) \/ Elf_exec_starts(im, r)
    BY <1>2, <2>1 DEF elf_exec
  <2>3. CASE Elf_exec_faults(im, r)
    <3>1. UNCHANGED <<pt, free, exec_ctx_depth, esp0, progs, others, overlap, leaked, stale>>
          /\ halted' = TRUE
      BY <2>3 DEF Elf_exec_faults, mm, hist
    <3>2. TypeOK'
      BY <1>1, <3>1 DEF TypeOK
    <3>3. Nested' <=> Nested
      BY <3>1 DEF Nested, ProgPages
    <3>4. (Apart' <=> Apart) /\ (Disjoint' <=> Disjoint) /\ (Accounted' <=> Accounted)
      BY <3>1 DEF Apart, Disjoint, Accounted, Running, ProgPages, LeftAt
    <3> QED  BY <3>1, <3>2, <3>3, <3>4 DEF ExecInv
  <2> QED  BY <2>1, <2>2, <2>3, LoadFailsStep, TooDeepStep, NoStackStep, StartStep
<1>3. CASE elf_exit
  BY <1>3, ExitStep
<1>4. CASE Other_alloc
  <2>1. PICK f : f = Nth(free, 0)
    OBVIOUS
  <2>2. /\ free' = free \ {f} /\ others' = others \cup {f} /\ free # {}
        /\ UNCHANGED <<pt, exec_ctx_depth, esp0, progs, halted, overlap, leaked, stale>>
    BY <1>4, <2>1 DEF Other_alloc, hist
  <2>3. f \in free
    <3>1. free \in SUBSET Nat /\ IsFiniteSet(free) /\ Cardinality(free) \in Nat
      BY <1>1, FramesFinite DEF TypeOK
    <3>2. Cardinality(free) # 0
      BY <2>2, <3>1, FS_EmptySet
    <3> QED  BY <2>1, <3>1, <3>2, NthIs
  <2>4. free \subseteq FRAMES /\ others \subseteq FRAMES
    BY <1>1 DEF TypeOK
  <2>5. /\ free' \subseteq FRAMES /\ others' \subseteq FRAMES
        /\ free \cap others = {} => free' \cap others' = {}
        /\ free' \cup others' = free \cup others
    BY <2>2, <2>3, <2>4
  <2> QED  BY <2>2, <2>5, OtherStep
<1>5. ASSUME NEW f \in others, Other_free(f) PROVE ExecInv'
  <2>1. /\ free' = free \cup {f} /\ others' = others \ {f}
        /\ UNCHANGED <<pt, exec_ctx_depth, esp0, progs, halted, overlap, leaked, stale>>
    BY <1>5 DEF Other_free, hist
  <2>2. free \subseteq FRAMES /\ others \subseteq FRAMES
    BY <1>1 DEF TypeOK
  <2>3. /\ free' \subseteq FRAMES /\ others' \subseteq FRAMES
        /\ free \cap others = {} => free' \cap others' = {}
        /\ free' \cup others' = free \cup others
    BY <1>5, <2>1, <2>2
  <2> QED  BY <2>1, <2>3, OtherStep
<1>6. CASE UNCHANGED vars
  <2>1. UNCHANGED <<pt, free, exec_ctx_depth, esp0, progs, halted, others, overlap, leaked, stale>>
    BY <1>6 DEF vars, mm, hist
  <2> QED  BY <1>1, <2>1, OtherStep DEF TypeOK
<1> QED  BY <1>2, <1>3, <1>4, <1>5, <1>6 DEF Next

\* The invariant holds throughout.
LEMMA ExecInvariance == Spec => []ExecInv
<1> QED  BY ExecInit, ExecStep, PTL DEF Spec

-----------------------------------------------------------------------------
\* Through every nesting, exit and failed start, the kernel stack on which the
\* running program's system calls start holds no context that an elf_exec saved.
THEOREM EntryStackFreeHolds == Spec => []EntryStackFree
<1>1. ASSUME ExecInv PROVE EntryStackFree
  <2>1. TypeOK /\ Nested
    BY <1>1 DEF ExecInv
  <2>2. ASSUME NEW i \in DOMAIN progs PROVE progs[i].ctx # esp0
    <3>1. i \in 1 .. Len(progs) /\ Len(progs) \in Nat
      BY <2>1, Activations
    <3>2. progs[i].ctx = IF i = 1 THEN BOOT ELSE i - 2
      BY <2>1, <3>1, Saved
    <3>3. esp0 = Len(progs) - 1
      BY <2>1, <3>1 DEF Nested
    <3> QED  BY <3>1, <3>2, <3>3 DEF BOOT
  <2> QED  BY <2>1, <2>2 DEF EntryStackFree
<1> QED  BY <1>1, ExecInvariance, PTL

\* As long as no load met the pages of a running program, the frames in use are
\* exactly the running programs', other clients' and the leaked ones, whichever
\* error paths elf_exec took.
THEOREM ProgramFramesConserved == Spec => []FramesConserved
<1>1. ASSUME ExecInv PROVE FramesConserved
  <2> SUFFICES ASSUME overlap = "none" PROVE FRAMES \ free = Owned \cup others \cup leaked
    BY DEF FramesConserved
  <2>1. TypeOK /\ Nested /\ Apart /\ Disjoint /\ Accounted
    BY <1>1 DEF ExecInv
  <2>2. DOMAIN progs = 1 .. Len(progs)
    BY <2>1, Activations
  <2>3. ASSUME NEW i \in DOMAIN progs
        PROVE  /\ DOMAIN progs[i].own = ProgPages(progs[i]) /\ ProgPages(progs[i]) \subseteq Virt
               /\ \A v \in ProgPages(progs[i]) : progs[i].own[v] = pt[v] /\ pt[v] \in FRAMES
    <3>1. DOMAIN progs[i].own = ProgPages(progs[i]) /\ ProgPages(progs[i]) \subseteq Virt
      BY <2>1, <2>2, Activations, Saved
    <3> QED  BY <2>1, <3>1 DEF Apart, Disjoint
  <2>4. ASSUME NEW f
        PROVE  f \in Owned <=> f \in FRAMES /\ \E v \in Virt : Running(v) /\ pt[v] = f
    <3>1. f \in Owned <=> \E i \in DOMAIN progs : \E v \in DOMAIN progs[i].own : f = progs[i].own[v]
      <4> DEFINE S(i) == {progs[i].own[v] : v \in DOMAIN progs[i].own}
      <4>1. Owned = UNION {S(i) : i \in DOMAIN progs}
        BY DEF Owned
      <4>2. \A i : f \in S(i) <=> \E v \in DOMAIN progs[i].own : f = progs[i].own[v]
        OBVIOUS
      <4> HIDE DEF S
      <4>3. f \in UNION {S(i) : i \in DOMAIN progs} <=> \E i \in DOMAIN progs : f \in S(i)
        OBVIOUS
      <4> QED  BY <4>1, <4>2, <4>3
    <3>2. ASSUME f \in Owned PROVE f \in FRAMES /\ \E v \in Virt : Running(v) /\ pt[v] = f
      <4>1. PICK i \in DOMAIN progs : \E v \in DOMAIN progs[i].own : f = progs[i].own[v]
        BY <3>1, <3>2
      <4>2. PICK v \in ProgPages(progs[i]) : f = progs[i].own[v]
        BY <2>3, <4>1
      <4>3. v \in Virt /\ pt[v] = f /\ f \in FRAMES
        BY <2>3, <4>2
      <4>4. Running(v)
        BY <4>2 DEF Running
      <4> QED  BY <4>3, <4>4
    <3>3. ASSUME NEW v \in Virt, Running(v), pt[v] = f PROVE f \in Owned
      <4>1. PICK i \in DOMAIN progs : v \in ProgPages(progs[i])
        BY <3>3 DEF Running
      <4>2. v \in DOMAIN progs[i].own /\ f = progs[i].own[v]
        BY <2>3, <3>3, <4>1
      <4> QED  BY <3>1, <4>2
    <3> QED  BY <3>2, <3>3
  <2>5. \A f \in FRAMES : f \notin free <=> \/ \E v \in Virt : Running(v) /\ pt[v] = f
                                           \/ f \in others \cup leaked
    BY <2>1 DEF Accounted
  <2>6. others \subseteq FRAMES /\ leaked \subseteq FRAMES
    BY <2>1 DEF TypeOK
  <2>7. \A f : f \in FRAMES \ free <=> f \in Owned \/ f \in others \cup leaked
    BY <2>4, <2>5, <2>6
  <2> QED  BY <2>7
<1> QED  BY <1>1, ExecInvariance, PTL

\* A program that nothing was loaded over keeps its pages and its frames to
\* itself, whatever starts, fails or ends above it, until a failed load meets a
\* running program.
THEOREM RunningIntactHolds == Spec => []RunningIntact
<1>1. ASSUME ExecInv PROVE RunningIntact
  <2> SUFFICES ASSUME overlap # "failed", NEW i \in DOMAIN progs, ~progs[i].met
               PROVE  /\ progs[i].image.lo % PAGE = 0
                           => Touched(progs[i].image) \subseteq DOMAIN progs[i].own
                      /\ \A v \in DOMAIN progs[i].own :
                           /\ pt[v] = progs[i].own[v] /\ progs[i].own[v] \notin free \cup others
                           /\ \A u \in Virt \ {v} : pt[u] = pt[v] => u = pt[v] \/ u \in stale
    BY DEF RunningIntact
  <2>1. TypeOK /\ Nested /\ Apart
    BY <1>1 DEF ExecInv
  <2>2. i \in 1 .. Len(progs)
    BY <2>1, Activations
  <2>3. DOMAIN progs[i].own = ProgPages(progs[i]) /\ ProgPages(progs[i]) \subseteq Virt
        /\ progs[i].image \in Images
    BY <2>1, <2>2, Activations, Saved
  <2>4. progs[i].image.lo % PAGE = 0 => Touched(progs[i].image) \subseteq DOMAIN progs[i].own
    BY <2>3, ImagePagesIn DEF ProgPages
  <2>5. ASSUME NEW v \in DOMAIN progs[i].own
        PROVE  /\ pt[v] = progs[i].own[v] /\ progs[i].own[v] \notin free \cup others
               /\ \A u \in Virt \ {v} : pt[u] = pt[v] => u = pt[v] \/ u \in stale
    <3>1. v \in Virt /\ Running(v)
      BY <2>3 DEF Running
    <3>2. pt[v] = progs[i].own[v] /\ pt[v] \in FRAMES
      BY <2>1 DEF Apart
    <3>3. pt[v] # NULL
      BY <3>2, FramesFinite
    <3>4. pt[v] \notin free \cup others
      BY <2>1, <3>1 DEF Apart
    <3>5. \A u \in Virt \ {v} : pt[u] = pt[v] => u = pt[v] \/ u \in stale
      BY <2>1, <3>1, <3>3 DEF Apart, LeftAt
    <3> QED  BY <3>2, <3>4, <3>5
  <2> QED  BY <2>4, <2>5
<1> QED  BY <1>1, ExecInvariance, PTL
=============================================================================
