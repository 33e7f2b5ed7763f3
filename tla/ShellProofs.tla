---------------------------- MODULE ShellProofs ----------------------------
(***************************************************************************)
(* Proofs about the descriptor table and its pipes (Fd) and about the      *)
(* shell's command lines over them (Shell), for tables, pipes, transfers   *)
(* and commands' output of any size.                                       *)
(*                                                                         *)
(* Fd.  That a pipe in use has exactly the ends the table says             *)
(* (PipesOwned) is kept by a close only if no two descriptors are on one   *)
(* end (EndsSingle), and that an unused descriptor says nothing            *)
(* (TableSound) is what lets an open take any of them.  RingsSound ties    *)
(* the two positions of a ring to its count: with it the bytes between     *)
(* them are the queue that a transfer appends to or takes from, wrapped    *)
(* around or not.                                                          *)
(*                                                                         *)
(* Shell.  ShInv says of every activation of run_pipeline, running or      *)
(* waiting:                                                                *)
(*   - which descriptors it has open, by the shape of its line and how far *)
(*     it has come (Placed), each of them its own and nobody else's        *)
(*     (Owners): so closing one cannot take another activation's away;     *)
(*   - that the only one that waits is the keyboard's, in a program        *)
(*     (Stacked), which is where g_out_fd and g_in_fd may have been reset  *)
(*     under it, and from where it comes back only to close (Routed);      *)
(*   - that its pipe holds what was written and not read, up to the size   *)
(*     of the pipe, unless a nested command touched it (Balanced).         *)
(* A step changes the running activation alone: the lemmas on Follows say  *)
(* what that leaves of the parts above, and each action is then one case.  *)
(***************************************************************************)
EXTENDS Shell, SequenceTheorems, TLAPS

PipeEnds == {"FD_PIPE_READ", "FD_PIPE_WRITE"}

\* A descriptor that is in use says what it is for, and an unused one nothing.
TableSound ==
  \A i \in FDs :
    /\ ~fds[i].used => fds[i] = NoDesc
    /\ fds[i].used => fds[i].type # "FD_NONE"
    /\ fds[i].type \in PipeEnds => fds[i].pipe_id \in Pipes
    /\ fds[i].type = "FD_FILE" => fds[i].fat_fd \in FAT_FDS

\* No two descriptors are on the same end of a pipe.
EndsSingle ==
  \A i, j \in FDs :
    /\ fds[i].type \in PipeEnds /\ fds[j].type = fds[i].type
    /\ fds[j].pipe_id = fds[i].pipe_id
    => i = j

\* The write position is count bytes after the read position.
RingsSound ==
  \A p \in Pipes : pipes[p].write_pos = (pipes[p].read_pos + pipes[p].count) % PIPE_BUF

Inv == TypeOK /\ TableSound /\ EndsSingle /\ PipesOwned /\ FatDescriptorsOwned /\ RingsSound

-----------------------------------------------------------------------------
\* Positions in a ring, reduced once.
LEMMA Reduced ==
  ASSUME NEW x \in 0 .. 2 * PIPE_BUF - 1
  PROVE  /\ x % PIPE_BUF \in 0 .. PIPE_BUF - 1
         /\ x < PIPE_BUF => x % PIPE_BUF = x
         /\ x >= PIPE_BUF => x % PIPE_BUF = x - PIPE_BUF
<1>1. PIPE_BUF \in Nat \ {0}
  BY FdAssumption
<1> QED  BY <1>1

\* The same below 0: a position found by going back.
LEMMA ReducedBack ==
  ASSUME NEW x \in (1 - PIPE_BUF) .. PIPE_BUF - 1
  PROVE  /\ x % PIPE_BUF \in 0 .. PIPE_BUF - 1
         /\ x < 0 => x % PIPE_BUF = x + PIPE_BUF
         /\ x >= 0 => x % PIPE_BUF = x
<1>1. PIPE_BUF \in Nat \ {0}
  BY FdAssumption
<1> QED  BY <1>1

\* fd_init: the three standard streams, and every pipe empty.
LEMMA InvInit == Init => Inv
<1> SUFFICES ASSUME Init PROVE Inv
  OBVIOUS
<1> USE FdAssumption
<1>1. PICK zero \in Byte :
        pipes = [p \in Pipes |-> [used |-> FALSE, buf |-> [i \in 0 .. PIPE_BUF - 1 |-> zero],
                                  read_pos |-> 0, write_pos |-> 0, count |-> 0,
                                  write_closed |-> FALSE]]
  BY DEF Init
<1>2. pipes \in [Pipes -> PipeRec]
  BY <1>1 DEF PipeRec
<1>3. \A i \in FDs : /\ i = 0 => fds[i] = Desc("FD_STDIN", None, None)
                     /\ i = 1 => fds[i] = Desc("FD_STDOUT", None, None)
                     /\ i = 2 => fds[i] = Desc("FD_STDERR", None, None)
                     /\ i \notin {0, 1, 2} => fds[i] = NoDesc
  BY DEF Init
<1>4. \A i \in FDs : fds[i].type \notin PipeEnds \cup {"FD_FILE"}
  BY <1>3 DEF Desc, NoDesc, PipeEnds
<1>5. TypeOK
  BY <1>2, <1>3 DEF Init, TypeOK, Desc, NoDesc, Types
<1>6. TableSound
  <2>1. \A i \in FDs : i \notin {0, 1, 2} => fds[i] = NoDesc /\ ~fds[i].used
    <3>1. ~NoDesc.used
      BY DEF NoDesc
    <3> QED  BY <1>3, <3>1
  <2>2. \A i \in FDs : i \in {0, 1, 2} => fds[i].used /\ fds[i].type # "FD_NONE"
    BY <1>3 DEF Desc
  <2> QED  BY <1>4, <2>1, <2>2 DEF TableSound
<1>7. EndsSingle /\ FatDescriptorsOwned
  BY <1>4 DEF EndsSingle, FatDescriptorsOwned, Init
<1>8. PipesOwned
  BY <1>1, <1>4 DEF PipesOwned, Ends, PipeEnds
<1>9. RingsSound
  <2>1. 0 % PIPE_BUF = 0
    OBVIOUS
  <2> QED  BY <1>1, <2>1 DEF RingsSound
<1> QED  BY <1>5, <1>6, <1>7, <1>8, <1>9 DEF Inv

\* What the invariant says of slots that are free, in use, or on a pipe.
LEMMA Slot ==
  ASSUME Inv, NEW i \in FDs
  PROVE  /\ fds[i].used \in BOOLEAN /\ fds[i].type \in Types
         /\ ~fds[i].used => fds[i].type = "FD_NONE"
         /\ fds[i].type \in PipeEnds => fds[i].used /\ fds[i].pipe_id \in Pipes
         /\ fds[i].type = "FD_FILE" => fds[i].used /\ fds[i].fat_fd \in FAT_FDS
<1>1. fds[i].used \in BOOLEAN /\ fds[i].type \in Types
  BY DEF Inv, TypeOK
<1>2. ~fds[i].used => fds[i].type = "FD_NONE"
  BY DEF Inv, TableSound, NoDesc
<1> QED  BY <1>1, <1>2 DEF Inv, TableSound, PipeEnds

\* fd_pipe: the pipe and both slots were nobody's.
LEMMA InvPipe ==
  ASSUME Inv, NEW p \in Pipes, NEW rfd \in FDs, NEW wfd \in FDs, fd_pipe(p, rfd, wfd)
  PROVE  Inv'
<1> USE FdAssumption
<1>1. rfd # wfd /\ ~fds[rfd].used /\ ~fds[wfd].used /\ ~pipes[p].used
  BY DEF fd_pipe, alloc_fd, FreeFd, alloc_pipe
<1>2. /\ pipes' = [pipes EXCEPT ![p] = Fresh(pipes[p])]
      /\ fds' = [fds EXCEPT ![rfd] = Desc("FD_PIPE_READ", None, p),
                            ![wfd] = Desc("FD_PIPE_WRITE", None, p)]
      /\ fat_open' = fat_open
  BY DEF fd_pipe
<1>3. /\ fds'[rfd] = Desc("FD_PIPE_READ", None, p) /\ fds'[wfd] = Desc("FD_PIPE_WRITE", None, p)
      /\ \A i \in FDs \ {rfd, wfd} : fds'[i] = fds[i]
      /\ DOMAIN fds' = FDs
  BY <1>1, <1>2 DEF Inv, TypeOK
<1>4. /\ Fresh(pipes[p]) \in PipeRec /\ Fresh(pipes[p]).used
      /\ Fresh(pipes[p]).count = 0 /\ Fresh(pipes[p]).read_pos = 0 /\ Fresh(pipes[p]).write_pos = 0
  <2>1. pipes[p] \in PipeRec
    BY DEF Inv, TypeOK
  <2>2. 0 \in 0 .. PIPE_BUF - 1 /\ 0 \in 0 .. PIPE_BUF /\ TRUE \in BOOLEAN /\ FALSE \in BOOLEAN
    OBVIOUS
  <2> DEFINE r1 == [pipes[p] EXCEPT !.used = TRUE]
             r2 == [r1 EXCEPT !.read_pos = 0]
             r3 == [r2 EXCEPT !.write_pos = 0]
             r4 == [r3 EXCEPT !.count = 0]
             r5 == [r4 EXCEPT !.write_closed = FALSE]
  <2>3. Fresh(pipes[p]) = r5
    BY DEF Fresh
  <2>4. r1 \in PipeRec /\ r1.used
    BY <2>1, <2>2 DEF PipeRec
  <2> HIDE DEF r1
  <2>5. r2 \in PipeRec /\ r2.used /\ r2.read_pos = 0
    BY <2>2, <2>4 DEF PipeRec
  <2> HIDE DEF r2
  <2>6. r3 \in PipeRec /\ r3.used /\ r3.read_pos = 0 /\ r3.write_pos = 0
    BY <2>2, <2>5 DEF PipeRec
  <2> HIDE DEF r3
  <2>7. r4 \in PipeRec /\ r4.used /\ r4.read_pos = 0 /\ r4.write_pos = 0 /\ r4.count = 0
    BY <2>2, <2>6 DEF PipeRec
  <2> HIDE DEF r4
  <2>8. r5 \in PipeRec /\ r5.used /\ r5.read_pos = 0 /\ r5.write_pos = 0 /\ r5.count = 0
    BY <2>2, <2>7 DEF PipeRec
  <2> HIDE DEF r5
  <2> QED  BY <2>3, <2>8
<1>5. /\ pipes'[p] = Fresh(pipes[p]) /\ \A q \in Pipes \ {p} : pipes'[q] = pipes[q]
      /\ pipes' \in [Pipes -> PipeRec]
  BY <1>2, <1>4 DEF Inv, TypeOK
<1>6. \A i \in FDs : /\ ~fds[i].used => fds[i].type = "FD_NONE"
                     /\ fds[i].type \in PipeEnds => fds[i].used /\ fds[i].pipe_id \in Pipes
  BY Slot
<1>7. TypeOK'
  <2>1. Desc("FD_PIPE_READ", None, p) \in [used : BOOLEAN, type : Types, fat_fd : FAT_FDS \cup {None}, pipe_id : Pipes \cup {None}]
    BY DEF Desc, Types
  <2>2. Desc("FD_PIPE_WRITE", None, p) \in [used : BOOLEAN, type : Types, fat_fd : FAT_FDS \cup {None}, pipe_id : Pipes \cup {None}]
    BY DEF Desc, Types
  <2> QED  BY <1>2, <1>5, <2>1, <2>2 DEF Inv, TypeOK
<1>8. /\ fds'[rfd].used /\ fds'[rfd].type = "FD_PIPE_READ" /\ fds'[rfd].pipe_id = p
      /\ fds'[wfd].used /\ fds'[wfd].type = "FD_PIPE_WRITE" /\ fds'[wfd].pipe_id = p
  BY <1>3 DEF Desc
<1>9. TableSound'
  BY <1>3, <1>8 DEF Inv, TableSound, PipeEnds
<1>10. Ends(p, "FD_PIPE_READ") = {} /\ Ends(p, "FD_PIPE_WRITE") = {}
  BY <1>1 DEF Inv, PipesOwned
<1>11. \A i \in FDs : fds[i].type \in PipeEnds => fds[i].pipe_id # p
  BY <1>6, <1>10 DEF Ends, PipeEnds
<1>12. EndsSingle'
  BY <1>3, <1>8, <1>11 DEF Inv, EndsSingle, PipeEnds
<1>13. PipesOwned'
  <2>1. rfd \in Ends(p, "FD_PIPE_READ")'
    BY <1>8 DEF Ends
  <2>2. ASSUME NEW q \in Pipes \ {p}, NEW t \in PipeEnds PROVE Ends(q, t)' = Ends(q, t)
    BY <1>1, <1>3, <1>6, <1>8 DEF Ends, PipeEnds
  <2>3. \A q \in Pipes \ {p} : /\ Ends(q, "FD_PIPE_READ")' = Ends(q, "FD_PIPE_READ")
                               /\ Ends(q, "FD_PIPE_WRITE")' = Ends(q, "FD_PIPE_WRITE")
    BY <2>2 DEF PipeEnds
  <2> QED  BY <1>4, <1>5, <2>1, <2>3 DEF Inv, PipesOwned
<1>14. FatDescriptorsOwned'
  <2>1. \A i \in FDs : fds'[i].type = "FD_FILE" <=> fds[i].type = "FD_FILE"
    BY <1>1, <1>3, <1>6, <1>8
  <2>2. \A i \in FDs : fds'[i].type = "FD_FILE" => fds'[i] = fds[i]
    BY <1>3, <1>8
  <2>3. {j \in FDs : fds'[j].type = "FD_FILE"} = {j \in FDs : fds[j].type = "FD_FILE"}
    BY <2>1
  <2>4. {fds'[k].fat_fd : k \in {j \in FDs : fds'[j].type = "FD_FILE"}}
          = {fds[k].fat_fd : k \in {j \in FDs : fds[j].type = "FD_FILE"}}
    BY <2>2, <2>3
  <2>5. \A k, j \in FDs : fds'[k].type = "FD_FILE" /\ fds'[j].type = "FD_FILE"
                            /\ fds'[k].fat_fd = fds'[j].fat_fd => k = j
    BY <2>1, <2>2 DEF Inv, FatDescriptorsOwned
  <2> QED  BY <1>2, <2>4, <2>5 DEF Inv, FatDescriptorsOwned
<1>15. RingsSound'
  <2>1. (0 + 0) % PIPE_BUF = 0
    OBVIOUS
  <2> QED  BY <1>4, <1>5, <2>1 DEF Inv, RingsSound
<1> QED  BY <1>7, <1>9, <1>12, <1>13, <1>14, <1>15 DEF Inv

\* fd_open and fd_create: the driver's descriptor was free, and so was the slot.
LEMMA InvOpen ==
  ASSUME Inv, NEW fat \in FAT_FDS, fd_open(fat)
  PROVE  Inv'
<1> USE DEF Inv
<1>1. pipes' = pipes /\ fat \notin fat_open
  BY DEF fd_open
<1>2. CASE UNCHANGED <<fds, fat_open>>
  BY <1>1, <1>2 DEF TypeOK, TableSound, EndsSingle, PipesOwned, FatDescriptorsOwned, RingsSound, Ends
<1>3. ASSUME NEW i \in FDs, alloc_fd(i), fds' = [fds EXCEPT ![i] = Desc("FD_FILE", fat, None)],
             fat_open' = fat_open \cup {fat}
      PROVE  Inv'
  <2>1. /\ fds'[i].used /\ fds'[i].type = "FD_FILE" /\ fds'[i].fat_fd = fat
        /\ fds'[i] = Desc("FD_FILE", fat, None)
        /\ \A j \in FDs \ {i} : fds'[j] = fds[j]
    BY <1>3 DEF TypeOK, Desc
  <2>2. ~fds[i].used /\ fds[i].type = "FD_NONE"
    BY <1>3, Slot DEF alloc_fd, FreeFd
  <2>3. TypeOK'
    <3>1. Desc("FD_FILE", fat, None) \in [used : BOOLEAN, type : Types, fat_fd : FAT_FDS \cup {None}, pipe_id : Pipes \cup {None}]
      BY DEF Desc, Types
    <3> QED  BY <1>1, <1>3, <3>1 DEF TypeOK
  <2>4. TableSound' /\ EndsSingle'
    BY <2>1 DEF TableSound, EndsSingle, PipeEnds
  <2>5. PipesOwned'
    <3>1. ASSUME NEW q \in Pipes, NEW t \in PipeEnds PROVE Ends(q, t)' = Ends(q, t)
      BY <2>1, <2>2 DEF Ends, PipeEnds
    <3>2. \A q \in Pipes : /\ Ends(q, "FD_PIPE_READ")' = Ends(q, "FD_PIPE_READ")
                           /\ Ends(q, "FD_PIPE_WRITE")' = Ends(q, "FD_PIPE_WRITE")
      BY <3>1 DEF PipeEnds
    <3> QED  BY <1>1, <3>2 DEF PipesOwned
  <2>6. FatDescriptorsOwned'
    <3>1. \A j \in FDs \ {i} : fds[j].type = "FD_FILE" => fds[j].fat_fd \in fat_open
      BY DEF FatDescriptorsOwned
    <3>2. {fds'[k].fat_fd : k \in {j \in FDs : fds'[j].type = "FD_FILE"}}
            = {fds[k].fat_fd : k \in {j \in FDs : fds[j].type = "FD_FILE"}} \cup {fat}
      <4>1. {j \in FDs : fds'[j].type = "FD_FILE"} = {j \in FDs : fds[j].type = "FD_FILE"} \cup {i}
        BY <2>1, <2>2
      <4>2. i \notin {j \in FDs : fds[j].type = "FD_FILE"}
        BY <2>2
      <4> QED  BY <2>1, <4>1, <4>2
    <3>3. \A k, j \in FDs : fds'[k].type = "FD_FILE" /\ fds'[j].type = "FD_FILE"
                              /\ fds'[k].fat_fd = fds'[j].fat_fd => k = j
      BY <1>1, <2>1, <3>1 DEF FatDescriptorsOwned
    <3> QED  BY <1>3, <3>2, <3>3 DEF FatDescriptorsOwned
  <2>7. RingsSound'
    BY <1>1 DEF RingsSound
  <2> QED  BY <2>3, <2>4, <2>5, <2>6, <2>7
<1> QED  BY <1>2, <1>3 DEF fd_open

-----------------------------------------------------------------------------
\* fd_read takes the n oldest bytes of one pipe.
LEMMA ReadStep ==
  ASSUME Inv, NEW i \in FDs, NEW size \in Nat, fd_read(i, size)
  PROVE  \E p \in Pipes : \E n \in 0 .. pipes[p].count :
           /\ p = fds[i].pipe_id /\ n = Smaller(size, pipes[p].count)
           /\ i \in Ends(p, "FD_PIPE_READ")
           /\ pipes' \in [Pipes -> PipeRec]
           /\ pipes'[p].used = pipes[p].used /\ pipes'[p].buf = pipes[p].buf
           /\ pipes'[p].write_pos = pipes[p].write_pos
           /\ pipes'[p].read_pos = (pipes[p].read_pos + n) % PIPE_BUF
           /\ pipes'[p].count = pipes[p].count - n
           /\ \A q \in Pipes \ {p} : pipes'[q] = pipes[q]
<1> DEFINE p == fds[i].pipe_id
           n == Smaller(size, pipes[p].count)
<1>1. fds[i].used /\ fds[i].type = "FD_PIPE_READ"
  BY DEF fd_read
<1>2. p \in Pipes /\ i \in Ends(p, "FD_PIPE_READ")
  BY <1>1, Slot DEF PipeEnds, Ends
<1>3. pipes' = [pipes EXCEPT ![p].read_pos = (@ + n) % PIPE_BUF, ![p].count = @ - n]
  BY DEF fd_read
<1>4. pipes[p] \in PipeRec /\ pipes \in [Pipes -> PipeRec]
  BY <1>2 DEF Inv, TypeOK
<1>5. PIPE_BUF \in Nat /\ PIPE_BUF > 0 /\ size \in Nat
  BY FdAssumption
<1>6. /\ pipes[p].read_pos \in 0 .. PIPE_BUF - 1 /\ pipes[p].count \in 0 .. PIPE_BUF
  BY <1>4 DEF PipeRec
<1>7. n \in 0 .. pipes[p].count
  BY <1>5, <1>6 DEF Smaller
<1>13. n = Smaller(size, pipes[p].count)
  OBVIOUS
<1> HIDE DEF n
<1> DEFINE r1 == [pipes[p] EXCEPT !.read_pos = (pipes[p].read_pos + n) % PIPE_BUF]
           r2 == [r1 EXCEPT !.count = pipes[p].count - n]
<1>8. pipes'[p] = r2 /\ \A q \in Pipes \ {p} : pipes'[q] = pipes[q]
  BY <1>2, <1>3, <1>4 DEF PipeRec
<1>9. (pipes[p].read_pos + n) % PIPE_BUF \in 0 .. PIPE_BUF - 1 /\ pipes[p].count - n \in 0 .. PIPE_BUF
  BY <1>5, <1>6, <1>7, Reduced
<1>10. /\ r1 \in PipeRec /\ r1.used = pipes[p].used /\ r1.buf = pipes[p].buf
       /\ r1.write_pos = pipes[p].write_pos /\ r1.count = pipes[p].count
       /\ r1.read_pos = (pipes[p].read_pos + n) % PIPE_BUF
  BY <1>4, <1>9 DEF PipeRec
<1> HIDE DEF r1
<1>11. /\ r2 \in PipeRec /\ r2.used = r1.used /\ r2.buf = r1.buf
       /\ r2.write_pos = r1.write_pos /\ r2.read_pos = r1.read_pos
       /\ r2.count = pipes[p].count - n
  BY <1>9, <1>10 DEF PipeRec
<1> HIDE DEF r2
<1>12. pipes' \in [Pipes -> PipeRec]
  BY <1>2, <1>3, <1>4, <1>8, <1>11
<1>14. p = fds[i].pipe_id
  OBVIOUS
<1> HIDE DEF p
<1> QED  BY <1>2, <1>7, <1>8, <1>10, <1>11, <1>12, <1>13, <1>14

\* fd_write puts n bytes where the ring has room, behind those it holds.
LEMMA WriteStep ==
  ASSUME Inv, NEW i \in FDs, NEW data \in Seq(Byte), fd_write(i, data)
  PROVE  \E p \in Pipes : \E n \in 0 .. PIPE_BUF - pipes[p].count :
           /\ p = fds[i].pipe_id /\ n = Smaller(Len(data), PIPE_BUF - pipes[p].count)
           /\ i \in Ends(p, "FD_PIPE_WRITE")
           /\ pipes' \in [Pipes -> PipeRec]
           /\ pipes'[p].used = pipes[p].used /\ pipes'[p].read_pos = pipes[p].read_pos
           /\ pipes'[p].write_pos = (pipes[p].write_pos + n) % PIPE_BUF
           /\ pipes'[p].count = pipes[p].count + n
           /\ \A k \in 0 .. PIPE_BUF - 1 :
                (k - pipes[p].write_pos) % PIPE_BUF >= n => pipes'[p].buf[k] = pipes[p].buf[k]
           /\ \A q \in Pipes \ {p} : pipes'[q] = pipes[q]
<1> DEFINE p == fds[i].pipe_id
           n == Smaller(Len(data), Room(pipes[p]))
           b == Filled(pipes[p].buf, pipes[p].write_pos, data, n)
<1>1. fds[i].used /\ fds[i].type = "FD_PIPE_WRITE"
  BY DEF fd_write
<1>2. p \in Pipes /\ i \in Ends(p, "FD_PIPE_WRITE")
  BY <1>1, Slot DEF PipeEnds, Ends
<1>3. pipes' = [pipes EXCEPT ![p].buf = Filled(@, pipes[p].write_pos, data, n),
                             ![p].write_pos = (@ + n) % PIPE_BUF, ![p].count = @ + n]
  BY DEF fd_write
<1>4. pipes[p] \in PipeRec /\ pipes \in [Pipes -> PipeRec]
  BY <1>2 DEF Inv, TypeOK
<1>5. PIPE_BUF \in Nat /\ PIPE_BUF > 0
  BY FdAssumption
<1>6. PICK m \in Nat : data \in [1 .. m -> Byte]
  BY SeqDef
<1>7. Len(data) = m /\ m \in Nat
  BY <1>6
<1>8. /\ pipes[p].write_pos \in 0 .. PIPE_BUF - 1 /\ pipes[p].count \in 0 .. PIPE_BUF
      /\ pipes[p].buf \in [0 .. PIPE_BUF - 1 -> Byte]
  BY <1>4 DEF PipeRec
<1>9. n \in Nat /\ n <= PIPE_BUF - pipes[p].count /\ n <= m
  BY <1>5, <1>7, <1>8 DEF Smaller, Room
<1>19. n = Smaller(Len(data), PIPE_BUF - pipes[p].count)
  BY DEF Room
<1> HIDE DEF n
<1>10. /\ b \in [0 .. PIPE_BUF - 1 -> Byte]
       /\ \A k \in 0 .. PIPE_BUF - 1 :
            (k - pipes[p].write_pos) % PIPE_BUF >= n => b[k] = pipes[p].buf[k]
  <2>1. ASSUME NEW k \in 0 .. PIPE_BUF - 1
        PROVE  (k - pipes[p].write_pos) % PIPE_BUF \in 0 .. PIPE_BUF - 1
    BY <1>5, <1>8, ReducedBack
  <2>2. ASSUME NEW k \in 0 .. PIPE_BUF - 1, (k - pipes[p].write_pos) % PIPE_BUF < n
        PROVE  data[((k - pipes[p].write_pos) % PIPE_BUF) + 1] \in Byte
    BY <1>6, <1>7, <1>9, <2>1, <2>2
  <2>3. ASSUME NEW k \in 0 .. PIPE_BUF - 1
        PROVE  /\ b[k] \in Byte
               /\ (k - pipes[p].write_pos) % PIPE_BUF >= n => b[k] = pipes[p].buf[k]
    <3>1. b[k] = IF (k - pipes[p].write_pos) % PIPE_BUF < n
                 THEN data[((k - pipes[p].write_pos) % PIPE_BUF) + 1] ELSE pipes[p].buf[k]
      BY DEF Filled
    <3> DEFINE off == (k - pipes[p].write_pos) % PIPE_BUF
    <3>2. off < n => data[off + 1] \in Byte
      BY <2>2
    <3>3. off \in Nat /\ n \in Nat
      BY <1>5, <1>9, <2>1
    <3>6. pipes[p].buf[k] \in Byte
      BY <1>8
    <3>4. b[k] = IF off < n THEN data[off + 1] ELSE pipes[p].buf[k]
      BY <3>1
    <3> HIDE DEF b, off
    <3>5. b[k] \in Byte /\ (off >= n => b[k] = pipes[p].buf[k])
      BY <3>2, <3>3, <3>4, <3>6
    <3> QED  BY <3>5 DEF off
  <2>4. b = [k \in 0 .. PIPE_BUF - 1 |-> b[k]]
    BY DEF Filled
  <2> HIDE DEF b
  <2> QED  BY <2>3, <2>4
<1> HIDE DEF b
<1> DEFINE r1 == [pipes[p] EXCEPT !.buf = b]
           r2 == [r1 EXCEPT !.write_pos = (pipes[p].write_pos + n) % PIPE_BUF]
           r3 == [r2 EXCEPT !.count = pipes[p].count + n]
<1>11. pipes'[p] = r3 /\ \A q \in Pipes \ {p} : pipes'[q] = pipes[q]
  BY <1>2, <1>3, <1>4 DEF PipeRec, b
<1>12. (pipes[p].write_pos + n) % PIPE_BUF \in 0 .. PIPE_BUF - 1 /\ pipes[p].count + n \in 0 .. PIPE_BUF
  <2>1. pipes[p].write_pos + n \in 0 .. 2 * PIPE_BUF - 1 /\ pipes[p].count + n \in 0 .. PIPE_BUF
    <3> DEFINE w == pipes[p].write_pos
               c == pipes[p].count
    <3>1. w \in 0 .. PIPE_BUF - 1 /\ c \in 0 .. PIPE_BUF /\ n \in Nat /\ n <= PIPE_BUF - c
      BY <1>8, <1>9
    <3> HIDE DEF w, c
    <3>2. w + n \in 0 .. 2 * PIPE_BUF - 1 /\ c + n \in 0 .. PIPE_BUF
      BY <1>5, <3>1
    <3> QED  BY <3>2 DEF w, c
  <2> QED  BY <2>1, Reduced
<1>13. /\ r1 \in PipeRec /\ r1.used = pipes[p].used /\ r1.buf = b
       /\ r1.write_pos = pipes[p].write_pos /\ r1.count = pipes[p].count
       /\ r1.read_pos = pipes[p].read_pos
  BY <1>4, <1>10 DEF PipeRec
<1> HIDE DEF r1
<1>14. /\ r2 \in PipeRec /\ r2.used = r1.used /\ r2.buf = r1.buf
       /\ r2.write_pos = (pipes[p].write_pos + n) % PIPE_BUF /\ r2.read_pos = r1.read_pos
  BY <1>12, <1>13 DEF PipeRec
<1> HIDE DEF r2
<1>15. /\ r3 \in PipeRec /\ r3.used = r2.used /\ r3.buf = r2.buf
       /\ r3.write_pos = r2.write_pos /\ r3.read_pos = r2.read_pos
       /\ r3.count = pipes[p].count + n
  BY <1>12, <1>14 DEF PipeRec
<1> HIDE DEF r3
<1>16. pipes' \in [Pipes -> PipeRec]
  BY <1>2, <1>3, <1>4, <1>11, <1>15
<1>17. n \in 0 .. PIPE_BUF - pipes[p].count
  BY <1>5, <1>8, <1>9
<1>18. /\ pipes'[p].used = pipes[p].used /\ pipes'[p].read_pos = pipes[p].read_pos
       /\ pipes'[p].write_pos = (pipes[p].write_pos + n) % PIPE_BUF
       /\ pipes'[p].count = pipes[p].count + n /\ pipes'[p].buf = b
  BY <1>11, <1>13, <1>14, <1>15
<1>20. p = fds[i].pipe_id
  OBVIOUS
<1> HIDE DEF p
<1> QED  BY <1>2, <1>10, <1>11, <1>16, <1>17, <1>18, <1>19, <1>20

\* Going on by m and then by k is going on by m + k.
LEMMA GoOn ==
  ASSUME NEW r \in 0 .. PIPE_BUF - 1, NEW m \in Nat, NEW k \in Nat, m + k <= PIPE_BUF
  PROVE  (((r + m) % PIPE_BUF) + k) % PIPE_BUF = (r + m + k) % PIPE_BUF
<1>1. PIPE_BUF \in Nat /\ PIPE_BUF > 0
  BY FdAssumption
<1> DEFINE s == (r + m) % PIPE_BUF
<1>2. r + m \in 0 .. 2 * PIPE_BUF - 1 /\ r + m + k \in 0 .. 2 * PIPE_BUF - 1
  BY <1>1
<1>3. /\ s \in 0 .. PIPE_BUF - 1
      /\ r + m < PIPE_BUF => s = r + m
      /\ r + m >= PIPE_BUF => s = r + m - PIPE_BUF
  <2>1. \A x \in 0 .. 2 * PIPE_BUF - 1 :
          /\ x % PIPE_BUF \in 0 .. PIPE_BUF - 1
          /\ x < PIPE_BUF => x % PIPE_BUF = x
          /\ x >= PIPE_BUF => x % PIPE_BUF = x - PIPE_BUF
    BY Reduced
  <2> QED  BY <1>1, <1>2, <2>1
<1> HIDE DEF s
<1>4. s + k \in 0 .. 2 * PIPE_BUF - 1
  BY <1>1, <1>3
<1>5. CASE r + m < PIPE_BUF
  BY <1>3, <1>5 DEF s
<1>6. CASE r + m >= PIPE_BUF
  <2>1. s + k = (r + m + k) - PIPE_BUF /\ r + m + k >= PIPE_BUF /\ s + k < PIPE_BUF
    BY <1>1, <1>3, <1>6
  <2>2. (s + k) % PIPE_BUF = s + k /\ (r + m + k) % PIPE_BUF = (r + m + k) - PIPE_BUF
    BY <1>2, <1>4, <2>1, Reduced
  <2> QED  BY <2>1, <2>2 DEF s
<1> QED  BY <1>1, <1>5, <1>6

\* A transfer keeps the table and moves one ring's positions and count together.
LEMMA InvTransfer ==
  ASSUME Inv, NEW i \in FDs,
         \/ \E size \in Nat : fd_read(i, size)
         \/ \E data \in Seq(Byte) : fd_write(i, data)
  PROVE  Inv'
<1>1. fds' = fds /\ fat_open' = fat_open
  BY DEF fd_read, fd_write
<1>2. /\ pipes' \in [Pipes -> PipeRec]
      /\ \A q \in Pipes : pipes'[q].used = pipes[q].used
  BY ReadStep, WriteStep
<1>3. RingsSound'
  <2>1. ASSUME NEW q \in Pipes
        PROVE  /\ pipes[q].read_pos \in 0 .. PIPE_BUF - 1 /\ pipes[q].count \in 0 .. PIPE_BUF
               /\ pipes[q].write_pos = (pipes[q].read_pos + pipes[q].count) % PIPE_BUF
    BY DEF Inv, TypeOK, PipeRec, RingsSound
  <2>2. ASSUME NEW size \in Nat, fd_read(i, size) PROVE RingsSound'
    <3>0. PICK p \in Pipes : \E n \in 0 .. pipes[p].count :
            /\ pipes'[p].write_pos = pipes[p].write_pos
            /\ pipes'[p].read_pos = (pipes[p].read_pos + n) % PIPE_BUF
            /\ pipes'[p].count = pipes[p].count - n
            /\ \A q \in Pipes \ {p} : pipes'[q] = pipes[q]
      BY <2>2, ReadStep
    <3>1. PICK n \in 0 .. pipes[p].count :
            /\ pipes'[p].write_pos = pipes[p].write_pos
            /\ pipes'[p].read_pos = (pipes[p].read_pos + n) % PIPE_BUF
            /\ pipes'[p].count = pipes[p].count - n
            /\ \A q \in Pipes \ {p} : pipes'[q] = pipes[q]
      BY <3>0
    <3> DEFINE r == pipes[p].read_pos
               c == pipes[p].count
    <3>2. r \in 0 .. PIPE_BUF - 1 /\ c \in 0 .. PIPE_BUF
      BY <2>1
    <3> HIDE DEF r, c
    <3>3. n \in Nat /\ c - n \in Nat /\ n + (c - n) <= PIPE_BUF /\ r + n + (c - n) = r + c
      BY <3>2, FdAssumption DEF c
    <3>4. (((r + n) % PIPE_BUF) + (c - n)) % PIPE_BUF = (r + c) % PIPE_BUF
      BY <3>2, <3>3, GoOn
    <3> QED  BY <2>1, <3>1, <3>4 DEF RingsSound, r, c
  <2>3. ASSUME NEW data \in Seq(Byte), fd_write(i, data) PROVE RingsSound'
    <3>0. PICK p \in Pipes : \E n \in 0 .. PIPE_BUF - pipes[p].count :
            /\ pipes'[p].read_pos = pipes[p].read_pos
            /\ pipes'[p].write_pos = (pipes[p].write_pos + n) % PIPE_BUF
            /\ pipes'[p].count = pipes[p].count + n
            /\ \A q \in Pipes \ {p} : pipes'[q] = pipes[q]
      BY <2>3, WriteStep
    <3>1. PICK n \in 0 .. PIPE_BUF - pipes[p].count :
            /\ pipes'[p].read_pos = pipes[p].read_pos
            /\ pipes'[p].write_pos = (pipes[p].write_pos + n) % PIPE_BUF
            /\ pipes'[p].count = pipes[p].count + n
            /\ \A q \in Pipes \ {p} : pipes'[q] = pipes[q]
      BY <3>0
    <3> DEFINE r == pipes[p].read_pos
               c == pipes[p].count
    <3>2. r \in 0 .. PIPE_BUF - 1 /\ c \in 0 .. PIPE_BUF /\ pipes[p].write_pos = (r + c) % PIPE_BUF
      BY <2>1
    <3> HIDE DEF r, c
    <3>3. n \in Nat /\ c \in Nat /\ c + n <= PIPE_BUF /\ r + c + n = r + (c + n)
      <4>1. n \in 0 .. PIPE_BUF - c
        BY DEF c
      <4> QED  BY <3>2, <4>1, FdAssumption
    <3>4. (((r + c) % PIPE_BUF) + n) % PIPE_BUF = (r + (c + n)) % PIPE_BUF
      BY <3>2, <3>3, GoOn
    <3>5. pipes'[p].write_pos = (r + (c + n)) % PIPE_BUF
      BY <3>1, <3>2, <3>4
    <3> QED  BY <2>1, <3>1, <3>5 DEF RingsSound, r, c
  <2> QED  BY <2>2, <2>3
<1>4. TypeOK' /\ TableSound' /\ EndsSingle' /\ FatDescriptorsOwned'
  BY <1>1, <1>2 DEF Inv, TypeOK, TableSound, EndsSingle, FatDescriptorsOwned
<1>5. PipesOwned'
  BY <1>1, <1>2 DEF Inv, PipesOwned, Ends
<1> QED  BY <1>3, <1>4, <1>5 DEF Inv

Other(type) == IF type = "FD_PIPE_READ" THEN "FD_PIPE_WRITE" ELSE "FD_PIPE_READ"

\* Closing an end of a pipe moves no byte of any ring, and the pipe stays in
\* use exactly if its other end is open.
LEMMA CloseEnd ==
  ASSUME Inv, NEW i \in FDs, NEW p, p = fds[i].pipe_id, Close_write_end(i) \/ Close_read_end(i)
  PROVE  /\ fds[i].type \in PipeEnds /\ p \in Pipes /\ fat_open' = fat_open
         /\ pipes' \in [Pipes -> PipeRec]
         /\ \A q \in Pipes \ {p} : pipes'[q] = pipes[q]
         /\ pipes'[p].buf = pipes[p].buf /\ pipes'[p].count = pipes[p].count
         /\ pipes'[p].read_pos = pipes[p].read_pos /\ pipes'[p].write_pos = pipes[p].write_pos
         /\ pipes'[p].used <=> Ends(p, Other(fds[i].type)) # {}
<1>1. pipes \in [Pipes -> PipeRec]
  BY DEF Inv, TypeOK
<1>2. fds[i].type \in PipeEnds /\ fat_open' = fat_open
  BY DEF Close_write_end, Close_read_end, PipeEnds
<1>3. p \in Pipes /\ i \in Ends(p, fds[i].type)
  BY <1>2, Slot DEF Ends
<1>4. pipes[p].used /\ pipes[p] \in PipeRec
  BY <1>1, <1>2, <1>3 DEF Inv, PipesOwned, PipeEnds
<1> DEFINE other == Ends(p, Other(fds[i].type))
           u  == IF other = {} THEN FALSE ELSE pipes[p].used
           w  == IF fds[i].type = "FD_PIPE_WRITE" THEN TRUE ELSE pipes[p].write_closed
           r1 == [pipes[p] EXCEPT !.write_closed = w]
           r2 == [r1 EXCEPT !.used = u]
<1>5. pipes' = [pipes EXCEPT ![p] = r2]
  <2>1. CASE Close_write_end(i)
    <3>1. fds[i].type = "FD_PIPE_WRITE" /\ Other(fds[i].type) = "FD_PIPE_READ"
      BY <2>1 DEF Close_write_end, Other
    <3>2. w = TRUE
      BY <3>1
    <3>3. u = IF LastEnd(p, "FD_PIPE_READ") THEN FALSE ELSE pipes[p].used
      BY <3>1 DEF LastEnd
    <3> HIDE DEF w, u
    <3> QED  BY <1>1, <1>3, <1>4, <2>1, <3>2, <3>3 DEF Close_write_end, PipeRec
  <2>2. CASE Close_read_end(i)
    <3>1. fds[i].type = "FD_PIPE_READ" /\ Other(fds[i].type) = "FD_PIPE_WRITE"
      BY <2>2 DEF Close_read_end, Other
    <3>2. w = pipes[p].write_closed
      BY <3>1
    <3>3. u = IF LastEnd(p, "FD_PIPE_WRITE") THEN FALSE ELSE pipes[p].used
      BY <3>1 DEF LastEnd
    <3> HIDE DEF w, u
    <3>4. r1 = pipes[p]
      BY <1>4, <3>2 DEF PipeRec
    <3> QED  BY <1>1, <1>3, <1>4, <2>2, <3>3, <3>4 DEF Close_read_end, PipeRec
  <2> QED  BY <2>1, <2>2
<1>6. u \in BOOLEAN /\ (u <=> other # {})
  BY <1>4
<1>7. w \in BOOLEAN
  BY <1>4 DEF PipeRec
<1> HIDE DEF u, w, other
<1>8. /\ r1 \in PipeRec /\ r1.buf = pipes[p].buf /\ r1.count = pipes[p].count
      /\ r1.read_pos = pipes[p].read_pos /\ r1.write_pos = pipes[p].write_pos
  BY <1>4, <1>7 DEF PipeRec
<1> HIDE DEF r1
<1>9. /\ r2 \in PipeRec /\ r2.buf = r1.buf /\ r2.count = r1.count
      /\ r2.read_pos = r1.read_pos /\ r2.write_pos = r1.write_pos
  BY <1>6, <1>8 DEF PipeRec
<1>10. r2.used = u
  BY <1>8 DEF PipeRec
<1> HIDE DEF r2
<1>11. /\ pipes' \in [Pipes -> PipeRec] /\ pipes'[p] = r2
       /\ \A q \in Pipes \ {p} : pipes'[q] = pipes[q]
  BY <1>1, <1>3, <1>5, <1>9
<1>12. pipes'[p].used <=> other # {}
  BY <1>6, <1>10, <1>11, Zenon
<1> QED  BY <1>2, <1>3, <1>8, <1>9, <1>11, <1>12 DEF other

\* fd_close of the other kinds of descriptor leaves the pipes alone.
LEMMA InvClose ==
  ASSUME Inv, NEW i \in FDs, fd_close(i)
  PROVE  Inv'
<1>1. fds[i].used /\ fds' = [fds EXCEPT ![i] = NoDesc]
  BY DEF fd_close
<1>2. /\ fds'[i] = NoDesc /\ ~fds'[i].used /\ fds'[i].type = "FD_NONE"
      /\ \A j \in FDs \ {i} : fds'[j] = fds[j]
  BY <1>1 DEF Inv, TypeOK, NoDesc
<1>3. fds' \in [FDs -> [used : BOOLEAN, type : Types, fat_fd : FAT_FDS \cup {None},
                        pipe_id : Pipes \cup {None}]]
  <2>1. NoDesc \in [used : BOOLEAN, type : Types, fat_fd : FAT_FDS \cup {None},
                    pipe_id : Pipes \cup {None}]
    BY DEF NoDesc, Types
  <2> QED  BY <1>1, <2>1 DEF Inv, TypeOK
<1>4. TableSound' /\ EndsSingle'
  BY <1>2 DEF Inv, TableSound, EndsSingle, PipeEnds
<1>5. CASE Close_file(i) \/ Close_stream(i)
  <2>1. pipes' = pipes /\ fds[i].type \notin PipeEnds
    BY <1>5 DEF Close_file, Close_stream, PipeEnds
  <2>2. PipesOwned'
    <3>1. ASSUME NEW q \in Pipes, NEW t \in PipeEnds PROVE Ends(q, t)' = Ends(q, t)
      BY <1>2, <2>1 DEF Ends, PipeEnds
    <3>2. \A q \in Pipes : /\ Ends(q, "FD_PIPE_READ")' = Ends(q, "FD_PIPE_READ")
                           /\ Ends(q, "FD_PIPE_WRITE")' = Ends(q, "FD_PIPE_WRITE")
      BY <3>1 DEF PipeEnds
    <3> QED  BY <2>1, <3>2 DEF Inv, PipesOwned
  <2>3. fat_open' = IF fds[i].type = "FD_FILE" THEN fat_open \ {fds[i].fat_fd} ELSE fat_open
    BY <1>5 DEF Close_file, Close_stream
  <2>4. FatDescriptorsOwned'
    <3>1. {j \in FDs : fds'[j].type = "FD_FILE"} = {j \in FDs : fds[j].type = "FD_FILE"} \ {i}
      BY <1>2
    <3>2. {fds'[k].fat_fd : k \in {j \in FDs : fds'[j].type = "FD_FILE"}}
            = {fds[k].fat_fd : k \in {j \in FDs : fds[j].type = "FD_FILE"} \ {i}}
      BY <1>2, <3>1
    <3>3. fat_open' = {fds[k].fat_fd : k \in {j \in FDs : fds[j].type = "FD_FILE"} \ {i}}
      BY <2>3 DEF Inv, FatDescriptorsOwned
    <3>4. \A k, j \in FDs : fds'[k].type = "FD_FILE" /\ fds'[j].type = "FD_FILE"
                              /\ fds'[k].fat_fd = fds'[j].fat_fd => k = j
      BY <1>2 DEF Inv, FatDescriptorsOwned
    <3> QED  BY <3>2, <3>3, <3>4 DEF FatDescriptorsOwned
  <2>5. TypeOK' /\ RingsSound'
    BY <1>3, <2>1, <2>3 DEF Inv, TypeOK, RingsSound
  <2> QED  BY <1>4, <2>2, <2>4, <2>5 DEF Inv
<1>6. CASE Close_write_end(i) \/ Close_read_end(i)
  <2>0. PICK p, t : p = fds[i].pipe_id /\ t = fds[i].type
    OBVIOUS
  <2>1. /\ fds[i].type \in PipeEnds /\ p \in Pipes /\ fat_open' = fat_open
        /\ pipes' \in [Pipes -> PipeRec]
        /\ \A q \in Pipes \ {p} : pipes'[q] = pipes[q]
        /\ pipes'[p].count = pipes[p].count
        /\ pipes'[p].read_pos = pipes[p].read_pos /\ pipes'[p].write_pos = pipes[p].write_pos
        /\ pipes'[p].used <=> Ends(p, Other(t)) # {}
    BY <1>6, <2>0, CloseEnd
  <2>2. TypeOK'
    BY <1>3, <2>1 DEF Inv, TypeOK
  <2>3. RingsSound'
    BY <2>1 DEF Inv, RingsSound
  <2>4. PipesOwned'
    <3>1. ASSUME NEW q \in Pipes \ {p}, NEW e \in PipeEnds PROVE Ends(q, e)' = Ends(q, e)
      BY <1>2, <2>0 DEF Ends, PipeEnds
    <3>2. \A q \in Pipes \ {p} : /\ Ends(q, "FD_PIPE_READ")' = Ends(q, "FD_PIPE_READ")
                                 /\ Ends(q, "FD_PIPE_WRITE")' = Ends(q, "FD_PIPE_WRITE")
      BY <3>1 DEF PipeEnds
    <3>3. Ends(p, t)' = {}
      BY <1>2, <2>0, <2>1 DEF Inv, EndsSingle, Ends
    <3>4. Ends(p, Other(t))' = Ends(p, Other(t))
      BY <1>2, <2>0, <2>1 DEF Ends, PipeEnds, Other
    <3>5. Ends(p, "FD_PIPE_READ")' \cup Ends(p, "FD_PIPE_WRITE")' = Ends(p, Other(t))
      BY <2>0, <2>1, <3>3, <3>4 DEF PipeEnds, Other
    <3> QED  BY <2>1, <3>2, <3>5 DEF Inv, PipesOwned
  <2>5. FatDescriptorsOwned'
    <3>1. \A j \in FDs : fds'[j].type = "FD_FILE" <=> fds[j].type = "FD_FILE"
      BY <1>2, <2>1 DEF PipeEnds
    <3>2. {j \in FDs : fds'[j].type = "FD_FILE"} = {j \in FDs : fds[j].type = "FD_FILE"}
      BY <3>1
    <3>3. \A j \in FDs : fds'[j].type = "FD_FILE" => fds'[j] = fds[j]
      BY <1>2
    <3>4. {fds'[k].fat_fd : k \in {j \in FDs : fds'[j].type = "FD_FILE"}}
            = {fds[k].fat_fd : k \in {j \in FDs : fds[j].type = "FD_FILE"}}
      BY <3>2, <3>3
    <3>5. \A k, j \in FDs : fds'[k].type = "FD_FILE" /\ fds'[j].type = "FD_FILE"
                              /\ fds'[k].fat_fd = fds'[j].fat_fd => k = j
      BY <3>1, <3>3 DEF Inv, FatDescriptorsOwned
    <3> QED  BY <2>1, <3>4, <3>5 DEF Inv, FatDescriptorsOwned
  <2> QED  BY <1>4, <2>2, <2>3, <2>4, <2>5 DEF Inv
<1> QED  BY <1>5, <1>6 DEF fd_close

\* The sizes and data of Next are numbers and sequences of bytes.
LEMMA SizesOfNext == 0 .. MaxSize \subseteq Nat /\ BoundedSeq(Byte, MaxSize) \subseteq Seq(Byte)
<1>1. 0 .. MaxSize \subseteq Nat
  BY FdAssumption
<1>2. ASSUME NEW data \in BoundedSeq(Byte, MaxSize) PROVE data \in Seq(Byte)
  <2>1. PICK m \in 0 .. MaxSize : data \in [1 .. m -> Byte]
    BY DEF BoundedSeq, SeqOf
  <2> QED  BY <1>1, <2>1, SeqDef
<1> QED  BY <1>1, <1>2

\* The invariant holds throughout.
LEMMA Invariance == Spec => []Inv
<1>1. ASSUME Inv, [Next]_vars PROVE Inv'
  <2>1. CASE UNCHANGED vars
    BY <1>1, <2>1 DEF Inv, vars, TypeOK, TableSound, EndsSingle, PipesOwned,
                      FatDescriptorsOwned, RingsSound, Ends
  <2>2. CASE Next
    BY <1>1, <2>2, SizesOfNext, InvPipe, InvOpen, InvTransfer, InvClose DEF Next
  <2> QED  BY <1>1, <2>1, <2>2
<1> QED  BY <1>1, InvInit, PTL DEF Spec

\* However programs open, pass on and close files and pipes, no pipe and no
\* descriptor of the FAT12 driver is lost or has two owners.
THEOREM DescriptorsOwnedHolds == Spec => []DescriptorsOwned
<1>1. Inv => DescriptorsOwned
  BY DEF Inv, DescriptorsOwned
<1> QED  BY <1>1, Invariance, PTL

-----------------------------------------------------------------------------
\* Sequences that agree as far as the shorter goes.
LEMMA PrefixIf ==
  ASSUME NEW m \in Nat, NEW l \in Nat, m <= l,
         NEW s \in [1 .. m -> Byte], NEW t \in [1 .. l -> Byte],
         \A i \in 1 .. m : s[i] = t[i]
  PROVE  Queues!IsPrefix(s, t)
<1>1. s \in Seq(Byte) /\ t \in Seq(Byte) /\ Len(s) = m /\ Len(t) = l
  BY SeqDef
<1>2. \A i \in 1 .. m : s[i] \in Byte /\ t[i] \in Byte
  OBVIOUS
<1> DEFINE a == SubSeq(s, 1, m)
           b == SubSeq(t, 1, m)
<1>3. a \in Seq(Byte) /\ Len(a) = m /\ \A i \in 1 .. m : a[i] = s[i]
  BY <1>2, SubSeqProperties
<1>4. b \in Seq(Byte) /\ Len(b) = m /\ \A i \in 1 .. m : b[i] = t[i]
  BY <1>2, SubSeqProperties
<1> HIDE DEF a, b
<1>5. a = b
  BY <1>3, <1>4, SeqEqual
<1> QED  BY <1>1, <1>5 DEF a, b, Queues!IsPrefix

\* What is left of t without its first n.
LEMMA SuffixIf ==
  ASSUME NEW m \in Nat, NEW n \in Nat,
         NEW s \in [1 .. m -> Byte], NEW t \in [1 .. n + m -> Byte],
         \A i \in 1 .. m : s[i] = t[n + i]
  PROVE  Queues!IsSuffix(s, t)
<1>1. Len(s) = m /\ Len(t) = n + m
  BY SeqDef
<1> DEFINE a == [i \in 1 .. m |-> s[(m - i) + 1]]
           b == [i \in 1 .. n + m |-> t[((n + m) - i) + 1]]
<1>2. Queues!Reverse(s) = a /\ Queues!Reverse(t) = b
  BY <1>1 DEF Queues!Reverse
<1>3. a \in [1 .. m -> Byte] /\ b \in [1 .. n + m -> Byte]
  OBVIOUS
<1>4. \A i \in 1 .. m : a[i] = b[i]
  <2> TAKE i \in 1 .. m
  <2>1. i \in 1 .. n + m /\ (m - i) + 1 \in 1 .. m /\ n + ((m - i) + 1) = ((n + m) - i) + 1
    OBVIOUS
  <2> QED  BY <2>1
<1> HIDE DEF a, b
<1>5. n + m \in Nat /\ m <= n + m
  OBVIOUS
<1>6. Queues!IsPrefix(a, b)
  BY <1>3, <1>4, <1>5, PrefixIf
<1> QED  BY <1>2, <1>6 DEF Queues!IsSuffix

\* The abstract queues and their open ends, as Queues reads them off the state.
QueueBar == [p \in Pipes |-> Contents(p)]
OpenBar ==
  [p \in Pipes |->
     {e \in {"read", "write"} :
        Ends(p, IF e = "read" THEN "FD_PIPE_READ" ELSE "FD_PIPE_WRITE") # {}}]

\* The steps of the abstract queues, in terms of what stands for them.
LEMMA AbstractSteps ==
  ASSUME NEW p \in Pipes
  PROVE  /\ /\ OpenBar[p] = {} /\ OpenBar' = [OpenBar EXCEPT ![p] = {"read", "write"}]
            /\ QueueBar' = [QueueBar EXCEPT ![p] = <<>>]
            => Queues!Begin(p)
         /\ \A end \in {"read", "write"} :
              /\ end \in OpenBar[p] /\ OpenBar' = [OpenBar EXCEPT ![p] = @ \ {end}]
              /\ QueueBar' = QueueBar
              => Queues!Close(p, end)
         /\ /\ "read" \in OpenBar[p] /\ Queues!IsSuffix(QueueBar'[p], QueueBar[p])
            /\ QueueBar' = [QueueBar EXCEPT ![p] = QueueBar'[p]] /\ OpenBar' = OpenBar
            => Queues!Get(p)
         /\ /\ "write" \in OpenBar[p] /\ Queues!IsPrefix(QueueBar[p], QueueBar'[p])
            /\ Len(QueueBar'[p]) <= PIPE_BUF
            /\ QueueBar' = [QueueBar EXCEPT ![p] = QueueBar'[p]] /\ OpenBar' = OpenBar
            => Queues!Put(p)
<1>1. /\ OpenBar[p] = {} /\ OpenBar' = [OpenBar EXCEPT ![p] = {"read", "write"}]
      /\ QueueBar' = [QueueBar EXCEPT ![p] = <<>>]
      => Queues!Begin(p)
  BY DEF Queues!Begin, QueueBar, OpenBar
<1>2. ASSUME NEW end \in {"read", "write"}
      PROVE  /\ end \in OpenBar[p] /\ OpenBar' = [OpenBar EXCEPT ![p] = @ \ {end}]
             /\ QueueBar' = QueueBar
             => Queues!Close(p, end)
  BY DEF Queues!Close, QueueBar, OpenBar
<1>3. /\ "read" \in OpenBar[p] /\ Queues!IsSuffix(QueueBar'[p], QueueBar[p])
      /\ QueueBar' = [QueueBar EXCEPT ![p] = QueueBar'[p]] /\ OpenBar' = OpenBar
      => Queues!Get(p)
  BY DEF Queues!Get, QueueBar, OpenBar
<1>4. /\ "write" \in OpenBar[p] /\ Queues!IsPrefix(QueueBar[p], QueueBar'[p])
      /\ Len(QueueBar'[p]) <= PIPE_BUF
      /\ QueueBar' = [QueueBar EXCEPT ![p] = QueueBar'[p]] /\ OpenBar' = OpenBar
      => Queues!Put(p)
  BY DEF Queues!Put, QueueBar, OpenBar
<1> QED  BY <1>1, <1>2, <1>3, <1>4

\* A pipe holds a sequence of count bytes.
LEMMA ContentsType ==
  ASSUME NEW pipe \in PipeRec, NEW k \in 1 .. pipe.count
  PROVE  pipe.buf[(pipe.read_pos + k - 1) % PIPE_BUF] \in Byte
<1> DEFINE r == pipe.read_pos
           c == pipe.count
<1>1. /\ PIPE_BUF \in Nat /\ PIPE_BUF > 0 /\ r \in 0 .. PIPE_BUF - 1 /\ c \in 0 .. PIPE_BUF
      /\ pipe.buf \in [0 .. PIPE_BUF - 1 -> Byte]
  BY FdAssumption DEF PipeRec
<1> HIDE DEF r
<1>2. k \in 1 .. c
  OBVIOUS
<1> HIDE DEF c
<1>3. r + k - 1 \in 0 .. 2 * PIPE_BUF - 1
  BY <1>1, <1>2
<1>4. (r + k - 1) % PIPE_BUF \in 0 .. PIPE_BUF - 1
  BY <1>3, Reduced
<1> QED  BY <1>1, <1>4 DEF r

\* A ring that is left alone, or loses only its closed flags, holds what it held.
LEMMA SameContents ==
  ASSUME NEW q \in Pipes, pipes'[q].buf = pipes[q].buf, pipes'[q].count = pipes[q].count,
         pipes'[q].read_pos = pipes[q].read_pos
  PROVE  Contents(q)' = Contents(q)
BY DEF Contents

\* fd_read takes bytes from the front of one queue.
LEMMA RefineRead ==
  ASSUME Inv, NEW i \in FDs, NEW size \in Nat, fd_read(i, size)
  PROVE  Queues!QueueNext
<1>0. PICK p \in Pipes : \E n \in 0 .. pipes[p].count :
        /\ i \in Ends(p, "FD_PIPE_READ")
        /\ pipes'[p].buf = pipes[p].buf
        /\ pipes'[p].read_pos = (pipes[p].read_pos + n) % PIPE_BUF
        /\ pipes'[p].count = pipes[p].count - n
        /\ \A q \in Pipes \ {p} : pipes'[q] = pipes[q]
  BY ReadStep
<1>1. PICK n \in 0 .. pipes[p].count :
        /\ i \in Ends(p, "FD_PIPE_READ")
        /\ pipes'[p].buf = pipes[p].buf
        /\ pipes'[p].read_pos = (pipes[p].read_pos + n) % PIPE_BUF
        /\ pipes'[p].count = pipes[p].count - n
        /\ \A q \in Pipes \ {p} : pipes'[q] = pipes[q]
  BY <1>0
<1>2. fds' = fds
  BY DEF fd_read
<1>3. OpenBar' = OpenBar /\ "read" \in OpenBar[p]
  BY <1>1, <1>2 DEF OpenBar, Ends
<1>4. pipes[p] \in PipeRec
  BY DEF Inv, TypeOK
<1>5. \A q \in Pipes \ {p} : Contents(q)' = Contents(q)
  BY <1>1, SameContents
<1>6. QueueBar' = [QueueBar EXCEPT ![p] = QueueBar'[p]]
  BY <1>5 DEF QueueBar
<1> DEFINE r == pipes[p].read_pos
           c == pipes[p].count
           b == pipes[p].buf
           s == [k \in 1 .. c - n |-> b[(((r + n) % PIPE_BUF) + k - 1) % PIPE_BUF]]
           t == [k \in 1 .. c |-> b[(r + k - 1) % PIPE_BUF]]
<1>7. QueueBar[p] = t /\ QueueBar'[p] = s
  BY <1>1 DEF QueueBar, Contents
<1>8. \A k \in 1 .. c : b[(r + k - 1) % PIPE_BUF] \in Byte
  BY <1>4, ContentsType
<1>9. r \in 0 .. PIPE_BUF - 1 /\ c \in 0 .. PIPE_BUF /\ n \in 0 .. c /\ PIPE_BUF \in Nat
  BY <1>4, FdAssumption DEF PipeRec
<1> HIDE DEF r, c, b
<1>10. ASSUME NEW k \in 1 .. c - n
       PROVE  (((r + n) % PIPE_BUF) + k - 1) % PIPE_BUF = (r + (n + k) - 1) % PIPE_BUF
  <2>1. n \in Nat /\ k - 1 \in Nat /\ n + (k - 1) <= PIPE_BUF /\ n + k \in 1 .. c
        /\ r + n + (k - 1) = r + (n + k) - 1
    BY <1>9
  <2>2. (((r + n) % PIPE_BUF) + (k - 1)) % PIPE_BUF = (r + n + (k - 1)) % PIPE_BUF
    BY <1>9, <2>1, GoOn
  <2>3. r + n \in 0 .. 2 * PIPE_BUF - 1
    BY <1>9
  <2>4. (r + n) % PIPE_BUF \in Int
    BY <1>9, <2>3, Reduced
  <2>5. ((r + n) % PIPE_BUF) + (k - 1) = ((r + n) % PIPE_BUF) + k - 1
    BY <2>1, <2>4
  <2> QED  BY <2>1, <2>2, <2>5
<1>11. \A k \in 1 .. c - n : n + k \in 1 .. c
  BY <1>9
<1>12. \A k \in 1 .. c - n : s[k] = t[n + k] /\ s[k] \in Byte
  BY <1>8, <1>10, <1>11
<1>13. s \in [1 .. c - n -> Byte] /\ t \in [1 .. c -> Byte]
  BY <1>8, <1>12
<1> HIDE DEF s, t
<1>14. c - n \in Nat /\ n \in Nat /\ n + (c - n) = c
  BY <1>9
<1>15. Queues!IsSuffix(s, t)
  <2>1. t \in [1 .. n + (c - n) -> Byte]
    BY <1>13, <1>14
  <2> DEFINE m == c - n
  <2>2. m \in Nat /\ s \in [1 .. m -> Byte] /\ t \in [1 .. n + m -> Byte]
        /\ \A k \in 1 .. m : s[k] = t[n + k]
    BY <1>12, <1>13, <1>14, <2>1
  <2> HIDE DEF m
  <2> QED  BY <1>14, <2>2, SuffixIf
<1>16. Queues!Get(p)
  BY <1>3, <1>6, <1>7, <1>15, AbstractSteps
<1> QED  BY <1>16 DEF Queues!QueueNext

\* The count bytes before the write position are at least the rest of the
\* ring past it.
LEMMA HeldBehind ==
  ASSUME NEW r \in 0 .. PIPE_BUF - 1, NEW c \in 0 .. PIPE_BUF, NEW k \in 1 .. c
  PROVE  /\ (r + k - 1) % PIPE_BUF \in 0 .. PIPE_BUF - 1
         /\ (((r + k - 1) % PIPE_BUF) - ((r + c) % PIPE_BUF)) % PIPE_BUF >= PIPE_BUF - c
<1>1. PIPE_BUF \in Nat /\ PIPE_BUF > 0
  BY FdAssumption
<1> DEFINE x == r + k - 1
           y == r + c
           j == x % PIPE_BUF
           w == y % PIPE_BUF
           z == j - w
           d == z % PIPE_BUF
<1>2. x \in 0 .. 2 * PIPE_BUF - 1 /\ y \in 0 .. 2 * PIPE_BUF - 1 /\ x < y /\ y <= x + c
  BY <1>1
<1> HIDE DEF x, y
<1>3. j \in 0 .. PIPE_BUF - 1 /\ (x < PIPE_BUF => j = x) /\ (x >= PIPE_BUF => j = x - PIPE_BUF)
  BY <1>2, Reduced
<1>4. w \in 0 .. PIPE_BUF - 1 /\ (y < PIPE_BUF => w = y) /\ (y >= PIPE_BUF => w = y - PIPE_BUF)
  BY <1>2, Reduced
<1> HIDE DEF j, w
<1>5. z \in (1 - PIPE_BUF) .. PIPE_BUF - 1
  BY <1>1, <1>3, <1>4
<1>6. (z < 0 /\ z >= -c) \/ z >= PIPE_BUF - c
  BY <1>1, <1>2, <1>3, <1>4
<1> HIDE DEF z
<1>7. (z < 0 => d = z + PIPE_BUF) /\ (z >= 0 => d = z)
  BY <1>5, ReducedBack
<1> HIDE DEF d
<1>8. d >= PIPE_BUF - c
  BY <1>1, <1>5, <1>6, <1>7
<1> QED  BY <1>3, <1>8, Zenon DEF j, w, d, z, x, y

\* fd_write adds bytes behind those of one queue, and overwrites none.
LEMMA RefineWrite ==
  ASSUME Inv, NEW i \in FDs, NEW data \in Seq(Byte), fd_write(i, data)
  PROVE  Queues!QueueNext
<1>0. PICK p \in Pipes : \E n \in 0 .. PIPE_BUF - pipes[p].count :
        /\ i \in Ends(p, "FD_PIPE_WRITE")
        /\ pipes' \in [Pipes -> PipeRec]
        /\ pipes'[p].read_pos = pipes[p].read_pos
        /\ pipes'[p].count = pipes[p].count + n
        /\ \A k \in 0 .. PIPE_BUF - 1 :
             (k - pipes[p].write_pos) % PIPE_BUF >= n => pipes'[p].buf[k] = pipes[p].buf[k]
        /\ \A q \in Pipes \ {p} : pipes'[q] = pipes[q]
  BY WriteStep
<1>1. PICK n \in 0 .. PIPE_BUF - pipes[p].count :
        /\ i \in Ends(p, "FD_PIPE_WRITE")
        /\ pipes' \in [Pipes -> PipeRec]
        /\ pipes'[p].read_pos = pipes[p].read_pos
        /\ pipes'[p].count = pipes[p].count + n
        /\ \A k \in 0 .. PIPE_BUF - 1 :
             (k - pipes[p].write_pos) % PIPE_BUF >= n => pipes'[p].buf[k] = pipes[p].buf[k]
        /\ \A q \in Pipes \ {p} : pipes'[q] = pipes[q]
  BY <1>0
<1>2. fds' = fds
  BY DEF fd_write
<1>3. OpenBar' = OpenBar /\ "write" \in OpenBar[p]
  BY <1>1, <1>2 DEF OpenBar, Ends
<1>4. pipes[p] \in PipeRec /\ pipes'[p] \in PipeRec
  BY <1>1 DEF Inv, TypeOK
<1>5. \A q \in Pipes \ {p} : Contents(q)' = Contents(q)
  BY <1>1, SameContents
<1>6. QueueBar' = [QueueBar EXCEPT ![p] = QueueBar'[p]]
  BY <1>5 DEF QueueBar
<1>7. pipes[p].write_pos = (pipes[p].read_pos + pipes[p].count) % PIPE_BUF
  BY DEF Inv, RingsSound
<1> DEFINE r == pipes[p].read_pos
           c == pipes[p].count
           b == pipes[p].buf
           d == pipes'[p].buf
           w == pipes[p].write_pos
           s == [k \in 1 .. c |-> b[(r + k - 1) % PIPE_BUF]]
           t == [k \in 1 .. c + n |-> d[(r + k - 1) % PIPE_BUF]]
<1>8. QueueBar[p] = s /\ QueueBar'[p] = t
  BY <1>1 DEF QueueBar, Contents
<1>9. \A k \in 1 .. c : b[(r + k - 1) % PIPE_BUF] \in Byte
  BY <1>4, ContentsType
<1>10. \A k \in 1 .. c + n : d[(r + k - 1) % PIPE_BUF] \in Byte
  BY <1>1, <1>4, ContentsType
<1>11. /\ r \in 0 .. PIPE_BUF - 1 /\ c \in 0 .. PIPE_BUF /\ n \in 0 .. PIPE_BUF - c
       /\ PIPE_BUF \in Nat
  BY <1>4, FdAssumption DEF PipeRec
<1>12. w = (r + c) % PIPE_BUF /\ w \in 0 .. PIPE_BUF - 1
       /\ \A k \in 0 .. PIPE_BUF - 1 : (k - w) % PIPE_BUF >= n => d[k] = b[k]
  BY <1>1, <1>4, <1>7 DEF PipeRec
<1> HIDE DEF r, c, b, d, w
<1>13. ASSUME NEW k \in 1 .. c
       PROVE  d[(r + k - 1) % PIPE_BUF] = b[(r + k - 1) % PIPE_BUF]
  <2> DEFINE j == (r + k - 1) % PIPE_BUF
             z == j - w
             e == z % PIPE_BUF
  <2>1. j \in 0 .. PIPE_BUF - 1 /\ e >= PIPE_BUF - c
    <3>1. /\ (r + k - 1) % PIPE_BUF \in 0 .. PIPE_BUF - 1
          /\ (((r + k - 1) % PIPE_BUF) - ((r + c) % PIPE_BUF)) % PIPE_BUF >= PIPE_BUF - c
      BY <1>11, HeldBehind
    <3>2. w = (r + c) % PIPE_BUF
      BY <1>12
    <3>3. e = (((r + k - 1) % PIPE_BUF) - ((r + c) % PIPE_BUF)) % PIPE_BUF
      BY <3>2, Zenon
    <3> HIDE DEF e
    <3> QED  BY <3>1, <3>3, Zenon
  <2>2. e >= n => d[j] = b[j]
    BY <1>12, <2>1, Zenon
  <2> HIDE DEF j
  <2>3. z \in (1 - PIPE_BUF) .. PIPE_BUF - 1
    BY <1>11, <1>12, <2>1
  <2> HIDE DEF z
  <2>4. e \in 0 .. PIPE_BUF - 1
    BY <2>3, ReducedBack
  <2> HIDE DEF e
  <2>5. e >= n
    BY <1>11, <2>1, <2>4
  <2> QED  BY <2>2, <2>5 DEF j
<1>14. /\ s \in [1 .. c -> Byte] /\ t \in [1 .. c + n -> Byte]
       /\ \A k \in 1 .. c : s[k] = t[k]
  <2>1. \A k \in 1 .. c : k \in 1 .. c + n
    BY <1>11
  <2> QED  BY <1>9, <1>10, <1>13, <2>1
<1> HIDE DEF s, t
<1>15. c \in Nat /\ c + n \in Nat /\ c <= c + n /\ c + n <= PIPE_BUF
  BY <1>11
<1>16. Queues!IsPrefix(s, t)
  BY <1>14, <1>15, PrefixIf
<1>17. Len(t) = c + n
  BY <1>14, <1>15
<1>18. Queues!Put(p)
  BY <1>3, <1>6, <1>8, <1>15, <1>16, <1>17, AbstractSteps
<1> QED  BY <1>18 DEF Queues!QueueNext

\* fd_pipe begins a queue anew on a pipe both of whose ends are closed.
LEMMA RefinePipe ==
  ASSUME Inv, NEW p \in Pipes, NEW rfd \in FDs, NEW wfd \in FDs, fd_pipe(p, rfd, wfd)
  PROVE  Queues!QueueNext
<1>1. /\ ~pipes[p].used /\ rfd # wfd /\ ~fds[rfd].used /\ ~fds[wfd].used
      /\ pipes' = [pipes EXCEPT ![p] = Fresh(pipes[p])]
      /\ fds' = [fds EXCEPT ![rfd] = Desc("FD_PIPE_READ", None, p),
                            ![wfd] = Desc("FD_PIPE_WRITE", None, p)]
  BY DEF fd_pipe, alloc_pipe, alloc_fd, FreeFd
<1>2. /\ fds'[rfd].used /\ fds'[rfd].type = "FD_PIPE_READ" /\ fds'[rfd].pipe_id = p
      /\ fds'[wfd].used /\ fds'[wfd].type = "FD_PIPE_WRITE" /\ fds'[wfd].pipe_id = p
      /\ \A j \in FDs \ {rfd, wfd} : fds'[j] = fds[j]
  BY <1>1 DEF Inv, TypeOK, Desc
<1>3. OpenBar[p] = {}
  BY <1>1 DEF Inv, PipesOwned, OpenBar
<1>4. rfd \in Ends(p, "FD_PIPE_READ")' /\ wfd \in Ends(p, "FD_PIPE_WRITE")'
  BY <1>2 DEF Ends
<1>5. ASSUME NEW q \in Pipes \ {p}, NEW t \in PipeEnds PROVE Ends(q, t)' = Ends(q, t)
  BY <1>1, <1>2 DEF Ends, PipeEnds
<1>6. OpenBar' = [OpenBar EXCEPT ![p] = {"read", "write"}]
  <2>1. OpenBar'[p] = {"read", "write"}
    BY <1>4 DEF OpenBar
  <2>2. \A q \in Pipes \ {p} : OpenBar'[q] = OpenBar[q]
    BY <1>5 DEF OpenBar, PipeEnds
  <2> QED  BY <2>1, <2>2 DEF OpenBar
<1>7. QueueBar' = [QueueBar EXCEPT ![p] = <<>>]
  <2>1. pipes \in [Pipes -> PipeRec] /\ pipes[p] \in PipeRec
    BY DEF Inv, TypeOK
  <2>2. pipes'[p].count = 0
    BY <1>1, <2>1 DEF Fresh, PipeRec
  <2>3. Contents(p)' = <<>>
    BY <2>2 DEF Contents
  <2>4. \A q \in Pipes \ {p} : pipes'[q] = pipes[q]
    BY <1>1, <2>1
  <2>5. \A q \in Pipes \ {p} : Contents(q)' = Contents(q)
    BY <2>4, SameContents
  <2> QED  BY <2>3, <2>5 DEF QueueBar
<1>8. Queues!Begin(p)
  BY <1>3, <1>6, <1>7, AbstractSteps
<1> QED  BY <1>8 DEF Queues!QueueNext

\* fd_close shuts one end of a queue and keeps its bytes; a file or a stream
\* is not on a queue.
LEMMA RefineClose ==
  ASSUME Inv, NEW i \in FDs, fd_close(i)
  PROVE  Queues!QueueNext \/ (QueueBar' = QueueBar /\ OpenBar' = OpenBar)
<1>1. fds[i].used /\ fds' = [fds EXCEPT ![i] = NoDesc]
  BY DEF fd_close
<1>2. ~fds'[i].used /\ \A j \in FDs \ {i} : fds'[j] = fds[j]
  BY <1>1 DEF Inv, TypeOK, NoDesc
<1>3. CASE Close_file(i) \/ Close_stream(i)
  <2>1. pipes' = pipes /\ fds[i].type \notin PipeEnds
    BY <1>3 DEF Close_file, Close_stream, PipeEnds
  <2>2. ASSUME NEW q \in Pipes, NEW t \in PipeEnds PROVE Ends(q, t)' = Ends(q, t)
    BY <1>2, <2>1 DEF Ends
  <2>3. OpenBar' = OpenBar
    BY <2>2 DEF OpenBar, PipeEnds
  <2>4. QueueBar' = QueueBar
    BY <2>1 DEF QueueBar, Contents
  <2> QED  BY <2>3, <2>4
<1>4. CASE Close_write_end(i) \/ Close_read_end(i)
  <2>1. PICK p, t : p = fds[i].pipe_id /\ t = fds[i].type
    OBVIOUS
  <2>2. /\ t \in PipeEnds /\ p \in Pipes
        /\ \A q \in Pipes \ {p} : pipes'[q] = pipes[q]
        /\ pipes'[p].buf = pipes[p].buf /\ pipes'[p].count = pipes[p].count
        /\ pipes'[p].read_pos = pipes[p].read_pos
    BY <1>4, <2>1, CloseEnd
  <2>3. QueueBar' = QueueBar
    <3>1. \A q \in Pipes : Contents(q)' = Contents(q)
      BY <2>2, SameContents
    <3> QED  BY <3>1 DEF QueueBar
  <2>4. i \in Ends(p, t)
    BY <1>1, <2>1 DEF Ends
  <2>5. Ends(p, t)' = {}
    BY <1>2, <2>1, <2>2 DEF Inv, EndsSingle, Ends
  <2>6. ASSUME NEW q \in Pipes, NEW e \in PipeEnds, q # p \/ e # t PROVE Ends(q, e)' = Ends(q, e)
    BY <1>2, <2>1, <2>6 DEF Ends
  <2>7. PICK end \in {"read", "write"} :
          t = IF end = "read" THEN "FD_PIPE_READ" ELSE "FD_PIPE_WRITE"
    BY <2>2 DEF PipeEnds
  <2>8. end \in OpenBar[p]
    BY <2>2, <2>4, <2>7 DEF OpenBar
  <2>9. OpenBar' = [OpenBar EXCEPT ![p] = OpenBar[p] \ {end}]
    <3>1. OpenBar'[p] = OpenBar[p] \ {end}
      BY <2>2, <2>5, <2>6, <2>7 DEF OpenBar, PipeEnds
    <3>2. \A q \in Pipes \ {p} : OpenBar'[q] = OpenBar[q]
      BY <2>6 DEF OpenBar, PipeEnds
    <3> QED  BY <3>1, <3>2 DEF OpenBar
  <2>10. Queues!Close(p, end)
    BY <2>2, <2>3, <2>8, <2>9, AbstractSteps
  <2> QED  BY <2>2, <2>10 DEF Queues!QueueNext
<1> QED  BY <1>3, <1>4 DEF fd_close

\* fd_open takes a slot that was on no pipe.
LEMMA RefineOpen ==
  ASSUME Inv, NEW fat \in FAT_FDS, fd_open(fat)
  PROVE  QueueBar' = QueueBar /\ OpenBar' = OpenBar
<1>1. QueueBar' = QueueBar
  BY DEF fd_open, QueueBar, Contents
<1>2. ASSUME NEW q \in Pipes, NEW t \in PipeEnds PROVE Ends(q, t)' = Ends(q, t)
  <2>1. CASE fds' = fds
    BY <2>1 DEF Ends
  <2>2. ASSUME NEW i \in FDs, alloc_fd(i), fds' = [fds EXCEPT ![i] = Desc("FD_FILE", fat, None)]
        PROVE  Ends(q, t)' = Ends(q, t)
    <3>1. ~fds[i].used /\ fds'[i].type = "FD_FILE" /\ \A j \in FDs \ {i} : fds'[j] = fds[j]
      BY <2>2 DEF alloc_fd, FreeFd, Inv, TypeOK, Desc
    <3> QED  BY <3>1 DEF Ends, PipeEnds
  <2> QED  BY <2>1, <2>2 DEF fd_open
<1>3. OpenBar' = OpenBar
  BY <1>2 DEF OpenBar, PipeEnds
<1> QED  BY <1>1, <1>3

\* The pipes of fd.cpp implement the bounded queues of PipeQueues: bytes leave a
\* pipe in the order they came, none is lost or overwritten by a wrapped or short
\* transfer, and a pipe that is used anew begins empty.
THEOREM PipesRefineQueues == Spec => PipesAreQueues
<1>1. Init => Queues!QueueInit
  <2> SUFFICES ASSUME Init PROVE Queues!QueueInit
    OBVIOUS
  <2>1. Inv
    BY InvInit
  <2>2. \A p \in Pipes : ~pipes[p].used /\ pipes[p].count = 0
    BY DEF Init
  <2>3. \A p \in Pipes : Ends(p, "FD_PIPE_READ") = {} /\ Ends(p, "FD_PIPE_WRITE") = {}
    BY <2>1, <2>2 DEF Inv, PipesOwned
  <2>4. \A p \in Pipes : Contents(p) = <<>>
    BY <2>2 DEF Contents
  <2>5. OpenBar = [p \in Pipes |-> {}]
    BY <2>3 DEF OpenBar
  <2>6. QueueBar = [p \in Pipes |-> <<>>]
    BY <2>4 DEF QueueBar
  <2> QED  BY <2>5, <2>6 DEF Queues!QueueInit, QueueBar, OpenBar
<1>2. ASSUME Inv, [Next]_vars
      PROVE  Queues!QueueNext \/ (QueueBar' = QueueBar /\ OpenBar' = OpenBar)
  <2>1. CASE UNCHANGED vars
    BY <2>1 DEF vars, QueueBar, OpenBar, Contents, Ends
  <2>2. CASE Next
    BY <1>2, <2>2, SizesOfNext, RefinePipe, RefineOpen, RefineRead, RefineWrite, RefineClose DEF Next
  <2> QED  BY <1>2, <2>1, <2>2
<1>3. ASSUME Inv, [Next]_vars
      PROVE  [Queues!QueueNext]_<<[p \in Pipes |-> Contents(p)],
                                  [p \in Pipes |->
                                     {e \in {"read", "write"} :
                                        Ends(p, IF e = "read" THEN "FD_PIPE_READ"
                                                ELSE "FD_PIPE_WRITE") # {}}]>>
  BY <1>2, <1>3 DEF QueueBar, OpenBar
<1> QED  BY <1>1, <1>3, Invariance, PTL DEF Spec, PipesAreQueues, Queues!QueueSpec

-----------------------------------------------------------------------------
\* The shell.

Slots == 3 .. FD_MAX - 1

\* An activation, as far as its fields tell.
Act == [by : {"keyboard", "serial"}, line : Lines, pc : Pcs, cmd : Cmds,
        file : FDs \cup {None}, rfd : FDs \cup {None}, wfd : FDs \cup {None},
        buf : 0 .. CHUNK, sent : 0 .. PIPE_BUF + 1, got : Nat, touched : BOOLEAN]

HasFile(a)  == a.line \in {"redirect", "both"} /\ a.pc # "create"
HasRead(a)  == a.line \in {"pipe", "both"} /\ a.pc \in {"left", "right"}
HasWrite(a) == a.line \in {"pipe", "both"} /\ a.pc = "left"

\* What an activation has open in the table t, by how far its line has come.
Placed(t, a) ==
  /\ a.pc = "create" => a.line \in {"redirect", "both"}
  /\ a.pc \in {"pipe", "right"} => a.line \in {"pipe", "both"}
  /\ a.pc = "fclose" => a.line = "both"
  /\ IF HasFile(a) THEN a.file \in Slots /\ t[a.file].type = "FD_FILE" ELSE a.file = None
  /\ IF HasRead(a) THEN a.rfd \in Slots /\ t[a.rfd].type = "FD_PIPE_READ" ELSE a.rfd = None
  /\ IF HasWrite(a)
     THEN a.wfd \in Slots /\ t[a.wfd].type = "FD_PIPE_WRITE" /\ t[a.wfd].pipe_id = t[a.rfd].pipe_id
     ELSE a.wfd = None

\* The open descriptors beside the streams, each with one owner.
Owners(t, cs, progs) ==
  /\ progs \subseteq Slots
  /\ \A i \in 1 .. Len(cs) : Own(cs[i]) \cap progs = {}
  /\ \A i, j \in 1 .. Len(cs) : i # j => Own(cs[i]) \cap Own(cs[j]) = {}
  /\ \A f \in Slots : t[f].used <=> f \in progs \/ \E i \in 1 .. Len(cs) : f \in Own(cs[i])

\* The keyboard's line waits in a program while the serial one runs.
Stacked(cs) ==
  /\ cs \in Seq(Act) /\ Len(cs) \in 0 .. 2
  /\ Len(cs) > 0 => cs[1].by = "keyboard"
  /\ Len(cs) = 2 => /\ cs[2].by = "serial" /\ cs[2].cmd \notin {"load", "prog"}
                    /\ cs[1].cmd = "prog" /\ cs[1].pc \in {"left", "right"}

InOf(a) == IF a.pc = "right" THEN a.rfd ELSE None

\* Where the redirections point.
Routed(cs, out, in) ==
  /\ Len(cs) = 0 => out = None /\ in = None
  /\ Len(cs) = 1 => /\ out \in {OutOf(cs[1]), None} /\ in \in {InOf(cs[1]), None}
                    /\ cs[1].cmd \notin {"prog", "done"} => out = OutOf(cs[1]) /\ in = InOf(cs[1])
  /\ Len(cs) = 2 => /\ IF cs[2].pc \in {"left", "right"} /\ cs[2].line # "plain"
                       THEN out = OutOf(cs[2]) ELSE out \in {OutOf(cs[1]), None}
                    /\ IF cs[2].pc = "right" THEN in = cs[2].rfd ELSE in \in {InOf(cs[1]), None}
  /\ Len(cs) > 0 /\ cs[Len(cs)].cmd = "cat" => in # None

\* The bytes of an activation's pipe, unless another one touched it.
Balanced(t, ps, a) ==
  /\ a.pc \in {"create", "pipe"} => a.sent = 0
  /\ a.pc \in {"create", "pipe", "left"} => a.got = 0
  /\ a.rfd # None /\ ~a.touched => ps[t[a.rfd].pipe_id].count + a.got = Smaller(a.sent, PIPE_BUF)

ShInv ==
  /\ Stacked(calls)
  /\ \A i \in 1 .. Depth : Placed(fds, calls[i])
  /\ Owners(fds, calls, prog_fds)
  /\ Routed(calls, g_out_fd, g_in_fd)
  /\ g_serial_mode = (Depth = 2)
  /\ \A i \in 1 .. Depth : Balanced(fds, pipes, calls[i])

SInv == Inv /\ ShInv

-----------------------------------------------------------------------------
\* Replacing the activation that runs.
LEMMA SetLast ==
  ASSUME NEW cs \in Seq(Act), Len(cs) > 0, NEW a \in Act, NEW ds,
         ds = [cs EXCEPT ![Len(cs)] = a]
  PROVE  /\ ds \in Seq(Act) /\ Len(ds) = Len(cs) /\ ds[Len(cs)] = a
         /\ \A i \in 1 .. Len(cs) : i # Len(cs) => ds[i] = cs[i]
<1>1. Len(cs) \in Nat /\ cs \in [1 .. Len(cs) -> Act]
  BY LenProperties
<1>2. PICK n : n = Len(cs)
  OBVIOUS
<1>3. n \in Nat /\ n > 0 /\ cs \in [1 .. n -> Act]
  BY <1>1, <1>2
<1>4. /\ ds \in [1 .. n -> Act] /\ ds[n] = a
      /\ \A i \in 1 .. n : i # n => ds[i] = cs[i]
  BY <1>2, <1>3
<1>5. ds \in Seq(Act) /\ Len(ds) = n
  BY <1>3, <1>4, SeqDef, LenProperties
<1> QED  BY <1>2, <1>4, <1>5

\* Returning from it.
LEMMA DropLast ==
  ASSUME NEW cs \in Seq(Act), Len(cs) > 0, NEW ds, ds = SubSeq(cs, 1, Len(cs) - 1)
  PROVE  /\ ds \in Seq(Act) /\ Len(ds) = Len(cs) - 1
         /\ \A i \in 1 .. Len(ds) : ds[i] = cs[i]
<1>1. Len(cs) \in Nat /\ \A i \in 1 .. Len(cs) : cs[i] \in Act
  BY LenProperties, ElementOfSeq
<1>2. PICK n : n = Len(cs)
  OBVIOUS
<1>3. n \in Nat /\ n > 0 /\ \A i \in 1 .. n : cs[i] \in Act
  BY <1>1, <1>2
<1>4. \A i \in 1 .. n - 1 : cs[i] \in Act
  BY <1>3
<1>5. /\ ds \in Seq(Act) /\ Len(ds) = IF 1 <= n - 1 THEN (n - 1) - 1 + 1 ELSE 0
      /\ \A i \in 1 .. (n - 1) - 1 + 1 : ds[i] = cs[1 + i - 1]
  <2>1. 1 \in Int /\ n - 1 \in Int
    BY <1>3
  <2> QED  BY <1>2, <1>4, <2>1, SubSeqProperties
<1>6. Len(ds) = n - 1 /\ \A i \in 1 .. n - 1 : i \in 1 .. (n - 1) - 1 + 1 /\ 1 + i - 1 = i
  BY <1>3, <1>5
<1> QED  BY <1>2, <1>5, <1>6

\* Calling it.
LEMMA Push ==
  ASSUME NEW cs \in Seq(Act), NEW a \in Act, NEW ds, ds = Append(cs, a)
  PROVE  /\ ds \in Seq(Act) /\ Len(ds) = Len(cs) + 1 /\ ds[Len(cs) + 1] = a
         /\ \A i \in 1 .. Len(cs) : ds[i] = cs[i]
BY AppendProperties, LenProperties

-----------------------------------------------------------------------------
\* What a step that leaves the table of descriptors alone keeps of an activation.
SameFrame(a, b) ==
  /\ b.by = a.by /\ b.line = a.line /\ b.pc = a.pc
  /\ b.file = a.file /\ b.rfd = a.rfd /\ b.wfd = a.wfd

\* n bytes printed, or r bytes read, go to or come from the pipe of a.
Into(a, n) == n > 0 /\ g_out_fd # None /\ g_out_fd = a.wfd
From(a, r) == r > 0 /\ g_in_fd # None /\ g_in_fd = a.rfd

\* The counts of the activation that runs, and of one that waits.
TalliedTop(a, b, n, r) ==
  /\ b.touched = a.touched
  /\ b.sent = IF Into(a, n) THEN Smaller(a.sent + n, PIPE_BUF + 1) ELSE a.sent
  /\ b.got = IF From(a, r) THEN a.got + r ELSE a.got
TalliedBelow(a, b, n, r) ==
  /\ b.sent = a.sent /\ b.got = a.got
  /\ b.touched <=> a.touched \/ Into(a, n) \/ From(a, r)

\* The stack cs after n bytes printed and r read.
Follows(cs, n, r) ==
  /\ cs \in Seq(Act) /\ Len(cs) = Depth
  /\ \A i \in 1 .. Depth : SameFrame(calls[i], cs[i])
  /\ \A i \in 1 .. Depth : i # Depth => cs[i].cmd = calls[i].cmd
                                        /\ TalliedBelow(calls[i], cs[i], n, r)
  /\ TalliedTop(Top, cs[Depth], n, r)

\* The numbers of the shell.
LEMMA ShNumbers ==
  /\ PIPE_BUF \in Nat /\ PIPE_BUF > 0 /\ CHUNK \in Nat /\ CHUNK > 0 /\ MaxSize \in Nat
  /\ FD_MAX \in Nat /\ FD_MAX >= 3 /\ Slots \subseteq FDs /\ None \notin FDs
BY FdAssumption, ShellAssumption DEF Slots, FDs, None

\* Fields of an activation.
LEMMA Fields ==
  ASSUME NEW a \in Act
  PROVE  /\ a.by \in {"keyboard", "serial"} /\ a.line \in Lines /\ a.pc \in Pcs /\ a.cmd \in Cmds
         /\ a.file \in FDs \cup {None} /\ a.rfd \in FDs \cup {None} /\ a.wfd \in FDs \cup {None}
         /\ a.buf \in 0 .. CHUNK /\ a.sent \in 0 .. PIPE_BUF + 1 /\ a.got \in Nat
         /\ a.touched \in BOOLEAN
BY DEF Act

\* The stack and the activation that runs.
LEMMA Running ==
  ASSUME calls \in Seq(Act)
  PROVE  /\ Depth \in Nat /\ DOMAIN calls = 1 .. Depth
         /\ \A i \in 1 .. Depth : calls[i] \in Act
         /\ Depth > 0 => Top \in Act /\ Depth \in 1 .. Depth
<1>1. Depth \in Nat /\ calls \in [1 .. Depth -> Act] /\ DOMAIN calls = 1 .. Depth
  BY LenProperties DEF Depth
<1> QED  BY <1>1 DEF Top

\* Counted counts, and changes nothing else.
LEMMA CountedFollows ==
  ASSUME calls \in Seq(Act), Depth > 0, NEW n \in Nat, NEW r \in Nat
  PROVE  /\ Follows(Counted(n, r), n, r)
         /\ \A i \in 1 .. Depth : Counted(n, r)[i].cmd = calls[i].cmd
<1>1. Depth \in Nat /\ Depth \in 1 .. Depth /\ \A i \in 1 .. Depth : calls[i] \in Act
  BY Running
<1> DEFINE cs == Counted(n, r)
<1>2. ASSUME NEW i \in 1 .. Depth, i # Depth
      PROVE  /\ cs[i] \in Act /\ SameFrame(calls[i], cs[i]) /\ cs[i].cmd = calls[i].cmd
             /\ TalliedBelow(calls[i], cs[i], n, r)
  <2>1. PICK a \in Act : a = calls[i]
    BY <1>1
  <2>2. cs[i] = [a EXCEPT !.touched = a.touched \/ Into(a, n) \/ From(a, r)]
    BY <1>2, <2>1 DEF Counted, Into, From
  <2>3. PICK t : t = (a.touched \/ Into(a, n) \/ From(a, r))
    OBVIOUS
  <2>4. t \in BOOLEAN
    BY <2>3, Fields DEF Into, From
  <2>5. PICK b : b = [a EXCEPT !.touched = t]
    OBVIOUS
  <2>6. b \in Act /\ SameFrame(a, b) /\ b.cmd = a.cmd /\ b.sent = a.sent /\ b.got = a.got /\ b.touched = t
    BY <2>4, <2>5 DEF Act, SameFrame
  <2>7. cs[i] = b
    BY <2>2, <2>3, <2>5
  <2>8. b.touched <=> a.touched \/ Into(a, n) \/ From(a, r)
    BY <2>3, <2>6
  <2> HIDE DEF cs
  <2> QED  BY <2>1, <2>6, <2>7, <2>8 DEF TalliedBelow
<1>3. /\ cs[Depth] \in Act /\ SameFrame(Top, cs[Depth]) /\ cs[Depth].cmd = Top.cmd
      /\ TalliedTop(Top, cs[Depth], n, r)
  <2>1. PICK a \in Act : a = calls[Depth]
    BY <1>1
  <2>2. PICK s, g : /\ s = IF Into(a, n) THEN Smaller(a.sent + n, PIPE_BUF + 1) ELSE a.sent
                    /\ g = IF From(a, r) THEN a.got + r ELSE a.got
    OBVIOUS
  <2>3. cs[Depth] = [a EXCEPT !.sent = s, !.got = g]
    BY <1>1, <2>1, <2>2 DEF Counted, Into, From
  <2>4. s \in 0 .. PIPE_BUF + 1 /\ g \in Nat
    BY <2>2, Fields, ShNumbers DEF Smaller
  <2>5. PICK b : b = [a EXCEPT !.sent = s, !.got = g]
    OBVIOUS
  <2>6. /\ b \in Act /\ SameFrame(a, b) /\ b.cmd = a.cmd /\ b.sent = s /\ b.got = g
        /\ b.touched = a.touched
    BY <2>4, <2>5 DEF Act, SameFrame
  <2>7. cs[Depth] = b
    BY <2>3, <2>5
  <2> HIDE DEF cs
  <2> QED  BY <2>1, <2>2, <2>6, <2>7 DEF TalliedTop, Top
<1>4. cs \in Seq(Act) /\ Len(cs) = Depth
  <2>1. cs \in [1 .. Depth -> Act]
    <3>1. cs = [i \in 1 .. Depth |-> cs[i]]
      BY DEF Counted
    <3> HIDE DEF cs
    <3> QED  BY <1>2, <1>3, <3>1
  <2> HIDE DEF cs
  <2> QED  BY <1>1, <2>1, SeqDef, LenProperties
<1> HIDE DEF cs
<1>5. Follows(cs, n, r) /\ \A i \in 1 .. Depth : cs[i].cmd = calls[i].cmd
  BY <1>1, <1>2, <1>3, <1>4 DEF Follows, Top
<1> QED  BY <1>5 DEF cs

\* With says where the dispatch is and what cat holds.
LEMMA WithFollows ==
  ASSUME NEW cs, NEW n, NEW r, Follows(cs, n, r), Depth \in Nat, Depth > 0,
         NEW cmd \in Cmds, NEW buf \in 0 .. CHUNK, NEW ds, ds = With(cs, cmd, buf)
  PROVE  Follows(ds, n, r) /\ ds[Depth].cmd = cmd
<1>1. cs \in Seq(Act) /\ Len(cs) = Depth /\ Depth \in 1 .. Depth /\ cs \in [1 .. Depth -> Act]
  BY LenProperties DEF Follows
<1>2. PICK a \in Act : a = cs[Depth]
  BY <1>1
<1>3. PICK b : b = [a EXCEPT !.cmd = cmd, !.buf = buf]
  OBVIOUS
<1>4. /\ b \in Act /\ SameFrame(a, b) /\ b.cmd = cmd
      /\ b.sent = a.sent /\ b.got = a.got /\ b.touched = a.touched
  BY <1>3 DEF Act, SameFrame
<1>5. ds = [cs EXCEPT ![Depth] = b]
  BY <1>1, <1>2, <1>3 DEF With, Act
<1>6. /\ ds \in Seq(Act) /\ Len(ds) = Depth /\ ds[Depth] = b
      /\ \A i \in 1 .. Depth : i # Depth => ds[i] = cs[i]
  BY <1>1, <1>4, <1>5, SetLast
<1>7. SameFrame(Top, b) /\ TalliedTop(Top, b, n, r)
  BY <1>1, <1>2, <1>4 DEF Follows, SameFrame, TalliedTop, Top
<1>8. \A i \in 1 .. Depth : SameFrame(calls[i], ds[i])
  BY <1>6, <1>7 DEF Follows, Top
<1> QED  BY <1>4, <1>6, <1>7, <1>8 DEF Follows

\* Nothing printed and nothing read.
LEMMA CallsFollow ==
  ASSUME calls \in Seq(Act), Depth > 0
  PROVE  Follows(calls, 0, 0)
<1>1. Len(calls) = Depth /\ Depth \in 1 .. Depth /\ \A i \in 1 .. Depth : calls[i].touched \in BOOLEAN
  BY Running, Fields DEF Depth
<1>2. \A a : ~Into(a, 0) /\ ~From(a, 0)
  BY DEF Into, From
<1>3. \A i \in 1 .. Depth : TalliedBelow(calls[i], calls[i], 0, 0)
  BY <1>1, <1>2 DEF TalliedBelow
<1> QED  BY <1>1, <1>2, <1>3 DEF Follows, SameFrame, TalliedTop, Top

-----------------------------------------------------------------------------
\* What an activation says of the table only depends on its own descriptors.
LEMMA PlacedStays ==
  ASSUME NEW t, NEW u, NEW a \in Act, Placed(t, a), \A f \in Own(a) : u[f] = t[f]
  PROVE  Placed(u, a)
<1>1. None \notin Slots
  BY ShNumbers
<1>2. /\ HasFile(a) => u[a.file] = t[a.file]
      /\ HasRead(a) => u[a.rfd] = t[a.rfd]
      /\ HasWrite(a) => u[a.wfd] = t[a.wfd] /\ HasRead(a)
  BY <1>1 DEF Placed, Own, HasWrite, HasRead
<1> QED  BY <1>2 DEF Placed

\* A step that keeps the frame keeps all that hangs on it.
LEMMA SameFramePlaced ==
  ASSUME NEW t, NEW a, NEW b, SameFrame(a, b)
  PROVE  /\ Placed(t, a) <=> Placed(t, b)
         /\ Own(b) = Own(a) /\ OutOf(b) = OutOf(a) /\ InOf(b) = InOf(a)
<1>1. Own(b) = Own(a) /\ OutOf(b) = OutOf(a) /\ InOf(b) = InOf(a)
  BY DEF SameFrame, Own, OutOf, InOf
<1>2. (HasFile(a) <=> HasFile(b)) /\ (HasRead(a) <=> HasRead(b)) /\ (HasWrite(a) <=> HasWrite(b))
  BY DEF SameFrame, HasFile, HasRead, HasWrite
<1>3. Placed(t, a) <=> Placed(t, b)
  BY <1>2 DEF SameFrame, Placed
<1> QED  BY <1>1, <1>3

\* The owned descriptors of an activation, by what it is doing.
LEMMA OwnBy ==
  ASSUME NEW t, NEW a \in Act, Placed(t, a)
  PROVE  /\ Own(a) \subseteq Slots
         /\ OutOf(a) # None => /\ OutOf(a) \in Own(a)
                               /\ t[OutOf(a)].type \in {"FD_FILE", "FD_PIPE_WRITE"}
         /\ InOf(a) # None => InOf(a) \in Own(a) /\ InOf(a) = a.rfd /\ HasRead(a)
         /\ a.rfd # None <=> HasRead(a)
         /\ a.wfd # None <=> HasWrite(a)
<1>1. None \notin Slots
  BY ShNumbers
<1>2. Own(a) \subseteq Slots
  BY DEF Placed, Own
<1>3. (a.rfd # None <=> HasRead(a)) /\ (a.wfd # None <=> HasWrite(a)) /\ (a.file # None <=> HasFile(a))
  BY <1>1 DEF Placed
<1>4. OutOf(a) # None => /\ OutOf(a) \in Own(a)
                         /\ t[OutOf(a)].type \in {"FD_FILE", "FD_PIPE_WRITE"}
  <2>1. OutOf(a) \in {a.file, a.wfd, None}
    BY DEF OutOf
  <2> QED  BY <1>3, <2>1 DEF Placed, Own
<1>5. InOf(a) # None => InOf(a) \in Own(a) /\ InOf(a) = a.rfd
  BY DEF InOf, Own
<1> QED  BY <1>2, <1>3, <1>4, <1>5

\* The invariant of the shell, taken apart.
LEMMA Parts ==
  ASSUME SInv
  PROVE  /\ Inv /\ calls \in Seq(Act) /\ Depth \in {0, 1, 2}
         /\ \A i \in 1 .. Depth : /\ calls[i] \in Act /\ Placed(fds, calls[i])
                                  /\ Balanced(fds, pipes, calls[i])
         /\ \A i, j \in 1 .. Depth : i # j => Own(calls[i]) \cap Own(calls[j]) = {}
         /\ \A i \in 1 .. Depth : Own(calls[i]) \cap prog_fds = {}
         /\ prog_fds \subseteq Slots
         /\ Depth > 0 => Top \in Act /\ Depth \in 1 .. Depth
<1>1. calls \in Seq(Act) /\ Depth \in {0, 1, 2}
  BY DEF SInv, ShInv, Stacked, Depth
<1> QED  BY <1>1, Running DEF SInv, ShInv, Owners, Depth

\* The redirections are those of an activation.
LEMMA Targets ==
  ASSUME SInv
  PROVE  /\ g_out_fd # None => \E i \in 1 .. Depth : g_out_fd = OutOf(calls[i])
         /\ g_in_fd # None => \E i \in 1 .. Depth : g_in_fd = InOf(calls[i])
<1>1. Routed(calls, g_out_fd, g_in_fd)
  BY DEF SInv, ShInv
<1>2. CASE Depth = 0
  BY <1>1, <1>2 DEF Routed, Depth
<1>3. CASE Depth = 1
  BY <1>1, <1>3 DEF Routed, Depth
<1>4. CASE Depth = 2
  <2>1. 1 \in 1 .. Depth /\ 2 \in 1 .. Depth
    BY <1>4
  <2>2. calls[2].pc = "right" => InOf(calls[2]) = calls[2].rfd
    BY DEF InOf
  <2>3. g_out_fd \in {OutOf(calls[1]), OutOf(calls[2]), None}
    BY <1>1, <1>4 DEF Routed, Depth
  <2>4. g_in_fd \in {InOf(calls[1]), InOf(calls[2]), None}
    BY <1>1, <1>4, <2>2 DEF Routed, Depth
  <2> QED  BY <2>1, <2>3, <2>4
<1> QED  BY <1>2, <1>3, <1>4, Parts

\* Both ends of the pipe of an activation.
LEMMA ReadEnd ==
  ASSUME SInv, NEW i \in 1 .. Depth, calls[i].rfd # None
  PROVE  /\ calls[i].rfd \in FDs /\ calls[i].rfd \in Own(calls[i])
         /\ fds[calls[i].rfd].type = "FD_PIPE_READ" /\ fds[calls[i].rfd].pipe_id \in Pipes
         /\ pipes[fds[calls[i].rfd].pipe_id].count \in 0 .. PIPE_BUF
         /\ pipes[fds[calls[i].rfd].pipe_id].used
<1>1. calls[i] \in Act /\ Placed(fds, calls[i]) /\ Inv
  BY Parts
<1>2. HasRead(calls[i])
  BY <1>1, OwnBy
<1>3. calls[i].rfd \in FDs /\ fds[calls[i].rfd].type = "FD_PIPE_READ"
  BY <1>1, <1>2, ShNumbers DEF Placed
<1>4. PICK f \in FDs : f = calls[i].rfd /\ fds[f].type = "FD_PIPE_READ"
  BY <1>3
<1>5. fds[f].used /\ fds[f].pipe_id \in Pipes
  BY <1>1, <1>4, Slot DEF PipeEnds
<1>6. pipes[fds[f].pipe_id].count \in 0 .. PIPE_BUF
  BY <1>1, <1>5 DEF Inv, TypeOK, PipeRec
<1>7. f \in Ends(fds[f].pipe_id, "FD_PIPE_READ")
  BY <1>4, <1>5 DEF Ends
<1>8. pipes[fds[f].pipe_id].used
  BY <1>1, <1>5, <1>7 DEF Inv, PipesOwned
<1> QED  BY <1>3, <1>4, <1>5, <1>6, <1>8 DEF Own

\* No two activations share a pipe.
LEMMA OnePipe ==
  ASSUME SInv, NEW i \in 1 .. Depth, NEW j \in 1 .. Depth,
         calls[i].rfd # None, calls[j].rfd # None,
         fds[calls[i].rfd].pipe_id = fds[calls[j].rfd].pipe_id
  PROVE  i = j
<1>1. PICK f \in FDs : f = calls[i].rfd /\ fds[f].type = "FD_PIPE_READ" /\ f \in Own(calls[i])
  BY ReadEnd
<1>2. PICK g \in FDs : g = calls[j].rfd /\ fds[g].type = "FD_PIPE_READ" /\ g \in Own(calls[j])
  BY ReadEnd
<1>3. f = g
  BY <1>1, <1>2, Parts DEF Inv, EndsSingle, PipeEnds
<1> QED  BY <1>1, <1>2, <1>3, Parts

\* Bytes moved from or into the pipe of the activation a.
Moved(a, n, r) ==
  a.rfd # None =>
    LET p == fds[a.rfd].pipe_id IN
    pipes'[p].count = IF Into(a, n) THEN Smaller(pipes[p].count + n, PIPE_BUF)
                      ELSE IF From(a, r) THEN pipes[p].count - r
                      ELSE pipes[p].count

\* shell_puts writes into the pipe of the activation whose write end g_out_fd
\* is, as far as there is room, and into no other.
LEMMA PutsStep ==
  ASSUME SInv, NEW n \in Nat, Puts(n)
  PROVE  /\ Inv' /\ fds' = fds
         /\ \A i \in 1 .. Depth : Moved(calls[i], n, 0)
<1>1. \A a : ~From(a, 0)
  BY DEF From
<1>2. CASE ~(g_out_fd # None /\ fds[g_out_fd].type = "FD_PIPE_WRITE")
  <2>1. UNCHANGED vars
    BY <1>2 DEF Puts
  <2>2. Inv'
    BY <2>1, Parts DEF Inv, vars, TypeOK, TableSound, EndsSingle, PipesOwned,
                       FatDescriptorsOwned, RingsSound, Ends
  <2>3. ASSUME NEW i \in 1 .. Depth PROVE ~Into(calls[i], n)
    <3>1. calls[i] \in Act /\ Placed(fds, calls[i])
      BY Parts
    <3>2. calls[i].wfd # None => fds[calls[i].wfd].type = "FD_PIPE_WRITE"
      BY <3>1, OwnBy DEF Placed
    <3> QED  BY <1>2, <3>2 DEF Into
  <2> QED  BY <1>1, <2>1, <2>2, <2>3 DEF Moved, vars
<1>3. CASE g_out_fd # None /\ fds[g_out_fd].type = "FD_PIPE_WRITE"
  <2>1. PICK k \in 1 .. Depth : g_out_fd = OutOf(calls[k])
    BY <1>3, Targets
  <2>2. calls[k] \in Act /\ Placed(fds, calls[k])
    BY Parts
  <2>3. /\ g_out_fd = calls[k].wfd /\ calls[k].rfd # None /\ g_out_fd \in FDs
        /\ fds[g_out_fd].pipe_id = fds[calls[k].rfd].pipe_id
    <3>1. g_out_fd \in {calls[k].file, calls[k].wfd}
      BY <1>3, <2>1 DEF OutOf
    <3>2. g_out_fd = calls[k].wfd /\ HasWrite(calls[k])
      BY <1>3, <2>2, <3>1, OwnBy DEF Placed
    <3>3. HasRead(calls[k])
      BY <3>2 DEF HasWrite, HasRead
    <3> QED  BY <2>2, <3>2, <3>3, OwnBy, ShNumbers DEF Placed
  <2>4. PICK b \in Byte : fd_write(g_out_fd, [j \in 1 .. n |-> b])
    BY <1>3 DEF Puts
  <2>5. PICK d : d = [j \in 1 .. n |-> b]
    OBVIOUS
  <2>6. d \in Seq(Byte) /\ Len(d) = n
    BY <2>5, SeqDef, LenProperties
  <2>7. PICK p \in Pipes : \E m \in 0 .. PIPE_BUF - pipes[p].count :
          /\ p = fds[g_out_fd].pipe_id /\ m = Smaller(n, PIPE_BUF - pipes[p].count)
          /\ pipes'[p].count = pipes[p].count + m
          /\ \A q \in Pipes \ {p} : pipes'[q] = pipes[q]
    BY <2>3, <2>4, <2>5, <2>6, WriteStep, Parts
  <2>8. p = fds[g_out_fd].pipe_id /\ pipes[p].count \in 0 .. PIPE_BUF
    BY <2>7, Parts DEF Inv, TypeOK, PipeRec
  <2>9. pipes'[p].count = Smaller(pipes[p].count + n, PIPE_BUF)
    <3>1. PICK c : c = pipes[p].count
      OBVIOUS
    <3>2. c \in 0 .. PIPE_BUF /\ pipes'[p].count = c + Smaller(n, PIPE_BUF - c)
      BY <2>7, <2>8, <3>1
    <3>3. c + Smaller(n, PIPE_BUF - c) = Smaller(c + n, PIPE_BUF)
      BY <3>2, ShNumbers DEF Smaller
    <3> QED  BY <3>1, <3>2, <3>3
  <2>10. Inv' /\ fds' = fds
    <3>1. fds' = fds
      BY <2>4 DEF fd_write
    <3> QED  BY <2>3, <2>4, <2>5, <2>6, <3>1, InvTransfer, Parts
  <2>11. ASSUME NEW i \in 1 .. Depth, calls[i].rfd # None, fds[calls[i].rfd].pipe_id = p
         PROVE  i = k
    BY <2>3, <2>8, <2>11, OnePipe
  <2>12. ASSUME NEW i \in 1 .. Depth PROVE Moved(calls[i], n, 0)
    <3>1. CASE calls[i].rfd # None /\ fds[calls[i].rfd].pipe_id = p
      <4>1. i = k
        BY <2>11, <3>1
      <4>2. n = 0 => Smaller(pipes[p].count + n, PIPE_BUF) = pipes[p].count
        BY <2>8, ShNumbers DEF Smaller
      <4>3. Into(calls[i], n) <=> n > 0
        BY <1>3, <2>3, <4>1 DEF Into
      <4> QED  BY <1>1, <2>9, <3>1, <4>2, <4>3 DEF Moved
    <3>2. CASE calls[i].rfd # None /\ fds[calls[i].rfd].pipe_id # p
      <4>1. fds[calls[i].rfd].pipe_id \in Pipes
        BY <3>2, ReadEnd
      <4>2. pipes'[fds[calls[i].rfd].pipe_id] = pipes[fds[calls[i].rfd].pipe_id]
        BY <2>7, <3>2, <4>1
      <4>3. ~Into(calls[i], n)
        <5>1. calls[i] \in Act /\ Placed(fds, calls[i])
          BY Parts
        <5>2. calls[i].wfd # None => fds[calls[i].wfd].pipe_id = fds[calls[i].rfd].pipe_id
          BY <5>1, OwnBy DEF Placed
        <5> QED  BY <2>8, <3>2, <5>2 DEF Into
      <4> QED  BY <1>1, <4>2, <4>3 DEF Moved
    <3> QED  BY <3>1, <3>2 DEF Moved
  <2> QED  BY <2>10, <2>12
<1> QED  BY <1>2, <1>3

\* What g_in_fd reads from.
LEMMA Readable ==
  ASSUME SInv, g_in_fd # None
  PROVE  /\ g_in_fd \in FDs /\ fds[g_in_fd].type = "FD_PIPE_READ" /\ fds[g_in_fd].pipe_id \in Pipes
         /\ Available \in 0 .. PIPE_BUF
         /\ \E k \in 1 .. Depth : g_in_fd = calls[k].rfd /\ calls[k].pc = "right"
<1>1. PICK k \in 1 .. Depth : g_in_fd = InOf(calls[k])
  BY Targets
<1>2. g_in_fd = calls[k].rfd /\ calls[k].pc = "right" /\ calls[k].rfd # None
  BY <1>1 DEF InOf
<1> QED  BY <1>2, ReadEnd DEF Available

\* cat takes bytes out of the pipe of the activation whose read end g_in_fd is.
LEMMA CatReadStep ==
  ASSUME SInv, g_in_fd # None, fd_read(g_in_fd, CHUNK)
  PROVE  /\ Inv' /\ fds' = fds
         /\ \A i \in 1 .. Depth : Moved(calls[i], 0, Smaller(CHUNK, Available))
<1>1. \A a : ~Into(a, 0)
  BY DEF Into
<1>2. /\ g_in_fd \in FDs /\ Available \in 0 .. PIPE_BUF
      /\ \E k \in 1 .. Depth : g_in_fd = calls[k].rfd
  BY Readable
<1>3. PICK k \in 1 .. Depth : g_in_fd = calls[k].rfd
  BY <1>2
<1>4. PICK p \in Pipes : \E m \in 0 .. pipes[p].count :
        /\ p = fds[g_in_fd].pipe_id /\ m = Smaller(CHUNK, pipes[p].count)
        /\ pipes'[p].count = pipes[p].count - m
        /\ \A q \in Pipes \ {p} : pipes'[q] = pipes[q]
  BY <1>2, ReadStep, Parts, ShNumbers
<1>5. PICK n : n = Smaller(CHUNK, Available)
  OBVIOUS
<1>6. /\ p = fds[g_in_fd].pipe_id /\ pipes'[p].count = pipes[p].count - n
      /\ pipes[p].count = Available
  BY <1>4, <1>5 DEF Available
<1>7. Inv' /\ fds' = fds
  <2>1. fds' = fds
    BY DEF fd_read
  <2> QED  BY <1>2, <2>1, InvTransfer, Parts, ShNumbers
<1>8. ASSUME NEW i \in 1 .. Depth PROVE Moved(calls[i], 0, n)
  <2>1. CASE calls[i].rfd # None /\ fds[calls[i].rfd].pipe_id = p
    <3>1. i = k
      BY <1>3, <1>6, <2>1, OnePipe
    <3>2. n = 0 => pipes[p].count - n = pipes[p].count
      BY <1>2, <1>6
    <3>3. n \in Nat
      BY <1>2, <1>5, ShNumbers DEF Smaller
    <3>4. From(calls[i], n) <=> n > 0
      BY <1>3, <3>1 DEF From
    <3> QED  BY <1>1, <1>6, <2>1, <3>2, <3>3, <3>4 DEF Moved
  <2>2. CASE calls[i].rfd # None /\ fds[calls[i].rfd].pipe_id # p
    <3>1. fds[calls[i].rfd].pipe_id \in Pipes
      BY <2>2, ReadEnd
    <3>2. pipes'[fds[calls[i].rfd].pipe_id] = pipes[fds[calls[i].rfd].pipe_id]
      BY <1>4, <2>2, <3>1
    <3>3. ~From(calls[i], n)
      BY <1>6, <2>2 DEF From
    <3> QED  BY <1>1, <3>2, <3>3 DEF Moved
  <2> QED  BY <2>1, <2>2 DEF Moved
<1> QED  BY <1>5, <1>7, <1>8

\* The books of an activation stay right: of the one that runs when it counts
\* what it moved, and of one that waits unless it was touched.
LEMMA BalancedKept ==
  ASSUME SInv, fds' = fds, NEW n \in Nat, NEW r \in Nat, NEW i \in 1 .. Depth,
         Moved(calls[i], n, r), n = 0 \/ r = 0,
         r > 0 => g_in_fd # None /\ r <= Available,
         NEW b \in Act, SameFrame(calls[i], b),
         TalliedBelow(calls[i], b, n, r) \/ (i = Depth /\ TalliedTop(calls[i], b, n, r))
  PROVE  Balanced(fds', pipes', b)
<1>1. PICK a \in Act : a = calls[i]
  BY Parts
<1>2. Balanced(fds, pipes, a) /\ Placed(fds, a)
  BY <1>1, Parts
<1>3. SameFrame(a, b) /\ Moved(a, n, r)
  BY <1>1
<1>4. /\ a.sent \in Nat /\ a.got \in Nat /\ b.sent \in Nat /\ b.got \in Nat
      /\ a.touched \in BOOLEAN /\ b.touched \in BOOLEAN /\ PIPE_BUF \in Nat
  BY Fields, ShNumbers
<1>5. Into(a, n) => a.pc = "left" /\ a.rfd # None /\ ~From(a, r) /\ r = 0
  <2>1. a.wfd # None => HasWrite(a) /\ HasRead(a) /\ a.pc = "left"
    BY <1>2, OwnBy DEF HasWrite, HasRead
  <2> QED  BY <1>2, <2>1, OwnBy DEF Into, From
<1>6. From(a, r) => a.rfd # None /\ ~Into(a, n) /\ a.pc = "right"
  <2> SUFFICES ASSUME From(a, r) PROVE a.rfd # None /\ ~Into(a, n) /\ a.pc = "right"
    OBVIOUS
  <2>1. g_in_fd = a.rfd /\ g_in_fd # None /\ n = 0
    BY DEF From
  <2>2. PICK k \in 1 .. Depth : g_in_fd = calls[k].rfd /\ calls[k].pc = "right"
    BY <2>1, Readable
  <2>3. k = i
    BY <1>1, <2>1, <2>2, OnePipe
  <2> QED  BY <1>1, <2>1, <2>2, <2>3 DEF Into
<1>7. ASSUME a.rfd # None, ~b.touched
      PROVE  pipes'[fds[a.rfd].pipe_id].count + b.got = Smaller(b.sent, PIPE_BUF)
  <2>1. PICK c, d : c = pipes[fds[a.rfd].pipe_id].count /\ d = pipes'[fds[a.rfd].pipe_id].count
    OBVIOUS
  <2>2. c \in 0 .. PIPE_BUF
    BY <1>1, <1>7, <2>1, ReadEnd
  <2>3. d = IF Into(a, n) THEN Smaller(c + n, PIPE_BUF) ELSE IF From(a, r) THEN c - r ELSE c
    BY <1>3, <1>7, <2>1 DEF Moved
  <2>4. ~a.touched
    BY <1>1, <1>4, <1>7 DEF TalliedBelow, TalliedTop
  <2>5. c + a.got = Smaller(a.sent, PIPE_BUF)
    BY <1>2, <1>7, <2>1, <2>4 DEF Balanced
  <2>6. CASE Into(a, n)
    <3>1. b.sent = Smaller(a.sent + n, PIPE_BUF + 1) /\ b.got = a.got
      BY <1>1, <1>5, <1>7, <2>6 DEF TalliedBelow, TalliedTop
    <3>2. a.got = 0
      BY <1>2, <1>5, <2>6 DEF Balanced
    <3>3. d = Smaller(c + n, PIPE_BUF)
      BY <2>3, <2>6
    <3>4. c = Smaller(a.sent, PIPE_BUF)
      BY <2>2, <2>5, <3>2
    <3>5. Smaller(c + n, PIPE_BUF) = Smaller(Smaller(a.sent + n, PIPE_BUF + 1), PIPE_BUF)
      BY <1>4, <2>2, <3>4 DEF Smaller
    <3>6. d \in Nat
      BY <1>4, <2>2, <3>3 DEF Smaller
    <3> QED  BY <2>1, <3>1, <3>2, <3>3, <3>5, <3>6
  <2>7. CASE From(a, r)
    <3>1. b.sent = a.sent /\ b.got = a.got + r
      BY <1>1, <1>6, <1>7, <2>7 DEF TalliedBelow, TalliedTop
    <3>2. d = c - r
      BY <1>6, <2>3, <2>7
    <3>3. d + (a.got + r) = c + a.got
      BY <1>4, <2>2, <3>2
    <3> QED  BY <2>1, <2>5, <3>1, <3>3
  <2>8. CASE ~Into(a, n) /\ ~From(a, r)
    <3>1. b.sent = a.sent /\ b.got = a.got
      BY <1>1, <1>7, <2>8 DEF TalliedBelow, TalliedTop
    <3> QED  BY <2>1, <2>3, <2>5, <2>8, <3>1
  <2> QED  BY <2>6, <2>7, <2>8
<1>8. b.pc \in {"create", "pipe"} => b.sent = 0
  <2>1. b.pc = a.pc /\ (b.pc \in {"create", "pipe"} => ~Into(a, n))
    BY <1>3, <1>5 DEF SameFrame
  <2> QED  BY <1>1, <1>2, <2>1 DEF Balanced, TalliedBelow, TalliedTop
<1>9. b.pc \in {"create", "pipe", "left"} => b.got = 0
  <2>1. b.pc = a.pc /\ (b.pc \in {"create", "pipe", "left"} => ~From(a, r))
    BY <1>3, <1>6 DEF SameFrame
  <2> QED  BY <1>1, <1>2, <2>1 DEF Balanced, TalliedBelow, TalliedTop
<1> QED  BY <1>3, <1>7, <1>8, <1>9 DEF Balanced, SameFrame

\* The invariant of the shell, put together after a step.
LEMMA Together ==
  ASSUME Inv', Stacked(calls'), Owners(fds', calls', prog_fds'),
         Routed(calls', g_out_fd', g_in_fd'), g_serial_mode' = (Len(calls') = 2),
         \A i \in 1 .. Len(calls') : Placed(fds', calls'[i]) /\ Balanced(fds', pipes', calls'[i])
  PROVE  SInv'
BY DEF SInv, ShInv, Depth

\* A step of a command: descriptors and redirections stay, the bytes it moved
\* are counted, and it is not found to be waiting when it should not.
LEMMA QuietStep ==
  ASSUME SInv, Inv', fds' = fds, Stays, Depth > 0, NEW n \in Nat, NEW r \in Nat, n = 0 \/ r = 0,
         r > 0 => g_in_fd # None /\ r <= Available,
         \A i \in 1 .. Depth : Moved(calls[i], n, r),
         Follows(calls', n, r), NEW cmd, calls'[Depth].cmd = cmd,
         Depth = 2 => cmd \notin {"load", "prog"},
         cmd \in {"prog", "done"} \/ Top.cmd \notin {"prog", "done"},
         cmd = "cat" => g_in_fd # None
  PROVE  SInv'
<1>1. /\ calls' \in Seq(Act) /\ Len(calls') = Depth /\ Depth = Len(calls)
      /\ \A i \in 1 .. Depth : calls'[i] \in Act /\ SameFrame(calls[i], calls'[i])
  <2>1. calls' \in Seq(Act) /\ Len(calls') = Depth
    BY DEF Follows
  <2>2. \A i \in 1 .. Depth : calls'[i] \in Act
    BY <2>1, ElementOfSeq
  <2> QED  BY <2>1, <2>2 DEF Follows, Depth
<1>2. /\ Depth \in {1, 2} /\ g_out_fd' = g_out_fd /\ g_in_fd' = g_in_fd
      /\ g_serial_mode' = g_serial_mode /\ prog_fds' = prog_fds
  BY Parts DEF Stays
<1>3. \A i \in 1 .. Depth : /\ Placed(fds, calls'[i]) /\ Own(calls'[i]) = Own(calls[i])
                            /\ OutOf(calls'[i]) = OutOf(calls[i]) /\ InOf(calls'[i]) = InOf(calls[i])
  BY <1>1, SameFramePlaced, Parts
<1>4. Stacked(calls')
  <2>1. Stacked(calls)
    BY DEF SInv, ShInv
  <2>2. Depth = 2 => calls'[1].cmd = calls[1].cmd
    BY DEF Follows
  <2>3. calls'[1].by = calls[1].by /\ calls'[1].pc = calls[1].pc
        /\ (Depth = 2 => calls'[2].by = calls[2].by)
    BY <1>1, <1>2 DEF SameFrame
  <2>4. Depth = 2 => calls'[2].cmd = cmd
    OBVIOUS
  <2> QED  BY <1>1, <1>2, <2>1, <2>2, <2>3, <2>4 DEF Stacked
<1>5. Owners(fds', calls', prog_fds')
  <2>1. Owners(fds, calls, prog_fds)
    BY DEF SInv, ShInv
  <2> QED  BY <1>1, <1>2, <1>3, <2>1 DEF Owners
<1>6. Routed(calls', g_out_fd', g_in_fd')
  <2>1. Routed(calls, g_out_fd, g_in_fd)
    BY DEF SInv, ShInv
  <2>2. CASE Depth = 1
    <3>1. Top = calls[1] /\ 1 \in 1 .. Depth
      BY <2>2 DEF Top
    <3> QED  BY <1>1, <1>2, <1>3, <2>1, <2>2, <3>1 DEF Routed
  <2>3. CASE Depth = 2
    <3>1. 1 \in 1 .. Depth /\ 2 \in 1 .. Depth
      BY <2>3
    <3>2. calls'[2].pc = calls[2].pc /\ calls'[2].line = calls[2].line /\ calls'[2].rfd = calls[2].rfd
      BY <1>1, <3>1 DEF SameFrame
    <3> QED  BY <1>1, <1>2, <1>3, <2>1, <2>3, <3>1, <3>2 DEF Routed
  <2> QED  BY <1>2, <2>2, <2>3
<1>7. g_serial_mode' = (Len(calls') = 2)
  BY <1>1, <1>2 DEF SInv, ShInv
<1>8. ASSUME NEW i \in 1 .. Depth PROVE Balanced(fds', pipes', calls'[i])
  <2>1. TalliedBelow(calls[i], calls'[i], n, r) \/ (i = Depth /\ TalliedTop(calls[i], calls'[i], n, r))
    BY DEF Follows, Top
  <2> QED  BY <1>1, <2>1, BalancedKept
<1> QED  BY <1>1, <1>3, <1>4, <1>5, <1>6, <1>7, <1>8, Together

\* Say, Exec, Load_fails and Cat_print: a command prints.
LEMMA PrintStep ==
  ASSUME SInv, Depth > 0, Stays, NEW n \in Nat, Puts(n), NEW cmd \in Cmds,
         calls' = With(Counted(n, 0), cmd, 0),
         Depth = 2 => cmd \notin {"load", "prog"},
         cmd \in {"prog", "done"} \/ Top.cmd \notin {"prog", "done"},
         cmd = "cat" => g_in_fd # None
  PROVE  SInv'
<1>1. Inv' /\ fds' = fds /\ \A i \in 1 .. Depth : Moved(calls[i], n, 0)
  BY PutsStep
<1>2. calls \in Seq(Act) /\ Depth \in Nat
  BY Parts
<1>3. 0 \in Nat /\ 0 \in 0 .. CHUNK /\ ~(0 > 0)
  BY ShNumbers
<1>4. Follows(Counted(n, 0), n, 0)
  BY <1>2, <1>3, CountedFollows
<1>5. Follows(calls', n, 0) /\ calls'[Depth].cmd = cmd
  BY <1>2, <1>3, <1>4, WithFollows
<1> QED  BY <1>1, <1>3, <1>5, QuietStep

\* Finish, Cat, Load and Sys_exit: a command goes on without printing.
LEMMA SilentStep ==
  ASSUME SInv, Depth > 0, Stays, UNCHANGED vars, NEW cmd \in Cmds, calls' = With(calls, cmd, 0),
         Depth = 2 => cmd \notin {"load", "prog"},
         cmd \in {"prog", "done"} \/ Top.cmd \notin {"prog", "done"},
         cmd = "cat" => g_in_fd # None
  PROVE  SInv'
<1>1. Inv' /\ fds' = fds /\ pipes' = pipes
  <2>1. Inv
    BY Parts
  <2> QED  BY <2>1 DEF Inv, vars, TypeOK, TableSound, EndsSingle, PipesOwned,
                       FatDescriptorsOwned, RingsSound, Ends
<1>2. calls \in Seq(Act) /\ Depth \in Nat
  BY Parts
<1>3. 0 \in Nat /\ 0 \in 0 .. CHUNK /\ ~(0 > 0)
  BY ShNumbers
<1>4. \A i \in 1 .. Depth : Moved(calls[i], 0, 0)
  BY <1>1, <1>3 DEF Moved, Into, From
<1>5. Follows(calls', 0, 0) /\ calls'[Depth].cmd = cmd
  BY <1>2, <1>3, CallsFollow, WithFollows
<1> QED  BY <1>1, <1>3, <1>4, <1>5, QuietStep

\* On the serial line nothing is executed, and a cat has something to read.
LEMMA Running2 ==
  ASSUME SInv, Depth > 0
  PROVE  /\ Depth = 2 => Top.cmd \notin {"load", "prog"} /\ g_serial_mode
         /\ Top.cmd = "cat" => g_in_fd # None
         /\ Top.buf \in 0 .. CHUNK
<1>1. Stacked(calls) /\ Routed(calls, g_out_fd, g_in_fd) /\ g_serial_mode = (Depth = 2)
  BY DEF SInv, ShInv
<1>2. Depth = 2 => Top.cmd \notin {"load", "prog"}
  BY <1>1 DEF Stacked, Top, Depth
<1>3. Top.cmd = "cat" => g_in_fd # None
  BY <1>1 DEF Routed, Top, Depth
<1>4. Top.buf \in 0 .. CHUNK
  BY Parts, Fields
<1> QED  BY <1>1, <1>2, <1>3, <1>4

\* The steps of commands and of the dispatcher.
LEMMA CommandStep ==
  ASSUME SInv,
         \/ \E n \in 1 .. MaxSize : Say(n) \/ Exec(n) \/ Load_fails(n)
         \/ Finish \/ Cat \/ Cat_print \/ Load \/ Sys_exit
  PROVE  SInv'
<1>1. {"print", "load", "done", "cat", "prog"} \subseteq Cmds
  BY DEF Cmds
<1>2. ASSUME NEW n \in 1 .. MaxSize, Say(n) PROVE SInv'
  <2>1. /\ Depth > 0 /\ Top.cmd \in {"todo", "print"} /\ Puts(n) /\ Stays
        /\ calls' = With(Counted(n, 0), "print", 0)
    BY <1>2 DEF Say, In
  <2>2. n \in Nat
    BY ShNumbers
  <2> QED  BY <1>1, <2>1, <2>2, PrintStep
<1>3. ASSUME NEW n \in 1 .. MaxSize, Exec(n) PROVE SInv'
  <2>1. /\ Depth > 0 /\ Top.cmd = "todo" /\ Puts(n) /\ Stays /\ ~g_serial_mode
        /\ calls' = With(Counted(n, 0), "load", 0)
    BY <1>3 DEF Exec, In
  <2>2. n \in Nat /\ Depth # 2
    BY <2>1, ShNumbers, Running2
  <2> QED  BY <1>1, <2>1, <2>2, PrintStep
<1>4. ASSUME NEW n \in 1 .. MaxSize, Load_fails(n) PROVE SInv'
  <2>1. Depth > 0 /\ Puts(n) /\ Stays /\ calls' = With(Counted(n, 0), "done", 0)
    BY <1>4 DEF Load_fails, In
  <2>2. n \in Nat
    BY ShNumbers
  <2> QED  BY <1>1, <2>1, <2>2, PrintStep
<1>5. CASE Cat_print
  <2>1. /\ Depth > 0 /\ Top.cmd = "cat" /\ Puts(Top.buf + 1) /\ Stays
        /\ calls' = With(Counted(Top.buf + 1, 0), "cat", 0)
    BY <1>5 DEF Cat_print, In
  <2>2. PICK n : n = Top.buf + 1
    OBVIOUS
  <2>3. n \in Nat /\ g_in_fd # None
    BY <2>1, <2>2, ShNumbers, Running2
  <2> QED  BY <1>1, <2>1, <2>2, <2>3, PrintStep
<1>6. CASE Finish
  <2>1. Depth > 0 /\ UNCHANGED vars /\ Stays /\ calls' = With(calls, "done", 0)
    BY <1>6 DEF Finish, In
  <2> QED  BY <1>1, <2>1, SilentStep
<1>7. CASE Cat
  <2>1. /\ Depth > 0 /\ Top.cmd = "todo" /\ UNCHANGED vars /\ Stays
        /\ g_in_fd # None /\ calls' = With(calls, "cat", 0)
    BY <1>7 DEF Cat, In
  <2> QED  BY <1>1, <2>1, SilentStep
<1>8. CASE Load
  <2>1. Depth > 0 /\ Top.cmd = "load" /\ UNCHANGED vars /\ Stays /\ calls' = With(calls, "prog", 0)
    BY <1>8 DEF Load, In
  <2>2. Depth # 2
    BY <2>1, Running2
  <2> QED  BY <1>1, <2>1, <2>2, SilentStep
<1>9. CASE Sys_exit
  <2>1. Depth > 0 /\ UNCHANGED vars /\ Stays /\ calls' = With(calls, "done", 0)
    BY <1>9 DEF Sys_exit, AfterExit, In
  <2> QED  BY <1>1, <2>1, SilentStep
<1> QED  BY <1>2, <1>3, <1>4, <1>5, <1>6, <1>7, <1>8, <1>9

\* cat reads, or finds its input at an end.
LEMMA CatRead ==
  ASSUME SInv, Cat_read
  PROVE  SInv'
<1>1. PICK n : n = Smaller(CHUNK, Available)
  OBVIOUS
<1>2. Depth > 0 /\ Top.cmd = "cat" /\ Stays
  BY DEF Cat_read, In
<1>3. g_in_fd # None /\ Available \in 0 .. PIPE_BUF /\ n \in 0 .. CHUNK /\ n <= Available
  <2>1. g_in_fd # None
    BY <1>2, Running2
  <2>2. Available \in 0 .. PIPE_BUF
    BY <2>1, Readable
  <2> QED  BY <1>1, <2>1, <2>2, ShNumbers DEF Smaller
<1>4. \/ UNCHANGED vars /\ calls' = With(calls, "done", 0)
      \/ n > 0 /\ fd_read(g_in_fd, CHUNK) /\ calls' = With(Counted(0, n), "cat", n)
  BY <1>1, <1>3 DEF Cat_read, CatEnds
<1>5. CASE UNCHANGED vars /\ calls' = With(calls, "done", 0)
  <2>1. "done" \in Cmds
    BY DEF Cmds
  <2> QED  BY <1>2, <1>5, <2>1, SilentStep
<1>6. CASE n > 0 /\ fd_read(g_in_fd, CHUNK) /\ calls' = With(Counted(0, n), "cat", n)
  <2>1. Inv' /\ fds' = fds /\ \A i \in 1 .. Depth : Moved(calls[i], 0, n)
    BY <1>1, <1>3, <1>6, CatReadStep
  <2>2. calls \in Seq(Act) /\ Depth \in Nat /\ 0 \in Nat /\ n \in Nat /\ "cat" \in Cmds
    BY <1>3, Parts DEF Cmds
  <2>3. Follows(Counted(0, n), 0, n)
    BY <1>2, <2>2, CountedFollows
  <2>4. Follows(calls', 0, n) /\ calls'[Depth].cmd = "cat"
    BY <1>2, <1>3, <1>6, <2>2, <2>3, WithFollows
  <2> QED  BY <1>2, <1>3, <2>1, <2>2, <2>4, QuietStep
<1> QED  BY <1>4, <1>5, <1>6

-----------------------------------------------------------------------------
\* An activation that begins has nothing open.
LEMMA NewCall ==
  ASSUME NEW by \in {"keyboard", "serial"}, NEW line \in Lines, NEW a, a = Call(by, line)
  PROVE  /\ a \in Act /\ a.by = by /\ a.cmd = "todo" /\ a.pc \in {"create", "pipe", "left"}
         /\ a.pc = "left" => a.line = "plain"
         /\ Own(a) = {} /\ OutOf(a) = None /\ InOf(a) = None
         /\ \A t : Placed(t, a)
         /\ \A t, ps : Balanced(t, ps, a)
<1>1. PICK pc : pc = CASE line = "plain" -> "left" [] line = "pipe" -> "pipe" [] OTHER -> "create"
  OBVIOUS
<1>2. /\ line = "plain" => pc = "left"
      /\ line = "pipe" => pc = "pipe"
      /\ line \in {"redirect", "both"} => pc = "create"
      /\ line \in {"plain", "pipe", "redirect", "both"}
  BY <1>1 DEF Lines
<1>3. a = [by |-> by, line |-> line, pc |-> pc, cmd |-> "todo", file |-> None, rfd |-> None,
           wfd |-> None, buf |-> 0, sent |-> 0, got |-> 0, touched |-> FALSE]
  BY <1>1 DEF Call
<1>4. 0 \in 0 .. CHUNK /\ 0 \in 0 .. PIPE_BUF + 1 /\ 0 \in Nat /\ pc \in Pcs /\ "todo" \in Cmds
  BY <1>2, ShNumbers DEF Pcs, Cmds
<1>5. a \in Act
  BY <1>3, <1>4 DEF Act
<1>6. /\ a.by = by /\ a.line = line /\ a.pc = pc /\ a.cmd = "todo" /\ a.file = None /\ a.rfd = None
      /\ a.wfd = None /\ a.sent = 0 /\ a.got = 0
  BY <1>3
<1>7. Own(a) = {} /\ OutOf(a) = None /\ InOf(a) = None
  BY <1>2, <1>6 DEF Own, OutOf, InOf
<1>8. ~HasFile(a) /\ ~HasRead(a) /\ ~HasWrite(a)
  BY <1>2, <1>6 DEF HasFile, HasRead, HasWrite
<1>9. \A t : Placed(t, a)
  BY <1>2, <1>6, <1>8 DEF Placed
<1>10. \A t, ps : Balanced(t, ps, a)
  BY <1>6 DEF Balanced
<1> QED  BY <1>2, <1>5, <1>6, <1>7, <1>9, <1>10

\* A line begins: what is open and where output goes stays as it was.
LEMMA LineStep ==
  ASSUME SInv, NEW line \in Lines, Keyboard_line(line) \/ Serial_line(line)
  PROVE  SInv'
<1>1. UNCHANGED vars /\ UNCHANGED <<g_out_fd, g_in_fd, prog_fds>>
  BY DEF Keyboard_line, Serial_line, Stays
<1>2. Inv' /\ fds' = fds /\ pipes' = pipes
  <2>1. Inv
    BY Parts
  <2> QED  BY <1>1, <2>1 DEF Inv, vars, TypeOK, TableSound, EndsSingle, PipesOwned,
                             FatDescriptorsOwned, RingsSound, Ends
<1>3. PICK by \in {"keyboard", "serial"} :
        /\ calls' = Append(calls, Call(by, line))
        /\ \/ Depth = 0 /\ by = "keyboard" /\ g_serial_mode' = g_serial_mode
           \/ /\ Depth = 1 /\ by = "serial" /\ g_serial_mode' = TRUE
              /\ calls[1].pc \in {"left", "right"} /\ calls[1].cmd = "prog"
  <2>1. CASE Keyboard_line(line)
    <3>1. calls = <<>> /\ calls' = <<Call("keyboard", line)>> /\ g_serial_mode' = g_serial_mode
      BY <2>1 DEF Keyboard_line, Stays
    <3>2. Append(<<>>, Call("keyboard", line)) = <<Call("keyboard", line)>> /\ Depth = 0
      BY <3>1 DEF Depth
    <3> QED  BY <3>1, <3>2
  <2>2. CASE Serial_line(line)
    BY <2>2 DEF Serial_line, In, Top
  <2> QED  BY <2>1, <2>2
<1>4. PICK a : a = Call(by, line)
  OBVIOUS
<1>5. /\ a \in Act /\ a.by = by /\ a.cmd = "todo" /\ a.pc \in {"create", "pipe", "left"}
      /\ a.pc = "left" => a.line = "plain"
      /\ Own(a) = {} /\ OutOf(a) = None /\ InOf(a) = None
      /\ Placed(fds', a) /\ Balanced(fds', pipes', a)
  BY <1>4, NewCall
<1>6. /\ calls' \in Seq(Act) /\ Len(calls') = Depth + 1 /\ calls'[Depth + 1] = a
      /\ \A i \in 1 .. Depth : calls'[i] = calls[i]
  BY <1>3, <1>4, <1>5, Push, Parts DEF Depth
<1>7. \A i \in 1 .. Len(calls') : i = Depth + 1 \/ i \in 1 .. Depth
  BY <1>3, <1>6
<1>8. Stacked(calls')
  <2>1. Stacked(calls)
    BY DEF SInv, ShInv
  <2> QED  BY <1>3, <1>5, <1>6, <2>1 DEF Stacked, Depth
<1>9. Owners(fds', calls', prog_fds')
  <2>1. Owners(fds, calls, prog_fds) /\ prog_fds' = prog_fds
    BY <1>1 DEF SInv, ShInv
  <2>2. \A i \in 1 .. Len(calls') : Own(calls'[i]) = IF i \in 1 .. Depth THEN Own(calls[i]) ELSE {}
    BY <1>3, <1>5, <1>6, <1>7
  <2>3. 1 .. Depth \subseteq 1 .. Len(calls') /\ Depth = Len(calls)
    BY <1>3, <1>6 DEF Depth
  <2> QED  BY <1>2, <2>1, <2>2, <2>3 DEF Owners
<1>10. Routed(calls', g_out_fd', g_in_fd')
  <2>1. Routed(calls, g_out_fd, g_in_fd) /\ g_out_fd' = g_out_fd /\ g_in_fd' = g_in_fd
    BY <1>1 DEF SInv, ShInv
  <2>2. CASE Depth = 0
    BY <1>5, <1>6, <2>1, <2>2 DEF Routed, Depth
  <2>3. CASE Depth = 1
    <3>1. calls'[1] = calls[1] /\ calls'[2] = a /\ Len(calls') = 2 /\ Len(calls) = 1
      BY <1>6, <2>3 DEF Depth
    <3> QED  BY <1>5, <2>1, <2>3, <3>1 DEF Routed
  <2> QED  BY <1>3, <2>2, <2>3
<1>11. g_serial_mode' = (Len(calls') = 2)
  <2>1. g_serial_mode = (Depth = 2)
    BY DEF SInv, ShInv
  <2>2. CASE Depth = 0
    <3>1. ~(Depth = 2) /\ ~(Len(calls') = 2)
      BY <1>6, <2>2
    <3>2. g_serial_mode' = g_serial_mode
      BY <1>3, <2>2
    <3> QED  BY <2>1, <3>1, <3>2, Zenon
  <2>3. CASE Depth = 1
    <3>1. Len(calls') = 2
      BY <1>6, <2>3
    <3>2. g_serial_mode' = TRUE
      BY <1>3, <2>3
    <3> QED  BY <3>1, <3>2, Zenon
  <2> QED  BY <1>3, <2>2, <2>3
<1>12. \A i \in 1 .. Len(calls') : Placed(fds', calls'[i]) /\ Balanced(fds', pipes', calls'[i])
  BY <1>2, <1>5, <1>6, <1>7, Parts
<1> QED  BY <1>2, <1>8, <1>9, <1>10, <1>11, <1>12, Together

-----------------------------------------------------------------------------
\* A step of run_pipeline itself: X is what the activation that runs has open
\* after it, its new descriptors were free, and those it gave up are closed.
LEMMA TopStep ==
  ASSUME SInv, Depth > 0, Inv', prog_fds' = prog_fds,
         calls' \in Seq(Act), Len(calls') \in {Depth - 1, Depth},
         \A i \in 1 .. Depth : i # Depth =>
           /\ SameFrame(calls[i], calls'[i]) /\ calls'[i].cmd = calls[i].cmd
           /\ Balanced(fds', pipes', calls'[i]),
         NEW X, X = IF Len(calls') = Depth THEN Own(calls'[Depth]) ELSE {},
         \A f \in X : f \in Own(Top) \/ (f \in Slots /\ ~fds[f].used),
         \A f \in Slots : /\ f \in X => fds'[f].used
                          /\ f \in Own(Top) /\ f \notin X => ~fds'[f].used
                          /\ f \notin X /\ f \notin Own(Top) => fds'[f] = fds[f],
         Len(calls') = Depth => /\ calls'[Depth].by = Top.by
                                /\ Depth = 2 => calls'[Depth].cmd \notin {"load", "prog"}
                                /\ Placed(fds', calls'[Depth])
                                /\ Balanced(fds', pipes', calls'[Depth]),
         Routed(calls', g_out_fd', g_in_fd'), g_serial_mode' = (Len(calls') = 2)
  PROVE  SInv'
<1>1. Depth \in {1, 2} /\ Depth = Len(calls) /\ Depth \in 1 .. Depth /\ Top = calls[Depth]
  BY Parts DEF Depth, Top
<1>2. \A i \in 1 .. Len(calls') : i \in 1 .. Depth /\ (i = Depth => Len(calls') = Depth)
  BY <1>1
<1>3. \A i \in 1 .. Depth : i # Depth => i \in 1 .. Len(calls')
  BY <1>1
<1>4. \A i \in 1 .. Depth : i # Depth => Own(calls'[i]) = Own(calls[i])
  BY SameFramePlaced
<1>5. Owners(fds, calls, prog_fds)
  BY DEF SInv, ShInv
<1>6. \A i \in 1 .. Depth : Own(calls[i]) \subseteq Slots
  BY OwnBy, Parts
<1>7. \A i \in 1 .. Depth : \A f \in Own(calls[i]) : fds[f].used
  BY <1>1, <1>5, <1>6 DEF Owners
<1>8. \A i \in 1 .. Depth : i # Depth => X \cap Own(calls[i]) = {}
  BY <1>1, <1>7, Parts
<1>9. X \cap prog_fds = {} /\ prog_fds \subseteq Slots
  BY <1>1, <1>5 DEF Owners
<1>10. \A i \in 1 .. Len(calls') : Own(calls'[i]) = IF i = Depth THEN X ELSE Own(calls[i])
  BY <1>2, <1>4
<1>11. \A i \in 1 .. Depth : i # Depth =>
         Own(calls[i]) \cap prog_fds = {} /\ Own(calls[i]) \cap Own(Top) = {}
  BY <1>1, Parts
<1>12. Owners(fds', calls', prog_fds')
  <2>1. \A i \in 1 .. Len(calls') : Own(calls'[i]) \cap prog_fds = {}
    BY <1>2, <1>9, <1>10, <1>11
  <2>2. ASSUME NEW i \in 1 .. Len(calls'), NEW j \in 1 .. Len(calls'), i # j
        PROVE  Own(calls'[i]) \cap Own(calls'[j]) = {}
    <3>1. i \in 1 .. Depth /\ j \in 1 .. Depth
      BY <1>2
    <3>2. CASE i = Depth
      BY <1>8, <1>10, <2>2, <3>1, <3>2
    <3>3. CASE j = Depth
      BY <1>8, <1>10, <2>2, <3>1, <3>3
    <3>4. CASE i # Depth /\ j # Depth
      BY <1>10, <2>2, <3>1, <3>4, Parts
    <3> QED  BY <3>2, <3>3, <3>4
  <2>3. ASSUME NEW f \in Slots
        PROVE  fds'[f].used <=> f \in prog_fds \/ \E i \in 1 .. Len(calls') : f \in Own(calls'[i])
    <3>1. fds[f].used <=> f \in prog_fds \/ \E i \in 1 .. Depth : f \in Own(calls[i])
      BY <1>1, <1>5 DEF Owners
    <3>2. CASE f \in X
      <4>1. Len(calls') = Depth
        BY <3>2
      <4>2. Depth \in 1 .. Len(calls') /\ f \in Own(calls'[Depth])
        BY <1>1, <1>10, <3>2, <4>1
      <4> QED  BY <3>2, <4>2
    <3>3. CASE f \notin X /\ f \in Own(Top)
      <4>1. f \notin prog_fds
        BY <1>1, <3>3, Parts
      <4>2. \A i \in 1 .. Len(calls') : f \notin Own(calls'[i])
        BY <1>2, <1>10, <1>11, <3>3
      <4> QED  BY <3>3, <4>1, <4>2
    <3>4. CASE f \notin X /\ f \notin Own(Top)
      <4>1. (\E i \in 1 .. Len(calls') : f \in Own(calls'[i])) <=> \E i \in 1 .. Depth : f \in Own(calls[i])
        BY <1>1, <1>2, <1>3, <1>10, <3>4
      <4>2. fds'[f] = fds[f]
        BY <3>4
      <4> QED  BY <3>1, <4>1, <4>2
    <3> QED  BY <3>2, <3>3, <3>4
  <2> QED  BY <1>9, <2>1, <2>2, <2>3 DEF Owners
<1>13. Stacked(calls')
  <2>1. Stacked(calls)
    BY DEF SInv, ShInv
  <2>2. CASE Depth = 1
    <3>1. Len(calls') \in {0, 1} /\ Top = calls[1]
      BY <1>1, <2>2
    <3> QED  BY <1>1, <2>1, <2>2, <3>1 DEF Stacked
  <2>3. CASE Depth = 2
    <3>1. Len(calls') \in {1, 2} /\ Top = calls[2] /\ 1 \in 1 .. Depth
      BY <1>1, <2>3
    <3>2. calls'[1].by = calls[1].by /\ calls'[1].pc = calls[1].pc /\ calls'[1].cmd = calls[1].cmd
      BY <2>3, <3>1 DEF SameFrame
    <3> QED  BY <1>1, <2>1, <2>3, <3>1, <3>2 DEF Stacked
  <2> QED  BY <1>1, <2>2, <2>3
<1>14. ASSUME NEW i \in 1 .. Len(calls')
       PROVE  Placed(fds', calls'[i]) /\ Balanced(fds', pipes', calls'[i])
  <2>1. i \in 1 .. Depth /\ calls'[i] \in Act
    BY <1>2, ElementOfSeq
  <2>2. CASE i = Depth
    BY <1>2, <2>2
  <2>3. CASE i # Depth
    <3>1. Placed(fds, calls[i]) /\ SameFrame(calls[i], calls'[i])
      BY <2>1, <2>3, Parts
    <3>2. Placed(fds, calls'[i])
      BY <3>1, SameFramePlaced
    <3>3. \A f \in Own(calls'[i]) : fds'[f] = fds[f]
      BY <1>4, <1>6, <1>8, <1>11, <2>1, <2>3
    <3> QED  BY <2>1, <2>3, <3>2, <3>3, PlacedStays
  <2> QED  BY <2>2, <2>3
<1> QED  BY <1>12, <1>13, <1>14, Together

\* run_pipeline returns: its descriptors are closed, and its redirections reset
\* or those of the line below.
LEMMA PopStep ==
  ASSUME SInv, Depth > 0, Inv', prog_fds' = prog_fds, NEW cs, NEW n, Follows(cs, n, 0), Return(cs),
         \A i \in 1 .. Depth : i # Depth => /\ cs[i].cmd = calls[i].cmd
                                            /\ Balanced(fds', pipes', cs[i]),
         \A f \in Slots : /\ f \in Own(Top) => ~fds'[f].used
                          /\ f \notin Own(Top) => fds'[f] = fds[f],
         Depth = 1 => g_out_fd' = None /\ g_in_fd' = None,
         Depth = 2 => g_out_fd' \in {OutOf(calls[1]), None} /\ g_in_fd' \in {InOf(calls[1]), None}
  PROVE  SInv'
<1>1. Depth \in {1, 2} /\ cs \in Seq(Act) /\ Len(cs) = Depth
  BY Parts DEF Follows
<1>2. calls' = SubSeq(cs, 1, Depth - 1) /\ g_serial_mode' = FALSE
  BY DEF Return
<1>3. /\ calls' \in Seq(Act) /\ Len(calls') = Depth - 1
      /\ \A i \in 1 .. Depth - 1 : calls'[i] = cs[i]
  BY <1>1, <1>2, DropLast
<1>4. \A i \in 1 .. Depth : i # Depth => i \in 1 .. Depth - 1
  BY <1>1
<1>5. \A i \in 1 .. Depth : i # Depth =>
        /\ SameFrame(calls[i], calls'[i]) /\ calls'[i].cmd = calls[i].cmd
        /\ Balanced(fds', pipes', calls'[i])
  BY <1>3, <1>4 DEF Follows
<1>6. g_serial_mode' = (Len(calls') = 2)
  <2>1. ~(Len(calls') = 2)
    BY <1>1, <1>3
  <2> QED  BY <1>2, <2>1, Zenon
<1>7. Len(calls') # Depth /\ Len(calls') \in {Depth - 1, Depth}
  BY <1>1, <1>3
<1>8. Routed(calls', g_out_fd', g_in_fd')
  <2>1. CASE Depth = 1
    BY <1>3, <2>1 DEF Routed
  <2>2. CASE Depth = 2
    <3>1. Len(calls') = 1 /\ 1 \in 1 .. Depth /\ 1 # Depth
      BY <1>3, <2>2
    <3>2. OutOf(calls'[1]) = OutOf(calls[1]) /\ InOf(calls'[1]) = InOf(calls[1])
      BY <1>5, <3>1, SameFramePlaced
    <3>3. calls'[1].cmd = "prog"
      <4>1. calls[1].cmd = "prog"
        BY <2>2 DEF SInv, ShInv, Stacked, Depth
      <4> QED  BY <1>5, <3>1, <4>1
    <3> QED  BY <2>2, <3>1, <3>2, <3>3 DEF Routed
  <2> QED  BY <1>1, <2>1, <2>2
<1>9. PICK X : X = {} /\ X = IF Len(calls') = Depth THEN Own(calls'[Depth]) ELSE {}
  BY <1>7
<1>10. /\ \A f \in X : f \in Own(Top) \/ (f \in Slots /\ ~fds[f].used)
       /\ \A f \in Slots : /\ f \in X => fds'[f].used
                           /\ f \in Own(Top) /\ f \notin X => ~fds'[f].used
                           /\ f \notin X /\ f \notin Own(Top) => fds'[f] = fds[f]
  BY <1>9
<1> QED  BY <1>3, <1>5, <1>6, <1>7, <1>8, <1>9, <1>10, TopStep

\* Where output and input go when the activation that runs has not redirected
\* them.
LEMMA NotRedirected ==
  ASSUME SInv, Depth > 0, Top.pc \notin {"left", "right"} \/ Top.line = "plain"
  PROVE  /\ OutOf(Top) = None /\ InOf(Top) = None
         /\ Depth = 1 => g_out_fd = None /\ g_in_fd = None
         /\ Depth = 2 => g_out_fd \in {OutOf(calls[1]), None} /\ g_in_fd \in {InOf(calls[1]), None}
<1>1. Top \in Act /\ Placed(fds, Top) /\ Depth \in {1, 2} /\ Top = calls[Depth]
  BY Parts DEF Top
<1>2. Top.pc # "right" /\ OutOf(Top) = None /\ InOf(Top) = None
  <2>1. Top.line = "plain" => Top.pc # "right" /\ Top.wfd = None
    BY <1>1 DEF Placed, HasWrite
  <2> QED  BY <2>1 DEF OutOf, InOf
<1>3. Routed(calls, g_out_fd, g_in_fd) /\ Depth = Len(calls)
  BY DEF SInv, ShInv, Depth
<1> QED  BY <1>1, <1>2, <1>3 DEF Routed

\* run_pipeline prints an error and returns: it has nothing open.
LEMMA FailStep ==
  ASSUME SInv, Depth > 0, NEW n \in Nat, Puts(n), Return(Counted(n, 0)),
         UNCHANGED <<g_out_fd, g_in_fd, prog_fds>>,
         At("create") \/ (At("pipe") /\ Top.line # "both")
  PROVE  SInv'
<1>1. Inv' /\ fds' = fds /\ \A i \in 1 .. Depth : Moved(calls[i], n, 0)
  BY PutsStep
<1>2. Top \in Act /\ Placed(fds, Top) /\ Depth \in 1 .. Depth /\ calls \in Seq(Act)
  BY Parts DEF Top
<1>3. Own(Top) = {} /\ Top.pc \notin {"left", "right"}
  <2>1. Top.pc \in {"create", "pipe"}
    BY DEF At
  <2>2. ~HasFile(Top) /\ ~HasRead(Top) /\ ~HasWrite(Top)
    BY <1>2, <2>1 DEF Placed, HasFile, HasRead, HasWrite, At
  <2> QED  BY <1>2, <2>1, <2>2 DEF Placed, Own
<1>4. /\ Depth = 1 => g_out_fd' = None /\ g_in_fd' = None
      /\ Depth = 2 => g_out_fd' \in {OutOf(calls[1]), None} /\ g_in_fd' \in {InOf(calls[1]), None}
  BY <1>3, NotRedirected
<1>5. PICK cs : cs = Counted(n, 0)
  OBVIOUS
<1>6. 0 \in Nat /\ ~(0 > 0)
  OBVIOUS
<1>7. Follows(cs, n, 0) /\ \A i \in 1 .. Depth : cs[i].cmd = calls[i].cmd
  BY <1>2, <1>5, <1>6, CountedFollows
<1>8. \A i \in 1 .. Depth : cs[i] \in Act
  BY <1>7, ElementOfSeq DEF Follows
<1>9. ASSUME NEW i \in 1 .. Depth, i # Depth PROVE Balanced(fds', pipes', cs[i])
  <2>1. SameFrame(calls[i], cs[i]) /\ TalliedBelow(calls[i], cs[i], n, 0)
    BY <1>7, <1>9 DEF Follows
  <2> QED  BY <1>1, <1>6, <1>8, <2>1, BalancedKept
<1>10. \A f \in Slots : /\ f \in Own(Top) => ~fds'[f].used
                        /\ f \notin Own(Top) => fds'[f] = fds[f]
  BY <1>1, <1>3
<1>11. Return(cs) /\ prog_fds' = prog_fds
  BY <1>5
<1> QED  BY <1>1, <1>4, <1>7, <1>9, <1>10, <1>11, PopStep

\* fd_pipe failed on a line that has its file: the file is closed next.
LEMMA NoPipeStep ==
  ASSUME SInv, At("pipe"), Top.line = "both", NEW n \in Nat, Puts(n),
         calls' = [Counted(n, 0) EXCEPT ![Depth].pc = "fclose"],
         UNCHANGED <<g_out_fd, g_in_fd, g_serial_mode, prog_fds>>
  PROVE  SInv'
<1>1. Inv' /\ fds' = fds /\ \A i \in 1 .. Depth : Moved(calls[i], n, 0)
  BY PutsStep
<1>2. Depth > 0 /\ Top.pc = "pipe"
  BY DEF At
<1>3. /\ Top \in Act /\ Placed(fds, Top) /\ Depth \in 1 .. Depth /\ calls \in Seq(Act)
      /\ Depth \in {1, 2} /\ Top = calls[Depth]
  BY <1>2, Parts DEF Top
<1>4. PICK cs : cs = Counted(n, 0)
  OBVIOUS
<1>5. 0 \in Nat /\ ~(0 > 0)
  OBVIOUS
<1>6. Follows(cs, n, 0) /\ \A i \in 1 .. Depth : cs[i].cmd = calls[i].cmd
  BY <1>2, <1>3, <1>4, <1>5, CountedFollows
<1>7. /\ cs \in Seq(Act) /\ Len(cs) = Depth /\ cs \in [1 .. Depth -> Act]
      /\ \A i \in 1 .. Depth : cs[i] \in Act /\ SameFrame(calls[i], cs[i])
  BY <1>6, ElementOfSeq, LenProperties DEF Follows
<1>8. PICK a \in Act : a = cs[Depth]
  BY <1>3, <1>7
<1>9. PICK b : b = [a EXCEPT !.pc = "fclose"]
  OBVIOUS
<1>10. /\ b \in Act /\ b.by = Top.by /\ b.line = "both" /\ b.pc = "fclose" /\ b.cmd = Top.cmd
       /\ b.file = Top.file /\ b.rfd = Top.rfd /\ b.wfd = Top.wfd
  <2>1. /\ b \in Act /\ b.by = a.by /\ b.line = a.line /\ b.pc = "fclose" /\ b.cmd = a.cmd
        /\ b.file = a.file /\ b.rfd = a.rfd /\ b.wfd = a.wfd
    BY <1>9 DEF Act, Pcs
  <2>2. SameFrame(Top, a) /\ a.cmd = Top.cmd
    BY <1>3, <1>6, <1>7, <1>8
  <2> QED  BY <2>1, <2>2 DEF SameFrame
<1>11. calls' = [cs EXCEPT ![Depth] = b]
  BY <1>3, <1>4, <1>7, <1>8, <1>9
<1>12. /\ calls' \in Seq(Act) /\ Len(calls') = Depth /\ calls'[Depth] = b
       /\ \A i \in 1 .. Depth : i # Depth => calls'[i] = cs[i]
  <2>1. calls' = [cs EXCEPT ![Len(cs)] = b] /\ Len(cs) > 0
    BY <1>2, <1>7, <1>11
  <2>2. /\ calls' \in Seq(Act) /\ Len(calls') = Len(cs) /\ calls'[Len(cs)] = b
        /\ \A i \in 1 .. Len(cs) : i # Len(cs) => calls'[i] = cs[i]
    BY <1>7, <1>10, <2>1, SetLast
  <2> QED  BY <1>7, <2>2
<1>13. ASSUME NEW i \in 1 .. Depth, i # Depth
       PROVE  /\ SameFrame(calls[i], calls'[i]) /\ calls'[i].cmd = calls[i].cmd
              /\ Balanced(fds', pipes', calls'[i])
  <2>1. SameFrame(calls[i], cs[i]) /\ TalliedBelow(calls[i], cs[i], n, 0) /\ cs[i].cmd = calls[i].cmd
    BY <1>6, <1>13 DEF Follows
  <2>2. Balanced(fds', pipes', cs[i])
    BY <1>1, <1>5, <1>7, <2>1, BalancedKept
  <2> QED  BY <1>12, <1>13, <2>1, <2>2
<1>14. Top.rfd = None /\ Top.wfd = None /\ HasFile(Top)
  BY <1>2, <1>3 DEF Placed, HasFile, HasRead, HasWrite
<1>15. Own(b) = Own(Top)
  BY <1>10 DEF Own
<1>16. Placed(fds, b)
  <2>1. HasFile(b) /\ ~HasRead(b) /\ ~HasWrite(b)
    BY <1>10 DEF HasFile, HasRead, HasWrite
  <2> QED  BY <1>3, <1>10, <1>14, <2>1 DEF Placed
<1>17. Balanced(fds', pipes', b)
  BY <1>10, <1>14 DEF Balanced
<1>18. OutOf(b) = None /\ InOf(b) = None
  BY <1>10 DEF OutOf, InOf
<1>19. Routed(calls', g_out_fd', g_in_fd')
  <2>1. /\ Depth = 1 => g_out_fd = None /\ g_in_fd = None
        /\ Depth = 2 => g_out_fd \in {OutOf(calls[1]), None} /\ g_in_fd \in {InOf(calls[1]), None}
        /\ Top.cmd = "cat" => g_in_fd # None
    BY <1>2, NotRedirected, Running2
  <2>2. Depth = 2 => OutOf(calls'[1]) = OutOf(calls[1]) /\ InOf(calls'[1]) = InOf(calls[1])
    BY <1>13, SameFramePlaced
  <2>3. CASE Depth = 1
    <3>1. Len(calls') = 1 /\ calls'[1] = b
      BY <1>12, <2>3
    <3> QED  BY <1>10, <1>18, <2>1, <2>3, <3>1 DEF Routed
  <2>4. CASE Depth = 2
    <3>1. Len(calls') = 2 /\ calls'[2] = b
      BY <1>12, <2>4
    <3>2. g_out_fd' \in {OutOf(calls'[1]), None} /\ g_in_fd' \in {InOf(calls'[1]), None}
      BY <2>1, <2>2, <2>4
    <3>3. calls'[2].cmd = "cat" => g_in_fd' # None
      BY <1>10, <2>1, <3>1
    <3>4. calls'[2].pc = "fclose"
      BY <1>10, <3>1
    <3> HIDE DEF OutOf, InOf
    <3> QED  BY <3>1, <3>2, <3>3, <3>4 DEF Routed
  <2> QED  BY <1>3, <2>3, <2>4
<1>20. g_serial_mode' = (Len(calls') = 2)
  BY <1>12 DEF SInv, ShInv
<1>21. Depth = 2 => b.cmd \notin {"load", "prog"}
  BY <1>2, <1>10, Running2
<1>22. PICK X : X = Own(Top) /\ X = IF Len(calls') = Depth THEN Own(calls'[Depth]) ELSE {}
  BY <1>12, <1>15
<1>23. \A f \in Slots : /\ f \in X => fds'[f].used
                        /\ f \in Own(Top) /\ f \notin X => ~fds'[f].used
                        /\ f \notin X /\ f \notin Own(Top) => fds'[f] = fds[f]
  <2>1. \A f \in Slots : f \in Own(Top) => fds[f].used
    BY <1>3 DEF SInv, ShInv, Owners, Depth
  <2> QED  BY <1>1, <1>22, <2>1
<1> QED  BY <1>1, <1>2, <1>3, <1>10, <1>12, <1>13, <1>16, <1>17, <1>19, <1>20, <1>21, <1>22, <1>23,
            TopStep

-----------------------------------------------------------------------------
\* fd_close of a slot: the bytes of all pipes stay.
LEMMA CloseStep ==
  ASSUME SInv, NEW x \in Slots, fd_close(x)
  PROVE  /\ Inv' /\ ~fds'[x].used
         /\ \A f \in FDs : f # x => fds'[f] = fds[f]
         /\ \A p \in Pipes : pipes'[p].count = pipes[p].count
<1>1. x \in FDs /\ Inv
  BY ShNumbers, Parts
<1>2. Inv'
  BY <1>1, InvClose
<1>3. ~fds'[x].used /\ \A f \in FDs : f # x => fds'[f] = fds[f]
  BY <1>1 DEF fd_close, NoDesc, Inv, TypeOK
<1>4. CASE Close_file(x) \/ Close_stream(x)
  BY <1>2, <1>3, <1>4 DEF Close_file, Close_stream
<1>5. CASE Close_write_end(x) \/ Close_read_end(x)
  <2>1. PICK p : p = fds[x].pipe_id
    OBVIOUS
  <2>2. /\ \A q \in Pipes \ {p} : pipes'[q] = pipes[q]
        /\ pipes'[p].count = pipes[p].count
    BY <1>1, <1>5, <2>1, CloseEnd
  <2> QED  BY <1>2, <1>3, <2>2
<1> QED  BY <1>4, <1>5 DEF fd_close

\* fd_open and fd_create take a free slot and leave the rest alone.
LEMMA FileStep ==
  ASSUME SInv, NEW fat \in FAT_FDS, NEW x \in FDs, File(fat, x)
  PROVE  /\ Inv' /\ x \in Slots /\ ~fds[x].used
         /\ fds'[x].used /\ fds'[x].type = "FD_FILE"
         /\ \A f \in FDs : f # x => fds'[f] = fds[f]
         /\ pipes' = pipes
<1>1. alloc_fd(x) /\ fd_open(fat) /\ Inv
  BY Parts DEF File
<1>2. Inv' /\ pipes' = pipes
  BY <1>1, InvOpen DEF fd_open
<1>3. x \in Slots /\ FreeFd(x) /\ ~fds[x].used
  BY <1>1 DEF alloc_fd, FreeFd, Slots
<1>4. PICK i \in FDs : alloc_fd(i) /\ fds' = [fds EXCEPT ![i] = Desc("FD_FILE", fat, None)]
  BY <1>1, <1>3 DEF fd_open
<1>5. FreeFd(i) /\ i <= x /\ x <= i
  BY <1>1, <1>3, <1>4 DEF alloc_fd
<1>6. i = x
  BY <1>3, <1>5 DEF FreeFd, Slots
<1>7. /\ fds'[x] = Desc("FD_FILE", fat, None)
      /\ \A f \in FDs : f # x => fds'[f] = fds[f]
  BY <1>1, <1>4, <1>6 DEF Inv, TypeOK
<1> QED  BY <1>2, <1>3, <1>7 DEF Desc

\* fd_pipe takes two free slots and a pipe that nobody has, and empties it.
LEMMA PipeMade ==
  ASSUME SInv, NEW p \in Pipes, NEW rfd \in FDs, NEW wfd \in FDs, fd_pipe(p, rfd, wfd)
  PROVE  /\ Inv' /\ rfd \in Slots /\ wfd \in Slots /\ rfd # wfd /\ ~fds[rfd].used /\ ~fds[wfd].used
         /\ fds'[rfd].used /\ fds'[rfd].type = "FD_PIPE_READ" /\ fds'[rfd].pipe_id = p
         /\ fds'[wfd].used /\ fds'[wfd].type = "FD_PIPE_WRITE" /\ fds'[wfd].pipe_id = p
         /\ \A f \in FDs : f # rfd /\ f # wfd => fds'[f] = fds[f]
         /\ pipes'[p].count = 0 /\ ~pipes[p].used
         /\ \A q \in Pipes : q # p => pipes'[q] = pipes[q]
<1>1. Inv /\ Inv'
  BY Parts, InvPipe
<1>2. /\ rfd \in Slots /\ wfd \in Slots /\ rfd # wfd /\ ~fds[rfd].used /\ ~fds[wfd].used
      /\ ~pipes[p].used
  BY DEF fd_pipe, alloc_fd, alloc_pipe, FreeFd, Slots
<1>3. /\ fds'[rfd] = Desc("FD_PIPE_READ", None, p) /\ fds'[wfd] = Desc("FD_PIPE_WRITE", None, p)
      /\ \A f \in FDs : f # rfd /\ f # wfd => fds'[f] = fds[f]
  BY <1>1, <1>2 DEF fd_pipe, Inv, TypeOK
<1>4. pipes'[p] = Fresh(pipes[p]) /\ \A q \in Pipes : q # p => pipes'[q] = pipes[q]
  BY <1>1 DEF fd_pipe, Inv, TypeOK
<1>5. Fresh(pipes[p]).count = 0
  <2>1. pipes[p] \in PipeRec
    BY <1>1 DEF Inv, TypeOK
  <2> QED  BY <2>1 DEF Fresh, PipeRec
<1> QED  BY <1>1, <1>2, <1>3, <1>4, <1>5 DEF Desc

\* The books of an activation whose pipe is not concerned.
LEMMA BalancedElse ==
  ASSUME SInv, NEW i \in 1 .. Depth,
         calls[i].rfd # None => fds'[calls[i].rfd] = fds[calls[i].rfd],
         \A p \in Pipes : pipes[p].used => pipes'[p].count = pipes[p].count
  PROVE  Balanced(fds', pipes', calls[i])
<1>1. Balanced(fds, pipes, calls[i])
  BY Parts
<1>2. calls[i].rfd # None =>
        pipes'[fds[calls[i].rfd].pipe_id].count = pipes[fds[calls[i].rfd].pipe_id].count
  BY ReadEnd
<1> QED  BY <1>1, <1>2 DEF Balanced

\* System calls of a program: progs' are its descriptors after one.
LEMMA ProgStep ==
  ASSUME SInv, Inv', UNCHANGED <<calls, g_out_fd, g_in_fd, g_serial_mode>>,
         prog_fds' \subseteq Slots,
         \A f \in prog_fds' : f \in prog_fds \/ ~fds[f].used,
         \A f \in Slots : /\ f \in prog_fds' => fds'[f].used
                          /\ f \in prog_fds /\ f \notin prog_fds' => ~fds'[f].used
                          /\ f \notin prog_fds /\ f \notin prog_fds' => fds'[f] = fds[f],
         \A p \in Pipes : pipes[p].used => pipes'[p].count = pipes[p].count
  PROVE  SInv'
<1>1. calls' = calls /\ Depth = Len(calls)
  BY DEF Depth
<1>2. Owners(fds, calls, prog_fds)
  BY DEF SInv, ShInv
<1>3. \A i \in 1 .. Depth : \A f \in Own(calls[i]) :
        f \in Slots /\ f \notin prog_fds /\ f \notin prog_fds' /\ fds'[f] = fds[f]
  <2>1. \A i \in 1 .. Depth : Own(calls[i]) \subseteq Slots
    BY OwnBy, Parts
  <2>2. \A i \in 1 .. Depth : \A f \in Own(calls[i]) : fds[f].used /\ f \notin prog_fds
    BY <1>1, <1>2, <2>1 DEF Owners
  <2> QED  BY <2>1, <2>2
<1>4. Owners(fds', calls', prog_fds')
  BY <1>1, <1>2, <1>3 DEF Owners
<1>5. \A i \in 1 .. Depth : Placed(fds', calls[i])
  BY <1>3, PlacedStays, Parts
<1>6. ASSUME NEW i \in 1 .. Depth PROVE Balanced(fds', pipes', calls[i])
  <2>1. calls[i].rfd # None => fds'[calls[i].rfd] = fds[calls[i].rfd]
    BY <1>3, ReadEnd
  <2> QED  BY <2>1, BalancedElse
<1>7. Stacked(calls') /\ Routed(calls', g_out_fd', g_in_fd') /\ g_serial_mode' = (Len(calls') = 2)
  BY <1>1 DEF SInv, ShInv
<1> QED  BY <1>1, <1>4, <1>5, <1>6, <1>7, Together

\* Programs open and close only descriptors of their own.
LEMMA ProgramStep ==
  ASSUME SInv, Sys_open \/ Sys_pipe \/ \E x \in prog_fds : Sys_close(x)
  PROVE  SInv'
<1>1. Owners(fds, calls, prog_fds) /\ prog_fds \subseteq Slots /\ Slots \subseteq FDs
  BY Parts, ShNumbers DEF SInv, ShInv
<1>2. \A f \in prog_fds : fds[f].used
  BY <1>1 DEF Owners
<1>3. UNCHANGED <<calls, g_out_fd, g_in_fd, g_serial_mode>>
  BY DEF Sys_open, Sys_pipe, Sys_close
<1>4. CASE Sys_open
  <2>1. PICK fat \in FAT_FDS, x \in FDs : File(fat, x) /\ prog_fds' = prog_fds \cup {x}
    BY <1>4 DEF Sys_open
  <2>2. /\ Inv' /\ x \in Slots /\ ~fds[x].used /\ fds'[x].used
        /\ \A f \in FDs : f # x => fds'[f] = fds[f]
        /\ pipes' = pipes
    BY <2>1, FileStep
  <2>3. /\ prog_fds' \subseteq Slots
        /\ \A f \in prog_fds' : f \in prog_fds \/ ~fds[f].used
        /\ \A f \in Slots : /\ f \in prog_fds' => fds'[f].used
                            /\ f \in prog_fds /\ f \notin prog_fds' => ~fds'[f].used
                            /\ f \notin prog_fds /\ f \notin prog_fds' => fds'[f] = fds[f]
    BY <1>1, <1>2, <2>1, <2>2
  <2> QED  BY <1>3, <2>2, <2>3, ProgStep
<1>5. CASE Sys_pipe
  <2>1. PICK p \in Pipes, rfd \in FDs, wfd \in FDs :
          fd_pipe(p, rfd, wfd) /\ prog_fds' = prog_fds \cup {rfd, wfd}
    BY <1>5 DEF Sys_pipe
  <2>2. /\ Inv' /\ rfd \in Slots /\ wfd \in Slots /\ ~fds[rfd].used /\ ~fds[wfd].used
        /\ fds'[rfd].used /\ fds'[wfd].used
        /\ \A f \in FDs : f # rfd /\ f # wfd => fds'[f] = fds[f]
        /\ ~pipes[p].used /\ \A q \in Pipes : q # p => pipes'[q] = pipes[q]
    BY <2>1, PipeMade
  <2>3. /\ prog_fds' \subseteq Slots
        /\ \A f \in prog_fds' : f \in prog_fds \/ ~fds[f].used
        /\ \A f \in Slots : /\ f \in prog_fds' => fds'[f].used
                            /\ f \in prog_fds /\ f \notin prog_fds' => ~fds'[f].used
                            /\ f \notin prog_fds /\ f \notin prog_fds' => fds'[f] = fds[f]
    BY <1>1, <1>2, <2>1, <2>2
  <2>4. \A q \in Pipes : pipes[q].used => pipes'[q].count = pipes[q].count
    BY <2>2
  <2> QED  BY <1>3, <2>2, <2>3, <2>4, ProgStep
<1>6. ASSUME NEW x \in prog_fds, Sys_close(x) PROVE SInv'
  <2>1. fd_close(x) /\ prog_fds' = prog_fds \ {x} /\ x \in Slots
    BY <1>1, <1>6 DEF Sys_close
  <2>2. /\ Inv' /\ ~fds'[x].used
        /\ \A f \in FDs : f # x => fds'[f] = fds[f]
        /\ \A p \in Pipes : pipes'[p].count = pipes[p].count
    BY <2>1, CloseStep
  <2>3. /\ prog_fds' \subseteq Slots
        /\ \A f \in prog_fds' : f \in prog_fds \/ ~fds[f].used
        /\ \A f \in Slots : /\ f \in prog_fds' => fds'[f].used
                            /\ f \in prog_fds /\ f \notin prog_fds' => ~fds'[f].used
                            /\ f \notin prog_fds /\ f \notin prog_fds' => fds'[f] = fds[f]
    BY <1>1, <1>2, <2>1, <2>2
  <2> QED  BY <1>3, <2>2, <2>3, ProgStep
<1> QED  BY <1>4, <1>5, <1>6

-----------------------------------------------------------------------------
\* An activation that waits keeps its books while the one that runs opens and
\* closes descriptors of its own.
LEMMA WaitingBalanced ==
  ASSUME SInv, Depth > 0, NEW X,
         \A f \in X : f \in Own(Top) \/ ~fds[f].used,
         \A f \in Slots : f \notin X /\ f \notin Own(Top) => fds'[f] = fds[f],
         \A p \in Pipes : pipes[p].used => pipes'[p].count = pipes[p].count
  PROVE  \A i \in 1 .. Depth : i # Depth => Balanced(fds', pipes', calls[i])
<1> SUFFICES ASSUME NEW i \in 1 .. Depth, i # Depth PROVE Balanced(fds', pipes', calls[i])
  OBVIOUS
<1>1. Depth \in 1 .. Depth /\ Top = calls[Depth]
  BY Parts DEF Top
<1>2. \A f \in Own(calls[i]) : f \in Slots /\ fds[f].used /\ f \notin Own(Top)
  <2>1. Own(calls[i]) \subseteq Slots /\ Own(calls[i]) \cap Own(Top) = {}
    BY <1>1, OwnBy, Parts
  <2>2. \A f \in Own(calls[i]) : fds[f].used
    BY <2>1 DEF SInv, ShInv, Owners, Depth
  <2> QED  BY <2>1, <2>2
<1>3. calls[i].rfd # None => fds'[calls[i].rfd] = fds[calls[i].rfd]
  BY <1>2, ReadEnd
<1> QED  BY <1>3, BalancedElse

\* A step of run_pipeline that replaces the activation a by b and goes on.
LEMMA SetStep ==
  ASSUME SInv, Depth > 0, Inv', prog_fds' = prog_fds, g_serial_mode' = g_serial_mode,
         NEW b \in Act, SetTop(b), b.by = Top.by, Depth = 2 => b.cmd \notin {"load", "prog"},
         \A f \in Own(b) : f \in Own(Top) \/ (f \in Slots /\ ~fds[f].used),
         \A f \in Slots : /\ f \in Own(b) => fds'[f].used
                          /\ f \in Own(Top) /\ f \notin Own(b) => ~fds'[f].used
                          /\ f \notin Own(b) /\ f \notin Own(Top) => fds'[f] = fds[f],
         \A p \in Pipes : pipes[p].used => pipes'[p].count = pipes[p].count,
         Placed(fds', b), Balanced(fds', pipes', b),
         b.cmd = "cat" => g_in_fd' # None,
         Depth = 1 => g_out_fd' = OutOf(b) /\ g_in_fd' = InOf(b),
         Depth = 2 => /\ IF b.pc \in {"left", "right"} /\ b.line # "plain"
                         THEN g_out_fd' = OutOf(b) ELSE g_out_fd' \in {OutOf(calls[1]), None}
                      /\ IF b.pc = "right" THEN g_in_fd' = b.rfd
                                           ELSE g_in_fd' \in {InOf(calls[1]), None}
  PROVE  SInv'
<1>1. /\ Depth \in {1, 2} /\ Depth = Len(calls) /\ Depth \in 1 .. Depth /\ calls \in Seq(Act)
      /\ \A i \in 1 .. Depth : calls[i] \in Act
  BY Parts DEF Depth
<1>2. /\ calls' \in Seq(Act) /\ Len(calls') = Depth /\ calls'[Depth] = b
      /\ \A i \in 1 .. Depth : i # Depth => calls'[i] = calls[i]
  <2>1. calls' = [calls EXCEPT ![Len(calls)] = b] /\ Len(calls) > 0
    BY <1>1 DEF SetTop
  <2>2. /\ calls' \in Seq(Act) /\ Len(calls') = Len(calls) /\ calls'[Len(calls)] = b
        /\ \A i \in 1 .. Len(calls) : i # Len(calls) => calls'[i] = calls[i]
    BY <1>1, <2>1, SetLast
  <2> QED  BY <1>1, <2>2
<1>3. \A i \in 1 .. Depth : i # Depth =>
        /\ SameFrame(calls[i], calls'[i]) /\ calls'[i].cmd = calls[i].cmd
        /\ Balanced(fds', pipes', calls'[i])
  <2>1. \A i \in 1 .. Depth : i # Depth => Balanced(fds', pipes', calls[i])
    BY WaitingBalanced
  <2> QED  BY <1>2, <2>1 DEF SameFrame
<1>4. PICK X : X = Own(b) /\ X = IF Len(calls') = Depth THEN Own(calls'[Depth]) ELSE {}
  BY <1>2
<1>5. Routed(calls', g_out_fd', g_in_fd')
  <2>1. CASE Depth = 1
    <3>1. Len(calls') = 1 /\ calls'[1] = b
      BY <1>2, <2>1
    <3>2. g_out_fd' = OutOf(calls'[1]) /\ g_in_fd' = InOf(calls'[1])
          /\ (calls'[1].cmd = "cat" => g_in_fd' # None)
      BY <2>1, <3>1
    <3> QED  BY <3>1, <3>2 DEF Routed
  <2>2. CASE Depth = 2
    <3>1. Len(calls') = 2 /\ calls'[2] = b /\ calls'[1] = calls[1]
      BY <1>2, <2>2
    <3>2. /\ IF calls'[2].pc \in {"left", "right"} /\ calls'[2].line # "plain"
             THEN g_out_fd' = OutOf(calls'[2]) ELSE g_out_fd' \in {OutOf(calls'[1]), None}
          /\ IF calls'[2].pc = "right" THEN g_in_fd' = calls'[2].rfd
                                       ELSE g_in_fd' \in {InOf(calls'[1]), None}
          /\ calls'[2].cmd = "cat" => g_in_fd' # None
      BY <2>2, <3>1
    <3> QED  BY <3>1, <3>2 DEF Routed
  <2> QED  BY <1>1, <2>1, <2>2
<1>6. g_serial_mode' = (Len(calls') = 2)
  BY <1>2 DEF SInv, ShInv
<1>7. Len(calls') \in {Depth - 1, Depth}
  BY <1>2
<1> QED  BY <1>2, <1>3, <1>4, <1>5, <1>6, <1>7, TopStep

\* What the activation that runs has open.
LEMMA TopOwns ==
  ASSUME SInv, Depth > 0
  PROVE  /\ Top \in Act /\ Placed(fds, Top) /\ Balanced(fds, pipes, Top)
         /\ Depth \in {1, 2} /\ Depth \in 1 .. Depth /\ Top = calls[Depth]
         /\ Own(Top) \subseteq Slots /\ \A f \in Own(Top) : fds[f].used
<1>1. /\ Top \in Act /\ Placed(fds, Top) /\ Balanced(fds, pipes, Top)
      /\ Depth \in {1, 2} /\ Depth \in 1 .. Depth /\ Top = calls[Depth]
  BY Parts DEF Top
<1>2. Own(Top) \subseteq Slots
  BY <1>1, OwnBy
<1>3. \A f \in Own(Top) : fds[f].used
  BY <1>1, <1>2 DEF SInv, ShInv, Owners, Depth
<1> QED  BY <1>1, <1>2, <1>3

\* The file is created: the line goes on to its pipe or its command.
LEMMA CreateStep ==
  ASSUME SInv, Create
  PROVE  SInv'
<1>1. Depth > 0 /\ Top.pc = "create" /\ g_in_fd' = g_in_fd
      /\ g_serial_mode' = g_serial_mode /\ prog_fds' = prog_fds
  BY DEF Create, At
<1>2. PICK fat \in FAT_FDS, x \in FDs :
        /\ File(fat, x)
        /\ IF Top.line = "redirect"
           THEN SetTop([Top EXCEPT !.file = x, !.pc = "left"]) /\ g_out_fd' = x
           ELSE SetTop([Top EXCEPT !.file = x, !.pc = "pipe"]) /\ g_out_fd' = g_out_fd
  BY DEF Create
<1>3. /\ Inv' /\ x \in Slots /\ ~fds[x].used /\ fds'[x].used /\ fds'[x].type = "FD_FILE"
      /\ \A f \in FDs : f # x => fds'[f] = fds[f]
      /\ pipes' = pipes
  BY <1>2, FileStep
<1>4. Top \in Act /\ Placed(fds, Top) /\ Balanced(fds, pipes, Top) /\ Depth \in {1, 2}
  BY <1>1, TopOwns
<1>5. /\ Top.line \in {"redirect", "both"} /\ Top.file = None /\ Top.rfd = None /\ Top.wfd = None
      /\ Top.sent = 0 /\ Top.got = 0
  BY <1>1, <1>4 DEF Placed, Balanced, HasFile, HasRead, HasWrite
<1>6. PICK pc \in Pcs : pc = IF Top.line = "redirect" THEN "left" ELSE "pipe"
  BY DEF Pcs
<1>7. PICK b : b = [Top EXCEPT !.file = x, !.pc = pc]
  OBVIOUS
<1>8. SetTop(b) /\ g_out_fd' = IF Top.line = "redirect" THEN x ELSE g_out_fd
  BY <1>2, <1>6, <1>7
<1>9. /\ b \in Act /\ b.by = Top.by /\ b.line = Top.line /\ b.pc = pc /\ b.cmd = Top.cmd
      /\ b.file = x /\ b.rfd = None /\ b.wfd = None /\ b.sent = 0 /\ b.got = 0
  <2>1. /\ b \in Act /\ b.by = Top.by /\ b.line = Top.line /\ b.pc = pc /\ b.cmd = Top.cmd
        /\ b.file = x /\ b.rfd = Top.rfd /\ b.wfd = Top.wfd /\ b.sent = Top.sent /\ b.got = Top.got
    BY <1>4, <1>7 DEF Act
  <2> QED  BY <1>5, <2>1
<1>10. x # None /\ Slots \subseteq FDs
  BY ShNumbers
<1>11. Own(b) = {x} /\ Own(Top) = {}
  BY <1>5, <1>9, <1>10 DEF Own
<1>12. OutOf(b) = (IF Top.line = "redirect" THEN x ELSE None) /\ InOf(b) = None
  BY <1>5, <1>6, <1>9 DEF OutOf, InOf
<1>13. Placed(fds', b)
  <2>1. HasFile(b) /\ ~HasRead(b) /\ ~HasWrite(b)
    BY <1>5, <1>6, <1>9 DEF HasFile, HasRead, HasWrite
  <2> QED  BY <1>3, <1>5, <1>6, <1>9, <2>1 DEF Placed
<1>14. Balanced(fds', pipes', b)
  BY <1>9 DEF Balanced
<1>15. /\ Depth = 1 => g_out_fd = None /\ g_in_fd = None
       /\ Depth = 2 => g_out_fd \in {OutOf(calls[1]), None} /\ g_in_fd \in {InOf(calls[1]), None}
  BY <1>1, NotRedirected
<1>16. (Depth = 2 => b.cmd \notin {"load", "prog"}) /\ (b.cmd = "cat" => g_in_fd' # None)
  BY <1>1, <1>9, Running2
<1>17. /\ Depth = 1 => g_out_fd' = OutOf(b) /\ g_in_fd' = InOf(b)
       /\ Depth = 2 => /\ IF b.pc \in {"left", "right"} /\ b.line # "plain"
                          THEN g_out_fd' = OutOf(b) ELSE g_out_fd' \in {OutOf(calls[1]), None}
                       /\ IF b.pc = "right" THEN g_in_fd' = b.rfd
                                            ELSE g_in_fd' \in {InOf(calls[1]), None}
  <2>1. g_out_fd' = (IF Top.line = "redirect" THEN x ELSE g_out_fd) /\ g_in_fd' = g_in_fd
    BY <1>1, <1>8
  <2>2. b.pc # "right" /\ (b.pc = "left" <=> Top.line = "redirect") /\ b.line # "plain"
    BY <1>5, <1>6, <1>9
  <2> QED  BY <1>12, <1>15, <2>1, <2>2
<1>18. /\ \A f \in Own(b) : f \in Own(Top) \/ (f \in Slots /\ ~fds[f].used)
       /\ \A f \in Slots : /\ f \in Own(b) => fds'[f].used
                           /\ f \in Own(Top) /\ f \notin Own(b) => ~fds'[f].used
                           /\ f \notin Own(b) /\ f \notin Own(Top) => fds'[f] = fds[f]
  BY <1>3, <1>10, <1>11
<1> QED  BY <1>1, <1>3, <1>8, <1>9, <1>13, <1>14, <1>16, <1>17, <1>18, SetStep

\* The pipe is made: it is empty, and the left side writes into it.
LEMMA MakePipeStep ==
  ASSUME SInv, Pipe
  PROVE  SInv'
<1>1. Depth > 0 /\ Top.pc = "pipe" /\ g_in_fd' = g_in_fd
      /\ g_serial_mode' = g_serial_mode /\ prog_fds' = prog_fds
  BY DEF Pipe, At
<1>2. PICK p \in Pipes, rfd \in FDs, wfd \in FDs :
        /\ fd_pipe(p, rfd, wfd) /\ g_out_fd' = wfd
        /\ SetTop([Top EXCEPT !.rfd = rfd, !.wfd = wfd, !.pc = "left"])
  BY DEF Pipe
<1>3. /\ Inv' /\ rfd \in Slots /\ wfd \in Slots /\ rfd # wfd /\ ~fds[rfd].used /\ ~fds[wfd].used
      /\ fds'[rfd].used /\ fds'[rfd].type = "FD_PIPE_READ" /\ fds'[rfd].pipe_id = p
      /\ fds'[wfd].used /\ fds'[wfd].type = "FD_PIPE_WRITE" /\ fds'[wfd].pipe_id = p
      /\ \A f \in FDs : f # rfd /\ f # wfd => fds'[f] = fds[f]
      /\ pipes'[p].count = 0 /\ ~pipes[p].used
      /\ \A q \in Pipes : q # p => pipes'[q] = pipes[q]
  BY <1>2, PipeMade
<1>4. /\ Top \in Act /\ Placed(fds, Top) /\ Balanced(fds, pipes, Top) /\ Depth \in {1, 2}
      /\ Own(Top) \subseteq Slots /\ \A f \in Own(Top) : fds[f].used
  BY <1>1, TopOwns
<1>5. /\ Top.line \in {"pipe", "both"} /\ Top.rfd = None /\ Top.wfd = None
      /\ Top.sent = 0 /\ Top.got = 0
  BY <1>1, <1>4 DEF Placed, Balanced, HasRead, HasWrite
<1>6. PICK b : b = [Top EXCEPT !.rfd = rfd, !.wfd = wfd, !.pc = "left"]
  OBVIOUS
<1>7. SetTop(b)
  BY <1>2, <1>6
<1>8. /\ b \in Act /\ b.by = Top.by /\ b.line = Top.line /\ b.pc = "left" /\ b.cmd = Top.cmd
      /\ b.file = Top.file /\ b.rfd = rfd /\ b.wfd = wfd /\ b.sent = 0 /\ b.got = 0
  <2>1. /\ b \in Act /\ b.by = Top.by /\ b.line = Top.line /\ b.pc = "left" /\ b.cmd = Top.cmd
        /\ b.file = Top.file /\ b.rfd = rfd /\ b.wfd = wfd /\ b.sent = Top.sent /\ b.got = Top.got
    BY <1>4, <1>6 DEF Act, Pcs
  <2> QED  BY <1>5, <2>1
<1>9. rfd # None /\ wfd # None /\ Slots \subseteq FDs
  BY ShNumbers
<1>10. Own(b) = Own(Top) \cup {rfd, wfd}
  BY <1>5, <1>8, <1>9 DEF Own
<1>11. OutOf(b) = wfd /\ InOf(b) = None
  BY <1>5, <1>8 DEF OutOf, InOf
<1>12. \A f \in Own(Top) : f # rfd /\ f # wfd /\ fds'[f] = fds[f]
  BY <1>3, <1>4, <1>9
<1>13. Placed(fds', b)
  <2>1. HasRead(b) /\ HasWrite(b) /\ (HasFile(b) <=> HasFile(Top))
    BY <1>1, <1>5, <1>8 DEF HasFile, HasRead, HasWrite
  <2>2. Placed(fds', Top)
    BY <1>4, <1>12, PlacedStays
  <2> QED  BY <1>3, <1>8, <2>1, <2>2 DEF Placed
<1>14. Balanced(fds', pipes', b)
  <2>1. 0 + 0 = Smaller(0, PIPE_BUF)
    BY ShNumbers DEF Smaller
  <2> QED  BY <1>3, <1>8, <2>1 DEF Balanced
<1>15. /\ Depth = 1 => g_out_fd = None /\ g_in_fd = None
       /\ Depth = 2 => g_out_fd \in {OutOf(calls[1]), None} /\ g_in_fd \in {InOf(calls[1]), None}
  BY <1>1, NotRedirected
<1>16. (Depth = 2 => b.cmd \notin {"load", "prog"}) /\ (b.cmd = "cat" => g_in_fd' # None)
  BY <1>1, <1>8, Running2
<1>17. /\ Depth = 1 => g_out_fd' = OutOf(b) /\ g_in_fd' = InOf(b)
       /\ Depth = 2 => /\ IF b.pc \in {"left", "right"} /\ b.line # "plain"
                          THEN g_out_fd' = OutOf(b) ELSE g_out_fd' \in {OutOf(calls[1]), None}
                       /\ IF b.pc = "right" THEN g_in_fd' = b.rfd
                                            ELSE g_in_fd' \in {InOf(calls[1]), None}
  BY <1>1, <1>2, <1>5, <1>8, <1>11, <1>15
<1>18. /\ \A f \in Own(b) : f \in Own(Top) \/ (f \in Slots /\ ~fds[f].used)
       /\ \A f \in Slots : /\ f \in Own(b) => fds'[f].used
                           /\ f \in Own(Top) /\ f \notin Own(b) => ~fds'[f].used
                           /\ f \notin Own(b) /\ f \notin Own(Top) => fds'[f] = fds[f]
  BY <1>3, <1>4, <1>9, <1>10, <1>12
<1>19. \A q \in Pipes : pipes[q].used => pipes'[q].count = pipes[q].count
  BY <1>3
<1> QED  BY <1>1, <1>3, <1>7, <1>8, <1>13, <1>14, <1>16, <1>17, <1>18, <1>19, SetStep

\* run_pipeline closes the last descriptor it has open and returns.
LEMMA CloseReturn ==
  ASSUME SInv, Depth > 0, NEW x, Own(Top) = {x}, fd_close(x), Return(calls), prog_fds' = prog_fds,
         Depth = 1 => g_out_fd' = None /\ g_in_fd' = None,
         Depth = 2 => g_out_fd' \in {OutOf(calls[1]), None} /\ g_in_fd' \in {InOf(calls[1]), None}
  PROVE  SInv'
<1>1. x \in Slots /\ Slots \subseteq FDs /\ calls \in Seq(Act)
  BY TopOwns, Parts, ShNumbers
<1>2. /\ Inv' /\ ~fds'[x].used
      /\ \A f \in FDs : f # x => fds'[f] = fds[f]
      /\ \A p \in Pipes : pipes'[p].count = pipes[p].count
  BY <1>1, CloseStep
<1>3. Follows(calls, 0, 0)
  BY <1>1, CallsFollow
<1>4. \A f \in Slots : /\ f \in Own(Top) => ~fds'[f].used
                       /\ f \notin Own(Top) => fds'[f] = fds[f]
  BY <1>1, <1>2
<1>5. \A i \in 1 .. Depth : i # Depth => Balanced(fds', pipes', calls[i])
  <2>1. PICK X : X = {}
    OBVIOUS
  <2> QED  BY <1>2, <1>4, <2>1, WaitingBalanced
<1> QED  BY <1>2, <1>3, <1>4, <1>5, PopStep

\* The left side ends.
LEMMA LeftStep ==
  ASSUME SInv, Left_ends
  PROVE  SInv'
<1>1. Depth > 0 /\ Top.pc = "left" /\ prog_fds' = prog_fds
  BY DEF Left_ends, At, In
<1>2. /\ Top \in Act /\ Placed(fds, Top) /\ Balanced(fds, pipes, Top) /\ Depth \in {1, 2}
      /\ Own(Top) \subseteq Slots /\ \A f \in Own(Top) : fds[f].used
  BY <1>1, TopOwns
<1>3. None \notin Slots /\ Slots \subseteq FDs
  BY ShNumbers
<1>4. Routed(calls, g_out_fd, g_in_fd) /\ Depth = Len(calls) /\ Top = calls[Depth]
  BY DEF SInv, ShInv, Depth, Top
<1>5. /\ Depth = 1 => g_in_fd = None
      /\ Depth = 2 => g_in_fd \in {InOf(calls[1]), None}
  <2>1. InOf(Top) = None
    BY <1>1 DEF InOf
  <2> QED  BY <1>1, <1>4, <2>1 DEF Routed
<1>6. CASE Top.line = "plain" /\ Return(calls) /\ UNCHANGED <<vars, g_out_fd, g_in_fd>>
  <2>1. Own(Top) = {}
    BY <1>1, <1>2, <1>6 DEF Placed, Own, HasFile, HasRead, HasWrite
  <2>2. Inv' /\ fds' = fds /\ pipes' = pipes
    <3>1. Inv
      BY Parts
    <3> QED  BY <1>6, <3>1 DEF Inv, vars, TypeOK, TableSound, EndsSingle, PipesOwned,
                               FatDescriptorsOwned, RingsSound, Ends
  <2>3. Follows(calls, 0, 0)
    BY <1>1, CallsFollow, Parts
  <2>4. \A i \in 1 .. Depth : i # Depth => Balanced(fds', pipes', calls[i])
    BY <2>2, Parts
  <2>5. \A f \in Slots : /\ f \in Own(Top) => ~fds'[f].used
                         /\ f \notin Own(Top) => fds'[f] = fds[f]
    BY <2>1, <2>2
  <2>6. /\ Depth = 1 => g_out_fd' = None /\ g_in_fd' = None
        /\ Depth = 2 => g_out_fd' \in {OutOf(calls[1]), None} /\ g_in_fd' \in {InOf(calls[1]), None}
    BY <1>1, <1>6, NotRedirected
  <2>7. Return(calls)
    BY <1>6
  <2> QED  BY <1>1, <2>2, <2>3, <2>4, <2>5, <2>6, <2>7, PopStep
<1>7. CASE /\ Top.line = "redirect" /\ fd_close(Top.file) /\ g_out_fd' = None
           /\ Return(calls) /\ g_in_fd' = g_in_fd
  <2>1. Own(Top) = {Top.file}
    BY <1>1, <1>2, <1>3, <1>7 DEF Placed, Own, HasFile, HasRead, HasWrite
  <2> QED  BY <1>1, <1>5, <1>7, <2>1, CloseReturn
<1>8. CASE /\ Top.line \in {"pipe", "both"} /\ fd_close(Top.wfd)
           /\ g_out_fd' = LeftOut(Top) /\ g_in_fd' = Top.rfd
           /\ SetTop([Top EXCEPT !.wfd = None, !.pc = "right", !.cmd = "todo"])
           /\ g_serial_mode' = g_serial_mode
  <2>1. HasRead(Top) /\ HasWrite(Top) /\ (HasFile(Top) <=> Top.line = "both")
    BY <1>1, <1>8 DEF HasFile, HasRead, HasWrite
  <2>2. /\ Top.rfd \in Slots /\ Top.wfd \in Slots /\ Top.wfd # Top.rfd /\ Top.wfd # Top.file
        /\ fds[Top.rfd].type = "FD_PIPE_READ"
        /\ Top.line = "both" => Top.file \in Slots /\ fds[Top.file].type = "FD_FILE"
        /\ Top.line = "pipe" => Top.file = None
    BY <1>2, <1>3, <1>8, <2>1 DEF Placed
  <2>3. PICK x : x = Top.wfd
    OBVIOUS
  <2>4. /\ Inv' /\ ~fds'[x].used
        /\ \A f \in FDs : f # x => fds'[f] = fds[f]
        /\ \A p \in Pipes : pipes'[p].count = pipes[p].count
    BY <1>8, <2>2, <2>3, CloseStep
  <2>5. PICK b : b = [Top EXCEPT !.wfd = None, !.pc = "right", !.cmd = "todo"]
    OBVIOUS
  <2>6. /\ b \in Act /\ b.by = Top.by /\ b.line = Top.line /\ b.pc = "right" /\ b.cmd = "todo"
        /\ b.file = Top.file /\ b.rfd = Top.rfd /\ b.wfd = None
        /\ b.sent = Top.sent /\ b.got = Top.got /\ b.touched = Top.touched
    BY <1>2, <2>5 DEF Act, Pcs, Cmds
  <2>7. Own(b) = Own(Top) \ {x} /\ x \in Own(Top)
    BY <1>3, <2>2, <2>3, <2>6 DEF Own
  <2>8. Placed(fds', b)
    <3>1. HasRead(b) /\ ~HasWrite(b) /\ (HasFile(b) <=> Top.line = "both")
      BY <1>8, <2>6 DEF HasFile, HasRead, HasWrite
    <3>2. fds'[Top.rfd] = fds[Top.rfd] /\ (Top.line = "both" => fds'[Top.file] = fds[Top.file])
      BY <1>3, <2>2, <2>3, <2>4
    <3> QED  BY <1>8, <2>2, <2>6, <3>1, <3>2 DEF Placed
  <2>9. Balanced(fds', pipes', b)
    <3>1. Balanced(fds', pipes', Top)
      <4>1. fds'[Top.rfd] = fds[Top.rfd]
        BY <1>3, <2>2, <2>3, <2>4
      <4>2. Depth \in 1 .. Depth /\ Top = calls[Depth]
        BY <1>1, TopOwns
      <4> QED  BY <2>4, <4>1, <4>2, BalancedElse
    <3> QED  BY <2>6, <3>1 DEF Balanced
  <2>10. OutOf(b) = LeftOut(Top) /\ InOf(b) = Top.rfd
    BY <1>8, <2>6 DEF OutOf, InOf, LeftOut
  <2>11. /\ Depth = 1 => g_out_fd' = OutOf(b) /\ g_in_fd' = InOf(b)
         /\ Depth = 2 => /\ IF b.pc \in {"left", "right"} /\ b.line # "plain"
                            THEN g_out_fd' = OutOf(b) ELSE g_out_fd' \in {OutOf(calls[1]), None}
                         /\ IF b.pc = "right" THEN g_in_fd' = b.rfd
                                              ELSE g_in_fd' \in {InOf(calls[1]), None}
    BY <1>8, <2>6, <2>10
  <2>12. /\ \A f \in Own(b) : f \in Own(Top) \/ (f \in Slots /\ ~fds[f].used)
         /\ \A f \in Slots : /\ f \in Own(b) => fds'[f].used
                             /\ f \in Own(Top) /\ f \notin Own(b) => ~fds'[f].used
                             /\ f \notin Own(b) /\ f \notin Own(Top) => fds'[f] = fds[f]
    BY <1>2, <1>3, <2>4, <2>7
  <2>13. SetTop(b) /\ g_serial_mode' = g_serial_mode
    BY <1>8, <2>5
  <2>14. \A p \in Pipes : pipes[p].used => pipes'[p].count = pipes[p].count
    BY <2>4
  <2> QED  BY <1>1, <2>4, <2>6, <2>8, <2>9, <2>11, <2>12, <2>13, <2>14, SetStep
<1> QED  BY <1>6, <1>7, <1>8 DEF Left_ends

\* The right side ends.
LEMMA RightStep ==
  ASSUME SInv, Right_ends
  PROVE  SInv'
<1>1. Depth > 0 /\ Top.pc = "right" /\ prog_fds' = prog_fds /\ fd_close(Top.rfd) /\ g_in_fd' = None
  BY DEF Right_ends, At, In
<1>2. /\ Top \in Act /\ Placed(fds, Top) /\ Depth \in {1, 2}
      /\ Own(Top) \subseteq Slots /\ \A f \in Own(Top) : fds[f].used
  BY <1>1, TopOwns
<1>3. None \notin Slots /\ Slots \subseteq FDs
  BY ShNumbers
<1>4. Top.line \in {"pipe", "both"}
  BY <1>1, <1>2 DEF Placed
<1>5. /\ Top.rfd \in Slots /\ Top.wfd = None /\ fds[Top.rfd].type = "FD_PIPE_READ"
      /\ Top.line = "both" => Top.file \in Slots /\ fds[Top.file].type = "FD_FILE"
      /\ Top.line = "pipe" => Top.file = None
  <2>1. HasRead(Top) /\ ~HasWrite(Top) /\ (HasFile(Top) <=> Top.line = "both")
    BY <1>1, <1>4 DEF HasFile, HasRead, HasWrite
  <2> QED  BY <1>2, <1>4, <2>1 DEF Placed
<1>6. CASE Top.line = "pipe"
  <2>1. Own(Top) = {Top.rfd}
    BY <1>3, <1>5, <1>6 DEF Own
  <2>2. Return(calls) /\ g_out_fd' = g_out_fd
    BY <1>6 DEF Right_ends
  <2>3. g_out_fd = None
    <3>1. Routed(calls, g_out_fd, g_in_fd) /\ Depth = Len(calls) /\ Top = calls[Depth]
      BY DEF SInv, ShInv, Depth, Top
    <3>2. OutOf(Top) = None
      BY <1>1, <1>6 DEF OutOf
    <3> QED  BY <1>1, <1>2, <1>6, <3>1, <3>2 DEF Routed
  <2> QED  BY <1>1, <2>1, <2>2, <2>3, CloseReturn
<1>7. CASE Top.line = "both"
  <2>1. /\ g_out_fd' = None /\ g_serial_mode' = g_serial_mode
        /\ SetTop([Top EXCEPT !.rfd = None, !.pc = "fclose"])
    BY <1>7 DEF Right_ends
  <2>2. PICK x : x = Top.rfd
    OBVIOUS
  <2>3. /\ Inv' /\ ~fds'[x].used
        /\ \A f \in FDs : f # x => fds'[f] = fds[f]
        /\ \A p \in Pipes : pipes'[p].count = pipes[p].count
    BY <1>1, <1>5, <2>2, CloseStep
  <2>4. PICK b : b = [Top EXCEPT !.rfd = None, !.pc = "fclose"]
    OBVIOUS
  <2>5. /\ b \in Act /\ b.by = Top.by /\ b.line = Top.line /\ b.pc = "fclose" /\ b.cmd = Top.cmd
        /\ b.file = Top.file /\ b.rfd = None /\ b.wfd = None
    <3>1. /\ b \in Act /\ b.by = Top.by /\ b.line = Top.line /\ b.pc = "fclose" /\ b.cmd = Top.cmd
          /\ b.file = Top.file /\ b.rfd = None /\ b.wfd = Top.wfd
      BY <1>2, <2>4 DEF Act, Pcs
    <3> QED  BY <1>5, <3>1
  <2>6. Top.file # x
    BY <1>5, <1>7, <2>2
  <2>7. Own(b) = Own(Top) \ {x} /\ x \in Own(Top)
    BY <1>3, <1>5, <2>2, <2>5, <2>6 DEF Own
  <2>8. Placed(fds', b)
    <3>1. HasFile(b) /\ ~HasRead(b) /\ ~HasWrite(b)
      BY <1>7, <2>5 DEF HasFile, HasRead, HasWrite
    <3>2. fds'[Top.file] = fds[Top.file]
      BY <1>3, <1>5, <1>7, <2>3, <2>6
    <3> QED  BY <1>5, <1>7, <2>5, <3>1, <3>2 DEF Placed
  <2>9. Balanced(fds', pipes', b)
    BY <2>5 DEF Balanced
  <2>10. OutOf(b) = None /\ InOf(b) = None
    BY <2>5 DEF OutOf, InOf
  <2>11. /\ Depth = 1 => g_out_fd' = OutOf(b) /\ g_in_fd' = InOf(b)
         /\ Depth = 2 => /\ IF b.pc \in {"left", "right"} /\ b.line # "plain"
                            THEN g_out_fd' = OutOf(b) ELSE g_out_fd' \in {OutOf(calls[1]), None}
                         /\ IF b.pc = "right" THEN g_in_fd' = b.rfd
                                              ELSE g_in_fd' \in {InOf(calls[1]), None}
    BY <1>1, <2>1, <2>5, <2>10
  <2>12. /\ \A f \in Own(b) : f \in Own(Top) \/ (f \in Slots /\ ~fds[f].used)
         /\ \A f \in Slots : /\ f \in Own(b) => fds'[f].used
                             /\ f \in Own(Top) /\ f \notin Own(b) => ~fds'[f].used
                             /\ f \notin Own(b) /\ f \notin Own(Top) => fds'[f] = fds[f]
    BY <1>2, <1>3, <2>3, <2>7
  <2>13. SetTop(b) /\ \A p \in Pipes : pipes[p].used => pipes'[p].count = pipes[p].count
    BY <2>1, <2>3, <2>4
  <2>14. b.cmd = "done"
    BY <2>5 DEF Right_ends, In
  <2> QED  BY <1>1, <2>1, <2>3, <2>5, <2>8, <2>9, <2>11, <2>12, <2>13, <2>14, SetStep
<1> QED  BY <1>4, <1>6, <1>7

\* The file of a line with a pipe is closed last.
LEMMA FcloseStep ==
  ASSUME SInv, File_closes
  PROVE  SInv'
<1>1. /\ Depth > 0 /\ Top.pc = "fclose" /\ fd_close(Top.file) /\ Return(calls)
      /\ g_out_fd' = g_out_fd /\ g_in_fd' = g_in_fd /\ prog_fds' = prog_fds
  BY DEF File_closes, At
<1>2. Top \in Act /\ Placed(fds, Top)
  BY <1>1, TopOwns
<1>3. Own(Top) = {Top.file}
  <2>1. HasFile(Top) /\ ~HasRead(Top) /\ ~HasWrite(Top) /\ None \notin Slots
    BY <1>1, <1>2, ShNumbers DEF Placed, HasFile, HasRead, HasWrite
  <2> QED  BY <1>2, <2>1 DEF Placed, Own
<1>4. /\ Depth = 1 => g_out_fd = None /\ g_in_fd = None
      /\ Depth = 2 => g_out_fd \in {OutOf(calls[1]), None} /\ g_in_fd \in {InOf(calls[1]), None}
  BY <1>1, NotRedirected
<1> QED  BY <1>1, <1>3, <1>4, CloseReturn

\* fd_create or fd_pipe fails.
LEMMA FailureStep ==
  ASSUME SInv, NEW n \in 1 .. MaxSize, Create_fails(n) \/ Pipe_fails(n)
  PROVE  SInv'
<1>1. n \in Nat
  BY ShNumbers
<1>2. Puts(n) /\ Depth > 0 /\ UNCHANGED <<g_out_fd, g_in_fd, prog_fds>>
  BY DEF Create_fails, Pipe_fails, At
<1>3. CASE Create_fails(n)
  BY <1>1, <1>2, <1>3, FailStep DEF Create_fails
<1>4. CASE Pipe_fails(n)
  <2>1. At("pipe") /\ AfterNoPipe(Counted(n, 0))
    BY <1>4 DEF Pipe_fails
  <2>2. CASE Top.line = "both"
    BY <1>1, <1>2, <2>1, <2>2, NoPipeStep DEF AfterNoPipe
  <2>3. CASE Top.line # "both"
    BY <1>1, <1>2, <2>1, <2>3, FailStep DEF AfterNoPipe
  <2> QED  BY <2>2, <2>3
<1> QED  BY <1>3, <1>4

-----------------------------------------------------------------------------
\* At the prompt nothing is open beside the streams.
LEMMA ShellBegins == ShellInit => SInv
<1> SUFFICES ASSUME ShellInit PROVE SInv
  OBVIOUS
<1>1. Inv
  BY InvInit DEF ShellInit
<1>2. calls = <<>> /\ Len(calls) = 0 /\ calls \in Seq(Act) /\ Depth = 0 /\ 1 .. Depth = {}
      /\ g_out_fd = None /\ g_in_fd = None /\ g_serial_mode = FALSE /\ prog_fds = {}
  BY EmptySeq DEF ShellInit, Depth
<1>3. \A f \in Slots : ~fds[f].used
  <2>1. \A f \in Slots : f \in FDs /\ f \notin {0, 1, 2}
    BY ShNumbers DEF Slots
  <2>2. ~NoDesc.used
    BY DEF NoDesc
  <2> QED  BY <2>1, <2>2 DEF ShellInit, Init
<1>4. Stacked(calls) /\ Owners(fds, calls, prog_fds) /\ Routed(calls, g_out_fd, g_in_fd)
  BY <1>2, <1>3 DEF Stacked, Owners, Routed
<1>5. g_serial_mode = (Depth = 2)
  <2>1. ~(Depth = 2)
    BY <1>2
  <2> QED  BY <1>2, <2>1, Zenon
<1> QED  BY <1>1, <1>2, <1>4, <1>5 DEF SInv, ShInv

\* The invariant holds throughout, whatever is typed on either line.
LEMMA ShellInvariance == ShellSpec => []SInv
<1>1. ASSUME SInv, [ShellNext]_shellVars PROVE SInv'
  <2>1. CASE UNCHANGED shellVars
    <3>1. /\ fds' = fds /\ pipes' = pipes /\ fat_open' = fat_open /\ calls' = calls
          /\ g_out_fd' = g_out_fd /\ g_in_fd' = g_in_fd /\ g_serial_mode' = g_serial_mode
          /\ prog_fds' = prog_fds
      BY <2>1 DEF shellVars, shVars, vars
    <3>2. Inv'
      BY <1>1, <3>1 DEF SInv, Inv, TypeOK, TableSound, EndsSingle, PipesOwned,
                        FatDescriptorsOwned, RingsSound, Ends
    <3> QED  BY <1>1, <3>1, <3>2, Together DEF SInv, ShInv, Depth
  <2>2. ASSUME NEW line \in Lines, Keyboard_line(line) \/ Serial_line(line) PROVE SInv'
    BY <1>1, <2>2, LineStep
  <2>3. ASSUME NEW n \in 1 .. MaxSize, Say(n) \/ Exec(n) \/ Load_fails(n) PROVE SInv'
    BY <1>1, <2>3, CommandStep
  <2>4. CASE Finish \/ Cat \/ Cat_print \/ Load \/ Sys_exit
    BY <1>1, <2>4, CommandStep
  <2>5. CASE Cat_read
    BY <1>1, <2>5, CatRead
  <2>6. CASE Create \/ Pipe
    BY <1>1, <2>6, CreateStep, MakePipeStep
  <2>7. CASE Left_ends \/ Right_ends \/ File_closes
    BY <1>1, <2>7, LeftStep, RightStep, FcloseStep
  <2>8. ASSUME NEW n \in 1 .. MaxSize, Create_fails(n) \/ Pipe_fails(n) PROVE SInv'
    BY <1>1, <2>8, FailureStep
  <2>9. CASE Sys_open \/ Sys_pipe \/ \E i \in prog_fds : Sys_close(i)
    BY <1>1, <2>9, ProgramStep
  <2> QED  BY <1>1, <2>1, <2>2, <2>3, <2>4, <2>5, <2>6, <2>7, <2>8, <2>9 DEF ShellNext, Goes_on
<1> QED  BY <1>1, ShellBegins, PTL DEF ShellSpec

\* The redirections never outlive what they refer to, whatever a serial line
\* run inside a program does to them.
THEOREM TargetsOpenHolds == ShellSpec => []TargetsOpen
<1>1. ASSUME SInv PROVE TargetsOpen
  <2>1. /\ Inv /\ Depth \in {0, 1, 2} /\ prog_fds \subseteq Slots /\ Slots \subseteq FDs
        /\ \A i \in 1 .. Depth : calls[i] \in Act /\ Placed(fds, calls[i])
    BY <1>1, Parts, ShNumbers
  <2>2. ASSUME g_out_fd # None
        PROVE  /\ fds[g_out_fd].type \in {"FD_FILE", "FD_PIPE_WRITE"} /\ g_out_fd \in FDs
               /\ \E i \in 1 .. Depth : g_out_fd \in Own(calls[i])
    <3>1. PICK i \in 1 .. Depth : g_out_fd = OutOf(calls[i])
      BY <1>1, <2>2, Targets
    <3> QED  BY <2>1, <2>2, <3>1, OwnBy
  <2>3. ASSUME g_in_fd # None
        PROVE  /\ fds[g_in_fd].type = "FD_PIPE_READ" /\ g_in_fd \in FDs
               /\ \E i \in 1 .. Depth : g_in_fd \in Own(calls[i])
    <3>1. PICK i \in 1 .. Depth : g_in_fd = InOf(calls[i])
      BY <1>1, <2>3, Targets
    <3>2. g_in_fd \in Own(calls[i])
      BY <2>1, <2>3, <3>1, OwnBy
    <3> QED  BY <1>1, <2>3, <3>2, Readable
  <2>4. ShellTypeOK
    <3>1. TypeOK /\ g_serial_mode = (Depth = 2) /\ Stacked(calls)
      BY <1>1 DEF SInv, ShInv, Inv
    <3>2. ASSUME NEW i \in 1 .. Depth
          PROVE  /\ calls[i].by = (IF i = 1 THEN "keyboard" ELSE "serial")
                 /\ calls[i].line \in Lines /\ calls[i].pc \in Pcs /\ calls[i].cmd \in Cmds
                 /\ {calls[i].file, calls[i].rfd, calls[i].wfd} \subseteq FDs \cup {None}
                 /\ calls[i].buf \in 0 .. CHUNK
      <4>1. calls[i].by = (IF i = 1 THEN "keyboard" ELSE "serial")
        <5>1. i = 1 \/ (i = 2 /\ Depth = 2)
          BY <2>1
        <5> QED  BY <3>1, <5>1 DEF Stacked, Depth
      <4> QED  BY <2>1, <4>1, Fields
    <3>3. {g_out_fd, g_in_fd} \subseteq FDs \cup {None}
      BY <2>2, <2>3
    <3>4. Depth \in 0 .. 2
      BY <2>1
    <3> QED  BY <2>1, <3>1, <3>2, <3>3, <3>4 DEF ShellTypeOK
  <2> QED  BY <2>2, <2>3, <2>4 DEF TargetsOpen
<1> QED  BY <1>1, ShellInvariance, PTL

\* A command that may still print prints to where its own line sends it.
THEOREM OutputInPlaceHolds == ShellSpec => []OutputInPlace
<1>1. ASSUME SInv PROVE OutputInPlace
  <2> SUFFICES ASSUME In("todo") \/ In("print") \/ In("cat") \/ In("load"),
                      Top.by = "keyboard" \/ Top.line # "plain"
               PROVE  g_out_fd = OutOf(Top)
    BY DEF OutputInPlace
  <2>1. Depth > 0 /\ Top.cmd \notin {"prog", "done"} /\ Top.pc \in {"left", "right"}
    BY DEF In
  <2>2. Depth \in {1, 2} /\ Top = calls[Depth] /\ Depth = Len(calls)
    BY <1>1, <2>1, TopOwns DEF Depth
  <2>3. Routed(calls, g_out_fd, g_in_fd) /\ Stacked(calls)
    BY <1>1 DEF SInv, ShInv
  <2>4. Depth = 2 => Top.line # "plain"
    BY <2>2, <2>3 DEF Stacked
  <2> QED  BY <2>1, <2>2, <2>3, <2>4 DEF Routed
<1> QED  BY <1>1, ShellInvariance, PTL

\* No descriptor is lost on any path of run_pipeline, its errors included, and
\* at the prompt the redirections are reset.
THEOREM NothingLostHolds == ShellSpec => []NothingLost
<1>1. ASSUME SInv PROVE NothingLost
  <2>1. Owners(fds, calls, prog_fds) /\ Routed(calls, g_out_fd, g_in_fd) /\ Depth = Len(calls)
    BY <1>1 DEF SInv, ShInv, Depth
  <2>2. \A i \in 1 .. Depth : Own(calls[i]) \subseteq Slots
    BY <1>1, OwnBy, Parts
  <2>3. \A f : f \in UNION {Own(calls[i]) : i \in 1 .. Depth} <=> \E i \in 1 .. Depth : f \in Own(calls[i])
    OBVIOUS
  <2>4. {i \in Slots : fds[i].used} = (UNION {Own(calls[i]) : i \in 1 .. Depth}) \cup prog_fds
    <3>1. ASSUME NEW f
          PROVE  f \in {i \in Slots : fds[i].used}
                   <=> f \in prog_fds \/ \E i \in 1 .. Depth : f \in Own(calls[i])
      BY <2>1, <2>2 DEF Owners
    <3> QED  BY <2>3, <3>1
  <2>5. calls = <<>> => g_out_fd = None /\ g_in_fd = None
    BY <2>1, EmptySeq DEF Routed
  <2> QED  BY <2>4, <2>5 DEF NothingLost, Slots
<1> QED  BY <1>1, ShellInvariance, PTL

\* When the cat on the right has read to the end it has read what the left side
\* wrote, cut to what the pipe holds, unless a serial command touched the pipe.
THEOREM PipeDeliversHolds == ShellSpec => []PipeDelivers
<1>1. ASSUME SInv PROVE PipeDelivers
  <2> SUFFICES ASSUME At("right"), In("cat"), Available = 0, ~Top.touched
               PROVE  Top.got = Smaller(Top.sent, PIPE_BUF)
    BY DEF PipeDelivers
  <2>1. Depth > 0 /\ Top.cmd = "cat" /\ Top.pc = "right"
    BY DEF In, At
  <2>2. /\ Depth \in {1, 2} /\ Top = calls[Depth] /\ Depth = Len(calls) /\ Top \in Act
        /\ Placed(fds, Top) /\ Balanced(fds, pipes, Top)
    BY <1>1, <2>1, TopOwns DEF Depth
  <2>3. g_in_fd = Top.rfd /\ g_in_fd # None
    <3>1. Routed(calls, g_out_fd, g_in_fd) /\ InOf(Top) = Top.rfd
      BY <1>1, <2>1 DEF SInv, ShInv, InOf
    <3> QED  BY <2>1, <2>2, <3>1 DEF Routed
  <2>4. pipes[fds[Top.rfd].pipe_id].count + Top.got = Smaller(Top.sent, PIPE_BUF)
    BY <2>2, <2>3 DEF Balanced
  <2>5. pipes[fds[Top.rfd].pipe_id].count = 0 /\ Top.got \in Nat
    BY <2>2, <2>3, Fields DEF Available
  <2> QED  BY <2>4, <2>5
<1> QED  BY <1>1, ShellInvariance, PTL

\* Used by the shell and its programs, the table still loses no pipe and no
\* descriptor of the FAT12 driver.
THEOREM ShellDescriptorsOwned == ShellSpec => []DescriptorsOwned
<1>1. SInv => DescriptorsOwned
  BY DEF SInv, Inv, DescriptorsOwned
<1> QED  BY <1>1, ShellInvariance, PTL
=============================================================================
