--------------------------------- MODULE Fd ---------------------------------
(***************************************************************************)
(* The table of file descriptors and the pipes (system/ipc/fd.cpp).        *)
(*                                                                         *)
(* One table serves all programs and the shell.  The loops of fd_read and  *)
(* fd_write on a pipe run with interrupts off, so that a call is one step. *)
(* Of the FAT12 driver only which of its descriptors are in use is kept    *)
(* here (Fat12 has the rest).                                              *)
(* Definitions named X_<fault> are faulty variants of the X that follows.  *)
(***************************************************************************)
EXTENDS Integers, Sequences, SequencesExt

CONSTANTS
  FD_MAX,     \* slots of fds[]; 0, 1 and 2 are the standard streams
  PIPE_MAX,   \* pipes
  PIPE_BUF,   \* bytes of a pipe
  FAT_FDS,    \* descriptors of the FAT12 driver
  Byte,       \* values of a byte
  MaxSize     \* bound: bytes of one fd_read or fd_write

ASSUME FdAssumption ==
  /\ FD_MAX \in Nat /\ FD_MAX >= 3
  /\ PIPE_MAX \in Nat
  /\ PIPE_BUF \in Nat \ {0}
  /\ MaxSize \in Nat
  /\ Byte # {}

FDs   == 0 .. FD_MAX - 1
Pipes == 0 .. PIPE_MAX - 1
None  == -1

ASSUME FatFdsAssumption == FAT_FDS \subseteq Nat

VARIABLES
  fds,       \* the table: [used, type, fat_fd, pipe_id]
  pipes,     \* the pipes: [used, buf, read_pos, write_pos, count, write_closed]
  fat_open   \* the descriptors of the FAT12 driver that are in use

vars == <<fds, pipes, fat_open>>

Types == {"FD_NONE", "FD_STDIN", "FD_STDOUT", "FD_STDERR", "FD_FILE",
          "FD_PIPE_READ", "FD_PIPE_WRITE"}

Desc(type, fat_fd, pipe_id) ==
  [used |-> TRUE, type |-> type, fat_fd |-> fat_fd, pipe_id |-> pipe_id]
NoDesc == [used |-> FALSE, type |-> "FD_NONE", fat_fd |-> None, pipe_id |-> None]

\* fd_init; the buffers are zeroed statics, whatever byte that is.
Init ==
  /\ fds = [i \in FDs |-> CASE i = 0 -> Desc("FD_STDIN", None, None)
                            [] i = 1 -> Desc("FD_STDOUT", None, None)
                            [] i = 2 -> Desc("FD_STDERR", None, None)
                            [] OTHER -> NoDesc]
  /\ \E zero \in Byte :
       pipes = [p \in Pipes |-> [used |-> FALSE, buf |-> [i \in 0 .. PIPE_BUF - 1 |-> zero],
                                 read_pos |-> 0, write_pos |-> 0, count |-> 0,
                                 write_closed |-> FALSE]]
  /\ fat_open = {}

-----------------------------------------------------------------------------
\* alloc_fd and alloc_pipe: the lowest unused slot; descriptors start at 3.
FreeFd(i)   == i \in 3 .. FD_MAX - 1 /\ ~fds[i].used
alloc_fd(i) == FreeFd(i) /\ \A j \in FDs : FreeFd(j) => i <= j
alloc_pipe(p) == p \in Pipes /\ ~pipes[p].used /\ \A q \in Pipes : ~pipes[q].used => p <= q

Fresh_stale(pipe) == [pipe EXCEPT !.used = TRUE, !.write_closed = FALSE]

Fresh(pipe) ==
  [pipe EXCEPT !.used = TRUE, !.read_pos = 0, !.write_pos = 0, !.count = 0,
               !.write_closed = FALSE]

\* fd_pipe undoes its first descriptor if it finds no second one.
fd_pipe(p, rfd, wfd) ==
  /\ alloc_pipe(p)
  /\ alloc_fd(rfd)
  /\ FreeFd(wfd) /\ wfd # rfd /\ \A j \in FDs : FreeFd(j) /\ j # rfd => wfd <= j
  /\ pipes' = [pipes EXCEPT ![p] = Fresh(@)]
  /\ fds' = [fds EXCEPT ![rfd] = Desc("FD_PIPE_READ", None, p),
                        ![wfd] = Desc("FD_PIPE_WRITE", None, p)]
  /\ UNCHANGED fat_open

\* fd_open and fd_create, once the driver has given descriptor fat: it is
\* closed again if the table is full.
fd_open(fat) ==
  /\ fat \in FAT_FDS \ fat_open
  /\ \/ \E i \in FDs :
          /\ alloc_fd(i)
          /\ fds' = [fds EXCEPT ![i] = Desc("FD_FILE", fat, None)]
          /\ fat_open' = fat_open \cup {fat}
     \/ /\ \A i \in FDs : ~FreeFd(i)
        /\ UNCHANGED <<fds, fat_open>>
  /\ UNCHANGED pipes


Room(pipe) == PIPE_BUF - pipe.count

Smaller(m, n) == IF m < n THEN m ELSE n

\* A read of size bytes takes what there is, and a write what finds room.  At
\* end of file, on a closed write end and on a file or stream, nothing kept here
\* changes.
fd_read(i, size) ==
  LET p == fds[i].pipe_id
      n == Smaller(size, pipes[p].count)
  IN  /\ fds[i].used /\ fds[i].type = "FD_PIPE_READ"
      /\ ~(pipes[p].count = 0 /\ pipes[p].write_closed)
      /\ pipes' = [pipes EXCEPT ![p].read_pos = (@ + n) % PIPE_BUF, ![p].count = @ - n]
      /\ UNCHANGED <<fds, fat_open>>

\* The ring buffer with the first n bytes of data put in from pos on.
Filled(buf, pos, data, n) ==
  [k \in 0 .. PIPE_BUF - 1 |->
     LET off == (k - pos) % PIPE_BUF IN IF off < n THEN data[off + 1] ELSE buf[k]]

fd_write(i, data) ==
  LET p == fds[i].pipe_id
      n == Smaller(Len(data), Room(pipes[p]))
  IN  /\ fds[i].used /\ fds[i].type = "FD_PIPE_WRITE"
      /\ ~pipes[p].write_closed
      /\ pipes' = [pipes EXCEPT ![p].buf = Filled(@, pipes[p].write_pos, data, n),
                                ![p].write_pos = (@ + n) % PIPE_BUF, ![p].count = @ + n]
      /\ UNCHANGED <<fds, fat_open>>

\* Descriptors of the given type on pipe p.
Ends(p, type) == {i \in FDs : fds[i].used /\ fds[i].type = type /\ fds[i].pipe_id = p}

LastEnd_always(p, other) == TRUE

\* No descriptor is open on the other end of pipe p.
LastEnd(p, other) == Ends(p, other) = {}

Close_file_leaks(i) == fds[i].type = "FD_FILE" /\ UNCHANGED <<fat_open, pipes>>

Close_file(i) ==
  /\ fds[i].type = "FD_FILE"
  /\ fat_open' = fat_open \ {fds[i].fat_fd}
  /\ UNCHANGED pipes

\* A pipe is given back by whichever end is closed last.
Close_write_end(i) ==
  LET p == fds[i].pipe_id IN
  /\ fds[i].type = "FD_PIPE_WRITE"
  /\ pipes' = [pipes EXCEPT ![p].write_closed = TRUE,
                            ![p].used = IF LastEnd(p, "FD_PIPE_READ") THEN FALSE ELSE @]
  /\ UNCHANGED fat_open

Close_read_end(i) ==
  LET p == fds[i].pipe_id IN
  /\ fds[i].type = "FD_PIPE_READ"
  /\ pipes' = [pipes EXCEPT ![p].used = IF LastEnd(p, "FD_PIPE_WRITE") THEN FALSE ELSE @]
  /\ UNCHANGED fat_open

Close_stream(i) ==
  /\ fds[i].type \in {"FD_STDIN", "FD_STDOUT", "FD_STDERR"}
  /\ UNCHANGED <<pipes, fat_open>>

fd_close(i) ==
  /\ fds[i].used
  /\ Close_file(i) \/ Close_write_end(i) \/ Close_read_end(i) \/ Close_stream(i)
  /\ fds' = [fds EXCEPT ![i] = NoDesc]

Next ==
  \/ \E p \in Pipes, rfd, wfd \in FDs : fd_pipe(p, rfd, wfd)
  \/ \E fat \in FAT_FDS : fd_open(fat)
  \/ \E i \in FDs, size \in 0 .. MaxSize : fd_read(i, size)
  \/ \E i \in FDs, data \in BoundedSeq(Byte, MaxSize) : fd_write(i, data)
  \/ \E i \in FDs : fd_close(i)

Spec == Init /\ [][Next]_vars

-----------------------------------------------------------------------------
PipeRec == [used : BOOLEAN, buf : [0 .. PIPE_BUF - 1 -> Byte],
            read_pos : 0 .. PIPE_BUF - 1, write_pos : 0 .. PIPE_BUF - 1,
            count : 0 .. PIPE_BUF, write_closed : BOOLEAN]

TypeOK ==
  /\ fds \in [FDs -> [used : BOOLEAN, type : Types, fat_fd : FAT_FDS \cup {None},
                      pipe_id : Pipes \cup {None}]]
  /\ pipes \in [Pipes -> PipeRec]
  /\ fat_open \subseteq FAT_FDS

\* A pipe is in use exactly as long as a descriptor is open on it, whichever
\* end is closed first: none is lost, and none is reused under a descriptor.
PipesOwned ==
  \A p \in Pipes : pipes[p].used <=> Ends(p, "FD_PIPE_READ") \cup Ends(p, "FD_PIPE_WRITE") # {}

\* Each open file has a FAT12 descriptor of its own, and the driver has no
\* descriptor open that the table has forgotten.
FatDescriptorsOwned ==
  /\ \A i, j \in FDs : fds[i].type = "FD_FILE" /\ fds[j].type = "FD_FILE"
                         /\ fds[i].fat_fd = fds[j].fat_fd => i = j
  /\ fat_open = {fds[i].fat_fd : i \in {k \in FDs : fds[k].type = "FD_FILE"}}

\* Nothing the table answers for is lost or has two owners: no pipe and no
\* descriptor of the driver.
DescriptorsOwned == TypeOK /\ PipesOwned /\ FatDescriptorsOwned

\* The bytes in pipe p, oldest first.
Contents(p) ==
  [i \in 1 .. pipes[p].count |-> pipes[p].buf[(pipes[p].read_pos + i - 1) % PIPE_BUF]]

Queues == INSTANCE PipeQueues WITH
  Capacity <- PIPE_BUF,
  queue <- [p \in Pipes |-> Contents(p)],
  open <- [p \in Pipes |->
             {e \in {"read", "write"} :
                Ends(p, IF e = "read" THEN "FD_PIPE_READ" ELSE "FD_PIPE_WRITE") # {}}]

\* The rings of fd.cpp are bounded queues, across wrap-around, short
\* transfers and the reuse of a pipe that was closed with bytes left in it;
\* and what was written stays there for as long as an end is open.
PipesAreQueues == Queues!QueueSpec
=============================================================================
