------------------------------- MODULE Shell -------------------------------
(***************************************************************************)
(* Command lines of the shell (shell/shell.cpp): pipelines, redirection,   *)
(* programs, and the serial shell that SYS_READ_KEY runs inside a program. *)
(* The descriptors are those of Fd.                                        *)
(*                                                                         *)
(* calls is the stack of run_pipeline activations.  The keyboard's is the  *)
(* first; the serial line's runs while a program started by the first      *)
(* waits for a key.  The serial shell refuses exec, so there is no third.  *)
(* A line is its shape; a command is what it does to the descriptors:      *)
(* print, copy its input (cat), run a program (exec), or neither.          *)
(* Programs close only what they opened.                                   *)
(* Definitions named X_<fault> are faulty variants of the X that follows.  *)
(***************************************************************************)
EXTENDS Fd, FiniteSets

CONSTANTS
  CHUNK,          \* bytes cat reads at a time (511)
  MaxLeft         \* bound: a program with that many descriptors opens no more

ASSUME ShellAssumption == CHUNK \in Nat \ {0} /\ MaxLeft \in Nat

VARIABLES
  calls,          \* run_pipeline activations, the one that runs last
  g_out_fd, g_in_fd, g_serial_mode,
  prog_fds        \* descriptors programs have opened and not closed

shVars    == <<calls, g_out_fd, g_in_fd, g_serial_mode, prog_fds>>
shellVars == <<vars, shVars>>

Lines == {"plain", "redirect", "pipe", "both"}
Pcs   == {"create", "pipe", "left", "right", "fclose"}
Cmds  == {"todo", "print", "cat", "load", "prog", "done"}

\* An activation.  pc: where run_pipeline is; cmd: where its dispatch is; buf:
\* bytes cat has read and not printed.  History: bytes its left side wrote into
\* its pipe (at most one more than fit is counted) and its cat read, and whether
\* a nested activation touched its pipe.
Call(by, line) ==
  [by |-> by, line |-> line,
   pc |-> CASE line = "plain" -> "left" [] line = "pipe" -> "pipe" [] OTHER -> "create",
   cmd |-> "todo", file |-> None, rfd |-> None, wfd |-> None, buf |-> 0,
   sent |-> 0, got |-> 0, touched |-> FALSE]

ShellInit ==
  /\ Init
  /\ calls = <<>> /\ g_out_fd = None /\ g_in_fd = None /\ g_serial_mode = FALSE
  /\ prog_fds = {}

-----------------------------------------------------------------------------
Depth == Len(calls)
Top   == calls[Depth]
SetTop(a) == calls' = [calls EXCEPT ![Depth] = a]

At(pc)   == Depth > 0 /\ Top.pc = pc
In(cmd)  == Depth > 0 /\ Top.pc \in {"left", "right"} /\ Top.cmd = cmd

Stays == UNCHANGED <<g_out_fd, g_in_fd, g_serial_mode, prog_fds>>

\* shell_puts of n bytes, the line end included: to a pipe, or to what has no
\* state here (a file, the screen, the serial line).
Puts(n) ==
  IF g_out_fd # None /\ fds[g_out_fd].type = "FD_PIPE_WRITE"
  THEN \E b \in Byte : fd_write(g_out_fd, [i \in 1 .. n |-> b])
  ELSE UNCHANGED vars

\* The activations after the top one printed n bytes or read r bytes.
Counted(n, r) ==
  [i \in 1 .. Depth |->
     LET a == calls[i]
         out == n > 0 /\ g_out_fd # None /\ g_out_fd = a.wfd
         in  == r > 0 /\ g_in_fd # None /\ g_in_fd = a.rfd
     IN  IF i = Depth
         THEN [a EXCEPT !.sent = IF out THEN Smaller(@ + n, PIPE_BUF + 1) ELSE @,
                        !.got = IF in THEN @ + r ELSE @]
         ELSE [a EXCEPT !.touched = @ \/ out \/ in]]

\* run_pipeline returns, to shell_run or to serial_shell_poll.
Return(cs) ==
  /\ calls' = SubSeq(cs, 1, Depth - 1)
  /\ g_serial_mode' = FALSE

With(cs, cmd, buf) == [cs EXCEPT ![Depth].cmd = cmd, ![Depth].buf = buf]

-----------------------------------------------------------------------------
\* shell_run: a line was typed.
Keyboard_line(line) ==
  /\ calls = <<>>
  /\ calls' = <<Call("keyboard", line)>>
  /\ UNCHANGED vars /\ Stays

\* serial_shell_poll, called by SYS_READ_KEY: a line came over the serial port.
Serial_line(line) ==
  /\ Depth = 1 /\ In("prog")
  /\ calls' = Append(calls, Call("serial", line))
  /\ g_serial_mode' = TRUE
  /\ UNCHANGED vars /\ UNCHANGED <<g_out_fd, g_in_fd, prog_fds>>

\* fd_open or fd_create gives descriptor i, over the driver's lowest free one.
File(fat, i) ==
  /\ \A g \in FAT_FDS \ fat_open : fat <= g
  /\ alloc_fd(i) /\ fd_open(fat)

\* fd_create_case gives a file ...
Create ==
  /\ At("create")
  /\ \E fat \in FAT_FDS, i \in FDs :
       /\ File(fat, i)
       /\ IF Top.line = "redirect"
          THEN SetTop([Top EXCEPT !.file = i, !.pc = "left"]) /\ g_out_fd' = i
          ELSE SetTop([Top EXCEPT !.file = i, !.pc = "pipe"]) /\ UNCHANGED g_out_fd
  /\ UNCHANGED <<g_in_fd, g_serial_mode, prog_fds>>

\* ... or fails, as it may for many reasons.
Create_fails(n) ==
  /\ At("create")
  /\ Puts(n)
  /\ Return(Counted(n, 0))
  /\ UNCHANGED <<g_out_fd, g_in_fd, prog_fds>>

Pipe ==
  /\ At("pipe")
  /\ \E p \in Pipes, rfd, wfd \in FDs :
       /\ fd_pipe(p, rfd, wfd)
       /\ SetTop([Top EXCEPT !.rfd = rfd, !.wfd = wfd, !.pc = "left"])
       /\ g_out_fd' = wfd
  /\ UNCHANGED <<g_in_fd, g_serial_mode, prog_fds>>

AfterNoPipe_forgets(cs) == Return(cs)

AfterNoPipe(cs) ==
  IF Top.line = "both" THEN calls' = [cs EXCEPT ![Depth].pc = "fclose"] /\ UNCHANGED g_serial_mode
                       ELSE Return(cs)

Pipe_fails(n) ==
  /\ At("pipe")
  /\ \/ \A p \in Pipes : pipes[p].used
     \/ Cardinality({i \in FDs : FreeFd(i)}) < 2
  /\ Puts(n)
  /\ AfterNoPipe(Counted(n, 0))
  /\ UNCHANGED <<g_out_fd, g_in_fd, prog_fds>>

-----------------------------------------------------------------------------
\* dispatch: a command prints lines ...
Say(n) ==
  /\ In("todo") \/ In("print")
  /\ Puts(n)
  /\ calls' = With(Counted(n, 0), "print", 0)
  /\ Stays

\* ... and ends.
Finish ==
  /\ In("todo") \/ In("print")
  /\ calls' = With(calls, "done", 0)
  /\ UNCHANGED vars /\ Stays

\* cat without a file, with its input redirected.
Cat ==
  /\ In("todo") /\ g_in_fd # None
  /\ calls' = With(calls, "cat", 0)
  /\ UNCHANGED vars /\ Stays

Available == pipes[fds[g_in_fd].pipe_id].count

CatEnds_on_error(n) == n < 0

\* The loop goes on while fd_read returns more than 0.
CatEnds(n) == n <= 0

Cat_read ==
  /\ In("cat") /\ Top.buf = 0
  /\ LET n == Smaller(CHUNK, Available) IN
       \/ /\ CatEnds(n)
          /\ calls' = With(calls, "done", 0) /\ UNCHANGED vars
       \/ /\ ~CatEnds(n)
          /\ IF n > 0 THEN fd_read(g_in_fd, CHUNK) ELSE UNCHANGED vars
          /\ calls' = With(Counted(0, n), "cat", n)
  /\ Stays

Cat_print ==
  /\ In("cat") /\ Top.buf > 0
  /\ Puts(Top.buf + 1)
  /\ calls' = With(Counted(Top.buf + 1, 0), "cat", 0)
  /\ Stays

\* cmd_exec announces the program; on the serial line dispatch refuses it.
Exec(n) ==
  /\ In("todo") /\ ~g_serial_mode
  /\ Puts(n)
  /\ calls' = With(Counted(n, 0), "load", 0)
  /\ Stays

Load_fails(n) ==
  /\ In("load")
  /\ Puts(n)
  /\ calls' = With(Counted(n, 0), "done", 0)
  /\ Stays

Load ==
  /\ In("load")
  /\ calls' = With(calls, "prog", 0)
  /\ UNCHANGED vars /\ Stays

-----------------------------------------------------------------------------
\* The program's system calls on the table of descriptors.
Sys_open ==
  /\ In("prog") /\ Cardinality(prog_fds) < MaxLeft
  /\ \E fat \in FAT_FDS, i \in FDs :
       File(fat, i) /\ prog_fds' = prog_fds \cup {i}
  /\ UNCHANGED <<calls, g_out_fd, g_in_fd, g_serial_mode>>

Sys_pipe ==
  /\ In("prog") /\ Cardinality(prog_fds) < MaxLeft
  /\ \E p \in Pipes, rfd, wfd \in FDs :
       fd_pipe(p, rfd, wfd) /\ prog_fds' = prog_fds \cup {rfd, wfd}
  /\ UNCHANGED <<calls, g_out_fd, g_in_fd, g_serial_mode>>

Sys_close(i) ==
  /\ In("prog") /\ i \in prog_fds
  /\ fd_close(i) /\ prog_fds' = prog_fds \ {i}
  /\ UNCHANGED <<calls, g_out_fd, g_in_fd, g_serial_mode>>

AfterExit_reports == "print"

\* elf_exec returns into cmd_exec, which prints only if the load failed.
AfterExit == "done"

\* SYS_EXIT: what the program opened stays open.
Sys_exit ==
  /\ In("prog")
  /\ calls' = With(calls, AfterExit, 0)
  /\ UNCHANGED vars /\ Stays

-----------------------------------------------------------------------------
LeftOut_kept(a) == IF a.line = "both" THEN a.file ELSE g_out_fd

\* g_out_fd for the right side: the file, or reset.
LeftOut(a) == IF a.line = "both" THEN a.file ELSE None

\* The left side has ended: close what it wrote to and go on to the right side.
Left_ends ==
  /\ In("done") /\ At("left")
  /\ \/ /\ Top.line = "plain"
        /\ Return(calls) /\ UNCHANGED <<vars, g_out_fd, g_in_fd>>
     \/ /\ Top.line = "redirect"
        /\ fd_close(Top.file) /\ g_out_fd' = None
        /\ Return(calls) /\ UNCHANGED g_in_fd
     \/ /\ Top.line \in {"pipe", "both"}
        /\ fd_close(Top.wfd)
        /\ g_out_fd' = LeftOut(Top) /\ g_in_fd' = Top.rfd
        /\ SetTop([Top EXCEPT !.wfd = None, !.pc = "right", !.cmd = "todo"])
        /\ UNCHANGED g_serial_mode
  /\ UNCHANGED prog_fds

Right_ends ==
  /\ In("done") /\ At("right")
  /\ fd_close(Top.rfd)
  /\ g_in_fd' = None
  /\ IF Top.line = "both"
     THEN /\ g_out_fd' = None
          /\ SetTop([Top EXCEPT !.rfd = None, !.pc = "fclose"]) /\ UNCHANGED g_serial_mode
     ELSE Return(calls) /\ UNCHANGED g_out_fd
  /\ UNCHANGED prog_fds

File_closes ==
  /\ At("fclose")
  /\ fd_close(Top.file)
  /\ Return(calls)
  /\ UNCHANGED <<g_out_fd, g_in_fd, prog_fds>>

\* What the kernel goes on with by itself.
Goes_on ==
  \/ Create \/ Pipe \/ Finish \/ Cat_read \/ Cat_print \/ Load
  \/ Left_ends \/ Right_ends \/ File_closes
  \/ \E n \in 1 .. MaxSize : Create_fails(n) \/ Pipe_fails(n) \/ Load_fails(n)

ShellNext ==
  \/ \E line \in Lines : Keyboard_line(line) \/ Serial_line(line)
  \/ Goes_on
  \/ \E n \in 1 .. MaxSize : Say(n) \/ Exec(n)
  \/ Cat
  \/ Sys_open \/ Sys_pipe \/ Sys_exit
  \/ \E i \in prog_fds : Sys_close(i)

\* The processor executes, and the loops of the commands are finite; nothing
\* is assumed of the user and of programs.
ShellSpec == ShellInit /\ [][ShellNext]_shellVars /\ WF_shellVars(Goes_on)

-----------------------------------------------------------------------------
ShellTypeOK ==
  /\ TypeOK
  /\ Depth \in 0 .. 2
  /\ \A i \in 1 .. Depth :
       LET a == calls[i] IN
       /\ a.by = (IF i = 1 THEN "keyboard" ELSE "serial")
       /\ a.line \in Lines /\ a.pc \in Pcs /\ a.cmd \in Cmds
       /\ {a.file, a.rfd, a.wfd} \subseteq FDs \cup {None}
       /\ a.buf \in 0 .. CHUNK
  /\ {g_out_fd, g_in_fd} \subseteq FDs \cup {None}
  /\ g_serial_mode = (Depth = 2)
  /\ prog_fds \subseteq FDs

Own(a) == {a.file, a.rfd, a.wfd} \ {None}

\* The redirections never outlive what they refer to: g_out_fd is an open file
\* or write end and g_in_fd an open read end, of a pipeline that has not
\* returned, whatever ran inside a program in between.
TargetsOpen ==
  /\ ShellTypeOK
  /\ g_out_fd # None => /\ fds[g_out_fd].type \in {"FD_FILE", "FD_PIPE_WRITE"}
                        /\ \E i \in 1 .. Depth : g_out_fd \in Own(calls[i])
  /\ g_in_fd # None => /\ fds[g_in_fd].type = "FD_PIPE_READ"
                       /\ \E i \in 1 .. Depth : g_in_fd \in Own(calls[i])

OutOf(a) == CASE a.pc = "left"                       -> IF a.line = "redirect" THEN a.file ELSE a.wfd
              [] a.pc = "right" /\ a.line = "both"   -> a.file
              [] OTHER                               -> None

\* A command that may still print prints to where its own line sends it, though
\* a serial line that ran inside one of its programs reset g_out_fd.  (A plain
\* serial command is left out: it prints to wherever the keyboard's line does.)
OutputInPlace ==
  /\ In("todo") \/ In("print") \/ In("cat") \/ In("load")
  /\ Top.by = "keyboard" \/ Top.line # "plain"
  => g_out_fd = OutOf(Top)

\* No descriptor is lost: those open beside the standard streams belong to a
\* line that runs or were left by programs, on every error path, and at the
\* prompt the redirections are reset.
NothingLost ==
  /\ {i \in 3 .. FD_MAX - 1 : fds[i].used} = (UNION {Own(calls[i]) : i \in 1 .. Depth}) \cup prog_fds
  /\ calls = <<>> => g_out_fd = None /\ g_in_fd = None

\* When the cat on the right has read to the end it has read what the left side
\* wrote, cut to what the pipe holds, unless a serial command wrote into the
\* pipe or read from it.
PipeDelivers ==
  At("right") /\ In("cat") /\ Top.buf = 0 /\ Available = 0 /\ ~Top.touched
    => Top.got = Smaller(Top.sent, PIPE_BUF)

\* A line that is not waiting for a program ends.
LinesEnd == calls # <<>> /\ ~In("prog") ~> calls = <<>> \/ In("prog")
=============================================================================
