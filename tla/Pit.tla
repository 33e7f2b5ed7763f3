-------------------------------- MODULE Pit --------------------------------
(***************************************************************************)
(* The timer (system/pit/pit.cpp) against the interrupt flag.              *)
(*                                                                         *)
(* ticks is 64 bits wide on a 32-bit machine: a load of it is two loads,   *)
(* in an order the compiler chooses, and a tick may come between them      *)
(* unless interrupts are off.  pit_sleep is entered from the kernel with   *)
(* interrupts on, and from SYS_TIME, whose gate (0xEE) turned them off.    *)
(* A tick is a millisecond and the steps here a few instructions, so at    *)
(* most one tick falls between two of them.  kernel_main sets 1000 Hz, so  *)
(* ms * pit_hz / 1000 is ms.                                               *)
(* Definitions named X_<fault> are faulty variants of the X that follows.  *)
(***************************************************************************)
EXTENDS Integers

CONSTANTS
  WORD,       \* 2^32: the values of one half of ticks
  Callers,    \* who sleeps: "kernel" or "program"
  MaxMs,      \* bound: milliseconds asked for
  MaxStart    \* bound: ticks at which a call may begin

ASSUME PitAssumption ==
  /\ WORD \in Nat \ {0} /\ MaxMs \in Nat /\ MaxStart \in Nat
  /\ Callers \subseteq {"kernel", "program"}

VARIABLES
  ticks,
  IF_flag,  \* the interrupt flag
  caller,   \* who is in pit_sleep: "kernel", "program" or "nobody"
  pc,       \* where the caller is
  ms,       \* what pit_sleep was asked for
  target,   \* what pit_sleep waits for
  half,     \* the half of ticks loaded first, and its value
  value,    \* the value the two loads gave
  began,    \* history: ticks when pit_sleep read its start
  ticked    \* has a tick come since the caller's last step?

vars == <<ticks, IF_flag, caller, pc, ms, target, half, value, began, ticked>>

Low(t)  == t % WORD
High(t) == t \div WORD
NoHalf  == [low |-> FALSE, val |-> 0]

\* pc, besides "idle": "start" and "check" load ticks for the target and for
\* the loop's test, "hlt" waits, "time" is pit_ticks.  A load passes a label,
\* label2, then the label of what uses it.

Init ==
  /\ ticks = 0
  /\ IF_flag = TRUE /\ caller = "nobody"
  /\ pc = "idle"
  /\ ms = 0 /\ target = 0 /\ value = 0 /\ began = 0
  /\ half = NoHalf
  /\ ticked = FALSE

-----------------------------------------------------------------------------
\* The timer interrupt: pit_tick, and the end of a hlt.
pit_tick ==
  /\ IF_flag
  /\ CASE pc = "idle" -> ticks < MaxStart
       [] pc = "hlt"  -> TRUE
       [] OTHER       -> ~ticked
  /\ ticks' = ticks + 1
  /\ pc' = IF pc = "hlt" THEN "check" ELSE pc
  /\ ticked' = (pc \notin {"idle", "hlt"})
  /\ UNCHANGED <<IF_flag, caller, ms, target, half, value, began>>

\* The two loads of ticks.
Load_first(from, to) ==
  /\ pc = from /\ pc' = to
  /\ \E low \in BOOLEAN :
       half' = [low |-> low, val |-> IF low THEN Low(ticks) ELSE High(ticks)]
  /\ ticked' = FALSE
  /\ UNCHANGED <<ticks, IF_flag, caller, ms, target, value, began>>

Load_second(from, to) ==
  /\ pc = from /\ pc' = to
  /\ value' = IF half.low THEN High(ticks) * WORD + half.val
                          ELSE half.val * WORD + Low(ticks)
  /\ half' = NoHalf
  /\ ticked' = FALSE
  /\ UNCHANGED <<ticks, IF_flag, caller, ms, target, began>>

Interruptible_never(who) == FALSE

\* A system call comes through an interrupt gate, which clears the flag.
Interruptible(who) == who = "kernel"

\* pit_sleep, called by the kernel or through the system-call gate.
pit_sleep(who, n) ==
  /\ pc = "idle" /\ ticks <= MaxStart
  /\ pc' = "start"
  /\ IF_flag' = Interruptible(who) /\ caller' = who
  /\ ms' = n
  /\ ticked' = FALSE
  /\ began' = ticks
  /\ UNCHANGED <<ticks, target, half, value>>

Set_target ==
  /\ pc = "started" /\ pc' = "check"
  /\ target' = value + ms
  /\ ticked' = FALSE
  /\ UNCHANGED <<ticks, IF_flag, caller, ms, half, value, began>>

Elapsed_early == value + 1 >= target

Elapsed == value >= target

Wait ==
  /\ pc = "checked" /\ ~Elapsed
  /\ pc' = "hlt"
  /\ ticked' = FALSE
  /\ UNCHANGED <<ticks, IF_flag, caller, ms, target, half, value, began>>

\* The return from the call; the flag is the caller's again.
Return ==
  /\ pc = "checked" /\ Elapsed
  /\ pc' = "idle"
  /\ IF_flag' = TRUE /\ caller' = "nobody"
  /\ ms' = 0 /\ target' = 0 /\ value' = 0 /\ began' = 0
  /\ ticked' = FALSE
  /\ UNCHANGED <<ticks, half>>

cli_missing == UNCHANGED IF_flag

cli == IF_flag' = FALSE

\* pit_ticks and pit_uptime_ms: the load is made with interrupts off.
pit_ticks ==
  /\ pc = "idle" /\ pc' = "time"
  /\ cli
  /\ ticked' = FALSE
  /\ UNCHANGED <<ticks, caller, ms, target, half, value, began>>

Sti ==
  /\ pc = "sti" /\ pc' = "idle"
  /\ IF_flag' = TRUE
  /\ value' = 0
  /\ ticked' = FALSE
  /\ UNCHANGED <<ticks, caller, ms, target, half, began>>

Step ==
  \/ Load_first("start", "start2") \/ Load_second("start2", "started")
  \/ Load_first("check", "check2") \/ Load_second("check2", "checked")
  \/ Load_first("time", "time2")   \/ Load_second("time2", "sti")
  \/ Set_target \/ Wait \/ Return \/ Sti

Next ==
  \/ pit_tick
  \/ \E who \in Callers, n \in 0 .. MaxMs : pit_sleep(who, n)
  \/ pit_ticks
  \/ Step

\* The timer never stops and the processor executes; calls are owed to nobody.
Spec == Init /\ [][Next]_vars /\ WF_vars(pit_tick) /\ WF_vars(Step)

-----------------------------------------------------------------------------
\* pit_ticks reports the tick count as it is, never the halves of two counts.
TicksExact == pc = "sti" => value = ticks

\* A sleep lasts at least as long as was asked; the exception is a sleep
\* during which the low word of ticks wraps, whose loads may be torn.
NeverEarly ==
  pc = "checked" /\ Elapsed =>
    ticks >= began + ms \/ High(ticks) # High(began)

Sleeping == pc \in {"start", "start2", "started", "check", "check2", "checked", "hlt"}

\* A sleep of the kernel ends, whatever ticks come between its loads.  A sleep
\* of a program does not: SYS_TIME comes through an interrupt gate, so the hlt of
\* pit_sleep waits for a tick with interrupts off (pit.cpp:25), although
\* syscall.hpp:20 offers sleep to programs.
SleepReturns == Sleeping /\ caller = "kernel" ~> pc = "idle"
=============================================================================
