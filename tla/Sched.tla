------------------------------- MODULE Sched -------------------------------
(***************************************************************************)
(* The preemptive round-robin scheduler (system/sched/sched.cpp), the      *)
(* timer interrupt that drives it (system/idt/idt.asm) and the task-state  *)
(* segment it keeps up to date (system/tss/tss.cpp).                       *)
(*                                                                         *)
(* A stack pointer is abstracted to the kernel stack it points into and a  *)
(* depth in it.  cpu is the pointer the processor runs on: the interrupt   *)
(* pushes its frame on that stack, whatever the scheduler believes, so a   *)
(* wrong pointer returned by sched_tick is carried on by the next tick.    *)
(* frame is a history variable: where the code on stack i was last         *)
(* interrupted (or is to start).                                           *)
(*                                                                         *)
(* Definitions named X_<fault>, just before X, are faulty variants of X    *)
(* against which the properties are tried.                                 *)
(***************************************************************************)
EXTENDS Integers

CONSTANTS MAX_TASKS,      \* slots of tasks[]
          QUANTUM_TICKS,  \* ticks a task runs before it may be switched out
          MaxDepth        \* bound: depths of a stack that are told apart

ASSUME SchedAssumption ==
  /\ MAX_TASKS \in Nat \ {0}
  /\ QUANTUM_TICKS \in Nat \ {0}
  /\ MaxDepth \in Nat

Slots  == 0 .. MAX_TASKS - 1
Depths == 0 .. MaxDepth

DEAD    == "TASK_DEAD"
READY   == "TASK_READY"
RUNNING == "TASK_RUNNING"
TaskState == {DEAD, READY, RUNNING}

\* Pointers into the kernel stack of task i, and the pointer 0.
Ptr      == [stack : Slots, depth : Depths]
NullPtr  == [stack |-> -1, depth |-> 0]
\* The frame sched_add_task builds at the top of kstacks[i].
FirstFrame(i) == [stack |-> i, depth |-> 0]

\* Values of esp0: the top of kstacks[i] is i; the others are distinct from it.
BootStack == -1      \* 0x9FFFC, the stack the kernel booted on
NoStack   == -2      \* the zeroed field
TestStack == -3      \* 0xC100, the made-up stack of sched_test
Esp0 == Slots \cup {BootStack, NoStack, TestStack}

\* How far kernel_main has come in bringing the scheduler up.
Phases == {"idt", "sched", "tested", "up"}

NotAdding == -1

VARIABLES
  tasks,       \* the task table
  task_count, cur_task, ticks_left,
  tss_esp0,    \* kernel_tss.esp0: the stack an interrupt from ring 3 uses
  phase,
  adding,      \* the slot a sched_add_task in progress has read, or NotAdding
  cpu,         \* the stack pointer of the processor
  frame        \* history: where each stack's code was interrupted

vars == <<tasks, task_count, cur_task, ticks_left, tss_esp0, phase, adding,
          cpu, frame>>

Task == [esp : Ptr \cup {NullPtr}, esp0 : Esp0, state : TaskState]

TypeOK ==
  /\ tasks \in [Slots -> Task]
  /\ task_count \in 0 .. MAX_TASKS
  /\ cur_task \in Slots
  /\ ticks_left \in 1 .. QUANTUM_TICKS
  /\ tss_esp0 \in Esp0
  /\ phase \in Phases
  /\ adding \in Slots \cup {NotAdding}
  /\ cpu \in Ptr
  /\ frame \in [Slots -> Ptr]

-----------------------------------------------------------------------------
\* The statics of sched.cpp; idt_init has just enabled interrupts.
Init ==
  /\ tasks = [i \in Slots |-> [esp |-> NullPtr, esp0 |-> NoStack, state |-> DEAD]]
  /\ task_count = 0
  /\ cur_task = 0
  /\ ticks_left = QUANTUM_TICKS
  /\ tss_esp0 = NoStack
  /\ phase = "idt"
  /\ adding = NotAdding
  /\ cpu = FirstFrame(0)
  /\ frame = [i \in Slots |-> FirstFrame(i)]

tss_set_esp0_lost(esp0) == UNCHANGED tss_esp0

tss_set_esp0(esp0) == tss_esp0' = esp0

sched_init ==
  /\ phase = "idt"
  /\ phase' = "sched"
  /\ tasks' = [tasks EXCEPT ![0] = [esp |-> NullPtr, esp0 |-> 0, state |-> RUNNING]]
  /\ task_count' = 1
  /\ cur_task' = 0
  /\ ticks_left' = QUANTUM_TICKS
  /\ UNCHANGED <<tss_esp0, adding, cpu, frame>>

\* sched_test runs with interrupts off and restores the table, the counts and
\* the quantum; the tss_set_esp0 calls of the sched_tick's it makes stay.
sched_test ==
  /\ phase = "sched"
  /\ phase' = "tested"
  /\ tss_set_esp0(TestStack)
  /\ UNCHANGED <<tasks, task_count, cur_task, ticks_left, adding, cpu, frame>>

tss_init ==
  /\ phase = "tested"
  /\ phase' = "up"
  /\ tss_esp0' = BootStack
  /\ UNCHANGED <<tasks, task_count, cur_task, ticks_left, adding, cpu, frame>>

Has_slot == task_count < MAX_TASKS

\* sched_add_task leaves interrupts on, and only kernel code of task 0 runs
\* with them on: a tick may come between the filling of the slot ...
sched_add_task ==
  /\ phase = "up" /\ cur_task = 0 /\ adding = NotAdding
  /\ Has_slot
  /\ adding' = task_count
  /\ tasks' = [tasks EXCEPT ![task_count] =
                 [esp |-> FirstFrame(task_count), esp0 |-> task_count, state |-> READY]]
  /\ frame' = [frame EXCEPT ![task_count] = FirstFrame(task_count)]
  /\ UNCHANGED <<task_count, cur_task, ticks_left, tss_esp0, phase, cpu>>

\* ... and its publication.
sched_add_task_publish ==
  /\ adding # NotAdding /\ cur_task = 0
  /\ task_count' = task_count + 1
  /\ adding' = NotAdding
  /\ UNCHANGED <<tasks, cur_task, ticks_left, tss_esp0, phase, cpu, frame>>

sched_kill_current ==
  /\ phase = "up"
  /\ tasks' = [tasks EXCEPT ![cur_task].state = DEAD]
  /\ UNCHANGED <<task_count, cur_task, ticks_left, tss_esp0, phase, adding, cpu, frame>>

\* SYS_PROC passes the program's argument on unchecked.
sched_kill_task(id) ==
  /\ phase = "up"
  /\ id < task_count
  /\ tasks' = [tasks EXCEPT ![id].state = DEAD]
  /\ UNCHANGED <<task_count, cur_task, ticks_left, tss_esp0, phase, adding, cpu, frame>>

Candidate_fixed(i) == (i - 1) % task_count
Runnable_always(c) == TRUE

Candidate(i) == (cur_task + i) % task_count
Runnable(c) == tasks[c].state \in {READY, RUNNING}

\* The search of sched_tick: the first runnable slot after cur_task in cyclic
\* order, cur_task itself last; cur_task if there is none.
Next_task(next) ==
  \/ \E i \in 1 .. task_count :
        /\ next = Candidate(i)
        /\ Runnable(next)
        /\ \A j \in 1 .. i - 1 : ~Runnable(Candidate(j))
  \/ /\ \A i \in 1 .. task_count : ~Runnable(Candidate(i))
     /\ next = cur_task

Save_lost(cur_esp) == tasks

\* Line 142, and lines 162-163.
Save(cur_esp) == [tasks EXCEPT ![cur_task].esp = cur_esp]
Mark(saved, next) ==
  [saved EXCEPT ![cur_task].state = READY, ![next].state = RUNNING]

\* The three ways out of sched_tick.  saved is the table after line 142.
Keep_quantum(saved, cur_esp) ==
  /\ ticks_left > 1
  /\ ticks_left' = ticks_left - 1
  /\ tasks' = saved
  /\ cpu' = cur_esp
  /\ UNCHANGED <<cur_task, tss_esp0>>

Keep_task(saved, cur_esp) ==
  /\ ticks_left = 1
  /\ ticks_left' = QUANTUM_TICKS
  /\ Next_task(cur_task)
  /\ tasks' = saved
  /\ cpu' = cur_esp
  /\ UNCHANGED <<cur_task, tss_esp0>>

Switch(saved, next) ==
  /\ ticks_left = 1
  /\ ticks_left' = QUANTUM_TICKS
  /\ next # cur_task
  /\ Next_task(next)
  /\ tasks' = Mark(saved, next)
  /\ cur_task' = next
  /\ tss_set_esp0(saved[next].esp0)
  /\ cpu' = saved[next].esp

\* timer_handler: the registers are pushed on the stack the processor is on,
\* at any depth; the stack sched_tick returns is switched to.
sched_tick(depth) ==
  LET cur_esp == [stack |-> cpu.stack, depth |-> depth]
      saved   == Save(cur_esp)
  IN  /\ \/ Keep_quantum(saved, cur_esp)
         \/ Keep_task(saved, cur_esp)
         \/ \E next \in Slots : Switch(saved, next)
      /\ frame' = [frame EXCEPT ![cpu.stack] = cur_esp]
      /\ UNCHANGED <<task_count, phase, adding>>

Tick == \E depth \in Depths : sched_tick(depth)

Next ==
  \/ sched_init
  \/ sched_test
  \/ tss_init
  \/ sched_add_task
  \/ sched_add_task_publish
  \/ sched_kill_current
  \/ \E id \in Slots : sched_kill_task(id)
  \/ Tick

\* The timer runs from boot to shutdown (pit_init), and nothing in the
\* scheduler masks it; the steps of kernel code are owed no progress.
Spec == Init /\ [][Next]_vars /\ WF_vars(Tick)

-----------------------------------------------------------------------------
Tasks == 0 .. task_count - 1

\* The task table and the processor agree: only the current task is marked
\* running, and the current task is never left merely READY by a switch.
OneRunning ==
  task_count > 0 =>
    /\ tasks[cur_task].state \in {RUNNING, DEAD}
    /\ \A i \in Tasks : tasks[i].state = RUNNING => i = cur_task

\* The processor runs on the stack of the task the table calls current, and
\* every other task's saved pointer is where its code was interrupted, on its
\* own kernel stack: no switch resumes a task on a stale or foreign stack.
StackOwnership ==
  /\ cpu.stack = cur_task
  /\ \A i \in Tasks \ {cur_task} : tasks[i].esp = frame[i] /\ frame[i].stack = i

\* An interrupt from ring 3 always lands on a kernel stack of the current
\* task: its slot's stack, or the boot stack for task 0.  Programs run only
\* once tss_init has replaced what sched_test left behind.
KernelStackOwned ==
  phase = "up" => \/ tss_esp0 = cur_task
                  \/ tss_esp0 = BootStack /\ cur_task = 0

\* A slot sched_add_task is still filling is out of reach of sched_tick and
\* kill, whatever ticks come before it is published.
UnpublishedHidden ==
  adding # NotAdding => adding = task_count /\ cur_task # adding

\* A killed task that is not the one running never becomes runnable again.
KilledStaysDead ==
  [][\A i \in Tasks \ {cur_task} :
        tasks[i].state = DEAD => tasks'[i].state = DEAD]_vars

\* Round robin starves nobody: a READY task runs unless it is killed first.
NoStarvation ==
  \A i \in Slots :
    (i < task_count /\ tasks[i].state = READY)
       ~> (cur_task = i \/ tasks[i].state = DEAD)
=============================================================================
