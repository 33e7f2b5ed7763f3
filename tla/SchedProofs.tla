---------------------------- MODULE SchedProofs ----------------------------
(***************************************************************************)
(* Proofs about the scheduler, for any number of slots and any quantum.    *)
(*                                                                         *)
(* Inv is the inductive invariant.  TypeOK is not inductive: sched_tick    *)
(* returns the pointer saved in the task table, and that it points into a  *)
(* stack rests on what StackOwnership says of every published task.        *)
(***************************************************************************)
EXTENDS Sched, TLAPS

\* The bring-up order: until tss_init is done there is at most one task, so no
\* tick can switch, whatever sched_test left in the TSS.
BringUp ==
  /\ phase = "idt" => task_count = 0 /\ cur_task = 0
  /\ phase # "idt" => cur_task < task_count
  /\ phase # "up" => task_count <= 1 /\ adding = NotAdding

\* Every published task's interrupt stack is its own.
StacksAssigned == \A i \in Tasks : tasks[i].esp0 = i

\* A slot being filled holds a startable task, not yet counted.
Filled ==
  adding # NotAdding =>
    /\ adding = task_count
    /\ tasks[adding] = [esp |-> FirstFrame(adding), esp0 |-> adding, state |-> READY]
    /\ frame[adding] = FirstFrame(adding)

Inv ==
  /\ TypeOK
  /\ BringUp
  /\ OneRunning
  /\ StackOwnership
  /\ StacksAssigned
  /\ KernelStackOwned
  /\ Filled

-----------------------------------------------------------------------------
\* The search of sched_tick looks at published tasks only.
LEMMA CandidateInTasks ==
  ASSUME NEW c \in Nat, NEW i \in Nat, NEW n \in Nat \ {0}
  PROVE  (c + i) % n \in 0 .. n - 1
  OBVIOUS

\* Where sched_tick switches to: another published task that can run.
LEMMA SwitchTarget ==
  ASSUME TypeOK, NEW next \in Slots, Next_task(next), next # cur_task
  PROVE  next \in Tasks /\ Runnable(next)
<1>1. PICK i \in 1 .. task_count : next = Candidate(i) /\ Runnable(next)
  BY DEF Next_task
<1>2. cur_task \in Nat /\ task_count \in Nat \ {0} /\ i \in Nat
  BY <1>1, SchedAssumption DEF TypeOK, Slots
<1>3. Candidate(i) \in 0 .. task_count - 1
  BY <1>2, CandidateInTasks DEF Candidate
<1> QED  BY <1>1, <1>3 DEF Tasks

\* The statics of sched.cpp satisfy the invariant.
LEMMA InvInit == Init => Inv
<1> SUFFICES ASSUME Init PROVE Inv
  OBVIOUS
<1> USE SchedAssumption DEF Init, Slots
<1>1. TypeOK
  BY DEF TypeOK, Task, Ptr, Depths, NullPtr, FirstFrame, Esp0, NoStack, TaskState,
         DEAD, Phases, NotAdding
<1>2. BringUp /\ Filled /\ KernelStackOwned
  BY DEF BringUp, Filled, KernelStackOwned, NotAdding
<1>3. OneRunning /\ StackOwnership /\ StacksAssigned
  BY DEF OneRunning, StackOwnership, StacksAssigned, Tasks, FirstFrame
<1> QED  BY <1>1, <1>2, <1>3 DEF Inv

\* One lemma per kind of step.  The calls made during bring-up:
LEMMA InvBringUp ==
  ASSUME Inv, sched_init \/ sched_test \/ tss_init
  PROVE  Inv'
<1> USE SchedAssumption DEF Inv, Slots
<1>1. CASE sched_init
  <2> USE <1>1 DEF sched_init
  <2>1. TypeOK'
    BY DEF TypeOK, Task, NullPtr, Esp0, TaskState, RUNNING, Phases
  <2>2. (BringUp /\ Filled /\ KernelStackOwned)'
    BY DEF BringUp, Filled, KernelStackOwned
  <2>3. (OneRunning /\ StackOwnership /\ StacksAssigned)'
    BY DEF OneRunning, StackOwnership, StacksAssigned, Tasks, TypeOK, BringUp
  <2> QED  BY <2>1, <2>2, <2>3
<1>2. CASE sched_test \/ tss_init
  <2> USE <1>2 DEF sched_test, tss_init, tss_set_esp0
  <2>1. TypeOK'
    BY DEF TypeOK, Esp0, TestStack, BootStack, Phases
  <2>2. (BringUp /\ Filled)'
    BY DEF BringUp, Filled
  <2>3. KernelStackOwned'
    BY DEF KernelStackOwned, BringUp, TypeOK
  <2>4. (OneRunning /\ StackOwnership /\ StacksAssigned)'
    BY DEF OneRunning, StackOwnership, StacksAssigned, Tasks
  <2> QED  BY <2>1, <2>2, <2>3, <2>4
<1> QED  BY <1>1, <1>2

\* The two halves of sched_add_task: the slot is past the published ones while
\* it is filled, and complete when it is published.
LEMMA InvAddTask ==
  ASSUME Inv, sched_add_task \/ sched_add_task_publish
  PROVE  Inv'
<1> USE SchedAssumption DEF Inv, Slots
<1>1. CASE sched_add_task
  <2> USE <1>1 DEF sched_add_task, Has_slot
  <2>1. task_count \in Slots /\ task_count \notin Tasks /\ cur_task \in Tasks
    BY DEF TypeOK, BringUp, Tasks
  <2>2. TypeOK'
    <3>1. FirstFrame(task_count) \in Ptr
      BY <2>1 DEF Ptr, Depths, FirstFrame
    <3>2. [esp |-> FirstFrame(task_count), esp0 |-> task_count, state |-> READY] \in Task
      BY <2>1, <3>1 DEF Task, Esp0, TaskState
    <3> QED  BY <2>1, <3>1, <3>2 DEF TypeOK
  <2>3. BringUp'
    BY DEF BringUp
  <2>4. Filled'
    BY <2>1 DEF Filled, TypeOK
  <2>5. (OneRunning /\ StackOwnership /\ StacksAssigned)'
    <3>1. \A i \in Tasks : tasks'[i] = tasks[i] /\ frame'[i] = frame[i]
      BY <2>1 DEF TypeOK, Tasks
    <3> QED  BY <2>1, <3>1 DEF OneRunning, StackOwnership, StacksAssigned, Tasks
  <2>6. KernelStackOwned'
    BY DEF KernelStackOwned
  <2> QED  BY <2>2, <2>3, <2>4, <2>5, <2>6
<1>2. CASE sched_add_task_publish
  <2> USE <1>2 DEF sched_add_task_publish
  <2>1. adding = task_count /\ adding \in Slots /\ phase = "up" /\ cur_task = 0
    BY DEF Filled, TypeOK, BringUp
  <2>2. TypeOK'
    BY <2>1 DEF TypeOK, NotAdding
  <2>3. (BringUp /\ Filled)'
    BY <2>1 DEF BringUp, Filled, TypeOK
  <2>4. KernelStackOwned'
    BY DEF KernelStackOwned
  <2>5. cur_task \in Tasks /\ Tasks' = Tasks \cup {adding}
    BY <2>1 DEF Tasks, TypeOK, BringUp
  <2>6. OneRunning'
    BY <2>1, <2>5 DEF OneRunning, Filled, TypeOK, BringUp, READY, RUNNING
  <2>7. (StackOwnership /\ StacksAssigned)'
    BY <2>1, <2>5 DEF StackOwnership, StacksAssigned, Filled, FirstFrame
  <2> QED  BY <2>2, <2>3, <2>4, <2>6, <2>7
<1> QED  BY <1>1, <1>2

\* Killing touches one state and nothing else.
LEMMA InvKill ==
  ASSUME Inv, sched_kill_current \/ \E id \in Slots : sched_kill_task(id)
  PROVE  Inv'
<1> USE SchedAssumption DEF Inv, Slots
<1>1. PICK k \in Tasks : tasks' = [tasks EXCEPT ![k].state = DEAD]
  BY DEF sched_kill_current, sched_kill_task, Tasks, TypeOK, BringUp
<1>2. UNCHANGED <<task_count, cur_task, ticks_left, tss_esp0, phase, adding, cpu, frame>>
  BY DEF sched_kill_current, sched_kill_task
<1> USE <1>1, <1>2
<1>3. k \in Slots
  BY DEF Tasks, TypeOK
<1>4. TypeOK'
  BY <1>3 DEF TypeOK, Task, TaskState, DEAD
<1>5. (BringUp /\ KernelStackOwned)'
  BY DEF BringUp, KernelStackOwned
<1>6. Filled'
  BY <1>3 DEF Filled, Tasks, TypeOK
<1>7. (OneRunning /\ StackOwnership /\ StacksAssigned)'
  BY <1>3 DEF OneRunning, StackOwnership, StacksAssigned, Tasks, TypeOK, Task, DEAD, RUNNING
<1> QED  BY <1>4, <1>5, <1>6, <1>7

\* A tick: the interrupted stack is the current task's, so saving the pointer
\* to it keeps the table right, and the pointer switched to is right.
LEMMA InvTick == ASSUME Inv, Tick PROVE Inv'
<1>1. PICK depth \in Depths : sched_tick(depth)
  BY DEF Tick
<1> DEFINE cur_esp == [stack |-> cpu.stack, depth |-> depth]
           saved   == Save(cur_esp)
<1> USE SchedAssumption
<1>2. /\ \/ Keep_quantum(saved, cur_esp)
         \/ Keep_task(saved, cur_esp)
         \/ \E next \in Slots : Switch(saved, next)
      /\ frame' = [frame EXCEPT ![cpu.stack] = cur_esp]
      /\ UNCHANGED <<task_count, phase, adding>>
  BY <1>1 DEF sched_tick
<1>3. /\ TypeOK /\ BringUp /\ OneRunning /\ StackOwnership
      /\ StacksAssigned /\ KernelStackOwned /\ Filled
  BY DEF Inv
<1>4. cur_esp \in Ptr /\ cur_esp.stack = cur_task /\ cpu.stack = cur_task
  BY <1>3 DEF TypeOK, Ptr, StackOwnership
<1>5. /\ frame' \in [Slots -> Ptr]
      /\ \A i \in Slots : i # cur_task => frame'[i] = frame[i]
  BY <1>2, <1>3, <1>4 DEF TypeOK
<1>6. /\ saved \in [Slots -> Task]
      /\ saved[cur_task].state = tasks[cur_task].state
      /\ saved[cur_task].esp0 = tasks[cur_task].esp0
      /\ \A i \in Slots : i # cur_task => saved[i] = tasks[i]
  BY <1>3, <1>4 DEF Save, TypeOK, Task
<1>7. saved[cur_task].esp = cur_esp /\ frame'[cur_task] = cur_esp
  BY <1>2, <1>3, <1>4 DEF Save, TypeOK, Task
<1>8. Tasks \subseteq Slots /\ Tasks' = Tasks
  BY <1>2, <1>3 DEF Tasks, Slots, TypeOK
<1> HIDE DEF cur_esp, saved
\* Without a switch only the saved pointer of the current task changes.
<1>10. CASE Keep_quantum(saved, cur_esp) \/ Keep_task(saved, cur_esp)
  <2>1. /\ ticks_left' \in 1 .. QUANTUM_TICKS
        /\ tasks' = saved /\ cpu' = cur_esp /\ UNCHANGED <<cur_task, tss_esp0>>
    BY <1>3, <1>10 DEF Keep_quantum, Keep_task, TypeOK
  <2>2. TypeOK'
    BY <1>2, <1>3, <1>4, <1>5, <1>6, <2>1 DEF TypeOK
  <2>3. (BringUp /\ KernelStackOwned)'
    BY <1>2, <1>3, <2>1 DEF BringUp, KernelStackOwned
  <2>4. OneRunning'
    BY <1>2, <1>3, <1>6, <1>8, <2>1 DEF OneRunning
  <2>5. StackOwnership'
    BY <1>3, <1>4, <1>5, <1>6, <1>8, <2>1 DEF StackOwnership
  <2>6. StacksAssigned'
    BY <1>3, <1>6, <1>8, <2>1 DEF StacksAssigned
  <2>7. Filled'
    BY <1>2, <1>3, <1>5, <1>6, <2>1 DEF Filled, TypeOK, BringUp, NotAdding
  <2> QED  BY <2>2, <2>3, <2>4, <2>5, <2>6, <2>7 DEF Inv
\* A switch leaves the current task where it was interrupted, and goes on where
\* the next one was.
<1>11. CASE \E next \in Slots : Switch(saved, next)
  <2>1. PICK next \in Slots : Switch(saved, next)
    BY <1>11
  <2>2. next \in Tasks /\ Runnable(next) /\ next # cur_task
    BY <2>1, <1>3, SwitchTarget DEF Switch
  <2>3. /\ ticks_left' = QUANTUM_TICKS /\ cur_task' = next
        /\ tss_esp0' = saved[next].esp0 /\ cpu' = saved[next].esp
        /\ tasks' = [saved EXCEPT ![cur_task].state = READY, ![next].state = RUNNING]
    BY <2>1 DEF Switch, Mark, tss_set_esp0
  <2>4. cur_task \in Slots /\ task_count > 0 /\ phase = "up"
    BY <1>3, <2>2 DEF TypeOK, Tasks, BringUp, Slots
  <2>5. saved[next] = tasks[next] /\ saved[next].esp = frame[next] /\ frame[next].stack = next
    BY <1>3, <1>6, <2>2 DEF StackOwnership
  <2>6. cpu' \in Ptr /\ cpu'.stack = next
    BY <1>3, <2>3, <2>5 DEF TypeOK
  <2>7. tss_esp0' = next
    BY <1>3, <2>2, <2>3, <2>5 DEF StacksAssigned
  <2>8. /\ tasks' \in [Slots -> Task]
        /\ tasks'[cur_task].state = READY /\ tasks'[next].state = RUNNING
        /\ \A i \in Slots : /\ tasks'[i].esp = saved[i].esp
                            /\ tasks'[i].esp0 = saved[i].esp0
                            /\ i # cur_task /\ i # next => tasks'[i] = saved[i]
    <3>1. \A t \in Task, s \in {READY, RUNNING} :
             /\ [t EXCEPT !.state = s] \in Task
             /\ [t EXCEPT !.state = s].state = s
             /\ [t EXCEPT !.state = s].esp = t.esp
             /\ [t EXCEPT !.state = s].esp0 = t.esp0
      BY DEF Task, TaskState
    <3>2. /\ tasks'[cur_task] = [saved[cur_task] EXCEPT !.state = READY]
          /\ tasks'[next] = [saved[next] EXCEPT !.state = RUNNING]
          /\ \A i \in Slots : i # cur_task /\ i # next => tasks'[i] = saved[i]
          /\ tasks' = [i \in Slots |-> tasks'[i]]
      BY <1>6, <2>2, <2>3, <2>4
    <3>3. saved[cur_task] \in Task /\ saved[next] \in Task
      BY <1>6, <2>4
    <3>4. \A i \in Slots : tasks'[i] \in Task
      BY <1>6, <3>1, <3>2, <3>3
    <3>5. tasks' \in [Slots -> Task]
      BY <3>2, <3>4
    <3>6. /\ tasks'[cur_task].state = READY /\ tasks'[next].state = RUNNING
          /\ tasks'[cur_task].esp = saved[cur_task].esp
          /\ tasks'[cur_task].esp0 = saved[cur_task].esp0
          /\ tasks'[next].esp = saved[next].esp
          /\ tasks'[next].esp0 = saved[next].esp0
      BY <3>1, <3>2, <3>3
    <3> QED  BY <3>2, <3>5, <3>6
  <2>9. TypeOK'
    BY <1>2, <1>3, <1>5, <2>3, <2>6, <2>7, <2>8 DEF TypeOK, Esp0
  <2>10. BringUp'
    BY <1>2, <1>3, <2>2, <2>3, <2>4 DEF BringUp, Tasks, TypeOK
  <2>11. KernelStackOwned'
    BY <2>3, <2>7 DEF KernelStackOwned
  <2>12. OneRunning'
    <3>1. \A i \in Tasks : i # next => tasks'[i].state # RUNNING
      BY <1>3, <1>6, <1>8, <2>4, <2>8 DEF OneRunning, READY, RUNNING
    <3> QED  BY <1>8, <2>3, <2>8, <3>1 DEF OneRunning
  <2>13. StackOwnership'
    BY <1>3, <1>4, <1>5, <1>6, <1>7, <1>8, <2>3, <2>6, <2>8 DEF StackOwnership
  <2>14. StacksAssigned'
    BY <1>3, <1>6, <1>8, <2>8 DEF StacksAssigned
  <2>15. Filled'
    <3>1. adding # NotAdding => adding \in Slots /\ adding \notin Tasks /\ cur_task \in Tasks
      BY <1>3 DEF Filled, TypeOK, Tasks, BringUp, Slots
    <3> QED  BY <1>2, <1>3, <1>5, <1>6, <2>2, <2>8, <3>1 DEF Filled
  <2> QED  BY <2>9, <2>10, <2>11, <2>12, <2>13, <2>14, <2>15 DEF Inv
<1> QED  BY <1>2, <1>10, <1>11

\* Every step of the scheduler keeps the invariant.
LEMMA InvNext == Inv /\ [Next]_vars => Inv'
<1> SUFFICES ASSUME Inv, [Next]_vars PROVE Inv'
  OBVIOUS
<1>1. CASE Next
  BY <1>1, InvBringUp, InvAddTask, InvKill, InvTick DEF Next
<1>2. CASE UNCHANGED vars
  BY <1>2 DEF vars, Inv, TypeOK, BringUp, OneRunning, StackOwnership, StacksAssigned,
              KernelStackOwned, Filled, Tasks
<1> QED  BY <1>1, <1>2

-----------------------------------------------------------------------------
\* The invariant holds throughout.
LEMMA Invariance == Spec => []Inv
  BY InvInit, InvNext, PTL DEF Spec

\* The task table, the counters and the pointers of sched.cpp stay in range:
\* sched_tick never hands the interrupt handler anything but a kernel stack.
THEOREM TypeCorrect == Spec => []TypeOK
<1>1. Inv => TypeOK
  BY DEF Inv
<1> QED  BY <1>1, Invariance, PTL

\* At most one task is marked running, and it is the current one.
THEOREM OneRunningHolds == Spec => []OneRunning
<1>1. Inv => OneRunning
  BY DEF Inv
<1> QED  BY <1>1, Invariance, PTL

\* sched_tick always resumes a task on its own stack, where it was interrupted.
THEOREM StackOwnershipHolds == Spec => []StackOwnership
<1>1. Inv => StackOwnership
  BY DEF Inv
<1> QED  BY <1>1, Invariance, PTL

\* tss_esp0 follows the current task, whatever order ticks, kills and new tasks
\* come in.
THEOREM KernelStackOwnedHolds == Spec => []KernelStackOwned
<1>1. Inv => KernelStackOwned
  BY DEF Inv
<1> QED  BY <1>1, Invariance, PTL

\* No tick and no kill reaches the slot sched_add_task is filling.
THEOREM UnpublishedHiddenHolds == Spec => []UnpublishedHidden
<1>1. Inv => UnpublishedHidden
  BY DEF Inv, Filled, BringUp, UnpublishedHidden, TypeOK, Slots
<1> QED  BY <1>1, Invariance, PTL

\* sched_tick never picks a DEAD task, and nothing else revives one that is not
\* running when it is killed.
THEOREM KilledStaysDeadHolds == Spec => KilledStaysDead
<1> DEFINE Stays == \A i \in Tasks \ {cur_task} :
                      tasks[i].state = DEAD => tasks'[i].state = DEAD
<1>1. Inv /\ [Next]_vars => [Stays]_vars
  <2> SUFFICES ASSUME Inv, Next, NEW i \in Tasks \ {cur_task}, tasks[i].state = DEAD
               PROVE  tasks'[i].state = DEAD
    OBVIOUS
  <2> USE SchedAssumption
  <2>1. i \in Slots /\ tasks \in [Slots -> Task] /\ task_count \in Nat /\ cur_task \in Slots
    BY DEF Inv, TypeOK, Tasks, Slots
  <2>2. CASE sched_init
    BY <2>1, <2>2 DEF sched_init, Inv, BringUp, Tasks
  <2>3. CASE sched_test \/ tss_init \/ sched_add_task_publish
    BY <2>3 DEF sched_test, tss_init, sched_add_task_publish
  <2>4. CASE sched_add_task
    BY <2>1, <2>4 DEF sched_add_task, Tasks
  <2>5. CASE sched_kill_current \/ \E id \in Slots : sched_kill_task(id)
    BY <2>1, <2>5 DEF sched_kill_current, sched_kill_task, Task
  <2>6. CASE Tick
    <3>1. PICK depth \in Depths : sched_tick(depth)
      BY <2>6 DEF Tick
    <3> DEFINE cur_esp == [stack |-> cpu.stack, depth |-> depth]
               saved   == Save(cur_esp)
    <3>2. saved \in [Slots -> [esp : Ptr \cup {NullPtr, cur_esp}, esp0 : Esp0, state : TaskState]]
          /\ saved[i] = tasks[i]
      BY <2>1 DEF Save, Task
    <3>3. CASE tasks' = saved
      BY <3>2, <3>3
    <3>4. CASE \E next \in Slots : Switch(saved, next)
      <4>1. PICK next \in Slots : Switch(saved, next)
        BY <3>4
      <4>2. Runnable(next)
        BY <4>1, SwitchTarget DEF Switch, Inv
      <4>3. next # i
        BY <4>2 DEF Runnable, DEAD, READY, RUNNING
      <4>4. tasks' = [saved EXCEPT ![cur_task].state = READY, ![next].state = RUNNING]
        BY <4>1 DEF Switch, Mark
      <4> HIDE DEF saved
      <4> QED  BY <2>1, <3>2, <4>3, <4>4
    <3> QED  BY <3>1, <3>3, <3>4 DEF sched_tick, Keep_quantum, Keep_task
  <2> QED  BY <2>2, <2>3, <2>4, <2>5, <2>6 DEF Next
<1> QED  BY <1>1, Invariance, PTL DEF Spec, KilledStaysDead
=============================================================================
