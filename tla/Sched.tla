-------------------------------- MODULE Sched --------------------------------
(***************************************************************************)
(* The F4OS scheduler (kernel/sched): task creation and registration, the  *)
(* run list and its round robin, the system tick that wakes the periodic   *)
(* tasks, task ends and aborts, and the kernel task that frees what ended. *)
(*                                                                         *)
(* One processor.  Service calls (SVC) and the system tick (PendSV) have   *)
(* the same priority, so a handler runs to its end before another starts;  *)
(* code in task context can be preempted by a tick between two of its      *)
(* accesses to shared memory.  An operation of task context is therefore   *)
(* one action per such access, a service call is one action, and the tick  *)
(* is the three actions Tick, TickTask and TickSwitch during which         *)
(* (cursor # 0) nothing else can happen: they are the entry, one iteration *)
(* of the loop of rtos_tick and the exit of a single handler.              *)
(*                                                                         *)
(* Stacks, register contexts and the standard streams of a task are left   *)
(* out, and so is pid, which nothing reads.                                *)
(***************************************************************************)
EXTENDS TaskList, FiniteSets

CONSTANTS
    Tasks,        \* the addresses the heap can give to a user's task_ctrl
    KernelTask,   \* the task_ctrl of kernel_task
    SleepTask,    \* the task_ctrl of sleep_task
    PreSwitch,    \* pre_switch_task, the "task" that runs start_sched
    NoTask,       \* a NULL task_ctrl *
    Priorities,   \* the priorities user tasks are created with
    PeriodsUs,    \* the periods, in microseconds, they are created with
    KernelUs,     \* the period of kernel_task, in microseconds
    TickUs,       \* tick_period_us, the length of a tick
    Word,         \* 2^32, the values of a uint32_t
    Dynamic       \* TRUE if tasks call new_task, not only main

AllTasks == Tasks \cup {KernelTask, SleepTask}

KernelPriority == 10
SleepPriority == 0

ASSUME TasksAssumption ==
    /\ KernelTask # SleepTask
    /\ KernelTask \notin Tasks
    /\ SleepTask \notin Tasks
    /\ PreSwitch \notin AllTasks
    /\ NoTask \notin AllTasks \cup {PreSwitch}

\* No user task has the priority of kernel_task or more.  With this the
\* list_pop of kernel_task, which is not atomic, cannot be interrupted by a
\* task that ends; module Reaper is the model without the assumption.
ASSUME PriorityAssumption ==
    /\ Priorities \subseteq 0..(KernelPriority - 1)

\* DIV_ROUND_UP(period_us, tick_period_us), in uint32_t arithmetic.
PeriodTicks(us) == ((us + TickUs - 1) % Word) \div TickUs

\* kernel_task is periodic.
ASSUME PeriodAssumption ==
    /\ TickUs \in Nat \ {0}
    /\ Word \in Nat \ {0}
    /\ KernelUs \in Nat
    /\ PeriodTicks(KernelUs) # 0
    /\ PeriodsUs \subseteq Nat
    /\ Dynamic \in BOOLEAN

VARIABLES
    task_switching,     \* the scheduler has been started
    curr_task,
    runnable_task_list,
    periodic_task_list,
    free_task_list,
    total_tasks,
    alloc,              \* the task_ctrl blocks that are allocated
    priority,           \* the fields of each task_ctrl
    period,
    ticks_until_wake,
    running,
    pc,                 \* where a task is in new_task or kernel_task
    new,                \* new_task's local variable task
    count,              \* the value of total_tasks that new_task has read
    reaping,            \* kernel_task's local variable task
    cursor,             \* 0, or the position of rtos_tick's loop
    panic               \* the panic_print that stopped the system

vars == <<task_switching, curr_task, runnable_task_list, periodic_task_list,
          free_task_list, total_tasks, alloc, priority, period,
          ticks_until_wake, running, pc, new, count, reaping, cursor, panic>>

tcbVars == <<priority, period>>
newVars == <<alloc, new, count>>

Callers == AllTasks \cup {PreSwitch}

Locations == {"user", "register", "read", "write"}

\* The panic_print calls of the scheduler, and those of module Mutex.
Panics == {"none", "no tasks", "no memory", "double acquire", "deadlock",
           "held_by unset", "too many mutexes"}

TypeOK ==
    /\ task_switching \in BOOLEAN
    /\ curr_task \in Callers
    /\ runnable_task_list \in Seq(AllTasks)
    /\ periodic_task_list \in Seq(AllTasks)
    /\ free_task_list \in Seq(AllTasks)
    /\ total_tasks \in 0..(Word - 1)
    /\ alloc \subseteq AllTasks
    /\ priority \in [AllTasks -> 0..KernelPriority]
    /\ period \in [AllTasks -> Nat]
    /\ ticks_until_wake \in [AllTasks -> Nat]
    /\ running \in [AllTasks -> BOOLEAN]
    /\ pc \in [Callers -> Locations]
    /\ new \in [Callers -> AllTasks \cup {NoTask}]
    /\ count \in [Callers -> 0..(Word - 1)]
    /\ reaping \in AllTasks \cup {NoTask}
    /\ cursor \in Nat
    /\ panic \in Panics

-------------------------------------------------------------------------------
\* The tasks of the lists.
Runnable == ToSet(runnable_task_list)
Periodic == ToSet(periodic_task_list)
Ended == ToSet(free_task_list)

\* task_runnable(task)
task_runnable(t) == t \in Runnable

\* The task t executes in task context: no handler is active.
Thread(t) ==
    /\ panic = "none"
    /\ cursor = 0
    /\ curr_task = t

Init ==
    /\ task_switching = FALSE
    /\ curr_task = PreSwitch
    /\ runnable_task_list = <<>>
    /\ periodic_task_list = <<>>
    /\ free_task_list = <<>>
    /\ total_tasks = 0
    /\ alloc = {}
    /\ priority = [t \in AllTasks |-> 0]
    /\ period = [t \in AllTasks |-> 0]
    /\ ticks_until_wake = [t \in AllTasks |-> 0]
    /\ running = [t \in AllTasks |-> FALSE]
    /\ pc = [t \in Callers |-> "user"]
    /\ new = [t \in Callers |-> NoTask]
    /\ count = [t \in Callers |-> 0]
    /\ reaping = NoTask
    /\ cursor = 0
    /\ panic = "none"

-------------------------------------------------------------------------------
(***************************************************************************)
(* switch_task.  The first parameter is the run list, the others the       *)
(* running flags and the program locations the caller leaves behind.       *)
(***************************************************************************)

\* The task becomes the current one; a task that is not running gets a
\* fresh context and starts at the beginning of its function.
Dispatch(t, isRunning, at) ==
    /\ curr_task' = t
    /\ running' = [isRunning EXCEPT ![t] = TRUE]
    /\ pc' = IF isRunning[t] THEN at ELSE [at EXCEPT ![t] = "user"]

\* Mutants of switch_task: the list is only read, without rotation; the task
\* selected is inserted at the tail.
SwitchWithoutRotation(list, isRunning, at) ==
    /\ list # <<>>
    /\ runnable_task_list' = list
    /\ Dispatch(Head(list), isRunning, at)
    /\ panic' = panic

SwitchToTail(list, isRunning, at) ==
    /\ list # <<>>
    /\ runnable_task_list' = insert_task(Front(list), Last(list), priority)
    /\ Dispatch(Last(list), isRunning, at)
    /\ panic' = panic

\* switch_task(NULL): the head of the run list runs and is inserted again.
switch_task(list, isRunning, at) ==
    \/ /\ list = <<>>
       /\ panic' = "no tasks"
       /\ runnable_task_list' = list
       /\ running' = isRunning
       /\ pc' = at
       /\ curr_task' = curr_task
    \/ /\ list # <<>>
       /\ runnable_task_list' = insert_task(Tail(list), Head(list), priority)
       /\ Dispatch(Head(list), isRunning, at)
       /\ panic' = panic

-------------------------------------------------------------------------------
(***************************************************************************)
(* new_task: create_task, register_task and the count of tasks.            *)
(***************************************************************************)

\* A task that may call new_task: start_sched and main before switching,
\* a user's task afterwards.
MayCreate(c) ==
    IF task_switching THEN Dynamic /\ c \in Tasks ELSE c = PreSwitch

\* The arguments of new_task: start_sched creates kernel_task, then
\* sleep_task, then main and the tasks create the user's.
NewArgs(n, p, us) ==
    IF KernelTask \notin alloc
    THEN n = KernelTask /\ p = KernelPriority /\ us = KernelUs
    ELSE IF SleepTask \notin alloc
    THEN n = SleepTask /\ p = SleepPriority /\ us = 0
    ELSE n \in Tasks \ alloc /\ p \in Priorities /\ us \in PeriodsUs

\* create_task: kmalloc gives an unused block and its fields are set.
create_task(c, n, p, us) ==
    /\ Thread(c)
    /\ MayCreate(c)
    /\ pc[c] = "user"
    /\ NewArgs(n, p, us)
    /\ alloc' = alloc \cup {n}
    /\ priority' = [priority EXCEPT ![n] = p]
    /\ period' = [period EXCEPT ![n] = PeriodTicks(us)]
    /\ ticks_until_wake' = [ticks_until_wake EXCEPT ![n] = PeriodTicks(us)]
    /\ running' = [running EXCEPT ![n] = FALSE]
    /\ new' = [new EXCEPT ![c] = n]
    /\ pc' = [pc EXCEPT ![c] = "register"]
    /\ UNCHANGED <<task_switching, curr_task, runnable_task_list,
                   periodic_task_list, free_task_list, total_tasks, count,
                   reaping, cursor, panic>>

\* create_task returns NULL: there is no memory, and new_task panics.
create_task_fails(c) ==
    /\ Thread(c)
    /\ MayCreate(c)
    /\ pc[c] = "user"
    /\ AllTasks \subseteq alloc
    /\ panic' = "no memory"
    /\ UNCHANGED <<task_switching, curr_task, runnable_task_list,
                   periodic_task_list, free_task_list, total_tasks, tcbVars,
                   newVars, ticks_until_wake, running, pc, reaping, cursor>>

\* A registration that forgets the periodic list.
RegisterRunnableOnly(n) ==
    /\ runnable_task_list' = insert_task(runnable_task_list, n, priority)
    /\ UNCHANGED periodic_task_list

\* svc_register_task(task, periodic)
svc_register_task(n) ==
    /\ runnable_task_list' = insert_task(runnable_task_list, n, priority)
    /\ periodic_task_list' = IF period[n] # 0
                             THEN insert_task(periodic_task_list, n, priority)
                             ELSE periodic_task_list

\* register_task: by a service call once tasks are switched, else directly.
register_task(c) ==
    /\ Thread(c)
    /\ pc[c] = "register"
    /\ svc_register_task(new[c])
    /\ pc' = [pc EXCEPT ![c] = "read"]
    /\ UNCHANGED <<task_switching, curr_task, free_task_list, total_tasks,
                   tcbVars, newVars, ticks_until_wake, running, reaping,
                   cursor, panic>>

\* total_tasks += 1 of new_task, the load ...
CountRead(c) ==
    /\ Thread(c)
    /\ pc[c] = "read"
    /\ count' = [count EXCEPT ![c] = total_tasks]
    /\ pc' = [pc EXCEPT ![c] = "write"]
    /\ UNCHANGED <<task_switching, curr_task, runnable_task_list,
                   periodic_task_list, free_task_list, total_tasks, tcbVars,
                   alloc, new, ticks_until_wake, running, reaping, cursor,
                   panic>>

\* ... and the store.
CountWrite(c) ==
    /\ Thread(c)
    /\ pc[c] = "write"
    /\ total_tasks' = (count[c] + 1) % Word
    /\ new' = [new EXCEPT ![c] = NoTask]
    /\ count' = [count EXCEPT ![c] = 0]
    /\ pc' = [pc EXCEPT ![c] = "user"]
    /\ UNCHANGED <<task_switching, curr_task, runnable_task_list,
                   periodic_task_list, free_task_list, tcbVars, alloc,
                   ticks_until_wake, running, reaping, cursor, panic>>

\* The end of start_sched: the first task switch starts the system tick.
start_sched ==
    /\ Thread(PreSwitch)
    /\ pc[PreSwitch] = "user"
    /\ {KernelTask, SleepTask} \subseteq alloc
    /\ task_switching' = TRUE
    /\ switch_task(runnable_task_list, running, pc)
    /\ UNCHANGED <<periodic_task_list, free_task_list, total_tasks, tcbVars,
                   newVars, ticks_until_wake, reaping, cursor>>

-------------------------------------------------------------------------------
(***************************************************************************)
(* Service calls of a user's task.                                         *)
(***************************************************************************)

\* SVC_YIELD, and task_switch(NULL)
yield(c) ==
    /\ c \in Tasks
    /\ Thread(c)
    /\ pc[c] = "user"
    /\ switch_task(runnable_task_list, running, pc)
    /\ UNCHANGED <<task_switching, periodic_task_list, free_task_list,
                   total_tasks, tcbVars, newVars, ticks_until_wake, reaping,
                   cursor>>

\* A task switch that does not test whether the task is runnable.
SwitchUnchecked(c, t) ==
    /\ c \in Tasks
    /\ Thread(c)
    /\ pc[c] = "user"
    /\ Dispatch(t, running, pc)
    /\ UNCHANGED <<task_switching, runnable_task_list, periodic_task_list,
                   free_task_list, total_tasks, tcbVars, newVars,
                   ticks_until_wake, reaping, cursor, panic>>

\* SVC_TASK_SWITCH to a given task.  One that is not runnable is refused
\* (svc_task_switch returns -1), which changes nothing.
svc_task_switch(c, t) ==
    /\ c \in Tasks
    /\ Thread(c)
    /\ pc[c] = "user"
    /\ task_runnable(t)
    /\ Dispatch(t, running, pc)
    /\ UNCHANGED <<task_switching, runnable_task_list, periodic_task_list,
                   free_task_list, total_tasks, tcbVars, newVars,
                   ticks_until_wake, reaping, cursor, panic>>

\* An end that does not count a task that aborts.
EndMiscounts(c, abort) ==
    /\ periodic_task_list' = IF abort THEN list_remove(periodic_task_list, c)
                             ELSE periodic_task_list
    /\ free_task_list' = IF abort \/ period[c] = 0 THEN <<c>> \o free_task_list
                         ELSE free_task_list
    /\ total_tasks' = IF ~abort /\ period[c] = 0 THEN (total_tasks + Word - 1) % Word
                      ELSE total_tasks
    /\ switch_task(list_remove(runnable_task_list, c),
                   [running EXCEPT ![c] = FALSE], pc)

\* sched_svc_end_task with the task's abort flag as a parameter.  A periodic
\* task that returns waits for its next period; one that aborts and one that
\* is not periodic are queued to be freed.
sched_svc_end_task(c, abort) ==
    LET dies == abort \/ period[c] = 0
    IN  /\ periodic_task_list' = IF abort /\ period[c] # 0
                                 THEN list_remove(periodic_task_list, c)
                                 ELSE periodic_task_list
        /\ free_task_list' = IF dies THEN <<c>> \o free_task_list
                             ELSE free_task_list
        /\ total_tasks' = IF dies THEN (total_tasks + Word - 1) % Word
                          ELSE total_tasks
        /\ switch_task(list_remove(runnable_task_list, c),
                       IF dies THEN running ELSE [running EXCEPT ![c] = FALSE],
                       pc)

\* A user's task returns (end_task) or calls abort.
end_task(c, abort) ==
    /\ c \in Tasks
    /\ Thread(c)
    /\ pc[c] = "user"
    /\ sched_svc_end_task(c, abort)
    /\ UNCHANGED <<task_switching, tcbVars, newVars, ticks_until_wake,
                   reaping, cursor>>

-------------------------------------------------------------------------------
(***************************************************************************)
(* kernel_task: while the free list is not empty, pop its tail and free    *)
(* the task; then return, to run again after its period.                   *)
(***************************************************************************)
KernelPop ==
    /\ Thread(KernelTask)
    /\ reaping = NoTask
    /\ free_task_list # <<>>
    /\ reaping' = Last(free_task_list)
    /\ free_task_list' = Front(free_task_list)
    /\ UNCHANGED <<task_switching, curr_task, runnable_task_list,
                   periodic_task_list, total_tasks, tcbVars, newVars,
                   ticks_until_wake, running, pc, cursor, panic>>

\* A kernel_task that forgets to free the task.
KernelLeaks ==
    /\ Thread(KernelTask)
    /\ reaping # NoTask
    /\ reaping' = NoTask
    /\ UNCHANGED <<task_switching, curr_task, runnable_task_list,
                   periodic_task_list, free_task_list, total_tasks, tcbVars,
                   newVars, ticks_until_wake, running, pc, cursor, panic>>

\* free_task(task).  The fields of a freed block have no meaning until
\* create_task sets them again; here they are zero.
KernelFree ==
    /\ Thread(KernelTask)
    /\ reaping # NoTask
    /\ alloc' = alloc \ {reaping}
    /\ priority' = [priority EXCEPT ![reaping] = 0]
    /\ period' = [period EXCEPT ![reaping] = 0]
    /\ ticks_until_wake' = [ticks_until_wake EXCEPT ![reaping] = 0]
    /\ running' = [running EXCEPT ![reaping] = FALSE]
    /\ reaping' = NoTask
    /\ UNCHANGED <<task_switching, curr_task, runnable_task_list,
                   periodic_task_list, free_task_list, total_tasks, new,
                   count, pc, cursor, panic>>

KernelEnd ==
    /\ Thread(KernelTask)
    /\ reaping = NoTask
    /\ free_task_list = <<>>
    /\ sched_svc_end_task(KernelTask, FALSE)
    /\ UNCHANGED <<task_switching, tcbVars, newVars, ticks_until_wake,
                   reaping, cursor>>

kernel_task == KernelPop \/ KernelFree \/ KernelEnd

-------------------------------------------------------------------------------
(***************************************************************************)
(* The system tick: sched_system_tick, rtos_tick and task_switch(NULL).    *)
(***************************************************************************)
Tick ==
    /\ panic = "none"
    /\ cursor = 0
    /\ task_switching
    /\ cursor' = 1
    /\ UNCHANGED <<task_switching, curr_task, runnable_task_list,
                   periodic_task_list, free_task_list, total_tasks, tcbVars,
                   newVars, ticks_until_wake, running, pc, reaping, panic>>

\* A wake-up without the test that the task is still runnable.
WakeAgain(t) ==
    runnable_task_list' = insert_task(runnable_task_list, t, priority)

\* A wake-up of the tasks that have a context only.
WakeRunningOnly(t) ==
    runnable_task_list' = IF task_runnable(t) \/ ~running[t] THEN runnable_task_list
                          ELSE insert_task(runnable_task_list, t, priority)

\* The list insertion of rtos_tick: a task that has not finished since its
\* last period edge is still in the run list and is not added again.
Wake(t) ==
    runnable_task_list' = IF task_runnable(t) THEN runnable_task_list
                          ELSE insert_task(runnable_task_list, t, priority)

\* Mutants of rtos_tick: the two tests in one condition, so that the counter
\* of a task that is still runnable goes on below zero; and a period that only
\* starts again when the task is queued.
TickOneCondition ==
    LET t == periodic_task_list[cursor]
    IN  IF ticks_until_wake[t] = 0 /\ ~task_runnable(t)
        THEN /\ Wake(t)
             /\ ticks_until_wake' = [ticks_until_wake EXCEPT ![t] = period[t]]
        ELSE /\ ticks_until_wake' = [ticks_until_wake EXCEPT ![t] = @ - 1]
             /\ UNCHANGED runnable_task_list

TickResetIfQueued ==
    LET t == periodic_task_list[cursor]
    IN  IF ticks_until_wake[t] = 0
        THEN /\ Wake(t)
             /\ ticks_until_wake' = IF task_runnable(t) THEN ticks_until_wake
                                    ELSE [ticks_until_wake EXCEPT ![t] = period[t]]
        ELSE /\ ticks_until_wake' = [ticks_until_wake EXCEPT ![t] = @ - 1]
             /\ UNCHANGED runnable_task_list

\* One iteration of rtos_tick's loop.
rtos_tick ==
    LET t == periodic_task_list[cursor]
    IN  IF ticks_until_wake[t] = 0
        THEN /\ Wake(t)
             /\ ticks_until_wake' = [ticks_until_wake EXCEPT ![t] = period[t]]
        ELSE /\ ticks_until_wake' = [ticks_until_wake EXCEPT ![t] = @ - 1]
             /\ UNCHANGED runnable_task_list

TickTask ==
    /\ panic = "none"
    /\ cursor \in 1..Len(periodic_task_list)
    /\ rtos_tick
    /\ cursor' = cursor + 1
    /\ UNCHANGED <<task_switching, curr_task, periodic_task_list,
                   free_task_list, total_tasks, tcbVars, newVars, running, pc,
                   reaping, panic>>

TickSwitch ==
    /\ panic = "none"
    /\ cursor = Len(periodic_task_list) + 1
    /\ cursor' = 0
    /\ switch_task(runnable_task_list, running, pc)
    /\ UNCHANGED <<task_switching, periodic_task_list, free_task_list,
                   total_tasks, tcbVars, newVars, ticks_until_wake, reaping>>

sched_system_tick == Tick \/ TickTask \/ TickSwitch

-------------------------------------------------------------------------------
new_task(c) ==
    \/ \E n \in AllTasks, p \in Priorities \cup {KernelPriority, SleepPriority},
          us \in PeriodsUs \cup {KernelUs, 0} : create_task(c, n, p, us)
    \/ create_task_fails(c)
    \/ register_task(c)
    \/ CountRead(c)
    \/ CountWrite(c)

Next ==
    \/ \E c \in Tasks \cup {PreSwitch} : new_task(c)
    \/ start_sched
    \/ \E c \in Tasks : yield(c)
    \/ \E c \in Tasks, t \in AllTasks : svc_task_switch(c, t)
    \/ \E c \in Tasks, abort \in BOOLEAN : end_task(c, abort)
    \/ kernel_task
    \/ sched_system_tick

Spec == Init /\ [][Next]_vars

\* The timer fires for ever and a handler that has started ends (weak
\* fairness); task context makes progress between ticks, so kernel_task and a
\* new_task that has begun go on although ticks interrupt them (strong
\* fairness); start_sched and main end.  A user's task owes nothing else.
Fairness ==
    /\ WF_vars(sched_system_tick)
    /\ SF_vars(kernel_task)
    /\ WF_vars(new_task(PreSwitch))
    /\ WF_vars(start_sched)
    /\ \A c \in Tasks : SF_vars(register_task(c) \/ CountRead(c) \/ CountWrite(c))

FairSpec == Spec /\ Fairness

-------------------------------------------------------------------------------
(***************************************************************************)
(* Properties.                                                             *)
(***************************************************************************)

\* The tasks that are created and not yet registered.
Unregistered == {new[c] : c \in {d \in Callers : pc[d] = "register"}}

\* The lists are sound: no task is linked twice into a list (rtos_tick's
\* comment: adding a task again "will corrupt the list"), a linked task is
\* allocated, and a task that waits to be freed is neither runnable nor
\* waiting for its period, so no list ever holds a freed task_ctrl.
ListsSound ==
    /\ NoDuplicates(runnable_task_list)
    /\ NoDuplicates(periodic_task_list)
    /\ NoDuplicates(free_task_list)
    /\ Runnable \cup Periodic \cup Ended \subseteq alloc
    /\ Ended \cap (Runnable \cup Periodic) = {}

\* The current task is runnable from the first switch on: no sequence of
\* ends, aborts, wake-ups and direct switches leaves the processor to a task
\* that ended, waits for its period or was freed.
CurrRunnable == task_switching => task_runnable(curr_task)

\* switch_task never finds the run list empty, since sleep_task never leaves
\* it: the panic "No tasks to run." cannot happen.
AlwaysATask == panic # "no tasks"

\* No task is lost: an allocated task is runnable, waits for its period, waits
\* to be freed, is being freed, or is not registered yet.
NoTaskLost ==
    \A t \in alloc :
        \/ t \in Runnable \cup Periodic \cup Ended
        \/ t = reaping
        \/ t \in Unregistered

(* The inductive invariant behind ListsSound, CurrRunnable, AlwaysATask and *)
(* NoTaskLost, in parts.                                                    *)

\* The task kernel_task is about to free is in no list, and is a user's.
ReapingInv ==
    reaping # NoTask =>
        reaping \in (Tasks \cap alloc) \ (Runnable \cup Periodic \cup Ended)

\* A task that is created but not registered is in no list, and only one
\* new_task has it.
CreatedInv ==
    /\ \A c \in Callers : pc[c] = "register" =>
          /\ new[c] \in alloc \ (Runnable \cup Periodic \cup Ended)
          /\ new[c] # reaping
    /\ \A c, d \in Callers :
          pc[c] = "register" /\ pc[d] = "register" /\ new[c] = new[d] => c = d

\* Only a user's task that has a context and has not ended is inside new_task,
\* so no new context discards a new_task that has begun.
ContextInv ==
    \A t \in AllTasks :
        pc[t] # "user" =>
            running[t] /\ t \in (Tasks \cap alloc) \ (Ended \cup {reaping})

\* The periodic list holds the tasks with a period, kernel_task among them,
\* from their registration until they abort.
PeriodicInv ==
    /\ \A t \in Runnable : period[t] # 0 => t \in Periodic
    /\ \A t \in Periodic : period[t] # 0
    /\ KernelTask \in alloc => period[KernelTask] # 0

\* Before the first switch nothing has ended; afterwards both tasks of
\* start_sched exist and sleep_task is runnable for ever.
BootInv ==
    IF task_switching
    THEN /\ {KernelTask, SleepTask} \subseteq alloc
         /\ SleepTask \in Runnable
         /\ running[curr_task]
         /\ pc[PreSwitch] = "user"
    ELSE /\ curr_task = PreSwitch
         /\ cursor = 0
         /\ SleepTask \in alloc => SleepTask \in Runnable \cup Unregistered
         /\ \A t \in AllTasks : ~running[t]

IInv ==
    /\ TypeOK
    /\ ListsSound
    /\ Ended \subseteq Tasks
    /\ CurrRunnable
    /\ AlwaysATask
    /\ NoTaskLost
    /\ ReapingInv
    /\ CreatedInv
    /\ ContextInv
    /\ PeriodicInv
    /\ BootInv

\* The tasks that are allocated and have not ended.
Live == alloc \ (Ended \cup {reaping})

\* total_tasks is exact whenever no new_task is about to count its task: it
\* is the number of tasks that are registered and have not ended.
TotalTasksExact ==
    (\A c \in Callers : pc[c] = "user") => total_tasks = Cardinality(Live)

\* The invariant behind TotalTasksExact where only main creates tasks: between
\* create_task and the store of new_task one task is not counted yet.
CountedInv ==
    /\ \A t \in AllTasks : pc[t] = "user"
    /\ total_tasks + (IF pc[PreSwitch] = "user" THEN 0 ELSE 1) = Cardinality(Live)
    /\ pc[PreSwitch] = "write" => count[PreSwitch] = total_tasks

\* switch_task "always runs the highest priority task": what the switch at
\* a tick, or at the end of kernel_task, selects has the highest priority of
\* the runnable tasks.
HighestPriorityRuns ==
    [][TickSwitch \/ KernelEnd =>
          \A t \in Runnable' :
              priority[t] <= priority[curr_task']]_vars

\* The invariant behind HighestPriorityRuns where user tasks have one
\* priority: the tasks of start_sched have theirs, and the run list is sorted.
OrderInv ==
    /\ KernelTask \in alloc => priority[KernelTask] = KernelPriority
    /\ SleepTask \in alloc => priority[SleepTask] = SleepPriority
    /\ \A t \in Tasks \cap alloc : priority[t] \in Priorities
    /\ Sorted(runnable_task_list, priority)

\* The system is stopped by a panic (there was no memory for a task).
Stopped == panic # "none"

\* With user tasks of one priority, every runnable one gets the processor.
RunnableRuns ==
    \A t \in Tasks : task_runnable(t) ~> (curr_task = t \/ Stopped)

\* A periodic task is queued to run again as long as it does not abort.
PeriodicRequeued ==
    \A t \in Tasks : t \in Periodic
        ~> (task_runnable(t) \/ t \notin Periodic \/ Stopped)

\* A task that ended is freed by kernel_task, and its memory can be used again.
EndedFreed ==
    \A t \in Tasks : t \in Ended ~> (t \notin alloc \/ Stopped)

\* User tasks are interchangeable.
Symmetry == Permutations(Tasks)
================================================================================
