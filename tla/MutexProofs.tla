------------------------------ MODULE MutexProofs ------------------------------
(***************************************************************************)
(* Proofs about Mutex, for any number of tasks and mutexes: the inductive  *)
(* invariant MInv, the safety properties the runs of Mutex check, and      *)
(* the refinement of LockSpec.                                             *)
(***************************************************************************)
EXTENDS Mutex, SchedProofs

\* A panic stops the system and changes nothing else.
LEMMA PanicInv ==
    ASSUME IInv, panic' \in Panics \ {"no tasks"},
           UNCHANGED <<schedVars, curr_task, runnable_task_list, running, pc>>
    PROVE  IInv'
  <1>0. UNCHANGED <<task_switching, periodic_task_list, free_task_list,
                    total_tasks, priority, period, alloc, new, count,
                    ticks_until_wake, reaping, cursor, curr_task,
                    runnable_task_list, running, pc>>
    BY DEF schedVars, tcbVars, newVars
  <1>1. /\ Runnable' = Runnable /\ Periodic' = Periodic /\ Ended' = Ended
        /\ Unregistered' = Unregistered
    BY <1>0 DEF Runnable, Periodic, Ended, Unregistered
  <1>2. TypeOK'
    BY <1>0 DEF IInv, TypeOK
  <1>3. ListsSound' /\ (Ended \subseteq Tasks)' /\ CurrRunnable' /\ AlwaysATask' /\ NoTaskLost'
    BY <1>0, <1>1 DEF IInv, ListsSound, CurrRunnable, task_runnable, AlwaysATask, NoTaskLost
  <1>4. ReapingInv' /\ CreatedInv' /\ ContextInv' /\ PeriodicInv' /\ BootInv'
    BY <1>0, <1>1 DEF IInv, ReapingInv, CreatedInv, ContextInv, PeriodicInv, BootInv
  <1> QED BY <1>2, <1>3, <1>4, <1>1 DEF IInv

\* The processor is passed to a task of the run list, as by a task switch.
LEMMA DispatchInv ==
    ASSUME IInv, task_switching, NEW t \in Runnable, Dispatch(t, running, pc),
           UNCHANGED <<schedVars, runnable_task_list, panic>>
    PROVE  /\ IInv'
           /\ running' = [running EXCEPT ![t] = TRUE]
           /\ pc' = pc
  <1>0. UNCHANGED <<task_switching, periodic_task_list, free_task_list,
                    total_tasks, priority, period, alloc, new, count,
                    ticks_until_wake, reaping, cursor, runnable_task_list,
                    panic>>
    BY DEF schedVars, tcbVars, newVars
  <1>1. curr_task' = t /\ running' = [running EXCEPT ![t] = TRUE] /\ t \in AllTasks
    BY ListTypes DEF Dispatch, IInv
  <1>2. pc' = pc
    <2>1. CASE running[t]
      BY <2>1 DEF Dispatch
    <2>2. CASE ~running[t]
      <3>1. pc[t] = "user" /\ pc' = [pc EXCEPT ![t] = "user"]
        BY <1>1, <2>2 DEF Dispatch, IInv, ContextInv
      <3> QED BY <3>1 DEF IInv, TypeOK, Callers
    <2> QED BY <2>1, <2>2
  <1>3. /\ runnable_task_list' \in Seq(AllTasks) /\ Runnable' = Runnable
        /\ NoDuplicates(runnable_task_list')
        /\ cursor' \in Nat /\ task_switching' = TRUE
    BY <1>0 DEF IInv, TypeOK, ListsSound, Runnable
  <1> QED BY <1>0, <1>1, <1>2, <1>3, SwitchedFacts, SwitchInv

\* Who executes a service call: an allocated task with a context, not dead.
LEMMA Caller ==
    ASSUME IInv, NEW t \in AllTasks, Thread(t)
    PROVE  /\ task_switching /\ panic = "none" /\ cursor = 0 /\ curr_task = t
           /\ t \in alloc /\ t \notin Dead /\ t # reaping /\ running[t]
           /\ t # BootTask /\ t # NoTask
  <1>1. task_switching /\ curr_task = t /\ panic = "none" /\ cursor = 0
    BY ThreadSwitching DEF Thread
  <1>2. t \in alloc /\ t \notin Ended /\ t # reaping /\ running[t]
    BY <1>1, CurrentTask
  <1> QED BY <1>1, <1>2, MutexAssumption, TasksAssumption DEF Dead

\* No task of the user is dead before it is allocated.
LEMMA DeadTasks ==
    ASSUME IInv
    PROVE  Dead \subseteq Tasks \cap alloc /\ NoTask \notin Dead /\ BootTask \notin Dead
  <1>1. reaping # NoTask => reaping \in Tasks \cap alloc
    BY DEF IInv, ReapingInv
  <1>2. Ended \subseteq Tasks \cap alloc
    BY DEF IInv, ListsSound
  <1>3. NoTask \notin Tasks /\ BootTask \notin Tasks
    BY MutexAssumption, TasksAssumption DEF AllTasks
  <1> QED BY <1>1, <1>2, <1>3 DEF Dead

-------------------------------------------------------------------------------
(* The invariant: initial states and steps of the scheduler *)

\* No mutex is held before start_sched.
LEMMA MutexInitInv == MutexInit => MInv
  <1> SUFFICES ASSUME MutexInit PROVE MInv
    OBVIOUS
  <1>1. IInv
    BY InitInv DEF MutexInit
  <1>2. MutexTypeOK
    BY <1>1 DEF MutexInit, MutexTypeOK, IInv
  <1>3. HolderInv /\ ReleasingInv
    BY TasksAssumption, MutexAssumption DEF MutexInit, Init, HolderInv, ReleasingInv
  <1>4. HeldInv /\ WaitsInv
    BY DEF MutexInit, Init, HeldInv, WaitsInv
  <1>5. DisciplineInv
    BY <1>1, DeadTasks DEF MutexInit, DisciplineInv, WaiterReal, AllTasks
  <1>6. DeadlockReal /\ panic # "held_by unset"
    BY DEF MutexInit, Init, DeadlockReal
  <1> QED BY <1>1, <1>2, <1>3, <1>4, <1>5, <1>6 DEF MInv

\* A step of the scheduler that allocates and frees nothing leaves the mutexes
\* alone; what it must not do is to end a task that waits.
LEMMA QuietInv ==
    ASSUME MInv, IInv', UNCHANGED mutexVars, UNCHANGED <<alloc, reaping>>,
           panic = "none", panic' = "none",
           task_switching' = task_switching \/ \A m \in Mutexes : ~lock[m],
           \A t \in AllTasks : wants[t] # NoMutex => t \notin Dead' /\ running'[t],
           ~Abandon => \A t \in Dead' : held[t] = {}
    PROVE  MInv'
  <1>0. UNCHANGED <<lock, held_by, waiting, held, waits_on, wants, releasing>>
    BY DEF mutexVars
  <1>1. MutexTypeOK'
    BY <1>0 DEF MInv, MutexTypeOK, IInv
  <1>2. HolderInv'
    <2>1. CASE task_switching' = task_switching
      BY <1>0, <2>1 DEF MInv, HolderInv, Stopped
    <2>2. CASE \A m \in Mutexes : ~lock[m]
      <3>1. \A m \in Mutexes : held_by[m] = NoTask
        BY <2>2 DEF MInv, HolderInv
      <3> QED BY <1>0, <2>2, <3>1, TasksAssumption, MutexAssumption DEF HolderInv
    <2> QED BY <2>1, <2>2
  <1>3. HeldInv' /\ ReleasingInv'
    BY <1>0 DEF MInv, HeldInv, ReleasingInv
  <1>4. WaitsInv'
    BY <1>0 DEF MInv, WaitsInv
  <1>5. DisciplineInv' /\ DeadlockReal' /\ (panic # "held_by unset")'
    BY <1>0 DEF MInv, DisciplineInv, DeadlockReal, WaiterReal
  <1> QED BY <1>1, <1>2, <1>3, <1>4, <1>5 DEF MInv

\* switch_task only adds a context.
LEMMA SwitchKeepsContexts ==
    ASSUME NEW isRunning \in [AllTasks -> BOOLEAN], NEW l \in Seq(AllTasks),
           switch_task(l, isRunning, pc)
    PROVE  \A t \in AllTasks : isRunning[t] => running'[t]
  <1>1. CASE running' = isRunning
    BY <1>1
  <1>2. ASSUME l # <<>>, running' = [isRunning EXCEPT ![Head(l)] = TRUE]
        PROVE  \A t \in AllTasks : isRunning[t] => running'[t]
    BY <1>2
  <1> QED BY <1>1, <1>2 DEF switch_task, Dispatch

\* An end of the current task adds at most this task to the dead ones.
LEMMA EndEffects ==
    ASSUME IInv, NEW c \in Tasks \cup {KernelTask}, NEW abort \in BOOLEAN,
           Thread(c), sched_svc_end_task(c, abort), UNCHANGED reaping
    PROVE  /\ Ended' = IF abort \/ period[c] = 0 THEN Ended \cup {c} ELSE Ended
           /\ Dead' = IF abort \/ period[c] = 0 THEN Dead \cup {c} ELSE Dead
           /\ \A t \in AllTasks : t # c /\ running[t] => running'[t]
  <1> DEFINE dies == abort \/ period[c] = 0
             isRunning == IF dies THEN running ELSE [running EXCEPT ![c] = FALSE]
             l == list_remove(runnable_task_list, c)
  <1>0. c \in AllTasks
    BY DEF AllTasks
  <1>1. l \in Seq(AllTasks)
    BY RemoveTask DEF IInv, TypeOK, ListsSound
  <1>2. /\ isRunning \in [AllTasks -> BOOLEAN]
        /\ \A t \in AllTasks : t # c => isRunning[t] = running[t]
    BY DEF IInv, TypeOK
  <1>3. switch_task(l, isRunning, pc)
    BY DEF sched_svc_end_task
  <1>4. free_task_list' = IF dies THEN <<c>> \o free_task_list ELSE free_task_list
    BY DEF sched_svc_end_task
  <1> HIDE DEF l, isRunning
  <1>5. \A t \in AllTasks : isRunning[t] => running'[t]
    BY <1>1, <1>2, <1>3, SwitchKeepsContexts
  <1>6. Ended' = IF dies THEN Ended \cup {c} ELSE Ended
    <2>1. ToSet(<<c>> \o free_task_list) = Ended \cup {c}
      BY <1>0, AddHead DEF Ended, IInv, TypeOK
    <2> QED BY <1>4, <2>1 DEF Ended
  <1> QED BY <1>2, <1>5, <1>6 DEF Dead

\* A task ends outside the loop of acquire.
LEMMA MutexEndInv ==
    ASSUME MInv, NEW c \in Tasks \cup {KernelTask}, NEW abort \in BOOLEAN,
           IInv', Thread(c), sched_svc_end_task(c, abort),
           c \in Tasks => wants[c] = NoMutex /\ (Abandon \/ held[c] = {}),
           c = KernelTask => ~abort,
           UNCHANGED mutexVars, UNCHANGED <<task_switching, alloc, reaping>>
    PROVE  MInv'
  <1>0. IInv /\ c \in AllTasks
    BY DEF MInv, AllTasks
  <1>1. panic = "none"
    BY DEF Thread
  <1>2. /\ Dead' = IF abort \/ period[c] = 0 THEN Dead \cup {c} ELSE Dead
        /\ \A t \in AllTasks : t # c /\ running[t] => running'[t]
    BY <1>0, EndEffects
  <1>3. panic' = "none"
    BY <1>1, TasksAssumption DEF sched_svc_end_task, switch_task, AlwaysATask, IInv
  <1>4. c = KernelTask => wants[c] = NoMutex /\ Dead' = Dead
    <2>1. KernelTask \notin Tasks
      BY TasksAssumption
    <2>2. c = KernelTask => c \in alloc
      BY <1>0, Caller
    <2> QED BY <1>0, <1>2, <2>1, <2>2 DEF MInv, WaitsInv, IInv, PeriodicInv
  <1>5. \A t \in AllTasks : wants[t] # NoMutex => t \notin Dead' /\ running'[t]
    BY <1>2, <1>4 DEF MInv, WaitsInv
  <1>6. ~Abandon => \A t \in Dead' : held[t] = {}
    BY <1>2, <1>4 DEF MInv, DisciplineInv
  <1> QED BY <1>1, <1>3, <1>5, <1>6, QuietInv

\* A task switch and the system tick change no mutex.
LEMMA MutexSwitchInv ==
    ASSUME MInv, [Next]_vars, UNCHANGED mutexVars,
           UNCHANGED <<alloc, reaping, free_task_list>>,
           panic = "none", panic' = "none",
           task_switching' = task_switching \/ \A m \in Mutexes : ~lock[m],
           \A t \in AllTasks : running[t] => running'[t]
    PROVE  MInv'
  <1>1. IInv'
    BY NextInv DEF MInv
  <1>2. Dead' = Dead
    BY DEF Dead, Ended
  <1> QED BY <1>1, <1>2, QuietInv DEF MInv, WaitsInv, DisciplineInv

LEMMA MutexStartInv ==
    ASSUME MInv, StartSched
    PROVE  MInv'
  <1>1. Next /\ switch_task(runnable_task_list, running, pc) /\ panic = "none"
    BY DEF StartSched, Next, start_sched, Thread
  <1>2. panic' = "none"
    <2>1. IInv'
      BY <1>1, NextInv DEF MInv
    <2> QED BY <1>1, <2>1 DEF switch_task, IInv, AlwaysATask
  <1>3. \A t \in AllTasks : running[t] => running'[t]
    BY <1>1, SwitchKeepsContexts DEF MInv, IInv, TypeOK
  <1> QED BY <1>1, <1>2, <1>3, MutexSwitchInv DEF StartSched, start_sched, newVars

LEMMA MutexYieldInv ==
    ASSUME MInv, NEW c \in Tasks, yield(c), UNCHANGED mutexVars
    PROVE  MInv'
  <1>1. Next /\ switch_task(runnable_task_list, running, pc) /\ panic = "none"
    BY DEF Next, yield, Thread
  <1>2. panic' = "none"
    <2>1. IInv'
      BY <1>1, NextInv DEF MInv
    <2> QED BY <1>1, <2>1 DEF switch_task, IInv, AlwaysATask
  <1>3. \A t \in AllTasks : running[t] => running'[t]
    BY <1>1, SwitchKeepsContexts DEF MInv, IInv, TypeOK
  <1> QED BY <1>1, <1>2, <1>3, MutexSwitchInv DEF yield, newVars

LEMMA MutexTickInv ==
    ASSUME MInv, MutexTick
    PROVE  MInv'
  <1>1. sched_system_tick /\ Next /\ UNCHANGED mutexVars /\ panic = "none"
    BY DEF MutexTick, Next, sched_system_tick, Tick, TickTask, TickSwitch
  <1>2. CASE Tick
    BY <1>1, <1>2, MutexSwitchInv DEF Tick, newVars
  <1>3. CASE TickTask
    BY <1>1, <1>3, MutexSwitchInv DEF TickTask, newVars
  <1>4. CASE TickSwitch
    <2>1. switch_task(runnable_task_list, running, pc)
      BY <1>4 DEF TickSwitch
    <2>2. panic' = "none"
      <3>1. IInv'
        BY <1>1, NextInv DEF MInv
      <3> QED BY <1>1, <2>1, <3>1 DEF switch_task, IInv, AlwaysATask
    <2>3. \A t \in AllTasks : running[t] => running'[t]
      BY <2>1, SwitchKeepsContexts DEF MInv, IInv, TypeOK
    <2> QED BY <1>1, <1>4, <2>2, <2>3, MutexSwitchInv DEF TickSwitch, newVars
  <1> QED BY <1>1, <1>2, <1>3, <1>4 DEF sched_system_tick

-------------------------------------------------------------------------------
(* Creation of tasks, and kernel_task *)

\* The effect of new_task on what the mutexes' invariant mentions: at most one
\* task is allocated, which no mutex refers to.
LEMMA NewTaskEffects ==
    ASSUME IInv, NEW c \in Tasks \cup {PreSwitch}, new_task(c)
    PROVE  /\ alloc \subseteq alloc'
           /\ \A t \in alloc : running[t] => running'[t]
           /\ panic = "none" /\ panic' \in {"none", "no memory"}
           /\ UNCHANGED <<task_switching, curr_task, free_task_list, reaping>>
  <1>1. CASE \E n \in AllTasks, p \in Priorities \cup {KernelPriority, SleepPriority},
                us \in PeriodsUs \cup {KernelUs, 0} : create_task(c, n, p, us)
    <2>1. PICK n \in AllTasks, p \in Priorities \cup {KernelPriority, SleepPriority},
               us \in PeriodsUs \cup {KernelUs, 0} : create_task(c, n, p, us)
      BY <1>1
    <2>2. n \notin alloc
      BY <2>1 DEF create_task, NewArgs
    <2> QED BY <2>1, <2>2 DEF create_task, Thread, IInv, TypeOK
  <1>2. CASE create_task_fails(c)
    BY <1>2 DEF create_task_fails, Thread, newVars
  <1>3. CASE register_task(c) \/ CountRead(c) \/ CountWrite(c)
    BY <1>3 DEF register_task, CountRead, CountWrite, Thread, newVars
  <1> QED BY <1>1, <1>2, <1>3 DEF new_task

LEMMA MutexNewTaskInv ==
    ASSUME MInv, NEW c \in Tasks \cup {PreSwitch}, NewTask(c)
    PROVE  MInv'
  <1>0. /\ IInv /\ new_task(c)
        /\ held' = [t \in AllTasks |-> IF t \in alloc' \ alloc THEN {} ELSE held[t]]
        /\ waits_on' = [t \in AllTasks |->
                           IF t \in alloc' \ alloc THEN NoMutex ELSE waits_on[t]]
        /\ UNCHANGED <<lock, held_by, waiting, wants, releasing>>
    BY DEF NewTask, task_mutex_setup, MInv
  <1>1. IInv'
    BY <1>0, NextInv DEF Next
  <1>2. /\ alloc \subseteq alloc' /\ alloc' \subseteq AllTasks
        /\ \A t \in alloc : running[t] => running'[t]
        /\ panic = "none" /\ panic' \in {"none", "no memory"}
        /\ UNCHANGED <<task_switching, curr_task, free_task_list, reaping>>
        /\ Dead' = Dead /\ Dead \subseteq alloc
    BY <1>0, <1>1, NewTaskEffects, DeadTasks DEF Dead, Ended, IInv, TypeOK
  <1>3. MutexTypeOK'
    BY <1>0, <1>1 DEF MInv, MutexTypeOK, IInv
  <1>4. HolderInv'
    BY <1>0, <1>2 DEF MInv, HolderInv, Stopped
  <1>5. HeldInv' /\ ReleasingInv'
    BY <1>0, <1>2 DEF MInv, HeldInv, ReleasingInv
  <1>6. WaitsInv'
    BY <1>0, <1>2 DEF MInv, WaitsInv
  <1>7. DisciplineInv'
    BY <1>0, <1>2 DEF MInv, DisciplineInv, WaiterReal
  <1>8. DeadlockReal' /\ (panic # "held_by unset")'
    BY <1>2 DEF DeadlockReal
  <1> QED BY <1>1, <1>3, <1>4, <1>5, <1>6, <1>7, <1>8 DEF MInv

\* kernel_task takes over what the task it pops holds.
LEMMA MutexPopInv ==
    ASSUME MInv, PopTask
    PROVE  MInv'
  <1>0. /\ IInv /\ KernelPop /\ releasing' = held[reaping']
        /\ UNCHANGED <<lock, held_by, waiting, held, waits_on, wants>>
    BY DEF PopTask, MInv
  <1>1. IInv'
    BY <1>0, NextInv DEF Next, kernel_task
  <1>2. /\ reaping = NoTask
        /\ UNCHANGED <<task_switching, alloc, running, panic, curr_task>>
        /\ panic = "none"
    BY <1>0 DEF KernelPop, newVars, Thread
  <1>3. reaping' \in Ended /\ Dead' = Dead
    <2>1. /\ free_task_list \in Seq(AllTasks) /\ free_task_list # <<>>
          /\ reaping' = Last(free_task_list) /\ free_task_list' = Front(free_task_list)
      BY <1>0 DEF KernelPop, IInv, TypeOK
    <2>2. reaping' \in Ended /\ Ended' \cup {reaping'} = Ended
      BY <2>1, PopTail DEF Ended
    <2>3. reaping' # NoTask
      BY <2>2, <1>0, ListTypes, TasksAssumption DEF IInv
    <2> QED BY <1>2, <2>2, <2>3 DEF Dead
  <1>4. reaping' \in Tasks /\ reaping' \in AllTasks /\ reaping' \in alloc /\ reaping' # NoTask
    BY <1>0, <1>3, TasksAssumption DEF IInv, ListsSound, AllTasks
  <1>5. MutexTypeOK'
    BY <1>0, <1>1, <1>4 DEF MInv, MutexTypeOK, IInv
  <1>6. HolderInv' /\ HeldInv'
    <2>1. NoTask \notin alloc
      BY <1>0, TasksAssumption DEF IInv, TypeOK
    <2> QED BY <1>0, <1>2, <2>1 DEF MInv, HolderInv, HeldInv, Stopped
  <1>7. ReleasingInv'
    <2>1. held[reaping'] \subseteq Mutexes
      BY <1>4 DEF MInv, MutexTypeOK
    <2>2. \A m \in Mutexes : m \in held[reaping'] <=> held_by[m] = reaping'
      BY <1>2, <1>4, <2>1, TasksAssumption DEF MInv, HolderInv, HeldInv, Stopped
    <2>3. releasing' = {m \in Mutexes : held_by[m] = reaping'}
      BY <1>0, <2>1, <2>2
    <2> QED BY <1>0, <1>4, <2>3 DEF ReleasingInv
  <1>8. WaitsInv'
    BY <1>0, <1>2, <1>3 DEF MInv, WaitsInv
  <1>9. DisciplineInv'
    BY <1>0, <1>3 DEF MInv, DisciplineInv, WaiterReal
  <1>10. DeadlockReal' /\ (panic # "held_by unset")'
    BY <1>2 DEF DeadlockReal
  <1> QED BY <1>1, <1>5, <1>6, <1>7, <1>8, <1>9, <1>10 DEF MInv

\* A task is freed when nothing names it as a holder.
LEMMA MutexFreeInv ==
    ASSUME MInv, FreeTask
    PROVE  MInv'
  <1>0. /\ IInv /\ KernelFree /\ releasing = {}
        /\ UNCHANGED <<lock, held_by, waiting, held, waits_on, wants, releasing>>
    BY DEF FreeTask, MInv, mutexVars
  <1>1. IInv'
    BY <1>0, NextInv DEF Next, kernel_task
  <1>2. /\ reaping \in AllTasks /\ reaping # NoTask /\ reaping' = NoTask
        /\ alloc' = alloc \ {reaping}
        /\ running' = [running EXCEPT ![reaping] = FALSE]
        /\ panic = "none" /\ UNCHANGED <<task_switching, panic, curr_task, free_task_list>>
    BY <1>0 DEF KernelFree, Thread, IInv, TypeOK
  <1>3. Dead = Ended \cup {reaping} /\ Dead' = Ended
    BY <1>2 DEF Dead, Ended
  <1>4. \A m \in Mutexes : held_by[m] # reaping
    BY <1>0, <1>2 DEF MInv, ReleasingInv
  <1>5. MutexTypeOK'
    BY <1>0, <1>1 DEF MInv, MutexTypeOK, IInv
  <1>6. HolderInv'
    BY <1>0, <1>2, <1>4 DEF MInv, HolderInv, Stopped
  <1>7. HeldInv' /\ ReleasingInv'
    <2>1. NoTask \notin alloc
      BY <1>0, TasksAssumption DEF IInv, TypeOK
    <2> QED BY <1>0, <1>2, <2>1 DEF MInv, HeldInv, ReleasingInv
  <1>8. WaitsInv'
    BY <1>0, <1>2, <1>3 DEF MInv, WaitsInv, IInv, TypeOK
  <1>9. DisciplineInv'
    BY <1>0, <1>3 DEF MInv, DisciplineInv, WaiterReal
  <1>10. DeadlockReal' /\ (panic # "held_by unset")'
    BY <1>2 DEF DeadlockReal
  <1> QED BY <1>1, <1>5, <1>6, <1>7, <1>8, <1>9, <1>10 DEF MInv

-------------------------------------------------------------------------------
(* Mutexes before task switching *)

LEMMA BootInvariant ==
    ASSUME MInv, NEW m \in Mutexes, BootAcquire(m) \/ BootRelease(m)
    PROVE  MInv'
  <1>0. /\ IInv /\ curr_task = PreSwitch /\ panic = "none"
        /\ \/ /\ lock' = [lock EXCEPT ![m] = TRUE]
              /\ held_by' = [held_by EXCEPT ![m] = BootTask]
           \/ /\ lock' = [lock EXCEPT ![m] = FALSE]
              /\ held_by' = [held_by EXCEPT ![m] = NoTask]
        /\ UNCHANGED <<vars, waiting, held, waits_on, wants, releasing>>
    BY DEF BootAcquire, BootRelease, Thread, MInv
  <1>1. UNCHANGED <<task_switching, curr_task, alloc, running, reaping,
                    free_task_list, panic>>
    BY <1>0 DEF vars
  <1>2. IInv'
    BY <1>0, NextInv
  <1>3. Dead' = Dead
    BY <1>1 DEF Dead, Ended
  <1>4. ~task_switching
    BY <1>0, CurrentTask
  <1>5. BootTask \notin AllTasks /\ NoTask \notin AllTasks /\ BootTask # NoTask
    BY MutexAssumption, TasksAssumption
  <1>6. lock \in [Mutexes -> BOOLEAN] /\ held_by \in [Mutexes -> AllTasks \cup {NoTask, BootTask}]
    BY DEF MInv, MutexTypeOK
  <1>7. \A k \in Mutexes : held_by[k] \notin AllTasks /\ held_by'[k] \notin AllTasks
    BY <1>0, <1>4, <1>5, <1>6 DEF MInv, HolderInv
  <1>8. MutexTypeOK'
    BY <1>0, <1>2, <1>6 DEF MInv, MutexTypeOK, IInv
  <1>9. HolderInv'
    BY <1>0, <1>1, <1>4, <1>5, <1>6, <1>7 DEF MInv, HolderInv
  <1>10. HeldInv'
    <2>1. alloc \subseteq AllTasks
      BY <1>0 DEF IInv, TypeOK
    <2>2. \A t \in alloc \ {reaping} : held[t] \subseteq Mutexes
      BY <2>1 DEF MInv, MutexTypeOK
    <2>3. ASSUME NEW t \in alloc \ {reaping}, NEW k \in held[t] PROVE FALSE
      <3>1. held_by[k] = t
        BY DEF MInv, HeldInv
      <3>2. t \in AllTasks /\ k \in Mutexes
        BY <2>1, <2>2
      <3> QED BY <1>7, <3>1, <3>2
    <2>4. alloc' = alloc /\ reaping' = reaping /\ held' = held
      BY <1>0, <1>1
    <2> QED BY <2>3, <2>4 DEF HeldInv
  <1>11. ReleasingInv'
    <2>1. reaping \in AllTasks \cup {NoTask}
      BY <1>0 DEF IInv, TypeOK
    <2>2. reaping # NoTask => /\ {k \in Mutexes : held_by[k] = reaping} = {}
                             /\ {k \in Mutexes : held_by'[k] = reaping} = {}
      BY <1>7, <2>1
    <2> QED BY <1>0, <1>1, <2>2 DEF MInv, ReleasingInv
  <1>12. WaitsInv'
    BY <1>0, <1>1, <1>3 DEF MInv, WaitsInv
  <1>13. DisciplineInv'
    <2>1. \A k \in Mutexes : waiting[k] # NoTask => waiting[k] \in AllTasks
      BY DEF MInv, MutexTypeOK
    <2> QED BY <1>0, <1>3, <1>7, <2>1 DEF MInv, DisciplineInv, WaiterReal
  <1>14. DeadlockReal' /\ (panic # "held_by unset")'
    BY <1>0, <1>1 DEF DeadlockReal
  <1> QED BY <1>2, <1>8, <1>9, <1>10, <1>11, <1>12, <1>13, <1>14 DEF MInv

-------------------------------------------------------------------------------
(* svc_acquire *)

\* A mutex that is free goes to the caller, and into its list if there is room.
LEMMA LocksInv ==
    ASSUME MInv, NEW t \in Tasks, NEW m \in Mutexes, Thread(t),
           wants[t] \in {NoMutex, m}, Locks(t, m)
    PROVE  MInv'
  <1> DEFINE room == Cardinality(held[t]) < HeldMax
  <1>0. /\ IInv /\ t \in AllTasks /\ ~lock[m]
        /\ lock' = [lock EXCEPT ![m] = TRUE]
        /\ held_by' = [held_by EXCEPT ![m] = t]
        /\ UNCHANGED <<schedVars, curr_task, runnable_task_list, running, pc,
                       waiting, releasing>>
        /\ \/ /\ held' = [held EXCEPT ![t] = @ \cup {m}]
              /\ waits_on' = [waits_on EXCEPT ![t] = NoMutex]
              /\ wants' = [wants EXCEPT ![t] = NoMutex]
              /\ panic' = panic
           \/ /\ panic' = "too many mutexes"
              /\ UNCHANGED <<held, waits_on, wants>>
    BY DEF Locks, MInv, AllTasks
  <1>1. /\ task_switching /\ panic = "none"
        /\ t \in alloc /\ t \notin Dead /\ t # reaping /\ t # BootTask /\ t # NoTask
    BY <1>0, Caller
  <1>2. IInv'
    <2>1. panic' \in Panics \ {"no tasks"}
      BY <1>0, <1>1 DEF Panics
    <2> QED BY <1>0, <2>1, PanicInv
  <1>3. UNCHANGED <<task_switching, curr_task, alloc, running, reaping, free_task_list>>
    BY <1>0 DEF schedVars, newVars
  <1>4. Dead' = Dead
    BY <1>3 DEF Dead, Ended
  <1>5. /\ held_by[m] = NoTask
        /\ lock \in [Mutexes -> BOOLEAN]
        /\ held_by \in [Mutexes -> AllTasks \cup {NoTask, BootTask}]
        /\ waiting \in [Mutexes -> AllTasks \cup {NoTask}]
        /\ held \in [AllTasks -> SUBSET Mutexes]
        /\ waits_on \in [AllTasks -> Mutexes \cup {NoMutex}]
        /\ wants \in [AllTasks -> Mutexes \cup {NoMutex}]
    BY <1>0 DEF MInv, MutexTypeOK, HolderInv
  <1>6. MutexTypeOK'
    <2>1. /\ lock' \in [Mutexes -> BOOLEAN]
          /\ held_by' \in [Mutexes -> AllTasks \cup {NoTask, BootTask}]
      BY <1>0, <1>5
    <2>2. held' \in [AllTasks -> SUBSET Mutexes]
      BY <1>0, <1>5, held[t] \cup {m} \in SUBSET Mutexes
    <2>3. /\ waits_on' \in [AllTasks -> Mutexes \cup {NoMutex}]
          /\ wants' \in [AllTasks -> Mutexes \cup {NoMutex}]
      BY <1>0, <1>5
    <2> QED BY <1>0, <1>2, <2>1, <2>2, <2>3 DEF MInv, MutexTypeOK, IInv
  <1>7. HolderInv'
    <2>1. /\ lock'[m] /\ held_by'[m] = t
          /\ \A k \in Mutexes : k # m => lock'[k] = lock[k] /\ held_by'[k] = held_by[k]
      BY <1>0, <1>5
    <2>2. /\ panic' = "none" => m \in held'[t]
          /\ \A u \in AllTasks : held[u] \subseteq held'[u]
      <3>1. CASE held' = held /\ panic' # "none"
        BY <3>1
      <3>2. CASE held' = [held EXCEPT ![t] = @ \cup {m}]
        BY <1>0, <1>5, <3>2
      <3> QED BY <1>0, <3>1, <3>2
    <2>3. HolderInv /\ ~Stopped
      BY <1>1 DEF MInv, Stopped
    <2> QED BY <1>1, <1>3, <2>1, <2>2, <2>3 DEF HolderInv, Stopped
  <1>8. HeldInv'
    <2>1. alloc \subseteq AllTasks
      BY <1>0 DEF IInv, TypeOK
    <2>2. \A u \in alloc \ {reaping} : u # NoTask /\ m \notin held[u]
      BY <1>5, <2>1, TasksAssumption DEF MInv, HeldInv
    <2>3. \A u \in alloc \ {reaping} : held'[u] = held[u] \/ (u = t /\ held'[u] = held[t] \cup {m})
      BY <1>0, <1>5, <2>1
    <2>4. held_by'[m] = t /\ \A k \in Mutexes : k # m => held_by'[k] = held_by[k]
      BY <1>0, <1>5
    <2>5. \A u \in alloc \ {reaping} : held[u] \subseteq Mutexes
      BY <1>5, <2>1
    <2>6. \A u \in alloc \ {reaping} : \A k \in held'[u] :
              (k \in held[u] /\ k # m) \/ (u = t /\ k = m)
      BY <2>2, <2>3
    <2>7. \A u \in alloc \ {reaping} : \A k \in held[u] : held_by[k] = u /\ k \in Mutexes
      BY <2>5 DEF MInv, HeldInv
    <2>8. \A u \in alloc \ {reaping} : \A k \in held'[u] : held_by'[k] = u
      BY <1>5, <2>3, <2>4, <2>6, <2>7
    <2> QED BY <1>3, <2>8 DEF HeldInv
  <1>9. ReleasingInv'
    BY <1>0, <1>1, <1>3, <1>5 DEF MInv, ReleasingInv
  <1>10. WaitsInv'
    BY <1>0, <1>3, <1>4, <1>5 DEF MInv, WaitsInv
  <1>11. DisciplineInv'
    <2>1. \A u \in Dead : held'[u] = held[u]
      BY <1>0, <1>1, <1>5, DeadTasks DEF AllTasks
    <2>2. ASSUME WaiterReal PROVE WaiterReal'
      <3> SUFFICES ASSUME NEW k \in Mutexes, waiting[k] # NoTask
                   PROVE  wants'[waiting[k]] = k \/ (lock'[k] /\ held_by'[k] = waiting[k])
        BY <1>0 DEF WaiterReal
      <3>1. wants[waiting[k]] = k \/ (lock[k] /\ held_by[k] = waiting[k])
        BY <2>2 DEF WaiterReal
      <3>2. CASE k # m
        <4>1. lock'[k] = lock[k] /\ held_by'[k] = held_by[k]
          BY <1>0, <1>5, <3>2
        <4>2. k # NoMutex
          BY MutexAssumption
        <4> QED BY <1>0, <1>5, <3>1, <3>2, <4>1, <4>2
      <3>3. CASE k = m
        BY <1>0, <1>5, <3>1, <3>3
      <3> QED BY <3>2, <3>3
    <2> QED BY <1>4, <2>1, <2>2 DEF MInv, DisciplineInv
  <1>12. DeadlockReal' /\ (panic # "held_by unset")'
    BY <1>0, <1>1 DEF DeadlockReal
  <1> QED BY <1>2, <1>6, <1>7, <1>8, <1>9, <1>10, <1>11, <1>12 DEF MInv

\* The panics of acquire: the deadlock is real, and there is always a holder.
LEMMA LockPanicsInv ==
    ASSUME MInv, NEW t \in Tasks, NEW m \in Mutexes, Thread(t), LockPanics(t, m)
    PROVE  MInv'
  <1>0. /\ IInv /\ t \in AllTasks /\ lock[m] /\ curr_task = t
        /\ UNCHANGED <<schedVars, curr_task, runnable_task_list, running, pc>>
        /\ UNCHANGED <<lock, held_by, waiting, held, waits_on, wants, releasing>>
    BY DEF LockPanics, MInv, AllTasks, Thread, mutexVars
  <1>1. UNCHANGED <<task_switching, curr_task, alloc, running, reaping, free_task_list>>
    BY <1>0 DEF schedVars, newVars
  <1>2. panic = "none" /\ held_by[m] # NoTask
    BY <1>0 DEF Thread, MInv, HolderInv
  <1>3. \/ panic' = "double acquire"
        \/ /\ held_by[m] \in AllTasks \ {t}
           /\ DeadlockFound(t, m)
           /\ panic' = "deadlock"
    BY <1>2 DEF LockPanics
  <1>4. IInv'
    <2>1. panic' \in Panics \ {"no tasks"}
      BY <1>3 DEF Panics
    <2> QED BY <1>0, <2>1, PanicInv
  <1>5. Dead' = Dead
    BY <1>1 DEF Dead, Ended
  <1>6. MutexTypeOK'
    BY <1>0, <1>4 DEF MInv, MutexTypeOK, IInv
  <1>7. HolderInv'
    BY <1>0, <1>1, <1>2 DEF MInv, HolderInv, Stopped
  <1>8. HeldInv' /\ ReleasingInv'
    BY <1>0, <1>1 DEF MInv, HeldInv, ReleasingInv
  <1>9. WaitsInv' /\ DisciplineInv'
    BY <1>0, <1>1, <1>5 DEF MInv, WaitsInv, DisciplineInv, WaiterReal
  <1>10. DeadlockReal'
    <2>1. CASE panic' = "deadlock"
      <3>1. held_by[m] \in Tasks /\ held_by[m] # t
        BY <1>3, <2>1 DEF MInv, HolderInv
      <3>2. wants[held_by[m]] \in held[t]
        BY <1>3, <2>1 DEF MInv, WaitsInv, DeadlockFound
      <3> QED BY <1>0, <3>1, <3>2 DEF DeadlockReal
    <2>2. CASE panic' # "deadlock"
      BY <2>2 DEF DeadlockReal
    <2> QED BY <2>1, <2>2
  <1>11. (panic # "held_by unset")'
    BY <1>3
  <1> QED BY <1>4, <1>6, <1>7, <1>8, <1>9, <1>10, <1>11 DEF MInv

\* The caller waits, and the processor goes to the holder or to any task.
LEMMA BlocksInv ==
    ASSUME MInv, NEW t \in Tasks, NEW m \in Mutexes, Thread(t), pc[t] = "user",
           wants[t] \in {NoMutex, m}, Blocks(t, m)
    PROVE  MInv'
  <1>0. /\ IInv /\ t \in AllTasks
        /\ RecordWaiter(t, m)
        /\ wants' = [wants EXCEPT ![t] = m]
        /\ SwitchToHolder(t, held_by[m])
        /\ UNCHANGED schedVars
        /\ UNCHANGED <<lock, held_by, held, releasing>>
    BY DEF Blocks, MInv, AllTasks
  <1>1. /\ task_switching /\ panic = "none"
        /\ t \in alloc /\ t \notin Dead /\ running[t] /\ t # NoTask
    BY <1>0, Caller
  <1>2. UNCHANGED <<task_switching, alloc, reaping, free_task_list>>
    BY <1>0 DEF schedVars, newVars
  <1>3. /\ IInv'
        /\ \A u \in AllTasks : running[u] => running'[u]
        /\ panic' = "none"
    <2>1. CASE switch_task(runnable_task_list, running, pc)
      <3>1. yield(t)
        BY <1>0, <2>1 DEF yield, schedVars
      <3>2. IInv'
        BY <1>0, <3>1, NextInv DEF Next
      <3>3. \A u \in AllTasks : running[u] => running'[u]
        BY <1>0, <2>1, SwitchKeepsContexts DEF IInv, TypeOK
      <3> QED BY <1>1, <2>1, <3>2, <3>3 DEF switch_task, IInv, AlwaysATask
    <2>2. CASE /\ task_runnable(held_by[m])
               /\ Dispatch(held_by[m], running, pc)
               /\ UNCHANGED <<runnable_task_list, panic>>
      <3>1. IInv' /\ running' = [running EXCEPT ![held_by[m]] = TRUE]
        BY <1>0, <1>1, <2>2, DispatchInv DEF task_runnable
      <3> QED BY <1>0, <1>1, <2>2, <3>1 DEF IInv, TypeOK
    <2> QED BY <1>0, <2>1, <2>2 DEF SwitchToHolder
  <1>4. Dead' = Dead
    BY <1>2 DEF Dead, Ended
  <1>5. /\ waiting \in [Mutexes -> AllTasks \cup {NoTask}]
        /\ waits_on \in [AllTasks -> Mutexes \cup {NoMutex}]
        /\ wants \in [AllTasks -> Mutexes \cup {NoMutex}]
        /\ held_by \in [Mutexes -> AllTasks \cup {NoTask, BootTask}]
    BY DEF MInv, MutexTypeOK
  <1>6. \/ /\ waiting' = [waiting EXCEPT ![m] = t]
           /\ waits_on' = [waits_on EXCEPT ![t] = m]
        \/ UNCHANGED <<waiting, waits_on>>
    BY <1>0 DEF RecordWaiter
  <1>7. MutexTypeOK'
    <2>1. /\ waiting' \in [Mutexes -> AllTasks \cup {NoTask}]
          /\ waits_on' \in [AllTasks -> Mutexes \cup {NoMutex}]
          /\ wants' \in [AllTasks -> Mutexes \cup {NoMutex}]
      BY <1>0, <1>5, <1>6
    <2> QED BY <1>0, <1>3, <2>1 DEF MInv, MutexTypeOK, IInv
  <1>8. HolderInv' /\ HeldInv' /\ ReleasingInv'
    BY <1>0, <1>1, <1>2, <1>3 DEF MInv, HolderInv, HeldInv, ReleasingInv, Stopped
  <1>9. WaitsInv'
    BY <1>0, <1>1, <1>2, <1>3, <1>4, <1>5, <1>6 DEF MInv, WaitsInv
  <1>10. DisciplineInv'
    <2>1. ASSUME WaiterReal PROVE WaiterReal'
      <3> SUFFICES ASSUME NEW k \in Mutexes, waiting'[k] # NoTask
                   PROVE  wants'[waiting'[k]] = k \/ (lock[k] /\ held_by[k] = waiting'[k])
        BY <1>0 DEF WaiterReal
      <3>1. CASE waiting'[k] = t /\ k = m
        BY <1>0, <1>5, <3>1
      <3>2. CASE waiting'[k] = waiting[k]
        <4>1. wants[waiting[k]] = k \/ (lock[k] /\ held_by[k] = waiting[k])
          BY <2>1, <3>2 DEF WaiterReal
        <4>2. k # NoMutex
          BY MutexAssumption
        <4> QED BY <1>0, <1>5, <3>2, <4>1, <4>2
      <3> QED BY <1>5, <1>6, <3>1, <3>2
    <2> QED BY <1>0, <1>4, <2>1 DEF MInv, DisciplineInv
  <1>11. DeadlockReal' /\ (panic # "held_by unset")'
    BY <1>3 DEF DeadlockReal
  <1> QED BY <1>3, <1>7, <1>8, <1>9, <1>10, <1>11 DEF MInv

-------------------------------------------------------------------------------
(* svc_release *)

\* A release passes the processor to a waiter of the run list, or keeps it; a
\* waiter stays recorded only if the caller outranks it.
LEMMA ReleaseEffects ==
    ASSUME MInv, NEW t \in AllTasks, NEW m \in Mutexes, Thread(t), svc_release(t, m)
    PROVE  /\ IInv' /\ panic = "none" /\ panic' = "none"
           /\ UNCHANGED <<task_switching, alloc, reaping, waits_on, wants>>
           /\ Dead' = Dead
           /\ \A u \in AllTasks : running[u] => running'[u]
           /\ waiting' \in [Mutexes -> AllTasks \cup {NoTask}]
           /\ \A k \in Mutexes : waiting'[k] \in {waiting[k], NoTask}
           /\ waiting'[m] # NoTask => task_compare(waiting[m], t) < 0
  <1> DEFINE w == waiting[m]
             passes == w # NoTask /\ task_compare(w, t) >= 0
  <1>0. /\ IInv /\ task_switching /\ panic = "none"
        /\ UNCHANGED <<schedVars, runnable_task_list, panic, waits_on, wants>>
        /\ waiting \in [Mutexes -> AllTasks \cup {NoTask}]
    BY Caller DEF svc_release, MInv, MutexTypeOK
  <1>1. UNCHANGED <<task_switching, alloc, reaping, free_task_list>>
    BY <1>0 DEF schedVars, newVars
  <1>2. Dead' = Dead
    BY <1>1 DEF Dead, Ended
  <1>3. IInv' /\ \A u \in AllTasks : running[u] => running'[u]
    <2>1. CASE passes /\ task_runnable(w)
      <3>1. Dispatch(w, running, pc) /\ w \in Runnable
        BY <2>1 DEF svc_release, task_runnable
      <3>2. IInv' /\ running' = [running EXCEPT ![w] = TRUE]
        BY <1>0, <3>1, DispatchInv
      <3> QED BY <1>0, <3>2 DEF IInv, TypeOK
    <2>2. CASE ~(passes /\ task_runnable(w))
      <3>1. UNCHANGED <<curr_task, running, pc>>
        BY <2>2 DEF svc_release
      <3>2. UNCHANGED vars
        BY <1>0, <3>1 DEF vars, schedVars, tcbVars, newVars
      <3> QED BY <1>0, <3>1, <3>2, NextInv
    <2> QED BY <2>1, <2>2
  <1>4. waiting' = IF passes THEN [waiting EXCEPT ![m] = NoTask] ELSE waiting
    BY DEF svc_release
  <1>5. task_compare(w, t) \in Int \/ w = NoTask
    <2>1. w \in AllTasks \cup {NoTask}
      BY <1>0
    <2>2. priority \in [AllTasks -> Int]
      BY <1>0, PriorityType DEF IInv
    <2> QED BY <2>1, <2>2 DEF task_compare
  <1>6. /\ waiting' \in [Mutexes -> AllTasks \cup {NoTask}]
        /\ \A k \in Mutexes : waiting'[k] \in {waiting[k], NoTask}
    BY <1>0, <1>4
  <1>7. waiting'[m] # NoTask => task_compare(w, t) < 0
    BY <1>0, <1>4, <1>5
  <1> QED BY <1>0, <1>1, <1>2, <1>3, <1>6, <1>7

\* A task releases what it holds.
LEMMA MutexReleaseInv ==
    ASSUME MInv, NEW t \in Tasks, NEW m \in Mutexes, release(t, m)
    PROVE  MInv'
  <1>0. /\ IInv /\ t \in AllTasks /\ Thread(t) /\ m \in held[t] /\ svc_release(t, m)
        /\ lock' = [lock EXCEPT ![m] = FALSE]
        /\ held_by' = [held_by EXCEPT ![m] = NoTask]
        /\ held' = [held EXCEPT ![t] = @ \ {m}]
        /\ releasing' = releasing
    BY DEF release, svc_release, MInv, AllTasks
  <1>1. t \in alloc /\ t \notin Dead /\ t # reaping /\ t # NoTask /\ t # BootTask
    BY <1>0, Caller
  <1>2. /\ IInv' /\ panic = "none" /\ panic' = "none"
        /\ UNCHANGED <<task_switching, alloc, reaping, waits_on, wants>>
        /\ Dead' = Dead
        /\ \A u \in AllTasks : running[u] => running'[u]
        /\ waiting' \in [Mutexes -> AllTasks \cup {NoTask}]
        /\ \A k \in Mutexes : waiting'[k] \in {waiting[k], NoTask}
        /\ waiting'[m] # NoTask => task_compare(waiting[m], t) < 0
    BY <1>0, ReleaseEffects
  <1>3. /\ lock \in [Mutexes -> BOOLEAN]
        /\ held_by \in [Mutexes -> AllTasks \cup {NoTask, BootTask}]
        /\ held \in [AllTasks -> SUBSET Mutexes]
        /\ alloc \subseteq AllTasks
        /\ NoTask \notin AllTasks /\ BootTask \notin AllTasks /\ BootTask # NoTask
    BY <1>0, MutexAssumption, TasksAssumption DEF MInv, MutexTypeOK, IInv, TypeOK
  <1>4. held_by[m] = t
    BY <1>0, <1>1 DEF MInv, HeldInv
  <1>5. /\ ~lock'[m] /\ held_by'[m] = NoTask
        /\ \A k \in Mutexes : k # m => lock'[k] = lock[k] /\ held_by'[k] = held_by[k]
    BY <1>0, <1>3
  <1>6. /\ \A u \in AllTasks : held'[u] \subseteq held[u]
        /\ \A u \in AllTasks : \A k \in held[u] : k # m => k \in held'[u]
        /\ m \notin held'[t]
    BY <1>0, <1>3
  <1>7. MutexTypeOK'
    <2>1. /\ lock' \in [Mutexes -> BOOLEAN]
          /\ held_by' \in [Mutexes -> AllTasks \cup {NoTask, BootTask}]
      BY <1>0, <1>3
    <2>2. held' \in [AllTasks -> SUBSET Mutexes]
      BY <1>0, <1>3, held[t] \ {m} \in SUBSET Mutexes
    <2> QED BY <1>0, <1>2, <2>1, <2>2 DEF MInv, MutexTypeOK, IInv
  <1>8. HolderInv'
    <2>1. HolderInv /\ ~Stopped
      BY <1>2 DEF MInv, Stopped
    <2> QED BY <1>2, <1>3, <1>5, <1>6, <2>1 DEF HolderInv
  <1>9. HeldInv'
    <2>1. \A u \in alloc \ {reaping} : \A k \in held[u] : held_by[k] = u /\ k \in Mutexes
      BY <1>3 DEF MInv, HeldInv
    <2>2. \A u \in alloc \ {reaping} : \A k \in held'[u] : k \in held[u] /\ k # m
      BY <1>3, <1>4, <1>6, <2>1
    <2> QED BY <1>2, <1>5, <2>1, <2>2 DEF HeldInv
  <1>10. ReleasingInv'
    <2>1. reaping # NoTask =>
             {k \in Mutexes : held_by'[k] = reaping} = {k \in Mutexes : held_by[k] = reaping}
      BY <1>1, <1>4, <1>5
    <2> QED BY <1>0, <1>2, <2>1 DEF MInv, ReleasingInv
  <1>11. WaitsInv'
    BY <1>2 DEF MInv, WaitsInv
  <1>12. DisciplineInv'
    <2>1. \A u \in Dead : held[u] = {} => held'[u] = {}
      BY <1>0, <1>6, DeadTasks DEF AllTasks
    <2>2. ASSUME WaiterReal PROVE WaiterReal'
      <3> SUFFICES ASSUME NEW k \in Mutexes, waiting'[k] # NoTask
                   PROVE  wants[waiting[k]] = k \/ (lock'[k] /\ held_by'[k] = waiting[k])
        BY <1>2 DEF WaiterReal
      <3>1. wants[waiting[k]] = k \/ (lock[k] /\ held_by[k] = waiting[k])
        BY <1>2, <2>2 DEF WaiterReal
      <3>2. CASE k # m
        BY <1>5, <3>1, <3>2
      <3>3. CASE k = m
        <4>1. waiting[m] # t
          <5>1. priority[t] \in Int /\ ~(priority[t] - priority[t] < 0)
            BY <1>0, PriorityType DEF IInv
          <5> QED BY <1>2, <3>3, <5>1 DEF task_compare
        <4> QED BY <1>4, <3>1, <3>3, <4>1
      <3> QED BY <3>2, <3>3
    <2> QED BY <1>2, <2>1, <2>2 DEF MInv, DisciplineInv
  <1>13. DeadlockReal' /\ (panic # "held_by unset")'
    BY <1>2 DEF DeadlockReal
  <1> QED BY <1>2, <1>7, <1>8, <1>9, <1>10, <1>11, <1>12, <1>13 DEF MInv

\* kernel_task releases a mutex of the task it is about to free.
LEMMA ReleaseAbandonedInv ==
    ASSUME MInv, NEW m \in Mutexes, ReleaseAbandoned(m)
    PROVE  MInv'
  <1>0. /\ IInv /\ KernelTask \in AllTasks /\ Thread(KernelTask)
        /\ m \in releasing /\ svc_release(KernelTask, m)
        /\ lock' = [lock EXCEPT ![m] = FALSE]
        /\ held_by' = [held_by EXCEPT ![m] = NoTask]
        /\ held' = [held EXCEPT ![KernelTask] = @ \ {m}]
        /\ releasing' = releasing \ {m}
    BY DEF ReleaseAbandoned, svc_release, MInv, AllTasks
  <1>1. reaping # NoTask /\ held_by[m] = reaping /\ reaping \in Tasks
    BY <1>0 DEF MInv, ReleasingInv, IInv, ReapingInv
  <1>2. /\ IInv' /\ panic = "none" /\ panic' = "none"
        /\ UNCHANGED <<task_switching, alloc, reaping, waits_on, wants>>
        /\ Dead' = Dead
        /\ \A u \in AllTasks : running[u] => running'[u]
        /\ waiting' \in [Mutexes -> AllTasks \cup {NoTask}]
    BY <1>0, ReleaseEffects
  <1>3. /\ lock \in [Mutexes -> BOOLEAN]
        /\ held_by \in [Mutexes -> AllTasks \cup {NoTask, BootTask}]
        /\ held \in [AllTasks -> SUBSET Mutexes]
        /\ alloc \subseteq AllTasks /\ KernelTask \notin Tasks
        /\ NoTask \notin AllTasks /\ BootTask \notin AllTasks /\ BootTask # NoTask
    BY <1>0, MutexAssumption, TasksAssumption DEF MInv, MutexTypeOK, IInv, TypeOK
  <1>4. /\ ~lock'[m] /\ held_by'[m] = NoTask
        /\ \A k \in Mutexes : k # m => lock'[k] = lock[k] /\ held_by'[k] = held_by[k]
    BY <1>0, <1>3
  <1>5. /\ \A u \in AllTasks : held'[u] \subseteq held[u]
        /\ \A u \in Tasks : held'[u] = held[u]
    BY <1>0, <1>3 DEF AllTasks
  <1>6. MutexTypeOK'
    <2>1. /\ lock' \in [Mutexes -> BOOLEAN]
          /\ held_by' \in [Mutexes -> AllTasks \cup {NoTask, BootTask}]
      BY <1>0, <1>3
    <2>2. held' \in [AllTasks -> SUBSET Mutexes]
      BY <1>0, <1>3, held[KernelTask] \ {m} \in SUBSET Mutexes
    <2>3. releasing' \subseteq Mutexes
      BY <1>0 DEF MInv, MutexTypeOK
    <2> QED BY <1>2, <2>1, <2>2, <2>3 DEF MInv, MutexTypeOK, IInv
  <1>7. HolderInv'
    <2>1. HolderInv /\ ~Stopped
      BY <1>2 DEF MInv, Stopped
    <2> QED BY <1>2, <1>3, <1>4, <1>5, <2>1 DEF HolderInv
  <1>8. HeldInv'
    <2>1. \A u \in alloc \ {reaping} : \A k \in held'[u] : held_by[k] = u /\ k # m /\ k \in Mutexes
      BY <1>1, <1>3, <1>5 DEF MInv, HeldInv
    <2> QED BY <1>2, <1>4, <2>1 DEF HeldInv
  <1>9. ReleasingInv'
    <2>1. releasing \ {m} = {k \in Mutexes : held_by'[k] = reaping}
      <3>1. reaping # NoTask /\ releasing = {k \in Mutexes : held_by[k] = reaping}
        BY <1>1 DEF MInv, ReleasingInv
      <3> QED BY <1>4, <3>1
    <2> QED BY <1>0, <1>1, <1>2, <2>1 DEF ReleasingInv
  <1>10. WaitsInv'
    BY <1>2 DEF MInv, WaitsInv
  <1>11. DisciplineInv'
    <2>1. m \in held[reaping] /\ reaping \in Dead
      BY <1>1, <1>2 DEF MInv, HolderInv, Stopped, AllTasks, Dead
    <2>2. Abandon
      BY <2>1 DEF MInv, DisciplineInv
    <2> QED BY <2>2 DEF DisciplineInv
  <1>12. DeadlockReal' /\ (panic # "held_by unset")'
    BY <1>2 DEF DeadlockReal
  <1> QED BY <1>2, <1>6, <1>7, <1>8, <1>9, <1>10, <1>11, <1>12 DEF MInv

-------------------------------------------------------------------------------
(* The invariant *)

\* Every step of the tasks and of kernel_task preserves the invariant.
LEMMA MutexNextInv ==
    ASSUME MInv, [MutexNext]_allVars
    PROVE  MInv'
  <1>1. ASSUME NEW c \in Tasks \cup {PreSwitch}, NewTask(c) PROVE MInv'
    BY <1>1, MutexNewTaskInv
  <1>2. ASSUME NEW m \in Mutexes, BootAcquire(m) \/ BootRelease(m) PROVE MInv'
    BY <1>2, BootInvariant
  <1>3. CASE StartSched
    BY <1>3, MutexStartInv
  <1>4. ASSUME NEW t \in Tasks, NEW m \in Mutexes, acquire(t, m) PROVE MInv'
    BY <1>4, LocksInv, LockPanicsInv, BlocksInv DEF acquire
  <1>5. ASSUME NEW t \in Tasks, NEW m \in Mutexes, release(t, m) PROVE MInv'
    BY <1>5, MutexReleaseInv
  <1>6. ASSUME NEW t \in Tasks, Yield(t) PROVE MInv'
    BY <1>6, MutexYieldInv DEF Yield
  <1>7. ASSUME NEW t \in Tasks, NEW abort \in BOOLEAN, EndTask(t, abort) PROVE MInv'
    <2>1. end_task(t, abort) /\ UNCHANGED mutexVars /\ t # KernelTask
          /\ wants[t] = NoMutex /\ (Abandon \/ held[t] = {})
      BY <1>7, TasksAssumption DEF EndTask, Free
    <2>2. IInv'
      BY <2>1, EndTaskInv DEF MInv
    <2> QED BY <2>1, <2>2, MutexEndInv DEF end_task, newVars
  <1>8. CASE MutexKernelTask
    <2>1. ASSUME NEW m \in Mutexes, ReleaseAbandoned(m) PROVE MInv'
      BY <2>1, ReleaseAbandonedInv
    <2>2. CASE KernelEnd /\ UNCHANGED mutexVars
      <3>1. IInv'
        BY <2>2, KernelEndInv DEF MInv
      <3>2. FALSE \in BOOLEAN /\ KernelTask \notin Tasks
        BY TasksAssumption
      <3> QED BY <2>2, <3>1, <3>2, MutexEndInv DEF KernelEnd, newVars
    <2> QED BY <1>8, <2>1, <2>2, MutexPopInv, MutexFreeInv DEF MutexKernelTask
  <1>9. CASE MutexTick
    BY <1>9, MutexTickInv
  <1>10. CASE UNCHANGED allVars
    <2>1. UNCHANGED vars /\ UNCHANGED mutexVars
      BY <1>10 DEF allVars
    <2>2. IInv'
      BY <2>1, NextInv DEF MInv
    <2>3. Dead' = Dead
      BY <2>1 DEF vars, Dead, Ended
    <2>4. MutexTypeOK' /\ HolderInv' /\ HeldInv' /\ ReleasingInv'
      BY <2>1, <2>2 DEF MInv, MutexTypeOK, HolderInv, HeldInv, ReleasingInv,
                        IInv, Stopped, vars, mutexVars
    <2>5. WaitsInv' /\ DisciplineInv' /\ DeadlockReal' /\ (panic # "held_by unset")'
      BY <2>1, <2>3 DEF MInv, WaitsInv, DisciplineInv, WaiterReal, DeadlockReal,
                        vars, mutexVars
    <2> QED BY <2>2, <2>4, <2>5 DEF MInv
  <1> QED BY <1>1, <1>2, <1>3, <1>4, <1>5, <1>6, <1>7, <1>8, <1>9, <1>10 DEF MutexNext

\* The invariant of scheduler and mutexes: every reachable state has it.
THEOREM MutexInvariance == MutexSpec => []MInv
  <1>1. MInv /\ [MutexNext]_allVars => MInv'
    BY MutexNextInv
  <1> QED BY MutexInitInv, <1>1, PTL DEF MutexSpec

\* What a mutex says of its holder and what the tasks list as held agree in
\* every interleaving of service calls, ends, aborts and kernel_task's releases.
THEOREM HeldStaysConsistent == MutexSpec => []HeldConsistent
  <1>1. MInv => HeldConsistent
    <2> SUFFICES ASSUME MInv PROVE HeldConsistent
      OBVIOUS
    <2>1. \A m \in Mutexes, t \in AllTasks :
             (lock[m] /\ held_by[m] = t /\ ~Stopped) => m \in held[t]
      BY DEF MInv, HolderInv
    <2>2. ASSUME NEW t \in alloc \ Dead, NEW m \in held[t]
          PROVE  lock[m] /\ held_by[m] = t
      <3>1. t \in AllTasks /\ m \in Mutexes /\ t # NoTask /\ t # reaping
        BY TasksAssumption DEF MInv, MutexTypeOK, IInv, TypeOK, Dead
      <3>2. held_by[m] = t
        BY <3>1 DEF MInv, HeldInv
      <3> QED BY <3>1, <3>2 DEF MInv, HolderInv
    <2> QED BY <2>1, <2>2 DEF MInv, HeldConsistent
  <1> QED BY MutexInvariance, <1>1, PTL

\* Where tasks release their mutexes before they end, svc_release hands over
\* to tasks that wait, or that have got the mutex since, and to no other.
THEOREM WaitersAreReal == ~Abandon => (MutexSpec => []WaiterReal)
  <1> SUFFICES ASSUME ~Abandon PROVE MutexSpec => []WaiterReal
    OBVIOUS
  <1>1. MInv => WaiterReal
    BY DEF MInv, DisciplineInv
  <1> QED BY MutexInvariance, <1>1, PTL

\* A deadlock that is reported exists, whatever the tasks do.
THEOREM DeadlocksAreReal == MutexSpec => []DeadlockReal
  <1>1. MInv => DeadlockReal
    BY DEF MInv
  <1> QED BY MutexInvariance, <1>1, PTL

\* The scheduler's guarantees are not weakened by the direct switches to
\* holders and waiters: the current task is always in the run list.
THEOREM HandOverIsRunnable == MutexSpec => [](CurrRunnable /\ ListsSound)
  <1>1. MInv => CurrRunnable /\ ListsSound
    BY DEF MInv, IInv
  <1> QED BY MutexInvariance, <1>1, PTL

-------------------------------------------------------------------------------
(* The refinement of LockSpec *)

\* A mutex that is not locked has no holder: the owner is what held_by says.
LEMMA OwnerIsHolder == MInv => Owner = held_by
  <1> SUFFICES ASSUME MInv PROVE Owner = held_by
    OBVIOUS
  <1>1. held_by \in [Mutexes -> AllTasks \cup {NoTask, BootTask}]
    BY DEF MInv, MutexTypeOK
  <1>2. \A m \in Mutexes : lock[m] <=> held_by[m] # NoTask
    BY DEF MInv, HolderInv
  <1> QED BY <1>1, <1>2 DEF Owner

LEMMA LockInit == MutexInit => Locked!Init
  <1> SUFFICES ASSUME MutexInit PROVE Locked!Init
    OBVIOUS
  <1>1. Dead = {}
    <2>1. ToSet(<<>>) = {}
      BY DEF ToSet
    <2> QED BY <2>1 DEF MutexInit, Init, Dead, Ended
  <1>2. Owner = [m \in Mutexes |-> NoTask]
    BY DEF MutexInit, Owner
  <1> QED BY <1>1, <1>2 DEF Locked!Init

\* Steps that change neither holders nor the dead.
LEMMA QuietSteps ==
    ASSUME MInv
    PROVE  /\ \A c \in Tasks \cup {PreSwitch} : NewTask(c) => UNCHANGED <<held_by, Dead>>
           /\ StartSched => UNCHANGED <<held_by, Dead>>
           /\ \A t \in Tasks : Yield(t) => UNCHANGED <<held_by, Dead>>
           /\ \A t \in Tasks, m \in Mutexes :
                 LockPanics(t, m) \/ Blocks(t, m) => UNCHANGED <<held_by, Dead>>
           /\ PopTask => UNCHANGED <<held_by, Dead>>
           /\ MutexTick => UNCHANGED <<held_by, Dead>>
           /\ UNCHANGED allVars => UNCHANGED <<held_by, Dead>>
  <1>0. IInv /\ (UNCHANGED <<free_task_list, reaping>> => UNCHANGED Dead)
    BY DEF MInv, Dead, Ended
  <1>1. ASSUME NEW c \in Tasks \cup {PreSwitch}, NewTask(c) PROVE UNCHANGED <<held_by, Dead>>
    BY <1>0, <1>1, NewTaskEffects DEF NewTask
  <1>2. StartSched => UNCHANGED <<held_by, Dead>>
    BY <1>0 DEF StartSched, start_sched, mutexVars
  <1>3. ASSUME NEW t \in Tasks, Yield(t) PROVE UNCHANGED <<held_by, Dead>>
    BY <1>0, <1>3 DEF Yield, yield, mutexVars
  <1>4. ASSUME NEW t \in Tasks, NEW m \in Mutexes, LockPanics(t, m) \/ Blocks(t, m)
        PROVE  UNCHANGED <<held_by, Dead>>
    BY <1>0, <1>4 DEF LockPanics, Blocks, schedVars, mutexVars
  <1>5. PopTask => UNCHANGED <<held_by, Dead>>
    <2> SUFFICES ASSUME PopTask PROVE UNCHANGED <<held_by, Dead>>
      OBVIOUS
    <2>1. /\ free_task_list \in Seq(AllTasks) /\ free_task_list # <<>>
          /\ reaping' = Last(free_task_list) /\ free_task_list' = Front(free_task_list)
          /\ reaping = NoTask /\ held_by' = held_by
      BY <1>0 DEF PopTask, KernelPop, IInv, TypeOK
    <2>2. reaping' \in AllTasks /\ Ended' \cup {reaping'} = Ended
      BY <2>1, PopTail DEF Ended
    <2> QED BY <2>1, <2>2, TasksAssumption DEF Dead
  <1>6. MutexTick => UNCHANGED <<held_by, Dead>>
    BY <1>0 DEF MutexTick, sched_system_tick, Tick, TickTask, TickSwitch, mutexVars
  <1>7. UNCHANGED allVars => UNCHANGED <<held_by, Dead>>
    BY <1>0 DEF allVars, vars, mutexVars
  <1> QED BY <1>1, <1>2, <1>3, <1>4, <1>5, <1>6, <1>7

\* Every step acquires a free mutex for a live task, gives one up on behalf of
\* its live owner, takes one from a dead task, ends or forgets a task, or is
\* no step of LockSpec.
LEMMA LockStep ==
    ASSUME MInv, MInv', [MutexNext]_allVars
    PROVE  [Locked!Next]_<<Owner, Dead>>
  <1>p. MInv' => (Owner = held_by)'
    BY OwnerIsHolder, PTL
  <1>0. /\ IInv /\ Owner = held_by /\ Owner' = held_by'
        /\ BootTask \notin AllTasks /\ NoTask \notin AllTasks /\ BootTask # NoTask
        /\ held_by \in [Mutexes -> AllTasks \cup {NoTask, BootTask}]
    BY <1>p, OwnerIsHolder, MutexAssumption, TasksAssumption DEF MInv, MutexTypeOK
  <1> SUFFICES ASSUME ~UNCHANGED <<held_by, Dead>>
               PROVE  Locked!Next
    BY <1>0
  <1>1. ASSUME NEW m \in Mutexes, BootAcquire(m) PROVE Locked!Next
    <2>1. /\ held_by' = [held_by EXCEPT ![m] = BootTask]
          /\ UNCHANGED vars /\ curr_task = PreSwitch
      BY <1>1 DEF BootAcquire, Thread
    <2>2. Dead' = Dead /\ BootTask \notin Dead
      BY <1>0, <2>1, DeadTasks DEF vars, Dead, Ended
    <2>3. ~task_switching
      BY <1>0, <2>1, CurrentTask
    <2>4. held_by[m] \in {NoTask, BootTask}
      BY <1>0, <2>3 DEF MInv, HolderInv
    <2>5. held_by[m] = NoTask
      BY <1>0, <2>1, <2>2, <2>4
    <2>6. Locked!Acquire(m, BootTask)
      BY <1>0, <2>1, <2>2, <2>5 DEF Locked!Acquire
    <2> QED BY <2>6 DEF Locked!Next
  <1>2. ASSUME NEW m \in Mutexes, BootRelease(m) PROVE Locked!Next
    <2>1. /\ held_by' = [held_by EXCEPT ![m] = NoTask]
          /\ UNCHANGED vars /\ curr_task = PreSwitch /\ lock[m]
      BY <1>2 DEF BootRelease, Thread
    <2>2. Dead' = Dead /\ BootTask \notin Dead
      BY <1>0, <2>1, DeadTasks DEF vars, Dead, Ended
    <2>3. ~task_switching
      BY <1>0, <2>1, CurrentTask
    <2>4. held_by[m] = BootTask
      BY <1>0, <2>1, <2>3 DEF MInv, HolderInv
    <2>5. Locked!Release(m)
      BY <1>0, <2>1, <2>2, <2>4 DEF Locked!Release
    <2> QED BY <2>5 DEF Locked!Next
  <1>3. ASSUME NEW t \in Tasks, NEW m \in Mutexes, acquire(t, m) PROVE Locked!Next
    <2>1. Locks(t, m) /\ Thread(t) /\ t \in AllTasks
      BY <1>3, QuietSteps DEF acquire, AllTasks
    <2>2. t \notin Dead
      BY <1>0, <2>1, Caller
    <2>3. /\ held_by' = [held_by EXCEPT ![m] = t] /\ Dead' = Dead
      BY <2>1 DEF Locks, schedVars, Dead, Ended
    <2>4. held_by[m] = NoTask
      BY <2>1 DEF Locks, MInv, HolderInv
    <2>5. Locked!Acquire(m, t)
      BY <1>0, <2>2, <2>3, <2>4 DEF Locked!Acquire
    <2> QED BY <2>1, <2>5 DEF Locked!Next
  <1>4. ASSUME NEW t \in Tasks, NEW m \in Mutexes, release(t, m) PROVE Locked!Next
    <2>1. Thread(t) /\ t \in AllTasks /\ m \in held[t] /\ svc_release(t, m)
      BY <1>4 DEF release, AllTasks
    <2>2. t \in alloc /\ t \notin Dead /\ t # reaping
      BY <1>0, <2>1, Caller
    <2>3. held_by[m] = t
      BY <2>1, <2>2 DEF MInv, HeldInv
    <2>4. held_by' = [held_by EXCEPT ![m] = NoTask] /\ Dead' = Dead
      BY <2>1 DEF svc_release, schedVars, Dead, Ended
    <2>5. Locked!Release(m)
      BY <1>0, <2>1, <2>2, <2>3, <2>4 DEF Locked!Release
    <2> QED BY <2>5 DEF Locked!Next
  <1>5. ASSUME NEW t \in Tasks, NEW abort \in BOOLEAN, EndTask(t, abort) PROVE Locked!Next
    <2>1. /\ Thread(t) /\ t \in AllTasks /\ sched_svc_end_task(t, abort)
          /\ UNCHANGED reaping /\ held_by' = held_by
      BY <1>5 DEF EndTask, end_task, mutexVars, AllTasks
    <2>2. t \notin Dead
      BY <1>0, <2>1, Caller
    <2>3. Dead' = Dead \cup {t}
      BY <1>0, <2>1, EndEffects
    <2>4. Locked!Die(t)
      BY <1>0, <2>1, <2>2, <2>3 DEF Locked!Die
    <2> QED BY <2>1, <2>4 DEF Locked!Next
  <1>6. ASSUME NEW m \in Mutexes, ReleaseAbandoned(m) PROVE Locked!Next
    <2>1. reaping # NoTask /\ held_by[m] = reaping
      BY <1>6 DEF ReleaseAbandoned, MInv, ReleasingInv
    <2>2. held_by' = [held_by EXCEPT ![m] = NoTask] /\ Dead' = Dead
      BY <1>6 DEF ReleaseAbandoned, svc_release, schedVars, Dead, Ended
    <2>3. Locked!Reclaim(m)
      BY <1>0, <2>1, <2>2 DEF Locked!Reclaim, Dead
    <2> QED BY <2>3 DEF Locked!Next
  <1>7. CASE FreeTask
    <2>1. /\ reaping # NoTask /\ reaping' = NoTask /\ UNCHANGED free_task_list
          /\ releasing = {} /\ held_by' = held_by
      BY <1>7 DEF FreeTask, KernelFree, mutexVars
    <2>2. reaping \in AllTasks /\ reaping \notin Ended
      BY <1>0, <2>1 DEF IInv, ReapingInv, AllTasks
    <2>3. \A m \in Mutexes : held_by[m] # reaping
      BY <2>1 DEF MInv, ReleasingInv
    <2>4. Dead = Ended \cup {reaping} /\ Dead' = Ended
      BY <2>1 DEF Dead, Ended
    <2>5. Locked!Forget(reaping)
      BY <1>0, <2>1, <2>2, <2>3, <2>4 DEF Locked!Forget
    <2> QED BY <2>2, <2>5 DEF Locked!Next
  <1>8. ~(KernelEnd /\ UNCHANGED mutexVars)
    <2> SUFFICES ASSUME KernelEnd, UNCHANGED mutexVars PROVE FALSE
      OBVIOUS
    <2>1. KernelTask \in alloc
      BY <1>0, Caller DEF KernelEnd, AllTasks
    <2>2. period[KernelTask] # 0
      BY <1>0, <2>1 DEF IInv, PeriodicInv
    <2>3. Dead' = Dead
      <3>1. FALSE \in BOOLEAN /\ UNCHANGED reaping
        BY DEF KernelEnd
      <3> QED BY <1>0, <2>2, <3>1, EndEffects DEF KernelEnd
    <2> QED BY <2>3 DEF mutexVars
  <1> QED BY <1>1, <1>2, <1>3, <1>4, <1>5, <1>6, <1>7, <1>8, QuietSteps
          DEF MutexNext, MutexKernelTask

\* The mutexes are locks: no step of any task or of kernel_task takes a mutex
\* from a live task, and no task is forgotten that a mutex still names.
THEOREM MutexesAreLocks == MutexSpec => ImplementsLock
  <1>1. MInv /\ MInv' /\ [MutexNext]_allVars => [Locked!Next]_<<Owner, Dead>>
    BY LockStep
  <1> QED BY LockInit, <1>1, MutexInvariance, PTL DEF MutexSpec, ImplementsLock, Locked!Spec

-------------------------------------------------------------------------------
(* The count of tasks *)

\* The steps that only mutexes have count no task.
LEMMA MutexCountNext ==
    ASSUME MInv, MInv', IsFiniteSet(AllTasks), Cardinality(AllTasks) < Word, ~Dynamic,
           CountedInv, [MutexNext]_allVars
    PROVE  CountedInv'
  <1>0. IInv /\ (Next \/ UNCHANGED vars => CountedInv')
    BY CountNext DEF MInv
  <1>1. ASSUME UNCHANGED <<schedVars, pc>> PROVE CountedInv'
    BY <1>1, CountUnchanged DEF schedVars, newVars
  <1>2. ASSUME NEW t \in Tasks, NEW m \in Mutexes, acquire(t, m) PROVE CountedInv'
    <2>1. CASE Locks(t, m) \/ LockPanics(t, m)
      BY <1>1, <2>1 DEF Locks, LockPanics
    <2>2. CASE Blocks(t, m)
      <3>1. t \in AllTasks /\ Thread(t) /\ pc[t] = "user" /\ SwitchToHolder(t, held_by[m])
            /\ UNCHANGED schedVars
        BY <1>2, <2>2 DEF acquire, Blocks, AllTasks
      <3>2. CASE switch_task(runnable_task_list, running, pc)
        <4>1. yield(t)
          BY <3>1, <3>2 DEF yield, schedVars
        <4> QED BY <1>0, <4>1 DEF Next
      <3>3. CASE /\ task_runnable(held_by[m])
                 /\ Dispatch(held_by[m], running, pc)
                 /\ UNCHANGED <<runnable_task_list, panic>>
        <4>1. pc' = pc
          BY <1>0, <3>1, <3>3, Caller, DispatchInv DEF task_runnable
        <4> QED BY <1>1, <3>1, <4>1
      <3> QED BY <3>1, <3>2, <3>3 DEF SwitchToHolder
    <2> QED BY <1>2, <2>1, <2>2 DEF acquire
  <1>3. ASSUME NEW t \in AllTasks, NEW m \in Mutexes, Thread(t), svc_release(t, m)
        PROVE  CountedInv'
    <2>1. task_switching /\ UNCHANGED <<schedVars, runnable_task_list, panic>>
      BY <1>0, <1>3, Caller DEF svc_release
    <2>2. pc' = pc
      <3>1. CASE pc' # pc
        <4>1. task_runnable(waiting[m]) /\ Dispatch(waiting[m], running, pc)
          BY <1>3, <3>1 DEF svc_release
        <4> QED BY <1>0, <2>1, <4>1, DispatchInv DEF task_runnable
      <3> QED BY <3>1
    <2> QED BY <1>1, <2>1, <2>2
  <1>4. CASE MutexKernelTask
    <2>1. PopTask \/ FreeTask \/ (KernelEnd /\ UNCHANGED mutexVars) => Next
      BY DEF PopTask, FreeTask, Next, kernel_task
    <2>2. ASSUME NEW m \in Mutexes, ReleaseAbandoned(m) PROVE CountedInv'
      BY <1>3, <2>2 DEF ReleaseAbandoned, AllTasks
    <2> QED BY <1>0, <1>4, <2>1, <2>2 DEF MutexKernelTask
  <1>5. ASSUME NEW t \in Tasks, NEW m \in Mutexes, release(t, m) PROVE CountedInv'
    BY <1>3, <1>5 DEF release, AllTasks
  <1>6. ASSUME NEW m \in Mutexes, BootAcquire(m) \/ BootRelease(m) PROVE CountedInv'
    <2>1. UNCHANGED vars
      BY <1>6 DEF BootAcquire, BootRelease
    <2> QED BY <1>0, <2>1
  <1>7. /\ \A c \in Tasks \cup {PreSwitch} : NewTask(c) => Next
        /\ StartSched => Next
        /\ \A t \in Tasks : Yield(t) => Next
        /\ \A t \in Tasks, abort \in BOOLEAN : EndTask(t, abort) => Next
        /\ MutexTick => Next
        /\ UNCHANGED allVars => UNCHANGED vars
    BY DEF NewTask, StartSched, Yield, EndTask, MutexTick, Next, allVars
  <1> QED BY <1>0, <1>2, <1>4, <1>5, <1>6, <1>7 DEF MutexNext

\* Where only main creates tasks, total_tasks stays exact in the presence of
\* mutexes and of the tasks they hand the processor to.
THEOREM TasksAreCountedWithMutexes ==
    ASSUME IsFiniteSet(AllTasks), Cardinality(AllTasks) < Word, ~Dynamic
    PROVE  MutexSpec => []TotalTasksExact
  <1>1. MutexInit => CountedInv
    BY CountInit DEF MutexInit
  <1>2. MInv /\ MInv' /\ CountedInv /\ [MutexNext]_allVars => CountedInv'
    BY MutexCountNext
  <1>3. MInv /\ CountedInv => TotalTasksExact
    <2> SUFFICES ASSUME MInv, CountedInv, \A c \in Callers : pc[c] = "user"
                 PROVE  total_tasks = Cardinality(Live)
      BY DEF TotalTasksExact
    <2>1. IInv
      BY DEF MInv
    <2>2. PreSwitch \in Callers /\ total_tasks \in Int
      BY <2>1 DEF Callers, IInv, TypeOK
    <2> QED BY <2>2 DEF CountedInv
  <1> QED BY <1>1, <1>2, <1>3, MutexInvariance, PTL DEF MutexSpec
================================================================================
