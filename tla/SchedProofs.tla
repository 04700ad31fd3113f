------------------------------ MODULE SchedProofs ------------------------------
(***************************************************************************)
(* Proofs about Sched, for any number of tasks, any priorities below that  *)
(* of kernel_task and any periods: the inductive invariant IInv, and with  *)
(* it the safety properties that the runs of Sched check; and that a       *)
(* switch selects the highest priority where user tasks have one.          *)
(***************************************************************************)
EXTENDS Sched, FiniteSetTheorems

\* The results of uint32_t arithmetic.
LEMMA WordArithmetic ==
    /\ \A n \in Nat : n % Word \in 0..(Word - 1)
    /\ \A n \in 0..(Word - 1) : (n + Word - 1) % Word \in 0..(Word - 1)
    /\ \A us \in Nat : PeriodTicks(us) \in Nat
  <1> USE PeriodAssumption
  <1>1. \A n \in Nat : n % Word \in 0..(Word - 1)
    OBVIOUS
  <1>2. \A n \in 0..(Word - 1) : n + Word - 1 \in Nat
    OBVIOUS
  <1>3. \A us \in Nat : us + TickUs - 1 \in Nat
    OBVIOUS
  <1>4. \A n \in Nat : n \div TickUs \in Nat
    OBVIOUS
  <1> QED BY <1>1, <1>2, <1>3, <1>4 DEF PeriodTicks

\* Priorities can be compared.
LEMMA PriorityType == TypeOK => priority \in [AllTasks -> Int]
  <1>1. 0..KernelPriority \subseteq Int
    BY DEF KernelPriority
  <1> QED BY <1>1 DEF TypeOK

\* switch_task(NULL) selects an element of the list, keeps its elements and
\* gives the task selected a context; no program location changes.
LEMMA SwitchTask ==
    ASSUME TypeOK,
           NEW l \in Seq(AllTasks), NoDuplicates(l), SleepTask \in ToSet(l),
           NEW isRunning \in [AllTasks -> BOOLEAN],
           \A t \in AllTasks : ~isRunning[t] => pc[t] = "user",
           switch_task(l, isRunning, pc)
    PROVE  /\ runnable_task_list' \in Seq(AllTasks)
           /\ ToSet(runnable_task_list') = ToSet(l)
           /\ NoDuplicates(runnable_task_list')
           /\ curr_task' \in ToSet(l) /\ curr_task' \in AllTasks
           /\ running' = [isRunning EXCEPT ![curr_task'] = TRUE]
           /\ pc' = pc
           /\ panic' = panic
  <1>1. l # <<>>
    <2>1. PICK i \in 1..Len(l) : l[i] = SleepTask
      BY ToSetElements
    <2> QED BY <2>1
  <1>2. /\ runnable_task_list' = insert_task(Tail(l), Head(l), priority)
        /\ Dispatch(Head(l), isRunning, pc)
        /\ panic' = panic
    BY <1>1 DEF switch_task
  <1>3. /\ Head(l) \in ToSet(l) /\ Head(l) \in AllTasks
        /\ Tail(l) \in Seq(AllTasks)
        /\ ToSet(Tail(l)) \cup {Head(l)} = ToSet(l)
        /\ NoDuplicates(Tail(l)) /\ Head(l) \notin ToSet(Tail(l))
    BY <1>1, PopHead
  <1>4. priority \in [AllTasks -> Int]
    BY PriorityType
  <1>5. /\ runnable_task_list' \in Seq(AllTasks)
        /\ ToSet(runnable_task_list') = ToSet(l)
        /\ NoDuplicates(runnable_task_list')
    <2> DEFINE r == insert_task(Tail(l), Head(l), priority)
    <2>1. /\ r \in Seq(AllTasks)
          /\ ToSet(r) = ToSet(Tail(l)) \cup {Head(l)}
          /\ NoDuplicates(Tail(l)) /\ Head(l) \notin ToSet(Tail(l)) => NoDuplicates(r)
      BY <1>3, <1>4, InsertTask
    <2> QED BY <1>2, <1>3, <2>1
  <1>6. pc' = pc
    <2>1. CASE isRunning[Head(l)]
      BY <1>2, <2>1 DEF Dispatch
    <2>2. CASE ~isRunning[Head(l)]
      <3>1. pc[Head(l)] = "user" /\ pc' = [pc EXCEPT ![Head(l)] = "user"]
        BY <1>2, <1>3, <2>2 DEF Dispatch
      <3> QED BY <1>3, <3>1 DEF TypeOK, Callers
    <2> QED BY <2>1, <2>2
  <1> QED BY <1>2, <1>3, <1>5, <1>6 DEF Dispatch

\* The invariant holds before start_sched.
LEMMA InitInv == Init => IInv
  <1> SUFFICES ASSUME Init PROVE IInv
    OBVIOUS
  <1>1. ToSet(<<>>) = {} /\ Len(<<>>) = 0
    BY DEF ToSet
  <1>2. TypeOK
    <2>1. 0 \in 0..(Word - 1) /\ 0 \in 0..KernelPriority
      BY PeriodAssumption DEF KernelPriority
    <2>2. PreSwitch \in Callers /\ "user" \in Locations /\ "none" \in Panics
      BY DEF Callers, Locations, Panics
    <2>3. <<>> \in Seq(AllTasks)
      OBVIOUS
    <2> QED BY <2>1, <2>2, <2>3 DEF Init, TypeOK
  <1>3. /\ Runnable = {} /\ Periodic = {} /\ Ended = {}
    BY <1>1 DEF Init, Runnable, Periodic, Ended
  <1>4. ListsSound
    BY <1>1, <1>3 DEF Init, ListsSound, NoDuplicates
  <1>5. CurrRunnable /\ AlwaysATask /\ NoTaskLost
    BY DEF Init, CurrRunnable, AlwaysATask, NoTaskLost
  <1>6. ReapingInv /\ CreatedInv /\ ContextInv /\ PeriodicInv /\ BootInv
    BY <1>3 DEF Init, ReapingInv, CreatedInv, ContextInv, PeriodicInv, BootInv,
                Callers
  <1> QED BY <1>2, <1>3, <1>4, <1>5, <1>6 DEF IInv

\* A linked task is a task; the current one, once tasks are switched, has a
\* context, is allocated and has not ended.
LEMMA ListTypes ==
    TypeOK => /\ Runnable \subseteq AllTasks
              /\ Periodic \subseteq AllTasks
              /\ Ended \subseteq AllTasks
  BY ToSetElements DEF TypeOK, Runnable, Periodic, Ended

\* The current task, once tasks are switched, is a linked task with a context.
LEMMA CurrentTask ==
    ASSUME IInv, task_switching
    PROVE  /\ curr_task \in Runnable /\ curr_task \in AllTasks
           /\ curr_task \in alloc /\ curr_task \notin Ended
           /\ curr_task # reaping /\ curr_task # PreSwitch
           /\ running[curr_task]
  <1>1. curr_task \in Runnable /\ curr_task \in AllTasks
    BY ListTypes DEF IInv, CurrRunnable, task_runnable
  <1>2. reaping # NoTask => reaping \notin Runnable
    BY DEF IInv, ReapingInv
  <1>3. curr_task # NoTask /\ curr_task # PreSwitch
    BY <1>1, TasksAssumption
  <1> QED BY <1>1, <1>2, <1>3 DEF IInv, ListsSound, BootInv

\* Before that, only start_sched and main are inside new_task.
LEMMA BeforeSwitching ==
    ASSUME IInv, ~task_switching
    PROVE  /\ curr_task = PreSwitch /\ cursor = 0
           /\ \A t \in AllTasks : pc[t] = "user" /\ ~running[t]
  BY DEF IInv, BootInv, ContextInv

-------------------------------------------------------------------------------
(* new_task *)

\* create_task takes a task structure that nothing refers to and starts its new_task.
LEMMA CreateTaskInv ==
    ASSUME IInv, NEW c \in Callers, NEW n \in AllTasks,
           NEW p \in Priorities \cup {KernelPriority, SleepPriority},
           NEW us \in PeriodsUs \cup {KernelUs, 0}, create_task(c, n, p, us)
    PROVE  IInv'
  <1>0. /\ Runnable' = Runnable /\ Periodic' = Periodic /\ Ended' = Ended
        /\ n \notin alloc /\ n # NoTask
        /\ Runnable \subseteq alloc /\ Periodic \subseteq alloc /\ Ended \subseteq alloc
    BY TasksAssumption DEF create_task, NewArgs, Runnable, Periodic, Ended, IInv, ListsSound
  <1>1. TypeOK'
    <2>1. us \in Nat /\ p \in 0..KernelPriority
      BY PeriodAssumption, PriorityAssumption DEF KernelPriority, SleepPriority
    <2>2. PeriodTicks(us) \in Nat
      BY <2>1, WordArithmetic
    <2> QED BY <2>1, <2>2 DEF IInv, TypeOK, create_task, Locations
  <1>2. ListsSound' /\ (Ended \subseteq Tasks)' /\ CurrRunnable' /\ AlwaysATask'
    BY <1>0 DEF IInv, ListsSound, CurrRunnable, task_runnable, AlwaysATask, create_task
  <1>3. \A t \in Unregistered \cup {n} : t \in Unregistered'
    BY DEF IInv, TypeOK, create_task, Unregistered
  <1>4. NoTaskLost'
    BY <1>0, <1>3 DEF IInv, NoTaskLost, create_task
  <1>5. ReapingInv'
    BY <1>0 DEF IInv, ReapingInv, create_task
  <1>6. CreatedInv'
    <2>1. n # reaping
      BY <1>0 DEF IInv, ReapingInv
    <2>2. pc' = [pc EXCEPT ![c] = "register"] /\ new' = [new EXCEPT ![c] = n]
          /\ alloc' = alloc \cup {n} /\ reaping' = reaping
      BY DEF create_task
    <2> QED BY <1>0, <2>1, <2>2 DEF IInv, TypeOK, CreatedInv
  <1>7. ContextInv'
    <2>1. pc[n] = "user" /\ c # n
      BY <1>0, TasksAssumption, CurrentTask
         DEF IInv, ContextInv, create_task, Thread, MayCreate
    <2>2. c \in AllTasks => /\ task_switching /\ c \in Tasks
      BY TasksAssumption DEF create_task, MayCreate
    <2>3. c \in AllTasks => running[c] /\ c \in (Tasks \cap alloc) \ (Ended \cup {reaping})
      BY <2>2, CurrentTask DEF create_task, Thread
    <2>4. /\ pc' = [pc EXCEPT ![c] = "register"]
          /\ running' = [running EXCEPT ![n] = FALSE]
          /\ alloc' = alloc \cup {n} /\ reaping' = reaping
      BY DEF create_task
    <2> QED BY <1>0, <2>1, <2>3, <2>4 DEF IInv, TypeOK, ContextInv, Callers
  <1>8. PeriodicInv'
    <2>1. n = KernelTask => PeriodTicks(us) # 0
      BY PeriodAssumption, TasksAssumption DEF create_task, NewArgs
    <2> QED BY <1>0, <2>1 DEF IInv, TypeOK, PeriodicInv, create_task
  <1>9. BootInv'
    <2>1. CASE task_switching
      <3>1. c = curr_task /\ c \in alloc /\ c # PreSwitch
        BY <2>1, CurrentTask DEF create_task, Thread
      <3> QED BY <1>0, <2>1, <3>1 DEF IInv, TypeOK, BootInv, create_task, Callers, AllTasks
    <2>2. CASE ~task_switching
      BY <1>0, <1>3, <2>2 DEF IInv, TypeOK, BootInv, create_task
    <2> QED BY <2>1, <2>2
  <1> QED BY <1>1, <1>2, <1>4, <1>5, <1>6, <1>7, <1>8, <1>9 DEF IInv

\* A new_task that gets no memory changes no list.
LEMMA CreateFailsInv ==
    ASSUME IInv, NEW c \in Callers, create_task_fails(c)
    PROVE  IInv'
  <1>0. /\ Runnable' = Runnable /\ Periodic' = Periodic /\ Ended' = Ended
        /\ Unregistered' = Unregistered
    BY DEF create_task_fails, Runnable, Periodic, Ended, Unregistered, newVars
  <1>1. TypeOK'
    BY DEF IInv, TypeOK, create_task_fails, tcbVars, newVars, Panics
  <1>2. ListsSound' /\ (Ended \subseteq Tasks)' /\ CurrRunnable' /\ AlwaysATask' /\ NoTaskLost'
    BY <1>0 DEF IInv, ListsSound, CurrRunnable, task_runnable, AlwaysATask,
                NoTaskLost, create_task_fails, newVars
  <1>3. ReapingInv' /\ CreatedInv' /\ ContextInv' /\ PeriodicInv' /\ BootInv'
    BY <1>0 DEF IInv, ReapingInv, CreatedInv, ContextInv, PeriodicInv, BootInv,
                create_task_fails, newVars, tcbVars
  <1> QED BY <1>1, <1>2, <1>3 DEF IInv

\* register_task links the new task where its period says, and nowhere else.
LEMMA RegisterInv ==
    ASSUME IInv, NEW c \in Callers, register_task(c)
    PROVE  IInv'
  <1> DEFINE n == new[c]
  <1>0. /\ n \in alloc /\ n \in AllTasks /\ n # reaping
        /\ n \notin Runnable /\ n \notin Periodic /\ n \notin Ended
        /\ pc' = [pc EXCEPT ![c] = "read"]
        /\ pc[c] = "register"
        /\ UNCHANGED <<task_switching, curr_task, free_task_list, total_tasks,
                       priority, period, alloc, new, count, ticks_until_wake,
                       running, reaping, cursor, panic>>
    BY DEF IInv, CreatedInv, TypeOK, register_task, tcbVars, newVars
  <1> HIDE DEF n
  <1>1. priority \in [AllTasks -> Int]
    BY PriorityType DEF IInv
  <1>2. /\ runnable_task_list' \in Seq(AllTasks)
        /\ Runnable' = Runnable \cup {n}
        /\ NoDuplicates(runnable_task_list')
    <2>1. runnable_task_list' = insert_task(runnable_task_list, n, priority)
      BY DEF register_task, svc_register_task, n
    <2>2. runnable_task_list \in Seq(AllTasks) /\ NoDuplicates(runnable_task_list)
      BY DEF IInv, TypeOK, ListsSound
    <2>3. /\ insert_task(runnable_task_list, n, priority) \in Seq(AllTasks)
          /\ ToSet(insert_task(runnable_task_list, n, priority)) = Runnable \cup {n}
          /\ NoDuplicates(insert_task(runnable_task_list, n, priority))
      BY <1>0, <1>1, <2>2, InsertTask DEF Runnable
    <2> QED BY <2>1, <2>2, <2>3 DEF Runnable
  <1>3. /\ periodic_task_list' \in Seq(AllTasks)
        /\ Periodic' = IF period[n] # 0 THEN Periodic \cup {n} ELSE Periodic
        /\ NoDuplicates(periodic_task_list')
    <2>1. periodic_task_list' = IF period[n] # 0
                                THEN insert_task(periodic_task_list, n, priority)
                                ELSE periodic_task_list
      BY DEF register_task, svc_register_task, n
    <2>2. periodic_task_list \in Seq(AllTasks) /\ NoDuplicates(periodic_task_list)
      BY DEF IInv, TypeOK, ListsSound
    <2>3. /\ insert_task(periodic_task_list, n, priority) \in Seq(AllTasks)
          /\ ToSet(insert_task(periodic_task_list, n, priority)) = Periodic \cup {n}
          /\ NoDuplicates(insert_task(periodic_task_list, n, priority))
      BY <1>0, <1>1, <2>2, InsertTask DEF Periodic
    <2> QED BY <2>1, <2>2, <2>3 DEF Periodic
  <1>4. Ended' = Ended
    BY <1>0 DEF Ended
  <1>5. TypeOK'
    BY <1>0, <1>2, <1>3 DEF IInv, TypeOK, Locations
  <1>6. ListsSound' /\ (Ended \subseteq Tasks)' /\ CurrRunnable' /\ AlwaysATask'
    BY <1>0, <1>2, <1>3, <1>4
       DEF IInv, ListsSound, CurrRunnable, task_runnable, AlwaysATask
  <1>7. \A t \in Unregistered : t \in Unregistered' \cup {n}
    BY <1>0 DEF IInv, TypeOK, Unregistered, n
  <1>8. NoTaskLost'
    BY <1>0, <1>2, <1>3, <1>4, <1>7 DEF IInv, NoTaskLost
  <1>9. ReapingInv'
    BY <1>0, <1>2, <1>3, <1>4 DEF IInv, ReapingInv
  <1>10. CreatedInv'
    BY <1>0, <1>2, <1>3, <1>4 DEF IInv, TypeOK, CreatedInv, n
  <1>11. ContextInv'
    BY <1>0, <1>4 DEF IInv, TypeOK, ContextInv
  <1>12. PeriodicInv'
    BY <1>0, <1>2, <1>3 DEF IInv, PeriodicInv
  <1>13. BootInv'
    <2>1. CASE task_switching
      <3>1. c = curr_task /\ c # PreSwitch
        BY <2>1, CurrentTask DEF register_task, Thread
      <3> QED BY <1>0, <1>2, <2>1, <3>1 DEF IInv, TypeOK, BootInv, Callers
    <2>2. CASE ~task_switching
      BY <1>0, <1>2, <1>7, <2>2 DEF IInv, BootInv
    <2> QED BY <2>1, <2>2
  <1> QED BY <1>4, <1>5, <1>6, <1>8, <1>9, <1>10, <1>11, <1>12, <1>13 DEF IInv

\* The two halves of total_tasks += 1 change no list.
LEMMA CountInv ==
    ASSUME IInv, NEW c \in Callers, CountRead(c) \/ CountWrite(c)
    PROVE  IInv'
  <1>0. /\ pc[c] \in {"read", "write"}
        /\ pc' = [pc EXCEPT ![c] = "write"] \/ pc' = [pc EXCEPT ![c] = "user"]
        /\ new' = new \/ new' = [new EXCEPT ![c] = NoTask]
        /\ UNCHANGED <<task_switching, curr_task, runnable_task_list,
                       periodic_task_list, free_task_list, priority, period,
                       alloc, ticks_until_wake, running, reaping, cursor, panic>>
        /\ Thread(c)
    BY DEF CountRead, CountWrite, tcbVars
  <1>1. /\ Runnable' = Runnable /\ Periodic' = Periodic /\ Ended' = Ended
    BY <1>0 DEF Runnable, Periodic, Ended
  <1>2. total_tasks' \in 0..(Word - 1) /\ count' \in [Callers -> 0..(Word - 1)]
    <2>1. CASE CountRead(c)
      BY <2>1 DEF CountRead, IInv, TypeOK
    <2>2. CASE CountWrite(c)
      <3>1. count[c] + 1 \in Nat /\ 0 \in 0..(Word - 1)
        BY PeriodAssumption DEF IInv, TypeOK
      <3> QED BY <2>2, <3>1, WordArithmetic DEF CountWrite, IInv, TypeOK
    <2> QED BY <2>1, <2>2
  <1>3. TypeOK'
    BY <1>0, <1>2 DEF IInv, TypeOK, Locations
  <1>4. Unregistered \subseteq Unregistered'
    BY <1>0 DEF IInv, TypeOK, Unregistered
  <1>5. ListsSound' /\ (Ended \subseteq Tasks)' /\ CurrRunnable' /\ AlwaysATask' /\ NoTaskLost'
    BY <1>0, <1>1, <1>4
       DEF IInv, ListsSound, CurrRunnable, task_runnable, AlwaysATask, NoTaskLost
  <1>6. ReapingInv' /\ PeriodicInv'
    BY <1>0, <1>1 DEF IInv, ReapingInv, PeriodicInv
  <1>7. \A d \in Callers :
           /\ pc'[d] = "register" => pc[d] = "register" /\ new'[d] = new[d]
           /\ pc'[d] # "user" => pc[d] # "user"
           /\ pc'[d] \in Locations
    BY <1>0, <1>3 DEF IInv, TypeOK
  <1>8. CreatedInv'
    BY <1>0, <1>1, <1>7 DEF IInv, CreatedInv
  <1>9. ContextInv' /\ BootInv'
    BY <1>0, <1>1, <1>4, <1>7 DEF IInv, ContextInv, BootInv, Callers
  <1> QED BY <1>1, <1>3, <1>5, <1>6, <1>8, <1>9 DEF IInv

-------------------------------------------------------------------------------
(* Switches of the task *)

\* A step that only selects a runnable task and gives it a context.
LEMMA SwitchInv ==
    ASSUME IInv,
           {KernelTask, SleepTask} \subseteq alloc, SleepTask \in Runnable,
           pc[PreSwitch] = "user",
           runnable_task_list' \in Seq(AllTasks), Runnable' = Runnable,
           NoDuplicates(runnable_task_list'),
           curr_task' \in Runnable,
           running' = [running EXCEPT ![curr_task'] = TRUE],
           task_switching' = TRUE, cursor' \in Nat,
           UNCHANGED <<periodic_task_list, free_task_list, total_tasks,
                       priority, period, alloc, new, count, ticks_until_wake,
                       reaping, pc, panic>>
    PROVE  IInv'
  <1>0. curr_task' \in AllTasks
    BY ListTypes DEF IInv
  <1>1. Periodic' = Periodic /\ Ended' = Ended /\ Unregistered' = Unregistered
    BY DEF Periodic, Ended, Unregistered
  <1>2. TypeOK'
    BY <1>0 DEF IInv, TypeOK, Callers
  <1>3. ListsSound' /\ (Ended \subseteq Tasks)' /\ CurrRunnable' /\ AlwaysATask' /\ NoTaskLost'
    BY <1>1 DEF IInv, ListsSound, CurrRunnable, task_runnable, AlwaysATask, NoTaskLost
  <1>4. ReapingInv' /\ PeriodicInv'
    BY <1>1 DEF IInv, ReapingInv, PeriodicInv
  <1>5. CreatedInv'
    BY <1>1 DEF IInv, CreatedInv
  <1>6. ContextInv'
    BY <1>0, <1>1 DEF IInv, TypeOK, ContextInv
  <1>7. BootInv'
    BY <1>0 DEF IInv, TypeOK, BootInv
  <1> QED BY <1>1, <1>2, <1>3, <1>4, <1>5, <1>6, <1>7 DEF IInv

\* switch_task(NULL) on the run list is such a step.
LEMMA SwitchNullInv ==
    ASSUME IInv, SleepTask \in Runnable,
           switch_task(runnable_task_list, running, pc)
    PROVE  /\ runnable_task_list' \in Seq(AllTasks)
           /\ Runnable' = Runnable
           /\ NoDuplicates(runnable_task_list')
           /\ curr_task' \in Runnable
           /\ running' = [running EXCEPT ![curr_task'] = TRUE]
           /\ pc' = pc
           /\ panic' = panic
  <1>1. /\ TypeOK /\ runnable_task_list \in Seq(AllTasks)
        /\ NoDuplicates(runnable_task_list)
        /\ SleepTask \in ToSet(runnable_task_list)
        /\ running \in [AllTasks -> BOOLEAN]
    BY DEF IInv, TypeOK, ListsSound, Runnable
  <1>2. \A t \in AllTasks : ~running[t] => pc[t] = "user"
    BY DEF IInv, ContextInv
  <1> QED BY <1>1, <1>2, SwitchTask DEF Runnable

\* start_sched selects a task: those it has created are in the run list.
LEMMA StartInv ==
    ASSUME IInv, start_sched
    PROVE  IInv'
  <1>1. ~task_switching
    BY CurrentTask DEF start_sched, Thread
  <1>2. SleepTask \in Runnable
    <2>1. \A c \in Callers : pc[c] = "user"
      BY <1>1, BeforeSwitching DEF start_sched, Callers
    <2> QED BY <1>1, <2>1 DEF IInv, BootInv, Unregistered, start_sched
  <1>3. cursor' \in Nat
    BY DEF start_sched, IInv, TypeOK
  <1> QED BY <1>2, <1>3, SwitchNullInv, SwitchInv DEF start_sched, tcbVars, newVars

\* Once tasks are switched the run list is not empty.
LEMMA SwitchedFacts ==
    ASSUME IInv, task_switching
    PROVE  /\ {KernelTask, SleepTask} \subseteq alloc
           /\ SleepTask \in Runnable
           /\ pc[PreSwitch] = "user"
  BY DEF IInv, BootInv

\* A task of the user is current only once tasks are switched.
LEMMA ThreadSwitching ==
    ASSUME IInv, NEW c \in AllTasks, Thread(c)
    PROVE  task_switching
  BY TasksAssumption, BeforeSwitching DEF Thread

\* A yield is a switch among the tasks of the run list.
LEMMA YieldInv ==
    ASSUME IInv, NEW c \in Tasks, yield(c)
    PROVE  IInv'
  <1>1. task_switching
    BY ThreadSwitching DEF yield, AllTasks
  <1>2. cursor' \in Nat /\ task_switching' = TRUE
    BY <1>1 DEF yield, IInv, TypeOK
  <1> QED BY <1>1, <1>2, SwitchedFacts, SwitchNullInv, SwitchInv DEF yield, tcbVars, newVars

\* task_switch selects the task given only if it is in the run list.
LEMMA TaskSwitchInv ==
    ASSUME IInv, NEW c \in Tasks, NEW t \in AllTasks, svc_task_switch(c, t)
    PROVE  IInv'
  <1>1. task_switching
    BY ThreadSwitching DEF svc_task_switch, AllTasks
  <1>2. curr_task' = t /\ t \in Runnable /\ running' = [running EXCEPT ![t] = TRUE]
    BY DEF svc_task_switch, Dispatch, task_runnable
  <1>3. pc' = pc
    <2>1. CASE running[t]
      BY <2>1 DEF svc_task_switch, Dispatch
    <2>2. CASE ~running[t]
      <3>1. pc[t] = "user" /\ pc' = [pc EXCEPT ![t] = "user"]
        BY <2>2 DEF svc_task_switch, Dispatch, IInv, ContextInv
      <3> QED BY <3>1 DEF IInv, TypeOK, Callers
    <2> QED BY <2>1, <2>2
  <1>4. /\ runnable_task_list' \in Seq(AllTasks) /\ Runnable' = Runnable
        /\ NoDuplicates(runnable_task_list')
        /\ cursor' \in Nat /\ task_switching' = TRUE
    BY <1>1 DEF svc_task_switch, IInv, TypeOK, ListsSound, Runnable
  <1> QED BY <1>1, <1>2, <1>3, <1>4, SwitchedFacts, SwitchInv
          DEF svc_task_switch, tcbVars, newVars

-------------------------------------------------------------------------------
(* Ends of tasks, and kernel_task *)

\* sched_svc_end_task of the current task: a task that dies leaves the run list
\* and the periodic list for the free list, one that is periodic stays in the
\* periodic list.
LEMMA EndInv ==
    ASSUME IInv, NEW c \in Tasks \cup {KernelTask}, NEW abort \in BOOLEAN,
           Thread(c), pc[c] = "user", c = KernelTask => ~abort,
           sched_svc_end_task(c, abort),
           UNCHANGED <<task_switching, priority, period, alloc, new, count,
                       ticks_until_wake, reaping, cursor>>
    PROVE  IInv'
  <1> DEFINE dies == abort \/ period[c] = 0
             isRunning == IF dies THEN running ELSE [running EXCEPT ![c] = FALSE]
             l == list_remove(runnable_task_list, c)
  <1>0. /\ task_switching /\ curr_task = c
        /\ c \in AllTasks /\ c # SleepTask
        /\ c \in Runnable /\ c \in alloc /\ c \notin Ended /\ c # reaping
    BY ThreadSwitching, CurrentTask, TasksAssumption DEF Thread, AllTasks
  <1>1. dies => c \in Tasks
    BY <1>0 DEF IInv, PeriodicInv
  <1>2. /\ SleepTask \in Runnable /\ {KernelTask, SleepTask} \subseteq alloc
        /\ pc[PreSwitch] = "user"
    BY <1>0, SwitchedFacts
  <1>3. /\ l \in Seq(AllTasks) /\ ToSet(l) = Runnable \ {c} /\ NoDuplicates(l)
    <2>1. runnable_task_list \in Seq(AllTasks) /\ NoDuplicates(runnable_task_list)
      BY DEF IInv, TypeOK, ListsSound
    <2> QED BY <2>1, RemoveTask DEF Runnable
  <1>4. /\ isRunning \in [AllTasks -> BOOLEAN]
        /\ \A t \in AllTasks : t # c => isRunning[t] = running[t]
    BY DEF IInv, TypeOK
  <1>5. \A t \in AllTasks : ~isRunning[t] => pc[t] = "user"
    BY <1>4 DEF IInv, ContextInv
  <1>6. switch_task(l, isRunning, pc)
    BY DEF sched_svc_end_task
  <1> HIDE DEF l, isRunning
  <1>7. /\ runnable_task_list' \in Seq(AllTasks)
        /\ Runnable' = Runnable \ {c}
        /\ NoDuplicates(runnable_task_list')
        /\ curr_task' \in Runnable /\ curr_task' # c /\ curr_task' \in AllTasks
        /\ running' = [isRunning EXCEPT ![curr_task'] = TRUE]
        /\ pc' = pc
        /\ panic' = panic
    <2>1. TypeOK /\ SleepTask \in ToSet(l)
      BY <1>0, <1>2, <1>3 DEF IInv
    <2> QED BY <1>3, <1>4, <1>5, <1>6, <2>1, SwitchTask DEF Runnable
  <1>8. /\ periodic_task_list' \in Seq(AllTasks)
        /\ Periodic' = IF abort /\ period[c] # 0 THEN Periodic \ {c} ELSE Periodic
        /\ NoDuplicates(periodic_task_list')
    <2>1. periodic_task_list \in Seq(AllTasks) /\ NoDuplicates(periodic_task_list)
      BY DEF IInv, TypeOK, ListsSound
    <2>2. /\ list_remove(periodic_task_list, c) \in Seq(AllTasks)
          /\ ToSet(list_remove(periodic_task_list, c)) = Periodic \ {c}
          /\ NoDuplicates(list_remove(periodic_task_list, c))
      BY <2>1, RemoveTask DEF Periodic
    <2> QED BY <2>1, <2>2 DEF sched_svc_end_task, Periodic
  <1>9. /\ free_task_list' \in Seq(AllTasks)
        /\ Ended' = IF dies THEN Ended \cup {c} ELSE Ended
        /\ NoDuplicates(free_task_list')
    <2>1. free_task_list \in Seq(AllTasks) /\ NoDuplicates(free_task_list)
      BY DEF IInv, TypeOK, ListsSound
    <2>2. /\ <<c>> \o free_task_list \in Seq(AllTasks)
          /\ ToSet(<<c>> \o free_task_list) = Ended \cup {c}
          /\ NoDuplicates(<<c>> \o free_task_list)
      BY <1>0, <2>1, AddHead DEF Ended
    <2> QED BY <2>1, <2>2 DEF sched_svc_end_task, Ended
  <1>10. total_tasks' \in 0..(Word - 1)
    BY WordArithmetic DEF sched_svc_end_task, IInv, TypeOK
  <1>11. dies => c \notin Periodic'
    BY <1>8 DEF IInv, PeriodicInv
  <1>12. ~dies => c \in Periodic'
    BY <1>0, <1>8 DEF IInv, PeriodicInv
  <1>13. Unregistered' = Unregistered
    BY <1>7 DEF Unregistered
  <1> HIDE DEF dies
  <1>14. \A t \in AllTasks : t # c => (t \in Periodic' <=> t \in Periodic)
    BY <1>8
  <1>15. Periodic' \subseteq Periodic
    BY <1>8
  <1>16. TypeOK'
    BY <1>4, <1>7, <1>8, <1>9, <1>10 DEF IInv, TypeOK, Callers
  <1>17. ListsSound' /\ (Ended \subseteq Tasks)' /\ CurrRunnable' /\ AlwaysATask'
    BY <1>0, <1>1, <1>7, <1>8, <1>9, <1>11, <1>15
       DEF IInv, ListsSound, CurrRunnable, task_runnable, AlwaysATask
  <1>18. NoTaskLost'
    <2>1. alloc \subseteq AllTasks
      BY DEF IInv, TypeOK
    <2> QED BY <1>7, <1>9, <1>12, <1>13, <1>14, <2>1 DEF IInv, NoTaskLost
  <1>19. ReapingInv' /\ PeriodicInv'
    BY <1>0, <1>7, <1>9, <1>12, <1>14, <1>15, ListTypes DEF IInv, ReapingInv, PeriodicInv
  <1>20. CreatedInv'
    BY <1>0, <1>7, <1>9, <1>15 DEF IInv, CreatedInv
  <1>21. ContextInv'
    BY <1>4, <1>7, <1>9 DEF IInv, TypeOK, ContextInv
  <1>22. BootInv'
    BY <1>0, <1>2, <1>4, <1>7 DEF BootInv
  <1> QED BY <1>16, <1>17, <1>18, <1>19, <1>20, <1>21, <1>22 DEF IInv

\* end_task and abort of a user's task.
LEMMA EndTaskInv ==
    ASSUME IInv, NEW c \in Tasks, NEW abort \in BOOLEAN, end_task(c, abort)
    PROVE  IInv'
  BY TasksAssumption, EndInv DEF end_task, tcbVars, newVars

\* kernel_task ends its run and waits for its next period.
LEMMA KernelEndInv ==
    ASSUME IInv, KernelEnd
    PROVE  IInv'
  <1>1. pc[KernelTask] = "user"
    BY TasksAssumption DEF IInv, ContextInv, AllTasks
  <1>2. KernelTask \in Tasks \cup {KernelTask} /\ FALSE \in BOOLEAN
    OBVIOUS
  <1> QED BY <1>1, <1>2, EndInv DEF KernelEnd, tcbVars, newVars

\* kernel_task takes an ended task, which no list but the free list holds.
LEMMA KernelPopInv ==
    ASSUME IInv, KernelPop
    PROVE  IInv'
  <1>1. free_task_list \in Seq(AllTasks) /\ NoDuplicates(free_task_list) /\ free_task_list # <<>>
    BY DEF IInv, TypeOK, ListsSound, KernelPop
  <1>2. /\ reaping' \in Ended /\ reaping' \in AllTasks
        /\ free_task_list' \in Seq(AllTasks)
        /\ Ended' \cup {reaping'} = Ended
        /\ NoDuplicates(free_task_list') /\ reaping' \notin Ended'
    BY <1>1, PopTail DEF KernelPop, Ended
  <1>3. /\ Runnable' = Runnable /\ Periodic' = Periodic /\ Unregistered' = Unregistered
        /\ reaping = NoTask
        /\ UNCHANGED <<task_switching, curr_task, runnable_task_list,
                       periodic_task_list, total_tasks, priority, period,
                       alloc, new, count, ticks_until_wake, running, pc,
                       cursor, panic>>
    BY DEF KernelPop, Runnable, Periodic, Unregistered, tcbVars, newVars
  <1>4. TypeOK'
    BY <1>2, <1>3 DEF IInv, TypeOK
  <1>5. ListsSound' /\ (Ended \subseteq Tasks)' /\ CurrRunnable' /\ AlwaysATask'
    BY <1>2, <1>3 DEF IInv, ListsSound, CurrRunnable, task_runnable, AlwaysATask
  <1>6. NoTaskLost' /\ ReapingInv'
    BY <1>2, <1>3, TasksAssumption DEF IInv, TypeOK, ListsSound, NoTaskLost, ReapingInv
  <1>7. CreatedInv' /\ ContextInv'
    BY <1>2, <1>3 DEF IInv, CreatedInv, ContextInv
  <1>8. PeriodicInv' /\ BootInv'
    BY <1>3 DEF IInv, PeriodicInv, BootInv
  <1> QED BY <1>4, <1>5, <1>6, <1>7, <1>8 DEF IInv

\* The structure that is freed is in no list, so that none refers to it after.
LEMMA KernelFreeInv ==
    ASSUME IInv, KernelFree
    PROVE  IInv'
  <1>1. /\ reaping \in Tasks /\ reaping \in AllTasks
        /\ reaping \notin Runnable \cup Periodic \cup Ended
    BY DEF KernelFree, IInv, ReapingInv, AllTasks
  <1>2. reaping # KernelTask /\ reaping # SleepTask /\ reaping # PreSwitch
    BY <1>1, TasksAssumption
  <1>3. /\ Runnable' = Runnable /\ Periodic' = Periodic /\ Ended' = Ended
        /\ Unregistered' = Unregistered
        /\ reaping' = NoTask /\ alloc' = alloc \ {reaping}
        /\ period' = [period EXCEPT ![reaping] = 0]
        /\ running' = [running EXCEPT ![reaping] = FALSE]
        /\ UNCHANGED <<task_switching, curr_task, runnable_task_list,
                       periodic_task_list, free_task_list, new, pc, cursor, panic>>
    BY DEF KernelFree, Runnable, Periodic, Ended, Unregistered
  <1>4. \A c \in Callers : pc[c] = "register" => new[c] # reaping
    BY DEF IInv, CreatedInv
  <1>5. TypeOK'
    BY <1>1 DEF IInv, TypeOK, KernelFree, KernelPriority
  <1>6. ListsSound' /\ (Ended \subseteq Tasks)' /\ CurrRunnable' /\ AlwaysATask'
    BY <1>1, <1>3 DEF IInv, ListsSound, CurrRunnable, task_runnable, AlwaysATask
  <1>7. NoTaskLost' /\ ReapingInv'
    BY <1>3 DEF IInv, NoTaskLost, ReapingInv
  <1>8. CreatedInv'
    BY <1>3, <1>4, TasksAssumption DEF IInv, TypeOK, ListsSound, CreatedInv
  <1>9. ContextInv'
    BY <1>1, <1>3, TasksAssumption DEF IInv, TypeOK, ContextInv
  <1>10. PeriodicInv'
    BY <1>1, <1>2, <1>3, ListTypes DEF IInv, TypeOK, PeriodicInv
  <1>11. BootInv'
    <2>1. task_switching
      BY ThreadSwitching DEF KernelFree, AllTasks
    <2>2. curr_task # reaping /\ curr_task \in AllTasks
      BY <2>1, CurrentTask
    <2> QED BY <1>1, <1>2, <1>3, <2>1, <2>2 DEF IInv, TypeOK, BootInv
  <1> QED BY <1>5, <1>6, <1>7, <1>8, <1>9, <1>10, <1>11 DEF IInv

-------------------------------------------------------------------------------
(* The system tick *)

\* A tick starts at the head of the periodic list, or switches at once.
LEMMA TickInv ==
    ASSUME IInv, Tick
    PROVE  IInv'
  <1>1. /\ Runnable' = Runnable /\ Periodic' = Periodic /\ Ended' = Ended
        /\ Unregistered' = Unregistered
        /\ cursor' \in Nat /\ task_switching
        /\ UNCHANGED <<task_switching, curr_task, runnable_task_list,
                       periodic_task_list, free_task_list, total_tasks,
                       priority, period, alloc, new, count, ticks_until_wake,
                       running, pc, reaping, panic>>
    BY DEF Tick, Runnable, Periodic, Ended, Unregistered, tcbVars, newVars
  <1>2. TypeOK'
    BY <1>1 DEF IInv, TypeOK
  <1>3. ListsSound' /\ (Ended \subseteq Tasks)' /\ CurrRunnable' /\ AlwaysATask' /\ NoTaskLost'
    BY <1>1 DEF IInv, ListsSound, CurrRunnable, task_runnable, AlwaysATask, NoTaskLost
  <1>4. ReapingInv' /\ CreatedInv' /\ ContextInv' /\ PeriodicInv' /\ BootInv'
    BY <1>1 DEF IInv, ReapingInv, CreatedInv, ContextInv, PeriodicInv, BootInv
  <1> QED BY <1>2, <1>3, <1>4 DEF IInv

\* One iteration of rtos_tick: a task is queued only if it is not in the run list.
LEMMA TickTaskInv ==
    ASSUME IInv, TickTask
    PROVE  IInv'
  <1> DEFINE t == periodic_task_list[cursor]
  <1>0. /\ cursor # 0 /\ cursor' \in Nat
        /\ Periodic' = Periodic /\ Ended' = Ended /\ Unregistered' = Unregistered
        /\ UNCHANGED <<task_switching, curr_task, periodic_task_list,
                       free_task_list, total_tasks, priority, period, alloc,
                       new, count, running, pc, reaping, panic>>
    BY DEF TickTask, IInv, TypeOK, Periodic, Ended, Unregistered, tcbVars, newVars
  <1>1. t \in Periodic /\ t \in AllTasks
    <2>1. periodic_task_list \in Seq(AllTasks) /\ cursor \in 1..Len(periodic_task_list)
      BY DEF TickTask, IInv, TypeOK
    <2> QED BY <2>1, ToSetElements DEF Periodic
  <1>2. t \in alloc /\ t \notin Ended /\ period[t] # 0
    BY <1>1 DEF IInv, ListsSound, PeriodicInv
  <1>3. rtos_tick
    BY DEF TickTask
  <1> HIDE DEF t
  <1>4. /\ runnable_task_list' \in Seq(AllTasks)
        /\ Runnable' = Runnable \/ Runnable' = Runnable \cup {t}
        /\ NoDuplicates(runnable_task_list')
    <2>1. runnable_task_list \in Seq(AllTasks) /\ NoDuplicates(runnable_task_list)
      BY DEF IInv, TypeOK, ListsSound
    <2>2. \/ runnable_task_list' = runnable_task_list
          \/ /\ t \notin Runnable
             /\ runnable_task_list' = insert_task(runnable_task_list, t, priority)
      BY <1>3 DEF rtos_tick, Wake, task_runnable, t
    <2>3. priority \in [AllTasks -> Int]
      BY PriorityType DEF IInv
    <2>4. ASSUME t \notin Runnable
          PROVE  /\ insert_task(runnable_task_list, t, priority) \in Seq(AllTasks)
                 /\ ToSet(insert_task(runnable_task_list, t, priority)) = Runnable \cup {t}
                 /\ NoDuplicates(insert_task(runnable_task_list, t, priority))
      BY <1>1, <2>1, <2>3, <2>4, InsertTask DEF Runnable
    <2> QED BY <2>1, <2>2, <2>4 DEF Runnable
  <1>5. ticks_until_wake' \in [AllTasks -> Nat]
    <2>1. CASE ticks_until_wake[t] = 0
      BY <1>1, <1>3, <2>1 DEF rtos_tick, IInv, TypeOK, t
    <2>2. CASE ticks_until_wake[t] # 0
      <3>1. ticks_until_wake' = [ticks_until_wake EXCEPT ![t] = @ - 1]
        BY <1>3, <2>2 DEF rtos_tick, t
      <3>2. ticks_until_wake[t] - 1 \in Nat
        BY <1>1, <2>2 DEF IInv, TypeOK
      <3> QED BY <3>1, <3>2 DEF IInv, TypeOK
    <2> QED BY <2>1, <2>2
  <1>6. TypeOK'
    BY <1>0, <1>4, <1>5 DEF IInv, TypeOK
  <1>7. ListsSound' /\ (Ended \subseteq Tasks)' /\ CurrRunnable' /\ AlwaysATask' /\ NoTaskLost'
    BY <1>0, <1>2, <1>4
       DEF IInv, ListsSound, CurrRunnable, task_runnable, AlwaysATask, NoTaskLost
  <1>8. ReapingInv' /\ CreatedInv'
    BY <1>0, <1>1, <1>4 DEF IInv, ReapingInv, CreatedInv
  <1>9. ContextInv' /\ PeriodicInv'
    BY <1>0, <1>1, <1>4 DEF IInv, ContextInv, PeriodicInv
  <1>10. BootInv'
    BY <1>0, <1>4 DEF IInv, BootInv
  <1> QED BY <1>6, <1>7, <1>8, <1>9, <1>10 DEF IInv

\* The switch at the end of a tick.
LEMMA TickSwitchInv ==
    ASSUME IInv, TickSwitch
    PROVE  IInv'
  <1>1. task_switching
    <2>1. cursor # 0
      BY DEF TickSwitch, IInv, TypeOK
    <2> QED BY <2>1, BeforeSwitching
  <1>2. cursor' \in Nat /\ task_switching' = TRUE
    BY <1>1 DEF TickSwitch
  <1> QED BY <1>1, <1>2, SwitchedFacts, SwitchNullInv, SwitchInv
          DEF TickSwitch, tcbVars, newVars

-------------------------------------------------------------------------------
\* Every step of the system preserves the invariant.
LEMMA NextInv ==
    ASSUME IInv, [Next]_vars
    PROVE  IInv'
  <1>1. ASSUME NEW c \in Tasks \cup {PreSwitch}, new_task(c) PROVE IInv'
    <2>1. c \in Callers
      BY DEF Callers, AllTasks
    <2> QED BY <1>1, <2>1, CreateTaskInv, CreateFailsInv, RegisterInv, CountInv DEF new_task
  <1>2. CASE start_sched
    BY <1>2, StartInv
  <1>3. ASSUME NEW c \in Tasks, yield(c) PROVE IInv'
    BY <1>3, YieldInv
  <1>4. ASSUME NEW c \in Tasks, NEW t \in AllTasks, svc_task_switch(c, t) PROVE IInv'
    BY <1>4, TaskSwitchInv
  <1>5. ASSUME NEW c \in Tasks, NEW abort \in BOOLEAN, end_task(c, abort) PROVE IInv'
    BY <1>5, EndTaskInv
  <1>6. CASE kernel_task
    BY <1>6, KernelPopInv, KernelFreeInv, KernelEndInv DEF kernel_task
  <1>7. CASE sched_system_tick
    BY <1>7, TickInv, TickTaskInv, TickSwitchInv DEF sched_system_tick
  <1>8. CASE UNCHANGED vars
    <2>1. /\ Runnable' = Runnable /\ Periodic' = Periodic /\ Ended' = Ended
          /\ Unregistered' = Unregistered
      BY <1>8 DEF vars, Runnable, Periodic, Ended, Unregistered
    <2>2. TypeOK'
      BY <1>8 DEF IInv, TypeOK, vars
    <2>3. /\ ListsSound' /\ (Ended \subseteq Tasks)' /\ CurrRunnable'
          /\ AlwaysATask' /\ NoTaskLost'
      BY <1>8, <2>1 DEF IInv, ListsSound, CurrRunnable, task_runnable,
                        AlwaysATask, NoTaskLost, vars
    <2>4. ReapingInv' /\ CreatedInv' /\ ContextInv' /\ PeriodicInv' /\ BootInv'
      BY <1>8, <2>1 DEF IInv, ReapingInv, CreatedInv, ContextInv, PeriodicInv,
                        BootInv, vars
    <2> QED BY <2>2, <2>3, <2>4 DEF IInv
  <1> QED BY <1>1, <1>2, <1>3, <1>4, <1>5, <1>6, <1>7, <1>8 DEF Next

-------------------------------------------------------------------------------
(* The count of tasks *)

\* total_tasks neither wraps when a task is counted nor when one ends.
LEMMA CountArithmetic ==
    /\ \A n \in Nat : n < Word => n % Word = n
    /\ \A n \in 1..(Word - 1) : (n + Word - 1) % Word = n - 1
  <1> USE PeriodAssumption
  <1>1. \A n \in Nat : n < Word => n % Word = n
    OBVIOUS
  <1>2. \A n \in 1..(Word - 1) : (n + Word - 1) % Word = n - 1
    OBVIOUS
  <1> QED BY <1>1, <1>2

\* The tasks that are alive: one more when a task is created, one less when one
\* dies; kernel_task's pop and free do not change them.
LEMMA LiveTasks ==
    ASSUME IInv, IsFiniteSet(AllTasks)
    PROVE  /\ IsFiniteSet(Live) /\ Cardinality(Live) \in Nat
           /\ Cardinality(Live) <= Cardinality(AllTasks)
           /\ Cardinality(AllTasks) \in Nat
           /\ \A n \in AllTasks \ Live : Cardinality(Live \cup {n}) = Cardinality(Live) + 1
           /\ \A n \in Live : Cardinality(Live \ {n}) = Cardinality(Live) - 1
           /\ \A n \in Live : Cardinality(Live) > 0
  <1>1. Live \subseteq AllTasks
    BY DEF IInv, TypeOK, Live
  <1>2. IsFiniteSet(Live) /\ Cardinality(Live) <= Cardinality(AllTasks)
    BY <1>1, FS_Subset
  <1>3. Cardinality(Live) \in Nat /\ Cardinality(AllTasks) \in Nat
    BY <1>2, FS_CardinalityType
  <1>4. ASSUME NEW n \in AllTasks \ Live
        PROVE  Cardinality(Live \cup {n}) = Cardinality(Live) + 1
    BY <1>2, <1>4, FS_AddElement
  <1>5. ASSUME NEW n \in Live
        PROVE  Cardinality(Live \ {n}) = Cardinality(Live) - 1 /\ Cardinality(Live) > 0
    <2>1. Cardinality(Live \ {n}) = Cardinality(Live) - 1
      BY <1>2, <1>5, FS_RemoveElement
    <2>2. Cardinality(Live) # 0
      BY <1>2, <1>5, FS_EmptySet
    <2> QED BY <1>3, <2>1, <2>2
  <1> QED BY <1>2, <1>3, <1>4, <1>5

\* A step that neither creates nor ends a task counts none.
LEMMA CountUnchanged ==
    ASSUME CountedInv, UNCHANGED <<total_tasks, alloc, free_task_list, reaping, pc, count>>
    PROVE  CountedInv'
  BY DEF CountedInv, Live, Ended

\* A task that dies was counted, and is not any more.
LEMMA CountEnd ==
    ASSUME IInv, IsFiniteSet(AllTasks), Cardinality(AllTasks) < Word, CountedInv,
           NEW c \in Tasks \cup {KernelTask}, NEW abort \in BOOLEAN, Thread(c),
           sched_svc_end_task(c, abort), pc' = pc,
           UNCHANGED <<alloc, count, reaping>>
    PROVE  CountedInv'
  <1> DEFINE dies == abort \/ period[c] = 0
  <1>1. /\ task_switching /\ curr_task = c /\ c \in AllTasks /\ c \in Live
        /\ pc[PreSwitch] = "user"
    BY ThreadSwitching, CurrentTask, SwitchedFacts DEF Thread, AllTasks, Live
  <1>2. CASE ~dies
    <2>1. UNCHANGED <<free_task_list, total_tasks>>
      BY <1>2 DEF sched_svc_end_task
    <2> QED BY <2>1, CountUnchanged
  <1>3. CASE dies
    <2>1. Ended' = Ended \cup {c}
      <3>1. free_task_list' = <<c>> \o free_task_list
        BY <1>3 DEF sched_svc_end_task
      <3> QED BY <1>1, <3>1, AddHead DEF Ended, IInv, TypeOK
    <2>2. Live' = Live \ {c}
      BY <2>1 DEF Live
    <2>3. total_tasks = Cardinality(Live)
      BY <1>1 DEF CountedInv, IInv, TypeOK
    <2>4. Cardinality(Live') = Cardinality(Live) - 1 /\ Cardinality(Live) \in 1..(Word - 1)
      BY <1>1, <2>2, LiveTasks, PeriodAssumption
    <2>5. total_tasks' = total_tasks - 1
      BY <1>3, <2>3, <2>4, CountArithmetic DEF sched_svc_end_task
    <2> QED BY <1>1, <2>3, <2>4, <2>5 DEF CountedInv
  <1> QED BY <1>2, <1>3

\* The steps of new_task, where only start_sched and main call it.
LEMMA CountNew ==
    ASSUME IInv, IsFiniteSet(AllTasks), Cardinality(AllTasks) < Word, CountedInv,
           ~Dynamic, NEW c \in Tasks \cup {PreSwitch}, new_task(c)
    PROVE  CountedInv'
  <1>1. c = PreSwitch
    <2>1. c \in Tasks => pc[c] = "user" /\ task_switching
      BY ThreadSwitching DEF CountedInv, AllTasks, new_task, create_task, Thread,
                             create_task_fails, register_task, CountRead, CountWrite
    <2>2. c \in Tasks => ~MayCreate(c)
      BY <2>1 DEF MayCreate
    <2> QED BY <2>1, <2>2 DEF new_task, create_task, create_task_fails, register_task,
                              CountRead, CountWrite
  <1>2. /\ PreSwitch \notin AllTasks /\ PreSwitch \in Callers /\ AllTasks \subseteq Callers
        /\ pc \in [Callers -> Locations] /\ count \in [Callers -> 0..(Word - 1)]
        /\ total_tasks \in 0..(Word - 1) /\ Word \in Nat
    BY TasksAssumption, PeriodAssumption DEF Callers, IInv, TypeOK
  <1>3. ASSUME NEW n \in AllTasks,
               NEW p \in Priorities \cup {KernelPriority, SleepPriority},
               NEW us \in PeriodsUs \cup {KernelUs, 0}, create_task(c, n, p, us)
        PROVE  CountedInv'
    <2>1. /\ n \notin alloc /\ alloc' = alloc \cup {n} /\ pc[PreSwitch] = "user"
          /\ pc' = [pc EXCEPT ![PreSwitch] = "register"]
          /\ UNCHANGED <<free_task_list, total_tasks, reaping, count>>
      BY <1>1, <1>3 DEF create_task, NewArgs
    <2>2. n \notin Ended /\ n # reaping
      BY <2>1, TasksAssumption DEF IInv, ListsSound, ReapingInv
    <2>3. Live' = Live \cup {n} /\ n \notin Live
      BY <2>1, <2>2 DEF Live, Ended
    <2>4. Cardinality(Live') = Cardinality(Live) + 1
      BY <2>3, LiveTasks
    <2> QED BY <1>2, <2>1, <2>4 DEF CountedInv
  <1>4. CASE create_task_fails(c)
    BY <1>4, CountUnchanged DEF create_task_fails, newVars
  <1>5. CASE register_task(c)
    <2>1. /\ pc[PreSwitch] = "register" /\ pc' = [pc EXCEPT ![PreSwitch] = "read"]
          /\ UNCHANGED <<alloc, free_task_list, total_tasks, reaping, count>>
      BY <1>1, <1>5 DEF register_task, newVars
    <2>2. Live' = Live
      BY <2>1 DEF Live, Ended
    <2> QED BY <1>2, <2>1, <2>2 DEF CountedInv
  <1>6. CASE CountRead(c)
    <2>1. /\ pc[PreSwitch] = "read" /\ pc' = [pc EXCEPT ![PreSwitch] = "write"]
          /\ count' = [count EXCEPT ![PreSwitch] = total_tasks]
          /\ UNCHANGED <<alloc, free_task_list, total_tasks, reaping>>
      BY <1>1, <1>6 DEF CountRead
    <2>2. Live' = Live
      BY <2>1 DEF Live, Ended
    <2> QED BY <1>2, <2>1, <2>2 DEF CountedInv
  <1>7. CASE CountWrite(c)
    <2>1. /\ pc[PreSwitch] = "write" /\ pc' = [pc EXCEPT ![PreSwitch] = "user"]
          /\ total_tasks' = (count[PreSwitch] + 1) % Word
          /\ UNCHANGED <<alloc, free_task_list, reaping>>
      BY <1>1, <1>7 DEF CountWrite
    <2>2. Live' = Live
      BY <2>1 DEF Live, Ended
    <2>3. total_tasks + 1 = Cardinality(Live) /\ count[PreSwitch] = total_tasks
      BY <2>1 DEF CountedInv
    <2>4. total_tasks + 1 < Word
      BY <1>2, <2>3, LiveTasks
    <2>5. total_tasks' = total_tasks + 1
      BY <1>2, <2>1, <2>3, <2>4, CountArithmetic
    <2> QED BY <1>2, <2>1, <2>2, <2>3, <2>5 DEF CountedInv
  <1> QED BY <1>3, <1>4, <1>5, <1>6, <1>7 DEF new_task

\* kernel_task's pop and free move a task that was not alive any more.
LEMMA CountKernel ==
    ASSUME IInv, CountedInv, KernelPop \/ KernelFree
    PROVE  CountedInv'
  <1>1. UNCHANGED <<total_tasks, pc, count>>
    BY DEF KernelPop, KernelFree, newVars
  <1>2. Live' = Live
    <2>1. CASE KernelPop
      <3>1. /\ free_task_list \in Seq(AllTasks) /\ free_task_list # <<>>
            /\ reaping' = Last(free_task_list) /\ free_task_list' = Front(free_task_list)
            /\ reaping = NoTask /\ alloc' = alloc /\ NoTask \notin alloc
        BY <2>1, TasksAssumption DEF KernelPop, newVars, IInv, TypeOK
      <3>2. Ended' \cup {reaping'} = Ended
        BY <3>1, PopTail DEF Ended
      <3> QED BY <3>1, <3>2 DEF Live
    <2>2. CASE KernelFree
      <3>1. /\ reaping' = NoTask /\ alloc' = alloc \ {reaping} /\ Ended' = Ended
            /\ NoTask \notin alloc
        BY <2>2, TasksAssumption DEF KernelFree, Ended, IInv, TypeOK
      <3> QED BY <3>1 DEF Live
    <2> QED BY <2>1, <2>2
  <1> QED BY <1>1, <1>2 DEF CountedInv

LEMMA CountInit ==
    ASSUME Init PROVE CountedInv
  <1>1. Live = {} /\ Cardinality({}) = 0
    BY FS_EmptySet DEF Init, Live
  <1>2. AllTasks \subseteq Callers /\ PreSwitch \in Callers
    BY DEF Callers
  <1> QED BY <1>1, <1>2 DEF Init, CountedInv

\* Every step of the system keeps the count.
LEMMA CountNext ==
    ASSUME IInv, IsFiniteSet(AllTasks), Cardinality(AllTasks) < Word, ~Dynamic,
           CountedInv, [Next]_vars
    PROVE  CountedInv'
  <1>0. SleepTask \in Runnable /\ switch_task(runnable_task_list, running, pc) => pc' = pc
    BY SwitchNullInv
  <1>1. ASSUME NEW c \in Tasks \cup {PreSwitch}, new_task(c) PROVE CountedInv'
    BY <1>1, CountNew
  <1>2. CASE start_sched
    <2>1. pc[PreSwitch] = "user" /\ ~task_switching
      BY <1>2, CurrentTask DEF start_sched, Thread
    <2>2. SleepTask \in Runnable
      <3>1. \A c \in Callers : pc[c] = "user"
        BY <2>1 DEF CountedInv, Callers
      <3> QED BY <1>2, <2>1, <3>1 DEF start_sched, IInv, BootInv, Unregistered
    <2> QED BY <1>0, <1>2, <2>2, CountUnchanged DEF start_sched, newVars
  <1>3. ASSUME NEW c \in Tasks, yield(c) PROVE CountedInv'
    <2>1. SleepTask \in Runnable
      BY <1>3, ThreadSwitching, SwitchedFacts DEF yield, AllTasks
    <2> QED BY <1>0, <1>3, <2>1, CountUnchanged DEF yield, newVars
  <1>4. ASSUME NEW c \in Tasks, NEW t \in AllTasks, svc_task_switch(c, t) PROVE CountedInv'
    <2>1. pc' = pc
      BY <1>4 DEF svc_task_switch, Dispatch, CountedInv, IInv, TypeOK
    <2> QED BY <1>4, <2>1, CountUnchanged DEF svc_task_switch, newVars
  <1>5. ASSUME NEW c \in Tasks \cup {KernelTask}, NEW abort \in BOOLEAN, Thread(c),
               sched_svc_end_task(c, abort), UNCHANGED <<alloc, count, reaping>>
        PROVE  CountedInv'
    <2>1. /\ list_remove(runnable_task_list, c) \in Seq(AllTasks)
          /\ c # SleepTask /\ c \in AllTasks
      BY RemoveTask, TasksAssumption DEF IInv, TypeOK, ListsSound, AllTasks
    <2>2. pc' = pc
      <3>1. \A l \in Seq(AllTasks) : \A r : switch_task(l, r, pc) => pc' = pc
        <4> SUFFICES ASSUME NEW l \in Seq(AllTasks), NEW r, switch_task(l, r, pc) PROVE pc' = pc
          OBVIOUS
        <4>1. l # <<>> => Head(l) \in AllTasks
          BY PopHead
        <4>2. \A t \in AllTasks : [pc EXCEPT ![t] = "user"] = pc
          BY DEF CountedInv, IInv, TypeOK
        <4> QED BY <4>1, <4>2 DEF switch_task, Dispatch
      <3> QED BY <1>5, <2>1, <3>1 DEF sched_svc_end_task
    <2> QED BY <1>5, <2>2, CountEnd
  <1>6. ASSUME NEW c \in Tasks, NEW abort \in BOOLEAN, end_task(c, abort) PROVE CountedInv'
    BY <1>5, <1>6 DEF end_task, newVars
  <1>7. CASE kernel_task
    BY <1>5, <1>7, CountKernel DEF kernel_task, KernelEnd, newVars
  <1>8. CASE sched_system_tick
    <2>1. CASE Tick \/ TickTask
      BY <2>1, CountUnchanged DEF Tick, TickTask, newVars
    <2>2. CASE TickSwitch
      <3>1. Len(periodic_task_list) \in Nat
        BY DEF IInv, TypeOK
      <3>2. cursor # 0
        BY <2>2, <3>1 DEF TickSwitch
      <3>3. task_switching
        BY <3>2, BeforeSwitching
      <3>4. SleepTask \in Runnable
        BY <3>3, SwitchedFacts
      <3> QED BY <1>0, <2>2, <3>4, CountUnchanged DEF TickSwitch, newVars
    <2> QED BY <1>8, <2>1, <2>2 DEF sched_system_tick
  <1>9. CASE UNCHANGED vars
    BY <1>9, CountUnchanged DEF vars
  <1> QED BY <1>1, <1>2, <1>3, <1>4, <1>6, <1>7, <1>8, <1>9 DEF Next

-------------------------------------------------------------------------------
\* The invariant of the scheduler: every reachable state has it.
THEOREM Invariance == Spec => []IInv
  <1>1. IInv /\ [Next]_vars => IInv'
    BY NextInv
  <1> QED BY InitInv, <1>1, PTL DEF Spec

\* Every variable keeps its type; in particular rtos_tick never decrements a
\* counter that is zero, although a task may miss any number of its periods.
THEOREM TypeCorrect == Spec => []TypeOK
  <1>1. IInv => TypeOK
    BY DEF IInv
  <1> QED BY Invariance, <1>1, PTL

\* No interleaving of creations, wake-ups, ends and aborts links a task twice,
\* or leaves a task that ended, or that was freed, in a list of tasks to run.
THEOREM ListsStaySound == Spec => []ListsSound
  <1>1. IInv => ListsSound
    BY DEF IInv
  <1> QED BY Invariance, <1>1, PTL

\* The processor is always with a task of the run list.
THEOREM CurrentIsRunnable == Spec => []CurrRunnable
  <1>1. IInv => CurrRunnable
    BY DEF IInv
  <1> QED BY Invariance, <1>1, PTL

\* The panic of switch_task on an empty run list is not reachable.
THEOREM NeverOutOfTasks == Spec => []AlwaysATask
  <1>1. IInv => AlwaysATask
    BY DEF IInv
  <1> QED BY Invariance, <1>1, PTL

\* An allocated task is always on its way to run, to wake or to be freed.
THEOREM NoTaskIsLost == Spec => []NoTaskLost
  <1>1. IInv => NoTaskLost
    BY DEF IInv
  <1> QED BY Invariance, <1>1, PTL

\* Where only main creates tasks, and they are fewer than a uint32_t counts,
\* total_tasks is exact whenever main is not inside new_task.
THEOREM TasksAreCounted ==
    ASSUME IsFiniteSet(AllTasks), Cardinality(AllTasks) < Word, ~Dynamic
    PROVE  Spec => []TotalTasksExact
  <1>1. Init => CountedInv
    BY CountInit
  <1>2. IInv /\ CountedInv /\ [Next]_vars => CountedInv'
    BY CountNext
  <1>3. IInv /\ CountedInv => TotalTasksExact
    <2> SUFFICES ASSUME IInv, CountedInv, \A c \in Callers : pc[c] = "user"
                 PROVE  total_tasks = Cardinality(Live)
      BY DEF TotalTasksExact
    <2>1. PreSwitch \in Callers /\ total_tasks \in Int
      BY DEF Callers, IInv, TypeOK
    <2> QED BY <2>1 DEF CountedInv
  <1> QED BY <1>1, <1>2, <1>3, Invariance, PTL DEF Spec

-------------------------------------------------------------------------------
(* What a switch selects, where user tasks have one priority. *)

\* With one user priority insert_task meets at most one lower task, sleep_task,
\* and keeps the list sorted.
LEMMA InsertSorted ==
    ASSUME IInv, OrderInv, NEW p, Priorities \subseteq {p},
           NEW s \in Seq(AllTasks), NoDuplicates(s), ToSet(s) \subseteq alloc,
           Sorted(s, priority),
           NEW e \in alloc, e \notin ToSet(s)
    PROVE  Sorted(insert_task(s, e, priority), priority)
  <1>1. priority \in [AllTasks -> Int] /\ e \in AllTasks
    BY PriorityType DEF IInv, TypeOK
  <1>2. \A i \in 1..Len(s) : s[i] \in AllTasks /\ s[i] \in alloc /\ s[i] # e
    BY ToSetElements
  <1>3. \A t \in alloc : \/ t = KernelTask /\ priority[t] = 10
                         \/ t = SleepTask /\ priority[t] = 0
                         \/ t \in Tasks /\ priority[t] = p /\ p \in 0..9
    <2> SUFFICES ASSUME NEW t \in alloc
                 PROVE  \/ t = KernelTask /\ priority[t] = 10
                        \/ t = SleepTask /\ priority[t] = 0
                        \/ t \in Tasks /\ priority[t] = p /\ p \in 0..9
      OBVIOUS
    <2>1. t \in Tasks \/ t = KernelTask \/ t = SleepTask
      BY DEF IInv, TypeOK, AllTasks
    <2>2. t \in Tasks => priority[t] \in Priorities
      BY DEF OrderInv
    <2>3. \A q \in Priorities : q = p /\ q \in 0..9
      BY PriorityAssumption DEF KernelPriority
    <2> QED BY <2>1, <2>2, <2>3 DEF OrderInv, KernelPriority, SleepPriority
  <1>4. CASE e = KernelTask
    <2>1. \A i \in 1..Len(s) : priority[e] > priority[s[i]]
      <3> SUFFICES ASSUME NEW i \in 1..Len(s) PROVE priority[e] > priority[s[i]]
        OBVIOUS
      <3>1. priority[e] = 10
        BY <1>4 DEF OrderInv, KernelPriority
      <3>2. s[i] \in alloc /\ s[i] # KernelTask
        BY <1>2, <1>4
      <3>3. priority[s[i]] \in 0..9
        BY <1>3, <3>2
      <3> QED BY <3>1, <3>3
    <2> QED BY <1>1, <2>1, SortedInsertTask
  <1>5. CASE e # KernelTask
    <2>1. Lower(s, e, priority) \subseteq {Len(s)}
      <3> SUFFICES ASSUME NEW i \in 1..Len(s), priority[e] > priority[s[i]], i # Len(s)
                   PROVE  FALSE
        BY DEF Lower
      <3> DEFINE n == Len(s)
      <3>1. n \in 1..Len(s) /\ i < n
        OBVIOUS
      <3> HIDE DEF n
      <3>2. s[n] # s[i]
        BY <3>1 DEF NoDuplicates
      <3>3. priority[s[i]] >= priority[s[n]]
        BY <3>1 DEF Sorted
      <3>4. s[i] \in alloc /\ s[n] \in alloc
        BY <1>2, <3>1
      <3>5. s[i] = SleepTask /\ priority[s[i]] = 0
        <4>1. \/ s[i] = KernelTask /\ priority[s[i]] = 10
              \/ s[i] = SleepTask /\ priority[s[i]] = 0
              \/ priority[s[i]] = p /\ p \in 0..9
          BY <1>3, <3>4
        <4>2. \/ e = SleepTask /\ priority[e] = 0
              \/ priority[e] = p /\ p \in 0..9
          BY <1>3, <1>5
        <4> QED BY <4>1, <4>2
      <3>6. \/ s[n] = KernelTask /\ priority[s[n]] = 10
            \/ s[n] = SleepTask /\ priority[s[n]] = 0
            \/ s[n] \in Tasks /\ priority[s[n]] = p /\ p \in 0..9
        <4>1. s[n] \in alloc
          BY <3>4
        <4> QED BY <1>3, <4>1
      <3>7. priority[s[n]] = p /\ p = 0
        BY <3>2, <3>3, <3>5, <3>6
      <3>8. \/ e = SleepTask /\ priority[e] = 0
            \/ priority[e] = p /\ p \in 0..9
        BY <1>3, <1>5
      <3> QED BY <3>5, <3>7, <3>8
    <2> QED BY <1>1, <2>1, SortedInsertTask
  <1> QED BY <1>4, <1>5

\* switch_task(NULL) selects a task of the highest priority of the list, and
\* its rotation keeps the list sorted.
LEMMA SwitchSorted ==
    ASSUME IInv, OrderInv, NEW p, Priorities \subseteq {p},
           NEW l \in Seq(AllTasks), NoDuplicates(l), ToSet(l) \subseteq alloc,
           Sorted(l, priority), NEW isRunning, NEW at,
           switch_task(l, isRunning, at)
    PROVE  /\ Sorted(runnable_task_list', priority)
           /\ \A t \in Runnable' : priority[t] <= priority[curr_task']
  <1>1. CASE l = <<>>
    <2>1. runnable_task_list' = <<>> /\ ToSet(<<>>) = {}
      <3>1. ToSet(<<>>) = {}
        BY DEF ToSet
      <3> QED BY <1>1, <3>1 DEF switch_task
    <2>2. Runnable' = {} /\ Sorted(<<>>, priority)
      BY <2>1 DEF Runnable, Sorted
    <2> QED BY <2>1, <2>2
  <1>2. CASE l # <<>>
    <2>1. /\ runnable_task_list' = insert_task(Tail(l), Head(l), priority)
          /\ curr_task' = Head(l)
      BY <1>2 DEF switch_task, Dispatch
    <2>2. /\ Head(l) \in ToSet(l) /\ Head(l) \in AllTasks
          /\ Tail(l) \in Seq(AllTasks)
          /\ ToSet(Tail(l)) \cup {Head(l)} = ToSet(l)
          /\ NoDuplicates(Tail(l)) /\ Head(l) \notin ToSet(Tail(l))
      BY <1>2, PopHead
    <2>3. priority \in [AllTasks -> Int]
      BY PriorityType DEF IInv
    <2>4. Sorted(Tail(l), priority)
      BY <1>2, SortedTail
    <2>5. ToSet(Tail(l)) \subseteq alloc /\ Head(l) \in alloc
      BY <2>2
    <2>6. Sorted(runnable_task_list', priority)
      BY <2>1, <2>2, <2>4, <2>5, InsertSorted
    <2>7. \A t \in ToSet(l) : priority[t] <= priority[Head(l)]
      BY <1>2, <2>3, SortedHead
    <2>8. Runnable' = ToSet(l)
      <3>1. ToSet(insert_task(Tail(l), Head(l), priority)) = ToSet(Tail(l)) \cup {Head(l)}
        <4> DEFINE h == Head(l)
                   s == Tail(l)
        <4>1. s \in Seq(AllTasks) /\ h \in AllTasks
          BY <2>2
        <4> HIDE DEF h, s
        <4>2. ToSet(insert_task(s, h, priority)) = ToSet(s) \cup {h}
          BY <4>1, <2>3, InsertTask
        <4> QED BY <4>2 DEF h, s
      <3> QED BY <2>1, <2>2, <3>1 DEF Runnable
    <2> QED BY <2>1, <2>6, <2>7, <2>8
  <1> QED BY <1>1, <1>2

\* The run list is such a list, and so is what sched_svc_end_task leaves of it.
LEMMA RunListSorted ==
    ASSUME IInv, OrderInv, NEW c
    PROVE  /\ runnable_task_list \in Seq(AllTasks) /\ NoDuplicates(runnable_task_list)
           /\ ToSet(runnable_task_list) \subseteq alloc
           /\ Sorted(runnable_task_list, priority)
           /\ list_remove(runnable_task_list, c) \in Seq(AllTasks)
           /\ NoDuplicates(list_remove(runnable_task_list, c))
           /\ ToSet(list_remove(runnable_task_list, c)) \subseteq alloc
           /\ Sorted(list_remove(runnable_task_list, c), priority)
  <1>1. /\ runnable_task_list \in Seq(AllTasks) /\ NoDuplicates(runnable_task_list)
        /\ ToSet(runnable_task_list) \subseteq alloc
        /\ Sorted(runnable_task_list, priority)
    BY DEF IInv, TypeOK, ListsSound, Runnable, OrderInv
  <1> QED BY <1>1, RemoveTask

\* Steps that change no priority and no block keep the invariant with the order.
LEMMA OrderKept ==
    ASSUME OrderInv, UNCHANGED <<alloc, priority>>, Sorted(runnable_task_list', priority)
    PROVE  OrderInv'
  BY DEF OrderInv

LEMMA OrderSwitch ==
    ASSUME IInv, OrderInv, NEW p, Priorities \subseteq {p}, UNCHANGED <<alloc, priority>>,
           NEW isRunning, NEW at, switch_task(runnable_task_list, isRunning, at)
    PROVE  OrderInv' /\ \A t \in Runnable' : priority[t] <= priority[curr_task']
  BY RunListSorted, SwitchSorted, OrderKept

LEMMA OrderEnd ==
    ASSUME IInv, OrderInv, NEW p, Priorities \subseteq {p}, UNCHANGED <<alloc, priority>>,
           NEW c, NEW abort, sched_svc_end_task(c, abort)
    PROVE  OrderInv' /\ \A t \in Runnable' : priority[t] <= priority[curr_task']
  <1> DEFINE l == list_remove(runnable_task_list, c)
             isRunning == IF abort \/ period[c] = 0 THEN running
                          ELSE [running EXCEPT ![c] = FALSE]
  <1>1. switch_task(l, isRunning, pc)
    BY DEF sched_svc_end_task
  <1>2. /\ l \in Seq(AllTasks) /\ NoDuplicates(l) /\ ToSet(l) \subseteq alloc
        /\ Sorted(l, priority)
    BY RunListSorted
  <1> HIDE DEF l, isRunning
  <1> QED BY <1>1, <1>2, SwitchSorted, OrderKept

\* A created task has its priority before it is linked.
LEMMA OrderCreate ==
    ASSUME IInv, OrderInv, NEW c \in Callers, NEW n \in AllTasks, NEW q, NEW us,
           create_task(c, n, q, us)
    PROVE  OrderInv'
  <1>1. /\ n \notin alloc /\ alloc' = alloc \cup {n}
        /\ priority' = [priority EXCEPT ![n] = q]
        /\ runnable_task_list' = runnable_task_list
        /\ n = KernelTask => q = KernelPriority
        /\ n = SleepTask => q = SleepPriority
        /\ n \in Tasks => q \in Priorities
    BY TasksAssumption DEF create_task, NewArgs
  <1>2. /\ KernelTask \in AllTasks /\ SleepTask \in AllTasks
        /\ \A t \in Tasks : t \in AllTasks
        /\ \A t \in AllTasks : priority'[t] = IF t = n THEN q ELSE priority[t]
    BY <1>1 DEF IInv, TypeOK, AllTasks
  <1>3. \A i \in 1..Len(runnable_task_list) :
            runnable_task_list[i] \in AllTasks /\ runnable_task_list[i] # n
    <2>1. /\ runnable_task_list \in Seq(AllTasks)
          /\ ToSet(runnable_task_list) \subseteq alloc
      BY DEF IInv, TypeOK, ListsSound, Runnable
    <2>2. \A i \in 1..Len(runnable_task_list) :
              runnable_task_list[i] \in ToSet(runnable_task_list)
      BY <2>1, ToSetElements
    <2> QED BY <1>1, <2>1, <2>2
  <1>4. Sorted(runnable_task_list', priority')
    BY <1>1, <1>2, <1>3 DEF OrderInv, Sorted
  <1> QED BY <1>1, <1>2, <1>4 DEF OrderInv

\* A freed task is not linked.
LEMMA OrderFree ==
    ASSUME IInv, OrderInv, KernelFree
    PROVE  OrderInv'
  <1>1. /\ reaping \in Tasks /\ reaping \notin Runnable
        /\ alloc' = alloc \ {reaping}
        /\ priority' = [priority EXCEPT ![reaping] = 0]
        /\ runnable_task_list' = runnable_task_list
    BY DEF KernelFree, IInv, ReapingInv
  <1>2. /\ KernelTask \in AllTasks /\ SleepTask \in AllTasks
        /\ \A t \in Tasks : t \in AllTasks
        /\ KernelTask # reaping /\ SleepTask # reaping
        /\ \A t \in AllTasks : t # reaping => priority'[t] = priority[t]
    BY <1>1, TasksAssumption DEF IInv, TypeOK, AllTasks
  <1>3. \A i \in 1..Len(runnable_task_list) :
            runnable_task_list[i] \in AllTasks /\ runnable_task_list[i] # reaping
    <2>1. runnable_task_list \in Seq(AllTasks)
      BY DEF IInv, TypeOK
    <2>2. \A i \in 1..Len(runnable_task_list) : runnable_task_list[i] \in Runnable
      BY <2>1, ToSetElements DEF Runnable
    <2> QED BY <1>1, <2>1, <2>2
  <1>4. Sorted(runnable_task_list', priority')
    BY <1>1, <1>2, <1>3 DEF OrderInv, Sorted
  <1> QED BY <1>1, <1>2, <1>4 DEF OrderInv

\* Every step of the system keeps the run list sorted.
LEMMA OrderNext ==
    ASSUME IInv, OrderInv, NEW p, Priorities \subseteq {p}, [Next]_vars
    PROVE  OrderInv'
  <1>0. UNCHANGED <<alloc, priority, runnable_task_list>> => OrderInv'
    BY DEF OrderInv
  <1>1. ASSUME NEW c \in Tasks \cup {PreSwitch}, new_task(c) PROVE OrderInv'
    <2>0. c \in Callers
      BY DEF Callers, AllTasks
    <2>1. ASSUME NEW n \in AllTasks,
                 NEW q \in Priorities \cup {KernelPriority, SleepPriority},
                 NEW us \in PeriodsUs \cup {KernelUs, 0}, create_task(c, n, q, us)
          PROVE  OrderInv'
      BY <2>0, <2>1, OrderCreate
    <2>2. CASE create_task_fails(c) \/ CountRead(c) \/ CountWrite(c)
      BY <1>0, <2>2 DEF create_task_fails, CountRead, CountWrite, tcbVars, newVars
    <2>3. CASE register_task(c)
      <3>1. /\ runnable_task_list' = insert_task(runnable_task_list, new[c], priority)
            /\ UNCHANGED <<alloc, priority>>
        BY <2>3 DEF register_task, svc_register_task, tcbVars, newVars
      <3>2. new[c] \in alloc /\ new[c] \notin ToSet(runnable_task_list)
        BY <2>0, <2>3 DEF register_task, IInv, CreatedInv, Runnable
      <3> DEFINE e == new[c]
      <3>3. Sorted(insert_task(runnable_task_list, e, priority), priority)
        <4>1. e \in alloc /\ e \notin ToSet(runnable_task_list)
          BY <3>2
        <4> HIDE DEF e
        <4> QED BY <4>1, RunListSorted, InsertSorted
      <3> QED BY <3>1, <3>3, OrderKept
    <2> QED BY <1>1, <2>1, <2>2, <2>3 DEF new_task
  <1>2. ASSUME start_sched \/ (\E c \in Tasks : yield(c)) \/ TickSwitch
        PROVE  OrderInv'
    BY <1>2, OrderSwitch DEF start_sched, yield, TickSwitch, tcbVars, newVars
  <1>3. ASSUME NEW c \in Tasks, NEW t \in AllTasks, svc_task_switch(c, t)
        PROVE  OrderInv'
    BY <1>0, <1>3 DEF svc_task_switch, tcbVars, newVars
  <1>4. ASSUME NEW c \in Tasks, NEW abort \in BOOLEAN, end_task(c, abort)
        PROVE  OrderInv'
    BY <1>4, OrderEnd DEF end_task, tcbVars, newVars
  <1>5. CASE kernel_task
    <2>1. CASE KernelPop
      BY <1>0, <2>1 DEF KernelPop, tcbVars, newVars
    <2>2. CASE KernelFree
      BY <2>2, OrderFree
    <2>3. CASE KernelEnd
      BY <2>3, OrderEnd DEF KernelEnd, tcbVars, newVars
    <2> QED BY <1>5, <2>1, <2>2, <2>3 DEF kernel_task
  <1>6. CASE Tick
    BY <1>0, <1>6 DEF Tick, tcbVars, newVars
  <1>7. CASE TickTask
    <2> DEFINE t == periodic_task_list[cursor]
    <2>1. t \in alloc
      <3>1. periodic_task_list \in Seq(AllTasks) /\ cursor \in 1..Len(periodic_task_list)
        BY <1>7 DEF TickTask, IInv, TypeOK
      <3>2. t \in Periodic
        BY <3>1, ToSetElements DEF Periodic
      <3> QED BY <3>2 DEF IInv, ListsSound
    <2>2. /\ UNCHANGED <<alloc, priority>>
          /\ \/ runnable_task_list' = runnable_task_list
             \/ /\ t \notin Runnable
                /\ runnable_task_list' = insert_task(runnable_task_list, t, priority)
      BY <1>7 DEF TickTask, rtos_tick, Wake, task_runnable, tcbVars, newVars
    <2> HIDE DEF t
    <2>3. t \notin Runnable => Sorted(insert_task(runnable_task_list, t, priority), priority)
      BY <2>1, RunListSorted, InsertSorted DEF Runnable
    <2> QED BY <1>0, <2>2, <2>3, OrderKept
  <1>8. CASE UNCHANGED vars
    BY <1>0, <1>8 DEF vars
  <1> QED BY <1>1, <1>2, <1>3, <1>4, <1>5, <1>6, <1>7, <1>8 DEF Next, sched_system_tick

\* Where user tasks have one priority, the switch at a tick and at the end of
\* kernel_task selects a task of the highest priority that is runnable.  With
\* two priorities insert_task does not keep the list sorted, and it does not.
THEOREM HighestPriorityIsSelected ==
    ASSUME NEW p, Priorities \subseteq {p}
    PROVE  Spec => HighestPriorityRuns
  <1>1. Init => OrderInv
    BY DEF Init, OrderInv, Sorted
  <1>2. IInv /\ OrderInv /\ [Next]_vars => OrderInv'
    BY OrderNext
  <1>3. IInv /\ OrderInv =>
           [TickSwitch \/ KernelEnd =>
              \A t \in Runnable' : priority[t] <= priority[curr_task']]_vars
    <2> SUFFICES ASSUME IInv, OrderInv, TickSwitch \/ KernelEnd
                 PROVE  \A t \in Runnable' : priority[t] <= priority[curr_task']
      OBVIOUS
    <2>1. CASE TickSwitch
      BY <2>1, OrderSwitch DEF TickSwitch, tcbVars, newVars
    <2>2. CASE KernelEnd
      BY <2>2, OrderEnd DEF KernelEnd, tcbVars, newVars
    <2> QED BY <2>1, <2>2
  <1> QED BY <1>1, <1>2, <1>3, Invariance, PTL DEF Spec, HighestPriorityRuns
================================================================================
