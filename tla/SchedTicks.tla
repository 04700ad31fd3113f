------------------------------ MODULE SchedTicks ------------------------------
(***************************************************************************)
(* The timing of periodic tasks: Sched with a history variable that counts *)
(* the ticks since the last period edge of each task, and the proof that   *)
(* edges are evenly spaced.                                                *)
(***************************************************************************)
EXTENDS Sched, SchedProofs

VARIABLE age    \* ticks a task has seen since it was created or last queued

varsT == <<vars, age>>

\* The iteration of rtos_tick that runs is at the task t.
AtTask(t) == TickTask /\ t = periodic_task_list[cursor]

\* A period edge of t: rtos_tick queues it and starts the next period.
Edge(t) == AtTask(t) /\ ticks_until_wake[t] = 0

CountAge ==
    age' = [t \in AllTasks |->
              IF t \notin alloc' \/ Edge(t) THEN 0
              ELSE IF AtTask(t) THEN age[t] + 1
              ELSE age[t]]

InitT == Init /\ age = [t \in AllTasks |-> 0]

SpecT == InitT /\ [][Next /\ CountAge]_varsT /\ Fairness

\* The invariant behind EvenlySpaced: the ticks seen since the last edge and the
\* ticks left until the next one make up a period, for every task.
TimeInv ==
    /\ age \in [AllTasks -> Nat]
    /\ \A t \in AllTasks : age[t] + ticks_until_wake[t] = period[t]
    /\ \A t \in AllTasks \ alloc : age[t] = 0

\* The edges of a periodic task are evenly spaced, however late the task runs,
\* whether or not it has finished its last run, and whatever other tasks are
\* created, abort or wake: period + 1 ticks separate two of them.  (README.md
\* has them queued "precisely at their period tick".)
EvenlySpaced ==
    [][\A t \in AllTasks : Edge(t) => age[t] + 1 = period[t] + 1]_varsT

-------------------------------------------------------------------------------
(* The edges of periodic tasks. *)

LEMMA TimeInit == InitT => TimeInv
  BY DEF InitT, Init, TimeInv

\* A step that is not an iteration of rtos_tick's loop leaves the ages of the
\* tasks that stay allocated alone.
LEMMA AgeUnchanged ==
    ASSUME TimeInv, CountAge, ~TickTask
    PROVE  \A t \in AllTasks : age'[t] = IF t \in alloc' THEN age[t] ELSE 0
  BY DEF CountAge, Edge, AtTask

LEMMA AgeType ==
    ASSUME TimeInv, CountAge
    PROVE  age' \in [AllTasks -> Nat]
  <1> DEFINE a(t) == IF t \notin alloc' \/ Edge(t) THEN 0
                     ELSE IF AtTask(t) THEN age[t] + 1 ELSE age[t]
  <1>1. \A t \in AllTasks : age[t] \in Nat
    BY DEF TimeInv
  <1>2. \A t \in AllTasks : a(t) \in Nat
    BY <1>1
  <1>3. age' = [t \in AllTasks |-> a(t)]
    BY DEF CountAge
  <1> HIDE DEF a
  <1> QED BY <1>2, <1>3

\* In task context no iteration of the loop runs.
LEMMA NoTickTask == cursor = 0 => ~TickTask
  BY DEF TickTask

\* Steps that change neither counters nor blocks keep the invariant.
LEMMA TimeUnchanged ==
    ASSUME TimeInv, CountAge, ~TickTask, UNCHANGED <<alloc, period, ticks_until_wake>>
    PROVE  TimeInv'
  BY AgeUnchanged, AgeType DEF TimeInv

LEMMA TimeCreate ==
    ASSUME IInv, TimeInv, CountAge, NEW c, NEW n \in AllTasks, NEW p, NEW us,
           create_task(c, n, p, us), PeriodTicks(us) \in Nat
    PROVE  TimeInv'
  <1>1. ~TickTask
    BY DEF create_task, Thread, TickTask
  <1>2. /\ n \notin alloc /\ alloc' = alloc \cup {n}
        /\ period' = [period EXCEPT ![n] = PeriodTicks(us)]
        /\ ticks_until_wake' = [ticks_until_wake EXCEPT ![n] = PeriodTicks(us)]
    BY DEF create_task, NewArgs
  <1>3. /\ period \in [AllTasks -> Nat] /\ ticks_until_wake \in [AllTasks -> Nat]
        /\ alloc \subseteq AllTasks
    BY DEF IInv, TypeOK
  <1>4. \A t \in AllTasks : age'[t] = IF t \in alloc' THEN age[t] ELSE 0
    BY <1>1, AgeUnchanged
  <1>5. ASSUME NEW t \in AllTasks PROVE age'[t] + ticks_until_wake'[t] = period'[t]
    <2>1. CASE t = n
      <3>1. age[t] = 0 /\ age'[t] = 0
        BY <1>2, <1>4, <2>1 DEF TimeInv
      <3> QED BY <1>2, <1>3, <2>1, <3>1
    <2>2. CASE t # n
      <3>1. age'[t] = age[t]
        BY <1>2, <1>4, <2>2 DEF TimeInv
      <3> QED BY <1>2, <1>3, <2>2, <3>1 DEF TimeInv
    <2> QED BY <2>1, <2>2
  <1> QED BY <1>4, <1>5, AgeType DEF TimeInv

LEMMA TimeFree ==
    ASSUME IInv, TimeInv, CountAge, KernelFree
    PROVE  TimeInv'
  <1>1. ~TickTask
    BY DEF KernelFree, Thread, TickTask
  <1>2. /\ reaping \in AllTasks /\ reaping \in alloc /\ alloc' = alloc \ {reaping}
        /\ period' = [period EXCEPT ![reaping] = 0]
        /\ ticks_until_wake' = [ticks_until_wake EXCEPT ![reaping] = 0]
    BY DEF KernelFree, IInv, ReapingInv, AllTasks
  <1>3. /\ period \in [AllTasks -> Nat] /\ ticks_until_wake \in [AllTasks -> Nat]
    BY DEF IInv, TypeOK
  <1>4. \A t \in AllTasks : age'[t] = IF t \in alloc' THEN age[t] ELSE 0
    BY <1>1, AgeUnchanged
  <1>5. ASSUME NEW t \in AllTasks PROVE age'[t] + ticks_until_wake'[t] = period'[t]
    <2>1. CASE t = reaping
      BY <1>2, <1>3, <1>4, <2>1
    <2>2. CASE t # reaping
      <3>1. age'[t] = age[t]
        BY <1>2, <1>4, <2>2 DEF TimeInv
      <3> QED BY <1>2, <1>3, <2>2, <3>1 DEF TimeInv
    <2> QED BY <2>1, <2>2
  <1> QED BY <1>4, <1>5, AgeType DEF TimeInv

\* An iteration of rtos_tick's loop moves one tick from the ticks left to the
\* age, or starts a period.
LEMMA TimeTick ==
    ASSUME IInv, TimeInv, CountAge, TickTask
    PROVE  TimeInv'
  <1> DEFINE s == periodic_task_list[cursor]
  <1>1. /\ s \in AllTasks /\ s \in alloc /\ alloc' = alloc /\ period' = period
    <2>1. periodic_task_list \in Seq(AllTasks) /\ cursor \in 1..Len(periodic_task_list)
      BY DEF TickTask, IInv, TypeOK
    <2>2. s \in Periodic /\ s \in AllTasks
      BY <2>1, ToSetElements DEF Periodic
    <2> QED BY <2>2 DEF TickTask, tcbVars, newVars, IInv, ListsSound
  <1>2. ticks_until_wake' =
           [ticks_until_wake EXCEPT ![s] = IF ticks_until_wake[s] = 0 THEN period[s] ELSE @ - 1]
    BY DEF TickTask, rtos_tick
  <1>3. /\ period \in [AllTasks -> Nat] /\ ticks_until_wake \in [AllTasks -> Nat]
        /\ age \in [AllTasks -> Nat]
    BY DEF IInv, TypeOK, TimeInv
  <1> HIDE DEF s
  <1>4. \A t \in AllTasks : AtTask(t) <=> t = s
    BY DEF AtTask, s
  <1>5. \A t \in AllTasks : Edge(t) <=> t = s /\ ticks_until_wake[t] = 0
    BY <1>4 DEF Edge
  <1>6. \A t \in AllTasks :
          age'[t] = IF t \notin alloc \/ (t = s /\ ticks_until_wake[t] = 0) THEN 0
                    ELSE IF t = s THEN age[t] + 1 ELSE age[t]
    BY <1>1, <1>4, <1>5 DEF CountAge
  <1>7. ASSUME NEW t \in AllTasks PROVE age'[t] + ticks_until_wake'[t] = period'[t]
    <2>1. age[t] + ticks_until_wake[t] = period[t]
      BY DEF TimeInv
    <2>2. CASE t = s
      BY <1>1, <1>2, <1>3, <1>6, <2>1, <2>2
    <2>3. CASE t # s
      <3>1. age'[t] = age[t]
        BY <1>6, <2>3 DEF TimeInv
      <3> QED BY <1>1, <1>2, <1>3, <2>1, <2>3, <3>1
    <2> QED BY <2>2, <2>3
  <1> QED BY <1>1, <1>6, <1>7, AgeType DEF TimeInv

LEMMA TimeNext ==
    ASSUME IInv, TimeInv, [Next /\ CountAge]_varsT
    PROVE  TimeInv'
  <1>0. CASE UNCHANGED varsT
    BY <1>0 DEF varsT, vars, TimeInv, tcbVars, newVars
  <1> SUFFICES ASSUME Next, CountAge PROVE TimeInv'
    BY <1>0
  <1>1. ASSUME NEW c \in Tasks \cup {PreSwitch}, new_task(c) PROVE TimeInv'
    <2>1. ASSUME NEW n \in AllTasks,
                 NEW p \in Priorities \cup {KernelPriority, SleepPriority},
                 NEW us \in PeriodsUs \cup {KernelUs, 0}, create_task(c, n, p, us)
          PROVE  TimeInv'
      <3>1. us \in Nat
        BY PeriodAssumption
      <3> QED BY <2>1, <3>1, WordArithmetic, TimeCreate
    <2>2. CASE create_task_fails(c) \/ register_task(c) \/ CountRead(c) \/ CountWrite(c)
      <3>1. cursor = 0
        BY <2>2 DEF create_task_fails, register_task, CountRead, CountWrite, Thread
      <3>2. UNCHANGED <<alloc, period, ticks_until_wake>>
        BY <2>2 DEF create_task_fails, register_task, CountRead, CountWrite, tcbVars, newVars
      <3> QED BY <3>1, <3>2, NoTickTask, TimeUnchanged
    <2> QED BY <1>1, <2>1, <2>2 DEF new_task
  <1>2. ASSUME start_sched \/ (\E c \in Tasks : yield(c))
                 \/ (\E c \in Tasks, t \in AllTasks : svc_task_switch(c, t))
                 \/ (\E c \in Tasks, abort \in BOOLEAN : end_task(c, abort))
        PROVE  TimeInv'
    <2>1. ~TickTask
      BY <1>2 DEF start_sched, yield, svc_task_switch, end_task, Thread, TickTask
    <2>2. UNCHANGED <<alloc, period, ticks_until_wake>>
      BY <1>2 DEF start_sched, yield, svc_task_switch, end_task, tcbVars, newVars
    <2> QED BY <2>1, <2>2, TimeUnchanged
  <1>3. CASE KernelPop \/ KernelEnd
    <2>1. cursor = 0
      BY <1>3 DEF KernelPop, KernelEnd, Thread
    <2>2. UNCHANGED <<alloc, period, ticks_until_wake>>
      BY <1>3 DEF KernelPop, KernelEnd, tcbVars, newVars
    <2> QED BY <2>1, <2>2, NoTickTask, TimeUnchanged
  <1>4. CASE KernelFree
    BY <1>4, TimeFree
  <1>5. CASE Tick \/ TickSwitch
    <2>1. ~TickTask
      BY <1>5 DEF Tick, TickSwitch, TickTask
    <2>2. UNCHANGED <<alloc, period, ticks_until_wake>>
      BY <1>5 DEF Tick, TickSwitch, tcbVars, newVars
    <2> QED BY <2>1, <2>2, TimeUnchanged
  <1>6. CASE TickTask
    BY <1>6, TimeTick
  <1> QED BY <1>1, <1>2, <1>3, <1>4, <1>5, <1>6 DEF Next, kernel_task, sched_system_tick

\* Whatever other tasks do, and however late a task runs, period + 1 ticks
\* separate two of its period edges.
THEOREM PeriodsAreEven == SpecT => EvenlySpaced
  <1>1. InitT => IInv /\ TimeInv
    BY InitInv, TimeInit DEF InitT
  <1>2. IInv /\ [Next /\ CountAge]_varsT => IInv'
    <2>1. [Next /\ CountAge]_varsT => [Next]_vars
      BY DEF varsT
    <2> QED BY <2>1, NextInv
  <1>3. IInv /\ TimeInv /\ [Next /\ CountAge]_varsT => TimeInv'
    BY TimeNext
  <1>4. IInv /\ TimeInv =>
           [\A t \in AllTasks : Edge(t) => age[t] + 1 = period[t] + 1]_varsT
    <2> SUFFICES ASSUME IInv, TimeInv, NEW t \in AllTasks, Edge(t)
                 PROVE  age[t] + 1 = period[t] + 1
      OBVIOUS
    <2>1. age[t] \in Nat /\ age[t] + 0 = period[t]
      BY DEF TimeInv, Edge
    <2> QED BY <2>1
  <1> QED BY <1>1, <1>2, <1>3, <1>4, PTL DEF SpecT, EvenlySpaced
================================================================================
