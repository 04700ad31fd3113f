-------------------------------- MODULE Mutex --------------------------------
(***************************************************************************)
(* The mutexes of kernel/mutex.c on top of the scheduler: acquire and      *)
(* release, their service calls, the hand-over to a waiting task, the      *)
(* deadlock check, and the release by kernel_task of the mutexes a task    *)
(* still held when it ended.                                               *)
(*                                                                         *)
(* A task acquires mutexes it chooses and releases those it holds; release *)
(* of a mutex that is not locked, which the code calls an error of the     *)
(* caller, and acquire_for_free, which nothing calls, are left out.        *)
(***************************************************************************)
EXTENDS Sched

CONSTANTS
    Mutexes,
    NoMutex,        \* a NULL struct mutex *
    BootTask,       \* 0x0badf00d, the holder before task switching
    HeldMax,        \* HELD_MUTEXES_MAX
    Abandon         \* TRUE if a task may end while it holds mutexes

ASSUME MutexAssumption ==
    /\ NoMutex \notin Mutexes
    /\ BootTask \notin AllTasks \cup {NoTask}
    /\ HeldMax \in Nat \ {0}
    /\ Abandon \in BOOLEAN

VARIABLES
    lock,           \* mutex->lock
    held_by,        \* mutex->held_by
    waiting,        \* mutex->waiting, the best waiter that is recorded
    held,           \* the held_mutexes of a task
    waits_on,       \* the waiting field of a task
    wants,          \* the mutex whose acquire loop the task is in
    releasing       \* what kernel_task's loop has still to release

mutexVars == <<lock, held_by, waiting, held, waits_on, wants, releasing>>
allVars == <<vars, mutexVars>>

MutexTypeOK ==
    /\ TypeOK
    /\ lock \in [Mutexes -> BOOLEAN]
    /\ held_by \in [Mutexes -> AllTasks \cup {NoTask, BootTask}]
    /\ waiting \in [Mutexes -> AllTasks \cup {NoTask}]
    /\ held \in [AllTasks -> SUBSET Mutexes]
    /\ waits_on \in [AllTasks -> Mutexes \cup {NoMutex}]
    /\ wants \in [AllTasks -> Mutexes \cup {NoMutex}]
    /\ releasing \subseteq Mutexes

MutexInit ==
    /\ Init
    /\ lock = [m \in Mutexes |-> FALSE]
    /\ held_by = [m \in Mutexes |-> NoTask]
    /\ waiting = [m \in Mutexes |-> NoTask]
    /\ held = [t \in AllTasks |-> {}]
    /\ waits_on = [t \in AllTasks |-> NoMutex]
    /\ wants = [t \in AllTasks |-> NoMutex]
    /\ releasing = {}

\* The variables of Sched that no mutex operation changes.
schedVars == <<task_switching, periodic_task_list, free_task_list,
               total_tasks, tcbVars, newVars, ticks_until_wake, reaping,
               cursor>>

-------------------------------------------------------------------------------
(* Before task switching: no service call, no waiting and no check. *)

BootAcquire(m) ==
    /\ Thread(PreSwitch)
    /\ lock' = [lock EXCEPT ![m] = TRUE]
    /\ held_by' = [held_by EXCEPT ![m] = BootTask]
    /\ UNCHANGED <<vars, waiting, held, waits_on, wants, releasing>>

BootRelease(m) ==
    /\ Thread(PreSwitch)
    /\ lock[m]
    /\ lock' = [lock EXCEPT ![m] = FALSE]
    /\ held_by' = [held_by EXCEPT ![m] = NoTask]
    /\ UNCHANGED <<vars, waiting, held, waits_on, wants, releasing>>

-------------------------------------------------------------------------------
(* svc_acquire *)

\* A get_lock that leaves the waiting field of the task set.
LocksStillWaiting(t, m) ==
    /\ ~lock[m]
    /\ Cardinality(held[t]) < HeldMax
    /\ lock' = [lock EXCEPT ![m] = TRUE]
    /\ held_by' = [held_by EXCEPT ![m] = t]
    /\ held' = [held EXCEPT ![t] = @ \cup {m}]
    /\ wants' = [wants EXCEPT ![t] = NoMutex]
    /\ UNCHANGED <<schedVars, curr_task, runnable_task_list, running, pc,
                   panic, waiting, waits_on, releasing>>

\* The compare-and-swap of get_lock succeeds.  held_mutexes_insert panics if
\* all slots are in use.
Locks(t, m) ==
    /\ ~lock[m]
    /\ lock' = [lock EXCEPT ![m] = TRUE]
    /\ held_by' = [held_by EXCEPT ![m] = t]
    /\ IF Cardinality(held[t]) < HeldMax
       THEN /\ held' = [held EXCEPT ![t] = @ \cup {m}]
            /\ waits_on' = [waits_on EXCEPT ![t] = NoMutex]
            /\ wants' = [wants EXCEPT ![t] = NoMutex]
            /\ panic' = panic
       ELSE panic' = "too many mutexes" /\ UNCHANGED <<held, waits_on, wants>>
    /\ UNCHANGED <<schedVars, curr_task, runnable_task_list, running, pc,
                   waiting, releasing>>

\* deadlock_check
DoubleAcquire(t, m) == held_by[m] = t
DeadlockFound(t, m) ==
    /\ waits_on[held_by[m]] # NoMutex
    /\ waits_on[held_by[m]] \in held[t]

\* The mutex is taken: the panics of get_lock and deadlock_check.
LockPanics(t, m) ==
    /\ lock[m]
    /\ \/ /\ held_by[m] = NoTask
          /\ panic' = "held_by unset"
       \/ /\ DoubleAcquire(t, m)
          /\ panic' = "double acquire"
       \/ /\ held_by[m] \in AllTasks \ {t}
          /\ DeadlockFound(t, m)
          /\ panic' = "deadlock"
    /\ UNCHANGED <<schedVars, curr_task, runnable_task_list, running, pc,
                   mutexVars>>

\* task_compare(t, u), as a difference of priorities
task_compare(t, u) == priority[t] - priority[u]

\* get_lock records the waiter that has the highest priority.
RecordWaiter(t, m) ==
    IF waiting[m] = NoTask \/ task_compare(waiting[m], t) < 0
    THEN /\ waiting' = [waiting EXCEPT ![m] = t]
         /\ waits_on' = [waits_on EXCEPT ![t] = m]
    ELSE UNCHANGED <<waiting, waits_on>>

\* A failing svc_acquire that only yields: a lower holder never runs.
YieldToAny(t, h) == switch_task(runnable_task_list, running, pc)

\* svc_acquire passes the processor to the holder, if it can run and does not
\* outrank the caller, else to whatever task the scheduler selects.
SwitchToHolder(t, h) ==
    IF task_runnable(h) /\ task_compare(h, t) <= 0
    THEN /\ Dispatch(h, running, pc)
         /\ UNCHANGED <<runnable_task_list, panic>>
    ELSE switch_task(runnable_task_list, running, pc)

Blocks(t, m) ==
    /\ lock[m]
    /\ held_by[m] \in AllTasks \ {t}
    /\ ~DeadlockFound(t, m)
    /\ RecordWaiter(t, m)
    /\ wants' = [wants EXCEPT ![t] = m]
    /\ SwitchToHolder(t, held_by[m])
    /\ UNCHANGED <<schedVars, lock, held_by, held, releasing>>

\* acquire(mutex): the service call, repeated until it succeeds.
acquire(t, m) ==
    /\ t \in Tasks
    /\ Thread(t)
    /\ pc[t] = "user"
    /\ wants[t] \in {NoMutex, m}
    /\ Locks(t, m) \/ LockPanics(t, m) \/ Blocks(t, m)

-------------------------------------------------------------------------------
(* svc_release by the task t, which need not be the holder. *)

\* A release that leaves the mutex in the list of held mutexes.
ReleaseKeepsHeld(t, m) ==
    /\ lock' = [lock EXCEPT ![m] = FALSE]
    /\ held_by' = [held_by EXCEPT ![m] = NoTask]
    /\ LET w == waiting[m]
       IN  IF w # NoTask /\ task_compare(w, t) >= 0
           THEN /\ waiting' = [waiting EXCEPT ![m] = NoTask]
                /\ IF task_runnable(w) THEN Dispatch(w, running, pc)
                   ELSE UNCHANGED <<curr_task, running, pc>>
           ELSE UNCHANGED <<waiting, curr_task, running, pc>>
    /\ UNCHANGED <<schedVars, runnable_task_list, panic, held, waits_on, wants>>

\* Mutants of svc_release: the holder is cleared but not the lock; the waiter
\* that is resumed stays recorded.
ReleaseKeepsLock(t, m) ==
    /\ held_by' = [held_by EXCEPT ![m] = NoTask]
    /\ held' = [held EXCEPT ![t] = @ \ {m}]
    /\ UNCHANGED <<schedVars, runnable_task_list, panic, lock, waiting,
                   curr_task, running, pc, waits_on, wants>>

ReleaseKeepsWaiter(t, m) ==
    /\ lock' = [lock EXCEPT ![m] = FALSE]
    /\ held_by' = [held_by EXCEPT ![m] = NoTask]
    /\ held' = [held EXCEPT ![t] = @ \ {m}]
    /\ IF waiting[m] # NoTask /\ task_compare(waiting[m], t) >= 0
       THEN Dispatch(waiting[m], running, pc)
       ELSE UNCHANGED <<curr_task, running, pc>>
    /\ UNCHANGED <<schedVars, runnable_task_list, panic, waiting, waits_on,
                   wants>>

\* The waiter is only resumed, and forgotten, if t does not outrank it.
svc_release(t, m) ==
    /\ lock' = [lock EXCEPT ![m] = FALSE]
    /\ held_by' = [held_by EXCEPT ![m] = NoTask]
    /\ held' = [held EXCEPT ![t] = @ \ {m}]
    /\ LET w == waiting[m]
       IN  IF w # NoTask /\ task_compare(w, t) >= 0
           THEN /\ waiting' = [waiting EXCEPT ![m] = NoTask]
                /\ IF task_runnable(w) THEN Dispatch(w, running, pc)
                   ELSE UNCHANGED <<curr_task, running, pc>>
           ELSE UNCHANGED <<waiting, curr_task, running, pc>>
    /\ UNCHANGED <<schedVars, runnable_task_list, panic, waits_on, wants>>

release(t, m) ==
    /\ t \in Tasks
    /\ Thread(t)
    /\ pc[t] = "user"
    /\ wants[t] = NoMutex
    /\ m \in held[t]
    /\ svc_release(t, m)
    /\ UNCHANGED releasing

-------------------------------------------------------------------------------
(* The scheduler's operations in the presence of mutexes. *)

\* A task in the loop of acquire does nothing else.
Free(t) == t \in Tasks => wants[t] = NoMutex

\* task_mutex_setup of create_task: a new task holds and awaits nothing.
task_mutex_setup(newTasks) ==
    /\ held' = [t \in AllTasks |-> IF t \in newTasks THEN {} ELSE held[t]]
    /\ waits_on' = [t \in AllTasks |->
                       IF t \in newTasks THEN NoMutex ELSE waits_on[t]]

NewTask(c) ==
    /\ Free(c)
    /\ new_task(c)
    /\ task_mutex_setup(alloc' \ alloc)
    /\ UNCHANGED <<lock, held_by, waiting, wants, releasing>>

\* What runs before the first switch releases the mutexes it acquires.
StartSched ==
    /\ start_sched
    /\ \A m \in Mutexes : ~lock[m]
    /\ UNCHANGED mutexVars

Yield(t) ==
    /\ Free(t)
    /\ yield(t)
    /\ UNCHANGED mutexVars

EndTask(t, abort) ==
    /\ Free(t)
    /\ Abandon \/ held[t] = {}
    /\ end_task(t, abort)
    /\ UNCHANGED mutexVars

\* kernel_task takes the held mutexes of the task it pops ...
PopTask ==
    /\ KernelPop
    /\ releasing' = held[reaping']
    /\ UNCHANGED <<lock, held_by, waiting, held, waits_on, wants>>

\* ... releases them one by one ...
ReleaseAbandoned(m) ==
    /\ Thread(KernelTask)
    /\ m \in releasing
    /\ svc_release(KernelTask, m)
    /\ releasing' = releasing \ {m}

\* A kernel_task that frees the task before its mutexes are released.
FreeTaskFirst ==
    /\ KernelFree
    /\ UNCHANGED mutexVars

\* ... and frees the task.
FreeTask ==
    /\ releasing = {}
    /\ KernelFree
    /\ UNCHANGED mutexVars

MutexKernelTask ==
    \/ PopTask
    \/ \E m \in Mutexes : ReleaseAbandoned(m)
    \/ FreeTask
    \/ KernelEnd /\ UNCHANGED mutexVars

MutexTick == sched_system_tick /\ UNCHANGED mutexVars

MutexNext ==
    \/ \E c \in Tasks \cup {PreSwitch} : NewTask(c)
    \/ \E m \in Mutexes : BootAcquire(m) \/ BootRelease(m)
    \/ StartSched
    \/ \E t \in Tasks, m \in Mutexes : acquire(t, m) \/ release(t, m)
    \/ \E t \in Tasks : Yield(t)
    \/ \E t \in Tasks, abort \in BOOLEAN : EndTask(t, abort)
    \/ MutexKernelTask
    \/ MutexTick

MutexSpec == MutexInit /\ [][MutexNext]_allVars

\* As in Sched; moreover a task in the loop of acquire repeats its service
\* call whenever it gets the processor, and a holder releases in the end.
MutexFairness ==
    /\ WF_allVars(MutexTick)
    /\ SF_allVars(MutexKernelTask)
    /\ WF_allVars(StartSched)
    /\ \A t \in Tasks : SF_allVars(pc[t] # "user" /\ NewTask(t))
    /\ \A t \in Tasks, m \in Mutexes :
          /\ SF_allVars(wants[t] = m /\ acquire(t, m))
          /\ SF_allVars(release(t, m))

FairMutexSpec == MutexSpec /\ MutexFairness

-------------------------------------------------------------------------------
(* Properties *)

\* The tasks that ended and are not freed yet.
Dead == Ended \cup (IF reaping = NoTask THEN {} ELSE {reaping})

\* The holder a mutex names and the lists of held mutexes tell the same: a
\* locked mutex is in the list of its holder and in no other, a free one in
\* none (but for those a dead task had and kernel_task has already released).
\* So get_lock never panics with "Semaphore not available, but held_by unset".
HeldConsistent ==
    /\ MutexTypeOK
    /\ panic # "held_by unset"
    /\ \A m \in Mutexes, t \in AllTasks :
          (lock[m] /\ held_by[m] = t /\ ~Stopped) => m \in held[t]
    /\ \A t \in alloc \ Dead : \A m \in held[t] : lock[m] /\ held_by[m] = t

\* A waiter that is recorded is real: it is in the acquire loop of the mutex,
\* or it has got the mutex since; so a hand-over never resumes a task that has
\* gone on to something else, nor one that was freed.
WaiterReal ==
    \A m \in Mutexes : waiting[m] # NoTask =>
        \/ wants[waiting[m]] = m
        \/ lock[m] /\ held_by[m] = waiting[m]

\* The deadlock panic is never a false alarm: each of the two tasks holds the
\* mutex whose acquire loop the other one is in or has just entered.
DeadlockReal ==
    panic = "deadlock" =>
        \E t \in Tasks, m \in Mutexes :
            /\ t # curr_task
            /\ held_by[m] = t /\ lock[m]
            /\ wants[t] \in held[curr_task]

\* What LockSpec sees of a mutex: its owner.
Owner == [m \in Mutexes |-> IF lock[m] THEN held_by[m] ELSE NoTask]

\* Mutexes implement locks: in particular no step takes a mutex from a live
\* task, and a task is not freed before its mutexes are.
Locked == INSTANCE LockSpec WITH
    Owners <- AllTasks \cup {BootTask},
    NoOwner <- NoTask,
    owner <- Owner,
    dead <- Dead
ImplementsLock == Locked!Spec

(* The inductive invariant behind HeldConsistent, WaiterReal, DeadlockReal  *)
(* and ImplementsLock, in parts; Sched's IInv is one of them.               *)

\* A mutex is locked if it has a holder: before task switching that is no
\* task, afterwards a user's task that is allocated and has it in its list.
HolderInv ==
    \A m \in Mutexes :
        /\ lock[m] <=> held_by[m] # NoTask
        /\ held_by[m] = BootTask => ~task_switching
        /\ held_by[m] \in AllTasks =>
              /\ task_switching
              /\ held_by[m] \in Tasks \cap alloc
              /\ ~Stopped => m \in held[held_by[m]]

\* What a task has in its list it holds, until kernel_task takes it over.
HeldInv == \A t \in alloc \ {reaping} : \A m \in held[t] : held_by[m] = t

\* kernel_task has still to release what the task it popped holds.
ReleasingInv ==
    releasing = IF reaping = NoTask THEN {}
                ELSE {m \in Mutexes : held_by[m] = reaping}

\* A task that waits has its own context and has not ended; the waiting field
\* of a task, if it is set, names the mutex the task waits for.
WaitsInv ==
    \A t \in AllTasks :
        /\ waits_on[t] # NoMutex => waits_on[t] = wants[t]
        /\ wants[t] # NoMutex => t \in (Tasks \cap alloc) \ Dead /\ running[t]

\* Where tasks release before they end, the dead hold nothing and the waiters
\* that are recorded are real.
DisciplineInv ==
    ~Abandon => /\ \A t \in Dead : held[t] = {}
                /\ WaiterReal

MInv ==
    /\ IInv
    /\ MutexTypeOK
    /\ HolderInv
    /\ HeldInv
    /\ ReleasingInv
    /\ WaitsInv
    /\ DisciplineInv
    /\ DeadlockReal
    /\ panic # "held_by unset"

\* While kernel_task does its work and holders release, a mutex some task
\* waits for does not stay with the same holder for ever.
NoStuckHolder ==
    \A m \in Mutexes, t \in Tasks :
        (lock[m] /\ held_by[m] = t /\ \E u \in Tasks : wants[u] = m)
            ~> (held_by[m] # t \/ Stopped)

\* Tasks and mutexes are interchangeable.
MutexSymmetry == Permutations(Tasks) \cup Permutations(Mutexes)
================================================================================
