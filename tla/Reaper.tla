-------------------------------- MODULE Reaper --------------------------------
(***************************************************************************)
(* kernel_task and the free_task_list, link by link.                       *)
(*                                                                         *)
(* sched_svc_end_task adds a task that ended at the head of the list, in a *)
(* service call.  kernel_task pops the tail in task context, where it can  *)
(* be preempted between any two accesses to the links.  Another task can   *)
(* then run, and end, only if its priority is not below that of            *)
(* kernel_task (10): the constant Preempt says whether there are such.     *)
(***************************************************************************)
EXTENDS Naturals, TLAPS

CONSTANTS
    Tasks,      \* addresses of task_ctrl blocks
    Head,       \* the list head free_task_list itself
    Mutexes,    \* mutexes a task may hold when it ends
    Null,       \* a NULL pointer
    Preempt     \* TRUE if tasks of kernel_task's priority or more exist

ASSUME ReaperAssumption ==
    /\ Head \notin Tasks
    /\ Null \notin Mutexes
    /\ Preempt \in BOOLEAN

Nodes == Tasks \cup {Head}

VARIABLES
    next, prev,     \* the links of the free list
    state,          \* of a task_ctrl: "unused", "live", "ended"
    held,           \* the held_mutexes of a task (one slot)
    locked,         \* the mutexes that are locked
    kpc,            \* where kernel_task is
    tail,           \* kernel_task's list_pop: the element,
    before, after   \* and its neighbours

vars == <<next, prev, state, held, locked, kpc, tail, before, after>>

kernelVars == <<kpc, tail, before, after>>

TypeOK ==
    /\ next \in [Nodes -> Nodes]
    /\ prev \in [Nodes -> Nodes]
    /\ state \in [Tasks -> {"unused", "live", "ended"}]
    /\ held \in [Tasks -> Mutexes \cup {Null}]
    /\ locked \subseteq Mutexes
    /\ kpc \in {"idle", "test", "links", "unlink", "unlink2", "release",
                "free", "corrupt"}
    /\ tail \in Nodes /\ before \in Nodes /\ after \in Nodes

Init ==
    /\ next = [n \in Nodes |-> n]
    /\ prev = [n \in Nodes |-> n]
    /\ state = [t \in Tasks |-> "unused"]
    /\ held = [t \in Tasks |-> Null]
    /\ locked = {}
    /\ kpc = "idle"
    /\ tail = Head /\ before = Head /\ after = Head

\* Other tasks run: kernel_task has returned, or it is preempted.
OthersRun == kpc = "idle" \/ (Preempt /\ kpc # "corrupt")

\* new_task: create_task initialises the block and its list links.
new_task(t) ==
    /\ OthersRun
    /\ state[t] = "unused"
    /\ state' = [state EXCEPT ![t] = "live"]
    /\ held' = [held EXCEPT ![t] = Null]
    /\ next' = [next EXCEPT ![t] = t]
    /\ prev' = [prev EXCEPT ![t] = t]
    /\ UNCHANGED <<locked, kernelVars>>

\* The task acquires a mutex and does not release it.
acquire(t, m) ==
    /\ OthersRun
    /\ state[t] = "live" /\ held[t] = Null
    /\ m \notin locked
    /\ held' = [held EXCEPT ![t] = m]
    /\ locked' = locked \cup {m}
    /\ UNCHANGED <<next, prev, state, kernelVars>>

\* list_insert without its last assignment, after->prev = new.
AddOneWay(t) ==
    LET first == next[Head]
    IN  /\ next' = [next EXCEPT ![Head] = t, ![t] = first]
        /\ prev' = [prev EXCEPT ![t] = Head]

\* list_insert(new, before, after), atomic inside a service call; list_add of
\* the element t is an insertion between Head and its first element.
list_add(t) ==
    LET first == next[Head]
    IN  /\ next' = [next EXCEPT ![Head] = t, ![t] = first]
        /\ prev' = [prev EXCEPT ![t] = Head, ![first] = t]

\* sched_svc_end_task of a task that is not periodic, or aborts.
sched_svc_end_task(t) ==
    /\ OthersRun
    /\ state[t] = "live"
    /\ state' = [state EXCEPT ![t] = "ended"]
    /\ list_add(t)
    /\ UNCHANGED <<held, locked, kernelVars>>

-------------------------------------------------------------------------------
(* kernel_task *)

\* The period of kernel_task: it starts from the beginning.
Wake ==
    /\ kpc = "idle"
    /\ kpc' = "test"
    /\ UNCHANGED <<next, prev, state, held, locked, tail, before, after>>

\* A list_empty that compares the two links of the head: a list of one
\* element counts as empty.
TestMissesLast ==
    /\ kpc = "test"
    /\ \/ /\ next[Head] = prev[Head]
          /\ kpc' = "idle"
          /\ UNCHANGED tail
       \/ /\ next[Head] # prev[Head]
          /\ tail' = prev[Head]
          /\ kpc' = "links"
    /\ UNCHANGED <<next, prev, state, held, locked, before, after>>

\* while (!list_empty(&free_task_list)), and list_tail of list_pop_tail
Test ==
    /\ kpc = "test"
    /\ \/ /\ next[Head] = Head
          /\ kpc' = "idle"
          /\ UNCHANGED tail
       \/ /\ next[Head] # Head
          /\ tail' = prev[Head]
          /\ kpc' = "links"
    /\ UNCHANGED <<next, prev, state, held, locked, before, after>>

\* list_remove: the neighbours are read ...
Links ==
    /\ kpc = "links"
    /\ before' = prev[tail]
    /\ after' = next[tail]
    /\ kpc' = "unlink"
    /\ UNCHANGED <<next, prev, state, held, locked, tail>>

\* A list_remove that leaves before->next as it was.
UnlinkNothing ==
    /\ kpc = "unlink"
    /\ kpc' = "unlink2"
    /\ UNCHANGED <<next, prev, state, held, locked, tail, before, after>>

\* ... before->next = after ...
Unlink ==
    /\ kpc = "unlink"
    /\ next' = [next EXCEPT ![before] = after]
    /\ kpc' = "unlink2"
    /\ UNCHANGED <<prev, state, held, locked, tail, before, after>>

\* A list_remove that also clears the links of the element it takes out.
UnlinkClears ==
    /\ kpc = "unlink2"
    /\ prev' = [prev EXCEPT ![after] = before, ![tail] = Null]
    /\ kpc' = IF tail = Head THEN "corrupt" ELSE "release"
    /\ UNCHANGED <<next, state, held, locked, tail, before, after>>

\* ... and after->prev = before.  A list head in place of a task is read and
\* freed as if it were one: from then on anything can happen.
Unlink2 ==
    /\ kpc = "unlink2"
    /\ prev' = [prev EXCEPT ![after] = before]
    /\ kpc' = IF tail = Head THEN "corrupt" ELSE "release"
    /\ UNCHANGED <<next, state, held, locked, tail, before, after>>

\* A kernel_task that frees the task and leaves its mutexes locked.
ReleaseNothing ==
    /\ kpc = "release"
    /\ kpc' = "free"
    /\ UNCHANGED <<next, prev, state, held, locked, tail, before, after>>

\* The loop over held_mutexes with its call of release.
Release ==
    /\ kpc = "release"
    /\ locked' = locked \ {held[tail]}
    /\ kpc' = "free"
    /\ UNCHANGED <<next, prev, state, held, tail, before, after>>

\* free_task; the block's fields are dead and here reset.
free_task ==
    /\ kpc = "free"
    /\ state' = [state EXCEPT ![tail] = "unused"]
    /\ held' = [held EXCEPT ![tail] = Null]
    /\ next' = [next EXCEPT ![tail] = tail]
    /\ prev' = [prev EXCEPT ![tail] = tail]
    /\ kpc' = "test"
    /\ tail' = Head /\ before' = Head /\ after' = Head
    /\ UNCHANGED locked

kernel_task ==
    Wake \/ Test \/ Links \/ Unlink \/ Unlink2 \/ Release \/ free_task

Next ==
    \/ \E t \in Tasks : new_task(t)
    \/ \E t \in Tasks, m \in Mutexes : acquire(t, m)
    \/ \E t \in Tasks : sched_svc_end_task(t)
    \/ kernel_task

\* kernel_task is woken every period and makes progress when it is current.
Spec == Init /\ [][Next]_vars /\ WF_vars(kernel_task)

-------------------------------------------------------------------------------
\* While kernel_task does not unlink an element, the links of the free list
\* agree in both directions, and exactly the ended tasks that kernel_task has
\* not popped are in the list, each once.
\* kernel_task frees a task that ended, and no task twice: what it is about to
\* free is an ended task that the list no longer holds.
FreeListSound ==
    /\ TypeOK
    /\ kpc \in {"idle", "test", "links"} =>
          /\ \A n \in Nodes : prev[next[n]] = n
          /\ \A t \in Tasks : state[t] = "ended" <=> next[t] # t
    /\ kpc \in {"release", "free"} =>
          /\ state[tail] = "ended"
          /\ \A n \in Nodes \ {tail} : next[n] # tail /\ prev[n] # tail

\* A mutex is locked only while some task, live or waiting to be freed, holds
\* it: freeing a task never leaves one of its mutexes locked.
NoOrphanMutex ==
    \A m \in locked : \E t \in Tasks : state[t] # "unused" /\ held[t] = m

(* The inductive invariant behind both when no task preempts kernel_task, in *)
(* parts.                                                                    *)

\* The links of the nodes in S lead to nodes in S, and back.
Linked(S) ==
    \A n \in S : /\ next[n] \in S /\ prev[n] \in S
                 /\ prev[next[n]] = n /\ next[prev[n]] = n

\* Which of the tasks in S are in the list shows in their links.
EndedAreLinked(S) == \A t \in S : state[t] = "ended" <=> next[t] # t

\* The free list as list_remove takes its last element out of it: before the
\* first assignment, between the two, and until the element is freed.
WholeInv ==
    kpc \in {"idle", "test", "links", "unlink"} => Linked(Nodes) /\ EndedAreLinked(Tasks)

TailInv ==
    /\ kpc \in {"links", "unlink"} => tail = prev[Head]
    /\ kpc \in {"links", "unlink", "unlink2", "release", "free"} =>
          tail \in Tasks /\ state[tail] = "ended"
    /\ kpc \in {"unlink", "unlink2"} => before = prev[tail] /\ after = Head

HalfInv ==
    kpc = "unlink2" =>
        /\ before # tail /\ next[before] = Head /\ prev[Head] = tail
        /\ \A n \in Nodes \ {tail, before} : next[n] # tail /\ prev[next[n]] = n
        /\ \A n \in Nodes \ {tail, Head} : prev[n] # tail /\ next[prev[n]] = n
        /\ EndedAreLinked(Tasks \ {tail})

OutInv ==
    kpc \in {"release", "free"} => Linked(Nodes \ {tail}) /\ EndedAreLinked(Tasks \ {tail})

\* The task about to be freed has released its mutex.
FreedInv == kpc = "free" => held[tail] \notin locked

RInv ==
    /\ TypeOK
    /\ WholeInv
    /\ TailInv
    /\ HalfInv
    /\ OutInv
    /\ FreedInv
    /\ NoOrphanMutex
    /\ kpc # "corrupt"

\* mutex.c on a holder that "recently ended without releasing the mutex": "In
\* that case, the kernel task will release the mutex on its next run."
AbandonedReleased ==
    \A t \in Tasks, m \in Mutexes :
        (state[t] = "ended" /\ held[t] = m /\ m \in locked)
            ~> (state[t] = "unused" \/ m \notin locked)

-------------------------------------------------------------------------------
(* Proofs, for any number of tasks and mutexes, when no task has the priority to
   preempt kernel_task: what list_remove does to the links between its assignments,
   and that kernel_task frees each ended task once and leaves none of its mutexes
   locked *)

LEMMA ReaperInit == Init => RInv
  <1> SUFFICES ASSUME Init PROVE RInv
    OBVIOUS
  <1>1. TypeOK
    BY DEF Init, TypeOK, Nodes
  <1>2. WholeInv
    BY ReaperAssumption DEF Init, WholeInv, Linked, EndedAreLinked, Nodes
  <1> QED BY <1>1, <1>2 DEF Init, RInv, TailInv, HalfInv, OutInv, FreedInv, NoOrphanMutex

-------------------------------------------------------------------------------
(* The other tasks *)

\* A step of another task, while kernel_task waits for its next period.
LEMMA OtherInv ==
    ASSUME RInv, TypeOK', kpc = "idle", UNCHANGED kernelVars,
           WholeInv', NoOrphanMutex'
    PROVE  RInv'
  BY DEF RInv, TailInv, HalfInv, OutInv, FreedInv, kernelVars

LEMMA NewTaskInv ==
    ASSUME RInv, ~Preempt, NEW t \in Tasks, new_task(t)
    PROVE  RInv'
  <1>1. /\ kpc = "idle" /\ state[t] = "unused"
        /\ state' = [state EXCEPT ![t] = "live"]
        /\ held' = [held EXCEPT ![t] = Null]
        /\ next' = [next EXCEPT ![t] = t] /\ prev' = [prev EXCEPT ![t] = t]
        /\ UNCHANGED <<locked, kernelVars>>
    BY DEF new_task, OthersRun
  <1>2. TypeOK'
    BY <1>1 DEF RInv, TypeOK, Nodes, kernelVars
  <1>3. next[t] = t /\ prev[t] = t
    BY <1>1 DEF RInv, WholeInv, Linked, EndedAreLinked, Nodes
  <1>4. next' = next /\ prev' = prev
    BY <1>1, <1>3 DEF RInv, TypeOK, Nodes
  <1>5. WholeInv'
    BY <1>1, <1>3, <1>4 DEF RInv, TypeOK, WholeInv, Linked, EndedAreLinked, kernelVars
  <1>6. NoOrphanMutex'
    BY <1>1 DEF RInv, TypeOK, NoOrphanMutex
  <1> QED BY <1>1, <1>2, <1>5, <1>6, OtherInv

LEMMA AcquireInv ==
    ASSUME RInv, ~Preempt, NEW t \in Tasks, NEW m \in Mutexes, acquire(t, m)
    PROVE  RInv'
  <1>1. /\ kpc = "idle" /\ state[t] = "live" /\ held[t] = Null
        /\ held' = [held EXCEPT ![t] = m]
        /\ locked' = locked \cup {m}
        /\ UNCHANGED <<next, prev, state, kernelVars>>
    BY DEF acquire, OthersRun
  <1>2. TypeOK'
    BY <1>1 DEF RInv, TypeOK, kernelVars
  <1>3. WholeInv'
    BY <1>1 DEF RInv, WholeInv, Linked, EndedAreLinked, kernelVars
  <1>4. NoOrphanMutex'
    BY <1>1, ReaperAssumption DEF RInv, TypeOK, NoOrphanMutex
  <1> QED BY <1>1, <1>2, <1>3, <1>4, OtherInv

\* list_add between the head and its first element.
LEMMA ListAdd ==
    ASSUME TypeOK, Linked(Nodes), NEW t \in Tasks, next[t] = t, list_add(t)
    PROVE  /\ next' \in [Nodes -> Nodes] /\ prev' \in [Nodes -> Nodes]
           /\ Linked(Nodes)'
           /\ next'[t] # t
           /\ \A u \in Tasks \ {t} : next'[u] = next[u]
  <1> DEFINE first == next[Head]
  <1>1. /\ first \in Nodes /\ prev[first] = Head /\ t \in Nodes /\ Head \in Nodes /\ t # Head
        /\ prev[t] = t /\ first # t
    BY ReaperAssumption DEF TypeOK, Linked, Nodes
  <1>2. /\ next' = [next EXCEPT ![Head] = t, ![t] = first]
        /\ prev' = [prev EXCEPT ![t] = Head, ![first] = t]
    BY DEF list_add
  <1> HIDE DEF first
  <1>3. next' \in [Nodes -> Nodes] /\ prev' \in [Nodes -> Nodes]
    BY <1>1, <1>2 DEF TypeOK
  <1>4. /\ next'[Head] = t /\ next'[t] = first /\ \A n \in Nodes \ {t, Head} : next'[n] = next[n]
        /\ prev'[t] = Head /\ prev'[first] = t /\ \A n \in Nodes \ {t, first} : prev'[n] = prev[n]
    BY <1>1, <1>2 DEF TypeOK
  <1>5. \A n \in Nodes : prev'[next'[n]] = n
    BY <1>1, <1>4 DEF Linked, first
  <1>6. \A n \in Nodes : next'[prev'[n]] = n
    BY <1>1, <1>4 DEF Linked, first
  <1>7. Linked(Nodes)'
    BY <1>3, <1>5, <1>6 DEF Linked, Nodes
  <1> QED BY <1>1, <1>3, <1>4, <1>7, ReaperAssumption DEF Nodes

LEMMA EndTaskInv ==
    ASSUME RInv, ~Preempt, NEW t \in Tasks, sched_svc_end_task(t)
    PROVE  RInv'
  <1>1. /\ kpc = "idle" /\ state[t] = "live"
        /\ state' = [state EXCEPT ![t] = "ended"]
        /\ list_add(t)
        /\ UNCHANGED <<held, locked, kernelVars>>
    BY DEF sched_svc_end_task, OthersRun
  <1>2. Linked(Nodes) /\ EndedAreLinked(Tasks) /\ TypeOK
    BY <1>1 DEF RInv, WholeInv
  <1>3. next[t] = t
    BY <1>1, <1>2 DEF EndedAreLinked
  <1>4. /\ next' \in [Nodes -> Nodes] /\ prev' \in [Nodes -> Nodes]
        /\ Linked(Nodes)'
        /\ next'[t] # t
        /\ \A u \in Tasks \ {t} : next'[u] = next[u]
    BY <1>1, <1>2, <1>3, ListAdd
  <1>5. TypeOK'
    BY <1>1, <1>2, <1>4 DEF TypeOK, kernelVars
  <1>6. WholeInv'
    BY <1>1, <1>2, <1>4 DEF TypeOK, WholeInv, EndedAreLinked, kernelVars
  <1>7. NoOrphanMutex'
    BY <1>1, <1>2 DEF RInv, TypeOK, NoOrphanMutex
  <1> QED BY <1>1, <1>5, <1>6, <1>7, OtherInv

-------------------------------------------------------------------------------
(* kernel_task *)

LEMMA WakeInv ==
    ASSUME RInv, Wake
    PROVE  RInv'
  BY DEF Wake, RInv, TypeOK, WholeInv, TailInv, HalfInv, OutInv, FreedInv, NoOrphanMutex,
         Linked, EndedAreLinked

\* The tail of a list that is not empty is a task that ended.
LEMMA TestInv ==
    ASSUME RInv, Test
    PROVE  RInv'
  <1>1. kpc = "test" /\ UNCHANGED <<next, prev, state, held, locked, before, after>>
    BY DEF Test
  <1>2. Linked(Nodes) /\ EndedAreLinked(Tasks) /\ TypeOK /\ Head \in Nodes
    BY <1>1 DEF RInv, WholeInv, Nodes
  <1>3. CASE kpc' = "idle" /\ tail' = tail
    BY <1>1, <1>2, <1>3 DEF RInv, TypeOK, WholeInv, TailInv, HalfInv, OutInv, FreedInv,
       NoOrphanMutex, Linked, EndedAreLinked
  <1>4. CASE next[Head] # Head /\ tail' = prev[Head] /\ kpc' = "links"
    <2>1. prev[Head] # Head
      BY <1>2, <1>4 DEF Linked
    <2>2. prev[Head] \in Tasks
      BY <1>2, <2>1 DEF TypeOK, Nodes
    <2>3. next[prev[Head]] = Head
      BY <1>2 DEF Linked
    <2>4. state[prev[Head]] = "ended"
      BY <1>2, <2>1, <2>2, <2>3 DEF EndedAreLinked
    <2>5. TypeOK'
      BY <1>1, <1>2, <1>4, <2>2 DEF TypeOK, Nodes
    <2>6. WholeInv' /\ NoOrphanMutex'
      BY <1>1, <1>2 DEF RInv, WholeInv, Linked, EndedAreLinked, NoOrphanMutex
    <2> QED BY <1>1, <1>4, <2>2, <2>4, <2>5, <2>6 DEF RInv, TailInv, HalfInv, OutInv, FreedInv
  <1> QED BY <1>3, <1>4 DEF Test

LEMMA LinksInv ==
    ASSUME RInv, Links
    PROVE  RInv'
  <1>1. /\ kpc = "links" /\ kpc' = "unlink"
        /\ before' = prev[tail] /\ after' = next[tail]
        /\ UNCHANGED <<next, prev, state, held, locked, tail>>
    BY DEF Links
  <1>2. /\ Linked(Nodes) /\ EndedAreLinked(Tasks) /\ TypeOK /\ NoOrphanMutex
        /\ tail \in Tasks /\ state[tail] = "ended" /\ tail = prev[Head]
    BY <1>1 DEF RInv, WholeInv, TailInv
  <1>3. next[tail] = Head
    BY <1>2 DEF Linked, Nodes
  <1>4. TypeOK'
    BY <1>1, <1>2 DEF TypeOK, Nodes
  <1>5. WholeInv' /\ NoOrphanMutex'
    BY <1>1, <1>2 DEF WholeInv, Linked, EndedAreLinked, NoOrphanMutex
  <1> QED BY <1>1, <1>2, <1>3, <1>4, <1>5 DEF RInv, TailInv, HalfInv, OutInv, FreedInv

\* Between the two assignments only the head's prev still leads to the tail.
LEMMA UnlinkInv ==
    ASSUME RInv, Unlink
    PROVE  RInv'
  <1>1. /\ kpc = "unlink" /\ kpc' = "unlink2"
        /\ next' = [next EXCEPT ![before] = after]
        /\ UNCHANGED <<prev, state, held, locked, tail, before, after>>
    BY DEF Unlink
  <1>2. /\ Linked(Nodes) /\ EndedAreLinked(Tasks) /\ TypeOK /\ NoOrphanMutex
        /\ tail \in Tasks /\ state[tail] = "ended" /\ tail = prev[Head]
        /\ before = prev[tail] /\ after = Head
    BY <1>1 DEF RInv, WholeInv, TailInv
  <1>3. /\ tail \in Nodes /\ Head \in Nodes /\ before \in Nodes
        /\ next[tail] = Head /\ next[before] = tail /\ tail # Head
    BY <1>2, ReaperAssumption DEF Linked, Nodes
  <1>4. before # tail
    BY <1>3
  <1>5. next'[before] = Head /\ \A n \in Nodes \ {before} : next'[n] = next[n]
    BY <1>1, <1>2, <1>3 DEF TypeOK
  <1>6. TypeOK'
    BY <1>1, <1>2, <1>3 DEF TypeOK
  <1>7. \A n \in Nodes \ {tail, before} : next'[n] # tail /\ prev'[next'[n]] = n
    BY <1>1, <1>2, <1>3, <1>5 DEF Linked
  <1>8. \A n \in Nodes \ {tail, Head} : prev'[n] # tail /\ next'[prev'[n]] = n
    BY <1>1, <1>2, <1>3, <1>5 DEF Linked
  <1>9. EndedAreLinked(Tasks \ {tail})'
    <2>1. \A u \in Tasks \ {tail, before} : state'[u] = "ended" <=> next'[u] # u
      BY <1>1, <1>2, <1>5 DEF EndedAreLinked, Nodes
    <2>2. before \in Tasks => state'[before] = "ended" /\ next'[before] # before
      BY <1>1, <1>2, <1>3, <1>4, <1>5, ReaperAssumption DEF EndedAreLinked
    <2> QED BY <1>1, <2>1, <2>2 DEF EndedAreLinked
  <1>10. HalfInv'
    BY <1>1, <1>2, <1>4, <1>5, <1>7, <1>8, <1>9 DEF HalfInv
  <1>11. NoOrphanMutex' /\ TailInv'
    BY <1>1, <1>2 DEF NoOrphanMutex, TailInv
  <1> QED BY <1>1, <1>6, <1>10, <1>11 DEF RInv, WholeInv, OutInv, FreedInv

\* After both the tail is in nobody's links.
LEMMA Unlink2Inv ==
    ASSUME RInv, Unlink2
    PROVE  RInv'
  <1>1. /\ kpc = "unlink2"
        /\ prev' = [prev EXCEPT ![after] = before]
        /\ kpc' = IF tail = Head THEN "corrupt" ELSE "release"
        /\ UNCHANGED <<next, state, held, locked, tail, before, after>>
    BY DEF Unlink2
  <1>2. /\ TypeOK /\ NoOrphanMutex
        /\ tail \in Tasks /\ state[tail] = "ended" /\ after = Head
        /\ before # tail /\ next[before] = Head /\ prev[Head] = tail
        /\ \A n \in Nodes \ {tail, before} : next[n] # tail /\ prev[next[n]] = n
        /\ \A n \in Nodes \ {tail, Head} : prev[n] # tail /\ next[prev[n]] = n
        /\ EndedAreLinked(Tasks \ {tail})
    BY <1>1 DEF RInv, TailInv, HalfInv
  <1>3. tail # Head /\ Head \in Nodes /\ before \in Nodes /\ kpc' = "release"
    BY <1>1, <1>2, ReaperAssumption DEF Nodes, TypeOK
  <1>4. prev'[Head] = before /\ \A n \in Nodes \ {Head} : prev'[n] = prev[n]
    BY <1>1, <1>2, <1>3 DEF TypeOK
  <1>5. TypeOK'
    BY <1>1, <1>2, <1>3 DEF TypeOK
  <1>6. Linked(Nodes \ {tail})'
    <2>1. \A n \in Nodes \ {tail} : next[n] \in Nodes \ {tail}
      BY <1>2, <1>3 DEF TypeOK
    <2>2. \A n \in Nodes \ {tail} : prev'[n] \in Nodes \ {tail}
      BY <1>2, <1>3, <1>4 DEF TypeOK
    <2>3. \A n \in Nodes \ {tail} : prev'[next[n]] = n
      BY <1>2, <1>3, <1>4, <2>1
    <2>4. \A n \in Nodes \ {tail} : next[prev'[n]] = n
      BY <1>2, <1>3, <1>4
    <2> QED BY <1>1, <2>1, <2>2, <2>3, <2>4 DEF Linked, Nodes
  <1>7. EndedAreLinked(Tasks \ {tail})' /\ NoOrphanMutex'
    BY <1>1, <1>2 DEF EndedAreLinked, NoOrphanMutex
  <1> QED BY <1>1, <1>2, <1>3, <1>5, <1>6, <1>7
          DEF RInv, WholeInv, TailInv, HalfInv, OutInv, FreedInv

LEMMA ReleaseInv ==
    ASSUME RInv, Release
    PROVE  RInv'
  <1>1. /\ kpc = "release" /\ kpc' = "free"
        /\ locked' = locked \ {held[tail]}
        /\ UNCHANGED <<next, prev, state, held, tail, before, after>>
    BY DEF Release
  <1>2. TypeOK'
    BY <1>1 DEF RInv, TypeOK
  <1>3. TailInv' /\ OutInv'
    BY <1>1 DEF RInv, TailInv, OutInv, Linked, EndedAreLinked, Nodes
  <1>4. NoOrphanMutex'
    BY <1>1 DEF RInv, NoOrphanMutex
  <1> QED BY <1>1, <1>2, <1>3, <1>4 DEF RInv, WholeInv, HalfInv, FreedInv

LEMMA FreeTaskInv ==
    ASSUME RInv, free_task
    PROVE  RInv'
  <1>1. /\ kpc = "free" /\ kpc' = "test"
        /\ state' = [state EXCEPT ![tail] = "unused"]
        /\ held' = [held EXCEPT ![tail] = Null]
        /\ next' = [next EXCEPT ![tail] = tail]
        /\ prev' = [prev EXCEPT ![tail] = tail]
        /\ tail' = Head /\ before' = Head /\ after' = Head
        /\ UNCHANGED locked
    BY DEF free_task
  <1>2. /\ TypeOK /\ tail \in Tasks /\ tail \in Nodes /\ held[tail] \notin locked
        /\ Linked(Nodes \ {tail}) /\ EndedAreLinked(Tasks \ {tail})
    BY <1>1 DEF RInv, TailInv, OutInv, FreedInv, Nodes
  <1>3. TypeOK'
    BY <1>1, <1>2 DEF TypeOK, Nodes
  <1>4. /\ next'[tail] = tail /\ prev'[tail] = tail /\ state'[tail] = "unused"
        /\ \A n \in Nodes \ {tail} : next'[n] = next[n] /\ prev'[n] = prev[n]
        /\ \A u \in Tasks \ {tail} : state'[u] = state[u] /\ held'[u] = held[u]
    BY <1>1, <1>2 DEF TypeOK
  <1>5. Linked(Nodes)'
    BY <1>2, <1>4 DEF Linked, Nodes
  <1>6. EndedAreLinked(Tasks)'
    BY <1>2, <1>4 DEF EndedAreLinked, Nodes
  <1>7. NoOrphanMutex'
    BY <1>1, <1>2, <1>4 DEF RInv, NoOrphanMutex
  <1> QED BY <1>1, <1>3, <1>5, <1>6, <1>7
          DEF RInv, WholeInv, TailInv, HalfInv, OutInv, FreedInv

-------------------------------------------------------------------------------
(* The theorems *)

LEMMA ReaperNext ==
    ASSUME RInv, ~Preempt, [Next]_vars
    PROVE  RInv'
  <1>1. CASE UNCHANGED vars
    BY <1>1 DEF vars, kernelVars, RInv, TypeOK, WholeInv, TailInv, HalfInv, OutInv, FreedInv,
       NoOrphanMutex, Linked, EndedAreLinked, Nodes
  <1>2. CASE kernel_task
    BY <1>2, WakeInv, TestInv, LinksInv, UnlinkInv, Unlink2Inv, ReleaseInv, FreeTaskInv
       DEF kernel_task
  <1>3. CASE Next /\ ~kernel_task
    BY <1>3, NewTaskInv, AcquireInv, EndTaskInv DEF Next
  <1> QED BY <1>1, <1>2, <1>3

\* kernel_task and the tasks that end keep the links of free_task_list
\* consistent (list.h, sched_svc_end_task, kernel_task), unless some task can
\* preempt kernel_task.
THEOREM ReaperInvariance == ~Preempt => (Spec => []RInv)
  <1> SUFFICES ASSUME ~Preempt PROVE Spec => []RInv
    OBVIOUS
  <1>1. RInv /\ [Next]_vars => RInv'
    BY ReaperNext
  <1> QED BY <1>1, ReaperInit, PTL DEF Spec

\* What kernel_task frees is an ended task that the list no longer holds.
THEOREM FreeListStaysSound == ~Preempt => (Spec => []FreeListSound)
  <1>1. RInv => FreeListSound
    <2> SUFFICES ASSUME RInv PROVE FreeListSound
      OBVIOUS
    <2>1. kpc \in {"idle", "test", "links"} =>
             /\ \A n \in Nodes : prev[next[n]] = n
             /\ \A t \in Tasks : state[t] = "ended" <=> next[t] # t
      BY DEF RInv, WholeInv, Linked, EndedAreLinked
    <2>2. kpc \in {"release", "free"} =>
             /\ state[tail] = "ended"
             /\ \A n \in Nodes \ {tail} : next[n] # tail /\ prev[n] # tail
      BY DEF RInv, TailInv, OutInv, Linked
    <2> QED BY <2>1, <2>2 DEF RInv, FreeListSound
  <1> QED BY <1>1, ReaperInvariance, PTL

\* Freeing a task never leaves one of its mutexes locked.
THEOREM NoMutexIsOrphaned == ~Preempt => (Spec => []NoOrphanMutex)
  <1>1. RInv => NoOrphanMutex
    BY DEF RInv
  <1> QED BY <1>1, ReaperInvariance, PTL
===============================================================================
