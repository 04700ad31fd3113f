-------------------------------- MODULE Commands -------------------------------
(***************************************************************************)
(* The commands of the shell that start tasks of their own and share data  *)
(* with them: deq_test (usr/shell/shared_deq_test.c), whose three tasks    *)
(* use a deque (include/dev/shared_deq.h), and ipctest (usr/shell/         *)
(* ipctest.c), which leaves a shared memory to a reader.  A command is run *)
(* by the shell; a behaviour is one of either command.                     *)
(***************************************************************************)
EXTENDS Calls, Sequences, SequencesExt

CONSTANTS
    Hurried     \* whether ipctest is called again before its last reader has ended

CommandsAssumption == Hurried \in BOOLEAN

-------------------------------------------------------------------------------
(* deq_test.  Messages are numbered in the order in which they are allocated. *)

Actors == {"deq_test", "t1", "t2"}
None == 0
MaxMessages == 5        \* three, and one from each of t1 and t2

DeqInit ==
    dev = [command |-> "deq_test", deque |-> <<>>, next |-> 1, live |-> {}, free |-> TRUE,
           at |-> [a \in Actors |-> IF a = "deq_test" THEN "malloc" ELSE "none"],
           l |-> [a \in Actors |-> None], toAdd |-> [a \in Actors |-> <<>>],
           added |-> <<>>, got |-> <<>>]

Frame == UNCHANGED <<hw, lock, pc, loc>>

In(a, s) == dev.command = "deq_test" /\ dev.at[a] = s

\* The result for m2 and m3 is not tested (m1 is, again): they are taken to succeed.
malloc ==
    /\ In("deq_test", "malloc")
    /\ \/ dev' = [dev EXCEPT !.next = 4, !.live = 1..3, !.toAdd["deq_test"] = <<1, 2, 3>>,
                             !.at["deq_test"] = "add"]
       \/ dev' = [dev EXCEPT !.at["deq_test"] = "end"]
    /\ Frame

\* A deque that does not wait for its mutex.
AcquireNot(a) == TRUE

\* acquire(&sdeq->mut)
AcquireDeque(a) == dev.free

\* list_add is list_add_head; the head is the first element here.
Add(d, a, m) == [d EXCEPT !.deque = <<m>> \o @, !.added = Append(@, m)]

\* What follows the addition of the last message: t1 and t2 are made, or end.
Added(d, a) ==
    IF d.toAdd[a] # <<>> THEN [d EXCEPT !.at[a] = "add"]
    ELSE IF a = "deq_test" THEN [d EXCEPT !.at = [x \in Actors |-> "pop"]]
    ELSE [d EXCEPT !.at[a] = "end"]

AddAcquires(a) ==
    /\ In(a, "add") /\ AcquireDeque(a)
    /\ dev' = [dev EXCEPT !.free = FALSE, !.at[a] = "adding"]
    /\ Frame

__sdeq_add(a) ==
    /\ In(a, "adding")
    /\ LET m == Head(dev.toAdd[a])
       IN  dev' = Added(Add([dev EXCEPT !.free = TRUE, !.toAdd[a] = Tail(@)], a, m), a)
    /\ Frame

\* A pop that takes the element that was added last.
PopHead(q) == q[1]

\* list_pop is list_pop_tail.
list_pop(q) == q[Len(q)]

\* The test for an empty deque, and the reading of the last element.
__sdeq_pop(a) ==
    /\ In(a, "pop") /\ AcquireDeque(a)
    /\ dev' = IF dev.deque = <<>> THEN [dev EXCEPT !.at[a] = "empty"]
              ELSE [dev EXCEPT !.free = FALSE, !.l[a] = list_pop(dev.deque), !.at[a] = "popping"]
    /\ Frame

\* list_remove
PopRemoves(a) ==
    /\ In(a, "popping")
    /\ dev' = [dev EXCEPT !.free = TRUE, !.deque = SelectSeq(@, LAMBDA m : m # dev.l[a]),
                          !.at[a] = "got", !.got = Append(@, dev.l[a])]
    /\ Frame

\* The message is freed.  t1 and t2 end and run again in their next period.
Got(a) ==
    /\ In(a, "got")
    /\ dev' = [dev EXCEPT !.live = @ \ {dev.l[a]}, !.l[a] = None, !.at[a] = "pop"]
    /\ Frame

\* There is none: deq_test returns, t1 and t2 add a message (if there is memory for
\* it) and abort.  A task for which there was no memory runs again.
Empty(a) ==
    /\ In(a, "empty")
    /\ \/ /\ a = "deq_test"
          /\ dev' = [dev EXCEPT !.at[a] = "end"]
       \/ /\ a # "deq_test"
          /\ \/ dev' = [dev EXCEPT !.next = @ + 1, !.live = @ \cup {dev.next},
                                   !.toAdd[a] = <<dev.next>>, !.at[a] = "add"]
             \/ dev' = [dev EXCEPT !.at[a] = "pop"]
    /\ Frame

Deque(a) ==
    \/ AddAcquires(a) \/ __sdeq_add(a) \/ __sdeq_pop(a) \/ PopRemoves(a) \/ Got(a) \/ Empty(a)

-------------------------------------------------------------------------------
(* ipctest.  A shared memory is a number; refs is what obj.h counts. *)

MaxCalls == 2

IpcInit ==
    dev = [command |-> "ipctest", calls |-> 0, shared_mem |-> None,
           refs |-> [m \in 0..MaxCalls |-> 0], live |-> {}, at |-> "idle",
           readers |-> <<>>, orphans |-> 0, bad |-> FALSE]

Ipc(s) == dev.command = "ipctest" /\ dev.at = s

\* Whoever uses the memory behind the pointer finds it allocated.
Use(d) == [d EXCEPT !.bad = @ \/ d.shared_mem \notin d.live]

obj_get(d) == [Use(d) EXCEPT !.refs[d.shared_mem] = @ + 1]

\* A reservation that is not made.
NoReservation(d) == Use(d)

\* The second reservation of ipctest.
Reserve(d) == obj_get(d)

obj_put(d) ==
    LET e == [Use(d) EXCEPT !.refs[d.shared_mem] = @ - 1]
    IN  IF e.refs[d.shared_mem] = 0 THEN [e EXCEPT !.live = @ \ {d.shared_mem}] ELSE e

\* The pointer is static: each call stores into the same.  It is also stored when
\* nothing could be created, and the command returns.
ipctest ==
    /\ Ipc("idle") /\ dev.calls < MaxCalls /\ (Hurried \/ dev.readers = <<>>)
    /\ LET m == dev.calls + 1
       IN  \/ dev' = [dev EXCEPT !.calls = m, !.shared_mem = m, !.live = @ \cup {m},
                                 !.refs[m] = 1, !.at = "reserve"]
           \/ dev' = [dev EXCEPT !.calls = m, !.shared_mem = None]
    /\ Frame

\* "Make a second reservation for the other task", and fputs.
SecondReservation ==
    /\ Ipc("reserve")
    /\ dev' = [Reserve(dev) EXCEPT !.at = "new_task"]
    /\ Frame

\* The result of new_task is not tested: without memory for it nobody reads.
NewReader ==
    /\ Ipc("new_task")
    /\ \/ dev' = [dev EXCEPT !.readers = Append(@, "read"), !.at = "put"]
       \/ dev' = [dev EXCEPT !.orphans = @ + 1, !.at = "put"]
    /\ Frame

IpcPut ==
    /\ Ipc("put")
    /\ dev' = [obj_put(dev) EXCEPT !.at = "idle"]
    /\ Frame

\* A reader looks at the pointer when it runs.
memreader(i) ==
    /\ dev.command = "ipctest" /\ i \in DOMAIN dev.readers
    /\ dev' = IF dev.readers[i] = "read" THEN [Use(dev) EXCEPT !.readers[i] = "put"]
              ELSE [obj_put(dev) EXCEPT !.readers = RemoveAt(@, i)]
    /\ Frame

-------------------------------------------------------------------------------
Init ==
    /\ DeqInit \/ IpcInit
    /\ hw = <<>> /\ lock = <<>> /\ loc = <<>> /\ pc = [t \in Tasks |-> "idle"]

Next ==
    \/ malloc
    \/ \E a \in Actors : Deque(a)
    \/ ipctest \/ SecondReservation \/ NewReader \/ IpcPut
    \/ \E i \in 1..MaxCalls : memreader(i)

Spec == Init /\ [][Next]_vars

-------------------------------------------------------------------------------
(* Properties *)

TypeOK ==
    \/ /\ dev.command = "deq_test"
       /\ dev.deque \in Seq(1..MaxMessages) /\ dev.next \in 1..(MaxMessages + 1)
       /\ dev.live \subseteq 1..MaxMessages /\ dev.l \in [Actors -> 0..MaxMessages]
       /\ \A a \in Actors :
            dev.at[a] \in {"none", "malloc", "add", "adding", "pop", "popping", "got", "empty", "end"}
    \/ /\ dev.command = "ipctest"
       /\ dev.shared_mem \in 0..MaxCalls /\ dev.live \subseteq 1..MaxCalls
       /\ dev.at \in {"idle", "reserve", "new_task", "put"} /\ dev.readers \in Seq({"read", "put"})

\* A message that is allocated is in the deque, is about to be added or was taken by
\* one task: none is freed twice, used after it is freed, or lost.
MessagesAccounted ==
    dev.command = "deq_test" =>
        LET Taken(m) == {a \in Actors : dev.at[a] = "got" /\ dev.l[a] = m}
            Waiting(m) == {a \in Actors : \E i \in DOMAIN dev.toAdd[a] : dev.toAdd[a][i] = m}
            Linked(m) == {i \in DOMAIN dev.deque : dev.deque[i] = m}
        IN  \A m \in 1..MaxMessages :
                Cardinality(Taken(m)) + Cardinality(Waiting(m)) + Cardinality(Linked(m))
                    = IF m \in dev.live THEN 1 ELSE 0

\* Messages are taken in the order in which they were added, whichever tasks add
\* and take them.
FirstInFirstOut ==
    dev.command = "deq_test" => dev.got \o Reverse(dev.deque) = dev.added

\* The shared memory outlives the command and its reader, whichever of the two ends
\* first, and is freed by the last, if the command is not called again before its
\* reader has ended, and if there was a reader.
MemoryOutlivesReader ==
    dev.command = "ipctest" =>
        /\ ~dev.bad
        /\ dev.at = "idle" /\ dev.readers = <<>> => Cardinality(dev.live) = dev.orphans
================================================================================
