-------------------------------- MODULE Buddy --------------------------------
(***************************************************************************)
(* The buddy allocator (mm/buddy_mm_*.c): malloc, free and mm_space of    *)
(* one heap, called by several tasks under the mutex of the heap.          *)
(*                                                                         *)
(* Addresses are offsets from the start of the heap, which every           *)
(* configuration aligns to its size.  A critical section is one action for *)
(* each iteration of the loop that splits a node and for each call of the  *)
(* recursive buddy_merge.  Callers free what they own, once.               *)
(***************************************************************************)
EXTENDS Integers, Sequences, FiniteSets, FiniteSetsExt, TaskList

CONSTANTS
    Tasks,
    NoTask,         \* nobody holds the mutex
    MinOrder,       \* buddy->min_order
    MaxOrder,       \* buddy->max_order
    Header,         \* MM_HEADER_SIZE
    Sizes           \* the sizes that malloc is called with

\* 1 << n
Bit[n \in Nat] == IF n = 0 THEN 1 ELSE 2 * Bit[n - 1]

\* A struct heapnode has its header and a pointer.
ASSUME BuddyAssumption ==
    /\ NoTask \notin Tasks
    /\ MinOrder \in Nat /\ MaxOrder \in Nat /\ MinOrder <= MaxOrder
    /\ Header \in 1..(Bit[MinOrder] - 1)
    /\ Sizes \subseteq Nat

HeapSize == Bit[MaxOrder]
Orders == MinOrder..MaxOrder
Nodes == {n * Bit[MinOrder] : n \in 0..(Bit[MaxOrder - MinOrder] - 1)}

VARIABLES
    list,       \* buddy->list, the free nodes of each order
    order,      \* node->header.order
    used,       \* the nodes that callers own
    size,       \* the size a node in use was asked for
    holder,     \* who holds buddy->mutex
    pc,         \* where a task is in malloc or free
    request,    \* the size in its call of malloc
    node,       \* its local variable node
    new_order,  \* alloc's local variable: the order the node is split to
    panic       \* a check of a node's header failed

vars == <<list, order, used, size, holder, pc, request, node, new_order, panic>>

TypeOK ==
    /\ list \in [Orders -> Seq(Nodes)]
    /\ order \in [Nodes -> Orders]
    /\ used \subseteq Nodes
    /\ size \in [Nodes -> Sizes \cup {0}]
    /\ holder \in Tasks \cup {NoTask}
    /\ pc \in [Tasks -> {"idle", "malloc", "alloc", "split", "free", "merge",
                        "mm_space", "sum"}]
    /\ request \in [Tasks -> Sizes \cup {0}]
    /\ node \in [Tasks -> Nodes]
    /\ new_order \in [Tasks -> Orders]
    /\ panic \in BOOLEAN

\* init_buddy: one free node, the whole heap.
Init ==
    /\ list = [o \in Orders |-> IF o = MaxOrder THEN <<0>> ELSE <<>>]
    /\ order = [n \in Nodes |-> MaxOrder]
    /\ used = {}
    /\ size = [n \in Nodes |-> 0]
    /\ holder = NoTask
    /\ pc = [t \in Tasks |-> "idle"]
    /\ request = [t \in Tasks |-> 0]
    /\ node = [t \in Tasks |-> 0]
    /\ new_order = [t \in Tasks |-> MinOrder]
    /\ panic = FALSE

-------------------------------------------------------------------------------
\* The while loop of size_to_order: the shifts until nothing is left.
Shifts[n \in Nat] == IF n \div 2 = 0 THEN 0 ELSE 1 + Shifts[n \div 2]

\* A size_to_order that forgets to round up.
RoundsDown(n) == Shifts[n]

\* One more unless the size is a power of two.
size_to_order(n) == IF Bit[Shifts[n]] # n THEN Shifts[n] + 1 ELSE Shifts[n]

\* malloc(n); a size above that of the heap is refused at once.
malloc(t, n) ==
    /\ pc[t] = "idle"
    /\ n <= HeapSize
    /\ pc' = [pc EXCEPT ![t] = "malloc"]
    /\ request' = [request EXCEPT ![t] = n]
    /\ UNCHANGED <<list, order, used, size, holder, node, new_order, panic>>

\* free of a node that callers own, by any task.
free(t, n) ==
    /\ pc[t] = "idle"
    /\ n \in used
    /\ used' = used \ {n}
    /\ size' = [size EXCEPT ![n] = 0]
    /\ pc' = [pc EXCEPT ![t] = "free"]
    /\ node' = [node EXCEPT ![t] = n]
    /\ UNCHANGED <<list, order, holder, request, new_order, panic>>

mm_space(t) ==
    /\ pc[t] = "idle"
    /\ pc' = [pc EXCEPT ![t] = "mm_space"]
    /\ UNCHANGED <<list, order, used, size, holder, request, node, new_order, panic>>

\* What a task does once it has the mutex.
Critical == [malloc |-> "alloc", free |-> "merge", mm_space |-> "sum"]

\* An acquire that does not wait for the holder.
AcquireTaken(t) ==
    /\ pc[t] \in DOMAIN Critical
    /\ holder' = t
    /\ pc' = [pc EXCEPT ![t] = Critical[@]]
    /\ UNCHANGED <<list, order, used, size, request, node, new_order, panic>>

acquire(t) ==
    /\ holder = NoTask
    /\ pc[t] \in DOMAIN Critical
    /\ holder' = t
    /\ pc' = [pc EXCEPT ![t] = Critical[@]]
    /\ UNCHANGED <<list, order, used, size, request, node, new_order, panic>>

\* release(&buddy->mutex) and the return of malloc or free.
Return(t) ==
    /\ holder' = NoTask
    /\ pc' = [pc EXCEPT ![t] = "idle"]
    /\ request' = [request EXCEPT ![t] = 0]
    /\ node' = [node EXCEPT ![t] = 0]
    /\ new_order' = [new_order EXCEPT ![t] = MinOrder]

-------------------------------------------------------------------------------
(* alloc *)

\* The order alloc serves the request with.
Order(t) == Max({MinOrder, size_to_order(request[t] + Header)})

\* The orders with a free node that is large enough.
Available(t) == {o \in Orders : o >= Order(t) /\ list[o] # <<>>}

\* Waiting for memory with the mutex held.
AllocWaits(t) ==
    /\ pc[t] = "alloc"
    /\ Available(t) = {}
    /\ UNCHANGED vars

\* No node is large enough: malloc returns NULL.
AllocFails(t) ==
    /\ pc[t] = "alloc"
    /\ Available(t) = {}
    /\ Return(t)
    /\ UNCHANGED <<list, order, used, size, panic>>

\* A search that counts one order too far: list[new_order++].
TakeCountsOn(t) ==
    /\ pc[t] = "alloc"
    /\ Available(t) # {}
    /\ LET o == Min(Available(t))
       IN  /\ node' = [node EXCEPT ![t] = Head(list[o])]
           /\ list' = [list EXCEPT ![o] = Tail(@)]
           /\ new_order' = [new_order EXCEPT ![t] = o + 1]
    /\ pc' = [pc EXCEPT ![t] = "split"]
    /\ UNCHANGED <<order, used, size, holder, request, panic>>

\* The first node of the smallest order that has one is taken.
Take(t) ==
    /\ pc[t] = "alloc"
    /\ Available(t) # {}
    /\ LET o == Min(Available(t))
       IN  /\ node' = [node EXCEPT ![t] = Head(list[o])]
           /\ list' = [list EXCEPT ![o] = Tail(@)]
           /\ new_order' = [new_order EXCEPT ![t] = o]
    /\ pc' = [pc EXCEPT ![t] = "split"]
    /\ UNCHANGED <<order, used, size, holder, request, panic>>

\* A split whose upper half keeps the header of an earlier use.
SplitKeepsHeader(t) ==
    LET n == node[t]
        half == n + Bit[order[n] - 1]
    IN  /\ pc[t] = "split"
        /\ new_order[t] > Order(t)
        /\ order' = [order EXCEPT ![n] = @ - 1]
        /\ list' = [list EXCEPT ![order[n] - 1] = <<half>> \o @]
        /\ new_order' = [new_order EXCEPT ![t] = @ - 1]
        /\ UNCHANGED <<used, size, holder, pc, request, node, panic>>

\* buddy_split: the upper half becomes a free node of its own.
buddy_split(t) ==
    LET n == node[t]
        half == n + Bit[order[n] - 1]
    IN  /\ pc[t] = "split"
        /\ new_order[t] > Order(t)
        /\ order' = [order EXCEPT ![n] = @ - 1, ![half] = order[n] - 1]
        /\ list' = [list EXCEPT ![order[n] - 1] = <<half>> \o @]
        /\ new_order' = [new_order EXCEPT ![t] = @ - 1]
        /\ UNCHANGED <<used, size, holder, pc, request, node, panic>>

\* The node has the order asked for; a header with another one is a panic.
AllocReturns(t) ==
    LET n == node[t]
    IN  /\ pc[t] = "split"
        /\ new_order[t] = Order(t)
        /\ panic' = (order[n] # Order(t))
        /\ used' = used \cup {n}
        /\ size' = [size EXCEPT ![n] = request[t]]
        /\ Return(t)
        /\ UNCHANGED <<list, order>>

-------------------------------------------------------------------------------
(* buddy_merge *)

\* The node that covers the other half: node ^ (1 << order)
BuddyOf(n, o) == IF (n \div Bit[o]) % 2 = 0 THEN n + Bit[o] ELSE n - Bit[o]

\* Taking the buddy, then the node, out of a list.  The elements in front of
\* both were looked up before: with the buddy in front of the node the second
\* assignment changes the link of the buddy, and the node stays in the list.
RemoveBoth(l, n, b) ==
    IF \E i \in 1..(Len(l) - 1) : l[i] = b /\ l[i + 1] = n
    THEN list_remove(l, b)
    ELSE list_remove(list_remove(l, b), n)

\* A merge that gives up with the buddy still free.
MergeNot(t) ==
    LET n == node[t]
        o == order[n]
    IN  /\ pc[t] = "merge"
        /\ list' = [list EXCEPT ![o] = IF n \in ToSet(@) THEN @ ELSE <<n>> \o @]
        /\ Return(t)
        /\ UNCHANGED <<order, used, size, panic>>

\* The node is the whole heap, or its buddy is not free: it is put in front of
\* the list of its order unless the last merge has put it there.
MergeEnds(t) ==
    LET n == node[t]
        o == order[n]
    IN  /\ pc[t] = "merge"
        /\ \/ o = MaxOrder /\ list' = [list EXCEPT ![o] = <<n>>]
           \/ /\ o # MaxOrder
              /\ BuddyOf(n, o) \notin ToSet(list[o])
              /\ list' = [list EXCEPT ![o] = IF n \in ToSet(@) THEN @ ELSE <<n>> \o @]
        /\ Return(t)
        /\ UNCHANGED <<order, used, size, panic>>

\* A merge that puts the parent at the end of its list.
MergeToTail(t) ==
    LET n == node[t]
        o == order[n]
        b == BuddyOf(n, o)
        parent == Min({n, b})
    IN  /\ pc[t] = "merge"
        /\ o # MaxOrder
        /\ b \in ToSet(list[o])
        /\ panic' = (order[b] # o)
        /\ order' = [order EXCEPT ![parent] = o + 1]
        /\ list' = [list EXCEPT ![o] = RemoveBoth(@, n, b),
                                ![o + 1] = Append(@, parent)]
        /\ node' = [node EXCEPT ![t] = parent]
        /\ UNCHANGED <<used, size, holder, pc, request, new_order>>

\* The buddy is free: both become one node of the next order, in front of its
\* list, which is merged in turn.
Merge(t) ==
    LET n == node[t]
        o == order[n]
        b == BuddyOf(n, o)
        parent == Min({n, b})
    IN  /\ pc[t] = "merge"
        /\ o # MaxOrder
        /\ b \in ToSet(list[o])
        /\ panic' = (order[b] # o)
        /\ order' = [order EXCEPT ![parent] = o + 1]
        /\ list' = [list EXCEPT ![o] = RemoveBoth(@, n, b),
                                ![o + 1] = <<parent>> \o @]
        /\ node' = [node EXCEPT ![t] = parent]
        /\ UNCHANGED <<used, size, holder, pc, request, new_order>>

\* free_memory without the largest order.
SkipsLargest == FoldSet(LAMBDA o, sum : sum + Len(list[o]) * Bit[o], 0, Orders \ {MaxOrder})

\* The answer of mm_space: the nodes of the free lists added up.
free_memory == FoldSet(LAMBDA o, sum : sum + Len(list[o]) * Bit[o], 0, Orders)

SpaceReturns(t) ==
    /\ pc[t] = "sum"
    /\ Return(t)
    /\ UNCHANGED <<list, order, used, size, panic>>

alloc(t) == AllocFails(t) \/ Take(t) \/ buddy_split(t) \/ AllocReturns(t)

buddy_merge(t) == Merge(t) \/ MergeEnds(t)

-------------------------------------------------------------------------------
Next ==
    /\ ~panic
    /\ \E t \in Tasks :
          \/ \E n \in Sizes : malloc(t, n)
          \/ \E n \in Nodes : free(t, n)
          \/ mm_space(t)
          \/ acquire(t)
          \/ alloc(t)
          \/ buddy_merge(t)
          \/ SpaceReturns(t)

Spec == Init /\ [][Next]_vars

\* A call that has begun goes on; acquire does not pass over a task for ever
\* (module Mutex, NoStuckHolder, is about the holder's side of this).
Fairness ==
    \A t \in Tasks :
        /\ WF_vars(alloc(t) \/ buddy_merge(t) \/ SpaceReturns(t))
        /\ SF_vars(acquire(t))

FairSpec == Spec /\ Fairness

-------------------------------------------------------------------------------
(* Properties *)

\* The nodes in the hands of a task inside malloc or free.
InHand ==
    {node[t] : t \in {u \in Tasks : pc[u] \in {"split", "free", "merge"}
                                    /\ node[u] \notin ToSet(list[order[node[u]]])}}

Span(n) == n..(n + Bit[order[n]] - 1)

FreeNodes == UNION {ToSet(list[o]) : o \in Orders}

\* Free memory is in nodes as large as they can be: between calls no two free
\* nodes are buddies, they are merged as far as they can be, across any history
\* of splits.
FullyMerged ==
    holder = NoTask =>
        \A o \in Orders \ {MaxOrder} : \A n \in ToSet(list[o]) :
            BuddyOf(n, o) \notin ToSet(list[o])

\* At every step each byte of the heap is in exactly one node: free, in use or
\* in the hands of a task; so nothing is leaked and nothing is given out twice,
\* and the checks of the headers in alloc and buddy_merge never fail.  Between
\* calls the nodes are as large as they can be.
Partition ==
    /\ TypeOK
    /\ ~panic
    /\ FullyMerged
    /\ \A o \in Orders : \A i \in 1..Len(list[o]) :
          order[list[o][i]] = o /\ \A j \in 1..Len(list[o]) : list[o][i] = list[o][j] => i = j
    /\ \A n \in Nodes :
          Cardinality({m \in FreeNodes \cup used \cup InHand : n \in Span(m)}) = 1

\* A caller gets room for its size, and not twice as much as it needs.
Fits ==
    \A n \in used :
        /\ size[n] + Header <= Bit[order[n]]
        /\ order[n] > MinOrder => size[n] + Header > Bit[order[n] - 1]

\* While mm_space adds the free lists up, what it answers and what callers own or
\* are about to give back is the whole heap.
SpaceExact ==
    \A t \in Tasks : pc[t] = "sum" =>
        free_memory + FoldSet(LAMBDA n, sum : sum + Bit[order[n]], 0, used \cup InHand)
            = HeapSize

(* The inductive invariant behind Partition, Fits, FullyMerged and the       *)
(* refinement of HeapSpec, in parts.                                         *)

\* The mutex is held exactly inside the critical sections.
CriticalInv ==
    \A t \in Tasks : holder = t <=> pc[t] \in {"alloc", "split", "merge", "sum"}

\* The free nodes are in the list of the order in their header, once.
ListsInv ==
    \A o \in Orders : /\ NoDuplicates(list[o])
                      /\ \A n \in ToSet(list[o]) : order[n] = o

\* The tasks whose local variable node counts.
Busy == {t \in Tasks : pc[t] \in {"split", "free", "merge"}}

\* A node belongs to the free lists, to the callers or to one task; buddy_merge
\* calls itself with a node that is in front of its list.
OwnersInv ==
    /\ used \cap FreeNodes = {}
    /\ \A t \in Busy :
          /\ node[t] \notin used
          /\ node[t] \in FreeNodes =>
                pc[t] = "merge" /\ node[t] = Head(list[order[node[t]]])
          /\ \A u \in Busy : node[t] = node[u] => t = u

AllNodes == FreeNodes \cup used \cup {node[t] : t \in Busy}

End(n) == n + Bit[order[n]]

Aligned(n, o) == \E k \in 0..n : n = k * Bit[o]

\* The nodes lie in the heap, each at a multiple of its size, do not overlap and
\* leave no gap.
SpansInv ==
    /\ \A n \in AllNodes : End(n) <= HeapSize /\ Aligned(n, order[n])
    /\ \A n, m \in AllNodes : n = m \/ End(n) <= m \/ End(m) <= n
    /\ \A a \in Nodes : \E n \in AllNodes : n <= a /\ a < End(n)

\* Splitting goes on down to the order asked for.
SplitInv ==
    \A t \in Tasks :
        /\ pc[t] \in {"malloc", "alloc", "split"} => request[t] \in Sizes
        /\ pc[t] = "split" => /\ new_order[t] = order[node[t]]
                              /\ Order(t) <= new_order[t]

\* Two free nodes are buddies only while buddy_merge is at one of them.
MergedInv ==
    \A o \in Orders \ {MaxOrder} : \A n \in ToSet(list[o]) :
        BuddyOf(n, o) \in ToSet(list[o]) =>
            \E t \in Tasks : pc[t] = "merge" /\ node[t] \in {n, BuddyOf(n, o)}

BInv ==
    /\ TypeOK
    /\ ~panic
    /\ CriticalInv
    /\ ListsInv
    /\ OwnersInv
    /\ SpansInv
    /\ SplitInv
    /\ Fits
    /\ \A n \in used : size[n] \in Sizes
    /\ MergedInv

\* malloc and free implement the abstract heap.
Heap == INSTANCE HeapSpec WITH
    regions <- {[start |-> n + Header, len |-> size[n]] : n \in used}
ImplementsHeap == Heap!Spec

\* Every call of malloc and free returns: the loops end and the mutex is always
\* released, also when there is no memory.
CallsReturn == \A t \in Tasks : pc[t] # "idle" ~> pc[t] = "idle"
================================================================================
