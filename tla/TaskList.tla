------------------------------- MODULE TaskList -------------------------------
(***************************************************************************)
(* The task lists of the scheduler (include/list.h and the insert_task     *)
(* macro of kernel/sched/sched_internals.h) as pure operators.             *)
(*                                                                         *)
(* A circular doubly linked list whose elements are only touched inside    *)
(* one exception handler is a sequence: position 1 is head->next, the last *)
(* position is head->prev.  The free_task_list is also touched in task     *)
(* context; its links are modelled one by one in module Reaper.            *)
(***************************************************************************)
EXTENDS Integers, Sequences, SequencesExt, SequenceTheorems, TLAPS

\* No element is linked twice.
NoDuplicates(list) == \A i, j \in 1..Len(list) : list[i] = list[j] => i = j

\* No element is in front of one with a higher priority.
Sorted(list, priority) ==
    \A i, j \in 1..Len(list) : i < j => priority[list[i]] >= priority[list[j]]

\* list_remove(element): the neighbours of the element are linked together.
list_remove(list, task) ==
    LET at == CHOOSE i \in 1..Len(list) : list[i] = task
    IN  IF \E i \in 1..Len(list) : list[i] = task THEN RemoveAt(list, at) ELSE list

\* The positions of the elements with a lower priority than new.
Lower(list, new, priority) ==
    {i \in 1..Len(list) : priority[new] > priority[list[i]]}

\* The insert point the loop of insert_task ends with: it is overwritten at
\* every element of lower priority, so the last of them remains.
InsertPoint(list, new, priority) ==
    CHOOSE i \in Lower(list, new, priority) :
        \A j \in Lower(list, new, priority) : j <= i

\* A mutant of insert_task that inserts behind the insert point.
InsertBehind(list, new, priority) ==
    IF list = <<>> \/ priority[new] > priority[Head(list)] THEN <<new>> \o list
    ELSE IF priority[new] <= priority[Last(list)] THEN Append(list, new)
    ELSE InsertAt(list, InsertPoint(list, new, priority) + 1, new)

\* insert_task(list, new): to the front if the new task has the highest
\* priority, to the back if it has the lowest, else before the insert point.
insert_task(list, new, priority) ==
    IF list = <<>> \/ priority[new] > priority[Head(list)] THEN <<new>> \o list
    ELSE IF priority[new] <= priority[Last(list)] THEN Append(list, new)
    ELSE InsertAt(list, InsertPoint(list, new, priority), new)

-------------------------------------------------------------------------------
(* What the operations do to the set of the elements of a list, and to their being
   distinct *)

\* Elements of a list, by position.
LEMMA ToSetElements ==
    ASSUME NEW S, NEW s \in Seq(S)
    PROVE  /\ ToSet(s) \subseteq S
           /\ \A i \in 1..Len(s) : s[i] \in ToSet(s)
           /\ \A x \in ToSet(s) : \E i \in 1..Len(s) : s[i] = x
  BY DEF ToSet

\* list_add_head
LEMMA AddHead ==
    ASSUME NEW S, NEW s \in Seq(S), NEW e \in S
    PROVE  /\ <<e>> \o s \in Seq(S)
           /\ ToSet(<<e>> \o s) = ToSet(s) \cup {e}
           /\ NoDuplicates(s) /\ e \notin ToSet(s) => NoDuplicates(<<e>> \o s)
  <1> DEFINE r == <<e>> \o s
  <1>1. /\ r \in Seq(S)
        /\ Len(r) = Len(s) + 1
        /\ r[1] = e
        /\ \A i \in 1..Len(s) : r[i + 1] = s[i]
    OBVIOUS
  <1>2. \A i \in 2..Len(r) : i - 1 \in 1..Len(s) /\ r[i] = s[i - 1]
    BY <1>1
  <1> HIDE DEF r
  <1>3. ToSet(r) = ToSet(s) \cup {e}
    <2>1. ASSUME NEW x \in ToSet(r) PROVE x \in ToSet(s) \cup {e}
      <3>1. PICK i \in 1..Len(r) : r[i] = x
        BY <1>1, ToSetElements
      <3>2. CASE i = 1
        BY <1>1, <3>1, <3>2
      <3>3. CASE i # 1
        BY <1>2, <3>1, <3>3, ToSetElements
      <3> QED BY <3>2, <3>3
    <2>2. ToSet(s) \cup {e} \subseteq ToSet(r)
      <3>1. e \in ToSet(r)
        BY <1>1, ToSetElements
      <3>2. ASSUME NEW x \in ToSet(s) PROVE x \in ToSet(r)
        <4>1. PICK i \in 1..Len(s) : s[i] = x
          BY ToSetElements
        <4>2. i + 1 \in 1..Len(r) /\ r[i + 1] = x
          BY <1>1, <4>1
        <4> QED BY <1>1, <4>2, ToSetElements
      <3> QED BY <3>1, <3>2
    <2> QED BY <2>1, <2>2
  <1>4. ASSUME NoDuplicates(s), e \notin ToSet(s) PROVE NoDuplicates(r)
    <2>1. \A i \in 2..Len(r) : r[i] # e
      BY <1>2, <1>4, ToSetElements
    <2>2. ASSUME NEW i \in 1..Len(r), NEW j \in 1..Len(r), r[i] = r[j]
          PROVE  i = j
      <3>1. CASE i = 1 \/ j = 1
        BY <1>1, <2>1, <2>2, <3>1
      <3>2. CASE i # 1 /\ j # 1
        <4>1. i - 1 = j - 1
          BY <1>2, <1>4, <2>2, <3>2 DEF NoDuplicates
        <4> QED BY <4>1
      <3> QED BY <3>1, <3>2
    <2> QED BY <2>2 DEF NoDuplicates
  <1> QED BY <1>1, <1>3, <1>4 DEF r

\* list_add_tail
LEMMA AddTail ==
    ASSUME NEW S, NEW s \in Seq(S), NEW e \in S
    PROVE  /\ Append(s, e) \in Seq(S)
           /\ ToSet(Append(s, e)) = ToSet(s) \cup {e}
           /\ NoDuplicates(s) /\ e \notin ToSet(s) => NoDuplicates(Append(s, e))
  <1> DEFINE r == Append(s, e)
  <1>1. /\ r \in Seq(S)
        /\ Len(r) = Len(s) + 1
        /\ r[Len(r)] = e
        /\ \A i \in 1..Len(s) : r[i] = s[i]
    OBVIOUS
  <1> HIDE DEF r
  <1>3. ToSet(r) = ToSet(s) \cup {e}
    <2>1. ToSet(r) \subseteq ToSet(s) \cup {e}
      <3> SUFFICES ASSUME NEW x \in ToSet(r) PROVE x \in ToSet(s) \cup {e}
        OBVIOUS
      <3>1. PICK i \in 1..Len(r) : r[i] = x
        BY <1>1, ToSetElements
      <3>2. CASE i = Len(r)
        BY <1>1, <3>1, <3>2
      <3>3. CASE i # Len(r)
        <4>1. i \in 1..Len(s) /\ s[i] = x
          BY <1>1, <3>1, <3>3
        <4> QED BY <4>1, ToSetElements
      <3> QED BY <3>2, <3>3
    <2>2. ToSet(s) \cup {e} \subseteq ToSet(r)
      <3>1. e \in ToSet(r)
        <4>1. Len(r) \in 1..Len(r)
          BY <1>1
        <4> QED BY <1>1, <4>1, ToSetElements
      <3>2. ASSUME NEW x \in ToSet(s) PROVE x \in ToSet(r)
        <4>1. PICK i \in 1..Len(s) : s[i] = x
          BY ToSetElements
        <4>2. i \in 1..Len(r) /\ r[i] = x
          BY <1>1, <4>1
        <4> QED BY <1>1, <4>2, ToSetElements
      <3> QED BY <3>1, <3>2
    <2> QED BY <2>1, <2>2
  <1>4. ASSUME NoDuplicates(s), e \notin ToSet(s) PROVE NoDuplicates(r)
    <2>1. \A i \in 1..Len(s) : r[i] # e
      BY <1>1, <1>4, ToSetElements
    <2> QED BY <1>1, <1>4, <2>1 DEF NoDuplicates
  <1> QED BY <1>1, <1>3, <1>4 DEF r

\* The elements of a list after an insertion.
LEMMA InsertAtElements ==
    ASSUME NEW S, NEW s \in Seq(S), NEW e \in S, NEW k \in 1..Len(s)
    PROVE  /\ InsertAt(s, k, e) \in Seq(S)
           /\ Len(InsertAt(s, k, e)) = Len(s) + 1
           /\ \A j \in 1..(Len(s) + 1) :
                 InsertAt(s, k, e)[j] = IF j < k THEN s[j] ELSE IF j = k THEN e ELSE s[j - 1]
  BY DEF InsertAt

\* list_insert_before an element
LEMMA InsertBefore ==
    ASSUME NEW S, NEW s \in Seq(S), NEW e \in S, NEW k \in 1..Len(s)
    PROVE  /\ InsertAt(s, k, e) \in Seq(S)
           /\ ToSet(InsertAt(s, k, e)) = ToSet(s) \cup {e}
           /\ NoDuplicates(s) /\ e \notin ToSet(s) => NoDuplicates(InsertAt(s, k, e))
  <1> DEFINE r == InsertAt(s, k, e)
  <1>1. /\ r \in Seq(S)
        /\ Len(r) = Len(s) + 1
        /\ \A j \in 1..(Len(s) + 1) :
              r[j] = IF j < k THEN s[j] ELSE IF j = k THEN e ELSE s[j - 1]
    BY InsertAtElements
  <1> HIDE DEF r
  <1>2. /\ r[k] = e
        /\ \A j \in 1..Len(r) : j < k => j \in 1..Len(s) /\ r[j] = s[j]
        /\ \A j \in 1..Len(r) : j > k => j - 1 \in 1..Len(s) /\ r[j] = s[j - 1]
    <2>1. Len(s) \in Nat /\ k \in 1..(Len(s) + 1)
      OBVIOUS
    <2>2. r[k] = e
      BY <1>1, <2>1
    <2>3. ASSUME NEW j \in 1..Len(r), j < k PROVE j \in 1..Len(s) /\ r[j] = s[j]
      BY <1>1, <2>1, <2>3
    <2>4. ASSUME NEW j \in 1..Len(r), j > k PROVE j - 1 \in 1..Len(s) /\ r[j] = s[j - 1]
      BY <1>1, <2>1, <2>4
    <2> QED BY <2>2, <2>3, <2>4
  <1>3. ToSet(r) = ToSet(s) \cup {e}
    <2>1. ASSUME NEW x \in ToSet(r) PROVE x \in ToSet(s) \cup {e}
      <3>1. PICK i \in 1..Len(r) : r[i] = x
        BY <1>1, ToSetElements
      <3>2. CASE i = k
        BY <1>2, <3>1, <3>2
      <3>3. CASE i < k
        BY <1>2, <3>1, <3>3, ToSetElements
      <3>4. CASE i > k
        BY <1>2, <3>1, <3>4, ToSetElements
      <3> QED BY <3>2, <3>3, <3>4
    <2>2. e \in ToSet(r)
      <3>1. k \in 1..Len(r)
        BY <1>1
      <3> QED BY <1>1, <1>2, <3>1, ToSetElements
    <2>3. ASSUME NEW x \in ToSet(s) PROVE x \in ToSet(r)
      <3>1. PICK i \in 1..Len(s) : s[i] = x
        BY ToSetElements
      <3>2. CASE i < k
        <4>1. i \in 1..Len(r) /\ r[i] = x
          BY <1>1, <1>2, <3>1, <3>2
        <4> QED BY <1>1, <4>1, ToSetElements
      <3>3. CASE i >= k
        <4>1. i + 1 \in 1..Len(r) /\ r[i + 1] = x
          BY <1>1, <3>1, <3>3
        <4> QED BY <1>1, <4>1, ToSetElements
      <3> QED BY <3>2, <3>3
    <2> QED BY <2>1, <2>2, <2>3
  <1>4. ASSUME NoDuplicates(s), e \notin ToSet(s) PROVE NoDuplicates(r)
    <2>1. \A j \in 1..Len(r) : j # k => r[j] # e
      <3> SUFFICES ASSUME NEW j \in 1..Len(r), j # k PROVE r[j] \in ToSet(s)
        BY <1>4
      <3>1. CASE j < k
        BY <1>2, <3>1, ToSetElements
      <3>2. CASE j > k
        BY <1>2, <3>2, ToSetElements
      <3> QED BY <3>1, <3>2
    <2>2. ASSUME NEW i \in 1..Len(r), NEW j \in 1..Len(r), r[i] = r[j]
          PROVE  i = j
      <3>1. CASE i = k \/ j = k
        BY <1>2, <2>1, <2>2, <3>1
      <3>2. CASE i < k /\ j < k
        BY <1>2, <1>4, <2>2, <3>2 DEF NoDuplicates
      <3>3. CASE i > k /\ j > k
        <4>1. i - 1 = j - 1
          BY <1>2, <1>4, <2>2, <3>3 DEF NoDuplicates
        <4> QED BY <4>1
      <3>4. CASE i < k /\ j > k
        <4>1. i = j - 1
          BY <1>2, <1>4, <2>2, <3>4 DEF NoDuplicates
        <4> QED BY <3>4, <4>1
      <3>5. CASE i > k /\ j < k
        <4>1. i - 1 = j
          BY <1>2, <1>4, <2>2, <3>5 DEF NoDuplicates
        <4> QED BY <3>5, <4>1
      <3> QED BY <3>1, <3>2, <3>3, <3>4, <3>5
    <2> QED BY <2>2 DEF NoDuplicates
  <1> QED BY <1>1, <1>3, <1>4 DEF r

\* The insert point of insert_task is a position of the list.
LEMMA InsertPointInList ==
    ASSUME NEW S, NEW s \in Seq(S), NEW e \in S, NEW prio \in [S -> Int],
           s # <<>>, prio[e] > prio[Last(s)]
    PROVE  InsertPoint(s, e, prio) \in 1..Len(s)
  <1>1. Len(s) \in 1..Len(s) /\ Last(s) = s[Len(s)]
    BY DEF Last
  <1>2. Len(s) \in Lower(s, e, prio)
    BY <1>1 DEF Lower
  <1>3. \A j \in Lower(s, e, prio) : j \in 1..Len(s) /\ j <= Len(s)
    BY DEF Lower
  <1> QED BY <1>2, <1>3 DEF InsertPoint

\* insert_task links the new task into the list, once, and keeps the others,
\* whichever of its three cases applies.
LEMMA InsertTask ==
    ASSUME NEW S, NEW s \in Seq(S), NEW e \in S, NEW prio \in [S -> Int]
    PROVE  /\ insert_task(s, e, prio) \in Seq(S)
           /\ ToSet(insert_task(s, e, prio)) = ToSet(s) \cup {e}
           /\ NoDuplicates(s) /\ e \notin ToSet(s) => NoDuplicates(insert_task(s, e, prio))
  <1>1. CASE s = <<>> \/ prio[e] > prio[Head(s)]
    BY <1>1, AddHead DEF insert_task
  <1>2. CASE ~(s = <<>> \/ prio[e] > prio[Head(s)]) /\ prio[e] <= prio[Last(s)]
    BY <1>2, AddTail DEF insert_task
  <1>3. CASE ~(s = <<>> \/ prio[e] > prio[Head(s)]) /\ ~(prio[e] <= prio[Last(s)])
    <2>1. prio[e] \in Int /\ prio[Last(s)] \in Int
      BY <1>3 DEF Last
    <2>2. InsertPoint(s, e, prio) \in 1..Len(s)
      BY <1>3, <2>1, InsertPointInList
    <2>3. insert_task(s, e, prio) = InsertAt(s, InsertPoint(s, e, prio), e)
      BY <1>3 DEF insert_task
    <2> QED BY <2>2, <2>3, InsertBefore
  <1> QED BY <1>1, <1>2, <1>3

\* list_remove takes the element out and keeps the others, in their order.
LEMMA RemoveTask ==
    ASSUME NEW S, NEW s \in Seq(S), NEW e, NoDuplicates(s)
    PROVE  /\ list_remove(s, e) \in Seq(S)
           /\ ToSet(list_remove(s, e)) = ToSet(s) \ {e}
           /\ NoDuplicates(list_remove(s, e))
           /\ \A prio : Sorted(s, prio) => Sorted(list_remove(s, e), prio)
  <1>1. CASE ~ \E i \in 1..Len(s) : s[i] = e
    <2>1. list_remove(s, e) = s
      BY <1>1 DEF list_remove
    <2>2. e \notin ToSet(s)
      BY <1>1, ToSetElements
    <2> QED BY <2>1, <2>2
  <1>2. CASE \E i \in 1..Len(s) : s[i] = e
    <2> DEFINE k == CHOOSE i \in 1..Len(s) : s[i] = e
               r == RemoveAt(s, k)
    <2>1. k \in 1..Len(s) /\ s[k] = e
      BY <1>2
    <2>2. list_remove(s, e) = r
      BY <1>2 DEF list_remove
    <2> HIDE DEF k
    <2>3. /\ r \in Seq(S)
          /\ Len(r) = Len(s) - 1
          /\ \A j \in 1..(Len(s) - 1) : r[j] = IF j < k THEN s[j] ELSE s[j + 1]
      <3> DEFINE a == SubSeq(s, 1, k - 1)
                 b == SubSeq(s, k + 1, Len(s))
      <3>1. /\ a \in Seq(S) /\ Len(a) = k - 1
            /\ \A j \in 1..(k - 1) : a[j] = s[j]
        BY <2>1
      <3>2. /\ b \in Seq(S) /\ Len(b) = Len(s) - k
            /\ \A j \in 1..(Len(s) - k) : b[j] = s[k + j]
        BY <2>1
      <3>3. r = a \o b
        BY DEF RemoveAt
      <3> HIDE DEF a, b, r
      <3>4. /\ r \in Seq(S)
            /\ Len(r) = Len(a) + Len(b)
            /\ \A j \in 1..(Len(a) + Len(b)) :
                  r[j] = IF j <= Len(a) THEN a[j] ELSE b[j - Len(a)]
        BY <3>1, <3>2, <3>3, ConcatProperties
      <3>5. Len(r) = Len(s) - 1
        BY <2>1, <3>1, <3>2, <3>4
      <3>6. ASSUME NEW j \in 1..(Len(s) - 1)
            PROVE  r[j] = IF j < k THEN s[j] ELSE s[j + 1]
        <4>0. /\ Len(s) \in Nat /\ Len(a) = k - 1
              /\ j \in 1..(Len(a) + Len(b))
          BY <2>1, <3>1, <3>2
        <4>1. CASE j < k
          <5>1. j <= Len(a) /\ j \in 1..(k - 1)
            BY <2>1, <4>0, <4>1
          <5>2. r[j] = a[j]
            BY <3>4, <4>0, <5>1
          <5> QED BY <3>1, <4>1, <5>1, <5>2
        <4>2. CASE j >= k
          <5>0. ~(j <= Len(a)) /\ j - (k - 1) \in 1..(Len(s) - k)
            BY <2>1, <4>0, <4>2
          <5>1. r[j] = b[j - (k - 1)] /\ j - (k - 1) \in 1..(Len(s) - k)
            BY <3>4, <4>0, <5>0
          <5>2. b[j - (k - 1)] = s[k + (j - (k - 1))]
            BY <3>2, <5>1
          <5> QED BY <2>1, <4>2, <5>1, <5>2
        <4> QED BY <2>1, <4>1, <4>2
      <3> QED BY <3>4, <3>5, <3>6
    <2> HIDE DEF r
    <2>4. ASSUME NEW x \in ToSet(r) PROVE x \in ToSet(s) \ {e}
      <3>1. PICK j \in 1..Len(r) : r[j] = x
        BY <2>3, ToSetElements
      <3>2. CASE j < k
        <4>1. j \in 1..Len(s) /\ s[j] = x /\ j # k
          BY <2>1, <2>3, <3>1, <3>2
        <4>2. s[j] # s[k]
          BY <2>1, <4>1 DEF NoDuplicates
        <4> QED BY <2>1, <4>1, <4>2, ToSetElements
      <3>3. CASE j >= k
        <4>1. j + 1 \in 1..Len(s) /\ s[j + 1] = x /\ j + 1 # k
          BY <2>1, <2>3, <3>1, <3>3
        <4>2. s[j + 1] # s[k]
          BY <2>1, <4>1 DEF NoDuplicates
        <4> QED BY <2>1, <4>1, <4>2, ToSetElements
      <3> QED BY <2>1, <3>2, <3>3
    <2>5. ASSUME NEW x \in ToSet(s) \ {e} PROVE x \in ToSet(r)
      <3>1. PICK j \in 1..Len(s) : s[j] = x
        BY ToSetElements
      <3>2. j # k
        BY <2>1, <3>1
      <3>3. CASE j < k
        <4>1. j \in 1..Len(r) /\ r[j] = x
          BY <2>1, <2>3, <3>1, <3>3
        <4> QED BY <2>3, <4>1, ToSetElements
      <3>4. CASE j > k
        <4>1. j - 1 \in 1..Len(r) /\ r[j - 1] = x
          BY <2>1, <2>3, <3>1, <3>4
        <4> QED BY <2>3, <4>1, ToSetElements
      <3> QED BY <2>1, <3>2, <3>3, <3>4
    <2>6. NoDuplicates(r)
      <3> SUFFICES ASSUME NEW i \in 1..Len(r), NEW j \in 1..Len(r), r[i] = r[j]
                   PROVE  i = j
        BY DEF NoDuplicates
      <3> DEFINE at(n) == IF n < k THEN n ELSE n + 1
      <3>1. at(i) \in 1..Len(s) /\ at(j) \in 1..Len(s)
        BY <2>1, <2>3
      <3>2. s[at(i)] = s[at(j)]
        BY <2>1, <2>3
      <3>3. at(i) = at(j)
        BY <3>1, <3>2 DEF NoDuplicates
      <3> QED BY <2>1, <3>3
    <2>7. ASSUME NEW prio, Sorted(s, prio) PROVE Sorted(r, prio)
      <3> SUFFICES ASSUME NEW i \in 1..Len(r), NEW j \in 1..Len(r), i < j
                   PROVE  prio[r[i]] >= prio[r[j]]
        BY DEF Sorted
      <3> DEFINE at(n) == IF n < k THEN n ELSE n + 1
      <3>1. at(i) \in 1..Len(s) /\ at(j) \in 1..Len(s) /\ at(i) < at(j)
        BY <2>1, <2>3
      <3>2. s[at(i)] = r[i] /\ s[at(j)] = r[j]
        BY <2>1, <2>3
      <3> HIDE DEF at
      <3> QED BY <2>7, <3>1, <3>2 DEF Sorted
    <2> QED BY <2>2, <2>3, <2>4, <2>5, <2>6, <2>7
  <1> QED BY <1>1, <1>2

\* list_pop_head: the rest of the list has every element but the first.
LEMMA PopHead ==
    ASSUME NEW S, NEW s \in Seq(S), s # <<>>
    PROVE  /\ Head(s) \in ToSet(s) /\ Head(s) \in S
           /\ Tail(s) \in Seq(S)
           /\ ToSet(Tail(s)) \cup {Head(s)} = ToSet(s)
           /\ NoDuplicates(s) => NoDuplicates(Tail(s)) /\ Head(s) \notin ToSet(Tail(s))
  <1> DEFINE r == Tail(s)
  <1>1. /\ r \in Seq(S) /\ Len(r) = Len(s) - 1 /\ Len(s) > 0
        /\ Head(s) = s[1] /\ 1 \in 1..Len(s)
        /\ \A i \in 1..Len(r) : i + 1 \in 1..Len(s) /\ r[i] = s[i + 1]
    OBVIOUS
  <1> HIDE DEF r
  <1>2. Head(s) \in ToSet(s) /\ Head(s) \in S
    BY <1>1, ToSetElements
  <1>3. ASSUME NEW x \in ToSet(r) PROVE x \in ToSet(s)
    <2>1. PICK i \in 1..Len(r) : r[i] = x
      BY <1>1, ToSetElements
    <2> QED BY <1>1, <2>1, ToSetElements
  <1>4. ASSUME NEW x \in ToSet(s), x # Head(s) PROVE x \in ToSet(r)
    <2>1. PICK i \in 1..Len(s) : s[i] = x
      BY ToSetElements
    <2>2. i - 1 \in 1..Len(r) /\ r[i - 1] = x
      BY <1>1, <1>4, <2>1
    <2> QED BY <1>1, <2>2, ToSetElements
  <1>5. ASSUME NoDuplicates(s) PROVE NoDuplicates(r) /\ Head(s) \notin ToSet(r)
    <2>1. NoDuplicates(r)
      <3> SUFFICES ASSUME NEW i \in 1..Len(r), NEW j \in 1..Len(r), r[i] = r[j]
                   PROVE  i = j
        BY DEF NoDuplicates
      <3>1. i + 1 = j + 1
        BY <1>1, <1>5 DEF NoDuplicates
      <3> QED BY <3>1
    <2>2. \A i \in 1..Len(r) : r[i] # Head(s)
      BY <1>1, <1>5 DEF NoDuplicates
    <2> QED BY <1>1, <2>1, <2>2, ToSetElements
  <1> QED BY <1>1, <1>2, <1>3, <1>4, <1>5 DEF r

\* list_pop_tail
LEMMA PopTail ==
    ASSUME NEW S, NEW s \in Seq(S), s # <<>>
    PROVE  /\ Last(s) \in ToSet(s) /\ Last(s) \in S
           /\ Front(s) \in Seq(S)
           /\ ToSet(Front(s)) \cup {Last(s)} = ToSet(s)
           /\ NoDuplicates(s) => NoDuplicates(Front(s)) /\ Last(s) \notin ToSet(Front(s))
  <1> DEFINE r == Front(s)
  <1>1. /\ r \in Seq(S) /\ Len(r) = Len(s) - 1 /\ Len(s) \in 1..Len(s)
        /\ \A i \in 1..Len(r) : i \in 1..Len(s) /\ r[i] = s[i]
    <2>1. Len(s) \in Nat /\ Len(s) > 0
      OBVIOUS
    <2>2. /\ SubSeq(s, 1, Len(s) - 1) \in Seq(S)
          /\ Len(SubSeq(s, 1, Len(s) - 1)) = Len(s) - 1
          /\ \A i \in 1..(Len(s) - 1) : SubSeq(s, 1, Len(s) - 1)[i] = s[i]
      <3> DEFINE n == Len(s) - 1
      <3>1. n \in 0..Len(s) /\ n + 1 - 1 = n /\ 1 <= n + 1
        BY <2>1
      <3>2. /\ SubSeq(s, 1, n) \in Seq(S)
            /\ Len(SubSeq(s, 1, n)) = n
            /\ \A i \in 1..n : SubSeq(s, 1, n)[i] = s[i]
        BY <2>1, <3>1
      <3> QED BY <3>2
    <2> QED BY <2>1, <2>2 DEF Front
  <1>2. Last(s) = s[Len(s)]
    BY DEF Last
  <1> HIDE DEF r
  <1>3. Last(s) \in ToSet(s) /\ Last(s) \in S
    BY <1>1, <1>2, ToSetElements
  <1>4. ASSUME NEW x \in ToSet(r) PROVE x \in ToSet(s)
    <2>1. PICK i \in 1..Len(r) : r[i] = x
      BY <1>1, ToSetElements
    <2> QED BY <1>1, <2>1, ToSetElements
  <1>5. ASSUME NEW x \in ToSet(s), x # Last(s) PROVE x \in ToSet(r)
    <2>1. PICK i \in 1..Len(s) : s[i] = x
      BY ToSetElements
    <2>2. i \in 1..Len(r) /\ r[i] = x
      BY <1>1, <1>2, <1>5, <2>1
    <2> QED BY <1>1, <2>2, ToSetElements
  <1>6. ASSUME NoDuplicates(s) PROVE NoDuplicates(r) /\ Last(s) \notin ToSet(r)
    <2>1. NoDuplicates(r)
      BY <1>1, <1>6 DEF NoDuplicates
    <2>2. \A i \in 1..Len(r) : r[i] # Last(s)
      BY <1>1, <1>2, <1>6 DEF NoDuplicates
    <2> QED BY <1>1, <2>1, <2>2, ToSetElements
  <1> QED BY <1>1, <1>3, <1>4, <1>5, <1>6 DEF r


-------------------------------------------------------------------------------
(* Sorted lists. *)

\* The first element of a sorted list has the highest priority.
LEMMA SortedHead ==
    ASSUME NEW S, NEW s \in Seq(S), NEW prio \in [S -> Int], Sorted(s, prio), s # <<>>
    PROVE  \A x \in ToSet(s) : prio[x] <= prio[Head(s)]
  <1> SUFFICES ASSUME NEW x \in ToSet(s) PROVE prio[x] <= prio[Head(s)]
    OBVIOUS
  <1>1. PICK i \in 1..Len(s) : s[i] = x
    BY ToSetElements
  <1>2. 1 \in 1..Len(s) /\ Head(s) = s[1] /\ s[1] \in S /\ s[i] \in S
    OBVIOUS
  <1>3. CASE i = 1
    BY <1>1, <1>2, <1>3
  <1>4. CASE i > 1
    <2>1. prio[s[1]] >= prio[s[i]]
      BY <1>2, <1>4 DEF Sorted
    <2>2. prio[s[1]] \in Int /\ prio[s[i]] \in Int
      BY <1>2
    <2> QED BY <1>1, <1>2, <2>1, <2>2
  <1> QED BY <1>3, <1>4

\* list_pop_head leaves a sorted list sorted.
LEMMA SortedTail ==
    ASSUME NEW S, NEW s \in Seq(S), NEW prio, Sorted(s, prio), s # <<>>
    PROVE  Sorted(Tail(s), prio)
  <1>1. /\ Len(Tail(s)) = Len(s) - 1 /\ Len(s) \in Nat
        /\ \A i \in 1..Len(Tail(s)) : i + 1 \in 1..Len(s) /\ Tail(s)[i] = s[i + 1]
    OBVIOUS
  <1> SUFFICES ASSUME NEW i \in 1..Len(Tail(s)), NEW j \in 1..Len(Tail(s)), i < j
               PROVE  prio[Tail(s)[i]] >= prio[Tail(s)[j]]
    BY DEF Sorted
  <1>2. i + 1 < j + 1
    OBVIOUS
  <1>3. prio[s[i + 1]] >= prio[s[j + 1]]
    BY <1>1, <1>2 DEF Sorted
  <1> QED BY <1>1, <1>3

\* An element may be linked in front of one that it is not lower than, behind
\* those that are not lower than it.
LEMMA SortedInsertAt ==
    ASSUME NEW S, NEW s \in Seq(S), NEW e \in S, NEW prio \in [S -> Int],
           Sorted(s, prio), NEW k \in 1..Len(s),
           \A i \in 1..Len(s) : i < k => prio[s[i]] >= prio[e],
           prio[e] >= prio[s[k]]
    PROVE  Sorted(InsertAt(s, k, e), prio)
  <1> DEFINE r == InsertAt(s, k, e)
  <1>1. /\ r \in Seq(S)
        /\ Len(r) = Len(s) + 1
        /\ \A j \in 1..(Len(s) + 1) :
              r[j] = IF j < k THEN s[j] ELSE IF j = k THEN e ELSE s[j - 1]
    BY InsertAtElements
  <1> HIDE DEF r
  <1>2. /\ r[k] = e
        /\ \A j \in 1..Len(r) : j < k => j \in 1..Len(s) /\ r[j] = s[j]
        /\ \A j \in 1..Len(r) : j > k => j - 1 \in 1..Len(s) /\ r[j] = s[j - 1]
    <2>1. Len(s) \in Nat /\ k \in 1..(Len(s) + 1)
      OBVIOUS
    <2>2. r[k] = e
      BY <1>1, <2>1
    <2>3. ASSUME NEW j \in 1..Len(r), j < k PROVE j \in 1..Len(s) /\ r[j] = s[j]
      BY <1>1, <2>1, <2>3
    <2>4. ASSUME NEW j \in 1..Len(r), j > k PROVE j - 1 \in 1..Len(s) /\ r[j] = s[j - 1]
      BY <1>1, <2>1, <2>4
    <2> QED BY <2>2, <2>3, <2>4
  <1>3. \A i \in 1..Len(s) : prio[s[i]] \in Int
    OBVIOUS
  <1>4. \A i \in 1..Len(s) : i >= k => prio[e] >= prio[s[i]]
    <2> SUFFICES ASSUME NEW i \in 1..Len(s), i > k PROVE prio[e] >= prio[s[i]]
      OBVIOUS
    <2>1. prio[s[k]] >= prio[s[i]]
      BY DEF Sorted
    <2> QED BY <1>3, <2>1
  <1>5. ASSUME NEW i \in 1..Len(r), NEW j \in 1..Len(r), i < j
        PROVE  prio[r[i]] >= prio[r[j]]
    <2>1. CASE j < k
      <3>1. r[i] = s[i] /\ r[j] = s[j] /\ i \in 1..Len(s) /\ j \in 1..Len(s)
        BY <1>2, <1>5, <2>1
      <3> QED BY <1>5, <3>1 DEF Sorted
    <2>2. CASE j = k
      BY <1>2, <1>5, <2>2
    <2>3. CASE j > k /\ i < k
      <3>1. i < j - 1
        BY <1>5, <2>3
      <3>2. r[i] = s[i] /\ r[j] = s[j - 1] /\ i \in 1..Len(s) /\ j - 1 \in 1..Len(s)
        BY <1>2, <2>3
      <3>3. prio[s[i]] >= prio[s[j - 1]]
        BY <3>1, <3>2 DEF Sorted
      <3> QED BY <3>2, <3>3
    <2>4. CASE j > k /\ i = k
      <3>1. r[j] = s[j - 1] /\ j - 1 \in 1..Len(s) /\ j - 1 >= k
        BY <1>2, <2>4
      <3> QED BY <1>2, <1>4, <2>4, <3>1
    <2>5. CASE j > k /\ i > k
      <3>1. r[i] = s[i - 1] /\ r[j] = s[j - 1] /\ i - 1 \in 1..Len(s) /\ j - 1 \in 1..Len(s)
            /\ i - 1 < j - 1
        BY <1>2, <1>5, <2>5
      <3>2. prio[s[i - 1]] >= prio[s[j - 1]]
        BY <3>1 DEF Sorted
      <3> QED BY <3>1, <3>2
    <2> QED BY <2>1, <2>2, <2>3, <2>4, <2>5
  <1> QED BY <1>5 DEF r, Sorted

\* list_add_head and list_add_tail
LEMMA SortedAdd ==
    ASSUME NEW S, NEW s \in Seq(S), NEW e \in S, NEW prio \in [S -> Int], Sorted(s, prio)
    PROVE  /\ (\A i \in 1..Len(s) : prio[e] >= prio[s[i]]) => Sorted(<<e>> \o s, prio)
           /\ (\A i \in 1..Len(s) : prio[s[i]] >= prio[e]) => Sorted(Append(s, e), prio)
  <1>1. ASSUME \A i \in 1..Len(s) : prio[e] >= prio[s[i]]
        PROVE  Sorted(<<e>> \o s, prio)
    <2> DEFINE r == <<e>> \o s
    <2>1. /\ Len(r) = Len(s) + 1 /\ r[1] = e /\ Len(s) \in Nat
          /\ \A i \in 1..Len(s) : r[i + 1] = s[i]
      OBVIOUS
    <2>2. \A i \in 2..Len(r) : i - 1 \in 1..Len(s) /\ r[i] = s[i - 1]
      BY <2>1
    <2> HIDE DEF r
    <2>3. ASSUME NEW i \in 1..Len(r), NEW j \in 1..Len(r), i < j
          PROVE  prio[r[i]] >= prio[r[j]]
      <3>1. j \in 2..Len(r)
        BY <2>3
      <3>2. CASE i = 1
        BY <1>1, <2>1, <2>2, <3>1, <3>2
      <3>3. CASE i # 1
        <4>1. i \in 2..Len(r) /\ i - 1 < j - 1
          BY <2>3, <3>3
        <4>2. prio[s[i - 1]] >= prio[s[j - 1]]
          BY <2>2, <3>1, <4>1 DEF Sorted
        <4> QED BY <2>2, <3>1, <4>1, <4>2
      <3> QED BY <3>2, <3>3
    <2> QED BY <2>3 DEF r, Sorted
  <1>2. ASSUME \A i \in 1..Len(s) : prio[s[i]] >= prio[e]
        PROVE  Sorted(Append(s, e), prio)
    <2> DEFINE r == Append(s, e)
    <2>1. /\ Len(r) = Len(s) + 1 /\ r[Len(r)] = e /\ Len(s) \in Nat
          /\ \A i \in 1..Len(s) : r[i] = s[i]
      OBVIOUS
    <2> HIDE DEF r
    <2>2. ASSUME NEW i \in 1..Len(r), NEW j \in 1..Len(r), i < j
          PROVE  prio[r[i]] >= prio[r[j]]
      <3>1. i \in 1..Len(s)
        BY <2>1, <2>2
      <3>2. CASE j = Len(r)
        BY <1>2, <2>1, <3>1, <3>2
      <3>3. CASE j # Len(r)
        <4>1. j \in 1..Len(s)
          BY <2>1, <3>3
        <4> QED BY <2>1, <2>2, <3>1, <4>1 DEF Sorted
      <3> QED BY <3>2, <3>3
    <2> QED BY <2>2 DEF r, Sorted
  <1> QED BY <1>1, <1>2

\* insert_task keeps a list sorted if the new task is above the whole list, or
\* at most the last element is lower: with more lower elements it does not.
LEMMA SortedInsertTask ==
    ASSUME NEW S, NEW s \in Seq(S), NEW e \in S, NEW prio \in [S -> Int],
           Sorted(s, prio),
           \/ \A i \in 1..Len(s) : prio[e] > prio[s[i]]
           \/ Lower(s, e, prio) \subseteq {Len(s)}
    PROVE  Sorted(insert_task(s, e, prio), prio)
  <1>0. prio[e] \in Int /\ \A i \in 1..Len(s) : prio[s[i]] \in Int
    OBVIOUS
  <1>1. CASE s = <<>> \/ prio[e] > prio[Head(s)]
    <2>1. \A i \in 1..Len(s) : prio[e] >= prio[s[i]]
      <3>1. CASE s = <<>>
        BY <3>1
      <3>2. CASE s # <<>> /\ prio[e] > prio[Head(s)]
        <4>1. \A i \in 1..Len(s) : prio[s[i]] <= prio[Head(s)]
          BY <3>2, SortedHead, ToSetElements
        <4>2. prio[Head(s)] \in Int
          BY <3>2, PopHead
        <4> QED BY <1>0, <3>2, <4>1, <4>2
      <3> QED BY <1>1, <3>1, <3>2
    <2> QED BY <1>1, <2>1, SortedAdd DEF insert_task
  <1>2. CASE ~(s = <<>> \/ prio[e] > prio[Head(s)])
    <2>1. /\ Len(s) \in 1..Len(s) /\ Last(s) = s[Len(s)] /\ Len(s) \in Nat
          /\ 1 \in 1..Len(s) /\ Head(s) = s[1]
      BY <1>2 DEF Last
    <2>2. Lower(s, e, prio) \subseteq {Len(s)}
      BY <1>2, <2>1
    <2>3. CASE prio[e] <= prio[Last(s)]
      <3>1. \A i \in 1..Len(s) : prio[s[i]] >= prio[e]
        <4>1. \A i \in 1..Len(s) : i # Len(s) => ~(prio[e] > prio[s[i]])
          BY <2>2 DEF Lower
        <4> QED BY <1>0, <2>1, <2>3, <4>1
      <3> QED BY <1>2, <2>3, <3>1, SortedAdd DEF insert_task
    <2>4. CASE ~(prio[e] <= prio[Last(s)])
      <3>1. prio[e] > prio[s[Len(s)]]
        BY <1>0, <2>1, <2>4
      <3>2. Lower(s, e, prio) = {Len(s)}
        BY <2>1, <2>2, <3>1 DEF Lower
      <3>3. InsertPoint(s, e, prio) = Len(s)
        BY <2>1, <3>2 DEF InsertPoint
      <3>4. \A i \in 1..Len(s) : i < Len(s) => prio[s[i]] >= prio[e]
        <4>1. \A i \in 1..Len(s) : i # Len(s) => ~(prio[e] > prio[s[i]])
          BY <2>2 DEF Lower
        <4> QED BY <1>0, <4>1
      <3>5. Sorted(InsertAt(s, Len(s), e), prio)
        BY <1>0, <2>1, <3>1, <3>4, SortedInsertAt
      <3> QED BY <1>2, <2>4, <3>3, <3>5 DEF insert_task
    <2> QED BY <2>3, <2>4
  <1> QED BY <1>1, <1>2
================================================================================
