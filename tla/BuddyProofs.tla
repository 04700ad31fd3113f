----------------------------- MODULE BuddyProofs ------------------------------
(***************************************************************************)
(* Proofs about Buddy, for any number of tasks, any size of the heap and   *)
(* of the smallest node: the inductive invariant BInv, and that malloc and *)
(* free partition the heap, return what was asked for, merge free memory   *)
(* as far as it can be, and implement HeapSpec.                            *)
(*                                                                         *)
(* Bit and Shifts are recursive functions.  That such functions exist, and *)
(* what they compute, is proved by induction on a set of numbers; that set *)
(* is all of Nat by the pigeonhole principle for finite sets.              *)
(***************************************************************************)
EXTENDS Buddy, FiniteSetTheorems

-------------------------------------------------------------------------------
(* Powers of two, the order that a size is served with, the buddy of a     *)
(* node, sums of sizes.                                                    *)

\* Induction: a set with 0 and the successor of each of its numbers.
LEMMA Induction ==
    ASSUME NEW S, 0 \in S, \A n \in Nat : n \in S => n + 1 \in S
    PROVE  Nat \subseteq S
  <1> SUFFICES ASSUME NEW n \in Nat, n \notin S PROVE FALSE
    OBVIOUS
  <1> DEFINE A == S \cap (0..n)
             B == A \ {0}
             f == [x \in A |-> x + 1]
  <1>1. IsFiniteSet(A)
    <2>1. IsFiniteSet(0..n) /\ A \in SUBSET (0..n)
      BY FS_Interval
    <2> HIDE DEF A
    <2> QED BY <2>1, FS_Subset
  <1>2. IsFiniteSet(B) /\ Cardinality(B) < Cardinality(A)
    <2>1. 0 \in A
      OBVIOUS
    <2> HIDE DEF A
    <2>2. Cardinality(A) \in Nat
      BY <1>1, FS_CardinalityType
    <2>3. IsFiniteSet(A \ {0}) /\ Cardinality(A \ {0}) = Cardinality(A) - 1
      BY <1>1, <2>1, FS_RemoveElement
    <2> QED BY <2>2, <2>3
  <1>3. f \in [A -> B]
    <2>1. \A x \in A : x + 1 \in B
      OBVIOUS
    <2> QED BY <2>1
  <1>4. PICK x \in A, y \in A : x # y /\ f[x] = f[y]
    <2> HIDE DEF A, B, f
    <2> QED BY <1>1, <1>2, <1>3, FS_PigeonHole
  <1> QED BY <1>4

\* A set of numbers that is not empty has a least one.
LEMMA Least ==
    ASSUME NEW T \in SUBSET Nat, T # {}
    PROVE  \E n \in T : \A m \in T : n <= m
  <1> SUFFICES ASSUME \A n \in T : \E m \in T : m < n PROVE FALSE
    OBVIOUS
  <1> DEFINE S == {n \in Nat : \A m \in T : n < m}
  <1>1. 0 \in S
    OBVIOUS
  <1>2. \A n \in Nat : n \in S => n + 1 \in S
    OBVIOUS
  <1>3. Nat \subseteq S
    <2> HIDE DEF S
    <2> QED BY <1>1, <1>2, Induction
  <1>4. PICK n \in T : TRUE
    OBVIOUS
  <1>5. n \in S
    BY <1>3
  <1> QED BY <1>5

\* The function that iterates g from a exists.
LEMMA Iterates ==
    ASSUME NEW S, NEW a \in S, NEW g \in [S -> S]
    PROVE  \E f \in [Nat -> S] : f[0] = a /\ \A n \in Nat : f[n + 1] = g[f[n]]
  <1> DEFINE Upto(n) == {h \in [0..n -> S] : h[0] = a /\ \A i \in 0..(n - 1) : h[i + 1] = g[h[i]]}
             Some == {n \in Nat : Upto(n) # {}}
             Same(i) == \A n, m \in Nat : \A h \in Upto(n), k \in Upto(m) :
                            i <= n /\ i <= m => h[i] = k[i]
             Equal == {i \in Nat : Same(i)}
  <1>1. Nat \subseteq Some
    <2>1. 0 \in Some
      <3>1. [i \in 0..0 |-> a] \in Upto(0)
        OBVIOUS
      <3> QED BY <3>1
    <2>2. ASSUME NEW n \in Nat, n \in Some PROVE n + 1 \in Some
      <3>1. PICK h \in [0..n -> S] : h[0] = a /\ \A i \in 0..(n - 1) : h[i + 1] = g[h[i]]
        BY <2>2
      <3> DEFINE k == [i \in 0..(n + 1) |-> IF i = n + 1 THEN g[h[n]] ELSE h[i]]
      <3>2. k \in [0..(n + 1) -> S]
        OBVIOUS
      <3>3. k[0] = a
        BY <3>1
      <3>4. ASSUME NEW i \in 0..((n + 1) - 1) PROVE k[i + 1] = g[k[i]]
        <4>1. CASE i = n
          BY <4>1
        <4>2. CASE i # n
          BY <3>1, <4>2
        <4> QED BY <4>1, <4>2
      <3> HIDE DEF k
      <3>5. k \in Upto(n + 1)
        BY <3>2, <3>3, <3>4
      <3> QED BY <3>5
    <2> HIDE DEF Some
    <2> QED BY <2>1, <2>2, Induction
  <1>2. Nat \subseteq Equal
    <2>1. 0 \in Equal
      OBVIOUS
    <2>2. ASSUME NEW i \in Nat, i \in Equal PROVE i + 1 \in Equal
      <3> SUFFICES ASSUME NEW n \in Nat, NEW m \in Nat, NEW h \in Upto(n), NEW k \in Upto(m),
                          i + 1 <= n, i + 1 <= m
                   PROVE  h[i + 1] = k[i + 1]
        BY <2>2
      <3>1. h[i + 1] = g[h[i]] /\ k[i + 1] = g[k[i]]
        <4>1. i \in 0..(n - 1) /\ i \in 0..(m - 1)
          BY <2>2
        <4> QED BY <4>1
      <3>2. h[i] = k[i]
        <4>1. i <= n /\ i <= m
          BY <2>2
        <4>2. Same(i)
          BY <2>2
        <4> HIDE DEF Upto
        <4> QED BY <4>1, <4>2
      <3> QED BY <3>1, <3>2
    <2> HIDE DEF Equal
    <2> QED BY <2>1, <2>2, Induction
  <1> DEFINE pick(n) == CHOOSE h \in Upto(n) : TRUE
             f == [n \in Nat |-> pick(n)[n]]
  <1>3. ASSUME NEW n \in Nat PROVE pick(n) \in Upto(n)
    <2>1. Upto(n) # {}
      BY <1>1
    <2> HIDE DEF Upto
    <2> QED BY <2>1
  <1>4. ASSUME NEW n \in Nat PROVE pick(n) \in [0..n -> S] /\ pick(n)[0] = a
    <2>1. pick(n) \in Upto(n)
      BY <1>3
    <2> HIDE DEF pick
    <2> QED BY <2>1
  <1>5. f \in [Nat -> S]
    <2>1. \A n \in Nat : pick(n)[n] \in S
      <3> HIDE DEF pick
      <3> QED BY <1>4
    <2> HIDE DEF pick
    <2> QED BY <2>1
  <1>6. f[0] = a
    <2> HIDE DEF pick
    <2> QED BY <1>4
  <1>7. ASSUME NEW n \in Nat PROVE f[n + 1] = g[f[n]]
    <2>1. pick(n + 1) \in Upto(n + 1) /\ pick(n) \in Upto(n) /\ Same(n)
      <3>1. n + 1 \in Nat
        OBVIOUS
      <3>2. Same(n)
        <4>1. n \in Equal
          <5> HIDE DEF Equal
          <5> QED BY <1>2
        <4> QED BY <4>1
      <3> HIDE DEF pick, Upto, Same, Equal
      <3> QED BY <1>3, <3>1, <3>2
    <2>2. pick(n + 1)[n] = pick(n)[n]
      <3> HIDE DEF pick, Upto
      <3> QED BY <2>1
    <2>3. pick(n + 1)[n + 1] = g[pick(n + 1)[n]]
      <3>1. n \in 0..((n + 1) - 1)
        OBVIOUS
      <3> HIDE DEF pick
      <3> QED BY <2>1, <3>1
    <2> HIDE DEF pick
    <2> QED BY <2>2, <2>3
  <1> HIDE DEF f
  <1> QED BY <1>5, <1>6, <1>7

-------------------------------------------------------------------------------
(* Powers of two *)

LEMMA BitFacts ==
    /\ Bit \in [Nat -> Nat \ {0}]
    /\ Bit[0] = 1
    /\ \A n \in Nat : Bit[n + 1] = 2 * Bit[n]
  <1> DEFINE S == Nat \ {0}
             double == [x \in S |-> 2 * x]
  <1>1. double \in [S -> S] /\ 1 \in S
    OBVIOUS
  <1>2. PICK f \in [Nat -> S] : f[0] = 1 /\ \A n \in Nat : f[n + 1] = double[f[n]]
    <2>1. PICK one \in S : one = 1
      OBVIOUS
    <2>2. PICK d \in [S -> S] : d = double
      BY <1>1
    <2> HIDE DEF S, double
    <2>3. \E f \in [Nat -> S] : f[0] = one /\ \A n \in Nat : f[n + 1] = d[f[n]]
      BY Iterates
    <2> QED BY <2>1, <2>2, <2>3
  <1>3. ASSUME NEW n \in Nat PROVE f[n] = IF n = 0 THEN 1 ELSE 2 * f[n - 1]
    <2>1. CASE n # 0
      <3>1. n - 1 \in Nat /\ (n - 1) + 1 = n
        BY <2>1
      <3>2. f[(n - 1) + 1] = 2 * f[n - 1]
        BY <1>2, <3>1
      <3> QED BY <2>1, <3>1, <3>2
    <2> QED BY <1>2, <2>1
  <1>4. f = [n \in Nat |-> IF n = 0 THEN 1 ELSE 2 * f[n - 1]]
    BY <1>3
  <1>5. Bit = [n \in Nat |-> IF n = 0 THEN 1 ELSE 2 * Bit[n - 1]]
    BY <1>4 DEF Bit
  <1>6. \A n \in Nat : Bit[n + 1] = 2 * Bit[n]
    <2> SUFFICES ASSUME NEW n \in Nat PROVE Bit[n + 1] = 2 * Bit[n]
      OBVIOUS
    <2>1. n + 1 \in Nat /\ n + 1 # 0 /\ (n + 1) - 1 = n
      OBVIOUS
    <2> QED BY <1>5, <2>1
  <1>7. Bit[0] = 1
    BY <1>5
  <1> DEFINE P == {n \in Nat : Bit[n] \in Nat \ {0}}
  <1>8. Nat \subseteq P
    <2>1. 0 \in P /\ \A n \in Nat : n \in P => n + 1 \in P
      BY <1>6, <1>7
    <2> HIDE DEF P
    <2> QED BY <2>1, Induction
  <1>9. Bit \in [Nat -> Nat \ {0}]
    <2>1. \A n \in Nat : Bit[n] \in Nat \ {0}
      BY <1>8
    <2> QED BY <1>5, <2>1
  <1> QED BY <1>6, <1>7, <1>9

\* A larger power of two is a multiple of a smaller one.
LEMMA BitSum ==
    \A m, k \in Nat : Bit[m + k] = Bit[k] * Bit[m]
  <1> SUFFICES ASSUME NEW m \in Nat PROVE \A k \in Nat : Bit[m + k] = Bit[k] * Bit[m]
    OBVIOUS
  <1> DEFINE P == {k \in Nat : Bit[m + k] = Bit[k] * Bit[m]}
  <1>1. 0 \in P
    BY BitFacts
  <1>2. ASSUME NEW k \in Nat, k \in P PROVE k + 1 \in P
    <2>1. Bit[m + (k + 1)] = 2 * Bit[m + k] /\ Bit[k + 1] = 2 * Bit[k]
      <3>1. m + k \in Nat /\ m + (k + 1) = (m + k) + 1
        OBVIOUS
      <3> QED BY <3>1, BitFacts
    <2>2. Bit[m + k] = Bit[k] * Bit[m] /\ Bit[k] \in Nat /\ Bit[m] \in Nat
      BY <1>2, BitFacts
    <2>3. \A x, y \in Nat : 2 * (x * y) = (2 * x) * y
      OBVIOUS
    <2> QED BY <2>1, <2>2, <2>3
  <1>3. Nat \subseteq P
    <2> HIDE DEF P
    <2> QED BY <1>1, <1>2, Induction
  <1> QED BY <1>3

LEMMA BitMonotone ==
    \A m, n \in Nat : m <= n => Bit[m] <= Bit[n]
  <1> SUFFICES ASSUME NEW m \in Nat PROVE \A n \in Nat : m <= n => Bit[m] <= Bit[n]
    OBVIOUS
  <1> DEFINE P == {n \in Nat : m <= n => Bit[m] <= Bit[n]}
  <1>1. 0 \in P
    BY BitFacts
  <1>2. ASSUME NEW n \in Nat, n \in P PROVE n + 1 \in P
    <2>1. Bit[n + 1] = 2 * Bit[n] /\ Bit[n] \in Nat /\ Bit[m] \in Nat /\ Bit[n + 1] \in Nat
      BY BitFacts
    <2>2. CASE m <= n
      BY <1>2, <2>1, <2>2
    <2>3. CASE m = n + 1
      BY <2>1, <2>3
    <2> QED BY <2>2, <2>3
  <1>3. Nat \subseteq P
    <2> HIDE DEF P
    <2> QED BY <1>1, <1>2, Induction
  <1> QED BY <1>3


-------------------------------------------------------------------------------
(* The order of a size *)

\* k is the number of shifts until nothing is left of n.
Log(n, k) == IF n = 0 THEN k = 0 ELSE Bit[k] <= n /\ n < Bit[k + 1]

LEMMA LogUnique ==
    ASSUME NEW n \in Nat, NEW k \in Nat, NEW j \in Nat, Log(n, k), Log(n, j)
    PROVE  k = j
  <1>1. CASE n = 0
    BY <1>1 DEF Log
  <1>2. CASE n # 0
    <2>1. /\ Bit[k] \in Nat /\ Bit[j] \in Nat /\ Bit[k + 1] \in Nat /\ Bit[j + 1] \in Nat
          /\ Bit[k] <= n /\ n < Bit[k + 1] /\ Bit[j] <= n /\ n < Bit[j + 1]
      BY <1>2, BitFacts DEF Log
    <2>2. ~(k + 1 <= j)
      BY <2>1, BitMonotone
    <2>3. ~(j + 1 <= k)
      BY <2>1, BitMonotone
    <2> QED BY <2>2, <2>3
  <1> QED BY <1>1, <1>2

LEMMA LogExists ==
    \A n \in Nat : \E k \in Nat : Log(n, k)
  <1> DEFINE P == {n \in Nat : \E k \in Nat : Log(n, k)}
  <1>1. 0 \in P
    BY DEF Log
  <1>2. ASSUME NEW n \in Nat, n \in P PROVE n + 1 \in P
    <2>1. PICK k \in Nat : Log(n, k)
      BY <1>2
    <2>2. CASE n = 0
      <3>1. Bit[0] = 1 /\ Bit[0 + 1] = 2
        BY BitFacts
      <3>2. Log(n + 1, 0)
        BY <2>2, <3>1 DEF Log
      <3> QED BY <3>2
    <2>3. CASE n # 0
      <3>1. /\ Bit[k] \in Nat /\ Bit[k + 1] \in Nat \ {0} /\ Bit[k] <= n /\ n < Bit[k + 1]
            /\ Bit[(k + 1) + 1] = 2 * Bit[k + 1]
        BY <2>1, <2>3, BitFacts DEF Log
      <3>2. CASE n + 1 < Bit[k + 1]
        <4>1. Log(n + 1, k)
          BY <3>1, <3>2 DEF Log
        <4> QED BY <4>1
      <3>3. CASE n + 1 = Bit[k + 1]
        <4>1. Log(n + 1, k + 1)
          BY <3>1, <3>3 DEF Log
        <4> QED BY <4>1
      <3> QED BY <3>1, <3>2, <3>3
    <2> QED BY <2>2, <2>3
  <1>3. Nat \subseteq P
    <2> HIDE DEF P
    <2> QED BY <1>1, <1>2, Induction
  <1> QED BY <1>3

\* One more shift for twice as much.
LEMMA LogStep ==
    ASSUME NEW n \in Nat, NEW k \in Nat
    PROVE  /\ n \div 2 \in Nat
           /\ n \div 2 = 0 => Log(n, 0)
           /\ n \div 2 # 0 => n # 0 /\ n \div 2 < n /\ (Log(n \div 2, k) => Log(n, k + 1))
  <1>1. n \div 2 \in Nat /\ 2 * (n \div 2) <= n /\ n < 2 * (n \div 2) + 2
    OBVIOUS
  <1> DEFINE m == n \div 2
  <1>2. m \in Nat /\ 2 * m <= n /\ n < 2 * m + 2
    BY <1>1
  <1> HIDE DEF m
  <1>3. ASSUME m = 0 PROVE Log(n, 0)
    <2>1. Bit[0] = 1 /\ Bit[0 + 1] = 2
      BY BitFacts
    <2>2. n = 0 \/ n = 1
      BY <1>2, <1>3
    <2> QED BY <2>1, <2>2 DEF Log
  <1>4. ASSUME m # 0, Log(m, k) PROVE Log(n, k + 1)
    <2>1. /\ Bit[k] <= m /\ m < Bit[k + 1]
          /\ Bit[k] \in Nat /\ Bit[k + 1] = 2 * Bit[k] /\ Bit[(k + 1) + 1] = 2 * Bit[k + 1]
          /\ Bit[k + 1] \in Nat
      BY <1>4, BitFacts DEF Log
    <2>2. n # 0 /\ Bit[k + 1] <= n /\ n < Bit[(k + 1) + 1]
      BY <1>2, <1>4, <2>1
    <2> QED BY <2>2 DEF Log
  <1>5. m # 0 => n # 0 /\ m < n
    BY <1>2
  <1> QED BY <1>2, <1>3, <1>4, <1>5 DEF m

LEMMA ShiftsFacts ==
    \A n \in Nat : Shifts[n] \in Nat /\ Log(n, Shifts[n])
  <1> DEFINE f == [n \in Nat |-> CHOOSE k \in Nat : Log(n, k)]
  <1>1. \A n \in Nat : f[n] \in Nat /\ Log(n, f[n])
    BY LogExists
  <1>2. \A n \in Nat : f[n] = IF n \div 2 = 0 THEN 0 ELSE 1 + f[n \div 2]
    <2> SUFFICES ASSUME NEW n \in Nat
                 PROVE  f[n] = IF n \div 2 = 0 THEN 0 ELSE 1 + f[n \div 2]
      OBVIOUS
    <2> HIDE DEF f
    <2>1. f[n] \in Nat /\ Log(n, f[n]) /\ n \div 2 \in Nat
      BY <1>1, LogStep
    <2>2. f[n \div 2] \in Nat /\ Log(n \div 2, f[n \div 2])
      BY <1>1, <2>1
    <2>3. CASE n \div 2 = 0
      BY <2>1, <2>3, LogStep, LogUnique
    <2>4. CASE n \div 2 # 0
      <3>1. Log(n, f[n \div 2] + 1) /\ f[n \div 2] + 1 \in Nat
        BY <2>2, <2>4, LogStep
      <3> QED BY <2>1, <2>2, <2>4, <3>1, LogUnique
    <2> QED BY <2>3, <2>4
  <1>3. f = [n \in Nat |-> IF n \div 2 = 0 THEN 0 ELSE 1 + f[n \div 2]]
    <2>1. f = [n \in Nat |-> f[n]]
      OBVIOUS
    <2> HIDE DEF f
    <2> QED BY <1>2, <2>1
  <1>4. Shifts = [n \in Nat |-> IF n \div 2 = 0 THEN 0 ELSE 1 + Shifts[n \div 2]]
    <2> HIDE DEF f
    <2> QED BY <1>3 DEF Shifts
  <1>5. \A n \in Nat : Shifts[n] = IF n \div 2 = 0 THEN 0 ELSE 1 + Shifts[n \div 2]
    BY <1>4
  <1> DEFINE Q(n) == Shifts[n] \in Nat /\ Log(n, Shifts[n])
             P == {n \in Nat : \A m \in Nat : m <= n => Q(m)}
  <1>6. ASSUME NEW n \in Nat, \A m \in Nat : m < n => Q(m) PROVE Q(n)
    <2>1. CASE n \div 2 = 0
      BY <1>5, <2>1, LogStep
    <2>2. CASE n \div 2 # 0
      <3>1. n \div 2 \in Nat /\ n \div 2 < n
        BY <2>2, LogStep
      <3>2. Q(n \div 2)
        BY <1>6, <3>1
      <3>3. Shifts[n] = 1 + Shifts[n \div 2]
        BY <1>5, <2>2
      <3>4. Log(n, Shifts[n \div 2] + 1)
        BY <2>2, <3>2, LogStep
      <3>5. Shifts[n] = Shifts[n \div 2] + 1
        BY <3>2, <3>3
      <3> QED BY <3>2, <3>4, <3>5
    <2> QED BY <2>1, <2>2
  <1>7. Nat \subseteq P
    <2> HIDE DEF Q
    <2>1. 0 \in P
      BY <1>6
    <2>2. ASSUME NEW n \in Nat, n \in P PROVE n + 1 \in P
      <3>1. \A m \in Nat : m < n + 1 => Q(m)
        BY <2>2
      <3>2. Q(n + 1)
        BY <1>6, <3>1
      <3> QED BY <3>1, <3>2
    <2> HIDE DEF P
    <2> QED BY <2>1, <2>2, Induction
  <1> QED BY <1>7

\* size_to_order returns the smallest order with room for n bytes.
LEMMA SizeToOrder ==
    ASSUME NEW n \in Nat \ {0}
    PROVE  /\ size_to_order(n) \in Nat
           /\ n <= Bit[size_to_order(n)]
           /\ size_to_order(n) > 0 => Bit[size_to_order(n) - 1] < n
  <1> DEFINE s == Shifts[n]
  <1>1. /\ s \in Nat /\ Bit[s] \in Nat /\ Bit[s + 1] = 2 * Bit[s]
        /\ Bit[s] <= n /\ n < Bit[s + 1]
    <2>1. s \in Nat /\ Log(n, s)
      BY ShiftsFacts
    <2> HIDE DEF s
    <2> QED BY <2>1, BitFacts DEF Log
  <1>2. size_to_order(n) = IF Bit[s] # n THEN s + 1 ELSE s
    BY DEF size_to_order
  <1> HIDE DEF s
  <1>3. CASE Bit[s] # n
    <2>1. size_to_order(n) = s + 1 /\ (s + 1) - 1 = s
      BY <1>1, <1>2, <1>3
    <2> QED BY <1>1, <1>3, <2>1
  <1>4. CASE Bit[s] = n
    <2>1. size_to_order(n) = s
      BY <1>2, <1>4
    <2>2. s > 0 => s - 1 \in Nat /\ (s - 1) + 1 = s
      BY <1>1
    <2>3. s > 0 => Bit[s - 1] \in Nat \ {0} /\ Bit[s] = 2 * Bit[s - 1]
      BY <2>2, BitFacts
    <2> QED BY <1>1, <1>4, <2>1, <2>3
  <1> QED BY <1>3, <1>4

-------------------------------------------------------------------------------
(* The buddy of a node *)

\* The other half of the node of the next order.
LEMMA Buddies ==
    ASSUME NEW o \in Nat, NEW k \in Nat, NEW n, n = k * Bit[o]
    PROVE  /\ n \in Nat
           /\ \E j \in Nat :
                 \/ n = j * Bit[o + 1] /\ BuddyOf(n, o) = n + Bit[o]
                 \/ n = j * Bit[o + 1] + Bit[o] /\ BuddyOf(n, o) = n - Bit[o]
  <1> DEFINE b == Bit[o]
  <1>1. b \in Nat \ {0} /\ Bit[o + 1] = 2 * b /\ n = k * b
    BY BitFacts
  <1>2. BuddyOf(n, o) = IF (n \div b) % 2 = 0 THEN n + b ELSE n - b
    BY DEF BuddyOf
  <1> HIDE DEF b
  <1>3. n \div b = k /\ n \in Nat
    BY <1>1
  <1>4. PICK j \in Nat : k = 2 * j \/ k = 2 * j + 1
    <2>1. k = 2 * (k \div 2) \/ k = 2 * (k \div 2) + 1
      OBVIOUS
    <2>2. k \div 2 \in Nat
      OBVIOUS
    <2> QED BY <2>1, <2>2
  <1>5. CASE k = 2 * j
    <2>1. k % 2 = 0
      BY <1>5
    <2>2. n = j * (2 * b)
      BY <1>1, <1>5
    <2> QED BY <1>1, <1>2, <1>3, <2>1, <2>2 DEF b
  <1>6. CASE k = 2 * j + 1
    <2>1. k % 2 # 0
      BY <1>6
    <2>2. n = j * (2 * b) + b
      BY <1>1, <1>6
    <2> QED BY <1>1, <1>2, <1>3, <2>1, <2>2 DEF b
  <1> QED BY <1>4, <1>5, <1>6

\* Each of the halves of a node is the other's buddy.
LEMMA Halves ==
    ASSUME NEW o \in Nat, NEW j \in Nat, NEW n, n = j * Bit[o + 1]
    PROVE  /\ n \in Nat
           /\ \E k \in Nat : n = k * Bit[o]
           /\ \E k \in Nat : n + Bit[o] = k * Bit[o]
           /\ BuddyOf(n, o) = n + Bit[o]
           /\ BuddyOf(n + Bit[o], o) = n
  <1> DEFINE b == Bit[o]
  <1>1. b \in Nat \ {0} /\ n = j * (2 * b)
    BY BitFacts
  <1>2. \A m : BuddyOf(m, o) = IF (m \div b) % 2 = 0 THEN m + b ELSE m - b
    BY DEF BuddyOf
  <1> HIDE DEF b
  <1>3. n = (2 * j) * b /\ n + b = (2 * j + 1) * b /\ 2 * j \in Nat /\ 2 * j + 1 \in Nat /\ n \in Nat
    BY <1>1
  <1>4. n \div b = 2 * j /\ (n + b) \div b = 2 * j + 1
    <2>1. \A k \in Nat : (k * b) \div b = k
      BY <1>1
    <2> QED BY <1>3, <2>1
  <1>5. (2 * j) % 2 = 0 /\ (2 * j + 1) % 2 # 0
    OBVIOUS
  <1>6. BuddyOf(n, o) = n + b
    BY <1>2, <1>4, <1>5
  <1>7. BuddyOf(n + b, o) = n
    <2>1. BuddyOf(n + b, o) = (n + b) - b
      BY <1>2, <1>4, <1>5
    <2> QED BY <1>1, <1>3, <2>1
  <1> QED BY <1>3, <1>6, <1>7 DEF b

\* Buddies are each other's buddy, and the lower one is at a multiple of the
\* size of both.
LEMMA BuddyOfBuddy ==
    ASSUME NEW o \in Nat, NEW k \in Nat, NEW n, n = k * Bit[o]
    PROVE  /\ BuddyOf(n, o) \in Nat
           /\ BuddyOf(n, o) # n
           /\ BuddyOf(BuddyOf(n, o), o) = n
           /\ \E j \in Nat : /\ {n, BuddyOf(n, o)} = {j * Bit[o + 1], j * Bit[o + 1] + Bit[o]}
                             /\ j * Bit[o + 1] \in Nat
  <1>1. n \in Nat /\ Bit[o] \in Nat \ {0}
    BY BitFacts, Buddies
  <1>2. PICK j \in Nat :
           \/ n = j * Bit[o + 1] /\ BuddyOf(n, o) = n + Bit[o]
           \/ n = j * Bit[o + 1] + Bit[o] /\ BuddyOf(n, o) = n - Bit[o]
    BY Buddies
  <1> DEFINE m == j * Bit[o + 1]
  <1>3. m \in Nat /\ BuddyOf(m, o) = m + Bit[o] /\ BuddyOf(m + Bit[o], o) = m
    <2>1. m = j * Bit[o + 1]
      OBVIOUS
    <2> HIDE DEF m
    <2>2. m \in Nat
      BY <2>1, Halves
    <2>3. BuddyOf(m, o) = m + Bit[o]
      BY <2>1, Halves
    <2>4. BuddyOf(m + Bit[o], o) = m
      BY <2>1, Halves
    <2> QED BY <2>2, <2>3, <2>4
  <1>4. \/ n = m /\ BuddyOf(n, o) = m + Bit[o]
        \/ n = m + Bit[o] /\ BuddyOf(n, o) = m
    <2>0. \/ n = m /\ BuddyOf(n, o) = n + Bit[o]
          \/ n = m + Bit[o] /\ BuddyOf(n, o) = n - Bit[o]
      BY <1>2
    <2> HIDE DEF m
    <2> QED BY <1>1, <1>3, <2>0
  <1>5. {n, BuddyOf(n, o)} = {m, m + Bit[o]} /\ m \in Nat
    BY <1>3, <1>4
  <1>6. BuddyOf(n, o) \in Nat /\ BuddyOf(n, o) # n /\ BuddyOf(BuddyOf(n, o), o) = n
    <2> HIDE DEF m
    <2> QED BY <1>1, <1>3, <1>4
  <1> QED BY <1>5, <1>6


-------------------------------------------------------------------------------
(* Sums over finite sets.  A sum of sizes is the cardinality of the union of *)
(* sets that have these sizes and do not overlap, whatever order the fold     *)
(* takes the elements in.                                                     *)

\* The elements of the sets that c gives to the members of T.
Cover(c, T) == UNION {c[x] : x \in T}

\* The sets that c gives to the members of S have the sizes w, and do not overlap.
Blocks(c, w, S) ==
    /\ \A x \in S : IsFiniteSet(c[x]) /\ Cardinality(c[x]) = w[x]
    /\ \A x, y \in S : x # y => c[x] \cap c[y] = {}

\* f adds up sizes: the element it takes out of a set is one of the set.
AddsUp(f, w, S) ==
    /\ f[{}] = 0
    /\ \A T \in SUBSET S : T # {} => \E x \in T : f[T] = f[T \ {x}] + w[x]

\* One member more adds the size of its set.
LEMMA CoverStep ==
    ASSUME NEW S, IsFiniteSet(S), NEW c, NEW w,
           Blocks(c, w, S),
           NEW T \in SUBSET S, NEW x \in T
    PROVE  /\ IsFiniteSet(Cover(c, T)) /\ Cardinality(Cover(c, T)) \in Nat
           /\ Cardinality(Cover(c, T)) = Cardinality(Cover(c, T \ {x})) + w[x]
  <1> DEFINE A == Cover(c, T \ {x})
             B == c[x]
  <1>1. ASSUME NEW U \in SUBSET S PROVE IsFiniteSet(Cover(c, U))
    <2> DEFINE D == {c[y] : y \in U}
    <2>1. IsFiniteSet(U)
      BY FS_Subset
    <2>2. IsFiniteSet(D)
      <3> DEFINE h == [y \in U |-> c[y]]
      <3>1. h \in Surjection(U, D)
        BY DEF Surjection
      <3> HIDE DEF h, D
      <3> QED BY <2>1, <3>1, FS_Surjection
    <2>3. \A X \in D : IsFiniteSet(X)
      BY DEF Blocks
    <2> HIDE DEF D
    <2>4. IsFiniteSet(UNION D)
      BY <2>2, <2>3, FS_UNION
    <2> QED BY <2>4 DEF Cover, D
  <1>2. IsFiniteSet(A) /\ IsFiniteSet(Cover(c, T))
    BY <1>1
  <1>3. IsFiniteSet(B) /\ Cardinality(B) = w[x]
    BY DEF Blocks
  <1>4. A \cap B = {}
    BY DEF Cover, Blocks
  <1>5. Cover(c, T) = A \cup B
    BY DEF Cover
  <1> HIDE DEF A, B
  <1>6. Cardinality(A \cup B) = Cardinality(A) + Cardinality(B) - Cardinality(A \cap B)
    BY <1>2, <1>3, FS_Union
  <1>7. Cardinality(A) \in Nat /\ Cardinality(B) \in Nat /\ Cardinality(Cover(c, T)) \in Nat
        /\ Cardinality({}) = 0
    BY <1>2, <1>3, FS_CardinalityType, FS_EmptySet
  <1>8. Cardinality(Cover(c, T)) = Cardinality(A) + w[x]
    <2>1. Cardinality(A \cap B) = 0
      BY <1>4, <1>7
    <2>2. Cardinality(A \cup B) = Cardinality(A) + Cardinality(B)
      BY <1>6, <1>7, <2>1
    <2> QED BY <1>3, <1>5, <2>2
  <1> QED BY <1>2, <1>7, <1>8 DEF A

LEMMA CoverEmpty == \A c : Cardinality(Cover(c, {})) = 0
  BY FS_EmptySet DEF Cover

\* A function that adds the sizes up element by element yields that cardinality:
\* a smallest set for which it did not would have a smaller one.
LEMMA SumIsCardinality ==
    ASSUME NEW S, IsFiniteSet(S), NEW c, NEW w,
           Blocks(c, w, S),
           NEW f, AddsUp(f, w, S)
    PROVE  f[S] = Cardinality(Cover(c, S))
  <1> DEFINE Bad == {T \in SUBSET S : f[T] # Cardinality(Cover(c, T))}
             Cards == {Cardinality(T) : T \in Bad}
  <1>1. \A T \in SUBSET S : IsFiniteSet(T) /\ Cardinality(T) \in Nat
    BY FS_Subset, FS_CardinalityType
  <1> SUFFICES ASSUME S \in Bad PROVE FALSE
    OBVIOUS
  <1>2. Cards \in SUBSET Nat /\ Cards # {}
    BY <1>1
  <1>3. PICK n \in Cards : \A m \in Cards : n <= m
    <2> HIDE DEF Cards
    <2> QED BY <1>2, Least
  <1>4. PICK T \in Bad : n = Cardinality(T)
    OBVIOUS
  <1>5. T # {}
    BY <1>4, CoverEmpty DEF AddsUp
  <1>6. PICK x \in T : f[T] = f[T \ {x}] + w[x]
    BY <1>5 DEF AddsUp
  <1>7. T \in SUBSET S /\ T \ {x} \in SUBSET S
    BY <1>6
  <1>8. Cardinality(T \ {x}) = Cardinality(T) - 1 /\ Cardinality(T) \in Nat
    BY <1>1, <1>6, <1>7, FS_RemoveElement
  <1>9. T \ {x} \notin Bad
    <2>1. Cardinality(T \ {x}) < n
      BY <1>4, <1>8
    <2>2. ASSUME T \ {x} \in Bad PROVE FALSE
      <3>1. Cardinality(T \ {x}) \in Cards
        BY <2>2
      <3>2. n <= Cardinality(T \ {x}) /\ n \in Nat
        BY <1>2, <1>3, <3>1
      <3> QED BY <1>4, <1>8, <2>1, <3>2
    <2> QED BY <2>2
  <1>10. f[T \ {x}] = Cardinality(Cover(c, T \ {x}))
    BY <1>7, <1>9
  <1>11. Cardinality(Cover(c, T)) = Cardinality(Cover(c, T \ {x})) + w[x]
    BY <1>6, <1>7, CoverStep
  <1> QED BY <1>4, <1>6, <1>10, <1>11


\* Blocks of one size that do not overlap.
LEMMA BlocksCardinality ==
    ASSUME NEW n \in Nat, NEW b \in Nat, NEW c,
           \A i \in 1..n : IsFiniteSet(c[i]) /\ Cardinality(c[i]) = b,
           \A i, j \in 1..n : i # j => c[i] \cap c[j] = {}
    PROVE  IsFiniteSet(Cover(c, 1..n)) /\ Cardinality(Cover(c, 1..n)) = n * b
  <1> DEFINE S == 1..n
             w == [i \in S |-> b]
             f == [T \in SUBSET S |-> Cardinality(T) * b]
  <1>1. IsFiniteSet(S) /\ Cardinality(S) = n
    BY FS_Interval
  <1>2. \A T \in SUBSET S : IsFiniteSet(T) /\ Cardinality(T) \in Nat
    <2> HIDE DEF S
    <2> QED BY <1>1, FS_Subset, FS_CardinalityType
  <1>3. f[{}] = 0
    BY FS_EmptySet
  <1>4. \A T \in SUBSET S : T # {} => \E x \in T : f[T] = f[T \ {x}] + w[x]
    <2> SUFFICES ASSUME NEW T \in SUBSET S, NEW x \in T PROVE f[T] = f[T \ {x}] + w[x]
      OBVIOUS
    <2>1. x \in T /\ x \in S
      OBVIOUS
    <2>2. /\ Cardinality(T \ {x}) = Cardinality(T) - 1
          /\ Cardinality(T) \in Nat /\ Cardinality(T \ {x}) \in Nat
      BY <1>2, <2>1, FS_RemoveElement
    <2>3. Cardinality(T) * b = Cardinality(T \ {x}) * b + b
      BY <2>2
    <2> QED BY <2>1, <2>3
  <1>5. f[S] = n * b
    BY <1>1
  <1>6. Blocks(c, w, S)
    BY DEF Blocks
  <1>7. AddsUp(f, w, S)
    BY <1>3, <1>4 DEF AddsUp
  <1> HIDE DEF S, w, f
  <1>8. f[S] = Cardinality(Cover(c, S))
    BY <1>1, <1>6, <1>7, SumIsCardinality
  <1>9. IsFiniteSet(Cover(c, S))
    <2>1. CASE S = {}
      BY <2>1, FS_EmptySet DEF Cover
    <2>2. CASE S # {}
      <3>1. PICK x \in S : TRUE
        BY <2>2
      <3> QED BY <1>1, <1>6, CoverStep
    <2> QED BY <2>1, <2>2
  <1> QED BY <1>5, <1>8, <1>9 DEF S

-------------------------------------------------------------------------------
(* The allocator. *)

LEMMA OrdersFacts ==
    /\ MinOrder \in Orders /\ MaxOrder \in Orders /\ HeapSize \in Nat
    /\ \A o \in Orders :
          /\ o \in Nat /\ MinOrder <= o /\ o <= MaxOrder
          /\ Bit[o] \in Nat \ {0} /\ Bit[o] <= HeapSize
          /\ o # MaxOrder => o + 1 \in Orders /\ Bit[o + 1] = 2 * Bit[o]
          /\ o # MinOrder => o - 1 \in Orders /\ Bit[o] = 2 * Bit[o - 1]
  <1>1. MinOrder \in Nat /\ MaxOrder \in Nat /\ MinOrder <= MaxOrder
    BY BuddyAssumption
  <1>2. HeapSize \in Nat
    BY <1>1, BitFacts DEF HeapSize
  <1>3. ASSUME NEW o \in Orders
        PROVE  /\ o \in Nat /\ MinOrder <= o /\ o <= MaxOrder
               /\ Bit[o] \in Nat \ {0} /\ Bit[o] <= HeapSize
               /\ o # MaxOrder => o + 1 \in Orders /\ Bit[o + 1] = 2 * Bit[o]
               /\ o # MinOrder => o - 1 \in Orders /\ Bit[o] = 2 * Bit[o - 1]
    <2>1. o \in Nat /\ MinOrder <= o /\ o <= MaxOrder
      BY <1>1 DEF Orders
    <2>2. Bit[o] \in Nat \ {0} /\ Bit[o] <= HeapSize
      BY <1>1, <2>1, BitFacts, BitMonotone DEF HeapSize
    <2>3. o # MaxOrder => o + 1 \in Orders /\ Bit[o + 1] = 2 * Bit[o]
      BY <1>1, <2>1, BitFacts DEF Orders
    <2>4. ASSUME o # MinOrder PROVE o - 1 \in Orders /\ Bit[o] = 2 * Bit[o - 1]
      <3>1. o - 1 \in Orders /\ o - 1 \in Nat /\ (o - 1) + 1 = o
        BY <1>1, <2>1, <2>4 DEF Orders
      <3>2. Bit[(o - 1) + 1] = 2 * Bit[o - 1]
        BY <3>1, BitFacts
      <3> QED BY <3>1, <3>2
    <2> QED BY <2>1, <2>2, <2>3, <2>4
  <1> QED BY <1>1, <1>2, <1>3 DEF Orders

\* Nodes are the multiples of the smallest size in the heap.
LEMMA NodesFacts ==
    /\ 0 \in Nodes
    /\ \A n \in Nodes : n \in Nat
    /\ \A n \in Nodes, o \in Orders :
          o # MinOrder /\ n + Bit[o] <= HeapSize => n + Bit[o - 1] \in Nodes
  <1> DEFINE b == Bit[MinOrder]
             top == Bit[MaxOrder - MinOrder]
  <1>1. /\ MinOrder \in Nat /\ MaxOrder - MinOrder \in Nat
        /\ MinOrder + (MaxOrder - MinOrder) = MaxOrder
    BY BuddyAssumption
  <1>2. b \in Nat \ {0} /\ top \in Nat \ {0}
    BY <1>1, BitFacts
  <1>3. HeapSize = top * b
    BY <1>1, BitSum DEF HeapSize
  <1>4. Nodes = {n * b : n \in 0..(top - 1)}
    BY DEF Nodes
  <1> HIDE DEF b, top
  <1>5. 0 \in Nodes
    <2>1. 0 \in 0..(top - 1) /\ 0 * b = 0
      BY <1>2
    <2> QED BY <1>4, <2>1
  <1>6. \A n \in Nodes : n \in Nat
    BY <1>2, <1>4
  <1>7. ASSUME NEW n \in Nodes, NEW o \in Orders, o # MinOrder, n + Bit[o] <= HeapSize
        PROVE  n + Bit[o - 1] \in Nodes
    <2>1. PICK k \in 0..(top - 1) : n = k * b
      BY <1>4
    <2>2. o - 1 \in Orders /\ Bit[o] = 2 * Bit[o - 1] /\ Bit[o - 1] \in Nat \ {0}
      BY <1>7, OrdersFacts
    <2>3. PICK j \in Nat : Bit[o - 1] = j * b
      <3>1. (o - 1) - MinOrder \in Nat /\ MinOrder + ((o - 1) - MinOrder) = o - 1
        BY <1>1, <2>2, OrdersFacts
      <3>2. Bit[o - 1] = Bit[(o - 1) - MinOrder] * Bit[MinOrder]
        BY <1>1, <3>1, BitSum
      <3>3. Bit[(o - 1) - MinOrder] \in Nat
        BY <3>1, BitFacts
      <3> QED BY <3>2, <3>3 DEF b
    <2>4. n + Bit[o - 1] = (k + j) * b
      BY <1>2, <2>1, <2>3
    <2>5. (k + j) * b < top * b
      <3>1. n + Bit[o - 1] < HeapSize
        BY <1>6, <1>7, <2>2, OrdersFacts
      <3> QED BY <1>3, <2>4, <3>1
    <2>6. k + j < top
      BY <1>2, <2>5
    <2>7. k + j \in 0..(top - 1)
      BY <1>2, <2>6
    <2> QED BY <1>4, <2>4, <2>7
  <1> QED BY <1>5, <1>6, <1>7

LEMMA AlignedFacts ==
    \A n \in Nat, o \in Nat : Aligned(n, o) <=> \E k \in Nat : n = k * Bit[o]
  <1> SUFFICES ASSUME NEW n \in Nat, NEW o \in Nat, NEW k \in Nat, n = k * Bit[o]
               PROVE  k \in 0..n
    BY DEF Aligned
  <1>1. Bit[o] \in Nat \ {0}
    BY BitFacts
  <1> QED BY <1>1

\* The halves of a node at a multiple of its size are buddies.
LEMMA AlignedHalves ==
    \A q, m \in Nat : Aligned(m, q + 1) =>
        /\ Aligned(m, q) /\ Aligned(m + Bit[q], q)
        /\ BuddyOf(m, q) = m + Bit[q] /\ BuddyOf(m + Bit[q], q) = m
  <1> SUFFICES ASSUME NEW q \in Nat, NEW m \in Nat, NEW j \in Nat, m = j * Bit[q + 1]
               PROVE  /\ Aligned(m, q) /\ Aligned(m + Bit[q], q)
                      /\ BuddyOf(m, q) = m + Bit[q] /\ BuddyOf(m + Bit[q], q) = m
    BY DEF Aligned
  <1>1. \E k \in Nat : m = k * Bit[q]
    BY Halves
  <1>2. \E k \in Nat : m + Bit[q] = k * Bit[q]
    BY Halves
  <1>3. BuddyOf(m, q) = m + Bit[q]
    BY Halves
  <1>4. BuddyOf(m + Bit[q], q) = m
    BY Halves
  <1>5. m + Bit[q] \in Nat
    BY BitFacts
  <1> QED BY <1>1, <1>2, <1>3, <1>4, <1>5, AlignedFacts

\* alloc serves a request with an order that has room for it, and not twice as
\* much as it needs.
LEMMA OrderFacts ==
    ASSUME NEW t, request[t] \in Nat
    PROVE  /\ Order(t) \in Nat /\ MinOrder <= Order(t)
           /\ request[t] + Header <= Bit[Order(t)]
           /\ Order(t) > MinOrder => request[t] + Header > Bit[Order(t) - 1]
  <1> DEFINE n == request[t] + Header
             s == size_to_order(n)
  <1>1. n \in Nat \ {0} /\ MinOrder \in Nat
    BY BuddyAssumption, BitFacts
  <1>2. s \in Nat /\ n <= Bit[s] /\ (s > 0 => Bit[s - 1] < n)
    <2> HIDE DEF n
    <2> QED BY <1>1, SizeToOrder
  <1>3. Order(t) = Max({MinOrder, s})
    BY DEF Order
  <1> HIDE DEF n, s
  <1>4. Order(t) = IF MinOrder <= s THEN s ELSE MinOrder
    BY <1>1, <1>2, <1>3 DEF Max
  <1>5. Bit[s] \in Nat /\ Bit[MinOrder] \in Nat /\ (s <= MinOrder => Bit[s] <= Bit[MinOrder])
    BY <1>1, <1>2, BitFacts, BitMonotone
  <1>6. CASE MinOrder <= s
    BY <1>1, <1>2, <1>4, <1>5, <1>6 DEF n
  <1>7. CASE ~(MinOrder <= s)
    BY <1>1, <1>2, <1>4, <1>5, <1>7 DEF n
  <1> QED BY <1>6, <1>7

LEMMA MinPair ==
    ASSUME NEW a \in Nat, NEW b \in Nat, a <= b
    PROVE  Min({a, b}) = a /\ Min({b, a}) = a
  BY DEF Min


LEMMA NodesInHeap ==
    \A n \in Nodes : n < HeapSize
  <1>1. /\ MinOrder \in Nat /\ MaxOrder - MinOrder \in Nat
        /\ MinOrder + (MaxOrder - MinOrder) = MaxOrder
    BY BuddyAssumption
  <1> DEFINE b == Bit[MinOrder]
             top == Bit[MaxOrder - MinOrder]
  <1>2. b \in Nat \ {0} /\ top \in Nat \ {0} /\ HeapSize = top * b
    BY <1>1, BitFacts, BitSum DEF HeapSize
  <1>3. Nodes = {n * b : n \in 0..(top - 1)}
    BY DEF Nodes
  <1> HIDE DEF b, top
  <1>4. \A k \in 0..(top - 1) : k * b < top * b
    BY <1>2
  <1> QED BY <1>2, <1>3, <1>4


-------------------------------------------------------------------------------
(* Init *)

\* A list of one element.
LEMMA OneElement ==
    ASSUME NEW S, NEW e \in S
    PROVE  /\ <<e>> \in Seq(S) /\ ToSet(<<e>>) = {e} /\ NoDuplicates(<<e>>) /\ Head(<<e>>) = e
           /\ <<>> \in Seq(S) /\ ToSet(<<>>) = {} /\ NoDuplicates(<<>>)
  <1>1. <<e>> \in Seq(S) /\ Len(<<e>>) = 1 /\ <<e>>[1] = e
    OBVIOUS
  <1>2. <<>> \in Seq(S) /\ Len(<<>>) = 0
    OBVIOUS
  <1>3. ToSet(<<e>>) = {e}
    <2>1. e \in ToSet(<<e>>)
      BY <1>1 DEF ToSet
    <2>2. \A x \in ToSet(<<e>>) : x = e
      BY <1>1 DEF ToSet
    <2> QED BY <2>1, <2>2
  <1>5. NoDuplicates(<<e>>)
    BY <1>1 DEF NoDuplicates
  <1>6. Head(<<e>>) = e
    BY <1>1
  <1>4. ToSet(<<>>) = {} /\ NoDuplicates(<<>>)
    BY <1>2 DEF ToSet, NoDuplicates
  <1> QED BY <1>1, <1>2, <1>3, <1>4, <1>5, <1>6

LEMMA BuddyInit == Init => BInv
  <1> SUFFICES ASSUME Init PROVE BInv
    OBVIOUS
  <1>0. /\ list = [o \in Orders |-> IF o = MaxOrder THEN <<0>> ELSE <<>>]
        /\ order = [n \in Nodes |-> MaxOrder]
        /\ used = {} /\ size = [n \in Nodes |-> 0]
        /\ holder = NoTask /\ pc = [t \in Tasks |-> "idle"]
        /\ request = [t \in Tasks |-> 0] /\ node = [t \in Tasks |-> 0]
        /\ new_order = [t \in Tasks |-> MinOrder] /\ panic = FALSE
    BY DEF Init
  <1>1. \A o \in Orders : /\ list[o] \in Seq(Nodes) /\ NoDuplicates(list[o])
                          /\ ToSet(list[o]) = IF o = MaxOrder THEN {0} ELSE {}
    BY <1>0, NodesFacts, OneElement
  <1>2. TypeOK
    <2>1. list \in [Orders -> Seq(Nodes)]
      BY <1>0, <1>1
    <2>2. /\ order \in [Nodes -> Orders] /\ node \in [Tasks -> Nodes]
          /\ new_order \in [Tasks -> Orders]
      BY <1>0, NodesFacts, OrdersFacts
    <2>3. size \in [Nodes -> Sizes \cup {0}] /\ request \in [Tasks -> Sizes \cup {0}]
      BY <1>0
    <2>4. pc \in [Tasks -> {"idle", "malloc", "alloc", "split", "free", "merge", "mm_space", "sum"}]
      BY <1>0
    <2> QED BY <1>0, <2>1, <2>2, <2>3, <2>4 DEF TypeOK
  <1>3. CriticalInv
    BY <1>0, BuddyAssumption DEF CriticalInv
  <1>4. Busy = {} /\ FreeNodes = {0}
    BY <1>0, <1>1, OrdersFacts DEF Busy, FreeNodes
  <1>5. AllNodes = {0} /\ order[0] = MaxOrder
    BY <1>0, <1>4, NodesFacts DEF AllNodes
  <1>6. ListsInv
    BY <1>1, <1>5 DEF ListsInv
  <1>7. OwnersInv
    BY <1>0, <1>4 DEF OwnersInv
  <1>8. SpansInv
    <2>1. End(0) = HeapSize /\ HeapSize \in Nat
      BY <1>5, OrdersFacts DEF End, HeapSize
    <2>2. Aligned(0, MaxOrder)
      <3>1. 0 = 0 * Bit[MaxOrder]
        BY OrdersFacts
      <3> QED BY <3>1 DEF Aligned
    <2>3. \A a \in Nodes : 0 <= a /\ a < HeapSize
      BY NodesInHeap, NodesFacts
    <2> QED BY <1>5, <2>1, <2>2, <2>3 DEF SpansInv
  <1>9. SplitInv /\ Fits
    BY <1>0 DEF SplitInv, Fits
  <1>10. MergedInv
    BY <1>1 DEF MergedInv
  <1> QED BY <1>0, <1>2, <1>3, <1>6, <1>7, <1>8, <1>9, <1>10 DEF BInv

-------------------------------------------------------------------------------
(* What a step leaves as it was *)

\* SpansInv of the next state, in terms of order'.
LEMMA SpansNext ==
    ASSUME \A m \in AllNodes' : m + Bit[order'[m]] <= HeapSize /\ Aligned(m, order'[m]),
           \A m1, m2 \in AllNodes' :
              m1 = m2 \/ m1 + Bit[order'[m1]] <= m2 \/ m2 + Bit[order'[m2]] <= m1,
           \A a \in Nodes : \E m \in AllNodes' : m <= a /\ a < m + Bit[order'[m]]
    PROVE  SpansInv'
  <1>1. \A m : End(m)' = m + Bit[order'[m]]
    BY DEF End
  <1>2. HeapSize' = HeapSize /\ Nodes' = Nodes /\ \A m, o : Aligned(m, o)' = Aligned(m, o)
    BY DEF HeapSize, Nodes, Aligned
  <1> QED BY <1>1, <1>2 DEF SpansInv

\* The nodes are those of before, whoever they belong to.
LEMMA SpansKept ==
    ASSUME SpansInv, AllNodes' = AllNodes, \A n \in AllNodes : order'[n] = order[n]
    PROVE  SpansInv'
  <1>1. \A n \in AllNodes : End(n)' = End(n)
    BY DEF End
  <1>2. HeapSize' = HeapSize /\ Nodes' = Nodes /\ \A n, o : Aligned(n, o)' = Aligned(n, o)
    BY DEF HeapSize, Nodes, Aligned
  <1> QED BY <1>1, <1>2 DEF SpansInv

\* The callers have no more nodes than before, and the same ones.
LEMMA FitsKept ==
    ASSUME Fits, \A n \in used : size[n] \in Sizes, used' \subseteq used,
           \A n \in used' : size'[n] = size[n] /\ order'[n] = order[n]
    PROVE  Fits' /\ \A n \in used' : size'[n] \in Sizes
  BY DEF Fits

\* Only the holder of the mutex is in a critical section.
LEMMA OthersWait ==
    ASSUME BInv, NEW t \in Tasks, pc[t] \in {"alloc", "split", "merge", "sum"},
           NEW u \in Tasks, u # t
    PROVE  pc[u] \notin {"alloc", "split", "merge", "sum"}
  BY DEF BInv, CriticalInv

\* A step that only moves tasks which have no node.
LEMMA QuietInv ==
    ASSUME BInv, UNCHANGED <<list, order, used, size, panic>>,
           Busy' = Busy, \A u \in Busy : node'[u] = node[u],
           \A u \in Tasks : pc[u] = "merge" => pc'[u] = "merge"
    PROVE  /\ ListsInv' /\ OwnersInv' /\ SpansInv' /\ Fits' /\ MergedInv'
           /\ \A n \in used' : size'[n] \in Sizes
           /\ ~panic'
  <1>1. FreeNodes' = FreeNodes /\ AllNodes' = AllNodes
    BY DEF FreeNodes, AllNodes
  <1>2. ListsInv'
    BY DEF BInv, ListsInv
  <1>3. OwnersInv'
    BY <1>1 DEF BInv, OwnersInv, Busy
  <1>4. SpansInv'
    BY <1>1, SpansKept DEF BInv
  <1>5. Fits' /\ \A n \in used' : size'[n] \in Sizes
    BY FitsKept DEF BInv
  <1>6. MergedInv'
    <2> SUFFICES ASSUME NEW o \in Orders \ {MaxOrder}, NEW n \in ToSet(list[o]),
                        BuddyOf(n, o) \in ToSet(list[o])
                 PROVE  \E t \in Tasks : pc'[t] = "merge" /\ node'[t] \in {n, BuddyOf(n, o)}
      BY DEF MergedInv, BuddyOf
    <2>1. PICK t \in Tasks : pc[t] = "merge" /\ node[t] \in {n, BuddyOf(n, o)}
      BY DEF BInv, MergedInv
    <2> QED BY <2>1 DEF Busy
  <1> QED BY <1>2, <1>3, <1>4, <1>5, <1>6 DEF BInv

\* The places of a task in malloc, free and mm_space.
Places == {"idle", "malloc", "alloc", "split", "free", "merge", "mm_space", "sum"}

\* What the return of a call does to the task.
LEMMA Returns ==
    ASSUME TypeOK, NEW t \in Tasks, Return(t)
    PROVE  /\ holder' = NoTask
           /\ pc' \in [Tasks -> Places] /\ request' \in [Tasks -> Sizes \cup {0}]
           /\ node' \in [Tasks -> Nodes] /\ new_order' \in [Tasks -> Orders]
           /\ pc'[t] = "idle"
           /\ \A u \in Tasks \ {t} : /\ pc'[u] = pc[u] /\ request'[u] = request[u]
                                     /\ node'[u] = node[u] /\ new_order'[u] = new_order[u]
  BY NodesFacts, OrdersFacts DEF Return, TypeOK, Places

LEMMA ReturnSafe ==
    ASSUME BInv, NEW t \in Tasks, pc[t] \in {"alloc", "split", "merge", "sum"}, Return(t)
    PROVE  CriticalInv' /\ SplitInv'
  <1>1. /\ holder' = NoTask /\ pc'[t] = "idle"
        /\ \A u \in Tasks \ {t} : pc'[u] = pc[u] /\ request'[u] = request[u]
    BY Returns DEF BInv
  <1>2. \A u \in Tasks \ {t} : pc[u] \notin {"alloc", "split", "merge", "sum"}
    BY OthersWait
  <1>3. CriticalInv'
    BY <1>1, <1>2, BuddyAssumption DEF CriticalInv
  <1>4. SplitInv'
    BY <1>1, <1>2 DEF BInv, SplitInv
  <1> QED BY <1>3, <1>4

-------------------------------------------------------------------------------
(* The steps that take no node *)

LEMMA MallocInv ==
    ASSUME BInv, NEW t \in Tasks, NEW n \in Sizes, malloc(t, n)
    PROVE  BInv'
  <1>1. /\ pc[t] = "idle" /\ pc' = [pc EXCEPT ![t] = "malloc"]
        /\ request' = [request EXCEPT ![t] = n]
        /\ UNCHANGED <<list, order, used, size, holder, node, new_order, panic>>
    BY DEF malloc
  <1>2. TypeOK'
    BY <1>1 DEF BInv, TypeOK
  <1>3. /\ pc'[t] = "malloc" /\ request'[t] = n
        /\ \A u \in Tasks \ {t} : pc'[u] = pc[u] /\ request'[u] = request[u]
    BY <1>1 DEF BInv, TypeOK
  <1>4. Busy' = Busy
    BY <1>1, <1>3 DEF Busy
  <1>5. CriticalInv'
    BY <1>1, <1>3 DEF BInv, CriticalInv
  <1>6. SplitInv'
    BY <1>1, <1>3 DEF BInv, SplitInv, Order
  <1> QED BY <1>1, <1>2, <1>3, <1>4, <1>5, <1>6, QuietInv DEF BInv

LEMMA MmSpaceInv ==
    ASSUME BInv, NEW t \in Tasks, mm_space(t)
    PROVE  BInv'
  <1>1. /\ pc[t] = "idle" /\ pc' = [pc EXCEPT ![t] = "mm_space"]
        /\ UNCHANGED <<list, order, used, size, holder, request, node, new_order, panic>>
    BY DEF mm_space
  <1>2. TypeOK'
    BY <1>1 DEF BInv, TypeOK
  <1>3. pc'[t] = "mm_space" /\ \A u \in Tasks \ {t} : pc'[u] = pc[u]
    BY <1>1 DEF BInv, TypeOK
  <1>4. Busy' = Busy
    BY <1>1, <1>3 DEF Busy
  <1>5. CriticalInv'
    BY <1>1, <1>3 DEF BInv, CriticalInv
  <1>6. SplitInv'
    BY <1>1, <1>3 DEF BInv, SplitInv, Order
  <1> QED BY <1>1, <1>2, <1>3, <1>4, <1>5, <1>6, QuietInv DEF BInv

LEMMA AcquireInv ==
    ASSUME BInv, NEW t \in Tasks, acquire(t)
    PROVE  BInv'
  <1>1. /\ holder = NoTask /\ holder' = t
        /\ pc[t] \in {"malloc", "free", "mm_space"}
        /\ pc' = [pc EXCEPT ![t] = CASE pc[t] = "malloc" -> "alloc"
                                     [] pc[t] = "free" -> "merge"
                                     [] OTHER -> "sum"]
        /\ UNCHANGED <<list, order, used, size, request, node, new_order, panic>>
    <2>1. /\ holder = NoTask /\ holder' = t /\ pc[t] \in DOMAIN Critical
          /\ pc' = [pc EXCEPT ![t] = Critical[pc[t]]]
          /\ UNCHANGED <<list, order, used, size, request, node, new_order, panic>>
      BY DEF acquire
    <2>2. /\ DOMAIN Critical = {"malloc", "free", "mm_space"}
          /\ Critical["malloc"] = "alloc" /\ Critical["free"] = "merge"
          /\ Critical["mm_space"] = "sum"
      BY DEF Critical
    <2>3. pc[t] \in {"malloc", "free", "mm_space"}
      BY <2>1, <2>2
    <2>4. Critical[pc[t]] = CASE pc[t] = "malloc" -> "alloc" [] pc[t] = "free" -> "merge"
                              [] OTHER -> "sum"
      BY <2>2, <2>3
    <2> QED BY <2>1, <2>3, <2>4
  <1>2. TypeOK'
    BY <1>1 DEF BInv, TypeOK
  <1>3. /\ pc'[t] = CASE pc[t] = "malloc" -> "alloc" [] pc[t] = "free" -> "merge" [] OTHER -> "sum"
        /\ \A u \in Tasks \ {t} : pc'[u] = pc[u]
    BY <1>1 DEF BInv, TypeOK
  <1>4. Busy' = Busy
    BY <1>1, <1>3 DEF Busy
  <1>5. CriticalInv'
    BY <1>1, <1>3, BuddyAssumption DEF BInv, CriticalInv
  <1>6. SplitInv'
    BY <1>1, <1>3 DEF BInv, SplitInv, Order
  <1> QED BY <1>1, <1>2, <1>3, <1>4, <1>5, <1>6, QuietInv DEF BInv

\* malloc finds no memory, or mm_space has added up the lists.
LEMMA EmptyReturnInv ==
    ASSUME BInv, NEW t \in Tasks, pc[t] \in {"alloc", "sum"}, Return(t),
           UNCHANGED <<list, order, used, size, panic>>
    PROVE  BInv'
  <1>1. TypeOK'
    BY Returns DEF BInv, TypeOK, Places
  <1>2. pc'[t] = "idle" /\ \A u \in Tasks \ {t} : pc'[u] = pc[u] /\ node'[u] = node[u]
    BY Returns DEF BInv
  <1>3. Busy' = Busy
    BY <1>2 DEF Busy
  <1>4. CriticalInv' /\ SplitInv'
    BY ReturnSafe
  <1>5. t \notin Busy
    BY DEF Busy
  <1> QED BY <1>1, <1>2, <1>3, <1>4, <1>5, QuietInv DEF BInv, Busy


\* free: a node that callers own is in the hands of the task.
LEMMA FreeInv ==
    ASSUME BInv, NEW t \in Tasks, NEW n \in Nodes, free(t, n)
    PROVE  BInv'
  <1>1. /\ pc[t] = "idle" /\ n \in used /\ used' = used \ {n}
        /\ size' = [size EXCEPT ![n] = 0]
        /\ pc' = [pc EXCEPT ![t] = "free"] /\ node' = [node EXCEPT ![t] = n]
        /\ UNCHANGED <<list, order, holder, request, new_order, panic>>
    BY DEF free
  <1>2. TypeOK'
    BY <1>1 DEF BInv, TypeOK
  <1>3. /\ pc'[t] = "free" /\ node'[t] = n
        /\ \A u \in Tasks \ {t} : pc'[u] = pc[u] /\ node'[u] = node[u]
        /\ \A m \in Nodes \ {n} : size'[m] = size[m]
        /\ used \subseteq Nodes
    BY <1>1 DEF BInv, TypeOK
  <1>4. Busy' = Busy \cup {t} /\ t \notin Busy /\ FreeNodes' = FreeNodes
    BY <1>1, <1>3 DEF Busy, FreeNodes
  <1>5. n \notin FreeNodes /\ \A u \in Busy : node[u] # n
    BY <1>1 DEF BInv, OwnersInv
  <1>6. CriticalInv'
    BY <1>1, <1>3 DEF BInv, CriticalInv
  <1>7. ListsInv'
    BY <1>1 DEF BInv, ListsInv
  <1>8. OwnersInv'
    <2>1. used' \cap FreeNodes' = {}
      BY <1>1, <1>4 DEF BInv, OwnersInv
    <2>2. node'[t] \notin used' /\ node'[t] \notin FreeNodes'
      BY <1>1, <1>3, <1>4, <1>5
    <2>3. ASSUME NEW u \in Busy
          PROVE  /\ node'[u] = node[u] /\ pc'[u] = pc[u]
                 /\ node'[u] \notin used' /\ node'[u] # node'[t]
      BY <1>1, <1>3, <1>4, <1>5 DEF BInv, OwnersInv, Busy
    <2> QED BY <1>1, <1>4, <2>1, <2>2, <2>3 DEF BInv, OwnersInv
  <1>9. SpansInv'
    <2>1. {node'[u] : u \in Busy'} = {node[u] : u \in Busy} \cup {n}
      BY <1>3, <1>4 DEF Busy
    <2>2. AllNodes' = AllNodes
      BY <1>1, <1>4, <2>1 DEF AllNodes
    <2> QED BY <1>1, <2>2, SpansKept DEF BInv
  <1>10. SplitInv'
    BY <1>1, <1>3 DEF BInv, SplitInv, Order
  <1>11. Fits' /\ \A m \in used' : size'[m] \in Sizes
    BY <1>1, <1>3, FitsKept DEF BInv
  <1>12. MergedInv'
    <2> SUFFICES ASSUME NEW o \in Orders \ {MaxOrder}, NEW m \in ToSet(list[o]),
                        BuddyOf(m, o) \in ToSet(list[o])
                 PROVE  \E u \in Tasks : pc'[u] = "merge" /\ node'[u] \in {m, BuddyOf(m, o)}
      BY <1>1 DEF MergedInv, BuddyOf
    <2>1. PICK u \in Tasks : pc[u] = "merge" /\ node[u] \in {m, BuddyOf(m, o)}
      BY DEF BInv, MergedInv
    <2>2. u # t
      BY <1>1, <2>1
    <2> QED BY <1>3, <2>1, <2>2
  <1> QED BY <1>1, <1>2, <1>6, <1>7, <1>8, <1>9, <1>10, <1>11, <1>12 DEF BInv

-------------------------------------------------------------------------------
(* alloc *)

\* While alloc runs no two free nodes are buddies.
LEMMA AllMerged ==
    ASSUME BInv, NEW t \in Tasks, pc[t] \in {"alloc", "split", "sum"}
    PROVE  /\ \A u \in Busy \ {t} : pc[u] = "free" /\ node[u] \notin FreeNodes
           /\ \A o \in Orders \ {MaxOrder} : \A n \in ToSet(list[o]) :
                 BuddyOf(n, o) \notin ToSet(list[o])
  <1>1. \A u \in Tasks : pc[u] # "merge"
    BY OthersWait
  <1>2. \A u \in Busy \ {t} : pc[u] = "free"
    BY OthersWait DEF Busy
  <1> QED BY <1>1, <1>2 DEF BInv, OwnersInv, MergedInv

LEMMA TakeInv ==
    ASSUME BInv, NEW t \in Tasks, Take(t)
    PROVE  BInv'
  <1> DEFINE o == Min(Available(t))
             h == Head(list[o])
  <1>1. /\ pc[t] = "alloc" /\ Available(t) # {}
        /\ node' = [node EXCEPT ![t] = h]
        /\ list' = [list EXCEPT ![o] = Tail(@)]
        /\ new_order' = [new_order EXCEPT ![t] = o]
        /\ pc' = [pc EXCEPT ![t] = "split"]
        /\ UNCHANGED <<order, used, size, holder, request, panic>>
    BY DEF Take
  <1>2. o \in Orders /\ o >= Order(t) /\ list[o] # <<>>
    <2>1. Available(t) \subseteq Nat
      BY OrdersFacts DEF Available
    <2>2. PICK m \in Available(t) : \A k \in Available(t) : m <= k
      BY <1>1, <2>1, Least
    <2>3. o \in Available(t)
      BY <2>2 DEF Min
    <2> QED BY <2>3 DEF Available
  <1> HIDE DEF o
  <1>3. list[o] \in Seq(Nodes) /\ NoDuplicates(list[o])
    BY <1>2 DEF BInv, TypeOK, ListsInv
  <1>4. /\ h \in Nodes /\ h \in ToSet(list[o]) /\ Tail(list[o]) \in Seq(Nodes)
        /\ ToSet(Tail(list[o])) = ToSet(list[o]) \ {h}
        /\ NoDuplicates(Tail(list[o]))
    BY <1>2, <1>3, PopHead
  <1>5. order[h] = o
    BY <1>2, <1>4 DEF BInv, ListsInv
  <1> HIDE DEF h
  <1>6. TypeOK'
    BY <1>1, <1>2, <1>4 DEF BInv, TypeOK
  <1>7. /\ pc'[t] = "split" /\ node'[t] = h /\ new_order'[t] = o
        /\ \A u \in Tasks \ {t} : /\ pc'[u] = pc[u] /\ node'[u] = node[u]
                                  /\ new_order'[u] = new_order[u]
        /\ list'[o] = Tail(list[o]) /\ \A p \in Orders \ {o} : list'[p] = list[p]
    BY <1>1, <1>2 DEF BInv, TypeOK
  <1>8. Busy' = Busy \cup {t} /\ t \notin Busy
    BY <1>1, <1>7 DEF Busy
  <1>9. FreeNodes' = FreeNodes \ {h} /\ h \in FreeNodes
    <2>1. \A p \in Orders : ToSet(list'[p]) = ToSet(list[p]) \ {h}
      BY <1>4, <1>5, <1>7 DEF BInv, ListsInv
    <2>2. \A n : n \in FreeNodes' <=> \E p \in Orders : n \in ToSet(list'[p])
      BY DEF FreeNodes
    <2>3. \A n : n \in FreeNodes <=> \E p \in Orders : n \in ToSet(list[p])
      BY DEF FreeNodes
    <2>4. \A n : n \in FreeNodes' <=> n \in FreeNodes /\ n # h
      BY <2>1, <2>2, <2>3
    <2> QED BY <1>2, <1>4, <2>3, <2>4
  <1>10. \A p \in Orders : ToSet(list'[p]) \subseteq ToSet(list[p])
    BY <1>4, <1>7
  <1>11. CriticalInv'
    BY <1>1, <1>7 DEF BInv, CriticalInv
  <1>12. ListsInv'
    BY <1>1, <1>4, <1>7, <1>10 DEF BInv, ListsInv
  <1>13. OwnersInv'
    <2>1. used' \cap FreeNodes' = {} /\ h \notin used'
      BY <1>1, <1>9 DEF BInv, OwnersInv
    <2>2. ASSUME NEW u \in Busy
          PROVE  /\ node'[u] = node[u] /\ node[u] # h
                 /\ node'[u] \notin used' /\ node'[u] \notin FreeNodes'
      <3>1. u \in Busy \ {t} /\ u \in Tasks
        BY <1>8 DEF Busy
      <3>2. node[u] \notin FreeNodes
        BY <1>1, <3>1, AllMerged
      <3> QED BY <1>1, <1>7, <1>9, <3>1, <3>2 DEF BInv, OwnersInv
    <2> QED BY <1>7, <1>8, <1>9, <2>1, <2>2 DEF BInv, OwnersInv
  <1>14. SpansInv'
    <2>1. {node'[u] : u \in Busy'} = {node[u] : u \in Busy} \cup {h}
      BY <1>7, <1>8 DEF Busy
    <2>2. AllNodes' = AllNodes
      BY <1>1, <1>9, <2>1 DEF AllNodes
    <2> QED BY <1>1, <2>2, SpansKept DEF BInv
  <1>15. SplitInv'
    <2>1. request' = request /\ order' = order
      BY <1>1
    <2>2. \A u \in Tasks : Order(u)' = Order(u)
      BY <2>1 DEF Order
    <2>3. ASSUME NEW u \in Tasks
          PROVE  /\ pc'[u] \in {"malloc", "alloc", "split"} => request'[u] \in Sizes
                 /\ pc'[u] = "split" => new_order'[u] = order'[node'[u]] /\ Order(u)' <= new_order'[u]
      <3>1. CASE u = t
        BY <1>1, <1>2, <1>5, <1>7, <2>1, <2>2, <3>1 DEF BInv, SplitInv
      <3>2. CASE u # t
        BY <1>7, <2>1, <2>2, <3>2 DEF BInv, SplitInv
      <3> QED BY <3>1, <3>2
    <2> QED BY <2>3 DEF SplitInv
  <1>16. Fits' /\ \A m \in used' : size'[m] \in Sizes
    BY <1>1, FitsKept DEF BInv
  <1>17. MergedInv'
    <2>1. \A p \in Orders \ {MaxOrder} : \A m \in ToSet(list[p]) :
             BuddyOf(m, p) \notin ToSet(list[p])
      BY <1>1, AllMerged
    <2> QED BY <1>10, <2>1 DEF MergedInv, BuddyOf
  <1> QED BY <1>1, <1>6, <1>11, <1>12, <1>13, <1>14, <1>15, <1>16, <1>17 DEF BInv


\* buddy_split: the node becomes two, the upper half is new in the lists.
LEMMA BuddySplitInv ==
    ASSUME BInv, NEW t \in Tasks, buddy_split(t)
    PROVE  BInv'
  <1> DEFINE n == node[t]
             o == order[n]
             p == o - 1
             half == n + Bit[p]
  <1>1. /\ pc[t] = "split" /\ new_order[t] > Order(t)
        /\ order' = [order EXCEPT ![n] = p, ![half] = p]
        /\ list' = [list EXCEPT ![p] = <<half>> \o @]
        /\ new_order' = [new_order EXCEPT ![t] = @ - 1]
        /\ UNCHANGED <<used, size, holder, pc, request, node, panic>>
    BY DEF buddy_split, BInv, TypeOK
  <1>2. /\ n \in Nodes /\ n \in Nat /\ o \in Orders /\ new_order[t] = o
        /\ request[t] \in Nat /\ t \in Busy /\ n \in AllNodes
    BY <1>1, NodesFacts, BuddyAssumption DEF BInv, TypeOK, SplitInv, Busy, AllNodes
  <1>3. Order(t) \in Nat /\ MinOrder <= Order(t) /\ MinOrder \in Nat /\ o \in Nat
    BY <1>2, OrderFacts, OrdersFacts, BuddyAssumption
  <1>4. o # MinOrder /\ Order(t) <= p
    BY <1>1, <1>2, <1>3
  <1>5. /\ p \in Orders /\ p \in Nat /\ p + 1 = o
        /\ Bit[p] \in Nat \ {0} /\ Bit[o] = 2 * Bit[p] /\ HeapSize \in Nat
    BY <1>2, <1>3, <1>4, OrdersFacts
  <1>6. End(n) <= HeapSize /\ Aligned(n, o) /\ End(n) = n + Bit[o]
    BY <1>2 DEF BInv, SpansInv, End
  <1>7. /\ half \in Nodes /\ half \in Nat /\ half # n
        /\ half + Bit[p] = End(n) /\ n + Bit[p] = half
    <2>1. half \in Nodes
      BY <1>2, <1>4, <1>6, NodesFacts
    <2> QED BY <1>2, <1>5, <1>6, <2>1
  <1>8. /\ Aligned(n, p) /\ Aligned(half, p)
        /\ BuddyOf(n, p) = half /\ BuddyOf(half, p) = n
    <2>1. p \in Nat /\ n \in Nat /\ Aligned(n, p + 1)
      BY <1>2, <1>5, <1>6
    <2> HIDE DEF n, o, p
    <2>2. \A q, m \in Nat : Aligned(m, q + 1) =>
             /\ Aligned(m, q) /\ Aligned(m + Bit[q], q)
             /\ BuddyOf(m, q) = m + Bit[q] /\ BuddyOf(m + Bit[q], q) = m
      BY AlignedHalves
    <2> QED BY <2>1, <2>2
  <1> HIDE DEF n, o, p, half
  <1>9. n \notin FreeNodes /\ n \notin used
    <2>1. \A u \in Busy : node[u] \notin used /\ (node[u] \in FreeNodes => pc[u] = "merge")
      BY DEF BInv, OwnersInv
    <2> QED BY <1>1, <1>2, <2>1 DEF n
  <1>10. AllNodes \subseteq Nodes /\ \A m \in AllNodes : order[m] \in Orders /\ m \in Nat
    <2>1. AllNodes \subseteq Nodes
      BY DEF BInv, TypeOK, AllNodes, FreeNodes, ToSet, Busy
    <2>2. order \in [Nodes -> Orders]
      BY DEF BInv, TypeOK
    <2> QED BY <2>1, <2>2, NodesFacts
  <1>11. half \notin AllNodes
    <2> SUFFICES ASSUME half \in AllNodes PROVE FALSE
      OBVIOUS
    <2>1. End(n) <= half \/ End(half) <= n
      BY <1>2, <1>7 DEF BInv, SpansInv
    <2>2. End(half) = half + Bit[order[half]] /\ Bit[order[half]] \in Nat
      BY <1>10, OrdersFacts DEF End
    <2> QED BY <1>2, <1>5, <1>6, <1>7, <2>1, <2>2
  <1>12. /\ order'[n] = p /\ order'[half] = p
         /\ \A m \in Nodes \ {n, half} : order'[m] = order[m]
         /\ list'[p] = <<half>> \o list[p]
         /\ \A q \in Orders \ {p} : list'[q] = list[q]
         /\ new_order'[t] = p /\ \A u \in Tasks \ {t} : new_order'[u] = new_order[u]
    BY <1>1, <1>2, <1>5, <1>7 DEF BInv, TypeOK, p
  <1>13. /\ list'[p] \in Seq(Nodes) /\ ToSet(list'[p]) = ToSet(list[p]) \cup {half}
         /\ NoDuplicates(list'[p])
    <2>1. list[p] \in Seq(Nodes) /\ NoDuplicates(list[p])
      BY <1>5 DEF BInv, TypeOK, ListsInv
    <2>2. half \notin ToSet(list[p])
      BY <1>5, <1>11 DEF AllNodes, FreeNodes
    <2> QED BY <1>7, <1>12, <2>1, <2>2, AddHead
  <1>14. TypeOK'
    BY <1>1, <1>5, <1>7, <1>12, <1>13 DEF BInv, TypeOK
  <1>15. CriticalInv'
    BY <1>1 DEF BInv, CriticalInv
  <1>16. FreeNodes' = FreeNodes \cup {half}
    <2>1. \A m : m \in FreeNodes' <=> \E q \in Orders : m \in ToSet(list'[q])
      BY DEF FreeNodes
    <2>2. \A m : m \in FreeNodes <=> \E q \in Orders : m \in ToSet(list[q])
      BY DEF FreeNodes
    <2>3. \A q \in Orders \ {p} : ToSet(list'[q]) = ToSet(list[q])
      BY <1>12
    <2>4. ToSet(list'[p]) = ToSet(list[p]) \cup {half}
      BY <1>13
    <2>5. p \in Orders
      BY <1>5
    <2> QED BY <2>1, <2>2, <2>3, <2>4, <2>5
  <1>17. Busy' = Busy /\ AllNodes' = AllNodes \cup {half}
    <2>1. Busy' = Busy
      BY <1>1 DEF Busy
    <2> QED BY <1>1, <1>16, <2>1 DEF AllNodes
  <1>18. \A q \in Orders : \A m \in ToSet(list[q]) : m \in AllNodes /\ m # n /\ m # half /\ order[m] = q
    BY <1>9, <1>11 DEF BInv, ListsInv, AllNodes, FreeNodes
  <1>19. ListsInv'
    <2>1. ASSUME NEW q \in Orders
          PROVE  NoDuplicates(list'[q]) /\ \A m \in ToSet(list'[q]) : order'[m] = q
      <3>1. \A m \in ToSet(list[q]) : order'[m] = q
        BY <1>10, <1>12, <1>18
      <3>2. CASE q = p
        BY <1>12, <1>13, <3>1, <3>2
      <3>3. CASE q # p
        BY <1>12, <3>1, <3>3 DEF BInv, ListsInv
      <3> QED BY <3>2, <3>3
    <2> QED BY <2>1 DEF ListsInv
  <1>20. OwnersInv'
    <2>1. used' \cap FreeNodes' = {}
      BY <1>1, <1>11, <1>16 DEF BInv, OwnersInv, AllNodes
    <2>2. ASSUME NEW u \in Busy
          PROVE  node[u] \notin used /\ node[u] \notin FreeNodes'
      <3>1. node[u] \notin FreeNodes
        BY <1>1, <1>9, AllMerged DEF n
      <3>2. node[u] # half
        BY <1>11 DEF AllNodes
      <3> QED BY <1>16, <3>1, <3>2 DEF BInv, OwnersInv
    <2> QED BY <1>1, <1>17, <2>1, <2>2 DEF BInv, OwnersInv
  <1>21. SpansInv'
    <2> DEFINE End2(m) == m + Bit[order'[m]]
    <2>1. /\ End2(n) = half /\ End2(half) = End(n) /\ End(n) = n + Bit[o]
          /\ \A m \in AllNodes \ {n} : End2(m) = End(m) /\ order'[m] = order[m]
      BY <1>6, <1>7, <1>10, <1>11, <1>12 DEF End
    <2>2. \A m \in AllNodes : End(m) \in Nat /\ m <= End(m)
      BY <1>10, OrdersFacts DEF End
    <2> HIDE DEF End2
    <2>3. \A m \in AllNodes' : End2(m) <= HeapSize /\ Aligned(m, order'[m])
      <3>1. ASSUME NEW m \in AllNodes \ {n}
            PROVE  End2(m) <= HeapSize /\ Aligned(m, order'[m])
        BY <2>1 DEF BInv, SpansInv
      <3>2. End2(n) <= HeapSize /\ Aligned(n, order'[n])
        BY <1>2, <1>5, <1>6, <1>7, <1>8, <1>12, <2>1
      <3>3. End2(half) <= HeapSize /\ Aligned(half, order'[half])
        BY <1>6, <1>8, <1>12, <2>1
      <3> QED BY <1>17, <3>1, <3>2, <3>3
    <2>4. \A m1, m2 \in AllNodes' : m1 = m2 \/ End2(m1) <= m2 \/ End2(m2) <= m1
      <3>1. \A m1, m2 \in AllNodes \ {n} : m1 = m2 \/ End2(m1) <= m2 \/ End2(m2) <= m1
        BY <2>1 DEF BInv, SpansInv
      <3>2. ASSUME NEW m \in AllNodes \ {n}
            PROVE  /\ End2(m) <= n \/ End2(n) <= m
                   /\ End2(m) <= half \/ End2(half) <= m
        <4>1. End(m) <= n \/ End(n) <= m
          BY <1>2 DEF BInv, SpansInv
        <4> QED BY <1>2, <1>5, <1>6, <1>7, <1>10, <2>1, <2>2, <4>1
      <3>3. End2(n) <= half
        BY <1>7, <2>1
      <3> QED BY <1>17, <3>1, <3>2, <3>3
    <2>5. \A a \in Nodes : \E m \in AllNodes' : m <= a /\ a < End2(m)
      <3> SUFFICES ASSUME NEW a \in Nodes
                   PROVE  \E m \in AllNodes' : m <= a /\ a < End2(m)
        OBVIOUS
      <3>1. PICK m \in AllNodes : m <= a /\ a < End(m)
        BY DEF BInv, SpansInv
      <3>2. CASE m # n
        BY <1>17, <2>1, <3>1, <3>2
      <3>3. CASE m = n
        <4>1. a < half \/ half <= a
          BY <1>7, NodesFacts
        <4> QED BY <1>2, <1>17, <2>1, <3>1, <3>3, <4>1
      <3> QED BY <3>2, <3>3
    <2> QED BY <2>3, <2>4, <2>5, SpansNext DEF End2
  <1>22. SplitInv'
    <2>1. \A u \in Tasks : Order(u)' = Order(u)
      BY <1>1 DEF Order
    <2>2. \A u \in Tasks \ {t} : pc[u] # "split"
      BY <1>1, OthersWait
    <2>3. new_order'[t] = order'[node'[t]] /\ Order(t)' <= new_order'[t]
      BY <1>1, <1>4, <1>12, <2>1 DEF n
    <2> QED BY <1>1, <2>2, <2>3 DEF BInv, SplitInv
  <1>23. Fits' /\ \A m \in used' : size'[m] \in Sizes
    <2>1. \A m \in used : order'[m] = order[m]
      BY <1>9, <1>10, <1>11, <1>12 DEF AllNodes
    <2> QED BY <1>1, <2>1, FitsKept DEF BInv
  <1>24. MergedInv'
    <2> SUFFICES ASSUME NEW q \in Orders \ {MaxOrder}, NEW m \in ToSet(list'[q]),
                        BuddyOf(m, q) \in ToSet(list'[q])
                 PROVE  FALSE
      BY DEF MergedInv, BuddyOf
    <2>1. \A k \in ToSet(list[q]) : BuddyOf(k, q) \notin ToSet(list[q])
      BY <1>1, AllMerged
    <2>2. CASE q # p
      BY <1>12, <2>1, <2>2
    <2>3. CASE q = p /\ m = half
      BY <1>7, <1>8, <1>13, <1>18, <2>3
    <2>4. CASE q = p /\ m # half
      <3>1. m \in ToSet(list[p]) /\ BuddyOf(m, p) = half
        BY <1>13, <2>1, <2>4
      <3>2. m \in Nat /\ \E k \in Nat : m = k * Bit[p]
        <4>1. m \in AllNodes /\ order[m] = p
          BY <1>5, <1>18, <3>1
        <4>2. Aligned(m, p) /\ m \in Nat
          BY <1>10, <4>1 DEF BInv, SpansInv
        <4> QED BY <1>5, <4>2, AlignedFacts
      <3>3. m = n
        BY <1>5, <1>8, <3>1, <3>2, BuddyOfBuddy
      <3> QED BY <1>5, <1>18, <3>1, <3>3
    <2> QED BY <2>2, <2>3, <2>4
  <1> QED BY <1>1, <1>14, <1>15, <1>19, <1>20, <1>21, <1>22, <1>23, <1>24 DEF BInv

\* The node goes to the caller; its header has the order asked for.
LEMMA AllocReturnsInv ==
    ASSUME BInv, NEW t \in Tasks, AllocReturns(t)
    PROVE  BInv'
  <1> DEFINE n == node[t]
  <1>1. /\ pc[t] = "split" /\ new_order[t] = Order(t) /\ panic' = (order[n] # Order(t))
        /\ used' = used \cup {n} /\ size' = [size EXCEPT ![n] = request[t]]
        /\ Return(t) /\ UNCHANGED <<list, order>>
    BY DEF AllocReturns
  <1>2. /\ n \in Nodes /\ order[n] = Order(t) /\ t \in Busy
        /\ request[t] \in Sizes /\ request[t] \in Nat
    BY <1>1, BuddyAssumption DEF BInv, TypeOK, SplitInv, Busy
  <1>3. n \notin FreeNodes /\ n \notin used /\ \A u \in Busy \ {t} : node[u] # n
    BY <1>1, <1>2 DEF BInv, OwnersInv
  <1>4. panic' = FALSE
    BY <1>1, <1>2
  <1>5. /\ pc' \in [Tasks -> Places] /\ pc'[t] = "idle"
        /\ \A u \in Tasks \ {t} : pc'[u] = pc[u] /\ node'[u] = node[u]
    BY <1>1, Returns DEF BInv
  <1>6. TypeOK'
    BY <1>1, <1>2, <1>4, Returns DEF BInv, TypeOK, Places
  <1>7. CriticalInv' /\ SplitInv'
    BY <1>1, ReturnSafe
  <1>8. Busy' = Busy \ {t} /\ FreeNodes' = FreeNodes
    BY <1>1, <1>5 DEF Busy, FreeNodes
  <1>9. ListsInv'
    BY <1>1 DEF BInv, ListsInv
  <1>10. /\ size'[n] = request[t] /\ used \subseteq Nodes
         /\ \A m \in Nodes \ {n} : size'[m] = size[m]
    BY <1>1, <1>2 DEF BInv, TypeOK
  <1> HIDE DEF n
  <1>11. OwnersInv'
    <2>1. used' \cap FreeNodes' = {}
      BY <1>1, <1>3, <1>8 DEF BInv, OwnersInv
    <2>2. ASSUME NEW u \in Busy'
          PROVE  /\ node'[u] = node[u] /\ pc'[u] = pc[u] /\ u \in Busy
                 /\ node[u] \notin used'
      BY <1>1, <1>3, <1>5, <1>8 DEF BInv, OwnersInv, Busy
    <2> QED BY <1>1, <1>8, <2>1, <2>2 DEF BInv, OwnersInv
  <1>12. SpansInv'
    <2>1. {node[u] : u \in Busy} = {node'[u] : u \in Busy'} \cup {n}
      BY <1>2, <1>5, <1>8 DEF Busy, n
    <2>2. AllNodes' = AllNodes
      BY <1>1, <1>8, <2>1 DEF AllNodes
    <2> QED BY <1>1, <2>2, SpansKept DEF BInv
  <1>13. Fits' /\ \A m \in used' : size'[m] \in Sizes
    <2>1. /\ size'[n] + Header <= Bit[order'[n]]
          /\ order'[n] > MinOrder => size'[n] + Header > Bit[order'[n] - 1]
      BY <1>1, <1>2, <1>10, OrderFacts
    <2>2. \A m \in used : size'[m] = size[m] /\ order'[m] = order[m]
      BY <1>1, <1>3, <1>10
    <2> QED BY <1>1, <1>2, <1>10, <2>1, <2>2 DEF BInv, Fits
  <1>14. MergedInv'
    BY <1>1, AllMerged DEF MergedInv, BuddyOf
  <1> QED BY <1>4, <1>6, <1>7, <1>9, <1>11, <1>12, <1>13, <1>14 DEF BInv


-------------------------------------------------------------------------------
(* buddy_merge *)

\* While buddy_merge runs only its node can be the buddy of a free node.
LEMMA OneMerge ==
    ASSUME BInv, NEW t \in Tasks, pc[t] = "merge"
    PROVE  /\ t \in Busy /\ node[t] \in AllNodes
           /\ node[t] \in Nodes /\ order[node[t]] \in Orders /\ node[t] \notin used
           /\ node[t] \in FreeNodes => node[t] = Head(list[order[node[t]]])
           /\ \A u \in Busy \ {t} : /\ pc[u] = "free" /\ node[u] \notin FreeNodes
                                    /\ node[u] # node[t]
           /\ \A o \in Orders \ {MaxOrder} : \A m \in ToSet(list[o]) :
                 BuddyOf(m, o) \in ToSet(list[o]) => node[t] \in {m, BuddyOf(m, o)}
  <1>1. \A u \in Tasks \ {t} : pc[u] # "merge"
    BY OthersWait
  <1>2. \A u \in Busy \ {t} : pc[u] = "free"
    BY OthersWait DEF Busy
  <1>3. t \in Busy /\ node[t] \in AllNodes
    BY DEF Busy, AllNodes
  <1>4. node[t] \in Nodes /\ order[node[t]] \in Orders
    BY DEF BInv, TypeOK
  <1>5. \A o \in Orders \ {MaxOrder} : \A m \in ToSet(list[o]) :
           BuddyOf(m, o) \in ToSet(list[o]) => node[t] \in {m, BuddyOf(m, o)}
    BY <1>1 DEF BInv, MergedInv
  <1> QED BY <1>1, <1>2, <1>3, <1>4, <1>5 DEF BInv, OwnersInv

\* The nodes are in the heap, at a multiple of their size.
LEMMA AllNodesFacts ==
    ASSUME BInv
    PROVE  /\ AllNodes \subseteq Nodes
           /\ \A m \in AllNodes :
                 /\ m \in Nat /\ order[m] \in Orders /\ order[m] \in Nat
                 /\ End(m) = m + Bit[order[m]] /\ Bit[order[m]] \in Nat \ {0}
                 /\ End(m) <= HeapSize /\ Aligned(m, order[m])
           /\ \A o \in Orders : \A m \in ToSet(list[o]) :
                 m \in AllNodes /\ m \in FreeNodes /\ order[m] = o
  <1>1. AllNodes \subseteq Nodes
    BY DEF BInv, TypeOK, AllNodes, FreeNodes, ToSet, Busy
  <1>2. \A o \in Orders : \A m \in ToSet(list[o]) :
           m \in AllNodes /\ m \in FreeNodes /\ order[m] = o
    BY DEF BInv, ListsInv, AllNodes, FreeNodes
  <1>3. \A m \in AllNodes : m \in Nat /\ order[m] \in Orders
    BY <1>1, NodesFacts DEF BInv, TypeOK
  <1>4. \A m \in AllNodes : order[m] \in Nat /\ Bit[order[m]] \in Nat \ {0}
    BY <1>3, OrdersFacts
  <1>5. \A m \in AllNodes : /\ End(m) = m + Bit[order[m]]
                            /\ End(m) <= HeapSize /\ Aligned(m, order[m])
    BY DEF BInv, SpansInv, End
  <1> QED BY <1>1, <1>2, <1>3, <1>4, <1>5

\* A node of the largest order is the whole heap.
LEMMA WholeHeap ==
    ASSUME BInv, NEW m \in AllNodes, order[m] = MaxOrder
    PROVE  m = 0
  BY AllNodesFacts, OrdersFacts DEF HeapSize

\* With its buddy in use, the node is put in front of its list.
LEMMA MergeEndsInv ==
    ASSUME BInv, NEW t \in Tasks, MergeEnds(t)
    PROVE  BInv'
  <1> DEFINE n == node[t]
             o == order[n]
  <1>1. /\ pc[t] = "merge" /\ Return(t) /\ UNCHANGED <<order, used, size, panic>>
        /\ \/ o = MaxOrder /\ list' = [list EXCEPT ![o] = <<n>>]
           \/ /\ o # MaxOrder /\ BuddyOf(n, o) \notin ToSet(list[o])
              /\ list' = [list EXCEPT ![o] = IF n \in ToSet(@) THEN @ ELSE <<n>> \o @]
    BY DEF MergeEnds
  <1>2. /\ t \in Busy /\ n \in AllNodes /\ n \in Nodes /\ o \in Orders /\ n \notin used
        /\ \A u \in Busy \ {t} : node[u] \notin FreeNodes /\ node[u] # n
        /\ \A q \in Orders \ {MaxOrder} : \A m \in ToSet(list[q]) :
              BuddyOf(m, q) \in ToSet(list[q]) => n \in {m, BuddyOf(m, q)}
    BY <1>1, OneMerge
  <1> HIDE DEF n, o
  <1>3. list[o] \in Seq(Nodes) /\ NoDuplicates(list[o]) /\ list \in [Orders -> Seq(Nodes)]
    BY <1>2 DEF BInv, TypeOK, ListsInv
  <1>4. /\ list' \in [Orders -> Seq(Nodes)] /\ NoDuplicates(list'[o])
        /\ ToSet(list'[o]) = ToSet(list[o]) \cup {n}
        /\ \A q \in Orders \ {o} : list'[q] = list[q]
    <2>1. CASE o = MaxOrder /\ list' = [list EXCEPT ![o] = <<n>>]
      <3>1. \A m \in ToSet(list[o]) : m = n
        BY <1>2, <2>1, AllNodesFacts, WholeHeap DEF o
      <3>2. list'[o] = <<n>> /\ \A q \in Orders \ {o} : list'[q] = list[q]
        BY <1>2, <1>3, <2>1
      <3>3. <<n>> \in Seq(Nodes) /\ ToSet(<<n>>) = {n} /\ NoDuplicates(<<n>>)
        BY <1>2, OneElement
      <3> QED BY <1>2, <1>3, <2>1, <3>1, <3>2, <3>3
    <2>2. CASE n \in ToSet(list[o]) /\ list' = [list EXCEPT ![o] = IF n \in ToSet(@) THEN @ ELSE <<n>> \o @]
      BY <1>2, <1>3, <2>2
    <2>3. CASE n \notin ToSet(list[o]) /\ list' = [list EXCEPT ![o] = IF n \in ToSet(@) THEN @ ELSE <<n>> \o @]
      <3>1. list'[o] = <<n>> \o list[o] /\ \A q \in Orders \ {o} : list'[q] = list[q]
        BY <1>2, <1>3, <2>3
      <3>2. /\ <<n>> \o list[o] \in Seq(Nodes) /\ NoDuplicates(<<n>> \o list[o])
            /\ ToSet(<<n>> \o list[o]) = ToSet(list[o]) \cup {n}
        BY <1>2, <1>3, <2>3, AddHead
      <3>3. list' \in [Orders -> Seq(Nodes)]
        BY <1>2, <1>3, <2>3, <3>2
      <3> QED BY <3>1, <3>2, <3>3
    <2> QED BY <1>1, <2>1, <2>2, <2>3
  <1>5. /\ pc' \in [Tasks -> Places] /\ pc'[t] = "idle"
        /\ \A u \in Tasks \ {t} : pc'[u] = pc[u] /\ node'[u] = node[u]
    BY <1>1, Returns DEF BInv
  <1>6. TypeOK'
    BY <1>1, <1>4, Returns DEF BInv, TypeOK, Places
  <1>7. CriticalInv' /\ SplitInv'
    BY <1>1, ReturnSafe
  <1>8. Busy' = Busy \ {t}
    BY <1>1, <1>5 DEF Busy
  <1>9. FreeNodes' = FreeNodes \cup {n}
    <2>1. \A m : m \in FreeNodes' <=> \E q \in Orders : m \in ToSet(list'[q])
      BY DEF FreeNodes
    <2>2. \A m : m \in FreeNodes <=> \E q \in Orders : m \in ToSet(list[q])
      BY DEF FreeNodes
    <2> QED BY <1>2, <1>4, <2>1, <2>2
  <1>10. ListsInv'
    <2>1. ASSUME NEW q \in Orders
          PROVE  NoDuplicates(list'[q]) /\ \A m \in ToSet(list'[q]) : order[m] = q
      <3>1. CASE q = o
        BY <1>4, <3>1 DEF BInv, ListsInv, o
      <3>2. CASE q # o
        BY <1>4, <3>2 DEF BInv, ListsInv
      <3> QED BY <3>1, <3>2
    <2> QED BY <1>1, <2>1 DEF ListsInv
  <1>11. OwnersInv'
    <2>1. used' \cap FreeNodes' = {}
      BY <1>1, <1>2, <1>9 DEF BInv, OwnersInv
    <2>2. ASSUME NEW u \in Busy'
          PROVE  /\ node'[u] = node[u] /\ u \in Busy
                 /\ node[u] \notin used' /\ node[u] \notin FreeNodes'
      <3>1. u \in Busy \ {t} /\ node'[u] = node[u]
        BY <1>5, <1>8 DEF Busy
      <3>2. node[u] \notin FreeNodes /\ node[u] # n
        BY <1>2, <3>1
      <3> QED BY <1>1, <1>9, <3>1, <3>2 DEF BInv, OwnersInv
    <2> QED BY <2>1, <2>2 DEF BInv, OwnersInv
  <1>12. SpansInv'
    <2>1. {node[u] : u \in Busy} = {node'[u] : u \in Busy'} \cup {n}
      BY <1>2, <1>5, <1>8 DEF Busy, n
    <2>2. AllNodes' = AllNodes
      BY <1>1, <1>9, <2>1 DEF AllNodes
    <2> QED BY <1>1, <2>2, SpansKept DEF BInv
  <1>13. Fits' /\ \A m \in used' : size'[m] \in Sizes
    BY <1>1, FitsKept DEF BInv
  <1>14. MergedInv'
    <2> SUFFICES ASSUME NEW q \in Orders \ {MaxOrder}, NEW m \in ToSet(list'[q]),
                        BuddyOf(m, q) \in ToSet(list'[q])
                 PROVE  FALSE
      BY DEF MergedInv, BuddyOf
    <2>1. /\ m \in Nat /\ q \in Nat /\ \E k \in Nat : m = k * Bit[q]
          /\ order[m] = q /\ order[BuddyOf(m, q)] = q
      <3>1. order[m] = q /\ order[BuddyOf(m, q)] = q
        BY <1>1, <1>10 DEF ListsInv
      <3>2. m \in AllNodes
        BY <1>2, <1>4, AllNodesFacts
      <3> QED BY <3>1, <3>2, AllNodesFacts, AlignedFacts
    <2>2. n \in {m, BuddyOf(m, q)}
      BY <1>2, <1>4
    <2>3. q = o
      BY <2>1, <2>2 DEF o
    <2>4. BuddyOf(m, q) # m /\ BuddyOf(BuddyOf(m, q), q) = m
      BY <2>1, BuddyOfBuddy
    <2>5. BuddyOf(n, o) \in ToSet(list'[o]) /\ BuddyOf(n, o) # n
      BY <2>2, <2>3, <2>4
    <2> QED BY <1>1, <1>4, <2>3, <2>5
  <1> QED BY <1>1, <1>6, <1>7, <1>10, <1>11, <1>12, <1>13, <1>14 DEF BInv


\* The two removals of buddy_merge: the node is the first of its list or not in
\* it, so its buddy is not in front of it and both go.
LEMMA BothRemoved ==
    ASSUME NEW l \in Seq(Nodes), NoDuplicates(l), NEW n, NEW b, n # b,
           n \in ToSet(l) => n = Head(l)
    PROVE  /\ RemoveBoth(l, n, b) \in Seq(Nodes)
           /\ ToSet(RemoveBoth(l, n, b)) = ToSet(l) \ {n, b}
           /\ NoDuplicates(RemoveBoth(l, n, b))
  <1> DEFINE r == list_remove(l, b)
             s == list_remove(r, n)
  <1>1. ~ \E i \in 1..(Len(l) - 1) : l[i] = b /\ l[i + 1] = n
    <2> SUFFICES ASSUME NEW i \in 1..(Len(l) - 1), l[i + 1] = n PROVE FALSE
      OBVIOUS
    <2>1. i + 1 \in 1..Len(l) /\ 1 \in 1..Len(l) /\ i + 1 # 1
      OBVIOUS
    <2>2. n \in ToSet(l)
      BY <2>1, ToSetElements
    <2>3. l[1] = n
      BY <2>1, <2>2
    <2> QED BY <2>1, <2>3 DEF NoDuplicates
  <1>2. RemoveBoth(l, n, b) = s
    BY <1>1 DEF RemoveBoth
  <1>3. r \in Seq(Nodes) /\ ToSet(r) = ToSet(l) \ {b} /\ NoDuplicates(r)
    BY RemoveTask
  <1> HIDE DEF r
  <1>4. s \in Seq(Nodes) /\ ToSet(s) = ToSet(r) \ {n} /\ NoDuplicates(s)
    BY <1>3, RemoveTask
  <1> HIDE DEF s
  <1> QED BY <1>2, <1>3, <1>4

\* Both halves and their parent.
LEMMA Parents ==
    ASSUME NEW q \in Nat, NEW m \in Nat, Aligned(m, q)
    PROVE  LET b == BuddyOf(m, q)
               c == Min({m, b})
           IN  /\ b \in Nat /\ b # m /\ BuddyOf(b, q) = m
               /\ c \in Nat /\ Aligned(c, q + 1)
               /\ {m, b} = {c, c + Bit[q]}
  <1> DEFINE b == BuddyOf(m, q)
  <1>1. PICK k \in Nat : m = k * Bit[q]
    BY AlignedFacts
  <1>2. b \in Nat /\ b # m /\ BuddyOf(b, q) = m
    BY <1>1, BuddyOfBuddy
  <1>3. PICK j \in Nat : /\ {m, b} = {j * Bit[q + 1], j * Bit[q + 1] + Bit[q]}
                         /\ j * Bit[q + 1] \in Nat
    BY <1>1, BuddyOfBuddy
  <1> DEFINE c == j * Bit[q + 1]
  <1>4. c \in Nat /\ {m, b} = {c, c + Bit[q]} /\ Aligned(c, q + 1)
    <2>1. c \in Nat /\ {m, b} = {c, c + Bit[q]} /\ q + 1 \in Nat
      BY <1>3
    <2>2. \E i \in Nat : c = i * Bit[q + 1]
      OBVIOUS
    <2> HIDE DEF c
    <2> QED BY <2>1, <2>2, AlignedFacts
  <1> HIDE DEF b, c
  <1>5. Bit[q] \in Nat \ {0}
    BY BitFacts
  <1>6. Min({c, c + Bit[q]}) = c
    BY <1>4, <1>5, MinPair
  <1>7. Min({m, b}) = c
    BY <1>4, <1>6
  <1> QED BY <1>2, <1>4, <1>7 DEF b

\* With its buddy free, both become the node of the next order.
LEMMA MergeInv ==
    ASSUME BInv, NEW t \in Tasks, Merge(t)
    PROVE  BInv'
  <1> DEFINE n == node[t]
             o == order[n]
             b == BuddyOf(n, o)
             c == Min({n, b})
  <1>1. /\ pc[t] = "merge" /\ o # MaxOrder /\ b \in ToSet(list[o])
        /\ panic' = (order[b] # o)
        /\ order' = [order EXCEPT ![c] = o + 1]
        /\ list' = [list EXCEPT ![o] = RemoveBoth(@, n, b), ![o + 1] = <<c>> \o @]
        /\ node' = [node EXCEPT ![t] = c]
        /\ UNCHANGED <<used, size, holder, pc, request, new_order>>
    BY DEF Merge
  <1>2. /\ t \in Busy /\ n \in AllNodes /\ n \in Nodes /\ o \in Orders /\ n \notin used
        /\ n \in FreeNodes => n = Head(list[o])
        /\ \A u \in Busy \ {t} : node[u] \notin FreeNodes /\ node[u] # n /\ pc[u] = "free"
        /\ \A q \in Orders \ {MaxOrder} : \A m \in ToSet(list[q]) :
              BuddyOf(m, q) \in ToSet(list[q]) => n \in {m, BuddyOf(m, q)}
    BY <1>1, OneMerge
  <1>3. /\ n \in Nat /\ o \in Nat /\ Aligned(n, o)
        /\ o + 1 \in Orders /\ Bit[o + 1] = 2 * Bit[o] /\ Bit[o] \in Nat \ {0}
    BY <1>1, <1>2, AllNodesFacts, OrdersFacts
  <1>4. /\ b \in Nat /\ b # n /\ c \in Nat /\ Aligned(c, o + 1) /\ {n, b} = {c, c + Bit[o]}
    <2> HIDE DEF n, o
    <2>1. \A q, m \in Nat : Aligned(m, q) =>
             /\ BuddyOf(m, q) \in Nat /\ BuddyOf(m, q) # m
             /\ Min({m, BuddyOf(m, q)}) \in Nat /\ Aligned(Min({m, BuddyOf(m, q)}), q + 1)
             /\ {m, BuddyOf(m, q)} = {Min({m, BuddyOf(m, q)}), Min({m, BuddyOf(m, q)}) + Bit[q]}
      BY Parents
    <2> QED BY <1>3, <2>1
  <1> DEFINE top == c + Bit[o]
  <1> HIDE DEF n, o, b, c
  <1>5. /\ b \in AllNodes /\ b \in Nodes /\ b \in FreeNodes /\ order[b] = o /\ order[n] = o
        /\ b \notin used
    BY <1>1, <1>2, AllNodesFacts DEF BInv, OwnersInv, o
  <1>6. /\ c \in AllNodes /\ c \in Nodes /\ c \notin used /\ order[c] = o
        /\ top \in AllNodes /\ top \notin used /\ order[top] = o
        /\ top \in Nat /\ c # top /\ top + Bit[o] = c + Bit[o + 1]
    <2>1. c \in {n, b} /\ top \in {n, b}
      BY <1>4
    <2>2. top \in Nat /\ c # top /\ top + Bit[o] = c + Bit[o + 1]
      BY <1>3, <1>4
    <2> HIDE DEF top
    <2> QED BY <1>2, <1>5, <2>1, <2>2
  <1> DEFINE r == RemoveBoth(list[o], n, b)
             s == <<c>> \o list[o + 1]
  <1>7. /\ list \in [Orders -> Seq(Nodes)]
        /\ \A q \in Orders : list[q] \in Seq(Nodes) /\ NoDuplicates(list[q])
    BY DEF BInv, TypeOK, ListsInv
  <1>8. r \in Seq(Nodes) /\ NoDuplicates(r) /\ ToSet(r) = ToSet(list[o]) \ {n, b}
    <2>1. n \in ToSet(list[o]) => n = Head(list[o])
      BY <1>2, AllNodesFacts
    <2>2. \A l \in Seq(Nodes), x, y \in Nodes :
             NoDuplicates(l) /\ x # y /\ (x \in ToSet(l) => x = Head(l)) =>
             /\ RemoveBoth(l, x, y) \in Seq(Nodes) /\ NoDuplicates(RemoveBoth(l, x, y))
             /\ ToSet(RemoveBoth(l, x, y)) = ToSet(l) \ {x, y}
      BY BothRemoved
    <2> QED BY <1>2, <1>4, <1>5, <1>7, <2>1, <2>2
  <1>9. s \in Seq(Nodes) /\ NoDuplicates(s) /\ ToSet(s) = ToSet(list[o + 1]) \cup {c} /\ Head(s) = c
    <2>1. c \notin ToSet(list[o + 1])
      <3>1. o # o + 1
        BY <1>3
      <3> QED BY <1>3, <1>6, <3>1, AllNodesFacts
    <2>2. s \in Seq(Nodes) /\ NoDuplicates(s) /\ ToSet(s) = ToSet(list[o + 1]) \cup {c}
      BY <1>3, <1>6, <1>7, <2>1, AddHead
    <2>3. Head(s) = c
      BY <1>3, <1>6, <1>7
    <2> QED BY <2>2, <2>3
  <1> HIDE DEF r, s, top
  <1>10. /\ list'[o] = r /\ list'[o + 1] = s
         /\ \A q \in Orders \ {o, o + 1} : list'[q] = list[q]
         /\ list' \in [Orders -> Seq(Nodes)]
    <2>1. o # o + 1
      BY <1>3
    <2>2. list' = [list EXCEPT ![o] = r, ![o + 1] = s]
      BY <1>1, <1>2, <1>3, <1>7, <2>1 DEF r, s
    <2> QED BY <1>2, <1>3, <1>7, <1>8, <1>9, <2>1, <2>2
  <1>11. /\ order' \in [Nodes -> Orders] /\ order'[c] = o + 1
         /\ \A m \in Nodes \ {c} : order'[m] = order[m]
         /\ node' \in [Tasks -> Nodes] /\ node'[t] = c
         /\ \A u \in Tasks \ {t} : node'[u] = node[u]
    BY <1>1, <1>3, <1>6 DEF BInv, TypeOK
  <1>12. panic' = FALSE
    BY <1>1, <1>5
  <1>13. TypeOK'
    BY <1>1, <1>10, <1>11, <1>12 DEF BInv, TypeOK
  <1>14. CriticalInv'
    BY <1>1 DEF BInv, CriticalInv
  <1>15. ListsInv'
    <2> SUFFICES ASSUME NEW q \in Orders
                 PROVE  NoDuplicates(list'[q]) /\ \A m \in ToSet(list'[q]) : order'[m] = q
      BY DEF ListsInv
    <2>1. \A m \in ToSet(list[q]) : m \in Nodes /\ order[m] = q
      BY AllNodesFacts
    <2>2. CASE q = o
      <3>1. c \in {n, b}
        BY <1>4
      <3> QED BY <1>8, <1>10, <1>11, <2>1, <2>2, <3>1
    <2>3. CASE q = o + 1
      BY <1>9, <1>10, <1>11, <2>1, <2>3
    <2>4. CASE q # o /\ q # o + 1
      <3>1. \A m \in ToSet(list[q]) : m # c
        BY <1>6, <2>1, <2>4
      <3> QED BY <1>7, <1>10, <1>11, <2>1, <2>4, <3>1
    <2> QED BY <2>2, <2>3, <2>4
  <1>16. FreeNodes' = (FreeNodes \ {n, b}) \cup {c}
    <2>1. \A m : m \in FreeNodes' <=> \E q \in Orders : m \in ToSet(list'[q])
      BY DEF FreeNodes
    <2>2. \A m : m \in FreeNodes <=> \E q \in Orders : m \in ToSet(list[q])
      BY DEF FreeNodes
    <2>3. \A q \in Orders \ {o} : n \notin ToSet(list[q]) /\ b \notin ToSet(list[q])
      BY <1>5, AllNodesFacts
    <2>4. o + 1 # o
      BY <1>3
    <2>5. \A m : (\E q \in Orders : m \in ToSet(list'[q])) =>
                 m = c \/ (m \notin {n, b} /\ \E q \in Orders : m \in ToSet(list[q]))
      BY <1>2, <1>3, <1>8, <1>9, <1>10, <2>3, <2>4
    <2>6. \A m : m \notin {n, b} /\ (\E q \in Orders : m \in ToSet(list[q])) =>
                 \E q \in Orders : m \in ToSet(list'[q])
      BY <1>2, <1>3, <1>8, <1>9, <1>10
    <2>7. c \in ToSet(list'[o + 1])
      BY <1>9, <1>10
    <2> QED BY <1>3, <2>1, <2>2, <2>5, <2>6, <2>7
  <1>17. Busy' = Busy
    BY <1>1 DEF Busy
  <1>18. AllNodes' = (AllNodes \ {n, b}) \cup {c}
    <2>1. {node'[u] : u \in Busy} = {node[u] : u \in Busy \ {t}} \cup {c}
      BY <1>2, <1>11 DEF Busy
    <2>2. {node[u] : u \in Busy} = {node[u] : u \in Busy \ {t}} \cup {n}
      BY <1>2 DEF n
    <2>3. \A u \in Busy \ {t} : node[u] \notin {n, b}
      BY <1>2, <1>5
    <2> DEFINE others == {node[u] : u \in Busy \ {t}}
    <2>4. n \notin others /\ b \notin others
      BY <2>3
    <2>5. AllNodes = FreeNodes \cup used \cup others \cup {n}
      BY <2>2 DEF AllNodes
    <2>6. AllNodes' = FreeNodes' \cup used \cup others \cup {c}
      BY <1>1, <1>17, <2>1 DEF AllNodes
    <2> HIDE DEF others
    <2> QED BY <1>2, <1>5, <1>16, <2>4, <2>5, <2>6
  <1>19. OwnersInv'
    <2>1. used' \cap FreeNodes' = {}
      BY <1>1, <1>6, <1>16 DEF BInv, OwnersInv
    <2>2. node'[t] \notin used' /\ pc'[t] = "merge" /\ node'[t] = Head(list'[order'[node'[t]]])
      BY <1>1, <1>6, <1>9, <1>10, <1>11
    <2>3. ASSUME NEW u \in Busy \ {t}
          PROVE  /\ node'[u] = node[u] /\ node[u] \notin used'
                 /\ node[u] \notin FreeNodes' /\ node[u] # c
      <3>1. node'[u] = node[u]
        BY <1>11 DEF Busy
      <3>2. node[u] \notin FreeNodes /\ node[u] # n /\ node[u] # b
        BY <1>2, <1>5
      <3>3. node[u] # c
        BY <1>4, <3>2
      <3>4. node[u] \notin used'
        BY <1>1 DEF BInv, OwnersInv
      <3> QED BY <1>16, <3>1, <3>2, <3>3, <3>4
    <2>4. \A u, v \in Busy : node'[u] = node'[v] => u = v
      <3>1. \A u, v \in Busy : node[u] = node[v] => u = v
        BY DEF BInv, OwnersInv
      <3> QED BY <1>11, <2>3, <3>1
    <2> QED BY <1>17, <2>1, <2>2, <2>3, <2>4 DEF OwnersInv
  <1>20. SpansInv'
    <2> DEFINE End2(m) == m + Bit[order'[m]]
    <2>1. /\ End2(c) = top + Bit[o]
          /\ \A m \in AllNodes \ {n, b} : End2(m) = End(m) /\ order'[m] = order[m]
      BY <1>4, <1>6, <1>11, AllNodesFacts
    <2>2. /\ \A m \in AllNodes : m \in Nat /\ End(m) \in Nat /\ m < End(m)
          /\ End(c) = top /\ End(top) = top + Bit[o]
      <3>1. \A m \in AllNodes : m \in Nat /\ End(m) \in Nat /\ m < End(m)
        BY AllNodesFacts
      <3>2. End(c) = c + Bit[o] /\ End(top) = top + Bit[o]
        BY <1>6 DEF End
      <3> QED BY <3>1, <3>2 DEF top
    <2>3. {n, b} = {c, top}
      BY <1>4 DEF top
    <2> HIDE DEF End2
    <2>4. \A m \in AllNodes' : End2(m) <= HeapSize /\ Aligned(m, order'[m])
      <3>1. \A m \in AllNodes \ {n, b} : End2(m) <= HeapSize /\ Aligned(m, order'[m])
        BY <2>1, AllNodesFacts
      <3>2. End2(c) <= HeapSize /\ Aligned(c, order'[c])
        BY <1>4, <1>6, <1>11, <2>1, <2>2, AllNodesFacts
      <3> QED BY <1>18, <3>1, <3>2
    <2>5. \A m1, m2 \in AllNodes' : m1 = m2 \/ End2(m1) <= m2 \/ End2(m2) <= m1
      <3>1. \A m1, m2 \in AllNodes : m1 = m2 \/ End(m1) <= m2 \/ End(m2) <= m1
        BY DEF BInv, SpansInv
      <3>2. ASSUME NEW m \in AllNodes \ {n, b}
            PROVE  End2(m) <= c \/ End2(c) <= m
        <4>1. m # c /\ m # top
          BY <2>3
        <4>2. (End(m) <= c \/ top <= m) /\ (End(m) <= top \/ top + Bit[o] <= m)
          BY <1>6, <2>2, <3>1, <4>1
        <4>3. m \in Nat /\ End(m) \in Nat /\ m < End(m)
          BY <2>2
        <4> QED BY <1>3, <1>4, <1>6, <2>1, <4>2, <4>3
      <3> QED BY <1>18, <2>1, <3>1, <3>2
    <2>6. \A a \in Nodes : \E m \in AllNodes' : m <= a /\ a < End2(m)
      <3> SUFFICES ASSUME NEW a \in Nodes
                   PROVE  \E m \in AllNodes' : m <= a /\ a < End2(m)
        OBVIOUS
      <3>1. PICK m \in AllNodes : m <= a /\ a < End(m)
        BY DEF BInv, SpansInv
      <3>2. CASE m \notin {n, b}
        BY <1>18, <2>1, <3>1, <3>2
      <3>3. CASE m \in {n, b}
        <4>1. m = c \/ m = top
          BY <2>3, <3>3
        <4>2. c <= a /\ a < End2(c)
          BY <1>3, <1>4, <1>6, <2>1, <2>2, <3>1, <4>1, NodesFacts DEF top
        <4> QED BY <1>18, <4>2
      <3> QED BY <3>2, <3>3
    <2> QED BY <2>4, <2>5, <2>6, SpansNext DEF End2
  <1>21. SplitInv'
    <2>1. \A u \in Tasks : pc[u] # "split"
      BY <1>1, OthersWait
    <2> QED BY <1>1, <2>1 DEF BInv, SplitInv
  <1>22. Fits' /\ \A m \in used' : size'[m] \in Sizes
    <2>1. \A m \in used : order'[m] = order[m]
      BY <1>6, <1>11 DEF BInv, TypeOK
    <2> QED BY <1>1, <2>1, FitsKept DEF BInv
  <1>23. MergedInv'
    <2> SUFFICES ASSUME NEW q \in Orders \ {MaxOrder}, NEW m \in ToSet(list'[q]),
                        BuddyOf(m, q) \in ToSet(list'[q]), c \notin {m, BuddyOf(m, q)}
                 PROVE  FALSE
      BY <1>1, <1>11 DEF MergedInv, BuddyOf
    <2>1. m \in ToSet(list[q]) /\ BuddyOf(m, q) \in ToSet(list[q])
      BY <1>8, <1>9, <1>10
    <2>2. n \in {m, BuddyOf(m, q)}
      BY <1>2, <2>1
    <2>3. q = o
      BY <1>5, <2>1, <2>2, AllNodesFacts
    <2> QED BY <1>8, <1>10, <2>2, <2>3
  <1> QED BY <1>12, <1>13, <1>14, <1>15, <1>19, <1>20, <1>21, <1>22, <1>23 DEF BInv


-------------------------------------------------------------------------------
(* Theorems *)

LEMMA BuddyStutter ==
    ASSUME BInv, UNCHANGED vars
    PROVE  BInv'
  <1>1. UNCHANGED <<list, order, used, size, holder, pc, request, node, new_order, panic>>
    BY DEF vars
  <1>2. TypeOK' /\ CriticalInv' /\ SplitInv'
    BY <1>1 DEF BInv, TypeOK, CriticalInv, SplitInv, Order
  <1>3. Busy' = Busy
    BY <1>1 DEF Busy
  <1> QED BY <1>1, <1>2, <1>3, QuietInv DEF BInv

LEMMA BuddyNext ==
    ASSUME BInv, [Next]_vars
    PROVE  BInv'
  <1> SUFFICES ASSUME Next PROVE BInv'
    BY BuddyStutter
  <1>1. PICK t \in Tasks :
           \/ \E n \in Sizes : malloc(t, n)
           \/ \E n \in Nodes : free(t, n)
           \/ mm_space(t)
           \/ acquire(t)
           \/ alloc(t)
           \/ buddy_merge(t)
           \/ SpaceReturns(t)
    BY DEF Next
  <1>2. CASE \E n \in Sizes : malloc(t, n)
    BY <1>2, MallocInv
  <1>3. CASE \E n \in Nodes : free(t, n)
    BY <1>3, FreeInv
  <1>4. CASE mm_space(t)
    BY <1>4, MmSpaceInv
  <1>5. CASE acquire(t)
    BY <1>5, AcquireInv
  <1>6. CASE AllocFails(t)
    BY <1>6, EmptyReturnInv DEF AllocFails
  <1>7. CASE Take(t)
    BY <1>7, TakeInv
  <1>8. CASE buddy_split(t)
    BY <1>8, BuddySplitInv
  <1>9. CASE AllocReturns(t)
    BY <1>9, AllocReturnsInv
  <1>10. CASE Merge(t)
    BY <1>10, MergeInv
  <1>11. CASE MergeEnds(t)
    BY <1>11, MergeEndsInv
  <1>12. CASE SpaceReturns(t)
    BY <1>12, EmptyReturnInv DEF SpaceReturns
  <1> QED BY <1>1, <1>2, <1>3, <1>4, <1>5, <1>6, <1>7, <1>8, <1>9, <1>10, <1>11, <1>12
          DEF alloc, buddy_merge

\* The inductive invariant: who owns which node, where the nodes lie, and which
\* free nodes may be buddies while buddy_merge runs.
THEOREM BuddyInvariance == Spec => []BInv
  <1> QED BY BuddyInit, BuddyNext, PTL DEF Spec

\* Nobody is in buddy_merge while the mutex is free.
LEMMA Merged == BInv => FullyMerged
  <1>1. ASSUME BInv, holder = NoTask
        PROVE  \A t \in Tasks : pc[t] # "merge"
    BY <1>1, BuddyAssumption DEF BInv, CriticalInv
  <1> QED BY <1>1 DEF BInv, MergedInv, FullyMerged

\* Between calls no two free nodes are buddies.
THEOREM FreeMemoryIsMerged == Spec => []FullyMerged
  <1> QED BY Merged, BuddyInvariance, PTL

\* The nodes of the free lists, of the callers and in the hands of tasks cover
\* every address of the heap exactly once, and between calls free memory is merged.
THEOREM HeapIsPartitioned == Spec => []Partition
  <1>1. ASSUME BInv PROVE Partition
    <2>1. /\ TypeOK /\ ~panic /\ FullyMerged
          /\ \A o \in Orders : list[o] \in Seq(Nodes) /\ NoDuplicates(list[o])
      BY <1>1, Merged DEF BInv, TypeOK, ListsInv
    <2>2. ASSUME NEW o \in Orders, NEW i \in 1..Len(list[o])
          PROVE  /\ order[list[o][i]] = o
                 /\ \A j \in 1..Len(list[o]) : list[o][i] = list[o][j] => i = j
      <3>1. list[o][i] \in ToSet(list[o])
        BY <2>1, ToSetElements
      <3> QED BY <1>1, <2>1, <3>1, AllNodesFacts DEF NoDuplicates
    <2>3. FreeNodes \cup used \cup InHand = AllNodes
      <3>1. InHand \subseteq {node[u] : u \in Busy}
        BY DEF InHand, Busy
      <3>2. \A u \in Busy : node[u] \in FreeNodes \cup InHand
        <4> SUFFICES ASSUME NEW u \in Busy, node[u] \notin InHand PROVE node[u] \in FreeNodes
          OBVIOUS
        <4>1. node[u] \in ToSet(list[order[node[u]]]) /\ order[node[u]] \in Orders
          BY <1>1 DEF InHand, Busy, BInv, TypeOK
        <4> QED BY <4>1 DEF FreeNodes
      <3> QED BY <3>1, <3>2 DEF AllNodes
    <2>4. ASSUME NEW n \in Nodes
          PROVE  Cardinality({m \in FreeNodes \cup used \cup InHand : n \in Span(m)}) = 1
      <3> DEFINE S == {m \in AllNodes : n \in Span(m)}
      <3>1. \A m \in AllNodes : n \in Span(m) <=> m <= n /\ n < End(m)
        <4> SUFFICES ASSUME NEW m \in AllNodes
                     PROVE  n \in Span(m) <=> m <= n /\ n < End(m)
          OBVIOUS
        <4>1. /\ m \in Nat /\ n \in Nat /\ Bit[order[m]] \in Nat
              /\ End(m) = m + Bit[order[m]]
          BY <1>1, AllNodesFacts, NodesFacts
        <4> QED BY <4>1 DEF Span
      <3>2. PICK x \in AllNodes : x <= n /\ n < End(x)
        BY <1>1 DEF BInv, SpansInv
      <3>3. ASSUME NEW y \in AllNodes, y <= n, n < End(y) PROVE y = x
        <4>1. x = y \/ End(x) <= y \/ End(y) <= x
          BY <1>1 DEF BInv, SpansInv
        <4>2. x \in Nat /\ y \in Nat /\ n \in Nat /\ End(x) \in Nat /\ End(y) \in Nat
          BY <1>1, AllNodesFacts, NodesFacts
        <4> QED BY <3>2, <3>3, <4>1, <4>2
      <3>4. S = {x}
        BY <3>1, <3>2, <3>3
      <3> HIDE DEF S
      <3>5. Cardinality(S) = 1
        BY <3>4, FS_Singleton
      <3> QED BY <2>3, <3>5 DEF S
    <2> QED BY <2>1, <2>2, <2>4 DEF Partition
  <1> QED BY <1>1, BuddyInvariance, PTL

\* What malloc returns has room for the size asked for, in the smallest node
\* that has.
THEOREM CallersGetWhatTheyAskedFor == Spec => []Fits
  <1>1. BInv => Fits
    BY DEF BInv
  <1> QED BY <1>1, BuddyInvariance, PTL

-------------------------------------------------------------------------------
(* The sums of the sizes of the nodes *)

\* A node spans as many bytes as its header says, all of the heap.
LEMMA SpanFacts ==
    ASSUME BInv
    PROVE  /\ \A n \in AllNodes :
                  /\ IsFiniteSet(Span(n)) /\ Cardinality(Span(n)) = Bit[order[n]]
                  /\ Span(n) \subseteq 0..(HeapSize - 1)
           /\ \A n, m \in AllNodes : n # m => Span(n) \cap Span(m) = {}
  <1>1. ASSUME NEW n \in AllNodes
        PROVE  /\ IsFiniteSet(Span(n)) /\ Cardinality(Span(n)) = Bit[order[n]]
               /\ Span(n) \subseteq 0..(HeapSize - 1)
    <2>1. /\ n \in Nat /\ Bit[order[n]] \in Nat \ {0} /\ HeapSize \in Nat
          /\ n + Bit[order[n]] <= HeapSize
      BY AllNodesFacts, OrdersFacts
    <2> DEFINE a == n
               b == n + Bit[order[n]] - 1
    <2>2. a \in Int /\ b \in Int /\ a <= b /\ b - a + 1 = Bit[order[n]]
      BY <2>1
    <2>3. Span(n) = a..b
      BY DEF Span
    <2> HIDE DEF a, b
    <2>4. IsFiniteSet(a..b) /\ Cardinality(a..b) = b - a + 1
      BY <2>2, FS_Interval
    <2>5. \A x \in Span(n) : x \in 0..(HeapSize - 1)
      BY <2>1 DEF Span
    <2> QED BY <2>2, <2>3, <2>4, <2>5
  <1>2. ASSUME NEW n \in AllNodes, NEW m \in AllNodes, n # m
        PROVE  Span(n) \cap Span(m) = {}
    <2>1. /\ n \in Nat /\ m \in Nat /\ Bit[order[n]] \in Nat /\ Bit[order[m]] \in Nat
          /\ End(n) = n + Bit[order[n]] /\ End(m) = m + Bit[order[m]]
      BY AllNodesFacts
    <2>2. End(n) <= m \/ End(m) <= n
      BY <1>2 DEF BInv, SpansInv
    <2> QED BY <2>1, <2>2 DEF Span
  <1> QED BY <1>1, <1>2

\* Every byte of the heap is in a node: nodes start and end at multiples of the
\* smallest size.
LEMMA BytesCovered ==
    ASSUME BInv, NEW a \in 0..(HeapSize - 1)
    PROVE  \E n \in AllNodes : a \in Span(n)
  <1> DEFINE b == Bit[MinOrder]
             top == Bit[MaxOrder - MinOrder]
             k == a \div b
  <1>1. /\ MinOrder \in Nat /\ MaxOrder - MinOrder \in Nat
        /\ MinOrder + (MaxOrder - MinOrder) = MaxOrder
    BY BuddyAssumption
  <1>2. b \in Nat \ {0} /\ top \in Nat \ {0} /\ HeapSize = top * b
    BY <1>1, BitFacts, BitSum DEF HeapSize
  <1>3. Nodes = {n * b : n \in 0..(top - 1)}
    BY DEF Nodes
  <1>4. a \in Nat /\ a < top * b
    BY <1>2
  <1>5. ASSUME NEW n \in AllNodes PROVE \E q \in Nat : End(n) = q * b
    <2>1. n \in Nodes /\ order[n] \in Orders /\ End(n) = n + Bit[order[n]]
      BY AllNodesFacts
    <2>2. PICK i \in 0..(top - 1) : n = i * b
      BY <1>3, <2>1
    <2>3. PICK j \in Nat : Bit[order[n]] = j * b
      <3>1. /\ order[n] - MinOrder \in Nat /\ MinOrder + (order[n] - MinOrder) = order[n]
        <4>1. order[n] \in Nat /\ MinOrder <= order[n]
          BY <2>1, OrdersFacts
        <4> QED BY <1>1, <4>1
      <3>2. Bit[order[n]] = Bit[order[n] - MinOrder] * Bit[MinOrder]
        <4> DEFINE d == order[n] - MinOrder
        <4>1. d \in Nat /\ MinOrder + d = order[n]
          BY <3>1
        <4> HIDE DEF d
        <4>2. Bit[MinOrder + d] = Bit[d] * Bit[MinOrder]
          BY <1>1, <4>1, BitSum
        <4> QED BY <4>1, <4>2 DEF d
      <3>3. Bit[order[n] - MinOrder] \in Nat
        BY <3>1, BitFacts
      <3> QED BY <3>2, <3>3
    <2> HIDE DEF b, top
    <2>4. n + Bit[order[n]] = (i + j) * b /\ i + j \in Nat
      BY <1>2, <2>2, <2>3
    <2> QED BY <2>1, <2>4
  <1> HIDE DEF b, top
  <1>6. k \in Nat /\ k * b <= a /\ a < k * b + b
    BY <1>2, <1>4
  <1> HIDE DEF k
  <1>7. k < top
    <2>1. k * b < top * b
      BY <1>2, <1>4, <1>6
    <2> QED BY <1>2, <1>6, <2>1
  <1>8. k * b \in Nodes
    <2>1. k \in 0..(top - 1)
      BY <1>2, <1>6, <1>7
    <2> QED BY <1>3, <2>1
  <1>9. PICK n \in AllNodes : n <= k * b /\ k * b < End(n)
    BY <1>8 DEF BInv, SpansInv
  <1>10. PICK q \in Nat : End(n) = q * b
    BY <1>5
  <1>11. k * b + b <= q * b
    <2>1. k < q
      BY <1>2, <1>6, <1>9, <1>10
    <2>2. q - k \in Nat \ {0} /\ q = k + (q - k)
      BY <1>6, <2>1
    <2>3. \A x \in Nat \ {0} : (k + x) * b >= k * b + b
      BY <1>2, <1>6
    <2> QED BY <2>2, <2>3
  <1>12. n <= a /\ a < End(n)
    <2>1. k * b \in Nat /\ q * b \in Nat /\ n \in Nat
      BY <1>2, <1>6, AllNodesFacts
    <2> QED BY <1>4, <1>6, <1>9, <1>10, <1>11, <2>1, <1>2
  <1>13. n \in Nat /\ Bit[order[n]] \in Nat /\ End(n) = n + Bit[order[n]]
    BY AllNodesFacts
  <1> QED BY <1>4, <1>12, <1>13 DEF Span

\* There are finitely many nodes and orders.
LEMMA FiniteNodes == IsFiniteSet(Nodes) /\ IsFiniteSet(Orders)
  <1>1. \A n \in Nodes : n \in Nat /\ n <= HeapSize /\ HeapSize \in Nat
    BY NodesFacts, NodesInHeap, OrdersFacts
  <1>2. Nodes \in SUBSET Nat /\ HeapSize \in Nat
    BY <1>1, OrdersFacts
  <1>3. IsFiniteSet(Nodes)
    BY <1>1, <1>2, FS_BoundedSetOfNaturals
  <1>4. IsFiniteSet(Orders)
    BY BuddyAssumption, FS_Interval DEF Orders
  <1> QED BY <1>3, <1>4

\* The bytes of the nodes of one list.
ListBytes == [o \in Orders |-> UNION {Span(n) : n \in ToSet(list[o])}]

LEMMA ListBytesFacts ==
    ASSUME BInv, NEW o \in Orders
    PROVE  /\ IsFiniteSet(ListBytes[o])
           /\ Cardinality(ListBytes[o]) = Len(list[o]) * Bit[o]
  <1> DEFINE s == list[o]
             c == [i \in 1..Len(s) |-> Span(s[i])]
  <1>1. s \in Seq(Nodes) /\ NoDuplicates(s) /\ Bit[o] \in Nat
    BY OrdersFacts DEF BInv, TypeOK, ListsInv
  <1>2. Len(s) \in Nat /\ \A i \in 1..Len(s) : s[i] \in ToSet(s)
    BY <1>1, ToSetElements
  <1>3. \A i \in 1..Len(s) : s[i] \in AllNodes /\ order[s[i]] = o
    BY <1>2, AllNodesFacts
  <1>4. \A i \in 1..Len(s) : IsFiniteSet(c[i]) /\ Cardinality(c[i]) = Bit[o]
    BY <1>3, SpanFacts
  <1>5. \A i, j \in 1..Len(s) : i # j => c[i] \cap c[j] = {}
    <2> SUFFICES ASSUME NEW i \in 1..Len(s), NEW j \in 1..Len(s), i # j
                 PROVE  Span(s[i]) \cap Span(s[j]) = {}
      OBVIOUS
    <2>1. s[i] # s[j]
      BY <1>1 DEF NoDuplicates
    <2> QED BY <1>3, <2>1, SpanFacts
  <1>6. Cover(c, 1..Len(s)) = ListBytes[o]
    <2>1. ToSet(s) = {s[i] : i \in 1..Len(s)}
      BY <1>1 DEF ToSet
    <2>2. ListBytes[o] = UNION {Span(n) : n \in ToSet(s)}
      BY DEF ListBytes
    <2> QED BY <2>1, <2>2 DEF Cover
  <1> HIDE DEF c
  <1>7. IsFiniteSet(Cover(c, 1..Len(s))) /\ Cardinality(Cover(c, 1..Len(s))) = Len(s) * Bit[o]
    BY <1>1, <1>2, <1>4, <1>5, BlocksCardinality
  <1> QED BY <1>6, <1>7

\* free_memory is the number of bytes in the nodes of the lists.
LEMMA FreeBytes ==
    ASSUME BInv
    PROVE  /\ free_memory = Cardinality(UNION {Span(n) : n \in FreeNodes})
           /\ IsFiniteSet(UNION {Span(n) : n \in FreeNodes})
  <1> DEFINE w == [o \in Orders |-> Len(list[o]) * Bit[o]]
             g == CHOOSE f : f = [T \in SUBSET Orders |->
                                    IF T = {} THEN 0
                                    ELSE f[T \ {CHOOSE o \in T : TRUE}]
                                         + Len(list[CHOOSE o \in T : TRUE]) * Bit[CHOOSE o \in T : TRUE]]
             h == [T \in SUBSET Orders |-> Cardinality(Cover(ListBytes, T))]
  <1>1. free_memory = g[Orders]
    BY DEF free_memory, FoldSet, MapThenFoldSet
  <1>2. Blocks(ListBytes, w, Orders)
    <2>1. \A o \in Orders : IsFiniteSet(ListBytes[o]) /\ Cardinality(ListBytes[o]) = w[o]
      BY ListBytesFacts
    <2>2. ASSUME NEW o \in Orders, NEW p \in Orders, o # p
          PROVE  ListBytes[o] \cap ListBytes[p] = {}
      <3> SUFFICES ASSUME NEW n \in ToSet(list[o]), NEW m \in ToSet(list[p])
                   PROVE  Span(n) \cap Span(m) = {}
        BY DEF ListBytes
      <3>1. n \in AllNodes /\ m \in AllNodes /\ order[n] = o /\ order[m] = p
        BY AllNodesFacts
      <3> QED BY <2>2, <3>1, SpanFacts
    <2> QED BY <2>1, <2>2 DEF Blocks
  <1>3. h = [T \in SUBSET Orders |->
               IF T = {} THEN 0
               ELSE h[T \ {CHOOSE o \in T : TRUE}]
                    + Len(list[CHOOSE o \in T : TRUE]) * Bit[CHOOSE o \in T : TRUE]]
    <2> SUFFICES ASSUME NEW T \in SUBSET Orders
                 PROVE  h[T] = IF T = {} THEN 0
                               ELSE h[T \ {CHOOSE o \in T : TRUE}]
                                    + Len(list[CHOOSE o \in T : TRUE]) * Bit[CHOOSE o \in T : TRUE]
      BY Zenon
    <2>1. CASE T = {}
      BY <2>1, CoverEmpty
    <2>2. CASE T # {}
      <3> DEFINE x == CHOOSE o \in T : TRUE
      <3>1. x \in T /\ x \in Orders
        BY <2>2
      <3> HIDE DEF x
      <3>2. Cardinality(Cover(ListBytes, T)) = Cardinality(Cover(ListBytes, T \ {x})) + w[x]
        BY <1>2, <3>1, FiniteNodes, CoverStep
      <3>3. h[T] = h[T \ {x}] + Len(list[x]) * Bit[x]
        BY <3>1, <3>2
      <3> HIDE DEF h
      <3> QED BY <2>2, <3>3 DEF x
    <2> QED BY <2>1, <2>2
  <1> HIDE DEF h
  <1>4. g = [T \in SUBSET Orders |->
               IF T = {} THEN 0
               ELSE g[T \ {CHOOSE o \in T : TRUE}]
                    + Len(list[CHOOSE o \in T : TRUE]) * Bit[CHOOSE o \in T : TRUE]]
    BY <1>3
  <1> HIDE DEF g
  <1>5. AddsUp(g, w, Orders)
    <2>1. g[{}] = 0
      BY <1>4
    <2>2. ASSUME NEW T \in SUBSET Orders, T # {} PROVE \E x \in T : g[T] = g[T \ {x}] + w[x]
      <3> DEFINE x == CHOOSE o \in T : TRUE
      <3>1. x \in T /\ x \in Orders
        BY <2>2
      <3>2. g[T] = g[T \ {x}] + Len(list[x]) * Bit[x]
        BY <1>4, <2>2
      <3> HIDE DEF x
      <3> QED BY <3>1, <3>2
    <2> QED BY <2>1, <2>2 DEF AddsUp
  <1>6. g[Orders] = Cardinality(Cover(ListBytes, Orders))
    <2> HIDE DEF w
    <2> QED BY <1>2, <1>5, FiniteNodes, SumIsCardinality
  <1>7. Cover(ListBytes, Orders) = UNION {Span(n) : n \in FreeNodes}
    BY DEF Cover, ListBytes, FreeNodes
  <1>8. IsFiniteSet(Cover(ListBytes, Orders))
    <2> HIDE DEF w
    <2> QED BY <1>2, OrdersFacts, FiniteNodes, CoverStep
  <1> QED BY <1>1, <1>6, <1>7, <1>8

\* The nodes of callers and in the hands of tasks add up likewise.
LEMMA OwnedBytes ==
    ASSUME BInv
    PROVE  /\ FoldSet(LAMBDA n, sum : sum + Bit[order[n]], 0, used \cup InHand)
                = Cardinality(UNION {Span(n) : n \in used \cup InHand})
           /\ IsFiniteSet(UNION {Span(n) : n \in used \cup InHand})
           /\ used \cup InHand \subseteq AllNodes
           /\ (used \cup InHand) \cap FreeNodes = {}
           /\ (used \cup InHand) \cup FreeNodes = AllNodes
  <1> DEFINE S == used \cup InHand
             c == [n \in S |-> Span(n)]
             w == [n \in S |-> Bit[order[n]]]
             g == CHOOSE f : f = [T \in SUBSET S |->
                                    IF T = {} THEN 0
                                    ELSE f[T \ {CHOOSE n \in T : TRUE}]
                                         + Bit[order[CHOOSE n \in T : TRUE]]]
             h == [T \in SUBSET S |-> Cardinality(Cover(c, T))]
  <1>1. FoldSet(LAMBDA n, sum : sum + Bit[order[n]], 0, S) = g[S]
    BY DEF FoldSet, MapThenFoldSet
  <1>2. S \subseteq AllNodes
    BY DEF InHand, AllNodes, Busy
  <1>3. S \cap FreeNodes = {}
    <2>1. used \cap FreeNodes = {}
      BY DEF BInv, OwnersInv
    <2>2. ASSUME NEW n \in InHand, n \in FreeNodes PROVE FALSE
      <3>1. PICK o \in Orders : n \in ToSet(list[o])
        BY <2>2 DEF FreeNodes
      <3>2. order[n] = o
        BY <3>1, AllNodesFacts
      <3> QED BY <2>2, <3>1, <3>2 DEF InHand
    <2> QED BY <2>1, <2>2
  <1>4. S \cup FreeNodes = AllNodes
    <2>1. \A u \in Busy : node[u] \in FreeNodes \cup InHand
      <3> SUFFICES ASSUME NEW u \in Busy, node[u] \notin InHand PROVE node[u] \in FreeNodes
        OBVIOUS
      <3>1. node[u] \in ToSet(list[order[node[u]]]) /\ order[node[u]] \in Orders
        BY DEF InHand, Busy, BInv, TypeOK
      <3> QED BY <3>1 DEF FreeNodes
    <2> QED BY <1>2, <2>1 DEF AllNodes
  <1>5. IsFiniteSet(S)
    <2>1. S \subseteq Nodes
      BY <1>2, AllNodesFacts
    <2> HIDE DEF S
    <2> QED BY <2>1, FiniteNodes, FS_Subset
  <1>6. Blocks(c, w, S)
    <2>1. \A n \in S : IsFiniteSet(c[n]) /\ Cardinality(c[n]) = w[n]
      BY <1>2, SpanFacts
    <2>2. \A n, m \in S : n # m => c[n] \cap c[m] = {}
      BY <1>2, SpanFacts
    <2> QED BY <2>1, <2>2 DEF Blocks
  <1>7. Cover(c, S) = UNION {Span(n) : n \in S}
    BY DEF Cover
  <1> HIDE DEF S, c
  <1>8. h = [T \in SUBSET S |->
               IF T = {} THEN 0
               ELSE h[T \ {CHOOSE n \in T : TRUE}] + Bit[order[CHOOSE n \in T : TRUE]]]
    <2> SUFFICES ASSUME NEW T \in SUBSET S
                 PROVE  h[T] = IF T = {} THEN 0
                               ELSE h[T \ {CHOOSE n \in T : TRUE}]
                                    + Bit[order[CHOOSE n \in T : TRUE]]
      BY Zenon
    <2>1. CASE T = {}
      BY <2>1, CoverEmpty
    <2>2. CASE T # {}
      <3> DEFINE x == CHOOSE n \in T : TRUE
      <3>1. x \in T /\ x \in S
        BY <2>2
      <3> HIDE DEF x
      <3>2. Cardinality(Cover(c, T)) = Cardinality(Cover(c, T \ {x})) + w[x]
        <4> HIDE DEF w
        <4> QED BY <1>5, <1>6, <3>1, CoverStep
      <3>3. h[T] = h[T \ {x}] + Bit[order[x]]
        BY <3>1, <3>2
      <3> HIDE DEF h
      <3> QED BY <2>2, <3>3 DEF x
    <2> QED BY <2>1, <2>2
  <1> HIDE DEF h
  <1>9. g = [T \in SUBSET S |->
               IF T = {} THEN 0
               ELSE g[T \ {CHOOSE n \in T : TRUE}] + Bit[order[CHOOSE n \in T : TRUE]]]
    BY <1>8
  <1> HIDE DEF g
  <1>10. AddsUp(g, w, S)
    <2>1. g[{}] = 0
      BY <1>9
    <2>2. ASSUME NEW T \in SUBSET S, T # {} PROVE \E x \in T : g[T] = g[T \ {x}] + w[x]
      <3> DEFINE x == CHOOSE n \in T : TRUE
      <3>1. x \in T /\ x \in S
        BY <2>2
      <3>2. g[T] = g[T \ {x}] + Bit[order[x]]
        BY <1>9, <2>2
      <3> HIDE DEF x
      <3> QED BY <3>1, <3>2
    <2> QED BY <2>1, <2>2 DEF AddsUp
  <1> HIDE DEF w
  <1>11. g[S] = Cardinality(Cover(c, S))
    BY <1>5, <1>6, <1>10, SumIsCardinality
  <1>12. IsFiniteSet(Cover(c, S))
    <2>1. CASE S = {}
      BY <2>1, FS_EmptySet DEF Cover
    <2>2. CASE S # {}
      <3>1. PICK x \in S : TRUE
        BY <2>2
      <3> QED BY <1>5, <1>6, CoverStep
    <2> QED BY <2>1, <2>2
  <1> QED BY <1>1, <1>2, <1>3, <1>4, <1>7, <1>11, <1>12 DEF S

\* What mm_space answers and what callers own add up to the heap, exactly.
THEOREM SpaceIsExact == Spec => []SpaceExact
  <1>1. ASSUME BInv
        PROVE  free_memory + FoldSet(LAMBDA n, sum : sum + Bit[order[n]], 0, used \cup InHand)
                   = HeapSize
    <2> DEFINE A == UNION {Span(n) : n \in FreeNodes}
               B == UNION {Span(n) : n \in used \cup InHand}
               H == 0..(HeapSize - 1)
    <2>1. free_memory = Cardinality(A) /\ IsFiniteSet(A)
      BY <1>1, FreeBytes
    <2>2. /\ FoldSet(LAMBDA n, sum : sum + Bit[order[n]], 0, used \cup InHand) = Cardinality(B)
          /\ IsFiniteSet(B)
      BY <1>1, OwnedBytes
    <2>3. A \cup B = H
      <3>1. A \cup B \subseteq H
        <4> SUFFICES ASSUME NEW n \in FreeNodes \cup (used \cup InHand)
                     PROVE  Span(n) \subseteq H
          OBVIOUS
        <4>1. n \in AllNodes
          BY <1>1, OwnedBytes
        <4> QED BY <1>1, <4>1, SpanFacts
      <3>2. ASSUME NEW a \in H PROVE a \in A \cup B
        <4>1. PICK n \in AllNodes : a \in Span(n)
          BY <1>1, BytesCovered
        <4>2. n \in FreeNodes \/ n \in used \cup InHand
          BY <1>1, OwnedBytes
        <4> QED BY <4>1, <4>2
      <3> QED BY <3>1, <3>2
    <2>4. A \cap B = {}
      <3> SUFFICES ASSUME NEW n \in FreeNodes, NEW m \in used \cup InHand
                   PROVE  Span(n) \cap Span(m) = {}
        OBVIOUS
      <3>1. n \in AllNodes /\ m \in AllNodes /\ n # m
        BY <1>1, OwnedBytes
      <3> QED BY <1>1, <3>1, SpanFacts
    <2>5. Cardinality(H) = HeapSize
      <3> DEFINE k == HeapSize - 1
      <3>1. k \in Int /\ k >= -1 /\ k + 1 = HeapSize
        BY OrdersFacts
      <3> HIDE DEF k
      <3>2. Cardinality(0..k) = IF 0 > k THEN 0 ELSE k - 0 + 1
        BY <3>1, FS_Interval
      <3>3. Cardinality(0..k) = k + 1
        BY <3>1, <3>2
      <3> QED BY <3>1, <3>3 DEF k
    <2> HIDE DEF A, B, H
    <2>6. Cardinality(A \cup B) = Cardinality(A) + Cardinality(B) - Cardinality(A \cap B)
      BY <2>1, <2>2, FS_Union
    <2>7. Cardinality(A) \in Nat /\ Cardinality(B) \in Nat /\ Cardinality(A \cap B) = 0
      BY <2>1, <2>2, <2>4, FS_CardinalityType, FS_EmptySet
    <2>8. Cardinality(A) + Cardinality(B) = HeapSize
      <3>1. Cardinality(A \cup B) = HeapSize
        BY <2>3, <2>5
      <3> QED BY <2>6, <2>7, <3>1
    <2> QED BY <2>1, <2>2, <2>8
  <1>2. BInv => SpaceExact
    BY <1>1 DEF SpaceExact
  <1> QED BY <1>2, BuddyInvariance, PTL

-------------------------------------------------------------------------------
(* The abstract heap *)

\* The region of a node, and the regions of the callers.
Region(n) == [start |-> n + Header, len |-> size[n]]
Regions == {Region(n) : n \in used}

\* A region lies behind the header of its node, inside of the node.
LEMMA RegionFacts ==
    ASSUME BInv, NEW n \in used
    PROVE  /\ n \in Nat /\ size[n] \in Sizes /\ size[n] \in Nat /\ Header \in Nat
           /\ n + Header \in 0..(HeapSize - 1)
           /\ n + Header + size[n] <= End(n) /\ End(n) <= HeapSize
           /\ End(n) \in Nat /\ HeapSize \in Nat
  <1>1. n \in AllNodes
    BY DEF AllNodes
  <1>2. /\ n \in Nat /\ order[n] \in Orders /\ Bit[order[n]] \in Nat
        /\ End(n) = n + Bit[order[n]] /\ End(n) <= HeapSize
    BY <1>1, AllNodesFacts
  <1>3. size[n] \in Sizes /\ size[n] \in Nat
    BY BuddyAssumption DEF BInv
  <1>4. Header \in Nat /\ Header < Bit[MinOrder] /\ Bit[MinOrder] \in Nat
    BY BuddyAssumption, OrdersFacts
  <1>5. Bit[MinOrder] <= Bit[order[n]] /\ HeapSize \in Nat
    BY <1>2, OrdersFacts, BitMonotone
  <1>6. size[n] + Header <= Bit[order[n]]
    BY DEF BInv, Fits
  <1> QED BY <1>2, <1>3, <1>4, <1>5, <1>6

\* The step of malloc that gives a node to the caller.
LEMMA AllocIsAlloc ==
    ASSUME BInv, BInv', NEW t \in Tasks, AllocReturns(t)
    PROVE  Heap!Next
  <1> DEFINE n == node[t]
             s == request[t]
             r == [start |-> n + Header, len |-> s]
  <1>1. /\ pc[t] = "split" /\ used' = used \cup {n}
        /\ size' = [size EXCEPT ![n] = s] /\ order' = order
    BY DEF AllocReturns
  <1>2. n \in Nodes /\ n \in AllNodes /\ n \notin used /\ used \subseteq Nodes
    BY <1>1 DEF BInv, TypeOK, OwnersInv, Busy, AllNodes
  <1>3. size'[n] = s /\ \A m \in used : size'[m] = size[m]
    BY <1>1, <1>2 DEF BInv, TypeOK
  <1> HIDE DEF n, s
  <1>4. /\ n \in Nat /\ s \in Sizes /\ s \in Nat /\ Header \in Nat
        /\ n + Header \in 0..(HeapSize - 1)
        /\ n + Header + s <= End(n) /\ End(n) <= HeapSize
        /\ End(n) \in Nat /\ HeapSize \in Nat
    <2>1. /\ n \in Nat /\ order[n] \in Orders /\ Bit[order[n]] \in Nat
          /\ End(n) = n + Bit[order[n]] /\ End(n) <= HeapSize
      BY <1>2, AllNodesFacts
    <2>2. Header \in Nat /\ Header < Bit[MinOrder] /\ Bit[MinOrder] \in Nat
      BY BuddyAssumption, OrdersFacts
    <2>3. Bit[MinOrder] <= Bit[order[n]] /\ HeapSize \in Nat
      BY <2>1, OrdersFacts, BitMonotone
    <2>4. s \in Sizes /\ s + Header <= Bit[order[n]]
      BY <1>1, <1>3 DEF BInv, Fits
    <2> QED BY <2>1, <2>2, <2>3, <2>4, BuddyAssumption
  <1>5. \A m \in used : End(m) <= n \/ End(n) <= m
    BY <1>2 DEF BInv, SpansInv, AllNodes
  <1>6. Regions' = Regions \cup {r}
    BY <1>1, <1>3 DEF Regions, Region
  <1>7. Heap!Bytes(r) = (n + Header)..(n + Header + s - 1)
    BY DEF Heap!Bytes
  <1>8. Heap!Bytes(r) \subseteq 0..(HeapSize - 1)
    BY <1>4, <1>7
  <1>9. \A x \in Regions : Heap!Bytes(r) \cap Heap!Bytes(x) = {} /\ r.start # x.start
    <2> SUFFICES ASSUME NEW m \in used
                 PROVE  /\ Heap!Bytes(r) \cap Heap!Bytes(Region(m)) = {}
                        /\ r.start # Region(m).start
      BY DEF Regions
    <2>1. /\ m \in Nat /\ size[m] \in Nat /\ End(m) \in Nat
          /\ m + Header + size[m] <= End(m)
      BY RegionFacts
    <2>2. Heap!Bytes(Region(m)) = (m + Header)..(m + Header + size[m] - 1)
      BY DEF Heap!Bytes, Region
    <2>3. End(m) <= n \/ End(n) <= m
      BY <1>5
    <2>4. m # n
      BY <1>2
    <2>5. r.start # Region(m).start
      BY <1>4, <2>1, <2>4 DEF Region
    <2>6. ASSUME NEW b, b \in Heap!Bytes(r), b \in Heap!Bytes(Region(m)) PROVE FALSE
      <3>1. b \in Int /\ n + Header <= b /\ b < n + Header + s
        BY <1>4, <1>7, <2>6
      <3>2. m + Header <= b /\ b < m + Header + size[m]
        BY <1>4, <2>1, <2>2, <2>6
      <3> QED BY <1>4, <2>1, <2>3, <3>1, <3>2
    <2> QED BY <2>5, <2>6
  <1>10. PICK start \in 0..HeapSize, len \in Sizes : start = n + Header /\ len = s
    BY <1>4
  <1>11. r = [start |-> start, len |-> len]
    BY <1>10
  <1> HIDE DEF r
  <1>12. Heap!Alloc([start |-> start, len |-> len])
    BY <1>6, <1>8, <1>9, <1>11 DEF Heap!Alloc, Regions, Region
  <1> QED BY <1>12 DEF Heap!Next

LEMMA FreeIsFree ==
    ASSUME BInv, NEW t \in Tasks, NEW n \in Nodes, free(t, n)
    PROVE  Heap!Next
  <1>1. n \in used /\ used' = used \ {n} /\ size' = [size EXCEPT ![n] = 0]
    BY DEF free
  <1>2. used \subseteq Nodes /\ \A m \in used \ {n} : size'[m] = size[m]
    BY <1>1 DEF BInv, TypeOK
  <1>3. \A m \in used : m \in Nat /\ Header \in Nat
    BY RegionFacts
  <1>4. \A m \in used \ {n} : Region(m) # Region(n)
    BY <1>1, <1>3 DEF Region
  <1>5. Regions' = {[start |-> m + Header, len |-> size'[m]] : m \in used'}
    BY DEF Regions, Region
  <1>6. Regions' = Regions \ {Region(n)}
    BY <1>1, <1>2, <1>4, <1>5 DEF Regions, Region
  <1>7. Region(n) \in Regions
    BY <1>1 DEF Regions
  <1>8. PICK start \in 0..HeapSize, len \in Sizes : start = n + Header /\ len = size[n]
    BY <1>1, RegionFacts
  <1>9. Region(n) = [start |-> start, len |-> len]
    BY <1>8 DEF Region
  <1>10. Heap!Free([start |-> start, len |-> len])
    <2>1. [start |-> start, len |-> len] \in Regions
      BY <1>7, <1>9
    <2>2. Regions' = Regions \ {[start |-> start, len |-> len]}
      BY <1>6, <1>9
    <2> QED BY <2>1, <2>2 DEF Heap!Free, Regions, Region
  <1> QED BY <1>10 DEF Heap!Next

LEMMA HeapStep ==
    ASSUME BInv, BInv', [Next]_vars
    PROVE  Heap!Next \/ Regions' = Regions
  <1>1. ASSUME UNCHANGED <<used, size>> PROVE Regions' = Regions
    BY <1>1 DEF Regions, Region
  <1>2. CASE UNCHANGED vars
    BY <1>1, <1>2 DEF vars
  <1>3. CASE Next
    <2>1. PICK t \in Tasks :
             \/ \E n \in Sizes : malloc(t, n)
             \/ \E n \in Nodes : free(t, n)
             \/ mm_space(t)
             \/ acquire(t)
             \/ alloc(t)
             \/ buddy_merge(t)
             \/ SpaceReturns(t)
      BY <1>3 DEF Next
    <2>2. CASE \E n \in Nodes : free(t, n)
      BY <2>2, FreeIsFree
    <2>3. CASE AllocReturns(t)
      BY <2>3, AllocIsAlloc
    <2>4. CASE (\E n \in Sizes : malloc(t, n)) \/ mm_space(t) \/ acquire(t)
      BY <1>1, <2>4 DEF malloc, mm_space, acquire
    <2>5. CASE AllocFails(t) \/ Take(t) \/ buddy_split(t)
      BY <1>1, <2>5 DEF AllocFails, Take, buddy_split
    <2>6. CASE buddy_merge(t) \/ SpaceReturns(t)
      BY <1>1, <2>6 DEF buddy_merge, Merge, MergeEnds, SpaceReturns
    <2> QED BY <2>1, <2>2, <2>3, <2>4, <2>5, <2>6 DEF alloc
  <1> QED BY <1>2, <1>3

\* malloc and free implement the abstract heap: the regions that callers own lie
\* in the heap, never overlap, and change only by their own calls.
THEOREM MallocImplementsHeap == Spec => ImplementsHeap
  <1>1. Init => Heap!Init
    BY DEF Init, Heap!Init
  <1>2. BInv /\ BInv' /\ [Next]_vars
        => [Heap!Next]_({[start |-> n + Header, len |-> size[n]] : n \in used})
    BY HeapStep DEF Regions, Region
  <1> QED BY <1>1, <1>2, BuddyInvariance, PTL DEF Spec, ImplementsHeap, Heap!Spec
================================================================================
