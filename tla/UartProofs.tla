------------------------------ MODULE UartProofs ------------------------------
(***************************************************************************)
(* Proofs about Uart, for any number of tasks, any length of the ring and  *)
(* of the reads and writes: the inductive invariant UInv, and the safety   *)
(* properties that the run of Uart checks.                                 *)
(***************************************************************************)
EXTENDS Uart, TLAPS

\* The two locks, and which of them an operation takes first.
LEMMA Order ==
    \A t \in Tasks :
        /\ First(t) \in {"read_lock", "write_lock"}
        /\ Second(t) \in {"read_lock", "write_lock"}
        /\ First(t) # Second(t)
        /\ op[t] = "write" <=> First(t) = "write_lock"
        /\ op[t] = "write" <=> Second(t) = "read_lock"
  BY DEF First, Second

\* No two tasks have the same lock.
LEMMA Exclusion ==
    ASSUME LockInv, NEW t \in Tasks, NEW u \in Tasks, t # u
    PROVE  /\ HoldsFirst(t) /\ HoldsFirst(u) => First(t) # First(u)
           /\ HoldsFirst(t) /\ HoldsSecond(u) => First(t) # Second(u)
           /\ HoldsSecond(t) /\ HoldsSecond(u) => Second(t) # Second(u)
  BY DEF LockInv

LEMMA UartInit == Init => UInv
  <1> SUFFICES ASSUME Init PROVE UInv
    OBVIOUS
  <1>0. BufferSize \in Nat \ {0} /\ MaxBytes \in Nat
    BY UartAssumption
  <1>1. TypeOK
    <2>1. rx \in [NDTR : 0..BufferSize, TCIF : BOOLEAN] /\ tx \in [NDTR : 0..BufferSize, TCIF : BOOLEAN]
      BY <1>0 DEF Init
    <2>2. /\ read_index \in Index /\ rx_buffer \in [Index -> 0..MaxBytes]
          /\ received \in 0..MaxBytes /\ consumed \in 0..MaxBytes
      BY <1>0 DEF Init, Index
    <2>3. /\ ready \in BOOLEAN /\ first_tx \in BOOLEAN /\ wrapped \in BOOLEAN
          /\ lock \in [{"read_lock", "write_lock"} -> Tasks \cup {NoTask}]
          /\ pc \in [Tasks -> {"idle"}] /\ op \in [Tasks -> Operations]
      BY DEF Init, Operations
    <2>4. len \in [Tasks -> Nat] /\ dma_read \in [Tasks -> Index]
      BY <1>0 DEF Init, Index
    <2>5. pc \in [Tasks -> {"idle", "first", "check", "second", "initialize", "unlock",
                            "work", "items", "copy", "send", "out"}]
      BY <2>3
    <2> QED BY <2>1, <2>2, <2>3, <2>4, <2>5 DEF TypeOK
  <1>2. LockInv /\ PathInv
    BY DEF Init, LockInv, PathInv, HoldsFirst, HoldsSecond
  <1>3. ReadyInv /\ TxInv /\ RingInv
    BY DEF Init, ReadyInv, TxInv, RingInv, HoldsSecond, Filled, DmaRead
  <1> QED BY <1>1, <1>2, <1>3 DEF UInv

-------------------------------------------------------------------------------
(* The DMA streams *)

\* A byte that is received fills its place, and the last one starts the ring
\* again.
LEMMA RxByteInv ==
    ASSUME UInv, RxByte
    PROVE  UInv'
  <1>0. /\ BufferSize \in Nat \ {0} /\ MaxBytes \in Nat
        /\ rx \in [NDTR : 0..BufferSize, TCIF : BOOLEAN]
        /\ rx_buffer \in [Index -> 0..MaxBytes]
        /\ received \in 0..MaxBytes /\ consumed \in 0..MaxBytes
    BY UartAssumption DEF UInv, TypeOK
  <1>1. /\ rx.NDTR > 0 /\ received < MaxBytes
        /\ received' = received + 1 /\ received + 1 \in 0..MaxBytes
        /\ rx_buffer' = [rx_buffer EXCEPT ![DmaRead] = received + 1]
        /\ rx' = IF rx.NDTR = 1 THEN [NDTR |-> BufferSize, TCIF |-> TRUE]
                                ELSE [rx EXCEPT !.NDTR = @ - 1]
        /\ DmaRead \in Index
        /\ UNCHANGED <<ready, first_tx, read_index, wrapped, lock, tx, consumed,
                       op, len, dma_read, pc>>
    BY <1>0 DEF RxByte, DmaRead, port, local, Index
  <1>2. TypeOK'
    BY <1>0, <1>1 DEF UInv, TypeOK
  <1>3. LockInv' /\ PathInv' /\ TxInv'
    BY <1>1 DEF UInv, LockInv, PathInv, TxInv, HoldsFirst, HoldsSecond, First, Second
  <1>4. /\ rx'.NDTR > 0
        /\ rx'.TCIF <=> rx.TCIF \/ rx.NDTR = 1
        /\ DmaRead' = IF rx.NDTR = 1 THEN 0 ELSE DmaRead + 1
    <2>1. CASE rx.NDTR = 1
      BY <1>0, <1>1, <2>1 DEF DmaRead
    <2>2. CASE rx.NDTR # 1
      <3>1. rx' = [rx EXCEPT !.NDTR = rx.NDTR - 1]
        BY <1>1, <2>2
      <3>2. rx'.NDTR = rx.NDTR - 1 /\ rx'.TCIF = rx.TCIF
        BY <1>0, <3>1
      <3> QED BY <1>0, <1>1, <2>2, <3>2 DEF DmaRead
    <2> QED BY <2>1, <2>2
  <1>5. ReadyInv'
    BY <1>1, <1>4 DEF UInv, ReadyInv, HoldsSecond
  <1>6. \A i \in Index : Filled(i)' <=> Filled(i) \/ i = DmaRead
    BY <1>0, <1>1 DEF Filled
  <1>7. RingInv'
    <2>1. \A i \in Index : i < DmaRead => Filled(i)
      BY <1>1 DEF UInv, RingInv
    <2>2. rx.NDTR = 1 => DmaRead = BufferSize - 1
      BY DEF DmaRead
    <2>3. \A i \in Index : i < DmaRead' => Filled(i)'
      BY <1>0, <1>1, <1>4, <1>6, <2>1 DEF Index
    <2>4. rx.NDTR = 1 => \A i \in Index : Filled(i)'
      BY <1>0, <1>6, <2>1, <2>2 DEF Index
    <2>5. rx'.TCIF \/ wrapped' => \A i \in Index : Filled(i)'
      BY <1>1, <1>4, <1>6, <2>4 DEF UInv, RingInv
    <2>6. \A t \in Tasks : pc[t] = "copy" =>
             /\ \A i \in Index : i < dma_read[t] => Filled(i)'
             /\ read_index <= dma_read[t] \/ \A i \in Index : Filled(i)'
      BY <1>6 DEF UInv, RingInv
    <2> QED BY <1>1, <2>3, <2>5, <2>6 DEF RingInv, Index
  <1> QED BY <1>2, <1>3, <1>5, <1>7 DEF UInv


\* A byte that is sent: nothing is begun meanwhile.
LEMMA TxByteInv ==
    ASSUME UInv, TxByte
    PROVE  UInv'
  <1>0. tx \in [NDTR : 0..BufferSize, TCIF : BOOLEAN] /\ BufferSize \in Nat
    BY UartAssumption DEF UInv, TypeOK
  <1>1. /\ tx.NDTR > 0 /\ tx' = [NDTR |-> tx.NDTR - 1, TCIF |-> tx.NDTR = 1]
        /\ UNCHANGED <<port, lock, rx, line, local, pc>>
    BY DEF TxByte
  <1>2. tx' \in [NDTR : 0..BufferSize, TCIF : BOOLEAN] /\ (tx'.TCIF => tx'.NDTR = 0)
    <2>1. CASE tx.NDTR = 1
      <3>1. (tx.NDTR = 1) = TRUE /\ tx.NDTR - 1 = 0
        BY <2>1
      <3>2. tx' = [NDTR |-> 0, TCIF |-> TRUE]
        BY <1>1, <3>1, Zenon
      <3> QED BY <1>0, <3>2
    <2>2. CASE tx.NDTR # 1
      <3>0. (tx.NDTR = 1) = FALSE
        BY <2>2
      <3>1. tx' = [NDTR |-> tx.NDTR - 1, TCIF |-> FALSE]
        BY <1>1, <3>0, Zenon
      <3>2. tx.NDTR - 1 \in 0..BufferSize
        BY <1>0, <1>1
      <3> QED BY <3>1, <3>2
    <2> QED BY <2>1, <2>2
  <1>3. TypeOK'
    BY <1>1, <1>2 DEF UInv, TypeOK, port, line, local
  <1>4. LockInv' /\ PathInv' /\ ReadyInv'
    BY <1>1 DEF UInv, LockInv, PathInv, ReadyInv, HoldsFirst, HoldsSecond, First, Second, port, line, local
  <1>5. TxInv'
    BY <1>0, <1>1, <1>2 DEF UInv, TxInv, port
  <1>6. RingInv'
    BY <1>1 DEF UInv, RingInv, DmaRead, Filled, port, line, local
  <1> QED BY <1>3, <1>4, <1>5, <1>6 DEF UInv

-------------------------------------------------------------------------------
(* The steps of a task *)

\* A step that leaves the transmitting stream alone, and brings nobody to the
\* place where a transaction begins.
LEMMA TxKept ==
    ASSUME UInv, UNCHANGED <<first_tx, tx>>,
           \A u \in Tasks : pc'[u] = "send" => pc[u] = "send"
    PROVE  TxInv'
  BY DEF UInv, TxInv

\* A step that leaves the ring and the reader alone.
LEMMA RingKept ==
    ASSUME UInv, UNCHANGED <<read_index, wrapped, rx, rx_buffer>>,
           \A u \in Tasks : pc'[u] = "copy" => pc[u] = "copy" /\ dma_read'[u] = dma_read[u]
    PROVE  RingInv'
  <1>1. DmaRead' = DmaRead /\ \A i : Filled(i)' = Filled(i)
    BY DEF DmaRead, Filled
  <1> QED BY <1>1 DEF UInv, RingInv

Places == {"idle", "first", "check", "second", "initialize", "unlock",
           "work", "items", "copy", "send", "out"}

\* A step of a task that only goes on to a place where it has the locks, and
\* has seen the port ready or not, as that place asks.
LEMMA GotoInv ==
    ASSUME UInv, NEW t \in Tasks, NEW p \in Places,
           pc' = [pc EXCEPT ![t] = p],
           UNCHANGED <<port, lock, rx, tx, line, local>>,
           p \notin {"copy", "send"},
           HoldsFirst(t)' => HoldsFirst(t),
           HoldsSecond(t)' => HoldsSecond(t) /\ pc[t] # "initialize",
           p \in {"check", "work"} => op[t] \notin {"init", "set_baud_rate"},
           p = "items" => op[t] = "read",
           p = "second" /\ op[t] \notin {"init", "set_baud_rate"} => ~ready,
           p = "initialize" /\ op[t] # "init" => ~ready,
           p \in {"work", "items"} => ready
    PROVE  UInv'
  <1>1. TypeOK'
    BY DEF UInv, TypeOK, Places, port, line, local
  <1>2. pc \in [Tasks -> Places] /\ op' = op /\ lock' = lock /\ ready' = ready /\ rx' = rx
    BY DEF UInv, TypeOK, Places, port, local
  <1>3. \A u \in Tasks : First(u)' = First(u) /\ Second(u)' = Second(u)
    BY <1>2 DEF First, Second
  <1>4. pc'[t] = p /\ \A u \in Tasks \ {t} : pc'[u] = pc[u]
    BY <1>2
  <1>5. \A u \in Tasks \ {t} : /\ HoldsFirst(u)' <=> HoldsFirst(u)
                               /\ HoldsSecond(u)' <=> HoldsSecond(u)
    BY <1>2, <1>4 DEF HoldsFirst, HoldsSecond
  <1>6. LockInv'
    BY <1>2, <1>3, <1>5 DEF UInv, LockInv
  <1>7. PathInv'
    BY <1>2, <1>4 DEF UInv, PathInv
  <1>8. ReadyInv'
    BY <1>2, <1>4, <1>5 DEF UInv, ReadyInv
  <1>9. TxInv' /\ RingInv'
    BY <1>4, TxKept, RingKept DEF port, line, local
  <1> QED BY <1>1, <1>6, <1>7, <1>8, <1>9 DEF UInv

LEMMA CallInv ==
    ASSUME UInv, NEW t \in Tasks, NEW o \in Operations, NEW n \in Nat, Call(t, o, n)
    PROVE  UInv'
  <1>1. /\ pc[t] = "idle" /\ pc' = [pc EXCEPT ![t] = "first"]
        /\ op' = [op EXCEPT ![t] = o] /\ len' = [len EXCEPT ![t] = n]
        /\ UNCHANGED <<port, lock, rx, tx, line, dma_read>>
    BY DEF Call, Goto
  <1>2. TypeOK'
    BY <1>1 DEF UInv, TypeOK, port, line
  <1>3. /\ pc'[t] = "first"
        /\ \A u \in Tasks \ {t} : pc'[u] = pc[u] /\ op'[u] = op[u]
    BY <1>1 DEF UInv, TypeOK
  <1>4. LockInv' /\ PathInv'
    BY <1>1, <1>3 DEF UInv, LockInv, PathInv, HoldsFirst, HoldsSecond, First, Second
  <1>5. ReadyInv'
    BY <1>1, <1>3 DEF UInv, ReadyInv, HoldsSecond, port
  <1>6. TxInv' /\ RingInv'
    BY <1>1, <1>3, TxKept, RingKept DEF port, line
  <1> QED BY <1>2, <1>4, <1>5, <1>6 DEF UInv

\* A lock that a task takes was nobody's, so every other task keeps its own.
LEMMA AcquireFirstInv ==
    ASSUME UInv, NEW t \in Tasks, AcquireFirst(t)
    PROVE  UInv'
  <1>1. /\ pc[t] = "first" /\ lock[First(t)] = NoTask
        /\ lock' = [lock EXCEPT ![First(t)] = t]
        /\ pc' = [pc EXCEPT ![t] = IF op[t] \in {"init", "set_baud_rate"} THEN "second" ELSE "check"]
        /\ UNCHANGED <<port, rx, tx, line, local>>
    BY DEF AcquireFirst, Goto
  <1>2. TypeOK'
    BY <1>1, Order DEF UInv, TypeOK, port, line, local
  <1>3. /\ pc'[t] = IF op[t] \in {"init", "set_baud_rate"} THEN "second" ELSE "check"
        /\ \A u \in Tasks \ {t} : pc'[u] = pc[u]
        /\ op' = op
    BY <1>1 DEF UInv, TypeOK, local
  <1>4. LockInv'
    <2>1. \A u \in Tasks : First(u)' = First(u) /\ Second(u)' = Second(u)
      BY <1>3 DEF First, Second
    <2>2. lock'[First(t)] = t /\ \A l \in {"read_lock", "write_lock"} : l # First(t) => lock'[l] = lock[l]
      BY <1>1, Order DEF UInv, TypeOK
    <2>3. ~HoldsSecond(t)'
      BY <1>3 DEF HoldsSecond
    <2>4. \A u \in Tasks \ {t} : HoldsFirst(u)' = HoldsFirst(u) /\ HoldsSecond(u)' = HoldsSecond(u)
      BY <1>3 DEF HoldsFirst, HoldsSecond
    <2>5. \A u \in Tasks \ {t} : /\ HoldsFirst(u)' => lock'[First(u)] = u
                                 /\ HoldsSecond(u)' => lock'[Second(u)] = u
      BY <1>1, <2>2, <2>4, Order, UartAssumption DEF UInv, LockInv
    <2> QED BY <2>1, <2>2, <2>3, <2>5 DEF LockInv
  <1>5. PathInv'
    BY <1>3 DEF UInv, PathInv
  <1>6. ReadyInv'
    BY <1>1, <1>3 DEF UInv, ReadyInv, HoldsSecond, port
  <1>7. TxInv' /\ RingInv'
    BY <1>1, <1>3, TxKept, RingKept DEF port, line, local
  <1> QED BY <1>2, <1>4, <1>5, <1>6, <1>7 DEF UInv

LEMMA AcquireSecondInv ==
    ASSUME UInv, NEW t \in Tasks, AcquireSecond(t)
    PROVE  UInv'
  <1>1. /\ pc[t] = "second" /\ lock[Second(t)] = NoTask
        /\ lock' = [lock EXCEPT ![Second(t)] = t]
        /\ pc' = [pc EXCEPT ![t] = IF op[t] = "set_baud_rate" /\ ready THEN "out" ELSE "initialize"]
        /\ UNCHANGED <<port, rx, tx, line, local>>
    BY DEF AcquireSecond, Goto
  <1>2. TypeOK'
    BY <1>1, Order DEF UInv, TypeOK, port, line, local
  <1>3. /\ pc'[t] = IF op[t] = "set_baud_rate" /\ ready THEN "out" ELSE "initialize"
        /\ \A u \in Tasks \ {t} : pc'[u] = pc[u]
        /\ op' = op
    BY <1>1 DEF UInv, TypeOK, local
  <1>4. LockInv'
    <2>1. \A u \in Tasks : First(u)' = First(u) /\ Second(u)' = Second(u)
      BY <1>3 DEF First, Second
    <2>2. lock'[Second(t)] = t /\ \A l \in {"read_lock", "write_lock"} : l # Second(t) => lock'[l] = lock[l]
      BY <1>1, Order DEF UInv, TypeOK
    <2>3. lock'[First(t)] = t
      BY <1>1, <2>2, Order DEF UInv, LockInv, HoldsFirst
    <2>4. \A u \in Tasks \ {t} : HoldsFirst(u)' = HoldsFirst(u) /\ HoldsSecond(u)' = HoldsSecond(u)
      BY <1>3 DEF HoldsFirst, HoldsSecond
    <2>5. \A u \in Tasks \ {t} : /\ HoldsFirst(u)' => lock'[First(u)] = u
                                 /\ HoldsSecond(u)' => lock'[Second(u)] = u
      BY <1>1, <2>2, <2>4, Order, UartAssumption DEF UInv, LockInv
    <2> QED BY <2>1, <2>2, <2>3, <2>5 DEF LockInv
  <1>5. PathInv'
    BY <1>3 DEF UInv, PathInv
  <1>6. ReadyInv'
    BY <1>1, <1>3 DEF UInv, ReadyInv, HoldsSecond, port
  <1>7. TxInv' /\ RingInv'
    BY <1>1, <1>3, TxKept, RingKept DEF port, line, local
  <1> QED BY <1>2, <1>4, <1>5, <1>6, <1>7 DEF UInv

LEMMA CheckInv ==
    ASSUME UInv, NEW t \in Tasks, Check(t)
    PROVE  UInv'
  <1>1. /\ pc[t] = "check"
        /\ pc' = [pc EXCEPT ![t] = IF ready THEN "work" ELSE "second"]
        /\ UNCHANGED <<port, lock, rx, tx, line, local>>
    BY DEF Check, Goto
  <1>2. op[t] \notin {"init", "set_baud_rate"} /\ HoldsFirst(t)
    BY <1>1 DEF UInv, PathInv, HoldsFirst
  <1>3. ~HoldsSecond(t)'
    BY <1>1 DEF UInv, TypeOK, HoldsSecond
  <1> DEFINE p == IF ready THEN "work" ELSE "second"
  <1>4. p \in Places /\ p \in {"work", "second"} /\ (p = "work" <=> ready)
    BY DEF Places
  <1>5. pc' = [pc EXCEPT ![t] = p]
    BY <1>1
  <1> HIDE DEF p
  <1> QED BY <1>1, <1>2, <1>3, <1>4, <1>5, GotoInv

\* The task that initializes has both locks: nobody is between the check of
\* ready and the second lock, and nobody else initializes.
LEMMA InitializeInv ==
    ASSUME UInv, NEW t \in Tasks, stm32f4_uart_initialize(t)
    PROVE  UInv'
  <1>0. BufferSize \in Nat \ {0}
    BY UartAssumption
  <1>1. /\ pc[t] = "initialize"
        /\ rx' = [NDTR |-> BufferSize, TCIF |-> FALSE]
        /\ ready' = TRUE
        /\ pc' = [pc EXCEPT ![t] = IF op[t] = "set_baud_rate" THEN "out" ELSE "unlock"]
        /\ UNCHANGED <<first_tx, read_index, wrapped, lock, tx, line, local>>
    BY DEF stm32f4_uart_initialize, Goto, begin_transaction
  <1>2. TypeOK'
    <2>1. rx' \in [NDTR : 0..BufferSize, TCIF : BOOLEAN]
      BY <1>0, <1>1
    <2> QED BY <1>1, <2>1 DEF UInv, TypeOK, line, local
  <1>3. /\ pc'[t] = IF op[t] = "set_baud_rate" THEN "out" ELSE "unlock"
        /\ \A u \in Tasks \ {t} : pc'[u] = pc[u]
        /\ op' = op /\ lock' = lock /\ dma_read' = dma_read
    BY <1>1 DEF UInv, TypeOK, local
  <1>4. \A l \in {"read_lock", "write_lock"} : lock[l] = t
    BY <1>1, Order DEF UInv, LockInv, HoldsFirst, HoldsSecond
  <1>5. \A u \in Tasks \ {t} : ~HoldsFirst(u)
    BY <1>4, Order DEF UInv, LockInv
  <1>6. LockInv'
    BY <1>1, <1>3, <1>4, Order DEF UInv, LockInv, HoldsFirst, HoldsSecond, First, Second
  <1>7. PathInv'
    BY <1>3 DEF UInv, PathInv
  <1>8. ReadyInv'
    BY <1>0, <1>1, <1>3, <1>5 DEF UInv, ReadyInv, HoldsFirst
  <1>9. TxInv'
    BY <1>1, <1>3, TxKept
  <1>10. RingInv'
    <2>1. rx'.NDTR = BufferSize /\ rx'.TCIF = FALSE
      BY <1>1
    <2>2. DmaRead' = 0 /\ \A i : Filled(i)' = Filled(i)
      BY <1>0, <1>1, <2>1 DEF DmaRead, Filled, line
    <2>3. \A i \in Index : ~(i < 0)
      BY <1>0 DEF Index
    <2> QED BY <1>1, <1>3, <2>1, <2>2, <2>3 DEF UInv, RingInv
  <1> QED BY <1>2, <1>6, <1>7, <1>8, <1>9, <1>10 DEF UInv


\* A lock that a task releases was its own, so every other task keeps its own.
LEMMA ReleaseSecondInv ==
    ASSUME UInv, NEW t \in Tasks, ReleaseSecond(t)
    PROVE  UInv'
  <1>0. BufferSize \in Nat \ {0}
    BY UartAssumption
  <1>1. /\ pc[t] = "unlock"
        /\ lock' = [lock EXCEPT ![Second(t)] = NoTask]
        /\ UNCHANGED <<port, rx, tx, line>>
        /\ ready
    BY DEF ReleaseSecond, UInv, ReadyInv, HoldsSecond
  <1>2. \A l \in {"read_lock", "write_lock"} : l # Second(t) => lock'[l] = lock[l]
    BY <1>1, Order DEF UInv, TypeOK
  <1>3. /\ pc'[t] = CASE op[t] = "init" -> "out" [] op[t] = "set_baud_rate" -> "idle" [] OTHER -> "work"
        /\ op[t] # "set_baud_rate" => op' = op /\ dma_read' = dma_read
        /\ \A u \in Tasks \ {t} : /\ pc'[u] = pc[u] /\ op'[u] = op[u] /\ dma_read'[u] = dma_read[u]
    BY DEF ReleaseSecond, Goto, Return, UInv, TypeOK, local
  <1>4. TypeOK'
    <2>1. lock' \in [{"read_lock", "write_lock"} -> Tasks \cup {NoTask}]
      BY <1>1 DEF UInv, TypeOK
    <2>2. \E p \in Places : pc' = [pc EXCEPT ![t] = p]
      BY DEF ReleaseSecond, Goto, Return, Places
    <2>3. \/ op' = op /\ len' = len /\ dma_read' = dma_read
          \/ /\ op' = [op EXCEPT ![t] = "init"] /\ len' = [len EXCEPT ![t] = 0]
             /\ dma_read' = [dma_read EXCEPT ![t] = 0]
      BY DEF ReleaseSecond, Return, local
    <2>4. /\ op' \in [Tasks -> Operations]
          /\ len' \in [Tasks -> Nat] /\ dma_read' \in [Tasks -> Index]
      <3>1. "init" \in Operations /\ 0 \in Nat /\ 0 \in Index
        BY <1>0 DEF Operations, Index
      <3> QED BY <2>3, <3>1 DEF UInv, TypeOK
    <2>5. pc' \in [Tasks -> Places]
      BY <2>2 DEF UInv, TypeOK, Places
    <2>6. UNCHANGED <<ready, first_tx, read_index, wrapped, rx, tx, rx_buffer, received, consumed>>
      BY <1>1 DEF port, line
    <2> QED BY <2>1, <2>4, <2>5, <2>6 DEF UInv, TypeOK, Places
  <1>5. LockInv'
    <2>1. \A u \in Tasks \ {t} : /\ HoldsFirst(u)' = HoldsFirst(u) /\ HoldsSecond(u)' = HoldsSecond(u)
                                 /\ First(u)' = First(u) /\ Second(u)' = Second(u)
      BY <1>3 DEF HoldsFirst, HoldsSecond, First, Second
    <2>2. HoldsSecond(t)
      BY <1>1 DEF HoldsSecond
    <2>3. \A u \in Tasks \ {t} : /\ HoldsFirst(u)' => lock'[First(u)] = u
                                 /\ HoldsSecond(u)' => lock'[Second(u)] = u
      BY <1>2, <2>1, <2>2, Order DEF UInv, LockInv
    <2>4. ~HoldsSecond(t)'
      BY <1>3 DEF HoldsSecond
    <2>5. HoldsFirst(t)' => lock'[First(t)] = t /\ First(t)' = First(t)
      BY <1>1, <1>2, <1>3, Order DEF UInv, LockInv, HoldsFirst, First
    <2> QED BY <2>1, <2>3, <2>4, <2>5 DEF LockInv
  <1>6. PathInv'
    BY <1>3 DEF UInv, PathInv
  <1>7. ReadyInv'
    BY <1>1, <1>3 DEF UInv, ReadyInv, HoldsSecond, port
  <1>8. TxInv' /\ RingInv'
    BY <1>1, <1>3, TxKept, RingKept DEF port, line
  <1> QED BY <1>4, <1>5, <1>6, <1>7, <1>8 DEF UInv

LEMMA OutInv ==
    ASSUME UInv, NEW t \in Tasks, Out(t)
    PROVE  UInv'
  <1>0. BufferSize \in Nat \ {0}
    BY UartAssumption
  <1>1. /\ pc[t] = "out"
        /\ lock' = [lock EXCEPT ![First(t)] = NoTask]
        /\ UNCHANGED <<port, rx, tx, line>>
    BY DEF Out
  <1>2. \A l \in {"read_lock", "write_lock"} : l # First(t) => lock'[l] = lock[l]
    BY <1>1, Order DEF UInv, TypeOK
  <1>3. /\ pc'[t] = IF op[t] = "set_baud_rate" THEN "unlock" ELSE "idle"
        /\ op[t] = "set_baud_rate" => op' = op /\ dma_read' = dma_read
        /\ \A u \in Tasks \ {t} : /\ pc'[u] = pc[u] /\ op'[u] = op[u] /\ dma_read'[u] = dma_read[u]
    BY DEF Out, Goto, Return, UInv, TypeOK, local
  <1>4. TypeOK'
    <2>1. lock' \in [{"read_lock", "write_lock"} -> Tasks \cup {NoTask}]
      BY <1>1 DEF UInv, TypeOK
    <2>2. \E p \in Places : pc' = [pc EXCEPT ![t] = p]
      BY DEF Out, Goto, Return, Places
    <2>3. \/ op' = op /\ len' = len /\ dma_read' = dma_read
          \/ /\ op' = [op EXCEPT ![t] = "init"] /\ len' = [len EXCEPT ![t] = 0]
             /\ dma_read' = [dma_read EXCEPT ![t] = 0]
      BY DEF Out, Return, local
    <2>4. /\ op' \in [Tasks -> Operations]
          /\ len' \in [Tasks -> Nat] /\ dma_read' \in [Tasks -> Index]
      <3>1. "init" \in Operations /\ 0 \in Nat /\ 0 \in Index
        BY <1>0 DEF Operations, Index
      <3> QED BY <2>3, <3>1 DEF UInv, TypeOK
    <2>5. pc' \in [Tasks -> Places]
      BY <2>2 DEF UInv, TypeOK, Places
    <2>6. UNCHANGED <<ready, first_tx, read_index, wrapped, rx, tx, rx_buffer, received, consumed>>
      BY <1>1 DEF port, line
    <2> QED BY <2>1, <2>4, <2>5, <2>6 DEF UInv, TypeOK, Places
  <1>5. LockInv'
    <2>1. \A u \in Tasks \ {t} : /\ HoldsFirst(u)' = HoldsFirst(u) /\ HoldsSecond(u)' = HoldsSecond(u)
                                 /\ First(u)' = First(u) /\ Second(u)' = Second(u)
      BY <1>3 DEF HoldsFirst, HoldsSecond, First, Second
    <2>2. HoldsFirst(t)
      BY <1>1 DEF HoldsFirst
    <2>3. \A u \in Tasks \ {t} : /\ HoldsFirst(u)' => lock'[First(u)] = u
                                 /\ HoldsSecond(u)' => lock'[Second(u)] = u
      BY <1>2, <2>1, <2>2, Order DEF UInv, LockInv
    <2>4. ~HoldsFirst(t)'
      BY <1>3 DEF HoldsFirst
    <2>5. HoldsSecond(t)' => lock'[Second(t)] = t /\ Second(t)' = Second(t)
      BY <1>1, <1>2, <1>3, Order DEF UInv, LockInv, HoldsSecond, Second
    <2> QED BY <2>1, <2>3, <2>4, <2>5 DEF LockInv
  <1>6. PathInv'
    BY <1>3 DEF UInv, PathInv
  <1>7. ReadyInv'
    BY <1>1, <1>3 DEF UInv, ReadyInv, HoldsSecond, port
  <1>8. TxInv' /\ RingInv'
    BY <1>1, <1>3, TxKept, RingKept DEF port, line
  <1> QED BY <1>4, <1>5, <1>6, <1>7, <1>8 DEF UInv

LEMMA GetBaudRateInv ==
    ASSUME UInv, NEW t \in Tasks, stm32f4_uart_get_baud_rate(t)
    PROVE  UInv'
  <1>1. /\ pc[t] = "work" /\ op[t] = "get_baud_rate" /\ pc' = [pc EXCEPT ![t] = "out"]
        /\ UNCHANGED <<port, lock, rx, tx, line, local>>
    BY DEF stm32f4_uart_get_baud_rate, Goto
  <1>2. HoldsFirst(t) /\ ~HoldsSecond(t)'
    BY <1>1 DEF HoldsFirst, HoldsSecond, local
  <1>3. "out" \in Places
    BY DEF Places
  <1> QED BY <1>1, <1>2, <1>3, GotoInv

-------------------------------------------------------------------------------
(* read *)

\* A step of a task that keeps its locks, and that changes neither the locks
\* nor ready, nor where anybody else is.
LEMMA StayInv ==
    ASSUME UInv, NEW t \in Tasks, NEW p \in Places,
           pc' = [pc EXCEPT ![t] = p],
           UNCHANGED <<ready, lock, op>>,
           rx.NDTR > 0 => rx'.NDTR > 0,
           pc[t] \in {"work", "items", "copy", "send"},
           op[t] \in {"read", "write"},
           p = "items" => op[t] = "read", p = "copy" => op[t] = "read",
           p = "send" => op[t] = "write",
           p \in {"items", "copy", "send", "out"}
    PROVE  LockInv' /\ PathInv' /\ ReadyInv'
  <1>1. pc'[t] = p /\ \A u \in Tasks \ {t} : pc'[u] = pc[u]
    BY DEF UInv, TypeOK
  <1>2. \A u \in Tasks : First(u)' = First(u) /\ Second(u)' = Second(u)
    BY DEF First, Second
  <1>3. \A u \in Tasks : /\ HoldsFirst(u)' <=> HoldsFirst(u)
                         /\ HoldsSecond(u)' <=> HoldsSecond(u)
    BY <1>1 DEF HoldsFirst, HoldsSecond
  <1>4. LockInv'
    BY <1>2, <1>3 DEF UInv, LockInv
  <1>5. PathInv'
    BY <1>1 DEF UInv, PathInv
  <1>6. ready
    BY DEF UInv, ReadyInv
  <1>7. ReadyInv'
    BY <1>1, <1>6, <1>3 DEF UInv, ReadyInv
  <1> QED BY <1>4, <1>5, <1>7

\* All of the ring has been received into when the reader learns, now or for
\* the second time, that it started again.
LEMMA ReadWrappedInv ==
    ASSUME UInv, NEW t \in Tasks, ReadWrapped(t)
    PROVE  UInv'
  <1>0. /\ BufferSize \in Nat \ {0} /\ rx \in [NDTR : 0..BufferSize, TCIF : BOOLEAN]
        /\ read_index \in Index /\ dma_read \in [Tasks -> Index] /\ wrapped \in BOOLEAN
    BY UartAssumption DEF UInv, TypeOK
  <1>1. /\ pc[t] = "work" /\ op[t] = "read"
        /\ rx' = [rx EXCEPT !.TCIF = FALSE]
        /\ wrapped' = (wrapped # rx.TCIF)
        /\ read_index' = IF rx.TCIF /\ wrapped THEN 0 ELSE read_index
        /\ pc' = [pc EXCEPT ![t] = "items"]
        /\ UNCHANGED <<ready, first_tx, lock, tx, line, local>>
    BY DEF ReadWrapped, Goto, transaction_complete
  <1>2. rx'.NDTR = rx.NDTR /\ rx'.TCIF = FALSE /\ rx' \in [NDTR : 0..BufferSize, TCIF : BOOLEAN]
    BY <1>0, <1>1
  <1>3. wrapped' \in BOOLEAN /\ (wrapped' => wrapped \/ rx.TCIF)
    <2>1. rx.TCIF \in BOOLEAN
      BY <1>0
    <2> QED BY <1>0, <1>1, <2>1, Zenon
  <1>4. TypeOK'
    <2>1. 0 \in Index
      BY <1>0 DEF Index
    <2>2. read_index' \in Index
      BY <1>0, <1>1, <2>1
    <2> QED BY <1>1, <1>2, <1>3, <2>2 DEF UInv, TypeOK, line, local
  <1>5. LockInv' /\ PathInv' /\ ReadyInv'
    BY <1>1, <1>2, StayInv DEF Places, local
  <1>6. pc'[t] = "items" /\ \A u \in Tasks \ {t} : pc'[u] = pc[u]
    BY <1>1 DEF UInv, TypeOK
  <1>7. TxInv'
    BY <1>1, <1>6, TxKept
  <1>8. RingInv'
    <2>1. DmaRead' = DmaRead /\ \A i : Filled(i)' = Filled(i)
      BY <1>1, <1>2 DEF DmaRead, Filled, line
    <2>2. \A u \in Tasks : 0 <= dma_read[u]
      BY <1>0 DEF Index
    <2>3. dma_read' = dma_read
      BY <1>1 DEF local
    <2> QED BY <1>1, <1>2, <1>3, <1>6, <2>1, <2>2, <2>3 DEF UInv, RingInv
  <1> QED BY <1>4, <1>5, <1>7, <1>8 DEF UInv

\* The reader stays behind the DMA, or on a ring that is all received into.
LEMMA ItemsRemainingInv ==
    ASSUME UInv, NEW t \in Tasks, items_remaining(t)
    PROVE  UInv'
  <1>0. /\ BufferSize \in Nat \ {0} /\ rx \in [NDTR : 0..BufferSize, TCIF : BOOLEAN]
        /\ read_index \in Index /\ dma_read \in [Tasks -> Index] /\ wrapped \in BOOLEAN
    BY UartAssumption DEF UInv, TypeOK
  <1>1. /\ pc[t] = "items" /\ op[t] = "read" /\ ready
        /\ dma_read' = [dma_read EXCEPT ![t] = DmaRead]
        /\ UNCHANGED <<ready, first_tx, lock, rx, tx, line, op, len>>
    BY DEF items_remaining, UInv, PathInv, ReadyInv
  <1>2. rx.NDTR > 0 /\ DmaRead \in Index
    BY <1>0, <1>1 DEF UInv, ReadyInv, DmaRead, Index
  <1>3. /\ \/ pc' = [pc EXCEPT ![t] = "out"]
           \/ pc' = [pc EXCEPT ![t] = "copy"]
        /\ \/ read_index' = 0 /\ wrapped' = FALSE
           \/ read_index' = read_index /\ wrapped' = wrapped /\ (wrapped \/ read_index <= DmaRead)
    BY <1>0, <1>2 DEF items_remaining, Goto, Behind, Ahead, Index
  <1>4. read_index' \in Index /\ wrapped' \in BOOLEAN /\ (wrapped' => wrapped)
    <2>1. 0 \in Index
      BY <1>0 DEF Index
    <2>2. CASE read_index' = 0 /\ wrapped' = FALSE
      BY <2>1, <2>2
    <2>3. CASE read_index' = read_index /\ wrapped' = wrapped
      BY <1>0, <2>3
    <2> QED BY <1>3, <2>2, <2>3
  <1>5. TypeOK'
    BY <1>1, <1>2, <1>3, <1>4 DEF UInv, TypeOK, line
  <1>6. LockInv' /\ PathInv' /\ ReadyInv'
    BY <1>1, <1>3, StayInv DEF Places
  <1>7. /\ pc'[t] \in {"out", "copy"} /\ \A u \in Tasks \ {t} : pc'[u] = pc[u] /\ dma_read'[u] = dma_read[u]
        /\ dma_read'[t] = DmaRead
    BY <1>1, <1>3 DEF UInv, TypeOK
  <1>8. TxInv'
    BY <1>1, <1>7, TxKept
  <1>9. RingInv'
    <2>1. DmaRead' = DmaRead /\ \A i : Filled(i)' = Filled(i)
      BY <1>1 DEF DmaRead, Filled, line
    <2>2. 0 <= DmaRead /\ \A u \in Tasks : 0 <= dma_read[u]
      BY <1>0, <1>2 DEF Index
    <2>3. \A i \in Index : i < DmaRead => Filled(i)
      BY <1>2 DEF UInv, RingInv
    <2>4. wrapped => \A i \in Index : Filled(i)
      BY DEF UInv, RingInv
    <2>5. read_index' <= DmaRead \/ \A i \in Index : Filled(i)
      BY <1>3, <2>2, <2>4
    <2>6. \A u \in Tasks \ {t} : pc'[u] = "copy" =>
             /\ \A i \in Index : i < dma_read'[u] => Filled(i)
             /\ read_index' <= dma_read'[u] \/ \A i \in Index : Filled(i)
      BY <1>3, <1>7, <2>2 DEF UInv, RingInv
    <2>7. rx'.TCIF \/ wrapped' => \A i \in Index : Filled(i)
      BY <1>1, <1>4 DEF UInv, RingInv
    <2> QED BY <1>7, <2>1, <2>3, <2>5, <2>6, <2>7 DEF RingInv
  <1> QED BY <1>5, <1>6, <1>8, <1>9 DEF UInv

\* The place after i in the ring.
LEMMA NextPlace ==
    ASSUME NEW i \in Index
    PROVE  (i + 1) % BufferSize = IF i + 1 = BufferSize THEN 0 ELSE i + 1
  <1>1. BufferSize \in Nat \ {0} /\ i \in 0..(BufferSize - 1)
    BY UartAssumption DEF Index
  <1>2. CASE i + 1 = BufferSize
    BY <1>1, <1>2
  <1>3. CASE i + 1 < BufferSize
    BY <1>1, <1>3
  <1> QED BY <1>1, <1>2, <1>3

\* One byte is copied; the read_lock keeps every other reader away.
LEMMA CopyInv ==
    ASSUME UInv, NEW t \in Tasks, Copy(t)
    PROVE  UInv'
  <1>0. /\ BufferSize \in Nat \ {0} /\ rx_buffer \in [Index -> 0..MaxBytes]
        /\ read_index \in Index /\ dma_read \in [Tasks -> Index] /\ wrapped \in BOOLEAN
        /\ len \in [Tasks -> Nat]
    BY UartAssumption DEF UInv, TypeOK
  <1>1. /\ pc[t] = "copy" /\ len[t] > 0 /\ read_index # dma_read[t] /\ op[t] = "read"
        /\ consumed' = rx_buffer[read_index]
        /\ read_index' = (read_index + 1) % BufferSize
        /\ wrapped' = (wrapped /\ read_index + 1 # BufferSize)
        /\ len' = [len EXCEPT ![t] = len[t] - 1]
        /\ UNCHANGED <<ready, first_tx, lock, rx, tx, rx_buffer, received, op, pc, dma_read>>
    BY DEF Copy, UInv, PathInv
  <1>2. read_index' = IF read_index + 1 = BufferSize THEN 0 ELSE read_index + 1
    BY <1>0, <1>1, NextPlace
  <1>3. /\ read_index' \in Index /\ wrapped' \in BOOLEAN /\ (wrapped' => wrapped)
        /\ consumed' \in 0..MaxBytes /\ len' \in [Tasks -> Nat]
    <2>1. read_index' \in Index
      BY <1>0, <1>2 DEF Index
    <2>2. wrapped' \in BOOLEAN /\ (wrapped' => wrapped)
      BY <1>0, <1>1
    <2>3. consumed' \in 0..MaxBytes
      BY <1>0, <1>1
    <2>4. len[t] - 1 \in Nat
      BY <1>0, <1>1
    <2> QED BY <1>0, <1>1, <2>1, <2>2, <2>3, <2>4
  <1>4. TypeOK'
    BY <1>1, <1>3 DEF UInv, TypeOK
  <1>5. LockInv' /\ PathInv' /\ ReadyInv' /\ TxInv'
    BY <1>1 DEF UInv, LockInv, PathInv, ReadyInv, TxInv, HoldsFirst, HoldsSecond, First, Second
  <1>6. RingInv'
    <2>1. DmaRead' = DmaRead /\ \A i : Filled(i)' = Filled(i)
      BY <1>1 DEF DmaRead, Filled
    <2>2. \A u \in Tasks \ {t} : pc[u] # "copy"
      BY <1>1, Exclusion DEF UInv, HoldsFirst, First, PathInv
    <2>3. read_index <= dma_read[t] \/ \A i \in Index : Filled(i)
      BY <1>1 DEF UInv, RingInv
    <2>4. read_index' <= dma_read[t] \/ \A i \in Index : Filled(i)
      BY <1>0, <1>1, <1>2, <2>3 DEF Index
    <2> QED BY <1>1, <1>3, <2>1, <2>2, <2>4 DEF UInv, RingInv
  <1> QED BY <1>4, <1>5, <1>6 DEF UInv

LEMMA CopyEndsInv ==
    ASSUME UInv, NEW t \in Tasks, CopyEnds(t)
    PROVE  UInv'
  <1>1. /\ pc[t] = "copy" /\ op[t] = "read" /\ pc' = [pc EXCEPT ![t] = "out"]
        /\ UNCHANGED <<port, lock, rx, tx, line, local>>
    BY DEF CopyEnds, Goto, UInv, PathInv
  <1>2. HoldsFirst(t) /\ ~HoldsSecond(t)'
    BY <1>1 DEF HoldsFirst, HoldsSecond, local
  <1>3. "out" \in Places
    BY DEF Places
  <1> QED BY <1>1, <1>2, <1>3, GotoInv

-------------------------------------------------------------------------------
(* write *)

LEMMA WriteCompleteInv ==
    ASSUME UInv, NEW t \in Tasks, WriteComplete(t)
    PROVE  UInv'
  <1>0. tx \in [NDTR : 0..BufferSize, TCIF : BOOLEAN] /\ first_tx \in BOOLEAN
    BY DEF UInv, TypeOK
  <1>1. /\ pc[t] = "work" /\ op[t] = "write"
        /\ first_tx' = FALSE
        /\ tx' = IF first_tx THEN tx ELSE [tx EXCEPT !.TCIF = FALSE]
        /\ pc' = [pc EXCEPT ![t] = IF first_tx \/ tx.TCIF THEN "send" ELSE "out"]
        /\ UNCHANGED <<ready, read_index, wrapped, lock, rx, line, local>>
    BY DEF WriteComplete, Goto, transaction_complete
  <1>2. /\ tx'.NDTR = tx.NDTR /\ (tx'.TCIF => tx.TCIF)
        /\ tx' \in [NDTR : 0..BufferSize, TCIF : BOOLEAN]
    BY <1>0, <1>1
  <1>3. /\ pc'[t] = IF first_tx \/ tx.TCIF THEN "send" ELSE "out"
        /\ \A u \in Tasks \ {t} : pc'[u] = pc[u]
    BY <1>1 DEF UInv, TypeOK
  <1>4. TypeOK'
    BY <1>1, <1>2 DEF UInv, TypeOK, line, local
  <1>5. LockInv' /\ PathInv' /\ ReadyInv'
    BY <1>1, StayInv DEF Places, local
  <1>6. TxInv'
    BY <1>1, <1>2, <1>3 DEF UInv, TxInv
  <1>7. RingInv'
    BY <1>1, <1>3, RingKept DEF line, local
  <1> QED BY <1>4, <1>5, <1>6, <1>7 DEF UInv

\* The write_lock keeps every other writer away from the place where a
\* transaction begins.
LEMMA WriteSendInv ==
    ASSUME UInv, NEW t \in Tasks, WriteSend(t)
    PROVE  UInv'
  <1>0. BufferSize \in Nat \ {0} /\ len[t] \in Nat
    BY UartAssumption DEF UInv, TypeOK
  <1>1. /\ pc[t] = "send" /\ op[t] = "write" /\ ~first_tx
        /\ tx' = [NDTR |-> IF len[t] < BufferSize THEN len[t] ELSE BufferSize, TCIF |-> FALSE]
        /\ pc' = [pc EXCEPT ![t] = "out"]
        /\ UNCHANGED <<port, lock, rx, line, local>>
    BY DEF WriteSend, Goto, begin_transaction, UInv, PathInv, TxInv
  <1>2. tx' \in [NDTR : 0..BufferSize, TCIF : BOOLEAN] /\ tx'.TCIF = FALSE
    <2>1. (IF len[t] < BufferSize THEN len[t] ELSE BufferSize) \in 0..BufferSize
      BY <1>0
    <2> QED BY <1>1, <2>1
  <1>3. pc'[t] = "out" /\ \A u \in Tasks \ {t} : pc'[u] = pc[u]
    BY <1>1 DEF UInv, TypeOK
  <1>4. TypeOK'
    BY <1>1, <1>2 DEF UInv, TypeOK, port, line, local
  <1>5. LockInv' /\ PathInv' /\ ReadyInv'
    BY <1>1, StayInv DEF Places, port, local
  <1>6. \A u \in Tasks \ {t} : pc[u] # "send"
    BY <1>1, Exclusion DEF UInv, HoldsFirst, First, PathInv
  <1>7. TxInv'
    BY <1>1, <1>2, <1>3, <1>6 DEF TxInv, port
  <1>8. RingInv'
    BY <1>1, <1>3, RingKept DEF port, line, local
  <1> QED BY <1>4, <1>5, <1>7, <1>8 DEF UInv

-------------------------------------------------------------------------------
(* The theorems *)

LEMMA UartNext ==
    ASSUME UInv, Next
    PROVE  UInv'
  <1>1. CASE RxByte
    BY <1>1, RxByteInv
  <1>2. CASE TxByte
    BY <1>2, TxByteInv
  <1>3. ASSUME NEW t \in Tasks,
               \/ \E o \in {"init", "get_baud_rate", "set_baud_rate"} : Call(t, o, 0)
               \/ \E o \in {"read", "write"}, n \in Lengths : Call(t, o, n)
        PROVE  UInv'
    BY <1>3, CallInv, UartAssumption DEF Operations
  <1>4. ASSUME NEW t \in Tasks, Acquire(t)
        PROVE  UInv'
    BY <1>4, AcquireFirstInv, AcquireSecondInv DEF Acquire
  <1>5. ASSUME NEW t \in Tasks, Work(t)
        PROVE  UInv'
    BY <1>5, CheckInv, InitializeInv, ReleaseSecondInv, OutInv, GetBaudRateInv, ReadWrappedInv,
       ItemsRemainingInv, CopyInv, CopyEndsInv, WriteCompleteInv, WriteSendInv
       DEF Work, stm32f4_uart_read, stm32f4_uart_write
  <1> QED BY <1>1, <1>2, <1>3, <1>4, <1>5 DEF Next

LEMMA UartStutter ==
    ASSUME UInv, UNCHANGED vars
    PROVE  UInv'
  BY DEF vars, port, line, local, UInv, TypeOK, LockInv, PathInv, ReadyInv, TxInv, RingInv,
         HoldsFirst, HoldsSecond, First, Second, DmaRead, Filled

\* The operations of the UART keep the locks, ready, the streams and the ring
\* consistent with one another, however they interleave with each other and with
\* the DMA (struct stm32f4_uart and its functions in uart.c).
THEOREM UartInvariance == Spec => []UInv
  <1>1. UInv /\ [Next]_vars => UInv'
    BY UartNext, UartStutter
  <1> QED BY <1>1, UartInit, PTL DEF Spec

\* No operation but init initializes a port that is ready.
THEOREM PortsAreInitializedOnce == Spec => []InitializedOnce
  <1>1. UInv => InitializedOnce
    BY DEF UInv, ReadyInv, InitializedOnce
  <1> QED BY <1>1, UartInvariance, PTL

\* Two tasks that wait for each other's lock took them in the two orders, and one
\* of them has seen that the port is not ready.
THEOREM ReadyPortsDoNotDeadlock == Spec => []DeadlockBeforeReady
  <1>1. ASSUME UInv, Deadlock
        PROVE  ~ready
    <2>1. PICK t \in Tasks, u \in Tasks :
             /\ t # u
             /\ pc[t] = "second" /\ lock[Second(t)] = u
             /\ pc[u] = "second" /\ lock[Second(u)] = t
      BY <1>1 DEF Deadlock
    <2>2. lock[First(t)] = t /\ lock[First(u)] = u
      BY <1>1, <2>1 DEF UInv, LockInv, HoldsFirst
    <2>3. First(t) # First(u)
      BY <2>1, <2>2
    <2>4. op[t] = "write" \/ op[u] = "write"
      BY <2>3 DEF First
    <2> QED BY <1>1, <2>1, <2>4 DEF UInv, ReadyInv
  <1>2. UInv => DeadlockBeforeReady
    BY <1>1 DEF DeadlockBeforeReady
  <1> QED BY <1>2, UartInvariance, PTL

\* A write begins no transaction while another is being sent, and a read returns
\* only what has been received.
THEOREM BytesAreKept == Spec => []BytesKept
  <1>1. ASSUME UInv, NEW t \in Tasks, pc[t] = "copy", read_index # dma_read[t]
        PROVE  rx_buffer[read_index] # 0
    <2>1. /\ read_index \in Index /\ dma_read[t] \in Index
          /\ \A i \in Index : i < dma_read[t] => Filled(i)
          /\ read_index <= dma_read[t] \/ \A i \in Index : Filled(i)
      BY <1>1 DEF UInv, TypeOK, RingInv
    <2>2. Filled(read_index)
      BY <1>1, <2>1, UartAssumption DEF Index
    <2> QED BY <2>2 DEF Filled
  <1>2. UInv => BytesKept
    BY <1>1 DEF UInv, TxInv, BytesKept
  <1> QED BY <1>2, UartInvariance, PTL
================================================================================
