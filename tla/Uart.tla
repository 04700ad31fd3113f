--------------------------------- MODULE Uart ---------------------------------
(***************************************************************************)
(* The STM32F4 UART driver (arch/armv7m/chip/stm32f40x/uart.c) with the    *)
(* two DMA streams it uses (dma.c): the operations of uart_ops, called by  *)
(* several tasks while the DMA receives into a ring and transmits.         *)
(*                                                                         *)
(* A received byte is its number, so that lost, repeated and stale bytes   *)
(* can be told apart; the bytes to transmit, baud rates and addresses are  *)
(* left out.  The peripheral's clock can be enabled and writes are not     *)
(* empty.                                                                  *)
(***************************************************************************)
EXTENDS Integers, FiniteSets

CONSTANTS
    Tasks,
    NoTask,         \* nobody holds the lock
    BufferSize,     \* STM32F4_UART_BUFFER_SIZE
    MaxBytes,       \* bound: bytes that are received
    Lengths         \* the lengths that read and write are called with

ASSUME UartAssumption ==
    /\ NoTask \notin Tasks
    /\ BufferSize \in Nat \ {0}
    /\ MaxBytes \in Nat
    /\ Lengths \subseteq Nat \ {0}

VARIABLES
    ready, first_tx, read_index, wrapped,   \* struct stm32f4_uart
    lock,           \* who holds read_lock and write_lock
    rx,             \* the registers of the receiving stream
    tx,             \* the registers of the transmitting stream
    rx_buffer,      \* the number of the byte in each place, 0 before the first
    received,       \* the number of the byte received last
    consumed,       \* the number of the byte that read returned last
    op, pc,         \* the operation that a task is in, and where
    len,            \* what is left of its length
    dma_read        \* its local variable dma_read

port == <<ready, first_tx, read_index, wrapped>>
line == <<rx_buffer, received, consumed>>
local == <<op, len, dma_read>>
vars == <<port, lock, rx, tx, line, local, pc>>

Operations == {"init", "get_baud_rate", "set_baud_rate", "read", "write"}
Index == 0..(BufferSize - 1)

TypeOK ==
    /\ ready \in BOOLEAN /\ first_tx \in BOOLEAN /\ wrapped \in BOOLEAN
    /\ read_index \in Index
    /\ lock \in [{"read_lock", "write_lock"} -> Tasks \cup {NoTask}]
    /\ rx \in [NDTR : 0..BufferSize, TCIF : BOOLEAN]
    /\ tx \in [NDTR : 0..BufferSize, TCIF : BOOLEAN]
    /\ rx_buffer \in [Index -> 0..MaxBytes]
    /\ received \in 0..MaxBytes /\ consumed \in 0..MaxBytes
    /\ op \in [Tasks -> Operations]
    /\ pc \in [Tasks -> {"idle", "first", "check", "second", "initialize", "unlock",
                         "work", "items", "copy", "send", "out"}]
    /\ len \in [Tasks -> Nat]
    /\ dma_read \in [Tasks -> Index]

\* stm32f4_uart_ctor; the streams are allocated and not started.
Init ==
    /\ ready = FALSE /\ first_tx = TRUE /\ read_index = 0 /\ wrapped = FALSE
    /\ lock = [l \in {"read_lock", "write_lock"} |-> NoTask]
    /\ rx = [NDTR |-> 0, TCIF |-> FALSE]
    /\ tx = [NDTR |-> 0, TCIF |-> FALSE]
    /\ rx_buffer = [i \in Index |-> 0]
    /\ received = 0 /\ consumed = 0
    /\ op = [t \in Tasks |-> "init"]
    /\ pc = [t \in Tasks |-> "idle"]
    /\ len = [t \in Tasks |-> 0]
    /\ dma_read = [t \in Tasks |-> 0]

-------------------------------------------------------------------------------
(* The DMA streams *)

\* A byte arrives; the ring starts again once all of it has been written.
RxByte ==
    /\ rx.NDTR > 0
    /\ received < MaxBytes
    /\ received' = received + 1
    /\ rx_buffer' = [rx_buffer EXCEPT ![BufferSize - rx.NDTR] = received + 1]
    /\ rx' = IF rx.NDTR = 1 THEN [NDTR |-> BufferSize, TCIF |-> TRUE]
                            ELSE [rx EXCEPT !.NDTR = @ - 1]
    /\ UNCHANGED <<port, lock, tx, consumed, local, pc>>

\* A byte is sent.
TxByte ==
    /\ tx.NDTR > 0
    /\ tx' = [NDTR |-> tx.NDTR - 1, TCIF |-> tx.NDTR = 1]
    /\ UNCHANGED <<port, lock, rx, line, local, pc>>

\* stm32f4_dma_class_begin_transaction: a transaction of n bytes.
begin_transaction(n) == [NDTR |-> n, TCIF |-> FALSE]

\* stm32f4_dma_class_transaction_complete clears the flag that it returns.
transaction_complete(stream) == [stream EXCEPT !.TCIF = FALSE]

-------------------------------------------------------------------------------
(* The locks and the initialization *)

Goto(t, p) == pc' = [pc EXCEPT ![t] = p]

\* write takes its locks in the other order.
First(t) == IF op[t] = "write" THEN "write_lock" ELSE "read_lock"
Second(t) == IF op[t] = "write" THEN "read_lock" ELSE "write_lock"

Call(t, o, n) ==
    /\ pc[t] = "idle"
    /\ op' = [op EXCEPT ![t] = o]
    /\ len' = [len EXCEPT ![t] = n]
    /\ Goto(t, "first")
    /\ UNCHANGED <<port, lock, rx, tx, line, dma_read>>

\* An acquire that does not wait.
AcquireFirstTaken(t) ==
    /\ pc[t] = "first"
    /\ lock' = [lock EXCEPT ![First(t)] = t]
    /\ Goto(t, IF op[t] \in {"init", "set_baud_rate"} THEN "second" ELSE "check")
    /\ UNCHANGED <<port, rx, tx, line, local>>

\* init and set_baud_rate take both locks, the others look at ready first.
AcquireFirst(t) ==
    /\ pc[t] = "first"
    /\ lock[First(t)] = NoTask
    /\ lock' = [lock EXCEPT ![First(t)] = t]
    /\ Goto(t, IF op[t] \in {"init", "set_baud_rate"} THEN "second" ELSE "check")
    /\ UNCHANGED <<port, rx, tx, line, local>>

\* A check that does not look at ready.
CheckNothing(t) ==
    /\ pc[t] = "check"
    /\ Goto(t, "second")
    /\ UNCHANGED <<port, lock, rx, tx, line, local>>

\* if (!port->ready)
Check(t) ==
    /\ pc[t] = "check"
    /\ Goto(t, IF ready THEN "work" ELSE "second")
    /\ UNCHANGED <<port, lock, rx, tx, line, local>>

AcquireSecond(t) ==
    /\ pc[t] = "second"
    /\ lock[Second(t)] = NoTask
    /\ lock' = [lock EXCEPT ![Second(t)] = t]
    /\ Goto(t, IF op[t] = "set_baud_rate" /\ ready THEN "out" ELSE "initialize")
    /\ UNCHANGED <<port, rx, tx, line, local>>

\* stm32f4_uart_initialize starts the receiving ring; read_index and wrapped
\* keep their values.  set_baud_rate goes on with both locks.
stm32f4_uart_initialize(t) ==
    /\ pc[t] = "initialize"
    /\ rx' = begin_transaction(BufferSize)
    /\ ready' = TRUE
    /\ Goto(t, IF op[t] = "set_baud_rate" THEN "out" ELSE "unlock")
    /\ UNCHANGED <<first_tx, read_index, wrapped, lock, tx, line, local>>

\* The locals of a call are gone when it returns.
Return(t) ==
    /\ op' = [op EXCEPT ![t] = "init"]
    /\ len' = [len EXCEPT ![t] = 0]
    /\ dma_read' = [dma_read EXCEPT ![t] = 0]
    /\ Goto(t, "idle")

\* The release of the second lock; in set_baud_rate it comes last.
ReleaseSecond(t) ==
    /\ pc[t] = "unlock"
    /\ lock' = [lock EXCEPT ![Second(t)] = NoTask]
    /\ \/ op[t] = "init" /\ Goto(t, "out") /\ UNCHANGED local
       \/ op[t] = "set_baud_rate" /\ Return(t)
       \/ op[t] \notin {"init", "set_baud_rate"} /\ Goto(t, "work") /\ UNCHANGED local
    /\ UNCHANGED <<port, rx, tx, line>>

\* The release of the first lock.
Out(t) ==
    /\ pc[t] = "out"
    /\ lock' = [lock EXCEPT ![First(t)] = NoTask]
    /\ \/ op[t] = "set_baud_rate" /\ Goto(t, "unlock") /\ UNCHANGED local
       \/ op[t] # "set_baud_rate" /\ Return(t)
    /\ UNCHANGED <<port, rx, tx, line>>

stm32f4_uart_get_baud_rate(t) ==
    /\ pc[t] = "work"
    /\ op[t] = "get_baud_rate"
    /\ Goto(t, "out")
    /\ UNCHANGED <<port, lock, rx, tx, line, local>>

-------------------------------------------------------------------------------
(* stm32f4_uart_read *)

\* Whether the ring started again since the last read.  When it did so twice
\* the reader starts over.
ReadWrapped(t) ==
    /\ pc[t] = "work"
    /\ op[t] = "read"
    /\ rx' = transaction_complete(rx)
    /\ wrapped' = (wrapped # rx.TCIF)
    /\ read_index' = IF rx.TCIF /\ wrapped THEN 0 ELSE read_index
    /\ Goto(t, "items")
    /\ UNCHANGED <<ready, first_tx, lock, tx, line, local>>

\* The place that the DMA writes next.
DmaRead == BufferSize - rx.NDTR

\* The reader is not behind the DMA in the way wrapped says: it starts over.
Behind == ~wrapped /\ DmaRead < read_index
Ahead == wrapped /\ DmaRead >= read_index

\* A read that goes on where the DMA seems to be behind.
ItemsBehind(t) ==
    /\ pc[t] = "items"
    /\ dma_read' = [dma_read EXCEPT ![t] = DmaRead]
    /\ \/ /\ ~wrapped /\ DmaRead = read_index
          /\ Goto(t, "out")
          /\ UNCHANGED <<read_index, wrapped>>
       \/ /\ Ahead
          /\ read_index' = 0 /\ wrapped' = FALSE
          /\ Goto(t, "copy")
       \/ /\ ~Ahead /\ (wrapped \/ DmaRead # read_index)
          /\ Goto(t, "copy")
          /\ UNCHANGED <<read_index, wrapped>>
    /\ UNCHANGED <<ready, first_tx, lock, rx, tx, line, op, len>>

items_remaining(t) ==
    /\ pc[t] = "items"
    /\ dma_read' = [dma_read EXCEPT ![t] = DmaRead]
    /\ \/ /\ ~wrapped /\ DmaRead = read_index
          /\ Goto(t, "out")
          /\ UNCHANGED <<read_index, wrapped>>
       \/ /\ Behind \/ Ahead
          /\ read_index' = 0 /\ wrapped' = FALSE
          /\ Goto(t, "copy")
       \/ /\ ~Behind /\ ~Ahead /\ (wrapped \/ DmaRead # read_index)
          /\ Goto(t, "copy")
          /\ UNCHANGED <<read_index, wrapped>>
    /\ UNCHANGED <<ready, first_tx, lock, rx, tx, line, op, len>>

\* A copy that rolls over one place too late.
CopyTooFar(t) ==
    /\ pc[t] = "copy"
    /\ len[t] > 0 /\ read_index # dma_read[t]
    /\ consumed' = rx_buffer[read_index]
    /\ read_index' = IF read_index = BufferSize THEN 0 ELSE read_index + 1
    /\ wrapped' = (wrapped /\ read_index # BufferSize)
    /\ len' = [len EXCEPT ![t] = @ - 1]
    /\ UNCHANGED <<ready, first_tx, lock, rx, tx, rx_buffer, received, op, pc, dma_read>>

\* One byte of the loop of read; the DMA goes on meanwhile.
Copy(t) ==
    /\ pc[t] = "copy"
    /\ len[t] > 0 /\ read_index # dma_read[t]
    /\ consumed' = rx_buffer[read_index]
    /\ read_index' = (read_index + 1) % BufferSize
    /\ wrapped' = (wrapped /\ read_index + 1 # BufferSize)
    /\ len' = [len EXCEPT ![t] = @ - 1]
    /\ UNCHANGED <<ready, first_tx, lock, rx, tx, rx_buffer, received, op, pc, dma_read>>

CopyEnds(t) ==
    /\ pc[t] = "copy"
    /\ len[t] = 0 \/ read_index = dma_read[t]
    /\ Goto(t, "out")
    /\ UNCHANGED <<port, lock, rx, tx, line, local>>

stm32f4_uart_read(t) ==
    ReadWrapped(t) \/ items_remaining(t) \/ Copy(t) \/ CopyEnds(t)

-------------------------------------------------------------------------------
(* stm32f4_uart_write *)

\* A write that does not wait for the last one.
WriteAtOnce(t) ==
    /\ pc[t] = "work"
    /\ op[t] = "write"
    /\ first_tx' = FALSE
    /\ tx' = transaction_complete(tx)
    /\ Goto(t, "send")
    /\ UNCHANGED <<ready, read_index, wrapped, lock, rx, line, local>>

\* A write that returns with its lock when the last one is not complete.
WriteKeepsLock(t) ==
    /\ pc[t] = "work"
    /\ op[t] = "write"
    /\ first_tx' = FALSE
    /\ tx' = IF first_tx THEN tx ELSE transaction_complete(tx)
    /\ Goto(t, IF first_tx \/ tx.TCIF THEN "send" ELSE "idle")
    /\ UNCHANGED <<ready, read_index, wrapped, lock, rx, line, local>>

\* Whether the last transaction is complete; there is none the first time.
WriteComplete(t) ==
    /\ pc[t] = "work"
    /\ op[t] = "write"
    /\ first_tx' = FALSE
    /\ tx' = IF first_tx THEN tx ELSE transaction_complete(tx)
    /\ Goto(t, IF first_tx \/ tx.TCIF THEN "send" ELSE "out")
    /\ UNCHANGED <<ready, read_index, wrapped, lock, rx, line, local>>

\* The data is copied to tx_buffer, as much as there is room for, and sent.
WriteSend(t) ==
    /\ pc[t] = "send"
    /\ tx' = begin_transaction(IF len[t] < BufferSize THEN len[t] ELSE BufferSize)
    /\ Goto(t, "out")
    /\ UNCHANGED <<port, lock, rx, line, local>>

stm32f4_uart_write(t) == WriteComplete(t) \/ WriteSend(t)

-------------------------------------------------------------------------------
\* Two tasks wait for each other's lock.  acquire panics (deadlock_check).
Deadlock ==
    \E t, u \in Tasks :
        /\ t # u
        /\ pc[t] = "second" /\ lock[Second(t)] = u
        /\ pc[u] = "second" /\ lock[Second(u)] = t

Acquire(t) == AcquireFirst(t) \/ AcquireSecond(t)

Work(t) ==
    \/ Check(t)
    \/ stm32f4_uart_initialize(t)
    \/ ReleaseSecond(t)
    \/ Out(t)
    \/ stm32f4_uart_get_baud_rate(t)
    \/ stm32f4_uart_read(t)
    \/ stm32f4_uart_write(t)

Next ==
    /\ ~Deadlock
    /\ \/ RxByte
       \/ TxByte
       \/ \E t \in Tasks :
             \/ \E o \in {"init", "get_baud_rate", "set_baud_rate"} : Call(t, o, 0)
             \/ \E o \in {"read", "write"}, n \in Lengths : Call(t, o, n)
             \/ Acquire(t)
             \/ Work(t)

Spec == Init /\ [][Next]_vars

\* A call goes on when it has its locks, and acquire does not pass over a task
\* for ever.  Nothing is asked of the line: no operation waits for it.
Fairness ==
    \A t \in Tasks : WF_vars(Work(t)) /\ SF_vars(Acquire(t))

FairSpec == Spec /\ Fairness

-------------------------------------------------------------------------------
(* Properties *)

\* A ready port is initialized again only by init: the check of ready and the
\* initialization are made under locks that no other initialization lets go.
\* (Again would restart the ring under a reader that does not expect it.)
InitializedOnce ==
    /\ TypeOK
    /\ \A t \in Tasks : pc[t] = "initialize" /\ op[t] # "init" => ~ready

\* read and write take the locks in opposite orders, and can wait for each
\* other, only as long as the port has never been initialized.
DeadlockBeforeReady == Deadlock => ~ready

\* When a write fills tx_buffer nothing is being sent from it, whichever tasks
\* write, and the transaction it begins cancels none; and read never returns a
\* place of the ring that was not received into, also after the ring was started
\* again by init.
BytesKept ==
    \A t \in Tasks :
        /\ pc[t] = "send" => tx.NDTR = 0
        /\ pc[t] = "copy" /\ read_index # dma_read[t] => rx_buffer[read_index] # 0

(* The inductive invariant behind InitializedOnce, DeadlockBeforeReady and  *)
(* BytesKept, in parts.                                                     *)

\* The locks that a task has at each of its locations.
HoldsFirst(t) ==
    \/ pc[t] \in {"check", "second", "initialize", "work", "items", "copy", "send", "out"}
    \/ pc[t] = "unlock" /\ op[t] # "set_baud_rate"

HoldsSecond(t) ==
    \/ pc[t] \in {"initialize", "unlock"}
    \/ pc[t] = "out" /\ op[t] = "set_baud_rate"

LockInv ==
    \A t \in Tasks : /\ HoldsFirst(t) => lock[First(t)] = t
                     /\ HoldsSecond(t) => lock[Second(t)] = t

PathInv ==
    \A t \in Tasks :
        /\ pc[t] \in {"check", "work"} => op[t] \notin {"init", "set_baud_rate"}
        /\ pc[t] \in {"items", "copy"} => op[t] = "read"
        /\ pc[t] = "send" => op[t] = "write"

\* Who is about to initialize, or to wait for the second lock in order to, has
\* seen that the port is not ready under a lock that it still has; who works
\* has seen that it is.
ReadyInv ==
    /\ ready => rx.NDTR > 0
    /\ \A t \in Tasks :
          /\ pc[t] = "second" /\ op[t] \notin {"init", "set_baud_rate"} => ~ready
          /\ pc[t] = "initialize" /\ op[t] # "init" => ~ready
          /\ pc[t] \in {"work", "items", "copy", "send"} => ready
          /\ HoldsSecond(t) /\ pc[t] # "initialize" => ready

\* A transaction is begun only when the last one is complete.
TxInv ==
    /\ tx.TCIF \/ first_tx => tx.NDTR = 0
    /\ \A t \in Tasks : pc[t] = "send" => ~first_tx /\ tx.NDTR = 0

\* The places of the ring before that of the DMA have been received into, and
\* all of them once the ring has started again; the reader stays on those.
Filled(i) == rx_buffer[i] # 0

RingInv ==
    /\ rx.TCIF \/ wrapped => \A i \in Index : Filled(i)
    /\ rx.NDTR > 0 => \A i \in Index : i < DmaRead => Filled(i)
    /\ \A t \in Tasks : pc[t] = "copy" =>
          /\ \A i \in Index : i < dma_read[t] => Filled(i)
          /\ read_index <= dma_read[t] \/ \A i \in Index : Filled(i)

UInv ==
    /\ TypeOK
    /\ LockInv
    /\ PathInv
    /\ ReadyInv
    /\ TxInv
    /\ RingInv

\* Every operation returns, with its locks released, unless it deadlocks.
CallsReturn ==
    \A t \in Tasks : pc[t] # "idle" ~> (pc[t] = "idle" \/ Deadlock)

\* The comment where read starts over: "The DMA has wrapped around, and is
\* already ahead of us."  At least as many bytes as the ring holds were
\* received since the last one returned.
StartsOverLate ==
    \A t \in Tasks : pc[t] = "items" /\ Ahead => received - consumed >= BufferSize
================================================================================
