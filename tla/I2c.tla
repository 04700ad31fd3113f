---------------------------------- MODULE I2c ----------------------------------
(***************************************************************************)
(* The STM32F4 I2C driver (arch/armv7m/chip/stm32f40x/dev/hw/i2c.c): tasks *)
(* read and write devices on one bus, whose devices may not answer, hold   *)
(* the bus or disturb it.  Bytes and addresses are left out.  A wait for a *)
(* flag ends with the flag or with its timeout.  The driver reads a byte   *)
(* within the time that the next one takes.                                *)
(***************************************************************************)
EXTENDS Calls, Sequences

CONSTANT Sizes      \* the numbers of bytes that are read and written

I2cAssumption == Sizes \subseteq Nat \ {0}

Nothing == [op |-> "none", num |-> 0, acked |-> <<>>]

TypeOK ==
    /\ dev \in [ready : BOOLEAN, clock : BOOLEAN]
    /\ hw \in [BUSY : BOOLEAN, STOP : BOOLEAN, ACK : BOOLEAN, BERR : BOOLEAN, open : BOOLEAN]
    /\ lock \in [{"i2c"} -> Holders]
    /\ pc \in [Tasks -> {"idle", "prepare", "berr", "wait", "stalled", "start", "addr",
                         "write", "read", "out", "done"}]
    /\ \A t \in Tasks : loc[t].op \in {"none", "init", "read", "write"} /\ loc[t].num \in Nat

\* clock: rcc_set_clock_enable knows the peripheral that the device tree names.
\* open: a START without its STOP is on the bus.
Init ==
    /\ \E c \in BOOLEAN : dev = [ready |-> FALSE, clock |-> c]
    /\ hw = [BUSY |-> FALSE, STOP |-> FALSE, ACK |-> FALSE, BERR |-> FALSE, open |-> FALSE]
    /\ lock = [m \in {"i2c"} |-> Nobody]
    /\ pc = [t \in Tasks |-> "idle"]
    /\ loc = [t \in Tasks |-> Nothing]

-------------------------------------------------------------------------------
(* The bus *)

\* The STOP is sent, unless a byte is still to come before it; a device may
\* keep hold of the bus.
StopSent ==
    /\ hw.STOP
    /\ \A t \in Tasks : pc[t] = "read" => loc[t].num = 0
    /\ \E b \in BOOLEAN : hw' = [hw EXCEPT !.STOP = FALSE, !.BUSY = b]
    /\ UNCHANGED <<dev, lock, pc, loc>>

BusError ==
    /\ hw.BUSY /\ ~hw.BERR
    /\ hw' = [hw EXCEPT !.BERR = TRUE]
    /\ UNCHANGED <<dev, lock, pc, loc>>

-------------------------------------------------------------------------------
(* stm32f4_i2c_prepare *)

Return(t) == Goto(t, "idle") /\ Set(t, Nothing)

Invoke(t, op, n) ==
    /\ Step(t, "idle", "prepare")
    /\ Set(t, [op |-> op, num |-> n, acked |-> <<>>])
    /\ UNCHANGED <<dev, hw, lock>>

\* stm32f4_i2c_init: initialized once.
stm32f4_i2c_init(t) ==
    /\ pc[t] = "prepare" /\ loc[t].op = "init"
    /\ Free("i2c")
    /\ dev' = [dev EXCEPT !.ready = dev.ready \/ dev.clock]
    /\ Return(t)
    /\ UNCHANGED <<hw, lock>>

\* A failed initialization returns with the lock.
Prepare(t) ==
    /\ pc[t] = "prepare" /\ loc[t].op # "init"
    /\ acquire(t, "i2c")
    /\ dev' = [dev EXCEPT !.ready = dev.ready \/ dev.clock]
    /\ IF dev.ready \/ dev.clock THEN Goto(t, "berr") /\ UNCHANGED loc ELSE Return(t)
    /\ UNCHANGED hw

\* stm32f4_i2c_reset, of a peripheral whose clock is known: its registers are
\* cleared and it is ready again; a device may still hold the bus.
Reset(busy) == [BUSY |-> busy, STOP |-> FALSE, ACK |-> FALSE, BERR |-> FALSE, open |-> FALSE]

CheckBerr(t) ==
    /\ Step(t, "berr", "wait")
    /\ IF hw.BERR THEN \E b \in BOOLEAN : hw' = Reset(b) ELSE UNCHANGED hw
    /\ UNCHANGED <<dev, lock, loc>>

\* The bus is free and the last STOP is complete.
Start(t) ==
    /\ pc[t] \in {"wait", "stalled"}
    /\ ~hw.BUSY /\ ~hw.STOP
    /\ Goto(t, "start")
    /\ hw' = [hw EXCEPT !.BUSY = TRUE, !.open = TRUE]
    /\ UNCHANGED <<dev, lock, loc>>

\* Out of time: the port is reset.
Stalled(t) ==
    /\ Step(t, "wait", "stalled")
    /\ hw.BUSY \/ hw.STOP
    /\ \E b \in BOOLEAN : hw' = Reset(b)
    /\ UNCHANGED <<dev, lock, loc>>

\* The clock is toggled until the device lets go, then the port is reset again.
stm32f4_i2c_force_clear_busy(t) ==
    /\ pc[t] = "stalled"
    /\ hw.BUSY
    /\ \/ /\ hw' = [hw EXCEPT !.BUSY = FALSE]
          /\ UNCHANGED <<lock, pc, loc>>
       \/ /\ hw' = Reset(TRUE)
          /\ release("i2c") /\ Return(t)
    /\ UNCHANGED dev

\* A start bit timeout that leaves the lock to its caller.
StartTimeoutKeeps(t) ==
    /\ pc[t] = "start"
    /\ \/ /\ Goto(t, "addr")
          /\ UNCHANGED <<hw, loc>>
       \/ /\ hw' = [hw EXCEPT !.STOP = TRUE, !.open = FALSE]
          /\ Return(t)
    /\ UNCHANGED <<dev, lock>>

StartBit(t) ==
    /\ pc[t] = "start"
    /\ \/ /\ Goto(t, "addr")
          /\ UNCHANGED <<hw, lock, loc>>
       \/ /\ hw' = [hw EXCEPT !.STOP = TRUE, !.open = FALSE]
          /\ release("i2c") /\ Return(t)
    /\ UNCHANGED dev

-------------------------------------------------------------------------------
(* stm32f4_i2c_write and stm32f4_i2c_read *)

\* The device acknowledges its address, or not in time.  More than one byte is
\* acknowledged when read.
Address(t) ==
    /\ pc[t] = "addr"
    /\ \/ /\ Goto(t, loc[t].op)
          /\ hw' = [hw EXCEPT !.ACK = IF loc[t].op = "read" THEN loc[t].num > 1 ELSE @]
       \/ Goto(t, "out") /\ UNCHANGED hw
    /\ UNCHANGED <<dev, lock, loc>>

WriteByte(t) ==
    /\ pc[t] = "write"
    /\ \/ loc[t].num > 0 /\ Set(t, [loc[t] EXCEPT !.num = @ - 1]) /\ UNCHANGED pc
       \/ Goto(t, "out") /\ UNCHANGED loc
    /\ UNCHANGED <<dev, hw, lock>>

\* A read that stops acknowledging after the last byte.
ReadByteLate(t) ==
    LET n == loc[t].num - 1 IN
    /\ pc[t] = "read" /\ loc[t].num > 0
    /\ Set(t, [loc[t] EXCEPT !.num = n, !.acked = Append(@, hw.ACK)])
    /\ hw' = [hw EXCEPT !.STOP = @ \/ n = 0, !.ACK = @ /\ n # 0, !.open = @ /\ n # 0]
    /\ Goto(t, IF n = 0 THEN "done" ELSE "read")
    /\ UNCHANGED <<dev, lock>>

\* A byte is received and acknowledged or not.  STOP is asked for before the
\* only byte, or, with the end of acknowledging, after the last but one.
ReadByte(t) ==
    LET n == loc[t].num - 1
        single == loc[t].acked = <<>> /\ n = 0
    IN  /\ pc[t] = "read" /\ loc[t].num > 0
        /\ Set(t, [loc[t] EXCEPT !.num = n, !.acked = Append(@, hw.ACK)])
        /\ hw' = [hw EXCEPT !.STOP = @ \/ single \/ n = 1, !.ACK = @ /\ n # 1,
                            !.open = @ /\ ~single /\ n # 1]
        /\ Goto(t, IF n = 0 THEN "done" ELSE "read")
        /\ UNCHANGED <<dev, lock>>

ReadTimeout(t) ==
    /\ Step(t, "read", "out")
    /\ loc[t].num > 0
    /\ UNCHANGED <<dev, hw, lock, loc>>

\* out_err without the STOP.
OutOnly(t) ==
    /\ pc[t] \in {"out", "done"}
    /\ release("i2c") /\ Return(t)
    /\ UNCHANGED <<dev, hw>>

\* The end of write and the error paths send STOP; read has sent it.
Out(t) ==
    /\ pc[t] \in {"out", "done"}
    /\ hw' = IF pc[t] = "out" THEN [hw EXCEPT !.STOP = TRUE, !.open = FALSE] ELSE hw
    /\ release("i2c") /\ Return(t)
    /\ UNCHANGED dev

-------------------------------------------------------------------------------
Call(t) ==
    \/ Invoke(t, "init", 0)
    \/ \E op \in {"read", "write"}, n \in Sizes : Invoke(t, op, n)

Work(t) ==
    \/ stm32f4_i2c_init(t) \/ Prepare(t) \/ CheckBerr(t) \/ Start(t) \/ Stalled(t)
    \/ stm32f4_i2c_force_clear_busy(t) \/ StartBit(t) \/ Address(t)
    \/ WriteByte(t) \/ ReadByte(t) \/ ReadTimeout(t) \/ Out(t)

Next == StopSent \/ BusError \/ \E t \in Tasks : Call(t) \/ Work(t)

Spec == Init /\ [][Next]_vars

-------------------------------------------------------------------------------
(* Properties *)

\* Every START is followed by a STOP or a reset before the lock is free again,
\* on each path: no task finds the bus in the middle of another's transfer.
TransactionEnded == Free("i2c") => ~hw.open

\* A read acknowledges every byte but the last, whatever its length: a device
\* is never left waiting to send a byte more.
AckExact ==
    \A t \in Tasks : pc[t] = "done" =>
        \A i \in 1..Len(loc[t].acked) : loc[t].acked[i] <=> i < Len(loc[t].acked)

\* "This function acquires the I2C bus lock, which must be released when the
\* transaction is complete."  A task is outside the driver with the lock only
\* if the peripheral could not be initialized.
LockKeptOnlyUninitialized ==
    \A t \in Tasks : pc[t] = "idle" /\ lock["i2c"] = t => ~dev.ready /\ ~dev.clock
================================================================================
