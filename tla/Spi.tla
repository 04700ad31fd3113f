---------------------------------- MODULE Spi ----------------------------------
(***************************************************************************)
(* The STM32F4 SPI driver (arch/armv7m/chip/stm32f40x/dev/hw/spi.c): tasks *)
(* transfer bytes to devices on one port, in single calls or in extended   *)
(* transactions of several calls, and set its clock.  The drivers of the   *)
(* devices are dev/accel/lis302dl.c, whose device one driver uses, and     *)
(* dev/mpu6000/spi.c, whose device the accelerometer and the gyroscope     *)
(* share.  Bytes are left out.                                             *)
(***************************************************************************)
EXTENDS Calls

CONSTANTS
    Sizes,          \* the numbers of bytes that are transferred in a call
    PeriphClock,    \* periph_clock of the port, in hertz
    SpiClocks,      \* the frequencies that set_clock is called with
    SharedDevice    \* TRUE if the tasks use one device, FALSE if each has its own

SpiAssumption ==
    /\ Sizes \subseteq Nat \ {0}
    /\ PeriphClock \in Nat /\ SpiClocks \subseteq Nat \ {0}
    /\ SharedDevice \in BOOLEAN

Divisors == {2, 4, 8, 16, 32, 64, 128, 256}
Device(t) == IF SharedDevice THEN CHOOSE u \in Tasks : TRUE ELSE t
DefaultClock == 1000000

TypeOK ==
    /\ dev.ready \in BOOLEAN /\ dev.extended_transaction \in [Tasks -> BOOLEAN]
    /\ hw.BR \in Divisors /\ hw.selected \subseteq Tasks
    /\ lock \in [{"spi"} -> Holders]
    /\ pc \in [Tasks -> {"idle", "begin", "bytes", "out", "held"}]
    /\ loc \in [Tasks -> [num : Nat, asked : SpiClocks \cup {DefaultClock}]]

\* The devices whose chip select is low are selected; asked is the frequency
\* that was asked for last.
Init ==
    /\ dev = [ready |-> FALSE, extended_transaction |-> [t \in Tasks |-> FALSE]]
    /\ hw = [BR |-> 2, selected |-> {}]
    /\ lock = [m \in {"spi"} |-> Nobody]
    /\ pc = [t \in Tasks |-> "idle"]
    /\ loc = [t \in Tasks |-> [num |-> 0, asked |-> DefaultClock]]

-------------------------------------------------------------------------------
(* The clock *)

\* A divisor that is rounded down.
RoundsDown(hz) ==
    LET d == PeriphClock \div hz
    IN  CHOOSE b \in Divisors : (b >= d \/ b = 256) /\ \A c \in Divisors : c >= d => b <= c

\* set_clock: the smallest divisor that is enough, or else the largest.
set_clock(hz) ==
    LET d == (PeriphClock + hz - 1) \div hz
    IN  CHOOSE b \in Divisors : (b >= d \/ b = 256) /\ \A c \in Divisors : c >= d => b <= c

get_clock == PeriphClock \div hw.BR

\* stm32f4_spi_initialize, once.
Initialized == [dev EXCEPT !.ready = TRUE]
InitializedRegs == IF dev.ready THEN hw ELSE [hw EXCEPT !.BR = set_clock(DefaultClock)]
Asked(hz) == loc' = [t \in Tasks |-> [loc[t] EXCEPT !.asked = hz]]

\* stm32f4_spi_init, and stm32f4_spi_get_clock.
stm32f4_spi_init(t) ==
    /\ pc[t] = "idle" /\ Free("spi")
    /\ dev' = Initialized /\ hw' = InitializedRegs
    /\ UNCHANGED <<lock, pc, loc>>

stm32f4_spi_set_clock(t, hz) ==
    /\ pc[t] = "idle" /\ Free("spi")
    /\ dev' = Initialized
    /\ hw' = [hw EXCEPT !.BR = set_clock(hz)]
    /\ Asked(hz)
    /\ UNCHANGED <<lock, pc>>

-------------------------------------------------------------------------------
(* Transfers *)

\* Inside an extended transaction a task is at "held" between its calls.
stm32f4_spi_read_write(t, n) ==
    /\ pc[t] \in {"idle", "held"}
    /\ Goto(t, "begin")
    /\ Set(t, [loc[t] EXCEPT !.num = n])
    /\ UNCHANGED <<dev, hw, lock>>

\* A transfer that selects its device without waiting for the lock.
BeginUnlocked(t) ==
    /\ Step(t, "begin", "bytes")
    /\ dev' = Initialized
    /\ hw' = [InitializedRegs EXCEPT !.selected = @ \cup {Device(t)}]
    /\ UNCHANGED <<lock, loc>>

\* The lock is not taken when the device is in an extended transaction.
Begin(t) ==
    /\ Step(t, "begin", "bytes")
    /\ IF dev.extended_transaction[Device(t)]
          THEN hw' = InitializedRegs /\ UNCHANGED lock
          ELSE /\ acquire(t, "spi")
               /\ hw' = [InitializedRegs EXCEPT !.selected = @ \cup {Device(t)}]
    /\ dev' = Initialized
    /\ UNCHANGED loc

\* stm32f4_spi_send_receive, which may time out.
SendReceive(t) ==
    /\ pc[t] = "bytes"
    /\ \/ loc[t].num > 0 /\ Set(t, [loc[t] EXCEPT !.num = @ - 1]) /\ UNCHANGED pc
       \/ Goto(t, "out") /\ Set(t, [loc[t] EXCEPT !.num = 0])
    /\ UNCHANGED <<dev, hw, lock>>

\* The flag is looked at again.
Out(t) ==
    /\ pc[t] = "out"
    /\ IF dev.extended_transaction[Device(t)]
          THEN Goto(t, IF lock["spi"] = t THEN "held" ELSE "idle") /\ UNCHANGED <<hw, lock>>
          ELSE /\ hw' = [hw EXCEPT !.selected = @ \ {Device(t)}]
               /\ release("spi") /\ Goto(t, "idle")
    /\ UNCHANGED <<dev, loc>>

stm32f4_spi_start_transaction(t) ==
    /\ Step(t, "idle", "held")
    /\ acquire(t, "spi")
    /\ hw' = [hw EXCEPT !.selected = @ \cup {Device(t)}]
    /\ dev' = [dev EXCEPT !.extended_transaction[Device(t)] = TRUE]
    /\ UNCHANGED loc

stm32f4_spi_end_transaction(t) ==
    /\ Step(t, "held", "idle")
    /\ dev' = [dev EXCEPT !.extended_transaction[Device(t)] = FALSE]
    /\ hw' = [hw EXCEPT !.selected = @ \ {Device(t)}]
    /\ release("spi")
    /\ UNCHANGED loc

-------------------------------------------------------------------------------
Call(t) ==
    \/ stm32f4_spi_init(t) \/ stm32f4_spi_start_transaction(t)
    \/ \E hz \in SpiClocks : stm32f4_spi_set_clock(t, hz)
    \/ \E n \in Sizes : stm32f4_spi_read_write(t, n)

\* A driver ends the transactions that it starts.
Work(t) == Begin(t) \/ SendReceive(t) \/ Out(t) \/ stm32f4_spi_end_transaction(t)

Next == \E t \in Tasks : Call(t) \/ Work(t)

Spec == Init /\ [][Next]_vars

-------------------------------------------------------------------------------
(* Properties *)

\* spi.h on an extended transaction: "Until end_transaction is called, the chip
\* select line will be held low, and any peripheral specific locks will be
\* held."  A device is selected exactly while the task that transfers to it, in
\* one call or in several, has the lock: no two tasks use the bus at once.
BusExclusive ==
    /\ hw.selected = {Device(t) : t \in {u \in Tasks : lock["spi"] = u}}
    /\ \A t \in Tasks : pc[t] \in {"bytes", "out", "held"} => lock["spi"] = t

\* spi.h on set_clock: "The actual set frequency will be the closest possible
\* frequency less than or equal to the requested frequency."  It is so wherever
\* there is such a frequency, whatever other tasks do.
ClockClosest ==
    \A t \in Tasks : dev.ready /\ loc[t].asked >= PeriphClock \div 256 + 1 =>
        /\ get_clock <= loc[t].asked
        /\ hw.BR > 2 => PeriphClock \div (hw.BR \div 2) >= loc[t].asked
================================================================================
