-------------------------------- MODULE Drivers --------------------------------
(***************************************************************************)
(* The drivers and services that tasks share and whose theorems are in     *)
(* DriverProofs.  Each has its own memory, registers and mutexes and       *)
(* shares none with the others, so a behaviour is one of a single driver,  *)
(* which is chosen at the start; the variables of Calls are then those of  *)
(* that driver.  MCDrivers adds the others.                                *)
(***************************************************************************)
EXTENDS Calls

CONSTANTS
    PwmPins, Periods, PulseWidths, ArrSize,     \* Pwm
    Converters, AdcPins, SeqMax, AnyOrder,      \* Adc
    Sizes, PeriphClock, SpiClocks, SharedDevice,   \* Spi, and I2c in MCDrivers
    GpioPins, PowerLed, Objects, SamePin,       \* Gpio
    Kept,                                       \* Devices
    StackWords, MaxPushed, Pcs, FpuTasks,       \* Context
    AtomicWord, Operands, Clears,               \* Atomic
    Items, Entries,                             \* Dma
    Messages,                                   \* Boot
    Periphs, SameBus, Opposed, LowerCounts, MaxCount, \* Clocks
    NumBlocks, GrainsPerBlock, GrainSize, HeaderSize,
    SizeWord, MallocSizes, BeyondFree           \* Bitfield

VARIABLE which      \* the driver

P == INSTANCE Pwm
A == INSTANCE Adc
S == INSTANCE Spi
G == INSTANCE Gpio
D == INSTANCE Devices
X == INSTANCE Context
M == INSTANCE Atomic
R == INSTANCE Dma
W == INSTANCE Boot
E == INSTANCE Clocks
B == INSTANCE Bitfield

ASSUME DriversAssumption ==
    /\ P!PwmAssumption /\ A!AdcAssumption /\ S!SpiAssumption /\ G!GpioAssumption
    /\ D!DevicesAssumption /\ X!ContextAssumption /\ M!AtomicAssumption
    /\ R!DmaAssumption /\ W!BootAssumption /\ E!ClocksAssumption
    /\ B!BitfieldAssumption

allVars == <<vars, which>>

Init ==
    \/ which = "pwm" /\ P!Init
    \/ which = "adc" /\ A!Init
    \/ which = "spi" /\ S!Init
    \/ which = "gpio" /\ G!Init
    \/ which = "devices" /\ D!Init
    \/ which = "context" /\ X!Init
    \/ which = "atomic" /\ M!Init
    \/ which = "dma" /\ R!Init
    \/ which = "boot" /\ W!Init
    \/ which = "clocks" /\ E!Init
    \/ which = "bitfield" /\ B!Init

Next ==
    /\ \/ which = "pwm" /\ P!Next
       \/ which = "adc" /\ A!Next
       \/ which = "spi" /\ S!Next
       \/ which = "gpio" /\ G!Next
       \/ which = "devices" /\ D!Next
       \/ which = "context" /\ X!Next
       \/ which = "atomic" /\ M!Next
       \/ which = "dma" /\ R!Next
       \/ which = "boot" /\ W!Next
       \/ which = "clocks" /\ E!Next
       \/ which = "bitfield" /\ B!Next
    /\ UNCHANGED which

Spec == Init /\ [][Next]_allVars

-------------------------------------------------------------------------------
(* The properties of the drivers, each stated in the module of the driver. *)

\* What has one owner has no other, however the calls of tasks interleave: the
\* channel of a timer (pwm.c, pwm_get), the state of the converters and a channel
\* of one (adc.c), the SPI bus, with one device selected (spi.c), the object of a
\* GPIO pin (gpio.c) and of a device (device.c), a stream of the DMA (dma.c).
OneOwner ==
    /\ which = "pwm" => P!ChannelExclusive
    /\ which = "adc" => A!OneState /\ A!ChannelReservedOnce
    /\ which = "spi" => S!BusExclusive
    /\ which = "gpio" => G!OneObjectPerPin /\ G!WalkSound
    /\ which = "devices" => D!ConstructedOnce
    /\ which = "dma" => R!StreamExclusive

\* A clock is selected when all is ready for it, and software knows its rate: the
\* PLLs (clock.c, am335x/clocks.c), the clock of a bus (rcc.c, spi.c), the
\* 64-bit count of two timers (perfcounter.c).
ClocksSafe ==
    /\ which = "clocks" => E!ClockSafe /\ E!PllSafe /\ E!RateExact /\ E!CountExact
    /\ which = "spi" => S!ClockClosest

\* A task goes on with the registers and the stack that it had (sched_asm.S,
\* handlers.S, start.S), and an atomic update that it was stopped in is not lost
\* (atomic.h).
ContextsKept ==
    /\ which = "context" => X!ContextExact /\ X!StackKept
    /\ which = "atomic" => M!UpdatesKept

\* Boot calls nothing before what it needs is set up (kernel/init.c), a panic
\* prints, but for one moment in which it stops a write (kernel/fault.c), and no
\* message is cut off by the next, in a panic either (uart.c, write).
BootSpeaks ==
    which = "boot" => W!BootInOrder /\ W!PanicSpeaks /\ W!MessagesWhole
================================================================================
