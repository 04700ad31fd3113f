------------------------------ MODULE MCDrivers -------------------------------
(***************************************************************************)
(* All of the drivers and services, in one run of TLC: those of Drivers    *)
(* and the others, which have no state in common with them either.         *)
(***************************************************************************)
EXTENDS Drivers, TLC

CONSTANTS
    RingLen, Lengths, MaxBytes, Reconfigures,   \* Usb
    StreamLen, Nums, MaxWritten,                \* Streams
    HoldLen, BufLen, Overlong, Formats,         \* Stdio
    IntBits, Bases, TextLens, ParseLen, MemLen, StringLen,  \* Stdlib
    ShellBufMax, ShellHistory, Printable, TableFails, Apps,   \* Shell
    ListLen, FdtNodes, MaxTries,                 \* Fdt
    Hurried,                                     \* Commands
    Requests, Duplicates, Aborts,                \* UsbControl
    Cold, WriteLens, FifoLen,                   \* Usart
    FdtSizes, MaxNodes, MaxEdits,               \* Libfdt
    DeviceAsked, ConfigAsked, Addresses, MaxResets, Raises, MaxRaised, ResetClears,  \* UsbEnum
    PinPools, TreePeriphs, PwmTimers,           \* PinConfig
    PinPairs                                    \* Pins

I == INSTANCE I2c
N == INSTANCE Sensors
C == INSTANCE Ctors
U == INSTANCE Usb
T == INSTANCE Streams
O == INSTANCE Stdio
L == INSTANCE Stdlib
H == INSTANCE Shell
Q == INSTANCE Intc
F == INSTANCE Fdt
J == INSTANCE Libfdt
Reg == INSTANCE Registers
Enum == INSTANCE UsbEnum
Config == INSTANCE PinConfig
K == INSTANCE Commands
V == INSTANCE UsbControl
Y == INSTANCE Usart
Z == INSTANCE Pins

ASSUME MCAssumption ==
    /\ I!I2cAssumption /\ U!UsbAssumption /\ T!StreamsAssumption
    /\ O!StdioAssumption /\ L!StdlibAssumption /\ H!ShellAssumption /\ F!FdtAssumption
    /\ J!LibfdtAssumption /\ K!CommandsAssumption /\ V!UsbControlAssumption
    /\ Y!UsartAssumption /\ Z!PinsAssumption
    /\ Enum!UsbEnumAssumption /\ Config!PinConfigAssumption

\* Formats that flush in each of the ways there are, and an empty string.
MCFormats == {<<-1, 2, -1>>, <<-1, -1, -1, 0>>, <<2, -1, -1, -1, -1>>}

\* Two commands, one of which begins with what the other is.
MCApps == <<<<"b">>, <<"a", "b">>>>

\* A name for two streams whose flags are in different registers, one for a third.
MCEntries == {<<3, 4>>, <<0>>}

\* Two pins of a port of each chip.
MCPinPairs == [chip \in {"stm32f4", "lm4f"} |-> IF chip = "stm32f4" THEN {{0, 1}} ELSE {{37, 38}}]

\* Tasks are interchangeable in each of the drivers.
Symmetry == Permutations(Tasks)

MCInit ==
    \/ Init
    \/ which = "i2c" /\ I!Init
    \/ which = "sensors" /\ N!Init
    \/ which = "ctors" /\ C!Init
    \/ which = "usb" /\ U!Init
    \/ which = "streams" /\ T!Init
    \/ which = "stdio" /\ O!Init
    \/ which = "stdlib" /\ L!Init
    \/ which = "shell" /\ H!Init
    \/ which = "intc" /\ Q!Init
    \/ which = "fdt" /\ F!Init
    \/ which = "libfdt" /\ J!Init
    \/ which = "commands" /\ K!Init
    \/ which = "usbcontrol" /\ V!Init
    \/ which = "usart" /\ Y!Init
    \/ which = "pins" /\ Z!Init
    \/ which = "registers" /\ Reg!Init
    \/ which = "usbenum" /\ Enum!Init
    \/ which = "pinconfig" /\ Config!Init

MCNext ==
    \/ Next
    \/ /\ \/ which = "i2c" /\ I!Next
          \/ which = "sensors" /\ N!Next
          \/ which = "ctors" /\ C!Next
          \/ which = "usb" /\ U!Next
          \/ which = "streams" /\ T!Next
          \/ which = "stdio" /\ O!Next
          \/ which = "stdlib" /\ L!Next
          \/ which = "shell" /\ H!Next
          \/ which = "intc" /\ Q!Next
          \/ which = "fdt" /\ F!Next
          \/ which = "libfdt" /\ J!Next
          \/ which = "commands" /\ K!Next
          \/ which = "usbcontrol" /\ V!Next
          \/ which = "usart" /\ Y!Next
          \/ which = "pins" /\ Z!Next
          \/ which = "registers" /\ Reg!Next
          \/ which = "usbenum" /\ Enum!Next
          \/ which = "pinconfig" /\ Config!Next
       /\ UNCHANGED which

MCSpec == MCInit /\ [][MCNext]_allVars

-------------------------------------------------------------------------------
(* The properties of the drivers, each stated in the module of the driver. *)

\* The state of each driver has its type.
TypeOK ==
    /\ which = "pwm" => P!TypeOK
    /\ which = "adc" => A!TypeOK
    /\ which = "i2c" => I!TypeOK
    /\ which = "spi" => S!TypeOK
    /\ which = "sensors" => N!TypeOK
    /\ which = "gpio" => G!TypeOK
    /\ which = "devices" => D!TypeOK
    /\ which = "ctors" => C!TypeOK
    /\ which = "usb" => U!TypeOK
    /\ which = "bitfield" => B!TypeOK
    /\ which = "streams" => T!TypeOK
    /\ which = "stdio" => O!TypeOK
    /\ which = "stdlib" => L!TypeOK
    /\ which = "context" => X!TypeOK
    /\ which = "atomic" => M!TypeOK
    /\ which = "shell" => H!TypeOK
    /\ which = "dma" => R!TypeOK
    /\ which = "intc" => Q!TypeOK
    /\ which = "fdt" => F!TypeOK
    /\ which = "libfdt" => J!TypeOK
    /\ which = "commands" => K!TypeOK
    /\ which = "usbcontrol" => V!TypeOK
    /\ which = "boot" => W!TypeOK
    /\ which = "clocks" => E!TypeOK
    /\ which = "usart" => Y!TypeOK
    /\ which = "pins" => Z!TypeOK
    /\ which = "registers" => Reg!TypeOK
    /\ which = "usbenum" => Enum!TypeOK
    /\ which = "pinconfig" => Config!TypeOK

\* What was taken is given back, once, on error paths too, and not while it is
\* in use: transactions of I2C, the locks of the bus and of a sensor's chip,
\* references to devices, whatever constructors and probes take, the memory of a
\* command's arguments, of a device's path, of messages and of a shared memory.
AllGivenBack ==
    /\ which = "i2c" => I!TransactionEnded /\ I!LockKeptOnlyUninitialized
    /\ which = "sensors" => N!ChipLockReturned
    /\ which = "devices" => D!RefcountExact /\ D!DeviceLive
    /\ which = "ctors" => C!ReleasesHeld /\ C!FailureGivesBack /\ C!SuccessLeavesNothing
    /\ which = "shell" => H!ArgvFreed
    /\ which = "fdt" => F!PathsAccounted
    /\ which = "commands" => K!MessagesAccounted /\ K!MemoryOutlivesReader

\* Registers that several tasks change are what they have made them: the period,
\* pulses and outputs of a timer (pwm.c), a GPIO port (gpio.h, gpio.c), the clocks of
\* peripherals (rcc.c, prcm.c), the modes of a UART (usart.c), any two neighbours
\* that the headers name (raw_mem.h), the functions of pins (gpio.h, the constructors
\* of ports), the endpoints, FIFOs and the address of the USB core (usbdev_init.c,
\* usbdev_cdc.c); a sensor that is ready is awake.
RegistersExact ==
    /\ which = "pwm" => P!PeriodKept /\ P!PulseKept /\ P!OutputsExact
    /\ which = "gpio" => G!RegistersKept
    /\ which = "sensors" => N!ReadyAwake
    /\ which = "clocks" => E!ClocksKept /\ E!BankKept
    /\ which = "usart" => Y!InitExact
    /\ which = "pins" => Z!OutputExact /\ Z!FreePinsReset /\ Z!AccessExact
    /\ which = "registers" => Reg!FieldsKept
    /\ which = "usbenum" => Enum!EndpointsExact /\ Enum!AddressExact
    /\ which = "pinconfig" => Config!PinsExact /\ Config!FunctionsExact

\* A task gets the data that it asked for, and its own reach the device whole:
\* conversions (adc.c), bytes on an I2C bus, readings of a sensor, transfers of
\* USB and of the DMA, the answers to a USB host, reads and writes of a polled UART.
TransfersExact ==
    /\ which = "adc" => A!ConvertsOwn /\ A!SequenceExact
    /\ which = "i2c" => I!AckExact
    /\ which = "sensors" => N!ReadsOwn
    /\ which = "usb" => U!TransferExact
    /\ which = "dma" => R!CompletionExact
    /\ which = "usart" => Y!WritesWhole /\ Y!ReadsWhole
    /\ which = "usbenum" => Enum!AnswersFit

\* An interrupt is served, with what belongs to it, and its handler ends: those of
\* the data endpoints of USB (usbdev_core.c), of the control endpoint
\* (usbdev_int.c, usbdev_cdc.c), those of the whole core from its start on
\* (usbdev_init.c), of the AM335x (interrupts.c, timer.c).
InterruptsServed ==
    /\ which = "usb" => U!TxInterruptEnds
    /\ which = "usbcontrol" => V!SetupExact /\ V!HandlerEnds /\ V!RequestPending
    /\ which = "usbenum" => Enum!ReceivesAgain /\ Enum!ReadyWhenSeen /\ Enum!NoStorm
    /\ which = "intc" => Q!HandlerGetsData /\ Q!TickFollows

\* Text stays in its buffer, with room for the NUL: that of a stream
\* (buf_stream.c), of formatted output (stdio.c), of the lines of the shell; and the
\* blocks of a device tree stay in its buffer (fdt_rw.c, fdt_sw.c).
TextBounded ==
    /\ which = "streams" => T!Terminated
    /\ which = "stdio" => O!HoldingBounded /\ O!BufferHasRoom
    /\ which = "shell" => H!CursorInText /\ H!LinesTerminated
    /\ which = "libfdt" => J!BlobBounded

\* What is converted, copied or parsed is what was meant: formatted output
\* (stdio.c), numbers, moves and comparisons (stdlib.c, string.c), the words of a
\* command (shell.c), lists, parents and drivers in the device tree (fdtparse.c,
\* device.c), the tree itself, however its blob is edited (libfdt), the USB
\* descriptors, by the host (usbdev_desc.c), the names and functions of pins
\* (gpio.c, pwm.c).
ConversionsExact ==
    /\ which = "stdio" => O!PrintedExact
    /\ which = "stdlib" => L!TextExact /\ L!ParseExact /\ L!MoveExact /\ L!CompareExact
    /\ which = "shell" => H!ArgvExact
    /\ which = "fdt" => F!EntriesExact /\ F!InterruptParentExact /\ F!RegisteredExact
    /\ which = "libfdt" => J!TreeKept /\ J!LookupsExact
    /\ which = "usbenum" => Enum!DescriptorsExact
    /\ which = "pinconfig" => Config!NamesExact /\ Config!TablesAgree

\* What is put in first comes out first: bytes written and read over USB
\* (usbdev_core.c, usbdev_char.c) and in a shared memory (shared_mem.c), messages
\* of a deque (shared_deq.h).  And each step of the bitfield allocator is one of
\* HeapSpec, or none (bitfield_mm_malloc.c, bitfield_mm_free.c).
InOrder ==
    [][/\ which = "usb" => U!TxOrderStep /\ U!RxOrderStep
       /\ which = "streams" => T!SharedInOrderStep
       /\ which = "commands" => K!FirstInFirstOut'
       /\ which = "bitfield" => B!HeapAction /\ B!GrainsExact']_allVars

\* The steps of t inside the driver; the bitfield allocator has none, its
\* operations being single steps.
Work(t) ==
    CASE which = "pwm" -> P!Work(t)         [] which = "adc" -> A!Work(t)
      [] which = "i2c" -> I!Work(t)         [] which = "spi" -> S!Work(t)
      [] which = "sensors" -> N!Work(t)     [] which = "gpio" -> G!Work(t)
      [] which = "devices" -> D!Work(t)     [] which = "ctors" -> C!Work(t)
      [] which = "usb" -> U!Work(t)         [] which = "streams" -> T!Work(t)
      [] which = "stdio" -> O!Work(t)       [] which = "context" -> X!Work(t)
      [] which = "atomic" -> M!Switch(t) \/ M!Work(t)
      [] which = "dma" -> R!Work(t)         [] which = "intc" -> Q!Work(t)
      [] which = "clocks" -> E!Work(t)
      [] which = "usart" -> Y!Work(t)
      [] which = "pins" -> Z!Work(t)
      [] which = "registers" -> Reg!Work(t) [] which = "pinconfig" -> Config!Work(t)

\* Not every task waits: while some task is inside an operation of a driver, one
\* of them can go on, or an interrupt or a transfer that is under way will let it.
\* The locks are taken in an order without cycles and are given back, on error
\* paths too.  The exception is an I2C port that cannot be initialized, whose
\* first user keeps the lock.
SomeoneGoesOn ==
    LET Inside == {t \in Tasks : pc[t] \notin {"idle", "ready"}}
    IN  Inside # {} /\ ~(which = "i2c" /\ ~dev.clock) =>
            \/ \E t \in Inside : ENABLED Work(t)
            \/ which = "usb" /\ ENABLED U!Handler
            \/ which = "dma" /\ ENABLED R!Controller
            \/ which = "intc" /\ ENABLED Q!Handler
            \/ which = "clocks" /\ ENABLED E!Hardware
            \/ which = "usart" /\ ENABLED Y!Line
================================================================================
