--------------------------------- MODULE Ctors ---------------------------------
(***************************************************************************)
(* The constructors and the probes of the device drivers, which device_get *)
(* calls under the driver's mutex, and their users: the functions that get *)
(* a LED or a character device, and the commands of the shell.  Each takes *)
(* its resources one after the other: memory, references to other devices, *)
(* pins, DMA streams.  A step that fails jumps into a chain of labels that *)
(* give back what was taken.                                               *)
(*                                                                         *)
(* A routine is its steps and its chain.  take(r, e): takes r, or else     *)
(* goes to e.  check(e): anything that may fail without taking something:  *)
(* device tree lookups, transfers, the identity of a chip.  keep(r): notes *)
(* a pin in the driver's memory, whose error path puts the noted pins.     *)
(* give(r): gives r back on success.  A label is the element of the chain  *)
(* at which it begins, or End to return at once.  set_flags of a GPIO does *)
(* not fail: the flags that are used here are known to it.  What a command *)
(* reads and prints between its first step and its last is left out.       *)
(***************************************************************************)
EXTENDS Calls, Sequences

End == "end"
take(r, e) == <<[do |-> "take", r |-> r, err |-> e]>>
check(e) == <<[do |-> "check", r |-> "none", err |-> e]>>
keep(r) == <<[do |-> "keep", r |-> r, err |-> End]>>
give(r) == <<[do |-> "give", r |-> r, err |-> End]>>

PortPins == {"pin1", "pin2", "pin3"}
Pin(p) == check("pins") \o take(p, "pins") \o keep(p)

-------------------------------------------------------------------------------
(* The ports of the chip *)

\* A constructor whose second DMA has the label of its own deallocation.
UartMislabelled ==
    [steps |-> check(End) \o take("obj", End) \o take("port", "obj")
               \o take("rx_buffer", "port") \o take("tx_buffer", "rx_buffer")
               \o take("rx_dma", "tx_buffer") \o take("tx_dma", "tx_dma")
               \o check("tx_dma") \o Pin("pin1") \o Pin("pin2"),
     chain |-> <<"pins", "tx_dma", "rx_dma", "tx_buffer", "rx_buffer", "port", "obj">>]

stm32f4_uart_ctor ==
    [steps |-> check(End) \o take("obj", End) \o take("port", "obj")
               \o take("rx_buffer", "port") \o take("tx_buffer", "rx_buffer")
               \o take("rx_dma", "tx_buffer") \o take("tx_dma", "rx_dma")
               \o check("tx_dma") \o Pin("pin1") \o Pin("pin2"),
     chain |-> <<"pins", "tx_dma", "rx_dma", "tx_buffer", "rx_buffer", "port", "obj">>]

stm32f4_i2c_ctor ==
    [steps |-> check(End) \o take("obj", End) \o take("port", "obj")
               \o Pin("pin1") \o Pin("pin2"),
     chain |-> <<"pins", "port", "obj">>]

\* A constructor that returns from a failed pin without the chain.
SpiReturns ==
    [steps |-> check(End) \o take("obj", End) \o take("port", "obj") \o check("port")
               \o Pin("pin1") \o take("pin2", End) \o keep("pin2") \o Pin("pin3"),
     chain |-> <<"pins", "port", "obj">>]

stm32f4_spi_ctor ==
    [steps |-> check(End) \o take("obj", End) \o take("port", "obj") \o check("port")
               \o Pin("pin1") \o Pin("pin2") \o Pin("pin3"),
     chain |-> <<"pins", "port", "obj">>]

stm32f4_dma_ctor ==
    [steps |-> check(End) \o take("obj", End) \o take("clock", "obj"),
     chain |-> <<"obj">>]

\* stm32f4_dma_allocate, which the UART calls; the path is freed in any case.
try_dma_allocate ==
    [steps |-> check(End) \o take("path", End) \o take("bus", "path")
               \o take("stream", "bus") \o give("path"),
     chain |-> <<"bus", "path">>]

\* The private data has no label; there is only one step after it.
stm32f4_usb_ctor == [steps |-> take("priv", End) \o take("char", End), chain |-> <<>>]

-------------------------------------------------------------------------------
(* Character devices that are not devices of the chip *)

\* What a task writes to is freed when its character device is.
shared_mem_create == [steps |-> take("memory", End) \o take("char", "memory"), chain |-> <<"memory">>]
buf_stream_create == [steps |-> take("memory", End) \o take("char", "memory"), chain |-> <<"memory">>]

-------------------------------------------------------------------------------
(* The sensors.  bus is the reference to the parent device. *)

\* The steps up to the private data are the same in all of them.
SensorSteps ==
    check(End) \o take("parent", End) \o take("obj", "parent")
        \o take("bus", "obj") \o take("priv", "obj")
SensorChain == <<"priv", "obj", "parent">>

itg3200_ctor == [steps |-> SensorSteps \o check("priv") \o give("parent"), chain |-> SensorChain]
hmc5883_ctor == [steps |-> SensorSteps \o check("priv") \o give("parent"), chain |-> SensorChain]
ms5611_ctor == [steps |-> SensorSteps \o check("priv") \o give("parent"), chain |-> SensorChain]

\* There is no label for the private data.
as5048b_ctor == [steps |-> SensorSteps \o check("obj") \o give("parent"), chain |-> SensorChain]

\* lis302dl_setup_cs and mpu6000_spi_setup_cs.
SetupCs(e) == check(e) \o take("pin1", e)

lis302dl_ctor ==
    [steps |-> SensorSteps \o SetupCs("priv") \o give("parent"), chain |-> SensorChain]
mpu6000_spi_ctor ==
    [steps |-> SensorSteps \o SetupCs("priv") \o give("parent"), chain |-> SensorChain]
mpu6000_accel_ctor == [steps |-> SensorSteps \o give("parent"), chain |-> SensorChain]
mpu6000_gyro_ctor == [steps |-> SensorSteps \o give("parent"), chain |-> SensorChain]

\* A probe that returns from the chip's answer.
I2cProbeReturns ==
    [steps |-> check(End) \o take("parent", End) \o take("bus", "parent") \o check("bus"),
     chain |-> <<"bus", "parent">>]

I2cProbe ==
    [steps |-> check(End) \o take("parent", End) \o take("bus", "parent")
               \o check("bus") \o give("bus") \o give("parent"),
     chain |-> <<"bus", "parent">>]
itg3200_probe == I2cProbe
hmc5883_probe == I2cProbe
ms5611_probe == I2cProbe
as5048b_probe == I2cProbe

\* The result of device_get is not tested: the SPI port is taken to exist.  A
\* label that is not in the chain is never used.
SpiProbe ==
    [steps |-> check(End) \o take("parent", End) \o take("bus", "exists") \o SetupCs("bus")
               \o take("transaction", "never") \o check("transaction")
               \o give("transaction") \o give("pin1") \o give("bus") \o give("parent"),
     chain |-> <<"transaction", "pin1", "bus", "parent">>]
lis302dl_probe == SpiProbe
mpu6000_spi_probe == SpiProbe

mpu6000_accel_probe ==
    [steps |-> check(End) \o take("parent", End) \o take("bus", "parent")
               \o give("bus") \o give("parent"),
     chain |-> <<"parent">>]
mpu6000_gyro_probe == mpu6000_accel_probe

-------------------------------------------------------------------------------
(* Users of the devices *)

led_get == [steps |-> check(End) \o take("gpio", End) \o check("gpio") \o check("gpio"),
            chain |-> <<"gpio">>]

\* The character device has a reference of its own to the base.
char_device_get ==
    [steps |-> take("base", End) \o take("char", "base") \o give("base"), chain |-> <<"base">>]

\* accel, gyro, mag, baro and rotary_encoder: the device is put when q is typed.
SensorCommand ==
    [steps |-> check(End) \o take("device", End) \o give("device"), chain |-> <<>>]
accel == SensorCommand
gyro == SensorCommand
mag == SensorCommand
baro == SensorCommand
rotary_encoder == SensorCommand

char_dev == [steps |-> check(End) \o take("char", End) \o give("char"), chain |-> <<>>]

\* The device is put once there is a character device for it.
uart ==
    [steps |-> check(End) \o take("device", End) \o check("device") \o check("device")
               \o take("char", "device") \o give("device") \o give("char"),
     chain |-> <<"device">>]

\* get_adc, whose caller notes the result.
get_adc(r) == take("gpio", "out") \o take(r, "gpio") \o give("gpio") \o keep(r)

\* With two pins; out puts those that are noted, which is also how it ends.
adc ==
    [steps |-> check(End) \o get_adc("adc1") \o get_adc("adc2") \o give("adc1") \o give("adc2"),
     chain |-> <<"gpio", "out">>]

\* The PWM is never put, as the comment on it says; the pin is only put when there
\* is a PWM.
pwm ==
    [steps |-> check(End) \o take("gpio", End) \o take("pwm", End) \o give("gpio") \o check(End),
     chain |-> <<>>]

\* With two messages instead of five.
list_test ==
    [steps |-> take("message1", End) \o take("message2", End)
               \o give("message1") \o give("message2"),
     chain |-> <<>>]

-------------------------------------------------------------------------------
Probes ==
    {"itg3200_probe", "hmc5883_probe", "ms5611_probe", "as5048b_probe", "lis302dl_probe",
     "mpu6000_spi_probe", "mpu6000_accel_probe", "mpu6000_gyro_probe"}
Constructors ==
    {"uart", "i2c", "spi", "dma", "dma_allocate", "usb", "itg3200", "hmc5883", "ms5611", "as5048b",
     "lis302dl", "mpu6000_spi", "mpu6000_accel", "mpu6000_gyro"}
Gets == {"led_get", "char_device_get", "shared_mem_create", "buf_stream_create"}
Commands ==
    {"accel", "gyro", "mag", "baro", "rotary_encoder", "char_dev", "uart_command", "adc", "pwm",
     "list_test"}
Routines == Probes \cup Constructors \cup Gets \cup Commands

Routine(op) ==
    CASE op = "uart" -> stm32f4_uart_ctor         [] op = "i2c" -> stm32f4_i2c_ctor
      [] op = "spi" -> stm32f4_spi_ctor           [] op = "dma" -> stm32f4_dma_ctor
      [] op = "dma_allocate" -> try_dma_allocate  [] op = "itg3200" -> itg3200_ctor
      [] op = "hmc5883" -> hmc5883_ctor           [] op = "ms5611" -> ms5611_ctor
      [] op = "as5048b" -> as5048b_ctor           [] op = "lis302dl" -> lis302dl_ctor
      [] op = "mpu6000_spi" -> mpu6000_spi_ctor   [] op = "mpu6000_accel" -> mpu6000_accel_ctor
      [] op = "mpu6000_gyro" -> mpu6000_gyro_ctor [] op = "itg3200_probe" -> itg3200_probe
      [] op = "hmc5883_probe" -> hmc5883_probe    [] op = "ms5611_probe" -> ms5611_probe
      [] op = "as5048b_probe" -> as5048b_probe    [] op = "lis302dl_probe" -> lis302dl_probe
      [] op = "mpu6000_spi_probe" -> mpu6000_spi_probe
      [] op = "mpu6000_accel_probe" -> mpu6000_accel_probe
      [] op = "mpu6000_gyro_probe" -> mpu6000_gyro_probe
      [] op = "usb" -> stm32f4_usb_ctor
      [] op = "shared_mem_create" -> shared_mem_create
      [] op = "buf_stream_create" -> buf_stream_create
      [] op = "led_get" -> led_get                [] op = "char_device_get" -> char_device_get
      [] op = "accel" -> accel                    [] op = "gyro" -> gyro
      [] op = "mag" -> mag                        [] op = "baro" -> baro
      [] op = "rotary_encoder" -> rotary_encoder  [] op = "char_dev" -> char_dev
      [] op = "uart_command" -> uart              [] op = "adc" -> adc
      [] op = "pwm" -> pwm                        [] op = "list_test" -> list_test

Nothing == [op |-> "none", step |-> 1, held |-> {}, kept |-> {}]

TypeOK ==
    /\ dev = <<>> /\ hw = <<>>
    /\ lock \in [{"driver"} -> Holders]
    /\ pc \in [Tasks -> {"idle", "run", "undo", "made", "failed"}]
    /\ \A t \in Tasks : /\ loc[t].op \in Routines \cup {"none"}
                        /\ loc[t].step \in Nat \ {0}
                        /\ loc[t].kept \subseteq PortPins \cup {"adc1", "adc2"}

Init ==
    /\ dev = <<>> /\ hw = <<>>
    /\ lock = [m \in {"driver"} |-> Nobody]
    /\ pc = [t \in Tasks |-> "idle"]
    /\ loc = [t \in Tasks |-> Nothing]

Steps(t) == Routine(loc[t].op).steps
Chain(t) == Routine(loc[t].op).chain
At(t) == Steps(t)[loc[t].step]
Running(t) == pc[t] = "run" /\ loc[t].step <= Len(Steps(t))

\* device_get has the driver's mutex; one task is the shell.
Call(t) ==
    /\ Step(t, "idle", "run")
    /\ \E op \in Routines :
          /\ Set(t, [Nothing EXCEPT !.op = op])
          /\ IF op \in Probes \cup Constructors THEN acquire(t, "driver") ELSE UNCHANGED lock
          /\ op \in Commands => \A u \in Tasks : loc[u].op \notin Commands
    /\ UNCHANGED <<dev, hw>>

\* A step that succeeds.
Succeeds(t) ==
    /\ Running(t)
    /\ Set(t, [loc[t] EXCEPT
                 !.step = @ + 1,
                 !.held = IF At(t).do = "take" THEN @ \cup {At(t).r}
                          ELSE IF At(t).do = "give" THEN @ \ {At(t).r} ELSE @,
                 !.kept = IF At(t).do = "keep" THEN @ \cup {At(t).r} ELSE @])
    /\ UNCHANGED <<dev, hw, lock, pc>>

\* The place of the label e in the chain of t.
Label(t, e) == CHOOSE i \in 1..Len(Chain(t)) : Chain(t)[i] = e

Fails(t) ==
    /\ Running(t) /\ At(t).do \in {"take", "check"}
    /\ \/ At(t).err = End /\ Goto(t, "failed") /\ UNCHANGED loc
       \/ /\ \E i \in 1..Len(Chain(t)) : Chain(t)[i] = At(t).err
          /\ Goto(t, "undo") /\ Set(t, [loc[t] EXCEPT !.step = Label(t, At(t).err)])
    /\ UNCHANGED <<dev, hw, lock>>

\* The element of the chain at which t is, and what it gives back.
Released(t) == LET r == Chain(t)[loc[t].step] IN IF r \in {"pins", "out"} THEN loc[t].kept ELSE {r}

Undo(t) ==
    /\ pc[t] = "undo"
    /\ Set(t, [loc[t] EXCEPT !.step = @ + 1, !.held = @ \ Released(t)])
    /\ Goto(t, IF loc[t].step = Len(Chain(t)) THEN "failed" ELSE "undo")
    /\ UNCHANGED <<dev, hw, lock>>

\* The end of the routine: class_export_member.
Made(t) ==
    /\ Step(t, "run", "made")
    /\ loc[t].step > Len(Steps(t))
    /\ UNCHANGED <<dev, hw, lock, loc>>

Return(t) ==
    /\ pc[t] \in {"made", "failed"}
    /\ Goto(t, "idle") /\ Set(t, Nothing)
    /\ IF lock["driver"] = t THEN release("driver") ELSE UNCHANGED lock
    /\ UNCHANGED <<dev, hw>>

Work(t) == Succeeds(t) \/ Fails(t) \/ Undo(t) \/ Made(t) \/ Return(t)

Next == \E t \in Tasks : Call(t) \/ Work(t)

Spec == Init /\ [][Next]_vars

-------------------------------------------------------------------------------
(* Properties *)

\* An error path gives back only what was taken: nothing is freed, put or
\* deallocated twice, or without having been taken, wherever the failure is.
ReleasesHeld == \A t \in Tasks : pc[t] = "undo" => Released(t) \subseteq loc[t].held

\* A constructor that fails has given back every pin, DMA stream and block, so
\* that device_get can try again; but none puts the reference to the device that
\* it is on, and as5048b_ctor and stm32f4_usb_ctor do not free their private data.  A command that fails
\* has put what it got, so that it can be called again; but pwm keeps the pin for
\* which there is no PWM, and list_test the messages before one that is lacking.
FailureGivesBack ==
    \A t \in Tasks : pc[t] = "failed" =>
        CASE loc[t].op = "as5048b" -> loc[t].held \subseteq {"bus", "priv"}
          [] loc[t].op = "usb" -> loc[t].held \subseteq {"priv"}
          [] loc[t].op = "pwm" -> loc[t].held \subseteq {"gpio"} \/ loc[t].held = {"pwm"}
          [] loc[t].op = "list_test" -> loc[t].held \subseteq {"message1"}
          [] loc[t].op \in Constructors \ {"as5048b", "usb", "dma_allocate"} -> loc[t].held \subseteq {"bus"}
          [] OTHER -> loc[t].held = {}

\* One that succeeds has freed the path that it looked its parent up with, and a
\* probe, which tells only whether the device exists, has given back everything, as
\* has a command, but for the PWM that goes on.
SuccessLeavesNothing ==
    \A t \in Tasks : pc[t] = "made" =>
        /\ loc[t].held \cap {"parent", "path", "transaction", "base"} = {}
        /\ loc[t].op \in Probes \cup (Commands \ {"pwm"}) => loc[t].held = {}
        /\ loc[t].op = "pwm" => loc[t].held = {"pwm"}
================================================================================
