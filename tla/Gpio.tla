---------------------------------- MODULE Gpio ----------------------------------
(***************************************************************************)
(* GPIOs (dev/hw/gpio.c, dev/hw/led.c and the chip's gpio.c): tasks get an *)
(* object for a pin, which enters the collection of the instances of the   *)
(* class (kernel/class.c, kernel/collection.c under the reentrant mutex of *)
(* kernel/reentrant_mutex.c), set the pin's mode and put the object.  The  *)
(* pins of a port share its registers, and all ports share the register    *)
(* of the clocks, which load-link and store-conditional change.  MODER     *)
(* stands for the registers of a port.  An object is a block of memory; a  *)
(* task has at most one.                                                   *)
(***************************************************************************)
EXTENDS Calls, Sequences

CONSTANTS
    GpioPins,       \* the pins, numbered as in the device tree
    PowerLed,       \* the pin of the power LED
    Objects,        \* blocks of memory
    SamePin         \* TRUE if tasks may get the same pin at the same time

GpioAssumption ==
    /\ GpioPins \subseteq Nat /\ PowerLed \in GpioPins
    /\ Objects \subseteq Nat \ {0} /\ Objects # {}
    /\ SamePin \in BOOLEAN

\* stm32f4_gpio_decode.
port(p) == p \div 16
Ports == {port(p) : p \in GpioPins}
PortPins(n) == {p \in GpioPins : port(p) = n}

Modes == {"in", "out"}
NoObject == 0
NoPin == -1

\* A task that has no GPIO; mode is what it last set.
Nothing == [pin |-> NoPin, obj |-> NoObject, mode |-> "in", enr |-> {}, reg |-> <<>>, dying |-> FALSE]

TypeOK ==
    /\ dev.used \subseteq Objects /\ dev.num \in [Objects -> GpioPins]
    /\ dev.list \in Seq(Objects)
    /\ dev.curr \in Objects \cup {NoObject}
    /\ dev.held_by \in Holders /\ dev.count \in Nat
    /\ hw.MODER \in [GpioPins -> Modes] /\ hw.AHB1ENR \subseteq Ports
    /\ hw.monitor \in Holders
    /\ lock \in [{"instances"} -> Holders]
    /\ pc \in [Tasks -> {"idle", "available", "compare", "create", "clock", "clock_sc",
                         "export", "num", "ready", "mode", "mode_sc", "unexport", "free"}]

\* The block that kmalloc returns.
FirstFree(used) == CHOOSE o \in Objects \ used : \A q \in Objects \ used : o <= q

\* init_power_led has got a GPIO at boot and keeps it, if the board has an LED.
\* monitor: the task whose load-link may be followed by its store-conditional.
Init ==
    /\ \E garbage \in GpioPins, led \in SUBSET {FirstFree({})} :
          /\ dev = [used |-> led,
                    num |-> [o \in Objects |-> IF o \in led THEN PowerLed ELSE garbage],
                    list |-> IF led = {} THEN <<>> ELSE <<FirstFree({})>>,
                    curr |-> NoObject, held_by |-> Nobody, count |-> 0]
          /\ hw = [MODER |-> [p \in GpioPins |-> IF led # {} /\ p = PowerLed THEN "out" ELSE "in"],
                   AHB1ENR |-> {port(p) : p \in IF led = {} THEN {} ELSE {PowerLed}},
                   monitor |-> Nobody]
    /\ lock = [m \in {"instances"} |-> Nobody]
    /\ pc = [t \in Tasks |-> "idle"]
    /\ loc = [t \in Tasks |-> Nothing]

Return(t) == Goto(t, "idle") /\ Set(t, Nothing)

-------------------------------------------------------------------------------
(* The reentrant mutex of the collection *)

\* reentrant_acquire and reentrant_release on the driver's memory d.
Entered(d, t) ==
    IF d.held_by = t THEN [d EXCEPT !.count = @ + 1] ELSE [d EXCEPT !.held_by = t, !.count = 1]
Left(d) ==
    [d EXCEPT !.count = @ - 1, !.held_by = IF d.count = 1 THEN Nobody ELSE @]

CanEnter(t) == dev.held_by = t \/ Free("instances")

\* The mutex follows the count.
LockFollows(t) == lock' = [lock EXCEPT !["instances"] = IF dev'.count = 0 THEN Nobody ELSE t]

-------------------------------------------------------------------------------
(* gpio_get *)

gpio_get(t, p) ==
    /\ SamePin \/ \A u \in Tasks : loc[u].pin = p => pc[u] \notin {"available", "compare", "create",
                                                 "clock", "clock_sc", "export", "num"}
    /\ Step(t, "idle", "available")
    /\ Set(t, [Nothing EXCEPT !.pin = p])
    /\ UNCHANGED <<dev, hw, lock>>

\* An iteration that does not lock the collection.
IterUnlocked(t) ==
    /\ pc[t] = "available"
    /\ \/ dev.list = <<>> /\ Goto(t, "create") /\ UNCHANGED dev
       \/ dev.list # <<>> /\ Goto(t, "compare") /\ dev' = [dev EXCEPT !.curr = Head(dev.list)]
    /\ UNCHANGED <<hw, lock, loc>>

\* An iteration that begins with the second object.
IterSecond(t) ==
    /\ pc[t] = "available" /\ CanEnter(t)
    /\ \/ /\ Len(dev.list) < 2 /\ Goto(t, "create")
          /\ dev' = Left(Entered(dev, t))
       \/ /\ Len(dev.list) >= 2 /\ Goto(t, "compare")
          /\ dev' = [Entered(dev, t) EXCEPT !.curr = dev.list[2]]
    /\ LockFollows(t)
    /\ UNCHANGED <<hw, loc>>

collection_iter(t) ==
    /\ pc[t] = "available" /\ CanEnter(t)
    /\ \/ /\ dev.list = <<>> /\ Goto(t, "create")
          /\ dev' = Left(Entered(dev, t))
       \/ /\ dev.list # <<>> /\ Goto(t, "compare")
          /\ dev' = [Entered(dev, t) EXCEPT !.curr = Head(dev.list)]
    /\ LockFollows(t)
    /\ UNCHANGED <<hw, loc>>

\* The place of an object in the list.
Place(o) == CHOOSE i \in 1..Len(dev.list) : dev.list[i] = o

\* gpio_available: the pin of the object, then collection_next, which enters and
\* leaves the mutex once more, or collection_stop.
Compare(t) ==
    /\ pc[t] = "compare" /\ CanEnter(t)
    /\ LET i == Place(dev.curr)
           again == Left(Entered(dev, t))
           stopped == [Left(again) EXCEPT !.curr = NoObject]
       IN  \/ dev.num[dev.curr] = loc[t].pin /\ dev' = stopped /\ Return(t)
           \/ /\ dev.num[dev.curr] # loc[t].pin /\ i = Len(dev.list)
              /\ dev' = stopped /\ Goto(t, "create") /\ UNCHANGED loc
           \/ /\ dev.num[dev.curr] # loc[t].pin /\ i < Len(dev.list)
              /\ dev' = [again EXCEPT !.curr = dev.list[i + 1]] /\ UNCHANGED <<pc, loc>>
    /\ LockFollows(t)
    /\ UNCHANGED hw

\* instantiate: there may be no memory.  The number is what the memory had.
instantiate(t) ==
    /\ pc[t] = "create"
    /\ \/ /\ dev.used # Objects
          /\ dev' = [dev EXCEPT !.used = @ \cup {FirstFree(@)}]
          /\ Set(t, [loc[t] EXCEPT !.obj = FirstFree(dev.used)]) /\ Goto(t, "clock")
       \/ Return(t) /\ UNCHANGED dev
    /\ UNCHANGED <<hw, lock>>

\* stm32f4_gpio_clock_enable: the loop over load_link and store_conditional.
ClockLoad(t) ==
    /\ Step(t, "clock", "clock_sc")
    /\ hw' = [hw EXCEPT !.monitor = t]
    /\ Set(t, [loc[t] EXCEPT !.enr = hw.AHB1ENR])
    /\ UNCHANGED <<dev, lock>>

\* A store that is not conditional.
ClockStores(t) ==
    /\ Step(t, "clock_sc", "export")
    /\ hw' = [hw EXCEPT !.AHB1ENR = loc[t].enr \cup {port(loc[t].pin)}]
    /\ Set(t, [loc[t] EXCEPT !.enr = {}])
    /\ UNCHANGED <<dev, lock>>

ClockStore(t) ==
    /\ pc[t] = "clock_sc"
    /\ IF hw.monitor = t
          THEN /\ hw' = [hw EXCEPT !.AHB1ENR = loc[t].enr \cup {port(loc[t].pin)},
                                   !.monitor = Nobody]
               /\ Goto(t, "export")
          ELSE Goto(t, "clock") /\ UNCHANGED hw
    /\ Set(t, [loc[t] EXCEPT !.enr = {}])
    /\ UNCHANGED <<dev, lock>>

\* class_export_member: collection_add puts it first.
class_export_member(t) ==
    /\ Step(t, "export", "num") /\ CanEnter(t)
    /\ dev' = [Left(Entered(dev, t)) EXCEPT !.list = <<loc[t].obj>> \o @]
    /\ LockFollows(t)
    /\ UNCHANGED <<hw, loc>>

SetNum(t) ==
    /\ Step(t, "num", "ready")
    /\ dev' = [dev EXCEPT !.num[loc[t].obj] = loc[t].pin]
    /\ UNCHANGED <<hw, lock, loc>>

-------------------------------------------------------------------------------
(* The mode of a pin *)

\* stm32f4_gpio_direction, also called by led_get; set_flags is alike.
stm32f4_gpio_direction(t, m) ==
    /\ Step(t, "ready", "mode")
    /\ Set(t, [loc[t] EXCEPT !.mode = m])
    /\ UNCHANGED <<dev, hw, lock>>

\* gpio_moder: the loop over load_link and store_conditional.
ModerLoad(t) ==
    /\ Step(t, "mode", "mode_sc")
    /\ hw' = [hw EXCEPT !.monitor = t]
    /\ Set(t, [loc[t] EXCEPT !.reg = [p \in PortPins(port(loc[t].pin)) |-> hw.MODER[p]]])
    /\ UNCHANGED <<dev, lock>>

\* The register after the store of t.
Stored(t) ==
    [p \in GpioPins |-> IF p = loc[t].pin THEN loc[t].mode
                    ELSE IF p \in DOMAIN loc[t].reg THEN loc[t].reg[p]
                    ELSE hw.MODER[p]]
AfterMode(t) == IF loc[t].dying THEN "unexport" ELSE "ready"

ModerStore(t) ==
    /\ pc[t] = "mode_sc"
    /\ IF hw.monitor = t
          THEN /\ hw' = [hw EXCEPT !.MODER = Stored(t), !.monitor = Nobody]
               /\ Goto(t, AfterMode(t))
          ELSE Goto(t, "mode") /\ UNCHANGED hw
    /\ Set(t, [loc[t] EXCEPT !.reg = <<>>])
    /\ UNCHANGED <<dev, lock>>

-------------------------------------------------------------------------------
(* gpio_dtor *)

\* gpio_put of the only reference: stm32f4_gpio_reset.
gpio_dtor(t) ==
    /\ Step(t, "ready", "mode")
    /\ Set(t, [loc[t] EXCEPT !.mode = "in", !.dying = TRUE])
    /\ UNCHANGED <<dev, hw, lock>>

\* collection_del: list_remove of the object at a place.
list_remove(list, i) == [j \in 1..(Len(list) - 1) |-> IF j < i THEN list[j] ELSE list[j + 1]]

class_unexport_member(t) ==
    /\ Step(t, "unexport", "free") /\ CanEnter(t)
    /\ dev' = [Left(Entered(dev, t)) EXCEPT !.list = list_remove(@, Place(loc[t].obj))]
    /\ LockFollows(t)
    /\ UNCHANGED <<hw, loc>>

class_deinstantiate(t) ==
    /\ pc[t] = "free" /\ Return(t)
    /\ dev' = [dev EXCEPT !.used = @ \ {loc[t].obj}]
    /\ UNCHANGED <<hw, lock>>

-------------------------------------------------------------------------------
Call(t) ==
    \/ \E p \in GpioPins : gpio_get(t, p)
    \/ \E m \in Modes : stm32f4_gpio_direction(t, m)
    \/ gpio_dtor(t)

Work(t) ==
    \/ collection_iter(t) \/ Compare(t) \/ instantiate(t) \/ ClockLoad(t) \/ ClockStore(t)
    \/ class_export_member(t) \/ SetNum(t) \/ ModerLoad(t) \/ ModerStore(t)
    \/ class_unexport_member(t) \/ class_deinstantiate(t)

Next == \E t \in Tasks : Call(t) \/ Work(t)

Spec == Init /\ [][Next]_vars

-------------------------------------------------------------------------------
(* Properties *)

\* The task has an object for its pin.
Has(t) == pc[t] \in {"ready", "mode", "mode_sc"}

\* gpio.c on gpio_available: "A GPIO is only available if there is no obj
\* instantiated for it."  No two tasks have an object for the same pin.
OneObjectPerPin ==
    \A t, u \in Tasks : Has(t) /\ Has(u) /\ t # u => loc[t].pin # loc[u].pin

\* A walk over the instances visits objects that are in the list, and these are
\* allocated: no object is removed and freed under a walk, the reentrant mutex is
\* left as often as it is entered, and its holder is the holder of its mutex.
WalkSound ==
    /\ \A i \in 1..Len(dev.list) : dev.list[i] \in dev.used
    /\ \A t \in Tasks : pc[t] = "compare" =>
          dev.held_by = t /\ dev.count = 1 /\ \E i \in 1..Len(dev.list) : dev.list[i] = dev.curr
    /\ dev.held_by = lock["instances"]
    /\ dev.held_by = Nobody <=> dev.count = 0

\* The mode of a pin is the one its task set last, and the clock of its port is
\* on: no change of a shared register by another task is lost.
RegistersKept ==
    \A t \in Tasks : pc[t] = "ready" =>
        hw.MODER[loc[t].pin] = loc[t].mode /\ port(loc[t].pin) \in hw.AHB1ENR
================================================================================
