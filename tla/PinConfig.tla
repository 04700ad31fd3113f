------------------------------- MODULE PinConfig --------------------------------
(***************************************************************************)
(* How the pins of the STM32F4 get their functions: the constructors of    *)
(* the UART, I2C and SPI drivers read the number of the peripheral and the *)
(* pins in the device tree (dev/fdtparse.c), look up the alternative       *)
(* function (gpio.c) and set the fields of the port's registers one after  *)
(* the other (gpio.h); PWM, ADC and LED do so for a pin that they are      *)
(* given.  Each change of a field is one step here: Pins.tla shows the     *)
(* loops of load_link and store_conditional.  A word is the set of its     *)
(* bits.                                                                   *)
(***************************************************************************)
EXTENDS Calls, Sequences, SequencesExt, FiniteSetsExt, Functions

CONSTANTS
    PinPools,       \* the pins of a port that the tasks use, one set for each behaviour
    TreePeriphs,    \* the numbers of peripherals that the device tree names
    PwmTimers       \* the timers that pwm_get finds

PinConfigAssumption ==
    /\ \A pool \in PinPools : \E port \in 0..8 : \A n \in pool : n \in 16 * port..16 * port + 15
    /\ TreePeriphs \subseteq Nat /\ PwmTimers \subseteq {1, 3, 4} \cup 8..14

-------------------------------------------------------------------------------
(* The enumerations of gpio.h and periph.h, and the tables between them *)

Numbered(name, first, last) == [i \in 1..(last - first + 1) |-> <<name, first + i - 1>>]

Singles(names) == [i \in 1..Len(names) |-> <<names[i], 1>>]

\* The peripheral of the number i is the element i + 1.
stm32f4_periph_id ==
    Numbered("GPIO", 0, 8) \o Numbered("TIM", 1, 14) \o Numbered("SPI", 1, 3) \o Numbered("I2C", 1, 3)
        \o Numbered("USART", 1, 6) \o Numbered("CAN", 1, 2) \o Singles(<<"SDIO", "ETH", "DCMI", "FSMC">>)
        \o Numbered("DMA", 1, 2) \o Numbered("ADC", 1, 3)
        \o Singles(<<"DAC", "USBFS", "USBHS", "WWDG", "PWR", "SYSCFG", "CRC", "RNG", "HASH", "CRYP", "CCMRAM">>)
        \o Numbered("SPI", 4, 6)
NUM_STM32F4_PERIPH == Len(stm32f4_periph_id)
IdOf(p) == (CHOOSE i \in 1..NUM_STM32F4_PERIPH : stm32f4_periph_id[i] = p) - 1

\* No function: -1, of which a register gets the low eight bits.
UNKNOWN == -1
SYSTEM == 0
stm32f4_gpio_alt_funcs ==
    [TIM |-> <<1, 1, 2, 2, 2, UNKNOWN, UNKNOWN, 3, 3, 3, 3, 9, 9, 9>>, SPI |-> <<5, 5, 6, 5, 5, 5>>,
     I2C |-> <<4, 4, 4>>, USART |-> <<7, 7, 7, 8, 8, 8>>, CAN |-> <<9, 9>>, USBFS |-> <<10>>,
     USBHS |-> <<10>>, ETH |-> <<11>>, FSMC |-> <<12>>, SDIO |-> <<12>>, DCMI |-> <<13>>]

gpio_alt_funcs_lookup(id) ==
    LET p == stm32f4_periph_id[id + 1]
    IN  CASE p[1] \in {"GPIO", "ADC", "DAC"} -> SYSTEM
          [] p[1] \in DOMAIN stm32f4_gpio_alt_funcs -> stm32f4_gpio_alt_funcs[p[1]][p[2]]
          [] OTHER -> UNKNOWN

gpio_periph_to_alt_func(id) ==
    IF id \notin 0..(NUM_STM32F4_PERIPH - 1) THEN UNKNOWN ELSE gpio_alt_funcs_lookup(id)

\* pwm.c: the timers that have no channel have no function either.
Timers == {1, 3, 4} \cup 8..14
timer_gpio_af(timer) ==
    CASE timer \in 1..2 -> 1 [] timer \in 3..5 -> 2 [] timer \in 8..11 -> 3
      [] timer \in 12..14 -> 9 [] OTHER -> UNKNOWN

\* enum stm32f4_gpios: PA0 to PI11.
STM32F4_NUM_GPIOS == 140
stm32f4_gpios(port, pin) == 16 * port + pin
gpio_valid(n) == n < STM32F4_NUM_GPIOS
stm32f4_gpio_decode(n) == [port |-> n \div 16, pin |-> n % 16]

\* A name without the first digit of the pin.
LastDigit(g) == <<"P", g.port, g.pin % 10>>

\* itoa writes the pin; letters are numbers from A on.
stm32f4_gpio_build_name(g) ==
    <<"P", g.port>> \o (IF g.pin < 10 THEN <<g.pin>> ELSE <<g.pin \div 10, g.pin % 10>>)
NameBuffer == 5

-------------------------------------------------------------------------------
(* Fields of registers *)

MODER == [IN |-> 0, OUT |-> 1, ALT |-> 2, ANA |-> 3]
OTYPER == [PUSH_PULL |-> 0, OPEN_DRAIN |-> 1]
OSPEEDR == [S2MHZ |-> 0, S25MHZ |-> 1, S50MHZ |-> 2, S100MHZ |-> 3]
PUPDR == [NONE |-> 0, UP |-> 1, DOWN |-> 2]

Words == {"MODER", "OTYPER", "OSPEEDR", "PUPDR", "AFRL", "AFRH"}
Fields == {"MODER", "OTYPER", "OSPEEDR", "PUPDR", "AFR"}
Width(f) == CASE f = "OTYPER" -> 1 [] f = "AFR" -> 4 [] OTHER -> 2

\* The word and the first bit of the field f of a pin.
Word(f, pin) == IF f # "AFR" THEN f ELSE IF pin < 8 THEN "AFRL" ELSE "AFRH"

\* Taken from pin 0 on in the upper word too.
PlaceUnshifted(f, pin) == Width(f) * pin

Place(f, pin) == IF Word(f, pin) = "AFRH" THEN 4 * (pin - 8) ELSE Width(f) * pin

Bits(v) == {b \in 0..7 : (v \div 2^b) % 2 = 1}
Cleared(w, f, pin) == w \ Place(f, pin)..(Place(f, pin) + Width(f) - 1)

\* gpio_moder, gpio_otyper, gpio_ospeedr, gpio_pupdr and gpio_afr: the value is a
\* uint8_t, which is not masked.
Insert(w, f, pin, v) == (Cleared(w, f, pin) \cup {b + Place(f, pin) : b \in Bits(v % 256)}) \cap 0..31

Value(w, f, pin) ==
    MapThenSumSet(LAMBDA b : IF b + Place(f, pin) \in w THEN 2^b ELSE 0, 0..(Width(f) - 1))

-------------------------------------------------------------------------------
(* dev/fdtparse.c: a property is absent, or so many cells *)

Absent == [len |-> -1, cells |-> <<>>]
Cells(s) == [len |-> 4 * Len(s), cells |-> s]
Failure == -1

fdtparse_get_int(p) == IF p.len < 4 THEN Failure ELSE p.cells[1]
fdtparse_get_gpio(p) == IF p.len # 12 THEN Failure ELSE p.cells[2]

-------------------------------------------------------------------------------
(* What the drivers do to a pin, in order *)

set_flags(f, v) == IF f = "AFR" THEN <<<<"MODER", MODER.ALT>>, <<"AFR", v>>>> ELSE <<<<f, v>>>>
Speed50 == set_flags("OSPEEDR", OSPEEDR.S50MHZ)
direction(d) == <<<<"MODER", d>>>>

uart_pin(af) ==
    Speed50 \o set_flags("OTYPER", OTYPER.PUSH_PULL) \o set_flags("PUPDR", PUPDR.NONE) \o set_flags("AFR", af)
i2c_pin(af) ==
    Speed50 \o set_flags("OTYPER", OTYPER.OPEN_DRAIN) \o set_flags("PUPDR", PUPDR.UP) \o set_flags("AFR", af)
spi_pin(af) == Speed50 \o set_flags("AFR", af)

\* stm32f4_i2c_force_clear_busy clocks the first pin by hand.
force_clear_busy(pins, af) ==
    [i \in 1..2 |-> <<pins[i], <<"MODER", IF i = 1 THEN MODER.OUT ELSE MODER.IN>>>>]
        \o FlattenSeq([i \in 1..2 |-> [k \in 1..2 |-> <<pins[i], set_flags("AFR", af)[k]>>]])

\* stm32f4_gpio_reset; the alternative function stays.
reset ==
    <<<<"MODER", MODER.IN>>, <<"OTYPER", OTYPER.PUSH_PULL>>, <<"OSPEEDR", OSPEEDR.S2MHZ>>,
      <<"PUPDR", PUPDR.NONE>>>>

PinsOf(kind) == CASE kind = "spi" -> 3 [] kind \in {"uart", "i2c"} -> 2 [] OTHER -> 1
Settings(kind, af) ==
    CASE kind = "uart" -> uart_pin(af) [] kind = "i2c" -> i2c_pin(af) [] kind = "spi" -> spi_pin(af)
      [] kind = "pwm" -> set_flags("AFR", af) [] kind = "adc" -> direction(MODER.ANA)
      [] kind = "led" -> direction(MODER.OUT)

-------------------------------------------------------------------------------
(* is: what each field of each pin should be.  names: of the pins that exist as *)
(* objects.  A task makes one device: pins: those that it has; todo: changes of *)
(* fields, each of one pin.  A task that has failed has no device.              *)
Unused == [kind |-> "none", af |-> UNKNOWN, pins |-> <<>>, todo |-> <<>>]

Init ==
    /\ \/ \E pool \in PinPools : dev = [part |-> "config", pool |-> pool, names |-> {},
                                        is |-> [n \in pool |-> [f \in Fields |-> 0]]]
       \/ dev = [part |-> "names", pool |-> {}, names |-> {}, is |-> <<>>]
    /\ hw = [w \in Words |-> {}]
    /\ lock = <<>> /\ pc = [t \in Tasks |-> "idle"] /\ loc = [t \in Tasks |-> Unused]

\* Every number can be asked for; an object of a pin is found by its name.
_gpio_instantiate ==
    /\ dev.part = "names" /\ Cardinality(dev.names) < 2
    /\ \E n \in 0..(STM32F4_NUM_GPIOS + 1) \ {d.num : d \in dev.names} :
          /\ gpio_valid(n)
          /\ dev' = [dev EXCEPT !.names =
                       @ \cup {[num |-> n, name |-> stm32f4_gpio_build_name(stm32f4_gpio_decode(n))]}]
    /\ UNCHANGED <<hw, lock, pc, loc>>

Begin(t, kind, af) ==
    /\ Set(t, [Unused EXCEPT !.kind = kind, !.af = af])
    /\ Goto(t, "pins")

\* A constructor that does not ask whether there is a function.
NeverRefuses(af) == FALSE

Refuses(af) == af = UNKNOWN

\* The ports.  stmicro,periph-id is absent, too short, or a number; a UART and an
\* SPI port ask for their function, that of I2C is one for all.
Construct(t) ==
    /\ dev.part = "config" /\ pc[t] = "idle"
    /\ \E kind \in {"uart", "spi", "i2c"},
          p \in {Absent, [len |-> 2, cells |-> <<>>]} \cup {Cells(<<i>>) : i \in TreePeriphs} :
          LET id == fdtparse_get_int(p)
              af == IF kind = "i2c" THEN stm32f4_gpio_alt_funcs.I2C[1] ELSE gpio_periph_to_alt_func(id)
          IN  IF id = Failure \/ Refuses(af) THEN Goto(t, "ready") /\ UNCHANGED loc ELSE Begin(t, kind, af)
    /\ UNCHANGED <<dev, hw, lock>>

\* A timer's channel, a converter's or a LED, on a pin that the caller has.
pwm_get(t) ==
    /\ dev.part = "config" /\ pc[t] = "idle"
    /\ \E timer \in PwmTimers : Begin(t, "pwm", timer_gpio_af(timer))
    /\ UNCHANGED <<dev, hw, lock>>

adc_led_get(t) ==
    /\ dev.part = "config" /\ pc[t] = "idle"
    /\ \E kind \in {"adc", "led"} : Begin(t, kind, UNKNOWN)
    /\ UNCHANGED <<dev, hw, lock>>

Taken == UNION {Range(loc[t].pins) : t \in Tasks}

\* What the device tree may say of a pin.
GpioCells ==
    {Absent, Cells(<<0, 0>>)} \cup {Cells(<<0, n, 0>>) : n \in (dev.pool \ Taken) \cup {STM32F4_NUM_GPIOS}}

\* All pins that the device has are put: gpio_dtor resets them before their objects end.
Put(l) ==
    [l EXCEPT !.todo = FlattenSeq([i \in 1..Len(l.pins) |-> [k \in 1..4 |-> <<l.pins[i], reset[k]>>]])]

\* gpio_get of the next pin, or an error path.
GetPin(t) ==
    /\ pc[t] = "pins" /\ loc[t].todo = <<>> /\ Len(loc[t].pins) < PinsOf(loc[t].kind)
    /\ \E p \in GpioCells :
          LET n == fdtparse_get_gpio(p)
              s == Settings(loc[t].kind, loc[t].af)
          IN  IF n # Failure /\ gpio_valid(n)
              THEN /\ Set(t, [loc[t] EXCEPT !.pins = Append(@, n), !.todo = [k \in 1..Len(s) |-> <<n, s[k]>>]])
                   /\ UNCHANGED pc
              ELSE Set(t, Put(loc[t])) /\ Goto(t, "undo")
    /\ UNCHANGED <<dev, hw, lock>>

\* One change of a field.
Change(t) ==
    /\ pc[t] \in {"pins", "undo", "busy"} /\ loc[t].todo # <<>>
    /\ LET n == Head(loc[t].todo)[1]
           f == Head(loc[t].todo)[2][1]
           v == Head(loc[t].todo)[2][2]
           pin == stm32f4_gpio_decode(n).pin
       IN  /\ hw' = [hw EXCEPT ![Word(f, pin)] = Insert(@, f, pin, v)]
           /\ dev' = [dev EXCEPT !.is[n][f] = v]
    /\ Set(t, [loc[t] EXCEPT !.todo = Tail(@)])
    /\ UNCHANGED <<lock, pc>>

Finish(t) ==
    /\ loc[t].todo = <<>>
    /\ \/ pc[t] = "pins" /\ Len(loc[t].pins) = PinsOf(loc[t].kind) /\ Goto(t, "ready") /\ UNCHANGED loc
       \/ pc[t] = "undo" /\ Goto(t, "ready") /\ Set(t, Unused)
       \/ pc[t] = "busy" /\ Goto(t, "ready") /\ UNCHANGED loc
    /\ UNCHANGED <<dev, hw, lock>>

Recover(t) ==
    /\ loc[t].kind = "i2c" /\ Step(t, "ready", "busy")
    /\ Set(t, [loc[t] EXCEPT !.todo = force_clear_busy(loc[t].pins, loc[t].af)])
    /\ UNCHANGED <<dev, hw, lock>>

Work(t) == GetPin(t) \/ Change(t) \/ Finish(t)

Next ==
    \/ _gpio_instantiate
    \/ \E t \in Tasks : Construct(t) \/ pwm_get(t) \/ adc_led_get(t) \/ Recover(t) \/ Work(t)

Spec == Init /\ [][Next]_vars

-------------------------------------------------------------------------------
(* Properties *)

TypeOK ==
    /\ \A w \in Words : hw[w] \subseteq 0..31
    /\ pc \in [Tasks -> {"idle", "pins", "undo", "busy", "ready"}]
    /\ \A t \in Tasks : Range(loc[t].pins) \subseteq dev.pool

\* Every field of every pin is what was last put into it: no change touches the
\* field of another pin, in the upper half of a port and at the last bit either.
PinsExact ==
    \A n \in dev.pool : \A f \in Fields :
        LET pin == stm32f4_gpio_decode(n).pin
        IN  Value(hw[Word(f, pin)], f, pin) = dev.is[n][f]

\* The pins of a device that was made have its function, whatever was made or failed
\* next to them; a pin that nobody has is an input without a pull-up.
FunctionsExact ==
    /\ \A t \in Tasks : pc[t] = "ready" =>
          \A n \in Range(loc[t].pins) :
              CASE loc[t].kind = "adc" -> dev.is[n]["MODER"] = MODER.ANA
                [] loc[t].kind = "led" -> dev.is[n]["MODER"] = MODER.OUT
                [] OTHER -> dev.is[n]["MODER"] = MODER.ALT /\ dev.is[n]["AFR"] = loc[t].af
    /\ \A n \in dev.pool \ Taken :
          dev.is[n]["MODER"] = MODER.IN /\ dev.is[n]["PUPDR"] = PUPDR.NONE

\* Two pins have two names, each of one pin of a port, with room for the NUL.
NamesExact ==
    \A d, e \in dev.names :
        /\ d.name = e.name => d.num = e.num
        /\ Len(d.name) + 1 <= NameBuffer
        /\ \E port \in 0..8, pin \in 0..15 :
              d.num = stm32f4_gpios(port, pin) /\ stm32f4_gpio_decode(d.num) = [port |-> port, pin |-> pin]

\* The table of gpio.c and that of pwm.c give a timer the same function.
TablesAgree == \A timer \in Timers : timer_gpio_af(timer) = gpio_periph_to_alt_func(IdOf(<<"TIM", timer>>))
================================================================================
