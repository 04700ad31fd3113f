---------------------------------- MODULE Pins ----------------------------------
(***************************************************************************)
(* The GPIO drivers of the STM32F4 and the LM4F (their gpio.c): tasks have *)
(* pins of one chip, and set their registers and outputs.  An operation is *)
(* a sequence of changes to registers that all pins of a port share, each  *)
(* a loop over load_link and store_conditional; an output is set by one    *)
(* write that does not touch its neighbours.  How pins are handed out is   *)
(* in Gpio.tla.                                                            *)
(***************************************************************************)
EXTENDS Calls, Sequences

CONSTANT PinPairs       \* the numbers of the pins that the tasks use, for each chip

PinsAssumption == DOMAIN PinPairs = {"stm32f4", "lm4f"}

NoNum == -1

stm32f4_gpio_decode(n) == <<n \div 16, n % 16>>

\* The ports of the LM4F have eight pins, but E has six and F has five.
lm4f_gpio_decode(n) ==
    IF n < 32 THEN <<n \div 8, n % 8>> ELSE IF n < 38 THEN <<4, n - 32>> ELSE <<5, n - 38>>

Decode(n) == IF dev.chip = "stm32f4" THEN stm32f4_gpio_decode(n) ELSE lm4f_gpio_decode(n)
Exists(c) ==
    IF dev.chip = "stm32f4" THEN c[1] \in 0..8 /\ c[2] \in 0..(IF c[1] = 8 THEN 11 ELSE 15)
    ELSE c[1] \in 0..5 /\ c[2] \in 0..(CASE c[1] = 4 -> 5 [] c[1] = 5 -> 4 [] OTHER -> 7)

\* The clocks are registers that the pins of a port have one bit in.
Clocks == {"RCC_AHB1ENR", "RCGCGPIO", "GPIOHBCTL"}
Registers == Clocks \cup {"MODER", "AFR", "PUPDR", "DIR", "DEN"}

-------------------------------------------------------------------------------
(* What the operations do to registers; OTYPER and OSPEEDR are like PUPDR *)

\* The pin is made digital before its port has a clock.
DenFirst(chip) ==
    IF chip = "stm32f4" THEN <<<<"RCC_AHB1ENR", 1>>>> ELSE <<<<"DEN", 1>>, <<"RCGCGPIO", 1>>, <<"GPIOHBCTL", 1>>>>

_gpio_instantiate(chip) ==
    IF chip = "stm32f4" THEN <<<<"RCC_AHB1ENR", 1>>>> ELSE <<<<"RCGCGPIO", 1>>, <<"GPIOHBCTL", 1>>, <<"DEN", 1>>>>

\* A reset that leaves the pull-up.
ModeOnly(chip) == IF chip = "stm32f4" THEN <<<<"MODER", 0>>>> ELSE <<<<"DIR", 0>>, <<"DEN", 0>>>>

reset(chip) == IF chip = "stm32f4" THEN <<<<"MODER", 0>>, <<"PUPDR", 0>>>> ELSE <<<<"DIR", 0>>, <<"DEN", 0>>>>

\* gpio_dtor: reset and dtor, which for the LM4F is reset once more.
dtor(chip) == IF chip = "stm32f4" THEN reset(chip) ELSE reset(chip) \o reset(chip)

direction(chip) == {<<<<IF chip = "stm32f4" THEN "MODER" ELSE "DIR", d>>>> : d \in {0, 1}}

\* The LM4F supports no flags.
set_flags(chip) ==
    IF chip = "stm32f4"
    THEN {<<<<"MODER", 2>>, <<"AFR", 1>>>>, <<<<"PUPDR", 1>>>>, <<<<"PUPDR", 0>>>>, <<<<"RCC_AHB1ENR", 1>>>>}
    ELSE {}

-------------------------------------------------------------------------------
(* uses: what the tasks of a behaviour change, which is in memory and registers *)
(* apart.  level: what the output should be; ll: the register that was loaded.  *)
Nothing == [num |-> NoNum, active_low |-> FALSE, level |-> "unset", toggled |-> FALSE, steps |-> <<>>, ll |-> <<>>]

Init ==
    /\ \E chip \in DOMAIN PinPairs, nums \in SUBSET UNION {UNION PinPairs[c] : c \in DOMAIN PinPairs} :
          /\ nums \in PinPairs[chip]
          /\ \E uses \in {"registers", "values"} : dev = [chip |-> chip, nums |-> nums, uses |-> uses]
    /\ LET cells == {Decode(n) : n \in dev.nums}
       IN  hw = [reg |-> [r \in Registers |-> [c \in cells |-> 0]], out |-> [c \in cells |-> FALSE],
                 monitor |-> Nobody, fault |-> FALSE]
    /\ lock = <<>> /\ pc = [t \in Tasks |-> "idle"] /\ loc = [t \in Tasks |-> Nothing]

Cell(t) == Decode(loc[t].num)
Has(t) == pc[t] = "idle" /\ loc[t].num # NoNum

gpio_get(t) ==
    /\ pc[t] = "idle" /\ loc[t].num = NoNum
    /\ \E n \in dev.nums :
          /\ \A u \in Tasks : loc[u].num # n
          /\ Set(t, [Nothing EXCEPT !.num = n, !.steps = _gpio_instantiate(dev.chip)])
    /\ Goto(t, "steps")
    /\ UNCHANGED <<dev, hw, lock>>

Configure(t) ==
    /\ Has(t) /\ dev.uses = "registers"
    /\ \E s \in direction(dev.chip) \cup set_flags(dev.chip) : Set(t, [loc[t] EXCEPT !.steps = s])
    /\ Goto(t, "steps")
    /\ UNCHANGED <<dev, hw, lock>>

gpio_dtor(t) ==
    /\ Has(t)
    /\ Set(t, [loc[t] EXCEPT !.steps = dtor(dev.chip)])
    /\ Goto(t, "dies")
    /\ UNCHANGED <<dev, hw, lock>>

\* Whether the port of c has a clock, and the bus by which it is addressed.
Clocked(c) ==
    \A r \in IF dev.chip = "stm32f4" THEN {"RCC_AHB1ENR"} ELSE {"RCGCGPIO", "GPIOHBCTL"} :
        \E d \in DOMAIN hw.out : d[1] = c[1] /\ hw.reg[r][d] = 1

load_link(t) ==
    /\ pc[t] \in {"steps", "dies"} /\ loc[t].steps # <<>>
    /\ LET r == Head(loc[t].steps)[1]
       IN  /\ hw' = [hw EXCEPT !.monitor = t, !.fault = @ \/ ~Exists(Cell(t)) \/ (r \notin Clocks /\ ~Clocked(Cell(t)))]
           /\ Set(t, [loc[t] EXCEPT !.ll = hw.reg[r]])
    /\ Goto(t, IF pc[t] = "steps" THEN "store" ELSE "dies_store")
    /\ UNCHANGED <<dev, lock>>

\* The word that t stores: a register of clocks is one for all ports.
Stored(t, r, v) ==
    [c \in DOMAIN hw.out |-> IF c = Cell(t) THEN v ELSE IF r \in Clocks \/ c[1] = Cell(t)[1] THEN loc[t].ll[c]
                             ELSE hw.reg[r][c]]

store_conditional(t) ==
    /\ pc[t] \in {"store", "dies_store"}
    /\ LET s == Head(loc[t].steps)
       IN  IF hw.monitor = t
              THEN /\ hw' = [hw EXCEPT !.monitor = Nobody, !.reg[s[1]] = Stored(t, s[1], s[2])]
                   /\ Set(t, [loc[t] EXCEPT !.ll = <<>>, !.steps = Tail(@)])
              ELSE Set(t, [loc[t] EXCEPT !.ll = <<>>]) /\ UNCHANGED hw
    /\ Goto(t, IF pc[t] = "store" THEN "steps" ELSE "dies")
    /\ UNCHANGED <<dev, lock>>

Return(t) ==
    /\ pc[t] \in {"steps", "dies"} /\ loc[t].steps = <<>>
    /\ Goto(t, "idle")
    /\ IF pc[t] = "dies" THEN Set(t, Nothing) ELSE UNCHANGED loc
    /\ UNCHANGED <<dev, hw, lock>>

-------------------------------------------------------------------------------
(* Values *)

Xor(a, b) == a # b

active_low(t) ==
    /\ Has(t) /\ dev.uses = "values"
    /\ \E b \in BOOLEAN : Set(t, [loc[t] EXCEPT !.active_low = b])
    /\ UNCHANGED <<dev, hw, lock, pc>>

\* A write of the whole port.
WritesPort(out, c, v) == [d \in DOMAIN out |-> IF d[1] = c[1] THEN d = c /\ v ELSE out[d]]

\* GPIO_BSRR, or the address that masks the other pins of DATA.
Written(out, c, v) == [out EXCEPT ![c] = v]

set_output_value(t, val) == hw' = [hw EXCEPT !.out = Written(@, Cell(t), Xor(val, loc[t].active_low))]
get_output_value(t) == Xor(hw.out[Cell(t)], loc[t].active_low)

led_set(t) ==
    /\ Has(t) /\ dev.uses = "values"
    /\ \E val \in BOOLEAN :
          /\ set_output_value(t, val)
          /\ Set(t, [loc[t] EXCEPT !.level = IF val # loc[t].active_low THEN "high" ELSE "low"])
    /\ UNCHANGED <<dev, lock, pc>>

led_toggle(t) ==
    /\ Has(t) /\ loc[t].level # "unset"
    /\ Set(t, [loc[t] EXCEPT !.toggled = get_output_value(t)])
    /\ Goto(t, "toggle")
    /\ UNCHANGED <<dev, hw, lock>>

Toggle(t) ==
    /\ Step(t, "toggle", "idle")
    /\ set_output_value(t, ~loc[t].toggled)
    /\ Set(t, [loc[t] EXCEPT !.level = IF @ = "high" THEN "low" ELSE "high", !.toggled = FALSE])
    /\ UNCHANGED <<dev, lock>>

-------------------------------------------------------------------------------
Work(t) == load_link(t) \/ store_conditional(t) \/ Return(t) \/ Toggle(t)

Next ==
    \E t \in Tasks :
        gpio_get(t) \/ Configure(t) \/ gpio_dtor(t) \/ active_low(t) \/ led_set(t) \/ led_toggle(t) \/ Work(t)

Spec == Init /\ [][Next]_vars

-------------------------------------------------------------------------------
(* Properties *)

TypeOK ==
    /\ \A r \in Registers : \A c \in DOMAIN hw.out : hw.reg[r][c] \in 0..2
    /\ hw.monitor \in Holders
    /\ pc \in [Tasks -> {"idle", "steps", "store", "dies", "dies_store", "toggle"}]
    /\ \A t \in Tasks : loc[t].num \in dev.nums \cup {NoNum}

\* An output is what its task has made it, with the polarity of that time, whatever
\* the task of a neighbouring pin does; a toggle changes it whichever the polarity.
OutputExact ==
    \A t \in Tasks : loc[t].level # "unset" => hw.out[Cell(t)] = (loc[t].level = "high")

\* A pin that nobody has is in the state of a reset, for the next task that gets it.
FreePinsReset ==
    \A n \in dev.nums : (\A t \in Tasks : loc[t].num # n) =>
        \A r \in {"MODER", "PUPDR", "DIR", "DEN"} : hw.reg[r][Decode(n)] = 0

\* No register of a port is used that has no clock, or of a pin that does not exist.
AccessExact == ~hw.fault
================================================================================
