--------------------------------- MODULE Clocks ---------------------------------
(***************************************************************************)
(* Clocks.  A behaviour is one of five parts: init_clock of the STM32F4    *)
(* (clock.c), the clocks of its peripherals (rcc.c), its 64-bit counter    *)
(* (dev/hw/perfcounter.c), the PLLs of the AM335x (am335x/clocks.c), and   *)
(* the clocks of the device tree (dev/clocks.c and am335x/prcm.c).         *)
(***************************************************************************)
EXTENDS Calls, Sequences

CONSTANTS
    Periphs,        \* the peripherals whose clocks tasks enable and disable
    SameBus,        \* whether two tasks may do so on one bus at the same time
    Opposed,        \* whether a task may disable a module that another enables
    LowerCounts,    \* the counts of the lower timer
    MaxCount        \* bound: ticks of the counter

ClocksAssumption ==
    /\ SameBus \in BOOLEAN /\ Opposed \in BOOLEAN /\ LowerCounts \in Nat \ {0} /\ MaxCount \in Nat

In(part, s) == dev.part = part /\ dev.at = s
Frame == UNCHANGED <<lock, pc, loc>>

-------------------------------------------------------------------------------
(* init_clock *)

Timeout == 2        \* HSE_STARTUP_TIMEOUT, in looks at the flag

\* The clock is selected before the flash is slow enough.
LatencyLast ==
    <<"reset", "hse", "hsewait", "vos", "prescale", "pllcfg", "pllon", "pllwait", "select",
      "selectwait", "latency", "ccm", "done">>

Steps ==
    <<"reset", "hse", "hsewait", "vos", "prescale", "pllcfg", "pllon", "pllwait", "latency",
      "select", "selectwait", "ccm", "done">>

\* After a reset the processor runs from HSI.
StmInit ==
    /\ dev = [part |-> "init_clock", at |-> 1, count |-> 0, panic |-> FALSE]
    /\ hw = [HSEON |-> FALSE, HSERDY |-> FALSE, VOS |-> FALSE, PPRE |-> 1, PLLSRC |-> "HSI",
             PLLON |-> FALSE, PLLRDY |-> FALSE, latency |-> 0, SW |-> "HSI", SWS |-> "HSI", CCM |-> FALSE]

\* What a step writes.
Written(h, s) ==
    CASE s = "reset" -> [h EXCEPT !.SW = "HSI", !.PPRE = 1, !.HSEON = FALSE, !.PLLON = FALSE,
                                  !.PLLSRC = "HSI"]
      [] s = "hse" -> [h EXCEPT !.HSEON = TRUE]         [] s = "vos" -> [h EXCEPT !.VOS = TRUE]
      [] s = "prescale" -> [h EXCEPT !.PPRE = 4]        [] s = "pllcfg" -> [h EXCEPT !.PLLSRC = "HSE"]
      [] s = "pllon" -> [h EXCEPT !.PLLON = TRUE]       [] s = "latency" -> [h EXCEPT !.latency = 5]
      [] s = "select" -> [h EXCEPT !.SW = "PLL"]        [] s = "ccm" -> [h EXCEPT !.CCM = TRUE]
      [] OTHER -> h

\* The loops without a timeout.
Waits(s) == (s = "pllwait" /\ ~hw.PLLRDY) \/ (s = "selectwait" /\ hw.SWS # "PLL")

init_clock ==
    /\ dev.part = "init_clock" /\ ~dev.panic
    /\ LET s == Steps[dev.at]
       IN  /\ s \notin {"hsewait", "done"} /\ ~Waits(s)
           /\ hw' = Written(hw, s)
           /\ dev' = [dev EXCEPT !.at = @ + 1]
    /\ Frame

\* The flag is looked at once more behind the loop; if it is not set then, panic.
HseWait ==
    /\ dev.part = "init_clock" /\ ~dev.panic /\ Steps[dev.at] = "hsewait"
    /\ dev' = IF hw.HSERDY THEN [dev EXCEPT !.at = @ + 1]
              ELSE IF dev.count < Timeout THEN [dev EXCEPT !.count = @ + 1]
              ELSE [dev EXCEPT !.panic = TRUE]
    /\ UNCHANGED hw /\ Frame

\* The oscillator, if it starts, the PLL and the switch take their time.
Rcc ==
    /\ dev.part = "init_clock"
    /\ \/ hw.HSEON /\ ~hw.HSERDY /\ hw' = [hw EXCEPT !.HSERDY = TRUE]
       \/ hw.PLLON /\ ~hw.PLLRDY /\ hw' = [hw EXCEPT !.PLLRDY = TRUE]
       \/ hw.SW # hw.SWS /\ hw' = [hw EXCEPT !.SWS = hw.SW]
    /\ UNCHANGED dev /\ Frame

-------------------------------------------------------------------------------
(* rcc.c *)

Bus(b) == CASE b = "AHB1" -> {"GPIOA", "GPIOB", "GPIOC", "GPIOD", "GPIOE", "GPIOF", "GPIOG", "GPIOH",
                              "GPIOI", "ETH", "DMA1", "DMA2", "USBHS", "CRC", "CCMRAM"}
            [] b = "AHB2" -> {"DCMI", "USBFS", "RNG", "HASH", "CRYP"}
            [] b = "AHB3" -> {"FSMC"}
            [] b = "APB1" -> {"TIM2", "TIM3", "TIM4", "TIM5", "TIM6", "TIM7", "TIM12", "TIM13", "TIM14",
                              "SPI2", "SPI3", "I2C1", "I2C2", "I2C3", "USART2", "USART3", "USART4",
                              "USART5", "CAN1", "CAN2", "DAC", "WWDG", "PWR"}
            [] b = "APB2" -> {"TIM1", "TIM8", "TIM9", "TIM10", "TIM11", "SPI1", "SPI4", "SPI5", "SPI6",
                              "USART1", "USART6", "SDIO", "ADC1", "ADC2", "ADC3", "SYSCFG"}
Buses == {"AHB1", "AHB2", "AHB3", "APB1", "APB2"}

\* The bus whose register has the bit of a peripheral.
rcc_clock_lookup(p) == CHOOSE b \in Buses : p \in Bus(b)

Misplaced == {"SPI2", "SPI3"}

\* A table with another peripheral on the wrong bus.
I2cMisplaced(p) == IF p \in Misplaced \cup {"I2C1"} THEN "APB2" ELSE rcc_clock_lookup(p)

\* The table of buses, in which all SPIs are on one bus.
periph_bus_lookup(p) == IF p \in Misplaced THEN "APB2" ELSE rcc_clock_lookup(p)

\* What CONFIG_SYS_CLOCK is divided by.
rcc_bus_clock(b) == CASE b \in {"AHB1", "AHB2", "AHB3"} -> 1 [] b = "APB1" -> 4 [] b = "APB2" -> 2

NoCall == [p |-> "none", on |-> FALSE, reg |-> {}, clock |-> 0, mode |-> "none"]

\* wanted: the peripherals whose last call, by the only task that makes it, was to enable.
RccInit ==
    /\ dev = [part |-> "rcc", at |-> 0, wanted |-> {}]
    /\ hw = [ENR |-> [b \in Buses |-> {}]]

RccCall(t) ==
    /\ dev.part = "rcc" /\ pc[t] = "idle"
    /\ \E p \in Periphs, on \in BOOLEAN :
          /\ \A u \in Tasks : pc[u] # "idle" =>
                p # loc[u].p /\ (SameBus \/ rcc_clock_lookup(p) # rcc_clock_lookup(loc[u].p))
          /\ Set(t, [NoCall EXCEPT !.p = p, !.on = on])
    /\ Goto(t, "load") /\ UNCHANGED <<dev, hw, lock>>

\* raw_mem_set_bits and raw_mem_clear_bits load, and store.
RccLoad(t) ==
    /\ dev.part = "rcc" /\ Step(t, "load", "store")
    /\ Set(t, [loc[t] EXCEPT !.reg = hw.ENR[rcc_clock_lookup(loc[t].p)]])
    /\ UNCHANGED <<dev, hw, lock>>

\* The bits of the others are not kept.
Overwritten(reg, p, on) == IF on THEN {p} ELSE {}

Bits(reg, p, on) == IF on THEN reg \cup {p} ELSE reg \ {p}

rcc_set_clock_enable(t) ==
    /\ dev.part = "rcc" /\ Step(t, "store", "clock")
    /\ LET l == loc[t]
       IN  /\ hw' = [hw EXCEPT !.ENR[rcc_clock_lookup(l.p)] = Bits(l.reg, l.p, l.on)]
           /\ dev' = [dev EXCEPT !.wanted = IF l.on THEN @ \cup {l.p} ELSE @ \ {l.p}]
    /\ UNCHANGED <<lock, loc>>

\* A driver then asks for the clock it is driven with.
rcc_peripheral_bus(t) ==
    /\ dev.part = "rcc" /\ Step(t, "clock", "return")
    /\ Set(t, [loc[t] EXCEPT !.clock = rcc_bus_clock(periph_bus_lookup(loc[t].p))])
    /\ UNCHANGED <<dev, hw, lock>>

-------------------------------------------------------------------------------
(* perfcounter.c: a counter of two timers, the upper one clocked by the lower *)

PerfInit ==
    /\ dev = [part |-> "perf", at |-> 0]
    /\ hw = [count |-> 0]

Upper == hw.count \div LowerCounts
Lower == hw.count % LowerCounts

PerfTick ==
    /\ dev.part = "perf" /\ hw.count < MaxCount
    /\ hw' = [hw EXCEPT !.count = @ + 1]
    /\ UNCHANGED dev /\ Frame

PerfCall(t) ==
    /\ dev.part = "perf" /\ Step(t, "idle", "lower")
    /\ Set(t, [start |-> hw.count, upper |-> Upper, lower |-> 0])
    /\ UNCHANGED <<dev, hw, lock>>

PerfLower(t) ==
    /\ dev.part = "perf" /\ Step(t, "lower", "upper")
    /\ Set(t, [loc[t] EXCEPT !.lower = Lower])
    /\ UNCHANGED <<dev, hw, lock>>

\* The two are taken as they were read.
ReadOnce(t) == TRUE

\* The upper timer still has the value that was read.
SameUpper(t) == loc[t].upper = Upper

\* Else both are read again, beginning with the upper.
perfcounter_getcount(t) ==
    /\ dev.part = "perf" /\ pc[t] = "upper"
    /\ \/ SameUpper(t) /\ Goto(t, "return") /\ UNCHANGED loc
       \/ ~SameUpper(t) /\ Goto(t, "lower") /\ Set(t, [loc[t] EXCEPT !.upper = Upper])
    /\ UNCHANGED <<dev, hw, lock>>

-------------------------------------------------------------------------------
(* am335x/clocks.c *)

Plls == <<"core", "per", "mpu", "ddr">>
PllSet == {"core", "per", "mpu", "ddr"}

\* A PLL that is set before it is bypassed.
PllHurries == <<"bypass", "mn", "waitbypass", "div", "lock", "waitlock">>

PllSteps == <<"bypass", "waitbypass", "mn", "div", "lock", "waitlock">>

\* The boot loader has locked the PLLs at frequencies of its own.  torn: a PLL
\* was set while it was locked, or coming to be.
PllInit ==
    /\ dev = [part |-> "pll", at |-> 1, pll |-> 1]
    /\ hw = [mode |-> [p \in PllSet |-> "locked"], status |-> [p \in PllSet |-> "locked"],
             mn |-> [p \in PllSet |-> "loader"], div |-> [p \in PllSet |-> "loader"], torn |-> FALSE]

PllWritten(h, p, s) ==
    CASE s = "bypass" -> [h EXCEPT !.mode[p] = "bypass"]
      [] s = "mn" -> [h EXCEPT !.mn[p] = p, !.torn = IF h.status[p] = "bypass" THEN @ ELSE TRUE]
      [] s = "div" -> [h EXCEPT !.div[p] = p]
      [] s = "lock" -> [h EXCEPT !.mode[p] = "locked"]
      [] OTHER -> h

am335x_clock_config ==
    /\ dev.part = "pll" /\ dev.pll <= Len(Plls)
    /\ LET p == Plls[dev.pll]
           s == PllSteps[dev.at]
       IN  /\ s = "waitbypass" => hw.status[p] = "bypass"
           /\ s = "waitlock" => hw.status[p] = "locked"
           /\ hw' = PllWritten(hw, p, s)
    /\ dev' = IF dev.at < Len(PllSteps) THEN [dev EXCEPT !.at = @ + 1]
              ELSE [dev EXCEPT !.at = 1, !.pll = @ + 1]
    /\ Frame

PllFollows ==
    /\ dev.part = "pll"
    /\ \E p \in PllSet : hw.mode[p] # hw.status[p] /\ hw' = [hw EXCEPT !.status[p] = hw.mode[p]]
    /\ UNCHANGED dev /\ Frame

-------------------------------------------------------------------------------
(* dev/clocks.c, prcm.c *)

BankSize == 1
Cells == {-1, 0, 1, 2}      \* length of a property in cells, -1 if there is none

\* The device tree: the clocks property of the device's node, whether its phandle
\* is of a controller, whether a driver is compatible with that, and its registers.
Nodes == [cells : Cells, offset : 0..BankSize, phandle : BOOLEAN, compat : BOOLEAN, regs : Cells]

\* written: the offsets that were written, with the size of the bank they are in.
PrcmInit ==
    /\ \E n \in Nodes : dev = [part |-> "prcm", at |-> 0, node |-> n]
    /\ hw = [mode |-> "disabled", status |-> "disabled", written |-> {}]

clocks_lookup(n) == n.cells >= 1 /\ n.phandle /\ n.compat

\* An offset that may be just behind the bank.
InBankOrAt(n) == n.cells >= 2 /\ n.phandle /\ n.regs >= 2 /\ n.offset <= BankSize

am335x_prcm_regs_and_offset(n) == n.cells >= 2 /\ n.phandle /\ n.regs >= 2 /\ n.offset < BankSize

Ok(n) == clocks_lookup(n) /\ am335x_prcm_regs_and_offset(n)

\* clocks_enable, clocks_disable and clocks_set_param; the last does not wait.
PrcmCall(t) ==
    /\ dev.part = "prcm" /\ pc[t] = "idle"
    /\ \/ ~Ok(dev.node) /\ Goto(t, "return") /\ UNCHANGED <<hw, loc>>
       \/ /\ Ok(dev.node)
          /\ \E mode \in {"enabled", "disabled", "none"} :
                /\ \A u \in Tasks : pc[u] = "wait" => Opposed \/ mode \in {loc[u].mode, "none"}
                /\ hw' = [hw EXCEPT !.written = @ \cup {dev.node.offset},
                                    !.mode = IF mode = "none" THEN @ ELSE mode]
                /\ Set(t, [NoCall EXCEPT !.mode = mode])
                /\ Goto(t, IF mode = "none" THEN "return" ELSE "wait")
    /\ UNCHANGED <<dev, lock>>

\* "TODO: timeout": the loop ends when the module is in the mode that was asked for.
PrcmWait(t) ==
    /\ dev.part = "prcm" /\ hw.status = loc[t].mode /\ Step(t, "wait", "return")
    /\ UNCHANGED <<dev, hw, lock, loc>>

PrcmFollows ==
    /\ dev.part = "prcm" /\ hw.status # hw.mode
    /\ hw' = [hw EXCEPT !.status = hw.mode]
    /\ UNCHANGED dev /\ Frame

-------------------------------------------------------------------------------
Return(t) ==
    /\ Step(t, "return", "idle")
    /\ UNCHANGED <<dev, hw, lock, loc>>

Init ==
    /\ StmInit \/ RccInit \/ PerfInit \/ PllInit \/ PrcmInit
    /\ lock = <<>> /\ pc = [t \in Tasks |-> "idle"] /\ loc = [t \in Tasks |-> NoCall]

Work(t) ==
    \/ RccLoad(t) \/ rcc_set_clock_enable(t) \/ rcc_peripheral_bus(t)
    \/ PerfLower(t) \/ perfcounter_getcount(t)
    \/ PrcmWait(t) \/ Return(t)

Hardware == Rcc \/ PerfTick \/ PllFollows \/ PrcmFollows

Next ==
    \/ init_clock \/ HseWait \/ am335x_clock_config \/ Hardware
    \/ \E t \in Tasks : RccCall(t) \/ PerfCall(t) \/ PrcmCall(t) \/ Work(t)

Spec == Init /\ [][Next]_vars

-------------------------------------------------------------------------------
(* Properties *)

TypeOK ==
    /\ dev.part \in {"init_clock", "rcc", "perf", "pll", "prcm"}
    /\ dev.part = "init_clock" => dev.at \in DOMAIN Steps /\ dev.count \in 0..Timeout
    /\ dev.part = "pll" => dev.at \in DOMAIN PllSteps /\ dev.pll \in 1..(Len(Plls) + 1)
    /\ dev.part = "perf" => hw.count \in 0..MaxCount
    /\ pc \in [Tasks -> {"idle", "load", "store", "clock", "lower", "upper", "wait", "return"}]

\* The processor never runs from the PLL with the flash, the prescalers or the
\* regulator set for a slower clock, nor from a PLL whose source is not stable; and
\* init_clock returns only when it does run from the PLL.
ClockSafe ==
    dev.part = "init_clock" =>
        /\ hw.SWS = "PLL" => hw.PLLRDY /\ hw.latency = 5 /\ hw.PPRE = 4 /\ hw.VOS
        /\ hw.PLLON => hw.HSERDY /\ hw.PLLSRC = "HSE"
        /\ Steps[dev.at] = "done" => hw.SWS = "PLL"

\* A PLL is set while it is bypassed, whatever the boot loader left, and when all
\* are configured each is locked with its own factors.
PllSafe ==
    dev.part = "pll" =>
        /\ ~hw.torn
        /\ dev.pll > Len(Plls) =>
                \A p \in PllSet : hw.status[p] = "locked" /\ hw.mn[p] = p /\ hw.div[p] = p

\* The clocks of the peripherals are on that were enabled, if no two tasks enable
\* or disable peripherals of one bus at the same time.
ClocksKept ==
    dev.part = "rcc" =>
        \A p \in Periphs : p \in dev.wanted <=> p \in hw.ENR[rcc_clock_lookup(p)]

\* A driver computes its divider from the clock of the bus that its peripheral is
\* on, except for two SPIs, which take theirs to be twice as fast.
RateExact ==
    dev.part = "rcc" =>
        \A t \in Tasks : pc[t] = "return" =>
            LET real == rcc_bus_clock(rcc_clock_lookup(loc[t].p))
            IN  loc[t].clock = IF loc[t].p \in Misplaced THEN real \div 2 ELSE real

\* The count is one that the two timers had together while the call was in progress.
CountExact ==
    dev.part = "perf" =>
        \A t \in Tasks : pc[t] = "return" =>
            loc[t].upper * LowerCounts + loc[t].lower \in loc[t].start..hw.count

\* Only registers of the bank are written, and what the loop waits for does come,
\* if no task asks for the opposite meanwhile.
BankKept ==
    dev.part = "prcm" =>
        /\ \A o \in hw.written : o < BankSize
        /\ \A t \in Tasks : pc[t] = "wait" => hw.mode = loc[t].mode
================================================================================
