---------------------------------- MODULE Usart ---------------------------------
(***************************************************************************)
(* The polled UARTs of the AM335x and the LM4F (their usart.c) and the     *)
(* resource that makes a character device of them (dev/resource.c).  A     *)
(* behaviour is the initialization of one of the two, or tasks that write  *)
(* and read: a call holds its mutex until the last byte is in the FIFO, or *)
(* has come.                                                               *)
(***************************************************************************)
EXTENDS Calls, Sequences

CONSTANTS
    Cold,           \* whether the boot loader has left the UART's module off
    WriteLens,      \* the lengths of writes and reads
    FifoLen         \* the length of the FIFOs

UsartAssumption == Cold \in BOOLEAN /\ WriteLens \subseteq Nat \ {0} /\ FifoLen \in Nat \ {0}

Frame == UNCHANGED <<lock, pc, loc>>

-------------------------------------------------------------------------------
(* init_usart of the AM335x.  A write is of a register and a value; DLL and THR, *)
(* and DLM and IER, have one address and LCR selects which it is.                *)

Divisor == (48000000 \div 16) \div 115200

\* The divisor is set when the registers are switched back.
SetsLate ==
    <<<<"CONTROL", "on">>, <<"UART0", "on">>, <<"PINS", "uart">>, <<"SYSC", "reset">>, <<"SYSS", "wait">>,
      <<"LCR", "div">>, <<"0", 0>>, <<"4", 0>>, <<"LCR", "norm">>, <<"FCR", "on">>,
      <<"LCR", "div">>, <<"0", Divisor % 256>>, <<"LCR", "norm">>, <<"4", Divisor \div 256>>, <<"MDR1", 0>>>>

Am335xSteps ==
    <<<<"CONTROL", "on">>, <<"UART0", "on">>, <<"PINS", "uart">>, <<"SYSC", "reset">>, <<"SYSS", "wait">>,
      <<"LCR", "div">>, <<"0", 0>>, <<"4", 0>>, <<"LCR", "norm">>, <<"FCR", "on">>,
      <<"LCR", "div">>, <<"0", Divisor % 256>>, <<"4", Divisor \div 256>>, <<"LCR", "norm">>, <<"MDR1", 0>>>>

\* module: whether the module runs; its mode bits, which the loops behind the
\* writes of CLKCTRL test, are set at once.  fault: a register was used before.
Am335xInit ==
    /\ dev = [part |-> "am335x", at |-> 1]
    /\ hw = [module |-> ~Cold, mode |-> ~Cold, LCR |-> "norm", DLL |-> 99, DLM |-> 99, IER |-> 99,
             THR |-> 99, FCR |-> "off", MDR1 |-> 0, fault |-> FALSE]

Am335xWritten(h, w) ==
    LET r == w[1]
        v == w[2]
        g == IF r \in {"CONTROL", "UART0", "PINS"} THEN h ELSE [h EXCEPT !.fault = @ \/ ~h.module]
    IN  CASE r = "UART0" -> [g EXCEPT !.mode = TRUE]
          [] r = "SYSC" -> [g EXCEPT !.LCR = "norm", !.DLL = 0, !.DLM = 0, !.IER = 0, !.THR = 0,
                                     !.FCR = "off", !.MDR1 = 7]
          [] r = "LCR" -> [g EXCEPT !.LCR = v]
          [] r = "0" -> IF h.LCR = "div" THEN [g EXCEPT !.DLL = v] ELSE [g EXCEPT !.THR = v]
          [] r = "4" -> IF h.LCR = "div" THEN [g EXCEPT !.DLM = v] ELSE [g EXCEPT !.IER = v + 1]
          [] r = "FCR" -> [g EXCEPT !.FCR = v]
          [] r = "MDR1" -> [g EXCEPT !.MDR1 = v]
          [] OTHER -> g

\* The module follows its mode at any time.
am335x_init_usart ==
    /\ dev.part = "am335x" /\ dev.at <= Len(Am335xSteps)
    /\ \E m \in {hw.module, hw.mode} : hw' = Am335xWritten([hw EXCEPT !.module = m], Am335xSteps[dev.at])
    /\ dev' = [dev EXCEPT !.at = @ + 1]
    /\ Frame

-------------------------------------------------------------------------------
(* init_usart of the LM4F: the divisors are taken over with LCRH *)

SysClock == 80000000

\* usart_baud: the quotient is of integers, so that its fraction is lost, and the
\* 64ths are those of the whole, of which the register keeps six bits.
brd == SysClock \div (16 * 115200)
FBRD == (brd * 64) % 64

Lm4fSteps == <<"clocks", "pins", "disable", "baud", "lcrh", "cc", "enable">>

Lm4fInit ==
    /\ dev = [part |-> "lm4f", at |-> 1]
    /\ hw = [clocks |-> FALSE, pins |-> FALSE, UARTEN |-> FALSE, written |-> <<0, 0>>, used |-> <<0, 0>>,
             WLEN |-> 5]

Lm4fWritten(h, s) ==
    CASE s = "clocks" -> [h EXCEPT !.clocks = TRUE]     [] s = "pins" -> [h EXCEPT !.pins = TRUE]
      [] s = "disable" -> [h EXCEPT !.UARTEN = FALSE]   [] s = "baud" -> [h EXCEPT !.written = <<brd, FBRD>>]
      [] s = "lcrh" -> [h EXCEPT !.used = h.written, !.WLEN = 8]
      [] s = "enable" -> [h EXCEPT !.UARTEN = TRUE]     [] OTHER -> h

lm4f_init_usart ==
    /\ dev.part = "lm4f" /\ dev.at <= Len(Lm4fSteps)
    /\ hw' = Lm4fWritten(hw, Lm4fSteps[dev.at])
    /\ dev' = [dev EXCEPT !.at = @ + 1]
    /\ Frame

-------------------------------------------------------------------------------
(* resource.c.  A written byte is its writer, its number and how many there are; a *)
(* received byte is its number among those that were received, which repeat.       *)

Numbers == 4
NoByte == <<"none", 1, 1>>
Idle == [n |-> 0, i |-> 0, got |-> <<>>]

ResourceInit ==
    /\ dev = [part |-> "resource", at |-> 1]
    /\ hw = [tx |-> <<>>, out |-> NoByte, rx |-> <<>>, next |-> 0]

\* A call that does not wait for the others.
CallUnlocked(t, m) == UNCHANGED lock

CallLocks(t, m) == acquire(t, m)

Call(t) ==
    /\ dev.part = "resource" /\ pc[t] = "idle"
    /\ \E m \in {"write_mut", "read_mut"}, n \in WriteLens :
          /\ CallLocks(t, m)
          /\ Goto(t, IF m = "write_mut" THEN "write" ELSE "read")
          /\ Set(t, [Idle EXCEPT !.n = n])
    /\ UNCHANGED <<dev, hw>>

\* usart_putc waits for space in the FIFO.
resource_write(t) ==
    /\ dev.part = "resource" /\ pc[t] = "write" /\ loc[t].i < loc[t].n /\ Len(hw.tx) < FifoLen
    /\ hw' = [hw EXCEPT !.tx = Append(@, <<t, loc[t].i + 1, loc[t].n>>)]
    /\ Set(t, [loc[t] EXCEPT !.i = @ + 1])
    /\ UNCHANGED <<dev, lock, pc>>

\* usart_getc waits for a byte.
resource_read(t) ==
    /\ dev.part = "resource" /\ pc[t] = "read" /\ loc[t].i < loc[t].n /\ hw.rx # <<>>
    /\ hw' = [hw EXCEPT !.rx = Tail(@)]
    /\ Set(t, [loc[t] EXCEPT !.i = @ + 1, !.got = Append(@, Head(hw.rx))])
    /\ UNCHANGED <<dev, lock, pc>>

Return(t) ==
    /\ dev.part = "resource" /\ pc[t] \in {"write", "read"} /\ loc[t].i = loc[t].n
    /\ release(IF pc[t] = "write" THEN "write_mut" ELSE "read_mut")
    /\ Goto(t, "idle") /\ Set(t, Idle)
    /\ UNCHANGED <<dev, hw>>

\* A byte leaves a FIFO; one comes, and is lost if there is no space.
Line ==
    /\ dev.part = "resource"
    /\ \/ hw.tx # <<>> /\ hw' = [hw EXCEPT !.out = Head(hw.tx), !.tx = Tail(@)]
       \/ Len(hw.rx) < FifoLen /\ hw' = [hw EXCEPT !.rx = Append(@, hw.next), !.next = (@ + 1) % Numbers]
    /\ UNCHANGED dev /\ Frame

-------------------------------------------------------------------------------
Init ==
    /\ Am335xInit \/ Lm4fInit \/ ResourceInit
    /\ lock = [m \in {"write_mut", "read_mut"} |-> Nobody]
    /\ pc = [t \in Tasks |-> "idle"] /\ loc = [t \in Tasks |-> Idle]

Work(t) == resource_write(t) \/ resource_read(t) \/ Return(t)

Next ==
    \/ am335x_init_usart \/ lm4f_init_usart \/ Line
    \/ \E t \in Tasks : Call(t) \/ Work(t)

Spec == Init /\ [][Next]_vars

-------------------------------------------------------------------------------
(* Properties *)

TypeOK ==
    /\ dev.part \in {"am335x", "lm4f", "resource"}
    /\ dev.part = "am335x" => dev.at \in 1..(Len(Am335xSteps) + 1)
    /\ dev.part = "lm4f" => dev.at \in 1..(Len(Lm4fSteps) + 1)
    /\ dev.part = "resource" => Len(hw.tx) <= FifoLen /\ Len(hw.rx) <= FifoLen
    /\ lock \in [{"write_mut", "read_mut"} -> Holders]
    /\ pc \in [Tasks -> {"idle", "write", "read"}]

\* The initialization sends no byte and enables no interrupt by the way, though the
\* divisor has the addresses of those registers, uses no register of a module that
\* does not run, and leaves the UART on, with a rate within one percent of 115200.
InitExact ==
    /\ dev.part = "am335x" =>
          /\ ~hw.fault
          /\ dev.at > 5 => hw.THR = 0 /\ hw.IER = 0
          /\ dev.at > Len(Am335xSteps) => hw.DLL + 256 * hw.DLM = Divisor /\ hw.MDR1 = 0 /\ hw.FCR = "on"
          /\ 100 * (48000000 \div (16 * Divisor)) \in (99 * 115200)..(101 * 115200)
    /\ dev.part = "lm4f" /\ hw.UARTEN =>
          /\ hw.clocks /\ hw.pins /\ hw.WLEN = 8
          /\ 100 * ((4 * SysClock) \div (64 * hw.used[1] + hw.used[2])) \in (99 * 115200)..(101 * 115200)

\* The bytes of a write are together on the line, whichever tasks write.
WritesWhole ==
    dev.part = "resource" =>
        LET line == <<hw.out>> \o hw.tx
        IN  \A i \in 1..(Len(line) - 1) :
                LET b == line[i]
                    c == line[i + 1]
                IN  IF b[2] < b[3] THEN c = <<b[1], b[2] + 1, b[3]>> ELSE c[2] = 1

\* The bytes that a read returns came one after the other, whichever tasks read.
ReadsWhole ==
    dev.part = "resource" =>
        \A t \in Tasks : \A i \in 1..(Len(loc[t].got) - 1) :
            loc[t].got[i + 1] = (loc[t].got[i] + 1) % Numbers
================================================================================
