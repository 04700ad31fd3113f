---------------------------------- MODULE Intc ---------------------------------
(***************************************************************************)
(* Interrupts of the AM335x (arch/armv7a/chip/am335x/interrupts.c) and its *)
(* system tick (timer.c).  The tick is set up by the first service call,   *)
(* where interrupts are masked; drivers then register and enable lines of  *)
(* their own in task context.  Each task stands for one driver with one    *)
(* line.  A driver registers a line while it is disabled, as the timer     *)
(* does; it may unregister one that is still enabled.                      *)
(***************************************************************************)
EXTENDS Calls

Timer == "timer"
Lines == Tasks \cup {Timer}

\* What is registered before anything else, and its data.
unhandled_interrupt == "unhandled"
Null == "null"

\* The handler and the data of a line are both named by the line.
\* raised: lines that ask for an interrupt.  mir: lines that are masked.  cpu: where
\* the processor is: before the tick is set up, in a task, or in irq_handler.
\* agree: NEWIRQAGR, a new interrupt may come.  due is history: an overflow since
\* the last tick.
Init ==
    /\ dev = [interrupt_handlers |-> [l \in Lines |-> unhandled_interrupt],
              interrupt_handler_data |-> [l \in Lines |-> Null], due |-> FALSE]
    /\ hw = [mir |-> Lines, raised |-> {}, TCLR |-> FALSE, agree |-> TRUE, cpu |-> "boot",
             active |-> Null, data |-> Null]
    /\ lock = <<>>
    /\ pc = [t \in Tasks |-> "idle"]
    /\ loc = [t \in Tasks |-> <<>>]

TypeOK ==
    /\ dev.interrupt_handlers \in [Lines -> Lines \cup {unhandled_interrupt}]
    /\ dev.interrupt_handler_data \in [Lines -> Lines \cup {Null}]
    /\ hw.mir \subseteq Lines /\ hw.raised \subseteq Lines
    /\ hw.cpu \in {"boot", "task", "call", "ack", "tick", "end"}
    /\ hw.active \in Lines \cup {Null} /\ hw.data \in Lines \cup {Null}
    /\ pc \in [Tasks -> {"idle", "registering", "registered", "unregistering"}]

-------------------------------------------------------------------------------
(* The peripherals *)

\* The timer overflows, reloads its counter and goes on.
Overflow ==
    /\ hw.TCLR
    /\ hw' = [hw EXCEPT !.raised = @ \cup {Timer}]
    /\ dev' = [dev EXCEPT !.due = TRUE]
    /\ UNCHANGED <<lock, pc, loc>>

Raise(t) ==
    /\ hw.cpu # "boot"
    /\ hw' = [hw EXCEPT !.raised = @ \cup {t}]
    /\ UNCHANGED <<dev, lock, pc, loc>>

-------------------------------------------------------------------------------
(* Registering *)

\* am335x_dmtimer1ms_init_systick.  What the device tree lacks ends in a panic.
am335x_dmtimer1ms_init_systick ==
    /\ hw.cpu = "boot"
    /\ dev' = [dev EXCEPT !.interrupt_handlers[Timer] = Timer,
                          !.interrupt_handler_data[Timer] = Timer]
    /\ hw' = [hw EXCEPT !.mir = @ \ {Timer}, !.TCLR = TRUE, !.cpu = "task"]
    /\ UNCHANGED <<lock, pc, loc>>

\* am335x_interrupt_register: the handler, then the data.
am335x_interrupt_register(t) ==
    /\ hw.cpu = "task" /\ t \in hw.mir /\ Step(t, "idle", "registering")
    /\ dev' = [dev EXCEPT !.interrupt_handlers[t] = t]
    /\ UNCHANGED <<hw, lock, loc>>

RegisterData(t) ==
    /\ hw.cpu = "task" /\ Step(t, "registering", "registered")
    /\ dev' = [dev EXCEPT !.interrupt_handler_data[t] = t]
    /\ UNCHANGED <<hw, lock, loc>>

\* The data goes first.
UnregisterSwapped(t) ==
    /\ hw.cpu = "task" /\ Step(t, "registered", "unregistering")
    /\ dev' = [dev EXCEPT !.interrupt_handler_data[t] = Null]
    /\ UNCHANGED <<hw, lock, loc>>

\* am335x_interrupt_unregister: the handler, then the data.
am335x_interrupt_unregister(t) ==
    /\ hw.cpu = "task" /\ Step(t, "registered", "unregistering")
    /\ dev' = [dev EXCEPT !.interrupt_handlers[t] = unhandled_interrupt]
    /\ UNCHANGED <<hw, lock, loc>>

UnregisterData(t) ==
    /\ hw.cpu = "task" /\ Step(t, "unregistering", "idle")
    /\ dev' = [dev EXCEPT !.interrupt_handler_data[t] = Null]
    /\ UNCHANGED <<hw, lock, loc>>

\* The registers to set and to clear bits of the mask change no other line.
am335x_interrupt_enable(t) ==
    /\ hw.cpu = "task" /\ pc[t] = "registered"
    /\ hw' = [hw EXCEPT !.mir = @ \ {t}]
    /\ UNCHANGED <<dev, lock, pc, loc>>

am335x_interrupt_disable(t) ==
    /\ hw.cpu = "task" /\ pc[t] \in {"idle", "registered"}
    /\ hw' = [hw EXCEPT !.mir = @ \cup {t}]
    /\ UNCHANGED <<dev, lock, pc, loc>>

-------------------------------------------------------------------------------
(* irq_handler *)

\* The processor takes the interrupt and the handler reads which it is.
irq_handler(l) ==
    /\ hw.cpu = "task" /\ hw.agree /\ l \in hw.raised \ hw.mir
    /\ hw' = [hw EXCEPT !.cpu = "call", !.agree = FALSE, !.active = l,
                        !.data = dev.interrupt_handler_data[l]]
    /\ UNCHANGED <<dev, lock, pc, loc>>

\* A handler that makes the tick before it acknowledges the overflow.
TickBeforeAck == [call |-> "tick", ack |-> "end", tick |-> "ack"]

\* What follows the call, the acknowledgement and the tick in the handler of the
\* timer.
dmtimer1ms_systick_handler == [call |-> "ack", ack |-> "tick", tick |-> "end"]

\* interrupt_handlers[active_interrupt](data).  A driver's handler silences its
\* peripheral; unhandled_interrupt does nothing.
CallHandler ==
    /\ hw.cpu = "call"
    /\ LET handler == dev.interrupt_handlers[hw.active]
       IN  hw' = IF handler = Timer THEN [hw EXCEPT !.cpu = dmtimer1ms_systick_handler.call]
                 ELSE [hw EXCEPT !.cpu = "end", !.raised = @ \ {handler}]
    /\ UNCHANGED <<dev, lock, pc, loc>>

Acknowledge ==
    /\ hw.cpu = "ack"
    /\ hw' = [hw EXCEPT !.cpu = dmtimer1ms_systick_handler.ack, !.raised = @ \ {Timer}]
    /\ UNCHANGED <<dev, lock, pc, loc>>

SystemTick ==
    /\ hw.cpu = "tick"
    /\ hw' = [hw EXCEPT !.cpu = dmtimer1ms_systick_handler.tick]
    /\ dev' = [dev EXCEPT !.due = FALSE]
    /\ UNCHANGED <<lock, pc, loc>>

\* New interrupts are allowed, and the processor returns to a task.
NewIrqAgreed ==
    /\ hw.cpu = "end"
    /\ hw' = [hw EXCEPT !.cpu = "task", !.agree = TRUE, !.active = Null, !.data = Null]
    /\ UNCHANGED <<dev, lock, pc, loc>>

-------------------------------------------------------------------------------
Handler == CallHandler \/ Acknowledge \/ SystemTick \/ NewIrqAgreed

Work(t) ==
    \/ am335x_interrupt_register(t) \/ RegisterData(t)
    \/ am335x_interrupt_unregister(t) \/ UnregisterData(t)
    \/ am335x_interrupt_enable(t) \/ am335x_interrupt_disable(t)

Next ==
    \/ am335x_dmtimer1ms_init_systick \/ Overflow \/ Handler
    \/ \E l \in Lines : irq_handler(l)
    \/ \E t \in Tasks : Raise(t) \/ Work(t)

Spec == Init /\ [][Next]_vars

-------------------------------------------------------------------------------
(* Properties *)

\* A handler is called with the data that was registered with it, whatever is
\* being registered and unregistered when the interrupt comes; it takes them for
\* the registers of its peripheral.
HandlerGetsData ==
    hw.cpu = "call" => dev.interrupt_handlers[hw.active] \in {unhandled_interrupt, hw.data}

\* No overflow of the timer is lost: after each there is a tick, or the interrupt
\* for it is still to come or to be handled.  In particular one that comes while
\* the last one is handled.
TickFollows ==
    dev.due => Timer \in hw.raised \/ hw.cpu = "tick"
================================================================================
