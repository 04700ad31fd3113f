---------------------------------- MODULE Boot ----------------------------------
(***************************************************************************)
(* Boot and the end of the system: os_start (kernel/init.c), panic_print   *)
(* (kernel/fault.c), panic (arch/armv7m/handlers.S) and the handlers of    *)
(* fatal faults (arch/armv7m/fault.c).  A panic may come at any moment:    *)
(* during boot, or while tasks print.  It prints with the driver that the  *)
(* tasks print with, the UART of Uart.tla, of which the steps of write are *)
(* here, and acquire does not wait then.  Tasks and boot print messages of *)
(* one transfer each.                                                      *)
(***************************************************************************)
EXTENDS Calls, Sequences

CONSTANTS
    Messages        \* bound: messages that a fatal fault prints

Boot == "boot"
Actors == Tasks \cup {Boot}
NoActor == "none"

BootAssumption ==
    /\ Messages \in Nat \ {0}
    /\ {Boot, NoActor, "panic"} \cap (Tasks \cup {Nobody}) = {}

\* LEDs that are got with a heap that is not there yet.
LedFirst == <<"arch", "early", "led", "heap", "core", "fdt", "io", "banner", "late", "sched">>

\* The calls of os_start.
Order == <<"arch", "early", "heap", "led", "core", "fdt", "io", "banner", "late", "sched">>

\* The calls that allocate memory: objects, drivers, devices and tasks.
Allocates == {"led", "core", "fdt", "io", "sched"}

\* at: the call that boot is in (0 when tasks run); power_led, stderr: whether they
\* are set; early: whether memory was allocated before there was a heap; ready and
\* first_tx are of the port; dying: where the panic is, and what it has yet to print.
\* loc: where in a write each actor is.
Init ==
    /\ dev = [at |-> 1, heap |-> FALSE, early |-> FALSE, power_led |-> FALSE, stderr |-> FALSE,
              task_switching |-> FALSE, ready |-> FALSE, first_tx |-> TRUE,
              dying |-> "no", left |-> 0]
    /\ hw = [EN |-> FALSE, TCIF |-> FALSE, sender |-> NoActor, lit |-> FALSE]
    /\ lock = [m \in {"write_lock"} |-> Nobody]
    /\ loc = [a \in Actors |-> "idle"] /\ pc = [t \in Tasks |-> "idle"]

Alive == dev.dying = "no"
In(s) == Alive /\ dev.at # 0 /\ Order[dev.at] = s

-------------------------------------------------------------------------------
(* The end of the system *)

\* handlers.S, panic: a loop that toggles the LED.
panic(d) == [d EXCEPT !.dying = "panic"]

\* panic_print, and fatal_fault_entry, of n messages.
Dies(d, n) ==
    [d EXCEPT !.dying = "print", !.left = n, !.task_switching = FALSE]

Toggled(h) == [h EXCEPT !.lit = IF dev.power_led THEN ~@ ELSE @]

\* A task or a handler above it panics or faults, as does what is called at boot.
panic_print ==
    /\ Alive
    /\ \E n \in {2, Messages} : dev' = Dies(dev, n)
    /\ hw' = Toggled(hw)
    /\ UNCHANGED <<lock, pc, loc>>

-------------------------------------------------------------------------------
(* os_start *)

\* What a call leaves behind, when it is successful.
Done(d) ==
    LET s == Order[d.at]
        e == [d EXCEPT !.at = IF s = "sched" THEN 0 ELSE @ + 1,
                       !.early = @ \/ (s \in Allocates /\ ~d.heap)]
    IN  CASE s = "heap" -> [e EXCEPT !.heap = TRUE]
          [] s = "io" -> [e EXCEPT !.stderr = TRUE]
          [] s = "sched" -> [e EXCEPT !.task_switching = TRUE]
          [] OTHER -> e

\* Without an LED boot goes on (init_power_led).
init_power_led ==
    /\ In("led")
    /\ \E got \in BOOLEAN :
          /\ dev' = [Done(dev) EXCEPT !.power_led = got]
          /\ hw' = [hw EXCEPT !.lit = got]
    /\ UNCHANGED <<lock, pc, loc>>

\* The oscillator, an initializer or a device of init_io may fail, without a message.
Fails == {"arch", "early", "core", "io", "late"}

os_start ==
    /\ Alive /\ dev.at # 0 /\ ~In("led") /\ ~In("banner")
    /\ dev' = Done(dev) \/ (Order[dev.at] \in Fails /\ dev' = panic(dev))
    /\ UNCHANGED <<hw, lock, pc, loc>>

-------------------------------------------------------------------------------
(* printf: write_block, with stm32f4_uart_write in its loop *)

MayPrint(a) == Alive /\ IF a = Boot THEN In("banner") ELSE dev.at = 0

\* acquire waits for another task when tasks run.
Acquires(a) ==
    /\ MayPrint(a) /\ loc[a] = "idle"
    /\ ~dev.task_switching \/ Free("write_lock")
    /\ lock' = [lock EXCEPT !["write_lock"] = a]
    /\ Set(a, "work")
    /\ UNCHANGED <<dev, hw, pc>>

\* A port whose first message waits for one before it.
WaitsFirst(d) == [d EXCEPT !.ready = TRUE, !.first_tx = FALSE]

\* The port is initialized by its first user; the streams are set up.
Initialized(d) == [d EXCEPT !.ready = TRUE]

\* A completion that is only looked at.
LooksOnly(d, h) ==
    [ok |-> d.first_tx \/ h.TCIF, d |-> [Initialized(d) EXCEPT !.first_tx = FALSE], h |-> h]

\* Whether the last transaction is complete, and what the look at it leaves: the
\* flag is cleared by the look.
TransactionComplete(d, h) ==
    LET e == Initialized(d)
    IN  [ok |-> e.first_tx \/ h.TCIF, d |-> [e EXCEPT !.first_tx = FALSE],
         h |-> IF e.first_tx THEN h ELSE [h EXCEPT !.TCIF = FALSE]]

\* Initialization, and the look at the flag.  If the last message is not out the
\* lock is released and the call repeated.
Complete(a) ==
    /\ MayPrint(a) /\ loc[a] = "work"
    /\ LET c == TransactionComplete(dev, hw)
       IN  /\ dev' = c.d /\ hw' = c.h
           /\ Set(a, IF c.ok THEN "send" ELSE "out")
    /\ UNCHANGED <<lock, pc>>

\* memcpy and begin_transaction, which cancels a transaction in progress.
BeginTransaction(h, a) == [h EXCEPT !.EN = TRUE, !.TCIF = FALSE, !.sender = a]

Send(a) ==
    /\ MayPrint(a) /\ loc[a] = "send"
    /\ hw' = BeginTransaction(hw, a)
    /\ Set(a, "sent")
    /\ UNCHANGED <<dev, lock, pc>>

\* release; boot goes on when its banner is out of its hands.
Releases(a) ==
    /\ MayPrint(a) /\ loc[a] \in {"sent", "out"}
    /\ release("write_lock")
    /\ Set(a, "idle")
    /\ dev' = IF a = Boot /\ loc[a] = "sent" THEN Done(dev) ELSE dev
    /\ UNCHANGED <<hw, pc>>

\* The DMA is done with a message.
Sent ==
    /\ hw.EN
    /\ hw' = [hw EXCEPT !.EN = FALSE, !.TCIF = TRUE]
    /\ UNCHANGED <<dev, lock, pc, loc>>

-------------------------------------------------------------------------------
(* printk on the way to panic *)

\* Without stderr write fails and the message is dropped; else it is sent when the
\* last one is out.  The mutex is set whoever holds it.
printk ==
    /\ dev.dying = "print" /\ dev.left > 0
    /\ \/ /\ ~dev.stderr
          /\ dev' = [dev EXCEPT !.left = @ - 1] /\ UNCHANGED <<hw, lock>>
       \/ /\ dev.stderr
          /\ LET c == TransactionComplete(dev, hw)
             IN  /\ c.ok
                 /\ dev' = [c.d EXCEPT !.left = @ - 1]
                 /\ hw' = BeginTransaction(c.h, "panic")
          /\ release("write_lock")
    /\ UNCHANGED <<pc, loc>>

\* After the last message, and for ever.
Panics ==
    /\ dev.dying = "panic" \/ (dev.dying = "print" /\ dev.left = 0)
    /\ dev' = panic(dev) /\ hw' = Toggled(hw)
    /\ UNCHANGED <<lock, pc, loc>>

-------------------------------------------------------------------------------
Next ==
    \/ os_start \/ init_power_led \/ panic_print \/ printk \/ Panics \/ Sent
    \/ \E a \in Actors : Acquires(a) \/ Complete(a) \/ Send(a) \/ Releases(a)

Spec == Init /\ [][Next]_vars

-------------------------------------------------------------------------------
(* Properties *)

TypeOK ==
    /\ dev.at \in 0..Len(Order) /\ dev.left \in 0..Messages \cup {2}
    /\ {dev.heap, dev.early, dev.power_led, dev.stderr, dev.task_switching, dev.ready,
        dev.first_tx, hw.EN, hw.TCIF, hw.lit} \subseteq BOOLEAN
    /\ dev.dying \in {"no", "print", "panic"}
    /\ hw.sender \in Actors \cup {NoActor, "panic"}
    /\ lock["write_lock"] \in Actors \cup {Nobody}
    /\ loc \in [Actors -> {"idle", "work", "send", "sent", "out"}]

\* Nothing that is called at boot needs what is set up after it: memory is allocated
\* when there is a heap, tasks start with a place to print to, and nothing is sent
\* before there is one.
BootInOrder ==
    /\ ~dev.early
    /\ dev.at = 0 => dev.heap /\ dev.stderr
    /\ hw.sender # NoActor => dev.stderr

\* A panic gets to its loop with all its messages out, though it may stop the task
\* that holds the lock of the port or is in the middle of a write, except if the
\* write was between its look at the flag of the last transaction and its own
\* transaction: nobody sets the flag then, and printk waits for ever.
PanicSpeaks ==
    dev.dying = "print" /\ dev.left > 0 /\ dev.stderr /\ ~dev.first_tx =>
        hw.EN \/ hw.TCIF \/ \E a \in Actors : loc[a] = "send"

\* No message is cut off by the next, of a task or of the panic: a writer that is
\* about to start a transaction has seen the last one end.
MessagesWhole ==
    (\E a \in Actors : loc[a] = "send") => ~hw.EN
================================================================================
