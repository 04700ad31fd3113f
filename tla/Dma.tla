---------------------------------- MODULE Dma ----------------------------------
(***************************************************************************)
(* The streams of a DMA controller (arch/armv7m/chip/stm32f40x/dma.c).     *)
(* Drivers ask for a stream by a name that may stand for several ones,     *)
(* configure it, begin transactions, ask whether they are complete, and    *)
(* give it back.  The controller runs beside them; a stream that is        *)
(* disabled ends the item it is at first, and then says that it is         *)
(* complete.  The registers of a stream are its own, the flags of four     *)
(* streams share one.                                                      *)
(***************************************************************************)
EXTENDS Calls, Sequences

CONSTANTS
    Entries,    \* the lists of streams that a name stands for in the device tree
    Items       \* the lengths of transactions

Streams == UNION {{e[i] : i \in DOMAIN e} : e \in Entries}

DmaAssumption ==
    /\ Entries \subseteq Seq(0..7) /\ Items \subseteq Nat \ {0}

Nothing == [entry |-> <<>>, stream |-> -1, num |-> 0, result |-> FALSE]

\* The interrupt status register of a stream, and the place of its flags there.
StatusRegister(s) == IF s < 4 THEN "LISR" ELSE "HISR"
Flag(s) == s % 4
stream_transaction_complete(s) == Flag(s) \in hw.TCIF[StatusRegister(s)]

\* EN: off, on, or to be switched off after the item.  conf: whose configuration
\* the registers hold.
\* moved and due are history: the items of the last transaction that were moved,
\* and whether it is complete and its task has not been told.
Init ==
    /\ dev = [streams_in_use |-> [s \in Streams |-> FALSE],
              moved |-> [s \in Streams |-> 0], due |-> [s \in Streams |-> FALSE]]
    /\ hw = [EN |-> [s \in Streams |-> "off"], NDTR |-> [s \in Streams |-> 0],
             conf |-> [s \in Streams |-> Nobody],
             TCIF |-> [r \in {"LISR", "HISR"} |-> {}]]
    /\ lock = [m \in {"dma"} |-> Nobody]
    /\ pc = [t \in Tasks |-> "idle"]
    /\ loc = [t \in Tasks |-> Nothing]

TypeOK ==
    /\ dev.streams_in_use \in [Streams -> BOOLEAN]
    /\ hw.EN \in [Streams -> {"off", "on", "ending"}]
    /\ hw.TCIF \in [{"LISR", "HISR"} -> SUBSET (0..3)]
    /\ hw.conf \in [Streams -> Holders]
    /\ lock \in [{"dma"} -> Holders]
    /\ pc \in [Tasks -> {"idle", "allocate", "disable", "ready", "configured", "cancel", "start",
                         "begun", "test", "deallocate", "release"}]

-------------------------------------------------------------------------------
(* The controller *)

SetFlag(h, s) == [h EXCEPT !.TCIF[StatusRegister(s)] = @ \cup {Flag(s)}]

\* An item is moved.  After the last one the stream is switched off.
Move(s) ==
    /\ hw.EN[s] # "off" /\ hw.NDTR[s] > 0
    /\ LET h == [hw EXCEPT !.NDTR[s] = @ - 1]
           last == h.NDTR[s] = 0
       IN  /\ hw' = IF last THEN SetFlag([h EXCEPT !.EN[s] = "off"], s) ELSE h
           /\ dev' = [dev EXCEPT !.moved[s] = @ + 1, !.due[s] = last]
    /\ UNCHANGED <<lock, pc, loc>>

Ends(s) ==
    /\ hw.EN[s] = "ending"
    /\ hw' = SetFlag([hw EXCEPT !.EN[s] = "off"], s)
    /\ UNCHANGED <<dev, lock, pc, loc>>

-------------------------------------------------------------------------------
(* The operations *)

Disable(h, s) == [h EXCEPT !.EN[s] = IF @ = "on" THEN "ending" ELSE @]
Disabled(s) == hw.EN[s] = "off"
stream_clear_flags(h, s) == [h EXCEPT !.TCIF[StatusRegister(s)] = @ \ {Flag(s)}]

stm32f4_dma_allocate(t, e) ==
    /\ Step(t, "idle", "allocate")
    /\ Set(t, [Nothing EXCEPT !.entry = e])
    /\ UNCHANGED <<dev, hw, lock>>

\* try_dma_allocate.  A stream that is taken: the next of that name, or failure.
StreamTaken(t) ==
    /\ pc[t] = "allocate" /\ loc[t].entry # <<>> /\ Free("dma")
    /\ dev.streams_in_use[Head(loc[t].entry)]
    /\ Set(t, [loc[t] EXCEPT !.entry = Tail(@)])
    /\ UNCHANGED <<dev, hw, lock, pc>>

NoneLeft(t) ==
    /\ loc[t].entry = <<>> /\ Step(t, "allocate", "idle")
    /\ UNCHANGED <<dev, hw, lock, loc>>

\* stm32f4_dma_class_allocate.
stm32f4_dma_class_allocate(t) ==
    /\ loc[t].entry # <<>> /\ Step(t, "allocate", "disable")
    /\ acquire(t, "dma")
    /\ LET s == Head(loc[t].entry)
       IN  /\ ~dev.streams_in_use[s]
           /\ dev' = [dev EXCEPT !.streams_in_use[s] = TRUE]
           /\ hw' = Disable(hw, s)
           /\ Set(t, [Nothing EXCEPT !.stream = s])

\* Once it is disabled, its registers are reset and the channel is set.
AllocateReset(t) ==
    LET s == loc[t].stream
    IN  /\ Step(t, "disable", "ready") /\ Disabled(s)
        /\ dev' = [dev EXCEPT !.due[s] = FALSE]
        /\ hw' = [hw EXCEPT !.NDTR[s] = 0, !.conf[s] = Nobody]
        /\ release("dma")
        /\ UNCHANGED loc

\* stm32f4_dma_class_configure; a configuration with a value that is not known is
\* left half done.
stm32f4_dma_class_configure(t) ==
    /\ pc[t] \in {"ready", "configured"}
    /\ \/ /\ hw' = [hw EXCEPT !.conf[loc[t].stream] = t]
          /\ Goto(t, "configured")
       \/ /\ hw' = [hw EXCEPT !.conf[loc[t].stream] = Nobody]
          /\ Goto(t, "ready")
    /\ UNCHANGED <<dev, lock, loc>>

\* stm32f4_dma_class_begin_transaction, also while one is under way.
Begin(t, n) ==
    /\ pc[t] \in {"configured", "begun"} /\ Goto(t, "cancel")
    /\ hw' = Disable(hw, loc[t].stream)
    /\ Set(t, [loc[t] EXCEPT !.num = n])
    /\ UNCHANGED <<dev, lock>>

\* The flags are cleared while the stream still ends.
ClearEarly(t) ==
    /\ Step(t, "cancel", "start")
    /\ hw' = stream_clear_flags(hw, loc[t].stream)
    /\ dev' = [dev EXCEPT !.due[loc[t].stream] = FALSE, !.moved[loc[t].stream] = 0]
    /\ UNCHANGED <<lock, loc>>

ClearFlags(t) ==
    /\ Step(t, "cancel", "start") /\ Disabled(loc[t].stream)
    /\ hw' = stream_clear_flags(hw, loc[t].stream)
    /\ dev' = [dev EXCEPT !.due[loc[t].stream] = FALSE, !.moved[loc[t].stream] = 0]
    /\ UNCHANGED <<lock, loc>>

Start(t) ==
    LET s == loc[t].stream
    IN  /\ Step(t, "start", "begun") /\ Disabled(s)
        /\ hw' = [hw EXCEPT !.NDTR[s] = loc[t].num, !.EN[s] = "on"]
        /\ UNCHANGED <<dev, lock, loc>>

\* stm32f4_dma_class_transaction_complete: reads the flag, and clears it if it was
\* set.
Test(t) ==
    /\ Step(t, "begun", "test")
    /\ Set(t, [loc[t] EXCEPT !.result = stream_transaction_complete(loc[t].stream)])
    /\ UNCHANGED <<dev, hw, lock>>

stm32f4_dma_class_transaction_complete(t) ==
    LET s == loc[t].stream
    IN  /\ pc[t] = "test"
        /\ hw' = IF loc[t].result THEN stream_clear_flags(hw, s) ELSE hw
        /\ dev' = IF loc[t].result THEN [dev EXCEPT !.due[s] = FALSE, !.moved[s] = 0] ELSE dev
        /\ Goto(t, IF loc[t].result THEN "configured" ELSE "begun")
        /\ Set(t, [loc[t] EXCEPT !.result = FALSE, !.num = IF loc[t].result THEN 0 ELSE @])
        /\ UNCHANGED lock

\* stm32f4_dma_class_deallocate, also while a transaction is under way.
stm32f4_dma_class_deallocate(t) ==
    /\ pc[t] \in {"ready", "configured", "begun"} /\ Goto(t, "release")
    /\ acquire(t, "dma")
    /\ hw' = Disable(hw, loc[t].stream)
    /\ UNCHANGED <<dev, loc>>

\* A stream that is given back before it has ended.
GiveBackEarly(t) ==
    /\ Step(t, "release", "idle")
    /\ dev' = [dev EXCEPT !.streams_in_use[loc[t].stream] = FALSE, !.moved[loc[t].stream] = 0]
    /\ release("dma")
    /\ Set(t, Nothing)
    /\ UNCHANGED hw

GiveBack(t) ==
    /\ Step(t, "release", "idle") /\ Disabled(loc[t].stream)
    /\ dev' = [dev EXCEPT !.streams_in_use[loc[t].stream] = FALSE, !.moved[loc[t].stream] = 0]
    /\ release("dma")
    /\ Set(t, Nothing)
    /\ UNCHANGED hw

-------------------------------------------------------------------------------
Work(t) ==
    \/ StreamTaken(t) \/ NoneLeft(t) \/ stm32f4_dma_class_allocate(t) \/ AllocateReset(t)
    \/ stm32f4_dma_class_configure(t) \/ ClearFlags(t) \/ Start(t)
    \/ Test(t) \/ stm32f4_dma_class_transaction_complete(t)
    \/ stm32f4_dma_class_deallocate(t) \/ GiveBack(t)

Controller == \E s \in Streams : Move(s) \/ Ends(s)

Next ==
    \/ Controller
    \/ \E t \in Tasks :
        \/ \E e \in Entries : stm32f4_dma_allocate(t, e)
        \/ \E n \in Items : Begin(t, n)
        \/ Work(t)

Spec == Init /\ [][Next]_vars

-------------------------------------------------------------------------------
(* Properties *)

Holds(t, s) == loc[t].stream = s /\ pc[t] # "idle"

\* A stream has one holder, and moves items only while it has one, with the
\* configuration of that one: nothing is moved for a driver that gave its stream
\* back and whose memory may be in use by others.
StreamExclusive ==
    \A s \in Streams :
        /\ \A t, u \in Tasks : Holds(t, s) /\ Holds(u, s) => t = u
        /\ hw.EN[s] # "off" => \E t \in Tasks : Holds(t, s) /\ hw.conf[s] = t

\* A test says that a transaction is complete when all of its items were moved,
\* and never because of one that was cancelled before; and one that is complete
\* stays so until its own task was told, whatever happens to the streams whose
\* flags are in the same register.
CompletionExact ==
    /\ \A t \in Tasks : loc[t].result => dev.moved[loc[t].stream] = loc[t].num
    /\ \A s \in Streams : dev.due[s] => stream_transaction_complete(s)
================================================================================
