---------------------------------- MODULE Adc ----------------------------------
(***************************************************************************)
(* The STM32F4 ADCs (arch/armv7m/chip/stm32f40x/adc.c): tasks get an ADC   *)
(* object on a pin, which reserves a channel of one of the converters, add *)
(* the channel to the converter's scan sequence, read it and put it.  The  *)
(* device tree gives each converter one channel for each pin, so a channel *)
(* is <<converter, pin>>.  Values converted and the setup of the pins are  *)
(* left out.                                                               *)
(***************************************************************************)
EXTENDS Calls

CONSTANTS
    Converters,     \* the converters of the device, numbered
    AdcPins,        \* the pins that tasks get an ADC on
    SeqMax,         \* the places of a scan sequence
    AnyOrder        \* FALSE: the channels of a converter are put last first

AdcAssumption ==
    /\ Converters \subseteq Nat
    /\ SeqMax \in Nat /\ SeqMax >= Cardinality(Tasks)
    /\ AnyOrder \in BOOLEAN

NoPin == "none"
Nothing == [adc |-> 0, pin |-> NoPin, sequence_number |-> 0, ready |-> FALSE,
            saved_length |-> 1, saved_sq1 |-> NoPin]

TypeOK ==
    /\ dev.states \in Nat
    /\ dev.in_use \subseteq Converters \X AdcPins
    /\ hw \in [Converters -> [ready : BOOLEAN, ADON : BOOLEAN, LEN : 1..SeqMax,
                              SQ : [1..SeqMax -> AdcPins \cup {NoPin}]]]
    /\ lock \in [{"stm32f4_adcs", "state"} -> Holders]
    /\ pc \in [Tasks -> {"idle", "lookup", "search", "create", "reserve", "mark", "build",
                         "undo", "ready", "setup", "convert"}]
    /\ \A t \in Tasks :
          /\ loc[t].adc \in Converters \cup {0} /\ loc[t].pin \in AdcPins \cup {NoPin}
          /\ loc[t].sequence_number \in 0..SeqMax /\ loc[t].saved_length \in 1..SeqMax

\* The registers before stm32f4_adc_periph_initialize, and after it.
Registers(on) == [ready |-> on, ADON |-> FALSE, LEN |-> 1, SQ |-> [i \in 1..SeqMax |-> NoPin]]

Init ==
    /\ dev = [states |-> 0, in_use |-> {}]
    /\ hw = [n \in Converters |-> Registers(FALSE)]
    /\ lock = [m \in {"stm32f4_adcs", "state"} |-> Nobody]
    /\ pc = [t \in Tasks |-> "idle"]
    /\ loc = [t \in Tasks |-> Nothing]

-------------------------------------------------------------------------------
(* stm32f4_adc_get *)

adc_get(t, p) ==
    /\ Step(t, "idle", "lookup")
    /\ Set(t, [Nothing EXCEPT !.pin = p])
    /\ UNCHANGED <<dev, hw, lock>>

\* A lookup that does not lock the collection.
LookupUnlocked(t) ==
    /\ Step(t, "lookup", "search")
    /\ UNCHANGED <<dev, hw, lock, loc>>

LookupLock(t) ==
    /\ Step(t, "lookup", "search")
    /\ acquire(t, "stm32f4_adcs")
    /\ UNCHANGED <<dev, hw, loc>>

lookup_adc_state(t) ==
    /\ pc[t] = "search"
    /\ \/ dev.states > 0 /\ Goto(t, "reserve") /\ release("stm32f4_adcs")
       \/ dev.states = 0 /\ Goto(t, "create") /\ UNCHANGED lock
    /\ UNCHANGED <<dev, hw, loc>>

\* There may be no memory.
create_adc_state(t) ==
    /\ pc[t] = "create"
    /\ \/ Goto(t, "reserve") /\ dev' = [dev EXCEPT !.states = @ + 1] /\ UNCHANGED loc
       \/ Goto(t, "idle") /\ Set(t, Nothing) /\ UNCHANGED dev
    /\ release("stm32f4_adcs")
    /\ UNCHANGED hw

\* The first converter whose channel for the pin is not in use.
FreeConverters(p) == {n \in Converters : <<n, p>> \notin dev.in_use}

\* A search that does not keep the lock.
ReserveUnlocked(t) ==
    /\ pc[t] = "reserve"
    /\ Free("state")
    /\ \/ /\ FreeConverters(loc[t].pin) = {}
          /\ Goto(t, "idle") /\ Set(t, Nothing)
       \/ \E n \in FreeConverters(loc[t].pin) :
             /\ \A k \in FreeConverters(loc[t].pin) : n <= k
             /\ Set(t, [loc[t] EXCEPT !.adc = n])
             /\ Goto(t, "mark")
    /\ UNCHANGED <<dev, hw, lock>>

reserve_adc_channel(t) ==
    /\ pc[t] = "reserve"
    /\ \/ /\ FreeConverters(loc[t].pin) = {}
          /\ Free("state")
          /\ Goto(t, "idle") /\ Set(t, Nothing) /\ UNCHANGED lock
       \/ \E n \in FreeConverters(loc[t].pin) :
             /\ \A k \in FreeConverters(loc[t].pin) : n <= k
             /\ Set(t, [loc[t] EXCEPT !.adc = n])
             /\ acquire(t, "state") /\ Goto(t, "mark")
    /\ UNCHANGED <<dev, hw>>

ReserveMark(t) ==
    /\ Step(t, "mark", "build")
    /\ dev' = [dev EXCEPT !.in_use = @ \cup {<<loc[t].adc, loc[t].pin>>}]
    /\ release("state")
    /\ UNCHANGED <<hw, loc>>

\* There may be no memory for the object.
build_adc_obj(t) ==
    /\ pc[t] = "build"
    /\ Goto(t, "ready") \/ Goto(t, "undo")
    /\ UNCHANGED <<dev, hw, lock, loc>>

free_adc_channel(t) ==
    /\ Step(t, "undo", "idle")
    /\ Free("state")
    /\ dev' = [dev EXCEPT !.in_use = @ \ {<<loc[t].adc, loc[t].pin>>}]
    /\ Set(t, Nothing)
    /\ UNCHANGED <<hw, lock>>

-------------------------------------------------------------------------------
(* The scan sequence *)

stm32f4_adc_periph_initialize(r) == IF r.ready THEN r ELSE Registers(TRUE)

\* The channel is appended; while the converter is off the sequence is empty.
stm32f4_adc_channel_initialize(r, p) ==
    LET n == IF r.ADON THEN r.LEN + 1 ELSE 1
    IN  [r EXCEPT !.SQ[n] = p, !.LEN = n, !.ADON = TRUE]

\* The registers and the object after stm32f4_adc_init_nolock.
InitRegs(t) ==
    IF loc[t].ready THEN hw[loc[t].adc]
    ELSE stm32f4_adc_channel_initialize(stm32f4_adc_periph_initialize(hw[loc[t].adc]), loc[t].pin)
stm32f4_adc_init_nolock(t) ==
    IF loc[t].ready THEN loc[t]
    ELSE [loc[t] EXCEPT !.ready = TRUE, !.sequence_number = InitRegs(t).LEN]

\* Only needed where places are lost: a full sequence is not extended.
SequenceHasRoom(t) == loc[t].ready \/ hw[loc[t].adc].LEN < SeqMax

\* An init that does not wait for the lock.
InitUnlocked(t) ==
    /\ pc[t] = "ready"
    /\ SequenceHasRoom(t)
    /\ hw' = [hw EXCEPT ![loc[t].adc] = InitRegs(t)]
    /\ Set(t, stm32f4_adc_init_nolock(t))
    /\ UNCHANGED <<dev, lock, pc>>

stm32f4_adc_init(t) ==
    /\ pc[t] = "ready"
    /\ Free("state")
    /\ SequenceHasRoom(t)
    /\ hw' = [hw EXCEPT ![loc[t].adc] = InitRegs(t)]
    /\ Set(t, stm32f4_adc_init_nolock(t))
    /\ UNCHANGED <<dev, lock, pc>>

\* The places after num move up by one; the objects that they belong to keep
\* their sequence_number.
remove_from_adc_sequence(r, num) ==
    IF num > r.LEN THEN r
    ELSE IF r.LEN = 1 THEN [r EXCEPT !.ADON = FALSE]
    ELSE [r EXCEPT !.LEN = @ - 1,
                   !.SQ = [i \in 1..SeqMax |-> IF i \in num..(r.LEN - 1) THEN @[i + 1] ELSE @[i]]]

\* stm32f4_adc_dtor.
adc_dtor(t) ==
    /\ Step(t, "ready", "idle")
    /\ Free("state")
    /\ AnyOrder \/ ~loc[t].ready \/ loc[t].sequence_number = hw[loc[t].adc].LEN
    /\ hw' = IF loc[t].ready
                THEN [hw EXCEPT ![loc[t].adc] = remove_from_adc_sequence(@, loc[t].sequence_number)]
                ELSE hw
    /\ dev' = [dev EXCEPT !.in_use = @ \ {<<loc[t].adc, loc[t].pin>>}]
    /\ Set(t, Nothing)
    /\ UNCHANGED lock

-------------------------------------------------------------------------------
(* stm32f4_adc_read_raw *)

ReadSave(t) ==
    /\ Step(t, "ready", "setup")
    /\ acquire(t, "state")
    /\ SequenceHasRoom(t)
    /\ hw' = [hw EXCEPT ![loc[t].adc] = InitRegs(t)]
    /\ Set(t, [stm32f4_adc_init_nolock(t) EXCEPT !.saved_length = InitRegs(t).LEN,
                                                 !.saved_sq1 = InitRegs(t).SQ[1]])
    /\ UNCHANGED dev

\* The channel is the only one of the sequence for one conversion.
ReadSetup(t) ==
    /\ Step(t, "setup", "convert")
    /\ hw' = [hw EXCEPT ![loc[t].adc].LEN = 1, ![loc[t].adc].SQ[1] = loc[t].pin]
    /\ UNCHANGED <<dev, lock, loc>>

\* The first place is not restored.
RestoreLength(t) ==
    /\ Step(t, "convert", "ready")
    /\ hw' = [hw EXCEPT ![loc[t].adc].LEN = loc[t].saved_length]
    /\ Set(t, [loc[t] EXCEPT !.saved_length = 1, !.saved_sq1 = NoPin])
    /\ release("state")
    /\ UNCHANGED dev

\* The conversion is complete and the sequence is restored.
ReadRestore(t) ==
    /\ Step(t, "convert", "ready")
    /\ hw' = [hw EXCEPT ![loc[t].adc].LEN = loc[t].saved_length,
                        ![loc[t].adc].SQ[1] = loc[t].saved_sq1]
    /\ Set(t, [loc[t] EXCEPT !.saved_length = 1, !.saved_sq1 = NoPin])
    /\ release("state")
    /\ UNCHANGED dev

-------------------------------------------------------------------------------
Call(t) ==
    \/ \E p \in AdcPins : adc_get(t, p)
    \/ stm32f4_adc_init(t) \/ ReadSave(t) \/ adc_dtor(t)

Work(t) ==
    \/ LookupLock(t) \/ lookup_adc_state(t) \/ create_adc_state(t)
    \/ reserve_adc_channel(t) \/ ReserveMark(t) \/ build_adc_obj(t) \/ free_adc_channel(t)
    \/ ReadSetup(t) \/ ReadRestore(t)

Next == \E t \in Tasks : Call(t) \/ Work(t)

Spec == Init /\ [][Next]_vars

-------------------------------------------------------------------------------
(* Properties *)

\* The collection never has two states for the device: tasks that get their
\* first ADC at the same time find the one that the first of them creates, and
\* so take the same lock.
OneState == dev.states <= 1

\* A channel is reserved for one object, from the search that finds it to the
\* destructor or the error path that frees it.
ChannelReservedOnce ==
    LET Has(t) == pc[t] \in {"build", "undo", "ready", "setup", "convert"}
        Channel(t) == <<loc[t].adc, loc[t].pin>>
    IN  /\ dev.in_use = {Channel(t) : t \in {u \in Tasks : Has(u)}}
        /\ \A t, u \in Tasks : Has(t) /\ Has(u) /\ t # u => Channel(t) # Channel(u)

\* A conversion is of the reader's own channel: no other task adds or removes a
\* channel, or starts its conversion, while it lasts.
ConvertsOwn ==
    \A t \in Tasks : pc[t] = "convert" =>
        /\ hw[loc[t].adc].ADON
        /\ hw[loc[t].adc].LEN = 1 /\ hw[loc[t].adc].SQ[1] = loc[t].pin

\* The comment of the destructor: "ADC has been initialized, remove it from the
\* sequence".  The scan sequence of a converter that is on is made of the
\* channels that are initialized, each at its number; reads leave it alone.
SequenceExact ==
    Free("state") => \A n \in Converters :
        LET Ready == {t \in Tasks : loc[t].ready /\ loc[t].adc = n}
        IN  /\ hw[n].ADON <=> Ready # {}
            /\ hw[n].ADON => hw[n].LEN = Cardinality(Ready)
            /\ \A t \in Ready : /\ loc[t].sequence_number <= hw[n].LEN
                                /\ hw[n].SQ[loc[t].sequence_number] = loc[t].pin
================================================================================
