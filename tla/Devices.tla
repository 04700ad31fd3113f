-------------------------------- MODULE Devices --------------------------------
(***************************************************************************)
(* Devices and their references (dev/device.c, include/kernel/obj.h,       *)
(* kernel/class.c and dev/char.c): tasks get one device by its name, which *)
(* constructs it if no instance is in its class, or get it as a character  *)
(* device that has a reference of its own, and put it.  The last put runs  *)
(* the destructor of the class: the destructors of UART, I2C, SPI and of   *)
(* the sensors deinitialize the device and keep the object (Kept); the one *)
(* of the DMA controllers frees the object (not Kept).                     *)
(***************************************************************************)
EXTENDS Calls, Sequences

CONSTANTS
    Objects,        \* blocks of memory
    Kept            \* TRUE if the destructor keeps the object

DevicesAssumption == Objects \subseteq Nat \ {0} /\ Kept \in BOOLEAN

NoObject == 0

\* char: the task wants, or has, a character device.
Nothing == [obj |-> NoObject, char |-> FALSE]

TypeOK ==
    /\ dev.instances \in Seq(Objects) /\ dev.live \subseteq Objects
    /\ dev.refcount \in [Objects -> Nat]
    /\ hw = <<>>
    /\ lock \in [{"driver"} -> Holders]
    /\ pc \in [Tasks -> {"idle", "driver", "lookup", "ref", "probe", "ctor", "export",
                         "cast", "put", "drop", "dtor", "ready"}]
    /\ \A t \in Tasks : loc[t].obj \in Objects \cup {NoObject} /\ loc[t].char \in BOOLEAN

\* instances: the members of the class.  live: the blocks that are allocated.
\* What a destructor does to the registers is left out.
Init ==
    /\ dev = [instances |-> <<>>, live |-> {}, refcount |-> [o \in Objects |-> 0]]
    /\ hw = <<>>
    /\ lock = [m \in {"driver"} |-> Nobody]
    /\ pc = [t \in Tasks |-> "idle"]
    /\ loc = [t \in Tasks |-> Nothing]

Return(t) == Goto(t, "idle") /\ Set(t, Nothing)

-------------------------------------------------------------------------------
(* device_get, and char_device_get *)

device_get(t, char) ==
    /\ Step(t, "idle", "driver")
    /\ Set(t, [Nothing EXCEPT !.char = char])
    /\ UNCHANGED <<dev, hw, lock>>

\* A device_get that does not take the driver's mutex.
DriverUnlocked(t) ==
    /\ Step(t, "driver", "lookup")
    /\ UNCHANGED <<dev, hw, lock, loc>>

DriverLock(t) ==
    /\ Step(t, "driver", "lookup")
    /\ acquire(t, "driver")
    /\ UNCHANGED <<dev, hw, loc>>

\* collection_get_by_name: the first instance of the name.
get_by_name_from_class(t) ==
    /\ pc[t] = "lookup"
    /\ \/ dev.instances # <<>> /\ Goto(t, "ref")
          /\ Set(t, [loc[t] EXCEPT !.obj = Head(dev.instances)])
       \/ dev.instances = <<>> /\ Goto(t, "probe") /\ UNCHANGED loc
    /\ UNCHANGED <<dev, hw, lock>>

\* The task has a device: as a character device it is cast first.
Got(t) == Goto(t, IF loc[t].char THEN "cast" ELSE "ready")

obj_get(t) ==
    /\ pc[t] = "ref" /\ Got(t)
    /\ dev' = [dev EXCEPT !.refcount[loc[t].obj] = @ + 1]
    /\ release("driver")
    /\ UNCHANGED <<hw, loc>>

\* driver->probe, which may find no device.
Probe(t) ==
    /\ pc[t] = "probe"
    /\ \/ Goto(t, "ctor") /\ UNCHANGED <<lock, loc>>
       \/ release("driver") /\ Return(t)
    /\ UNCHANGED <<dev, hw>>

\* driver->ctor, which may fail; the last thing it does is to export the object.
Ctor(t) ==
    /\ pc[t] = "ctor"
    /\ \/ \E o \in Objects \ dev.live :
             /\ \A q \in Objects \ dev.live : o <= q
             /\ dev' = [dev EXCEPT !.live = @ \cup {o}, !.refcount[o] = 1]
             /\ Set(t, [loc[t] EXCEPT !.obj = o])
             /\ Goto(t, "export") /\ UNCHANGED lock
       \/ release("driver") /\ Return(t) /\ UNCHANGED dev
    /\ UNCHANGED hw

class_export_member(t) ==
    /\ pc[t] = "export" /\ Got(t)
    /\ dev' = [dev EXCEPT !.instances = <<loc[t].obj>> \o @]
    /\ release("driver")
    /\ UNCHANGED <<hw, loc>>

\* A cast that relies on the reference of its caller.
CastBorrows(t) ==
    /\ Step(t, "cast", "drop")
    /\ UNCHANGED <<dev, hw, lock, loc>>

\* char_device_cast, and char_device_create, which may have no memory.
char_device_cast(t) ==
    /\ Step(t, "cast", "drop")
    /\ \/ dev' = [dev EXCEPT !.refcount[loc[t].obj] = @ + 1] /\ UNCHANGED loc
       \/ Set(t, [loc[t] EXCEPT !.char = FALSE]) /\ UNCHANGED dev
    /\ UNCHANGED <<hw, lock>>

-------------------------------------------------------------------------------
(* obj_put *)

\* atomic_dec_and_test; another reference of the task is left if keeps.
Put(t, keeps) ==
    /\ dev' = [dev EXCEPT !.refcount[loc[t].obj] = @ - 1]
    /\ \/ dev.refcount[loc[t].obj] = 1 /\ Goto(t, "dtor") /\ UNCHANGED loc
       \/ /\ dev.refcount[loc[t].obj] # 1
          /\ IF keeps THEN Goto(t, "ready") /\ UNCHANGED loc ELSE Return(t)
    /\ UNCHANGED <<hw, lock>>

\* The end of char_device_get: the reference of device_get is put.
DropBase(t) == pc[t] = "drop" /\ Put(t, loc[t].char)

\* device_put and char_device_put; char_dtor puts the reference to the device.
device_put(t) ==
    /\ Step(t, "ready", "put")
    /\ UNCHANGED <<dev, hw, lock, loc>>
obj_put(t) == pc[t] = "put" /\ Put(t, FALSE)

\* A destructor that frees the object and leaves it in its class.
DtorFrees(t) ==
    /\ pc[t] = "dtor" /\ Return(t)
    /\ dev' = [dev EXCEPT !.live = @ \ {loc[t].obj}]
    /\ UNCHANGED <<hw, lock>>

\* The destructor of the class.
Dtor(t) ==
    /\ pc[t] = "dtor" /\ Return(t)
    /\ dev' = IF Kept THEN dev ELSE [dev EXCEPT !.live = @ \ {loc[t].obj}]
    /\ UNCHANGED <<hw, lock>>

-------------------------------------------------------------------------------
Call(t) == (\E char \in BOOLEAN : device_get(t, char)) \/ device_put(t)

Work(t) ==
    \/ DriverLock(t) \/ get_by_name_from_class(t) \/ obj_get(t) \/ Probe(t) \/ Ctor(t)
    \/ class_export_member(t) \/ char_device_cast(t) \/ DropBase(t) \/ obj_put(t) \/ Dtor(t)

Next == \E t \in Tasks : Call(t) \/ Work(t)

Spec == Init /\ [][Next]_vars

-------------------------------------------------------------------------------
(* Properties *)

\* device.c on the driver's mutex: it prevents that "the device would get double
\* constructed", whatever tasks get and put it, and however often it fails.
ConstructedOnce == Len(dev.instances) + Cardinality({t \in Tasks : pc[t] = "export"}) <= 1

\* The references that t has to the device.
References(t) ==
    CASE pc[t] \in {"export", "cast", "ready", "put"} -> 1
      [] pc[t] = "drop" -> IF loc[t].char THEN 2 ELSE 1
      [] OTHER -> 0

\* The count is the number of references that tasks have: a device in use never
\* reaches 0, also when a character device takes over the reference of the get.
RefcountExact ==
    \A o \in dev.live :
        dev.refcount[o] = LET S == {t \in Tasks : loc[t].obj = o /\ References(t) > 0}
                              D == {t \in S : References(t) = 2}
                          IN  Cardinality(S) + Cardinality(D)

\* device.h: "The device will be constructed if is it not already."  A task has a
\* device that is allocated.
DeviceLive == \A t \in Tasks : References(t) > 0 => loc[t].obj \in dev.live
================================================================================
