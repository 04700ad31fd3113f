--------------------------------- MODULE Calls ---------------------------------
(***************************************************************************)
(* Tasks that call the operations of a driver.  The drivers are written    *)
(* alike, so their modules share the names of the state: the memory of the *)
(* driver, the registers of its peripheral, its mutexes, and where in an   *)
(* operation each task is.  The mutexes are those of Mutex.tla, which are  *)
(* shown there to be locks.                                                *)
(***************************************************************************)
EXTENDS Integers, FiniteSets

CONSTANTS
    Tasks,
    Nobody      \* the holder of a free mutex

ASSUME CallsAssumption == Nobody \notin Tasks

VARIABLES
    dev,        \* what the driver keeps in memory: a record
    hw,         \* the registers of the peripheral: a record
    lock,       \* the holder of each mutex
    pc,         \* where each task is: "idle" outside the driver
    loc         \* the locals of each task and the object it holds: a record

vars == <<dev, hw, lock, pc, loc>>

Holders == Tasks \cup {Nobody}

Goto(t, p) == pc' = [pc EXCEPT ![t] = p]

Step(t, p, q) == pc[t] = p /\ Goto(t, q)

Set(t, l) == loc' = [loc EXCEPT ![t] = l]

Free(m) == lock[m] = Nobody

\* kernel/mutex.c, acquire: waits until the mutex is free.
acquire(t, m) == Free(m) /\ lock' = [lock EXCEPT ![m] = t]

\* kernel/mutex.c, release.
release(m) == lock' = [lock EXCEPT ![m] = Nobody]
================================================================================
