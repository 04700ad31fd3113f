-------------------------------- MODULE Streams --------------------------------
(***************************************************************************)
(* The character devices that are memory: a stream over a caller's buffer  *)
(* (dev/buf_stream.c) and the shared memory (dev/shared_mem.c).  Tasks     *)
(* read and write one of them.  Bytes are numbered from 1 in the order in  *)
(* which they are written; 0 is the terminating NUL.                       *)
(***************************************************************************)
EXTENDS Calls

CONSTANTS
    StreamLen,      \* len of a stream and SM_SIZE of a shared memory
    Nums,           \* the numbers of bytes that are read and written
    MaxWritten      \* bound on the bytes written

StreamsAssumption ==
    /\ StreamLen \in Nat \ {0} /\ Nums \subseteq Nat /\ MaxWritten \in Nat

Index == 0..(StreamLen - 1)
NUL == 0

Nothing == [op |-> "none", num |-> 0]

\* i, read_ctr and write_ctr are positions; a buffer has one for both directions.
TypeOK ==
    /\ dev.kind \in {"buf", "shared"}
    /\ dev.data \in [Index -> 0..MaxWritten]
    /\ dev.i \in 0..StreamLen /\ dev.read_ctr \in 0..StreamLen /\ dev.write_ctr \in 0..StreamLen
    /\ hw.written \in 0..MaxWritten /\ hw.read \in 0..(MaxWritten + 1)
    /\ lock \in [{"stream"} -> Holders]
    /\ pc \in [Tasks -> {"idle", "lock", "loop"}]

\* hw is history: bytes asked to be written, written, read (counted up to
\* MaxWritten + 1), and the last one read.
\* A caller's buffer may have anything in it, here a byte that is never written.
Init ==
    /\ \/ dev = [kind |-> "buf", data |-> [k \in Index |-> MaxWritten],
                 i |-> 0, read_ctr |-> 0, write_ctr |-> 0]
       \/ dev = [kind |-> "shared", data |-> [k \in Index |-> NUL],
                 i |-> 0, read_ctr |-> 0, write_ctr |-> 0]
    /\ hw = [asked |-> 0, written |-> 0, read |-> 0, last |-> NUL]
    /\ lock = [m \in {"stream"} |-> Nobody]
    /\ pc = [t \in Tasks |-> "idle"]
    /\ loc = [t \in Tasks |-> Nothing]

-------------------------------------------------------------------------------
read(t, n) ==
    /\ Step(t, "idle", "lock")
    /\ Set(t, [op |-> "read", num |-> n])
    /\ UNCHANGED <<dev, hw, lock>>

write(t, n) ==
    /\ Step(t, "idle", "lock")
    /\ hw.asked + n < MaxWritten
    /\ hw' = [hw EXCEPT !.asked = @ + n]
    /\ Set(t, [op |-> "write", num |-> n])
    /\ UNCHANGED <<dev, lock>>

Lock(t) ==
    /\ Step(t, "lock", "loop") /\ acquire(t, "stream")
    /\ UNCHANGED <<dev, hw, loc>>

In(t, kind, op) == pc[t] = "loop" /\ dev.kind = kind /\ loc[t].op = op
Again(t) == Set(t, [loc[t] EXCEPT !.num = @ - 1]) /\ UNCHANGED <<pc, lock>>
Out(t) == Goto(t, "idle") /\ Set(t, Nothing) /\ release("stream")

\* The NUL is read and not passed.
buf_stream_read(t) ==
    /\ In(t, "buf", "read")
    /\ IF loc[t].num = 0 \/ dev.i >= StreamLen THEN Out(t) /\ UNCHANGED <<dev, hw>>
       ELSE /\ hw' = [hw EXCEPT !.last = dev.data[dev.i]]
            /\ IF dev.data[dev.i] = NUL THEN Out(t) /\ UNCHANGED dev
               ELSE Again(t) /\ dev' = [dev EXCEPT !.i = @ + 1]

\* A write that leaves no room for the NUL.
WriteToEnd(t) ==
    /\ In(t, "buf", "write")
    /\ IF loc[t].num = 0 \/ dev.i >= StreamLen THEN Out(t) /\ UNCHANGED <<dev, hw>>
       ELSE /\ dev' = [dev EXCEPT !.i = @ + 1,
                                  !.data = [k \in Index |-> IF k = dev.i THEN hw.written + 1
                                                            ELSE IF k = dev.i + 1 THEN NUL
                                                            ELSE @[k]]]
            /\ hw' = [hw EXCEPT !.written = @ + 1]
            /\ Again(t)

buf_stream_write(t) ==
    /\ In(t, "buf", "write")
    /\ IF loc[t].num = 0 \/ dev.i >= StreamLen - 1 THEN Out(t) /\ UNCHANGED <<dev, hw>>
       ELSE /\ dev' = [dev EXCEPT !.i = @ + 1, !.data[dev.i] = hw.written + 1,
                                  !.data[dev.i + 1] = NUL]
            /\ hw' = [hw EXCEPT !.written = @ + 1]
            /\ Again(t)

\* The place of the next byte.
Wrapped(ctr) == IF ctr >= StreamLen THEN 0 ELSE ctr

shared_mem_read(t) ==
    /\ In(t, "shared", "read")
    /\ IF loc[t].num = 0 THEN Out(t) /\ UNCHANGED <<dev, hw>>
       ELSE /\ dev' = [dev EXCEPT !.read_ctr = Wrapped(@) + 1]
            /\ hw' = [hw EXCEPT !.read = IF @ <= MaxWritten THEN @ + 1 ELSE @,
                                !.last = dev.data[Wrapped(dev.read_ctr)]]
            /\ Again(t)

\* A write whose counter passes the end by one.
WritesPast(t) ==
    /\ In(t, "shared", "write")
    /\ IF loc[t].num = 0 THEN Out(t) /\ UNCHANGED <<dev, hw>>
       ELSE LET k == IF dev.write_ctr >= StreamLen - 1 THEN 0 ELSE dev.write_ctr
            IN  /\ dev' = [dev EXCEPT !.write_ctr = k + 1, !.data[k] = hw.written + 1]
                /\ hw' = [hw EXCEPT !.written = @ + 1]
                /\ Again(t)

shared_mem_write(t) ==
    /\ In(t, "shared", "write")
    /\ IF loc[t].num = 0 THEN Out(t) /\ UNCHANGED <<dev, hw>>
       ELSE /\ dev' = [dev EXCEPT !.write_ctr = Wrapped(@) + 1,
                                  !.data[Wrapped(dev.write_ctr)] = hw.written + 1]
            /\ hw' = [hw EXCEPT !.written = @ + 1]
            /\ Again(t)

-------------------------------------------------------------------------------
Call(t) == \E n \in Nums : read(t, n) \/ write(t, n)

Work(t) ==
    \/ Lock(t) \/ buf_stream_read(t) \/ buf_stream_write(t)
    \/ shared_mem_read(t) \/ shared_mem_write(t)

Next == \E t \in Tasks : Call(t) \/ Work(t)

Spec == Init /\ [][Next]_vars

-------------------------------------------------------------------------------
(* Properties *)

\* buf_stream.c: "Always leave room for NULL byte at end of buffer".  A buffer
\* that was written to is terminated, wherever reads have moved the position.
Terminated ==
    dev.kind = "buf" /\ hw.written > 0 => \E k \in Index : dev.data[k] = NUL

\* While the readers of a shared memory are behind its writers by no more than
\* its size, they read the bytes in the order in which they were written.
SharedInOrderStep ==
    dev.kind = "shared" /\ hw'.read # hw.read
        /\ hw'.read <= hw.written /\ hw.written < hw'.read + StreamLen =>
            hw'.last = hw'.read
SharedInOrder == [][SharedInOrderStep]_vars
================================================================================
