--------------------------------- MODULE Atomic --------------------------------
(***************************************************************************)
(* The atomic operations of arch/armv7m/include/atomic.h: a load that sets *)
(* the exclusive monitor of the processor, a store that succeeds while it  *)
(* is set and clears it, and a loop around both.  There is one processor;  *)
(* another task runs only after an exception, which clears the monitor on  *)
(* ARMv7-M.  ARMv7-A leaves it as it is (Clears = FALSE).                  *)
(*                                                                         *)
(* The operations differ in what they store: or and and work on a word of  *)
(* bits, add and sub on a number, here one of AtomicWord values.  They     *)
(* return what they stored.                                                *)
(***************************************************************************)
EXTENDS Calls

CONSTANTS
    AtomicWord,     \* number of values of a word
    Operands,
    Clears          \* whether an exception clears the monitor

AtomicAssumption ==
    /\ AtomicWord \in {2^n : n \in 0..30} /\ Operands \subseteq 0..(AtomicWord - 1) /\ Clears \in BOOLEAN

Words == 0..(AtomicWord - 1)

atomic_add(v, i) == (v + i) % AtomicWord
atomic_sub(v, i) == (v - i) % AtomicWord

\* The word whose bit k is that of v or of i, or of both.
Bit(v, k) == (v \div 2^k) % 2 = 1
atomic_or(v, i) == CHOOSE r \in Words : \A k \in Words : Bit(r, k) <=> Bit(v, k) \/ Bit(i, k)
atomic_and(v, i) == CHOOSE r \in Words : \A k \in Words : Bit(r, k) <=> Bit(v, k) /\ Bit(i, k)

Result(op, v, i) ==
    CASE op = "add" -> atomic_add(v, i) [] op = "sub" -> atomic_sub(v, i)
      [] op = "or" -> atomic_or(v, i)   [] op = "and" -> atomic_and(v, i)

Nothing == [op |-> "none", i |-> 0, reg |-> 0]

\* model and seen are history: the value if every operation is a single step, and
\* for each task the value it would return.
Init ==
    /\ dev = [num |-> 0, model |-> 0, seen |-> [t \in Tasks |-> 0]]
    /\ hw = [monitor |-> FALSE, curr |-> Nobody]
    /\ lock = <<>>
    /\ pc = [t \in Tasks |-> "idle"]
    /\ loc = [t \in Tasks |-> Nothing]

TypeOK ==
    /\ dev.num \in Words /\ dev.model \in Words
    /\ hw.monitor \in BOOLEAN /\ hw.curr \in Holders
    /\ pc \in [Tasks -> {"idle", "load", "store", "return"}]
    /\ lock = <<>>

-------------------------------------------------------------------------------
\* An exception switches to t.
Switch(t) ==
    /\ hw.curr # t
    /\ hw' = [curr |-> t, monitor |-> hw.monitor /\ ~Clears]
    /\ UNCHANGED <<dev, lock, pc, loc>>

Begin(t, op, i) ==
    /\ hw.curr = t /\ Step(t, "idle", "load")
    /\ Set(t, [Nothing EXCEPT !.op = op, !.i = i])
    /\ UNCHANGED <<dev, hw, lock>>

\* Word accesses are atomic by themselves.
atomic_set(t, i) ==
    /\ hw.curr = t /\ pc[t] = "idle"
    /\ dev' = [dev EXCEPT !.num = i, !.model = i]
    /\ UNCHANGED <<hw, lock, pc, loc>>

\* ldrex.
load_link(t) ==
    /\ hw.curr = t /\ Step(t, "load", "store")
    /\ hw' = [hw EXCEPT !.monitor = TRUE]
    /\ Set(t, [loc[t] EXCEPT !.reg = dev.num])
    /\ UNCHANGED <<dev, lock>>

\* A loop that ends after one store, whether it has succeeded or not.
OneTry(succeeded) == "return"

\* cmp, bne: again if the store failed.
Again(succeeded) == IF succeeded THEN "return" ELSE "load"

\* strex: stores while the monitor is set.
store_conditional(t) ==
    /\ hw.curr = t /\ pc[t] = "store"
    /\ LET l == loc[t]
           new == Result(l.op, l.reg, l.i)
           model == Result(l.op, dev.model, l.i)
       IN  /\ dev' = IF ~hw.monitor THEN dev
                     ELSE [num |-> new, model |-> model,
                           seen |-> [dev.seen EXCEPT ![t] = model]]
           /\ Set(t, [l EXCEPT !.reg = new])
    /\ hw' = [hw EXCEPT !.monitor = FALSE]
    /\ Goto(t, Again(hw.monitor))
    /\ UNCHANGED lock

Return(t) ==
    /\ hw.curr = t /\ Step(t, "return", "idle")
    /\ Set(t, Nothing)
    /\ dev' = [dev EXCEPT !.seen[t] = 0]
    /\ UNCHANGED <<hw, lock>>

-------------------------------------------------------------------------------
Call(t) ==
    \E i \in Operands :
        atomic_set(t, i) \/ \E op \in {"add", "sub", "or", "and"} : Begin(t, op, i)

Work(t) == load_link(t) \/ store_conditional(t) \/ Return(t)

Next == \E t \in Tasks : Switch(t) \/ Call(t) \/ Work(t)

Spec == Init /\ [][Next]_vars

-------------------------------------------------------------------------------
(* Properties *)

\* No update is lost, and every operation returns what it would if it were a
\* single step, so that one of several tasks that put an object finds that its
\* reference was the last (atomic_dec_and_test).
UpdatesKept ==
    /\ dev.num = dev.model
    /\ \A t \in Tasks : pc[t] = "return" => loc[t].reg = dev.seen[t]
================================================================================
