-------------------------------- MODULE Context --------------------------------
(***************************************************************************)
(* How an exception saves the registers of a task, and how the switch of   *)
(* tasks in its handler makes it return into another one: start.S,         *)
(* sched_asm.S, sched.c and svc.c of ARMv7-A, handlers.S, sched_asm.S,     *)
(* sched.c and svc.c of ARMv7-M, and switch_task.  Which task is next is   *)
(* the business of Sched; here it is any of them.                          *)
(*                                                                         *)
(* Registers that are treated alike are one: lo is r1-r3 and r12, hi is    *)
(* r4-r11, fp is s0-s15 with FPSCR and fq is s16-s31.  An address is that  *)
(* of a word.  A word is a triple of a name, the task it belongs to and a  *)
(* number, so that no two registers ever hold the same one by accident.    *)
(* Handlers mask the exceptions that switch tasks; Nobody stands for the   *)
(* code that runs before the first task.                                   *)
(***************************************************************************)
EXTENDS Calls, Sequences

CONSTANTS
    StackWords,     \* size of a stack
    MaxPushed,      \* bound on the words that a task has on its stack
    Pcs,            \* bound on the program counter
    FpuTasks        \* whether tasks of ARMv7-A use the FPU

ContextAssumption ==
    /\ StackWords \in Nat /\ StackWords >= 13 + MaxPushed
    /\ MaxPushed \in Nat /\ Pcs \in Nat \ {0, 1} /\ FpuTasks \in BOOLEAN

Core == {"r0", "lo", "hi", "lr", "pc", "psr"}
Fpu == {"fp", "fq"}

\* The registers that belong to a task.
Own == IF dev.arch = "armv7m" \/ FpuTasks THEN Core \cup Fpu ELSE Core

Word(name, t, n) == <<name, t, n>>
Zero == Word("zero", Nobody, 0)

\* The registers of t when it is at n.  The first component of psr is the mode.
Values(t, n) ==
    [x \in Core \cup Fpu |-> IF x = "psr" THEN Word("usr", t, n) ELSE Word(x, t, n)]

NextPc(w) == Word(w[1], w[2], (w[3] + 1) % Pcs)

\* The words are pushed from the first to the last.
Push(m, sp, words) ==
    [a \in DOMAIN m |-> IF a \in (sp - Len(words))..(sp - 1) THEN words[sp - a] ELSE m[a]]

\* Words below the stack pointer are dead; they are forgotten when a task goes on
\* or ends, so that a read of one is seen.
Forget(m, sp) == [a \in DOMAIN m |-> IF a < sp THEN Zero ELSE m[a]]

\* init_arch of ARMv7-M marks the floating-point context as in use, from which
\* on the frames of exceptions have room for it.  Without the mark:
BasicFrames == FALSE
init_arch == TRUE

\* stack: memory of the stacks.  exc: the stack of the exception.  registers: what
\* svc_handler is given.  exc_ret: EXC_RETURN, whether the frame is extended.
\* loc is history: what the registers and the stack have to be when the task
\* goes on.
Init ==
    /\ \E a \in {"armv7a", "armv7m"}, b \in {StackWords, StackWords + 1} :
          dev = [arch |-> a, stack_base |-> b, task_switching |-> FALSE, curr |-> Nobody,
                 stack_top |-> [t \in Tasks |-> b], running |-> [t \in Tasks |-> FALSE],
                 stack |-> [t \in Holders |-> [i \in 1..StackWords |-> Zero]]]
    /\ hw = [phase |-> "user", reg |-> Values(Nobody, 0), sp |-> dev.stack_base,
             spsr |-> Zero, exc |-> <<>>, registers |-> 0, svc |-> FALSE,
             fpca |-> dev.arch = "armv7m" /\ init_arch]
    /\ lock = <<>>
    /\ pc = [t \in Tasks |-> "ready"]
    /\ loc = [t \in Tasks |-> [reg |-> Values(t, 0), sp |-> 0, pushed |-> <<>>]]

Mem == dev.stack[dev.curr]

TypeOK ==
    /\ dev.curr \in Holders /\ dev.task_switching \in BOOLEAN
    /\ hw.phase \in {"user", "entry", "saved", "handled", "restored"}
    /\ hw.sp \in 1..(StackWords + 1)
    /\ \A t \in Tasks : dev.stack_top[t] \in 1..(StackWords + 1)
    /\ pc \in [Tasks -> {"ready", "run", "out"}]
    /\ lock = <<>>

-------------------------------------------------------------------------------
(* What tasks do *)

Runs(t) == hw.phase = "user" /\ dev.curr = t

\* The history follows the task.
Follow(t, r, sp, pushed) ==
    loc' = [loc EXCEPT ![t] = [reg |-> r, sp |-> sp, pushed |-> pushed]]

Compute(t) ==
    /\ Runs(t)
    /\ LET r == Values(t, NextPc(hw.reg["pc"])[3])
       IN  hw' = [hw EXCEPT !.reg = r] /\ Follow(t, r, hw.sp, loc[t].pushed)
    /\ UNCHANGED <<dev, lock, pc>>

PushWord(t) ==
    /\ Runs(t) /\ Len(loc[t].pushed) < MaxPushed
    /\ LET w == Word("pushed", t, Len(loc[t].pushed))
       IN  /\ dev' = [dev EXCEPT !.stack[t][hw.sp - 1] = w]
           /\ hw' = [hw EXCEPT !.sp = @ - 1]
           /\ Follow(t, hw.reg, hw.sp - 1, <<w>> \o loc[t].pushed)
    /\ UNCHANGED <<lock, pc>>

PopWord(t) ==
    /\ Runs(t) /\ loc[t].pushed # <<>>
    /\ hw' = [hw EXCEPT !.sp = @ + 1]
    /\ Follow(t, hw.reg, hw.sp + 1, Tail(loc[t].pushed))
    /\ UNCHANGED <<dev, lock, pc>>

-------------------------------------------------------------------------------
(* Exceptions *)

\* A service call returns behind its instruction, an interrupt to the one that it
\* came before.  ARMv7-A: LR is the address behind the instruction; _irq subtracts
\* one instruction, and both push it.
PushPc(kind) ==
    LET link == NextPc(hw.reg["pc"])
    IN  IF kind = "svc" THEN link ELSE hw.reg["pc"]

\* ARMv7-M: the processor aligns the stack to two words, notes in the stored psr
\* whether it did, and stores the lower half of the registers.
Aligned(sp) == sp - (sp % 2)
HardwareFrame(ret) ==
    (IF hw.fpca THEN <<hw.reg["fp"], hw.reg["fp"]>> ELSE <<>>)
        \o <<<<hw.reg["psr"], hw.sp % 2>>, ret, hw.reg["lr"], hw.reg["lo"], hw.reg["lo"],
              hw.reg["r0"]>>

\* The beginning of _service_call and _irq.
EntryA(kind) ==
    /\ dev.arch = "armv7a"
    /\ hw' = [hw EXCEPT !.phase = "entry", !.svc = (kind = "svc"), !.spsr = hw.reg["psr"],
                        !.exc = <<PushPc(kind)>>]
    /\ UNCHANGED dev

\* The beginning of _svc_asm and _pendsv.
EntryM(kind) ==
    /\ dev.arch = "armv7m"
    /\ LET frame == HardwareFrame(PushPc(kind))
       IN  /\ dev' = [dev EXCEPT !.stack[dev.curr] = Push(@, Aligned(hw.sp), frame)]
           /\ hw' = [hw EXCEPT !.phase = "entry", !.svc = (kind = "svc"), !.fpca = FALSE,
                               !.sp = Aligned(hw.sp) - Len(frame), !.exc = <<hw.fpca>>]

Entry(kind) == EntryA(kind) \/ EntryM(kind)

SVC(t) ==
    /\ Runs(t) /\ Entry("svc")
    /\ LET r == [loc[t].reg EXCEPT !["r0"] = Word("ret", t, 0), !["pc"] = NextPc(@)]
       IN  loc' = [loc EXCEPT ![t].reg = r]
    /\ UNCHANGED <<lock, pc>>

Interrupt(t) ==
    /\ Runs(t) /\ Entry("irq")
    /\ UNCHANGED <<lock, pc, loc>>

\* start_sched: the first switch is asked for by code that is no task.
start_sched ==
    /\ Runs(Nobody) /\ Entry("svc")
    /\ UNCHANGED <<lock, pc, loc>>

\* save_context of ARMv7-A: onto the stack of the exception, and from there to the
\* stack of the task, with its lr, once tasks are switched (copy_context_user).
SaveContextA ==
    /\ dev.arch = "armv7a"
    /\ LET frame == hw.exc \o <<hw.reg["hi"], hw.reg["lo"], hw.reg["r0"], hw.spsr>>
           user == frame \o <<hw.reg["lr"]>>
       IN  IF dev.task_switching /\ hw.spsr[1] = "usr"
           THEN /\ dev' = [dev EXCEPT !.stack[dev.curr] = Push(@, hw.sp, user)]
                /\ hw' = [hw EXCEPT !.phase = "saved", !.exc = frame, !.sp = @ - Len(user),
                                    !.registers = hw.sp - Len(frame)]
           ELSE /\ hw' = [hw EXCEPT !.phase = "saved", !.exc = frame, !.registers = 0]
                /\ UNCHANGED dev

\* save_context of ARMv7-M: the upper half of the registers, below those of the
\* processor.
SaveContextM ==
    /\ dev.arch = "armv7m"
    /\ dev' = [dev EXCEPT !.stack[dev.curr] = Push(@, hw.sp, <<hw.reg["hi"], hw.reg["fq"]>>)]
    /\ hw' = [hw EXCEPT !.phase = "saved", !.sp = @ - 2, !.registers = hw.sp]

save_context ==
    /\ hw.phase = "entry"
    /\ SaveContextA \/ SaveContextM
    /\ UNCHANGED <<lock, pc, loc>>

\* Where r0 is in what registers points to: behind cpsr, or first.
R0 == IF dev.arch = "armv7a" THEN hw.registers + 1 ELSE hw.registers

\* The contexts of a task that begins, on the two architectures; lptr is end_task.
lptr == Word("end_task", Nobody, 0)
CreateContextA(psr, fptr) == <<fptr, Zero, Zero, Zero, psr, lptr>>
CreateContextM(psr, fptr) ==
    <<Zero, Zero, <<psr, 0>>, fptr, lptr, Zero, Zero, Zero, Zero, Zero>>

create_context(t) ==
    LET psr == Word("usr", t, 0)
        fptr == Word("pc", t, 0)
    IN  IF dev.arch = "armv7a" THEN CreateContextA(psr, fptr) ELSE CreateContextM(psr, fptr)

\* What a task that begins finds.
Fresh(t) ==
    [x \in Core \cup Fpu |->
        CASE x = "psr" -> Word("usr", t, 0) [] x = "pc" -> Word("pc", t, 0)
          [] x = "lr" -> Word("end_task", Nobody, 0) [] OTHER -> Zero]

\* A switch that forgets where the stack of the task ended.
KeepsTop(tops, u) == tops

\* svc_task_switch: where the stack of the task ends.
SaveTop(tops, u) == IF u = Nobody THEN tops ELSE [tops EXCEPT ![u] = hw.sp]

\* switch_task, to t, when the stacks end at tops, run are the tasks that have a
\* context and the stack of kept is still used; svc_handler then stores the result
\* of the call.  It goes to the task that called, also when another one is now the
\* current task.
SwitchTo(t, tops, run, kept) ==
    LET old == dev.curr
        mem == IF hw.svc /\ hw.registers # 0
               THEN [dev.stack EXCEPT ![old][R0] = Word("ret", old, 0)] ELSE dev.stack
        stacks == IF old = kept THEN mem ELSE [mem EXCEPT ![old] = Forget(@, dev.stack_base)]
        base == Aligned(tops[t])
        frame == create_context(t)
        top == IF run[t] THEN tops[t] ELSE base - Len(frame)
    IN  /\ dev' = [dev EXCEPT !.task_switching = TRUE, !.curr = t,
                              !.running = [run EXCEPT ![t] = TRUE],
                              !.stack_top = [tops EXCEPT ![t] = top],
                              !.stack = IF run[t] THEN stacks
                                        ELSE [stacks EXCEPT ![t] = Push(@, base, frame)]]
        /\ hw' = [hw EXCEPT !.phase = "handled", !.sp = top]
        /\ loc' = IF run[t] THEN loc
                  ELSE [loc EXCEPT ![t] = [reg |-> Fresh(t), sp |-> base, pushed |-> <<>>]]

\* svc_handler or irq_handler, with a switch.
task_switch(t) ==
    /\ hw.phase = "saved"
    /\ SwitchTo(t, SaveTop(dev.stack_top, dev.curr), dev.running, dev.curr)
    /\ pc' = [u \in Tasks |-> IF u = t THEN "run" ELSE IF u = dev.curr THEN "out" ELSE pc[u]]
    /\ UNCHANGED lock

\* svc_handler, for a call that does not switch.
svc_handler ==
    /\ hw.phase = "saved" /\ hw.svc /\ dev.curr # Nobody
    /\ dev' = [dev EXCEPT !.stack[dev.curr][R0] = Word("ret", dev.curr, 0)]
    /\ hw' = [hw EXCEPT !.phase = "handled"]
    /\ UNCHANGED <<lock, pc, loc>>

\* sched_svc_end_task of a periodic task, which begins again with an empty stack.
sched_svc_end_task(t) ==
    /\ hw.phase = "saved" /\ hw.svc /\ dev.curr \notin {Nobody, t}
    /\ SwitchTo(t, [dev.stack_top EXCEPT ![dev.curr] = dev.stack_base],
                [dev.running EXCEPT ![dev.curr] = FALSE], Nobody)
    /\ pc' = [u \in Tasks |-> IF u = t THEN "run" ELSE IF u = dev.curr THEN "ready" ELSE pc[u]]
    /\ UNCHANGED lock

\* restore_context of ARMv7-A: what the exception has on its stack belongs to the
\* task that it came from and is discarded; the registers are popped from the
\* stack of the task, and the address to return to is left for the exception.
RestoreContextA ==
    /\ dev.arch = "armv7a"
    /\ IF hw.exc[Len(hw.exc)][1] = "usr"
       THEN hw' = [hw EXCEPT !.phase = "restored", !.sp = @ + 6, !.exc = <<Mem[hw.sp + 5]>>,
                             !.spsr = Mem[hw.sp + 1],
                             !.reg = [@ EXCEPT !["lr"] = Mem[hw.sp], !["r0"] = Mem[hw.sp + 2],
                                               !["lo"] = Mem[hw.sp + 3], !["hi"] = Mem[hw.sp + 4]]]
       ELSE hw' = [hw EXCEPT !.phase = "restored", !.exc = <<hw.exc[1]>>, !.spsr = hw.exc[5],
                             !.reg = [@ EXCEPT !["hi"] = hw.exc[2], !["lo"] = hw.exc[3],
                                               !["r0"] = hw.exc[4]]]

RestoreContextM ==
    /\ dev.arch = "armv7m"
    /\ hw' = [hw EXCEPT !.phase = "restored", !.sp = @ + 2,
                        !.reg = [@ EXCEPT !["fq"] = Mem[hw.sp], !["hi"] = Mem[hw.sp + 1]]]

restore_context ==
    /\ hw.phase = "handled"
    /\ RestoreContextA \/ RestoreContextM
    /\ UNCHANGED <<dev, lock, pc, loc>>

\* The return from the exception.  ARMv7-A: pc from the stack of the exception and
\* psr from spsr.
ReturnA ==
    /\ dev.arch = "armv7a"
    /\ hw' = [hw EXCEPT !.phase = "user", !.exc = <<>>, !.registers = 0,
                        !.reg = [@ EXCEPT !["pc"] = hw.exc[1], !["psr"] = hw.spsr]]

\* ARMv7-M: the processor pops its frame, whose size EXC_RETURN tells; that is the
\* one of the task which the exception came from.
ReturnM ==
    /\ dev.arch = "armv7m"
    /\ LET extended == hw.exc[1]
           size == IF extended THEN 8 ELSE 6
       IN  hw' = [hw EXCEPT !.phase = "user", !.exc = <<>>, !.registers = 0, !.fpca = extended,
                            !.sp = @ + size + Mem[hw.sp + 5][2],
                            !.reg = [@ EXCEPT !["r0"] = Mem[hw.sp], !["lo"] = Mem[hw.sp + 1],
                                              !["lr"] = Mem[hw.sp + 3], !["pc"] = Mem[hw.sp + 4],
                                              !["psr"] = Mem[hw.sp + 5][1],
                                              !["fp"] = IF extended THEN Mem[hw.sp + 6] ELSE hw.reg["fp"]]]

Return ==
    /\ hw.phase = "restored"
    /\ ReturnA \/ ReturnM
    /\ dev' = [dev EXCEPT !.stack[dev.curr] = Forget(@, hw'.sp)]
    /\ UNCHANGED <<lock, pc, loc>>

-------------------------------------------------------------------------------
\* The steps of the exception of t.
Work(t) ==
    /\ dev.curr = t
    /\ Compute(t) \/ SVC(t) \/ Interrupt(t) \/ save_context \/ svc_handler \/ restore_context \/ Return
       \/ \E u \in Tasks : task_switch(u) \/ sched_svc_end_task(u)

Next ==
    \/ start_sched \/ save_context \/ svc_handler \/ restore_context \/ Return
    \/ \E t \in Tasks : Compute(t) \/ PushWord(t) \/ PopWord(t) \/ SVC(t) \/ Interrupt(t)
                        \/ task_switch(t) \/ sched_svc_end_task(t)

Spec == Init /\ [][Next]_vars

-------------------------------------------------------------------------------
(* Properties *)

\* A task goes on with the registers and the stack pointer that it had when an
\* exception came, however many tasks ran in between, and with the result of a
\* service call in r0; a task that begins finds its entry, end_task as the
\* address to return to, and an aligned stack.
ContextExact ==
    \A t \in Tasks : Runs(t) =>
        /\ \A x \in Own : hw.reg[x] = loc[t].reg[x]
        /\ hw.sp = loc[t].sp

\* What a task has pushed stays on its stack, while it runs and while it does
\* not: the contexts that are stored there and the results of service calls
\* never come to lie in it.
StackKept ==
    \A t \in Tasks : pc[t] # "ready" =>
        \A i \in DOMAIN loc[t].pushed : dev.stack[t][loc[t].sp + i - 1] = loc[t].pushed[i]
================================================================================
