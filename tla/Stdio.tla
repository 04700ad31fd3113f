--------------------------------- MODULE Stdio ---------------------------------
(***************************************************************************)
(* Formatted output: vfprintf of lib/stdio.c with its holding buffer, and  *)
(* write_block, which calls the write of a character device until all is   *)
(* written or the device fails.  Tasks print to a device that takes what   *)
(* it can, or into a buffer of theirs (scnprintf, over a buf_stream).  The *)
(* bytes of two calls may alternate on a device; nothing else is shared.   *)
(*                                                                         *)
(* A format is the sequence of its directives.  Hold is a character that   *)
(* goes through the holding buffer: one of the text, %c and %%; an unknown *)
(* directive is two.  A number is the length of a text that does not: %s   *)
(* and the conversions.  The bytes of a call are numbered from 1; none is  *)
(* a NUL.                                                                  *)
(***************************************************************************)
EXTENDS Calls, Sequences, SequencesExt

CONSTANTS
    HoldLen,        \* sizeof(holding)
    Formats,
    BufLen,         \* n of scnprintf
    Overlong        \* whether scnprintf is given formats that do not fit

Hold == -1

StdioAssumption ==
    /\ HoldLen \in Nat \ {0, 1} /\ BufLen \in Nat \ {0} /\ Overlong \in BOOLEAN
    /\ \A f \in Formats : \A i \in DOMAIN f : f[i] \in Nat \cup {Hold}

\* The number of bytes of a format.
Length(f) == FoldLeft(LAMBDA n, d : IF d = Hold THEN n + 1 ELSE n + d, 0, f)

\* room: what is left of the caller's buffer, or Unlimited for a device.
Unlimited == -1

\* held: the numbers of the bytes in holding; buf: those that write_block still
\* has; written: its total; next: where its caller goes on.  taken is history:
\* how many bytes of the call the device has taken, and lost that one of them
\* was not the next.
Nothing == [room |-> Unlimited, fmt |-> <<>>, held |-> <<>>, made |-> 0, buf |-> <<>>,
            written |-> 0, next |-> "none", total |-> 0, ret |-> 0, taken |-> 0, lost |-> FALSE]

TypeOK ==
    /\ dev = <<>> /\ hw = <<>> /\ lock = <<>>
    /\ pc \in [Tasks -> {"idle", "format", "write", "push", "puts", "done"}]
    /\ \A t \in Tasks : /\ loc[t].room \in {Unlimited} \cup 0..(BufLen - 1)
                        /\ loc[t].next \in {"none", "push", "puts", "format", "done"}
                        /\ loc[t].made \in Nat /\ loc[t].total \in Nat

Init ==
    /\ dev = <<>> /\ hw = <<>> /\ lock = <<>>
    /\ pc = [t \in Tasks |-> "idle"]
    /\ loc = [t \in Tasks |-> Nothing]

-------------------------------------------------------------------------------
(* write_block *)

\* The device takes k of the bytes.
Taken(l, k) ==
    [l EXCEPT !.buf = SubSeq(@, k + 1, Len(@)), !.written = @ + k, !.taken = @ + k,
              !.room = IF @ = Unlimited THEN @ ELSE @ - k,
              !.lost = @ \/ SubSeq(l.buf, 1, k) # [i \in 1..k |-> l.taken + i]]

\* A buf_stream takes what fits, another device any number of bytes.
Takes(l) ==
    IF l.room = Unlimited THEN 0..Len(l.buf)
    ELSE {IF Len(l.buf) <= l.room THEN Len(l.buf) ELSE l.room}

\* The caller adds what was written; holding_flush has emptied the buffer.
WrittenAll(t, l) ==
    /\ Set(t, [l EXCEPT !.total = @ + l.written,
                        !.ret = IF l.next = "done" THEN l.total + l.written ELSE @,
                        !.held = IF l.next = "format" THEN @ ELSE <<>>])
    /\ Goto(t, l.next)

\* A write_block that begins again after a partial write.
WriteFromStart(t) ==
    /\ pc[t] = "write"
    /\ \E k \in Takes(loc[t]) :
          LET l == Taken(loc[t], k)
          IN  IF l.buf = <<>> THEN WrittenAll(t, l)
              ELSE Set(t, [l EXCEPT !.buf = loc[t].buf]) /\ UNCHANGED pc
    /\ UNCHANGED <<dev, hw, lock>>

\* A flush that leaves its bytes in the buffer.
WriteKeepsHeld(t) ==
    /\ pc[t] = "write"
    /\ \E k \in Takes(loc[t]) :
          LET l == Taken(loc[t], k)
          IN  IF l.buf = <<>> THEN Goto(t, l.next) /\ Set(t, [l EXCEPT !.total = @ + l.written])
              ELSE Set(t, l) /\ UNCHANGED pc
    /\ UNCHANGED <<dev, hw, lock>>

\* One write.
write_block(t) ==
    /\ pc[t] = "write"
    /\ \E k \in Takes(loc[t]) :
          LET l == Taken(loc[t], k)
          IN  IF l.buf = <<>> THEN WrittenAll(t, l) ELSE Set(t, l) /\ UNCHANGED pc
    /\ UNCHANGED <<dev, hw, lock>>

\* The device fails, after some bytes.  holding_push still adds its character;
\* all other callers return.
WriteFails(t) ==
    /\ pc[t] = "write" /\ loc[t].room = Unlimited
    /\ \E k \in Takes(loc[t]) : Set(t, [Taken(loc[t], k) EXCEPT !.ret = -1])
    /\ Goto(t, IF loc[t].next = "push" THEN "push" ELSE "done")
    /\ UNCHANGED <<dev, hw, lock>>

-------------------------------------------------------------------------------
(* vfprintf *)

fprintf(t, f) ==
    /\ Step(t, "idle", "format")
    /\ Set(t, [Nothing EXCEPT !.fmt = f])
    /\ UNCHANGED <<dev, hw, lock>>

scnprintf(t, f) ==
    /\ Step(t, "idle", "format")
    /\ Overlong \/ Length(f) <= BufLen - 1
    /\ Set(t, [Nothing EXCEPT !.fmt = f, !.room = BufLen - 1])
    /\ UNCHANGED <<dev, hw, lock>>

\* What follows is done after the held bytes are written, if there are any.
holding_flush(t, next) ==
    IF loc[t].held = <<>> THEN
        /\ Goto(t, next)
        /\ Set(t, [loc[t] EXCEPT !.ret = IF next = "done" THEN loc[t].total ELSE @])
    ELSE
        /\ Goto(t, "write")
        /\ Set(t, [loc[t] EXCEPT !.buf = loc[t].held, !.written = 0, !.next = next])

\* A test that leaves no room for the NUL.
FullTooLate(l) == Len(l.held) >= HoldLen

\* holding_push: there is room for one more and the NUL, or not.
Full(l) == Len(l.held) >= HoldLen - 1

vfprintf(t) ==
    /\ pc[t] = "format"
    /\ LET l == loc[t]
       IN  \/ l.fmt = <<>> /\ holding_flush(t, "done")
           \/ l.fmt # <<>> /\ Head(l.fmt) # Hold /\ holding_flush(t, "puts")
           \/ l.fmt # <<>> /\ Head(l.fmt) = Hold /\ Full(l) /\ holding_flush(t, "push")
           \/ l.fmt # <<>> /\ Head(l.fmt) = Hold /\ ~Full(l) /\ Goto(t, "push") /\ UNCHANGED loc
    /\ UNCHANGED <<dev, hw, lock>>

holding_push(t) ==
    /\ pc[t] = "push"
    /\ Goto(t, IF loc[t].ret < 0 THEN "done" ELSE "format")
    /\ Set(t, [loc[t] EXCEPT !.held = Append(@, loc[t].made + 1), !.made = @ + 1,
                             !.fmt = Tail(@)])
    /\ UNCHANGED <<dev, hw, lock>>

\* A conversion or a string: fputs.
fputs(t) ==
    /\ Step(t, "puts", "write")
    /\ LET n == Head(loc[t].fmt)
       IN  Set(t, [loc[t] EXCEPT !.buf = [i \in 1..n |-> loc[t].made + i], !.made = @ + n,
                                 !.written = 0, !.next = "format", !.fmt = Tail(@)])
    /\ UNCHANGED <<dev, hw, lock>>

Return(t) ==
    /\ Step(t, "done", "idle") /\ Set(t, Nothing)
    /\ UNCHANGED <<dev, hw, lock>>

-------------------------------------------------------------------------------
Call(t) == \E f \in Formats : fprintf(t, f) \/ scnprintf(t, f)

Work(t) ==
    \/ vfprintf(t) \/ holding_push(t) \/ fputs(t) \/ write_block(t) \/ WriteFails(t)
    \/ Return(t)

Next == \E t \in Tasks : Call(t) \/ Work(t)

Spec == Init /\ [][Next]_vars

-------------------------------------------------------------------------------
(* Properties *)

\* stdio.c on vfprintf: "Returns bytes written, negative on error".  The device
\* takes the bytes of a call in order, whichever way they go, and a call without
\* an error returns their number.
PrintedExact ==
    \A t \in Tasks :
        /\ ~loc[t].lost
        /\ pc[t] = "done" /\ loc[t].ret >= 0 =>
              loc[t].fmt = <<>> /\ loc[t].ret = loc[t].taken /\ loc[t].taken = loc[t].made

\* The holding buffer has room for its bytes and a NUL at every step; only the
\* character that is pushed when the device fails can pass its end, by the NUL.
HoldingBounded ==
    \A t \in Tasks :
        \/ Len(loc[t].held) < HoldLen
        \/ Len(loc[t].held) = HoldLen /\ pc[t] = "done" /\ loc[t].ret < 0

\* stdio.h on scnprintf: "writing at most n bytes".  Where the text fits, every
\* write into the buffer finds room, so that write_block comes to its end.
BufferHasRoom ==
    \A t \in Tasks : pc[t] = "write" /\ loc[t].room # Unlimited =>
        Len(loc[t].buf) <= loc[t].room
================================================================================
