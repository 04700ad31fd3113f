--------------------------------- MODULE Shell ---------------------------------
(***************************************************************************)
(* The shell, usr/shell/shell.c: the line editor with its history, the     *)
(* completion of names, and the making and freeing of argv.  One task runs *)
(* it.  A key is one step, as is the parsing of a line and the command.    *)
(* What is printed is left out.                                            *)
(***************************************************************************)
EXTENDS Calls, Sequences, SequencesExt

CONSTANTS
    ShellBufMax,    \* SHELL_BUF_MAX and SHELL_ARG_BUF_MAX
    ShellHistory,   \* SHELL_HISTORY
    Printable,      \* the characters that can be typed
    Apps,           \* names of the commands, in the order of the linker array
    TableFails      \* whether the allocation of the argv table may fail

\* Characters.
NUL == "nul"
Space == "space"
Chars == Printable \cup {NUL}

ShellAssumption ==
    /\ ShellBufMax \in Nat /\ ShellBufMax > 1 /\ ShellHistory \in Nat \ {0}
    /\ Space \in Printable /\ NUL \notin Printable /\ TableFails \in BOOLEAN
    /\ \A i \in DOMAIN Apps : Apps[i] \in Seq(Printable) /\ Len(Apps[i]) \in 1..(ShellBufMax - 1)

\* A buffer has the indices of the code, from 0.
Buffers == [0..(ShellBufMax - 1) -> Chars]
Blank == [i \in 0..(ShellBufMax - 1) |-> NUL]

strnlen(b) ==
    CHOOSE n \in 0..ShellBufMax : (n = ShellBufMax \/ b[n] = NUL) /\ \A i \in 0..(n - 1) : b[i] # NUL

\* The text in a buffer.
Text(b) == [i \in 1..strnlen(b) |-> b[i - 1]]

\* argv is a sequence, or Null; held is the number of blocks that are allocated.
Null == <<"null">>

Init ==
    /\ dev = [cmd_hist |-> [h \in 0..(ShellHistory - 1) |-> Blank], cmd_index |-> 0, n |-> 0,
              state |-> "edit", argc |-> 0, argv |-> Null, held |-> 0]
    /\ hw = <<>> /\ lock = <<>>
    /\ pc = [t \in Tasks |-> "idle"]
    /\ loc = [t \in Tasks |-> <<>>]

command == dev.cmd_hist[dev.cmd_index]

TypeOK ==
    /\ dev.cmd_hist \in [0..(ShellHistory - 1) -> Buffers]
    /\ dev.cmd_index \in 0..(ShellHistory - 1)
    /\ dev.n \in 0..ShellBufMax
    /\ dev.state \in {"edit", "parse", "table", "run", "free"}
    /\ dev.argc \in -1..ShellBufMax
    /\ dev.held \in 0..(ShellBufMax + 1)

-------------------------------------------------------------------------------
(* The line editor *)

Frame == UNCHANGED <<hw, lock, pc, loc>>

\* The loop goes on with a new line.
NewLine(d, i) == [d EXCEPT !.cmd_index = i, !.cmd_hist[i] = Blank, !.n = 0, !.state = "edit"]

\* A test that comes one character too late.
EditedLate(d) == IF d.n > ShellBufMax THEN NewLine(d, d.cmd_index) ELSE d

\* The line is too long: it is left and begun again.
Edited(d) == IF d.n >= ShellBufMax THEN NewLine(d, d.cmd_index) ELSE d

Type(c) ==
    /\ dev.state = "edit"
    /\ dev' = Edited([dev EXCEPT !.cmd_hist[dev.cmd_index][dev.n] = c, !.n = @ + 1])
    /\ Frame

Enter ==
    /\ dev.state = "edit"
    /\ dev' = [dev EXCEPT !.state = "parse"]
    /\ Frame

\* memmove, and a NUL at the end.
Delete(b, n) ==
    [i \in DOMAIN b |-> IF i = ShellBufMax - 1 THEN NUL ELSE IF i < n - 1 THEN b[i] ELSE b[i + 1]]

Backspace ==
    /\ dev.state = "edit" /\ dev.n > 0
    /\ dev' = [dev EXCEPT !.cmd_hist[dev.cmd_index] = Delete(@, dev.n), !.n = @ - 1]
    /\ Frame

\* Arrow keys: up goes back by going round.
History(direction) ==
    /\ dev.state = "edit"
    /\ LET i == (dev.cmd_index + direction) % ShellHistory
       IN  dev' = Edited([dev EXCEPT !.cmd_index = i, !.n = strnlen(dev.cmd_hist[i])])
    /\ Frame

\* A cursor that moves beyond the text.
RightAlways(b, n) == TRUE

MayMoveRight(b, n) == b[n] # NUL

Right ==
    /\ dev.state = "edit" /\ MayMoveRight(command, dev.n)
    /\ dev' = Edited([dev EXCEPT !.n = @ + 1])
    /\ Frame

Left ==
    /\ dev.state = "edit" /\ dev.n > 0
    /\ dev' = [dev EXCEPT !.n = @ - 1]
    /\ Frame

\* The first n characters are those of the name; behind a name there is a NUL.
start_match(b, name, n) ==
    n > 0 /\ \A i \in 0..(n - 1) : i < Len(name) /\ b[i] = name[i + 1]

\* The rest of the first name that matches is written behind the cursor; names are
\* shorter than a line.
fill_next_match ==
    /\ dev.state = "edit"
    /\ LET Matches == {a \in DOMAIN Apps : start_match(command, Apps[a], dev.n)}
           name == Apps[CHOOSE a \in Matches : \A x \in Matches : a <= x]
           filled == [i \in DOMAIN command |->
                        IF i \in dev.n..(Len(name) - 1) THEN name[i + 1] ELSE command[i]]
       IN  dev' = IF Matches = {} THEN dev
                  ELSE Edited([dev EXCEPT !.cmd_hist[dev.cmd_index] = filled, !.n = Len(name)])
    /\ Frame

-------------------------------------------------------------------------------
(* parse_command, run_command and free_argv *)

\* A scan that ends a word after one character.
ScanOne(w, c) ==
    IF c = Space THEN [w EXCEPT !.open = FALSE]
    ELSE [args |-> Append(w.args, <<c>>), open |-> TRUE]

\* One character of the loops of parse_command: a word begins, goes on or ends.
\* w is the words so far and whether the last is still open.
Scan(w, c) ==
    IF c = Space THEN [w EXCEPT !.open = FALSE]
    ELSE IF w.open THEN [w EXCEPT !.args[Len(w.args)] = Append(@, c)]
    ELSE [args |-> Append(w.args, <<c>>), open |-> TRUE]

Words(b) == FoldLeft(LAMBDA w, c : Scan(w, c), [args |-> <<>>, open |-> FALSE], Text(b)).args

\* The words are counted, and the table is allocated.  Where that fails the count
\* stays.
parse_command ==
    /\ dev.state = "parse"
    /\ LET argc == Len(Words(command))
       IN  \/ /\ argc = 0
              /\ dev' = [dev EXCEPT !.state = "run", !.argc = 0, !.argv = Null]
           \/ /\ argc > 0
              /\ dev' = [dev EXCEPT !.state = "table", !.argc = 0, !.argv = <<>>, !.held = @ + 1]
           \/ /\ argc > 0 /\ TableFails
              /\ dev' = [dev EXCEPT !.state = "run", !.argc = argc, !.argv = Null]
    /\ Frame

\* The failure of an argument that keeps those before it.
FreeTable(d) == [d EXCEPT !.argc = -1, !.argv = Null, !.held = @ - 1, !.state = "free"]

\* The arguments so far and the table are freed.
FreeAll(d) == [d EXCEPT !.argc = -1, !.argv = Null, !.held = @ - (Len(d.argv) + 1), !.state = "free"]

\* An argument is allocated and copied, or that fails.
Argument ==
    /\ dev.state = "table"
    /\ LET words == Words(command)
       IN  IF dev.argc = Len(words) THEN dev' = [dev EXCEPT !.state = "run"]
           ELSE \/ dev' = [dev EXCEPT !.argc = @ + 1, !.held = @ + 1,
                                      !.argv = Append(@, words[dev.argc + 1])]
                \/ dev' = FreeAll(dev)
    /\ Frame

\* The command whose name is argv[0] is called; it may not change the shell.
run_command ==
    /\ dev.state = "run"
    /\ dev' = [dev EXCEPT !.state = "free"]
    /\ Frame

\* free_argv, unless parsing failed; a line that is not blank stays in the
\* history.
free_argv ==
    /\ dev.state = "free"
    /\ LET blocks == IF dev.argv = Null THEN 0 ELSE Len(dev.argv) + 1
           next == IF dev.argc > 0 THEN (dev.cmd_index + 1) % ShellHistory ELSE dev.cmd_index
       IN  dev' = NewLine([dev EXCEPT !.held = @ - blocks, !.argc = 0, !.argv = Null], next)
    /\ Frame

-------------------------------------------------------------------------------
Next ==
    \/ \E c \in Printable : Type(c)
    \/ Enter \/ Backspace \/ Right \/ Left \/ fill_next_match
    \/ History(ShellHistory - 1) \/ History(1)
    \/ parse_command \/ Argument \/ run_command \/ free_argv

Spec == Init /\ [][Next]_vars

-------------------------------------------------------------------------------
(* Properties *)

\* The cursor is in the text or at its end: what is typed is never put behind a
\* NUL, where the command would not see it.
CursorInText == dev.state = "edit" => dev.n <= strnlen(command)

\* Every line of the history ends within its buffer, whatever was typed, recalled,
\* completed and removed: parsing and listing it read no further.
LinesTerminated == \A h \in DOMAIN dev.cmd_hist : strnlen(dev.cmd_hist[h]) < ShellBufMax

\* argv has the words of the line, in order: each is a longest run of characters
\* that are not spaces.
ArgvExact ==
    dev.state = "run" /\ dev.argc > 0 =>
        LET s == Text(command)
            First == {i \in DOMAIN s : s[i] # Space /\ (i = 1 \/ s[i - 1] = Space)}
            End(i) == CHOOSE j \in i..Len(s) :
                        /\ \A k \in i..j : s[k] # Space
                        /\ j = Len(s) \/ s[j + 1] = Space
        IN  /\ dev.argc = Cardinality(First) /\ dev.argc = Len(dev.argv)
            /\ \A i \in First :
                  dev.argv[Cardinality({k \in First : k <= i})] = SubSeq(s, i, End(i))

\* All memory of a command is given back, also when some of it could not be had.
ArgvFreed == dev.state = "edit" => dev.held = 0
================================================================================
