---------------------------------- MODULE Fdt ----------------------------------
(***************************************************************************)
(* What the kernel reads in the device tree: the string lists, the parent  *)
(* of interrupts and the paths of dev/fdtparse.c, the drivers that         *)
(* dev/device.c registers for the nodes at boot, and the entries that      *)
(* stm32f4_dma_allocate finds by name.                                     *)
(*                                                                         *)
(* A string list is a sequence of characters in which each string ends     *)
(* with a NUL, as the compiler of the tree writes it; an offset into it    *)
(* counts from 0.  Nodes are numbered in the order in which fdt_next_node  *)
(* gives them; 0 is the root.                                              *)
(***************************************************************************)
EXTENDS Calls, Sequences, SequencesExt

CONSTANTS
    ListLen,        \* length of the longest string list
    FdtNodes,       \* number of nodes besides the root
    MaxTries        \* sizes that a path may need, in units of 32 bytes

FdtAssumption == ListLen \in Nat \ {0} /\ FdtNodes \in Nat \ {0} /\ MaxTries \in Nat \ {0}

NUL == "nul"
Lists == UNION {{Append(s, NUL) : s \in [1..k -> {"a", "b", NUL}]} : k \in 0..(ListLen - 1)}
Nodes == 0..FdtNodes

\* The names of the drivers that have been registered by compatible string.
compat_drivers == {<<"a">>, <<"b", "a">>}

\* The string at an offset; an empty one stands for whatever follows the list.
StringAt(list, offset) ==
    LET ends == {k \in offset..(Len(list) - 1) : list[k + 1] = NUL}
    IN  IF ends = {} THEN <<>> ELSE SubSeq(list, offset + 1, Min(ends))

-------------------------------------------------------------------------------
(* String lists *)

None == -1

\* A walk that does not see that the list has ended.
NextAtEnd(list, offset) ==
    IF offset >= Len(list) THEN None ELSE offset + Len(StringAt(list, offset)) + 1

fdtparse_stringlist_next(list, offset) ==
    IF offset >= Len(list) THEN None
    ELSE LET next == offset + Len(StringAt(list, offset)) + 1
         IN  IF next >= Len(list) THEN None ELSE next

\* The loop of stm32f4_dma_allocate: the numbers of the strings that are name, as
\* long as dmas has room for the entries with these numbers.
RECURSIVE Matches(_, _, _, _, _)
Matches(list, name, dmas, offset, i) ==
    IF offset = None THEN <<>>
    ELSE LET rest == Matches(list, name, dmas, fdtparse_stringlist_next(list, offset), i + 1)
         IN  IF StringAt(list, offset) # name THEN rest
             ELSE IF i >= dmas THEN <<>>
             ELSE <<i>> \o rest

stm32f4_dma_allocate(list, name, dmas) == Matches(list, name, dmas, 0, 0)

\* Only the first string is looked at.
FirstOnly(list, offset) ==
    IF list # <<>> /\ StringAt(list, offset) \in compat_drivers THEN offset ELSE None

\* The loop of device_driver_fdt_register over the strings of compatible, left of
\* which there are listlen characters: the driver of the first that has one.
RECURSIVE CompatDriver(_, _)
CompatDriver(list, offset) ==
    IF Len(list) - offset <= 0 THEN None
    ELSE IF StringAt(list, offset) \in compat_drivers THEN offset
    ELSE CompatDriver(list, offset + Len(StringAt(list, offset)) + 1)

-------------------------------------------------------------------------------
(* fdtparse_get_interrupt_parent *)

\* interrupt-parent is absent, no phandle of a node (too short for one, or one
\* that no node has), or the phandle of a node.
Absent == -1
NoNode == -2
Properties == {Absent, NoNode} \cup Nodes

\* A search that looks at the node itself only.
NodeOnly(parent, prop, n) == IF prop[n] \in Nodes THEN prop[n] ELSE None

RECURSIVE fdtparse_get_interrupt_parent(_, _, _)
fdtparse_get_interrupt_parent(parent, prop, n) ==
    IF prop[n] = Absent
    THEN IF n = 0 THEN None ELSE fdtparse_get_interrupt_parent(parent, prop, parent[n])
    ELSE IF prop[n] \in Nodes THEN prop[n] ELSE None

-------------------------------------------------------------------------------
(* Registration, and questions that are answered in one step *)

Trees == {p \in [1..FdtNodes -> Nodes] : \A n \in 1..FdtNodes : p[n] < n}

\* The root is skipped: fdt_next_node begins behind it.
Init ==
    /\ \/ \E c \in [1..FdtNodes -> Lists \cup {<<>>}], w \in [1..FdtNodes -> 1..MaxTries] :
            dev = [call |-> "register", compatible |-> c, need |-> w, node |-> 1, step |-> "match",
                   size |-> 0, drivers |-> <<>>, failed |-> {}, paths |-> 0]
       \/ \E l \in Lists, name \in compat_drivers \cup {<<>>}, k \in 0..ListLen :
            dev = [call |-> "names", list |-> l, name |-> name, dmas |-> k, result |-> <<>>]
       \/ \E p \in Trees, q \in [Nodes -> Properties], n \in Nodes :
            dev = [call |-> "parent", parent |-> p, prop |-> q, node |-> n, result |-> 0]
    /\ hw = <<>> /\ lock = <<>>
    /\ pc = [t \in Tasks |-> "idle"] /\ loc = <<>>

Frame == UNCHANGED <<hw, lock, pc, loc>>

Answer ==
    /\ \/ /\ dev.call = "names"
          /\ dev' = [dev EXCEPT !.call = "names_done",
                                !.result = stm32f4_dma_allocate(dev.list, dev.name, dev.dmas)]
       \/ /\ dev.call = "parent"
          /\ dev' = [dev EXCEPT !.call = "parent_done",
                        !.result = fdtparse_get_interrupt_parent(dev.parent, dev.prop, dev.node)]
    /\ Frame

At(step) == dev.call = "register" /\ dev.node <= FdtNodes /\ dev.step = step

NextNode(d) == [d EXCEPT !.node = @ + 1, !.step = "match", !.size = 0]
Fail(d) == NextNode([d EXCEPT !.failed = @ \cup {d.node}])

Match ==
    /\ At("match")
    /\ dev' = IF CompatDriver(dev.compatible[dev.node], 0) = None THEN NextNode(dev)
              ELSE [dev EXCEPT !.step = "path"]
    /\ Frame

\* A retry that keeps the buffer that was too small.
KeepsBuffer(d) == [d EXCEPT !.size = @ + 1, !.paths = @ + 1]

\* One turn of the loop of fdtparse_get_path: a buffer that was too small is freed
\* and a larger one is allocated.
GetsBuffer(d) == [d EXCEPT !.size = @ + 1, !.paths = IF d.size = 0 THEN @ + 1 ELSE @]

\* The allocation may fail, when nothing is left of an earlier buffer.
fdtparse_get_path ==
    /\ At("path")
    /\ \/ LET d == GetsBuffer(dev)
          IN  dev' = IF d.size >= d.need[d.node] THEN [d EXCEPT !.step = "driver"] ELSE d
       \/ dev' = Fail(IF dev.size = 0 THEN dev ELSE [dev EXCEPT !.paths = @ - 1])
    /\ Frame

\* The path becomes the name of the driver; when there is no memory for the driver
\* it is left.
device_driver_register_from_compat ==
    /\ At("driver")
    /\ LET list == dev.compatible[dev.node]
       IN  \/ dev' = NextNode([dev EXCEPT !.drivers =
                        Append(@, <<dev.node, StringAt(list, CompatDriver(list, 0))>>)])
           \/ dev' = Fail(dev)
    /\ Frame

Next == Answer \/ Match \/ fdtparse_get_path \/ device_driver_register_from_compat

Spec == Init /\ [][Next]_vars

-------------------------------------------------------------------------------
(* Properties *)

TypeOK ==
    /\ dev.call \in {"register", "names", "names_done", "parent", "parent_done"}
    /\ dev.call = "register" => /\ dev.node \in 1..(FdtNodes + 1)
                                /\ dev.step \in {"match", "path", "driver"}
                                /\ dev.paths \in Nat /\ dev.size \in 0..MaxTries

\* The strings of a list, each with its NUL, put together are the list.
Strings(list) ==
    LET starts == {k \in 1..Len(list) : k = 1 \/ list[k - 1] = NUL}
    IN  [i \in 1..Cardinality(starts) |->
            LET k == CHOOSE k \in starts : Cardinality({j \in starts : j < k}) = i - 1
            IN  StringAt(list, k - 1)]

\* A name in dma-names stands for the entries with the numbers of the strings that
\* are equal to it and for which there is an entry: the walk meets every string
\* once, in order, and none behind the end.
EntriesExact ==
    dev.call = "names_done" =>
        LET s == Strings(dev.list)
        IN  /\ \A i \in 1..Len(s) : s[i] = dev.name /\ i <= dev.dmas
                                    <=> \E k \in DOMAIN dev.result : dev.result[k] = i - 1
            /\ \A k \in DOMAIN dev.result : dev.result[k] < Len(s)
            /\ \A j, k \in DOMAIN dev.result : j < k => dev.result[j] < dev.result[k]

\* fdtparse.h: "If the property is not found, parent nodes will be searched for the
\* propery."  The answer is the one of the closest node that has the property.
InterruptParentExact ==
    dev.call = "parent_done" =>
        LET RECURSIVE Above(_)
            Above(n) == {n} \cup (IF n = 0 THEN {} ELSE Above(dev.parent[n]))
            have == {n \in Above(dev.node) : dev.prop[n] # Absent}
        IN  IF have = {} THEN dev.result = None
            ELSE LET n == CHOOSE n \in have : \A k \in have : k <= n
                 IN  dev.result = IF dev.prop[n] \in Nodes THEN dev.prop[n] ELSE None

\* When all nodes have been visited, each one that is compatible with some driver
\* has been registered, once, with the driver of the first string that has one,
\* unless memory was lacking for it.
RegisteredExact ==
    dev.call = "register" /\ dev.node > FdtNodes =>
        \A n \in 1..FdtNodes :
            LET s == Strings(dev.compatible[n])
                fit == {i \in 1..Len(s) : s[i] \in compat_drivers}
                made == {k \in DOMAIN dev.drivers : dev.drivers[k][1] = n}
            IN  /\ made = {} <=> (dev.compatible[n] = <<>> \/ fit = {} \/ n \in dev.failed)
                /\ \A k \in made : /\ made = {k}
                                   /\ \E i \in fit : /\ \A j \in fit : i <= j
                                                     /\ dev.drivers[k][2] = s[i]

\* Every path that is allocated is the name of a driver, or belongs to one for
\* which memory was lacking.
PathsAccounted ==
    dev.call = "register" /\ dev.step = "match" =>
        dev.paths \in Len(dev.drivers)..(Len(dev.drivers) + Cardinality(dev.failed))
================================================================================
