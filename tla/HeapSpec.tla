------------------------------- MODULE HeapSpec -------------------------------
(***************************************************************************)
(* What malloc and free promise: the regions that callers own lie in the   *)
(* heap and do not overlap; a call changes no region but its own.          *)
(***************************************************************************)
EXTENDS Integers

CONSTANTS HeapSize, Sizes

VARIABLE regions    \* [start, len] of every region that callers own

Bytes(r) == r.start .. (r.start + r.len - 1)

Init == regions = {}

Alloc(r) ==
    /\ Bytes(r) \subseteq 0..(HeapSize - 1)
    /\ \A s \in regions : Bytes(r) \cap Bytes(s) = {} /\ r.start # s.start
    /\ regions' = regions \cup {r}

Free(r) ==
    /\ r \in regions
    /\ regions' = regions \ {r}

Next ==
    \E start \in 0..HeapSize, len \in Sizes :
        \/ Alloc([start |-> start, len |-> len])
        \/ Free([start |-> start, len |-> len])

Spec == Init /\ [][Next]_regions
================================================================================
