-------------------------------- MODULE Bitfield -------------------------------
(***************************************************************************)
(* The bitfield allocator (mm/bitfield_mm_*.c), the alternative to the     *)
(* buddy allocator: a heap of blocks of MM_GRAINS_PER_BLOCK grains, whose  *)
(* bits are set while the grains are in use.  malloc and free search and   *)
(* change the heap under its mutex and are one step each; the header of an *)
(* allocation is memory of its owner.  kmalloc and kfree are the same on a *)
(* second heap.  Addresses count bytes from the base of the heap.          *)
(***************************************************************************)
EXTENDS Calls

CONSTANTS
    NumBlocks,      \* MM_USER_NUM_BLOCKS
    GrainsPerBlock, \* MM_GRAINS_PER_BLOCK
    GrainSize,      \* MM_GRAIN_SIZE
    HeaderSize,     \* sizeof(alloc_header_t)
    SizeWord,       \* a uint16_t counts modulo SizeWord
    MallocSizes,    \* the sizes that are asked for
    BeyondFree      \* TRUE if the memory after the array may look like free blocks

BitfieldAssumption ==
    /\ {NumBlocks, GrainSize, HeaderSize, SizeWord} \subseteq Nat \ {0}
    /\ GrainsPerBlock \in 1..32 /\ MallocSizes \subseteq Nat /\ BeyondFree \in BOOLEAN

BlockSize == GrainsPerBlock * GrainSize
HeapSize == NumBlocks * BlockSize
All == 0..(GrainsPerBlock - 1)
MASK(n) == 0..(n - 1)
Shift(mask, o) == {i + o : i \in mask}

\* The loops of alloc go up to and including the block after the last.
Searched == 0..NumBlocks

\* heap: free_mask, the grains in use, and free_grains.  owned: address, grains
\* of the header and size asked for of every allocation.
TypeOK ==
    /\ \A i \in Searched : dev.heap[i].free_mask \subseteq All
                           /\ dev.heap[i].free_grains \in 0..255
    /\ \A a \in dev.owned : a.size \in MallocSizes /\ a.grains \in Nat
    /\ hw = <<>> /\ lock = <<>> /\ loc = <<>> /\ pc = [t \in Tasks |-> "idle"]

FreeBlock == [free_mask |-> {}, free_grains |-> GrainsPerBlock]

Init ==
    /\ \E beyond \in {[free_mask |-> All, free_grains |-> 0]}
                     \cup (IF BeyondFree THEN {FreeBlock} ELSE {}) :
          dev = [heap |-> [i \in Searched |-> IF i = NumBlocks THEN beyond ELSE FreeBlock],
                 owned |-> {}]
    /\ hw = <<>> /\ lock = <<>> /\ loc = <<>>
    /\ pc = [t \in Tasks |-> "idle"]

-------------------------------------------------------------------------------
(* alloc *)

\* The places for fewer grains than a block has, and for b blocks and g grains.
SmallPlaces(g) ==
    {p \in Searched \X (0..(GrainsPerBlock - g)) :
        /\ dev.heap[p[1]].free_grains >= g
        /\ dev.heap[p[1]].free_mask \cap Shift(MASK(g), p[2]) = {}}
LargePlaces(b, g) ==
    {i \in b..NumBlocks :
        /\ \A j \in (i - b)..(i - 1) : dev.heap[j].free_mask = {}
        /\ dev.heap[i].free_mask \cap MASK(g) = {}}

Lower(p, q) == p[1] < q[1] \/ (p[1] = q[1] /\ p[2] < q[2])
Claim(block, mask, g) ==
    [free_mask |-> block.free_mask \cup mask, free_grains |-> (block.free_grains - g) % 256]
to_addr(i, o) == i * BlockSize + o * GrainSize

\* The caller gets the address after the header.
Owns(addr, grains, size) ==
    [addr |-> addr + HeaderSize, grains |-> grains, size |-> size]

AllocSmall(g, size) ==
    \E p \in SmallPlaces(g) :
        /\ \A q \in SmallPlaces(g) : q = p \/ Lower(p, q)
        /\ dev' = [heap |-> [dev.heap EXCEPT ![p[1]] = Claim(@, Shift(MASK(g), p[2]), g)],
                   owned |-> dev.owned \cup {Owns(to_addr(p[1], p[2]), g, size)}]

\* An allocation that does not look at the block after the whole ones.
AllocLargeWhole(b, g, size) ==
    \E i \in {k \in b..NumBlocks : \A j \in (k - b)..(k - 1) : dev.heap[j].free_mask = {}} :
        dev' = [heap |-> [j \in Searched |->
                             IF j \in (i - b)..(i - 1) THEN Claim(dev.heap[j], All, GrainsPerBlock)
                             ELSE IF j = i THEN Claim(dev.heap[j], MASK(g), g)
                             ELSE dev.heap[j]],
                owned |-> dev.owned \cup {Owns(to_addr(i - b, 0), b * GrainsPerBlock + g, size)}]

AllocLarge(b, g, size) ==
    \E i \in LargePlaces(b, g) :
        /\ \A k \in LargePlaces(b, g) : i <= k
        /\ dev' = [heap |-> [j \in Searched |->
                                IF j \in (i - b)..(i - 1) THEN [free_mask |-> All, free_grains |-> 0]
                                ELSE IF j = i THEN Claim(dev.heap[j], MASK(g), g)
                                ELSE dev.heap[j]],
                   owned |-> dev.owned \cup
                                {Owns(to_addr(i - b, 0), b * GrainsPerBlock + g, size)}]

\* The number of grains is computed in a uint16_t.
Grains(size) == ((size + HeaderSize + GrainSize - 1) % SizeWord) \div GrainSize

\* A call that finds no place returns NULL and changes nothing.
malloc(size) ==
    LET g == Grains(size) IN
    /\ size <= HeapSize
    /\ IF g < GrainsPerBlock
          THEN AllocSmall(g, size)
          ELSE AllocLarge(g \div GrainsPerBlock, g % GrainsPerBlock, size)
    /\ UNCHANGED <<hw, lock, pc, loc>>

-------------------------------------------------------------------------------
(* free_mem *)

addr_to_block(addr) == addr \div BlockSize
addr_to_grain_offset(addr) == (addr % BlockSize) \div GrainSize
Freed(block, mask, g) ==
    [free_mask |-> block.free_mask \ mask, free_grains |-> (block.free_grains + g) % 256]

\* A free that forgets the grains after the whole blocks.
FreeWhole(a) ==
    LET idx == addr_to_block(a.addr - HeaderSize)
        o == addr_to_grain_offset(a.addr - HeaderSize)
        b == a.grains \div GrainsPerBlock
        g == a.grains % GrainsPerBlock
    IN  /\ a \in dev.owned
        /\ dev' = [owned |-> dev.owned \ {a},
                   heap |-> [j \in Searched |->
                                IF b = 0 /\ j = idx THEN Freed(dev.heap[j], Shift(MASK(g), o), g)
                                ELSE IF j \in idx..(idx + b - 1) THEN FreeBlock
                                ELSE dev.heap[j]]]
        /\ UNCHANGED <<hw, lock, pc, loc>>

\* Whole blocks are freed, and the grains of the block after them; less than a
\* block is freed where it begins.
free(a) ==
    LET idx == addr_to_block(a.addr - HeaderSize)
        b == a.grains \div GrainsPerBlock
        g == a.grains % GrainsPerBlock
        o == IF b = 0 THEN addr_to_grain_offset(a.addr - HeaderSize) ELSE 0
    IN  /\ a \in dev.owned
        /\ dev' = [owned |-> dev.owned \ {a},
                   heap |-> [j \in Searched |->
                                IF j \in idx..(idx + b - 1) THEN FreeBlock
                                ELSE IF j = idx + b THEN Freed(dev.heap[j], Shift(MASK(g), o), g)
                                ELSE dev.heap[j]]]
        /\ UNCHANGED <<hw, lock, pc, loc>>

-------------------------------------------------------------------------------
Next == (\E size \in MallocSizes : malloc(size)) \/ (\E a \in dev.owned : free(a))

Spec == Init /\ [][Next]_vars

-------------------------------------------------------------------------------
(* Properties *)

\* malloc and free do what HeapSpec promises: a caller's bytes lie in the heap and
\* overlap with no other's, wherever the search finds its place.
Heap == INSTANCE HeapSpec WITH
    Sizes <- MallocSizes,
    regions <- {[start |-> a.addr, len |-> a.size] : a \in dev.owned}
HeapAction == Heap!Next \/ UNCHANGED dev.owned
HeapStep == [][HeapAction]_vars

\* The bits and the counts of free grains are those of the allocations: nothing
\* is leaked or freed twice across blocks, and mm_space answers what is left.
GrainsExact ==
    LET Used(i) == (UNION {(a.addr - HeaderSize) \div GrainSize ..
                           ((a.addr - HeaderSize) \div GrainSize + a.grains - 1) : a \in dev.owned})
                   \cap (i * GrainsPerBlock .. ((i + 1) * GrainsPerBlock - 1))
    IN  \A i \in 0..(NumBlocks - 1) :
            /\ Shift(dev.heap[i].free_mask, i * GrainsPerBlock) = Used(i)
            /\ dev.heap[i].free_grains = GrainsPerBlock - Cardinality(Used(i))
================================================================================
