--------------------------------- MODULE Libfdt --------------------------------
(***************************************************************************)
(* The flattened device tree of lib/libfdt: a blob of bytes that holds the *)
(* memory reservations, the structure (tags, names, properties) and the    *)
(* strings that name properties, one behind the other, and the functions   *)
(* that read it, edit it in place, grow it inside its buffer, and write    *)
(* one from nothing.                                                       *)
(*                                                                         *)
(* The model keeps the bytes, the offsets of the header and the arithmetic *)
(* on them, on a smaller scale: a tag is TagSize = 2 bytes, big-endian, in *)
(* place of 4, and so is a cell; the header is FdtHeaderSize bytes, whose  *)
(* fields are fields of the record; a reservation is an address byte and   *)
(* a size byte.  A character is its code.  The bytes behind the data of a  *)
(* tree are never read and are kept at 0.                                  *)
(*                                                                         *)
(* `tree' is the tree that the calls so far describe, as the list of its   *)
(* nodes in order, each with its depth, name and properties.               *)
(***************************************************************************)
EXTENDS Calls, Sequences, SequencesExt

CONSTANTS
    FdtSizes,       \* sizes of the buffer
    MaxNodes,       \* bound on the nodes that are written one after the other
    MaxEdits        \* bound on the calls that add a node or property, or edit

LibfdtAssumption == FdtSizes \subseteq Nat /\ FdtSizes # {} /\ MaxNodes \in Nat /\ MaxEdits \in Nat

FDT_BEGIN_NODE == 1
FDT_END_NODE == 2
FDT_PROP == 3
FDT_NOP == 4
FDT_END == 9

NOTFOUND == -1
EXISTS == -2
NOSPACE == -3
BADOFFSET == -4
BADPATH == -5
BADPHANDLE == -6
BADSTATE == -7
TRUNCATED == -8
BADMAGIC == -9
BADVERSION == -10
BADSTRUCTURE == -11
BADLAYOUT == -12
INTERNAL == -13

TagSize == 2
FdtHeaderSize == 2
RsvSize == 2
PropSize == 3 * TagSize     \* struct fdt_property: tag, len, nameoff

NUL == 0
SLASH == 47
AT == 64

\* "phandle", "linux,phandle" (which ends like it), "compatible" and "aliases".
PHANDLE == <<104>>
LINUX_PHANDLE == <<108, 104>>
COMPATIBLE == <<99>>
ALIASES == <<115>>

\* What calls give as names of nodes and as properties: a node without and with a
\* unit address; handles, and lists of strings, the last without its NUL.
NodeNames == {<<97>>, <<97, 64>>}
Values(name) == IF name = COMPATIBLE THEN {<<>>, <<97, NUL>>, <<97>>} ELSE {<<0, 1>>, <<0, 2>>}
PropNames == {PHANDLE, LINUX_PHANDLE, COMPATIBLE}

FdtBufSize == Max(FdtSizes)

FDT_TAGALIGN(x) == ((x + TagSize - 1) \div TagSize) * TagSize

\* cpu_to_fdt32 of a number, which may be negative.
Cell(v) == LET u == v % 65536 IN <<u \div 256, u % 256>>

\* memmove and memcpy into the blob.
Move(m, to, from, n) == [i \in DOMAIN m |-> IF i \in to..(to + n - 1) THEN m[i - to + from] ELSE m[i]]
Put(m, to, s) == [i \in DOMAIN m |-> IF i \in to..(to + Len(s) - 1) THEN s[i - to + 1] ELSE m[i]]

\* The string at an address, without its NUL.
StringAt(m, at) == [i \in 1..(Min({k \in DOMAIN m : k >= at /\ m[k] = NUL}) - at) |-> m[at + i - 1]]

-------------------------------------------------------------------------------
(* fdt.c: tags *)

fdt_check_header(f) ==
    CASE f.magic = "fdt" -> IF f.version < 16 THEN BADVERSION ELSE 0
      [] f.magic = "sw" -> IF f.size_struct = 0 THEN BADSTATE ELSE 0
      [] OTHER -> BADMAGIC

Byte(f, offset) == f.mem[f.off_struct + offset]
CellAt(f, offset) == 256 * Byte(f, offset) + Byte(f, offset + 1)

\* An older tree does not tell the size of its structure, and is not checked.
fdt_offset_ptr(f, offset, len) == f.version >= 17 => offset + len <= f.size_struct

\* The offset behind a name, with its NUL, or -1.
BehindName(f, offset) ==
    LET last == IF f.version >= 17 THEN f.size_struct - 1 ELSE FdtBufSize - f.off_struct - 1
        ends == {k \in offset..last : Byte(f, k) = NUL}
    IN  IF ends = {} THEN -1 ELSE Min(ends) + 1

\* The tag at an offset, and the offset of the next one or an error.
NextTag(f, start, tag, end) ==
    IF end = -1 \/ ~fdt_offset_ptr(f, start, end - start) THEN <<FDT_END, BADSTRUCTURE>>
    ELSE <<tag, FDT_TAGALIGN(end)>>

fdt_next_tag(f, start) ==
    IF ~fdt_offset_ptr(f, start, TagSize) THEN <<FDT_END, TRUNCATED>>
    ELSE LET tag == CellAt(f, start)
             body == start + TagSize
         IN  NextTag(f, start, tag,
                CASE tag = FDT_BEGIN_NODE -> BehindName(f, body)
                  [] tag = FDT_PROP -> IF fdt_offset_ptr(f, body, TagSize)
                                       THEN body + PropSize - TagSize + CellAt(f, body) ELSE -1
                  [] tag \in {FDT_END, FDT_END_NODE, FDT_NOP} -> body
                  [] OTHER -> -1)

Behind(t, tag) == IF t[1] = tag THEN t[2] ELSE BADOFFSET

CheckOffset(f, offset, tag) ==
    IF offset < 0 \/ offset % TagSize # 0 THEN BADOFFSET ELSE Behind(fdt_next_tag(f, offset), tag)

_fdt_check_node_offset(f, offset) == CheckOffset(f, offset, FDT_BEGIN_NODE)
_fdt_check_prop_offset(f, offset) == CheckOffset(f, offset, FDT_PROP)

-------------------------------------------------------------------------------
(* fdt.c: nodes.  An offset comes with the depth that the walk has reached; *)
(* NoDepth is the NULL of callers that do not ask for it.                   *)

NoDepth == -100
Deeper(depth, by) == IF depth = NoDepth THEN NoDepth ELSE depth + by

\* t is the tag at the offset.
RECURSIVE NextBegin(_, _, _, _)
NextBegin(f, offset, depth, t) ==
    LET On(d) == NextBegin(f, t[2], d, fdt_next_tag(f, t[2]))
    IN  CASE t[1] \in {FDT_PROP, FDT_NOP} -> On(depth)
          [] t[1] = FDT_BEGIN_NODE -> <<offset, Deeper(depth, 1)>>
          [] t[1] = FDT_END_NODE -> IF depth = 0 THEN <<t[2], -1>> ELSE On(Deeper(depth, -1))
          [] t[1] = FDT_END -> IF t[2] >= 0 \/ (t[2] = TRUNCATED /\ depth = NoDepth)
                               THEN <<NOTFOUND, depth>> ELSE <<t[2], depth>>

NextFrom(f, offset, depth) ==
    IF offset < 0 THEN <<offset, depth>> ELSE NextBegin(f, offset, depth, fdt_next_tag(f, offset))

fdt_next_node(f, offset, depth) ==
    NextFrom(f, IF offset < 0 THEN 0 ELSE _fdt_check_node_offset(f, offset), depth)

FirstBelow(n) == IF n[1] < 0 \/ n[2] # 1 THEN NOTFOUND ELSE n[1]
fdt_first_subnode(f, offset) == FirstBelow(fdt_next_node(f, offset, 0))

\* The next node at any depth.
AnyNext(f, offset, depth) == fdt_next_node(f, offset, NoDepth)[1]

\* n: a node and its depth.
RECURSIVE FirstAtDepth(_, _)
FirstAtDepth(f, n) ==
    IF n[1] < 0 \/ n[2] < 1 THEN NOTFOUND
    ELSE IF n[2] > 1 THEN FirstAtDepth(f, fdt_next_node(f, n[1], n[2])) ELSE n[1]

NextAtDepth(f, offset, depth) == FirstAtDepth(f, fdt_next_node(f, offset, depth))

fdt_next_subnode(f, offset) == NextAtDepth(f, offset, 1)

\* The end of the node: where the walk leaves it.
RECURSIVE NodeEnd(_, _)
NodeEnd(f, n) == IF n[1] < 0 \/ n[2] < 0 THEN n[1] ELSE NodeEnd(f, fdt_next_node(f, n[1], n[2]))

_fdt_node_end_offset(f, offset) == NodeEnd(f, <<offset, 0>>)

\* The place of a string with its NUL among the bytes at..at+size-1, or -1; it may
\* be the end of another.
_fdt_find_string(m, at, size, s) ==
    LET str == Append(s, NUL)
        found == {p \in at..(at + size - Len(str)) : \A i \in DOMAIN str : m[p + i - 1] = str[i]}
    IN  IF found = {} THEN -1 ELSE Min(found)

-------------------------------------------------------------------------------
(* fdt_ro.c: properties *)

\* The tag behind which _nextprop stops: a property, or the end of them.
RECURSIVE FromTag(_, _, _)
FromTag(f, offset, t) ==
    CASE t[1] = FDT_END -> IF t[2] >= 0 THEN BADSTRUCTURE ELSE t[2]
      [] t[1] = FDT_PROP -> offset
      [] t[1] = FDT_NOP -> FromTag(f, t[2], fdt_next_tag(f, t[2]))
      [] OTHER -> NOTFOUND

_nextprop(f, offset) == FromTag(f, offset, fdt_next_tag(f, offset))

\* An offset, or an error.
OrError(n, Op(_)) == IF n < 0 THEN n ELSE Op(n)

fdt_first_property_offset(f, node) == OrError(_fdt_check_node_offset(f, node), LAMBDA offset : _nextprop(f, offset))

fdt_next_property_offset(f, prop) == OrError(_fdt_check_prop_offset(f, prop), LAMBDA offset : _nextprop(f, offset))

\* The length, name and value of the property at an offset.
PropLen(f, prop) == CellAt(f, prop + TagSize)
fdt_string(f, stroffset) == StringAt(f.mem, f.off_strings + stroffset)
PropName(f, prop) == fdt_string(f, CellAt(f, prop + 2 * TagSize))
PropData(f, prop) == [i \in 1..PropLen(f, prop) |-> Byte(f, prop + PropSize + i - 1)]

RECURSIVE NamedFrom(_, _, _)
NamedFrom(f, prop, name) ==
    IF prop < 0 THEN prop
    ELSE IF _fdt_check_prop_offset(f, prop) < 0 THEN INTERNAL
    ELSE IF PropName(f, prop) = name THEN prop
    ELSE NamedFrom(f, fdt_next_property_offset(f, prop), name)

\* The offset of the property, or an error; fdt_getprop is its data.
fdt_get_property(f, node, name) == NamedFrom(f, fdt_first_property_offset(f, node), name)

\* The value of a property of one cell, or -1.
CellOf(f, prop) == IF prop >= 0 /\ PropLen(f, prop) = TagSize THEN CellAt(f, prop + PropSize) ELSE -1
FirstCell(a, b) == IF a >= 0 THEN a ELSE IF b >= 0 THEN b ELSE 0

fdt_get_phandle(f, node) ==
    FirstCell(CellOf(f, fdt_get_property(f, node, PHANDLE)), CellOf(f, fdt_get_property(f, node, LINUX_PHANDLE)))

\* One byte behind the list is compared when what is left of it is as long as str.
RECURSIVE ListContains(_, _, _, _)
ListContains(m, at, listlen, str) ==
    /\ listlen >= Len(str)
    /\ \/ \A i \in 1..(Len(str) + 1) : m[at + i - 1] = Append(str, NUL)[i]
       \/ LET nuls == {p \in at..(at + listlen - 1) : m[p] = NUL}
          IN  /\ nuls # {}
              /\ ListContains(m, Min(nuls) + 1, listlen - (Min(nuls) - at) - 1, str)

fdt_stringlist_contains(f, prop, str) ==
    ListContains(f.mem, f.off_struct + prop + PropSize, PropLen(f, prop), str)

fdt_node_check_compatible(f, node, compatible) ==
    OrError(fdt_get_property(f, node, COMPATIBLE),
            LAMBDA prop : IF fdt_stringlist_contains(f, prop, compatible) THEN 0 ELSE 1)

-------------------------------------------------------------------------------
(* fdt_ro.c: searches *)

\* A node whose name has a unit address is found without it too.
_fdt_nodename_eq(f, node, s) ==
    LET at == f.off_struct + node + TagSize
    IN  /\ fdt_offset_ptr(f, node + TagSize, Len(s) + 1)
        /\ \A i \in DOMAIN s : f.mem[at + i - 1] = s[i]
        /\ \/ f.mem[at + Len(s)] = NUL
           \/ f.mem[at + Len(s)] = AT /\ \A i \in DOMAIN s : s[i] # AT

RECURSIVE SubnodeFrom(_, _, _)
SubnodeFrom(f, n, name) ==
    IF n[2] < 0 THEN NOTFOUND
    ELSE IF n[1] < 0 THEN n[1]
    ELSE IF n[2] = 1 /\ _fdt_nodename_eq(f, n[1], name) THEN n[1]
    ELSE SubnodeFrom(f, fdt_next_node(f, n[1], n[2]), name)

fdt_subnode_offset(f, parent, name) ==
    IF fdt_check_header(f) # 0 THEN fdt_check_header(f) ELSE SubnodeFrom(f, <<parent, 0>>, name)

\* strchr(p, '/'), or the end of the path.
UpToSlash(p) ==
    LET s == {i \in DOMAIN p : p[i] = SLASH} IN IF s = {} THEN Len(p) ELSE Min(s) - 1

RECURSIVE Descend(_, _, _)
Descend(f, offset, p) ==
    IF p = <<>> THEN offset
    ELSE IF p[1] = SLASH THEN Descend(f, offset, Tail(p))
    ELSE LET q == UpToSlash(p)
         IN  OrError(fdt_subnode_offset(f, offset, SubSeq(p, 1, q)),
                     LAMBDA sub : Descend(f, sub, SubSeq(p, q + 1, Len(p))))

\* The path that an alias stands for, or <<>>; a path is never that of nothing.
StringOf(f, prop) == IF prop < 0 THEN <<>> ELSE StringAt(f.mem, f.off_struct + prop + PropSize)
fdt_get_alias(f, name) ==
    StringOf(f, OrError(fdt_subnode_offset(f, 0, ALIASES), LAMBDA node : fdt_get_property(f, node, name)))

RECURSIVE fdt_path_offset(_, _)
fdt_path_offset(f, path) ==
    IF fdt_check_header(f) # 0 THEN fdt_check_header(f)
    ELSE IF path # <<>> /\ path[1] = SLASH THEN Descend(f, 0, path)
    ELSE LET q == UpToSlash(path)
             alias == fdt_get_alias(f, SubSeq(path, 1, q))
         IN  IF alias = <<>> THEN BADPATH
             ELSE Descend(f, fdt_path_offset(f, alias), SubSeq(path, q + 1, Len(path)))

fdt_get_name(f, node) == StringAt(f.mem, f.off_struct + node + TagSize)

\* What is left of a path when the walk has gone up to a depth.
RECURSIVE GoUp(_, _)
GoUp(buf, levels) ==
    IF levels <= 0 THEN buf
    ELSE GoUp(SubSeq(buf, 1, Max({i \in 1..(Len(buf) - 1) : buf[i] = SLASH})), levels - 1)

\* The error of a search for an offset that is not that of a node.
NoSuchNode(offset) ==
    IF offset = NOTFOUND \/ offset >= 0 THEN BADOFFSET
    ELSE IF offset = BADOFFSET THEN BADSTRUCTURE ELSE offset

RECURSIVE PathFrom(_, _, _, _, _, _)
PathFrom(f, node, buflen, n, pdepth, buf) ==
    IF n[1] < 0 \/ n[1] > node THEN [err |-> NoSuchNode(n[1]), path |-> <<>>]
    ELSE LET depth == n[2]
             up == GoUp(buf, pdepth - depth)
             pd == IF pdepth > depth THEN depth ELSE pdepth
             name == fdt_get_name(f, n[1])
             fits == pd >= depth /\ Len(up) + Len(name) + 1 <= buflen
             b == IF fits THEN Append(up \o name, SLASH) ELSE up
             d == IF fits THEN pd + 1 ELSE pd
         IN  IF n[1] # node THEN PathFrom(f, node, buflen, fdt_next_node(f, n[1], depth), d, b)
             ELSE IF d < depth + 1 THEN [err |-> NOSPACE, path |-> <<>>]
             ELSE [err |-> 0, path |-> IF Len(b) > 1 THEN SubSeq(b, 1, Len(b) - 1) ELSE b]

fdt_get_path(f, node, buflen) ==
    IF buflen < 2 THEN [err |-> NOSPACE, path |-> <<>>]
    ELSE PathFrom(f, node, buflen, <<0, 0>>, 0, <<>>)

RECURSIVE SupernodeFrom(_, _, _, _, _)
SupernodeFrom(f, node, wanted, n, super) ==
    IF n[1] < 0 \/ n[1] > node THEN <<NoSuchNode(n[1]), n[2]>>
    ELSE LET s == IF n[2] = wanted THEN n[1] ELSE super
         IN  IF n[1] # node THEN SupernodeFrom(f, node, wanted, fdt_next_node(f, n[1], n[2]), s)
             ELSE <<IF wanted > n[2] THEN NOTFOUND ELSE s, n[2]>>

\* The ancestor of a node at a depth, with the depth of the node.
fdt_supernode_atdepth_offset(f, node, wanted) ==
    IF wanted < 0 THEN <<NOTFOUND, 0>> ELSE SupernodeFrom(f, node, wanted, <<0, 0>>, INTERNAL)

DepthOf(s) == IF s[1] = 0 THEN s[2] ELSE IF s[1] < 0 THEN s[1] ELSE INTERNAL
fdt_node_depth(f, node) == DepthOf(fdt_supernode_atdepth_offset(f, node, 0))

fdt_parent_offset(f, node) ==
    OrError(fdt_node_depth(f, node), LAMBDA depth : fdt_supernode_atdepth_offset(f, node, depth - 1)[1])

\* The nodes that fdt_next_node gives from an offset on, and the error it ends with.
RECURSIVE NextNodes(_, _)
NodesFrom(f, n) == IF n < 0 THEN <<n>> ELSE <<n>> \o NextNodes(f, n)
NextNodes(f, offset) == NodesFrom(f, fdt_next_node(f, offset, NoDepth)[1])

\* The first of them that fits, or the error.
Search(f, offset, Fits(_)) == SelectSeq(NextNodes(f, offset), LAMBDA n : n < 0 \/ Fits(n))[1]

HasData(f, prop, val) == prop >= 0 /\ PropData(f, prop) = val
fdt_node_offset_by_prop_value(f, start, name, val) ==
    Search(f, start, LAMBDA n : HasData(f, fdt_get_property(f, n, name), val))

fdt_node_offset_by_phandle(f, phandle) ==
    IF phandle \in {0, 65535} THEN BADPHANDLE ELSE Search(f, -1, LAMBDA n : fdt_get_phandle(f, n) = phandle)

\* A node that is no node any more would end the search.
Ends(err) == err = 0 \/ (err < 0 /\ err # NOTFOUND)
fdt_node_offset_by_compatible(f, start, compatible) ==
    LET Err(n) == fdt_node_check_compatible(f, n, compatible)
    IN  OrError(Search(f, start, LAMBDA k : Ends(Err(k))),
                LAMBDA n : OrError(Err(n), LAMBDA zero : n))

-------------------------------------------------------------------------------
(* fdt_rw.c: a tree that grows and shrinks inside its buffer.  A function   *)
(* gives the new blob and an error or a result.                             *)

Fail(f, err) == [err |-> err, f |-> f]
Done(f) == [err |-> 0, f |-> f]

\* What goes on with a result, and with an offset, that is not an error.
Then(r, Op(_)) == IF r.err < 0 THEN r ELSE Op(r)
Found(f, offset, Op(_)) == IF offset < 0 THEN Fail(f, offset) ELSE Op(offset)

fdt_num_mem_rsv(f) ==
    Min({n \in 0..((FdtBufSize - f.off_rsv) \div RsvSize - 1) : f.mem[f.off_rsv + n * RsvSize + 1] = 0})

fdt_get_mem_rsv(f, n) == <<f.mem[f.off_rsv + n * RsvSize], f.mem[f.off_rsv + n * RsvSize + 1]>>

_fdt_blocks_misordered(f, rsvsize, structsize) ==
    \/ f.off_rsv < FdtHeaderSize
    \/ f.off_struct < f.off_rsv + rsvsize
    \/ f.off_strings < f.off_struct + structsize
    \/ f.totalsize < f.off_strings + f.size_strings

_fdt_rw_check_header(f) ==
    CASE fdt_check_header(f) # 0 -> fdt_check_header(f)
      [] f.version < 17 -> BADVERSION
      [] _fdt_blocks_misordered(f, RsvSize, f.size_struct) -> BADLAYOUT
      [] OTHER -> 0

_fdt_data_size(f) == f.off_strings + f.size_strings

\* A splice that forgets that the blob ends with its buffer.
SpliceUnbounded(f, p, oldlen, newlen) ==
    LET end == _fdt_data_size(f)
    IN  Done([f EXCEPT !.mem = [i \in DOMAIN @ |->
                IF i < p + newlen THEN @[i]
                ELSE IF i < end - oldlen + newlen THEN @[i - newlen + oldlen] ELSE 0]])

\* What follows the oldlen bytes at p comes to follow newlen bytes.
_fdt_splice(f, p, oldlen, newlen) ==
    LET end == _fdt_data_size(f)
    IN  IF p + oldlen > end THEN Fail(f, BADOFFSET)
        ELSE IF end - oldlen + newlen > f.totalsize THEN Fail(f, NOSPACE)
        ELSE Done([f EXCEPT !.mem = [i \in DOMAIN @ |->
                IF i < p + newlen THEN @[i]
                ELSE IF i < end - oldlen + newlen THEN @[i - newlen + oldlen] ELSE 0]])

_fdt_splice_mem_rsv(f, n, oldn, newn) ==
    LET delta == (newn - oldn) * RsvSize
    IN  Then(_fdt_splice(f, f.off_rsv + n * RsvSize, oldn * RsvSize, newn * RsvSize),
             LAMBDA r : Done([r.f EXCEPT !.off_struct = @ + delta, !.off_strings = @ + delta]))

\* The strings are left where they were.
StringsStay(f, offset, oldlen, newlen) ==
    Then(_fdt_splice(f, f.off_struct + offset, oldlen, newlen),
         LAMBDA r : Done([r.f EXCEPT !.size_struct = @ + newlen - oldlen]))

_fdt_splice_struct(f, offset, oldlen, newlen) ==
    Then(_fdt_splice(f, f.off_struct + offset, oldlen, newlen),
         LAMBDA r : Done([r.f EXCEPT !.size_struct = @ + newlen - oldlen, !.off_strings = @ + newlen - oldlen]))

_fdt_splice_string(f, newlen) ==
    Then(_fdt_splice(f, _fdt_data_size(f), 0, newlen), LAMBDA r : Done([r.f EXCEPT !.size_strings = @ + newlen]))

\* fdt_rw.c's _fdt_find_add_string: err is the offset of the string.
FindAddString(f, s) ==
    LET p == _fdt_find_string(f.mem, f.off_strings, f.size_strings, s)
    IN  IF p >= 0 THEN [err |-> p - f.off_strings, f |-> f]
        ELSE Then(_fdt_splice_string(f, Len(s) + 1),
                  LAMBDA r : [err |-> f.size_strings,
                              f |-> [r.f EXCEPT !.mem = Put(@, f.off_strings + f.size_strings, Append(s, NUL))]])

fdt_add_mem_rsv(f, address, size) ==
    LET n == fdt_num_mem_rsv(f)
    IN  Then(_fdt_splice_mem_rsv(f, n, 0, 1),
             LAMBDA r : Done([r.f EXCEPT !.mem = Put(@, f.off_rsv + n * RsvSize, <<address, size>>)]))

fdt_del_mem_rsv(f, n) ==
    IF n >= fdt_num_mem_rsv(f) THEN Fail(f, NOTFOUND) ELSE _fdt_splice_mem_rsv(f, n, 1, 0)

\* Bytes into the structure.
PutStruct(f, offset, s) == [f EXCEPT !.mem = Put(@, f.off_struct + offset, s)]

\* Both give the offset of the property as err.
_fdt_resize_property(f, node, name, len) ==
    Found(f, fdt_get_property(f, node, name), LAMBDA prop :
        Then(_fdt_splice_struct(f, prop + PropSize, FDT_TAGALIGN(PropLen(f, prop)), FDT_TAGALIGN(len)),
             LAMBDA r : [err |-> prop, f |-> PutStruct(r.f, prop + TagSize, Cell(len))]))

_fdt_add_property(f, node, name, len) ==
    Found(f, _fdt_check_node_offset(f, node), LAMBDA next :
        Then(FindAddString(f, name), LAMBDA s :
            Then(_fdt_splice_struct(s.f, next, 0, PropSize + FDT_TAGALIGN(len)),
                 LAMBDA r : [err |-> next,
                             f |-> PutStruct(r.f, next, Cell(FDT_PROP) \o Cell(len) \o Cell(s.err))])))

fdt_set_name(f, node, name) ==
    Found(f, _fdt_check_node_offset(f, node), LAMBDA next :
        Then(_fdt_splice_struct(f, node + TagSize, FDT_TAGALIGN(Len(fdt_get_name(f, node)) + 1),
                                FDT_TAGALIGN(Len(name) + 1)),
             LAMBDA r : Done(PutStruct(r.f, node + TagSize, Append(name, NUL)))))

Otherwise(r, new) == IF r.err = NOTFOUND THEN new ELSE r
fdt_setprop(f, node, name, val) ==
    Then(Otherwise(_fdt_resize_property(f, node, name, Len(val)), _fdt_add_property(f, node, name, Len(val))),
         LAMBDA r : Done(PutStruct(r.f, r.err + PropSize, val)))

AppendTo(f, prop, oldlen, val) ==
    Then(_fdt_splice_struct(f, prop + PropSize, FDT_TAGALIGN(oldlen), FDT_TAGALIGN(oldlen + Len(val))),
         LAMBDA r : Done(PutStruct(PutStruct(r.f, prop + TagSize, Cell(oldlen + Len(val))),
                                   prop + PropSize + oldlen, val)))

fdt_appendprop(f, node, name, val) ==
    LET prop == fdt_get_property(f, node, name)
    IN  IF prop >= 0 THEN AppendTo(f, prop, PropLen(f, prop), val)
        ELSE Then(_fdt_add_property(f, node, name, Len(val)),
                  LAMBDA r : Done(PutStruct(r.f, r.err + PropSize, val)))

fdt_delprop(f, node, name) ==
    Found(f, fdt_get_property(f, node, name),
          LAMBDA prop : _fdt_splice_struct(f, prop, PropSize + FDT_TAGALIGN(PropLen(f, prop)), 0))

\* The new node comes before the properties of its parent.
BeforeProperties(f, offset) == offset

\* The first tag from an offset that is neither a property nor a NOP.
RECURSIVE BehindProperties(_, _, _)
BehindProperties(f, offset, t) ==
    IF t[1] \in {FDT_PROP, FDT_NOP} THEN BehindProperties(f, t[2], fdt_next_tag(f, t[2])) ELSE offset

InsertNode(f, offset, name) ==
    LET padded == FDT_TAGALIGN(Len(name) + 1)
    IN  Then(_fdt_splice_struct(f, offset, 0, TagSize + padded + TagSize),
             LAMBDA r : [err |-> offset,
                         f |-> PutStruct(r.f, offset, Cell(FDT_BEGIN_NODE)
                                 \o [i \in 1..padded |-> IF i \in DOMAIN name THEN name[i] ELSE NUL]
                                 \o Cell(FDT_END_NODE))])

fdt_add_subnode(f, parent, name) ==
    LET sub == fdt_subnode_offset(f, parent, name)
        from == fdt_next_tag(f, parent)[2]
    IN  IF sub # NOTFOUND THEN Fail(f, IF sub >= 0 THEN EXISTS ELSE sub)
        ELSE InsertNode(f, BehindProperties(f, from, fdt_next_tag(f, from)), name)

fdt_del_node(f, node) ==
    Found(f, _fdt_node_end_offset(f, node), LAMBDA end : _fdt_splice_struct(f, node, end - node, 0))

\* The three blocks, packed at an address, which may be that of the old blob.
_fdt_packblocks(f, new, rsvsize, structsize) ==
    LET struct == FdtHeaderSize + rsvsize
        strings == struct + structsize
        m1 == Move(f.mem, new + FdtHeaderSize, f.off_rsv, rsvsize)
        m2 == Move(m1, new + struct, f.off_struct, structsize)
    IN  [f EXCEPT !.mem = Move(m2, new + strings, f.off_strings, f.size_strings),
                  !.off_rsv = FdtHeaderSize, !.off_struct = struct, !.off_strings = strings,
                  !.size_struct = structsize]

\* The blob without what it no longer holds.
Tidy(f) == [f EXCEPT !.mem = [i \in DOMAIN @ |-> IF i < f.off_rsv \/ i >= _fdt_data_size(f) THEN 0 ELSE @[i]]]

\* The size of the structure, from a tag on, or an error.
RECURSIVE StructSize(_, _)
StructSize(f, t) == IF t[1] = FDT_END THEN t[2] ELSE StructSize(f, fdt_next_tag(f, t[2]))

\* Into the buffer that the tree is in.  When the blocks are in another order, the
\* tree is packed behind the old one, which it would overlap, and moved back.
OpenWith(f, bufsize, rsvsize, structsize) ==
    LET newsize == FdtHeaderSize + rsvsize + structsize + f.size_strings
        g == _fdt_packblocks(f, f.totalsize, rsvsize, structsize)
    IN  IF structsize < 0 THEN Fail(f, structsize)
        ELSE IF ~_fdt_blocks_misordered(f, rsvsize, structsize)
             THEN IF f.totalsize > bufsize THEN Fail(f, NOSPACE)
                  ELSE Done([f EXCEPT !.version = 17, !.size_struct = structsize, !.totalsize = bufsize])
        ELSE IF bufsize < newsize \/ f.totalsize + newsize > bufsize THEN Fail(f, NOSPACE)
        ELSE Done(Tidy([g EXCEPT !.mem = Move(@, 0, f.totalsize, newsize),
                                 !.totalsize = bufsize, !.version = 17]))

fdt_open_into(f, bufsize) ==
    IF fdt_check_header(f) # 0 THEN Fail(f, fdt_check_header(f))
    ELSE OpenWith(f, bufsize, (fdt_num_mem_rsv(f) + 1) * RsvSize,
                  IF f.version >= 17 THEN f.size_struct ELSE StructSize(f, fdt_next_tag(f, 0)))

fdt_pack(f) ==
    LET g == _fdt_packblocks(f, 0, (fdt_num_mem_rsv(f) + 1) * RsvSize, f.size_struct)
    IN  Done([Tidy(g) EXCEPT !.totalsize = _fdt_data_size(g)])

-------------------------------------------------------------------------------
(* fdt_wip.c: changes that leave every offset as it is *)

fdt_setprop_inplace(f, node, name, val) ==
    Found(f, fdt_get_property(f, node, name), LAMBDA prop :
        IF PropLen(f, prop) # Len(val) THEN Fail(f, NOSPACE) ELSE Done(PutStruct(f, prop + PropSize, val)))

\* The region is filled without its last cell.
NopTooFew(f, offset, len) ==
    PutStruct(f, offset, [i \in 1..(FDT_TAGALIGN(len) - TagSize) |-> IF i % TagSize = 0 THEN FDT_NOP ELSE 0])

_fdt_nop_region(f, offset, len) ==
    PutStruct(f, offset, [i \in 1..FDT_TAGALIGN(len) |-> IF i % TagSize = 0 THEN FDT_NOP ELSE 0])

fdt_nop_property(f, node, name) ==
    Found(f, fdt_get_property(f, node, name),
          LAMBDA prop : Done(_fdt_nop_region(f, prop, PropLen(f, prop) + PropSize)))

fdt_nop_node(f, node) ==
    Found(f, _fdt_node_end_offset(f, node), LAMBDA end : Done(_fdt_nop_region(f, node, end - node)))

-------------------------------------------------------------------------------
(* fdt_sw.c: a tree written from its beginning to its end, its strings from *)
(* the end of the buffer downwards                                          *)

Blank == [i \in 0..(FdtBufSize - 1) |-> 0]

NoTree == [magic |-> "none", version |-> 0, totalsize |-> 0, off_rsv |-> 0, off_struct |-> 0,
           off_strings |-> 0, size_struct |-> 0, size_strings |-> 0, mem |-> Blank]

fdt_create(bufsize) ==
    IF bufsize < FdtHeaderSize THEN Fail(NoTree, NOSPACE)
    ELSE Done([magic |-> "sw", version |-> 17, totalsize |-> bufsize, off_rsv |-> FdtHeaderSize,
               off_struct |-> FdtHeaderSize, off_strings |-> bufsize, size_struct |-> 0,
               size_strings |-> 0, mem |-> Blank])

\* The strings are not counted.
GrabOver(f, len) ==
    IF f.size_struct + len > f.totalsize - f.off_struct THEN Fail(f, NOSPACE)
    ELSE [err |-> f.size_struct, f |-> [f EXCEPT !.size_struct = @ + len]]

\* err is the offset of the space.
_fdt_grab_space(f, len) ==
    IF f.size_struct + len > f.totalsize - f.off_struct - f.size_strings THEN Fail(f, NOSPACE)
    ELSE [err |-> f.size_struct, f |-> [f EXCEPT !.size_struct = @ + len]]

fdt_add_reservemap_entry(f, address, size) ==
    IF f.size_struct # 0 THEN Fail(f, BADSTATE)
    ELSE IF f.off_struct + RsvSize > f.totalsize THEN Fail(f, NOSPACE)
    ELSE Done([f EXCEPT !.mem = Put(@, f.off_struct, <<address, size>>), !.off_struct = @ + RsvSize])

fdt_finish_reservemap(f) == fdt_add_reservemap_entry(f, 0, 0)

fdt_begin_node(f, name) ==
    Then(_fdt_grab_space(f, TagSize + FDT_TAGALIGN(Len(name) + 1)),
         LAMBDA r : Done(PutStruct(r.f, r.err, Cell(FDT_BEGIN_NODE) \o Append(name, NUL))))

fdt_end_node(f) ==
    Then(_fdt_grab_space(f, TagSize), LAMBDA r : Done(PutStruct(r.f, r.err, Cell(FDT_END_NODE))))

\* fdt_sw.c's _fdt_find_add_string: the offset of a string from the end of the
\* buffer, negative, or 0.
FindAddStringDown(f, s) ==
    LET p == _fdt_find_string(f.mem, f.totalsize - f.size_strings, f.size_strings, s)
        offset == -f.size_strings - Len(s) - 1
    IN  IF p >= 0 THEN [err |-> p - f.totalsize, f |-> f]
        ELSE IF f.totalsize + offset < f.off_struct + f.size_struct THEN [err |-> 0, f |-> f]
        ELSE [err |-> offset, f |-> [f EXCEPT !.mem = Put(@, f.totalsize + offset, Append(s, NUL)),
                                              !.size_strings = @ + Len(s) + 1]]

PropertyBehind(s, val) ==
    Then(_fdt_grab_space(s.f, PropSize + FDT_TAGALIGN(Len(val))),
         LAMBDA r : Done(PutStruct(r.f, r.err, Cell(FDT_PROP) \o Cell(Len(val)) \o Cell(s.err) \o val)))

fdt_property(f, name, val) ==
    LET s == FindAddStringDown(f, name)
    IN  IF s.err = 0 THEN Fail(f, NOSPACE) ELSE PropertyBehind(s, val)

\* The walk that makes the offsets of the names count from the new begin of the
\* strings.
RECURSIVE CorrectNames(_, _, _)
CorrectNames(f, offset, t) ==
    CASE t[1] = FDT_END -> f
      [] t[1] = FDT_PROP ->
            CorrectNames(PutStruct(f, offset + 2 * TagSize,
                                   Cell(CellAt(f, offset + 2 * TagSize) + f.size_strings)),
                         t[2], fdt_next_tag(f, t[2]))
      [] OTHER -> CorrectNames(f, t[2], fdt_next_tag(f, t[2]))

\* The strings are moved behind the structure, which ends.
StringsMoved(e, strings) ==
    [e EXCEPT !.mem = Move(@, strings, e.totalsize - e.size_strings, e.size_strings), !.off_strings = strings]

Finished(g) ==
    LET size == StructSize(g, fdt_next_tag(g, 0))
    IN  IF size < 0 THEN Fail(g, size)
        ELSE Done(Tidy([g EXCEPT !.totalsize = g.off_strings + g.size_strings, !.magic = "fdt"]))

Corrected(g) == CorrectNames(g, 0, fdt_next_tag(g, 0))

fdt_finish(f) ==
    Then(_fdt_grab_space(f, TagSize),
         LAMBDA r : Finished(Corrected(StringsMoved(PutStruct(r.f, r.err, Cell(FDT_END)),
                                                    r.f.off_struct + r.f.size_struct))))

fdt_create_empty_tree(bufsize) ==
    LET reserved == Then(fdt_create(bufsize), LAMBDA r : fdt_finish_reservemap(r.f))
        root == Then(reserved, LAMBDA r : fdt_begin_node(r.f, <<>>))
        tree == Then(Then(root, LAMBDA r : fdt_end_node(r.f)), LAMBDA r : fdt_finish(r.f))
    IN  Then(tree, LAMBDA r : fdt_open_into(r.f, bufsize))

-------------------------------------------------------------------------------
(* The tree that the calls describe: nodes by number *)

\* The nodes below node i follow it.
LastBelow(T, i) == Max({k \in i..Len(T) : \A j \in (i + 1)..k : T[j].depth > T[i].depth})

Cut(T, i) == SubSeq(T, 1, i - 1) \o SubSeq(T, LastBelow(T, i) + 1, Len(T))
Node(d, name) == [depth |-> d, name |-> name, props |-> <<>>]

At(props, name) == {k \in DOMAIN props : props[k][1] = name}
Has(T, i, name) == At(T[i].props, name) # {}
Value(T, i, name) == T[i].props[Min(At(T[i].props, name))][2]

WithProp(T, i, name, val) ==
    [T EXCEPT ![i].props = IF At(@, name) = {} THEN <<<<name, val>>>> \o @
                           ELSE [@ EXCEPT ![Min(At(@, name))][2] = val]]
WithoutProp(T, i, name) == [T EXCEPT ![i].props = SelectSeq(@, LAMBDA p : p[1] # name)]

\* A name without a unit address stands for one with it.
Named(node, name) == node.name = name \/ node.name = name \o <<AT>>

\* The nodes below node i, one level down.
Below(T, i) == {k \in (i + 1)..LastBelow(T, i) : T[k].depth = T[i].depth + 1}

-------------------------------------------------------------------------------
(* Calls.  given: the blob was compiled from a source, and may be of an     *)
(* older version and have its strings before its structure.                 *)

\* / { s { c = "/a"; } a@ { h = 1; } }
GivenTree == <<Node(0, <<>>), [Node(1, ALIASES) EXCEPT !.props = <<<<COMPATIBLE, <<47, 97, NUL>>>>>>],
               [Node(1, <<97, AT>>) EXCEPT !.props = <<<<PHANDLE, <<0, 1>>>>>>]>>
GivenStrings == <<99, NUL, 108, 104, NUL>>
GivenStruct ==
    Cell(FDT_BEGIN_NODE) \o <<NUL, 0>>
    \o Cell(FDT_BEGIN_NODE) \o <<115, NUL>> \o Cell(FDT_PROP) \o Cell(3) \o Cell(0) \o <<47, 97, NUL, 0>>
    \o Cell(FDT_END_NODE)
    \o Cell(FDT_BEGIN_NODE) \o <<97, AT, NUL, 0>> \o Cell(FDT_PROP) \o Cell(2) \o Cell(3) \o <<0, 1>>
    \o Cell(FDT_END_NODE) \o Cell(FDT_END_NODE) \o Cell(FDT_END)

Given(version, stringsfirst) ==
    LET struct == 2 * FdtHeaderSize + IF stringsfirst THEN Len(GivenStrings) + 1 ELSE 0
        strings == IF stringsfirst THEN 2 * FdtHeaderSize ELSE struct + Len(GivenStruct)
    IN  [magic |-> "fdt", version |-> version, off_rsv |-> FdtHeaderSize, off_struct |-> struct,
         off_strings |-> strings, size_struct |-> IF version >= 17 THEN Len(GivenStruct) ELSE 0,
         size_strings |-> Len(GivenStrings), totalsize |-> 2 * FdtHeaderSize + Len(GivenStruct) + Len(GivenStrings) + 1,
         mem |-> Put(Put(Blank, struct, GivenStruct), strings, GivenStrings)]

Init ==
    /\ \/ \E s \in FdtSizes :
            dev = [phase |-> "none", size |-> s, f |-> NoTree, tree |-> <<>>, rsv |-> <<>>,
                   depth |-> 0, props |-> FALSE, calls |-> 0, err |-> 0, may |-> {}]
       \/ \E s \in FdtSizes, v \in {16, 17}, first \in BOOLEAN :
            /\ s >= Given(v, first).totalsize
            /\ dev = [phase |-> "tree", size |-> s, f |-> Given(v, first), tree |-> GivenTree, rsv |-> <<>>,
                      depth |-> 0, props |-> FALSE, calls |-> 0, err |-> 0, may |-> {}]
    /\ hw = <<>> /\ lock = <<>> /\ pc = [t \in Tasks |-> "idle"] /\ loc = <<>>

Frame == UNCHANGED <<hw, lock, pc, loc>>

\* The bytes that the largest of the calls may need.
Largest == 16
Room == IF dev.f.magic = "sw" THEN dev.f.totalsize - dev.f.off_struct - dev.f.size_struct - dev.f.size_strings
        ELSE dev.f.totalsize - _fdt_data_size(dev.f)
Scarce == IF Room < Largest THEN {NOSPACE} ELSE {}

\* A call gave r; after a success the tree and the rest are those of d; otherwise
\* the error is one of may.
Result(r, may, d) ==
    dev' = [(IF r.err < 0 THEN dev ELSE d) EXCEPT !.f = r.f, !.err = IF r.err < 0 THEN r.err ELSE 0, !.may = may]

Writing(phase) == dev.phase = phase /\ dev.f.magic = "sw" /\ dev.err = 0

Create ==
    /\ dev.phase = "none" /\ dev.err = 0
    /\ \/ Result(fdt_create(dev.size), {NOSPACE}, [dev EXCEPT !.phase = "reserve"])
       \/ Result(fdt_create_empty_tree(dev.size), {NOSPACE},
                 [dev EXCEPT !.phase = "tree", !.tree = <<Node(0, <<>>)>>])
    /\ Frame

Reserve ==
    /\ Writing("reserve")
    /\ \/ /\ Len(dev.rsv) < 1
          /\ Result(fdt_add_reservemap_entry(dev.f, 5, 6), Scarce, [dev EXCEPT !.rsv = Append(@, <<5, 6>>)])
       \/ Result(fdt_finish_reservemap(dev.f), Scarce, [dev EXCEPT !.phase = "write"])
    /\ Frame

Begin ==
    /\ Writing("write") /\ Len(dev.tree) < MaxNodes
    /\ IF dev.depth > 0 THEN dev.calls < MaxEdits ELSE dev.tree = <<>>
    /\ \E name \in IF dev.depth = 0 THEN {<<>>} ELSE NodeNames :
          Result(fdt_begin_node(dev.f, name), Scarce,
                 [dev EXCEPT !.tree = Append(@, Node(dev.depth, name)), !.depth = @ + 1, !.props = TRUE,
                             !.calls = IF dev.depth > 0 THEN @ + 1 ELSE @])
    /\ Frame

\* The properties of a node come before the nodes below it.
Property ==
    /\ Writing("write") /\ dev.props /\ dev.calls < MaxEdits
    /\ \E name \in PropNames : \E val \in Values(name) :
          /\ ~Has(dev.tree, Len(dev.tree), name)
          /\ Result(fdt_property(dev.f, name, val), Scarce,
                    [dev EXCEPT !.tree[Len(dev.tree)].props = Append(@, <<name, val>>), !.calls = @ + 1])
    /\ Frame

End ==
    /\ Writing("write") /\ dev.depth > 0
    /\ Result(fdt_end_node(dev.f), Scarce, [dev EXCEPT !.depth = @ - 1, !.props = FALSE])
    /\ Frame

Finish ==
    /\ Writing("write") /\ dev.depth = 0 /\ dev.tree # <<>>
    /\ Result(fdt_finish(dev.f), Scarce, [dev EXCEPT !.phase = "tree"])
    /\ Frame

Ready == dev.phase = "tree" /\ dev.f.magic = "fdt"

Open ==
    /\ Ready /\ dev.f.totalsize < dev.size
    /\ Result(fdt_open_into(dev.f, dev.size),
              IF dev.f.off_strings < dev.f.off_struct /\ 2 * dev.f.totalsize > dev.size THEN {NOSPACE} ELSE {}, dev)
    /\ Frame

Pack ==
    /\ Ready /\ _fdt_rw_check_header(dev.f) = 0 /\ dev.f.totalsize > _fdt_data_size(dev.f)
    /\ Result(fdt_pack(dev.f), {}, dev)
    /\ Frame

\* The offsets of the nodes, in order.
Offsets(f) == Front(NextNodes(f, -1))

\* An edit of fdt_rw.c, with the check that each begins with.
Edit(r, may, T) ==
    LET bad == _fdt_rw_check_header(dev.f)
    IN  IF bad # 0 THEN Result(Fail(dev.f, bad), {BADVERSION, BADLAYOUT}, dev)
        ELSE Result(r, may \cup Scarce, [dev EXCEPT !.tree = T, !.calls = @ + 1])

Unless(ok, err) == IF ok THEN {} ELSE {err}

\* A tree without its root is edited no more.
Editing == Ready /\ dev.calls < MaxEdits /\ Len(Offsets(dev.f)) > 0

EditNode ==
    /\ Editing
    /\ \E i \in 1..Len(Offsets(dev.f)) :
          LET f == dev.f
              T == dev.tree
              node == Offsets(f)[i]
          IN  \/ \E name \in NodeNames :
                    \/ Edit(fdt_add_subnode(f, node, name),
                            Unless(\A k \in Below(T, i) : ~Named(T[k], name), EXISTS),
                            SubSeq(T, 1, i) \o <<Node(T[i].depth + 1, name)>> \o SubSeq(T, i + 1, Len(T)))
                    \/ /\ i > 1
                       /\ Edit(fdt_set_name(f, node, name), {}, [T EXCEPT ![i].name = name])
              \/ Edit(fdt_del_node(f, node), {}, Cut(T, i))
              \/ Result(fdt_nop_node(f, node), {}, [dev EXCEPT !.tree = Cut(T, i), !.calls = @ + 1])
    /\ Frame

EditProp ==
    /\ Editing
    /\ \E i \in 1..Len(Offsets(dev.f)), name \in PropNames :
          LET f == dev.f
              T == dev.tree
              node == Offsets(f)[i]
              missing == Unless(Has(T, i, name), NOTFOUND)
          IN  \/ \E val \in Values(name) :
                    \/ Edit(fdt_setprop(f, node, name, val), {}, WithProp(T, i, name, val))
                    \/ Edit(fdt_appendprop(f, node, name, val), {},
                            WithProp(T, i, name, IF Has(T, i, name) THEN Value(T, i, name) \o val ELSE val))
                    \/ Result(fdt_setprop_inplace(f, node, name, val),
                              missing \cup Unless(~Has(T, i, name) \/ Len(Value(T, i, name)) = Len(val), NOSPACE),
                              [dev EXCEPT !.tree = WithProp(T, i, name, val), !.calls = @ + 1])
              \/ Edit(fdt_delprop(f, node, name), missing, WithoutProp(T, i, name))
              \/ Result(fdt_nop_property(f, node, name), missing,
                        [dev EXCEPT !.tree = WithoutProp(T, i, name), !.calls = @ + 1])
    /\ Frame

EditRsv ==
    /\ Ready /\ dev.calls < MaxEdits
    /\ LET bad == _fdt_rw_check_header(dev.f)
           Do(r, may, rsv) == IF bad # 0 THEN Result(Fail(dev.f, bad), {BADVERSION, BADLAYOUT}, dev)
                              ELSE Result(r, may \cup Scarce, [dev EXCEPT !.rsv = rsv, !.calls = @ + 1])
       IN  \/ Do(fdt_add_mem_rsv(dev.f, 7, 8), {}, Append(dev.rsv, <<7, 8>>))
           \/ Do(fdt_del_mem_rsv(dev.f, 0), Unless(dev.rsv # <<>>, NOTFOUND),
                 IF dev.rsv = <<>> THEN <<>> ELSE Tail(dev.rsv))
    /\ Frame

Next == Create \/ Reserve \/ Begin \/ Property \/ End \/ Finish \/ Open \/ Pack \/ EditNode \/ EditProp \/ EditRsv

Spec == Init /\ [][Next]_vars

-------------------------------------------------------------------------------
(* Properties *)

TypeOK ==
    /\ dev.phase \in {"none", "reserve", "write", "tree"} /\ dev.size \in FdtSizes
    /\ dev.f.mem \in [0..(FdtBufSize - 1) -> 0..255]
    /\ dev.err \in INTERNAL..0

\* What the blob says: nodes as in tree; <<>> when it is not that of a tree.
RECURSIVE Decode(_, _, _, _, _)
Decode(f, offset, t, depth, T) ==
    LET On(d, U) == Decode(f, t[2], fdt_next_tag(f, t[2]), d, U)
    IN  CASE t[1] = FDT_BEGIN_NODE -> On(depth + 1, Append(T, Node(depth, fdt_get_name(f, offset))))
          [] t[1] = FDT_PROP ->
                IF T # <<>> /\ Last(T).depth = depth - 1
                THEN On(depth, [T EXCEPT ![Len(T)].props = Append(@, <<PropName(f, offset), PropData(f, offset)>>)])
                ELSE <<>>
          [] t[1] = FDT_END_NODE -> On(depth - 1, T)
          [] t[1] = FDT_NOP -> On(depth, T)
          [] t[1] = FDT_END -> IF t[2] >= 0 /\ depth = 0 THEN T ELSE <<>>

\* The blob is the tree that the calls describe, whichever of them have failed for
\* lack of space: fdt_rw.c and fdt_wip.c move and overwrite bytes of the blob, and
\* fdt_finish moves its strings.
TreeKept ==
    Ready => /\ Decode(dev.f, 0, fdt_next_tag(dev.f, 0), 0, <<>>) = dev.tree
             /\ fdt_num_mem_rsv(dev.f) = Len(dev.rsv)
             /\ \A n \in DOMAIN dev.rsv : fdt_get_mem_rsv(dev.f, n - 1) = dev.rsv[n]

\* The blocks of the blob do not overlap and stay inside what the caller gave, and
\* a call fails only for a reason: little room, a name that exists or does not, or
\* a blob that fdt_open_into has still to convert.
BlobBounded ==
    /\ dev.f.totalsize <= dev.size
    /\ dev.f.magic = "sw" => dev.f.off_struct + dev.f.size_struct + dev.f.size_strings <= dev.f.totalsize
    /\ Ready /\ dev.f.version = 17 /\ dev.f.off_strings > dev.f.off_struct =>
          ~_fdt_blocks_misordered(dev.f, RsvSize * (Len(dev.rsv) + 1), dev.f.size_struct)
    /\ dev.err # 0 => dev.err \in dev.may

Parent(T, i) == Max({k \in 1..i : T[k].depth < T[i].depth})

\* The path of node i, and whether no other node comes before it on the way down.
RECURSIVE PathOf(_, _)
PathOf(T, i) == IF i = 1 THEN <<>> ELSE PathOf(T, Parent(T, i)) \o <<SLASH>> \o T[i].name

RECURSIVE First(_, _)
First(T, i) ==
    i > 1 => /\ \A k \in Below(T, Parent(T, i)) : k < i => ~Named(T[k], T[i].name)
             /\ First(T, Parent(T, i))

\* Nodes and properties are found where they are: the next node, the parent, the
\* nodes below, those with a name, a property, a phandle or a compatible string,
\* and a path leads to the first node that it names (fdt.c, fdt_ro.c).
LookupsExact ==
    Ready /\ dev.err = 0 =>
    LET f == dev.f
        T == dev.tree
        off == Offsets(f)
        Nodes == DOMAIN T
        FirstOf(S, none) == IF S = {} THEN none ELSE off[Min(S)]
        Handle(i) == LET h == {n \in {PHANDLE, LINUX_PHANDLE} : Has(T, i, n) /\ Len(Value(T, i, n)) = TagSize}
                         n == IF PHANDLE \in h THEN PHANDLE ELSE LINUX_PHANDLE
                     IN  IF h = {} THEN 0 ELSE Value(T, i, n)[2]
    IN  /\ Len(off) = Len(T)
        /\ \A i \in Nodes :
              /\ fdt_node_depth(f, off[i]) = T[i].depth
              /\ fdt_parent_offset(f, off[i]) =
                    IF i = 1 THEN NOTFOUND ELSE off[Parent(T, i)]
              /\ fdt_first_subnode(f, off[i]) = FirstOf(Below(T, i), NOTFOUND)
              /\ i > 1 => fdt_next_subnode(f, off[i]) =
                    FirstOf({k \in Nodes : k > i /\ T[k].depth = T[i].depth
                                         /\ \A j \in i..k : T[j].depth >= T[i].depth}, NOTFOUND)
              /\ \A name \in NodeNames \cup {ALIASES} :
                    fdt_subnode_offset(f, off[i], name) = FirstOf({k \in Below(T, i) : Named(T[k], name)}, NOTFOUND)
              /\ \A name \in PropNames :
                    LET p == fdt_get_property(f, off[i], name)
                    IN  IF Has(T, i, name) THEN p >= 0 /\ PropData(f, p) = Value(T, i, name) ELSE p = NOTFOUND
              /\ fdt_get_phandle(f, off[i]) = Handle(i)
              /\ LET path == IF i = 1 THEN <<SLASH>> ELSE PathOf(T, i)
                     at == fdt_path_offset(f, path)
                     short == fdt_get_path(f, off[i], Len(path))
                 IN  /\ fdt_get_path(f, off[i], Len(path) + 1) = [err |-> 0, path |-> path]
                     /\ short.err = NOSPACE
                     /\ First(T, i) => at = off[i]
                     /\ fdt_get_path(f, off[i] + TagSize, FdtBufSize).err = BADOFFSET
        /\ \A h \in 1..3 :
              fdt_node_offset_by_phandle(f, h) = FirstOf({i \in Nodes : Handle(i) = h}, NOTFOUND)
        /\ fdt_node_offset_by_prop_value(f, -1, COMPATIBLE, <<97>>) =
              FirstOf({i \in Nodes : Has(T, i, COMPATIBLE) /\ Value(T, i, COMPATIBLE) = <<97>>}, NOTFOUND)
        /\ (\A i \in Nodes : Has(T, i, COMPATIBLE) /\ Value(T, i, COMPATIBLE) # <<>>
                                  => Last(Value(T, i, COMPATIBLE)) = NUL)
            => fdt_node_offset_by_compatible(f, -1, <<97>>) =
                 FirstOf({i \in Nodes : Has(T, i, COMPATIBLE)
                           /\ \E k \in 1..(Len(Value(T, i, COMPATIBLE)) - 1) :
                                 /\ SubSeq(Value(T, i, COMPATIBLE), k, k + 1) = <<97, NUL>>
                                 /\ k = 1 \/ Value(T, i, COMPATIBLE)[k - 1] = NUL}, NOTFOUND)
        /\ LET s == {k \in DOMAIN T : T[k].depth = 1 /\ T[k].name = ALIASES}
           IN  s # {} /\ Has(T, Min(s), COMPATIBLE) /\ Value(T, Min(s), COMPATIBLE) = <<47, 97, NUL>> =>
                 fdt_path_offset(f, COMPATIBLE) = fdt_subnode_offset(f, 0, <<97>>)
================================================================================
