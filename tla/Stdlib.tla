-------------------------------- MODULE Stdlib ---------------------------------
(***************************************************************************)
(* The conversions of lib/stdlib.c and the functions of lib/string.c on    *)
(* memory and strings, checked against what they should compute.  A state  *)
(* is one call with its result.                                            *)
(*                                                                         *)
(* A character is a number: a digit is its value, and the others are NUL,  *)
(* Minus, Plus, Space (any white space) and Other.  A string ends with its *)
(* first NUL.  Integers have IntBits bits; the sums and products of atoi   *)
(* wrap, as the compiler's code for them does.                             *)
(***************************************************************************)
EXTENDS Calls, Sequences, SequencesExt

CONSTANTS
    IntBits,
    Bases, TextLens,    \* of itoa
    ParseLen,           \* length of the texts given to atoi
    MemLen,             \* bytes of memory
    StringLen           \* length of the strings that are compared and copied

NUL == -1
Minus == -2
Plus == -3
Space == -4
Other == -5

StdlibAssumption ==
    /\ IntBits \in Nat \ {0} /\ MemLen \in Nat /\ StringLen \in Nat /\ ParseLen \in Nat
    /\ Bases \subseteq Nat /\ TextLens \subseteq Nat

Numbers == -(2^(IntBits - 1))..(2^(IntBits - 1) - 1)
UINT_MAX == 2^IntBits - 1
Wrap(n) == ((n + 2^(IntBits - 1)) % 2^IntBits) - 2^(IntBits - 1)

\* A string that is in memory, with its NUL.
Strings == UNION {[1..n -> {1, 2}] : n \in 0..StringLen}
At(s, i) == IF i <= Len(s) THEN s[i] ELSE NUL

-------------------------------------------------------------------------------
(* itoa and uitoa *)

\* The table has 35 characters: the digit 35 of base 36 is its NUL.
lookup(d) == IF d < 35 THEN d ELSE NUL

\* n <= 0 is subtracted from UINT_MAX as an unsigned number.
int_abs(n) == IF n > 0 THEN n ELSE (UINT_MAX - (n % 2^IntBits) + 1) % 2^IntBits

NULL == [ok |-> FALSE, text |-> <<>>, stored |-> 0]

\* The digits from the last to the first, as long as len lasts.
RECURSIVE Digits(_, _, _)
Digits(number, len, base) ==
    <<lookup(number % base)>>
        \o (IF len - 1 > 0 /\ number \div base > 0 THEN Digits(number \div base, len - 1, base)
            ELSE <<>>)

\* A conversion that stores its NUL without looking whether there is room.
UitoaUnchecked(number, len, base) ==
    IF len = 0 \/ base \notin 2..36 THEN NULL
    ELSE LET d == Digits(number, len, base)
         IN  [ok |-> TRUE, text |-> Reverse(d), stored |-> Len(d) + 1]

uitoa(number, len, base) ==
    IF len = 0 \/ base \notin 2..36 THEN NULL
    ELSE LET d == Digits(number, len, base)
         IN  IF Len(d) = len THEN NULL
             ELSE [ok |-> TRUE, text |-> Reverse(d), stored |-> Len(d) + 1]

itoa(number, len, base) ==
    IF len = 0 \/ base \notin 2..36 THEN NULL
    ELSE IF number >= 0 THEN uitoa(int_abs(number), len, base)
    ELSE LET r == uitoa(int_abs(number), len - 1, base)
         IN  IF ~r.ok THEN NULL
             ELSE [ok |-> TRUE, text |-> <<Minus>> \o r.text, stored |-> r.stored + 1]

-------------------------------------------------------------------------------
(* atoi *)

\* The place after the white space at i.
RECURSIVE SkipSpace(_, _)
SkipSpace(s, i) == IF At(s, i) = Space THEN SkipSpace(s, i + 1) ELSE i

RECURSIVE ParseDigits(_, _, _)
ParseDigits(s, i, result) ==
    IF At(s, i) \in 0..9 THEN ParseDigits(s, i + 1, Wrap(Wrap(result * 10) + s[i])) ELSE result

\* A sign that is not passed.
AtoiStaysAtPlus(s) ==
    LET i == SkipSpace(s, 1)
    IN  IF At(s, i) = Minus THEN Wrap(-ParseDigits(s, i + 1, 0)) ELSE ParseDigits(s, i, 0)

atoi(s) ==
    LET i == SkipSpace(s, 1)
    IN  CASE At(s, i) = Minus -> Wrap(-ParseDigits(s, i + 1, 0))
          [] At(s, i) = Plus -> ParseDigits(s, i + 1, 0)
          [] OTHER -> ParseDigits(s, i, 0)

-------------------------------------------------------------------------------
(* Memory and strings *)

Memory == [i \in 0..(MemLen - 1) |-> i]

\* Copies the bytes in the order of the sequence of their offsets.
Copied(mem, dst, src, order) ==
    FoldLeft(LAMBDA m, k : [m EXCEPT ![dst + k] = m[src + k]], mem, order)

Upward(n) == [i \in 1..n |-> i - 1]
memcpy(dst, src, n) == Copied(Memory, dst, src, Upward(n))

\* A copy that always goes upward.
MoveUpward(dst, src, n) == Copied(Memory, dst, src, Upward(n))

memmove(dst, src, n) ==
    Copied(Memory, dst, src, IF src < dst THEN Reverse(Upward(n)) ELSE Upward(n))

\* The place at which the loop of strncmp stops, and the n that is left.
RECURSIVE FirstDifference(_, _, _, _)
FirstDifference(s, p, i, n) ==
    IF At(s, i) = At(p, i) /\ At(s, i) # NUL /\ n > 0 THEN FirstDifference(s, p, i + 1, n - 1)
    ELSE <<i, n>>

Sign(a, b) == IF a = b THEN 0 ELSE IF a > b THEN 1 ELSE -1

\* A comparison that looks at one character more.
CompareOneMore(s, p, n) ==
    LET d == FirstDifference(s, p, 1, n) IN Sign(At(s, d[1]), At(p, d[1]))

strncmp(s, p, n) ==
    LET d == FirstDifference(s, p, 1, n)
    IN  IF d[2] = 0 THEN 0 ELSE Sign(At(s, d[1]), At(p, d[1]))
strcmp(s, p) == LET d == FirstDifference(s, p, 1, StringLen + 1)
                IN  Sign(At(s, d[1]), At(p, d[1]))

strnlen(s, n) == IF Len(s) < n THEN Len(s) ELSE n

\* The n bytes at the destination: the source's, then NULs.
strncpy(s, n) == [i \in 1..n |-> At(s, i)]

\* malloc of len + 1 bytes, as it is filled.
strndup(s, n) == strncpy(s, strnlen(s, n)) \o <<NUL>>

-------------------------------------------------------------------------------
(* Calls *)

Idle == [call |-> "none", arg |-> <<>>, result |-> <<>>]

TypeOK ==
    /\ dev.call \in {"none", "itoa", "atoi", "memmove", "memcpy", "strncmp", "strcmp", "strndup"}
    /\ pc = [t \in Tasks |-> "idle"]

Init ==
    /\ dev = Idle /\ hw = <<>> /\ lock = <<>>
    /\ pc = [t \in Tasks |-> "idle"] /\ loc = <<>>

Result(call, arg, r) ==
    /\ dev.call = "none"
    /\ dev' = [call |-> call, arg |-> arg, result |-> r]
    /\ UNCHANGED <<hw, lock, pc, loc>>

Convert ==
    \/ \E n \in Numbers, len \in TextLens, b \in Bases :
          Result("itoa", <<n, len, b>>, itoa(n, len, b))
    \/ \E s \in UNION {[1..k -> {Space, Minus, Plus, Other, 0, 9}] : k \in 0..ParseLen} :
          Result("atoi", <<s>>, atoi(s))

Places == 0..(MemLen - 1)
Copy ==
    \E dst, src \in Places, n \in 0..MemLen :
        /\ dst + n <= MemLen /\ src + n <= MemLen
        /\ \/ Result("memmove", <<dst, src, n>>, memmove(dst, src, n))
           \/ Result("memcpy", <<dst, src, n>>, memcpy(dst, src, n))

Compare ==
    \E s, p \in Strings :
        \/ \E n \in 0..(StringLen + 1) : Result("strncmp", <<s, p, n>>, strncmp(s, p, n))
        \/ Result("strcmp", <<s, p, StringLen + 1>>, strcmp(s, p))

Duplicate ==
    \E s \in Strings, n \in 0..(StringLen + 1) : Result("strndup", <<s, n>>, strndup(s, n))

Next == Convert \/ Copy \/ Compare \/ Duplicate

Spec == Init /\ [][Next]_vars

-------------------------------------------------------------------------------
(* Properties *)

\* The number that the digits s stand for, in base b.
Value(s, b) == FoldLeft(LAMBDA v, d : v * b + d, 0, s)

\* stdlib.c on uitoa: "Converts number to string, base 2 to 36. Returns NULL on
\* invalid base or insufficient space".  The text stands for the number, has no
\* zero in front, and is given exactly when it fits with its sign and its NUL.
\* Base 36 is left out: its last digit has no character.
TextExact ==
    dev.call = "itoa" =>
        LET n == dev.arg[1]   len == dev.arg[2]   b == dev.arg[3]
            r == dev.result
            s == IF n < 0 THEN Tail(r.text) ELSE r.text
            need(k) == (IF n < 0 THEN 1 ELSE 0) + k + 1
        IN  IF b \notin 2..35 THEN b < 2 => ~r.ok
            ELSE IF r.ok THEN /\ n < 0 => Head(r.text) = Minus
                              /\ s # <<>> /\ \A i \in 1..Len(s) : s[i] \in 0..(b - 1)
                              /\ Value(s, b) = (IF n < 0 THEN -n ELSE n)
                              /\ Len(s) > 1 => s[1] # 0
                              /\ r.stored = need(Len(s)) /\ r.stored <= len
            ELSE \A k \in 1..(IntBits + 1) :
                    need(k) <= len => b^k <= (IF n < 0 THEN -n ELSE n)

\* A text that is white space, a sign or none, and digits is read as its number,
\* whatever comes after the digits; in particular what itoa writes is.
ParseExact ==
    dev.call = "atoi" =>
        LET s == dev.arg[1]
        IN  \A i \in 0..Len(s), j \in 0..Len(s) :
               LET signed == i < Len(s) /\ s[i + 1] \in {Minus, Plus}
                   from == IF signed THEN i + 2 ELSE i + 1
                   digits == SubSeq(s, from, j)
                   v == Value(digits, 10)
               IN  /\ \A k \in 1..i : s[k] = Space
                   /\ At(s, i + 1) # Space
                   /\ \A k \in 1..Len(digits) : digits[k] \in 0..9
                   /\ At(s, IF j + 1 > from THEN j + 1 ELSE from) \notin 0..9
                   => dev.result = Wrap(IF At(s, i + 1) = Minus THEN -v ELSE v)

\* string.c on memmove: "Overlap-safe memcpy".  Afterwards the destination has
\* what the source had, and the rest is as before; so it is for memcpy, unless
\* the destination begins inside the source.
MoveExact ==
    dev.call \in {"memmove", "memcpy"} =>
        LET dst == dev.arg[1]   src == dev.arg[2]   n == dev.arg[3]
        IN  \/ dev.call = "memcpy" /\ dst \in (src + 1)..(src + n - 1)
            \/ dev.result = [i \in Places |-> IF i \in dst..(dst + n - 1)
                                              THEN Memory[src + (i - dst)] ELSE Memory[i]]

\* The order of strcmp and strncmp is that of the first characters, at most n,
\* that differ; a duplicate is equal to the first n characters of its original.
CompareExact ==
    /\ dev.call \in {"strncmp", "strcmp"} =>
          LET s == dev.arg[1]   p == dev.arg[2]
              differ == {i \in 1..dev.arg[3] : At(s, i) # At(p, i)}
          IN  IF differ = {} THEN dev.result = 0
              ELSE LET i == CHOOSE i \in differ : \A k \in differ : i <= k
                   IN  dev.result = IF At(s, i) > At(p, i) THEN 1 ELSE -1
    /\ dev.call = "strndup" =>
          LET s == dev.arg[1]   n == dev.arg[2]
          IN  /\ strncmp(s, dev.result, n) = 0
              /\ Len(dev.result) <= n + 1 /\ Last(dev.result) = NUL
================================================================================
