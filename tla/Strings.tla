------------------------------ MODULE Strings ------------------------------
(***************************************************************************)
(* The string and number routines of the kernel (lib.c) and of the user    *)
(* programs (ece391support.c).  A string is a sequence; the NUL that ends  *)
(* it in memory is the place behind its last character.  Characters are    *)
(* bytes, 0 to 255, which the kernel takes for signed numbers and the      *)
(* programs for unsigned ones; the digits of a number are 0 to 35.         *)
(***************************************************************************)
EXTENDS Integers, Sequences

CONSTANTS WIDTH         \* the bits of a number, 32; a multiple of 4

ASSUME StringsAssumption == WIDTH \in Nat \ {0} /\ WIDTH % 4 = 0

NULCHAR == 0
MinusSign == 99

\* The character of s at i, counted from 0, its NUL included.
CharAt(s, i) == IF i < Len(s) THEN s[i + 1] ELSE NULCHAR

\* A character as the kernel sees it, an int8_t.
int8(c) == IF c < 128 THEN c ELSE c - 256

strlen(s) == Len(s)

\* Mutant: the middle pair is missed.
Crossed_Early(beg, end) == beg + 1 >= end

Crossed(beg, end) == beg >= end

\* One exchange from both ends per round.
strrev(s) ==
    LET swap(t, beg, end) == [t EXCEPT ![beg + 1] = t[end + 1], ![end + 1] = t[beg + 1]]
        loop[beg \in 0 .. Len(s)] ==
            IF beg = 0 THEN s
            ELSE IF Crossed(beg - 1, Len(s) - beg) THEN loop[beg - 1]
            ELSE swap(loop[beg - 1], beg - 1, Len(s) - beg)
    IN  loop[Len(s)]

\* Lowest place first, then reversed; zero is a special case.
itoa(value, radix) ==
    LET digits[v \in 0 .. value] ==
            IF v = 0 THEN <<>> ELSE <<v % radix>> \o digits[v \div radix]
    IN  IF value = 0 THEN <<0>> ELSE strrev(digits[value])

\* %u, %d and %#x of printf, of a word of WIDTH bits.
Unsigned(v) == v % 2 ^ WIDTH

format_u(v) == itoa(Unsigned(v), 10)

format_d(v) == IF v < 0 THEN <<MinusSign>> \o itoa(Unsigned(-v), 10) ELSE itoa(v, 10)

\* The zeros are put before the digits, from the length of the number on.
PadFrom(length) == length

format_x8(v) ==
    LET digits == itoa(Unsigned(v), 16)
        width == WIDTH \div 4
    IN  [i \in 1 .. width - PadFrom(strlen(digits)) |-> 0] \o digits

-----------------------------------------------------------------------------

StopsAt(s1, s2, i) == CharAt(s1, i) # CharAt(s2, i) \/ CharAt(s1, i) = NULCHAR

strncmp(s1, s2, n) ==
    LET stops == {i \in 0 .. n - 1 : StopsAt(s1, s2, i)}
        first == CHOOSE i \in stops : \A j \in stops : i <= j
    IN  IF stops = {} THEN 0 ELSE int8(CharAt(s1, first)) - int8(CharAt(s2, first))

\* ece391_strncmp, which counts n down to 0 and tests it behind the NUL.
ece391_strncmp(s1, s2, n) ==
    LET loop[i \in 0 .. n] ==
            IF CharAt(s1, i) # CharAt(s2, i) THEN CharAt(s1, i) - CharAt(s2, i)
            ELSE IF CharAt(s1, i) = NULCHAR \/ i + 1 = n THEN 0
            ELSE loop[i + 1]
    IN  IF n = 0 THEN 0 ELSE loop[0]

ece391_strcmp(s1, s2) ==
    LET i == CHOOSE j \in 0 .. Len(s1) : StopsAt(s1, s2, j) /\ \A k \in 0 .. j - 1 : ~StopsAt(s1, s2, k)
    IN  CharAt(s1, i) - CharAt(s2, i)

\* A buffer is a function on 0 .. its size - 1.  What the copies leave in it.
strcpy(dest, src) ==
    [i \in DOMAIN dest |-> IF i <= Len(src) THEN CharAt(src, i) ELSE dest[i]]

\* Copies until the NUL or n, then fills up with NULs: no NUL if src is longer.
strncpy(dest, src, n) ==
    [i \in DOMAIN dest |-> IF i < n THEN CharAt(src, i) ELSE dest[i]]
=============================================================================
