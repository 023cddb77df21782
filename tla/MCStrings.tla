----------------------------- MODULE MCStrings -----------------------------
(***************************************************************************)
(* The operators of Strings against what they are for, over every number   *)
(* of WIDTH bits and every pair of short strings.                          *)
(***************************************************************************)
EXTENDS Strings, Calls

CONSTANTS MaxLen        \* of a string

\* The last of the characters is a negative number to the kernel.
Text == UNION {[1 .. n -> {1, 127, 128}] : n \in 0 .. MaxLen}
Values == -(2 ^ (WIDTH - 1)) .. 2 ^ WIDTH - 1
Radixes == {2, 10, 16}
Buffer == [i \in 0 .. MaxLen + 1 |-> 9]

CallNumber ==
    \E v \in Values :
        \/ \E radix \in Radixes :
             Does([op |-> "itoa", v |-> Unsigned(v), radix |-> radix], itoa(Unsigned(v), radix))
        \/ Does([op |-> "%u", v |-> v], format_u(v))
        \/ v < 2 ^ (WIDTH - 1) /\ Does([op |-> "%d", v |-> v], format_d(v))
        \/ Does([op |-> "%#x", v |-> v], format_x8(v))

CallCompare ==
    \E s1, s2 \in Text :
        \/ \E n \in 0 .. MaxLen + 1 :
             Does([op |-> "strncmp", s1 |-> s1, s2 |-> s2, n |-> n],
                  <<strncmp(s1, s2, n), ece391_strncmp(s1, s2, n)>>)
        \/ Does([op |-> "strcmp", s1 |-> s1, s2 |-> s2], <<ece391_strcmp(s1, s2)>>)

CallCopy ==
    \E s \in Text :
        \/ \E n \in 0 .. MaxLen + 2 :
             Does([op |-> "strncpy", s1 |-> s, n |-> n], <<strncpy(Buffer, s, n)>>)
        \/ Does([op |-> "strcpy", s1 |-> s, n |-> 0], <<strcpy(Buffer, s)>>)

-----------------------------------------------------------------------------

\* The number a sequence of digits stands for.
ValueOf(digits, radix) ==
    LET v[i \in 0 .. Len(digits)] == IF i = 0 THEN 0 ELSE radix * v[i - 1] + digits[i]
    IN  v[Len(digits)]

IsNumeral(digits, radix, value) ==
    /\ \A i \in 1 .. Len(digits) : digits[i] \in 0 .. radix - 1
    /\ ValueOf(digits, radix) = value

\* itoa writes the numeral of its value, without a leading zero, and printf's
\* %u, %d and %#x the number they are given: %d for every negative number, the
\* smallest included, and %#x with all its digits.
NumeralsAreRight ==
    /\ call.op = "itoa" =>
         /\ IsNumeral(result, call.radix, call.v)
         /\ Len(result) >= 1 /\ (Len(result) > 1 => result[1] # 0)
    /\ call.op = "%u" => IsNumeral(result, 10, Unsigned(call.v))
    /\ call.op = "%d" =>
         IF call.v < 0 THEN result[1] = MinusSign /\ IsNumeral(Tail(result), 10, -call.v)
         ELSE IsNumeral(result, 10, call.v)
    /\ call.op = "%#x" => Len(result) = WIDTH \div 4 /\ IsNumeral(result, 16, Unsigned(call.v))

\* The first difference, characters being ordered by their number.
Before(s, t, number(_)) ==
    \E i \in 0 .. Len(s) : /\ \A j \in 0 .. i - 1 : CharAt(s, j) = CharAt(t, j)
                           /\ number(CharAt(s, i)) < number(CharAt(t, i))

Agrees(value, s, t, number(_)) ==
    /\ value = 0 <=> s = t
    /\ value < 0 <=> Before(s, t, number)

uint8(c) == c

\* strncmp agrees with the order of strings on the first n characters, whichever
\* string is shorter: the kernel's with characters as signed numbers, the
\* programs' own, and their strcmp, with unsigned ones.  The two say equal of the
\* same strings, and give the same value while the characters are below 0x80.
ComparesStrings ==
    LET cut(s) == SubSeq(s, 1, IF call.n < Len(s) THEN call.n ELSE Len(s))
        low(s) == \A i \in 1 .. Len(s) : s[i] < 128
    IN  /\ call.op = "strncmp" =>
             /\ Agrees(result[1], cut(call.s1), cut(call.s2), int8)
             /\ Agrees(result[2], cut(call.s1), cut(call.s2), uint8)
             /\ low(call.s1) /\ low(call.s2) => result[1] = result[2]
        /\ call.op = "strcmp" => Agrees(result[1], call.s1, call.s2, uint8)

\* The string a reader of the buffer finds: up to the first NUL, or all of it.
ReadBack(buffer) ==
    LET nul == {i \in DOMAIN buffer : buffer[i] = NULCHAR} \cup {MaxLen + 2}
        end == CHOOSE i \in nul : \A j \in nul : i <= j
    IN  [i \in 1 .. end |-> buffer[i - 1]]

\* A string copied with room for its NUL is read back unchanged, whatever was
\* in the buffer, and nothing behind the room the caller gave is written: how
\* execute keeps an argument and getargs hands it out.
CopiesStrings ==
    call.op \in {"strcpy", "strncpy"} =>
        LET room == IF call.op = "strcpy" THEN Len(call.s1) + 1 ELSE call.n
        IN  /\ room > Len(call.s1) => ReadBack(result[1]) = call.s1
            /\ \A i \in DOMAIN Buffer : i >= room => result[1][i] = Buffer[i]

\* The string routines of the kernel and of the programs give what their names
\* promise, at every boundary of number, length and buffer.
StringsAreRight == NumeralsAreRight /\ ComparesStrings /\ CopiesStrings
=============================================================================
