------------------------------- MODULE Memory -------------------------------
(***************************************************************************)
(* memset, memset_word, memset_dword, memcpy and memmove of lib.c: inline  *)
(* assembly, modelled instruction by instruction where the memory or the   *)
(* registers that steer the loops change, as steps on a record of memory   *)
(* and registers.  memset and memcpy go byte by byte to a word boundary,   *)
(* then word by word, then byte by byte.                                   *)
(***************************************************************************)
EXTENDS Integers

CONSTANTS SIZE          \* the bytes of memory, addressed 0 .. SIZE - 1

ASSUME MemoryAssumption == SIZE \in Nat \ {0}

Word == 4
Addresses == 0 .. SIZE - 1
Filled == SIZE          \* a byte value the memory does not hold at first

Copies(op) == op \in {"memcpy", "memmove"}
UnitOf(op) == CASE op = "memset_word" -> 2 [] op = "memset_dword" -> 4 [] OTHER -> 1

\* A routine is entered; touched is a history of the places it stores to.
\* The direction flag is what the last routine left: memmove leaves it set.
Enter(op, dest, src, n, at, backward) ==
    [op |-> op, pc |-> at, mem |-> [a \in Addresses |-> a], touched |-> {},
     edi |-> dest, esi |-> src, ecx |-> n, edx |-> 0, backward |-> backward]

Load(s, a) == IF a \in Addresses THEN s.mem[a] ELSE Filled

\* One store at edi, of the fill value or of what is at esi, and the move of
\* the pointers behind it.
Store(s, width, back) ==
    LET here == s.edi .. s.edi + width - 1
        move == IF back THEN -width ELSE width
    IN  [s EXCEPT !.mem = [a \in Addresses |->
                              IF a \notin here THEN s.mem[a]
                              ELSE IF Copies(s.op) THEN Load(s, s.esi + (a - s.edi))
                              ELSE Filled],
                  !.touched = @ \cup here, !.edi = @ + move, !.esi = @ + move]

\* Mutant: the direction flag stays as the last routine left it.
cld_Missing(s) == s

cld(s) == [s EXCEPT !.backward = FALSE]

\* What the words leave.
BottomBytes(n) == n % Word

\* The label top: to the next word boundary byte by byte.
top(s) ==
    IF s.ecx = 0 THEN [s EXCEPT !.pc = "done"]
    ELSE IF s.edi % Word # 0 THEN [Store(s, 1, FALSE) EXCEPT !.ecx = @ - 1]
    ELSE cld([s EXCEPT !.pc = "words", !.edx = BottomBytes(s.ecx), !.ecx = @ \div Word])

\* rep stosl and rep movsl: a word for each count.
words(s) ==
    IF s.ecx = 0 THEN [s EXCEPT !.pc = "bottom"]
    ELSE [Store(s, Word, s.backward) EXCEPT !.ecx = @ - 1]

\* The label bottom: the rest.
bottom(s) ==
    IF s.edx = 0 THEN [s EXCEPT !.pc = "done"]
    ELSE [Store(s, 1, FALSE) EXCEPT !.edx = @ - 1]

\* rep stosw, rep stosl and rep movsb with the direction flag as it was set.
rep(s) ==
    IF s.ecx = 0 THEN [s EXCEPT !.pc = "done"]
    ELSE [Store(s, UnitOf(s.op), s.backward) EXCEPT !.ecx = @ - 1]

RECURSIVE Finish(_)
Finish(s) ==
    CASE s.pc = "top" -> Finish(top(s))
      [] s.pc = "words" -> Finish(words(s))
      [] s.pc = "bottom" -> Finish(bottom(s))
      [] s.pc = "rep" -> Finish(rep(s))
      [] s.pc = "done" -> s

-----------------------------------------------------------------------------
(* The routines: the memory they leave, with the flag back they found.     *)

memset(s, n, back) == Finish(Enter("memset", s, 0, n, "top", back))

memcpy(dest, src, n, back) == Finish(Enter("memcpy", dest, src, n, "top", back))

\* The word forms: cld, then one store per count.
memset_word(s, n, back) == Finish(cld(Enter("memset_word", s, 0, n, "rep", back)))
memset_dword(s, n, back) == Finish(cld(Enter("memset_dword", s, 0, n, "rep", back)))

\* From the end (std) if the source is below the destination.
memmove(dest, src, n, back) ==
    IF src >= dest THEN Finish(cld(Enter("memmove", dest, src, n, "rep", back)))
    ELSE Finish(Enter("memmove", dest + n - 1, src + n - 1, n, "rep", TRUE))
=============================================================================
