------------------------------ MODULE MCMemory ------------------------------
(***************************************************************************)
(* The routines of Memory for every area of a small memory, with the       *)
(* direction flag as any routine before may have left it.                  *)
(***************************************************************************)
EXTENDS Memory, Calls

\* The callers stay inside the memory they own; memcpy's areas are disjoint.
Fits(a, n) == a + n <= SIZE
Disjoint(a, b, n) == a + n <= b \/ b + n <= a

Args(op, dest, src, n) == [op |-> op, dest |-> dest, src |-> src, n |-> n]

CallMemory ==
    \E dest \in Addresses, n \in 0 .. SIZE, back \in BOOLEAN :
        \/ Fits(dest, n) /\ Does(Args("memset", dest, 0, n), memset(dest, n, back))
        \/ Fits(dest, 2 * n) /\ Does(Args("memset_word", dest, 0, n), memset_word(dest, n, back))
        \/ Fits(dest, 4 * n) /\ Does(Args("memset_dword", dest, 0, n), memset_dword(dest, n, back))
        \/ \E src \in Addresses :
             /\ Fits(dest, n) /\ Fits(src, n)
             /\ \/ /\ Disjoint(dest, src, n)
                   /\ Does(Args("memcpy", dest, src, n), memcpy(dest, src, n, back))
                \/ Does(Args("memmove", dest, src, n), memmove(dest, src, n, back))

MemoryCall == call.op \in {"memset", "memset_word", "memset_dword", "memcpy", "memmove"}
Target == call.dest .. call.dest + UnitOf(call.op) * call.n - 1

\* When a routine ends, the bytes it was asked for, and only those, are what it
\* was asked to make them: whatever the alignment of the area and its length,
\* and for memmove however the two areas overlap and whichever way the last
\* routine left the direction flag.  At no moment is a byte outside the area
\* written, inside the memory or beyond it.
DoneRight ==
    MemoryCall =>
        /\ result.mem = [a \in Addresses |->
                            IF a \notin Target THEN a
                            ELSE IF Copies(call.op) THEN a - call.dest + call.src
                            ELSE Filled]
        /\ result.touched \subseteq Target
=============================================================================
