-------------------------------- MODULE Fish --------------------------------
(***************************************************************************)
(* The program fish (fish.c), which animates two text files: add_frames    *)
(* reads them a character at a time, side by side, and gives every place   *)
(* where one of them has a character a blinking cell.  The steps are       *)
(* operators on a record of its variables.  The cells themselves are MP1's *)
(* (blink.S) and external: here a set.  Both files are in the image, so    *)
(* that neither open fails.                                                *)
(***************************************************************************)
EXTENDS Integers, Sequences

Newline == "NL"
Space == " "
Files == {0, 1}

\* Mutant: a file whose row has ended is read on.
Reads_Always(s, f) == TRUE

\* A file whose row has ended waits for the other one.
Reads(s, f) == s.c[f] # Newline

\* read(fd, &c, 1): the end of the file ends its row.
AtEnd(s, f) == s.position[f] = Len(s.content[f])
NextChar(s, f) ==
    IF ~Reads(s, f) THEN s.c[f]
    ELSE IF AtEnd(s, f) THEN Newline ELSE s.content[f][s.position[f] + 1]

Shown(ch) == IF ch = Newline THEN Space ELSE ch

\* The outer loop: until both files are at their end.
begin_row(s) ==
    [s EXCEPT !.col = 0, !.pc = IF \E f \in Files : ~s.eof[f] THEN "column" ELSE "done"]

\* One round of the inner loop.
column(s) ==
    LET next == [f \in Files |-> NextChar(s, f)]
        cell == [row |-> s.row, col |-> s.col, on |-> Shown(next[0]), off |-> Shown(next[1])]
        t == [s EXCEPT !.c = next,
                       !.position = [f \in Files |-> IF Reads(s, f) /\ ~AtEnd(s, f)
                                                     THEN @[f] + 1 ELSE @[f]],
                       !.eof = [f \in Files |-> @[f] \/ (Reads(s, f) /\ AtEnd(s, f))]]
    IN  IF \A f \in Files : next[f] = Newline THEN [t EXCEPT !.pc = "next row"]
        ELSE [t EXCEPT !.col = @ + 1,
                       !.cells = IF cell.on # Space \/ cell.off # Space THEN @ \cup {cell} ELSE @]

\* A file at its end is closed, once more with every row.
next_row(s) ==
    [s EXCEPT !.c = [f \in Files |-> IF s.eof[f] THEN Newline ELSE "0"],
              !.closed = @ \cup {f \in Files : s.eof[f]},
              !.row = @ + 1, !.pc = "row"]

RECURSIVE Finish(_)
Finish(s) ==
    CASE s.pc = "row" -> Finish(begin_row(s))
      [] s.pc = "column" -> Finish(column(s))
      [] s.pc = "next row" -> Finish(next_row(s))
      [] s.pc = "done" -> s

\* What add_frames adds, and the files it has closed, when it is done.
add_frames(content) ==
    Finish([content |-> content, position |-> [f \in Files |-> 0],
            c |-> [f \in Files |-> "0"], eof |-> [f \in Files |-> FALSE],
            row |-> 0, col |-> 0, cells |-> {}, closed |-> {}, pc |-> "row"])
=============================================================================
