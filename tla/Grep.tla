-------------------------------- MODULE Grep --------------------------------
(***************************************************************************)
(* The program grep (ece391grep.c): it reads the files of the directory    *)
(* piece by piece into a buffer that is shorter than a file, and moves an  *)
(* unfinished line to the front before it reads on.  The steps are         *)
(* operators on a record of the variables of main and do_one_file.         *)
(*                                                                         *)
(* Files have no NUL characters.  The buffer is not initialised (garbage), *)
(* and no read reaches data[BUFSIZE], which l.33 looks at.                 *)
(***************************************************************************)
EXTENDS Integers, Sequences

CONSTANTS BUFSIZE

Newline == "NL"
NUL == "NUL"

\* The directory: itself, the clock and the file.
Directory == <<".", "rtc", "file">>
BytesOf(g) == IF Directory[g.entry] = "file" THEN g.content ELSE <<>>

\* main reads the next name, passes over directories, and opens the file.
next_entry(g) ==
    LET e == g.entry + 1
    IN  [g EXCEPT !.entry = e, !.last = 0, !.position = 0,
                  !.pc = IF e > Len(Directory) THEN "done"
                         ELSE IF Directory[e] = "." THEN "main" ELSE "read"]

\* Mutant: the piece is read to the front of the buffer.
ReadAt_Front(g) == 0

ReadAt(g) == g.last

\* cnt = read(fd, data + last, BUFSIZE - last): short only at the end.
read(g) ==
    LET left == Len(BytesOf(g)) - g.position
        n == IF left < BUFSIZE - g.last THEN left ELSE BUFSIZE - g.last
        at == ReadAt(g)
    IN  [g EXCEPT !.cnt = n, !.last = @ + n, !.position = @ + n,
                  !.line_start = 0, !.pc = "scan",
                  !.data = [i \in 0 .. BUFSIZE |->
                               IF i \in at .. at + n - 1
                               THEN BytesOf(g)[g.position + 1 + i - at] ELSE g.data[i]]]

\* The first newline from line_start on, or last.
line_end(g) ==
    LET ends == {i \in g.line_start .. g.last - 1 : g.data[i] = Newline}
    IN  IF ends = {} THEN g.last ELSE CHOOSE i \in ends : \A j \in ends : i <= j

\* The line goes on in the next piece; one that fills the buffer is cut.
Unfinished(g) == g.data[line_end(g)] # Newline /\ g.cnt # 0 /\ g.line_start # 0

\* The line is moved to the front, and its NUL with it.
move_down(g) ==
    LET n == line_end(g) - g.line_start
        ended == [g.data EXCEPT ![line_end(g)] = NUL]
    IN  [g EXCEPT !.last = @ - g.line_start, !.pc = "read",
                  !.data = [i \in 0 .. BUFSIZE |->
                               IF i <= n THEN ended[g.line_start + i] ELSE ended[i]]]

\* strncmp at some place of the line; the NUL behind it differs.
Found(line, search) ==
    \E check \in 1 .. Len(line) - Len(search) + 1 :
        SubSeq(line, check, check + Len(search) - 1) = search

\* The line is searched and printed; behind the last one the piece is done.
search_line(g) ==
    LET end == line_end(g)
        line == [i \in 1 .. end - g.line_start |-> g.data[g.line_start + i - 1]]
        over == end + 1 >= g.last
    IN  [g EXCEPT !.printed = IF Found(line, g.search) THEN Append(@, line) ELSE @,
                  !.data[end] = NUL, !.line_start = end + 1,
                  !.last = IF over THEN 0 ELSE @,
                  !.pc = IF ~over THEN @ ELSE IF g.cnt = 0 THEN "main" ELSE "read"]

RECURSIVE Finish(_)
Finish(g) ==
    CASE g.pc = "main" -> Finish(next_entry(g))
      [] g.pc = "read" -> Finish(read(g))
      [] g.pc = "scan" -> Finish(IF Unfinished(g) THEN move_down(g) ELSE search_line(g))
      [] g.pc = "done" -> g.printed

\* The lines main prints, each behind the name of its file.  No argument, no
\* search.
main(content, search, garbage) ==
    Finish([content |-> content, search |-> search, entry |-> 0, last |-> 0, cnt |-> 0,
            line_start |-> 0, position |-> 0, data |-> [i \in 0 .. BUFSIZE |-> garbage],
            printed |-> <<>>, pc |-> IF search = <<>> THEN "done" ELSE "main"])
=============================================================================
