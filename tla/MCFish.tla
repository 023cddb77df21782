------------------------------- MODULE MCFish -------------------------------
(***************************************************************************)
(* add_frames on every pair of frame files of at most MaxFrame characters, *)
(* against where the two pictures have their characters.                   *)
(***************************************************************************)
EXTENDS Integers, Sequences, Calls

CONSTANTS MaxFrame

F == INSTANCE Fish

Frames == UNION {[1 .. n -> {"a", F!Space, F!Newline}] : n \in 0 .. MaxFrame}

CallFish ==
    \E content \in [F!Files -> Frames] :
        Does([op |-> "add_frames", content |-> content], F!add_frames(content))

\* Where a text has a character: its row is the number of newlines before it.
NewlinesBefore(text, i) == {j \in 1 .. i - 1 : text[j] = F!Newline}
RowStart(text, i) ==
    LET before == NewlinesBefore(text, i)
    IN  IF before = {} THEN 0 ELSE CHOOSE j \in before : \A k \in before : k <= j
RowOf(text, i) == Len(SelectSeq(SubSeq(text, 1, i - 1), LAMBDA ch : ch = F!Newline))
PictureAt(text, r, k) ==
    LET at == {i \in 1 .. Len(text) :
                  text[i] # F!Newline /\ RowOf(text, i) = r /\ i - RowStart(text, i) = k + 1}
    IN  IF at = {} THEN F!Space ELSE text[CHOOSE i \in at : TRUE]

\* When add_frames is done, every place where one of the two pictures has a
\* character blinks between their characters and no other place does, however
\* the lengths of the rows and the numbers of rows differ and whether or not
\* the files end with a newline; and both files have been closed.
FramesMatch ==
    call.op = "add_frames" =>
        LET on(p) == PictureAt(call.content[0], p[1], p[2])
            off(p) == PictureAt(call.content[1], p[1], p[2])
            drawn == {p \in (0 .. MaxFrame) \X (0 .. MaxFrame) :
                         on(p) # F!Space \/ off(p) # F!Space}
        IN  /\ result.cells = {[row |-> p[1], col |-> p[2], on |-> on(p), off |-> off(p)] :
                                  p \in drawn}
            /\ result.closed = F!Files
=============================================================================
