----------------------------- MODULE MCTeletype -----------------------------
(***************************************************************************)
(* terminal_write against a reference: the text written so far on endless  *)
(* paper, of which the screen shows the last NUM_ROWS rows.                *)
(***************************************************************************)
EXTENDS Teletype, Calls

CONSTANTS MaxText,      \* the longest text of a run
          MaxWord       \* the longest word typed and erased

\* A line that is edited leaves a row of the screen free: the buffer of the
\* keyboard has 128 characters, the screen 25 rows of 80.
ASSUME WordAssumption ==
    /\ MaxText \in Nat /\ MaxWord \in Nat
    /\ MaxWord <= NUM_COLS * (NUM_ROWS - 1)

ShortTexts(max) == UNION {[1 .. n -> {"a", "1", Newline}] : n \in 0 .. max}

EmptyScreen == [x |-> 0, y |-> 0, cells |-> BlankPage]

CallWrite ==
    \E text \in ShortTexts(MaxText) :
        Does([op |-> "terminal_write", text |-> text], terminal_write(EmptyScreen, text))

\* One backspace for every character of a word.
erased_char(s, c) == backspace_pressed(s)

\* A word is typed after the text, and erased.
CallErase ==
    \E text \in ShortTexts(MaxText - MaxWord), n \in 1 .. MaxWord :
        LET word == [i \in 1 .. n |-> "1"]
            typed == terminal_write(EmptyScreen, text \o word)
        IN  Does([op |-> "backspace_pressed", text |-> text, word |-> word],
                 EachChar(erased_char, typed, word))

\* The place on the paper of the character after the first n.
Place(text) ==
    LET at[n \in 0 .. Len(text)] ==
            IF n = 0 THEN <<0, 0>>
            ELSE LET p == at[n - 1]
                 IN  IF text[n] = Newline \/ p[2] = NUM_COLS - 1 THEN <<p[1] + 1, 0>>
                     ELSE <<p[1], p[2] + 1>>
    IN  at

\* The first row of the paper that is on the screen once text was written.
Top(text) ==
    LET last == Place(text)[Len(text)][1]
    IN  IF last < NUM_ROWS THEN 0 ELSE last - (NUM_ROWS - 1)

\* The screen shows the paper with this text from row top on, and the cursor
\* stands behind its last character.
Shows(s, text, top) ==
    LET place == Place(text)
        at(r, c) == {n \in 1 .. Len(text) : text[n] # Newline /\ place[n - 1] = <<top + r, c>>}
    IN  /\ \A r \in Rows, c \in Cols :
              s.cells[<<r, c>>] =
                  IF at(r, c) = {} THEN Blank ELSE text[CHOOSE n \in at(r, c) : TRUE]
        /\ <<top + s.y, s.x>> = place[Len(text)]

\* Whatever is written, the screen shows the end of the text, wrapped at the
\* last column, and the cursor stands behind its last character
\* (terminal_write, putc, scroll_screen).
ShowsEndOfText ==
    call.op = "terminal_write" => Shows(result, call.text, Top(call.text))

\* A word that was typed and erased, over the end of a row too, leaves what
\* was there before; only the scrolling stays (backspace_pressed).
ErasesTyped ==
    call.op = "backspace_pressed" => Shows(result, call.text, Top(call.text \o call.word))

\* A terminal shows what was written and typed and not erased again.
TextIsShown == ShowsEndOfText /\ ErasesTyped
=============================================================================
