------------------------------ MODULE Teletype ------------------------------
(***************************************************************************)
(* Drawing on one screen (lib.c, terminal_write of terminal.c) as          *)
(* operators on a record: the cursor x, y and the cells.  Every kernel     *)
(* routine here works on the terminal terminal_num names; Screen says      *)
(* which that is.  Colours are left out.                                   *)
(*                                                                         *)
(* Cells reach one row below the screen: a 4 KB page has room there, and   *)
(* putc draws there when the cursor has left the screen.                   *)
(***************************************************************************)
EXTENDS Integers, Sequences

CONSTANTS NUM_ROWS, NUM_COLS    \* 25, 80

ASSUME TeletypeAssumption == NUM_ROWS \in Nat \ {0, 1} /\ NUM_COLS \in Nat \ {0}

Rows == 0 .. NUM_ROWS - 1
Cols == 0 .. NUM_COLS - 1
Cells == (0 .. NUM_ROWS) \X Cols

Blank == " "
Newline == "NL"
Glyph == "l"            \* what a program stores through vidmap
BlankPage == [c \in Cells |-> Blank]

OnScreen(s) == s.y \in Rows /\ s.x \in Cols

putc(s, c) ==
    IF c = Newline
    THEN [x |-> 0, y |-> s.y + 1, cells |-> s.cells]
    ELSE [x |-> (s.x + 1) % NUM_COLS,
          y |-> (s.y + (s.x + 1) \div NUM_COLS) % NUM_ROWS,
          cells |-> [s.cells EXCEPT ![<<s.y, s.x>>] = c]]

SCROLL_ENTER_PRESSED == 1
SCROLL_LAST_LETTER == 2

check_out_of_bound(s) ==
    IF s.y # NUM_ROWS - 1 THEN 0
    ELSE IF s.x = NUM_COLS - 1 THEN SCROLL_LAST_LETTER
    ELSE SCROLL_ENTER_PRESSED

scroll_screen(s) ==
    [x |-> s.x, y |-> s.y - 1,
     cells |-> [c \in Cells |->
                  IF c[1] < NUM_ROWS - 1 THEN s.cells[<<c[1] + 1, c[2]>>]
                  ELSE IF c[1] = NUM_ROWS - 1 THEN Blank
                  ELSE s.cells[c]]]

\* Mutant: the corner is not looked at, as in puts.
write_char_NoCorner(s, c) ==
    putc(IF check_out_of_bound(s) = SCROLL_ENTER_PRESSED /\ c = Newline
         THEN scroll_screen(s) ELSE s, c)

\* One round of the loop of terminal_write: two tests, each on the state the
\* one before left.
write_char(s, c) ==
    LET s1 == IF check_out_of_bound(s) = SCROLL_ENTER_PRESSED /\ c = Newline
              THEN scroll_screen(s) ELSE s
        s2 == IF check_out_of_bound(s1) = SCROLL_LAST_LETTER
              THEN scroll_screen(s1) ELSE s1
    IN  putc(s2, c)

\* The loops over a text, one round for every character.
EachChar(round(_, _), s, text) ==
    LET after[n \in 0 .. Len(text)] ==
            IF n = 0 THEN s ELSE round(after[n - 1], text[n])
    IN  after[Len(text)]

terminal_write(s, text) == EachChar(write_char, s, text)

\* printf and puts scroll at most once, before the first character.
printf(s, text) ==
    EachChar(putc, IF check_out_of_bound(s) # 0 THEN scroll_screen(s) ELSE s, text)

\* Mutant: the wrap to the row above is off by one.
backspace_pressed_Short(s) ==
    LET y == IF s.x = 0 /\ s.y > 0 THEN s.y - 1 ELSE s.y
        x == IF s.x > 0 THEN s.x - 1 ELSE 0
    IN  [x |-> x, y |-> y, cells |-> [s.cells EXCEPT ![<<y, x>>] = Blank]]

backspace_pressed(s) ==
    LET y == IF s.x = 0 /\ s.y > 0 THEN s.y - 1 ELSE s.y
        x == IF s.x > 0 THEN s.x - 1 ELSE IF s.y > 0 THEN NUM_COLS - 1 ELSE 0
    IN  [x |-> x, y |-> y, cells |-> [s.cells EXCEPT ![<<y, x>>] = Blank]]

clear(s) ==
    [s EXCEPT !.cells = [c \in Cells |-> IF c[1] \in Rows THEN Blank ELSE s.cells[c]]]

reset_screen(s) == [x |-> 0, y |-> 0, cells |-> s.cells]
=============================================================================
