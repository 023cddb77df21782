---------------------------- MODULE ScreenProofs ----------------------------
(***************************************************************************)
(* Proofs about the drawing routines and about the pages of the terminals, *)
(* for every number of terminals, size of the screen and set of texts.     *)
(* First what the drawing routines do to the cursor, the cells and the     *)
(* line before the cursor; then that a screen shows the end of what was    *)
(* written and not erased; and last who owns the pages, and which steps of *)
(* Screens the actions of Screen are.                                      *)
(***************************************************************************)
EXTENDS Screen, MCTeletype, WellFoundedInduction, TLAPS

-----------------------------------------------------------------------------
(* Induction, with a set where the library has an operator *)

\* Every loop of limeOS that searches from the bottom up finds the least index
\* there is: a set of natural numbers that is not empty has a least element.
LEMMA LeastNat ==
    ASSUME NEW S \in SUBSET Nat, S # {}
    PROVE  \E m \in S : \A k \in S : m <= k
<1>1. \E R : /\ IsWellFoundedOn(R, Nat)
             /\ \A x, y \in Nat : y < x => <<y, x>> \in R
  <2>1. \A x, y \in Nat : y < x => <<y, x>> \in OpToRel(<, Nat)
    BY Zenon DEF OpToRel
  <2>2. QED
    BY <2>1, NatLessThanWellFounded, Zenon
<1>2. PICK R : /\ IsWellFoundedOn(R, Nat)
               /\ \A x, y \in Nat : y < x => <<y, x>> \in R
  BY <1>1, Zenon
<1>3. PICK x \in S : \A y \in S : ~(<<y, x>> \in R)
  BY <1>2, WFMin, Zenon
<1>4. \A k \in S : ~(k < x)
  BY <1>2, <1>3, Zenon
<1>5. QED
  BY <1>4

\* A loop that counts up keeps what its first round has and every round hands
\* to the next: a set that holds 0, and n + 1 with n, holds every number.
LEMMA NatSetInduction ==
    ASSUME NEW S, 0 \in S, \A n \in Nat : n \in S => n + 1 \in S
    PROVE  Nat \subseteq S
<1> DEFINE T == Nat \ S
<1>1. SUFFICES ASSUME T # {} PROVE FALSE
  BY Zenon
<1>2. PICK m \in T : \A k \in T : m <= k
  BY <1>1, LeastNat, Zenon
<1>3. m # 0 /\ m \in Nat /\ m - 1 \in Nat /\ m - 1 \notin T
  BY <1>2
<1>4. m - 1 \in S /\ (m - 1) + 1 = m
  BY <1>3
<1>5. QED
  BY <1>2, <1>3, <1>4, Zenon

\* The states f of a loop that starts from b and goes n rounds, each from one
\* state in S to the next by g.
IsLoop(f, S, b, g, n) ==
    /\ f \in [0 .. n -> S]
    /\ f[0] = b
    /\ \A i \in 1 .. n : f[i] = g[i][f[i - 1]]

\* Every such loop has states.
LEMMA LoopExists ==
    ASSUME NEW S, NEW b \in S, NEW g \in [Nat -> [S -> S]], NEW n \in Nat
    PROVE  \E f : IsLoop(f, S, b, g, n)
<1> DEFINE P(f, m) == f[0] = b /\ \A i \in 1 .. m : f[i] = g[i][f[i - 1]]
           T == {m \in Nat : \E f \in [0 .. m -> S] : P(f, m)}
<1>1. 0 \in T
  <2>1. [i \in 0 .. 0 |-> b] \in [0 .. 0 -> S] /\ P([i \in 0 .. 0 |-> b], 0)
    OBVIOUS
  <2>2. QED
    BY <2>1, Zenon
<1>2. ASSUME NEW m \in Nat, m \in T PROVE m + 1 \in T
  <2>1. PICK f \in [0 .. m -> S] : P(f, m)
    BY <1>2, Zenon
  <2> DEFINE h == [i \in 0 .. m + 1 |-> IF i <= m THEN f[i] ELSE g[m + 1][f[m]]]
  <2>2. h \in [0 .. m + 1 -> S]
    BY <2>1
  <2>3. h[0] = b
    BY <2>1
  <2>4. ASSUME NEW i \in 1 .. m + 1 PROVE h[i] = g[i][h[i - 1]]
    <3>1. i - 1 \in 0 .. m /\ h[i - 1] = f[i - 1]
      BY <2>1
    <3>2. CASE i <= m
      BY <2>1, <3>1, <3>2
    <3>3. CASE i = m + 1
      BY <2>1, <3>1, <3>3
    <3>4. QED
      BY <3>2, <3>3
  <2> HIDE DEF h
  <2>5. P(h, m + 1)
    BY <2>3, <2>4, Zenon
  <2>6. QED
    BY <2>2, <2>5
<1> HIDE DEF T
<1>3. Nat \subseteq T
  BY <1>1, <1>2, NatSetInduction, Zenon
<1>4. n \in T
  BY <1>3, Zenon
<1>5. QED
  BY <1>4, Zenon DEF T, IsLoop

\* And whatever describes those states stays in S.
LEMMA LoopStays ==
    ASSUME NEW S, NEW f, NEW n \in Nat, f[0] \in S,
           \A i \in 1 .. n : f[i - 1] \in S => f[i] \in S
    PROVE  \A i \in 0 .. n : f[i] \in S
<1> DEFINE T == {m \in Nat : m <= n => f[m] \in S}
<1>1. 0 \in T
  BY Zenon
<1>2. ASSUME NEW m \in Nat, m \in T PROVE m + 1 \in T
  <2>1. CASE m + 1 <= n
    <3>1. f[m] \in S /\ m + 1 \in 1 .. n /\ (m + 1) - 1 = m
      BY <1>2, <2>1
    <3>2. f[m + 1] \in S
      BY <3>1, Zenon
    <3>3. QED
      BY <3>2
  <2>2. CASE ~(m + 1 <= n)
    BY <2>2
  <2>3. QED
    BY <2>1, <2>2, Zenon
<1> HIDE DEF T
<1>3. Nat \subseteq T
  BY <1>1, <1>2, NatSetInduction, Zenon
<1>4. QED
  BY <1>3 DEF T

-----------------------------------------------------------------------------
(* Rows, columns and positions *)

\* What a screen can be.
Sheets == [x : Cols, y : Nat, cells : [Cells -> Symbols]]

\* The place of the cursor, and the cell in a place, counted along the rows as
\* putc counts them.
PosOf(s) == s.y * NUM_COLS + s.x
PlaceOf(q) == <<q \div NUM_COLS, q % NUM_COLS>>

\* The first n characters of b stand before the cursor.
HasLine(s, n, b) ==
    \A i \in 1 .. n : i <= PosOf(s) => s.cells[PlaceOf(PosOf(s) - i)] = b[n - i][1]

\* The size of a screen.
LEMMA Sizes ==
    /\ NUM_ROWS \in Nat /\ NUM_ROWS > 1 /\ NUM_COLS \in Nat /\ NUM_COLS > 0
    /\ NUM_ROWS \in Nat \ {0} /\ NUM_COLS \in Nat \ {0}
    /\ 0 \in Cols /\ NUM_COLS - 1 \in Cols /\ 0 \in Rows /\ NUM_ROWS - 1 \in Rows
    /\ \A x \in Cols : x \in Nat /\ x < NUM_COLS
    /\ \A y \in Rows : y \in Nat /\ y < NUM_ROWS
BY TeletypeAssumption DEF Rows, Cols

\* The column after a column, and the row its character goes to (putc).
LEMMA NextColumn ==
    ASSUME NEW x \in Cols
    PROVE  /\ (x + 1) % NUM_COLS = IF x = NUM_COLS - 1 THEN 0 ELSE x + 1
           /\ (x + 1) \div NUM_COLS = IF x = NUM_COLS - 1 THEN 1 ELSE 0
           /\ (x + 1) % NUM_COLS \in Cols /\ (x + 1) \div NUM_COLS \in Nat
<1>1. CASE x = NUM_COLS - 1
  <2>1. NUM_COLS % NUM_COLS = 0 /\ NUM_COLS \div NUM_COLS = 1
    BY Sizes
  <2>2. x + 1 = NUM_COLS
    BY <1>1, Sizes
  <2>3. QED
    BY <1>1, <2>1, <2>2, Sizes DEF Cols
<1>2. CASE x # NUM_COLS - 1
  <2>1. (x + 1) % NUM_COLS = x + 1 /\ (x + 1) \div NUM_COLS = 0
    BY <1>2, Sizes DEF Cols
  <2>2. QED
    BY <1>2, <2>1, Sizes DEF Cols
<1>3. QED
  BY <1>1, <1>2, Zenon

\* A row that is on the screen is not wrapped (putc).
LEMMA RowOnScreen ==
    /\ \A y \in Nat : y % NUM_ROWS \in Rows
    /\ \A y \in Rows : y % NUM_ROWS = y
BY Sizes DEF Rows

\* A row and a column are found again from the place they make.
LEMMA PlaceIs ==
    ASSUME NEW y \in Nat, NEW x \in Cols
    PROVE  y * NUM_COLS + x \in Nat /\ PlaceOf(y * NUM_COLS + x) = <<y, x>>
<1>1. (y * NUM_COLS + x) % NUM_COLS = x /\ (y * NUM_COLS + x) \div NUM_COLS = y
  BY Sizes DEF Cols
<1>2. y * NUM_COLS + x \in Nat
  BY Sizes DEF Cols
<1>3. QED
  BY <1>1, <1>2, Zenon DEF PlaceOf

\* Every place has a row and a column.
LEMMA PlaceHas ==
    ASSUME NEW q \in Nat
    PROVE  \E y \in Nat, x \in Cols : q = y * NUM_COLS + x /\ PlaceOf(q) = <<y, x>>
<1> DEFINE T == {p \in Nat : \E y \in Nat, x \in Cols : p = y * NUM_COLS + x}
<1>1. 0 \in T
  <2>1. 0 = 0 * NUM_COLS + 0 /\ 0 \in Cols /\ 0 \in Nat
    BY Sizes
  <2>2. QED
    BY <2>1, Zenon
<1>2. ASSUME NEW p \in Nat, p \in T PROVE p + 1 \in T
  <2>1. PICK y \in Nat, x \in Cols : p = y * NUM_COLS + x
    BY <1>2, Zenon
  <2>2. CASE x = NUM_COLS - 1
    <3>1. p + 1 = (y + 1) * NUM_COLS + 0 /\ y + 1 \in Nat /\ 0 \in Cols
      BY <2>1, <2>2, Sizes
    <3>2. QED
      BY <3>1
  <2>3. CASE x # NUM_COLS - 1
    <3>1. p + 1 = y * NUM_COLS + (x + 1) /\ x + 1 \in Cols
      BY <2>1, <2>3, Sizes DEF Cols
    <3>2. QED
      BY <3>1
  <2>4. QED
    BY <2>2, <2>3, Zenon
<1> HIDE DEF T
<1>3. Nat \subseteq T
  BY <1>1, <1>2, NatSetInduction, Zenon
<1>4. PICK y \in Nat, x \in Cols : q = y * NUM_COLS + x
  BY <1>3, Zenon DEF T
<1>5. QED
  BY <1>4, PlaceIs, Zenon

\* Places are in the order of rows, and of columns within a row.
LEMMA PlacesInOrder ==
    ASSUME NEW y \in Nat, NEW x \in Cols, NEW z \in Nat, NEW w \in Cols,
           y * NUM_COLS + x < z * NUM_COLS + w
    PROVE  y < z \/ (y = z /\ x < w)
<1>1. x \in Nat /\ w \in Nat /\ x < NUM_COLS /\ w < NUM_COLS /\ NUM_COLS \in Nat
  BY Sizes, Zenon
<1>2. SUFFICES ASSUME y >= z PROVE y = z /\ x < w
  OBVIOUS
<1>3. CASE y = z
  <2>1. z * NUM_COLS \in Nat
    BY <1>1
  <2>2. QED
    BY <1>1, <1>3, <2>1
<1>4. CASE y > z
  <2>1. PICK d \in Nat : y = z + 1 + d
    <3>1. y - z - 1 \in Nat /\ y = z + 1 + (y - z - 1)
      BY <1>4
    <3>2. QED
      BY <3>1, Zenon
  <2>2. y * NUM_COLS = z * NUM_COLS + NUM_COLS + d * NUM_COLS
    BY <1>1, <2>1
  <2>3. d * NUM_COLS \in Nat /\ z * NUM_COLS \in Nat
    BY <1>1
  <2>4. QED
    BY <1>1, <2>2, <2>3
<1>5. QED
  BY <1>2, <1>3, <1>4

-----------------------------------------------------------------------------
(* The drawing routines *)

\* scroll_screen moves every row up.
LEMMA ScrollIs ==
    ASSUME NEW s \in Sheets, s.y = NUM_ROWS - 1
    PROVE  /\ scroll_screen(s) \in Sheets
           /\ scroll_screen(s).y = NUM_ROWS - 2 /\ scroll_screen(s).x = s.x
           /\ \A r \in Nat, c \in Cols : r < NUM_ROWS - 1 =>
                scroll_screen(s).cells[<<r, c>>] = s.cells[<<r + 1, c>>]
<1> DEFINE moved == [c \in Cells |->
                  IF c[1] < NUM_ROWS - 1 THEN s.cells[<<c[1] + 1, c[2]>>]
                  ELSE IF c[1] = NUM_ROWS - 1 THEN Blank
                  ELSE s.cells[c]]
<1>1. moved \in [Cells -> Symbols]
  <2>1. ASSUME NEW c \in Cells PROVE moved[c] \in Symbols
    <3>1. PICK a \in 0 .. NUM_ROWS, b \in Cols : c = <<a, b>>
      BY DEF Cells
    <3>2. a + 1 \in 0 .. NUM_ROWS \/ ~(a < NUM_ROWS - 1)
      BY Sizes
    <3>3. s.cells \in [Cells -> Symbols] /\ Blank \in Symbols
      <4>1. s.cells \in [Cells -> Symbols]
        BY Zenon DEF Sheets
      <4>2. Blank \in Symbols
        BY Zenon DEF Symbols
      <4>3. QED
        BY <4>1, <4>2, Zenon
    <3>4. CASE a < NUM_ROWS - 1
      <4>1. <<a + 1, b>> \in Cells
        BY <3>2, <3>4, Zenon DEF Cells
      <4>2. QED
        BY <3>1, <3>3, <3>4, <4>1, Zenon
    <3>5. CASE ~(a < NUM_ROWS - 1)
      BY <3>1, <3>3, <3>5, Zenon
    <3>6. QED
      BY <3>4, <3>5, Zenon
  <2>2. QED
    BY <2>1, Zenon
<1>2. ASSUME NEW r \in Nat, NEW c \in Cols, r < NUM_ROWS - 1
      PROVE  moved[<<r, c>>] = s.cells[<<r + 1, c>>]
  <2>1. <<r, c>> \in Cells
    BY <1>2, Sizes DEF Cells
  <2>2. QED
    BY <1>2, <2>1, Zenon
<1>3. scroll_screen(s) = [x |-> s.x, y |-> s.y - 1, cells |-> moved]
  BY Zenon DEF scroll_screen
<1> HIDE DEF moved
<1>4. s.y - 1 = NUM_ROWS - 2 /\ NUM_ROWS - 2 \in Nat /\ s.x \in Cols
  BY Sizes DEF Sheets
<1>5. QED
  BY <1>1, <1>2, <1>3, <1>4 DEF Sheets

\* putc stays in its row, or goes to the next.
LEMMA PutcIs ==
    ASSUME NEW s \in Sheets, NEW c \in Symbols
    PROVE  /\ putc(s, c) \in Sheets
           /\ c = Newline => putc(s, c) = [x |-> 0, y |-> s.y + 1, cells |-> s.cells]
           /\ c # Newline =>
                /\ putc(s, c).x = (s.x + 1) % NUM_COLS
                /\ putc(s, c).y = (s.y + (s.x + 1) \div NUM_COLS) % NUM_ROWS
                /\ putc(s, c).cells = [s.cells EXCEPT ![<<s.y, s.x>>] = c]
<1>1. s.x \in Cols /\ s.y \in Nat /\ s.cells \in [Cells -> Symbols]
      /\ s = [x |-> s.x, y |-> s.y, cells |-> s.cells]
  BY Zenon DEF Sheets
<1>2. CASE c = Newline
  <2>1. putc(s, c) = [x |-> 0, y |-> s.y + 1, cells |-> s.cells]
    BY <1>1, <1>2, Zenon DEF putc
  <2>2. s.y + 1 \in Nat /\ 0 \in Cols
    BY <1>1, Sizes
  <2>3. putc(s, c) \in Sheets
    BY <1>1, <2>1, <2>2 DEF Sheets
  <2>4. QED
    BY <1>2, <2>1, <2>3, Zenon
<1>3. CASE c # Newline
  <2> DEFINE x1 == (s.x + 1) % NUM_COLS
             y1 == (s.y + (s.x + 1) \div NUM_COLS) % NUM_ROWS
             c1 == [s.cells EXCEPT ![<<s.y, s.x>>] = c]
  <2>1. putc(s, c) = [x |-> x1, y |-> y1, cells |-> c1]
    BY <1>3, Zenon DEF putc
  <2>2. x1 \in Cols
    BY <1>1, NextColumn, Zenon
  <2>3. y1 \in Nat
    <3>1. (s.x + 1) \div NUM_COLS \in Nat
      BY <1>1, NextColumn, Zenon
    <3>2. s.y + (s.x + 1) \div NUM_COLS \in Nat
      BY <1>1, <3>1
    <3>3. QED
      BY <3>2, RowOnScreen, Sizes, Zenon
  <2>4. c1 \in [Cells -> Symbols]
    BY ZenonT(60), <1>1
  <2> HIDE DEF x1, y1, c1
  <2>5. putc(s, c) \in Sheets
    BY <2>1, <2>2, <2>3, <2>4 DEF Sheets
  <2>6. putc(s, c).x = x1 /\ putc(s, c).y = y1 /\ putc(s, c).cells = c1
    BY <2>1
  <2>7. QED
    BY <1>3, <2>5, <2>6, Zenon DEF x1, y1, c1
<1>4. QED
  BY <1>2, <1>3, Zenon

\* The screen one round of terminal_write draws on: scrolled once if the
\* newline or the character would leave it, and never twice.
Ready(s, c) ==
    IF s.y = NUM_ROWS - 1 /\ (c = Newline \/ s.x = NUM_COLS - 1) THEN scroll_screen(s) ELSE s

\* A round of terminal_write draws on that screen.
LEMMA WriteCharIs ==
    ASSUME NEW s \in Sheets, NEW c \in Symbols
    PROVE  /\ write_char(s, c) = putc(Ready(s, c), c)
           /\ Ready(s, c) \in Sheets /\ Ready(s, c).x = s.x
<1> DEFINE s1 == IF check_out_of_bound(s) = SCROLL_ENTER_PRESSED /\ c = Newline
                 THEN scroll_screen(s) ELSE s
           s2 == IF check_out_of_bound(s1) = SCROLL_LAST_LETTER
                 THEN scroll_screen(s1) ELSE s1
<1>1. write_char(s, c) = putc(s2, c)
  BY Zenon DEF write_char
<1>2. s2 = Ready(s, c)
  <2>1. CASE s.y # NUM_ROWS - 1
    <3>1. check_out_of_bound(s) = 0
      BY <2>1, Zenon DEF check_out_of_bound
    <3>2. SCROLL_LAST_LETTER # 0 /\ SCROLL_ENTER_PRESSED # 0
      BY DEF SCROLL_LAST_LETTER, SCROLL_ENTER_PRESSED
    <3>3. s1 = s
      BY <3>1, <3>2, Zenon
    <3>4. QED
      BY <2>1, <3>1, <3>2, <3>3, Zenon DEF Ready
  <2>2. CASE s.y = NUM_ROWS - 1 /\ s.x = NUM_COLS - 1
    <3>1. check_out_of_bound(s) = SCROLL_LAST_LETTER
      BY <2>2, Zenon DEF check_out_of_bound
    <3>2. SCROLL_LAST_LETTER # SCROLL_ENTER_PRESSED
      BY DEF SCROLL_LAST_LETTER, SCROLL_ENTER_PRESSED
    <3>3. s1 = s
      BY <3>1, <3>2, Zenon
    <3>4. QED
      BY <2>2, <3>1, <3>3, Zenon DEF Ready
  <2>3. CASE s.y = NUM_ROWS - 1 /\ s.x # NUM_COLS - 1
    <3>1. check_out_of_bound(s) = SCROLL_ENTER_PRESSED
      BY <2>3, Zenon DEF check_out_of_bound
    <3>2. SCROLL_LAST_LETTER # SCROLL_ENTER_PRESSED /\ SCROLL_LAST_LETTER # 0
      BY DEF SCROLL_LAST_LETTER, SCROLL_ENTER_PRESSED
    <3>3. CASE c # Newline
      BY <2>3, <3>1, <3>2, <3>3, Zenon DEF Ready
    <3>4. CASE c = Newline
      <4>1. s1 = scroll_screen(s)
        BY <3>1, <3>4, Zenon
      <4>2. scroll_screen(s).y # NUM_ROWS - 1
        BY <2>3, ScrollIs, Sizes
      <4>3. check_out_of_bound(s1) = 0
        BY <4>1, <4>2, Zenon DEF check_out_of_bound
      <4>4. QED
        BY <2>3, <3>2, <3>4, <4>1, <4>3, Zenon DEF Ready
    <3>5. QED
      BY <3>3, <3>4, Zenon
  <2>4. QED
    BY <2>1, <2>2, <2>3, Zenon
<1>3. Ready(s, c) \in Sheets /\ Ready(s, c).x = s.x
  BY ScrollIs, Zenon DEF Ready
<1>4. QED
  BY <1>1, <1>2, <1>3, Zenon

\* A round of terminal_write keeps a screen a screen, and the cursor on it.
LEMMA WriteCharKeeps ==
    ASSUME NEW s \in Sheets, NEW c \in Symbols
    PROVE  /\ write_char(s, c) \in Sheets
           /\ OnScreen(s) => OnScreen(write_char(s, c))
<1>1. write_char(s, c) \in Sheets
  <2>1. \A r \in Sheets : putc(r, c) \in Sheets
    BY ZenonT(60), PutcIs
  <2>2. QED
    BY <2>1, WriteCharIs, Zenon
<1>2. ASSUME OnScreen(s) PROVE OnScreen(write_char(s, c))
  <2> DEFINE r == Ready(s, c)
  <2>1. r \in Sheets /\ write_char(s, c) = putc(r, c) /\ r.y \in Nat
    BY WriteCharIs, Zenon DEF Sheets
  <2>2. r.y \in Rows /\ (c = Newline => r.y + 1 \in Rows)
    <3>1. CASE s.y = NUM_ROWS - 1 /\ (c = Newline \/ s.x = NUM_COLS - 1)
      <4>1. r.y = NUM_ROWS - 2
        BY <3>1, ScrollIs, Zenon DEF Ready
      <4>2. QED
        BY <4>1, Sizes DEF Rows
    <3>2. CASE ~(s.y = NUM_ROWS - 1 /\ (c = Newline \/ s.x = NUM_COLS - 1))
      <4>1. r = s
        BY <3>2, Zenon DEF Ready
      <4>2. s.y \in Rows
        BY <1>2, Zenon DEF OnScreen
      <4>3. QED
        BY <3>2, <4>1, <4>2, Sizes DEF Rows
    <3>3. QED
      BY <3>1, <3>2, Zenon
  <2> HIDE DEF r
  <2>3. putc(r, c).x \in Cols
    BY ZenonT(60), <2>1, PutcIs DEF Sheets
  <2>4. putc(r, c).y \in Rows
    <3>1. CASE c = Newline
      <4>1. putc(r, c) = [x |-> 0, y |-> r.y + 1, cells |-> r.cells]
        BY ZenonT(60), <2>1, <3>1, PutcIs
      <4>2. QED
        BY <2>2, <3>1, <4>1
    <3>2. CASE c # Newline
      <4>1. r.x \in Cols
        BY <2>1, Zenon DEF Sheets
      <4>2. (r.x + 1) \div NUM_COLS \in Nat
        BY <4>1, NextColumn, Zenon
      <4>3. r.y + (r.x + 1) \div NUM_COLS \in Nat
        BY <2>1, <4>2
      <4>4. putc(r, c).y = (r.y + (r.x + 1) \div NUM_COLS) % NUM_ROWS
        BY ZenonT(60), <2>1, <3>2, PutcIs
      <4>5. QED
        BY <4>3, <4>4, RowOnScreen, Zenon
    <3>3. QED
      BY <3>1, <3>2, Zenon
  <2>5. QED
    BY <2>1, <2>3, <2>4, Zenon DEF OnScreen
<1>3. QED
  BY <1>1, <1>2, Zenon

\* Scrolling takes the line along.
LEMMA ScrolledLine ==
    ASSUME NEW s \in Sheets, s.y = NUM_ROWS - 1, NEW n \in Nat, NEW b, HasLine(s, n, b)
    PROVE  HasLine(scroll_screen(s), n, b)
<1> DEFINE r == scroll_screen(s)
<1>1. r \in Sheets /\ r.y = NUM_ROWS - 2 /\ r.x = s.x /\ s.x \in Cols /\ NUM_ROWS - 2 \in Nat
      /\ \A k \in Nat, c \in Cols : k < NUM_ROWS - 1 => r.cells[<<k, c>>] = s.cells[<<k + 1, c>>]
  BY ScrollIs, Sizes, Zenon DEF Sheets
<1> HIDE DEF r
<1>2. PosOf(r) = (NUM_ROWS - 2) * NUM_COLS + s.x /\ PosOf(r) \in Nat
  BY <1>1, PlaceIs, Zenon DEF PosOf
<1>3. PosOf(s) = PosOf(r) + NUM_COLS
  BY <1>1, <1>2, Sizes DEF PosOf
<1> SUFFICES ASSUME NEW i \in 1 .. n, i <= PosOf(r)
             PROVE  r.cells[PlaceOf(PosOf(r) - i)] = b[n - i][1]
  BY Zenon DEF HasLine, r
<1>4. PosOf(r) - i \in Nat /\ PosOf(r) - i < PosOf(r)
  BY <1>2
<1>5. PICK y \in Nat, x \in Cols :
          PosOf(r) - i = y * NUM_COLS + x /\ PlaceOf(PosOf(r) - i) = <<y, x>>
  BY <1>4, PlaceHas, Zenon
<1>6. y < NUM_ROWS - 1
  <2>1. y * NUM_COLS + x < (NUM_ROWS - 2) * NUM_COLS + s.x
    BY <1>2, <1>4, <1>5, Zenon
  <2>2. y < NUM_ROWS - 2 \/ (y = NUM_ROWS - 2 /\ x < s.x)
    BY <1>1, <2>1, PlacesInOrder
  <2>3. QED
    BY <2>2, Sizes
<1>7. PosOf(s) - i = (y + 1) * NUM_COLS + x
  <2>1. (y + 1) * NUM_COLS = y * NUM_COLS + NUM_COLS /\ y * NUM_COLS \in Nat /\ x \in Nat
    BY Sizes
  <2>2. QED
    BY <1>2, <1>3, <1>5, <2>1, Sizes
<1>8. PlaceOf(PosOf(s) - i) = <<y + 1, x>>
  <2>1. y + 1 \in Nat
    OBVIOUS
  <2>2. QED
    BY <1>7, <2>1, PlaceIs, Zenon
<1>9. s.cells[PlaceOf(PosOf(s) - i)] = b[n - i][1]
  <2>1. i <= PosOf(s)
    BY <1>2, <1>3, Sizes
  <2>2. QED
    BY <2>1, Zenon DEF HasLine
<1>10. r.cells[<<y, x>>] = s.cells[<<y + 1, x>>]
  BY <1>1, <1>6, Zenon
<1>11. QED
  BY <1>5, <1>8, <1>9, <1>10, Zenon

\* putc moves the cursor one place on, as long as it does not leave the screen.
LEMMA PutcMoves ==
    ASSUME NEW r \in Sheets, NEW c \in Symbols, c # Newline, OnScreen(r),
           ~(r.y = NUM_ROWS - 1 /\ r.x = NUM_COLS - 1)
    PROVE  PosOf(putc(r, c)) = PosOf(r) + 1 /\ PosOf(r) \in Nat
<1>1. r.x \in Cols /\ r.y \in Rows /\ r.y \in Nat /\ r.x \in Nat
  BY Sizes, Zenon DEF OnScreen
<1>2. /\ putc(r, c).x = (r.x + 1) % NUM_COLS
      /\ putc(r, c).y = (r.y + (r.x + 1) \div NUM_COLS) % NUM_ROWS
  BY ZenonT(60), PutcIs
<1>3. PosOf(r) \in Nat
  BY <1>1, PlaceIs, Zenon DEF PosOf
<1>4. CASE r.x = NUM_COLS - 1
  <2>1. (r.x + 1) % NUM_COLS = 0 /\ (r.x + 1) \div NUM_COLS = 1
    BY <1>1, <1>4, NextColumn, Zenon
  <2>2. r.y + 1 \in Rows
    BY <1>1, <1>4, Sizes DEF Rows
  <2>3. putc(r, c).x = 0 /\ putc(r, c).y = r.y + 1
    BY <1>2, <2>1, <2>2, RowOnScreen, Zenon
  <2>4. (r.y + 1) * NUM_COLS + 0 = r.y * NUM_COLS + (NUM_COLS - 1) + 1
    BY <1>1, Sizes
  <2>5. QED
    BY <1>3, <1>4, <2>3, <2>4, Zenon DEF PosOf
<1>5. CASE r.x # NUM_COLS - 1
  <2>1. (r.x + 1) % NUM_COLS = r.x + 1 /\ (r.x + 1) \div NUM_COLS = 0
    BY <1>1, <1>5, NextColumn, Zenon
  <2>2. r.y + 0 = r.y
    BY <1>1
  <2>3. putc(r, c).x = r.x + 1 /\ putc(r, c).y = r.y
    BY <1>1, <1>2, <2>1, <2>2, RowOnScreen, Zenon
  <2>4. r.y * NUM_COLS \in Nat
    BY <1>1, Sizes
  <2>5. QED
    BY <1>1, <1>3, <2>3, <2>4 DEF PosOf
<1>6. QED
  BY <1>4, <1>5, Zenon

\* A character that putc draws stands behind the line.
LEMMA PutLine ==
    ASSUME NEW r \in Sheets, NEW c \in Symbols, c # Newline, OnScreen(r),
           ~(r.y = NUM_ROWS - 1 /\ r.x = NUM_COLS - 1),
           NEW n \in Nat, NEW b, NEW d, HasLine(r, n, b),
           d[n][1] = c, \A j \in 0 .. n - 1 : d[j] = b[j]
    PROVE  HasLine(putc(r, c), n + 1, d)
<1> DEFINE s == putc(r, c)
           p == PosOf(r)
<1>1. PosOf(s) = p + 1 /\ p \in Nat
  BY PutcMoves, Zenon
<1>2. s.cells = [r.cells EXCEPT ![<<r.y, r.x>>] = c]
  BY PutcIs, Zenon
<1>3. r.x \in Cols /\ r.y \in Rows /\ r.y \in Nat /\ r.cells \in [Cells -> Symbols]
  BY Sizes, Zenon DEF OnScreen, Sheets
<1>4. PlaceOf(p) = <<r.y, r.x>>
  BY <1>3, PlaceIs, Zenon DEF PosOf
<1>5. <<r.y, r.x>> \in Cells
  BY <1>3, Sizes DEF Cells, Rows
<1> HIDE DEF s, p
<1> SUFFICES ASSUME NEW i \in 1 .. n + 1, i <= PosOf(s)
             PROVE  s.cells[PlaceOf(PosOf(s) - i)] = d[n + 1 - i][1]
  BY DEF HasLine, s
<1>6. CASE i = 1
  <2>1. PosOf(s) - i = p /\ n + 1 - i = n
    BY <1>1, <1>6
  <2>2. s.cells[<<r.y, r.x>>] = c
    BY <1>2, <1>3, <1>5, Zenon
  <2>3. QED
    BY ZenonT(60), <1>4, <2>1, <2>2
<1>7. CASE i # 1
  <2>1. PICK k \in 1 .. n : i = k + 1
    <3>1. i - 1 \in 1 .. n /\ i = (i - 1) + 1
      BY <1>7
    <3>2. QED
      BY <3>1, Zenon
  <2>2. PosOf(s) - i = p - k /\ n + 1 - i = n - k /\ k <= p /\ p - k \in Nat /\ p - k < p
    BY <1>1, <2>1
  <2>3. PICK y \in Nat, x \in Cols : p - k = y * NUM_COLS + x /\ PlaceOf(p - k) = <<y, x>>
    BY <2>2, PlaceHas, Zenon
  <2>4. <<y, x>> # <<r.y, r.x>>
    <3>1. p = r.y * NUM_COLS + r.x
      BY Zenon DEF p, PosOf
    <3>2. ~(y = r.y /\ x = r.x)
      BY <2>2, <2>3, <3>1
    <3>3. QED
      BY <3>2, Zenon
  <2>5. s.cells[<<y, x>>] = r.cells[<<y, x>>]
    BY <1>2, <1>3, <2>4
  <2>6. r.cells[PlaceOf(p - k)] = b[n - k][1]
    BY <2>2, Zenon DEF HasLine, p
  <2>7. d[n - k] = b[n - k]
    BY <2>1
  <2>8. QED
    BY <2>2, <2>3, <2>5, <2>6, <2>7, Zenon
<1>8. QED
  BY <1>6, <1>7, Zenon

\* A character of the line that is typed stands behind the line, whether the
\* screen scrolls for it or not (terminal_write of defaultKeyPressed).
LEMMA TypedLine ==
    ASSUME NEW s \in Sheets, NEW c \in Symbols, c # Newline, OnScreen(s),
           NEW n \in Nat, NEW b, NEW d, HasLine(s, n, b),
           d[n][1] = c, \A j \in 0 .. n - 1 : d[j] = b[j]
    PROVE  HasLine(write_char(s, c), n + 1, d)
<1> DEFINE r == Ready(s, c)
<1>1. r \in Sheets /\ write_char(s, c) = putc(r, c)
  BY WriteCharIs, Zenon
<1>2. HasLine(r, n, b) /\ OnScreen(r) /\ ~(r.y = NUM_ROWS - 1 /\ r.x = NUM_COLS - 1)
  <2>1. CASE s.y = NUM_ROWS - 1 /\ s.x = NUM_COLS - 1
    <3>1. r = scroll_screen(s)
      BY <2>1, Zenon DEF Ready
    <3>2. HasLine(r, n, b)
      BY <2>1, <3>1, ScrolledLine, Zenon
    <3>3. r.y = NUM_ROWS - 2 /\ r.x = s.x
      BY <2>1, <3>1, ScrollIs, Zenon
    <3>4. QED
      BY <3>2, <3>3, Sizes DEF OnScreen, Rows
  <2>2. CASE ~(s.y = NUM_ROWS - 1 /\ s.x = NUM_COLS - 1)
    BY <2>2, Zenon DEF Ready
  <2>3. QED
    BY <2>1, <2>2, Zenon
<1> HIDE DEF r
<1>3. HasLine(putc(r, c), n + 1, d)
  BY <1>1, <1>2, PutLine, Zenon
<1>4. QED
  BY <1>1, <1>3, Zenon

\* backspace_pressed keeps a screen a screen and the cursor on it, and goes
\* back by one place, unless it is at the first one.
LEMMA BackspaceIs ==
    ASSUME NEW s \in Sheets
    PROVE  /\ backspace_pressed(s) \in Sheets
           /\ OnScreen(s) => OnScreen(backspace_pressed(s))
           /\ PosOf(backspace_pressed(s)) = IF PosOf(s) = 0 THEN 0 ELSE PosOf(s) - 1
           /\ backspace_pressed(s).cells =
                [s.cells EXCEPT ![PlaceOf(PosOf(backspace_pressed(s)))] = Blank]
           /\ PosOf(s) \in Nat /\ PosOf(backspace_pressed(s)) \in Nat
<1> DEFINE y == IF s.x = 0 /\ s.y > 0 THEN s.y - 1 ELSE s.y
           x == IF s.x > 0 THEN s.x - 1 ELSE IF s.y > 0 THEN NUM_COLS - 1 ELSE 0
           cs == [s.cells EXCEPT ![<<y, x>>] = Blank]
<1>1. backspace_pressed(s) = [x |-> x, y |-> y, cells |-> cs]
  BY Zenon DEF backspace_pressed
<1>2. s.x \in Cols /\ s.y \in Nat /\ s.cells \in [Cells -> Symbols] /\ s.x \in Nat
  BY Sizes, Zenon DEF Sheets
<1>3. x \in Cols /\ y \in Nat /\ (s.y \in Rows => y \in Rows)
  BY <1>2, Sizes DEF Cols, Rows
<1>4. /\ s.x > 0 => y = s.y /\ x = s.x - 1
      /\ s.x = 0 /\ s.y > 0 => y = s.y - 1 /\ x = NUM_COLS - 1
      /\ s.x = 0 /\ s.y = 0 => y = 0 /\ x = 0
  BY <1>2
<1>5. cs \in [Cells -> Symbols]
  <2>1. Blank \in Symbols
    BY Zenon DEF Symbols
  <2>2. QED
    BY ZenonT(60), <1>2, <2>1
<1> HIDE DEF x, y
<1>6. y * NUM_COLS + x = IF PosOf(s) = 0 THEN 0 ELSE PosOf(s) - 1
  <2>1. s.y * NUM_COLS \in Nat /\ PosOf(s) = s.y * NUM_COLS + s.x
    BY <1>2, Sizes DEF PosOf
  <2>2. CASE s.x > 0
    BY <1>2, <1>4, <2>1, <2>2
  <2>3. CASE s.x = 0 /\ s.y > 0
    <3>1. PICK z \in Nat : s.y = z + 1
      <4>1. s.y - 1 \in Nat /\ s.y = (s.y - 1) + 1
        BY <1>2, <2>3
      <4>2. QED
        BY <4>1, Zenon
    <3>2. s.y * NUM_COLS = z * NUM_COLS + NUM_COLS /\ z * NUM_COLS \in Nat
      BY <3>1, Sizes
    <3>3. y = z /\ x = NUM_COLS - 1
      BY <1>4, <2>3, <3>1
    <3>4. PICK a \in Nat : a = z * NUM_COLS
      BY <3>2, Zenon
    <3>5. y * NUM_COLS + x = a + (NUM_COLS - 1) /\ PosOf(s) = a + NUM_COLS
      BY <2>1, <2>3, <3>2, <3>3, <3>4, Sizes
    <3>6. QED
      BY <3>5, Sizes
  <2>4. CASE s.x = 0 /\ s.y = 0
    BY <1>4, <2>1, <2>4, Sizes
  <2>5. QED
    BY <1>2, <2>2, <2>3, <2>4
<1>7. y * NUM_COLS + x \in Nat /\ PlaceOf(y * NUM_COLS + x) = <<y, x>>
      /\ s.y * NUM_COLS + s.x \in Nat
  BY <1>2, <1>3, PlaceIs, Zenon
<1> HIDE DEF cs
<1>8. backspace_pressed(s).x = x /\ backspace_pressed(s).y = y /\ backspace_pressed(s).cells = cs
  BY <1>1
<1>9. PosOf(backspace_pressed(s)) = y * NUM_COLS + x /\ PosOf(s) = s.y * NUM_COLS + s.x
  BY <1>8, Zenon DEF PosOf
<1>10. backspace_pressed(s) \in Sheets
  BY <1>1, <1>3, <1>5 DEF Sheets
<1>11. OnScreen(s) => OnScreen(backspace_pressed(s))
  BY <1>3, <1>8, Zenon DEF OnScreen
<1>12. cs = [s.cells EXCEPT ![PlaceOf(y * NUM_COLS + x)] = Blank]
  BY <1>7, Zenon DEF cs
<1>13. PosOf(backspace_pressed(s)) = IF PosOf(s) = 0 THEN 0 ELSE PosOf(s) - 1
  BY <1>9, <1>6, Zenon
<1>14. QED
  BY <1>7, <1>8, <1>9, <1>10, <1>11, <1>12, <1>13, Zenon

\* Backspace takes the last character of the line from the screen.
LEMMA ErasedLine ==
    ASSUME NEW s \in Sheets, NEW n \in Nat, NEW b, HasLine(s, n + 1, b)
    PROVE  HasLine(backspace_pressed(s), n, b)
<1> DEFINE r == backspace_pressed(s)
<1>1. /\ PosOf(r) = IF PosOf(s) = 0 THEN 0 ELSE PosOf(s) - 1
      /\ r.cells = [s.cells EXCEPT ![PlaceOf(PosOf(r))] = Blank]
      /\ PosOf(s) \in Nat /\ PosOf(r) \in Nat
  BY BackspaceIs, Zenon
<1>2. s.cells \in [Cells -> Symbols]
  BY Zenon DEF Sheets
<1> HIDE DEF r
<1> SUFFICES ASSUME NEW i \in 1 .. n, i <= PosOf(r)
             PROVE  r.cells[PlaceOf(PosOf(r) - i)] = b[n - i][1]
  BY Zenon DEF HasLine, r
<1>3. PosOf(s) = PosOf(r) + 1 /\ PosOf(r) - i \in Nat /\ PosOf(r) - i < PosOf(r)
      /\ i + 1 \in 1 .. n + 1 /\ i + 1 <= PosOf(s) /\ PosOf(s) - (i + 1) = PosOf(r) - i
      /\ n + 1 - (i + 1) = n - i
  BY <1>1
<1>4. s.cells[PlaceOf(PosOf(s) - (i + 1))] = b[n + 1 - (i + 1)][1]
  BY <1>3 DEF HasLine
<1>5. PlaceOf(PosOf(r) - i) # PlaceOf(PosOf(r))
  <2>1. PICK y \in Nat, x \in Cols :
            PosOf(r) - i = y * NUM_COLS + x /\ PlaceOf(PosOf(r) - i) = <<y, x>>
    BY <1>3, PlaceHas, Zenon
  <2>2. PICK z \in Nat, w \in Cols :
            PosOf(r) = z * NUM_COLS + w /\ PlaceOf(PosOf(r)) = <<z, w>>
    BY <1>1, PlaceHas, Zenon
  <2>3. ~(y = z /\ x = w)
    BY <1>3, <2>1, <2>2
  <2>4. QED
    BY <2>1, <2>2, <2>3
<1>6. r.cells[PlaceOf(PosOf(r) - i)] = s.cells[PlaceOf(PosOf(r) - i)]
  BY <1>1, <1>2, <1>5
<1>7. QED
  BY <1>3, <1>4, <1>6, Zenon

-----------------------------------------------------------------------------
(* The loops over a text *)

\* The states of the loop of terminal_write.
LEMMA WriteLoop ==
    ASSUME NEW S, NEW s \in S, NEW text, Len(text) \in Nat,
           \A v \in S, n \in 1 .. Len(text) : write_char(v, text[n]) \in S
    PROVE  \E f : /\ \A n \in 0 .. Len(text) : f[n] \in S
                  /\ f[0] = s
                  /\ \A n \in 1 .. Len(text) : f[n] = write_char(f[n - 1], text[n])
                  /\ terminal_write(s, text) = f[Len(text)]
<1> DEFINE g == [i \in Nat |-> [v \in S |-> IF i \in 1 .. Len(text)
                                            THEN write_char(v, text[i]) ELSE v]]
           P(f) == f = [n \in 0 .. Len(text) |->
                          IF n = 0 THEN s ELSE write_char(f[n - 1], text[n])]
           F == CHOOSE f : P(f)
<1>1. terminal_write(s, text) = F[Len(text)]
  BY Zenon DEF terminal_write, EachChar
<1>2. g \in [Nat -> [S -> S]]
  BY Zenon
<1> HIDE DEF g
<1>3. PICK f : IsLoop(f, S, s, g, Len(text))
  BY <1>2, LoopExists, Zenon
<1>4. /\ f \in [0 .. Len(text) -> S] /\ f[0] = s
      /\ \A i \in 1 .. Len(text) : f[i] = write_char(f[i - 1], text[i])
  <2>1. f \in [0 .. Len(text) -> S] /\ f[0] = s
        /\ \A i \in 1 .. Len(text) : f[i] = g[i][f[i - 1]]
    BY <1>3, Zenon DEF IsLoop
  <2>2. \A i \in 1 .. Len(text) : i \in Nat /\ i - 1 \in 0 .. Len(text) /\ f[i - 1] \in S
    BY <2>1
  <2>3. \A i \in 1 .. Len(text), v \in S : i \in Nat => g[i][v] = write_char(v, text[i])
    BY Zenon DEF g
  <2>4. QED
    BY <2>1, <2>2, <2>3, Zenon
<1>5. P(f)
  <2> DEFINE h == [n \in 0 .. Len(text) |->
                      IF n = 0 THEN s ELSE write_char(f[n - 1], text[n])]
  <2>1. \A n \in 0 .. Len(text) : n = 0 \/ n \in 1 .. Len(text)
    OBVIOUS
  <2>2. \A n \in 0 .. Len(text) : f[n] = h[n]
    BY <1>4, <2>1, Zenon
  <2>3. QED
    BY <1>4, <2>2, Zenon
<1>6. P(F)
  <2> HIDE DEF P
  <2>1. QED
    BY <1>5, Zenon
<1> HIDE DEF F
<1>7. F[0] = s /\ \A n \in 1 .. Len(text) : F[n] = write_char(F[n - 1], text[n])
  BY <1>6
<1>8. \A n \in 0 .. Len(text) : F[n] \in S
  <2>1. \A n \in 1 .. Len(text) : F[n - 1] \in S => F[n] \in S
    BY <1>7, Zenon
  <2>2. F[0] \in S
    BY <1>7, Zenon
  <2>3. QED
    BY ZenonT(60), <2>1, <2>2, LoopStays
<1>9. QED
  BY <1>1, <1>7, <1>8, Zenon

\* The same for the loop of printf.
LEMMA PrintLoop ==
    ASSUME NEW s \in Sheets, NEW text, Len(text) \in Nat,
           \A n \in 1 .. Len(text) : text[n] \in Symbols
    PROVE  EachChar(putc, s, text) \in Sheets
<1> DEFINE g == [i \in Nat |-> [v \in Sheets |-> IF i \in 1 .. Len(text)
                                                 THEN putc(v, text[i]) ELSE v]]
           P(f) == f = [n \in 0 .. Len(text) |->
                          IF n = 0 THEN s ELSE putc(f[n - 1], text[n])]
           F == CHOOSE f : P(f)
<1>1. EachChar(putc, s, text) = F[Len(text)]
  BY Zenon DEF EachChar
<1>2. \A v \in Sheets, n \in 1 .. Len(text) : putc(v, text[n]) \in Sheets
  BY ZenonT(60), PutcIs
<1>3. g \in [Nat -> [Sheets -> Sheets]]
  BY <1>2, Zenon
<1> HIDE DEF g
<1>4. PICK f : IsLoop(f, Sheets, s, g, Len(text))
  BY <1>3, LoopExists, Zenon
<1>5. /\ f \in [0 .. Len(text) -> Sheets] /\ f[0] = s
      /\ \A i \in 1 .. Len(text) : f[i] = putc(f[i - 1], text[i])
  <2>1. f \in [0 .. Len(text) -> Sheets] /\ f[0] = s
        /\ \A i \in 1 .. Len(text) : f[i] = g[i][f[i - 1]]
    BY <1>4, Zenon DEF IsLoop
  <2>2. \A i \in 1 .. Len(text) : i \in Nat /\ i - 1 \in 0 .. Len(text) /\ f[i - 1] \in Sheets
    BY <2>1
  <2>3. \A i \in 1 .. Len(text), v \in Sheets : i \in Nat => g[i][v] = putc(v, text[i])
    BY Zenon DEF g
  <2>4. QED
    BY <2>1, <2>2, <2>3, Zenon
<1>6. P(f)
  <2> DEFINE h == [n \in 0 .. Len(text) |-> IF n = 0 THEN s ELSE putc(f[n - 1], text[n])]
  <2>1. \A n \in 0 .. Len(text) : n = 0 \/ n \in 1 .. Len(text)
    OBVIOUS
  <2>2. \A n \in 0 .. Len(text) : f[n] = h[n]
    BY <1>5, <2>1, Zenon
  <2>3. QED
    BY <1>5, <2>2, Zenon
<1>7. P(F)
  <2> HIDE DEF P
  <2>1. QED
    BY <1>6, Zenon
<1> HIDE DEF F
<1>8. F[0] = s /\ \A n \in 1 .. Len(text) : F[n] = putc(F[n - 1], text[n])
  BY <1>7
<1>9. \A n \in 0 .. Len(text) : F[n] \in Sheets
  <2>1. \A n \in 1 .. Len(text) : F[n - 1] \in Sheets => F[n] \in Sheets
    BY <1>2, <1>8, Zenon
  <2>2. F[0] \in Sheets
    BY <1>8, Zenon
  <2>3. QED
    BY ZenonT(60), <2>1, <2>2, LoopStays
<1>10. QED
  BY <1>1, <1>9

\* The texts of programs consist of symbols.
LEMMA TextsAre ==
    ASSUME NEW text \in Texts
    PROVE  Len(text) \in Nat /\ \A n \in 1 .. Len(text) : text[n] \in Symbols
<1>1. Len(text) \in Nat
  BY ScreenAssumption
<1>2. ASSUME NEW n \in 1 .. Len(text) PROVE text[n] \in Symbols
  BY DEF Symbols
<1>3. QED
  BY <1>1, <1>2, Zenon

\* terminal_write keeps the cursor on the screen, whatever the text.
LEMMA WrittenIs ==
    ASSUME NEW s \in Sheets, NEW text, Len(text) \in Nat,
           \A n \in 1 .. Len(text) : text[n] \in Symbols
    PROVE  /\ terminal_write(s, text) \in Sheets
           /\ OnScreen(s) => OnScreen(terminal_write(s, text))
<1>1. Len(text) \in 0 .. Len(text)
  OBVIOUS
<1>2. terminal_write(s, text) \in Sheets
  <2>1. \A v \in Sheets, n \in 1 .. Len(text) : write_char(v, text[n]) \in Sheets
    BY WriteCharKeeps, Zenon
  <2>2. PICK f : (\A n \in 0 .. Len(text) : f[n] \in Sheets) /\ terminal_write(s, text) = f[Len(text)]
    BY <2>1, WriteLoop
  <2>3. QED
    BY <1>1, <2>2, Zenon
<1>3. ASSUME OnScreen(s) PROVE OnScreen(terminal_write(s, text))
  <2> DEFINE S == {v \in Sheets : OnScreen(v)}
  <2>1. \A v \in S, n \in 1 .. Len(text) : write_char(v, text[n]) \in S
    BY WriteCharKeeps, Zenon
  <2>2. s \in S
    BY <1>3, Zenon
  <2> HIDE DEF S
  <2>3. PICK f : (\A n \in 0 .. Len(text) : f[n] \in S) /\ terminal_write(s, text) = f[Len(text)]
    BY <2>1, <2>2, WriteLoop
  <2>4. terminal_write(s, text) \in S
    BY <1>1, <2>3, Zenon
  <2>5. QED
    BY <2>4, Zenon DEF S
<1>4. QED
  BY <1>2, <1>3, Zenon

\* A text of one character is one round.
LEMMA WrittenOnce ==
    ASSUME NEW s \in Sheets, NEW c \in Symbols
    PROVE  terminal_write(s, <<c>>) = write_char(s, c)
<1> DEFINE text == <<c>>
<1>1. Len(text) = 1 /\ text[1] = c
  BY Zenon
<1>2. \A v \in Sheets, n \in 1 .. Len(text) : write_char(v, text[n]) \in Sheets
  <2>1. \A v \in Sheets : write_char(v, c) \in Sheets
    BY WriteCharKeeps, Zenon
  <2>2. \A n \in 1 .. Len(text) : text[n] = c
    BY <1>1
  <2>3. QED
    BY <2>1, <2>2, Zenon
<1> HIDE DEF text
<1>3. PICK f : /\ f[0] = s
               /\ \A n \in 1 .. Len(text) : f[n] = write_char(f[n - 1], text[n])
               /\ terminal_write(s, text) = f[Len(text)]
  <2>1. Len(text) \in Nat
    BY <1>1
  <2>2. QED
    BY <1>2, <2>1, WriteLoop
<1>4. f[1] = write_char(f[1 - 1], text[1])
  <2>1. 1 \in 1 .. Len(text)
    BY <1>1
  <2>2. QED
    BY <1>3, <2>1, Zenon
<1>5. terminal_write(s, text) = write_char(s, c)
  <2>1. 1 - 1 = 0
    OBVIOUS
  <2>2. f[1] = write_char(s, c)
    BY <1>1, <1>3, <1>4, <2>1, Zenon
  <2>3. QED
    BY <1>1, <1>3, <2>2, Zenon
<1>6. QED
  BY <1>5, Zenon DEF text

\* printf leaves a screen, though perhaps not the cursor on it.
LEMMA PrintedIs ==
    ASSUME NEW s \in Sheets, NEW text \in Texts
    PROVE  printf(s, text) \in Sheets
<1> DEFINE r == IF check_out_of_bound(s) # 0 THEN scroll_screen(s) ELSE s
<1>1. r \in Sheets
  <2>1. check_out_of_bound(s) # 0 => s.y = NUM_ROWS - 1
    BY Zenon DEF check_out_of_bound
  <2>2. QED
    BY <2>1, ScrollIs, Zenon
<1>2. printf(s, text) = EachChar(putc, r, text)
  BY Zenon DEF printf
<1> HIDE DEF r
<1>3. EachChar(putc, r, text) \in Sheets
  BY <1>1, TextsAre, PrintLoop, Zenon
<1>4. QED
  BY <1>2, <1>3, Zenon

\* Ctrl+L leaves an empty screen with the cursor on it.
LEMMA ClearedIs ==
    ASSUME NEW s \in Sheets
    PROVE  reset_screen(clear(s)) \in Sheets /\ OnScreen(reset_screen(clear(s)))
<1> DEFINE cs == [c \in Cells |-> IF c[1] \in Rows THEN Blank ELSE s.cells[c]]
<1>1. s.cells \in [Cells -> Symbols] /\ s.x \in Cols /\ s.y \in Nat
      /\ s = [x |-> s.x, y |-> s.y, cells |-> s.cells]
  BY Zenon DEF Sheets
<1>2. cs \in [Cells -> Symbols]
  <2>1. Blank \in Symbols
    BY Zenon DEF Symbols
  <2>2. QED
    BY <1>1, <2>1, Zenon
<1>3. clear(s) = [x |-> s.x, y |-> s.y, cells |-> cs]
  BY <1>1 DEF clear
<1> HIDE DEF cs
<1>4. reset_screen(clear(s)) = [x |-> 0, y |-> 0, cells |-> cs]
  BY <1>3 DEF reset_screen
<1>5. QED
  BY <1>2, <1>4, Sizes DEF Sheets, OnScreen

-----------------------------------------------------------------------------
(* The text on the paper, and the part of it on the screen *)

\* Whether a character ends its row, and the place behind it.
EndsRow(p, ch) == ch = Newline \/ p[2] = NUM_COLS - 1
PlaceAfter(p, ch) == IF EndsRow(p, ch) THEN <<p[1] + 1, 0>> ELSE <<p[1], p[2] + 1>>

\* The places of the characters of a text.
IsPaper(P, text) ==
    /\ P \in [0 .. Len(text) -> Nat \X Cols]
    /\ P[0] = <<0, 0>>
    /\ \A i \in 1 .. Len(text) : P[i] = PlaceAfter(P[i - 1], text[i])

\* A place behind another one.
Behind(p, q) == p[1] < q[1] \/ (p[1] = q[1] /\ p[2] < q[2])

\* The next place is on the paper, behind this one.
LEMMA PlaceAfterIs ==
    ASSUME NEW p \in Nat \X Cols, NEW ch
    PROVE  PlaceAfter(p, ch) \in Nat \X Cols /\ Behind(p, PlaceAfter(p, ch))
<1>1. PICK r \in Nat, c \in Cols : p = <<r, c>>
  OBVIOUS
<1>2. c \in Nat /\ c < NUM_COLS /\ NUM_COLS \in Nat /\ 0 \in Cols
  BY Sizes, Zenon
<1>3. CASE EndsRow(p, ch)
  <2>1. PlaceAfter(p, ch) = <<r + 1, 0>>
    BY <1>1, <1>3, Zenon DEF PlaceAfter
  <2>2. QED
    BY <1>1, <1>2, <2>1 DEF Behind
<1>4. CASE ~EndsRow(p, ch)
  <2>1. PlaceAfter(p, ch) = <<r, c + 1>>
    BY <1>1, <1>4, Zenon DEF PlaceAfter
  <2>2. c + 1 \in Cols
    BY <1>1, <1>2, <1>4 DEF EndsRow, Cols
  <2>3. QED
    BY <1>1, <1>2, <2>1, <2>2 DEF Behind
<1>5. QED
  BY <1>3, <1>4, Zenon

\* Place gives them.
LEMMA PaperIs ==
    ASSUME NEW text, Len(text) \in Nat
    PROVE  IsPaper(Place(text), text)
<1> DEFINE S == Nat \X Cols
           n == Len(text)
           g == [i \in Nat |-> [p \in S |-> PlaceAfter(p, text[i])]]
           Q(f) == f = [i \in 0 .. n |-> IF i = 0 THEN <<0, 0>> ELSE PlaceAfter(f[i - 1], text[i])]
           F == CHOOSE f : Q(f)
<1>1. Place(text) = F
  BY Zenon DEF Place, PlaceAfter, EndsRow
<1>2. g \in [Nat -> [S -> S]]
  BY PlaceAfterIs, Zenon
<1>3. <<0, 0>> \in S
  BY Sizes, Zenon
<1> HIDE DEF g
<1>4. PICK f : IsLoop(f, S, <<0, 0>>, g, n)
  BY <1>2, <1>3, LoopExists, Zenon
<1>5. /\ f \in [0 .. n -> S] /\ f[0] = <<0, 0>>
      /\ \A i \in 1 .. n : f[i] = PlaceAfter(f[i - 1], text[i])
  <2>1. f \in [0 .. n -> S] /\ f[0] = <<0, 0>> /\ \A i \in 1 .. n : f[i] = g[i][f[i - 1]]
    BY <1>4, Zenon DEF IsLoop
  <2>2. \A i \in 1 .. n : i \in Nat /\ i - 1 \in 0 .. n /\ f[i - 1] \in S
    <3> HIDE DEF S
    <3>1. QED
      BY <2>1
  <2>3. \A i \in Nat, p \in S : g[i][p] = PlaceAfter(p, text[i])
    BY Zenon DEF g
  <2> HIDE DEF S
  <2>4. QED
    BY <2>1, <2>2, <2>3, Zenon
<1>6. Q(f)
  <2>1. \A i \in 0 .. n : f[i] = IF i = 0 THEN <<0, 0>> ELSE PlaceAfter(f[i - 1], text[i])
    <3>1. \A i \in 0 .. n : i = 0 \/ i \in 1 .. n
      OBVIOUS
    <3>2. QED
      BY <1>5, <3>1, Zenon
  <2>2. f = [i \in 0 .. n |-> f[i]]
    BY <1>5, Zenon
  <2>3. QED
    BY <2>1, <2>2, Zenon
<1>7. Q(F)
  <2> HIDE DEF Q
  <2>1. QED
    BY <1>6, Zenon
<1> HIDE DEF F
<1>8. /\ F[0] = <<0, 0>>
      /\ \A i \in 1 .. n : F[i] = PlaceAfter(F[i - 1], text[i])
      /\ F = [i \in 0 .. n |-> F[i]]
  <2>1. \A i \in 0 .. n : F[i] = IF i = 0 THEN <<0, 0>> ELSE PlaceAfter(F[i - 1], text[i])
    BY <1>7, Zenon
  <2>2. F = [i \in 0 .. n |-> F[i]]
    BY <1>7, Zenon
  <2>3. 0 \in 0 .. n /\ \A i \in 1 .. n : i \in 0 .. n /\ i # 0
    OBVIOUS
  <2>4. QED
    BY <2>1, <2>2, <2>3, Zenon
<1>9. \A i \in 0 .. n : F[i] \in S
  <2>1. \A i \in 1 .. n : F[i - 1] \in S => F[i] \in S
    BY <1>8, PlaceAfterIs, Zenon
  <2>2. F[0] \in S
    BY <1>3, <1>8, Zenon
  <2> HIDE DEF S
  <2>3. QED
    BY ZenonT(60), <2>1, <2>2, LoopStays
<1>10. F \in [0 .. n -> S]
  <2> HIDE DEF S
  <2>1. QED
    BY <1>8, <1>9, Zenon
<1>11. QED
  BY <1>1, <1>8, <1>10, Zenon DEF IsPaper

\* Later characters are further behind.
LEMMA PaperOrder ==
    ASSUME NEW text, Len(text) \in Nat, NEW P, IsPaper(P, text),
           NEW m \in 0 .. Len(text), NEW k \in 0 .. m - 1
    PROVE  Behind(P[k], P[m])
<1> DEFINE T == {j \in Nat : j <= Len(text) => \A i \in 0 .. j - 1 : Behind(P[i], P[j])}
<1>1. 0 \in T
  OBVIOUS
<1>2. ASSUME NEW j \in Nat, j \in T PROVE j + 1 \in T
  <2> SUFFICES ASSUME j + 1 <= Len(text), NEW i \in 0 .. (j + 1) - 1 PROVE Behind(P[i], P[j + 1])
    OBVIOUS
  <2>1. j + 1 \in 1 .. Len(text) /\ (j + 1) - 1 = j /\ j \in 0 .. Len(text) /\ i \in 0 .. Len(text)
    OBVIOUS
  <2>2. P[j + 1] = PlaceAfter(P[j], text[j + 1]) /\ P[j] \in Nat \X Cols /\ P[i] \in Nat \X Cols
    BY <2>1, Zenon DEF IsPaper
  <2>3. Behind(P[j], P[j + 1]) /\ P[j + 1] \in Nat \X Cols
    BY <2>2, PlaceAfterIs, Zenon
  <2>4. CASE i = j
    BY <2>3, <2>4, Zenon
  <2>5. CASE i # j
    <3>1. Behind(P[i], P[j])
      BY <1>2, <2>1, <2>5
    <3>2. \A x \in Nat \X Cols : x[1] \in Nat /\ x[2] \in Nat
      BY Sizes, Zenon
    <3>3. QED
      BY <2>2, <2>3, <3>1, <3>2 DEF Behind
  <2>6. QED
    BY <2>4, <2>5, Zenon
<1> HIDE DEF T
<1>3. Nat \subseteq T
  BY <1>1, <1>2, NatSetInduction, Zenon
<1>4. m \in T
  BY <1>3
<1>5. QED
  BY <1>4 DEF T

\* The characters that were drawn at a place, of the first m; and what is seen.
Drawn(P, text, m, p) == {k \in 1 .. m : text[k] # Newline /\ P[k - 1] = p}
Inked(text, D) == IF D = {} THEN Blank ELSE text[CHOOSE k \in D : TRUE]
Seen(P, text, m, p) == Inked(text, Drawn(P, text, m, p))

\* Nothing is drawn from the cursor on.
LEMMA SeenBehind ==
    ASSUME NEW text, Len(text) \in Nat, NEW P, IsPaper(P, text),
           NEW m \in 0 .. Len(text), NEW p, ~Behind(p, P[m])
    PROVE  Drawn(P, text, m, p) = {} /\ Seen(P, text, m, p) = Blank
<1>1. \A k \in 1 .. m : k - 1 \in 0 .. m - 1
  OBVIOUS
<1>2. \A k \in 1 .. m : Behind(P[k - 1], P[m])
  BY <1>1, PaperOrder, Zenon
<1>3. Drawn(P, text, m, p) = {}
  BY <1>2, Zenon DEF Drawn
<1>4. QED
  BY <1>3, Zenon DEF Seen, Inked

\* One more character is seen at the cursor, unless it is a newline.
LEMMA SeenNext ==
    ASSUME NEW text, Len(text) \in Nat, NEW P, IsPaper(P, text),
           NEW m \in 0 .. Len(text) - 1, NEW p
    PROVE  Seen(P, text, m + 1, p) =
             IF text[m + 1] # Newline /\ p = P[m] THEN text[m + 1] ELSE Seen(P, text, m, p)
<1>1. \A k : k \in 1 .. m + 1 <=> k \in 1 .. m \/ k = m + 1
  OBVIOUS
<1>2. (m + 1) - 1 = m /\ m + 1 \in 1 .. m + 1
  OBVIOUS
<1>3. CASE text[m + 1] # Newline /\ p = P[m]
  <2>1. ~Behind(p, P[m])
    <3>1. P[m] \in Nat \X Cols
      BY DEF IsPaper
    <3>2. P[m][1] \in Nat /\ P[m][2] \in Nat
      BY <3>1, Sizes, Zenon
    <3>3. QED
      BY <1>3, <3>2 DEF Behind
  <2>2. m \in 0 .. Len(text)
    OBVIOUS
  <2>3. Drawn(P, text, m, p) = {}
    BY <2>1, <2>2, SeenBehind, Zenon
  <2>4. Drawn(P, text, m + 1, p) = {m + 1}
    BY <1>1, <1>2, <1>3, <2>3, Zenon DEF Drawn
  <2>5. (CHOOSE k \in {m + 1} : TRUE) = m + 1
    BY Zenon
  <2>6. QED
    BY <1>3, <2>4, <2>5 DEF Seen, Inked
<1>4. CASE ~(text[m + 1] # Newline /\ p = P[m])
  <2>1. Drawn(P, text, m + 1, p) = Drawn(P, text, m, p)
    BY <1>1, <1>2, <1>4, Zenon DEF Drawn
  <2>2. QED
    <3>1. Seen(P, text, m + 1, p) = Seen(P, text, m, p)
      BY <2>1, Zenon DEF Seen
    <3> DEFINE b == text[m + 1] # Newline /\ p = P[m]
    <3>2. ~b
      BY <1>4, Zenon
    <3> HIDE DEF b
    <3>3. Seen(P, text, m + 1, p) = IF b THEN text[m + 1] ELSE Seen(P, text, m, p)
      BY <3>1, <3>2, Zenon
    <3>4. QED
      BY <3>3, Zenon DEF b
<1>5. QED
  BY <1>3, <1>4, Zenon

-----------------------------------------------------------------------------
(* The rounds of terminal_write and of the backspaces on the paper *)

\* The screen shows the paper with the first m characters, from row top on.
ShowsTo(s, P, text, m, top) ==
    /\ s.x = P[m][2]
    /\ top + s.y = P[m][1]
    /\ \A r \in Rows, c \in Cols : s.cells[<<r, c>>] = Seen(P, text, m, <<top + r, c>>)

\* The first row of the paper on the screen when the cursor is at p.
TopOf(p) == IF p[1] < NUM_ROWS THEN 0 ELSE p[1] - (NUM_ROWS - 1)

\* Scrolling moves the rows up and leaves the last one empty.
LEMMA ScrolledRows ==
    ASSUME NEW s \in Sheets, NEW r \in Rows, NEW c \in Cols
    PROVE  scroll_screen(s).cells[<<r, c>>] =
             IF r = NUM_ROWS - 1 THEN Blank ELSE s.cells[<<r + 1, c>>]
<1>1. <<r, c>> \in Cells /\ r \in Nat /\ r < NUM_ROWS
  BY Sizes DEF Cells, Rows
<1>2. scroll_screen(s).cells = [d \in Cells |->
                  IF d[1] < NUM_ROWS - 1 THEN s.cells[<<d[1] + 1, d[2]>>]
                  ELSE IF d[1] = NUM_ROWS - 1 THEN Blank
                  ELSE s.cells[d]]
  BY Zenon DEF scroll_screen
<1>3. scroll_screen(s).cells[<<r, c>>] =
        IF r < NUM_ROWS - 1 THEN s.cells[<<r + 1, c>>]
        ELSE IF r = NUM_ROWS - 1 THEN Blank ELSE s.cells[<<r, c>>]
  BY <1>1, <1>2, Zenon
<1>4. CASE r = NUM_ROWS - 1
  <2>1. ~(r < NUM_ROWS - 1)
    BY <1>4, Sizes
  <2>2. QED
    BY <1>3, <1>4, <2>1, Zenon
<1>5. CASE r # NUM_ROWS - 1
  <2>1. r < NUM_ROWS - 1
    BY <1>1, <1>5, Sizes
  <2>2. QED
    BY <1>3, <1>5, <2>1, Zenon
<1>6. QED
  BY <1>4, <1>5, Zenon

\* A round of terminal_write, cell by cell: d rows are scrolled.
Written(s, c, t, e, d) ==
    /\ t.x = (IF e THEN 0 ELSE s.x + 1)
    /\ t.y = (s.y - d) + (IF e THEN 1 ELSE 0)
    /\ \A r \in Rows, k \in Cols :
         t.cells[<<r, k>>] =
           IF c # Newline /\ r = s.y - d /\ k = s.x THEN c
           ELSE IF d = 0 THEN s.cells[<<r, k>>]
           ELSE IF r = NUM_ROWS - 1 THEN Blank ELSE s.cells[<<r + 1, k>>]

\* What a round of terminal_write does is this.
LEMMA WriteCharDraws ==
    ASSUME NEW s \in Sheets, OnScreen(s), NEW c \in Symbols,
           NEW e \in BOOLEAN, e <=> (c = Newline \/ s.x = NUM_COLS - 1),
           NEW d, d = IF s.y = NUM_ROWS - 1 /\ e THEN 1 ELSE 0
    PROVE  Written(s, c, write_char(s, c), e, d)
<1> DEFINE u == Ready(s, c)
           t == write_char(s, c)
<1>1. t = putc(u, c) /\ u \in Sheets /\ u.x = s.x
  BY WriteCharIs, Zenon
<1>2. s.x \in Cols /\ s.y \in Rows /\ s.y \in Nat /\ s.y < NUM_ROWS /\ NUM_ROWS \in Nat /\ s.x \in Nat
      /\ NUM_COLS \in Nat /\ s.x < NUM_COLS
  BY Sizes, Zenon DEF OnScreen
<1>3. /\ d = 0 => u = s
      /\ d # 0 => u = scroll_screen(s) /\ d = 1 /\ s.y = NUM_ROWS - 1
      /\ d \in {0, 1}
  <2>1. CASE s.y = NUM_ROWS - 1 /\ (c = Newline \/ s.x = NUM_COLS - 1)
    <3>1. u = scroll_screen(s)
      BY <2>1, Zenon DEF Ready
    <3>2. d = 1
      BY <2>1, Zenon
    <3>3. QED
      BY <2>1, <3>1, <3>2
  <2>2. CASE ~(s.y = NUM_ROWS - 1 /\ (c = Newline \/ s.x = NUM_COLS - 1))
    <3>1. u = s
      BY <2>2, Zenon DEF Ready
    <3>2. d = 0
      BY <2>2, Zenon
    <3>3. QED
      BY <3>1, <3>2, Zenon
  <2>3. QED
    BY <2>1, <2>2, Zenon
<1>4. u.y = s.y - d /\ (e => u.y + 1 < NUM_ROWS) /\ u.y \in Nat /\ u.y < NUM_ROWS
  <2>1. CASE d = 0
    BY <1>2, <1>3, <2>1
  <2>2. CASE d # 0
    <3>1. u.y = NUM_ROWS - 2
      BY <1>3, <2>2, ScrollIs, Zenon
    <3>2. NUM_ROWS - 2 \in Nat
      BY TeletypeAssumption
    <3>3. QED
      BY <1>2, <1>3, <2>2, <3>1, <3>2
  <2>3. QED
    BY <2>1, <2>2, Zenon
<1>5. \A r \in Rows, k \in Cols :
        u.cells[<<r, k>>] = IF d = 0 THEN s.cells[<<r, k>>]
                            ELSE IF r = NUM_ROWS - 1 THEN Blank ELSE s.cells[<<r + 1, k>>]
  <2> HIDE DEF u
  <2>1. CASE d = 0
    BY <1>3, <2>1, Zenon
  <2>2. CASE d # 0
    <3>1. u = scroll_screen(s)
      BY <1>3, <2>2, Zenon
    <3>2. \A r \in Rows, k \in Cols : scroll_screen(s).cells[<<r, k>>] =
             IF r = NUM_ROWS - 1 THEN Blank ELSE s.cells[<<r + 1, k>>]
      BY ScrolledRows, Zenon
    <3>3. QED
      BY <2>2, <3>1, <3>2, Zenon
  <2>3. QED
    BY <2>1, <2>2, Zenon
<1> HIDE DEF u, t
<1>6. CASE c = Newline
  <2>1. t = [x |-> 0, y |-> u.y + 1, cells |-> u.cells]
    BY <1>1, <1>6, PutcIs, Zenon
  <2>2. e = TRUE
    BY <1>6, Zenon
  <2>3. t.x = 0 /\ t.y = u.y + 1 /\ t.cells = u.cells
    BY <2>1, Zenon
  <2>4. Written(s, c, t, e, d)
    BY <1>4, <1>5, <1>6, <2>2, <2>3 DEF Written
  <2>5. QED
    BY <2>4, Zenon DEF t
<1>7. CASE c # Newline
  <2>1. /\ t.x = (u.x + 1) % NUM_COLS
        /\ t.y = (u.y + (u.x + 1) \div NUM_COLS) % NUM_ROWS
        /\ t.cells = [u.cells EXCEPT ![<<u.y, u.x>>] = c]
    BY <1>1, <1>7, PutcIs, Zenon
  <2>2. /\ (s.x + 1) % NUM_COLS = IF s.x = NUM_COLS - 1 THEN 0 ELSE s.x + 1
        /\ (s.x + 1) \div NUM_COLS = IF s.x = NUM_COLS - 1 THEN 1 ELSE 0
    BY <1>2, NextColumn, Zenon
  <2>3. t.x = (IF e THEN 0 ELSE s.x + 1)
    BY <1>1, <1>7, <2>1, <2>2, Zenon
  <2>4. t.y = u.y + (IF e THEN 1 ELSE 0)
    <3> DEFINE q == u.y + (s.x + 1) \div NUM_COLS
    <3>1. q = u.y + (IF e THEN 1 ELSE 0)
      BY <1>7, <2>2, Zenon
    <3>2. q \in Rows
      BY <1>2, <1>4, <3>1 DEF Rows
    <3> HIDE DEF q
    <3>3. q % NUM_ROWS = q
      BY <3>2, RowOnScreen, Zenon
    <3>4. t.y = q % NUM_ROWS
      BY <1>1, <2>1, Zenon DEF q
    <3>5. QED
      BY <3>1, <3>3, <3>4, Zenon
  <2>5. ASSUME NEW r \in Rows, NEW k \in Cols
        PROVE  t.cells[<<r, k>>] = IF r = s.y - d /\ k = s.x THEN c ELSE u.cells[<<r, k>>]
    <3>1. <<r, k>> \in Cells
      BY <1>2 DEF Rows, Cells
    <3>2. u.cells \in [Cells -> Symbols]
      BY <1>1, Zenon DEF Sheets
    <3>3. t.cells[<<r, k>>] = IF <<r, k>> = <<u.y, u.x>> THEN c ELSE u.cells[<<r, k>>]
      BY <2>1, <3>1, <3>2, Zenon
    <3>4. <<r, k>> = <<u.y, u.x>> <=> r = s.y - d /\ k = s.x
      BY <1>1, <1>4, Zenon
    <3>5. QED
      BY <3>3, <3>4, Zenon
  <2>6. Written(s, c, t, e, d)
    BY <1>4, <1>5, <1>7, <2>3, <2>4, <2>5 DEF Written
  <2>7. QED
    BY <2>6, Zenon DEF t
<1>8. QED
  BY <1>6, <1>7, Zenon

\* After a round the screen shows one more character, of the end of the paper.
LEMMA WriteShows ==
    ASSUME NEW text, Len(text) \in Nat, NEW P, IsPaper(P, text),
           NEW m \in 0 .. Len(text) - 1, text[m + 1] \in Symbols,
           NEW s \in Sheets, OnScreen(s), ShowsTo(s, P, text, m, TopOf(P[m]))
    PROVE  ShowsTo(write_char(s, text[m + 1]), P, text, m + 1, TopOf(P[m + 1]))
<1> DEFINE c == text[m + 1]
           t == write_char(s, c)
<1>1. P[m] \in Nat \X Cols /\ P[m + 1] = PlaceAfter(P[m], c)
  <2>1. m \in 0 .. Len(text) /\ m + 1 \in 1 .. Len(text) /\ (m + 1) - 1 = m
    OBVIOUS
  <2>2. QED
    BY <2>1, Zenon DEF IsPaper
<1>2. PICK row \in Nat, col \in Cols : P[m] = <<row, col>>
  BY <1>1
<1>3. PICK top : top = TopOf(P[m])
  BY Zenon
<1>4. PICK e \in BOOLEAN : e <=> (c = Newline \/ s.x = NUM_COLS - 1)
  BY Zenon
<1>5. PICK d : d = IF s.y = NUM_ROWS - 1 /\ e THEN 1 ELSE 0
  BY Zenon
<1>6. Written(s, c, t, e, d)
  BY <1>4, <1>5, WriteCharDraws, Zenon
<1>7. /\ s.y \in Nat /\ s.y < NUM_ROWS /\ NUM_ROWS \in Nat /\ NUM_ROWS > 1
      /\ s.x = col /\ top + s.y = row
  BY <1>2, <1>3, Sizes, TeletypeAssumption DEF OnScreen, ShowsTo
<1>8. \A r \in Rows, k \in Cols : s.cells[<<r, k>>] = Seen(P, text, m, <<top + r, k>>)
  BY <1>3, Zenon DEF ShowsTo
<1>9. /\ e => P[m + 1][1] = row + 1 /\ P[m + 1][2] = 0
      /\ ~e => P[m + 1][1] = row /\ P[m + 1][2] = col + 1
  <2>1. EndsRow(P[m], c) <=> e
    BY <1>2, <1>4, <1>7 DEF EndsRow
  <2>2. P[m + 1] = IF e THEN <<row + 1, 0>> ELSE <<row, col + 1>>
    BY <1>1, <1>2, <2>1 DEF PlaceAfter
  <2>3. QED
    BY <2>2
<1> HIDE DEF t, c
<1>10. TopOf(P[m + 1]) = top + d /\ top \in Nat /\ d \in {0, 1}
  <2>1. top = IF row < NUM_ROWS THEN 0 ELSE row - (NUM_ROWS - 1)
    BY <1>2, <1>3 DEF TopOf
  <2>2. CASE e
    <3>1. TopOf(P[m + 1]) = IF row + 1 < NUM_ROWS THEN 0 ELSE (row + 1) - (NUM_ROWS - 1)
      BY <1>9, <2>2, Zenon DEF TopOf
    <3>2. QED
      BY <1>5, <1>7, <2>1, <2>2, <3>1
  <2>3. CASE ~e
    <3>1. TopOf(P[m + 1]) = IF row < NUM_ROWS THEN 0 ELSE row - (NUM_ROWS - 1)
      BY <1>9, <2>3, Zenon DEF TopOf
    <3>2. QED
      BY <1>5, <1>7, <2>1, <2>3, <3>1
  <2>4. QED
    BY <2>2, <2>3, Zenon
<1>15. top \in Nat /\ d \in Nat /\ top + s.y = row /\ s.y \in Nat /\ row \in Nat
  BY <1>7, <1>10
<1>16. PICK y \in Nat : y = s.y
  BY <1>15, Zenon
<1>17. top + y = row
  BY <1>15, <1>16, Zenon
<1>14. t.x = P[m + 1][2] /\ (top + d) + t.y = P[m + 1][1]
  <2>1. t.x = (IF e THEN 0 ELSE s.x + 1) /\ t.y = (s.y - d) + (IF e THEN 1 ELSE 0)
    BY <1>6, Zenon DEF Written
  <2>2. CASE e
    <3>1. t.x = 0 /\ t.y = (y - d) + 1
      BY <1>16, <2>1, <2>2, Zenon
    <3>2. (top + d) + ((y - d) + 1) = row + 1
      BY <1>15, <1>17
    <3>3. QED
      BY <1>9, <2>2, <3>1, <3>2, Zenon
  <2>3. CASE ~e
    <3>1. t.x = col + 1 /\ t.y = (y - d) + 0
      BY <1>7, <1>16, <2>1, <2>3, Zenon
    <3>2. (top + d) + ((y - d) + 0) = row
      BY <1>15, <1>17
    <3>3. QED
      BY <1>9, <2>3, <3>1, <3>2, Zenon
  <2>4. QED
    BY <2>2, <2>3, Zenon
<1>11. ASSUME NEW r \in Rows, NEW k \in Cols
       PROVE  t.cells[<<r, k>>] = Seen(P, text, m + 1, <<(top + d) + r, k>>)
  <2> DEFINE p == <<(top + d) + r, k>>
  <2>1. Seen(P, text, m + 1, p) = IF c # Newline /\ p = P[m] THEN c ELSE Seen(P, text, m, p)
    <3> HIDE DEF p
    <3>1. QED
      BY SeenNext DEF c
  <2>2. t.cells[<<r, k>>] =
           IF c # Newline /\ r = s.y - d /\ k = s.x THEN c
           ELSE IF d = 0 THEN s.cells[<<r, k>>]
           ELSE IF r = NUM_ROWS - 1 THEN Blank ELSE s.cells[<<r + 1, k>>]
    BY <1>6, Zenon DEF Written
  <2>3. r \in Nat /\ r < NUM_ROWS /\ k \in Nat
    BY Sizes, Zenon
  <2>4. p = P[m] <=> r = s.y - d /\ k = s.x
    <3>1. p = P[m] <=> (top + d) + r = row /\ k = col
      BY <1>2
    <3>2. (top + d) + r = row <=> r = s.y - d
      <4>1. (top + d) + r = row <=> r = y - d
        BY <1>15, <1>17, <2>3
      <4>2. QED
        BY <1>16, <4>1, Zenon
    <3>3. QED
      BY <1>7, <3>1, <3>2, Zenon
  <2>5. CASE c # Newline /\ p = P[m]
    BY <2>1, <2>2, <2>4, <2>5, Zenon
  <2>6. CASE ~(c # Newline /\ p = P[m])
    <3>1. Seen(P, text, m + 1, p) = Seen(P, text, m, p)
      BY <2>1, <2>6, Zenon
    <3>2. CASE d = 0
      <4>1. t.cells[<<r, k>>] = s.cells[<<r, k>>]
        BY <2>2, <2>4, <2>6, <3>2, Zenon
      <4>2. (top + d) + r = top + r
        BY <1>10, <2>3, <3>2
      <4>3. QED
        BY <1>8, <3>1, <4>1, <4>2, Zenon
    <3>3. CASE d = 1 /\ r # NUM_ROWS - 1
      <4>1. t.cells[<<r, k>>] = s.cells[<<r + 1, k>>]
        BY <2>2, <2>4, <2>6, <3>3
      <4>2. (top + d) + r = top + (r + 1) /\ r + 1 \in Rows
        BY <1>7, <1>10, <2>3, <3>3 DEF Rows
      <4>3. QED
        BY <1>8, <3>1, <4>1, <4>2, Zenon
    <3>4. CASE d = 1 /\ r = NUM_ROWS - 1
      <4>1. t.cells[<<r, k>>] = Blank
        BY <2>2, <2>4, <2>6, <3>4
      <4>2. ~Behind(p, P[m])
        <5>1. p[1] = (top + d) + r /\ P[m][1] = row
          BY <1>2
        <5>2. (top + d) + r > row
          BY <1>7, <1>10, <2>3, <3>4
        <5>3. (top + d) + r \in Nat
          BY <1>10, <2>3
        <5>4. QED
          BY <5>1, <5>2, <5>3 DEF Behind
      <4>3. m \in 0 .. Len(text)
        OBVIOUS
      <4>4. Seen(P, text, m, p) = Blank
        BY <4>2, <4>3, SeenBehind, Zenon
      <4>5. QED
        BY <3>1, <4>1, <4>4, Zenon
    <3>5. QED
      BY <1>10, <3>2, <3>3, <3>4, Zenon
  <2>7. QED
    BY <2>5, <2>6, Zenon
<1>12. ShowsTo(t, P, text, m + 1, top + d)
  BY <1>11, <1>14, Zenon DEF ShowsTo
<1>13. QED
  BY <1>10, <1>12, Zenon DEF t, c

\* A backspace takes the last character from the paper, if its place is on the
\* screen.
LEMMA BackspaceShows ==
    ASSUME NEW text, Len(text) \in Nat, NEW P, IsPaper(P, text),
           NEW m \in 0 .. Len(text) - 1, text[m + 1] # Newline, NEW top \in Nat, P[m][1] >= top,
           NEW s \in Sheets, OnScreen(s), ShowsTo(s, P, text, m + 1, top)
    PROVE  ShowsTo(backspace_pressed(s), P, text, m, top)
<1> DEFINE c == text[m + 1]
           t == backspace_pressed(s)
<1>1. P[m] \in Nat \X Cols /\ P[m + 1] = PlaceAfter(P[m], c)
  <2>1. m \in 0 .. Len(text) /\ m + 1 \in 1 .. Len(text) /\ (m + 1) - 1 = m
    OBVIOUS
  <2>2. QED
    BY <2>1, Zenon DEF IsPaper
<1>2. PICK row \in Nat, col \in Cols : P[m] = <<row, col>>
  BY <1>1
<1>3. col \in Nat /\ col < NUM_COLS /\ NUM_COLS \in Nat /\ row >= top
  BY <1>2, Sizes
<1>4. P[m + 1] = IF col = NUM_COLS - 1 THEN <<row + 1, 0>> ELSE <<row, col + 1>>
  BY <1>1, <1>2 DEF PlaceAfter, EndsRow
<1>5. s.y \in Nat /\ s.x \in Nat /\ s.y < NUM_ROWS /\ NUM_ROWS \in Nat
      /\ s.x = P[m + 1][2] /\ top + s.y = P[m + 1][1]
  BY Sizes, Zenon DEF OnScreen, ShowsTo
<1>6. PICK y \in Nat : y = s.y
  BY <1>5, Zenon
<1>7. /\ col = NUM_COLS - 1 => s.x = 0 /\ top + y = row + 1
      /\ col # NUM_COLS - 1 => s.x = col + 1 /\ top + y = row
  BY <1>4, <1>5, <1>6
<1> DEFINE b == row - top
<1>8. t = [x |-> col, y |-> b, cells |-> [s.cells EXCEPT ![<<b, col>>] = Blank]]
  <2> DEFINE v == IF s.x = 0 /\ s.y > 0 THEN s.y - 1 ELSE s.y
             x == IF s.x > 0 THEN s.x - 1 ELSE IF s.y > 0 THEN NUM_COLS - 1 ELSE 0
  <2>1. t = [x |-> x, y |-> v, cells |-> [s.cells EXCEPT ![<<v, x>>] = Blank]]
    BY Zenon DEF backspace_pressed
  <2>2. v = b /\ x = col
    <3>1. CASE col = NUM_COLS - 1
      <4>1. s.x = 0 /\ y > 0 /\ y - 1 = b
        BY <1>3, <1>7, <3>1
      <4>2. QED
        BY <1>6, <3>1, <4>1
    <3>2. CASE col # NUM_COLS - 1
      <4>1. s.x > 0 /\ s.x # 0 /\ s.x - 1 = col /\ y = b
        BY <1>3, <1>7, <3>2
      <4>2. QED
        BY <1>6, <4>1, Zenon
    <3>3. QED
      BY <3>1, <3>2, Zenon
  <2> HIDE DEF v, x, b
  <2>3. QED
    BY <2>1, <2>2, Zenon
<1>9. b \in Nat /\ top + b = row
  BY <1>3
<1> HIDE DEF t, b
<1>10. t.x = P[m][2] /\ top + t.y = P[m][1]
  BY <1>2, <1>8, <1>9
<1>11. ASSUME NEW r \in Rows, NEW k \in Cols
       PROVE  t.cells[<<r, k>>] = Seen(P, text, m, <<top + r, k>>)
  <2> DEFINE p == <<top + r, k>>
  <2>1. s.cells[<<r, k>>] = Seen(P, text, m + 1, p)
    BY Zenon DEF ShowsTo
  <2>2. r \in Nat /\ r < NUM_ROWS /\ <<r, k>> \in Cells
    BY Sizes DEF Cells
  <2>3. s.cells \in [Cells -> Symbols]
    BY Zenon DEF Sheets
  <2>4. t.cells[<<r, k>>] = IF <<r, k>> = <<b, col>> THEN Blank ELSE s.cells[<<r, k>>]
    BY <1>8, <2>2, <2>3, Zenon
  <2>5. <<r, k>> = <<b, col>> <=> p = P[m]
    <3>1. top + r = row <=> r = b
      BY <1>9, <2>2
    <3>2. QED
      BY <1>2, <3>1
  <2> HIDE DEF p
  <2>6. Seen(P, text, m + 1, p) =
             IF text[m + 1] # Newline /\ p = P[m] THEN text[m + 1] ELSE Seen(P, text, m, p)
    BY SeenNext
  <2>7. CASE p = P[m]
    <3>1. ~Behind(p, P[m])
      <4>1. P[m][1] \in Nat /\ P[m][2] \in Nat
        BY <1>2, <1>3
      <4>2. QED
        BY <2>7, <4>1 DEF Behind
    <3>2. m \in 0 .. Len(text)
      OBVIOUS
    <3>3. Seen(P, text, m, p) = Blank
      BY <3>1, <3>2, SeenBehind, Zenon
    <3>4. t.cells[<<r, k>>] = Seen(P, text, m, p)
      BY <2>4, <2>5, <2>7, <3>3, Zenon
    <3>5. QED
      BY <3>4, Zenon DEF p
  <2>8. CASE p # P[m]
    <3>1. t.cells[<<r, k>>] = Seen(P, text, m, p)
      BY <2>1, <2>4, <2>5, <2>6, <2>8, Zenon
    <3>2. QED
      BY <3>1, Zenon DEF p
  <2>9. QED
    BY <2>7, <2>8, Zenon
<1>12. QED
  BY <1>10, <1>11, Zenon DEF ShowsTo, t

\* The number of a place, row after row.
Linear(p) == NUM_COLS * p[1] + p[2]

\* A character that is no newline takes one place.
LEMMA PlaceCounts ==
    ASSUME NEW p \in Nat \X Cols, NEW ch, ch # Newline
    PROVE  Linear(PlaceAfter(p, ch)) = Linear(p) + 1
<1>1. PICK r \in Nat, c \in Cols : p = <<r, c>>
  OBVIOUS
<1>2. c \in Nat /\ NUM_COLS \in Nat /\ NUM_COLS * r \in Nat /\ NUM_COLS * (r + 1) = NUM_COLS * r + NUM_COLS
  BY Sizes
<1>3. Linear(p) = NUM_COLS * r + c
  BY <1>1, Zenon DEF Linear
<1>4. CASE c = NUM_COLS - 1
  <2>1. PlaceAfter(p, ch) = <<r + 1, 0>>
    BY <1>1, <1>4, Zenon DEF PlaceAfter, EndsRow
  <2>2. Linear(PlaceAfter(p, ch)) = NUM_COLS * (r + 1) + 0
    BY <2>1 DEF Linear
  <2> DEFINE a == NUM_COLS * r
             b == NUM_COLS * (r + 1)
  <2> HIDE DEF a, b
  <2>3. a \in Nat /\ b = a + NUM_COLS
    BY <1>2, Zenon DEF a, b
  <2>4. b + 0 = (a + c) + 1
    BY <1>2, <1>4, <2>3
  <2>5. QED
    BY <1>3, <2>2, <2>4, Zenon DEF a, b
<1>5. CASE c # NUM_COLS - 1
  <2>1. PlaceAfter(p, ch) = <<r, c + 1>>
    BY <1>1, <1>5, Zenon DEF PlaceAfter, EndsRow
  <2>2. Linear(PlaceAfter(p, ch)) = NUM_COLS * r + (c + 1)
    BY <2>1 DEF Linear
  <2>3. QED
    BY <1>2, <1>3, <2>2
<1>6. QED
  BY <1>4, <1>5, Zenon

\* Places that are less than a screen apart, without its last row.
LEMMA RowStays ==
    ASSUME NEW p \in Nat \X Cols, NEW q \in Nat \X Cols, NEW j \in Nat,
           j <= NUM_COLS * (NUM_ROWS - 1), Linear(q) = Linear(p) + j
    PROVE  p[1] >= TopOf(q)
<1>1. PICK a \in Nat, c \in Cols : p = <<a, c>>
  OBVIOUS
<1>2. PICK b \in Nat, d \in Cols : q = <<b, d>>
  OBVIOUS
<1> DEFINE K == NUM_COLS
           R == NUM_ROWS
<1>3. /\ K \in Nat /\ R \in Nat /\ R > 1
      /\ c \in Nat /\ c < K /\ d \in Nat
  BY Sizes, TeletypeAssumption, Zenon
<1>4. K * b + d = K * a + c + j
  BY <1>1, <1>2, Zenon DEF Linear
<1>5. ASSUME a < b - (R - 1) PROVE FALSE
  <2>1. PICK z \in Nat : b = a + R + z
    <3>1. b - a - R \in Nat /\ b = a + R + (b - a - R)
      BY <1>3, <1>5
    <3>2. QED
      BY <3>1, Zenon
  <2>2. K * b = K * a + K * R + K * z
    BY <1>3, <2>1
  <2>3. K * (R - 1) = K * R - K
    BY <1>3
  <2>4. K * a \in Nat /\ K * R \in Nat /\ K * z \in Nat
    BY <1>3
  <2> DEFINE x == K * a
             y == K * R
             w == K * z
             u == K * b
             v == K * (R - 1)
  <2>5. u = x + y + w /\ v = y - K /\ x \in Nat /\ y \in Nat /\ w \in Nat /\ u + d = x + c + j /\ j <= v
    BY <1>4, <2>2, <2>3, <2>4, Zenon
  <2> HIDE DEF x, y, w, u, v
  <2>6. QED
    BY <1>3, <2>5
<1>6. a >= b - (R - 1)
  BY <1>3, <1>5
<1>7. TopOf(q) = IF b < R THEN 0 ELSE b - (R - 1)
  BY <1>2, Zenon DEF TopOf
<1>8. QED
  BY <1>1, <1>3, <1>6, <1>7

-----------------------------------------------------------------------------
(* Texts that are written, and words that are erased *)

\* The screens whose cursor is on the screen.
SheetsOn == {s \in Sheets : OnScreen(s)}

\* A text that is written from an empty screen on.
LEMMA TextShows ==
    ASSUME NEW text, Len(text) \in Nat, \A i \in 1 .. Len(text) : text[i] \in Symbols,
           NEW P, IsPaper(P, text)
    PROVE  /\ terminal_write(EmptyScreen, text) \in SheetsOn
           /\ ShowsTo(terminal_write(EmptyScreen, text), P, text, Len(text), TopOf(P[Len(text)]))
<1> DEFINE n == Len(text)
           S == SheetsOn
<1>1. EmptyScreen \in S
  <2>1. BlankPage \in [Cells -> Symbols]
    <3>1. Blank \in Symbols
      BY Zenon DEF Symbols
    <3>2. QED
      BY <3>1, Zenon DEF BlankPage
  <2>2. 0 \in Cols /\ 0 \in Rows /\ 0 \in Nat
    BY Sizes, Zenon
  <2>3. EmptyScreen \in Sheets
    BY <2>1, <2>2, Zenon DEF EmptyScreen, Sheets
  <2>4. OnScreen(EmptyScreen)
    BY <2>2, Zenon DEF EmptyScreen, OnScreen
  <2>5. QED
    BY <2>3, <2>4, Zenon DEF SheetsOn
<1>2. \A v \in S, i \in 1 .. n : write_char(v, text[i]) \in S
  BY WriteCharKeeps, Zenon DEF SheetsOn
<1> HIDE DEF S
<1>3. PICK f : /\ \A i \in 0 .. n : f[i] \in S
               /\ f[0] = EmptyScreen
               /\ \A i \in 1 .. n : f[i] = write_char(f[i - 1], text[i])
               /\ terminal_write(EmptyScreen, text) = f[n]
  BY <1>1, <1>2, WriteLoop
<1> DEFINE T == {i \in Nat : i <= n => ShowsTo(f[i], P, text, i, TopOf(P[i]))}
<1>4. 0 \in T
  <2>1. P[0] = <<0, 0>>
    BY Zenon DEF IsPaper
  <2>2. TopOf(P[0]) = 0
    BY <2>1, Sizes DEF TopOf
  <2>3. \A p : Seen(P, text, 0, p) = Blank
    <3>1. \A p : Drawn(P, text, 0, p) = {}
      BY DEF Drawn
    <3>2. QED
      BY <3>1, Zenon DEF Seen, Inked
  <2>4. \A r \in Rows, c \in Cols : BlankPage[<<r, c>>] = Blank
    <3>1. \A r \in Rows, c \in Cols : <<r, c>> \in Cells
      BY Sizes DEF Cells
    <3>2. QED
      BY <3>1, Zenon DEF BlankPage
  <2>5. ShowsTo(EmptyScreen, P, text, 0, 0)
    BY <2>1, <2>3, <2>4 DEF ShowsTo, EmptyScreen
  <2>6. QED
    BY <1>3, <2>2, <2>5, Zenon
<1>5. ASSUME NEW i \in Nat, i \in T PROVE i + 1 \in T
  <2> SUFFICES ASSUME i + 1 <= n PROVE ShowsTo(f[i + 1], P, text, i + 1, TopOf(P[i + 1]))
    OBVIOUS
  <2>1. i \in 0 .. n /\ i \in 0 .. Len(text) - 1 /\ i + 1 \in 1 .. n /\ (i + 1) - 1 = i
    OBVIOUS
  <2>2. f[i + 1] = write_char(f[i], text[i + 1]) /\ f[i] \in S /\ text[i + 1] \in Symbols
    BY <1>3, <2>1, Zenon
  <2>3. f[i] \in Sheets /\ OnScreen(f[i]) /\ ShowsTo(f[i], P, text, i, TopOf(P[i]))
    BY <1>5, <2>2 DEF S, SheetsOn
  <2>4. ShowsTo(write_char(f[i], text[i + 1]), P, text, i + 1, TopOf(P[i + 1]))
    BY <2>1, <2>2, <2>3, WriteShows, Zenon
  <2>5. QED
    BY <2>2, <2>4, Zenon
<1> HIDE DEF T
<1>6. Nat \subseteq T
  BY <1>4, <1>5, NatSetInduction, Zenon
<1>7. ShowsTo(f[n], P, text, n, TopOf(P[n]))
  BY <1>6 DEF T
<1>8. f[n] \in S
  BY <1>3
<1>9. QED
  BY <1>3, <1>7, <1>8, Zenon DEF S

\* The states of the loop of the backspaces.
LEMMA EraseLoop ==
    ASSUME NEW s \in SheetsOn, NEW word, Len(word) \in Nat
    PROVE  \E f : /\ \A n \in 0 .. Len(word) : f[n] \in SheetsOn
                  /\ f[0] = s
                  /\ \A n \in 1 .. Len(word) : f[n] = backspace_pressed(f[n - 1])
                  /\ EachChar(erased_char, s, word) = f[Len(word)]
<1> DEFINE S == SheetsOn
           N == Len(word)
           g == [i \in Nat |-> [v \in S |-> backspace_pressed(v)]]
           Q(f) == f = [n \in 0 .. N |-> IF n = 0 THEN s ELSE backspace_pressed(f[n - 1])]
           F == CHOOSE f : Q(f)
<1>1. EachChar(erased_char, s, word) = F[N]
  BY Zenon DEF EachChar, erased_char
<1>2. \A v \in S : backspace_pressed(v) \in S
  BY BackspaceIs, Zenon DEF SheetsOn
<1> HIDE DEF S
<1>3. g \in [Nat -> [S -> S]]
  BY <1>2, Zenon
<1> HIDE DEF g
<1>4. PICK f : IsLoop(f, S, s, g, N)
  BY <1>3, LoopExists, Zenon DEF S
<1>5. /\ f \in [0 .. N -> S] /\ f[0] = s
      /\ \A i \in 1 .. N : f[i] = backspace_pressed(f[i - 1])
  <2>1. f \in [0 .. N -> S] /\ f[0] = s /\ \A i \in 1 .. N : f[i] = g[i][f[i - 1]]
    BY <1>4, Zenon DEF IsLoop
  <2>2. \A i \in 1 .. N : i \in Nat /\ i - 1 \in 0 .. N /\ f[i - 1] \in S
    BY <2>1
  <2>3. \A i \in Nat, v \in S : g[i][v] = backspace_pressed(v)
    BY Zenon DEF g
  <2>4. QED
    BY <2>1, <2>2, <2>3, Zenon
<1>6. Q(f)
  <2>1. \A i \in 0 .. N : f[i] = IF i = 0 THEN s ELSE backspace_pressed(f[i - 1])
    <3>1. \A i \in 0 .. N : i = 0 \/ i \in 1 .. N
      OBVIOUS
    <3>2. QED
      BY <1>5, <3>1, Zenon
  <2>2. f = [i \in 0 .. N |-> f[i]]
    BY <1>5, Zenon
  <2>3. QED
    BY <2>1, <2>2, Zenon
<1>7. Q(F)
  <2> HIDE DEF Q
  <2>1. QED
    BY <1>6, Zenon
<1> HIDE DEF F
<1>8. F[0] = s /\ \A i \in 1 .. N : F[i] = backspace_pressed(F[i - 1])
  <2>1. \A i \in 0 .. N : F[i] = IF i = 0 THEN s ELSE backspace_pressed(F[i - 1])
    BY <1>7, Zenon
  <2>2. 0 \in 0 .. N /\ \A i \in 1 .. N : i \in 0 .. N /\ i # 0
    OBVIOUS
  <2>3. QED
    BY <2>1, <2>2, Zenon
<1>9. \A i \in 0 .. N : F[i] \in S
  <2>1. \A i \in 1 .. N : F[i - 1] \in S => F[i] \in S
    BY <1>2, <1>8, Zenon
  <2>2. F[0] \in S
    BY <1>8, Zenon DEF S
  <2>3. QED
    BY ZenonT(60), <2>1, <2>2, LoopStays
<1>10. QED
  BY <1>1, <1>8, <1>9, Zenon DEF S

\* A word typed behind a text and erased again leaves the text on the paper.
LEMMA WordErased ==
    ASSUME NEW text, Len(text) \in Nat, NEW P, IsPaper(P, text),
           NEW n \in 0 .. Len(text), \A i \in n + 1 .. Len(text) : text[i] # Newline,
           Len(text) - n <= NUM_COLS * (NUM_ROWS - 1),
           NEW f, \A i \in 0 .. Len(text) - n : f[i] \in SheetsOn,
           ShowsTo(f[0], P, text, Len(text), TopOf(P[Len(text)])),
           \A i \in 1 .. Len(text) - n : f[i] = backspace_pressed(f[i - 1])
    PROVE  ShowsTo(f[Len(text) - n], P, text, n, TopOf(P[Len(text)]))
<1> DEFINE N == Len(text)
           w == N - n
           top == TopOf(P[N])
           T == {j \in Nat : j <= w => /\ ShowsTo(f[j], P, text, N - j, top)
                                       /\ Linear(P[N]) = Linear(P[N - j]) + j}
<1>0. \A i \in 0 .. N : P[i] \in Nat \X Cols /\ Linear(P[i]) \in Nat
  <2>1. \A i \in 0 .. N : P[i] \in Nat \X Cols
    BY Zenon DEF IsPaper
  <2>2. \A p \in Nat \X Cols : Linear(p) \in Nat
    BY Sizes DEF Linear
  <2>3. QED
    BY <2>1, <2>2, Zenon
<1>1. w \in Nat /\ N \in Nat /\ top \in Nat
  <2>1. P[N][1] \in Nat
    BY <1>0
  <2>2. QED
    BY <2>1, TeletypeAssumption DEF TopOf
<1> HIDE DEF top
<1>2. 0 \in T
  <2>1. N - 0 = N /\ Linear(P[N]) + 0 = Linear(P[N])
    BY <1>0, <1>1
  <2>2. ShowsTo(f[0], P, text, N, top)
    BY Zenon DEF top
  <2>3. QED
    BY <2>1, <2>2, Zenon
<1>3. ASSUME NEW j \in Nat, j \in T PROVE j + 1 \in T
  <2> DEFINE m == N - (j + 1)
  <2> SUFFICES ASSUME j + 1 <= w
               PROVE  ShowsTo(f[j + 1], P, text, m, top) /\ Linear(P[N]) = Linear(P[m]) + (j + 1)
    OBVIOUS
  <2>1. /\ m \in 0 .. Len(text) - 1 /\ m + 1 = N - j /\ m + 1 \in n + 1 .. N /\ m \in 0 .. N
        /\ m + 1 \in 1 .. N /\ (m + 1) - 1 = m /\ m + 1 \in 0 .. N
        /\ j \in 0 .. w /\ j + 1 \in 1 .. w /\ (j + 1) - 1 = j
    BY <1>1
  <2> HIDE DEF m
  <2>2. ShowsTo(f[j], P, text, m + 1, top) /\ Linear(P[N]) = Linear(P[m + 1]) + j
    BY <1>3, <2>1
  <2>3. text[m + 1] # Newline /\ f[j + 1] = backspace_pressed(f[j])
    BY <2>1, Zenon
  <2>4. Linear(P[m + 1]) = Linear(P[m]) + 1
    <3>1. P[m + 1] = PlaceAfter(P[m], text[m + 1])
      BY <2>1, Zenon DEF IsPaper
    <3>2. P[m] \in Nat \X Cols
      BY <1>0, <2>1, Zenon
    <3>3. QED
      BY <2>3, <3>1, <3>2, PlaceCounts, Zenon
  <2>5. Linear(P[N]) = Linear(P[m]) + (j + 1)
    <3>1. Linear(P[m]) \in Nat
      BY <1>0, <2>1, Zenon
    <3>2. QED
      BY <2>2, <2>4, <3>1
  <2>6. P[m][1] >= top
    <3>1. j + 1 \in Nat /\ P[m] \in Nat \X Cols /\ P[N] \in Nat \X Cols
      BY <1>0, <1>1, <2>1
    <3>2. j + 1 <= NUM_COLS * (NUM_ROWS - 1)
      <4>1. NUM_COLS * (NUM_ROWS - 1) \in Int
        BY Sizes
      <4> DEFINE x == NUM_COLS * (NUM_ROWS - 1)
      <4>2. x \in Int /\ w <= x
        BY <4>1, Zenon
      <4> HIDE DEF x
      <4>3. j + 1 <= x
        BY <1>1, <4>2
      <4>4. QED
        BY <4>3, Zenon DEF x
    <3>3. QED
      BY <2>5, <3>1, <3>2, RowStays, Zenon DEF top
  <2>7. f[j] \in Sheets /\ OnScreen(f[j])
    BY <2>1, Zenon DEF SheetsOn
  <2>8. ShowsTo(backspace_pressed(f[j]), P, text, m, top)
    BY <1>1, <2>1, <2>2, <2>3, <2>6, <2>7, BackspaceShows
  <2>9. QED
    BY <2>3, <2>5, <2>8, Zenon
<1> HIDE DEF T
<1>4. Nat \subseteq T
  BY <1>2, <1>3, NatSetInduction, Zenon
<1>5. ShowsTo(f[w], P, text, N - w, top) /\ N - w = n
  BY <1>1, <1>4 DEF T
<1>6. QED
  BY <1>5, Zenon DEF top

\* What stands before a word is at the same places without it.
LEMMA PaperPrefix ==
    ASSUME NEW text, Len(text) \in Nat, NEW longer, Len(longer) \in Nat, Len(text) <= Len(longer),
           \A i \in 1 .. Len(text) : longer[i] = text[i],
           NEW P, IsPaper(P, text), NEW Q, IsPaper(Q, longer)
    PROVE  \A i \in 0 .. Len(text) : P[i] = Q[i]
<1> DEFINE T == {i \in Nat : i <= Len(text) => P[i] = Q[i]}
<1>1. 0 \in T
  BY Zenon DEF IsPaper
<1>2. ASSUME NEW i \in Nat, i \in T PROVE i + 1 \in T
  <2> SUFFICES ASSUME i + 1 <= Len(text) PROVE P[i + 1] = Q[i + 1]
    OBVIOUS
  <2>1. i + 1 \in 1 .. Len(text) /\ i + 1 \in 1 .. Len(longer) /\ (i + 1) - 1 = i
    OBVIOUS
  <2>2. P[i + 1] = PlaceAfter(P[i], text[i + 1]) /\ Q[i + 1] = PlaceAfter(Q[i], longer[i + 1])
    BY <2>1, Zenon DEF IsPaper
  <2>3. P[i] = Q[i] /\ longer[i + 1] = text[i + 1]
    BY <1>2, <2>1
  <2>4. QED
    BY <2>2, <2>3, Zenon
<1> HIDE DEF T
<1>3. Nat \subseteq T
  BY <1>1, <1>2, NatSetInduction, Zenon
<1>4. QED
  BY <1>3 DEF T

\* A screen that shows the first characters of a longer text shows the text.
LEMMA PrefixShown ==
    ASSUME NEW text, Len(text) \in Nat, NEW longer,
           \A i \in 1 .. Len(text) : longer[i] = text[i],
           NEW P, NEW Q, \A i \in 0 .. Len(text) : P[i] = Q[i],
           NEW s, NEW top, ShowsTo(s, Q, longer, Len(text), top)
    PROVE  ShowsTo(s, P, text, Len(text), top)
<1> DEFINE n == Len(text)
<1>1. ASSUME NEW p PROVE Seen(P, text, n, p) = Seen(Q, longer, n, p)
  <2>1. PICK D : D = Drawn(P, text, n, p)
    BY Zenon
  <2>2. D = Drawn(Q, longer, n, p)
    <3>1. \A k \in 1 .. n : longer[k] = text[k] /\ P[k - 1] = Q[k - 1]
      OBVIOUS
    <3>2. QED
      BY <2>1, <3>1, Zenon DEF Drawn
  <2>3. D \subseteq 1 .. n
    BY <2>1, Zenon DEF Drawn
  <2>4. Inked(text, D) = Inked(longer, D)
    <3>1. CASE D = {}
      BY <3>1, Zenon DEF Inked
    <3>2. CASE D # {}
      <4>1. PICK k : k = CHOOSE j \in D : TRUE
        BY Zenon
      <4>2. k \in D
        BY <3>2, <4>1, Zenon
      <4>3. Inked(text, D) = text[k] /\ Inked(longer, D) = longer[k]
        BY <3>2, <4>1, Zenon DEF Inked
      <4>4. QED
        BY <2>3, <4>2, <4>3, Zenon
    <3>3. QED
      BY <3>1, <3>2, Zenon
  <2>5. QED
    BY <2>1, <2>2, <2>4, Zenon DEF Seen
<1>2. P[n] = Q[n]
  OBVIOUS
<1>3. QED
  BY <1>1, <1>2, Zenon DEF ShowsTo

\* Shows with the places and what is seen there by name.
LEMMA ShownIs ==
    ASSUME NEW text, Len(text) \in Nat, NEW s, s.y \in Nat, NEW top \in Nat,
           ShowsTo(s, Place(text), text, Len(text), top)
    PROVE  Shows(s, text, top)
<1>1. Place(text)[Len(text)] \in Nat \X Cols
  BY PaperIs DEF IsPaper
<1>2. <<top + s.y, s.x>> = Place(text)[Len(text)]
  BY <1>1 DEF ShowsTo
<1>3. \A r \in Rows, c \in Cols :
        s.cells[<<r, c>>] = Seen(Place(text), text, Len(text), <<top + r, c>>)
  BY Zenon DEF ShowsTo
<1>4. QED
  BY <1>2, <1>3, Zenon DEF Shows, Seen, Inked, Drawn

\* The top of the screen is the row TopOf names.
LEMMA TopIs ==
    ASSUME NEW text, Len(text) \in Nat
    PROVE  /\ Top(text) = TopOf(Place(text)[Len(text)])
           /\ Top(text) \in Nat
<1>1. PICK p : p = Place(text)[Len(text)]
  BY Zenon
<1>2. p \in Nat \X Cols
  BY <1>1, PaperIs DEF IsPaper
<1>3. Top(text) = TopOf(p)
  BY <1>1, Zenon DEF Top, TopOf
<1>4. p[1] \in Nat /\ NUM_ROWS \in Nat
  BY <1>2, TeletypeAssumption, Zenon
<1>5. TopOf(p) \in Nat
  BY <1>4 DEF TopOf
<1>6. QED
  BY <1>1, <1>3, <1>5, Zenon

\* The texts of CallWrite and CallErase are sequences of characters.
LEMMA ShortTextIs ==
    ASSUME NEW max, NEW text \in ShortTexts(max)
    PROVE  /\ text \in Seq(Symbols) /\ Len(text) \in Nat
           /\ \A i \in 1 .. Len(text) : text[i] \in Symbols
<1>1. PICK n \in 0 .. max : text \in [1 .. n -> {"a", "1", Newline}]
  BY Zenon DEF ShortTexts
<1>2. {"a", "1", Newline} \subseteq Symbols
  BY Zenon DEF Symbols, Newline
<1>3. text \in [1 .. n -> Symbols]
  BY <1>1, <1>2, Zenon
<1>4. QED
  BY <1>3

\* A text that is written is shown.
LEMMA WriteStep ==
    ASSUME CallWrite
    PROVE  ShowsEndOfText' /\ call'.op = "terminal_write"
<1>1. PICK text \in ShortTexts(MaxText) :
           Does([op |-> "terminal_write", text |-> text], terminal_write(EmptyScreen, text))
  BY Zenon DEF CallWrite
<1>2. PICK s : s = terminal_write(EmptyScreen, text)
  BY Zenon
<1>3. call' = [op |-> "terminal_write", text |-> text] /\ result' = s
  BY <1>1, <1>2, Zenon DEF Does
<1>4. Len(text) \in Nat /\ \A i \in 1 .. Len(text) : text[i] \in Symbols
  BY ShortTextIs, Zenon
<1>5. IsPaper(Place(text), text)
  BY <1>4, PaperIs, Zenon
<1>6. s \in SheetsOn /\ ShowsTo(s, Place(text), text, Len(text), TopOf(Place(text)[Len(text)]))
  BY <1>2, <1>4, <1>5, TextShows, Zenon
<1>7. Top(text) = TopOf(Place(text)[Len(text)]) /\ Top(text) \in Nat
  BY <1>4, TopIs, Zenon
<1>8. s.y \in Nat
  BY <1>6, Zenon DEF SheetsOn, Sheets
<1>9. Shows(s, text, Top(text))
  BY <1>4, <1>6, <1>7, <1>8, ShownIs, Zenon
<1>10. QED
  BY <1>3, <1>9, Zenon DEF ShowsEndOfText

\* A word that is typed behind it and erased leaves it there.
LEMMA EraseStep ==
    ASSUME CallErase
    PROVE  ErasesTyped' /\ call'.op = "backspace_pressed"
<1>1. PICK text \in ShortTexts(MaxText - MaxWord), n \in 1 .. MaxWord :
           LET word == [i \in 1 .. n |-> "1"]
               typed == terminal_write(EmptyScreen, text \o word)
           IN  Does([op |-> "backspace_pressed", text |-> text, word |-> word],
                    EachChar(erased_char, typed, word))
  BY Zenon DEF CallErase
<1>2. PICK word : word = [i \in 1 .. n |-> "1"]
  BY Zenon
<1>3. PICK both : both = text \o word
  BY Zenon
<1>4. PICK typed : typed = terminal_write(EmptyScreen, both)
  BY Zenon
<1>5. PICK s : s = EachChar(erased_char, typed, word)
  BY Zenon
<1>6. call' = [op |-> "backspace_pressed", text |-> text, word |-> word] /\ result' = s
  BY <1>1, <1>2, <1>3, <1>4, <1>5, Zenon DEF Does
<1>7. n \in Nat /\ n <= NUM_COLS * (NUM_ROWS - 1)
  <2>1. NUM_COLS * (NUM_ROWS - 1) \in Int
    BY TeletypeAssumption
  <2> DEFINE x == NUM_COLS * (NUM_ROWS - 1)
  <2>2. x \in Int /\ MaxWord \in Nat /\ MaxWord <= x
    BY <2>1, WordAssumption, Zenon
  <2> HIDE DEF x
  <2>3. n \in Nat /\ n <= x
    BY <2>2
  <2>4. QED
    BY <2>3, Zenon DEF x
<1>8. text \in Seq(Symbols) /\ Len(text) \in Nat
  BY ShortTextIs, Zenon
<1>9. word \in Seq(Symbols) /\ Len(word) = n /\ \A i \in 1 .. n : word[i] = "1"
  <2>1. "1" \in Symbols
    BY Zenon DEF Symbols
  <2>2. word \in [1 .. n -> Symbols]
    BY <1>2, <2>1, Zenon
  <2>3. QED
    BY <1>2, <1>7, <2>2
<1>10. PICK m \in Nat : m = Len(text)
  BY <1>8, Zenon
<1>11. /\ both \in Seq(Symbols) /\ Len(both) = m + n
       /\ \A i \in 1 .. m : both[i] = text[i]
       /\ \A i \in m + 1 .. m + n : both[i] = "1"
  <2>1. \A i \in 1 .. m + n : both[i] = IF i <= m THEN text[i] ELSE word[i - m]
    BY <1>3, <1>7, <1>8, <1>9, <1>10
  <2>2. both \in Seq(Symbols) /\ Len(both) = m + n
    <3>1. \A u, v \in Seq(Symbols) : u \o v \in Seq(Symbols) /\ Len(u \o v) = Len(u) + Len(v)
      OBVIOUS
    <3>2. both \in Seq(Symbols) /\ Len(both) = Len(text) + Len(word)
      BY <1>3, <1>8, <1>9, <3>1, Zenon
    <3>3. QED
      BY <1>9, <1>10, <3>2, Zenon
  <2>3. \A i \in 1 .. m : i \in 1 .. m + n /\ i <= m
    BY <1>7
  <2>4. \A i \in m + 1 .. m + n : i \in 1 .. m + n /\ ~(i <= m) /\ i - m \in 1 .. n
    BY <1>7
  <2>5. QED
    BY <1>9, <2>1, <2>2, <2>3, <2>4, Zenon
<1>12. /\ Len(both) \in Nat /\ \A i \in 1 .. Len(both) : both[i] \in Symbols
       /\ \A i \in m + 1 .. Len(both) : both[i] # Newline
  BY <1>7, <1>11 DEF Newline
<1>13. PICK Q : Q = Place(both)
  BY Zenon
<1>14. PICK top : top = TopOf(Q[Len(both)])
  BY Zenon
<1>15. IsPaper(Q, both) /\ Top(both) = top /\ top \in Nat
  BY <1>12, <1>13, <1>14, PaperIs, TopIs, Zenon
<1>16. typed \in SheetsOn /\ ShowsTo(typed, Q, both, Len(both), top)
  BY <1>4, <1>12, <1>14, <1>15, TextShows, Zenon
<1>17. Len(word) \in Nat
  BY <1>7, <1>9, Zenon
<1>18. PICK f : /\ \A i \in 0 .. Len(word) : f[i] \in SheetsOn
                /\ f[0] = typed
                /\ \A i \in 1 .. Len(word) : f[i] = backspace_pressed(f[i - 1])
                /\ EachChar(erased_char, typed, word) = f[Len(word)]
  BY <1>16, <1>17, EraseLoop, Zenon
<1>19. s = f[n] /\ s \in SheetsOn
  <2>1. n \in 0 .. n
    BY <1>7
  <2>2. QED
    BY <1>5, <1>9, <1>18, <2>1, Zenon
<1>20. ShowsTo(f[Len(both) - m], Q, both, m, TopOf(Q[Len(both)]))
  <2>1. Len(both) - m = n /\ m \in 0 .. Len(both)
    BY <1>7, <1>11
  <2>2. \A i \in 0 .. Len(both) - m : f[i] \in SheetsOn
    BY <1>9, <1>18, <2>1, Zenon
  <2>3. \A i \in 1 .. Len(both) - m : f[i] = backspace_pressed(f[i - 1])
    BY <1>9, <1>18, <2>1, Zenon
  <2>4. ShowsTo(f[0], Q, both, Len(both), TopOf(Q[Len(both)]))
    BY <1>14, <1>16, <1>18, Zenon
  <2>5. Len(both) - m <= NUM_COLS * (NUM_ROWS - 1)
    BY <1>7, <2>1, Zenon
  <2>6. QED
    BY <1>12, <1>15, <2>1, <2>2, <2>3, <2>4, <2>5, WordErased, Zenon
<1>21. ShowsTo(s, Q, both, m, top)
  <2>1. Len(both) - m = n
    BY <1>7, <1>11
  <2>2. QED
    BY <1>14, <1>19, <1>20, <2>1, Zenon
<1>22. PICK P : P = Place(text)
  BY Zenon
<1>23. \A i \in 0 .. m : P[i] = Q[i]
  <2>1. IsPaper(P, text)
    BY <1>8, <1>22, PaperIs, Zenon
  <2>2. Len(text) <= Len(both) /\ \A i \in 1 .. Len(text) : both[i] = text[i]
    BY <1>7, <1>10, <1>11
  <2>3. QED
    BY <1>8, <1>10, <1>12, <1>15, <2>1, <2>2, PaperPrefix
<1>24. ShowsTo(s, Place(text), text, Len(text), top)
  <2>1. /\ \A i \in 1 .. Len(text) : both[i] = text[i]
        /\ \A i \in 0 .. Len(text) : P[i] = Q[i]
        /\ ShowsTo(s, Q, both, Len(text), top)
    BY <1>10, <1>11, <1>21, <1>23, Zenon
  <2>2. ShowsTo(s, P, text, Len(text), top)
    BY <1>8, <2>1, PrefixShown, Zenon
  <2>3. QED
    BY <1>22, <2>2, Zenon
<1>25. s.y \in Nat
  BY <1>19, Zenon DEF SheetsOn, Sheets
<1>26. Shows(s, text, Top(both))
  BY <1>8, <1>15, <1>24, <1>25, ShownIs, Zenon
<1>27. call'.op = "backspace_pressed" /\ call'.text = text /\ call'.text \o call'.word = both
  BY <1>3, <1>6, Zenon
<1>28. QED
  BY <1>6, <1>26, <1>27, Zenon DEF ErasesTyped

\* Calls of the two routines, on screens of any size.
TextCalls == call = None /\ result = <<>> /\ [][CallWrite \/ CallErase]_<<call, result>>

\* TextIsShown: on a screen of any size a text of any length is shown to its
\* end, and a word that fits the screen is typed and erased without a trace.
THEOREM TextStaysShown == TextCalls => []TextIsShown
<1>1. call = None => TextIsShown
  BY DEF None, TextIsShown, ShowsEndOfText, ErasesTyped
<1>2. TextIsShown /\ [CallWrite \/ CallErase]_<<call, result>> => TextIsShown'
  <2> SUFFICES ASSUME TextIsShown, [CallWrite \/ CallErase]_<<call, result>>
               PROVE  TextIsShown'
    BY Zenon
  <2>1. CASE CallWrite
    <3>1. ShowsEndOfText' /\ call'.op = "terminal_write"
      BY <2>1, WriteStep, Zenon
    <3>2. ErasesTyped'
      BY <3>1, Zenon DEF ErasesTyped
    <3>3. QED
      BY <3>1, <3>2, Zenon DEF TextIsShown
  <2>2. CASE CallErase
    <3>1. ErasesTyped' /\ call'.op = "backspace_pressed"
      BY <2>2, EraseStep, Zenon
    <3>2. ShowsEndOfText'
      BY <3>1, Zenon DEF ShowsEndOfText
    <3>3. QED
      BY <3>1, <3>2, Zenon DEF TextIsShown
  <2>3. CASE UNCHANGED <<call, result>>
    BY <2>3, Zenon DEF TextIsShown, ShowsEndOfText, ErasesTyped
  <2>4. QED
    BY <2>1, <2>2, <2>3, Zenon
<1>3. QED
  BY <1>1, <1>2, PTL DEF TextCalls

-----------------------------------------------------------------------------
(* Who owns the pages *)

\* The second half of PagesOwned.
Owned ==
    \A t \in Terminals :
        PT1[t] = video_mem[t] /\ video_mem[t] = IF t = displayed THEN VIDEO ELSE t

WindowNames == {"borrowed", "execute", "printf", "vidmap"}

\* Terminals and pages.
LEMMA TerminalsAre ==
    /\ TERMINAL_COUNT \in Nat /\ TERMINAL_COUNT > 0 /\ 0 \in Terminals
    /\ VIDEO \notin Terminals /\ VIDEO \in Pages
    /\ \A t \in Terminals : t \in Pages /\ t \in Nat /\ t < TERMINAL_COUNT
    /\ \A t \in Nat : t < TERMINAL_COUNT => t \in Terminals
BY ScreenAssumption DEF Terminals, VIDEO, Pages

\* The screen of a terminal is one.
LEMMA CurrentIs ==
    ASSUME TypeOK, NEW t \in Terminals
    PROVE  /\ Current(t) \in Sheets
           /\ Current(t).x = screen_x[t] /\ Current(t).y = screen_y[t]
           /\ Current(t).cells = page[video_mem[t]]
BY TerminalsAre, Zenon DEF TypeOK, Current, Sheets

\* Drawing changes the cursor of one terminal and one page.
LEMMA DrawIs ==
    ASSUME TypeOK, NEW t \in Terminals, NEW s \in Sheets, Draw(t, s)
    PROVE  /\ screen_x' \in [Terminals -> Cols] /\ screen_y' \in [Terminals -> Nat]
           /\ page' \in [Pages -> [Cells -> Symbols]]
           /\ screen_x'[t] = s.x /\ screen_y'[t] = s.y /\ page'[video_mem[t]] = s.cells
           /\ \A u \in Terminals : u # t => screen_x'[u] = screen_x[u] /\ screen_y'[u] = screen_y[u]
           /\ \A p \in Pages : p # video_mem[t] => page'[p] = page[p]
BY Zenon DEF TypeOK, Draw, Sheets

\* Drawing leaves the pages where they are.
LEMMA DrawKeeps ==
    ASSUME PagesOwned, NEW t \in Terminals, NEW s \in Sheets, Draw(t, s),
           UNCHANGED <<tty, tickVars, video_mem, PT1, vid, displayed>>,
           terminal_num' \in Terminals, cursor' \in Nat,
           windows \subseteq windows', windows' \subseteq WindowNames
    PROVE  PagesOwned'
<1>1. TypeOK
  BY Zenon DEF PagesOwned
<1>2. /\ screen_x' \in [Terminals -> Cols] /\ screen_y' \in [Terminals -> Nat]
      /\ page' \in [Pages -> [Cells -> Symbols]]
  BY <1>1, DrawIs, Zenon
<1>3. TypeOK'
  BY <1>1, <1>2, Zenon DEF TypeOK, WindowNames, tickVars
<1>4. QED
  BY <1>3, Zenon DEF PagesOwned

\* The VGA cursor keeps its type (update_cursor).
LEMMA CursorIs ==
    ASSUME NEW tn, NEW running, NEW x \in Cols, NEW y \in Nat, cursor \in Nat,
           update_cursor(tn, running, x, y)
    PROVE  cursor' \in Nat
<1>1. y * NUM_COLS + x \in Nat
  BY PlaceIs, Zenon
<1>2. QED
  BY <1>1, Zenon DEF update_cursor

\* Writes, echoed keys and reports are drawings.
LEMMA WriteKeeps == ASSUME PagesOwned, NEW text \in Texts, write(text) PROVE PagesOwned'
<1> DEFINE s == terminal_write(Current(tty), text)
<1>1. TypeOK /\ tty \in Terminals /\ terminal_num \in Terminals /\ cursor \in Nat
      /\ windows \subseteq WindowNames
  BY Zenon DEF PagesOwned, TypeOK, WindowNames
<1>2. s \in Sheets
  BY <1>1, CurrentIs, TextsAre, WrittenIs, Zenon
<1>3. Draw(tty, s)
      /\ UNCHANGED <<terminal_num, tty, tickVars, video_mem, PT1, vid, displayed, windows>>
      /\ update_cursor(terminal_num, tty, screen_x'[terminal_num], screen_y'[terminal_num])
  BY Zenon DEF write
<1> HIDE DEF s
<1>4. screen_x'[terminal_num] \in Cols /\ screen_y'[terminal_num] \in Nat
  BY <1>1, <1>2, <1>3, DrawIs, Zenon
<1>5. cursor' \in Nat
  BY <1>1, <1>3, <1>4, CursorIs, Zenon
<1>6. QED
  BY <1>1, <1>2, <1>3, <1>5, DrawKeeps, Zenon

\* An echoed character or newline.
LEMMA EchoKeeps ==
    ASSUME PagesOwned, NEW c \in Symbols, echo(<<c>>)
    PROVE  PagesOwned'
<1> DEFINE s == terminal_write(Current(terminal_num), <<c>>)
<1>1. TypeOK /\ terminal_num \in Terminals /\ cursor \in Nat /\ windows \subseteq WindowNames
  BY Zenon DEF PagesOwned, TypeOK, WindowNames
<1>2. s \in Sheets
  <2>1. Len(<<c>>) \in Nat /\ \A n \in 1 .. Len(<<c>>) : <<c>>[n] \in Symbols
    OBVIOUS
  <2>2. QED
    BY ZenonT(60), <1>1, <2>1, CurrentIs, WrittenIs
<1>3. Draw(terminal_num, s)
      /\ UNCHANGED <<terminal_num, tty, tickVars, video_mem, PT1, cursor, vid, displayed, windows>>
  BY Zenon DEF echo
<1> HIDE DEF s
<1>4. windows \subseteq windows' /\ windows' \subseteq WindowNames /\ cursor' \in Nat
  BY <1>1, <1>3, Zenon
<1>5. QED
  BY <1>1, <1>2, <1>3, <1>4, DrawKeeps, Zenon

\* Backspace and Ctrl+L.
LEMMA EraseKeeps == ASSUME PagesOwned, key_backspace \/ key_clear PROVE PagesOwned'
<1>1. TypeOK /\ terminal_num \in Terminals /\ tty \in Terminals /\ cursor \in Nat
      /\ windows \subseteq WindowNames
  BY Zenon DEF PagesOwned, TypeOK, WindowNames
<1>2. PICK s \in Sheets :
          /\ Draw(terminal_num, s)
          /\ \/ update_cursor(terminal_num, tty, screen_x'[terminal_num], screen_y'[terminal_num])
             \/ update_cursor(terminal_num, tty, 0, 0)
  <2>1. CASE key_backspace
    BY ZenonT(60), <1>1, <2>1, CurrentIs, BackspaceIs DEF key_backspace
  <2>2. CASE key_clear
    BY <1>1, <2>2, CurrentIs, ClearedIs, Zenon DEF key_clear
  <2>3. QED
    BY <2>1, <2>2, Zenon
<1>3. UNCHANGED <<terminal_num, tty, tickVars, video_mem, PT1, vid, displayed, windows>>
  BY Zenon DEF key_backspace, key_clear
<1>4. screen_x'[terminal_num] \in Cols /\ screen_y'[terminal_num] \in Nat
  BY <1>1, <1>2, DrawIs, Zenon
<1>5. cursor' \in Nat
  BY <1>1, <1>2, <1>4, CursorIs, Sizes, Zenon
<1>6. windows \subseteq windows' /\ windows' \subseteq WindowNames
  BY <1>1, <1>3, Zenon
<1>7. QED
  BY <1>1, <1>2, <1>3, <1>5, <1>6, DrawKeeps, Zenon

\* A message of the kernel.
LEMMA ReportKeeps == ASSUME PagesOwned, NEW text \in Texts, kernel_message(text) PROVE PagesOwned'
<1> DEFINE s == printf(Current(terminal_num), text)
<1>1. TypeOK /\ terminal_num \in Terminals /\ cursor \in Nat /\ windows \subseteq WindowNames
  BY Zenon DEF PagesOwned, TypeOK, WindowNames
<1>2. s \in Sheets
  BY <1>1, CurrentIs, PrintedIs, Zenon
<1>3. /\ Draw(terminal_num, s) /\ Printed(s)
      /\ UNCHANGED <<terminal_num, tty, tickVars, video_mem, PT1, cursor, vid, displayed>>
  BY Zenon DEF kernel_message
<1> HIDE DEF s
<1>4. windows \subseteq windows' /\ windows' \subseteq WindowNames /\ cursor' \in Nat
  BY <1>1, <1>3, Zenon DEF WindowNames, Printed
<1>5. QED
  BY <1>1, <1>2, <1>3, <1>4, DrawKeeps, Zenon

\* A prefix of a text has its characters.
LEMMA PrefixIs ==
    ASSUME NEW text \in Texts, NEW n \in 0 .. Len(text) - 1
    PROVE  /\ Len(SubSeq(text, 1, n)) \in Nat
           /\ \A i \in 1 .. Len(SubSeq(text, 1, n)) : SubSeq(text, 1, n)[i] \in Symbols
<1>1. text \in Seq(STRING) /\ Len(text) \in Nat /\ n \in Nat /\ n < Len(text)
  BY ScreenAssumption
<1>2. Len(SubSeq(text, 1, n)) = n /\ \A i \in 1 .. n : SubSeq(text, 1, n)[i] = text[i]
  BY <1>1
<1>3. \A i \in 1 .. n : i \in 1 .. Len(text)
  BY <1>1
<1>4. QED
  BY <1>1, <1>2, <1>3, TextsAre, Zenon

\* What a write leaves that faults, and what it reports, is a screen.
LEMMA FaultIs ==
    ASSUME NEW v \in Sheets, NEW text \in Texts, NEW n \in 0 .. Len(text) - 1, NEW report \in Texts
    PROVE  printf(terminal_write(v, SubSeq(text, 1, n)), report) \in Sheets
<1>1. terminal_write(v, SubSeq(text, 1, n)) \in Sheets
  BY PrefixIs, WrittenIs, Zenon
<1>2. QED
  BY <1>1, PrintedIs, Zenon

\* A write that faults draws on its own terminal, and terminal_num stays there.
LEMMA FaultKeeps ==
    ASSUME PagesOwned, NEW text \in Texts, NEW n \in 0 .. Len(text) - 1, NEW report \in Texts,
           write_fault(text, n, report)
    PROVE  PagesOwned'
<1> DEFINE s == printf(terminal_write(Current(tty), SubSeq(text, 1, n)), report)
<1>1. TypeOK /\ tty \in Terminals /\ cursor \in Nat /\ windows \subseteq WindowNames
  BY Zenon DEF PagesOwned, TypeOK, WindowNames
<1>2. s \in Sheets
  BY <1>1, CurrentIs, FaultIs, Zenon
<1>3. /\ Draw(tty, s) /\ Printed(s) /\ terminal_num' = tty
      /\ UNCHANGED <<tty, tickVars, video_mem, PT1, cursor, vid, displayed>>
  BY Zenon DEF write_fault
<1> HIDE DEF s
<1>4. windows \subseteq windows' /\ windows' \subseteq WindowNames /\ cursor' \in Nat
      /\ terminal_num' \in Terminals
  BY <1>1, <1>3, Zenon DEF WindowNames, Printed
<1>5. QED
  BY <1>1, <1>2, <1>3, <1>4, DrawKeeps, Zenon

\* terminal_switch hands VIDEO over to the new terminal.
LEMMA SwitchKeeps == ASSUME PagesOwned, NEW new \in Terminals, terminal_switch(new) PROVE PagesOwned'
<1>1. TypeOK /\ terminal_num \in Terminals /\ tty \in Terminals /\ cursor \in Nat
      /\ windows \subseteq WindowNames /\ screen_x[new] \in Cols /\ screen_y[new] \in Nat
  BY Zenon DEF PagesOwned, TypeOK, WindowNames
<1>2. /\ page' = [page EXCEPT ![terminal_num] = page[VIDEO],
                    ![VIDEO] = IF new = terminal_num THEN page[VIDEO] ELSE page[new]]
      /\ video_mem' = [video_mem EXCEPT ![terminal_num] = terminal_num, ![new] = VIDEO]
      /\ PT1' = [PT1 EXCEPT ![terminal_num] = terminal_num, ![new] = VIDEO]
      /\ terminal_num' = new /\ displayed' = new
      /\ update_cursor(new, tty, screen_x[new], screen_y[new])
      /\ windows' = IF terminal_num # displayed THEN windows \cup {"borrowed"} ELSE windows
      /\ UNCHANGED <<tty, tickVars, screen_x, screen_y, vid>>
  BY Zenon DEF terminal_switch, SwitchCells, SwitchPages
<1>3. cursor' \in Nat
  BY <1>1, <1>2, CursorIs, Zenon
<1>4. windows \subseteq windows' /\ windows' \subseteq WindowNames
  BY <1>1, <1>2, Zenon DEF WindowNames
<1>5. page' \in [Pages -> [Cells -> Symbols]]
  <2>1. page \in [Pages -> [Cells -> Symbols]]
    BY <1>1, Zenon DEF TypeOK
  <2>2. page[VIDEO] \in [Cells -> Symbols] /\ page[new] \in [Cells -> Symbols]
    BY <2>1, TerminalsAre, Zenon
  <2>3. QED
    BY ZenonT(60), <1>2, <2>1, <2>2
<1>6. /\ video_mem' \in [Terminals -> Pages] /\ PT1' \in [Terminals -> Pages]
      /\ \A t \in Terminals :
           /\ video_mem'[t] = IF t = new THEN VIDEO ELSE IF t = terminal_num THEN t ELSE video_mem[t]
           /\ PT1'[t] = IF t = new THEN VIDEO ELSE IF t = terminal_num THEN t ELSE PT1[t]
  <2>1. video_mem \in [Terminals -> Pages] /\ PT1 \in [Terminals -> Pages]
    BY <1>1, Zenon DEF TypeOK
  <2>2. QED
    BY <1>1, <1>2, <2>1, TerminalsAre, Zenon
<1>7. TypeOK'
  BY ZenonT(60), <1>1, <1>2, <1>3, <1>4, <1>5, <1>6 DEF TypeOK, WindowNames, tickVars
<1>8. ASSUME "borrowed" \notin windows' PROVE Owned'
  <2>1. displayed = terminal_num /\ "borrowed" \notin windows
    BY <1>2, <1>4, <1>8, Zenon
  <2>2. \A t \in Terminals : PT1[t] = video_mem[t] /\ video_mem[t] = IF t = displayed THEN VIDEO ELSE t
    BY <2>1, Zenon DEF PagesOwned
  <2>3. QED
    BY <1>2, <1>6, <2>1, <2>2, Zenon DEF Owned
<1>9. QED
  BY <1>7, <1>8, Zenon DEF PagesOwned, Owned

\* Steps that leave the pages where they are.
LEMMA PagesKept ==
    ASSUME PagesOwned, TypeOK', UNCHANGED <<video_mem, PT1, displayed>>, windows \subseteq windows'
    PROVE  PagesOwned'
BY Zenon DEF PagesOwned

\* A program that maps, starts another, draws through the user page table or ends.
LEMMA VideoKeeps ==
    ASSUME PagesOwned, \/ vidmap \/ execute \/ program_ends
                       \/ \E cell \in Rows \X Cols : user_store(cell)
    PROVE  PagesOwned'
<1>1. TypeOK /\ tty \in Terminals /\ terminal_num \in Terminals
      /\ vid \in [Terminals -> Terminals \cup {NoMap}] /\ windows \subseteq WindowNames
  BY Zenon DEF PagesOwned, TypeOK, WindowNames
<1>2. CASE vidmap
  <2>1. vid' = [vid EXCEPT ![tty] = terminal_num]
        /\ windows' = (IF terminal_num # tty THEN windows \cup {"vidmap"} ELSE windows)
        /\ UNCHANGED <<terminal_num, tty, tickVars, screen_x, screen_y, video_mem, PT1, page, cursor,
                       displayed>>
    BY <1>2, Zenon DEF vidmap
  <2>2. vid' \in [Terminals -> Terminals \cup {NoMap}]
    BY <1>1, <2>1, Zenon
  <2>3. windows \subseteq windows' /\ windows' \subseteq WindowNames
    BY <1>1, <2>1, Zenon DEF WindowNames
  <2>4. TypeOK'
    BY <1>1, <2>1, <2>2, <2>3, Zenon DEF TypeOK, WindowNames, tickVars
  <2>5. QED
    BY <2>1, <2>3, <2>4, PagesKept, Zenon
<1>3. CASE execute
  <2>1. tty' = terminal_num /\ vid' = [vid EXCEPT ![terminal_num] = NoMap]
        /\ windows' = (IF terminal_num # tty THEN windows \cup {"execute"} ELSE windows)
        /\ UNCHANGED <<terminal_num, tickVars, screen_x, screen_y, video_mem, PT1, page, cursor,
                       displayed>>
    BY <1>3, Zenon DEF execute
  <2>2. vid' \in [Terminals -> Terminals \cup {NoMap}]
    BY <1>1, <2>1, Zenon
  <2>3. windows \subseteq windows' /\ windows' \subseteq WindowNames
    BY <1>1, <2>1, Zenon DEF WindowNames
  <2>4. TypeOK'
    BY <1>1, <2>1, <2>2, <2>3, Zenon DEF TypeOK, WindowNames, tickVars
  <2>5. QED
    BY <2>1, <2>3, <2>4, PagesKept, Zenon
<1>4. CASE program_ends
  <2>1. tty' \in WakesOn(tty)
        /\ UNCHANGED <<terminal_num, tickVars, screen_x, screen_y, video_mem, PT1, page, cursor,
                       displayed, windows>>
    BY <1>4, Zenon DEF program_ends
  <2>2. tty' \in Terminals
    BY <1>1, <2>1, Zenon DEF WakesOn
  <2>3. PICK m \in Terminals \cup {NoMap} : vid' = [vid EXCEPT ![tty'] = m]
    BY <1>4, <2>2, Zenon DEF program_ends
  <2>4. vid' \in [Terminals -> Terminals \cup {NoMap}]
    BY <1>1, <2>3, Zenon
  <2>5. TypeOK'
    BY <1>1, <2>1, <2>2, <2>4, Zenon DEF TypeOK, tickVars
  <2>6. QED
    BY <2>1, <2>5, PagesKept, Zenon
<1>5. ASSUME NEW cell \in Rows \X Cols, user_store(cell) PROVE PagesOwned'
  <2> DEFINE p == PT1[vid[tty]]
  <2>1. page' = [page EXCEPT ![p][cell] = Glyph]
        /\ UNCHANGED <<terminal_num, tty, tickVars, screen_x, screen_y, video_mem, PT1, cursor, vid,
                       displayed, windows>>
    BY <1>5, Zenon DEF user_store
  <2>2. page \in [Pages -> [Cells -> Symbols]] /\ Glyph \in Symbols
    BY <1>1, Zenon DEF TypeOK, Symbols
  <2> HIDE DEF p
  <2>3. page' \in [Pages -> [Cells -> Symbols]]
    BY ZenonT(60), <2>1, <2>2
  <2>4. TypeOK'
    BY <1>1, <2>1, <2>3, Zenon DEF TypeOK, tickVars
  <2>5. QED
    BY <2>1, <2>4, PagesKept, Zenon
<1>6. QED
  BY <1>2, <1>3, <1>4, <1>5, Zenon

\* A tick that starts a shell.
LEMMA ShellKeeps ==
    ASSUME PagesOwned, NEW i \in Terminals, start_shell(i), started' \in 0 .. TERMINAL_COUNT
    PROVE  PagesOwned'
<1>1. TypeOK
  BY Zenon DEF PagesOwned
<1>2. /\ terminal_num' = i /\ tty' = i /\ vid' = [vid EXCEPT ![i] = NoMap]
      /\ terminals_initialized' = (terminals_initialized \/ i = TERMINAL_COUNT - 1)
      /\ UNCHANGED <<pit_terminal_num, screen_x, screen_y, video_mem, PT1, page, cursor,
                     displayed, windows>>
  BY Zenon DEF start_shell
<1>3. vid' \in [Terminals -> Terminals \cup {NoMap}]
  BY <1>1, <1>2, Zenon DEF TypeOK
<1>4. terminals_initialized' \in BOOLEAN
  BY <1>2, Zenon
<1>5. TypeOK'
  BY <1>1, <1>2, <1>3, <1>4, Zenon DEF TypeOK
<1>6. QED
  BY <1>2, <1>5, PagesKept, Zenon

\* The ticks move terminal_num and leave the pages.
LEMMA TickKeeps ==
    ASSUME PagesOwned, task_switch_boot \/ task_switch_restart \/ task_switch
    PROVE  PagesOwned'
<1>1. TypeOK /\ started \in 0 .. TERMINAL_COUNT /\ tty \in Terminals /\ cursor \in Nat
      /\ screen_x \in [Terminals -> Cols] /\ screen_y \in [Terminals -> Nat]
      /\ terminal_num \in Terminals /\ pit_terminal_num \in Terminals
  BY Zenon DEF PagesOwned, TypeOK
<1>2. CASE task_switch_boot
  <2>1. started < TERMINAL_COUNT /\ started' = started + 1 /\ start_shell(started)
    BY <1>2, Zenon DEF task_switch_boot
  <2>2. started \in Terminals /\ started' \in 0 .. TERMINAL_COUNT
    BY <1>1, <2>1, TerminalsAre
  <2>3. QED
    BY <2>1, <2>2, ShellKeeps, Zenon
<1>3. CASE task_switch_restart
  BY <1>1, <1>3, ShellKeeps, Zenon DEF task_switch_restart
<1>4. CASE task_switch
  <2>1. terminals_initialized' = FALSE
        /\ terminal_num' = (IF terminals_initialized THEN 0 ELSE terminal_num)
        /\ pit_terminal_num' = NextTerminal /\ tty' \in WakesOn(NextTerminal)
        /\ update_cursor(terminal_num', tty', screen_x[terminal_num'], screen_y[terminal_num'])
        /\ UNCHANGED <<started, screen_x, screen_y, video_mem, PT1, page, vid, displayed, windows>>
    BY <1>4, Zenon DEF task_switch
  <2>2. terminal_num' \in Terminals
    BY <1>1, <2>1, TerminalsAre, Zenon
  <2>3. NextTerminal \in Terminals
    <3>1. \A n \in Nat : n % TERMINAL_COUNT \in Terminals
      BY TerminalsAre DEF Terminals
    <3>2. pit_terminal_num + 1 \in Nat
      BY <1>1, TerminalsAre
    <3>3. QED
      BY <3>1, <3>2, Zenon DEF NextTerminal
  <2>4. tty' \in Terminals
    BY <2>1, <2>3, Zenon DEF WakesOn
  <2>5. cursor' \in Nat
    <3>1. screen_x[terminal_num'] \in Cols /\ screen_y[terminal_num'] \in Nat
      BY <1>1, <2>2, Zenon
    <3>2. QED
      BY <1>1, <2>1, <3>1, CursorIs, Zenon
  <2>6. TypeOK'
    BY <1>1, <2>1, <2>2, <2>3, <2>4, <2>5, Zenon DEF TypeOK
  <2>7. QED
    BY <2>1, <2>6, PagesKept, Zenon
<1>5. QED
  BY <1>2, <1>3, <1>4, Zenon

-----------------------------------------------------------------------------
(* While no window is hit *)

\* HasLine looks at the first n characters only.
LEMMA LineOfPrefix ==
    ASSUME NEW s, NEW n \in Nat, NEW b, NEW d, HasLine(s, n, b), \A j \in 0 .. n - 1 : d[j] = b[j]
    PROVE  HasLine(s, n, d)
<1>1. \A i \in 1 .. n : n - i \in 0 .. n - 1
  OBVIOUS
<1>2. QED
  BY <1>1, Zenon DEF HasLine

\* Who owns the pages while no window is hit.
LEMMA CalmOwned ==
    ASSUME PagesOwned, windows = {}
    PROVE  /\ TypeOK /\ displayed \in Terminals
           /\ \A t \in Terminals : /\ PT1[t] = video_mem[t] /\ video_mem[t] \in Pages
                                   /\ video_mem[t] = IF t = displayed THEN VIDEO ELSE t
           /\ \A t, u \in Terminals : t # u => video_mem[t] # video_mem[u]
<1>1. TypeOK /\ displayed \in Terminals
  BY Zenon DEF PagesOwned, TypeOK
<1>2. \A t \in Terminals : PT1[t] = video_mem[t] /\ video_mem[t] = IF t = displayed THEN VIDEO ELSE t
  BY Zenon DEF PagesOwned
<1>3. \A t \in Terminals : video_mem[t] \in Pages
  BY <1>1, Zenon DEF TypeOK
<1>4. ASSUME NEW t \in Terminals, NEW u \in Terminals, t # u PROVE video_mem[t] # video_mem[u]
  BY <1>2, <1>4, TerminalsAre, Zenon
<1>5. QED
  BY <1>1, <1>2, <1>3, <1>4, Zenon

\* Drawing on a terminal changes its screen, and the display when it is shown.
LEMMA DrawnIs ==
    ASSUME PagesOwned, windows = {}, NEW t \in Terminals, NEW s \in Sheets, Draw(t, s),
           video_mem' = video_mem
    PROVE  /\ \A u \in Terminals : Current(u)' = IF u = t THEN s ELSE Current(u)
           /\ page'[VIDEO] = IF t = displayed THEN s.cells ELSE page[VIDEO]
<1>1. /\ TypeOK /\ displayed \in Terminals
      /\ \A u \in Terminals : video_mem[u] \in Pages /\ video_mem[u] = IF u = displayed THEN VIDEO ELSE u
  BY CalmOwned, Zenon
<1>2. ASSUME NEW u \in Terminals, u # t PROVE video_mem[u] # video_mem[t]
  BY <1>2, CalmOwned, Zenon
<1>3. /\ screen_x'[t] = s.x /\ screen_y'[t] = s.y /\ page'[video_mem[t]] = s.cells
      /\ \A u \in Terminals : u # t => screen_x'[u] = screen_x[u] /\ screen_y'[u] = screen_y[u]
      /\ \A p \in Pages : p # video_mem[t] => page'[p] = page[p]
  BY <1>1, DrawIs, Zenon
<1>4. s = [x |-> s.x, y |-> s.y, cells |-> s.cells]
  BY Zenon DEF Sheets
<1>5. ASSUME NEW u \in Terminals PROVE Current(u)' = IF u = t THEN s ELSE Current(u)
  <2>1. Current(u)' = [x |-> screen_x'[u], y |-> screen_y'[u], cells |-> page'[video_mem[u]]]
    BY Zenon DEF Current
  <2>2. CASE u = t
    BY <1>3, <1>4, <2>1, <2>2, Zenon
  <2>3. CASE u # t
    <3>1. page'[video_mem[u]] = page[video_mem[u]]
      <4>1. video_mem[u] \in Pages /\ video_mem[u] # video_mem[t]
        BY <1>1, <1>2, <2>3, Zenon
      <4>2. QED
        BY <1>3, <4>1, Zenon
    <3>2. QED
      BY <1>3, <2>1, <2>3, <3>1, Zenon DEF Current
  <2>4. QED
    BY <2>2, <2>3, Zenon
<1>6. page'[VIDEO] = IF t = displayed THEN s.cells ELSE page[VIDEO]
  <2>1. VIDEO \in Pages /\ VIDEO \notin Terminals
    BY TerminalsAre, Zenon
  <2>2. CASE t = displayed
    BY <1>1, <1>3, <2>2, Zenon
  <2>3. CASE t # displayed
    <3>1. video_mem[t] = t /\ t # VIDEO
      BY <1>1, <2>1, <2>3, Zenon
    <3>2. QED
      BY <1>3, <2>1, <2>3, <3>1, Zenon
  <2>4. QED
    BY <2>2, <2>3, Zenon
<1>7. QED
  BY <1>5, <1>6, Zenon

\* terminal_switch moves the cells and leaves every screen as it was.
LEMMA SwitchedIs ==
    ASSUME PagesOwned, windows = {}, NEW new \in Terminals, terminal_switch(new), windows' = {}
    PROVE  /\ displayed' = new /\ terminal_num' = new
           /\ \A u \in Terminals : Current(u)' = Current(u)
           /\ page'[VIDEO] = Current(new).cells
<1>1. TypeOK /\ displayed \in Terminals
      /\ \A u \in Terminals : video_mem[u] \in Pages /\ video_mem[u] = IF u = displayed THEN VIDEO ELSE u
  BY CalmOwned, Zenon
<1>2. /\ page' = [page EXCEPT ![terminal_num] = page[VIDEO],
                    ![VIDEO] = IF new = terminal_num THEN page[VIDEO] ELSE page[new]]
      /\ video_mem' = [video_mem EXCEPT ![terminal_num] = terminal_num, ![new] = VIDEO]
      /\ terminal_num' = new /\ displayed' = new
      /\ windows' = IF terminal_num # displayed THEN windows \cup {"borrowed"} ELSE windows
      /\ UNCHANGED <<screen_x, screen_y>>
  BY Zenon DEF terminal_switch, SwitchCells, SwitchPages
<1>3. displayed = terminal_num
  BY <1>2, Zenon
<1>4. /\ page \in [Pages -> [Cells -> Symbols]] /\ video_mem \in [Terminals -> Pages]
      /\ terminal_num \in Terminals /\ terminal_num \in Pages /\ new \in Pages
      /\ VIDEO \in Pages /\ VIDEO \notin Terminals
  BY <1>1, TerminalsAre, Zenon DEF TypeOK
<1>5. /\ page'[VIDEO] = IF new = terminal_num THEN page[VIDEO] ELSE page[new]
      /\ \A p \in Terminals : page'[p] = IF p = terminal_num THEN page[VIDEO] ELSE page[p]
  BY <1>2, <1>4, TerminalsAre, Zenon
<1>6. \A u \in Terminals :
        video_mem'[u] = IF u = new THEN VIDEO ELSE u
  BY <1>1, <1>2, <1>3, <1>4, Zenon
<1>7. \A u \in Terminals : page'[video_mem'[u]] = page[video_mem[u]]
  BY <1>1, <1>3, <1>4, <1>5, <1>6
<1>8. \A u \in Terminals : Current(u)' = Current(u)
  BY ZenonT(60), <1>2, <1>7 DEF Current
<1>9. page'[VIDEO] = Current(new).cells
  BY <1>1, <1>3, <1>5, Zenon DEF Current
<1>10. QED
  BY <1>2, <1>8, <1>9, Zenon

-----------------------------------------------------------------------------
(* The screens the terminals promise *)

\* The routines of Teletype are the same ones in Screens.
LEMMA SameSizes == /\ Promise!Cols = Cols /\ Promise!Rows = Rows /\ Promise!Cells = Cells
                   /\ Promise!BlankPage = BlankPage /\ Promise!Glyph = Glyph
BY Zenon DEF Promise!Cols, Cols, Promise!Rows, Rows, Promise!Cells, Cells, Promise!BlankPage, BlankPage,
             Promise!Blank, Blank, Promise!Glyph, Glyph

\* terminal_write.
LEMMA SameWrite == ASSUME NEW s, NEW text PROVE Promise!terminal_write(s, text) = terminal_write(s, text)
BY Zenon DEF Promise!terminal_write, terminal_write, Promise!EachChar, EachChar,
             Promise!write_char, write_char, Promise!putc, putc,
             Promise!check_out_of_bound, check_out_of_bound, Promise!scroll_screen, scroll_screen,
             Promise!SCROLL_ENTER_PRESSED, SCROLL_ENTER_PRESSED,
             Promise!SCROLL_LAST_LETTER, SCROLL_LAST_LETTER, Promise!Newline, Newline,
             Promise!Blank, Blank, Promise!Cells, Cells, Promise!Cols, Cols

\* printf.
LEMMA SamePrint == ASSUME NEW s, NEW text PROVE Promise!printf(s, text) = printf(s, text)
BY Zenon DEF Promise!printf, printf, Promise!EachChar, EachChar, Promise!putc, putc,
             Promise!check_out_of_bound, check_out_of_bound, Promise!scroll_screen, scroll_screen,
             Promise!SCROLL_ENTER_PRESSED, SCROLL_ENTER_PRESSED,
             Promise!SCROLL_LAST_LETTER, SCROLL_LAST_LETTER, Promise!Newline, Newline,
             Promise!Blank, Blank, Promise!Cells, Cells, Promise!Cols, Cols

\* backspace_pressed, clear and reset_screen.
LEMMA SameErase ==
    ASSUME NEW s
    PROVE  /\ Promise!backspace_pressed(s) = backspace_pressed(s)
           /\ Promise!reset_screen(Promise!clear(s)) = reset_screen(clear(s))
<1>1. Promise!backspace_pressed(s) = backspace_pressed(s)
  BY Zenon DEF Promise!backspace_pressed, backspace_pressed, Promise!Blank, Blank
<1>2. Promise!reset_screen(Promise!clear(s)) = reset_screen(clear(s))
  BY Zenon DEF Promise!reset_screen, reset_screen, Promise!clear, clear, Promise!Rows, Rows,
               Promise!Blank, Blank, Promise!Cells, Cells, Promise!Cols, Cols
<1>3. QED
  BY <1>1, <1>2, Zenon

\* The screens of the refinement mapping.
AllScreens == [t \in Terminals |-> Current(t)]

\* The display is the shown terminal's screen.
LEMMA DisplayIs ==
    ASSUME PagesOwned, windows = {}
    PROVE  displayed \in Terminals /\ page[VIDEO] = Current(displayed).cells
<1>1. TypeOK /\ displayed \in Terminals /\ video_mem[displayed] = VIDEO
  BY CalmOwned, Zenon
<1>2. QED
  BY <1>1, CurrentIs, Zenon

\* A drawing on one terminal is one of the promised drawings.
LEMMA DrawPromised ==
    ASSUME PagesOwned, windows = {}, NEW t \in Terminals, NEW s \in Sheets, Draw(t, s),
           UNCHANGED <<displayed, tty, video_mem>>
    PROVE  Promise!Draw(t, s)
<1>1. displayed \in Terminals /\ page[VIDEO] = Current(displayed).cells
  BY DisplayIs, Zenon
<1>2. /\ \A u \in Terminals : Current(u)' = IF u = t THEN s ELSE Current(u)
      /\ page'[VIDEO] = IF t = displayed THEN s.cells ELSE page[VIDEO]
  BY DrawnIs, Zenon
<1>3. displayed' = displayed /\ tty' = tty
  BY Zenon
<1>4. AllScreens' = [AllScreens EXCEPT ![t] = s]
  BY ZenonT(60), <1>2 DEF AllScreens
<1>5. page'[VIDEO] = AllScreens'[displayed].cells
  <2>1. AllScreens'[displayed] = IF displayed = t THEN s ELSE Current(displayed)
    BY ZenonT(60), <1>1, <1>4 DEF AllScreens
  <2>2. QED
    BY <1>1, <1>2, <2>1
<1>6. QED
  BY <1>3, <1>4, <1>5, Zenon DEF Promise!Draw, AllScreens

-----------------------------------------------------------------------------
(* The steps of the screens *)

\* Everything that happens to the screens.
ScreenStep ==
    \/ \E c \in Symbols : echo(<<c>>)
    \/ key_backspace \/ key_clear
    \/ \E new \in Terminals : terminal_switch(new)
    \/ \E text \in Texts : write(text) \/ kernel_message(text)
    \/ \E text, report \in Texts : \E n \in 0 .. Len(text) - 1 : write_fault(text, n, report)
    \/ vidmap \/ execute \/ program_ends \/ \E cell \in Rows \X Cols : user_store(cell)
    \/ task_switch_boot \/ task_switch_restart \/ task_switch

\* The ownership of the pages survives all of it.
LEMMA ScreenKeeps == ASSUME PagesOwned, ScreenStep PROVE PagesOwned'
BY ZenonT(60), EchoKeeps, EraseKeeps, SwitchKeeps, WriteKeeps, ReportKeeps, FaultKeeps, VideoKeeps,
   TickKeeps
   DEF ScreenStep

\* While no window is hit a drawing program has its own page.
Steady ==
    /\ PagesOwned /\ windows = {}
    /\ \A t \in Terminals : vid[t] \in {NoMap, t}

\* While no window is hit, a program that was put to sleep wakes where it was.
LEMMA CalmWakes == ASSUME windows = {}, NEW t PROVE WakesOn(t) = {t}
BY Zenon DEF WakesOn

\* Steady is inductive.
LEMMA SteadyKept == ASSUME Steady, ScreenStep, windows' = {} PROVE Steady'
<1>1. PagesOwned /\ windows = {} /\ TypeOK /\ tty \in Terminals /\ terminal_num \in Terminals
      /\ started \in 0 .. TERMINAL_COUNT /\ vid \in [Terminals -> Terminals \cup {NoMap}]
  BY Zenon DEF Steady, PagesOwned, TypeOK
<1>2. PagesOwned'
  BY <1>1, ScreenKeeps, Zenon
<1>3. \A t \in Terminals : vid[t] \in {NoMap, t}
  BY Zenon DEF Steady
<1>4. SUFFICES \A t \in Terminals : vid'[t] \in {NoMap, t}
  BY ZenonT(60), <1>2 DEF Steady
<1>5. CASE UNCHANGED vid
  BY <1>3, <1>5, Zenon
<1>6. ASSUME NEW u \in Terminals, NEW m \in {NoMap, u}, vid' = [vid EXCEPT ![u] = m]
      PROVE  \A t \in Terminals : vid'[t] \in {NoMap, t}
  BY <1>1, <1>3, <1>6, Zenon
<1>7. CASE vidmap
  <2>1. terminal_num = tty /\ vid' = [vid EXCEPT ![tty] = tty]
    BY ZenonT(60), <1>7 DEF vidmap
  <2>2. QED
    BY <1>1, <1>6, <2>1, Zenon
<1>8. CASE execute
  BY <1>1, <1>6, <1>8, Zenon DEF execute
<1>9. CASE program_ends
  <2>1. tty' = tty
    BY <1>1, <1>9, CalmWakes, Zenon DEF program_ends
  <2>2. PICK m \in {NoMap} \cup {tty} : vid' = [vid EXCEPT ![tty] = m]
    BY <1>1, <1>9, <2>1, Zenon DEF program_ends
  <2>3. QED
    BY <1>1, <1>6, <2>2, Zenon
<1>10. ASSUME NEW i \in Terminals, start_shell(i)
       PROVE  \A t \in Terminals : vid'[t] \in {NoMap, t}
  BY <1>6, <1>10, Zenon DEF start_shell
<1>11. CASE task_switch_boot \/ task_switch_restart
  <2>1. started < TERMINAL_COUNT => started \in Terminals
    BY <1>1, TerminalsAre
  <2>2. QED
    BY <1>1, <1>10, <1>11, <2>1, Zenon DEF task_switch_boot, task_switch_restart
<1>12. QED
  <2>1. CASE \E c \in Symbols : echo(<<c>>)
    BY ZenonT(60), <1>5, <2>1 DEF echo
  <2>2. CASE key_backspace \/ key_clear
    BY ZenonT(60), <1>5, <2>2 DEF key_backspace, key_clear
  <2>3. CASE \E new \in Terminals : terminal_switch(new)
    BY ZenonT(60), <1>5, <2>3 DEF terminal_switch
  <2>4. CASE \E text \in Texts : write(text) \/ kernel_message(text)
    BY ZenonT(60), <1>5, <2>4 DEF write, kernel_message
  <2>5. CASE \E text, report \in Texts : \E n \in 0 .. Len(text) - 1 : write_fault(text, n, report)
    BY ZenonT(60), <1>5, <2>5 DEF write_fault
  <2>6. CASE \E cell \in Rows \X Cols : user_store(cell)
    BY ZenonT(60), <1>5, <2>6 DEF user_store
  <2>7. CASE task_switch
    BY <1>5, <2>7, Zenon DEF task_switch
  <2>8. QED
    BY ZenonT(60), <1>7, <1>8, <1>9, <1>11, <2>1, <2>2, <2>3, <2>4, <2>5, <2>6, <2>7 DEF ScreenStep

\* A store through vidmap is a drawing on the program's own terminal.
LEMMA StoreIs ==
    ASSUME Steady, NEW cell \in Rows \X Cols, user_store(cell), NEW t \in Terminals, t = tty
    PROVE  LET s == [Current(t) EXCEPT !.cells = [Current(t).cells EXCEPT ![cell] = Glyph]]
           IN  Draw(t, s) /\ s \in Sheets /\ (OnScreen(Current(t)) => OnScreen(s))
<1> DEFINE cells == [Current(t).cells EXCEPT ![cell] = Glyph]
           s == [Current(t) EXCEPT !.cells = cells]
<1>1. PagesOwned /\ windows = {} /\ TypeOK /\ Current(t) \in Sheets /\ vid[t] \in {NoMap, t}
  BY CurrentIs, Zenon DEF Steady, PagesOwned
<1>2. PT1[t] = video_mem[t] /\ video_mem[t] \in Pages
  BY <1>1, CalmOwned, Zenon
<1>3. vid[t] = t /\ page' = [page EXCEPT ![video_mem[t]] = [page[video_mem[t]] EXCEPT ![cell] = Glyph]]
      /\ screen_x' = screen_x /\ screen_y' = screen_y
  <2>1. vid[t] = t
    BY <1>1, Zenon DEF user_store
  <2>2. page' = [page EXCEPT ![video_mem[t]][cell] = Glyph]
    BY ZenonT(60), <1>2, <2>1 DEF user_store
  <2>3. QED
    BY ZenonT(60), <2>1, <2>2 DEF user_store
<1>4. Current(t).cells = page[video_mem[t]] /\ Current(t).x = screen_x[t] /\ Current(t).y = screen_y[t]
  BY <1>1, CurrentIs, Zenon
<1>5. Glyph \in Symbols /\ cell \in Cells
  <2>1. Glyph \in Symbols
    BY Zenon DEF Symbols
  <2>2. Rows \subseteq 0 .. NUM_ROWS
    BY Sizes DEF Rows
  <2>3. QED
    BY ZenonT(60), <2>1, <2>2 DEF Cells
<1>6. cells \in [Cells -> Symbols]
  BY <1>1, <1>5, Zenon DEF Sheets
<1>7. page' = [page EXCEPT ![video_mem[t]] = cells]
  BY <1>3, <1>4, Zenon
<1> HIDE DEF cells
<1>8. s \in Sheets /\ s.x = screen_x[t] /\ s.y = screen_y[t] /\ s.cells = cells
      /\ s.x = Current(t).x /\ s.y = Current(t).y
  BY <1>1, <1>4, <1>6, Zenon DEF Sheets
<1>9. Draw(t, s)
  <2>1. screen_x' = [screen_x EXCEPT ![t] = screen_x[t]] /\ screen_y' = [screen_y EXCEPT ![t] = screen_y[t]]
    BY <1>1, <1>3, Zenon DEF TypeOK
  <2>2. QED
    BY ZenonT(60), <1>7, <1>8, <2>1 DEF Draw
<1>10. OnScreen(Current(t)) => OnScreen(s)
  BY <1>8, Zenon DEF OnScreen
<1>11. QED
  BY <1>8, <1>9, <1>10, Zenon DEF cells

-----------------------------------------------------------------------------
(* Every step is promised *)

\* The keys: Echo, Erase, Wipe and Show.
LEMMA KeyPromised ==
    ASSUME Steady, windows' = {},
           \/ \E c \in Symbols : echo(<<c>>)
           \/ key_backspace \/ key_clear
           \/ \E new \in Terminals : terminal_switch(new)
    PROVE  Promise!Next
<1>1. PagesOwned /\ windows = {} /\ TypeOK /\ terminal_num \in Terminals
      /\ Current(terminal_num) \in Sheets /\ AllScreens[terminal_num] = Current(terminal_num)
  BY CurrentIs, Zenon DEF Steady, PagesOwned, TypeOK, AllScreens
<1>2. ASSUME NEW c \in Symbols, echo(<<c>>) PROVE Promise!Echo
  <2> DEFINE s == terminal_write(Current(terminal_num), <<c>>)
  <2>1. s \in Sheets
    <3>1. Len(<<c>>) \in Nat /\ \A n \in 1 .. Len(<<c>>) : <<c>>[n] \in Symbols
      OBVIOUS
    <3>2. QED
      BY <1>1, <3>1, WrittenIs, Zenon
  <2>2. Draw(terminal_num, s) /\ UNCHANGED <<terminal_num, displayed, tty, video_mem>>
    BY <1>2, Zenon DEF echo
  <2>3. s = Promise!terminal_write(AllScreens[terminal_num], <<c>>)
    BY <1>1, SameWrite, Zenon
  <2> HIDE DEF s
  <2>4. Promise!Draw(terminal_num, s)
    BY <1>1, <2>1, <2>2, DrawPromised, Zenon
  <2>5. QED
    BY <2>2, <2>3, <2>4, Zenon DEF Promise!Echo, AllScreens
<1>3. CASE key_backspace
  <2> DEFINE s == backspace_pressed(Current(terminal_num))
  <2>1. s \in Sheets
    BY ZenonT(60), <1>1, BackspaceIs
  <2>2. Draw(terminal_num, s) /\ UNCHANGED <<terminal_num, displayed, tty, video_mem>>
    BY <1>3, Zenon DEF key_backspace
  <2>3. s = Promise!backspace_pressed(AllScreens[terminal_num])
    BY <1>1, SameErase, Zenon
  <2> HIDE DEF s
  <2>4. Promise!Draw(terminal_num, s)
    BY <1>1, <2>1, <2>2, DrawPromised, Zenon
  <2>5. QED
    BY <2>2, <2>3, <2>4, Zenon DEF Promise!Next, Promise!Erase, AllScreens
<1>4. CASE key_clear
  <2> DEFINE s == reset_screen(clear(Current(terminal_num)))
  <2>1. s \in Sheets
    BY <1>1, ClearedIs, Zenon
  <2>2. Draw(terminal_num, s) /\ UNCHANGED <<terminal_num, displayed, tty, video_mem>>
    BY <1>4, Zenon DEF key_clear
  <2>3. s = Promise!reset_screen(Promise!clear(AllScreens[terminal_num]))
    BY <1>1, SameErase
  <2> HIDE DEF s
  <2>4. Promise!Draw(terminal_num, s)
    BY <1>1, <2>1, <2>2, DrawPromised, Zenon
  <2>5. QED
    BY <2>2, <2>3, <2>4, Zenon DEF Promise!Next, Promise!Wipe, AllScreens
<1>5. ASSUME NEW new \in Terminals, terminal_switch(new) PROVE Promise!Show(new)
  <2>1. /\ displayed' = new /\ terminal_num' = new
        /\ \A u \in Terminals : Current(u)' = Current(u)
        /\ page'[VIDEO] = Current(new).cells
    BY <1>1, <1>5, SwitchedIs, Zenon
  <2>2. AllScreens' = AllScreens /\ page'[VIDEO] = AllScreens[new].cells /\ tty' = tty
    BY <1>5, <2>1, Zenon DEF AllScreens, terminal_switch
  <2>3. QED
    BY <2>1, <2>2, Zenon DEF Promise!Show, AllScreens
<1>6. QED
  BY ZenonT(60), <1>2, <1>3, <1>4, <1>5 DEF Promise!Next

\* The programs: Write, Report, Fail and Poke.
LEMMA ProgramPromised ==
    ASSUME Steady,
           \/ \E text \in Texts : write(text) \/ kernel_message(text)
           \/ \E text, report \in Texts : \E n \in 0 .. Len(text) - 1 : write_fault(text, n, report)
           \/ \E cell \in Rows \X Cols : user_store(cell)
    PROVE  Promise!Next
<1>1. PagesOwned /\ windows = {} /\ TypeOK /\ terminal_num \in Terminals /\ tty \in Terminals
      /\ \A t \in Terminals : Current(t) \in Sheets /\ AllScreens[t] = Current(t)
  BY CurrentIs, Zenon DEF Steady, PagesOwned, TypeOK, AllScreens
<1>2. ASSUME NEW text \in Texts, write(text) PROVE Promise!Write
  <2> DEFINE s == terminal_write(Current(tty), text)
  <2>1. s \in Sheets
    BY <1>1, TextsAre, WrittenIs, Zenon
  <2>2. Draw(tty, s) /\ UNCHANGED <<terminal_num, displayed, tty, video_mem>>
    BY <1>2, Zenon DEF write
  <2>3. s = Promise!terminal_write(AllScreens[tty], text)
    BY <1>1, SameWrite, Zenon
  <2> HIDE DEF s
  <2>4. Promise!Draw(tty, s)
    BY <1>1, <2>1, <2>2, DrawPromised, Zenon
  <2>5. QED
    BY <2>2, <2>3, <2>4, Zenon DEF Promise!Write, AllScreens
<1>3. ASSUME NEW text \in Texts, kernel_message(text) PROVE Promise!Report
  <2> DEFINE s == printf(Current(terminal_num), text)
  <2>1. s \in Sheets
    BY <1>1, PrintedIs, Zenon
  <2>2. Draw(terminal_num, s) /\ UNCHANGED <<terminal_num, displayed, tty, video_mem>>
    BY <1>3, Zenon DEF kernel_message
  <2>3. s = Promise!printf(AllScreens[terminal_num], text)
    BY <1>1, SamePrint, Zenon
  <2> HIDE DEF s
  <2>4. Promise!Draw(terminal_num, s)
    BY <1>1, <2>1, <2>2, DrawPromised, Zenon
  <2>5. QED
    BY <2>2, <2>3, <2>4, Zenon DEF Promise!Report, AllScreens
<1>4. ASSUME NEW cell \in Rows \X Cols, user_store(cell) PROVE Promise!Poke
  <2> DEFINE s == [Current(tty) EXCEPT !.cells = [Current(tty).cells EXCEPT ![cell] = Glyph]]
  <2>1. Draw(tty, s) /\ s \in Sheets
    BY <1>1, <1>4, StoreIs, Zenon
  <2>2. UNCHANGED <<terminal_num, displayed, tty, video_mem>>
    BY <1>4, Zenon DEF user_store
  <2>3. cell \in Cells
    BY Sizes DEF Cells, Rows
  <2>4. s = [AllScreens[tty] EXCEPT !.cells = [AllScreens[tty].cells EXCEPT ![cell] = Glyph]]
    BY <1>1, Zenon
  <2> HIDE DEF s
  <2>5. Promise!Draw(tty, s)
    BY <1>1, <2>1, <2>2, DrawPromised, Zenon
  <2>6. QED
    BY ZenonT(60), <2>2, <2>3, <2>4, <2>5, SameSizes DEF Promise!Poke, AllScreens
<1>5. ASSUME NEW text \in Texts, NEW report \in Texts, NEW n \in 0 .. Len(text) - 1,
             write_fault(text, n, report)
      PROVE  Promise!Fail
  <2> DEFINE w == terminal_write(Current(tty), SubSeq(text, 1, n))
             s == printf(w, report)
  <2>1. s \in Sheets
    BY <1>1, FaultIs, Zenon
  <2>2. Draw(tty, s) /\ terminal_num' = tty /\ UNCHANGED <<displayed, tty, video_mem>>
    BY <1>5, Zenon DEF write_fault
  <2>3. w = Promise!terminal_write(AllScreens[tty], SubSeq(text, 1, n))
    BY <1>1, SameWrite, Zenon
  <2> HIDE DEF w
  <2>4. s = Promise!printf(w, report)
    BY SamePrint, Zenon
  <2> HIDE DEF s
  <2>5. Promise!Draw(tty, s)
    BY <1>1, <2>1, <2>2, DrawPromised, Zenon
  <2>6. Promise!Draw(tty, Promise!printf(Promise!terminal_write(AllScreens[tty], SubSeq(text, 1, n)),
                                         report))
    BY <2>3, <2>4, <2>5, Zenon
  <2>7. QED
    BY <2>2, <2>6, Zenon DEF Promise!Fail, AllScreens
<1>6. QED
  BY ZenonT(60), <1>2, <1>3, <1>4, <1>5 DEF Promise!Next

\* The ticks: Switch.
LEMMA TickPromised ==
    ASSUME Steady, task_switch_boot \/ task_switch_restart \/ task_switch
    PROVE  Promise!Next
<1>1. PagesOwned' /\ PagesOwned
  BY TickKeeps, Zenon DEF Steady
<1>2. tty' \in Terminals
  BY <1>1, Zenon DEF PagesOwned, TypeOK
<1>3. UNCHANGED <<screen_x, screen_y, video_mem, page, displayed>>
  BY Zenon DEF task_switch_boot, task_switch_restart, start_shell, task_switch
<1>4. terminal_num' \in {terminal_num, tty', 0}
  BY Zenon DEF task_switch_boot, task_switch_restart, start_shell, task_switch
<1>5. PICK t \in Terminals : t = tty'
  BY <1>2, Zenon
<1>6. Promise!Switch(t)
  BY <1>3, <1>4, <1>5, Zenon DEF Promise!Switch, Current
<1>7. QED
  BY <1>6, Zenon DEF Promise!Next

\* Together.
LEMMA ScreenPromised ==
    ASSUME Steady, ScreenStep, windows' = {}
    PROVE  Promise!Next \/ UNCHANGED Promise!screensVars
<1>1. CASE vidmap \/ execute \/ program_ends
  <2>1. UNCHANGED <<screen_x, screen_y, video_mem, page, displayed, terminal_num>>
    BY <1>1, Zenon DEF vidmap, execute, program_ends
  <2>2. tty' = tty
    BY <1>1, CalmWakes, Zenon DEF Steady, vidmap, execute, program_ends
  <2>3. QED
    BY <2>1, <2>2, Zenon DEF Promise!screensVars, Current
<1>2. QED
  BY ZenonT(60), <1>1, KeyPromised, ProgramPromised, TickPromised DEF ScreenStep

\* The initial state.
LEMMA InitSteady == ASSUME Init PROVE Steady
<1>1. TERMINAL_COUNT \in Nat /\ 0 \in Terminals /\ 0 \in Cols /\ Rows \subseteq Nat
  BY TerminalsAre, Sizes, Zenon DEF Rows
<1>2. BlankPage \in [Cells -> Symbols]
  BY Zenon DEF BlankPage, Symbols
<1>3. screen_x \in [Terminals -> Cols] /\ screen_y \in [Terminals -> Nat]
  BY <1>1 DEF Init
<1>4. video_mem \in [Terminals -> Pages] /\ PT1 \in [Terminals -> Pages]
  BY TerminalsAre, Zenon DEF Init
<1>5. page \in [Pages -> [Cells -> Symbols]] /\ vid \in [Terminals -> Terminals \cup {NoMap}]
  BY <1>2, Zenon DEF Init
<1>6. TypeOK
  <2>1. 0 \in 0 .. TERMINAL_COUNT /\ 0 \in Nat
    BY <1>1
  <2>2. QED
    BY <1>1, <1>3, <1>4, <1>5, <2>1, Zenon DEF Init, TypeOK
<1>7. \A t \in Terminals : PT1[t] = video_mem[t] /\ video_mem[t] = IF t = displayed THEN VIDEO ELSE t
  BY <1>1, Zenon DEF Init
<1>8. PagesOwned
  BY <1>6, <1>7, Zenon DEF PagesOwned
<1>9. QED
  BY <1>8, Zenon DEF Steady, Init

\* The initial screens.
LEMMA InitPromised == ASSUME Init, Steady PROVE Promise!Init
<1>1. PagesOwned /\ windows = {} /\ TypeOK
  BY Zenon DEF Steady, PagesOwned
<1>2. displayed \in Terminals /\ tty \in Terminals /\ terminal_num \in Terminals
      /\ page[VIDEO] = Current(displayed).cells
  BY <1>1, DisplayIs, Zenon DEF TypeOK
<1>3. \A t \in Terminals : screen_x[t] \in Cols /\ screen_y[t] \in Rows /\ video_mem[t] \in Pages
  BY <1>1, Sizes, Zenon DEF Init, TypeOK
<1>4. \A t \in Terminals : page[video_mem[t]] = BlankPage
  BY <1>3, Zenon DEF Init
<1>5. AllScreens \in [Terminals -> [x : Cols, y : Rows, cells : {BlankPage}]]
  BY <1>3, <1>4, Zenon DEF AllScreens, Current
<1>6. page[VIDEO] = AllScreens[displayed].cells
  BY <1>2, Zenon DEF AllScreens
<1>7. QED
  BY <1>2, <1>5, <1>6, SameSizes, Zenon DEF Promise!Init, AllScreens
=============================================================================
