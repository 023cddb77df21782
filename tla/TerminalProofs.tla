--------------------------- MODULE TerminalProofs ---------------------------
(***************************************************************************)
(* Proofs about Terminal, for every number of terminals, every size of the *)
(* line buffer and every set of keys: the bounds of the buffers, the       *)
(* mailbox while terminal_read copies it, the window of a first read, and  *)
(* that the keyboard handler and terminal_read implement LineDiscipline.   *)
(***************************************************************************)
EXTENDS MCTerminal, WellFoundedInduction, TLAPS

-----------------------------------------------------------------------------
(* The inductive invariant *)

\* The places of char_buf up to buf_index hold characters, and, until a line
\* was written into by another terminal, letters: the newline of one terminal
\* is then never inside the line of another.
LinesInv ==
    \A u \in Terminals : \A j \in 0 .. buf_index[u] :
        /\ char_buf[j] # NUL
        /\ "mixed" \notin windows => char_buf[j] \in Letters

\* The mailbox of t is taken, and its newline is not before what the read of
\* t has copied.
HoldsLine(t) ==
    /\ command_buf[t][0] # NUL
    /\ \E n \in Places : Len(reader[t].buf) <= n /\ command_buf[t][n] = NL

\* The mailbox of t as its read finds it at each line of terminal_read.
MailOf(t) ==
    /\ ~At(t, "overrun")
    /\ At(t, "cleared") => t_enter_flag[t] = 0
    /\ At(t, "wait") => reader[t].buf = <<>>
    /\ At(t, "wait") /\ t_enter_flag[t] = 0 => command_buf[t][0] = NUL
    /\ At(t, "wait") /\ t_enter_flag[t] = 1 => HoldsLine(t)
    /\ At(t, "copy") => t_enter_flag[t] = 1 /\ HoldsLine(t)
    /\ At(t, "copy") => \A j \in 1 .. Len(reader[t].buf) :
          reader[t].buf[j] = command_buf[t][j - 1] /\ reader[t].buf[j] # NL
    /\ (At(t, "idle") \/ At(t, "cleared")) /\ got[t] # NoLine
          => command_buf[t][0] # NUL

MailInv == "cleared" \notin windows => \A t \in Terminals : MailOf(t)

TerminalInv == TypeOK /\ LinesInv /\ MailInv

-----------------------------------------------------------------------------
(* Characters, places and the cases of the keyboard handler *)

\* The newline and the empty place are no letters, and a key of the table
\* gives a letter unless it has no character (scancodeTable).
LEMMA Chars ==
    /\ NUL # NL /\ NUL \notin Letters /\ NL \notin Letters
    /\ NUL \in Characters /\ NL \in Characters
    /\ \A c \in Letters : c \in Characters
    /\ \A k \in TableKeys : \A r : scancodeTable(r, k) # NUL =>
          scancodeTable(r, k) \in Letters
<1>1. NUL # NL /\ NUL \notin Letters /\ NL \notin Letters
  <2>1. \A c \in Letters : c[1] \in {"a", "l", "1", "backslash"}
    BY Zenon DEF Letters, TableKeys, LetterKeys, SymbolKeys
  <2>2. NUL[1] = "NUL" /\ NL[1] = "NL"
    BY Zenon DEF NUL, NL
  <2>3. QED
    BY <2>1, <2>2, Zenon
<1>2. \A k \in TableKeys : \A r : scancodeTable(r, k) # NUL => scancodeTable(r, k) \in Letters
  <2> SUFFICES ASSUME NEW k \in TableKeys, NEW r, scancodeTable(r, k) # NUL
               PROVE  scancodeTable(r, k) \in Letters
    BY Zenon
  <2> DEFINE s == \/ k \in LetterKeys /\ r \in {1, 2}
                  \/ k \in SymbolKeys /\ r \in {1, 3}
                  \/ k = "backslash" /\ r = 1
  <2>1. k # "esc" /\ scancodeTable(r, k) = <<k, s>>
    BY Zenon DEF scancodeTable
  <2>2. s \in BOOLEAN
    BY Zenon
  <2> HIDE DEF s
  <2>3. \A x \in TableKeys \ {"esc"} : \A b \in BOOLEAN : <<x, b>> \in Letters
    BY Zenon DEF Letters
  <2>4. QED
    BY <2>1, <2>2, <2>3, Zenon
<1>3. QED
  BY <1>1, <1>2, Zenon DEF Characters

\* Nothing a read returns is taken for "no line was returned yet".
LEMMA LinesAreLines == NoLine \notin Seq(Characters)
<1>1. Len(NoLine) = 1 /\ NoLine[1][1] = "no line"
  BY Zenon DEF NoLine
<1>2. \A c \in Characters : c[1] # "no line"
  <2>1. \A c \in Letters : c[1] \in {"a", "l", "1", "backslash"}
    BY Zenon DEF Letters, TableKeys, LetterKeys, SymbolKeys
  <2>2. NUL[1] = "NUL" /\ NL[1] = "NL"
    BY Zenon DEF NUL, NL
  <2>3. QED
    BY <2>1, <2>2, Zenon DEF Characters
<1>3. \A l \in Seq(Characters) : Len(l) = 1 => l[1] \in Characters
  OBVIOUS
<1>4. QED
  BY <1>1, <1>2, <1>3, Zenon

\* The first place of a line, and the place after a line that is not full.
LEMMA PlacesOfLines ==
    /\ CHARACTER_BUFFER_SIZE \in Nat /\ CHARACTER_BUFFER_SIZE > 1
    /\ 0 \in Places
    /\ \A i \in -1 .. CHARACTER_BUFFER_SIZE - 2 : i + 1 \in Places
    /\ \A i \in Places : i \in Nat /\ 0 .. i \subseteq Places
BY TerminalAssumption DEF Places

\* A buffer with a newline has a first one: the place the loop that copies a
\* line stops at.
LEMMA FirstNewline ==
    ASSUME NEW b, NEW e \in Places, b[e] = NL
    PROVE  \E n \in Places : /\ n <= e /\ b[n] = NL
                             /\ \A j \in 0 .. n - 1 : b[j] # NL
<1> DEFINE S == {i \in Places : b[i] = NL}
<1>1. S \subseteq Nat /\ e \in S
  BY PlacesOfLines, Zenon
<1>2. PICK m \in S : \A k \in S : <<k, m>> \notin OpToRel(<, Nat)
  <2> HIDE DEF S
  <2>1. QED
    BY <1>1, WFMin, NatLessThanWellFounded, Zenon
<1>3. \A k \in S : ~(k < m)
  <2> HIDE DEF S
  <2>1. QED
    BY <1>1, <1>2, Zenon DEF OpToRel
<1>4. m \in Places /\ b[m] = NL /\ m <= e
  <2>1. m \in Places /\ b[m] = NL
    BY <1>2, Zenon
  <2>2. m <= e
    <3> HIDE DEF S
    <3>1. m \in Nat /\ e \in Nat /\ ~(e < m)
      BY <1>1, <1>2, <1>3, Zenon
    <3>2. QED
      BY <3>1
  <2>3. QED
    BY <2>1, <2>2, Zenon
<1>5. ASSUME NEW j \in 0 .. m - 1 PROVE b[j] # NL
  BY <1>1, <1>3, <1>4, PlacesOfLines
<1>6. QED
  BY <1>4, <1>5, Zenon

\* A letter c is put after the line of the terminal on the screen.
Typed(c) ==
    /\ buf_index[terminal_num] < CHARACTER_BUFFER_SIZE - 2
    /\ buf_index' = [buf_index EXCEPT ![terminal_num] = @ + 1]
    /\ Put(c)
    /\ UNCHANGED <<mailVars, terminal_num, readVars>>

\* The line of the terminal on the screen is cut after place m.
CutAfter(m) ==
    /\ buf_index' = [buf_index EXCEPT ![terminal_num] = m]
    /\ UNCHANGED <<char_buf, mailVars, terminal_num, readVars, windows>>

\* No line changes; the terminal on the screen may.
Moved ==
    /\ terminal_num' \in Terminals
    /\ UNCHANGED <<lineVars, mailVars, readVars, windows>>

\* keyboard_handler does one of five things to the lines and the mailboxes,
\* and keeps the flags of the modifier keys 0 or 1.
LEMMA KeyCases ==
    ASSUME TypeOK, NEW k \in Keys, keyboard_handler(k)
    PROVE  /\ shift_flag' \in 0 .. 1 /\ ctrl_flag' \in 0 .. 1 /\ alt_flag' \in 0 .. 1
           /\ capslock_flag' \in 0 .. 1 /\ release_caps' \in 0 .. 1
           /\ \/ press_enter /\ UNCHANGED readVars
              \/ \E c \in Letters : Typed(c)
              \/ CutAfter(-1)
              \/ buf_index[terminal_num] > -1 /\ CutAfter(buf_index[terminal_num] - 1)
              \/ Moved
<1>1. CASE k = "ENTER"
  BY <1>1, Zenon DEF keyboard_handler, keyboard_output_dealer, press_enter, modVars, TypeOK
<1>2. CASE k = "BACKSPACE"
  <2>1. press_backspace /\ UNCHANGED readVars
    BY <1>2, Zenon DEF keyboard_handler, keyboard_output_dealer
  <2>2. CASE buf_index[terminal_num] > -1
    BY <2>1, <2>2, Zenon DEF press_backspace, CutAfter, modVars, TypeOK
  <2>3. CASE ~(buf_index[terminal_num] > -1)
    BY <2>1, <2>3, Zenon DEF press_backspace, Moved, lineVars, modVars, TypeOK
  <2>4. QED
    BY <2>2, <2>3, Zenon
<1>3. CASE k \in {"SHIFT", "SHIFT_UP", "CTRL", "CTRL_UP", "ALT", "ALT_UP",
                  "CAPSLOCK", "CAPSLOCK_UP"}
  <2>1. modifier_key(k) /\ UNCHANGED readVars
    BY <1>3, Zenon DEF keyboard_handler, keyboard_output_dealer
  <2>2. QED
    BY <2>1 DEF modifier_key, Moved, TypeOK
<1>4. CASE k \notin {"ENTER", "BACKSPACE", "SHIFT", "SHIFT_UP", "CTRL", "CTRL_UP", "ALT",
                     "ALT_UP", "CAPSLOCK", "CAPSLOCK_UP"}
  <2>1. defaultKeyPressed(k) /\ UNCHANGED readVars
    BY <1>4, Zenon DEF keyboard_handler, keyboard_output_dealer
  <2>2. UNCHANGED <<modVars, mailVars>>
    BY <2>1, Zenon DEF defaultKeyPressed
  <2>3. CASE alt_flag = 1 /\ k \in FunctionKeys
    <3>1. k \in Keys \cap FunctionKeys
      BY <2>3, Zenon
    <3>2. FunctionNumber(k) < TERMINAL_COUNT
      BY <3>1, TerminalAssumption, Zenon
    <3>3. FunctionNumber(k) \in Terminals
      BY <2>3, <3>2, TerminalAssumption DEF FunctionKeys, FunctionNumber, Terminals
    <3>4. QED
      BY <2>1, <2>2, <2>3, <3>3, Zenon DEF defaultKeyPressed, Moved, modVars, TypeOK
  <2>4. CASE ~(alt_flag = 1 /\ k \in FunctionKeys) /\ k \in TableKeys /\ ClearsScreen(k)
    BY <2>1, <2>2, <2>4, Zenon DEF defaultKeyPressed, CutAfter, modVars, TypeOK
  <2>5. CASE /\ ~(alt_flag = 1 /\ k \in FunctionKeys) /\ k \in TableKeys
             /\ ~ClearsScreen(k) /\ Accepts(scancodeTable(Row, k))
    <3>1. scancodeTable(Row, k) \in Letters
      BY <2>5, Chars, Zenon DEF Accepts
    <3>2. Typed(scancodeTable(Row, k))
      BY <2>1, <2>2, <2>5, Zenon DEF defaultKeyPressed, Typed, Accepts
    <3>3. QED
      BY <2>2, <3>1, <3>2, Zenon DEF modVars, TypeOK
  <2>6. CASE /\ ~(alt_flag = 1 /\ k \in FunctionKeys)
             /\ ~(k \in TableKeys /\ ClearsScreen(k))
             /\ ~(k \in TableKeys /\ Accepts(scancodeTable(Row, k)))
    BY <2>1, <2>2, <2>6, Zenon DEF defaultKeyPressed, Moved, modVars, TypeOK
  <2>7. QED
    BY <2>3, <2>4, <2>5, <2>6, Zenon
<1>5. QED
  BY <1>1, <1>2, <1>3, <1>4, Zenon

\* What PRESS_ENTER sends: the characters up to the first newline, which is
\* there, to a mailbox that is empty.
Sent(n) ==
    LET v == terminal_num
    IN  /\ n <= buf_index[v] + 1 /\ char_buf'[n] = NL
        /\ \A j \in 0 .. n - 1 : char_buf'[j] # NL
        /\ command_buf' = [command_buf EXCEPT ![v] =
               [i \in Places |-> IF i <= n THEN char_buf'[i] ELSE command_buf[v][i]]]
        /\ t_enter_flag' = [t_enter_flag EXCEPT ![v] = 1]

\* press_enter writes the newline after the line, which then begins with a
\* character, and sends it if the mailbox is empty.
LEMMA EnterCases ==
    ASSUME TypeOK, LinesInv, press_enter
    PROVE  /\ char_buf' = [char_buf EXCEPT ![buf_index[terminal_num] + 1] = NL]
           /\ char_buf' \in [Places -> Characters]
           /\ char_buf'[0] # NUL
           /\ buf_index' = [buf_index EXCEPT ![terminal_num] = -1]
           /\ terminal_num' = terminal_num
           /\ windows \subseteq windows' /\ windows' \subseteq {"mixed", "cleared"}
           /\ \/ command_buf[terminal_num][0] # NUL /\ UNCHANGED mailVars
              \/ command_buf[terminal_num][0] = NUL /\ \E n \in Places : Sent(n)
<1> DEFINE v == terminal_num
           e == buf_index[v] + 1
           b == [char_buf EXCEPT ![e] = NL]
<1>1. v \in Terminals /\ e \in Places /\ e \in Nat /\ buf_index[v] = e - 1
  BY PlacesOfLines DEF TypeOK
<1>2. char_buf' = b
  BY Zenon DEF press_enter
<1>3. b \in [Places -> Characters] /\ b[e] = NL
  BY <1>1, Chars, Zenon DEF TypeOK
<1>4. b[0] # NUL
  <2>1. CASE e = 0
    BY <1>3, <2>1, Chars, Zenon
  <2>2. CASE e # 0
    <3>1. 0 \in 0 .. buf_index[v]
      BY <1>1, <2>2
    <3>2. char_buf[0] # NUL
      BY <1>1, <3>1, Zenon DEF LinesInv
    <3>3. QED
      BY <1>1, <2>2, <3>2, PlacesOfLines, Zenon DEF TypeOK
  <2>3. QED
    BY <2>1, <2>2, Zenon
<1>5. /\ buf_index' = [buf_index EXCEPT ![terminal_num] = -1]
      /\ terminal_num' = terminal_num
      /\ windows \subseteq windows' /\ windows' \subseteq {"mixed", "cleared"}
  BY Zenon DEF press_enter, TypeOK
<1>6. SendLine(b)
  BY Zenon DEF press_enter
<1>7. CASE command_buf[v][0] # NUL
  BY <1>1, <1>2, <1>3, <1>4, <1>5, <1>6, <1>7, Zenon DEF SendLine
<1>8. CASE command_buf[v][0] = NUL
  <2> DEFINE first(i) == b[i] = NL /\ \A j \in 0 .. i - 1 : b[j] # NL
             n == CHOOSE i \in Places : first(i)
  <2>1. \E i \in Places : first(i) /\ i <= e
    BY <1>1, <1>3, FirstNewline, Zenon
  <2>2. n \in Places /\ first(n)
    BY <2>1, Zenon
  <2>3. n <= e
    <3> HIDE DEF n
    <3>1. PICK i \in Places : first(i) /\ i <= e
      BY <2>1, Zenon
    <3>2. n \in Nat /\ i \in Nat
      BY <2>2, PlacesOfLines, Zenon
    <3>3. ~(i < n)
      BY <2>2, <3>1, <3>2
    <3>4. QED
      BY <1>1, <3>1, <3>2, <3>3
  <2>4. /\ command_buf' = [command_buf EXCEPT ![v] =
               [i \in Places |-> IF i <= n THEN b[i] ELSE command_buf[v][i]]]
        /\ t_enter_flag' = [t_enter_flag EXCEPT ![v] = 1]
    BY <1>1, <1>6, <1>8, Zenon DEF SendLine, TypeOK
  <2>5. Sent(n)
    <3> HIDE DEF n
    <3>1. QED
      BY <1>1, <1>2, <2>2, <2>3, <2>4 DEF Sent
  <2>6. QED
    BY <1>1, <1>2, <1>3, <1>4, <1>5, <1>8, <2>2, <2>5, Zenon
<1>9. QED
  BY <1>7, <1>8, Zenon

-----------------------------------------------------------------------------
(* Every step keeps the invariant *)

\* No line is typed and no read has begun when the terminals start.
LEMMA TerminalInitial == Init => TerminalInv
<1> SUFFICES ASSUME Init PROVE TerminalInv
  BY Zenon
<1>1. TypeOK
  <2>1. <<>> \in Seq(Characters)
    OBVIOUS
  <2>2. QED
    BY <2>1, Chars, PlacesOfLines, TerminalAssumption
       DEF Init, InitKeyboard, TypeOK, Idle, Terminals
<1>2. LinesInv
  BY DEF Init, InitKeyboard, LinesInv
<1>3. MailInv
  BY Zenon DEF Init, Idle, MailInv, MailOf, At
<1>4. QED
  BY <1>1, <1>2, <1>3, Zenon DEF TerminalInv

\* A step that leaves the mailbox and the read of t alone keeps what is said
\* of them.
LEMMA MailKept ==
    ASSUME NEW t \in Terminals, MailOf(t),
           command_buf'[t] = command_buf[t], t_enter_flag'[t] = t_enter_flag[t],
           reader'[t] = reader[t], got'[t] = got[t]
    PROVE  MailOf(t)'
BY Zenon DEF MailOf, HoldsLine, At

\* A key that leaves the mailboxes alone.
LEMMA MailsKept ==
    ASSUME MailInv, windows \subseteq windows', UNCHANGED <<mailVars, readVars>>
    PROVE  MailInv'
<1> SUFFICES ASSUME "cleared" \notin windows', NEW t \in Terminals
             PROVE  MailOf(t)'
  BY Zenon DEF MailInv
<1>1. MailOf(t)
  BY Zenon DEF MailInv
<1>2. QED
  BY <1>1, MailKept, Zenon DEF mailVars, readVars

\* Enter: the line leaves char_buf, and a mailbox that is filled was empty.
LEMMA EnterStep ==
    ASSUME TerminalInv, press_enter, UNCHANGED readVars
    PROVE  LinesInv' /\ MailInv' /\ command_buf' \in [Terminals -> [Places -> Characters]]
           /\ t_enter_flag' \in [Terminals -> 0 .. 1]
<1> DEFINE v == terminal_num
           e == buf_index[v] + 1
<1>1. TypeOK /\ LinesInv /\ MailInv
  BY Zenon DEF TerminalInv
<1>2. v \in Terminals /\ e \in Places /\ e \in Nat
  BY <1>1, PlacesOfLines, Zenon DEF TypeOK
<1>3. /\ char_buf' = [char_buf EXCEPT ![e] = NL]
      /\ char_buf' \in [Places -> Characters]
      /\ char_buf'[0] # NUL
      /\ buf_index' = [buf_index EXCEPT ![v] = -1]
      /\ windows \subseteq windows'
  BY <1>1, EnterCases, Zenon
<1>4. \/ command_buf[v][0] # NUL /\ UNCHANGED mailVars
      \/ command_buf[v][0] = NUL /\ \E n \in Places : Sent(n)
  BY <1>1, EnterCases, Zenon
<1>5. LinesInv'
  <2> SUFFICES ASSUME NEW u \in Terminals, NEW j \in 0 .. buf_index'[u]
               PROVE  /\ char_buf'[j] # NUL
                      /\ "mixed" \notin windows' => char_buf'[j] \in Letters
    BY Zenon DEF LinesInv
  <2>1. u # v /\ j \in 0 .. buf_index[u] /\ j \in Places
    <3>1. buf_index'[u] = IF u = v THEN -1 ELSE buf_index[u]
      BY <1>1, <1>2, <1>3, Zenon DEF TypeOK
    <3>2. u # v /\ j \in 0 .. buf_index[u]
      BY <3>1
    <3>3. buf_index[u] \in -1 .. CHARACTER_BUFFER_SIZE - 2
      BY <1>1, Zenon DEF TypeOK
    <3>4. QED
      BY <3>2, <3>3, PlacesOfLines DEF Places
  <2>2. char_buf'[j] = IF j = e THEN NL ELSE char_buf[j]
    BY <1>1, <1>3, <2>1, Zenon DEF TypeOK
  <2>3. "mixed" \notin windows' => j # e /\ "mixed" \notin windows
    BY <1>3, <2>1 DEF press_enter
  <2>4. QED
    BY <1>1, <2>1, <2>2, <2>3, Chars, Zenon DEF LinesInv
<1>6. CASE command_buf[v][0] # NUL /\ UNCHANGED mailVars
  BY <1>1, <1>3, <1>5, <1>6, MailsKept, Zenon DEF TypeOK, mailVars
<1>7. CASE command_buf[v][0] = NUL /\ \E n \in Places : Sent(n)
  <2>1. PICK n \in Places : Sent(n)
    BY <1>7, Zenon
  <2>2. /\ command_buf' \in [Terminals -> [Places -> Characters]]
        /\ t_enter_flag' \in [Terminals -> 0 .. 1]
    BY <1>1, <1>2, <1>3, <2>1 DEF Sent, TypeOK
  <2>3. t_enter_flag'[v] = 1 /\ command_buf'[v][0] # NUL /\ command_buf'[v][n] = NL
    BY <1>1, <1>2, <1>3, <2>1, PlacesOfLines DEF Sent, TypeOK
  <2>4. MailInv'
    <3> SUFFICES ASSUME "cleared" \notin windows', NEW t \in Terminals
                 PROVE  MailOf(t)'
      BY Zenon DEF MailInv
    <3>1. MailOf(t)
      BY <1>1, <1>3, Zenon DEF MailInv
    <3>2. CASE t # v
      <4>1. command_buf'[t] = command_buf[t] /\ t_enter_flag'[t] = t_enter_flag[t]
        BY <1>1, <2>1, <3>2, Zenon DEF Sent, TypeOK
      <4>2. QED
        BY <3>1, <4>1, MailKept, Zenon DEF readVars
    <3>3. CASE t = v
      <4>1. ~At(v, "cleared")
        BY <1>7, <3>3, Zenon DEF press_enter, At
      <4>2. ~At(v, "copy")
        BY <1>7, <3>1, <3>3, Zenon DEF MailOf, HoldsLine
      <4>3. Len(<<>>) <= n
        BY PlacesOfLines
      <4>4. reader'[v] = reader[v] /\ got'[v] = got[v]
        BY Zenon DEF readVars
      <4>5. QED
        BY <2>3, <3>1, <3>3, <4>1, <4>2, <4>3, <4>4 DEF MailOf, HoldsLine, At
    <3>4. QED
      BY <3>2, <3>3, Zenon
  <2>5. QED
    BY <1>5, <2>2, <2>4, Zenon
<1>8. QED
  BY <1>4, <1>6, <1>7, Zenon

\* Every key keeps the invariant.
LEMMA KeyStep ==
    ASSUME TerminalInv, NEW k \in Keys, keyboard_handler(k)
    PROVE  TerminalInv'
<1>1. TypeOK /\ LinesInv /\ MailInv
  BY Zenon DEF TerminalInv
<1>2. /\ shift_flag' \in 0 .. 1 /\ ctrl_flag' \in 0 .. 1 /\ alt_flag' \in 0 .. 1
      /\ capslock_flag' \in 0 .. 1 /\ release_caps' \in 0 .. 1
  BY <1>1, KeyCases, Zenon
<1>3. readVars' = readVars
  BY Zenon DEF keyboard_handler
<1>4. terminal_num \in Terminals /\ buf_index[terminal_num] \in -1 .. CHARACTER_BUFFER_SIZE - 2
  BY <1>1, Zenon DEF TypeOK
<1>5. CASE press_enter
  <2>1. LinesInv' /\ MailInv' /\ command_buf' \in [Terminals -> [Places -> Characters]]
        /\ t_enter_flag' \in [Terminals -> 0 .. 1]
    BY <1>3, <1>5, EnterStep, Zenon
  <2>2. /\ char_buf' \in [Places -> Characters]
        /\ buf_index' = [buf_index EXCEPT ![terminal_num] = -1]
        /\ terminal_num' = terminal_num
        /\ windows' \subseteq {"mixed", "cleared"}
    BY <1>1, <1>5, EnterCases, Zenon
  <2>3. -1 \in -1 .. CHARACTER_BUFFER_SIZE - 2
    BY PlacesOfLines
  <2>4. QED
    BY <1>1, <1>2, <1>3, <2>1, <2>2, <2>3, Zenon DEF TerminalInv, TypeOK, readVars
<1>6. ASSUME NEW c \in Letters, Typed(c) PROVE TerminalInv'
  <2> DEFINE v == terminal_num
             e == buf_index[v] + 1
  <2>1. e \in Places /\ e \in Nat /\ e <= CHARACTER_BUFFER_SIZE - 2
    BY <1>4, <1>6, PlacesOfLines DEF Typed
  <2>2. /\ buf_index' = [buf_index EXCEPT ![v] = e]
        /\ char_buf' = [char_buf EXCEPT ![e] = c]
        /\ windows \subseteq windows' /\ windows' \subseteq {"mixed", "cleared"}
        /\ UNCHANGED <<mailVars, readVars, terminal_num>>
    BY <1>1, <1>4, <1>6, Zenon DEF Typed, Put, TypeOK
  <2>3. TypeOK'
    BY <1>1, <1>2, <1>4, <2>1, <2>2, Chars DEF TypeOK, mailVars, readVars
  <2>4. MailInv'
    BY <1>1, <2>2, MailsKept, Zenon
  <2>5. LinesInv'
    <3> SUFFICES ASSUME NEW u \in Terminals, NEW j \in 0 .. buf_index'[u]
                 PROVE  /\ char_buf'[j] # NUL
                        /\ "mixed" \notin windows' => char_buf'[j] \in Letters
      BY Zenon DEF LinesInv
    <3>1. j \in Places /\ (j # e => j \in 0 .. buf_index[u])
      <4>1. buf_index'[u] = IF u = v THEN e ELSE buf_index[u]
        BY <1>1, <1>4, <2>2, Zenon DEF TypeOK
      <4>2. buf_index[u] \in -1 .. CHARACTER_BUFFER_SIZE - 2 /\ buf_index[v] = e - 1
        BY <1>1, <1>4 DEF TypeOK
      <4>3. QED
        BY <2>1, <4>1, <4>2, PlacesOfLines DEF Places
    <3>2. char_buf'[j] = IF j = e THEN c ELSE char_buf[j]
      BY <1>1, <2>2, <3>1, Zenon DEF TypeOK
    <3>3. QED
      BY <1>1, <2>2, <3>1, <3>2, Chars, Zenon DEF LinesInv
  <2>6. QED
    BY <2>3, <2>4, <2>5, Zenon DEF TerminalInv
<1>7. ASSUME NEW m \in -1 .. buf_index[terminal_num], CutAfter(m) PROVE TerminalInv'
  <2>1. buf_index' = [buf_index EXCEPT ![terminal_num] = m] /\ m \in -1 .. CHARACTER_BUFFER_SIZE - 2
    BY <1>4, <1>7, PlacesOfLines DEF CutAfter
  <2>2. TypeOK'
    BY <1>1, <1>2, <1>4, <1>7, <2>1 DEF CutAfter, TypeOK, mailVars, readVars
  <2>3. MailInv'
    BY <1>1, <1>7, MailsKept, Zenon DEF CutAfter
  <2>4. \A u \in Terminals : \A j \in 0 .. buf_index'[u] : j \in 0 .. buf_index[u]
    <3> TAKE u \in Terminals
    <3>1. buf_index[u] \in Int /\ buf_index'[u] = IF u = terminal_num THEN m ELSE buf_index[u]
      BY <1>1, <2>1 DEF TypeOK
    <3>2. QED
      BY <1>4, <3>1
  <2>5. LinesInv'
    BY <1>1, <1>7, <2>4, Zenon DEF CutAfter, LinesInv
  <2>6. QED
    BY <2>2, <2>3, <2>5, Zenon DEF TerminalInv
<1>8. CASE Moved
  <2>1. TypeOK' /\ LinesInv'
    BY <1>1, <1>2, <1>8, Zenon DEF Moved, TypeOK, LinesInv, lineVars, mailVars, readVars
  <2>2. QED
    BY <1>1, <1>8, <2>1, MailsKept, Zenon DEF Moved, TerminalInv
<1>9. /\ -1 \in -1 .. buf_index[terminal_num]
      /\ buf_index[terminal_num] > -1 =>
            buf_index[terminal_num] - 1 \in -1 .. buf_index[terminal_num]
  BY <1>4
<1>10. QED
  BY <1>1, <1>5, <1>6, <1>7, <1>8, <1>9, KeyCases, Zenon

\* Every statement of terminal_read keeps the invariant.
LEMMA ReadStep ==
    ASSUME TerminalInv, NEW t \in Terminals, terminal_read(t)
    PROVE  TerminalInv'
<1>1. TypeOK /\ LinesInv /\ MailInv
  BY Zenon DEF TerminalInv
<1>2. UNCHANGED <<modVars, lineVars, terminal_num, windows>>
  BY Zenon DEF terminal_read
<1>3. LinesInv'
  BY <1>1, <1>2, Zenon DEF LinesInv, lineVars
<1> DEFINE PCs == {"idle", "cleared", "wait", "copy", "overrun"}
           Same(u) == /\ command_buf'[u] = command_buf[u]
                      /\ t_enter_flag'[u] = t_enter_flag[u]
                      /\ reader'[u] = reader[u] /\ got'[u] = got[u]
<1>4. ASSUME NEW pc \in PCs, NEW buf \in Seq(Characters), Goto(t, pc, buf),
             command_buf' \in [Terminals -> [Places -> Characters]],
             t_enter_flag' \in [Terminals -> 0 .. 1],
             got' \in [Terminals -> Seq(Characters) \cup {NoLine}],
             \A u \in Terminals \ {t} : command_buf'[u] = command_buf[u]
                /\ t_enter_flag'[u] = t_enter_flag[u] /\ got'[u] = got[u],
             "cleared" \notin windows => MailOf(t)'
      PROVE  TerminalInv'
  <2>1. reader' \in [Terminals -> [pc : PCs, buf : Seq(Characters)]]
    BY <1>1, <1>4, Zenon DEF Goto, TypeOK
  <2>2. TypeOK'
    BY <1>1, <1>2, <1>4, <2>1, Zenon DEF TypeOK, modVars, lineVars
  <2>3. \A u \in Terminals \ {t} : reader'[u] = reader[u]
    BY <1>1, <1>4, Zenon DEF Goto, TypeOK
  <2>4. MailInv'
    <3> SUFFICES ASSUME "cleared" \notin windows, NEW u \in Terminals PROVE MailOf(u)'
      BY <1>2, Zenon DEF MailInv
    <3>1. CASE u = t
      BY <1>4, <3>1, Zenon
    <3>2. CASE u # t
      BY <1>1, <1>4, <2>3, <3>2, MailKept, Zenon DEF MailInv
    <3>3. QED
      BY <3>1, <3>2, Zenon
  <2>5. QED
    BY <1>3, <2>2, <2>4, Zenon DEF TerminalInv
<1>5. <<>> \in Seq(Characters)
  OBVIOUS
<1>6. CASE read_clear_flag(t)
  <2>1. /\ At(t, "idle") /\ Goto(t, "cleared", <<>>)
        /\ command_buf' = command_buf /\ got' = got
        /\ t_enter_flag' = [t_enter_flag EXCEPT ![t] = 0]
    BY <1>6, Zenon DEF read_clear_flag
  <2>2. reader'[t].pc = "cleared" /\ t_enter_flag'[t] = 0
    BY <1>1, <2>1, Zenon DEF Goto, TypeOK
  <2>3. "cleared" \notin windows => MailOf(t)'
    BY <1>1, <2>1, <2>2, Zenon DEF MailInv, MailOf, At
  <2>4. /\ t_enter_flag' \in [Terminals -> 0 .. 1]
        /\ \A u \in Terminals \ {t} : t_enter_flag'[u] = t_enter_flag[u]
    BY SMTT(40), <1>1, <2>1 DEF TypeOK
  <2>5. QED
    BY ZenonT(60), <1>1, <1>4, <1>5, <2>1, <2>3, <2>4 DEF TypeOK
<1>7. CASE read_clear_mailbox(t)
  <2>1. /\ At(t, "cleared") /\ Goto(t, "wait", <<>>)
        /\ command_buf' = [command_buf EXCEPT ![t][0] = NUL]
        /\ t_enter_flag' = t_enter_flag /\ got' = got
    BY <1>7, Zenon DEF read_clear_mailbox
  <2>2. /\ reader'[t].pc = "wait" /\ reader'[t].buf = <<>>
        /\ command_buf' \in [Terminals -> [Places -> Characters]]
        /\ \A u \in Terminals \ {t} : command_buf'[u] = command_buf[u]
        /\ command_buf'[t][0] = NUL
    BY <1>1, <2>1, Chars, PlacesOfLines, Zenon DEF Goto, TypeOK
  <2>3. "cleared" \notin windows => MailOf(t)'
    BY <1>1, <2>1, <2>2 DEF MailInv, MailOf, At
  <2>4. QED
    BY ZenonT(60), <1>1, <1>4, <1>5, <2>1, <2>2, <2>3 DEF TypeOK
<1>8. CASE read_wakes(t)
  <2>1. /\ At(t, "wait") /\ t_enter_flag[t] = 1 /\ Goto(t, "copy", <<>>)
        /\ command_buf' = command_buf /\ t_enter_flag' = t_enter_flag /\ got' = got
    BY <1>8, Zenon DEF read_wakes, mailVars
  <2>2. reader'[t].pc = "copy" /\ reader'[t].buf = <<>>
    BY <1>1, <2>1, Zenon DEF Goto, TypeOK
  <2>3. "cleared" \notin windows => MailOf(t)'
    BY <1>1, <2>1, <2>2 DEF MailInv, MailOf, HoldsLine, At
  <2>4. QED
    BY ZenonT(60), <1>1, <1>4, <1>5, <2>1, <2>3 DEF TypeOK
<1>9. CASE read_copies(t)
  <2> DEFINE buf == reader[t].buf
             i == Len(buf)
  <2>1. /\ At(t, "copy") /\ buf \in Seq(Characters) /\ i \in Nat
        /\ command_buf' = command_buf /\ t_enter_flag' = t_enter_flag
    BY <1>1, <1>9 DEF read_copies, mailVars, TypeOK
  <2>2. CASE i \notin Places
    <3>1. Goto(t, "overrun", <<>>) /\ got' = got
      BY <1>9, <2>2, Zenon DEF read_copies
    <3>2. "cleared" \in windows
      <4> SUFFICES ASSUME "cleared" \notin windows PROVE FALSE
        BY Zenon
      <4>1. PICK n \in Places : i <= n
        BY <1>1, <2>1, Zenon DEF MailInv, MailOf, HoldsLine
      <4>2. QED
        BY <2>1, <2>2, <4>1, PlacesOfLines DEF Places
    <3>3. QED
      BY ZenonT(60), <1>1, <1>4, <1>5, <2>1, <3>1, <3>2 DEF TypeOK
  <2>3. CASE i \in Places /\ command_buf[t][i] = NL
    <3>1. Goto(t, "idle", <<>>) /\ got' = [got EXCEPT ![t] = buf]
      BY <1>9, <2>3, Zenon DEF read_copies
    <3>2. reader'[t].pc = "idle"
      BY <1>1, <3>1, Zenon DEF Goto, TypeOK
    <3>3. "cleared" \notin windows => MailOf(t)'
      BY <1>1, <2>1, <3>2, Zenon DEF MailInv, MailOf, HoldsLine, At
    <3>4. QED
      BY ZenonT(60), <1>1, <1>4, <1>5, <2>1, <3>1, <3>3 DEF TypeOK
  <2>4. CASE i \in Places /\ command_buf[t][i] # NL
    <3> DEFINE more == Append(buf, command_buf[t][i])
    <3>1. Goto(t, "copy", more) /\ got' = got
      BY <1>9, <2>4, Zenon DEF read_copies
    <3>2. command_buf[t][i] \in Characters
      BY <1>1, <2>4 DEF TypeOK
    <3>3. /\ more \in Seq(Characters) /\ Len(more) = i + 1
          /\ \A j \in 1 .. i : more[j] = buf[j]
          /\ more[i + 1] = command_buf[t][i]
      BY <2>1, <3>2
    <3> HIDE DEF more
    <3>4. reader'[t].pc = "copy" /\ reader'[t].buf = more
      BY <1>1, <3>1, Zenon DEF Goto, TypeOK
    <3>5. ASSUME "cleared" \notin windows PROVE MailOf(t)'
      <4>1. MailOf(t)
        BY <1>1, <3>5, Zenon DEF MailInv
      <4>2. PICK n \in Places : i <= n /\ command_buf[t][n] = NL
        BY <2>1, <4>1, Zenon DEF MailOf, HoldsLine
      <4>3. Len(more) <= n
        BY SMTT(40), <2>1, <2>4, <3>3, <4>2, PlacesOfLines
      <4>4. HoldsLine(t)' /\ t_enter_flag'[t] = 1
        BY <2>1, <3>4, <4>1, <4>2, <4>3, Zenon DEF MailOf, HoldsLine
      <4>5. \A j \in 1 .. Len(more) : more[j] = command_buf[t][j - 1] /\ more[j] # NL
        <5> TAKE j \in 1 .. Len(more)
        <5>1. CASE j = i + 1
          BY SMTT(40), <2>1, <2>4, <3>3, <5>1
        <5>2. CASE j # i + 1
          <6>1. j \in 1 .. i
            BY <2>1, <3>3, <5>2
          <6>2. QED
            BY ZenonT(60), <2>1, <3>3, <4>1, <6>1 DEF MailOf
        <5>3. QED
          BY <5>1, <5>2, Zenon
      <4>6. QED
        BY <2>1, <3>4, <4>4, <4>5, Zenon DEF MailOf, At
    <3>6. QED
      BY ZenonT(60), <1>1, <1>4, <2>1, <3>1, <3>3, <3>5 DEF TypeOK
  <2>5. QED
    BY <2>2, <2>3, <2>4, Zenon
<1>10. QED
  BY <1>6, <1>7, <1>8, <1>9, Zenon DEF terminal_read

-----------------------------------------------------------------------------
(* What the invariant gives *)

\* The invariant holds in every behaviour of the terminals, whatever keys
\* arrive between any two statements of terminal_read.
THEOREM TerminalSafe == Spec => []TerminalInv
<1>1. ASSUME TerminalInv, [Next]_vars PROVE TerminalInv'
  <2>1. CASE UNCHANGED vars
    BY <1>1, <2>1 DEF vars, modVars, lineVars, mailVars, readVars, TerminalInv, TypeOK,
          LinesInv, MailInv, MailOf, HoldsLine, At
  <2>2. QED
    BY <1>1, <2>1, KeyStep, ReadStep, Zenon DEF Next
<1>2. QED
  BY <1>1, TerminalInitial, PTL DEF Spec

\* The buffers and flags keep their bounds and terminal_read stops inside the
\* mailbox (terminal.c:39-48), for every size of the buffer: a mailbox with
\* t_enter_flag set holds a newline that the copy has not passed.
THEOREM OverrunSafe == Spec => []NoOverrun
<1>1. TerminalInv => NoOverrun
  BY Zenon DEF TerminalInv, MailInv, MailOf, NoOverrun
<1>2. QED
  BY <1>1, TerminalSafe, PTL

\* No key changes a mailbox while terminal_read copies it (keyboard.c:90).
THEOREM MailboxSafe == Spec => MailboxStable
<1> DEFINE Stable == \A t \in Terminals :
               At(t, "copy") /\ "cleared" \notin windows => command_buf'[t] = command_buf[t]
<1>1. ASSUME TerminalInv, [Next]_vars PROVE [Stable]_vars
  <2> SUFFICES ASSUME Next, NEW t \in Terminals, At(t, "copy"), "cleared" \notin windows
               PROVE  command_buf'[t] = command_buf[t]
    BY <1>1, Zenon
  <2>1. TypeOK /\ LinesInv /\ command_buf[t][0] # NUL
    BY <1>1, Zenon DEF TerminalInv, MailInv, MailOf, HoldsLine
  <2>2. CASE \E k \in Keys : keyboard_handler(k)
    <3>1. CASE press_enter
      <4>1. CASE t = terminal_num
        BY <2>1, <3>1, <4>1, EnterCases, Zenon DEF mailVars
      <4>2. CASE t # terminal_num
        BY <2>1, <3>1, <4>2, EnterCases, Zenon DEF mailVars, Sent, TypeOK
      <4>3. QED
        BY <4>1, <4>2, Zenon
    <3>2. CASE ~press_enter
      BY <2>1, <2>2, <3>2, KeyCases, Zenon DEF Typed, CutAfter, Moved, mailVars
    <3>3. QED
      BY <3>1, <3>2, Zenon
  <2>3. ASSUME NEW u \in Terminals, terminal_read(u) PROVE command_buf'[t] = command_buf[t]
    <3>1. CASE u = t
      BY <2>3, <3>1, Zenon DEF terminal_read, read_clear_flag, read_clear_mailbox, read_wakes,
            read_copies, At, mailVars
    <3>2. CASE u # t
      BY <2>1, <2>3, <3>2, Zenon DEF terminal_read, read_clear_flag, read_clear_mailbox, read_wakes,
            read_copies, mailVars, TypeOK
    <3>3. QED
      BY <3>1, <3>2, Zenon
  <2>4. QED
    BY <2>2, <2>3, Zenon DEF Next
<1>2. QED
  BY <1>1, TerminalSafe, PTL DEF Spec, MailboxStable

\* Only the first read of a terminal can lose its line between l.34 and l.35
\* of terminal_read: after it the mailbox is never empty there.
THEOREM WindowSafe == Spec => WindowOnlyOnFirstRead
<1> DEFINE First == \A t \in Terminals :
               "cleared" \in windows' \ windows =>
                   \E u \in Terminals : At(u, "cleared") /\ got[u] = NoLine
<1>1. ASSUME TerminalInv, [Next]_vars PROVE [First]_vars
  <2> SUFFICES ASSUME Next, "cleared" \in windows', "cleared" \notin windows
               PROVE  \E u \in Terminals : At(u, "cleared") /\ got[u] = NoLine
    BY <1>1, Zenon
  <2>1. TypeOK /\ MailInv
    BY <1>1, Zenon DEF TerminalInv
  <2>2. PICK k \in Keys : keyboard_handler(k)
    BY Zenon DEF Next, terminal_read
  <2>3. press_enter
    <3>1. ASSUME NEW c, Typed(c) PROVE FALSE
      BY <3>1, Zenon DEF Typed, Put
    <3>2. QED
      BY <2>1, <2>2, <3>1, KeyCases, Zenon DEF CutAfter, Moved
  <2>4. reader[terminal_num].pc = "cleared" /\ command_buf[terminal_num][0] = NUL
    BY <2>3, Zenon DEF press_enter
  <2>5. QED
    BY <2>1, <2>4, Zenon DEF TypeOK, MailInv, MailOf, At
<1>2. QED
  BY <1>1, TerminalSafe, PTL DEF Spec, WindowOnlyOnFirstRead

-----------------------------------------------------------------------------
(* The lines and the mail of LineDiscipline *)

\* What the refinement mapping shows as the mail of t.
Shown(t) == IF Begun(t) /\ t_enter_flag[t] = 1 THEN Mail(t) ELSE NoLine

\* The line of t as a sequence: its length is one more than buf_index.
LEMMA LineIsLine ==
    ASSUME TypeOK, NEW t \in Terminals
    PROVE  /\ Line(t) \in Seq(Characters) /\ Len(Line(t)) = buf_index[t] + 1
           /\ \A i \in 1 .. buf_index[t] + 1 : Line(t)[i] = char_buf[i - 1]
           /\ DOMAIN Line(t) = 1 .. buf_index[t] + 1
           /\ buf_index[t] = -1 <=> Line(t) = <<>>
<1>1. buf_index[t] \in -1 .. CHARACTER_BUFFER_SIZE - 2 /\ buf_index[t] + 1 \in Nat
  BY PlacesOfLines, Zenon DEF TypeOK
<1>2. \A i \in 1 .. buf_index[t] + 1 : char_buf[i - 1] \in Characters
  BY <1>1, PlacesOfLines DEF Places, TypeOK
<1>3. Line(t) \in Seq(Characters) /\ Len(Line(t)) = buf_index[t] + 1
  BY <1>1, <1>2 DEF Line
<1>4. QED
  BY <1>1, <1>3 DEF Line

\* A terminal whose places are not written keeps its line.
LEMMA LineKept ==
    ASSUME NEW t, buf_index'[t] = buf_index[t],
           \A j \in 0 .. buf_index[t] : char_buf'[j] = char_buf[j],
           buf_index[t] \in Int
    PROVE  Line(t)' = Line(t)
<1>1. \A i \in 1 .. buf_index[t] + 1 : i - 1 \in 0 .. buf_index[t]
  OBVIOUS
<1>2. QED
  BY <1>1, Zenon DEF Line

\* Two lines are the same when they have the same length and characters.
LEMMA SameLine ==
    ASSUME NEW S, NEW a \in Seq(S), NEW b \in Seq(S), Len(a) = Len(b),
           \A i \in 1 .. Len(a) : a[i] = b[i]
    PROVE  a = b
OBVIOUS

\* The mail of t is what its mailbox holds before the first newline.
LEMMA MailIs ==
    ASSUME TypeOK, NEW t \in Terminals, NEW n \in Places, command_buf[t][n] = NL,
           \A j \in 0 .. n - 1 : command_buf[t][j] # NL
    PROVE  /\ Mail(t) = [i \in 1 .. n |-> command_buf[t][i - 1]]
           /\ Mail(t) \in Seq(Characters) /\ Len(Mail(t)) = n
<1> DEFINE ends == {i \in Places : command_buf[t][i] = NL}
           m == CHOOSE i \in ends : \A j \in ends : i <= j
<1>1. n \in ends /\ n \in Nat
  BY PlacesOfLines, Zenon
<1>2. \A j \in ends : n <= j
  BY <1>1, PlacesOfLines
<1>3. m \in ends /\ \A j \in ends : m <= j
  BY ZenonT(60), <1>1, <1>2
<1>4. m = n
  <2> HIDE DEF m
  <2>1. m \in Nat
    BY <1>3, PlacesOfLines, Zenon
  <2>2. QED
    BY <1>1, <1>2, <1>3, <2>1
<1>5. Mail(t) = [i \in 1 .. n |-> command_buf[t][i - 1]]
  <2>1. Mail(t) = [i \in 1 .. m |-> command_buf[t][i - 1]]
    BY <1>1, Zenon DEF Mail, LineIn
  <2>2. QED
    BY ZenonT(60), <1>4, <2>1
<1>6. \A i \in 1 .. n : command_buf[t][i - 1] \in Characters
  BY <1>1, PlacesOfLines DEF TypeOK, Places
<1>7. QED
  BY <1>1, <1>5, <1>6

-----------------------------------------------------------------------------
(* Every step is a step of LineDiscipline *)

\* A key that leaves the mailboxes alone and gives the terminal on the screen
\* the line l is an Edit.
LEMMA EditStep ==
    ASSUME TypeOK, NEW l, Line(terminal_num)' = l,
           \A u \in Terminals \ {terminal_num} : Line(u)' = Line(u),
           UNCHANGED <<terminal_num, mailVars, readVars>>
    PROVE  Discipline!Edit(l)
<1>1. terminal_num \in Terminals /\ terminal_num' = terminal_num
  BY Zenon DEF TypeOK
<1>2. \A u \in Terminals : Line(u)' = IF u = terminal_num THEN l ELSE Line(u)
  BY <1>1, Zenon
<1>3. [t \in Terminals |-> Line(t)]' = [[t \in Terminals |-> Line(t)] EXCEPT ![terminal_num] = l]
  BY <1>1, <1>2, Zenon
<1>4. got' = got /\ \A t \in Terminals : Begun(t)' = Begun(t) /\ Shown(t)' = Shown(t)
  BY Zenon DEF Begun, Shown, Mail, At, mailVars, readVars
<1>5. [t \in Terminals |-> Begun(t)]' = [t \in Terminals |-> Begun(t)]
  BY <1>4, Zenon
<1>6. [t \in Terminals |-> Shown(t)]' = [t \in Terminals |-> Shown(t)]
  BY <1>4, Zenon
<1>7. QED
  BY <1>1, <1>3, <1>4, <1>5, <1>6, Zenon DEF Discipline!Edit, Shown

\* A character that is accepted is one Type.
LEMMA TypeStep ==
    ASSUME TypeOK, NEW c \in Letters, Typed(c), "mixed" \notin windows'
    PROVE  Discipline!Type(c)
<1> DEFINE v == terminal_num
           e == buf_index[v] + 1
<1>1. /\ v \in Terminals /\ buf_index[v] \in -1 .. CHARACTER_BUFFER_SIZE - 2
      /\ e \in Places /\ e \in Nat /\ e < CHARACTER_BUFFER_SIZE - 1
  BY PlacesOfLines DEF TypeOK, Typed
<1>2. /\ buf_index' = [buf_index EXCEPT ![v] = e]
      /\ char_buf' = [char_buf EXCEPT ![e] = c]
      /\ UNCHANGED <<terminal_num, mailVars, readVars>>
      /\ \A u \in Terminals \ {v} : ~(e <= buf_index[u])
  BY Zenon DEF Typed, Put
<1>3. \A u \in Terminals \ {v} : Line(u)' = Line(u)
  <2> TAKE u \in Terminals \ {v}
  <2>1. buf_index[u] \in Int /\ buf_index[u] < e /\ buf_index'[u] = buf_index[u]
        /\ buf_index[u] \in -1 .. CHARACTER_BUFFER_SIZE - 2
    BY SMTT(40), <1>1, <1>2 DEF TypeOK
  <2>2. \A j \in 0 .. buf_index[u] : j \in Places /\ j # e
    BY <1>1, <2>1, PlacesOfLines DEF Places
  <2>3. \A j \in 0 .. buf_index[u] : char_buf'[j] = char_buf[j]
    BY <1>2, <2>2, Zenon DEF TypeOK
  <2>4. QED
    BY <2>1, <2>3, LineKept, Zenon
<1>4. Line(v)' = Append(Line(v), c) /\ Len(Line(v)) < CHARACTER_BUFFER_SIZE - 1
  <2>1. Line(v) \in Seq(Characters) /\ Len(Line(v)) = e
        /\ \A i \in 1 .. e : Line(v)[i] = char_buf[i - 1]
    BY <1>1, LineIsLine, Zenon
  <2>2. buf_index'[v] + 1 = e + 1
    BY <1>1, <1>2, Zenon DEF TypeOK
  <2>3. \A j \in Places : char_buf'[j] = IF j = e THEN c ELSE char_buf[j]
    BY <1>1, <1>2, Zenon DEF TypeOK
  <2>4. Line(v)' = [i \in 1 .. e + 1 |-> char_buf'[i - 1]]
    BY <1>2, <2>2, Zenon DEF Line
  <2>5. \A i \in 1 .. e + 1 : i - 1 \in Places
    BY SMTT(40), <1>1, PlacesOfLines DEF Places
  <2>6. \A i \in 1 .. e + 1 : char_buf'[i - 1] = IF i = e + 1 THEN c ELSE Line(v)[i]
    <3> TAKE i \in 1 .. e + 1
    <3>1. i - 1 \in Places /\ (i - 1 = e <=> i = e + 1)
      BY <1>1, <2>5
    <3>2. i # e + 1 => i \in 1 .. e
      BY <1>1
    <3>3. char_buf'[i - 1] = IF i = e + 1 THEN c ELSE char_buf[i - 1]
      BY <2>3, <3>1, Zenon
    <3>4. QED
      BY <2>1, <3>2, <3>3, Zenon
  <2>7. c \in Characters
    BY Chars, Zenon
  <2>8. /\ Append(Line(v), c) \in Seq(Characters) /\ Len(Append(Line(v), c)) = e + 1
        /\ \A i \in 1 .. e : Append(Line(v), c)[i] = Line(v)[i]
        /\ Append(Line(v), c)[e + 1] = c
    BY <1>1, <2>1, <2>7
  <2> DEFINE F == [i \in 1 .. e + 1 |-> char_buf'[i - 1]]
  <2>9. F \in Seq(Characters) /\ Len(F) = e + 1
    <3>1. \A i \in 1 .. e + 1 : char_buf'[i - 1] \in Characters
      BY ZenonT(60), <2>3, <2>5, <2>7 DEF TypeOK
    <3>2. QED
      BY SMTT(40), <1>1, <3>1
  <2>10. \A i \in 1 .. e + 1 : F[i] = Append(Line(v), c)[i]
    <3> SUFFICES ASSUME NEW i \in 1 .. e + 1 PROVE F[i] = Append(Line(v), c)[i]
      BY Zenon
    <3>1. F[i] = IF i = e + 1 THEN c ELSE Line(v)[i]
      BY <2>6, Zenon
    <3>2. i # e + 1 => i \in 1 .. e
      BY <1>1
    <3>3. QED
      BY <2>8, <3>1, <3>2, Zenon
  <2> HIDE DEF F
  <2>11. F = Append(Line(v), c)
    BY <2>8, <2>9, <2>10, SameLine, Zenon
  <2>12. QED
    BY <1>1, <2>1, <2>4, <2>11, Zenon DEF F
<1>5. Discipline!Edit(Append(Line(v), c))
  BY ZenonT(60), <1>2, <1>3, <1>4, EditStep
<1>6. QED
  BY <1>1, <1>4, <1>5, Zenon DEF Discipline!Type

\* Backspace on a line that is not empty is one Erase, Ctrl+L one Clear.
LEMMA CutStep ==
    ASSUME TypeOK
    PROVE  /\ CutAfter(-1) => Discipline!Clear
           /\ buf_index[terminal_num] > -1 /\ CutAfter(buf_index[terminal_num] - 1)
                 => Discipline!Erase
<1> DEFINE v == terminal_num
<1>1. /\ v \in Terminals /\ buf_index[v] \in -1 .. CHARACTER_BUFFER_SIZE - 2 /\ buf_index[v] \in Int
  BY PlacesOfLines DEF TypeOK
<1>2. ASSUME NEW m, CutAfter(m)
      PROVE  /\ \A u \in Terminals \ {v} : Line(u)' = Line(u)
             /\ Line(v)' = [i \in 1 .. m + 1 |-> char_buf[i - 1]]
             /\ UNCHANGED <<terminal_num, mailVars, readVars>>
  <2>1. /\ buf_index' = [buf_index EXCEPT ![v] = m] /\ char_buf' = char_buf
        /\ UNCHANGED <<terminal_num, mailVars, readVars>>
    BY <1>2, Zenon DEF CutAfter
  <2>2. \A u \in Terminals : buf_index'[u] = IF u = v THEN m ELSE buf_index[u]
    BY <2>1, Zenon DEF TypeOK
  <2>3. QED
    BY <1>1, <2>1, <2>2, Zenon DEF Line
<1>3. ASSUME CutAfter(-1) PROVE Discipline!Clear
  <2>1. Line(v)' = <<>>
    BY <1>2, <1>3
  <2>2. QED
    BY <1>2, <1>3, <2>1, EditStep, Zenon DEF Discipline!Clear
<1>4. ASSUME buf_index[v] > -1, CutAfter(buf_index[v] - 1) PROVE Discipline!Erase
  <2> DEFINE n == buf_index[v]
  <2>1. n \in Nat /\ Line(v) \in Seq(Characters) /\ Len(Line(v)) = n + 1
        /\ \A i \in 1 .. n + 1 : Line(v)[i] = char_buf[i - 1]
        /\ Line(v) # <<>>
    BY <1>1, <1>4, LineIsLine
  <2>2. Line(v)' = [i \in 1 .. n |-> char_buf[i - 1]]
    <3>1. Line(v)' = [i \in 1 .. (n - 1) + 1 |-> char_buf[i - 1]]
      BY <1>2, <1>4, Zenon
    <3>2. (n - 1) + 1 = n
      BY <2>1
    <3>3. QED
      BY <3>1, <3>2, Zenon
  <2>3. SubSeq(Line(v), 1, Len(Line(v)) - 1) = [i \in 1 .. n |-> Line(v)[i]]
    BY <2>1
  <2>4. Line(v)' = SubSeq(Line(v), 1, Len(Line(v)) - 1)
    BY <2>1, <2>2, <2>3
  <2>5. Discipline!Edit(SubSeq(Line(v), 1, Len(Line(v)) - 1))
    BY ZenonT(60), <1>2, <1>4, <2>4, EditStep
  <2>6. QED
    BY <1>1, <2>1, <2>5 DEF Discipline!Erase
<1>5. QED
  BY <1>3, <1>4, Zenon

\* Every other key but Enter shows a terminal, the one on the screen included.
LEMMA MoveStep ==
    ASSUME TypeOK, Moved
    PROVE  Discipline!Show(terminal_num')
<1>1. \A t \in Terminals : Line(t)' = Line(t) /\ Begun(t)' = Begun(t) /\ Shown(t)' = Shown(t)
  BY Zenon DEF Moved, Line, Begun, Shown, Mail, At, lineVars, mailVars, readVars
<1>2. got' = got
  BY Zenon DEF Moved, readVars
<1>3. /\ [t \in Terminals |-> Line(t)]' = [t \in Terminals |-> Line(t)]
      /\ [t \in Terminals |-> Begun(t)]' = [t \in Terminals |-> Begun(t)]
      /\ [t \in Terminals |-> Shown(t)]' = [t \in Terminals |-> Shown(t)]
  BY <1>1, Zenon
<1>4. QED
  BY <1>2, <1>3, Zenon DEF Discipline!Show, Shown

\* Enter ends the line of the terminal on the screen and hands it, whole, to a
\* read that waits and was given none.
LEMMA EnterIsEnter ==
    ASSUME TerminalInv, press_enter, UNCHANGED readVars, windows' = {}
    PROVE  Discipline!Enter
<1> DEFINE v == terminal_num
           e == buf_index[v] + 1
<1>1. TypeOK /\ LinesInv /\ TypeOK' /\ windows = {}
  <2>1. TypeOK /\ LinesInv
    BY Zenon DEF TerminalInv
  <2>2. windows = {}
    BY <2>1, EnterCases, Zenon
  <2>3. /\ command_buf' \in [Terminals -> [Places -> Characters]]
        /\ t_enter_flag' \in [Terminals -> 0 .. 1]
    BY EnterStep, Zenon
  <2>4. /\ char_buf' \in [Places -> Characters]
        /\ buf_index' = [buf_index EXCEPT ![v] = -1]
        /\ terminal_num' = terminal_num
        /\ modVars' = modVars
    BY <2>1, EnterCases, Zenon DEF press_enter
  <2>5. buf_index' \in [Terminals -> -1 .. CHARACTER_BUFFER_SIZE - 2]
    BY SMTT(40), <2>1, <2>4, PlacesOfLines DEF TypeOK
  <2>6. QED
    BY <2>1, <2>2, <2>3, <2>4, <2>5, Zenon DEF TypeOK, modVars, readVars
<1>2. v \in Terminals /\ buf_index[v] \in Int /\ e \in Places /\ e \in Nat
  BY SMTT(40), <1>1, PlacesOfLines DEF TypeOK
<1>3. /\ char_buf' = [char_buf EXCEPT ![e] = NL]
      /\ buf_index' = [buf_index EXCEPT ![v] = -1]
      /\ terminal_num' = terminal_num /\ got' = got
  BY <1>1, EnterCases, Zenon DEF readVars
<1>4. \A u \in Terminals \ {v} : Line(u)' = Line(u)
  <2> TAKE u \in Terminals \ {v}
  <2>1. buf_index[u] \in -1 .. CHARACTER_BUFFER_SIZE - 2 /\ buf_index'[u] = buf_index[u]
    BY <1>1, <1>3, Zenon DEF TypeOK
  <2>2. ~(e <= buf_index[u])
    BY Zenon DEF press_enter
  <2>3. \A j \in 0 .. buf_index[u] : j \in Places /\ j # e
    BY SMTT(40), <1>2, <2>1, <2>2, PlacesOfLines DEF Places
  <2>4. \A j \in 0 .. buf_index[u] : char_buf'[j] = char_buf[j]
    BY <1>1, <1>3, <2>3, Zenon DEF TypeOK
  <2>5. buf_index[u] \in Int
    BY <2>1, PlacesOfLines
  <2>6. QED
    BY <2>1, <2>4, <2>5, LineKept, Zenon
<1>5. Line(v)' = <<>>
  <2>1. buf_index'[v] = -1 /\ v' = v
    BY <1>1, <1>2, <1>3, Zenon DEF TypeOK
  <2>2. QED
    BY SMTT(40), <2>1 DEF Line
<1>6. [t \in Terminals |-> Line(t)]' = [[t \in Terminals |-> Line(t)] EXCEPT ![v] = <<>>]
  <2>1. \A u \in Terminals : Line(u)' = IF u = v THEN <<>> ELSE Line(u)
    BY <1>3, <1>4, <1>5, Zenon
  <2>2. QED
    BY <2>1, Zenon
<1>7. [t \in Terminals |-> Begun(t)]' = [t \in Terminals |-> Begun(t)]
  <2>1. \A t \in Terminals : Begun(t)' = Begun(t)
    BY Zenon DEF Begun, At, readVars
  <2>2. QED
    BY <2>1, Zenon
<1>8. MailOf(v) /\ t_enter_flag[v] \in 0 .. 1
  BY <1>1, <1>2, Zenon DEF TerminalInv, MailInv, TypeOK
<1>9. \A t \in Terminals \ {v} : Shown(t)' = Shown(t)
  <2> TAKE t \in Terminals \ {v}
  <2>1. command_buf'[t] = command_buf[t] /\ t_enter_flag'[t] = t_enter_flag[t]
    BY ZenonT(60), <1>1, EnterCases DEF Sent, mailVars, TypeOK
  <2>2. QED
    BY <2>1, Zenon DEF Shown, Begun, Mail, At, readVars
<1>10. CASE Begun(v) /\ Shown(v) = NoLine
  <2>1. t_enter_flag[v] = 0
    <3> SUFFICES ASSUME t_enter_flag[v] = 1 PROVE FALSE
      BY <1>8
    <3>1. \E n \in Places : command_buf[v][n] = NL
      BY <1>8, <1>10, Zenon DEF MailOf, HoldsLine, Begun
    <3>2. Mail(v) \in Seq(Characters)
      <4>1. \E n \in Places : command_buf[v][n] = NL
                              /\ \A j \in 0 .. n - 1 : command_buf[v][j] # NL
        BY <3>1, FirstNewline, Zenon
      <4>2. QED
        BY <1>1, <1>2, <4>1, MailIs, Zenon
    <3>3. QED
      BY <1>10, <3>2, LinesAreLines, Zenon DEF Shown
  <2>2. command_buf[v][0] = NUL
    <3>1. t_enter_flag[v] # 1
      BY <2>1
    <3>2. At(v, "wait")
      BY <1>8, <1>10, <3>1, ZenonT(60) DEF MailOf, Begun
    <3>3. QED
      BY <1>8, <2>1, <3>2, ZenonT(60) DEF MailOf
  <2>3. PICK n \in Places : Sent(n)
    BY <1>1, <2>2, EnterCases, Zenon
  <2>4. n = e
    <3>1. n \in Nat /\ n <= e /\ char_buf'[n] = NL
      BY <2>3, PlacesOfLines, Zenon DEF Sent
    <3> SUFFICES ASSUME n # e PROVE FALSE
      BY Zenon
    <3>2. n \in 0 .. buf_index[v] /\ char_buf[n] = NL
      BY <1>1, <1>2, <1>3, <3>1 DEF TypeOK
    <3>3. QED
      BY <1>1, <1>2, <3>2, Chars, Zenon DEF LinesInv
  <2>5. /\ t_enter_flag'[v] = 1
        /\ \A i \in Places : i <= e => command_buf'[v][i] = char_buf'[i]
        /\ \A j \in 0 .. e - 1 : char_buf'[j] # NL
    BY <1>1, <1>2, <2>3, <2>4, Zenon DEF Sent, TypeOK
  <2>6. \A j \in 0 .. e : j \in Places
    BY <1>2, PlacesOfLines, Zenon
  <2>7. command_buf'[v][e] = NL /\ \A j \in 0 .. e - 1 : command_buf'[v][j] # NL
    <3>1. char_buf'[e] = NL
      BY <1>1, <1>2, <1>3, Zenon DEF TypeOK
    <3>2. QED
      BY SMTT(40), <1>2, <2>5, <2>6, <3>1
  <2>8. Mail(v)' = [i \in 1 .. e |-> command_buf'[v][i - 1]]
    <3> DEFINE ends == {i \in Places : command_buf'[v][i] = NL}
               m == CHOOSE i \in ends : \A j \in ends : i <= j
    <3>1. e \in ends /\ \A j \in ends : e <= j
      BY <1>2, <2>7, PlacesOfLines
    <3>2. m \in ends /\ \A j \in ends : m <= j
      BY <3>1, Zenon
    <3>3. m = e
      <4> HIDE DEF m
      <4>1. m \in Nat
        BY <3>2, PlacesOfLines, Zenon
      <4>2. QED
        BY <1>2, <3>1, <3>2, <4>1
    <3>4. Mail(v)' = [i \in 1 .. m |-> command_buf'[v][i - 1]]
      BY <1>3, <3>1, Zenon DEF Mail, LineIn
    <3>5. QED
      BY ZenonT(60), <3>3, <3>4
  <2>9. \A i \in 1 .. e : command_buf'[v][i - 1] = char_buf[i - 1]
    <3> TAKE i \in 1 .. e
    <3>1. i - 1 \in Places /\ i - 1 <= e /\ i - 1 # e
      BY SMTT(40), <1>2, <2>6
    <3>2. char_buf'[i - 1] = char_buf[i - 1]
      BY <1>1, <1>3, <3>1, Zenon DEF TypeOK
    <3>3. QED
      BY <2>5, <3>1, <3>2, Zenon
  <2>10. Shown(v)' = Line(v)
    <3>1. Mail(v)' = Line(v)
      BY <2>8, <2>9, Zenon DEF Line
    <3>2. Begun(v)'
      BY <1>3, <1>10, Zenon DEF Begun, At, readVars
    <3>3. QED
      BY <1>3, <2>5, <3>1, <3>2, Zenon DEF Shown
  <2>11. [t \in Terminals |-> Shown(t)]' = [[t \in Terminals |-> Shown(t)] EXCEPT ![v] = Line(v)]
    <3>1. \A t \in Terminals : Shown(t)' = IF t = v THEN Line(v) ELSE Shown(t)
      BY <1>3, <1>9, <2>10, Zenon
    <3>2. QED
      BY <3>1, Zenon
  <2>12. QED
    BY <1>2, <1>3, <1>6, <1>7, <1>10, <2>11, Zenon DEF Discipline!Enter, Shown
<1>11. CASE ~(Begun(v) /\ Shown(v) = NoLine)
  <2>1. Shown(v)' = Shown(v)
    <3>1. CASE ~Begun(v)
      BY <1>3, <3>1, Zenon DEF Shown, Begun, At, readVars
    <3>2. CASE Begun(v)
      <4>1. t_enter_flag[v] = 1
        BY <1>11, <3>2, Zenon DEF Shown
      <4>2. command_buf[v][0] # NUL
        BY <1>8, <3>2, <4>1, Zenon DEF MailOf, HoldsLine, Begun
      <4>3. UNCHANGED mailVars
        BY <1>1, <4>2, EnterCases, Zenon
      <4>4. QED
        BY <1>3, <4>3, Zenon DEF Shown, Begun, Mail, At, mailVars, readVars
    <3>3. QED
      BY <3>1, <3>2, Zenon
  <2>2. [t \in Terminals |-> Shown(t)]' = [t \in Terminals |-> Shown(t)]
    <3>1. \A t \in Terminals : Shown(t)' = Shown(t)
      BY <1>3, <1>9, <2>1, Zenon
    <3>2. QED
      BY <3>1, Zenon
  <2>3. QED
    BY <1>2, <1>3, <1>6, <1>7, <1>11, <2>2, Zenon DEF Discipline!Enter, Shown
<1>12. QED
  BY <1>10, <1>11, Zenon

\* l.35 of terminal_read begins a read, its last round ends it with the mail,
\* and nothing else of it is seen.
LEMMA ReadIsRead ==
    ASSUME TerminalInv, NEW t \in Terminals, terminal_read(t), "cleared" \notin windows
    PROVE  [Discipline!Next]_(Discipline!lineVars)
<1>1. TypeOK /\ MailOf(t)
  BY Zenon DEF TerminalInv, MailInv
<1>2. terminal_num' = terminal_num /\ \A u \in Terminals : Line(u)' = Line(u)
  BY Zenon DEF terminal_read, Line, lineVars
<1>3. [u \in Terminals |-> Line(u)]' = [u \in Terminals |-> Line(u)]
  BY <1>2, Zenon
<1>4. \A u \in Terminals \ {t} :
        /\ reader'[u] = reader[u] /\ command_buf'[u] = command_buf[u]
        /\ t_enter_flag'[u] = t_enter_flag[u] /\ got'[u] = got[u]
  <2>1. \A pc, buf : Goto(t, pc, buf) => \A u \in Terminals \ {t} : reader'[u] = reader[u]
    BY ZenonT(60), <1>1 DEF Goto, TypeOK
  <2>2. CASE read_clear_flag(t)
    BY ZenonT(60), <1>1, <2>1, <2>2 DEF read_clear_flag, TypeOK
  <2>3. CASE read_clear_mailbox(t)
    BY ZenonT(60), <1>1, <2>1, <2>3 DEF read_clear_mailbox, TypeOK
  <2>4. CASE read_wakes(t)
    BY <2>1, <2>4, Zenon DEF read_wakes, mailVars
  <2>5. CASE read_copies(t)
    BY <1>1, <2>1, <2>5, Zenon DEF read_copies, mailVars, TypeOK
  <2>6. QED
    BY <2>2, <2>3, <2>4, <2>5, Zenon DEF terminal_read
<1>5. \A u \in Terminals \ {t} : Begun(u)' = Begun(u) /\ Shown(u)' = Shown(u)
  <2> TAKE u \in Terminals \ {t}
  <2>1. Begun(u)' = Begun(u)
    BY <1>4, Zenon DEF Begun, At
  <2>2. Mail(u)' = Mail(u)
    BY <1>4, Zenon DEF Mail
  <2>3. QED
    BY <1>4, <2>1, <2>2, Zenon DEF Shown
<1>6. ASSUME Begun(t)' = Begun(t), Shown(t)' = Shown(t), got' = got
      PROVE  UNCHANGED Discipline!lineVars
  <2>1. \A u \in Terminals : Begun(u)' = Begun(u) /\ Shown(u)' = Shown(u)
    BY <1>5, <1>6, Zenon
  <2>2. /\ [u \in Terminals |-> Begun(u)]' = [u \in Terminals |-> Begun(u)]
        /\ [u \in Terminals |-> Shown(u)]' = [u \in Terminals |-> Shown(u)]
    BY <2>1, Zenon
  <2>3. QED
    BY <1>2, <1>3, <1>6, <2>2, Zenon DEF Discipline!lineVars, Shown
<1>7. CASE read_clear_flag(t)
  <2>1. At(t, "idle") /\ reader'[t].pc = "cleared" /\ got' = got
    BY <1>1, <1>7, Zenon DEF read_clear_flag, Goto, TypeOK
  <2>2. ~Begun(t) /\ ~Begun(t)'
    BY <2>1, Zenon DEF Begun, At
  <2>3. Shown(t) = NoLine /\ Shown(t)' = NoLine
    BY <2>2, Zenon DEF Shown
  <2>4. Begun(t)' = Begun(t)
    BY <2>2, Zenon DEF Begun
  <2>5. QED
    BY <1>6, <2>1, <2>3, <2>4, Zenon
<1>8. CASE read_clear_mailbox(t)
  <2>1. /\ At(t, "cleared") /\ reader'[t].pc = "wait" /\ got' = got
        /\ t_enter_flag' = t_enter_flag
    BY <1>1, <1>8, Zenon DEF read_clear_mailbox, Goto, TypeOK
  <2>2. ~Begun(t) /\ Begun(t)' /\ Shown(t) = NoLine /\ Shown(t)' = NoLine
    BY <1>1, <2>1 DEF Begun, Shown, At, MailOf
  <2>3. /\ \A u \in Terminals : Begun(u)' = IF u = t THEN TRUE ELSE Begun(u)
        /\ \A u \in Terminals : Shown(u)' = Shown(u)
    BY ZenonT(60), <1>5, <2>2
  <2>4. [u \in Terminals |-> Begun(u)]' = [[u \in Terminals |-> Begun(u)] EXCEPT ![t] = TRUE]
    BY <2>3, Zenon
  <2>5. [u \in Terminals |-> Shown(u)]' = [u \in Terminals |-> Shown(u)]
    BY <2>3, Zenon
  <2>6. Discipline!BeginRead(t)
    BY <1>2, <1>3, <2>1, <2>2, <2>4, <2>5, Zenon DEF Discipline!BeginRead, Shown
  <2>7. QED
    BY <2>6, Zenon DEF Discipline!Next
<1>9. CASE read_wakes(t)
  <2>1. At(t, "wait") /\ reader'[t].pc = "copy" /\ got' = got /\ UNCHANGED mailVars
    BY <1>1, <1>9, Zenon DEF read_wakes, Goto, TypeOK
  <2>2. Begun(t) /\ Begun(t)'
    BY <2>1, Zenon DEF Begun, At
  <2>3. Shown(t)' = Shown(t)
    BY ZenonT(60), <2>1, <2>2 DEF Shown, Mail, mailVars
  <2>4. QED
    BY <1>6, <2>1, <2>2, <2>3, Zenon
<1>10. CASE read_copies(t)
  <2> DEFINE buf == reader[t].buf
             i == Len(buf)
  <2>1. /\ At(t, "copy") /\ buf \in Seq(Characters) /\ i \in Nat /\ UNCHANGED mailVars
        /\ t_enter_flag[t] = 1 /\ Begun(t)
        /\ \A j \in 1 .. i : buf[j] = command_buf[t][j - 1] /\ buf[j] # NL
    BY SMTT(40), <1>1, <1>10 DEF read_copies, TypeOK, MailOf, Begun
  <2>2. i \in Places
    <3>1. PICK n \in Places : i <= n
      BY <1>1, <2>1, Zenon DEF MailOf, HoldsLine
    <3>2. QED
      BY SMTT(40), <2>1, <3>1, PlacesOfLines DEF Places
  <2>3. CASE command_buf[t][i] = NL
    <3>1. reader'[t].pc = "idle" /\ got' = [got EXCEPT ![t] = buf]
      <4>1. Goto(t, "idle", <<>>) /\ got' = [got EXCEPT ![t] = buf]
        BY <1>10, <2>2, <2>3, Zenon DEF read_copies
      <4>2. reader'[t].pc = "idle"
        BY <1>1, <4>1, Zenon DEF Goto, TypeOK
      <4>3. QED
        BY <4>1, <4>2, Zenon
    <3>2. \A j \in 0 .. i - 1 : command_buf[t][j] # NL
      <4> TAKE j \in 0 .. i - 1
      <4>1. j + 1 \in 1 .. i /\ (j + 1) - 1 = j
        BY SMTT(40), <2>1
      <4>2. QED
        BY <2>1, <4>1, Zenon
    <3>3. /\ Mail(t) = [j \in 1 .. i |-> command_buf[t][j - 1]]
          /\ Mail(t) \in Seq(Characters) /\ Len(Mail(t)) = i
      BY <1>1, <2>2, <2>3, <3>2, MailIs, Zenon
    <3>4. \A j \in 1 .. Len(Mail(t)) : Mail(t)[j] = buf[j]
      BY <2>1, <3>3, Zenon
    <3>5. Mail(t) = buf
      BY ZenonT(60), <2>1, <3>3, <3>4, SameLine
    <3>6. Shown(t) = buf /\ Shown(t) # NoLine
      BY <2>1, <3>5, LinesAreLines, Zenon DEF Shown
    <3>7. Begun(t)' = FALSE /\ Shown(t)' = NoLine
      BY <3>1, Zenon DEF Begun, At, Shown
    <3>8. /\ \A u \in Terminals : Begun(u)' = IF u = t THEN FALSE ELSE Begun(u)
          /\ \A u \in Terminals : Shown(u)' = IF u = t THEN NoLine ELSE Shown(u)
      BY <1>5, <3>7, Zenon
    <3>9. [u \in Terminals |-> Begun(u)]' = [[u \in Terminals |-> Begun(u)] EXCEPT ![t] = FALSE]
      BY <3>8, Zenon
    <3>10. [u \in Terminals |-> Shown(u)]' = [[u \in Terminals |-> Shown(u)] EXCEPT ![t] = NoLine]
      BY <3>8, Zenon
    <3>11. got' = [got EXCEPT ![t] = [u \in Terminals |-> Shown(u)][t]]
      BY ZenonT(60), <3>1, <3>6
    <3>12. [u \in Terminals |-> Shown(u)][t] # NoLine /\ [u \in Terminals |-> Begun(u)][t]
      BY <2>1, <3>6, Zenon
    <3>13. Discipline!EndRead(t)
      BY <1>2, <1>3, <3>9, <3>10, <3>11, <3>12, Zenon DEF Discipline!EndRead, Shown
    <3>14. QED
      BY <3>13, Zenon DEF Discipline!Next
  <2>4. CASE command_buf[t][i] # NL
    <3>1. reader'[t].pc = "copy" /\ got' = got
      BY <1>1, <1>10, <2>2, <2>4 DEF read_copies, Goto, TypeOK
    <3>2. Begun(t)'
      BY <3>1, Zenon DEF Begun, At
    <3>3. Shown(t)' = Shown(t)
      BY ZenonT(60), <2>1, <3>2 DEF Shown, Mail, mailVars
    <3>4. QED
      BY <1>6, <2>1, <3>1, <3>2, <3>3, Zenon
  <2>5. QED
    BY <2>3, <2>4, Zenon
<1>11. QED
  BY <1>7, <1>8, <1>9, <1>10, Zenon DEF terminal_read

\* The terminals start with empty lines, no read and no mail.
LEMMA DisciplineInitial == Init => Discipline!Init
<1> SUFFICES ASSUME Init PROVE Discipline!Init
  BY Zenon
<1>1. \A t \in Terminals : Line(t) = <<>> /\ ~Begun(t) /\ Shown(t) = NoLine
  BY DEF Init, InitKeyboard, Line, Begun, Shown, At, Idle
<1>2. \A t \in Terminals : Begun(t) = FALSE
  BY <1>1, Zenon DEF Begun
<1>3. terminal_num \in Terminals
  BY TerminalInitial, Zenon DEF TerminalInv, TypeOK
<1>4. /\ [t \in Terminals |-> Line(t)] = [t \in Terminals |-> <<>>]
      /\ [t \in Terminals |-> Begun(t)] = [t \in Terminals |-> FALSE]
      /\ [t \in Terminals |-> Shown(t)] = [t \in Terminals |-> NoLine]
  BY <1>1, <1>2, Zenon
<1>5. QED
  BY <1>3, <1>4, Zenon DEF Init, Discipline!Init, Shown

\* keyboard_handler and terminal_read implement LineDiscipline until one of
\* the two windows is hit, for every number of terminals, size of the line
\* buffer and set of keys: every key is an edit, an Enter or a switch of the
\* terminal on the screen, and every read returns the one line it was given.
THEOREM Refinement == Spec => ImplementsLineDiscipline
<1> DEFINE Allowed == windows' = {} => [Discipline!Next]_(Discipline!lineVars)
<1>1. ASSUME TerminalInv, [Next]_vars PROVE [Allowed]_vars
  <2> SUFFICES ASSUME Next, windows' = {}
               PROVE  [Discipline!Next]_(Discipline!lineVars)
    BY <1>1, Zenon
  <2>1. TypeOK
    BY <1>1, Zenon DEF TerminalInv
  <2>2. ASSUME NEW k \in Keys, keyboard_handler(k)
        PROVE  Discipline!Next
    <3>1. CASE press_enter /\ UNCHANGED readVars
      BY <1>1, <3>1, EnterIsEnter, Zenon DEF Discipline!Next
    <3>2. ASSUME NEW c \in Letters, Typed(c) PROVE Discipline!Next
      BY <2>1, <3>2, TypeStep, Zenon DEF Discipline!Next
    <3>3. CASE CutAfter(-1)
      BY <2>1, <3>3, CutStep, Zenon DEF Discipline!Next
    <3>4. CASE buf_index[terminal_num] > -1 /\ CutAfter(buf_index[terminal_num] - 1)
      BY <2>1, <3>4, CutStep, Zenon DEF Discipline!Next
    <3>5. CASE Moved
      <4>1. terminal_num' \in Terminals /\ Discipline!Show(terminal_num')
        BY <2>1, <3>5, MoveStep, Zenon DEF Moved
      <4>2. QED
        BY <4>1, Zenon DEF Discipline!Next
    <3>6. QED
      BY <2>1, <2>2, <3>1, <3>2, <3>3, <3>4, <3>5, KeyCases, Zenon
  <2>3. ASSUME NEW t \in Terminals, terminal_read(t)
        PROVE  [Discipline!Next]_(Discipline!lineVars)
    <3>1. "cleared" \notin windows
      BY <2>3, Zenon DEF terminal_read
    <3>2. QED
      BY <1>1, <2>3, <3>1, ReadIsRead, Zenon
  <2>4. QED
    BY <2>2, <2>3, Zenon DEF Next
<1>2. QED
  BY <1>1, DisciplineInitial, TerminalSafe, PTL DEF Spec, ImplementsLineDiscipline
=============================================================================
