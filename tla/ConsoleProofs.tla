--------------------------- MODULE ConsoleProofs ---------------------------
(***************************************************************************)
(* Proofs about what keys and programs do to the screens, for every number *)
(* of terminals, size of the screen, set of keys and of texts: that the    *)
(* pages stay owned, that the line being typed stands before the cursor,   *)
(* and that the pages and copies implement Screens.                        *)
(***************************************************************************)
EXTENDS MCConsole, ScreenProofs

-----------------------------------------------------------------------------
(* What a key does *)

\* No other terminal's unfinished line has a character in the place the line of
\* the terminal on the screen goes on.
NoMix ==
    \A u \in Terminals : u # terminal_num => ~(buf_index[terminal_num] + 1 <= buf_index[u])

\* The five things keyboard_handler can do to lines and screens together.
EnterKey ==
    /\ echo(<<Newline>>) /\ (lineWindows' = {} => NoMix)
    /\ buf_index' = [buf_index EXCEPT ![terminal_num] = -1]
    /\ \E c : char_buf' = [char_buf EXCEPT ![buf_index[terminal_num] + 1] = c]
BackspaceKey ==
    /\ key_backspace /\ buf_index[terminal_num] > -1
    /\ buf_index' = [buf_index EXCEPT ![terminal_num] = @ - 1]
    /\ char_buf' = char_buf
ClearKey ==
    /\ key_clear
    /\ buf_index' = [buf_index EXCEPT ![terminal_num] = -1]
    /\ char_buf' = char_buf
SwitchKey ==
    /\ \E new \in Terminals : terminal_switch(new)
    /\ UNCHANGED <<buf_index, char_buf>>
CharacterKey ==
    \E c : /\ c[1] \in Symbols /\ c[1] # Newline
           /\ echo(<<c[1]>>) /\ (lineWindows' = {} => NoMix)
           /\ buf_index[terminal_num] < CHARACTER_BUFFER_SIZE - 2
           /\ buf_index' = [buf_index EXCEPT ![terminal_num] = @ + 1]
           /\ char_buf' = [char_buf EXCEPT ![buf_index[terminal_num] + 1] = c]
SilentKey == UNCHANGED <<vars, buf_index, char_buf>>

\* Every key of the keyboard is one of these (keyboard_output_dealer and what it
\* draws).
LEMMA KeyCases ==
    ASSUME NEW k \in Keys, keyboard_handler(k), terminal_num \in Terminals,
           buf_index \in [Terminals -> -1 .. CHARACTER_BUFFER_SIZE - 2]
    PROVE  \/ EnterKey \/ BackspaceKey \/ ClearKey \/ SwitchKey \/ CharacterKey \/ SilentKey
<1>1. Input!keyboard_output_dealer(k) /\ KeyDraws(k)
  BY Zenon DEF keyboard_handler, Input!keyboard_handler
<1>2. /\ k = "ENTER" \/ k = "BACKSPACE" => k \notin Input!FunctionKeys /\ k \notin Input!TableKeys
      /\ k \in Input!FunctionKeys => k \notin Input!TableKeys
      /\ k \in Input!FunctionKeys \cup Input!TableKeys =>
           /\ k # "ENTER" /\ k # "BACKSPACE"
           /\ k \notin {"SHIFT", "SHIFT_UP", "CTRL", "CTRL_UP", "ALT", "ALT_UP",
                        "CAPSLOCK", "CAPSLOCK_UP"}
  BY Zenon DEF Input!FunctionKeys, Input!TableKeys, Input!LetterKeys, Input!SymbolKeys
<1>3. CASE k = "ENTER"
  <2>1. Input!press_enter
    BY <1>1, <1>3, Zenon DEF Input!keyboard_output_dealer
  <2>2. echo(<<Newline>>)
    BY <1>1, <1>2, <1>3, Zenon DEF KeyDraws
  <2>3. /\ char_buf' = [char_buf EXCEPT ![buf_index[terminal_num] + 1] = Input!NL]
        /\ buf_index' = [buf_index EXCEPT ![terminal_num] = -1]
    BY <2>1, Zenon DEF Input!press_enter
  <2>4. \E X, Y : lineWindows' = X
             \cup (IF \E u \in Terminals \ {terminal_num} : buf_index[terminal_num] + 1 <= buf_index[u]
                   THEN {"mixed"} ELSE {})
             \cup Y
    BY <2>1, Zenon DEF Input!press_enter, Input!Terminals, Terminals
  <2>5. lineWindows' = {} => NoMix
    BY <2>4, Zenon DEF NoMix
  <2>6. QED
    BY <2>2, <2>3, <2>5, Zenon DEF EnterKey
<1>4. CASE k = "BACKSPACE"
  <2>1. Input!press_backspace
    BY <1>1, <1>4, Zenon DEF Input!keyboard_output_dealer
  <2>2. char_buf' = char_buf
        /\ buf_index' = [buf_index EXCEPT ![terminal_num] = IF @ > -1 THEN @ - 1 ELSE @]
    BY <2>1, Zenon DEF Input!press_backspace
  <2>3. CASE buf_index[terminal_num] > -1
    <3>1. key_backspace
      BY <1>1, <1>2, <1>4, <2>3, Zenon DEF KeyDraws
    <3>2. QED
      BY <2>2, <2>3, <3>1 DEF BackspaceKey
  <2>4. CASE ~(buf_index[terminal_num] > -1)
    <3>1. UNCHANGED vars
      BY <1>1, <1>2, <1>4, <2>4, Zenon DEF KeyDraws
    <3>2. buf_index' = buf_index
      BY <2>2, <2>4, Zenon
    <3>3. QED
      BY <2>2, <3>1, <3>2, Zenon DEF SilentKey
  <2>5. QED
    BY <2>3, <2>4
<1>5. CASE k \in Input!FunctionKeys
  <2>1. Input!defaultKeyPressed(k)
    BY <1>1, <1>2, <1>5, Zenon DEF Input!keyboard_output_dealer
  <2>2. CASE alt_flag = 1
    <3>1. terminal_switch(Input!FunctionNumber(k))
      BY <1>1, <1>2, <1>5, <2>2, Zenon DEF KeyDraws
    <3>2. Input!FunctionNumber(k) \in Terminals
      <4>1. Input!FunctionNumber(k) \in Nat
        BY <1>5, Zenon DEF Input!FunctionNumber, Input!FunctionKeys
      <4>2. Input!FunctionNumber(k) < TERMINAL_COUNT
        BY <1>5, ConsoleAssumption, Zenon
      <4>3. QED
        BY <4>1, <4>2, ScreenAssumption DEF Terminals
    <3>3. UNCHANGED <<buf_index, char_buf>>
      BY <1>5, <2>1, <2>2, Zenon DEF Input!defaultKeyPressed, Input!lineVars
    <3>4. QED
      BY <3>1, <3>2, <3>3, Zenon DEF SwitchKey
  <2>3. CASE alt_flag # 1
    <3>1. UNCHANGED vars
      BY <1>1, <1>2, <1>5, <2>3, Zenon DEF KeyDraws
    <3>2. UNCHANGED <<buf_index, char_buf>>
      BY <1>2, <1>5, <2>1, <2>3 DEF Input!defaultKeyPressed, Input!lineVars
    <3>3. QED
      BY <3>1, <3>2, Zenon DEF SilentKey
  <2>4. QED
    BY <2>2, <2>3, Zenon
<1>6. CASE k \in Input!TableKeys
  <2> DEFINE c == Input!scancodeTable(Input!Row, k)
  <2>1. Input!defaultKeyPressed(k)
    BY <1>1, <1>2, <1>6, Zenon DEF Input!keyboard_output_dealer
  <2>2. k \notin Input!FunctionKeys
    BY <1>2, <1>6, Zenon
  <2>3. CASE Input!ClearsScreen(k)
    <3>1. key_clear
      BY <1>1, <1>2, <1>6, <2>2, <2>3, Zenon DEF KeyDraws
    <3>2. buf_index' = [buf_index EXCEPT ![terminal_num] = -1] /\ char_buf' = char_buf
      BY <1>6, <2>1, <2>2, <2>3, Zenon DEF Input!defaultKeyPressed
    <3>3. QED
      BY <3>1, <3>2, Zenon DEF ClearKey
  <2>4. CASE ~Input!ClearsScreen(k) /\ Input!Accepts(c)
    <3>1. echo(<<c[1]>>)
      BY <1>1, <1>2, <1>6, <2>2, <2>4, Zenon DEF KeyDraws
    <3>2. buf_index' = [buf_index EXCEPT ![terminal_num] = @ + 1] /\ Input!Put(c)
      BY <1>6, <2>1, <2>2, <2>4, Zenon DEF Input!defaultKeyPressed
    <3>3. c # Input!NUL /\ buf_index[terminal_num] < CHARACTER_BUFFER_SIZE - 2
      BY <2>4, Zenon DEF Input!Accepts
    <3>4. c[1] \in Symbols /\ c[1] # Newline
      <4>1. k # "esc"
        BY ZenonT(60), <3>3 DEF Input!scancodeTable
      <4>2. c[1] = k
        BY <4>1, Zenon DEF Input!scancodeTable
      <4>3. k \in {"a", "l", "1", "backslash"}
        BY <1>6, <4>1, Zenon DEF Input!TableKeys, Input!LetterKeys, Input!SymbolKeys
      <4>4. QED
        BY <4>2, <4>3, Zenon DEF Symbols, Newline, Glyph
    <3> HIDE DEF c
    <3>5. char_buf' = [char_buf EXCEPT ![buf_index[terminal_num] + 1] = c]
      BY <3>2, Zenon DEF Input!Put
    <3>6. lineWindows' = {} => NoMix
      BY ZenonT(60), <3>2 DEF Input!Put, NoMix, Input!Terminals, Terminals
    <3>7. QED
      BY <3>1, <3>2, <3>3, <3>4, <3>5, <3>6, Zenon DEF CharacterKey
  <2>5. CASE ~Input!ClearsScreen(k) /\ ~Input!Accepts(c)
    <3>1. UNCHANGED vars
      BY <1>1, <1>2, <1>6, <2>2, <2>5, Zenon DEF KeyDraws
    <3>2. UNCHANGED <<buf_index, char_buf>>
      BY <1>6, <2>1, <2>2, <2>5, Zenon DEF Input!defaultKeyPressed, Input!lineVars
    <3>3. QED
      BY <3>1, <3>2, Zenon DEF SilentKey
  <2>6. QED
    BY <2>3, <2>4, <2>5, Zenon
<1>7. CASE /\ k # "ENTER" /\ k # "BACKSPACE"
           /\ k \notin Input!FunctionKeys /\ k \notin Input!TableKeys
  <2>1. UNCHANGED vars
    BY <1>1, <1>7, Zenon DEF KeyDraws
  <2>2. Input!modifier_key(k) \/ Input!defaultKeyPressed(k)
    BY <1>1, <1>7, Zenon DEF Input!keyboard_output_dealer
  <2>3. UNCHANGED <<buf_index, char_buf>>
    BY <1>7, <2>2, Zenon DEF Input!modifier_key, Input!defaultKeyPressed, Input!lineVars
  <2>4. QED
    BY <2>1, <2>3, Zenon DEF SilentKey
<1>8. QED
  BY <1>3, <1>4, <1>5, <1>6, <1>7

-----------------------------------------------------------------------------
(* Keys and programs are steps of the screens *)

\* The types of what the keyboard handler edits.
LineTypes ==
    /\ buf_index \in [Terminals -> -1 .. CHARACTER_BUFFER_SIZE - 2]
    /\ DOMAIN char_buf = 0 .. CHARACTER_BUFFER_SIZE - 1
    /\ char_buf = [i \in DOMAIN char_buf |-> char_buf[i]]

\* A key draws with one step of Screen, or not at all, and keeps the types.
LEMMA KeySteps ==
    ASSUME PagesOwned, LineTypes, NEW k \in Keys, keyboard_handler(k)
    PROVE  (ScreenStep \/ UNCHANGED vars) /\ LineTypes'
<1>1. terminal_num \in Terminals /\ CHARACTER_BUFFER_SIZE \in Nat \ {0, 1}
      /\ buf_index \in [Terminals -> -1 .. CHARACTER_BUFFER_SIZE - 2]
      /\ buf_index[terminal_num] \in -1 .. CHARACTER_BUFFER_SIZE - 2
      /\ DOMAIN char_buf = 0 .. CHARACTER_BUFFER_SIZE - 1
      /\ char_buf = [i \in DOMAIN char_buf |-> char_buf[i]]
  BY ConsoleAssumption DEF PagesOwned, TypeOK, LineTypes
<1>2. EnterKey \/ BackspaceKey \/ ClearKey \/ SwitchKey \/ CharacterKey \/ SilentKey
  BY <1>1, KeyCases, Zenon
<1>3. ScreenStep \/ UNCHANGED vars
  <2>1. CASE EnterKey
    <3>1. Newline \in Symbols /\ echo(<<Newline>>)
      BY <2>1, Zenon DEF EnterKey, Symbols
    <3>2. QED
      BY <3>1, Zenon DEF ScreenStep
  <2>2. CASE CharacterKey
    <3>1. PICK c : c[1] \in Symbols /\ echo(<<c[1]>>)
      BY <2>2, Zenon DEF CharacterKey
    <3>2. QED
      BY <3>1, Zenon DEF ScreenStep
  <2>3. CASE BackspaceKey \/ ClearKey \/ SwitchKey \/ SilentKey
    BY <2>3, Zenon DEF BackspaceKey, ClearKey, SwitchKey, SilentKey, ScreenStep
  <2>4. QED
    BY <1>2, <2>1, <2>2, <2>3
<1>4. LineTypes'
  <2>1. \/ buf_index' = buf_index
        \/ \E n \in -1 .. CHARACTER_BUFFER_SIZE - 2 : buf_index' = [buf_index EXCEPT ![terminal_num] = n]
    <3>1. CASE EnterKey \/ ClearKey
      BY <1>1, <3>1 DEF EnterKey, ClearKey
    <3>2. CASE BackspaceKey
      <4>1. buf_index[terminal_num] > -1
            /\ buf_index' = [buf_index EXCEPT ![terminal_num] = buf_index[terminal_num] - 1]
        BY <3>2, Zenon DEF BackspaceKey
      <4>2. buf_index[terminal_num] - 1 \in -1 .. CHARACTER_BUFFER_SIZE - 2
        BY <1>1, <4>1
      <4>3. QED
        BY ZenonT(60), <4>1, <4>2
    <3>3. CASE CharacterKey
      <4>1. buf_index[terminal_num] < CHARACTER_BUFFER_SIZE - 2
            /\ buf_index' = [buf_index EXCEPT ![terminal_num] = buf_index[terminal_num] + 1]
        BY <3>3, Zenon DEF CharacterKey
      <4>2. buf_index[terminal_num] + 1 \in -1 .. CHARACTER_BUFFER_SIZE - 2
        BY <1>1, <4>1
      <4>3. QED
        BY ZenonT(60), <4>1, <4>2
    <3>4. CASE SwitchKey \/ SilentKey
      BY <3>4, Zenon DEF SwitchKey, SilentKey
    <3>5. QED
      BY <1>2, <3>1, <3>2, <3>3, <3>4
  <2>2. char_buf' = char_buf \/ \E i, c : char_buf' = [char_buf EXCEPT ![i] = c]
    BY ZenonT(60), <1>2 DEF EnterKey, BackspaceKey, ClearKey, SwitchKey, CharacterKey, SilentKey
  <2>3. buf_index' \in [Terminals -> -1 .. CHARACTER_BUFFER_SIZE - 2]
    BY <1>1, <2>1
  <2>4. DOMAIN char_buf' = DOMAIN char_buf /\ char_buf' = [i \in DOMAIN char_buf' |-> char_buf'[i]]
    BY <1>1, <2>2
  <2>5. QED
    BY <1>1, <2>3, <2>4 DEF LineTypes
<1>5. QED
  BY <1>3, <1>4

\* So does every step.
LEMMA ConsoleSteps ==
    ASSUME PagesOwned, LineTypes, NEW keys \in SUBSET Keys, ConsoleNext(keys)
    PROVE  (ScreenStep \/ UNCHANGED vars) /\ LineTypes'
<1>1. CASE \E k \in keys : keyboard_handler(k)
  BY <1>1, KeySteps, Zenon
<1>2. ASSUME UNCHANGED inputVars PROVE LineTypes'
  BY <1>2, Zenon DEF inputVars, LineTypes
<1>3. CASE \E text \in Texts : program_writes(text) \/ program_fails(text)
  BY <1>2, <1>3, Zenon DEF program_writes, program_fails, exception_report, execute_full, ScreenStep
<1>4. CASE program_draws
  BY <1>2, <1>4, Zenon DEF program_draws, ScreenStep
<1>5. CASE tick \/ tick_restart
  BY <1>2, <1>5, Zenon DEF tick, tick_restart, ScreenStep
<1>6. QED
  BY <1>1, <1>3, <1>4, <1>5, Zenon DEF ConsoleNext

\* The initial state.
LEMMA InitTypes == ASSUME ConsoleInit PROVE Steady /\ LineTypes
<1>1. Init /\ Input!InitKeyboard
  BY Zenon DEF ConsoleInit
<1>2. LineTypes
  BY <1>1, ConsoleAssumption DEF Input!InitKeyboard, Input!Places, LineTypes, Terminals, Input!Terminals
<1>3. QED
  BY <1>1, <1>2, InitSteady

\* States that differ in nothing.
LEMMA PagesStay == ASSUME PagesOwned, UNCHANGED vars PROVE PagesOwned'
BY Zenon DEF vars, tickVars, PagesOwned, TypeOK

\* All behaviours of the console, the windows included.
ConsoleSpec == ConsoleInit /\ [][ConsoleNext(Keys)]_consoleVars

\* Whatever is typed, written, drawn and reported, and in whatever order with the
\* ticks, shells that start and writes that fault, the kernel and the user page
\* table agree about every terminal's page and VIDEO belongs to the one the user
\* last switched to, until a switch is made while terminal_num is another
\* terminal's (terminal_switch, init_paging).
THEOREM PagesSafe == ConsoleSpec => []PagesOwned
<1>1. ConsoleInit => PagesOwned /\ LineTypes
  BY InitTypes, Zenon DEF Steady
<1>2. (PagesOwned /\ LineTypes) /\ [ConsoleNext(Keys)]_consoleVars => (PagesOwned /\ LineTypes)'
  <2>1. ASSUME PagesOwned, LineTypes, UNCHANGED consoleVars PROVE PagesOwned' /\ LineTypes'
    BY <2>1, PagesStay, Zenon DEF consoleVars, inputVars, LineTypes
  <2>2. Keys \in SUBSET Keys
    BY Zenon
  <2>3. QED
    BY <2>1, <2>2, ConsoleSteps, ScreenKeeps, PagesStay
<1>3. QED
  BY <1>1, <1>2, PTL DEF ConsoleSpec

-----------------------------------------------------------------------------
(* Behaviours that hit no window *)

\* What holds of the screens and the lines while no window is hit.
Calm ==
    /\ Steady /\ LineTypes
    /\ lineWindows = {} /\ user \in Users
    /\ disturbed \in [Terminals -> BOOLEAN]
    /\ LineIsOnScreen

\* LineIsOnScreen for one terminal.
LineShown(t) ==
    OnScreen(Current(t)) /\ (~disturbed[t] => HasLine(Current(t), buf_index[t] + 1, char_buf))

LinesShown == \A t \in Terminals : LineShown(t)

\* LineIsOnScreen in terms of the screens.
LEMMA LineIs == LineIsOnScreen <=> LinesShown
<1>1. \A t \in Terminals : PosOf(Current(t)) = screen_y[t] * NUM_COLS + screen_x[t]
                           /\ Current(t).cells = page[video_mem[t]]
  BY Zenon DEF PosOf, Current
<1>2. QED
  BY <1>1 DEF LineIsOnScreen, LinesShown, LineShown, HasLine, PlaceOf

\* The line of a terminal that a step leaves alone.
LEMMA OthersShown ==
    ASSUME LineTypes, NEW t \in Terminals, LineShown(t),
           Current(t)' = Current(t), disturbed'[t] = disturbed[t], buf_index'[t] = buf_index[t],
           \A j \in 0 .. buf_index[t] : char_buf'[j] = char_buf[j]
    PROVE  LineShown(t)'
<1>1. buf_index[t] \in -1 .. CHARACTER_BUFFER_SIZE - 2 /\ CHARACTER_BUFFER_SIZE \in Nat
  BY ConsoleAssumption, Zenon DEF LineTypes
<1>2. PICK n \in Nat : n = buf_index[t] + 1
  BY <1>1
<1>3. \A j \in 0 .. n - 1 : char_buf'[j] = char_buf[j]
  BY <1>1, <1>2
<1>4. OnScreen(Current(t)') /\ (~disturbed[t] => HasLine(Current(t)', n, char_buf))
  BY <1>2, Zenon DEF LineShown
<1>5. ~disturbed[t] => HasLine(Current(t)', n, char_buf')
  BY <1>3, <1>4, LineOfPrefix
<1>6. QED
  BY <1>2, <1>4, <1>5 DEF LineShown, OnScreen, HasLine, PosOf

\* A step that draws on one terminal.
LEMMA OneDrawn ==
    ASSUME LineIsOnScreen, LineTypes, NEW t \in Terminals,
           LineShown(t)',
           \A u \in Terminals : u # t =>
             /\ Current(u)' = Current(u) /\ disturbed'[u] = disturbed[u]
             /\ buf_index'[u] = buf_index[u]
             /\ \A j \in 0 .. buf_index[u] : char_buf'[j] = char_buf[j]
    PROVE  LineIsOnScreen'
<1>1. \A u \in Terminals : LineShown(u)
  BY LineIs DEF LinesShown
<1>2. ASSUME NEW u \in Terminals, u # t PROVE LineShown(u)'
  BY <1>1, <1>2, OthersShown
<1>3. \A u \in Terminals : LineShown(u)'
  BY <1>2, Zenon
<1>4. (LineIsOnScreen <=> LinesShown)'
  BY LineIs, PTL
<1>5. QED
  BY <1>3, <1>4 DEF LinesShown

\* A step that draws nothing.
LEMMA NoneDrawn ==
    ASSUME LineIsOnScreen, LineTypes, UNCHANGED <<disturbed, buf_index, char_buf>>,
           \A u \in Terminals : Current(u)' = Current(u)
    PROVE  LineIsOnScreen'
<1>1. \A u \in Terminals : LineShown(u)
  BY LineIs, Zenon DEF LinesShown
<1>2. ASSUME NEW u \in Terminals PROVE LineShown(u)'
  BY <1>1, <1>2, OthersShown
<1>3. (LineIsOnScreen <=> LinesShown)'
  BY LineIs, PTL
<1>4. QED
  BY <1>2, <1>3, Zenon DEF LinesShown

\* A program that draws on a terminal either finds no line there or disturbs it.
LEMMA ProgramDrawn ==
    ASSUME LineIsOnScreen, LineTypes, disturbed \in [Terminals -> BOOLEAN],
           NEW t \in Terminals, OnScreen(Current(t)'),
           disturbed' = [disturbed EXCEPT ![t] = @ \/ buf_index[t] > -1],
           UNCHANGED <<buf_index, char_buf>>,
           \A u \in Terminals : u # t => Current(u)' = Current(u)
    PROVE  LineIsOnScreen' /\ disturbed' \in [Terminals -> BOOLEAN]
<1>1. buf_index[t] \in Int /\ buf_index[t] >= -1
  BY ConsoleAssumption DEF LineTypes
<1>2. disturbed' \in [Terminals -> BOOLEAN]
  BY ZenonT(30)
<1>3. \A u \in Terminals : u # t => disturbed'[u] = disturbed[u]
  BY ZenonT(30)
<1>4. ~disturbed'[t] => ~(buf_index[t] > -1)
  BY ZenonT(30)
<1>5. ~disturbed'[t] => buf_index'[t] + 1 = 0
  BY <1>1, <1>4
<1>6. HasLine(Current(t)', 0, char_buf')
  BY DEF HasLine
<1>7. ~disturbed'[t] => HasLine(Current(t)', buf_index'[t] + 1, char_buf')
  BY <1>5, <1>6, Zenon
<1>8. LineShown(t)'
  BY <1>7, Zenon DEF LineShown, HasLine, PosOf, OnScreen
<1>9. LineIsOnScreen'
  BY <1>3, <1>8, OneDrawn
<1>10. QED
  BY <1>2, <1>9, Zenon

\* A key leaves the mark of a disturbed line until the line is empty.
LEMMA KeyShown ==
    ASSUME LineIsOnScreen, LineTypes, disturbed \in [Terminals -> BOOLEAN], LineTypes',
           NEW t \in Terminals, OnScreen(Current(t)'),
           disturbed' = [disturbed EXCEPT ![t] = @ /\ buf_index'[t] > -1],
           buf_index'[t] > -1 /\ ~disturbed[t] => HasLine(Current(t)', buf_index'[t] + 1, char_buf'),
           \A u \in Terminals : u # t =>
             /\ Current(u)' = Current(u) /\ buf_index'[u] = buf_index[u]
             /\ \A j \in 0 .. buf_index[u] : char_buf'[j] = char_buf[j]
    PROVE  LineIsOnScreen' /\ disturbed' \in [Terminals -> BOOLEAN]
<1>1. buf_index'[t] \in Int /\ buf_index'[t] >= -1
  BY ConsoleAssumption DEF LineTypes
<1>2. disturbed' \in [Terminals -> BOOLEAN]
  BY ZenonT(30)
<1>3. \A u \in Terminals : u # t => disturbed'[u] = disturbed[u]
  BY ZenonT(30)
<1>4. ~disturbed'[t] => ~disturbed[t] \/ ~(buf_index'[t] > -1)
  BY ZenonT(30)
<1>5. HasLine(Current(t)', 0, char_buf')
  BY DEF HasLine
<1>6. ~(buf_index'[t] > -1) => buf_index'[t] + 1 = 0
  BY <1>1
<1>7. ~disturbed'[t] => HasLine(Current(t)', buf_index'[t] + 1, char_buf')
  BY <1>4, <1>5, <1>6, Zenon
<1>8. LineShown(t)'
  BY <1>7, Zenon DEF LineShown, HasLine, PosOf, OnScreen
<1>9. LineIsOnScreen'
  BY <1>3, <1>8, OneDrawn
<1>10. QED
  BY <1>2, <1>9

\* What Calm says of the terminal on the screen.
LEMMA CalmHere ==
    ASSUME Calm
    PROVE  /\ terminal_num \in Terminals /\ tty \in Terminals /\ TypeOK
           /\ PagesOwned /\ LineTypes /\ LineIsOnScreen /\ windows = {}
           /\ disturbed \in [Terminals -> BOOLEAN]
           /\ \A t \in Terminals : Current(t) \in Sheets /\ LineShown(t)
           /\ \A t \in Terminals : buf_index[t] \in -1 .. CHARACTER_BUFFER_SIZE - 2 /\ buf_index[t] \in Int
           /\ buf_index \in [Terminals -> -1 .. CHARACTER_BUFFER_SIZE - 2]
           /\ CHARACTER_BUFFER_SIZE \in Nat /\ CHARACTER_BUFFER_SIZE > 1
<1>1. PagesOwned /\ LineTypes /\ LineIsOnScreen /\ TypeOK /\ terminal_num \in Terminals /\ tty \in Terminals
      /\ windows = {} /\ disturbed \in [Terminals -> BOOLEAN]
  BY Zenon DEF Calm, Steady, PagesOwned, TypeOK
<1>2. \A t \in Terminals : Current(t) \in Sheets /\ LineShown(t)
  BY <1>1, CurrentIs, LineIs DEF LinesShown
<1>3. buf_index \in [Terminals -> -1 .. CHARACTER_BUFFER_SIZE - 2] /\ CHARACTER_BUFFER_SIZE \in Nat \ {0, 1}
  BY <1>1, ConsoleAssumption DEF LineTypes
<1>4. QED
  BY <1>1, <1>2, <1>3

\* A character put after the line of a terminal is in no other line (NoMix).
LEMMA PutApart ==
    ASSUME LineTypes, terminal_num \in Terminals, NoMix, NEW c,
           char_buf' = [char_buf EXCEPT ![buf_index[terminal_num] + 1] = c]
    PROVE  \A u \in Terminals : u # terminal_num => \A j \in 0 .. buf_index[u] : char_buf'[j] = char_buf[j]
<1>1. buf_index \in [Terminals -> -1 .. CHARACTER_BUFFER_SIZE - 2] /\ CHARACTER_BUFFER_SIZE \in Nat
      /\ DOMAIN char_buf = 0 .. CHARACTER_BUFFER_SIZE - 1
      /\ char_buf = [i \in DOMAIN char_buf |-> char_buf[i]]
  BY ConsoleAssumption, Zenon DEF LineTypes
<1>2. SUFFICES ASSUME NEW u \in Terminals, u # terminal_num, NEW j \in 0 .. buf_index[u]
               PROVE  char_buf'[j] = char_buf[j]
  BY Zenon
<1>3. ~(buf_index[terminal_num] + 1 <= buf_index[u])
  BY <1>2, Zenon DEF NoMix
<1>4. j # buf_index[terminal_num] + 1 /\ j \in DOMAIN char_buf
  BY SMTT(40), <1>1, <1>2, <1>3
<1>5. QED
  BY <1>1, <1>4

\* The keys that draw: Enter starts an empty line.
LEMMA EnterShown ==
    ASSUME Calm, EnterKey, LineTypes', lineWindows' = {},
           disturbed' = [disturbed EXCEPT ![terminal_num] = @ /\ buf_index'[terminal_num] > -1]
    PROVE  LineIsOnScreen' /\ disturbed' \in [Terminals -> BOOLEAN]
<1>1. PICK t \in Terminals : t = terminal_num
  BY CalmHere, Zenon
<1>2. PagesOwned /\ LineTypes /\ LineIsOnScreen /\ windows = {}
      /\ disturbed \in [Terminals -> BOOLEAN] /\ Current(t) \in Sheets /\ OnScreen(Current(t))
      /\ buf_index \in [Terminals -> -1 .. CHARACTER_BUFFER_SIZE - 2]
  BY <1>1, CalmHere DEF LineShown
<1> DEFINE s == terminal_write(Current(t), <<Newline>>)
<1>3. s \in Sheets /\ OnScreen(s)
  <2>1. Newline \in Symbols
    BY Zenon DEF Symbols
  <2>2. Len(<<Newline>>) \in Nat /\ \A n \in 1 .. Len(<<Newline>>) : <<Newline>>[n] \in Symbols
    BY <2>1
  <2>3. QED
    BY <1>2, <2>2, WrittenIs
<1>4. Draw(t, s) /\ video_mem' = video_mem
  BY <1>1, Zenon DEF EnterKey, echo
<1> HIDE DEF s
<1>5. \A u \in Terminals : Current(u)' = IF u = t THEN s ELSE Current(u)
  BY <1>2, <1>3, <1>4, DrawnIs
<1>6. buf_index'[t] = -1 /\ \A u \in Terminals : u # t => buf_index'[u] = buf_index[u]
  BY <1>1, <1>2 DEF EnterKey
<1>7. \A u \in Terminals : u # t => \A j \in 0 .. buf_index[u] : char_buf'[j] = char_buf[j]
  BY ZenonT(60), <1>1, <1>2, PutApart DEF EnterKey
<1>8. OnScreen(Current(t)')
  BY <1>3, <1>5
<1>9. ~(buf_index'[t] > -1)
  BY <1>6
<1>10. \A u \in Terminals : u # t => Current(u)' = Current(u)
  BY <1>5
<1>11. disturbed' = [disturbed EXCEPT ![t] = @ /\ buf_index'[t] > -1]
  BY <1>1
<1>12. QED
  BY ZenonT(60), <1>2, <1>6, <1>7, <1>8, <1>9, <1>10, <1>11, KeyShown

\* Backspace takes the last character from the line and from the screen.
LEMMA BackspaceShown ==
    ASSUME Calm, BackspaceKey, LineTypes',
           disturbed' = [disturbed EXCEPT ![terminal_num] = @ /\ buf_index'[terminal_num] > -1]
    PROVE  LineIsOnScreen' /\ disturbed' \in [Terminals -> BOOLEAN]
<1>1. PICK t \in Terminals : t = terminal_num
  BY CalmHere
<1>2. PagesOwned /\ LineTypes /\ LineIsOnScreen /\ windows = {}
      /\ disturbed \in [Terminals -> BOOLEAN] /\ Current(t) \in Sheets /\ LineShown(t)
      /\ buf_index \in [Terminals -> -1 .. CHARACTER_BUFFER_SIZE - 2] /\ buf_index[t] \in Int
  BY <1>1, CalmHere
<1> DEFINE s == backspace_pressed(Current(t))
<1>3. s \in Sheets /\ OnScreen(s)
  BY ZenonT(60), <1>2, BackspaceIs DEF LineShown
<1>4. Draw(t, s) /\ video_mem' = video_mem /\ char_buf' = char_buf
  BY <1>1, Zenon DEF BackspaceKey, key_backspace
<1>5. PICK n \in Nat : n = buf_index[t]
  BY <1>1, <1>2 DEF BackspaceKey
<1>6. buf_index'[t] = n - 1 /\ \A u \in Terminals : u # t => buf_index'[u] = buf_index[u]
  BY <1>1, <1>2, <1>5 DEF BackspaceKey
<1>7. ~disturbed[t] => HasLine(s, n, char_buf)
  BY <1>2, <1>5, ErasedLine DEF LineShown
<1> HIDE DEF s
<1>8. \A u \in Terminals : Current(u)' = IF u = t THEN s ELSE Current(u)
  BY <1>2, <1>3, <1>4, DrawnIs
<1>9. OnScreen(Current(t)') /\ \A u \in Terminals : u # t => Current(u)' = Current(u)
  BY <1>3, <1>8
<1>10. ~disturbed[t] => HasLine(Current(t)', buf_index'[t] + 1, char_buf')
  <2>1. buf_index'[t] + 1 = n /\ Current(t)' = s
    BY <1>6, <1>8
  <2>2. QED
    BY <1>4, <1>7, <2>1
<1>11. disturbed' = [disturbed EXCEPT ![t] = @ /\ buf_index'[t] > -1]
  BY <1>1
<1>12. \A u \in Terminals : u # t => \A j \in 0 .. buf_index[u] : char_buf'[j] = char_buf[j]
  BY <1>4
<1>13. QED
  BY ZenonT(60), <1>2, <1>6, <1>9, <1>10, <1>11, <1>12, KeyShown

\* Ctrl+L starts an empty line on an empty screen.
LEMMA ClearShown ==
    ASSUME Calm, ClearKey, LineTypes',
           disturbed' = [disturbed EXCEPT ![terminal_num] = @ /\ buf_index'[terminal_num] > -1]
    PROVE  LineIsOnScreen' /\ disturbed' \in [Terminals -> BOOLEAN]
<1>1. PICK t \in Terminals : t = terminal_num
  BY CalmHere, Zenon
<1>2. PagesOwned /\ LineTypes /\ LineIsOnScreen /\ windows = {}
      /\ disturbed \in [Terminals -> BOOLEAN] /\ Current(t) \in Sheets
      /\ buf_index \in [Terminals -> -1 .. CHARACTER_BUFFER_SIZE - 2]
  BY <1>1, CalmHere
<1> DEFINE s == reset_screen(clear(Current(t)))
<1>3. s \in Sheets /\ OnScreen(s)
  BY <1>2, ClearedIs
<1>4. Draw(t, s) /\ video_mem' = video_mem /\ char_buf' = char_buf
  BY <1>1 DEF ClearKey, key_clear
<1>5. buf_index'[t] = -1 /\ \A u \in Terminals : u # t => buf_index'[u] = buf_index[u]
  BY <1>1, <1>2 DEF ClearKey
<1> HIDE DEF s
<1>6. \A u \in Terminals : Current(u)' = IF u = t THEN s ELSE Current(u)
  BY SMTT(40), <1>2, <1>3, <1>4, DrawnIs
<1>7. OnScreen(Current(t)') /\ \A u \in Terminals : u # t => Current(u)' = Current(u)
  BY <1>3, <1>6
<1>8. ~(buf_index'[t] > -1)
  BY <1>5
<1>9. disturbed' = [disturbed EXCEPT ![t] = @ /\ buf_index'[t] > -1]
  BY <1>1, Zenon
<1>10. \A u \in Terminals : u # t => \A j \in 0 .. buf_index[u] : char_buf'[j] = char_buf[j]
  BY <1>4, Zenon
<1>11. QED
  BY ZenonT(60), <1>2, <1>5, <1>7, <1>8, <1>9, <1>10, KeyShown

\* A character goes into the line and onto the screen.
LEMMA CharacterShown ==
    ASSUME Calm, CharacterKey, LineTypes', lineWindows' = {},
           disturbed' = [disturbed EXCEPT ![terminal_num] = @ /\ buf_index'[terminal_num] > -1]
    PROVE  LineIsOnScreen' /\ disturbed' \in [Terminals -> BOOLEAN]
<1>1. PICK t \in Terminals : t = terminal_num
  BY CalmHere, Zenon
<1>2. PagesOwned /\ LineTypes /\ LineIsOnScreen /\ windows = {}
      /\ disturbed \in [Terminals -> BOOLEAN] /\ Current(t) \in Sheets /\ LineShown(t)
      /\ buf_index \in [Terminals -> -1 .. CHARACTER_BUFFER_SIZE - 2]
      /\ CHARACTER_BUFFER_SIZE \in Nat
  BY <1>1, CalmHere, Zenon
<1>3. PICK c : /\ c[1] \in Symbols /\ c[1] # Newline
               /\ echo(<<c[1]>>) /\ NoMix
               /\ buf_index[t] < CHARACTER_BUFFER_SIZE - 2
               /\ buf_index' = [buf_index EXCEPT ![t] = @ + 1]
               /\ char_buf' = [char_buf EXCEPT ![buf_index[t] + 1] = c]
  BY ZenonT(60), <1>1 DEF CharacterKey
<1>4. PICK n \in Nat : n = buf_index[t] + 1
  BY <1>2
<1> DEFINE s == write_char(Current(t), c[1])
<1>5. s \in Sheets /\ OnScreen(s)
  BY <1>2, <1>3, WriteCharKeeps DEF LineShown
<1>6. Draw(t, s) /\ video_mem' = video_mem
  BY <1>1, <1>2, <1>3, WrittenOnce DEF echo
<1>7. n < CHARACTER_BUFFER_SIZE - 1 /\ buf_index'[t] = n
      /\ \A u \in Terminals : u # t => buf_index'[u] = buf_index[u]
  BY <1>2, <1>3, <1>4
<1>8. char_buf'[n] = c /\ \A j \in 0 .. n - 1 : char_buf'[j] = char_buf[j]
  <2>1. /\ DOMAIN char_buf = 0 .. CHARACTER_BUFFER_SIZE - 1
        /\ char_buf = [i \in DOMAIN char_buf |-> char_buf[i]]
        /\ char_buf' = [char_buf EXCEPT ![n] = c]
    BY <1>2, <1>3, <1>4 DEF LineTypes
  <2>2. n \in DOMAIN char_buf /\ \A j \in 0 .. n - 1 : j \in DOMAIN char_buf /\ j # n
    BY <1>2, <1>7, <2>1
  <2>3. QED
    BY <2>1, <2>2, Zenon
<1>9. ~disturbed[t] => HasLine(s, n + 1, char_buf')
  <2>1. OnScreen(Current(t)) /\ (~disturbed[t] => HasLine(Current(t), n, char_buf))
    BY <1>2, <1>4 DEF LineShown
  <2>2. char_buf'[n][1] = c[1]
    BY <1>8
  <2>3. QED
    BY ZenonT(60), <1>2, <1>3, <1>8, <2>1, <2>2, TypedLine
<1> HIDE DEF s
<1>10. \A u \in Terminals : Current(u)' = IF u = t THEN s ELSE Current(u)
  BY <1>2, <1>5, <1>6, DrawnIs
<1>11. OnScreen(Current(t)') /\ \A u \in Terminals : u # t => Current(u)' = Current(u)
  BY <1>5, <1>10
<1>12. ~disturbed[t] => HasLine(Current(t)', buf_index'[t] + 1, char_buf')
  <2>1. buf_index'[t] + 1 = n + 1 /\ Current(t)' = s
    BY <1>7, <1>10
  <2>2. QED
    BY <1>9, <2>1
<1>13. disturbed' = [disturbed EXCEPT ![t] = @ /\ buf_index'[t] > -1]
  BY <1>1, Zenon
<1>14. \A u \in Terminals : u # t => \A j \in 0 .. buf_index[u] : char_buf'[j] = char_buf[j]
  BY ZenonT(60), <1>1, <1>2, <1>3, PutApart
<1>15. QED
  BY ZenonT(60), <1>2, <1>7, <1>11, <1>12, <1>13, <1>14, KeyShown

\* A switch moves the screens, the other keys leave them.
LEMMA QuietKeyShown ==
    ASSUME Calm, SwitchKey \/ SilentKey, LineTypes', windows' = {},
           disturbed' = [disturbed EXCEPT ![terminal_num] = @ /\ buf_index'[terminal_num] > -1]
    PROVE  LineIsOnScreen' /\ disturbed' \in [Terminals -> BOOLEAN]
<1>1. PICK t \in Terminals : t = terminal_num
  BY CalmHere, Zenon
<1>2. PagesOwned /\ LineTypes /\ LineIsOnScreen /\ windows = {}
      /\ disturbed \in [Terminals -> BOOLEAN] /\ LineShown(t)
  BY <1>1, CalmHere
<1>3. \A u \in Terminals : Current(u)' = Current(u)
  <2>1. CASE SwitchKey
    BY SMTT(40), <1>2, <2>1, SwitchedIs DEF SwitchKey
  <2>2. CASE SilentKey
    BY <2>2, Zenon DEF SilentKey, vars, Current
  <2>3. QED
    BY <2>1, <2>2
<1>4. UNCHANGED <<buf_index, char_buf>>
  BY Zenon DEF SwitchKey, SilentKey
<1>5. OnScreen(Current(t)') /\ (~disturbed[t] => HasLine(Current(t)', buf_index'[t] + 1, char_buf'))
  BY <1>2, <1>3, <1>4 DEF LineShown
<1>6. disturbed' = [disturbed EXCEPT ![t] = @ /\ buf_index'[t] > -1]
  BY <1>1, Zenon
<1>7. QED
  BY ZenonT(60), <1>2, <1>3, <1>4, <1>5, <1>6, KeyShown

\* Every key.
LEMMA KeysShown ==
    ASSUME Calm, NEW k \in Keys, keyboard_handler(k), windows' = {}, lineWindows' = {}
    PROVE  LineIsOnScreen' /\ disturbed' \in [Terminals -> BOOLEAN]
<1>1. EnterKey \/ BackspaceKey \/ ClearKey \/ SwitchKey \/ CharacterKey \/ SilentKey
  BY CalmHere, KeyCases
<1>2. LineTypes'
  BY CalmHere, KeySteps, Zenon
<1>3. disturbed' = [disturbed EXCEPT ![terminal_num] = @ /\ buf_index'[terminal_num] > -1]
  BY Zenon DEF keyboard_handler
<1>4. QED
  BY SMTT(40), <1>1, <1>2, <1>3, EnterShown, BackspaceShown, ClearShown, CharacterShown, QuietKeyShown

\* What a program writes, reports or stores.
LEMMA ProgramsShown ==
    ASSUME Calm, windows' = {},
           \/ \E text \in Texts : program_writes(text) \/ program_fails(text)
           \/ program_draws
    PROVE  LineIsOnScreen' /\ disturbed' \in [Terminals -> BOOLEAN]
<1>1. PagesOwned /\ LineTypes /\ LineIsOnScreen /\ windows = {} /\ TypeOK
      /\ disturbed \in [Terminals -> BOOLEAN]
      /\ \A t \in Terminals : Current(t) \in Sheets /\ OnScreen(Current(t))
  BY CalmHere, Zenon DEF LineShown
<1>2. ASSUME NEW t \in Terminals, NEW s \in Sheets, OnScreen(s), Draw(t, s), video_mem' = video_mem,
             disturbed' = [disturbed EXCEPT ![t] = @ \/ buf_index[t] > -1], UNCHANGED inputVars
      PROVE  LineIsOnScreen' /\ disturbed' \in [Terminals -> BOOLEAN]
  <2>1. \A u \in Terminals : Current(u)' = IF u = t THEN s ELSE Current(u)
    BY <1>1, <1>2, DrawnIs
  <2>2. OnScreen(Current(t)') /\ \A u \in Terminals : u # t => Current(u)' = Current(u)
    BY <1>2, <2>1
  <2>3. UNCHANGED <<buf_index, char_buf>>
    BY <1>2, Zenon DEF inputVars
  <2>4. QED
    BY ZenonT(60), <1>1, <1>2, <2>2, <2>3, ProgramDrawn
<1>3. ASSUME NEW text \in Texts, program_writes(text)
      PROVE  LineIsOnScreen' /\ disturbed' \in [Terminals -> BOOLEAN]
  <2>1. PICK t \in Terminals : t = tty
    BY CalmHere, Zenon
  <2> DEFINE s == terminal_write(Current(t), text)
  <2>2. s \in Sheets /\ OnScreen(s)
    BY SMTT(40), <1>1, TextsAre, WrittenIs
  <2>3. Draw(t, s) /\ video_mem' = video_mem /\ UNCHANGED inputVars
        /\ disturbed' = [disturbed EXCEPT ![t] = @ \/ buf_index[t] > -1]
    BY <1>3, <2>1 DEF program_writes, write
  <2> HIDE DEF s
  <2>4. QED
    BY ZenonT(60), <1>2, <2>2, <2>3
<1>4. ASSUME NEW t \in Terminals, NEW s \in Sheets, Printed(s), Draw(t, s), video_mem' = video_mem,
             disturbed' = [disturbed EXCEPT ![t] = @ \/ buf_index[t] > -1], UNCHANGED inputVars
      PROVE  LineIsOnScreen' /\ disturbed' \in [Terminals -> BOOLEAN]
  <2>1. OnScreen(s)
    BY <1>4, Zenon DEF Printed
  <2>2. QED
    BY ZenonT(60), <1>2, <1>4, <2>1
<1>5. ASSUME NEW text \in Texts, program_fails(text)
      PROVE  LineIsOnScreen' /\ disturbed' \in [Terminals -> BOOLEAN]
  <2>1. CASE /\ kernel_message(text) /\ UNCHANGED inputVars
             /\ disturbed' = [disturbed EXCEPT ![terminal_num] = @ \/ buf_index[terminal_num] > -1]
    <3>1. PICK t \in Terminals : t = terminal_num
      BY CalmHere, Zenon
    <3> DEFINE s == printf(Current(t), text)
    <3>2. s \in Sheets
      BY <1>1, PrintedIs, Zenon
    <3>3. Draw(t, s) /\ Printed(s) /\ video_mem' = video_mem
      BY <2>1, <3>1, Zenon DEF kernel_message
    <3> HIDE DEF s
    <3>4. disturbed' = [disturbed EXCEPT ![t] = @ \/ buf_index[t] > -1] /\ UNCHANGED inputVars
      BY <2>1, <3>1, Zenon
    <3>5. QED
      BY ZenonT(60), <1>4, <3>2, <3>3, <3>4
  <2>2. ASSUME NEW report \in Texts, NEW n \in 0 .. Len(text) - 1, write_fault(text, n, report),
               disturbed' = [disturbed EXCEPT ![tty] = @ \/ buf_index[tty] > -1], UNCHANGED inputVars
        PROVE  LineIsOnScreen' /\ disturbed' \in [Terminals -> BOOLEAN]
    <3>1. PICK t \in Terminals : t = tty
      BY CalmHere, Zenon
    <3> DEFINE s == printf(terminal_write(Current(t), SubSeq(text, 1, n)), report)
    <3>2. s \in Sheets
      BY <1>1, FaultIs, Zenon
    <3>3. Draw(t, s) /\ Printed(s) /\ video_mem' = video_mem
      BY <2>2, <3>1, Zenon DEF write_fault
    <3> HIDE DEF s
    <3>4. disturbed' = [disturbed EXCEPT ![t] = @ \/ buf_index[t] > -1] /\ UNCHANGED inputVars
      BY <2>2, <3>1, Zenon
    <3>5. QED
      BY ZenonT(60), <1>4, <3>2, <3>3, <3>4
  <2>3. QED
    BY <1>5, <2>1, <2>2, Zenon DEF program_fails, exception_report, execute_full
<1>6. ASSUME NEW cell \in Rows \X Cols, user_store(cell), UNCHANGED inputVars,
             disturbed' = [disturbed EXCEPT ![tty] = @ \/ buf_index[tty] > -1]
      PROVE  LineIsOnScreen' /\ disturbed' \in [Terminals -> BOOLEAN]
  <2>1. PICK t \in Terminals : t = tty
    BY CalmHere, Zenon
  <2> DEFINE s == [Current(t) EXCEPT !.cells = [Current(t).cells EXCEPT ![cell] = Glyph]]
  <2>2. Draw(t, s) /\ s \in Sheets /\ OnScreen(s)
    BY <1>1, <1>6, <2>1, StoreIs DEF Calm
  <2> HIDE DEF s
  <2>3. video_mem' = video_mem /\ disturbed' = [disturbed EXCEPT ![t] = @ \/ buf_index[t] > -1]
    BY <1>6, <2>1 DEF user_store
  <2>4. QED
    BY ZenonT(60), <1>2, <1>6, <2>2, <2>3
<1>7. ASSUME vidmap \/ execute \/ program_ends, UNCHANGED <<inputVars, disturbed>>
      PROVE  LineIsOnScreen' /\ disturbed' \in [Terminals -> BOOLEAN]
  <2>1. UNCHANGED <<screen_x, screen_y, video_mem, page>>
    BY <1>7, Zenon DEF vidmap, execute, program_ends
  <2>2. \A u \in Terminals : Current(u)' = Current(u)
    BY <2>1, Zenon DEF Current
  <2>3. UNCHANGED <<disturbed, buf_index, char_buf>>
    BY <1>7, Zenon DEF inputVars
  <2>4. QED
    BY SMTT(40), <1>1, <2>2, <2>3, NoneDrawn
<1>8. QED
  BY <1>3, <1>5, <1>6, <1>7, Zenon DEF program_draws

\* A step of the user's machine that hits no window.
UserStep ==
    /\ ConsoleNext(user.keys) /\ user' = user
    /\ user.draws \/ vid' = vid
    /\ windows' = {} /\ lineWindows' = {}

\* Calm is inductive.
LEMMA CalmStep == ASSUME Calm, UserStep PROVE Calm'
<1>1. windows' = {} /\ lineWindows' = {} /\ user' = user /\ user \in Users /\ user.keys \in SUBSET Keys
      /\ ConsoleNext(user.keys)
  BY UsersAssumption, Zenon DEF UserStep, Calm
<1>2. (ScreenStep \/ UNCHANGED vars) /\ LineTypes'
  BY <1>1, CalmHere, ConsoleSteps
<1>3. Steady'
  <2>1. CASE ScreenStep
    BY SMTT(40), <1>1, <2>1, SteadyKept DEF Calm
  <2>2. CASE UNCHANGED vars
    BY <2>2, CalmHere, PagesStay DEF Calm, Steady, vars
  <2>3. QED
    BY <1>2, <2>1, <2>2
<1>4. LineIsOnScreen' /\ disturbed' \in [Terminals -> BOOLEAN]
  <2>1. CASE \E k \in user.keys : keyboard_handler(k)
    BY <1>1, <2>1, KeysShown
  <2>2. CASE (\E text \in Texts : program_writes(text) \/ program_fails(text)) \/ program_draws
    BY <1>1, <2>2, ProgramsShown
  <2>3. CASE tick \/ tick_restart
    <3>1. UNCHANGED <<screen_x, screen_y, video_mem, page>> /\ UNCHANGED <<inputVars, disturbed>>
      BY <2>3, Zenon 
      DEF tick, tick_restart, task_switch_boot, task_switch_restart, start_shell, task_switch
    <3>2. UNCHANGED <<disturbed, buf_index, char_buf>> /\ \A u \in Terminals : Current(u)' = Current(u)
      BY <3>1, Zenon DEF inputVars, Current
    <3>3. QED
      BY <3>2, CalmHere, NoneDrawn
  <2>4. QED
    BY <1>1, <2>1, <2>2, <2>3, Zenon DEF ConsoleNext
<1>5. QED
  BY <1>1, <1>2, <1>3, <1>4 DEF Calm

\* The initial state is calm.
LEMMA CalmInit == ASSUME UserInit PROVE Calm
<1>1. ConsoleInit /\ user \in Users /\ Init /\ Input!InitKeyboard
      /\ disturbed = [t \in Terminals |-> FALSE]
  BY Zenon DEF UserInit, ConsoleInit
<1>2. Steady /\ LineTypes
  BY <1>1, InitTypes
<1>3. lineWindows = {}
  BY <1>1 DEF Input!InitKeyboard
<1>4. disturbed \in [Terminals -> BOOLEAN]
  BY <1>1, Zenon
<1>5. \A t \in Terminals : screen_x[t] \in Cols /\ screen_y[t] \in Rows
  BY <1>1, Sizes DEF Init
<1>6. \A t \in Terminals : buf_index[t] + 1 = 0
  BY SMTT(40), <1>1, ScreenAssumption DEF Input!InitKeyboard, Input!Terminals, Terminals
<1>7. \A t \in Terminals : LineShown(t)
  BY <1>5, <1>6 DEF LineShown, HasLine, OnScreen, Current
<1>8. LineIsOnScreen
  BY SMTT(40), <1>7, LineIs DEF LinesShown
<1>9. QED
  BY <1>1, <1>2, <1>3, <1>4, <1>8 DEF Calm

\* A state predicate of the variables.
LEMMA CalmStays == ASSUME Calm, UNCHANGED mcVars PROVE Calm'
<1>1. UNCHANGED <<vars, inputVars, disturbed, user>>
  BY Zenon DEF mcVars, consoleVars
<1>2. PagesOwned'
  BY <1>1, PagesStay, Zenon DEF Calm, Steady
<1>3. Steady' /\ LineTypes'
  BY <1>1, <1>2, Zenon DEF vars, inputVars, Calm, Steady, LineTypes
<1>4. LineIsOnScreen'
  <2>1. UNCHANGED <<disturbed, buf_index, char_buf>> /\ \A u \in Terminals : Current(u)' = Current(u)
    BY <1>1, Zenon DEF vars, inputVars, Current
  <2>2. QED
    BY <2>1, CalmHere, NoneDrawn
<1>5. QED
  BY <1>1, <1>3, <1>4, Zenon DEF inputVars, Calm

\* As long as no window is hit, the invariant holds in every state.
LEMMA AlwaysCalm == UserSpec => []Calm
<1>1. UserInit => Calm
  BY CalmInit, Zenon
<1>2. Calm /\ [UserStep]_mcVars => Calm'
  BY CalmStep, CalmStays
<1>3. QED
  BY <1>1, <1>2, PTL DEF UserSpec, UserStep

\* What stands before the cursor of a terminal is the line being typed there,
\* through wraps, scrolling, switches, erasing and the output of others, on
\* screens and lines of every size and for every number of terminals
\* (keyboard_handler, terminal_write, backspace_pressed, terminal_switch).
THEOREM LineSafe == UserSpec => []LineIsOnScreen
<1>1. Calm => LineIsOnScreen
  BY Zenon DEF Calm
<1>2. QED
  BY <1>1, AlwaysCalm, PTL

\* The pages, the copies between VIDEO and the backup pages and the borrowed
\* terminal_num, given back or not, implement one screen per terminal, of which
\* one is displayed: every step that hits no window (write_fault, execute_full and
\* the ticks among them) is a step of Screens or changes no screen.
THEOREM ScreensRefined == UserSpec => ImplementsScreens
<1>1. UserInit => Promise!Init
  BY SMTT(40), InitTypes, InitPromised DEF UserInit, ConsoleInit
<1>2. ASSUME UNCHANGED vars PROVE UNCHANGED Promise!screensVars
  BY <1>2, Zenon DEF vars, Promise!screensVars, Current
<1>3. ASSUME Calm, UserStep PROVE Promise!Next \/ UNCHANGED Promise!screensVars
  <2>1. user.keys \in SUBSET Keys /\ ConsoleNext(user.keys) /\ windows' = {} /\ Steady
    BY <1>3, UsersAssumption, Zenon DEF Calm, UserStep
  <2>2. ScreenStep \/ UNCHANGED vars
    BY <1>3, <2>1, CalmHere, ConsoleSteps
  <2>3. QED
    BY <1>2, <2>1, <2>2, ScreenPromised
<1>4. UNCHANGED mcVars => UNCHANGED vars
  BY Zenon DEF mcVars, consoleVars
<1>5. Calm /\ [UserStep]_mcVars => [Promise!Next]_(Promise!screensVars)
  BY <1>2, <1>3, <1>4, Zenon
<1>6. QED
  BY <1>1, <1>5, AlwaysCalm, PTL DEF UserSpec, UserStep, ImplementsScreens, Promise!Spec
=============================================================================
