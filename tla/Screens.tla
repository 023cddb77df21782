------------------------------ MODULE Screens ------------------------------
(***************************************************************************)
(* What the terminals promise about output: every terminal has a screen of *)
(* its own, one of them is displayed, and an operation on one screen       *)
(* changes no other.  Screen shows how the pages, the copies and the       *)
(* borrowed terminal_num implement it.                                     *)
(***************************************************************************)
EXTENDS Teletype

CONSTANTS Displays,
          Home,         \* where the user is when all shells have started
          Texts,        \* what programs write
          Typed         \* what a key can put on the screen

VARIABLES running,      \* the terminal whose program has the processor
          focus,        \* the terminal the user types on
          screens,      \* the screen of each terminal, cursor included
          shown,        \* the terminal the user looks at
          display       \* the cells the user sees

screensVars == <<running, focus, screens, shown, display>>

Init ==
    /\ screens \in [Displays -> [x : Cols, y : Rows, cells : {BlankPage}]]
    /\ shown \in Displays /\ running \in Displays /\ focus \in Displays
    /\ display = screens[shown].cells

Draw(t, s) ==
    /\ UNCHANGED <<shown, running>>
    /\ screens' = [screens EXCEPT ![t] = s]
    /\ display' = screens'[shown].cells

\* The program that runs writes to its own screen or draws on it through
\* vidmap.  A message about it goes to the screen the user types on; a write
\* that fails is reported below what it has written, and the user types there
\* from then on.
Write == \E text \in Texts : Draw(running, terminal_write(screens[running], text)) /\ focus' = focus
Poke ==
    /\ \E cell \in Cells : Draw(running, [screens[running] EXCEPT !.cells = [@ EXCEPT ![cell] = Glyph]])
    /\ focus' = focus
Report == \E text \in Texts : Draw(focus, printf(screens[focus], text)) /\ focus' = focus
Fail ==
    /\ \E text, report \in Texts : \E n \in 0 .. Len(text) - 1 :
         Draw(running, printf(terminal_write(screens[running], SubSeq(text, 1, n)), report))
    /\ focus' = running

\* The user types.
Echo == \E c \in Typed : Draw(focus, terminal_write(screens[focus], <<c>>)) /\ focus' = focus
Erase == Draw(focus, backspace_pressed(screens[focus])) /\ focus' = focus
Wipe == Draw(focus, reset_screen(clear(screens[focus]))) /\ focus' = focus

\* The user switches: what is shown is where they type.
Show(t) ==
    /\ shown' = t /\ focus' = t /\ display' = screens[t].cells
    /\ UNCHANGED <<running, screens>>

\* Another program runs.  When it is a shell that was just started the user
\* types on its terminal, and on Home after the last one.
Switch(t) ==
    /\ running' = t /\ focus' \in {focus, t, Home}
    /\ UNCHANGED <<screens, shown, display>>

Next ==
    \/ \E t \in Displays : Show(t) \/ Switch(t)
    \/ Echo \/ Erase \/ Wipe
    \/ Write \/ Poke \/ Report \/ Fail

Spec == Init /\ [][Next]_screensVars
=============================================================================
