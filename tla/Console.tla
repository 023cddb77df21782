------------------------------ MODULE Console ------------------------------
(***************************************************************************)
(* The keyboard interrupt as a whole: the line it edits (Terminal) and the *)
(* drawing it does for it (Screen), with programs that write, fail and     *)
(* draw, and ticks in between.  terminal_read touches neither a line nor a *)
(* screen and has no step here, and nothing here looks at the mailboxes:   *)
(* they stay as they are once a line is in them.                           *)
(***************************************************************************)
EXTENDS Screen

CONSTANTS CHARACTER_BUFFER_SIZE, Keys

VARIABLES shift_flag, ctrl_flag, alt_flag, capslock_flag, release_caps,
          buf_index, char_buf, lineWindows,
          disturbed     \* history: a program drew into this unfinished line

Input == INSTANCE Terminal WITH
    windows <- lineWindows,
    command_buf <- [t \in Terminals |-> [i \in 0 .. CHARACTER_BUFFER_SIZE - 1 |-> <<"NL", FALSE>>]],
    t_enter_flag <- [t \in Terminals |-> 1],
    reader <- [t \in Terminals |-> [pc |-> "idle", buf |-> <<>>]],
    got <- [t \in Terminals |-> <<>>]

ASSUME ConsoleAssumption ==
    /\ CHARACTER_BUFFER_SIZE \in Nat \ {0, 1}
    /\ Keys \subseteq Input!Scancodes
    /\ \A k \in Keys \cap Input!FunctionKeys : Input!FunctionNumber(k) < TERMINAL_COUNT

inputVars == <<shift_flag, ctrl_flag, alt_flag, capslock_flag, release_caps,
               buf_index, char_buf, lineWindows>>
consoleVars == <<vars, inputVars, disturbed>>

ConsoleInit ==
    /\ Init /\ Input!InitKeyboard
    /\ disturbed = [t \in Terminals |-> FALSE]

\* What keyboard_handler draws for the key, and where.
KeyDraws(k) ==
    LET c == Input!scancodeTable(Input!Row, k)
    IN  CASE k = "ENTER" -> echo(<<Newline>>)
          [] k = "BACKSPACE" /\ buf_index[terminal_num] > -1 -> key_backspace
          [] k \in Input!FunctionKeys /\ alt_flag = 1 ->
                 terminal_switch(Input!FunctionNumber(k))
          [] k \in Input!TableKeys /\ Input!ClearsScreen(k) -> key_clear
          [] k \in Input!TableKeys /\ ~Input!ClearsScreen(k) /\ Input!Accepts(c) -> echo(<<c[1]>>)
          [] OTHER -> UNCHANGED vars

keyboard_handler(k) ==
    /\ Input!keyboard_handler(k)
    /\ KeyDraws(k)
    /\ disturbed' = [disturbed EXCEPT ![terminal_num] = @ /\ buf_index'[terminal_num] > -1]

program_writes(text) ==
    /\ write(text)
    /\ disturbed' = [disturbed EXCEPT ![tty] = @ \/ buf_index[tty] > -1]
    /\ UNCHANGED inputVars

\* The kernel's messages about the program that runs, on the terminal the user
\* types on; and a write that faults after n characters.
program_fails(text) ==
    \/ /\ exception_report(text) \/ execute_full(text)
       /\ disturbed' = [disturbed EXCEPT ![terminal_num] = @ \/ buf_index[terminal_num] > -1]
       /\ UNCHANGED inputVars
    \/ /\ \E report \in Texts : \E n \in 0 .. Len(text) - 1 : write_fault(text, n, report)
       /\ disturbed' = [disturbed EXCEPT ![tty] = @ \/ buf_index[tty] > -1]
       /\ UNCHANGED inputVars

\* Programs come and go, and draw through vidmap.
program_draws ==
    \/ /\ vidmap \/ execute \/ program_ends
       /\ UNCHANGED <<inputVars, disturbed>>
    \/ /\ \E cell \in Rows \X Cols : user_store(cell)
       /\ disturbed' = [disturbed EXCEPT ![tty] = @ \/ buf_index[tty] > -1]
       /\ UNCHANGED inputVars

tick ==
    /\ task_switch_boot \/ task_switch
    /\ UNCHANGED <<inputVars, disturbed>>

tick_restart == task_switch_restart /\ UNCHANGED <<inputVars, disturbed>>

\* With the keys the user has.
ConsoleNext(keys) ==
    \/ \E k \in keys : keyboard_handler(k)
    \/ \E text \in Texts : program_writes(text) \/ program_fails(text)
    \/ program_draws
    \/ tick \/ tick_restart

\* Output, echo and erasing keep the cursor of every terminal on its screen, and
\* what stands on the screen before the cursor of a terminal is the line being
\* typed there, through wraps, scrolling, switches, erasing and the output of
\* other terminals: so Backspace erases what it takes from the line, and Enter
\* hands over what the user sees.
LineIsOnScreen ==
    \A t \in Terminals :
        /\ OnScreen(Current(t))
        /\ ~disturbed[t] =>
             LET n == buf_index[t] + 1
                 p == screen_y[t] * NUM_COLS + screen_x[t]
                 At(q) == page[video_mem[t]][<<q \div NUM_COLS, q % NUM_COLS>>]
             IN  \A i \in 1 .. n : i <= p => At(p - i) = char_buf[n - i][1]
=============================================================================
