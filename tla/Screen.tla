------------------------------- MODULE Screen -------------------------------
(***************************************************************************)
(* Terminal output of limeOS: which terminal is drawn on, and where its    *)
(* cells are.  The terminal on the screen has its cells in VIDEO memory,   *)
(* every other one in its backup page; terminal_switch copies pages and    *)
(* exchanges the entries of video_mem and of the user page table PT1.      *)
(*                                                                         *)
(* terminal_num is also moved without the pages: task_switch does so when  *)
(* it starts a shell, and write, which borrows it, does not give it back   *)
(* when it faults on the caller's buffer.                                  *)
(*                                                                         *)
(* write runs with interrupts disabled from cli to sti, the keyboard and   *)
(* the timer interrupt and the exception handlers do so by their gates: an *)
(* action each.  A program that called vidmap stores into its page at any  *)
(* time.  Console has the next-state relation, with the keys that call     *)
(* echo, key_backspace, key_clear and terminal_switch; Process has what    *)
(* execute, halt and the scheduler do besides.                             *)
(***************************************************************************)
EXTENDS Teletype

CONSTANTS TERMINAL_COUNT,   \* 3
          Texts             \* what programs write, and what is echoed

ASSUME ScreenAssumption ==
    TERMINAL_COUNT \in Nat \ {0} /\ Texts \subseteq Seq(STRING) \ {<<>>}

Terminals == 0 .. TERMINAL_COUNT - 1

\* What a cell holds: a character of the keyboard or of a text.
Symbols ==
    {Blank, Newline, Glyph, "a", "1", "backslash"} \cup
    UNION {{text[i] : i \in 1 .. Len(text)} : text \in Texts}

VIDEO == -1                 \* the displayed page; backup page t is t
Pages == Terminals \cup {VIDEO}
NoMap == -1

VARIABLES
    terminal_num,   \* lib.c:15
    tty,            \* get_tty() of the running process
    started,        \* how many terminals have their first shell
    terminals_initialized, pit_terminal_num,    \* sched.c:3-4
    screen_x, screen_y,
    video_mem,      \* lib.c:11, the page of each terminal
    PT1,            \* the user page table, one entry per terminal
    page,           \* the contents of the pages
    cursor,         \* the VGA cursor
    vid,            \* the PT1 entry the program of a terminal got from vidmap
    displayed,      \* history: the terminal of the last terminal_switch
    windows         \* history: the unprotected windows that were hit

tickVars == <<started, terminals_initialized, pit_terminal_num>>
vars == <<terminal_num, tty, tickVars, screen_x, screen_y, video_mem, PT1,
          page, cursor, vid, displayed, windows>>

\* init_paging and the initial values of lib.c.  entry() has cleared VIDEO.
Init ==
    /\ terminal_num = 0 /\ tty = 0 /\ displayed = 0
    /\ started = 0 /\ terminals_initialized = FALSE /\ pit_terminal_num = 0
    /\ screen_x = [t \in Terminals |-> 0]
    /\ screen_y \in {[t \in Terminals |-> IF t = 0 THEN y ELSE 0] : y \in Rows}
    /\ video_mem = [t \in Terminals |-> IF t = 0 THEN VIDEO ELSE t]
    /\ PT1 = [t \in Terminals |-> IF t = 0 THEN VIDEO ELSE t]
    /\ page = [p \in Pages |-> BlankPage]
    /\ cursor = 0
    /\ vid = [t \in Terminals |-> NoMap]
    /\ windows = {}

-----------------------------------------------------------------------------

Current(t) == [x |-> screen_x[t], y |-> screen_y[t], cells |-> page[video_mem[t]]]

\* The routines of Teletype applied to terminal t.
Draw(t, s) ==
    /\ screen_x' = [screen_x EXCEPT ![t] = s.x]
    /\ screen_y' = [screen_y EXCEPT ![t] = s.y]
    /\ page' = [page EXCEPT ![video_mem[t]] = s.cells]

\* update_cursor(screen_x[tn], screen_y[tn]): nothing happens unless the
\* process that runs belongs to the terminal on the screen.
update_cursor(tn, running, x, y) ==
    cursor' = IF tn # running THEN cursor ELSE y * NUM_COLS + x

\* write on a terminal descriptor: terminal_num is borrowed for the call.
write(text) ==
    /\ started > 0
    /\ Draw(tty, terminal_write(Current(tty), text))
    /\ update_cursor(terminal_num, tty, screen_x'[terminal_num], screen_y'[terminal_num])
    /\ UNCHANGED <<terminal_num, tty, tickVars, video_mem, PT1, vid, displayed, windows>>

\* The window "printf": the kernel's message leaves the cursor below the screen.
Printed(s) == windows' = IF OnScreen(s) THEN windows ELSE windows \cup {"printf"}

\* write meets a page fault on the caller's buffer after n characters.  The
\* handler reports it where terminal_num points and never comes back to give
\* terminal_num back; program_ends follows.
write_fault(text, n, report) ==
    LET s == printf(terminal_write(Current(tty), SubSeq(text, 1, n)), report)
    IN  /\ started > 0 /\ n < Len(text)
        /\ Draw(tty, s)
        /\ Printed(s)
        /\ terminal_num' = tty
        /\ UNCHANGED <<tty, tickVars, video_mem, PT1, cursor, vid, displayed>>

\* keyboard_handler's drawing: the character that was added to the line.
\* The VGA cursor is left behind.
echo(text) ==
    /\ Draw(terminal_num, terminal_write(Current(terminal_num), text))
    /\ UNCHANGED <<terminal_num, tty, tickVars, video_mem, PT1, cursor, vid, displayed, windows>>

key_backspace ==
    /\ Draw(terminal_num, backspace_pressed(Current(terminal_num)))
    /\ update_cursor(terminal_num, tty, screen_x'[terminal_num], screen_y'[terminal_num])
    /\ UNCHANGED <<terminal_num, tty, tickVars, video_mem, PT1, vid, displayed, windows>>

key_clear ==
    /\ Draw(terminal_num, reset_screen(clear(Current(terminal_num))))
    /\ update_cursor(terminal_num, tty, 0, 0)
    /\ UNCHANGED <<terminal_num, tty, tickVars, video_mem, PT1, vid, displayed, windows>>

\* A message of the kernel, drawn on the terminal terminal_num names.
kernel_message(text) ==
    LET s == printf(Current(terminal_num), text)
    IN  /\ started > 0
        /\ Draw(terminal_num, s)
        /\ Printed(s)
        /\ UNCHANGED <<terminal_num, tty, tickVars, video_mem, PT1, cursor, vid, displayed>>

\* An exception of the program that runs is reported; program_ends follows.
exception_report(text) == kernel_message(text)

\* execute finds the process table full and says so.
execute_full(text) == kernel_message(text)

\* Mutant: the user page table keeps its entries.
SwitchPages_KernelOnly(new) ==
    /\ video_mem' = [video_mem EXCEPT ![terminal_num] = terminal_num, ![new] = VIDEO]
    /\ UNCHANGED PT1

SwitchPages(new) ==
    /\ video_mem' = [video_mem EXCEPT ![terminal_num] = terminal_num, ![new] = VIDEO]
    /\ PT1' = [PT1 EXCEPT ![terminal_num] = terminal_num, ![new] = VIDEO]

\* Mutant: the screen is loaded before it is saved.
SwitchCells_LoadFirst(new) ==
    page' = [page EXCEPT ![VIDEO] = page[new],
                         ![terminal_num] = page[new]]

\* The two copies, the second after the first.
SwitchCells(new) ==
    page' = [page EXCEPT ![terminal_num] = page[VIDEO],
                         ![VIDEO] = IF new = terminal_num THEN page[VIDEO] ELSE page[new]]

\* Alt+Fn.  The window "borrowed": terminal_num is not the terminal on the
\* screen, and VIDEO is saved as if it were.
terminal_switch(new) ==
    /\ SwitchCells(new)
    /\ SwitchPages(new)
    /\ terminal_num' = new
    /\ displayed' = new
    /\ update_cursor(new, tty, screen_x[new], screen_y[new])
    /\ windows' = IF terminal_num # displayed THEN windows \cup {"borrowed"} ELSE windows
    /\ UNCHANGED <<tty, tickVars, screen_x, screen_y, vid>>

-----------------------------------------------------------------------------

\* A system call or a drawing program.  The window "vidmap": the call is made
\* while terminal_num is another terminal.
vidmap ==
    /\ started > 0
    /\ vid' = [vid EXCEPT ![tty] = terminal_num]
    /\ windows' = IF terminal_num # tty THEN windows \cup {"vidmap"} ELSE windows
    /\ UNCHANGED <<terminal_num, tty, tickVars, screen_x, screen_y, video_mem,
                   PT1, page, cursor, displayed>>

\* A store through the pointer vidmap returned.
user_store(cell) ==
    /\ vid[tty] # NoMap
    /\ page' = [page EXCEPT ![PT1[vid[tty]]][cell] = Glyph]
    /\ UNCHANGED <<terminal_num, tty, tickVars, screen_x, screen_y, video_mem,
                   PT1, cursor, vid, displayed, windows>>

\* execute: the new program belongs to terminal_num and has not called vidmap.
\* The window "execute": its parent belongs to another terminal.
execute ==
    /\ started > 0
    /\ tty' = terminal_num
    /\ vid' = [vid EXCEPT ![terminal_num] = NoMap]
    /\ windows' = IF terminal_num # tty THEN windows \cup {"execute"} ELSE windows
    /\ UNCHANGED <<terminal_num, tickVars, screen_x, screen_y, video_mem, PT1, page,
                   cursor, displayed>>

\* Where a program runs that was put to sleep: on the terminal expected, unless
\* an execute has put parent and child on different ones.
WakesOn(t) == IF "execute" \in windows THEN Terminals ELSE {t}

\* The program halts and its parent goes on, which had called vidmap or not.
program_ends ==
    /\ started > 0
    /\ tty' \in WakesOn(tty)
    /\ \E m \in {NoMap} \cup (IF "vidmap" \in windows THEN Terminals ELSE {tty'}) :
         vid' = [vid EXCEPT ![tty'] = m]
    /\ UNCHANGED <<terminal_num, tickVars, screen_x, screen_y, video_mem, PT1, page,
                   cursor, displayed, windows>>

\* task_switch finds no first shell on terminal i and starts it, with
\* terminal_num borrowed.  It enables interrupts before it calls execute: with a
\* key in between, that call is the action execute.
start_shell(i) ==
    /\ terminal_num' = i
    /\ tty' = i
    /\ vid' = [vid EXCEPT ![i] = NoMap]
    /\ terminals_initialized' = (terminals_initialized \/ i = TERMINAL_COUNT - 1)
    /\ UNCHANGED <<pit_terminal_num, screen_x, screen_y, video_mem, PT1, page, cursor,
                   displayed, windows>>

\* The first ticks.
task_switch_boot ==
    /\ started < TERMINAL_COUNT
    /\ started' = started + 1
    /\ start_shell(started)

\* A tick that comes when the first shell of the terminal has just halted.
task_switch_restart ==
    /\ started > 0
    /\ UNCHANGED started
    /\ start_shell(tty)

\* Mutant: the round robin stays where it is.
NextTerminal_Stuck == pit_terminal_num

NextTerminal == (pit_terminal_num + 1) % TERMINAL_COUNT

\* Later ticks go round.  The first one after the last shell was started also
\* makes terminal 0 the current one.
task_switch ==
    /\ started = TERMINAL_COUNT
    /\ terminals_initialized' = FALSE
    /\ terminal_num' = IF terminals_initialized THEN 0 ELSE terminal_num
    /\ pit_terminal_num' = NextTerminal
    /\ tty' \in WakesOn(NextTerminal)
    /\ update_cursor(terminal_num', tty', screen_x[terminal_num'], screen_y[terminal_num'])
    /\ UNCHANGED <<started, screen_x, screen_y, video_mem, PT1, page, vid, displayed, windows>>

-----------------------------------------------------------------------------
(* Properties *)

TypeOK ==
    /\ terminal_num \in Terminals /\ tty \in Terminals /\ displayed \in Terminals
    /\ started \in 0 .. TERMINAL_COUNT /\ terminals_initialized \in BOOLEAN
    /\ pit_terminal_num \in Terminals
    /\ screen_x \in [Terminals -> Cols]
    /\ screen_y \in [Terminals -> Nat]
    /\ video_mem \in [Terminals -> Pages]
    /\ PT1 \in [Terminals -> Pages]
    /\ page \in [Pages -> [Cells -> Symbols]]
    /\ cursor \in Nat
    /\ vid \in [Terminals -> Terminals \cup {NoMap}]
    /\ windows \subseteq {"borrowed", "execute", "printf", "vidmap"}

\* Types are kept; the kernel and the user page table agree where a terminal's
\* cells are, and VIDEO belongs to one terminal alone, the one the user last
\* switched to (terminal_switch, init_paging).  So it is after any sequence of
\* switches, and also while terminal_num is another terminal's (task_switch, a
\* fault inside write), until a switch is made in that state.
PagesOwned ==
    /\ TypeOK
    /\ "borrowed" \notin windows =>
         \A t \in Terminals :
             /\ PT1[t] = video_mem[t]
             /\ video_mem[t] = (IF t = displayed THEN VIDEO ELSE t)

Promise == INSTANCE Screens WITH
    Displays <- Terminals,
    Home <- 0,
    Typed <- Symbols,
    running <- tty,
    focus <- terminal_num,
    screens <- [t \in Terminals |-> Current(t)],
    shown <- displayed,
    display <- page[VIDEO]

\* Every terminal has a screen of its own and the display shows the one of the
\* terminal last switched to, though the cells move between VIDEO and the
\* backup pages (terminal_switch), write borrows terminal_num and may fault
\* before it gives it back, task_switch moves it, and programs draw through the
\* user page table.  A program's output changes its own screen only; what the
\* user types and the kernel's messages (an exception, execute's full table)
\* change the screen of terminal_num only.
ImplementsScreens == Promise!Spec

\* The VGA cursor: echo leaves it behind and a program of another terminal
\* does not move it, but while a terminal stays the current one the ticks keep
\* bringing it back to where that terminal's next character goes.
CursorFollows ==
    \A t \in Terminals :
        <>[](terminal_num = t) =>
            []<>(cursor = screen_y[t] * NUM_COLS + screen_x[t])

=============================================================================
