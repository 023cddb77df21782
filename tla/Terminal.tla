------------------------------ MODULE Terminal ------------------------------
(***************************************************************************)
(* Terminal input of limeOS: the keyboard interrupt (keyboard.c), which    *)
(* edits lines, and terminal_read (terminal.c), in which the process of a  *)
(* terminal waits for one.                                                 *)
(*                                                                         *)
(* keyboard_handler runs with interrupts disabled and is one action.  Of   *)
(* it this module has everything but the drawing, which is Echo here and   *)
(* an action of Screen; Console joins the two.  terminal_read runs with    *)
(* interrupts enabled: a key can arrive between any two of its statements. *)
(* At most one process of a terminal is not waiting in execute, so there   *)
(* is one reader per terminal, and get_tty() is that terminal.             *)
(***************************************************************************)
EXTENDS Integers, Sequences

CONSTANTS TERMINAL_COUNT,           \* 3
          CHARACTER_BUFFER_SIZE,    \* 128
          Keys                      \* the scancodes of a run, see Scancodes

Terminals == 0 .. TERMINAL_COUNT - 1
Places == 0 .. CHARACTER_BUFFER_SIZE - 1

\* Scancodes.  TableKeys are those up to TABLE_SIZE: letters, keys whose two
\* symbols are chosen by Shift alone, the backslash, and keys without a
\* character.  "other" is any scancode beyond the table, releases included.
LetterKeys == {"a", "l"}
SymbolKeys == {"1"}
TableKeys == LetterKeys \cup SymbolKeys \cup {"backslash", "esc"}
FunctionKeys == {"F1", "F2", "F3"}
Scancodes == TableKeys \cup FunctionKeys \cup
    {"ENTER", "BACKSPACE", "SHIFT", "SHIFT_UP", "CTRL", "CTRL_UP", "ALT",
     "ALT_UP", "CAPSLOCK", "CAPSLOCK_UP", "other"}

FunctionNumber(k) == CASE k = "F1" -> 0 [] k = "F2" -> 1 [] k = "F3" -> 2

ASSUME TerminalAssumption ==
    /\ TERMINAL_COUNT \in Nat \ {0}
    /\ CHARACTER_BUFFER_SIZE \in Nat \ {0, 1}
    /\ Keys \subseteq Scancodes
    /\ \A k \in Keys \cap FunctionKeys : FunctionNumber(k) < TERMINAL_COUNT

NUL == <<"NUL", FALSE>>
NL == <<"NL", FALSE>>

\* A character is a key and whether the shifted symbol of it is meant.
Letters == (TableKeys \ {"esc"}) \X BOOLEAN
Characters == Letters \cup {NUL, NL}

VARIABLES
    shift_flag, ctrl_flag, alt_flag, capslock_flag, release_caps,
    buf_index,      \* keyboard.c:14, one per terminal
    char_buf,       \* keyboard.c:15, one for all terminals
    command_buf,    \* terminal.h, the mailbox of each terminal
    t_enter_flag,   \* terminal.c:6
    terminal_num,   \* lib.c:15
    reader,         \* the read of each terminal: where it is, what it copied
    got,            \* history: the line the last read returned
    windows         \* history: the unprotected windows that were hit

modVars == <<shift_flag, ctrl_flag, alt_flag, capslock_flag, release_caps>>
lineVars == <<buf_index, char_buf>>
mailVars == <<command_buf, t_enter_flag>>
readVars == <<reader, got>>
vars == <<modVars, lineVars, mailVars, terminal_num, readVars, windows>>

NoLine == <<<<"no line", FALSE>>>>
Idle == [pc |-> "idle", buf |-> <<>>]

InitKeyboard ==
    /\ shift_flag = 0 /\ ctrl_flag = 0 /\ alt_flag = 0
    /\ capslock_flag = 0 /\ release_caps = 1
    /\ buf_index = [t \in Terminals |-> -1]
    /\ char_buf = [i \in Places |-> NUL]
    /\ terminal_num = 0
    /\ windows = {}

Init ==
    /\ InitKeyboard
    /\ command_buf = [t \in Terminals |-> [i \in Places |-> NUL]]
    /\ t_enter_flag = [t \in Terminals |-> 0]
    /\ reader = [t \in Terminals |-> Idle]
    /\ got = [t \in Terminals |-> NoLine]

-----------------------------------------------------------------------------
(* The keyboard interrupt *)

\* scancodeTable, whose row is 2*capslock_flag + shift_flag.
scancodeTable(row, k) ==
    IF k = "esc" THEN NUL
    ELSE <<k, \/ k \in LetterKeys /\ row \in {1, 2}
              \/ k \in SymbolKeys /\ row \in {1, 3}
              \/ k = "backslash" /\ row = 1>>

Row == 2 * capslock_flag + shift_flag

\* Storing one character after the line of the terminal on the screen.  The
\* window "mixed": the place belongs to another terminal's unfinished line.
Put(c) ==
    LET i == buf_index[terminal_num] + 1
    IN  /\ char_buf' = [char_buf EXCEPT ![i] = c]
        /\ windows' = windows \cup
             (IF \E u \in Terminals \ {terminal_num} : i <= buf_index[u]
              THEN {"mixed"} ELSE {})

\* Mutant: Enter does not look whether the mailbox is taken.
SendLine_Always(b) ==
    LET v == terminal_num
        n == CHOOSE i \in Places : b[i] = NL /\ \A j \in 0 .. i - 1 : b[j] # NL
    IN  /\ command_buf' = [command_buf EXCEPT ![v] =
                [i \in Places |-> IF i <= n THEN b[i] ELSE @[i]]]
        /\ t_enter_flag' = [t_enter_flag EXCEPT ![v] = 1]

\* l.90-99: the line goes to the mailbox, up to its newline, if that is empty.
SendLine(b) ==
    LET v == terminal_num
        n == CHOOSE i \in Places : b[i] = NL /\ \A j \in 0 .. i - 1 : b[j] # NL
    IN  IF command_buf[v][0] = NUL
        THEN /\ command_buf' = [command_buf EXCEPT ![v] =
                    [i \in Places |-> IF i <= n THEN b[i] ELSE @[i]]]
             /\ t_enter_flag' = [t_enter_flag EXCEPT ![v] = 1]
        ELSE UNCHANGED mailVars

\* PRESS_ENTER, and the reset of buf_index at the end of keyboard_handler.
\* The window "cleared": the mailbox is filled between l.34 and l.35 of
\* terminal_read.
press_enter ==
    LET v == terminal_num
        b == [char_buf EXCEPT ![buf_index[v] + 1] = NL]
    IN  /\ char_buf' = b
        /\ SendLine(b)
        /\ buf_index' = [buf_index EXCEPT ![v] = -1]
        /\ windows' = windows
             \cup (IF \E u \in Terminals \ {v} : buf_index[v] + 1 <= buf_index[u]
                   THEN {"mixed"} ELSE {})
             \cup (IF reader[v].pc = "cleared" /\ command_buf[v][0] = NUL
                   THEN {"cleared"} ELSE {})
        /\ UNCHANGED <<modVars, terminal_num>>

press_backspace ==
    /\ buf_index' = [buf_index EXCEPT ![terminal_num] = IF @ > -1 THEN @ - 1 ELSE @]
    /\ UNCHANGED <<modVars, char_buf, mailVars, terminal_num, windows>>

\* The keys that only set or clear a flag.
modifier_key(k) ==
    /\ shift_flag' = CASE k = "SHIFT" -> 1 [] k = "SHIFT_UP" -> 0
                       [] OTHER -> shift_flag
    /\ ctrl_flag' = CASE k = "CTRL" -> 1 [] k = "CTRL_UP" -> 0
                      [] OTHER -> ctrl_flag
    /\ alt_flag' = CASE k = "ALT" -> 1 [] k = "ALT_UP" -> 0
                     [] OTHER -> alt_flag
    /\ capslock_flag' = IF k = "CAPSLOCK" /\ release_caps = 1
                        THEN 1 - capslock_flag ELSE capslock_flag
    /\ release_caps' = CASE k = "CAPSLOCK" -> 0 [] k = "CAPSLOCK_UP" -> 1
                         [] OTHER -> release_caps
    /\ UNCHANGED <<lineVars, mailVars, terminal_num, windows>>

\* Mutant: the newline has no place left after a full line.
Accepts_Full(c) == c # NUL /\ buf_index[terminal_num] < CHARACTER_BUFFER_SIZE - 1

\* Whether a character goes into the line, l.197-199.
Accepts(c) == c # NUL /\ buf_index[terminal_num] < CHARACTER_BUFFER_SIZE - 2

\* Ctrl+L, by the character and not by the key.
ClearsScreen(k) == ctrl_flag = 1 /\ k = "l"

\* Every other scancode.  Of terminal_switch only terminal_num is state here.
defaultKeyPressed(k) ==
    /\ IF alt_flag = 1 /\ k \in FunctionKeys
       THEN /\ terminal_num' = FunctionNumber(k)
            /\ UNCHANGED <<lineVars, windows>>
       ELSE IF k \in TableKeys /\ ClearsScreen(k)
       THEN /\ buf_index' = [buf_index EXCEPT ![terminal_num] = -1]
            /\ UNCHANGED <<char_buf, windows, terminal_num>>
       ELSE IF k \in TableKeys /\ Accepts(scancodeTable(Row, k))
       THEN /\ buf_index' = [buf_index EXCEPT ![terminal_num] = @ + 1]
            /\ Put(scancodeTable(Row, k))
            /\ UNCHANGED terminal_num
       ELSE UNCHANGED <<lineVars, windows, terminal_num>>
    /\ UNCHANGED <<modVars, mailVars>>

keyboard_output_dealer(k) ==
    CASE k = "ENTER" -> press_enter
      [] k = "BACKSPACE" -> press_backspace
      [] k \in {"SHIFT", "SHIFT_UP", "CTRL", "CTRL_UP", "ALT", "ALT_UP",
                "CAPSLOCK", "CAPSLOCK_UP"} -> modifier_key(k)
      [] OTHER -> defaultKeyPressed(k)

keyboard_handler(k) ==
    /\ keyboard_output_dealer(k)
    /\ UNCHANGED readVars

-----------------------------------------------------------------------------
(* terminal_read by the process of terminal t *)

At(t, pc) == reader[t].pc = pc

Goto(t, pc, buf) == reader' = [reader EXCEPT ![t] = [pc |-> pc, buf |-> buf]]

\* Mutant: l.35 comes before l.34.
read_clear_flag_After(t) ==
    /\ At(t, "idle")
    /\ command_buf' = [command_buf EXCEPT ![t][0] = NUL]
    /\ Goto(t, "cleared", <<>>)
    /\ UNCHANGED <<t_enter_flag, got>>

\* l.34
read_clear_flag(t) ==
    /\ At(t, "idle")
    /\ t_enter_flag' = [t_enter_flag EXCEPT ![t] = 0]
    /\ Goto(t, "cleared", <<>>)
    /\ UNCHANGED <<command_buf, got>>

\* Mutant: l.35 is missing.
read_clear_mailbox_Never(t) ==
    /\ At(t, "cleared")
    /\ Goto(t, "wait", <<>>)
    /\ UNCHANGED <<mailVars, got>>

\* l.35
read_clear_mailbox(t) ==
    /\ At(t, "cleared")
    /\ command_buf' = [command_buf EXCEPT ![t][0] = NUL]
    /\ Goto(t, "wait", <<>>)
    /\ UNCHANGED <<t_enter_flag, got>>

\* l.37, the exit of the loop
read_wakes(t) ==
    /\ At(t, "wait")
    /\ t_enter_flag[t] = 1
    /\ Goto(t, "copy", <<>>)
    /\ UNCHANGED <<mailVars, got>>

\* Mutant: the newline is looked for one place too late.
read_copies_Past(t) ==
    LET i == Len(reader[t].buf)
    IN  /\ At(t, "copy")
        /\ IF i \notin Places
           THEN Goto(t, "overrun", <<>>) /\ UNCHANGED got
           ELSE IF i > 0 /\ command_buf[t][i - 1] = NL
           THEN Goto(t, "idle", <<>>) /\ got' = [got EXCEPT ![t] = reader[t].buf]
           ELSE Goto(t, "copy", Append(reader[t].buf, command_buf[t][i])) /\ UNCHANGED got
        /\ UNCHANGED mailVars

\* l.39-48, one round of the loop.  Without a newline in the mailbox it runs
\* on past the array, whatever nbytes is.
read_copies(t) ==
    LET i == Len(reader[t].buf)
    IN  /\ At(t, "copy")
        /\ IF i \notin Places
           THEN Goto(t, "overrun", <<>>) /\ UNCHANGED got
           ELSE IF command_buf[t][i] = NL
           THEN Goto(t, "idle", <<>>) /\ got' = [got EXCEPT ![t] = reader[t].buf]
           ELSE Goto(t, "copy", Append(reader[t].buf, command_buf[t][i])) /\ UNCHANGED got
        /\ UNCHANGED mailVars

terminal_read(t) ==
    /\ \/ read_clear_flag(t)
       \/ read_clear_mailbox(t)
       \/ read_wakes(t)
       \/ read_copies(t)
    /\ UNCHANGED <<modVars, lineVars, terminal_num, windows>>

Next ==
    \/ \E k \in Keys : keyboard_handler(k)
    \/ \E t \in Terminals : terminal_read(t)

Spec == Init /\ [][Next]_vars

-----------------------------------------------------------------------------
(* Properties *)

TypeOK ==
    /\ shift_flag \in 0 .. 1 /\ ctrl_flag \in 0 .. 1 /\ alt_flag \in 0 .. 1
    /\ capslock_flag \in 0 .. 1 /\ release_caps \in 0 .. 1
    /\ buf_index \in [Terminals -> -1 .. CHARACTER_BUFFER_SIZE - 2]
    /\ char_buf \in [Places -> Characters]
    /\ command_buf \in [Terminals -> [Places -> Characters]]
    /\ t_enter_flag \in [Terminals -> 0 .. 1]
    /\ terminal_num \in Terminals
    /\ reader \in [Terminals -> [pc : {"idle", "cleared", "wait", "copy", "overrun"},
                                buf : Seq(Characters)]]
    /\ got \in [Terminals -> Seq(Characters) \cup {NoLine}]
    /\ windows \subseteq {"mixed", "cleared"}

\* While terminal_read copies a line no key changes the mailbox under it:
\* Enter leaves a mailbox alone that terminal_read has not emptied
\* (keyboard.c:90).
MailboxStable ==
    [][\A t \in Terminals :
          At(t, "copy") /\ "cleared" \notin windows =>
              command_buf'[t] = command_buf[t]]_vars

\* The window between l.34 and l.35 of terminal_read can only be hit by the
\* first read of a terminal: after that the mailbox keeps its last line until
\* l.35, and Enter drops what is typed.
WindowOnlyOnFirstRead ==
    [][\A t \in Terminals :
          "cleared" \in windows' \ windows =>
              \E u \in Terminals : At(u, "cleared") /\ got[u] = NoLine]_vars

\* The buffers and flags keep their bounds, whatever is typed and read at once,
\* and terminal_read, which copies up to a newline, stops inside the mailbox.
NoOverrun ==
    /\ TypeOK
    /\ "cleared" \notin windows => \A t \in Terminals : ~At(t, "overrun")
=============================================================================
