----------------------------- MODULE MCTerminal -----------------------------
EXTENDS Terminal

(* Terminal implements LineDiscipline *)

Line(t) == [i \in 1 .. buf_index[t] + 1 |-> char_buf[i - 1]]

\* The line in a mailbox, up to its newline.
LineIn(mailbox) ==
    LET ends == {i \in Places : mailbox[i] = NL}
        n == IF ends = {} THEN CHARACTER_BUFFER_SIZE
             ELSE CHOOSE i \in ends : \A j \in ends : i <= j
    IN  [i \in 1 .. n |-> mailbox[i - 1]]

Mail(t) == LineIn(command_buf[t])

\* A read has begun when l.35 of terminal_read is done.
Begun(t) == At(t, "wait") \/ At(t, "copy")

Discipline == INSTANCE LineDiscipline WITH
    Displays <- Terminals,
    LineMax <- CHARACTER_BUFFER_SIZE - 1,
    visible <- terminal_num,
    line <- [t \in Terminals |-> Line(t)],
    waiting <- [t \in Terminals |-> Begun(t)],
    mail <- [t \in Terminals |->
                IF Begun(t) /\ t_enter_flag[t] = 1 THEN Mail(t) ELSE NoLine]

\* The keyboard handler and terminal_read together edit one line per terminal
\* and give a waiting read the next line finished there, whole and unchanged:
\* until one of the two windows is hit, every step is one LineDiscipline allows.
ImplementsLineDiscipline ==
    /\ Discipline!Init
    /\ [][windows' = {} => [Discipline!Next]_(Discipline!lineVars)]_vars

-----------------------------------------------------------------------------
(* Users, each with the keys they press: one switches terminals, another     *)
(* stays and holds the modifiers.                                            *)

CONSTANT Users

MCUsers ==
    {{"a", "ENTER", "BACKSPACE", "ALT", "F1", "F2"},
     {"l", "esc", "ENTER", "BACKSPACE", "SHIFT", "SHIFT_UP", "CTRL", "CTRL_UP",
      "CAPSLOCK", "CAPSLOCK_UP", "other"}}

ASSUME UsersAssumption == UNION Users \subseteq Keys

VARIABLE user

mcVars == <<vars, user>>

UserInit == Init /\ user \in Users

UserNext ==
    /\ \/ \E k \in user : keyboard_handler(k)
       \/ \E t \in Terminals : terminal_read(t)
    /\ UNCHANGED user

\* The program of every terminal goes on, and a user who keeps coming back to
\* a terminal presses Enter there.
FairSpec ==
    /\ UserInit
    /\ [][UserNext]_mcVars
    /\ \A t \in Terminals :
         /\ WF_mcVars(terminal_read(t) /\ UNCHANGED user)
         /\ SF_mcVars(terminal_num = t /\ keyboard_handler("ENTER") /\ UNCHANGED user)

\* Every read of a terminal the user keeps coming back to returns a line,
\* however the keys of the terminals mix, unless a first read is hit in its
\* window (terminal_read, PRESS_ENTER).
EveryReadReturns ==
    \A t \in Terminals :
        []("cleared" \notin windows) /\ []<>(terminal_num = t) =>
            (At(t, "cleared") ~> At(t, "idle"))
=============================================================================
