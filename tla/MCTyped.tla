------------------------------ MODULE MCTyped ------------------------------
(***************************************************************************)
(* Terminal with what was typed kept beside what the code stores.          *)
(***************************************************************************)
EXTENDS Terminal

VARIABLES typed,    \* the unfinished line of each terminal
          due       \* the first line finished since the read began

\* A read has begun when l.35 of terminal_read is done.
Begun(t) == At(t, "wait") \/ At(t, "copy")

Typed(k) ==
    LET s == typed[terminal_num]
    IN  CASE k = "ENTER" -> <<>>
          [] k \in TableKeys /\ Accepts(scancodeTable(Row, k)) ->
                 Append(s, scancodeTable(Row, k))
          [] OTHER -> s

TypedInit ==
    /\ Init
    /\ typed = [t \in Terminals |-> <<>>]
    /\ due = [t \in Terminals |-> NoLine]

TypedNext ==
    \/ \E k \in Keys :
         /\ keyboard_handler(k)
         /\ typed' = [typed EXCEPT ![terminal_num] = Typed(k)]
         /\ due' = IF k = "ENTER" /\ Begun(terminal_num) /\ due[terminal_num] = NoLine
                   THEN [due EXCEPT ![terminal_num] = typed[terminal_num]] ELSE due
    \/ \E t \in Terminals :
         /\ terminal_read(t)
         /\ typed' = typed
         /\ due' = IF At(t, "idle") THEN [due EXCEPT ![t] = NoLine] ELSE due

\* Only the window "mixed".
TypedSpec ==
    TypedInit /\ [][TypedNext /\ windows' \subseteq {"mixed"}]_<<vars, typed, due>>

\* "read the input from the keyboard and store in terminal buffer"
\* (terminal.c:22): a read that has returned gave the line that was typed on
\* its terminal.
ReadReturnsInput ==
    \A t \in Terminals : At(t, "idle") /\ got[t] # NoLine => got[t] = due[t]
=============================================================================
