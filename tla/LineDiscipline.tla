--------------------------- MODULE LineDiscipline ---------------------------
(***************************************************************************)
(* What terminal input promises: every terminal edits a line of its own, a *)
(* read that waits on a terminal is given the first line finished there    *)
(* after it began, whole, and nothing else moves a line or a mailbox.      *)
(* Lines finished while nobody waits are dropped.  Terminal (keyboard.c,   *)
(* terminal.c) is checked to implement this as long as neither of its two  *)
(* unprotected windows is hit.                                             *)
(***************************************************************************)
EXTENDS Integers, Sequences

CONSTANTS Displays,     \* the terminals
          Letters,      \* what can be typed
          LineMax       \* the length of a full line

CONSTANT NoLine    \* in place of a line

VARIABLES visible,      \* the terminal on the screen
          line,         \* the unfinished line of each terminal
          waiting,      \* whether a read waits on the terminal
          mail,         \* the line handed to that read, or NoLine
          got           \* what the last read of the terminal returned

lineVars == <<visible, line, waiting, mail, got>>

Init ==
    /\ visible \in Displays
    /\ line = [t \in Displays |-> <<>>]
    /\ waiting = [t \in Displays |-> FALSE]
    /\ mail = [t \in Displays |-> NoLine]
    /\ got = [t \in Displays |-> NoLine]

Edit(newLine) ==
    /\ line' = [line EXCEPT ![visible] = newLine]
    /\ UNCHANGED <<visible, waiting, mail, got>>

Type(c) == Len(line[visible]) < LineMax /\ Edit(Append(line[visible], c))

Erase ==
    /\ line[visible] # <<>>
    /\ Edit(SubSeq(line[visible], 1, Len(line[visible]) - 1))

Clear == Edit(<<>>)

Enter ==
    /\ line' = [line EXCEPT ![visible] = <<>>]
    /\ mail' = IF waiting[visible] /\ mail[visible] = NoLine
               THEN [mail EXCEPT ![visible] = line[visible]]
               ELSE mail
    /\ UNCHANGED <<visible, waiting, got>>

Show(t) == visible' = t /\ UNCHANGED <<line, waiting, mail, got>>

BeginRead(t) ==
    /\ ~waiting[t]
    /\ waiting' = [waiting EXCEPT ![t] = TRUE]
    /\ UNCHANGED <<visible, line, mail, got>>

EndRead(t) ==
    /\ waiting[t] /\ mail[t] # NoLine
    /\ waiting' = [waiting EXCEPT ![t] = FALSE]
    /\ mail' = [mail EXCEPT ![t] = NoLine]
    /\ got' = [got EXCEPT ![t] = mail[t]]
    /\ UNCHANGED <<visible, line>>

Next ==
    \/ \E c \in Letters : Type(c)
    \/ Erase \/ Clear \/ Enter
    \/ \E t \in Displays : Show(t) \/ BeginRead(t) \/ EndRead(t)

Spec == Init /\ [][Next]_lineVars
=============================================================================
