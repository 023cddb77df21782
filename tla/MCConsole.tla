----------------------------- MODULE MCConsole -----------------------------
EXTENDS Console

MCTexts == {<<"NL">>, <<Glyph>>}

\* One user switches terminals, another clears the screen, a third switches
\* while programs draw through vidmap.
MCUsers ==
    {[keys |-> {"l", "ENTER", "BACKSPACE", "ALT", "F1", "F2"}, draws |-> FALSE],
     [keys |-> {"l", "ENTER", "BACKSPACE", "CTRL", "CTRL_UP"}, draws |-> FALSE],
     [keys |-> {"l", "ALT", "F1", "F2"}, draws |-> TRUE]}

CONSTANT Users

ASSUME UsersAssumption == \A u \in Users : u.keys \subseteq Keys

VARIABLE user

mcVars == <<consoleVars, user>>

UserInit == ConsoleInit /\ user \in Users

\* Behaviours that hit no window, with ticks that go on; not every one of them
\* falls into the few instructions in which a first shell has halted.
UserSpec ==
    /\ UserInit
    /\ [][/\ ConsoleNext(user.keys) /\ user' = user
          /\ user.draws \/ vid' = vid
          /\ windows' = {} /\ lineWindows' = {}]_mcVars
    /\ WF_mcVars(tick /\ user' = user /\ (user.draws \/ vid' = vid))
=============================================================================
