-------------------------- MODULE TerminalNumbers --------------------------
(***************************************************************************)
(* The terminals as the drivers count them (sched.h).                      *)
(***************************************************************************)
EXTENDS Integers

CONSTANT TERMINAL_COUNT     \* 3

Terminals == 0 .. TERMINAL_COUNT - 1
=============================================================================
