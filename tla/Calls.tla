------------------------------- MODULE Calls -------------------------------
(***************************************************************************)
(* The harness of the sequential routines: one call and what it gave.  A   *)
(* call is a record with the routine and its arguments.                    *)
(***************************************************************************)
VARIABLES call, result

None == [op |-> "none"]

Does(c, r) == call' = c /\ result' = r
=============================================================================
