----------------------------- MODULE MCProcess -----------------------------
EXTENDS ProcessInv

\* Once a window was hit the invariants promise nothing more, so a behaviour
\* is followed up to and including the step that hits one.
NextToHazard == hazards = {} /\ Next

SpecToHazard == Init /\ [][NextToHazard]_vars

FairSpecToHazard == SpecToHazard /\ Fairness

\* All behaviours in which no window is hit, and those with a hit in which
\* only the first MaxRacing pids are ever used (parent_esp remembers it).
MaxRacing == 3

Crowded == \E p \in Pids : p >= MaxRacing /\ parent_esp[p] # NoPid

NextRaces == Next /\ (hazards = {} \/ ~(Crowded \/ Crowded'))

SpecRaces == Init /\ [][NextRaces]_vars

\* Of the four windows only the one between l.138 and l.140 is hit.
NextHandover == Next /\ hazards' \subseteq {"handover"}

SpecHandover == Init /\ [][NextHandover]_vars

\* "terminates a process, returning the specified value to its parent process"
\* (system_call.c:99): when the pid the kernel takes for current belongs to a
\* process that halted, it is only halt_256 finishing, or task_switch about to
\* start a shell there; task_switch never goes back to a halted process.
TerminatedNeverCurrent ==
    current_pid \in Pids /\ ~Live(current_pid) =>
        run.pc \in {"idle", "start", "freed"}

\* "-1: If command can not be executed" (system_call.c:181): a refused execute
\* returns -1.
RefusalIsMinusOne == returned.why = "refused" => returned.value = -1
=============================================================================
