------------------------------ MODULE Process ------------------------------
(***************************************************************************)
(* Process management of limeOS: the system calls execute and halt         *)
(* (system_call.c), the round-robin task_switch run by every timer tick    *)
(* (sched.c, pit.c), and the assignment the keyboard's Alt+Fn makes to     *)
(* terminal_num (terminal.c), which all of them read.                      *)
(*                                                                         *)
(* There is one processor.  What it is executing is the context `run': the *)
(* process on whose kernel stack (or in whose program) it is, and where.   *)
(* An interrupt can arrive wherever the code runs with interrupts enabled, *)
(* and handlers are split there.  Three stretches are kept whole, see the  *)
(* README: halt_256 up to l.133 and from l.144, and execute from l.327 to  *)
(* its iret.  The points at which an interrupt is taken:                   *)
(*   "idle"    the hlt loop that ends entry() in kernel.c                  *)
(*   "start"   task_switch, between its sti() and the cli() of execute     *)
(*   "user"    a program, or a system call that has changed nothing yet    *)
(*   "freed"   halt_256 after pid_flags[current_pid] = 0                   *)
(*   "moved"   halt_256 after current_pid = pcb_halt->parent_id            *)
(*   "handed"  halt_256 after execute_pid[get_tty()] = current_pid         *)
(*   "lost"    a stack pointer that designates no suspended context was    *)
(*             loaded; what the machine does next is undefined             *)
(***************************************************************************)
EXTENDS Integers

CONSTANTS MAX_PID,          \* size of pid_flags (system_call.h:22), 6
          TERMINAL_COUNT,   \* number of terminals (sched.h:9), 3
          Status            \* the exit values programs use: 0..255, and 256

ASSUME ProcessAssumption ==
    /\ TERMINAL_COUNT \in Nat \ {0}
    /\ MAX_PID \in Nat
    /\ MAX_PID >= TERMINAL_COUNT
    /\ Status \subseteq Nat
    /\ 256 \in Status

Pids == 0 .. MAX_PID - 1
Terminals == 0 .. TERMINAL_COUNT - 1

\* The -1 of execute_pid; also the identity of the boot stack.
NoPid == -1

FREE == 0
IN_USE == 1

PCs == {"idle", "start", "user", "freed", "moved", "handed", "lost"}

\* A register context.  status is halt_256's argument, on the stack with it.
Context == [pid : Pids \cup {NoPid}, pc : PCs, status : Status \cup {0}]

\* sched_esp / sched_ebp hold a context only between the tick that stores it
\* and the tick that loads it; the rest of the time they point into a stack
\* that has been used for something else.
NoContext == [pid |-> NoPid, pc |-> "lost", status |-> 0]

\* What the code cannot see: the ways in which its unprotected windows were
\* hit so far.
\*   "tty"      execute ran while terminal_num was not the caller's terminal
\*   "handover" a tick arrived between the two assignments of halt_256 that
\*              make the parent current (l.138) and foreground (l.140)
\*   "reuse"    a pid was given out while its halting owner was suspended on
\*              the kernel stack that goes with it
\*   "basepid"  a child program got the pid of a terminal's first shell
HazardKinds == {"tty", "handover", "reuse", "basepid"}

VARIABLES
    pid_flags,              \* system_call.c:4
    parent_id,              \* pcb_t fields, one function per field
    tty,
    return_value,
    parent_esp,             \* the stack the caller of execute was on
    parent_esp0,
    sched_ctx,              \* sched_esp, sched_ebp and what they point at
    sched_esp0,
    execute_pid,            \* lib.c:9
    current_pid,            \* lib.c:18
    terminal_num,           \* lib.c:15
    pit_terminal_num,       \* sched.c:4
    terminals_initialized,  \* sched.c:3
    prog_page,              \* PDT entry PROGRAM_PDT_INDEX, by pid
    esp0,                   \* tss.esp0, by the pid whose stack it tops
    run,                    \* the context the processor executes
    returned,               \* the last value execute returned, and to what
    hazards                 \* history variable, subset of HazardKinds

pcbVars == <<parent_id, tty, return_value, parent_esp, parent_esp0>>
schedVars == <<sched_ctx, sched_esp0>>
tickVars == <<pit_terminal_num, terminals_initialized>>
vars == <<pid_flags, pcbVars, schedVars, execute_pid, current_pid,
          terminal_num, tickVars, prog_page, esp0, run, returned, hazards>>

\* Before the first tick: entry() has enabled interrupts and halts.
Init ==
    /\ pid_flags = [p \in Pids |-> FREE]
    /\ parent_id = [p \in Pids |-> 0]
    /\ tty = [p \in Pids |-> 0]
    /\ return_value = [p \in Pids |-> 0]
    /\ parent_esp = [p \in Pids |-> NoPid]
    /\ parent_esp0 = [p \in Pids |-> NoPid]
    /\ sched_ctx = [p \in Pids |-> NoContext]
    /\ sched_esp0 = [p \in Pids |-> NoPid]
    /\ execute_pid = [t \in Terminals |-> NoPid]
    /\ current_pid = 0
    /\ terminal_num = 0
    /\ pit_terminal_num = 0
    /\ terminals_initialized = FALSE
    /\ prog_page = NoPid
    /\ esp0 = NoPid
    /\ run = [pid |-> NoPid, pc |-> "idle", status |-> 0]
    /\ returned = [why |-> "none", value |-> 0, status |-> 0]
    /\ hazards = {}

-----------------------------------------------------------------------------
(* execute *)

\* Mutant: the search stops one entry early and takes the last one unseen.
FirstFree_LastUnseen(p) ==
    /\ \A q \in Pids : q < p => pid_flags[q] = IN_USE
    /\ p < MAX_PID - 1 => pid_flags[p] = FREE

\* The search of execute for a pid, l.256-260: the first entry that is 0.
FirstFree(p) ==
    /\ pid_flags[p] = FREE
    /\ \A q \in Pids : q < p => pid_flags[q] = IN_USE

\* Mutant: setup_PCB is called after current_pid = new_pid.
setup_PCB_Late(new) ==
    /\ parent_id' = [parent_id EXCEPT ![new] = new]
    /\ return_value' = [return_value EXCEPT ![new] = 0]
    /\ tty' = [tty EXCEPT ![new] = terminal_num]

\* setup_PCB for the new pid.  The sched fields keep what they held.
setup_PCB(new) ==
    /\ parent_id' = [parent_id EXCEPT ![new] = current_pid]
    /\ return_value' = [return_value EXCEPT ![new] = 0]
    /\ tty' = [tty EXCEPT ![new] = terminal_num]

\* Mutant: l.300 is missing.
EnterProgram_StaleCurrent(new) ==
    /\ prog_page' = new
    /\ UNCHANGED current_pid
    /\ parent_esp' = [parent_esp EXCEPT ![new] = run.pid]
    /\ parent_esp0' = [parent_esp0 EXCEPT ![new] = esp0]
    /\ esp0' = new
    /\ run' = [pid |-> new, pc |-> "user", status |-> 0]

\* l.271 and l.300-314: the caller's stack and esp0 are remembered, then page,
\* current_pid and esp0 become the new program's; the iret enters it.
EnterProgram(new) ==
    /\ prog_page' = new
    /\ current_pid' = new
    /\ parent_esp' = [parent_esp EXCEPT ![new] = run.pid]
    /\ parent_esp0' = [parent_esp0 EXCEPT ![new] = esp0]
    /\ esp0' = new
    /\ run' = [pid |-> new, pc |-> "user", status |-> 0]

\* The new program's kernel stack starts from its top, over any context that
\* was suspended on it.
DropStack(new) ==
    sched_ctx' = [p \in Pids |-> IF p = new \/ sched_ctx[p].pid = new
                                 THEN NoContext
                                 ELSE sched_ctx[p]]

\* The windows a successful execute falls into, when it runs for terminal t.
ExecuteHazards(new, t) ==
    {h \in HazardKinds :
        \/ h = "tty" /\ terminal_num # t
        \/ h = "basepid" /\ new \in Terminals /\ new # current_pid
        \/ h = "reuse" /\ run.pid # new
                       /\ \E p \in Pids : sched_ctx[p] # NoContext
                                          /\ sched_ctx[p].pid = new}

\* execute from the pid search to the iret, between cli() and sti(); t is the
\* terminal the caller belongs to, which the code does not consult.
Launch(new, t) ==
    /\ FirstFree(new)
    /\ pid_flags' = [pid_flags EXCEPT ![new] = IN_USE]
    /\ setup_PCB(new)
    /\ EnterProgram(new)
    /\ execute_pid' = [execute_pid EXCEPT ![terminal_num] = new]
    /\ DropStack(new)
    /\ hazards' = hazards \cup ExecuteHazards(new, t)
    /\ UNCHANGED <<sched_esp0, terminal_num, tickVars, returned>>

\* A program calls execute and a pid is free.
execute ==
    /\ run.pc = "user"
    /\ \E new \in Pids : Launch(new, tty[current_pid])

\* The command names no executable: execute returns -1 (l.189-250).
execute_not_found ==
    /\ run.pc = "user"
    /\ returned' = [why |-> "refused", value |-> -1, status |-> 0]
    /\ UNCHANGED <<pid_flags, pcbVars, schedVars, execute_pid, current_pid,
                   terminal_num, tickVars, prog_page, esp0, run, hazards>>

\* All pids are taken: execute says so on the screen and returns 0.
execute_full ==
    /\ run.pc = "user"
    /\ \A p \in Pids : pid_flags[p] = IN_USE
    /\ returned' = [why |-> "refused", value |-> 0, status |-> 0]
    /\ UNCHANGED <<pid_flags, pcbVars, schedVars, execute_pid, current_pid,
                   terminal_num, tickVars, prog_page, esp0, run, hazards>>

-----------------------------------------------------------------------------
(* halt *)

\* Mutant: the status is kept in the halting process's own PCB.
RecordStatus_Own(s) == return_value' = [return_value EXCEPT ![current_pid] = s]

\* l.125: the status goes into the parent's PCB.
RecordStatus(s) ==
    return_value' = [return_value EXCEPT ![parent_id[current_pid]] = s]

\* halt_256 up to and including pid_flags[current_pid] = 0, l.122-133.  A tick
\* between these statements resumes the same process with the same
\* current_pid, and the file table that close() clears is private to it.
halt_free(s) ==
    /\ run.pc = "user"
    /\ RecordStatus(s)
    /\ pid_flags' = [pid_flags EXCEPT ![current_pid] = FREE]
    /\ run' = [run EXCEPT !.pc = "freed", !.status = s]
    /\ UNCHANGED <<parent_id, tty, parent_esp, parent_esp0, schedVars,
                   execute_pid, current_pid, tickVars, prog_page, esp0,
                   returned, hazards>>

\* The halt system call, or halt_256(256) from an exception handler.
halt == \E s \in Status : halt_free(s) /\ UNCHANGED terminal_num

\* A page fault inside write(), on the caller's buffer: the handler never
\* comes back, so l.420 does not put terminal_num back.
write_fault == halt_free(256) /\ terminal_num' = tty[current_pid]

\* l.135-137: the first shell of a terminal replaces itself.  Its own pid is
\* free, so the search succeeds.
halt_reexec ==
    /\ run.pc = "freed"
    /\ current_pid = parent_id[run.pid]
    /\ \E new \in Pids : Launch(new, tty[current_pid])

\* l.138
halt_move ==
    /\ run.pc = "freed"
    /\ current_pid # parent_id[run.pid]
    /\ current_pid' = parent_id[run.pid]
    /\ run' = [run EXCEPT !.pc = "moved"]
    /\ UNCHANGED <<pid_flags, pcbVars, schedVars, execute_pid, terminal_num,
                   tickVars, prog_page, esp0, returned, hazards>>

\* Mutant: the terminal on the screen instead of get_tty().
HandForeground_Visible ==
    execute_pid' = [execute_pid EXCEPT ![terminal_num] = current_pid]

\* Mutant: l.140 is missing.
HandForeground_Missing == UNCHANGED execute_pid

\* l.140, with the get_tty() of the process that is now current
HandForeground ==
    execute_pid' = [execute_pid EXCEPT ![tty[current_pid]] = current_pid]

halt_hand ==
    /\ run.pc = "moved"
    /\ HandForeground
    /\ run' = [run EXCEPT !.pc = "handed"]
    /\ UNCHANGED <<pid_flags, pcbVars, schedVars, current_pid, terminal_num,
                   tickVars, prog_page, esp0, returned, hazards>>

\* Mutant: the tss is not restored in halt (BugLog.txt, CP3 BUG2).
RestoreParent_NoTss == prog_page' = current_pid /\ UNCHANGED esp0

\* l.144 and l.157-158
RestoreParent ==
    /\ prog_page' = current_pid
    /\ esp0' = parent_esp0[run.pid]

\* l.144-167 and execute_return, l.341-344.  A tick in between stores and
\* reloads page, esp0 and stack for the parent, so it is as good as one before.
halt_return ==
    /\ run.pc = "handed"
    /\ RestoreParent
    /\ run' = [pid |-> parent_esp[run.pid], pc |-> "user", status |-> 0]
    /\ returned' = [why |-> "halted", value |-> return_value[current_pid],
                    status |-> run.status]
    /\ UNCHANGED <<pid_flags, pcbVars, schedVars, execute_pid, current_pid,
                   terminal_num, tickVars, hazards>>

-----------------------------------------------------------------------------
(* the timer tick and the keyboard *)

\* task_switch, l.18-28: the interrupted context, under the current pid.
StoreContext ==
    /\ sched_esp0' = [sched_esp0 EXCEPT ![current_pid] = esp0]
    /\ sched_ctx' = [sched_ctx EXCEPT ![current_pid] = run]

TickHazards == {h \in HazardKinds : h = "handover" /\ run.pc = "moved"}

\* task_switch, l.31-39: the first base pid that is free gets a shell.
tick_start ==
    /\ run.pc # "lost"
    /\ StoreContext
    /\ \E i \in Terminals :
          /\ FirstFree(i)
          /\ current_pid' = i
          /\ terminal_num' = i
          /\ terminals_initialized' =
                (terminals_initialized \/ i = TERMINAL_COUNT - 1)
    /\ run' = [run EXCEPT !.pc = "start"]
    /\ hazards' = hazards \cup TickHazards
    /\ UNCHANGED <<pid_flags, pcbVars, execute_pid, pit_terminal_num,
                   prog_page, esp0, returned>>

\* task_switch, l.41: the shell is executed; execute does not come back.
start_shell ==
    /\ run.pc = "start"
    /\ \E new \in Pids : Launch(new, current_pid)

\* The context of pid n is loaded, if there is one.
LoadContext(n) ==
    IF n \in Pids /\ (n = current_pid \/ sched_ctx[n] # NoContext)
    THEN /\ run' = IF n = current_pid THEN run ELSE sched_ctx[n]
         /\ esp0' = IF n = current_pid THEN esp0 ELSE sched_esp0[n]
         /\ sched_esp0' = [sched_esp0 EXCEPT ![current_pid] = esp0]
         /\ sched_ctx' = [sched_ctx EXCEPT ![current_pid] = run,
                                           ![n] = NoContext]
    ELSE /\ run' = [run EXCEPT !.pc = "lost"]
         /\ UNCHANGED <<esp0, schedVars>>

\* Mutant: the counter is not advanced.
NextTerminal_Stuck == pit_terminal_num

\* l.51
NextTerminal == (pit_terminal_num + 1) % TERMINAL_COUNT

\* task_switch, l.44-89: on to the foreground process of the next terminal.
tick_switch ==
    /\ run.pc # "lost"
    /\ \A i \in Terminals : pid_flags[i] = IN_USE
    /\ terminal_num' = IF terminals_initialized THEN 0 ELSE terminal_num
    /\ terminals_initialized' = FALSE
    /\ pit_terminal_num' = NextTerminal
    /\ LET next == execute_pid[NextTerminal]
       IN /\ current_pid' = next
          /\ prog_page' = next
          /\ LoadContext(next)
    /\ hazards' = hazards \cup TickHazards
    /\ UNCHANGED <<pid_flags, pcbVars, execute_pid, returned>>

\* PIT_handler
PIT_handler == tick_start \/ tick_switch

\* Mutant: F1 is taken for terminal 1.
terminal_switch_FromOne(new_tty) ==
    /\ run.pc # "lost"
    /\ terminal_num' = new_tty + 1
    /\ UNCHANGED <<pid_flags, pcbVars, schedVars, execute_pid, current_pid,
                   tickVars, prog_page, esp0, run, returned, hazards>>

\* Alt+Fn: terminal_switch, here only what process management reads.
terminal_switch(new_tty) ==
    /\ run.pc # "lost"
    /\ terminal_num' = new_tty
    /\ UNCHANGED <<pid_flags, pcbVars, schedVars, execute_pid, current_pid,
                   tickVars, prog_page, esp0, run, returned, hazards>>

Next ==
    \/ execute \/ execute_not_found \/ execute_full
    \/ halt \/ write_fault
    \/ halt_reexec \/ halt_move \/ halt_hand \/ halt_return
    \/ start_shell
    \/ PIT_handler
    \/ \E t \in Terminals : terminal_switch(t)

Spec == Init /\ [][Next]_vars

\* The rest of halt_256 for process p.
HaltStep(p) ==
    /\ run.pid = p
    /\ halt_reexec \/ halt_move \/ halt_hand \/ halt_return

\* The timer keeps ticking; a slice (DEFAULT_FREQ/DIVIDER timer counts) is long
\* enough for the context it resumes to get further, whichever it is; and not
\* every single tick falls into the few instructions of halt_256: some find a
\* program running.
Fairness ==
    /\ WF_vars(PIT_handler)
    /\ SF_vars(PIT_handler /\ run.pc = "user")
    /\ WF_vars(start_shell)
    /\ \A p \in Pids : SF_vars(HaltStep(p))

FairSpec == Spec /\ Fairness

-----------------------------------------------------------------------------
(* Properties *)

Live(p) == pid_flags[p] = IN_USE

\* Only the first shell of a terminal is its own parent (setup_PCB runs with
\* current_pid already equal to the new pid).
IsChild(p, q) == Live(p) /\ p # q /\ parent_id[p] = q

\* Every variable keeps its type; current_pid designates a PCB as long as the
\* machine runs code of limeOS at all.
TypeOK ==
    /\ pid_flags \in [Pids -> {FREE, IN_USE}]
    /\ parent_id \in [Pids -> Pids]
    /\ tty \in [Pids -> Terminals]
    /\ return_value \in [Pids -> Status \cup {0}]
    /\ parent_esp \in [Pids -> Pids \cup {NoPid}]
    /\ parent_esp0 \in [Pids -> Pids \cup {NoPid}]
    /\ sched_ctx \in [Pids -> Context]
    /\ sched_esp0 \in [Pids -> Pids \cup {NoPid}]
    /\ execute_pid \in [Terminals -> Pids \cup {NoPid}]
    /\ current_pid \in Pids \cup {NoPid}
    /\ run.pc # "lost" => current_pid \in Pids
    /\ terminal_num \in Terminals
    /\ pit_terminal_num \in Terminals
    /\ terminals_initialized \in BOOLEAN
    /\ prog_page \in Pids \cup {NoPid}
    /\ esp0 \in Pids \cup {NoPid}
    /\ run \in Context
    /\ returned \in [why : {"none", "refused", "halted"},
                     value : Status \cup {0, -1}, status : Status \cup {0}]
    /\ hazards \subseteq HazardKinds

\* Every system call looks up its PCB through current_pid.  Whatever races
\* have happened, a context that is in a program, or in halt_256 before the
\* parent is made current, finds there the PCB of its own process.
CallerIsCurrent == run.pc \in {"user", "freed"} => run.pid = current_pid

\* As long as none of the four windows was hit, task_switch never loads a
\* stack pointer that designates no suspended context.
NeverLost == run.pc = "lost" => hazards # {}

\* A program runs in its own page, and interrupts its own kernel stack: the
\* page directory and tss.esp0 follow every path through execute, halt and
\* task_switch.  (BugLog.txt has tss.esp0 wrong after halt as a bug of CP3.)
OwnPageAndStack ==
    hazards = {} /\ run.pc = "user" => prog_page = run.pid /\ esp0 = run.pid

\* The process task_switch will run for terminal t is one of terminal t, and
\* nobody it waits for in execute is alive.
ForegroundIsLeaf ==
    hazards = {} =>
        \A t \in Terminals : execute_pid[t] # NoPid =>
            /\ tty[execute_pid[t]] = t
            /\ \A p \in Pids : ~IsChild(p, execute_pid[t])

\* A live process has a live parent on the same terminal, and no parent waits
\* for two children; the first shell of terminal t has pid t.
OneChainPerTerminal ==
    hazards = {} =>
        \A p \in Pids : Live(p) =>
            /\ parent_id[p] = p <=> p \in Terminals
            /\ p \in Terminals => tty[p] = p
            /\ p \notin Terminals => Live(parent_id[p])
            /\ tty[parent_id[p]] = tty[p]
            /\ \A q \in Pids : IsChild(p, parent_id[p]) /\ IsChild(q, parent_id[p])
                                  => q = p

\* What execute returns to the parent is the status its own child halted with,
\* although it travels through the parent's PCB with interrupts enabled.
ReturnsChildStatus ==
    hazards = {} /\ returned.why = "halted" => returned.value = returned.status

\* The terminal and the parent of a process are settled by setup_PCB and stay
\* until its pid is freed.
IdentityKept ==
    [][\A p \in Pids : Live(p) /\ Live(p)' =>
           tty'[p] = tty[p] /\ parent_id'[p] = parent_id[p]]_vars

\* Round robin: every terminal's foreground process gets the processor again
\* and again, from the boot on, unless a window is hit.
EveryTerminalRuns ==
    \A t \in Terminals :
        []<>(hazards # {} \/ (run.pc # "start" /\ current_pid = execute_pid[t]))

\* A halting process gives way: its parent returns from execute, or the shell
\* of its terminal is executed again.
HaltCompletes ==
    \A p \in Pids :
        run.pc = "freed" /\ run.pid = p
            ~> hazards # {} \/ (run.pc = "user" /\ run.pid = parent_id[p])
=============================================================================
