------------------------------- MODULE Paging -------------------------------
(***************************************************************************)
(* The page tables (paging.c) with the entries as the code writes them,    *)
(* and the translations the processor may have cached.  Two kinds of entry *)
(* change: the program page, with the process (execute, halt_256 and       *)
(* task_switch), and the user video pages, with the terminal on the screen *)
(* (terminal_switch).  Each change is followed by a reload of CR3.         *)
(* terminal_num, which says whose video page to change, also moves without *)
(* them: with the shells task_switch starts and after a fault in write.    *)
(*                                                                         *)
(* Addresses are in units of a 4 KB page.                                  *)
(***************************************************************************)
EXTENDS TerminalNumbers

CONSTANTS MAX_PID,              \* 6
          PT0_addr, PT1_addr    \* where the linker puts the two tables

PAGE_SIZE == 1024
FourMB == 1024                  \* pages

ASSUME PagingAssumption ==
    /\ MAX_PID \in Nat /\ MAX_PID >= TERMINAL_COUNT /\ TERMINAL_COUNT \in 1 .. 3
    /\ {PT0_addr, PT1_addr} \subseteq FourMB .. 2 * FourMB - 1 /\ PT0_addr # PT1_addr

Pids == 0 .. MAX_PID - 1

KERNEL_BOT_ADDR == 2 * FourMB
VID_MEM_INDEX == 184
USER_VID_INDEX == 25
PROGRAM_PDT_INDEX == 32

\* An entry is the page it points at and the bits below, a hexadecimal number.
Entry(base, bits) == [base |-> base, bits |-> bits]
None == Entry(0, 0)
Bit(e, k) == (e.bits \div 2 ^ k) % 2 = 1
Present(e) == Bit(e, 0)
User(e) == Bit(e, 2)
Big(e) == Bit(e, 7)

KERNEL_ENTRY == Entry(FourMB, 131)              \* 0x400083
VID_MEM_ENTRY == Entry(184, 279)                \* 0xB8117
T_ZERO_MASK == 23                               \* 0x17
UVM_MASK == 7
USER_VID_MEM_ENTRY == Entry(184, 7)             \* 0xB8007
PROGRAM_PROPERTIES == 151                       \* 0x97
VID_MEM_BACKUP(t) == Entry(185 + t, 7)          \* 0xB9007 and so on
KERNEL_VID_MEM_BACKUP(t) == Entry(185 + t, 3)   \* 0xB9003 and so on

VARIABLES PDT, PT0, PT1,
          tlb,              \* what is cached: a page and where it leads
          current_pid,
          terminal_num,
          mode,             \* "boot", "user", "halt" in halt_256 before its flush,
                            \* "start" in task_switch before it executes a shell
          displayed,        \* history: the terminal of the last terminal_switch
          borrowed          \* history: a switch was made when terminal_num was another

pagingVars == <<PDT, PT0, PT1, tlb, current_pid, terminal_num, mode, displayed, borrowed>>

-----------------------------------------------------------------------------

\* Mutant: the first process gets the page of the kernel.
ProgramEntry_Low(pid) == Entry(KERNEL_BOT_ADDR + FourMB * (pid - 1), PROGRAM_PROPERTIES)

\* The 4 MB page of a process.
ProgramEntry(pid) == Entry(KERNEL_BOT_ADDR + FourMB * pid, PROGRAM_PROPERTIES)

init_paging ==
    /\ PT0 = [i \in 0 .. PAGE_SIZE - 1 |->
                 CASE i = VID_MEM_INDEX -> VID_MEM_ENTRY
                   [] i \in VID_MEM_INDEX + 1 .. VID_MEM_INDEX + 3 ->
                          KERNEL_VID_MEM_BACKUP(i - VID_MEM_INDEX - 1)
                   [] OTHER -> None]
    /\ PT1 = [i \in 0 .. PAGE_SIZE - 1 |->
                 CASE i = 0 -> USER_VID_MEM_ENTRY
                   [] i \in 1 .. 2 -> VID_MEM_BACKUP(i)
                   [] OTHER -> None]
    /\ PDT = [i \in 0 .. PAGE_SIZE - 1 |->
                 CASE i = 0 -> Entry(PT0_addr, T_ZERO_MASK)
                   [] i = 1 -> KERNEL_ENTRY
                   [] i = USER_VID_INDEX -> Entry(PT1_addr, UVM_MASK)
                   [] OTHER -> None]

\* The kernel runs before the first shell; it has no program page yet.
PagingInit ==
    /\ init_paging
    /\ tlb = {} /\ current_pid = 0 /\ terminal_num = 0 /\ mode = "boot"
    /\ displayed = 0 /\ borrowed = FALSE

\* The processor's walk (external): where a user access to a page leads, or
\* NoPage if it faults.
NoPage == -1

Walk(vpage) ==
    LET pde == PDT[vpage \div PAGE_SIZE]
        i == vpage % PAGE_SIZE
        pte == CASE pde.base = PT0_addr -> PT0[i] [] pde.base = PT1_addr -> PT1[i]
                 [] OTHER -> None
    IN  IF ~(Present(pde) /\ User(pde)) THEN NoPage
        ELSE IF Big(pde) THEN (pde.base \div FourMB) * FourMB + i
        ELSE IF Present(pte) /\ User(pte) THEN pte.base ELSE NoPage

\* The pages the tables let a user program reach, and two it does not; of the
\* program page the first and the last.
UserPages ==
    {VID_MEM_INDEX, VID_MEM_INDEX + 1, FourMB}
        \cup {USER_VID_INDEX * FourMB + t : t \in 0 .. 3}
        \cup {PROGRAM_PDT_INDEX * FourMB, PROGRAM_PDT_INDEX * FourMB + PAGE_SIZE - 1,
              (PROGRAM_PDT_INDEX + 1) * FourMB}

\* A translation that is not cached is looked up and cached.
access(vpage) ==
    /\ mode = "user"
    /\ \A c \in tlb : c[1] # vpage
    /\ Walk(vpage) # NoPage
    /\ tlb' = tlb \cup {<<vpage, Walk(vpage)>>}
    /\ UNCHANGED <<PDT, PT0, PT1, current_pid, terminal_num, mode, displayed, borrowed>>

\* Mutant: CR3 is not written.
flush_Missing == UNCHANGED tlb

\* The reload of CR3 drops every translation; global ones are not enabled.
flush == tlb' = {}

-----------------------------------------------------------------------------

SetProgramPage(pid) == PDT' = [PDT EXCEPT ![PROGRAM_PDT_INDEX] = ProgramEntry(pid)]

\* execute and task_switch: interrupts are off until after the flush.  A tick
\* also comes inside halt_256, whose process goes on later by such a switch.
enter_program(pid) ==
    /\ SetProgramPage(pid) /\ flush
    /\ current_pid' = pid /\ mode' = "user"
    /\ UNCHANGED <<PT0, PT1, displayed, borrowed>>

execute(pid) ==
    mode \in {"user", "start"} /\ enter_program(pid) /\ UNCHANGED terminal_num

\* After the last of the shells terminal 0 is the current one.
task_switch_resume(pid) ==
    mode \in {"user", "halt"} /\ enter_program(pid) /\ terminal_num' \in {terminal_num, 0}

\* A tick that starts the first shell of terminal t, as far as its sti: execute
\* follows, but a key can come first.
task_switch_start(t) ==
    /\ current_pid' = t /\ terminal_num' = t /\ mode' = "start"
    /\ UNCHANGED <<PDT, PT0, PT1, tlb, displayed, borrowed>>

\* write of a program of terminal t faults on its buffer: terminal_num keeps the
\* value it was lent, and halt_256 follows.
write_fault(t) ==
    /\ mode = "user" /\ terminal_num' = t
    /\ UNCHANGED <<PDT, PT0, PT1, tlb, current_pid, mode, displayed, borrowed>>

\* halt_256: the parent's page, with interrupts on, and then the flush.
halt_page(pid) ==
    /\ mode = "user"
    /\ SetProgramPage(pid)
    /\ current_pid' = pid /\ mode' = "halt"
    /\ UNCHANGED <<PT0, PT1, tlb, terminal_num, displayed, borrowed>>

halt_flush ==
    /\ mode = "halt" /\ flush /\ mode' = "user"
    /\ UNCHANGED <<PDT, PT0, PT1, current_pid, terminal_num, displayed, borrowed>>

\* The user video pages of the terminal terminal_num names and of the new one.
terminal_switch(new_tty) ==
    /\ PT1' = [PT1 EXCEPT ![terminal_num] = VID_MEM_BACKUP(terminal_num),
                          ![new_tty] = USER_VID_MEM_ENTRY]
    /\ terminal_num' = new_tty /\ displayed' = new_tty
    /\ borrowed' = (borrowed \/ terminal_num # displayed)
    /\ flush
    /\ UNCHANGED <<PDT, PT0, current_pid, mode>>

PagingNext ==
    \/ \E vpage \in UserPages : access(vpage)
    \/ \E pid \in Pids : execute(pid) \/ task_switch_resume(pid) \/ halt_page(pid)
    \/ halt_flush
    \/ \E t \in Terminals : terminal_switch(t) \/ task_switch_start(t) \/ write_fault(t)

PagingSpec == PagingInit /\ [][PagingNext]_pagingVars

-----------------------------------------------------------------------------

\* Whatever a program reaches, through the tables or through a translation the
\* processor kept, is what the tables of the moment say: after every switch of
\* process or terminal nothing of the one before is left, although halt_256
\* can be interrupted before its flush.
NothingStale ==
    mode = "user" => \A c \in tlb : c[2] = Walk(c[1])

ProgramFrames(pid) == KERNEL_BOT_ADDR + FourMB * pid .. KERNEL_BOT_ADDR + FourMB * (pid + 1) - 1
VideoFrames == 184 .. 187

\* A program reaches its own 4 MB and the video pages, and nothing else: not
\* the kernel, not another process.  The page a terminal's program draws to is
\* the displayed one exactly while the terminal is on the screen, whatever
\* terminal_num is (task_switch, a fault in write), until a switch is made when
\* terminal_num is not the terminal on the screen.
ReachesOwn ==
    /\ mode # "start" =>
         \A v \in UserPages :
             Walk(v) # NoPage => Walk(v) \in ProgramFrames(current_pid) \cup VideoFrames
    /\ ~borrowed =>
         \A t \in Terminals :
             Walk(USER_VID_INDEX * FourMB + t) = IF t = displayed THEN 184 ELSE 185 + t
=============================================================================
