--------------------------- MODULE HardwareProofs ---------------------------
(***************************************************************************)
(* Proofs about the hardware limeOS drives itself: the interrupt           *)
(* controllers, the real-time clock and the page tables, for every number  *)
(* of terminals (three at most where the tables have entries for no more). *)
(*                                                                         *)
(* Interrupts: whatever devices limeOS does not drive and however deep     *)
(* handlers nest, nothing stays in service, and no interrupt arrives that  *)
(* has no handler.  This is of Spec, in which devices may interrupt as     *)
(* fast as they like.  Rtc: any frequencies that programs ask for.         *)
(* Paging: any number of processes and any place the linker may give the   *)
(* two page tables.                                                        *)
(***************************************************************************)
EXTENDS Paging, Rtc, Interrupts, TLAPS

-----------------------------------------------------------------------------
(* Paging *)

\* What terminal_switch leaves in the first three entries of PT1, when it finds
\* the terminal on the screen in terminal_num.
VideoEntry(t) == IF t = displayed THEN USER_VID_MEM_ENTRY ELSE VID_MEM_BACKUP(t)

\* The tables entry by entry: init_paging, and what the switches of process and
\* of terminal have made of it.
TablesInv ==
    /\ terminal_num \in Terminals /\ displayed \in Terminals /\ current_pid \in Pids
    /\ mode \in {"boot", "user", "halt", "start"}
    /\ DOMAIN PDT = 0 .. PAGE_SIZE - 1 /\ DOMAIN PT1 = 0 .. PAGE_SIZE - 1
    /\ PDT[0] = Entry(PT0_addr, T_ZERO_MASK) /\ PDT[1] = KERNEL_ENTRY
    /\ PDT[USER_VID_INDEX] = Entry(PT1_addr, UVM_MASK)
    /\ mode = "boot" => PDT[PROGRAM_PDT_INDEX] = None
    /\ mode \in {"user", "halt"} => PDT[PROGRAM_PDT_INDEX] = ProgramEntry(current_pid)
    /\ \A i \in 0 .. PAGE_SIZE - 1 :
         i \notin {0, 1, USER_VID_INDEX, PROGRAM_PDT_INDEX} => PDT[i] = None
    /\ \A i \in 0 .. PAGE_SIZE - 1 :
         /\ i = VID_MEM_INDEX => PT0[i] = VID_MEM_ENTRY
         /\ i \in VID_MEM_INDEX + 1 .. VID_MEM_INDEX + 3 =>
                PT0[i] = KERNEL_VID_MEM_BACKUP(i - VID_MEM_INDEX - 1)
         /\ i \notin VID_MEM_INDEX .. VID_MEM_INDEX + 3 => PT0[i] = None
         /\ i \in 0 .. 2 => PT1[i] \in {USER_VID_MEM_ENTRY, VID_MEM_BACKUP(i)}
         /\ i \in 0 .. 2 /\ ~borrowed => PT1[i] = VideoEntry(i)
         /\ i \notin 0 .. 2 => PT1[i] = None

\* Of the whole address space a program reaches its own 4 MB and the four
\* video pages.  (In "start" no program runs: task_switch has named the process
\* of the shell, and execute is still to set its page.)
ReachesOnlyOwn ==
    mode # "start" => \A v \in 0 .. PAGE_SIZE * PAGE_SIZE - 1 :
        Walk(v) # NoPage => Walk(v) \in ProgramFrames(current_pid) \cup VideoFrames

-----------------------------------------------------------------------------

\* The bits init_paging and the switches write, as the processor reads them.
LEMMA EntryBits ==
    /\ ~Present(None)
    /\ ~User(KERNEL_ENTRY)
    /\ Present(VID_MEM_ENTRY) /\ User(VID_MEM_ENTRY)
    /\ \A b : /\ Present(Entry(b, T_ZERO_MASK)) /\ User(Entry(b, T_ZERO_MASK))
              /\ ~Big(Entry(b, T_ZERO_MASK))
    /\ \A b : Present(Entry(b, UVM_MASK)) /\ User(Entry(b, UVM_MASK)) /\ ~Big(Entry(b, UVM_MASK))
    /\ \A b : /\ Present(Entry(b, PROGRAM_PROPERTIES)) /\ User(Entry(b, PROGRAM_PROPERTIES))
              /\ Big(Entry(b, PROGRAM_PROPERTIES))
    /\ \A t : ~User(KERNEL_VID_MEM_BACKUP(t))
<1> USE DEF Present, User, Big, Bit, Entry
<1>1. ~Present(None)
  BY DEF None
<1>2. ~User(KERNEL_ENTRY)
  BY DEF KERNEL_ENTRY
<1>3. Present(VID_MEM_ENTRY) /\ User(VID_MEM_ENTRY)
  BY DEF VID_MEM_ENTRY
<1>4. \A b : /\ Present(Entry(b, T_ZERO_MASK)) /\ User(Entry(b, T_ZERO_MASK))
             /\ ~Big(Entry(b, T_ZERO_MASK))
  BY DEF T_ZERO_MASK
<1>5. \A b : Present(Entry(b, UVM_MASK)) /\ User(Entry(b, UVM_MASK)) /\ ~Big(Entry(b, UVM_MASK))
  BY DEF UVM_MASK
<1>6. \A b : /\ Present(Entry(b, PROGRAM_PROPERTIES)) /\ User(Entry(b, PROGRAM_PROPERTIES))
             /\ Big(Entry(b, PROGRAM_PROPERTIES))
  BY DEF PROGRAM_PROPERTIES
<1>7. \A t : ~User(KERNEL_VID_MEM_BACKUP(t))
  BY DEF KERNEL_VID_MEM_BACKUP
<1>8. QED
  BY <1>1, <1>2, <1>3, <1>4, <1>5, <1>6, <1>7, Zenon

\* The places of the entries in their tables.
LEMMA Indices ==
    /\ PAGE_SIZE \in Nat /\ PAGE_SIZE > VID_MEM_INDEX + 3 /\ PAGE_SIZE = FourMB
    /\ VID_MEM_INDEX \in Nat /\ VID_MEM_INDEX > PROGRAM_PDT_INDEX
    /\ USER_VID_INDEX \in Nat /\ USER_VID_INDEX > 2
    /\ PROGRAM_PDT_INDEX \in Nat /\ PROGRAM_PDT_INDEX > USER_VID_INDEX
  BY DEF PAGE_SIZE, FourMB, VID_MEM_INDEX, USER_VID_INDEX, PROGRAM_PDT_INDEX

\* A page number is a place in the directory and a place in a table.
LEMMA Division ==
    ASSUME NEW v \in Nat, v < PAGE_SIZE * PAGE_SIZE
    PROVE  /\ v \div PAGE_SIZE \in 0 .. PAGE_SIZE - 1
           /\ v % PAGE_SIZE \in 0 .. PAGE_SIZE - 1
<1>1. /\ v \div PAGE_SIZE \in Nat /\ v \div PAGE_SIZE < PAGE_SIZE
      /\ v % PAGE_SIZE \in Nat /\ v % PAGE_SIZE < PAGE_SIZE
  BY DEF PAGE_SIZE
<1>2. QED
  BY <1>1, Indices

-----------------------------------------------------------------------------

\* init_paging makes the tables.
LEMMA TablesInitial == PagingInit => TablesInv
<1> SUFFICES ASSUME PagingInit PROVE TablesInv
  BY Zenon
<1>1. 0 \in Terminals /\ 0 \in Pids
  BY PagingAssumption DEF Terminals, Pids
<1>2. \A i \in 0 .. PAGE_SIZE - 1 :
         PDT[i] = CASE i = 0 -> Entry(PT0_addr, T_ZERO_MASK)
                    [] i = 1 -> KERNEL_ENTRY
                    [] i = USER_VID_INDEX -> Entry(PT1_addr, UVM_MASK)
                    [] OTHER -> None
  BY Zenon DEF PagingInit, init_paging
<1>3. \A i \in 0 .. PAGE_SIZE - 1 :
         PT0[i] = CASE i = VID_MEM_INDEX -> VID_MEM_ENTRY
                    [] i \in VID_MEM_INDEX + 1 .. VID_MEM_INDEX + 3 ->
                           KERNEL_VID_MEM_BACKUP(i - VID_MEM_INDEX - 1)
                    [] OTHER -> None
  BY Zenon DEF PagingInit, init_paging
<1>4. \A i \in 0 .. PAGE_SIZE - 1 :
         PT1[i] = CASE i = 0 -> USER_VID_MEM_ENTRY
                    [] i \in 1 .. 2 -> VID_MEM_BACKUP(i)
                    [] OTHER -> None
  BY Zenon DEF PagingInit, init_paging
<1>5. DOMAIN PDT = 0 .. PAGE_SIZE - 1 /\ DOMAIN PT1 = 0 .. PAGE_SIZE - 1
  BY Zenon DEF PagingInit, init_paging
<1>6. /\ PDT[0] = Entry(PT0_addr, T_ZERO_MASK) /\ PDT[1] = KERNEL_ENTRY
      /\ PDT[USER_VID_INDEX] = Entry(PT1_addr, UVM_MASK)
      /\ PDT[PROGRAM_PDT_INDEX] = None
      /\ \A i \in 0 .. PAGE_SIZE - 1 :
           i \notin {0, 1, USER_VID_INDEX, PROGRAM_PDT_INDEX} => PDT[i] = None
  BY <1>2, Indices
<1>7. \A i \in 0 .. PAGE_SIZE - 1 :
         /\ i = VID_MEM_INDEX => PT0[i] = VID_MEM_ENTRY
         /\ i \in VID_MEM_INDEX + 1 .. VID_MEM_INDEX + 3 =>
                PT0[i] = KERNEL_VID_MEM_BACKUP(i - VID_MEM_INDEX - 1)
         /\ i \notin VID_MEM_INDEX .. VID_MEM_INDEX + 3 => PT0[i] = None
  BY <1>3, Indices
<1>8. \A i \in 0 .. PAGE_SIZE - 1 :
         /\ i \in 0 .. 2 => PT1[i] \in {USER_VID_MEM_ENTRY, VID_MEM_BACKUP(i)}
         /\ i \in 0 .. 2 => PT1[i] = VideoEntry(i)
         /\ i \notin 0 .. 2 => PT1[i] = None
  BY <1>4 DEF VideoEntry, PagingInit
<1>9. QED
  BY <1>1, <1>5, <1>6, <1>7, <1>8, Zenon DEF PagingInit, TablesInv

\* Setting the program page changes one entry of the directory.
LEMMA ProgramPageStep ==
    ASSUME TablesInv, NEW pid \in Pids, SetProgramPage(pid), current_pid' = pid,
           mode' \in {"user", "halt"}, terminal_num' \in Terminals,
           UNCHANGED <<PT0, PT1, displayed, borrowed>>
    PROVE  TablesInv'
<1>1. PDT' = [PDT EXCEPT ![PROGRAM_PDT_INDEX] = ProgramEntry(pid)]
  BY Zenon DEF SetProgramPage
<1>2. /\ DOMAIN PDT' = 0 .. PAGE_SIZE - 1
      /\ PDT'[PROGRAM_PDT_INDEX] = ProgramEntry(pid)
      /\ \A i \in 0 .. PAGE_SIZE - 1 : i # PROGRAM_PDT_INDEX => PDT'[i] = PDT[i]
  BY <1>1, Indices DEF TablesInv
<1>3. \A i : VideoEntry(i)' = VideoEntry(i)
  BY Zenon DEF VideoEntry
<1>4. /\ PDT'[0] = Entry(PT0_addr, T_ZERO_MASK) /\ PDT'[1] = KERNEL_ENTRY
      /\ PDT'[USER_VID_INDEX] = Entry(PT1_addr, UVM_MASK)
  BY <1>2, Indices DEF TablesInv
<1>5. \A i \in 0 .. PAGE_SIZE - 1 :
         i \notin {0, 1, USER_VID_INDEX, PROGRAM_PDT_INDEX} => PDT'[i] = None
  BY <1>2, Zenon DEF TablesInv
<1>6. /\ mode' = "boot" => PDT'[PROGRAM_PDT_INDEX] = None
      /\ mode' \in {"user", "halt"} => PDT'[PROGRAM_PDT_INDEX] = ProgramEntry(current_pid')
  BY <1>2, Zenon
<1>7. QED
  BY <1>2, <1>3, <1>4, <1>5, <1>6, Zenon DEF TablesInv

\* A tick that starts a shell, or a fault in write, moves terminal_num and leaves
\* the tables alone.
LEMMA TerminalNumStep ==
    ASSUME TablesInv, terminal_num' \in Terminals, UNCHANGED <<PDT, PT0, PT1, displayed, borrowed>>,
           \/ mode' = "start" /\ current_pid' \in Pids
           \/ UNCHANGED <<mode, current_pid>>
    PROVE  TablesInv'
<1>1. \A i : VideoEntry(i)' = VideoEntry(i)
  BY Zenon DEF VideoEntry
<1>2. /\ current_pid' \in Pids /\ mode' \in {"boot", "user", "halt", "start"}
      /\ mode' = "boot" => PDT'[PROGRAM_PDT_INDEX] = None
      /\ mode' \in {"user", "halt"} => PDT'[PROGRAM_PDT_INDEX] = ProgramEntry(current_pid')
  BY Zenon DEF TablesInv
<1>3. QED
  BY <1>1, <1>2, Zenon DEF TablesInv

\* A switch of terminal changes two entries of PT1, and exchanges them if
\* terminal_num was the terminal on the screen.
LEMMA TerminalSwitchStep ==
    ASSUME TablesInv, NEW t \in Terminals, terminal_switch(t)
    PROVE  TablesInv'
<1>1. /\ PT1' = [PT1 EXCEPT ![terminal_num] = VID_MEM_BACKUP(terminal_num),
                            ![t] = USER_VID_MEM_ENTRY]
      /\ terminal_num' = t /\ displayed' = t
      /\ borrowed' = (borrowed \/ terminal_num # displayed)
      /\ UNCHANGED <<PDT, PT0, current_pid, mode>>
  BY Zenon DEF terminal_switch
<1>2. t \in 0 .. 2 /\ terminal_num \in 0 .. 2 /\ 0 .. 2 \subseteq 0 .. PAGE_SIZE - 1
  BY PagingAssumption, Indices DEF TablesInv, Terminals
<1>3. DOMAIN PT1' = 0 .. PAGE_SIZE - 1
  BY <1>1, Zenon DEF TablesInv
<1>4. ASSUME NEW i \in 0 .. PAGE_SIZE - 1
      PROVE  /\ i \in 0 .. 2 => PT1'[i] \in {USER_VID_MEM_ENTRY, VID_MEM_BACKUP(i)}
             /\ i \in 0 .. 2 /\ ~borrowed' => PT1'[i] = VideoEntry(i)'
             /\ i \notin 0 .. 2 => PT1'[i] = None
  <2>1. PT1'[i] = IF i = t THEN USER_VID_MEM_ENTRY
                  ELSE IF i = terminal_num THEN VID_MEM_BACKUP(terminal_num) ELSE PT1[i]
    BY <1>1, <1>2, Zenon DEF TablesInv
  <2>2. /\ i \in 0 .. 2 => PT1[i] \in {USER_VID_MEM_ENTRY, VID_MEM_BACKUP(i)}
        /\ i \in 0 .. 2 /\ ~borrowed => PT1[i] = VideoEntry(i)
        /\ i \notin 0 .. 2 => PT1[i] = None
    BY Zenon DEF TablesInv
  <2>3. QED
    BY <1>1, <1>2, <2>1, <2>2, Zenon DEF VideoEntry
<1>5. QED
  BY <1>1, <1>3, <1>4, Zenon DEF TablesInv

\* Every step leaves the tables in the form of TablesInv.
LEMMA TablesStep == TablesInv /\ [PagingNext]_pagingVars => TablesInv'
<1> SUFFICES ASSUME TablesInv, [PagingNext]_pagingVars PROVE TablesInv'
  BY Zenon
<1>1. ASSUME NEW vpage \in UserPages, access(vpage) PROVE TablesInv'
  BY <1>1, Zenon DEF access, TablesInv, VideoEntry
<1>2. ASSUME NEW pid \in Pids, execute(pid) \/ task_switch_resume(pid) PROVE TablesInv'
  <2>1. enter_program(pid) /\ terminal_num' \in {terminal_num, 0}
    BY <1>2, Zenon DEF execute, task_switch_resume
  <2>2. 0 \in Terminals
    BY PagingAssumption DEF Terminals
  <2>3. terminal_num' \in Terminals
    BY <2>1, <2>2, Zenon DEF TablesInv
  <2>4. QED
    BY <2>1, <2>3, ProgramPageStep, Zenon DEF enter_program
<1>3. ASSUME NEW pid \in Pids, halt_page(pid) PROVE TablesInv'
  BY <1>3, ProgramPageStep, Zenon DEF halt_page, TablesInv
<1>4. CASE halt_flush
  BY <1>4, Zenon DEF halt_flush, TablesInv, VideoEntry
<1>5. ASSUME NEW t \in Terminals, terminal_switch(t) PROVE TablesInv'
  BY <1>5, TerminalSwitchStep, Zenon
<1>6. ASSUME NEW t \in Terminals, task_switch_start(t) PROVE TablesInv'
  <2>1. t \in Pids
    BY PagingAssumption DEF Terminals, Pids
  <2>2. QED
    BY <1>6, <2>1, TerminalNumStep, Zenon DEF task_switch_start
<1>7. ASSUME NEW t \in Terminals, write_fault(t) PROVE TablesInv'
  BY <1>7, TerminalNumStep, Zenon DEF write_fault
<1>8. CASE UNCHANGED pagingVars
  BY <1>8, TerminalNumStep, Zenon DEF pagingVars, TablesInv
<1>9. QED
  BY <1>1, <1>2, <1>3, <1>4, <1>5, <1>6, <1>7, <1>8, Zenon DEF PagingNext

-----------------------------------------------------------------------------

\* What the processor makes of the tables, directory entry by directory entry.
LEMMA WalkCases ==
    ASSUME TablesInv, NEW v \in Nat, v \div PAGE_SIZE \in 0 .. PAGE_SIZE - 1
    PROVE  LET d == v \div PAGE_SIZE
               i == v % PAGE_SIZE
           IN  /\ d = 0 => Walk(v) = IF i = VID_MEM_INDEX THEN 184 ELSE NoPage
               /\ d = USER_VID_INDEX =>
                    /\ i \notin 0 .. 2 => Walk(v) = NoPage
                    /\ i \in 0 .. 2 => Walk(v) = 184 \/ Walk(v) = 185 + i
                    /\ i \in 0 .. 2 /\ ~borrowed =>
                           Walk(v) = IF i = displayed THEN 184 ELSE 185 + i
               /\ d = PROGRAM_PDT_INDEX =>
                    /\ mode = "boot" => Walk(v) = NoPage
                    /\ mode \in {"user", "halt"} =>
                           Walk(v) = KERNEL_BOT_ADDR + FourMB * current_pid + i
               /\ d \notin {0, USER_VID_INDEX, PROGRAM_PDT_INDEX} => Walk(v) = NoPage
<1> DEFINE d == v \div PAGE_SIZE
<1> DEFINE i == v % PAGE_SIZE
<1> DEFINE pde == PDT[d]
<1> DEFINE pte == CASE pde.base = PT0_addr -> PT0[i] [] pde.base = PT1_addr -> PT1[i]
                    [] OTHER -> None
<1>1. i \in 0 .. PAGE_SIZE - 1 /\ d \in 0 .. PAGE_SIZE - 1
  BY DEF PAGE_SIZE
<1>2. Walk(v) = IF ~(Present(pde) /\ User(pde)) THEN NoPage
                ELSE IF Big(pde) THEN (pde.base \div FourMB) * FourMB + i
                ELSE IF Present(pte) /\ User(pte) THEN pte.base ELSE NoPage
  BY Zenon DEF Walk
<1> HIDE DEF d, i
<1>3. ASSUME d = 0 PROVE Walk(v) = IF i = VID_MEM_INDEX THEN 184 ELSE NoPage
  <2>1. pde = Entry(PT0_addr, T_ZERO_MASK)
    BY <1>3, Zenon DEF TablesInv
  <2>2. Present(pde) /\ User(pde) /\ ~Big(pde) /\ pde.base = PT0_addr /\ PT0_addr # PT1_addr
    BY <2>1, EntryBits, PagingAssumption DEF Entry
  <2>3. pte = PT0[i]
    BY <2>2, Zenon
  <2>4. Walk(v) = IF Present(PT0[i]) /\ User(PT0[i]) THEN PT0[i].base ELSE NoPage
    BY <1>2, <2>2, <2>3, Zenon
  <2>5. CASE i = VID_MEM_INDEX
    BY <1>1, <2>4, <2>5, EntryBits DEF TablesInv, VID_MEM_ENTRY, Entry
  <2>6. CASE i \in VID_MEM_INDEX + 1 .. VID_MEM_INDEX + 3
    BY <1>1, <2>4, <2>6, EntryBits, Indices DEF TablesInv
  <2>7. CASE i \notin VID_MEM_INDEX .. VID_MEM_INDEX + 3
    BY <1>1, <2>4, <2>7, EntryBits, Indices, Zenon DEF TablesInv
  <2>8. QED
    BY <1>1, <2>5, <2>6, <2>7, Indices
<1>4. ASSUME d = USER_VID_INDEX
      PROVE  /\ i \notin 0 .. 2 => Walk(v) = NoPage
             /\ i \in 0 .. 2 => Walk(v) = 184 \/ Walk(v) = 185 + i
             /\ i \in 0 .. 2 /\ ~borrowed =>
                    Walk(v) = IF i = displayed THEN 184 ELSE 185 + i
  <2>1. pde = Entry(PT1_addr, UVM_MASK)
    BY <1>4, Zenon DEF TablesInv
  <2>2. Present(pde) /\ User(pde) /\ ~Big(pde) /\ pde.base = PT1_addr /\ PT1_addr # PT0_addr
    BY <2>1, EntryBits, PagingAssumption DEF Entry
  <2>3. pte = PT1[i]
    BY <2>2, Zenon
  <2>4. Walk(v) = IF Present(PT1[i]) /\ User(PT1[i]) THEN PT1[i].base ELSE NoPage
    BY <1>2, <2>2, <2>3, Zenon
  <2>5. CASE i \notin 0 .. 2
    <3>1. PT1[i] = None
      BY <1>1, <2>5, Zenon DEF TablesInv
    <3>2. QED
      BY <2>4, <2>5, <3>1, EntryBits, Zenon
  <2>6. CASE i \in 0 .. 2
    <3>1. PT1[i] \in {USER_VID_MEM_ENTRY, VID_MEM_BACKUP(i)}
      BY <1>1, <2>6, Zenon DEF TablesInv
    <3>2. ~borrowed => PT1[i] = VideoEntry(i)
      BY <1>1, <2>6, Zenon DEF TablesInv
    <3>3. /\ USER_VID_MEM_ENTRY = Entry(184, UVM_MASK)
          /\ VID_MEM_BACKUP(i) = Entry(185 + i, UVM_MASK)
      BY Zenon DEF USER_VID_MEM_ENTRY, VID_MEM_BACKUP, UVM_MASK
    <3>4. Present(PT1[i]) /\ User(PT1[i])
      BY <3>1, <3>3, EntryBits, Zenon
    <3>5. USER_VID_MEM_ENTRY.base = 184 /\ VID_MEM_BACKUP(i).base = 185 + i
      BY DEF USER_VID_MEM_ENTRY, VID_MEM_BACKUP, Entry
    <3>6. Walk(v) = PT1[i].base
      BY <2>4, <3>4, Zenon
    <3>7. Walk(v) = 184 \/ Walk(v) = 185 + i
      BY <3>1, <3>5, <3>6, Zenon
    <3>8. ~borrowed => Walk(v) = IF i = displayed THEN 184 ELSE 185 + i
      BY <3>2, <3>5, <3>6, Zenon DEF VideoEntry
    <3>9. QED
      BY <2>6, <3>7, <3>8, Zenon
  <2>7. QED
    BY <2>5, <2>6, Zenon
<1>5. ASSUME d = PROGRAM_PDT_INDEX
      PROVE  /\ mode = "boot" => Walk(v) = NoPage
             /\ mode \in {"user", "halt"} =>
                    Walk(v) = KERNEL_BOT_ADDR + FourMB * current_pid + i
  <2>1. mode = "boot" => Walk(v) = NoPage
    BY <1>2, <1>5, EntryBits, Zenon DEF TablesInv
  <2>2. ASSUME mode \in {"user", "halt"}
        PROVE  Walk(v) = KERNEL_BOT_ADDR + FourMB * current_pid + i
    <3>1. pde = Entry(KERNEL_BOT_ADDR + FourMB * current_pid, PROGRAM_PROPERTIES)
      BY <1>5, <2>2, Zenon DEF TablesInv, ProgramEntry
    <3>2. /\ Present(pde) /\ User(pde) /\ Big(pde)
          /\ pde.base = KERNEL_BOT_ADDR + FourMB * current_pid
      BY <3>1, EntryBits DEF Entry
    <3>3. Walk(v) = (pde.base \div FourMB) * FourMB + i
      BY <1>2, <3>2, Zenon
    <3>4. current_pid \in Nat
      BY PagingAssumption DEF TablesInv, Pids
    <3>5. \A p \in Nat : ((KERNEL_BOT_ADDR + FourMB * p) \div FourMB) * FourMB
                         = KERNEL_BOT_ADDR + FourMB * p
      BY DEF KERNEL_BOT_ADDR, FourMB
    <3>6. QED
      BY <2>2, <3>2, <3>3, <3>4, <3>5, Zenon
  <2>3. QED
    BY <2>1, <2>2, Zenon
<1>6. ASSUME d \notin {0, USER_VID_INDEX, PROGRAM_PDT_INDEX} PROVE Walk(v) = NoPage
  <2>1. ~(Present(pde) /\ User(pde))
    BY <1>1, <1>6, EntryBits, Zenon DEF TablesInv
  <2>2. QED
    BY <1>2, <2>1, Zenon
<1>7. QED
  BY <1>3, <1>4, <1>5, <1>6, Zenon DEF d, i

\* The tables never lead a program outside its own frames.
LEMMA TablesReachOwn == TablesInv => ReachesOnlyOwn
<1> SUFFICES ASSUME TablesInv, mode # "start",
                    NEW v \in 0 .. PAGE_SIZE * PAGE_SIZE - 1, Walk(v) # NoPage
             PROVE  Walk(v) \in ProgramFrames(current_pid) \cup VideoFrames
  BY Zenon DEF ReachesOnlyOwn
<1> DEFINE d == v \div PAGE_SIZE
<1> DEFINE i == v % PAGE_SIZE
<1>1. v \in Nat /\ d \in 0 .. PAGE_SIZE - 1 /\ i \in 0 .. PAGE_SIZE - 1
  <2>1. v \in Nat /\ v < PAGE_SIZE * PAGE_SIZE
    BY Indices
  <2>2. QED
    BY <2>1, Division, Zenon
<1>2. /\ d = 0 => Walk(v) = IF i = VID_MEM_INDEX THEN 184 ELSE NoPage
      /\ d = USER_VID_INDEX => i \in 0 .. 2 /\ (Walk(v) = 184 \/ Walk(v) = 185 + i)
      /\ d = PROGRAM_PDT_INDEX => Walk(v) = KERNEL_BOT_ADDR + FourMB * current_pid + i
      /\ d \notin {0, USER_VID_INDEX, PROGRAM_PDT_INDEX} => Walk(v) = NoPage
  <2>1. mode = "boot" \/ mode \in {"user", "halt"}
    BY Zenon DEF TablesInv
  <2>2. QED
    BY <1>1, <2>1, WalkCases, Zenon
<1> HIDE DEF d, i
<1>3. CASE d = 0
  BY <1>2, <1>3 DEF VideoFrames
<1>4. CASE d = USER_VID_INDEX
  BY <1>1, <1>2, <1>4 DEF VideoFrames
<1>5. CASE d = PROGRAM_PDT_INDEX
  <2>1. current_pid \in Nat
    BY PagingAssumption DEF TablesInv, Pids
  <2>2. Walk(v) = KERNEL_BOT_ADDR + FourMB * current_pid + i
    BY <1>2, <1>5, Zenon
  <2>3. i \in Nat /\ i < FourMB
    BY <1>1, Indices
  <2>4. \A p, k \in Nat : k < FourMB =>
          /\ KERNEL_BOT_ADDR + FourMB * p + k >= KERNEL_BOT_ADDR + FourMB * p
          /\ KERNEL_BOT_ADDR + FourMB * p + k <= KERNEL_BOT_ADDR + FourMB * (p + 1) - 1
          /\ KERNEL_BOT_ADDR + FourMB * p + k \in Int
    BY DEF KERNEL_BOT_ADDR, FourMB
  <2>5. KERNEL_BOT_ADDR \in Int /\ FourMB \in Int
    BY DEF KERNEL_BOT_ADDR, FourMB
  <2>6. Walk(v) \in ProgramFrames(current_pid)
    BY <2>1, <2>2, <2>3, <2>4, <2>5 DEF ProgramFrames
  <2>7. QED
    BY <2>6, Zenon
<1>6. QED
  BY <1>2, <1>3, <1>4, <1>5, Zenon

\* The video page of each terminal.
LEMMA TablesShowOwn ==
    ASSUME TablesInv, ~borrowed, NEW t \in Terminals
    PROVE  Walk(USER_VID_INDEX * FourMB + t) = IF t = displayed THEN 184 ELSE 185 + t
<1> DEFINE v == USER_VID_INDEX * FourMB + t
<1>1. t \in 0 .. 2
  BY PagingAssumption DEF Terminals
<1>2. v \in Nat /\ v \div PAGE_SIZE = USER_VID_INDEX /\ v % PAGE_SIZE = t
  BY <1>1 DEF USER_VID_INDEX, FourMB, PAGE_SIZE
<1>3. USER_VID_INDEX \in 0 .. PAGE_SIZE - 1
  BY Indices
<1> HIDE DEF v
<1> DEFINE d == v \div PAGE_SIZE
<1> DEFINE i == v % PAGE_SIZE
<1>4. d \in 0 .. PAGE_SIZE - 1
  BY <1>2, <1>3, Zenon
<1>5. d = USER_VID_INDEX /\ i \in 0 .. 2 => Walk(v) = IF i = displayed THEN 184 ELSE 185 + i
  BY <1>2, <1>4, WalkCases
<1>6. d = USER_VID_INDEX /\ i = t
  BY <1>2, Zenon
<1> HIDE DEF d, i
<1>7. Walk(v) = IF t = displayed THEN 184 ELSE 185 + t
  BY <1>1, <1>5, <1>6
<1>8. QED
  BY <1>7, Zenon DEF v

\* The sampled pages are pages.
LEMMA UserPagesArePages == UserPages \subseteq 0 .. PAGE_SIZE * PAGE_SIZE - 1
<1>1. ASSUME NEW v \in UserPages PROVE v \in Nat /\ v < PAGE_SIZE * PAGE_SIZE
  BY <1>1 DEF UserPages, VID_MEM_INDEX, FourMB, USER_VID_INDEX, PROGRAM_PDT_INDEX, PAGE_SIZE
<1>2. PAGE_SIZE * PAGE_SIZE \in Nat
  BY DEF PAGE_SIZE
<1>3. QED
  BY <1>1, <1>2

-----------------------------------------------------------------------------

\* In every state the tables have the form of TablesInv, whatever switches of
\* process and terminal came before and whatever else moved terminal_num.
THEOREM TablesKept == PagingSpec => []TablesInv
  BY TablesInitial, TablesStep, PTL DEF PagingSpec

\* Of all 4 GB a program reaches its own 4 MB and the four video pages, and
\* nothing of the kernel or of another process (execute, halt_256, task_switch).
THEOREM WholeSpaceSafe == PagingSpec => []ReachesOnlyOwn
  BY TablesKept, TablesReachOwn, PTL

\* The same for the pages a run looks at, and the user video page of a terminal
\* is the displayed one exactly while the terminal is on the screen, until a
\* terminal_switch is made when terminal_num is another.
THEOREM ReachSafe == PagingSpec => []ReachesOwn
<1>1. TablesInv => ReachesOwn
  <2> SUFFICES ASSUME TablesInv PROVE ReachesOwn
    BY Zenon
  <2>1. ReachesOnlyOwn
    BY TablesReachOwn, Zenon
  <2>2. mode # "start" => \A v \in UserPages :
          Walk(v) # NoPage => Walk(v) \in ProgramFrames(current_pid) \cup VideoFrames
    BY <2>1, UserPagesArePages, Zenon DEF ReachesOnlyOwn
  <2>3. ~borrowed => \A t \in Terminals :
          Walk(USER_VID_INDEX * FourMB + t) = IF t = displayed THEN 184 ELSE 185 + t
    BY TablesShowOwn, Zenon
  <2>4. QED
    BY <2>2, <2>3, Zenon DEF ReachesOwn
<1>2. QED
  BY <1>1, TablesKept, PTL

\* No translation the processor kept outlives the entry it came from: a change
\* of an entry is followed by a flush before the next program runs, although
\* halt_256 can be interrupted in between.
THEOREM StaleSafe == PagingSpec => []NothingStale
<1>1. PagingInit => NothingStale
  BY Zenon DEF PagingInit, NothingStale
<1>2. NothingStale /\ [PagingNext]_pagingVars => NothingStale'
  <2> SUFFICES ASSUME NothingStale, [PagingNext]_pagingVars, mode' = "user", NEW c \in tlb'
               PROVE  c[2] = Walk(c[1])'
    BY Zenon DEF NothingStale
  <2>1. ASSUME NEW vpage \in UserPages, access(vpage) PROVE c[2] = Walk(c[1])'
    <3>1. mode = "user" /\ UNCHANGED <<PDT, PT0, PT1>> /\ tlb' = tlb \cup {<<vpage, Walk(vpage)>>}
      BY <2>1, Zenon DEF access
    <3>2. Walk(c[1])' = Walk(c[1])
      <4>1. PDT' = PDT /\ PT0' = PT0 /\ PT1' = PT1
        BY <3>1, Zenon
      <4>2. QED
        BY <4>1 DEF Walk
    <3>3. c[2] = Walk(c[1])
      BY <3>1 DEF NothingStale
    <3>4. QED
      BY <3>2, <3>3, Zenon
  <2>2. ASSUME NEW pid \in Pids, execute(pid) \/ task_switch_resume(pid) \/ halt_page(pid)
        PROVE  FALSE
    BY <2>2, Zenon DEF execute, task_switch_resume, enter_program, halt_page, flush
  <2>3. CASE halt_flush
    BY <2>3, Zenon DEF halt_flush, flush
  <2>4. ASSUME NEW t \in Terminals, terminal_switch(t) PROVE FALSE
    BY <2>4, Zenon DEF terminal_switch, flush
  <2>5. ASSUME NEW t \in Terminals, task_switch_start(t) PROVE FALSE
    BY <2>5, Zenon DEF task_switch_start
  <2>6. ASSUME (\E t \in Terminals : write_fault(t)) \/ UNCHANGED pagingVars
        PROVE  c[2] = Walk(c[1])'
    <3>1. mode = "user" /\ UNCHANGED <<PDT, PT0, PT1, tlb>>
      BY <2>6, Zenon DEF write_fault, pagingVars
    <3>2. Walk(c[1])' = Walk(c[1])
      <4>1. PDT' = PDT /\ PT0' = PT0 /\ PT1' = PT1
        BY <3>1, Zenon
      <4>2. QED
        BY <4>1 DEF Walk
    <3>3. QED
      BY <3>1, <3>2, Zenon DEF NothingStale
  <2>7. QED
    BY <2>1, <2>2, <2>3, <2>4, <2>5, <2>6, Zenon DEF PagingNext
<1>3. QED
  BY <1>1, <1>2, PTL DEF PagingSpec

-----------------------------------------------------------------------------
(* Rtc *)

\* A program that is about to write register A has read its divider, until an
\* interrupt moved the index port before the read.
DividerHeld == \A t \in Terminals : pc[t] \in {"select A", "write A"} => tmp[t] = Divider

\* RateIsAsAsked with what it depends on.
RateInv == RateIsAsAsked /\ ("divider" \notin windows => DividerHeld)

\* A waiting reader whose flag is down was woken by an interrupt.
ReadInv ==
    /\ RtcTypeOK
    /\ \A t \in Terminals :
         pc[t] = "read" /\ rtc_interrupt_occured[t] = 0 => ticked[t]

-----------------------------------------------------------------------------

\* The rates of changeFreq_RTC are the frequencies 2^(16 - rate): the shift of
\* 32768 by rate - 1 loses nothing.
LEMMA Powers ==
    ASSUME NEW r \in 1 .. 15
    PROVE  Shifted(r) = Frequency(r) /\ Frequency(r) \in Nat /\ Frequency(r) >= 2
<1>1. \/ r = 1 \/ r = 2 \/ r = 3 \/ r = 4 \/ r = 5 \/ r = 6 \/ r = 7 \/ r = 8
      \/ r = 9 \/ r = 10 \/ r = 11 \/ r = 12 \/ r = 13 \/ r = 14 \/ r = 15
  OBVIOUS
<1> DEFINE P(q) == Shifted(q) = Frequency(q) /\ Frequency(q) \in Nat /\ Frequency(q) >= 2
<1>2. /\ P(1) /\ P(2) /\ P(3) /\ P(4) /\ P(5) /\ P(6) /\ P(7) /\ P(8)
      /\ P(9) /\ P(10) /\ P(11) /\ P(12) /\ P(13) /\ P(14) /\ P(15)
  BY DEF FREQ_FOR_RATE_CALC, Shifted, Frequency
<1>3. P(r)
  <2> HIDE DEF P
  <2> QED BY <1>1, <1>2
<1>4. QED
  BY <1>3, Zenon

\* No two of them are equal.
LEMMA RatesDiffer ==
    ASSUME NEW r \in 1 .. 15, NEW q \in 1 .. 15, Shifted(r) = Shifted(q)
    PROVE  r = q
<1>1. /\ Shifted(1) = 32768 /\ Shifted(2) = 16384 /\ Shifted(3) = 8192 /\ Shifted(4) = 4096
      /\ Shifted(5) = 2048 /\ Shifted(6) = 1024 /\ Shifted(7) = 512 /\ Shifted(8) = 256
      /\ Shifted(9) = 128 /\ Shifted(10) = 64 /\ Shifted(11) = 32 /\ Shifted(12) = 16
      /\ Shifted(13) = 8 /\ Shifted(14) = 4 /\ Shifted(15) = 2
  BY DEF FREQ_FOR_RATE_CALC, Shifted
<1> DEFINE Rated(n) ==
       \/ (n = 1 /\ Shifted(n) = 32768) \/ (n = 2 /\ Shifted(n) = 16384) \/ (n = 3 /\ Shifted(n) = 8192)
       \/ (n = 4 /\ Shifted(n) = 4096) \/ (n = 5 /\ Shifted(n) = 2048) \/ (n = 6 /\ Shifted(n) = 1024)
       \/ (n = 7 /\ Shifted(n) = 512) \/ (n = 8 /\ Shifted(n) = 256) \/ (n = 9 /\ Shifted(n) = 128)
       \/ (n = 10 /\ Shifted(n) = 64) \/ (n = 11 /\ Shifted(n) = 32) \/ (n = 12 /\ Shifted(n) = 16)
       \/ (n = 13 /\ Shifted(n) = 8) \/ (n = 14 /\ Shifted(n) = 4) \/ (n = 15 /\ Shifted(n) = 2)
<1>2. ASSUME NEW n \in 1 .. 15 PROVE Rated(n)
  <2>1. \/ n = 1 \/ n = 2 \/ n = 3 \/ n = 4 \/ n = 5 \/ n = 6 \/ n = 7 \/ n = 8
        \/ n = 9 \/ n = 10 \/ n = 11 \/ n = 12 \/ n = 13 \/ n = 14 \/ n = 15
    OBVIOUS
  <2>2. QED
    BY <1>1, <2>1
<1>3. Rated(r) /\ Rated(q)
  <2> HIDE DEF Rated
  <2>1. QED
    BY <1>2, Zenon
<1>4. QED
  BY <1>3

\* Where changeFreq_RTC accepts a frequency, the rate it sets is the one of
\* that frequency.
LEMMA RateForFreq ==
    ASSUME NEW freq \in Nat, RateFor(freq) # 0
    PROVE  /\ RateFor(freq) \in 1 .. 15
           /\ Frequency(RateFor(freq)) = freq
           /\ freq \in 2 .. MAX_FREQ
<1> DEFINE hits == {r \in 1 .. 15 : Shifted(r) = freq}
<1>1. freq <= MAX_FREQ /\ hits # {}
  BY DEF RateFor, MAX_FREQ
<1>2. RateFor(freq) = CHOOSE r \in hits : \A q \in hits : r <= q
  BY <1>1 DEF RateFor, MAX_FREQ
<1>3. \E r \in hits : \A q \in hits : r <= q
  BY <1>1, RatesDiffer
<1>4. RateFor(freq) \in hits
  BY <1>2, <1>3, Zenon
<1>5. RateFor(freq) \in 1 .. 15 /\ Shifted(RateFor(freq)) = freq
  BY <1>4, Zenon
<1>6. Frequency(RateFor(freq)) = freq /\ freq >= 2
  BY <1>5, Powers, Zenon
<1>7. QED
  BY <1>1, <1>5, <1>6 DEF MAX_FREQ

\* The frequency open_RTC asks for is one changeFreq_RTC accepts.
LEMMA DefaultRate == RateFor(RTC_DEFAULT_FREQ) \in 1 .. 15
                     /\ Frequency(RateFor(RTC_DEFAULT_FREQ)) = RTC_DEFAULT_FREQ
<1> DEFINE hits == {r \in 1 .. 15 : Shifted(r) = RTC_DEFAULT_FREQ}
<1>1. 15 \in hits
  BY DEF FREQ_FOR_RATE_CALC, RTC_DEFAULT_FREQ, Shifted
<1>2. \E r \in hits : \A q \in hits : r <= q
  BY <1>1, RatesDiffer
<1>3. RateFor(RTC_DEFAULT_FREQ) = CHOOSE r \in hits : \A q \in hits : r <= q
  BY <1>1 DEF RateFor, MAX_FREQ, RTC_DEFAULT_FREQ
<1>4. RateFor(RTC_DEFAULT_FREQ) \in hits
  BY <1>2, <1>3, Zenon
<1>5. RateFor(RTC_DEFAULT_FREQ) # 0 /\ RTC_DEFAULT_FREQ \in Nat
  BY <1>4 DEF RTC_DEFAULT_FREQ
<1>6. QED
  BY <1>5, RateForFreq

-----------------------------------------------------------------------------

\* The clock starts at the rate it is said to have.
LEMMA RateInitial == RtcInit => RateInv
<1>1. Frequency(6) = 1024
  BY DEF Frequency
<1>2. QED
  BY <1>1, RtcAssumption
  DEF RtcInit, RateInv, RateIsAsAsked, RtcTypeOK, DividerHeld, Divider, MAX_FREQ, Terminals

\* The steps of a program that opens the clock port by port.
LEMMA OpenKeepsRate ==
    ASSUME RateInv, NEW t \in Terminals, open_RTC(t)
    PROVE  RateInv'
<1>1. UNCHANGED <<rtc_interrupt_occured, ticked>>
  BY Zenon DEF open_RTC
<1>2. RtcTypeOK /\ ("divider" \notin windows => regA.high = Divider /\ DividerHeld)
  BY DEF RateInv, RateIsAsAsked
<1>3. CASE open_select(t)
  BY <1>1, <1>3, Zenon DEF open_select, RateInv, RateIsAsAsked, RtcTypeOK, DividerHeld
<1>4. CASE open_read(t)
  <2>1. ReadHigh \in {0, Divider} /\ (index = "A" => ReadHigh = regA.high)
    BY <1>2, Zenon DEF ReadHigh, RtcTypeOK
  <2>2. /\ pc[t] = "read A" /\ UNCHANGED <<index, regA, asked>>
        /\ tmp' = [tmp EXCEPT ![t] = ReadHigh] /\ pc' = [pc EXCEPT ![t] = "select A"]
        /\ windows' = IF index = "A" THEN windows ELSE windows \cup {"divider"}
    BY <1>4, Zenon DEF open_read
  <2>3. RtcTypeOK'
    BY <1>1, <1>2, <2>1, <2>2, Zenon DEF RtcTypeOK
  <2>4. ASSUME "divider" \notin windows'
        PROVE  "divider" \notin windows /\ ReadHigh = Divider /\ DividerHeld'
    <3>1. "divider" \notin windows /\ ReadHigh = Divider
      BY <1>2, <2>1, <2>2, <2>4, Zenon
    <3>2. QED
      BY <1>2, <2>2, <3>1, Zenon DEF DividerHeld, RtcTypeOK
  <2>5. windows' \cap {"rate", "close"} = windows \cap {"rate", "close"}
    BY <2>2
  <2>6. QED
    BY <1>2, <2>2, <2>3, <2>4, <2>5, Zenon DEF RateInv, RateIsAsAsked
<1>5. CASE open_reselect(t)
  BY <1>1, <1>5, Zenon DEF open_reselect, RateInv, RateIsAsAsked, RtcTypeOK, DividerHeld
<1>6. CASE open_write(t)
  <2>1. /\ pc[t] = "write A" /\ UNCHANGED <<index, tmp>>
        /\ regA' = IF index = "A"
                   THEN [high |-> tmp[t], rate |-> RateFor(RTC_DEFAULT_FREQ)] ELSE regA
        /\ asked' = RTC_DEFAULT_FREQ /\ pc' = [pc EXCEPT ![t] = "user"]
        /\ windows' = (windows \ {"rate", "close"}) \cup (IF index = "A" THEN {} ELSE {"rate"})
    BY <1>6, Zenon DEF open_write
  <2>2. /\ windows' \subseteq {"divider", "rate", "close"}
        /\ "divider" \in windows' <=> "divider" \in windows
        /\ windows' \cap {"rate", "close"} = {} => index = "A"
    BY <1>2, <2>1 DEF RtcTypeOK
  <2>3. RtcTypeOK'
    <3>1. regA' \in [high : {0, Divider}, rate : 1 .. 15]
      BY <1>2, <2>1, DefaultRate, Zenon DEF RtcTypeOK
    <3>2. asked' \in 2 .. MAX_FREQ
      <4>1. RTC_DEFAULT_FREQ = 2 /\ MAX_FREQ \in Nat /\ 2 <= MAX_FREQ
        BY DEF RTC_DEFAULT_FREQ, MAX_FREQ
      <4>2. asked' = 2
        BY <2>1, <4>1, Zenon
      <4>3. QED
        BY <4>1, <4>2
    <3>3. QED
      BY <1>1, <1>2, <2>1, <2>2, <3>1, <3>2, Zenon DEF RtcTypeOK
  <2>4. ASSUME "divider" \notin windows' PROVE DividerHeld' /\ tmp[t] = Divider /\ regA.high = Divider
    BY <1>2, <2>1, <2>2, <2>4, Zenon DEF DividerHeld, RtcTypeOK
  <2>5. "divider" \notin windows' => regA'.high = Divider
    BY <2>1, <2>4
  <2>6. ASSUME windows' \cap {"rate", "close"} = {} PROVE Frequency(regA'.rate) = asked'
    <3>1. regA'.rate = RateFor(RTC_DEFAULT_FREQ)
      BY <2>1, <2>2, <2>6
    <3>2. QED
      BY <2>1, <3>1, DefaultRate, Zenon
  <2>7. QED
    BY <2>3, <2>4, <2>5, <2>6, Zenon DEF RateInv, RateIsAsAsked
<1>7. QED
  BY <1>3, <1>4, <1>5, <1>6, Zenon DEF open_RTC

\* Every step of every program and of the device keeps RateInv.
LEMMA RateStep == RateInv /\ [RtcNext]_rtcVars => RateInv'
<1> SUFFICES ASSUME RateInv, [RtcNext]_rtcVars PROVE RateInv'
  BY Zenon
<1>1. CASE RTC_handler
  <2>1. RtcTypeOK'
    <3>1. ticked' \in [Terminals -> BOOLEAN]
      BY <1>1, Zenon DEF RTC_handler
    <3>2. rtc_interrupt_occured' \in [Terminals -> 0 .. 1]
      <4>1. rtc_interrupt_occured' = [t \in Terminals |-> 0]
        BY <1>1, Zenon DEF RTC_handler, Wake
      <4>2. QED
        BY <4>1
    <3>3. index' \in {"A", "C"} /\ UNCHANGED <<regA, pc, tmp, asked, windows>>
      BY <1>1, Zenon DEF RTC_handler, Acknowledge
    <3>4. QED
      BY <3>1, <3>2, <3>3, Zenon DEF RateInv, RateIsAsAsked, RtcTypeOK
  <2>2. QED
    BY <1>1, <2>1, Zenon DEF RTC_handler, RateInv, RateIsAsAsked, DividerHeld
<1>2. ASSUME NEW t \in Terminals, open_RTC(t) PROVE RateInv'
  BY <1>2, OpenKeepsRate, Zenon
<1>3. ASSUME NEW t \in Terminals, read_RTC(t) PROVE RateInv'
  <2>1. UNCHANGED <<index, regA, tmp, asked, windows>>
    BY <1>3, Zenon DEF read_RTC, deviceVars
  <2>2. CASE read_begin(t)
    <3>1. RtcTypeOK'
      <4>1. RtcTypeOK
        BY Zenon DEF RateInv, RateIsAsAsked
      <4>2. ticked' \in [Terminals -> BOOLEAN]
        BY <2>2, <4>1, Zenon DEF read_begin, RtcTypeOK
      <4>3. rtc_interrupt_occured' \in [Terminals -> 0 .. 1]
        <5>1. /\ rtc_interrupt_occured' = [rtc_interrupt_occured EXCEPT ![t] = 1]
              /\ rtc_interrupt_occured \in [Terminals -> 0 .. 1]
          BY <2>2, <4>1, Zenon DEF read_begin, RtcTypeOK
        <5>2. QED
          BY <5>1
      <4>4. pc' \in [Terminals -> {"user", "read A", "select A", "write A", "read"}]
        BY <2>2, <4>1, Zenon DEF read_begin, RtcTypeOK
      <4>5. QED
        BY <2>1, <4>1, <4>2, <4>3, <4>4, Zenon DEF RtcTypeOK
    <3>2. "divider" \notin windows => DividerHeld'
      BY <2>1, <2>2, Zenon DEF read_begin, RateInv, RateIsAsAsked, RtcTypeOK, DividerHeld
    <3>3. QED
      BY <2>1, <3>1, <3>2, Zenon DEF RateInv, RateIsAsAsked
  <2>3. CASE read_end(t)
    BY <2>1, <2>3, Zenon DEF read_end, RateInv, RateIsAsAsked, RtcTypeOK, DividerHeld
  <2>4. QED
    BY <1>3, <2>2, <2>3, Zenon DEF read_RTC
<1>4. ASSUME NEW t \in Terminals, close_RTC(t) PROVE RateInv'
  <2>1. /\ UNCHANGED <<index, regA, rtc_interrupt_occured, pc, tmp, asked, ticked>>
        /\ windows' = windows \cup {"close"}
    BY <1>4, Zenon DEF close_RTC, deviceVars
  <2>2. /\ "divider" \in windows' <=> "divider" \in windows
        /\ windows' \cap {"rate", "close"} # {}
    BY <2>1
  <2>3. RtcTypeOK'
    BY <2>1, Zenon DEF RateInv, RateIsAsAsked, RtcTypeOK
  <2>4. QED
    BY <2>1, <2>2, <2>3, Zenon DEF RateInv, RateIsAsAsked, DividerHeld
<1>5. ASSUME NEW t \in Terminals, NEW freq \in Frequencies, write_RTC(t, freq) PROVE RateInv'
  <2>1. CASE RateFor(freq) = 0
    BY <1>5, <2>1, Zenon
    DEF write_RTC, changeFreq_RTC, RateInv, RateIsAsAsked, RtcTypeOK, DividerHeld
  <2>2. CASE RateFor(freq) # 0
    <3>1. /\ RateFor(freq) \in 1 .. 15 /\ Frequency(RateFor(freq)) = freq
          /\ freq \in 2 .. MAX_FREQ
      BY <2>2, RateForFreq, RtcAssumption, Zenon
    <3>2. /\ index' = "A" /\ regA' = [regA EXCEPT !.rate = RateFor(freq)] /\ asked' = freq
          /\ windows' = windows \ {"rate", "close"}
          /\ UNCHANGED <<rtc_interrupt_occured, pc, tmp, ticked>>
      BY <1>5, <2>2, Zenon DEF write_RTC, changeFreq_RTC
    <3>3. windows' \subseteq windows /\ ("divider" \in windows' <=> "divider" \in windows)
      BY <3>2
    <3>4. RtcTypeOK'
      BY <3>1, <3>2, <3>3, Zenon DEF RateInv, RateIsAsAsked, RtcTypeOK
    <3>5. regA' = [high |-> regA.high, rate |-> RateFor(freq)]
      BY <3>2, Zenon DEF RateInv, RateIsAsAsked, RtcTypeOK
    <3>6. "divider" \notin windows' => DividerHeld'
      BY <3>2, <3>3, Zenon DEF RateInv, DividerHeld
    <3>7. "divider" \notin windows' => regA'.high = Divider
      BY <3>3, <3>5 DEF RateInv, RateIsAsAsked
    <3>8. Frequency(regA'.rate) = asked'
      BY <3>1, <3>2, <3>5, Zenon
    <3>9. QED
      BY <3>4, <3>6, <3>7, <3>8, Zenon DEF RateInv, RateIsAsAsked
  <2>3. QED
    BY <2>1, <2>2, Zenon
<1>6. CASE UNCHANGED rtcVars
  BY <1>6, Zenon DEF rtcVars, deviceVars, RateInv, RateIsAsAsked, RtcTypeOK, DividerHeld
<1>7. QED
  BY <1>1, <1>2, <1>3, <1>4, <1>5, <1>6, Zenon DEF RtcNext

\* Whatever programs of any number of terminals ask for, in any order of their
\* port accesses and of the interrupts between them, the device runs at the last
\* frequency accepted unless the last was an open's whose port was moved, and
\* keeps its divider unless an open read another register (changeFreq_RTC).
THEOREM RateSafe == RtcSpec => []RateIsAsAsked
<1>1. RateInv => RateIsAsAsked
  BY Zenon DEF RateInv
<1>2. QED
  BY RateInitial, RateStep, <1>1, PTL DEF RtcSpec

-----------------------------------------------------------------------------

\* No step lowers the flag of a reader but the interrupt.
LEMMA ReadStep == RateInv /\ ReadInv /\ [RtcNext]_rtcVars => ReadInv'
<1> SUFFICES ASSUME RateInv, ReadInv, [RtcNext]_rtcVars PROVE ReadInv'
  BY Zenon
<1> USE DEF ReadInv
<1>1. RtcTypeOK'
  BY RateStep, Zenon DEF RateInv, RateIsAsAsked
<1>2. CASE RTC_handler
  BY <1>1, <1>2, Zenon DEF RTC_handler, Wake
<1>3. ASSUME NEW t \in Terminals, open_RTC(t) PROVE ReadInv'
  <2>1. UNCHANGED <<rtc_interrupt_occured, ticked>>
    BY <1>3, Zenon DEF open_RTC
  <2>2. \E place \in {"read A", "select A", "write A", "user"} : pc' = [pc EXCEPT ![t] = place]
    BY <1>3, Zenon DEF open_RTC, open_select, open_read, open_reselect, open_write
  <2>3. \A u \in Terminals : pc'[u] = "read" => pc[u] = "read"
    BY <2>2, Zenon DEF RtcTypeOK
  <2>4. QED
    BY <1>1, <2>1, <2>3, Zenon
<1>4. ASSUME NEW t \in Terminals, read_RTC(t) PROVE ReadInv'
  <2>1. CASE read_begin(t)
    <3>1. rtc_interrupt_occured'[t] = 1
      BY <2>1, Zenon DEF read_begin, RtcTypeOK
    <3>2. ASSUME NEW u \in Terminals, u # t
          PROVE  /\ rtc_interrupt_occured'[u] = rtc_interrupt_occured[u]
                 /\ pc'[u] = pc[u] /\ ticked'[u] = ticked[u]
      BY <2>1, <3>2, Zenon DEF read_begin, RtcTypeOK
    <3>3. QED
      BY <1>1, <3>1, <3>2
  <2>2. CASE read_end(t)
    BY <1>1, <2>2 DEF read_end, RtcTypeOK
  <2>3. QED
    BY <1>4, <2>1, <2>2, Zenon DEF read_RTC
<1>5. ASSUME NEW t \in Terminals, close_RTC(t) PROVE ReadInv'
  BY <1>1, <1>5, Zenon DEF close_RTC
<1>6. ASSUME NEW t \in Terminals, NEW freq \in Frequencies, write_RTC(t, freq) PROVE ReadInv'
  BY <1>1, <1>6, Zenon DEF write_RTC
<1>7. CASE UNCHANGED rtcVars
  BY <1>1, <1>7, Zenon DEF rtcVars
<1>8. QED
  BY <1>2, <1>3, <1>4, <1>5, <1>6, <1>7, Zenon DEF RtcNext

\* No read of any terminal returns before an interrupt that came after it
\* began, whatever the other terminals read and set (read_RTC).
THEOREM ReadWaitsSafe == RtcSpec => ReadWaits
<1>1. RtcInit => ReadInv
  BY RateInitial DEF RtcInit, ReadInv, RateInv, RateIsAsAsked
<1>2. ReadInv /\ [RtcNext]_rtcVars =>
          [\A t \in Terminals : pc[t] = "read" /\ pc'[t] = "user" => ticked[t]]_rtcVars
  <2> SUFFICES ASSUME ReadInv, RtcNext, NEW t \in Terminals, pc[t] = "read", pc'[t] = "user"
               PROVE  ticked[t]
    BY Zenon DEF ReadInv
  <2>1. pc \in [Terminals -> {"user", "read A", "select A", "write A", "read"}]
    BY Zenon DEF ReadInv, RtcTypeOK
  <2>2. PICK u \in Terminals : read_end(u) \/ read_begin(u) \/ open_RTC(u)
    BY Zenon DEF RtcNext, RTC_handler, read_RTC, close_RTC, write_RTC
  <2>3. t = u /\ read_end(u)
    BY <2>1, <2>2, Zenon DEF read_end, read_begin, open_RTC, open_select, open_read,
                      open_reselect, open_write
  <2>4. QED
    BY <2>3, Zenon DEF read_end, ReadInv
<1>3. QED
  BY RateInitial, RateStep, ReadStep, <1>1, <1>2, PTL DEF RtcSpec, ReadWaits

-----------------------------------------------------------------------------
(* Interrupts *)

Driven == {PIT_IRQ, KEYBOARD_IRQ, RTC_IRQ}
Frames == [irq : Driven, stage : Stages]

\* How far the masks of the chips are at each line of entry.  Before the last
\* enable_irq some lines are open that nobody handles; interrupts are off.
MasksInv ==
    /\ IF_flag => entry_pc = "booted"
    /\ entry_pc \in {"i8259_init", "keyboard_send", "keyboard_poll"} => mask = AllIrqs
    /\ entry_pc = "initialize_RTC" => mask = AllIrqs \ {KEYBOARD_IRQ}
    /\ entry_pc = "initialize_PIT" =>
          mask = AllIrqs \ {KEYBOARD_IRQ, Cascade, RTC_IRQ} /\ imr = mask
    /\ entry_pc \in {"sti", "booted"} => imr = AllIrqs \ {PIT_IRQ, KEYBOARD_IRQ, Cascade, RTC_IRQ}
    /\ entry_pc # "booted" => isr = {} /\ started = {} /\ \A c \in Contexts : stack[c] = <<>>

\* The frames of a stack of length n: whatever is interrupted had enabled
\* interrupts again, and no tick interrupts the start of a shell.
Nested(s, n) ==
    \A k \in 1 .. n :
        /\ s[k].stage \in {"tail", "execute"}
        /\ s[k].stage = "execute" =>
              s[k].irq = PIT_IRQ /\ \A l \in k + 1 .. Len(s) : s[l].irq # PIT_IRQ

\* The stack of a terminal that lost the processor ends in its task_switch.
Suspended(s) ==
    /\ s # <<>> /\ s[Len(s)] = [irq |-> PIT_IRQ, stage |-> "switched"]
    /\ \A k \in 1 .. Len(s) - 1 : s[k].stage = "tail"

\* The stages at which each handler has interrupts off, or on.
RunningTop(f) ==
    \/ f.stage = "begin" \/ f.stage = "tail"
    \/ f.irq = KEYBOARD_IRQ /\ f.stage = "acked"
    \/ f.irq = PIT_IRQ /\ f.stage = "switch"
    \/ f.irq = PIT_IRQ /\ f.stage = "execute" /\ Unstarted # {}

StacksInv ==
    /\ stack \in [Contexts -> Seq(Frames)]
    /\ \A c \in Contexts : Len(stack[c]) <= MaxFrames
    /\ current = BootStack <=> started = {}
    /\ current \in started \cup {BootStack}
    /\ \A c \in Unstarted : stack[c] = <<>>
    /\ \A c \in (started \cup {BootStack}) \ {current} : Suspended(stack[c])
    /\ Nested(stack[current], Len(stack[current]) - 1)
    /\ \A k \in 1 .. Len(stack[current]) - 1 : stack[current][k].stage = "execute" => Unstarted # {}
    /\ InHandler => RunningTop(Top)
    /\ IF_flag /\ InHandler => Top.stage \in {"tail", "execute"}

InterruptsInv == NothingLeftInService /\ MasksInv /\ StacksInv

-----------------------------------------------------------------------------
(* Numbers, sets and stacks *)

\* The lines of the devices limeOS drives and where they reach the master.
LEMMA Lines ==
    /\ Driven \subseteq Irqs /\ Irqs \subseteq AllIrqs /\ Cascade \notin Irqs
    /\ Driven \cap OtherIrqs = {}
    /\ Irqs = Driven \cup OtherIrqs
    /\ \A i \in Irqs : Line(i) \in AllIrqs
    /\ Line(PIT_IRQ) = PIT_IRQ /\ Line(KEYBOARD_IRQ) = KEYBOARD_IRQ /\ Line(RTC_IRQ) = Cascade
    /\ Acknowledged(PIT_IRQ) = {PIT_IRQ} /\ Acknowledged(KEYBOARD_IRQ) = {KEYBOARD_IRQ}
    /\ Acknowledged(RTC_IRQ) = {RTC_IRQ, Cascade}
BY InterruptsAssumption DEF Driven, Irqs, AllIrqs, Cascade, PIT_IRQ, KEYBOARD_IRQ, RTC_IRQ,
      Line, Acknowledged, Slave

\* The boot stack belongs to no terminal.
LEMMA ContextsAre ==
    /\ TERMINAL_COUNT \in Nat /\ TERMINAL_COUNT > 0 /\ 0 \in Terminals
    /\ Contexts = Terminals \cup {BootStack} /\ BootStack \notin Terminals
    /\ MaxFrames \in Nat
BY InterruptsAssumption DEF Contexts, Terminals, BootStack

\* The innermost handler of a stack goes on to the stage st.
LEMMA TopSet ==
    ASSUME NEW s \in Seq(Frames), s # <<>>, NEW st \in Stages,
           NEW r, r = [s EXCEPT ![Len(s)].stage = st]
    PROVE  /\ r \in Seq(Frames) /\ Len(r) = Len(s) /\ Len(s) \in Nat /\ Len(s) > 0
           /\ \A k \in 1 .. Len(s) - 1 : r[k] = s[k]
           /\ r[Len(s)] = [irq |-> s[Len(s)].irq, stage |-> st]
           /\ s[Len(s)] \in Frames /\ r # <<>>
<1>1. Len(s) \in Nat /\ Len(s) > 0 /\ Len(s) \in 1 .. Len(s) /\ DOMAIN s = 1 .. Len(s)
      /\ s[Len(s)] \in Frames
  OBVIOUS
<1> DEFINE f == [s[Len(s)] EXCEPT !.stage = st]
<1>2. r = [s EXCEPT ![Len(s)] = f]
  BY <1>1, Zenon
<1>3. f = [irq |-> s[Len(s)].irq, stage |-> st] /\ f \in Frames
  BY <1>1 DEF Frames
<1> HIDE DEF f
<1>4. /\ r \in Seq(Frames) /\ Len(r) = Len(s)
      /\ \A j \in 1 .. Len(s) : r[j] = IF j = Len(s) THEN f ELSE s[j]
  <2> DEFINE x == [s EXCEPT ![Len(s)] = f]
  <2>1. /\ x \in Seq(Frames) /\ Len(x) = Len(s)
        /\ \A j \in 1 .. Len(s) : x[j] = IF j = Len(s) THEN f ELSE s[j]
    <3>1. f \in Frames /\ Len(s) \in 1 .. Len(s)
      BY <1>1, <1>3, Zenon
    <3>2. x \in [1 .. Len(s) -> Frames]
      BY <1>1, <3>1
    <3>3. x \in Seq(Frames)
      BY <1>1, <3>2
    <3>4. DOMAIN x = 1 .. Len(x) /\ DOMAIN x = 1 .. Len(s)
      BY <3>2, <3>3
    <3>5. Len(x) = Len(s)
      BY <1>1, <3>3, <3>4
    <3>6. QED
      BY <1>1, <3>3, <3>5, Zenon
  <2>2. QED
    BY <1>2, <2>1, Zenon
<1>5. r # <<>>
  BY <1>1, <1>4
<1>6. QED
  BY SMTT(40), <1>1, <1>3, <1>4, <1>5

\* A new handler on a stack, and the return of one.
LEMMA TopPush ==
    ASSUME NEW s \in Seq(Frames), NEW f \in Frames
    PROVE  /\ Append(s, f) \in Seq(Frames) /\ Len(Append(s, f)) = Len(s) + 1 /\ Len(s) \in Nat
           /\ \A k \in 1 .. Len(s) : Append(s, f)[k] = s[k]
           /\ Append(s, f)[Len(s) + 1] = f
OBVIOUS

\* The stack that an iret leaves: one frame less, the others as they were.
LEMMA TopPop ==
    ASSUME NEW s \in Seq(Frames), s # <<>>
    PROVE  /\ SubSeq(s, 1, Len(s) - 1) \in Seq(Frames)
           /\ Len(SubSeq(s, 1, Len(s) - 1)) = Len(s) - 1 /\ Len(s) \in Nat /\ Len(s) > 0
           /\ \A k \in 1 .. Len(s) - 1 : SubSeq(s, 1, Len(s) - 1)[k] = s[k]
<1>1. Len(s) \in Nat /\ Len(s) > 0 /\ Len(s) - 1 \in Int /\ 1 \in Int
  OBVIOUS
<1>2. \A k \in 1 .. Len(s) - 1 : s[k] \in Frames
  OBVIOUS
<1>3. /\ SubSeq(s, 1, Len(s) - 1) \in Seq(Frames)
      /\ Len(SubSeq(s, 1, Len(s) - 1)) =
           IF 1 <= Len(s) - 1 THEN (Len(s) - 1) - 1 + 1 ELSE 0
      /\ \A i \in 1 .. (Len(s) - 1) - 1 + 1 : SubSeq(s, 1, Len(s) - 1)[i] = s[1 + i - 1]
  BY <1>1, <1>2
<1>4. (Len(s) - 1) - 1 + 1 = Len(s) - 1 /\ \A i \in 1 .. Len(s) - 1 : 1 + i - 1 = i
  BY <1>1
<1>5. QED
  BY <1>1, <1>3, <1>4

-----------------------------------------------------------------------------
(* What a step of a handler keeps *)

\* Everything of the type invariant that is not about the stacks.
PlainTypes ==
    /\ IF_flag \in BOOLEAN /\ regC \in BOOLEAN
    /\ irr \subseteq Irqs /\ isr \subseteq AllIrqs
    /\ imr \subseteq AllIrqs /\ mask \subseteq AllIrqs
    /\ started \subseteq Terminals
    /\ current \in Contexts /\ pit_terminal_num \in Terminals

\* The stacks hold frames with a stage, so the type invariant follows.
LEMMA TypesFollow == PlainTypes /\ StacksInv => TypeOK
<1> SUFFICES ASSUME PlainTypes, StacksInv PROVE TypeOK
  BY Zenon
<1>1. ASSUME NEW c \in Contexts, NEW k \in DOMAIN stack[c] PROVE stack[c][k].stage \in Stages
  <2>1. stack[c] \in Seq(Frames)
    BY Zenon DEF StacksInv
  <2>2. k \in 1 .. Len(stack[c])
    BY <2>1
  <2>3. stack[c][k] \in Frames
    BY <2>1, <2>2
  <2>4. QED
    BY <2>3, Zenon DEF Frames
<1>2. QED
  BY <1>1, Zenon DEF PlainTypes, StacksInv, TypeOK, Terminals

\* The same after a step.
LEMMA NextTypesFollow == PlainTypes' /\ StacksInv' => TypeOK'
<1>1. (PlainTypes /\ StacksInv => TypeOK)'
  BY TypesFollow, PTL
<1>2. QED
  BY <1>1, Zenon

\* The handler that runs: the machine has booted, and where its frame is.
LEMMA HandlerRuns ==
    ASSUME InterruptsInv, InHandler
    PROVE  /\ entry_pc = "booted" /\ current \in Contexts /\ PlainTypes
           /\ stack[current] \in Seq(Frames) /\ Top \in Frames
           /\ Len(stack[current]) \in Nat /\ Len(stack[current]) > 0
<1>1. PlainTypes /\ current \in Contexts
  BY Zenon DEF InterruptsInv, NothingLeftInService, TypeOK, PlainTypes, Terminals
<1>2. entry_pc = "booted"
  BY <1>1, Zenon DEF InterruptsInv, MasksInv, InHandler
<1>3. stack[current] \in Seq(Frames)
  BY <1>1, Zenon DEF InterruptsInv, StacksInv
<1>4. Len(stack[current]) \in Nat /\ Len(stack[current]) > 0 /\ Top \in Frames
  BY <1>3 DEF InHandler, Top
<1>5. QED
  BY <1>1, <1>2, <1>3, <1>4, Zenon

\* A handler goes on to the stage st on its own stack.
LEMMA TopMoves ==
    ASSUME InterruptsInv, InHandler, NEW st \in Stages, Becomes(st), UNCHANGED others,
           RunningTop([irq |-> Top.irq, stage |-> st]),
           IF_flag' => st \in {"tail", "execute"}
    PROVE  StacksInv' /\ InHandler' /\ Top' = [irq |-> Top.irq, stage |-> st]
<1> DEFINE s == stack[current]
           r == [s EXCEPT ![Len(s)].stage = st]
           n == Len(s)
<1>1. current \in Contexts /\ s \in Seq(Frames) /\ s # <<>> /\ StacksInv
  BY HandlerRuns, Zenon DEF InHandler, InterruptsInv
<1>2. stack' = [stack EXCEPT ![current] = r] /\ stack \in [Contexts -> Seq(Frames)]
  BY <1>1, Zenon DEF Becomes, StacksInv
<1>3. /\ r \in Seq(Frames) /\ Len(r) = n /\ n \in Nat /\ n > 0
      /\ \A k \in 1 .. n - 1 : r[k] = s[k]
      /\ r[n] = [irq |-> Top.irq, stage |-> st]
      /\ r # <<>>
  <2>1. r = [s EXCEPT ![Len(s)].stage = st] /\ Top = s[Len(s)]
    BY Zenon DEF Top
  <2> HIDE DEF r, s
  <2>2. /\ r \in Seq(Frames) /\ Len(r) = Len(s) /\ Len(s) \in Nat /\ Len(s) > 0
        /\ \A k \in 1 .. Len(s) - 1 : r[k] = s[k]
        /\ r[Len(s)] = [irq |-> s[Len(s)].irq, stage |-> st]
        /\ s[Len(s)] \in Frames /\ r # <<>>
    BY SMTT(40), <1>1, <2>1, TopSet
  <2>3. QED
    BY <2>1, <2>2, Zenon
<1> HIDE DEF r
<1>4. /\ stack' \in [Contexts -> Seq(Frames)] /\ stack'[current] = r
      /\ \A c \in Contexts \ {current} : stack'[c] = stack[c]
  BY <1>1, <1>2, <1>3, Zenon
<1>5. started' = started /\ current' = current /\ Unstarted' = Unstarted
  BY Zenon DEF others, Unstarted
<1>6. \A c \in Contexts : Len(stack'[c]) <= MaxFrames
  BY <1>1, <1>3, <1>4, Zenon DEF StacksInv
<1>7. \A c \in Unstarted : stack'[c] = <<>>
  <2> TAKE c \in Unstarted
  <2>1. c # current /\ c \in Contexts
    BY <1>1, ContextsAre, Zenon DEF StacksInv, Unstarted, Terminals
  <2>2. QED
    BY <1>1, <1>4, <2>1, Zenon DEF StacksInv
<1>8. \A c \in (started \cup {BootStack}) \ {current} : Suspended(stack'[c])
  <2> TAKE c \in (started \cup {BootStack}) \ {current}
  <2>1. c \in Contexts \ {current}
    BY ContextsAre, HandlerRuns, Zenon DEF PlainTypes
  <2>2. QED
    BY <1>1, <1>4, <2>1, Zenon DEF StacksInv
<1>9. /\ Nested(r, n - 1)
      /\ \A k \in 1 .. n - 1 : r[k].stage = "execute" => Unstarted # {}
  <2>1. \A k \in 1 .. n : r[k].irq = s[k].irq
    BY <1>3 DEF Top
  <2>2. Nested(s, n - 1) /\ \A k \in 1 .. n - 1 : s[k].stage = "execute" => Unstarted # {}
    BY <1>1, Zenon DEF StacksInv
  <2>3. \A k \in 1 .. n - 1 : \A l \in k + 1 .. n : l \in 1 .. n
    BY <1>3
  <2>4. QED
    BY ZenonT(60), <1>3, <2>1, <2>2, <2>3 DEF Nested
<1>10. Top' = [irq |-> Top.irq, stage |-> st] /\ InHandler'
  BY <1>3, <1>4, <1>5, Zenon DEF Top, InHandler
<1>11. RunningTop(Top)'
  BY <1>5, <1>10, Zenon DEF RunningTop
<1>12. IF_flag' => Top'.stage \in {"tail", "execute"}
  BY <1>10, Zenon
<1>13. /\ current' = BootStack <=> started' = {}
       /\ current' \in started' \cup {BootStack}
  BY <1>1, <1>5, Zenon DEF StacksInv
<1>14. /\ Nested(stack'[current'], Len(stack'[current']) - 1)
       /\ \A k \in 1 .. Len(stack'[current']) - 1 :
             stack'[current'][k].stage = "execute" => Unstarted' # {}
  BY <1>3, <1>4, <1>5, <1>9, Zenon
<1>15. StacksInv'
  BY <1>4, <1>5, <1>6, <1>7, <1>8, <1>10, <1>11, <1>12, <1>13, <1>14, Zenon DEF StacksInv
<1>16. QED
  BY <1>10, <1>15, Zenon

\* Once booted, the masks stay as they are.
LEMMA MasksKept ==
    ASSUME MasksInv, entry_pc = "booted", UNCHANGED <<entry_pc, imr, mask>>
    PROVE  MasksInv'
BY Zenon DEF MasksInv

\* A handler that has acknowledged goes on: the whole invariant.
LEMMA MovesInv ==
    ASSUME InterruptsInv, InHandler, NEW st \in Stages \ {"begin"}, Becomes(st),
           UNCHANGED <<entry_pc, irr, imr, mask, others>>,
           RunningTop([irq |-> Top.irq, stage |-> st]),
           IF_flag' \in BOOLEAN, IF_flag' => st \in {"tail", "execute"},
           regC' \in BOOLEAN, isr' = {}
    PROVE  InterruptsInv'
<1>1. StacksInv' /\ InHandler' /\ Top' = [irq |-> Top.irq, stage |-> st]
  BY TopMoves, Zenon
<1>2. PlainTypes'
  BY HandlerRuns, Zenon DEF PlainTypes, others
<1>3. MasksInv'
  BY HandlerRuns, MasksKept, Zenon DEF InterruptsInv
<1>4. TypeOK'
  BY <1>1, <1>2, NextTypesFollow, Zenon
<1>5. Top'.stage # "begin"
  BY <1>1, Zenon
<1>6. QED
  BY <1>1, <1>3, <1>4, <1>5, Zenon DEF InterruptsInv, NothingLeftInService

\* What is in service while a handler runs, and after its send_eoi.
LEMMA Served ==
    ASSUME InterruptsInv, InHandler
    PROVE  /\ Top.stage = "begin" => isr = {Top.irq, Line(Top.irq)}
           /\ Top.stage # "begin" => isr = {}
           /\ Top.stage = "begin" => isr \ Acknowledged(Top.irq) = {}
<1>1. /\ Top.stage = "begin" => isr = {Top.irq, Line(Top.irq)}
      /\ Top.stage # "begin" => isr = {}
  BY Zenon DEF InterruptsInv, NothingLeftInService
<1>2. Top.irq \in Driven
  BY HandlerRuns, Zenon DEF Frames
<1>3. QED
  BY <1>1, <1>2, Lines, Zenon DEF Driven

\* The keyboard handler acknowledges before it enables interrupts.
LEMMA KeyboardStep ==
    ASSUME InterruptsInv, keyboard_acknowledge \/ keyboard_sti
    PROVE  InterruptsInv'
<1>1. CASE keyboard_acknowledge
  <2>1. /\ InHandler /\ Top.irq = KEYBOARD_IRQ /\ Top.stage = "begin" /\ Becomes("acked")
        /\ isr' = isr \ Acknowledged(Top.irq) /\ IF_flag' = IF_flag
        /\ UNCHANGED <<entry_pc, irr, imr, mask, regC, others>>
    BY <1>1, Zenon DEF keyboard_acknowledge, At, send_eoi, devices
  <2>2. isr' = {}
    BY <2>1, Served, Zenon
  <2>3. IF_flag' = FALSE
    BY <2>1, HandlerRuns, Zenon DEF InterruptsInv, StacksInv, PlainTypes
  <2>4. regC' \in BOOLEAN
    BY <2>1, HandlerRuns, Zenon DEF PlainTypes
  <2>5. "acked" \in Stages \ {"begin"} /\ RunningTop([irq |-> Top.irq, stage |-> "acked"])
    BY <2>1, Zenon DEF Stages, RunningTop
  <2>6. QED
    BY ZenonT(60), <2>1, <2>2, <2>3, <2>4, <2>5, MovesInv
<1>2. CASE keyboard_sti
  <2>1. /\ InHandler /\ Top.irq = KEYBOARD_IRQ /\ Top.stage = "acked" /\ Becomes("tail")
        /\ isr' = isr /\ IF_flag' = TRUE
        /\ UNCHANGED <<entry_pc, irr, imr, mask, regC, others>>
    BY <1>2, Zenon DEF keyboard_sti, At, pic, devices
  <2>2. isr' = {}
    BY <2>1, Served, Zenon
  <2>3. regC' \in BOOLEAN
    BY <2>1, HandlerRuns, Zenon DEF PlainTypes
  <2>4. "tail" \in Stages \ {"begin"} /\ RunningTop([irq |-> Top.irq, stage |-> "tail"])
    BY Zenon DEF Stages, RunningTop
  <2>5. QED
    BY <2>1, <2>2, <2>3, <2>4, MovesInv, Zenon
<1>3. QED
  BY <1>1, <1>2, Zenon

\* The clock's handler acknowledges and returns with interrupts off.
LEMMA ClockStep ==
    ASSUME InterruptsInv, RTC_acknowledge
    PROVE  InterruptsInv'
<1>1. /\ InHandler /\ Top.irq = RTC_IRQ /\ Top.stage = "begin" /\ Becomes("tail")
      /\ isr' = isr \ Acknowledged(Top.irq) /\ IF_flag' = IF_flag /\ regC' = FALSE
      /\ UNCHANGED <<entry_pc, irr, imr, mask, others>>
  BY Zenon DEF RTC_acknowledge, At, send_eoi
<1>2. isr' = {}
  BY <1>1, Served, Zenon
<1>3. IF_flag' \in BOOLEAN
  BY <1>1, HandlerRuns, Zenon DEF PlainTypes
<1>4. "tail" \in Stages \ {"begin"} /\ RunningTop([irq |-> Top.irq, stage |-> "tail"])
  BY Zenon DEF Stages, RunningTop
<1>5. QED
  BY ZenonT(60), <1>1, <1>2, <1>3, <1>4, MovesInv

\* The timer's handler acknowledges before task_switch, which enables
\* interrupts before it starts a shell.
LEMMA TickStep ==
    ASSUME InterruptsInv, PIT_handler \/ task_switch_boot
    PROVE  InterruptsInv'
<1>1. CASE PIT_handler
  <2>1. /\ InHandler /\ Top.irq = PIT_IRQ /\ Top.stage = "begin" /\ Becomes("switch")
        /\ isr' = isr \ Acknowledged(Top.irq) /\ IF_flag' = IF_flag
        /\ UNCHANGED <<entry_pc, irr, imr, mask, regC, others>>
    BY <1>1, Zenon DEF PIT_handler, At, send_eoi, devices
  <2>2. isr' = {}
    BY <2>1, Served, Zenon
  <2>3. IF_flag' = FALSE
    BY <2>1, HandlerRuns, Zenon DEF InterruptsInv, StacksInv, PlainTypes
  <2>4. regC' \in BOOLEAN
    BY <2>1, HandlerRuns, Zenon DEF PlainTypes
  <2>5. "switch" \in Stages \ {"begin"} /\ RunningTop([irq |-> Top.irq, stage |-> "switch"])
    BY <2>1, Zenon DEF Stages, RunningTop
  <2>6. QED
    BY ZenonT(60), <2>1, <2>2, <2>3, <2>4, <2>5, MovesInv
<1>2. CASE task_switch_boot
  <2>1. /\ InHandler /\ Top.irq = PIT_IRQ /\ Top.stage = "switch" /\ Becomes("execute")
        /\ isr' = isr \ Acknowledged(PIT_IRQ) /\ IF_flag' = TRUE /\ Unstarted # {}
        /\ UNCHANGED <<entry_pc, irr, imr, mask, regC, others>>
    BY <1>2, Zenon DEF task_switch_boot, At, send_eoi, devices
  <2>2. isr' = {}
    BY <2>1, Served, Zenon
  <2>3. regC' \in BOOLEAN
    BY <2>1, HandlerRuns, Zenon DEF PlainTypes
  <2>4. "execute" \in Stages \ {"begin"} /\ RunningTop([irq |-> Top.irq, stage |-> "execute"])
    BY <2>1, Zenon DEF Stages, RunningTop
  <2>5. QED
    BY <2>1, <2>2, <2>3, <2>4, MovesInv, Zenon
<1>3. QED
  BY <1>1, <1>2, Zenon

\* An interrupt finds interrupts on: the frame it interrupts has acknowledged,
\* and its own line is one of those left open.
LEMMA InterruptStep ==
    ASSUME InterruptsInv, NEW irq \in Irqs, interrupt(irq)
    PROVE  InterruptsInv'
<1> DEFINE s == stack[current]
           f == [irq |-> irq, stage |-> "begin"]
           r == Append(s, f)
           n == Len(s)
<1>1. /\ TypeOK /\ MasksInv /\ StacksInv /\ PlainTypes
      /\ isr = IF InHandler /\ Top.stage = "begin" THEN {Top.irq, Line(Top.irq)} ELSE {}
  BY Zenon DEF InterruptsInv, NothingLeftInService, TypeOK, PlainTypes, Terminals
<1>2. /\ IF_flag /\ irq \in irr \ imr /\ n < MaxFrames
      /\ irq = PIT_IRQ => ~StartingShell
      /\ irr' = irr \ {irq} /\ isr' = isr \cup {irq, Line(irq)} /\ IF_flag' = FALSE
      /\ stack' = [stack EXCEPT ![current] = r]
      /\ UNCHANGED <<entry_pc, imr, mask, regC, started, current, pit_terminal_num>>
  BY Zenon DEF interrupt, Deliverable, devices, others
<1>3. entry_pc = "booted" /\ irq \in Driven
  <2>1. entry_pc = "booted" /\ imr = AllIrqs \ {PIT_IRQ, KEYBOARD_IRQ, Cascade, RTC_IRQ}
    BY <1>1, <1>2, Zenon DEF MasksInv
  <2>2. QED
    BY <1>2, <2>1, Lines, Zenon DEF Driven
<1>4. current \in Contexts /\ s \in Seq(Frames) /\ stack \in [Contexts -> Seq(Frames)]
  BY <1>1, Zenon DEF PlainTypes, StacksInv
<1>5. f \in Frames
  BY <1>3, Zenon DEF Frames, Stages
<1>6. /\ r \in Seq(Frames) /\ Len(r) = n + 1 /\ n \in Nat
      /\ \A k \in 1 .. n : r[k] = s[k]
      /\ r[n + 1] = f
  BY <1>4, <1>5, TopPush, Zenon
<1>7. InHandler => Top.stage \in {"tail", "execute"} /\ RunningTop(Top) /\ n > 0
  BY <1>1, <1>2, <1>4 DEF StacksInv, InHandler
<1>8. isr = {}
  BY <1>1, <1>7, Zenon
<1> HIDE DEF r, f
<1>9. /\ stack' \in [Contexts -> Seq(Frames)] /\ stack'[current] = r
      /\ \A c \in Contexts \ {current} : stack'[c] = stack[c]
  BY <1>2, <1>4, <1>6, Zenon
<1>10. started' = started /\ current' = current /\ Unstarted' = Unstarted
  BY <1>2, Zenon DEF Unstarted
<1>11. \A c \in Contexts : Len(stack'[c]) <= MaxFrames
  BY <1>1, <1>2, <1>6, <1>9, ContextsAre DEF StacksInv
<1>12. \A c \in Unstarted : stack'[c] = <<>>
  <2> TAKE c \in Unstarted
  <2>1. c # current /\ c \in Contexts
    BY <1>1, ContextsAre, Zenon DEF StacksInv, Unstarted, Terminals
  <2>2. QED
    BY <1>1, <1>9, <2>1, Zenon DEF StacksInv
<1>13. \A c \in (started \cup {BootStack}) \ {current} : Suspended(stack'[c])
  <2> TAKE c \in (started \cup {BootStack}) \ {current}
  <2>1. c \in Contexts \ {current}
    BY <1>1, ContextsAre, Zenon DEF PlainTypes
  <2>2. QED
    BY <1>1, <1>9, <2>1, Zenon DEF StacksInv
<1>14. \A k \in 1 .. n :
         /\ s[k].stage \in {"tail", "execute"}
         /\ s[k].stage = "execute" =>
               /\ s[k].irq = PIT_IRQ /\ Unstarted # {}
               /\ \A l \in k + 1 .. n : s[l].irq # PIT_IRQ
  <2> TAKE k \in 1 .. n
  <2>1. CASE k = n
    <3>1. InHandler /\ Top = s[k]
      BY <1>4, <1>6, <2>1 DEF InHandler, Top
    <3>2. QED
      BY <1>6, <1>7, <2>1, <3>1 DEF RunningTop
  <2>2. CASE k # n
    <3>1. k \in 1 .. n - 1
      BY <1>6, <2>2
    <3>2. QED
      BY <1>1, <3>1, Zenon DEF StacksInv, Nested
  <2>3. QED
    BY <2>1, <2>2, Zenon
<1>15. \A k \in 1 .. n : s[k].stage = "execute" => irq # PIT_IRQ
  <2>1. DOMAIN s = 1 .. n
    BY <1>4
  <2>2. QED
    BY <1>2, <2>1, Zenon DEF StartingShell
<1>16. Nested(r, n) /\ \A k \in 1 .. n : r[k].stage = "execute" => Unstarted # {}
  <2>1. \A m \in Nat : \A k \in 1 .. m : \A l \in k + 1 .. m + 1 :
          l = m + 1 \/ (l \in k + 1 .. m /\ l \in 1 .. m)
    OBVIOUS
  <2>2. r[n + 1].irq = irq
    BY <1>6 DEF f
  <2>3. QED
    <3>1. ASSUME NEW k \in 1 .. n, r[k].stage = "execute", NEW l \in k + 1 .. Len(r)
          PROVE  r[l].irq # PIT_IRQ
      <4>1. l = n + 1 \/ (l \in k + 1 .. n /\ l \in 1 .. n)
        BY <1>6, <2>1, Zenon
      <4>2. QED
        BY <1>6, <1>14, <1>15, <2>2, <3>1, <4>1, Zenon
    <3>2. QED
      BY ZenonT(60), <1>6, <1>14, <3>1 DEF Nested
<1>17. InHandler' /\ Top' = f
  BY <1>6, <1>9, <1>10 DEF InHandler, Top
<1>18. RunningTop(Top)'
  BY <1>17, Zenon DEF RunningTop, f
<1>19. /\ Nested(stack'[current'], Len(stack'[current']) - 1)
       /\ \A k \in 1 .. Len(stack'[current']) - 1 :
             stack'[current'][k].stage = "execute" => Unstarted' # {}
  <2>1. (n + 1) - 1 = n
    BY SMTT(40), <1>6
  <2>2. QED
    BY <1>6, <1>9, <1>10, <1>16, <2>1, Zenon
<1>20. StacksInv'
  BY <1>1, <1>2, <1>9, <1>10, <1>11, <1>12, <1>13, <1>17, <1>18, <1>19, Zenon DEF StacksInv
<1>21. PlainTypes'
  <2>1. irq \in AllIrqs /\ Line(irq) \in AllIrqs
    BY Lines, Zenon
  <2>2. QED
    BY ZenonT(60), <1>1, <1>2, <1>8, <2>1 DEF PlainTypes
<1>22. isr' = {Top'.irq, Line(Top'.irq)} /\ Top'.stage = "begin"
  BY <1>2, <1>8, <1>17, Zenon DEF f
<1>23. QED
  BY ZenonT(60), <1>1, <1>2, <1>3, <1>17, <1>20, <1>21, <1>22, MasksKept, NextTypesFollow
     DEF InterruptsInv, NothingLeftInService, Line

\* A handler returns to what it interrupted, which ran with interrupts on.
LEMMA ReturnStep ==
    ASSUME InterruptsInv, iret
    PROVE  InterruptsInv'
<1> DEFINE s == stack[current]
           n == Len(s)
           r == SubSeq(s, 1, n - 1)
<1>1. /\ InHandler /\ Top.stage = "tail" /\ IF_flag' = TRUE
      /\ stack' = [stack EXCEPT ![current] = r]
      /\ UNCHANGED <<entry_pc, irr, isr, imr, mask, regC, started, current, pit_terminal_num>>
  BY Zenon DEF iret, pic, devices, others
<1>2. /\ entry_pc = "booted" /\ current \in Contexts /\ PlainTypes /\ MasksInv /\ StacksInv
      /\ s \in Seq(Frames) /\ s # <<>> /\ n \in Nat /\ n > 0
      /\ stack \in [Contexts -> Seq(Frames)]
  BY <1>1, HandlerRuns, Zenon DEF InterruptsInv, StacksInv, InHandler
<1>3. isr = {}
  BY <1>1, Served, Zenon
<1>4. /\ r \in Seq(Frames) /\ Len(r) = n - 1
      /\ \A k \in 1 .. n - 1 : r[k] = s[k]
  BY <1>2, TopPop, Zenon
<1> HIDE DEF r
<1>5. /\ stack' \in [Contexts -> Seq(Frames)] /\ stack'[current] = r
      /\ \A c \in Contexts \ {current} : stack'[c] = stack[c]
  BY <1>1, <1>2, <1>4, Zenon
<1>6. started' = started /\ current' = current /\ Unstarted' = Unstarted
  BY <1>1, Zenon DEF Unstarted
<1>7. \A c \in Contexts : Len(stack'[c]) <= MaxFrames
  BY <1>2, <1>4, <1>5, ContextsAre DEF StacksInv
<1>8. \A c \in Unstarted : stack'[c] = <<>>
  <2> TAKE c \in Unstarted
  <2>1. c # current /\ c \in Contexts
    BY <1>2, ContextsAre, Zenon DEF StacksInv, Unstarted, Terminals
  <2>2. QED
    BY <1>2, <1>5, <2>1, Zenon DEF StacksInv
<1>9. \A c \in (started \cup {BootStack}) \ {current} : Suspended(stack'[c])
  <2> TAKE c \in (started \cup {BootStack}) \ {current}
  <2>1. c \in Contexts \ {current}
    BY <1>2, ContextsAre, Zenon DEF PlainTypes
  <2>2. QED
    BY <1>2, <1>5, <2>1, Zenon DEF StacksInv
<1>10. \A k \in 1 .. n - 1 :
         /\ r[k].stage \in {"tail", "execute"}
         /\ r[k].stage = "execute" =>
               /\ r[k].irq = PIT_IRQ /\ Unstarted # {}
               /\ \A l \in k + 1 .. n - 1 : r[l].irq # PIT_IRQ
  <2> TAKE k \in 1 .. n - 1
  <2>1. \A l \in k + 1 .. n - 1 : l \in 1 .. n - 1 /\ l \in k + 1 .. n
    BY <1>2
  <2>2. QED
    BY <1>2, <1>4, <2>1, Zenon DEF StacksInv, Nested
<1>11. \A k \in 1 .. (n - 1) - 1 : k \in 1 .. n - 1
  BY <1>2
<1>12. /\ Nested(stack'[current'], Len(stack'[current']) - 1)
       /\ \A k \in 1 .. Len(stack'[current']) - 1 :
             stack'[current'][k].stage = "execute" => Unstarted' # {}
  BY <1>4, <1>5, <1>6, <1>10, <1>11, Zenon DEF Nested
<1>13. ASSUME InHandler'
       PROVE  RunningTop(Top)' /\ Top'.stage \in {"tail", "execute"} /\ Top'.stage # "begin"
  <2>1. n - 1 \in 1 .. n - 1
    BY SMTT(40), <1>2, <1>4, <1>5, <1>6, <1>13 DEF InHandler
  <2>2. Top' = r[n - 1]
    BY <1>4, <1>5, <1>6, Zenon DEF Top
  <2>3. QED
    BY <1>6, <1>10, <2>1, <2>2, Zenon DEF RunningTop
<1>14. StacksInv'
  BY <1>2, <1>5, <1>6, <1>7, <1>8, <1>9, <1>12, <1>13, Zenon DEF StacksInv
<1>15. PlainTypes'
  BY <1>1, <1>2, Zenon DEF PlainTypes
<1>16. QED
  BY <1>1, <1>2, <1>3, <1>13, <1>14, <1>15, MasksKept, NextTypesFollow, Zenon
     DEF InterruptsInv, NothingLeftInService

\* execute starts the shell of a terminal that has none, on an empty stack, and
\* what task_switch was called from stays behind as a suspended stack.
LEMMA ExecuteStep ==
    ASSUME InterruptsInv, execute_shell, Unstarted # {} => First(Unstarted) \in Unstarted
    PROVE  InterruptsInv'
<1> DEFINE s == stack[current]
           n == Len(s)
           r == [s EXCEPT ![Len(s)].stage = "switched"]
           i == First(Unstarted)
<1>1. /\ InHandler /\ Top = [irq |-> PIT_IRQ, stage |-> "execute"]
      /\ started' = started \cup {i} /\ current' = i
      /\ UNCHANGED <<entry_pc, IF_flag, irr, isr, imr, mask, regC, pit_terminal_num>>
  BY Zenon DEF execute_shell, At, pic, devices
<1>2. /\ entry_pc = "booted" /\ current \in Contexts /\ PlainTypes /\ MasksInv /\ StacksInv
      /\ s \in Seq(Frames) /\ s # <<>> /\ n \in Nat /\ n > 0
      /\ stack \in [Contexts -> Seq(Frames)]
  BY <1>1, HandlerRuns, Zenon DEF InterruptsInv, StacksInv, InHandler
<1>3. isr = {}
  BY <1>1, Served, Zenon
<1>4. i \in Unstarted
  <2>1. RunningTop(Top)
    BY <1>1, <1>2, Zenon DEF StacksInv
  <2>2. Unstarted # {}
    BY <1>1, <2>1, Zenon DEF RunningTop
  <2>3. QED
    BY <2>2, Zenon
<1>5. i \in Terminals /\ i \in Contexts /\ i \notin started /\ i # current /\ stack[i] = <<>>
  BY <1>2, <1>4, ContextsAre, Zenon DEF Unstarted, Terminals, StacksInv
<1>6. /\ r \in Seq(Frames) /\ Len(r) = n
      /\ \A k \in 1 .. n - 1 : r[k] = s[k]
      /\ r[n] = [irq |-> PIT_IRQ, stage |-> "switched"]
      /\ r # <<>>
  <2>1. PICK st \in Stages : st = "switched"
    BY Zenon DEF Stages
  <2>2. r = [s EXCEPT ![Len(s)].stage = st] /\ Top = s[Len(s)]
    BY <2>1, Zenon DEF Top
  <2>3. s \in Seq(Frames) /\ s # <<>>
    BY <1>2, Zenon
  <2> HIDE DEF r, s
  <2>4. /\ r \in Seq(Frames) /\ Len(r) = Len(s) /\ Len(s) \in Nat /\ Len(s) > 0
        /\ \A k \in 1 .. Len(s) - 1 : r[k] = s[k]
        /\ r[Len(s)] = [irq |-> s[Len(s)].irq, stage |-> st]
        /\ s[Len(s)] \in Frames /\ r # <<>>
    BY SMTT(40), <2>3, <2>2, TopSet
  <2>5. QED
    BY <1>1, <2>1, <2>2, <2>4
<1>7. stack' = [stack EXCEPT ![current] = r]
  BY <1>2, Zenon DEF execute_shell
<1> HIDE DEF r, i
<1>8. /\ stack' \in [Contexts -> Seq(Frames)] /\ stack'[current] = r
      /\ \A c \in Contexts \ {current} : stack'[c] = stack[c]
  BY <1>2, <1>6, <1>7, Zenon
<1>9. \A k \in 1 .. n - 1 : s[k].stage = "tail"
  <2> TAKE k \in 1 .. n - 1
  <2>1. n \in k + 1 .. n /\ s[n] = Top
    BY <1>2 DEF Top
  <2>2. QED
    BY <1>1, <1>2, <2>1 DEF StacksInv, Nested
<1>10. Suspended(r)
  BY <1>6, <1>9, Zenon DEF Suspended
<1>11. \A c \in Contexts : Len(stack'[c]) <= MaxFrames
  BY <1>2, <1>6, <1>8, Zenon DEF StacksInv
<1>12. Unstarted' = Unstarted \ {i} /\ i # BootStack
  BY <1>1, <1>5, ContextsAre, Zenon DEF Unstarted
<1>13. \A c \in Unstarted' : stack'[c] = <<>>
  <2> SUFFICES ASSUME NEW c \in Unstarted PROVE stack'[c] = <<>>
    BY <1>12, Zenon
  <2>1. c # current /\ c \in Contexts
    BY <1>2, ContextsAre, Zenon DEF StacksInv, Unstarted, Terminals
  <2>2. QED
    BY <1>2, <1>8, <2>1, Zenon DEF StacksInv
<1>14. \A c \in (started' \cup {BootStack}) \ {current'} : Suspended(stack'[c])
  <2> TAKE c \in (started' \cup {BootStack}) \ {current'}
  <2>1. c \in started \cup {BootStack} /\ c \in Contexts
    BY <1>1, <1>2, ContextsAre, Zenon DEF PlainTypes
  <2>2. CASE c = current
    BY <1>8, <1>10, <2>2, Zenon
  <2>3. CASE c # current
    BY <1>2, <1>8, <2>1, <2>3, Zenon DEF StacksInv
  <2>4. QED
    BY <2>2, <2>3, Zenon
<1>15. stack'[current'] = <<>> /\ ~InHandler'
  BY <1>1, <1>5, <1>8, Zenon DEF InHandler
<1>16. /\ Nested(stack'[current'], Len(stack'[current']) - 1)
       /\ \A k \in 1 .. Len(stack'[current']) - 1 :
             stack'[current'][k].stage = "execute" => Unstarted' # {}
  <2>1. Len(stack'[current']) = 0
    BY <1>15
  <2>2. 1 .. Len(stack'[current']) - 1 = {}
    BY SMTT(40), <2>1
  <2>3. QED
    BY <2>2, Zenon DEF Nested
<1>17. StacksInv'
  BY <1>1, <1>8, <1>11, <1>12, <1>13, <1>14, <1>15, <1>16, Zenon DEF StacksInv
<1>18. PlainTypes'
  BY <1>1, <1>2, <1>5, Zenon DEF PlainTypes
<1>19. QED
  BY <1>1, <1>2, <1>3, <1>15, <1>17, <1>18, MasksKept, NextTypesFollow, Zenon
     DEF InterruptsInv, NothingLeftInService

\* The terminals take turns.
LEMMA NextTerminalType == pit_terminal_num \in Terminals => NextTerminal \in Terminals
BY InterruptsAssumption DEF NextTerminal, Terminals

\* task_switch saves the stack it is called on and goes on in the task_switch
\* of the next terminal, its own included.
LEMMA SwitchStep ==
    ASSUME InterruptsInv, task_switch
    PROVE  InterruptsInv'
<1> DEFINE s == stack[current]
           n == Len(s)
           r == [s EXCEPT ![Len(s)].stage = "switched"]
           next == NextTerminal
           saved == [stack EXCEPT ![current] = r]
           q == saved[next]
           m == Len(q)
           x == [q EXCEPT ![Len(q)].stage = "tail"]
<1>1. /\ InHandler /\ Top = [irq |-> PIT_IRQ, stage |-> "switch"] /\ Unstarted = {}
      /\ current' = next /\ pit_terminal_num' = next /\ IF_flag' = TRUE
      /\ UNCHANGED <<entry_pc, irr, isr, imr, mask, regC, started>>
  BY Zenon DEF task_switch, At, pic, devices
<1>2. /\ entry_pc = "booted" /\ current \in Contexts /\ PlainTypes /\ MasksInv /\ StacksInv
      /\ s \in Seq(Frames) /\ s # <<>> /\ n \in Nat /\ n > 0
      /\ stack \in [Contexts -> Seq(Frames)]
  BY <1>1, HandlerRuns, Zenon DEF InterruptsInv, StacksInv, InHandler
<1>3. isr = {}
  BY <1>1, Served, Zenon
<1>4. next \in Terminals /\ next \in started /\ next \in Contexts /\ next # BootStack
  BY <1>1, <1>2, NextTerminalType, ContextsAre, Zenon DEF PlainTypes, Unstarted, Terminals
<1>5. /\ r \in Seq(Frames) /\ Len(r) = n
      /\ \A k \in 1 .. n - 1 : r[k] = s[k]
      /\ r[n] = [irq |-> PIT_IRQ, stage |-> "switched"]
      /\ r # <<>>
  <2>1. PICK st \in Stages : st = "switched"
    BY Zenon DEF Stages
  <2>2. r = [s EXCEPT ![Len(s)].stage = st] /\ Top = s[Len(s)]
    BY <2>1, Zenon DEF Top
  <2>3. s \in Seq(Frames) /\ s # <<>>
    BY <1>2, Zenon
  <2> HIDE DEF r, s
  <2>4. /\ r \in Seq(Frames) /\ Len(r) = Len(s) /\ Len(s) \in Nat /\ Len(s) > 0
        /\ \A k \in 1 .. Len(s) - 1 : r[k] = s[k]
        /\ r[Len(s)] = [irq |-> s[Len(s)].irq, stage |-> st]
        /\ s[Len(s)] \in Frames /\ r # <<>>
    BY <2>3, <2>2, TopSet
  <2>5. QED
    BY SMTT(40), <1>1, <2>1, <2>2, <2>4
<1>6. \A k \in 1 .. n - 1 : s[k].stage = "tail"
  <2> TAKE k \in 1 .. n - 1
  <2>1. n \in k + 1 .. n /\ s[n] = Top
    BY <1>2 DEF Top
  <2>2. QED
    BY <1>1, <1>2, <2>1, Zenon DEF StacksInv, Nested
<1>7. stack' = [saved EXCEPT ![next] = x]
  <2> DEFINE old == [stack EXCEPT ![current][Len(stack[current])].stage = "switched"]
  <2>1. stack' = [old EXCEPT ![next][Len(old[next])].stage = "tail"]
    BY Zenon DEF task_switch
  <2>2. old = saved
    BY <1>2, Zenon
  <2>3. next \in DOMAIN saved
    BY <1>2, <1>4, Zenon
  <2> HIDE DEF saved, old
  <2>4. QED
    BY <2>1, <2>2, <2>3, Zenon
<1>8. Suspended(r)
  BY <1>5, <1>6, Zenon DEF Suspended
<1> HIDE DEF r
<1>9. /\ saved \in [Contexts -> Seq(Frames)] /\ saved[current] = r
      /\ \A c \in Contexts \ {current} : saved[c] = stack[c]
  BY <1>2, <1>5, Zenon
<1> HIDE DEF saved
<1>10. \A c \in started \cup {BootStack} : Suspended(saved[c])
  <2> TAKE c \in started \cup {BootStack}
  <2>1. c \in Contexts
    BY <1>2, ContextsAre, Zenon DEF PlainTypes
  <2>2. CASE c = current
    BY <1>8, <1>9, <2>2, Zenon
  <2>3. CASE c # current
    BY <1>2, <1>9, <2>1, <2>3, Zenon DEF StacksInv
  <2>4. QED
    BY <2>2, <2>3, Zenon
<1>11. /\ q \in Seq(Frames) /\ q # <<>> /\ m \in Nat /\ m > 0
       /\ q[m] = [irq |-> PIT_IRQ, stage |-> "switched"]
       /\ \A k \in 1 .. m - 1 : q[k].stage = "tail"
  <2>1. q \in Seq(Frames) /\ Suspended(q)
    BY <1>4, <1>9, <1>10, Zenon
  <2> HIDE DEF q
  <2>2. QED
    BY <2>1 DEF Suspended
<1>12. /\ x \in Seq(Frames) /\ Len(x) = m
       /\ \A k \in 1 .. m - 1 : x[k] = q[k]
       /\ x[m] = [irq |-> PIT_IRQ, stage |-> "tail"]
       /\ x # <<>>
  <2>1. PICK st \in Stages : st = "tail"
    BY Zenon DEF Stages
  <2>2. x = [q EXCEPT ![Len(q)].stage = st]
    BY <2>1, Zenon
  <2> HIDE DEF x, q
  <2>3. /\ x \in Seq(Frames) /\ Len(x) = Len(q) /\ Len(q) \in Nat /\ Len(q) > 0
        /\ \A k \in 1 .. Len(q) - 1 : x[k] = q[k]
        /\ x[Len(q)] = [irq |-> q[Len(q)].irq, stage |-> st]
        /\ q[Len(q)] \in Frames /\ x # <<>>
    BY SMTT(40), <1>11, <2>2, TopSet
  <2>4. QED
    BY <1>11, <2>1, <2>3
<1> HIDE DEF x
<1>13. /\ stack' \in [Contexts -> Seq(Frames)] /\ stack'[next] = x
       /\ \A c \in Contexts \ {next} : stack'[c] = saved[c]
  BY <1>4, <1>7, <1>9, <1>12, Zenon
<1>14. \A c \in Contexts : Len(stack'[c]) <= MaxFrames
  <2> TAKE c \in Contexts
  <2>1. \A d \in Contexts : Len(saved[d]) <= MaxFrames
    BY <1>2, <1>5, <1>9, Zenon DEF StacksInv
  <2>2. QED
    BY <1>4, <1>12, <1>13, <2>1, Zenon
<1>15. Unstarted' = {}
  BY <1>1, Zenon DEF Unstarted
<1>16. \A c \in (started \cup {BootStack}) \ {next} : Suspended(stack'[c])
  <2> TAKE c \in (started \cup {BootStack}) \ {next}
  <2>1. c \in Contexts
    BY <1>2, ContextsAre, Zenon DEF PlainTypes
  <2>2. QED
    BY <1>10, <1>13, <2>1, Zenon
<1>17. \A k \in 1 .. m - 1 : x[k].stage = "tail"
  BY <1>11, <1>12, Zenon
<1>18. /\ Nested(stack'[current'], Len(stack'[current']) - 1)
       /\ \A k \in 1 .. Len(stack'[current']) - 1 :
             stack'[current'][k].stage = "execute" => Unstarted' # {}
  BY <1>1, <1>12, <1>13, <1>17, Zenon DEF Nested
<1>19. InHandler' /\ Top' = [irq |-> PIT_IRQ, stage |-> "tail"]
  BY <1>1, <1>12, <1>13, Zenon DEF InHandler, Top
<1>20. RunningTop(Top)'
  BY <1>19, Zenon DEF RunningTop
<1>21. StacksInv'
  BY <1>1, <1>4, <1>13, <1>14, <1>15, <1>16, <1>18, <1>19, <1>20, Zenon DEF StacksInv
<1>22. PlainTypes'
  BY <1>1, <1>2, <1>4, Zenon DEF PlainTypes
<1>23. QED
  BY <1>1, <1>2, <1>3, <1>19, <1>21, <1>22, MasksKept, NextTypesFollow, Zenon
     DEF InterruptsInv, NothingLeftInService

-----------------------------------------------------------------------------
(* Boot and the devices *)

\* No handler runs before entry has enabled interrupts.
LEMMA BootState ==
    ASSUME InterruptsInv, entry_pc # "booted"
    PROVE  /\ PlainTypes /\ MasksInv /\ StacksInv /\ ~InHandler
           /\ isr = {} /\ IF_flag = FALSE
<1>1. PlainTypes /\ MasksInv /\ StacksInv
  BY Zenon DEF InterruptsInv, NothingLeftInService, TypeOK, PlainTypes, Terminals
<1>2. QED
  BY <1>1, Zenon DEF MasksInv, InHandler, PlainTypes

\* A step of entry leaves the stacks empty and nothing in service.
LEMMA BootKeeps ==
    ASSUME InterruptsInv, entry_pc # "booted", UNCHANGED contexts, MasksInv',
           IF_flag' \in BOOLEAN, regC' \in BOOLEAN, irr' \subseteq Irqs, isr' = {},
           imr' \subseteq AllIrqs, mask' \subseteq AllIrqs
    PROVE  InterruptsInv'
<1>1. /\ PlainTypes /\ MasksInv /\ StacksInv /\ ~InHandler
      /\ isr = {} /\ IF_flag = FALSE
  BY BootState, Zenon
<1>2. ~InHandler'
  BY <1>1, Zenon DEF InHandler, contexts
<1>3. StacksInv'
  <2>1. Unstarted' = Unstarted
    BY Zenon DEF Unstarted, contexts
  <2>2. QED
    BY <1>1, <1>2, <2>1, Zenon DEF StacksInv, contexts
<1>4. PlainTypes'
  BY <1>1, Zenon DEF PlainTypes, contexts
<1>5. QED
  BY <1>2, <1>3, <1>4, NextTypesFollow, Zenon DEF InterruptsInv, NothingLeftInService

\* What enable_irq writes: the whole mask of the chips its lines belong to.
LEMMA EnabledMasks ==
    ASSUME NEW m \in SUBSET AllIrqs, NEW chip \in SUBSET AllIrqs, NEW irqs \in SUBSET AllIrqs
    PROVE  /\ Enabled(irqs, m, chip).mask = m \ irqs
           /\ Enabled(irqs, m, chip).imr \subseteq AllIrqs
           /\ irqs \cap Master # {} /\ irqs \cap Slave # {} =>
                 Enabled(irqs, m, chip).imr = m \ irqs
           /\ irqs \subseteq Master /\ irqs # {} /\ chip = m =>
                 Enabled(irqs, m, chip).imr = m \ irqs
<1>1. AllIrqs = Master \cup Slave /\ Master \cap Slave = {}
  BY DEF AllIrqs, Master, Slave
<1>2. QED
  BY <1>1, Zenon DEF Enabled

\* Every step of entry.
LEMMA BootsStep ==
    ASSUME InterruptsInv, Boot
    PROVE  InterruptsInv'
<1>1. entry_pc # "booted" /\ UNCHANGED contexts
  BY Zenon DEF Boot, i8259_init, keyboard_send, keyboard_poll, initialize_RTC, initialize_PIT,
         enable_interrupts, BootStep
<1>2. /\ PlainTypes /\ MasksInv /\ StacksInv /\ ~InHandler
      /\ isr = {} /\ IF_flag = FALSE
  BY <1>1, BootState, Zenon
<1>3. started = {} /\ \A c \in Contexts : stack[c] = <<>>
  BY <1>1, <1>2, Zenon DEF MasksInv
<1>4. started' = {} /\ \A c \in Contexts : stack'[c] = <<>>
  BY <1>1, <1>3, Zenon DEF contexts
<1>5. KEYBOARD_IRQ \in AllIrqs /\ PIT_IRQ \in AllIrqs /\ Cascade \in AllIrqs /\ RTC_IRQ \in AllIrqs
      /\ KEYBOARD_IRQ \in Master /\ PIT_IRQ \in Master /\ Cascade \in Master /\ RTC_IRQ \in Slave
  BY DEF KEYBOARD_IRQ, PIT_IRQ, Cascade, RTC_IRQ, AllIrqs, Master, Slave
<1>6. mask \in SUBSET AllIrqs /\ imr \in SUBSET AllIrqs
  BY <1>2, Zenon DEF PlainTypes
<1>7. CASE i8259_init
  <2>1. /\ entry_pc = "i8259_init" /\ entry_pc' = "keyboard_send" /\ imr' = {} /\ irr' = {} /\ isr' = {}
        /\ UNCHANGED <<IF_flag, mask, regC>>
    BY <1>7, Zenon DEF i8259_init, devices
  <2>2. MasksInv'
    BY <1>2, <1>4, <2>1, Zenon DEF MasksInv
  <2>3. QED
    BY <1>1, <1>2, <2>1, <2>2, BootKeeps, Zenon DEF PlainTypes
<1>8. CASE keyboard_send \/ (keyboard_poll /\ reply = "resend")
  <2>1. /\ entry_pc \in {"keyboard_send", "keyboard_poll"} /\ entry_pc' \in {"keyboard_send", "keyboard_poll"}
        /\ UNCHANGED <<IF_flag, irr, isr, imr, mask, regC>>
    BY <1>8, Zenon DEF keyboard_send, keyboard_poll, BootStep, pic
  <2>2. MasksInv'
    BY <1>2, <1>4, <2>1, Zenon DEF MasksInv
  <2>3. QED
    BY <1>1, <1>2, <2>1, <2>2, BootKeeps, Zenon DEF PlainTypes
<1>9. CASE keyboard_poll /\ reply # "resend"
  <2> DEFINE e == Enabled({KEYBOARD_IRQ}, mask, imr)
  <2>1. /\ entry_pc = "keyboard_poll" /\ entry_pc' = "initialize_RTC"
        /\ mask' = e.mask /\ imr' = e.imr /\ UNCHANGED <<IF_flag, irr, isr, regC>>
    BY <1>9, Zenon DEF keyboard_poll, BootStep, enable_irq
  <2>2. mask' = mask \ {KEYBOARD_IRQ} /\ imr' \subseteq AllIrqs
    <3>1. {KEYBOARD_IRQ} \in SUBSET AllIrqs
      BY <1>5, Zenon
    <3>2. e.mask = mask \ {KEYBOARD_IRQ} /\ e.imr \subseteq AllIrqs
      BY ZenonT(60), <1>6, <3>1, EnabledMasks
    <3>3. QED
      BY <2>1, <3>2, Zenon
  <2>3. MasksInv'
    BY <1>2, <1>4, <2>1, <2>2, Zenon DEF MasksInv
  <2>4. QED
    BY <1>1, <1>2, <2>1, <2>2, <2>3, BootKeeps, Zenon DEF PlainTypes
<1>10. CASE initialize_RTC
  <2> DEFINE e == Enabled({Cascade, RTC_IRQ}, mask, imr)
  <2>1. /\ entry_pc = "initialize_RTC" /\ entry_pc' = "initialize_PIT" /\ regC' = FALSE
        /\ mask' = e.mask /\ imr' = e.imr /\ UNCHANGED <<IF_flag, irr, isr>>
    BY <1>10, Zenon DEF initialize_RTC, BootStep, enable_irq
  <2>2. mask' = mask \ {Cascade, RTC_IRQ} /\ imr' = mask'
    <3>1. /\ {Cascade, RTC_IRQ} \in SUBSET AllIrqs
          /\ {Cascade, RTC_IRQ} \cap Master # {} /\ {Cascade, RTC_IRQ} \cap Slave # {}
      BY <1>5, Zenon
    <3>2. e.mask = mask \ {Cascade, RTC_IRQ} /\ e.imr = mask \ {Cascade, RTC_IRQ}
      BY ZenonT(60), <1>6, <3>1, EnabledMasks
    <3>3. QED
      BY <2>1, <3>2, Zenon
  <2>3. mask' = AllIrqs \ {KEYBOARD_IRQ, Cascade, RTC_IRQ}
    BY <1>2, <2>1, <2>2, Zenon DEF MasksInv
  <2>4. MasksInv'
    BY <1>2, <1>4, <2>1, <2>2, <2>3, Zenon DEF MasksInv
  <2>5. QED
    BY ZenonT(60), <1>1, <1>2, <2>1, <2>2, <2>3, <2>4, BootKeeps DEF PlainTypes
<1>11. CASE initialize_PIT
  <2> DEFINE e == Enabled({PIT_IRQ}, mask, imr)
  <2>1. /\ entry_pc = "initialize_PIT" /\ entry_pc' = "sti"
        /\ mask' = e.mask /\ imr' = e.imr /\ UNCHANGED <<IF_flag, irr, isr, regC>>
    BY <1>11, Zenon DEF initialize_PIT, BootStep, enable_irq, devices
  <2>2. imr = mask /\ mask = AllIrqs \ {KEYBOARD_IRQ, Cascade, RTC_IRQ}
    BY <1>2, <2>1, Zenon DEF MasksInv
  <2>3. mask' = mask \ {PIT_IRQ} /\ imr' = mask'
    <3>1. {PIT_IRQ} \in SUBSET AllIrqs /\ {PIT_IRQ} \subseteq Master /\ {PIT_IRQ} # {}
      BY <1>5, Zenon
    <3>2. imr = mask
      BY <2>2, Zenon
    <3>3. \A m \in SUBSET AllIrqs : LET d == Enabled({PIT_IRQ}, m, m)
                                   IN  d.mask = m \ {PIT_IRQ} /\ d.imr = m \ {PIT_IRQ}
      BY ZenonT(60), <3>1, EnabledMasks
    <3>4. e.mask = mask \ {PIT_IRQ} /\ e.imr = mask \ {PIT_IRQ}
      BY ZenonT(60), <1>6, <3>2, <3>3
    <3>5. QED
      BY <2>1, <3>4, Zenon
  <2>4. imr' = AllIrqs \ {PIT_IRQ, KEYBOARD_IRQ, Cascade, RTC_IRQ}
    BY <2>2, <2>3, Zenon
  <2>5. MasksInv'
    BY <1>2, <1>4, <2>1, <2>4, Zenon DEF MasksInv
  <2>6. QED
    BY <1>1, <1>2, <2>1, <2>3, <2>4, <2>5, BootKeeps, Zenon DEF PlainTypes
<1>12. CASE enable_interrupts
  <2>1. entry_pc = "sti" /\ entry_pc' = "booted" /\ IF_flag' = TRUE /\ UNCHANGED <<irr, isr, imr, mask, regC>>
    BY <1>12, Zenon DEF enable_interrupts, BootStep, pic, devices
  <2>2. MasksInv'
    BY <1>2, <1>4, <2>1, Zenon DEF MasksInv
  <2>3. QED
    BY <1>1, <1>2, <2>1, <2>2, BootKeeps, Zenon DEF PlainTypes
<1>13. QED
  BY <1>7, <1>8, <1>9, <1>10, <1>11, <1>12, Zenon DEF Boot

\* A device raises its line.
LEMMA RaiseStep ==
    ASSUME InterruptsInv, NEW irq \in Irqs, raise(irq)
    PROVE  InterruptsInv'
<1>1. /\ irr' = irr \cup {irq} /\ regC' \in BOOLEAN
      /\ UNCHANGED <<entry_pc, IF_flag, isr, imr, mask, stack, started, current, pit_terminal_num>>
  BY Zenon DEF raise, contexts
<1>2. MasksInv'
  BY <1>1, Zenon DEF InterruptsInv, MasksInv
<1>3. InHandler' = InHandler /\ Top' = Top /\ Unstarted' = Unstarted
  BY <1>1, Zenon DEF InHandler, Top, Unstarted
<1>4. StacksInv'
  BY <1>1, <1>3, Zenon DEF InterruptsInv, StacksInv, RunningTop
<1>5. TypeOK'
  BY <1>1, Zenon DEF InterruptsInv, NothingLeftInService, TypeOK
<1>6. QED
  BY <1>1, <1>2, <1>3, <1>4, <1>5, Zenon DEF InterruptsInv, NothingLeftInService

\* The machine is switched on with no handler running.
LEMMA InterruptsInitial == Init => InterruptsInv
<1> SUFFICES ASSUME Init PROVE InterruptsInv
  BY Zenon
<1>1. PlainTypes
  BY ContextsAre, Zenon DEF Init, PlainTypes, BootStack
<1>2. MasksInv
  BY Zenon DEF Init, MasksInv
<1>3. ~InHandler /\ current \in Contexts /\ stack[current] = <<>>
  BY ContextsAre, Zenon DEF Init, InHandler
<1>4. StacksInv
  <2>1. <<>> \in Seq(Frames) /\ Len(<<>>) = 0
    OBVIOUS
  <2>2. 1 .. Len(stack[current]) - 1 = {}
    BY <1>3
  <2>3. \A c \in Unstarted : c \in Contexts
    BY ContextsAre, Zenon DEF Unstarted, Terminals
  <2>4. stack \in [Contexts -> Seq(Frames)] /\ \A c \in Contexts : Len(stack[c]) <= MaxFrames
    BY <2>1, ContextsAre DEF Init
  <2>5. \A c \in Unstarted : stack[c] = <<>>
    BY <2>3, Zenon DEF Init
  <2>6. QED
    BY <1>3, <2>2, <2>4, <2>5, Zenon DEF Init, StacksInv, Nested
<1>5. QED
  BY <1>1, <1>2, <1>3, <1>4, TypesFollow, Zenon DEF InterruptsInv, NothingLeftInService, Init

-----------------------------------------------------------------------------
(* The theorems about interrupts *)

INSTANCE WellFoundedInduction

\* task_switch finds the first terminal without a shell, if there is one: a set
\* of natural numbers that is not empty has a least element.
LEMMA FirstUnstarted ==
    ASSUME Unstarted # {}
    PROVE  First(Unstarted) \in Unstarted
<1>1. Unstarted \in SUBSET Nat
  BY InterruptsAssumption DEF Unstarted, Terminals
<1>2. PICK R : IsWellFoundedOn(R, Nat) /\ \A x, y \in Nat : y < x => <<y, x>> \in R
  <2>1. \A x, y \in Nat : y < x => <<y, x>> \in OpToRel(<, Nat)
    BY Zenon DEF OpToRel
  <2>2. QED
    BY <2>1, NatLessThanWellFounded, Zenon
<1>3. PICK i \in Unstarted : \A j \in Unstarted : ~(<<j, i>> \in R)
  BY <1>1, <1>2, WFMin, Zenon
<1>4. \A j \in Unstarted : ~(j < i)
  BY <1>1, <1>2, <1>3, Zenon
<1>5. \A j \in Unstarted : i <= j
  BY <1>1, <1>4
<1>6. QED
  BY <1>5, Zenon DEF First

\* The invariant holds from the first instruction of entry on, whatever the
\* devices do.
THEOREM InterruptsSafe == Spec => []InterruptsInv
<1>1. ASSUME InterruptsInv, [Next]_vars PROVE InterruptsInv'
  <2>1. CASE UNCHANGED vars
    <3>1. UNCHANGED <<entry_pc, IF_flag, irr, isr, imr, mask, regC, stack,
                      started, current, pit_terminal_num>>
      BY <2>1, Zenon DEF vars, pic, devices, contexts
    <3>2. InHandler' = InHandler /\ Top' = Top /\ Unstarted' = Unstarted
      BY <3>1, Zenon DEF InHandler, Top, Unstarted
    <3>3. StacksInv'
      BY <1>1, <3>1, <3>2, Zenon DEF InterruptsInv, StacksInv, RunningTop
    <3>4. TypeOK' /\ MasksInv'
      BY <1>1, <3>1, Zenon DEF InterruptsInv, NothingLeftInService, TypeOK, MasksInv
    <3>5. QED
      BY <1>1, <3>1, <3>2, <3>3, <3>4, Zenon DEF InterruptsInv, NothingLeftInService
  <2>2. CASE Handler
    BY <1>1, <2>2, KeyboardStep, ClockStep, TickStep, ExecuteStep, FirstUnstarted, SwitchStep,
       ReturnStep DEF Handler
  <2>3. QED
    BY <1>1, <2>1, <2>2, BootsStep, RaiseStep, InterruptStep, Zenon DEF Next
<1>2. QED
  BY <1>1, InterruptsInitial, PTL DEF Spec

\* No handler that was interrupted or switched away from keeps a line in
\* service (send_eoi in i8259.c, the handlers, task_switch).
THEOREM ServiceSafe == Spec => []NothingLeftInService
<1>1. InterruptsInv => NothingLeftInService
  BY Zenon DEF InterruptsInv
<1>2. QED
  BY <1>1, InterruptsSafe, PTL

\* No interrupt without a handler arrives (undefined_interrupt in idt.c).
THEOREM UndefinedSafe == Spec => []NoUndefinedInterrupt
<1>1. InterruptsInv => NoUndefinedInterrupt
  <2> SUFFICES ASSUME StacksInv, NEW c \in Contexts, NEW k \in 1 .. MaxFrames, k <= Len(stack[c])
               PROVE  stack[c][k].irq \notin OtherIrqs
    BY Zenon DEF InterruptsInv, NoUndefinedInterrupt
  <2>1. stack[c] \in Seq(Frames)
    BY Zenon DEF StacksInv
  <2>2. k \in 1 .. Len(stack[c])
    BY <2>1, ContextsAre
  <2>3. stack[c][k] \in Frames
    BY <2>1, <2>2
  <2>4. QED
    BY <2>3, Lines, Zenon DEF Frames
<1>2. QED
  BY <1>1, InterruptsSafe, PTL
=============================================================================
