--------------------------- MODULE ProcessProofs ---------------------------
(***************************************************************************)
(* Proofs of the safety properties of Process, for every number of pids    *)
(* and terminals.                                                          *)
(***************************************************************************)
EXTENDS ProcessInv, TLAPS

\* The search of execute has one result.
LEMMA FirstFreeUnique ==
    ASSUME NEW p \in Pids, NEW q \in Pids, FirstFree(p), FirstFree(q)
    PROVE  p = q
  <1>1. p \in Int /\ q \in Int
    BY DEF Pids
  <1>2. ~(p < q) /\ ~(q < p)
    BY DEF FirstFree, FREE, IN_USE
  <1> QED
    BY <1>1, <1>2

\* The first shells' pids are pids; -1 is none of them.
LEMMA Constants ==
    /\ Terminals \subseteq Pids
    /\ 0 \in Terminals
    /\ NoPid \notin Pids
    /\ 0 \in Pids
    /\ FREE # IN_USE
  BY ProcessAssumption DEF Terminals, Pids, NoPid, FREE, IN_USE

\* The exit value of a program that was stopped.
LEMMA ErrorStatus == 256 \in Status
  BY ProcessAssumption, Zenon

\* task_switch goes round the terminals.
LEMMA NextTerminalType == pit_terminal_num \in Terminals => NextTerminal \in Terminals
  BY ProcessAssumption DEF NextTerminal, Terminals

\* Before the first tick.
LEMMA CallInit == Init => CallInv
  <1> SUFFICES ASSUME Init PROVE CallInv
    BY Zenon
  <1>1. TypeOK
    BY ZenonT(60), Constants DEF Init, TypeOK, Context, NoContext, PCs
  <1>2. \A p \in Pids : sched_ctx[p] = NoContext /\ parent_esp[p] = NoPid
    BY Zenon DEF Init
  <1>3. \A p \in Pids : sched_ctx[p].pc = "lost"
    BY <1>2 DEF NoContext
  <1>4. Belongs(run, current_pid)
    BY Zenon DEF Init, Belongs
  <1>5. \A p \in Pids : ~Live(p)
    BY DEF Init, Live, FREE, IN_USE
  <1> QED
    BY <1>1, <1>2, <1>3, <1>4, <1>5, Zenon DEF CallInv, Init

\* execute keeps the layer, provided its caller is the current process or the
\* pid it finds is the current one (task_switch starting a shell).
LEMMA LaunchCallInv ==
    ASSUME CallInv, run.pc # "lost", NEW new \in Pids, NEW t, Launch(new, t),
           run.pid = current_pid \/ new = current_pid,
           run.pc = "start" => new = current_pid
    PROVE  CallInv'
  <1> USE Constants
  <1>1. current_pid \in Pids /\ run.pid \in Pids \cup {NoPid}
    BY Zenon DEF CallInv, TypeOK, Context
  <1>2. TypeOK'
    <2>1. sched_ctx' \in [Pids -> Context]
      BY Zenon DEF CallInv, TypeOK, Launch, DropStack, NoContext, Context, PCs
    <2>2. run' \in Context
      BY Zenon DEF Launch, EnterProgram, Context, PCs
    <2> QED
      BY ZenonT(60), <1>1, <2>1, <2>2
      DEF CallInv, TypeOK, Launch, setup_PCB, EnterProgram, tickVars,
          ExecuteHazards
  <1>3. Launched(new)'
    BY <1>1, Zenon DEF CallInv, TypeOK, Launched, Launch, setup_PCB, EnterProgram
  <1>4. \A p \in Pids : Launched(p) => Launched(p)'
    BY <1>3, Zenon DEF CallInv, TypeOK, Launched, Launch, setup_PCB, EnterProgram
  <1>5. run.pid # NoPid => Launched(run.pid)
    BY Zenon DEF CallInv, Belongs
  <1>6. \A p \in Pids : parent_esp'[p] # NoPid =>
          Launched(p)' /\ Launched(parent_esp[p])'
    BY SMTT(40), <1>1, <1>3, <1>4, <1>5
    DEF CallInv, TypeOK, Launched, Launch, EnterProgram
  <1>7. Belongs(run, current_pid)' /\ run'.pc = "user"
    BY <1>3, Zenon DEF Belongs, Launch, EnterProgram
  <1>8. \A p \in Pids : sched_ctx'[p] # NoContext =>
          /\ sched_ctx'[p] = sched_ctx[p]
          /\ p # new
          /\ sched_ctx[p].pid # new
    BY Zenon DEF Launch, DropStack
  <1>9. \A p \in Pids : sched_ctx'[p] # NoContext =>
          sched_ctx'[p].pc # "lost" /\ Belongs(sched_ctx[p], p)'
    <2> SUFFICES ASSUME NEW p \in Pids, sched_ctx'[p] # NoContext
                 PROVE  sched_ctx'[p].pc # "lost" /\ Belongs(sched_ctx[p], p)'
      BY Zenon
    <2>1. /\ sched_ctx'[p] = sched_ctx[p] /\ sched_ctx[p] # NoContext
          /\ sched_ctx[p].pid # new
      BY <1>8, Zenon
    <2>2. sched_ctx[p].pc # "lost" /\ Belongs(sched_ctx[p], p)
      BY <2>1, Zenon DEF CallInv
    <2>3. sched_ctx[p].pid \in Pids \cup {NoPid}
      BY Zenon DEF CallInv, TypeOK, Context
    <2> QED
      BY <1>4, <2>1, <2>2, <2>3
      DEF CallInv, TypeOK, Belongs, Launch, setup_PCB, EnterProgram
  <1>10. \A p \in Pids : sched_ctx'[p].pc \notin {"start", "idle"}
    <2> SUFFICES ASSUME NEW p \in Pids, sched_ctx'[p].pc \in {"start", "idle"}
                 PROVE  FALSE
      BY Zenon
    <2>1. sched_ctx'[p] # NoContext
      BY DEF NoContext
    <2>2. sched_ctx[p].pc \in {"start", "idle"} /\ p # new
      BY <1>8, <2>1, Zenon
    <2> QED
      BY <2>2, Zenon DEF CallInv
  <1> QED
    BY <1>2, <1>6, <1>7, <1>9, <1>10, Zenon DEF CallInv, NoContext

\* The steps that neither run a new program nor touch parents or contexts.
LEMMA FrameCallInv ==
    ASSUME CallInv, TypeOK', UNCHANGED <<pcbVars, schedVars, current_pid, run>>,
           run.pc = "start" => UNCHANGED pid_flags,
           run.pc = "idle" => UNCHANGED pid_flags
    PROVE  CallInv'
  <1>1. \A p \in Pids : FirstFree(p) /\ run.pc = "start" => FirstFree(p)'
    BY Zenon DEF FirstFree
  <1> QED
    BY <1>1 DEF CallInv, Launched, Belongs, Live, pcbVars, schedVars, FirstFree

\* halt_256 up to l.133, from a program or from an exception handler.
LEMMA HaltFreeCallInv ==
    ASSUME CallInv, NEW s \in Status, halt_free(s), terminal_num' \in Terminals
    PROVE  CallInv'
  <1> USE Constants
  <1>1. current_pid \in Pids /\ run \in Context /\ run.pc = "user"
    BY Zenon DEF CallInv, TypeOK, halt_free
  <1>2. run' \in Context /\ run'.pid = run.pid /\ run'.pc = "freed"
    BY ZenonT(60), <1>1 DEF halt_free, Context, PCs
  <1>3. TypeOK'
    BY <1>1, <1>2 DEF CallInv, TypeOK, halt_free, RecordStatus, schedVars, tickVars
  <1>4. Belongs(run, current_pid)'
    BY <1>1, <1>2, Zenon DEF CallInv, Belongs, Launched, halt_free
  <1>5. UNCHANGED <<parent_id, parent_esp, sched_ctx, current_pid>>
    BY Zenon DEF halt_free, schedVars
  <1> QED
    BY <1>1, <1>2, <1>3, <1>4, <1>5, Zenon DEF CallInv, Launched, Belongs

\* l.138 makes the parent current, to whose stack the process returns.
LEMMA HaltMoveCallInv == CallInv /\ halt_move => CallInv'
  <1> SUFFICES ASSUME CallInv, halt_move PROVE CallInv'
    BY Zenon
  <1> USE Constants
  <1>1. /\ run \in Context /\ run.pc = "freed" /\ run.pid = current_pid
        /\ current_pid \in Pids
    BY Zenon DEF CallInv, TypeOK, halt_move, Belongs
  <1>2. run' \in Context /\ run'.pid = run.pid /\ run'.pc = "moved"
    BY <1>1, Zenon DEF halt_move, Context, PCs
  <1>3. TypeOK'
    BY <1>1, <1>2 DEF CallInv, TypeOK, halt_move, pcbVars, schedVars, tickVars
  <1>4. Launched(run.pid) /\ current_pid' = parent_id[run.pid]
    BY <1>1 DEF CallInv, Belongs, halt_move
  <1>5. UNCHANGED <<parent_id, parent_esp, sched_ctx>>
    BY Zenon DEF halt_move, pcbVars, schedVars
  <1>6. Belongs(run, current_pid)'
    BY <1>1, <1>2, <1>4, <1>5, Zenon DEF Belongs, Launched, halt_move
  <1> QED
    BY <1>1, <1>2, <1>3, <1>5, <1>6 DEF CallInv, Launched, Belongs

\* l.140 only touches execute_pid.
LEMMA HaltHandCallInv == CallInv /\ halt_hand => CallInv'
  <1> SUFFICES ASSUME CallInv, halt_hand PROVE CallInv'
    BY Zenon
  <1> USE Constants
  <1>1. run \in Context /\ run.pc = "moved" /\ current_pid \in Pids
    BY Zenon DEF CallInv, TypeOK, halt_hand
  <1>2. run' \in Context /\ run'.pid = run.pid /\ run'.pc = "handed"
    BY <1>1, Zenon DEF halt_hand, Context, PCs
  <1>3. TypeOK'
    BY <1>1, <1>2, Zenon
    DEF CallInv, TypeOK, halt_hand, HandForeground, pcbVars, schedVars, tickVars
  <1>4. UNCHANGED <<parent_id, parent_esp, sched_ctx, current_pid>>
    BY Zenon DEF halt_hand, pcbVars, schedVars
  <1> QED
    BY <1>1, <1>2, <1>3, <1>4, Zenon DEF CallInv, Launched, Belongs

\* The return to the parent puts the processor on the parent's stack, with
\* the parent current.
LEMMA HaltReturnCallInv == CallInv /\ halt_return => CallInv'
  <1> SUFFICES ASSUME CallInv, halt_return PROVE CallInv'
    BY Zenon
  <1> USE Constants
  <1>1. /\ run \in Context /\ run.pc = "handed" /\ current_pid \in Pids
        /\ run.pid \in Pids /\ parent_esp[run.pid] = current_pid
    BY Zenon DEF CallInv, TypeOK, halt_return, Belongs, Context
  <1>2. run' = [pid |-> current_pid, pc |-> "user", status |-> 0]
    BY <1>1, Zenon DEF halt_return
  <1>3. run' \in Context
    BY <1>1, <1>2, Zenon DEF Context, PCs
  <1>4. TypeOK'
    BY <1>1, <1>3, Zenon
    DEF CallInv, TypeOK, halt_return, RestoreParent, pcbVars, schedVars, tickVars,
        Context
  <1>5. UNCHANGED <<parent_id, parent_esp, sched_ctx, current_pid>>
    BY Zenon DEF halt_return, pcbVars, schedVars
  <1>6. Launched(current_pid)
    BY <1>1, Zenon DEF CallInv
  <1> QED
    BY <1>1, <1>2, <1>4, <1>5, <1>6, Zenon DEF CallInv, Launched, Belongs

\* task_switch, when a first shell is missing.
LEMMA TickStartCallInv == CallInv /\ tick_start => CallInv'
  <1> SUFFICES ASSUME CallInv, tick_start PROVE CallInv'
    BY Zenon
  <1> USE Constants
  <1>1. /\ run \in Context /\ run.pc # "lost" /\ current_pid \in Pids
        /\ run.pid \in Pids \cup {NoPid} /\ sched_ctx \in [Pids -> Context]
    BY Zenon DEF CallInv, TypeOK, tick_start, Context
  <1>2. PICK i \in Terminals :
            /\ FirstFree(i)
            /\ current_pid' = i
            /\ terminal_num' = i
            /\ terminals_initialized' =
                  (terminals_initialized \/ i = TERMINAL_COUNT - 1)
    BY Zenon DEF tick_start
  <1>3. run' \in Context /\ run'.pid = run.pid /\ run'.pc = "start"
    BY <1>1, Zenon DEF tick_start, Context, PCs
  <1>4. sched_ctx' = [sched_ctx EXCEPT ![current_pid] = run]
    BY Zenon DEF tick_start, StoreContext
  <1>5. UNCHANGED <<parent_id, parent_esp, pid_flags>>
    BY Zenon DEF tick_start, pcbVars
  <1>6. TypeOK'
    BY SMTT(40), <1>1, <1>2, <1>3, <1>4
    DEF CallInv, TypeOK, tick_start, StoreContext, pcbVars, TickHazards
  <1>7. Belongs(run, current_pid)'
    BY <1>1, <1>3, <1>5, Zenon DEF CallInv, Belongs, Launched
  <1>8. \A p \in Pids : sched_ctx'[p] # NoContext =>
          sched_ctx'[p].pc # "lost" /\ Belongs(sched_ctx[p], p)'
    <2> SUFFICES ASSUME NEW p \in Pids, sched_ctx'[p] # NoContext
                 PROVE  sched_ctx'[p].pc # "lost" /\ Belongs(sched_ctx[p], p)'
      BY Zenon
    <2>1. CASE p = current_pid
      BY SMTT(40), <1>1, <1>4, <1>5, <2>1 DEF CallInv, Belongs, Launched
    <2>2. CASE p # current_pid
      BY SMTT(40), <1>1, <1>4, <1>5, <2>2 DEF CallInv, Belongs, Launched
    <2> QED
      BY <2>1, <2>2, Zenon
  <1>9. i # current_pid => run.pc \notin {"start", "idle"}
    <2>1. run.pc = "start" => i = current_pid
      BY <1>1, <1>2, FirstFreeUnique, Zenon DEF CallInv
    <2>2. run.pc = "idle" => FirstFree(0)
      BY ProcessAssumption
      DEF CallInv, TypeOK, FirstFree, Live, Pids, FREE, IN_USE
    <2> QED
      BY <1>2, <2>1, <2>2, FirstFreeUnique, Zenon DEF CallInv
  <1>10. \A p \in Pids : sched_ctx'[p].pc \in {"start", "idle"} =>
            p = current_pid'
    <2> SUFFICES ASSUME NEW p \in Pids, sched_ctx'[p].pc \in {"start", "idle"}
                 PROVE  p = current_pid'
      BY Zenon
    <2>1. CASE p = current_pid
      BY <1>1, <1>2, <1>4, <1>9, <2>1, Zenon
    <2>2. CASE p # current_pid
      BY <1>1, <1>4, <2>2, Zenon DEF CallInv
    <2> QED
      BY <2>1, <2>2, Zenon
  <1>11. FirstFree(current_pid)'
    BY <1>2, <1>5, Zenon DEF FirstFree
  <1> QED
    BY <1>2, <1>3, <1>5, <1>6, <1>7, <1>8, <1>10, <1>11, Zenon DEF CallInv, Launched

\* task_switch, when it goes on to the next terminal: what it loads was filed
\* under the pid it makes current.
LEMMA TickSwitchCallInv == CallInv /\ tick_switch => CallInv'
  <1> SUFFICES ASSUME CallInv, tick_switch PROVE CallInv'
    BY Zenon
  <1> USE Constants
  <1>1. /\ run \in Context /\ run.pc # "lost" /\ current_pid \in Pids
        /\ sched_ctx \in [Pids -> Context]
    BY Zenon DEF CallInv, TypeOK, tick_switch
  <1> DEFINE next == execute_pid[NextTerminal]
  <1>2. NextTerminal \in Terminals /\ next \in Pids \cup {NoPid}
    BY NextTerminalType, Zenon DEF CallInv, TypeOK
  <1>3. current_pid' = next /\ LoadContext(next)
    BY Zenon DEF tick_switch
  <1>4. UNCHANGED <<parent_id, parent_esp, pid_flags>>
    BY Zenon DEF tick_switch, pcbVars
  <1>5. run.pc \notin {"start", "idle"}
    BY Zenon DEF CallInv, tick_switch, FirstFree, Live, FREE, IN_USE
  <1>6. \A p \in Pids : sched_ctx[p].pc \notin {"start", "idle"}
    BY <1>5, Zenon DEF CallInv
  <1>a. CASE next \in Pids /\ (next = current_pid \/ sched_ctx[next] # NoContext)
    <2>1. /\ run' = IF next = current_pid THEN run ELSE sched_ctx[next]
          /\ esp0' = IF next = current_pid THEN esp0 ELSE sched_esp0[next]
          /\ sched_esp0' = [sched_esp0 EXCEPT ![current_pid] = esp0]
          /\ sched_ctx' = [sched_ctx EXCEPT ![current_pid] = run,
                                            ![next] = NoContext]
      BY <1>a, <1>3, Zenon DEF LoadContext
    <2>2. NoContext \in Context
      BY Zenon DEF NoContext, Context, PCs
    <2>3. run' \in Context /\ sched_ctx' \in [Pids -> Context]
      BY <1>a, <1>1, <2>1, <2>2, Zenon
    <2>4. TypeOK'
      BY ZenonT(60), <1>a, <1>1, <1>2, <1>3, <2>1, <2>3
      DEF CallInv, TypeOK, tick_switch, pcbVars, TickHazards
    <2>5. run'.pc # "lost" /\ run'.pc \notin {"start", "idle"}
      BY <1>a, <1>1, <1>5, <1>6, <2>1, Zenon DEF CallInv
    <2>6. Belongs(run, current_pid)'
      <3>1. CASE next = current_pid
        BY <1>1, <1>3, <1>4, <2>1, <3>1, Zenon DEF CallInv, Belongs, Launched
      <3>2. CASE next # current_pid
        BY <1>a, <1>1, <1>3, <1>4, <2>1, <3>2, Zenon DEF CallInv, Belongs, Launched
      <3> QED
        BY <3>1, <3>2, Zenon
    <2>7. \A p \in Pids : sched_ctx'[p] # NoContext =>
            sched_ctx'[p].pc # "lost" /\ Belongs(sched_ctx[p], p)'
      <3> SUFFICES ASSUME NEW p \in Pids, sched_ctx'[p] # NoContext
                   PROVE  sched_ctx'[p].pc # "lost" /\ Belongs(sched_ctx[p], p)'
        BY Zenon
      <3>1. p # next
        BY <1>a, <1>1, <2>1, Zenon
      <3>2. CASE p = current_pid
        BY SMTT(40), <1>1, <1>4, <2>1, <3>1, <3>2 DEF CallInv, Belongs, Launched
      <3>3. CASE p # current_pid
        BY SMTT(40), <1>1, <1>4, <2>1, <3>1, <3>3 DEF CallInv, Belongs, Launched
      <3> QED
        BY <3>2, <3>3, Zenon
    <2>8. \A p \in Pids : sched_ctx'[p].pc \notin {"start", "idle"}
      BY <1>a, <1>1, <1>5, <1>6, <2>1, Zenon DEF NoContext
    <2> QED
      BY <1>4, <2>4, <2>5, <2>6, <2>7, <2>8, Zenon DEF CallInv, Launched
  <1>b. CASE ~(next \in Pids /\ (next = current_pid \/ sched_ctx[next] # NoContext))
    <2>1. /\ run' = [run EXCEPT !.pc = "lost"]
          /\ UNCHANGED <<esp0, sched_ctx, sched_esp0>>
      BY <1>b, <1>3, Zenon DEF LoadContext, schedVars
    <2>2. run' \in Context /\ run'.pc = "lost"
      BY <1>1, <2>1, Zenon DEF Context, PCs
    <2>3. TypeOK'
      BY ZenonT(60), <1>1, <1>2, <1>3, <2>1, <2>2
      DEF CallInv, TypeOK, tick_switch, pcbVars, TickHazards
    <2> QED
      BY <1>4, <1>6, <2>1, <2>2, <2>3, Zenon DEF CallInv, Launched, Belongs
  <1> QED
    BY <1>a, <1>b, Zenon

\* Every step keeps the unconditional layer.
LEMMA CallNext == CallInv /\ [Next]_vars => CallInv'
  <1> SUFFICES ASSUME CallInv, [Next]_vars PROVE CallInv'
    BY Zenon
  <1> USE Constants
  <1>1. CASE execute
    <2>1. PICK new \in Pids : Launch(new, tty[current_pid])
      BY <1>1, Zenon DEF execute
    <2> QED
      BY ZenonT(60), <1>1, <2>1, LaunchCallInv DEF execute, CallInv, Belongs
  <1>2. CASE execute_not_found
    <2>1. TypeOK'
      BY <1>2, Zenon DEF execute_not_found, CallInv, TypeOK, pcbVars, schedVars, tickVars
    <2> QED
      BY <1>2, <2>1, FrameCallInv, Zenon DEF execute_not_found
  <1>3. CASE execute_full
    <2>1. TypeOK'
      BY <1>3, Zenon DEF execute_full, CallInv, TypeOK, pcbVars, schedVars, tickVars
    <2> QED
      BY <1>3, <2>1, FrameCallInv, Zenon DEF execute_full
  <1>4. CASE halt
    BY ZenonT(60), <1>4, HaltFreeCallInv DEF halt, CallInv, TypeOK
  <1>5. CASE write_fault
    <2>1. terminal_num' \in Terminals
      BY <1>5, Zenon DEF write_fault, halt_free, CallInv, TypeOK
    <2> QED
      BY <1>5, <2>1, HaltFreeCallInv, ErrorStatus, Zenon DEF write_fault
  <1>6. CASE halt_reexec
    <2>1. PICK new \in Pids : Launch(new, tty[current_pid])
      BY <1>6, Zenon DEF halt_reexec
    <2> QED
      BY ZenonT(60), <1>6, <2>1, LaunchCallInv DEF halt_reexec, CallInv, Belongs
  <1>7. CASE halt_move
    BY <1>7, HaltMoveCallInv, Zenon
  <1>8. CASE halt_hand
    BY <1>8, HaltHandCallInv, Zenon
  <1>9. CASE halt_return
    BY <1>9, HaltReturnCallInv, Zenon
  <1>10. CASE start_shell
    <2>1. PICK new \in Pids : Launch(new, current_pid)
      BY <1>10, Zenon DEF start_shell
    <2>2. new = current_pid
      BY <1>10, <2>1, FirstFreeUnique, Zenon DEF start_shell, CallInv, Launch
    <2> QED
      BY <1>10, <2>1, <2>2, LaunchCallInv, Zenon DEF start_shell
  <1>11. CASE PIT_handler
    BY <1>11, TickStartCallInv, TickSwitchCallInv, Zenon DEF PIT_handler
  <1>12. ASSUME NEW t \in Terminals, terminal_switch(t) PROVE CallInv'
    <2>1. TypeOK'
      BY ZenonT(60), <1>12 DEF terminal_switch, CallInv, TypeOK, pcbVars, schedVars, tickVars
    <2> QED
      BY <1>12, <2>1, FrameCallInv, Zenon DEF terminal_switch
  <1>13. CASE UNCHANGED vars
    <2>1. TypeOK'
      BY SMTT(40), <1>13 DEF vars, CallInv, TypeOK, pcbVars, schedVars, tickVars
    <2> QED
      BY <1>13, <2>1, FrameCallInv, Zenon DEF vars
  <1> QED
    BY Zenon, <1>1, <1>2, <1>3, <1>4, <1>5, <1>6, <1>7, <1>8, <1>9, <1>10, <1>11,
       <1>12, <1>13 DEF Next

\* Type correctness, and: whatever races happen, a system call finds its own
\* PCB through current_pid.
THEOREM CallSafety == Spec => [](TypeOK /\ CallerIsCurrent)
  <1>1. CallInv => TypeOK /\ CallerIsCurrent
    BY Zenon DEF CallInv, CallerIsCurrent, Belongs
  <1> QED
    BY <1>1, CallInit, CallNext, PTL DEF Spec

\* Every variable keeps its type, whatever races happen: in particular no
\* handler leaves current_pid outside the table of PCBs.
THEOREM TypeSafe == Spec => []TypeOK
  BY CallSafety, PTL

-----------------------------------------------------------------------------
(* The layer that holds until a window is hit. *)

\* QuietInv without its guard.
QuietBody ==
    /\ run.pc # "lost"
    /\ TreeInv
    /\ BootInv
    /\ SchedInv
    /\ returned.why = "halted" => returned.value = returned.status

\* Before the first tick no terminal has a process.
LEMMA QuietInit == Init => QuietInv
  <1> SUFFICES ASSUME Init PROVE QuietBody
    BY Zenon DEF QuietInv, QuietBody
  <1>1. \A p \in Pids : ~Live(p)
    BY DEF Init, Live, FREE, IN_USE
  <1>2. \A t \in Terminals : ~Started(t)
    BY Zenon DEF Init, Started
  <1>3. TreeInv
    BY <1>1, <1>2, Zenon DEF TreeInv
  <1>4. BootInv
    BY <1>1, <1>2, Constants, Zenon DEF BootInv, Init
  <1>5. SchedInv
    BY <1>2, Zenon DEF SchedInv, Init
  <1> QED
    BY <1>3, <1>4, <1>5, Zenon DEF QuietBody, Init

\* The other terminals do not notice a step that leaves PCBs, contexts, their
\* entry of execute_pid and the terminal being served alone.
LEMMA OthersKept ==
    ASSUME QuietBody,
           UNCHANGED <<pid_flags, pcbVars, schedVars>>,
           Serving' = Serving,
           NEW t \in Terminals, execute_pid'[t] = execute_pid[t],
           Started(t)', t # Serving'
    PROVE  Resumable(t)'
  <1>1. Resumable(t)
    BY Zenon DEF QuietBody, SchedInv, Started
  <1> QED
    BY ZenonT(60), <1>1 DEF Resumable, Reached, FitsTree, OnlyChild, IsChild, Live, pcbVars,
                schedVars

\* A terminal whose processes and saved context are left alone can be resumed
\* afterwards as before.
LEMMA ResumableKept ==
    ASSUME NEW t \in Terminals, Resumable(t), UNCHANGED <<pid_flags, pcbVars, execute_pid>>,
           sched_ctx'[execute_pid[t]] = sched_ctx[execute_pid[t]],
           sched_esp0'[execute_pid[t]] = sched_esp0[execute_pid[t]]
    PROVE  Resumable(t)'
  BY ZenonT(60) DEF Resumable, Reached, FitsTree, OnlyChild, IsChild, Live, pcbVars

\* A terminal whose context a tick saves can be resumed from there.
LEMMA ResumableSaved ==
    ASSUME NEW t \in Terminals, execute_pid[t] = current_pid, Reached(t, run, current_pid),
           run # NoContext, run.pc = "user" => esp0 = current_pid,
           UNCHANGED <<pid_flags, pcbVars, execute_pid>>,
           sched_ctx'[current_pid] = run, sched_esp0'[current_pid] = esp0
    PROVE  Resumable(t)'
  BY ZenonT(60) DEF Resumable, Reached, FitsTree, OnlyChild, IsChild, Live, pcbVars

\* Steps that change nothing the layer reads except the value returned.
LEMMA FrameQuiet ==
    ASSUME QuietBody,
           UNCHANGED <<pid_flags, pcbVars, schedVars, execute_pid, current_pid,
                       prog_page, esp0, run>>,
           returned'.why = "halted" => returned'.value = returned'.status
    PROVE  QuietBody'
  <1> USE DEF pcbVars, schedVars
  <1>1. TreeInv'
    BY DEF QuietBody, TreeInv, FitsTree, Started, IsChild, Live
  <1>2. BootInv'
    BY ZenonT(60) DEF QuietBody, BootInv, Started, Live
  <1>3. SchedInv'
    <2>1. run'.pc \notin {"idle", "start"} =>
            Reached(tty[current_pid], run, current_pid)'
      BY Zenon DEF QuietBody, SchedInv, Reached, FitsTree, OnlyChild, IsChild, Live
    <2>2. Serving' = Serving
      BY Zenon DEF Serving
    <2>3. \A t \in Terminals : Started(t)' /\ t # Serving' => Resumable(t)'
      BY <2>2, OthersKept, Zenon
    <2>4. run'.pc = "user" => esp0' = current_pid' /\ prog_page' = current_pid'
      BY Zenon DEF QuietBody, SchedInv
    <2> QED
      BY <2>1, <2>3, <2>4, Zenon DEF SchedInv
  <1> QED
    BY <1>1, <1>2, <1>3, Zenon DEF QuietBody

\* A halting process is a leaf, so the rest of the tree still fits, and its
\* status reaches no PCB that another halt is using.
LEMMA HaltFreeQuiet ==
    ASSUME CallInv, QuietBody, NEW s \in Status, halt_free(s)
    PROVE  QuietBody'
  <1> USE Constants
  <1> DEFINE c == current_pid
  <1>1. /\ c \in Pids /\ run.pc = "user" /\ run.pid = c
        /\ parent_id \in [Pids -> Pids] /\ tty \in [Pids -> Terminals]
        /\ pid_flags \in [Pids -> {FREE, IN_USE}] /\ run \in Context
    BY Zenon DEF CallInv, TypeOK, halt_free, Belongs
  <1>2. /\ UNCHANGED <<parent_id, tty, parent_esp, parent_esp0, sched_ctx,
                       sched_esp0, execute_pid, current_pid, returned>>
        /\ pid_flags' = [pid_flags EXCEPT ![c] = FREE]
        /\ return_value' = [return_value EXCEPT ![parent_id[c]] = s]
        /\ run'.pc = "freed" /\ run'.pid = c /\ run'.status = s
    BY <1>1, Zenon DEF halt_free, RecordStatus, schedVars, Context
  <1>3. \A p \in Pids : (Live(p)' <=> Live(p) /\ p # c)
    BY <1>1, <1>2, Zenon DEF Live
  <1>4. Reached(tty[c], run, c)
    BY <1>1, Zenon DEF QuietBody, SchedInv
  <1>5. /\ Live(c) /\ FitsTree(c) /\ execute_pid[tty[c]] = c
        /\ \A p \in Pids : ~IsChild(p, c)
    BY <1>1, <1>4 DEF Reached, QuietBody, TreeInv, Started
  <1>6. \A p \in Pids : p # c /\ FitsTree(p) /\ parent_id[p] # c => FitsTree(p)'
    BY <1>1, <1>2, <1>3, Zenon DEF FitsTree
  <1>7. TreeInv'
    <2>1. \A p \in Pids : Live(p)' => FitsTree(p)'
      BY <1>3, <1>5, <1>6, Zenon DEF QuietBody, TreeInv, IsChild
    <2>2. \A t \in Terminals : Started(t)' =>
            tty'[execute_pid'[t]] = t /\ \A p \in Pids : ~IsChild(p, execute_pid[t])'
      BY ZenonT(60), <1>2, <1>3 DEF QuietBody, TreeInv, IsChild, Started
    <2> QED
      BY ZenonT(60), <1>2, <1>3, <2>1, <2>2 DEF QuietBody, TreeInv
  <1>8. BootInv'
    BY ZenonT(60), <1>1, <1>2, <1>3 DEF QuietBody, BootInv, Started
  <1>9. Reached(tty[current_pid], run, current_pid)'
    <2>1. FitsTree(c)'
      BY <1>1, <1>2, <1>3, <1>5, Zenon DEF FitsTree
    <2>2. OnlyChild(c)'
      <3> SUFFICES ASSUME c \notin Terminals, NEW p \in Pids, p # c,
                          IsChild(p, parent_id[c])'
                   PROVE  FALSE
        BY <1>2, Zenon DEF OnlyChild
      <3>1. Live(p) /\ p # parent_id[c] /\ parent_id[p] = parent_id[c]
        BY <1>2, <1>3, Zenon DEF IsChild
      <3>2. p \notin Terminals
        BY ZenonT(60), <3>1 DEF QuietBody, TreeInv, FitsTree
      <3> QED
        BY ZenonT(60), <1>1, <1>5, <3>1, <3>2 DEF QuietBody, TreeInv
    <2>3. return_value'[parent_id[c]] = s
      BY <1>1, <1>2, Zenon DEF CallInv, TypeOK
    <2> QED
      BY <1>1, <1>2, <1>3, <1>5, <2>1, <2>2, <2>3, Zenon DEF Reached, FitsTree, OnlyChild
  <1>10. ASSUME NEW t \in Terminals, Started(t)', t # Serving'
         PROVE  Resumable(t)'
    <2> DEFINE e == execute_pid[t]
    <2> DEFINE x == sched_ctx[e]
    <2>1. Started(t) /\ t # tty[c] /\ Resumable(t)
      BY ZenonT(60), <1>1, <1>2, <1>10 DEF QuietBody, SchedInv, Serving, Started
    <2>2. Reached(t, x, e) /\ x.pid # c /\ x.pid \in Pids
      BY ZenonT(60), <2>1 DEF Resumable, Reached
    <2>3. tty[parent_id[x.pid]] = t /\ tty[parent_id[c]] = tty[c]
      BY ZenonT(60), <1>5, <2>2 DEF Reached, FitsTree
    <2>4. FitsTree(x.pid) /\ parent_id[x.pid] # c /\ parent_id[x.pid] # parent_id[c]
      BY ZenonT(60), <2>1, <2>2, <2>3 DEF Reached
    <2>5. return_value'[parent_id[x.pid]] = return_value[parent_id[x.pid]]
      BY ZenonT(60), <1>1, <1>2, <2>2, <2>4 DEF CallInv, TypeOK
    <2>6. \A p \in Pids : \A q : (IsChild(p, q)' => IsChild(p, q))
      BY <1>2, <1>3, Zenon DEF IsChild
    <2>7. Reached(t, x, e)'
      BY ZenonT(60), <1>2, <1>3, <1>6, <2>2, <2>4, <2>5, <2>6 DEF Reached, OnlyChild, FitsTree
    <2> QED
      BY <1>2, <2>1, <2>7, Zenon DEF Resumable
  <1>11. SchedInv'
    BY ZenonT(60), <1>2, <1>9, <1>10 DEF SchedInv
  <1> QED
    BY ZenonT(60), <1>2, <1>7, <1>8, <1>11 DEF QuietBody

\* l.138: execute_pid still names the child.
LEMMA HaltMoveQuiet ==
    ASSUME CallInv, QuietBody, halt_move
    PROVE  QuietBody'
  <1> USE Constants
  <1> DEFINE c == run.pid
  <1>1. /\ c \in Pids /\ run.pc = "freed" /\ current_pid = c
        /\ parent_id[c] # c /\ parent_id[c] \in Pids /\ run \in Context
    BY DEF CallInv, TypeOK, halt_move, Belongs
  <1>2. /\ UNCHANGED <<pid_flags, pcbVars, schedVars, execute_pid, returned>>
        /\ current_pid' = parent_id[c]
        /\ run'.pc = "moved" /\ run'.pid = c /\ run'.status = run.status
    BY <1>1, Zenon DEF halt_move, Context
  <1>3. Reached(tty[c], run, c)
    BY <1>1, Zenon DEF QuietBody, SchedInv
  <1>4. /\ ~Live(c) /\ FitsTree(c) /\ c \notin Terminals /\ OnlyChild(c)
        /\ execute_pid[tty[c]] = c /\ tty[parent_id[c]] = tty[c]
    BY ZenonT(60), <1>1, <1>3 DEF Reached, FitsTree
  <1>5. TreeInv'
    BY ZenonT(60), <1>2 DEF QuietBody, TreeInv, FitsTree, Started, IsChild, Live, pcbVars
  <1>6. BootInv'
    BY ZenonT(60), <1>1, <1>2, <1>4 DEF QuietBody, BootInv, Started, Live
  <1>7. Reached(tty[current_pid], run, current_pid)'
    BY ZenonT(60), <1>1, <1>2, <1>3, <1>4
    DEF Reached, FitsTree, OnlyChild, IsChild, Live, pcbVars
  <1>8. Serving' = Serving
    BY ZenonT(60), <1>1, <1>2, <1>4 DEF Serving, pcbVars
  <1>9. SchedInv'
    BY <1>2, <1>7, <1>8, OthersKept, Zenon DEF SchedInv
  <1> QED
    BY <1>2, <1>5, <1>6, <1>9, Zenon DEF QuietBody

\* l.140: the parent is now the leaf of its terminal.
LEMMA HaltHandQuiet ==
    ASSUME CallInv, QuietBody, halt_hand
    PROVE  QuietBody'
  <1> USE Constants
  <1> DEFINE c == run.pid
  <1> DEFINE t0 == tty[current_pid]
  <1>1. /\ current_pid \in Pids /\ run.pc = "moved" /\ run \in Context
        /\ t0 \in Terminals /\ execute_pid \in [Terminals -> Pids \cup {NoPid}]
    BY Zenon DEF CallInv, TypeOK, halt_hand
  <1>2. /\ UNCHANGED <<pid_flags, pcbVars, schedVars, current_pid, returned>>
        /\ execute_pid' = [execute_pid EXCEPT ![t0] = current_pid]
        /\ run'.pc = "handed" /\ run'.pid = c /\ run'.status = run.status
    BY <1>1, Zenon DEF halt_hand, HandForeground, Context
  <1>3. Reached(t0, run, current_pid)
    BY <1>1, Zenon DEF QuietBody, SchedInv
  <1>4. /\ c \in Pids /\ ~Live(c) /\ c \notin Terminals /\ OnlyChild(c)
        /\ parent_id[c] = current_pid /\ execute_pid[t0] = c
    BY ZenonT(60), <1>1, <1>3 DEF Reached
  <1>5. \A p \in Pids : ~IsChild(p, current_pid)
    BY <1>4, Zenon DEF OnlyChild, IsChild
  <1>6. \A t \in Terminals : Started(t)' <=> Started(t)
    BY <1>1, <1>2, <1>4, Zenon DEF Started
  <1>7. TreeInv'
    <2>1. \A t \in Terminals : Started(t)' =>
            tty'[execute_pid'[t]] = t /\ \A p \in Pids : ~IsChild(p, execute_pid[t])'
      <3> SUFFICES ASSUME NEW t \in Terminals, Started(t)'
                   PROVE  /\ tty'[execute_pid'[t]] = t
                          /\ \A p \in Pids : ~IsChild(p, execute_pid[t])'
        BY Zenon
      <3>1. CASE t = t0
        BY <1>1, <1>2, <1>5, <3>1, Zenon DEF pcbVars, IsChild, Live
      <3>2. CASE t # t0
        BY <1>1, <1>2, <1>6, <3>2, Zenon DEF QuietBody, TreeInv, pcbVars, IsChild, Live
      <3> QED
        BY ZenonT(60), <3>1, <3>2
    <2> QED
      BY ZenonT(60), <1>2, <2>1 DEF QuietBody, TreeInv, FitsTree, Live, pcbVars
  <1>8. BootInv'
    BY ZenonT(60), <1>1, <1>2, <1>6 DEF QuietBody, BootInv, Live
  <1>9. Reached(tty[current_pid], run, current_pid)'
    BY ZenonT(60), <1>1, <1>2, <1>3, <1>4
    DEF Reached, FitsTree, OnlyChild, IsChild, Live, pcbVars
  <1>10. Serving' = t0 /\ Serving = t0
    BY <1>1, <1>2, Zenon DEF Serving, pcbVars
  <1>11. \A t \in Terminals : Started(t)' /\ t # Serving' => Resumable(t)'
    BY <1>1, <1>2, <1>10, OthersKept, Zenon
  <1>12. SchedInv'
    BY <1>2, <1>9, <1>11, Zenon DEF SchedInv
  <1> QED
    BY <1>2, <1>7, <1>8, <1>12, Zenon DEF QuietBody

\* The parent goes on in its own page, with its own esp0, and reads the status
\* its child left.
LEMMA HaltReturnQuiet ==
    ASSUME CallInv, QuietBody, halt_return
    PROVE  QuietBody'
  <1> USE Constants
  <1> DEFINE c == run.pid
  <1> DEFINE t0 == tty[current_pid]
  <1>1. /\ current_pid \in Pids /\ run.pc = "handed" /\ c \in Pids
        /\ t0 \in Terminals /\ parent_esp[c] = current_pid
    BY ZenonT(60) DEF CallInv, TypeOK, halt_return, Belongs, Context
  <1>2. /\ UNCHANGED <<pid_flags, pcbVars, schedVars, execute_pid, current_pid>>
        /\ run' = [pid |-> current_pid, pc |-> "user", status |-> 0]
        /\ prog_page' = current_pid /\ esp0' = parent_esp0[c]
        /\ returned'.value = return_value[current_pid]
        /\ returned'.status = run.status
    BY ZenonT(60), <1>1 DEF halt_return, RestoreParent
  <1>3. Reached(t0, run, current_pid)
    BY ZenonT(60), <1>1 DEF QuietBody, SchedInv
  <1>4. /\ FitsTree(c) /\ c \notin Terminals /\ parent_id[c] = current_pid
        /\ execute_pid[t0] = current_pid
        /\ return_value[current_pid] = run.status
    BY <1>1, <1>3, Zenon DEF Reached
  <1>5. Live(current_pid) /\ parent_esp0[c] = current_pid
    BY ZenonT(60), <1>4 DEF FitsTree
  <1>6. FitsTree(current_pid)
    BY <1>1, <1>5, Zenon DEF QuietBody, TreeInv
  <1>7. TreeInv'
    BY ZenonT(60), <1>2 DEF QuietBody, TreeInv, FitsTree, Started, IsChild, Live, pcbVars
  <1>8. BootInv'
    BY ZenonT(60), <1>1, <1>2 DEF QuietBody, BootInv, Started, Live
  <1>9. Reached(tty[current_pid], run, current_pid)'
    BY ZenonT(60), <1>1, <1>2, <1>4, <1>5, <1>6 DEF Reached, FitsTree, Live, pcbVars
  <1>10. Serving' = Serving
    BY ZenonT(60), <1>1, <1>2 DEF Serving, pcbVars
  <1>11. SchedInv'
    BY <1>2, <1>5, <1>9, <1>10, OthersKept, Zenon DEF SchedInv
  <1> QED
    BY <1>2, <1>4, <1>7, <1>8, <1>11, Zenon DEF QuietBody

\* Outside the two windows that hand the processor over, the process the
\* terminal runs is the current one.
LEMMA ForegroundCurrent ==
    ASSUME CallInv, QuietBody, run.pc \in {"user", "freed", "handed"}
    PROVE  /\ Reached(tty[current_pid], run, current_pid)
           /\ execute_pid[tty[current_pid]] = current_pid
           /\ Serving = tty[current_pid]
           /\ Serving \in Terminals
  BY Zenon DEF QuietBody, SchedInv, Reached, Serving, CallInv, TypeOK

\* A terminal that can be resumed does so from a live process, or from the
\* process with which its context is filed.
LEMMA ResumableOwner ==
    ASSUME CallInv, QuietBody, NEW t \in Terminals, Started(t), t # Serving
    PROVE  /\ Resumable(t)
           /\ execute_pid[t] \in Pids
           /\ tty[execute_pid[t]] = t
           /\ sched_ctx[execute_pid[t]].pid \in Pids
           /\ \/ Live(execute_pid[t])
              \/ sched_ctx[execute_pid[t]].pid = execute_pid[t]
  <1>1. Resumable(t) /\ execute_pid[t] \in Pids
    BY Zenon DEF QuietBody, SchedInv, Started, CallInv, TypeOK
  <1>2. tty[execute_pid[t]] = t
    BY ZenonT(60) DEF QuietBody, TreeInv
  <1> QED
    BY ZenonT(60), <1>1, <1>2 DEF Resumable, Reached, FitsTree

\* A tick that starts a shell files the interrupted context where the next
\* tick for that terminal looks for it.
LEMMA TickStartQuiet ==
    ASSUME CallInv, QuietBody, tick_start, run.pc # "moved"
    PROVE  QuietBody'
  <1> USE Constants
  <1>1. /\ run \in Context /\ run.pc # "lost" /\ current_pid \in Pids
        /\ sched_ctx \in [Pids -> Context]
        /\ sched_esp0 \in [Pids -> Pids \cup {NoPid}]
    BY Zenon DEF CallInv, TypeOK, tick_start
  <1>2. PICK i \in Terminals : FirstFree(i) /\ current_pid' = i
    BY Zenon DEF tick_start
  <1>3. /\ UNCHANGED <<pid_flags, pcbVars, execute_pid, returned>>
        /\ sched_ctx' = [sched_ctx EXCEPT ![current_pid] = run]
        /\ sched_esp0' = [sched_esp0 EXCEPT ![current_pid] = esp0]
        /\ run'.pc = "start"
    BY <1>1, Zenon DEF tick_start, StoreContext, Context
  <1>4. ~Live(i) /\ \A j \in Pids : j < i => Live(j)
    BY <1>2, Zenon DEF FirstFree, Live, FREE, IN_USE
  <1>5. \A t \in Terminals : Started(t) /\ ~Live(t) => t = i
    <2> SUFFICES ASSUME NEW t \in Terminals, Started(t), ~Live(t), t # i
                 PROVE  FALSE
      BY Zenon
    <2>1. current_pid = t
      BY Zenon DEF QuietBody, BootInv
    <2>2. ~(t < i)
      BY <1>4, Zenon
    <2>3. i < t
      BY <2>2 DEF Terminals
    <2>4. ~Started(i)
      BY <1>4, <2>1, Zenon DEF QuietBody, BootInv
    <2> QED
      BY <2>3, <2>4, Zenon DEF QuietBody, BootInv
  <1>6. TreeInv'
    BY ZenonT(60), <1>3 DEF QuietBody, TreeInv, FitsTree, Started, IsChild, Live, pcbVars
  <1>7. BootInv'
    BY ZenonT(60), <1>2, <1>3, <1>5 DEF QuietBody, BootInv, Started, Live
  <1>8. Serving' = i
    BY <1>2, <1>3, Zenon DEF Serving
  <1>9. ASSUME NEW t \in Terminals, Started(t)', t # i
        PROVE  Resumable(t)'
    <2> DEFINE e == execute_pid[t]
    <2>1. Started(t) /\ run.pc # "idle" /\ e \in Pids
      BY <1>3, <1>9, Zenon DEF QuietBody, BootInv, Started, CallInv, TypeOK
    <2>2. CASE run.pc # "start" /\ t = Serving
      <3>1. run.pc \in {"user", "freed", "handed"}
        BY <1>1, <2>1, <2>2, Zenon DEF Context, PCs
      <3>2. e = current_pid /\ Reached(t, run, e)
        BY ZenonT(60), <2>2, <3>1, ForegroundCurrent
      <3>3. sched_ctx'[e] = run /\ sched_esp0'[e] = esp0 /\ run # NoContext
        BY <1>1, <1>3, <3>2 DEF NoContext
      <3>4. run.pc = "user" => esp0 = e
        BY ZenonT(60), <3>2 DEF QuietBody, SchedInv
      <3> QED
        BY <1>3, <3>2, <3>3, <3>4, ResumableSaved, Zenon
    <2>3. CASE t # Serving
      <3>1. /\ Resumable(t) /\ tty[e] = t
            /\ Live(e) \/ sched_ctx[e].pid = e
        BY ZenonT(60), <2>1, <2>3, ResumableOwner
      <3>2. e # current_pid
        <4>1. CASE run.pc = "start"
          <5>1. current_pid = i
            BY <1>1, <1>2, <4>1, FirstFreeUnique, Zenon DEF CallInv
          <5>2. e = i => FitsTree(i)
            BY ZenonT(60), <1>4, <3>1 DEF Resumable, Reached
          <5> QED
            BY ZenonT(60), <1>9, <3>1, <5>1, <5>2 DEF FitsTree
        <4>2. CASE run.pc # "start"
          BY <2>3, <3>1, <4>2, Zenon DEF Serving
        <4> QED
          BY <4>1, <4>2, Zenon
      <3>3. sched_ctx'[e] = sched_ctx[e] /\ sched_esp0'[e] = sched_esp0[e]
        BY SMTT(40), <1>1, <1>3, <3>2
      <3> QED
        BY <1>3, <3>1, <3>3, ResumableKept, Zenon
    <2>4. CASE run.pc = "start" /\ t = Serving
      BY <1>1, <1>2, <1>9, <2>4, FirstFreeUnique, Zenon DEF Serving, CallInv
    <2> QED
      BY <2>2, <2>3, <2>4, Zenon
  <1>10. SchedInv'
    BY <1>3, <1>8, <1>9, Zenon DEF SchedInv
  <1> QED
    BY <1>3, <1>6, <1>7, <1>10, Zenon DEF QuietBody

\* A tick that changes terminals swaps the running context for the one filed
\* under the next terminal's foreground process.
LEMMA TickSwitchQuiet ==
    ASSUME CallInv, QuietBody, tick_switch, run.pc # "moved"
    PROVE  QuietBody'
  <1> USE Constants
  <1> DEFINE nt == NextTerminal
  <1> DEFINE next == execute_pid[nt]
  <1> DEFINE t0 == tty[current_pid]
  <1>1. /\ run \in Context /\ run.pc # "lost" /\ current_pid \in Pids
        /\ sched_ctx \in [Pids -> Context]
        /\ sched_esp0 \in [Pids -> Pids \cup {NoPid}]
    BY ZenonT(60) DEF CallInv, TypeOK, tick_switch
  <1>2. nt \in Terminals
    BY NextTerminalType, Zenon DEF CallInv, TypeOK
  <1>3. \A t \in Terminals : Live(t) /\ Started(t)
    BY ZenonT(60) DEF tick_switch, QuietBody, BootInv, Live
  <1>4. run.pc \in {"user", "freed", "handed"}
    BY <1>1, <1>3, Zenon DEF CallInv, FirstFree, Live, FREE, IN_USE, Context, PCs
  <1>5. /\ Reached(t0, run, current_pid)
        /\ execute_pid[t0] = current_pid
        /\ Serving = t0 /\ t0 \in Terminals
    BY ZenonT(60), <1>4, ForegroundCurrent
  <1>6. \A t \in Terminals : t # t0 =>
          /\ Resumable(t) /\ execute_pid[t] \in Pids
          /\ tty[execute_pid[t]] = t /\ execute_pid[t] # current_pid
    BY <1>3, <1>5, ResumableOwner, Zenon
  <1>7. /\ next \in Pids /\ tty[next] = nt
        /\ next = current_pid <=> nt = t0
        /\ nt # t0 => sched_ctx[next] # NoContext
    BY <1>1, <1>2, <1>5, <1>6 DEF Resumable
  <1>8. /\ UNCHANGED <<pid_flags, pcbVars, execute_pid, returned>>
        /\ current_pid' = next /\ prog_page' = next
        /\ run' = IF next = current_pid THEN run ELSE sched_ctx[next]
        /\ esp0' = IF next = current_pid THEN esp0 ELSE sched_esp0[next]
        /\ sched_esp0' = [sched_esp0 EXCEPT ![current_pid] = esp0]
        /\ sched_ctx' = [sched_ctx EXCEPT ![current_pid] = run,
                                          ![next] = NoContext]
    BY <1>7, Zenon DEF tick_switch, LoadContext
  <1>9. Reached(nt, run', next)
    BY ZenonT(60), <1>2, <1>5, <1>6, <1>7, <1>8 DEF Resumable
  <1>10. run'.pc \in {"user", "freed", "moved", "handed"}
    BY ZenonT(60), <1>9 DEF Reached
  <1>11. TreeInv'
    BY ZenonT(60), <1>8 DEF QuietBody, TreeInv, FitsTree, Started, IsChild, Live, pcbVars
  <1>12. BootInv'
    BY ZenonT(60), <1>3, <1>8, <1>10 DEF BootInv, Started, Live
  <1>13. Reached(tty[current_pid], run, current_pid)'
    BY ZenonT(60), <1>7, <1>8, <1>9
    DEF Reached, FitsTree, OnlyChild, IsChild, Live, pcbVars
  <1>14. run'.pc = "user" => esp0' = next
    BY ZenonT(60), <1>2, <1>6, <1>7, <1>8 DEF QuietBody, SchedInv, Resumable
  <1>15. Serving' = nt
    BY ZenonT(60), <1>7, <1>8, <1>10 DEF Serving, pcbVars
  <1>16. ASSUME NEW t \in Terminals, t # nt
         PROVE  Resumable(t)'
    <2> DEFINE e == execute_pid[t]
    <2>1. CASE t = t0
      <3>1. e = current_pid /\ Reached(t, run, current_pid)
        BY <1>5, <2>1, Zenon
      <3>2. e # next
        BY <1>7, <1>16, <2>1, <3>1, Zenon
      <3>3. run # NoContext
        BY <1>4 DEF NoContext
      <3>4. sched_esp0'[current_pid] = esp0
        BY <1>1, <1>8, Zenon
      <3>5. sched_ctx'[current_pid] = run
        BY <1>1, <1>8, <3>1, <3>2, Zenon
      <3>6. run.pc = "user" => esp0 = current_pid
        BY Zenon DEF QuietBody, SchedInv
      <3> QED
        BY ZenonT(60), <1>8, <3>1, <3>3, <3>4, <3>5, <3>6, ResumableSaved
    <2>2. CASE t # t0
      <3>1. Resumable(t) /\ e \in Pids /\ e # current_pid /\ e # next
        BY <1>6, <1>7, <1>16, <2>2, Zenon
      <3>2. sched_ctx'[e] = sched_ctx[e] /\ sched_esp0'[e] = sched_esp0[e]
        BY <1>1, <1>7, <1>8, <3>1, Zenon
      <3> QED
        BY ZenonT(60), <1>8, <3>1, <3>2, ResumableKept
    <2> QED
      BY <2>1, <2>2, Zenon
  <1>17. SchedInv'
    BY ZenonT(60), <1>8, <1>13, <1>14, <1>15, <1>16 DEF SchedInv
  <1> QED
    BY <1>8, <1>10, <1>11, <1>12, <1>17, Zenon DEF QuietBody

\* What execute writes, field by field.
LEMMA LaunchWrites ==
    ASSUME CallInv, run.pc # "lost", NEW new \in Pids, NEW u, Launch(new, u)
    PROVE  /\ ~Live(new) /\ \A p \in Pids : p < new => Live(p)
           /\ \A p \in Pids : Live(p)' <=> Live(p) \/ p = new
           /\ \A p \in Pids : p # new =>
                 /\ parent_id'[p] = parent_id[p] /\ tty'[p] = tty[p]
                 /\ return_value'[p] = return_value[p]
                 /\ parent_esp0'[p] = parent_esp0[p]
           /\ parent_id'[new] = current_pid /\ tty'[new] = terminal_num
           /\ parent_esp0'[new] = esp0
           /\ terminal_num \in Terminals /\ current_pid \in Pids
           /\ execute_pid'[terminal_num] = new
           /\ \A t \in Terminals : t # terminal_num =>
                 execute_pid'[t] = execute_pid[t]
           /\ current_pid' = new /\ prog_page' = new /\ esp0' = new
           /\ run' = [pid |-> new, pc |-> "user", status |-> 0]
           /\ UNCHANGED <<sched_esp0, returned>>
           /\ \A p \in Pids : p # new /\ sched_ctx[p].pid # new =>
                 sched_ctx'[p] = sched_ctx[p]
  <1> USE DEF Launch
  <1>1. /\ pid_flags \in [Pids -> {FREE, IN_USE}]
        /\ terminal_num \in Terminals /\ current_pid \in Pids
    BY ZenonT(60) DEF CallInv, TypeOK
  <1>2. ~Live(new) /\ \A p \in Pids : p < new => Live(p)
    BY Constants, Zenon DEF FirstFree, Live
  <1>3. \A p \in Pids : Live(p)' <=> Live(p) \/ p = new
    BY <1>1, Zenon DEF Live
  <1>4. /\ parent_id' = [parent_id EXCEPT ![new] = current_pid]
        /\ return_value' = [return_value EXCEPT ![new] = 0]
        /\ tty' = [tty EXCEPT ![new] = terminal_num]
        /\ parent_esp0' = [parent_esp0 EXCEPT ![new] = esp0]
        /\ execute_pid' = [execute_pid EXCEPT ![terminal_num] = new]
    BY Zenon DEF setup_PCB, EnterProgram
  <1>5. /\ parent_id \in [Pids -> Pids] /\ tty \in [Pids -> Terminals]
        /\ return_value \in [Pids -> Status \cup {0}]
        /\ parent_esp0 \in [Pids -> Pids \cup {NoPid}]
        /\ execute_pid \in [Terminals -> Pids \cup {NoPid}]
    BY ZenonT(60) DEF CallInv, TypeOK
  <1>6. /\ current_pid' = new /\ prog_page' = new /\ esp0' = new
        /\ run' = [pid |-> new, pc |-> "user", status |-> 0]
    BY Zenon DEF EnterProgram
  <1>7. \A p \in Pids : p # new /\ sched_ctx[p].pid # new =>
           sched_ctx'[p] = sched_ctx[p]
    BY ZenonT(60) DEF DropStack
  <1>8. \A p \in Pids : p # new =>
          /\ parent_id'[p] = parent_id[p] /\ tty'[p] = tty[p]
          /\ return_value'[p] = return_value[p]
          /\ parent_esp0'[p] = parent_esp0[p]
    BY <1>4, <1>5, Zenon
  <1>9. /\ parent_id'[new] = current_pid /\ tty'[new] = terminal_num
        /\ parent_esp0'[new] = esp0
        /\ execute_pid'[terminal_num] = new
        /\ \A t \in Terminals : t # terminal_num => execute_pid'[t] = execute_pid[t]
    BY <1>1, <1>4, <1>5, Zenon
  <1> QED
    BY ZenonT(60), <1>1, <1>2, <1>3, <1>6, <1>7, <1>8, <1>9

\* A process that fits the tree does not hang from a free pid, and goes on
\* fitting when execute fills that pid.
LEMMA LaunchFits ==
    ASSUME CallInv, run.pc # "lost", NEW new \in Pids, NEW u, Launch(new, u),
           NEW p \in Pids, p # new, FitsTree(p)
    PROVE  parent_id[p] # new /\ FitsTree(p)'
  <1>1. ~Live(new) /\ parent_id[p] \in Pids
    BY ZenonT(60), LaunchWrites DEF CallInv, TypeOK
  <1>2. parent_id[p] # new
    BY <1>1, Zenon DEF FitsTree
  <1>3. /\ parent_id'[p] = parent_id[p] /\ tty'[p] = tty[p]
        /\ tty'[parent_id[p]] = tty[parent_id[p]]
        /\ parent_esp0'[p] = parent_esp0[p]
        /\ Live(parent_id[p]) => Live(parent_id[p])'
    <2>1. \A q \in Pids : q # new => tty'[q] = tty[q] /\ (Live(q) => Live(q)')
      BY ZenonT(60), LaunchWrites
    <2>2. parent_id'[p] = parent_id[p] /\ parent_esp0'[p] = parent_esp0[p]
      BY ZenonT(60), LaunchWrites
    <2>3. Live(parent_id[p]) => pid_flags'[parent_id[p]] = IN_USE
      BY <1>1, <1>2, <2>1, Zenon DEF Live
    <2> QED
      BY ZenonT(60), <1>1, <1>2, <2>1, <2>2, <2>3 DEF Live
  <1> QED
    BY ZenonT(60), <1>2, <1>3 DEF FitsTree, Live

\* execute for the terminal on the screen leaves every other terminal as it
\* can be resumed.
LEMMA LaunchOthers ==
    ASSUME CallInv, QuietBody, NEW new \in Pids, NEW u, Launch(new, u),
           current_pid # new => tty[current_pid] = terminal_num,
           NEW t \in Terminals, t # terminal_num, Resumable(t),
           execute_pid[t] \in Pids, execute_pid[t] # new,
           sched_ctx[execute_pid[t]].pid # new
    PROVE  Resumable(t)'
  <1>1. /\ run.pc # "lost" /\ parent_id \in [Pids -> Pids]
        /\ sched_ctx \in [Pids -> Context]
    BY Zenon DEF QuietBody, CallInv, TypeOK
  <1>2. PICK e \in Pids : e = execute_pid[t]
    BY Zenon
  <1>3. PICK c \in Context : c = sched_ctx[e]
    BY <1>1, Zenon
  <1>4. /\ Reached(t, c, e) /\ c # NoContext
        /\ c.pc = "user" => sched_esp0[e] = e
    BY ZenonT(60), <1>2, <1>3 DEF Resumable
  <1>5. PICK q \in Pids : q = c.pid
    BY ZenonT(60), <1>4 DEF Reached
  <1>6. FitsTree(q) /\ parent_id[q] \in Pids /\ tty[q] = t /\ q # new /\ e # new
    BY ZenonT(60), <1>1, <1>2, <1>3, <1>4, <1>5 DEF Reached
  <1>7. parent_id[q] # new /\ FitsTree(q)'
    BY ZenonT(60), <1>1, <1>6, LaunchFits
  <1>8. /\ sched_ctx'[e] = c /\ execute_pid'[t] = e /\ sched_esp0' = sched_esp0
        /\ tty'[q] = tty[q] /\ parent_id'[q] = parent_id[q]
        /\ return_value'[parent_id[q]] = return_value[parent_id[q]]
        /\ Live(q)' <=> Live(q)
    <2>1. sched_ctx'[e] = c
      <3>1. \A p \in Pids : p # new /\ sched_ctx[p].pid # new =>
               sched_ctx'[p] = sched_ctx[p]
        BY ZenonT(60), <1>1, LaunchWrites
      <3>2. sched_ctx[e].pid # new
        BY <1>2, Zenon
      <3> QED
        BY ZenonT(60), <1>3, <1>6, <3>1, <3>2
    <2>2. execute_pid'[t] = e /\ sched_esp0' = sched_esp0
      BY ZenonT(60), <1>1, <1>2, LaunchWrites
    <2>3. \A p \in Pids : p # new =>
             /\ tty'[p] = tty[p] /\ parent_id'[p] = parent_id[p]
             /\ return_value'[p] = return_value[p]
             /\ Live(p)' <=> Live(p)
      BY ZenonT(60), <1>1, LaunchWrites
    <2> QED
      BY ZenonT(60), <1>6, <1>7, <2>1, <2>2, <2>3
  <1>9. OnlyChild(q) => OnlyChild(q)'
    <2> SUFFICES ASSUME q \notin Terminals, OnlyChild(q), NEW p \in Pids, p # q,
                        IsChild(p, parent_id[q])'
                 PROVE  FALSE
      BY ZenonT(60) DEF OnlyChild
    <2>1. Live(p)' /\ p # parent_id[q] /\ parent_id'[p] = parent_id[q]
      BY ZenonT(60), <1>8 DEF IsChild
    <2>2. CASE p = new
      <3>1. current_pid = parent_id[q]
        BY ZenonT(60), <1>1, <2>1, <2>2, LaunchWrites
      <3>2. tty[parent_id[q]] = t
        BY ZenonT(60), <1>6 DEF FitsTree
      <3> QED
        BY ZenonT(60), <1>7, <3>1, <3>2
    <2>3. CASE p # new
      <3>1. Live(p) /\ parent_id[p] = parent_id[q]
        BY ZenonT(60), <1>1, <2>1, <2>3, LaunchWrites
      <3> QED
        BY ZenonT(60), <2>1, <3>1 DEF OnlyChild, IsChild
    <2> QED
      BY ZenonT(60), <2>2, <2>3
  <1>10. Reached(t, c, e)'
    <2>1. Reached(t, c, e)
      BY ZenonT(60), <1>4
    <2> QED
      BY ZenonT(60), <1>2, <1>5, <1>6, <1>7, <1>8, <1>9, <2>1 DEF Reached
  <1>11. sched_ctx'[execute_pid'[t]] = c /\ execute_pid'[t] = e
    BY ZenonT(60), <1>8
  <1> QED
    BY ZenonT(60), <1>4, <1>8, <1>10, <1>11
    DEF Resumable, Reached, FitsTree, OnlyChild, IsChild, Live

\* A program's execute, outside every window, puts a child on top of it.
LEMMA LaunchChildQuiet ==
    ASSUME CallInv, QuietBody, run.pc = "user", NEW new \in Pids,
           Launch(new, tty[current_pid]),
           ExecuteHazards(new, tty[current_pid]) = {}
    PROVE  QuietBody'
  <1> USE Constants
  <1>1. PICK c \in Pids : c = current_pid
    BY ZenonT(60) DEF CallInv, TypeOK
  <1>2. PICK v \in Terminals : v = tty[c]
    BY ZenonT(60), <1>1 DEF CallInv, TypeOK
  <1>3. /\ Reached(v, run, c) /\ run.pid = c /\ esp0 = c
        /\ Live(c) /\ execute_pid[v] = c /\ Serving = v
    BY ZenonT(60), <1>1, <1>2 DEF QuietBody, SchedInv, Reached, Serving
  <1>4. \A p \in Pids : ~IsChild(p, c)
    BY ZenonT(60), <1>3 DEF QuietBody, TreeInv, Started
  <1>5. ~Live(new) /\ new # c /\ \A p \in Pids : p < new => Live(p)
    BY ZenonT(60), <1>3, LaunchWrites
  <1>6. /\ terminal_num = v /\ new \notin Terminals
        /\ \A p \in Pids : sched_ctx[p] # NoContext => sched_ctx[p].pid # new
    BY ZenonT(60), <1>1, <1>2, <1>3, <1>5 DEF ExecuteHazards, HazardKinds
  <1>7. \A t \in Terminals : t < new
    BY SMTT(40), <1>6, ProcessAssumption DEF Terminals, Pids
  <1>8. \A t \in Terminals : Live(t) /\ Started(t)
    BY <1>5, <1>7, Zenon DEF QuietBody, BootInv
  <1>9. /\ \A p \in Pids : Live(p)' <=> Live(p) \/ p = new
        /\ \A p \in Pids : p # new =>
              parent_id'[p] = parent_id[p] /\ tty'[p] = tty[p]
        /\ parent_id'[new] = c /\ tty'[new] = v /\ parent_esp0'[new] = c
        /\ execute_pid'[v] = new
        /\ \A t \in Terminals : t # v => execute_pid'[t] = execute_pid[t]
        /\ current_pid' = new /\ prog_page' = new /\ esp0' = new
        /\ run' = [pid |-> new, pc |-> "user", status |-> 0]
        /\ UNCHANGED <<sched_esp0, returned>>
    BY ZenonT(60), <1>1, <1>3, <1>6, LaunchWrites
  <1>10. \A p \in Pids : Live(p) =>
            FitsTree(p) /\ parent_id[p] # new /\ FitsTree(p)'
    BY ZenonT(60), <1>5, LaunchFits DEF QuietBody, TreeInv
  <1>11. FitsTree(new)'
    <2>1. pid_flags'[c] = IN_USE
      BY ZenonT(60), <1>3, <1>9 DEF Live
    <2> QED
      BY ZenonT(60), <1>2, <1>5, <1>6, <1>9, <2>1 DEF FitsTree, Live
  <1>12. ASSUME NEW t \in Terminals, t # v
         PROVE  /\ Resumable(t) /\ execute_pid[t] \in Pids
                /\ tty[execute_pid[t]] = t
                /\ execute_pid[t] # new /\ execute_pid[t] # c
                /\ sched_ctx[execute_pid[t]].pid # new
    <2>1. /\ Resumable(t) /\ execute_pid[t] \in Pids
          /\ tty[execute_pid[t]] = t
          /\ Live(execute_pid[t]) \/ sched_ctx[execute_pid[t]].pid = execute_pid[t]
      BY <1>3, <1>8, <1>12, ResumableOwner, Zenon
    <2>2. sched_ctx[execute_pid[t]].pid # new
      BY <1>6, <2>1, Zenon DEF Resumable
    <2> QED
      BY <1>2, <1>5, <1>12, <2>1, <2>2, Zenon
  <1>13. TreeInv'
    <2>1. \A p \in Pids : Live(p)' => FitsTree(p)'
      BY <1>9, <1>10, <1>11, Zenon
    <2>2. ASSUME NEW p \in Pids \ Terminals, NEW q \in Pids \ Terminals,
                 Live(p)', Live(q)', parent_id'[p] = parent_id'[q]
          PROVE  p = q
      <3>1. \A x \in Pids \ Terminals : Live(x) => parent_id[x] # c
        BY <1>4, <1>10 DEF IsChild, FitsTree
      <3> QED
        BY ZenonT(60), <1>9, <2>2, <3>1 DEF QuietBody, TreeInv
    <2>3. ASSUME NEW t \in Terminals
          PROVE  tty'[execute_pid'[t]] = t
                 /\ \A p \in Pids : ~IsChild(p, execute_pid[t])'
      <3>1. CASE t = v
        BY <1>5, <1>9, <1>10, <3>1, Zenon DEF IsChild
      <3>2. CASE t # v
        <4>1. /\ execute_pid'[t] = execute_pid[t] /\ execute_pid[t] \in Pids
              /\ tty'[execute_pid[t]] = t /\ execute_pid[t] # c
          BY <1>9, <1>12, <3>2, Zenon
        <4>2. \A p \in Pids : ~IsChild(p, execute_pid[t])
          BY ZenonT(60), <1>8 DEF QuietBody, TreeInv
        <4> QED
          BY <1>9, <4>1, <4>2, Zenon DEF IsChild
      <3> QED
        BY <3>1, <3>2, Zenon
    <2> QED
      BY <2>1, <2>2, <2>3, Zenon DEF TreeInv
  <1>14. BootInv'
    <2>1. \A t \in Terminals : Started(t)' /\ Live(t)'
      <3>1. \A t \in Terminals : execute_pid'[t] # NoPid
        BY <1>8, <1>9, Zenon DEF Started
      <3> QED
        BY <1>8, <1>9, <3>1, Zenon DEF Started
    <2> QED
      BY <1>9, <2>1, Zenon DEF BootInv
  <1>15. SchedInv'
    <2>1. Serving' = v
      BY <1>9, Zenon DEF Serving
    <2>2. \A t \in Terminals : t # v => Resumable(t)'
      BY ZenonT(60), <1>1, <1>2, <1>6, <1>12, LaunchOthers
    <2>3. Reached(tty[current_pid], run, current_pid)'
      BY ZenonT(60), <1>9, <1>11 DEF Reached, FitsTree, Live, OnlyChild
    <2> QED
      BY <1>9, <2>1, <2>2, <2>3, Zenon DEF SchedInv
  <1> QED
    BY ZenonT(60), <1>9, <1>13, <1>14, <1>15 DEF QuietBody

\* A terminal's first shell, executed by task_switch or by the shell that
\* halts, takes its terminal's own pid.
LEMMA LaunchShellQuiet ==
    ASSUME CallInv, QuietBody, run.pc \in {"freed", "start"},
           NEW new \in Terminals, new = current_pid, Serving = new,
           NEW u, Launch(new, u), terminal_num = new
    PROVE  QuietBody'
  <1> USE Constants
  <1>1. ~Live(new) /\ \A p \in Pids : p < new => Live(p)
    BY ZenonT(60), LaunchWrites
  <1>2. /\ \A p \in Pids : Live(p)' <=> Live(p) \/ p = new
        /\ \A p \in Pids : p # new =>
              parent_id'[p] = parent_id[p] /\ tty'[p] = tty[p]
        /\ parent_id'[new] = new /\ tty'[new] = new
        /\ execute_pid'[new] = new
        /\ \A t \in Terminals : t # new => execute_pid'[t] = execute_pid[t]
        /\ current_pid' = new /\ prog_page' = new /\ esp0' = new
        /\ run' = [pid |-> new, pc |-> "user", status |-> 0]
        /\ UNCHANGED <<sched_esp0, returned>>
    BY SMTT(40), LaunchWrites
  <1>3. \A p \in Pids : Live(p) =>
           FitsTree(p) /\ parent_id[p] # new /\ FitsTree(p)'
    BY ZenonT(60), <1>1, LaunchFits DEF QuietBody, TreeInv
  <1>4. FitsTree(new)'
    BY <1>2, Zenon DEF FitsTree
  <1>5. ASSUME NEW t \in Terminals, t # new, Started(t)
        PROVE  /\ Resumable(t) /\ execute_pid[t] \in Pids
               /\ tty[execute_pid[t]] = t /\ execute_pid[t] # new
               /\ sched_ctx[execute_pid[t]].pid # new
    <2>1. /\ Resumable(t) /\ execute_pid[t] \in Pids
          /\ tty[execute_pid[t]] = t
          /\ Live(execute_pid[t]) \/ sched_ctx[execute_pid[t]].pid = execute_pid[t]
      BY <1>5, ResumableOwner, Zenon
    <2>2. sched_ctx[execute_pid[t]].pid # new
      BY ZenonT(60), <1>5, <2>1 DEF Resumable, Reached, FitsTree
    <2> QED
      BY ZenonT(60), <1>1, <2>1, <2>2
  <1>6. \A t \in Terminals : t # new => (Started(t)' <=> Started(t))
    BY <1>2, Zenon DEF Started
  <1>7. TreeInv'
    <2>1. \A p \in Pids : Live(p)' => FitsTree(p)'
      BY <1>2, <1>3, <1>4, Zenon
    <2>2. ASSUME NEW p \in Pids \ Terminals, NEW q \in Pids \ Terminals,
                 Live(p)', Live(q)', parent_id'[p] = parent_id'[q]
          PROVE  p = q
      BY ZenonT(60), <1>2, <2>2 DEF QuietBody, TreeInv
    <2>3. ASSUME NEW t \in Terminals, Started(t)'
          PROVE  tty'[execute_pid'[t]] = t
                 /\ \A p \in Pids : ~IsChild(p, execute_pid[t])'
      <3>1. CASE t = new
        BY <1>2, <1>3, <3>1, Zenon DEF IsChild
      <3>2. CASE t # new
        <4>1. /\ execute_pid'[t] = execute_pid[t] /\ execute_pid[t] \in Pids
              /\ tty'[execute_pid[t]] = t /\ execute_pid[t] # new
          BY <1>2, <1>5, <1>6, <2>3, <3>2, Zenon
        <4>2. \A p \in Pids : ~IsChild(p, execute_pid[t])
          BY ZenonT(60), <1>6, <2>3, <3>2 DEF QuietBody, TreeInv
        <4> QED
          BY <1>2, <4>1, <4>2, Zenon DEF IsChild
      <3> QED
        BY ZenonT(60), <3>1, <3>2
    <2> QED
      BY ZenonT(60), <2>1, <2>2, <2>3 DEF TreeInv
  <1>8. BootInv'
    <2>1. ASSUME NEW t \in Terminals, ~Started(t)'
          PROVE  /\ ~Live(t)'
                 /\ \A w \in Terminals : w > t => ~Started(w)'
                 /\ \A p \in Pids : Live(p)' => p \in Terminals
      <3>1. t # new
        BY <1>2, <2>1, Zenon DEF Started
      <3>2. ~Started(t)
        BY <1>6, <2>1, <3>1, Zenon
      <3>3. ~Live(t) /\ new < t
        BY SMTT(40), <1>1, <3>1, <3>2 DEF QuietBody, BootInv, Terminals
      <3>4. \A w \in Terminals : w > t => ~Started(w) /\ w # new
        BY SMTT(40), <3>2, <3>3 DEF QuietBody, BootInv, Terminals
      <3> QED
        BY ZenonT(60), <1>2, <1>6, <3>1, <3>2, <3>3, <3>4 DEF QuietBody, BootInv
    <2>2. ASSUME NEW t \in Terminals, Started(t)' PROVE Live(t)'
      BY ZenonT(60), <1>2, <1>6, <2>2 DEF QuietBody, BootInv
    <2> QED
      BY <1>2, <2>1, <2>2, Zenon DEF BootInv
  <1>9. SchedInv'
    <2>1. Serving' = new
      BY <1>2, Zenon DEF Serving
    <2>2. \A t \in Terminals : Started(t)' /\ t # new => Resumable(t)'
      BY <1>5, <1>6, LaunchOthers, Zenon
    <2>3. Reached(tty[current_pid], run, current_pid)'
      BY ZenonT(60), <1>2, <1>4 DEF Reached, FitsTree, Live, OnlyChild
    <2> QED
      BY <1>2, <2>1, <2>2, <2>3, Zenon DEF SchedInv
  <1> QED
    BY ZenonT(60), <1>2, <1>7, <1>8, <1>9 DEF QuietBody

\* The shell that halts on a terminal finds its own pid free.
LEMMA ReexecQuiet ==
    ASSUME CallInv, QuietBody, halt_reexec, hazards' = {}
    PROVE  QuietBody'
  <1> USE Constants
  <1>1. PICK new \in Pids : Launch(new, tty[current_pid])
    BY Zenon DEF halt_reexec
  <1>2. /\ run.pc = "freed" /\ current_pid \in Pids /\ run.pid = current_pid
        /\ parent_id[current_pid] = current_pid
        /\ FitsTree(current_pid) /\ ~Live(current_pid)
        /\ execute_pid[tty[current_pid]] = current_pid
    BY Zenon DEF halt_reexec, QuietBody, SchedInv, Reached, CallInv, TypeOK
  <1>3. current_pid \in Terminals /\ tty[current_pid] = current_pid
    BY <1>2, Zenon DEF FitsTree
  <1>4. ASSUME NEW p \in Pids, p < current_pid PROVE Live(p)
    <2>1. p \in Terminals /\ p # current_pid
      BY <1>3, <1>4, ProcessAssumption DEF Terminals, Pids
    <2>2. Started(current_pid)
      BY <1>2, <1>3, Zenon DEF Started
    <2> QED
      BY <1>3, <1>4, <2>1, <2>2, Zenon DEF QuietBody, BootInv, Terminals
  <1>5. FirstFree(current_pid)
    BY <1>2, <1>4, Zenon DEF FirstFree, Live, CallInv, TypeOK
  <1>6. new = current_pid
    BY <1>1, <1>2, <1>5, FirstFreeUnique, Zenon DEF Launch
  <1>7. terminal_num = current_pid
    BY <1>1, <1>3, Zenon DEF Launch, ExecuteHazards, HazardKinds
  <1> QED
    BY <1>1, <1>2, <1>3, <1>6, <1>7, LaunchShellQuiet, Zenon DEF Serving

\* The shell task_switch starts, unless a key changed the terminal meanwhile.
LEMMA StartShellQuiet ==
    ASSUME CallInv, QuietBody, start_shell, hazards' = {}
    PROVE  QuietBody'
  <1>1. PICK new \in Pids : Launch(new, current_pid)
    BY Zenon DEF start_shell
  <1>2. /\ run.pc = "start" /\ current_pid \in Terminals
        /\ FirstFree(current_pid)
    BY Zenon DEF start_shell, CallInv
  <1>3. new = current_pid
    BY <1>1, <1>2, Constants, FirstFreeUnique, Zenon DEF Launch
  <1>4. terminal_num = current_pid
    BY <1>1, Zenon DEF Launch, ExecuteHazards, HazardKinds
  <1> QED
    BY <1>1, <1>2, <1>3, <1>4, LaunchShellQuiet, Zenon DEF Serving

\* Every step keeps the second layer, or hits a window.
LEMMA QuietNext == CallInv /\ QuietInv /\ [Next]_vars => QuietInv'
  <1> SUFFICES ASSUME CallInv, QuietInv, [Next]_vars, hazards' = {}
               PROVE  QuietBody'
    BY Zenon DEF QuietInv, QuietBody
  <1> USE Constants
  <1>1. hazards = {}
    BY ZenonT(60) DEF Next, vars, execute, execute_not_found, execute_full, halt,
           write_fault, halt_free, halt_reexec, halt_move, halt_hand,
           halt_return, start_shell, PIT_handler, tick_start, tick_switch,
           terminal_switch, Launch
  <1>2. QuietBody
    BY <1>1, Zenon DEF QuietInv, QuietBody
  <1>3. CASE execute
    <2>1. PICK new \in Pids : Launch(new, tty[current_pid])
      BY <1>3, Zenon DEF execute
    <2>2. ExecuteHazards(new, tty[current_pid]) = {}
      BY <2>1, Zenon DEF Launch
    <2> QED
      BY <1>2, <1>3, <2>1, <2>2, LaunchChildQuiet, Zenon DEF execute
  <1>4. CASE execute_not_found
    BY <1>2, <1>4, FrameQuiet, Zenon DEF execute_not_found
  <1>5. CASE execute_full
    BY <1>2, <1>5, FrameQuiet, Zenon DEF execute_full
  <1>6. CASE halt
    BY <1>2, <1>6, HaltFreeQuiet, Zenon DEF halt
  <1>7. CASE write_fault
    BY <1>2, <1>7, HaltFreeQuiet, ErrorStatus, Zenon DEF write_fault
  <1>8. CASE halt_reexec
    BY <1>2, <1>8, ReexecQuiet, Zenon
  <1>9. CASE halt_move
    BY <1>2, <1>9, HaltMoveQuiet, Zenon
  <1>10. CASE halt_hand
    BY <1>2, <1>10, HaltHandQuiet, Zenon
  <1>11. CASE halt_return
    BY <1>2, <1>11, HaltReturnQuiet, Zenon
  <1>12. CASE start_shell
    BY <1>2, <1>12, StartShellQuiet, Zenon
  <1>13. CASE PIT_handler
    <2>1. run.pc # "moved"
      BY <1>13, Zenon DEF PIT_handler, tick_start, tick_switch, TickHazards, HazardKinds
    <2> QED
      BY <1>2, <1>13, <2>1, TickStartQuiet, TickSwitchQuiet, Zenon DEF PIT_handler
  <1>14. ASSUME NEW t \in Terminals, terminal_switch(t) PROVE QuietBody'
    BY ZenonT(60), <1>2, <1>14, FrameQuiet DEF terminal_switch, QuietBody
  <1>15. CASE UNCHANGED vars
    BY ZenonT(60), <1>2, <1>15, FrameQuiet DEF vars, QuietBody
  <1> QED
    BY Zenon, <1>3, <1>4, <1>5, <1>6, <1>7, <1>8, <1>9, <1>10, <1>11, <1>12, <1>13,
       <1>14, <1>15 DEF Next

\* The inductive invariant holds of every behaviour.
THEOREM Inductive == Spec => []IInv
  <1>1. Init => IInv
    BY CallInit, QuietInit, Zenon DEF IInv
  <1>2. IInv /\ [Next]_vars => IInv'
    BY CallNext, QuietNext, Zenon DEF IInv
  <1> QED
    BY <1>1, <1>2, PTL DEF Spec

\* Outside the four windows, task_switch never loads a stack pointer that
\* designates no suspended context.
THEOREM SwitchSafe == Spec => []NeverLost
  <1>1. IInv => NeverLost
    BY Zenon DEF IInv, QuietInv, NeverLost
  <1> QED
    BY <1>1, Inductive, PTL

\* Outside the four windows, a program runs in its own page and is interrupted
\* on its own kernel stack.
THEOREM PageAndStackSafe == Spec => []OwnPageAndStack
  <1>1. IInv => OwnPageAndStack
    BY ZenonT(60) DEF IInv, CallInv, Belongs, QuietInv, SchedInv, OwnPageAndStack
  <1> QED
    BY <1>1, Inductive, PTL

\* Outside the four windows, execute_pid[t] is the process of terminal t that
\* waits for nobody.
THEOREM ForegroundSafe == Spec => []ForegroundIsLeaf
  <1>1. IInv => ForegroundIsLeaf
    BY ZenonT(60) DEF IInv, QuietInv, TreeInv, Started, ForegroundIsLeaf
  <1> QED
    BY <1>1, Inductive, PTL

\* Outside the four windows, the processes of a terminal form one chain that
\* starts at its first shell.
THEOREM TreeSafe == Spec => []OneChainPerTerminal
  <1>1. IInv => OneChainPerTerminal
    <2> SUFFICES ASSUME IInv, hazards = {}, NEW p \in Pids, Live(p)
                 PROVE  /\ parent_id[p] = p <=> p \in Terminals
                        /\ p \in Terminals => tty[p] = p
                        /\ p \notin Terminals => Live(parent_id[p])
                        /\ tty[parent_id[p]] = tty[p]
                        /\ \A q \in Pids :
                              IsChild(p, parent_id[p]) /\ IsChild(q, parent_id[p])
                                 => q = p
      BY Zenon DEF OneChainPerTerminal
    <2>1. TreeInv
      BY Zenon DEF IInv, QuietInv
    <2>2. FitsTree(p)
      BY <2>1, Zenon DEF TreeInv
    <2>3. ASSUME NEW q \in Pids, IsChild(p, parent_id[p]), IsChild(q, parent_id[p])
          PROVE  q = p
      <3>1. /\ Live(q) /\ q # parent_id[p] /\ parent_id[q] = parent_id[p]
            /\ p # parent_id[p]
        BY <2>3, Zenon DEF IsChild
      <3>2. p \notin Terminals /\ q \notin Terminals
        BY ZenonT(60), <2>1, <2>2, <3>1 DEF TreeInv, FitsTree
      <3> QED
        BY <2>1, <3>1, <3>2, Zenon DEF TreeInv
    <2> QED
      BY ZenonT(60), <2>2, <2>3 DEF FitsTree
  <1> QED
    BY <1>1, Inductive, PTL

\* Outside the four windows, execute returns the status its own child halted
\* with.
THEOREM StatusSafe == Spec => []ReturnsChildStatus
  <1>1. IInv => ReturnsChildStatus
    BY Zenon DEF IInv, QuietInv, ReturnsChildStatus
  <1> QED
    BY <1>1, Inductive, PTL

\* Whatever races happen, the PCB of a live process keeps its terminal and its
\* parent: execute only fills a free pid.
THEOREM IdentitySafe == Spec => IdentityKept
  <1> DEFINE Keep == \A p \in Pids : Live(p) /\ Live(p)' =>
                        tty'[p] = tty[p] /\ parent_id'[p] = parent_id[p]
  <1>1. ASSUME CallInv, run.pc # "lost", NEW new \in Pids, NEW u, Launch(new, u)
        PROVE  Keep
    BY ZenonT(60), <1>1, LaunchWrites
  <1>2. ASSUME CallInv, [Next]_vars PROVE [Keep]_vars
    <2>1. CASE execute \/ halt_reexec \/ start_shell
      BY <1>1, <1>2, <2>1, Zenon DEF execute, halt_reexec, start_shell
    <2>2. CASE UNCHANGED <<parent_id, tty>>
      BY <2>2, Zenon
    <2> QED
      BY ZenonT(60), <1>2, <2>1, <2>2
      DEF Next, vars, pcbVars, execute_not_found, execute_full, halt,
          write_fault, halt_free, halt_move, halt_hand, halt_return,
          PIT_handler, tick_start, tick_switch, terminal_switch
  <1> QED
    BY <1>2, CallInit, CallNext, PTL DEF Spec, IdentityKept
=============================================================================
