---------------------------- MODULE ProcessInv ----------------------------
(***************************************************************************)
(* The inductive invariant behind the safety properties of Process.  It    *)
(* comes in two layers: what survives every race (CallInv), and what holds *)
(* as long as no window was hit (QuietInv).                                *)
(***************************************************************************)
EXTENDS Process

\* p was launched by execute: it is its own parent, or the stack it returns
\* to is its parent's.
Launched(p) == parent_id[p] = p \/ parent_esp[p] = parent_id[p]

\* Context c, running or stored with pid p as the current one, belongs to p,
\* or to a child of p that is about to return to p.
Belongs(c, p) ==
    /\ c.pid # NoPid => Launched(c.pid)
    /\ c.pc \in {"user", "freed"} => c.pid = p
    /\ c.pc \in {"moved", "handed"} =>
          c.pid # NoPid /\ parent_id[c.pid] = p /\ parent_esp[c.pid] = p

\* Unconditionally: contexts belong to the pid they are filed under, and the
\* start window of task_switch lies in front of the pid it is about to fill.
CallInv ==
    /\ TypeOK
    /\ \A p \in Pids : parent_esp[p] # NoPid =>
          Launched(p) /\ Launched(parent_esp[p])
    /\ run.pc # "lost" => Belongs(run, current_pid)
    /\ \A p \in Pids : sched_ctx[p] # NoContext =>
          sched_ctx[p].pc # "lost" /\ Belongs(sched_ctx[p], p)
    /\ \A p \in Pids : sched_ctx[p].pc \in {"start", "idle"} =>
          run.pc = "start" /\ p = current_pid
    /\ run.pc = "start" => current_pid \in Terminals /\ FirstFree(current_pid)
    /\ run.pc = "idle" =>
          current_pid = 0 /\ run.pid = NoPid /\ \A p \in Pids : ~Live(p)

-----------------------------------------------------------------------------

\* The PCB of p fits the process tree.
FitsTree(p) ==
    IF p \in Terminals
    THEN parent_id[p] = p /\ tty[p] = p
    ELSE /\ parent_id[p] # p
         /\ Live(parent_id[p])
         /\ tty[parent_id[p]] = tty[p]
         /\ parent_esp0[p] = parent_id[p]

Started(t) == execute_pid[t] # NoPid

\* The terminal the processor is serving.
Serving == IF run.pc = "start" THEN current_pid ELSE tty[current_pid]

\* Nobody else is a child of x's parent.
OnlyChild(x) ==
    x \notin Terminals => \A p \in Pids : p # x => ~IsChild(p, parent_id[x])

\* Context c is where terminal t has got to, with e as its current pid: in a
\* program, or at one of the points of halt_256.
Reached(t, c, e) ==
    /\ c.pid \in Pids
    /\ tty[c.pid] = t
    /\ FitsTree(c.pid)
    /\ c.pc \in {"user", "freed", "moved", "handed"}
    /\ c.pc = "user" => Live(c.pid)
    /\ c.pc \in {"freed", "moved", "handed"} =>
          ~Live(c.pid) /\ return_value[parent_id[c.pid]] = c.status
    /\ c.pc \in {"user", "freed"} => execute_pid[t] = c.pid /\ c.pid = e
    /\ c.pc = "moved" => execute_pid[t] = c.pid
    /\ c.pc = "handed" => execute_pid[t] = e
    /\ c.pc \in {"moved", "handed"} => c.pid \notin Terminals /\ parent_id[c.pid] = e
    /\ c.pc \in {"freed", "moved"} => OnlyChild(c.pid)

\* The process tree: first shells, and one chain of children per terminal.
TreeInv ==
    /\ \A p \in Pids : Live(p) => FitsTree(p)
    /\ \A p, q \in Pids \ Terminals :
          Live(p) /\ Live(q) /\ parent_id[p] = parent_id[q] => p = q
    /\ \A t \in Terminals : Started(t) =>
          tty[execute_pid[t]] = t /\ \A p \in Pids : ~IsChild(p, execute_pid[t])

\* The boot: shells are started in order, and no child before the last one.
BootInv ==
    /\ \A t \in Terminals : ~Started(t) =>
          /\ ~Live(t)
          /\ \A u \in Terminals : u > t => ~Started(u)
          /\ \A p \in Pids : Live(p) => p \in Terminals
    /\ \A t \in Terminals : Started(t) /\ ~Live(t) =>
          current_pid = t /\ run.pc \in {"freed", "start"}
    /\ run.pc = "idle" => \A t \in Terminals : ~Started(t)

\* Terminal t has a context to go on from.
Resumable(t) ==
    LET e == execute_pid[t]
    IN /\ sched_ctx[e] # NoContext
       /\ Reached(t, sched_ctx[e], e)
       /\ sched_ctx[e].pc = "user" => sched_esp0[e] = e

\* The processor is where the served terminal has got to, in its own page and
\* with its own esp0; every other terminal can be resumed.
SchedInv ==
    /\ run.pc \notin {"idle", "start"} =>
          Reached(tty[current_pid], run, current_pid)
    /\ run.pc = "user" => esp0 = current_pid /\ prog_page = current_pid
    /\ \A t \in Terminals : Started(t) /\ t # Serving => Resumable(t)

QuietInv ==
    hazards = {} =>
        /\ run.pc # "lost"
        /\ TreeInv
        /\ BootInv
        /\ SchedInv
        /\ returned.why = "halted" => returned.value = returned.status

\* The inductive invariant.
IInv == CallInv /\ QuietInv
=============================================================================
