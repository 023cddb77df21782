----------------------------- MODULE Interrupts -----------------------------
(***************************************************************************)
(* Boot and interrupt delivery: entry (kernel.c), the two interrupt        *)
(* controllers (i8259.c; the chips are external), the gates of idt.c, and  *)
(* the handlers of timer, keyboard and clock with the moments at which     *)
(* they acknowledge and at which they enable interrupts again.             *)
(*                                                                         *)
(* A handler is a frame on the kernel stack of the context it interrupted. *)
(* Contexts are the boot stack and one program per terminal; which process *)
(* a terminal runs is Process's, what the handlers do with keys and clock  *)
(* flags is Terminal's and Rtc's.                                          *)
(***************************************************************************)
EXTENDS TerminalNumbers, Sequences, FiniteSets

CONSTANTS OtherIrqs,    \* lines of devices limeOS does not drive
          MaxFrames     \* bound on the frames of one stack

ASSUME InterruptsAssumption ==
    /\ TERMINAL_COUNT \in Nat \ {0}
    /\ OtherIrqs \subseteq 3 .. 15 \ {8}
    /\ MaxFrames \in Nat \ {0}

PIT_IRQ == 0
KEYBOARD_IRQ == 1
Cascade == 2
RTC_IRQ == 8

Irqs == {PIT_IRQ, KEYBOARD_IRQ, RTC_IRQ} \cup OtherIrqs
AllIrqs == 0 .. 15
Master == 0 .. 7
Slave == 8 .. 15
BootStack == TERMINAL_COUNT
Contexts == 0 .. TERMINAL_COUNT

VARIABLES
    entry_pc,   \* how far entry is
    IF_flag,    \* the interrupt flag of the processor
    irr, isr,   \* requests and interrupts in service, of both chips
    imr,        \* the mask registers of the chips
    mask,       \* master_mask and slave_mask
    reply,      \* the keyboard's answer to DEFAULT_PARA, or "none"
    regC,       \* the clock has raised its line and waits to be read
    stack,      \* the handlers on each context's stack, the innermost last
    started,    \* terminals whose shell was started
    current,    \* the context that runs
    pit_terminal_num

pic == <<irr, isr, imr, mask>>
devices == <<reply, regC>>
contexts == <<stack, started, current, pit_terminal_num>>
vars == <<entry_pc, IF_flag, pic, devices, contexts>>

\* The line was switched on with any request pending and any mask; boot.S has
\* loaded the interrupt table and the interrupt flag is off.
Init ==
    /\ entry_pc = "i8259_init" /\ IF_flag = FALSE
    /\ irr \in SUBSET Irqs /\ isr = {} /\ imr \in {{}, AllIrqs} /\ mask = AllIrqs
    /\ reply = "none" /\ regC \in BOOLEAN
    /\ stack = [c \in Contexts |-> <<>>] /\ started = {}
    /\ current = BootStack /\ pit_terminal_num = 0

-----------------------------------------------------------------------------
(* i8259.c.  ICW1 clears the requests and the mask register of a chip; the *)
(* masks are written again only when an interrupt is enabled.              *)

i8259_init ==
    /\ entry_pc = "i8259_init" /\ entry_pc' = "keyboard_send"
    /\ imr' = {} /\ irr' = {} /\ isr' = {}
    /\ UNCHANGED <<IF_flag, mask, devices, contexts>>

\* Mutant: the mask variable is changed, not the chip.
Enabled_VariableOnly(irqs, m, chip) == [mask |-> m \ irqs, imr |-> chip]

\* enable_irq for one or more lines: the whole mask of the chip is written.
Enabled(irqs, m, chip) ==
    LET written(half) == IF irqs \cap half = {} THEN chip \cap half ELSE (m \ irqs) \cap half
    IN  [mask |-> m \ irqs, imr |-> written(Master) \cup written(Slave)]

enable_irq(irqs) ==
    LET e == Enabled(irqs, mask, imr)
    IN  mask' = e.mask /\ imr' = e.imr /\ UNCHANGED <<irr, isr>>

\* Mutant: only the slave is told.
Acknowledged_Slave(irq) == {irq}

\* The in-service bits an end of interrupt clears: a line of the slave is in
\* service in both chips.
Acknowledged(irq) == IF irq \in Slave THEN {irq, Cascade} ELSE {irq}

send_eoi(irq) == isr' = isr \ Acknowledged(irq) /\ UNCHANGED <<irr, imr, mask>>

-----------------------------------------------------------------------------
(* entry *)

BootStep(from, to) ==
    /\ entry_pc = from /\ entry_pc' = to
    /\ UNCHANGED contexts

\* initialize_keyboard: the command, and the answer polled for.
keyboard_send ==
    /\ BootStep("keyboard_send", "keyboard_poll")
    /\ reply' \in {"ack", "resend"}
    /\ UNCHANGED <<IF_flag, pic, regC>>

keyboard_poll ==
    \/ /\ reply = "ack"
       /\ BootStep("keyboard_poll", "initialize_RTC")
       /\ reply' = "none" /\ enable_irq({KEYBOARD_IRQ})
       /\ UNCHANGED <<IF_flag, regC>>
    \/ /\ reply = "resend"
       /\ BootStep("keyboard_poll", "keyboard_send")
       /\ reply' = "none"
       /\ UNCHANGED <<IF_flag, pic, regC>>

\* enable_irq(2), enable_irq(8), and the read that lets the clock go on.
initialize_RTC ==
    /\ BootStep("initialize_RTC", "initialize_PIT")
    /\ enable_irq({Cascade, RTC_IRQ}) /\ regC' = FALSE
    /\ UNCHANGED <<IF_flag, reply>>

\* Mutant: the line of the timer stays masked.
initialize_PIT_Masked ==
    /\ BootStep("initialize_PIT", "sti")
    /\ UNCHANGED <<IF_flag, pic, devices>>

\* With init_paging and the colours behind it, which touch nothing here.
initialize_PIT ==
    /\ BootStep("initialize_PIT", "sti")
    /\ enable_irq({PIT_IRQ})
    /\ UNCHANGED <<IF_flag, devices>>

\* sti, and the hlt loop behind it.
enable_interrupts ==
    /\ BootStep("sti", "booted")
    /\ IF_flag' = TRUE
    /\ UNCHANGED <<pic, devices>>

-----------------------------------------------------------------------------
(* Devices and chips (external) *)

\* A device raises its line; the clock does not before it was read (register C).
raise(irq) ==
    /\ irq \notin irr
    /\ irq = RTC_IRQ => ~regC
    /\ irr' = irr \cup {irq}
    /\ regC' = (regC \/ irq = RTC_IRQ)
    /\ UNCHANGED <<entry_pc, IF_flag, isr, imr, mask, reply, contexts>>

\* The line at the master: 2 for the slave's.
Line(irq) == IF irq \in Slave THEN Cascade ELSE irq

\* Not masked, and nothing as urgent in service in its chip or at the master.
Deliverable(irq) ==
    /\ irq \in irr \ imr /\ Line(irq) \notin imr
    /\ \A i \in isr : (i \in Master => i > Line(irq)) /\ (i \in Slave /\ irq \in Slave => i > irq)

MostUrgent(irq) ==
    \A i \in Irqs : Deliverable(i) => Line(irq) < Line(i) \/ (Line(irq) = Line(i) /\ irq <= i)

-----------------------------------------------------------------------------
(* Handlers.  A frame is the interrupt and how far its handler is.         *)

Top == stack[current][Len(stack[current])]
others == <<started, current, pit_terminal_num>>
InHandler == stack[current] # <<>>
At(irq, stage) == InHandler /\ Top = [irq |-> irq, stage |-> stage]
Becomes(stage) == stack' = [stack EXCEPT ![current][Len(stack[current])].stage = stage]

\* A tick comes 10 ms after the last, so none in the few instructions between
\* the sti of task_switch and execute (the "boot" window of Process).
StartingShell == \E k \in DOMAIN stack[current] : stack[current][k].stage = "execute"

\* Every gate of a device is an interrupt gate: the flag is cleared.  A line
\* without a handler gets undefined_interrupt, which never returns.
interrupt(irq) ==
    /\ IF_flag /\ Deliverable(irq) /\ MostUrgent(irq)
    /\ Len(stack[current]) < MaxFrames
    /\ irq = PIT_IRQ => ~StartingShell
    /\ irr' = irr \ {irq} /\ isr' = isr \cup {irq, Line(irq)}
    /\ IF_flag' = FALSE
    /\ stack' = [stack EXCEPT ![current] = Append(@, [irq |-> irq, stage |-> "begin"])]
    /\ UNCHANGED <<entry_pc, imr, mask, devices, others>>

\* Mutant: interrupts are enabled before the acknowledgement.
keyboard_acknowledge_StiFirst ==
    \/ /\ At(KEYBOARD_IRQ, "begin") /\ Becomes("sti")
       /\ IF_flag' = TRUE
       /\ UNCHANGED <<entry_pc, pic, devices, others>>
    \/ /\ At(KEYBOARD_IRQ, "sti") /\ Becomes("tail")
       /\ send_eoi(KEYBOARD_IRQ)
       /\ UNCHANGED <<entry_pc, IF_flag, devices, others>>

\* keyboard_handler: the key is dealt with, send_eoi, then sti.
keyboard_acknowledge ==
    /\ At(KEYBOARD_IRQ, "begin") /\ Becomes("acked")
    /\ send_eoi(KEYBOARD_IRQ)
    /\ UNCHANGED <<entry_pc, IF_flag, devices, others>>

keyboard_sti ==
    /\ At(KEYBOARD_IRQ, "acked") /\ Becomes("tail")
    /\ IF_flag' = TRUE
    /\ UNCHANGED <<entry_pc, pic, devices, others>>

\* Mutant: register C is not read.
RTC_acknowledge_NoRead ==
    /\ At(RTC_IRQ, "begin") /\ Becomes("tail")
    /\ send_eoi(RTC_IRQ)
    /\ UNCHANGED <<entry_pc, IF_flag, devices, others>>

\* Register C is read, then send_eoi; no sti, the iret restores the flag.
RTC_acknowledge ==
    /\ At(RTC_IRQ, "begin") /\ Becomes("tail")
    /\ send_eoi(RTC_IRQ) /\ regC' = FALSE
    /\ UNCHANGED <<entry_pc, IF_flag, reply, others>>

\* PIT_handler: send_eoi, then task_switch.
PIT_handler ==
    /\ At(PIT_IRQ, "begin") /\ Becomes("switch")
    /\ send_eoi(PIT_IRQ)
    /\ UNCHANGED <<entry_pc, IF_flag, devices, others>>

Unstarted == Terminals \ started
First(s) == CHOOSE i \in s : \A j \in s : i <= j

\* A terminal without a shell: a second send_eoi, and sti before execute.
task_switch_boot ==
    /\ At(PIT_IRQ, "switch") /\ Unstarted # {}
    /\ Becomes("execute")
    /\ send_eoi(PIT_IRQ) /\ IF_flag' = TRUE
    /\ UNCHANGED <<entry_pc, devices, others>>

\* execute: the shell starts on a stack of its own, with interrupts on.
execute_shell ==
    /\ At(PIT_IRQ, "execute")
    /\ LET i == First(Unstarted)
       IN  /\ started' = started \cup {i} /\ current' = i
           /\ stack' = [stack EXCEPT ![current][Len(stack[current])].stage = "switched"]
    /\ UNCHANGED <<entry_pc, IF_flag, pic, devices, pit_terminal_num>>

NextTerminal == (pit_terminal_num + 1) % TERMINAL_COUNT

\* The next terminal's stack is loaded, in its own task_switch, and sti.
task_switch ==
    /\ At(PIT_IRQ, "switch") /\ Unstarted = {}
    /\ LET next == NextTerminal
           saved == [stack EXCEPT ![current][Len(stack[current])].stage = "switched"]
       IN  /\ current' = next /\ pit_terminal_num' = next
           /\ stack' = [saved EXCEPT ![next][Len(saved[next])].stage = "tail"]
    /\ IF_flag' = TRUE
    /\ UNCHANGED <<entry_pc, pic, devices, started>>

\* iret; what was interrupted ran with interrupts on.
iret ==
    /\ InHandler /\ Top.stage = "tail"
    /\ stack' = [stack EXCEPT ![current] = SubSeq(@, 1, Len(@) - 1)]
    /\ IF_flag' = TRUE
    /\ UNCHANGED <<entry_pc, pic, devices, others>>

Boot == \/ i8259_init \/ keyboard_send \/ keyboard_poll \/ initialize_RTC
        \/ initialize_PIT \/ enable_interrupts
Handler == \/ keyboard_acknowledge \/ keyboard_sti \/ RTC_acknowledge \/ PIT_handler
           \/ task_switch_boot \/ execute_shell \/ task_switch \/ iret

Next ==
    \/ Boot \/ Handler
    \/ \E irq \in Irqs : raise(irq) \/ interrupt(irq)

Spec == Init /\ [][Next]_vars

\* Devices are slow: ticks are 10 ms apart, keys and clock interrupts more than
\* a handler takes, and what is left of one after its sti is a few instructions.
\* A handler with interrupts off can meet the request of one other device; no
\* more come until that is served.
Serving(irq) == \E k \in DOMAIN stack[current] : stack[current][k].irq = irq

Paced ==
    \A irq \in irr' \ irr : InHandler =>
        /\ Len(stack[current]) = 1 /\ ~IF_flag
        /\ ~Serving(irq) /\ irr \subseteq OtherIrqs

\* The processor runs; the keyboard accepts its command after finitely many
\* tries; the timer ticks; and a request that is again and again the most
\* urgent one gets in.
FairSpec ==
    /\ Init /\ [][Next /\ Paced]_vars
    /\ WF_vars(Boot) /\ WF_vars(Handler)
    /\ SF_vars(keyboard_send /\ reply' = "ack")
    /\ SF_vars(raise(PIT_IRQ) /\ Paced)
    /\ \A irq \in Irqs : SF_vars(interrupt(irq))

-----------------------------------------------------------------------------
(* Properties *)

Stages == {"begin", "acked", "tail", "switch", "execute", "switched"}

TypeOK ==
    /\ IF_flag \in BOOLEAN /\ regC \in BOOLEAN
    /\ irr \subseteq Irqs /\ isr \subseteq AllIrqs /\ imr \subseteq AllIrqs /\ mask \subseteq AllIrqs
    /\ started \subseteq Terminals
    /\ current \in Contexts /\ pit_terminal_num \in Terminals
    /\ \A c \in Contexts : Len(stack[c]) <= MaxFrames
                           /\ \A k \in DOMAIN stack[c] : stack[c][k].stage \in Stages

\* Types are kept, and what is in service is what the running handler has not
\* acknowledged yet: no handler that was interrupted, or whose terminal lost the
\* processor, keeps a line blocked until it runs again (send_eoi comes before
\* every sti and before the stacks are switched).
NothingLeftInService ==
    /\ TypeOK
    /\ isr = IF InHandler /\ Top.stage = "begin" THEN {Top.irq, Line(Top.irq)} ELSE {}

\* Interrupts of devices limeOS does not drive never arrive, although the
\* initialisation of the controllers leaves all lines unmasked: they would end
\* in undefined_interrupt, which spins for ever.
NoUndefinedInterrupt ==
    \A c \in Contexts, k \in 1 .. MaxFrames :
        k <= Len(stack[c]) => stack[c][k].irq \notin OtherIrqs

\* Boot ends and the ticks start the shell of every terminal.
ShellsStart == <>(Unstarted = {})

\* Every request of the devices limeOS drives is served, whatever the others do
\* and whichever terminal runs.
RequestsServed ==
    \A irq \in Irqs \ OtherIrqs : irq \in irr ~> irq \notin irr

\* The clock never waits for good to be read, neither for an interrupt that
\* was lost before the controllers were set up nor for one that was served.
ClockGoesOn == regC ~> ~regC
=============================================================================
