-------------------------------- MODULE Rtc --------------------------------
(***************************************************************************)
(* The real-time clock driver (rtc.c): one device and one rate for all     *)
(* programs, one flag per terminal.                                        *)
(*                                                                         *)
(* The device has an index port that selects the register the data port    *)
(* reads and writes.  RTC_handler runs with interrupts disabled and is one *)
(* action; write_RTC runs between the cli and the sti of write.  open_RTC  *)
(* and read_RTC run with interrupts enabled and are split.                 *)
(***************************************************************************)
EXTENDS TerminalNumbers

CONSTANT Frequencies        \* what programs write

ASSUME RtcAssumption == TERMINAL_COUNT \in Nat \ {0} /\ Frequencies \subseteq Nat

MAX_FREQ == 1024
FREQ_FOR_RATE_CALC == 32768
RTC_DEFAULT_FREQ == 2

VARIABLES
    index,      \* the register the index port selects
    regA,       \* register A: the divider and the rate
    rtc_interrupt_occured,
    pc,         \* where the program of each terminal is
    tmp,        \* the local regA of changeFreq_RTC
    asked,      \* history: the last frequency accepted
    ticked,     \* history: an interrupt came since the read began
    windows     \* history: what came between a frequency and the device

\* "divider"  an open has read register C for register A
\* "rate"     the rate of the last open went to register C, and was lost
\* "close"    a descriptor was closed since a frequency was accepted

deviceVars == <<index, regA>>
rtcVars == <<deviceVars, rtc_interrupt_occured, pc, tmp, asked, ticked, windows>>

Divider == 2    \* the high half of register A as the BIOS leaves it

\* After initialize_RTC: interrupts are on, register C was read.
RtcInit ==
    /\ index = "C"
    /\ regA = [high |-> Divider, rate |-> 6]
    /\ rtc_interrupt_occured = [t \in Terminals |-> 1]
    /\ pc = [t \in Terminals |-> "user"]
    /\ tmp = [t \in Terminals |-> 0]
    /\ asked = 1024
    /\ ticked = [t \in Terminals |-> FALSE]
    /\ windows = {}

-----------------------------------------------------------------------------
(* changeFreq_RTC *)

\* The frequency a rate is tried for, l.47.
Shifted(rate) == FREQ_FOR_RATE_CALC \div 2 ^ (rate - 1)

\* Mutant: the shift is by rate.
RateFor_Shifted(freq) ==
    LET hits == {r \in 1 .. 15 : FREQ_FOR_RATE_CALC \div 2 ^ r = freq}
    IN  IF freq > MAX_FREQ \/ hits = {} THEN 0 ELSE CHOOSE r \in hits : \A q \in hits : r <= q

\* The rate the loop stops at, or 0 where changeFreq_RTC gives up.
RateFor(freq) ==
    LET hits == {r \in 1 .. 15 : Shifted(r) = freq}
    IN  IF freq > MAX_FREQ \/ hits = {} THEN 0 ELSE CHOOSE r \in hits : \A q \in hits : r <= q

\* The whole of it, when nothing comes in between.
changeFreq_RTC(freq) ==
    IF RateFor(freq) = 0
    THEN UNCHANGED <<index, regA, asked, windows>>
    ELSE /\ index' = "A"
         /\ regA' = [regA EXCEPT !.rate = RateFor(freq)]
         /\ asked' = freq
         /\ windows' = windows \ {"rate", "close"}

\* The data port reads register A's divider, or register C just acknowledged.
ReadHigh == IF index = "A" THEN regA.high ELSE 0

-----------------------------------------------------------------------------
(* Calls of the program of terminal t *)

\* open_RTC: changeFreq_RTC(RTC_DEFAULT_FREQ) port by port, l.55-61.
open_select(t) ==
    /\ pc[t] = "user"
    /\ index' = "A"
    /\ pc' = [pc EXCEPT ![t] = "read A"]
    /\ UNCHANGED <<regA, tmp, asked, windows>>

open_read(t) ==
    /\ pc[t] = "read A"
    /\ tmp' = [tmp EXCEPT ![t] = ReadHigh]
    /\ pc' = [pc EXCEPT ![t] = "select A"]
    /\ windows' = IF index = "A" THEN windows ELSE windows \cup {"divider"}
    /\ UNCHANGED <<index, regA, asked>>

open_reselect(t) ==
    /\ pc[t] = "select A"
    /\ index' = "A"
    /\ pc' = [pc EXCEPT ![t] = "write A"]
    /\ UNCHANGED <<regA, tmp, asked, windows>>

\* Register C cannot be written.
open_write(t) ==
    /\ pc[t] = "write A"
    /\ regA' = IF index = "A"
               THEN [high |-> tmp[t], rate |-> RateFor(RTC_DEFAULT_FREQ)] ELSE regA
    /\ asked' = RTC_DEFAULT_FREQ
    /\ pc' = [pc EXCEPT ![t] = "user"]
    /\ windows' = (windows \ {"rate", "close"}) \cup (IF index = "A" THEN {} ELSE {"rate"})
    /\ UNCHANGED <<index, tmp>>

open_RTC(t) ==
    /\ open_select(t) \/ open_read(t) \/ open_reselect(t) \/ open_write(t)
    /\ UNCHANGED <<rtc_interrupt_occured, ticked>>

\* With a buffer and nbytes = 4; otherwise it returns -1 and does nothing.
write_RTC(t, freq) ==
    /\ pc[t] = "user"
    /\ changeFreq_RTC(freq)
    /\ UNCHANGED <<rtc_interrupt_occured, pc, tmp, ticked>>

\* It does nothing, although rtc.c:113 has it set the frequency back.
close_RTC(t) ==
    /\ pc[t] = "user"
    /\ windows' = windows \cup {"close"}
    /\ UNCHANGED <<deviceVars, rtc_interrupt_occured, pc, tmp, asked, ticked>>

\* Mutant: the flag keeps what an earlier interrupt left.
read_begin_Stale(t) ==
    /\ pc[t] = "user"
    /\ pc' = [pc EXCEPT ![t] = "read"]
    /\ ticked' = [ticked EXCEPT ![t] = FALSE]
    /\ UNCHANGED rtc_interrupt_occured

read_begin(t) ==
    /\ pc[t] = "user"
    /\ rtc_interrupt_occured' = [rtc_interrupt_occured EXCEPT ![t] = 1]
    /\ pc' = [pc EXCEPT ![t] = "read"]
    /\ ticked' = [ticked EXCEPT ![t] = FALSE]

read_end(t) ==
    /\ pc[t] = "read"
    /\ rtc_interrupt_occured[t] = 0
    /\ pc' = [pc EXCEPT ![t] = "user"]
    /\ UNCHANGED <<rtc_interrupt_occured, ticked>>

read_RTC(t) ==
    /\ read_begin(t) \/ read_end(t)
    /\ UNCHANGED <<deviceVars, tmp, asked, windows>>

-----------------------------------------------------------------------------

\* Register C is read, which lets the device interrupt again.
Acknowledge == index' = "C"

\* Mutant: the flags of the other terminals are left out.
Wake_First == rtc_interrupt_occured' = [rtc_interrupt_occured EXCEPT ![0] = 0]

\* The flags are active low: every reader goes on.
Wake == rtc_interrupt_occured' = [t \in Terminals |-> 0]

RTC_handler ==
    /\ Wake
    /\ Acknowledge
    /\ ticked' = [t \in Terminals |-> TRUE]
    /\ UNCHANGED <<regA, pc, tmp, asked, windows>>

RtcNext ==
    \/ RTC_handler
    \/ \E t \in Terminals :
         \/ open_RTC(t) \/ read_RTC(t) \/ close_RTC(t)
         \/ \E freq \in Frequencies : write_RTC(t, freq)

RtcSpec == RtcInit /\ [][RtcNext]_rtcVars

\* The device goes on interrupting, and a program that spins is scheduled.
RtcFairSpec ==
    /\ RtcSpec /\ WF_rtcVars(RTC_handler)
    /\ \A t \in Terminals : WF_rtcVars(pc[t] = "read" /\ read_RTC(t))

-----------------------------------------------------------------------------
(* Properties *)

RtcTypeOK ==
    /\ index \in {"A", "C"}
    /\ regA \in [high : {0, Divider}, rate : 1 .. 15]
    /\ rtc_interrupt_occured \in [Terminals -> 0 .. 1]
    /\ pc \in [Terminals -> {"user", "read A", "select A", "write A", "read"}]
    /\ tmp \in [Terminals -> {0, Divider}]
    /\ asked \in 2 .. MAX_FREQ
    /\ ticked \in [Terminals -> BOOLEAN]
    /\ windows \subseteq {"divider", "rate", "close"}

\* The frequency the device runs at.
Frequency(rate) == 2 ^ (16 - rate)

\* Types are kept.  Whatever programs of several terminals ask for, the device
\* runs at the last frequency accepted (changeFreq_RTC).  An interrupt that moves
\* the index port under an open costs that open its rate, and the next frequency
\* accepted puts it right, whoever asks for it.  The rest of register A is
\* untouched unless the interrupt came before the read of it.  Nothing is said
\* between a close, which the code has do nothing, and the next frequency.
RateIsAsAsked ==
    /\ RtcTypeOK
    /\ "divider" \notin windows => regA.high = Divider
    /\ windows \cap {"rate", "close"} = {} => Frequency(regA.rate) = asked

\* "Holding on until another RTC interrupt occur" (rtc.c:78): a read returns
\* only after an interrupt that came after it began, whatever the programs of
\* other terminals read.
ReadWaits ==
    [][\A t \in Terminals : pc[t] = "read" /\ pc'[t] = "user" => ticked[t]]_rtcVars

\* Every read returns, although the flag is shared between the read and the
\* handler without a lock.
ReadReturns == \A t \in Terminals : pc[t] = "read" ~> pc[t] = "user"
=============================================================================
