------------------------------ MODULE MCLoader ------------------------------
(***************************************************************************)
(* Commands into a program page that is new or holds another program, as   *)
(* the shell gives them to execute: every short command line over a small  *)
(* alphabet, against a reference of what a command means.                  *)
(***************************************************************************)
EXTENDS Loader, Calls

CONSTANTS MaxCommand,
          Letters,          \* the characters of a command beside the space
          Contents,         \* the files, each a sequence of bytes
          FileNames         \* and what they are called

Files == 1 .. Len(Contents)

\* A name is a word of its own; a file fits its inode and the page, and has the
\* bytes execute looks at.
ASSUME CommandsAssumption ==
    /\ MaxCommand \in Nat /\ MaxCommand < MAX_LENGTH_ARG
    /\ Space \notin Letters /\ Nul \notin Letters
    /\ Len(Contents) \in Nat
    /\ \A f \in Files :
         /\ FileNames[f] \in Seq(Letters) /\ Len(FileNames[f]) <= MAX_NAME_LENGTH
         /\ Contents[f] \in Seq({Contents[f][i] : i \in 1 .. Len(Contents[f])})
         /\ Len(Contents[f]) \in BUF_SIZE .. FOUR_KB * DATA_BLOCK_COUNT
         /\ Len(Contents[f]) <= PageSize
         /\ SubSeq(Contents[f], 1, BUF_SIZE) = magic_number =>
              Len(Contents[f]) >= ENTRY_POINT_LOCATION + BUF_SIZE
    /\ \A f, g \in Files : FileNames[f] = FileNames[g] => f = g

\* An inode and a row of blocks for each.
MCImage ==
    LET number(f, k) == DATA_BLOCK_COUNT * (f - 1) + k
        byte(f, i) == IF i < Len(Contents[f]) THEN Contents[f][i + 1] ELSE Junk
    IN  [dentries |-> [f \in Files |-> [file_name |-> Padded(FileNames[f]),
                                       file_type |-> FILE_TYPE_FILE, inode_number |-> f]],
         inodes |-> [f \in Files |->
                       [length |-> Len(Contents[f]),
                        data_block_numbers |-> [k \in 0 .. DATA_BLOCK_COUNT - 1 |-> number(f, k)]]],
         blocks |-> [b \in 0 .. DATA_BLOCK_COUNT * Len(Contents) - 1 |->
                       [i \in 0 .. FOUR_KB - 1 |->
                          byte(1 + b \div DATA_BLOCK_COUNT, FOUR_KB * (b % DATA_BLOCK_COUNT) + i)]]]

Characters == Letters \cup {Space}

\* The first word of a command, and the rest without the spaces before it.
WordOf(c) ==
    LET sp == {i \in 1 .. Len(c) : c[i] = Space}
    IN  IF sp = {} THEN c ELSE SubSeq(c, 1, (CHOOSE i \in sp : \A j \in sp : i <= j) - 1)
RestOf(c) ==
    LET rest == {i \in Len(WordOf(c)) + 1 .. Len(c) : c[i] # Space}
    IN  IF rest = {} THEN <<>>
        ELSE SubSeq(c, CHOOSE i \in rest : \A j \in rest : i <= j, Len(c))

Commands == {c \in UNION {[1 .. n -> Characters] : n \in 0 .. MaxCommand} :
                Len(WordOf(c)) < MAX_NAME_LENGTH}

EmptyPage == [a \in 0 .. PageSize - 1 |-> Junk]

CallExecute ==
    \E c \in Commands, page \in {EmptyPage} \cup {load(MCImage, EmptyPage, f) : f \in Files},
       args \in {<<>>} \cup {<<a>> : a \in Letters} :
        Does([op |-> "execute", command |-> c, args |-> args], execute(MCImage, page, args, c))

-----------------------------------------------------------------------------

\* The files whose name is the first word of a command.
Named(c) == {f \in Files : FileNames[f] = WordOf(c)}

\* A command runs exactly if its first word names an executable: a space in
\* front of it makes it name nothing, spaces behind it change nothing; a text
\* that begins like an executable is refused.
RunsExecutables ==
    call.op = "execute" =>
        (result.value = 0 <=>
            \E f \in Named(call.command) : SubSeq(Contents[f], 1, BUF_SIZE) = magic_number)

Runs == call.op = "execute" /\ result.value = 0

\* The program gets the rest of the line as its argument, with the spaces
\* inside and behind it, but without those in front (execute, l.207-227).  With
\* nothing but spaces behind the first word it gets what the PCB of its pid
\* still holds (l.317): an argument that no earlier program there has asked for.
ArgumentIsRest ==
    Runs => result.args = IF RestOf(call.command) = <<>> THEN call.args ELSE RestOf(call.command)

\* A program that runs is in its page from the first to the last byte, whatever
\* was loaded there before, and its entry point is the one of its own file.
LoadedWhole ==
    Runs =>
        \A f \in Named(call.command) :
            /\ \A i \in 1 .. Len(Contents[f]) : result.page[i - 1] = Contents[f][i]
            /\ result.entry_point = SubSeq(Contents[f], ENTRY_POINT_LOCATION + 1,
                                           ENTRY_POINT_LOCATION + BUF_SIZE)

\* execute runs what the command line means, or nothing: that program, whole,
\* with the argument of the line, or the one its PCB still holds if the line
\* has none.
CommandIsRun == RunsExecutables /\ ArgumentIsRest /\ LoadedWhole
=============================================================================
