------------------------------ MODULE FdTable ------------------------------
(***************************************************************************)
(* The file descriptors and the argument of a process (system_call.c,      *)
(* filesystem.c): the system calls open, close, read, write and getargs as *)
(* operators on the process control block, and one pid in which programs   *)
(* run one after the other.  A process reaches only its own PCB, so the    *)
(* processes of other pids have no step here.                              *)
(***************************************************************************)
EXTENDS FileSystem

CONSTANTS MAX_FD_NUM,   \* 8
          Image,        \* the file system
          Names,        \* what programs open
          Arguments,    \* what programs are given, NoArgs included
          Counts        \* how many bytes they ask for

ASSUME FdTableAssumption ==
    /\ MAX_FD_NUM \in Nat /\ MAX_FD_NUM > 2
    /\ IsImage(Image)
    /\ <<>> \in Arguments
    /\ Counts \subseteq Int

Fds == 0 .. MAX_FD_NUM - 1
STDIN == 0
STDOUT == 1
FREE == 0
IN_USE == 1
NoArgs == <<>>

VARIABLES pcb,      \* the file array and the argument
          argument, \* history: what the program was started with
          seen,     \* history: what was read from each descriptor since open
          last      \* history: the last call, its argument, result and bytes

vars == <<pcb, argument, seen, last>>

\* A jump table is named by its kind.
FreeEntry == [ops |-> "NULL", inode_index |-> -1, file_position |-> -1, flags |-> FREE]
StdEntry(ops) == [ops |-> ops, inode_index |-> -1, file_position |-> -1, flags |-> IN_USE]

TableOf(type) ==
    CASE type = FILE_TYPE_RTC -> "rtc" [] type = FILE_TYPE_DIR -> "directory"
      [] type = FILE_TYPE_FILE -> "file" [] OTHER -> "unknown"

\* The argument is not touched.
setup_PCB(p) ==
    [fd_entry |-> [i \in Fds |-> IF i = STDIN THEN StdEntry("stdin")
                                 ELSE IF i = STDOUT THEN StdEntry("stdout") ELSE FreeEntry],
     args |-> p.args]

-----------------------------------------------------------------------------
(* The calls.  Each gives the PCB afterwards, the value and what was copied *)
(* to the caller.                                                          *)

Result(p, value, bytes) == [pcb |-> p, value |-> value, bytes |-> bytes]
Fails(p) == Result(p, -1, <<>>)

\* The PCB with another entry for fd; an entry with another position, and one
\* made a standard stream.
WithEntry(p, fd, entry) ==
    [fd_entry |-> [p.fd_entry EXCEPT ![fd] = entry], args |-> p.args]
AtPosition(entry, n) == [entry EXCEPT !.file_position = n]
AsStandard(entry, ops) ==
    [ops |-> ops, inode_index |-> entry.inode_index,
     file_position |-> entry.file_position, flags |-> IN_USE]

\* strncmp with the length of the word: any name that begins with it.
Begins(name, word) == name # <<>> /\ name[1] = word

\* Mutant: the search takes the last descriptor if no other is free.
FreeFd_Last(p) ==
    LET free == {i \in 2 .. MAX_FD_NUM - 1 : p.fd_entry[i].flags = FREE}
    IN  IF free = {} THEN {MAX_FD_NUM - 1} ELSE {CHOOSE i \in free : \A j \in free : i <= j}

\* The first free descriptor after the two standard ones.
FreeFd(p) ==
    LET free == {i \in 2 .. MAX_FD_NUM - 1 : p.fd_entry[i].flags = FREE}
    IN  IF free = {} THEN {} ELSE {CHOOSE i \in free : \A j \in free : i <= j}

\* Mutant: a new descriptor starts behind the first byte.
OpenEntry_FromOne(p, i, dentry) ==
    [ops |-> TableOf(dentry.file_type), inode_index |-> dentry.inode_number,
     file_position |-> 1, flags |-> IN_USE]

OpenEntry(p, i, dentry) ==
    [ops |-> TableOf(dentry.file_type), inode_index |-> dentry.inode_number,
     file_position |-> 0, flags |-> IN_USE]

open(p, name) ==
    LET at == read_dentry_by_name(Image, name)
        dentry == Image.dentries[at]
        i == CHOOSE j \in FreeFd(p) : TRUE
    IN  IF Begins(name, "stdin")
        THEN Result(WithEntry(p, STDIN, AsStandard(p.fd_entry[STDIN], "stdin")), STDIN, <<>>)
        ELSE IF Begins(name, "stdout")
        THEN Result(WithEntry(p, STDOUT, AsStandard(p.fd_entry[STDOUT], "stdout")), STDOUT, <<>>)
        ELSE IF at = NotFound \/ FreeFd(p) = {} THEN Fails(p)
        ELSE IF TableOf(dentry.file_type) = "unknown" THEN Fails(p)
        ELSE Result(WithEntry(p, i, OpenEntry(p, i, dentry)), i, <<>>)

\* Mutant: the standard descriptors can be closed.
CanClose_Std(p, fd) == fd \in Fds /\ p.fd_entry[fd].flags = IN_USE

CanClose(p, fd) == fd \in Fds /\ fd >= 2 /\ p.fd_entry[fd].flags = IN_USE

\* Mutant: the entry stays in use.
close_StaysInUse(p, fd) ==
    IF ~CanClose(p, fd) THEN Fails(p)
    ELSE Result(WithEntry(p, fd, AtPosition(p.fd_entry[fd], -1)), 0, <<>>)

\* The close functions of all tables return 0.
close(p, fd) ==
    IF ~CanClose(p, fd) THEN Fails(p)
    ELSE Result(WithEntry(p, fd, FreeEntry), 0, <<>>)

read_file(p, fd, nbytes) ==
    LET e == p.fd_entry[fd]
        bytes == read_data(Image, e.inode_index, e.file_position, nbytes)
    IN  Result(WithEntry(p, fd, AtPosition(e, e.file_position + Len(bytes))), Len(bytes), bytes)

\* The name up to its padding, and nothing to say where it ends but the value.
EntryName(dentry) ==
    LET ends == {j \in 1 .. MAX_NAME_LENGTH : dentry.file_name[j] = Nul}
        n == IF ends = {} THEN MAX_NAME_LENGTH
             ELSE (CHOOSE j \in ends : \A k \in ends : j <= k) - 1
    IN  [j \in 1 .. n |-> dentry.file_name[j]]

read_directory(p, fd, nbytes) ==
    LET e == p.fd_entry[fd]
        name == EntryName(Image.dentries[read_dentry_by_index(Image, e.file_position)])
    IN  IF e.file_position >= Len(Image.dentries) THEN Result(p, 0, <<>>)
        ELSE Result(WithEntry(p, fd, AtPosition(e, e.file_position + 1)), Len(name), name)

\* What is typed on stdin is Terminal's; here it is a line of nothing else.
read(p, fd, nbytes) ==
    IF fd \notin Fds \/ fd = STDOUT THEN Fails(p)
    ELSE IF p.fd_entry[fd].flags = FREE THEN Fails(p)
    ELSE CASE p.fd_entry[fd].ops = "file" -> read_file(p, fd, nbytes)
           [] p.fd_entry[fd].ops = "directory" -> read_directory(p, fd, nbytes)
           [] p.fd_entry[fd].ops = "rtc" -> Result(p, 0, <<>>)
           [] OTHER -> Result(p, 1, <<"NL">>)

\* With a buffer.  Files and directories are read-only, the clock takes 4 bytes.
write(p, fd, nbytes) ==
    IF fd \notin Fds \/ fd = STDIN THEN Fails(p)
    ELSE IF p.fd_entry[fd].flags = FREE THEN Fails(p)
    ELSE CASE p.fd_entry[fd].ops \in {"file", "directory"} -> Fails(p)
           [] p.fd_entry[fd].ops = "rtc" -> IF nbytes = 4 THEN Result(p, 4, <<>>) ELSE Fails(p)
           [] OTHER -> Result(p, nbytes, <<>>)

\* The argument can be had once.
getargs(p) ==
    IF p.args = NoArgs THEN Fails(p)
    ELSE Result([fd_entry |-> p.fd_entry, args |-> NoArgs], 0, p.args)

\* halt_256 closes every descriptor it can.
CloseAll(p) ==
    LET step[n \in 0 .. MAX_FD_NUM] ==
            IF n = 0 THEN p ELSE close(step[n - 1], n - 1).pcb
    IN  step[MAX_FD_NUM]

\* execute copies the argument only if there is one (l.316).
NewProgram(p, arg) ==
    LET q == setup_PCB(p)
    IN  [fd_entry |-> q.fd_entry, args |-> IF arg = NoArgs THEN q.args ELSE arg]

-----------------------------------------------------------------------------

NoCall == [call |-> "start", arg |-> 0, value |-> 0, bytes |-> <<>>]

\* The PCB of a pid no program has run in yet is zero.
Init ==
    /\ argument \in Arguments
    /\ pcb = NewProgram([fd_entry |-> [i \in Fds |-> FreeEntry], args |-> NoArgs], argument)
    /\ seen = [fd \in Fds |-> <<>>]
    /\ last = NoCall

Call(name, arg, r) ==
    /\ pcb' = r.pcb
    /\ last' = [call |-> name, arg |-> arg, value |-> r.value, bytes |-> r.bytes]
    /\ argument' = argument

sys_open(name) ==
    LET r == open(pcb, name)
    IN  /\ Call("open", name, r)
        /\ seen' = IF r.value >= 2 THEN [seen EXCEPT ![r.value] = <<>>] ELSE seen

sys_close(fd) == Call("close", fd, close(pcb, fd)) /\ UNCHANGED seen

sys_read(fd, nbytes) ==
    LET r == read(pcb, fd, nbytes)
    IN  /\ Call("read", fd, r)
        /\ seen' = IF fd \in Fds /\ fd >= 2
                   THEN [seen EXCEPT ![fd] = @ \o r.bytes] ELSE seen

sys_write(fd, nbytes) == Call("write", fd, write(pcb, fd, nbytes)) /\ UNCHANGED seen

sys_getargs == Call("getargs", 0, getargs(pcb)) /\ UNCHANGED seen

\* The program halts, and another is started in the same pid.
halt_and_execute(arg) ==
    /\ pcb' = NewProgram(CloseAll(pcb), arg)
    /\ argument' = arg
    /\ seen' = [fd \in Fds |-> <<>>]
    /\ last' = NoCall

Next ==
    \/ \E name \in Names : sys_open(name)
    \/ \E fd \in -1 .. MAX_FD_NUM : sys_close(fd) \/ \E n \in Counts : sys_write(fd, n)
    \/ \E fd \in -1 .. MAX_FD_NUM, n \in Counts : sys_read(fd, n)
    \/ sys_getargs
    \/ \E arg \in Arguments : halt_and_execute(arg)

Spec == Init /\ [][Next]_vars

-----------------------------------------------------------------------------
(* Properties *)

Entries ==
    [ops : {"NULL", "stdin", "stdout", "rtc", "directory", "file"},
     inode_index : DOMAIN Image.inodes \cup {-1},
     file_position : Int,
     flags : {FREE, IN_USE}]

TypeOK ==
    /\ pcb \in [fd_entry : [Fds -> Entries], args : Arguments]
    /\ argument \in Arguments
    /\ DOMAIN seen = Fds

\* Whatever a program opens, closes, reads and writes, and whatever earlier
\* programs of its pid left behind, descriptors 0 and 1 are the terminal, and
\* a free descriptor has no jump table left.
StandardStreams ==
    /\ pcb.fd_entry[STDIN] = StdEntry("stdin")
    /\ pcb.fd_entry[STDOUT] = StdEntry("stdout")
    /\ \A fd \in Fds : pcb.fd_entry[fd].flags = FREE <=> pcb.fd_entry[fd] = FreeEntry

\* The bytes of a file from its first one on.
FileBytes(number) == read_data(Image, number, 0, Image.inodes[number].length)

\* The names of the first n entries, one after the other.
NamesTo(n) ==
    LET cat[i \in 0 .. n] ==
            IF i = 0 THEN <<>> ELSE cat[i - 1] \o EntryName(Image.dentries[i])
    IN  cat[n]

\* What was read through a descriptor since it was opened is the beginning of
\* its file or directory, without gap or repetition, whatever was read, opened
\* or closed through other descriptors in between (file_position).
ReadsInOrder ==
    \A fd \in Fds :
        LET e == pcb.fd_entry[fd]
        IN  /\ e.ops = "file" => seen[fd] = SubSeq(FileBytes(e.inode_index), 1, e.file_position)
            /\ e.ops = "directory" => seen[fd] = NamesTo(e.file_position)

\* The three together: what a sequence of calls, of programs that follow one
\* another in a pid, can never do to the descriptor table.
DescriptorsKept == TypeOK /\ StandardStreams /\ ReadsInOrder

Contained ==
    LET fd == IF last'.call = "open" THEN last'.value ELSE last'.arg
    IN  last'.call \in {"open", "close", "read", "write"} =>
          /\ last'.value = -1 => pcb' = pcb
          /\ \A i \in Fds : i # fd => pcb'.fd_entry[i] = pcb.fd_entry[i]
          /\ last'.call = "open" /\ last'.value >= 2 => pcb.fd_entry[fd].flags = FREE

\* A call that fails leaves every descriptor and the argument as they were, and
\* one that succeeds touches only its own descriptor; open hands out one that
\* was free.
CallsAreContained == [][Contained]_vars
=============================================================================
