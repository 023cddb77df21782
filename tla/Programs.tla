------------------------------ MODULE Programs ------------------------------
(***************************************************************************)
(* User programs that do nothing but make the calls of FdTable, as         *)
(* operators on the PCB they are started with: cat, ls, and the tests of   *)
(* ece391syserr.  What they print is a sequence, what they return a number.*)
(***************************************************************************)
EXTENDS FdTable

CONSTANTS MaxReads      \* more reads than any file of the image takes

\* The names ece391syserr opens in vain: one character too many, one too few.
Longer == <<"h", "i", "i">>
Shorter == <<"s">>

\* What the programs take for granted: a directory that holds itself, in which
\* every entry has a name, but none of those two, and a table smaller than the
\* descriptors the tests call out of range.
ASSUME ProgramsAssumption ==
    /\ MaxReads \in Nat
    /\ \A k \in DOMAIN Image.inodes : MaxReads > Image.inodes[k].length
    /\ MaxReads > Len(Image.dentries)
    /\ \A i \in 1 .. Len(Image.dentries) : Image.dentries[i].file_name[1] # Nul
    /\ read_dentry_by_name(Image, <<".">>) # NotFound
    /\ Image.dentries[read_dentry_by_name(Image, <<".">>)].file_type = FILE_TYPE_DIR
    /\ read_dentry_by_name(Image, Longer) = NotFound
    /\ read_dentry_by_name(Image, Shorter) = NotFound
    /\ MAX_FD_NUM < 1073741823

Outcome(value, out) == [value |-> value, out |-> out]

\* Reads until a read gives 0 and prints what it got with an end behind it.
CopyOut(p, fd, nbytes, end) ==
    LET loop[n \in 0 .. MaxReads] ==
            IF n = 0 THEN [pcb |-> p, out |-> <<>>, done |-> FALSE]
            ELSE LET s == loop[n - 1]
                     r == read(s.pcb, fd, nbytes)
                 IN  IF s.done THEN s
                     ELSE [pcb |-> r.pcb, done |-> r.value = 0,
                           out |-> IF r.value = 0 THEN s.out ELSE s.out \o r.bytes \o end]
    IN  loop[MaxReads]

\* The argument is the name of the file.  No read or write here fails: the
\* descriptor is open, and 1 is the terminal.
cat(p, nbytes) ==
    LET args == getargs(p)
        file == open(args.pcb, args.bytes)
    IN  IF args.value # 0 THEN Outcome(3, <<>>)
        ELSE IF file.value = -1 THEN Outcome(2, <<>>)
        ELSE Outcome(0, CopyOut(file.pcb, file.value, nbytes, <<>>).out)

ls(p, nbytes) ==
    LET dir == open(p, <<".">>)
    IN  IF dir.value = -1 THEN Outcome(2, <<>>)
        ELSE Outcome(0, CopyOut(dir.pcb, dir.value, nbytes, <<"NL">>).out)

-----------------------------------------------------------------------------
(* The tests of ece391syserr: 0 for PASS, 2 for FAIL *)

Verdict(ok) == IF ok THEN 0 ELSE 2

BadFd(p, fd) ==
    Verdict(/\ read(p, fd, 31).value = -1
            /\ write(p, fd, 31).value = -1
            /\ close(p, fd).value = -1)

err_neg_fd(p) == BadFd(p, -1073741823)
err_big_fd(p) == BadFd(p, 1073741823)

\* The directory is opened once more often than descriptors are free.
err_open_lots(p) ==
    LET opened[n \in 0 .. MAX_FD_NUM - 1] ==
            IF n = 0 THEN [pcb |-> p, cnt |-> 0]
            ELSE LET r == open(opened[n - 1].pcb, <<".">>)
                 IN  [pcb |-> r.pcb,
                      cnt |-> opened[n - 1].cnt + (IF r.value = -1 THEN 1 ELSE 0)]
        after == opened[MAX_FD_NUM - 1]
    IN  [value |-> Verdict(after.cnt = 1), pcb |-> CloseAll(after.pcb)]

\* A name with a character too many, one too few, and none.
err_open(p, longer, shorter) ==
    Verdict(\A name \in {longer, shorter, <<>>} : open(p, name).value = -1)

err_unopened(p) ==
    Verdict(/\ \A fd \in Fds : close(p, fd).value = -1
            /\ \A fd \in 2 .. MAX_FD_NUM - 1 :
                 read(p, fd, 31).value = -1 /\ write(p, fd, 31).value = -1)

VIRTUAL_BLOCK_TOP == 134217728      \* 0x08000000
VIRTUAL_BLOCK_BOTTOM == 138412032   \* 0x08400000

vidmap(screen_start) ==
    IF screen_start < VIRTUAL_BLOCK_TOP \/ screen_start > VIRTUAL_BLOCK_BOTTOM THEN -1 ELSE 0

err_vidmap == Verdict(vidmap(0) = -1 /\ vidmap(4194304) = -1)

err_stdin_out(p) ==
    Verdict(write(p, STDIN, 31).value = -1 /\ read(p, STDOUT, 31).value = -1)

\* sys_handler takes the numbers 1 to 10.
sys_handler_accepts(num) == num \in 1 .. 10

err_syscall_num ==
    Verdict(\A num \in {1073741823, -1073741823, 0} : ~sys_handler_accepts(num))

\* Test 0: all of them, on the descriptors err_open_lots left.
syserr_all(p, longer, shorter) ==
    LET lots == err_open_lots(p)
    IN  err_neg_fd(p) + err_big_fd(p) + lots.value + err_open(lots.pcb, longer, shorter)
        + err_unopened(lots.pcb) + err_vidmap + err_stdin_out(lots.pcb) + err_syscall_num

-----------------------------------------------------------------------------
(* Properties: a program that has just been started *)

Fresh == last.call = "start"

\* Every test of ece391syserr passes, in a pid in which any other program ran
\* before and left descriptors open.
SyserrPasses == Fresh => syserr_all(pcb, Longer, Shorter) = 0

\* An argument that begins with stdin or stdout names no file, whatever the
\* directory has.
NamesFile(arg) == arg # NoArgs /\ ~Begins(arg, "stdin") /\ ~Begins(arg, "stdout")

\* cat prints its file, whole and once, for every size of the buffer; a
\* directory is printed by name, and the clock prints nothing.
CatPrintsFile ==
    Fresh /\ NamesFile(argument) => \A n \in Counts \ {0} :
        LET at == read_dentry_by_name(Image, argument)
            e == Image.dentries[at]
        IN  cat(pcb, n) =
              CASE at = NotFound -> Outcome(2, <<>>)
                [] at # NotFound /\ TableOf(e.file_type) = "unknown" -> Outcome(2, <<>>)
                [] at # NotFound /\ e.file_type = FILE_TYPE_RTC -> Outcome(0, <<>>)
                [] at # NotFound /\ e.file_type = FILE_TYPE_DIR ->
                       Outcome(0, NamesTo(Len(Image.dentries)))
                [] OTHER -> Outcome(0, FileBytes(e.inode_number))

\* ls prints every name of the directory on a line of its own, in order.
LsPrintsNames ==
    Fresh => LET line[i \in 0 .. Len(Image.dentries)] ==
                     IF i = 0 THEN <<>>
                     ELSE line[i - 1] \o Append(EntryName(Image.dentries[i]), "NL")
             IN  ls(pcb, MAX_NAME_LENGTH) = Outcome(0, line[Len(Image.dentries)])

\* The programs print what they are for, from the state any earlier program
\* left their pid in.
ProgramsPrint == CatPrintsFile /\ LsPrintsNames
=============================================================================
