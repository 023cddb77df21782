------------------------------- MODULE Loader -------------------------------
(***************************************************************************)
(* execute up to the hand-over (system_call.c:186-318): the command line   *)
(* is taken apart, the file is looked up and checked, and copied to the    *)
(* program page in pieces of BUF_SIZE bytes.  Interrupts are off, so this  *)
(* is one step; what it does to processes is Process's.                    *)
(*                                                                         *)
(* The first word of a command is shorter than MAX_NAME_LENGTH and the     *)
(* command shorter than MAX_LENGTH_ARG, as the arrays of execute need, and *)
(* a file that is run has at least BUF_SIZE bytes: of a shorter one the    *)
(* check would compare bytes of the stack.                                 *)
(***************************************************************************)
EXTENDS FileSystem

CONSTANTS MAX_LENGTH_ARG,
          BUF_SIZE,                 \* 4
          ENTRY_POINT_LOCATION,     \* 24
          magic_number,             \* BUF_SIZE bytes
          PageSize                  \* the room from LOAD_ADDR on

ASSUME LoaderAssumption ==
    /\ BUF_SIZE \in Nat \ {0}
    /\ Len(magic_number) = BUF_SIZE
    /\ {MAX_LENGTH_ARG, ENTRY_POINT_LOCATION, PageSize} \subseteq Nat

Space == " "
Junk == "junk"      \* what an array holds before it is written

\* The string in an array: up to its first NUL.
CString(array) ==
    LET nul == {i \in DOMAIN array : array[i] = Nul}
        end == CHOOSE i \in nul : \A j \in nul : i <= j
    IN  [i \in 1 .. end |-> array[i - 1]]

-----------------------------------------------------------------------------

\* Whether a character behind the first word belongs to the argument (l.221).
ArgCharacter(s, ch) == ch # Space \/ s.local_arg_start_flag

\* One round of the loop, l.207-227, at character i of the command.
ParseRound(s, i, ch) ==
    LET first == s.end_of_file_name = 0
        spaces == IF ch = Space /\ ~s.local_arg_start_flag THEN s.spaces + 1 ELSE s.spaces
        file_length == IF first THEN i ELSE s.file_length
    IN  IF ch # Space /\ s.spaces = 0
        THEN [s EXCEPT !.file_name = [@ EXCEPT ![i] = ch]]
        ELSE [file_name |-> IF first THEN [s.file_name EXCEPT ![i] = Nul] ELSE s.file_name,
              local_arg |-> IF ArgCharacter(s, ch)
                            THEN [s.local_arg EXCEPT ![i - (file_length + spaces)] = ch]
                            ELSE s.local_arg,
              file_length |-> file_length,
              spaces |-> spaces,
              end_of_file_name |-> s.end_of_file_name + (IF first THEN 2 ELSE 1),
              local_arg_start_flag |-> ArgCharacter(s, ch) \/ s.local_arg_start_flag]

\* The loop and the two NULs behind it.
parse(command) ==
    LET n == Len(command)
        start == [file_name |-> [i \in 0 .. MAX_NAME_LENGTH - 1 |-> Junk],
                  local_arg |-> [i \in 0 .. MAX_LENGTH_ARG - 1 |-> Junk],
                  file_length |-> 0, spaces |-> 0, end_of_file_name |-> 0,
                  local_arg_start_flag |-> FALSE]
        loop[i \in 0 .. n] ==
            IF i = 0 THEN start ELSE ParseRound(loop[i - 1], i - 1, command[i])
        s == loop[n]
    IN  [file_name |-> IF s.spaces = 0 THEN [s.file_name EXCEPT ![n] = Nul] ELSE s.file_name,
         local_arg |-> [s.local_arg EXCEPT ![n - (s.file_length + s.spaces)] = Nul],
         local_arg_start_flag |-> s.local_arg_start_flag]

Executable(img, number) == read_data(img, number, 0, BUF_SIZE) = magic_number

\* Mutant: a last piece that is not full is left out.
CopyPiece_Full(page, i, piece) ==
    [a \in DOMAIN page |->
        IF Len(piece) = BUF_SIZE /\ a \in i * BUF_SIZE .. i * BUF_SIZE + Len(piece) - 1
        THEN piece[a - i * BUF_SIZE + 1] ELSE page[a]]

CopyPiece(page, i, piece) ==
    [a \in DOMAIN page |->
        IF a \in i * BUF_SIZE .. i * BUF_SIZE + Len(piece) - 1
        THEN piece[a - i * BUF_SIZE + 1] ELSE page[a]]

\* Piece by piece until read_data gives nothing; the rest of the page stays.
load(img, page, number) ==
    LET piece(i) == read_data(img, number, i * BUF_SIZE, BUF_SIZE)
        loop[i \in 0 .. img.inodes[number].length] ==
            IF i = 0 THEN page
            ELSE IF piece(i - 1) = <<>> THEN loop[i - 1]
            ELSE CopyPiece(loop[i - 1], i - 1, piece(i - 1))
    IN  loop[img.inodes[number].length]

\* What a command leads to: 0 stands for the value of the program.  args is what
\* the PCB of the new pid holds: a command without an argument leaves it there.
execute(img, page, args, command) ==
    LET p == parse(command)
        at == read_dentry_by_name(img, CString(p.file_name))
        number == img.dentries[at].inode_number
        refused == [value |-> -1, page |-> page, args |-> args, entry_point |-> <<>>]
    IN  IF at = NotFound THEN refused
        ELSE IF ~Executable(img, number) THEN refused
        ELSE [value |-> 0,
              page |-> load(img, page, number),
              args |-> IF p.local_arg_start_flag THEN CString(p.local_arg) ELSE args,
              entry_point |-> read_data(img, number, ENTRY_POINT_LOCATION, BUF_SIZE)]
=============================================================================
