----------------------------- MODULE FileSystem -----------------------------
(***************************************************************************)
(* The read-only file system (filesystem.c) as operators on an image:      *)
(*   dentries   the directory: names padded with NUL, type, inode          *)
(*   inodes     length in bytes, and the numbers of the data blocks        *)
(*   blocks     the data blocks                                            *)
(* The image is a boot module and never changes.                           *)
(***************************************************************************)
EXTENDS Integers, Sequences, FiniteSets

CONSTANTS MAX_NAME_LENGTH,      \* 32
          FOUR_KB,              \* the size of a block
          DATA_BLOCK_COUNT      \* 1023, the block numbers of an inode

ASSUME FileSystemAssumption ==
    /\ MAX_NAME_LENGTH \in Nat \ {0}
    /\ FOUR_KB \in Nat \ {0}
    /\ DATA_BLOCK_COUNT \in Nat \ {0}

FILE_TYPE_RTC == 0
FILE_TYPE_DIR == 1
FILE_TYPE_FILE == 2

Nul == "NUL"
NotFound == 0       \* the -1 of the look-ups: they return a position instead

Smaller(a, b) == IF a < b THEN a ELSE b

\* What the driver takes for granted of an image: the entries of the directory
\* name inodes there are.
IsImage(img) ==
    /\ Len(img.dentries) \in Nat
    /\ \A i \in 1 .. Len(img.dentries) : img.dentries[i].inode_number \in DOMAIN img.inodes
    /\ \A k \in DOMAIN img.inodes : img.inodes[k].length \in Nat

\* A name as it stands in a directory entry.
Padded(name) ==
    [j \in 1 .. MAX_NAME_LENGTH |-> IF j <= Len(name) THEN name[j] ELSE Nul]

Matches(entry, fname) ==
    LET n == Smaller(Len(fname), MAX_NAME_LENGTH)
    IN  /\ \A j \in 1 .. n : entry.file_name[j] = fname[j]
        /\ n < MAX_NAME_LENGTH => entry.file_name[n + 1] = Nul

\* The position of the entry whose copy the caller gets, or NotFound.
read_dentry_by_name(img, fname) ==
    LET hits == {i \in 1 .. Len(img.dentries) : Matches(img.dentries[i], fname)}
    IN  IF hits = {} THEN NotFound ELSE CHOOSE i \in hits : \A j \in hits : i <= j

\* index counts from 0; the guard is l.69's.  The position after the last
\* entry is a slot of the boot block no file uses.
read_dentry_by_index(img, index) ==
    IF index > Len(img.dentries) THEN NotFound ELSE index + 1

-----------------------------------------------------------------------------

\* The block number in place i of an inode.  Past the array stands whatever
\* follows the inode.
BlockNumber(inode, i) ==
    IF i < DATA_BLOCK_COUNT THEN inode.data_block_numbers[i] ELSE -1

\* A byte of a data block; a number that is no block leads anywhere.
Byte(img, block, i) == IF block \in DOMAIN img.blocks THEN img.blocks[block][i] ELSE <<-1, -1>>

\* Mutant: the block is not changed at its end.
NextByte_SameBlock(inode, s) == [s EXCEPT !.byte = (@ + 1) % FOUR_KB]

\* l.118-123: the next byte, in the next block when this one is done, looked
\* up before the end of the file is tested.
NextByte(inode, s) ==
    IF s.byte + 1 >= FOUR_KB
    THEN [s EXCEPT !.byte = 0, !.index = @ + 1, !.block = BlockNumber(inode, s.index + 1)]
    ELSE [s EXCEPT !.byte = @ + 1]

AtEnd(inode, offset) == offset = inode.length

\* The bytes read_data copies; its result is their number.  length is
\* unsigned: a negative one is huge.
read_data(img, number, offset, length) ==
    LET inode == img.inodes[number]
        first == offset \div FOUR_KB
        start == [buf |-> <<>>, byte |-> offset % FOUR_KB, index |-> first,
                  block |-> BlockNumber(inode, first), done |-> FALSE]
        round(s) ==
            LET t == [NextByte(inode, s) EXCEPT
                          !.buf = Append(@, Byte(img, s.block, s.byte))]
            IN  [t EXCEPT !.done = AtEnd(inode, offset + Len(t.buf))]
        rounds == IF length < 0 THEN inode.length ELSE Smaller(length, inode.length + 1)
        loop[n \in 0 .. rounds] ==
            IF n = 0 THEN start
            ELSE IF loop[n - 1].done THEN loop[n - 1] ELSE round(loop[n - 1])
    IN  IF offset >= inode.length THEN <<>> ELSE loop[rounds].buf
=============================================================================
