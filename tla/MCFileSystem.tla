---------------------------- MODULE MCFileSystem ----------------------------
(***************************************************************************)
(* The operators of FileSystem against reference definitions, over every   *)
(* small image and every call.                                             *)
(***************************************************************************)
EXTENDS FileSystem, Calls

CONSTANT MaxBlocks

ShortNames == {<<"a">>, <<"b">>, <<"a", "b">>, <<"a", "b", "a">>}
Asked == ShortNames \cup {<<>>, <<"b", "b">>, <<"a", "b", "a", "b">>, <<"a", "b", "b", "b">>}

Entry(name, type, inode) ==
    [file_name |-> Padded(name), file_type |-> type, inode_number |-> inode]

\* Two files in the directory, and one inode whose blocks stand in any order;
\* block b holds the bytes <<b, 0>>, <<b, 1>>...
ImageOf(n, len, nums) ==
    [dentries |-> <<Entry(n[1], FILE_TYPE_FILE, 0), Entry(n[2], FILE_TYPE_DIR, 0)>>,
     inodes |-> [i \in {0} |-> [length |-> len, data_block_numbers |-> nums]],
     blocks |-> [b \in 0 .. MaxBlocks - 1 |-> [i \in 0 .. FOUR_KB - 1 |-> <<b, i>>]]]

Directories == {n \in ShortNames \X ShortNames : n[1] # n[2]}
BlockLists == [0 .. DATA_BLOCK_COUNT - 1 -> 0 .. MaxBlocks - 1]
Longest == FOUR_KB * DATA_BLOCK_COUNT

\* nbytes = -1 is taken as the largest length, more than a file has.
CallReadData ==
    \E len \in 0 .. Longest, nums \in BlockLists, offset \in 0 .. Longest + 1,
      length \in -1 .. Longest + 1 :
        LET img == ImageOf(<<<<"a">>, <<"b">>>>, len, nums)
        IN  Does([op |-> "read_data", img |-> img, offset |-> offset,
                  length |-> IF length = -1 THEN Longest ELSE length],
                 read_data(img, 0, offset, length))

CallByName ==
    \E n \in Directories, name \in Asked :
        LET img == ImageOf(n, 0, [i \in 0 .. DATA_BLOCK_COUNT - 1 |-> 0])
        IN  Does([op |-> "by_name", img |-> img, name |-> name], <<read_dentry_by_name(img, name)>>)

\* The file as a sequence of bytes: its blocks in order, cut at its length.
FileBytesOf ==
    LET inode == call.img.inodes[0]
    IN  [i \in 1 .. inode.length |->
            call.img.blocks[inode.data_block_numbers[(i - 1) \div FOUR_KB]][(i - 1) % FOUR_KB]]

\* read_data returns exactly the bytes of the file from offset on, no more
\* than asked for and none from behind its end, for files that end inside a
\* block, at the end of one and at the last block an inode has room for.
ReadsTheFile ==
    call.op = "read_data" =>
        result = SubSeq(FileBytesOf, call.offset + 1,
                        Smaller(Len(FileBytesOf), call.offset + call.length))

\* read_dentry_by_name finds the entry whose name is the one asked for, cut to
\* MAX_NAME_LENGTH, and nothing else: not an entry it is a prefix of.
FindsByName ==
    call.op = "by_name" =>
        LET name == SubSeq(call.name, 1, Smaller(Len(call.name), MAX_NAME_LENGTH))
            where == {i \in 1 .. Len(call.img.dentries) : call.img.dentries[i].file_name = Padded(name)}
        IN  IF where = {} THEN result = <<NotFound>> ELSE result[1] \in where

\* The driver finds the file that was asked for and reads its bytes.
ReadsAndFinds == ReadsTheFile /\ FindsByName
=============================================================================
