----------------------------- MODULE MCPrograms -----------------------------
EXTENDS Programs

Entry(name, type, inode) ==
    [file_name |-> Padded(name), file_type |-> type, inode_number |-> inode]

\* The directory, two files (one ends inside a block, one with a block), the
\* clock, and an entry of a type there is not.
MCImage ==
    [dentries |-> <<Entry(<<".">>, FILE_TYPE_DIR, 0), Entry(<<"h", "i">>, FILE_TYPE_FILE, 1),
                    Entry(<<"r">>, FILE_TYPE_RTC, 0), Entry(<<"s", "h">>, FILE_TYPE_FILE, 2),
                    Entry(<<"o">>, 7, 0)>>,
     inodes |-> [i \in 0 .. 2 |->
                    [length |-> CASE i = 0 -> 0 [] i = 1 -> 3 [] i = 2 -> 2,
                     data_block_numbers |-> [j \in 0 .. 1 |-> IF i = 2 THEN 0 ELSE 2 - j]]],
     blocks |-> [b \in 0 .. 2 |-> [i \in 0 .. 1 |-> <<b, i>>]]]

MCNames == {<<".">>, <<"h", "i">>, <<"r">>, <<"o">>, <<"x">>, <<"stdin", "x">>, <<"stdout">>}
MCArguments == {NoArgs, <<"h", "i">>, <<".">>, <<"x">>}
=============================================================================
