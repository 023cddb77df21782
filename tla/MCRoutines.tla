----------------------------- MODULE MCRoutines -----------------------------
(***************************************************************************)
(* The sequential routines, each called once with every small input and    *)
(* compared with a reference definition of what it is for.                 *)
(***************************************************************************)
EXTENDS MCStrings, MCMemory, MCFileSystem, MCLoader, MCTeletype, MCGrep, MCFish

\* Four files for the loader: two executables of different length, the shorter
\* one with a last piece that is not full, a text that begins like one, and a
\* text.
MCMagic == <<"E", "L">>
MCContents ==
    << <<"E", "L", "1", "2", "3", "4">>, <<"E", "L", "5", "6", "7">>,
       <<"E", "x", "y">>, <<"t", "u">> >>
MCFileNames == << <<"a">>, <<"a", "b">>, <<"b">>, <<"b", "a">> >>

Init == call = None /\ result = <<>>

Next ==
    /\ call = None
    /\ \/ CallNumber \/ CallCompare \/ CallCopy
       \/ CallMemory
       \/ CallReadData \/ CallByName
       \/ CallExecute
       \/ CallWrite \/ CallErase
       \/ CallGrep
       \/ CallFish

Spec == Init /\ [][Next]_<<call, result>>
=============================================================================
