------------------------------- MODULE MCGrep -------------------------------
(***************************************************************************)
(* grep on every file of at most MaxFile characters, against the lines of  *)
(* the file.                                                               *)
(***************************************************************************)
EXTENDS Integers, Sequences, Calls

CONSTANTS BUFSIZE, MaxFile

G == INSTANCE Grep

ASSUME GrepAssumption == BUFSIZE \in Nat \ {0} /\ MaxFile \in Nat

GrepFiles == UNION {[1 .. n -> {"a", "b", G!Newline}] : n \in 0 .. MaxFile}

CallGrep ==
    \E content \in GrepFiles, search \in {<<>>, <<"a">>, <<"b", "a">>}, 
       garbage \in {"a", "junk", G!Newline} :
        Does([op |-> "grep", content |-> content, search |-> search, garbage |-> garbage],
             G!main(content, search, garbage))

\* The lines of a text, the last one also without its newline.
LinesOf(text) ==
    LET line[i \in 0 .. Len(text)] ==
            IF i = 0 THEN [done |-> <<>>, open |-> <<>>]
            ELSE IF text[i] = G!Newline
                 THEN [done |-> Append(line[i - 1].done, line[i - 1].open), open |-> <<>>]
                 ELSE [line[i - 1] EXCEPT !.open = Append(@, text[i])]
        end == line[Len(text)]
    IN  IF end.open = <<>> THEN end.done ELSE Append(end.done, end.open)

\* The file as grep sees it.  A newline that happens to be in data[BUFSIZE] ends
\* the first line that a full buffer leaves unfinished, and is gone then.
Seen(text, garbage) ==
    LET cuts == {i \in 1 .. Len(text) : i % BUFSIZE = 0 /\ text[i] # G!Newline}
        first == CHOOSE i \in cuts : \A j \in cuts : i <= j
    IN  IF garbage # G!Newline \/ cuts = {} THEN text
        ELSE SubSeq(text, 1, first) \o <<G!Newline>> \o SubSeq(text, first + 1, Len(text))

\* If every line is shorter than the buffer, grep prints the lines that contain
\* the argument, whole, in order and once: wherever the pieces it reads cut the
\* file, and also the last line of a file that does not end in a newline.  Only
\* a newline left in the uninitialised data[BUFSIZE] breaks a line, and one only.
PrintsMatchingLines ==
    call.op = "grep" /\ call.search # <<>> =>
        LET Has(line) == G!Found(line, call.search)
            whole == LinesOf(call.content)
        IN  (\A k \in DOMAIN whole : Len(whole[k]) < BUFSIZE) =>
                result = SelectSeq(LinesOf(Seen(call.content, call.garbage)), Has)
=============================================================================
