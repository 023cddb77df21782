-------------------------- MODULE DescriptorProofs --------------------------
(***************************************************************************)
(* Proofs about the descriptors of a process, for every image, size of the *)
(* table and sequence of calls: the table itself, the programs that print  *)
(* files and the directory, and the tests of ece391syserr.                 *)
(***************************************************************************)
EXTENDS FileProofs, Programs

-----------------------------------------------------------------------------
(* Files and names as sequences *)

\* What is read next continues what was read from the first byte on.
LEMMA StretchesJoin ==
    ASSUME NEW img, NEW inode, NEW m \in Nat, NEW n \in Nat
    PROVE  Stretch(img, inode, 0, m) \o Stretch(img, inode, m, n) = Stretch(img, inode, 0, m + n)
<1>1. PICK k \in Nat : k = m + n
  OBVIOUS
<1> DEFINE S == BytesOf(img, inode)
           a == Stretch(img, inode, 0, m)
           b == Stretch(img, inode, m, n)
           c == Stretch(img, inode, 0, k)
           j == a \o b
<1>2. a \in Seq(S) /\ Len(a) = m /\ \A i \in 1 .. m : a[i] = Nth(img, inode, 0, i)
  BY Zenon, StretchIs
<1>3. b \in Seq(S) /\ Len(b) = n /\ \A i \in 1 .. n : b[i] = Nth(img, inode, m, i)
  BY Zenon, StretchIs
<1>4. c \in Seq(S) /\ Len(c) = k /\ \A i \in 1 .. k : c[i] = Nth(img, inode, 0, i)
  BY StretchIs
<1>5. \A i \in 1 .. n : Nth(img, inode, m, i) = Nth(img, inode, 0, m + i)
  <2> TAKE i \in 1 .. n
  <2>1. m + i - 1 = 0 + (m + i) - 1
    OBVIOUS
  <2>2. QED
    BY <2>1, Zenon DEF Nth
<1> HIDE DEF a, b, c, S
<1>6. /\ j \in Seq(S) /\ Len(j) = k
      /\ \A i \in 1 .. k : j[i] = IF i <= m THEN a[i] ELSE b[i - m]
  BY ZenonT(60), <1>1, <1>2, <1>3, ConcatProperties
<1> HIDE DEF j
<1>7. \A i \in 1 .. k : j[i] = c[i]
  <2> SUFFICES ASSUME NEW i \in 1 .. k PROVE j[i] = c[i]
    BY Zenon
  <2>1. CASE i <= m
    BY <1>2, <1>4, <1>6, <2>1
  <2>2. CASE ~(i <= m)
    <3>1. i - m \in 1 .. n /\ m + (i - m) = i
      BY <1>1, <2>2
    <3>2. j[i] = Nth(img, inode, m, i - m)
      BY <1>3, <1>6, <2>2, <3>1, Zenon
    <3>3. Nth(img, inode, m, i - m) = Nth(img, inode, 0, i)
      BY <1>5, <3>1, Zenon
    <3>4. QED
      BY <1>4, <3>2, <3>3, Zenon
  <2>3. QED
    BY Zenon, <2>1, <2>2
<1>8. j = c
  BY <1>4, <1>6, <1>7, SeqEqual, Zenon
<1>9. QED
  BY <1>1, <1>8, Zenon DEF a, b, c, j

\* The beginning of a stretch is a stretch.
LEMMA StretchBegins ==
    ASSUME NEW img, NEW inode, NEW offset \in Nat, NEW m \in Nat, NEW n \in 0 .. m
    PROVE  SubSeq(Stretch(img, inode, offset, m), 1, n) = Stretch(img, inode, offset, n)
<1> DEFINE S == BytesOf(img, inode)
           a == Stretch(img, inode, offset, m)
           b == Stretch(img, inode, offset, n)
<1>1. a \in Seq(S) /\ Len(a) = m /\ \A i \in 1 .. m : a[i] = Nth(img, inode, offset, i)
  BY Zenon, StretchIs
<1>2. b \in Seq(S) /\ Len(b) = n /\ \A i \in 1 .. n : b[i] = Nth(img, inode, offset, i)
  <2>1. n \in Nat
    OBVIOUS
  <2>2. QED
    BY Zenon, <2>1, StretchIs
<1> HIDE DEF a, b, S
<1>3. \A i \in 1 .. n : a[i] \in S /\ a[i] = b[i]
  BY <1>1, <1>2
<1>4. /\ SubSeq(a, 1, n) \in Seq(S) /\ Len(SubSeq(a, 1, n)) = n
      /\ \A i \in 1 .. n : SubSeq(a, 1, n)[i] = a[i]
  BY <1>3, SubSeqProperties
<1>5. SubSeq(a, 1, n) = b
  BY <1>2, <1>3, <1>4, SeqEqual, Zenon
<1>6. QED
  BY <1>5, Zenon DEF a, b

\* The bytes FileBytes names are the stretch that is the whole file.
LEMMA FileBytesIs ==
    ASSUME NEW k \in DOMAIN Image.inodes
    PROVE  FileBytes(k) = Stretch(Image, Image.inodes[k], 0, Image.inodes[k].length)
<1> DEFINE inode == Image.inodes[k]
<1>1. inode.length \in Nat
  BY FdTableAssumption, Zenon DEF IsImage
<1>2. read_data(Image, k, 0, inode.length) = Stretch(Image, inode, 0, Count(inode, 0, inode.length))
  BY <1>1, ReadDataCopies
<1>3. Count(inode, 0, inode.length) = inode.length
  BY <1>1 DEF Count, Smaller
<1>4. QED
  BY <1>2, <1>3, Zenon DEF FileBytes

\* The characters of the names in the directory.
Chars == {Image.dentries[p[1]].file_name[p[2]] :
              p \in (1 .. Len(Image.dentries)) \X (1 .. MAX_NAME_LENGTH)}

\* The length of a name: up to its padding.
NameLength(dentry) ==
    LET ends == {j \in 1 .. MAX_NAME_LENGTH : dentry.file_name[j] = Nul}
    IN  IF ends = {} THEN MAX_NAME_LENGTH ELSE (CHOOSE j \in ends : \A k \in ends : j <= k) - 1

\* The name of an entry has no NUL and is as long as an entry has room for.
LEMMA EntryNameIs ==
    ASSUME NEW i \in 1 .. Len(Image.dentries)
    PROVE  /\ EntryName(Image.dentries[i]) \in Seq(Chars)
           /\ NameLength(Image.dentries[i]) \in 0 .. MAX_NAME_LENGTH
           /\ Len(EntryName(Image.dentries[i])) = NameLength(Image.dentries[i])
           /\ NameLength(Image.dentries[i]) = 0 <=> Image.dentries[i].file_name[1] = Nul
<1> DEFINE d == Image.dentries[i]
           ends == {j \in 1 .. MAX_NAME_LENGTH : d.file_name[j] = Nul}
           n == NameLength(d)
<1>1. MAX_NAME_LENGTH \in Nat \ {0}
  BY FileSystemAssumption, Zenon
<1>2. n \in 0 .. MAX_NAME_LENGTH /\ (n = 0 <=> d.file_name[1] = Nul)
  <2>1. CASE ends = {}
    <3>1. n = MAX_NAME_LENGTH
      BY <2>1, Zenon DEF NameLength
    <3>2. d.file_name[1] # Nul
      BY <1>1, <2>1
    <3>3. QED
      BY <1>1, <3>1, <3>2
  <2>2. CASE ends # {}
    <3> DEFINE m == CHOOSE j \in ends : \A k \in ends : j <= k
    <3>1. ends \in SUBSET Nat
      BY <1>1
    <3>2. m \in ends /\ \A k \in ends : m <= k
      <4>1. \E j \in ends : \A k \in ends : j <= k
        BY Zenon, <2>2, <3>1, LeastNat
      <4>2. QED
        BY Zenon, <4>1
    <3>3. n = m - 1
      BY <2>2, Zenon DEF NameLength
    <3>4. 1 \in ends <=> d.file_name[1] = Nul
      BY <1>1
    <3> HIDE DEF m, n
    <3>5. m \in 1 .. MAX_NAME_LENGTH
      BY <3>2, Zenon
    <3>6. m = 1 <=> 1 \in ends
      BY <3>2, <3>5
    <3>7. QED
      BY <1>1, <3>3, <3>4, <3>5, <3>6
  <2>3. QED
    BY <2>1, <2>2, Zenon
<1>3. EntryName(d) = [j \in 1 .. n |-> d.file_name[j]]
  BY Zenon DEF EntryName, NameLength
<1>4. \A j \in 1 .. n : d.file_name[j] \in Chars
  <2> HIDE DEF n
  <2> TAKE j \in 1 .. n
  <2>1. <<i, j>> \in (1 .. Len(Image.dentries)) \X (1 .. MAX_NAME_LENGTH)
    BY <1>1, <1>2
  <2>2. QED
    BY <2>1 DEF Chars
<1> HIDE DEF n
<1>5. EntryName(d) \in Seq(Chars) /\ Len(EntryName(d)) = n
  BY <1>1, <1>2, <1>3, <1>4
<1>6. QED
  BY <1>2, <1>5, Zenon DEF n

\* The function NamesTo computes.
IsNames(f, n) ==
    f = [i \in 0 .. n |-> IF i = 0 THEN <<>> ELSE f[i - 1] \o EntryName(Image.dentries[i])]

\* NamesTo's function exists: what a program that reads the directory puts together.
LEMMA NamesExist ==
    ASSUME NEW n \in 0 .. Len(Image.dentries)
    PROVE  \E f \in [0 .. n -> Seq(Chars)] : IsNames(f, n)
<1> DEFINE S == Seq(Chars)
           g == [i \in Nat |-> [s \in S |-> IF i \in 1 .. n THEN s \o EntryName(Image.dentries[i]) ELSE s]]
<1>1. Len(Image.dentries) \in Nat /\ n \in Nat
  BY FdTableAssumption DEF IsImage
<1>2. <<>> \in S
  OBVIOUS
<1>3. g \in [Nat -> [S -> S]]
  <2>1. ASSUME NEW i \in Nat, NEW s \in S, i \in 1 .. n PROVE s \o EntryName(Image.dentries[i]) \in S
    BY <1>1, <2>1, EntryNameIs, ConcatProperties
  <2>2. QED
    BY <2>1, Zenon
<1>4. PICK f : IsLoop(f, S, <<>>, g, n)
  <2> HIDE DEF g, S
  <2>1. QED
    BY <1>1, <1>2, <1>3, LoopExists, Zenon
<1>5. f \in [0 .. n -> S] /\ f[0] = <<>>
  BY <1>4, Zenon DEF IsLoop
<1>6. \A i \in 1 .. n : f[i] = f[i - 1] \o EntryName(Image.dentries[i])
  <2> SUFFICES ASSUME NEW i \in 1 .. n
               PROVE  f[i] = f[i - 1] \o EntryName(Image.dentries[i])
    BY Zenon
  <2>1. f[i] = g[i][f[i - 1]]
    BY Zenon, <1>4 DEF IsLoop
  <2>2. i \in Nat /\ i - 1 \in 0 .. n /\ f[i - 1] \in S
    BY <1>1, <1>5
  <2>3. QED
    BY Zenon, <2>1, <2>2
<1> HIDE DEF g, S
<1>7. f = [i \in 0 .. n |-> IF i = 0 THEN <<>> ELSE f[i - 1] \o EntryName(Image.dentries[i])]
  BY <1>1, <1>5, <1>6
<1>8. QED
  BY <1>5, <1>7, Zenon DEF IsNames, S

\* It does not depend on how far it goes.
LEMMA NamesAgree ==
    ASSUME NEW m \in Nat, NEW n \in Nat, m <= n, NEW f, NEW h, IsNames(f, m), IsNames(h, n)
    PROVE  f[m] = h[m]
<1> DEFINE T == {i \in Nat : i <= m => f[i] = h[i]}
<1>1. \A i \in 0 .. m : f[i] = IF i = 0 THEN <<>> ELSE f[i - 1] \o EntryName(Image.dentries[i])
  BY Zenon DEF IsNames
<1>2. \A i \in 0 .. n : h[i] = IF i = 0 THEN <<>> ELSE h[i - 1] \o EntryName(Image.dentries[i])
  BY Zenon DEF IsNames
<1>3. 0 \in T
  BY <1>1, <1>2
<1>4. ASSUME NEW i \in Nat, i \in T PROVE i + 1 \in T
  <2>1. SUFFICES ASSUME i + 1 <= m PROVE f[i + 1] = h[i + 1]
    OBVIOUS
  <2>2. f[i] = h[i] /\ i + 1 \in 0 .. m /\ i + 1 \in 0 .. n /\ i + 1 # 0 /\ (i + 1) - 1 = i
    BY <1>4, <2>1
  <2>3. /\ f[i + 1] = f[i] \o EntryName(Image.dentries[i + 1])
        /\ h[i + 1] = h[i] \o EntryName(Image.dentries[i + 1])
    BY Zenon, <1>1, <1>2, <2>2
  <2>4. QED
    BY <2>2, <2>3, Zenon
<1> HIDE DEF T
<1>5. Nat \subseteq T
  BY <1>3, <1>4, NatSetInduction, Zenon
<1>6. m \in T
  BY <1>5, Zenon
<1>7. QED
  BY <1>6 DEF T

\* One more entry appends one more name.
LEMMA NamesToIs ==
    ASSUME NEW n \in 0 .. Len(Image.dentries)
    PROVE  /\ NamesTo(n) \in Seq(Chars)
           /\ n = 0 => NamesTo(n) = <<>>
           /\ n > 0 => NamesTo(n) = NamesTo(n - 1) \o EntryName(Image.dentries[n])
<1> DEFINE F(k) == CHOOSE f : IsNames(f, k)
<1>1. Len(Image.dentries) \in Nat /\ n \in Nat
  BY FdTableAssumption DEF IsImage
<1>2. \A k : NamesTo(k) = F(k)[k]
  BY Zenon DEF NamesTo, IsNames
<1>3. \A k \in 0 .. Len(Image.dentries) : IsNames(F(k), k)
  BY NamesExist, Zenon
<1>4. PICK f \in [0 .. n -> Seq(Chars)] : IsNames(f, n)
  BY NamesExist, Zenon
<1> HIDE DEF F
<1>5. F(n)[n] = f[n]
  BY <1>1, <1>3, <1>4, NamesAgree
<1>6. f[n] = IF n = 0 THEN <<>> ELSE f[n - 1] \o EntryName(Image.dentries[n])
  <2>1. \A i \in 0 .. n : f[i] = IF i = 0 THEN <<>> ELSE f[i - 1] \o EntryName(Image.dentries[i])
    BY Zenon, <1>4 DEF IsNames
  <2>2. n \in 0 .. n
    BY <1>1
  <2>3. QED
    BY <2>1, <2>2, Zenon
<1>7. CASE n = 0
  BY <1>1, <1>2, <1>4, <1>5, <1>6, <1>7
<1>8. CASE n > 0
  <2>1. PICK m \in Nat : m = n - 1
    BY <1>1, <1>8
  <2>2. m \in 0 .. Len(Image.dentries) /\ m <= n
    BY <1>1, <2>1
  <2>3. IsNames(F(m), m)
    BY <1>3, <2>2, Zenon
  <2>4. F(m)[m] = f[m]
    BY <1>1, <1>4, <2>2, <2>3, NamesAgree, Zenon
  <2>5. NamesTo(n - 1) = f[n - 1]
    BY <1>2, <2>1, <2>4, Zenon
  <2>6. NamesTo(n) = f[n] /\ f[n] \in Seq(Chars)
    BY <1>1, <1>2, <1>4, <1>5
  <2>7. f[n] = f[n - 1] \o EntryName(Image.dentries[n])
    <3>1. n # 0
      BY <1>8
    <3>2. QED
      BY <1>6, <3>1, Zenon
  <2>8. n # 0
    BY <1>8
  <2>9. QED
    BY <2>5, <2>6, <2>7, <2>8, Zenon
<1>9. QED
  BY <1>1, <1>7, <1>8

-----------------------------------------------------------------------------
(* The calls on a PCB *)

PCBs == [fd_entry : [Fds -> Entries], args : Arguments]

StdStreams(p) ==
    p.fd_entry[STDIN] = StdEntry("stdin") /\ p.fd_entry[STDOUT] = StdEntry("stdout")

\* An entry of the descriptor table, and what was read through it.
EntryInv(e, s) ==
    /\ e \in Entries
    /\ e.flags = FREE <=> e = FreeEntry
    /\ e.ops = "file" =>
         /\ e.inode_index \in DOMAIN Image.inodes
         /\ e.file_position \in 0 .. Image.inodes[e.inode_index].length
         /\ s = Stretch(Image, Image.inodes[e.inode_index], 0, e.file_position)
    /\ e.ops = "directory" =>
         /\ e.file_position \in 0 .. Len(Image.dentries)
         /\ s = NamesTo(e.file_position)

\* The sizes of the descriptor table, as numbers.
LEMMA ConstantFacts ==
    /\ MAX_FD_NUM \in Nat /\ MAX_FD_NUM > 2
    /\ Len(Image.dentries) \in Nat
    /\ \A i \in 1 .. Len(Image.dentries) : Image.dentries[i].inode_number \in DOMAIN Image.inodes
    /\ \A k \in DOMAIN Image.inodes : Image.inodes[k].length \in Nat
  BY FdTableAssumption, Zenon DEF IsImage

\* What the programs find: the bound on their reads and the names they use.
LEMMA ProgramFacts ==
    /\ MaxReads \in Nat
    /\ \A k \in DOMAIN Image.inodes : MaxReads > Image.inodes[k].length
    /\ MaxReads > Len(Image.dentries)
    /\ \A i \in 1 .. Len(Image.dentries) : Image.dentries[i].file_name[1] # Nul
    /\ read_dentry_by_name(Image, <<".">>) # NotFound
    /\ Image.dentries[read_dentry_by_name(Image, <<".">>)].file_type = FILE_TYPE_DIR
    /\ read_dentry_by_name(Image, Longer) = NotFound
    /\ read_dentry_by_name(Image, Shorter) = NotFound
  BY ProgramsAssumption, SMT

\* The same of the image there is.
LEMMA LookUp ==
    ASSUME NEW name
    PROVE  \/ /\ read_dentry_by_name(Image, name) = NotFound
              /\ \A i \in 1 .. Len(Image.dentries) : ~Matches(Image.dentries[i], name)
           \/ /\ read_dentry_by_name(Image, name) \in 1 .. Len(Image.dentries)
              /\ Matches(Image.dentries[read_dentry_by_name(Image, name)], name)
  BY ConstantFacts, LookUpIn, Zenon

\* The search takes the first free descriptor after the standard ones.
LEMMA FreeFdIs ==
    ASSUME NEW p
    PROVE  \/ FreeFd(p) = {} /\ \A i \in 2 .. MAX_FD_NUM - 1 : p.fd_entry[i].flags # FREE
           \/ \E i \in 2 .. MAX_FD_NUM - 1 :
                /\ FreeFd(p) = {i} /\ p.fd_entry[i].flags = FREE
                /\ \A j \in 2 .. MAX_FD_NUM - 1 : p.fd_entry[j].flags = FREE => i <= j
<1> DEFINE free == {i \in 2 .. MAX_FD_NUM - 1 : p.fd_entry[i].flags = FREE}
<1>1. CASE free = {}
  BY <1>1, Zenon DEF FreeFd
<1>2. CASE free # {}
  <2> DEFINE m == CHOOSE i \in free : \A j \in free : i <= j
  <2>1. free \in SUBSET Nat
    BY ConstantFacts
  <2>2. \E i \in free : \A j \in free : i <= j
    BY Zenon, <1>2, <2>1, LeastNat
  <2>3. m \in free /\ \A j \in free : m <= j
    BY Zenon, <2>2
  <2>4. FreeFd(p) = {m}
    BY <1>2, Zenon DEF FreeFd
  <2> HIDE DEF m
  <2>5. QED
    BY <2>3, <2>4, Zenon
<1>3. QED
  BY <1>1, <1>2, Zenon

\* A name that begins with stdin or stdout leaves the PCB as it is; any other
\* fails, or takes the first free descriptor for an entry of the directory.
OpenFails(p, name) ==
    \/ read_dentry_by_name(Image, name) = NotFound
    \/ \A i \in 2 .. MAX_FD_NUM - 1 : p.fd_entry[i].flags # FREE
    \/ TableOf(Image.dentries[read_dentry_by_name(Image, name)].file_type) = "unknown"

OpenTakes(p, name, i) ==
    /\ i \in 2 .. MAX_FD_NUM - 1 /\ p.fd_entry[i].flags = FREE
    /\ \A j \in 2 .. MAX_FD_NUM - 1 : p.fd_entry[j].flags = FREE => i <= j
    /\ read_dentry_by_name(Image, name) \in 1 .. Len(Image.dentries)
    /\ TableOf(Image.dentries[read_dentry_by_name(Image, name)].file_type) # "unknown"
    /\ open(p, name) =
         Result(WithEntry(p, i, OpenEntry(p, i, Image.dentries[read_dentry_by_name(Image, name)])),
                i, <<>>)

\* An entry replaced by itself changes nothing.
LEMMA WithSameEntry ==
    ASSUME NEW p \in PCBs, NEW fd \in Fds PROVE WithEntry(p, fd, p.fd_entry[fd]) = p
  BY Zenon DEF PCBs, WithEntry

\* sys_open takes a free entry and gives its number, or refuses and changes nothing.
LEMMA OpenIs ==
    ASSUME NEW p \in PCBs, StdStreams(p), NEW name
    PROVE  \/ Begins(name, "stdin") /\ open(p, name) = Result(p, STDIN, <<>>)
           \/ Begins(name, "stdout") /\ open(p, name) = Result(p, STDOUT, <<>>)
           \/ /\ ~Begins(name, "stdin") /\ ~Begins(name, "stdout")
              /\ \/ OpenFails(p, name) /\ open(p, name) = Fails(p)
                 \/ \E i \in 2 .. MAX_FD_NUM - 1 : OpenTakes(p, name, i)
<1>1. STDIN \in Fds /\ STDOUT \in Fds
  BY ConstantFacts DEF Fds, STDIN, STDOUT
<1>2. /\ AsStandard(p.fd_entry[STDIN], "stdin") = p.fd_entry[STDIN]
      /\ AsStandard(p.fd_entry[STDOUT], "stdout") = p.fd_entry[STDOUT]
  <2>1. \A o : AsStandard(StdEntry(o), o) = StdEntry(o)
    BY Zenon DEF StdEntry, AsStandard
  <2>2. QED
    BY <2>1, Zenon DEF StdStreams
<1>3. CASE Begins(name, "stdin")
  BY <1>1, <1>2, <1>3, WithSameEntry, Zenon DEF open
<1>4. CASE ~Begins(name, "stdin") /\ Begins(name, "stdout")
  BY <1>1, <1>2, <1>4, WithSameEntry, Zenon DEF open
<1>5. CASE ~Begins(name, "stdin") /\ ~Begins(name, "stdout")
  <2> DEFINE at == read_dentry_by_name(Image, name)
             d == Image.dentries[at]
  <2>1. CASE at = NotFound \/ FreeFd(p) = {}
    <3>1. open(p, name) = Fails(p)
      BY <1>5, <2>1, Zenon DEF open
    <3>2. OpenFails(p, name)
      BY Zenon, <2>1, FreeFdIs DEF OpenFails
    <3>3. QED
      BY <1>5, <3>1, <3>2, Zenon
  <2>2. CASE ~(at = NotFound \/ FreeFd(p) = {}) /\ TableOf(d.file_type) = "unknown"
    <3>1. open(p, name) = Fails(p)
      BY <1>5, <2>2, Zenon DEF open
    <3>2. OpenFails(p, name)
      BY <2>2, Zenon DEF OpenFails
    <3>3. QED
      BY <1>5, <3>1, <3>2, Zenon
  <2>3. CASE ~(at = NotFound \/ FreeFd(p) = {}) /\ TableOf(d.file_type) # "unknown"
    <3>1. PICK i \in 2 .. MAX_FD_NUM - 1 :
            /\ FreeFd(p) = {i} /\ p.fd_entry[i].flags = FREE
            /\ \A j \in 2 .. MAX_FD_NUM - 1 : p.fd_entry[j].flags = FREE => i <= j
      BY <2>3, FreeFdIs, Zenon
    <3>2. (CHOOSE j \in FreeFd(p) : TRUE) = i
      BY <3>1, Zenon
    <3>3. open(p, name) = Result(WithEntry(p, i, OpenEntry(p, i, d)), i, <<>>)
      BY <1>5, <2>3, <3>2, Zenon DEF open
    <3>4. at \in 1 .. Len(Image.dentries)
      BY <2>3, LookUp, Zenon
    <3>5. OpenTakes(p, name, i)
      BY Zenon, <2>3, <3>1, <3>3, <3>4 DEF OpenTakes
    <3>6. QED
      BY <1>5, <3>5, Zenon
  <2>4. QED
    BY <2>1, <2>2, <2>3, Zenon
<1>6. QED
  BY <1>3, <1>4, <1>5, Zenon

\* What read does through a file, a directory and any other descriptor.
FileReadGives(p, fd, nbytes) ==
    LET e == p.fd_entry[fd]
        inode == Image.inodes[e.inode_index]
        c == Count(inode, e.file_position, nbytes)
    IN  /\ c \in 0 .. inode.length - e.file_position
        /\ read_file(p, fd, nbytes) =
             Result(WithEntry(p, fd, AtPosition(e, e.file_position + c)), c,
                    Stretch(Image, inode, e.file_position, c))

\* What read_file gives, and the position it leaves.
LEMMA ReadFileIs ==
    ASSUME NEW p, NEW fd, NEW nbytes \in Int, p.fd_entry[fd].ops = "file",
           p.fd_entry[fd].inode_index \in DOMAIN Image.inodes,
           p.fd_entry[fd].file_position \in 0 .. Image.inodes[p.fd_entry[fd].inode_index].length
    PROVE  FileReadGives(p, fd, nbytes)
<1> DEFINE e == p.fd_entry[fd]
           inode == Image.inodes[e.inode_index]
           c == Count(inode, e.file_position, nbytes)
<1>1. inode.length \in Nat /\ e.file_position \in Nat /\ e.file_position <= inode.length
  BY SMTT(60), ConstantFacts
<1>2. c \in 0 .. inode.length - e.file_position
  BY ZenonT(60), <1>1, CountIs
<1>3. read_data(Image, e.inode_index, e.file_position, nbytes) = Stretch(Image, inode, e.file_position, c)
  BY ZenonT(60), <1>1, ReadDataCopies
<1> HIDE DEF c
<1>4. Len(Stretch(Image, inode, e.file_position, c)) = c
  <2>1. c \in Nat
    BY <1>1, <1>2
  <2>2. QED
    BY ZenonT(60), <1>1, <2>1, StretchIs
<1>5. QED
  BY <1>2, <1>3, <1>4, ZenonT(60) DEF read_file, c, FileReadGives

\* What directory_read gives, and the position it leaves.
LEMMA ReadDirectoryIs ==
    ASSUME NEW p, NEW fd, NEW nbytes,
           p.fd_entry[fd].file_position \in 0 .. Len(Image.dentries)
    PROVE  LET e == p.fd_entry[fd]
               name == EntryName(Image.dentries[e.file_position + 1])
           IN  read_directory(p, fd, nbytes) =
                 IF e.file_position = Len(Image.dentries) THEN Result(p, 0, <<>>)
                 ELSE Result(WithEntry(p, fd, AtPosition(e, e.file_position + 1)), Len(name), name)
<1> DEFINE e == p.fd_entry[fd]
<1>1. /\ (e.file_position >= Len(Image.dentries)) <=> e.file_position = Len(Image.dentries)
      /\ ~(e.file_position > Len(Image.dentries))
  BY ConstantFacts
<1>2. read_dentry_by_index(Image, e.file_position) = e.file_position + 1
  BY <1>1, Zenon DEF read_dentry_by_index
<1>3. CASE e.file_position = Len(Image.dentries)
  BY <1>1, <1>3, Zenon DEF read_directory
<1>4. CASE e.file_position # Len(Image.dentries)
  BY <1>1, <1>2, <1>4, Zenon DEF read_directory
<1>5. QED
  BY Zenon, <1>3, <1>4

\* The position moves with what was read, and nothing else of the entry does.
LEMMA AtPositionIs ==
    ASSUME NEW e \in Entries, NEW n \in Int
    PROVE  /\ AtPosition(e, n) \in Entries
           /\ AtPosition(e, n).ops = e.ops /\ AtPosition(e, n).flags = e.flags
           /\ AtPosition(e, n).inode_index = e.inode_index
           /\ AtPosition(e, n).file_position = n
  BY Zenon DEF AtPosition, Entries

\* Reading on keeps what was read the beginning of the file or directory.
LEMMA FileReadOn ==
    ASSUME NEW e, NEW s, EntryInv(e, s), e.ops = "file", e.flags # FREE,
           NEW c \in 0 .. Image.inodes[e.inode_index].length - e.file_position
    PROVE  EntryInv(AtPosition(e, e.file_position + c),
                    s \o Stretch(Image, Image.inodes[e.inode_index], e.file_position, c))
<1> DEFINE inode == Image.inodes[e.inode_index]
           n == e.file_position
           f == AtPosition(e, n + c)
<1>1. e \in Entries /\ n \in 0 .. inode.length /\ s = Stretch(Image, inode, 0, n)
  BY Zenon DEF EntryInv
<1>2. inode.length \in Nat /\ n \in Nat /\ c \in Nat /\ n + c \in 0 .. inode.length
      /\ n + c \in Int /\ 0 \in Nat /\ 0 + n = n /\ 0 + (n + c) = n + c
  BY <1>1, ConstantFacts DEF EntryInv
<1>3. /\ f \in Entries /\ f.ops = e.ops /\ f.flags = e.flags
      /\ f.inode_index = e.inode_index /\ f.file_position = n + c
  BY <1>1, <1>2, AtPositionIs, Zenon
<1>4. s \o Stretch(Image, inode, n, c) = Stretch(Image, inode, 0, n + c)
  BY <1>1, <1>2, StretchesJoin, ZenonT(60)
<1>5. f # FreeEntry
  BY <1>3 DEF FreeEntry
<1> HIDE DEF f
<1>6. f.ops = "file" /\ f.ops # "directory" /\ f.flags # FREE
  BY <1>3, Zenon
<1>7. /\ f.inode_index \in DOMAIN Image.inodes
      /\ f.file_position \in 0 .. Image.inodes[f.inode_index].length
      /\ s \o Stretch(Image, inode, n, c) = Stretch(Image, Image.inodes[f.inode_index], 0, f.file_position)
  <2>1. e.inode_index \in DOMAIN Image.inodes
    BY Zenon DEF EntryInv
  <2>2. QED
    BY <1>2, <1>3, <1>4, <2>1, Zenon
<1>8. EntryInv(f, s \o Stretch(Image, inode, n, c))
  BY <1>3, <1>5, <1>6, <1>7, Zenon DEF EntryInv
<1>9. QED
  BY <1>8, Zenon DEF f

\* A read of a directory keeps what its entry owes the program.
LEMMA DirectoryReadOn ==
    ASSUME NEW e, NEW s, EntryInv(e, s), e.ops = "directory", e.flags # FREE,
           e.file_position # Len(Image.dentries)
    PROVE  EntryInv(AtPosition(e, e.file_position + 1),
                    s \o EntryName(Image.dentries[e.file_position + 1]))
<1> DEFINE n == e.file_position
           f == AtPosition(e, n + 1)
           name == EntryName(Image.dentries[n + 1])
<1>1. e \in Entries /\ n \in 0 .. Len(Image.dentries) /\ s = NamesTo(n)
  BY Zenon DEF EntryInv
<1>2. n + 1 \in 0 .. Len(Image.dentries) /\ n + 1 > 0 /\ (n + 1) - 1 = n /\ n + 1 \in Int
  BY <1>1, ConstantFacts
<1>3. /\ f \in Entries /\ f.ops = e.ops /\ f.flags = e.flags
      /\ f.inode_index = e.inode_index /\ f.file_position = n + 1
  BY Zenon, <1>1, <1>2, AtPositionIs
<1>4. NamesTo(n + 1) = s \o name
  <2>1. NamesTo(n + 1) = NamesTo((n + 1) - 1) \o EntryName(Image.dentries[n + 1])
    BY <1>2, NamesToIs, Zenon
  <2>2. QED
    BY <1>1, <1>2, <2>1, Zenon
<1>5. f # FreeEntry
  BY <1>3 DEF FreeEntry
<1> HIDE DEF f, name
<1>6. f.ops = "directory" /\ f.ops # "file" /\ f.flags # FREE
  BY <1>3, Zenon
<1>7. f.file_position \in 0 .. Len(Image.dentries) /\ s \o name = NamesTo(f.file_position)
  BY <1>2, <1>3, <1>4, Zenon
<1>8. EntryInv(f, s \o name)
  BY <1>3, <1>5, <1>6, <1>7, Zenon DEF EntryInv
<1>9. QED
  BY <1>8, Zenon DEF f, name

\* A new descriptor has its file or directory still before it.
LEMMA OpenedEntry ==
    ASSUME NEW p, NEW i, NEW k \in 1 .. Len(Image.dentries),
           TableOf(Image.dentries[k].file_type) # "unknown"
    PROVE  EntryInv(OpenEntry(p, i, Image.dentries[k]), <<>>)
<1> DEFINE d == Image.dentries[k]
           e == OpenEntry(p, i, d)
<1>1. TableOf(d.file_type) \in {"rtc", "directory", "file"}
  BY Zenon DEF TableOf
<1>2. d.inode_number \in DOMAIN Image.inodes
  BY ConstantFacts, Zenon
<1>3. /\ e.ops = TableOf(d.file_type) /\ e.inode_index = d.inode_number
      /\ e.file_position = 0 /\ e.flags = IN_USE
  BY Zenon DEF OpenEntry
<1>4. e \in Entries
  BY <1>1, <1>2 DEF OpenEntry, Entries
<1>5. e.flags # FREE /\ e # FreeEntry
  BY <1>3 DEF FreeEntry, FREE, IN_USE
<1>6. Stretch(Image, Image.inodes[d.inode_number], 0, 0) = <<>>
  BY Zenon, StartIs DEF Start, At
<1>7. 0 \in 0 .. Len(Image.dentries) /\ 0 \in 0 .. Image.inodes[d.inode_number].length
  BY <1>2, ConstantFacts
<1>8. NamesTo(0) = <<>>
  BY <1>7, NamesToIs, Zenon
<1> HIDE DEF e
<1>9. e.ops = "file" =>
        /\ e.inode_index \in DOMAIN Image.inodes
        /\ e.file_position \in 0 .. Image.inodes[e.inode_index].length
        /\ <<>> = Stretch(Image, Image.inodes[e.inode_index], 0, e.file_position)
  BY <1>2, <1>3, <1>6, <1>7, Zenon
<1>10. e.ops = "directory" =>
         e.file_position \in 0 .. Len(Image.dentries) /\ <<>> = NamesTo(e.file_position)
  BY <1>3, <1>7, <1>8, Zenon
<1>11. QED
  BY <1>4, <1>5, <1>9, <1>10, Zenon DEF EntryInv, e

\* A free entry owes nothing.
LEMMA FreeEntryInv ==
    ASSUME NEW s PROVE EntryInv(FreeEntry, s)
<1>1. FreeEntry \in Entries /\ FreeEntry.flags = FREE /\ FreeEntry.ops = "NULL"
  BY DEF FreeEntry, Entries
<1>2. QED
  BY <1>1, Zenon DEF EntryInv

\* What halt_256's loop has closed after n descriptors.
Closed(p, n) ==
    [fd_entry |-> [i \in Fds |-> IF i \in 2 .. n - 1 /\ p.fd_entry[i].flags = IN_USE
                                 THEN FreeEntry ELSE p.fd_entry[i]],
     args |-> p.args]

IsClosing(f, p) ==
    f = [n \in 0 .. MAX_FD_NUM |-> IF n = 0 THEN p ELSE close(f[n - 1], n - 1).pcb]

\* After n rounds of halt the first n entries are free.
LEMMA ClosedIs ==
    ASSUME NEW p \in PCBs, NEW n \in 0 .. MAX_FD_NUM
    PROVE  /\ Closed(p, 0) = p
           /\ n > 0 => close(Closed(p, n - 1), n - 1).pcb = Closed(p, n)
<1>1. Closed(p, 0) = p
  BY DEF Closed, PCBs
<1>2. ASSUME n > 0 PROVE close(Closed(p, n - 1), n - 1).pcb = Closed(p, n)
  <2> DEFINE q == Closed(p, n - 1)
             m == n - 1
  <2>1. m \in Fds /\ n = m + 1 /\ m \in Nat
    BY SMTT(30), <1>2, ConstantFacts DEF Fds
  <2>2. /\ DOMAIN q.fd_entry = Fds
        /\ \A i \in Fds : q.fd_entry[i] = IF i \in 2 .. m - 1 /\ p.fd_entry[i].flags = IN_USE
                                          THEN FreeEntry ELSE p.fd_entry[i]
        /\ q.args = p.args
    BY <2>1, Zenon DEF Closed
  <2>3. q.fd_entry[m] = p.fd_entry[m]
    BY SMTT(30), <2>1, <2>2
  <2>4. CASE CanClose(q, m)
    <3>1. close(q, m).pcb = WithEntry(q, m, FreeEntry)
      BY <2>4, Zenon DEF close, Result
    <3>2. m >= 2 /\ p.fd_entry[m].flags = IN_USE
      BY <2>3, <2>4, Zenon DEF CanClose
    <3> HIDE DEF q, m
    <3>3. \A i \in Fds : [q.fd_entry EXCEPT ![m] = FreeEntry][i] =
                           IF i \in 2 .. n - 1 /\ p.fd_entry[i].flags = IN_USE
                           THEN FreeEntry ELSE p.fd_entry[i]
      <4> TAKE i \in Fds
      <4>1. CASE i = m
        <5>1. [q.fd_entry EXCEPT ![m] = FreeEntry][i] = FreeEntry
          BY <2>1, <2>2, <4>1, Zenon
        <5>2. i \in 2 .. n - 1 /\ p.fd_entry[i].flags = IN_USE
          BY <2>1, <3>2, <4>1
        <5>3. QED
          BY <5>1, <5>2, Zenon
      <4>2. CASE i # m
        <5>1. [q.fd_entry EXCEPT ![m] = FreeEntry][i] = q.fd_entry[i]
          BY <2>2, <4>2, Zenon
        <5>2. i \in 2 .. m - 1 <=> i \in 2 .. n - 1
          BY SMTT(30), <2>1, <4>2 DEF Fds
        <5>3. QED
          BY <2>2, <5>1, <5>2, Zenon
      <4>3. QED
        BY <4>1, <4>2, Zenon
    <3>4. [q.fd_entry EXCEPT ![m] = FreeEntry] = Closed(p, n).fd_entry
      BY <2>2, <3>3, Zenon DEF Closed
    <3>5. QED
      BY Zenon, <2>2, <3>1, <3>4 DEF WithEntry, Closed, q, m
  <2>5. CASE ~CanClose(q, m)
    <3>1. close(q, m).pcb = q
      BY <2>5, Zenon DEF close, Fails, Result
    <3>2. ~(m >= 2 /\ p.fd_entry[m].flags = IN_USE)
      BY <2>1, <2>3, <2>5, Zenon DEF CanClose
    <3>3. \A i \in Fds : (i \in 2 .. m - 1 /\ p.fd_entry[i].flags = IN_USE) <=>
                         (i \in 2 .. n - 1 /\ p.fd_entry[i].flags = IN_USE)
      BY <2>1, <3>2 DEF Fds
    <3>4. q = Closed(p, n)
      BY <3>3, Zenon DEF Closed
    <3>5. QED
      BY <3>1, <3>4, Zenon
  <2>6. QED
    BY <2>4, <2>5, Zenon
<1>3. QED
  BY <1>1, <1>2, Zenon

\* halt_256 leaves no descriptor open but the standard ones, and the argument.
LEMMA CloseAllIs ==
    ASSUME NEW p \in PCBs PROVE CloseAll(p) = Closed(p, MAX_FD_NUM)
<1> DEFINE h == [n \in 0 .. MAX_FD_NUM |-> Closed(p, n)]
           F == CHOOSE f : IsClosing(f, p)
<1>1. CloseAll(p) = F[MAX_FD_NUM]
  BY Zenon DEF CloseAll, IsClosing
<1>2. IsClosing(h, p)
  <2>1. ASSUME NEW n \in 0 .. MAX_FD_NUM
        PROVE  h[n] = IF n = 0 THEN p ELSE close(h[n - 1], n - 1).pcb
    <3>1. CASE n = 0
      BY <3>1, ClosedIs, Zenon
    <3>2. CASE n # 0
      <4>1. n > 0 /\ n - 1 \in 0 .. MAX_FD_NUM
        BY <3>2, ConstantFacts
      <4>2. h[n - 1] = Closed(p, n - 1) /\ h[n] = Closed(p, n)
        BY <4>1, Zenon
      <4> HIDE DEF h
      <4>3. QED
        BY <3>2, <4>1, <4>2, ClosedIs
    <3>3. QED
      BY <3>1, <3>2, Zenon
  <2>2. h = [n \in 0 .. MAX_FD_NUM |-> IF n = 0 THEN p ELSE close(h[n - 1], n - 1).pcb]
    BY <2>1, Zenon
  <2>3. QED
    BY <2>2, Zenon DEF IsClosing
<1>3. IsClosing(F, p)
  BY <1>2, Zenon
<1> HIDE DEF F, h
<1> DEFINE T == {n \in Nat : n <= MAX_FD_NUM => F[n] = Closed(p, n)}
<1>4. \A n \in 0 .. MAX_FD_NUM : F[n] = IF n = 0 THEN p ELSE close(F[n - 1], n - 1).pcb
  BY Zenon, <1>3 DEF IsClosing
<1>5. 0 \in T
  BY <1>4, ConstantFacts, ClosedIs
<1>6. ASSUME NEW n \in Nat, n \in T PROVE n + 1 \in T
  <2>1. SUFFICES ASSUME n + 1 <= MAX_FD_NUM PROVE F[n + 1] = Closed(p, n + 1)
    OBVIOUS
  <2>2. n + 1 \in 0 .. MAX_FD_NUM /\ n + 1 # 0 /\ n + 1 > 0 /\ (n + 1) - 1 = n
    BY <2>1, ConstantFacts
  <2>3. F[n] = Closed(p, n)
    BY <1>6, <2>1, ConstantFacts
  <2>4. F[n + 1] = close(Closed(p, n), n).pcb
    BY <1>4, <2>2, <2>3, Zenon
  <2>5. close(Closed(p, (n + 1) - 1), (n + 1) - 1).pcb = Closed(p, n + 1)
    BY <2>2, ClosedIs, Zenon
  <2>6. QED
    BY <2>2, <2>4, <2>5, Zenon
<1> HIDE DEF T
<1>7. Nat \subseteq T
  BY <1>5, <1>6, NatSetInduction, Zenon
<1>8. F[MAX_FD_NUM] = Closed(p, MAX_FD_NUM)
  BY <1>7, ConstantFacts DEF T
<1>9. QED
  BY <1>1, <1>8, Zenon

\* The table every program starts with.
SetUp ==
    [i \in Fds |-> IF i = STDIN THEN StdEntry("stdin")
                   ELSE IF i = STDOUT THEN StdEntry("stdout") ELSE FreeEntry]

\* Neither do the standard streams.
LEMMA StdEntryInv ==
    ASSUME NEW o \in {"stdin", "stdout"}, NEW s PROVE EntryInv(StdEntry(o), s)
<1>1. /\ StdEntry(o) \in Entries /\ StdEntry(o).ops = o /\ StdEntry(o).flags = IN_USE
      /\ FreeEntry.flags = FREE
  BY DEF StdEntry, FreeEntry, Entries
<1>2. StdEntry(o).flags # FREE /\ StdEntry(o) # FreeEntry
  BY <1>1 DEF FREE, IN_USE
<1>3. StdEntry(o).ops # "file" /\ StdEntry(o).ops # "directory"
  BY <1>1, Zenon
<1>4. QED
  BY <1>1, <1>2, <1>3, ZenonT(60) DEF EntryInv

\* A program that is started has its standard streams and no file open.
LEMMA NewProgramIs ==
    ASSUME NEW p, p.args \in Arguments, NEW arg \in Arguments
    PROVE  LET q == NewProgram(p, arg)
           IN  /\ q \in PCBs /\ StdStreams(q) /\ q.fd_entry = SetUp
               /\ arg # NoArgs => q.args = arg
               /\ \A fd \in Fds : \A s : EntryInv(q.fd_entry[fd], s)
<1> DEFINE q == NewProgram(p, arg)
<1>1. q = [fd_entry |-> SetUp, args |-> IF arg = NoArgs THEN p.args ELSE arg]
  BY Zenon DEF NewProgram, setup_PCB, SetUp
<1>2. \A fd \in Fds : SetUp[fd] \in {StdEntry("stdin"), StdEntry("stdout"), FreeEntry}
  BY Zenon DEF SetUp
<1>3. \A fd \in Fds : \A s : EntryInv(SetUp[fd], s)
  BY <1>2, StdEntryInv, FreeEntryInv, Zenon
<1>4. \A fd \in Fds : SetUp[fd] \in Entries
  BY <1>3, Zenon DEF EntryInv
<1>5. SetUp \in [Fds -> Entries]
  BY <1>4, Zenon DEF SetUp
<1>6. STDIN \in Fds /\ STDOUT \in Fds /\ STDIN # STDOUT
  BY ConstantFacts DEF Fds, STDIN, STDOUT
<1>7. SetUp[STDIN] = StdEntry("stdin") /\ SetUp[STDOUT] = StdEntry("stdout")
  BY <1>6, Zenon DEF SetUp
<1> HIDE DEF q
<1>8. q.fd_entry = SetUp /\ q.args \in Arguments /\ (arg # NoArgs => q.args = arg) /\ q \in PCBs
  BY <1>1, <1>5, Zenon DEF PCBs
<1>9. StdStreams(q)
  BY <1>7, <1>8, Zenon DEF StdStreams
<1>10. QED
  BY <1>3, <1>8, <1>9, Zenon DEF q

-----------------------------------------------------------------------------
(* The descriptors of a process *)

\* The inductive invariant: every descriptor has read the beginning of its
\* file, up to a position inside it, and a program that has made no call yet
\* has the table and the argument it was started with.
FdInv ==
    /\ pcb \in PCBs /\ argument \in Arguments /\ DOMAIN seen = Fds
    /\ StdStreams(pcb)
    /\ \A fd \in Fds : EntryInv(pcb.fd_entry[fd], seen[fd])
    /\ last.call = "start" => pcb.fd_entry = SetUp /\ (argument # NoArgs => pcb.args = argument)

\* The first program starts with nothing open.
LEMMA FdInit == Init => FdInv
<1> SUFFICES ASSUME Init PROVE FdInv
  BY Zenon
<1> DEFINE p == [fd_entry |-> [i \in Fds |-> FreeEntry], args |-> NoArgs]
<1>1. p.args \in Arguments /\ argument \in Arguments /\ pcb = NewProgram(p, argument)
  BY FdTableAssumption, Zenon DEF Init, NoArgs
<1> HIDE DEF p
<1>2. /\ pcb \in PCBs /\ StdStreams(pcb) /\ pcb.fd_entry = SetUp
      /\ argument # NoArgs => pcb.args = argument
      /\ \A fd \in Fds : \A s : EntryInv(pcb.fd_entry[fd], s)
  BY ZenonT(60), <1>1, NewProgramIs
<1>3. DOMAIN seen = Fds
  BY Zenon DEF Init
<1>4. QED
  BY <1>1, <1>2, <1>3, Zenon DEF FdInv

\* The invariant in the state after a step.
LEMMA FdInvNext ==
    FdInv' <=> /\ pcb' \in PCBs /\ argument' \in Arguments /\ DOMAIN seen' = Fds
               /\ StdStreams(pcb')
               /\ \A fd \in Fds : EntryInv(pcb'.fd_entry[fd], seen'[fd])
               /\ last'.call = "start" =>
                    pcb'.fd_entry = SetUp /\ (argument' # NoArgs => pcb'.args = argument')
  BY Zenon DEF FdInv, PCBs, StdStreams, EntryInv, Fds, STDIN, STDOUT, StdEntry, SetUp, NoArgs

\* The step of a call that changes nothing, or one entry after the standard ones.
LEMMA NothingChanges ==
    ASSUME FdInv, pcb' = pcb, argument' = argument, seen' = seen, last'.call # "start"
    PROVE  FdInv'
  BY ZenonT(60) DEF FdInv, PCBs, StdStreams, EntryInv

\* A call that changes one entry keeps the invariant if that entry keeps it.
LEMMA OneEntryChanges ==
    ASSUME FdInv, NEW i \in 2 .. MAX_FD_NUM - 1, NEW e, NEW s, EntryInv(e, s),
           pcb' = WithEntry(pcb, i, e), argument' = argument, last'.call # "start",
           DOMAIN seen' = Fds, seen'[i] = s, \A fd \in Fds : fd # i => seen'[fd] = seen[fd]
    PROVE  FdInv'
<1>1. i \in Fds /\ i # STDIN /\ i # STDOUT /\ STDIN \in Fds /\ STDOUT \in Fds
  BY SMTT(60), ConstantFacts DEF Fds, STDIN, STDOUT
<1>2. pcb \in PCBs /\ e \in Entries
  BY Zenon DEF FdInv, EntryInv
<1>3. pcb'.fd_entry = [pcb.fd_entry EXCEPT ![i] = e] /\ pcb'.args = pcb.args /\ pcb' \in PCBs
  BY <1>1, <1>2, Zenon DEF WithEntry, PCBs
<1>4. /\ pcb'.fd_entry[i] = e
      /\ \A fd \in Fds : fd # i => pcb'.fd_entry[fd] = pcb.fd_entry[fd]
  BY <1>1, <1>2, <1>3, Zenon DEF PCBs
<1>5. DOMAIN seen' = Fds /\ seen'[i] = s /\ \A fd \in Fds : fd # i => seen'[fd] = seen[fd]
  BY ZenonT(60)
<1>6. StdStreams(pcb')
  BY ZenonT(60), <1>1, <1>4 DEF FdInv, StdStreams
<1>7. \A fd \in Fds : EntryInv(pcb'.fd_entry[fd], seen'[fd])
  <2> TAKE fd \in Fds
  <2>1. CASE fd = i
    BY <1>4, <1>5, <2>1, Zenon
  <2>2. CASE fd # i
    BY <1>4, <1>5, <2>2, ZenonT(60) DEF FdInv
  <2>3. QED
    BY <2>1, <2>2, Zenon
<1>8. QED
  BY ZenonT(60), <1>3, <1>5, <1>6, <1>7, FdInvNext DEF FdInv

\* What such a step may do is what the calls promise.
LEMMA NothingIsContained ==
    ASSUME pcb' = pcb, last'.call = "open" => ~(last'.value >= 2) PROVE Contained
  BY Zenon DEF Contained

\* And it reaches no other entry.
LEMMA OneEntryIsContained ==
    ASSUME pcb \in PCBs, NEW i \in 2 .. MAX_FD_NUM - 1, NEW e, pcb' = WithEntry(pcb, i, e),
           last'.value # -1,
           i = IF last'.call = "open" THEN last'.value ELSE last'.arg,
           last'.call = "open" => pcb.fd_entry[i].flags = FREE
    PROVE  Contained
<1>1. i \in Fds
  BY ConstantFacts DEF Fds
<1>2. \A fd \in Fds : fd # i => pcb'.fd_entry[fd] = pcb.fd_entry[fd]
  BY <1>1, Zenon DEF WithEntry, PCBs
<1>3. QED
  BY <1>2, Zenon DEF Contained

\* Opening a file.
LEMMA OpenStep ==
    ASSUME FdInv, NEW name \in Names, sys_open(name) PROVE FdInv' /\ Contained
<1> DEFINE r == open(pcb, name)
<1>1. /\ pcb' = r.pcb /\ argument' = argument /\ last'.call = "open" /\ last'.value = r.value
      /\ seen' = IF r.value >= 2 THEN [seen EXCEPT ![r.value] = <<>>] ELSE seen
  BY Zenon DEF sys_open, Call
<1>2. pcb \in PCBs /\ StdStreams(pcb)
  BY Zenon DEF FdInv
<1>3. \A p, v, b : Result(p, v, b).pcb = p /\ Result(p, v, b).value = v
  BY Zenon DEF Result
<1>4. ASSUME NEW v \in {-1, 0, 1}, NEW b, r = Result(pcb, v, b) PROVE FdInv' /\ Contained
  <2>1. r.pcb = pcb /\ r.value = v
    BY <1>3, <1>4
  <2>2. ~(r.value >= 2)
    BY <2>1
  <2>3. pcb' = pcb /\ seen' = seen /\ last'.call # "start"
    BY <1>1, <2>1, <2>2, Zenon
  <2>4. QED
    BY <1>1, <2>2, <2>3, NothingChanges, NothingIsContained
<1>5. ASSUME NEW i \in 2 .. MAX_FD_NUM - 1, OpenTakes(pcb, name, i) PROVE FdInv' /\ Contained
  <2> DEFINE k == read_dentry_by_name(Image, name)
             e == OpenEntry(pcb, i, Image.dentries[k])
  <2>1. r = Result(WithEntry(pcb, i, e), i, <<>>)
    BY ZenonT(60), <1>5 DEF OpenTakes
  <2>2. r.pcb = WithEntry(pcb, i, e) /\ r.value = i
    BY SMTT(30), <1>3, <2>1
  <2>3. EntryInv(e, <<>>)
    BY ZenonT(60), <1>5, OpenedEntry DEF OpenTakes
  <2>4. i >= 2 /\ i # -1
    BY ConstantFacts
  <2> HIDE DEF e, r
  <2>5. seen' = [seen EXCEPT ![i] = <<>>] /\ pcb' = WithEntry(pcb, i, e) /\ last'.call # "start"
    BY <1>1, <2>2, <2>4, Zenon
  <2>6. FdInv'
    <3>1. DOMAIN seen' = Fds /\ seen'[i] = <<>> /\ \A fd \in Fds : fd # i => seen'[fd] = seen[fd]
      BY SMTT(30), <2>4, <2>5, ConstantFacts DEF FdInv, Fds
    <3>2. QED
      BY SMTT(30), <1>1, <2>3, <2>5, <3>1, OneEntryChanges
  <2>7. Contained
    BY ZenonT(60), <1>1, <1>2, <1>5, <2>2, <2>4, <2>5, OneEntryIsContained DEF OpenTakes
  <2>8. QED
    BY <2>6, <2>7, Zenon
<1>6. QED
  BY <1>2, <1>4, <1>5, OpenIs, Zenon DEF Fails, STDIN, STDOUT

\* Closing one.
LEMMA CloseStep ==
    ASSUME FdInv, NEW fd \in -1 .. MAX_FD_NUM, sys_close(fd) PROVE FdInv' /\ Contained
<1> DEFINE r == close(pcb, fd)
<1>1. /\ pcb' = r.pcb /\ argument' = argument /\ last'.call = "close" /\ last'.value = r.value
      /\ last'.arg = fd /\ seen' = seen
  BY Zenon DEF sys_close, Call
<1>2. pcb \in PCBs /\ DOMAIN seen = Fds
  BY Zenon DEF FdInv
<1>3. CASE ~CanClose(pcb, fd)
  <2>1. r.pcb = pcb
    BY <1>3, Zenon DEF close, Fails, Result
  <2>2. QED
    BY <1>1, <2>1, NothingChanges, NothingIsContained, Zenon
<1>4. CASE CanClose(pcb, fd)
  <2>1. r.pcb = WithEntry(pcb, fd, FreeEntry) /\ r.value = 0
    BY <1>4, Zenon DEF close, Result
  <2>2. fd \in 2 .. MAX_FD_NUM - 1 /\ fd \in Fds
    BY <1>4, ConstantFacts DEF CanClose, Fds
  <2>3. EntryInv(FreeEntry, seen[fd])
    BY FreeEntryInv, Zenon
  <2> HIDE DEF r
  <2>4. FdInv'
    BY <1>1, <1>2, <2>1, <2>2, <2>3, OneEntryChanges, Zenon
  <2>5. Contained
    BY <1>1, <1>2, <2>1, <2>2, OneEntryIsContained
  <2>6. QED
    BY <2>4, <2>5, Zenon
<1>5. QED
  BY <1>3, <1>4, Zenon

\* Reading: a file, the directory, the clock, or the terminal.
LEMMA ReadStep ==
    ASSUME FdInv, NEW fd \in -1 .. MAX_FD_NUM, NEW n \in Counts, sys_read(fd, n)
    PROVE  FdInv' /\ Contained
<1> DEFINE r == read(pcb, fd, n)
           e == pcb.fd_entry[fd]
<1>1. /\ pcb' = r.pcb /\ argument' = argument /\ last'.call = "read" /\ last'.value = r.value
      /\ last'.arg = fd /\ last'.call # "start"
      /\ seen' = IF fd \in Fds /\ fd >= 2 THEN [seen EXCEPT ![fd] = @ \o r.bytes] ELSE seen
  BY Zenon DEF sys_read, Call
<1>2. /\ pcb \in PCBs /\ DOMAIN seen = Fds /\ StdStreams(pcb) /\ n \in Int
      /\ \A i \in Fds : EntryInv(pcb.fd_entry[i], seen[i])
  BY FdTableAssumption, Zenon DEF FdInv
<1>3. \A p, v, b : /\ Result(p, v, b).pcb = p /\ Result(p, v, b).value = v
                  /\ Result(p, v, b).bytes = b
  BY Zenon DEF Result
<1>5. CASE fd \notin 2 .. MAX_FD_NUM - 1
  <2>1. r.pcb = pcb
    <3>1. CASE fd \notin Fds \/ fd = STDOUT
      <4>1. r = Fails(pcb)
        BY <3>1, Zenon DEF read
      <4>2. QED
        BY <4>1 DEF Fails, Result
    <3>2. CASE fd = STDIN
      <4>1. e.flags = IN_USE /\ e.ops = "stdin"
        BY <1>2, <3>2 DEF StdStreams, StdEntry
      <4>2. fd \in Fds /\ fd # STDOUT
        BY <3>2, ConstantFacts DEF Fds, STDIN, STDOUT
      <4>3. r = Result(pcb, 1, <<"NL">>)
        BY <4>1, <4>2 DEF read, IN_USE, FREE
      <4>4. QED
        BY SMTT(30), <4>3 DEF Result
    <3>3. fd \notin Fds \/ fd = STDOUT \/ fd = STDIN
      BY <1>5, ConstantFacts DEF Fds, STDIN, STDOUT
    <3>4. QED
      BY <3>1, <3>2, <3>3, Zenon
  <2>2. ~(fd \in Fds /\ fd >= 2)
    BY SMTT(30), <1>5, ConstantFacts DEF Fds
  <2>3. QED
    BY Zenon, <1>1, <2>1, <2>2, NothingChanges, NothingIsContained
<1>6. CASE fd \in 2 .. MAX_FD_NUM - 1
  <2>1. fd \in Fds /\ fd >= 2 /\ fd # STDOUT /\ EntryInv(e, seen[fd]) /\ e \in Entries
    BY SMTT(60), <1>2, <1>6, ConstantFacts DEF Fds, STDOUT, EntryInv
  <2>2. /\ DOMAIN seen' = Fds /\ seen'[fd] = seen[fd] \o r.bytes
        /\ \A i \in Fds : i # fd => seen'[i] = seen[i]
    <3> HIDE DEF r
    <3>1. QED
      BY Zenon, <1>1, <1>2, <2>1
  <2>3. ASSUME NEW f, EntryInv(f, seen[fd] \o r.bytes), r.pcb = WithEntry(pcb, fd, f), r.value # -1
        PROVE  FdInv' /\ Contained
    <3> HIDE DEF r
    <3>1. FdInv'
      BY ZenonT(60), <1>1, <1>6, <2>2, <2>3, OneEntryChanges
    <3>2. Contained
      BY Zenon, <1>1, <1>2, <1>6, <2>3, OneEntryIsContained
    <3>3. QED
      BY <3>1, <3>2, Zenon
  <2>4. ASSUME EntryInv(e, seen[fd] \o r.bytes), r.pcb = pcb PROVE FdInv' /\ Contained
    <3>1. pcb' = WithEntry(pcb, fd, e)
      BY ZenonT(60), <1>1, <1>2, <2>1, <2>4, WithSameEntry
    <3> HIDE DEF r, e
    <3>2. FdInv'
      BY ZenonT(60), <1>1, <1>6, <2>2, <2>4, <3>1, OneEntryChanges
    <3>3. Contained
      BY <1>1, <2>4, NothingIsContained, Zenon
    <3>4. QED
      BY <3>2, <3>3, Zenon
  <2>5. \A s : e.ops \notin {"file", "directory"} => EntryInv(e, s)
    BY <2>1, ZenonT(60) DEF EntryInv
  <2>6. CASE e.flags = FREE
    <3>1. e.ops = "NULL"
      BY SMTT(60), <2>1, <2>6 DEF EntryInv, FreeEntry
    <3>2. r = Fails(pcb)
      BY <2>6, Zenon DEF read
    <3>3. r.pcb = pcb
      BY <3>2 DEF Fails, Result
    <3>4. EntryInv(e, seen[fd] \o r.bytes)
      <4> HIDE DEF e, r
      <4>1. QED
        BY <2>5, <3>1, Zenon
    <3>5. QED
      BY <2>4, <3>3, <3>4, Zenon
  <2>7. CASE e.flags # FREE /\ e.ops \notin {"file", "directory"}
    <3>1. r = Result(pcb, 0, <<>>) \/ r = Result(pcb, 1, <<"NL">>)
      BY <2>1, <2>7, ZenonT(60) DEF read
    <3>2. r.pcb = pcb
      BY <1>3, <3>1
    <3>3. EntryInv(e, seen[fd] \o r.bytes)
      <4> HIDE DEF e, r
      <4>1. QED
        BY <2>5, <2>7, Zenon
    <3>4. QED
      BY <2>4, <3>2, <3>3, Zenon
  <2>8. CASE e.flags # FREE /\ e.ops = "file"
    <3> DEFINE inode == Image.inodes[e.inode_index]
               c == Count(inode, e.file_position, n)
               f == AtPosition(e, e.file_position + c)
    <3>1. r = read_file(pcb, fd, n)
      BY <2>1, <2>8, ZenonT(60) DEF read
    <3>2. e.inode_index \in DOMAIN Image.inodes /\ e.file_position \in 0 .. inode.length
      BY Zenon, <2>1, <2>8 DEF EntryInv
    <3>3. /\ c \in 0 .. inode.length - e.file_position
          /\ r = Result(WithEntry(pcb, fd, f), c, Stretch(Image, inode, e.file_position, c))
      <4>1. FileReadGives(pcb, fd, n)
        BY ZenonT(60), <1>2, <2>8, <3>2, ReadFileIs
      <4>2. QED
        BY <3>1, <4>1, ZenonT(60) DEF FileReadGives
    <3>4. EntryInv(f, seen[fd] \o Stretch(Image, inode, e.file_position, c))
      <4> HIDE DEF c, e
      <4>1. QED
        BY ZenonT(60), <2>1, <2>8, <3>3, FileReadOn DEF f
    <3>5. c # -1
      <4> HIDE DEF c
      <4>1. inode.length \in Nat /\ e.file_position \in Nat
        BY SMTT(30), <3>2, ConstantFacts
      <4>2. QED
        BY SMTT(60), <3>3, <4>1
    <3> HIDE DEF c, e, f, r
    <3>6. r.pcb = WithEntry(pcb, fd, f) /\ r.value = c /\ r.bytes = Stretch(Image, inode, e.file_position, c)
      BY SMTT(60), <1>3, <3>3
    <3>7. EntryInv(f, seen[fd] \o r.bytes) /\ r.value # -1
      BY <3>4, <3>5, <3>6, Zenon
    <3>8. QED
      BY <2>3, <3>6, <3>7, Zenon
  <2>9. CASE e.flags # FREE /\ e.ops = "directory"
    <3> DEFINE f == AtPosition(e, e.file_position + 1)
               name == EntryName(Image.dentries[e.file_position + 1])
    <3>1. r = read_directory(pcb, fd, n)
      BY <2>1, <2>9, ZenonT(60) DEF read
    <3>2. e.file_position \in 0 .. Len(Image.dentries) /\ seen[fd] = NamesTo(e.file_position)
      BY <2>1, <2>9, Zenon DEF EntryInv
    <3>3. r = IF e.file_position = Len(Image.dentries) THEN Result(pcb, 0, <<>>)
              ELSE Result(WithEntry(pcb, fd, f), Len(name), name)
      BY ZenonT(60), <3>1, <3>2, ReadDirectoryIs
    <3>4. CASE e.file_position = Len(Image.dentries)
      <4>1. r.pcb = pcb /\ r.bytes = <<>>
        BY SMTT(60), <1>3, <3>3, <3>4
      <4>2. seen[fd] \in Seq(Chars)
        BY <3>2, NamesToIs, Zenon
      <4> HIDE DEF r, e
      <4>3. seen[fd] \o r.bytes = seen[fd]
        BY <4>1, <4>2, ConcatEmptySeq, Zenon
      <4>4. QED
        BY ZenonT(60), <2>1, <2>4, <4>1, <4>3
    <3>5. CASE e.file_position # Len(Image.dentries)
      <4>1. EntryInv(f, seen[fd] \o name)
        <5> HIDE DEF e
        <5>1. QED
          BY <2>1, <2>9, <3>5, DirectoryReadOn, Zenon DEF f, name
      <4>2. Len(name) \in Nat /\ Len(name) # -1
        <5>1. e.file_position + 1 \in 1 .. Len(Image.dentries)
          BY SMTT(30), <3>2, <3>5, ConstantFacts
        <5>2. QED
          BY SMTT(30), <5>1, EntryNameIs, FileSystemAssumption
      <4> HIDE DEF f, name, r, e
      <4>3. r.pcb = WithEntry(pcb, fd, f) /\ r.value = Len(name) /\ r.bytes = name
        BY SMTT(60), <1>3, <3>3, <3>5
      <4>4. EntryInv(f, seen[fd] \o r.bytes) /\ r.value # -1
        BY <4>1, <4>2, <4>3, Zenon
      <4>5. QED
        BY <2>3, <4>3, <4>4, Zenon
    <3>6. QED
      BY <3>4, <3>5, Zenon
  <2>10. QED
    BY <2>6, <2>7, <2>8, <2>9, Zenon
<1>7. QED
  BY <1>5, <1>6, Zenon

\* Writing, getargs, and one program in place of another.
LEMMA OtherSteps ==
    ASSUME FdInv,
           \/ \E fd \in -1 .. MAX_FD_NUM, n \in Counts : sys_write(fd, n)
           \/ sys_getargs
           \/ \E arg \in Arguments : halt_and_execute(arg)
    PROVE  FdInv' /\ Contained
<1>1. ASSUME NEW fd \in -1 .. MAX_FD_NUM, NEW n \in Counts, sys_write(fd, n) PROVE FdInv' /\ Contained
  <2>1. write(pcb, fd, n).pcb = pcb
    BY Zenon DEF write, Fails, Result
  <2>2. pcb' = pcb /\ seen' = seen /\ argument' = argument /\ last'.call = "write"
    BY <1>1, <2>1, Zenon DEF sys_write, Call
  <2>3. QED
    BY <2>2, NothingChanges, NothingIsContained, Zenon
<1>2. ASSUME sys_getargs PROVE FdInv' /\ Contained
  <2>1. /\ pcb' = getargs(pcb).pcb /\ seen' = seen /\ argument' = argument
        /\ last'.call = "getargs"
    BY <1>2, Zenon DEF sys_getargs, Call
  <2>2. pcb \in PCBs /\ NoArgs \in Arguments
    BY FdTableAssumption, Zenon DEF FdInv, NoArgs
  <2>3. pcb'.fd_entry = pcb.fd_entry /\ pcb' \in PCBs
    BY <2>1, <2>2, Zenon DEF getargs, Fails, Result, PCBs
  <2>4. FdInv'
    BY ZenonT(60), <2>1, <2>3 DEF FdInv, PCBs, StdStreams, EntryInv
  <2>5. Contained
    BY Zenon, <2>1 DEF Contained
  <2>6. QED
    BY <2>4, <2>5, Zenon
<1>3. ASSUME NEW arg \in Arguments, halt_and_execute(arg) PROVE FdInv' /\ Contained
  <2> DEFINE p == CloseAll(pcb)
  <2>1. pcb \in PCBs
    BY Zenon DEF FdInv
  <2>2. p.args \in Arguments
    BY <2>1, CloseAllIs DEF Closed, PCBs
  <2>3. /\ pcb' = NewProgram(p, arg) /\ argument' = arg
        /\ seen' = [fd \in Fds |-> <<>>] /\ last' = NoCall
    BY <1>3, Zenon DEF halt_and_execute
  <2> HIDE DEF p
  <2>4. /\ pcb' \in PCBs /\ StdStreams(pcb') /\ pcb'.fd_entry = SetUp
        /\ arg # NoArgs => pcb'.args = arg
        /\ \A fd \in Fds : \A s : EntryInv(pcb'.fd_entry[fd], s)
    BY ZenonT(60), <2>2, <2>3, NewProgramIs
  <2>5. FdInv'
    <3>1. DOMAIN seen' = Fds
      BY <2>3, Zenon
    <3>2. QED
      BY <2>3, <2>4, <3>1, FdInvNext, Zenon
  <2>6. Contained
    BY <2>3, Zenon DEF Contained, NoCall
  <2>7. QED
    BY <2>5, <2>6, Zenon
<1>4. QED
  BY <1>1, <1>2, <1>3, Zenon

\* Every call.
LEMMA FdNext == FdInv /\ Next => FdInv' /\ Contained
<1> SUFFICES ASSUME FdInv, Next PROVE FdInv' /\ Contained
  BY Zenon
<1>1. CASE \E name \in Names : sys_open(name)
  BY <1>1, OpenStep, Zenon
<1>2. CASE \E fd \in -1 .. MAX_FD_NUM : sys_close(fd) \/ \E n \in Counts : sys_write(fd, n)
  BY <1>2, CloseStep, OtherSteps, Zenon
<1>3. CASE \E fd \in -1 .. MAX_FD_NUM, n \in Counts : sys_read(fd, n)
  BY <1>3, ReadStep, Zenon
<1>4. CASE sys_getargs
  BY <1>4, OtherSteps, Zenon
<1>5. CASE \E arg \in Arguments : halt_and_execute(arg)
  BY <1>5, OtherSteps, Zenon
<1>6. QED
  BY <1>1, <1>2, <1>3, <1>4, <1>5, Zenon DEF Next

\* No call.
LEMMA FdStutters == FdInv /\ UNCHANGED vars => FdInv'
<1> SUFFICES ASSUME FdInv, UNCHANGED vars PROVE FdInv'
  BY Zenon
<1>1. pcb' = pcb /\ argument' = argument /\ seen' = seen /\ last' = last
  BY Zenon DEF vars
<1>2. QED
  BY Zenon, <1>1, FdInvNext DEF FdInv

\* The descriptors of a process are as FdInv says, whatever it calls.
LEMMA FdInductive == Spec => []FdInv
<1>1. FdInv /\ [Next]_vars => FdInv'
  BY FdNext, FdStutters, Zenon
<1>2. QED
  BY FdInit, <1>1, PTL DEF Spec

\* What was read through a descriptor is the beginning of its file.
LEMMA FdInvImplies == FdInv => DescriptorsKept
<1> SUFFICES ASSUME FdInv PROVE DescriptorsKept
  BY Zenon
<1>1. TypeOK
  BY Zenon DEF FdInv, TypeOK, PCBs
<1>2. \A fd \in Fds : EntryInv(pcb.fd_entry[fd], seen[fd])
  BY Zenon DEF FdInv
<1>3. StandardStreams
  <2>1. \A fd \in Fds : pcb.fd_entry[fd].flags = FREE <=> pcb.fd_entry[fd] = FreeEntry
    BY <1>2, Zenon DEF EntryInv
  <2>2. QED
    BY <2>1, Zenon DEF FdInv, StdStreams, StandardStreams
<1>4. ReadsInOrder
  <2> SUFFICES ASSUME NEW fd \in Fds
               PROVE  LET e == pcb.fd_entry[fd]
                      IN  /\ e.ops = "file" =>
                               seen[fd] = SubSeq(FileBytes(e.inode_index), 1, e.file_position)
                          /\ e.ops = "directory" => seen[fd] = NamesTo(e.file_position)
    BY Zenon DEF ReadsInOrder
  <2> DEFINE e == pcb.fd_entry[fd]
  <2>1. EntryInv(e, seen[fd])
    BY <1>2, Zenon
  <2>2. ASSUME e.ops = "file"
        PROVE  seen[fd] = SubSeq(FileBytes(e.inode_index), 1, e.file_position)
    <3> DEFINE inode == Image.inodes[e.inode_index]
    <3>1. /\ e.inode_index \in DOMAIN Image.inodes /\ e.file_position \in 0 .. inode.length
          /\ seen[fd] = Stretch(Image, inode, 0, e.file_position)
      BY ZenonT(60), <2>1, <2>2 DEF EntryInv
    <3>2. inode.length \in Nat /\ 0 \in Nat
      BY <3>1, ConstantFacts, Zenon
    <3>3. FileBytes(e.inode_index) = Stretch(Image, inode, 0, inode.length)
      BY <3>1, FileBytesIs, Zenon
    <3>4. SubSeq(Stretch(Image, inode, 0, inode.length), 1, e.file_position)
            = Stretch(Image, inode, 0, e.file_position)
      BY ZenonT(60), <3>1, <3>2, StretchBegins
    <3>5. QED
      BY <3>1, <3>3, <3>4, ZenonT(60)
  <2>3. e.ops = "directory" => seen[fd] = NamesTo(e.file_position)
    BY Zenon, <2>1 DEF EntryInv
  <2>4. QED
    BY <2>2, <2>3, Zenon
<1>5. QED
  BY <1>1, <1>3, <1>4, Zenon DEF DescriptorsKept

\* DescriptorsKept, for every image, every number of descriptors, and every
\* sequence of programs and calls.
THEOREM DescriptorsAreKept == Spec => []DescriptorsKept
<1>1. Spec => []FdInv
  BY FdInductive, Zenon
<1>2. QED
  BY <1>1, FdInvImplies, PTL

\* CallsAreContained, likewise.
THEOREM CallsStayContained == Spec => CallsAreContained
<1>1. FdInv /\ [Next]_vars => [Contained]_vars
  BY FdNext, Zenon
<1>2. Spec => []FdInv
  BY FdInductive, Zenon
<1>3. QED
  BY <1>1, <1>2, PTL DEF Spec, CallsAreContained

\* CopyOut's loop, as a fact about the function it computes.
CopyRound(s, fd, nbytes, end) ==
    LET r == read(s.pcb, fd, nbytes)
    IN  IF s.done THEN s
        ELSE [pcb |-> r.pcb, done |-> r.value = 0,
              out |-> IF r.value = 0 THEN s.out ELSE s.out \o r.bytes \o end]

IsCopying(f, p, fd, nbytes, end) ==
    f = [n \in 0 .. MaxReads |->
            IF n = 0 THEN [pcb |-> p, out |-> <<>>, done |-> FALSE]
            ELSE CopyRound(f[n - 1], fd, nbytes, end)]

\* CopyOut's loop by name.
LEMMA CopyOutDef ==
    ASSUME NEW p, NEW fd, NEW nbytes, NEW end
    PROVE  CopyOut(p, fd, nbytes, end) = (CHOOSE f : IsCopying(f, p, fd, nbytes, end))[MaxReads]
  BY Zenon DEF CopyOut, IsCopying, CopyRound

\* A descriptor whose reads go from position to position up to L: P is the PCB,
\* O what was printed and N the next position, at each of them.
Goes(P, O, N, L, fd, nbytes, end) ==
    /\ N \in [0 .. L -> 0 .. L]
    /\ N[L] = L
    /\ read(P[L], fd, nbytes).pcb = P[L] /\ read(P[L], fd, nbytes).value = 0
    /\ O[0] = <<>>
    /\ \A q \in 0 .. L : q # L =>
         /\ N[q] > q
         /\ read(P[q], fd, nbytes).pcb = P[N[q]] /\ read(P[q], fd, nbytes).value # 0
         /\ O[N[q]] = O[q] \o read(P[q], fd, nbytes).bytes \o end

\* The state of the loop at a position.
CopyState(P, O, q, d) == [pcb |-> P[q], out |-> O[q], done |-> d]

CopyRoundGoes(P, O, N, L, fd, nbytes, end) ==
    \A q \in 0 .. L :
        /\ CopyRound(CopyState(P, O, q, TRUE), fd, nbytes, end) = CopyState(P, O, q, TRUE)
        /\ q = L => CopyRound(CopyState(P, O, q, FALSE), fd, nbytes, end) = CopyState(P, O, N[q], TRUE)
        /\ q # L => CopyRound(CopyState(P, O, q, FALSE), fd, nbytes, end) = CopyState(P, O, N[q], FALSE)

\* A round that reads something appends it; one that reads nothing ends the loop.
LEMMA CopyRoundIs ==
    ASSUME NEW P, NEW O, NEW N, NEW L \in Nat, NEW fd, NEW nbytes, NEW end,
           Goes(P, O, N, L, fd, nbytes, end)
    PROVE  CopyRoundGoes(P, O, N, L, fd, nbytes, end)
<1> SUFFICES ASSUME NEW q \in 0 .. L
             PROVE  /\ CopyRound(CopyState(P, O, q, TRUE), fd, nbytes, end) = CopyState(P, O, q, TRUE)
                    /\ q = L => CopyRound(CopyState(P, O, q, FALSE), fd, nbytes, end)
                                  = CopyState(P, O, N[q], TRUE)
                    /\ q # L => CopyRound(CopyState(P, O, q, FALSE), fd, nbytes, end)
                                  = CopyState(P, O, N[q], FALSE)
  BY Zenon DEF CopyRoundGoes
<1> DEFINE s == CopyState(P, O, q, FALSE)
           r == read(P[q], fd, nbytes)
<1>1. CopyRound(CopyState(P, O, q, TRUE), fd, nbytes, end) = CopyState(P, O, q, TRUE)
  BY Zenon DEF CopyRound, CopyState
<1>2. s.pcb = P[q] /\ s.out = O[q] /\ s.done = FALSE
  BY Zenon DEF CopyState
<1>3. CopyRound(s, fd, nbytes, end) =
        [pcb |-> r.pcb, done |-> r.value = 0,
         out |-> IF r.value = 0 THEN O[q] ELSE O[q] \o r.bytes \o end]
  <2> HIDE DEF s
  <2>1. QED
    BY <1>2, ZenonT(60) DEF CopyRound
<1>4. CASE q = L
  <2>1. r.pcb = P[q] /\ r.value = 0 /\ N[q] = q
    BY ZenonT(60), <1>4 DEF Goes
  <2>2. (r.value = 0) = TRUE
    BY Zenon, <2>1
  <2>3. [pcb |-> r.pcb, done |-> r.value = 0,
         out |-> IF r.value = 0 THEN O[q] ELSE O[q] \o r.bytes \o end] = CopyState(P, O, N[q], TRUE)
    BY <2>1, <2>2, ZenonT(60) DEF CopyState
  <2>4. QED
    BY ZenonT(60), <1>1, <1>3, <1>4, <2>3
<1>5. CASE q # L
  <2>1. r.pcb = P[N[q]] /\ r.value # 0 /\ O[N[q]] = O[q] \o r.bytes \o end
    BY <1>5, ZenonT(60) DEF Goes
  <2>2. (r.value = 0) = FALSE
    BY Zenon, <2>1
  <2>3. [pcb |-> r.pcb, done |-> r.value = 0,
         out |-> IF r.value = 0 THEN O[q] ELSE O[q] \o r.bytes \o end] = CopyState(P, O, N[q], FALSE)
    BY <2>1, <2>2, Zenon DEF CopyState
  <2>4. QED
    BY ZenonT(60), <1>1, <1>3, <1>5, <2>3
<1>6. QED
  BY ZenonT(60), <1>4, <1>5

\* The loop prints what there is up to the end, if its bound allows the reads.
LEMMA CopyOutIs ==
    ASSUME NEW P, NEW O, NEW N, NEW L \in Nat, L <= MaxReads, NEW fd, NEW nbytes, NEW end,
           Goes(P, O, N, L, fd, nbytes, end)
    PROVE  CopyOut(P[0], fd, nbytes, end).out = O[L]
<1> DEFINE g == [i \in Nat |-> N]
           S == 0 .. L
<1>1. MaxReads \in Nat /\ N \in [S -> S] /\ 0 \in S
  <2>1. MaxReads \in Nat
    BY ProgramFacts, Zenon
  <2>2. N \in [S -> S]
    BY Zenon DEF Goes
  <2>3. 0 \in S
    OBVIOUS
  <2>4. QED
    BY <2>1, <2>2, <2>3, Zenon
<1>2. g \in [Nat -> [S -> S]] /\ \A i \in Nat : g[i] = N
  BY <1>1, Zenon
<1> HIDE DEF g
<1>3. PICK pos : IsLoop(pos, S, 0, g, MaxReads)
  <2> HIDE DEF S
  <2>1. QED
    BY <1>1, <1>2, LoopExists, Zenon
<1>4. /\ pos \in [0 .. MaxReads -> S] /\ pos[0] = 0
      /\ \A i \in 1 .. MaxReads : pos[i] = N[pos[i - 1]]
  <2>1. /\ pos \in [0 .. MaxReads -> S] /\ pos[0] = 0
        /\ \A i \in 1 .. MaxReads : pos[i] = g[i][pos[i - 1]]
    BY <1>3, Zenon DEF IsLoop
  <2>2. \A i \in 1 .. MaxReads : i \in Nat
    BY <1>1
  <2>3. QED
    BY <1>2, <2>1, <2>2, Zenon
<1> DEFINE D(m) == m > 0 /\ pos[m - 1] = L
           h == [m \in 0 .. MaxReads |-> CopyState(P, O, pos[m], D(m))]
           start == [pcb |-> P[0], out |-> <<>>, done |-> FALSE]
<1>0. \A q \in 0 .. L :
        /\ CopyRound(CopyState(P, O, q, TRUE), fd, nbytes, end) = CopyState(P, O, q, TRUE)
        /\ q = L => CopyRound(CopyState(P, O, q, FALSE), fd, nbytes, end) = CopyState(P, O, N[q], TRUE)
        /\ q # L => CopyRound(CopyState(P, O, q, FALSE), fd, nbytes, end) = CopyState(P, O, N[q], FALSE)
  <2>1. CopyRoundGoes(P, O, N, L, fd, nbytes, end)
    BY CopyRoundIs, Zenon
  <2>2. QED
    BY <2>1, Zenon DEF CopyRoundGoes
<1>5. CopyState(P, O, pos[0], D(0)) = start
  <2>1. D(0) = FALSE
    OBVIOUS
  <2>2. O[0] = <<>>
    BY Zenon DEF Goes
  <2> HIDE DEF D
  <2>3. QED
    BY <1>4, <2>1, <2>2, Zenon DEF CopyState
<1>6. ASSUME NEW m \in Nat, m + 1 <= MaxReads
      PROVE  CopyRound(CopyState(P, O, pos[m], D(m)), fd, nbytes, end)
               = CopyState(P, O, pos[m + 1], D(m + 1))
  <2>1. m \in 0 .. MaxReads /\ m + 1 \in 1 .. MaxReads /\ (m + 1) - 1 = m /\ m + 1 > 0
    BY <1>1, <1>6
  <2>2. pos[m] \in 0 .. L /\ pos[m + 1] = N[pos[m]]
    BY <1>4, <2>1, Zenon
  <2>3. D(m) \in BOOLEAN /\ D(m + 1) = (pos[m] = L)
    BY <2>1, Zenon
  <2>4. CASE D(m)
    <3>1. m \in 1 .. MaxReads /\ pos[m - 1] = L
      BY <2>1, <2>4
    <3>2. pos[m] = L /\ N[L] = L
      BY <1>4, <3>1, Zenon DEF Goes
    <3>3. D(m) = TRUE /\ D(m + 1) = TRUE
      BY <2>3, <2>4, <3>2, Zenon
    <3> HIDE DEF D
    <3>4. CopyRound(CopyState(P, O, pos[m], TRUE), fd, nbytes, end) = CopyState(P, O, pos[m], TRUE)
      BY <1>0, <2>2, Zenon
    <3>5. QED
      BY <2>2, <3>2, <3>3, <3>4, Zenon
  <2>5. CASE ~D(m)
    <3>1. D(m) = FALSE
      BY <2>3, <2>5, Zenon
    <3> HIDE DEF D
    <3>2. CASE pos[m] = L
      <4>1. D(m + 1) = TRUE
        BY ZenonT(60), <2>3, <3>2
      <4>2. CopyRound(CopyState(P, O, pos[m], FALSE), fd, nbytes, end) = CopyState(P, O, N[pos[m]], TRUE)
        BY <1>0, <2>2, <3>2, Zenon
      <4>3. QED
        BY <2>2, <3>1, <4>1, <4>2, Zenon
    <3>3. CASE pos[m] # L
      <4>1. D(m + 1) = FALSE
        BY Zenon, <2>3, <3>3
      <4>2. CopyRound(CopyState(P, O, pos[m], FALSE), fd, nbytes, end) = CopyState(P, O, N[pos[m]], FALSE)
        BY <1>0, <2>2, <3>3, Zenon
      <4>3. QED
        BY <2>2, <3>1, <4>1, <4>2, Zenon
    <3>4. QED
      BY <3>2, <3>3, Zenon
  <2>6. QED
    BY <2>4, <2>5, Zenon
<1> HIDE DEF D
<1>7. IsCopying(h, P[0], fd, nbytes, end)
  <2>1. ASSUME NEW m \in 0 .. MaxReads
        PROVE  h[m] = IF m = 0 THEN start ELSE CopyRound(h[m - 1], fd, nbytes, end)
    <3>1. CASE m = 0
      BY <1>5, <3>1, Zenon
    <3>2. CASE m # 0
      <4>1. PICK k \in Nat : m = k + 1
        <5>1. m - 1 \in Nat /\ m = (m - 1) + 1
          BY <1>1, <3>2
        <5>2. QED
          BY <5>1, Zenon
      <4>2. k \in 0 .. MaxReads /\ k + 1 <= MaxReads /\ m - 1 = k
        BY <1>1, <4>1
      <4>3. h[m] = CopyState(P, O, pos[k + 1], D(k + 1)) /\ h[m - 1] = CopyState(P, O, pos[k], D(k))
        BY <4>1, <4>2, Zenon
      <4> HIDE DEF h
      <4>4. QED
        BY <1>6, <3>2, <4>2, <4>3, Zenon
    <3>3. QED
      BY <3>1, <3>2, Zenon
  <2>2. h = [m \in 0 .. MaxReads |-> IF m = 0 THEN start ELSE CopyRound(h[m - 1], fd, nbytes, end)]
    BY Zenon, <2>1
  <2> HIDE DEF h
  <2>3. QED
    BY ZenonT(60), <2>2 DEF IsCopying
<1> DEFINE F == CHOOSE f : IsCopying(f, P[0], fd, nbytes, end)
<1>8. IsCopying(F, P[0], fd, nbytes, end)
  BY <1>7, Zenon
<1>9. CopyOut(P[0], fd, nbytes, end) = F[MaxReads]
  BY CopyOutDef, Zenon
<1> HIDE DEF F, h
<1>10. \A m \in 0 .. MaxReads : F[m] = IF m = 0 THEN start ELSE CopyRound(F[m - 1], fd, nbytes, end)
  BY Zenon, <1>8 DEF IsCopying
<1> DEFINE T == {m \in Nat : m <= MaxReads => /\ F[m] = CopyState(P, O, pos[m], D(m))
                                            /\ pos[m] >= Smaller(m, L)}
<1>11. 0 \in T
  <2>0. 0 \in 0 .. MaxReads
    BY <1>1
  <2>1. F[0] = start
    BY <1>10, <2>0, Zenon
  <2>2. pos[0] >= Smaller(0, L)
    BY <1>4 DEF Smaller
  <2> HIDE DEF start
  <2>3. F[0] = CopyState(P, O, pos[0], D(0))
    BY <1>5, <2>1, Zenon
  <2>4. QED
    BY <2>2, <2>3, Zenon
<1>12. ASSUME NEW m \in Nat, m \in T PROVE m + 1 \in T
  <2>1. SUFFICES ASSUME m + 1 <= MaxReads
                 PROVE  F[m + 1] = CopyState(P, O, pos[m + 1], D(m + 1)) /\ pos[m + 1] >= Smaller(m + 1, L)
    OBVIOUS
  <2>2. F[m] = CopyState(P, O, pos[m], D(m)) /\ pos[m] >= Smaller(m, L)
    BY <1>1, <1>12, <2>1
  <2>3. m + 1 \in 0 .. MaxReads /\ m + 1 # 0 /\ (m + 1) - 1 = m /\ m \in 0 .. MaxReads /\ m + 1 \in 1 .. MaxReads
    BY <1>1, <2>1
  <2>4. F[m + 1] = CopyRound(F[m], fd, nbytes, end)
    BY <1>10, <2>3, Zenon
  <2>5. F[m + 1] = CopyState(P, O, pos[m + 1], D(m + 1))
    BY <1>6, <2>1, <2>2, <2>4, Zenon
  <2>6. pos[m + 1] = N[pos[m]] /\ pos[m] \in 0 .. L
    BY <1>4, <2>3, Zenon
  <2>7. IF pos[m] = L THEN N[pos[m]] = L ELSE N[pos[m]] > pos[m] /\ N[pos[m]] \in 0 .. L
    BY Zenon, <1>1, <2>6 DEF Goes
  <2>8. pos[m + 1] >= Smaller(m + 1, L)
    BY <2>2, <2>6, <2>7 DEF Smaller
  <2>9. QED
    BY <2>5, <2>8, Zenon
<1> HIDE DEF T
<1>13. Nat \subseteq T
  BY <1>11, <1>12, NatSetInduction, Zenon
<1>14. F[MaxReads] = CopyState(P, O, pos[MaxReads], D(MaxReads)) /\ pos[MaxReads] >= Smaller(MaxReads, L)
  BY <1>1, <1>13 DEF T
<1>15. pos[MaxReads] = L
  BY <1>1, <1>4, <1>14 DEF Smaller
<1>16. CopyState(P, O, L, D(MaxReads)).out = O[L]
  BY Zenon DEF CopyState
<1>17. QED
  BY <1>9, <1>14, <1>15, <1>16, Zenon

-----------------------------------------------------------------------------
(* A descriptor a program has just opened *)

Opened(p, fd) ==
    /\ p \in PCBs /\ fd \in 2 .. MAX_FD_NUM - 1
    /\ p.fd_entry[fd].flags = IN_USE /\ p.fd_entry[fd].file_position = 0

\* The PCB with the descriptor at each position.
Along(p, fd, L) == [q \in 0 .. L |-> WithEntry(p, fd, AtPosition(p.fd_entry[fd], q))]

\* The descriptor stays open on what it was, and only its position moves.
LEMMA AlongIs ==
    ASSUME NEW p, NEW fd, Opened(p, fd), NEW L \in Nat
    PROVE  /\ Along(p, fd, L)[0] = p
           /\ \A q \in 0 .. L :
                /\ Along(p, fd, L)[q].fd_entry[fd] = AtPosition(p.fd_entry[fd], q)
                /\ Along(p, fd, L)[q].fd_entry[fd].flags # FREE
                /\ Along(p, fd, L)[q].fd_entry[fd].ops = p.fd_entry[fd].ops
                /\ Along(p, fd, L)[q].fd_entry[fd].inode_index = p.fd_entry[fd].inode_index
                /\ Along(p, fd, L)[q].fd_entry[fd].file_position = q
                /\ \A k \in 0 .. L :
                     WithEntry(Along(p, fd, L)[q], fd, AtPosition(Along(p, fd, L)[q].fd_entry[fd], k))
                       = Along(p, fd, L)[k]
<1> DEFINE e == p.fd_entry[fd]
           P == Along(p, fd, L)
<1>1. fd \in Fds /\ p \in PCBs /\ DOMAIN p.fd_entry = Fds /\ e \in Entries /\ 0 \in 0 .. L
  BY ConstantFacts DEF Opened, PCBs, Fds
<1>2. \A q \in 0 .. L : P[q] = WithEntry(p, fd, AtPosition(e, q))
  BY Zenon DEF Along
<1>3. P[0] = p
  <2>1. AtPosition(e, 0) = e
    BY <1>1, Zenon DEF Opened, AtPosition, Entries
  <2>2. QED
    BY <1>1, <1>2, <2>1, WithSameEntry, Zenon
<1> HIDE DEF P
<1>4. ASSUME NEW q \in 0 .. L
      PROVE  /\ P[q].fd_entry[fd] = AtPosition(e, q)
             /\ P[q].fd_entry[fd].flags # FREE
             /\ P[q].fd_entry[fd].ops = e.ops
             /\ P[q].fd_entry[fd].inode_index = e.inode_index
             /\ P[q].fd_entry[fd].file_position = q
             /\ \A k \in 0 .. L : WithEntry(P[q], fd, AtPosition(P[q].fd_entry[fd], k)) = P[k]
  <2>0. P[q] = WithEntry(p, fd, AtPosition(e, q))
    BY <1>2, Zenon
  <2>1. P[q].fd_entry = [p.fd_entry EXCEPT ![fd] = AtPosition(e, q)] /\ P[q].args = p.args
    BY <2>0 DEF WithEntry
  <2>2. P[q].fd_entry[fd] = AtPosition(e, q)
    BY <1>1, <2>1, Zenon
  <2>3. q \in Int
    OBVIOUS
  <2>4. /\ AtPosition(e, q).ops = e.ops /\ AtPosition(e, q).flags = e.flags
        /\ AtPosition(e, q).inode_index = e.inode_index /\ AtPosition(e, q).file_position = q
    BY <1>1, <2>3, AtPositionIs, Zenon
  <2>5. e.flags # FREE
    BY DEF Opened, IN_USE, FREE
  <2>6. ASSUME NEW k \in 0 .. L PROVE WithEntry(P[q], fd, AtPosition(P[q].fd_entry[fd], k)) = P[k]
    <3>1. AtPosition(AtPosition(e, q), k) = AtPosition(e, k)
      BY ZenonT(60), <1>1 DEF AtPosition, Entries
    <3> DEFINE x == AtPosition(e, q)
               y == AtPosition(e, k)
    <3>2. WithEntry(P[q], fd, y) = [fd_entry |-> [P[q].fd_entry EXCEPT ![fd] = y], args |-> p.args]
      BY <2>1, Zenon DEF WithEntry
    <3>3. P[k] = [fd_entry |-> [p.fd_entry EXCEPT ![fd] = y], args |-> p.args]
      BY <1>2, Zenon DEF WithEntry
    <3> HIDE DEF x, y
    <3>4. [[p.fd_entry EXCEPT ![fd] = x] EXCEPT ![fd] = y] = [p.fd_entry EXCEPT ![fd] = y]
      BY <1>1, Zenon
    <3>5. QED
      BY <2>1, <2>2, <3>1, <3>2, <3>3, <3>4 DEF x, y
  <2>7. QED
    BY <2>2, <2>4, <2>5, <2>6, Zenon
<1>5. QED
  BY <1>3, <1>4, Zenon DEF P

\* The output along a file, and the next position.
LEMMA FileGoes ==
    ASSUME NEW p, NEW fd, Opened(p, fd), p.fd_entry[fd].ops = "file",
           p.fd_entry[fd].inode_index \in DOMAIN Image.inodes, NEW n \in Int \ {0}
    PROVE  LET inode == Image.inodes[p.fd_entry[fd].inode_index]
               L == inode.length
           IN  Goes(Along(p, fd, L), [q \in 0 .. L |-> Stretch(Image, inode, 0, q)],
                    [q \in 0 .. L |-> q + Count(inode, q, n)], L, fd, n, <<>>)
<1> DEFINE ix == p.fd_entry[fd].inode_index
           inode == Image.inodes[ix]
           L == inode.length
           P == Along(p, fd, L)
           O == [q \in 0 .. L |-> Stretch(Image, inode, 0, q)]
           N == [q \in 0 .. L |-> q + Count(inode, q, n)]
<1>1. L \in Nat /\ 0 \in 0 .. L /\ L \in 0 .. L /\ fd \in Fds /\ fd # STDOUT
  BY ConstantFacts DEF Opened, Fds, STDOUT
<1>2. \A q \in 0 .. L : /\ Count(inode, q, n) \in 0 .. L - q
                        /\ q # L => Count(inode, q, n) > 0
                        /\ q = L => Count(inode, q, n) = 0
  <2> HIDE DEF inode
  <2>1. QED
    BY <1>1, CountIs, Zenon
<1>3. /\ N \in [0 .. L -> 0 .. L] /\ N[L] = L
      /\ \A q \in 0 .. L : N[q] = q + Count(inode, q, n) /\ (q # L => N[q] > q)
  <2> HIDE DEF L, inode
  <2>1. QED
    BY <1>1, <1>2
<1>4. O[0] = <<>>
  BY ZenonT(60), <1>1, StartIs DEF Start, At
<1>5. \A q \in 0 .. L : O[q] = Stretch(Image, inode, 0, q)
  BY Zenon
<1> HIDE DEF N, O
<1>6. ASSUME NEW q \in 0 .. L
      PROVE  read(P[q], fd, n) = Result(P[N[q]], Count(inode, q, n), Stretch(Image, inode, q, Count(inode, q, n)))
  <2> DEFINE e == P[q].fd_entry[fd]
             c == Count(inode, q, n)
  <2>1. /\ e.flags # FREE /\ e.ops = "file" /\ e.inode_index = ix /\ e.file_position = q
        /\ \A k \in 0 .. L : WithEntry(P[q], fd, AtPosition(e, k)) = P[k]
    <3> HIDE DEF L
    <3>1. QED
      BY <1>1, AlongIs
  <2> HIDE DEF P
  <2>2. read(P[q], fd, n) = read_file(P[q], fd, n)
    BY <1>1, <2>1, Zenon DEF read
  <2>3. read_file(P[q], fd, n) = Result(WithEntry(P[q], fd, AtPosition(e, q + c)), c, Stretch(Image, inode, q, c))
    <3>1. n \in Int /\ e.inode_index \in DOMAIN Image.inodes /\ Image.inodes[e.inode_index] = inode
          /\ e.file_position \in 0 .. Image.inodes[e.inode_index].length
      BY <2>1, Zenon
    <3>2. FileReadGives(P[q], fd, n)
      BY <2>1, <3>1, ReadFileIs, Zenon
    <3>3. QED
      BY <2>1, <3>1, <3>2, ZenonT(60) DEF FileReadGives
  <2>4. q + c = N[q] /\ N[q] \in 0 .. L
    BY Zenon, <1>3
  <2> HIDE DEF c
  <2>5. WithEntry(P[q], fd, AtPosition(e, q + c)) = P[N[q]]
    BY <2>1, <2>4, Zenon
  <2>6. QED
    BY <2>2, <2>3, <2>5, ZenonT(60) DEF c
<1> HIDE DEF P
<1>7. \A x, v, b : /\ Result(x, v, b).pcb = x /\ Result(x, v, b).value = v
                  /\ Result(x, v, b).bytes = b
  BY Zenon DEF Result
<1>8. read(P[L], fd, n).pcb = P[L] /\ read(P[L], fd, n).value = 0
  <2>1. Count(inode, L, n) = 0 /\ N[L] = L
    BY ZenonT(60), <1>1, <1>2, <1>3
  <2>2. read(P[L], fd, n) = Result(P[N[L]], Count(inode, L, n), Stretch(Image, inode, L, Count(inode, L, n)))
    BY Zenon, <1>1, <1>6
  <2>3. QED
    <3> HIDE DEF L
    <3>1. QED
      BY SMTT(30), <1>7, <2>1, <2>2
<1>9. ASSUME NEW q \in 0 .. L, q # L
      PROVE  /\ N[q] > q
             /\ read(P[q], fd, n).pcb = P[N[q]] /\ read(P[q], fd, n).value # 0
             /\ O[N[q]] = O[q] \o read(P[q], fd, n).bytes \o <<>>
  <2> DEFINE c == Count(inode, q, n)
             a == Stretch(Image, inode, 0, q)
             b == Stretch(Image, inode, q, c)
             S == BytesOf(Image, inode)
  <2>1. c \in Nat /\ c # 0 /\ q \in Nat /\ N[q] = q + c /\ N[q] > q /\ N[q] \in 0 .. L
    <3>1. c \in 0 .. L - q /\ c > 0
      BY ZenonT(60), <1>2, <1>9
    <3>2. N[q] = q + c /\ N[q] > q /\ N[q] \in 0 .. L
      BY ZenonT(60), <1>3, <1>9
    <3> HIDE DEF c, L
    <3>3. QED
      BY SMTT(30), <1>1, <3>1, <3>2
  <2> HIDE DEF c
  <2>2. read(P[q], fd, n).pcb = P[N[q]] /\ read(P[q], fd, n).value = c /\ read(P[q], fd, n).bytes = b
    <3>1. read(P[q], fd, n) = Result(P[N[q]], c, b)
      BY <1>6, Zenon DEF c
    <3> HIDE DEF b, L
    <3>2. QED
      BY SMTT(30), <1>7, <3>1
  <2>3. a \in Seq(S) /\ b \in Seq(S)
    BY <2>1, StretchIs, Zenon
  <2>4. a \o b = Stretch(Image, inode, 0, q + c)
    BY <2>1, StretchesJoin, ZenonT(60)
  <2> HIDE DEF a, b, S
  <2>5. (a \o b) \o <<>> = a \o b
    BY <2>3, ConcatProperties, ConcatEmptySeq
  <2>6. O[N[q]] = (a \o b) \o <<>>
    BY <1>5, <2>1, <2>4, <2>5, Zenon
  <2>7. O[q] = a
    BY <1>5, Zenon DEF a
  <2>8. QED
    BY <2>1, <2>2, <2>6, <2>7, Zenon
<1>10. Goes(P, O, N, L, fd, n, <<>>)
  BY <1>3, <1>4, <1>8, <1>9, Zenon DEF Goes
<1>11. QED
  BY ZenonT(60), <1>10 DEF P, O, N

\* The output along the directory: what is printed for the first q entries.
LEMMA DirectoryGoes ==
    ASSUME NEW p, NEW fd, Opened(p, fd), p.fd_entry[fd].ops = "directory", NEW n, NEW end, NEW O,
           O[0] = <<>>,
           \A q \in 1 .. Len(Image.dentries) : O[q] = O[q - 1] \o EntryName(Image.dentries[q]) \o end
    PROVE  LET L == Len(Image.dentries)
           IN  Goes(Along(p, fd, L), O, [q \in 0 .. L |-> IF q = L THEN L ELSE q + 1], L, fd, n, end)
<1> DEFINE L == Len(Image.dentries)
           P == Along(p, fd, L)
           N == [q \in 0 .. L |-> IF q = L THEN L ELSE q + 1]
<1>1. L \in Nat /\ 0 \in 0 .. L /\ L \in 0 .. L /\ fd \in Fds /\ fd # STDOUT
  BY ConstantFacts DEF Opened, Fds, STDOUT
<1>2. /\ N \in [0 .. L -> 0 .. L] /\ N[L] = L
      /\ \A q \in 0 .. L : q # L => N[q] = q + 1 /\ N[q] > q
  BY <1>1
<1> HIDE DEF N
<1>3. ASSUME NEW q \in 0 .. L
      PROVE  read(P[q], fd, n) =
               IF q = L THEN Result(P[L], 0, <<>>)
               ELSE Result(P[q + 1], Len(EntryName(Image.dentries[q + 1])), EntryName(Image.dentries[q + 1]))
  <2> DEFINE e == P[q].fd_entry[fd]
             name == EntryName(Image.dentries[q + 1])
  <2>1. /\ e.flags # FREE /\ e.ops = "directory" /\ e.file_position = q
        /\ \A k \in 0 .. L : WithEntry(P[q], fd, AtPosition(e, k)) = P[k]
    <3> HIDE DEF L
    <3>1. QED
      BY <1>1, AlongIs
  <2> HIDE DEF P
  <2>2. read(P[q], fd, n) = read_directory(P[q], fd, n)
    BY <1>1, <2>1, ZenonT(60) DEF read
  <2>3. read_directory(P[q], fd, n) =
          IF e.file_position = Len(Image.dentries) THEN Result(P[q], 0, <<>>)
          ELSE Result(WithEntry(P[q], fd, AtPosition(e, e.file_position + 1)),
                      Len(EntryName(Image.dentries[e.file_position + 1])),
                      EntryName(Image.dentries[e.file_position + 1]))
    BY <2>1, ReadDirectoryIs
  <2>4. CASE q = L
    BY <2>1, <2>2, <2>3, <2>4, Zenon
  <2>5. CASE q # L
    <3>1. q + 1 \in 0 .. L
      BY <1>1, <2>5
    <3>2. WithEntry(P[q], fd, AtPosition(e, q + 1)) = P[q + 1]
      BY <2>1, <3>1, Zenon
    <3>3. QED
      BY <2>1, <2>2, <2>3, <2>5, <3>2, Zenon
  <2>6. QED
    BY <2>4, <2>5, Zenon
<1> HIDE DEF P
<1>4. \A x, v, b : /\ Result(x, v, b).pcb = x /\ Result(x, v, b).value = v
                  /\ Result(x, v, b).bytes = b
  BY Zenon DEF Result
<1>5. read(P[L], fd, n).pcb = P[L] /\ read(P[L], fd, n).value = 0
  <2>1. read(P[L], fd, n) = Result(P[L], 0, <<>>)
    BY <1>1, <1>3, Zenon
  <2> HIDE DEF L
  <2>2. QED
    BY <1>4, <2>1
<1>6. ASSUME NEW q \in 0 .. L, q # L
      PROVE  /\ N[q] > q
             /\ read(P[q], fd, n).pcb = P[N[q]] /\ read(P[q], fd, n).value # 0
             /\ O[N[q]] = O[q] \o read(P[q], fd, n).bytes \o end
  <2> DEFINE name == EntryName(Image.dentries[q + 1])
  <2>1. q + 1 \in 1 .. L /\ (q + 1) - 1 = q /\ N[q] = q + 1 /\ N[q] > q
    BY <1>1, <1>2, <1>6
  <2>2. Len(name) # 0
    <3>1. Image.dentries[q + 1].file_name[1] # Nul
      BY <2>1, ProgramFacts, Zenon
    <3>2. QED
      BY <2>1, <3>1, EntryNameIs, Zenon
  <2>3. read(P[q], fd, n) = Result(P[q + 1], Len(name), name)
    BY <1>3, <1>6, Zenon
  <2> HIDE DEF name, L
  <2>4. read(P[q], fd, n).pcb = P[q + 1] /\ read(P[q], fd, n).value = Len(name) /\ read(P[q], fd, n).bytes = name
    BY <1>4, <2>3
  <2>5. O[q + 1] = O[(q + 1) - 1] \o name \o end
    BY <2>1, Zenon DEF L, name
  <2>6. QED
    BY <2>1, <2>2, <2>4, <2>5, ZenonT(60)
<1>7. Goes(P, O, N, L, fd, n, end)
  BY <1>2, <1>5, <1>6, Zenon DEF Goes
<1>8. QED
  BY <1>7, Zenon DEF P, N

\* A read of the clock ends what is printed.
LEMMA ClockGoes ==
    ASSUME NEW p, NEW fd, Opened(p, fd), p.fd_entry[fd].ops = "rtc", NEW n, NEW end
    PROVE  Goes([q \in {0} |-> p], [q \in {0} |-> <<>>], [q \in {0} |-> 0], 0, fd, n, end)
<1>1. fd \in Fds /\ fd # STDOUT /\ p.fd_entry[fd].flags # FREE
  BY ConstantFacts DEF Opened, Fds, STDOUT, FREE, IN_USE
<1>2. read(p, fd, n) = Result(p, 0, <<>>)
  BY <1>1, Zenon DEF read
<1>3. read(p, fd, n).pcb = p /\ read(p, fd, n).value = 0
  BY <1>2 DEF Result
<1>4. 0 .. 0 = {0}
  BY SMTT(30)
<1>5. QED
  BY <1>3, <1>4, Zenon DEF Goes

-----------------------------------------------------------------------------
(* cat and ls *)

\* The first descriptor a program opens is 2.
LEMMA FirstOpen ==
    ASSUME NEW p \in PCBs, p.fd_entry = SetUp, NEW name,
           ~Begins(name, "stdin"), ~Begins(name, "stdout")
    PROVE  LET at == read_dentry_by_name(Image, name)
               d == Image.dentries[at]
               q == WithEntry(p, 2, OpenEntry(p, 2, d))
           IN  /\ at = NotFound \/ TableOf(d.file_type) = "unknown" => open(p, name) = Fails(p)
               /\ at # NotFound /\ TableOf(d.file_type) # "unknown" =>
                    /\ open(p, name) = Result(q, 2, <<>>)
                    /\ Opened(q, 2)
                    /\ q.fd_entry[2].ops = TableOf(d.file_type)
                    /\ q.fd_entry[2].inode_index = d.inode_number
                    /\ d.inode_number \in DOMAIN Image.inodes
<1> DEFINE at == read_dentry_by_name(Image, name)
           d == Image.dentries[at]
           e == OpenEntry(p, 2, d)
           q == WithEntry(p, 2, e)
<1>1. STDIN \in Fds /\ STDOUT \in Fds /\ 2 \in Fds /\ 2 \in 2 .. MAX_FD_NUM - 1
      /\ STDIN # STDOUT /\ 2 # STDIN /\ 2 # STDOUT
  BY ConstantFacts DEF Fds, STDIN, STDOUT
<1>2. StdStreams(p) /\ p.fd_entry[2] = FreeEntry
  BY <1>1, Zenon DEF SetUp, StdStreams
<1>3. p.fd_entry[2].flags = FREE
  BY <1>2 DEF FreeEntry
<1>4. CASE at = NotFound \/ TableOf(d.file_type) = "unknown"
  <2>1. \A i : ~OpenTakes(p, name, i)
    BY <1>4, ConstantFacts DEF OpenTakes, NotFound
  <2>2. open(p, name) = Fails(p)
    BY <1>2, <2>1, OpenIs, Zenon
  <2>3. QED
    BY <1>4, <2>2, Zenon
<1>5. CASE at # NotFound /\ TableOf(d.file_type) # "unknown"
  <2>1. ~OpenFails(p, name)
    BY <1>1, <1>3, <1>5, Zenon DEF OpenFails
  <2>2. PICK i \in 2 .. MAX_FD_NUM - 1 : OpenTakes(p, name, i)
    BY <1>2, <2>1, OpenIs, Zenon
  <2>3. i = 2
    BY SMTT(30), <1>1, <1>3, <2>2, ConstantFacts DEF OpenTakes
  <2>4. open(p, name) = Result(q, 2, <<>>) /\ at \in 1 .. Len(Image.dentries)
    BY <2>2, <2>3, Zenon DEF OpenTakes
  <2>5. EntryInv(e, <<>>)
    BY Zenon, <1>5, <2>4, OpenedEntry
  <2>6. /\ e.ops = TableOf(d.file_type) /\ e.inode_index = d.inode_number
        /\ e.file_position = 0 /\ e.flags = IN_USE
    BY Zenon DEF OpenEntry
  <2>7. d.inode_number \in DOMAIN Image.inodes
    BY <2>4, ConstantFacts, Zenon
  <2> HIDE DEF e
  <2>8. q \in PCBs /\ q.fd_entry[2] = e
    BY <1>1, <2>5, Zenon DEF WithEntry, PCBs, EntryInv
  <2>9. Opened(q, 2)
    BY SMTT(30), <1>1, <2>6, <2>8 DEF Opened
  <2>10. QED
    BY ZenonT(60), <1>5, <2>4, <2>6, <2>7, <2>8, <2>9 DEF e
<1>6. QED
  BY ZenonT(60), <1>4, <1>5

\* What is printed through a descriptor just opened.
LEMMA CopyOutPrints ==
    ASSUME NEW p, NEW fd, Opened(p, fd), NEW n \in Int \ {0}
    PROVE  LET e == p.fd_entry[fd]
           IN  /\ e.ops = "file" /\ e.inode_index \in DOMAIN Image.inodes =>
                    CopyOut(p, fd, n, <<>>).out = FileBytes(e.inode_index)
               /\ e.ops = "directory" => CopyOut(p, fd, n, <<>>).out = NamesTo(Len(Image.dentries))
               /\ e.ops = "rtc" => CopyOut(p, fd, n, <<>>).out = <<>>
<1> DEFINE e == p.fd_entry[fd]
<1>1. ASSUME e.ops = "file", e.inode_index \in DOMAIN Image.inodes
      PROVE  CopyOut(p, fd, n, <<>>).out = FileBytes(e.inode_index)
  <2> DEFINE inode == Image.inodes[e.inode_index]
             L == inode.length
             P == Along(p, fd, L)
             O == [q \in 0 .. L |-> Stretch(Image, inode, 0, q)]
             N == [q \in 0 .. L |-> q + Count(inode, q, n)]
  <2>1. L \in Nat /\ L <= MaxReads
    BY <1>1, ConstantFacts, ProgramFacts
  <2>2. Goes(P, O, N, L, fd, n, <<>>)
    BY ZenonT(60), <1>1, FileGoes
  <2>3. P[0] = p
    <3> HIDE DEF L
    <3>1. QED
      BY <2>1, AlongIs
  <2>4. O[L] = Stretch(Image, inode, 0, L)
    <3> HIDE DEF L
    <3>1. L \in 0 .. L
      BY <2>1
    <3>2. QED
      BY <3>1, Zenon
  <2>5. FileBytes(e.inode_index) = Stretch(Image, inode, 0, L)
    BY <1>1, FileBytesIs, Zenon
  <2> HIDE DEF L, P, O, N
  <2>6. CopyOut(P[0], fd, n, <<>>).out = O[L]
    BY <2>1, <2>2, CopyOutIs
  <2>7. QED
    BY <2>3, <2>4, <2>5, <2>6, Zenon
<1>2. ASSUME e.ops = "directory" PROVE CopyOut(p, fd, n, <<>>).out = NamesTo(Len(Image.dentries))
  <2> DEFINE L == Len(Image.dentries)
             P == Along(p, fd, L)
             O == [q \in 0 .. L |-> NamesTo(q)]
             N == [q \in 0 .. L |-> IF q = L THEN L ELSE q + 1]
  <2>1. L \in Nat /\ L <= MaxReads /\ 0 \in 0 .. L /\ L \in 0 .. L
    BY ConstantFacts, ProgramFacts
  <2>2. O[0] = <<>>
    BY <2>1, NamesToIs, Zenon
  <2>3. \A q \in 0 .. L : O[q] = NamesTo(q)
    BY Zenon
  <2>4. P[0] = p
    <3> HIDE DEF L
    <3>1. QED
      BY <2>1, AlongIs
  <2> HIDE DEF O
  <2>5. ASSUME NEW q \in 1 .. L PROVE O[q] = O[q - 1] \o EntryName(Image.dentries[q]) \o <<>>
    <3> DEFINE a == NamesTo(q - 1)
               b == EntryName(Image.dentries[q])
    <3>1. q \in 0 .. L /\ q - 1 \in 0 .. L /\ q > 0
      BY <2>1
    <3>2. a \in Seq(Chars) /\ b \in Seq(Chars)
      BY <3>1, NamesToIs, EntryNameIs
    <3>3. NamesTo(q) = a \o b
      BY <3>1, NamesToIs, Zenon
    <3> HIDE DEF a, b
    <3>4. (a \o b) \o <<>> = a \o b
      BY <3>2, ConcatProperties, ConcatEmptySeq
    <3>5. O[q] = NamesTo(q) /\ O[q - 1] = a
      BY <2>3, <3>1, Zenon DEF a
    <3>6. QED
      BY <3>3, <3>4, <3>5, Zenon DEF b
  <2>6. Goes(P, O, N, L, fd, n, <<>>)
    BY Zenon, <1>2, <2>2, <2>5, DirectoryGoes
  <2>7. O[L] = NamesTo(L)
    BY <2>1, <2>3, Zenon
  <2> HIDE DEF L, P, N
  <2>8. CopyOut(P[0], fd, n, <<>>).out = O[L]
    BY <2>1, <2>6, CopyOutIs
  <2>9. QED
    BY <2>4, <2>7, <2>8, ZenonT(60) DEF L
<1>3. ASSUME e.ops = "rtc" PROVE CopyOut(p, fd, n, <<>>).out = <<>>
  <2> DEFINE P == [q \in {0} |-> p]
             O == [q \in {0} |-> <<>>]
             N == [q \in {0} |-> 0]
  <2>1. Goes(P, O, N, 0, fd, n, <<>>) /\ P[0] = p /\ O[0] = <<>>
    BY Zenon, <1>3, ClockGoes
  <2>2. 0 \in Nat /\ 0 <= MaxReads
    BY ProgramFacts
  <2> HIDE DEF P, O, N
  <2>3. CopyOut(P[0], fd, n, <<>>).out = O[0]
    BY <2>1, <2>2, CopyOutIs
  <2>4. QED
    BY <2>1, <2>3, Zenon
<1>4. QED
  BY <1>1, <1>2, <1>3, Zenon

\* What the kinds of a directory entry are called.
LEMMA TableOfIs ==
    ASSUME NEW type
    PROVE  /\ TableOf(type) = "rtc" <=> type = FILE_TYPE_RTC
           /\ TableOf(type) = "directory" <=> type = FILE_TYPE_DIR
           /\ TableOf(type) = "file" <=> type = FILE_TYPE_FILE
           /\ TableOf(type) \in {"rtc", "directory", "file", "unknown"}
  BY DEF TableOf, FILE_TYPE_RTC, FILE_TYPE_DIR, FILE_TYPE_FILE

\* What cat should print.
CatOutcome(name) ==
    LET at == read_dentry_by_name(Image, name)
        e == Image.dentries[at]
    IN  CASE at = NotFound -> Outcome(2, <<>>)
          [] at # NotFound /\ TableOf(e.file_type) = "unknown" -> Outcome(2, <<>>)
          [] at # NotFound /\ e.file_type = FILE_TYPE_RTC -> Outcome(0, <<>>)
          [] at # NotFound /\ e.file_type = FILE_TYPE_DIR ->
                 Outcome(0, NamesTo(Len(Image.dentries)))
          [] OTHER -> Outcome(0, FileBytes(e.inode_number))

\* cat prints the file its argument names, with a buffer of any size.
LEMMA CatIs ==
    ASSUME NEW p \in PCBs, p.fd_entry = SetUp, NamesFile(p.args), NEW n \in Int \ {0}
    PROVE  cat(p, n) = CatOutcome(p.args)
<1> DEFINE name == p.args
           p0 == [fd_entry |-> p.fd_entry, args |-> NoArgs]
           at == read_dentry_by_name(Image, name)
           d == Image.dentries[at]
           q == WithEntry(p0, 2, OpenEntry(p0, 2, d))
           file == open(p0, name)
<1>1. p0 \in PCBs /\ p0.fd_entry = SetUp
  BY FdTableAssumption, Zenon DEF PCBs, NoArgs
<1>2. ~Begins(name, "stdin") /\ ~Begins(name, "stdout") /\ name # NoArgs
  BY Zenon DEF NamesFile
<1>3. /\ getargs(p) = Result(p0, 0, name)
      /\ Result(p0, 0, name).pcb = p0 /\ Result(p0, 0, name).value = 0
      /\ Result(p0, 0, name).bytes = name
  BY <1>2, Zenon DEF getargs, Result
<1>4. cat(p, n) = IF file.value = -1 THEN Outcome(2, <<>>)
                  ELSE Outcome(0, CopyOut(file.pcb, file.value, n, <<>>).out)
  <2> HIDE DEF p0, name
  <2>1. 0 = 0
    BY Zenon
  <2>2. QED
    BY <1>3, Zenon DEF cat
<1>5. TableOf(d.file_type) \in {"rtc", "directory", "file", "unknown"}
      /\ (TableOf(d.file_type) = "rtc" <=> d.file_type = FILE_TYPE_RTC)
      /\ (TableOf(d.file_type) = "directory" <=> d.file_type = FILE_TYPE_DIR)
  BY TableOfIs, Zenon
<1> HIDE DEF p0, name
<1>6. CASE at = NotFound \/ TableOf(d.file_type) = "unknown"
  <2>1. file = Fails(p0)
    BY ZenonT(60), <1>1, <1>2, <1>6, FirstOpen
  <2>2. cat(p, n) = Outcome(2, <<>>)
    BY <1>4, <2>1 DEF Fails, Result
  <2>3. CatOutcome(name) = Outcome(2, <<>>)
    <3>1. CASE at = NotFound
      BY <3>1, Zenon DEF CatOutcome
    <3>2. CASE at # NotFound
      <4>1. TableOf(d.file_type) = "unknown"
        BY <1>6, <3>2, Zenon
      <4>2. d.file_type # FILE_TYPE_RTC /\ d.file_type # FILE_TYPE_DIR
        BY <1>5, <4>1, Zenon
      <4>3. QED
        BY <3>2, <4>1, <4>2 DEF CatOutcome
    <3>3. QED
      BY <3>1, <3>2, Zenon
  <2>4. QED
    BY <2>2, <2>3, Zenon DEF name
<1>7. CASE at # NotFound /\ TableOf(d.file_type) # "unknown"
  <2>1. /\ file = Result(q, 2, <<>>)
        /\ Opened(q, 2)
        /\ q.fd_entry[2].ops = TableOf(d.file_type)
        /\ q.fd_entry[2].inode_index = d.inode_number
        /\ d.inode_number \in DOMAIN Image.inodes
    BY ZenonT(60), <1>1, <1>2, <1>7, FirstOpen
  <2> HIDE DEF q
  <2>2. Result(q, 2, <<>>).pcb = q /\ Result(q, 2, <<>>).value = 2 /\ 2 # -1
    BY DEF Result
  <2>3. cat(p, n) = Outcome(0, CopyOut(q, 2, n, <<>>).out)
    BY <1>4, <2>1, <2>2, ZenonT(60)
  <2>4. /\ TableOf(d.file_type) = "file" => CopyOut(q, 2, n, <<>>).out = FileBytes(d.inode_number)
        /\ TableOf(d.file_type) = "directory" =>
             CopyOut(q, 2, n, <<>>).out = NamesTo(Len(Image.dentries))
        /\ TableOf(d.file_type) = "rtc" => CopyOut(q, 2, n, <<>>).out = <<>>
    <3> DEFINE e == q.fd_entry[2]
    <3>1. /\ e.ops = "file" /\ e.inode_index \in DOMAIN Image.inodes =>
               CopyOut(q, 2, n, <<>>).out = FileBytes(e.inode_index)
          /\ e.ops = "directory" => CopyOut(q, 2, n, <<>>).out = NamesTo(Len(Image.dentries))
          /\ e.ops = "rtc" => CopyOut(q, 2, n, <<>>).out = <<>>
      BY Zenon, <2>1, CopyOutPrints
    <3>2. QED
      BY Zenon, <2>1, <3>1
  <2>5. CASE TableOf(d.file_type) = "rtc"
    <3>1. CatOutcome(name) = Outcome(0, <<>>)
      BY <1>5, <1>7, <2>5 DEF CatOutcome, FILE_TYPE_RTC, FILE_TYPE_DIR
    <3>2. QED
      BY <2>3, <2>4, <2>5, <3>1 DEF name
  <2>6. CASE TableOf(d.file_type) = "directory"
    <3>1. CatOutcome(name) = Outcome(0, NamesTo(Len(Image.dentries)))
      BY <1>5, <1>7, <2>6 DEF CatOutcome, FILE_TYPE_RTC, FILE_TYPE_DIR
    <3>2. QED
      BY <2>3, <2>4, <2>6, <3>1, Zenon DEF name
  <2>7. CASE TableOf(d.file_type) = "file"
    <3>1. CatOutcome(name) = Outcome(0, FileBytes(d.inode_number))
      BY <1>5, <1>7, <2>7 DEF CatOutcome
    <3>2. QED
      BY <2>3, <2>4, <2>7, <3>1, Zenon DEF name
  <2>8. QED
    BY <1>5, <1>7, <2>5, <2>6, <2>7
<1>8. QED
  BY <1>6, <1>7, Zenon

\* The lines ls should print, as a fact about the function they are.
IsLines(f) ==
    f = [i \in 0 .. Len(Image.dentries) |->
            IF i = 0 THEN <<>>
            ELSE f[i - 1] \o Append(EntryName(Image.dentries[i]), "NL")]

\* There is such a function, and a line ends what was printed before it.
LEMMA LinesExist ==
    \E f \in [0 .. Len(Image.dentries) -> Seq(Chars \cup {"NL"})] : IsLines(f)
<1> DEFINE S == Seq(Chars \cup {"NL"})
           L == Len(Image.dentries)
           line(i) == Append(EntryName(Image.dentries[i]), "NL")
           g == [i \in Nat |-> [s \in S |-> IF i \in 1 .. L THEN s \o line(i) ELSE s]]
<1>1. L \in Nat /\ <<>> \in S
  BY ConstantFacts
<1>2. \A i \in 1 .. L : line(i) \in S
  <2> SUFFICES ASSUME NEW i \in 1 .. L PROVE line(i) \in S
    BY Zenon
  <2>1. EntryName(Image.dentries[i]) \in Seq(Chars)
    BY EntryNameIs, Zenon
  <2>2. EntryName(Image.dentries[i]) \in S
    BY <2>1
  <2>3. QED
    BY <2>2
<1> HIDE DEF line
<1>3. g \in [Nat -> [S -> S]]
  <2>1. \A i \in 1 .. L, s \in S : s \o line(i) \in S
    BY <1>2
  <2> HIDE DEF S
  <2>2. QED
    BY <2>1, Zenon
<1>4. \A i \in 1 .. L : \A s \in S : g[i][s] = s \o line(i)
  <2> HIDE DEF S
  <2>1. \A i \in 1 .. L : i \in Nat
    BY <1>1
  <2>2. QED
    BY <2>1, Zenon
<1> HIDE DEF g
<1>5. PICK f : IsLoop(f, S, <<>>, g, L)
  <2> HIDE DEF S, L
  <2>1. QED
    BY <1>1, <1>3, LoopExists
<1> HIDE DEF S
<1>6. f \in [0 .. L -> S] /\ f[0] = <<>> /\ \A i \in 1 .. L : f[i] = f[i - 1] \o line(i)
  <2>1. /\ f \in [0 .. L -> S] /\ f[0] = <<>>
        /\ \A i \in 1 .. L : f[i] = g[i][f[i - 1]]
    BY <1>5, Zenon DEF IsLoop
  <2>2. \A i \in 1 .. L : f[i - 1] \in S
    BY <1>1, <2>1
  <2>3. QED
    BY <1>4, <2>1, <2>2, Zenon
<1> DEFINE h == [i \in 0 .. L |-> IF i = 0 THEN <<>> ELSE f[i - 1] \o line(i)]
<1>7. f = h
  <2>1. ASSUME NEW i \in 0 .. L PROVE f[i] = h[i]
    <3>1. CASE i = 0
      BY <1>6, <3>1, Zenon
    <3>2. CASE i # 0
      <4>1. i \in 1 .. L
        BY <1>1, <3>2
      <4>2. QED
        BY <1>6, <3>2, <4>1, Zenon
    <3>3. QED
      BY <3>1, <3>2, Zenon
  <2> HIDE DEF L
  <2>2. QED
    BY <1>6, <2>1, Zenon
<1>8. IsLines(f)
  BY <1>7, Zenon DEF IsLines, line
<1>9. QED
  BY <1>6, <1>8, Zenon DEF S

\* A name is printed and then its end, or both at once.
LEMMA LineIsJoined ==
    ASSUME NEW S, NEW a \in Seq(S), NEW b \in Seq(S), NEW x \in S
    PROVE  a \o Append(b, x) = (a \o b) \o <<x>>
  OBVIOUS

\* Two such functions end alike.
LEMMA LinesAgree ==
    ASSUME NEW f, NEW h, IsLines(f), IsLines(h)
    PROVE  f[Len(Image.dentries)] = h[Len(Image.dentries)]
<1> DEFINE L == Len(Image.dentries)
           line(i) == Append(EntryName(Image.dentries[i]), "NL")
           T == {i \in Nat : i <= L => f[i] = h[i]}
<1>0. L \in Nat
  BY ConstantFacts, Zenon
<1>1. /\ \A i \in 0 .. L : f[i] = IF i = 0 THEN <<>> ELSE f[i - 1] \o line(i)
      /\ \A i \in 0 .. L : h[i] = IF i = 0 THEN <<>> ELSE h[i - 1] \o line(i)
  BY Zenon DEF IsLines
<1> HIDE DEF line, L
<1>2. 0 \in T
  <2>1. 0 \in 0 .. L
    BY <1>0
  <2>2. f[0] = <<>> /\ h[0] = <<>>
    BY <1>1, <2>1, Zenon
  <2>3. QED
    BY <2>2, Zenon
<1>3. ASSUME NEW i \in Nat, i \in T PROVE i + 1 \in T
  <2>1. SUFFICES ASSUME i + 1 <= L PROVE f[i + 1] = h[i + 1]
    OBVIOUS
  <2>2. f[i] = h[i] /\ i + 1 \in 0 .. L /\ i + 1 # 0 /\ (i + 1) - 1 = i
    BY <1>0, <1>3, <2>1
  <2>3. f[i + 1] = f[i] \o line(i + 1) /\ h[i + 1] = h[i] \o line(i + 1)
    BY <1>1, <2>2, Zenon
  <2>4. QED
    BY <2>2, <2>3, Zenon
<1> HIDE DEF T
<1>4. Nat \subseteq T
  BY <1>2, <1>3, NatSetInduction
<1>5. L \in T
  BY <1>0, <1>4, Zenon
<1>6. QED
  BY <1>0, <1>5 DEF T, L

\* ls prints a line for each entry of the directory.
LEMMA LsIs ==
    ASSUME NEW p \in PCBs, p.fd_entry = SetUp, NEW f, IsLines(f),
           f \in [0 .. Len(Image.dentries) -> Seq(Chars \cup {"NL"})], NEW n
    PROVE  ls(p, n) = Outcome(0, f[Len(Image.dentries)])
<1> DEFINE at == read_dentry_by_name(Image, <<".">>)
           d == Image.dentries[at]
           q == WithEntry(p, 2, OpenEntry(p, 2, d))
           L == Len(Image.dentries)
           P == Along(q, 2, L)
           N == [i \in 0 .. L |-> IF i = L THEN L ELSE i + 1]
           NL == <<"NL">>
<1>1. /\ ~Begins(<<".">>, "stdin") /\ ~Begins(<<".">>, "stdout")
      /\ at # NotFound /\ TableOf(d.file_type) = "directory"
  BY ProgramFacts, TableOfIs, Zenon DEF Begins
<1>2. /\ open(p, <<".">>) = Result(q, 2, <<>>) /\ Opened(q, 2)
      /\ q.fd_entry[2].ops = "directory"
  BY <1>1, Zenon, FirstOpen
<1> HIDE DEF q
<1>3. Result(q, 2, <<>>).pcb = q /\ Result(q, 2, <<>>).value = 2 /\ 2 # -1
  BY DEF Result
<1>4. ls(p, n) = Outcome(0, CopyOut(q, 2, n, NL).out)
  BY <1>2, <1>3, Zenon DEF ls
<1>5. L \in Nat /\ L <= MaxReads /\ 0 \in 0 .. L /\ L \in 0 .. L
  BY ConstantFacts, ProgramFacts
<1>6. \A i \in 0 .. L : f[i] = IF i = 0 THEN <<>> ELSE f[i - 1] \o Append(EntryName(Image.dentries[i]), "NL")
  BY Zenon DEF IsLines
<1>7. f[0] = <<>>
  BY <1>5, <1>6, Zenon
<1>8. ASSUME NEW i \in 1 .. L PROVE f[i] = f[i - 1] \o EntryName(Image.dentries[i]) \o NL
  <2> DEFINE a == f[i - 1]
             b == EntryName(Image.dentries[i])
             T == Chars \cup {"NL"}
  <2>1. i \in 0 .. L /\ i # 0 /\ i - 1 \in 0 .. L
    BY <1>5
  <2>2. f[i] = a \o Append(b, "NL")
    BY <1>6, <2>1, Zenon
  <2>3. a \in Seq(T)
    BY <2>1, Zenon
  <2>4. b \in Seq(Chars)
    BY EntryNameIs, Zenon
  <2> HIDE DEF a, b
  <2>5. b \in Seq(T) /\ NL \in Seq(T) /\ "NL" \in T
    BY <2>4
  <2> HIDE DEF T
  <2>6. a \o Append(b, "NL") = (a \o b) \o <<"NL">>
    BY SMTT(30), <2>3, <2>5, LineIsJoined
  <2>7. QED
    BY <2>2, <2>6, Zenon DEF a, b, NL
<1>9. Goes(P, f, N, L, 2, n, NL)
  <2> HIDE DEF NL
  <2>1. QED
    BY ZenonT(60), <1>2, <1>7, <1>8, DirectoryGoes
<1>10. P[0] = q
  <2> HIDE DEF L
  <2>1. QED
    BY <1>2, <1>5, AlongIs
<1> HIDE DEF P, N, L, NL
<1>11. CopyOut(P[0], 2, n, NL).out = f[L]
  BY <1>5, <1>9, CopyOutIs
<1>12. QED
  BY <1>4, <1>10, <1>11, Zenon DEF L

\* ProgramsPrint: cat prints its file and ls the directory in every program
\* that starts, whatever the earlier programs of its pid did with their
\* descriptors.  It follows from what the inductive invariant says of a program
\* just started: the table is set up and the argument is its own.
THEOREM ProgramsAlwaysPrint == Spec => []ProgramsPrint
<1>1. FdInv => CatPrintsFile
  <2> SUFFICES ASSUME FdInv, Fresh, NamesFile(argument), NEW n \in Counts \ {0}
               PROVE  cat(pcb, n) = CatOutcome(argument)
    BY Zenon DEF CatPrintsFile, CatOutcome
  <2>1. pcb \in PCBs /\ pcb.fd_entry = SetUp /\ pcb.args = argument
    BY Zenon DEF FdInv, Fresh, NamesFile
  <2>2. n \in Int \ {0}
    BY FdTableAssumption, Zenon
  <2>3. QED
    BY <2>1, <2>2, CatIs
<1>2. FdInv => LsPrintsNames
  <2> DEFINE F == CHOOSE f : IsLines(f)
  <2> SUFFICES ASSUME FdInv, Fresh
               PROVE  ls(pcb, MAX_NAME_LENGTH) = Outcome(0, F[Len(Image.dentries)])
    BY Zenon DEF LsPrintsNames, IsLines
  <2>1. pcb \in PCBs /\ pcb.fd_entry = SetUp
    BY Zenon DEF FdInv, Fresh
  <2>2. PICK f \in [0 .. Len(Image.dentries) -> Seq(Chars \cup {"NL"})] : IsLines(f)
    BY LinesExist, Zenon
  <2>3. IsLines(F)
    BY <2>2, Zenon
  <2> HIDE DEF F
  <2>4. F[Len(Image.dentries)] = f[Len(Image.dentries)]
    BY <2>2, <2>3, LinesAgree
  <2>5. ls(pcb, MAX_NAME_LENGTH) = Outcome(0, f[Len(Image.dentries)])
    BY <2>1, <2>2, LsIs
  <2>6. QED
    BY <2>4, <2>5, ZenonT(60)
<1>3. FdInv => ProgramsPrint
  BY <1>1, <1>2 DEF ProgramsPrint
<1>4. QED
  BY <1>3, FdInductive, PTL

(* The tests of ece391syserr *)

\* The entry of the directory in its own table, and the table of p after n
\* opens of the directory.
DotEntry ==
    LET d == Image.dentries[read_dentry_by_name(Image, <<".">>)]
    IN  [ops |-> TableOf(d.file_type), inode_index |-> d.inode_number,
         file_position |-> 0, flags |-> IN_USE]

Lots(p, n) ==
    [fd_entry |-> [i \in Fds |-> IF i \in 2 .. n + 1 THEN DotEntry ELSE p.fd_entry[i]],
     args |-> p.args]

\* err_open_lots' loop, as a fact about the function it computes.
OpenedAgain(s) ==
    LET r == open(s.pcb, <<".">>)
    IN  [pcb |-> r.pcb, cnt |-> s.cnt + (IF r.value = -1 THEN 1 ELSE 0)]

IsOpening(f, p) ==
    f = [n \in 0 .. MAX_FD_NUM - 1 |->
            IF n = 0 THEN [pcb |-> p, cnt |-> 0] ELSE OpenedAgain(f[n - 1])]

\* Its state after n opens: only the last one finds no descriptor.
LotsState(p, n) == [pcb |-> Lots(p, n), cnt |-> IF n = MAX_FD_NUM - 1 THEN 1 ELSE 0]

\* What the assumptions say of the directory's own entry.
LEMMA DotFacts ==
    /\ read_dentry_by_name(Image, <<".">>) \in 1 .. Len(Image.dentries)
    /\ TableOf(Image.dentries[read_dentry_by_name(Image, <<".">>)].file_type) = "directory"
    /\ \A p, i : OpenEntry(p, i, Image.dentries[read_dentry_by_name(Image, <<".">>)]) = DotEntry
    /\ DotEntry \in Entries /\ DotEntry.flags = IN_USE /\ DotEntry.flags # FREE
    /\ ~Begins(<<".">>, "stdin") /\ ~Begins(<<".">>, "stdout")
<1> DEFINE at == read_dentry_by_name(Image, <<".">>)
           d == Image.dentries[at]
<1>1. at # NotFound /\ TableOf(d.file_type) = "directory"
  BY ProgramFacts, TableOfIs, Zenon
<1>2. at \in 1 .. Len(Image.dentries)
  BY <1>1, LookUp
<1>3. d.inode_number \in DOMAIN Image.inodes
  BY <1>2, ConstantFacts
<1>4. DotEntry \in Entries /\ DotEntry.flags = IN_USE /\ DotEntry.flags # FREE
  BY <1>1, <1>3 DEF DotEntry, Entries, FREE, IN_USE
<1>5. \A p, i : OpenEntry(p, i, d) = DotEntry
  BY Zenon DEF DotEntry, OpenEntry
<1>6. ~Begins(<<".">>, "stdin") /\ ~Begins(<<".">>, "stdout")
  BY Zenon DEF Begins
<1>7. QED
  BY <1>1, <1>2, <1>4, <1>5, <1>6

\* The table after n opens, entry by entry.
LEMMA LotsIs ==
    ASSUME NEW p \in PCBs, p.fd_entry = SetUp, NEW n \in 0 .. MAX_FD_NUM - 1
    PROVE  /\ Lots(p, n) \in PCBs /\ StdStreams(Lots(p, n))
           /\ DOMAIN Lots(p, n).fd_entry = Fds /\ Lots(p, n).args = p.args
           /\ \A i \in 2 .. MAX_FD_NUM - 1 :
                Lots(p, n).fd_entry[i] = IF i <= n + 1 THEN DotEntry ELSE FreeEntry
           /\ Lots(p, 0) = p
<1>1. /\ MAX_FD_NUM \in Nat /\ MAX_FD_NUM > 2 /\ n \in Nat /\ n + 1 \in Int
      /\ STDIN \in Fds /\ STDOUT \in Fds /\ STDIN \notin 2 .. n + 1 /\ STDOUT \notin 2 .. n + 1
      /\ \A i \in 2 .. MAX_FD_NUM - 1 : /\ i \in Fds /\ i # STDIN /\ i # STDOUT
                                        /\ i \in 2 .. n + 1 <=> i <= n + 1
  BY ConstantFacts DEF Fds, STDIN, STDOUT
<1>2. /\ SetUp[STDIN] = StdEntry("stdin") /\ SetUp[STDOUT] = StdEntry("stdout")
      /\ \A i \in 2 .. MAX_FD_NUM - 1 : SetUp[i] = FreeEntry
  BY <1>1 DEF SetUp, STDIN, STDOUT
<1>3. p.fd_entry \in [Fds -> Entries] /\ p.args \in Arguments
      /\ p = [fd_entry |-> p.fd_entry, args |-> p.args]
  BY Zenon DEF PCBs
<1>4. Lots(p, n) \in PCBs
  BY <1>3, DotFacts, Zenon DEF Lots, PCBs
<1>5. StdStreams(Lots(p, n))
  BY <1>1, <1>2 DEF Lots, StdStreams
<1>6. \A i \in 2 .. MAX_FD_NUM - 1 :
        Lots(p, n).fd_entry[i] = IF i <= n + 1 THEN DotEntry ELSE FreeEntry
  BY <1>1, <1>2 DEF Lots
<1>7. Lots(p, 0) = p
  <2>1. \A i \in Fds : i \notin 2 .. 0 + 1
    OBVIOUS
  <2>2. [i \in Fds |-> IF i \in 2 .. 0 + 1 THEN DotEntry ELSE p.fd_entry[i]] = p.fd_entry
    BY <1>3, <2>1
  <2>3. QED
    BY <1>3, <2>2, Zenon DEF Lots
<1>8. DOMAIN Lots(p, n).fd_entry = Fds /\ Lots(p, n).args = p.args
  BY Zenon DEF Lots
<1>9. QED
  BY <1>4, <1>5, <1>6, <1>7, <1>8

\* One open more takes the next descriptor, as long as there is one.
LEMMA LotsGoes ==
    ASSUME NEW p \in PCBs, p.fd_entry = SetUp, NEW n \in 0 .. MAX_FD_NUM - 2
    PROVE  OpenedAgain(LotsState(p, n)) = LotsState(p, n + 1)
<1> DEFINE q == Lots(p, n)
           name == <<".">>
           d == Image.dentries[read_dentry_by_name(Image, name)]
<1>1. /\ MAX_FD_NUM \in Nat /\ MAX_FD_NUM > 2 /\ n \in Nat /\ n \in 0 .. MAX_FD_NUM - 1
      /\ n + 1 \in 0 .. MAX_FD_NUM - 1 /\ n # MAX_FD_NUM - 1
  BY ConstantFacts
<1>2. /\ q \in PCBs /\ StdStreams(q)
      /\ \A i \in 2 .. MAX_FD_NUM - 1 : q.fd_entry[i] = IF i <= n + 1 THEN DotEntry ELSE FreeEntry
  BY <1>1, LotsIs
<1>3. LotsState(p, n).pcb = q /\ LotsState(p, n).cnt = 0
  BY <1>1, Zenon DEF LotsState
<1>4. FreeEntry.flags = FREE
  BY Zenon DEF FreeEntry
<1>5. \/ OpenFails(q, name) /\ open(q, name) = Fails(q)
      \/ \E i \in 2 .. MAX_FD_NUM - 1 : OpenTakes(q, name, i)
  BY SMTT(30), <1>2, DotFacts, OpenIs
<1>6. CASE n < MAX_FD_NUM - 2
  <2> DEFINE k == n + 2
  <2>1. k \in 2 .. MAX_FD_NUM - 1 /\ ~(k <= n + 1) /\ k \in Fds
        /\ n + 1 # MAX_FD_NUM - 1
    BY <1>1, <1>6 DEF Fds
  <2>2. q.fd_entry[k].flags = FREE
    BY SMTT(30), <1>2, <1>4, <2>1
  <2>3. ~OpenFails(q, name)
    BY <2>1, <2>2, DotFacts, ConstantFacts DEF OpenFails, NotFound
  <2>4. PICK i \in 2 .. MAX_FD_NUM - 1 : OpenTakes(q, name, i)
    BY SMTT(30), <1>5, <2>3
  <2>5. ~(i <= n + 1)
    BY SMTT(30), <1>2, <2>4, DotFacts DEF OpenTakes
  <2>6. i <= k
    BY <2>1, <2>2, <2>4 DEF OpenTakes
  <2>7. i = k
    BY SMTT(30), <1>1, <2>5, <2>6
  <2>8. open(q, name) = Result(WithEntry(q, k, DotEntry), k, <<>>)
    BY SMTT(30), <2>4, <2>7, DotFacts DEF OpenTakes
  <2>9. WithEntry(q, k, DotEntry) = Lots(p, n + 1)
    <3>1. [q.fd_entry EXCEPT ![k] = DotEntry]
            = [i1 \in Fds |-> IF i1 \in 2 .. (n + 1) + 1 THEN DotEntry ELSE p.fd_entry[i1]]
      <4> DEFINE g == [i1 \in Fds |-> IF i1 \in 2 .. n + 1 THEN DotEntry ELSE p.fd_entry[i1]]
                 h == [i1 \in Fds |-> IF i1 \in 2 .. (n + 1) + 1 THEN DotEntry ELSE p.fd_entry[i1]]
      <4>1. q.fd_entry = g
        BY Zenon DEF Lots
      <4>2. \A i1 \in Fds : i1 \in 2 .. (n + 1) + 1 <=> i1 \in 2 .. n + 1 \/ i1 = k
        BY <1>1 DEF Fds
      <4> HIDE DEF k
      <4>3. \A i1 \in Fds : [g EXCEPT ![k] = DotEntry][i1] = h[i1]
        BY <2>1, <4>2
      <4>4. QED
        BY <4>1, <4>3
    <3>2. q.args = p.args
      BY Zenon DEF Lots
    <3> HIDE DEF q
    <3>3. QED
      BY <3>1, <3>2 DEF WithEntry, Lots
  <2>10. QED
    BY SMTT(30), <1>1, <1>3, <2>1, <2>8, <2>9 DEF OpenedAgain, LotsState, Result
<1>7. CASE n = MAX_FD_NUM - 2
  <2>1. \A i \in 2 .. MAX_FD_NUM - 1 : i <= n + 1 /\ q.fd_entry[i].flags # FREE
    <3>1. \A i \in 2 .. MAX_FD_NUM - 1 : i <= n + 1
      BY <1>1, <1>7
    <3>2. DotEntry.flags # FREE
      BY Zenon, DotFacts
    <3>3. QED
      BY Zenon, <1>2, <3>1, <3>2
  <2>2. \A i : ~OpenTakes(q, name, i)
    BY <2>1, Zenon DEF OpenTakes
  <2>3. open(q, name) = Fails(q)
    BY <1>5, <2>2
  <2>4. Lots(p, n + 1) = q
    <3>1. \A i \in Fds : i \in 2 .. (n + 1) + 1 <=> i \in 2 .. n + 1
      BY SMTT(30), <1>1, <1>7 DEF Fds
    <3>2. QED
      BY <3>1, Zenon DEF Lots
  <2>5. QED
    BY <1>1, <1>3, <1>7, <2>3, <2>4 DEF OpenedAgain, LotsState, Fails, Result
<1>8. QED
  BY <1>1, <1>6, <1>7

\* err_open_lots passes and closes what it opened.
LEMMA OpenLotsIs ==
    ASSUME NEW p \in PCBs, p.fd_entry = SetUp
    PROVE  err_open_lots(p).value = 0 /\ err_open_lots(p).pcb = p
<1> DEFINE M == MAX_FD_NUM - 1
           F == CHOOSE f : IsOpening(f, p)
           h == [n \in 0 .. M |-> LotsState(p, n)]
<1>1. M \in Nat /\ M > 1 /\ MAX_FD_NUM \in Nat
  BY ConstantFacts
<1>2. err_open_lots(p) = [value |-> Verdict(F[M].cnt = 1), pcb |-> CloseAll(F[M].pcb)]
  BY Zenon DEF err_open_lots, IsOpening, OpenedAgain
<1>3. LotsState(p, 0) = [pcb |-> p, cnt |-> 0]
  <2>1. 0 \in 0 .. MAX_FD_NUM - 1 /\ 0 # MAX_FD_NUM - 1
    BY <1>1
  <2>2. Lots(p, 0) = p
    BY <2>1, LotsIs
  <2>3. QED
    BY <2>1, <2>2 DEF LotsState
<1>4. IsOpening(h, p)
  <2>1. ASSUME NEW n \in 0 .. M
        PROVE  h[n] = IF n = 0 THEN [pcb |-> p, cnt |-> 0] ELSE OpenedAgain(h[n - 1])
    <3>1. CASE n = 0
      BY <1>3, <3>1, Zenon
    <3>2. CASE n # 0
      <4>1. n - 1 \in 0 .. MAX_FD_NUM - 2 /\ n - 1 \in 0 .. M /\ (n - 1) + 1 = n
        BY <1>1, <3>2
      <4>2. OpenedAgain(LotsState(p, n - 1)) = LotsState(p, (n - 1) + 1)
        BY <4>1, LotsGoes
      <4>3. h[n - 1] = LotsState(p, n - 1) /\ h[n] = LotsState(p, n)
        BY <4>1, Zenon
      <4>4. QED
        BY <3>2, <4>1, <4>2, <4>3, Zenon
    <3>3. QED
      BY <3>1, <3>2, Zenon
  <2> HIDE DEF h
  <2>2. DOMAIN h = 0 .. M /\ h = [n \in DOMAIN h |-> h[n]]
    BY Zenon DEF h
  <2>3. QED
    BY <2>1, <2>2, Zenon DEF IsOpening
<1>5. IsOpening(F, p)
  BY <1>4, Zenon
<1>6. \A n \in 0 .. M : F[n] = IF n = 0 THEN [pcb |-> p, cnt |-> 0] ELSE OpenedAgain(F[n - 1])
  <2> HIDE DEF F
  <2>1. QED
    BY <1>5, Zenon DEF IsOpening
<1> HIDE DEF F, h
<1> DEFINE T == {n \in Nat : n <= M => F[n] = LotsState(p, n)}
<1>7. 0 \in T
  <2>1. 0 \in 0 .. M
    BY <1>1
  <2>2. QED
    BY <1>3, <1>6, <2>1
<1>8. ASSUME NEW n \in Nat, n \in T PROVE n + 1 \in T
  <2>1. SUFFICES ASSUME n + 1 <= M PROVE F[n + 1] = LotsState(p, n + 1)
    OBVIOUS
  <2>2. /\ F[n] = LotsState(p, n) /\ n \in 0 .. MAX_FD_NUM - 2
        /\ n + 1 \in 0 .. M /\ n + 1 # 0 /\ (n + 1) - 1 = n
    BY <1>1, <1>8, <2>1
  <2>3. F[n + 1] = OpenedAgain(F[n])
    BY <1>6, <2>2, Zenon
  <2>4. OpenedAgain(LotsState(p, n)) = LotsState(p, n + 1)
    BY <2>2, LotsGoes
  <2>5. QED
    BY <2>2, <2>3, <2>4, Zenon
<1> HIDE DEF T
<1>9. Nat \subseteq T
  BY <1>7, <1>8, NatSetInduction
<1>10. F[M] = LotsState(p, M)
  BY <1>1, <1>9 DEF T
<1>11. F[M].cnt = 1 /\ F[M].pcb = Lots(p, M)
  BY SMTT(30), <1>10 DEF LotsState
<1> DEFINE q == Lots(p, M)
<1>12. /\ q \in PCBs /\ StdStreams(q) /\ DOMAIN q.fd_entry = Fds /\ q.args = p.args
       /\ \A i \in 2 .. MAX_FD_NUM - 1 : q.fd_entry[i].flags = IN_USE
  <2>1. M \in 0 .. MAX_FD_NUM - 1 /\ \A i \in 2 .. MAX_FD_NUM - 1 : i <= M + 1
    BY <1>1
  <2>2. /\ q \in PCBs /\ StdStreams(q) /\ DOMAIN q.fd_entry = Fds /\ q.args = p.args
        /\ \A i \in 2 .. MAX_FD_NUM - 1 : q.fd_entry[i] = IF i <= M + 1 THEN DotEntry ELSE FreeEntry
    <3> HIDE DEF M
    <3>1. QED
      BY <2>1, LotsIs, Zenon
  <2>3. QED
    BY Zenon, <2>1, <2>2, DotFacts
<1>13. CloseAll(q) = Closed(q, MAX_FD_NUM)
  BY <1>12, CloseAllIs
<1> HIDE DEF q
<1>14. [i \in Fds |-> IF i \in 2 .. MAX_FD_NUM - 1 /\ q.fd_entry[i].flags = IN_USE
                     THEN FreeEntry ELSE q.fd_entry[i]] = SetUp
  <2>1. \A i \in Fds : i = STDIN \/ i = STDOUT \/ i \in 2 .. MAX_FD_NUM - 1
    BY <1>1 DEF Fds, STDIN, STDOUT
  <2>2. STDIN \notin 2 .. MAX_FD_NUM - 1 /\ STDOUT \notin 2 .. MAX_FD_NUM - 1 /\ STDIN # STDOUT
    BY DEF STDIN, STDOUT
  <2>3. q.fd_entry[STDIN] = StdEntry("stdin") /\ q.fd_entry[STDOUT] = StdEntry("stdout")
    BY <1>12, Zenon DEF StdStreams
  <2>4. QED
    BY <1>12, <2>1, <2>2, <2>3 DEF SetUp
<1>15. Closed(q, MAX_FD_NUM) = p
  <2>1. p = [fd_entry |-> SetUp, args |-> p.args]
    BY Zenon DEF PCBs
  <2>2. QED
    BY <1>12, <1>14, <2>1, ZenonT(60) DEF Closed
<1>16. Verdict(F[M].cnt = 1) = 0
  BY <1>11 DEF Verdict
<1>17. QED
  BY SMTT(30), <1>2, <1>11, <1>13, <1>15, <1>16 DEF q

\* A descriptor out of range is refused by every call.
LEMMA BadFdIs ==
    ASSUME NEW p, NEW fd, fd \notin Fds PROVE BadFd(p, fd) = 0
<1>1. ~CanClose(p, fd)
  BY Zenon DEF CanClose
<1>2. /\ read(p, fd, 31) = Fails(p) /\ write(p, fd, 31) = Fails(p) /\ close(p, fd) = Fails(p)
  BY <1>1, Zenon DEF read, write, close
<1>3. Fails(p).value = -1
  BY Zenon DEF Fails, Result
<1>4. QED
  BY <1>2, <1>3, Zenon DEF BadFd, Verdict

\* None of the names err_open tries is in the directory, and a table with its
\* standard streams alone stays as it is.
LEMMA ErrOpenIs ==
    ASSUME NEW p \in PCBs, p.fd_entry = SetUp PROVE err_open(p, Longer, Shorter) = 0
<1>1. read_dentry_by_name(Image, <<>>) = NotFound
  <2>1. \A i \in 1 .. Len(Image.dentries) : ~Matches(Image.dentries[i], <<>>)
    <3> SUFFICES ASSUME NEW i \in 1 .. Len(Image.dentries) PROVE ~Matches(Image.dentries[i], <<>>)
      BY Zenon
    <3>1. Image.dentries[i].file_name[1] # Nul
      BY ProgramFacts, Zenon
    <3>2. Smaller(Len(<<>>), MAX_NAME_LENGTH) = 0 /\ 0 < MAX_NAME_LENGTH /\ 0 + 1 = 1
      BY FileSystemAssumption DEF Smaller
    <3> DEFINE e == Image.dentries[i]
    <3> HIDE DEF e
    <3>3. Matches(e, <<>>) => e.file_name[1] = Nul
      BY <3>2 DEF Matches
    <3>4. QED
      BY <3>1, <3>3 DEF e
  <2>2. QED
    BY <2>1, LookUp
<1>2. \A name \in {Longer, Shorter, <<>>} :
        /\ read_dentry_by_name(Image, name) = NotFound
        /\ ~Begins(name, "stdin") /\ ~Begins(name, "stdout")
  <2>1. /\ ~Begins(Longer, "stdin") /\ ~Begins(Longer, "stdout")
        /\ ~Begins(Shorter, "stdin") /\ ~Begins(Shorter, "stdout")
        /\ ~Begins(<<>>, "stdin") /\ ~Begins(<<>>, "stdout")
    BY Zenon DEF Begins, Longer, Shorter
  <2>2. QED
    BY <1>1, <2>1, ProgramFacts, Zenon
<1>3. ASSUME NEW name \in {Longer, Shorter, <<>>} PROVE open(p, name).value = -1
  <2>1. open(p, name) = Fails(p)
    BY Zenon, <1>2, FirstOpen
  <2>2. QED
    BY SMTT(30), <2>1 DEF Fails, Result
<1>4. QED
  BY <1>3, Zenon DEF err_open, Verdict

\* A table with its standard streams alone has nothing else to close, to read
\* or to write.
LEMMA ErrUnopenedIs ==
    ASSUME NEW p \in PCBs, p.fd_entry = SetUp PROVE err_unopened(p) = 0
<1>1. /\ \A fd \in Fds : fd >= 2 => fd \in 2 .. MAX_FD_NUM - 1
      /\ \A fd \in 2 .. MAX_FD_NUM - 1 : fd \in Fds /\ fd # STDIN /\ fd # STDOUT
  BY ConstantFacts DEF Fds, STDIN, STDOUT
<1>2. \A fd \in 2 .. MAX_FD_NUM - 1 : p.fd_entry[fd].flags = FREE
  BY <1>1 DEF SetUp, FreeEntry
<1>3. Fails(p).value = -1
  BY Zenon DEF Fails, Result
<1>4. \A fd \in Fds : close(p, fd).value = -1
  <2>1. \A fd \in Fds : ~CanClose(p, fd)
    BY <1>1, <1>2 DEF CanClose, FREE, IN_USE
  <2>2. QED
    BY <1>3, <2>1, Zenon DEF close
<1>5. \A fd \in 2 .. MAX_FD_NUM - 1 : read(p, fd, 31).value = -1 /\ write(p, fd, 31).value = -1
  BY <1>1, <1>2, <1>3 DEF read, write
<1>6. QED
  BY <1>4, <1>5, Zenon DEF err_unopened, Verdict

\* SyserrPasses: every test of ece391syserr passes in every program that starts.
\* The table is set up whatever the earlier programs of the pid left open, and
\* err_open_lots gives back what it took, so that the tests after it find the
\* table as it was.
THEOREM SyserrAlwaysPasses == Spec => []SyserrPasses
<1>1. FdInv => SyserrPasses
  <2> SUFFICES ASSUME FdInv, Fresh PROVE syserr_all(pcb, Longer, Shorter) = 0
    BY DEF SyserrPasses
  <2>1. pcb \in PCBs /\ pcb.fd_entry = SetUp /\ StdStreams(pcb)
    BY DEF FdInv, Fresh
  <2>2. err_neg_fd(pcb) = 0 /\ err_big_fd(pcb) = 0
    <3>1. -1073741823 \notin Fds /\ 1073741823 \notin Fds
      BY ConstantFacts, ProgramsAssumption DEF Fds
    <3>2. QED
      BY <3>1, BadFdIs DEF err_neg_fd, err_big_fd
  <2>3. err_open_lots(pcb).value = 0 /\ err_open_lots(pcb).pcb = pcb
    BY <2>1, OpenLotsIs
  <2>4. err_open(pcb, Longer, Shorter) = 0 /\ err_unopened(pcb) = 0
    BY <2>1, ErrOpenIs, ErrUnopenedIs
  <2>5. err_vidmap = 0
    BY DEF err_vidmap, Verdict, vidmap, VIRTUAL_BLOCK_TOP, VIRTUAL_BLOCK_BOTTOM
  <2>6. err_stdin_out(pcb) = 0
    <3>1. write(pcb, STDIN, 31) = Fails(pcb) /\ read(pcb, STDOUT, 31) = Fails(pcb)
      BY Zenon DEF write, read
    <3>2. QED
      BY <3>1 DEF err_stdin_out, Verdict, Fails, Result
  <2>7. err_syscall_num = 0
    BY DEF err_syscall_num, Verdict, sys_handler_accepts
  <2>8. QED
    BY <2>2, <2>3, <2>4, <2>5, <2>6, <2>7 DEF syserr_all
<1>2. QED
  BY <1>1, FdInductive, PTL
=============================================================================
