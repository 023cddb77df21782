---------------------------- MODULE LoaderProofs ----------------------------
(***************************************************************************)
(* Proofs about the routines that read files: the driver against what it   *)
(* is for, what execute takes from a command line, and what it loads.      *)
(***************************************************************************)
EXTENDS FileProofs, MCFileSystem, MCLoader

-----------------------------------------------------------------------------
(* The driver, against what it is for *)

\* The calls of the file system.
FileCalls == call = None /\ result = <<>> /\ [][CallReadData \/ CallByName]_<<call, result>>

\* A position below a number of blocks is in one of them.
LEMMA InBlock ==
    ASSUME NEW K \in Nat \ {0}, NEW D \in Nat, NEW i \in 0 .. K * D - 1
    PROVE  i \div K \in 0 .. D - 1 /\ i % K \in 0 .. K - 1
<1> DEFINE q == i \div K
           r == i % K
<1>1. q \in Nat /\ r \in 0 .. K - 1 /\ i = K * q + r /\ K * D \in Nat
  OBVIOUS
<1> HIDE DEF q, r
<1>2. ASSUME q >= D PROVE FALSE
  <2>1. q - D \in Nat
    BY <1>1, <1>2
  <2>2. K * (q - D) \in Nat
    BY <2>1
  <2>3. K * q = K * D + K * (q - D)
    BY <1>1
  <2>4. QED
    BY <1>1, <2>2, <2>3
<1>3. q < D
  BY SMTT(30), <1>1, <1>2
<1>4. QED
  BY <1>1, <1>3 DEF q, r

\* The bytes of a file of the image are those of its blocks.
LEMMA FileOfBlocks ==
    ASSUME NEW n, NEW len \in 0 .. Longest, NEW nums \in BlockLists, NEW i \in 0 .. len - 1
    PROVE  LET img == ImageOf(n, len, nums)
           IN  ByteAt(img, img.inodes[0], i) =
                 img.blocks[img.inodes[0].data_block_numbers[i \div FOUR_KB]][i % FOUR_KB]
<1> DEFINE img == ImageOf(n, len, nums)
           inode == img.inodes[0]
<1>1. inode.length = len /\ inode.data_block_numbers = nums /\ DOMAIN img.blocks = 0 .. MaxBlocks - 1
  BY Zenon DEF ImageOf
<1>2. i \div FOUR_KB \in 0 .. DATA_BLOCK_COUNT - 1
  <2>1. FOUR_KB * DATA_BLOCK_COUNT \in Nat
    BY FileSystemAssumption
  <2>2. i \in 0 .. FOUR_KB * DATA_BLOCK_COUNT - 1
    BY <2>1 DEF Longest
  <2>3. QED
    BY Zenon, <2>2, FileSystemAssumption, InBlock
<1> DEFINE k == i \div FOUR_KB
           j == i % FOUR_KB
<1> HIDE DEF img, k, j
<1>3. k \in 0 .. DATA_BLOCK_COUNT - 1 /\ k < DATA_BLOCK_COUNT
  BY <1>2, FileSystemAssumption DEF k
<1>4. nums[k] \in 0 .. MaxBlocks - 1
  BY <1>3, Zenon DEF BlockLists
<1>5. BlockNumber(inode, k) = nums[k]
  BY <1>1, <1>3, Zenon DEF BlockNumber
<1>6. Byte(img, BlockNumber(inode, k), j) = img.blocks[inode.data_block_numbers[k]][j]
  BY <1>1, <1>4, <1>5, Zenon DEF Byte
<1>7. QED
  BY Zenon, <1>6 DEF ByteAt, img, k, j

\* A read of a file of the image gives that part of its bytes.
LEMMA ReadIsPart ==
    ASSUME NEW n, NEW len \in 0 .. Longest, NEW nums \in BlockLists,
           NEW offset \in 0 .. Longest + 1, NEW length \in -1 .. Longest + 1
    PROVE  LET img == ImageOf(n, len, nums)
               file == [i \in 1 .. len |-> img.blocks[img.inodes[0].data_block_numbers[(i - 1) \div FOUR_KB]]
                                                    [(i - 1) % FOUR_KB]]
               room == IF length = -1 THEN Longest ELSE length
           IN  read_data(img, 0, offset, length) =
                 SubSeq(file, offset + 1, Smaller(Len(file), offset + room))
<1> DEFINE img == ImageOf(n, len, nums)
           inode == img.inodes[0]
           byte(i) == img.blocks[inode.data_block_numbers[(i - 1) \div FOUR_KB]][(i - 1) % FOUR_KB]
           file == [i \in 1 .. len |-> byte(i)]
           room == IF length = -1 THEN Longest ELSE length
           end == Smaller(len, offset + room)
           m == Count(inode, offset, length)
<1>1. Longest \in Nat
  BY FileSystemAssumption DEF Longest
<1>2. inode.length = len
  BY Zenon DEF ImageOf
<1>3. file = Stretch(img, inode, 0, len)
  <2>1. \A i \in 1 .. len : byte(i) = Nth(img, inode, 0, i)
    <3> SUFFICES ASSUME NEW i \in 1 .. len PROVE byte(i) = Nth(img, inode, 0, i)
      BY Zenon
    <3>1. i - 1 \in 0 .. len - 1 /\ 0 + i - 1 = i - 1
      BY SMTT(30), <1>1
    <3>2. ByteAt(img, inode, i - 1) = byte(i)
      BY Zenon, <3>1, FileOfBlocks
    <3> HIDE DEF img, byte
    <3>3. QED
      BY <3>1, <3>2, Zenon DEF Nth
  <2> HIDE DEF img, byte
  <2>2. QED
    BY <2>1, Zenon DEF Stretch
<1> HIDE DEF img, byte
<1>4. read_data(img, 0, offset, length) = Stretch(img, inode, offset, m)
  <2>1. offset \in Nat /\ length \in Int /\ inode.length \in Nat
    BY <1>1, <1>2
  <2> HIDE DEF m
  <2>2. QED
    BY <2>1, ReadDataCopies, Zenon DEF m
<1>5. Len(file) = len
  BY SMTT(30), <1>1
<1>6. CASE offset >= len
  <2>1. m = 0
    BY <1>2, <1>6, Zenon DEF Count
  <2>2. Stretch(img, inode, offset, 0) = <<>>
    BY DEF Stretch
  <2>3. end \in Int /\ offset + 1 \in Int /\ end < offset + 1
    BY <1>1, <1>6 DEF Smaller
  <2> HIDE DEF m, end, file
  <2>4. SubSeq(file, offset + 1, end) = <<>>
    BY <2>3, SubSeqEmpty, Zenon
  <2>5. QED
    BY Zenon, <1>4, <1>5, <2>1, <2>2, <2>4 DEF end, file, img, byte
<1>7. CASE offset < len
  <2>1. end = offset + m /\ m \in 0 .. len - offset /\ offset \in 0 .. len
    BY <1>1, <1>2, <1>7 DEF Count, Smaller
  <2> HIDE DEF m, end
  <2>2. SubSeq(Stretch(img, inode, 0, len), offset + 1, offset + m) = Stretch(img, inode, offset, m)
    <3>1. len \in Nat
      BY <1>1
    <3> HIDE DEF inode
    <3>2. QED
      BY Zenon, <2>1, <3>1, StretchPart
  <2> HIDE DEF file
  <2>3. SubSeq(file, offset + 1, end) = read_data(img, 0, offset, length)
    BY <1>3, <1>4, <2>1, <2>2, Zenon
  <2>4. QED
    BY Zenon, <1>5, <2>3 DEF end, file, img, byte
<1>8. offset >= len \/ offset < len
  BY <1>1
<1>9. QED
  BY <1>6, <1>7, <1>8, Zenon

\* ReadsTheFile after a read.
LEMMA ReadDataStep == CallReadData => ReadsTheFile' /\ call'.op = "read_data"
<1> SUFFICES ASSUME CallReadData PROVE ReadsTheFile' /\ call'.op = "read_data"
  BY Zenon
<1>1. PICK len \in 0 .. Longest, nums \in BlockLists, offset \in 0 .. Longest + 1,
           length \in -1 .. Longest + 1 :
        Does([op |-> "read_data", img |-> ImageOf(<<<<"a">>, <<"b">>>>, len, nums), offset |-> offset,
              length |-> IF length = -1 THEN Longest ELSE length],
             read_data(ImageOf(<<<<"a">>, <<"b">>>>, len, nums), 0, offset, length))
  BY Zenon DEF CallReadData
<1> DEFINE n == <<<<"a">>, <<"b">>>>
           img == ImageOf(n, len, nums)
           room == IF length = -1 THEN Longest ELSE length
           file == [i \in 1 .. len |-> img.blocks[img.inodes[0].data_block_numbers[(i - 1) \div FOUR_KB]]
                                                [(i - 1) % FOUR_KB]]
<1>2. /\ call' = [op |-> "read_data", img |-> img, offset |-> offset, length |-> room]
      /\ result' = read_data(img, 0, offset, length)
  BY <1>1, Zenon DEF Does
<1>3. read_data(img, 0, offset, length) = SubSeq(file, offset + 1, Smaller(Len(file), offset + room))
  BY ZenonT(60), ReadIsPart
<1>4. img.inodes[0].length = len
  BY Zenon DEF ImageOf
<1> HIDE DEF img, room
<1>5. call'.op = "read_data" /\ call'.img = img /\ call'.offset = offset /\ call'.length = room
  BY <1>2, Zenon
<1>6. FileBytesOf' = file
  BY Zenon, <1>4, <1>5 DEF FileBytesOf
<1> HIDE DEF file
<1>7. QED
  BY <1>2, <1>3, <1>5, <1>6, Zenon DEF ReadsTheFile

\* FindsByName after a look-up.
LEMMA ByNameStep == CallByName => FindsByName' /\ call'.op = "by_name"
<1> SUFFICES ASSUME CallByName PROVE FindsByName' /\ call'.op = "by_name"
  BY Zenon
<1> DEFINE nums == [i \in 0 .. DATA_BLOCK_COUNT - 1 |-> 0]
<1>1. PICK n \in Directories, name \in Asked :
        Does([op |-> "by_name", img |-> ImageOf(n, 0, nums), name |-> name],
             <<read_dentry_by_name(ImageOf(n, 0, nums), name)>>)
  BY Zenon DEF CallByName
<1> DEFINE img == ImageOf(n, 0, nums)
           C == {"a", "b"}
           at == read_dentry_by_name(img, name)
           asked == Padded(SubSeq(name, 1, Smaller(Len(name), MAX_NAME_LENGTH)))
           where == {i \in 1 .. Len(img.dentries) : img.dentries[i].file_name = asked}
<1>2. \A s \in Asked : s \in Seq(C)
  <2>1. /\ <<"a">> \in Seq(C) /\ <<"b">> \in Seq(C) /\ <<"a", "b">> \in Seq(C)
        /\ <<"a", "b", "a">> \in Seq(C)
    OBVIOUS
  <2>2. /\ <<>> \in Seq(C) /\ <<"b", "b">> \in Seq(C) /\ <<"a", "b", "a", "b">> \in Seq(C)
        /\ <<"a", "b", "b", "b">> \in Seq(C)
    OBVIOUS
  <2> HIDE DEF C
  <2>3. QED
    BY <2>1, <2>2, Zenon DEF Asked, ShortNames
<1>3. n[1] \in Seq(C) /\ n[2] \in Seq(C)
  <2>1. n[1] \in ShortNames /\ n[2] \in ShortNames
    BY Zenon DEF Directories
  <2>2. QED
    BY <1>2, <2>1, Zenon DEF Asked
<1>4. HasNames(img, C)
  <2>1. Len(img.dentries) = 2 /\ img.dentries[1].file_name = Padded(n[1])
        /\ img.dentries[2].file_name = Padded(n[2])
    BY Zenon DEF ImageOf, Entry
  <2> HIDE DEF img
  <2>2. QED
    BY <1>3, <2>1 DEF HasNames, Nul
<1>5. /\ call' = [op |-> "by_name", img |-> img, name |-> name] /\ result' = <<at>>
  BY <1>1, Zenon DEF Does
<1> HIDE DEF img
<1>6. \/ at = NotFound /\ \A i \in 1 .. Len(img.dentries) : img.dentries[i].file_name # asked
      \/ at \in 1 .. Len(img.dentries) /\ img.dentries[at].file_name = asked
  BY <1>2, <1>4, LookUpFinds, Zenon
<1>7. call'.op = "by_name" /\ call'.img = img /\ call'.name = name /\ result'[1] = at
  BY <1>5, Zenon
<1> HIDE DEF at, asked
<1>8. IF where = {} THEN result' = <<NotFound>> ELSE result'[1] \in where
  BY <1>5, <1>6, <1>7, Zenon
<1>9. QED
  BY <1>7, <1>8, Zenon DEF FindsByName, asked

\* ReadsAndFinds: for every size of block, number of blocks and room for a name,
\* a read gives the bytes of the file and a look-up its entry.
THEOREM FilesAreFound == FileCalls => []ReadsAndFinds
<1>1. call = None => ReadsAndFinds
  BY DEF None, ReadsAndFinds, ReadsTheFile, FindsByName
<1>2. ReadsAndFinds /\ [CallReadData \/ CallByName]_<<call, result>> => ReadsAndFinds'
  <2> SUFFICES ASSUME ReadsAndFinds, [CallReadData \/ CallByName]_<<call, result>>
               PROVE  ReadsAndFinds'
    BY Zenon
  <2>1. CASE CallReadData
    <3>1. ReadsTheFile' /\ call'.op = "read_data"
      BY <2>1, ReadDataStep, Zenon
    <3>2. FindsByName'
      BY <3>1, Zenon DEF FindsByName
    <3>3. QED
      BY <3>1, <3>2, Zenon DEF ReadsAndFinds
  <2>2. CASE CallByName
    <3>1. FindsByName' /\ call'.op = "by_name"
      BY <2>2, ByNameStep, Zenon
    <3>2. ReadsTheFile'
      BY <3>1, Zenon DEF ReadsTheFile
    <3>3. QED
      BY <3>1, <3>2, Zenon DEF ReadsAndFinds
  <2>3. CASE UNCHANGED <<call, result>>
    BY Zenon, <2>3 DEF ReadsAndFinds, ReadsTheFile, FindsByName, FileBytesOf
  <2>4. QED
    BY <2>1, <2>2, <2>3, Zenon
<1>3. QED
  BY <1>1, <1>2, PTL DEF FileCalls

-----------------------------------------------------------------------------
(* What execute loads *)

\* A page with the first m bytes of a file in it.
Loaded(img, inode, page, m) ==
    [a \in DOMAIN page |-> IF a \in 0 .. m - 1 THEN ByteAt(img, inode, a) ELSE page[a]]

\* A piece goes behind what is loaded already.
LEMMA PieceIsCopied ==
    ASSUME NEW img, NEW inode, NEW page, NEW o \in Nat, NEW c \in Nat, NEW i, i * BUF_SIZE = o
    PROVE  CopyPiece(Loaded(img, inode, page, o), i, Stretch(img, inode, o, c))
             = Loaded(img, inode, page, o + c)
<1> DEFINE piece == Stretch(img, inode, o, c)
           before == Loaded(img, inode, page, o)
<1>1. Len(piece) = c /\ \A k \in 1 .. c : piece[k] = ByteAt(img, inode, o + k - 1)
  <2>1. Len(piece) = c /\ \A k \in 1 .. c : piece[k] = Nth(img, inode, o, k)
    BY Zenon, StretchIs
  <2> HIDE DEF piece
  <2>2. QED
    BY <2>1, Zenon DEF Nth
<1>2. /\ DOMAIN before = DOMAIN page
      /\ \A a \in DOMAIN page : before[a] = IF a \in 0 .. o - 1 THEN ByteAt(img, inode, a) ELSE page[a]
  BY Zenon DEF Loaded
<1> HIDE DEF piece, before
<1>3. \A a \in DOMAIN page :
        (IF a \in o .. o + c - 1 THEN piece[a - o + 1] ELSE before[a])
          = IF a \in 0 .. (o + c) - 1 THEN ByteAt(img, inode, a) ELSE page[a]
  <2> SUFFICES ASSUME NEW a \in DOMAIN page
               PROVE  (IF a \in o .. o + c - 1 THEN piece[a - o + 1] ELSE before[a])
                        = IF a \in 0 .. (o + c) - 1 THEN ByteAt(img, inode, a) ELSE page[a]
    BY Zenon
  <2>1. CASE a \in o .. o + c - 1
    <3>1. a - o + 1 \in 1 .. c /\ o + (a - o + 1) - 1 = a /\ a \in 0 .. (o + c) - 1
      BY <2>1
    <3>2. piece[a - o + 1] = ByteAt(img, inode, o + (a - o + 1) - 1)
      BY <1>1, <3>1, Zenon
    <3>3. QED
      BY <2>1, <3>1, <3>2, Zenon
  <2>2. CASE a \notin o .. o + c - 1
    <3>1. a \in 0 .. o - 1 <=> a \in 0 .. (o + c) - 1
      BY <2>2
    <3>2. QED
      BY <1>2, <2>2, <3>1, Zenon
  <2>3. QED
    BY <2>1, <2>2, Zenon
<1>4. CopyPiece(before, i, piece) =
        [a \in DOMAIN page |-> IF a \in o .. o + c - 1 THEN piece[a - o + 1] ELSE before[a]]
  BY <1>1, <1>2, Zenon DEF CopyPiece
<1>5. QED
  BY <1>3, <1>4, Zenon DEF Loaded, piece, before

\* load's loop, as a fact about the function it computes.
LoadRound(img, number, page, i) ==
    LET piece == read_data(img, number, i * BUF_SIZE, BUF_SIZE)
    IN  IF piece = <<>> THEN page ELSE CopyPiece(page, i, piece)

IsLoading(f, img, page, number) ==
    f = [i \in 0 .. img.inodes[number].length |->
            IF i = 0 THEN page ELSE LoadRound(img, number, f[i - 1], i - 1)]

\* A round of it: the next piece is loaded, up to the end of the file.
LEMMA LoadRoundIs ==
    ASSUME NEW img, NEW number, img.inodes[number].length \in Nat, NEW page, NEW i \in Nat
    PROVE  LET inode == img.inodes[number]
           IN  LoadRound(img, number, Loaded(img, inode, page, Smaller(i * BUF_SIZE, inode.length)), i)
                 = Loaded(img, inode, page, Smaller((i + 1) * BUF_SIZE, inode.length))
<1> DEFINE inode == img.inodes[number]
           L == inode.length
           o == i * BUF_SIZE
           c == Count(inode, o, BUF_SIZE)
           piece == read_data(img, number, o, BUF_SIZE)
           up == Smaller(o, L)
<1>1. o \in Nat /\ (i + 1) * BUF_SIZE = o + BUF_SIZE /\ BUF_SIZE \in Nat /\ BUF_SIZE > 0
  BY LoaderAssumption
<1>2. piece = Stretch(img, inode, o, c)
  <2>1. inode.length \in Nat /\ BUF_SIZE \in Int
    BY <1>1
  <2> HIDE DEF o, c
  <2>2. QED
    BY Zenon, <1>1, <2>1, ReadDataCopies DEF c
<1>0. L \in Nat /\ inode.length = L
  BY Zenon
<1> HIDE DEF o, L
<1>3. CASE o >= L
  <2>1. c = 0 /\ up = L /\ Smaller(o + BUF_SIZE, L) = L
    BY <1>0, <1>1, <1>3 DEF Count, Smaller
  <2>2. piece = <<>>
    BY <1>2, <2>1 DEF Stretch
  <2> HIDE DEF up
  <2>3. QED
    BY <1>1, <2>1, <2>2, Zenon DEF LoadRound, o, up, L
<1>4. CASE o < L
  <2>1. c \in Nat /\ c > 0 /\ up = o /\ Smaller(o + BUF_SIZE, L) = o + c
    BY <1>0, <1>1, <1>4 DEF Count, Smaller
  <2>2. Len(Stretch(img, inode, o, c)) = c
    <3> HIDE DEF c
    <3>1. QED
      BY Zenon, <1>1, <2>1, StretchIs
  <2>3. piece # <<>>
    BY <1>2, <2>1, <2>2
  <2>4. CopyPiece(Loaded(img, inode, page, o), i, Stretch(img, inode, o, c))
          = Loaded(img, inode, page, o + c)
    <3> HIDE DEF c, inode
    <3>1. i * BUF_SIZE = o
      BY Zenon DEF o
    <3>2. QED
      BY <1>1, <2>1, <3>1, PieceIsCopied
  <2> HIDE DEF up, c, piece
  <2>5. LoadRound(img, number, Loaded(img, inode, page, up), i)
          = CopyPiece(Loaded(img, inode, page, up), i, piece)
    BY <2>3, Zenon DEF LoadRound, piece, o
  <2>6. LoadRound(img, number, Loaded(img, inode, page, up), i) = Loaded(img, inode, page, o + c)
    BY <1>2, <2>1, <2>4, <2>5, Zenon
  <2>7. QED
    BY <1>1, <2>1, <2>6, Zenon DEF up, o, L
<1>5. QED
  BY <1>0, <1>1, <1>3, <1>4

\* load copies a file from its first to its last byte, whatever the size of the
\* pieces, and leaves the rest of the page.
THEOREM LoadCopies ==
    ASSUME NEW img, NEW number, img.inodes[number].length \in Nat, NEW page,
           page = [a \in DOMAIN page |-> page[a]]
    PROVE  load(img, page, number)
             = Loaded(img, img.inodes[number], page, img.inodes[number].length)
<1> DEFINE inode == img.inodes[number]
           L == inode.length
           At1(i) == Loaded(img, inode, page, Smaller(i * BUF_SIZE, L))
           h == [i \in 0 .. L |-> At1(i)]
           F == CHOOSE f : IsLoading(f, img, page, number)
<1>1. L \in Nat /\ BUF_SIZE \in Nat /\ BUF_SIZE > 0
  BY LoaderAssumption
<1>2. load(img, page, number) = F[L]
  BY Zenon DEF load, IsLoading, LoadRound
<1>3. At1(0) = page
  <2>1. Smaller(0 * BUF_SIZE, L) = 0
    BY <1>1 DEF Smaller
  <2>2. \A a : a \notin 0 .. 0 - 1
    OBVIOUS
  <2>3. Loaded(img, inode, page, 0) = page
    BY <2>2, Zenon DEF Loaded
  <2>4. QED
    BY <2>1, <2>3, Zenon
<1>4. \A i \in Nat : LoadRound(img, number, At1(i), i) = At1(i + 1)
  <2> SUFFICES ASSUME NEW i \in Nat PROVE LoadRound(img, number, At1(i), i) = At1(i + 1)
    BY Zenon
  <2>1. QED
    BY Zenon, <1>1, LoadRoundIs
<1> HIDE DEF At1
<1>5. IsLoading(h, img, page, number)
  <2>1. ASSUME NEW i \in 0 .. L
        PROVE  h[i] = IF i = 0 THEN page ELSE LoadRound(img, number, h[i - 1], i - 1)
    <3>1. CASE i = 0
      BY <1>3, <3>1, Zenon
    <3>2. CASE i # 0
      <4>1. i - 1 \in Nat /\ i - 1 \in 0 .. L /\ (i - 1) + 1 = i
        BY <1>1, <3>2
      <4>2. LoadRound(img, number, At1(i - 1), i - 1) = At1((i - 1) + 1)
        BY <1>4, <4>1, Zenon
      <4>3. h[i - 1] = At1(i - 1) /\ h[i] = At1(i)
        BY <4>1, Zenon
      <4>4. QED
        BY <3>2, <4>1, <4>2, <4>3, Zenon
    <3>3. QED
      BY <3>1, <3>2, Zenon
  <2> HIDE DEF h
  <2>2. DOMAIN h = 0 .. L /\ h = [i \in DOMAIN h |-> h[i]]
    BY Zenon DEF h
  <2>3. QED
    BY <2>1, <2>2, Zenon DEF IsLoading
<1>6. IsLoading(F, img, page, number)
  BY <1>5, Zenon
<1> HIDE DEF F
<1>7. \A i \in 0 .. L : F[i] = IF i = 0 THEN page ELSE LoadRound(img, number, F[i - 1], i - 1)
  BY <1>6, Zenon DEF IsLoading
<1> DEFINE T == {i \in Nat : i <= L => F[i] = At1(i)}
<1>8. 0 \in T
  <2>1. 0 \in 0 .. L
    BY <1>1
  <2>2. QED
    BY <1>3, <1>7, <2>1, Zenon
<1> HIDE DEF L
<1>9. ASSUME NEW i \in Nat, i \in T PROVE i + 1 \in T
  <2>1. SUFFICES ASSUME i + 1 <= L PROVE F[i + 1] = At1(i + 1)
    OBVIOUS
  <2>2. F[i] = At1(i) /\ i + 1 \in 0 .. L /\ i + 1 # 0 /\ (i + 1) - 1 = i
    BY <1>1, <1>9, <2>1
  <2>3. F[i + 1] = LoadRound(img, number, F[i], i)
    BY <1>7, <2>2, Zenon
  <2>4. QED
    BY <1>4, <2>2, <2>3, Zenon
<1> HIDE DEF T
<1>10. Nat \subseteq T
  BY <1>8, <1>9, NatSetInduction, Zenon
<1>11. F[L] = At1(L)
  BY <1>1, <1>10 DEF T
<1>12. Smaller(L * BUF_SIZE, L) = L
  <2>1. (BUF_SIZE - 1) \in Nat
    BY <1>1
  <2>2. L * (BUF_SIZE - 1) \in Nat
    BY <1>1, <2>1
  <2>3. L * BUF_SIZE = L + L * (BUF_SIZE - 1)
    BY <1>1
  <2>4. QED
    BY <1>1, <2>2, <2>3 DEF Smaller
<1>13. QED
  BY <1>2, <1>11, <1>12, Zenon DEF At1, L

-----------------------------------------------------------------------------
(* How execute takes a command apart *)

\* The first word ends before the first space.
LEMMA WordIs ==
    ASSUME NEW C, NEW c \in Seq(C)
    PROVE  LET W == Len(WordOf(c))
           IN  /\ W \in 0 .. Len(c) /\ WordOf(c) \in Seq(C)
               /\ \A j \in 1 .. W : WordOf(c)[j] = c[j] /\ c[j] # Space
               /\ W < Len(c) => c[W + 1] = Space
<1> DEFINE sp == {i \in 1 .. Len(c) : c[i] = Space}
           m == CHOOSE i \in sp : \A j \in sp : i <= j
<1>0. Len(c) \in Nat
  OBVIOUS
<1>1. CASE sp = {}
  <2>1. WordOf(c) = c
    BY <1>1, Zenon DEF WordOf
  <2>2. \A j \in 1 .. Len(c) : c[j] # Space
    BY <1>1, Zenon
  <2>3. QED
    BY <1>0, <2>1, <2>2
<1>2. CASE sp # {}
  <2>1. sp \in SUBSET Nat
    OBVIOUS
  <2>2. \E i \in sp : \A j \in sp : i <= j
    BY Zenon, <1>2, <2>1, LeastNat
  <2>3. m \in sp /\ \A j \in sp : m <= j
    BY <2>2, Zenon
  <2>4. WordOf(c) = SubSeq(c, 1, m - 1)
    BY Zenon, <1>2 DEF WordOf
  <2> HIDE DEF m
  <2>5. m \in 1 .. Len(c) /\ c[m] = Space /\ m - 1 \in 0 .. Len(c)
    BY <2>3
  <2>6. \A j \in 1 .. m - 1 : c[j] # Space
    BY <2>3, <2>5
  <2>7. /\ SubSeq(c, 1, m - 1) \in Seq(C) /\ Len(SubSeq(c, 1, m - 1)) = m - 1
        /\ \A j \in 1 .. m - 1 : SubSeq(c, 1, m - 1)[j] = c[j]
    BY <2>5, CutIs, Zenon
  <2>8. (m - 1) + 1 = m
    BY <2>5
  <2>9. QED
    BY <2>4, <2>5, <2>6, <2>7, <2>8, Zenon
<1>3. QED
  BY <1>1, <1>2, Zenon

\* The argument begins behind the spaces.
IsRest(c, W, R) ==
    /\ R \in W .. Len(c)
    /\ \A j \in W + 1 .. R : c[j] = Space
    /\ R < Len(c) => R > W /\ c[R + 1] # Space
    /\ RestOf(c) = [j \in 1 .. Len(c) - R |-> c[R + j]]

\* There is such a place in every command.
LEMMA RestIs ==
    ASSUME NEW C, NEW c \in Seq(C)
    PROVE  \E R : IsRest(c, Len(WordOf(c)), R)
<1> DEFINE W == Len(WordOf(c))
           n == Len(c)
           rest == {i \in W + 1 .. n : c[i] # Space}
           m == CHOOSE i \in rest : \A j \in rest : i <= j
<1>0. n \in Nat /\ W \in 0 .. n /\ (W < n => c[W + 1] = Space)
  BY WordIs
<1> HIDE DEF W
<1>1. CASE rest = {}
  <2>1. RestOf(c) = <<>>
    BY <1>1, Zenon DEF RestOf, W
  <2>2. \A j \in W + 1 .. n : c[j] = Space
    BY <1>1, Zenon
  <2>3. n - n = 0
    BY <1>0
  <2>4. [j \in 1 .. n - n |-> c[n + j]] = <<>>
    BY <2>3
  <2>5. n \in W .. n
    BY <1>0
  <2>6. IsRest(c, W, n)
    BY <1>0, <2>1, <2>2, <2>4, <2>5 DEF IsRest
  <2>7. QED
    BY <2>6, Zenon DEF W
<1>2. CASE rest # {}
  <2>1. rest \in SUBSET Nat
    BY <1>0
  <2>2. \E i \in rest : \A j \in rest : i <= j
    BY Zenon, <1>2, <2>1, LeastNat
  <2>3. m \in rest /\ \A j \in rest : m <= j
    BY Zenon, <2>2
  <2>4. RestOf(c) = SubSeq(c, m, n)
    BY Zenon, <1>2 DEF RestOf, W
  <2> HIDE DEF m
  <2> DEFINE R == m - 1
  <2>5. /\ m \in W + 1 .. n /\ c[m] # Space /\ R \in W .. n /\ R < n /\ R + 1 = m /\ m \in Int
        /\ m \in 1 .. n
    BY <1>0, <2>3
  <2>6. \A j \in W + 1 .. R : c[j] = Space
    BY <1>0, <2>3, <2>5
  <2>7. R > W
    BY <1>0, <2>5
  <2>8. SubSeq(c, m, n) = [j \in 1 .. n - R |-> c[R + j]]
    <3>1. \A i \in m .. n : c[i] \in C
      BY <1>0, <2>5
    <3>2. /\ SubSeq(c, m, n) \in Seq(C)
          /\ Len(SubSeq(c, m, n)) = IF m <= n THEN n - m + 1 ELSE 0
          /\ \A i \in 1 .. n - m + 1 : SubSeq(c, m, n)[i] = c[m + i - 1]
      BY <1>0, <2>5, <3>1, SubSeqProperties
    <3>3. n - m + 1 = n - R /\ m <= n /\ n - R \in Nat /\ \A i \in 1 .. n - R : m + i - 1 = R + i
      BY <1>0, <2>5
    <3> DEFINE a == SubSeq(c, m, n)
               b == [j \in 1 .. n - R |-> c[R + j]]
               k == n - R
    <3>4. a \in Seq(C) /\ Len(a) = k /\ \A i \in 1 .. k : a[i] = c[R + i]
      BY <3>2, <3>3, Zenon
    <3>5. \A i \in 1 .. k : c[R + i] \in C
      BY <1>0, <2>5
    <3> HIDE DEF a
    <3>6. b \in Seq(C) /\ Len(b) = k /\ \A i \in 1 .. k : b[i] = c[R + i]
      BY <3>3, <3>5
    <3> HIDE DEF b, k
    <3>7. a = b
      BY <3>4, <3>6, SeqEqual, Zenon
    <3>8. QED
      BY <3>7, Zenon DEF a, b
  <2> HIDE DEF R
  <2>9. IsRest(c, W, R)
    BY <2>4, <2>5, <2>6, <2>7, <2>8, Zenon DEF IsRest
  <2>10. QED
    BY <2>9, Zenon DEF W
<1>3. QED
  BY <1>1, <1>2, Zenon

\* A string ends at its first NUL.
LEMMA CStringIs ==
    ASSUME NEW M \in Nat, NEW array, DOMAIN array = 0 .. M - 1, NEW m \in 0 .. M - 1,
           array[m] = Nul, \A j \in 0 .. m - 1 : array[j] # Nul
    PROVE  CString(array) = [i \in 1 .. m |-> array[i - 1]]
<1> DEFINE nul == {i \in DOMAIN array : array[i] = Nul}
           end == CHOOSE i \in nul : \A j \in nul : i <= j
<1>1. m \in nul /\ nul \subseteq Nat
  OBVIOUS
<1>2. \A j \in nul : m <= j
  OBVIOUS
<1>3. end \in nul /\ \A j \in nul : end <= j
  BY <1>1, <1>2, Zenon
<1> HIDE DEF end
<1>4. end = m
  <2> HIDE DEF nul
  <2>1. end \in Nat /\ m \in Nat /\ end <= m /\ m <= end
    BY <1>1, <1>2, <1>3, Zenon
  <2>2. QED
    BY <2>1
<1>5. CString(array) = [i \in 1 .. end |-> array[i - 1]]
  BY Zenon DEF CString, end
<1>6. QED
  BY <1>4, <1>5, Zenon

\* The arrays and the counters after i characters of a command whose word has W
\* characters and whose argument begins behind R.
NameArray(c, W, i) ==
    [j \in 0 .. MAX_NAME_LENGTH - 1 |->
        IF j < W /\ j < i THEN c[j + 1] ELSE IF j = W /\ W < i THEN Nul ELSE Junk]
ArgArray(c, R, i) ==
    [j \in 0 .. MAX_LENGTH_ARG - 1 |-> IF j < i - R THEN c[R + (j + 1)] ELSE Junk]

ParseState(c, W, R, i) ==
    [file_name |-> NameArray(c, W, i),
     local_arg |-> ArgArray(c, R, i),
     file_length |-> IF W < i THEN W ELSE 0,
     spaces |-> IF W < i THEN Smaller(i, R) - W ELSE 0,
     end_of_file_name |-> IF W < i THEN i - W + 1 ELSE 0,
     local_arg_start_flag |-> R < i]

\* What a round writes into the arrays.
ArraysGo(c, W, R, i) ==
    /\ i < W => NameArray(c, W, i + 1) = [NameArray(c, W, i) EXCEPT ![i] = c[i + 1]]
    /\ i = W => NameArray(c, W, i + 1) = [NameArray(c, W, i) EXCEPT ![i] = Nul]
    /\ i > W => NameArray(c, W, i + 1) = NameArray(c, W, i)
    /\ i < R => ArgArray(c, R, i + 1) = ArgArray(c, R, i)
    /\ i >= R => ArgArray(c, R, i + 1) = [ArgArray(c, R, i) EXCEPT ![i - R] = c[i + 1]]

\* A round writes its character at the place behind the others.
LEMMA ArraysGrow ==
    ASSUME NEW C, NEW c \in Seq(C), NEW W \in 0 .. Len(c), W < MAX_NAME_LENGTH,
           NEW R \in W .. Len(c), Len(c) < MAX_LENGTH_ARG, NEW i \in 0 .. Len(c) - 1
    PROVE  ArraysGo(c, W, R, i)
<1>1. /\ Len(c) \in Nat /\ i \in Nat /\ W \in Nat /\ R \in Nat
      /\ MAX_NAME_LENGTH \in Nat /\ MAX_LENGTH_ARG \in Nat
  BY FileSystemAssumption, LoaderAssumption
<1>0. \A k \in Nat : NameArray(c, W, k) = [j \in 0 .. MAX_NAME_LENGTH - 1 |-> NameArray(c, W, k)[j]]
  BY Zenon DEF NameArray
<1>2. ASSUME i < W PROVE NameArray(c, W, i + 1) = [NameArray(c, W, i) EXCEPT ![i] = c[i + 1]]
  <2> DEFINE x == NameArray(c, W, i)
             y == NameArray(c, W, i + 1)
  <2>1. \A j \in 0 .. MAX_NAME_LENGTH - 1 : y[j] = IF j = i THEN c[i + 1] ELSE x[j]
    BY <1>1, <1>2 DEF NameArray
  <2>2. i + 1 \in Nat
    BY <1>1
  <2>3. /\ x = [j \in 0 .. MAX_NAME_LENGTH - 1 |-> x[j]]
        /\ y = [j \in 0 .. MAX_NAME_LENGTH - 1 |-> y[j]]
    BY Zenon, <1>0, <1>1, <2>2
  <2> HIDE DEF x, y
  <2>4. y = [x EXCEPT ![i] = c[i + 1]]
    BY Zenon, <2>1, <2>3
  <2>5. QED
    BY <2>4, Zenon DEF x, y
<1>3. ASSUME i = W PROVE NameArray(c, W, i + 1) = [NameArray(c, W, i) EXCEPT ![i] = Nul]
  <2> DEFINE x == NameArray(c, W, i)
             y == NameArray(c, W, i + 1)
  <2>1. \A j \in 0 .. MAX_NAME_LENGTH - 1 : y[j] = IF j = i THEN Nul ELSE x[j]
    BY <1>1, <1>3 DEF NameArray
  <2>2. i + 1 \in Nat
    BY <1>1
  <2>3. /\ x = [j \in 0 .. MAX_NAME_LENGTH - 1 |-> x[j]]
        /\ y = [j \in 0 .. MAX_NAME_LENGTH - 1 |-> y[j]]
    BY Zenon, <1>0, <1>1, <2>2
  <2> HIDE DEF x, y
  <2>4. y = [x EXCEPT ![i] = Nul]
    BY Zenon, <2>1, <2>3
  <2>5. QED
    BY <2>4, Zenon DEF x, y
<1>4. ASSUME i > W PROVE NameArray(c, W, i + 1) = NameArray(c, W, i)
  BY <1>1, <1>4 DEF NameArray
<1>5. ASSUME i < R PROVE ArgArray(c, R, i + 1) = ArgArray(c, R, i)
  BY <1>1, <1>5 DEF ArgArray
<1>6. ASSUME i >= R PROVE ArgArray(c, R, i + 1) = [ArgArray(c, R, i) EXCEPT ![i - R] = c[i + 1]]
  <2>1. i - R \in 0 .. MAX_LENGTH_ARG - 1 /\ R + ((i - R) + 1) = i + 1
    BY <1>1, <1>6
  <2>2. \A j \in 0 .. MAX_LENGTH_ARG - 1 :
          /\ j < (i + 1) - R <=> j < i - R \/ j = i - R
          /\ ~(i - R < i - R)
    BY <1>1, <1>6
  <2> DEFINE k == i - R
             a == ArgArray(c, R, i)
             b == ArgArray(c, R, i + 1)
  <2>3. \A j \in 0 .. MAX_LENGTH_ARG - 1 : b[j] = IF j = k THEN c[i + 1] ELSE a[j]
    BY <2>1, <2>2, Zenon DEF ArgArray
  <2>4. /\ a = [j \in 0 .. MAX_LENGTH_ARG - 1 |-> a[j]]
        /\ b = [j \in 0 .. MAX_LENGTH_ARG - 1 |-> b[j]]
    BY Zenon DEF ArgArray
  <2> HIDE DEF k, a, b
  <2>5. b = [a EXCEPT ![k] = c[i + 1]]
    BY Zenon, <2>3, <2>4
  <2>6. QED
    BY <2>5, Zenon DEF k, a, b
<1>7. QED
  BY <1>2, <1>3, <1>4, <1>5, <1>6, Zenon DEF ArraysGo

\* A round of the loop goes from one such state to the next.
LEMMA ParseRoundIs ==
    ASSUME NEW C, NEW c \in Seq(C), NEW W, W = Len(WordOf(c)), W < MAX_NAME_LENGTH,
           NEW R, IsRest(c, W, R), Len(c) < MAX_LENGTH_ARG, NEW i \in 0 .. Len(c) - 1
    PROVE  ParseRound(ParseState(c, W, R, i), i, c[i + 1]) = ParseState(c, W, R, i + 1)
<1> DEFINE s == ParseState(c, W, R, i)
           ch == c[i + 1]
           n == Len(c)
<1>1. /\ n \in Nat /\ W \in 0 .. n
      /\ \A j \in 1 .. W : c[j] # Space
      /\ W < n => c[W + 1] = Space
  BY WordIs
<1>2. /\ R \in W .. n
      /\ \A j \in W + 1 .. R : c[j] = Space
      /\ R < n => R > W /\ c[R + 1] # Space
  BY Zenon DEF IsRest
<1>3. /\ s.file_name = NameArray(c, W, i) /\ s.local_arg = ArgArray(c, R, i)
      /\ s.file_length = (IF W < i THEN W ELSE 0)
      /\ s.spaces = (IF W < i THEN Smaller(i, R) - W ELSE 0)
      /\ s.end_of_file_name = (IF W < i THEN i - W + 1 ELSE 0)
      /\ s.local_arg_start_flag = (R < i)
  BY Zenon DEF ParseState
<1>10. \A x : [s EXCEPT !.file_name = x] =
                [file_name |-> x, local_arg |-> s.local_arg, file_length |-> s.file_length,
                 spaces |-> s.spaces, end_of_file_name |-> s.end_of_file_name,
                 local_arg_start_flag |-> s.local_arg_start_flag]
  <2> DEFINE a1 == NameArray(c, W, i)
             a2 == ArgArray(c, R, i)
             a3 == IF W < i THEN W ELSE 0
             a4 == IF W < i THEN Smaller(i, R) - W ELSE 0
             a5 == IF W < i THEN i - W + 1 ELSE 0
             a6 == R < i
  <2>1. s = [file_name |-> a1, local_arg |-> a2, file_length |-> a3, spaces |-> a4,
             end_of_file_name |-> a5, local_arg_start_flag |-> a6]
    BY Zenon DEF ParseState
  <2> HIDE DEF s, a1, a2, a3, a4, a5, a6
  <2>2. QED
    BY SMTT(30), <2>1
<1>0. s.local_arg_start_flag \in BOOLEAN /\ (s.local_arg_start_flag <=> R < i)
  <2>1. s.local_arg_start_flag = (R < i)
    BY Zenon DEF ParseState
  <2>2. CASE R < i
    <3>1. (R < i) = TRUE
      BY <2>2, Zenon
    <3>2. QED
      BY Zenon, <2>1, <2>2, <3>1
  <2>3. CASE ~(R < i)
    <3>1. (R < i) = FALSE
      BY <2>3
    <3>2. QED
      BY Zenon, <2>1, <2>3, <3>1
  <2>4. QED
    BY <2>2, <2>3, Zenon
<1>4. /\ i < W => NameArray(c, W, i + 1) = [NameArray(c, W, i) EXCEPT ![i] = c[i + 1]]
      /\ i = W => NameArray(c, W, i + 1) = [NameArray(c, W, i) EXCEPT ![i] = Nul]
      /\ i > W => NameArray(c, W, i + 1) = NameArray(c, W, i)
      /\ i < R => ArgArray(c, R, i + 1) = ArgArray(c, R, i)
      /\ i >= R => ArgArray(c, R, i + 1) = [ArgArray(c, R, i) EXCEPT ![i - R] = c[i + 1]]
  <2>1. ArraysGo(c, W, R, i)
    BY <1>1, <1>2, ArraysGrow, Zenon
  <2>2. QED
    BY <2>1, Zenon DEF ArraysGo
<1>5. i \in Nat /\ W \in Nat /\ R \in Nat /\ i + 1 <= n /\ W <= R
  BY <1>1, <1>2
<1>6. CASE i < W
  <2>1. i + 1 \in 1 .. W
    BY <1>5, <1>6
  <2>2. ch # Space /\ s.spaces = 0
    BY <1>1, <1>3, <1>5, <1>6, <2>1
  <2>3. ParseRound(s, i, ch) = [s EXCEPT !.file_name = [@ EXCEPT ![i] = ch]]
    <3> HIDE DEF s, ch
    <3>1. QED
      BY <2>2, Zenon DEF ParseRound
  <2>4. ~(W < i) /\ ~(W < i + 1) /\ ~(R < i) /\ ~(R < i + 1) /\ i < R
    BY <1>5, <1>6
  <2>5. ParseRound(s, i, ch) = [s EXCEPT !.file_name = NameArray(c, W, i + 1)]
    <3> HIDE DEF s
    <3>1. QED
      BY Zenon, <1>3, <1>4, <1>6, <2>3
  <2>6. /\ s.local_arg = ArgArray(c, R, i + 1) /\ s.file_length = 0 /\ s.spaces = 0
        /\ s.end_of_file_name = 0 /\ s.local_arg_start_flag = FALSE
    <3> HIDE DEF s
    <3>1. s.local_arg_start_flag = FALSE
      BY <1>0, <2>4, Zenon
    <3>2. QED
      BY <1>3, <1>4, <2>4, <3>1, Zenon
  <2>7. [s EXCEPT !.file_name = NameArray(c, W, i + 1)] =
          [file_name |-> NameArray(c, W, i + 1), local_arg |-> ArgArray(c, R, i + 1), file_length |-> 0,
           spaces |-> 0, end_of_file_name |-> 0, local_arg_start_flag |-> FALSE]
    <3> HIDE DEF s
    <3>1. QED
      BY <1>10, <2>6, Zenon
  <2>8. (R < i + 1) = FALSE
    BY <2>4
  <2> HIDE DEF s, ch
  <2>9. QED
    BY <2>4, <2>5, <2>7, <2>8, Zenon DEF ParseState, s, ch
<1>7. ASSUME i >= W
      PROVE  /\ (ch = Space /\ i < R) \/ (ch # Space /\ i = R /\ W < i) \/ (R < i /\ W < i)
             /\ ~(ch # Space /\ s.spaces = 0)
  <2>1. CASE i < R
    <3>1. i + 1 \in W + 1 .. R
      BY <1>5, <1>7, <2>1
    <3>2. ch = Space
      BY <1>2, <3>1, Zenon
    <3>3. QED
      BY <2>1, <3>2, Zenon
  <2>2. CASE i = R
    <3>1. R < n
      BY <1>1, <1>5, <2>2
    <3>2. R > W /\ ch # Space
      BY <1>2, <2>2, <3>1, Zenon
    <3>3. s.spaces = R - W /\ R - W # 0 /\ W < i
      BY <1>3, <1>5, <2>2, <3>2 DEF Smaller
    <3>4. QED
      BY <2>2, <3>2, <3>3, Zenon
  <2>3. CASE i > R
    <3>1. R < n
      BY <1>1, <1>5, <2>3
    <3>2. R > W
      BY <1>2, <3>1, Zenon
    <3>3. s.spaces = R - W /\ R - W # 0 /\ W < i
      BY <1>3, <1>5, <2>3, <3>2 DEF Smaller
    <3>4. QED
      BY <2>3, <3>3, Zenon
  <2>4. QED
    BY <1>5, <2>1, <2>2, <2>3
<1>8. CASE i >= W
  <2> DEFINE first == s.end_of_file_name = 0
             spaces == IF ch = Space /\ ~s.local_arg_start_flag THEN s.spaces + 1 ELSE s.spaces
             file_length == IF first THEN i ELSE s.file_length
             arg == ArgCharacter(s, ch)
             t == [file_name |-> IF first THEN [s.file_name EXCEPT ![i] = Nul] ELSE s.file_name,
                   local_arg |-> IF arg THEN [s.local_arg EXCEPT ![i - (file_length + spaces)] = ch]
                                 ELSE s.local_arg,
                   file_length |-> file_length,
                   spaces |-> spaces,
                   end_of_file_name |-> s.end_of_file_name + (IF first THEN 2 ELSE 1),
                   local_arg_start_flag |-> arg \/ s.local_arg_start_flag]
  <2>1. ParseRound(s, i, ch) = t
    <3> HIDE DEF s, ch
    <3>1. QED
      BY <1>7, <1>8, Zenon DEF ParseRound
  <2>2. first <=> i = W
    BY <1>3, <1>5, <1>8
  <2>0. s.local_arg_start_flag \in BOOLEAN /\ (s.local_arg_start_flag <=> R < i)
    BY <1>0, Zenon
  <2>3. (arg <=> R <= i) /\ arg \in BOOLEAN
    <3>1. arg <=> ch # Space \/ s.local_arg_start_flag
      BY Zenon DEF ArgCharacter
    <3>2. arg \in BOOLEAN
      BY <2>0, Zenon DEF ArgCharacter
    <3> HIDE DEF arg, s, ch
    <3>3. QED
      BY <1>5, <1>7, <1>8, <2>0, <3>1, <3>2
  <2>4. file_length = W
    BY <1>3, <1>5, <1>8, <2>2, Zenon
  <2>5. spaces = Smaller(i + 1, R) - W
    <3>1. CASE i < R
      <4>1. ch = Space /\ s.local_arg_start_flag = FALSE
        <5> HIDE DEF s, ch
        <5>1. QED
          BY <1>5, <1>7, <1>8, <2>0, <3>1
      <4>2. s.spaces = i - W
        BY <1>3, <1>5, <1>8, <3>1 DEF Smaller
      <4>3. QED
        BY <1>5, <3>1, <4>1, <4>2 DEF Smaller
    <3>2. CASE i >= R
      <4>1. ~(ch = Space /\ ~s.local_arg_start_flag) /\ W < i
        <5> HIDE DEF s, ch
        <5>1. QED
          BY <1>5, <1>7, <1>8, <2>0, <3>2
      <4>2. s.spaces = R - W
        BY <1>3, <1>5, <3>2, <4>1 DEF Smaller
      <4>3. QED
        BY <1>5, <3>2, <4>1, <4>2 DEF Smaller
    <3>3. QED
      BY <1>5, <3>1, <3>2
  <2>6. s.end_of_file_name + (IF first THEN 2 ELSE 1) = (i + 1) - W + 1
    <3>1. s.end_of_file_name = IF i = W THEN 0 ELSE i - W + 1
      BY <1>3, <1>5, <1>8
    <3> HIDE DEF first, s
    <3>2. CASE i = W
      BY <1>5, <2>2, <3>1, <3>2
    <3>3. CASE i # W
      <4>1. s.end_of_file_name = i - W + 1 /\ ~first
        BY <2>2, <3>1, <3>3, Zenon
      <4>2. (i - W + 1) + 1 = (i + 1) - W + 1
        BY <1>5
      <4>3. QED
        BY <4>1, <4>2, Zenon
    <3>4. QED
      BY <3>2, <3>3, Zenon
  <2>7. (arg \/ s.local_arg_start_flag) = (R < i + 1)
    <3> HIDE DEF arg, s
    <3>1. arg \/ s.local_arg_start_flag <=> R < i + 1
      BY <1>5, <2>0, <2>3
    <3>2. CASE R < i + 1
      <4>1. (R < i + 1) = TRUE /\ (arg \/ s.local_arg_start_flag) = TRUE
        BY <2>0, <2>3, <3>1, <3>2, Zenon
      <4>2. QED
        BY <4>1, Zenon
    <3>3. CASE ~(R < i + 1)
      <4>1. (R < i + 1) = FALSE /\ (arg \/ s.local_arg_start_flag) = FALSE
        BY SMTT(30), <2>0, <2>3, <3>1, <3>3
      <4>2. QED
        BY <4>1, Zenon
    <3>4. QED
      BY <3>2, <3>3, Zenon
  <2>8. (IF first THEN [s.file_name EXCEPT ![i] = Nul] ELSE s.file_name) = NameArray(c, W, i + 1)
    BY <1>3, <1>4, <1>5, <1>8, <2>2, Zenon
  <2>9. (IF arg THEN [s.local_arg EXCEPT ![i - (file_length + spaces)] = ch] ELSE s.local_arg)
          = ArgArray(c, R, i + 1)
    <3>1. CASE i < R
      BY SMTT(60), <1>3, <1>4, <1>5, <2>3, <3>1
    <3>2. CASE i >= R
      <4>1. file_length + spaces = R
        BY <1>5, <2>4, <2>5, <3>2 DEF Smaller
      <4> HIDE DEF file_length, spaces, arg, s
      <4>2. QED
        BY Zenon, <1>3, <1>4, <2>3, <3>2, <4>1
    <3>3. QED
      BY SMTT(60), <1>5, <3>1, <3>2
  <2>10. W < i + 1
    BY <1>5, <1>8
  <2> HIDE DEF first, spaces, file_length, arg, s, ch
  <2>11. t = ParseState(c, W, R, i + 1)
    BY <2>4, <2>5, <2>6, <2>7, <2>8, <2>9, <2>10, Zenon DEF ParseState
  <2>12. QED
    BY <2>1, <2>11, Zenon DEF s, ch
<1>9. QED
  BY <1>5, <1>6, <1>8

\* parse's loop, as a fact about the function it computes.
ParseStart ==
    [file_name |-> [i \in 0 .. MAX_NAME_LENGTH - 1 |-> Junk],
     local_arg |-> [i \in 0 .. MAX_LENGTH_ARG - 1 |-> Junk],
     file_length |-> 0, spaces |-> 0, end_of_file_name |-> 0,
     local_arg_start_flag |-> FALSE]

IsParsing(f, c) ==
    f = [i \in 0 .. Len(c) |-> IF i = 0 THEN ParseStart ELSE ParseRound(f[i - 1], i - 1, c[i])]

\* What execute makes of the state behind the loop.
Parsed(s, n) ==
    [file_name |-> IF s.spaces = 0 THEN [s.file_name EXCEPT ![n] = Nul] ELSE s.file_name,
     local_arg |-> [s.local_arg EXCEPT ![n - (s.file_length + s.spaces)] = Nul],
     local_arg_start_flag |-> s.local_arg_start_flag]

\* The loop ends in the state after the last character.
LEMMA ParseIs ==
    ASSUME NEW C, NEW c \in Seq(C), NEW W, W = Len(WordOf(c)), W < MAX_NAME_LENGTH,
           NEW R, IsRest(c, W, R), Len(c) < MAX_LENGTH_ARG
    PROVE  parse(c) = Parsed(ParseState(c, W, R, Len(c)), Len(c))
<1> DEFINE n == Len(c)
           F == CHOOSE f : IsParsing(f, c)
           h == [i \in 0 .. n |-> ParseState(c, W, R, i)]
<1>1. n \in Nat /\ W \in Nat /\ R \in Nat /\ W <= R
  BY WordIs DEF IsRest
<1>2. parse(c) = Parsed(F[n], n)
  BY Zenon DEF parse, IsParsing, Parsed, ParseStart
<1>3. ParseState(c, W, R, 0) = ParseStart
  <2>1. ~(W < 0) /\ ~(R < 0) /\ (R < 0) = FALSE
    BY <1>1
  <2>2. NameArray(c, W, 0) = [i \in 0 .. MAX_NAME_LENGTH - 1 |-> Junk]
    BY <1>1 DEF NameArray
  <2>3. ArgArray(c, R, 0) = [i \in 0 .. MAX_LENGTH_ARG - 1 |-> Junk]
    BY <1>1 DEF ArgArray
  <2>4. QED
    BY <2>1, <2>2, <2>3, Zenon DEF ParseState, ParseStart
<1>4. ASSUME NEW i \in 0 .. n - 1
      PROVE  ParseRound(ParseState(c, W, R, i), i, c[i + 1]) = ParseState(c, W, R, i + 1)
  BY ParseRoundIs, Zenon
<1>5. IsParsing(h, c)
  <2>1. ASSUME NEW i \in 0 .. n
        PROVE  h[i] = IF i = 0 THEN ParseStart ELSE ParseRound(h[i - 1], i - 1, c[i])
    <3>1. CASE i = 0
      BY <1>3, <3>1, Zenon
    <3>2. CASE i # 0
      <4>1. i - 1 \in 0 .. n - 1 /\ i - 1 \in 0 .. n /\ (i - 1) + 1 = i
        BY <1>1, <3>2
      <4>2. ParseRound(ParseState(c, W, R, i - 1), i - 1, c[(i - 1) + 1])
              = ParseState(c, W, R, (i - 1) + 1)
        BY <1>4, <4>1, Zenon
      <4>3. h[i - 1] = ParseState(c, W, R, i - 1) /\ h[i] = ParseState(c, W, R, i)
        BY <4>1, Zenon
      <4>4. QED
        BY <3>2, <4>1, <4>2, <4>3, Zenon
    <3>3. QED
      BY <3>1, <3>2, Zenon
  <2> HIDE DEF h
  <2>2. DOMAIN h = 0 .. n /\ h = [i \in DOMAIN h |-> h[i]]
    BY Zenon DEF h
  <2>3. QED
    BY <2>1, <2>2, Zenon DEF IsParsing
<1>6. IsParsing(F, c)
  BY <1>5, Zenon
<1> HIDE DEF F
<1>7. \A i \in 0 .. n : F[i] = IF i = 0 THEN ParseStart ELSE ParseRound(F[i - 1], i - 1, c[i])
  BY <1>6, Zenon DEF IsParsing
<1> DEFINE T == {i \in Nat : i <= n => F[i] = ParseState(c, W, R, i)}
<1>8. 0 \in T
  <2>1. 0 \in 0 .. n
    BY <1>1
  <2>2. QED
    BY <1>3, <1>7, <2>1, Zenon
<1>9. ASSUME NEW i \in Nat, i \in T PROVE i + 1 \in T
  <2>1. SUFFICES ASSUME i + 1 <= n PROVE F[i + 1] = ParseState(c, W, R, i + 1)
    OBVIOUS
  <2>2. /\ F[i] = ParseState(c, W, R, i) /\ i \in 0 .. n - 1
        /\ i + 1 \in 0 .. n /\ i + 1 # 0 /\ (i + 1) - 1 = i
    BY <1>1, <1>9, <2>1
  <2>3. F[i + 1] = ParseRound(F[i], i, c[i + 1])
    BY <1>7, <2>2, Zenon
  <2>4. QED
    BY <1>4, <2>2, <2>3, Zenon
<1> HIDE DEF T
<1>10. Nat \subseteq T
  BY <1>8, <1>9, NatSetInduction, Zenon
<1>11. F[n] = ParseState(c, W, R, n)
  BY <1>1, <1>10 DEF T
<1>12. QED
  BY <1>2, <1>11, Zenon

\* execute takes a command apart as the shell's user means it: the word up to
\* the first space is the file's name, and the argument what follows from the
\* first other character on, for every command whose word fits file_name and
\* that fits local_arg itself.
THEOREM CommandIsParsed ==
    ASSUME NEW C, Nul \notin C, NEW c \in Seq(C),
           Len(WordOf(c)) < MAX_NAME_LENGTH, Len(c) < MAX_LENGTH_ARG
    PROVE  LET p == parse(c)
           IN  /\ CString(p.file_name) = WordOf(c)
               /\ p.local_arg_start_flag <=> RestOf(c) # <<>>
               /\ p.local_arg_start_flag => CString(p.local_arg) = RestOf(c)
<1> DEFINE W == Len(WordOf(c))
           n == Len(c)
<1>1. PICK R : IsRest(c, W, R)
  BY RestIs, Zenon
<1> DEFINE s == ParseState(c, W, R, n)
           p == Parsed(s, n)
<1>2. parse(c) = p
  <2> HIDE DEF s
  <2>1. QED
    BY <1>1, ParseIs, Zenon DEF s
<1>3. /\ n \in Nat /\ W \in 0 .. n /\ WordOf(c) \in Seq(C)
      /\ \A j \in 1 .. W : WordOf(c)[j] = c[j]
  BY WordIs
<1>4. /\ R \in W .. n /\ (R < n => R > W)
      /\ RestOf(c) = [j \in 1 .. n - R |-> c[R + j]]
  BY <1>1, Zenon DEF IsRest
<1>5. /\ s.file_name = NameArray(c, W, n) /\ s.local_arg = ArgArray(c, R, n)
      /\ s.file_length = (IF W < n THEN W ELSE 0)
      /\ s.spaces = (IF W < n THEN Smaller(n, R) - W ELSE 0)
      /\ s.local_arg_start_flag = (R < n)
  BY Zenon DEF ParseState
<1>6. /\ p.file_name = IF s.spaces = 0 THEN [s.file_name EXCEPT ![n] = Nul] ELSE s.file_name
      /\ p.local_arg = [s.local_arg EXCEPT ![n - (s.file_length + s.spaces)] = Nul]
      /\ p.local_arg_start_flag = s.local_arg_start_flag
  BY Zenon DEF Parsed
<1>7. MAX_NAME_LENGTH \in Nat /\ MAX_LENGTH_ARG \in Nat /\ W \in Nat /\ R \in Nat
  BY SMTT(30), <1>3, <1>4, FileSystemAssumption, LoaderAssumption
<1> HIDE DEF s, p
<1>8. \A j \in 1 .. n : c[j] # Nul /\ c[j] \in C
  BY SMTT(30), <1>3
<1>9. CString(p.file_name) = WordOf(c)
  <2> DEFINE a == p.file_name
             M == MAX_NAME_LENGTH
  <2>1. /\ DOMAIN NameArray(c, W, n) = 0 .. M - 1
        /\ \A j \in 0 .. M - 1 : NameArray(c, W, n)[j] =
             IF j < W /\ j < n THEN c[j + 1] ELSE IF j = W /\ W < n THEN Nul ELSE Junk
    BY Zenon DEF NameArray
  <2>2. DOMAIN a = 0 .. M - 1 /\ a[W] = Nul /\ \A j \in 0 .. W - 1 : a[j] = c[j + 1]
    <3>1. CASE W < n
      <4>1. s.spaces = Smaller(n, R) - W /\ Smaller(n, R) - W # 0
        BY <1>3, <1>4, <1>5, <1>7, <3>1 DEF Smaller
      <4>2. a = NameArray(c, W, n)
        BY <1>5, <1>6, <4>1, Zenon
      <4>3. QED
        BY <1>3, <1>7, <2>1, <3>1, <4>2
    <3>2. CASE ~(W < n)
      <4>1. W = n /\ s.spaces = 0 /\ n \in 0 .. M - 1
        BY <1>3, <1>5, <1>7, <3>2
      <4>2. a = [NameArray(c, W, n) EXCEPT ![n] = Nul]
        BY <1>5, <1>6, <4>1, Zenon
      <4>3. \A j \in 0 .. W - 1 : j \in 0 .. M - 1 /\ j < W /\ j < n /\ j # n
        BY <1>3, <1>7, <4>1
      <4>4. QED
        BY <2>1, <4>1, <4>2, <4>3, Zenon
    <3>3. QED
      BY <3>1, <3>2, Zenon
  <2> HIDE DEF a
  <2>3. \A j \in 0 .. W - 1 : a[j] # Nul
    <3>1. \A j \in 0 .. W - 1 : j + 1 \in 1 .. n
      BY <1>3
    <3>2. QED
      BY <1>8, <2>2, <3>1, Zenon
  <2>4. W \in 0 .. M - 1
    BY <1>7
  <2>5. CString(a) = [i \in 1 .. W |-> a[i - 1]]
    BY ZenonT(60), <1>7, <2>2, <2>3, <2>4, CStringIs
  <2>6. \A i \in 1 .. W : a[i - 1] = c[i]
    <3>1. \A i \in 1 .. W : i - 1 \in 0 .. W - 1 /\ (i - 1) + 1 = i
      BY <1>7
    <3>2. QED
      BY <2>2, <3>1, Zenon
  <2>7. WordOf(c) = [i \in 1 .. W |-> c[i]]
    BY <1>3
  <2>8. QED
    BY Zenon, <2>5, <2>6, <2>7 DEF a
<1>10. CASE R < n
  <2> DEFINE a == p.local_arg
             M == MAX_LENGTH_ARG
             m == n - R
  <2>1. W < n /\ s.file_length + s.spaces = R /\ m \in 0 .. M - 1
    BY <1>3, <1>4, <1>5, <1>7, <1>10 DEF Smaller
  <2>2. a = [ArgArray(c, R, n) EXCEPT ![m] = Nul]
    BY Zenon, <1>5, <1>6, <2>1
  <2>3. /\ DOMAIN ArgArray(c, R, n) = 0 .. M - 1
        /\ \A j \in 0 .. M - 1 : ArgArray(c, R, n)[j] = IF j < n - R THEN c[R + (j + 1)] ELSE Junk
    BY Zenon DEF ArgArray
  <2> HIDE DEF a, m
  <2>4. DOMAIN a = 0 .. M - 1 /\ a[m] = Nul
    BY <2>1, <2>2, <2>3, Zenon
  <2>5. \A j \in 0 .. m - 1 : a[j] = c[R + (j + 1)]
    <3>1. \A j \in 0 .. m - 1 : j \in 0 .. M - 1 /\ j < n - R /\ j # m
      BY <1>3, <1>7, <2>1 DEF m
    <3>2. QED
      BY <2>2, <2>3, <3>1, Zenon
  <2>6. \A j \in 0 .. m - 1 : a[j] # Nul
    <3>1. \A j \in 0 .. m - 1 : R + (j + 1) \in 1 .. n
      BY <1>3, <1>7, <2>1 DEF m
    <3>2. QED
      BY <1>8, <2>5, <3>1, Zenon
  <2>7. CString(a) = [i \in 1 .. m |-> a[i - 1]]
    BY <1>7, <2>1, <2>4, <2>6, CStringIs
  <2>8. \A i \in 1 .. m : a[i - 1] = c[R + i]
    <3>1. \A i \in 1 .. m : i - 1 \in 0 .. m - 1 /\ (i - 1) + 1 = i
      BY <1>7, <2>1
    <3>2. QED
      BY <2>5, <3>1, Zenon
  <2>9. RestOf(c) = [i \in 1 .. m |-> c[R + i]]
    BY <1>4, Zenon DEF m
  <2>10. CString(a) = RestOf(c)
    BY <2>7, <2>8, <2>9, Zenon
  <2>11. p.local_arg_start_flag = TRUE
    <3>1. (R < n) = TRUE
      BY <1>10, Zenon
    <3>2. QED
      BY <1>5, <1>6, <3>1, Zenon
  <2>12. RestOf(c) # <<>>
    <3>1. 1 \in 1 .. m
      BY <1>3, <1>7, <1>10 DEF m
    <3>2. DOMAIN RestOf(c) = 1 .. m /\ DOMAIN <<>> = {}
      BY <2>9
    <3>3. QED
      BY <3>1, <3>2, Zenon
  <2>13. QED
    BY <1>2, <1>9, <2>10, <2>11, <2>12, Zenon DEF a
<1>11. CASE ~(R < n)
  <2>1. n - R = 0
    BY <1>3, <1>4, <1>11
  <2>2. RestOf(c) = <<>>
    BY <1>4, <2>1
  <2>3. p.local_arg_start_flag = FALSE
    <3>1. (R < n) = FALSE
      BY <1>11
    <3>2. QED
      BY <1>5, <1>6, <3>1, Zenon
  <2>4. QED
    BY <1>2, <1>9, <2>2, <2>3, Zenon
<1>12. QED
  BY <1>10, <1>11, Zenon

-----------------------------------------------------------------------------
(* The image of the commands, and execute on it *)

\* The assumptions on the files, for one of them.
LEMMA FileFacts ==
    ASSUME NEW f \in Files
    PROVE  /\ f \in Nat \ {0} /\ Len(Contents) \in Nat /\ f <= Len(Contents)
           /\ FileNames[f] \in Seq(Letters) /\ Len(FileNames[f]) <= MAX_NAME_LENGTH
           /\ Contents[f] \in Seq({Contents[f][i] : i \in 1 .. Len(Contents[f])})
           /\ Len(Contents[f]) \in Nat /\ Len(Contents[f]) >= BUF_SIZE
           /\ Len(Contents[f]) <= FOUR_KB * DATA_BLOCK_COUNT
           /\ Len(Contents[f]) <= PageSize
<1>1. Len(Contents) \in Nat
  BY CommandsAssumption, Zenon
<1>2. f \in Nat \ {0} /\ f <= Len(Contents)
  BY <1>1 DEF Files
<1>3. /\ FileNames[f] \in Seq(Letters) /\ Len(FileNames[f]) <= MAX_NAME_LENGTH
      /\ Contents[f] \in Seq({Contents[f][i] : i \in 1 .. Len(Contents[f])})
      /\ Len(Contents[f]) \in BUF_SIZE .. FOUR_KB * DATA_BLOCK_COUNT
      /\ Len(Contents[f]) <= PageSize
  BY CommandsAssumption, Zenon
<1>4. BUF_SIZE \in Nat /\ FOUR_KB * DATA_BLOCK_COUNT \in Nat
  BY SMTT(30), FileSystemAssumption, LoaderAssumption
<1>5. QED
  BY <1>1, <1>2, <1>3, <1>4

\* The entries and inodes of the image.
LEMMA ImageIs ==
    ASSUME NEW f \in Files
    PROVE  /\ Len(MCImage.dentries) = Len(Contents)
           /\ MCImage.dentries[f].file_name = Padded(FileNames[f])
           /\ MCImage.dentries[f].inode_number = f
           /\ MCImage.inodes[f].length = Len(Contents[f])
           /\ \A k \in 0 .. DATA_BLOCK_COUNT - 1 :
                MCImage.inodes[f].data_block_numbers[k] = DATA_BLOCK_COUNT * (f - 1) + k
<1>1. Len(Contents) \in Nat
  BY FileFacts, Zenon
<1> DEFINE D == MCImage.dentries
<1>2. D = [g \in 1 .. Len(Contents) |-> [file_name |-> Padded(FileNames[g]),
              file_type |-> FILE_TYPE_FILE, inode_number |-> g]]
  BY Zenon DEF MCImage, Files
<1>3. Len(D) = Len(Contents)
  <2> HIDE DEF D
  <2>1. QED
    BY <1>1, <1>2
<1>4. QED
  BY Zenon, <1>3 DEF MCImage

\* A byte of a file is in the block and at the place that read_data looks at.
LEMMA ImageByte ==
    ASSUME NEW f \in Files, NEW i \in 0 .. Len(Contents[f]) - 1
    PROVE  ByteAt(MCImage, MCImage.inodes[f], i) = Contents[f][i + 1]
<1> DEFINE D == DATA_BLOCK_COUNT
           K == FOUR_KB
           n == Len(Contents)
           k == i \div K
           j == i % K
           b == D * (f - 1) + k
           inode == MCImage.inodes[f]
<1>1. /\ D \in Nat \ {0} /\ K \in Nat \ {0} /\ n \in Nat /\ f \in 1 .. n
      /\ i \in Nat /\ K * D \in Nat /\ i \in 0 .. K * D - 1 /\ i < Len(Contents[f])
  <2> DEFINE L == Len(Contents[f])
             x == K * D
  <2>1. D \in Nat \ {0} /\ K \in Nat \ {0} /\ x \in Nat
    BY FileSystemAssumption
  <2>2. n \in Nat /\ f \in Nat \ {0} /\ f <= n /\ L \in Nat /\ L <= x
    BY Zenon, FileFacts
  <2>3. i \in 0 .. L - 1
    BY Zenon
  <2> HIDE DEF L, x, n
  <2>4. i \in Nat /\ i \in 0 .. x - 1 /\ i < L /\ f \in 1 .. n
    BY <2>1, <2>2, <2>3
  <2>5. QED
    BY <2>1, <2>2, <2>4, Zenon DEF L, x
<1>2. k \in 0 .. D - 1 /\ j \in 0 .. K - 1
  BY Zenon, <1>1, InBlock
<1>3. K * k + j = i
  BY <1>1
<1> HIDE DEF k, j
<1>4. b \in 0 .. D * n - 1
  <2>1. D * (f - 1) \in Nat /\ D * (n - f) \in Nat
    BY <1>1
  <2>2. D * n = D * (f - 1) + D + D * (n - f)
    BY <1>1
  <2>3. D * n \in Nat
    BY <1>1
  <2> DEFINE x == D * (f - 1)
             y == D * (n - f)
             z == D * n
  <2> HIDE DEF x, y, z
  <2>4. x \in Nat /\ y \in Nat /\ z = x + D + y
    BY <2>1, <2>2, Zenon DEF x, y, z
  <2>5. x + k \in 0 .. z - 1
    BY <1>1, <1>2, <2>4
  <2>6. QED
    BY <2>5, Zenon DEF x, z
<1>5. b \div D = f - 1 /\ b % D = k
  <2>1. b \in Nat /\ D * n \in Int
    BY <1>1, <1>4
  <2> DEFINE q == b \div D
             r == b % D
  <2>2. q \in Int /\ r \in 0 .. D - 1 /\ D * q + r = b
    <3> HIDE DEF b
    <3>1. QED
      BY <1>1, <2>1
  <2>3. f - 1 \in Int
    BY <1>1
  <2> HIDE DEF q, r
  <2>4. q = f - 1 /\ r = k
    BY <1>1, <1>2, <2>2, <2>3, DivisionUnique
  <2>5. QED
    BY <2>4 DEF q, r
<1>6. BlockNumber(inode, k) = b
  <2>1. inode.data_block_numbers[k] = b
    <3>1. \A m \in 0 .. DATA_BLOCK_COUNT - 1 : inode.data_block_numbers[m] = DATA_BLOCK_COUNT * (f - 1) + m
      BY ImageIs, Zenon
    <3>2. QED
      BY <1>2, <3>1, Zenon
  <2>2. k < D
    BY <1>1, <1>2
  <2>3. QED
    BY <2>1, <2>2, Zenon DEF BlockNumber
<1> HIDE DEF b
<1>7. 1 + b \div D = f
  BY SMTT(30), <1>1, <1>5
<1>8. /\ DOMAIN MCImage.blocks = 0 .. D * n - 1
      /\ MCImage.blocks[b][j] =
           IF K * (b % D) + j < Len(Contents[1 + b \div D])
           THEN Contents[1 + b \div D][K * (b % D) + j + 1] ELSE Junk
  BY Zenon, <1>2, <1>4 DEF MCImage
<1>9. MCImage.blocks[b][j] = Contents[f][i + 1]
  <2>1. K * (b % D) + j = i
    BY <1>3, <1>5, Zenon
  <2>2. QED
    BY <1>1, <1>7, <1>8, <2>1, Zenon
<1>10. QED
  BY <1>4, <1>6, <1>8, <1>9, Zenon DEF ByteAt, Byte, k, j

\* A read inside of a file gives that part of it.
LEMMA ImageRead ==
    ASSUME NEW f \in Files, NEW offset \in Nat, NEW n \in Nat, n > 0,
           offset + n <= Len(Contents[f])
    PROVE  read_data(MCImage, f, offset, n) = SubSeq(Contents[f], offset + 1, offset + n)
<1> DEFINE inode == MCImage.inodes[f]
           L == Len(Contents[f])
           S == {Contents[f][i] : i \in 1 .. L}
<1>1. inode.length = L /\ L \in Nat /\ Contents[f] \in Seq(S)
  BY FileFacts, ImageIs, Zenon
<1> HIDE DEF inode
<1>2. Count(inode, offset, n) = n
  BY <1>1 DEF Count, Smaller
<1>3. read_data(MCImage, f, offset, n) = Stretch(MCImage, inode, offset, n)
  <2>1. read_data(MCImage, f, offset, n) = Stretch(MCImage, inode, offset, Count(inode, offset, n))
    <3>1. n \in Int /\ inode.length \in Nat
      BY <1>1
    <3>2. QED
      BY <3>1, ReadDataCopies, Zenon DEF inode
  <2>2. QED
    BY <1>2, <2>1, Zenon
<1>4. Stretch(MCImage, inode, 0, L) = Contents[f]
  <2> DEFINE a == Stretch(MCImage, inode, 0, L)
  <2>1. Len(a) = L /\ a \in Seq(BytesOf(MCImage, inode)) /\ \A i \in 1 .. L : a[i] = Nth(MCImage, inode, 0, i)
    <3>1. 0 \in Nat /\ L \in Nat
      BY <1>1, Zenon
    <3> HIDE DEF L
    <3>2. QED
      BY Zenon, <3>1, StretchIs
  <2>2. ASSUME NEW i \in 1 .. L PROVE a[i] = Contents[f][i]
    <3>1. i - 1 \in 0 .. L - 1 /\ (i - 1) + 1 = i /\ 0 + i - 1 = i - 1
      BY <1>1
    <3>2. ByteAt(MCImage, inode, i - 1) = Contents[f][(i - 1) + 1]
      BY <3>1, ImageByte, Zenon DEF inode
    <3>3. QED
      BY <2>1, <3>1, <3>2, Zenon DEF Nth
  <2> HIDE DEF a
  <2>3. a = Contents[f]
    BY SMTT(30), <1>1, <2>1, <2>2, SeqEqual
  <2>4. QED
    BY <2>3, Zenon DEF a
<1>5. SubSeq(Stretch(MCImage, inode, 0, L), offset + 1, offset + n) = Stretch(MCImage, inode, offset, n)
  <2>1. offset \in 0 .. L /\ n \in 0 .. L - offset
    BY <1>1
  <2>2. QED
    BY Zenon, <1>1, <2>1, StretchPart
<1>6. QED
  BY <1>3, <1>4, <1>5, Zenon

\* Padding keeps apart names that have no NUL of their own.
LEMMA PaddedApart ==
    ASSUME NEW C, Nul \notin C, NEW x \in Seq(C), NEW y \in Seq(C),
           Len(x) <= MAX_NAME_LENGTH, Len(y) <= MAX_NAME_LENGTH, Padded(x) = Padded(y)
    PROVE  x = y
<1>1. MAX_NAME_LENGTH \in Nat /\ Len(x) \in Nat /\ Len(y) \in Nat
  BY FileSystemAssumption
<1>2. \A j \in 1 .. MAX_NAME_LENGTH :
        (IF j <= Len(x) THEN x[j] ELSE Nul) = (IF j <= Len(y) THEN y[j] ELSE Nul)
  <2>1. \A j \in 1 .. MAX_NAME_LENGTH : Padded(x)[j] = Padded(y)[j]
    BY Zenon
  <2>2. QED
    BY <2>1, Zenon DEF Padded
<1>3. \A j \in 1 .. MAX_NAME_LENGTH : (j <= Len(x)) <=> (j <= Len(y))
  BY <1>1, <1>2
<1>4. Len(x) = Len(y)
  <2>1. ~(Len(x) < Len(y))
    BY <1>1, <1>3
  <2>2. ~(Len(y) < Len(x))
    BY <1>1, <1>3
  <2>3. QED
    BY <1>1, <2>1, <2>2
<1>5. \A j \in 1 .. Len(x) : x[j] = y[j]
  BY <1>1, <1>2, <1>4
<1>6. QED
  BY <1>4, <1>5, SeqEqual, Zenon

\* The look-up of a command's word finds the file of that name.
LEMMA FileIsFound ==
    ASSUME NEW word \in Seq(Characters), Len(word) < MAX_NAME_LENGTH
    PROVE  LET at == read_dentry_by_name(MCImage, word)
           IN  \/ at = NotFound /\ \A f \in Files : FileNames[f] # word
               \/ at \in Files /\ FileNames[at] = word
<1> DEFINE at == read_dentry_by_name(MCImage, word)
           n == Len(MCImage.dentries)
<1>0. MAX_NAME_LENGTH \in Nat /\ Len(word) \in Nat /\ Len(Contents) \in Nat
  BY FileSystemAssumption, CommandsAssumption
<1>1. n = Len(Contents)
  <2> DEFINE D == MCImage.dentries
  <2>1. D = [g \in 1 .. Len(Contents) |-> [file_name |-> Padded(FileNames[g]),
                file_type |-> FILE_TYPE_FILE, inode_number |-> g]]
    BY Zenon DEF MCImage, Files
  <2> HIDE DEF D
  <2>2. Len(D) = Len(Contents)
    BY <1>0, <2>1
  <2>3. QED
    BY <2>2, Zenon DEF D
<1>2. Nul \notin Characters /\ Letters \subseteq Characters
  BY Zenon, CommandsAssumption DEF Characters, Nul, Space
<1>3. \A f \in Files : FileNames[f] \in Seq(Characters) /\ Len(FileNames[f]) <= MAX_NAME_LENGTH
  <2> SUFFICES ASSUME NEW f \in Files
               PROVE  FileNames[f] \in Seq(Characters) /\ Len(FileNames[f]) <= MAX_NAME_LENGTH
    BY Zenon
  <2>1. FileNames[f] \in Seq(Letters) /\ Len(FileNames[f]) <= MAX_NAME_LENGTH
    BY Zenon, FileFacts
  <2>2. QED
    BY <1>2, <2>1
<1>4. HasNames(MCImage, Characters)
  BY <1>0, <1>1, <1>2, <1>3, ImageIs DEF HasNames, Files
<1>5. SubSeq(word, 1, Smaller(Len(word), MAX_NAME_LENGTH)) = word
  <2>1. Smaller(Len(word), MAX_NAME_LENGTH) = Len(word)
    BY <1>0, Zenon DEF Smaller
  <2>2. SubSeq(word, 1, Len(word)) = word
    <3>1. Len(word) \in 0 .. Len(word)
      BY <1>0
    <3>2. /\ SubSeq(word, 1, Len(word)) \in Seq(Characters)
          /\ Len(SubSeq(word, 1, Len(word))) = Len(word)
          /\ \A j \in 1 .. Len(word) : SubSeq(word, 1, Len(word))[j] = word[j]
      BY <3>1, CutIs, Zenon
    <3>3. QED
      BY <3>2, SeqEqual, Zenon
  <2>3. QED
    BY <2>1, <2>2, Zenon
<1> DEFINE here(i) == MCImage.dentries[i].file_name = Padded(word)
<1>6. \/ at = NotFound /\ \A i \in 1 .. n : ~here(i)
      \/ at \in 1 .. n /\ here(at)
  <2>1. LET asked == Padded(SubSeq(word, 1, Smaller(Len(word), MAX_NAME_LENGTH)))
            there(i) == MCImage.dentries[i].file_name = asked
        IN  \/ at = NotFound /\ \A i \in 1 .. Len(MCImage.dentries) : ~there(i)
            \/ /\ at \in 1 .. Len(MCImage.dentries) /\ there(at)
               /\ \A i \in 1 .. Len(MCImage.dentries) : there(i) => at <= i
    BY <1>4, LookUpFinds, Zenon
  <2>2. QED
    BY <1>5, <2>1, Zenon
<1>7. ASSUME NEW f \in Files PROVE here(f) <=> FileNames[f] = word
  <2>1. here(f) <=> Padded(FileNames[f]) = Padded(word)
    BY ImageIs, Zenon
  <2>2. Padded(FileNames[f]) = Padded(word) => FileNames[f] = word
    BY <1>0, <1>2, <1>3, PaddedApart
  <2>3. QED
    BY <2>1, <2>2, Zenon
<1> HIDE DEF here, at
<1>8. Files = 1 .. n
  BY <1>1, Zenon DEF Files
<1>9. QED
  BY <1>6, <1>7, <1>8, Zenon DEF at

\* A program page, whatever it holds.
IsPage(page) == page = [a \in 0 .. PageSize - 1 |-> page[a]]

\* The page and the entry point of a program that runs.
HoldsFile(r, f) ==
    /\ \A i \in 1 .. Len(Contents[f]) : r.page[i - 1] = Contents[f][i]
    /\ r.entry_point = SubSeq(Contents[f], ENTRY_POINT_LOCATION + 1, ENTRY_POINT_LOCATION + BUF_SIZE)

IsExecutable(f) == SubSeq(Contents[f], 1, BUF_SIZE) = magic_number

\* What execute gives for a command, with `args` in the control block before.
RunsRight(c, args, r) ==
    /\ r.value = 0 <=> \E f \in Named(c) : IsExecutable(f)
    /\ r.value = 0 => r.args = IF RestOf(c) = <<>> THEN args ELSE RestOf(c)
    /\ r.value = 0 => \A f \in Named(c) : HoldsFile(r, f)

\* A command is a sequence of characters and fits the arrays of execute.
LEMMA CommandIs ==
    ASSUME NEW c \in Commands
    PROVE  /\ c \in Seq(Characters) /\ Len(c) < MAX_LENGTH_ARG
           /\ Len(WordOf(c)) < MAX_NAME_LENGTH /\ Nul \notin Characters
<1>1. PICK n \in 0 .. MaxCommand : c \in [1 .. n -> Characters]
  BY Zenon DEF Commands
<1>2. MaxCommand \in Nat /\ MaxCommand < MAX_LENGTH_ARG /\ MAX_LENGTH_ARG \in Nat
  BY CommandsAssumption, LoaderAssumption, Zenon
<1>3. c \in Seq(Characters) /\ Len(c) = n
  BY <1>1, <1>2
<1>4. Nul \notin Characters
  BY Zenon, CommandsAssumption DEF Characters, Nul, Space
<1>5. Len(WordOf(c)) < MAX_NAME_LENGTH
  BY Zenon DEF Commands
<1>6. QED
  BY <1>1, <1>2, <1>3, <1>4, <1>5

\* The page of a program that was loaded.
LEMMA PageIsLoaded ==
    ASSUME NEW page, IsPage(page), NEW f \in Files
    PROVE  /\ IsPage(load(MCImage, page, f))
           /\ \A i \in 1 .. Len(Contents[f]) : load(MCImage, page, f)[i - 1] = Contents[f][i]
<1> DEFINE inode == MCImage.inodes[f]
           L == Len(Contents[f])
           after == load(MCImage, page, f)
<1>1. inode.length = L /\ L \in Nat /\ L <= PageSize
  BY Zenon, FileFacts, ImageIs
<1>2. PageSize \in Nat
  BY LoaderAssumption, Zenon
<1>3. DOMAIN page = 0 .. PageSize - 1 /\ page = [a \in DOMAIN page |-> page[a]]
  BY Zenon DEF IsPage
<1>4. after = Loaded(MCImage, inode, page, L)
  <2>1. after = Loaded(MCImage, inode, page, inode.length)
    BY <1>1, <1>3, LoadCopies, Zenon
  <2>2. QED
    BY <1>1, <2>1, Zenon
<1> HIDE DEF after
<1>5. after = [a \in 0 .. PageSize - 1 |->
                 IF a \in 0 .. L - 1 THEN ByteAt(MCImage, inode, a) ELSE page[a]]
  BY <1>3, <1>4, Zenon DEF Loaded
<1>6. IsPage(after)
  BY <1>5, Zenon DEF IsPage
<1>7. ASSUME NEW i \in 1 .. L PROVE after[i - 1] = Contents[f][i]
  <2>1. i - 1 \in 0 .. L - 1 /\ i - 1 \in 0 .. PageSize - 1 /\ (i - 1) + 1 = i
    BY <1>1, <1>2
  <2>2. ByteAt(MCImage, inode, i - 1) = Contents[f][(i - 1) + 1]
    BY <2>1, ImageByte, Zenon
  <2> HIDE DEF inode
  <2>3. QED
    BY <1>5, <2>1, <2>2, Zenon
<1>8. QED
  BY <1>6, <1>7, Zenon DEF after

\* execute runs what the command line means, whatever is in the page
\* and in the control block before.
THEOREM ExecuteRuns ==
    ASSUME NEW c \in Commands, NEW page, IsPage(page), NEW args
    PROVE  RunsRight(c, args, execute(MCImage, page, args, c))
<1> DEFINE word == WordOf(c)
           p == parse(c)
           r == execute(MCImage, page, args, c)
           at == read_dentry_by_name(MCImage, word)
           kept == IF p.local_arg_start_flag THEN CString(p.local_arg) ELSE args
           refused == [value |-> -1, page |-> page, args |-> args, entry_point |-> <<>>]
<1>1. /\ c \in Seq(Characters) /\ Len(c) < MAX_LENGTH_ARG
      /\ Len(word) < MAX_NAME_LENGTH /\ Nul \notin Characters
  BY CommandIs, Zenon
<1>2. CString(p.file_name) = word /\ kept = IF RestOf(c) = <<>> THEN args ELSE RestOf(c)
  BY <1>1, CommandIsParsed, Zenon
<1>3. word \in Seq(Characters)
  BY <1>1, WordIs, Zenon
<1>4. \/ at = NotFound /\ \A f \in Files : FileNames[f] # word
      \/ at \in Files /\ FileNames[at] = word
  BY <1>1, <1>3, FileIsFound, Zenon
<1>5. r = IF at = NotFound THEN refused
          ELSE IF ~Executable(MCImage, MCImage.dentries[at].inode_number) THEN refused
          ELSE [value |-> 0,
                page |-> load(MCImage, page, MCImage.dentries[at].inode_number),
                args |-> kept,
                entry_point |-> read_data(MCImage, MCImage.dentries[at].inode_number,
                                          ENTRY_POINT_LOCATION, BUF_SIZE)]
  <2> HIDE DEF word
  <2>1. QED
    BY <1>2, Zenon DEF execute
<1> HIDE DEF word, r, at, kept, p
<1>6. CASE at = NotFound /\ \A f \in Files : FileNames[f] # word
  <2>1. r.value = -1
    BY <1>5, <1>6, Zenon
  <2>2. Named(c) = {}
    BY <1>6, Zenon DEF Named, word
  <2>3. RunsRight(c, args, r)
    BY <2>1, <2>2 DEF RunsRight
  <2>4. QED
    BY <2>3, Zenon DEF r
<1>7. CASE at \in Files /\ FileNames[at] = word
  <2>1. at # NotFound /\ MCImage.dentries[at].inode_number = at
    BY Zenon, <1>7, FileFacts, ImageIs DEF NotFound
  <2>2. Named(c) = {at}
    <3>1. \A f, g \in Files : FileNames[f] = FileNames[g] => f = g
      BY CommandsAssumption, Zenon
    <3>2. QED
      BY <1>7, <3>1, Zenon DEF Named, word
  <2>3. Executable(MCImage, at) <=> IsExecutable(at)
    <3>1. BUF_SIZE \in Nat /\ BUF_SIZE > 0 /\ 0 \in Nat /\ 0 + 1 = 1 /\ 0 + BUF_SIZE = BUF_SIZE
      BY LoaderAssumption
    <3>2. 0 + BUF_SIZE <= Len(Contents[at])
      BY Zenon, <1>7, <3>1, FileFacts
    <3>3. read_data(MCImage, at, 0, BUF_SIZE) = SubSeq(Contents[at], 0 + 1, 0 + BUF_SIZE)
      BY <1>7, <3>1, <3>2, ImageRead
    <3>4. QED
      BY <3>1, <3>3, Zenon DEF Executable, IsExecutable
  <2>4. CASE ~IsExecutable(at)
    <3>1. r.value = -1
      BY Zenon, <1>5, <2>1, <2>3, <2>4
    <3>2. RunsRight(c, args, r)
      BY SMTT(30), <2>2, <2>4, <3>1 DEF RunsRight
    <3>3. QED
      BY <3>2, Zenon DEF r
  <2>5. CASE IsExecutable(at)
    <3>1. /\ r.value = 0 /\ r.page = load(MCImage, page, at) /\ r.args = kept
          /\ r.entry_point = read_data(MCImage, at, ENTRY_POINT_LOCATION, BUF_SIZE)
      BY <1>5, <2>1, <2>3, <2>5, Zenon
    <3>2. r.entry_point = SubSeq(Contents[at], ENTRY_POINT_LOCATION + 1, ENTRY_POINT_LOCATION + BUF_SIZE)
      <4>1. BUF_SIZE \in Nat /\ BUF_SIZE > 0 /\ ENTRY_POINT_LOCATION \in Nat
        BY LoaderAssumption
      <4>2. Len(Contents[at]) >= ENTRY_POINT_LOCATION + BUF_SIZE
        BY <1>7, <2>5, CommandsAssumption, Zenon DEF IsExecutable
      <4>3. Len(Contents[at]) \in Nat
        BY <1>7, FileFacts, Zenon
      <4>4. ENTRY_POINT_LOCATION + BUF_SIZE <= Len(Contents[at])
        BY <4>1, <4>2, <4>3, Zenon
      <4>5. QED
        BY <1>7, <3>1, <4>1, <4>4, ImageRead, Zenon
    <3>3. \A i \in 1 .. Len(Contents[at]) : load(MCImage, page, at)[i - 1] = Contents[at][i]
      BY Zenon, <1>7, PageIsLoaded
    <3>4. HoldsFile(r, at)
      BY <3>1, <3>2, <3>3, Zenon DEF HoldsFile
    <3>5. RunsRight(c, args, r)
      BY <1>2, <2>2, <2>5, <3>1, <3>4, Zenon DEF RunsRight
    <3>6. QED
      BY <3>5, Zenon DEF r
  <2>6. QED
    BY <2>4, <2>5, Zenon
<1>8. QED
  BY <1>4, <1>6, <1>7, Zenon

\* The calls of execute.
CommandCalls == call = None /\ result = <<>> /\ [][CallExecute]_<<call, result>>

\* CommandIsRun: for every length of the arrays, size of a block, of a piece and
\* of the page, and for all files and names, execute runs what a command means.
THEOREM CommandsAreRun == CommandCalls => []CommandIsRun
<1>1. call = None => CommandIsRun
  BY DEF None, CommandIsRun, RunsExecutables, ArgumentIsRest, LoadedWhole, Runs
<1>2. CommandIsRun /\ [CallExecute]_<<call, result>> => CommandIsRun'
  <2> SUFFICES ASSUME CommandIsRun, [CallExecute]_<<call, result>> PROVE CommandIsRun'
    BY Zenon
  <2>1. CASE CallExecute
    <3>1. PICK c \in Commands, page \in {EmptyPage} \cup {load(MCImage, EmptyPage, f) : f \in Files},
               args \in {<<>>} \cup {<<a>> : a \in Letters} :
            Does([op |-> "execute", command |-> c, args |-> args], execute(MCImage, page, args, c))
      BY <2>1, Zenon DEF CallExecute
    <3>2. IsPage(EmptyPage)
      BY Zenon DEF IsPage, EmptyPage
    <3>3. IsPage(page)
      <4>1. page = EmptyPage \/ \E f \in Files : page = load(MCImage, EmptyPage, f)
        BY <3>1, Zenon
      <4>2. QED
        BY <3>2, <4>1, PageIsLoaded, Zenon
    <3>4. RunsRight(c, args, execute(MCImage, page, args, c))
      BY <3>3, ExecuteRuns, Zenon
    <3>5. /\ call' = [op |-> "execute", command |-> c, args |-> args]
          /\ result' = execute(MCImage, page, args, c)
      BY <3>1, Zenon DEF Does
    <3>6. call'.command = c /\ call'.args = args /\ RunsRight(c, args, result')
      BY <3>4, <3>5, Zenon
    <3>7. RunsExecutables'
      BY <3>6, Zenon DEF RunsExecutables, RunsRight, IsExecutable
    <3>8. ArgumentIsRest'
      BY <3>6, Zenon DEF ArgumentIsRest, Runs, RunsRight
    <3>9. LoadedWhole'
      BY <3>6, Zenon DEF LoadedWhole, Runs, RunsRight, HoldsFile
    <3>10. QED
      BY <3>7, <3>8, <3>9, Zenon DEF CommandIsRun
  <2>2. CASE UNCHANGED <<call, result>>
    BY <2>2, Zenon DEF CommandIsRun, RunsExecutables, ArgumentIsRest, LoadedWhole, Runs
  <2>3. QED
    BY <2>1, <2>2, Zenon
<1>3. QED
  BY <1>1, <1>2, PTL DEF CommandCalls
=============================================================================
