----------------------------- MODULE FileProofs -----------------------------
(***************************************************************************)
(* Proofs about the file system: what read_data copies and what            *)
(* read_dentry_by_name finds, for every image.                             *)
(***************************************************************************)
EXTENDS FileSystem, WellFoundedInduction, TLAPS

-----------------------------------------------------------------------------
(* Induction, with a set where the library has an operator *)

\* Every loop of limeOS that searches from the bottom up finds the least index
\* there is: a set of natural numbers that is not empty has a least element.
LEMMA LeastNat ==
    ASSUME NEW S \in SUBSET Nat, S # {}
    PROVE  \E m \in S : \A k \in S : m <= k
<1>1. \E R : /\ IsWellFoundedOn(R, Nat)
             /\ \A x, y \in Nat : y < x => <<y, x>> \in R
  <2>1. \A x, y \in Nat : y < x => <<y, x>> \in OpToRel(<, Nat)
    BY Zenon DEF OpToRel
  <2>2. QED
    BY <2>1, NatLessThanWellFounded, Zenon
<1>2. PICK R : /\ IsWellFoundedOn(R, Nat)
               /\ \A x, y \in Nat : y < x => <<y, x>> \in R
  BY <1>1, Zenon
<1>3. PICK x \in S : \A y \in S : ~(<<y, x>> \in R)
  BY <1>2, WFMin, Zenon
<1>4. \A k \in S : ~(k < x)
  BY <1>2, <1>3, Zenon
<1>5. QED
  BY <1>4

\* A loop that counts up keeps what its first round has and every round hands
\* to the next: a set that holds 0, and n + 1 with n, holds every number.
LEMMA NatSetInduction ==
    ASSUME NEW S, 0 \in S, \A n \in Nat : n \in S => n + 1 \in S
    PROVE  Nat \subseteq S
<1> DEFINE T == Nat \ S
<1>1. SUFFICES ASSUME T # {} PROVE FALSE
  BY Zenon
<1>2. PICK m \in T : \A k \in T : m <= k
  BY <1>1, LeastNat, Zenon
<1>3. m # 0 /\ m \in Nat /\ m - 1 \in Nat /\ m - 1 \notin T
  BY <1>2
<1>4. m - 1 \in S /\ (m - 1) + 1 = m
  BY <1>3
<1>5. QED
  BY <1>2, <1>3, <1>4, Zenon

\* The states f of a loop that starts from b and goes n rounds, each from one
\* state in S to the next by g.
IsLoop(f, S, b, g, n) ==
    /\ f \in [0 .. n -> S]
    /\ f[0] = b
    /\ \A i \in 1 .. n : f[i] = g[i][f[i - 1]]

\* Every such loop has states.
LEMMA LoopExists ==
    ASSUME NEW S, NEW b \in S, NEW g \in [Nat -> [S -> S]], NEW n \in Nat
    PROVE  \E f : IsLoop(f, S, b, g, n)
<1> DEFINE P(f, m) == f[0] = b /\ \A i \in 1 .. m : f[i] = g[i][f[i - 1]]
           T == {m \in Nat : \E f \in [0 .. m -> S] : P(f, m)}
<1>1. 0 \in T
  <2>1. [i \in 0 .. 0 |-> b] \in [0 .. 0 -> S] /\ P([i \in 0 .. 0 |-> b], 0)
    OBVIOUS
  <2>2. QED
    BY <2>1, Zenon
<1>2. ASSUME NEW m \in Nat, m \in T PROVE m + 1 \in T
  <2>1. PICK f \in [0 .. m -> S] : P(f, m)
    BY <1>2, Zenon
  <2> DEFINE h == [i \in 0 .. m + 1 |-> IF i <= m THEN f[i] ELSE g[m + 1][f[m]]]
  <2>2. h \in [0 .. m + 1 -> S]
    BY <2>1
  <2>3. h[0] = b
    BY <2>1
  <2>4. ASSUME NEW i \in 1 .. m + 1 PROVE h[i] = g[i][h[i - 1]]
    <3>1. i - 1 \in 0 .. m /\ h[i - 1] = f[i - 1]
      BY <2>1
    <3>2. CASE i <= m
      BY <2>1, <3>1, <3>2
    <3>3. CASE i = m + 1
      BY <2>1, <3>1, <3>3
    <3>4. QED
      BY <3>2, <3>3
  <2> HIDE DEF h
  <2>5. P(h, m + 1)
    BY <2>3, <2>4, Zenon
  <2>6. QED
    BY <2>2, <2>5
<1> HIDE DEF T
<1>3. Nat \subseteq T
  BY <1>1, <1>2, NatSetInduction, Zenon
<1>4. n \in T
  BY <1>3, Zenon
<1>5. QED
  BY <1>4, Zenon DEF T, IsLoop

\* And whatever describes those states stays in S.
LEMMA LoopStays ==
    ASSUME NEW S, NEW f, NEW n \in Nat, f[0] \in S,
           \A i \in 1 .. n : f[i - 1] \in S => f[i] \in S
    PROVE  \A i \in 0 .. n : f[i] \in S
<1> DEFINE T == {m \in Nat : m <= n => f[m] \in S}
<1>1. 0 \in T
  BY Zenon
<1>2. ASSUME NEW m \in Nat, m \in T PROVE m + 1 \in T
  <2>1. CASE m + 1 <= n
    <3>1. f[m] \in S /\ m + 1 \in 1 .. n /\ (m + 1) - 1 = m
      BY <1>2, <2>1
    <3>2. f[m + 1] \in S
      BY <3>1, Zenon
    <3>3. QED
      BY <3>2
  <2>2. CASE ~(m + 1 <= n)
    BY <2>2
  <2>3. QED
    BY <2>1, <2>2, Zenon
<1> HIDE DEF T
<1>3. Nat \subseteq T
  BY <1>1, <1>2, NatSetInduction, Zenon
<1>4. QED
  BY <1>3 DEF T

-----------------------------------------------------------------------------
(* Sequences *)

\* A string that is written one character at a time grows by that character.
LEMMA AppendProperties ==
    ASSUME NEW T, NEW s \in Seq(T), NEW c \in T
    PROVE  /\ Append(s, c) \in Seq(T) /\ Append(s, c) # <<>>
           /\ Len(Append(s, c)) = Len(s) + 1
           /\ \A i \in 1 .. Len(s) : Append(s, c)[i] = s[i]
           /\ Append(s, c)[Len(s) + 1] = c
  OBVIOUS

\* Where the bytes of two strings are when the second is copied behind the first.
LEMMA ConcatProperties ==
    ASSUME NEW T, NEW s \in Seq(T), NEW u \in Seq(T)
    PROVE  /\ s \o u \in Seq(T) /\ Len(s \o u) = Len(s) + Len(u)
           /\ \A i \in 1 .. Len(s) + Len(u) :
                  (s \o u)[i] = IF i <= Len(s) THEN s[i] ELSE u[i - Len(s)]
  OBVIOUS

\* A copy of no bytes changes nothing.
LEMMA ConcatEmptySeq ==
    ASSUME NEW T, NEW s \in Seq(T)
    PROVE  s \o <<>> = s /\ <<>> \o s = s
  OBVIOUS

\* The string of no bytes is the only one with length 0.
LEMMA EmptySeq ==
    ASSUME NEW T
    PROVE  /\ <<>> \in Seq(T) /\ Len(<<>>) = 0
           /\ \A s \in Seq(T) : s # <<>> => Len(s) \in Nat \ {0}
  OBVIOUS

\* Two strings with the same bytes are the same.
LEMMA SeqEqual ==
    ASSUME NEW T, NEW s \in Seq(T), NEW u \in Seq(T),
           Len(s) = Len(u), \A i \in 1 .. Len(s) : s[i] = u[i]
    PROVE  s = u
  OBVIOUS

\* The bytes from the m-th to the n-th.
LEMMA SubSeqProperties ==
    ASSUME NEW T, NEW s, NEW m \in Int, NEW n \in Int, \A i \in m .. n : s[i] \in T
    PROVE  /\ SubSeq(s, m, n) \in Seq(T)
           /\ Len(SubSeq(s, m, n)) = IF m <= n THEN n - m + 1 ELSE 0
           /\ \A i \in 1 .. n - m + 1 : SubSeq(s, m, n)[i] = s[m + i - 1]
  OBVIOUS

\* There are none when n is below m.
LEMMA SubSeqEmpty ==
    ASSUME NEW s, NEW m \in Int, NEW n \in Int, n < m
    PROVE  SubSeq(s, m, n) = <<>>
  OBVIOUS

-----------------------------------------------------------------------------
(* What read_data copies *)

\* The byte of a file at position i.
ByteAt(img, inode, i) == Byte(img, BlockNumber(inode, i \div FOUR_KB), i % FOUR_KB)

\* The i-th byte from a position on.
Nth(img, inode, offset, i) == ByteAt(img, inode, offset + i - 1)

\* The bytes of a file from a position on, m of them.
Stretch(img, inode, offset, m) == [i \in 1 .. m |-> Nth(img, inode, offset, i)]

\* The bytes of the files of an image.
BytesOf(img, inode) == {ByteAt(img, inode, i) : i \in Nat}

\* A quotient and a remainder are the only ones.
LEMMA DivisionUnique ==
    ASSUME NEW K \in Nat \ {0}, NEW a \in Int, NEW b \in Int,
           NEW r \in 0 .. K - 1, NEW s \in 0 .. K - 1, K * a + r = K * b + s
    PROVE  a = b /\ r = s
<1>1. ASSUME NEW c \in Int, NEW d \in Int, c < d PROVE K * c + K <= K * d
  <2>1. d - c - 1 \in Nat
    BY <1>1
  <2>2. K * (d - c - 1) \in Nat
    BY <2>1
  <2>3. K * (d - c - 1) = K * d - K * c - K
    BY <1>1
  <2>4. QED
    BY <2>2, <2>3
<1>2. K * a \in Int /\ K * b \in Int
  OBVIOUS
<1>3. ~(a < b)
  BY <1>1, <1>2
<1>4. ~(b < a)
  BY <1>1, <1>2
<1>5. QED
  BY <1>2, <1>3, <1>4

\* One byte further in a file is one byte further in its block, or the first
\* byte of the next.
LEMMA NextPosition ==
    ASSUME NEW K \in Nat \ {0}, NEW x \in Nat
    PROVE  /\ x \div K \in Nat /\ x % K \in 0 .. K - 1
           /\ (x % K) + 1 >= K => (x + 1) % K = 0 /\ (x + 1) \div K = x \div K + 1
           /\ ~((x % K) + 1 >= K) => (x + 1) % K = (x % K) + 1 /\ (x + 1) \div K = x \div K
<1>1. ASSUME NEW y \in Nat
      PROVE  y \div K \in Nat /\ y % K \in 0 .. K - 1 /\ y = K * (y \div K) + (y % K)
  <2>1. y % K \in 0 .. K - 1
    OBVIOUS
  <2>2. y = K * (y \div K) + (y % K)
    OBVIOUS
  <2>3. y \div K \in Nat
    OBVIOUS
  <2>4. QED
    BY <2>1, <2>2, <2>3, Zenon
<1> DEFINE q == x \div K
           r == x % K
           Q == (x + 1) \div K
           R == (x + 1) % K
<1>2. /\ q \in Nat /\ r \in 0 .. K - 1 /\ x = K * q + r
      /\ Q \in Nat /\ R \in 0 .. K - 1 /\ x + 1 = K * Q + R
  BY <1>1
<1> HIDE DEF q, r, Q, R
<1>3. K * q + (r + 1) = K * Q + R
  BY <1>2
<1>4. CASE r + 1 >= K
  <2>1. r + 1 = K /\ K * (q + 1) = K * q + K
    BY <1>2, <1>4
  <2>2. K * (q + 1) + 0 = K * Q + R /\ 0 \in 0 .. K - 1
    BY <1>2, <1>3, <2>1
  <2>3. q + 1 = Q /\ 0 = R
    BY <1>2, <2>2, DivisionUnique
  <2>4. QED
    BY <1>2, <1>4, <2>3, Zenon DEF q, r, Q, R
<1>5. CASE ~(r + 1 >= K)
  <2>1. r + 1 \in 0 .. K - 1
    BY <1>2, <1>5
  <2>2. q = Q /\ r + 1 = R
    BY <1>2, <1>3, <2>1, DivisionUnique
  <2>3. QED
    BY <1>2, <1>5, <2>2, Zenon DEF q, r, Q, R
<1>6. QED
  BY <1>4, <1>5, Zenon

\* Such a stretch is a sequence of that many bytes.
LEMMA StretchIs ==
    ASSUME NEW img, NEW inode, NEW offset \in Nat
    PROVE  \A m \in Nat :
             /\ Stretch(img, inode, offset, m) \in Seq(BytesOf(img, inode))
             /\ Len(Stretch(img, inode, offset, m)) = m
             /\ \A i \in 1 .. m : Stretch(img, inode, offset, m)[i] = Nth(img, inode, offset, i)
<1> TAKE m \in Nat
<1>1. \A i \in 1 .. m : Nth(img, inode, offset, i) \in BytesOf(img, inode)
  BY DEF BytesOf, Nth
<1>2. QED
  BY <1>1 DEF Stretch

\* One more byte behind it is a longer stretch.
LEMMA StretchGrows ==
    ASSUME NEW img, NEW inode, NEW offset \in Nat, NEW m \in Nat, NEW k \in Nat, k = m + 1
    PROVE  Append(Stretch(img, inode, offset, m), ByteAt(img, inode, offset + m))
             = Stretch(img, inode, offset, k)
<1> DEFINE S == BytesOf(img, inode)
           a == Stretch(img, inode, offset, m)
           b == Stretch(img, inode, offset, k)
           e == ByteAt(img, inode, offset + m)
<1>0. \A n \in Nat :
        /\ Stretch(img, inode, offset, n) \in Seq(BytesOf(img, inode))
        /\ Len(Stretch(img, inode, offset, n)) = n
        /\ \A i \in 1 .. n : Stretch(img, inode, offset, n)[i] = Nth(img, inode, offset, i)
  BY Zenon, StretchIs
<1>1. a \in Seq(S) /\ Len(a) = m /\ \A i \in 1 .. m : a[i] = Nth(img, inode, offset, i)
  BY <1>0, Zenon
<1>2. b \in Seq(S) /\ Len(b) = k /\ \A i \in 1 .. k : b[i] = Nth(img, inode, offset, i)
  BY <1>0, Zenon
<1>3. e \in S
  BY DEF BytesOf
<1> HIDE DEF a, b, S
<1>4. e = Nth(img, inode, offset, k)
  BY DEF Nth
<1> HIDE DEF e
<1>5. /\ Append(a, e) \in Seq(S) /\ Len(Append(a, e)) = k
      /\ \A i \in 1 .. m : Append(a, e)[i] = a[i]
      /\ Append(a, e)[k] = e
  BY <1>1, <1>3, AppendProperties
<1>6. \A i \in 1 .. k : Append(a, e)[i] = b[i]
  BY <1>1, <1>2, <1>4, <1>5
<1>7. Append(a, e) = b
  BY <1>2, <1>5, <1>6, SeqEqual, Zenon
<1>8. QED
  BY <1>7, Zenon DEF a, b, e

\* read_data's loop, as a fact about the function it computes.
Start(inode, offset) ==
    [buf |-> <<>>, byte |-> offset % FOUR_KB, index |-> offset \div FOUR_KB,
     block |-> BlockNumber(inode, offset \div FOUR_KB), done |-> FALSE]

Round(img, inode, offset, s) ==
    LET t == [NextByte(inode, s) EXCEPT !.buf = Append(@, Byte(img, s.block, s.byte))]
    IN  [t EXCEPT !.done = AtEnd(inode, offset + Len(t.buf))]

Rounds(inode, length) ==
    IF length < 0 THEN inode.length ELSE Smaller(length, inode.length + 1)

IsReading(f, img, inode, offset, rounds) ==
    f = [n \in 0 .. rounds |->
            IF n = 0 THEN Start(inode, offset)
            ELSE IF f[n - 1].done THEN f[n - 1] ELSE Round(img, inode, offset, f[n - 1])]

\* read_data's loop by name.
LEMMA ReadDataDef ==
    ASSUME NEW img, NEW number, NEW offset, NEW length
    PROVE  LET inode == img.inodes[number]
           IN  read_data(img, number, offset, length) =
                 IF offset >= inode.length THEN <<>>
                 ELSE (CHOOSE f : IsReading(f, img, inode, offset, Rounds(inode, length)))
                          [Rounds(inode, length)].buf
  BY Zenon DEF read_data, IsReading, Start, Round, Rounds

\* Where the loop is after m bytes.
At(img, inode, offset, m) ==
    [buf |-> Stretch(img, inode, offset, m), byte |-> (offset + m) % FOUR_KB,
     index |-> (offset + m) \div FOUR_KB,
     block |-> BlockNumber(inode, (offset + m) \div FOUR_KB),
     done |-> m > 0 /\ offset + m = inode.length]

\* The loop starts before the first byte.
LEMMA StartIs ==
    ASSUME NEW img, NEW inode, NEW offset \in Nat
    PROVE  Start(inode, offset) = At(img, inode, offset, 0)
<1>1. Stretch(img, inode, offset, 0) = <<>>
  <2>1. Stretch(img, inode, offset, 0) \in Seq(BytesOf(img, inode)) /\ Len(Stretch(img, inode, offset, 0)) = 0
    BY Zenon, StretchIs
  <2>2. QED
    BY <2>1, EmptySeq, Zenon
<1>2. offset + 0 = offset
  OBVIOUS
<1>3. (0 > 0 /\ offset + 0 = inode.length) = FALSE
  OBVIOUS
<1>4. QED
  BY Zenon, <1>1, <1>2, <1>3 DEF Start, At

\* When the loop knows that it is at the end.
LEMMA AtDone ==
    ASSUME NEW img, NEW inode, NEW offset, NEW m
    PROVE  At(img, inode, offset, m).done <=> m > 0 /\ offset + m = inode.length
  BY Zenon DEF At

\* One round copies one byte.
LEMMA RoundIs ==
    ASSUME NEW img, NEW inode, NEW offset \in Nat, NEW m \in Nat, NEW k \in Nat, k = m + 1
    PROVE  Round(img, inode, offset, At(img, inode, offset, m)) = At(img, inode, offset, k)
<1> DEFINE s == At(img, inode, offset, m)
           x == offset + m
<1>1. x \in Nat /\ FOUR_KB \in Nat \ {0} /\ offset + k = x + 1 /\ k > 0
  BY FileSystemAssumption
<1>2. /\ x \div FOUR_KB \in Nat /\ x % FOUR_KB \in 0 .. FOUR_KB - 1
      /\ (x % FOUR_KB) + 1 >= FOUR_KB =>
           (x + 1) % FOUR_KB = 0 /\ (x + 1) \div FOUR_KB = x \div FOUR_KB + 1
      /\ ~((x % FOUR_KB) + 1 >= FOUR_KB) =>
           (x + 1) % FOUR_KB = (x % FOUR_KB) + 1 /\ (x + 1) \div FOUR_KB = x \div FOUR_KB
  BY Zenon, <1>1, NextPosition
<1>3. /\ s.byte = x % FOUR_KB /\ s.index = x \div FOUR_KB
      /\ s.block = BlockNumber(inode, x \div FOUR_KB) /\ s.buf = Stretch(img, inode, offset, m)
  BY Zenon DEF At
<1>4. NextByte(inode, s) =
        [buf |-> s.buf, byte |-> (x + 1) % FOUR_KB, index |-> (x + 1) \div FOUR_KB,
         block |-> BlockNumber(inode, (x + 1) \div FOUR_KB), done |-> s.done]
  BY Zenon, <1>2, <1>3 DEF NextByte, At
<1>5. Append(s.buf, Byte(img, s.block, s.byte)) = Stretch(img, inode, offset, k)
  BY <1>3, StretchGrows DEF ByteAt
<1>6. Len(Stretch(img, inode, offset, k)) = k
  BY Zenon, StretchIs
<1> DEFINE bs == Stretch(img, inode, offset, k)
           by == (x + 1) % FOUR_KB
           ix == (x + 1) \div FOUR_KB
           bl == BlockNumber(inode, (x + 1) \div FOUR_KB)
           s1 == [buf |-> s.buf, byte |-> by, index |-> ix, block |-> bl, done |-> s.done]
           s2 == [buf |-> bs, byte |-> by, index |-> ix, block |-> bl, done |-> s.done]
<1>7. Round(img, inode, offset, s) = [s2 EXCEPT !.done = AtEnd(inode, offset + Len(s2.buf))]
  <2>1. NextByte(inode, s) = s1
    BY <1>4, Zenon
  <2>2. [s1 EXCEPT !.buf = Append(@, Byte(img, s.block, s.byte))] = s2
    <3> HIDE DEF s, x, by, ix, bl, bs
    <3>1. Append(s.buf, Byte(img, s.block, s.byte)) = bs
      BY <1>5, Zenon DEF bs
    <3>2. s1.buf = s.buf
      BY Zenon
    <3>3. [s1 EXCEPT !.buf = bs] = s2
      OBVIOUS
    <3> HIDE DEF s1, s2
    <3>4. QED
      BY <3>1, <3>2, <3>3, Zenon
  <2> HIDE DEF s, x, s1, s2, by, ix, bl, bs
  <2>3. QED
    BY Zenon, <2>1, <2>2 DEF Round
<1>9. Len(s2.buf) = k
  BY <1>6, Zenon
<1>10. [s2 EXCEPT !.done = AtEnd(inode, offset + Len(s2.buf))] =
         [buf |-> bs, byte |-> by, index |-> ix, block |-> bl, done |-> AtEnd(inode, offset + k)]
  <2> HIDE DEF s, x, by, ix, bl, bs
  <2>1. QED
    BY <1>9
<1>11. AtEnd(inode, offset + k) = (k > 0 /\ offset + k = inode.length)
  BY <1>1, Zenon DEF AtEnd
<1>8. QED
  BY <1>1, <1>7, <1>10, <1>11, Zenon DEF At

\* The loop stops at the end of the file, D bytes on, or after its rounds.
LEMMA ReadingIs ==
    ASSUME NEW img, NEW inode, NEW offset \in Nat, NEW D \in Nat \ {0}, NEW R \in Nat,
           inode.length = offset + D, NEW f, IsReading(f, img, inode, offset, R)
    PROVE  \A n \in 0 .. R : f[n] = At(img, inode, offset, Smaller(n, D))
<1> DEFINE T == {n \in Nat : n <= R => f[n] = At(img, inode, offset, Smaller(n, D))}
<1>1. \A n \in 0 .. R : f[n] =
        IF n = 0 THEN Start(inode, offset)
        ELSE IF f[n - 1].done THEN f[n - 1] ELSE Round(img, inode, offset, f[n - 1])
  BY Zenon DEF IsReading
<1>2. 0 \in T
  <2>1. f[0] = Start(inode, offset) /\ Smaller(0, D) = 0
    BY <1>1 DEF Smaller
  <2>2. QED
    BY <2>1, StartIs, Zenon
<1>3. ASSUME NEW n \in Nat, n \in T PROVE n + 1 \in T
  <2>1. SUFFICES ASSUME n + 1 <= R PROVE f[n + 1] = At(img, inode, offset, Smaller(n + 1, D))
    OBVIOUS
  <2>2. f[n] = At(img, inode, offset, Smaller(n, D))
    BY <1>3, <2>1
  <2>3. f[n + 1] = IF f[n].done THEN f[n] ELSE Round(img, inode, offset, f[n])
    BY <1>1, <2>1
  <2>4. CASE n < D
    <3>1. Smaller(n, D) = n /\ Smaller(n + 1, D) = n + 1
      BY <2>4 DEF Smaller
    <3>2. ~f[n].done
      BY <2>2, <2>4, <3>1, AtDone
    <3>3. f[n + 1] = Round(img, inode, offset, At(img, inode, offset, n))
      BY <2>2, <2>3, <3>1, <3>2, Zenon
    <3>4. PICK k \in Nat : k = n + 1
      OBVIOUS
    <3>5. Round(img, inode, offset, At(img, inode, offset, n)) = At(img, inode, offset, k)
      BY <3>4, RoundIs
    <3>6. QED
      BY <3>1, <3>3, <3>4, <3>5, Zenon
  <2>5. CASE n >= D
    <3>1. Smaller(n, D) = D /\ Smaller(n + 1, D) = D
      BY <2>5 DEF Smaller
    <3>2. f[n].done
      BY <2>2, <3>1, AtDone
    <3>3. QED
      BY <2>2, <2>3, <3>1, <3>2, Zenon
  <2>6. QED
    BY <2>4, <2>5
<1> HIDE DEF T
<1>4. Nat \subseteq T
  BY <1>2, <1>3, NatSetInduction, Zenon
<1>5. QED
  BY <1>4 DEF T

\* The loop is one: there is a function its rounds describe.
LEMMA ReadingExists ==
    ASSUME NEW img, NEW inode, NEW offset \in Nat, NEW D \in Nat \ {0}, NEW R \in Nat,
           inode.length = offset + D
    PROVE  \E f : IsReading(f, img, inode, offset, R)
<1> DEFINE f == [n \in 0 .. R |-> At(img, inode, offset, Smaller(n, D))]
           g == [n \in 0 .. R |->
                    IF n = 0 THEN Start(inode, offset)
                    ELSE IF f[n - 1].done THEN f[n - 1] ELSE Round(img, inode, offset, f[n - 1])]
<1>1. ASSUME NEW n \in 0 .. R PROVE f[n] = g[n]
  <2>1. CASE n = 0
    BY <2>1, StartIs DEF Smaller
  <2>2. CASE n # 0
    <3>1. n - 1 \in 0 .. R /\ n - 1 \in Nat /\ n \in Nat /\ n = (n - 1) + 1
      BY <2>2
    <3>2. /\ f[n] = At(img, inode, offset, Smaller(n, D))
          /\ f[n - 1] = At(img, inode, offset, Smaller(n - 1, D))
      BY <3>1, Zenon
    <3>3. g[n] = IF f[n - 1].done THEN f[n - 1] ELSE Round(img, inode, offset, f[n - 1])
      BY <2>2, Zenon
    <3> HIDE DEF f, g
    <3>4. CASE n <= D
      <4>1. Smaller(n - 1, D) = n - 1 /\ Smaller(n, D) = n
        BY <3>1, <3>4 DEF Smaller
      <4>2. ~f[n - 1].done
        <5>1. n - 1 # D /\ f[n - 1] = At(img, inode, offset, n - 1)
          BY <3>1, <3>2, <3>4, <4>1
        <5>2. QED
          BY <3>1, <5>1, AtDone
      <4>3. PICK m \in Nat : m = n - 1
        BY <3>1, Zenon
      <4>4. Round(img, inode, offset, At(img, inode, offset, m)) = At(img, inode, offset, n)
        BY <3>1, <4>3, RoundIs
      <4>5. QED
        BY <3>2, <3>3, <4>1, <4>2, <4>3, <4>4, Zenon
    <3>5. CASE n > D
      <4>1. Smaller(n - 1, D) = D /\ Smaller(n, D) = D
        BY <3>1, <3>5 DEF Smaller
      <4>2. f[n - 1].done
        BY <3>2, <4>1, AtDone
      <4>3. QED
        BY <3>2, <3>3, <4>1, <4>2, Zenon
    <3>6. QED
      BY <3>1, <3>4, <3>5
  <2>3. QED
    BY <2>1, <2>2, Zenon
<1>2. f = g
  BY <1>1, Zenon
<1>3. IsReading(f, img, inode, offset, R)
  BY <1>2, Zenon DEF IsReading
<1>4. QED
  BY <1>3, Zenon

\* How many bytes read_data copies.
Count(inode, offset, length) ==
    IF offset >= inode.length THEN 0
    ELSE IF length < 0 THEN inode.length - offset ELSE Smaller(length, inode.length - offset)

\* At least one byte is copied unless the file is at its end or none was asked for.
LEMMA CountIs ==
    ASSUME NEW inode, inode.length \in Nat, NEW offset \in 0 .. inode.length, NEW length \in Int
    PROVE  /\ Count(inode, offset, length) \in 0 .. inode.length - offset
           /\ offset # inode.length /\ length # 0 => Count(inode, offset, length) > 0
           /\ offset = inode.length => Count(inode, offset, length) = 0
  BY DEF Count, Smaller

\* read_data copies the bytes of the file from the offset on, in order, without
\* a gap at the borders of its blocks: as many as were asked for, or those up to
\* the end of the file.
THEOREM ReadDataCopies ==
    ASSUME NEW img, NEW number, NEW offset \in Nat, NEW length \in Int,
           img.inodes[number].length \in Nat
    PROVE  read_data(img, number, offset, length) =
             Stretch(img, img.inodes[number], offset, Count(img.inodes[number], offset, length))
<1> DEFINE inode == img.inodes[number]
           R == Rounds(inode, length)
           F == CHOOSE f : IsReading(f, img, inode, offset, R)
<1>1. read_data(img, number, offset, length) = IF offset >= inode.length THEN <<>> ELSE F[R].buf
  BY ReadDataDef, Zenon
<1>2. CASE offset >= inode.length
  <2>1. Stretch(img, inode, offset, 0) = <<>>
    BY Zenon, StartIs DEF Start, At
  <2>2. QED
    BY <1>1, <1>2, <2>1, Zenon DEF Count
<1>3. CASE ~(offset >= inode.length)
  <2>1. PICK D \in Nat \ {0} : inode.length = offset + D
    <3>1. inode.length - offset \in Nat \ {0} /\ inode.length = offset + (inode.length - offset)
      BY <1>3
    <3>2. QED
      BY <3>1, Zenon
  <2>2. R \in Nat
    BY DEF Rounds, Smaller
  <2>3. Smaller(R, D) = Count(inode, offset, length)
    BY <1>3, <2>1 DEF Rounds, Smaller, Count
  <2> HIDE DEF R, inode
  <2>4. IsReading(F, img, inode, offset, R)
    BY Zenon, <2>1, <2>2, ReadingExists
  <2> HIDE DEF F
  <2>5. F[R] = At(img, inode, offset, Smaller(R, D))
    BY <2>1, <2>2, <2>4, ReadingIs
  <2>6. F[R].buf = Stretch(img, inode, offset, Smaller(R, D))
    BY <2>5 DEF At
  <2>7. QED
    BY <1>1, <1>3, <2>3, <2>6, Zenon DEF inode
<1>4. QED
  BY <1>2, <1>3, Zenon

\* The look-up gives a position in the directory whose name matches, or none.
LEMMA LookUpIn ==
    ASSUME NEW img, Len(img.dentries) \in Nat, NEW name
    PROVE  \/ /\ read_dentry_by_name(img, name) = NotFound
              /\ \A i \in 1 .. Len(img.dentries) : ~Matches(img.dentries[i], name)
           \/ /\ read_dentry_by_name(img, name) \in 1 .. Len(img.dentries)
              /\ Matches(img.dentries[read_dentry_by_name(img, name)], name)
              /\ \A i \in 1 .. Len(img.dentries) :
                   Matches(img.dentries[i], name) => read_dentry_by_name(img, name) <= i
<1> DEFINE hits == {i \in 1 .. Len(img.dentries) : Matches(img.dentries[i], name)}
<1>1. CASE hits = {}
  BY <1>1, Zenon DEF read_dentry_by_name
<1>2. CASE hits # {}
  <2> DEFINE m == CHOOSE i \in hits : \A j \in hits : i <= j
  <2>1. hits \in SUBSET Nat
    OBVIOUS
  <2>2. \E i \in hits : \A j \in hits : i <= j
    BY Zenon, <1>2, <2>1, LeastNat
  <2>3. m \in hits /\ \A j \in hits : m <= j
    BY Zenon, <2>2
  <2>4. read_dentry_by_name(img, name) = m
    BY Zenon, <1>2 DEF read_dentry_by_name
  <2>5. QED
    BY <2>3, <2>4, Zenon
<1>3. QED
  BY <1>1, <1>2, Zenon

-----------------------------------------------------------------------------
(* Look-up and reading, against what they are for *)

\* The bytes of a file from a position on are a part of those from its first
\* one on.
LEMMA StretchPart ==
    ASSUME NEW img, NEW inode, NEW m \in Nat, NEW offset \in 0 .. m, NEW n \in 0 .. m - offset
    PROVE  SubSeq(Stretch(img, inode, 0, m), offset + 1, offset + n) = Stretch(img, inode, offset, n)
<1> DEFINE S == BytesOf(img, inode)
           a == Stretch(img, inode, 0, m)
           b == Stretch(img, inode, offset, n)
           c == SubSeq(a, offset + 1, offset + n)
<1>1. a \in Seq(S) /\ Len(a) = m /\ \A i \in 1 .. m : a[i] = Nth(img, inode, 0, i)
  BY StretchIs
<1>2. b \in Seq(S) /\ Len(b) = n /\ \A i \in 1 .. n : b[i] = Nth(img, inode, offset, i)
  <2>1. n \in Nat /\ offset \in Nat
    OBVIOUS
  <2>2. QED
    BY <2>1, StretchIs
<1>3. \A i \in 1 .. n : Nth(img, inode, offset, i) = Nth(img, inode, 0, offset + i)
  <2> SUFFICES ASSUME NEW i \in 1 .. n
               PROVE  Nth(img, inode, offset, i) = Nth(img, inode, 0, offset + i)
    BY Zenon
  <2>1. 0 + (offset + i) - 1 = offset + i - 1
    OBVIOUS
  <2>2. QED
    BY <2>1, Zenon DEF Nth
<1> HIDE DEF a, b, S
<1>4. \A i \in offset + 1 .. offset + n : a[i] \in S
  BY <1>1
<1>5. /\ c \in Seq(S) /\ Len(c) = n
      /\ \A i \in 1 .. n : c[i] = a[offset + i]
  <2>1. /\ c \in Seq(S)
        /\ Len(c) = IF offset + 1 <= offset + n THEN (offset + n) - (offset + 1) + 1 ELSE 0
        /\ \A i \in 1 .. (offset + n) - (offset + 1) + 1 : c[i] = a[(offset + 1) + i - 1]
    BY <1>4, SubSeqProperties
  <2>2. (offset + n) - (offset + 1) + 1 = n /\ \A i \in 1 .. n : (offset + 1) + i - 1 = offset + i
    OBVIOUS
  <2> HIDE DEF c
  <2>3. QED
    BY <2>1, <2>2
<1> HIDE DEF c
<1>6. \A i \in 1 .. n : b[i] = c[i]
  <2> SUFFICES ASSUME NEW i \in 1 .. n PROVE b[i] = c[i]
    BY Zenon
  <2>1. offset + i \in 1 .. m
    OBVIOUS
  <2>2. QED
    BY <1>1, <1>2, <1>3, <1>5, <2>1, Zenon
<1>7. c = b
  BY <1>2, <1>5, <1>6, SeqEqual, Zenon
<1>8. QED
  BY <1>7, Zenon DEF a, b, c

\* The first n characters of a name.
LEMMA CutIs ==
    ASSUME NEW C, NEW name \in Seq(C), NEW n \in 0 .. Len(name)
    PROVE  /\ SubSeq(name, 1, n) \in Seq(C) /\ Len(SubSeq(name, 1, n)) = n
           /\ \A j \in 1 .. n : SubSeq(name, 1, n)[j] = name[j]
<1>1. \A j \in 1 .. n : name[j] \in C
  OBVIOUS
<1>2. QED
  BY <1>1, SubSeqProperties

\* A name that has a NUL behind it only matches what is asked for, cut to the
\* room an entry has.
LEMMA MatchesIs ==
    ASSUME NEW C, Nul \notin C, NEW x \in Seq(C), NEW entry, entry.file_name = Padded(x),
           NEW D, NEW fname \in Seq(D)
    PROVE  Matches(entry, fname) <=>
             Padded(x) = Padded(SubSeq(fname, 1, Smaller(Len(fname), MAX_NAME_LENGTH)))
<1> DEFINE M == MAX_NAME_LENGTH
           n == Smaller(Len(fname), M)
           cut == SubSeq(fname, 1, n)
<1>1. M \in Nat /\ M > 0 /\ Len(fname) \in Nat /\ Len(x) \in Nat
      /\ n \in 0 .. Len(fname) /\ n <= M
  BY FileSystemAssumption DEF Smaller
<1>2. Len(cut) = n /\ \A j \in 1 .. n : cut[j] = fname[j]
  BY <1>1, CutIs, Zenon
<1>3. Matches(entry, fname) <=>
        (\A j \in 1 .. n : Padded(x)[j] = fname[j]) /\ (n < M => Padded(x)[n + 1] = Nul)
  BY Zenon DEF Matches
<1>4. \A j \in 1 .. M : Padded(x)[j] = IF j <= Len(x) THEN x[j] ELSE Nul
  BY Zenon DEF Padded
<1>5. \A j \in 1 .. M : Padded(cut)[j] = IF j <= n THEN fname[j] ELSE Nul
  <2> HIDE DEF cut, n
  <2>1. \A j \in 1 .. M : Padded(cut)[j] = IF j <= n THEN cut[j] ELSE Nul
    BY <1>2, Zenon DEF Padded
  <2>2. \A j \in 1 .. M : j <= n => j \in 1 .. n
    BY <1>1
  <2>3. QED
    BY <1>2, <2>1, <2>2, Zenon
<1>6. \A y : DOMAIN Padded(y) = 1 .. M /\ Padded(y) = [j \in 1 .. M |-> Padded(y)[j]]
  BY Zenon DEF Padded
<1> HIDE DEF n, cut, M
<1>7. ASSUME Matches(entry, fname) PROVE Padded(x) = Padded(cut)
  <2>1. \A j \in 1 .. n : Padded(x)[j] = fname[j]
    BY <1>3, <1>7, Zenon
  <2>2. n < M => Len(x) <= n
    <3> SUFFICES ASSUME n < M, Len(x) > n PROVE FALSE
      BY <1>1
    <3>1. n + 1 \in 1 .. M /\ n + 1 <= Len(x) /\ n + 1 \in 1 .. Len(x)
      BY <1>1
    <3>2. Padded(x)[n + 1] = x[n + 1] /\ x[n + 1] \in C
      BY <1>4, <3>1
    <3>3. Padded(x)[n + 1] = Nul
      BY <1>3, <1>7, Zenon
    <3>4. QED
      BY <3>2, <3>3, Zenon
  <2>3. ASSUME NEW j \in 1 .. M PROVE Padded(x)[j] = Padded(cut)[j]
    <3>1. CASE j <= n
      BY <1>1, <1>5, <2>1, <3>1
    <3>2. CASE ~(j <= n)
      <4>1. n < M /\ ~(j <= Len(x))
        BY <1>1, <2>2, <3>2
      <4>2. QED
        BY <1>4, <1>5, <3>2, <4>1, Zenon
    <3>3. QED
      BY <3>1, <3>2, Zenon
  <2>4. QED
    BY <1>6, <2>3, Zenon
<1>8. ASSUME Padded(x) = Padded(cut) PROVE Matches(entry, fname)
  <2>1. \A j \in 1 .. n : j \in 1 .. M /\ j <= n
    BY <1>1
  <2>2. \A j \in 1 .. n : Padded(x)[j] = fname[j]
    BY <1>5, <1>8, <2>1, Zenon
  <2>3. n < M => Padded(x)[n + 1] = Nul
    <3> SUFFICES ASSUME n < M PROVE Padded(x)[n + 1] = Nul
      BY Zenon
    <3>1. n + 1 \in 1 .. M /\ ~(n + 1 <= n)
      BY <1>1
    <3>2. QED
      BY <1>5, <1>8, <3>1, Zenon
  <2>4. QED
    BY <1>3, <2>2, <2>3, Zenon
<1>9. QED
  BY <1>7, <1>8, Zenon DEF cut, n, M

\* A directory whose names are padded, as the image's are.
HasNames(img, C) ==
    /\ Nul \notin C /\ Len(img.dentries) \in Nat
    /\ \A i \in 1 .. Len(img.dentries) : \E x \in Seq(C) : img.dentries[i].file_name = Padded(x)

\* read_dentry_by_name finds the first entry with the name that was asked for,
\* cut to MAX_NAME_LENGTH, in every directory whose names are padded with NULs,
\* and says so when there is none.
THEOREM LookUpFinds ==
    ASSUME NEW img, NEW C, HasNames(img, C), NEW D, NEW fname \in Seq(D)
    PROVE  LET at == read_dentry_by_name(img, fname)
               asked == Padded(SubSeq(fname, 1, Smaller(Len(fname), MAX_NAME_LENGTH)))
               here(i) == img.dentries[i].file_name = asked
           IN  \/ at = NotFound /\ \A i \in 1 .. Len(img.dentries) : ~here(i)
               \/ /\ at \in 1 .. Len(img.dentries) /\ here(at)
                  /\ \A i \in 1 .. Len(img.dentries) : here(i) => at <= i
<1> DEFINE asked == Padded(SubSeq(fname, 1, Smaller(Len(fname), MAX_NAME_LENGTH)))
           here(i) == img.dentries[i].file_name = asked
<1>1. ASSUME NEW i \in 1 .. Len(img.dentries)
      PROVE  Matches(img.dentries[i], fname) <=> here(i)
  <2>1. PICK x \in Seq(C) : img.dentries[i].file_name = Padded(x)
    BY Zenon DEF HasNames
  <2>2. Nul \notin C
    BY Zenon DEF HasNames
  <2>3. Matches(img.dentries[i], fname) <=> Padded(x) = asked
    BY <2>1, <2>2, MatchesIs, Zenon
  <2>4. QED
    BY <2>1, <2>3, Zenon
<1>2. Len(img.dentries) \in Nat
  BY Zenon DEF HasNames
<1> HIDE DEF here
<1>3. QED
  BY <1>1, <1>2, LookUpIn, Zenon DEF here
=============================================================================
