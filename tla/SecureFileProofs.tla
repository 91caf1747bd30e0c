-------------------------- MODULE SecureFileProofs --------------------------
(***************************************************************************)
(* Lemmas about the operators of SecureFile, for every block size, header  *)
(* and cipher.                                                             *)
(***************************************************************************)
EXTENDS SecureFile, SequenceTheorems, TLAPS

\* A function on 1..n is a sequence of length n.
LEMMA MakeSeq ==
  ASSUME NEW S, NEW n \in Nat, NEW f \in [1..n -> S]
  PROVE  f \in Seq(S) /\ Len(f) = n /\ DOMAIN f = 1..n
  OBVIOUS

\* The header is a whole number of blocks, and not empty.
LEMMA HeaderSize ==
  /\ FILE_HEADER_POLL_SIZE \in Nat \ {0}
  /\ FILE_HEADER_POLL_SIZE % Block = 0
  /\ HeaderCells \in Seq(Cell)
  BY LayoutAssumption DEF FILE_HEADER_POLL_SIZE

\* Fresh memory.
LEMMA ZerosType ==
  ASSUME NEW n \in Nat
  PROVE  Zeros(n) \in Seq(Cell) /\ Len(Zeros(n)) = n
<1>1. Zeros(n) \in [1..n -> Cell] BY LayoutAssumption DEF Zeros
<1> QED BY <1>1, MakeSeq, Zenon

\* What pread returns: a sequence no longer than asked for.
LEMMA WindowType ==
  ASSUME NEW s \in Seq(Cell), NEW at \in Nat, NEW n \in Nat
  PROVE  Window(s, at, n) \in Seq(Cell) /\ Len(Window(s, at, n)) \in 0..n
<1> DEFINE e == Smaller(at + n, Len(s))
<1>1. e \in Nat /\ e <= Len(s) /\ e <= at + n BY DEF Smaller
<1>2. \A i \in (at + 1)..e : s[i] \in Cell BY <1>1
<1>3. /\ SubSeq(s, at + 1, e) \in Seq(Cell)
      /\ Len(SubSeq(s, at + 1, e)) = IF at + 1 <= e THEN e - (at + 1) + 1 ELSE 0
  BY <1>1, <1>2, SubSeqProperties
<1> QED BY <1>1, <1>3 DEF Window

\* What pwrite leaves.
LEMMA OverlayType ==
  ASSUME NEW s \in Seq(Cell), NEW at \in Nat, NEW d \in Seq(Cell)
  PROVE  /\ Overlay(s, at, d) \in Seq(Cell)
         /\ d = <<>> => Len(Overlay(s, at, d)) = Len(s)
         /\ d # <<>> => Len(Overlay(s, at, d)) = Larger(Len(s), at + Len(d))
<1>1. CASE d = <<>> BY <1>1 DEF Overlay
<1>2. CASE d # <<>>
  <2> DEFINE n == Larger(Len(s), at + Len(d))
  <2>1. n \in Nat BY DEF Larger
  <2>2. \A k \in 1..n : (IF at < k /\ k <= at + Len(d) THEN d[k - at]
                         ELSE IF k <= Len(s) THEN s[k] ELSE Zero) \in Cell
    BY LayoutAssumption
  <2>3. Overlay(s, at, d) \in [1..n -> Cell] BY <1>2, <2>2 DEF Overlay
  <2> QED BY <1>2, <2>1, <2>3, MakeSeq
<1> QED BY <1>1, <1>2

\* pwrite leaves the cells in front of it alone.
LEMMA OverlayBefore ==
  ASSUME NEW s \in Seq(Cell), NEW at \in Nat, NEW d \in Seq(Cell),
         NEW k \in 1..Len(s), k <= at
  PROVE  Overlay(s, at, d)[k] = s[k] /\ k \in 1..Len(Overlay(s, at, d))
<1>1. CASE d = <<>> BY <1>1 DEF Overlay
<1>2. CASE d # <<>>
  <2>1. /\ Len(Overlay(s, at, d)) = Larger(Len(s), at + Len(d))
        /\ k \in 1..Larger(Len(s), at + Len(d))
    BY <1>2, OverlayType DEF Larger
  <2>2. Overlay(s, at, d)[k] = IF at < k /\ k <= at + Len(d) THEN d[k - at]
                               ELSE IF k <= Len(s) THEN s[k] ELSE Zero
    BY <1>2, <2>1, Zenon DEF Overlay
  <2>3. ~ (at < k) /\ k <= Len(s) OBVIOUS
  <2> QED BY <2>1, <2>2, <2>3
<1> QED BY <1>1, <1>2

\* The cells of a complete block are cells of the buffer.
LEMMA BlockBounds ==
  ASSUME NEW n \in Nat, NEW k \in 1..n, InWholeBlock(n, k), NEW j \in 1..Block
  PROVE  ((k - 1) - ((k - 1) % Block)) + j \in 1..n
<1>1. Block \in Nat \ {0} BY LayoutAssumption
<1> DEFINE r == (k - 1) % Block
           b == (k - 1) - r
           q == (k - 1) \div Block
           m == n % Block
           l == n \div Block
<1>2. r \in 0..(Block - 1) BY <1>1
<1>3. q \in Nat /\ b = Block * q BY <1>1
<1>4. l \in Nat /\ n - m = Block * l BY <1>1
<1>5. k - 1 < Block * l
  <2>1. k <= n - m BY DEF InWholeBlock
  <2>2. k <= Block * l BY <2>1, <1>4, Zenon
  <2>3. Block * l \in Int BY <1>4, <1>1
  <2> HIDE DEF l
  <2> QED BY <2>2, <2>3
<1>6. Block * q < Block * l BY <1>3, <1>5, <1>2, <1>1
<1>7. q < l
  <2> SUFFICES ASSUME q >= l PROVE FALSE BY <1>3, <1>4
  <2>1. Block * q >= Block * l BY <1>1, <1>3, <1>4
  <2> QED BY <2>1, <1>6, <1>1, <1>3, <1>4
<1>8. Block * (q + 1) <= Block * l BY <1>7, <1>1, <1>3, <1>4
<1>9. Block * q + Block <= Block * l BY <1>8, <1>1, <1>3
<1>10. m >= 0 /\ m \in Int BY <1>1
<1> HIDE DEF b, q, m, l
<1> QED BY <1>3, <1>4, <1>9, <1>10, <1>1 DEF b

\* Encryption and decryption keep the length and the kind of a buffer.
LEMMA BlockAtType ==
  ASSUME NEW s \in Seq(Cell), NEW k \in 1..Len(s), InWholeBlock(Len(s), k)
  PROVE  /\ BlockAt(s, k) \in BlockSet
         /\ ((k - 1) % Block) + 1 \in 1..Block
<1>1. Block \in Nat \ {0} BY LayoutAssumption
<1>2. (k - 1) % Block \in 0..(Block - 1) BY <1>1
<1>3. \A j \in 1..Block : ((k - 1) - ((k - 1) % Block)) + j \in 1..Len(s)
  BY BlockBounds
<1> QED BY <1>2, <1>3, <1>1 DEF BlockAt, BlockSet

\* The cipher keeps the length of what it is given.
LEMMA CryptType ==
  ASSUME NEW s \in Seq(Cell)
  PROVE  /\ aes_encrypt(s) \in Seq(Cell) /\ Len(aes_encrypt(s)) = Len(s)
         /\ aes_decrypt(s) \in Seq(Cell) /\ Len(aes_decrypt(s)) = Len(s)
<1>1. Len(s) \in Nat OBVIOUS
<1>2. \A k \in 1..Len(s) : s[k] \in Cell OBVIOUS
<1>3. \A k \in 1..Len(s) : InWholeBlock(Len(s), k) =>
        /\ Encrypt(BlockAt(s, k))[((k - 1) % Block) + 1] \in Cell
        /\ Decrypt(BlockAt(s, k))[((k - 1) % Block) + 1] \in Cell
  <2> SUFFICES ASSUME NEW k \in 1..Len(s), InWholeBlock(Len(s), k)
               PROVE  /\ Encrypt(BlockAt(s, k))[((k - 1) % Block) + 1] \in Cell
                      /\ Decrypt(BlockAt(s, k))[((k - 1) % Block) + 1] \in Cell
    OBVIOUS
  <2>1. /\ BlockAt(s, k) \in BlockSet /\ ((k - 1) % Block) + 1 \in 1..Block
    BY BlockAtType
  <2>2. Encrypt(BlockAt(s, k)) \in BlockSet /\ Decrypt(BlockAt(s, k)) \in BlockSet
    BY <2>1, CipherAssumption
  <2> QED BY <2>1, <2>2 DEF BlockSet
<1>4. aes_encrypt(s) \in [1..Len(s) -> Cell] BY <1>2, <1>3 DEF aes_encrypt
<1>5. aes_decrypt(s) \in [1..Len(s) -> Cell] BY <1>2, <1>3 DEF aes_decrypt
<1> QED BY <1>1, <1>4, <1>5, MakeSeq

\* The blocks of an encrypted buffer are the encrypted blocks of the buffer.
LEMMA BlockOfEncrypted ==
  ASSUME NEW s \in Seq(Cell), NEW k \in 1..Len(s), InWholeBlock(Len(s), k)
  PROVE  BlockAt(aes_encrypt(s), k) = Encrypt(BlockAt(s, k))
<1> DEFINE b == (k - 1) - ((k - 1) % Block)
           e == Encrypt(BlockAt(s, k))
<1>1. Block \in Nat \ {0} BY LayoutAssumption
<1>2. e \in [1..Block -> Cell]
  BY BlockAtType, CipherAssumption DEF BlockSet
<1>3. \A j \in 1..Block : aes_encrypt(s)[b + j] = e[j]
  <2> SUFFICES ASSUME NEW j \in 1..Block PROVE aes_encrypt(s)[b + j] = e[j]
    OBVIOUS
  <2>1. /\ b + j \in 1..Len(s) /\ InWholeBlock(Len(s), b + j)
        /\ ((b + j) - 1) % Block = j - 1
    <3> DEFINE q == (k - 1) \div Block
               l == Len(s) \div Block
    <3>1. q \in Nat /\ b = Block * q BY <1>1
    <3>2. l \in Nat /\ Len(s) - (Len(s) % Block) = Block * l /\ Len(s) % Block \in Nat
      BY <1>1
    <3>3. (k - 1) % Block \in 0..(Block - 1) BY <1>1
    <3>4. k <= Block * l BY <3>2 DEF InWholeBlock
    <3>5. Block * q < Block * l BY <3>1, <3>2, <3>3, <3>4, <1>1
    <3>6. q < l
      <4> SUFFICES ASSUME q >= l PROVE FALSE BY <3>1, <3>2
      <4>1. Block * q >= Block * l BY <1>1, <3>1, <3>2
      <4> QED BY <4>1, <3>5, <1>1, <3>1, <3>2
    <3>7. Block * q + Block <= Block * l
      <4>1. Block * (q + 1) <= Block * l BY <3>6, <1>1, <3>1, <3>2
      <4> QED BY <4>1, <1>1, <3>1
    <3>8. b + j <= Block * l /\ b + j >= 1 BY <3>1, <3>2, <3>7, <1>1
    <3>9. (Block * q + (j - 1)) % Block = j - 1 BY <1>1, <3>1
    <3>10. (b + j) - 1 = Block * q + (j - 1) BY <3>1, <1>1
    <3>11. b + j \in 1..Len(s) /\ b + j \in Nat BY <3>8, <3>2, <3>1, <1>1
    <3>12. InWholeBlock(Len(s), b + j) BY <3>8, <3>2, <3>11 DEF InWholeBlock
    <3> QED BY <3>9, <3>10, <3>11, <3>12
  <2>2. PICK x : x = b + j OBVIOUS
  <2>3. x \in 1..Len(s) /\ InWholeBlock(Len(s), x) /\ (x - 1) % Block = j - 1
    BY <2>1, <2>2, Zenon
  <2>4. b \in Int BY <1>1
  <2>5. (x - 1) - ((x - 1) % Block) = b /\ ((x - 1) % Block) + 1 = j
    <3> HIDE DEF b
    <3> QED BY <2>2, <2>3, <2>4
  <2>6. BlockAt(s, x) = BlockAt(s, k)
    <3>1. BlockAt(s, k) = [i \in 1..Block |-> s[b + i]] BY Zenon DEF BlockAt
    <3>2. BlockAt(s, x) = [i \in 1..Block |-> s[((x - 1) - ((x - 1) % Block)) + i]]
      BY Zenon DEF BlockAt
    <3> HIDE DEF b
    <3> QED BY <2>5, <3>1, <3>2
  <2>7. aes_encrypt(s)[x] = Encrypt(BlockAt(s, x))[((x - 1) % Block) + 1]
    BY <2>3, Zenon DEF aes_encrypt
  <2> QED BY <2>2, <2>5, <2>6, <2>7, Zenon
<1>4. BlockAt(aes_encrypt(s), k) = [j \in 1..Block |-> aes_encrypt(s)[b + j]]
  BY Zenon DEF BlockAt
<1>5. BlockAt(aes_encrypt(s), k) = [j \in 1..Block |-> e[j]]
  <2> HIDE DEF b, e
  <2> QED BY <1>3, <1>4
<1> QED BY <1>2, <1>5

\* What was encrypted in one piece is decrypted to the same cells, the ones of
\* an incomplete last block included.
THEOREM DecryptEncrypt == \A s \in Seq(Cell) : aes_decrypt(aes_encrypt(s)) = s
<1> SUFFICES ASSUME NEW s \in Seq(Cell) PROVE aes_decrypt(aes_encrypt(s)) = s
  OBVIOUS
<1> DEFINE c == aes_encrypt(s)
           p == aes_decrypt(c)
<1>1. c \in Seq(Cell) /\ Len(c) = Len(s) BY CryptType
<1>2. p \in Seq(Cell) /\ Len(p) = Len(s) BY <1>1, CryptType
<1>3. \A k \in 1..Len(s) : p[k] = s[k]
  <2> SUFFICES ASSUME NEW k \in 1..Len(s) PROVE p[k] = s[k] OBVIOUS
  <2>1. CASE InWholeBlock(Len(s), k)
    <3>1. p[k] = Decrypt(BlockAt(c, k))[((k - 1) % Block) + 1]
      BY <1>1, <2>1, Zenon DEF aes_decrypt
    <3>2. BlockAt(c, k) = Encrypt(BlockAt(s, k)) BY <2>1, BlockOfEncrypted
    <3>3. Decrypt(BlockAt(c, k)) = BlockAt(s, k)
      BY <3>2, <2>1, BlockAtType, CipherAssumption
    <3>4. BlockAt(s, k)[((k - 1) % Block) + 1] = s[k]
      <4>1. ((k - 1) % Block) + 1 \in 1..Block BY <2>1, BlockAtType
      <4>2. BlockAt(s, k)[((k - 1) % Block) + 1]
              = s[((k - 1) - ((k - 1) % Block)) + (((k - 1) % Block) + 1)]
        BY <4>1, Zenon DEF BlockAt
      <4>3. ((k - 1) - ((k - 1) % Block)) + (((k - 1) % Block) + 1) = k
        BY LayoutAssumption
      <4> QED BY <4>2, <4>3, Zenon
    <3> QED BY <3>1, <3>3, <3>4
  <2>2. CASE ~ InWholeBlock(Len(s), k)
    <3>1. p[k] = c[k] BY <1>1, <2>2, Zenon DEF aes_decrypt
    <3>2. c[k] = s[k] BY <2>2, Zenon DEF aes_encrypt
    <3> QED BY <3>1, <3>2
  <2> QED BY <2>1, <2>2
<1>4. p = s
  <2> HIDE DEF p
  <2> QED BY <1>2, <1>3, SeqEqual
<1> QED BY <1>4

\* A small file shows the same contents before and after rebuild_file_struct
\* has put a header in front of it: the file is sealed then, and its plain view
\* is what it held.
THEOREM SealedFormExact ==
  \A s \in Seq(Cell) : Sealed(SealedForm(s)) /\ PlainView(SealedForm(s)) = s
<1> SUFFICES ASSUME NEW s \in Seq(Cell)
             PROVE  Sealed(SealedForm(s)) /\ PlainView(SealedForm(s)) = s
  OBVIOUS
<1> DEFINE h == FILE_HEADER_POLL_SIZE
           e == aes_encrypt(s)
           t == SealedForm(s)
<1>1. e \in Seq(Cell) /\ Len(e) = Len(s) BY CryptType
<1>2. h \in Nat \ {0} /\ HeaderCells \in Seq(Cell) /\ Len(HeaderCells) = h
  BY HeaderSize DEF FILE_HEADER_POLL_SIZE
<1>3. /\ t \in Seq(Cell) /\ Len(t) = h + Len(s)
      /\ \A i \in 1..(h + Len(s)) : t[i] = IF i <= h THEN HeaderCells[i] ELSE e[i - h]
  <2>1. t = HeaderCells \o e BY DEF SealedForm
  <2> HIDE DEF e, h, t
  <2>2. /\ HeaderCells \o e \in Seq(Cell)
        /\ Len(HeaderCells \o e) = Len(HeaderCells) + Len(e)
        /\ \A i \in 1..Len(HeaderCells) + Len(e) : (HeaderCells \o e)[i] =
             IF i <= Len(HeaderCells) THEN HeaderCells[i] ELSE e[i - Len(HeaderCells)]
    BY <1>1, <1>2, ConcatProperties
  <2> QED BY <1>1, <1>2, <2>1, <2>2
<1>4. Sealed(t)
  <2> HIDE DEF t
  <2>1. t[1] = HeaderCells[1] /\ t[h] = HeaderCells[h] BY <1>2, <1>3
  <2>2. Len(t) # 0 /\ Len(t) >= h BY <1>2, <1>3
  <2> QED BY <2>1, <2>2 DEF Sealed, is_encrypted_by_file_header
<1>5. SubSeq(t, h + 1, Len(t)) = e
  <2> DEFINE u == SubSeq(t, h + 1, Len(t))
  <2> HIDE DEF t, e, h
  <2>1. \A i \in (h + 1)..Len(t) : t[i] \in Cell BY <1>2, <1>3
  <2>2. /\ u \in Seq(Cell)
        /\ Len(u) = IF h + 1 <= Len(t) THEN Len(t) - (h + 1) + 1 ELSE 0
        /\ \A i \in 1..(Len(t) - (h + 1) + 1) : u[i] = t[(h + 1) + i - 1]
    BY <1>2, <1>3, <2>1, SubSeqProperties
  <2>3. Len(u) = Len(e) BY <1>1, <1>2, <1>3, <2>2
  <2>4. \A i \in 1..Len(u) : u[i] = e[i] BY <1>1, <1>2, <1>3, <2>2, <2>3
  <2> HIDE DEF u
  <2>5. u = e BY <1>1, <2>2, <2>3, <2>4, SeqEqual
  <2> QED BY <2>5 DEF u
<1>6. PlainView(t) = aes_decrypt(e) BY <1>4, <1>5, Zenon DEF PlainView
<1> QED BY <1>4, <1>6, DecryptEncrypt

\* Whether a file is sealed depends on its header cells alone.
LEMMA SealedByHeader ==
  ASSUME NEW s \in Seq(Cell), NEW t \in Seq(Cell), Sealed(s),
         Len(t) >= Len(s),
         \A k \in 1..FILE_HEADER_POLL_SIZE : t[k] = s[k]
  PROVE  Sealed(t)
<1>1. /\ Len(s) # 0 /\ s[1] = HeaderCells[1]
      /\ Len(s) >= FILE_HEADER_POLL_SIZE
      /\ s[FILE_HEADER_POLL_SIZE] = HeaderCells[FILE_HEADER_POLL_SIZE]
  BY DEF Sealed, is_encrypted_by_file_header
<1>2. 1 \in 1..FILE_HEADER_POLL_SIZE
      /\ FILE_HEADER_POLL_SIZE \in 1..FILE_HEADER_POLL_SIZE
  BY HeaderSize
<1>3. t[1] = HeaderCells[1]
      /\ t[FILE_HEADER_POLL_SIZE] = HeaderCells[FILE_HEADER_POLL_SIZE]
  BY <1>1, <1>2
<1>4. Len(t) # 0 /\ Len(t) >= FILE_HEADER_POLL_SIZE BY <1>1, HeaderSize
<1> QED BY <1>3, <1>4 DEF Sealed, is_encrypted_by_file_header

-----------------------------------------------------------------------------
(* Reading from the middle of an encrypted file.                           *)

\* A whole number of blocks in front does not change the place in a block.
LEMMA BlocksAhead ==
  ASSUME NEW c \in Nat, NEW x \in Nat, c % Block = 0
  PROVE  (c + x) % Block = x % Block
<1> DEFINE q == c \div Block
           p == x \div Block
           r == x % Block
<1>1. Block \in Nat \ {0} BY LayoutAssumption
<1>2. q \in Nat /\ c = Block * q BY <1>1
<1>3. p \in Nat /\ r \in 0..(Block - 1) /\ x = Block * p + r BY <1>1
<1>4. c + x = Block * (q + p) + r
  <2> HIDE DEF q, p, r
  <2>1. Block * (q + p) = Block * q + Block * p BY <1>1, <1>2, <1>3
  <2>2. Block * q \in Nat /\ Block * p \in Nat BY <1>1, <1>2, <1>3
  <2> QED BY <1>2, <1>3, <2>1, <2>2
<1>5. q + p \in Nat BY <1>2, <1>3
<1>6. ASSUME NEW m \in Nat PROVE (Block * m + r) % Block = r
  <2> HIDE DEF r
  <2> QED BY <1>1, <1>3
<1> HIDE DEF q, p, r
<1> QED BY <1>4, <1>5, <1>6 DEF r
\* A whole number of blocks that fits into n cells is among the complete ones.
LEMMA BlocksFit ==
  ASSUME NEW c \in Nat, NEW n \in Nat, c % Block = 0, c <= n
  PROVE  c <= n - (n % Block)
<1> DEFINE q == n \div Block
           l == c \div Block
<1>1. Block \in Nat \ {0} BY LayoutAssumption
<1>2. q \in Nat /\ n % Block \in 0..(Block - 1) /\ n = Block * q + (n % Block) BY <1>1
<1>3. l \in Nat /\ c = Block * l BY <1>1
<1>4. l <= q
  <2> SUFFICES ASSUME q + 1 <= l PROVE FALSE BY <1>2, <1>3
  <2> HIDE DEF q, l
  <2>1. Block * (q + 1) <= Block * l BY <1>1, <1>2, <1>3
  <2>2. Block * q + Block <= c BY <2>1, <1>1, <1>2, <1>3
  <2>3. Block * q \in Nat BY <1>1, <1>2
  <2> QED BY <2>2, <2>3, <1>1, <1>2
<1>5. Block * l <= Block * q
  <2> HIDE DEF q, l
  <2> QED BY <1>1, <1>2, <1>3, <1>4
<1>6. n - (n % Block) = Block * q
  <2> HIDE DEF q
  <2> QED BY <1>1, <1>2
<1> QED BY <1>3, <1>5, <1>6

\* A piece of a buffer that begins with a block, and ends with one or with the
\* buffer, is decrypted to what the whole buffer has there.
LEMMA DecryptPart ==
  ASSUME NEW s \in Seq(Cell), NEW w \in Seq(Cell), NEW a \in Nat,
         a % Block = 0, a + Len(w) <= Len(s),
         \A k \in 1..Len(w) : w[k] = s[a + k],
         Len(w) % Block = 0 \/ a + Len(w) = Len(s),
         NEW k \in 1..Len(w)
  PROVE  aes_decrypt(w)[k] = aes_decrypt(s)[a + k]
<1> DEFINE m == Len(w)
           n == Len(s)
<1>1. Block \in Nat \ {0} /\ m \in Nat /\ n \in Nat BY LayoutAssumption
<1>2. a + k \in 1..n /\ (a + k) - 1 = a + (k - 1) BY <1>1
<1>3. ((a + k) - 1) % Block = (k - 1) % Block BY <1>2, BlocksAhead
<1>4. InWholeBlock(m, k) <=> InWholeBlock(n, a + k)
  <2>1. CASE a + m = n
    <3>1. n % Block = m % Block BY <1>1, <2>1, BlocksAhead
    <3>2. m % Block \in Nat BY <1>1
    <3> HIDE DEF m, n
    <3> QED BY <1>1, <2>1, <3>1, <3>2 DEF InWholeBlock
  <2>2. CASE m % Block = 0
    <3>1. (a + m) % Block = 0 BY <1>1, <2>2, BlocksAhead
    <3>2. a + m \in Nat /\ a + m <= n BY <1>1
    <3> HIDE DEF m, n
    <3>3. a + m <= n - (n % Block) BY <1>1, <3>1, <3>2, BlocksFit
    <3>4. n % Block \in Nat BY <1>1
    <3>5. k \in Nat /\ k <= m BY DEF m
    <3> QED BY <1>1, <2>2, <3>3, <3>4, <3>5 DEF InWholeBlock
  <2> QED BY <2>1, <2>2
<1>5. aes_decrypt(w)[k] = IF InWholeBlock(m, k)
                          THEN Decrypt(BlockAt(w, k))[((k - 1) % Block) + 1] ELSE w[k]
  BY Zenon DEF aes_decrypt
<1>6. aes_decrypt(s)[a + k] = IF InWholeBlock(n, a + k)
        THEN Decrypt(BlockAt(s, a + k))[(((a + k) - 1) % Block) + 1] ELSE s[a + k]
  BY <1>2, Zenon DEF aes_decrypt
<1>7. InWholeBlock(m, k) => BlockAt(w, k) = BlockAt(s, a + k)
  <2> SUFFICES ASSUME InWholeBlock(m, k) PROVE BlockAt(w, k) = BlockAt(s, a + k)
    OBVIOUS
  <2> DEFINE b == (k - 1) - ((k - 1) % Block)
             c == ((a + k) - 1) - (((a + k) - 1) % Block)
  <2>1. b \in Int /\ c = a + b
    <3>1. (k - 1) % Block \in Int BY <1>1
    <3> QED BY <1>2, <1>3, <3>1
  <2>2. BlockAt(w, k) = [j \in 1..Block |-> w[b + j]] BY Zenon DEF BlockAt
  <2>3. BlockAt(s, a + k) = [j \in 1..Block |-> s[c + j]] BY Zenon DEF BlockAt
  <2>4. \A j \in 1..Block : b + j \in 1..m BY <1>1, BlockBounds
  <2> HIDE DEF b, c
  <2>5. \A j \in 1..Block : w[b + j] = s[c + j]
    <3> SUFFICES ASSUME NEW j \in 1..Block PROVE w[b + j] = s[c + j] OBVIOUS
    <3>1. w[b + j] = s[a + (b + j)] BY <2>4
    <3>2. a + (b + j) = c + j BY <2>1, <1>1
    <3> QED BY <3>1, <3>2
  <2> QED BY <2>2, <2>3, <2>5
<1> QED BY <1>3, <1>4, <1>5, <1>6, <1>7
\* The rest of the block goes up to the next one, and a block begins where the
\* place in the block is taken off.
LEMMA BlockEnds ==
  ASSUME NEW x \in Nat
  PROVE  /\ x % Block \in 0..(Block - 1)
         /\ x - (x % Block) \in Nat /\ (x - (x % Block)) % Block = 0
         /\ (x + (Block - (x % Block))) % Block = 0
<1> DEFINE q == x \div Block
           r == x % Block
<1>1. Block \in Nat \ {0} BY LayoutAssumption
<1>2. q \in Nat /\ r \in 0..(Block - 1) /\ x = Block * q + r BY <1>1
<1>3. ASSUME NEW m \in Nat PROVE (Block * m) % Block = 0 BY <1>1
<1>4. x - r = Block * q /\ x + (Block - r) = Block * (q + 1) /\ x - r \in Nat
  <2> HIDE DEF q, r
  <2> QED BY <1>1, <1>2
<1> QED BY <1>2, <1>3, <1>4

\* The cells that pread returns.
LEMMA WindowAt ==
  ASSUME NEW s \in Seq(Cell), NEW at \in Nat, NEW n \in Nat
  PROVE  /\ Window(s, at, n) \in Seq(Cell)
         /\ Len(Window(s, at, n)) = IF at >= Len(s) THEN 0 ELSE Smaller(n, Len(s) - at)
         /\ \A k \in 1..Len(Window(s, at, n)) :
              at + k \in 1..Len(s) /\ Window(s, at, n)[k] = s[at + k]
<1> DEFINE e == Smaller(at + n, Len(s))
<1>1. e \in Nat /\ e <= Len(s) /\ e <= at + n BY DEF Smaller
<1>2. \A i \in (at + 1)..e : s[i] \in Cell BY <1>1
<1>3. /\ SubSeq(s, at + 1, e) \in Seq(Cell)
      /\ Len(SubSeq(s, at + 1, e)) = IF at + 1 <= e THEN e - (at + 1) + 1 ELSE 0
      /\ \A k \in 1..(e - (at + 1) + 1) : SubSeq(s, at + 1, e)[k] = s[(at + 1) + k - 1]
  BY <1>1, <1>2, SubSeqProperties
<1>4. Window(s, at, n) = SubSeq(s, at + 1, e) BY DEF Window
<1>5. Len(SubSeq(s, at + 1, e)) = IF at >= Len(s) THEN 0 ELSE Smaller(n, Len(s) - at)
  BY <1>3 DEF Smaller
<1>6. \A k \in 1..Len(SubSeq(s, at + 1, e)) :
        at + k \in 1..Len(s) /\ SubSeq(s, at + 1, e)[k] = s[at + k]
  <2> HIDE DEF e
  <2> SUFFICES ASSUME NEW k \in 1..Len(SubSeq(s, at + 1, e))
               PROVE  at + k \in 1..Len(s) /\ SubSeq(s, at + 1, e)[k] = s[at + k]
    OBVIOUS
  <2>1. k \in 1..(e - (at + 1) + 1) /\ at + k <= e BY <1>1, <1>3
  <2>2. (at + 1) + k - 1 = at + k OBVIOUS
  <2> QED BY <1>1, <1>3, <2>1, <2>2
<1> HIDE DEF e
<1> QED BY <1>3, <1>4, <1>5, <1>6

\* The cells that pwrite leaves.
LEMMA OverlayAt ==
  ASSUME NEW s \in Seq(Cell), NEW at \in Nat, NEW d \in Seq(Cell),
         NEW k \in 1..Len(Overlay(s, at, d))
  PROVE  Overlay(s, at, d)[k] = IF at < k /\ k <= at + Len(d) THEN d[k - at]
                                ELSE IF k <= Len(s) THEN s[k] ELSE Zero
<1>1. CASE d = <<>> BY <1>1 DEF Overlay
<1>2. CASE d # <<>>
  <2>1. k \in 1..Larger(Len(s), at + Len(d)) BY <1>2, OverlayType
  <2> QED BY <1>2, <2>1, Zenon DEF Overlay
<1> QED BY <1>1, <1>2

\* A write inside the buffer keeps its size.
LEMMA OverlayInside ==
  ASSUME NEW s \in Seq(Cell), NEW at \in Nat, NEW d \in Seq(Cell), at + Len(d) <= Len(s)
  PROVE  Overlay(s, at, d) \in Seq(Cell) /\ Len(Overlay(s, at, d)) = Len(s)
  BY OverlayType DEF Larger
\* Read and fread fetch the cells asked for together with the rest of the blocks
\* they lie in, decrypt the lot and hand out the middle: the same cells as if the
\* whole text had been decrypted, wherever the cells begin and end in a block and
\* wherever the file ends.
THEOREM CollectedExact ==
  ASSUME NEW s \in Seq(Cell), NEW o \in Nat, NEW n \in Nat,
         Sealed(s), o >= FILE_HEADER_POLL_SIZE
  PROVE  Collected(o % Block, n, Window(s, o - (o % Block), o % Block),
                   Window(s, o, n), Window(s, o + n, Block - ((o + n) % Block)))
           = Window(PlainView(s), o - FILE_HEADER_POLL_SIZE, n)
<1> DEFINE h == FILE_HEADER_POLL_SIZE
           lead == o % Block
           a == o - lead
           tc == Block - ((o + n) % Block)
           head == Window(s, a, lead)
           middle == Window(s, o, n)
           tail == Window(s, o + n, tc)
           buf1 == Overlay(Zeros(lead + n + Block), 0, head)
           buf2 == Overlay(buf1, lead, middle)
           buf == Overlay(buf2, lead + n, tail)
           size == Len(head) + Len(middle) + Len(tail)
           w == SubSeq(buf, 1, size)
           out == Overlay(buf, 0, aes_decrypt(w))
           c == Window(out, lead, Len(middle))
           body == SubSeq(s, h + 1, Len(s))
           text == aes_decrypt(body)
           t == Window(text, o - h, n)
<1>1. Collected(lead, n, head, middle, tail) = c BY DEF Collected
<1>2. PlainView(s) = text BY Zenon DEF PlainView
<1>3. Block \in Nat \ {0} /\ h \in Nat /\ h % Block = 0 /\ Len(s) \in Nat /\ Len(s) >= h
  BY LayoutAssumption, HeaderSize DEF Sealed, is_encrypted_by_file_header
<1>4. /\ Block \in Nat /\ Block > 0 /\ h \in Nat /\ h <= Len(s) /\ Len(s) \in Nat
      /\ lead \in 0..(Block - 1) /\ a \in Nat /\ o = a + lead /\ o >= h
      /\ o + n \in Nat /\ tc \in 1..Block
  <2>1. lead \in 0..(Block - 1) /\ a \in Nat BY BlockEnds
  <2>2. o + n \in Nat OBVIOUS
  <2>3. (o + n) % Block \in 0..(Block - 1) BY <2>2, BlockEnds
  <2>4. o = a + lead /\ o >= h BY <1>3, <2>1
  <2> HIDE DEF h, lead, a
  <2> QED BY <1>3, <2>1, <2>2, <2>3, <2>4
<1>blocks. a % Block = 0 /\ ((o + n) + tc) % Block = 0
  <2>1. o + n \in Nat OBVIOUS
  <2> QED BY <2>1, BlockEnds
<1>5. a >= h
  <2>1. h <= o - (o % Block) BY <1>3, BlocksFit
  <2> QED BY <2>1
<1> HIDE DEF h, lead, a, tc
<1>6. /\ head \in Seq(Cell) /\ Len(head) = IF a >= Len(s) THEN 0 ELSE Smaller(lead, Len(s) - a)
      /\ \A k \in 1..Len(head) : a + k \in 1..Len(s) /\ head[k] = s[a + k]
  BY <1>4, WindowAt
<1>7. /\ middle \in Seq(Cell) /\ Len(middle) = IF o >= Len(s) THEN 0 ELSE Smaller(n, Len(s) - o)
      /\ \A k \in 1..Len(middle) : o + k \in 1..Len(s) /\ middle[k] = s[o + k]
  BY WindowAt
<1>8. /\ tail \in Seq(Cell)
      /\ Len(tail) = IF o + n >= Len(s) THEN 0 ELSE Smaller(tc, Len(s) - (o + n))
      /\ \A k \in 1..Len(tail) : (o + n) + k \in 1..Len(s) /\ tail[k] = s[(o + n) + k]
  <2> DEFINE m == o + n
  <2>1. m \in Nat /\ tc \in Nat BY <1>4
  <2>2. tail = Window(s, m, tc) OBVIOUS
  <2> HIDE DEF m, tail
  <2>3. /\ tail \in Seq(Cell)
        /\ Len(tail) = IF m >= Len(s) THEN 0 ELSE Smaller(tc, Len(s) - m)
        /\ \A k \in 1..Len(tail) : m + k \in 1..Len(s) /\ tail[k] = s[m + k]
    BY <2>1, <2>2, WindowAt
  <2> QED BY <2>3 DEF m
<1> HIDE DEF head, middle, tail
<1>lens. /\ Len(head) = IF a >= Len(s) THEN 0 ELSE Smaller(lead, Len(s) - a)
         /\ Len(middle) = IF o >= Len(s) THEN 0 ELSE Smaller(n, Len(s) - o)
         /\ Len(tail) = IF o + n >= Len(s) THEN 0 ELSE Smaller(tc, Len(s) - (o + n))
  BY <1>6, <1>7, <1>8
<1>9. /\ Len(head) \in 0..lead /\ Len(middle) \in 0..n /\ Len(tail) \in 0..Block
  BY <1>4, <1>lens DEF Smaller
<1>10. /\ buf1 \in Seq(Cell) /\ Len(buf1) = lead + n + Block
       /\ buf2 \in Seq(Cell) /\ Len(buf2) = lead + n + Block
       /\ buf \in Seq(Cell) /\ Len(buf) = lead + n + Block
  <2>1. lead + n + Block \in Nat /\ lead \in Nat /\ lead + n \in Nat BY <1>4
  <2>2. /\ Zeros(lead + n + Block) \in Seq(Cell)
        /\ Len(Zeros(lead + n + Block)) = lead + n + Block
    BY <2>1, ZerosType
  <2>3. buf1 \in Seq(Cell) /\ Len(buf1) = lead + n + Block
    <3>1. 0 + Len(head) <= Len(Zeros(lead + n + Block)) BY <1>4, <1>9, <2>2
    <3> QED BY <1>6, <2>2, <3>1, OverlayInside
  <2> HIDE DEF buf1
  <2>4. buf2 \in Seq(Cell) /\ Len(buf2) = lead + n + Block
    <3>1. lead + Len(middle) <= Len(buf1) BY <1>4, <1>9, <2>3
    <3> QED BY <1>7, <2>1, <2>3, <3>1, OverlayInside
  <2> HIDE DEF buf2
  <2>5. buf \in Seq(Cell) /\ Len(buf) = lead + n + Block
    <3>1. (lead + n) + Len(tail) <= Len(buf2) BY <1>4, <1>9, <2>4
    <3> QED BY <1>8, <2>1, <2>4, <3>1, OverlayInside
  <2> QED BY <2>3, <2>4, <2>5
<1>11. /\ \A k \in 1..Len(buf) : buf[k] = IF lead + n < k /\ k <= lead + n + Len(tail)
                                          THEN tail[k - (lead + n)] ELSE buf2[k]
       /\ \A k \in 1..Len(buf) : buf2[k] = IF lead < k /\ k <= lead + Len(middle)
                                           THEN middle[k - lead] ELSE buf1[k]
       /\ \A k \in 1..Len(buf) : k <= Len(head) => buf1[k] = head[k]
  <2>1. lead \in Nat /\ lead + n \in Nat /\ lead + n + Block \in Nat BY <1>4
  <2> SUFFICES ASSUME NEW k \in 1..Len(buf)
               PROVE  /\ buf[k] = IF lead + n < k /\ k <= lead + n + Len(tail)
                                  THEN tail[k - (lead + n)] ELSE buf2[k]
                      /\ buf2[k] = IF lead < k /\ k <= lead + Len(middle)
                                   THEN middle[k - lead] ELSE buf1[k]
                      /\ k <= Len(head) => buf1[k] = head[k]
    OBVIOUS
  <2>2. k \in 1..Len(buf1) /\ k \in 1..Len(buf2) /\ k \in Nat BY <1>10
  <2>3. buf1[k] = IF 0 < k /\ k <= 0 + Len(head) THEN head[k - 0]
                  ELSE IF k <= Len(Zeros(lead + n + Block))
                       THEN Zeros(lead + n + Block)[k] ELSE Zero
    <3> DEFINE z == Zeros(lead + n + Block)
    <3>1. z \in Seq(Cell) /\ 0 \in Nat BY <2>1, ZerosType
    <3>2. k \in 1..Len(Overlay(z, 0, head)) BY <2>2
    <3> HIDE DEF z
    <3> QED BY <1>6, <3>1, <3>2, OverlayAt DEF z
  <2>4. k <= Len(head) => buf1[k] = head[k]
    <3> HIDE DEF buf1
    <3> QED BY <2>2, <2>3, <1>6
  <2>5. buf2[k] = IF lead < k /\ k <= lead + Len(middle) THEN middle[k - lead]
                  ELSE IF k <= Len(buf1) THEN buf1[k] ELSE Zero
    <3> HIDE DEF buf1
    <3>1. buf1 \in Seq(Cell) /\ middle \in Seq(Cell) /\ k \in 1..Len(Overlay(buf1, lead, middle))
      BY <1>7, <1>10, <2>2
    <3> HIDE DEF lead, middle, buf2
    <3>2. buf2 = Overlay(buf1, lead, middle) BY DEF buf2
    <3> QED BY <2>1, <3>1, <3>2, OverlayAt, ZenonT(40)
  <2>6. buf[k] = IF lead + n < k /\ k <= lead + n + Len(tail) THEN tail[k - (lead + n)]
                 ELSE IF k <= Len(buf2) THEN buf2[k] ELSE Zero
    <3> HIDE DEF buf2
    <3> DEFINE m == lead + n
    <3>1. /\ buf2 \in Seq(Cell) /\ tail \in Seq(Cell) /\ m \in Nat
          /\ k \in 1..Len(Overlay(buf2, m, tail))
      BY <1>8, <1>10, <2>1, <2>2
    <3>2. buf = Overlay(buf2, m, tail) BY DEF buf
    <3> HIDE DEF lead, tail, buf, m
    <3>3. buf[k] = IF m < k /\ k <= m + Len(tail) THEN tail[k - m]
                   ELSE IF k <= Len(buf2) THEN buf2[k] ELSE Zero
      BY <3>1, <3>2, OverlayAt, ZenonT(40)
    <3> QED BY <3>3 DEF m
  <2>7. k <= Len(buf1) /\ k <= Len(buf2) BY <2>2, <1>10
  <2> HIDE DEF buf, buf2, buf1
  <2> QED BY <2>4, <2>5, <2>6, <2>7
<1> HIDE DEF buf, buf2, buf1
<1>12. /\ size \in Nat /\ size <= Len(buf)
       /\ w \in Seq(Cell) /\ Len(w) = size /\ \A k \in 1..size : w[k] = buf[k]
  <2>1. size \in Nat /\ size <= Len(buf) BY <1>4, <1>9, <1>10
  <2> HIDE DEF size
  <2>2. \A i \in 1..size : buf[i] \in Cell BY <1>10, <2>1
  <2>3. /\ w \in Seq(Cell) /\ Len(w) = IF 1 <= size THEN size - 1 + 1 ELSE 0
        /\ \A k \in 1..(size - 1 + 1) : w[k] = buf[1 + k - 1]
    BY <2>1, <2>2, SubSeqProperties
  <2> HIDE DEF w
  <2>4. size - 1 + 1 = size /\ \A k \in 1..size : 1 + k - 1 = k BY <2>1
  <2> QED BY <2>1, <2>3, <2>4
<1> HIDE DEF w
<1>13. aes_decrypt(w) \in Seq(Cell) /\ Len(aes_decrypt(w)) = size BY <1>12, CryptType
<1>14. /\ out \in Seq(Cell) /\ Len(out) = lead + n + Block
       /\ \A k \in 1..size : out[k] = aes_decrypt(w)[k]
  <2>1. out \in Seq(Cell) /\ Len(out) = Len(buf)
    <3>1. 0 + Len(aes_decrypt(w)) <= Len(buf) BY <1>12, <1>13
    <3> QED BY <1>10, <1>13, <3>1, OverlayInside
  <2>2. ASSUME NEW k \in 1..size PROVE out[k] = aes_decrypt(w)[k]
    <3> HIDE DEF size
    <3>1. k \in 1..Len(out) /\ k \in Nat /\ 0 < k /\ k <= 0 + Len(aes_decrypt(w)) /\ k - 0 = k
      BY <1>12, <1>13, <2>1
    <3>2. out[k] = IF 0 < k /\ k <= 0 + Len(aes_decrypt(w)) THEN aes_decrypt(w)[k - 0]
                   ELSE IF k <= Len(buf) THEN buf[k] ELSE Zero
      BY <1>10, <1>13, <3>1, OverlayAt
    <3> QED BY <3>1, <3>2
  <2> QED BY <1>10, <2>1, <2>2
<1> HIDE DEF out
<1>15. /\ c \in Seq(Cell) /\ Len(c) = Len(middle)
       /\ \A i \in 1..Len(middle) : c[i] = out[lead + i]
  <2>1. /\ c \in Seq(Cell)
        /\ Len(c) = IF lead >= Len(out) THEN 0 ELSE Smaller(Len(middle), Len(out) - lead)
        /\ \A i \in 1..Len(c) : c[i] = out[lead + i]
    <3>1. out \in Seq(Cell) /\ lead \in Nat /\ Len(middle) \in Nat BY <1>4, <1>9, <1>14
    <3> QED BY <3>1, WindowAt
  <2> HIDE DEF c
  <2>2. Len(out) = lead + n + Block BY <1>14
  <2>3. Len(c) = IF lead >= Len(out) THEN 0 ELSE Smaller(Len(middle), Len(out) - lead)
    BY <2>1
  <2>4. Len(c) = Len(middle) BY <1>4, <1>9, <2>2, <2>3 DEF Smaller
  <2> QED BY <2>1, <2>4
<1> HIDE DEF c
<1>16. /\ body \in Seq(Cell) /\ Len(body) = Len(s) - h
       /\ \A k \in 1..(Len(s) - h) : body[k] = s[h + k]
  <2>1. \A i \in (h + 1)..Len(s) : s[i] \in Cell BY <1>3
  <2>2. /\ body \in Seq(Cell)
        /\ Len(body) = IF h + 1 <= Len(s) THEN Len(s) - (h + 1) + 1 ELSE 0
        /\ \A i \in 1..(Len(s) - (h + 1) + 1) : body[i] = s[(h + 1) + i - 1]
    BY <1>3, <2>1, SubSeqProperties
  <2> HIDE DEF body
  <2>3. \A k \in 1..(Len(s) - h) : body[k] = s[h + k]
    <3> SUFFICES ASSUME NEW k \in 1..(Len(s) - h) PROVE body[k] = s[h + k] OBVIOUS
    <3>1. k \in 1..(Len(s) - (h + 1) + 1) /\ (h + 1) + k - 1 = h + k BY <1>3
    <3> QED BY <2>2, <3>1
  <2> QED BY <1>3, <2>2, <2>3
<1> HIDE DEF body
<1>17. text \in Seq(Cell) /\ Len(text) = Len(s) - h BY <1>16, CryptType
<1>18. /\ t \in Seq(Cell) /\ Len(t) = Len(middle)
       /\ \A i \in 1..Len(t) : t[i] = text[(o - h) + i]
  <2>1. o - h \in Nat BY <1>3 DEF h
  <2> HIDE DEF text
  <2>2. /\ t \in Seq(Cell)
        /\ Len(t) = IF o - h >= Len(text) THEN 0 ELSE Smaller(n, Len(text) - (o - h))
        /\ \A i \in 1..Len(t) : t[i] = text[(o - h) + i]
    BY <1>17, <2>1, WindowAt
  <2> HIDE DEF t
  <2>3. Len(t) = Len(middle) BY <1>3, <1>7, <1>17, <2>2 DEF Smaller
  <2> QED BY <2>2, <2>3
<1> HIDE DEF t
<1>19. \A i \in 1..Len(middle) : c[i] = t[i]
  <2> SUFFICES ASSUME NEW i \in 1..Len(middle) PROVE c[i] = t[i] OBVIOUS
  <2>1. o < Len(s) /\ Len(head) = lead /\ o = a + lead
    <3>1. o < Len(s) BY <1>4, <1>lens
    <3> QED BY <1>4, <1>lens, <3>1 DEF Smaller
  <2>2. a + size <= Len(s) /\ (a + size = Len(s) \/ size = lead + n + tc)
    <3>1. CASE o + n >= Len(s)
      <4>1. Len(middle) = Len(s) - o /\ Len(tail) = 0 BY <1>4, <1>lens, <2>1, <3>1 DEF Smaller
      <4> QED BY <1>4, <2>1, <4>1
    <3>2. CASE o + n < Len(s)
      <4>1. Len(middle) = n BY <1>4, <1>lens, <2>1, <3>2 DEF Smaller
      <4>2. Len(tail) = IF tc <= Len(s) - (o + n) THEN tc ELSE Len(s) - (o + n)
        BY <1>4, <1>lens, <3>2 DEF Smaller
      <4>3. size = lead + n + Len(tail) BY <2>1, <4>1
      <4> HIDE DEF size
      <4>4. CASE tc <= Len(s) - (o + n)
        <5>1. size = lead + n + tc BY <4>2, <4>3, <4>4
        <5> QED BY <1>4, <4>4, <5>1
      <4>5. CASE ~ (tc <= Len(s) - (o + n))
        <5>1. size = lead + n + (Len(s) - (o + n)) BY <4>2, <4>3, <4>5
        <5> QED BY <1>4, <4>5, <5>1
      <4> QED BY <4>4, <4>5
    <3> QED BY <1>4, <3>1, <3>2
  <2>3. Len(tail) > 0 => Len(middle) = n BY <1>4, <1>lens DEF Smaller
  <2>4. \A k \in 1..size : w[k] = s[a + k]
    <3> SUFFICES ASSUME NEW k \in 1..size PROVE w[k] = s[a + k] OBVIOUS
    <3>1. k \in 1..Len(buf) /\ w[k] = buf[k] BY <1>12
    <3>sizes. /\ lead \in Nat /\ a \in Nat /\ n \in Nat /\ o = a + lead /\ Len(head) = lead
              /\ Len(middle) \in Nat /\ Len(middle) <= n /\ Len(tail) \in Nat
              /\ k \in Nat /\ k >= 1 /\ k <= lead + Len(middle) + Len(tail)
      BY <1>4, <1>9, <2>1
    <3> HIDE DEF size
    <3>2. CASE k <= lead
      <4>1. k \in 1..Len(head) /\ ~ (lead + n < k) /\ ~ (lead < k)
        BY <3>sizes, <3>2
      <4> QED BY <1>6, <1>11, <3>1, <4>1
    <3>3. CASE lead < k /\ k <= lead + Len(middle)
      <4>1. /\ k - lead \in 1..Len(middle) /\ ~ (lead + n < k)
            /\ o + (k - lead) = a + k
        BY <3>sizes, <3>3
      <4>2. buf[k] = buf2[k] BY <1>11, <3>1, <4>1
      <4>3. buf2[k] = middle[k - lead] BY <1>11, <3>1, <3>3
      <4>4. middle[k - lead] = s[o + (k - lead)] BY <1>7, <4>1
      <4>5. o + (k - lead) = a + k BY <4>1
      <4> QED BY <3>1, <4>2, <4>3, <4>4, <4>5, Zenon
    <3>4. CASE lead + Len(middle) < k
      <4>1. Len(middle) = n BY <2>3, <3>sizes, <3>4
      <4>2. /\ k - (lead + n) \in 1..Len(tail) /\ lead + n < k /\ k <= lead + n + Len(tail)
            /\ (o + n) + (k - (lead + n)) = a + k
        BY <3>sizes, <3>4, <4>1
      <4>3. buf[k] = tail[k - (lead + n)] BY <1>11, <3>1, <4>2
      <4>4. tail[k - (lead + n)] = s[(o + n) + (k - (lead + n))] BY <1>8, <4>2
      <4>5. (o + n) + (k - (lead + n)) = a + k BY <4>2
      <4> QED BY <3>1, <4>3, <4>4, <4>5, Zenon
    <3> QED BY <3>sizes, <3>2, <3>3, <3>4
  <2>5. size % Block = 0 \/ a + size = Len(s)
    <3> SUFFICES ASSUME size = lead + n + tc PROVE size % Block = 0 BY <2>2
    <3>1. a + size = (o + n) + tc /\ size \in Nat
      <4>1. size = lead + n + tc OBVIOUS
      <4> HIDE DEF size
      <4>2. a \in Nat /\ lead \in Nat /\ n \in Nat /\ tc \in Nat /\ o = a + lead
        BY <1>4, <2>1
      <4> HIDE DEF a, lead, tc
      <4> QED BY <4>1, <4>2
    <3> HIDE DEF size
    <3>a. a \in Nat /\ a % Block = 0 BY <1>4, <1>blocks
    <3> HIDE DEF a
    <3>2. (a + size) % Block = size % Block BY <3>a, <3>1, BlocksAhead, ZenonT(40)
    <3> QED BY <1>blocks, <3>1, <3>2
  <2> HIDE DEF size
  <2>6. a - h \in Nat /\ (a - h) % Block = 0
    <3>1. a - h \in Nat /\ h + (a - h) = a BY <1>4, <1>5
    <3>2. (h + (a - h)) % Block = (a - h) % Block BY <1>3, <3>1, BlocksAhead
    <3> QED BY <1>blocks, <3>1, <3>2
  <2>7. /\ (a - h) + Len(w) <= Len(body)
        /\ Len(w) % Block = 0 \/ (a - h) + Len(w) = Len(body)
    BY <1>4, <1>12, <1>16, <2>2, <2>5
  <2>8. \A k \in 1..Len(w) : w[k] = body[(a - h) + k]
    <3> SUFFICES ASSUME NEW k \in 1..Len(w) PROVE w[k] = body[(a - h) + k] OBVIOUS
    <3>1. (a - h) + k \in 1..(Len(s) - h) /\ h + ((a - h) + k) = a + k
      BY <1>4, <1>12, <1>16, <2>6, <2>7
    <3> QED BY <1>12, <1>16, <2>4, <3>1
  <2>9. lead + i \in 1..Len(w) /\ lead + i \in 1..size /\ (a - h) + (lead + i) = (o - h) + i
    BY <1>4, <1>9, <1>12, <2>1 DEF size
  <2>10. aes_decrypt(w)[lead + i] = aes_decrypt(body)[(a - h) + (lead + i)]
    <3> DEFINE from == a - h
               j == lead + i
    <3>1. /\ body \in Seq(Cell) /\ w \in Seq(Cell) /\ from \in Nat /\ j \in 1..Len(w)
          /\ from % Block = 0 /\ from + Len(w) <= Len(body)
          /\ \A k \in 1..Len(w) : w[k] = body[from + k]
          /\ Len(w) % Block = 0 \/ from + Len(w) = Len(body)
      BY <1>12, <1>16, <2>6, <2>7, <2>8, <2>9
    <3> HIDE DEF from, j, w, body
    <3>2. aes_decrypt(w)[j] = aes_decrypt(body)[from + j]
      BY <3>1, DecryptPart, ZenonT(40)
    <3> QED BY <3>2 DEF from, j
  <2> QED BY <1>14, <1>15, <1>18, <2>9, <2>10
<1>20. c = t BY <1>15, <1>18, <1>19, SeqEqual
<1> QED BY <1>1, <1>2, <1>20 DEF c, t, h, lead, a, tc, head, middle, tail, out, buf, buf2, buf1, w, body
-----------------------------------------------------------------------------
(* Writing into the middle of an encrypted file.                           *)

\* Where the incomplete block at the end of n cells starts.
Complete(n) == n - (n % Block)

\* The end of the complete blocks of n cells is the last block boundary in them.
LEMMA CompleteBounds ==
  ASSUME NEW n \in Nat
  PROVE  /\ Complete(n) \in Nat /\ Complete(n) <= n /\ n < Complete(n) + Block
         /\ Complete(n) % Block = 0
         /\ n % Block = 0 <=> Complete(n) = n
         /\ \A c \in Nat : c % Block = 0 /\ c <= n => c <= Complete(n)
<1>1. Block \in Nat \ {0} BY LayoutAssumption
<1>2. n % Block \in 0..(Block - 1) BY <1>1
<1>3. Complete(n) % Block = 0 BY BlockEnds DEF Complete
<1>4. \A c \in Nat : c % Block = 0 /\ c <= n => c <= Complete(n) BY BlocksFit DEF Complete
<1>5. Complete(n) \in Nat BY BlockEnds DEF Complete
<1> DEFINE r == n % Block
<1>6. Complete(n) = n - r BY DEF Complete
<1> HIDE DEF r
<1>7. r \in 0..(Block - 1) BY <1>2 DEF r
<1>8. Complete(n) <= n /\ n < Complete(n) + Block /\ (r = 0 <=> Complete(n) = n)
  BY <1>1, <1>6, <1>7
<1> QED BY <1>3, <1>4, <1>5, <1>8 DEF r

\* Block boundaries are a block apart.
LEMMA BlockGap ==
  ASSUME NEW x \in Nat, NEW y \in Nat, x % Block = 0, y % Block = 0, x < y
  PROVE  x + Block <= y
<1>1. Block \in Nat \ {0} BY LayoutAssumption
<1> DEFINE p == x \div Block
           q == y \div Block
<1>2. p \in Nat /\ q \in Nat /\ x = Block * p /\ y = Block * q BY <1>1
<1> HIDE DEF p, q
<1>3. p + 1 <= q
  <2> SUFFICES ASSUME q <= p PROVE FALSE BY <1>2
  <2>1. Block * q <= Block * p BY <1>1, <1>2
  <2> QED BY <1>2, <2>1
<1>4. Block * (p + 1) <= Block * q BY <1>1, <1>2, <1>3
<1> QED BY <1>1, <1>2, <1>4

\* A cell is decrypted to the same plain cell in two buffers that hold the same
\* block there, complete or cut off alike.
LEMMA DecryptSame ==
  ASSUME NEW s \in Seq(Cell), NEW t \in Seq(Cell), NEW a \in Nat, a % Block = 0,
         NEW k \in 1..Len(s), a + k \in 1..Len(t),
         k <= Complete(Len(s)) <=> a + k <= Complete(Len(t)),
         s[k] = t[a + k],
         k <= Complete(Len(s)) =>
           \A j \in 1..Len(s) : /\ Complete(k - 1) < j
                                /\ j <= Complete(k - 1) + Block
                                => s[j] = t[a + j]
  PROVE  aes_decrypt(s)[k] = aes_decrypt(t)[a + k]
<1>1. Block \in Nat \ {0} BY LayoutAssumption
<1>2. (a + k) - 1 = a + (k - 1) /\ k - 1 \in Nat OBVIOUS
<1>3. ((a + k) - 1) % Block = (k - 1) % Block BY <1>2, BlocksAhead
<1>4. aes_decrypt(s)[k] = IF InWholeBlock(Len(s), k)
                          THEN Decrypt(BlockAt(s, k))[((k - 1) % Block) + 1] ELSE s[k]
  BY Zenon DEF aes_decrypt
<1>5. aes_decrypt(t)[a + k] = IF InWholeBlock(Len(t), a + k)
        THEN Decrypt(BlockAt(t, a + k))[(((a + k) - 1) % Block) + 1] ELSE t[a + k]
  BY Zenon DEF aes_decrypt
<1>6. InWholeBlock(Len(s), k) <=> InWholeBlock(Len(t), a + k)
  BY DEF InWholeBlock, Complete
<1>7. InWholeBlock(Len(s), k) => BlockAt(s, k) = BlockAt(t, a + k)
  <2> SUFFICES ASSUME InWholeBlock(Len(s), k) PROVE BlockAt(s, k) = BlockAt(t, a + k)
    OBVIOUS
  <2> DEFINE b == (k - 1) - ((k - 1) % Block)
             c == ((a + k) - 1) - (((a + k) - 1) % Block)
  <2>1. b \in Nat /\ c = a + b
    <3>1. (k - 1) % Block \in Int BY <1>1
    <3>2. \A x \in Nat : x - (x % Block) \in Nat BY BlockEnds
    <3>3. b \in Nat BY <1>2, <3>2, Zenon
    <3> QED BY <1>2, <1>3, <3>1, <3>3
  <2>2. BlockAt(s, k) = [j \in 1..Block |-> s[b + j]] BY Zenon DEF BlockAt
  <2>3. BlockAt(t, a + k) = [j \in 1..Block |-> t[c + j]] BY Zenon DEF BlockAt
  <2>4. \A j \in 1..Block : b + j \in 1..Len(s) BY BlockBounds
  <2>5. b = Complete(k - 1) BY DEF Complete
  <2>6. k <= Complete(Len(s)) BY DEF InWholeBlock, Complete
  <2> HIDE DEF b, c
  <2>7. \A j \in 1..Block : s[b + j] = t[c + j]
    <3> SUFFICES ASSUME NEW j \in 1..Block PROVE s[b + j] = t[c + j] OBVIOUS
    <3>1. b < b + j /\ b + j <= b + Block BY <1>1, <2>1
    <3>2. s[b + j] = t[a + (b + j)] BY <2>4, <2>5, <2>6, <3>1
    <3>3. a + (b + j) = c + j BY <2>1
    <3> QED BY <3>2, <3>3
  <2> QED BY <2>2, <2>3, <2>7
<1> QED BY <1>3, <1>4, <1>5, <1>6, <1>7
\* The text after a write of d at offset "at", as the layer does it: the stored
\* cells of the block in front of d are encrypted together with d, and the lot
\* is written over the old body b.  The lemmas below are about the new body t.
BodyAfter(b, at, d, prefix, t) ==
  LET start == at - Len(prefix)
      end   == at + Len(d)
  IN  /\ b \in Seq(Cell) /\ t \in Seq(Cell) /\ d \in Seq(Cell) /\ prefix \in Seq(Cell)
      /\ at \in Nat /\ d # <<>> /\ start = Complete(at)
      /\ \A j \in 1..Len(prefix) : start + j <= Len(b) => prefix[j] = b[start + j]
      /\ Len(t) = Larger(Len(b), end)
      /\ \A k \in 1..Len(t) :
           t[k] = IF start < k /\ k <= end THEN aes_encrypt(prefix \o d)[k - start]
                  ELSE IF k <= Len(b) THEN b[k] ELSE Zero

\* The sizes and places, with the arithmetic of blocks done.
LEMMA BodySizes ==
  ASSUME NEW b, NEW at, NEW d, NEW prefix, NEW t, BodyAfter(b, at, d, prefix, t)
  PROVE  LET a == at - Len(prefix)
             n == at + Len(d)
             m == Len(prefix \o d)
         IN  /\ Block \in Nat \ {0} /\ Len(b) \in Nat /\ Len(t) \in Nat /\ at \in Nat
             /\ a \in Nat /\ a % Block = 0 /\ a <= at /\ at < n /\ n \in Nat
             /\ prefix \o d \in Seq(Cell) /\ m \in Nat /\ n = a + m /\ Len(t) >= n
             /\ Len(t) >= Len(b) /\ (Len(t) = n \/ Len(t) = Len(b))
             /\ aes_encrypt(prefix \o d) \in Seq(Cell) /\ Len(aes_encrypt(prefix \o d)) = m
             /\ Complete(n) = a + Complete(m)
             /\ Complete(n) \in Nat /\ Complete(n) <= n /\ n < Complete(n) + Block
             /\ Complete(n) % Block = 0 /\ a <= Complete(n)
<1> DEFINE a == at - Len(prefix)
           n == at + Len(d)
           p == prefix \o d
           m == Len(p)
<1>1. /\ b \in Seq(Cell) /\ t \in Seq(Cell) /\ d \in Seq(Cell) /\ prefix \in Seq(Cell)
      /\ at \in Nat /\ d # <<>> /\ a = Complete(at) /\ Len(t) = Larger(Len(b), n)
  BY DEF BodyAfter
<1>2. Block \in Nat \ {0} BY LayoutAssumption
<1>3. p \in Seq(Cell) /\ m = Len(prefix) + Len(d) BY <1>1, ConcatProperties
<1>4. aes_encrypt(p) \in Seq(Cell) /\ Len(aes_encrypt(p)) = m BY <1>3, CryptType
<1> HIDE DEF p
<1>5. Len(d) \in Nat /\ Len(d) > 0 /\ Len(prefix) \in Nat /\ Len(b) \in Nat /\ Len(t) \in Nat
  <2>1. Len(d) # 0 BY <1>1, EmptySeq
  <2> QED BY <1>1, <2>1
<1>6. a \in Nat /\ a % Block = 0 /\ a <= at BY <1>1, CompleteBounds
<1>7. /\ n \in Nat /\ m \in Nat /\ n = a + m /\ at < n BY <1>1, <1>3, <1>5
<1>8. Len(t) >= n /\ Len(t) >= Len(b) /\ (Len(t) = n \/ Len(t) = Len(b))
  BY <1>1, <1>5, <1>7 DEF Larger
<1>9. /\ Complete(n) \in Nat /\ Complete(n) <= n /\ n < Complete(n) + Block
      /\ Complete(n) % Block = 0 /\ a <= Complete(n)
  <2> HIDE DEF a, n
  <2> QED BY <1>1, <1>6, <1>7, CompleteBounds
<1>10. Complete(n) = a + Complete(m)
  <2> HIDE DEF a, n, m
  <2>1. (a + m) % Block = m % Block BY <1>6, <1>7, BlocksAhead
  <2>2. m % Block \in Int BY <1>2, <1>7
  <2>3. (a + m) - (m % Block) = a + (m - (m % Block))
    <3> DEFINE r == m % Block
    <3> HIDE DEF r
    <3>1. (a + m) - r = a + (m - r) BY <1>6, <1>7, <2>2 DEF r
    <3> QED BY <3>1 DEF r
  <2> QED BY <1>7, <2>1, <2>3 DEF Complete
<1> QED BY <1>1, <1>2, <1>3, <1>4, <1>5, <1>6, <1>7, <1>8, <1>9, <1>10 DEF p
\* The text in front of the first block touched stays as it was.
LEMMA BodyBefore ==
  ASSUME NEW b, NEW at, NEW d, NEW prefix, NEW t, BodyAfter(b, at, d, prefix, t),
         NEW k \in 1..Len(b), k <= at - Len(prefix),
         at - Len(prefix) <= Len(b) \/ k <= Complete(Len(b))
  PROVE  aes_decrypt(t)[k] = aes_decrypt(b)[k]
<1> DEFINE a == at - Len(prefix)
           n == at + Len(d)
<1>1. /\ Block \in Nat \ {0} /\ Len(b) \in Nat /\ Len(t) \in Nat /\ a \in Nat /\ a % Block = 0
      /\ Len(t) >= Len(b) /\ b \in Seq(Cell) /\ t \in Seq(Cell)
  <2>1. b \in Seq(Cell) /\ t \in Seq(Cell) BY DEF BodyAfter
  <2> QED BY <2>1, BodySizes
<1>2. \A j \in 1..Len(t) : j <= a /\ j <= Len(b) => t[j] = b[j]
  <2>1. \A j \in 1..Len(t) : t[j] = IF a < j /\ j <= n THEN aes_encrypt(prefix \o d)[j - a]
                                    ELSE IF j <= Len(b) THEN b[j] ELSE Zero
    BY DEF BodyAfter
  <2> HIDE DEF a, n
  <2> QED BY <1>1, <2>1
<1>3. k <= a /\ (a <= Len(b) \/ k <= Complete(Len(b))) OBVIOUS
<1> HIDE DEF a, n
<1>4. k <= Complete(Len(b)) /\ Complete(Len(b)) <= Complete(Len(t)) /\ Complete(Len(b)) \in Nat
  <2>1. a <= Len(b) => a <= Complete(Len(b)) BY <1>1, CompleteBounds
  <2>2. Complete(Len(b)) \in Nat /\ Complete(Len(b)) <= Len(b) /\ Complete(Len(b)) % Block = 0
    BY <1>1, CompleteBounds
  <2>3. Complete(Len(b)) <= Complete(Len(t)) BY <1>1, <2>2, CompleteBounds
  <2> QED BY <1>1, <1>3, <2>1, <2>2, <2>3
<1> DEFINE c == Complete(k - 1)
<1>5. c \in Nat /\ c + Block <= a
  <2>1. k - 1 \in Nat OBVIOUS
  <2>2. c \in Nat /\ c <= k - 1 /\ c % Block = 0 BY <2>1, CompleteBounds
  <2> HIDE DEF c
  <2>3. c < a BY <1>1, <1>3, <2>2
  <2> QED BY <1>1, <2>2, <2>3, BlockGap
<1>6. \A j \in 1..Len(b) : c < j /\ j <= c + Block => b[j] = t[0 + j]
  <2> HIDE DEF c
  <2> SUFFICES ASSUME NEW j \in 1..Len(b), j <= c + Block PROVE b[j] = t[0 + j] OBVIOUS
  <2>1. j <= a /\ j \in 1..Len(t) /\ 0 + j = j BY <1>1, <1>5
  <2> QED BY <1>2, <2>1
<1>7. k \in 1..Len(t) /\ 0 + k = k /\ b[k] = t[k] BY <1>1, <1>2, <1>3
<1>8. 0 \in Nat /\ 0 % Block = 0 BY <1>1
<1>9. k <= Complete(Len(b)) <=> 0 + k <= Complete(Len(t))
  <2>1. Complete(Len(t)) \in Nat BY <1>1, CompleteBounds
  <2> QED BY <1>4, <1>7, <2>1
<1>10. aes_decrypt(b)[k] = aes_decrypt(t)[0 + k]
  BY <1>1, <1>6, <1>7, <1>8, <1>9, DecryptSame
<1> QED BY <1>7, <1>10

\* The text behind the last block touched stays as it was.
LEMMA BodyBehind ==
  ASSUME NEW b, NEW at, NEW d, NEW prefix, NEW t, BodyAfter(b, at, d, prefix, t),
         NEW k \in 1..Len(b), at + Len(d) <= Complete(k - 1)
  PROVE  aes_decrypt(t)[k] = aes_decrypt(b)[k]
<1> DEFINE a == at - Len(prefix)
           n == at + Len(d)
<1>1. /\ Block \in Nat \ {0} /\ Len(b) \in Nat /\ Len(t) \in Nat /\ n \in Nat
      /\ (Len(t) = n \/ Len(t) = Len(b)) /\ Len(t) >= Len(b)
      /\ b \in Seq(Cell) /\ t \in Seq(Cell) /\ a \in Nat
  <2>1. b \in Seq(Cell) /\ t \in Seq(Cell) BY DEF BodyAfter
  <2> QED BY <2>1, BodySizes
<1>2. \A j \in 1..Len(t) : n < j /\ j <= Len(b) => t[j] = b[j]
  <2>1. \A j \in 1..Len(t) : t[j] = IF a < j /\ j <= n THEN aes_encrypt(prefix \o d)[j - a]
                                    ELSE IF j <= Len(b) THEN b[j] ELSE Zero
    BY DEF BodyAfter
  <2> HIDE DEF a, n
  <2> QED BY <1>1, <2>1
<1> DEFINE c == Complete(k - 1)
<1>3. c \in Nat /\ c <= k - 1 /\ n <= c
  <2>1. k - 1 \in Nat OBVIOUS
  <2> QED BY <2>1, CompleteBounds
<1> HIDE DEF a, n
<1>4. Len(t) = Len(b) /\ n < k
  <2> HIDE DEF c
  <2> QED BY <1>1, <1>3
<1>5. \A j \in 1..Len(b) : c < j /\ j <= c + Block => b[j] = t[0 + j]
  <2> HIDE DEF c
  <2> SUFFICES ASSUME NEW j \in 1..Len(b), c < j PROVE b[j] = t[0 + j] OBVIOUS
  <2>1. n < j /\ j \in 1..Len(t) /\ 0 + j = j BY <1>1, <1>3, <1>4
  <2> QED BY <1>2, <2>1
<1>6. k \in 1..Len(t) /\ 0 + k = k /\ b[k] = t[k] BY <1>1, <1>2, <1>4
<1>7. 0 \in Nat /\ 0 % Block = 0 BY <1>1
<1>8. k <= Complete(Len(b)) <=> 0 + k <= Complete(Len(t)) BY <1>4, <1>6
<1>9. aes_decrypt(b)[k] = aes_decrypt(t)[0 + k]
  BY <1>1, <1>5, <1>6, <1>7, <1>8, DecryptSame
<1> QED BY <1>6, <1>9

\* Cell k of the text is one of those that were encrypted together, in a block
\* that is complete, or incomplete at the end of the file; and what was given
\* for it.
Inside(b, at, d, prefix, k) ==
  /\ at - Len(prefix) < k /\ k <= at + Len(d)
  /\ k <= Complete(at + Len(d)) \/ Complete(Len(b)) < at + Len(d)
Given(at, d, prefix, k) == (prefix \o d)[k - (at - Len(prefix))]

\* The cells that were encrypted together are decrypted as they were, as far as
\* their blocks are complete, or when the incomplete one is the end of the file.
LEMMA BodyInside ==
  ASSUME NEW b, NEW at, NEW d, NEW prefix, NEW t, BodyAfter(b, at, d, prefix, t),
         NEW k \in Nat, Inside(b, at, d, prefix, k)
  PROVE  aes_decrypt(t)[k] = Given(at, d, prefix, k)
<1> DEFINE a == at - Len(prefix)
           n == at + Len(d)
           p == prefix \o d
           e == aes_encrypt(p)
<1>1. /\ Block \in Nat \ {0} /\ Len(b) \in Nat /\ Len(t) \in Nat
      /\ n \in Nat /\ Len(p) \in Nat /\ n = a + Len(p)
      /\ (Len(t) = n \/ Len(t) = Len(b)) /\ Len(t) >= n /\ t \in Seq(Cell)
      /\ a \in Nat /\ a % Block = 0
      /\ p \in Seq(Cell) /\ e \in Seq(Cell) /\ Len(e) = Len(p)
      /\ Complete(n) = a + Complete(Len(p)) /\ Complete(n) \in Nat /\ Complete(n) <= n
      /\ Complete(n) % Block = 0
  <2>1. t \in Seq(Cell) BY DEF BodyAfter
  <2> QED BY <2>1, BodySizes
<1>2. \A j \in 1..Len(t) : a < j /\ j <= n => t[j] = e[j - a]
  BY DEF BodyAfter
<1>3. a < k /\ k <= n /\ (k <= Complete(n) \/ Complete(Len(b)) < n) BY DEF Inside
<1> HIDE DEF a, n, p, e
<1>4. \A j \in 1..Len(e) : e[j] = t[a + j]
  <2> SUFFICES ASSUME NEW j \in 1..Len(e) PROVE e[j] = t[a + j] OBVIOUS
  <2>1. a + j \in 1..Len(t) /\ a < a + j /\ a + j <= n /\ (a + j) - a = j BY <1>1
  <2> QED BY <1>2, <2>1
<1> DEFINE i == k - a
<1>5. i \in 1..Len(e) /\ a + i = k /\ k \in 1..Len(t) BY <1>1, <1>3
<1>6. i <= Complete(Len(e)) <=> k <= Complete(Len(t))
  <2>1. Complete(Len(p)) \in Nat BY <1>1, CompleteBounds
  <2>2. i <= Complete(Len(e)) <=> k <= Complete(n) BY <1>1, <1>3, <2>1
  <2>3. Complete(n) <= Complete(Len(t)) /\ Complete(Len(t)) \in Nat
    <3>1. Complete(n) <= Len(t) BY <1>1
    <3> QED BY <1>1, <3>1, CompleteBounds
  <2>4. Complete(Len(b)) < n => Complete(Len(t)) <= Complete(n)
    <3> SUFFICES ASSUME Complete(Len(b)) < n PROVE Complete(Len(t)) <= Complete(n) OBVIOUS
    <3>1. CASE Len(t) = n BY <1>1, <3>1
    <3>2. CASE Len(t) = Len(b)
      <4>1. Complete(Len(b)) \in Nat /\ Complete(Len(b)) % Block = 0 BY <1>1, CompleteBounds
      <4>2. Complete(Len(b)) <= n BY <1>1, <4>1
      <4>3. Complete(Len(b)) <= Complete(n) BY <1>1, <4>1, <4>2, CompleteBounds
      <4> QED BY <3>2, <4>3
    <3> QED BY <1>1, <3>1, <3>2
  <2> HIDE DEF i
  <2> QED BY <1>1, <1>3, <2>2, <2>3, <2>4
<1> HIDE DEF i
<1>7. aes_decrypt(e)[i] = aes_decrypt(t)[a + i]
  <2>1. /\ a + i \in 1..Len(t) /\ e[i] = t[a + i]
        /\ i <= Complete(Len(e)) <=> a + i <= Complete(Len(t))
    BY <1>4, <1>5, <1>6
  <2>2. \A j \in 1..Len(e) : Complete(i - 1) < j /\ j <= Complete(i - 1) + Block => e[j] = t[a + j]
    BY <1>4
  <2> QED BY <1>1, <1>5, <2>1, <2>2, DecryptSame
<1>8. aes_decrypt(e) = p BY <1>1, DecryptEncrypt DEF e
<1>9. aes_decrypt(t)[k] = p[i] BY <1>5, <1>7, <1>8
<1> QED BY <1>9 DEF p, i, a, Given
\* The text after the write: every cell outside the blocks touched, and outside
\* the incomplete block in front of a hole, is as it was; and when the first block
\* touched was known completely and the last one is written completely or to the
\* end of the file, the write is exact.
LEMMA BodyWritten ==
  ASSUME NEW b, NEW at, NEW d, NEW prefix, NEW t, BodyAfter(b, at, d, prefix, t)
  PROVE  LET old == aes_decrypt(b)
             new == aes_decrypt(t)
             end == at + Len(d)
         IN  /\ old \in Seq(Cell) /\ Len(old) = Len(b)
             /\ new \in Seq(Cell) /\ Len(new) = Larger(Len(b), end)
             /\ \A k \in 1..Len(b) :
                  \/ Complete(at) < k /\ k <= Complete(end) + Block
                  \/ Complete(Len(b)) < k /\ Len(b) < at
                  \/ new[k] = old[k]
             /\ /\ at <= Len(b) /\ (at % Block = 0 \/ Complete(Len(b)) <= at)
                /\ end % Block = 0 \/ Complete(Len(b)) < end
                => \A k \in 1..Larger(Len(b), end) :
                     new[k] = IF at < k /\ k <= end THEN d[k - at] ELSE old[k]
<1> DEFINE old == aes_decrypt(b)
           new == aes_decrypt(t)
           end == at + Len(d)
           a == at - Len(prefix)
<1>1. /\ b \in Seq(Cell) /\ t \in Seq(Cell) /\ d \in Seq(Cell) /\ prefix \in Seq(Cell)
      /\ Len(t) = Larger(Len(b), end) /\ a = Complete(at)
      /\ \A j \in 1..Len(prefix) : a + j <= Len(b) => prefix[j] = b[a + j]
  BY DEF BodyAfter
<1>2. /\ Block \in Nat \ {0} /\ Len(b) \in Nat /\ at \in Nat /\ a \in Nat /\ a % Block = 0
      /\ a <= at /\ at < end /\ end \in Nat
      /\ Complete(end) \in Nat /\ Complete(end) <= end /\ end < Complete(end) + Block
      /\ Complete(end) % Block = 0
  BY BodySizes
<1>3. /\ Complete(Len(b)) \in Nat /\ Complete(Len(b)) <= Len(b)
      /\ Complete(Len(b)) % Block = 0
  BY <1>2, CompleteBounds
<1>4. /\ old \in Seq(Cell) /\ Len(old) = Len(b)
      /\ new \in Seq(Cell) /\ Len(new) = Larger(Len(b), end)
  BY <1>1, CryptType
<1>5. Len(prefix) \in Nat /\ Len(d) \in Nat /\ a = at - Len(prefix) /\ end = at + Len(d)
  BY <1>1
<1>6. ASSUME NEW k \in 1..Len(b), k <= a, a <= Len(b) \/ k <= Complete(Len(b))
      PROVE  new[k] = old[k]
  BY <1>6, BodyBefore
<1>7. ASSUME NEW k \in 1..Len(b), end <= Complete(k - 1) PROVE new[k] = old[k]
  BY <1>7, BodyBehind
<1>8. ASSUME NEW k \in Nat, a < k, k <= end, k <= Complete(end) \/ Complete(Len(b)) < end
      PROVE  new[k] = (prefix \o d)[k - a]
  <2>1. Inside(b, at, d, prefix, k) BY <1>8 DEF Inside
  <2>2. new[k] = Given(at, d, prefix, k) BY ONLY BodyAfter(b, at, d, prefix, t), k \in Nat,
                                                 <2>1, BodyInside
  <2> QED BY <2>2 DEF Given
<1>9. ASSUME NEW k \in Nat, a < k, k <= end
      PROVE  (prefix \o d)[k - a] = IF at < k THEN d[k - at] ELSE prefix[k - a]
  <2>1. \A i \in 1..Len(prefix) + Len(d) : (prefix \o d)[i] =
           IF i <= Len(prefix) THEN prefix[i] ELSE d[i - Len(prefix)]
    BY <1>1, ConcatProperties
  <2> HIDE DEF a, end
  <2>2. /\ k - a \in 1..Len(prefix) + Len(d) /\ (k - a <= Len(prefix) <=> ~ (at < k))
        /\ (k - a) - Len(prefix) = k - at
    BY <1>2, <1>5, <1>9
  <2> QED BY <2>1, <2>2
<1> HIDE DEF old, new, end, a
<1>10. ASSUME NEW k \in 1..Len(b), end < k, Complete(end) = end \/ Complete(end) + Block < k
       PROVE  new[k] = old[k]
  <2>1. k - 1 \in Nat /\ end <= k - 1 BY <1>2, <1>10
  <2>2. end <= Complete(k - 1)
    <3>1. CASE Complete(end) = end BY <1>2, <2>1, <3>1, CompleteBounds
    <3>2. CASE Complete(end) + Block < k
      <4>1. Complete(end) + Block \in Nat /\ Complete(end) + Block <= k - 1
        BY <1>2, <3>2
      <4>2. (Complete(end) + Block) % Block = 0
        <5>1. Block \in Nat /\ Block % Block = 0 BY <1>2
        <5> QED BY <1>2, <5>1, BlocksAhead
      <4>3. Complete(end) + Block <= Complete(k - 1) BY <2>1, <4>1, <4>2, CompleteBounds
      <4>4. Complete(k - 1) \in Nat BY <2>1, CompleteBounds
      <4> QED BY <1>2, <4>3, <4>4
    <3> QED BY <1>10, <3>1, <3>2
  <2> QED BY <1>7, <2>2
<1>11. ASSUME NEW k \in 1..Len(b)
       PROVE  \/ Complete(at) < k /\ k <= Complete(end) + Block
              \/ Complete(Len(b)) < k /\ Len(b) < at
              \/ new[k] = old[k]
  <2> SUFFICES ASSUME ~ (a < k /\ k <= Complete(end) + Block),
                      ~ (Complete(Len(b)) < k /\ Len(b) < at)
               PROVE  new[k] = old[k]
    BY <1>1
  <2>1. CASE k <= a
    <3>1. a <= Len(b) \/ k <= Complete(Len(b)) BY <1>2, <1>3, <2>1
    <3> QED BY <1>6, <2>1, <3>1
  <2>2. CASE ~ (k <= a)
    <3>1. Complete(end) + Block < k /\ end < k BY <1>2, <2>2
    <3> QED BY <1>10, <3>1
  <2> QED BY <2>1, <2>2
<1>12. ASSUME at <= Len(b), at % Block = 0 \/ Complete(Len(b)) <= at,
              end % Block = 0 \/ Complete(Len(b)) < end,
              NEW k \in 1..Larger(Len(b), end)
       PROVE  new[k] = IF at < k /\ k <= end THEN d[k - at] ELSE old[k]
  <2>1. k \in Nat /\ k > 0 /\ (k <= Len(b) \/ k <= end) BY <1>2 DEF Larger
  <2>2. end % Block = 0 <=> Complete(end) = end BY <1>2, CompleteBounds
  <2>3. k <= end => k <= Complete(end) \/ Complete(Len(b)) < end BY <1>12, <2>2
  <2>4. CASE k <= a
    <3>1. k \in 1..Len(b) /\ a <= Len(b) /\ ~ (at < k) BY <1>2, <1>12, <2>1, <2>4
    <3> QED BY <1>6, <2>4, <3>1
  <2>5. CASE at < k /\ k <= end
    <3>1. a < k BY <1>2, <2>5
    <3> QED BY <1>8, <1>9, <2>1, <2>3, <2>5, <3>1
  <2>6. CASE a < k /\ ~ (at < k)
    <3>1. k <= end /\ k \in 1..Len(b) BY <1>2, <1>12, <2>1, <2>6
    <3>2. new[k] = prefix[k - a] BY <1>8, <1>9, <2>1, <2>3, <2>6, <3>1
    <3>3. k - a \in 1..Len(prefix) /\ a + (k - a) = k BY <1>2, <1>5, <2>1, <2>6
    <3>4. prefix[k - a] = b[k] BY <1>1, <3>1, <3>3
    <3>5. at % Block # 0
      <4> SUFFICES ASSUME at % Block = 0 PROVE FALSE OBVIOUS
      <4>1. Complete(at) = at BY <1>2, CompleteBounds
      <4> QED BY <1>1, <2>6, <4>1
    <3>6. Complete(Len(b)) <= a
      <4>1. Complete(Len(b)) <= at BY <1>12, <3>5
      <4> QED BY <1>1, <1>2, <1>3, <4>1, CompleteBounds
    <3>7. old[k] = b[k]
      <4>1. ~ InWholeBlock(Len(b), k)
        <5>1. ~ (k <= Complete(Len(b))) BY <1>2, <1>3, <2>1, <2>6, <3>6
        <5> QED BY <5>1 DEF InWholeBlock, Complete
      <4> QED BY <3>1, <4>1, Zenon DEF aes_decrypt, old
    <3> QED BY <2>6, <3>2, <3>4, <3>7
  <2>7. CASE end < k
    <3>1. k \in 1..Len(b) /\ ~ (k <= end) BY <1>2, <2>1, <2>7
    <3>2. CASE Complete(end) = end BY <1>10, <2>7, <3>1, <3>2
    <3>3. CASE Complete(end) # end
      <4>1. Complete(Len(b)) < end BY <1>12, <2>2, <3>3
      <4>2. ~ (k <= Complete(Len(b))) BY <1>2, <1>3, <2>1, <2>7, <4>1
      <4>3. Len(t) = Len(b) BY <1>1, <1>2, <2>7, <3>1 DEF Larger
      <4>4. ~ InWholeBlock(Len(b), k) /\ ~ InWholeBlock(Len(t), k) /\ k \in 1..Len(t)
        BY <3>1, <4>2, <4>3 DEF InWholeBlock, Complete
      <4>5. old[k] = b[k] /\ new[k] = t[k]
        BY <3>1, <4>4, Zenon DEF aes_decrypt, old, new
      <4>6. t[k] = b[k]
        <5>1. t[k] = IF a < k /\ k <= end THEN aes_encrypt(prefix \o d)[k - a]
                     ELSE IF k <= Len(b) THEN b[k] ELSE Zero
          BY <4>4 DEF BodyAfter, a, end
        <5> QED BY <3>1, <5>1
      <4> QED BY <3>1, <4>5, <4>6
    <3> QED BY <3>2, <3>3
  <2> QED BY <1>2, <2>1, <2>4, <2>5, <2>6, <2>7
<1> QED BY <1>4, <1>11, <1>12 DEF old, new, end, a
\* A buffer written in two pieces, one behind the other.
LEMMA OverlayTwice ==
  ASSUME NEW s \in Seq(Cell), NEW e \in Seq(Cell), NEW at \in Nat, NEW n \in 0..Len(e),
         n < Len(e)
  PROVE  LET t == Overlay(Overlay(s, at, SubSeq(e, 1, n)), at + n, SubSeq(e, n + 1, Len(e)))
         IN  /\ t \in Seq(Cell) /\ Len(t) = Larger(Len(s), at + Len(e))
             /\ \A k \in 1..Len(t) :
                  t[k] = IF at < k /\ k <= at + Len(e) THEN e[k - at]
                         ELSE IF k <= Len(s) THEN s[k] ELSE Zero
<1> DEFINE front == SubSeq(e, 1, n)
           back == SubSeq(e, n + 1, Len(e))
           mid == Overlay(s, at, front)
           t == Overlay(mid, at + n, back)
<1>1. /\ front \in Seq(Cell) /\ Len(front) = n /\ \A i \in 1..n : front[i] = e[i]
      /\ n \in Nat /\ Len(e) \in Nat /\ Len(s) \in Nat /\ n < Len(e)
  OBVIOUS
<1>2. /\ back \in Seq(Cell) /\ Len(back) = Len(e) - n
      /\ \A i \in 1..(Len(e) - n) : back[i] = e[n + i]
  OBVIOUS
<1> HIDE DEF front, back
<1>3. /\ mid \in Seq(Cell)
      /\ front = <<>> => Len(mid) = Len(s)
      /\ front # <<>> => Len(mid) = Larger(Len(s), at + n)
  BY <1>1, OverlayType
<1>4. Len(mid) = IF n = 0 THEN Len(s) ELSE Larger(Len(s), at + n)
  BY <1>1, <1>3, EmptySeq
<1>5. \A k \in 1..Len(mid) : mid[k] = IF at < k /\ k <= at + n THEN front[k - at]
                                      ELSE IF k <= Len(s) THEN s[k] ELSE Zero
  BY <1>1, OverlayAt
<1> HIDE DEF mid
<1>6. back # <<>> /\ at + n \in Nat BY <1>1, <1>2, EmptySeq
<1>7. t \in Seq(Cell) /\ Len(t) = Larger(Len(mid), (at + n) + Len(back))
  BY <1>2, <1>3, <1>6, OverlayType
<1>8. \A k \in 1..Len(t) : t[k] = IF at + n < k /\ k <= (at + n) + Len(back)
                                  THEN back[k - (at + n)]
                                  ELSE IF k <= Len(mid) THEN mid[k] ELSE Zero
  BY <1>2, <1>3, <1>6, OverlayAt
<1> HIDE DEF t
<1>9. Len(t) = Larger(Len(s), at + Len(e)) BY <1>1, <1>2, <1>4, <1>7 DEF Larger
<1>10. ASSUME NEW k \in 1..Len(t)
       PROVE  t[k] = IF at < k /\ k <= at + Len(e) THEN e[k - at]
                     ELSE IF k <= Len(s) THEN s[k] ELSE Zero
  <2>1. k \in Nat /\ k > 0 /\ Len(mid) \in Nat BY <1>3
  <2>2. CASE at + n < k /\ k <= at + Len(e)
    <3>1. k - (at + n) \in 1..(Len(e) - n) /\ n + (k - (at + n)) = k - at /\ at < k
          /\ k <= (at + n) + Len(back)
      BY <1>1, <1>2, <2>1, <2>2
    <3> QED BY <1>2, <1>8, <2>2, <3>1
  <2>3. CASE at < k /\ k <= at + n
    <3>1. n # 0 /\ k - at \in 1..n /\ ~ (at + n < k) /\ k <= at + Len(e) BY <1>1, <2>1, <2>3
    <3>2. k \in 1..Len(mid) BY <1>1, <1>4, <2>1, <2>3, <3>1 DEF Larger
    <3>3. t[k] = mid[k] BY <1>8, <3>1, <3>2
    <3>4. mid[k] = front[k - at] BY <1>5, <2>3, <3>2
    <3> QED BY <1>1, <2>3, <3>1, <3>3, <3>4
  <2>4. CASE ~ (at < k) \/ at + Len(e) < k
    <3>1. /\ ~ (at + n < k /\ k <= (at + n) + Len(back)) /\ ~ (at < k /\ k <= at + Len(e))
          /\ ~ (at < k /\ k <= at + n)
      BY <1>1, <1>2, <2>1, <2>4
    <3>2. t[k] = IF k <= Len(mid) THEN mid[k] ELSE Zero BY <1>8, <3>1
    <3>3. k <= Len(mid) => mid[k] = IF k <= Len(s) THEN s[k] ELSE Zero
      BY <1>5, <2>1, <3>1
    <3>4. k <= Len(s) => k <= Len(mid) BY <1>1, <1>4, <2>1 DEF Larger
    <3> QED BY <3>1, <3>2, <3>3, <3>4
  <2> QED BY <1>1, <2>1, <2>2, <2>3, <2>4
<1> QED BY <1>7, <1>9, <1>10 DEF t, mid, front, back

\* What is stored behind the header.
Body(s) == SubSeq(s, FILE_HEADER_POLL_SIZE + 1, Len(s))

\* The cells behind the header, and the text they stand for.
LEMMA BodyCells ==
  ASSUME NEW s \in Seq(Cell), Sealed(s)
  PROVE  /\ Body(s) \in Seq(Cell) /\ Len(Body(s)) = Len(s) - FILE_HEADER_POLL_SIZE
         /\ Len(s) >= FILE_HEADER_POLL_SIZE
         /\ \A k \in 1..Len(Body(s)) : Body(s)[k] = s[FILE_HEADER_POLL_SIZE + k]
         /\ PlainView(s) = aes_decrypt(Body(s))
<1> DEFINE h == FILE_HEADER_POLL_SIZE
           body == SubSeq(s, h + 1, Len(s))
<1>1. h \in Nat /\ Len(s) \in Nat /\ Len(s) >= h
  BY HeaderSize DEF Sealed, is_encrypted_by_file_header
<1>2. PlainView(s) = aes_decrypt(Body(s)) BY Zenon DEF PlainView, Body
<1>3. Body(s) = body BY DEF Body
<1> HIDE DEF h
<1>4. \A i \in (h + 1)..Len(s) : s[i] \in Cell BY <1>1
<1>5. /\ body \in Seq(Cell)
      /\ Len(body) = IF h + 1 <= Len(s) THEN Len(s) - (h + 1) + 1 ELSE 0
      /\ \A i \in 1..(Len(s) - (h + 1) + 1) : body[i] = s[(h + 1) + i - 1]
  BY <1>1, <1>4, SubSeqProperties
<1> HIDE DEF body
<1>6. Len(body) = Len(s) - h BY <1>1, <1>5
<1>7. \A k \in 1..Len(body) : body[k] = s[h + k]
  <2> SUFFICES ASSUME NEW k \in 1..Len(body) PROVE body[k] = s[h + k] OBVIOUS
  <2>1. k \in 1..(Len(s) - (h + 1) + 1) /\ (h + 1) + k - 1 = h + k BY <1>1, <1>6
  <2> QED BY <1>5, <2>1
<1> QED BY <1>1, <1>2, <1>3, <1>5, <1>6, <1>7 DEF h
\* The stored cells that write reads back in front of its data.
LEMMA PrefixCells ==
  ASSUME NEW s \in Seq(Cell), NEW at \in Nat, NEW n \in Nat
  PROVE  LET p == Overlay(Zeros(n), 0, Window(s, at, n))
         IN  /\ p \in Seq(Cell) /\ Len(p) = n
             /\ \A j \in 1..n : at + j <= Len(s) => p[j] = s[at + j]
<1> DEFINE z == Zeros(n)
           w == Window(s, at, n)
           p == Overlay(z, 0, w)
<1>1. z \in Seq(Cell) /\ Len(z) = n BY ZerosType
<1>2. /\ w \in Seq(Cell) /\ Len(w) = IF at >= Len(s) THEN 0 ELSE Smaller(n, Len(s) - at)
      /\ \A k \in 1..Len(w) : w[k] = s[at + k]
  BY WindowAt
<1> HIDE DEF z, w
<1>3. Len(w) \in 0..n /\ 0 \in Nat BY <1>2 DEF Smaller
<1>4. p \in Seq(Cell) /\ Len(p) = n
  <2>1. 0 + Len(w) <= Len(z) BY <1>1, <1>3
  <2> QED BY <1>1, <1>2, <1>3, <2>1, OverlayInside
<1>5. ASSUME NEW j \in 1..n, at + j <= Len(s) PROVE p[j] = s[at + j]
  <2>1. j <= Len(w) /\ j \in 1..Len(w)
    <3>1. Len(w) = IF n <= Len(s) - at THEN n ELSE Len(s) - at BY <1>2, <1>5 DEF Smaller
    <3> QED BY <1>5, <3>1
  <2>2. p[j] = IF 0 < j /\ j <= 0 + Len(w) THEN w[j - 0]
               ELSE IF j <= Len(z) THEN z[j] ELSE Zero
    <3>1. j \in 1..Len(p) BY <1>4
    <3> QED BY <1>1, <1>2, <1>3, <3>1, OverlayAt
  <2>3. j - 0 = j /\ 0 < j /\ j <= 0 + Len(w) BY <2>1
  <2> HIDE DEF p
  <2> QED BY <1>2, <2>1, <2>2, <2>3
<1> QED BY <1>4, <1>5 DEF z, w

\* A write behind the header keeps the header, and is a write into the text.
LEMMA FileWritten ==
  ASSUME NEW s \in Seq(Cell), Sealed(s), NEW pos \in Nat, pos >= FILE_HEADER_POLL_SIZE,
         NEW d \in Seq(Cell), d # <<>>, NEW prefix,
         prefix = Overlay(Zeros(pos % Block), 0,
                          Window(s, pos - (pos % Block), pos % Block)),
         NEW temp, temp = aes_encrypt(prefix \o d), NEW t,
         t = Overlay(Overlay(s, pos - Len(prefix), SubSeq(temp, 1, Len(prefix))),
                     pos, SubSeq(temp, Len(prefix) + 1, Len(temp)))
  PROVE  /\ t \in Seq(Cell) /\ Sealed(t)
         /\ BodyAfter(Body(s), pos - FILE_HEADER_POLL_SIZE, d, prefix, Body(t))
<1> DEFINE h == FILE_HEADER_POLL_SIZE
           lead == pos % Block
           start == pos - lead
           n == pos + Len(d)
<1>1. /\ Block \in Nat \ {0} /\ h \in Nat /\ h % Block = 0 /\ Len(s) \in Nat /\ Len(s) >= h
      /\ Len(d) \in Nat /\ Len(d) > 0
  <2>1. Len(d) # 0 BY EmptySeq
  <2> QED BY <2>1, LayoutAssumption, HeaderSize DEF Sealed, is_encrypted_by_file_header
<1>2. lead \in Nat /\ start \in Nat BY BlockEnds
<1>3. h <= start
  <2>1. h <= Complete(pos) BY <1>1, CompleteBounds
  <2> QED BY <2>1 DEF Complete
<1>4. /\ prefix \in Seq(Cell) /\ Len(prefix) = lead
      /\ \A j \in 1..lead : start + j <= Len(s) => prefix[j] = s[start + j]
  <2> HIDE DEF lead, start
  <2> DEFINE p == Overlay(Zeros(lead), 0, Window(s, start, lead))
  <2>1. /\ p \in Seq(Cell) /\ Len(p) = lead
        /\ \A j \in 1..lead : start + j <= Len(s) => p[j] = s[start + j]
    BY <1>2, PrefixCells
  <2>2. prefix = p BY DEF lead, start
  <2> HIDE DEF p
  <2> QED BY <2>1, <2>2
<1> HIDE DEF h
<1>5. /\ prefix \o d \in Seq(Cell) /\ Len(prefix \o d) = lead + Len(d)
      /\ temp \in Seq(Cell) /\ Len(temp) = lead + Len(d)
  <2>1. prefix \o d \in Seq(Cell) /\ Len(prefix \o d) = lead + Len(d)
    BY <1>4, ConcatProperties
  <2> QED BY <2>1, CryptType
<1>6. start + Len(temp) = n /\ start + lead = pos
  <2>1. lead \in Nat /\ Len(d) \in Nat /\ Len(temp) = lead + Len(d) BY <1>1, <1>2, <1>5
  <2> HIDE DEF lead
  <2> QED BY <2>1
<1>7. /\ t \in Seq(Cell) /\ Len(t) = Larger(Len(s), n)
      /\ \A k \in 1..Len(t) : t[k] = IF start < k /\ k <= n THEN temp[k - start]
                                     ELSE IF k <= Len(s) THEN s[k] ELSE Zero
  <2> HIDE DEF lead, start, n
  <2>1. t = Overlay(Overlay(s, start, SubSeq(temp, 1, lead)), start + lead,
                    SubSeq(temp, lead + 1, Len(temp)))
    <3>1. start = pos - Len(prefix) BY <1>4 DEF start
    <3> QED BY <1>4, <1>6, <3>1
  <2>2. lead \in 0..Len(temp) /\ lead < Len(temp) BY <1>1, <1>2, <1>5
  <2> DEFINE u == Overlay(Overlay(s, start, SubSeq(temp, 1, lead)), start + lead,
                          SubSeq(temp, lead + 1, Len(temp)))
  <2>3. /\ u \in Seq(Cell) /\ Len(u) = Larger(Len(s), start + Len(temp))
        /\ \A k \in 1..Len(u) : u[k] = IF start < k /\ k <= start + Len(temp)
                                       THEN temp[k - start]
                                       ELSE IF k <= Len(s) THEN s[k] ELSE Zero
    <3>1. /\ s \in Seq(Cell) /\ temp \in Seq(Cell) /\ start \in Nat
          /\ lead \in 0..Len(temp) /\ lead < Len(temp)
      BY <1>2, <1>5, <2>2
    <3> QED BY ONLY <3>1, OverlayTwice DEF u
  <2>4. t = u BY <2>1
  <2> HIDE DEF u
  <2> QED BY <1>6, <2>3, <2>4
<1> HIDE DEF lead, start
<1>8. Sealed(t)
  <2>1. \A k \in 1..h : t[k] = s[k]
    <3> SUFFICES ASSUME NEW k \in 1..h PROVE t[k] = s[k] OBVIOUS
    <3>1. k \in 1..Len(t) /\ k <= Len(s) /\ ~ (start < k)
      BY <1>1, <1>2, <1>3, <1>7 DEF Larger
    <3> QED BY <1>7, <3>1
  <2>2. Len(t) >= Len(s) BY <1>1, <1>7 DEF Larger
  <2> QED BY <1>7, <2>1, <2>2, SealedByHeader DEF h
<1> DEFINE b == Body(s)
           c == Body(t)
           at == pos - h
           a == at - Len(prefix)
           end == at + Len(d)
<1>9. /\ b \in Seq(Cell) /\ Len(b) = Len(s) - h /\ \A k \in 1..Len(b) : b[k] = s[h + k]
      /\ c \in Seq(Cell) /\ Len(c) = Len(t) - h /\ \A k \in 1..Len(c) : c[k] = t[h + k]
  BY <1>7, <1>8, BodyCells DEF h
<1> HIDE DEF b, c
<1>10. /\ at \in Nat /\ a \in Nat /\ a = start - h /\ end = n - h /\ end \in Nat
  <2>1. h \in Nat /\ Len(d) \in Nat /\ pos >= h /\ Len(prefix) = lead
    BY <1>1, <1>4 DEF h
  <2>2. lead \in Nat /\ start = pos - lead /\ start \in Nat /\ h <= start BY <1>2, <1>3, <1>6
  <2>3. start + (lead + Len(d)) = n BY <1>5, <1>6
  <2> HIDE DEF h, start, lead, n
  <2>4. pos \in Nat BY <1>1
  <2>5. at = pos - h /\ a = at - Len(prefix) /\ end = at + Len(d) OBVIOUS
  <2> DEFINE l == Len(d)
             p == Len(prefix)
  <2>6. /\ at = pos - h /\ a = at - p /\ end = at + l /\ p = lead /\ l \in Nat
        /\ start + (lead + l) = n
    BY <2>1, <2>3, <2>5
  <2> HIDE DEF at, a, end, l, p
  <2>7. at \in Nat /\ end \in Nat BY <2>1, <2>2, <2>4, <2>6
  <2>8. a = start - h /\ a \in Nat BY <2>1, <2>2, <2>4, <2>6
  <2>9. end = n - h BY <2>1, <2>2, <2>4, <2>6
  <2> QED BY <2>7, <2>8, <2>9
<1>11. a = Complete(at)
  <2>1. (h + at) % Block = at % Block BY <1>1, <1>10, BlocksAhead
  <2>2. h + at = pos BY <1>1
  <2>3. lead = at % Block BY <2>1, <2>2 DEF lead
  <2> QED BY <1>4, <2>3 DEF Complete
<1> HIDE DEF n
<1>12. Len(c) = Larger(Len(b), end) BY <1>1, <1>7, <1>9, <1>10 DEF Larger, n
<1> HIDE DEF at, a, end
<1>13. ASSUME NEW j \in 1..Len(prefix), a + j <= Len(b) PROVE prefix[j] = b[a + j]
  <2>1. start + j = h + (a + j) /\ start + j <= Len(s) /\ a + j \in 1..Len(b) /\ j \in 1..lead
    <3>1. /\ start \in Nat /\ h \in Nat /\ a \in Nat /\ a = start - h /\ lead = Len(prefix)
          /\ Len(b) = Len(s) - h /\ Len(s) \in Nat
      BY <1>1, <1>2, <1>4, <1>9, <1>10
    <3> QED BY <1>13, <3>1
  <2>2. prefix[j] = s[start + j] BY <1>4, <2>1
  <2>3. b[a + j] = s[h + (a + j)] BY <1>9, <2>1
  <2> QED BY <2>1, <2>2, <2>3
<1>14. ASSUME NEW k \in 1..Len(c)
       PROVE  c[k] = IF a < k /\ k <= end THEN temp[k - a]
                     ELSE IF k <= Len(b) THEN b[k] ELSE Zero
  <2>1. h + k \in 1..Len(t) /\ k \in Nat /\ n \in Nat
    <3>1. n \in Nat BY <1>1 DEF n
    <3>2. k \in 1..Len(c) /\ Len(c) = Len(t) - h BY <1>9
    <3>3. h \in Nat /\ Len(t) \in Nat BY <1>1, <1>7, LenProperties
    <3> HIDE DEF n, c, h
    <3> DEFINE lc == Len(c)
               lt == Len(t)
    <3>4. k \in 1..lc /\ lc = lt - h /\ lt \in Nat BY <3>2, <3>3
    <3> HIDE DEF lc, lt
    <3>5. h + k \in 1..lt /\ k \in Nat BY <3>3, <3>4
    <3> QED BY <3>1, <3>5 DEF lt
  <2>2. c[k] = IF start < h + k /\ h + k <= n THEN temp[(h + k) - start]
               ELSE IF h + k <= Len(s) THEN s[h + k] ELSE Zero
    <3>1. c[k] = t[h + k] BY <1>9
    <3> QED BY <1>7, <2>1, <3>1
  <2>3. /\ start < h + k <=> a < k
        /\ h + k <= n <=> k <= end
        /\ (h + k) - start = k - a
        /\ h + k <= Len(s) <=> k <= Len(b)
    <3>1. /\ start \in Nat /\ h \in Nat /\ Len(s) \in Nat /\ Len(b) = Len(s) - h
          /\ a = start - h /\ end = n - h
      BY <1>1, <1>2, <1>9, <1>10
    <3> HIDE DEF start, h
    <3> QED BY <2>1, <3>1
  <2>4. k <= Len(b) => b[k] = s[h + k] BY <1>9
  <2> QED BY <2>2, <2>3, <2>4
<1> HIDE DEF c
<1>15. BodyAfter(b, at, d, prefix, c)
  <2>1. at - Len(prefix) = a /\ at + Len(d) = end BY DEF a, end
  <2>2. \A k \in 1..Len(c) :
          c[k] = IF at - Len(prefix) < k /\ k <= at + Len(d)
                 THEN aes_encrypt(prefix \o d)[k - (at - Len(prefix))]
                 ELSE IF k <= Len(b) THEN b[k] ELSE Zero
    BY <1>14, <2>1
  <2>3. \A j \in 1..Len(prefix) : (at - Len(prefix)) + j <= Len(b) =>
          prefix[j] = b[(at - Len(prefix)) + j]
    BY <1>13, <2>1
  <2>4. at - Len(prefix) = Complete(at) /\ Len(c) = Larger(Len(b), at + Len(d))
    BY <1>11, <1>12, <2>1
  <2> QED BY <1>4, <1>9, <1>10, <2>2, <2>3, <2>4, Zenon DEF BodyAfter
<1> QED BY <1>7, <1>8, <1>15 DEF b, c, at, h
=============================================================================
