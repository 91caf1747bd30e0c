----------------------------- MODULE SecureFile -----------------------------
(***************************************************************************)
(* The on-disk format of a transparently encrypted file, and the pure      *)
(* operations the interposition layer (ports/linker.c, ports/crypto.c)     *)
(* applies to it.                                                          *)
(*                                                                         *)
(* A file is a sequence of cells (bytes).  An encrypted ("sealed") file is *)
(* a header of FILE_HEADER_POLL_SIZE cells followed by the body.  The body *)
(* is encrypted block by block; the cells of the last, incomplete block    *)
(* are stored as they are.  AES itself is not modelled: Encrypt is some    *)
(* permutation of blocks and Decrypt its inverse.                          *)
(***************************************************************************)
EXTENDS Integers, Sequences

CONSTANTS
  Cell,        \* the values a byte can have
  Zero,        \* the zero byte: fresh memory, holes
  Block,       \* AES_BLOCK_SIZE
  HeaderCells, \* the bytes file_header_init() builds
  Encrypt(_),  \* AES_encrypt under userKey, on one block
  Decrypt(_)   \* AES_decrypt under userKey, on one block

BlockSet == [1..Block -> Cell]

ASSUME LayoutAssumption ==
  /\ Block \in Nat \ {0}
  /\ Zero \in Cell
  /\ HeaderCells \in Seq(Cell)
  /\ Len(HeaderCells) > 0
  /\ Len(HeaderCells) % Block = 0

\* The first cell stands for the signature, the last for kernel.file_type:
\* both differ from the zero bytes a short read leaves behind.
ASSUME HeaderAssumption ==
  /\ HeaderCells[1] # Zero
  /\ HeaderCells[Len(HeaderCells)] # Zero

ASSUME CipherAssumption ==
  \A b \in BlockSet :
    /\ Encrypt(b) \in BlockSet /\ Decrypt(b) \in BlockSet
    /\ Decrypt(Encrypt(b)) = b /\ Encrypt(Decrypt(b)) = b

FILE_HEADER_POLL_SIZE == Len(HeaderCells)

-----------------------------------------------------------------------------
(* Kernel primitives on the bytes of a regular file.                       *)

Larger(a, b) == IF a >= b THEN a ELSE b
Smaller(a, b) == IF a =< b THEN a ELSE b

Zeros(n) == [k \in 1..n |-> Zero]

\* pread(at, n): the bytes there are, clipped at the end of the file.
Window(s, at, n) == SubSeq(s, at + 1, Smaller(at + n, Len(s)))

\* pwrite(d, at): overwrites, extends, and fills a hole with zeros.
Overlay(s, at, d) ==
  IF d = <<>> THEN s
  ELSE [k \in 1..Larger(Len(s), at + Len(d)) |->
          IF at < k /\ k <= at + Len(d) THEN d[k - at]
          ELSE IF k <= Len(s) THEN s[k] ELSE Zero]

-----------------------------------------------------------------------------
(* aes_encrypt_128bit / aes_decrypt_128bit, called in a loop over the      *)
(* complete blocks of a buffer: "for (i = 0; i < size/16; i++)".           *)

InWholeBlock(n, k) == k <= n - (n % Block)

BlockAt(s, k) == [j \in 1..Block |-> s[((k - 1) - ((k - 1) % Block)) + j]]

aes_encrypt(s) ==
  [k \in 1..Len(s) |-> IF InWholeBlock(Len(s), k)
                       THEN Encrypt(BlockAt(s, k))[((k - 1) % Block) + 1]
                       ELSE s[k]]

aes_decrypt(s) ==
  [k \in 1..Len(s) |-> IF InWholeBlock(Len(s), k)
                       THEN Decrypt(BlockAt(s, k))[((k - 1) % Block) + 1]
                       ELSE s[k]]

\* What read and fread make of the three pieces they collect: the head of the
\* first block (lead cells asked for), the n cells the caller wants and the rest
\* of the last block lie in one zeroed buffer, as many complete blocks of it
\* as there are cells read are decrypted, and the middle is handed out.
Collected(lead, n, head, middle, tail) ==
  LET tmpbuf == Overlay(Overlay(Overlay(Zeros(lead + n + Block), 0, head),
                                lead, middle), lead + n, tail)
      size   == Len(head) + Len(middle) + Len(tail)
  IN  Window(Overlay(tmpbuf, 0, aes_decrypt(SubSeq(tmpbuf, 1, size))),
             lead, Len(middle))

-----------------------------------------------------------------------------
(* is_encrypted_by_file_header reads the header into a zeroed buffer.  It  *)
(* answers NORMAL when the signature differs, and otherwise whatever value *)
(* file_type has: RIGHTS, or something that is neither.                    *)

HeaderKinds == {"normal", "rights", "other"}

is_encrypted_by_file_header(s) ==
  IF Len(s) = 0 \/ s[1] # HeaderCells[1] THEN "normal"
  ELSE IF Len(s) >= FILE_HEADER_POLL_SIZE
          /\ s[FILE_HEADER_POLL_SIZE] = HeaderCells[FILE_HEADER_POLL_SIZE]
       THEN "rights"
       ELSE "other"

Sealed(s) == is_encrypted_by_file_header(s) = "rights"

\* rebuild_file_struct for a file of at most THREADS_COUNT pages: header and
\* encrypted content, written over the plain file in one pwrite.
SealedForm(s) == HeaderCells \o aes_encrypt(s)

\* What the application should see of a file: the reference the layer's reads,
\* sizes and positions are compared with.
PlainView(s) ==
  IF Sealed(s)
  THEN aes_decrypt(SubSeq(s, FILE_HEADER_POLL_SIZE + 1, Len(s)))
  ELSE s
=============================================================================
