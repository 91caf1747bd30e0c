----------------------------- MODULE PlainFiles -----------------------------
(***************************************************************************)
(* What the interposition layer promises an application that uses it the   *)
(* way it is meant to be used: ordinary files.  Files hold plain cells,    *)
(* handles stand at offsets counted from the first plain cell, a read      *)
(* delivers what was written, and there is no header to be seen.           *)
(*                                                                         *)
(* The one place where the promise is weaker than that of a file system is *)
(* write: the layer encrypts whole blocks and rewrites only the cells it   *)
(* was given plus the head of the first block, so a write that would need  *)
(* the rest of the last block, or the block before a hole, damages them.   *)
(***************************************************************************)
EXTENDS Integers, Sequences

CONSTANTS
  Path,    \* file names
  NoPath,  \* the path of an unused handle
  Handle,  \* handles an open file can have
  Cell,    \* the values a byte can have
  Block,   \* cells in a cipher block
  Sizes,   \* counts passed to read
  Offsets, \* offsets lseek may lead to
  Buffers  \* buffers passed to write

VARIABLES
  there,   \* the files there are
  content, \* what each of them holds
  handle   \* the open files: name and offset

vars == <<there, content, handle>>

Closed == [path |-> NoPath, at |-> 0]

Maximum(a, b) == IF a >= b THEN a ELSE b

\* How many cells a read of n cells at offset "at" delivers.
Delivered(s, at, n) == Maximum(0, IF at + n <= Len(s) THEN n ELSE Len(s) - at)

\* The incomplete block at the end of a file of length n starts here.
TailStart(n) == n - (n % Block)

\* The cells written by a write of d at offset "at", as a file system would.
Written(s, at, d) ==
  [k \in 1..Maximum(Len(s), at + Len(d)) |->
     IF at < k /\ k <= at + Len(d) THEN d[k - at] ELSE s[k]]

\* The first block touched is known to the layer completely ...
GoodStart(s, at) == at <= Len(s) /\ (at % Block = 0 \/ TailStart(Len(s)) <= at)
\* ... and the last one is written completely, or is the end of the file.
GoodEnd(s, end) == end % Block = 0 \/ TailStart(Len(s)) < end

\* A write that is not good leaves the file with the right length, and every
\* block outside the range from the first touched block (or the end of the
\* file, when that comes first) to the last touched block as it was.
Contained(s, t, at, end) ==
  /\ Len(t) = Maximum(Len(s), end)
  /\ \A k \in 1..Len(s) :
       \/ TailStart(at) < k /\ k <= TailStart(end) + Block
       \/ TailStart(Len(s)) < k /\ Len(s) < at
       \/ t[k] = s[k]

-----------------------------------------------------------------------------
Open(h, p) ==
  /\ handle[h] = Closed
  /\ there' = there \cup {p}
  /\ handle' = [handle EXCEPT ![h] = [path |-> p, at |-> 0]]
  /\ UNCHANGED content

Close(h) ==
  /\ handle[h] # Closed
  /\ handle' = [handle EXCEPT ![h] = Closed]
  /\ UNCHANGED <<there, content>>

Read(h, n) ==
  /\ handle[h] # Closed
  /\ UNCHANGED there
  /\ handle' = [handle EXCEPT ![h].at =
                  @ + Delivered(content[handle[h].path], @, n)]
  /\ UNCHANGED content

\* lseek: to an offset, by a distance, or to the end.
Seek(h, at) ==
  /\ handle[h] # Closed
  /\ at >= 0
  /\ handle' = [handle EXCEPT ![h].at = at]
  /\ UNCHANGED <<there, content>>

Write(h, d) ==
  LET p   == handle[h].path
      at  == handle[h].at
      end == at + Len(d)
  IN  /\ handle[h] # Closed
      /\ handle' = [handle EXCEPT ![h].at = end]
      /\ DOMAIN content' = Path
      /\ \A q \in Path \ {p} : content'[q] = content[q]
      /\ IF GoodStart(content[p], at) /\ GoodEnd(content[p], end)
         THEN content'[p] = Written(content[p], at, d)
         ELSE Contained(content[p], content'[p], at, end)
      /\ UNCHANGED there

Init ==
  /\ there \in SUBSET Path
  /\ content \in [Path -> Seq(Cell)]
  /\ handle = [h \in Handle |-> Closed]

Next ==
  \E h \in Handle :
    \/ \E p \in Path : Open(h, p)
    \/ Close(h)
    \/ \E n \in Sizes : Read(h, n)
    \/ \E at \in Offsets : Seek(h, at)
    \/ \E d \in Buffers : Write(h, d)

Spec == Init /\ [][Next]_vars
=============================================================================
