---------------------------- MODULE LinkerProofs ----------------------------
(***************************************************************************)
(* Theorems about Linker for every set of paths, descriptors, flags,       *)
(* buffers and offsets, and about StreamRead for every set of files,       *)
(* counts and positions; both for every header, block size and cipher.     *)
(***************************************************************************)
EXTENDS LinkerContract, StreamRead, SecureFileProofs, FiniteSetTheorems

Ofd == [path : Path \cup {NoPath}, pos : Nat, acc : {"r", "w", "rw"}, app : BOOLEAN]

-----------------------------------------------------------------------------
(* What the steps of several calls have in common.                         *)

\* An open descriptor leads to an open file description and an existing file.
LEMMA OpenFd ==
  ASSUME TypeOK, NEW fd \in OpenFds
  PROVE  /\ fd \in Fd /\ fdt[fd] \in Fd /\ fdt[fd] # 0
         /\ ofd[fdt[fd]] \in Ofd
         /\ File(fd) \in Path /\ File(fd) \in exists /\ Pos(fd) \in Nat
         /\ disk[File(fd)] \in Seq(Cell)
<1>1. fd \in Fd /\ fdt[fd] # 0 /\ fdt[fd] \in Fd /\ File(fd) \in exists
  BY DEF TypeOK, OpenFds
<1>2. ofd[fdt[fd]] \in Ofd BY <1>1 DEF TypeOK, Ofd
<1>3. File(fd) \in Path BY <1>1 DEF TypeOK
<1>4. Pos(fd) \in Nat BY <1>2 DEF Pos, Ofd
<1>5. disk[File(fd)] \in Seq(Cell) BY <1>3 DEF TypeOK
<1> QED BY <1>1, <1>2, <1>3, <1>4, <1>5

\* Moving a kernel offset keeps the types and the files descriptors lead to.
LEMMA SetPosKeeps ==
  ASSUME TypeOK, NEW fd \in OpenFds, NEW pos \in Nat, SetPos(fd, pos)
  PROVE  /\ ofd' \in [Fd -> Ofd]
         /\ \A o \in Fd : ofd'[o].path = ofd[o].path
<1>1. fdt[fd] \in Fd /\ ofd \in [Fd -> Ofd] BY OpenFd DEF TypeOK, Ofd
<1>2. ofd' = [ofd EXCEPT ![fdt[fd]].pos = pos] BY DEF SetPos
<1>3. \A o \in Fd : ofd'[o] = IF o = fdt[fd] THEN [ofd[o] EXCEPT !.pos = pos] ELSE ofd[o]
  BY <1>1, <1>2
<1>4. \A o \in Fd : ofd'[o] \in Ofd /\ ofd'[o].path = ofd[o].path
  BY <1>1, <1>3 DEF Ofd
<1>5. ofd' \in [Fd -> Ofd] BY <1>1, <1>2, <1>4 DEF Ofd
<1> QED BY <1>4, <1>5

\* The type invariant after a step, from the types of the changed variables.
LEMMA TypesAfter ==
  ASSUME TypeOK, UNCHANGED leftover, protected' \in BOOLEAN,
         disk' \in [Path -> Seq(Cell)], exists' \in SUBSET Path,
         fdt' \in [Fd -> Fd \cup {0}], ofd' \in [Fd -> Ofd],
         \A fd \in Fd : fdt'[fd] # 0 => ofd'[fdt'[fd]].path \in exists',
         file_info_list' \in Seq([fd : Fd, path : Path])
  PROVE  TypeOK'
  BY DEF TypeOK, Ofd, OpenFds, File

\* A call that leaves the tables alone keeps the type invariant when it keeps
\* the types of the files and of the offsets.
LEMMA SameTables ==
  ASSUME TypeOK, UNCHANGED <<exists, leftover, fdt, file_info_list, protected>>,
         disk' \in [Path -> Seq(Cell)], ofd' \in [Fd -> Ofd],
         \A o \in Fd : ofd'[o].path = ofd[o].path
  PROVE  TypeOK'
<1>1. \A fd \in Fd : fdt'[fd] # 0 => ofd'[fdt'[fd]].path \in exists'
  <2> SUFFICES ASSUME NEW fd \in Fd, fdt'[fd] # 0
               PROVE  ofd'[fdt'[fd]].path \in exists'
    OBVIOUS
  <2>1. fd \in OpenFds BY DEF OpenFds
  <2>2. fdt[fd] \in Fd /\ ofd[fdt[fd]].path \in exists
    BY <2>1, OpenFd DEF File
  <2> QED BY <2>2
<1>2. /\ UNCHANGED leftover /\ protected' \in BOOLEAN /\ exists' \in SUBSET Path
      /\ fdt' \in [Fd -> Fd \cup {0}]
      /\ file_info_list' \in Seq([fd : Fd, path : Path])
  BY DEF TypeOK
<1> QED BY <1>1, <1>2, TypesAfter

\* A successful kernel open: one free descriptor is taken, together with an
\* unused open file description; the other descriptors lead where they did.
LEMMA KernelOpenKeeps ==
  ASSUME TypeOK, NEW fd \in Fd \ OpenFds, NEW p \in Path, NEW fl \in Flags,
         NEW pos \in Nat, KernelOpen(fd, p, fl, pos)
  PROVE  /\ fdt' \in [Fd -> Fd \cup {0}] /\ fdt'[fd] # 0
         /\ ofd' \in [Fd -> Ofd] /\ ofd'[fdt'[fd]].path = p
         /\ ofd'[fdt'[fd]].acc = fl.acc
         /\ exists' \in SUBSET Path
         /\ \A g \in Fd \ {fd} : fdt'[g] = fdt[g]
         /\ \A g \in OpenFds : ofd'[fdt[g]] = ofd[fdt[g]]
         /\ \A g \in Fd : fdt'[g] # 0 => ofd'[fdt'[g]].path \in exists'
<1>1. PICK o \in Fd :
        /\ LowestOfd(o)
        /\ fdt' = [fdt EXCEPT ![fd] = o]
        /\ ofd' = [ofd EXCEPT ![o] = [path |-> p, pos |-> pos,
                                      acc |-> fl.acc, app |-> fl.append]]
        /\ exists' = exists \cup {p}
  BY DEF KernelOpen
<1>2. o # 0 BY LinkerAssumption
<1>3. [path |-> p, pos |-> pos, acc |-> fl.acc, app |-> fl.append] \in Ofd
  BY LinkerAssumption DEF Ofd
<1>4. fdt \in [Fd -> Fd \cup {0}] /\ ofd \in [Fd -> Ofd] BY DEF TypeOK, Ofd
<1>5. /\ fdt' \in [Fd -> Fd \cup {0}] /\ fdt'[fd] = o
      /\ \A g \in Fd \ {fd} : fdt'[g] = fdt[g]
  BY <1>1, <1>4
<1>6. ofd' \in [Fd -> Ofd] /\ ofd'[o].path = p /\ ofd'[o].acc = fl.acc
  BY <1>1, <1>3, <1>4
<1>7. \A g \in OpenFds : fdt[g] # o BY <1>1 DEF LowestOfd, InUse, OpenFds
<1>8. \A g \in OpenFds : ofd'[fdt[g]] = ofd[fdt[g]]
  BY <1>1, <1>4, <1>7 DEF OpenFds
<1>9. \A g \in Fd : fdt'[g] # 0 => ofd'[fdt'[g]].path \in exists'
  <2> SUFFICES ASSUME NEW g \in Fd, fdt'[g] # 0
               PROVE  ofd'[fdt'[g]].path \in exists'
    OBVIOUS
  <2>1. CASE g = fd BY <2>1, <1>1, <1>5, <1>6
  <2>2. CASE g # fd
    <3>1. g \in OpenFds /\ fdt'[g] = fdt[g] BY <2>2, <1>5 DEF OpenFds
    <3>2. ofd[fdt[g]].path \in exists BY <3>1, OpenFd DEF File
    <3> QED BY <1>1, <1>8, <3>1, <3>2
  <2> QED BY <2>1, <2>2
<1>10. exists' \in SUBSET Path BY <1>1 DEF TypeOK
<1> QED BY <1>1, <1>2, <1>5, <1>6, <1>8, <1>9, <1>10

-----------------------------------------------------------------------------
(* The list and the files.                                                 *)

Entry == [fd : Fd, path : Path]

\* The list without its i-th entry.
LEMMA WithoutKeeps ==
  ASSUME NEW list \in Seq(Entry), NEW i \in 1..Len(list)
  PROVE  /\ Without(list, i) \in Seq(Entry)
         /\ Len(Without(list, i)) = Len(list) - 1
         /\ \A j \in 1..(Len(list) - 1) :
              Without(list, i)[j] = IF j < i THEN list[j] ELSE list[j + 1]
<1> DEFINE a == SubSeq(list, 1, i - 1)
           b == SubSeq(list, i + 1, Len(list))
<1>1. /\ a \in Seq(Entry) /\ Len(a) = i - 1
      /\ \A j \in 1..(i - 1) : a[j] = list[j]
  OBVIOUS
<1>2. /\ b \in Seq(Entry) /\ Len(b) = Len(list) - i
      /\ \A j \in 1..(Len(list) - i) : b[j] = list[i + j]
  OBVIOUS
<1>3. Without(list, i) = a \o b BY DEF Without
<1> HIDE DEF a, b
<1>4. /\ a \o b \in Seq(Entry) /\ Len(a \o b) = Len(a) + Len(b)
      /\ \A j \in 1..Len(a) + Len(b) : (a \o b)[j] =
           IF j <= Len(a) THEN a[j] ELSE b[j - Len(a)]
  BY <1>1, <1>2, ConcatProperties
<1> DEFINE m == a \o b
<1> HIDE DEF m
<1>5. /\ m \in Seq(Entry) /\ Len(m) = Len(list) - 1
      /\ \A j \in 1..(Len(list) - 1) : m[j] = IF j <= i - 1 THEN a[j] ELSE b[j - (i - 1)]
  BY <1>1, <1>2, <1>4 DEF m
<1>6. \A j \in 1..(Len(list) - 1) : m[j] = IF j < i THEN list[j] ELSE list[j + 1]
  <2> SUFFICES ASSUME NEW j \in 1..(Len(list) - 1)
               PROVE  m[j] = IF j < i THEN list[j] ELSE list[j + 1]
    OBVIOUS
  <2>1. CASE j < i BY <2>1, <1>1, <1>5
  <2>2. CASE ~ (j < i)
    <3>1. j - (i - 1) \in 1..(Len(list) - i) /\ i + (j - (i - 1)) = j + 1 /\ ~ (j <= i - 1)
      BY <2>2
    <3>2. m[j] = b[j - (i - 1)] BY <1>5, <3>1
    <3> QED BY <2>2, <1>2, <3>1, <3>2
  <2> QED BY <2>1, <2>2
<1>7. Without(list, i) = m BY <1>3 DEF m
<1> QED BY <1>5, <1>6, <1>7

\* remove_by_fd leaves a list.
LEMMA RemoveType ==
  ASSUME TypeOK, NEW fd \in Fd, file_info_list_remove_by_fd(fd)
  PROVE  file_info_list' \in Seq(Entry)
<1>1. file_info_list \in Seq(Entry) BY DEF TypeOK, Entry
<1>2. CASE ~ Tracked(fd) BY <1>1, <1>2 DEF file_info_list_remove_by_fd
<1>3. CASE Tracked(fd)
  <2>1. PICK i \in 1..Len(file_info_list) : file_info_list' = Without(file_info_list, i)
    BY <1>3 DEF file_info_list_remove_by_fd
  <2> QED BY <1>1, <2>1, WithoutKeeps
<1> QED BY <1>2, <1>3

\* add leaves a list.
LEMMA AddType ==
  ASSUME TypeOK, NEW fd \in Fd, NEW p \in Path, file_info_list_add(fd, p)
  PROVE  file_info_list' \in Seq(Entry)
  BY DEF TypeOK, file_info_list_add, Info, Entry

\* What a truncating or plain open leaves of a file.
LEMMA TruncatedType ==
  ASSUME TypeOK, NEW p \in Path, NEW fl
  PROVE  Truncated(p, fl) \in Seq(Cell)
  BY EmptySeq DEF TypeOK, Truncated

\* A small file after the rebuild.
LEMMA SealedFormType ==
  ASSUME NEW s \in Seq(Cell)
  PROVE  SealedForm(s) \in Seq(Cell)
  BY HeaderSize, CryptType, ConcatProperties DEF SealedForm

\* Every way open can succeed, and the one in which it leaves an empty file
\* behind, keeps the type invariant.
LEMMA OpenType ==
  ASSUME TypeOK, NEW fd \in Fd, NEW p \in Path, NEW fl \in Flags, open(fd, p, fl)
  PROVE  TypeOK'
<1>1. fd \in Fd \ OpenFds BY DEF open, LowestFree
<1>2. UNCHANGED leftover /\ protected' \in BOOLEAN BY DEF open, TypeOK
<1>3. file_info_list \in Seq(Entry) /\ disk \in [Path -> Seq(Cell)]
  BY DEF TypeOK, Entry
<1>4. ASSUME NEW pos \in Nat, KernelOpen(fd, p, fl, pos),
             disk' \in [Path -> Seq(Cell)], file_info_list' \in Seq(Entry)
      PROVE  TypeOK'
  <2>1. /\ fdt' \in [Fd -> Fd \cup {0}]
        /\ ofd' \in [Fd -> Ofd]
        /\ exists' \in SUBSET Path
        /\ \A g \in Fd : fdt'[g] # 0 => ofd'[fdt'[g]].path \in exists'
    BY <1>1, <1>4, KernelOpenKeeps
  <2> QED BY <1>2, <1>4, <2>1, TypesAfter DEF Entry
<1>5. 0 \in Nat /\ FILE_HEADER_POLL_SIZE \in Nat BY HeaderSize
<1>6. [disk EXCEPT ![p] = Truncated(p, fl)] \in [Path -> Seq(Cell)]
  BY <1>3, TruncatedType
<1>7. CASE OpenRaw(fd, p, fl)
  BY <1>3, <1>4, <1>5, <1>6, <1>7 DEF OpenRaw
<1>8. CASE OpenNew(fd, p, fl)
  <2>1. CASE fl.acc # "r"
    <3>1. disk' \in [Path -> Seq(Cell)] BY <1>3, <1>8, <2>1, HeaderSize DEF OpenNew
    <3>2. file_info_list' \in Seq(Entry) BY <1>8, <2>1, AddType DEF OpenNew
    <3> QED BY <1>4, <1>5, <1>8, <2>1, <3>1, <3>2 DEF OpenNew
  <2>2. CASE fl.acc = "r"
    <3>1. /\ exists' = exists \cup {p}
          /\ UNCHANGED <<disk, fdt, ofd>>
      BY <1>8, <2>2 DEF OpenNew
    <3>2. file_info_list' \in Seq(Entry)
      <4>1. CASE ~ Tracked(fd) BY <1>3, <1>8, <2>2, <4>1 DEF OpenNew
      <4>2. CASE Tracked(fd)
        <5>1. PICK i \in 1..Len(file_info_list) :
                file_info_list' = Append(Without(file_info_list, i), Info(fd, p))
          BY <1>8, <2>2, <4>2 DEF OpenNew
        <5>2. Without(file_info_list, i) \in Seq(Entry) BY <1>3, WithoutKeeps
        <5>3. Info(fd, p) \in Entry BY DEF Info, Entry
        <5> QED BY <5>1, <5>2, <5>3
      <4> QED BY <4>1, <4>2
    <3>3. \A g \in Fd : fdt'[g] # 0 => ofd'[fdt'[g]].path \in exists'
      BY <3>1 DEF TypeOK, OpenFds, File
    <3>4. /\ fdt' \in [Fd -> Fd \cup {0}] /\ ofd' \in [Fd -> Ofd]
          /\ exists' \in SUBSET Path /\ disk' \in [Path -> Seq(Cell)]
      BY <3>1 DEF TypeOK, Ofd
    <3> QED BY <1>2, <3>2, <3>3, <3>4, TypesAfter DEF Entry
  <2> QED BY <2>1, <2>2
<1>9. CASE OpenNewSpecial(fd, p, fl)
  BY <1>3, <1>4, <1>5, <1>9 DEF OpenNewSpecial
<1>10. CASE OpenSealed(fd, p, fl)
  <2>1. file_info_list' \in Seq(Entry) BY <1>10, AddType DEF OpenSealed
  <2> DEFINE pos == IF fl.append THEN 0 ELSE FILE_HEADER_POLL_SIZE
  <2>2. pos \in Nat /\ KernelOpen(fd, p, fl, pos) BY <1>5, <1>10 DEF OpenSealed
  <2>3. disk' \in [Path -> Seq(Cell)] BY <1>6, <1>10 DEF OpenSealed
  <2> HIDE DEF pos
  <2> QED BY <1>4, <2>1, <2>2, <2>3
<1>11. CASE OpenPlain(fd, p, fl)
  <2>1. CASE p \notin leftover /\ Truncated(p, fl) # <<>>
    <3>1. disk' \in [Path -> Seq(Cell)]
      BY <1>3, <1>11, <2>1, SealedFormType DEF OpenPlain
    <3>2. file_info_list' \in Seq(Entry) BY <1>11, <2>1, AddType DEF OpenPlain
    <3> QED BY <1>4, <1>5, <1>11, <2>1, <3>1, <3>2 DEF OpenPlain
  <2>2. CASE ~ (p \notin leftover /\ Truncated(p, fl) # <<>>)
    BY <1>3, <1>4, <1>5, <1>6, <1>11, <2>2 DEF OpenPlain
  <2> QED BY <2>1, <2>2
<1> QED BY <1>7, <1>8, <1>9, <1>10, <1>11 DEF open

-----------------------------------------------------------------------------
(* write: the bytes it puts back in front of the data, and the file after. *)

\* The prefix is as long as the distance to the start of the block.
LEMMA BlockPrefixType ==
  ASSUME TypeOK, NEW fd \in OpenFds,
         NEW prefix \in BlockPrefix(fd, Pos(fd) % Block)
  PROVE  /\ prefix \in Seq(Cell) /\ Len(prefix) = Pos(fd) % Block
         /\ Pos(fd) % Block \in Nat /\ Pos(fd) - (Pos(fd) % Block) \in Nat
<1> DEFINE lead == Pos(fd) % Block
<1>1. Pos(fd) \in Nat BY OpenFd
<1>2. lead \in Nat /\ Pos(fd) - lead \in Nat BY <1>1, LayoutAssumption
<1> HIDE DEF lead
<1>3. Zeros(lead) \in Seq(Cell) /\ Len(Zeros(lead)) = lead BY <1>2, ZerosType
<1>4. CASE ~ (Tracked(fd) /\ SpareFd)
  BY <1>2, <1>3, <1>4 DEF BlockPrefix, lead
<1>5. CASE Tracked(fd) /\ SpareFd
  <2>1. PICK i \in 1..Len(file_info_list) :
          prefix = Overlay(Zeros(lead), 0,
                     Window(disk[file_info_list[i].path], Pos(fd) - lead, lead))
    BY <1>5 DEF BlockPrefix, lead
  <2> DEFINE w == Window(disk[file_info_list[i].path], Pos(fd) - lead, lead)
  <2>2. disk[file_info_list[i].path] \in Seq(Cell)
    <3>1. file_info_list[i] \in Entry BY ElementOfSeq DEF TypeOK, Entry
    <3>2. file_info_list[i].path \in Path BY <3>1 DEF Entry
    <3> QED BY <3>2 DEF TypeOK
  <2>3. w \in Seq(Cell) /\ Len(w) \in 0..lead BY <1>2, <2>2, WindowType
  <2> HIDE DEF w
  <2>4. /\ Overlay(Zeros(lead), 0, w) \in Seq(Cell)
        /\ w = <<>> => Len(Overlay(Zeros(lead), 0, w)) = Len(Zeros(lead))
        /\ w # <<>> => Len(Overlay(Zeros(lead), 0, w)) = Larger(Len(Zeros(lead)), 0 + Len(w))
    BY <1>3, <2>3, OverlayType
  <2>5. Larger(Len(Zeros(lead)), 0 + Len(w)) = lead BY <1>2, <1>3, <2>3 DEF Larger
  <2>6. prefix = Overlay(Zeros(lead), 0, w) BY <2>1 DEF w
  <2> QED BY <1>2, <1>3, <2>4, <2>5, <2>6 DEF lead
<1> QED BY <1>4, <1>5

\* Where a kernel write lands is an offset.
LEMMA LandingType ==
  ASSUME NEW fd, NEW s \in Seq(Cell), NEW at \in Nat
  PROVE  Landing(fd, s, at) \in Nat
  BY DEF Landing

\* The two kernel writes of write, as two overlays of the encrypted buffer.
LEMMA WrittenForm ==
  ASSUME TypeOK, NEW fd \in OpenFds, NEW d \in Seq(Cell),
         NEW prefix \in BlockPrefix(fd, Pos(fd) % Block)
  PROVE  \E front, back, mid \in Seq(Cell) :
           /\ mid = Overlay(disk[File(fd)],
                            Landing(fd, disk[File(fd)], Pos(fd) - Len(prefix)), front)
           /\ Written(fd, prefix, d) = Overlay(mid, Landing(fd, mid, Pos(fd)), back)
           /\ Len(back) = Len(d)
           /\ Written(fd, prefix, d) \in Seq(Cell)
           /\ Pos(fd) - Len(prefix) \in Nat
<1> DEFINE lead == Len(prefix)
           temp == aes_encrypt(prefix \o d)
           s    == disk[File(fd)]
           front == SubSeq(temp, 1, lead)
           back == SubSeq(temp, lead + 1, Len(temp))
           s1   == Overlay(s, Landing(fd, s, Pos(fd) - lead), front)
<1>1. /\ prefix \in Seq(Cell) /\ lead \in Nat /\ Pos(fd) - lead \in Nat
      /\ Pos(fd) \in Nat /\ s \in Seq(Cell)
  BY BlockPrefixType, OpenFd
<1>2. prefix \o d \in Seq(Cell) /\ Len(prefix \o d) = lead + Len(d)
  BY <1>1, ConcatProperties
<1>3. temp \in Seq(Cell) /\ Len(temp) = lead + Len(d) BY <1>2, CryptType
<1>4. /\ front \in Seq(Cell) /\ back \in Seq(Cell) /\ Len(back) = Len(d)
  <2> HIDE DEF temp, lead
  <2>1. Len(d) \in Nat OBVIOUS
  <2>2. front \in Seq(Cell) BY <1>1, <1>3, <2>1
  <2>3. back \in Seq(Cell) /\ Len(back) = Len(d) BY <1>1, <1>3, <2>1
  <2> QED BY <2>2, <2>3
<1>5. Written(fd, prefix, d) = Overlay(s1, Landing(fd, s1, Pos(fd)), back)
  BY Zenon DEF Written
<1> HIDE DEF front, back, s, lead
<1>6. s1 \in Seq(Cell) BY <1>1, <1>4, OverlayType, LandingType
<1> HIDE DEF s1
<1>7. Overlay(s1, Landing(fd, s1, Pos(fd)), back) \in Seq(Cell)
  BY <1>1, <1>4, <1>6, OverlayType, LandingType
<1>8. s1 = Overlay(s, Landing(fd, s, Pos(fd) - lead), front) BY DEF s1
<1> QED BY <1>1, <1>4, <1>5, <1>6, <1>7, <1>8 DEF s, lead

\* A pass-through write.
LEMMA RawWrittenType ==
  ASSUME TypeOK, NEW fd \in OpenFds, NEW at \in Nat, NEW d \in Seq(Cell)
  PROVE  RawWritten(fd, at, d) \in Seq(Cell)
  BY OpenFd, OverlayType, LandingType DEF RawWritten

\* The file a write leaves is a sequence of cells.
LEMMA WriteType ==
  ASSUME TypeOK, NEW fd \in Fd, NEW d \in Payloads, write(fd, d)
  PROVE  TypeOK'
<1>1. fd \in OpenFds /\ d \in Seq(Cell) BY LinkerAssumption DEF write
<1>2. PICK s \in IF protected
                 THEN {Written(fd, prefix, d) : prefix \in BlockPrefix(fd, Pos(fd) % Block)}
                 ELSE {RawWritten(fd, Pos(fd), d)} :
        StoreFile(fd, s) /\ SetPos(fd, PosAfter(fd, s, d))
  BY Zenon DEF write
<1>3. s \in Seq(Cell)
  <2>1. CASE protected
    <3>1. PICK prefix \in BlockPrefix(fd, Pos(fd) % Block) : s = Written(fd, prefix, d)
      BY <1>2, <2>1
    <3>2. Written(fd, prefix, d) \in Seq(Cell) BY <1>1, WrittenForm
    <3> QED BY <3>1, <3>2
  <2>2. CASE ~ protected BY <1>1, <1>2, <2>2, OpenFd, RawWrittenType
  <2> QED BY <2>1, <2>2
<1>4. disk' \in [Path -> Seq(Cell)] BY <1>2, <1>3 DEF StoreFile, TypeOK
<1>5. PosAfter(fd, s, d) \in Nat BY <1>1, <1>3, OpenFd DEF PosAfter
<1>6. /\ ofd' \in [Fd -> Ofd] /\ \A o \in Fd : ofd'[o].path = ofd[o].path
  BY <1>1, <1>2, <1>5, SetPosKeeps
<1> QED BY <1>4, <1>6, SameTables DEF write

-----------------------------------------------------------------------------
(* Type correctness.                                                       *)

\* read moves the kernel offset forward.
LEMMA ReadType ==
  ASSUME TypeOK, NEW fd \in Fd, NEW n \in ReadSizes, read(fd, n)
  PROVE  TypeOK'
<1> DEFINE from == IF Handled(fd) THEN SkipHeader(fd) ELSE Pos(fd)
           w == Window(disk[File(fd)], from, n)
           pos == IF Acc(fd) = "w" THEN from ELSE from + Len(w)
<1>1. fd \in OpenFds /\ n \in Nat BY LinkerAssumption DEF read
<1>2. from \in Nat BY <1>1, OpenFd, HeaderSize DEF SkipHeader, Larger
<1>3. w \in Seq(Cell)
  <2> HIDE DEF from
  <2> QED BY <1>1, <1>2, OpenFd, WindowType
<1>4. SetPos(fd, pos) BY Zenon DEF read
<1>5. pos \in Nat
  <2> HIDE DEF from, w
  <2> QED BY <1>2, <1>3
<1> HIDE DEF pos
<1>6. ofd' \in [Fd -> Ofd] /\ \A o \in Fd : ofd'[o].path = ofd[o].path
  BY <1>1, <1>4, <1>5, SetPosKeeps
<1>7. UNCHANGED <<disk, exists, leftover, fdt, file_info_list, protected>>
  BY DEF read
<1>8. disk' \in [Path -> Seq(Cell)] BY <1>7 DEF TypeOK
<1> QED BY <1>6, <1>7, <1>8, SameTables

\* close frees one descriptor, and clears the description when its last
\* descriptor goes; the other descriptors lead where they did.
LEMMA CloseKeeps ==
  ASSUME TypeOK, NEW fd \in Fd, close(fd)
  PROVE  /\ fd \in OpenFds /\ fdt' \in [Fd -> Fd \cup {0}] /\ fdt'[fd] = 0
         /\ \A g \in Fd \ {fd} : fdt'[g] = fdt[g]
         /\ ofd' \in [Fd -> Ofd]
         /\ \A g \in OpenFds \ {fd} : ofd'[fdt[g]].path = ofd[fdt[g]].path
<1>1. fd \in OpenFds /\ fdt' = [fdt EXCEPT ![fd] = 0] BY DEF close
<1>2. fdt' \in [Fd -> Fd \cup {0}] /\ \A g \in Fd \ {fd} : fdt'[g] = fdt[g]
  BY <1>1 DEF TypeOK
<1>3. fdt'[fd] = 0 BY <1>1 DEF TypeOK
<1>4. /\ ofd' \in [Fd -> Ofd]
      /\ \A g \in OpenFds \ {fd} : ofd'[fdt[g]].path = ofd[fdt[g]].path
  <2>1. CASE \E g \in Fd \ {fd} : fdt[g] = fdt[fd]
    <3>1. CASE protected /\ Tracked(fd)
      <4>1. SetPos(fd, 0) BY <2>1, <3>1 DEF close
      <4> QED BY <1>1, <4>1, SetPosKeeps, OpenFd
    <3>2. CASE ~ (protected /\ Tracked(fd))
      BY <2>1, <3>2 DEF close, TypeOK, Ofd
    <3> QED BY <3>1, <3>2
  <2>2. CASE ~ \E g \in Fd \ {fd} : fdt[g] = fdt[fd]
    <3>1. ofd' = [ofd EXCEPT ![fdt[fd]] = Unused] BY <2>2 DEF close
    <3>2. Unused \in Ofd BY DEF Unused, Ofd
    <3>3. ofd \in [Fd -> Ofd] /\ fdt[fd] \in Fd BY <1>1, OpenFd DEF TypeOK, Ofd
    <3>4. \A g \in OpenFds \ {fd} : fdt[g] # fdt[fd] /\ fdt[g] \in Fd
      BY <2>2, OpenFd DEF OpenFds
    <3> QED BY <3>1, <3>2, <3>3, <3>4
  <2> QED BY <2>1, <2>2
<1> QED BY <1>1, <1>2, <1>3, <1>4

\* close keeps the type invariant.
LEMMA CloseType ==
  ASSUME TypeOK, NEW fd \in Fd, close(fd)
  PROVE  TypeOK'
<1>1. /\ fd \in OpenFds /\ fdt' \in [Fd -> Fd \cup {0}] /\ fdt'[fd] = 0
      /\ \A g \in Fd \ {fd} : fdt'[g] = fdt[g]
      /\ ofd' \in [Fd -> Ofd]
      /\ \A g \in OpenFds \ {fd} : ofd'[fdt[g]].path = ofd[fdt[g]].path
  BY CloseKeeps
<1>2. UNCHANGED <<disk, exists, leftover, protected>> BY DEF close
<1>3. file_info_list' \in Seq(Entry)
  <2>1. CASE protected BY <2>1, RemoveType DEF close
  <2>2. CASE ~ protected BY <2>2 DEF close, TypeOK, Entry
  <2> QED BY <2>1, <2>2
<1>4. \A g \in Fd : fdt'[g] # 0 => ofd'[fdt'[g]].path \in exists'
  <2> SUFFICES ASSUME NEW g \in Fd, fdt'[g] # 0
               PROVE  ofd'[fdt'[g]].path \in exists'
    OBVIOUS
  <2>1. g # fd BY <1>1
  <2>2. fdt'[g] = fdt[g] /\ g \in OpenFds \ {fd} BY <2>1, <1>1 DEF OpenFds
  <2>3. ofd[fdt[g]].path \in exists BY <2>2, OpenFd DEF File
  <2> QED BY <1>1, <1>2, <2>2, <2>3
<1>5. protected' \in BOOLEAN /\ exists' \in SUBSET Path /\ UNCHANGED leftover
      /\ disk' \in [Path -> Seq(Cell)]
  BY <1>2 DEF TypeOK
<1> QED BY <1>1, <1>3, <1>4, <1>5, TypesAfter DEF Entry

\* dup makes a second descriptor of an open file description.
LEMMA DupType ==
  ASSUME TypeOK, NEW fd \in Fd, NEW new \in Fd, dup(fd, new)
  PROVE  TypeOK'
<1>1. /\ fd \in OpenFds /\ new \in Fd \ OpenFds
      /\ fdt' = [fdt EXCEPT ![new] = fdt[fd]]
      /\ UNCHANGED <<disk, exists, leftover, ofd, protected>>
  BY DEF dup, LowestFree
<1>2. fdt[fd] \in Fd /\ ofd[fdt[fd]].path \in exists BY <1>1, OpenFd DEF File
<1>3. fdt' \in [Fd -> Fd \cup {0}] BY <1>1, <1>2 DEF TypeOK
<1>4. \A g \in Fd : fdt'[g] # 0 => ofd'[fdt'[g]].path \in exists'
  BY <1>1, <1>2 DEF TypeOK, OpenFds, File
<1>5. file_info_list' \in Seq(Entry)
  <2>1. CASE protected /\ Tracked(fd)
    <3>1. PICK i \in 1..Len(file_info_list) :
            file_info_list_add(new, file_info_list[i].path)
      BY <2>1 DEF dup
    <3>2. file_info_list[i] \in Entry BY ElementOfSeq DEF TypeOK, Entry
    <3>3. file_info_list[i].path \in Path BY <3>2 DEF Entry
    <3> QED BY <3>1, <3>3, AddType
  <2>2. CASE ~ (protected /\ Tracked(fd)) BY <2>2 DEF dup, TypeOK, Entry
  <2> QED BY <2>1, <2>2
<1>6. protected' \in BOOLEAN /\ exists' \in SUBSET Path /\ UNCHANGED leftover
      /\ disk' \in [Path -> Seq(Cell)] /\ ofd' \in [Fd -> Ofd]
  BY <1>1 DEF TypeOK, Ofd
<1> QED BY <1>3, <1>4, <1>5, <1>6, TypesAfter DEF Entry

\* A shared mapping leaves a header of the same length and a decrypted body.
LEMMA MmapType ==
  ASSUME TypeOK, NEW fd \in Fd, mmap(fd)
  PROVE  TypeOK'
<1> DEFINE s == disk[File(fd)]
           h == FILE_HEADER_POLL_SIZE
           t == SubSeq(s, 1, h) \o aes_decrypt(SubSeq(s, h + 1, Len(s)))
<1>1. fd \in OpenFds /\ s \in Seq(Cell) /\ File(fd) \in Path /\ Len(s) > h
  BY OpenFd DEF mmap
<1>2. t \in Seq(Cell)
  <2> HIDE DEF s
  <2>1. h \in Nat BY HeaderSize
  <2> HIDE DEF h
  <2>2. SubSeq(s, 1, h) \in Seq(Cell) /\ SubSeq(s, h + 1, Len(s)) \in Seq(Cell)
    BY <1>1, <2>1
  <2> QED BY <2>2, CryptType, ConcatProperties
<1>3. disk' = [disk EXCEPT ![File(fd)] = t] BY DEF mmap
<1> HIDE DEF t
<1>4. disk' \in [Path -> Seq(Cell)] BY <1>1, <1>2, <1>3 DEF TypeOK
<1>5. UNCHANGED <<exists, leftover, fdt, ofd, file_info_list, protected>> BY DEF mmap
<1>6. ofd' \in [Fd -> Ofd] /\ \A o \in Fd : ofd'[o].path = ofd[o].path
  BY <1>5 DEF TypeOK, Ofd
<1> QED BY <1>4, <1>5, <1>6, SameTables

\* Every step keeps the type invariant.
LEMMA TypeStep ==
  ASSUME TypeOK, [Next]_vars
  PROVE  TypeOK'
<1>1. ASSUME NEW fd \in Fd, NEW p \in Path, NEW fl \in Flags, open(fd, p, fl)
      PROVE  TypeOK'
  BY <1>1, OpenType
<1>2. ASSUME NEW fd \in Fd, NEW n \in ReadSizes, read(fd, n)
      PROVE  TypeOK'
  BY <1>2, ReadType
<1>3. ASSUME NEW fd \in Fd, NEW d \in Payloads, write(fd, d)
      PROVE  TypeOK'
  BY <1>3, WriteType
<1>4. ASSUME NEW fd \in Fd, NEW w \in RawWrites, pwrite(fd, w[1], w[2])
      PROVE  TypeOK'
  <2>1. w[1] \in Nat /\ w[2] \in Seq(Cell) /\ fd \in OpenFds
    BY <1>4, LinkerAssumption DEF pwrite
  <2>2. RawWritten(fd, w[1], w[2]) \in Seq(Cell) BY <2>1, RawWrittenType
  <2>3. disk' \in [Path -> Seq(Cell)] BY <1>4, <2>2 DEF pwrite, StoreFile, TypeOK
  <2>4. ofd' \in [Fd -> Ofd] /\ \A o \in Fd : ofd'[o].path = ofd[o].path
    BY <1>4 DEF pwrite, TypeOK, Ofd
  <2> QED BY <1>4, <2>3, <2>4, SameTables DEF pwrite
<1>5. ASSUME NEW fd \in Fd, close(fd) PROVE TypeOK'
  BY <1>5, CloseType
<1>6. ASSUME NEW fd \in Fd, NEW new \in Fd, dup(fd, new) PROVE TypeOK'
  BY <1>6, DupType
<1>7. ASSUME NEW fd \in Fd, NEW sk \in Seeks, lseek(fd, sk[1], sk[2])
      PROVE  TypeOK'
  <2> DEFINE pos == SeekTarget(fd, sk[1], sk[2])
  <2>1. fd \in OpenFds /\ pos \in 0..MaxLen /\ SetPos(fd, pos)
        /\ UNCHANGED <<disk, exists, leftover, fdt, file_info_list, protected>>
    BY <1>7 DEF lseek
  <2> HIDE DEF pos
  <2>2. pos \in Nat BY <2>1, LinkerAssumption
  <2>3. ofd' \in [Fd -> Ofd] /\ \A o \in Fd : ofd'[o].path = ofd[o].path
    BY <2>1, <2>2, SetPosKeeps
  <2>4. disk' \in [Path -> Seq(Cell)] BY <2>1 DEF TypeOK
  <2> QED BY <2>1, <2>3, <2>4, SameTables
<1>8. ASSUME NEW fd \in Fd, mmap(fd) PROVE TypeOK'
  BY <1>8, MmapType
<1>9. CASE SetDomainState
  BY <1>9 DEF SetDomainState, TypeOK, OpenFds, File
<1>10. CASE UNCHANGED vars
  BY <1>10 DEF vars, TypeOK, OpenFds, File
<1> QED
  BY <1>1, <1>2, <1>3, <1>4, <1>5, <1>6, <1>7, <1>8, <1>9, <1>10 DEF Next

\* In every reachable state the files are sequences of cells, descriptors lead
\* to existing files, and the list is a list of descriptors and names.
THEOREM TypeCorrect == Spec => []TypeOK
<1>1. Init => TypeOK
  <2> SUFFICES ASSUME Init PROVE TypeOK OBVIOUS
  <2>1. disk \in [Path -> Seq(Cell)]
    <3>1. PlainFiles0 \cup {<<>>} \subseteq Seq(Cell)
      <4>1. PlainFiles0 \subseteq Seq(Cell) BY Zenon, LinkerAssumption
      <4>2. <<>> \in Seq(Cell) BY EmptySeq
      <4> QED BY <4>1, <4>2
    <3>2. disk \in [Path -> PlainFiles0 \cup {<<>>}] BY DEF Init
    <3> QED BY <3>1, <3>2
  <2>2. ofd \in [Fd -> Ofd] BY DEF Init, Unused, Ofd
  <2>3. OpenFds = {} BY DEF Init, OpenFds
  <2>4. file_info_list \in Seq([fd : Fd, path : Path]) BY DEF Init
  <2> QED BY <2>1, <2>2, <2>3, <2>4, LinkerAssumption DEF Init, TypeOK, Ofd
<1>2. TypeOK /\ [Next]_vars => TypeOK' BY TypeStep
<1> QED BY <1>1, <1>2, PTL DEF Spec

-----------------------------------------------------------------------------
(* The list of open files.                                                 *)

\* A new entry for a descriptor that had none, about a file it leads to, keeps
\* a true list true as long as the other descriptors lead where they did.
LEMMA AddKeepsTrue ==
  ASSUME TypeOK, TrackingExact, NEW fd \in Fd \ OpenFds, NEW p,
         fdt'[fd] # 0, ofd'[fdt'[fd]].path = p,
         \A g \in OpenFds : fdt'[g] = fdt[g] /\ ofd'[fdt[g]].path = ofd[fdt[g]].path,
         file_info_list_add(fd, p)
  PROVE  TrackingExact'
<1> DEFINE n == Len(file_info_list)
           l == file_info_list
<1>1. l \in Seq(Entry) /\ n \in Nat BY DEF TypeOK, Entry
<1>2. /\ file_info_list' = Append(l, Info(fd, p)) /\ Len(file_info_list') = n + 1
      /\ file_info_list'[n + 1] = Info(fd, p)
      /\ \A i \in 1..n : file_info_list'[i] = l[i]
  BY <1>1 DEF file_info_list_add
<1>3. \A i \in 1..n : l[i] \in Entry BY <1>1
<1>4. \A i \in 1..n : l[i].fd \in OpenFds /\ l[i].path = File(l[i].fd)
  BY <1>3 DEF TrackingExact, OpenFds, Entry
<1>5. \A i \in 1..n : l[i].fd # fd BY <1>4
<1>6. Info(fd, p).fd = fd /\ Info(fd, p).path = p BY DEF Info
<1>7. \A i \in 1..Len(file_info_list') :
        /\ fdt'[file_info_list'[i].fd] # 0
        /\ file_info_list'[i].path = ofd'[fdt'[file_info_list'[i].fd]].path
  <2> SUFFICES ASSUME NEW i \in 1..(n + 1)
               PROVE  /\ fdt'[file_info_list'[i].fd] # 0
                      /\ file_info_list'[i].path = ofd'[fdt'[file_info_list'[i].fd]].path
    BY <1>2
  <2>1. CASE i = n + 1 BY <2>1, <1>2, <1>6
  <2>2. CASE i \in 1..n BY <2>2, <1>2, <1>4 DEF OpenFds, File
  <2> QED BY <2>1, <2>2, <1>1
<1>8. \A i, j \in 1..Len(file_info_list') :
        file_info_list'[i].fd = file_info_list'[j].fd => i = j
  <2>1. \A i, j \in 1..n : l[i].fd = l[j].fd => i = j BY DEF TrackingExact
  <2> SUFFICES ASSUME NEW i \in 1..(n + 1), NEW j \in 1..(n + 1),
                      file_info_list'[i].fd = file_info_list'[j].fd
               PROVE  i = j
    BY <1>2
  <2>2. CASE i \in 1..n /\ j \in 1..n BY <2>1, <2>2, <1>2
  <2>3. CASE i = n + 1 /\ j \in 1..n BY <2>3, <1>2, <1>5, <1>6
  <2>4. CASE i \in 1..n /\ j = n + 1 BY <2>4, <1>2, <1>5, <1>6
  <2>5. CASE i = n + 1 /\ j = n + 1 BY <2>5
  <2> QED BY <2>2, <2>3, <2>4, <2>5, <1>1
<1> QED BY <1>7, <1>8 DEF TrackingExact, File

\* The list stays true when the descriptors named in it lead where they did.
LEMMA SameListTrue ==
  ASSUME TypeOK, TrackingExact, UNCHANGED file_info_list,
         \A g \in OpenFds : fdt'[g] = fdt[g] /\ ofd'[fdt[g]].path = ofd[fdt[g]].path
  PROVE  TrackingExact'
<1> DEFINE l == file_info_list
<1>0. l \in Seq(Entry) BY DEF TypeOK, Entry
<1>1. \A i \in 1..Len(l) : l[i] \in Entry
  <2> HIDE DEF l
  <2> QED BY <1>0
<1>2. \A i \in 1..Len(file_info_list) :
        /\ file_info_list[i].fd \in OpenFds
        /\ file_info_list[i].path = ofd[fdt[file_info_list[i].fd]].path
  BY <1>1 DEF TrackingExact, OpenFds, File, Entry
<1> QED BY <1>2 DEF TrackingExact, File, OpenFds

\* close on a tracked descriptor takes its one entry away.
LEMMA RemoveKeepsTrue ==
  ASSUME TypeOK, TrackingExact, NEW fd \in OpenFds, file_info_list_remove_by_fd(fd),
         \A g \in OpenFds \ {fd} :
           fdt'[g] = fdt[g] /\ ofd'[fdt[g]].path = ofd[fdt[g]].path
  PROVE  TrackingExact'
<1> DEFINE l == file_info_list
           n == Len(l)
<1>1. l \in Seq(Entry) /\ n \in Nat BY DEF TypeOK, Entry
<1>2. \A i \in 1..n : l[i] \in Entry BY <1>1
<1>3. \A i \in 1..n : l[i].fd \in OpenFds /\ l[i].path = ofd[fdt[l[i].fd]].path
  BY <1>2 DEF TrackingExact, OpenFds, File, Entry
<1>4. \A i, j \in 1..n : l[i].fd = l[j].fd => i = j BY DEF TrackingExact
<1>5. CASE ~ Tracked(fd)
  <2>1. \A i \in 1..n : l[i].fd # fd BY <1>5 DEF Tracked
  <2>2. file_info_list' = l BY <1>5 DEF file_info_list_remove_by_fd
  <2> QED BY <1>3, <1>4, <2>1, <2>2 DEF TrackingExact, File, OpenFds
<1>6. CASE Tracked(fd)
  <2>1. PICK k \in 1..n : l[k].fd = fd /\ file_info_list' = Without(l, k)
    BY <1>6 DEF file_info_list_remove_by_fd, IsFirst
  <2> DEFINE m == Without(l, k)
             old(j) == IF j < k THEN j ELSE j + 1
  <2>2. /\ m \in Seq(Entry) /\ Len(m) = n - 1
        /\ \A j \in 1..(n - 1) : m[j] = l[old(j)]
    <3>1. /\ m \in Seq(Entry) /\ Len(m) = n - 1
          /\ \A j \in 1..(n - 1) : m[j] = IF j < k THEN l[j] ELSE l[j + 1]
      BY <1>1, WithoutKeeps
    <3> QED BY <3>1
  <2>3. \A j \in 1..(n - 1) : old(j) \in 1..n /\ old(j) # k BY <1>1
  <2>4. \A j \in 1..(n - 1) : l[old(j)].fd # fd BY <1>4, <2>1, <2>3
  <2> HIDE DEF m
  <2>5. \A i \in 1..Len(m) :
          fdt'[m[i].fd] # 0 /\ m[i].path = ofd'[fdt'[m[i].fd]].path
    <3> SUFFICES ASSUME NEW i \in 1..(n - 1)
                 PROVE  fdt'[m[i].fd] # 0 /\ m[i].path = ofd'[fdt'[m[i].fd]].path
      BY <2>2
    <3>1. PICK e : e = m[i] OBVIOUS
    <3>2. e = l[old(i)] /\ old(i) \in 1..n /\ e.fd # fd BY <2>2, <2>3, <2>4, <3>1
    <3>3. e.fd \in OpenFds \ {fd} /\ e.path = ofd[fdt[e.fd]].path
      <4> HIDE DEF old
      <4> QED BY <1>3, <3>2
    <3>4. fdt'[e.fd] = fdt[e.fd] /\ ofd'[fdt[e.fd]].path = ofd[fdt[e.fd]].path
      BY <3>3
    <3>5. fdt[e.fd] # 0 BY <3>3 DEF OpenFds
    <3> QED BY <3>1, <3>3, <3>4, <3>5, Zenon
  <2>6. \A i, j \in 1..Len(m) : m[i].fd = m[j].fd => i = j
    <3> SUFFICES ASSUME NEW i \in 1..(n - 1), NEW j \in 1..(n - 1), m[i].fd = m[j].fd
                 PROVE  i = j
      BY <2>2
    <3>1. l[old(i)].fd = l[old(j)].fd BY <2>2
    <3>2. old(i) = old(j) BY <1>4, <2>3, <3>1
    <3> QED BY <3>2, <1>1
  <2>7. file_info_list' = m BY <2>1 DEF m
  <2> QED BY <2>5, <2>6, <2>7 DEF TrackingExact, File
<1> QED BY <1>5, <1>6

\* Every way open can succeed keeps a true list true, and so does the failing
\* one: its descriptor number was free, so it removes nothing.
LEMMA OpenTracks ==
  ASSUME TypeOK, TrackingExact, NEW fd \in Fd, NEW p \in Path, NEW fl \in Flags,
         open(fd, p, fl)
  PROVE  TrackingExact'
<1>1. fd \in Fd \ OpenFds BY DEF open, LowestFree
<1>2. ASSUME NEW pos \in Nat, KernelOpen(fd, p, fl, pos)
      PROVE  /\ fdt'[fd] # 0 /\ ofd'[fdt'[fd]].path = p
             /\ \A g \in OpenFds : fdt'[g] = fdt[g] /\ ofd'[fdt[g]].path = ofd[fdt[g]].path
  <2>1. /\ fdt'[fd] # 0 /\ ofd'[fdt'[fd]].path = p
        /\ \A g \in Fd \ {fd} : fdt'[g] = fdt[g]
        /\ \A g \in OpenFds : ofd'[fdt[g]] = ofd[fdt[g]]
    BY <1>1, <1>2, KernelOpenKeeps
  <2> QED BY <1>1, <2>1 DEF OpenFds
<1>3. ASSUME NEW pos \in Nat, KernelOpen(fd, p, fl, pos), file_info_list_add(fd, p)
      PROVE  TrackingExact'
  BY <1>1, <1>2, <1>3, AddKeepsTrue
<1>4. ASSUME NEW pos \in Nat, KernelOpen(fd, p, fl, pos), UNCHANGED file_info_list
      PROVE  TrackingExact'
  BY <1>2, <1>4, SameListTrue
<1>5. 0 \in Nat /\ FILE_HEADER_POLL_SIZE \in Nat BY HeaderSize
<1>6. ~ Tracked(fd) BY <1>1 DEF Tracked, TrackingExact, OpenFds
<1>7. CASE OpenRaw(fd, p, fl) BY <1>4, <1>5, <1>7 DEF OpenRaw
<1>8. CASE OpenNew(fd, p, fl)
  <2>1. CASE fl.acc # "r" BY <1>3, <1>5, <1>8, <2>1 DEF OpenNew
  <2>2. CASE fl.acc = "r"
    <3>1. UNCHANGED <<fdt, ofd, file_info_list>> BY <1>6, <1>8, <2>2 DEF OpenNew
    <3> QED BY <3>1, SameListTrue
  <2> QED BY <2>1, <2>2
<1>9. CASE OpenNewSpecial(fd, p, fl) BY <1>4, <1>5, <1>9 DEF OpenNewSpecial
<1>10. CASE OpenSealed(fd, p, fl)
  <2> DEFINE pos == IF fl.append THEN 0 ELSE FILE_HEADER_POLL_SIZE
  <2>1. pos \in Nat /\ KernelOpen(fd, p, fl, pos) /\ file_info_list_add(fd, p)
    BY <1>5, <1>10 DEF OpenSealed
  <2> HIDE DEF pos
  <2> QED BY <1>3, <2>1
<1>11. CASE OpenPlain(fd, p, fl)
  <2>1. CASE p \notin leftover /\ Truncated(p, fl) # <<>>
    BY <1>3, <1>5, <1>11, <2>1 DEF OpenPlain
  <2>2. CASE ~ (p \notin leftover /\ Truncated(p, fl) # <<>>)
    BY <1>4, <1>5, <1>11, <2>2 DEF OpenPlain
  <2> QED BY <2>1, <2>2
<1> QED BY <1>7, <1>8, <1>9, <1>10, <1>11 DEF open

\* Moving a kernel offset keeps the files descriptors lead to.
LEMMA SetPosPaths ==
  ASSUME TypeOK, NEW fd, NEW pos, SetPos(fd, pos)
  PROVE  \A o \in Fd : ofd'[o].path = ofd[o].path
  BY DEF SetPos, TypeOK

\* Calls that move a kernel offset at most.
LEMMA OffsetTracks ==
  ASSUME TypeOK, TrackingExact, UNCHANGED <<fdt, file_info_list>>,
         \A o \in Fd : ofd'[o].path = ofd[o].path
  PROVE  TrackingExact'
<1>1. \A g \in OpenFds : fdt'[g] = fdt[g] /\ ofd'[fdt[g]].path = ofd[fdt[g]].path
  BY OpenFd
<1> QED BY <1>1, SameListTrue

\* dup records the duplicate under the name of the file both lead to.
LEMMA DupTracks ==
  ASSUME TypeOK, TrackingExact, NEW fd \in Fd, NEW new \in Fd, dup(fd, new)
  PROVE  TrackingExact'
<1>1. /\ fd \in OpenFds /\ new \in Fd \ OpenFds
      /\ fdt' = [fdt EXCEPT ![new] = fdt[fd]] /\ UNCHANGED ofd
  BY DEF dup, LowestFree
<1>2. fdt \in [Fd -> Fd \cup {0}] BY DEF TypeOK
<1>3. fdt'[new] = fdt[fd] /\ fdt[fd] # 0 BY <1>1, <1>2 DEF OpenFds
<1>4. \A g \in OpenFds : fdt'[g] = fdt[g] /\ ofd'[fdt[g]].path = ofd[fdt[g]].path
  BY <1>1, <1>2 DEF OpenFds
<1>5. CASE protected /\ Tracked(fd)
  <2>1. PICK i \in 1..Len(file_info_list) :
          IsFirst(i, fd) /\ file_info_list_add(new, file_info_list[i].path)
    BY <1>5 DEF dup
  <2>2. file_info_list[i].path = ofd'[fdt'[new]].path
    BY <1>1, <1>3, <2>1 DEF IsFirst, TrackingExact, File
  <2> QED BY <1>1, <1>3, <1>4, <2>1, <2>2, AddKeepsTrue
<1>6. CASE ~ (protected /\ Tracked(fd))
  <2>1. UNCHANGED file_info_list BY <1>6 DEF dup
  <2> QED BY <1>4, <2>1, SameListTrue
<1> QED BY <1>5, <1>6

\* No call made while encryption is on makes a true list wrong.
LEMMA TrackStep ==
  ASSUME TypeOK, TrackingExact, protected, [Next]_vars
  PROVE  TrackingExact'
<1>1. ASSUME NEW fd \in Fd, NEW p \in Path, NEW fl \in Flags, open(fd, p, fl)
      PROVE  TrackingExact'
  BY <1>1, OpenTracks
<1>2. ASSUME NEW fd \in Fd, NEW n \in ReadSizes, read(fd, n)
      PROVE  TrackingExact'
  <2>1. \A o \in Fd : ofd'[o].path = ofd[o].path BY <1>2, SetPosPaths, Zenon DEF read
  <2> QED BY <1>2, <2>1, OffsetTracks DEF read
<1>3. ASSUME NEW fd \in Fd, NEW d \in Payloads, write(fd, d)
      PROVE  TrackingExact'
  <2>1. \A o \in Fd : ofd'[o].path = ofd[o].path BY <1>3, SetPosPaths, Zenon DEF write
  <2> QED BY <1>3, <2>1, OffsetTracks DEF write
<1>4. ASSUME NEW fd \in Fd, NEW w \in RawWrites, pwrite(fd, w[1], w[2])
      PROVE  TrackingExact'
  BY <1>4, OffsetTracks DEF pwrite
<1>5. ASSUME NEW fd \in Fd, close(fd) PROVE TrackingExact'
  <2>1. /\ fd \in OpenFds
        /\ \A g \in OpenFds \ {fd} :
             fdt'[g] = fdt[g] /\ ofd'[fdt[g]].path = ofd[fdt[g]].path
    BY <1>5, CloseKeeps DEF OpenFds
  <2>2. file_info_list_remove_by_fd(fd) BY <1>5 DEF close
  <2> QED BY <2>1, <2>2, RemoveKeepsTrue
<1>6. ASSUME NEW fd \in Fd, NEW new \in Fd, dup(fd, new) PROVE TrackingExact'
  BY <1>6, DupTracks
<1>7. ASSUME NEW fd \in Fd, NEW sk \in Seeks, lseek(fd, sk[1], sk[2])
      PROVE  TrackingExact'
  <2>1. \A o \in Fd : ofd'[o].path = ofd[o].path BY <1>7, SetPosPaths DEF lseek
  <2> QED BY <1>7, <2>1, OffsetTracks DEF lseek
<1>8. ASSUME NEW fd \in Fd, mmap(fd) PROVE TrackingExact'
  BY <1>8, OffsetTracks DEF mmap
<1>9. CASE SetDomainState
  BY <1>9, OffsetTracks DEF SetDomainState
<1>10. CASE UNCHANGED vars
  BY <1>10, OffsetTracks DEF vars
<1> QED
  BY <1>1, <1>2, <1>3, <1>4, <1>5, <1>6, <1>7, <1>8, <1>9, <1>10 DEF Next

\* While encryption is on, close takes away what open and dup added, whatever
\* happened while it was off.
THEOREM ListKeptTrue == Spec => TrackingKept
<1>1. TypeOK /\ [Next]_vars => [(TrackingExact /\ protected) => TrackingExact']_vars
  BY TrackStep
<1> QED BY <1>1, TypeCorrect, PTL DEF Spec, TrackingKept

\* When encryption is never switched off, file_info_list tells the truth in
\* every reachable state.  Its truth alone is not inductive: close trusts the
\* switch, so the invariant also says that it is on.
THEOREM ListTrue == ~ Toggles => (Spec => []TrackingExact)
<1> SUFFICES ASSUME ~ Toggles PROVE Spec => []TrackingExact OBVIOUS
<1>1. Init => TrackingExact /\ protected
  BY DEF Init, TrackingExact
<1>2. TypeOK /\ TrackingExact /\ protected /\ [Next]_vars
        => TrackingExact' /\ protected'
  <2> SUFFICES ASSUME TypeOK, TrackingExact, protected, [Next]_vars
               PROVE  TrackingExact' /\ protected'
    OBVIOUS
  <2>1. TrackingExact' BY TrackStep
  <2>2. UNCHANGED protected
    BY DEF Next, open, read, write, pwrite, close, dup, lseek, mmap, SetDomainState, vars
  <2> QED BY <2>1, <2>2
<1> QED BY <1>1, <1>2, TypeCorrect, PTL DEF Spec

-----------------------------------------------------------------------------
(* The header.                                                             *)

\* A write that lands behind the header keeps a sealed file sealed.
LEMMA OverlaySealed ==
  ASSUME NEW s \in Seq(Cell), Sealed(s), NEW d \in Seq(Cell),
         NEW at \in Nat, at >= FILE_HEADER_POLL_SIZE
  PROVE  Sealed(Overlay(s, at, d))
<1> DEFINE t == Overlay(s, at, d)
           h == FILE_HEADER_POLL_SIZE
<1>1. h \in Nat /\ Len(s) \in Nat /\ Len(s) >= h
  BY HeaderSize DEF Sealed, is_encrypted_by_file_header
<1>2. t \in Seq(Cell) /\ Len(t) >= Len(s) BY <1>1, OverlayType DEF Larger
<1>3. \A k \in 1..h : t[k] = s[k]
  <2> SUFFICES ASSUME NEW k \in 1..h PROVE t[k] = s[k] OBVIOUS
  <2>1. k \in 1..Len(s) /\ k <= at BY <1>1
  <2> QED BY <2>1, OverlayBefore
<1> HIDE DEF t
<1>4. Sealed(t) BY <1>2, <1>3, SealedByHeader
<1> QED BY <1>4 DEF t

\* Where a kernel write to a sealed file lands, when it is asked to land behind
\* the header or the descriptor appends.
LEMMA LandingSealed ==
  ASSUME NEW fd, NEW s \in Seq(Cell), Sealed(s), NEW at \in Nat,
         App(fd) \/ at >= FILE_HEADER_POLL_SIZE
  PROVE  Landing(fd, s, at) \in Nat /\ Landing(fd, s, at) >= FILE_HEADER_POLL_SIZE
  BY DEF Landing, Sealed, is_encrypted_by_file_header

\* A descriptor that stands behind the header is in a block behind the header.
LEMMA BlockBehindHeader ==
  ASSUME NEW pos \in Nat, pos >= FILE_HEADER_POLL_SIZE
  PROVE  pos - (pos % Block) >= FILE_HEADER_POLL_SIZE
<1> DEFINE h == FILE_HEADER_POLL_SIZE
           q == pos \div Block
           l == h \div Block
<1>1. Block \in Nat \ {0} BY LayoutAssumption
<1>2. h \in Nat /\ h % Block = 0 BY HeaderSize
<1> HIDE DEF h
<1>3. q \in Nat /\ pos % Block \in 0..(Block - 1) /\ pos = Block * q + (pos % Block)
  BY <1>1
<1>4. l \in Nat /\ h = Block * l BY <1>1, <1>2
<1>5. l <= q
  <2> SUFFICES ASSUME q + 1 <= l PROVE FALSE BY <1>3, <1>4
  <2> HIDE DEF q, l
  <2>1. Block * (q + 1) <= Block * l BY <1>1, <1>3, <1>4
  <2>2. Block * q + Block <= h BY <2>1, <1>1, <1>3, <1>4
  <2>3. Block * q \in Nat BY <1>1, <1>3
  <2>4. pos < h BY <2>2, <2>3, <1>1, <1>2, <1>3
  <2> QED BY <2>4, <1>2 DEF h
<1>6. Block * l <= Block * q
  <2> HIDE DEF q, l
  <2> QED BY <1>1, <1>3, <1>4, <1>5
<1>7. pos - (pos % Block) = Block * q
  <2> HIDE DEF q
  <2> QED BY <1>1, <1>3
<1> QED BY <1>4, <1>6, <1>7 DEF h

\* A translated write through a descriptor behind the header, or appending,
\* keeps the header: the prefix it puts back starts behind it too.
LEMMA WrittenSealed ==
  ASSUME TypeOK, NEW fd \in OpenFds, NEW d \in Seq(Cell),
         NEW prefix \in BlockPrefix(fd, Pos(fd) % Block),
         Sealed(disk[File(fd)]), App(fd) \/ Pos(fd) >= FILE_HEADER_POLL_SIZE
  PROVE  Sealed(Written(fd, prefix, d))
<1> DEFINE s == disk[File(fd)]
           at == Pos(fd) - Len(prefix)
<1>1. PICK front, back, mid \in Seq(Cell) :
        /\ mid = Overlay(s, Landing(fd, s, at), front)
        /\ Written(fd, prefix, d) = Overlay(mid, Landing(fd, mid, Pos(fd)), back)
        /\ at \in Nat
  BY WrittenForm
<1>2. s \in Seq(Cell) /\ Pos(fd) \in Nat BY OpenFd
<1>3. App(fd) \/ at >= FILE_HEADER_POLL_SIZE
  BY <1>2, BlockPrefixType, BlockBehindHeader
<1> HIDE DEF s, at
<1>4. Sealed(s) BY DEF s
<1>5. Sealed(mid) BY <1>1, <1>2, <1>3, <1>4, LandingSealed, OverlaySealed
<1>6. Sealed(Overlay(mid, Landing(fd, mid, Pos(fd)), back))
  BY <1>2, <1>5, LandingSealed, OverlaySealed
<1> QED BY <1>1, <1>6

\* open loses a header by truncation only.
LEMMA OpenHeader ==
  ASSUME TypeOK, NEW fd \in Fd, NEW p \in Path, NEW fl \in Flags, open(fd, p, fl),
         NEW q \in Path, Sealed(disk[q]), ~ Sealed(disk'[q])
  PROVE  TruncatingOpen(q)
<1>1. fd \in Fd \ OpenFds BY DEF open, LowestFree
<1>2. disk \in [Path -> Seq(Cell)] BY DEF TypeOK
<1>3. ASSUME NEW pos \in Nat, KernelOpen(fd, p, fl, pos),
             disk' = [disk EXCEPT ![p] = Truncated(p, fl)]
      PROVE  TruncatingOpen(q)
  <2>1. q = p BY <1>2, <1>3
  <2>2. Truncated(p, fl) # disk[p] /\ disk'[p] = Truncated(p, fl) BY <1>2, <1>3, <2>1
  <2>3. disk'[q] = <<>> /\ fl.acc # "r" BY <2>1, <2>2, LinkerAssumption DEF Truncated
  <2>4. fdt'[fd] # 0 /\ ofd'[fdt'[fd]].path = p /\ ofd'[fdt'[fd]].acc = fl.acc
    BY <1>1, <1>3, KernelOpenKeeps
  <2> QED BY <1>1, <2>1, <2>3, <2>4 DEF TruncatingOpen
<1>4. 0 \in Nat /\ FILE_HEADER_POLL_SIZE \in Nat BY HeaderSize
<1>5. CASE OpenRaw(fd, p, fl) BY <1>3, <1>4, <1>5 DEF OpenRaw
<1>6. CASE OpenNew(fd, p, fl)
  <2>1. Sealed(HeaderCells)
    BY HeaderSize DEF Sealed, is_encrypted_by_file_header, FILE_HEADER_POLL_SIZE
  <2>2. disk'[q] = disk[q] \/ disk'[q] = HeaderCells BY <1>2, <1>6 DEF OpenNew
  <2> QED BY <2>1, <2>2
<1>7. CASE OpenNewSpecial(fd, p, fl) BY <1>7 DEF OpenNewSpecial
<1>8. CASE OpenSealed(fd, p, fl)
  <2> DEFINE pos == IF fl.append THEN 0 ELSE FILE_HEADER_POLL_SIZE
  <2>1. pos \in Nat /\ KernelOpen(fd, p, fl, pos) BY <1>4, <1>8 DEF OpenSealed
  <2> HIDE DEF pos
  <2> QED BY <1>3, <1>8, <2>1 DEF OpenSealed
<1>9. CASE OpenPlain(fd, p, fl)
  <2>1. q # p BY <1>9 DEF OpenPlain
  <2>2. disk'[q] = disk[q] BY <1>2, <1>9, <2>1 DEF OpenPlain
  <2> QED BY <2>2
<1> QED BY <1>5, <1>6, <1>7, <1>8, <1>9 DEF open

\* write loses a header only through a descriptor that stands below its end.
LEMMA WriteHeader ==
  ASSUME TypeOK, NEW fd \in Fd, NEW d \in Payloads, write(fd, d),
         NEW q \in Path, Sealed(disk[q]), ~ Sealed(disk'[q])
  PROVE  WritableBelowHeader(q)
<1>1. fd \in OpenFds /\ d \in Seq(Cell) /\ d # <<>> /\ Acc(fd) # "r"
  BY LinkerAssumption DEF write
<1>2. PICK s \in IF protected
                 THEN {Written(fd, prefix, d) : prefix \in BlockPrefix(fd, Pos(fd) % Block)}
                 ELSE {RawWritten(fd, Pos(fd), d)} :
        StoreFile(fd, s) /\ SetPos(fd, PosAfter(fd, s, d))
  BY Zenon DEF write
<1>3. Pos(fd) \in Nat /\ disk[File(fd)] \in Seq(Cell) /\ fdt[fd] \in Fd BY <1>1, OpenFd
<1>4. q = File(fd) /\ disk'[q] = s BY <1>2 DEF StoreFile, TypeOK
<1>5. ~ App(fd) /\ Pos(fd) < FILE_HEADER_POLL_SIZE
  <2> SUFFICES ASSUME App(fd) \/ Pos(fd) >= FILE_HEADER_POLL_SIZE PROVE FALSE
    BY <1>3, HeaderSize
  <2>1. CASE protected
    <3>1. PICK prefix \in BlockPrefix(fd, Pos(fd) % Block) : s = Written(fd, prefix, d)
      BY <1>2, <2>1
    <3>2. Sealed(Written(fd, prefix, d)) BY <1>1, <1>4, WrittenSealed
    <3> QED BY <1>4, <3>1, <3>2
  <2>2. CASE ~ protected
    <3>1. s = RawWritten(fd, Pos(fd), d) BY <1>2, <2>2
    <3>2. Sealed(RawWritten(fd, Pos(fd), d))
      BY <1>1, <1>3, <1>4, LandingSealed, OverlaySealed DEF RawWritten
    <3> QED BY <1>4, <3>1, <3>2
  <2> QED BY <2>1, <2>2
<1>6. ofd'[fdt[fd]].pos > Pos(fd)
  <2>1. PosAfter(fd, s, d) = Pos(fd) + Len(d) BY <1>5 DEF PosAfter
  <2>2. Len(d) \in Nat /\ Len(d) > 0 BY <1>1, EmptySeq
  <2>3. ofd'[fdt[fd]].pos = PosAfter(fd, s, d)
    <3>1. SetPos(fd, PosAfter(fd, s, d)) BY <1>2
    <3>2. ofd \in [Fd -> Ofd] BY DEF TypeOK, Ofd
    <3>3. ofd' = [ofd EXCEPT ![fdt[fd]] = [ofd[fdt[fd]] EXCEPT !.pos = PosAfter(fd, s, d)]]
      BY <3>1, Zenon DEF SetPos
    <3>4. ofd'[fdt[fd]] = [ofd[fdt[fd]] EXCEPT !.pos = PosAfter(fd, s, d)]
      BY <1>3, <3>2, <3>3
    <3>5. ofd[fdt[fd]] \in Ofd BY <1>3, <3>2
    <3> QED BY <3>4, <3>5 DEF Ofd
  <2> QED BY <1>3, <2>1, <2>2, <2>3
<1> QED BY <1>1, <1>4, <1>5, <1>6 DEF WritableBelowHeader

\* A shared mapping leaves the header alone.
LEMMA MmapHeader ==
  ASSUME TypeOK, NEW fd \in Fd, mmap(fd), NEW q \in Path, Sealed(disk[q])
  PROVE  Sealed(disk'[q])
<1> DEFINE s == disk[File(fd)]
           h == FILE_HEADER_POLL_SIZE
           a == SubSeq(s, 1, h)
           b == aes_decrypt(SubSeq(s, h + 1, Len(s)))
<1>1. fd \in OpenFds /\ s \in Seq(Cell) /\ File(fd) \in Path /\ Len(s) > h
  BY OpenFd DEF mmap
<1>2. h \in Nat BY HeaderSize
<1>3. disk' = [disk EXCEPT ![File(fd)] = a \o b] BY DEF mmap
<1>4. CASE q # File(fd) BY <1>1, <1>3, <1>4 DEF TypeOK
<1>5. CASE q = File(fd)
  <2>1. Sealed(s) BY <1>5
  <2> HIDE DEF s, h
  <2>2. a \in Seq(Cell) /\ Len(a) = h /\ \A k \in 1..h : a[k] = s[k]
    BY <1>1, <1>2
  <2>3. /\ SubSeq(s, h + 1, Len(s)) \in Seq(Cell)
        /\ Len(SubSeq(s, h + 1, Len(s))) = Len(s) - h
    BY <1>1, <1>2
  <2>4. b \in Seq(Cell) /\ Len(b) = Len(s) - h BY <2>3, CryptType
  <2> HIDE DEF a, b
  <2>5. /\ a \o b \in Seq(Cell) /\ Len(a \o b) = Len(a) + Len(b)
        /\ \A i \in 1..Len(a) + Len(b) : (a \o b)[i] =
             IF i <= Len(a) THEN a[i] ELSE b[i - Len(a)]
    BY <2>2, <2>4, ConcatProperties
  <2>6. Len(a \o b) = Len(s) /\ \A k \in 1..h : (a \o b)[k] = s[k]
    BY <1>1, <1>2, <2>2, <2>4, <2>5
  <2>7. Sealed(a \o b)
    <3>1. \A k \in 1..FILE_HEADER_POLL_SIZE : (a \o b)[k] = s[k] BY <2>6 DEF h
    <3>2. Len(a \o b) >= Len(s) BY <1>1, <2>6
    <3> QED BY <1>1, <2>1, <2>5, <3>1, <3>2, SealedByHeader
  <2>8. disk'[q] = a \o b BY <1>1, <1>3, <1>5 DEF TypeOK
  <2> QED BY <2>7, <2>8
<1> QED BY <1>4, <1>5

\* A sealed file loses its header in the three listed ways only: truncation by
\* open, a write through a descriptor below the end of the header, and a pwrite
\* below it.  Every other write, appending and read-modify-write ones included,
\* and every mapping leaves it in place.
THEOREM HeaderSafe == Spec => HeaderLostOnlyBelow
<1> DEFINE Lost(q) == TruncatingOpen(q) \/ WritableBelowHeader(q) \/ PwriteBelowHeader(q)
<1>1. ASSUME TypeOK, [Next]_vars, NEW q \in Path, Sealed(disk[q]), ~ Sealed(disk'[q])
      PROVE  Lost(q)
  <2>1. ASSUME NEW fd \in Fd, NEW p \in Path, NEW fl \in Flags, open(fd, p, fl)
        PROVE  Lost(q)
    BY <1>1, <2>1, OpenHeader
  <2>2. ASSUME NEW fd \in Fd, NEW n \in ReadSizes, read(fd, n) PROVE Lost(q)
    BY <1>1, <2>2 DEF read
  <2>3. ASSUME NEW fd \in Fd, NEW d \in Payloads, write(fd, d) PROVE Lost(q)
    BY <1>1, <2>3, WriteHeader
  <2>4. ASSUME NEW fd \in Fd, NEW w \in RawWrites, pwrite(fd, w[1], w[2])
        PROVE  Lost(q)
    <3>1. w[1] \in Nat /\ w[2] \in Seq(Cell) /\ fd \in OpenFds /\ Acc(fd) # "r"
      BY <2>4, LinkerAssumption DEF pwrite
    <3>2. q = File(fd) /\ disk'[q] = RawWritten(fd, w[1], w[2])
      BY <1>1, <2>4 DEF pwrite, StoreFile, TypeOK
    <3>3. CASE App(fd) \/ w[1] >= FILE_HEADER_POLL_SIZE
      <4>1. disk[File(fd)] \in Seq(Cell) BY <1>1, <3>1, OpenFd
      <4>2. Sealed(RawWritten(fd, w[1], w[2]))
        BY <1>1, <3>1, <3>2, <3>3, <4>1, LandingSealed, OverlaySealed DEF RawWritten
      <4> QED BY <1>1, <3>2, <4>2
    <3>4. CASE ~ App(fd) /\ w[1] < FILE_HEADER_POLL_SIZE
      BY <3>1, <3>2, <3>4 DEF PwriteBelowHeader
    <3> QED BY <3>1, <3>3, <3>4, HeaderSize
  <2>5. ASSUME NEW fd \in Fd, close(fd) PROVE Lost(q) BY <1>1, <2>5 DEF close
  <2>6. ASSUME NEW fd \in Fd, NEW new \in Fd, dup(fd, new) PROVE Lost(q)
    BY <1>1, <2>6 DEF dup
  <2>7. ASSUME NEW fd \in Fd, NEW sk \in Seeks, lseek(fd, sk[1], sk[2]) PROVE Lost(q)
    BY <1>1, <2>7 DEF lseek
  <2>8. ASSUME NEW fd \in Fd, mmap(fd) PROVE Lost(q) BY <1>1, <2>8, MmapHeader
  <2>9. CASE SetDomainState BY <1>1, <2>9 DEF SetDomainState
  <2>10. CASE UNCHANGED vars BY <1>1, <2>10 DEF vars
  <2> QED
    BY <1>1, <2>1, <2>2, <2>3, <2>4, <2>5, <2>6, <2>7, <2>8, <2>9, <2>10 DEF Next
<1>2. TypeOK /\ [Next]_vars =>
        [\A p \in Path : (Sealed(disk[p]) /\ ~ Sealed(disk'[p])) =>
           TruncatingOpen(p) \/ WritableBelowHeader(p) \/ PwriteBelowHeader(p)]_vars
  BY <1>1
<1> QED BY <1>2, TypeCorrect, PTL DEF Spec, HeaderLostOnlyBelow
-----------------------------------------------------------------------------
(* What a translated descriptor shows.                                     *)

\* The text behind the header is as long as what is stored there.
LEMMA PlainViewLength ==
  ASSUME NEW s \in Seq(Cell), Sealed(s)
  PROVE  Len(PlainView(s)) = Len(s) - FILE_HEADER_POLL_SIZE
<1> DEFINE h == FILE_HEADER_POLL_SIZE
           body == SubSeq(s, h + 1, Len(s))
<1>1. h \in Nat /\ Len(s) \in Nat /\ Len(s) >= h
  BY HeaderSize DEF Sealed, is_encrypted_by_file_header
<1>2. body \in Seq(Cell) /\ Len(body) = Len(s) - h
  <2> HIDE DEF h
  <2> QED BY <1>1
<1>3. PlainView(s) = aes_decrypt(body) BY DEF PlainView
<1> HIDE DEF body
<1> QED BY <1>2, <1>3, CryptType

\* A read of a sealed file through a descriptor that is translated delivers the
\* text at the position lseek reports, wherever the position and the count lie in
\* a block and wherever the file ends, in every reachable state: no history of
\* opens, writes, seeks and duplicates makes the window it decrypts slip.
THEOREM ReadsPlainText == Spec => []ReadExact
<1>1. TypeOK => ReadExact
  <2> DEFINE h == FILE_HEADER_POLL_SIZE
  <2> SUFFICES ASSUME TypeOK, NEW fd \in OpenFds, NEW n \in ReadSizes,
                      Sealed(disk[File(fd)]), Pos(fd) = 0 \/ Pos(fd) >= h
               PROVE  Decrypted(fd, n)
                        = Window(PlainView(disk[File(fd)]), SkipHeader(fd) - h, n)
    BY DEF ReadExact
  <2> DEFINE s == disk[File(fd)]
             o == Offset(fd)
             lead == o % Block
  <2>1. Pos(fd) \in Nat /\ s \in Seq(Cell) /\ h \in Nat /\ h > 0 /\ n \in Nat
    BY OpenFd, HeaderSize, LinkerAssumption
  <2>2. o = SkipHeader(fd) /\ o \in Nat /\ o >= h
    <3>1. CASE Pos(fd) = 0 BY <2>1, <3>1 DEF Offset, SkipHeader, Larger
    <3>2. CASE Pos(fd) >= h BY <2>1, <3>2 DEF Offset, SkipHeader, Larger
    <3> QED BY <3>1, <3>2
  <2>3. Decrypted(fd, n) = Collected(lead, n, Window(s, o - lead, lead),
                                     Window(s, SkipHeader(fd), n),
                                     Window(s, o + n, TailCount(fd, n)))
    BY Zenon DEF Decrypted
  <2>4. TailCount(fd, n) = Block - ((o + n) % Block)
    <3>1. TailCount(fd, n) = Block - ((n + o) % Block) BY Zenon DEF TailCount
    <3> HIDE DEF o
    <3>2. n + o = o + n BY <2>1, <2>2
    <3> QED BY <3>1, <3>2, Zenon
  <2>5. Decrypted(fd, n) = Collected(lead, n, Window(s, o - lead, lead), Window(s, o, n),
                                     Window(s, o + n, Block - ((o + n) % Block)))
    <3> HIDE DEF o, s, lead
    <3> QED BY <2>2, <2>3, <2>4, Zenon
  <2>6. Collected(lead, n, Window(s, o - lead, lead), Window(s, o, n),
                  Window(s, o + n, Block - ((o + n) % Block)))
          = Window(PlainView(s), o - h, n)
    <3>1. Sealed(s) OBVIOUS
    <3> HIDE DEF o, s
    <3> QED BY <2>1, <2>2, <3>1, CollectedExact
  <2> QED BY <2>2, <2>5, <2>6, Zenon
<1> QED BY <1>1, TypeCorrect, PTL DEF Spec

\* stat, fstat and lseek to the end agree with the number of plain bytes of a
\* sealed file, in every reachable state and whatever the descriptor table holds.
THEOREM SizesTrue == Spec => []SizesAgree
<1>1. TypeOK => SizesAgree
  <2> DEFINE h == FILE_HEADER_POLL_SIZE
  <2> SUFFICES ASSUME TypeOK, protected, NEW fd \in OpenFds, Sealed(disk[File(fd)])
               PROVE  LET s == disk[File(fd)] IN
                      /\ SpareFd => stat(File(fd)) = Len(PlainView(s))
                      /\ (Acc(fd) # "w" /\ SpareFd) => fstat(fd) = Len(PlainView(s))
                      /\ Handled(fd) => SeekResult(fd, 0, "END") = Len(PlainView(s))
    BY DEF SizesAgree
  <2> DEFINE s == disk[File(fd)]
  <2>1. /\ s \in Seq(Cell) /\ Len(s) \in Nat /\ h \in Nat /\ Len(s) >= h
        /\ Len(PlainView(s)) = Len(s) - h
    <3>1. s \in Seq(Cell) /\ Sealed(s) BY OpenFd
    <3> HIDE DEF s
    <3>2. Len(s) \in Nat /\ Len(s) >= h BY <3>1 DEF Sealed, is_encrypted_by_file_header
    <3> QED BY <3>1, <3>2, PlainViewLength, HeaderSize
  <2>2. SpareFd => stat(File(fd)) = Len(s) - h BY DEF stat
  <2>3. (Acc(fd) # "w" /\ SpareFd) => fstat(fd) = Len(s) - h
    BY DEF fstat, is_encrypted_by_fd, Sealed
  <2>4. Handled(fd) => SeekResult(fd, 0, "END") = Len(s) - h
    <3>1. SeekTarget(fd, 0, "END") = Len(s) + 0 BY DEF SeekTarget
    <3>2. Larger(Len(s) + 0, -1) = Len(s) BY <2>1 DEF Larger
    <3>3. Larger(SeekTarget(fd, 0, "END"), -1) = Len(s) BY <3>1, <3>2
    <3> QED BY <3>3, Zenon DEF SeekResult
  <2> QED BY <2>1, <2>2, <2>3, <2>4
<1> QED BY <1>1, TypeCorrect, PTL DEF Spec
-----------------------------------------------------------------------------
(* The layer used as intended.                                             *)

\* What else is true of the layer as long as it is used as intended: encryption
\* stays on, there is a descriptor to spare, no two descriptors share an open
\* file description, none appends, and the files there are hold something.
AsIntended ==
  /\ protected /\ leftover = {}
  /\ Cardinality(OpenFds) <= MaxOpen
  /\ \A f, g \in OpenFds : fdt[f] = fdt[g] => f = g
  /\ \A fd \in OpenFds : ~ App(fd)
  /\ \A p \in Path : p \in exists <=> disk[p] # <<>>

\* The inductive invariant behind the promise.
Promised == TypeOK /\ TrackingExact /\ AsIntended /\ AlwaysTranslated

\* write and is_encrypted_by_fd find a free descriptor.
LEMMA OneToSpare ==
  ASSUME IntendedUse, Cardinality(OpenFds) <= MaxOpen
  PROVE  SpareFd
<1>1. Cardinality(Fd) \in Nat /\ MaxOpen \in Nat /\ MaxOpen < Cardinality(Fd)
  BY FS_CardinalityType, LinkerAssumption DEF IntendedUse
<1>2. CASE OpenFds = Fd
  <2>1. Cardinality(Fd) <= MaxOpen BY <1>2
  <2> QED BY <1>1, <2>1
<1>3. CASE OpenFds # Fd BY <1>3 DEF SpareFd
<1> QED BY <1>2, <1>3

\* The plain contents of a file are a sequence of cells.
LEMMA PlainViewType ==
  ASSUME NEW s \in Seq(Cell)
  PROVE  PlainView(s) \in Seq(Cell)
<1>1. CASE Sealed(s) BY <1>1, BodyCells, CryptType
<1>2. CASE ~ Sealed(s) BY <1>2 DEF PlainView
<1> QED BY <1>1, <1>2

\* A new file holds a header and shows nothing.
LEMMA NewFile ==
  Sealed(HeaderCells) /\ PlainView(HeaderCells) = <<>> /\ PlainView(<<>>) = <<>>
<1>1. Sealed(HeaderCells)
  BY HeaderSize DEF Sealed, is_encrypted_by_file_header, FILE_HEADER_POLL_SIZE
<1>2. Len(PlainView(HeaderCells)) = Len(HeaderCells) - FILE_HEADER_POLL_SIZE
  BY <1>1, HeaderSize, PlainViewLength
<1>3. Len(PlainView(HeaderCells)) = 0
  BY <1>2, HeaderSize DEF FILE_HEADER_POLL_SIZE
<1>4. PlainView(HeaderCells) \in Seq(Cell) BY HeaderSize, PlainViewType
<1>5. ~ Sealed(<<>>) BY DEF Sealed, is_encrypted_by_file_header
<1> QED BY <1>1, <1>3, <1>4, <1>5, EmptySeq DEF PlainView

\* A successful open of the intended use takes a free descriptor, records it,
\* stands behind the header, and leaves a file that has a header and shows what
\* it showed.
LEMMA OpenIntended ==
  ASSUME IntendedUse, Promised, NEW fd \in Fd, NEW p \in Path, NEW fl \in Flags,
         open(fd, p, fl)
  PROVE  /\ fd \notin OpenFds /\ Cardinality(OpenFds) < MaxOpen
         /\ KernelOpen(fd, p, fl, FILE_HEADER_POLL_SIZE) /\ ~ fl.append
         /\ file_info_list_add(fd, p)
         /\ UNCHANGED <<leftover, protected>>
         /\ \E new \in Seq(Cell) : /\ Sealed(new) /\ PlainView(new) = PlainView(disk[p])
                                   /\ disk' = [disk EXCEPT ![p] = new]
<1>1. /\ fd \notin OpenFds /\ Cardinality(OpenFds) < MaxOpen
      /\ \/ OpenRaw(fd, p, fl) \/ OpenNew(fd, p, fl) \/ OpenNewSpecial(fd, p, fl)
         \/ OpenSealed(fd, p, fl) \/ OpenPlain(fd, p, fl)
  BY DEF open, OpenOK, LowestFree
<1>2. UNCHANGED <<leftover, protected>> /\ (p \in exists \/ fl.creat)
  BY DEF open, OpenOK
<1>3. /\ p \in Supported \ Special /\ ~ fl.trunc /\ ~ fl.append
      /\ (fl.creat => fl.acc # "r")
  BY DEF IntendedUse
<1>4. /\ protected /\ leftover = {} /\ disk \in [Path -> Seq(Cell)]
      /\ (p \in exists <=> disk[p] # <<>>)
  BY DEF Promised, AsIntended, TypeOK
<1>5. Truncated(p, fl) = disk[p] BY <1>3 DEF Truncated
<1>6. CASE OpenNew(fd, p, fl)
  <2>1. p \notin exists /\ fl.acc # "r" BY <1>2, <1>3, <1>6 DEF OpenNew
  <2>2. /\ KernelOpen(fd, p, fl, FILE_HEADER_POLL_SIZE)
        /\ disk' = [disk EXCEPT ![p] = HeaderCells] /\ file_info_list_add(fd, p)
    BY <1>6, <2>1 DEF OpenNew
  <2>3. disk[p] = <<>> BY <1>4, <2>1
  <2> QED BY <1>1, <1>2, <1>3, <2>2, <2>3, NewFile, HeaderSize
<1>7. CASE OpenSealed(fd, p, fl)
  <2>1. /\ Sealed(disk[p]) /\ KernelOpen(fd, p, fl, FILE_HEADER_POLL_SIZE)
        /\ disk' = [disk EXCEPT ![p] = disk[p]] /\ file_info_list_add(fd, p)
    BY <1>3, <1>5, <1>7 DEF OpenSealed
  <2> QED BY <1>1, <1>2, <1>3, <1>4, <2>1
<1>8. CASE OpenPlain(fd, p, fl)
  <2>1. p \notin leftover /\ Truncated(p, fl) # <<>> BY <1>4, <1>5, <1>8 DEF OpenPlain
  <2>2. /\ ~ Sealed(disk[p]) /\ KernelOpen(fd, p, fl, FILE_HEADER_POLL_SIZE)
        /\ disk' = [disk EXCEPT ![p] = SealedForm(disk[p])] /\ file_info_list_add(fd, p)
    BY <1>8, <2>1 DEF OpenPlain
  <2>3. PlainView(disk[p]) = disk[p] BY <2>2 DEF PlainView
  <2>4. /\ SealedForm(disk[p]) \in Seq(Cell) /\ Sealed(SealedForm(disk[p]))
        /\ PlainView(SealedForm(disk[p])) = PlainView(disk[p])
    BY <1>4, <2>3, SealedFormType, SealedFormExact
  <2> QED BY <1>1, <1>2, <1>3, <2>2, <2>4
<1>9. ~ OpenRaw(fd, p, fl) /\ ~ OpenNewSpecial(fd, p, fl)
  BY <1>3, <1>4 DEF OpenRaw, OpenNewSpecial
<1> QED BY <1>1, <1>6, <1>7, <1>8, <1>9
\* Descriptors that stay open, and where a new one leads.
LEMMA OpenedDescriptors ==
  ASSUME TypeOK, NEW fd \in Fd \ OpenFds, NEW p \in Path, NEW fl \in Flags, NEW pos \in Nat,
         KernelOpen(fd, p, fl, pos)
  PROVE  \E o \in Fd :
           /\ ~ InUse(o) /\ fdt' = [fdt EXCEPT ![fd] = o]
           /\ ofd' = [ofd EXCEPT ![o] = [path |-> p, pos |-> pos,
                                         acc |-> fl.acc, app |-> fl.append]]
           /\ exists' = exists \cup {p}
           /\ OpenFds' = OpenFds \cup {fd} /\ fdt'[fd] = o
           /\ \A g \in OpenFds : fdt'[g] = fdt[g] /\ fdt[g] # o
<1>1. PICK o \in Fd :
        /\ LowestOfd(o)
        /\ fdt' = [fdt EXCEPT ![fd] = o]
        /\ ofd' = [ofd EXCEPT ![o] = [path |-> p, pos |-> pos,
                                      acc |-> fl.acc, app |-> fl.append]]
        /\ exists' = exists \cup {p}
  BY DEF KernelOpen
<1>2. ~ InUse(o) BY <1>1 DEF LowestOfd
<1>3. o # 0 BY LinkerAssumption
<1>4. fdt'[fd] = o /\ \A g \in Fd \ {fd} : fdt'[g] = fdt[g] BY <1>1 DEF TypeOK
<1>5. OpenFds' = OpenFds \cup {fd} BY <1>3, <1>4 DEF OpenFds
<1>6. \A g \in OpenFds : fdt'[g] = fdt[g] /\ fdt[g] # o
  BY <1>2, <1>4 DEF InUse, OpenFds
<1> QED BY <1>1, <1>2, <1>4, <1>5, <1>6

\* An entry added at the tail makes its descriptor a recorded one and leaves the
\* others recorded.
LEMMA AddRecords ==
  ASSUME TypeOK, NEW fd, NEW p, file_info_list_add(fd, p)
  PROVE  Tracked(fd)' /\ \A g \in Fd : Tracked(g) => Tracked(g)'
<1> DEFINE l == file_info_list
           n == Len(l)
<1>1. l \in Seq(Entry) /\ n \in Nat BY DEF TypeOK, Entry
<1>2. /\ file_info_list' = Append(l, Info(fd, p)) /\ Len(file_info_list') = n + 1
      /\ file_info_list'[n + 1] = Info(fd, p)
      /\ \A i \in 1..n : file_info_list'[i] = l[i]
  BY <1>1 DEF file_info_list_add
<1>3. Info(fd, p).fd = fd BY DEF Info
<1>4. Tracked(fd)'
  <2>1. n + 1 \in 1..Len(file_info_list') BY <1>1, <1>2
  <2> QED BY <1>2, <1>3, <2>1 DEF Tracked
<1>5. ASSUME NEW g \in Fd, Tracked(g) PROVE Tracked(g)'
  <2>1. PICK i \in 1..n : l[i].fd = g BY <1>5 DEF Tracked
  <2>2. i \in 1..Len(file_info_list') /\ file_info_list'[i].fd = g BY <1>1, <1>2, <2>1
  <2> QED BY <2>2 DEF Tracked
<1> QED BY <1>4, <1>5

\* open as intended.
LEMMA OpenPromised ==
  ASSUME IntendedUse, Promised, NEW fd \in Fd, NEW p \in Path, NEW fl \in Flags,
         open(fd, p, fl)
  PROVE  AsIntended' /\ AlwaysTranslated'
<1> DEFINE h == FILE_HEADER_POLL_SIZE
<1>1. TypeOK /\ h \in Nat BY HeaderSize DEF Promised
<1>2. /\ fd \in Fd \ OpenFds /\ Cardinality(OpenFds) < MaxOpen
      /\ KernelOpen(fd, p, fl, h) /\ ~ fl.append
      /\ file_info_list_add(fd, p) /\ UNCHANGED <<leftover, protected>>
  BY OpenIntended
<1>3. PICK new \in Seq(Cell) : Sealed(new) /\ disk' = [disk EXCEPT ![p] = new]
  BY OpenIntended
<1> HIDE DEF h
<1>4. PICK o \in Fd :
        /\ fdt' = [fdt EXCEPT ![fd] = o]
        /\ ofd' = [ofd EXCEPT ![o] = [path |-> p, pos |-> h,
                                      acc |-> fl.acc, app |-> fl.append]]
        /\ exists' = exists \cup {p}
        /\ OpenFds' = OpenFds \cup {fd} /\ fdt'[fd] = o
        /\ \A g \in OpenFds : fdt'[g] = fdt[g] /\ fdt[g] # o
  BY <1>1, <1>2, OpenedDescriptors
<1>5. disk \in [Path -> Seq(Cell)] /\ ofd \in [Fd -> Ofd] BY <1>1 DEF TypeOK, Ofd
<1>6. /\ disk'[p] = new /\ \A q \in Path \ {p} : disk'[q] = disk[q]
      /\ new # <<>>
  BY <1>3, <1>5 DEF Sealed, is_encrypted_by_file_header
<1>7. /\ ofd'[o] = [path |-> p, pos |-> h, acc |-> fl.acc, app |-> fl.append]
      /\ \A g \in OpenFds : ofd'[fdt[g]] = ofd[fdt[g]]
  BY <1>1, <1>4, <1>5, OpenFd
<1>8. /\ protected' /\ leftover' = {}
      /\ \A q \in Path : q \in exists' <=> disk'[q] # <<>>
  BY <1>2, <1>4, <1>6 DEF Promised, AsIntended
<1>9. \A f, g \in OpenFds' : fdt'[f] = fdt'[g] => f = g
  BY <1>4 DEF Promised, AsIntended
<1>10. \A g \in OpenFds' : ~ App(g)'
  <2> SUFFICES ASSUME NEW g \in OpenFds' PROVE ~ App(g)' OBVIOUS
  <2>1. CASE g = fd BY <1>2, <1>4, <1>7, <2>1 DEF App
  <2>2. CASE g \in OpenFds BY <1>4, <1>7, <2>2 DEF App, Promised, AsIntended
  <2> QED BY <1>4, <2>1, <2>2
<1>11. Cardinality(OpenFds') <= MaxOpen
  <2>1. IsFiniteSet(OpenFds)
    <3>1. OpenFds \subseteq Fd BY DEF OpenFds
    <3> QED BY <3>1, FS_Subset DEF IntendedUse
  <2>2. Cardinality(OpenFds \cup {fd}) = Cardinality(OpenFds) + 1
    BY <1>2, <2>1, FS_AddElement
  <2>3. Cardinality(OpenFds) \in Nat /\ MaxOpen \in Nat
    BY <2>1, FS_CardinalityType, LinkerAssumption
  <2>4. Cardinality(OpenFds) + 1 <= MaxOpen BY <1>2, <2>3
  <2> QED BY <1>4, <2>2, <2>4
<1>12. AsIntended' BY <1>8, <1>9, <1>10, <1>11 DEF AsIntended
<1>13. AlwaysTranslated'
  <2> SUFFICES ASSUME NEW g \in OpenFds'
               PROVE  /\ Tracked(g)' /\ Sealed(disk'[ofd'[fdt'[g]].path])
                      /\ ofd'[fdt'[g]].pos >= h
    BY DEF AlwaysTranslated, File, Pos, h
  <2>1. CASE g = fd
    BY <1>1, <1>2, <1>3, <1>4, <1>6, <1>7, <2>1, AddRecords
  <2>2. CASE g \in OpenFds
    <3>1. Tracked(g) /\ Sealed(disk[ofd[fdt[g]].path]) /\ ofd[fdt[g]].pos >= h /\ g \in Fd
      BY <2>2, OpenFd DEF Promised, AlwaysTranslated, File, Pos, h, OpenFds
    <3>2. Tracked(g)' BY <1>1, <1>2, <3>1, AddRecords
    <3>3. ofd'[fdt'[g]] = ofd[fdt[g]] BY <1>4, <1>7, <2>2
    <3>4. ofd[fdt[g]].path \in Path BY <1>1, <2>2, OpenFd DEF File
    <3>5. Sealed(disk'[ofd[fdt[g]].path]) BY <1>3, <1>6, <3>1, <3>4
    <3> QED BY <3>1, <3>2, <3>3, <3>5
  <2> QED BY <1>4, <2>1, <2>2
<1> QED BY <1>12, <1>13
\* Moving the offset of one descriptor.
LEMMA OffsetMoved ==
  ASSUME TypeOK, NEW fd \in OpenFds, NEW pos \in Nat, SetPos(fd, pos)
  PROVE  /\ ofd'[fdt[fd]] = [ofd[fdt[fd]] EXCEPT !.pos = pos]
         /\ ofd'[fdt[fd]].pos = pos
         /\ \A o \in Fd \ {fdt[fd]} : ofd'[o] = ofd[o]
         /\ \A o \in Fd : ofd'[o].path = ofd[o].path /\ ofd'[o].app = ofd[o].app
<1>1. fdt[fd] \in Fd /\ ofd \in [Fd -> Ofd] BY OpenFd DEF TypeOK, Ofd
<1>2. ofd' = [ofd EXCEPT ![fdt[fd]] = [ofd[fdt[fd]] EXCEPT !.pos = pos]]
  BY Zenon DEF SetPos
<1>3. /\ ofd'[fdt[fd]] = [ofd[fdt[fd]] EXCEPT !.pos = pos]
      /\ \A o \in Fd \ {fdt[fd]} : ofd'[o] = ofd[o]
  BY <1>1, <1>2
<1>4. ofd[fdt[fd]] \in Ofd BY <1>1
<1>5. /\ ofd'[fdt[fd]].pos = pos /\ ofd'[fdt[fd]].path = ofd[fdt[fd]].path
      /\ ofd'[fdt[fd]].app = ofd[fdt[fd]].app
  BY <1>3, <1>4 DEF Ofd
<1> QED BY <1>3, <1>5

\* A call that leaves the tables alone, keeps the headers and leaves the descriptor
\* behind the header.
LEMMA MovedPromised ==
  ASSUME Promised, NEW fd \in OpenFds, NEW pos \in Nat, pos >= FILE_HEADER_POLL_SIZE,
         SetPos(fd, pos),
         UNCHANGED <<exists, leftover, fdt, file_info_list, protected>>,
         \A q \in Path \ {File(fd)} : disk'[q] = disk[q],
         Sealed(disk'[File(fd)])
  PROVE  AsIntended' /\ AlwaysTranslated'
<1> DEFINE h == FILE_HEADER_POLL_SIZE
<1>1. TypeOK /\ h \in Nat BY HeaderSize DEF Promised
<1>2. OpenFds' = OpenFds /\ fd \in Fd /\ fdt[fd] \in Fd BY <1>1, OpenFd DEF OpenFds
<1>3. /\ ofd'[fdt[fd]].pos = pos
      /\ \A o \in Fd \ {fdt[fd]} : ofd'[o] = ofd[o]
      /\ \A o \in Fd : ofd'[o].path = ofd[o].path /\ ofd'[o].app = ofd[o].app
  BY <1>1, OffsetMoved
<1>4. File(fd) \in Path /\ File(fd) \in exists BY <1>1, OpenFd
<1>5. disk'[File(fd)] # <<>> BY DEF Sealed, is_encrypted_by_file_header
<1>6. \A g \in OpenFds : fdt[g] \in Fd /\ File(g) \in Path BY <1>1, OpenFd
<1>7. AsIntended'
  <2>1. \A q \in Path : q \in exists' <=> disk'[q] # <<>>
    BY <1>4, <1>5 DEF Promised, AsIntended
  <2>2. \A g \in OpenFds : ~ App(g)' BY <1>3, <1>6 DEF App, Promised, AsIntended
  <2> QED BY <1>2, <2>1, <2>2 DEF Promised, AsIntended
<1>8. AlwaysTranslated'
  <2> SUFFICES ASSUME NEW g \in OpenFds
               PROVE  /\ Tracked(g)' /\ Sealed(disk'[File(g)'])
                      /\ Pos(g)' >= h
    BY <1>2 DEF AlwaysTranslated
  <2>1. Tracked(g) /\ Sealed(disk[File(g)]) /\ Pos(g) >= h
    BY DEF Promised, AlwaysTranslated
  <2>2. File(g)' = File(g) BY <1>3, <1>6 DEF File
  <2>3. Tracked(g)' BY <2>1 DEF Tracked
  <2>4. Pos(g)' >= h BY <1>3, <1>6, <2>1 DEF Pos
  <2>5. Sealed(disk'[File(g)]) BY <1>6, <2>1
  <2> QED BY <2>2, <2>3, <2>4, <2>5
<1> QED BY <1>7, <1>8

\* read as intended goes on from where the descriptor stands.
LEMMA ReadIntended ==
  ASSUME IntendedUse, Promised, NEW fd \in Fd, NEW n \in ReadSizes, read(fd, n)
  PROVE  /\ fd \in OpenFds
         /\ \E pos \in Nat :
              /\ pos = IF Acc(fd) = "w" THEN Pos(fd)
                       ELSE Pos(fd) + Len(Window(disk[File(fd)], Pos(fd), n))
              /\ pos >= FILE_HEADER_POLL_SIZE /\ SetPos(fd, pos)
<1> DEFINE h == FILE_HEADER_POLL_SIZE
           w == Window(disk[File(fd)], Pos(fd), n)
           pos == IF Acc(fd) = "w" THEN Pos(fd) ELSE Pos(fd) + Len(w)
<1>1. fd \in OpenFds /\ TypeOK /\ n \in Nat /\ h \in Nat
  BY HeaderSize, LinkerAssumption DEF read, Promised
<1>2. Tracked(fd) /\ Pos(fd) >= h BY <1>1 DEF Promised, AlwaysTranslated
<1>3. Handled(fd) BY <1>2 DEF Handled, Promised, AsIntended
<1>4. Pos(fd) \in Nat /\ disk[File(fd)] \in Seq(Cell) BY <1>1, OpenFd
<1>5. SkipHeader(fd) = Pos(fd)
  <2> HIDE DEF h
  <2>1. Larger(Pos(fd), h) = Pos(fd) BY <1>1, <1>2, <1>4 DEF Larger
  <2> QED BY <2>1 DEF SkipHeader, h
<1>6. SetPos(fd, pos) BY <1>3, <1>5, Zenon DEF read
<1>7. w \in Seq(Cell) BY <1>1, <1>4, WindowAt
<1>8. pos \in Nat /\ pos >= h
  <2> HIDE DEF w, h
  <2>1. Len(w) \in Nat BY <1>7
  <2> QED BY <1>1, <1>2, <1>4, <2>1
<1> QED BY <1>1, <1>6, <1>8

\* lseek as intended leads behind the header.
LEMMA SeekIntended ==
  ASSUME IntendedUse, Promised, NEW fd \in Fd, NEW sk \in Seeks, lseek(fd, sk[1], sk[2])
  PROVE  /\ fd \in OpenFds
         /\ \E pos \in 0..MaxLen : pos >= FILE_HEADER_POLL_SIZE /\ SetPos(fd, pos)
<1> DEFINE h == FILE_HEADER_POLL_SIZE
           pos == SeekTarget(fd, sk[1], sk[2])
<1>1. fd \in OpenFds /\ TypeOK /\ h \in Nat BY HeaderSize DEF lseek, Promised
<1>2. pos \in 0..MaxLen /\ SetPos(fd, pos) BY DEF lseek
<1>3. Tracked(fd) /\ Pos(fd) >= h /\ Sealed(disk[File(fd)])
  BY <1>1 DEF Promised, AlwaysTranslated
<1>4. Handled(fd) BY <1>3 DEF Handled, Promised, AsIntended
<1>5. Pos(fd) \in Nat /\ disk[File(fd)] \in Seq(Cell) BY <1>1, OpenFd
<1>6. Len(disk[File(fd)]) >= h /\ Len(disk[File(fd)]) \in Nat
  BY <1>3, <1>5 DEF Sealed, is_encrypted_by_file_header
<1>7. sk[1] \in Int /\ sk[1] >= 0 /\ sk[2] \in {"SET", "CUR", "END"}
  BY LinkerAssumption DEF IntendedUse
<1>8. pos >= h
  <2>1. CASE sk[2] = "SET"
    <3>1. pos = sk[1] + h BY <1>4, <2>1 DEF SeekTarget
    <3> HIDE DEF h
    <3> QED BY <1>1, <1>7, <3>1
  <2>2. CASE sk[2] = "CUR"
    <3>1. pos = Pos(fd) + sk[1] BY <2>2 DEF SeekTarget
    <3> HIDE DEF h
    <3> QED BY <1>1, <1>3, <1>5, <1>7, <3>1
  <2>3. CASE sk[2] = "END"
    <3>1. pos = Len(disk[File(fd)]) + sk[1] BY <2>3 DEF SeekTarget
    <3> HIDE DEF h
    <3> QED BY <1>1, <1>6, <1>7, <3>1
  <2> QED BY <1>7, <2>1, <2>2, <2>3
<1> QED BY <1>1, <1>2, <1>8
\* write as intended puts back the stored cells of its own file and writes the
\* encrypted buffer over them, behind the header.
LEMMA WriteIntended ==
  ASSUME IntendedUse, Promised, NEW fd \in Fd, NEW d \in Payloads, write(fd, d)
  PROVE  /\ fd \in OpenFds /\ SetPos(fd, Pos(fd) + Len(d))
         /\ d \in Seq(Cell) /\ Len(d) > 0
         /\ UNCHANGED <<exists, leftover, fdt, file_info_list, protected>>
         /\ \E t \in Seq(Cell) : \E prefix \in Seq(Cell) :
              /\ Sealed(t) /\ disk' = [disk EXCEPT ![File(fd)] = t]
              /\ BodyAfter(Body(disk[File(fd)]), Pos(fd) - FILE_HEADER_POLL_SIZE, d,
                           prefix, Body(t))
<1> DEFINE s == disk[File(fd)]
           lead == Pos(fd) % Block
<1>1. fd \in OpenFds /\ TypeOK /\ TrackingExact /\ protected /\ d \in Seq(Cell) /\ d # <<>>
  BY LinkerAssumption DEF write, Promised, AsIntended
<1>2. /\ Tracked(fd) /\ Sealed(s) /\ Pos(fd) >= FILE_HEADER_POLL_SIZE /\ ~ App(fd)
  BY <1>1 DEF Promised, AlwaysTranslated, AsIntended
<1>3. s \in Seq(Cell) /\ Pos(fd) \in Nat BY <1>1, OpenFd
<1>4. SpareFd BY OneToSpare DEF Promised, AsIntended
<1>5. PICK t : /\ t \in {Written(fd, prefix, d) : prefix \in BlockPrefix(fd, lead)}
               /\ StoreFile(fd, t) /\ SetPos(fd, PosAfter(fd, t, d))
  <2>1. \E t \in IF protected
                 THEN {Written(fd, prefix, d) : prefix \in BlockPrefix(fd, lead)}
                 ELSE {RawWritten(fd, Pos(fd), d)} :
          StoreFile(fd, t) /\ SetPos(fd, PosAfter(fd, t, d))
    BY Zenon DEF write
  <2> QED BY <1>1, <2>1
<1>6. PICK prefix \in BlockPrefix(fd, lead) : t = Written(fd, prefix, d) BY <1>5
<1>7. prefix = Overlay(Zeros(lead), 0, Window(s, Pos(fd) - lead, lead))
  <2>1. PICK i \in 1..Len(file_info_list) :
          /\ IsFirst(i, fd)
          /\ prefix = Overlay(Zeros(lead), 0,
                        Window(disk[file_info_list[i].path], Pos(fd) - lead, lead))
    BY <1>2, <1>4 DEF BlockPrefix
  <2>2. file_info_list[i].path = File(fd)
    BY <1>1, <2>1 DEF IsFirst, TrackingExact
  <2> QED BY <2>1, <2>2
<1>8. prefix \in Seq(Cell) BY <1>1, BlockPrefixType
<1> DEFINE temp == aes_encrypt(prefix \o d)
<1>9. t = Overlay(Overlay(s, Pos(fd) - Len(prefix), SubSeq(temp, 1, Len(prefix))),
                  Pos(fd), SubSeq(temp, Len(prefix) + 1, Len(temp)))
  <2>1. \A u, at : Landing(fd, u, at) = at BY <1>2 DEF Landing
  <2> QED BY <1>6, <2>1, Zenon DEF Written
<1>10. /\ t \in Seq(Cell) /\ Sealed(t)
       /\ BodyAfter(Body(s), Pos(fd) - FILE_HEADER_POLL_SIZE, d, prefix, Body(t))
  <2> DEFINE pos == Pos(fd)
  <2>1. /\ pos \in Nat /\ pos >= FILE_HEADER_POLL_SIZE /\ s \in Seq(Cell) /\ Sealed(s)
        /\ d \in Seq(Cell) /\ d # <<>>
        /\ prefix = Overlay(Zeros(pos % Block), 0,
                            Window(s, pos - (pos % Block), pos % Block))
        /\ t = Overlay(Overlay(s, pos - Len(prefix), SubSeq(temp, 1, Len(prefix))),
                       pos, SubSeq(temp, Len(prefix) + 1, Len(temp)))
    BY <1>1, <1>2, <1>3, <1>7, <1>9
  <2> HIDE DEF pos, s
  <2> QED BY ONLY <2>1, FileWritten, Zenon DEF pos
<1>11. disk' = [disk EXCEPT ![File(fd)] = t] BY <1>5 DEF StoreFile
<1>12. SetPos(fd, Pos(fd) + Len(d))
  <2>1. PosAfter(fd, t, d) = Pos(fd) + Len(d) BY <1>2 DEF PosAfter
  <2> QED BY <1>5, <2>1, Zenon
<1>13. Len(d) > 0
  <2>1. Len(d) \in Nat /\ Len(d) # 0 BY <1>1, EmptySeq
  <2> QED BY <2>1
<1>14. UNCHANGED <<exists, leftover, fdt, file_info_list, protected>> BY DEF write
<1> QED BY <1>1, <1>8, <1>10, <1>11, <1>12, <1>13, <1>14
\* close leaves the entries of the other descriptors in the list.
LEMMA RemoveLeaves ==
  ASSUME TypeOK, NEW fd \in Fd, NEW g \in Fd \ {fd}, Tracked(g),
         file_info_list_remove_by_fd(fd)
  PROVE  Tracked(g)'
<1> DEFINE l == file_info_list
           n == Len(l)
<1>1. l \in Seq(Entry) /\ n \in Nat BY DEF TypeOK, Entry
<1>2. PICK i \in 1..n : l[i].fd = g BY DEF Tracked
<1>3. CASE ~ Tracked(fd)
  <2>1. file_info_list' = l BY <1>3 DEF file_info_list_remove_by_fd
  <2> QED BY <1>2, <2>1 DEF Tracked
<1>4. CASE Tracked(fd)
  <2>1. PICK k \in 1..n : l[k].fd = fd /\ file_info_list' = Without(l, k)
    BY <1>4 DEF file_info_list_remove_by_fd, IsFirst
  <2>2. /\ Len(Without(l, k)) = n - 1
        /\ \A j \in 1..(n - 1) : Without(l, k)[j] = IF j < k THEN l[j] ELSE l[j + 1]
    BY <1>1, WithoutKeeps
  <2> DEFINE m == Without(l, k)
  <2>3. i # k BY <1>2, <2>1
  <2> HIDE DEF m
  <2>4. \E j \in 1..(n - 1) : m[j] = l[i]
    <3>1. CASE i < k
      <4>1. i \in 1..(n - 1) BY <1>1, <3>1
      <4> QED BY <2>2, <3>1, <4>1 DEF m
    <3>2. CASE k < i
      <4>1. i - 1 \in 1..(n - 1) /\ ~ (i - 1 < k) /\ (i - 1) + 1 = i BY <1>1, <3>2
      <4>2. m[i - 1] = l[(i - 1) + 1] BY <2>2, <4>1 DEF m
      <4> QED BY <4>1, <4>2
    <3> QED BY <1>1, <2>3, <3>1, <3>2
  <2>5. PICK j \in 1..(n - 1) : m[j] = l[i] BY <2>4
  <2>6. file_info_list' = m /\ Len(m) = n - 1 BY <2>1, <2>2 DEF m
  <2> QED BY <1>2, <2>5, <2>6 DEF Tracked
<1> QED BY <1>3, <1>4

\* close as intended frees the open file description with the descriptor.
LEMMA CloseIntended ==
  ASSUME Promised, NEW fd \in Fd, close(fd)
  PROVE  /\ fd \in OpenFds /\ OpenFds' = OpenFds \ {fd}
         /\ fdt' = [fdt EXCEPT ![fd] = 0]
         /\ ofd' = [ofd EXCEPT ![fdt[fd]] = Unused]
         /\ \A g \in OpenFds \ {fd} : fdt'[g] = fdt[g] /\ fdt[g] # fdt[fd]
                                      /\ ofd'[fdt[g]] = ofd[fdt[g]]
         /\ file_info_list_remove_by_fd(fd)
         /\ UNCHANGED <<disk, exists, leftover, protected>>
<1>1. /\ fd \in OpenFds /\ fdt' = [fdt EXCEPT ![fd] = 0]
      /\ UNCHANGED <<disk, exists, leftover, protected>>
  BY DEF close
<1>2. TypeOK /\ fdt \in [Fd -> Fd \cup {0}] /\ ofd \in [Fd -> Ofd] /\ fdt[fd] \in Fd
  BY <1>1, OpenFd DEF Promised, TypeOK, Ofd
<1>3. OpenFds' = OpenFds \ {fd} BY <1>1, <1>2 DEF OpenFds
<1>4. \A g \in OpenFds \ {fd} : fdt'[g] = fdt[g] /\ fdt[g] # fdt[fd] /\ fdt[g] \in Fd
  BY <1>1, <1>2, OpenFd DEF Promised, AsIntended, OpenFds
<1>5. ~ \E g \in Fd \ {fd} : fdt[g] = fdt[fd]
  BY <1>1, <1>4 DEF OpenFds
<1>6. ofd' = [ofd EXCEPT ![fdt[fd]] = Unused] BY <1>5 DEF close
<1>7. \A g \in OpenFds \ {fd} : ofd'[fdt[g]] = ofd[fdt[g]] BY <1>2, <1>4, <1>6
<1>8. file_info_list_remove_by_fd(fd) BY DEF close, Promised, AsIntended
<1> QED BY <1>1, <1>3, <1>4, <1>6, <1>7, <1>8

\* close as intended.
LEMMA ClosePromised ==
  ASSUME IntendedUse, Promised, NEW fd \in Fd, close(fd)
  PROVE  AsIntended' /\ AlwaysTranslated'
<1>1. /\ fd \in OpenFds /\ OpenFds' = OpenFds \ {fd}
      /\ \A g \in OpenFds \ {fd} : fdt'[g] = fdt[g] /\ ofd'[fdt[g]] = ofd[fdt[g]]
      /\ file_info_list_remove_by_fd(fd)
      /\ UNCHANGED <<disk, exists, leftover, protected>>
  BY CloseIntended
<1>2. Cardinality(OpenFds') <= MaxOpen
  <2>1. IsFiniteSet(OpenFds)
    <3>1. OpenFds \subseteq Fd BY DEF OpenFds
    <3> QED BY <3>1, FS_Subset DEF IntendedUse
  <2>2. Cardinality(OpenFds \ {fd}) = Cardinality(OpenFds) - 1
    BY <1>1, <2>1, FS_RemoveElement
  <2>3. Cardinality(OpenFds) \in Nat /\ MaxOpen \in Nat /\ Cardinality(OpenFds) <= MaxOpen
    BY <2>1, FS_CardinalityType, LinkerAssumption DEF Promised, AsIntended
  <2> QED BY <1>1, <2>2, <2>3
<1>3. AsIntended'
  <2>1. \A f, g \in OpenFds' : fdt'[f] = fdt'[g] => f = g
    BY <1>1 DEF Promised, AsIntended
  <2>2. \A g \in OpenFds' : ~ App(g)' BY <1>1 DEF App, Promised, AsIntended
  <2> QED BY <1>1, <1>2, <2>1, <2>2 DEF Promised, AsIntended
<1>4. AlwaysTranslated'
  <2> SUFFICES ASSUME NEW g \in OpenFds \ {fd}
               PROVE  /\ Tracked(g)' /\ Sealed(disk'[File(g)'])
                      /\ Pos(g)' >= FILE_HEADER_POLL_SIZE
    BY <1>1 DEF AlwaysTranslated
  <2>1. Tracked(g) /\ Sealed(disk[File(g)]) /\ Pos(g) >= FILE_HEADER_POLL_SIZE
    BY DEF Promised, AlwaysTranslated
  <2>2. File(g)' = File(g) /\ Pos(g)' = Pos(g) BY <1>1 DEF File, Pos
  <2>3. TypeOK /\ g \in Fd \ {fd} BY DEF Promised, OpenFds
  <2>4. Tracked(g)' BY <1>1, <2>1, <2>3, RemoveLeaves
  <2> QED BY <1>1, <2>1, <2>2, <2>4
<1> QED BY <1>3, <1>4

\* Every call of the intended use keeps the inductive invariant.
LEMMA PromisedStep ==
  ASSUME IntendedUse, Promised, [Next]_vars
  PROVE  Promised'
<1>1. TypeOK' /\ TrackingExact' BY TypeStep, TrackStep DEF Promised, AsIntended
<1>2. ASSUME NEW fd \in Fd, NEW p \in Path, NEW fl \in Flags, open(fd, p, fl)
      PROVE  AsIntended' /\ AlwaysTranslated'
  BY <1>2, OpenPromised
<1>3. ASSUME NEW fd \in Fd, NEW n \in ReadSizes, read(fd, n)
      PROVE  AsIntended' /\ AlwaysTranslated'
  <2>1. PICK pos \in Nat : pos >= FILE_HEADER_POLL_SIZE /\ SetPos(fd, pos)
    BY <1>3, ReadIntended
  <2>2. fd \in OpenFds BY <1>3, ReadIntended
  <2>3. UNCHANGED <<disk, exists, leftover, fdt, file_info_list, protected>>
    BY <1>3 DEF read
  <2>4. Sealed(disk[File(fd)]) BY <2>2 DEF Promised, AlwaysTranslated
  <2> QED BY <2>1, <2>2, <2>3, <2>4, MovedPromised
<1>4. ASSUME NEW fd \in Fd, NEW d \in Payloads, write(fd, d)
      PROVE  AsIntended' /\ AlwaysTranslated'
  <2>1. /\ fd \in OpenFds /\ SetPos(fd, Pos(fd) + Len(d)) /\ d \in Seq(Cell) /\ Len(d) > 0
        /\ UNCHANGED <<exists, leftover, fdt, file_info_list, protected>>
    BY <1>4, WriteIntended
  <2>2. PICK t \in Seq(Cell) : Sealed(t) /\ disk' = [disk EXCEPT ![File(fd)] = t]
    BY <1>4, WriteIntended
  <2>3. /\ Pos(fd) \in Nat /\ Pos(fd) >= FILE_HEADER_POLL_SIZE
        /\ File(fd) \in Path /\ disk \in [Path -> Seq(Cell)]
    BY <2>1, OpenFd DEF Promised, AlwaysTranslated, TypeOK
  <2>4. /\ \A q \in Path \ {File(fd)} : disk'[q] = disk[q]
        /\ Sealed(disk'[File(fd)])
    BY <2>2, <2>3
  <2> DEFINE pos == Pos(fd) + Len(d)
  <2>5. pos \in Nat /\ pos >= FILE_HEADER_POLL_SIZE
    <3>1. Len(d) \in Nat BY <2>1
    <3> QED BY <2>3, <3>1, HeaderSize
  <2>6. SetPos(fd, pos) BY <2>1
  <2> HIDE DEF pos
  <2> QED BY <2>1, <2>4, <2>5, <2>6, MovedPromised
<1>5. ASSUME NEW fd \in Fd, NEW w \in RawWrites, pwrite(fd, w[1], w[2]) PROVE FALSE
  BY DEF IntendedUse
<1>6. ASSUME NEW fd \in Fd, close(fd) PROVE AsIntended' /\ AlwaysTranslated'
  BY <1>6, ClosePromised
<1>7. ASSUME NEW fd \in Fd, NEW new \in Fd, dup(fd, new) PROVE FALSE
  BY <1>7 DEF dup, IntendedUse
<1>8. ASSUME NEW fd \in Fd, NEW sk \in Seeks, lseek(fd, sk[1], sk[2])
      PROVE  AsIntended' /\ AlwaysTranslated'
  <2>1. PICK pos \in 0..MaxLen : pos >= FILE_HEADER_POLL_SIZE /\ SetPos(fd, pos)
    BY <1>8, SeekIntended
  <2>2. fd \in OpenFds /\ pos \in Nat BY <1>8, LinkerAssumption, SeekIntended
  <2>3. UNCHANGED <<disk, exists, leftover, fdt, file_info_list, protected>>
    BY <1>8 DEF lseek
  <2>4. Sealed(disk[File(fd)]) BY <2>2 DEF Promised, AlwaysTranslated
  <2> QED BY <2>1, <2>2, <2>3, <2>4, MovedPromised
<1>9. ASSUME NEW fd \in Fd, mmap(fd) PROVE FALSE BY <1>9 DEF mmap, IntendedUse
<1>10. ~ SetDomainState BY DEF SetDomainState, IntendedUse
<1>11. CASE UNCHANGED vars
  <2>1. UNCHANGED <<disk, exists, leftover, fdt, ofd, file_info_list, protected>>
    BY <1>11 DEF vars
  <2>2. OpenFds' = OpenFds BY <2>1 DEF OpenFds
  <2>3. AsIntended' BY <2>1, <2>2 DEF Promised, AsIntended, App
  <2>4. AlwaysTranslated'
    BY <2>1, <2>2 DEF Promised, AlwaysTranslated, Tracked, File, Pos
  <2> QED BY <1>1, <2>3, <2>4 DEF Promised
<1>12. CASE Next
  <2>1. AsIntended' /\ AlwaysTranslated'
    BY <1>2, <1>3, <1>4, <1>5, <1>6, <1>7, <1>8, <1>9, <1>10, <1>12 DEF Next
  <2> QED BY <1>1, <2>1 DEF Promised
<1> QED BY <1>1, <1>11, <1>12 DEF Promised
\* Before the first call no file is open.
LEMMA PromisedInit ==
  ASSUME IntendedUse, TypeOK, Init
  PROVE  Promised
<1>1. OpenFds = {} /\ file_info_list = <<>> /\ protected BY DEF Init, OpenFds
<1>2. leftover = {} BY DEF Init, IntendedUse
<1>3. Cardinality(OpenFds) <= MaxOpen
  <2>1. Cardinality(OpenFds) = 0 BY <1>1, FS_EmptySet
  <2> QED BY <2>1, LinkerAssumption
<1>4. \A p \in Path : p \in exists <=> disk[p] # <<>> BY DEF Init, IntendedUse
<1>5. TrackingExact BY <1>1 DEF TrackingExact
<1>6. AsIntended BY <1>1, <1>2, <1>3, <1>4 DEF AsIntended
<1>7. AlwaysTranslated BY <1>1 DEF AlwaysTranslated
<1> QED BY <1>5, <1>6, <1>7 DEF Promised

\* Used as intended, the layer never lets go of a file.  On its own this is not
\* inductive: that close leaves the other descriptors recorded rests on a true list
\* with one entry for each, that open finds the file in order on there being no
\* empty file and no unfinished rebuild, and the rest on encryption staying on.
THEOREM NeverLetsGo == IntendedUse => (Spec => []AlwaysTranslated)
<1> SUFFICES ASSUME IntendedUse PROVE Spec => []AlwaysTranslated OBVIOUS
<1>1. TypeOK /\ Init => Promised BY PromisedInit
<1>2. Promised /\ [Next]_vars => Promised' BY PromisedStep
<1>3. Promised => AlwaysTranslated BY DEF Promised
<1> QED BY <1>1, <1>2, <1>3, TypeCorrect, PTL DEF Spec
-----------------------------------------------------------------------------
(* The promise, step by step.                                              *)

\* The handle an open descriptor stands for.
LEMMA HandleOf ==
  ASSUME TypeOK, NEW fd \in OpenFds
  PROVE  /\ fdt[fd] \in Fd /\ InUse(fdt[fd])
         /\ handle[fdt[fd]] = [path |-> File(fd), at |-> Pos(fd) - FILE_HEADER_POLL_SIZE]
         /\ handle[fdt[fd]].path = File(fd)
         /\ handle[fdt[fd]].at = Pos(fd) - FILE_HEADER_POLL_SIZE
         /\ handle[fdt[fd]] # Plain!Closed
<1>1. fd \in Fd /\ fdt[fd] \in Fd /\ File(fd) \in Path BY OpenFd
<1>2. InUse(fdt[fd]) BY <1>1 DEF InUse
<1>3. handle[fdt[fd]] = [path |-> File(fd), at |-> Pos(fd) - FILE_HEADER_POLL_SIZE]
  BY <1>1, <1>2 DEF handle, File, Pos
<1>4. Plain!Closed.path = NoPath BY DEF Plain!Closed
<1>5. handle[fdt[fd]].path = File(fd) BY <1>3
<1>6. handle[fdt[fd]].at = Pos(fd) - FILE_HEADER_POLL_SIZE
  <2> DEFINE at == Pos(fd) - FILE_HEADER_POLL_SIZE
  <2>1. handle[fdt[fd]] = [path |-> File(fd), at |-> at] BY <1>3
  <2> HIDE DEF at
  <2>2. handle[fdt[fd]].at = at BY <2>1
  <2> QED BY <2>2 DEF at
<1>7. handle[fdt[fd]] # Plain!Closed BY <1>1, <1>4, <1>5, LinkerAssumption
<1> QED BY <1>1, <1>2, <1>3, <1>5, <1>6, <1>7

\* A call that moves the offset of a descriptor moves its handle.
LEMMA HandleMoved ==
  ASSUME TypeOK, NEW fd \in OpenFds, NEW pos \in Nat, SetPos(fd, pos), UNCHANGED fdt
  PROVE  handle' = [handle EXCEPT ![fdt[fd]].at = pos - FILE_HEADER_POLL_SIZE]
<1> DEFINE h == FILE_HEADER_POLL_SIZE
           o == fdt[fd]
           at == pos - h
           new == [handle EXCEPT ![o].at = at]
<1>1. o \in Fd /\ InUse(o) /\ handle[o] = [path |-> File(fd), at |-> Pos(fd) - h]
  BY HandleOf
<1>2. /\ ofd'[o].pos = pos /\ ofd'[o].path = File(fd)
      /\ \A x \in Fd \ {o} : ofd'[x] = ofd[x]
  BY <1>1, OffsetMoved DEF File
<1>3. \A x : InUse(x)' <=> InUse(x) BY DEF InUse
<1>4. handle' = [x \in Fd |-> IF InUse(x)'
                              THEN [path |-> ofd'[x].path, at |-> ofd'[x].pos - h]
                              ELSE [path |-> NoPath, at |-> 0]]
  BY DEF handle
<1>5. handle'[o] = [path |-> File(fd), at |-> at] BY <1>1, <1>2, <1>3, <1>4
<1>6. ASSUME NEW x \in Fd \ {o} PROVE handle'[x] = handle[x]
  <2>1. ofd'[x] = ofd[x] BY <1>2
  <2> QED BY <1>3, <1>4, <2>1 DEF handle
<1>7. /\ handle = [x \in Fd |-> handle[x]] /\ handle' = [x \in Fd |-> handle'[x]]
  BY DEF handle
<1>8. new = [x \in Fd |-> IF x = o THEN [handle[o] EXCEPT !.at = at] ELSE handle[x]]
  BY <1>1, <1>7
<1>9. [handle[o] EXCEPT !.at = at] = [path |-> File(fd), at |-> at]
  <2> HIDE DEF at
  <2> DEFINE b == Pos(fd) - h
  <2>1. handle[o] = [path |-> File(fd), at |-> b] BY <1>1
  <2> HIDE DEF b
  <2> QED BY <2>1
<1> HIDE DEF new, at, o
<1>10. \A x \in Fd : handle'[x] = IF x = o THEN [handle[o] EXCEPT !.at = at] ELSE handle[x]
  BY <1>5, <1>6, <1>9
<1>11. handle' = new BY <1>7, <1>8, <1>10, Zenon
<1> QED BY <1>11 DEF new, at, o

\* open is Open of an unused handle: the contents shown do not change, whether the
\* file was encrypted, is rebuilt by the call or is created by it.
LEMMA PlainOpen ==
  ASSUME IntendedUse, Promised, NEW fd \in Fd, NEW p \in Path, NEW fl \in Flags,
         open(fd, p, fl)
  PROVE  \E o \in Fd : Plain!Open(o, p)
<1> DEFINE h == FILE_HEADER_POLL_SIZE
<1>1. TypeOK /\ h \in Nat BY HeaderSize DEF Promised
<1>2. fd \in Fd \ OpenFds /\ KernelOpen(fd, p, fl, h) BY OpenIntended
<1>3. PICK new \in Seq(Cell) : /\ PlainView(new) = PlainView(disk[p])
                               /\ disk' = [disk EXCEPT ![p] = new]
  BY OpenIntended
<1> HIDE DEF h
<1>4. PICK o \in Fd :
        /\ ~ InUse(o)
        /\ fdt' = [fdt EXCEPT ![fd] = o]
        /\ ofd' = [ofd EXCEPT ![o] = [path |-> p, pos |-> h,
                                      acc |-> fl.acc, app |-> fl.append]]
        /\ exists' = exists \cup {p}
        /\ fdt'[fd] = o
  BY <1>1, <1>2, OpenedDescriptors
<1>5. content' = content
  <2>1. \A q \in Path : PlainView(disk'[q]) = PlainView(disk[q])
    BY <1>1, <1>3 DEF TypeOK
  <2> QED BY <2>1 DEF content
<1>6. handle[o] = Plain!Closed BY <1>4 DEF handle, Plain!Closed
<1>7. ofd \in [Fd -> Ofd] /\ fdt \in [Fd -> Fd \cup {0}] BY <1>1 DEF TypeOK, Ofd
<1>8. /\ ofd'[o] = [path |-> p, pos |-> h, acc |-> fl.acc, app |-> fl.append]
      /\ \A x \in Fd \ {o} : ofd'[x] = ofd[x]
  BY <1>4, <1>7
<1>9. \A x \in Fd \ {o} : InUse(x)' <=> InUse(x)
  <2>1. fdt[fd] = 0 BY <1>2 DEF OpenFds
  <2>2. \A g \in Fd \ {fd} : fdt'[g] = fdt[g] BY <1>4, <1>7
  <2>3. \A x \in Fd : x # 0 BY LinkerAssumption
  <2> QED BY <1>4, <2>1, <2>2, <2>3 DEF InUse
<1>10. InUse(o)' BY <1>4 DEF InUse
<1>11. handle' = [x \in Fd |-> IF InUse(x)'
                               THEN [path |-> ofd'[x].path, at |-> ofd'[x].pos - h]
                               ELSE [path |-> NoPath, at |-> 0]]
  BY DEF handle, h
<1>12. handle'[o] = [path |-> p, at |-> 0]
  <2>1. ofd'[o].path = p /\ ofd'[o].pos - h = 0 BY <1>1, <1>8
  <2> QED BY <1>10, <1>11, <2>1
<1>13. ASSUME NEW x \in Fd \ {o} PROVE handle'[x] = handle[x]
  <2>1. ofd'[x] = ofd[x] /\ (InUse(x)' <=> InUse(x)) BY <1>8, <1>9
  <2> QED BY <1>11, <2>1 DEF handle, h
<1>14. handle' = [handle EXCEPT ![o] = [path |-> p, at |-> 0]]
  <2>1. /\ handle = [x \in Fd |-> handle[x]] /\ handle' = [x \in Fd |-> handle'[x]]
    BY DEF handle
  <2>2. [handle EXCEPT ![o] = [path |-> p, at |-> 0]]
          = [x \in Fd |-> IF x = o THEN [path |-> p, at |-> 0] ELSE handle[x]]
    BY <2>1
  <2> QED BY <1>12, <1>13, <2>1, <2>2, Zenon
<1> QED BY <1>4, <1>5, <1>6, <1>14 DEF Plain!Open
\* close is Close of the handle.
LEMMA PlainClose ==
  ASSUME Promised, NEW fd \in Fd, close(fd)
  PROVE  \E o \in Fd : Plain!Close(o)
<1>0. PICK o : o = fdt[fd] OBVIOUS
<1>1. TypeOK BY DEF Promised
<1>2. /\ fd \in OpenFds /\ OpenFds' = OpenFds \ {fd}
      /\ fdt' = [fdt EXCEPT ![fd] = 0]
      /\ ofd' = [ofd EXCEPT ![o] = Unused]
      /\ \A g \in OpenFds \ {fd} : fdt'[g] = fdt[g] /\ fdt[g] # o
      /\ UNCHANGED <<disk, exists>>
  BY <1>0, CloseIntended
<1>3. o \in Fd /\ handle[o] # Plain!Closed BY <1>0, <1>1, <1>2, HandleOf
<1>4. content' = content BY <1>2 DEF content
<1>5. ofd \in [Fd -> Ofd] /\ fdt \in [Fd -> Fd \cup {0}] /\ fd \in Fd
  BY <1>1 DEF TypeOK, Ofd
<1>6. \A x \in Fd \ {o} : ofd'[x] = ofd[x] BY <1>2, <1>3, <1>5
<1>7. fdt'[fd] = 0 /\ \A g \in Fd \ {fd} : fdt'[g] = fdt[g] BY <1>2, <1>5
<1>8. \A x \in Fd : x # 0 BY LinkerAssumption
<1>9. ~ InUse(o)'
  <2> SUFFICES ASSUME NEW g \in Fd, fdt'[g] = o PROVE FALSE BY DEF InUse
  <2>1. g # fd BY <1>3, <1>7, <1>8
  <2>2. g \in OpenFds \ {fd} BY <1>3, <1>7, <1>8, <2>1 DEF OpenFds
  <2> QED BY <1>2, <2>2
<1>10. \A x \in Fd \ {o} : InUse(x)' <=> InUse(x)
  <2>1. fdt[fd] = o BY <1>0
  <2> QED BY <1>7, <1>8, <2>1 DEF InUse
<1>11. handle'[o] = Plain!Closed BY <1>3, <1>9 DEF handle, Plain!Closed
<1>12. ASSUME NEW x \in Fd \ {o} PROVE handle'[x] = handle[x]
  <2>1. ofd'[x] = ofd[x] /\ (InUse(x)' <=> InUse(x)) BY <1>6, <1>10
  <2> QED BY <2>1 DEF handle
<1>13. handle' = [handle EXCEPT ![o] = Plain!Closed]
  <2>1. /\ handle = [x \in Fd |-> handle[x]] /\ handle' = [x \in Fd |-> handle'[x]]
    BY DEF handle
  <2>2. [handle EXCEPT ![o] = Plain!Closed]
          = [x \in Fd |-> IF x = o THEN Plain!Closed ELSE handle[x]]
    BY <2>1
  <2> QED BY <1>11, <1>12, <2>1, <2>2, Zenon
<1> QED BY <1>2, <1>3, <1>4, <1>13 DEF Plain!Close

\* read is Read of the handle; through a write-only descriptor it fails.
LEMMA PlainRead ==
  ASSUME IntendedUse, Promised, NEW fd \in Fd, NEW n \in ReadSizes, read(fd, n)
  PROVE  (\E o \in Fd : Plain!Read(o, n)) \/ UNCHANGED <<exists, content, handle>>
<1> DEFINE h == FILE_HEADER_POLL_SIZE
           s == disk[File(fd)]
           o == fdt[fd]
           at == Pos(fd) - h
           view == PlainView(s)
<1>1. TypeOK /\ h \in Nat /\ fd \in OpenFds BY HeaderSize, ReadIntended DEF Promised
<1>2. PICK pos \in Nat :
        /\ pos = IF Acc(fd) = "w" THEN Pos(fd) ELSE Pos(fd) + Len(Window(s, Pos(fd), n))
        /\ SetPos(fd, pos)
  BY ReadIntended
<1>3. UNCHANGED <<disk, exists, fdt>> BY DEF read
<1>4. content' = content BY <1>3 DEF content
<1>5. handle' = [handle EXCEPT ![o].at = pos - h] BY <1>1, <1>2, <1>3, HandleMoved
<1>6. /\ o \in Fd /\ handle[o] # Plain!Closed
      /\ handle[o].path = File(fd) /\ handle[o].at = at
      /\ handle[o] = [path |-> File(fd), at |-> at]
  BY <1>1, HandleOf
<1>7. /\ Sealed(s) /\ Pos(fd) >= h /\ Pos(fd) \in Nat /\ s \in Seq(Cell) /\ n \in Nat
      /\ File(fd) \in Path
  BY <1>1, OpenFd, LinkerAssumption DEF Promised, AlwaysTranslated
<1>8. content[handle[o].path] = view BY <1>6, <1>7 DEF content
<1>9. Len(view) = Len(s) - h /\ Len(s) \in Nat /\ Len(s) >= h
  BY <1>7, PlainViewLength DEF Sealed, is_encrypted_by_file_header
<1>10. CASE Acc(fd) = "w"
  <2>1. pos - h = at BY <1>2, <1>10
  <2>2. handle = [x \in Fd |-> handle[x]] BY DEF handle
  <2> HIDE DEF o, at
  <2>3. [handle EXCEPT ![o].at = at] = handle BY <1>6, <2>2
  <2> QED BY <1>3, <1>4, <1>5, <2>1, <2>3
<1>11. CASE Acc(fd) # "w"
  <2> DEFINE w == Window(s, Pos(fd), n)
  <2>1. Len(w) = IF Pos(fd) >= Len(s) THEN 0 ELSE Smaller(n, Len(s) - Pos(fd))
    BY <1>7, WindowAt
  <2>2. pos = Pos(fd) + Len(w) BY <1>2, <1>11
  <2> HIDE DEF w, h, view, s
  <2>3. Len(w) = Plain!Delivered(view, at, n)
    <3>1. CASE Pos(fd) >= Len(s)
      BY <1>1, <1>7, <1>9, <2>1, <3>1 DEF Plain!Delivered, Plain!Maximum
    <3>2. CASE Pos(fd) < Len(s)
      BY <1>1, <1>7, <1>9, <2>1, <3>2 DEF Plain!Delivered, Plain!Maximum, Smaller
    <3> QED BY <1>7, <1>9, <3>1, <3>2
  <2>4. Len(w) \in Nat BY <1>7, <1>9, <2>1 DEF Smaller
  <2>5. pos - h = at + Len(w) BY <1>1, <1>7, <2>2, <2>4
  <2>6. pos - h = handle[o].at + Plain!Delivered(content[handle[o].path], handle[o].at, n)
    <3> HIDE DEF at, o
    <3> QED BY <1>6, <1>8, <2>3, <2>5
  <2> HIDE DEF at, o
  <2>7. handle' = [handle EXCEPT ![o].at =
                     handle[o].at + Plain!Delivered(content[handle[o].path], handle[o].at, n)]
    BY <1>5, <2>6, Zenon
  <2>8. Plain!Read(o, n) BY <1>3, <1>4, <1>6, <2>7, Zenon DEF Plain!Read
  <2> QED BY <1>6, <2>8
<1> QED BY <1>10, <1>11

\* lseek is Seek of the handle, to an offset counted behind the header.
LEMMA PlainSeek ==
  ASSUME IntendedUse, Promised, NEW fd \in Fd, NEW sk \in Seeks, lseek(fd, sk[1], sk[2])
  PROVE  \E o \in Fd, at \in 0..MaxLen : Plain!Seek(o, at)
<1> DEFINE h == FILE_HEADER_POLL_SIZE
           o == fdt[fd]
<1>1. TypeOK /\ h \in Nat /\ fd \in OpenFds BY HeaderSize, SeekIntended DEF Promised
<1>2. PICK pos \in 0..MaxLen : pos >= h /\ SetPos(fd, pos) BY SeekIntended
<1>3. UNCHANGED <<disk, exists, fdt>> BY DEF lseek
<1>4. content' = content BY <1>3 DEF content
<1>5. pos \in Nat /\ MaxLen \in Nat BY LinkerAssumption
<1>6. handle' = [handle EXCEPT ![o].at = pos - h] BY <1>1, <1>2, <1>3, <1>5, HandleMoved
<1>7. o \in Fd /\ handle[o] # Plain!Closed BY <1>1, HandleOf
<1> HIDE DEF h, o
<1>8. pos - h \in 0..MaxLen /\ pos - h >= 0 BY <1>1, <1>2, <1>5
<1>9. Plain!Seek(o, pos - h) BY <1>3, <1>4, <1>6, <1>7, <1>8 DEF Plain!Seek
<1> QED BY <1>7, <1>8, <1>9
\* What is known of the text after a write is what an ordinary write promises.
LEMMA TextWritten ==
  ASSUME NEW old \in Seq(Cell), NEW new \in Seq(Cell), NEW at \in Nat, NEW d \in Seq(Cell),
         Len(new) = Larger(Len(old), at + Len(d)),
         \A k \in 1..Len(old) :
           \/ Complete(at) < k /\ k <= Complete(at + Len(d)) + Block
           \/ Complete(Len(old)) < k /\ Len(old) < at
           \/ new[k] = old[k],
         /\ at <= Len(old) /\ (at % Block = 0 \/ Complete(Len(old)) <= at)
         /\ (at + Len(d)) % Block = 0 \/ Complete(Len(old)) < at + Len(d)
         => \A k \in 1..Larger(Len(old), at + Len(d)) :
              new[k] = IF at < k /\ k <= at + Len(d) THEN d[k - at] ELSE old[k]
  PROVE  IF Plain!GoodStart(old, at) /\ Plain!GoodEnd(old, at + Len(d))
         THEN new = Plain!Written(old, at, d)
         ELSE Plain!Contained(old, new, at, at + Len(d))
<1>1. \A n : Plain!TailStart(n) = Complete(n) BY Zenon DEF Plain!TailStart, Complete
<1>2. \A a, b : Plain!Maximum(a, b) = Larger(a, b) BY Zenon DEF Plain!Maximum, Larger
<1>3. CASE Plain!GoodStart(old, at) /\ Plain!GoodEnd(old, at + Len(d))
  <2>1. \A k \in 1..Larger(Len(old), at + Len(d)) :
          new[k] = IF at < k /\ k <= at + Len(d) THEN d[k - at] ELSE old[k]
    BY <1>1, <1>3, Zenon DEF Plain!GoodStart, Plain!GoodEnd
  <2>2. new = [k \in 1..Larger(Len(old), at + Len(d)) |-> new[k]] OBVIOUS
  <2>3. Plain!Written(old, at, d)
          = [k \in 1..Larger(Len(old), at + Len(d)) |->
               IF at < k /\ k <= at + Len(d) THEN d[k - at] ELSE old[k]]
    BY <1>2, Zenon DEF Plain!Written
  <2> QED BY <1>3, <2>1, <2>2, <2>3, Zenon
<1>4. Plain!Contained(old, new, at, at + Len(d))
  BY <1>1, <1>2, Zenon DEF Plain!Contained
<1> QED BY <1>3, <1>4

\* write is Write of the handle: exact on good boundaries, contained otherwise.
LEMMA PlainWrite ==
  ASSUME IntendedUse, Promised, NEW fd \in Fd, NEW d \in Payloads, write(fd, d)
  PROVE  \E o \in Fd : Plain!Write(o, d)
<1> DEFINE h == FILE_HEADER_POLL_SIZE
           s == disk[File(fd)]
           o == fdt[fd]
           at == Pos(fd) - h
           pos == Pos(fd) + Len(d)
<1>1. TypeOK /\ h \in Nat BY HeaderSize DEF Promised
<1>2. /\ fd \in OpenFds /\ SetPos(fd, pos) /\ d \in Seq(Cell) /\ Len(d) > 0
      /\ UNCHANGED <<exists, fdt>>
  BY WriteIntended
<1>3. PICK t \in Seq(Cell) : \E prefix \in Seq(Cell) :
        /\ Sealed(t) /\ disk' = [disk EXCEPT ![File(fd)] = t]
        /\ BodyAfter(Body(s), at, d, prefix, Body(t))
  BY WriteIntended
<1>4. PICK prefix \in Seq(Cell) : BodyAfter(Body(s), at, d, prefix, Body(t)) BY <1>3
<1>5. /\ Sealed(s) /\ Pos(fd) >= h /\ Pos(fd) \in Nat /\ s \in Seq(Cell)
      /\ File(fd) \in Path
  BY <1>1, <1>2, OpenFd DEF Promised, AlwaysTranslated
<1>6. pos \in Nat /\ at \in Nat /\ pos - h = at + Len(d)
  <2>1. Len(d) \in Nat BY <1>2
  <2> HIDE DEF h
  <2> QED BY <1>1, <1>5, <2>1
<1>7. /\ o \in Fd /\ handle[o] # Plain!Closed
      /\ handle[o].path = File(fd) /\ handle[o].at = at
  BY <1>1, <1>2, HandleOf
<1>8. handle' = [handle EXCEPT ![o].at = pos - h]
  <2> HIDE DEF pos, o
  <2> QED BY <1>1, <1>2, <1>6, HandleMoved DEF o
<1>9. /\ content[File(fd)] = PlainView(s) /\ content'[File(fd)] = PlainView(t)
      /\ DOMAIN content' = Path
      /\ \A q \in Path \ {File(fd)} : content'[q] = content[q]
  <2>1. disk \in [Path -> Seq(Cell)] BY <1>1 DEF TypeOK
  <2>2. disk'[File(fd)] = t /\ \A q \in Path \ {File(fd)} : disk'[q] = disk[q]
    BY <1>3, <1>5, <2>1
  <2> QED BY <1>5, <2>2 DEF content
<1>10. /\ PlainView(s) = aes_decrypt(Body(s)) /\ PlainView(t) = aes_decrypt(Body(t))
       /\ Body(s) \in Seq(Cell)
  BY <1>3, <1>5, BodyCells
<1> DEFINE old == PlainView(s)
           new == PlainView(t)
<1>11. IF Plain!GoodStart(old, at) /\ Plain!GoodEnd(old, at + Len(d))
       THEN new = Plain!Written(old, at, d)
       ELSE Plain!Contained(old, new, at, at + Len(d))
  <2> DEFINE b == Body(s)
             c == Body(t)
  <2>1. /\ BodyAfter(b, at, d, prefix, c) /\ old = aes_decrypt(b) /\ new = aes_decrypt(c)
    BY <1>4, <1>10
  <2> HIDE DEF at, old, new, b, c
  <2>2. /\ aes_decrypt(b) \in Seq(Cell) /\ Len(aes_decrypt(b)) = Len(b)
        /\ aes_decrypt(c) \in Seq(Cell)
        /\ Len(aes_decrypt(c)) = Larger(Len(b), at + Len(d))
        /\ \A k \in 1..Len(b) :
             \/ Complete(at) < k /\ k <= Complete(at + Len(d)) + Block
             \/ Complete(Len(b)) < k /\ Len(b) < at
             \/ aes_decrypt(c)[k] = aes_decrypt(b)[k]
        /\ /\ at <= Len(b) /\ (at % Block = 0 \/ Complete(Len(b)) <= at)
           /\ (at + Len(d)) % Block = 0 \/ Complete(Len(b)) < at + Len(d)
           => \A k \in 1..Larger(Len(b), at + Len(d)) :
                aes_decrypt(c)[k]
                  = IF at < k /\ k <= at + Len(d) THEN d[k - at] ELSE aes_decrypt(b)[k]
    BY ONLY <2>1, BodyWritten
  <2>3. Len(b) = Len(old) BY <2>1, <2>2
  <2>4. old \in Seq(Cell) /\ new \in Seq(Cell) /\ Len(new) = Larger(Len(old), at + Len(d))
    BY <2>1, <2>2, <2>3
  <2>5. \A k \in 1..Len(old) :
          \/ Complete(at) < k /\ k <= Complete(at + Len(d)) + Block
          \/ Complete(Len(old)) < k /\ Len(old) < at
          \/ new[k] = old[k]
    BY <2>1, <2>2, <2>3, Zenon
  <2>6. /\ at <= Len(old) /\ (at % Block = 0 \/ Complete(Len(old)) <= at)
        /\ (at + Len(d)) % Block = 0 \/ Complete(Len(old)) < at + Len(d)
        => \A k \in 1..Larger(Len(old), at + Len(d)) :
             new[k] = IF at < k /\ k <= at + Len(d) THEN d[k - at] ELSE old[k]
    BY <2>1, <2>2, <2>3, Zenon
  <2> QED BY <1>2, <1>6, <2>4, <2>5, <2>6, TextWritten, Zenon
<1> DEFINE p == File(fd)
<1>12. handle' = [handle EXCEPT ![o].at = at + Len(d)]
  <2> HIDE DEF pos, h, o, at
  <2> QED BY <1>6, <1>8
<1>13. IF Plain!GoodStart(content[p], at) /\ Plain!GoodEnd(content[p], at + Len(d))
       THEN content'[p] = Plain!Written(content[p], at, d)
       ELSE Plain!Contained(content[p], content'[p], at, at + Len(d))
  <2> HIDE DEF old, new, at
  <2> QED BY <1>9, <1>11, Zenon DEF old, new
<1> HIDE DEF at, o, p, s
<1>14. Plain!Write(o, d)
  <2>1. handle[o].path = p /\ handle[o].at = at BY <1>7 DEF p
  <2>2. \A q \in Path \ {p} : content'[q] = content[q] BY <1>9 DEF p
  <2> QED BY <1>2, <1>7, <1>9, <1>12, <1>13, <2>1, <2>2, Zenon DEF Plain!Write
<1> QED BY <1>7, <1>14
\* Every call of the intended use is a call of the ordinary file system.
LEMMA PlainStep ==
  ASSUME IntendedUse, Promised, [Next]_vars
  PROVE  Plain!Next \/ UNCHANGED <<exists, content, handle>>
<1>1. ASSUME NEW fd \in Fd, NEW p \in Path, NEW fl \in Flags, open(fd, p, fl)
      PROVE  Plain!Next
  <2>1. PICK o \in Fd : Plain!Open(o, p) BY <1>1, PlainOpen
  <2> QED BY <2>1 DEF Plain!Next
<1>2. ASSUME NEW fd \in Fd, NEW n \in ReadSizes, read(fd, n)
      PROVE  Plain!Next \/ UNCHANGED <<exists, content, handle>>
  <2>1. CASE \E o \in Fd : Plain!Read(o, n) BY <2>1 DEF Plain!Next
  <2> QED BY <1>2, <2>1, PlainRead
<1>3. ASSUME NEW fd \in Fd, NEW d \in Payloads, write(fd, d) PROVE Plain!Next
  <2>1. PICK o \in Fd : Plain!Write(o, d) BY <1>3, PlainWrite
  <2> QED BY <2>1 DEF Plain!Next
<1>4. ASSUME NEW fd \in Fd, NEW w \in RawWrites, pwrite(fd, w[1], w[2]) PROVE FALSE
  BY DEF IntendedUse
<1>5. ASSUME NEW fd \in Fd, close(fd) PROVE Plain!Next
  <2>1. PICK o \in Fd : Plain!Close(o) BY <1>5, PlainClose
  <2> QED BY <2>1 DEF Plain!Next
<1>6. ASSUME NEW fd \in Fd, NEW new \in Fd, dup(fd, new) PROVE FALSE
  BY <1>6 DEF dup, IntendedUse
<1>7. ASSUME NEW fd \in Fd, NEW sk \in Seeks, lseek(fd, sk[1], sk[2]) PROVE Plain!Next
  <2>1. PICK o \in Fd, at \in 0..MaxLen : Plain!Seek(o, at) BY <1>7, PlainSeek
  <2> QED BY <2>1 DEF Plain!Next
<1>8. ASSUME NEW fd \in Fd, mmap(fd) PROVE FALSE BY <1>8 DEF mmap, IntendedUse
<1>9. ~ SetDomainState BY DEF SetDomainState, IntendedUse
<1>10. CASE UNCHANGED vars
  <2>1. UNCHANGED <<disk, exists, fdt, ofd>> BY <1>10 DEF vars
  <2>2. content' = content BY <2>1 DEF content
  <2>3. handle' = handle BY <2>1 DEF handle, InUse
  <2> QED BY <2>1, <2>2, <2>3
<1> QED BY <1>1, <1>2, <1>3, <1>4, <1>5, <1>6, <1>7, <1>8, <1>9, <1>10 DEF Next

\* Used as intended, the layer is an ordinary file system to the application, for
\* every header, block size and cipher and for every set of files, descriptors,
\* flags, counts, offsets and buffers: files show what was written to them before
\* and after they are rebuilt, offsets count from the first plain byte, and a write
\* is exact on good boundaries and contained in the blocks it touches otherwise.
THEOREM PromiseKept == IntendedUse => (Spec => KeepsPromise)
<1> SUFFICES ASSUME IntendedUse PROVE Spec => KeepsPromise OBVIOUS
<1>1. TypeOK /\ Init => Promised BY PromisedInit
<1>2. Promised /\ [Next]_vars => Promised' BY PromisedStep
<1>3. TypeOK /\ Init => Plain!Init
  <2> SUFFICES ASSUME TypeOK, Init PROVE Plain!Init OBVIOUS
  <2>1. exists \in SUBSET Path BY DEF TypeOK
  <2>2. content \in [Path -> Seq(Cell)]
    <3>1. \A p \in Path : PlainView(disk[p]) \in Seq(Cell) BY PlainViewType DEF TypeOK
    <3> QED BY <3>1 DEF content
  <2>3. \A o \in Fd : ~ InUse(o) BY LinkerAssumption DEF Init, InUse
  <2>4. handle = [o \in Fd |-> Plain!Closed] BY <2>3 DEF handle, Plain!Closed
  <2> QED BY <2>1, <2>2, <2>4 DEF Plain!Init
<1>4. Promised /\ [Next]_vars => [Plain!Next]_(Plain!vars)
  BY PlainStep DEF Plain!vars
<1> QED BY <1>1, <1>2, <1>3, <1>4, TypeCorrect, PTL DEF Spec, KeepsPromise, Plain!Spec
-----------------------------------------------------------------------------
(* fread, the call on streams (StreamRead.tla).                            *)

\* Two windows, one where the other ends, are one.
LEMMA WindowConcat ==
  ASSUME NEW s \in Seq(Cell), NEW a \in Nat, NEW n \in Nat, NEW m \in Nat
  PROVE  Window(s, a, n) \o Window(s, a + n, m) = Window(s, a, n + m)
<1> DEFINE u == Window(s, a, n)
           v == Window(s, a + n, m)
           w == Window(s, a, n + m)
<1>1. a + n \in Nat /\ n + m \in Nat /\ Len(s) \in Nat OBVIOUS
<1>2. /\ u \in Seq(Cell) /\ Len(u) = IF a >= Len(s) THEN 0 ELSE Smaller(n, Len(s) - a)
      /\ \A k \in 1..Len(u) : u[k] = s[a + k]
  BY WindowAt
<1>3. /\ v \in Seq(Cell)
      /\ Len(v) = IF a + n >= Len(s) THEN 0 ELSE Smaller(m, Len(s) - (a + n))
      /\ \A k \in 1..Len(v) : v[k] = s[(a + n) + k]
  BY <1>1, WindowAt
<1>4. /\ w \in Seq(Cell) /\ Len(w) = IF a >= Len(s) THEN 0 ELSE Smaller(n + m, Len(s) - a)
      /\ \A k \in 1..Len(w) : w[k] = s[a + k]
  BY <1>1, WindowAt
<1> HIDE DEF u, v, w
<1>5. /\ u \o v \in Seq(Cell) /\ Len(u \o v) = Len(u) + Len(v)
      /\ \A i \in 1..Len(u) + Len(v) :
           (u \o v)[i] = IF i <= Len(u) THEN u[i] ELSE v[i - Len(u)]
  BY <1>2, <1>3, ConcatProperties
<1>6. Len(w) = Len(u) + Len(v) /\ (Len(v) > 0 => Len(u) = n)
  <2>1. /\ Len(u) = IF a >= Len(s) THEN 0 ELSE Smaller(n, Len(s) - a)
        /\ Len(v) = IF a + n >= Len(s) THEN 0 ELSE Smaller(m, Len(s) - (a + n))
        /\ Len(w) = IF a >= Len(s) THEN 0 ELSE Smaller(n + m, Len(s) - a)
    BY <1>2, <1>3, <1>4
  <2>2. CASE a + n >= Len(s)
    <3>1. Len(v) = 0 BY <2>1, <2>2
    <3>2. Len(u) = Len(w) BY <1>1, <2>1, <2>2 DEF Smaller
    <3> QED BY <1>2, <3>1, <3>2
  <2>3. CASE a + n < Len(s)
    <3>1. Len(u) = n BY <1>1, <2>1, <2>3 DEF Smaller
    <3>2. Len(w) = n + Len(v) BY <1>1, <2>1, <2>3 DEF Smaller
    <3> QED BY <3>1, <3>2
  <2> QED BY <1>1, <2>2, <2>3
<1>7. \A i \in 1..Len(w) : (u \o v)[i] = w[i]
  <2> SUFFICES ASSUME NEW i \in 1..Len(w) PROVE (u \o v)[i] = w[i] OBVIOUS
  <2>1. Len(u) \in Nat /\ Len(v) \in Nat /\ Len(w) \in Nat BY <1>2, <1>3, <1>4
  <2>4. i \in Nat BY <2>1
  <2>2. CASE i <= Len(u)
    <3>1. i \in 1..Len(u) /\ i \in 1..Len(u) + Len(v) BY <2>1, <2>2
    <3> QED BY <1>2, <1>4, <1>5, <2>2, <3>1
  <2>3. CASE i > Len(u)
    <3> DEFINE k == i - Len(u)
    <3>1. k \in 1..Len(v) /\ i \in 1..Len(u) + Len(v) BY <1>6, <2>1, <2>3
    <3>2. Len(u) = n BY <1>6, <2>1, <3>1
    <3>3. (a + n) + k = a + i BY <3>2
    <3>4. (u \o v)[i] = v[k] BY <1>5, <2>1, <2>3, <3>1
    <3> HIDE DEF k
    <3>5. v[k] = s[a + i] BY <1>3, <3>1, <3>3
    <3> QED BY <1>4, <3>4, <3>5
  <2> QED
    <3>1. i <= Len(u) \/ i > Len(u) BY <2>1, <2>4
    <3> QED BY <2>2, <2>3, <3>1
<1>8. u \o v = w BY <1>4, <1>5, <1>6, <1>7, SeqEqual
<1> QED BY <1>8 DEF u, v, w

-----------------------------------------------------------------------------
(* Where the stream stands in the text: behind the header of an encrypted  *)
(* file, or at its beginning as long as it stands inside the header.       *)

Here == IF Sealed(file) THEN Start(position) - FILE_HEADER_POLL_SIZE ELSE position

\* The inductive invariant: what has been delivered since the last fseek is the
\* text from where the stream stood then to where it stands now.
Delivered ==
  is_encrypted_by_file_header(file) # "other" =>
    /\ began <= Here
    /\ got = Window(PlainView(file), began, Here - began)

StreamInv == /\ file \in Seq(Cell) /\ position \in Nat /\ began \in Nat
        /\ Delivered

\* Nothing is nothing, wherever it is read.
LEMMA WindowNone ==
  ASSUME NEW s \in Seq(Cell), NEW a \in Nat
  PROVE  Window(s, a, 0) = <<>>
<1>1. /\ Window(s, a, 0) \in Seq(Cell)
      /\ Len(Window(s, a, 0)) = IF a >= Len(s) THEN 0 ELSE Smaller(0, Len(s) - a)
  BY WindowAt
<1>2. Len(Window(s, a, 0)) = 0 BY <1>1 DEF Smaller
<1> HIDE DEF Smaller
<1> QED BY <1>1, <1>2, EmptySeq

\* A read that asks for what the file has delivers the same.
LEMMA WindowClip ==
  ASSUME NEW s \in Seq(Cell), NEW a \in Nat, NEW n \in Nat
  PROVE  Window(s, a, n) = Window(s, a, Len(Window(s, a, n)))
<1> DEFINE u == Window(s, a, n)
           m == Len(u)
           v == Window(s, a, m)
<1>1. /\ u \in Seq(Cell) /\ Len(u) = IF a >= Len(s) THEN 0 ELSE Smaller(n, Len(s) - a)
      /\ \A k \in 1..Len(u) : u[k] = s[a + k]
  BY WindowAt
<1>2. m \in Nat BY <1>1
<1> HIDE DEF u
<1>3. /\ v \in Seq(Cell) /\ Len(v) = IF a >= Len(s) THEN 0 ELSE Smaller(m, Len(s) - a)
      /\ \A k \in 1..Len(v) : v[k] = s[a + k]
  BY <1>2, WindowAt
<1> HIDE DEF v
<1>4. Len(v) = Len(u) BY <1>1, <1>2, <1>3 DEF Smaller
<1>5. u = v BY <1>1, <1>3, <1>4, SeqEqual
<1> QED BY <1>5 DEF u, v

-----------------------------------------------------------------------------
\* Nothing has been read yet, from the beginning of the text.
LEMMA DeliveredInit == StreamInit => StreamInv
<1> SUFFICES ASSUME StreamInit PROVE StreamInv OBVIOUS
<1>1. file \in Seq(Cell) /\ position = 0 /\ began = 0 /\ got = <<>>
  BY StreamReadAssumption DEF StreamInit
<1>2. Here = 0 BY <1>1, HeaderSize DEF Here, Start
<1>3. got = Window(PlainView(file), began, Here - began)
  BY <1>1, <1>2, PlainViewType, WindowNone
<1> QED BY <1>1, <1>2, <1>3 DEF StreamInv, Delivered

\* After fseek nothing has been delivered yet.
LEMMA FseekDelivers ==
  ASSUME StreamInv, NEW target \in Targets, fseek(target)
  PROVE  StreamInv'
<1>1. /\ file \in Seq(Cell) /\ file' = file /\ position' = target /\ target \in Nat /\ got' = <<>>
      /\ began' = IF Sealed(file) /\ target >= FILE_HEADER_POLL_SIZE
                  THEN target - FILE_HEADER_POLL_SIZE ELSE target
  BY StreamReadAssumption DEF StreamInv, fseek
<1>2. FILE_HEADER_POLL_SIZE \in Nat BY HeaderSize
<1>3. Here' = IF Sealed(file) THEN Start(target) - FILE_HEADER_POLL_SIZE ELSE target
  BY <1>1, Zenon DEF Here
<1>4. began' \in Nat /\ Here' = began' BY <1>1, <1>2, <1>3 DEF Start
<1>5. Here' - began' = 0
  <2>1. \A x \in Nat : x - x = 0 OBVIOUS
  <2> QED BY <1>4, <2>1, Zenon
<1>6. got' = Window(PlainView(file'), began', Here' - began')
  BY <1>1, <1>4, <1>5, PlainViewType, WindowNone
<1> QED BY <1>1, <1>4, <1>6 DEF StreamInv, Delivered

\* A translated fread continues the text where the stream stands in it.
LEMMA FreadTranslatedDelivers ==
  ASSUME StreamInv, NEW count \in Counts, fread(count), fread_translated(count)
  PROVE  StreamInv'
<1> DEFINE h == FILE_HEADER_POLL_SIZE
           text == PlainView(file)
           at == Start(position)
<1>1. /\ file \in Seq(Cell) /\ position \in Nat /\ began \in Nat /\ count \in Nat
      /\ file' = file /\ began' = began /\ got' = got \o result' /\ position' = at + count
  BY StreamReadAssumption DEF StreamInv, fread, fread_translated, After
<1>2. h \in Nat BY HeaderSize
<1>3. at \in Nat /\ at >= h /\ position' \in Nat BY <1>1, <1>2 DEF Start
<1>4. Delivered'
  <2> SUFFICES ASSUME is_encrypted_by_file_header(file) # "other"
               PROVE  began <= Here' /\ got' = Window(text, began, Here' - began)
    BY <1>1 DEF Delivered
  <2>1. Sealed(file)
    BY DEF fread_translated, is_encrypted_by_stream, Sealed, is_encrypted_by_file_header
  <2>2. result' = Window(text, at - h, count)
    <3>1. result' = Collected(at % Block, count, Window(file, at - (at % Block), at % Block),
                              Window(file, at, count),
                              Window(file, at + count, Block - ((at + count) % Block)))
      BY DEF fread_translated
    <3> QED BY <1>1, <1>3, <2>1, <3>1, CollectedExact
  <2>3. Here = at - h /\ Here \in Nat BY <1>2, <1>3, <2>1 DEF Here
  <2>4. Here' = Here + count
    <3>1. Start(position') = position' BY <1>1, <1>2, <1>3 DEF Start
    <3>2. Here' = position' - h BY <1>1, <2>1, <3>1 DEF Here
    <3> HIDE DEF at, h
    <3> QED BY <1>1, <1>2, <1>3, <2>3, <3>2
  <2>5. began <= Here /\ got = Window(text, began, Here - began) BY DEF StreamInv, Delivered
  <2>6. /\ Here - began \in Nat /\ began + (Here - began) = at - h
        /\ Here' - began = (Here - began) + count /\ began <= Here'
    <3>1. began \in Nat /\ count \in Nat /\ began <= Here /\ Here = at - h /\ Here \in Nat
      BY <1>1, <2>3, <2>5
    <3> DEFINE x == Here
               y == Here'
               z == at - h
    <3>2. x \in Nat /\ y = x + count /\ began <= x /\ x = z BY <2>4, <3>1
    <3> HIDE DEF x, y, z
    <3>3. x - began \in Nat /\ began + (x - began) = z /\ y - began = (x - began) + count
          /\ began <= y
      BY <3>1, <3>2
    <3> QED BY <3>3 DEF x, y, z
  <2>7. Window(text, began, Here - began) \o Window(text, began + (Here - began), count)
          = Window(text, began, (Here - began) + count)
    <3> HIDE DEF text
    <3>1. text \in Seq(Cell) BY <1>1, PlainViewType DEF text
    <3> DEFINE x == Here - began
    <3>2. began \in Nat /\ count \in Nat /\ x \in Nat BY <1>1, <2>6
    <3> HIDE DEF x
    <3>3. Window(text, began, x) \o Window(text, began + x, count)
            = Window(text, began, x + count)
      BY <3>1, <3>2, WindowConcat, ZenonT(40)
    <3> QED BY <3>3 DEF x
  <2> QED BY <1>1, <2>2, <2>5, <2>6, <2>7
<1> QED BY <1>1, <1>3, <1>4 DEF StreamInv

\* An fread of a plain file does, too.
LEMMA FreadPlainDelivers ==
  ASSUME StreamInv, NEW count \in Counts, fread(count), fread_plain(count)
  PROVE  StreamInv'
<1>1. /\ file \in Seq(Cell) /\ position \in Nat /\ began \in Nat /\ count \in Nat
      /\ file' = file /\ began' = began /\ got' = got \o result'
      /\ result' = Window(file, position, count) /\ position' = position + Len(result')
  BY StreamReadAssumption DEF StreamInv, fread, fread_plain
<1>2. ~ Sealed(file) /\ PlainView(file) = file /\ is_encrypted_by_file_header(file) # "other"
  BY DEF fread_plain, is_encrypted_by_stream, Sealed, PlainView
<1>3. Len(result') \in Nat BY <1>1, WindowType
<1>4. Here = position /\ Here' = position' BY <1>1, <1>2 DEF Here
<1>5. began <= position /\ got = Window(file, began, position - began)
  BY <1>2, <1>4 DEF StreamInv, Delivered
<1>6. result' = Window(file, position, Len(result')) BY <1>1, WindowClip
<1>7. /\ position - began \in Nat /\ began + (position - began) = position
      /\ position' - began = (position - began) + Len(result') /\ began <= position' /\ position' \in Nat
  <2>1. position' = position + Len(result') /\ position \in Nat /\ began \in Nat BY <1>1
  <2>2. began <= position BY <1>5
  <2> QED BY <1>3, <2>1, <2>2
<1>8. got' = Window(file, began, position' - began)
  <2> DEFINE n == position - began
             m == Len(result')
  <2>1. n \in Nat /\ began + n = position /\ position' - began = n + m BY <1>7
  <2>2. got = Window(file, began, n) BY <1>5
  <2>3. result' = Window(file, began + n, m) BY <1>6, <2>1, Zenon
  <2>4. got' = got \o result' /\ file \in Seq(Cell) /\ began \in Nat /\ m \in Nat BY <1>1, <1>3
  <2> HIDE DEF n, m
  <2>5. Window(file, began, n) \o Window(file, began + n, m) = Window(file, began, n + m)
    BY <2>1, <2>4, WindowConcat
  <2> QED BY <2>1, <2>2, <2>3, <2>4, <2>5, Zenon
<1> QED BY <1>1, <1>2, <1>4, <1>7, <1>8 DEF StreamInv, Delivered

\* Every call on the stream keeps the invariant.
LEMMA DeliveredStep == StreamInv /\ [StreamNext]_streamVars => StreamInv'
<1> SUFFICES ASSUME StreamInv, [StreamNext]_streamVars PROVE StreamInv' OBVIOUS
<1>1. CASE Fread
  <2>1. PICK count \in Counts : fread(count) BY <1>1 DEF Fread
  <2> QED BY <2>1, FreadTranslatedDelivers, FreadPlainDelivers DEF fread
<1>2. ASSUME NEW target \in Targets, fseek(target) PROVE StreamInv' BY <1>2, FseekDelivers
<1>3. CASE UNCHANGED streamVars BY <1>3 DEF streamVars, StreamInv, Delivered, Here
<1> QED BY <1>1, <1>2, <1>3 DEF StreamNext

\* A stream delivers the text of the file, encrypted or not, in order, without a
\* gap and without a cell twice, for every mixture of counts and of positions it
\* is set to.
THEOREM ReadsText == StreamSpec => []ReadsOnText
<1>1. StreamInv => ReadsOnText
  <2> SUFFICES ASSUME StreamInv, is_encrypted_by_file_header(file) # "other"
               PROVE  got = Window(PlainView(file), began, Len(got))
    BY DEF ReadsOnText
  <2>1. FILE_HEADER_POLL_SIZE \in Nat /\ position \in Nat /\ began \in Nat
    BY HeaderSize DEF StreamInv
  <2>2. began <= Here /\ Here \in Nat /\ got = Window(PlainView(file), began, Here - began)
    BY <2>1 DEF StreamInv, Delivered, Here, Start
  <2>3. Here - began \in Nat BY <2>1, <2>2
  <2>4. PlainView(file) \in Seq(Cell) BY PlainViewType DEF StreamInv
  <2> QED BY <2>1, <2>2, <2>3, <2>4, WindowClip
<1> QED BY <1>1, DeliveredInit, DeliveredStep, PTL DEF StreamSpec

\* A reader who goes on until nothing comes any more has read the text to its end.
THEOREM ReadsAll == StreamSpec => []Drained
<1>1. StreamInv => Drained
  <2> DEFINE text == PlainView(file)
  <2> SUFFICES ASSUME StreamInv, position >= Len(file), is_encrypted_by_file_header(file) # "other"
               PROVE  got = SubSeq(text, began + 1, Len(text))
    BY DEF Drained
  <2>1. FILE_HEADER_POLL_SIZE \in Nat /\ position \in Nat /\ began \in Nat /\ file \in Seq(Cell)
    BY HeaderSize DEF StreamInv
  <2>2. began <= Here /\ got = Window(text, began, Here - began) BY DEF StreamInv, Delivered
  <2>3. text \in Seq(Cell) /\ Here \in Nat /\ Len(text) <= Here
    <3>1. CASE Sealed(file)
      <4> DEFINE body == SubSeq(file, FILE_HEADER_POLL_SIZE + 1, Len(file))
      <4>1. Len(file) >= FILE_HEADER_POLL_SIZE
        BY <3>1 DEF Sealed, is_encrypted_by_file_header
      <4>2. \A i \in (FILE_HEADER_POLL_SIZE + 1)..Len(file) : file[i] \in Cell BY <2>1
      <4>3. /\ body \in Seq(Cell)
            /\ Len(body) = IF FILE_HEADER_POLL_SIZE + 1 <= Len(file)
                           THEN Len(file) - (FILE_HEADER_POLL_SIZE + 1) + 1 ELSE 0
        BY <2>1, <4>2, SubSeqProperties
      <4>4. text = aes_decrypt(body) BY <3>1 DEF PlainView
      <4> HIDE DEF body, text
      <4>5. text \in Seq(Cell) /\ Len(text) = Len(body) BY <4>3, <4>4, CryptType
      <4>6. Here = position - FILE_HEADER_POLL_SIZE BY <2>1, <3>1, <4>1 DEF Here, Start
      <4> QED BY <2>1, <4>1, <4>3, <4>5, <4>6
    <3>2. CASE ~ Sealed(file) BY <2>1, <3>2 DEF PlainView, Here
    <3> QED BY <3>1, <3>2
  <2> HIDE DEF text
  <2>4. Smaller(began + (Here - began), Len(text)) = Len(text)
    BY <2>1, <2>2, <2>3 DEF Smaller
  <2> QED BY <2>2, <2>4 DEF Window
<1> QED BY <1>1, DeliveredInit, DeliveredStep, PTL DEF StreamSpec
=============================================================================
