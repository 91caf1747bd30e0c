------------------------------- MODULE Linker -------------------------------
(***************************************************************************)
(* The interposed file calls of ports/linker.c (open, read, write, close,  *)
(* lseek, dup, pwrite, mmap) together with file_info_list of ports/util.c, *)
(* over a kernel descriptor table and regular files.                       *)
(*                                                                         *)
(* One action is one complete call: the process is single-threaded here.   *)
(* A call that fails without an effect is a stuttering step and has no     *)
(* action.  linker_xxx are the real libc calls, so the layer's own file    *)
(* accesses are not intercepted again.                                     *)
(***************************************************************************)
EXTENDS SecureFile, FiniteSets

CONSTANTS
  Path,       \* file names
  NoPath,     \* the path of an unused open file description
  Supported,  \* paths is_support_file_type_by_path accepts
  Special,    \* paths is_support_special_file_type_by_path accepts
  Fd,         \* descriptor numbers, all > 0
  MaxOpen,    \* how many descriptors the application keeps open
  MaxLen,     \* bound: cells in a file
  MaxInfo,    \* bound: entries of file_info_list
  PlainFiles0,\* contents a file may have before it is first opened
  Leftovers,  \* sets of paths whose "<path>.s" may exist already
  Flags,      \* open flags: [acc, creat, trunc, append]
  Payloads,   \* buffers passed to write
  RawWrites,  \* <<offset, buffer>> passed to pwrite
  ReadSizes,  \* counts passed to read
  Seeks,      \* <<offset, whence>> passed to lseek
  SharedMaps, \* whether the application maps files MAP_SHARED
  Dups,       \* whether the application duplicates descriptors
  Toggles     \* whether the domain properties may change while files are open

ASSUME LinkerAssumption ==
  /\ NoPath \notin Path
  /\ Fd \subseteq Nat \ {0}
  /\ MaxOpen \in Nat /\ MaxLen \in Nat /\ MaxInfo \in Nat
  /\ PlainFiles0 \subseteq Seq(Cell) /\ Payloads \subseteq Seq(Cell)
  /\ \A s \in PlainFiles0 : ~ Sealed(s)
  /\ Leftovers \subseteq SUBSET Path
  /\ Flags \subseteq [acc : {"r", "w", "rw"}, creat : BOOLEAN,
                      trunc : BOOLEAN, append : BOOLEAN]
  /\ \A fl \in Flags : fl.trunc => fl.acc # "r"  \* left undefined by open(2)
  /\ RawWrites \subseteq Nat \X Seq(Cell)
  /\ ReadSizes \subseteq Nat
  /\ Seeks \subseteq Int \X {"SET", "CUR", "END"}
  /\ SharedMaps \in BOOLEAN /\ Dups \in BOOLEAN /\ Toggles \in BOOLEAN

VARIABLES
  disk,           \* bytes of each file
  exists,         \* the files there are
  leftover,       \* paths for which "<path>.s" exists: an unfinished rebuild
  fdt,            \* descriptor -> open file description, 0 when closed
  ofd,            \* open file descriptions: file, kernel offset, access mode
  file_info_list, \* the layer's list of tracked descriptors
  protected       \* is_trust_process() != 0 && get_domain_state() != 0

vars == <<disk, exists, leftover, fdt, ofd, file_info_list, protected>>

-----------------------------------------------------------------------------
(* The kernel's descriptor table.                                          *)

Unused == [path |-> NoPath, pos |-> 0, acc |-> "r", app |-> FALSE]

OpenFds == {fd \in Fd : fdt[fd] # 0}
SpareFd == OpenFds # Fd

\* The kernel hands out the lowest free descriptor number.
LowestFree(fd) == /\ fd \in Fd \ OpenFds
                  /\ \A g \in Fd \ OpenFds : fd <= g
InUse(o) == \E fd \in Fd : fdt[fd] = o
LowestOfd(o) == /\ o \in Fd /\ ~ InUse(o)
                /\ \A g \in Fd : ~ InUse(g) => o <= g

File(fd) == ofd[fdt[fd]].path
Pos(fd) == ofd[fdt[fd]].pos
Acc(fd) == ofd[fdt[fd]].acc
App(fd) == ofd[fdt[fd]].app

SetPos(fd, pos) == ofd' = [ofd EXCEPT ![fdt[fd]].pos = pos]

\* linker_open succeeds on descriptor fd; the kernel offset is then "pos".
KernelOpen(fd, p, fl, pos) ==
  \E o \in Fd :
    /\ LowestOfd(o)
    /\ fdt' = [fdt EXCEPT ![fd] = o]
    /\ ofd' = [ofd EXCEPT ![o] = [path |-> p, pos |-> pos,
                                  acc |-> fl.acc, app |-> fl.append]]
    /\ exists' = exists \cup {p}

\* What O_TRUNC leaves of the file.
Truncated(p, fl) == IF fl.trunc THEN <<>> ELSE disk[p]

-----------------------------------------------------------------------------
(* file_info_list (ports/util.c): a linked list, appended at the tail and  *)
(* searched from the head by descriptor number.                            *)

Info(fd, p) == [fd |-> fd, path |-> p]

Tracked(fd) == \E i \in 1..Len(file_info_list) : file_info_list[i].fd = fd

\* file_info_list_query_by_fd finds the entry at index i.
IsFirst(i, fd) ==
  /\ i \in 1..Len(file_info_list)
  /\ file_info_list[i].fd = fd
  /\ \A j \in 1..(i - 1) : file_info_list[j].fd # fd

\* Mutant: the entry is not linked into the list.
file_info_list_addMut(fd, p) == UNCHANGED file_info_list

file_info_list_add(fd, p) ==
  file_info_list' = Append(file_info_list, Info(fd, p))

\* Mutant: the tail of the list is dropped whichever entry was found.
WithoutMut(list, i) == SubSeq(list, 1, Len(list) - 1)

Without(list, i) == SubSeq(list, 1, i - 1) \o SubSeq(list, i + 1, Len(list))

\* Mutant: close forgets to remove the entry.
file_info_list_remove_by_fdMut(fd) == UNCHANGED file_info_list

\* Only the first entry for fd goes.
file_info_list_remove_by_fd(fd) ==
  IF Tracked(fd)
  THEN \E i \in 1..Len(file_info_list) :
         IsFirst(i, fd) /\ file_info_list' = Without(file_info_list, i)
  ELSE UNCHANGED file_info_list

\* is_encrypted_by_fd duplicates the descriptor to read the header: a full
\* descriptor table and a write-only descriptor both answer "normal".
is_encrypted_by_fd(fd) ==
  IF Acc(fd) = "w" \/ ~ SpareFd THEN "normal"
  ELSE is_encrypted_by_file_header(disk[File(fd)])

\* read, lseek and mmap translate a descriptor that is tracked, or whose file
\* does not look normal.
Handled(fd) == protected /\ (Tracked(fd) \/ is_encrypted_by_fd(fd) # "normal")

-----------------------------------------------------------------------------
(* open                                                                    *)

OpenOK(p, fl) == /\ Cardinality(OpenFds) < MaxOpen
                 /\ SpareFd
                 /\ p \in exists \/ fl.creat

\* Untrusted process, encryption off, or a file type that is not protected.
OpenRaw(fd, p, fl) ==
  /\ ~ protected \/ p \notin Supported
  /\ KernelOpen(fd, p, fl, 0)
  /\ disk' = [disk EXCEPT ![p] = Truncated(p, fl)]
  /\ UNCHANGED file_info_list

\* A new file: the header is written through the new descriptor.
OpenNew(fd, p, fl) ==
  /\ protected /\ p \in Supported \ Special /\ p \notin exists
  /\ IF fl.acc # "r"
     THEN /\ KernelOpen(fd, p, fl, FILE_HEADER_POLL_SIZE)
          /\ disk' = [disk EXCEPT ![p] = HeaderCells]
          /\ file_info_list_add(fd, p)
     ELSE \* the header cannot be written: close, remove the first entry of the
          \* list as it is after file_info_list_add, return -1
          /\ exists' = exists \cup {p}
          /\ IF Tracked(fd)
             THEN \E i \in 1..Len(file_info_list) :
                    /\ IsFirst(i, fd)
                    /\ file_info_list' = Append(Without(file_info_list, i), Info(fd, p))
             ELSE UNCHANGED file_info_list
          /\ UNCHANGED <<disk, fdt, ofd>>

OpenNewSpecial(fd, p, fl) ==
  /\ protected /\ p \in Supported \cap Special /\ p \notin exists
  /\ KernelOpen(fd, p, fl, 0)
  /\ UNCHANGED <<disk, file_info_list>>

\* The header was found before the real open, which may truncate the file.
OpenSealed(fd, p, fl) ==
  /\ protected /\ p \in Supported /\ p \in exists /\ Sealed(disk[p])
  /\ KernelOpen(fd, p, fl, IF fl.append THEN 0 ELSE FILE_HEADER_POLL_SIZE)
  /\ disk' = [disk EXCEPT ![p] = Truncated(p, fl)]
  /\ file_info_list_add(fd, p)

\* A file without a header is rebuilt in place, unless it is empty by now or
\* another rebuild has left its "<path>.s" behind.
OpenPlain(fd, p, fl) ==
  /\ protected /\ p \in Supported /\ p \in exists /\ ~ Sealed(disk[p])
  /\ IF p \notin leftover /\ Truncated(p, fl) # <<>>
     THEN /\ FILE_HEADER_POLL_SIZE + Len(disk[p]) <= MaxLen
          /\ KernelOpen(fd, p, fl, FILE_HEADER_POLL_SIZE)
          /\ disk' = [disk EXCEPT ![p] = SealedForm(disk[p])]
          /\ file_info_list_add(fd, p)
     ELSE /\ KernelOpen(fd, p, fl, 0)
          /\ disk' = [disk EXCEPT ![p] = Truncated(p, fl)]
          /\ UNCHANGED file_info_list

open(fd, p, fl) ==
  /\ OpenOK(p, fl) /\ LowestFree(fd)
  /\ Len(file_info_list) < MaxInfo
  /\ \/ OpenRaw(fd, p, fl) \/ OpenNew(fd, p, fl) \/ OpenNewSpecial(fd, p, fl)
     \/ OpenSealed(fd, p, fl) \/ OpenPlain(fd, p, fl)
  /\ UNCHANGED <<leftover, protected>>

-----------------------------------------------------------------------------
(* read                                                                    *)

\* Mutant: the offset used for the alignment is not moved past the header.
OffsetMut(fd) == Pos(fd)

\* Where the window is computed from, and where the kernel reads from: they
\* differ when the descriptor stands inside the header.
Offset(fd) == IF Pos(fd) < FILE_HEADER_POLL_SIZE
              THEN Pos(fd) + FILE_HEADER_POLL_SIZE ELSE Pos(fd)
SkipHeader(fd) == Larger(Pos(fd), FILE_HEADER_POLL_SIZE)

\* Mutant: the position in the last block instead of what is missing from it.
TailCountMut(fd, n) == (n + Offset(fd)) % Block

\* How much of the last block is read after the n bytes asked for.
TailCount(fd, n) == Block - ((n + Offset(fd)) % Block)

\* The bytes read(fd, buf, n) delivers on a translated descriptor.
Decrypted(fd, n) ==
  LET s    == disk[File(fd)]
      lead == Offset(fd) % Block
  IN  Collected(lead, n, Window(s, Offset(fd) - lead, lead),
                Window(s, SkipHeader(fd), n),
                Window(s, Offset(fd) + n, TailCount(fd, n)))

ReadData(fd, n) == IF Handled(fd) THEN Decrypted(fd, n)
                   ELSE Window(disk[File(fd)], Pos(fd), n)

\* On a write-only descriptor every kernel read fails, after the kernel offset
\* has been moved past the header.
read(fd, n) ==
  /\ fd \in OpenFds
  /\ Acc(fd) = "w" => Handled(fd)
  /\ LET from == IF Handled(fd) THEN SkipHeader(fd) ELSE Pos(fd)
     IN  SetPos(fd, IF Acc(fd) = "w" THEN from
                    ELSE from + Len(Window(disk[File(fd)], from, n)))
  /\ UNCHANGED <<disk, exists, leftover, fdt, file_info_list, protected>>

-----------------------------------------------------------------------------
(* write, pwrite                                                           *)

\* linker_write and linker_pwrite, which both append on an O_APPEND descriptor.
Landing(fd, s, at) == IF App(fd) THEN Len(s) ELSE at

\* Mutant: write does not read back the head of the first block.
BlockPrefixMut(fd, lead) == {Zeros(lead)}

\* The stored bytes in front of the data, read through a second descriptor
\* that write opens by the recorded name.  When there is no entry, or no free
\* descriptor, the pread fails and the zeroed buffer is used as it is.
BlockPrefix(fd, lead) ==
  IF Tracked(fd) /\ SpareFd
  THEN {Overlay(Zeros(lead), 0,
                Window(disk[file_info_list[i].path], Pos(fd) - lead, lead))
        : i \in {j \in 1..Len(file_info_list) : IsFirst(j, fd)}}
  ELSE {Zeros(lead)}

\* The file after write has put back the prefix and written the data, all of
\* it encrypted as far as its blocks are complete.  No check that the file is
\* an encrypted one.
Written(fd, prefix, d) ==
  LET lead == Len(prefix)
      temp == aes_encrypt(prefix \o d)
      s    == disk[File(fd)]
      s1   == Overlay(s, Landing(fd, s, Pos(fd) - lead), SubSeq(temp, 1, lead))
  IN  Overlay(s1, Landing(fd, s1, Pos(fd)), SubSeq(temp, lead + 1, Len(temp)))

RawWritten(fd, at, d) ==
  LET s == disk[File(fd)] IN Overlay(s, Landing(fd, s, at), d)

\* The kernel offset after d has been written to the file, now s.
PosAfter(fd, s, d) == IF App(fd) THEN Len(s) ELSE Pos(fd) + Len(d)

StoreFile(fd, s) == /\ Len(s) <= MaxLen
                    /\ disk' = [disk EXCEPT ![File(fd)] = s]

write(fd, d) ==
  /\ fd \in OpenFds /\ Acc(fd) # "r" /\ d # <<>>
  /\ \E s \in IF protected
              THEN {Written(fd, prefix, d) : prefix \in BlockPrefix(fd, Pos(fd) % Block)}
              ELSE {RawWritten(fd, Pos(fd), d)} :
       StoreFile(fd, s) /\ SetPos(fd, PosAfter(fd, s, d))
  /\ UNCHANGED <<exists, leftover, fdt, file_info_list, protected>>

\* Both branches of pwrite hand the call to the kernel; the offset is not moved.
pwrite(fd, at, d) ==
  /\ fd \in OpenFds /\ Acc(fd) # "r"
  /\ StoreFile(fd, RawWritten(fd, at, d))
  /\ UNCHANGED <<exists, leftover, fdt, ofd, file_info_list, protected>>

-----------------------------------------------------------------------------
(* close, dup                                                              *)

\* A tracked descriptor is rewound first, and with it every duplicate.
close(fd) ==
  /\ fd \in OpenFds
  /\ fdt' = [fdt EXCEPT ![fd] = 0]
  /\ IF \E g \in Fd \ {fd} : fdt[g] = fdt[fd]
     THEN IF protected /\ Tracked(fd) THEN SetPos(fd, 0) ELSE UNCHANGED ofd
     ELSE ofd' = [ofd EXCEPT ![fdt[fd]] = Unused]
  /\ IF protected THEN file_info_list_remove_by_fd(fd) ELSE UNCHANGED file_info_list
  /\ UNCHANGED <<disk, exists, leftover, protected>>

\* The duplicate is recorded under the name found for the original.
dup(fd, new) ==
  /\ Dups /\ fd \in OpenFds /\ Cardinality(OpenFds) < MaxOpen /\ LowestFree(new)
  /\ fdt' = [fdt EXCEPT ![new] = fdt[fd]]
  /\ IF protected /\ Tracked(fd)
     THEN \E i \in 1..Len(file_info_list) :
            /\ IsFirst(i, fd) /\ Len(file_info_list) < MaxInfo
            /\ file_info_list_add(new, file_info_list[i].path)
     ELSE UNCHANGED file_info_list
  /\ UNCHANGED <<disk, exists, leftover, ofd, protected>>

-----------------------------------------------------------------------------
(* lseek and lseek64, mmap                                                 *)

\* The kernel offset the call asks for; negative ones are refused.
SeekTarget(fd, off, whence) ==
  CASE whence = "SET" -> IF Handled(fd) THEN off + FILE_HEADER_POLL_SIZE ELSE off
    [] whence = "CUR" -> Pos(fd) + off
    [] whence = "END" -> Len(disk[File(fd)]) + off

\* Mutant: the header is counted.
SeekResultMut(fd, off, whence) == Larger(SeekTarget(fd, off, whence), -1)

\* The value lseek returns, a failure included.
SeekResult(fd, off, whence) ==
  LET position == Larger(SeekTarget(fd, off, whence), -1)
  IN  IF Handled(fd) THEN position - FILE_HEADER_POLL_SIZE ELSE position

\* Mutant: negative offsets are accepted.
lseekMut(fd, off, whence) ==
  /\ fd \in OpenFds
  /\ SeekTarget(fd, off, whence) <= MaxLen
  /\ SetPos(fd, SeekTarget(fd, off, whence))
  /\ UNCHANGED <<disk, exists, leftover, fdt, file_info_list, protected>>

lseek(fd, off, whence) ==
  /\ fd \in OpenFds
  /\ SeekTarget(fd, off, whence) \in 0..MaxLen
  /\ SetPos(fd, SeekTarget(fd, off, whence))
  /\ UNCHANGED <<disk, exists, leftover, fdt, file_info_list, protected>>

\* Mutant: the mapping starts at the header, which is decrypted too.
mmapMut(fd) ==
  /\ SharedMaps /\ fd \in OpenFds /\ Acc(fd) = "rw" /\ Handled(fd)
  /\ disk' = [disk EXCEPT ![File(fd)] = aes_decrypt(@)]
  /\ UNCHANGED <<exists, leftover, fdt, ofd, file_info_list, protected>>

\* A translated MAP_SHARED mapping is decrypted in place, which is to say in
\* the file.  A private mapping, and one the kernel refuses (no write access,
\* nothing behind the header), leaves the file alone.  The offset asked for is 0
\* (linker.c:788 adds it to the header).  A mapping without PROT_READ is the
\* kernel's own, header included (797): making one changes nothing, and what the
\* application stores through it is not modelled.
mmap(fd) ==
  /\ SharedMaps /\ fd \in OpenFds /\ Acc(fd) = "rw" /\ Handled(fd)
  /\ LET s == disk[File(fd)]
     IN  /\ Len(s) > FILE_HEADER_POLL_SIZE
         /\ disk' = [disk EXCEPT ![File(fd)] =
                       SubSeq(s, 1, FILE_HEADER_POLL_SIZE)
                       \o aes_decrypt(SubSeq(s, FILE_HEADER_POLL_SIZE + 1, Len(s)))]
  /\ UNCHANGED <<exists, leftover, fdt, ofd, file_info_list, protected>>

-----------------------------------------------------------------------------
(* stat and fstat                                                          *)

\* Both look at the header through a descriptor of their own.
stat(p) == IF protected /\ SpareFd /\ Sealed(disk[p])
           THEN Len(disk[p]) - FILE_HEADER_POLL_SIZE ELSE Len(disk[p])

fstat(fd) == IF protected /\ is_encrypted_by_fd(fd) = "rights"
             THEN Len(disk[File(fd)]) - FILE_HEADER_POLL_SIZE
             ELSE Len(disk[File(fd)])

-----------------------------------------------------------------------------
(* The process.                                                            *)

\* The properties get_domain_state reads are set by another process.
SetDomainState == /\ Toggles
                  /\ protected' = ~ protected
                  /\ UNCHANGED <<disk, exists, leftover, fdt, ofd, file_info_list>>

Init ==
  /\ exists \in SUBSET Path
  /\ disk \in [Path -> PlainFiles0 \cup {<<>>}]
  /\ \A p \in Path : IF p \in exists THEN disk[p] \in PlainFiles0 ELSE disk[p] = <<>>
  /\ leftover \in Leftovers
  /\ fdt = [fd \in Fd |-> 0]
  /\ ofd = [o \in Fd |-> Unused]
  /\ file_info_list = <<>>
  /\ protected = TRUE

Next ==
  \/ \E fd \in Fd, p \in Path, fl \in Flags : open(fd, p, fl)
  \/ \E fd \in Fd, n \in ReadSizes : read(fd, n)
  \/ \E fd \in Fd, d \in Payloads : write(fd, d)
  \/ \E fd \in Fd, w \in RawWrites : pwrite(fd, w[1], w[2])
  \/ \E fd \in Fd : close(fd)
  \/ \E fd, new \in Fd : dup(fd, new)
  \/ \E fd \in Fd, sk \in Seeks : lseek(fd, sk[1], sk[2])
  \/ \E fd \in Fd : mmap(fd)
  \/ SetDomainState

Spec == Init /\ [][Next]_vars

-----------------------------------------------------------------------------
(* Properties.                                                             *)

\* Every variable holds a value of its kind: the descriptor table points to
\* open file descriptions, whose files exist, and unused ones are cleared.
TypeOK ==
  /\ disk \in [Path -> Seq(Cell)]
  /\ exists \in SUBSET Path
  /\ leftover \in SUBSET Path
  /\ fdt \in [Fd -> Fd \cup {0}]
  /\ ofd \in [Fd -> [path : Path \cup {NoPath}, pos : Nat,
                     acc : {"r", "w", "rw"}, app : BOOLEAN]]
  /\ \A fd \in OpenFds : File(fd) \in exists
  /\ file_info_list \in Seq([fd : Fd, path : Path])
  /\ protected \in BOOLEAN

\* file_info_list tells the truth: each entry is about an open descriptor and
\* has the name of the file behind it, and no descriptor has two entries.
\* write takes the bytes in front of its data from the file named here, so a
\* wrong entry mixes the contents of two files.
TrackingExact ==
  /\ \A i \in 1..Len(file_info_list) :
       LET e == file_info_list[i]
       IN  fdt[e.fd] # 0 /\ e.path = File(e.fd)
  /\ \A i, j \in 1..Len(file_info_list) :
       file_info_list[i].fd = file_info_list[j].fd => i = j

\* Whatever happened while encryption was off, no call made while it is on
\* turns a true list into a wrong one: close takes away what open and dup added.
TrackingKept == [][(TrackingExact /\ protected) => TrackingExact']_vars

\* The header of a sealed file is lost in three ways only: the file is opened
\* for truncation (open never writes the header again), a call writes through a
\* descriptor standing below the end of the header, or pwrite is given such an
\* offset (it is handed to the kernel untranslated).  This is about calls: what is
\* stored through a shared mapping made without PROT_READ (linker.c:797), which
\* shows the header, is beyond it.
WritableBelowHeader(p) ==
  \E fd \in OpenFds : /\ File(fd) = p /\ Acc(fd) # "r" /\ ~ App(fd)
                      /\ Pos(fd) < FILE_HEADER_POLL_SIZE
                      /\ ofd'[fdt[fd]].pos > Pos(fd)

TruncatingOpen(p) ==
  /\ disk'[p] = <<>>
  /\ \E fd \in Fd \ OpenFds :
       fdt'[fd] # 0 /\ ofd'[fdt'[fd]].path = p /\ ofd'[fdt'[fd]].acc # "r"

PwriteBelowHeader(p) ==
  \E fd \in OpenFds, w \in RawWrites :
    /\ File(fd) = p /\ Acc(fd) # "r" /\ ~ App(fd)
    /\ w[1] < FILE_HEADER_POLL_SIZE /\ disk'[p] = RawWritten(fd, w[1], w[2])

HeaderLostOnlyBelow ==
  [][\A p \in Path : (Sealed(disk[p]) /\ ~ Sealed(disk'[p])) =>
       TruncatingOpen(p) \/ WritableBelowHeader(p) \/ PwriteBelowHeader(p)]_vars

\* On a sealed file, a translated read delivers the plain text at the offset
\* lseek reports for it, whatever the alignment of the offset and the count
\* and wherever the file ends.  (A descriptor at 0 is one that was opened with
\* O_APPEND or rewound; it reads from the first plain byte.)
ReadExact ==
  \A fd \in OpenFds, n \in ReadSizes :
    (Handled(fd) /\ Acc(fd) # "w" /\ Sealed(disk[File(fd)])
     /\ (Pos(fd) = 0 \/ Pos(fd) >= FILE_HEADER_POLL_SIZE))
      => Decrypted(fd, n) = Window(PlainView(disk[File(fd)]),
                                   SkipHeader(fd) - FILE_HEADER_POLL_SIZE, n)

\* The three ways to learn the size of a sealed file agree with the number of
\* plain bytes in it: stat by name, fstat and lseek(fd, 0, SEEK_END) by
\* descriptor.  The exceptions are a full descriptor table, where stat and fstat
\* report the stored size, and fstat on a write-only descriptor, which always
\* does; lseek is right on a recorded descriptor all the same.
SizesAgree ==
  protected => \A fd \in OpenFds : LET s == disk[File(fd)] IN
    Sealed(s) =>
      /\ SpareFd => stat(File(fd)) = Len(PlainView(s))
      /\ (Acc(fd) # "w" /\ SpareFd) => fstat(fd) = Len(PlainView(s))
      /\ Handled(fd) => SeekResult(fd, 0, "END") = Len(PlainView(s))
=============================================================================
