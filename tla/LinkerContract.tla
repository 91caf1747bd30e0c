--------------------------- MODULE LinkerContract ---------------------------
(***************************************************************************)
(* The layer of Linker.tla as the application sees it, and the promise it  *)
(* keeps (PlainFiles.tla) as long as it is used without the calls that     *)
(* break it: no O_TRUNC, O_APPEND, dup, pwrite or shared mapping, no empty *)
(* plain file, no unsupported name, no leftover "<path>.s", no seek by a   *)
(* negative distance, a descriptor to spare, and protection switched on    *)
(* throughout.                                                             *)
(***************************************************************************)
EXTENDS Linker

\* The use for which the promise is made.  A distance that is not negative keeps
\* lseek from standing on the header: by a negative one it can be led there.
IntendedUse ==
  /\ \A fl \in Flags : ~ fl.trunc /\ ~ fl.append /\ (fl.creat => fl.acc # "r")
  /\ Path \subseteq Supported \ Special
  /\ <<>> \notin PlainFiles0
  /\ Leftovers \subseteq {{}}
  /\ RawWrites = {} /\ ~ SharedMaps /\ ~ Dups /\ ~ Toggles
  /\ \A sk \in Seeks : sk[1] >= 0
  /\ IsFiniteSet(Fd) /\ MaxOpen < Cardinality(Fd)

\* The plain contents of each file.
content == [p \in Path |-> PlainView(disk[p])]

\* The kernel offset of a translated descriptor counts from the header.
handle == [o \in Fd |->
             IF InUse(o)
             THEN [path |-> ofd[o].path, at |-> ofd[o].pos - FILE_HEADER_POLL_SIZE]
             ELSE [path |-> NoPath, at |-> 0]]

Plain == INSTANCE PlainFiles WITH
           there <- exists, Handle <- Fd,
           Sizes <- ReadSizes, Offsets <- 0..MaxLen, Buffers <- Payloads

\* Every call of the application is a step of an ordinary file system on the
\* plain contents: open shows the same bytes before and after the file is
\* rebuilt, reads and seeks move the offset as they should, a write on good
\* boundaries is exact and any other is contained in the blocks it touches,
\* also when several descriptors of the same file are used in turn.
KeepsPromise == Plain!Spec

\* With such use the layer never lets go of a file: every open descriptor is
\* recorded, its file has a header, and it stands behind the header.
AlwaysTranslated ==
  \A fd \in OpenFds : /\ Tracked(fd)
                      /\ Sealed(disk[File(fd)])
                      /\ Pos(fd) >= FILE_HEADER_POLL_SIZE
=============================================================================
