----------------------------- MODULE StreamRead -----------------------------
(***************************************************************************)
(* fread of ports/linker.c, the one call on streams that is interposed,    *)
(* and is_encrypted_by_stream.  The stream is one the application opened   *)
(* for reading; its buffer cannot be seen as long as nobody else writes    *)
(* the file.  fseek, ftell and feof go to the C library, so the            *)
(* application sees positions in the stored file.                          *)
(***************************************************************************)
EXTENDS SecureFile

CONSTANTS
  Files,     \* stored files there may be
  Counts,    \* cells asked for by one call: size * nmemb
  Targets,   \* positions the application seeks to
  MaxSeeks,  \* bound: calls of fseek by the application
  MaxPos     \* bound: position of the stream, which grows without end behind the file

ASSUME StreamReadAssumption ==
  /\ \A f \in Files : f \in Seq(Cell)
  /\ Counts \subseteq Nat \ {0} /\ Targets \subseteq Nat /\ {MaxSeeks, MaxPos} \subseteq Nat

VARIABLES
  file,     \* the stored file
  position, \* the position of the stream (ftell)
  result,   \* what the last fread has delivered
  seeks,
  began,    \* history: where the text read since the last fseek begins
  got       \* history: the cells delivered since the last fseek

streamVars == <<file, position, result, seeks, began, got>>

-----------------------------------------------------------------------------
\* is_encrypted_by_stream looks at the header and returns to where the stream was.
is_encrypted_by_stream == is_encrypted_by_file_header(file)

\* Mutant: a position behind the header is not told from one in it.
StartMut(at) == at + FILE_HEADER_POLL_SIZE

\* A position in the header counts from the beginning of the text.
Start(at) == IF at < FILE_HEADER_POLL_SIZE THEN at + FILE_HEADER_POLL_SIZE ELSE at

\* Mutant: the stream stays where the last of the pieces ended.
AfterMut(offset, count) ==
  Smaller(offset + count + Block - ((offset + count) % Block), Len(file))

\* The last fseek of fread.
After(offset, count) == offset + count

\* What a translated call returns is the number of bytes delivered, Len(result'),
\* also where it is asked for items of more than a byte (linker.c:853).  The C
\* library, which reads a plain stream, returns items.

\* fread of a stored text: the head of the first block, the cells asked for and
\* the rest of the last block are read one after the other.
fread_translated(count) ==
  LET offset == Start(position)
      lead   == offset % Block
      head   == Window(file, offset - lead, lead)
      middle == Window(file, offset, count)
      tail   == Window(file, offset + count, Block - ((offset + count) % Block))
  IN  /\ is_encrypted_by_stream # "normal"
      /\ result' = Collected(lead, count, head, middle, tail)
      /\ position' = After(offset, count)

fread_plain(count) ==
  /\ is_encrypted_by_stream = "normal"
  /\ result' = Window(file, position, count)
  /\ position' = position + Len(result')

fread(count) ==
  /\ fread_translated(count) \/ fread_plain(count)
  /\ got' = got \o result'
  /\ UNCHANGED <<file, seeks, began>>

\* The position the application asks for is one in the stored file.
fseek(target) ==
  /\ seeks < MaxSeeks /\ seeks' = seeks + 1
  /\ position' = target /\ got' = <<>>
  /\ began' = IF Sealed(file) /\ target >= FILE_HEADER_POLL_SIZE
              THEN target - FILE_HEADER_POLL_SIZE ELSE target
  /\ UNCHANGED <<file, result>>

StreamInit == /\ file \in Files /\ position = 0 /\ result = <<>>
        /\ seeks = 0 /\ began = 0 /\ got = <<>>

Fread == position < MaxPos /\ Len(got) < MaxPos /\ \E count \in Counts : fread(count)

StreamNext == Fread \/ \E target \in Targets : fseek(target)

StreamSpec == StreamInit /\ [][StreamNext]_streamVars

-----------------------------------------------------------------------------
(* Properties.                                                             *)

\* Whatever the sizes of the reads and wherever they begin in a block, what one
\* call after the other delivers is the text of the file, without a gap and
\* without a cell twice.  (A file with the signature but no complete header is
\* taken for encrypted; nothing is said of it.)
ReadsOnText ==
  is_encrypted_by_file_header(file) # "other" => got = Window(PlainView(file), began, Len(got))

\* A reader that goes on until a call delivers nothing has then read the file to
\* its end, though the position goes on behind the end.
Drained ==
  LET text == PlainView(file)
  IN  (position >= Len(file) /\ result = <<>> /\ is_encrypted_by_file_header(file) # "other") =>
        got = SubSeq(text, began + 1, Len(text))
=============================================================================
