------------------------------ MODULE MCTyped -------------------------------
(***************************************************************************)
(* An instance of Linker whose paths have types, beside one of StreamRead: *)
(* is_support_... and is_support_special_file_type_by_path, which the      *)
(* repository does not define, are taken to look the path up in the table  *)
(* of ports/ftype.c.  The table has the two kinds of names that begin      *)
(* alike: ".doc" and ".docx" (like ".jpeg" and ".jpeg2000"), and ".mp4"    *)
(* and ".mp4.tmp", with the numbers of ports/ftype.c.                      *)
(***************************************************************************)
EXTENDS MCLinker, FileType, StreamRead

MCPiece == {".", "/", "doc", "x", "mp4", "tmp", "a"}
MCTypes == << [name |-> <<".", "doc">>,             id |-> 100],
              [name |-> <<".", "doc", "x">>,        id |-> 101],
              [name |-> <<".", "mp4">>,             id |-> 404],
              [name |-> <<".", "mp4", ".", "tmp">>, id |-> 405] >>

TypedPaths == {<<"a", ".", "doc">>}
OfType == {p \in TypedPaths : get_tid_by_path(p) # 0}
OfSpecialType == {p \in OfType : is_special_type_by_tid(get_tid_by_path(p))}

\* The instance is one of the intended use.
ASSUME IntendedInstance == IntendedUse

\* The streams: plain files, and encrypted ones of up to three blocks.
Samples == {SubSeq(<<1, 2, 0, 1, 1, 2, 2, 0>>, 1, n) : n \in 0..8}
           \cup {SubSeq(<<2, 2, 1, 0, 2, 1, 0, 0>>, 1, n) : n \in 1..8}
StreamFiles == {<<1, 2, 0, 2, 1>>, <<2, 1>>} \cup {SealedForm(s) : s \in Samples}
StreamCounts == 1..5
StreamTargets == 0..12

\* The three parts share no variable, so that it is enough to take their steps one
\* part after the other: paths are looked up and streams are read as long as no
\* other part has begun.
Files0 == exists = {}
Asked0 == asked = <<>>
Stream0 == file = <<2, 1>> /\ position = 0 /\ seeks = 0

TypedInit == Init /\ AskInit /\ StreamInit

TypedNext ==
  \/ Asked0 /\ Stream0 /\ Next /\ UNCHANGED <<asked, streamVars>>
  \/ Files0 /\ Stream0 /\ Ask /\ UNCHANGED <<vars, streamVars>>
  \/ Files0 /\ Asked0 /\ StreamNext /\ UNCHANGED <<vars, asked>>
TypedSpec == TypedInit /\ [][TypedNext]_<<vars, asked, streamVars>>
=============================================================================
