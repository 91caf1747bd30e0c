------------------------------ MODULE FileType ------------------------------
(***************************************************************************)
(* Which paths are of a supported type: get_tid_by_path of ports/ftype.c   *)
(* and getfid of init/ftype.c, over any table.  Upper and lower case are   *)
(* not told apart.  A path is a sequence of pieces, a dot, a slash or a    *)
(* run of letters, as fine as the names in the table need them (".docx" is *)
(* <<".", "doc", "x">>).                                                   *)
(***************************************************************************)
EXTENDS Integers, FiniteSets, SequencesExt, FiniteSetsExt

CONSTANTS
  Piece,      \* "." and "/" among them
  types,      \* the table: names and numbers, in its order
  TID_MP4_TMP,
  MaxPieces   \* bound: pieces of a path

ASSUME FileTypeAssumption ==
  /\ {".", "/"} \subseteq Piece
  /\ types \in Seq([name : Seq(Piece), id : Nat \ {0}])
  /\ \A i \in DOMAIN types : types[i].name # <<>> /\ types[i].name[1] = "."

\* The tables of the code: a number belongs to one name, no name ends in another
\* or in ".s".
ASSUME TableAssumption ==
  \A i \in DOMAIN types :
    /\ \A j \in DOMAIN types \ {i} :
         types[i].id # types[j].id /\ ~ IsSuffix(types[i].name, types[j].name)
    /\ ~ IsSuffix(<<".", "s">>, types[i].name)

VARIABLE asked   \* the path that is asked about

-----------------------------------------------------------------------------
Places(s, sub) == {k \in 1..(Len(s) - Len(sub) + 1) : SubSeq(s, k, k + Len(sub) - 1) = sub}
From(s, k) == SubSeq(s, k, Len(s))

\* Where strcasestr(s, sub) and strchr(s, c) find it.
First(s, sub) == Min(Places(s, sub))

\* The number of the first entry of the table that fits, or 0.
Lookup(Fits(_)) ==
  LET fitting == {i \in DOMAIN types : Fits(types[i].name)}
  IN  IF fitting = {} THEN 0 ELSE types[Min(fitting)].id

\* Mutant: the rest of the path is not compared with the whole name.
FitsMut(s, name) == Places(s, name) # {}

\* The name is found in s, and what s has from its first place on is the name.
Fits(s, name) == Places(s, name) # {} /\ From(s, First(s, name)) = name

get_tid_by_path(s) ==
  IF Places(s, <<".">>) = {} THEN 0 ELSE Lookup(LAMBDA name : Fits(s, name))

is_special_type_by_tid(tid) == tid = TID_MP4_TMP

\* Mutant: compared only as far as the name goes.
FromDotFitsMut(sname, name) == IsPrefix(name, sname)

\* The name is found, and what follows the first dot is the name.
FromDotFits(sname, name) == Places(sname, name) # {} /\ sname = name

getfid(s) ==
  IF Places(s, <<".">>) = {} THEN 0
  ELSE LET sname == From(s, First(s, <<".">>))
       IN  Lookup(LAMBDA name : FromDotFits(sname, name))

-----------------------------------------------------------------------------
(* Every path is asked about, piece by piece.                              *)

AskInit == asked = <<>>
Ask == \/ Len(asked) < MaxPieces /\ \E c \in Piece : asked' = Append(asked, c)
       \/ Len(asked) = MaxPieces /\ asked' = <<>>

-----------------------------------------------------------------------------
(* Properties.                                                             *)

\* The entries of the table that a path ends in.
Entries(s) == {i \in DOMAIN types : IsSuffix(types[i].name, s)}

\* A path has the type of the one name of the table it ends in, wherever that is
\* in the table and whatever other names begin alike; except that it has none if
\* that name occurs a second time, in the path of its directory for instance.
\* The "<path>.s" of a rebuild never has a type.
TypeIsEnding ==
  /\ \A i \in DOMAIN types :
       get_tid_by_path(asked) = types[i].id <=>
         i \in Entries(asked) /\ Cardinality(Places(asked, types[i].name)) = 1
  /\ get_tid_by_path(asked \o <<".", "s">>) = 0

\* getfid and get_tid_by_path answer the same about every path, except those that
\* end in a name of the table and have a dot before it, ".doc" in "a.b.doc".
TablesAgree ==
  getfid(asked) # get_tid_by_path(asked) =>
    \E i \in Entries(asked) : Len(asked) - Len(types[i].name) >= First(asked, <<".">>)

\* What the comment in getfid says (init/ftype.c:85), "a pointer to the last
\* occurrence of the character": the type is that of the name which starts at the
\* last dot.  The code's strchr looks for the first.
FidOfLastDot ==
  Places(asked, <<".">>) # {} =>
    getfid(asked) = Lookup(LAMBDA name : name = From(asked, Max(Places(asked, <<".">>))))
=============================================================================
