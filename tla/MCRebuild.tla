----------------------------- MODULE MCRebuild ------------------------------
(***************************************************************************)
(* Instances of Rebuild for TLC: three threads and pages of 4 cells, and   *)
(* the program's four threads, with pages of 8, for the claim.             *)
(***************************************************************************)
EXTENDS Rebuild

\* Every small size, and sizes around the largest int, of twelve pages here, and
\* behind it: 63 is the first for which the last thread's offset reaches it, 142 and
\* more have shares that an int cannot hold.
AllSizes == 1..36 \cup {43, 44, 45, 48, 52, 62, 63, 72, 142, 145, 301}

\* The sizes for which calls fail: a small file, one whose end is misplaced, one
\* whose end falls into the share of the last thread, one of whole pages, one with
\* a larger tail.
FaultSizes == {9, 13, 15, 16, 18}
SomeFaults == [n \in Sizes |-> IF n \in FaultSizes THEN Kind ELSE {}]

\* Two descriptors for each thread and one for a check, or hardly any.
FewSpares == [n \in Sizes |-> IF n = 16 THEN {1, 2, 3, 7} ELSE {7}]

NoFaults == [n \in Sizes |-> {}]
ManySpares == [n \in Sizes |-> {9}]
ClaimSizes == {40, 41}
=============================================================================
