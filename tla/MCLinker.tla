------------------------------ MODULE MCLinker ------------------------------
(***************************************************************************)
(* Instances of Linker and LinkerContract for TLC: cells are the numbers   *)
(* modulo 3, a block has three of them, and the cipher is an affine map in *)
(* which every cell of the cipher text depends on every cell of the block. *)
(***************************************************************************)
EXTENDS LinkerContract

CONSTANTS p1, p2

MCCell == 0..2
MCBlock == 3
MCHeader == <<2, 1, 1>>

MCEncrypt(b) ==
  [j \in 1..3 |-> (b[1] + b[2] + b[3] + (IF j = 1 THEN 0 ELSE b[j]) + j) % 3]
MCDecrypt(c) ==
  LET b2 == c[2] - c[1] - 1
      b3 == c[3] - c[1] - 2
  IN  <<(c[1] - 1 - b2 - b3) % 3, b2 % 3, b3 % 3>>

Fd2 == {1, 2}
Fd3 == {1, 2, 3}

Access(accs) == [acc : accs, creat : {FALSE}, trunc : {FALSE}, append : {FALSE}]

-----------------------------------------------------------------------------
(* The intended use.                                                       *)

ContractFlags ==
  Access({"r", "rw"})
  \cup {[acc |-> "w", creat |-> TRUE, trunc |-> FALSE, append |-> FALSE]}
ContractFiles == {<<1, 2, 1, 2>>}
ContractPayloads == {<<2>>, <<2, 1, 1, 1>>}
ContractReads == {1, 3, 4}
ContractSeeks == {<<1, "SET">>, <<2, "CUR">>, <<0, "END">>}
NoLeftovers == {{}}
NoWrites == {}

-----------------------------------------------------------------------------
(* Every call and flag, encryption on.                                     *)

Flag(a, c, t, ap) == [acc |-> a, creat |-> c, trunc |-> t, append |-> ap]

AnyFlags == {Flag("rw", FALSE, FALSE, FALSE),
             Flag("rw", TRUE, TRUE, FALSE), Flag("w", TRUE, FALSE, TRUE),
             Flag("r", TRUE, FALSE, FALSE)}
AnyFiles == {<<1, 2, 1>>}
AnyPayloads == {<<1, 1, 2>>}
AnyWrites == {<<0, <<1>>>>}
AnyReads == {1, 4}
AnySeeks == {<<1, "SET">>, <<-2, "SET">>, <<0, "END">>}
AnyLeftovers == {{}, {p1}}

-----------------------------------------------------------------------------
(* Encryption switched on and off while files are open.                    *)

ToggleFlags == {Flag("rw", FALSE, FALSE, FALSE), Flag("w", TRUE, FALSE, FALSE)}
ToggleFiles == {<<1>>}
=============================================================================
