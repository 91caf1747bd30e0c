--------------------------- MODULE MCLinkerSteps ----------------------------
(***************************************************************************)
(* Instances of LinkerSteps for TLC, with the cells, blocks and cipher of  *)
(* MCLinker.                                                               *)
(***************************************************************************)
EXTENDS LinkerSteps

CONSTANTS t1, t2

MCCell == 0..2
MCHeader == <<2, 1, 1>>
MCEncrypt(b) ==
  [j \in 1..3 |-> (b[1] + b[2] + b[3] + (IF j = 1 THEN 0 ELSE b[j]) + j) % 3]
MCDecrypt(c) ==
  LET b2 == c[2] - c[1] - 1
      b3 == c[3] - c[1] - 2
  IN  <<(c[1] - 1 - b2 - b3) % 3, b2 % 3, b3 % 3>>

\* A complete block and a third of one.
MCBodies == {<<1, 2, 0, 1>>}
MCPayloads == {<<1>>, <<2, 1, 0>>, <<0, 2, 1, 1, 2>>}

MCSeeks == {<<1, "SET">>, <<3, "SET">>, <<0, "END">>}

\* Both threads write, through one descriptor each or through the same one, or
\* one writes and the other reads through a descriptor that was opened with
\* O_APPEND and stands at 0.
Own == [t \in Thread |-> IF t = t1 THEN 1 ELSE 2]
Shared == [t \in Thread |-> 1]
MCSetups == {[desc |-> Own,    writers |-> {t1, t2}, start |-> <<3, 3>>],
             [desc |-> Shared, writers |-> {t1, t2}, start |-> <<3, 3>>],
             [desc |-> Own,    writers |-> {t1},     start |-> <<3, 0>>]}
=============================================================================
