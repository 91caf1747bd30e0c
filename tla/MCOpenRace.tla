----------------------------- MODULE MCOpenRace -----------------------------
(***************************************************************************)
(* Instances of OpenRace for TLC.                                          *)
(***************************************************************************)
EXTENDS OpenRace

CONSTANTS p1, p2, p3

\* What happens once a file has been rebuilt or headed out of turn is left to
\* the run open_claim: the other properties say nothing about it.
InTurn == ~ clash
=============================================================================
