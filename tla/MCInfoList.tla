----------------------------- MODULE MCInfoList -----------------------------
(***************************************************************************)
(* Instances of InfoList for TLC.                                          *)
(***************************************************************************)
EXTENDS InfoList

CONSTANTS
  t1, t2,
  RacedCalls  \* bound: calls after which only walks without an end are looked for

\* The longest behaviours are for CallsEnd, which is true once two changes have
\* overlapped: they are of changes that take turns, and leave one node alone.
RacedBound == calls > RacedCalls => ~ raced /\ fdOf[MaxNodes] = 0
=============================================================================
