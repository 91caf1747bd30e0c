------------------------------ MODULE MCPolicy ------------------------------
(***************************************************************************)
(* Instances of Policy for TLC: a domain of two digits and one of three    *)
(* that contains it, and up to two entries of these and of a domain of one *)
(* digit, whose state may have two.                                        *)
(***************************************************************************)
EXTENDS Policy

E(d, s) == [domain |-> d, state |-> s]
MCDomains == {0, 10, 110}
MCEntries == {E(1, 0), E(1, 10)} \cup {E(d, s) : d \in {10, 110}, s \in 0..1}
MCEnables == {<<>>} \cup {<<e>> : e \in MCEntries}
                \cup {<<e, f>> : <<e, f>> \in {p \in MCEntries \X MCEntries : p[1].domain # p[2].domain}}
\* A user's process, the media server, and another process of the system.
MCCallers == {[user |-> 10, media |-> FALSE], [user |-> 0, media |-> TRUE],
              [user |-> 0, media |-> FALSE]}
MCConfigs == {"missing", "other", "encrypt:0", "encrypt:1"}
=============================================================================
