--------------------------- MODULE MCEvidenceCommit ---------------------------
(* Values for model checking EvidenceCommit: two contents, told apart by root  *)
(* and by number of evidence records.                                        *)
EXTENDS EvidenceCommit, TLC

CONSTANTS p1, p2, c1, c2

Roots   == [c \in Contents |-> c]
Records == [c \in Contents |-> IF c = c1 THEN 1 ELSE 2]

OneRoot    == [c \in Contents |-> c1]
SameNumber == [c \in Contents |-> 1]

Symmetry == Permutations(Requests)
=============================================================================
