----------------------------- MODULE MCDomEdits -----------------------------
(* Instances of DomEdits for TLC.                                          *)
EXTENDS DomEdits, TLC

CONSTANTS s1, s2, s3, d1, d2, r1, r2

OwnUser  == [s \in Sessions |-> s]
TwoRooms == [s \in Sessions |-> IF s = s3 THEN r2 ELSE r1]

Symmetry == Permutations({s1, s2}) \cup Permutations(Doms)
=============================================================================
