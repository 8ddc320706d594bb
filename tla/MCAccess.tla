------------------------------ MODULE MCAccess ------------------------------
(* Instances of Access for TLC: every session is of a user of its own, or  *)
(* all are tabs of one user.                                               *)
EXTENDS Access, TLC

CONSTANTS s1, s2, s3, r1, r2

OwnUser == [s \in Sessions |-> s]
Tabs    == [s \in Sessions |-> s1]
OneRoom == [s \in Sessions |-> r1]

(* Two moderators may change places. *)
Symmetry == Permutations({s1, s2})
=============================================================================
