----------------------------- MODULE MCEventLog -----------------------------
(* Instances of EventLog for TLC: all sessions are in one room, or each in *)
(* a room of its own.                                                      *)
EXTENDS EventLog, TLC

CONSTANTS s1, s2, s3, r1, r2, k1, k2

OneRoom  == [s \in Sessions |-> r1]
TwoRooms == [s \in Sessions |-> IF s = s1 THEN r1 ELSE r2]

(* s1 is alone in its room. *)
Symmetry == Permutations(Sessions \ {s1}) \cup Permutations(Strokes)
=============================================================================
