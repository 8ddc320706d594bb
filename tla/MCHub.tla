------------------------------- MODULE MCHub -------------------------------
(* Instances of Hub for TLC.                                               *)
EXTENDS Hub, TLC

CONSTANTS c1, c2, c3, r1, d1

(* Every connection is of a user of its own. *)
OwnUser == [c \in Clients |-> c]

OneRoom == [c \in Clients |-> r1]

Symmetry == Permutations(Clients)
Peers    == Permutations(Clients \ {c1})
=============================================================================
