------------------------------ MODULE MCReplay ------------------------------
(* Instances of Replay for TLC: one of the connections draws.              *)
EXTENDS Replay

CONSTANTS a, b, c, k1

OneArtist == [k \in Strokes |-> a]
=============================================================================
