----------------------------- MODULE Membership -----------------------------
(***************************************************************************)
(* Who is in which room, and which rooms are there: what the hub promises  *)
(* to the clock of a room, which lives in the map of rooms, and to a       *)
(* replay, which is for whoever will be a member.  A session joins once,   *)
(* which opens its room; it may be evicted, which closes nothing; and it   *)
(* leaves once, evicted or not, which closes the room exactly when no      *)
(* member is left in it.                                                   *)
(***************************************************************************)
CONSTANTS
  Sessions,
  Rooms,
  RoomOf

VARIABLES
  mode,  (* "out", "member", "evicted" or "left"                           *)
  open   (* the rooms that can be found                                    *)

membership == <<mode, open>>

Init ==
  /\ mode = [s \in Sessions |-> "out"]
  /\ open = {}

Join(s) ==
  /\ mode[s] = "out"
  /\ mode' = [mode EXCEPT ![s] = "member"]
  /\ open' = open \cup {RoomOf[s]}

Evict(s) ==
  /\ mode[s] = "member"
  /\ mode' = [mode EXCEPT ![s] = "evicted"]
  /\ UNCHANGED open

Others(s) ==
  {t \in Sessions \ {s} : RoomOf[t] = RoomOf[s] /\ mode[t] = "member"}

Leave(s) ==
  /\ mode[s] \in {"member", "evicted"}
  /\ mode' = [mode EXCEPT ![s] = "left"]
  /\ open' = IF Others(s) = {} THEN open \ {RoomOf[s]} ELSE open

(* Another connection takes the place of one that has left. *)
Reuse(s) ==
  /\ mode[s] = "left"
  /\ mode' = [mode EXCEPT ![s] = "out"]
  /\ UNCHANGED open

Restart ==
  /\ mode' = [s \in Sessions |-> "out"]
  /\ open' = {}

Next ==
  \/ \E s \in Sessions : Join(s) \/ Evict(s) \/ Leave(s) \/ Reuse(s)
  \/ Restart

Spec == Init /\ [][Next]_membership
=============================================================================
