------------------------------ MODULE Journal ------------------------------
(***************************************************************************)
(* What the server promises of the events of its rooms.  An event is given *)
(* an id beyond every id of its room that is pending or in the log; it is  *)
(* then pending until it is put into the log, once and for good, or given  *)
(* up.  No id is in the log twice, and of two events of a room that are    *)
(* logged or pending, the later one has the larger id, over any number of  *)
(* restarts.                                                               *)
(***************************************************************************)
EXTENDS Naturals

CONSTANTS
  Rooms,
  Ids

VARIABLES
  pending,  (* the events that have an id and may still reach the log      *)
  log       (* the events that are kept                                    *)

journal == <<pending, log>>

Events == [room : Rooms, id : Ids]

Init == pending = {} /\ log = {}

Issue(e) ==
  /\ \A f \in pending \cup log : f.room = e.room => f.id < e.id
  /\ pending' = pending \cup {e}
  /\ UNCHANGED log

Log(e) ==
  /\ e \in pending
  /\ pending' = pending \ {e}
  /\ log' = log \cup {e}

(* Any of the pending events; all of them when the process ends. *)
GiveUp ==
  /\ pending' \subseteq pending
  /\ UNCHANGED log

Next == GiveUp \/ \E e \in Events : Issue(e) \/ Log(e)

Spec == Init /\ [][Next]_journal
=============================================================================
