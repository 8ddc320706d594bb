------------------------------ MODULE DomStore ------------------------------
(***************************************************************************)
(* What the database promises of the objects of a board.  An object is     *)
(* created once, changed while it is there, and removed for good, whoever  *)
(* asks for it and in whatever order the requests arrive; and a numbered   *)
(* change is never made before its event is in the log, unless that event  *)
(* was given up (a full queue, a failed INSERT).                           *)
(***************************************************************************)

CONSTANTS
  Doms,    (* the object ids                                               *)
  Events,  (* the events, each of one object                               *)
  DomOf,   (* the object of an event                                       *)
  None

VARIABLES
  log,     (* the events in the log                                        *)
  gone,    (* the events that were given up                                *)
  life,    (* "absent", "live" or "removed"                                *)
  placed   (* the event that placed an object where it is, or None         *)

store == <<log, gone, life, placed>>

Init ==
  /\ log = {} /\ gone = {}
  /\ life = [d \in Doms |-> "absent"]
  /\ placed = [d \in Doms |-> None]

Log(e) ==
  /\ log' = log \cup {e}
  /\ UNCHANGED <<gone, life, placed>>

GiveUp(e) ==
  /\ gone' = gone \cup {e}
  /\ UNCHANGED <<log, life, placed>>

Settled(e) == e \in log \cup gone

Create(e) ==
  /\ Settled(e) /\ life[DomOf[e]] = "absent"
  /\ life' = [life EXCEPT ![DomOf[e]] = "live"]
  /\ placed' = [placed EXCEPT ![DomOf[e]] = e]
  /\ UNCHANGED <<log, gone>>

Place(e) ==
  /\ Settled(e) /\ life[DomOf[e]] = "live"
  /\ placed' = [placed EXCEPT ![DomOf[e]] = e]
  /\ UNCHANGED <<log, gone, life>>

Remove(e) ==
  /\ Settled(e) /\ life[DomOf[e]] = "live"
  /\ life' = [life EXCEPT ![DomOf[e]] = "removed"]
  /\ UNCHANGED <<log, gone, placed>>

Next ==
  \E e \in Events :
    Log(e) \/ GiveUp(e) \/ Create(e) \/ Place(e) \/ Remove(e)

Spec == Init /\ [][Next]_store
=============================================================================
