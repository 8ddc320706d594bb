------------------------------ MODULE DomEdits ------------------------------
(***************************************************************************)
(* The objects of a board (images, texts, ...): the messages dom-add,      *)
(* dom-transform, dom-payload and dom-remove with the locks they look at   *)
(* (ws/hub.go), the jobs they queue, and the events and dom_objects tables *)
(* the writer goroutine executes them on (db/db.go).                       *)
(*                                                                         *)
(* A session is the reader goroutine of a connection.  A numbered message  *)
(* is two jobs, an event and a change of the object, which are queued one  *)
(* after the other; each may find the queue full.  Rooms are assumed to be *)
(* occupied from one restart to the next (EventLog treats those that are   *)
(* not).                                                                   *)
(***************************************************************************)
EXTENDS Naturals, Sequences, FiniteSets

CONSTANTS
  Sessions,   (* the connections                                           *)
  UserOf,     (* the user of a connection                                  *)
  RoomOf,     (* the room of a connection                                  *)
  Doms,       (* the object ids                                            *)
  QueueCap,   (* the capacity of opCh (10000 in the code)                  *)
  MaxEdits,   (* bound: the number of changes the peers send               *)
  MaxRestart, (* bound: the number of restarts                             *)
  WriteFails, (* whether a statement may fail                              *)
  None

Users  == {UserOf[s] : s \in Sessions}
Rooms  == {RoomOf[s] : s \in Sessions}

(* An event, or the change it stands for: a change of the payload has no   *)
(* event and no id.                                                        *)
Edit(op, d, n, s) == [op |-> op, dom |-> d, id |-> n, from |-> s]
Edits == [op : {"add", "transform", "payload", "remove"}, dom : Doms,
          id : 0..MaxEdits, from : Sessions]

(* The columns: room_id, the change that set x, y, ..., and is_removed; the *)
(* other columns, kind, user_id, layer and payload, are left out.          *)
Row(room, placed, removed) ==
  [room |-> room, placed |-> placed, removed |-> removed]
RowRecords == [room : Rooms, placed : Edits, removed : BOOLEAN]

ASSUME DomEditsAssumption ==
  /\ QueueCap \in Nat \ {0} /\ MaxEdits \in Nat \ {0} /\ MaxRestart \in Nat
  /\ WriteFails \in BOOLEAN
  /\ None \notin Users \cup Edits \cup RowRecords

VARIABLES
  lock,    (* domLocks.buffer: the owner of an object, or None             *)
  clock,   (* Room.clock                                                   *)
  pc,      (* where the handler of a session is                            *)
  hand,    (* the change it is making, or None                             *)
  queue,   (* opCh                                                         *)
  events,  (* table events                                                 *)
  rows,    (* table dom_objects: the row of an object, or None             *)
  shown,   (* the rooms and objects whose dom-add was sent to the room     *)
  adds,    (* history: the dom-adds of an id: none, one or several (2)     *)
  lost,    (* history: the events given up, and the removals not executed  *)
  sent,    (* bound: the changes the peers have sent                       *)
  restarts (* how often the process was restarted                          *)

memory == <<lock, clock, pc, hand, queue>>
disk   == <<events, rows>>
past   == <<shown, adds, lost, sent, restarts>>
vars   == <<memory, disk, past>>

Job(kind, e) == [kind |-> kind, edit |-> e]
Jobs == [kind : {"event", "dom"}, edit : Edits]

(* A handler carries a change exactly while it is handling one, and the    *)
(* queue never passes its capacity.                                        *)
TypeOK ==
  /\ lock   \in [Doms -> Users \cup {None}]
  /\ clock  \in [Rooms -> 0..MaxEdits]
  /\ pc     \in [Sessions -> {"rest", "clock", "first", "second"}]
  /\ hand   \in [Sessions -> Edits \cup {None}]
  /\ queue  \in Seq(Jobs) /\ Len(queue) <= QueueCap
  /\ events \subseteq Edits
  /\ rows   \in [Doms -> RowRecords \cup {None}]
  /\ shown  \subseteq Rooms \X Doms /\ adds \in [Doms -> 0..2]
  /\ lost   \subseteq Jobs
  /\ sent \in 0..MaxEdits /\ restarts \in 0..MaxRestart
  /\ \A s \in Sessions : hand[s] = None <=> pc[s] = "rest"

Init ==
  /\ lock   = [d \in Doms |-> None]
  /\ clock  = [r \in Rooms |-> 0]
  /\ pc     = [s \in Sessions |-> "rest"]
  /\ hand   = [s \in Sessions |-> None]
  /\ queue  = <<>>
  /\ events = {}
  /\ rows   = [d \in Doms |-> None]
  /\ shown  = {} /\ adds = [d \in Doms |-> 0] /\ lost = {}
  /\ sent = 0 /\ restarts = 0

----------------------------------------------------------------------------
(* Locks.                                                                  *)

Lock(s, d) ==
  /\ pc[s] = "rest"
  /\ lock[d] = None
  /\ lock' = [lock EXCEPT ![d] = UserOf[s]]
  /\ UNCHANGED <<clock, pc, hand, queue, disk, past>>

Unlock(s, d) ==
  /\ pc[s] = "rest"
  /\ lock[d] = UserOf[s]
  /\ lock' = [lock EXCEPT ![d] = None]
  /\ UNCHANGED <<clock, pc, hand, queue, disk, past>>

(* Leave releases the locks of the user, whatever the reader is doing.     *)
Leave(s) ==
  /\ \E d \in Doms : lock[d] = UserOf[s]
  /\ lock' = [d \in Doms |-> IF lock[d] = UserOf[s] THEN None ELSE lock[d]]
  /\ UNCHANGED <<clock, pc, hand, queue, disk, past>>

----------------------------------------------------------------------------
(* handleMsg.                                                              *)

(* Peers change the objects they have been shown, by a dom-add that was    *)
(* sent to the room or by a replay, which reads the table.                 *)
Known(s, d) ==
  \/ <<RoomOf[s], d>> \in shown
  \/ rows[d] # None /\ rows[d].room = RoomOf[s]

Begin(s, op, d, at) ==
  /\ pc[s] = "rest"
  /\ sent < MaxEdits /\ sent' = sent + 1
  /\ hand' = [hand EXCEPT ![s] = Edit(op, d, 0, s)]
  /\ pc' = [pc EXCEPT ![s] = at]
  /\ UNCHANGED <<lock, clock, queue, disk, shown, lost, restarts>>

DomAdd(s, d) ==
  /\ adds' = [adds EXCEPT ![d] = IF @ = 0 THEN 1 ELSE 2]
  /\ Begin(s, "add", d, "clock")

(* dom-transform of an object that nobody else has locked; otherwise there *)
(* is no change, only a blank response.                                    *)
DomTransform(s, d) ==
  /\ Known(s, d)
  /\ lock[d] \in {None, UserOf[s]}
  /\ Begin(s, "transform", d, "clock") /\ UNCHANGED adds

(* Neither dom-payload nor dom-remove looks at the lock. *)
DomPayload(s, d) ==
  /\ Known(s, d)
  /\ Begin(s, "payload", d, "second") /\ UNCHANGED adds

DomRemove(s, d) ==
  /\ Known(s, d)
  /\ Begin(s, "remove", d, "clock") /\ UNCHANGED adds

(* The guard on the clock is a bound that never binds: there are at most as *)
(* many ids in use as changes sent.                                        *)
NextClock(s) ==
  /\ pc[s] = "clock" /\ clock[RoomOf[s]] < MaxEdits
  /\ clock' = [clock EXCEPT ![RoomOf[s]] = @ + 1]
  /\ hand' = [hand EXCEPT ![s] =
                Edit(@.op, @.dom, clock[RoomOf[s]] + 1, s)]
  /\ pc' = [pc EXCEPT ![s] = "first"]
  /\ UNCHANGED <<lock, queue, disk, past>>

Lose(j) ==
  lost' = IF j.kind = "event" \/ j.edit.op = "remove"
          THEN lost \cup {j} ELSE lost

(* The mutant queues one too many. *)
FullOffByOne == Len(queue) > QueueCap

Full == Len(queue) = QueueCap

(* A send in a select with a default: a full queue drops the job. *)
TrySend(j) ==
  IF Full
  THEN Lose(j) /\ UNCHANGED queue
  ELSE queue' = Append(queue, j) /\ UNCHANGED lost

(* The two jobs of a numbered change, in their order.  The mutant queues   *)
(* the change before the event.                                            *)
OrderSwapped(at) == IF at = "first" THEN "dom" ELSE "event"

Order(at) == IF at = "first" THEN "event" ELSE "dom"

(* The mutant shows the object to the room before its change is queued.    *)
WriteEventShown(s) ==
  /\ pc[s] = "first"
  /\ TrySend(Job(Order("first"), hand[s]))
  /\ pc' = [pc EXCEPT ![s] = "second"]
  /\ shown' = IF hand[s].op = "add"
              THEN shown \cup {<<RoomOf[s], hand[s].dom>>} ELSE shown
  /\ UNCHANGED <<lock, clock, hand, disk, adds, sent, restarts>>

WriteEvent(s) ==
  /\ pc[s] = "first"
  /\ TrySend(Job(Order("first"), hand[s]))
  /\ pc' = [pc EXCEPT ![s] = "second"]
  /\ UNCHANGED <<lock, clock, hand, disk, shown, adds, sent, restarts>>

(* WriteDom or RemoveDom; then the message goes to the room. *)
WriteDom(s) ==
  /\ pc[s] = "second"
  /\ TrySend(Job(Order("second"), hand[s]))
  /\ shown' = IF hand[s].op = "add"
              THEN shown \cup {<<RoomOf[s], hand[s].dom>>} ELSE shown
  /\ hand' = [hand EXCEPT ![s] = None]
  /\ pc' = [pc EXCEPT ![s] = "rest"]
  /\ UNCHANGED <<lock, clock, disk, adds, sent, restarts>>

----------------------------------------------------------------------------
(* writerLoop executes the oldest job.                                     *)

Execute(kind, ops) ==
  /\ queue # <<>>
  /\ Head(queue).kind = kind /\ Head(queue).edit.op \in ops
  /\ queue' = Tail(queue)
  /\ UNCHANGED <<lock, clock, pc, hand, shown, adds, sent, restarts>>

Fails ==
  /\ WriteFails
  /\ Lose(Head(queue))
  /\ UNCHANGED disk

InsertEvent ==
  /\ Execute("event", {"add", "transform", "remove"})
  /\ \/ events' = events \cup {Head(queue).edit} /\ UNCHANGED <<rows, lost>>
     \/ Fails

Created(e) == Row(RoomOf[e.from], e, FALSE)

(* A plain INSERT: the id of a row, removed or not and in any room, is     *)
(* taken for ever, and the job fails.                                      *)
InsertDom ==
  /\ Execute("dom", {"add"})
  /\ LET e == Head(queue).edit
     IN  \/ /\ rows[e.dom] = None
            /\ rows' = [rows EXCEPT ![e.dom] = Created(e)]
            /\ UNCHANGED <<events, lost>>
         \/ rows[e.dom] # None /\ UNCHANGED <<disk, lost>>
         \/ Fails

(* WHERE id = ? AND room_id = ? AND is_removed = 0.  The mutant forgets    *)
(* the last condition.                                                     *)
MatchesRemoved(e) ==
  rows[e.dom] # None /\ rows[e.dom].room = RoomOf[e.from]

Matches(e) ==
  /\ rows[e.dom] # None
  /\ rows[e.dom].room = RoomOf[e.from]
  /\ ~rows[e.dom].removed

Changed(w, e) ==
  Row(w.room,
      IF e.op = "transform" THEN e ELSE w.placed,
      w.removed \/ e.op = "remove")

UpdateDom ==
  /\ Execute("dom", {"transform", "payload", "remove"})
  /\ LET e == Head(queue).edit
     IN  \/ /\ rows' = IF Matches(e)
                       THEN [rows EXCEPT ![e.dom] = Changed(@, e)] ELSE rows
            /\ UNCHANGED <<events, lost>>
         \/ Fails

----------------------------------------------------------------------------

(* The process ends and starts again, and the rooms are joined again: a    *)
(* clock is the largest id in the table.                                   *)
LastId(r) ==
  CHOOSE n \in 0..MaxEdits :
    /\ n = 0 \/ \E e \in events : RoomOf[e.from] = r /\ e.id = n
    /\ \A e \in events : RoomOf[e.from] = r => e.id <= n

(* The removals that were under way when the process ended. *)
RemovalsUnderway ==
  {j \in {queue[i] : i \in 1..Len(queue)}
         \cup {Job("dom", hand[s]) : s \in {t \in Sessions : hand[t] # None}} :
     j.kind = "dom" /\ j.edit.op = "remove"}

Restart ==
  /\ restarts < MaxRestart
  /\ restarts' = restarts + 1
  /\ lock'  = [d \in Doms |-> None]
  /\ clock' = [r \in Rooms |-> LastId(r)]
  /\ pc'    = [s \in Sessions |-> "rest"]
  /\ hand'  = [s \in Sessions |-> None]
  /\ queue' = <<>>
  /\ lost' = lost \cup RemovalsUnderway
  /\ UNCHANGED <<disk, shown, adds, sent>>

(* Nothing is under way, and the peers may stay silent. *)
Quiet ==
  /\ queue = <<>>
  /\ \A s \in Sessions : pc[s] = "rest"
  /\ UNCHANGED vars

Next ==
  \/ \E s \in Sessions :
       \/ \E d \in Doms :
            \/ Lock(s, d) \/ Unlock(s, d)
            \/ DomAdd(s, d) \/ DomTransform(s, d)
            \/ DomPayload(s, d) \/ DomRemove(s, d)
       \/ Leave(s) \/ NextClock(s) \/ WriteEvent(s) \/ WriteDom(s)
  \/ InsertEvent \/ InsertDom \/ UpdateDom
  \/ Restart \/ Quiet

Spec == Init /\ [][Next]_vars

----------------------------------------------------------------------------
(* Properties.                                                             *)

(* The abstract store: an event is settled when it is in its table, or was *)
(* dropped by a full queue or a failed INSERT.                             *)
Store == INSTANCE DomStore WITH
  Events <- Edits,
  DomOf  <- [e \in Edits |-> e.dom],
  log    <- events,
  gone   <- {j.edit : j \in {k \in lost : k.kind = "event"}},
  life   <- [d \in Doms |->
              IF rows[d] = None THEN "absent"
              ELSE IF rows[d].removed THEN "removed" ELSE "live"],
  placed <- [d \in Doms |-> IF rows[d] = None THEN None ELSE rows[d].placed]

(* The queue, the two jobs of a change, drops, failures and restarts       *)
(* implement the store: a row is created once, changed only while it is    *)
(* live, and never placed, created or removed ahead of its event           *)
(* (hub.go:251-369 with db.go:332-386).                                    *)
ImplementsStore == Store!Spec

(* An object that was added once and whose removal is in the log does not  *)
(* live on in the table, though adding and removing it are two jobs each,  *)
(* of different handlers: it is gone, or its removal is queued or lost     *)
(* (hub.go:251-277 and 353-369, db.go:268-277).                            *)
NoGhosts ==
  \A e \in events :
    e.op = "remove" /\ adds[e.dom] = 1 =>
      \/ rows[e.dom] = None \/ rows[e.dom].removed
      \/ \E i \in 1..Len(queue) : queue[i] = Job("dom", e)
      \/ \E s \in Sessions : hand[s] = e
      \/ Job("dom", e) \in lost
=============================================================================
