--------------------------- MODULE DomEditsProofs ---------------------------
(* Theorems about DomEdits, for any sessions, rooms and objects, any       *)
(* capacity of the queue, and statements that may fail.                    *)
EXTENDS DomEdits, Largest, SequenceTheorems, TLAPS

(* An event that is in the log or was given up: Settled in DomStore. *)
Recorded(e) == e \in events \/ Job("event", e) \in lost

Numbered(e) == e.op # "payload"

Position == 1..Len(queue)

(* A numbered change is queued behind its event, or later. *)
EventFirst ==
  /\ \A i \in Position :
       queue[i].kind = "dom" /\ Numbered(queue[i].edit) =>
         \/ Recorded(queue[i].edit)
         \/ \E k \in Position : k < i /\ queue[k] = Job("event", queue[i].edit)
  /\ \A s \in Sessions :
       pc[s] = "second" /\ Numbered(hand[s]) =>
         \/ Recorded(hand[s])
         \/ \E k \in Position : queue[k] = Job("event", hand[s])

(* The invariant behind the refinement. *)
Inv == TypeOK /\ EventFirst

(* Whoever has heard of an object has it from a dom-add. *)
AddedInv ==
  /\ \A s \in Sessions :
       hand[s] # None => hand[s].from = s /\ adds[hand[s].dom] # 0
  /\ \A i \in Position : adds[queue[i].edit.dom] # 0
  /\ \A e \in events : adds[e.dom] # 0
  /\ \A r \in Rooms : \A d \in Doms : <<r, d>> \in shown => adds[d] # 0
  /\ \A d \in Doms : rows[d] # None => adds[d] # 0

(* The dom-add of object d is handled by s, or is the i-th job. *)
AddHeld(d, s) == hand[s] # None /\ hand[s].op = "add" /\ hand[s].dom = d

AddQueued(d, i) ==
  queue[i].kind = "dom" /\ queue[i].edit.op = "add" /\ queue[i].edit.dom = d

(* Wherever object d is, or is about to be, it is in room r. *)
InRoom(d, r) ==
  /\ \A s \in Sessions : ~AddHeld(d, s)
  /\ \A i \in Position : AddQueued(d, i) => RoomOf[queue[i].edit.from] = r
  /\ rows[d] # None => rows[d].room = r

(* An id that was used for one dom-add is in one place. *)
OnceInv ==
  \A d \in Doms : adds[d] = 1 =>
    /\ \A s \in Sessions : AddHeld(d, s) =>
         /\ rows[d] = None
         /\ \A i \in Position : ~AddQueued(d, i)
         /\ \A t \in Sessions : AddHeld(d, t) => t = s
    /\ \A i \in Position : AddQueued(d, i) =>
         rows[d] = None /\ \A k \in Position : AddQueued(d, k) => k = i
    /\ \A r \in Rooms : <<r, d>> \in shown => InRoom(d, r)

Removal(e) == e.op = "remove" /\ adds[e.dom] = 1

(* A removal is of an object of its room, and is executed after the dom-add. *)
RemovalInv ==
  /\ \A s \in Sessions : hand[s] # None /\ Removal(hand[s]) =>
       InRoom(hand[s].dom, RoomOf[s])
  /\ \A i \in Position : Removal(queue[i].edit) =>
       /\ InRoom(queue[i].edit.dom, RoomOf[queue[i].edit.from])
       /\ queue[i].kind = "dom" =>
            \A k \in Position : AddQueued(queue[i].edit.dom, k) => k < i

(* The object of a removal is gone for good, or the removal has yet to be  *)
(* executed, or was lost.                                                  *)
Absent(d) ==
  /\ rows[d] = None
  /\ \A s \in Sessions : ~AddHeld(d, s)
  /\ \A i \in Position : ~AddQueued(d, i)

Effective(e) ==
  \/ rows[e.dom] # None /\ rows[e.dom].removed
  \/ Absent(e.dom)
  \/ \E i \in Position : queue[i] = Job("dom", e)
  \/ \E s \in Sessions : pc[s] = "second" /\ hand[s] = e
  \/ Job("dom", e) \in lost

EffectInv ==
  /\ \A e \in events : Removal(e) => Effective(e)
  /\ \A i \in Position :
       queue[i].kind = "event" /\ Removal(queue[i].edit) =>
         Effective(queue[i].edit)

(* The invariant behind NoGhosts. *)
ObjectInv == AddedInv /\ OnceInv /\ RemovalInv /\ EffectInv

----------------------------------------------------------------------------
(* Type correctness.                                                       *)

(* What changes, jobs and rows are made of. *)
LEMMA RecordTypes ==
  /\ \A e \in Edits : \A kind \in {"event", "dom"} :
       Job(kind, e) \in Jobs /\ Job(kind, e).kind = kind /\ Job(kind, e).edit = e
  /\ \A j \in Jobs :
       j.edit \in Edits /\ j.kind \in {"event", "dom"} /\ j = Job(j.kind, j.edit)
  /\ \A e \in Edits : /\ e # None /\ e.dom \in Doms /\ e.from \in Sessions
                      /\ RoomOf[e.from] \in Rooms
                      /\ e.op \in {"add", "transform", "payload", "remove"}
                      /\ e.id \in 0..MaxEdits
  /\ \A w \in RowRecords : /\ w # None /\ w.room \in Rooms
                           /\ w.placed \in Edits /\ w.removed \in BOOLEAN
<1>1. \A e \in Edits : \A kind \in {"event", "dom"} :
        Job(kind, e) \in Jobs /\ Job(kind, e).kind = kind /\ Job(kind, e).edit = e
  BY DEF Job, Jobs
<1>2. \A j \in Jobs :
        j.edit \in Edits /\ j.kind \in {"event", "dom"} /\ j = Job(j.kind, j.edit)
  BY DEF Job, Jobs
<1>3. \A e \in Edits : e # None
  BY DomEditsAssumption
<1>4. \A e \in Edits : /\ e.dom \in Doms /\ e.from \in Sessions
                       /\ RoomOf[e.from] \in Rooms
                       /\ e.op \in {"add", "transform", "payload", "remove"}
                       /\ e.id \in 0..MaxEdits
  BY DEF Edits, Rooms
<1>5. \A w \in RowRecords : w # None
  BY DomEditsAssumption
<1>6. \A w \in RowRecords : /\ w.room \in Rooms /\ w.placed \in Edits
                            /\ w.removed \in BOOLEAN
  BY DEF RowRecords
<1> QED BY <1>1, <1>2, <1>3, <1>4, <1>5, <1>6

(* Building an edit and a row. *)
LEMMA EditType ==
  ASSUME NEW op \in {"add", "transform", "payload", "remove"},
         NEW d \in Doms, NEW n \in 0..MaxEdits, NEW s \in Sessions
  PROVE  /\ Edit(op, d, n, s) \in Edits
         /\ Edit(op, d, n, s).op = op /\ Edit(op, d, n, s).dom = d
         /\ Edit(op, d, n, s).id = n /\ Edit(op, d, n, s).from = s
  BY DEF Edit, Edits

(* Row makes a row of its parts.                                           *)
LEMMA RowType ==
  ASSUME NEW r \in Rooms, NEW e \in Edits, NEW b \in BOOLEAN
  PROVE  /\ Row(r, e, b) \in RowRecords
         /\ Row(r, e, b).room = r /\ Row(r, e, b).placed = e
         /\ Row(r, e, b).removed = b
  BY DEF Row, RowRecords

(* The queue after a send and after its oldest job was executed. *)
LEMMA SendQueue ==
  ASSUME TypeOK, NEW j \in Jobs, TrySend(j)
  PROVE  /\ queue' \in Seq(Jobs) /\ Len(queue') <= QueueCap
         /\ \/ queue' = queue /\ Lose(j)
            \/ /\ UNCHANGED lost
               /\ \A i \in Position : i \in Position' /\ queue'[i] = queue[i]
               /\ \A i \in Position' : \/ i \in Position /\ queue'[i] = queue[i]
                                       \/ i = Len(queue) + 1 /\ queue'[i] = j
               /\ Len(queue) + 1 \in Position' /\ queue'[Len(queue) + 1] = j
<1>1. CASE Full
  BY <1>1 DEF TrySend, TypeOK
<1>2. CASE ~Full
  <2>1. queue' = Append(queue, j) /\ UNCHANGED lost
    BY <1>2 DEF TrySend
  <2>2. Len(queue) \in Nat /\ Len(queue) < QueueCap
    BY <1>2, LenProperties, DomEditsAssumption DEF Full, TypeOK
  <2>3. /\ queue' \in Seq(Jobs) /\ Len(queue') = Len(queue) + 1
        /\ \A i \in 1..Len(queue) : queue'[i] = queue[i]
        /\ queue'[Len(queue) + 1] = j
    BY <2>1, AppendProperties DEF TypeOK
  <2> QED BY <2>1, <2>2, <2>3, DomEditsAssumption DEF Position
<1> QED BY <1>1, <1>2

(* The same of the queue after its oldest job was executed.                *)
LEMMA ExecuteQueue ==
  ASSUME TypeOK, NEW kind, NEW ops, Execute(kind, ops)
  PROVE  /\ queue' \in Seq(Jobs) /\ Len(queue') <= QueueCap
         /\ 1 \in Position /\ Head(queue) = queue[1] /\ Head(queue) \in Jobs
         /\ Head(queue).kind = kind /\ Head(queue).edit.op \in ops
         /\ \A i \in Position' : i + 1 \in Position /\ queue'[i] = queue[i + 1]
         /\ \A i \in Position :
              i # 1 => i - 1 \in Position' /\ queue'[i - 1] = queue[i]
<1>1. /\ queue # <<>> /\ queue' = Tail(queue) /\ queue \in Seq(Jobs)
      /\ Len(queue) <= QueueCap
      /\ Head(queue).kind = kind /\ Head(queue).edit.op \in ops
  BY DEF Execute, TypeOK
<1>2. /\ Len(queue) \in Nat /\ Len(queue) > 0 /\ Head(queue) = queue[1]
      /\ Head(queue) \in Jobs
      /\ queue' \in Seq(Jobs) /\ Len(queue') = Len(queue) - 1
      /\ \A i \in 1..Len(queue') : queue'[i] = queue[i + 1]
  BY <1>1
<1> QED BY <1>1, <1>2, DomEditsAssumption DEF Position

(* Every job in the queue is one. *)
LEMMA QueueJobs == TypeOK => \A i \in Position : queue[i] \in Jobs
  BY DEF TypeOK, Position

(* What is lost are jobs, and stays lost.                                  *)
LEMMA LoseType ==
  ASSUME TypeOK, NEW j \in Jobs, Lose(j)
  PROVE  lost' \subseteq Jobs /\ lost \subseteq lost'
  BY DEF TypeOK, Lose

(* The clock a room starts with is an id. *)
LEMMA LastIdType == ASSUME TypeOK, NEW r \in Rooms PROVE LastId(r) \in 0..MaxEdits
<1> DEFINE ids == {0} \cup {e.id : e \in {x \in events : RoomOf[x.from] = r}}
<1>1. ids \in SUBSET (0..MaxEdits) /\ ids # {}
  BY RecordTypes, DomEditsAssumption DEF TypeOK
<1>2. PICK n \in ids : \A m \in ids : m <= n
  <2> HIDE DEF ids
  <2> QED BY <1>1, HasLargest, DomEditsAssumption
<1>3. /\ n \in 0..MaxEdits
      /\ n = 0 \/ \E e \in events : RoomOf[e.from] = r /\ e.id = n
      /\ \A e \in events : RoomOf[e.from] = r => e.id <= n
  BY <1>1, <1>2
<1> QED BY <1>3 DEF LastId

(* The initial states are of the right type.                               *)
LEMMA TypeInit == Init => TypeOK
  BY DomEditsAssumption, EmptySeq DEF Init, TypeOK

(* A change that is begun. *)
LEMMA BeginType ==
  ASSUME TypeOK, NEW s \in Sessions, NEW d \in Doms,
         NEW op \in {"add", "transform", "payload", "remove"},
         NEW at \in {"clock", "second"},
         Begin(s, op, d, at), adds' \in [Doms -> 0..2]
  PROVE  TypeOK'
<1>1. PICK e \in Edits : e = Edit(op, d, 0, s) /\ e # None
  <2>1. 0 \in 0..MaxEdits
    BY DomEditsAssumption
  <2>2. Edit(op, d, 0, s) \in Edits
    BY <2>1, EditType
  <2> QED BY <2>2, RecordTypes
<1>2. hand' = [hand EXCEPT ![s] = e]
  BY <1>1 DEF Begin
<1>3. sent' \in 0..MaxEdits
  BY DomEditsAssumption DEF Begin, TypeOK
<1>4. /\ pc' \in [Sessions -> {"rest", "clock", "first", "second"}]
      /\ hand' \in [Sessions -> Edits \cup {None}]
      /\ \A t \in Sessions : hand'[t] = None <=> pc'[t] = "rest"
  <2> HIDE DEF Edits
  <2> QED BY <1>1, <1>2 DEF Begin, TypeOK
<1> QED BY <1>3, <1>4 DEF Begin, TypeOK, disk

(* Every step keeps the types. *)
LEMMA TypeStep == TypeOK /\ [Next]_vars => TypeOK'
<1> SUFFICES ASSUME TypeOK, [Next]_vars PROVE TypeOK'
  OBVIOUS
<1>0. \A s \in Sessions : RoomOf[s] \in Rooms /\ UserOf[s] \in Users
  BY DEF Rooms, Users
<1>1. ASSUME NEW s \in Sessions, NEW d \in Doms, Lock(s, d) \/ Unlock(s, d)
      PROVE  TypeOK'
  BY <1>0, <1>1 DEF Lock, Unlock, TypeOK, disk, past
<1>2. ASSUME NEW s \in Sessions, NEW d \in Doms,
             \/ DomAdd(s, d) \/ DomTransform(s, d)
             \/ DomPayload(s, d) \/ DomRemove(s, d)
      PROVE  TypeOK'
  <2>1. adds' \in [Doms -> 0..2]
    BY <1>2 DEF DomAdd, DomTransform, DomPayload, DomRemove, TypeOK
  <2> QED BY <1>2, <2>1, BeginType
          DEF DomAdd, DomTransform, DomPayload, DomRemove
<1>3. ASSUME NEW s \in Sessions, Leave(s) PROVE TypeOK'
  <2>1. lock' \in [Doms -> Users \cup {None}]
    BY <1>3 DEF Leave, TypeOK
  <2> QED BY <1>3, <2>1 DEF Leave, TypeOK, disk, past
<1>4. ASSUME NEW s \in Sessions, NextClock(s) PROVE TypeOK'
  <2>1. hand[s] \in Edits /\ clock[RoomOf[s]] + 1 \in 0..MaxEdits
    BY <1>0, <1>4, DomEditsAssumption DEF NextClock, TypeOK
  <2>2. hand'[s] \in Edits /\ hand' \in [Sessions -> Edits \cup {None}]
    <3>1. PICK e \in Edits :
            e = Edit(hand[s].op, hand[s].dom, clock[RoomOf[s]] + 1, s)
      <4>1. /\ hand[s].op \in {"add", "transform", "payload", "remove"}
            /\ hand[s].dom \in Doms
        BY <2>1, RecordTypes
      <4> QED BY <2>1, <4>1, EditType
    <3>2. hand' = [hand EXCEPT ![s] = e]
      BY <1>4, <3>1 DEF NextClock
    <3> QED BY <3>1, <3>2 DEF TypeOK
  <2>3. clock' \in [Rooms -> 0..MaxEdits]
    BY <1>0, <1>4, <2>1 DEF NextClock, TypeOK
  <2>4. hand'[s] # None
    BY <2>2, RecordTypes
  <2> QED BY <1>4, <2>2, <2>3, <2>4 DEF NextClock, TypeOK, disk, past
<1>5. ASSUME NEW s \in Sessions, WriteEvent(s) PROVE TypeOK'
  <2>1. hand[s] \in Edits
    BY <1>5 DEF WriteEvent, TypeOK
  <2>2. PICK j \in Jobs : j = Job(Order("first"), hand[s])
    BY <2>1, RecordTypes DEF Order
  <2>3. TrySend(j)
    BY <1>5, <2>2 DEF WriteEvent
  <2>4. queue' \in Seq(Jobs) /\ Len(queue') <= QueueCap /\ lost' \subseteq Jobs
    BY <2>3, SendQueue, LoseType DEF TypeOK
  <2> QED BY <1>5, <2>4 DEF WriteEvent, TypeOK, disk
<1>6. ASSUME NEW s \in Sessions, WriteDom(s) PROVE TypeOK'
  <2>1. hand[s] \in Edits
    BY <1>6 DEF WriteDom, TypeOK
  <2>2. PICK j \in Jobs : j = Job(Order("second"), hand[s])
    BY <2>1, RecordTypes DEF Order
  <2>3. TrySend(j)
    BY <1>6, <2>2 DEF WriteDom
  <2>4. queue' \in Seq(Jobs) /\ Len(queue') <= QueueCap /\ lost' \subseteq Jobs
    BY <2>3, SendQueue, LoseType DEF TypeOK
  <2>5. shown' \subseteq Rooms \X Doms
    BY <1>0, <1>6, <2>1, RecordTypes DEF WriteDom, TypeOK
  <2> QED BY <1>6, <2>4, <2>5 DEF WriteDom, TypeOK, disk
<1>7. CASE InsertEvent
  <2>1. /\ queue' \in Seq(Jobs) /\ Len(queue') <= QueueCap
        /\ Head(queue) \in Jobs
    BY <1>7, ExecuteQueue DEF InsertEvent
  <2>2. events' \subseteq Edits /\ rows' = rows
    <3>1. Head(queue).edit \in Edits
      BY <2>1, RecordTypes
    <3> QED BY <1>7, <3>1 DEF InsertEvent, Fails, disk, TypeOK
  <2>3. lost' = lost \/ Lose(Head(queue))
    BY <1>7 DEF InsertEvent, Fails
  <2>4. lost' \subseteq Jobs
    BY <2>1, <2>3, LoseType DEF TypeOK
  <2> QED BY <1>7, <2>1, <2>2, <2>4 DEF InsertEvent, Execute, TypeOK
<1>8. CASE InsertDom
  <2>1. /\ queue' \in Seq(Jobs) /\ Len(queue') <= QueueCap
        /\ Head(queue) \in Jobs
    BY <1>8, ExecuteQueue DEF InsertDom
  <2>2. Created(Head(queue).edit) \in RowRecords
    BY <2>1, RecordTypes, RowType DEF Created
  <2>3. /\ events' = events
        /\ rows' \in [Doms -> RowRecords \cup {None}]
    BY <1>8, <2>2 DEF InsertDom, Fails, disk, TypeOK
  <2>4. lost' = lost \/ Lose(Head(queue))
    BY <1>8 DEF InsertDom, Fails
  <2>5. lost' \subseteq Jobs
    BY <2>1, <2>4, LoseType DEF TypeOK
  <2> QED BY <1>8, <2>1, <2>3, <2>5 DEF InsertDom, Execute, TypeOK
<1>9. CASE UpdateDom
  <2>1. /\ queue' \in Seq(Jobs) /\ Len(queue') <= QueueCap
        /\ Head(queue) \in Jobs
    BY <1>9, ExecuteQueue DEF UpdateDom
  <2> DEFINE e == Head(queue).edit
  <2>2. e \in Edits /\ e.dom \in Doms
    BY <2>1, RecordTypes
  <2>3. ASSUME Matches(e) PROVE Changed(rows[e.dom], e) \in RowRecords
    <3>1. rows[e.dom] \in RowRecords
      BY <2>2, <2>3 DEF Matches, TypeOK
    <3> QED BY <2>2, <3>1, RecordTypes, RowType DEF Changed
  <2>4. /\ events' = events /\ lost' \subseteq Jobs
        /\ rows' \in [Doms -> RowRecords \cup {None}]
    BY <1>9, <2>1, <2>2, <2>3, LoseType DEF UpdateDom, Fails, disk, TypeOK
  <2> QED BY <1>9, <2>1, <2>4 DEF UpdateDom, Execute, TypeOK
<1>10. CASE Restart
  <2>1. /\ clock' \in [Rooms -> 0..MaxEdits] /\ queue' \in Seq(Jobs)
        /\ Len(queue') <= QueueCap /\ restarts' \in 0..MaxRestart
    BY <1>10, LastIdType, EmptySeq, DomEditsAssumption DEF Restart, TypeOK
  <2>2. RemovalsUnderway \subseteq Jobs
    BY QueueJobs, RecordTypes DEF RemovalsUnderway, TypeOK, Position
  <2>3. lost' \subseteq Jobs
    BY <1>10, <2>2 DEF Restart, TypeOK
  <2> QED BY <1>10, <2>1, <2>3 DEF Restart, TypeOK, disk
<1>11. CASE UNCHANGED vars
  BY <1>11 DEF vars, memory, disk, past, TypeOK
<1> QED BY <1>1, <1>2, <1>3, <1>4, <1>5, <1>6, <1>7, <1>8, <1>9, <1>10, <1>11
        DEF Next, Quiet

(* The types of all variables; in particular the queue stays within its    *)
(* capacity, and a handler carries a change exactly while it is handling   *)
(* one (hub.go:251-369, db.go:536-569).                                    *)
THEOREM TypeCorrect == Spec => []TypeOK
  BY TypeInit, TypeStep, PTL DEF Spec

----------------------------------------------------------------------------
(* A change is queued behind its event.                                    *)

(* An event stays recorded. *)
LEMMA RecordedStays ==
  ASSUME events \subseteq events', lost \subseteq lost', NEW e, Recorded(e)
  PROVE  Recorded(e)'
  BY DEF Recorded

(* A handler's step that queues nothing. *)
LEMMA EventFirstFrame ==
  ASSUME EventFirst, UNCHANGED <<queue, events, lost>>,
         \A s \in Sessions :
           \/ pc'[s] = pc[s] /\ hand'[s] = hand[s]
           \/ pc'[s] # "second"
           \/ ~Numbered(hand'[s])
  PROVE  EventFirst'
  BY DEF EventFirst, Recorded, Numbered, Position

(* A job that is queued, or dropped if it is an event. *)
LEMMA EventFirstSend ==
  ASSUME TypeOK, EventFirst, NEW s \in Sessions, NEW e \in Edits, e = hand[s],
         NEW kind \in {"event", "dom"}, TrySend(Job(kind, e)),
         UNCHANGED events,
         kind = "event" => hand'[s] = e,
         kind = "dom" => pc[s] = "second" /\ pc'[s] # "second",
         \A t \in Sessions \ {s} : pc'[t] = pc[t] /\ hand'[t] = hand[t]
  PROVE  EventFirst'
<1> DEFINE j == Job(kind, e)
           Behind(x) == \E k \in Position : queue[k] = Job("event", x)
<1>0. j \in Jobs /\ j.kind = kind /\ j.edit = e
  BY RecordTypes
<1>1. /\ \A i \in Position : i \in Position' /\ queue'[i] = queue[i]
      /\ lost \subseteq lost'
      /\ \A i \in Position' : \/ i \in Position /\ queue'[i] = queue[i]
                              \/ i = Len(queue) + 1 /\ queue'[i] = j
      /\ j \in lost' \/ (Len(queue) + 1 \in Position' /\ queue'[Len(queue) + 1] = j)
         \/ kind = "dom"
  <2>1. \/ queue' = queue /\ Lose(j)
        \/ /\ UNCHANGED lost
           /\ \A i \in Position : i \in Position' /\ queue'[i] = queue[i]
           /\ \A i \in Position' : \/ i \in Position /\ queue'[i] = queue[i]
                                   \/ i = Len(queue) + 1 /\ queue'[i] = j
           /\ Len(queue) + 1 \in Position' /\ queue'[Len(queue) + 1] = j
    BY <1>0, SendQueue
  <2>2. CASE queue' = queue /\ Lose(j)
    BY <1>0, <2>2 DEF Lose, Position
  <2> QED BY <2>1, <2>2
<1>2. \A k \in Position : k < Len(queue) + 1
  BY DEF Position, TypeOK
<1>3. \A x : Recorded(x) => Recorded(x)'
  BY <1>1 DEF Recorded
<1>4. ASSUME NEW i \in Position', queue'[i].kind = "dom", Numbered(queue'[i].edit)
      PROVE  \/ Recorded(queue[i].edit)'
             \/ \E k \in Position' : k < i /\ queue'[k] = Job("event", queue'[i].edit)
  <2>1. CASE i \in Position /\ queue'[i] = queue[i]
    <3> PICK x : x = queue[i].edit
      OBVIOUS
    <3>1. Recorded(x) \/ \E k \in Position : k < i /\ queue[k] = Job("event", x)
      BY <1>4, <2>1 DEF EventFirst
    <3>2. Recorded(x)' \/ \E k \in Position' : k < i /\ queue'[k] = Job("event", x)
      BY <1>1, <1>3, <3>1
    <3> QED BY <2>1, <3>2 DEF Recorded
  <2>2. CASE i = Len(queue) + 1 /\ queue'[i] = j
    <3>1. kind = "dom" /\ queue'[i].edit = e /\ Numbered(e)
      BY <1>0, <1>4, <2>2
    <3>2. Recorded(e) \/ Behind(e)
      BY <3>1 DEF EventFirst
    <3>3. Recorded(e)' \/ \E k \in Position' : k < i /\ queue'[k] = Job("event", e)
      BY <1>1, <1>2, <1>3, <2>2, <3>2
    <3> QED BY <3>1, <3>3 DEF Recorded
  <2> QED BY <1>1, <2>1, <2>2
<1>5. ASSUME NEW t \in Sessions, pc'[t] = "second", Numbered(hand'[t])
      PROVE  \/ Recorded(hand[t])'
             \/ \E k \in Position' : queue'[k] = Job("event", hand'[t])
  <2>1. CASE t = s
    <3>1. kind = "event" /\ hand'[t] = e
      BY <1>5, <2>1
    <3> QED BY <1>1, <3>1 DEF Recorded
  <2>2. CASE t # s
    <3> PICK x : x = hand[t]
      OBVIOUS
    <3>1. Recorded(x) \/ Behind(x)
      BY <1>5, <2>2 DEF EventFirst
    <3>2. Recorded(x)' \/ \E k \in Position' : queue'[k] = Job("event", x)
      BY <1>1, <1>3, <3>1
    <3> QED BY <2>2, <3>2 DEF Recorded
  <2> QED BY <2>1, <2>2
<1> QED BY <1>4, <1>5 DEF EventFirst

(* The oldest job was executed; if it was an event, it is recorded. *)
LEMMA EventFirstExecute ==
  ASSUME TypeOK, EventFirst, NEW kind, NEW ops, Execute(kind, ops),
         events \subseteq events', lost \subseteq lost',
         NEW e, e = Head(queue).edit, kind = "event" => Recorded(e)'
  PROVE  EventFirst'
<1>1. /\ 1 \in Position /\ Head(queue) = queue[1] /\ Head(queue) \in Jobs
      /\ Head(queue).kind = kind
      /\ \A i \in Position' : i + 1 \in Position /\ queue'[i] = queue[i + 1]
      /\ \A i \in Position :
           i # 1 => i - 1 \in Position' /\ queue'[i - 1] = queue[i]
  BY ExecuteQueue
<1>2. pc' = pc /\ hand' = hand
  BY DEF Execute
<1>3. ASSUME NEW x, Recorded(x) PROVE Recorded(x)'
  BY <1>3, RecordedStays
<1>4. ASSUME NEW x, NEW k \in Position, queue[k] = Job("event", x)
      PROVE  Recorded(x)' \/ (k - 1 \in Position' /\ queue'[k - 1] = Job("event", x))
  <2>1. CASE k = 1
    <3>1. kind = "event" /\ e = x
      BY <1>1, <1>4, <2>1 DEF Job
    <3> QED BY <3>1
  <2> QED BY <1>1, <1>4, <2>1
<1>5. ASSUME NEW i \in Position', queue'[i].kind = "dom", Numbered(queue'[i].edit)
      PROVE  \/ Recorded(queue[i].edit)'
             \/ \E k \in Position' : k < i /\ queue'[k] = Job("event", queue'[i].edit)
  <2> PICK x : x = queue[i + 1].edit
    OBVIOUS
  <2>1. i \in Nat /\ i + 1 \in Position /\ queue'[i] = queue[i + 1]
    BY <1>1 DEF Position
  <2>2. \/ Recorded(x)
        \/ \E k \in Position : k < i + 1 /\ queue[k] = Job("event", x)
    BY <1>5, <2>1 DEF EventFirst
  <2>3. \A k \in Position : k < i + 1 => k - 1 < i
    BY <2>1 DEF Position
  <2>4. Recorded(x)' \/ \E k \in Position' : k < i /\ queue'[k] = Job("event", x)
    BY <1>3, <1>4, <2>2, <2>3
  <2> QED BY <2>1, <2>4 DEF Recorded
<1>6. ASSUME NEW t \in Sessions, pc'[t] = "second", Numbered(hand'[t])
      PROVE  \/ Recorded(hand[t])'
             \/ \E k \in Position' : queue'[k] = Job("event", hand'[t])
  <2> PICK x : x = hand[t]
    OBVIOUS
  <2>1. Recorded(x) \/ \E k \in Position : queue[k] = Job("event", x)
    BY <1>2, <1>6 DEF EventFirst
  <2>2. Recorded(x)' \/ \E k \in Position' : queue'[k] = Job("event", x)
    BY <1>3, <1>4, <2>1
  <2> QED BY <1>2, <2>2 DEF Recorded
<1> QED BY <1>5, <1>6 DEF EventFirst

(* Every step keeps the order. *)
LEMMA InvStep == Inv /\ [Next]_vars => Inv'
<1> SUFFICES ASSUME TypeOK, EventFirst, [Next]_vars PROVE EventFirst'
  BY TypeStep DEF Inv
<1>1. ASSUME NEW s \in Sessions, NEW d \in Doms,
             \/ Lock(s, d) \/ Unlock(s, d)
             \/ DomAdd(s, d) \/ DomTransform(s, d)
             \/ DomPayload(s, d) \/ DomRemove(s, d)
      PROVE  EventFirst'
  <2>1. CASE Lock(s, d) \/ Unlock(s, d)
    BY <2>1, EventFirstFrame DEF Lock, Unlock, disk, past
  <2>2. ASSUME NEW op \in {"add", "transform", "remove"}, Begin(s, op, d, "clock")
        PROVE  EventFirst'
    BY <2>2, EventFirstFrame DEF Begin, TypeOK, disk
  <2>3. CASE DomPayload(s, d)
    <3>1. ~Numbered(hand'[s])
      BY <2>3 DEF DomPayload, Begin, TypeOK, Numbered, Edit
    <3> QED BY <2>3, <3>1, EventFirstFrame DEF DomPayload, Begin, TypeOK, disk
  <2> QED BY <1>1, <2>1, <2>2, <2>3 DEF DomAdd, DomTransform, DomRemove
<1>2. ASSUME NEW s \in Sessions, Leave(s) \/ NextClock(s) PROVE EventFirst'
  BY <1>2, EventFirstFrame DEF Leave, NextClock, TypeOK, disk, past
<1>3. ASSUME NEW s \in Sessions, WriteEvent(s) PROVE EventFirst'
  <2>1. PICK e \in Edits : e = hand[s]
    BY <1>3 DEF WriteEvent, TypeOK
  <2>2. TrySend(Job("event", e)) /\ hand' = hand /\ events' = events
    BY <1>3, <2>1 DEF WriteEvent, Order, disk
  <2> QED BY <1>3, <2>1, <2>2, EventFirstSend DEF WriteEvent, TypeOK
<1>4. ASSUME NEW s \in Sessions, WriteDom(s) PROVE EventFirst'
  <2>1. PICK e \in Edits : e = hand[s]
    BY <1>4 DEF WriteDom, TypeOK
  <2>2. TrySend(Job("dom", e)) /\ events' = events
    BY <1>4, <2>1 DEF WriteDom, Order, disk
  <2> QED BY <1>4, <2>1, <2>2, EventFirstSend DEF WriteDom, TypeOK
<1>5. CASE InsertEvent
  <2>1. PICK e : e = Head(queue).edit
    OBVIOUS
  <2>2. \/ events' = events \cup {e} /\ lost' = lost
        \/ events' = events /\ lost' = lost \cup {Job("event", e)}
    <3>1. Head(queue) = Job("event", e)
      BY <1>5, <2>1, ExecuteQueue, RecordTypes DEF InsertEvent
    <3> QED BY <1>5, <2>1, <3>1 DEF InsertEvent, Fails, Lose, disk, Job
  <2>3. Recorded(e)'
    BY <2>2 DEF Recorded
  <2> QED BY <1>5, <2>1, <2>2, <2>3, EventFirstExecute DEF InsertEvent
<1>6. CASE InsertDom
  BY <1>6, EventFirstExecute DEF InsertDom, Fails, Lose, disk
<1>7. CASE UpdateDom
  BY <1>7, EventFirstExecute DEF UpdateDom, Fails, Lose, disk
<1>8. CASE Restart
  BY <1>8 DEF Restart, EventFirst, Position
<1>9. CASE UNCHANGED vars
  BY <1>9, EventFirstFrame DEF vars, memory, disk, past
<1> QED BY <1>1, <1>2, <1>3, <1>4, <1>5, <1>6, <1>7, <1>8, <1>9
        DEF Next, Quiet

(* A change is never ahead of its event.                                   *)
LEMMA InvCorrect == Spec => []Inv
<1>1. Init => Inv
  BY TypeInit DEF Init, Inv, EventFirst, Position
<1> QED BY <1>1, InvStep, PTL DEF Spec

----------------------------------------------------------------------------
(* The tables implement the store.                                         *)

(* Steps that settle no event and touch no row. *)
LEMMA Stutters ==
  ASSUME UNCHANGED <<events, rows>>,
         \A j : j.kind = "event" => (j \in lost <=> j \in lost')
  PROVE  UNCHANGED Store!store
<1>1. {k \in lost : k.kind = "event"} = {k \in lost' : k.kind = "event"}
  OBVIOUS
<1> QED BY <1>1 DEF Store!store

(* A job that is lost is an event that is given up, or nothing the store   *)
(* knows of.                                                               *)
LEMMA LosesEvent ==
  ASSUME UNCHANGED <<events, rows>>, NEW j \in Jobs, Lose(j)
  PROVE  [Store!Next]_Store!store
<1>1. CASE j.kind = "event"
  <2>1. j.edit \in Edits
    BY RecordTypes
  <2>2. lost' = lost \cup {j}
    BY <1>1 DEF Lose
  <2>3. {k.edit : k \in {x \in lost' : x.kind = "event"}} =
        {k.edit : k \in {x \in lost : x.kind = "event"}} \cup {j.edit}
    BY <1>1, <2>2
  <2>4. Store!GiveUp(j.edit)
    BY <2>3 DEF Store!GiveUp
  <2> QED BY <2>1, <2>4 DEF Store!Next
<1>2. CASE j.kind # "event"
  <2>1. \A k : k.kind = "event" => (k \in lost <=> k \in lost')
    BY <1>2 DEF Lose
  <2> QED BY <2>1, Stutters
<1> QED BY <1>1, <1>2

(* The oldest job is a change of an object; its event is settled. *)
LEMMA HeadSettled ==
  ASSUME Inv, NEW ops, Execute("dom", ops), NEW e, e = Head(queue).edit
  PROVE  /\ e \in Edits /\ e.op \in ops
         /\ Numbered(e) => Store!Settled(e)
<1>1. /\ 1 \in Position /\ Head(queue) = queue[1] /\ Head(queue) \in Jobs
      /\ Head(queue).kind = "dom" /\ Head(queue).edit.op \in ops
  BY ExecuteQueue DEF Inv
<1>2. ASSUME Numbered(e) PROVE Recorded(e)
  <2>1. ~ \E k \in Position : k < 1
    BY DEF Position
  <2> QED BY <1>1, <1>2, <2>1 DEF Inv, EventFirst
<1>3. ASSUME Recorded(e) PROVE Store!Settled(e)
  BY <1>3 DEF Recorded, Store!Settled, Job
<1> QED BY <1>1, <1>2, <1>3, RecordTypes

(* Every step is a step of the store, or none. *)
LEMMA StoreStep == Inv /\ [Next]_vars => [Store!Next]_Store!store
<1> SUFFICES ASSUME Inv, [Next]_vars PROVE [Store!Next]_Store!store
  OBVIOUS
<1>0. TypeOK
  BY DEF Inv
<1>1. ASSUME NEW s \in Sessions, NEW d \in Doms,
             \/ Lock(s, d) \/ Unlock(s, d)
             \/ DomAdd(s, d) \/ DomTransform(s, d)
             \/ DomPayload(s, d) \/ DomRemove(s, d)
      PROVE  [Store!Next]_Store!store
  BY <1>1, Stutters DEF Lock, Unlock, DomAdd, DomTransform, DomPayload,
                        DomRemove, Begin, disk, past
<1>2. ASSUME NEW s \in Sessions, Leave(s) \/ NextClock(s)
      PROVE  [Store!Next]_Store!store
  BY <1>2, Stutters DEF Leave, NextClock, disk, past
<1>3. ASSUME NEW s \in Sessions, WriteEvent(s) \/ WriteDom(s)
      PROVE  [Store!Next]_Store!store
  <2>1. PICK j \in Jobs : TrySend(j)
    <3>1. hand[s] \in Edits
      BY <1>0, <1>3 DEF WriteEvent, WriteDom, TypeOK
    <3>2. /\ Job(Order("first"), hand[s]) \in Jobs
          /\ Job(Order("second"), hand[s]) \in Jobs
      BY <3>1, RecordTypes DEF Order
    <3> QED BY <1>3, <3>2 DEF WriteEvent, WriteDom
  <2>2. UNCHANGED <<events, rows>>
    BY <1>3 DEF WriteEvent, WriteDom, disk
  <2>3. lost' = lost \/ Lose(j)
    BY <2>1 DEF TrySend
  <2> QED BY <2>2, <2>3, LosesEvent, Stutters
<1>4. CASE InsertEvent
  <2>1. PICK j \in Jobs : j = Head(queue)
    BY <1>0, <1>4, ExecuteQueue DEF InsertEvent
  <2>2. CASE Fails
    BY <2>1, <2>2, LosesEvent DEF Fails, disk
  <2>3. CASE events' = events \cup {Head(queue).edit} /\ UNCHANGED <<rows, lost>>
    <3>1. j.edit \in Edits
      BY RecordTypes
    <3>2. Store!Log(j.edit)
      BY <2>1, <2>3 DEF Store!Log
    <3> QED BY <3>1, <3>2 DEF Store!Next
  <2> QED BY <1>4, <2>2, <2>3 DEF InsertEvent
<1>5. CASE InsertDom
  <2>1. PICK e : e = Head(queue).edit
    OBVIOUS
  <2>2. e \in Edits /\ e.dom \in Doms /\ Store!Settled(e)
    <3>1. e \in Edits /\ e.op = "add" /\ (Numbered(e) => Store!Settled(e))
      BY <1>5, <2>1, HeadSettled DEF InsertDom
    <3> QED BY <3>1, RecordTypes DEF Numbered
  <2>3. CASE Fails
    <3>1. Head(queue) \in Jobs
      BY <1>0, <1>5, ExecuteQueue DEF InsertDom
    <3> QED BY <2>3, <3>1, LosesEvent DEF Fails, disk
  <2>4. CASE rows[e.dom] # None /\ UNCHANGED <<disk, lost>>
    BY <2>4, Stutters DEF disk
  <2>5. CASE /\ rows[e.dom] = None
             /\ rows' = [rows EXCEPT ![e.dom] = Created(e)]
             /\ UNCHANGED <<events, lost>>
    <3>1. PICK w \in RowRecords :
            w = Created(e) /\ w.placed = e /\ ~w.removed /\ w # None
      <4>1. RoomOf[e.from] \in Rooms
        BY <2>2, RecordTypes
      <4>2. /\ Created(e) \in RowRecords
            /\ Created(e).placed = e /\ ~Created(e).removed
        BY <2>2, <4>1, RowType DEF Created
      <4> QED BY <4>2, RecordTypes
    <3>2. rows \in [Doms -> RowRecords \cup {None}] /\ rows' = [rows EXCEPT ![e.dom] = w]
      BY <1>0, <2>5, <3>1 DEF TypeOK
    <3>3. Store!Create(e)
      <4> HIDE DEF Edits, RowRecords
      <4> QED BY <2>2, <2>5, <3>1, <3>2 DEF Store!Create
    <3> QED BY <2>2, <3>3 DEF Store!Next
  <2> QED BY <1>5, <2>1, <2>3, <2>4, <2>5 DEF InsertDom
<1>6. CASE UpdateDom
  <2>1. PICK e : e = Head(queue).edit
    OBVIOUS
  <2>2. /\ e \in Edits /\ e.dom \in Doms /\ e.op \in {"transform", "payload", "remove"}
        /\ Numbered(e) => Store!Settled(e)
    BY <1>6, <2>1, HeadSettled, RecordTypes DEF UpdateDom
  <2>3. CASE Fails
    <3>1. Head(queue) \in Jobs
      BY <1>0, <1>6, ExecuteQueue DEF UpdateDom
    <3> QED BY <2>3, <3>1, LosesEvent DEF Fails, disk
  <2>4. CASE ~Matches(e) /\ UNCHANGED <<rows, events, lost>>
    BY <2>4, Stutters
  <2>5. CASE /\ Matches(e)
             /\ rows' = [rows EXCEPT ![e.dom] = Changed(@, e)]
             /\ UNCHANGED <<events, lost>>
    <3>1. PICK v \in RowRecords : v = rows[e.dom] /\ ~v.removed /\ v # None
      BY <1>0, <2>2, <2>5 DEF Matches, TypeOK
    <3>2. PICK w \in RowRecords :
            /\ w = Changed(v, e) /\ w # None
            /\ w.placed = (IF e.op = "transform" THEN e ELSE v.placed)
            /\ w.removed = (e.op = "remove")
      <4> DEFINE at == IF e.op = "transform" THEN e ELSE v.placed
      <4>1. v.room \in Rooms /\ at \in Edits
        BY <2>2, <3>1, RecordTypes
      <4>2. PICK b \in BOOLEAN : b = (v.removed \/ e.op = "remove")
        OBVIOUS
      <4>3. Changed(v, e) = Row(v.room, at, b)
        BY <4>2 DEF Changed
      <4>4. /\ Changed(v, e) \in RowRecords
            /\ Changed(v, e).placed = at /\ Changed(v, e).removed = b
        <5> HIDE DEF at
        <5> QED BY <4>1, <4>3, RowType
      <4> QED BY <3>1, <4>2, <4>4, RecordTypes
    <3>3. rows \in [Doms -> RowRecords \cup {None}] /\ rows' = [rows EXCEPT ![e.dom] = w]
      BY <1>0, <2>5, <3>1, <3>2 DEF TypeOK
    <3> HIDE DEF Edits, RowRecords
    <3>4. CASE e.op = "transform"
      <4>1. Store!Place(e)
        BY <2>2, <2>5, <3>1, <3>2, <3>3, <3>4 DEF Store!Place, Numbered
      <4> QED BY <2>2, <4>1 DEF Store!Next
    <3>5. CASE e.op = "remove"
      <4>1. Store!Remove(e)
        BY <2>2, <2>5, <3>1, <3>2, <3>3, <3>5 DEF Store!Remove, Numbered
      <4> QED BY <2>2, <4>1 DEF Store!Next
    <3>6. CASE e.op = "payload"
      BY <2>2, <2>5, <3>1, <3>2, <3>3, <3>6 DEF Store!store
    <3> QED BY <2>2, <3>4, <3>5, <3>6
  <2> QED BY <1>6, <2>1, <2>3, <2>4, <2>5 DEF UpdateDom
<1>7. CASE Restart
  <2>1. \A j : j.kind = "event" => (j \in lost <=> j \in lost')
    BY <1>7 DEF Restart, RemovalsUnderway
  <2> QED BY <1>7, <2>1, Stutters DEF Restart, disk
<1>8. CASE UNCHANGED vars
  BY <1>8, Stutters DEF vars, disk, past
<1> QED BY <1>1, <1>2, <1>3, <1>4, <1>5, <1>6, <1>7, <1>8 DEF Next, Quiet

(* The queue, the two jobs of a change, drops, failures and restarts       *)
(* implement the store: a row is created once, changed only while it is    *)
(* live, and never placed, created or removed ahead of its event           *)
(* (hub.go:251-369 with db.go:332-386).                                    *)
THEOREM ImplementsStoreCorrect == Spec => ImplementsStore
<1>1. Init => Store!Init
  BY DEF Init, Store!Init
<1> QED BY <1>1, StoreStep, InvCorrect, PTL DEF Spec, ImplementsStore, Store!Spec

----------------------------------------------------------------------------
(* Removals take effect.                                                   *)

(* A step that changes what is in no hand, in no queue and in no table. *)
LEMMA ObjectFrame ==
  ASSUME ObjectInv, UNCHANGED <<pc, hand, queue, disk, shown, adds, lost>>
  PROVE  ObjectInv'
<1>1. UNCHANGED Position /\ UNCHANGED <<rows, events>>
  BY DEF Position, disk
<1>2. /\ \A d, s : AddHeld(d, s)' <=> AddHeld(d, s)
      /\ \A d, i : AddQueued(d, i)' <=> AddQueued(d, i)
  BY DEF AddHeld, AddQueued
<1>3. /\ \A d, r : InRoom(d, r)' <=> InRoom(d, r)
      /\ \A e : Effective(e)' <=> Effective(e)
      /\ \A e : Removal(e)' <=> Removal(e)
  BY <1>1, <1>2 DEF InRoom, Effective, Absent, Removal
<1>4. AddedInv'
  BY <1>1 DEF ObjectInv, AddedInv
<1>5. OnceInv'
  BY <1>1, <1>2, <1>3 DEF ObjectInv, OnceInv
<1>6. RemovalInv' /\ EffectInv'
  BY <1>1, <1>2, <1>3 DEF ObjectInv, RemovalInv, EffectInv, Removal
<1> QED BY <1>4, <1>5, <1>6 DEF ObjectInv

(* What a handler may begin with: the object is known. *)
LEMMA KnownAdded ==
  ASSUME TypeOK, ObjectInv, NEW s \in Sessions, NEW d \in Doms, Known(s, d)
  PROVE  adds[d] # 0 /\ (adds[d] = 1 => InRoom(d, RoomOf[s]))
<1>1. RoomOf[s] \in Rooms
  BY DEF Rooms
<1>2. CASE <<RoomOf[s], d>> \in shown
  BY <1>1, <1>2 DEF ObjectInv, AddedInv, OnceInv
<1>3. CASE rows[d] # None /\ rows[d].room = RoomOf[s]
  BY <1>3 DEF ObjectInv, AddedInv, OnceInv, InRoom
<1> QED BY <1>2, <1>3 DEF Known

(* A handler has begun a change, or has taken an id for it, of an object x  *)
(* that it knows unless it adds it; nothing is queued.                     *)
LEMMA HandObject ==
  ASSUME TypeOK, ObjectInv, UNCHANGED <<queue, disk, shown, lost, adds>>,
         NEW s \in Sessions, NEW x \in Edits, x.from = s,
         hand' = [hand EXCEPT ![s] = x], pc[s] # "second",
         \A t \in Sessions \ {s} : pc'[t] = pc[t],
         x.op = "add" <=> AddHeld(x.dom, s),
         \A d \in Doms : AddHeld(d, s) => d = x.dom,
         adds[x.dom] # 0,
         Removal(x) => InRoom(x.dom, RoomOf[s])
  PROVE  ObjectInv'
<1>0. /\ UNCHANGED <<Position, rows, events>>
      /\ hand'[s] = x /\ x # None /\ x.dom \in Doms
      /\ \A t \in Sessions : t # s => hand'[t] = hand[t]
  BY RecordTypes DEF Position, disk, TypeOK
<1>1. \A d, i : AddQueued(d, i)' <=> AddQueued(d, i)
  BY DEF AddQueued
<1>2. \A d \in Doms : \A t \in Sessions : AddHeld(d, t)' <=> AddHeld(d, t)
  <2> SUFFICES ASSUME NEW d \in Doms, NEW t \in Sessions
               PROVE  AddHeld(d, t)' <=> AddHeld(d, t)
    OBVIOUS
  <2>1. CASE t = s
    BY <1>0, <2>1 DEF AddHeld
  <2>2. CASE t # s
    BY <1>0, <2>2 DEF AddHeld
  <2> QED BY <2>1, <2>2
<1>3. \A d \in Doms : /\ \A r : InRoom(d, r)' <=> InRoom(d, r)
                      /\ Absent(d)' <=> Absent(d)
  BY <1>0, <1>1, <1>2 DEF InRoom, Absent
<1>4. \A e : Removal(e)' <=> Removal(e)
  BY DEF Removal
<1>5. ASSUME NEW e, e.dom \in Doms, Effective(e) PROVE Effective(e)'
  <2>1. CASE \E t \in Sessions : pc[t] = "second" /\ hand[t] = e
    <3>1. PICK t \in Sessions : pc[t] = "second" /\ hand[t] = e
      BY <2>1
    <3>2. pc'[t] = "second" /\ hand'[t] = e
      BY <1>0, <3>1
    <3> QED BY <3>2 DEF Effective
  <2>2. CASE Absent(e.dom)
    BY <1>3, <1>5, <2>2 DEF Effective
  <2> QED BY <1>0, <1>5, <2>1, <2>2 DEF Effective
<1>6. AddedInv'
  BY <1>0 DEF ObjectInv, AddedInv
<1>7. OnceInv'
  BY <1>0, <1>1, <1>2, <1>3 DEF ObjectInv, OnceInv
<1>8. \A i \in Position : queue[i].edit.dom \in Doms
  BY QueueJobs, RecordTypes
<1>9. RemovalInv'
  <2>1. ASSUME NEW t \in Sessions, hand'[t] # None, Removal(hand[t])'
        PROVE  InRoom(hand[t].dom, RoomOf[t])'
    <3> PICK y : y = hand'[t]
      OBVIOUS
    <3>1. y.dom \in Doms /\ Removal(y)
      <4>1. y \in Edits
        BY <1>0, <2>1 DEF TypeOK
      <4> QED BY <1>4, <2>1, <4>1, RecordTypes DEF Removal
    <3>2. InRoom(y.dom, RoomOf[t])
      BY <1>0, <2>1, <3>1 DEF ObjectInv, RemovalInv
    <3>3. InRoom(y.dom, RoomOf[t])'
      BY <1>3, <3>1, <3>2
    <3> QED BY <3>3 DEF InRoom, AddHeld, AddQueued
  <2>2. ASSUME NEW i \in Position', Removal(queue[i].edit)'
        PROVE  /\ InRoom(queue[i].edit.dom, RoomOf[queue[i].edit.from])'
               /\ queue'[i].kind = "dom" =>
                    \A k \in Position' : AddQueued(queue[i].edit.dom, k)' => k < i
    <3> PICK y : y = queue[i].edit
      OBVIOUS
    <3>1. Removal(y) /\ y.dom \in Doms
      BY <1>0, <1>8, <2>2 DEF Removal
    <3>2. /\ InRoom(y.dom, RoomOf[y.from])
          /\ queue[i].kind = "dom" => \A k \in Position : AddQueued(y.dom, k) => k < i
      BY <1>0, <2>2, <3>1 DEF ObjectInv, RemovalInv
    <3>3. /\ InRoom(y.dom, RoomOf[y.from])'
          /\ queue[i].kind = "dom" => \A k \in Position' : AddQueued(y.dom, k)' => k < i
      BY <1>0, <1>1, <1>3, <3>1, <3>2
    <3> QED BY <1>0, <3>3 DEF InRoom, AddHeld, AddQueued
  <2> QED BY <2>1, <2>2 DEF RemovalInv
<1>10. EffectInv'
  <2>1. ASSUME NEW e \in events', Removal(e)' PROVE Effective(e)'
    <3>1. e.dom \in Doms
      BY <1>0, RecordTypes DEF TypeOK
    <3> QED BY <1>0, <1>4, <1>5, <2>1, <3>1 DEF ObjectInv, EffectInv
  <2>2. ASSUME NEW i \in Position', queue'[i].kind = "event",
               Removal(queue[i].edit)'
        PROVE  Effective(queue[i].edit)'
    <3> PICK y : y = queue[i].edit
      OBVIOUS
    <3>1. Removal(y) /\ y.dom \in Doms /\ Effective(y)
      BY <1>0, <1>8, <2>2 DEF Removal, ObjectInv, EffectInv
    <3>2. Effective(y)'
      BY <1>5, <3>1
    <3> QED BY <3>2 DEF Effective, Absent, AddHeld, AddQueued
  <2> QED BY <2>1, <2>2 DEF EffectInv
<1> QED BY <1>6, <1>7, <1>9, <1>10 DEF ObjectInv

(* A dom-add: of the id nothing is known, or it is used a second time. *)
LEMMA AddObject ==
  ASSUME TypeOK, ObjectInv, NEW s \in Sessions, NEW d \in Doms, DomAdd(s, d)
  PROVE  ObjectInv'
<1>0. PICK x \in Edits :
        /\ x.op = "add" /\ x.dom = d /\ x.from = s /\ x # None
        /\ hand' = [hand EXCEPT ![s] = x]
  <2>1. 0 \in 0..MaxEdits
    BY DomEditsAssumption
  <2>2. PICK x \in Edits : x = Edit("add", d, 0, s)
    BY <2>1, EditType
  <2>3. x.op = "add" /\ x.dom = d /\ x.from = s /\ x # None
    BY <2>1, <2>2, EditType, RecordTypes
  <2> QED BY <2>2, <2>3 DEF DomAdd, Begin
<1>1. /\ UNCHANGED <<Position, queue, rows, events, shown, lost>>
      /\ hand[s] = None /\ hand'[s] = x /\ pc[s] = "rest"
      /\ \A t \in Sessions : t # s => hand'[t] = hand[t] /\ pc'[t] = pc[t]
  BY <1>0 DEF DomAdd, Begin, Position, disk, TypeOK
<1>2. /\ \A c \in Doms : c # d => adds'[c] = adds[c]
      /\ adds'[d] # 0 /\ (adds'[d] = 1 => adds[d] = 0)
  BY DEF DomAdd, TypeOK
<1>3. \A c, i : AddQueued(c, i)' <=> AddQueued(c, i)
  BY <1>1 DEF AddQueued
<1>4. \A c \in Doms : \A t \in Sessions :
        /\ c # d => (AddHeld(c, t)' <=> AddHeld(c, t))
        /\ t # s => (AddHeld(c, t)' <=> AddHeld(c, t))
  BY <1>0, <1>1 DEF AddHeld
<1>5. \A c \in Doms : c # d => /\ \A r : InRoom(c, r)' <=> InRoom(c, r)
                               /\ Absent(c)' <=> Absent(c)
  BY <1>1, <1>3, <1>4 DEF InRoom, Absent
<1>6. ASSUME NEW e \in Edits, adds[e.dom] # 0, Removal(e)'
      PROVE  Removal(e) /\ e.dom # d /\ e.dom \in Doms
  BY <1>2, <1>6, RecordTypes DEF Removal
<1>7. ASSUME NEW e \in Edits, e.dom # d, Effective(e) PROVE Effective(e)'
  <2>1. CASE \E t \in Sessions : pc[t] = "second" /\ hand[t] = e
    <3>1. PICK t \in Sessions : pc[t] = "second" /\ hand[t] = e
      BY <2>1
    <3>2. pc'[t] = "second" /\ hand'[t] = e
      BY <1>1, <3>1
    <3> QED BY <3>2 DEF Effective
  <2>2. CASE Absent(e.dom)
    BY <1>5, <1>7, <2>2, RecordTypes DEF Effective
  <2> QED BY <1>1, <1>7, <2>1, <2>2 DEF Effective
<1>8. \A i \in Position : queue[i].edit \in Edits /\ adds[queue[i].edit.dom] # 0
  BY QueueJobs, RecordTypes DEF ObjectInv, AddedInv
<1>9. \A e \in events : e \in Edits /\ adds[e.dom] # 0
  BY DEF TypeOK, ObjectInv, AddedInv
<1>10. \A t \in Sessions : t # s /\ hand[t] # None =>
         hand[t] \in Edits /\ adds[hand[t].dom] # 0
  BY DEF TypeOK, ObjectInv, AddedInv
<1>11. \A c \in Doms : adds[c] # 0 => adds'[c] # 0
  BY <1>2
<1>12. AddedInv'
  <2>1. ASSUME NEW t \in Sessions, hand'[t] # None
        PROVE  hand'[t].from = t /\ adds'[hand'[t].dom] # 0
    <3>1. CASE t = s
      BY <1>0, <1>1, <1>2, <3>1
    <3>2. CASE t # s
      BY <1>1, <1>10, <1>11, <2>1, <3>2, RecordTypes DEF ObjectInv, AddedInv
    <3> QED BY <3>1, <3>2
  <2>2. \A i \in Position' : adds'[queue'[i].edit.dom] # 0
    BY <1>1, <1>8, <1>11, RecordTypes
  <2>3. \A e \in events' : adds'[e.dom] # 0
    BY <1>1, <1>9, <1>11, RecordTypes
  <2>4. /\ \A r \in Rooms : \A c \in Doms : <<r, c>> \in shown' => adds'[c] # 0
        /\ \A c \in Doms : rows'[c] # None => adds'[c] # 0
    BY <1>1, <1>11 DEF ObjectInv, AddedInv
  <2> QED BY <2>1, <2>2, <2>3, <2>4 DEF AddedInv
<1>13. OnceInv'
  <2> SUFFICES ASSUME NEW c \in Doms, adds'[c] = 1
               PROVE
    /\ \A t \in Sessions : AddHeld(c, t)' =>
         /\ rows'[c] = None
         /\ \A i \in Position' : ~AddQueued(c, i)'
         /\ \A u \in Sessions : AddHeld(c, u)' => u = t
    /\ \A i \in Position' : AddQueued(c, i)' =>
         rows'[c] = None /\ \A k \in Position' : AddQueued(c, k)' => k = i
    /\ \A r \in Rooms : <<r, c>> \in shown' => InRoom(c, r)'
    BY DEF OnceInv
  <2>1. CASE c # d
    BY <1>1, <1>2, <1>3, <1>4, <1>5, <2>1 DEF ObjectInv, OnceInv
  <2>2. CASE c = d
    <3>1. adds[c] = 0
      BY <1>2, <2>2
    <3>2. /\ rows[c] = None /\ \A i \in Position : ~AddQueued(c, i)
          /\ \A r \in Rooms : <<r, c>> \notin shown
          /\ \A t \in Sessions : ~AddHeld(c, t)
      BY <3>1 DEF ObjectInv, AddedInv, AddHeld, AddQueued
    <3>3. \A t \in Sessions : AddHeld(c, t)' => t = s
      BY <1>4, <3>2
    <3> QED BY <1>1, <1>3, <3>2, <3>3
  <2> QED BY <2>1, <2>2
<1>14. RemovalInv'
  <2>1. ASSUME NEW t \in Sessions, hand'[t] # None, Removal(hand[t])'
        PROVE  InRoom(hand[t].dom, RoomOf[t])'
    <3> PICK y : y = hand'[t]
      OBVIOUS
    <3>1. t # s
      BY <1>0, <1>1, <2>1 DEF Removal
    <3>2. Removal(y) /\ y.dom # d /\ y.dom \in Doms
      BY <1>1, <1>6, <1>10, <2>1, <3>1 DEF Removal
    <3>3. InRoom(y.dom, RoomOf[t])'
      BY <1>1, <1>5, <2>1, <3>1, <3>2 DEF ObjectInv, RemovalInv
    <3> QED BY <3>3 DEF InRoom, AddHeld, AddQueued
  <2>2. ASSUME NEW i \in Position', Removal(queue[i].edit)'
        PROVE  /\ InRoom(queue[i].edit.dom, RoomOf[queue[i].edit.from])'
               /\ queue'[i].kind = "dom" =>
                    \A k \in Position' : AddQueued(queue[i].edit.dom, k)' => k < i
    <3> PICK y : y = queue[i].edit
      OBVIOUS
    <3>1. Removal(y) /\ y.dom # d /\ y.dom \in Doms
      BY <1>1, <1>6, <1>8, <2>2 DEF Removal
    <3>2. /\ InRoom(y.dom, RoomOf[y.from])
          /\ queue[i].kind = "dom" => \A k \in Position : AddQueued(y.dom, k) => k < i
      BY <1>1, <2>2, <3>1 DEF ObjectInv, RemovalInv
    <3>3. /\ InRoom(y.dom, RoomOf[y.from])'
          /\ queue[i].kind = "dom" => \A k \in Position' : AddQueued(y.dom, k)' => k < i
      BY <1>1, <1>3, <1>5, <3>1, <3>2
    <3> QED BY <1>1, <3>3 DEF InRoom, AddHeld, AddQueued
  <2> QED BY <2>1, <2>2 DEF RemovalInv
<1>15. EffectInv'
  <2>1. ASSUME NEW e \in events', Removal(e)' PROVE Effective(e)'
    <3>1. e \in events /\ Removal(e) /\ e.dom # d
      BY <1>1, <1>6, <1>9, <2>1
    <3> QED BY <1>7, <1>9, <3>1 DEF ObjectInv, EffectInv
  <2>2. ASSUME NEW i \in Position', queue'[i].kind = "event",
               Removal(queue[i].edit)'
        PROVE  Effective(queue[i].edit)'
    <3> PICK y \in Edits : y = queue[i].edit
      BY <1>1, <1>8, <2>2
    <3>1. Removal(y) /\ y.dom # d
      BY <1>1, <1>6, <1>8, <2>2 DEF Removal
    <3>2. Effective(y)'
      BY <1>1, <1>7, <2>2, <3>1 DEF ObjectInv, EffectInv
    <3> QED BY <1>1, <3>2 DEF Effective, Absent, AddHeld, AddQueued
  <2> QED BY <2>1, <2>2 DEF EffectInv
<1> QED BY <1>12, <1>13, <1>14, <1>15 DEF ObjectInv

(* The dom-add of object d is not queued, or ahead of position k. *)
Before(d, k) == \A m \in Position : AddQueued(d, m) => m < k

(* Removals stay in the room of their object and behind its dom-add, when  *)
(* jobs are moved up and the change of a handler is put behind them.       *)
LEMMA RemovalMoves ==
  ASSUME TypeOK, ObjectInv, UNCHANGED adds,
         \A c \in Doms : adds[c] = 1 => \A r : InRoom(c, r) => InRoom(c, r)',
         \A t \in Sessions : hand'[t] # None => hand'[t] = hand[t],
         \A i \in Position' :
           \/ \E k \in Position :
                /\ queue'[i] = queue[k]
                /\ \A c \in Doms : \A r : InRoom(c, r) /\ Before(c, k)
                     => \A m \in Position' : AddQueued(c, m)' => m < i
           \/ /\ \E s \in Sessions : hand[s] # None /\ queue'[i].edit = hand[s]
              /\ \A c \in Doms : \A m \in Position' : AddQueued(c, m)' => m < i
           \/ queue'[i].edit.op = "add"
  PROVE  RemovalInv'
<1>1. \A e : Removal(e)' <=> Removal(e)
  BY DEF Removal
<1>2. ASSUME NEW t \in Sessions, hand'[t] # None, Removal(hand[t])'
      PROVE  InRoom(hand[t].dom, RoomOf[t])'
  <2> PICK y : y = hand'[t]
    OBVIOUS
  <2>1. y = hand[t] /\ Removal(y) /\ y.dom \in Doms /\ adds[y.dom] = 1
    BY <1>2, RecordTypes DEF Removal, TypeOK
  <2>2. InRoom(y.dom, RoomOf[t])'
    BY <1>2, <2>1 DEF ObjectInv, RemovalInv
  <2> QED BY <2>2 DEF InRoom, AddHeld, AddQueued
<1>3. ASSUME NEW i \in Position', Removal(queue[i].edit)'
      PROVE  /\ InRoom(queue[i].edit.dom, RoomOf[queue[i].edit.from])'
             /\ queue'[i].kind = "dom" =>
                  \A k \in Position' : AddQueued(queue[i].edit.dom, k)' => k < i
  <2> PICK y : y = queue'[i].edit
    OBVIOUS
  <2>1. Removal(y) /\ y.op = "remove" /\ adds[y.dom] = 1
    BY <1>1, <1>3 DEF Removal
  <2>2. CASE \E k \in Position :
               /\ queue'[i] = queue[k]
               /\ \A c \in Doms : \A r : InRoom(c, r) /\ Before(c, k)
                    => \A m \in Position' : AddQueued(c, m)' => m < i
    <3>1. PICK k \in Position :
            /\ queue'[i] = queue[k]
            /\ \A c \in Doms : \A r : InRoom(c, r) /\ Before(c, k)
                 => \A m \in Position' : AddQueued(c, m)' => m < i
      BY <2>2
    <3>2. y = queue[k].edit /\ y.dom \in Doms
      BY <3>1, QueueJobs, RecordTypes
    <3>3. /\ InRoom(y.dom, RoomOf[y.from])
          /\ queue[k].kind = "dom" => Before(y.dom, k)
      BY <2>1, <3>2 DEF ObjectInv, RemovalInv, Before
    <3>4. /\ InRoom(y.dom, RoomOf[y.from])'
          /\ queue[k].kind = "dom" => \A m \in Position' : AddQueued(y.dom, m)' => m < i
      BY <2>1, <3>1, <3>2, <3>3
    <3> QED BY <3>1, <3>4 DEF InRoom, AddHeld, AddQueued
  <2>3. CASE /\ \E s \in Sessions : hand[s] # None /\ queue'[i].edit = hand[s]
             /\ \A c \in Doms : \A m \in Position' : AddQueued(c, m)' => m < i
    <3>1. PICK s \in Sessions : hand[s] # None /\ y = hand[s]
      BY <2>3
    <3>2. y.dom \in Doms /\ y.from = s /\ InRoom(y.dom, RoomOf[s])
      BY <2>1, <3>1, RecordTypes DEF TypeOK, ObjectInv, AddedInv, RemovalInv
    <3>3. InRoom(y.dom, RoomOf[y.from])'
      BY <2>1, <3>2
    <3>4. \A m \in Position' : AddQueued(y.dom, m)' => m < i
      BY <2>3, <3>2
    <3> QED BY <3>3, <3>4 DEF InRoom, AddHeld, AddQueued
  <2> QED BY <2>1, <2>2, <2>3
<1> QED BY <1>2, <1>3 DEF RemovalInv

(* An event that is in the log was in the queue, and one in the queue was  *)
(* in a hand.                                                              *)
LEMMA EffectMoves ==
  ASSUME TypeOK, ObjectInv, UNCHANGED adds,
         \A e \in Edits : Removal(e) /\ Effective(e) => Effective(e)',
         \A e \in events' :
           e \in events \/ \E k \in Position : queue[k] = Job("event", e),
         \A i \in Position' : queue'[i].kind = "event" =>
           \/ \E k \in Position : queue'[i] = queue[k]
           \/ \E s \in Sessions : pc'[s] = "second" /\ hand'[s] = queue'[i].edit
  PROVE  EffectInv'
<1>1. \A e : Removal(e)' <=> Removal(e)
  BY DEF Removal
<1>2. ASSUME NEW k \in Position, queue[k].kind = "event", Removal(queue[k].edit),
             NEW y, y = queue[k].edit
      PROVE  Effective(y)'
  <2>1. y \in Edits
    BY <1>2, QueueJobs, RecordTypes
  <2>2. Effective(y)
    BY <1>2 DEF ObjectInv, EffectInv
  <2> QED BY <1>2, <2>1, <2>2
<1>3. ASSUME NEW e \in events', Removal(e)' PROVE Effective(e)'
  <2>1. CASE e \in events
    BY <1>1, <1>3, <2>1 DEF ObjectInv, EffectInv, TypeOK
  <2>2. CASE \E k \in Position : queue[k] = Job("event", e)
    <3>1. PICK k \in Position : queue[k] = Job("event", e)
      BY <2>2
    <3>2. queue[k].kind = "event" /\ queue[k].edit = e
      BY <3>1 DEF Job
    <3> QED BY <1>1, <1>2, <1>3, <3>2
  <2> QED BY <2>1, <2>2
<1>4. ASSUME NEW i \in Position', queue'[i].kind = "event",
             Removal(queue[i].edit)'
      PROVE  Effective(queue[i].edit)'
  <2> PICK y : y = queue'[i].edit
    OBVIOUS
  <2>1. Removal(y)
    BY <1>4 DEF Removal
  <2>2. Effective(y)'
    <3>1. CASE \E k \in Position : queue'[i] = queue[k]
      BY <1>2, <1>4, <2>1, <3>1
    <3>2. CASE \E s \in Sessions : pc'[s] = "second" /\ hand'[s] = queue'[i].edit
      BY <3>2 DEF Effective
    <3> QED BY <1>4, <3>1, <3>2
  <2> QED BY <2>2 DEF Effective, Absent, AddHeld, AddQueued
<1> QED BY <1>3, <1>4 DEF EffectInv

(* A handler has queued its event, or a change that adds nothing. *)
LEMMA PushObject ==
  ASSUME TypeOK, ObjectInv, UNCHANGED <<disk, shown, adds>>,
         NEW s \in Sessions, NEW e \in Edits, e = hand[s],
         NEW kind \in {"event", "dom"}, TrySend(Job(kind, e)),
         kind = "event" => hand' = hand /\ pc'[s] = "second",
         kind = "dom" => hand' = [hand EXCEPT ![s] = None] /\ e.op # "add",
         \A t \in Sessions \ {s} : pc'[t] = pc[t]
  PROVE  ObjectInv'
<1> DEFINE j == Job(kind, e)
<1>0. /\ j \in Jobs /\ j.kind = kind /\ j.edit = e /\ e # None
      /\ e.dom \in Doms /\ e.from = s
  BY RecordTypes DEF ObjectInv, AddedInv
<1>1. /\ UNCHANGED <<rows, events>>
      /\ \A t \in Sessions : t # s => hand'[t] = hand[t]
      /\ \A t \in Sessions : hand'[t] # None => hand'[t] = hand[t]
  BY DEF disk, TypeOK
<1>2. /\ \A i \in Position : i \in Position' /\ queue'[i] = queue[i]
      /\ \A i \in Position' : \/ i \in Position /\ queue'[i] = queue[i]
                              \/ i = Len(queue) + 1 /\ queue'[i] = j
      /\ lost \subseteq lost'
      /\ kind = "dom" /\ e.op = "remove" =>
           j \in lost' \/ \E i \in Position' : queue'[i] = j
  <2>1. \/ queue' = queue /\ Lose(j)
        \/ /\ UNCHANGED lost
           /\ \A i \in Position : i \in Position' /\ queue'[i] = queue[i]
           /\ \A i \in Position' : \/ i \in Position /\ queue'[i] = queue[i]
                                   \/ i = Len(queue) + 1 /\ queue'[i] = j
           /\ Len(queue) + 1 \in Position' /\ queue'[Len(queue) + 1] = j
    BY <1>0, SendQueue
  <2>2. CASE queue' = queue /\ Lose(j)
    BY <1>0, <2>2 DEF Lose, Position
  <2> QED BY <2>1, <2>2
<1>3. \A k \in Position : k < Len(queue) + 1
  BY DEF Position, TypeOK
<1> HIDE DEF j
<1>4. \A c \in Doms : \A t \in Sessions : AddHeld(c, t)' <=> AddHeld(c, t)
  <2> SUFFICES ASSUME NEW c \in Doms, NEW t \in Sessions
               PROVE  AddHeld(c, t)' <=> AddHeld(c, t)
    OBVIOUS
  <2>1. CASE t # s \/ kind = "event"
    BY <1>1, <2>1 DEF AddHeld
  <2>2. CASE t = s /\ kind = "dom"
    BY <2>2 DEF AddHeld, TypeOK
  <2> QED BY <2>1, <2>2
<1>5. /\ \A c : \A i \in Position : AddQueued(c, i)' <=> AddQueued(c, i)
      /\ \A c : \A i \in Position' : AddQueued(c, i)' => i \in Position
  BY <1>0, <1>2 DEF AddQueued
<1>6. ASSUME NEW c \in Doms, NEW r, InRoom(c, r) PROVE InRoom(c, r)'
  BY <1>1, <1>2, <1>4, <1>5, <1>6 DEF InRoom
<1>7. ASSUME NEW c \in Doms, Absent(c) PROVE Absent(c)'
  BY <1>1, <1>4, <1>5, <1>7 DEF Absent
<1>8. AddedInv'
  BY <1>0, <1>1, <1>2 DEF ObjectInv, AddedInv
<1>9. OnceInv'
  BY <1>1, <1>4, <1>5, <1>6 DEF ObjectInv, OnceInv
<1>10. RemovalInv'
  <2>1. ASSUME NEW i \in Position'
        PROVE
          \/ \E k \in Position :
               /\ queue'[i] = queue[k]
               /\ \A c \in Doms : \A r : InRoom(c, r) /\ Before(c, k)
                    => \A m \in Position' : AddQueued(c, m)' => m < i
          \/ /\ \E t \in Sessions : hand[t] # None /\ queue'[i].edit = hand[t]
             /\ \A c \in Doms : \A m \in Position' : AddQueued(c, m)' => m < i
    <3>1. CASE i \in Position /\ queue'[i] = queue[i]
      BY <1>5, <3>1 DEF Before
    <3>2. CASE i = Len(queue) + 1 /\ queue'[i] = j
      BY <1>0, <1>3, <1>5, <3>2
    <3> QED BY <1>2, <3>1, <3>2
  <2> QED BY <1>1, <1>6, <2>1, RemovalMoves
<1>11. EffectInv'
  <2>1. ASSUME NEW x \in Edits, Removal(x), Effective(x) PROVE Effective(x)'
    <3>1. CASE \E t \in Sessions : pc[t] = "second" /\ hand[t] = x
      <4>1. PICK t \in Sessions : pc[t] = "second" /\ hand[t] = x
        BY <3>1
      <4>2. CASE t # s \/ kind = "event"
        <5>1. pc'[t] = "second" /\ hand'[t] = x
          BY <1>1, <4>1, <4>2
        <5> QED BY <5>1 DEF Effective
      <4>3. CASE t = s /\ kind = "dom"
        <5>1. x = e /\ x.op = "remove"
          BY <2>1, <4>1, <4>3 DEF Removal
        <5>2. j = Job("dom", x)
          BY <4>3, <5>1 DEF j
        <5> QED BY <1>2, <4>3, <5>1, <5>2 DEF Effective
      <4> QED BY <4>2, <4>3
    <3>2. CASE Absent(x.dom)
      BY <1>7, <3>2, RecordTypes DEF Effective
    <3> QED BY <1>1, <1>2, <2>1, <3>1, <3>2 DEF Effective
  <2>2. ASSUME NEW i \in Position', queue'[i].kind = "event"
        PROVE  \/ \E k \in Position : queue'[i] = queue[k]
               \/ \E t \in Sessions : pc'[t] = "second" /\ hand'[t] = queue'[i].edit
    <3>1. CASE i \in Position /\ queue'[i] = queue[i]
      BY <3>1
    <3>2. CASE i = Len(queue) + 1 /\ queue'[i] = j
      BY <1>0, <2>2, <3>2
    <3> QED BY <1>2, <3>1, <3>2
  <2> QED BY <1>1, <2>1, <2>2, EffectMoves
<1> QED BY <1>8, <1>9, <1>10, <1>11 DEF ObjectInv

(* A handler has queued a dom-add, or dropped it, and shows it to the room. *)
LEMMA PushAdd ==
  ASSUME TypeOK, ObjectInv, NEW s \in Sessions, NEW e \in Edits, e = hand[s],
         e.op = "add", WriteDom(s)
  PROVE  ObjectInv'
<1> DEFINE j == Job("dom", e)
           d == e.dom
<1>0. /\ j \in Jobs /\ j.kind = "dom" /\ j.edit = e /\ e # None
      /\ d \in Doms /\ e.from = s
  BY RecordTypes DEF ObjectInv, AddedInv
<1>1. /\ UNCHANGED <<rows, events, adds>>
      /\ hand'[s] = None
      /\ \A t \in Sessions : t # s => hand'[t] = hand[t] /\ pc'[t] = pc[t]
      /\ \A t \in Sessions : hand'[t] # None => hand'[t] = hand[t]
      /\ shown' = shown \cup {<<RoomOf[s], d>>}
  BY DEF WriteDom, disk, TypeOK
<1>2. /\ \A i \in Position : i \in Position' /\ queue'[i] = queue[i]
      /\ \A i \in Position' : \/ i \in Position /\ queue'[i] = queue[i]
                              \/ i = Len(queue) + 1 /\ queue'[i] = j
      /\ lost' = lost
  <2>1. TrySend(j)
    BY DEF WriteDom, Order
  <2>2. \/ queue' = queue /\ Lose(j)
        \/ /\ UNCHANGED lost
           /\ \A i \in Position : i \in Position' /\ queue'[i] = queue[i]
           /\ \A i \in Position' : \/ i \in Position /\ queue'[i] = queue[i]
                                   \/ i = Len(queue) + 1 /\ queue'[i] = j
    BY <1>0, <2>1, SendQueue
  <2>3. CASE queue' = queue /\ Lose(j)
    BY <1>0, <2>3 DEF Lose, Position
  <2> QED BY <2>2, <2>3
<1>3. \A k \in Position : k < Len(queue) + 1
  BY DEF Position, TypeOK
<1> HIDE DEF j, d
<1>4. /\ AddHeld(d, s) /\ adds[d] # 0
      /\ \A c \in Doms : \A t \in Sessions :
           AddHeld(c, t)' <=> AddHeld(c, t) /\ t # s
      /\ \A c \in Doms : c # d => ~AddHeld(c, s)
  BY <1>0, <1>1 DEF AddHeld, d, ObjectInv, AddedInv
<1>5. /\ \A c : \A i \in Position : AddQueued(c, i)' <=> AddQueued(c, i)
      /\ \A c : \A i \in Position' :
           AddQueued(c, i)' => \/ i \in Position
                               \/ c = d /\ i = Len(queue) + 1 /\ queue'[i] = j
  BY <1>0, <1>2 DEF AddQueued, d
<1>6. ASSUME NEW c \in Doms, NEW r, InRoom(c, r) PROVE InRoom(c, r)'
  <2>1. c # d
    BY <1>4, <1>6 DEF InRoom
  <2> QED BY <1>1, <1>2, <1>4, <1>5, <1>6, <2>1 DEF InRoom
<1>7. ASSUME NEW c \in Doms, Absent(c) PROVE Absent(c)'
  <2>1. c # d
    BY <1>4, <1>7 DEF Absent
  <2> QED BY <1>1, <1>4, <1>5, <1>7, <2>1 DEF Absent
<1>8. AddedInv'
  <2>1. \A r \in Rooms : \A c \in Doms : <<r, c>> \in shown' => adds[c] # 0
    BY <1>1, <1>4 DEF ObjectInv, AddedInv
  <2>2. \A i \in Position' : adds[queue'[i].edit.dom] # 0
    BY <1>0, <1>2, <1>4 DEF ObjectInv, AddedInv, d
  <2> QED BY <1>1, <2>1, <2>2 DEF ObjectInv, AddedInv
<1>9. OnceInv'
  <2> SUFFICES ASSUME NEW c \in Doms, adds[c] = 1
               PROVE
    /\ \A t \in Sessions : AddHeld(c, t)' =>
         /\ rows'[c] = None
         /\ \A i \in Position' : ~AddQueued(c, i)'
         /\ \A u \in Sessions : AddHeld(c, u)' => u = t
    /\ \A i \in Position' : AddQueued(c, i)' =>
         rows'[c] = None /\ \A k \in Position' : AddQueued(c, k)' => k = i
    /\ \A r \in Rooms : <<r, c>> \in shown' => InRoom(c, r)'
    BY <1>1 DEF OnceInv
  <2>1. CASE c # d
    <3>1. \A r : <<r, c>> \in shown' => <<r, c>> \in shown
      BY <1>1, <2>1
    <3> QED BY <1>1, <1>4, <1>5, <1>6, <2>1, <3>1 DEF ObjectInv, OnceInv
  <2>2. CASE c = d
    <3>1. /\ rows[c] = None /\ \A i \in Position : ~AddQueued(c, i)
          /\ \A t \in Sessions : AddHeld(c, t) => t = s
          /\ \A r \in Rooms : <<r, c>> \in shown => InRoom(c, r)
      BY <1>4, <2>2 DEF ObjectInv, OnceInv
    <3>2. /\ \A t \in Sessions : ~AddHeld(c, t)'
          /\ \A i \in Position' :
               AddQueued(c, i)' => i = Len(queue) + 1 /\ queue'[i] = j
      BY <1>4, <1>5, <3>1
    <3>3. \A r \in Rooms : <<r, c>> \in shown' => r = RoomOf[s]
      BY <1>1, <1>4, <2>2, <3>1 DEF InRoom
    <3>4. InRoom(c, RoomOf[s])'
      BY <1>0, <1>1, <3>1, <3>2 DEF InRoom
    <3> QED BY <1>1, <3>1, <3>2, <3>3, <3>4
  <2> QED BY <2>1, <2>2
<1>10. RemovalInv'
  <2>1. ASSUME NEW i \in Position'
        PROVE
          \/ \E k \in Position :
               /\ queue'[i] = queue[k]
               /\ \A c \in Doms : \A r : InRoom(c, r) /\ Before(c, k)
                    => \A m \in Position' : AddQueued(c, m)' => m < i
          \/ queue'[i].edit.op = "add"
    <3>1. CASE i \in Position /\ queue'[i] = queue[i]
      <4>1. \A c \in Doms : \A r : InRoom(c, r) => c # d
        BY <1>4 DEF InRoom
      <4>2. \A c \in Doms : \A r : InRoom(c, r) /\ Before(c, i)
              => \A m \in Position' : AddQueued(c, m)' => m < i
        BY <1>5, <4>1 DEF Before
      <4> QED BY <3>1, <4>2
    <3>2. CASE i = Len(queue) + 1 /\ queue'[i] = j
      BY <1>0, <3>2
    <3> QED BY <1>2, <3>1, <3>2
  <2> QED BY <1>1, <1>6, <2>1, RemovalMoves
<1>11. EffectInv'
  <2>1. ASSUME NEW x \in Edits, Removal(x), Effective(x) PROVE Effective(x)'
    <3>1. CASE \E t \in Sessions : pc[t] = "second" /\ hand[t] = x
      <4>1. PICK t \in Sessions : pc[t] = "second" /\ hand[t] = x
        BY <3>1
      <4>2. pc'[t] = "second" /\ hand'[t] = x
        BY <1>1, <2>1, <4>1 DEF Removal
      <4> QED BY <4>2 DEF Effective
    <3>2. CASE Absent(x.dom)
      BY <1>7, <3>2, RecordTypes DEF Effective
    <3> QED BY <1>1, <1>2, <2>1, <3>1, <3>2 DEF Effective
  <2>2. ASSUME NEW i \in Position', queue'[i].kind = "event"
        PROVE  \E k \in Position : queue'[i] = queue[k]
    BY <1>0, <1>2, <2>2
  <2> QED BY <1>1, <2>1, <2>2, EffectMoves
<1> QED BY <1>8, <1>9, <1>10, <1>11 DEF ObjectInv

(* The oldest job was executed and added no object. *)
LEMMA PopObject ==
  ASSUME TypeOK, ObjectInv, UNCHANGED <<shown, adds>>,
         NEW kind, NEW ops, Execute(kind, ops), kind = "event" \/ "add" \notin ops,
         NEW h \in Edits, Head(queue) = Job(kind, h),
         events' = events \/ (kind = "event" /\ events' = events \cup {h}),
         lost \subseteq lost',
         \A c \in Doms :
           /\ rows'[c] = None <=> rows[c] = None
           /\ rows[c] # None =>
                rows'[c].room = rows[c].room /\ (rows[c].removed => rows'[c].removed),
         kind = "dom" /\ Removal(h) /\ ~Absent(h.dom) =>
           Job("dom", h) \in lost' \/ (rows'[h.dom] # None /\ rows'[h.dom].removed)
  PROVE  ObjectInv'
<1>0. /\ UNCHANGED <<pc, hand>>
      /\ 1 \in Position /\ queue[1] = Job(kind, h)
      /\ queue[1].kind = kind /\ queue[1].edit = h
      /\ kind = "event" \/ h.op # "add"
  BY ExecuteQueue DEF Execute, Job
<1>1. /\ \A i \in Position' : i + 1 \in Position /\ queue'[i] = queue[i + 1]
      /\ \A i \in Position :
           i # 1 => i - 1 \in Position' /\ queue'[i - 1] = queue[i]
  BY ExecuteQueue
<1>n. \A i \in Position' : i \in Nat
  BY DEF Position
<1>2. \A c, t : AddHeld(c, t)' <=> AddHeld(c, t)
  BY <1>0 DEF AddHeld
<1>3. /\ \A c : \A i \in Position' : AddQueued(c, i)' <=> AddQueued(c, i + 1)
      /\ \A c : ~AddQueued(c, 1)
      /\ \A c : \A i \in Position : AddQueued(c, i) =>
           i - 1 \in Position' /\ AddQueued(c, i - 1)'
  BY <1>0, <1>1 DEF AddQueued
<1>4. ASSUME NEW c \in Doms, NEW r, InRoom(c, r) PROVE InRoom(c, r)'
  <2>1. \A i \in Position' : AddQueued(c, i)' => RoomOf[queue'[i].edit.from] = r
    BY <1>1, <1>3, <1>4 DEF InRoom
  <2> QED BY <1>2, <1>4, <2>1 DEF InRoom
<1>5. ASSUME NEW c \in Doms, Absent(c) PROVE Absent(c)'
  BY <1>1, <1>2, <1>3, <1>5 DEF Absent
<1>6. AddedInv'
  <2>1. adds[h.dom] # 0
    BY <1>0 DEF ObjectInv, AddedInv
  <2> QED BY <1>0, <1>1, <2>1 DEF ObjectInv, AddedInv
<1>7. OnceInv'
  <2> SUFFICES ASSUME NEW c \in Doms, adds[c] = 1
               PROVE
    /\ \A t \in Sessions : AddHeld(c, t)' =>
         /\ rows'[c] = None
         /\ \A i \in Position' : ~AddQueued(c, i)'
         /\ \A u \in Sessions : AddHeld(c, u)' => u = t
    /\ \A i \in Position' : AddQueued(c, i)' =>
         rows'[c] = None /\ \A k \in Position' : AddQueued(c, k)' => k = i
    /\ \A r \in Rooms : <<r, c>> \in shown' => InRoom(c, r)'
    BY DEF OnceInv
  <2>1. \A t \in Sessions : AddHeld(c, t)' =>
          /\ rows'[c] = None
          /\ \A i \in Position' : ~AddQueued(c, i)'
          /\ \A u \in Sessions : AddHeld(c, u)' => u = t
    BY <1>1, <1>2, <1>3 DEF ObjectInv, OnceInv
  <2>2. ASSUME NEW i \in Position', AddQueued(c, i)'
        PROVE  rows'[c] = None /\ \A k \in Position' : AddQueued(c, k)' => k = i
    <3>1. i + 1 \in Position /\ AddQueued(c, i + 1)
      BY <1>1, <1>3, <2>2
    <3>2. rows[c] = None /\ \A k \in Position : AddQueued(c, k) => k = i + 1
      BY <3>1 DEF ObjectInv, OnceInv
    <3>3. \A k \in Position' : AddQueued(c, k)' => k + 1 = i + 1
      BY <1>1, <1>3, <3>2
    <3>4. \A k \in Position' : k + 1 = i + 1 => k = i
      BY <1>n
    <3> QED BY <3>2, <3>3, <3>4
  <2>3. \A r \in Rooms : <<r, c>> \in shown' => InRoom(c, r)'
    BY <1>4 DEF ObjectInv, OnceInv
  <2> QED BY <2>1, <2>2, <2>3
<1>8. RemovalInv'
  <2>1. ASSUME NEW i \in Position'
        PROVE  \E k \in Position :
                 /\ queue'[i] = queue[k]
                 /\ \A c \in Doms : \A r : InRoom(c, r) /\ Before(c, k)
                      => \A m \in Position' : AddQueued(c, m)' => m < i
    <3>1. i + 1 \in Position /\ queue'[i] = queue[i + 1]
      BY <1>1
    <3>2. ASSUME NEW c \in Doms, Before(c, i + 1),
                 NEW m \in Position', AddQueued(c, m)'
          PROVE  m < i
      <4>1. m + 1 \in Position /\ AddQueued(c, m + 1)
        BY <1>1, <1>3, <3>2
      <4>2. m + 1 < i + 1
        BY <3>2, <4>1 DEF Before
      <4>3. m \in Nat /\ i \in Nat
        BY <1>n
      <4> QED BY <4>2, <4>3
    <3> QED BY <3>1, <3>2
  <2> QED BY <1>0, <1>4, <2>1, RemovalMoves
<1>9. EffectInv'
  <2>1. ASSUME NEW x \in Edits, Removal(x), Effective(x) PROVE Effective(x)'
    <3>0. x.dom \in Doms
      BY RecordTypes
    <3>1. CASE Absent(x.dom)
      BY <1>5, <3>0, <3>1 DEF Effective
    <3>2. CASE ~Absent(x.dom) /\ \E i \in Position : queue[i] = Job("dom", x)
      <4>1. PICK i \in Position : queue[i] = Job("dom", x)
        BY <3>2
      <4>2. CASE i = 1
        <5>1. kind = "dom" /\ h = x
          BY <1>0, <4>1, <4>2 DEF Job
        <5> QED BY <2>1, <3>2, <5>1 DEF Effective
      <4>3. CASE i # 1
        <5>1. i - 1 \in Position' /\ queue'[i - 1] = Job("dom", x)
          BY <1>1, <4>1, <4>3
        <5> QED BY <5>1 DEF Effective
      <4> QED BY <4>2, <4>3
    <3>3. CASE rows[x.dom] # None /\ rows[x.dom].removed
      BY <3>0, <3>3 DEF Effective
    <3>4. CASE \E s \in Sessions : pc[s] = "second" /\ hand[s] = x
      <4>1. \E s \in Sessions : pc'[s] = "second" /\ hand'[s] = x
        BY <1>0, <3>4
      <4> QED BY <4>1 DEF Effective
    <3>5. CASE Job("dom", x) \in lost
      BY <3>5 DEF Effective
    <3> QED BY <2>1, <3>1, <3>2, <3>3, <3>4, <3>5 DEF Effective
  <2>2. \A e \in events' :
          e \in events \/ \E k \in Position : queue[k] = Job("event", e)
    BY <1>0
  <2>3. \A i \in Position' : \E k \in Position : queue'[i] = queue[k]
    BY <1>1
  <2> QED BY <2>1, <2>2, <2>3, EffectMoves
<1> QED BY <1>6, <1>7, <1>8, <1>9 DEF ObjectInv

(* A dom-add was executed: the object is in its table, or will never be. *)
LEMMA PopAdd ==
  ASSUME TypeOK, ObjectInv, InsertDom PROVE ObjectInv'
<1>1. PICK h \in Edits : Head(queue) = Job("dom", h) /\ h.op = "add" /\ h.dom \in Doms
  <2>1. /\ Head(queue) \in Jobs /\ Head(queue).kind = "dom"
        /\ Head(queue).edit.op = "add"
    BY ExecuteQueue DEF InsertDom
  <2> QED BY <2>1, RecordTypes
<1> DEFINE d == h.dom
<1>2. /\ UNCHANGED <<pc, hand, shown, adds, events, lost>>
      /\ 1 \in Position /\ queue[1].kind = "dom" /\ queue[1].edit = h
  <2>1. 1 \in Position /\ queue[1] = Job("dom", h)
    BY <1>1, ExecuteQueue DEF InsertDom
  <2>2. queue[1].kind = "dom" /\ queue[1].edit = h
    BY <2>1 DEF Job
  <2>3. events' = events /\ lost' = lost
    BY <1>1 DEF InsertDom, Fails, Lose, disk, Job
  <2> QED BY <2>1, <2>2, <2>3 DEF InsertDom, Execute
<1>3. /\ \A i \in Position' : i + 1 \in Position /\ queue'[i] = queue[i + 1]
      /\ \A i \in Position :
           i # 1 => i - 1 \in Position' /\ queue'[i - 1] = queue[i]
      /\ Position \subseteq Nat /\ Position' \subseteq Nat
  BY ExecuteQueue DEF InsertDom, Position
<1>4. /\ \A c \in Doms : c # d => rows'[c] = rows[c]
      /\ \/ rows'[d] = rows[d]
         \/ /\ rows[d] = None /\ rows'[d] # None
            /\ rows'[d].room = RoomOf[h.from] /\ ~rows'[d].removed
  <2>1. /\ Created(h) # None /\ Created(h).room = RoomOf[h.from]
        /\ ~Created(h).removed
    <3>1. RoomOf[h.from] \in Rooms
      BY RecordTypes
    <3>2. /\ Created(h) \in RowRecords /\ Created(h).room = RoomOf[h.from]
          /\ ~Created(h).removed
      BY <3>1, RowType DEF Created
    <3> QED BY <3>2, RecordTypes
  <2>2. Head(queue).edit = h
    BY <1>1 DEF Job
  <2>3. \/ rows' = rows
        \/ rows[d] = None /\ rows' = [rows EXCEPT ![d] = Created(h)]
    BY <2>2 DEF InsertDom, Fails, disk
  <2> QED BY <1>1, <2>1, <2>3 DEF TypeOK
<1>5. \A c, t : AddHeld(c, t)' <=> AddHeld(c, t)
  BY <1>2 DEF AddHeld
<1>6. /\ \A c : \A i \in Position' : AddQueued(c, i)' <=> AddQueued(c, i + 1)
      /\ \A c : c # d => ~AddQueued(c, 1)
      /\ AddQueued(d, 1) /\ adds[d] # 0
  BY <1>1, <1>2, <1>3 DEF AddQueued, ObjectInv, AddedInv
<1>7. adds[d] = 1 =>
        /\ rows[d] = None /\ \A t \in Sessions : ~AddHeld(d, t)
        /\ \A i \in Position' : ~AddQueued(d, i)'
  <2> SUFFICES ASSUME adds[d] = 1
               PROVE  /\ rows[d] = None /\ \A t \in Sessions : ~AddHeld(d, t)
                      /\ \A i \in Position' : ~AddQueued(d, i)'
    OBVIOUS
  <2>1. /\ rows[d] = None /\ \A t \in Sessions : ~AddHeld(d, t)
        /\ \A i \in Position : AddQueued(d, i) => i = 1
    BY <1>1, <1>2, <1>6 DEF ObjectInv, OnceInv
  <2>2. \A i \in Position' : i + 1 \in Position /\ i + 1 # 1
    BY <1>3 DEF Position
  <2> QED BY <1>6, <2>1, <2>2
<1> HIDE DEF d
<1>8. ASSUME NEW c \in Doms, adds[c] = 1, NEW r, InRoom(c, r) PROVE InRoom(c, r)'
  <2>1. CASE c # d
    <3>1. \A i \in Position' : AddQueued(c, i)' => RoomOf[queue'[i].edit.from] = r
      BY <1>3, <1>6, <1>8 DEF InRoom
    <3> QED BY <1>4, <1>5, <1>8, <2>1, <3>1 DEF InRoom
  <2>2. CASE c = d
    <3>1. RoomOf[h.from] = r
      BY <1>2, <1>6, <1>8, <2>2 DEF InRoom
    <3> QED BY <1>4, <1>5, <1>7, <1>8, <2>2, <3>1 DEF InRoom
  <2> QED BY <2>1, <2>2
<1>9. AddedInv'
  BY <1>2, <1>3, <1>4, <1>6 DEF ObjectInv, AddedInv
<1>10. OnceInv'
  <2> SUFFICES ASSUME NEW c \in Doms, adds[c] = 1
               PROVE
    /\ \A t \in Sessions : AddHeld(c, t)' =>
         /\ rows'[c] = None
         /\ \A i \in Position' : ~AddQueued(c, i)'
         /\ \A u \in Sessions : AddHeld(c, u)' => u = t
    /\ \A i \in Position' : AddQueued(c, i)' =>
         rows'[c] = None /\ \A k \in Position' : AddQueued(c, k)' => k = i
    /\ \A r \in Rooms : <<r, c>> \in shown' => InRoom(c, r)'
    BY <1>2 DEF OnceInv
  <2>1. \A r \in Rooms : <<r, c>> \in shown' => InRoom(c, r)'
    BY <1>2, <1>8 DEF ObjectInv, OnceInv
  <2>2. CASE c = d
    BY <1>5, <1>7, <2>1, <2>2
  <2>3. CASE c # d
    <3>1. \A t \in Sessions : AddHeld(c, t)' =>
            /\ rows'[c] = None
            /\ \A i \in Position' : ~AddQueued(c, i)'
            /\ \A u \in Sessions : AddHeld(c, u)' => u = t
      BY <1>3, <1>4, <1>5, <1>6, <2>3 DEF ObjectInv, OnceInv
    <3>2. ASSUME NEW i \in Position', AddQueued(c, i)'
          PROVE  rows'[c] = None /\ \A k \in Position' : AddQueued(c, k)' => k = i
      <4>1. i + 1 \in Position /\ AddQueued(c, i + 1)
        BY <1>3, <1>6, <3>2
      <4>2. rows[c] = None /\ \A k \in Position : AddQueued(c, k) => k = i + 1
        BY <4>1 DEF ObjectInv, OnceInv
      <4>3. \A k \in Position' : AddQueued(c, k)' => k + 1 = i + 1
        BY <1>3, <1>6, <4>2
      <4> QED BY <1>3, <1>4, <2>3, <4>2, <4>3
    <3> QED BY <2>1, <3>1, <3>2
  <2> QED BY <2>2, <2>3
<1>11. RemovalInv'
  <2>1. ASSUME NEW i \in Position'
        PROVE  \E k \in Position :
                 /\ queue'[i] = queue[k]
                 /\ \A c \in Doms : \A r : InRoom(c, r) /\ Before(c, k)
                      => \A m \in Position' : AddQueued(c, m)' => m < i
    <3>1. i + 1 \in Position /\ queue'[i] = queue[i + 1]
      BY <1>3
    <3>2. ASSUME NEW c \in Doms, Before(c, i + 1),
                 NEW m \in Position', AddQueued(c, m)'
          PROVE  m < i
      <4>1. m + 1 \in Position /\ AddQueued(c, m + 1)
        BY <1>3, <1>6, <3>2
      <4>2. m + 1 < i + 1
        BY <3>2, <4>1 DEF Before
      <4> QED BY <1>3, <4>2
    <3> QED BY <3>1, <3>2
  <2>2. \A t \in Sessions : hand'[t] # None => hand'[t] = hand[t]
    BY <1>2
  <2> QED BY <1>2, <1>8, <2>1, <2>2, RemovalMoves
<1>12. EffectInv'
  <2>1. ASSUME NEW x \in Edits, Removal(x), Effective(x) PROVE Effective(x)'
    <3>0. x.dom \in Doms /\ adds[x.dom] = 1 /\ x.op # "add"
      BY <2>1, RecordTypes DEF Removal
    <3>1. CASE Absent(x.dom)
      <4>1. x.dom # d
        BY <1>2, <1>6, <3>1 DEF Absent
      <4>2. Absent(x.dom)'
        BY <1>3, <1>4, <1>5, <1>6, <3>0, <3>1, <4>1 DEF Absent
      <4> QED BY <4>2 DEF Effective
    <3>2. CASE \E i \in Position : queue[i] = Job("dom", x)
      <4>1. PICK i \in Position : queue[i] = Job("dom", x)
        BY <3>2
      <4>2. i # 1
        BY <1>1, <1>2, <3>0, <4>1 DEF Job
      <4>3. i - 1 \in Position' /\ queue'[i - 1] = Job("dom", x)
        BY <1>3, <4>1, <4>2
      <4> QED BY <4>3 DEF Effective
    <3>3. CASE rows[x.dom] # None /\ rows[x.dom].removed
      <4>1. rows'[x.dom] = rows[x.dom]
        BY <1>4, <3>0, <3>3
      <4> QED BY <3>3, <4>1 DEF Effective
    <3>4. CASE \/ \E s \in Sessions : pc[s] = "second" /\ hand[s] = x
               \/ Job("dom", x) \in lost
      BY <1>2, <3>4 DEF Effective
    <3> QED BY <2>1, <3>1, <3>2, <3>3, <3>4 DEF Effective
  <2>2. \A e \in events' : e \in events
    BY <1>2
  <2>3. \A i \in Position' : \E k \in Position : queue'[i] = queue[k]
    BY <1>3
  <2> QED BY <1>2, <2>1, <2>2, <2>3, EffectMoves
<1> QED BY <1>9, <1>10, <1>11, <1>12 DEF ObjectInv

(* Nothing is under way after a restart; the removals that were are lost. *)
LEMMA RestartObject ==
  ASSUME TypeOK, ObjectInv, Restart PROVE ObjectInv'
<1>1. /\ UNCHANGED <<rows, events, shown, adds>>
      /\ \A i : i \notin Position'
      /\ \A s \in Sessions : hand'[s] = None
      /\ lost' = lost \cup RemovalsUnderway
  BY DEF Restart, Position, disk
<1>2. ASSUME NEW c, NEW r, InRoom(c, r) PROVE InRoom(c, r)'
  BY <1>1, <1>2 DEF InRoom, AddHeld
<1>3. AddedInv'
  BY <1>1 DEF ObjectInv, AddedInv
<1>4. OnceInv'
  BY <1>1, <1>2 DEF ObjectInv, OnceInv, AddHeld
<1>5. RemovalInv'
  BY <1>1 DEF RemovalInv
<1>6. EffectInv'
  <2>1. ASSUME NEW x \in Edits, Removal(x), Effective(x) PROVE Effective(x)'
    <3>1. Job("dom", x).kind = "dom" /\ Job("dom", x).edit = x /\ x # None
      BY RecordTypes
    <3>2. CASE \E i \in Position : queue[i] = Job("dom", x)
      <4>1. Job("dom", x) \in RemovalsUnderway
        BY <2>1, <3>1, <3>2 DEF RemovalsUnderway, Position, Removal
      <4> QED BY <1>1, <4>1 DEF Effective
    <3>3. CASE \E s \in Sessions : pc[s] = "second" /\ hand[s] = x
      <4>1. Job("dom", x) \in RemovalsUnderway
        BY <2>1, <3>1, <3>3 DEF RemovalsUnderway, Removal
      <4> QED BY <1>1, <4>1 DEF Effective
    <3>4. CASE Absent(x.dom)
      <4>1. Absent(x.dom)'
        BY <1>1, <3>4 DEF Absent, AddHeld
      <4> QED BY <4>1 DEF Effective
    <3> QED BY <1>1, <2>1, <3>2, <3>3, <3>4 DEF Effective
  <2> QED BY <1>1, <2>1, EffectMoves
<1> QED BY <1>3, <1>4, <1>5, <1>6 DEF ObjectInv

(* Every step keeps the invariant. *)
LEMMA ObjectStep == TypeOK /\ ObjectInv /\ [Next]_vars => ObjectInv'
<1> SUFFICES ASSUME TypeOK, ObjectInv, [Next]_vars PROVE ObjectInv'
  OBVIOUS
<1>1. ASSUME NEW s \in Sessions, NEW d \in Doms, Lock(s, d) \/ Unlock(s, d)
      PROVE  ObjectInv'
  BY <1>1, ObjectFrame DEF Lock, Unlock, disk, past
<1>2. ASSUME NEW s \in Sessions, NEW d \in Doms, DomAdd(s, d) PROVE ObjectInv'
  BY <1>2, AddObject
<1>3. ASSUME NEW s \in Sessions, NEW d \in Doms,
             \/ DomTransform(s, d) \/ DomPayload(s, d) \/ DomRemove(s, d)
      PROVE  ObjectInv'
  <2>1. PICK op \in {"transform", "payload", "remove"},
             at \in {"clock", "second"} : Begin(s, op, d, at)
    BY <1>3 DEF DomTransform, DomPayload, DomRemove
  <2>2. /\ adds[d] # 0 /\ (adds[d] = 1 => InRoom(d, RoomOf[s]))
        /\ adds' = adds
    BY <1>3, KnownAdded DEF DomTransform, DomPayload, DomRemove
  <2>3. PICK x \in Edits :
          /\ x.op = op /\ x.dom = d /\ x.from = s
          /\ hand' = [hand EXCEPT ![s] = x]
    <3>1. 0 \in 0..MaxEdits /\ op \in {"add", "transform", "payload", "remove"}
      BY DomEditsAssumption
    <3>2. PICK x \in Edits : x = Edit(op, d, 0, s)
      BY <3>1, EditType
    <3>3. x.op = op /\ x.dom = d /\ x.from = s
      BY <3>1, <3>2, EditType
    <3> QED BY <2>1, <3>2, <3>3 DEF Begin
  <2>4. /\ UNCHANGED <<queue, disk, shown, lost>> /\ pc[s] = "rest"
        /\ \A t \in Sessions \ {s} : pc'[t] = pc[t]
    BY <2>1 DEF Begin, TypeOK
  <2>5. \A c : ~AddHeld(c, s)
    BY <2>4 DEF AddHeld, TypeOK
  <2> QED BY <2>2, <2>3, <2>4, <2>5, HandObject DEF Removal
<1>4. ASSUME NEW s \in Sessions, Leave(s) PROVE ObjectInv'
  BY <1>4, ObjectFrame DEF Leave, disk, past
<1>5. ASSUME NEW s \in Sessions, NextClock(s) PROVE ObjectInv'
  <2>1. PICK y \in Edits : y = hand[s] /\ y # None
    BY <1>5, RecordTypes DEF NextClock, TypeOK
  <2>2. PICK x \in Edits :
          /\ x.op = y.op /\ x.dom = y.dom /\ x.from = s
          /\ hand' = [hand EXCEPT ![s] = x]
    <3>1. clock[RoomOf[s]] + 1 \in 0..MaxEdits
      BY <1>5, DomEditsAssumption DEF NextClock, TypeOK, Rooms
    <3>2. /\ y.op \in {"add", "transform", "payload", "remove"} /\ y.dom \in Doms
      BY RecordTypes
    <3>3. PICK x \in Edits :
            /\ x = Edit(y.op, y.dom, clock[RoomOf[s]] + 1, s)
            /\ x.op = y.op /\ x.dom = y.dom /\ x.from = s
      BY <3>1, <3>2, EditType
    <3> QED BY <1>5, <2>1, <3>3 DEF NextClock
  <2>3. /\ UNCHANGED <<queue, disk, shown, lost, adds>> /\ pc[s] = "clock"
        /\ \A t \in Sessions \ {s} : pc'[t] = pc[t]
    BY <1>5 DEF NextClock, TypeOK, past
  <2>4. /\ adds[x.dom] # 0
        /\ Removal(x) => InRoom(x.dom, RoomOf[s])
    BY <2>1, <2>2 DEF ObjectInv, AddedInv, RemovalInv, Removal
  <2>5. /\ x.op = "add" <=> AddHeld(x.dom, s)
        /\ \A d \in Doms : AddHeld(d, s) => d = x.dom
    BY <2>1, <2>2 DEF AddHeld
  <2> QED BY <2>2, <2>3, <2>4, <2>5, HandObject
<1>6. ASSUME NEW s \in Sessions, WriteEvent(s) PROVE ObjectInv'
  <2>1. PICK e \in Edits : e = hand[s]
    BY <1>6 DEF WriteEvent, TypeOK
  <2>2. /\ TrySend(Job("event", e)) /\ hand' = hand
        /\ UNCHANGED <<disk, shown, adds>> /\ pc'[s] = "second"
        /\ \A t \in Sessions \ {s} : pc'[t] = pc[t]
    BY <1>6, <2>1 DEF WriteEvent, Order, TypeOK
  <2> QED BY <2>1, <2>2, PushObject
<1>7. ASSUME NEW s \in Sessions, WriteDom(s) PROVE ObjectInv'
  <2>1. PICK e \in Edits : e = hand[s]
    BY <1>7 DEF WriteDom, TypeOK
  <2>2. CASE e.op = "add"
    BY <1>7, <2>1, <2>2, PushAdd
  <2>3. CASE e.op # "add"
    <3>1. /\ TrySend(Job("dom", e)) /\ hand' = [hand EXCEPT ![s] = None]
          /\ UNCHANGED <<disk, shown, adds>>
          /\ \A t \in Sessions \ {s} : pc'[t] = pc[t]
      BY <1>7, <2>1, <2>3 DEF WriteDom, Order, TypeOK
    <3> QED BY <2>1, <2>3, <3>1, PushObject
  <2> QED BY <2>2, <2>3
<1>8. CASE InsertEvent
  <2>1. PICK h \in Edits : Head(queue) = Job("event", h) /\ Head(queue).edit = h
    BY <1>8, ExecuteQueue, RecordTypes DEF InsertEvent
  <2>2. /\ events' = events \/ events' = events \cup {h}
        /\ rows' = rows /\ lost \subseteq lost'
    BY <1>8, <2>1 DEF InsertEvent, Fails, Lose, disk
  <2>3. UNCHANGED <<shown, adds>>
    BY <1>8 DEF InsertEvent, Execute
  <2> QED BY <1>8, <2>1, <2>2, <2>3, PopObject DEF InsertEvent
<1>9. CASE InsertDom
  BY <1>9, PopAdd
<1>10. CASE UpdateDom
  <2>1. PICK h \in Edits : Head(queue) = Job("dom", h) /\ Head(queue).edit = h
    BY <1>10, ExecuteQueue, RecordTypes DEF UpdateDom
  <2>2. UNCHANGED <<shown, adds, events>> /\ lost \subseteq lost'
    BY <1>10 DEF UpdateDom, Execute, Fails, Lose, disk
  <2>3. h.dom \in Doms /\ rows \in [Doms -> RowRecords \cup {None}]
    BY RecordTypes DEF TypeOK
  <2>4. ASSUME Matches(h)
        PROVE  /\ Changed(rows[h.dom], h) # None
               /\ Changed(rows[h.dom], h).room = rows[h.dom].room
               /\ h.op = "remove" => Changed(rows[h.dom], h).removed
    <3>1. PICK v \in RowRecords : v = rows[h.dom]
      BY <2>3, <2>4 DEF Matches
    <3>2. PICK p \in Edits : p = IF h.op = "transform" THEN h ELSE v.placed
      BY RecordTypes
    <3>3. PICK b \in BOOLEAN : b = (v.removed \/ h.op = "remove")
      OBVIOUS
    <3>4. v.room \in Rooms /\ Changed(v, h) = Row(v.room, p, b)
      BY <3>2, <3>3, RecordTypes DEF Changed
    <3>5. /\ Changed(v, h) \in RowRecords
          /\ Changed(v, h).room = v.room /\ Changed(v, h).removed = b
      BY <3>4, RowType
    <3> QED BY <3>1, <3>3, <3>5, RecordTypes
  <2>5. CASE Fails
    <3>1. rows' = rows /\ (h.op = "remove" => Job("dom", h) \in lost')
      BY <2>1, <2>5 DEF Fails, Lose, disk
    <3> QED BY <1>10, <2>1, <2>2, <3>1, PopObject DEF UpdateDom, Removal
  <2>6. CASE Matches(h) /\ rows' = [rows EXCEPT ![h.dom] = Changed(@, h)]
    <3>1. rows[h.dom] # None /\ ~rows[h.dom].removed
      BY <2>6 DEF Matches
    <3>2. /\ rows'[h.dom] = Changed(rows[h.dom], h)
          /\ \A c \in Doms : c # h.dom => rows'[c] = rows[c]
      BY <2>3, <2>6
    <3>3. \A c \in Doms :
            /\ rows'[c] = None <=> rows[c] = None
            /\ rows[c] # None =>
                 rows'[c].room = rows[c].room /\ (rows[c].removed => rows'[c].removed)
      BY <2>4, <2>6, <3>1, <3>2
    <3>4. h.op = "remove" => rows'[h.dom] # None /\ rows'[h.dom].removed
      BY <2>4, <2>6, <3>2
    <3> QED BY <1>10, <2>1, <2>2, <3>3, <3>4, PopObject DEF UpdateDom, Removal
  <2>7. CASE ~Matches(h) /\ rows' = rows
    <3>1. ASSUME Removal(h), ~Absent(h.dom)
          PROVE  rows'[h.dom] # None /\ rows'[h.dom].removed
      <4>1. 1 \in Position /\ queue[1] = Job("dom", h)
        BY <1>10, <2>1, ExecuteQueue DEF UpdateDom
      <4>2. queue[1].edit = h /\ queue[1].kind = "dom"
        BY <4>1, RecordTypes
      <4>3. /\ InRoom(h.dom, RoomOf[h.from])
            /\ \A k \in Position : AddQueued(h.dom, k) => k < 1
        BY <3>1, <4>1, <4>2 DEF ObjectInv, RemovalInv
      <4>4. \A k \in Position : ~AddQueued(h.dom, k)
        BY <4>3 DEF Position
      <4>5. rows[h.dom] # None /\ rows[h.dom].room = RoomOf[h.from]
        BY <3>1, <4>3, <4>4 DEF Absent, InRoom
      <4> QED BY <2>7, <4>5 DEF Matches
    <3> QED BY <1>10, <2>1, <2>2, <2>7, <3>1, PopObject DEF UpdateDom
  <2> QED BY <1>10, <2>1, <2>5, <2>6, <2>7 DEF UpdateDom
<1>11. CASE Restart
  BY <1>11, RestartObject
<1>12. CASE UNCHANGED vars
  BY <1>12, ObjectFrame DEF vars, memory, disk, past
<1> QED BY <1>1, <1>2, <1>3, <1>4, <1>5, <1>6, <1>7, <1>8, <1>9, <1>10, <1>11,
           <1>12 DEF Next, Quiet

(* An object that was added once and whose removal is in the log does not  *)
(* live on in the table, though adding and removing it are two jobs each,  *)
(* of different handlers: it is gone, or its removal is queued or lost     *)
(* (hub.go:251-277 and 353-369, db.go:268-277).                            *)
THEOREM NoGhostsCorrect == Spec => []NoGhosts
<1>1. Init => ObjectInv
  BY DEF Init, ObjectInv, AddedInv, OnceInv, RemovalInv, EffectInv, Position,
         AddHeld
<1>2. ObjectInv => NoGhosts
  BY DEF ObjectInv, EffectInv, NoGhosts, Removal, Effective, Absent, Position
<1> QED BY <1>1, <1>2, ObjectStep, TypeCorrect, PTL DEF Spec
=============================================================================
