------------------------------ MODULE EventLog ------------------------------
(***************************************************************************)
(* The path of a persisted event: the clock of a room that numbers it      *)
(* (NextClock, ws/hub.go), the buffer of the strokes being drawn, the      *)
(* queue of database jobs (db.WriteEvent) and the events table, written by *)
(* the one writer goroutine (db/db.go).                                    *)
(*                                                                         *)
(* A session is the reader goroutine of a connection.  Of the hub this     *)
(* module keeps what the clock depends on: which sessions are members of   *)
(* their room, and the removal of a room with its last member.  Payloads   *)
(* are left out: an event is its room and its id.                          *)
(***************************************************************************)
EXTENDS Naturals, Sequences, FiniteSets

CONSTANTS
  Sessions,     (* the connections                                         *)
  Rooms,        (* the room ids                                            *)
  RoomOf,       (* the roomId of a connection                              *)
  Strokes,      (* the stroke ids the peers use                            *)
  QueueCap,     (* the capacity of opCh (10000 in the code)                *)
  MaxId,        (* bound: the largest clock of a room                      *)
  ReadFails,    (* whether the query of the largest id may fail            *)
  WriteFails,   (* whether an INSERT may fail                              *)
  KeepOccupied, (* bound: the last member waits for the room's events      *)
  None

ASSUME EventLogAssumption ==
  /\ RoomOf \in [Sessions -> Rooms]
  /\ QueueCap \in Nat \ {0}
  /\ MaxId \in Nat \ {0}
  /\ {ReadFails, WriteFails, KeepOccupied} \subseteq BOOLEAN
  /\ None \notin Strokes \cup 0..MaxId \cup [room : Rooms, id : 1..MaxId]

VARIABLES
  clock,    (* Room.clock, or None when H.rooms has no such room           *)
  mode,     (* whether a session is a member, was evicted, or has left     *)
  at,       (* where its handler is                                        *)
  hand,     (* the event its handler is carrying, or None                  *)
  into,     (* the stroke id under which it will buffer the event          *)
  buffer,   (* StrokeBuffer.Buffer: the event of each stroke being drawn   *)
  fresh,    (* the strokes whose TTL is not over                           *)
  queue,    (* opCh                                                        *)
  events    (* the events table                                            *)

memory == <<clock, mode, at, hand, into, buffer, fresh, queue>>
vars   == <<memory, events>>

Entries == [room : Rooms, id : 1..MaxId]
Entry(r, n) == [room |-> r, id |-> n]

(* The clock of a room never passes the bound, the queue never passes its  *)
(* capacity, and a handler carries an event exactly between taking its id  *)
(* (or the stroke) and handing it on (hub.go:185-261, db.go:536-545).      *)
TypeOK ==
  /\ clock  \in [Rooms -> 0..MaxId \cup {None}]
  /\ mode   \in [Sessions -> {"out", "member", "evicted", "left"}]
  /\ at     \in [Sessions -> {"out", "ready", "start", "write", "closing"}]
  /\ hand   \in [Sessions -> Entries \cup {None}]
  /\ into   \in [Sessions -> Strokes \cup {None}]
  /\ buffer \in [Strokes -> Entries \cup {None}]
  /\ fresh  \subseteq Strokes
  /\ queue  \in Seq(Entries) /\ Len(queue) <= QueueCap
  /\ events \subseteq Entries
  /\ \A s \in Sessions : hand[s] # None <=> at[s] \in {"start", "write"}
  /\ \A s \in Sessions : into[s] # None <=> at[s] = "start"

Empty ==
  /\ clock  = [r \in Rooms |-> None]
  /\ mode   = [s \in Sessions |-> "out"]
  /\ at     = [s \in Sessions |-> "out"]
  /\ hand   = [s \in Sessions |-> None]
  /\ into   = [s \in Sessions |-> None]
  /\ buffer = [k \in Strokes |-> None]
  /\ fresh  = {}
  /\ queue  = <<>>

Init == Empty /\ events = {}

----------------------------------------------------------------------------
(* Joining and leaving the room.                                           *)

Stored(r) == {e.id : e \in {x \in events : x.room = r}}

(* COALESCE(MAX(id), 0) of the room.  The mutant returns the number of     *)
(* rows.                                                                   *)
CountIds(r) == Cardinality(Stored(r))

GetMaxIdByRoom(r) ==
  IF Stored(r) = {} THEN 0
  ELSE CHOOSE n \in Stored(r) : \A m \in Stored(r) : m <= n

(* H.Join: a new room takes its clock from the table, or 0 when the query  *)
(* fails.                                                                  *)
Join(s) ==
  /\ at[s] = "out"
  /\ mode' = [mode EXCEPT ![s] = "member"]
  /\ at' = [at EXCEPT ![s] = "ready"]
  /\ LET r == RoomOf[s]
     IN  \/ clock[r] # None /\ UNCHANGED clock
         \/ /\ clock[r] = None
            /\ clock' = [clock EXCEPT ![r] = GetMaxIdByRoom(r)]
         \/ /\ clock[r] = None /\ ReadFails
            /\ clock' = [clock EXCEPT ![r] = 0]
  /\ UNCHANGED <<hand, into, buffer, fresh, queue, events>>

(* The other members of the room of s. *)
Others(s) ==
  {t \in Sessions \ {s} : RoomOf[t] = RoomOf[s] /\ mode[t] = "member"}

(* The events of a room that have an id and are not in the table. *)
Underway(r) ==
  {e \in {hand[s] : s \in Sessions} \cup {buffer[k] : k \in Strokes}
           \cup {queue[i] : i \in 1..Len(queue)} :
     e # None /\ e.room = r}

(* Leave, which either goroutine of the connection may run, so that the    *)
(* reader can be anywhere in a handler.  A room nobody is in is removed.   *)
Leave(s) ==
  /\ mode[s] \in {"member", "evicted"}
  /\ KeepOccupied /\ Others(s) = {} => Underway(RoomOf[s]) = {}
  /\ mode' = [mode EXCEPT ![s] = "left"]
  /\ clock' = [clock EXCEPT ![RoomOf[s]] = IF Others(s) = {} THEN None ELSE @]
  /\ UNCHANGED <<at, hand, into, buffer, fresh, queue, events>>

(* A Broadcast found its send channel full. *)
Evict(s) ==
  /\ mode[s] = "member"
  /\ mode' = [mode EXCEPT ![s] = "evicted"]
  /\ UNCHANGED <<clock, at, hand, into, buffer, fresh, queue, events>>

(* read() returns; the slot may serve another connection. *)
ReadEnds(s) ==
  /\ mode[s] = "left"
  /\ at[s] \in {"ready", "closing"}
  /\ mode' = [mode EXCEPT ![s] = "out"]
  /\ at' = [at EXCEPT ![s] = "out"]
  /\ UNCHANGED <<clock, hand, into, buffer, fresh, queue, events>>

----------------------------------------------------------------------------
(* handleMsg.                                                              *)

(* NextClock: the next id of the room of s goes into the hand of s.  The   *)
(* lookup of the room and the addition to its clock are one step here: a   *)
(* room that is removed between them, and its old clock counted on, is     *)
(* left out.                                                               *)
Take(s) ==
  LET r == RoomOf[s]
  IN  /\ at[s] = "ready"
      /\ clock[r] # None
      /\ clock[r] < MaxId
      /\ clock' = [clock EXCEPT ![r] = @ + 1]
      /\ hand' = [hand EXCEPT ![s] = Entry(r, clock[r] + 1)]

(* NextClock of a room that was removed: the reader panics and closes. *)
NextClockPanic(s) ==
  /\ at[s] = "ready"
  /\ clock[RoomOf[s]] = None
  /\ at' = [at EXCEPT ![s] = "closing"]
  /\ UNCHANGED <<clock, mode, hand, into, buffer, fresh, queue, events>>

(* stroke-start, up to the lock of the buffer. *)
StrokeStart(s, k) ==
  /\ Take(s)
  /\ into' = [into EXCEPT ![s] = k]
  /\ at' = [at EXCEPT ![s] = "start"]
  /\ UNCHANGED <<mode, buffer, fresh, queue, events>>

(* Its critical section; a stroke of that id is overwritten. *)
StrokeBuffered(s) ==
  /\ at[s] = "start"
  /\ buffer' = [buffer EXCEPT ![into[s]] = hand[s]]
  /\ fresh' = fresh \cup {into[s]}
  /\ hand' = [hand EXCEPT ![s] = None]
  /\ into' = [into EXCEPT ![s] = None]
  /\ at' = [at EXCEPT ![s] = "ready"]
  /\ UNCHANGED <<clock, mode, queue, events>>

(* The points are left out; the TTL is renewed. *)
StrokeUpdate(s, k) ==
  /\ at[s] = "ready"
  /\ buffer[k] # None
  /\ fresh' = fresh \cup {k}
  /\ UNCHANGED <<clock, mode, at, hand, into, buffer, queue, events>>

(* stroke-end takes the stroke out of the buffer, whoever started it; of a *)
(* stroke that is not there it changes nothing.  The mutant deletes it     *)
(* from the buffer only when the event has been queued.                    *)
StrokeEndUndeleted(s, k) ==
  /\ at[s] = "ready"
  /\ buffer[k] # None
  /\ hand' = [hand EXCEPT ![s] = buffer[k]]
  /\ at' = [at EXCEPT ![s] = "write"]
  /\ UNCHANGED <<clock, mode, into, buffer, fresh, queue, events>>

StrokeEnd(s, k) ==
  /\ at[s] = "ready"
  /\ buffer[k] # None
  /\ hand' = [hand EXCEPT ![s] = buffer[k]]
  /\ buffer' = [buffer EXCEPT ![k] = None]
  /\ fresh' = fresh \ {k}
  /\ at' = [at EXCEPT ![s] = "write"]
  /\ UNCHANGED <<clock, mode, into, queue, events>>

(* dom-add, a dom-transform that is let through, and dom-remove. *)
DomEvent(s) ==
  /\ Take(s)
  /\ at' = [at EXCEPT ![s] = "write"]
  /\ UNCHANGED <<mode, into, buffer, fresh, queue, events>>

(* WriteEvent queues the event, or drops it when the queue is full.  The   *)
(* mutant queues one too many.                                             *)
FullOffByOne == Len(queue) > QueueCap

Full == Len(queue) = QueueCap

WriteEvent(s) ==
  /\ at[s] = "write"
  /\ queue' = IF Full THEN queue ELSE Append(queue, hand[s])
  /\ hand' = [hand EXCEPT ![s] = None]
  /\ at' = [at EXCEPT ![s] = "ready"]
  /\ UNCHANGED <<clock, mode, into, buffer, fresh, events>>

----------------------------------------------------------------------------
(* The other goroutines, and the process.                                  *)

(* StrokeTTL passes without an update of stroke k. *)
Age(k) ==
  /\ k \in fresh
  /\ fresh' = fresh \ {k}
  /\ UNCHANGED <<clock, mode, at, hand, into, buffer, queue, events>>

(* One pass of StartStrokeTTLGC, a critical section of the buffer.  The    *)
(* mutant compares TTL and time the other way round.                       *)
StrokeTTLGCSwapped ==
  /\ \E k \in Strokes : buffer[k] # None /\ k \in fresh
  /\ buffer' = [k \in Strokes |-> IF k \in fresh THEN None ELSE buffer[k]]
  /\ UNCHANGED <<clock, mode, at, hand, into, fresh, queue, events>>

StrokeTTLGC ==
  /\ \E k \in Strokes : buffer[k] # None /\ k \notin fresh
  /\ buffer' = [k \in Strokes |-> IF k \in fresh THEN buffer[k] ELSE None]
  /\ UNCHANGED <<clock, mode, at, hand, into, fresh, queue, events>>

(* writerLoop takes the oldest job; a failed INSERT is only printed. *)
Persist ==
  /\ queue # <<>>
  /\ queue' = Tail(queue)
  /\ \/ events' = events \cup {Head(queue)}
     \/ WriteFails /\ UNCHANGED events
  /\ UNCHANGED <<clock, mode, at, hand, into, buffer, fresh>>

(* The process ends, with what is queued, and starts again; the table is   *)
(* on disk.                                                                *)
Crash ==
  /\ clock'  = [r \in Rooms |-> None]
  /\ mode'   = [s \in Sessions |-> "out"]
  /\ at'     = [s \in Sessions |-> "out"]
  /\ hand'   = [s \in Sessions |-> None]
  /\ into'   = [s \in Sessions |-> None]
  /\ buffer' = [k \in Strokes |-> None]
  /\ fresh'  = {}
  /\ queue'  = <<>>
  /\ UNCHANGED events

----------------------------------------------------------------------------

Peer(s) ==
  \/ Join(s) \/ Leave(s) \/ Evict(s) \/ NextClockPanic(s) \/ DomEvent(s)
  \/ \E k \in Strokes :
       StrokeStart(s, k) \/ StrokeUpdate(s, k) \/ StrokeEnd(s, k)

Handler(s) == StrokeBuffered(s) \/ WriteEvent(s) \/ ReadEnds(s)

Next ==
  \/ \E s \in Sessions : Peer(s) \/ Handler(s)
  \/ \E k \in Strokes : Age(k)
  \/ StrokeTTLGC \/ Persist \/ Crash

Spec == Init /\ [][Next]_vars

----------------------------------------------------------------------------
(* Properties.                                                             *)

(* The places where an event with an id can be while it is not in the      *)
(* table, and what is there.                                               *)
Places ==
  ({"hand"} \X Sessions) \cup ({"buffer"} \X Strokes)
    \cup ({"queue"} \X (1..Len(queue)))

Found(p) ==
  IF p[1] = "hand" THEN hand[p[2]]
  ELSE IF p[1] = "buffer" THEN buffer[p[2]] ELSE queue[p[2]]

(* An id is "assigned per event" (hub.go:177): no event is in two places,  *)
(* so a stroke that two sessions end is persisted once, and no two events  *)
(* of a room have the same id, under way or in the table.                  *)
UniqueIds ==
  \A p \in Places :
    Found(p) # None =>
      /\ Found(p) \notin events
      /\ \A q \in Places \ {p} : Found(q) # Found(p)

(* The clock of a room is never behind an id it has given out, though it   *)
(* restarts from the table, which lags behind the queue and the buffer     *)
(* (hub.go:41-48 and db.go:738-752).                                       *)
ClockAhead ==
  \A r \in Rooms :
    clock[r] # None =>
      \A e \in Underway(r) \cup events : e.room = r => e.id <= clock[r]

(* An event is lost only where the code gives it up: it was in the hand of *)
(* a handler that found the queue full (db.go:540-544), its stroke was     *)
(* overwritten by a stroke-start of the same id (hub.go:189) or had not    *)
(* been updated for StrokeTTL (hub.go:511-518), its INSERT failed, or the  *)
(* process ended.  The collector racing the updates, and the two ends of a *)
(* stroke, lose nothing else.                                              *)
LostOnlyWhereGivenUp ==
  [][\A r \in Rooms : \A e \in Underway(r) :
       \/ e \in Underway(r)' \cup events'
       \/ Full /\ \E s \in Sessions : at[s] = "write" /\ hand[s] = e
       \/ \E s \in Sessions : at[s] = "start" /\ buffer[into[s]] = e
       \/ \E k \in Strokes \ fresh : buffer[k] = e
       \/ WriteFails /\ Persist /\ e = Head(queue)
       \/ Crash]_vars

(* The abstract journal: an event is pending while it is under way. *)
Kept == INSTANCE Journal WITH
  Ids     <- 1..MaxId,
  pending <- UNION {Underway(r) : r \in Rooms},
  log     <- events

(* The clocks, the hands, the buffer, the queue and the writer implement   *)
(* the journal: an id is given out once and in order, an event that is in  *)
(* the table was pending until then and is no more, none comes back, and   *)
(* the table only grows (hub.go:20-48 and 177-249, db.go:329-340).         *)
ImplementsJournal == Kept!Spec
=============================================================================
