--------------------------- MODULE EventLogProofs ---------------------------
(* Theorems about EventLog, for any sessions, rooms and strokes and any    *)
(* capacity of the queue.                                                  *)
EXTENDS EventLog, Largest, SequenceTheorems, TLAPS

(* The actions of the module. *)
USE DEF Peer, Handler

----------------------------------------------------------------------------
(* Ids and their largest.                                                  *)

(* What an event is made of. *)
LEMMA EntryType ==
  /\ \A r \in Rooms : \A n \in 1..MaxId :
       /\ Entry(r, n) \in Entries
       /\ Entry(r, n).room = r /\ Entry(r, n).id = n
  /\ \A e \in Entries : e # None /\ e.room \in Rooms /\ e.id \in 1..MaxId
  /\ None \notin 0..MaxId /\ None \notin Strokes
  BY EventLogAssumption DEF Entry, Entries

(* The clock a room starts with is ahead of the events in the table. *)
LEMMA MaxIdAhead ==
  ASSUME TypeOK, NEW r \in Rooms
  PROVE  /\ GetMaxIdByRoom(r) \in 0..MaxId
         /\ \A e \in events : e.room = r => e.id <= GetMaxIdByRoom(r)
<1>1. Stored(r) \in SUBSET (0..MaxId)
  BY EntryType DEF TypeOK, Stored
<1>2. \A e \in events : e.room = r => e.id \in Stored(r)
  BY DEF Stored
<1>3. CASE Stored(r) = {}
  BY <1>2, <1>3, EventLogAssumption DEF GetMaxIdByRoom
<1>4. CASE Stored(r) # {}
  <2>1. \E n \in Stored(r) : \A m \in Stored(r) : m <= n
    BY <1>1, <1>4, HasLargest, EventLogAssumption
  <2>2. /\ GetMaxIdByRoom(r) \in Stored(r)
        /\ \A m \in Stored(r) : m <= GetMaxIdByRoom(r)
    BY <2>1, <1>4 DEF GetMaxIdByRoom
  <2> QED BY <1>1, <1>2, <2>2
<1> QED BY <1>3, <1>4

----------------------------------------------------------------------------
(* Type correctness.                                                       *)

(* The initial states are of the right type. *)
LEMMA TypeInit == Init => TypeOK
  BY EventLogAssumption, EmptySeq DEF Init, Empty, TypeOK

(* Taking an id and carrying the event of it keeps the types of both. *)
LEMMA TakeType ==
  ASSUME TypeOK, NEW s \in Sessions, Take(s)
  PROVE  /\ clock' \in [Rooms -> 0..MaxId \cup {None}]
         /\ hand' \in [Sessions -> Entries \cup {None}]
         /\ \A t \in Sessions : t # s => hand'[t] = hand[t]
         /\ hand'[s] \in Entries
<1>1. RoomOf[s] \in Rooms
  BY EventLogAssumption
<1>2. clock[RoomOf[s]] + 1 \in 1..MaxId
  BY <1>1, EventLogAssumption DEF Take, TypeOK
<1>3. Entry(RoomOf[s], clock[RoomOf[s]] + 1) \in Entries
  BY <1>1, <1>2, EntryType
<1> QED BY <1>1, <1>2, <1>3 DEF Take, TypeOK

(* The queue after its ends. *)
LEMMA QueueType ==
  ASSUME NEW q \in Seq(Entries), Len(q) <= QueueCap
  PROVE  /\ Len(q) \in Nat
         /\ \A i \in 1..Len(q) : q[i] \in Entries
         /\ q # <<>> =>
              /\ Head(q) = q[1] /\ Len(q) > 0
              /\ Tail(q) \in Seq(Entries) /\ Len(Tail(q)) = Len(q) - 1
              /\ \A i \in 1..Len(Tail(q)) : Tail(q)[i] = q[i + 1]
         /\ \A e \in Entries :
              /\ Append(q, e) \in Seq(Entries)
              /\ Len(Append(q, e)) = Len(q) + 1
              /\ \A i \in 1..Len(q) : Append(q, e)[i] = q[i]
              /\ Append(q, e)[Len(q) + 1] = e
<1>1. Len(q) \in Nat /\ \A i \in 1..Len(q) : q[i] \in Entries
  BY LenProperties
<1>2. q # <<>> =>
        /\ Head(q) = q[1] /\ Len(q) > 0
        /\ Tail(q) \in Seq(Entries) /\ Len(Tail(q)) = Len(q) - 1
        /\ \A i \in 1..Len(Tail(q)) : Tail(q)[i] = q[i + 1]
  OBVIOUS
<1>3. \A e \in Entries :
        /\ Append(q, e) \in Seq(Entries)
        /\ Len(Append(q, e)) = Len(q) + 1
        /\ \A i \in 1..Len(q) : Append(q, e)[i] = q[i]
        /\ Append(q, e)[Len(q) + 1] = e
  BY AppendProperties
<1> QED BY <1>1, <1>2, <1>3

(* Every step keeps the types. *)
LEMMA TypeStep == TypeOK /\ [Next]_vars => TypeOK'
<1> SUFFICES ASSUME TypeOK, [Next]_vars PROVE TypeOK'
  OBVIOUS
<1>0. \A s \in Sessions : RoomOf[s] \in Rooms
  BY EventLogAssumption
<1>1. ASSUME NEW s \in Sessions, Join(s) PROVE TypeOK'
  <2>1. clock' \in [Rooms -> 0..MaxId \cup {None}]
    BY <1>0, <1>1, MaxIdAhead, EventLogAssumption DEF Join, TypeOK
  <2> QED BY <1>1, <2>1 DEF Join, TypeOK
<1>2. ASSUME NEW s \in Sessions, Leave(s) PROVE TypeOK'
  BY <1>0, <1>2 DEF Leave, TypeOK
<1>3. ASSUME NEW s \in Sessions, Evict(s) PROVE TypeOK'
  BY <1>3 DEF Evict, TypeOK
<1>4. ASSUME NEW s \in Sessions, NextClockPanic(s) PROVE TypeOK'
  BY <1>4 DEF NextClockPanic, TypeOK
<1>5. ASSUME NEW s \in Sessions, DomEvent(s) PROVE TypeOK'
  <2>1. Take(s) /\ at[s] = "ready"
    BY <1>5 DEF DomEvent, Take
  <2>2. /\ \A t \in Sessions : hand'[t] # None <=> at'[t] \in {"start", "write"}
        /\ \A t \in Sessions : into'[t] # None <=> at'[t] = "start"
    <3> HIDE DEF Entries
    <3> QED BY <1>5, <2>1, TakeType, EntryType DEF DomEvent, TypeOK
  <2> QED BY <1>5, <2>1, <2>2, TakeType DEF DomEvent, TypeOK
<1>6. ASSUME NEW s \in Sessions, NEW k \in Strokes, StrokeStart(s, k)
      PROVE  TypeOK'
  <2>1. Take(s) /\ at[s] = "ready"
    BY <1>6 DEF StrokeStart, Take
  <2> QED BY <1>6, <2>1, TakeType, EntryType DEF StrokeStart, TypeOK
<1>7. ASSUME NEW s \in Sessions, NEW k \in Strokes, StrokeUpdate(s, k)
      PROVE  TypeOK'
  BY <1>7 DEF StrokeUpdate, TypeOK
<1>8. ASSUME NEW s \in Sessions, NEW k \in Strokes, StrokeEnd(s, k)
      PROVE  TypeOK'
  BY <1>8 DEF StrokeEnd, TypeOK
<1>9. ASSUME NEW s \in Sessions, StrokeBuffered(s) PROVE TypeOK'
  <2>1. into[s] \in Strokes /\ hand[s] \in Entries \cup {None}
    BY <1>9 DEF StrokeBuffered, TypeOK
  <2> QED BY <1>9, <2>1 DEF StrokeBuffered, TypeOK
<1>10. ASSUME NEW s \in Sessions, WriteEvent(s) PROVE TypeOK'
  <2>1. hand[s] \in Entries
    BY <1>10 DEF WriteEvent, TypeOK
  <2>2. queue' \in Seq(Entries) /\ Len(queue') <= QueueCap
    BY <1>10, <2>1, QueueType, EventLogAssumption DEF WriteEvent, Full, TypeOK
  <2> QED BY <1>10, <2>2 DEF WriteEvent, TypeOK
<1>11. ASSUME NEW s \in Sessions, ReadEnds(s) PROVE TypeOK'
  BY <1>11 DEF ReadEnds, TypeOK
<1>12. ASSUME NEW k \in Strokes, Age(k) PROVE TypeOK'
  BY <1>12 DEF Age, TypeOK
<1>13. CASE StrokeTTLGC
  BY <1>13 DEF StrokeTTLGC, TypeOK
<1>14. CASE Persist
  <2>1. queue' \in Seq(Entries) /\ Len(queue') <= QueueCap
    BY <1>14, QueueType, EventLogAssumption DEF Persist, TypeOK
  <2>2. events' \subseteq Entries
    <3>1. Head(queue) \in Entries
      BY <1>14, QueueType DEF Persist, TypeOK
    <3> QED BY <1>14, <3>1 DEF Persist, TypeOK
  <2> QED BY <1>14, <2>1, <2>2 DEF Persist, TypeOK
<1>15. CASE Crash
  BY <1>15, EmptySeq, EventLogAssumption DEF Crash, TypeOK
<1>16. CASE UNCHANGED vars
  BY <1>16 DEF vars, memory, TypeOK
<1> QED BY <1>1, <1>2, <1>3, <1>4, <1>5, <1>6, <1>7, <1>8, <1>9, <1>10, <1>11,
           <1>12, <1>13, <1>14, <1>15, <1>16 DEF Next

(* The type invariant: the queue never passes its capacity, and a handler  *)
(* carries an event exactly between taking its id and handing it on.       *)
THEOREM TypeCorrect == Spec => []TypeOK
  BY TypeInit, TypeStep, PTL DEF Spec

----------------------------------------------------------------------------
(* Ids, in rooms that are not emptied while their events are under way.    *)

(* The clock of its room is there, and not behind the event. *)
Issued(e) == clock[e.room] # None /\ e.id <= clock[e.room]

(* The clock is ahead of every event under way or in the table; the table  *)
(* may have events of rooms that are not in the map.                       *)
AheadInv ==
  /\ \A s \in Sessions : hand[s] # None => Issued(hand[s])
  /\ \A k \in Strokes : buffer[k] # None => Issued(buffer[k])
  /\ \A i \in 1..Len(queue) : Issued(queue[i])
  /\ \A e \in events : clock[e.room] # None => e.id <= clock[e.room]

(* No event is in two places. *)
ApartInv ==
  /\ \A s, t \in Sessions : s # t /\ hand[s] # None => hand[s] # hand[t]
  /\ \A k, l \in Strokes : k # l /\ buffer[k] # None => buffer[k] # buffer[l]
  /\ \A i, j \in 1..Len(queue) : i # j => queue[i] # queue[j]
  /\ \A s \in Sessions, k \in Strokes : hand[s] # None => hand[s] # buffer[k]
  /\ \A s \in Sessions, i \in 1..Len(queue) : hand[s] # queue[i]
  /\ \A k \in Strokes, i \in 1..Len(queue) : buffer[k] # queue[i]
  /\ \A s \in Sessions : hand[s] \notin events
  /\ \A k \in Strokes : buffer[k] \notin events
  /\ \A i \in 1..Len(queue) : queue[i] \notin events

Inv == TypeOK /\ AheadInv /\ ApartInv

(* The types, without the definition of an event. *)
LEMMA Typed ==
  ASSUME TypeOK
  PROVE  /\ clock \in [Rooms -> 0..MaxId \cup {None}]
         /\ \A s \in Sessions : RoomOf[s] \in Rooms
         /\ \A s \in Sessions : hand[s] # None => hand[s] \in Entries
         /\ \A k \in Strokes : buffer[k] # None => buffer[k] \in Entries
         /\ Len(queue) \in Nat
         /\ \A i \in 1..Len(queue) : queue[i] \in Entries
         /\ \A e \in events : e \in Entries
  BY EventLogAssumption, QueueType DEF TypeOK

(* A new room has nothing under way, and its clock is read from the table. *)
LEMMA JoinAhead ==
  ASSUME TypeOK, AheadInv, ~ReadFails, NEW s \in Sessions, Join(s)
  PROVE  AheadInv'
<1> DEFINE r == RoomOf[s]
<1>1. r \in Rooms /\ UNCHANGED <<hand, buffer, queue, events>>
  BY Typed DEF Join
<1>2. CASE clock[r] # None
  <2>1. UNCHANGED clock
    BY <1>2 DEF Join
  <2> QED BY <1>1, <2>1 DEF AheadInv, Issued
<1>3. CASE clock[r] = None
  <2>1. clock' = [clock EXCEPT ![r] = GetMaxIdByRoom(r)]
    BY <1>3 DEF Join
  <2>2. ASSUME NEW e \in Entries, Issued(e) PROVE Issued(e)'
    BY <1>3, <2>1, <2>2, EntryType, Typed DEF Issued
  <2>3. ASSUME NEW e \in events, clock'[e.room] # None
        PROVE  e.id <= clock'[e.room]
    <3>1. e.room \in Rooms
      BY EntryType, Typed
    <3>2. CASE e.room = r
      BY <1>1, <2>1, <3>2, MaxIdAhead, Typed
    <3>3. CASE e.room # r
      BY <2>1, <2>3, <3>1, <3>3, Typed DEF AheadInv
    <3> QED BY <3>2, <3>3
  <2> QED BY <1>1, <2>2, <2>3, Typed DEF AheadInv
<1> QED BY <1>2, <1>3

(* A room is removed when nothing of it is under way. *)
LEMMA LeaveAhead ==
  ASSUME TypeOK, AheadInv, KeepOccupied, NEW s \in Sessions, Leave(s)
  PROVE  AheadInv'
<1> DEFINE r == RoomOf[s]
<1>1. r \in Rooms /\ UNCHANGED <<hand, buffer, queue, events>>
  BY Typed DEF Leave
<1>2. CASE Others(s) # {}
  <2>1. UNCHANGED clock
    BY <1>1, <1>2, Typed DEF Leave
  <2> QED BY <1>1, <2>1 DEF AheadInv, Issued
<1>3. CASE Others(s) = {}
  <2>1. clock' = [clock EXCEPT ![r] = None] /\ Underway(r) = {}
    BY <1>3 DEF Leave
  <2>2. /\ \A t \in Sessions : hand[t] # None => hand[t].room # r
        /\ \A k \in Strokes : buffer[k] # None => buffer[k].room # r
        /\ \A i \in 1..Len(queue) : queue[i].room # r
    <3>1. \A i \in 1..Len(queue) : queue[i] # None
      BY EntryType, Typed
    <3> QED BY <2>1, <3>1 DEF Underway
  <2>3. ASSUME NEW e \in Entries, Issued(e), e.room # r PROVE Issued(e)'
    BY <2>1, <2>3, EntryType, Typed DEF Issued
  <2>4. ASSUME NEW e \in events, clock'[e.room] # None
        PROVE  e.id <= clock'[e.room]
    BY <2>1, <2>4, EntryType, Typed DEF AheadInv
  <2> QED BY <1>1, <2>2, <2>3, <2>4, Typed DEF AheadInv
<1> QED BY <1>2, <1>3

(* NextClock gives an id that nothing has. *)
LEMMA TakeInv ==
  ASSUME Inv, NEW s \in Sessions, Take(s), UNCHANGED <<buffer, queue, events>>
  PROVE  AheadInv' /\ ApartInv'
<1> DEFINE r == RoomOf[s]
<1> USE DEF Inv
<1>0. PICK new : new = Entry(r, clock[r] + 1)
  OBVIOUS
<1>1. /\ r \in Rooms /\ clock[r] \in 0..MaxId /\ clock[r] + 1 \in 0..MaxId
      /\ new \in Entries /\ new.room = r /\ new.id = clock[r] + 1 /\ new # None
      /\ clock' = [clock EXCEPT ![r] = @ + 1]
      /\ hand' = [hand EXCEPT ![s] = new]
  <2>1. r \in Rooms /\ clock[r] \in 0..MaxId /\ clock[r] + 1 \in 1..MaxId
    BY Typed, EventLogAssumption DEF Take
  <2>2. /\ clock[r] + 1 \in 0..MaxId
        /\ new \in Entries /\ new.room = r /\ new.id = clock[r] + 1
        /\ new # None
    BY <1>0, <2>1, EntryType
  <2> QED BY <1>0, <2>1, <2>2 DEF Take
<1>2. hand'[s] = new /\ \A t \in Sessions : t # s => hand'[t] = hand[t]
  BY <1>1 DEF TypeOK
<1>3. ASSUME NEW e \in Entries, Issued(e) PROVE Issued(e)' /\ e # new
  BY <1>1, <1>3, EntryType, Typed DEF Issued
<1>4. Issued(new)'
  BY <1>1, EntryType, Typed DEF Issued
<1>5. ASSUME NEW e \in events
      PROVE  e # new /\ (clock'[e.room] # None => e.id <= clock'[e.room])
  <2>1. /\ e.room \in Rooms /\ e.id \in 1..MaxId
        /\ clock[e.room] # None => e.id <= clock[e.room]
    BY EntryType, Typed DEF AheadInv
  <2>2. CASE e.room = r
    BY <1>1, <2>1, <2>2, EntryType, Typed
  <2>3. CASE e.room # r
    BY <1>1, <2>1, <2>3, Typed
  <2> QED BY <2>2, <2>3
<1>6. AheadInv'
  <2>1. \A t \in Sessions : hand'[t] # None => Issued(hand[t])'
    BY <1>2, <1>3, <1>4, Typed DEF AheadInv
  <2>2. \A k \in Strokes : buffer[k] # None => Issued(buffer[k])'
    BY <1>3, Typed DEF AheadInv
  <2>3. \A i \in 1..Len(queue) : Issued(queue[i])'
    BY <1>3, Typed DEF AheadInv
  <2> QED BY <1>5, <2>1, <2>2, <2>3 DEF AheadInv
<1>7. /\ \A t \in Sessions : hand[t] # new
      /\ \A k \in Strokes : buffer[k] # new
      /\ \A i \in 1..Len(queue) : queue[i] # new
  BY <1>1, <1>3, Typed DEF AheadInv
<1>8. ApartInv'
  BY <1>2, <1>5, <1>7 DEF ApartInv
<1> QED BY <1>6, <1>8

(* An event goes from the hand into the buffer, and from there into a hand. *)
LEMMA BufferInv ==
  ASSUME Inv, NEW s \in Sessions,
         \/ StrokeBuffered(s)
         \/ \E k \in Strokes : StrokeEnd(s, k)
  PROVE  AheadInv' /\ ApartInv'
<1> USE DEF Inv
<1>1. CASE StrokeBuffered(s)
  <2>1. into[s] \in Strokes /\ hand[s] \in Entries /\ hand[s] # None
    BY <1>1, EntryType DEF StrokeBuffered, TypeOK
  <2>2. /\ \A k \in Strokes :
             buffer'[k] = IF k = into[s] THEN hand[s] ELSE buffer[k]
        /\ \A t \in Sessions : hand'[t] = IF t = s THEN None ELSE hand[t]
        /\ UNCHANGED <<clock, queue, events>>
    BY <1>1 DEF StrokeBuffered, TypeOK
  <2>3. AheadInv'
    BY <2>1, <2>2 DEF AheadInv, Issued
  <2>4. None \notin events
    BY EntryType, Typed
  <2>5. \A i \in 1..Len(queue) : queue[i] # None
    BY EntryType, Typed
  <2>6. ApartInv'
    BY <2>1, <2>2, <2>4, <2>5 DEF ApartInv
  <2> QED BY <2>3, <2>6
<1>2. ASSUME NEW k \in Strokes, StrokeEnd(s, k) PROVE AheadInv' /\ ApartInv'
  <2>1. buffer[k] # None
    BY <1>2 DEF StrokeEnd
  <2>2. /\ \A l \in Strokes : buffer'[l] = IF l = k THEN None ELSE buffer[l]
        /\ \A t \in Sessions : hand'[t] = IF t = s THEN buffer[k] ELSE hand[t]
        /\ UNCHANGED <<clock, queue, events>>
    BY <1>2 DEF StrokeEnd, TypeOK
  <2>3. AheadInv'
    BY <2>1, <2>2 DEF AheadInv, Issued
  <2>4. None \notin events
    BY EntryType, Typed
  <2>5. \A i \in 1..Len(queue) : queue[i] # None
    BY EntryType, Typed
  <2>6. ApartInv'
    BY <2>1, <2>2, <2>4, <2>5 DEF ApartInv
  <2> QED BY <2>3, <2>6
<1> QED BY <1>1, <1>2

(* The collector only takes events out of the buffer. *)
LEMMA CollectInv ==
  ASSUME Inv, StrokeTTLGC
  PROVE  AheadInv' /\ ApartInv'
<1> USE DEF Inv
<1>1. /\ \A k \in Strokes : buffer'[k] \in {None, buffer[k]}
      /\ UNCHANGED <<clock, hand, queue, events>>
  BY DEF StrokeTTLGC, TypeOK
<1>2. AheadInv'
  BY <1>1 DEF AheadInv, Issued
<1>3. None \notin events /\ \A i \in 1..Len(queue) : queue[i] # None
  BY EntryType, Typed
<1>4. ApartInv'
  BY <1>1, <1>3 DEF ApartInv
<1> QED BY <1>2, <1>4

(* An event goes from the hand to the end of the queue, or away. *)
LEMMA WriteEventInv ==
  ASSUME Inv, NEW s \in Sessions, WriteEvent(s)
  PROVE  AheadInv' /\ ApartInv'
<1> USE DEF Inv
<1>1. /\ \A t \in Sessions : hand'[t] = IF t = s THEN None ELSE hand[t]
      /\ UNCHANGED <<clock, buffer, events>>
      /\ hand[s] \in Entries /\ hand[s] # None
      /\ None \notin events
      /\ \A i \in 1..Len(queue) : queue[i] # None
  BY EntryType, Typed DEF WriteEvent, TypeOK
<1>2. CASE Full
  <2>1. queue' = queue
    BY <1>2 DEF WriteEvent
  <2> QED BY <1>1, <2>1 DEF AheadInv, ApartInv, Issued
<1>3. CASE ~Full
  <2>1. /\ Len(queue) \in Nat /\ Len(queue') = Len(queue) + 1
        /\ \A i \in 1..Len(queue) : queue'[i] = queue[i]
        /\ queue'[Len(queue) + 1] = hand[s]
    BY <1>1, <1>3, QueueType DEF WriteEvent, TypeOK
  <2>2. \A i \in 1..Len(queue') :
          \/ i \in 1..Len(queue) /\ queue'[i] = queue[i]
          \/ i = Len(queue) + 1 /\ queue'[i] = hand[s]
    BY <2>1
  <2>3. AheadInv'
    BY <1>1, <2>2 DEF AheadInv, Issued
  <2>4. ApartInv'
    BY <1>1, <2>2 DEF ApartInv
  <2> QED BY <2>3, <2>4
<1> QED BY <1>2, <1>3

(* An event goes from the head of the queue into the table, or away. *)
LEMMA PersistInv ==
  ASSUME Inv, Persist
  PROVE  AheadInv' /\ ApartInv'
<1> USE DEF Inv
<1>1. /\ Len(queue) \in Nat /\ Len(queue) > 0 /\ 1 \in 1..Len(queue)
      /\ Len(queue') = Len(queue) - 1
      /\ \A i \in 1..Len(queue') :
           i + 1 \in 1..Len(queue) /\ i + 1 # 1 /\ queue'[i] = queue[i + 1]
      /\ Head(queue) = queue[1]
  BY QueueType DEF Persist, TypeOK
<1>2. /\ UNCHANGED <<clock, hand, buffer>>
      /\ \A e \in events' : e \in events \/ e = queue[1]
  BY <1>1 DEF Persist
<1>3. /\ None \notin events
      /\ \A i \in 1..Len(queue) : queue[i] # None
  BY EntryType, Typed
<1>4. AheadInv'
  BY <1>1, <1>2 DEF AheadInv, Issued
<1>5. ApartInv'
  <2>1. \A i, j \in 1..Len(queue') : i # j => i + 1 # j + 1
    BY <1>1
  <2> QED BY <1>1, <1>2, <1>3, <2>1 DEF ApartInv
<1> QED BY <1>4, <1>5

(* The types and both parts are an inductive invariant, as long as a room  *)
(* is emptied only with nothing under way and its clock can be read.       *)
THEOREM InvCorrect == ASSUME KeepOccupied, ~ReadFails PROVE Spec => []Inv
<1>1. Init => Inv
  <2> SUFFICES ASSUME Init PROVE Inv
    OBVIOUS
  <2>1. /\ \A s \in Sessions : hand[s] = None
        /\ \A k \in Strokes : buffer[k] = None
        /\ Len(queue) = 0 /\ events = {}
    BY DEF Init, Empty
  <2> QED BY <2>1, TypeInit DEF Inv, AheadInv, ApartInv
<1>2. Inv /\ [Next]_vars => Inv'
  <2> SUFFICES ASSUME Inv, [Next]_vars PROVE Inv'
    OBVIOUS
  <2>1. TypeOK'
    BY TypeStep DEF Inv
  <2>2. CASE UNCHANGED <<clock, hand, buffer, queue, events>>
    BY <2>1, <2>2 DEF Inv, AheadInv, ApartInv, Issued
  <2>3. ASSUME NEW s \in Sessions, Join(s) \/ Leave(s) PROVE Inv'
    <3>1. AheadInv'
      BY <2>3, JoinAhead, LeaveAhead DEF Inv
    <3>2. UNCHANGED <<hand, buffer, queue, events>>
      BY <2>3 DEF Join, Leave
    <3> QED BY <2>1, <3>1, <3>2 DEF Inv, ApartInv
  <2>4. ASSUME NEW s \in Sessions,
               DomEvent(s) \/ \E k \in Strokes : StrokeStart(s, k)
        PROVE  Inv'
    <3>1. Take(s) /\ UNCHANGED <<buffer, queue, events>>
      BY <2>4 DEF DomEvent, StrokeStart
    <3> QED BY <2>1, <3>1, TakeInv DEF Inv
  <2>5. ASSUME NEW s \in Sessions,
               \/ StrokeBuffered(s) \/ WriteEvent(s)
               \/ \E k \in Strokes : StrokeEnd(s, k)
        PROVE  Inv'
    BY <2>1, <2>5, BufferInv, WriteEventInv DEF Inv
  <2>6. CASE StrokeTTLGC
    BY <2>1, <2>6, CollectInv DEF Inv
  <2>7. CASE Persist
    BY <2>1, <2>7, PersistInv DEF Inv
  <2>8. CASE Crash
    <3>1. /\ \A s \in Sessions : hand'[s] = None
          /\ \A k \in Strokes : buffer'[k] = None
          /\ \A r \in Rooms : clock'[r] = None
          /\ Len(queue') = 0 /\ events' = events
      BY <2>8 DEF Crash
    <3>2. \A e \in events : e.room \in Rooms /\ e # None
      BY EntryType, Typed DEF Inv
    <3> QED BY <2>1, <3>1, <3>2 DEF Inv, AheadInv, ApartInv
  <2>9. \/ UNCHANGED <<clock, hand, buffer, queue, events>>
        \/ \E s \in Sessions :
             \/ Join(s) \/ Leave(s) \/ DomEvent(s)
             \/ StrokeBuffered(s) \/ WriteEvent(s)
             \/ \E k \in Strokes : StrokeStart(s, k) \/ StrokeEnd(s, k)
        \/ StrokeTTLGC \/ Persist \/ Crash
    BY DEF Next, vars, memory, Evict, NextClockPanic, StrokeUpdate, ReadEnds, Age
  <2> QED BY <2>2, <2>3, <2>4, <2>5, <2>6, <2>7, <2>8, <2>9
<1> QED BY <1>1, <1>2, PTL DEF Spec

(* An id is given to one event: no event is in two places, and no two      *)
(* events of a room have the same id, through concurrent ends of a stroke, *)
(* a full queue, failing INSERTs and restarts (hub.go:177, 21-23, 41-48).  *)
THEOREM UniqueIdsCorrect ==
  ASSUME KeepOccupied, ~ReadFails PROVE Spec => []UniqueIds
<1>1. Inv => UniqueIds
  <2> SUFFICES ASSUME Inv, NEW p \in Places, Found(p) # None
               PROVE  /\ Found(p) \notin events
                      /\ \A q \in Places \ {p} : Found(q) # Found(p)
    BY DEF UniqueIds
  <2> USE DEF Inv
  <2>1. \A x \in Places :
          \/ \E s \in Sessions : x = <<"hand", s>> /\ Found(x) = hand[s]
          \/ \E k \in Strokes : x = <<"buffer", k>> /\ Found(x) = buffer[k]
          \/ \E i \in 1..Len(queue) : x = <<"queue", i>> /\ Found(x) = queue[i]
    BY DEF Places, Found
  <2>2. Found(p) \notin events
    BY <2>1 DEF ApartInv
  <2>3. ASSUME NEW q \in Places, q # p PROVE Found(q) # Found(p)
    <3>1. ASSUME NEW s \in Sessions, p = <<"hand", s>>, Found(p) = hand[s]
          PROVE  Found(q) # Found(p)
      BY <2>1, <2>3, <3>1 DEF ApartInv
    <3>2. ASSUME NEW k \in Strokes, p = <<"buffer", k>>, Found(p) = buffer[k]
          PROVE  Found(q) # Found(p)
      BY <2>1, <2>3, <3>2 DEF ApartInv
    <3>3. ASSUME NEW i \in 1..Len(queue), p = <<"queue", i>>,
                 Found(p) = queue[i]
          PROVE  Found(q) # Found(p)
      BY <2>1, <2>3, <3>3 DEF ApartInv
    <3> QED BY <2>1, <3>1, <3>2, <3>3
  <2> QED BY <2>2, <2>3
<1> QED BY <1>1, InvCorrect, PTL

(* The clock of a room is never behind an id it has given out, under way   *)
(* or in the table (hub.go:41-48 and db.go:738-752).                       *)
THEOREM ClockAheadCorrect ==
  ASSUME KeepOccupied, ~ReadFails PROVE Spec => []ClockAhead
<1>1. Inv => ClockAhead
  BY DEF Inv, AheadInv, Issued, Underway, ClockAhead
<1> QED BY <1>1, InvCorrect, PTL

----------------------------------------------------------------------------
(* What is lost.                                                           *)

(* An event is in a hand, in the buffer or in the queue. *)
Held(e) ==
  \/ \E s \in Sessions : hand[s] = e
  \/ \E k \in Strokes : buffer[k] = e
  \/ \E i \in 1..Len(queue) : queue[i] = e

(* The events of a room that are under way are those in these places.      *)
LEMMA UnderwayHeld ==
  ASSUME NEW r, NEW e
  PROVE  /\ e \in Underway(r) <=> Held(e) /\ e # None /\ e.room = r
         /\ e \in Underway(r)' <=> Held(e)' /\ e # None /\ e.room = r
  BY DEF Underway, Held

(* A step that empties no hand, moves nothing out of the buffer and leaves *)
(* the queue alone.                                                        *)
LEMMA HeldFrame ==
  ASSUME UNCHANGED <<buffer, queue>>, NEW e, e # None, Held(e),
         \A s \in Sessions : hand[s] # None => hand'[s] = hand[s]
  PROVE  Held(e)'
  BY DEF Held

(* Where an event goes that was under way, and what may lose it. *)
LEMMA LossStep ==
  ASSUME TypeOK, [Next]_vars, NEW e, e # None, Held(e)
  PROVE  \/ Held(e)' \/ e \in events'
         \/ Full /\ \E s \in Sessions : at[s] = "write" /\ hand[s] = e
         \/ \E s \in Sessions : at[s] = "start" /\ buffer[into[s]] = e
         \/ \E k \in Strokes \ fresh : buffer[k] = e
         \/ WriteFails /\ Persist /\ e = Head(queue)
         \/ Crash
<1>1. ASSUME NEW s \in Sessions,
             Join(s) \/ Leave(s) \/ Evict(s) \/ NextClockPanic(s) \/ ReadEnds(s)
      PROVE  Held(e)'
  BY <1>1, HeldFrame DEF Join, Leave, Evict, NextClockPanic, ReadEnds
<1>2. ASSUME NEW s \in Sessions, Take(s), UNCHANGED <<buffer, queue>>
      PROVE  Held(e)'
  <2>1. hand[s] = None /\ \A t \in Sessions : t # s => hand'[t] = hand[t]
    BY <1>2 DEF Take, TypeOK
  <2> QED BY <1>2, <2>1, HeldFrame
<1>3. ASSUME NEW s \in Sessions, StrokeBuffered(s)
      PROVE  Held(e)' \/ buffer[into[s]] = e
  <2>1. /\ into[s] \in Strokes /\ buffer' = [buffer EXCEPT ![into[s]] = hand[s]]
        /\ queue' = queue /\ \A t \in Sessions : t # s => hand'[t] = hand[t]
    BY <1>3 DEF StrokeBuffered, TypeOK
  <2>2. CASE hand[s] = e
    <3>1. buffer'[into[s]] = e
      BY <2>1, <2>2 DEF TypeOK
    <3> QED BY <2>1, <3>1 DEF Held
  <2>3. CASE hand[s] # e /\ \E t \in Sessions : hand[t] = e
    BY <2>1, <2>3 DEF Held
  <2>4. CASE \E k \in Strokes : buffer[k] = e
    <3>1. PICK k \in Strokes : buffer[k] = e
      BY <2>4
    <3>2. k # into[s] => buffer'[k] = e
      BY <2>1, <3>1 DEF TypeOK
    <3> QED BY <3>1, <3>2 DEF Held
  <2> QED BY <2>1, <2>2, <2>3, <2>4 DEF Held
<1>4. ASSUME NEW s \in Sessions, NEW k \in Strokes, StrokeUpdate(s, k)
      PROVE  Held(e)'
  BY <1>4, HeldFrame DEF StrokeUpdate
<1>5. ASSUME NEW s \in Sessions, NEW k \in Strokes, StrokeEnd(s, k)
      PROVE  Held(e)'
  <2>1. /\ hand[s] = None /\ hand'[s] = buffer[k] /\ queue' = queue
        /\ \A t \in Sessions : t # s => hand'[t] = hand[t]
        /\ \A j \in Strokes : j # k => buffer'[j] = buffer[j]
    BY <1>5 DEF StrokeEnd, TypeOK
  <2> QED BY <2>1 DEF Held
<1>6. ASSUME NEW s \in Sessions, WriteEvent(s)
      PROVE  Held(e)' \/ (Full /\ at[s] = "write" /\ hand[s] = e)
  <2>1. /\ at[s] = "write" /\ buffer' = buffer /\ hand[s] \in Entries
        /\ \A t \in Sessions : t # s => hand'[t] = hand[t]
    BY <1>6 DEF WriteEvent, TypeOK
  <2>2. CASE Full
    BY <1>6, <2>1, <2>2 DEF WriteEvent, Held
  <2>3. CASE ~Full
    <3>1. /\ Len(queue) \in Nat /\ Len(queue') = Len(queue) + 1
          /\ \A i \in 1..Len(queue) : queue'[i] = queue[i]
          /\ queue'[Len(queue) + 1] = hand[s]
      BY <1>6, <2>1, <2>3, QueueType DEF WriteEvent, TypeOK
    <3>2. /\ \A i \in 1..Len(queue) : i \in 1..Len(queue')
          /\ Len(queue) + 1 \in 1..Len(queue')
      BY <3>1
    <3> QED BY <2>1, <3>1, <3>2 DEF Held
  <2> QED BY <2>2, <2>3
<1>7. CASE StrokeTTLGC
  <2>1. /\ UNCHANGED <<hand, queue>>
        /\ \A k \in Strokes : k \in fresh => buffer'[k] = buffer[k]
    BY <1>7 DEF StrokeTTLGC
  <2> QED BY <2>1 DEF Held
<1>8. CASE Persist
  <2>1. /\ UNCHANGED <<hand, buffer>> /\ queue # <<>> /\ queue' = Tail(queue)
        /\ events' = events \cup {Head(queue)} \/ WriteFails
    BY <1>8 DEF Persist
  <2>2. CASE \E i \in 1..Len(queue) : queue[i] = e
    <3>1. PICK i \in 1..Len(queue) : queue[i] = e
      BY <2>2
    <3>2. /\ Len(queue) \in Nat /\ Head(queue) = queue[1]
          /\ Len(queue') = Len(queue) - 1
          /\ \A j \in 1..Len(queue') : queue'[j] = queue[j + 1]
      BY <2>1, QueueType DEF TypeOK
    <3>3. CASE i = 1
      BY <1>8, <2>1, <3>1, <3>2, <3>3
    <3>4. CASE i # 1
      <4>1. i - 1 \in 1..Len(queue') /\ queue'[i - 1] = e
        BY <3>1, <3>2, <3>4
      <4> QED BY <4>1 DEF Held
    <3> QED BY <3>3, <3>4
  <2> QED BY <2>1, <2>2 DEF Held
<1>9. ASSUME NEW k \in Strokes, Age(k) PROVE Held(e)'
  BY <1>9, HeldFrame DEF Age
<1>10. CASE UNCHANGED vars
  BY <1>10, HeldFrame DEF vars, memory
<1>11. ASSUME NEW s \in Sessions,
              DomEvent(s) \/ \E k \in Strokes : StrokeStart(s, k)
       PROVE  Held(e)'
  BY <1>2, <1>11 DEF DomEvent, StrokeStart
<1>12. ASSUME NEW s \in Sessions, StrokeBuffered(s) PROVE at[s] = "start"
  BY <1>12 DEF StrokeBuffered
<1> QED BY <1>1, <1>3, <1>4, <1>5, <1>6, <1>7, <1>8, <1>9, <1>10, <1>11, <1>12
        DEF Next

(* An event is lost only where the code gives it up: with a full queue     *)
(* (db.go:540-544), by a stroke-start of the same id (hub.go:189), by the  *)
(* collector (hub.go:511-518), by a failed INSERT or when the process      *)
(* ends; whatever fails, and whoever leaves.                               *)
THEOREM LostOnlyWhereGivenUpCorrect == Spec => LostOnlyWhereGivenUp
<1>1. TypeOK /\ [Next]_vars =>
        [\A r \in Rooms : \A e \in Underway(r) :
           \/ e \in Underway(r)' \cup events'
           \/ Full /\ \E s \in Sessions : at[s] = "write" /\ hand[s] = e
           \/ \E s \in Sessions : at[s] = "start" /\ buffer[into[s]] = e
           \/ \E k \in Strokes \ fresh : buffer[k] = e
           \/ WriteFails /\ Persist /\ e = Head(queue)
           \/ Crash]_vars
  <2> SUFFICES ASSUME TypeOK, [Next]_vars, NEW r \in Rooms,
                      NEW e \in Underway(r)
               PROVE
           \/ e \in Underway(r)' \cup events'
           \/ Full /\ \E s \in Sessions : at[s] = "write" /\ hand[s] = e
           \/ \E s \in Sessions : at[s] = "start" /\ buffer[into[s]] = e
           \/ \E k \in Strokes \ fresh : buffer[k] = e
           \/ WriteFails /\ Persist /\ e = Head(queue)
           \/ Crash
    OBVIOUS
  <2>1. Held(e) /\ e # None /\ e.room = r
    BY UnderwayHeld
  <2>2. Held(e)' => e \in Underway(r)'
    BY <2>1, UnderwayHeld
  <2> HIDE DEF Full
  <2> QED BY <2>1, <2>2, LossStep
<1> QED BY <1>1, TypeCorrect, PTL DEF Spec, LostOnlyWhereGivenUp
----------------------------------------------------------------------------
(* The journal.                                                            *)

(* What is pending, and what a journal of it may do. *)
Pending == UNION {Underway(r) : r \in Rooms}

(* Pending is what a hand, the buffer or the queue holds.                  *)
LEMMA PendingHeld ==
  ASSUME TypeOK, TypeOK'
  PROVE  /\ \A e : e \in Pending <=> Held(e) /\ e # None
         /\ \A e : e \in Pending' <=> Held(e)' /\ e # None
<1>1. ASSUME NEW e, Held(e), e # None PROVE e.room \in Rooms
  BY <1>1, EntryType, Typed DEF Held
<1>2. ASSUME NEW e, Held(e)', e # None PROVE e.room \in Rooms
  <2>1. /\ \A s \in Sessions : hand'[s] # None => hand'[s] \in Entries
        /\ \A k \in Strokes : buffer'[k] # None => buffer'[k] \in Entries
        /\ \A i \in 1..Len(queue') : queue'[i] \in Entries
    BY QueueType DEF TypeOK
  <2> QED BY <1>2, <2>1, EntryType DEF Held
<1>3. ASSUME NEW e PROVE e \in Pending <=> Held(e) /\ e # None
  <2>1. e \in Pending <=> \E r \in Rooms : e \in Underway(r)
    BY DEF Pending
  <2> QED BY <1>1, <2>1, UnderwayHeld
<1>4. ASSUME NEW e PROVE e \in Pending' <=> Held(e)' /\ e # None
  <2>1. e \in Pending' <=> \E r \in Rooms : e \in Underway(r)'
    BY DEF Pending
  <2> QED BY <1>2, <2>1, UnderwayHeld
<1> QED BY <1>3, <1>4

(* A step that puts nothing into the table and takes no id. *)
LEMMA GivesUp ==
  ASSUME TypeOK, TypeOK', UNCHANGED events,
         \A e : Held(e)' /\ e # None => Held(e)
  PROVE  [Kept!Next]_Kept!journal
<1>1. Pending' \subseteq Pending
  BY PendingHeld
<1>2. Kept!GiveUp
  BY <1>1 DEF Kept!GiveUp, Pending
<1> QED BY <1>2 DEF Kept!Next

(* NextClock issues the event: its id is beyond those pending or logged. *)
LEMMA TakeIssues ==
  ASSUME Inv, TypeOK', NEW s \in Sessions, Take(s),
         UNCHANGED <<buffer, queue, events>>
  PROVE  [Kept!Next]_Kept!journal
<1> DEFINE r == RoomOf[s]
<1>0. PICK new : new = Entry(r, clock[r] + 1)
  OBVIOUS
<1> USE DEF Inv
<1>1. /\ r \in Rooms /\ clock[r] # None /\ clock[r] \in 0..MaxId
      /\ new \in Entries /\ new # None
      /\ new.room = r /\ new.id = clock[r] + 1
      /\ hand' = [hand EXCEPT ![s] = new]
  <2>1. r \in Rooms /\ clock[r] # None /\ clock[r] \in 0..MaxId
        /\ clock[r] + 1 \in 1..MaxId
    BY Typed, EventLogAssumption DEF Take
  <2> QED BY <1>0, <2>1, EntryType DEF Take
<1>2. hand[s] = None /\ hand'[s] = new
      /\ \A t \in Sessions : t # s => hand'[t] = hand[t]
  BY <1>1 DEF Take, TypeOK
<1>3. \A e : Held(e)' /\ e # None <=> (Held(e) /\ e # None) \/ e = new
  BY <1>1, <1>2 DEF Held
<1>4. Pending' = Pending \cup {new}
  BY <1>3, PendingHeld
<1>5. ASSUME NEW f \in Pending \cup events, f.room = r
      PROVE  f.id < new.id
  <2>1. f \in Entries /\ f.id <= clock[f.room]
    <3>1. CASE f \in events
      BY <1>1, <1>5, <3>1, Typed DEF AheadInv
    <3>2. CASE Held(f) /\ f # None
      BY <3>2, Typed DEF Held, AheadInv, Issued
    <3> QED BY <3>1, <3>2, PendingHeld
  <2>2. f.id \in 1..MaxId
    BY <2>1, EntryType
  <2> QED BY <1>1, <1>5, <2>1, <2>2, EventLogAssumption
<1>6. Kept!Issue(new)
  BY <1>1, <1>4, <1>5 DEF Kept!Issue, Pending
<1>7. new \in Kept!Events
  BY <1>1 DEF Kept!Events, Entries
<1> QED BY <1>6, <1>7 DEF Kept!Next

(* The writer logs the oldest event, which is nowhere else, or gives it up. *)
LEMMA PersistLogs ==
  ASSUME Inv, TypeOK', Persist
  PROVE  [Kept!Next]_Kept!journal
<1> USE DEF Inv
<1>1. /\ Len(queue) \in Nat /\ Len(queue) > 0 /\ 1 \in 1..Len(queue)
      /\ Len(queue') = Len(queue) - 1
      /\ \A i \in 1..Len(queue') :
           i + 1 \in 1..Len(queue) /\ i + 1 # 1 /\ queue'[i] = queue[i + 1]
      /\ Head(queue) = queue[1]
      /\ UNCHANGED <<hand, buffer>>
  BY QueueType DEF Persist, TypeOK
<1>2. PICK e : e = queue[1]
  OBVIOUS
<1>3. e \in Entries /\ e # None /\ Held(e)
  BY <1>1, <1>2, Typed, EntryType DEF Held
<1>4. ASSUME NEW f, Held(f)', f # None PROVE Held(f) /\ f # e
  BY <1>1, <1>2, <1>4 DEF Held, ApartInv
<1>5. ASSUME NEW f, Held(f), f # e PROVE Held(f)'
  <2>1. CASE \E i \in 1..Len(queue) : queue[i] = f
    <3>1. PICK i \in 1..Len(queue) : queue[i] = f
      BY <2>1
    <3>2. i - 1 \in 1..Len(queue') /\ (i - 1) + 1 = i
      BY <1>1, <1>2, <1>5, <3>1
    <3>3. queue'[i - 1] = f
      BY <1>1, <3>1, <3>2
    <3> QED BY <3>2, <3>3 DEF Held
  <2> QED BY <1>1, <1>5, <2>1 DEF Held
<1>6. CASE UNCHANGED events
  BY <1>4, <1>6, GivesUp
<1>7. CASE events' = events \cup {e}
  <2>1. Pending' = Pending \ {e} /\ e \in Pending
    BY <1>3, <1>4, <1>5, PendingHeld
  <2>2. Kept!Log(e)
    BY <1>7, <2>1 DEF Kept!Log, Pending
  <2>3. e \in Kept!Events
    BY <1>3 DEF Kept!Events, Entries
  <2> QED BY <2>2, <2>3 DEF Kept!Next
<1> QED BY <1>1, <1>2, <1>6, <1>7 DEF Persist

(* The other steps only move events between the hands, the buffer and the  *)
(* queue, or drop them.                                                    *)
LEMMA MovesOnly ==
  ASSUME TypeOK, NEW s \in Sessions,
         \/ StrokeBuffered(s) \/ WriteEvent(s)
         \/ \E k \in Strokes : StrokeEnd(s, k)
  PROVE  UNCHANGED events /\ \A e : Held(e)' /\ e # None => Held(e)
<1>1. CASE StrokeBuffered(s)
  <2>1. /\ \A k \in Strokes :
             buffer'[k] = IF k = into[s] THEN hand[s] ELSE buffer[k]
        /\ \A t \in Sessions : hand'[t] = IF t = s THEN None ELSE hand[t]
        /\ UNCHANGED <<queue, events>>
    BY <1>1 DEF StrokeBuffered, TypeOK
  <2> QED BY <2>1 DEF Held
<1>2. CASE WriteEvent(s)
  <2>1. /\ \A t \in Sessions : hand'[t] = IF t = s THEN None ELSE hand[t]
        /\ UNCHANGED <<buffer, events>> /\ hand[s] \in Entries
        /\ queue' = queue \/ queue' = Append(queue, hand[s])
    BY <1>2 DEF WriteEvent, TypeOK
  <2>2. \A i \in 1..Len(queue') :
          (i \in 1..Len(queue) /\ queue'[i] = queue[i]) \/ queue'[i] = hand[s]
    <3>1. CASE queue' = queue
      BY <3>1
    <3>2. CASE queue' = Append(queue, hand[s])
      <4>1. /\ Len(queue) \in Nat /\ Len(queue') = Len(queue) + 1
            /\ \A i \in 1..Len(queue) : queue'[i] = queue[i]
            /\ queue'[Len(queue) + 1] = hand[s]
        BY <2>1, <3>2, QueueType DEF TypeOK
      <4> QED BY <4>1
    <3> QED BY <2>1, <3>1, <3>2
  <2> QED BY <2>1, <2>2 DEF Held
<1>3. ASSUME NEW k \in Strokes, StrokeEnd(s, k)
      PROVE  UNCHANGED events /\ \A e : Held(e)' /\ e # None => Held(e)
  <2>1. /\ \A j \in Strokes :
             buffer'[j] = IF j = k THEN None ELSE buffer[j]
        /\ \A t \in Sessions : hand'[t] = IF t = s THEN buffer[k] ELSE hand[t]
        /\ UNCHANGED <<queue, events>>
    BY <1>3 DEF StrokeEnd, TypeOK
  <2> QED BY <2>1 DEF Held
<1> QED BY <1>1, <1>2, <1>3

(* Every step is a step of the journal. *)
LEMMA JournalStep ==
  Inv /\ [Next]_vars => [Kept!Next]_Kept!journal
<1> SUFFICES ASSUME Inv, [Next]_vars PROVE [Kept!Next]_Kept!journal
  OBVIOUS
<1>0. TypeOK /\ TypeOK'
  BY TypeStep DEF Inv
<1>1. CASE UNCHANGED <<hand, buffer, queue, events>>
  BY <1>0, <1>1, GivesUp DEF Held
<1>2. ASSUME NEW s \in Sessions,
             DomEvent(s) \/ \E k \in Strokes : StrokeStart(s, k)
      PROVE  [Kept!Next]_Kept!journal
  <2>1. Take(s) /\ UNCHANGED <<buffer, queue, events>>
    BY <1>2 DEF DomEvent, StrokeStart
  <2> QED BY <1>0, <2>1, TakeIssues
<1>3. ASSUME NEW s \in Sessions,
             \/ StrokeBuffered(s) \/ WriteEvent(s)
             \/ \E k \in Strokes : StrokeEnd(s, k)
      PROVE  [Kept!Next]_Kept!journal
  <2>1. UNCHANGED events /\ \A e : Held(e)' /\ e # None => Held(e)
    BY <1>0, <1>3, MovesOnly
  <2> QED BY <1>0, <2>1, GivesUp
<1>4. CASE StrokeTTLGC
  <2>1. /\ UNCHANGED <<hand, queue, events>>
        /\ \A k \in Strokes : buffer'[k] # None => buffer'[k] = buffer[k]
    BY <1>4 DEF StrokeTTLGC
  <2>2. \A e : Held(e)' /\ e # None => Held(e)
    BY <2>1 DEF Held
  <2> QED BY <1>0, <2>1, <2>2, GivesUp
<1>5. CASE Persist
  BY <1>0, <1>5, PersistLogs
<1>6. CASE Crash
  <2>1. /\ \A s \in Sessions : hand'[s] = None
        /\ \A k \in Strokes : buffer'[k] = None
        /\ Len(queue') = 0 /\ events' = events
    BY <1>6 DEF Crash
  <2>2. \A e : Held(e)' => e = None
    BY <2>1 DEF Held
  <2> QED BY <1>0, <2>1, <2>2, GivesUp
<1>7. \/ UNCHANGED <<hand, buffer, queue, events>>
      \/ \E s \in Sessions :
           \/ DomEvent(s) \/ StrokeBuffered(s) \/ WriteEvent(s)
           \/ \E k \in Strokes : StrokeStart(s, k) \/ StrokeEnd(s, k)
      \/ StrokeTTLGC \/ Persist \/ Crash
  BY DEF Next, vars, memory, Join, Leave, Evict, NextClockPanic, StrokeUpdate,
         ReadEnds, Age
<1> QED BY <1>1, <1>2, <1>3, <1>4, <1>5, <1>6, <1>7

(* EventLog implements Journal, while a room is emptied only with nothing  *)
(* under way and its largest id can be read: ids are issued once and in    *)
(* order, and whatever is in the table was pending before and stays        *)
(* (hub.go:20-48 and 177-249, db.go:329-340).                              *)
THEOREM ImplementsJournalCorrect ==
  ASSUME KeepOccupied, ~ReadFails PROVE Spec => ImplementsJournal
<1>1. Init => Kept!Init
  BY DEF Init, Empty, Kept!Init, Underway
<1> QED BY <1>1, JournalStep, InvCorrect, PTL
        DEF Spec, ImplementsJournal, Kept!Spec
=============================================================================
