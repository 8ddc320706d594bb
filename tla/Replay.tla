------------------------------- MODULE Replay -------------------------------
(***************************************************************************)
(* How a peer catches up with the strokes of its room and layer: GetReplay *)
(* (ws/handler.go) reads the persisted strokes and then those still being  *)
(* drawn, while the readers of the other connections go on changing both   *)
(* and broadcasting.  A newcomer is sent its replay by HandleWS, before it *)
(* is a member of the room; a member is sent one by sendReplay (ws/hub.go) *)
(* after it has changed layer.                                             *)
(*                                                                         *)
(* One room.  Of the hub and the event log this module keeps what decides  *)
(* who is sent what: the members, their layers, and whether a stroke is in *)
(* the buffer or in the table.  A stroke id is used for one stroke, drawn  *)
(* by one connection, as browsers do with random ids.  Objects and locks   *)
(* of a replay are left out.                                               *)
(***************************************************************************)
EXTENDS Integers, FiniteSets

CONSTANTS
  Clients,   (* the connections                                            *)
  Strokes,   (* the stroke ids the peers use                               *)
  Artist,    (* the connection that draws a stroke                         *)
  Layers,    (* the layer indices of the room                              *)
  MaxPoint,  (* bound: stroke-updates of a stroke                          *)
  MaxBatch,  (* bound: stroke messages of a frame                          *)
  Roams,     (* bound: the connections whose peer may change layer         *)
  Flaky,     (* bound: the connections that may leave the room, or whose   *)
             (* queries may fail                                           *)
  None

ASSUME ReplayAssumption ==
  /\ Artist \in [Strokes -> Clients]
  /\ 0 \in Layers
  /\ MaxPoint \in Nat /\ MaxBatch \in Nat
  /\ Roams \subseteq Clients /\ Flaky \subseteq Clients
  /\ None \notin Clients

VARIABLES
  made,    (* history: the messages of strokes handled so far              *)
  phase,   (* where a stroke is kept                                       *)
  on,      (* Stroke.LayerIndex                                            *)
  moved,   (* history: strokes whose artist changed layer with the stroke  *)
           (* unfinished or its messages not yet broadcast                 *)
  room,    (* Room.clients                                                 *)
  open,    (* whether the room is in H.rooms                               *)
  left,    (* the connections that have run Leave                          *)
  layer,   (* Client.layer                                                 *)
  pc,      (* where the reader goroutine of a connection is                *)
  status,  (* history: how a connection came by what it knows              *)
  out,     (* the messages of its frame: responses of read()               *)
  todo,    (* the members its Broadcast may still produce                  *)
  aim,     (* the member its Broadcast is about to send to, or None        *)
  snap,    (* what its GetReplay has read                                  *)
  given    (* history: what was sent to it since it last changed layer     *)

strokes == <<made, phase, on, moved>>
hub     == <<room, open, left>>
scan    == <<todo, aim>>
known   == <<status, snap, given>>
vars    == <<strokes, hub, layer, pc, out, scan, known>>

(* A message is its stroke and its number: 0 for stroke-start, the number  *)
(* of the stroke-update, or End for stroke-end.                            *)
End      == MaxPoint + 1
Messages == Strokes \X (0..End)

(* "drawing": in StrokeBuffer.  "dropped": taken out by StrokeTTLGC.       *)
(* "ended": taken out by stroke-end, its event on the way to the table.    *)
(* "saved": in the table.  "lost": none of these any more.                 *)
Phases == {"new", "drawing", "dropped", "ended", "saved", "lost"}

(* HandleWS: events, buffer, reply, join.  read(): ready, and the          *)
(* Broadcast of a frame: range, send.  change-layer: ack, then a replay    *)
(* again.  A reader that panics is broken.                                 *)
Labels == {"out", "events", "buffer", "reply", "join", "ready", "ack",
           "range", "send", "end", "broken"}

(* A stroke is started before anything else of it is handled, and it is in *)
(* the buffer only until its stroke-end (hub.go:191-231); a Broadcast has  *)
(* somebody to send to exactly between a range step and the send           *)
(* (hub.go:124-144), and never outlives its loop.                          *)
TypeOK ==
  /\ made   \subseteq Messages
  /\ phase  \in [Strokes -> Phases]
  /\ on     \in [Strokes -> Layers]
  /\ moved  \subseteq Strokes
  /\ room   \subseteq Clients
  /\ open   \in BOOLEAN
  /\ left   \subseteq Clients
  /\ layer  \in [Clients -> Layers]
  /\ pc     \in [Clients -> Labels]
  /\ status \in [Clients -> {"out", "joined", "switching", "synced"}]
  /\ out    \in [Clients -> SUBSET Messages]
  /\ todo   \in [Clients -> SUBSET Clients]
  /\ aim    \in [Clients -> Clients \cup {None}]
  /\ snap   \in [Clients -> SUBSET Messages]
  /\ given  \in [Clients -> SUBSET Messages]
  /\ \A m \in made : phase[m[1]] # "new"
  /\ \A m \in made : m[2] = End => phase[m[1]] \notin {"drawing", "dropped"}
  /\ \A c \in Clients : aim[c] # None <=> pc[c] = "send"
  /\ \A c \in Clients : todo[c] # {} => pc[c] \in {"range", "send"}

Nowhere ==
  /\ on     = [k \in Strokes |-> 0]
  /\ moved  = {}
  /\ room   = {}
  /\ open   = FALSE
  /\ left   = {}
  /\ layer  = [c \in Clients |-> 0]
  /\ pc     = [c \in Clients |-> "out"]
  /\ status = [c \in Clients |-> "out"]
  /\ out    = [c \in Clients |-> {}]
  /\ todo   = [c \in Clients |-> {}]
  /\ aim    = [c \in Clients |-> None]
  /\ snap   = [c \in Clients |-> {}]
  /\ given  = [c \in Clients |-> {}]

Init == Nowhere /\ made = {} /\ phase = [k \in Strokes |-> "new"]

Goto(c, l) == pc' = [pc EXCEPT ![c] = l]

(* The messages of the strokes of a layer that are in a phase. *)
Kept(ph, l) == {m \in made : phase[m[1]] = ph /\ on[m[1]] = l}

(* The reader of c panics: what is left of its frame is broadcast to       *)
(* nobody.  Its deferred close() runs Leave.                               *)
Panic(c) ==
  /\ Goto(c, "broken")
  /\ out'  = [out EXCEPT ![c] = {}]
  /\ todo' = [todo EXCEPT ![c] = {}]
  /\ aim'  = [aim EXCEPT ![c] = None]
  /\ snap' = [snap EXCEPT ![c] = {}]
  /\ UNCHANGED <<strokes, hub, layer, status, given>>

----------------------------------------------------------------------------
(* HandleWS and GetReplay.                                                 *)

Connect(c) ==
  /\ pc[c] = "out"
  /\ Goto(c, "events")
  /\ UNCHANGED <<strokes, hub, layer, out, scan, known>>

(* GetEvent: the stroke-add rows of the layer. *)
ReadEvents(c) ==
  /\ pc[c] = "events"
  /\ snap' = [snap EXCEPT ![c] = Kept("saved", layer[c])]
  /\ Goto(c, "buffer")
  /\ UNCHANGED <<strokes, hub, layer, out, scan, status, given>>

(* The strokes of the layer in StrokeBuffer, under its lock. *)
ReadBuffer(c) ==
  /\ pc[c] = "buffer"
  /\ snap' = [snap EXCEPT ![c] = @ \cup Kept("drawing", layer[c])]
  /\ Goto(c, "reply")
  /\ UNCHANGED <<strokes, hub, layer, out, scan, status, given>>

(* A query fails: HandleWS returns, sendReplay only prints. *)
ReplayFails(c) ==
  /\ c \in Flaky
  /\ pc[c] \in {"events", "buffer"}
  /\ Goto(c, IF status[c] = "out" THEN "end" ELSE "ready")
  /\ snap' = [snap EXCEPT ![c] = {}]
  /\ UNCHANGED <<strokes, hub, layer, out, scan, status, given>>

(* The replay is encoded after the lock was released and with the Stroke   *)
(* objects of the buffer, so that it may have points that were added       *)
(* meanwhile (upto).                                                       *)
Reply(c) ==
  /\ pc[c] = "reply"
  /\ \E upto \in [Strokes -> 0..MaxPoint] :
       given' = [given EXCEPT ![c] = @ \cup snap[c] \cup
                   {m \in made : /\ <<m[1], 0>> \in snap[c]
                                 /\ m[2] <= upto[m[1]]}]
  /\ IF status[c] = "out"
     THEN Goto(c, "join") /\ UNCHANGED status
     ELSE Goto(c, "ready") /\ status' = [status EXCEPT ![c] = "synced"]
  /\ snap' = [snap EXCEPT ![c] = {}]
  /\ UNCHANGED <<strokes, hub, layer, out, scan>>

(* H.Join. *)
Join(c) ==
  /\ pc[c] = "join"
  /\ room' = room \cup {c}
  /\ open' = TRUE
  /\ status' = [status EXCEPT ![c] = "joined"]
  /\ Goto(c, "ready")
  /\ UNCHANGED <<strokes, left, layer, out, scan, snap, given>>

(* The Broadcast of its client-join found a member that has closed its     *)
(* channel: HandleWS ends with the panic.                                  *)
GreetingPanic(c) == pc[c] = "join" /\ left # {} /\ Panic(c)

----------------------------------------------------------------------------
(* read() and handleMsg.                                                   *)

Says(c, m) ==
  /\ made' = made \cup {m}
  /\ out' = [out EXCEPT ![c] = @ \cup {m}]

Handling(c) == pc[c] = "ready" /\ Cardinality(out[c]) < MaxBatch

StrokeStart(c, k) ==
  /\ Handling(c) /\ open
  /\ Artist[k] = c /\ phase[k] = "new"
  /\ phase' = [phase EXCEPT ![k] = "drawing"]
  /\ on' = [on EXCEPT ![k] = layer[c]]
  /\ Says(c, <<k, 0>>)
  /\ UNCHANGED <<moved, hub, layer, pc, scan, known>>

(* NextClock of a room that was removed. *)
NextClockPanic(c) ==
  /\ Handling(c) /\ ~open
  /\ \E k \in Strokes : Artist[k] = c /\ phase[k] = "new"
  /\ Panic(c)

(* A stroke that is not in the buffer any more is broadcast all the same. *)
StrokeUpdate(c, k) ==
  /\ Handling(c)
  /\ Artist[k] = c /\ phase[k] \in {"drawing", "dropped"}
  /\ \E n \in 1..MaxPoint :
       /\ <<k, n>> \notin made
       /\ \A i \in 1..(n - 1) : <<k, i>> \in made
       /\ Says(c, <<k, n>>)
  /\ UNCHANGED <<phase, on, moved, hub, layer, pc, scan, known>>

(* Out of the buffer, with WriteEvent to come; or there was nothing to     *)
(* take.  The mutant leaves the stroke in the buffer.                      *)
StrokeEndUndeleted(c, k) ==
  /\ Handling(c)
  /\ Artist[k] = c /\ phase[k] \in {"drawing", "dropped"}
  /\ phase' = [phase EXCEPT ![k] = IF @ = "drawing" THEN @ ELSE "lost"]
  /\ Says(c, <<k, End>>)
  /\ UNCHANGED <<on, moved, hub, layer, pc, scan, known>>

StrokeEnd(c, k) ==
  /\ Handling(c)
  /\ Artist[k] = c /\ phase[k] \in {"drawing", "dropped"}
  /\ phase' = [phase EXCEPT ![k] = IF @ = "drawing" THEN "ended" ELSE "lost"]
  /\ Says(c, <<k, End>>)
  /\ UNCHANGED <<on, moved, hub, layer, pc, scan, known>>

(* Strokes of c that are not finished, or not yet broadcast. *)
Unsettled(c) ==
  {k \in Strokes : /\ Artist[k] = c
                   /\ \/ phase[k] \in {"drawing", "dropped"}
                      \/ \E m \in out[c] : m[1] = k}

(* A change-layer that is granted: the layer is stored before sendReplay   *)
(* is called.                                                              *)
ChangeLayer(c, l) ==
  /\ c \in Roams
  /\ pc[c] = "ready"
  /\ layer' = [layer EXCEPT ![c] = l]
  /\ moved' = moved \cup Unsettled(c)
  /\ status' = [status EXCEPT ![c] = "switching"]
  /\ Goto(c, "ack")
  /\ UNCHANGED <<made, phase, on, hub, out, scan, snap, given>>

(* change-layer-accept: the peer begins with an empty board. *)
Ack(c) ==
  /\ pc[c] = "ack"
  /\ given' = [given EXCEPT ![c] = {}]
  /\ Goto(c, "events")
  /\ UNCHANGED <<strokes, hub, layer, out, scan, status, snap>>

(* sendReplay sends on its own channel, which the writer goroutine of the  *)
(* connection may have closed.                                             *)
OwnSendPanic(c) == pc[c] \in {"ack", "reply"} /\ c \in left /\ Panic(c)

----------------------------------------------------------------------------
(* The Broadcast at the end of a frame.                                    *)

(* Connections that may become members while it runs: the loop may or may  *)
(* not produce them.                                                       *)
Coming(c) == {d \in Clients \ {c} : pc[d] # "out" /\ status[d] = "out"}

Lookup(c) ==
  /\ pc[c] = "ready" /\ out[c] # {}
  /\ \E late \in SUBSET Coming(c) :
       todo' = [todo EXCEPT ![c] =
                  IF open THEN (room \ {c}) \cup late ELSE {}]
  /\ Goto(c, "range")
  /\ UNCHANGED <<strokes, hub, layer, out, aim, known>>

(* The loop produces a member of another layer.  The mutant returns where  *)
(* the code goes on.                                                       *)
SkipRest(c, d) ==
  /\ pc[c] = "range" /\ d \in todo[c] \cap room
  /\ layer[d] # layer[c]
  /\ todo' = [todo EXCEPT ![c] = {}]
  /\ UNCHANGED <<strokes, hub, layer, pc, out, aim, known>>

Skip(c, d) ==
  /\ pc[c] = "range" /\ d \in todo[c] \cap room
  /\ layer[d] # layer[c]
  /\ todo' = [todo EXCEPT ![c] = @ \ {d}]
  /\ UNCHANGED <<strokes, hub, layer, pc, out, aim, known>>

(* Or a member of its own layer, which may have changed by the send. *)
Pick(c, d) ==
  /\ pc[c] = "range" /\ d \in todo[c] \cap room
  /\ layer[d] = layer[c]
  /\ todo' = [todo EXCEPT ![c] = @ \ {d}]
  /\ aim' = [aim EXCEPT ![c] = d]
  /\ Goto(c, "send")
  /\ UNCHANGED <<strokes, hub, layer, out, known>>

Deliver(c) ==
  /\ pc[c] = "send"
  /\ given' = [given EXCEPT ![aim[c]] = @ \cup out[c]]
  /\ aim' = [aim EXCEPT ![c] = None]
  /\ Goto(c, "range")
  /\ UNCHANGED <<strokes, hub, layer, out, todo, status, snap>>

(* The channel is full. *)
Evict(c) ==
  /\ pc[c] = "send"
  /\ room' = room \ {aim[c]}
  /\ aim' = [aim EXCEPT ![c] = None]
  /\ Goto(c, "range")
  /\ UNCHANGED <<strokes, open, left, layer, out, todo, known>>

(* The channel was closed after the range step. *)
SendPanic(c) == pc[c] = "send" /\ aim[c] \in left /\ Panic(c)

Return(c) ==
  /\ pc[c] = "range" /\ todo[c] \cap room = {}
  /\ out' = [out EXCEPT ![c] = {}]
  /\ todo' = [todo EXCEPT ![c] = {}]
  /\ Goto(c, "ready")
  /\ UNCHANGED <<strokes, hub, layer, aim, known>>

----------------------------------------------------------------------------
(* Leave, by either goroutine, and the end of the reader.                  *)

(* What a connection was sent is of no interest any more once it has left. *)
Leave(c) ==
  /\ c \in Flaky
  /\ status[c] # "out" /\ c \notin left
  /\ left' = left \cup {c}
  /\ room' = room \ {c}
  /\ open' = (open /\ room \ {c} # {})
  /\ given' = [given EXCEPT ![c] = {}]
  /\ UNCHANGED <<strokes, layer, pc, out, scan, status, snap>>

ReadEnds(c) ==
  /\ c \in left /\ pc[c] = "ready" /\ out[c] = {}
  /\ Goto(c, "end")
  /\ UNCHANGED <<strokes, hub, layer, out, scan, known>>

----------------------------------------------------------------------------
(* The other goroutines, and the process.                                  *)

(* The strokes of the buffer that had no update for StrokeTTL. *)
StrokeTTLGC ==
  /\ \E old \in SUBSET {k \in Strokes : phase[k] = "drawing"} \ {{}} :
       phase' = [k \in Strokes |-> IF k \in old THEN "dropped" ELSE phase[k]]
  /\ UNCHANGED <<made, on, moved, hub, layer, pc, out, scan, known>>

(* The event of an ended stroke reaches the table; or the queue was full,  *)
(* or the INSERT failed.                                                   *)
Save(k) ==
  /\ phase[k] = "ended"
  /\ \E ph \in {"saved", "lost"} : phase' = [phase EXCEPT ![k] = ph]
  /\ UNCHANGED <<made, on, moved, hub, layer, pc, out, scan, known>>

(* The process ends and is started again; the table is on disk.  Of a      *)
(* stroke that was not saved nothing is left, so its name may serve again. *)
Crash ==
  /\ phase' = [k \in Strokes |-> IF phase[k] = "saved" THEN "saved" ELSE "new"]
  /\ made'  = {m \in made : phase[m[1]] = "saved"}
  /\ on'    = [k \in Strokes |-> IF phase[k] = "saved" THEN on[k] ELSE 0]
  /\ moved'  = {}
  /\ room'   = {}
  /\ open'   = FALSE
  /\ left'   = {}
  /\ layer'  = [c \in Clients |-> 0]
  /\ pc'     = [c \in Clients |-> "out"]
  /\ status' = [c \in Clients |-> "out"]
  /\ out'    = [c \in Clients |-> {}]
  /\ todo'   = [c \in Clients |-> {}]
  /\ aim'    = [c \in Clients |-> None]
  /\ snap'   = [c \in Clients |-> {}]
  /\ given'  = [c \in Clients |-> {}]

----------------------------------------------------------------------------

Replaying(c) ==
  \/ Connect(c) \/ ReadEvents(c) \/ ReadBuffer(c) \/ ReplayFails(c)
  \/ Reply(c) \/ Join(c) \/ GreetingPanic(c)
  \/ \E l \in Layers : ChangeLayer(c, l)
  \/ Ack(c) \/ OwnSendPanic(c)

Drawing(c) ==
  \/ \E k \in Strokes : StrokeStart(c, k) \/ StrokeUpdate(c, k) \/ StrokeEnd(c, k)
  \/ NextClockPanic(c)

Broadcast(c) ==
  \/ Lookup(c) \/ Deliver(c) \/ Evict(c) \/ SendPanic(c) \/ Return(c)
  \/ \E d \in Clients : Skip(c, d) \/ Pick(c, d)

Next ==
  \/ \E c \in Clients :
       Replaying(c) \/ Drawing(c) \/ Broadcast(c) \/ Leave(c) \/ ReadEnds(c)
  \/ StrokeTTLGC
  \/ \E k \in Strokes : Save(k)
  \/ Crash

Spec == Init /\ [][Next]_vars

----------------------------------------------------------------------------
(* Properties.                                                             *)

(* Where a connection stands towards the room. *)
Standing(c) ==
  IF c \in room THEN "member"
  ELSE IF c \in left THEN "left"
  ELSE IF status[c] = "out" THEN "out" ELSE "evicted"

Room == INSTANCE Membership WITH
  Sessions <- Clients,
  Rooms    <- {"room"},
  RoomOf   <- [c \in Clients |-> "room"],
  mode     <- [c \in Clients |-> Standing(c)],
  open     <- IF open THEN {"room"} ELSE {}

ImplementsMembership == Room!Spec

(* The frame of c has not been sent to d and still will be. *)
Owes(c, d) == pc[c] \in {"range", "send"} => d \in todo[c] \cup {aim[c]}

(* Every message of k handled so far is in got, or will be sent to d. *)
Covered(d, k, got) ==
  \A m \in made : m[1] = k =>
    m \in got \/ (m \in out[Artist[k]] /\ Owes(Artist[k], d))

(* A stroke that is being drawn, or that d has been shown, is covered. *)
Whole(d, k, got) ==
  phase[k] = "drawing" \/ <<k, 0>> \in got => Covered(d, k, got)

(* Strokes d should see: drawn by another member on its layer, who stayed  *)
(* on that layer and whose handler did not panic.                          *)
Follows(d, k) ==
  /\ d \in room /\ Artist[k] # d
  /\ on[k] = layer[d] /\ k \notin moved
  /\ pc[Artist[k]] # "broken"

(* A member that was sent a replay after it changed layer has been sent    *)
(* every stroke-start, every stroke-update and every stroke-end of the     *)
(* strokes being drawn on its layer, or a Broadcast that is still running  *)
(* will bring them; and of a stroke it knows it misses nothing, even when  *)
(* that stroke was ended, collected or persisted between the two reads of  *)
(* its replay (hub.go:377-378 and 458-485, handler.go:139-229).            *)
NothingMissed ==
  \A d \in Clients, k \in Strokes :
    status[d] = "synced" /\ Follows(d, k) => Whole(d, k, given[d])

(* The same of a newcomer ("pull buffer from mem in replay join mid        *)
(* drawing", TODO:2), whose replay is read before H.Join (handler.go:96).  *)
JoinedMidDrawing ==
  \A d \in Clients, k \in Strokes :
    status[d] \in {"joined", "synced"} /\ Follows(d, k) =>
      Whole(d, k, given[d])
=============================================================================
