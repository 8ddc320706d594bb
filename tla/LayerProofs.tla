----------------------------- MODULE LayerProofs -----------------------------
(* Theorems about Access, continued: its types, for every number of        *)
(* sessions, users and rooms, with the numbering of the layers and the     *)
(* traffic between CreateLayer and the writer that they rest on.           *)
EXTENDS AccessProofs, FiniteSetTheorems

USE DEF tables, handlers, Goto

----------------------------------------------------------------------------
(* Every layer index is within the bound.                                  *)

(* The callers of CreateLayer whose layer is not in the table yet. *)
Awaiting(r) == {s \in Adding(r) : reply[s] = None}

(* The layers of a room are numbered from 0 without a gap, and there is an *)
(* index left for each caller and, in a room without a layer, one for the  *)
(* base layer.                                                             *)
Bounded ==
  \A r \in Rooms :
    /\ IsFiniteSet(Adding(r)) /\ IsFiniteSet(layers[r])
    /\ {l.index : l \in layers[r]} = 0..(Cardinality(layers[r]) - 1)
    /\ Cardinality(layers[r]) + Cardinality(Awaiting(r)) <= MaxLayer + 1
    /\ layers[r] = {} => Cardinality(Awaiting(r)) <= MaxLayer

(* Job i creates a layer for a session that waits for its answer.          *)
Answerable(i) ==
  /\ queue[i].from \in Sessions
  /\ queue[i].room = RoomOf[queue[i].from]
  /\ pc[queue[i].from] = "wait" /\ reply[queue[i].from] = None

(* Only a session that waits has an answer, and one that has none yet has  *)
(* at most one job queued.                                                 *)
Waiting ==
  /\ \A s \in Sessions : reply[s] # None => pc[s] = "wait"
  /\ \A i \in 1..Len(queue) : queue[i].op = "layer" => Answerable(i)
  /\ \A i, k \in 1..Len(queue) :
       queue[i].op = "layer" /\ queue[k].op = "layer"
         /\ queue[i].from = queue[k].from => i = k

(* The parts of TypeOK that Typed leaves out: the handlers' and the tables'. *)
HandlerTypes ==
  /\ pc     \in [Sessions -> {"rest", "ask", "exists", "create", "view",
                              "join", "add", "wait"}]
  /\ call   \in [Sessions -> {"connect", "greet", "replay", "poll", None}]
  /\ layer  \in [Sessions -> 0..MaxLayer \cup {None}]
  /\ reply  \in [Sessions -> 0..MaxLayer \cup {-1, None}]
  /\ \A s \in Sessions : call[s] = None <=> pc[s] \in {"rest", "add", "wait"}

LayerTable ==
  /\ layers \in [Rooms -> SUBSET LayerRows]
  /\ \A r \in Rooms : \A k, l \in layers[r] : k.index = l.index => k = l

(* These and the capacity of the queue are all of TypeOK.                  *)
LEMMA TypeOKParts ==
  TypeOK <=> Typed /\ HandlerTypes /\ LayerTable /\ Len(queue) <= QueueCap
  BY DEF TypeOK, Typed, HandlerTypes, LayerTable

(* The inductive invariant. *)
TInv == TypeOK /\ Bounded /\ Waiting

(* A step of a session after which it is not in CreateLayer. *)
Quits(s) ==
  /\ pc'[s] \notin {"add", "wait"} /\ reply'[s] = None
  /\ \A t \in Sessions : t # s => pc'[t] = pc[t] /\ reply'[t] = reply[t]
  /\ pc[s] = "wait" => reply[s] # None
  /\ UNCHANGED layers

(* The steps into, in and out of CreateLayer. *)
Starts(s) ==
  /\ pc[s] = "rest" /\ pc' = [pc EXCEPT ![s] = "add"]
  /\ Cardinality(layers[RoomOf[s]])
       + Cardinality(Adding(RoomOf[s])) < MaxLayer
  /\ UNCHANGED <<tables, queue, reply, call, layer>>

Ordinary(s) ==
  \/ Request(s) \/ Disconnect(s) \/ UseLayer(s)
  \/ GetLayerByUserId(s) /\ ~Starts(s)
  \/ Handler(s) \/ CreateRoom(s)

(* The steps of a session outside CreateLayer leave it outside.            *)
LEMMA OrdinaryQuits ==
  ASSUME HandlerTypes, Waiting, NEW s \in Sessions, Ordinary(s)
  PROVE  Quits(s)
<1> USE DEF HandlerTypes
<1>0. pc[s] # "wait" => reply[s] = None
  BY DEF Waiting
<1>1. CASE Request(s)
  BY <1>0, <1>1 DEF Request, Ask, Quits
<1>2. CASE Disconnect(s)
  BY <1>0, <1>2 DEF Disconnect, Quits
<1>3. CASE UseLayer(s)
  BY <1>0, <1>3 DEF UseLayer, Move, Ask, Quits
<1>4. CASE GetLayerByUserId(s) /\ ~Starts(s)
  BY <1>0, <1>4 DEF GetLayerByUserId, Starts, Move, Ask, Quits
<1>5. CASE GetUserRoomRole(s)
  BY <1>0, <1>5 DEF GetUserRoomRole, Admit, Ask, Quits
<1>6. CASE CheckRoomExisted(s)
  BY <1>0, <1>6 DEF CheckRoomExisted, Quits
<1>7. CASE CheckCanViewRoom(s)
  BY <1>0, <1>7 DEF CheckCanViewRoom, Refuse, Quits
<1>8. CASE JoinRoom(s)
  BY <1>0, <1>8 DEF JoinRoom, Admit, Ask, Quits
<1>9. CASE QueryFails(s)
  BY <1>0, <1>9 DEF QueryFails, Refuse, Quits
<1>10. CASE LayerCreated(s)
  BY <1>0, <1>10 DEF LayerCreated, Move, Ask, Quits
<1>11. CASE CreateRoom(s)
  BY <1>0, <1>11 DEF CreateRoom, Quits
<1> QED
  BY <1>1, <1>2, <1>3, <1>4, <1>5, <1>6, <1>7, <1>8, <1>9, <1>10, <1>11
  DEF Ordinary, Handler

(* A handler's fields stay within their types. *)
LEMMA OrdinaryTypes ==
  ASSUME HandlerTypes, LayerTable, NEW s \in Sessions, Ordinary(s)
  PROVE  HandlerTypes'
<1> USE DEF HandlerTypes
<1>0. /\ 0 \in 0..MaxLayer /\ RoomOf[s] \in Rooms
      /\ \A l \in layers[RoomOf[s]] : l.index \in 0..MaxLayer
      /\ \A c \in {"connect", "greet", "replay", "poll"} : c # None
  BY AccessAssumption DEF LayerTable, LayerRows
<1>1. CASE Request(s)
  BY <1>0, <1>1 DEF Request, Ask
<1>2. CASE Disconnect(s)
  BY <1>0, <1>2 DEF Disconnect
<1>3. CASE UseLayer(s)
  BY <1>0, <1>3 DEF UseLayer, Move, Ask
<1>4. CASE GetLayerByUserId(s) /\ ~Starts(s)
  BY <1>0, <1>4 DEF GetLayerByUserId, Starts, Move, Ask, Private
<1>5. CASE GetUserRoomRole(s)
  BY <1>0, <1>5 DEF GetUserRoomRole, Admit, Ask
<1>6. CASE CheckRoomExisted(s)
  BY <1>0, <1>6 DEF CheckRoomExisted
<1>7. CASE CheckCanViewRoom(s)
  BY <1>0, <1>7 DEF CheckCanViewRoom, Refuse
<1>8. CASE JoinRoom(s)
  BY <1>0, <1>8 DEF JoinRoom, Admit, Ask
<1>9. CASE QueryFails(s)
  BY <1>0, <1>9 DEF QueryFails, Refuse
<1>10. CASE LayerCreated(s)
  BY <1>0, <1>10 DEF LayerCreated, Move, Ask
<1>11. CASE CreateRoom(s)
  BY <1>0, <1>11 DEF CreateRoom
<1> QED
  BY <1>1, <1>2, <1>3, <1>4, <1>5, <1>6, <1>7, <1>8, <1>9, <1>10, <1>11
  DEF Ordinary, Handler

(* Sessions that leave CreateLayer leave room for the others. *)
LEMMA BoundedFrame ==
  ASSUME Bounded, UNCHANGED layers,
         \A r \in Rooms : Adding(r)' \subseteq Adding(r)
                            /\ Awaiting(r)' \subseteq Awaiting(r)
  PROVE  Bounded'
<1> SUFFICES ASSUME NEW r \in Rooms
             PROVE  /\ IsFiniteSet(Adding(r)') /\ IsFiniteSet(layers[r])
                    /\ {l.index : l \in layers[r]} = 0..(Cardinality(layers[r]) - 1)
                    /\ Cardinality(layers[r]) + Cardinality(Awaiting(r)')
                         <= MaxLayer + 1
                    /\ layers[r] = {} => Cardinality(Awaiting(r)') <= MaxLayer
  BY DEF Bounded
<1>1. PICK A, W : A = Adding(r) /\ W = Awaiting(r)
  OBVIOUS
<1>2. PICK B, V : B = Adding(r)' /\ V = Awaiting(r)'
  OBVIOUS
<1>3. IsFiniteSet(A) /\ B \subseteq A /\ V \subseteq W /\ W \subseteq A
  BY <1>1, <1>2 DEF Bounded, Awaiting
<1>4. IsFiniteSet(B) /\ IsFiniteSet(W)
  BY <1>3, FS_Subset
<1>5. /\ Cardinality(V) <= Cardinality(W)
      /\ Cardinality(V) \in Nat /\ Cardinality(W) \in Nat
  BY <1>3, <1>4, FS_Subset, FS_CardinalityType
<1>6. /\ IsFiniteSet(layers[r])
      /\ {l.index : l \in layers[r]} = 0..(Cardinality(layers[r]) - 1)
      /\ Cardinality(layers[r]) + Cardinality(W) <= MaxLayer + 1
      /\ layers[r] = {} => Cardinality(W) <= MaxLayer
  BY <1>1 DEF Bounded
<1>7. Cardinality(layers[r]) \in Nat /\ MaxLayer \in Nat
  BY <1>6, FS_CardinalityType, AccessAssumption
<1> QED BY <1>2, <1>4, <1>5, <1>6, <1>7

(* A session that leaves CreateLayer takes no layer with it.               *)
LEMMA QuitsBounded ==
  ASSUME Bounded, NEW s \in Sessions, Quits(s)
  PROVE  Bounded'
<1>1. ASSUME NEW r \in Rooms
      PROVE  Adding(r)' \subseteq Adding(r) /\ Awaiting(r)' \subseteq Awaiting(r)
  BY DEF Quits, Adding, Awaiting
<1> QED BY <1>1, BoundedFrame DEF Quits

(* The job of a caller goes into the queue. *)
LEMMA SendBounded ==
  ASSUME Bounded, NEW s \in Sessions, CreateLayer(s), HandlerTypes
  PROVE  Bounded'
<1>1. /\ \A t \in Sessions : t # s => pc'[t] = pc[t]
      /\ pc[s] = "add" /\ pc'[s] = "wait"
      /\ UNCHANGED layers /\ UNCHANGED reply
  BY DEF CreateLayer, HandlerTypes
<1>2. ASSUME NEW r \in Rooms
      PROVE  Adding(r)' \subseteq Adding(r) /\ Awaiting(r)' \subseteq Awaiting(r)
  BY <1>1 DEF Adding, Awaiting
<1> QED BY <1>1, <1>2, BoundedFrame

(* A caller more: its layer has been counted. *)
LEMMA StartsBounded ==
  ASSUME Bounded, HandlerTypes, Waiting, NEW s \in Sessions, Starts(s)
  PROVE  Bounded'
<1>1. /\ \A t \in Sessions : t # s => pc'[t] = pc[t]
      /\ pc[s] = "rest" /\ pc'[s] = "add" /\ reply[s] = None
      /\ UNCHANGED layers /\ UNCHANGED reply
  BY DEF Starts, HandlerTypes, Waiting
<1> SUFFICES ASSUME NEW r \in Rooms
             PROVE  /\ IsFiniteSet(Adding(r)') /\ IsFiniteSet(layers[r])
                    /\ {l.index : l \in layers[r]} = 0..(Cardinality(layers[r]) - 1)
                    /\ Cardinality(layers[r]) + Cardinality(Awaiting(r)')
                         <= MaxLayer + 1
                    /\ layers[r] = {} => Cardinality(Awaiting(r)') <= MaxLayer
  BY <1>1 DEF Bounded
<1>2. PICK A, W : A = Adding(r) /\ W = Awaiting(r)
  OBVIOUS
<1>3. PICK B, V : B = Adding(r)' /\ V = Awaiting(r)'
  OBVIOUS
<1>4. W \subseteq A /\ IsFiniteSet(A) /\ s \notin A
  BY <1>1, <1>2 DEF Bounded, Adding, Awaiting
<1>5. /\ IsFiniteSet(layers[r])
      /\ {l.index : l \in layers[r]} = 0..(Cardinality(layers[r]) - 1)
      /\ Cardinality(layers[r]) + Cardinality(W) <= MaxLayer + 1
      /\ layers[r] = {} => Cardinality(W) <= MaxLayer
  BY <1>2 DEF Bounded
<1>6. /\ Cardinality(layers[r]) \in Nat /\ MaxLayer \in Nat
      /\ IsFiniteSet(W) /\ Cardinality(W) <= Cardinality(A)
  BY <1>4, <1>5, FS_CardinalityType, FS_Subset, AccessAssumption
<1>7. Cardinality(W) \in Nat /\ Cardinality(A) \in Nat
  BY <1>4, <1>6, FS_CardinalityType
<1>8. CASE RoomOf[s] # r
  <2>1. B = A /\ V = W
    BY <1>1, <1>2, <1>3, <1>8 DEF Adding, Awaiting
  <2> QED BY <2>1, <1>3, <1>4, <1>5
<1>9. CASE RoomOf[s] = r
  <2>1. B = A \cup {s} /\ V = W \cup {s}
    BY <1>1, <1>2, <1>3, <1>9 DEF Adding, Awaiting
  <2>2. IsFiniteSet(B) /\ Cardinality(V) = Cardinality(W) + 1
    BY <2>1, <1>4, <1>6, FS_AddElement
  <2>3. Cardinality(layers[r]) + Cardinality(A) < MaxLayer
    BY <1>2, <1>9 DEF Starts
  <2>4. Cardinality(layers[r]) + Cardinality(V) <= MaxLayer + 1
        /\ Cardinality(V) <= MaxLayer
    BY <2>2, <2>3, <1>6, <1>7
  <2> QED BY <2>2, <2>4, <1>3, <1>5
<1> QED BY <1>8, <1>9

(* The positions of a queue to which a job was added. *)
LEMMA Appended ==
  ASSUME Typed, NEW j \in Jobs, queue' = Append(queue, j)
  PROVE  /\ Len(queue) \in Nat /\ Len(queue') = Len(queue) + 1
         /\ \A i \in 1..Len(queue') :
              \/ i \in 1..Len(queue) /\ queue'[i] = queue[i]
              \/ i = Len(queue') /\ queue'[i] = j
  BY DEF Typed

(* Jobs about anything but a layer, and sessions outside CreateLayer, do   *)
(* not matter.                                                             *)
LEMMA OtherWaiting ==
  ASSUME Typed, Waiting, NEW j \in Jobs, j.op # "layer",
         queue' = queue \/ queue' = Append(queue, j),
         \A t \in Sessions : reply'[t] # None => pc'[t] = "wait",
         \A t \in Sessions : pc[t] = "wait" /\ reply[t] = None =>
                               pc'[t] = "wait" /\ reply'[t] = None
  PROVE  Waiting'
<1>1. \A i \in 1..Len(queue') : queue'[i].op = "layer" =>
        i \in 1..Len(queue) /\ queue'[i] = queue[i]
  <2>1. CASE queue' = queue
    BY <2>1
  <2>2. CASE queue' = Append(queue, j)
    BY <2>2, Appended
  <2> QED BY <2>1, <2>2
<1>2. ASSUME NEW i \in 1..Len(queue'), queue'[i].op = "layer"
      PROVE  Answerable(i)'
  <2>1. Answerable(i) /\ queue'[i] = queue[i]
    BY <1>1, <1>2 DEF Waiting
  <2> QED BY <2>1 DEF Answerable
<1>3. ASSUME NEW i \in 1..Len(queue'), NEW k \in 1..Len(queue'),
             queue'[i].op = "layer", queue'[k].op = "layer",
             queue'[i].from = queue'[k].from
      PROVE  i = k
  <2>1. /\ i \in 1..Len(queue) /\ queue'[i] = queue[i]
        /\ k \in 1..Len(queue) /\ queue'[k] = queue[k]
    BY <1>1, <1>3
  <2> QED BY <2>1, <1>3 DEF Waiting
<1> QED BY <1>2, <1>3 DEF Waiting

(* The job of a caller that had none, and has no answer. *)
LEMMA SendWaiting ==
  ASSUME Typed, HandlerTypes, Waiting, NEW s \in Sessions, CreateLayer(s)
  PROVE  Waiting'
<1>0. RoomOf[s] \in Rooms /\ UserOf[s] \in Users
  BY AccessAssumption
<1>1. PICK j \in Jobs : /\ j.op = "layer" /\ j.room = RoomOf[s] /\ j.from = s
                        /\ queue' = Append(queue, j)
  <2> DEFINE j == Job("layer", RoomOf[s], UserOf[s], Owner, s)
  <2>1. j \in Jobs
    BY <1>0, JobType DEF Roles, Owner
  <2>2. j.op = "layer" /\ j.room = RoomOf[s] /\ j.from = s
    BY DEF Job
  <2>3. queue' = Append(queue, j)
    BY DEF CreateLayer, Send
  <2> QED BY <2>1, <2>2, <2>3
<1>2. /\ \A t \in Sessions : t # s => pc'[t] = pc[t]
      /\ pc[s] = "add" /\ pc'[s] = "wait" /\ UNCHANGED reply
  BY DEF CreateLayer, HandlerTypes
<1>3. reply[s] = None /\ reply'[s] = None
  BY <1>2 DEF Waiting
<1>4. \A i \in 1..Len(queue) :
        queue[i].op = "layer" => queue[i].from # s /\ Answerable(i)
  BY <1>2 DEF Waiting, Answerable
<1>5. ASSUME NEW i \in 1..Len(queue'), queue'[i].op = "layer"
      PROVE  Answerable(i)'
  <2>1. CASE i \in 1..Len(queue) /\ queue'[i] = queue[i]
    <3>1. Answerable(i) /\ queue[i].from # s
      BY <1>4, <1>5, <2>1
    <3> QED BY <1>2, <2>1, <3>1 DEF Answerable
  <2>2. CASE queue'[i] = j
    BY <1>1, <1>2, <1>3, <2>2 DEF Answerable
  <2> QED BY <1>1, <2>1, <2>2, Appended
<1>6. ASSUME NEW i \in 1..Len(queue'), NEW k \in 1..Len(queue'),
             queue'[i].op = "layer", queue'[k].op = "layer",
             queue'[i].from = queue'[k].from
      PROVE  i = k
  <2>1. /\ \/ i \in 1..Len(queue) /\ queue'[i] = queue[i] /\ queue'[i].from # s
           \/ i = Len(queue') /\ queue'[i].from = s
        /\ \/ k \in 1..Len(queue) /\ queue'[k] = queue[k] /\ queue'[k].from # s
           \/ k = Len(queue') /\ queue'[k].from = s
    BY <1>1, <1>4, <1>6, Appended
  <2> QED BY <2>1, <1>6 DEF Waiting
<1>7. \A t \in Sessions : reply'[t] # None => pc'[t] = "wait"
  BY <1>2, <1>3 DEF Waiting
<1> QED BY <1>5, <1>6, <1>7 DEF Waiting

(* The queue without its oldest job. *)
LEMMA Shifted ==
  ASSUME Typed, NEW op, Execute(op)
  PROVE  /\ \A i \in 1..Len(queue') :
              i + 1 \in 1..Len(queue) /\ i + 1 # 1 /\ queue'[i] = queue[i + 1]
         /\ 1 \in 1..Len(queue) /\ queue[1] = Head(queue)
         /\ Len(queue') <= Len(queue)
  BY DEF Typed, Execute

(* A job is executed; the answer goes to nobody who has a job queued. *)
LEMMA ExecuteWaiting ==
  ASSUME Typed, Waiting, NEW op, Execute(op), UNCHANGED pc,
         \A t \in Sessions : reply'[t] # reply[t] =>
           queue[1].op = "layer" /\ queue[1].from = t
  PROVE  Waiting'
<1>1. ASSUME NEW i \in 1..Len(queue'), queue'[i].op = "layer"
      PROVE  Answerable(i)'
  <2>1. /\ i + 1 \in 1..Len(queue) /\ i + 1 # 1 /\ 1 \in 1..Len(queue)
        /\ queue'[i] = queue[i + 1]
    BY Shifted
  <2>2. PICK k \in 1..Len(queue) : k # 1 /\ queue'[i] = queue[k]
    BY <2>1
  <2>3. Answerable(k) /\ queue[k].op = "layer"
    BY <1>1, <2>2 DEF Waiting
  <2>4. ~ (queue[1].op = "layer" /\ queue[1].from = queue[k].from)
    BY <2>1, <2>2, <2>3 DEF Waiting
  <2>5. reply'[queue[k].from] = reply[queue[k].from]
    BY <2>3, <2>4 DEF Answerable
  <2> QED BY <2>2, <2>3, <2>5 DEF Answerable
<1>2. ASSUME NEW i \in 1..Len(queue'), NEW k \in 1..Len(queue'),
             queue'[i].op = "layer", queue'[k].op = "layer",
             queue'[i].from = queue'[k].from
      PROVE  i = k
  <2>1. /\ i + 1 \in 1..Len(queue) /\ queue'[i] = queue[i + 1]
        /\ k + 1 \in 1..Len(queue) /\ queue'[k] = queue[k + 1]
    BY Shifted
  <2>2. i + 1 = k + 1
    BY <1>2, <2>1 DEF Waiting
  <2> QED BY <2>2
<1>3. ASSUME NEW t \in Sessions, reply'[t] # None PROVE pc'[t] = "wait"
  <2>1. CASE reply'[t] = reply[t]
    BY <1>3, <2>1 DEF Waiting
  <2>2. CASE reply'[t] # reply[t]
    <3>1. queue[1].op = "layer" /\ queue[1].from = t /\ 1 \in 1..Len(queue)
      BY <2>2, Shifted
    <3> QED BY <3>1 DEF Waiting, Answerable
  <2> QED BY <2>1, <2>2
<1> QED BY <1>1, <1>2, <1>3 DEF Waiting

(* MAX + 1 is the number of layers, because there is no gap. *)
LEMMA NextLayerCounts ==
  ASSUME Bounded, NEW r \in Rooms
  PROVE  /\ NextLayer(r) = Cardinality(layers[r])
         /\ Cardinality(layers[r]) \in Nat
         /\ \A l \in layers[r] : l.index \in 0..(Cardinality(layers[r]) - 1)
<1>1. PICK n : n = Cardinality(layers[r])
  OBVIOUS
<1>2. n \in Nat
  BY <1>1, FS_CardinalityType DEF Bounded
<1>3. {l.index : l \in layers[r]} = 0..(n - 1)
  BY <1>1 DEF Bounded
<1>4. CASE n = 0
  <2>1. {l.index : l \in layers[r]} = {}
    BY <1>3, <1>4
  <2> QED BY <1>1, <1>2, <1>3, <1>4, <2>1 DEF NextLayer
<1>5. CASE n # 0
  <2>1. /\ n - 1 \in 0..(n - 1) /\ 0..(n - 1) # {}
        /\ \A m \in 0..(n - 1) : m <= n - 1
    BY <1>2, <1>5
  <2>2. \A k \in 0..(n - 1) : (\A m \in 0..(n - 1) : m <= k) => k = n - 1
    BY <1>2, <2>1
  <2>3. (CHOOSE k \in 0..(n - 1) : \A m \in 0..(n - 1) : m <= k) = n - 1
    BY <2>1, <2>2
  <2>4. NextLayer(r) = 1 + (n - 1)
    BY <1>3, <2>1, <2>3 DEF NextLayer
  <2> QED BY <1>1, <1>2, <1>3, <2>4
<1> QED BY <1>4, <1>5

(* A layer more, with the next index. *)
LEMMA LayerMore ==
  ASSUME Bounded, LayerTable, NEW r \in Rooms, NEW x \in LayerRows,
         x.index = Cardinality(layers[r]),
         layers' = [layers EXCEPT ![r] = @ \cup {x}],
         \A q \in Rooms : Adding(q)' \subseteq Adding(q)
                            /\ Awaiting(q)' \subseteq Awaiting(q),
         Cardinality(layers[r]) + Cardinality(Awaiting(r)') <= MaxLayer
  PROVE  Bounded' /\ LayerTable'
<1>1. PICK n \in Nat : n = Cardinality(layers[r])
  BY NextLayerCounts
<1>2. /\ layers'[r] = layers[r] \cup {x}
      /\ \A q \in Rooms : q # r => layers'[q] = layers[q]
      /\ layers' \in [Rooms -> SUBSET LayerRows]
  BY DEF LayerTable
<1>3. \A l \in layers[r] : l.index \in 0..(n - 1)
  BY <1>1, NextLayerCounts
<1>4. LayerTable'
  <2>1. ASSUME NEW q \in Rooms, NEW k \in layers'[q], NEW l \in layers'[q],
               k.index = l.index
        PROVE  k = l
    <3>1. CASE q # r
      BY <1>2, <2>1, <3>1 DEF LayerTable
    <3>2. CASE q = r
      <4>1. x.index = n /\ \A y \in layers[r] : y.index # x.index
        BY <1>1, <1>3
      <4>2. k \in layers[r] \cup {x} /\ l \in layers[r] \cup {x}
        BY <1>2, <2>1, <3>2
      <4> QED BY <2>1, <4>1, <4>2 DEF LayerTable
    <3> QED BY <3>1, <3>2
  <2> QED BY <1>2, <2>1 DEF LayerTable
<1>5. ASSUME NEW q \in Rooms, q # r
      PROVE  /\ IsFiniteSet(Adding(q)') /\ IsFiniteSet(layers'[q])
             /\ {l.index : l \in layers'[q]} = 0..(Cardinality(layers'[q]) - 1)
             /\ Cardinality(layers'[q]) + Cardinality(Awaiting(q)')
                  <= MaxLayer + 1
             /\ layers'[q] = {} => Cardinality(Awaiting(q)') <= MaxLayer
  <2>1. PICK A, W : A = Adding(q) /\ W = Awaiting(q)
    OBVIOUS
  <2>2. PICK B, V : B = Adding(q)' /\ V = Awaiting(q)'
    OBVIOUS
  <2>3. IsFiniteSet(A) /\ B \subseteq A /\ V \subseteq W /\ W \subseteq A
    BY <2>1, <2>2 DEF Bounded, Awaiting
  <2>4. IsFiniteSet(B) /\ IsFiniteSet(W)
    BY <2>3, FS_Subset
  <2>5. /\ Cardinality(V) <= Cardinality(W)
        /\ Cardinality(V) \in Nat /\ Cardinality(W) \in Nat
    BY <2>3, <2>4, FS_Subset, FS_CardinalityType
  <2>6. layers'[q] = layers[q]
    BY <1>2, <1>5
  <2>7. /\ IsFiniteSet(layers[q])
        /\ {l.index : l \in layers[q]} = 0..(Cardinality(layers[q]) - 1)
        /\ Cardinality(layers[q]) + Cardinality(W) <= MaxLayer + 1
        /\ layers[q] = {} => Cardinality(W) <= MaxLayer
    BY <2>1 DEF Bounded
  <2>8. Cardinality(layers[q]) \in Nat /\ MaxLayer \in Nat
    BY <2>7, FS_CardinalityType, AccessAssumption
  <2> QED BY <2>2, <2>4, <2>5, <2>6, <2>7, <2>8
<1>6. /\ IsFiniteSet(Adding(r)') /\ IsFiniteSet(layers'[r])
      /\ {l.index : l \in layers'[r]} = 0..(Cardinality(layers'[r]) - 1)
      /\ Cardinality(layers'[r]) + Cardinality(Awaiting(r)') <= MaxLayer + 1
      /\ layers'[r] # {}
  <2>1. x \notin layers[r] /\ IsFiniteSet(layers[r])
    <3>1. x.index = n /\ \A y \in layers[r] : y.index # x.index
      BY <1>1, <1>3
    <3> QED BY <3>1 DEF Bounded
  <2>2. IsFiniteSet(layers'[r]) /\ Cardinality(layers'[r]) = n + 1
    BY <1>1, <1>2, <2>1, FS_AddElement
  <2>3. {l.index : l \in layers'[r]} = {l.index : l \in layers[r]} \cup {n}
    BY <1>1, <1>2
  <2>4. {l.index : l \in layers[r]} = 0..(n - 1)
    BY <1>1 DEF Bounded
  <2>5. {l.index : l \in layers'[r]} = 0..((n + 1) - 1)
    BY <1>1, <2>3, <2>4
  <2>6. PICK A, B, V : A = Adding(r) /\ B = Adding(r)' /\ V = Awaiting(r)'
    OBVIOUS
  <2>7. IsFiniteSet(A) /\ B \subseteq A /\ V \subseteq B
    BY <2>6 DEF Bounded, Awaiting
  <2>8. IsFiniteSet(B) /\ IsFiniteSet(V) /\ Cardinality(V) \in Nat
    BY <2>7, FS_Subset, FS_CardinalityType
  <2>9. n + Cardinality(V) <= MaxLayer
    BY <1>1, <2>6
  <2>10. (n + 1) + Cardinality(V) <= MaxLayer + 1
    BY <2>8, <2>9, AccessAssumption
  <2> QED BY <1>2, <2>2, <2>5, <2>6, <2>8, <2>10
<1>7. Bounded'
  BY <1>5, <1>6 DEF Bounded
<1> QED BY <1>4, <1>7

(* What the writer does to the layers and the answers. *)
LEMMA WriterTypes ==
  ASSUME TInv, Writer
  PROVE  /\ HandlerTypes' /\ LayerTable' /\ Bounded' /\ Waiting'
         /\ Len(queue') <= QueueCap
<1> DEFINE j == Head(queue)
<1>1. /\ Typed /\ HandlerTypes /\ LayerTable /\ Bounded /\ Waiting
      /\ Len(queue) <= QueueCap
  BY TypeOKParts DEF TInv
<1>2. PICK op \in {"room", "edit", "layer"} : Execute(op)
  BY DEF Writer, RoomCreate, RoomEditUser, LayerCreate
<1>3. j \in Jobs /\ j.room \in Rooms /\ j.user \in Users /\ j = queue[1]
      /\ 1 \in 1..Len(queue)
  BY <1>1, <1>2, ExecuteType, Shifted
<1>4. Len(queue') <= QueueCap
  <2>1. Len(queue') <= Len(queue) /\ Len(queue) \in Nat /\ Len(queue') \in Nat
    BY <1>1, <1>2 DEF Typed, Execute
  <2> QED BY <1>1, <2>1, AccessAssumption
<1>5. UNCHANGED pc /\ UNCHANGED call /\ UNCHANGED layer
  BY DEF Writer, RoomCreate, RoomEditUser, LayerCreate
<1>6. CASE UNCHANGED <<layers, reply>>
  <2>1. HandlerTypes' /\ LayerTable'
    BY <1>1, <1>5, <1>6 DEF HandlerTypes, LayerTable
  <2>2. Bounded'
    <3>1. \A r \in Rooms : Adding(r)' \subseteq Adding(r)
                             /\ Awaiting(r)' \subseteq Awaiting(r)
      BY <1>5, <1>6 DEF Adding, Awaiting
    <3> QED BY <1>1, <1>6, <3>1, BoundedFrame
  <2>3. Waiting'
    BY <1>1, <1>2, <1>5, <1>6, ExecuteWaiting
  <2> QED BY <1>4, <2>1, <2>2, <2>3
<1>7. CASE RoomCreate /\ InsertRoom(j) /\ ~Taken(j)
  <2>1. PICK r \in Rooms : r = j.room
    BY <1>3
  <2>2. PICK x : x = Layer(0, j.user, TRUE)
    OBVIOUS
  <2>3. UNCHANGED reply /\ layers' = [layers EXCEPT ![r] = @ \cup {x}]
    BY <1>7, <2>1, <2>2 DEF RoomCreate, InsertRoom
  <2>4. layers[r] = {}
    <3>1. \A l \in layers[r] : l.index # 0
      BY <1>7, <2>1 DEF Taken
    <3>2. PICK n \in Nat : n = Cardinality(layers[r])
      BY <1>1, NextLayerCounts
    <3>3. IsFiniteSet(layers[r]) /\ 0 \notin {l.index : l \in layers[r]}
          /\ {l.index : l \in layers[r]} = 0..(n - 1)
      BY <1>1, <3>1, <3>2 DEF Bounded
    <3>4. n = 0
      BY <3>2, <3>3
    <3> QED BY <3>2, <3>3, <3>4, FS_EmptySet
  <2>5. /\ x \in LayerRows /\ x.index = 0 /\ Cardinality(layers[r]) = 0
    BY <1>3, <2>2, <2>4, FS_EmptySet, AccessAssumption DEF Layer, LayerRows
  <2>6. \A q \in Rooms : Adding(q)' = Adding(q) /\ Awaiting(q)' = Awaiting(q)
    BY <1>5, <2>3 DEF Adding, Awaiting
  <2>7. Cardinality(layers[r]) + Cardinality(Awaiting(r)') <= MaxLayer
    <3>1. PICK A, W : A = Adding(r) /\ W = Awaiting(r) /\ W = Awaiting(r)'
      BY <2>6
    <3>2. Cardinality(W) <= MaxLayer /\ IsFiniteSet(A) /\ W \subseteq A
      BY <1>1, <2>4, <3>1 DEF Bounded, Awaiting
    <3>3. Cardinality(W) \in Nat
      BY <3>2, FS_Subset, FS_CardinalityType
    <3>4. 0 + Cardinality(W) <= MaxLayer
      BY <3>2, <3>3
    <3> QED BY <2>5, <3>1, <3>4
  <2>8. Bounded' /\ LayerTable'
    BY <1>1, <2>3, <2>5, <2>6, <2>7, LayerMore
  <2>9. HandlerTypes'
    BY <1>1, <1>5, <2>3 DEF HandlerTypes
  <2>10. Waiting'
    BY <1>1, <1>2, <1>5, <2>3, ExecuteWaiting
  <2> QED BY <1>4, <2>8, <2>9, <2>10
<1>8. CASE LayerCreate
  <2>1. j.op = "layer"
    BY <1>8 DEF LayerCreate, Execute
  <2>2. PICK s \in Sessions : /\ s = j.from /\ j.room = RoomOf[s]
                              /\ pc[s] = "wait" /\ reply[s] = None
    BY <1>1, <1>3, <2>1 DEF Waiting, Answerable
  <2>3. PICK r \in Rooms : r = j.room /\ r = RoomOf[s]
    BY <1>3, <2>2
  <2>4. PICK n \in Nat : n = Cardinality(layers[r]) /\ n = NextLayer(r)
    BY <1>1, NextLayerCounts
  <2>5. PICK x : x = Layer(n, j.user, FALSE)
    OBVIOUS
  <2>6. \/ /\ layers' = [layers EXCEPT ![r] = @ \cup {x}]
           /\ reply' = [reply EXCEPT ![s] = n]
        \/ UNCHANGED layers /\ reply' = [reply EXCEPT ![s] = -1]
    BY <1>8, <2>2, <2>3, <2>4, <2>5 DEF LayerCreate
  <2>7. /\ \A t \in Sessions : t # s => reply'[t] = reply[t]
        /\ reply'[s] # None /\ reply'[s] \in {n, -1}
    <3>1. n # None /\ -1 # None
      BY AccessAssumption
    <3> QED BY <1>1, <2>6, <3>1 DEF HandlerTypes
  <2>8. PICK A, W, V : A = Adding(r) /\ W = Awaiting(r) /\ V = Awaiting(r)'
    OBVIOUS
  <2>9. V = W \ {s} /\ s \in W /\ W \subseteq A /\ IsFiniteSet(A)
    <3>1. V = W \ {s} /\ s \in W /\ W \subseteq A
      BY <1>5, <2>2, <2>3, <2>7, <2>8 DEF Adding, Awaiting
    <3> QED BY <1>1, <2>8, <3>1 DEF Bounded
  <2>10. /\ IsFiniteSet(W) /\ Cardinality(W) \in Nat
         /\ Cardinality(V) = Cardinality(W) - 1 /\ Cardinality(V) \in Nat
    <3>1. IsFiniteSet(W)
      BY <2>9, FS_Subset
    <3>2. IsFiniteSet(V) /\ Cardinality(V) = Cardinality(W) - 1
      BY <2>9, <3>1, FS_RemoveElement
    <3> QED BY <3>1, <3>2, FS_CardinalityType
  <2>11. n + Cardinality(V) <= MaxLayer
    <3>1. n + Cardinality(W) <= MaxLayer + 1
      BY <1>1, <2>4, <2>8 DEF Bounded
    <3> QED BY <2>10, <3>1, AccessAssumption
  <2>12. n \in 0..MaxLayer /\ x \in LayerRows /\ x.index = n
    <3>1. n \in 0..MaxLayer
      BY <2>10, <2>11, AccessAssumption
    <3> QED BY <1>3, <2>5, <3>1 DEF Layer, LayerRows
  <2>13. \A q \in Rooms : Adding(q)' \subseteq Adding(q)
                            /\ Awaiting(q)' \subseteq Awaiting(q)
    BY <1>5, <2>2, <2>7 DEF Adding, Awaiting
  <2>14. Bounded' /\ LayerTable'
    <3>1. CASE UNCHANGED layers
      <4>1. Bounded'
        BY <1>1, <2>13, <3>1, BoundedFrame
      <4>2. LayerTable'
        BY <1>1, <3>1 DEF LayerTable
      <4> QED BY <4>1, <4>2
    <3>2. CASE layers' = [layers EXCEPT ![r] = @ \cup {x}]
      <4>1. Cardinality(layers[r]) + Cardinality(Awaiting(r)') <= MaxLayer
        BY <2>4, <2>8, <2>11
      <4>2. x.index = Cardinality(layers[r])
        BY <2>4, <2>12
      <4> QED BY <1>1, <2>12, <2>13, <3>2, <4>1, <4>2, LayerMore
    <3> QED BY <2>6, <3>1, <3>2
  <2>15. HandlerTypes'
    <3>1. reply' \in [Sessions -> 0..MaxLayer \cup {-1, None}]
      BY <1>1, <2>6, <2>12 DEF HandlerTypes
    <3> QED BY <1>1, <1>5, <3>1 DEF HandlerTypes
  <2>16. Waiting'
    <3>1. \A t \in Sessions : reply'[t] # reply[t] =>
            queue[1].op = "layer" /\ queue[1].from = t
      BY <1>3, <2>1, <2>2, <2>7
    <3> QED BY <1>1, <1>2, <1>5, <3>1, ExecuteWaiting
  <2> QED BY <1>4, <2>14, <2>15, <2>16
<1>9. \/ UNCHANGED <<layers, reply>>
      \/ RoomCreate /\ InsertRoom(j) /\ ~Taken(j)
      \/ LayerCreate
  BY DEF Writer, RoomCreate, RoomEditUser
<1> QED BY <1>6, <1>7, <1>8, <1>9

(* A send keeps the queue within its capacity. *)
LEMMA SendCap ==
  ASSUME Typed, Len(queue) <= QueueCap, NEW j \in Jobs, TrySend(j) \/ Send(j)
  PROVE  /\ Len(queue') <= QueueCap
         /\ queue' = queue \/ queue' = Append(queue, j)
<1>1. Len(queue) \in Nat /\ QueueCap \in Nat
  BY AccessAssumption DEF Typed
<1>2. CASE queue' = queue
  BY <1>2
<1>3. CASE queue' = Append(queue, j) /\ ~Full
  <2>1. Len(queue') = Len(queue) + 1 /\ Len(queue) # QueueCap
    BY <1>3, Appended DEF Full
  <2> QED BY <1>1, <1>3, <2>1
<1> QED BY <1>2, <1>3 DEF TrySend, Send

(* What an ordinary step of a handler does to the queue. *)
LEMMA OrdinaryQueue ==
  ASSUME Typed, Len(queue) <= QueueCap, NEW s \in Sessions, Ordinary(s)
  PROVE  /\ Len(queue') <= QueueCap
         /\ \E j \in Jobs : /\ j.op # "layer"
                            /\ queue' = queue \/ queue' = Append(queue, j)
<1>0. RoomOf[s] \in Rooms /\ UserOf[s] \in Users
  BY AccessAssumption
<1> DEFINE e == Job("edit", RoomOf[s], UserOf[s],
                    IF UserOf[s] \in Moderators THEN Owner ELSE Member, s)
           r == Job("room", RoomOf[s], UserOf[s], Owner, s)
<1>1. e \in Jobs /\ e.op # "layer"
  BY <1>0, JobType DEF Roles, Owner, Member, Job
<1>2. r \in Jobs /\ r.op # "layer"
  BY <1>0, JobType DEF Roles, Owner, Job
<1>3. CASE UNCHANGED queue
  BY <1>1, <1>3
<1>4. CASE JoinRoom(s)
  <2>1. TrySend(e)
    BY <1>4 DEF JoinRoom
  <2> QED BY <1>1, <2>1, SendCap
<1>5. CASE CreateRoom(s)
  <2>1. Send(r)
    BY <1>5 DEF CreateRoom
  <2> QED BY <1>2, <2>1, SendCap
<1>6. UNCHANGED queue \/ JoinRoom(s) \/ CreateRoom(s)
  BY DEF Ordinary, Handler, Request, Disconnect, UseLayer, GetLayerByUserId,
         GetUserRoomRole, CheckRoomExisted, CheckCanViewRoom, QueryFails,
         LayerCreated
<1> QED BY <1>3, <1>4, <1>5, <1>6

(* Every step of a handler. *)
LEMMA HandlerStep ==
  ASSUME TInv, NEW s \in Sessions,
         \/ Request(s) \/ Disconnect(s) \/ UseLayer(s) \/ GetLayerByUserId(s)
         \/ Handler(s) \/ Sending(s)
  PROVE  /\ HandlerTypes' /\ LayerTable' /\ Bounded' /\ Waiting'
         /\ Len(queue') <= QueueCap
<1>1. /\ Typed /\ HandlerTypes /\ LayerTable /\ Bounded /\ Waiting
      /\ Len(queue) <= QueueCap
  BY TypeOKParts DEF TInv
<1>2. CASE Ordinary(s)
  <2>1. Quits(s)
    BY <1>1, <1>2, OrdinaryQuits
  <2>2. HandlerTypes'
    BY <1>1, <1>2, OrdinaryTypes
  <2>3. LayerTable'
    BY <1>1, <2>1 DEF Quits, LayerTable
  <2>4. Bounded'
    BY <1>1, <2>1, QuitsBounded
  <2>5. /\ \A t \in Sessions : reply'[t] # None => pc'[t] = "wait"
        /\ \A t \in Sessions : pc[t] = "wait" /\ reply[t] = None =>
                                 pc'[t] = "wait" /\ reply'[t] = None
    <3>1. ASSUME NEW t \in Sessions
          PROVE  /\ reply'[t] # None => pc'[t] = "wait"
                 /\ pc[t] = "wait" /\ reply[t] = None =>
                      pc'[t] = "wait" /\ reply'[t] = None
      <4>1. CASE t = s
        BY <2>1, <4>1 DEF Quits
      <4>2. CASE t # s
        BY <1>1, <2>1, <4>2 DEF Quits, Waiting
      <4> QED BY <4>1, <4>2
    <3> QED BY <3>1
  <2>6. PICK j \in Jobs : j.op # "layer"
                          /\ (queue' = queue \/ queue' = Append(queue, j))
    BY <1>1, <1>2, OrdinaryQueue
  <2>7. Waiting'
    BY <1>1, <2>5, <2>6, OtherWaiting
  <2>8. Len(queue') <= QueueCap
    BY <1>1, <1>2, OrdinaryQueue
  <2> QED BY <2>2, <2>3, <2>4, <2>7, <2>8
<1>3. CASE Starts(s)
  <2>1. HandlerTypes' /\ LayerTable' /\ Len(queue') <= QueueCap
    <3>1. pc[s] = "rest" /\ pc' = [pc EXCEPT ![s] = "add"]
          /\ call' = call /\ layer' = layer /\ reply' = reply
          /\ layers' = layers /\ queue' = queue
      BY <1>3 DEF Starts
    <3> QED BY <1>1, <3>1 DEF HandlerTypes, LayerTable
  <2>2. Bounded'
    BY <1>1, <1>3, StartsBounded
  <2>3. Waiting'
    <3>1. \A t \in Sessions : (pc'[t] = "wait") = (pc[t] = "wait")
      BY <1>1, <1>3 DEF Starts, HandlerTypes
    <3> QED BY <1>1, <1>3, <3>1 DEF Starts, Waiting, Answerable
  <2> QED BY <2>1, <2>2, <2>3
<1>4. CASE CreateLayer(s)
  <2>1. HandlerTypes' /\ LayerTable'
    BY <1>1, <1>4 DEF CreateLayer, HandlerTypes, LayerTable
  <2>2. Len(queue') <= QueueCap
    <3>1. Job("layer", RoomOf[s], UserOf[s], Owner, s) \in Jobs
      BY JobType, AccessAssumption DEF Roles, Owner
    <3>2. Send(Job("layer", RoomOf[s], UserOf[s], Owner, s))
      BY <1>4 DEF CreateLayer
    <3> QED BY <1>1, <3>1, <3>2, SendCap
  <2>3. Bounded' /\ Waiting'
    BY <1>1, <1>4, SendBounded, SendWaiting
  <2> QED BY <2>1, <2>2, <2>3
<1> QED BY <1>2, <1>3, <1>4 DEF Ordinary, Sending

(* The initial state. *)
LEMMA TInit == Init => TInv
<1> SUFFICES ASSUME Init PROVE TInv
  OBVIOUS
<1>1. TypeOK
  BY AccessAssumption DEF Init, AtRest, TypeOK, Roles, LayerRows
<1>2. Waiting
  BY DEF Init, AtRest, Waiting
<1>3. \A r \in Rooms : layers[r] = {} /\ Adding(r) = {} /\ Awaiting(r) = {}
  BY DEF Init, AtRest, Adding, Awaiting
<1>4. /\ IsFiniteSet({}) /\ Cardinality({}) = 0 /\ MaxLayer \in Nat
      /\ 0..(0 - 1) = {}
  BY FS_EmptySet, AccessAssumption
<1>5. Bounded
  BY <1>3, <1>4 DEF Bounded
<1> QED BY <1>1, <1>2, <1>5 DEF TInv

(* The process ends: nobody is in CreateLayer, and the layers remain. *)
LEMMA CrashStep ==
  ASSUME TInv, Crash
  PROVE  /\ HandlerTypes' /\ LayerTable' /\ Bounded' /\ Waiting'
         /\ Len(queue') <= QueueCap
<1>1. HandlerTypes /\ LayerTable /\ Bounded
  BY TypeOKParts DEF TInv
<1>2. HandlerTypes' /\ LayerTable'
  BY <1>1 DEF Crash, HandlerTypes, LayerTable
<1>3. Waiting' /\ Len(queue') <= QueueCap
  BY AccessAssumption DEF Crash, Waiting
<1>4. \A r \in Rooms : Adding(r)' \subseteq Adding(r)
                         /\ Awaiting(r)' \subseteq Awaiting(r)
  BY DEF Crash, Adding, Awaiting
<1> QED BY <1>1, <1>2, <1>3, <1>4, BoundedFrame DEF Crash

(* Every step keeps the inductive invariant.                               *)
LEMMA TStep == TInv /\ [Next]_vars => TInv'
<1> SUFFICES ASSUME TInv, [Next]_vars PROVE TInv'
  OBVIOUS
<1>1. /\ Typed /\ HandlerTypes /\ LayerTable /\ Bounded /\ Waiting
      /\ Len(queue) <= QueueCap
  BY TypeOKParts DEF TInv
<1>2. Typed'
  BY <1>1, TypeStep
<1> SUFFICES /\ HandlerTypes' /\ LayerTable' /\ Bounded' /\ Waiting'
             /\ Len(queue') <= QueueCap
  <2>1. TypeOK' <=> /\ Typed' /\ HandlerTypes' /\ LayerTable'
                    /\ Len(queue') <= QueueCap
    BY DEF TypeOK, Typed, HandlerTypes, LayerTable
  <2> QED BY <1>2, <2>1 DEF TInv
<1>3. CASE UNCHANGED vars
  BY <1>1, <1>3 DEF vars, HandlerTypes, LayerTable, Bounded, Waiting, Answerable,
                    Adding, Awaiting
<1>4. ASSUME NEW s \in Sessions,
             \/ Request(s) \/ Disconnect(s) \/ UseLayer(s) \/ GetLayerByUserId(s)
             \/ Handler(s) \/ Sending(s)
      PROVE  /\ HandlerTypes' /\ LayerTable' /\ Bounded' /\ Waiting'
             /\ Len(queue') <= QueueCap
  BY <1>4, HandlerStep
<1>5. ASSUME NEW r \in Rooms, NEW u \in Users, NEW ro \in Granted,
             OwnerAddUser(r, u, ro)
      PROVE  /\ HandlerTypes' /\ LayerTable' /\ Bounded' /\ Waiting'
             /\ Len(queue') <= QueueCap
  <2>1. PICK j \in Jobs : j.op = "edit" /\ TrySend(j)
    BY <1>5, JobType, AccessAssumption DEF OwnerAddUser, Roles, Owner, Job
  <2>2. Len(queue') <= QueueCap /\ (queue' = queue \/ queue' = Append(queue, j))
    BY <1>1, <2>1, SendCap
  <2>3. /\ UNCHANGED layers /\ UNCHANGED reply /\ UNCHANGED pc
        /\ UNCHANGED call /\ UNCHANGED layer
    BY <1>5 DEF OwnerAddUser
  <2>4. HandlerTypes' /\ LayerTable'
    BY <1>1, <2>3 DEF HandlerTypes, LayerTable
  <2>5. \A q \in Rooms : Adding(q)' \subseteq Adding(q)
                           /\ Awaiting(q)' \subseteq Awaiting(q)
    BY <2>3 DEF Adding, Awaiting
  <2>6. Bounded'
    BY <1>1, <2>3, <2>5, BoundedFrame
  <2>7. \A t \in Sessions : reply'[t] # None => pc'[t] = "wait"
    BY <1>1, <2>3 DEF Waiting
  <2>8. Waiting'
    BY <1>1, <2>1, <2>2, <2>3, <2>7, OtherWaiting
  <2> QED BY <2>2, <2>4, <2>6, <2>8
<1>6. CASE Writer
  BY <1>6, WriterTypes
<1>7. CASE Crash
  BY <1>7, CrashStep
<1> QED BY <1>3, <1>4, <1>5, <1>6, <1>7 DEF Next

(* The state is well typed for every number of sessions, users and rooms,  *)
(* whatever fails: the writer gives no layer index twice in a room and     *)
(* none beyond those counted when CreateLayer was called, and every answer *)
(* goes to a handler that waits for it (db.go:461-528, hub.go:377-446).    *)
THEOREM TypeCorrect == Spec => []TypeOK
<1>1. TInv => TypeOK
  BY DEF TInv
<1> QED BY <1>1, TInit, TStep, PTL DEF Spec
=============================================================================
