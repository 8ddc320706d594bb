---------------------------- MODULE AccessProofs ----------------------------
(* Theorems about Access, for every number of sessions, users and rooms    *)
(* and every capacity of the queue.                                        *)
EXTENDS Access, Largest, TLAPS

USE DEF tables, handlers, Goto

----------------------------------------------------------------------------
(* The tables and the queue.                                               *)

(* What the proofs need of the types.  That a layer index stays within the *)
(* bound MaxLayer is no part of it.                                        *)
Typed ==
  /\ owner \in [Rooms -> Users \cup {None}]
  /\ role  \in [Rooms -> [Users -> Roles \cup {-1}]]
  /\ layers = [r \in Rooms |-> layers[r]]
  /\ queue \in Seq(Jobs)
  /\ pc    = [s \in Sessions |-> pc[s]]
  /\ layer = [s \in Sessions |-> layer[s]]

(* What a handler queues is a job. *)
LEMMA JobType ==
  ASSUME NEW op \in {"room", "edit", "layer"}, NEW r \in Rooms,
         NEW u \in Users, NEW ro \in Roles, NEW s \in Sessions \cup {None}
  PROVE  Job(op, r, u, ro, s) \in Jobs
  BY DEF Job, Jobs

(* The oldest job is a job, and the others remain. *)
LEMMA ExecuteType ==
  ASSUME Typed, NEW op, Execute(op)
  PROVE  /\ Head(queue) \in Jobs /\ Head(queue).op = op
         /\ Head(queue).room \in Rooms /\ Head(queue).user \in Users
         /\ Head(queue).role \in Roles
         /\ queue' \in Seq(Jobs)
<1>1. Head(queue) \in Jobs /\ queue' \in Seq(Jobs)
  BY DEF Typed, Execute
<1> QED BY <1>1 DEF Execute, Jobs

(* A send leaves a sequence of jobs, however full the queue is. *)
LEMMA SendType ==
  ASSUME Typed, NEW j \in Jobs, TrySend(j) \/ Send(j)
  PROVE  queue' \in Seq(Jobs)
<1>1. queue \in Seq(Jobs)
  BY DEF Typed
<1>2. Append(queue, j) \in Seq(Jobs)
  BY <1>1
<1>3. queue' = queue \/ queue' = Append(queue, j)
  BY Zenon DEF TrySend, Send
<1> QED BY <1>1, <1>2, <1>3

(* A role given to a user in a room leaves a table of roles. *)
LEMMA RoleType ==
  ASSUME Typed, NEW r \in Rooms, NEW u \in Users, NEW ro \in Roles
  PROVE  [role EXCEPT ![r][u] = ro] \in [Rooms -> [Users -> Roles \cup {-1}]]
<1>1. [role[r] EXCEPT ![u] = ro] \in [Users -> Roles \cup {-1}]
  BY DEF Typed
<1> QED BY <1>1 DEF Typed

(* A handler's step is well typed. *)
LEMMA HandlerType ==
  ASSUME Typed, NEW s \in Sessions,
         \/ Request(s) \/ Disconnect(s) \/ UseLayer(s) \/ GetLayerByUserId(s)
         \/ Handler(s) \/ Sending(s)
  PROVE  Typed'
<1> USE DEF Typed
<1>0. RoomOf[s] \in Rooms /\ UserOf[s] \in Users /\ s \in Sessions \cup {None}
  BY AccessAssumption
<1>1. CASE Request(s)
  BY <1>1 DEF Request, Ask
<1>2. CASE Disconnect(s)
  BY <1>2 DEF Disconnect
<1>3. CASE UseLayer(s)
  BY <1>3 DEF UseLayer, Move, Ask
<1>4. CASE GetLayerByUserId(s)
  BY <1>4 DEF GetLayerByUserId, Move, Ask
<1>5. CASE GetUserRoomRole(s)
  BY <1>5 DEF GetUserRoomRole, Admit, Ask
<1>6. CASE CheckRoomExisted(s)
  BY <1>6 DEF CheckRoomExisted
<1>7. CASE CheckCanViewRoom(s)
  BY <1>7 DEF CheckCanViewRoom, Refuse
<1>8. CASE JoinRoom(s)
  <2> DEFINE j == Job("edit", RoomOf[s], UserOf[s],
                      IF UserOf[s] \in Moderators THEN Owner ELSE Member, s)
  <2>1. j \in Jobs
    BY <1>0, JobType DEF Roles, Owner, Member
  <2>2. queue' \in Seq(Jobs)
    BY <1>8, <2>1, SendType DEF JoinRoom
  <2> QED BY <1>8, <2>2 DEF JoinRoom, Admit, Ask
<1>9. CASE QueryFails(s)
  BY <1>9 DEF QueryFails, Refuse
<1>10. CASE LayerCreated(s)
  BY <1>10 DEF LayerCreated, Move, Ask
<1>11. CASE CreateRoom(s)
  <2>1. Job("room", RoomOf[s], UserOf[s], Owner, s) \in Jobs
    BY <1>0, JobType DEF Roles, Owner
  <2>2. queue' \in Seq(Jobs)
    BY <1>11, <2>1, SendType DEF CreateRoom
  <2> QED BY <1>11, <2>2 DEF CreateRoom
<1>12. CASE CreateLayer(s)
  <2>1. Job("layer", RoomOf[s], UserOf[s], Owner, s) \in Jobs
    BY <1>0, JobType DEF Roles, Owner
  <2>2. queue' \in Seq(Jobs)
    BY <1>12, <2>1, SendType DEF CreateLayer
  <2> QED BY <1>12, <2>2 DEF CreateLayer
<1> QED
  BY <1>1, <1>2, <1>3, <1>4, <1>5, <1>6, <1>7, <1>8, <1>9, <1>10, <1>11, <1>12
  DEF Handler, Sending

(* Every step is well typed. *)
LEMMA TypeStep == Typed /\ [Next]_vars => Typed'
<1> SUFFICES ASSUME Typed, [Next]_vars PROVE Typed'
  OBVIOUS
<1>1. CASE UNCHANGED vars
  BY <1>1 DEF vars, Typed
<1>2. ASSUME NEW s \in Sessions,
             \/ Request(s) \/ Disconnect(s) \/ UseLayer(s) \/ GetLayerByUserId(s)
             \/ Handler(s) \/ Sending(s)
      PROVE  Typed'
  BY <1>2, HandlerType
<1>3. ASSUME NEW r \in Rooms, NEW u \in Users, NEW ro \in Granted,
             OwnerAddUser(r, u, ro)
      PROVE  Typed'
  <2>1. Job("edit", r, u, ro, None) \in Jobs
    BY JobType, AccessAssumption DEF Roles, Owner
  <2>2. queue' \in Seq(Jobs)
    BY <1>3, <2>1, SendType DEF OwnerAddUser
  <2> QED BY <1>3, <2>2 DEF OwnerAddUser, Typed
<1>4. CASE RoomCreate
  <2>1. Execute("room")
    BY <1>4 DEF RoomCreate
  <2>2. Head(queue).room \in Rooms /\ Head(queue).user \in Users
        /\ queue' \in Seq(Jobs)
    BY <2>1, ExecuteType
  <2>3. CASE UNCHANGED tables
    BY <1>4, <2>2, <2>3 DEF RoomCreate, Typed
  <2>4. CASE InsertRoom(Head(queue))
    <3>1. /\ owner' \in [Rooms -> Users \cup {None}]
          /\ layers' = [r \in Rooms |-> layers'[r]]
      BY <2>2, <2>4 DEF InsertRoom, Typed
    <3>2. role' \in [Rooms -> [Users -> Roles \cup {-1}]]
      BY <2>2, <2>4, RoleType DEF InsertRoom, Typed, Roles, Owner
    <3> QED BY <1>4, <2>2, <3>1, <3>2 DEF RoomCreate, Typed
  <2> QED
    BY <1>4, <2>3, <2>4 DEF RoomCreate
<1>5. CASE RoomEditUser
  <2>1. Execute("edit")
    BY <1>5 DEF RoomEditUser
  <2>2. Head(queue).room \in Rooms /\ Head(queue).user \in Users
        /\ Head(queue).role \in Roles /\ queue' \in Seq(Jobs)
    BY <2>1, ExecuteType
  <2> DEFINE j == Head(queue)
  <2>3. \/ role' = [role EXCEPT ![j.room][j.user] = j.role]
        \/ role' = role
    BY <1>5 DEF RoomEditUser
  <2>4. [role EXCEPT ![j.room][j.user] = j.role]
          \in [Rooms -> [Users -> Roles \cup {-1}]]
    BY <2>2, RoleType
  <2>5. role' \in [Rooms -> [Users -> Roles \cup {-1}]]
    BY <2>3, <2>4 DEF Typed
  <2> QED
    BY <1>5, <2>2, <2>5 DEF RoomEditUser, Typed
<1>6. CASE LayerCreate
  <2>1. Execute("layer")
    BY <1>6 DEF LayerCreate
  <2>2. queue' \in Seq(Jobs)
    BY <2>1, ExecuteType
  <2> QED
    BY <1>6, <2>2 DEF LayerCreate, Typed
<1>7. CASE Crash
  BY <1>7 DEF Crash, Typed
<1> QED
  BY <1>1, <1>2, <1>3, <1>4, <1>5, <1>6, <1>7 DEF Next, Writer

(* The initial state is well typed. *)
LEMMA InitType == Init => Typed
  BY DEF Init, AtRest, Typed

----------------------------------------------------------------------------
(* A room is whole.                                                        *)

(* A step that leaves the tables alone, or the owners and, of what there   *)
(* is in the other two, removes nothing, leaves rooms whole.               *)
LEMMA WholeFrame ==
  ASSUME RoomsAreWhole, owner' = owner,
         \A r \in Rooms, u \in Users : role[r][u] >= 0 => role'[r][u] >= 0,
         \A r \in Rooms : layers[r] \subseteq layers'[r],
         Typed
  PROVE  RoomsAreWhole'
  BY DEF RoomsAreWhole, Typed

(* Every step leaves rooms whole: one transaction writes all of a room. *)
LEMMA WholeStep == Typed /\ RoomsAreWhole /\ [Next]_vars => RoomsAreWhole'
<1> SUFFICES ASSUME Typed, RoomsAreWhole, [Next]_vars PROVE RoomsAreWhole'
  OBVIOUS
<1>1. CASE UNCHANGED tables
  BY <1>1 DEF RoomsAreWhole
<1>2. CASE RoomCreate
  <2>1. Execute("room")
    BY <1>2 DEF RoomCreate
  <2> DEFINE j == Head(queue)
  <2>2. j.room \in Rooms /\ j.user \in Users
    BY <2>1, ExecuteType
  <2>3. CASE UNCHANGED tables
    BY <2>3, <1>1
  <2>4. CASE InsertRoom(j)
    <3>1. /\ owner'[j.room] = j.user /\ role'[j.room][j.user] = 3
          /\ Layer(0, j.user, TRUE) \in layers'[j.room]
      BY <2>2, <2>4 DEF InsertRoom, Typed, Owner
    <3>2. \A r \in Rooms : r # j.room =>
            owner'[r] = owner[r] /\ role'[r] = role[r] /\ layers'[r] = layers[r]
      BY <2>2, <2>4 DEF InsertRoom, Typed
    <3>3. \E l \in layers'[j.room] : l.index = 0 /\ l.public
      BY <3>1 DEF Layer
    <3> QED BY <3>1, <3>2, <3>3 DEF RoomsAreWhole
  <2> QED BY <1>2, <2>3, <2>4 DEF RoomCreate
<1>3. CASE RoomEditUser
  <2>1. Execute("edit")
    BY <1>3 DEF RoomEditUser
  <2>2. Head(queue).room \in Rooms /\ Head(queue).user \in Users
        /\ Head(queue).role \in Roles
    BY <2>1, ExecuteType
  <2>3. \A r \in Rooms, u \in Users : role[r][u] >= 0 => role'[r][u] >= 0
    BY <1>3, <2>2 DEF RoomEditUser, Typed, Roles, Owner
  <2> QED BY <1>3, <2>3, WholeFrame DEF RoomEditUser
<1>4. CASE LayerCreate
  <2>1. \A r \in Rooms : layers[r] \subseteq layers'[r]
    BY <1>4 DEF LayerCreate, Typed
  <2> QED BY <1>4, <2>1, WholeFrame DEF LayerCreate
<1>5. CASE Crash
  BY <1>5, <1>1 DEF Crash
<1>6. CASE \E r \in Rooms, u \in Users, ro \in Granted : OwnerAddUser(r, u, ro)
  BY <1>6, <1>1 DEF OwnerAddUser
<1>7. CASE \E s \in Sessions :
             \/ Request(s) \/ Disconnect(s) \/ UseLayer(s) \/ GetLayerByUserId(s)
             \/ Handler(s) \/ Sending(s)
  BY <1>7, <1>1
  DEF Request, Disconnect, UseLayer, GetLayerByUserId, Handler, Sending,
      GetUserRoomRole, CheckRoomExisted, CheckCanViewRoom, JoinRoom,
      QueryFails, LayerCreated, CreateRoom, CreateLayer
<1> QED
  BY <1>1, <1>2, <1>3, <1>4, <1>5, <1>6, <1>7 DEF Next, Writer, vars

(* A room, its owner's membership and its base layer are in the tables     *)
(* together, whatever fails and whenever the process ends (db.go:387-436). *)
THEOREM RoomsAreWholeCorrect == Spec => []RoomsAreWhole
<1>1. Init => Typed /\ RoomsAreWhole
  BY InitType DEF Init, RoomsAreWhole
<1>2. Typed /\ RoomsAreWhole /\ [Next]_vars => (Typed /\ RoomsAreWhole)'
  BY TypeStep, WholeStep
<1> QED BY <1>1, <1>2, PTL DEF Spec

----------------------------------------------------------------------------
(* Memberships have their room, and so have connections.                   *)

(* The creation of room r is among the n oldest jobs. *)
Coming(r, n) == \E k \in 1..n : queue[k].op = "room" /\ queue[k].room = r

(* Room r is in the table, or will be once the n oldest jobs are executed. *)
Sure(r, n) == owner[r] # None \/ Coming(r, n)

(* What is in the other tables belongs to a room. *)
TablesInv ==
  \A r \in Rooms :
    (\E u \in Users : role[r][u] >= 0) \/ layers[r] # {} => owner[r] # None

(* A job that writes to the other tables is queued behind its room. *)
QueueInv ==
  \A i \in 1..Len(queue) : queue[i].op # "room" => Sure(queue[i].room, i - 1)

(* A handler that is past the creation of its room, or has been admitted. *)
HandlerInv ==
  \A s \in Sessions :
    pc[s] \in {"join", "add", "wait"} \/ layer[s] # None
      => Sure(RoomOf[s], Len(queue))

(* The inductive invariant. *)
Inv == Typed /\ TablesInv /\ QueueInv /\ HandlerInv

(* A job that creates a room, or has its room, may be queued: whatever had *)
(* a room keeps it.                                                        *)
LEMMA SendQueue ==
  ASSUME Typed, QueueInv, NEW j \in Jobs, TrySend(j) \/ Send(j),
         owner' = owner, j.op = "room" \/ Sure(j.room, Len(queue))
  PROVE  /\ QueueInv'
         /\ \A r \in Rooms : Sure(r, Len(queue)) => Sure(r, Len(queue))'
<1>1. CASE queue' = queue
  BY <1>1 DEF QueueInv, Sure, Coming
<1>2. CASE queue' = Append(queue, j)
  <2>1. /\ Len(queue) \in Nat /\ Len(queue') = Len(queue) + 1
        /\ \A k \in 1..Len(queue) : queue'[k] = queue[k]
        /\ queue'[Len(queue) + 1] = j
    BY <1>2 DEF Typed
  <2>2. ASSUME NEW r, NEW n \in 0..Len(queue), Sure(r, n)
        PROVE  owner'[r] # None \/ \E k \in 1..n :
                 queue'[k].op = "room" /\ queue'[k].room = r
    BY <2>1, <2>2 DEF Sure, Coming
  <2>3. ASSUME NEW i \in 1..Len(queue'), queue'[i].op # "room"
        PROVE  owner'[queue'[i].room] # None \/ \E k \in 1..(i - 1) :
                 queue'[k].op = "room" /\ queue'[k].room = queue'[i].room
    <3>1. CASE i = Len(queue) + 1
      <4>1. queue'[i] = j /\ i - 1 = Len(queue) /\ Len(queue) \in 0..Len(queue)
        BY <2>1, <3>1
      <4> QED BY <4>1, <2>2, <2>3
    <3>2. CASE i \in 1..Len(queue)
      <4>1. /\ queue'[i] = queue[i] /\ i - 1 \in 0..Len(queue)
            /\ Sure(queue[i].room, i - 1)
        BY <2>1, <2>3, <3>2 DEF QueueInv
      <4> QED BY <4>1, <2>2
    <3> QED BY <2>1, <3>1, <3>2
  <2>4. QueueInv'
    BY <2>3 DEF QueueInv, Sure, Coming
  <2>5. ASSUME NEW r \in Rooms, Sure(r, Len(queue))
        PROVE  Sure(r, Len(queue))'
    <3>1. Len(queue) \in 0..Len(queue) /\ 1..Len(queue) \subseteq 1..Len(queue')
      BY <2>1
    <3>2. owner'[r] # None \/ \E k \in 1..Len(queue) :
            queue'[k].op = "room" /\ queue'[k].room = r
      BY <2>2, <2>5, <3>1
    <3> QED BY <3>1, <3>2 DEF Sure, Coming
  <2> QED BY <2>4, <2>5
<1> QED BY <1>1, <1>2 DEF TrySend, Send

(* The job that was sent last is in the queue. *)
LEMMA SentIsComing ==
  ASSUME Typed, NEW j \in Jobs, Send(j), j.op = "room"
  PROVE  Sure(j.room, Len(queue))'
<1>1. /\ Len(queue') \in 1..Len(queue') /\ queue'[Len(queue')] = j
  BY DEF Send, Typed
<1> QED BY <1>1 DEF Sure, Coming

(* The oldest job may be executed, when its room is then in the table. *)
LEMMA ExecuteQueue ==
  ASSUME Typed, QueueInv, NEW op, Execute(op),
         \A r \in Rooms : owner[r] # None => owner'[r] # None,
         owner'[Head(queue).room] # None
  PROVE  /\ QueueInv'
         /\ \A r \in Rooms : Sure(r, Len(queue)) => Sure(r, Len(queue))'
<1>1. /\ Len(queue) \in Nat \ {0} /\ Len(queue') = Len(queue) - 1
      /\ \A k \in 1..Len(queue') : queue'[k] = queue[k + 1]
      /\ queue[1] = Head(queue)
      /\ \A k \in 1..Len(queue) : queue[k].room \in Rooms
  <2>1. queue # <<>> /\ queue' = Tail(queue) /\ queue \in Seq(Jobs)
    BY DEF Execute, Typed
  <2>2. \A k \in 1..Len(queue) : queue[k] \in Jobs
    BY <2>1
  <2> QED BY <2>1, <2>2 DEF Jobs
<1>2. ASSUME NEW r \in Rooms, NEW n \in 1..Len(queue), Sure(r, n)
      PROVE  owner'[r] # None \/ \E k \in 1..(n - 1) :
               queue'[k].op = "room" /\ queue'[k].room = r
  <2>1. CASE owner[r] # None
    BY <2>1
  <2>2. ASSUME NEW k \in 1..n, queue[k].op = "room", queue[k].room = r
        PROVE  owner'[r] # None \/ \E i \in 1..(n - 1) :
                 queue'[i].op = "room" /\ queue'[i].room = r
    <3>1. CASE k = 1
      BY <3>1, <1>1, <2>2
    <3>2. CASE k # 1
      <4>1. k - 1 \in 1..(n - 1) /\ k - 1 \in 1..Len(queue')
            /\ (k - 1) + 1 = k
        BY <3>2, <1>1
      <4>2. queue'[k - 1] = queue[k]
        BY <4>1, <1>1
      <4> QED BY <4>1, <4>2, <2>2
    <3> QED BY <3>1, <3>2
  <2> QED BY <1>2, <2>1, <2>2 DEF Sure, Coming
<1>3. ASSUME NEW i \in 1..Len(queue'), queue'[i].op # "room"
      PROVE  owner'[queue'[i].room] # None \/ \E k \in 1..(i - 1) :
               queue'[k].op = "room" /\ queue'[k].room = queue'[i].room
  <2>1. /\ i + 1 \in 1..Len(queue) /\ queue'[i] = queue[i + 1]
        /\ (i + 1) - 1 = i /\ i \in 1..Len(queue)
        /\ queue[i + 1].room \in Rooms
    BY <1>1
  <2>2. Sure(queue[i + 1].room, i)
    BY <1>3, <2>1 DEF QueueInv
  <2> QED BY <1>2, <2>1, <2>2
<1>4. QueueInv'
  BY <1>3 DEF QueueInv, Sure, Coming
<1>5. ASSUME NEW r \in Rooms, Sure(r, Len(queue))
      PROVE  Sure(r, Len(queue))'
  <2>1. Len(queue) \in 1..Len(queue) /\ Len(queue) - 1 = Len(queue')
    BY <1>1
  <2> QED BY <1>2, <1>5, <2>1 DEF Sure, Coming
<1> QED BY <1>4, <1>5

(* Handlers that go on, or come to rest, keep the invariant when whatever  *)
(* had a room keeps it and those who newly need a room have one.           *)
LEMMA HandlerFrame ==
  ASSUME Typed, HandlerInv, NEW s \in Sessions,
         \A r \in Rooms : Sure(r, Len(queue)) => Sure(r, Len(queue))',
         \A t \in Sessions \ {s} : pc'[t] = pc[t] /\ layer'[t] = layer[t],
         pc'[s] \in {"join", "add", "wait"} \/ layer'[s] # None
           => Sure(RoomOf[s], Len(queue))'
  PROVE  HandlerInv'
<1>1. ASSUME NEW t \in Sessions,
             pc'[t] \in {"join", "add", "wait"} \/ layer'[t] # None
      PROVE  Sure(RoomOf[t], Len(queue))'
  <2>1. CASE t = s
    BY <1>1, <2>1
  <2>2. CASE t # s
    BY <1>1, <2>2, AccessAssumption DEF HandlerInv
  <2> QED BY <2>1, <2>2
<1> QED BY <1>1 DEF HandlerInv

(* A handler that leaves tables and queue alone keeps what they have. *)
LEMMA QuietFrame ==
  ASSUME Typed, TablesInv, QueueInv, HandlerInv, UNCHANGED <<tables, queue>>,
         NEW s \in Sessions,
         \A t \in Sessions \ {s} : pc'[t] = pc[t] /\ layer'[t] = layer[t],
         pc'[s] \in {"join", "add", "wait"} \/ layer'[s] # None
           => \/ owner[RoomOf[s]] # None
              \/ pc[s] \in {"join", "add", "wait"} \/ layer[s] # None
  PROVE  TablesInv' /\ QueueInv' /\ HandlerInv'
<1>1. TablesInv' /\ QueueInv'
  BY DEF TablesInv, QueueInv, Sure, Coming
<1>2. \A r \in Rooms : Sure(r, Len(queue)) => Sure(r, Len(queue))'
  BY DEF Sure, Coming
<1>3. pc'[s] \in {"join", "add", "wait"} \/ layer'[s] # None
        => Sure(RoomOf[s], Len(queue))'
  BY <1>2, AccessAssumption DEF HandlerInv, Sure
<1> QED BY <1>1, <1>2, <1>3, HandlerFrame

(* The steps of a handler that neither write a table nor send. *)
LEMMA QuietStep ==
  ASSUME Inv, NEW s \in Sessions,
         \/ Request(s) \/ Disconnect(s) \/ UseLayer(s) \/ GetLayerByUserId(s)
         \/ GetUserRoomRole(s) \/ CheckRoomExisted(s) \/ CheckCanViewRoom(s)
         \/ QueryFails(s) \/ LayerCreated(s)
  PROVE  TablesInv' /\ QueueInv' /\ HandlerInv'
<1> USE AccessAssumption DEF Inv
<1>0. /\ UNCHANGED <<tables, queue>>
      /\ \A t \in Sessions \ {s} : pc'[t] = pc[t] /\ layer'[t] = layer[t]
  BY DEF Typed, Request, Disconnect, UseLayer, GetLayerByUserId,
         GetUserRoomRole, CheckRoomExisted, CheckCanViewRoom, QueryFails,
         LayerCreated, Ask, Admit, Refuse, Move
<1> DEFINE Need == pc'[s] \in {"join", "add", "wait"} \/ layer'[s] # None
           Has  == \/ owner[RoomOf[s]] # None
                   \/ pc[s] \in {"join", "add", "wait"} \/ layer[s] # None
<1>1. CASE Request(s)
  <2>1. Need => Has
    BY <1>1 DEF Request, Ask, Typed
  <2> QED BY <1>0, <2>1, QuietFrame
<1>2. CASE Disconnect(s)
  <2>1. Need => Has
    BY <1>2 DEF Disconnect, Typed
  <2> QED BY <1>0, <2>1, QuietFrame
<1>3. CASE UseLayer(s)
  <2>1. Has
    BY <1>3 DEF UseLayer
  <2> QED BY <1>0, <2>1, QuietFrame
<1>4. CASE GetLayerByUserId(s)
  <2>1. Has
    BY <1>4 DEF GetLayerByUserId
  <2> QED BY <1>0, <2>1, QuietFrame
<1>5. CASE GetUserRoomRole(s)
  <2>1. CASE role[RoomOf[s]][UserOf[s]] >= 0
    <3>1. Has
      BY <2>1 DEF TablesInv
    <3> QED BY <1>0, <3>1, QuietFrame
  <2>2. CASE ~(role[RoomOf[s]][UserOf[s]] >= 0)
    <3>1. Need => Has
      BY <1>5, <2>2 DEF GetUserRoomRole, Typed
    <3> QED BY <1>0, <3>1, QuietFrame
  <2> QED BY <2>1, <2>2
<1>6. CASE CheckRoomExisted(s)
  <2>1. Need => Has
    BY <1>6 DEF CheckRoomExisted, Typed
  <2> QED BY <1>0, <2>1, QuietFrame
<1>7. CASE CheckCanViewRoom(s)
  <2>1. Need => Has
    BY <1>7 DEF CheckCanViewRoom, Refuse, Typed
  <2> QED BY <1>0, <2>1, QuietFrame
<1>8. CASE QueryFails(s)
  <2>1. Need => Has
    BY <1>8 DEF QueryFails, Refuse, Typed
  <2> QED BY <1>0, <2>1, QuietFrame
<1>9. CASE LayerCreated(s)
  <2>1. Has
    BY <1>9 DEF LayerCreated
  <2> QED BY <1>0, <2>1, QuietFrame
<1> QED BY <1>1, <1>2, <1>3, <1>4, <1>5, <1>6, <1>7, <1>8, <1>9

(* The steps of a handler that queue a job. *)
LEMMA SendStep ==
  ASSUME Inv, NEW s \in Sessions, JoinRoom(s) \/ CreateRoom(s) \/ CreateLayer(s)
  PROVE  TablesInv' /\ QueueInv' /\ HandlerInv'
<1> USE AccessAssumption DEF Inv
<1>0. /\ UNCHANGED tables
      /\ \A t \in Sessions \ {s} : pc'[t] = pc[t] /\ layer'[t] = layer[t]
  BY DEF Typed, JoinRoom, CreateRoom, CreateLayer, Ask, Admit
<1>1. TablesInv'
  BY <1>0 DEF TablesInv
<1>2. RoomOf[s] \in Rooms /\ UserOf[s] \in Users /\ s \in Sessions \cup {None}
  OBVIOUS
<1>3. CASE JoinRoom(s)
  <2> DEFINE j == Job("edit", RoomOf[s], UserOf[s],
                      IF UserOf[s] \in Moderators THEN Owner ELSE Member, s)
  <2>1. j \in Jobs /\ j.room = RoomOf[s] /\ TrySend(j)
    BY <1>2, <1>3, JobType DEF JoinRoom, Roles, Owner, Member, Job
  <2>2. Sure(RoomOf[s], Len(queue))
    BY <1>3 DEF JoinRoom, HandlerInv
  <2>3. /\ QueueInv'
        /\ \A r \in Rooms : Sure(r, Len(queue)) => Sure(r, Len(queue))'
    BY <1>0, <2>1, <2>2, SendQueue
  <2> QED BY <1>0, <1>1, <1>2, <2>2, <2>3, HandlerFrame
<1>4. CASE CreateRoom(s)
  <2> DEFINE j == Job("room", RoomOf[s], UserOf[s], Owner, s)
  <2>1. j \in Jobs /\ j.room = RoomOf[s] /\ j.op = "room" /\ Send(j)
    BY <1>2, <1>4, JobType DEF CreateRoom, Roles, Owner, Job
  <2>2. Sure(RoomOf[s], Len(queue))'
    <3>1. Sure(j.room, Len(queue))'
      BY <2>1, SentIsComing
    <3> QED BY <2>1, <3>1
  <2>3. /\ QueueInv'
        /\ \A r \in Rooms : Sure(r, Len(queue)) => Sure(r, Len(queue))'
    BY <1>0, <2>1, SendQueue
  <2> QED BY <1>0, <1>1, <2>2, <2>3, HandlerFrame
<1>5. CASE CreateLayer(s)
  <2> DEFINE j == Job("layer", RoomOf[s], UserOf[s], Owner, s)
  <2>1. j \in Jobs /\ j.room = RoomOf[s] /\ Send(j)
    BY <1>2, <1>5, JobType DEF CreateLayer, Roles, Owner, Job
  <2>2. Sure(RoomOf[s], Len(queue))
    BY <1>5 DEF CreateLayer, HandlerInv
  <2>3. /\ QueueInv'
        /\ \A r \in Rooms : Sure(r, Len(queue)) => Sure(r, Len(queue))'
    BY <1>0, <2>1, <2>2, SendQueue
  <2> QED BY <1>0, <1>1, <1>2, <2>2, <2>3, HandlerFrame
<1> QED BY <1>3, <1>4, <1>5

(* The writer, when no statement fails, executes a job whose room is in    *)
(* the table, or is put there by it.                                       *)
LEMMA WriterStep ==
  ASSUME Inv, ~WriteFails, Writer
  PROVE  TablesInv' /\ QueueInv' /\ HandlerInv'
<1> USE DEF Inv
<1> DEFINE j == Head(queue)
<1>1. \E op \in {"room", "edit", "layer"} : Execute(op)
  BY DEF Writer, RoomCreate, RoomEditUser, LayerCreate
<1>2. /\ j.room \in Rooms /\ j.user \in Users /\ j.role \in Roles
      /\ pc' = pc /\ layer' = layer
  BY <1>1, ExecuteType DEF Writer, RoomCreate, RoomEditUser, LayerCreate
<1>3. /\ \A r \in Rooms : owner[r] # None => owner'[r] # None
      /\ owner'[j.room] # None
      /\ TablesInv'
  <2>1. CASE RoomCreate
    <3>1. CASE InsertRoom(j)
      <4>1. /\ owner'[j.room] = j.user
            /\ \A r \in Rooms : r # j.room =>
                 owner'[r] = owner[r] /\ role'[r] = role[r] /\ layers'[r] = layers[r]
        BY <1>2, <3>1 DEF InsertRoom, Typed
      <4>2. j.user # None
        BY <1>2, AccessAssumption
      <4> QED BY <4>1, <4>2 DEF TablesInv
    <3>2. CASE Taken(j) /\ UNCHANGED tables
      <4>1. CASE role[j.room][j.user] # -1
        <5>1. role[j.room][j.user] >= 0
          BY <1>2, <4>1 DEF Typed, Roles, Owner
        <5> QED BY <1>2, <3>2, <5>1 DEF TablesInv
      <4> QED BY <1>2, <3>2, <4>1 DEF Taken, TablesInv
    <3> QED BY <2>1, <3>1, <3>2 DEF RoomCreate
  <2>2. CASE RoomEditUser \/ LayerCreate
    <3>1. j.op # "room"
      BY <2>2 DEF RoomEditUser, LayerCreate, Execute
    <3>2. owner[j.room] # None
      <4>1. Len(queue) \in Nat /\ Len(queue) >= 1 /\ queue[1] = j
        BY <1>1 DEF Typed, Execute
      <4> QED BY <3>1, <4>1 DEF QueueInv, Sure, Coming
    <3>3. /\ owner' = owner
          /\ \A r \in Rooms : r # j.room => role'[r] = role[r] /\ layers'[r] = layers[r]
      BY <1>2, <2>2 DEF RoomEditUser, LayerCreate, Typed
    <3> QED BY <1>2, <3>2, <3>3 DEF TablesInv
  <2> QED BY <2>1, <2>2 DEF Writer
<1>4. /\ QueueInv'
      /\ \A r \in Rooms : Sure(r, Len(queue)) => Sure(r, Len(queue))'
  BY <1>1, <1>3, ExecuteQueue
<1>5. HandlerInv'
  BY <1>2, <1>4, AccessAssumption DEF HandlerInv
<1> QED BY <1>3, <1>4, <1>5

(* Nobody is in a room at the start and after a restart. *)
LEMMA RestInv ==
  ASSUME TablesInv', AtRest'
  PROVE  QueueInv' /\ HandlerInv'
  BY DEF AtRest, QueueInv, HandlerInv

(* Inv is an invariant of Access when no statement fails. *)
THEOREM InvCorrect == ASSUME ~WriteFails PROVE Spec => []Inv
<1>1. Init => Inv
  <2> SUFFICES ASSUME Init PROVE Inv
    OBVIOUS
  <2>1. Typed
    BY InitType
  <2>2. TablesInv
    BY DEF Init, TablesInv
  <2>3. QueueInv /\ HandlerInv
    BY DEF Init, AtRest, QueueInv, HandlerInv
  <2> QED BY <2>1, <2>2, <2>3 DEF Inv
<1>2. Inv /\ [Next]_vars => Inv'
  <2> SUFFICES ASSUME Inv, [Next]_vars PROVE Inv'
    OBVIOUS
  <2>1. Typed'
    BY TypeStep DEF Inv
  <2>2. CASE UNCHANGED vars
    BY <2>1, <2>2
    DEF vars, Inv, TablesInv, QueueInv, HandlerInv, Sure, Coming
  <2>3. ASSUME NEW s \in Sessions,
               \/ Request(s) \/ Disconnect(s) \/ UseLayer(s)
               \/ GetLayerByUserId(s) \/ Handler(s) \/ Sending(s)
        PROVE  Inv'
    BY <2>1, <2>3, QuietStep, SendStep DEF Handler, Sending, Inv
  <2>4. ASSUME NEW r \in Rooms, NEW u \in Users, NEW ro \in Granted,
               OwnerAddUser(r, u, ro)
        PROVE  Inv'
    <3> DEFINE j == Job("edit", r, u, ro, None)
    <3>1. j \in Jobs /\ j.room = r /\ TrySend(j)
      BY <2>4, JobType, AccessAssumption DEF OwnerAddUser, Roles, Owner, Job
    <3>2. Sure(r, Len(queue)) /\ UNCHANGED <<tables, pc, layer>>
      BY <2>4 DEF OwnerAddUser, Sure
    <3>3. /\ QueueInv'
          /\ \A q \in Rooms : Sure(q, Len(queue)) => Sure(q, Len(queue))'
      BY <3>1, <3>2, SendQueue DEF Inv
    <3>4. HandlerInv' /\ TablesInv'
      BY <3>2, <3>3, AccessAssumption DEF Inv, HandlerInv, TablesInv
    <3> QED BY <2>1, <3>3, <3>4 DEF Inv
  <2>5. CASE Writer
    BY <2>1, <2>5, WriterStep DEF Inv
  <2>6. CASE Crash
    <3>1. TablesInv' /\ AtRest'
      BY <2>6 DEF Crash, AtRest, Inv, TablesInv
    <3> QED BY <2>1, <3>1, RestInv DEF Inv
  <2> QED BY <2>2, <2>3, <2>4, <2>5, <2>6 DEF Next
<1> QED BY <1>1, <1>2, PTL DEF Spec

(* When no statement of the writer fails, nobody has a role in a room that *)
(* does not exist, though the room and the membership are two jobs of a    *)
(* queue that may be full (helper.go:25-41, db.go:578 and 595).            *)
THEOREM MembershipHasRoomCorrect ==
  ASSUME ~WriteFails PROVE Spec => []MembershipHasRoom
<1>1. Inv => MembershipHasRoom
  BY DEF Inv, TablesInv, MembershipHasRoom
<1> QED BY <1>1, InvCorrect, PTL

(* When no statement of the writer fails, a connection is in a room that   *)
(* exists or whose creation is queued (helper.go:9-60).                    *)
THEOREM AdmittedToARoomCorrect ==
  ASSUME ~WriteFails PROVE Spec => []AdmittedToARoom
<1>1. Inv => AdmittedToARoom
  BY DEF Inv, HandlerInv, Sure, Coming, AdmittedToARoom
<1> QED BY <1>1, InvCorrect, PTL

----------------------------------------------------------------------------
(* Nobody is on a private layer of another user.                           *)

(* The layers of a room have different indices, which are not beyond some  *)
(* number.                                                                 *)
LayersInv ==
  \A r \in Rooms :
    /\ \E N \in Nat : \A l \in layers[r] : l.index \in 0..N
    /\ \A k, l \in layers[r] : k.index = l.index => k = l

(* A layer is created for the session that waits for it. *)
JobsInv ==
  \A i \in 1..Len(queue) :
    queue[i].op = "layer" =>
      /\ queue[i].from \in Sessions
      /\ queue[i].room = RoomOf[queue[i].from]
      /\ queue[i].user = UserOf[queue[i].from]

(* There is a layer n in the room of s that its user may use. *)
Usable(s, n) == \E l \in layers[RoomOf[s]] : l.index = n /\ CanUse(s, l)

(* A connection is on the base layer or on one its user may use, and the   *)
(* writer answers with one.                                                *)
PlacesInv ==
  \A s \in Sessions :
    /\ layer[s] \in {None, 0} \/ Usable(s, layer[s])
    /\ reply[s] \in {None, -1} \/ Usable(s, reply[s])

LayerTypes == reply = [s \in Sessions |-> reply[s]]

LInv == /\ Inv /\ RoomsAreWhole
        /\ LayerTypes /\ LayersInv /\ JobsInv /\ PlacesInv

(* The index of a new layer is not taken. *)
LEMMA NextLayerIsNew ==
  ASSUME LayersInv, NEW r \in Rooms
  PROVE  /\ NextLayer(r) \in Nat
         /\ \A l \in layers[r] : l.index < NextLayer(r) /\ l.index \in Nat
<1> DEFINE taken == {l.index : l \in layers[r]}
<1>1. PICK N \in Nat : \A l \in layers[r] : l.index \in 0..N
  BY DEF LayersInv
<1>2. taken \in SUBSET (0..N) /\ \A l \in layers[r] : l.index \in taken
  BY <1>1
<1>3. CASE taken = {}
  BY <1>2, <1>3 DEF NextLayer
<1>4. CASE taken # {}
  <2>1. \E n \in taken : \A m \in taken : m <= n
    BY <1>2, <1>4, HasLargest
  <2>2. PICK n \in taken : NextLayer(r) = 1 + n /\ \A m \in taken : m <= n
    BY <2>1, <1>4 DEF NextLayer
  <2>3. n \in 0..N
    BY <1>2
  <2> HIDE DEF taken
  <2> QED BY <1>1, <1>2, <2>2, <2>3
<1> QED BY <1>3, <1>4

(* What is usable stays so while no layer goes. *)
LEMMA UsableKept ==
  ASSUME NEW s \in Sessions, \A r \in Rooms : layers[r] \subseteq layers'[r]
  PROVE  \A n : Usable(s, n) => Usable(s, n)'
  BY AccessAssumption DEF Usable, CanUse

(* A handler's own step: it stays where it is, goes to the base layer or   *)
(* none, or to a usable one.                                               *)
LEMMA PlacesFrame ==
  ASSUME PlacesInv, LayersInv, UNCHANGED layers, NEW s \in Sessions,
         \A t \in Sessions \ {s} : layer'[t] = layer[t] /\ reply'[t] = reply[t],
         layer'[s] \in {layer[s], None, 0} \/ Usable(s, layer'[s]),
         reply'[s] \in {reply[s], None}
  PROVE  PlacesInv' /\ LayersInv'
<1>1. \A t \in Sessions : \A n : Usable(t, n) <=> Usable(t, n)'
  BY DEF Usable, CanUse
<1>2. ASSUME NEW t \in Sessions
      PROVE  /\ layer'[t] \in {None, 0} \/ Usable(t, layer'[t])
             /\ reply'[t] \in {None, -1} \/ Usable(t, reply'[t])
  <2>1. CASE t = s
    BY <2>1 DEF PlacesInv
  <2>2. CASE t # s
    BY <2>2 DEF PlacesInv
  <2> QED BY <2>1, <2>2
<1>3. PlacesInv'
  BY <1>1, <1>2 DEF PlacesInv
<1>4. LayersInv'
  BY DEF LayersInv
<1> QED BY <1>3, <1>4

(* A job in the queue that is not about a layer, or that is of its sender. *)
LEMMA SendJobs ==
  ASSUME Typed, JobsInv, NEW j \in Jobs, TrySend(j) \/ Send(j),
         j.op = "layer" =>
           j.from \in Sessions /\ j.room = RoomOf[j.from] /\ j.user = UserOf[j.from]
  PROVE  JobsInv'
<1>1. CASE queue' = queue
  BY <1>1 DEF JobsInv
<1>2. CASE queue' = Append(queue, j)
  <2>1. /\ Len(queue) \in Nat /\ Len(queue') = Len(queue) + 1
        /\ \A k \in 1..Len(queue) : queue'[k] = queue[k]
        /\ queue'[Len(queue) + 1] = j
    BY <1>2 DEF Typed
  <2>2. \A i \in 1..Len(queue') :
          (i \in 1..Len(queue) /\ queue'[i] = queue[i]) \/ queue'[i] = j
    BY <2>1
  <2> QED BY <2>2 DEF JobsInv
<1> QED BY <1>1, <1>2 DEF TrySend, Send

(* The oldest job is gone, and the others have moved up. *)
LEMMA ExecuteJobs ==
  ASSUME Typed, JobsInv, NEW op, Execute(op)
  PROVE  JobsInv'
<1>1. \A i \in 1..Len(queue') : i + 1 \in 1..Len(queue) /\ queue'[i] = queue[i + 1]
  BY DEF Typed, Execute
<1> QED BY <1>1 DEF JobsInv

(* The steps of a handler keep the layers and where its user is. *)
LEMMA HandlerLayers ==
  ASSUME LInv, NEW s \in Sessions,
         \/ Request(s) \/ Disconnect(s) \/ UseLayer(s) \/ GetLayerByUserId(s)
         \/ Handler(s) \/ Sending(s)
  PROVE  LayerTypes' /\ LayersInv' /\ JobsInv' /\ PlacesInv'
<1> USE DEF LInv, Inv
<1>0. /\ UNCHANGED layers /\ LayerTypes'
      /\ \A t \in Sessions \ {s} : layer'[t] = layer[t] /\ reply'[t] = reply[t]
      /\ reply'[s] \in {reply[s], None}
  BY DEF Typed, LayerTypes, Request, Disconnect, UseLayer, GetLayerByUserId,
         Handler, Sending, GetUserRoomRole, CheckRoomExisted, CheckCanViewRoom,
         QueryFails, LayerCreated, JoinRoom, CreateRoom, CreateLayer, Ask,
         Admit, Refuse, Move
<1>1. layer'[s] \in {layer[s], None, 0} \/ Usable(s, layer'[s])
  <2>1. CASE UseLayer(s)
    BY <2>1 DEF UseLayer, Move, Usable, Typed
  <2>2. CASE GetLayerByUserId(s)
    <3>1. CASE UNCHANGED layer
      BY <3>1
    <3>2. ASSUME NEW l \in Private(RoomOf[s], UserOf[s]), Move(s, l.index)
          PROVE  Usable(s, layer'[s])
      BY <3>2 DEF Private, Move, Usable, CanUse, Typed
    <3> QED BY <2>2, <3>1, <3>2 DEF GetLayerByUserId
  <2>3. CASE LayerCreated(s)
    <3>1. CASE reply[s] >= 0
      <4>1. reply[s] # None /\ reply[s] # -1
        BY <2>3, <3>1 DEF LayerCreated
      <4>2. Usable(s, reply[s])
        BY <4>1 DEF PlacesInv
      <4>3. layer'[s] = reply[s]
        BY <2>3, <3>1 DEF LayerCreated, Move, Typed
      <4> QED BY <4>2, <4>3
    <3>2. CASE ~(reply[s] >= 0)
      BY <2>3, <3>2 DEF LayerCreated
    <3> QED BY <3>1, <3>2
  <2>4. CASE ~(UseLayer(s) \/ GetLayerByUserId(s) \/ LayerCreated(s))
    BY <2>4
    DEF Typed, Request, Disconnect, Handler, Sending, GetUserRoomRole,
        CheckRoomExisted, CheckCanViewRoom, QueryFails, JoinRoom, CreateRoom,
        CreateLayer, Ask, Admit, Refuse
  <2> QED BY <2>1, <2>2, <2>3, <2>4
<1>2. PlacesInv' /\ LayersInv'
  BY <1>0, <1>1, PlacesFrame
<1>3. RoomOf[s] \in Rooms /\ UserOf[s] \in Users /\ s \in Sessions \cup {None}
  BY AccessAssumption
<1>4. JobsInv'
  <2>1. CASE JoinRoom(s)
    <3> DEFINE j == Job("edit", RoomOf[s], UserOf[s],
                        IF UserOf[s] \in Moderators THEN Owner ELSE Member, s)
    <3>1. j \in Jobs /\ j.op = "edit" /\ TrySend(j)
      BY <1>3, <2>1, JobType DEF JoinRoom, Roles, Owner, Member, Job
    <3> QED BY <3>1, SendJobs
  <2>2. CASE CreateRoom(s)
    <3> DEFINE j == Job("room", RoomOf[s], UserOf[s], Owner, s)
    <3>1. j \in Jobs /\ j.op = "room" /\ Send(j)
      BY <1>3, <2>2, JobType DEF CreateRoom, Roles, Owner, Job
    <3> QED BY <3>1, SendJobs
  <2>3. CASE CreateLayer(s)
    <3> DEFINE j == Job("layer", RoomOf[s], UserOf[s], Owner, s)
    <3>1. /\ j \in Jobs /\ Send(j)
          /\ j.from = s /\ j.room = RoomOf[s] /\ j.user = UserOf[s]
      BY <1>3, <2>3, JobType DEF CreateLayer, Roles, Owner, Job
    <3> QED BY <3>1, SendJobs
  <2>4. CASE UNCHANGED queue
    BY <2>4 DEF JobsInv
  <2> QED
    BY <2>1, <2>2, <2>3, <2>4
    DEF Request, Disconnect, UseLayer, GetLayerByUserId, Handler, Sending,
        GetUserRoomRole, CheckRoomExisted, CheckCanViewRoom, QueryFails,
        LayerCreated
<1> QED BY <1>0, <1>2, <1>4

(* A layer more in a room, with an index of its own. *)
LEMMA InsertLayer ==
  ASSUME Typed, LayersInv, PlacesInv, NEW r \in Rooms, NEW x,
         layers' = [layers EXCEPT ![r] = @ \cup {x}],
         x.index \in Nat, \A l \in layers[r] : l.index < x.index
  PROVE  /\ LayersInv'
         /\ \A s \in Sessions : \A n : Usable(s, n) => Usable(s, n)'
<1>1. /\ layers'[r] = layers[r] \cup {x}
      /\ \A q \in Rooms : q # r => layers'[q] = layers[q]
  BY DEF Typed
<1>2. \A q \in Rooms : layers[q] \subseteq layers'[q]
  BY <1>1
<1>3. ASSUME NEW q \in Rooms
      PROVE  /\ \E N \in Nat : \A l \in layers'[q] : l.index \in 0..N
             /\ \A k, l \in layers'[q] : k.index = l.index => k = l
  <2>1. CASE q # r
    BY <1>1, <2>1 DEF LayersInv
  <2>2. CASE q = r
    <3>1. \A l \in layers[r] : l.index \in Nat
      BY DEF LayersInv
    <3>2. \A l \in layers'[q] : l.index \in 0..x.index
      BY <1>1, <2>2, <3>1
    <3>3. \A k, l \in layers'[q] : k.index = l.index => k = l
      BY <1>1, <2>2, <3>1 DEF LayersInv
    <3> QED BY <3>2, <3>3
  <2> QED BY <2>1, <2>2
<1> QED BY <1>2, <1>3, UsableKept DEF LayersInv

(* The writer creates the base layer of a room that has no layer yet, and  *)
(* every other layer for the user who asked for it.                        *)
LEMMA WriterLayers ==
  ASSUME LInv, ~WriteFails, Writer
  PROVE  LayerTypes' /\ LayersInv' /\ JobsInv' /\ PlacesInv'
<1> USE DEF LInv, Inv
<1> DEFINE j == Head(queue)
<1>1. \E op \in {"room", "edit", "layer"} : Execute(op)
  BY DEF Writer, RoomCreate, RoomEditUser, LayerCreate
<1>2. /\ j.room \in Rooms /\ j.user \in Users /\ layer' = layer
      /\ LayerTypes'
  BY <1>1, ExecuteType
  DEF Writer, RoomCreate, RoomEditUser, LayerCreate, LayerTypes
<1>3. JobsInv'
  BY <1>1, ExecuteJobs
<1>4. CASE UNCHANGED <<layers, reply>>
  <2>1. \A s \in Sessions : \A n : Usable(s, n) => Usable(s, n)'
    BY <1>4 DEF Usable, CanUse
  <2> QED BY <1>2, <1>3, <1>4, <2>1 DEF LayersInv, PlacesInv
<1>5. CASE RoomCreate /\ InsertRoom(j) /\ ~Taken(j)
  <2>1. layers[j.room] = {}
    <3>1. owner[j.room] = None
      BY <1>5 DEF Taken
    <3> QED BY <1>2, <3>1 DEF TablesInv
  <2>2. PICK x : x = Layer(0, j.user, TRUE)
    OBVIOUS
  <2>3. /\ layers' = [layers EXCEPT ![j.room] = @ \cup {x}]
        /\ x.index = 0 /\ reply' = reply
    BY <1>5, <2>2 DEF InsertRoom, RoomCreate, Layer
  <2>4. PICK r \in Rooms :
          /\ layers' = [layers EXCEPT ![r] = @ \cup {x}]
          /\ \A l \in layers[r] : l.index < x.index
    BY <1>2, <2>1, <2>3
  <2>5. x.index \in Nat
    BY <2>3
  <2>6. /\ LayersInv'
        /\ \A s \in Sessions : \A n : Usable(s, n) => Usable(s, n)'
    BY <2>4, <2>5, InsertLayer
  <2> QED BY <1>2, <1>3, <2>3, <2>6 DEF PlacesInv
<1>6. CASE LayerCreate
  <2>1. /\ j.from \in Sessions
        /\ j.room = RoomOf[j.from] /\ j.user = UserOf[j.from]
    <3>1. 1 \in 1..Len(queue) /\ queue[1] = j /\ j.op = "layer"
      BY <1>6 DEF LayerCreate, Execute, Typed
    <3> QED BY <3>1 DEF JobsInv
  <2>2. PICK x : \E s \in Sessions, r \in Rooms, n \in Nat :
          /\ s = j.from /\ r = j.room /\ n = NextLayer(r)
          /\ x = Layer(n, j.user, FALSE)
    BY <1>2, <2>1, NextLayerIsNew
  <2>3. PICK s \in Sessions, r \in Rooms, n \in Nat :
          /\ s = j.from /\ r = j.room /\ n = NextLayer(r)
          /\ x = Layer(n, j.user, FALSE)
    BY <2>2
  <2>4. /\ layers' = [layers EXCEPT ![r] = @ \cup {x}]
        /\ reply' = [reply EXCEPT ![s] = n]
    BY <1>6, <2>3 DEF LayerCreate
  <2>5. x.index = n /\ x.user = UserOf[s] /\ r = RoomOf[s]
    BY <2>1, <2>3 DEF Layer
  <2>6. /\ LayersInv'
        /\ \A t \in Sessions : \A m : Usable(t, m) => Usable(t, m)'
    <3>1. x.index \in Nat /\ \A l \in layers[r] : l.index < x.index
      BY <2>3, <2>5, NextLayerIsNew
    <3> QED BY <2>4, <3>1, InsertLayer
  <2>7. Usable(s, n)'
    <3>1. x \in layers'[r]
      BY <2>4 DEF Typed
    <3> QED BY <2>5, <3>1 DEF Usable, CanUse
  <2>8. /\ \A t \in Sessions : t # s => reply'[t] = reply[t]
        /\ reply'[s] = n
    BY <2>4 DEF LayerTypes
  <2>9. ASSUME NEW t \in Sessions
        PROVE  reply'[t] \in {None, -1} \/ Usable(t, reply[t])'
    <3>1. CASE t = s
      BY <2>7, <2>8, <3>1
    <3>2. CASE t # s
      BY <2>6, <2>8, <3>2 DEF PlacesInv
    <3> QED BY <3>1, <3>2
  <2>10. \A t \in Sessions : layer'[t] \in {None, 0} \/ Usable(t, layer[t])'
    BY <1>2, <2>6 DEF PlacesInv
  <2> QED BY <1>2, <1>3, <2>6, <2>9, <2>10 DEF PlacesInv
<1>7. \/ UNCHANGED <<layers, reply>>
      \/ RoomCreate /\ InsertRoom(j) /\ ~Taken(j)
      \/ LayerCreate
  BY DEF Writer, RoomCreate, RoomEditUser
<1> QED BY <1>4, <1>5, <1>6, <1>7

(* Where connections are, as an inductive invariant. *)
LEMMA LayersCorrect == ASSUME ~WriteFails PROVE Spec => []LInv
<1>1. Init => LayerTypes /\ LayersInv /\ JobsInv /\ PlacesInv
  <2> SUFFICES ASSUME Init PROVE LayerTypes /\ LayersInv /\ JobsInv /\ PlacesInv
    OBVIOUS
  <2>1. LayersInv
    <3>1. 0 \in Nat /\ \A r \in Rooms : layers[r] = {}
      BY DEF Init
    <3> QED BY <3>1 DEF LayersInv
  <2> QED BY <2>1 DEF Init, AtRest, LayerTypes, JobsInv, PlacesInv
<1>2. /\ LayerTypes /\ LayersInv /\ JobsInv /\ PlacesInv
      /\ Inv /\ RoomsAreWhole /\ [Next]_vars
      => (LayerTypes /\ LayersInv /\ JobsInv /\ PlacesInv)'
  <2> SUFFICES ASSUME LInv, [Next]_vars
               PROVE  LayerTypes' /\ LayersInv' /\ JobsInv' /\ PlacesInv'
    BY DEF LInv
  <2>1. CASE UNCHANGED vars
    BY <2>1 DEF LInv, vars, LayerTypes, LayersInv, JobsInv, PlacesInv, Usable,
                CanUse
  <2>2. ASSUME NEW s \in Sessions,
               \/ Request(s) \/ Disconnect(s) \/ UseLayer(s)
               \/ GetLayerByUserId(s) \/ Handler(s) \/ Sending(s)
        PROVE  LayerTypes' /\ LayersInv' /\ JobsInv' /\ PlacesInv'
    BY <2>2, HandlerLayers
  <2>3. ASSUME NEW r \in Rooms, NEW u \in Users, NEW ro \in Granted,
               OwnerAddUser(r, u, ro)
        PROVE  LayerTypes' /\ LayersInv' /\ JobsInv' /\ PlacesInv'
    <3> DEFINE j == Job("edit", r, u, ro, None)
    <3>1. j \in Jobs /\ j.op = "edit" /\ TrySend(j)
      BY <2>3, JobType, AccessAssumption DEF OwnerAddUser, Roles, Owner, Job
    <3>2. JobsInv'
      BY <3>1, SendJobs DEF LInv, Inv
    <3>3. UNCHANGED <<layers, layer, reply>>
      BY <2>3 DEF OwnerAddUser
    <3> QED BY <3>2, <3>3
            DEF LInv, LayerTypes, LayersInv, PlacesInv, Usable, CanUse
  <2>4. CASE Writer
    BY <2>4, WriterLayers
  <2>5. CASE Crash
    BY <2>5 DEF Crash, LInv, LayerTypes, LayersInv, JobsInv, PlacesInv
  <2> QED BY <2>1, <2>2, <2>3, <2>4, <2>5 DEF Next
<1> QED BY <1>1, <1>2, InvCorrect, RoomsAreWholeCorrect, PTL DEF Spec, LInv

(* When no statement of the writer fails, no connection is on a private    *)
(* layer of another user: the base layer, on which it starts unchecked, is *)
(* public and its index is given to no other layer (hub.go:377-446,        *)
(* db.go:387-436 and 461-528).                                             *)
THEOREM OnlyOwnPrivateLayersCorrect ==
  ASSUME ~WriteFails PROVE Spec => []OnlyOwnPrivateLayers
<1>1. LInv => OnlyOwnPrivateLayers
  <2> SUFFICES ASSUME LInv, NEW s \in Sessions, layer[s] # None,
                      NEW l \in layers[RoomOf[s]], l.index = layer[s]
               PROVE  l.public \/ l.user = UserOf[s]
    BY DEF OnlyOwnPrivateLayers
  <2>1. RoomOf[s] \in Rooms
    BY AccessAssumption
  <2>2. CASE layer[s] = 0
    <3>1. PICK k \in layers[RoomOf[s]] : k.index = 0 /\ k.public
      BY <2>1 DEF LInv, Inv, TablesInv, RoomsAreWhole
    <3> QED BY <2>1, <2>2, <3>1 DEF LInv, LayersInv
  <2>3. CASE Usable(s, layer[s])
    BY <2>1, <2>3 DEF Usable, CanUse, LInv, LayersInv
  <2> QED BY <2>2, <2>3 DEF LInv, PlacesInv
<1> QED BY <1>1, LayersCorrect, PTL
=============================================================================
