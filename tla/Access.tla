------------------------------- MODULE Access -------------------------------
(***************************************************************************)
(* Who may enter a room and who may use a layer: EnsureUserInRoom          *)
(* (db/helper.go), the owner's add-user (api/handler.go), the database     *)
(* part of change-layer (ws/hub.go), and the jobs they queue, which the    *)
(* writer goroutine executes as transactions (db/db.go).                   *)
(*                                                                         *)
(* A handler reads the tables at once, but writes them through the queue:  *)
(* what it has decided on may have changed by the time its job is executed *)
(* and what it has just written is not there when it reads again.          *)
(*                                                                         *)
(* Rooms are created public, so that a room a user may not enter is a room *)
(* that is not in the table.  Nothing deletes a room, a membership or a    *)
(* layer.                                                                  *)
(***************************************************************************)
EXTENDS Integers, Sequences, FiniteSets

CONSTANTS
  Sessions,    (* the handlers: websocket connections and replay requests  *)
  Users,       (* the user ids                                             *)
  UserOf,      (* the user of a session                                    *)
  Moderators,  (* the users whose global role is RoleModerator or RoleOwner *)
  Rooms,       (* the room ids                                             *)
  RoomOf,      (* the room a session is about                              *)
  QueueCap,    (* the capacity of opCh (10000 in the code)                 *)
  MaxLayer,    (* bound: the largest layer index                           *)
  Granted,     (* bound: the roles an owner gives to users                 *)
  ReadFails,   (* whether a query may fail                                 *)
  WriteFails,  (* whether a statement of the writer may fail               *)
  None

ASSUME AccessAssumption ==
  /\ UserOf \in [Sessions -> Users]
  /\ RoomOf \in [Sessions -> Rooms]
  /\ Moderators \subseteq Users
  /\ QueueCap \in Nat \ {0}
  /\ MaxLayer \in Nat
  /\ Granted \subseteq 0..3
  /\ ReadFails \in BOOLEAN /\ WriteFails \in BOOLEAN
  /\ None \notin Users \cup Sessions \cup Int
  /\ None \notin {"connect", "greet", "replay", "poll"}

VARIABLES
  owner,   (* table rooms: the owner of a room, or None                    *)
  role,    (* table users_rooms: the role of a user in a room, or -1       *)
  layers,  (* tables layers and users_layers: the layers of a room         *)
  queue,   (* opCh                                                         *)
  pc,      (* where a handler is                                           *)
  call,    (* who called EnsureUserInRoom, or None                         *)
  layer,   (* Client.layer of an accepted connection, or None              *)
  reply    (* what CreateLayer received: an index, -1 for an error, None   *)

tables   == <<owner, role, layers>>
handlers == <<pc, call, layer, reply>>
vars     == <<tables, queue, handlers>>

Member == 1
Owner  == 3
Roles  == 0..Owner

(* users_layers has one row for a layer, its creator's, and none for the   *)
(* base layer; so the creator stands for the row.                          *)
Layer(n, u, public) == [index |-> n, user |-> u, public |-> public]
LayerRows == [index : 0..MaxLayer, user : Users, public : BOOLEAN]

Job(op, r, u, ro, s) ==
  [op |-> op, room |-> r, user |-> u, role |-> ro, from |-> s]
Jobs == [op : {"room", "edit", "layer"}, room : Rooms, user : Users,
         role : Roles, from : Sessions \cup {None}]

(* A layer index is the primary key of its room's layers, and a handler is *)
(* inside EnsureUserInRoom exactly while somebody has called it.           *)
TypeOK ==
  /\ owner  \in [Rooms -> Users \cup {None}]
  /\ role   \in [Rooms -> [Users -> Roles \cup {-1}]]
  /\ layers \in [Rooms -> SUBSET LayerRows]
  /\ \A r \in Rooms : \A k, l \in layers[r] : k.index = l.index => k = l
  /\ queue  \in Seq(Jobs) /\ Len(queue) <= QueueCap
  /\ pc     \in [Sessions -> {"rest", "ask", "exists", "create", "view",
                              "join", "add", "wait"}]
  /\ call   \in [Sessions -> {"connect", "greet", "replay", "poll", None}]
  /\ layer  \in [Sessions -> 0..MaxLayer \cup {None}]
  /\ reply  \in [Sessions -> 0..MaxLayer \cup {-1, None}]
  /\ \A s \in Sessions : call[s] = None <=> pc[s] \in {"rest", "add", "wait"}

AtRest ==
  /\ queue = <<>>
  /\ pc    = [s \in Sessions |-> "rest"]
  /\ call  = [s \in Sessions |-> None]
  /\ layer = [s \in Sessions |-> None]
  /\ reply = [s \in Sessions |-> None]

Init ==
  /\ owner  = [r \in Rooms |-> None]
  /\ role   = [r \in Rooms |-> [u \in Users |-> -1]]
  /\ layers = [r \in Rooms |-> {}]
  /\ AtRest

Goto(s, l) == pc' = [pc EXCEPT ![s] = l]

Full == Len(queue) = QueueCap

(* A send in a select with a default: a full queue drops the job. *)
TrySend(j) == queue' = IF Full THEN queue ELSE Append(queue, j)

(* A plain send waits for room in the queue. *)
Send(j) == ~Full /\ queue' = Append(queue, j)

----------------------------------------------------------------------------
(* EnsureUserInRoom.                                                       *)

(* HandleWS calls it before the upgrade, and GetReplay calls it again: for *)
(* HandleWS, for change-layer, and for a request of /get-replay.           *)
Ask(s, caller) ==
  /\ Goto(s, "ask")
  /\ call' = [call EXCEPT ![s] = caller]

Request(s) ==
  /\ pc[s] = "rest" /\ layer[s] = None
  /\ \E caller \in {"connect", "poll"} : Ask(s, caller)
  /\ UNCHANGED <<tables, queue, layer, reply>>

(* It returns a role.  HandleWS goes on to GetReplay, on layer 0. *)
Admit(s) ==
  IF call[s] = "connect"
  THEN /\ Ask(s, "greet")
       /\ layer' = [layer EXCEPT ![s] = 0]
  ELSE /\ Goto(s, "rest")
       /\ call' = [call EXCEPT ![s] = None]
       /\ UNCHANGED layer

(* It returns an error.  HandleWS gives the connection up; a replay for a  *)
(* connection that is in the room is only skipped.                         *)
Refuse(s) ==
  /\ Goto(s, "rest")
  /\ call' = [call EXCEPT ![s] = None]
  /\ layer' = [layer EXCEPT ![s] = IF call[s] = "replay" THEN @ ELSE None]

(* GetUserRoomRole and, for somebody who has no role in the room,          *)
(* GetUserRole, whose answer no other handler changes.                     *)
GetUserRoomRole(s) ==
  /\ pc[s] = "ask"
  /\ IF role[RoomOf[s]][UserOf[s]] >= 0
     THEN Admit(s)
     ELSE /\ Goto(s, IF UserOf[s] \in Moderators THEN "exists" ELSE "view")
          /\ UNCHANGED <<call, layer>>
  /\ UNCHANGED <<tables, queue, reply>>

(* The mutant creates the room that is there, and not the one that is not. *)
CheckRoomExistedInverted(s) ==
  /\ pc[s] = "exists"
  /\ Goto(s, IF owner[RoomOf[s]] # None THEN "create" ELSE "join")
  /\ UNCHANGED <<tables, queue, call, layer, reply>>

CheckRoomExisted(s) ==
  /\ pc[s] = "exists"
  /\ Goto(s, IF owner[RoomOf[s]] # None THEN "join" ELSE "create")
  /\ UNCHANGED <<tables, queue, call, layer, reply>>

CreateRoom(s) ==
  /\ pc[s] = "create"
  /\ Send(Job("room", RoomOf[s], UserOf[s], Owner, s))
  /\ Goto(s, "join")
  /\ UNCHANGED <<tables, call, layer, reply>>

(* The mutant refuses only a room that is there and not for this user. *)
CheckCanViewRoomNoRows(s) ==
  /\ pc[s] = "view"
  /\ Goto(s, "join")
  /\ UNCHANGED <<tables, queue, call, layer, reply>>

CheckCanViewRoom(s) ==
  /\ pc[s] = "view"
  /\ IF owner[RoomOf[s]] # None
     THEN Goto(s, "join") /\ UNCHANGED <<call, layer>>
     ELSE Refuse(s)
  /\ UNCHANGED <<tables, queue, reply>>

(* The user is let in even if the queue is full and the job is dropped. *)
JoinRoom(s) ==
  /\ pc[s] = "join"
  /\ TrySend(Job("edit", RoomOf[s], UserOf[s],
                 IF UserOf[s] \in Moderators THEN Owner ELSE Member, s))
  /\ Admit(s)
  /\ UNCHANGED <<tables, reply>>

QueryFails(s) ==
  /\ ReadFails
  /\ pc[s] \in {"ask", "exists", "view"}
  /\ Refuse(s)
  /\ UNCHANGED <<tables, queue, reply>>

(* The owner of room r gives user u a role (CheckcanEditRoom, JoinRoom).   *)
OwnerAddUser(r, u, ro) ==
  /\ owner[r] # None
  /\ ~Full
  /\ TrySend(Job("edit", r, u, ro, None))
  /\ UNCHANGED <<tables, handlers>>

Disconnect(s) ==
  /\ pc[s] = "rest" /\ layer[s] # None
  /\ layer' = [layer EXCEPT ![s] = None]
  /\ UNCHANGED <<tables, queue, pc, call, reply>>

----------------------------------------------------------------------------
(* change-layer.  A denial changes nothing here.                           *)

(* CheckCanUseLayer.  The mutant joins users_layers without the user. *)
CanUseAny(s, l) == l.public \/ l.user \in Users

CanUse(s, l) == l.public \/ l.user = UserOf[s]

(* The layer is changed, and a replay is sent. *)
Move(s, n) ==
  /\ layer' = [layer EXCEPT ![s] = n]
  /\ Ask(s, "replay")

UseLayer(s) ==
  /\ pc[s] = "rest" /\ layer[s] # None
  /\ \E l \in layers[RoomOf[s]] : CanUse(s, l) /\ Move(s, l.index)
  /\ UNCHANGED <<tables, queue, reply>>

Private(r, u) == {l \in layers[r] : l.user = u /\ ~l.public}

Adding(r) == {s \in Sessions : RoomOf[s] = r /\ pc[s] \in {"add", "wait"}}

(* A negative index asks for the user's own layer: GetLayerByUserId takes  *)
(* any row of users_layers (LIMIT 1), and without one a layer is created.  *)
(* The bound counts the layers that are under way.                         *)
GetLayerByUserId(s) ==
  /\ pc[s] = "rest" /\ layer[s] # None
  /\ LET own == Private(RoomOf[s], UserOf[s])
     IN  \/ \E l \in own : Move(s, l.index)
         \/ /\ own = {}
            /\ Cardinality(layers[RoomOf[s]])
                 + Cardinality(Adding(RoomOf[s])) < MaxLayer
            /\ Goto(s, "add")
            /\ UNCHANGED <<call, layer>>
  /\ UNCHANGED <<tables, queue, reply>>

CreateLayer(s) ==
  /\ pc[s] = "add"
  /\ Send(Job("layer", RoomOf[s], UserOf[s], Owner, s))
  /\ Goto(s, "wait")
  /\ UNCHANGED <<tables, call, layer, reply>>

LayerCreated(s) ==
  /\ pc[s] = "wait" /\ reply[s] # None
  /\ IF reply[s] >= 0
     THEN Move(s, reply[s])
     ELSE Goto(s, "rest") /\ UNCHANGED <<call, layer>>
  /\ reply' = [reply EXCEPT ![s] = None]
  /\ UNCHANGED <<tables, queue>>

----------------------------------------------------------------------------
(* writerLoop executes the oldest job.                                     *)

Execute(op) ==
  queue # <<>> /\ Head(queue).op = op /\ queue' = Tail(queue)

(* The plain INSERTs of a room's creation find one of their keys taken. *)
Taken(j) ==
  \/ owner[j.room] # None
  \/ role[j.room][j.user] # -1
  \/ \E l \in layers[j.room] : l.index = 0

(* The room, its owner's membership and its base layer. *)
InsertRoom(j) ==
  /\ owner' = [owner EXCEPT ![j.room] = j.user]
  /\ role' = [role EXCEPT ![j.room][j.user] = Owner]
  /\ layers' = [layers EXCEPT ![j.room] = @ \cup {Layer(0, j.user, TRUE)}]

(* One transaction: all of it is written or nothing.  The mutant commits   *)
(* the room alone when the membership cannot be inserted.                  *)
RoomCreateInParts ==
  /\ Execute("room")
  /\ LET j == Head(queue)
     IN  \/ ~Taken(j) /\ InsertRoom(j)
         \/ /\ ~Taken(j) /\ WriteFails
            /\ owner' = [owner EXCEPT ![j.room] = j.user]
            /\ UNCHANGED <<role, layers>>
         \/ Taken(j) /\ UNCHANGED tables
  /\ UNCHANGED handlers

RoomCreate ==
  /\ Execute("room")
  /\ LET j == Head(queue)
     IN  \/ ~Taken(j) /\ InsertRoom(j)
         \/ (Taken(j) \/ WriteFails) /\ UNCHANGED tables
  /\ UNCHANGED handlers

(* INSERT ... ON CONFLICT DO UPDATE of the role. *)
RoomEditUser ==
  /\ Execute("edit")
  /\ LET j == Head(queue)
     IN  \/ role' = [role EXCEPT ![j.room][j.user] = j.role]
         \/ WriteFails /\ UNCHANGED role
  /\ UNCHANGED <<owner, layers, handlers>>

(* COALESCE(MAX(layer_index), -1) + 1.  The mutant takes the number of     *)
(* private layers.                                                         *)
CountPrivate(r) == Cardinality({l \in layers[r] : ~l.public})

NextLayer(r) ==
  LET taken == {l.index : l \in layers[r]}
  IN  IF taken = {} THEN 0
      ELSE 1 + (CHOOSE n \in taken : \A m \in taken : m <= n)

(* The layer and its owner's access, in one transaction; the caller gets   *)
(* the error, or nil and the index.  The mutant forgets it when the        *)
(* transaction fails.                                                      *)
LayerCreateSilent ==
  /\ Execute("layer")
  /\ LET j == Head(queue)
         n == NextLayer(j.room)
     IN  \/ /\ layers' = [layers EXCEPT ![j.room] =
                            @ \cup {Layer(n, j.user, FALSE)}]
            /\ reply' = [reply EXCEPT ![j.from] = n]
         \/ WriteFails /\ UNCHANGED <<layers, reply>>
  /\ UNCHANGED <<owner, role, pc, call, layer>>

LayerCreate ==
  /\ Execute("layer")
  /\ LET j == Head(queue)
         n == NextLayer(j.room)
     IN  \/ /\ layers' = [layers EXCEPT ![j.room] =
                            @ \cup {Layer(n, j.user, FALSE)}]
            /\ reply' = [reply EXCEPT ![j.from] = n]
         \/ /\ WriteFails
            /\ reply' = [reply EXCEPT ![j.from] = -1]
            /\ UNCHANGED layers
  /\ UNCHANGED <<owner, role, pc, call, layer>>

(* The process ends and starts again; the tables are on disk. *)
Crash ==
  /\ queue' = <<>>
  /\ pc'    = [s \in Sessions |-> "rest"]
  /\ call'  = [s \in Sessions |-> None]
  /\ layer' = [s \in Sessions |-> None]
  /\ reply' = [s \in Sessions |-> None]
  /\ UNCHANGED tables

----------------------------------------------------------------------------

Writer == RoomCreate \/ RoomEditUser \/ LayerCreate

(* What a handler does once it was called, a send into the queue aside. *)
Handler(s) ==
  \/ GetUserRoomRole(s) \/ CheckRoomExisted(s) \/ CheckCanViewRoom(s)
  \/ JoinRoom(s) \/ QueryFails(s) \/ LayerCreated(s)

Sending(s) == CreateRoom(s) \/ CreateLayer(s)

Next ==
  \/ \E s \in Sessions :
       \/ Request(s) \/ Disconnect(s) \/ UseLayer(s) \/ GetLayerByUserId(s)
       \/ Handler(s) \/ Sending(s)
  \/ \E r \in Rooms, u \in Users, ro \in Granted : OwnerAddUser(r, u, ro)
  \/ Writer \/ Crash

Spec == Init /\ [][Next]_vars

(* The scheduler starves no goroutine, and a channel serves the senders    *)
(* that wait for room in it in their order.                                *)
FairSpec ==
  /\ Spec
  /\ WF_vars(Writer)
  /\ \A s \in Sessions : WF_vars(Handler(s)) /\ SF_vars(Sending(s))

----------------------------------------------------------------------------
(* Properties.                                                             *)

(* A room, its owner's membership and its base layer are written together  *)
(* or not at all (db.go:387-436): whoever finds the room finds the rest,   *)
(* after any failure and any restart.                                      *)
RoomsAreWhole ==
  \A r \in Rooms :
    owner[r] # None =>
      /\ role[r][owner[r]] >= 0
      /\ \E l \in layers[r] : l.index = 0 /\ l.public

(* Nobody has a role in a room that does not exist: the membership of a    *)
(* moderator who found no room is queued behind the room (helper.go:25-41, *)
(* db.go:578 and 595), also when the queue is full, when two moderators    *)
(* find no room, and when the process ends between the two jobs.           *)
MembershipHasRoom ==
  \A r \in Rooms, u \in Users : role[r][u] >= 0 => owner[r] # None

(* A connection is in a room that exists or whose creation is queued       *)
(* (helper.go:9-60), though the membership job may have been dropped and   *)
(* the tables have moved on since they were read.                          *)
AdmittedToARoom ==
  \A s \in Sessions :
    layer[s] # None =>
      \/ owner[RoomOf[s]] # None
      \/ \E i \in 1..Len(queue) :
           queue[i].op = "room" /\ queue[i].room = RoomOf[s]

(* No connection is on a private layer of another user (hub.go:377-446):   *)
(* the base layer, on which everybody starts without a check, is never     *)
(* private, because no layer is created before the room.                   *)
OnlyOwnPrivateLayers ==
  \A s \in Sessions :
    layer[s] # None =>
      \A l \in layers[RoomOf[s]] :
        l.index = layer[s] => l.public \/ l.user = UserOf[s]

(* Every call of EnsureUserInRoom and CreateLayer returns: a full queue    *)
(* only delays it, and the writer answers every CreateLayer, successful or *)
(* not (db.go:461-528 and 641-668).                                        *)
CallsReturn ==
  \A s \in Sessions : (pc[s] # "rest") ~> (pc[s] = "rest")
=============================================================================
