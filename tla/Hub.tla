-------------------------------- MODULE Hub --------------------------------
(***************************************************************************)
(* The connection hub of the server: the map of rooms (ws/hub.go), the two *)
(* goroutines of every websocket connection (ws/client.go) and the part of *)
(* HandleWS (ws/handler.go) that greets a new connection and puts it into  *)
(* its room.                                                               *)
(*                                                                         *)
(* A connection c has a "reader" (the HTTP handler goroutine, which runs   *)
(* HandleWS and then read()) and a "writer" (write()).  pc[c][g] is the    *)
(* place of goroutine g of connection c.  A critical section of a mutex is *)
(* one action; the code outside the mutexes is as fine as the other        *)
(* goroutines can tell.  In particular Broadcast releases the mutex before *)
(* it ranges over the members of the room.                                 *)
(*                                                                         *)
(* A connection joins at most once, so a *Room is identified by the        *)
(* connection whose Join made it: a Broadcast that found a room can still  *)
(* be told from a later room of the same name.                             *)
(***************************************************************************)
EXTENDS Naturals, FiniteSets

CONSTANTS
  Clients,    (* the connections, one per *Client value                    *)
  Users,      (* the user ids                                              *)
  UserOf,     (* the user of a connection                                  *)
  Rooms,      (* the room ids                                              *)
  RoomOf,     (* the roomId of a connection                                *)
  Layers,     (* the layer indices a connection can move to                *)
  Doms,       (* the ids of lockable DOM objects                           *)
  Ops,        (* the kinds of message the peers send                       *)
  Flaky,      (* bound: the connections whose websocket may fail           *)
  Observed,   (* bound: the connections whose view of the room is recorded *)
  SendCap,    (* the capacity of a send channel (256 in the code)          *)
  MaxBatch,   (* bound: the messages of one websocket frame                *)
  None

ASSUME HubAssumption ==
  /\ UserOf \in [Clients -> Users]
  /\ RoomOf \in [Clients -> Rooms]
  /\ 0 \in Layers
  /\ Ops \subseteq {"plain", "clocked", "lock", "layer"}
  /\ Flaky \subseteq Clients
  /\ Observed \subseteq Clients
  /\ SendCap \in Nat /\ SendCap >= 2   (* HandleWS fills two places itself *)
  /\ MaxBatch \in Nat \ {0}
  /\ None \notin Clients \cup Users

VARIABLES
  hub,       (* H.rooms: the room object a room id maps to, or None        *)
  members,   (* Room.clients of each room object                           *)
  locks,     (* domLocks.buffer: the owner of a DOM object, or None        *)
  pc,        (* where each goroutine is                                    *)
  iter,      (* the Broadcast a goroutine is executing                     *)
  batch,     (* the messages of the frame the reader has yet to handle     *)
  resp,      (* whether read() has collected a response                    *)
  layer,     (* Client.layer                                               *)
  conn,      (* the websocket                                              *)
  queued,    (* the number of messages in the send channel                 *)
  closed,    (* whether the send channel is closed                         *)
  once,      (* closeOnce, and whether its function is past Leave's delete *)
  roster,    (* the observed ones listed in a connection's first message   *)
  told       (* the client-join and client-leave queued to an observed one *)

rooms == <<hub, members, locks>>
frame == <<batch, resp, layer>>
chan  == <<conn, queued, closed, once>>
known == <<roster, told>>
vars  == <<rooms, pc, iter, frame, chan, known>>

Threads == {"reader", "writer"}

(* A client-join or client-leave, and the connection it announces: the     *)
(* message names its user, who may have several.                           *)
Notices == {"join", "leave"} \X Clients

(* The labels of the code before Join, which only a reader runs.  While it *)
(* is there, "lookup", "range" and "send" belong to its client-join.       *)
Labels ==
  {"idle", "greet", "join", "read", "handle", "ack", "answer", "off", "write",
   "close", "unlock", "lookup", "range", "send", "closesend", "end"}

Scan(room, todo, at, why) ==
  [room |-> room, todo |-> todo, at |-> at, why |-> why]
NoScan == Scan(None, {}, None, "none")
Scans  == [room : Clients \cup {None}, todo : SUBSET Clients,
           at : Clients \cup {None}, why : {"none", "hello", "batch", "bye"}]

(* The hub maps a room id to one room object or to none, a send channel    *)
(* never holds more than its capacity, and a goroutine is at a label of    *)
(* its code (hub.go:16-32, client.go:15-28).                               *)
TypeOK ==
  /\ hub     \in [Rooms -> Clients \cup {None}]
  /\ members \in [Clients -> SUBSET Clients]
  /\ locks   \in [Doms -> Users \cup {None}]
  /\ pc      \in [Clients -> [Threads -> Labels]]
  /\ iter    \in [Clients -> [Threads -> Scans]]
  /\ batch   \in [Clients -> 0..MaxBatch]
  /\ resp    \in [Clients -> BOOLEAN]
  /\ layer   \in [Clients -> Layers]
  /\ conn    \in [Clients -> {"none", "open", "down"}]
  /\ queued  \in [Clients -> 0..SendCap]
  /\ closed  \in [Clients -> BOOLEAN]
  /\ once    \in [Clients -> {"new", "left", "done"}]
  /\ roster  \in [Clients -> SUBSET Clients]
  /\ told    \in [Clients -> SUBSET Notices]

Init ==
  /\ hub     = [r \in Rooms |-> None]
  /\ members = [o \in Clients |-> {}]
  /\ locks   = [d \in Doms |-> None]
  /\ pc      = [c \in Clients |-> [g \in Threads |->
                  IF g = "reader" THEN "idle" ELSE "off"]]
  /\ iter    = [c \in Clients |-> [g \in Threads |-> NoScan]]
  /\ batch   = [c \in Clients |-> 0]
  /\ resp    = [c \in Clients |-> FALSE]
  /\ layer   = [c \in Clients |-> 0]
  /\ conn    = [c \in Clients |-> "none"]
  /\ queued  = [c \in Clients |-> 0]
  /\ closed  = [c \in Clients |-> FALSE]
  /\ once    = [c \in Clients |-> "new"]
  /\ roster  = [c \in Clients |-> {}]
  /\ told    = [c \in Clients |-> {}]

Goto(c, g, label) == pc' = [pc EXCEPT ![c][g] = label]

----------------------------------------------------------------------------
(* HandleWS, up to the call of read().                                     *)

(* The members GetClients copies under the mutex. *)
Present(r) == IF hub[r] = None THEN {} ELSE members[hub[r]]

(* The token and the membership are accepted and the request is upgraded.  *)
Connect(c) ==
  /\ pc[c]["reader"] = "idle"
  /\ conn' = [conn EXCEPT ![c] = "open"]
  /\ Goto(c, "reader", "greet")
  /\ UNCHANGED <<rooms, iter, frame, queued, closed, once, known>>

(* GetClients and the client-join list of those already in the room, then  *)
(* GetReplay and its messages: nobody else sees this channel yet, and the  *)
(* tables GetReplay reads are not part of this module.  When it succeeds   *)
(* H.Broadcast of the new client-join begins.                              *)
Greet(c) ==
  /\ pc[c]["reader"] = "greet"
  /\ roster' = [roster EXCEPT ![c] = Present(RoomOf[c]) \cap Observed]
  /\ queued' = [queued EXCEPT ![c] = IF Present(RoomOf[c]) = {} THEN 1 ELSE 2]
  /\ iter' = [iter EXCEPT ![c]["reader"] = Scan(None, {}, None, "hello")]
  /\ Goto(c, "reader", "lookup")
  /\ UNCHANGED <<rooms, frame, conn, closed, once, told>>

(* GetReplay fails: HandleWS returns, and nothing closes the websocket. *)
GreetFails(c) ==
  /\ pc[c]["reader"] = "greet"
  /\ Goto(c, "reader", "end")
  /\ UNCHANGED <<rooms, iter, frame, chan, known>>

(* H.Join, then "go client.write()". *)
Join(c) ==
  /\ pc[c]["reader"] = "join"
  /\ LET r == RoomOf[c]
         o == IF hub[r] = None THEN c ELSE hub[r]
     IN  /\ hub' = [hub EXCEPT ![r] = o]
         /\ members' = [members EXCEPT ![o] = @ \cup {c}]
  /\ pc' = [pc EXCEPT ![c]["reader"] = "read", ![c]["writer"] = "write"]
  /\ UNCHANGED <<locks, iter, frame, chan, known>>

----------------------------------------------------------------------------
(* read(): one websocket frame is a batch of messages.  The batch and its  *)
(* responses are local to one turn of the loop.                            *)

ReadBatch(c) ==
  /\ pc[c]["reader"] = "read"
  /\ conn[c] = "open"
  /\ Ops # {}
  /\ \E n \in 1..MaxBatch : batch' = [batch EXCEPT ![c] = n]
  /\ Goto(c, "reader", "handle")
  /\ UNCHANGED <<rooms, iter, resp, layer, chan, known>>

ReadError(c) ==
  /\ pc[c]["reader"] = "read"
  /\ conn[c] = "down"
  /\ Goto(c, "reader", "close")
  /\ UNCHANGED <<rooms, iter, frame, chan, known>>

(* One call of handleMsg for a message of kind op. *)
Handling(c, op) ==
  /\ pc[c]["reader"] = "handle"
  /\ batch[c] > 0
  /\ op \in Ops
  /\ batch' = [batch EXCEPT ![c] = @ - 1]

(* The turn is over: the batch and its responses are dropped. *)
EndTurn(c) ==
  /\ batch' = [batch EXCEPT ![c] = 0]
  /\ resp' = [resp EXCEPT ![c] = FALSE]

Respond(c) == resp' = [resp EXCEPT ![c] = TRUE]

(* Messages without an effect on the hub; an unknown one has no response. *)
HandlePlain(c) ==
  /\ Handling(c, "plain")
  /\ Respond(c) \/ UNCHANGED resp
  /\ UNCHANGED <<rooms, pc, iter, layer, chan, known>>

(* Messages that take an event id: NextClock reads H.rooms without the     *)
(* mutex and dereferences the room it finds.                               *)
HandleClocked(c) ==
  /\ Handling(c, "clocked")
  /\ hub[RoomOf[c]] # None
  /\ Respond(c)
  /\ UNCHANGED <<rooms, pc, iter, layer, chan, known>>

(* The room is gone: the nil dereference panics, the deferred close runs   *)
(* and net/http recovers the panic.                                        *)
HandleClockedPanic(c) ==
  /\ pc[c]["reader"] = "handle"
  /\ batch[c] > 0
  /\ "clocked" \in Ops
  /\ hub[RoomOf[c]] = None
  /\ EndTurn(c)
  /\ Goto(c, "reader", "close")
  /\ UNCHANGED <<rooms, iter, layer, chan, known>>

(* dom-lock grants or refreshes the lock unless another user has it; the   *)
(* denial, too, is a (blank) response.                                     *)
HandleLock(c, d) ==
  /\ Handling(c, "lock")
  /\ locks' = [locks EXCEPT ![d] = IF @ = None THEN UserOf[c] ELSE @]
  /\ Respond(c)
  /\ UNCHANGED <<hub, members, pc, iter, layer, chan, known>>

(* dom-unlock. *)
HandleUnlock(c, d) ==
  /\ Handling(c, "lock")
  /\ locks' = [locks EXCEPT ![d] = IF @ = UserOf[c] THEN None ELSE @]
  /\ Respond(c)
  /\ UNCHANGED <<hub, members, pc, iter, layer, chan, known>>

(* change-layer has no response for the room.  It moves the connection and *)
(* sends itself an acknowledgement and a replay, or a denial, or fails.    *)
HandleLayer(c) ==
  /\ Handling(c, "layer")
  /\ \/ /\ \E l \in Layers : layer' = [layer EXCEPT ![c] = l]
        /\ Goto(c, "reader", "ack")
     \/ Goto(c, "reader", "answer") /\ UNCHANGED layer
     \/ UNCHANGED <<pc, layer>>
  /\ UNCHANGED <<rooms, iter, resp, chan, known>>

(* Whether a send to the channel of d can go through.  The mutant admits   *)
(* one message too many.                                                   *)
HasSpaceOffByOne(d) == queued[d] <= SendCap

HasSpace(d) == queued[d] < SendCap

(* The blocking sends of sendReplay and of a denial into its own channel. *)
SendOwn(c) ==
  /\ ~closed[c]
  /\ HasSpace(c)
  /\ queued' = [queued EXCEPT ![c] = @ + 1]

Ack(c) ==
  /\ pc[c]["reader"] = "ack"
  /\ SendOwn(c)
  /\ Goto(c, "reader", "answer") \/ Goto(c, "reader", "handle")
  /\ UNCHANGED <<rooms, iter, frame, conn, closed, once, known>>

Answer(c) ==
  /\ pc[c]["reader"] = "answer"
  /\ SendOwn(c)
  /\ Goto(c, "reader", "handle")
  /\ UNCHANGED <<rooms, iter, frame, conn, closed, once, known>>

(* Its writer has closed the channel meanwhile. *)
AnswerPanic(c) ==
  /\ pc[c]["reader"] \in {"ack", "answer"}
  /\ closed[c]
  /\ EndTurn(c)
  /\ Goto(c, "reader", "close")
  /\ UNCHANGED <<rooms, iter, layer, chan, known>>

(* The batch is handled: its responses, if any, go to the room. *)
EndBatch(c) ==
  /\ pc[c]["reader"] = "handle"
  /\ batch[c] = 0
  /\ \/ /\ resp[c]
        /\ iter' = [iter EXCEPT ![c]["reader"] = Scan(None, {}, None, "batch")]
        /\ Goto(c, "reader", "lookup")
     \/ /\ ~resp[c]
        /\ Goto(c, "reader", "read")
        /\ UNCHANGED iter
  /\ EndTurn(c)
  /\ UNCHANGED <<rooms, layer, chan, known>>

----------------------------------------------------------------------------
(* Broadcast, called by goroutine g of c.                                  *)

(* Where the goroutine goes on when its Broadcast returns. *)
After(why) ==
  IF why = "hello" THEN "join"
  ELSE IF why = "batch" THEN "read" ELSE "closesend"

Return(c, g) ==
  /\ iter' = [iter EXCEPT ![c][g] = NoScan]
  /\ Goto(c, g, After(iter[c][g].why))

Sender(c, g) == IF iter[c][g].why = "batch" THEN {c} ELSE {}

(* The connections of the room that are still on their way to Join. *)
Coming(r) ==
  {d \in Clients : RoomOf[d] = r /\ pc[d]["writer"] = "off"}

(* The room is looked up under the mutex; what follows runs without it.  A *)
(* member added while the loop runs may or may not be produced by it.  A   *)
(* batch is not for its sender.                                            *)
Lookup(c, g) ==
  /\ pc[c][g] = "lookup"
  /\ LET o == hub[RoomOf[c]]
     IN  \/ o = None /\ Return(c, g)
         \/ /\ o # None
            /\ \E late \in SUBSET Coming(RoomOf[c]) :
                 iter' = [iter EXCEPT ![c][g] =
                   Scan(o, (members[o] \cup late) \ Sender(c, g), None, @.why)]
            /\ Goto(c, g, "range")
  /\ UNCHANGED <<rooms, frame, chan, known>>

Range(c, g) ==
  /\ pc[c][g] = "range"
  /\ LET rest == iter[c][g].todo \cap members[iter[c][g].room]
     IN  \/ rest = {} /\ Return(c, g)
         \/ \E d \in rest :
              /\ iter' = [iter EXCEPT ![c][g] =
                           Scan(@.room, @.todo \ {d}, d, @.why)]
              /\ Goto(c, g, "send")
  /\ UNCHANGED <<rooms, frame, chan, known>>

(* A batch goes to the members of the sender's layer, a client-join or a   *)
(* client-leave to every member.                                           *)
Wanted(c, g) ==
  iter[c][g].why = "batch" => layer[iter[c][g].at] = layer[c]

Notice(c, g) ==
  {n \in Notices : /\ iter[c][g].at \in Observed
                   /\ n[2] = c
                   /\ \/ n[1] = "join" /\ iter[c][g].why = "hello"
                      \/ n[1] = "leave" /\ iter[c][g].why = "bye"}

Skip(c, g) ==
  /\ pc[c][g] = "send"
  /\ ~Wanted(c, g)
  /\ Goto(c, g, "range")
  /\ UNCHANGED <<rooms, iter, frame, chan, known>>

Deliver(c, g) ==
  /\ pc[c][g] = "send"
  /\ Wanted(c, g)
  /\ LET d == iter[c][g].at
     IN  /\ ~closed[d]
         /\ HasSpace(d)
         /\ queued' = [queued EXCEPT ![d] = @ + 1]
         /\ told' = [told EXCEPT ![d] = @ \cup Notice(c, g)]
  /\ Goto(c, g, "range")
  /\ UNCHANGED <<rooms, iter, frame, conn, closed, once, roster>>

(* The channel is full: the member is deleted, without the mutex, and its  *)
(* connection is left open.  The mutant returns where the code continues.  *)
EvictReturns(c, g) ==
  /\ pc[c][g] = "send"
  /\ Wanted(c, g)
  /\ LET d == iter[c][g].at
     IN  /\ ~closed[d]
         /\ ~HasSpace(d)
         /\ members' = [members EXCEPT ![iter[c][g].room] = @ \ {d}]
  /\ Return(c, g)
  /\ UNCHANGED <<hub, locks, frame, chan, known>>

Evict(c, g) ==
  /\ pc[c][g] = "send"
  /\ Wanted(c, g)
  /\ LET d == iter[c][g].at
     IN  /\ ~closed[d]
         /\ ~HasSpace(d)
         /\ members' = [members EXCEPT ![iter[c][g].room] = @ \ {d}]
  /\ Goto(c, g, "range")
  /\ UNCHANGED <<hub, locks, iter, frame, chan, known>>

(* The member has closed its channel since the loop produced it. *)
OnClosed(c, g) ==
  /\ pc[c][g] = "send"
  /\ Wanted(c, g)
  /\ closed[iter[c][g].at]

(* In a reader the panic unwinds HandleWS, which ends with no close; or    *)
(* read(), whose deferred close runs; or close() itself, whose Once is     *)
(* spent though the channel and the websocket stay open.                   *)
SendPanic(c) ==
  /\ OnClosed(c, "reader")
  /\ iter' = [iter EXCEPT ![c]["reader"] = NoScan]
  /\ LET why == iter[c]["reader"].why
     IN  /\ Goto(c, "reader", IF why = "batch" THEN "close" ELSE "end")
         /\ once' = [once EXCEPT ![c] = IF why = "bye" THEN "done" ELSE @]
  /\ UNCHANGED <<rooms, frame, conn, queued, closed, known>>

----------------------------------------------------------------------------
(* close() and Leave, run by whichever goroutine of c is first.            *)

(* Once's function has been run; a second caller waits until then. *)
CloseAgain(c, g) ==
  /\ pc[c][g] = "close"
  /\ once[c] = "done"
  /\ Goto(c, g, "end")
  /\ UNCHANGED <<rooms, iter, frame, chan, known>>

(* Those left in the room when c is deleted from it, and whether that is   *)
(* nobody.  The mutants forget the delete, count one too few, and look at  *)
(* the room before the delete.                                             *)
RemainingAll(c) == Present(RoomOf[c])

Remaining(c) == Present(RoomOf[c]) \ {c}

EmptiedByOne(c) == Cardinality(Remaining(c)) <= 1

EmptiedBefore(c) == Present(RoomOf[c]) = {}

Emptied(c) == Remaining(c) = {}

(* closeOnce begins with Leave's first critical section.  The room it      *)
(* empties is removed, and then Leave returns at once.                     *)
Leave(c, g) ==
  /\ pc[c][g] = "close"
  /\ once[c] = "new"
  /\ LET r == RoomOf[c]
     IN  /\ hub' = [hub EXCEPT ![r] = IF Emptied(c) THEN None ELSE @]
         /\ members' = [o \in Clients |->
                          IF o = hub[r] THEN Remaining(c) ELSE members[o]]
  /\ Goto(c, g, IF Emptied(c) THEN "closesend" ELSE "unlock")
  /\ once' = [once EXCEPT ![c] = "left"]
  /\ UNCHANGED <<locks, iter, frame, conn, queued, closed, known>>

(* The user's DOM locks are released; the Broadcast that follows carries   *)
(* their dom-unlock messages and the client-leave.  The mutant broadcasts  *)
(* only if there were locks.                                               *)
UnlockSilently(c, g) ==
  /\ pc[c][g] = "unlock"
  /\ locks' = [d \in Doms |-> IF locks[d] = UserOf[c] THEN None ELSE locks[d]]
  /\ IF \E d \in Doms : locks[d] = UserOf[c]
     THEN /\ iter' = [iter EXCEPT ![c][g] = Scan(None, {}, None, "bye")]
          /\ Goto(c, g, "lookup")
     ELSE UNCHANGED iter /\ Goto(c, g, "closesend")
  /\ UNCHANGED <<hub, members, frame, chan, known>>

Unlock(c, g) ==
  /\ pc[c][g] = "unlock"
  /\ locks' = [d \in Doms |-> IF locks[d] = UserOf[c] THEN None ELSE locks[d]]
  /\ iter' = [iter EXCEPT ![c][g] = Scan(None, {}, None, "bye")]
  /\ Goto(c, g, "lookup")
  /\ UNCHANGED <<hub, members, frame, chan, known>>

(* close(c.send) and conn.Close(); Once's function returns.  What the      *)
(* connection was told is of no interest any more.                         *)
CloseSend(c, g) ==
  /\ pc[c][g] = "closesend"
  /\ closed' = [closed EXCEPT ![c] = TRUE]
  /\ conn' = [conn EXCEPT ![c] = "down"]
  /\ once' = [once EXCEPT ![c] = "done"]
  /\ roster' = [roster EXCEPT ![c] = {}]
  /\ told' = [told EXCEPT ![c] = {}]
  /\ Goto(c, g, "end")
  /\ UNCHANGED <<rooms, iter, frame, queued>>

----------------------------------------------------------------------------
(* write().                                                                *)

Write(c) ==
  /\ pc[c]["writer"] = "write"
  /\ queued[c] > 0
  /\ queued' = [queued EXCEPT ![c] = @ - 1]
  /\ IF conn[c] = "open" THEN UNCHANGED pc ELSE Goto(c, "writer", "close")
  /\ UNCHANGED <<rooms, iter, frame, conn, closed, once, known>>

(* The channel is closed and drained, or the ping of the ticker fails. *)
WriteEnds(c) ==
  /\ pc[c]["writer"] = "write"
  /\ \/ closed[c] /\ queued[c] = 0
     \/ conn[c] = "down"
  /\ Goto(c, "writer", "close")
  /\ UNCHANGED <<rooms, iter, frame, chan, known>>

----------------------------------------------------------------------------
(* The environment and the ways the process can die.                       *)

ConnFail(c) ==
  /\ c \in Flaky
  /\ conn[c] = "open"
  /\ conn' = [conn EXCEPT ![c] = "down"]
  /\ UNCHANGED <<rooms, pc, iter, frame, queued, closed, once, known>>

(* The process ends and is started again with nothing in memory. *)
Crash ==
  /\ hub'     = [r \in Rooms |-> None]
  /\ members' = [o \in Clients |-> {}]
  /\ locks'   = [d \in Doms |-> None]
  /\ pc'      = [c \in Clients |-> [g \in Threads |->
                   IF g = "reader" THEN "idle" ELSE "off"]]
  /\ iter'    = [c \in Clients |-> [g \in Threads |-> NoScan]]
  /\ batch'   = [c \in Clients |-> 0]
  /\ resp'    = [c \in Clients |-> FALSE]
  /\ layer'   = [c \in Clients |-> 0]
  /\ conn'    = [c \in Clients |-> "none"]
  /\ queued'  = [c \in Clients |-> 0]
  /\ closed'  = [c \in Clients |-> FALSE]
  /\ once'    = [c \in Clients |-> "new"]
  /\ roster'  = [c \in Clients |-> {}]
  /\ told'    = [c \in Clients |-> {}]

(* A panic in write() is recovered by nobody. *)
WriterPanic(c) == OnClosed(c, "writer") /\ Crash

(* The room whose members goroutine g of c is about to write with the mutex *)
(* (Join, Leave) or without it (Broadcast), and the one it ranges over     *)
(* without it (Broadcast) or with it (GetClients).                         *)
WritesLocked(c, g) ==
  IF pc[c][g] = "join" \/ (pc[c][g] = "close" /\ once[c] = "new")
  THEN {hub[RoomOf[c]]} \ {None} ELSE {}

WritesUnlocked(c, g) ==
  IF pc[c][g] = "send" /\ Wanted(c, g) /\ queued[iter[c][g].at] = SendCap
  THEN {iter[c][g].room} ELSE {}

Ranges(c, g) == IF pc[c][g] = "range" THEN {iter[c][g].room} ELSE {}

RangesLocked(c, g) ==
  IF pc[c][g] = "greet" THEN {hub[RoomOf[c]]} \ {None} ELSE {}

(* The Go runtime ends the process when it sees a map written by one       *)
(* goroutine while another ranges over, reads or writes it.                *)
MembersRace ==
  \E c, d \in Clients, g, h \in Threads :
    /\ pc[c][g] \in {"greet", "join", "close", "send"}
    /\ <<c, g>> # <<d, h>>
    /\ \/ (WritesLocked(c, g) \cup WritesUnlocked(c, g))
            \cap (WritesUnlocked(d, h) \cup Ranges(d, h)) # {}
       \/ RangesLocked(c, g) \cap WritesUnlocked(d, h) # {}

RoomsRace ==
  \E c, d \in Clients, g \in Threads :
    /\ pc[c]["reader"] = "handle" /\ batch[c] > 0 /\ "clocked" \in Ops
    /\ <<d, g>> # <<c, "reader">>
    /\ \/ pc[d][g] = "join" /\ hub[RoomOf[d]] = None
       \/ /\ pc[d][g] = "close" /\ once[d] = "new"
          /\ hub[RoomOf[d]] # None /\ Emptied(d)

MapRace == (MembersRace \/ RoomsRace) /\ Crash

----------------------------------------------------------------------------

(* Steps a goroutine takes without waiting for its peer. *)
ReaderStep(c) ==
  \/ Greet(c) \/ GreetFails(c) \/ Join(c) \/ ReadError(c)
  \/ HandlePlain(c) \/ HandleClocked(c) \/ HandleClockedPanic(c)
  \/ \E d \in Doms : HandleLock(c, d) \/ HandleUnlock(c, d)
  \/ HandleLayer(c) \/ Ack(c) \/ Answer(c) \/ AnswerPanic(c) \/ EndBatch(c)
  \/ SendPanic(c)

WriterStep(c) == Write(c) \/ WriteEnds(c) \/ WriterPanic(c)

SharedStep(c, g) ==
  \/ Lookup(c, g) \/ Range(c, g) \/ Skip(c, g) \/ Deliver(c, g) \/ Evict(c, g)
  \/ CloseAgain(c, g) \/ Leave(c, g) \/ Unlock(c, g) \/ CloseSend(c, g)

(* Every goroutine has ended, or waits for a peer that has gone silent. *)
Ended ==
  /\ \A c \in Clients :
       \/ /\ pc[c]["reader"] = "end"
          /\ pc[c]["writer"] \in {"off", "end"}
       \/ /\ c \notin Flaky /\ conn[c] = "open" /\ queued[c] = 0
          /\ pc[c]["reader"] \in {"read", "end"}
  /\ UNCHANGED vars

Next ==
  \/ \E c \in Clients :
       \/ Connect(c) \/ ReadBatch(c) \/ ConnFail(c)
       \/ ReaderStep(c) \/ WriterStep(c)
       \/ \E g \in Threads : SharedStep(c, g)
  \/ MapRace
  \/ Ended

Spec == Init /\ [][Next]_vars

(* The Go scheduler starves no goroutine that can run. *)
Fairness ==
  \A c \in Clients :
    /\ WF_vars(ReaderStep(c) \/ SharedStep(c, "reader"))
    /\ WF_vars(WriterStep(c) \/ SharedStep(c, "writer"))

FairSpec == Spec /\ Fairness

----------------------------------------------------------------------------
(* Properties.                                                             *)

Joined(c) == pc[c]["writer"] # "off"
HasLeft(c) == once[c] \in {"left", "done"}
InRoom(c) == \E o \in Clients : c \in members[o]

(* A member is a member of the room object its room id maps to: Leave never *)
(* removes a room object somebody is still in (hub.go:64-68), so nobody is  *)
(* left in a room that a Broadcast can no longer find.                      *)
NoStrandedMember ==
  \A o, c \in Clients :
    c \in members[o] => hub[RoomOf[o]] = o /\ RoomOf[c] = RoomOf[o]

(* A connection is out of every room before its send channel is closed     *)
(* (client.go:95-96), whichever goroutine closes it and whatever the room  *)
(* became meanwhile: no new range loop can produce a closed channel.       *)
ClosedNotMember ==
  \A c \in Clients : closed[c] => ~InRoom(c)

(* A room nobody is in, because Broadcast evicted its members, is not      *)
(* leaked: some connection of that room has still to run Leave, which will *)
(* remove it (hub.go:64-68 with hub.go:131,141).                           *)
EmptyRoomHasLeaver ==
  \A r \in Rooms :
    hub[r] # None /\ members[hub[r]] = {} =>
      \E c \in Clients : RoomOf[c] = r /\ Joined(c) /\ ~HasLeft(c)

(* Where a connection stands towards its room. *)
Standing(c) ==
  IF InRoom(c) THEN "member"
  ELSE IF HasLeft(c) THEN "left" ELSE IF Joined(c) THEN "evicted" ELSE "out"

Room == INSTANCE Membership WITH
  Sessions <- Clients,
  mode     <- [c \in Clients |-> Standing(c)],
  open     <- {r \in Rooms : hub[r] # None}

(* The map of rooms and the members of its room objects, with Broadcast    *)
(* evicting from an object it found earlier, are what the clock of a room  *)
(* and a replay take them for: a connection joins once and leaves once, an *)
(* eviction closes no room, and a room is removed by the Leave that finds  *)
(* no member but the leaver, and by no other step (hub.go:34-69, 131 and   *)
(* 141).                                                                   *)
ImplementsMembership == Room!Spec

(* Presence, from the side of those already in the room: a connection that *)
(* was on the list HandleWS sent to a newcomer, and is still a member when *)
(* the newcomer has joined, has been sent its client-join                  *)
(* (handler.go:69-94 and 109-130).                                         *)
ListedAreTold ==
  \A c, d \in Clients :
    c \in roster[d] /\ InRoom(c) /\ Joined(d)
      => <<"join", d>> \in told[c]

(* A connection that was closed in full has been announced: whoever was    *)
(* told of its arrival and is still in the room was told of its leaving    *)
(* before its channel was closed, whatever happened to the other members   *)
(* while Leave's Broadcast ran without the mutex (hub.go:104-110 with      *)
(* client.go:95-96).                                                       *)
LeaveIsAnnounced ==
  \A c, d \in Clients :
    InRoom(c) /\ <<"join", d>> \in told[c] /\ closed[d]
      => <<"leave", d>> \in told[c]

(* Leave releases the locks of the leaver and announces it ("Broadcast the *)
(* unlock events to the room", hub.go:85): a user all of whose connections *)
(* are closed holds no lock.                                               *)
NoLockOfTheDeparted ==
  \A d \in Doms :
    locks[d] # None =>
      \E c \in Clients : UserOf[c] = locks[d] /\ once[c] # "done"

(* A connection whose websocket has failed ends both its goroutines and is *)
(* out of its room, wherever they were: blocked on a full channel, inside  *)
(* a Broadcast, or waiting for each other in closeOnce.                    *)
FailedConnectionEnds ==
  \A c \in Clients :
    (conn[c] = "down") ~> (/\ pc[c]["reader"] \in {"end", "idle"}
                           /\ pc[c]["writer"] \in {"off", "end"}
                           /\ ~InRoom(c))
=============================================================================
