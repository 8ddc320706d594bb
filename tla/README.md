# TLA+ models of the whiteboard server

The server (`src/`, Go) lets browsers draw together: each holds one websocket,
joins one room, and sends strokes and changes of DOM objects (images, texts,
videos). The server relays every message to the other members of the room and
writes the durable ones to SQLite. This directory holds TLA+ modules translated
from that code, TLC configurations that model-check them, and TLAPS proofs.

## 1. The system

```
  browser ──ws──> reader goroutine ── handleMsg ──> Hub.Broadcast ──> send channels ──> writer goroutines ──ws──> browsers
                     │      │   │                       │
                     │      │   └ StrokeBuffer, domLocks (memory, own mutexes)
                     │      └ NextClock (room clock)    └ H.rooms, Room.clients
                     └ WriteEvent, WriteDom, JoinRoom, CreateLayer ──> opCh (10000) ──> writerLoop ──> SQLite
                                                                                          ^ read at once by the handlers
```

| Component | State | Operations | Properties that make it correct |
|---|---|---|---|
| Hub (`ws/hub.go`) | `H.rooms`, `Room.clients`, `Room.clock` | `Join`, `Leave`, `Broadcast`, `GetClients`, `NextClock` | a member is in the room its id maps to; an empty room goes away; everybody who stays is told of an arrival and a leaving |
| Connection (`ws/handler.go`, `ws/client.go`) | the websocket, the `send` channel (256), `closeOnce`, `layer` | `HandleWS`, `read`, `write`, `close` | no member with a closed channel; a failed connection ends both goroutines |
| DOM locks (`ws/hub.go`) | `domLocks` | `dom-lock`, `dom-unlock`, release in `Leave`, check in `dom-transform` | nobody edits what another has locked; who is gone holds no lock |
| Event log (`ws/hub.go`, `db/db.go`) | room clock, `StrokeBuffer`, `opCh`, table `events` | `stroke-start/-update/-end`, `StrokeTTLGC`, `WriteEvent`, `GetMaxIdByRoom`, the INSERT | ids are unique and ahead of the log; nothing is lost except where the code gives it up |
| DOM objects (`ws/hub.go`, `db/db.go`) | `opCh`, tables `events` and `dom_objects` | `dom-add`, `-transform`, `-payload`, `-remove`, `WriteDom`, `RemoveDom` | an object is created once, changed while it is there, removed for good, never ahead of its event |
| Room membership (`db/helper.go`, `db/db.go`, `api/handler.go`) | tables `rooms`, `users_rooms` | `EnsureUserInRoom`, `CreateRoom`, `JoinRoom`, `OwnerAddUser` | a membership has its room; a room is whole; who is connected is in a room that exists or will |
| Layers (`ws/hub.go`, `db/db.go`) | tables `layers`, `users_layers` | `change-layer`, `CheckCanUseLayer`, `GetLayerByUserId`, `CreateLayer` | nobody is on a private layer of another; a user has one; every `CreateLayer` is answered |
| Replay (`ws/handler.go`, `ws/hub.go`, `api/handler.go`) | none of its own | `GetReplay`, `sendReplay`, `/get-replay` | what a replay leaves out, live messages bring; of a stroke a peer is shown it misses nothing |
| HTTP API, authentication, sessions, codec, logging, load generators | tokens and URLs of external services | | not modelled, see section 7 |
| Process (`main.go`) | | start, graceful shutdown | ids and tables stay consistent over a restart |

What makes it hard: the room map has a mutex, but `Broadcast` releases it
before it ranges over (and deletes from) the members, and `NextClock` never
takes it; each connection has two goroutines that may both close it; a send may
find a channel full (eviction), closed (a panic, which net/http recovers in a
reader and which ends the process in a writer) or block; every table is read
directly but written by one goroutine behind a queue that drops jobs when it is
full; nothing is drained when the process ends. `PROJECT.json` lists these
hazards one by one, with the line where each bites and the property that
watches it.

## 2. Modules

| Module | Models | Instance for TLC | Theorems |
|---|---|---|---|
| `Hub` | hub, connections, presence, DOM locks as messages | `MCHub` | `HubProofs`, `PresenceProofs` |
| `EventLog` | clock, stroke buffer, queue, events table | `MCEventLog` | `EventLogProofs` |
| `Access` | membership and layers with the writer's transactions | `MCAccess` | `AccessProofs`, `LayerProofs` |
| `Replay` | what a replay holds against the live messages: layer changes and newcomers while strokes are drawn | `MCReplay` | `ReplayProofs` |
| `DomEdits` | DOM objects, the lock check, the two tables | `MCDomEdits` | `DomEditsProofs` |
| `DomStore` | abstract: what the tables promise of an object; `DomEdits` implements it | (through `DomEdits!Store`) | |
| `Journal` | abstract: what becomes of the events of a room; `EventLog` implements it | (through `EventLog!Kept`) | |
| `Membership` | abstract: who is in which room, and which rooms are there; `Hub` and `Replay` implement it | (through `Room` of each) | |
| `Largest` | a lemma: a finite set of numbers has a largest one, which three proofs need of `MAX(...)` | | (itself) |

The modules share no variables. Each takes from the others what its properties
depend on, and says so in its header: `EventLog` keeps of the hub which
sessions are members (a room, and with it the clock, goes with its last
member); `DomEdits` assumes rooms that stay occupied between restarts; `Hub`
takes the membership check as passed, which `Access` models; `Replay` keeps of
the hub who is a member on which layer, and of the event log where a stroke is
kept. Each models the queue `opCh` with the jobs that matter to it.

What two of them say of rooms is tied together by `Membership`: a session
joins once, which opens its room; it may be evicted, which closes nothing; it
leaves once, and the room is closed exactly when no other member is left. `Hub`,
with its mutex, its room objects and the Broadcasts that evict without the
mutex, implements it, and so does `Replay`. What is proved is that both go through
steps of `Membership` only. `EventLog` takes membership in this form as given: its
`Join`, `Evict` and `Leave` are those of `Membership` with a clock in place of an
open room (and the bound `KeepOccupied`), so a refinement would say nothing there.
That `Replay` leaves out nothing the hub may do is read off its guards: the members
in `Flaky` may leave at any moment, and it evicts by the Broadcasts it has, those
of strokes.

Messages are assumed well formed (a `dom-add` has its `DomObject`, and so on),
and payloads, colours, names, positions and time stamps are left out: no
property here depends on them. The program does not check the `roomId` of a
message; it uses the connection's.

### 2.1 `Hub`

A connection `c` is one `*Client`. `pc[c]["reader"]` walks through `HandleWS`
and `read`, `pc[c]["writer"]` through `write`. One action is one critical
section, or the code between two steps another goroutine can observe:

| Actions | Code |
|---|---|
| `Connect`, `Greet`, `GreetFails`, `Join` | `HandleWS` and `Hub.Join` |
| `ReadBatch`, `ReadError`, `HandlePlain`, `HandleClocked`, `HandleLock`, `HandleUnlock`, `HandleLayer`, `EndBatch` | `read` and the operations of `handleMsg` by what they do to the hub |
| `SendOwn`, `Ack`, `Answer` | the plain sends on the connection's own channel, which block |
| `Lookup`, `Range`, `Skip`, `Deliver`, `Evict`, `SendPanic` | `Broadcast`: the mutex around the lookup, each range step, and each send with its three outcomes |
| `CloseAgain`, `Leave`, `Unlock`, `CloseSend` | `close` inside `closeOnce`, with `Hub.Leave` |
| `Write`, `WriteEnds`, `WriterPanic`, `ConnFail` | `write` and the websocket |
| `MapRace`, `Crash` | the fatal "concurrent map" check of the Go runtime, possible when one goroutine writes a map (`Join`, `Leave` and `Broadcast` the members of a room, the first two `H.rooms`) that another ranges over (`Broadcast`, `GetClients`), reads (`NextClock`) or writes without a common mutex; the process ends and starts empty |

A range over a map whose entries are deleted meanwhile may or may not produce
them: `Range` picks any member that is left. A member added during the range
may be produced or not. The `*Room` a `Broadcast` found is an object of its
own, named by the connection whose `Join` made it, so that a room that was
removed and made again is a different one.

### 2.2 `EventLog`

An event is its room and id. A handler takes an id (`Take`), carries the event
(`hand`), and puts it into `buffer` (a stroke that is being drawn) or into
`queue`; `Persist` moves the head of the queue into the table. `Age` ends a
stroke's TTL and `StrokeTTLGC` drops what has aged. `Join` of a room that is
not in the map starts the clock from the table. `Take` is the whole of
`NextClock`, its lookup of the room and the addition to the clock (section 7).

`ImplementsJournal` maps this onto `Journal`, which knows neither hands nor
buffers, queues, rooms that open and close, or clocks: `pending` is what is in
any of the three places, `log` is the table. `Journal` issues only ids beyond
all of the room, so an id that was given out twice, an event that is persisted
twice and one that comes back after it was given up are no steps of it.

### 2.3 `Access`

`pc[s]` walks through `EnsureUserInRoom` one query at a time; `call[s]` is its
caller (`HandleWS`, the greeting's replay, a layer change's replay, or
`/get-replay`), which decides what a refusal does. `CreateRoom` and
`CreateLayer` wait for room in the queue, `JoinRoom` drops its job. The writer
executes one job as one transaction (`RoomCreate`, `RoomEditUser`,
`LayerCreate`), all or nothing. The answer of `CreateLayer` is `reply[s]`.

### 2.4 `DomEdits` and `DomStore`

A numbered message takes an id (`NextClock`), queues its event (`WriteEvent`)
and then its change of the object (`WriteDom`, which also stands for
`RemoveDom`), after which the room is shown the message. `InsertEvent`, `InsertDom` and `UpdateDom` are the statements of
`writerLoop`. `DomStore` knows no queue: an event is logged or given up, and an
object is created, placed or removed in one step, only after the event.
`ImplementsStore` maps the tables onto it (`life` and `placed` from
`dom_objects`, `gone` from the history variable `lost`). Of the columns only
`room_id`, the position (as the change that set it) and `is_removed` are kept.

### 2.5 `Replay`

One room. A message of a stroke is the pair of the stroke and a number: 0 is
its `stroke-start`, then come its updates, and `End` is its `stroke-end`.
`phase[k]` says where the stroke is kept: in `StrokeBuffer` (`drawing`), taken
out by the collector (`dropped`) or by `stroke-end` (`ended`), in the table
(`saved`) or nowhere (`lost`). `pc[c]` walks through three pieces of code:

| Actions | Code |
|---|---|
| `Connect`, `ReadEvents`, `ReadBuffer`, `ReplayFails`, `Reply`, `Join`, `GreetingPanic` | `HandleWS` with `GetReplay`, up to `H.Join` |
| `ChangeLayer`, `Ack`, then `ReadEvents` to `Reply` again, `OwnSendPanic` | a granted `change-layer` with `sendReplay` (`Access` models which are granted) |
| `StrokeStart`, `StrokeUpdate`, `StrokeEnd`, `NextClockPanic` | the messages of a frame; `out[c]` collects them, `responses` in `read` |
| `Lookup`, `Skip`, `Pick`, `Deliver`, `Evict`, `SendPanic`, `Return` | the `Broadcast` at the end of the frame, which compares the current layers at each range step |
| `Leave`, `ReadEnds`, `StrokeTTLGC`, `Save`, `Crash` | either goroutine's `Leave`, the collector, the writer of the database, a restart |

`todo[c]` are the members a running `Broadcast` may still produce and `aim[c]`
the one it is about to send to; `Coming` are those that may join while it runs.
`given[d]` is a history variable: what was sent to `d` since the
`change-layer-accept` that empties its board. It is a set, so the model says
that a message was sent at least once, not how often or in which order: a
replay is encoded from the `Stroke` objects of the buffer after their lock was
released, and a point may be in it and in a live update. `status` tells the
property who has had a replay of which kind, and `moved` which strokes are out
of its scope: `Broadcast` filters by the layer its sender is on when the frame
ends, so a stroke whose artist changed layer meanwhile is sent to the wrong one.

`NothingMissed` is the promise to a member that changed layer and has its
replay: of every stroke that is being drawn on its layer, and of every stroke it
was shown, each message was sent to it or a running `Broadcast` still will. It
holds because the layer is stored before the replay reads anything: a message
handled before the read of the buffer is in the replay, a later one belongs to
a `Broadcast` that starts after the layer was stored. `JoinedMidDrawing` states
the same of newcomers, and fails (section 5). The model bounds `StrokeUpdate`
per stroke and the messages of a frame; artists are fixed, because a stroke id
is used for one stroke, as browsers do with random ids.

## 3. Runs

Every pass below is exhaustive within its bounds.

| Run | Properties | Shows |
|---|---|---|
| `hub_traffic` | `TypeOK`, `NoStrandedMember`, `ClosedNotMember`, `EmptyRoomHasLeaver`, `ImplementsMembership` | two connections and every kind of message: evictions, panics, map races and restarts never leave a member in an unreachable room or with a closed channel, nor an empty room without a connection that will remove it; refinement: all of it goes through the steps of `Membership`; no deadlock |
| `hub_presence` | `ListedAreTold`, `LeaveIsAnnounced` | three connections; whoever was listed to a newcomer is told of it, and a closed connection was announced to those who knew it |
| `hub_ending` | `FailedConnectionEnds` | liveness: a failed connection ends, also when its reader is blocked on its own full channel |
| `log_occupied` | `TypeOK`, `UniqueIds`, `ClockAhead`, `ImplementsJournal` | ids while rooms stay occupied: three sessions in two rooms, concurrent ends of one stroke, a full queue, restarts; refinement of `Journal` |
| `log_lossy` | `LostOnlyWhereGivenUp` | an action property: two strokes, one queue place, a room that empties, failing queries and INSERTs. What is lost with the process is allowed |
| `access_entry` | `TypeOK`, `AdmittedToARoom`, `OnlyOwnPrivateLayers`, `MembershipHasRoom` | two moderators that race for a room, a plain user, layers and restarts |
| `access_calls` | `RoomsAreWhole`, `CallsReturn` | failing statements and queries, roles given by the owner, a queue of one place; liveness of the calls |
| `dom_store` | `TypeOK`, `NoGhosts`, `ImplementsStore` | refinement: three sessions in two rooms, all messages on one object under any ids, a short queue, failing statements, a restart |
| `replay_switch` | `TypeOK`, `NothingMissed` | three connections: one draws, the others join, change layer, fail and leave; what a replay and the live messages leave out together |
| `hub_departed`, `log_emptied`, `replay_join` | one each | the disagreements of section 5; TLC gives the shortest trace |

### Bounds

- `SendCap = 2` (256): `HandleWS` itself puts up to two messages into a new
  channel, so 2 is the least that works; a full channel, an eviction and a
  blocked sender are reached at once.
- `MaxBatch = 1`: messages of a frame. The frames follow each other without
  bound; a batch matters only as the response that is broadcast at its end.
- `Flaky`: the connections whose websocket may fail: both in `hub_ending`,
  one in `hub_traffic` and `hub_presence`, where the others still end by
  panics and restarts. The theorems of `HubProofs` are for any set.
- `Observed`: the connections whose knowledge of the room (`roster`, `told`) is
  recorded; both name connections, of which a user may have several. No step
  depends on it; only the properties of `hub_presence` read it, so the other
  runs record nothing.
- `Ops`: the kinds of message sent. `hub_traffic` has all of them,
  `hub_ending` the one whose answer blocks.
- `MaxId` (`EventLog`), `QueueCap`: with two or three ids in a room and one or
  two queue places, two handlers and the writer overtake each other, ids are
  persisted out of order or lost, and the queue fills.
- `MaxEdits` (`DomEdits`), which also bounds the ids (they are never more than
  the changes sent, so the guard in `NextClock` stops nobody): three changes are an addition, a move and a removal
  in any order of any sessions, or two additions of one id and a removal.
- `KeepOccupied` (`EventLog`): the last member of a room leaves only when none
  of its events is under way. This is the condition under which `UniqueIds`
  holds; `log_emptied` drops it and shows the collision.
- `Known` (`DomEdits`): peers change an object they have been shown by a
  broadcast or a replay. Without it a removal may be queued before its
  `dom-add` and the object stays. For the same reason `NoGhosts` is about
  objects whose id was used for one `dom-add`, as browsers do with random ids;
  `ImplementsStore` is about all.
- `ReadFails`, `WriteFails`: whether a query or a statement may fail. The
  properties are stated under the failures they survive: `MembershipHasRoom`
  and `AdmittedToARoom` need a creation that does not fail, because the
  membership is a job of its own and the user is admitted before either is
  executed.
- `MaxPoint = 1`, `MaxBatch = 1` (`Replay`): a start, an update and an end of one
  stroke, each in a frame of its own, are three Broadcasts that may each fall
  anywhere between the steps of a replay. `Roams` and `Flaky` say who changes
  layer and who fails or leaves: the artist does not change layer in
  `replay_switch` (its strokes would leave the property) but may leave. The
  theorems of `ReplayProofs` are for any values of the four.
- `MaxLayer`, `Granted`, `MaxRestart`: the layers of a room, the roles an owner
  gives, the restarts. In all modules but `DomEdits` restarts are unbounded.

Symmetry is used over connections (and strokes, objects) that are
interchangeable in the configuration, and only in runs without liveness.
Every run ends within four minutes.

`Ended` in `Hub` and `Quiet` in `DomEdits` are the states in which nothing is
under way and the peers stay silent; every other state without a step would be
reported as a deadlock, in all runs.

## 4. Fairness

The Go scheduler starves no goroutine that can run, so the goroutines have weak
fairness: both of a connection (`Hub`), handlers once called, and the database
writer (`Access`). `EventLog`, `DomEdits` and `Replay` assume none. Peers have none: nobody has to connect, send, or fail. A send on a full
`opCh` has strong fairness (`Sending` in `Access`): a Go channel serves waiting
senders in their order, while the queue may be full and not full again and
again. No fairness is assumed of a websocket or of the process ending.

## 5. Where the code and its comments disagree

| Property | Code | In short |
|---|---|---|
| `NoLockOfTheDeparted` | `ws/hub.go:71` | the last to leave a room keeps its DOM locks |
| `UniqueIds` (rooms that empty) | `ws/hub.go:41` | the clock of a room restarts from a table that lags behind the queue and the buffer |
| `JoinedMidDrawing` | `ws/handler.go:96` | a newcomer's replay is read before it joins: a stroke that starts in between reaches it by neither way |

Other things met while modelling, which no run is spent on: `Leave`'s
`Broadcast`, "Send to everyone remaining" (`ws/hub.go:109`), ranges without the
mutex and may send on the channel of a member that closed it after the range
step; the panic spends `closeOnce`, a remaining member is not told, and the
leaver's channel and websocket stay open (`LeaveIsAnnounced` is about
connections that were closed in full); two tabs of one user that ask for the
private layer together each create one (`ws/hub.go:427`); two connections
that arrive together each list and broadcast before the other joins, and
neither is told of the other (`ws/handler.go:66-130`); `dom-transform` checks
the lock and releases `domLocks` before it queues the edit, and a lock may be
granted in between (`ws/hub.go:306`); the "Upsert" of `db/db.go:227` is a plain
INSERT, so a `dom-add` under an id that is in the table fails and is only
printed; the `DomEvent` of `dom-add` leaves `LayerIndex` out, so the row of an
object drawn on a private layer is on layer 0 (`ws/hub.go:262-273`).
Of replays: a stroke that was ended, or an object that was added, while its job
is still in `opCh` is in neither read of a replay, and whoever asks for one in
that window is not shown it (`ws/handler.go:151-193`; reading the buffer before
the events would narrow it, not close it); a peer that changes layer during a
stroke sends the rest to its new layer (`ws/hub.go:137`).
And without a claim to contradict: a denied `dom-lock` is broadcast
to everybody but the one who asked; the role `EnsureUserInRoom` returns to a
plain user is not the one it stores (no caller uses it); a role given by
add-user may be replaced by the membership of a user who enters meanwhile.

## 6. Proofs

`HubProofs` proves for every number of connections, rooms, users, layers,
objects and every channel capacity (from 2 on):

- `TypeCorrect`: `Spec => []TypeOK`;
- `InvCorrect`: `Spec => []Inv`, the inductive invariant;
- `ImplementsMembershipCorrect`: `Spec => Room!Spec`, the refinement;
- `NoStrandedMemberCorrect`, `ClosedNotMemberCorrect`,
  `EmptyRoomHasLeaverCorrect`: the three safety properties of membership.

`Inv` is `TypeOK /\ PhaseInv /\ RoomInv`. None of the three properties is
inductive by itself. That a room object in the map has somebody who will
remove it depends on who may still run `Leave`; that in turn depends on the
agreement of `closeOnce` with the place of both goroutines (`PhaseInv`: nothing
of `read`, `write` or `close` runs before `Join`, a `Broadcast` has a caller, and
who is past the deletion in `Leave`, or has closed the channel, has spent
`closeOnce`). `RoomInv` says that members of a room object have
joined and not left, that the object is the one their room id maps to, and that
an object in the map has such a connection. Steps that touch neither rooms nor
`once` go through `RoomQuiet`, those that only remove members through
`RoomFrame`; `Join` and `Leave` have lemmas of their own. A restart leads to the
initial state (`CrashInv`).

The refinement maps a connection to where it stands (`Standing`) and the map of
rooms to the open rooms. `RoomInv` makes it work: a `Broadcast` that evicts from
a room object it found earlier takes out a member only if that object is still
in the map, and otherwise takes no step of `Membership` (`EvictEvicts`); and what
`Leave` looks at, the members of the object in the map, are all the members of
the room (`LeaveLeaves`). `PhaseInv` says that who closes the channel, or panics
in the Broadcast of its own leaving, has left before (`CloseGoesOn`).

`PresenceProofs` proves, for the same values and any users of the connections:

- `ListedAreToldCorrect` and `LeaveIsAnnouncedCorrect`.

Its `PresenceInv` has six parts. `OneCloser`: one goroutine of a connection runs
`close`. `ReaderGreets`: only a reader announces an arrival. `ScanOK`: what a
running `Broadcast` has to do is in a room of its caller. `Known`: who was told of
an arrival or a leaving is told of a connection that greeted or closed.
`Listed` and `Announced` extend the two properties back over the Broadcast that
establishes them: a member that was on the list, or was told of the arrival,
has the notice or will be reached by the Broadcast that carries it. A member
evicted meanwhile is no member any more, and one that joined meanwhile is on no
list; that is why both properties are about members only.

`AccessProofs` proves for every number of sessions, users and rooms and every
capacity of the queue:

- `RoomsAreWholeCorrect`: a room is never without its owner's membership and
  its base layer, whatever fails (inductive with the types `Typed`);
- `MembershipHasRoomCorrect` and `AdmittedToARoomCorrect`, if the writer's
  statements do not fail: no membership is written ahead of its room, and
  whoever is connected is in a room that exists or whose creation is queued;
- `OnlyOwnPrivateLayersCorrect`, under the same condition: no connection is on
  a private layer of another user.

The invariant behind the second and third (`Inv` of `AccessProofs`) says where a room is
while it is not in the table. `TablesInv`: a role or a layer has its room.
`QueueInv`: a job that writes a role or a layer is queued behind its room.
`HandlerInv`: a handler past the creation, and every connection, has its room in
the table or in the queue. They need each other: the INSERT of a room fails when
one of its keys is taken, and only `TablesInv` tells that the room is there in
that case; it is kept only because layers are created by connections, which
`HandlerInv` is about. `SendQueue` and `ExecuteQueue` are the two lemmas on the
queue. `LInv` adds the layers. The indices of a room are distinct and bounded, and
a new one is above them all (`LayersInv`, `NextLayerIsNew`), so an index names one
layer for ever. A layer job is of the session that waits for it (`JobsInv`), so
the index of its answer names a layer of that session's user; a connection is
on such a layer, on a public one, or on 0, on which it starts unchecked
(`PlacesInv`). That layer 0 is the public one follows from `TablesInv` and
`RoomsAreWhole`: no layer is there before its room, and the room comes with it.

`LayerProofs` proves, under the same values of the constants and whatever fails:

- `TypeCorrect`: `Spec => []TypeOK` of `Access`. Beside the shapes of the tables
  (`Typed` and `LayerTypes` of `AccessProofs`) this says that the layers of a room
  stay within `MaxLayer` and the queue within its capacity, and that a handler is
  inside `EnsureUserInRoom` exactly while somebody has called it.

Its invariant `TInv` adds two parts. `Bounded`: the indices of a room's layers are
0, 1, ... without a gap, and beside them there is room for the base layer and
for each call that is on its way to the writer or queued; so the guard that
bounds the layers when a call begins (it counts those under way) is enough when
the writer executes it, many steps later. `Waiting`: only a session that waits
has an answer, and one that waits without an answer has at most one job in the
queue; without this a second answer could be written over the first.

The assumptions of these modules are those of the modules they are about
(`HubAssumption`, `AccessAssumption`), which TLC checks in every run. A part of
`AccessAssumption`, that `None` is no name of a caller, is there for the proofs.

`EventLogProofs` proves for every number of sessions, rooms and strokes and
every capacity of the queue:

- `TypeCorrect` and `LostOnlyWhereGivenUpCorrect`, whatever fails;
- `UniqueIdsCorrect` and `ClockAheadCorrect`, under `KeepOccupied` and with a
  query of the largest id that does not fail (INSERTs may). `log_emptied` shows
  that the first condition is needed;
- `ImplementsJournalCorrect`: `Spec => Kept!Spec`, under the same conditions.

`Inv` is `TypeOK /\ AheadInv /\ ApartInv`. `AheadInv` says that whatever is in a
hand, in the buffer or in the queue has its room in the map, with the clock not
behind it, and that a room that is in the map has its clock ahead of the table.
`ApartInv` says that no event is in two of these places. A new id is apart from
all others because of `AheadInv` (`TakeInv`); a room may be removed, and its clock
be read from the table later, because then nothing of it is under way
(`LeaveAhead`, `JoinAhead`). That the table has a largest id at all is
`HasLargest` (module `Largest`), from the well-foundedness of the natural numbers.
The refinement of `Journal` uses the same invariant: `AheadInv` gives `Issue` its
guard (`TakeIssues`), `ApartInv` lets `Persist` take from what is pending no more
than what it logs (`PersistLogs`), and every other step moves events between the
places or gives some up (`MovesOnly`, `GivesUp`).
`LostOnlyWhereGivenUp` needs no more than the types: `LossStep` follows an event
from place to place, step by step.

`ReplayProofs` proves for every number of connections, strokes and layers, any
artists, and any bounds on strokes and frames:

- `TypeCorrect`: `Spec => []TypeOK`;
- `NothingMissedCorrect`: `Spec => []NothingMissed`, by `InvCorrect`;
- `ImplementsMembershipCorrect`. TLC agrees with `ImplementsMembership` under the
  configuration of `replay_switch`, in four minutes; the run leaves it out.

`Inv` has five parts beside the types. `FrameInv`: a frame holds messages of its
sender's strokes only, and with a `stroke-start` all that was handled of the
stroke. `LayerInv`: a stroke that is unfinished or not yet broadcast is on the
layer its artist is on, unless it is in `moved`. `StatusInv`: a room with members
is in the map, and a replay is read by a newcomer or by a member that has changed
layer. `EventsInv`: what a replay found in the table is there in full and for
good. `CatchUpInv` extends `NothingMissed` back over the replay: while it reads,
what a stroke the member was shown lacks is on its way; once the buffer was read,
the same holds, of what was sent and read together, of every stroke being drawn;
and when it was sent this is `NothingMissed`. A stroke that was being drawn at
`ReadEvents` and is in the table before `ReadBuffer` is in neither read; it
may be, unless the member was shown some of it, and then the first of the three
clauses brings the rest. `Skip` keeps `CatchUpInv` only because of `LayerInv`,
which is what the mutant breaks.

`DomEditsProofs` proves for every number of sessions, rooms and objects, every
capacity of the queue and any restarts, with statements that may fail:

- `TypeCorrect`: `Spec => []TypeOK`;
- `ImplementsStoreCorrect`: `Spec => Store!Spec`, that is `ImplementsStore`;
- `NoGhostsCorrect`: `Spec => []NoGhosts`.

The refinement needs `EventFirst`: a numbered change that is queued, or about to
be, has its event in the log, given up, or ahead of it in the queue. So a change
that is executed has a settled event (`HeadSettled`), and `StoreStep` maps every
step to one of `DomStore` or to a stutter. `NoGhosts` needs four parts
(`ObjectInv`). `AddedInv`: whoever has heard of an object has it from a `dom-add`.
`OnceInv`: an id that was used for one `dom-add` is in one place, a hand, the
queue or the table. `RemovalInv`: a removal is sent from the room its object is
in, and is queued behind the `dom-add`. `EffectInv`: of a removal whose event is
queued or in the log, the object is removed or will never be there, or the
change is queued, in a hand past `WriteEvent`, or lost. `PushObject`, `PushAdd`,
`PopObject` and `PopAdd` are the lemmas on the queue. The assumption
(`DomEditsAssumption`) is that of the module; that `None` is no change and no row
is part of it.

Every invariant, action property and refinement that a passing run checks is
proved. `NoLockOfTheDeparted`, `JoinedMidDrawing` and, without `KeepOccupied`,
`UniqueIds` are refuted.
Out of the prover's reach and left to TLC: the liveness properties
`FailedConnectionEnds` and `CallsReturn` (fairness and `ENABLED`).

## 7. Not modelled

- Authentication (Google id tokens, the JWT cookie): stateless checks by
  libraries. The session store has no user in the program.
- The HTTP API except add-user: presigned URLs and single queries.
- The codec, logging, CORS, colours: no state and no order.
- The load generators (`BurnRoom`, `test/main.go`): test tools that broadcast
  strokes they never buffer.
- The objects and locks of a replay (one query, one map under its own mutex), and
  `/get-replay`, the same reads for somebody who is in no room.
- The registration of users: one upsert of a user's own row, which nothing else
  reads together with other state.
- A room that is removed between `NextClock`'s lookup of it and the addition to
  its clock (`ws/hub.go:22`): a connection that was evicted or is leaving
  would count on a clock that is no longer the room's, and may give out an id that
  the new room gives out too.
  It is the collision of `log_emptied` by another way, and `KeepOccupied` would have
  to exclude it as well.
- The panics themselves: a send on a closed channel (`ws/hub.go:122`) and a
  `NextClock` without a room (`ws/hub.go:22`) are steps of `Hub`, because the code
  takes them. No property forbids them; the properties are about the rooms and
  connections they leave behind.
- The statements of one transaction of the writer: `RoomCreate` is one step that
  writes all three rows or none. `RoomsAreWhole` is about the jobs, the keys that
  are taken and the restarts around it, not about a rollback that is forgotten.
- A restart is modelled as the process ending between any two steps. The
  graceful shutdown waits for no upgraded connection and drains no queue, so it
  adds no behaviour to that.

## 8. Plan

Done: `Hub` with `HubProofs` and `PresenceProofs`, `EventLog` with `EventLogProofs`,
`Access` with `AccessProofs` and `LayerProofs`, `DomEdits` with `DomStore` and
`DomEditsProofs`, `Replay` with `ReplayProofs`, and the abstract `Journal` and
`Membership` with their refinements. Nothing is left to model that has state and
order of its own but what section 7 names, and no invariant is left that only a
run supports. What may still be added, in this order:

1. `DomEdits`: the window between the check of a lock and the edit, stated as an
   action property of what remains true in spite of it.
2. `Replay`: what bounds the window in which an ended stroke is in neither read.
3. `EventLog`: the lookup and the addition of `NextClock` as two steps, with room
   objects as in `Hub`.
4. `Access`: an abstract specification of a room with its members and layers that
   the queued transactions implement.
