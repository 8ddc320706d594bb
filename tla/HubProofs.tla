----------------------------- MODULE HubProofs -----------------------------
(* Theorems about Hub, for every number of connections, rooms, users and   *)
(* messages.                                                               *)
EXTENDS Hub, TLAPS

USE DEF Threads, Goto, rooms, frame, chan, known

----------------------------------------------------------------------------
(* Type correctness.                                                       *)

(* A Broadcast made of a room object, the connections it may yet produce   *)
(* and the one it has just produced is a Broadcast.                        *)
LEMMA ScanType ==
  ASSUME NEW r \in Clients \cup {None}, NEW todo \in SUBSET Clients,
         NEW at \in Clients \cup {None},
         NEW why \in {"none", "hello", "batch", "bye"}
  PROVE  Scan(r, todo, at, why) \in Scans
  BY DEF Scan, Scans

(* The fields of a Broadcast have the types Scans gives them. *)
LEMMA ScanFields ==
  ASSUME NEW s \in Scans
  PROVE  /\ s.room \in Clients \cup {None}
         /\ s.todo \in SUBSET Clients
         /\ s.at \in Clients \cup {None}
         /\ s.why \in {"none", "hello", "batch", "bye"}
  BY DEF Scans

(* "No Broadcast" is of the type of a Broadcast. *)
LEMMA NoScanType == NoScan \in Scans
  BY ScanType DEF NoScan

(* The state after a restart is of the right type (main.go:25-60 builds it *)
(* from nothing).                                                          *)
LEMMA CrashType == Crash => TypeOK'
  BY HubAssumption, NoScanType DEF Crash, TypeOK, Labels

(* A message more in a channel with space, or one less in a channel with a *)
(* message, leaves the channel within its capacity.                        *)
LEMMA QueueType ==
  ASSUME TypeOK, NEW d,
         \/ HasSpace(d) /\ queued' = [queued EXCEPT ![d] = @ + 1]
         \/ queued[d] > 0 /\ queued' = [queued EXCEPT ![d] = @ - 1]
  PROVE  queued' \in [Clients -> 0..SendCap]
<1>1. CASE HasSpace(d) /\ queued' = [queued EXCEPT ![d] = @ + 1]
  <2>1. ASSUME NEW v \in Clients
        PROVE  (IF v = d THEN queued[v] + 1 ELSE queued[v]) \in 0..SendCap
    BY <1>1, HubAssumption DEF TypeOK, HasSpace
  <2>2. queued' = [v \in Clients |->
                     IF v = d THEN queued[v] + 1 ELSE queued[v]]
    BY <1>1 DEF TypeOK
  <2> QED BY <2>1, <2>2
<1>2. CASE queued[d] > 0 /\ queued' = [queued EXCEPT ![d] = @ - 1]
  <2>1. ASSUME NEW v \in Clients
        PROVE  (IF v = d THEN queued[v] - 1 ELSE queued[v]) \in 0..SendCap
    BY <1>2, HubAssumption DEF TypeOK
  <2>2. queued' = [v \in Clients |->
                     IF v = d THEN queued[v] - 1 ELSE queued[v]]
    BY <1>2 DEF TypeOK
  <2> QED BY <2>1, <2>2
<1> QED BY <1>1, <1>2

(* A goroutine that stays where it is or goes to a label is at a label. *)
LEMMA PcType ==
  ASSUME TypeOK, NEW c \in Clients, NEW g \in Threads,
         pc' = pc \/ \E l \in Labels : pc' = [pc EXCEPT ![c][g] = l]
  PROVE  pc' \in [Clients -> [Threads -> Labels]]
<1>1. CASE pc' = pc
  BY <1>1 DEF TypeOK
<1>2. ASSUME NEW l \in Labels, pc' = [pc EXCEPT ![c][g] = l]
      PROVE  pc' \in [Clients -> [Threads -> Labels]]
  BY <1>2 DEF TypeOK
<1> QED BY <1>1, <1>2

(* HandleWS keeps the types. *)
LEMMA HandleWSType ==
  ASSUME TypeOK, NEW c \in Clients,
         Connect(c) \/ Greet(c) \/ GreetFails(c) \/ Join(c)
  PROVE  TypeOK'
<1>1. CASE Connect(c)
  BY <1>1 DEF Connect, TypeOK, Labels
<1>2. CASE Greet(c)
  <2>0. Present(RoomOf[c]) \in SUBSET Clients
    BY HubAssumption DEF TypeOK, Present
  <2>1. roster' \in [Clients -> SUBSET Clients]
    BY <1>2, <2>0 DEF Greet, TypeOK
  <2>2. queued' \in [Clients -> 0..SendCap]
    BY <1>2, HubAssumption DEF Greet, TypeOK
  <2>3. Scan(None, {}, None, "hello") \in Scans
    BY ScanType
  <2>4. iter' \in [Clients -> [Threads -> Scans]]
    BY <1>2, <2>3 DEF Greet, TypeOK
  <2>5. pc' \in [Clients -> [Threads -> Labels]]
    BY <1>2 DEF Greet, TypeOK, Labels
  <2> QED BY <1>2, <2>1, <2>2, <2>4, <2>5 DEF Greet, TypeOK
<1>3. CASE GreetFails(c)
  BY <1>3 DEF GreetFails, TypeOK, Labels
<1>4. CASE Join(c)
  <2> DEFINE o == IF hub[RoomOf[c]] = None THEN c ELSE hub[RoomOf[c]]
  <2>0. RoomOf[c] \in Rooms /\ o \in Clients
    BY HubAssumption DEF TypeOK
  <2>1. hub' \in [Rooms -> Clients \cup {None}]
    BY <1>4, <2>0 DEF Join, TypeOK
  <2>2. members' \in [Clients -> SUBSET Clients]
    BY <1>4, <2>0 DEF Join, TypeOK
  <2>3. pc' \in [Clients -> [Threads -> Labels]]
    BY <1>4 DEF Join, TypeOK, Labels
  <2> QED BY <1>4, <2>1, <2>2, <2>3 DEF Join, TypeOK
<1> QED BY <1>1, <1>2, <1>3, <1>4

(* read() and handleMsg keep the types. *)
LEMMA ReadType ==
  ASSUME TypeOK, NEW c \in Clients,
         \/ ReadBatch(c) \/ ReadError(c)
         \/ HandlePlain(c) \/ HandleClocked(c) \/ HandleClockedPanic(c)
         \/ \E d \in Doms : HandleLock(c, d) \/ HandleUnlock(c, d)
         \/ HandleLayer(c)
         \/ Ack(c) \/ Answer(c) \/ AnswerPanic(c) \/ EndBatch(c)
  PROVE  TypeOK'
<1> USE HubAssumption DEF TypeOK, Labels
<1>1. CASE ReadBatch(c)
  BY <1>1 DEF ReadBatch
<1>2. CASE ReadError(c)
  BY <1>2 DEF ReadError
<1>3. CASE HandlePlain(c)
  <2>1. batch' \in [Clients -> 0..MaxBatch]
    BY <1>3 DEF HandlePlain, Handling
  <2>2. resp' \in [Clients -> BOOLEAN]
    BY <1>3 DEF HandlePlain, Respond
  <2> QED BY <1>3, <2>1, <2>2 DEF HandlePlain
<1>4. CASE HandleClocked(c)
  BY <1>4 DEF HandleClocked, Handling, Respond
<1>5. CASE HandleClockedPanic(c)
  BY <1>5 DEF HandleClockedPanic, EndTurn
<1>6. ASSUME NEW d \in Doms, HandleLock(c, d) PROVE TypeOK'
  BY <1>6 DEF HandleLock, Handling, Respond
<1>7. ASSUME NEW d \in Doms, HandleUnlock(c, d) PROVE TypeOK'
  BY <1>7 DEF HandleUnlock, Handling, Respond
<1>8. CASE HandleLayer(c)
  <2>1. batch' \in [Clients -> 0..MaxBatch]
    BY <1>8 DEF HandleLayer, Handling
  <2>2. layer' \in [Clients -> Layers]
    <3>1. ASSUME NEW l \in Layers, layer' = [layer EXCEPT ![c] = l]
          PROVE  layer' \in [Clients -> Layers]
      BY <3>1
    <3>2. \/ layer' = layer
          \/ \E l \in Layers : layer' = [layer EXCEPT ![c] = l]
      BY <1>8, Zenon DEF HandleLayer
    <3> QED BY <3>1, <3>2
  <2>3. \/ pc' = pc
        \/ \E l \in Labels : pc' = [pc EXCEPT ![c]["reader"] = l]
    BY <1>8 DEF HandleLayer
  <2>4. pc' \in [Clients -> [Threads -> Labels]]
    BY <2>3, PcType
  <2> QED BY <1>8, <2>1, <2>2, <2>4 DEF HandleLayer
<1>9. CASE Ack(c)
  <2>1. queued' \in [Clients -> 0..SendCap]
    BY <1>9, QueueType DEF Ack, SendOwn
  <2>2. \E l \in Labels : pc' = [pc EXCEPT ![c]["reader"] = l]
    BY <1>9 DEF Ack
  <2>3. pc' \in [Clients -> [Threads -> Labels]]
    BY <2>2, PcType
  <2> QED BY <1>9, <2>1, <2>3 DEF Ack
<1>10. CASE Answer(c)
  <2>1. queued' \in [Clients -> 0..SendCap]
    BY <1>10, QueueType DEF Answer, SendOwn
  <2> QED BY <1>10, <2>1 DEF Answer
<1>11. CASE AnswerPanic(c)
  BY <1>11 DEF AnswerPanic, EndTurn
<1>12. CASE EndBatch(c)
  <2>1. Scan(None, {}, None, "batch") \in Scans
    BY ScanType
  <2>2. \/ /\ iter' = [iter EXCEPT ![c]["reader"] =
                Scan(None, {}, None, "batch")]
           /\ pc' = [pc EXCEPT ![c]["reader"] = "lookup"]
        \/ /\ iter' = iter
           /\ pc' = [pc EXCEPT ![c]["reader"] = "read"]
    BY <1>12, Zenon DEF EndBatch
  <2>7. iter \in [Clients -> [Threads -> Scans]]
    OBVIOUS
  <2>8. [iter EXCEPT ![c]["reader"] = Scan(None, {}, None, "batch")]
          \in [Clients -> [Threads -> Scans]]
    BY <2>1, <2>7
  <2>3. iter' \in [Clients -> [Threads -> Scans]]
    BY <2>2, <2>7, <2>8, Zenon
  <2>4. pc' \in [Clients -> [Threads -> Labels]]
    BY <2>2, PcType
  <2> QED BY <1>12, <2>3, <2>4 DEF EndBatch, EndTurn
<1> QED BY <1>1, <1>2, <1>3, <1>4, <1>5, <1>6, <1>7, <1>8, <1>9, <1>10,
           <1>11, <1>12

(* Broadcast keeps the types. *)
LEMMA BroadcastType ==
  ASSUME TypeOK, NEW c \in Clients, NEW g \in Threads,
         \/ Lookup(c, g) \/ Range(c, g) \/ Skip(c, g)
         \/ Deliver(c, g) \/ Evict(c, g) \/ SendPanic(c)
  PROVE  TypeOK'
<1>0. /\ iter[c][g] \in Scans
      /\ hub[RoomOf[c]] \in Clients \cup {None}
  BY HubAssumption DEF TypeOK
<1>1. CASE Return(c, g) /\ (Lookup(c, g) \/ Range(c, g))
  BY <1>1, NoScanType DEF Lookup, Range, Return, After, TypeOK, Labels
<1>2. ASSUME Lookup(c, g), hub[RoomOf[c]] # None,
             NEW late \in SUBSET Coming(RoomOf[c]),
             iter' = [iter EXCEPT ![c][g] =
                        Scan(hub[RoomOf[c]],
                             (members[hub[RoomOf[c]]] \cup late) \ Sender(c, g),
                             None, @.why)],
             pc' = [pc EXCEPT ![c][g] = "range"]
      PROVE  TypeOK'
  <2>1. Scan(hub[RoomOf[c]],
             (members[hub[RoomOf[c]]] \cup late) \ Sender(c, g),
             None, iter[c][g].why) \in Scans
    BY <1>0, <1>2, ScanType, ScanFields DEF TypeOK, Coming
  <2> QED BY <1>2, <2>1 DEF Lookup, TypeOK, Labels
<1>3. ASSUME Range(c, g), NEW d \in iter[c][g].todo,
             iter' = [iter EXCEPT ![c][g] =
                        Scan(@.room, @.todo \ {d}, d, @.why)],
             pc' = [pc EXCEPT ![c][g] = "send"]
      PROVE  TypeOK'
  <2>1. Scan(iter[c][g].room, iter[c][g].todo \ {d}, d, iter[c][g].why)
          \in Scans
    BY <1>0, <1>3, ScanType, ScanFields
  <2> QED BY <1>3, <2>1 DEF Range, TypeOK, Labels
<1>4. CASE Skip(c, g)
  BY <1>4 DEF Skip, TypeOK, Labels
<1>5. CASE Deliver(c, g)
  <2>1. Notice(c, g) \subseteq Notices
    BY DEF Notice
  <2>2. told' \in [Clients -> SUBSET Notices]
    BY <1>5, <2>1 DEF Deliver, TypeOK
  <2>3. queued' \in [Clients -> 0..SendCap]
    BY <1>5, QueueType DEF Deliver
  <2>4. pc' \in [Clients -> [Threads -> Labels]]
    BY <1>5 DEF Deliver, TypeOK, Labels
  <2> QED BY <1>5, <2>2, <2>3, <2>4 DEF Deliver, TypeOK
<1>6. CASE Evict(c, g)
  BY <1>6 DEF Evict, TypeOK, Labels
<1>7. CASE SendPanic(c)
  BY <1>7, NoScanType DEF SendPanic, TypeOK, Labels
<1> QED BY <1>1, <1>2, <1>3, <1>4, <1>5, <1>6, <1>7 DEF Lookup, Range

(* close() with Leave, and write(), keep the types. *)
LEMMA CloseType ==
  ASSUME TypeOK, NEW c \in Clients, NEW g \in Threads,
         \/ CloseAgain(c, g) \/ Leave(c, g) \/ Unlock(c, g) \/ CloseSend(c, g)
         \/ Write(c) \/ WriteEnds(c) \/ ConnFail(c)
  PROVE  TypeOK'
<1> USE HubAssumption DEF TypeOK, Labels
<1>1. CASE CloseAgain(c, g)
  BY <1>1 DEF CloseAgain
<1>2. CASE Leave(c, g)
  BY <1>2 DEF Leave, Remaining, Present
<1>3. CASE Unlock(c, g)
  <2>1. Scan(None, {}, None, "bye") \in Scans
    BY ScanType
  <2> QED BY <1>3, <2>1 DEF Unlock
<1>4. CASE CloseSend(c, g)
  BY <1>4 DEF CloseSend
<1>5. CASE Write(c)
  <2>1. queued' \in [Clients -> 0..SendCap]
    BY <1>5, QueueType DEF Write
  <2>2. pc' = pc \/ \E l \in Labels : pc' = [pc EXCEPT ![c]["writer"] = l]
    BY <1>5 DEF Write
  <2>3. pc' \in [Clients -> [Threads -> Labels]]
    BY <2>2, PcType
  <2> QED BY <1>5, <2>1, <2>3 DEF Write
<1>6. CASE WriteEnds(c)
  BY <1>6 DEF WriteEnds
<1>7. CASE ConnFail(c)
  BY <1>7 DEF ConnFail
<1> QED BY <1>1, <1>2, <1>3, <1>4, <1>5, <1>6, <1>7

(* Every step keeps the types. *)
LEMMA TypeStep == TypeOK /\ [Next]_vars => TypeOK'
<1> SUFFICES ASSUME TypeOK, [Next]_vars PROVE TypeOK'
  OBVIOUS
<1>1. CASE UNCHANGED vars
  BY <1>1 DEF TypeOK, vars
<1>2. CASE MapRace
  BY <1>2, CrashType DEF MapRace
<1>3. CASE Ended
  BY <1>3 DEF Ended, TypeOK, vars
<1>4. ASSUME NEW c \in Clients,
             \/ Connect(c) \/ ReadBatch(c) \/ ConnFail(c)
             \/ ReaderStep(c) \/ WriterStep(c)
             \/ \E g \in Threads : SharedStep(c, g)
      PROVE  TypeOK'
  BY <1>4, CrashType, HandleWSType, ReadType, BroadcastType, CloseType
     DEF ReaderStep, WriterStep, SharedStep, WriterPanic
<1> QED BY <1>1, <1>2, <1>3, <1>4 DEF Next

(* The state is of the type TypeOK gives it: in particular a send channel  *)
(* (client.go:17) never holds more than its capacity, and a room id maps   *)
(* to one room object or to none (hub.go:25-32).                           *)
THEOREM TypeCorrect == Spec => []TypeOK
<1>1. Init => TypeOK
  BY HubAssumption, NoScanType DEF Init, TypeOK, Labels
<1> QED BY <1>1, TypeStep, PTL DEF Spec

----------------------------------------------------------------------------
(* Membership.                                                             *)

(* Where the two goroutines of a connection can be, together: nothing of   *)
(* read(), write() or close() runs before Join (handler.go:130-136), a     *)
(* Broadcast has a caller, and whoever is past the delete of Leave, or has *)
(* closed the channel, has spent closeOnce (client.go:93-99).              *)
Phase(c) ==
    /\ closed[c] => once[c] = "done"
    /\ \/ pc[c]["reader"] \in {"idle", "greet", "join"}
       \/ iter[c]["reader"].why = "hello"
       => pc[c]["writer"] = "off"
    /\ pc[c]["writer"] = "off" =>
         /\ once[c] = "new"
         /\ \/ pc[c]["reader"] \in {"idle", "greet", "join", "end"}
            \/ /\ pc[c]["reader"] \in {"lookup", "range", "send"}
               /\ iter[c]["reader"].why = "hello"
    /\ \A g \in Threads :
         /\ pc[c][g] \in {"lookup", "range", "send"}
              <=> iter[c][g].why # "none"
         /\ iter[c][g].why = "bye" \/ pc[c][g] \in {"unlock", "closesend"}
              => once[c] # "new"

PhaseInv == \A c \in Clients : Phase(c)

(* The connections that are in their room, or were evicted from it, and    *)
(* will run Leave. *)
Staying(c) == pc[c]["writer"] # "off" /\ once[c] = "new"

(* The map of rooms and the members of the room objects agree, and every   *)
(* room in the map has somebody who will leave it (hub.go:34-69).          *)
RoomInv ==
  /\ \A o, c \in Clients :
       c \in members[o] =>
         hub[RoomOf[o]] = o /\ RoomOf[c] = RoomOf[o] /\ Staying(c)
  /\ \A r \in Rooms :
       hub[r] # None =>
         /\ RoomOf[hub[r]] = r
         /\ \E c \in Clients : RoomOf[c] = r /\ Staying(c)

(* A Broadcast that returns to its caller keeps the phases. *)
LEMMA ReturnPhase ==
  ASSUME TypeOK, PhaseInv, NEW c \in Clients, NEW g \in Threads,
         pc[c][g] \in {"lookup", "range"}, Return(c, g),
         UNCHANGED <<closed, once>>, NEW e \in Clients
  PROVE  Phase(e)'
<1>0. Phase(e) /\ Phase(c)
  BY DEF PhaseInv
<1>1. /\ iter' = [iter EXCEPT ![c][g] = NoScan]
      /\ pc' = [pc EXCEPT ![c][g] = After(iter[c][g].why)]
      /\ NoScan.why = "none"
  BY DEF Return, NoScan, Scan
<1>2. CASE iter[c][g].why = "hello"
  <2>1. After(iter[c][g].why) = "join"
    BY <1>2 DEF After
  <2> QED BY <1>0, <1>1, <1>2, <2>1 DEF TypeOK, Phase
<1>3. CASE iter[c][g].why = "batch"
  <2>1. After(iter[c][g].why) = "read"
    BY <1>3 DEF After
  <2> QED BY <1>0, <1>1, <1>3, <2>1 DEF TypeOK, Phase
<1>4. CASE iter[c][g].why = "bye"
  <2>1. After(iter[c][g].why) = "closesend"
    BY <1>4 DEF After
  <2> QED BY <1>0, <1>1, <1>4, <2>1 DEF TypeOK, Phase
<1>5. iter[c][g].why \in {"hello", "batch", "bye"}
  BY <1>0, ScanFields DEF Phase, TypeOK
<1> QED BY <1>2, <1>3, <1>4, <1>5

(* A Broadcast that goes on keeps the phases. *)
LEMMA ScanPhase ==
  ASSUME TypeOK, PhaseInv, NEW c \in Clients, NEW g \in Threads,
         pc[c][g] \in {"lookup", "range"}, NEW l \in {"range", "send"},
         pc' = [pc EXCEPT ![c][g] = l],
         NEW s, s.why = iter[c][g].why, iter' = [iter EXCEPT ![c][g] = s],
         UNCHANGED <<closed, once>>, NEW e \in Clients
  PROVE  Phase(e)'
  BY DEF TypeOK, PhaseInv, Phase

(* Every step but a restart keeps the phases of every connection. *)
LEMMA PhaseStep ==
  ASSUME TypeOK, PhaseInv, Next, ~Crash, ~Ended PROVE PhaseInv'
<1> SUFFICES ASSUME NEW e \in Clients PROVE Phase(e)'
  BY DEF PhaseInv
<1>0. Phase(e)
  BY DEF PhaseInv
<1> USE DEF TypeOK, Phase
<1>1. ASSUME NEW c \in Clients, Connect(c) PROVE Phase(e)'
  BY <1>0, <1>1 DEF Connect
<1>2. ASSUME NEW c \in Clients, Greet(c) PROVE Phase(e)'
  BY <1>0, <1>2 DEF Greet, Scan
<1>3. ASSUME NEW c \in Clients, GreetFails(c) PROVE Phase(e)'
  BY <1>0, <1>3 DEF GreetFails
<1>4. ASSUME NEW c \in Clients, Join(c) PROVE Phase(e)'
  BY <1>0, <1>4 DEF Join
<1>5. ASSUME NEW c \in Clients, ReadBatch(c) PROVE Phase(e)'
  BY <1>0, <1>5 DEF ReadBatch
<1>6. ASSUME NEW c \in Clients, ReadError(c) PROVE Phase(e)'
  BY <1>0, <1>6 DEF ReadError
<1>7. ASSUME NEW c \in Clients, HandlePlain(c) PROVE Phase(e)'
  BY <1>0, <1>7 DEF HandlePlain
<1>8. ASSUME NEW c \in Clients, HandleClocked(c) PROVE Phase(e)'
  BY <1>0, <1>8 DEF HandleClocked
<1>9. ASSUME NEW c \in Clients, HandleClockedPanic(c) PROVE Phase(e)'
  BY <1>0, <1>9 DEF HandleClockedPanic
<1>10. ASSUME NEW c \in Clients, NEW d \in Doms, HandleLock(c, d)
      PROVE Phase(e)'
  BY <1>0, <1>10 DEF HandleLock
<1>11. ASSUME NEW c \in Clients, NEW d \in Doms, HandleUnlock(c, d)
      PROVE Phase(e)'
  BY <1>0, <1>11 DEF HandleUnlock
<1>12. ASSUME NEW c \in Clients, HandleLayer(c) PROVE Phase(e)'
  <2>1. /\ pc[c]["reader"] = "handle"
        /\ \/ pc' = pc
           \/ \E l \in {"ack", "answer"} : pc' = [pc EXCEPT ![c]["reader"] = l]
        /\ UNCHANGED <<iter, closed, once>>
    BY <1>12 DEF HandleLayer, Handling
  <2>2. CASE pc' = pc
    BY <1>0, <2>1, <2>2
  <2>3. ASSUME NEW l \in {"ack", "answer"},
               pc' = [pc EXCEPT ![c]["reader"] = l]
        PROVE  Phase(e)'
    BY <1>0, <2>1, <2>3
  <2> QED BY <2>1, <2>2, <2>3
<1>13. ASSUME NEW c \in Clients, Ack(c) PROVE Phase(e)'
  <2>1. /\ pc[c]["reader"] = "ack"
        /\ \E l \in {"answer", "handle"} : pc' = [pc EXCEPT ![c]["reader"] = l]
        /\ UNCHANGED <<iter, closed, once>>
    BY <1>13 DEF Ack
  <2> QED BY <1>0, <2>1
<1>14. ASSUME NEW c \in Clients, Answer(c) PROVE Phase(e)'
  BY <1>0, <1>14 DEF Answer, SendOwn
<1>15. ASSUME NEW c \in Clients, AnswerPanic(c) PROVE Phase(e)'
  BY <1>0, <1>15 DEF AnswerPanic
<1>16. ASSUME NEW c \in Clients, EndBatch(c) PROVE Phase(e)'
  <2>1. /\ pc[c]["reader"] = "handle"
        /\ UNCHANGED <<closed, once>>
    BY <1>16 DEF EndBatch
  <2>2. \/ /\ iter' = [iter EXCEPT ![c]["reader"] =
                Scan(None, {}, None, "batch")]
           /\ pc' = [pc EXCEPT ![c]["reader"] = "lookup"]
        \/ /\ iter' = iter
           /\ pc' = [pc EXCEPT ![c]["reader"] = "read"]
    BY <1>16, Zenon DEF EndBatch
  <2>3. CASE /\ iter' = [iter EXCEPT ![c]["reader"] =
                Scan(None, {}, None, "batch")]
             /\ pc' = [pc EXCEPT ![c]["reader"] = "lookup"]
    BY <1>0, <2>1, <2>3 DEF Scan
  <2>4. CASE /\ iter' = iter
             /\ pc' = [pc EXCEPT ![c]["reader"] = "read"]
    BY <1>0, <2>1, <2>4
  <2> QED BY <2>2, <2>3, <2>4
<1>17. ASSUME NEW c \in Clients, NEW g \in Threads, Lookup(c, g)
      PROVE Phase(e)'
  <2>1. pc[c][g] = "lookup" /\ UNCHANGED <<closed, once>>
    BY <1>17 DEF Lookup
  <2>2. CASE Return(c, g)
    BY <2>1, <2>2, ReturnPhase
  <2>3. CASE ~Return(c, g)
    <3>1. PICK todo :
            iter' = [iter EXCEPT ![c][g] =
                       Scan(hub[RoomOf[c]], todo, None, @.why)]
      BY <1>17, <2>3 DEF Lookup
    <3>2. pc' = [pc EXCEPT ![c][g] = "range"]
      BY <1>17, <2>3 DEF Lookup
    <3> DEFINE s == Scan(hub[RoomOf[c]], todo, None, iter[c][g].why)
    <3>3. s.why = iter[c][g].why /\ iter' = [iter EXCEPT ![c][g] = s]
      BY <3>1 DEF Scan
    <3> QED BY <2>1, <3>2, <3>3, ScanPhase
  <2> QED BY <2>2, <2>3
<1>18. ASSUME NEW c \in Clients, NEW g \in Threads, Range(c, g) PROVE Phase(e)'
  <2>1. pc[c][g] = "range" /\ UNCHANGED <<closed, once>>
    BY <1>18 DEF Range
  <2>2. CASE Return(c, g)
    BY <2>1, <2>2, ReturnPhase
  <2>3. CASE ~Return(c, g)
    <3>1. PICK d :
            iter' = [iter EXCEPT ![c][g] =
                       Scan(@.room, @.todo \ {d}, d, @.why)]
      BY <1>18, <2>3 DEF Range
    <3>2. pc' = [pc EXCEPT ![c][g] = "send"]
      BY <1>18, <2>3 DEF Range
    <3> DEFINE s == Scan(iter[c][g].room, iter[c][g].todo \ {d}, d,
                         iter[c][g].why)
    <3>3. s.why = iter[c][g].why /\ iter' = [iter EXCEPT ![c][g] = s]
      BY <3>1 DEF Scan
    <3> QED BY <2>1, <3>2, <3>3, ScanPhase
  <2> QED BY <2>2, <2>3
<1>19. ASSUME NEW c \in Clients, NEW g \in Threads, Skip(c, g) PROVE Phase(e)'
  BY <1>0, <1>19 DEF Skip
<1>20. ASSUME NEW c \in Clients, NEW g \in Threads, Deliver(c, g)
      PROVE Phase(e)'
  BY <1>0, <1>20 DEF Deliver
<1>21. ASSUME NEW c \in Clients, NEW g \in Threads, Evict(c, g) PROVE Phase(e)'
  BY <1>0, <1>21 DEF Evict
<1>22. ASSUME NEW c \in Clients, SendPanic(c) PROVE Phase(e)'
  BY <1>0, <1>22 DEF SendPanic, OnClosed, NoScan, Scan
<1>23. ASSUME NEW c \in Clients, NEW g \in Threads, CloseAgain(c, g)
      PROVE Phase(e)'
  BY <1>0, <1>23 DEF CloseAgain
<1>24. ASSUME NEW c \in Clients, NEW g \in Threads, Leave(c, g) PROVE Phase(e)'
  BY <1>0, <1>24 DEF Leave
<1>25. ASSUME NEW c \in Clients, NEW g \in Threads, Unlock(c, g)
      PROVE Phase(e)'
  BY <1>0, <1>25 DEF Unlock, Scan
<1>26. ASSUME NEW c \in Clients, NEW g \in Threads, CloseSend(c, g)
      PROVE Phase(e)'
  BY <1>0, <1>26 DEF CloseSend
<1>27. ASSUME NEW c \in Clients, Write(c) PROVE Phase(e)'
  <2>1. /\ pc[c]["writer"] = "write"
        /\ \E l \in {"write", "close"} : pc' = [pc EXCEPT ![c]["writer"] = l]
        /\ UNCHANGED <<iter, closed, once>>
    BY <1>27 DEF Write
  <2> QED BY <1>0, <2>1
<1>28. ASSUME NEW c \in Clients, WriteEnds(c) PROVE Phase(e)'
  BY <1>0, <1>28 DEF WriteEnds
<1>29. ASSUME NEW c \in Clients, ConnFail(c) PROVE Phase(e)'
  BY <1>0, <1>29 DEF ConnFail
<1> QED BY <1>1, <1>2, <1>3, <1>4, <1>5, <1>6, <1>7, <1>8, <1>9, <1>10,
           <1>11, <1>12, <1>13, <1>14, <1>15, <1>16, <1>17, <1>18, <1>19,
           <1>20, <1>21, <1>22, <1>23, <1>24, <1>25, <1>26, <1>27, <1>28,
           <1>29
     DEF Next, ReaderStep, WriterStep, SharedStep, WriterPanic, MapRace

(* A step that only removes members of room objects, and does not let the  *)
(* writer of a connection vanish or spend the closeOnce of a connection    *)
(* that stays, keeps rooms and members in agreement.                       *)
LEMMA RoomFrame ==
  ASSUME TypeOK, RoomInv, hub' = hub,
         \A o \in Clients : members'[o] \subseteq members[o],
         \A c \in Clients : Staying(c) => Staying(c)'
  PROVE  RoomInv'
  BY HubAssumption DEF RoomInv, TypeOK

(* So does a step of one goroutine that does not touch rooms or closeOnce. *)
LEMMA RoomQuiet ==
  ASSUME TypeOK, RoomInv, UNCHANGED <<hub, members, once>>,
         NEW c \in Clients, NEW g \in Threads, NEW l, l # "off",
         pc' = [pc EXCEPT ![c][g] = l]
  PROVE  RoomInv'
<1>1. \A d \in Clients : Staying(d) => Staying(d)'
  BY DEF TypeOK, Staying
<1> QED BY <1>1, RoomFrame

(* Join puts the connection into the room its room id maps to. *)
LEMMA RoomJoin ==
  ASSUME TypeOK, PhaseInv, RoomInv, NEW c \in Clients, Join(c)
  PROVE  RoomInv'
<1> DEFINE r == RoomOf[c]
           o == IF hub[r] = None THEN c ELSE hub[r]
<1>1. /\ r \in Rooms /\ o \in Clients
      /\ hub' = [hub EXCEPT ![r] = o]
      /\ members' = [members EXCEPT ![o] = @ \cup {c}]
      /\ RoomOf[o] = r
  <2>1. r \in Rooms /\ hub[r] \in Clients \cup {None}
    BY HubAssumption DEF TypeOK
  <2>2. o \in Clients /\ RoomOf[o] = r
    BY <2>1 DEF RoomInv
  <2>3. /\ hub' = [hub EXCEPT ![r] = o]
        /\ members' = [members EXCEPT ![o] = @ \cup {c}]
    BY DEF Join
  <2> QED BY <2>1, <2>2, <2>3
<1>2. Staying(c)' /\ \A d \in Clients : Staying(d) => Staying(d)'
  BY DEF Join, TypeOK, PhaseInv, Phase, Staying
<1>3. ASSUME NEW p \in Clients, NEW d \in Clients, d \in members'[p]
      PROVE  hub'[RoomOf[p]] = p /\ RoomOf[d] = RoomOf[p] /\ Staying(d)'
  <2>1. CASE p = o /\ d = c
    BY <1>1, <1>2, <2>1 DEF TypeOK
  <2>2. CASE d \in members[p]
    BY <1>1, <1>2, <2>2, HubAssumption DEF TypeOK, RoomInv
  <2> QED BY <1>1, <1>3, <2>1, <2>2 DEF TypeOK
<1>4. ASSUME NEW q \in Rooms, hub'[q] # None
      PROVE  /\ RoomOf[hub'[q]] = q
             /\ \E d \in Clients : RoomOf[d] = q /\ Staying(d)'
  <2>1. CASE q = r
    BY <1>1, <1>2, <2>1 DEF TypeOK
  <2>2. CASE q # r
    BY <1>1, <1>2, <1>4, <2>2 DEF TypeOK, RoomInv
  <2> QED BY <2>1, <2>2
<1> QED BY <1>3, <1>4 DEF RoomInv

(* Leave takes the connection out of the room, and the room out of the map *)
(* only if nobody is left in it.                                           *)
LEMMA RoomLeave ==
  ASSUME TypeOK, PhaseInv, RoomInv, NEW c \in Clients, NEW g \in Threads,
         Leave(c, g)
  PROVE  RoomInv'
<1> DEFINE r == RoomOf[c]
<1>1. /\ r \in Rooms
      /\ hub' = [hub EXCEPT ![r] = IF Emptied(c) THEN None ELSE @]
      /\ members' = [o \in Clients |->
                       IF o = hub[r] THEN Remaining(c) ELSE members[o]]
      /\ Remaining(c) = (IF hub[r] = None THEN {} ELSE members[hub[r]]) \ {c}
      /\ Emptied(c) <=> Remaining(c) = {}
  BY HubAssumption DEF Leave, Emptied, Remaining, Present
<1>2. \A d \in Clients : Staying(d) /\ d # c => Staying(d)'
  BY DEF Leave, Staying, TypeOK
<1>3. ASSUME NEW o \in Clients, NEW d \in members'[o]
      PROVE  hub'[RoomOf[o]] = o /\ RoomOf[d] = RoomOf[o]
              /\ d \in Clients /\ Staying(d)'
  <2>1. d \in members[o] /\ d \in Clients
    BY <1>1, <1>3 DEF TypeOK
  <2>2. hub[RoomOf[o]] = o /\ RoomOf[d] = RoomOf[o] /\ Staying(d)
    BY <2>1 DEF RoomInv
  <2>3. d # c
    BY <1>1, <1>3, <2>1, <2>2
  <2>4. hub'[RoomOf[o]] = o
    BY <1>1, <1>3, <2>1, <2>2, HubAssumption DEF TypeOK
  <2> QED BY <1>2, <2>1, <2>2, <2>3, <2>4
<1>4. ASSUME NEW q \in Rooms, hub'[q] # None
      PROVE  /\ RoomOf[hub'[q]] = q
             /\ \E d \in Clients : RoomOf[d] = q /\ Staying(d)'
  <2>1. hub'[q] = hub[q] /\ hub[q] # None
    BY <1>1, <1>4 DEF TypeOK
  <2>2. CASE q = r
    <3>1. PICK d \in Remaining(c) : TRUE
      BY <1>1, <1>4, <2>2 DEF TypeOK
    <3>2. d \in members'[hub[r]] /\ hub[r] \in Clients
      BY <1>1, <2>1, <2>2, <3>1 DEF TypeOK
    <3>3. /\ RoomOf[d] = RoomOf[hub[r]] /\ RoomOf[hub[r]] = r
          /\ d \in Clients /\ Staying(d)'
      BY <1>3, <2>1, <2>2, <3>2 DEF RoomInv
    <3> QED BY <2>1, <2>2, <3>3
  <2>3. CASE q # r
    <3>1. PICK d \in Clients : RoomOf[d] = q /\ Staying(d)
      BY <2>1 DEF RoomInv
    <3> QED BY <1>2, <2>1, <2>3, <3>1 DEF RoomInv
  <2> QED BY <2>2, <2>3
<1> QED BY <1>3, <1>4 DEF RoomInv

(* Every step but a restart keeps rooms and members in agreement. *)
LEMMA RoomStep ==
  ASSUME TypeOK, PhaseInv, RoomInv, Next, ~Crash, ~Ended PROVE RoomInv'
<1> USE DEF TypeOK, Staying
<1>1. ASSUME NEW c \in Clients, Connect(c)
      PROVE  RoomInv'
  BY <1>1, RoomFrame DEF Connect
<1>2. ASSUME NEW c \in Clients, Greet(c)
      PROVE  RoomInv'
  BY <1>2, RoomFrame DEF Greet
<1>3. ASSUME NEW c \in Clients, GreetFails(c)
      PROVE  RoomInv'
  BY <1>3, RoomFrame DEF GreetFails
<1>4. ASSUME NEW c \in Clients, ReadBatch(c)
      PROVE  RoomInv'
  BY <1>4, RoomFrame DEF ReadBatch
<1>5. ASSUME NEW c \in Clients, ReadError(c)
      PROVE  RoomInv'
  BY <1>5, RoomFrame DEF ReadError
<1>6. ASSUME NEW c \in Clients, HandlePlain(c)
      PROVE  RoomInv'
  BY <1>6, RoomFrame DEF HandlePlain
<1>7. ASSUME NEW c \in Clients, HandleClocked(c)
      PROVE  RoomInv'
  BY <1>7, RoomFrame DEF HandleClocked
<1>8. ASSUME NEW c \in Clients, HandleClockedPanic(c)
      PROVE  RoomInv'
  BY <1>8, RoomFrame DEF HandleClockedPanic
<1>9. ASSUME NEW c \in Clients, NEW d \in Doms, HandleLock(c, d)
      PROVE  RoomInv'
  BY <1>9, RoomFrame DEF HandleLock
<1>10. ASSUME NEW c \in Clients, NEW d \in Doms, HandleUnlock(c, d)
      PROVE  RoomInv'
  BY <1>10, RoomFrame DEF HandleUnlock
<1>11. ASSUME NEW c \in Clients, HandleLayer(c)
      PROVE  RoomInv'
  <2>1. \/ pc' = pc
        \/ \E l \in {"ack", "answer"} : pc' = [pc EXCEPT ![c]["reader"] = l]
    BY <1>11 DEF HandleLayer
  <2>2. UNCHANGED <<hub, members, once>>
    BY <1>11 DEF HandleLayer
  <2>3. CASE pc' = pc
    BY <2>2, <2>3, RoomFrame
  <2> QED BY <2>1, <2>2, <2>3, RoomQuiet
<1>12. ASSUME NEW c \in Clients, Ack(c)
      PROVE  RoomInv'
  <2>1. \E l \in {"answer", "handle"} : pc' = [pc EXCEPT ![c]["reader"] = l]
    BY <1>12 DEF Ack
  <2>2. UNCHANGED <<hub, members, once>>
    BY <1>12 DEF Ack
  <2> QED BY <2>1, <2>2, RoomQuiet
<1>13. ASSUME NEW c \in Clients, Answer(c)
      PROVE  RoomInv'
  BY <1>13, RoomFrame DEF Answer
<1>14. ASSUME NEW c \in Clients, AnswerPanic(c)
      PROVE  RoomInv'
  BY <1>14, RoomFrame DEF AnswerPanic
<1>15. ASSUME NEW c \in Clients, EndBatch(c)
      PROVE  RoomInv'
  <2>1. \E l \in {"lookup", "read"} : pc' = [pc EXCEPT ![c]["reader"] = l]
    BY <1>15, Zenon DEF EndBatch
  <2>2. UNCHANGED <<hub, members, once>>
    BY <1>15 DEF EndBatch
  <2> QED BY <2>1, <2>2, RoomQuiet
<1>16. ASSUME NEW c \in Clients, NEW g \in Threads, Lookup(c, g)
      PROVE  RoomInv'
  <2>1. \E l \in {"join", "read", "closesend", "range"} :
          pc' = [pc EXCEPT ![c][g] = l]
    BY <1>16 DEF Lookup, Return, After
  <2>2. UNCHANGED <<hub, members, once>>
    BY <1>16 DEF Lookup
  <2> QED BY <2>1, <2>2, RoomQuiet
<1>17. ASSUME NEW c \in Clients, NEW g \in Threads, Range(c, g)
      PROVE  RoomInv'
  <2>1. \E l \in {"join", "read", "closesend", "send"} :
          pc' = [pc EXCEPT ![c][g] = l]
    BY <1>17 DEF Range, Return, After
  <2>2. UNCHANGED <<hub, members, once>>
    BY <1>17 DEF Range
  <2> QED BY <2>1, <2>2, RoomQuiet
<1>18. ASSUME NEW c \in Clients, NEW g \in Threads, Skip(c, g)
      PROVE  RoomInv'
  BY <1>18, RoomFrame DEF Skip
<1>19. ASSUME NEW c \in Clients, NEW g \in Threads, Deliver(c, g)
      PROVE  RoomInv'
  BY <1>19, RoomFrame DEF Deliver
<1>20. ASSUME NEW c \in Clients, NEW g \in Threads, Evict(c, g)
      PROVE  RoomInv'
  BY <1>20, RoomFrame DEF Evict
<1>21. ASSUME NEW c \in Clients, SendPanic(c)
      PROVE  RoomInv'
  BY <1>21, RoomFrame DEF SendPanic, Phase, PhaseInv
<1>22. ASSUME NEW c \in Clients, NEW g \in Threads, CloseAgain(c, g)
      PROVE  RoomInv'
  BY <1>22, RoomFrame DEF CloseAgain
<1>23. ASSUME NEW c \in Clients, NEW g \in Threads, Unlock(c, g)
      PROVE  RoomInv'
  BY <1>23, RoomFrame DEF Unlock
<1>24. ASSUME NEW c \in Clients, NEW g \in Threads, CloseSend(c, g)
      PROVE  RoomInv'
  BY <1>24, RoomFrame DEF CloseSend, Phase, PhaseInv
<1>25. ASSUME NEW c \in Clients, Write(c)
      PROVE  RoomInv'
  <2>1. \E l \in {"write", "close"} : pc' = [pc EXCEPT ![c]["writer"] = l]
    BY <1>25 DEF Write
  <2>2. UNCHANGED <<hub, members, once>>
    BY <1>25 DEF Write
  <2> QED BY <2>1, <2>2, RoomQuiet
<1>26. ASSUME NEW c \in Clients, WriteEnds(c)
      PROVE  RoomInv'
  BY <1>26, RoomFrame DEF WriteEnds
<1>27. ASSUME NEW c \in Clients, ConnFail(c)
      PROVE  RoomInv'
  BY <1>27, RoomFrame DEF ConnFail
<1> QED BY RoomJoin, RoomLeave, <1>1, <1>2, <1>3, <1>4, <1>5, <1>6, <1>7,
           <1>8, <1>9, <1>10, <1>11, <1>12, <1>13, <1>14, <1>15, <1>16,
           <1>17, <1>18, <1>19, <1>20, <1>21, <1>22, <1>23, <1>24, <1>25,
           <1>26, <1>27
     DEF Next, ReaderStep, WriterStep, SharedStep, WriterPanic, MapRace

(* The phases and the agreement of rooms and members hold of the empty     *)
(* state the server starts in.                                             *)
LEMMA InitInv == Init => PhaseInv /\ RoomInv
  BY HubAssumption DEF Init, PhaseInv, Phase, RoomInv, NoScan, Scan

(* They hold of the state after a restart, which is the same. *)
LEMMA CrashInv == Crash => PhaseInv' /\ RoomInv'
  BY HubAssumption DEF Crash, PhaseInv, Phase, RoomInv, NoScan, Scan

(* The inductive invariant. *)
Inv == TypeOK /\ PhaseInv /\ RoomInv

(* Inv is an invariant of the hub. *)
THEOREM InvCorrect == Spec => []Inv
<1>1. Init => Inv
  BY InitInv, HubAssumption, NoScanType DEF Init, TypeOK, Labels, Inv
<1>2. Inv /\ [Next]_vars => Inv'
  <2> SUFFICES ASSUME Inv, [Next]_vars PROVE Inv'
    OBVIOUS
  <2>1. TypeOK'
    BY TypeStep DEF Inv
  <2>2. CASE Crash
    BY <2>1, <2>2, CrashInv DEF Inv
  <2>3. CASE UNCHANGED vars \/ Ended
    <3>1. UNCHANGED vars
      BY <2>3 DEF Ended
    <3> QED BY <2>1, <3>1
            DEF vars, Inv, PhaseInv, Phase, RoomInv, Staying
  <2>4. CASE Next /\ ~Crash /\ ~Ended
    BY <2>1, <2>4, PhaseStep, RoomStep DEF Inv
  <2> QED BY <2>2, <2>3, <2>4
<1> QED BY <1>1, <1>2, PTL DEF Spec

(* No connection is in a room object that Broadcast can no longer find:    *)
(* Leave removes a room object only when nobody is in it (hub.go:64-68),   *)
(* whatever the Broadcasts that run without the mutex evict.               *)
THEOREM NoStrandedMemberCorrect == Spec => []NoStrandedMember
<1>1. Inv => NoStrandedMember
  BY DEF Inv, RoomInv, NoStrandedMember
<1> QED BY <1>1, InvCorrect, PTL

(* A closed send channel belongs to no member (client.go:95-96), so a range *)
(* loop that starts later cannot send on it.                               *)
THEOREM ClosedNotMemberCorrect == Spec => []ClosedNotMember
<1>1. Inv => ClosedNotMember
  BY DEF Inv, RoomInv, PhaseInv, Phase, Staying, ClosedNotMember, InRoom
<1> QED BY <1>1, InvCorrect, PTL

(* A room that evictions have emptied is not leaked: somebody of that room *)
(* has still to run Leave.                                                 *)
THEOREM EmptyRoomHasLeaverCorrect == Spec => []EmptyRoomHasLeaver
<1>1. Inv => EmptyRoomHasLeaver
  BY DEF Inv, RoomInv, Staying, EmptyRoomHasLeaver, Joined, HasLeft
<1> QED BY <1>1, InvCorrect, PTL
----------------------------------------------------------------------------
(* The hub implements Membership.                                          *)

(* The rooms that can be found. *)
Open == {r \in Rooms : hub[r] # None}

(* A step that changes no room object, starts no writer and runs no Leave  *)
(* is none of Membership.                                                  *)
LEMMA SameStanding ==
  ASSUME UNCHANGED <<hub, members>>,
         \A e \in Clients : /\ Joined(e)' <=> Joined(e)
                            /\ HasLeft(e)' <=> HasLeft(e)
  PROVE  [Room!Next]_Room!membership
<1>1. \A e \in Clients : Standing(e)' = Standing(e)
  BY DEF Standing, InRoom
<1>2. [c \in Clients |-> Standing(c)]' = [c \in Clients |-> Standing(c)]
  BY <1>1
<1>3. {r \in Rooms : hub[r] # None}' = {r \in Rooms : hub[r] # None}
  OBVIOUS
<1> QED BY <1>2, <1>3 DEF Room!membership

(* Nor is a step of one goroutine that stays behind Join and before Leave. *)
LEMMA GoesOn ==
  ASSUME TypeOK, UNCHANGED <<hub, members, once>>,
         NEW c \in Clients, NEW g \in Threads, NEW l, l # "off",
         g = "reader" \/ pc[c][g] # "off",
         pc' = [pc EXCEPT ![c][g] = l]
  PROVE  [Room!Next]_Room!membership
<1>1. ASSUME NEW e \in Clients
      PROVE  (Joined(e)' <=> Joined(e)) /\ (HasLeft(e)' <=> HasLeft(e))
  BY DEF TypeOK, Joined, HasLeft
<1> QED BY <1>1, SameStanding

(* Nor is one that leaves the goroutines where they are. *)
LEMMA Stays ==
  ASSUME UNCHANGED <<hub, members, once, pc>>
  PROVE  [Room!Next]_Room!membership
  BY SameStanding DEF Joined, HasLeft

(* Who is a member of a room, by the map of rooms. *)
LEMMA MembersOf ==
  ASSUME Inv, NEW c \in Clients
  PROVE  InRoom(c) <=> c \in Present(RoomOf[c])
  BY HubAssumption DEF Inv, TypeOK, RoomInv, InRoom, Present

(* Join is the Join of Membership. *)
LEMMA JoinJoins ==
  ASSUME Inv, NEW c \in Clients, Join(c)
  PROVE  Room!Join(c)
<1> DEFINE r == RoomOf[c]
<1>1. PICK o \in Clients : /\ o = IF hub[r] = None THEN c ELSE hub[r]
                           /\ hub' = [hub EXCEPT ![r] = o]
                           /\ members' = [members EXCEPT ![o] = @ \cup {c}]
  BY HubAssumption DEF Inv, TypeOK, Join
<1>2. /\ \A e \in Clients : pc'[e]["writer"] # "off"
                              <=> pc[e]["writer"] # "off" \/ e = c
      /\ pc[c]["reader"] = "join" /\ once' = once
  BY DEF Inv, TypeOK, Join
<1>3. /\ pc[c]["writer"] = "off" /\ once[c] = "new" /\ ~InRoom(c)
  BY <1>2 DEF Inv, PhaseInv, Phase, RoomInv, Staying, InRoom
<1>4. ASSUME NEW e \in Clients PROVE InRoom(e)' <=> InRoom(e) \/ e = c
  BY <1>1 DEF Inv, TypeOK, InRoom
<1>5. Standing(c) = "out"
  BY <1>3 DEF Standing, HasLeft, Joined
<1>6. ASSUME NEW e \in Clients
      PROVE  Standing(e)' = IF e = c THEN "member" ELSE Standing(e)
  BY <1>2, <1>4 DEF Standing, HasLeft, Joined
<1>7. [e \in Clients |-> Standing(e)]' =
        [[e \in Clients |-> Standing(e)] EXCEPT ![c] = "member"]
  BY <1>6
<1>8. Open' = Open \cup {r}
  <2>1. r \in Rooms /\ o # None
    BY HubAssumption
  <2>2. \A q \in Rooms : hub'[q] = IF q = r THEN o ELSE hub[q]
    BY <1>1 DEF Inv, TypeOK
  <2> QED BY <2>1, <2>2 DEF Open
<1> QED BY <1>5, <1>7, <1>8 DEF Room!Join, Open

(* Evict takes the member it aims at out of the room it ranges over, if it *)
(* is still there.                                                         *)
LEMMA EvictEvicts ==
  ASSUME Inv, NEW c \in Clients, NEW g \in Threads, Evict(c, g)
  PROVE  [Room!Next]_Room!membership
<1>1. PICK d : d = iter[c][g].at
  OBVIOUS
<1>2. PICK o : o = iter[c][g].room
  OBVIOUS
<1>3. /\ UNCHANGED <<hub, once>>
      /\ members' = [members EXCEPT ![o] = @ \ {d}]
  BY <1>1, <1>2 DEF Evict
<1>4. \A e \in Clients : Joined(e)' <=> Joined(e)
  BY DEF Evict, Inv, TypeOK, Joined
<1>5. CASE d \in Clients /\ o \in Clients /\ d \in members[o]
  <2>1. InRoom(d) /\ Staying(d) /\ hub[RoomOf[d]] = o
    BY <1>5 DEF Inv, RoomInv, InRoom
  <2>2. ASSUME NEW e \in Clients
        PROVE  InRoom(e)' <=> InRoom(e) /\ e # d
    <3>1. \A p \in Clients : members'[p] = IF p = o THEN members[p] \ {d}
                                            ELSE members[p]
      BY <1>3 DEF Inv, TypeOK
    <3>2. \A p \in Clients : d \in members[p] => p = o
      BY <2>1, <1>5 DEF Inv, RoomInv
    <3> QED BY <3>1, <3>2 DEF InRoom
  <2>3. /\ Standing(d) = "member" /\ Standing(d)' = "evicted"
    BY <1>3, <1>4, <1>5, <2>1, <2>2 DEF Standing, Staying, HasLeft, Joined
  <2>4. \A e \in Clients : e # d => Standing(e)' = Standing(e)
    BY <1>3, <1>4, <2>2 DEF Standing, HasLeft
  <2>5. [e \in Clients |-> Standing(e)]' =
          [[e \in Clients |-> Standing(e)] EXCEPT ![d] = "evicted"]
    BY <2>3, <2>4
  <2>6. Room!Evict(d)
    BY <1>3, <1>5, <2>3, <2>5 DEF Room!Evict
  <2> QED BY <1>5, <2>6 DEF Room!Next
<1>6. CASE ~(d \in Clients /\ o \in Clients /\ d \in members[o])
  <2>1. \A e \in Clients : InRoom(e)' <=> InRoom(e)
    BY <1>3, <1>6 DEF Inv, TypeOK, InRoom
  <2>2. \A e \in Clients : Standing(e)' = Standing(e)
    BY <1>3, <1>4, <2>1 DEF Standing, HasLeft
  <2>3. [e \in Clients |-> Standing(e)]' = [e \in Clients |-> Standing(e)]
    BY <2>2
  <2> QED BY <1>3, <2>3 DEF Room!membership
<1> QED BY <1>5, <1>6

(* Leave is the Leave of Membership. *)
LEMMA LeaveLeaves ==
  ASSUME Inv, NEW c \in Clients, NEW g \in Threads, Leave(c, g)
  PROVE  Room!Leave(c)
<1>1. PICK r \in Rooms : r = RoomOf[c]
  BY HubAssumption
<1>2. PICK gone \in BOOLEAN : gone = Emptied(c)
  BY DEF Emptied
<1>3. /\ hub' = [hub EXCEPT ![r] = IF gone THEN None ELSE @]
      /\ members' = [o \in Clients |->
                       IF o = hub[r] THEN Remaining(c) ELSE members[o]]
      /\ once[c] = "new" /\ once' = [once EXCEPT ![c] = "left"]
      /\ pc[c][g] = "close"
  BY <1>1, <1>2 DEF Leave
<1>4. \A e \in Clients : Joined(e)' <=> Joined(e)
  BY DEF Leave, Inv, TypeOK, Joined
<1>5. /\ \A e \in Clients : HasLeft(e)' <=> HasLeft(e) \/ e = c
      /\ ~HasLeft(c) /\ Joined(c)
  BY <1>3 DEF Inv, TypeOK, PhaseInv, Phase, HasLeft, Joined
<1>6. /\ Remaining(c) = Present(r) \ {c}
      /\ Present(r) = IF hub[r] = None THEN {} ELSE members[hub[r]]
  BY <1>1 DEF Remaining, Present
<1>7. ASSUME NEW e \in Clients PROVE InRoom(e)' <=> InRoom(e) /\ e # c
  <2>1. \A p \in Clients : e \in members'[p] <=>
          e \in members[p] /\ (p = hub[r] => e # c)
    BY <1>3, <1>6, HubAssumption
  <2>2. \A p \in Clients : c \in members[p] => p = hub[r]
    BY <1>1 DEF Inv, RoomInv
  <2> QED BY <2>1, <2>2 DEF InRoom
<1>8. Standing(c) \in {"member", "evicted"}
  BY <1>5 DEF Standing
<1>9. ASSUME NEW e \in Clients
      PROVE  Standing(e)' = IF e = c THEN "left" ELSE Standing(e)
  BY <1>4, <1>5, <1>7 DEF Standing
<1>10. [e \in Clients |-> Standing(e)]' =
         [[e \in Clients |-> Standing(e)] EXCEPT ![c] = "left"]
  BY <1>9
<1>11. gone <=> Room!Others(c) = {}
  <2>1. Present(r) \subseteq {e \in Clients : RoomOf[e] = r}
    BY HubAssumption, <1>6 DEF Inv, TypeOK, RoomInv
  <2>2. \A e \in Clients : Standing(e) = "member" <=> InRoom(e)
    BY DEF Standing
  <2>3. \A e \in Clients : RoomOf[e] = r =>
          (Standing(e) = "member" <=> e \in Present(r))
    BY <2>2, MembersOf
  <2>4. Remaining(c) = Room!Others(c)
    BY <1>1, <1>6, <2>1, <2>3 DEF Room!Others
  <2> QED BY <1>2, <2>4 DEF Emptied
<1>12. Open' = IF gone THEN Open \ {r} ELSE Open
  <2>1. \A q \in Rooms : hub'[q] = IF q = r /\ gone THEN None ELSE hub[q]
    BY <1>3 DEF Inv, TypeOK
  <2> QED BY <2>1 DEF Open
<1> QED BY <1>1, <1>8, <1>10, <1>11, <1>12 DEF Room!Leave, Open

(* So is the end of the process its restart. *)
LEMMA CrashRestarts == Crash => Room!Restart
<1> SUFFICES ASSUME Crash PROVE Room!Restart
  OBVIOUS
<1>1. \A e \in Clients : Standing(e)' = "out"
  BY DEF Crash, Standing, InRoom, HasLeft, Joined
<1>2. [e \in Clients |-> Standing(e)]' = [e \in Clients |-> "out"]
  BY <1>1
<1>3. {r \in Rooms : hub[r] # None}' = {}
  BY DEF Crash
<1> QED BY <1>2, <1>3 DEF Room!Restart

(* HandleWS before Join, read() and handleMsg take no step of Membership.  *)
LEMMA ReaderGoesOn ==
  ASSUME Inv, NEW c \in Clients,
         \/ Connect(c) \/ Greet(c) \/ GreetFails(c)
         \/ ReadBatch(c) \/ ReadError(c)
         \/ HandlePlain(c) \/ HandleClocked(c) \/ HandleClockedPanic(c)
         \/ \E d \in Doms : HandleLock(c, d) \/ HandleUnlock(c, d)
         \/ HandleLayer(c)
         \/ Ack(c) \/ Answer(c) \/ AnswerPanic(c) \/ EndBatch(c)
  PROVE  [Room!Next]_Room!membership
<1>1. UNCHANGED <<hub, members, once>>
  BY DEF Connect, Greet, GreetFails, ReadBatch, ReadError, HandlePlain,
         HandleClocked, HandleClockedPanic, HandleLock, HandleUnlock,
         HandleLayer, Ack, Answer, AnswerPanic, EndBatch
<1>2. CASE UNCHANGED pc
  BY <1>1, <1>2, Stays
<1>3. \/ UNCHANGED pc
      \/ \E l \in Labels \ {"off"} : pc' = [pc EXCEPT ![c]["reader"] = l]
  BY Zenon DEF Connect, Greet, GreetFails, ReadBatch, ReadError, HandlePlain,
         HandleClocked, HandleClockedPanic, HandleLock, HandleUnlock,
         HandleLayer, Ack, Answer, AnswerPanic, EndBatch, Labels
<1> QED BY <1>1, <1>2, <1>3, GoesOn DEF Inv

(* Broadcast without an eviction, close() behind Leave, write() and the    *)
(* failure of a websocket take none either.                                *)
LEMMA RestGoesOn ==
  ASSUME Inv, NEW c \in Clients, NEW g \in Threads,
         \/ Lookup(c, g) \/ Range(c, g) \/ Skip(c, g) \/ Deliver(c, g)
         \/ CloseAgain(c, g) \/ Unlock(c, g)
         \/ Write(c) \/ WriteEnds(c) \/ ConnFail(c)
  PROVE  [Room!Next]_Room!membership
<1>1. UNCHANGED <<hub, members, once>>
  BY DEF Lookup, Range, Skip, Deliver, CloseAgain, Unlock, Write, WriteEnds,
         ConnFail
<1>2. CASE UNCHANGED pc
  BY <1>1, <1>2, Stays
<1>3. CASE Lookup(c, g) \/ Range(c, g)
  <2>1. /\ pc[c][g] # "off"
        /\ \E l \in Labels \ {"off"} : pc' = [pc EXCEPT ![c][g] = l]
    BY <1>3 DEF Lookup, Range, Return, After, Labels
  <2> QED BY <1>1, <2>1, GoesOn DEF Inv
<1>4. CASE \/ Skip(c, g) \/ Deliver(c, g) \/ CloseAgain(c, g) \/ Unlock(c, g)
  <2>1. /\ pc[c][g] # "off"
        /\ \E l \in Labels \ {"off"} : pc' = [pc EXCEPT ![c][g] = l]
    BY <1>4 DEF Skip, Deliver, CloseAgain, Unlock, Labels
  <2> QED BY <1>1, <2>1, GoesOn DEF Inv
<1>5. CASE (Write(c) \/ WriteEnds(c)) /\ pc' # pc
  <2>1. /\ pc[c]["writer"] # "off"
        /\ pc' = [pc EXCEPT ![c]["writer"] = "close"]
    BY <1>5 DEF Write, WriteEnds
  <2> QED BY <1>1, <2>1, GoesOn DEF Inv
<1>6. CASE ConnFail(c)
  BY <1>2, <1>6 DEF ConnFail
<1> QED BY <1>2, <1>3, <1>4, <1>5, <1>6

(* Whoever closes the channel, or panics while it announces its leaving,   *)
(* has left before.                                                        *)
LEMMA CloseGoesOn ==
  ASSUME Inv, NEW c \in Clients,
         SendPanic(c) \/ \E g \in Threads : CloseSend(c, g)
  PROVE  [Room!Next]_Room!membership
<1>1. UNCHANGED <<hub, members>>
  BY DEF SendPanic, CloseSend
<1>2. \A e \in Clients : Joined(e)' <=> Joined(e)
  <2>1. CASE SendPanic(c)
    BY <2>1 DEF SendPanic, Inv, TypeOK, Joined
  <2>2. ASSUME NEW g \in Threads, CloseSend(c, g)
        PROVE  \A e \in Clients : Joined(e)' <=> Joined(e)
    BY <2>2 DEF CloseSend, Inv, TypeOK, Joined
  <2> QED BY <2>1, <2>2
<1>3. \A e \in Clients : HasLeft(e)' <=> HasLeft(e)
  <2>1. CASE SendPanic(c)
    BY <2>1 DEF SendPanic, OnClosed, Inv, TypeOK, PhaseInv, Phase, HasLeft
  <2>2. ASSUME NEW g \in Threads, CloseSend(c, g)
        PROVE  \A e \in Clients : HasLeft(e)' <=> HasLeft(e)
    BY <2>2 DEF CloseSend, Inv, TypeOK, PhaseInv, Phase, HasLeft
  <2> QED BY <2>1, <2>2
<1> QED BY <1>1, <1>2, <1>3, SameStanding

(* Every step of the hub is a step of Membership, or none. *)
LEMMA MembershipStep ==
  Inv /\ [Next]_vars => [Room!Next]_Room!membership
<1> SUFFICES ASSUME Inv, [Next]_vars PROVE [Room!Next]_Room!membership
  OBVIOUS
<1>1. CASE UNCHANGED vars
  BY <1>1, Stays DEF vars
<1>2. CASE Crash
  BY <1>2, CrashRestarts DEF Room!Next
<1>3. ASSUME NEW c \in Clients, Join(c) PROVE [Room!Next]_Room!membership
  BY <1>3, JoinJoins DEF Room!Next
<1>4. ASSUME NEW c \in Clients, NEW g \in Threads, Leave(c, g)
      PROVE  [Room!Next]_Room!membership
  BY <1>4, LeaveLeaves DEF Room!Next
<1>5. ASSUME NEW c \in Clients, NEW g \in Threads, SharedStep(c, g)
      PROVE  [Room!Next]_Room!membership
  BY <1>4, <1>5, EvictEvicts, RestGoesOn, CloseGoesOn DEF SharedStep
<1>6. ASSUME NEW c \in Clients, WriterStep(c)
      PROVE  [Room!Next]_Room!membership
  BY <1>2, <1>6, RestGoesOn DEF WriterStep, WriterPanic
<1>7. ASSUME NEW c \in Clients, ReaderStep(c)
      PROVE  [Room!Next]_Room!membership
  BY <1>3, <1>7, ReaderGoesOn, CloseGoesOn DEF ReaderStep
<1>8. ASSUME NEW c \in Clients, Connect(c) \/ ReadBatch(c) \/ ConnFail(c)
      PROVE  [Room!Next]_Room!membership
  BY <1>8, ReaderGoesOn, RestGoesOn
<1> QED BY <1>1, <1>2, <1>5, <1>6, <1>7, <1>8 DEF Next, MapRace, Ended

(* The hub implements Membership: a connection joins once and leaves once, *)
(* a Broadcast that evicts from a room object it found earlier closes no   *)
(* room, and a room is removed by the Leave that finds no member but the   *)
(* leaver, and by no other step (hub.go:34-69, 131 and 141).               *)
THEOREM ImplementsMembershipCorrect == Spec => ImplementsMembership
<1>1. Init => Room!Init
  <2> SUFFICES ASSUME Init PROVE Room!Init
    OBVIOUS
  <2>1. \A e \in Clients : Standing(e) = "out"
    BY DEF Init, Standing, InRoom, HasLeft, Joined
  <2>2. {r \in Rooms : hub[r] # None} = {}
    BY DEF Init
  <2> QED BY <2>1, <2>2 DEF Room!Init
<1> QED BY <1>1, MembershipStep, InvCorrect, PTL
        DEF Spec, ImplementsMembership, Room!Spec
=============================================================================
