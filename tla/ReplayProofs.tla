---------------------------- MODULE ReplayProofs ----------------------------
(* Theorems about Replay, for any connections, strokes and layers.         *)
EXTENDS Replay, TLAPS

USE DEF strokes, hub, scan, known, Goto

----------------------------------------------------------------------------
(* Type correctness.                                                       *)

(* A message is a stroke and a number. *)
LEMMA MessageType ==
  ASSUME NEW k \in Strokes
  PROVE  /\ <<k, 0>> \in Messages /\ <<k, End>> \in Messages
         /\ 0 # End
         /\ \A n \in 1..MaxPoint : <<k, n>> \in Messages /\ n # End
  BY ReplayAssumption DEF Messages, End

(* Handling a message m of stroke k: the message and the phase of its      *)
(* stroke agree as TypeOK demands.                                         *)
LEMMA SaysType ==
  ASSUME TypeOK, NEW c \in Clients, NEW k \in Strokes, NEW m \in Messages,
         Says(c, m), m[1] = k,
         NEW ph \in Phases \ {"new"}, phase' = [phase EXCEPT ![k] = ph],
         m[2] = End => ph \notin {"drawing", "dropped"},
         ph \in {"drawing", "dropped"} =>
           phase[k] \in {"new", "drawing", "dropped"}
  PROVE  /\ made' \subseteq Messages
         /\ out' \in [Clients -> SUBSET Messages]
         /\ phase' \in [Strokes -> Phases]
         /\ \A x \in made' : phase'[x[1]] # "new"
         /\ \A x \in made' :
              x[2] = End => phase'[x[1]] \notin {"drawing", "dropped"}
<1>1. /\ made' \subseteq Messages
      /\ phase' \in [Strokes -> Phases]
  BY DEF TypeOK, Says
<1>2. out' \in [Clients -> SUBSET Messages]
  BY DEF TypeOK, Says
<1>3. \A x \in Messages : x[1] \in Strokes
  BY DEF Messages
<1>4. \A x \in made' : phase'[x[1]] # "new"
  BY <1>3 DEF TypeOK, Says
<1>5. \A x \in made' :
        x[2] = End => phase'[x[1]] \notin {"drawing", "dropped"}
  <2> SUFFICES ASSUME NEW x \in made', x[2] = End
               PROVE  phase'[x[1]] \notin {"drawing", "dropped"}
    OBVIOUS
  <2>1. CASE x \in made
    BY <2>1, <1>3 DEF TypeOK
  <2>2. CASE x = m
    BY <2>2 DEF TypeOK
  <2> QED BY <2>1, <2>2 DEF Says
<1> QED BY <1>1, <1>2, <1>4, <1>5

(* A panic keeps the types, whatever the reader was doing. *)
LEMMA PanicType == ASSUME TypeOK, NEW c \in Clients, Panic(c) PROVE TypeOK'
  BY ReplayAssumption DEF TypeOK, Panic, Labels

(* HandleWS and the replay keep the types. *)
LEMMA ReplayingType ==
  ASSUME TypeOK, NEW c \in Clients, Replaying(c)
  PROVE  TypeOK'
<1>1. CASE Connect(c)
  BY <1>1 DEF TypeOK, Connect, Labels
<1>2. CASE ReadEvents(c)
  BY <1>2 DEF TypeOK, ReadEvents, Kept, Labels
<1>3. CASE ReadBuffer(c)
  BY <1>3 DEF TypeOK, ReadBuffer, Kept, Labels
<1>4. CASE ReplayFails(c)
  BY <1>4 DEF TypeOK, ReplayFails, Labels
<1>5. CASE Reply(c)
  BY <1>5 DEF TypeOK, Reply, Labels
<1>6. CASE Join(c)
  BY <1>6 DEF TypeOK, Join, Labels
<1>7. CASE GreetingPanic(c) \/ OwnSendPanic(c)
  BY <1>7, PanicType DEF GreetingPanic, OwnSendPanic
<1>8. ASSUME NEW l \in Layers, ChangeLayer(c, l) PROVE TypeOK'
  BY <1>8 DEF TypeOK, ChangeLayer, Unsettled, Labels
<1>9. CASE Ack(c)
  BY <1>9 DEF TypeOK, Ack, Labels
<1> QED BY <1>1, <1>2, <1>3, <1>4, <1>5, <1>6, <1>7, <1>8, <1>9 DEF Replaying

(* The operations on strokes keep the types. *)
LEMMA DrawingType ==
  ASSUME TypeOK, NEW c \in Clients, Drawing(c)
  PROVE  TypeOK'
<1>1. ASSUME NEW k \in Strokes, StrokeStart(c, k) PROVE TypeOK'
  <2>1. /\ made' \subseteq Messages
        /\ out' \in [Clients -> SUBSET Messages]
        /\ phase' \in [Strokes -> Phases]
        /\ \A x \in made' : phase'[x[1]] # "new"
        /\ \A x \in made' :
             x[2] = End => phase'[x[1]] \notin {"drawing", "dropped"}
    <3>1. /\ Says(c, <<k, 0>>) /\ phase[k] = "new"
          /\ phase' = [phase EXCEPT ![k] = "drawing"]
      BY <1>1 DEF StrokeStart
    <3> QED BY <3>1, MessageType, SaysType DEF Phases
  <2>2. on' \in [Strokes -> Layers]
    BY <1>1 DEF TypeOK, StrokeStart
  <2> QED BY <1>1, <2>1, <2>2 DEF TypeOK, StrokeStart
<1>2. ASSUME NEW k \in Strokes, StrokeUpdate(c, k) PROVE TypeOK'
  <2>1. PICK n \in 1..MaxPoint : Says(c, <<k, n>>)
    BY <1>2 DEF StrokeUpdate
  <2>2. /\ made' \subseteq Messages
        /\ out' \in [Clients -> SUBSET Messages]
        /\ phase' \in [Strokes -> Phases]
        /\ \A x \in made' : phase'[x[1]] # "new"
        /\ \A x \in made' :
             x[2] = End => phase'[x[1]] \notin {"drawing", "dropped"}
    <3> DEFINE m == <<k, n>>
               ph == phase[k]
    <3>1. phase[k] \in {"drawing", "dropped"} /\ phase' = phase
      BY <1>2 DEF StrokeUpdate
    <3>2. phase' = [phase EXCEPT ![k] = ph]
      BY <3>1 DEF TypeOK
    <3>3. m \in Messages /\ m[1] = k /\ m[2] # End /\ Says(c, m)
      BY <2>1, MessageType
    <3>4. ph \in Phases \ {"new"} /\ ph \in {"new", "drawing", "dropped"}
      BY <3>1 DEF Phases
    <3>5. ph = phase[k]
      OBVIOUS
    <3> HIDE DEF m, ph
    <3> QED BY <3>2, <3>3, <3>4, <3>5, SaysType
  <2> QED BY <1>2, <2>2 DEF TypeOK, StrokeUpdate
<1>3. ASSUME NEW k \in Strokes, StrokeEnd(c, k) PROVE TypeOK'
  <2>1. /\ made' \subseteq Messages
        /\ out' \in [Clients -> SUBSET Messages]
        /\ phase' \in [Strokes -> Phases]
        /\ \A x \in made' : phase'[x[1]] # "new"
        /\ \A x \in made' :
             x[2] = End => phase'[x[1]] \notin {"drawing", "dropped"}
    <3> DEFINE ph == IF phase[k] = "drawing" THEN "ended" ELSE "lost"
    <3>1. Says(c, <<k, End>>) /\ phase' = [phase EXCEPT ![k] = ph]
      BY <1>3 DEF StrokeEnd
    <3>2. ph \in Phases \ {"new", "drawing", "dropped"}
      BY DEF Phases
    <3> HIDE DEF ph
    <3> QED BY <3>1, <3>2, MessageType, SaysType
  <2> QED BY <1>3, <2>1 DEF TypeOK, StrokeEnd
<1>4. CASE NextClockPanic(c)
  BY <1>4, PanicType DEF NextClockPanic
<1> QED BY <1>1, <1>2, <1>3, <1>4 DEF Drawing

(* Broadcast keeps the types. *)
LEMMA BroadcastType ==
  ASSUME TypeOK, NEW c \in Clients, Broadcast(c)
  PROVE  TypeOK'
<1>1. CASE Lookup(c)
  BY <1>1 DEF TypeOK, Lookup, Coming, Labels
<1>2. ASSUME NEW d \in Clients, Skip(c, d) PROVE TypeOK'
  BY <1>2 DEF TypeOK, Skip, Labels
<1>3. ASSUME NEW d \in Clients, Pick(c, d) PROVE TypeOK'
  BY <1>3, ReplayAssumption DEF TypeOK, Pick, Labels
<1>4. CASE Deliver(c)
  BY <1>4 DEF TypeOK, Deliver, Labels
<1>5. CASE Evict(c)
  BY <1>5 DEF TypeOK, Evict, Labels
<1>6. CASE SendPanic(c)
  BY <1>6, PanicType DEF SendPanic
<1>7. CASE Return(c)
  BY <1>7 DEF TypeOK, Return, Labels
<1> QED BY <1>1, <1>2, <1>3, <1>4, <1>5, <1>6, <1>7 DEF Broadcast

(* Every step keeps the types. *)
LEMMA TypeStep == TypeOK /\ [Next]_vars => TypeOK'
<1> SUFFICES ASSUME TypeOK, [Next]_vars PROVE TypeOK'
  OBVIOUS
<1>1. ASSUME NEW c \in Clients, Replaying(c) \/ Drawing(c) \/ Broadcast(c)
      PROVE  TypeOK'
  BY <1>1, ReplayingType, DrawingType, BroadcastType
<1>2. ASSUME NEW c \in Clients, Leave(c) PROVE TypeOK'
  BY <1>2 DEF TypeOK, Leave
<1>3. ASSUME NEW c \in Clients, ReadEnds(c) PROVE TypeOK'
  BY <1>3 DEF TypeOK, ReadEnds, Labels
<1>4. CASE StrokeTTLGC
  <2>1. PICK old \in SUBSET {k \in Strokes : phase[k] = "drawing"} :
          phase' = [k \in Strokes |->
                      IF k \in old THEN "dropped" ELSE phase[k]]
    BY <1>4 DEF StrokeTTLGC
  <2>2. /\ phase' \in [Strokes -> Phases]
        /\ \A k \in Strokes :
             phase'[k] # phase[k] => phase[k] = "drawing" /\ phase'[k] = "dropped"
    BY <2>1 DEF TypeOK, Phases
  <2>3. \A m \in made : m[1] \in Strokes
    BY DEF TypeOK, Messages
  <2>4. /\ \A m \in made' : phase'[m[1]] # "new"
        /\ \A m \in made' :
             m[2] = End => phase'[m[1]] \notin {"drawing", "dropped"}
    BY <1>4, <2>2, <2>3 DEF TypeOK, StrokeTTLGC
  <2> QED BY <1>4, <2>2, <2>4 DEF TypeOK, StrokeTTLGC
<1>5. ASSUME NEW k \in Strokes, Save(k) PROVE TypeOK'
  BY <1>5 DEF TypeOK, Save, Phases
<1>6. CASE Crash
  <2>1. /\ made' \subseteq Messages
        /\ phase' \in [Strokes -> Phases]
        /\ \A m \in made' : phase'[m[1]] = "saved"
    <3>1. \A m \in made : m[1] \in Strokes
      BY DEF TypeOK, Messages
    <3> QED BY <1>6, <3>1 DEF TypeOK, Crash, Phases
  <2>2. on' \in [Strokes -> Layers]
    BY <1>6, ReplayAssumption DEF TypeOK, Crash
  <2>3. /\ layer'  \in [Clients -> Layers]
        /\ pc'     \in [Clients -> Labels]
        /\ status' \in [Clients -> {"out", "joined", "switching", "synced"}]
        /\ aim'    \in [Clients -> Clients \cup {None}]
        /\ \A c \in Clients : aim'[c] = None /\ pc'[c] = "out"
    BY <1>6, ReplayAssumption DEF Crash, Labels
  <2>4. /\ out'    \in [Clients -> SUBSET Messages]
        /\ snap'   \in [Clients -> SUBSET Messages]
        /\ given'  \in [Clients -> SUBSET Messages]
    BY <1>6 DEF Crash
  <2>5. todo' \in [Clients -> SUBSET Clients] /\ \A c \in Clients : todo'[c] = {}
    BY <1>6 DEF Crash
  <2>6. /\ moved' = {} /\ room' = {} /\ left' = {} /\ open' = FALSE
    BY <1>6 DEF Crash
  <2> QED BY <2>1, <2>2, <2>3, <2>4, <2>5, <2>6 DEF TypeOK
<1>7. CASE UNCHANGED vars
  BY <1>7 DEF TypeOK, vars
<1> QED BY <1>1, <1>2, <1>3, <1>4, <1>5, <1>6, <1>7 DEF Next

(* The initial states are of the right type. *)
LEMMA TypeInit == Init => TypeOK
<1> SUFFICES ASSUME Init PROVE TypeOK
  OBVIOUS
<1>1. /\ on     \in [Strokes -> Layers]
      /\ phase  \in [Strokes -> Phases]
      /\ layer  \in [Clients -> Layers]
      /\ pc     \in [Clients -> Labels]
      /\ status \in [Clients -> {"out", "joined", "switching", "synced"}]
      /\ aim    \in [Clients -> Clients \cup {None}]
      /\ \A c \in Clients : aim[c] = None /\ pc[c] = "out"
  BY ReplayAssumption DEF Init, Nowhere, Phases, Labels
<1>2. /\ out   \in [Clients -> SUBSET Messages]
      /\ snap  \in [Clients -> SUBSET Messages]
      /\ given \in [Clients -> SUBSET Messages]
  BY DEF Init, Nowhere
<1>3. todo \in [Clients -> SUBSET Clients] /\ \A c \in Clients : todo[c] = {}
  BY DEF Init, Nowhere
<1>4. moved = {} /\ room = {} /\ left = {} /\ open = FALSE /\ made = {}
  BY DEF Init, Nowhere
<1> QED BY <1>1, <1>2, <1>3, <1>4 DEF TypeOK

(* TypeOK is an invariant: in particular a Broadcast has somebody to send  *)
(* to exactly between a range step and the send, and a stroke-end takes    *)
(* its stroke out of the buffer.                                           *)
THEOREM TypeCorrect == Spec => []TypeOK
  BY TypeInit, TypeStep, PTL DEF Spec

----------------------------------------------------------------------------
(* What a peer that changed layer has been sent.                           *)

(* A frame has only messages of its sender's strokes, and with a           *)
(* stroke-start all that was handled of the stroke.                        *)
FrameInv ==
  \A c \in Clients :
    /\ \A m \in out[c] : m \in made /\ Artist[m[1]] = c
    /\ \A k \in Strokes, m \in made :
         <<k, 0>> \in out[c] /\ m[1] = k => m \in out[c]

(* Unless it is recorded as moved, a stroke that is not settled is on the  *)
(* layer its artist is on.                                                 *)
LayerInv ==
  \A k \in Strokes :
    k \notin moved /\ k \in Unsettled(Artist[k]) => layer[Artist[k]] = on[k]

(* A room with members is in the map; a replay is read by who is not a     *)
(* member yet or has changed layer.                                        *)
StatusInv ==
  /\ room # {} => open
  /\ \A d \in Clients :
       /\ status[d] = "out" => d \notin room
       /\ pc[d] \in {"out", "join"} => status[d] = "out"
       /\ pc[d] \in {"events", "buffer", "reply", "ack"} =>
            status[d] \in {"out", "switching"}

(* What GetReplay has found in the table is there in full and for good. *)
EventsInv ==
  \A d \in Clients, k \in Strokes :
    pc[d] = "buffer" /\ <<k, 0>> \in snap[d] =>
      phase[k] = "saved" /\ \A m \in made : m[1] = k => m \in snap[d]

(* What a stroke that d was shown lacks is on its way, from the            *)
(* change-layer-accept on; after the buffer was read, the same of every    *)
(* stroke that is being drawn; and when the replay was sent.               *)
CatchUp(d, k) ==
  /\ pc[d] \in {"events", "buffer"} /\ <<k, 0>> \in given[d] =>
       Covered(d, k, given[d])
  /\ pc[d] = "reply" => Whole(d, k, given[d] \cup snap[d])
  /\ status[d] = "synced" => Whole(d, k, given[d])

CatchUpInv == \A d \in Clients, k \in Strokes : Follows(d, k) => CatchUp(d, k)

Inv ==
  TypeOK /\ FrameInv /\ LayerInv /\ StatusInv /\ EventsInv /\ CatchUpInv

(* The actions of the module. *)
USE DEF Replaying, Drawing, Broadcast

(* Messages are of strokes. *)
LEMMA OfStroke ==
  ASSUME TypeOK
  PROVE  /\ \A m \in made : m[1] \in Strokes
         /\ \A c \in Clients : \A m \in out[c] : m[1] \in Strokes
         /\ \A k \in Strokes : Artist[k] \in Clients
  BY ReplayAssumption DEF TypeOK, Messages

(* A message more in the frame of its stroke's artist keeps FrameInv; a    *)
(* stroke-start is the first message of its stroke.                        *)
LEMMA SaysFrame ==
  ASSUME TypeOK, FrameInv, NEW c \in Clients, NEW k \in Strokes, NEW n,
         Artist[k] = c, Says(c, <<k, n>>),
         n = 0 => \A m \in made : m[1] # k
  PROVE  FrameInv'
<1> DEFINE new == <<k, n>>
<1>1. /\ new[1] = k
      /\ \A x : <<x, 0>> = new => x = k /\ n = 0
  OBVIOUS
<1>2. /\ made' = made \cup {new}
      /\ \A d \in Clients :
           out'[d] = IF d = c THEN out[d] \cup {new} ELSE out[d]
  BY DEF Says, TypeOK
<1> HIDE DEF new
<1>3. ASSUME NEW d \in Clients, NEW m \in out'[d]
      PROVE  m \in made' /\ Artist[m[1]] = d
  <2>1. CASE m \in out[d]
    BY <1>2, <2>1 DEF FrameInv
  <2>2. CASE m = new /\ d = c
    BY <1>1, <1>2, <2>2
  <2> QED BY <1>2, <2>1, <2>2
<1>4. ASSUME NEW d \in Clients, NEW x \in Strokes, NEW m \in made',
             <<x, 0>> \in out'[d], m[1] = x
      PROVE  m \in out'[d]
  <2>1. CASE <<x, 0>> \in out[d] /\ m \in made
    BY <1>2, <1>4, <2>1 DEF FrameInv
  <2>2. CASE m = new
    <3>1. <<x, 0>>[1] = x
      OBVIOUS
    <3>2. Artist[x] = d
      BY <1>3, <1>4, <3>1
    <3>3. x = k
      BY <1>1, <1>4, <2>2
    <3> QED BY <1>2, <2>2, <3>2, <3>3
  <2>3. CASE <<x, 0>> = new /\ m \in made
    BY <1>1, <1>4, <2>3
  <2> QED BY <1>2, <1>4, <2>1, <2>2, <2>3
<1> QED BY <1>3, <1>4 DEF FrameInv

(* The steps that change a frame: a message, and its end. *)
LEMMA FrameStep == TypeOK /\ FrameInv /\ [Next]_vars => FrameInv'
<1> SUFFICES ASSUME TypeOK, FrameInv, [Next]_vars PROVE FrameInv'
  OBVIOUS
<1>1. CASE UNCHANGED <<out, made>>
  BY <1>1 DEF FrameInv
<1>2. ASSUME NEW c \in Clients, made' = made,
             out' = [out EXCEPT ![c] = {}]
      PROVE  FrameInv'
  BY <1>2 DEF FrameInv, TypeOK
<1>3. ASSUME NEW c \in Clients, NEW k \in Strokes,
             StrokeStart(c, k) \/ StrokeUpdate(c, k) \/ StrokeEnd(c, k)
      PROVE  FrameInv'
  <2>1. CASE StrokeStart(c, k)
    <3>1. \A m \in made : m[1] # k
      BY <2>1 DEF StrokeStart, TypeOK
    <3> QED BY <2>1, <3>1, SaysFrame DEF StrokeStart
  <2>2. CASE StrokeUpdate(c, k)
    <3>1. PICK n \in 1..MaxPoint : Says(c, <<k, n>>)
      BY <2>2 DEF StrokeUpdate
    <3>2. n # 0 /\ Artist[k] = c
      BY <2>2 DEF StrokeUpdate
    <3> QED BY <3>1, <3>2, SaysFrame
  <2>3. CASE StrokeEnd(c, k)
    <3>1. End # 0
      BY MessageType
    <3> QED BY <2>3, <3>1, SaysFrame DEF StrokeEnd
  <2> QED BY <1>3, <2>1, <2>2, <2>3
<1>4. CASE Crash
  BY <1>4 DEF Crash, FrameInv
<1>5. \/ UNCHANGED <<out, made>>
      \/ \E c \in Clients : made' = made /\ out' = [out EXCEPT ![c] = {}]
      \/ \E c \in Clients, k \in Strokes :
           StrokeStart(c, k) \/ StrokeUpdate(c, k) \/ StrokeEnd(c, k)
      \/ Crash
  BY DEF Next, vars, Connect, ReadEvents, ReadBuffer, ReplayFails, Reply, Join,
         GreetingPanic, ChangeLayer, Ack, OwnSendPanic, NextClockPanic, Lookup,
         Skip, Pick, Deliver, Evict, SendPanic, Return, Panic, Leave, ReadEnds,
         StrokeTTLGC, Save
<1> QED BY <1>1, <1>2, <1>3, <1>4, <1>5

(* Who reads a replay, and whether the room is open. *)
LEMMA StatusStep == TypeOK /\ StatusInv /\ [Next]_vars => StatusInv'
<1> SUFFICES ASSUME TypeOK, StatusInv, [Next]_vars PROVE StatusInv'
  OBVIOUS
<1> USE DEF TypeOK, StatusInv
<1>1. ASSUME NEW c \in Clients, Replaying(c) PROVE StatusInv'
  <2>1. CASE Connect(c) BY <2>1 DEF Connect
  <2>2. CASE ReadEvents(c) BY <2>2 DEF ReadEvents
  <2>3. CASE ReadBuffer(c) BY <2>3 DEF ReadBuffer
  <2>4. CASE ReplayFails(c) BY <2>4 DEF ReplayFails
  <2>5. CASE Reply(c) BY <2>5 DEF Reply
  <2>6. CASE Join(c) BY <2>6 DEF Join
  <2>7. CASE GreetingPanic(c) \/ OwnSendPanic(c)
    BY <2>7 DEF GreetingPanic, OwnSendPanic, Panic
  <2>8. ASSUME NEW l \in Layers, ChangeLayer(c, l) PROVE StatusInv'
    BY <2>8 DEF ChangeLayer
  <2>9. CASE Ack(c) BY <2>9 DEF Ack
  <2> QED BY <1>1, <2>1, <2>2, <2>3, <2>4, <2>5, <2>6, <2>7, <2>8, <2>9
<1>2. ASSUME NEW c \in Clients, Drawing(c) PROVE StatusInv'
  BY <1>2 DEF StrokeStart, StrokeUpdate, StrokeEnd, NextClockPanic, Panic
<1>3. ASSUME NEW c \in Clients, Broadcast(c) PROVE StatusInv'
  BY <1>3 DEF Lookup, Skip, Pick, Deliver, Evict, SendPanic, Return, Panic
<1>4. ASSUME NEW c \in Clients, Leave(c) \/ ReadEnds(c) PROVE StatusInv'
  BY <1>4 DEF Leave, ReadEnds
<1>5. CASE StrokeTTLGC \/ \E k \in Strokes : Save(k)
  BY <1>5 DEF StrokeTTLGC, Save
<1>6. CASE Crash
  BY <1>6 DEF Crash
<1>7. CASE UNCHANGED vars
  BY <1>7 DEF vars
<1> QED BY <1>1, <1>2, <1>3, <1>4, <1>5, <1>6, <1>7 DEF Next

(* The steps that unsettle a stroke, or move its artist.                   *)
LEMMA LayerStep == TypeOK /\ LayerInv /\ [Next]_vars => LayerInv'
<1> SUFFICES ASSUME TypeOK, LayerInv, [Next]_vars,
                    NEW k \in Strokes, k \notin moved',
                    k \in Unsettled(Artist[k])'
             PROVE  layer'[Artist[k]] = on'[k]
  BY DEF LayerInv
<1> DEFINE A == Artist[k]
<1>0. A \in Clients
  BY OfStroke
<1>1. CASE /\ moved \subseteq moved' /\ layer'[A] = layer[A] /\ on'[k] = on[k]
           /\ k \in Unsettled(A)
  BY <1>1 DEF LayerInv
<1>2. CASE /\ UNCHANGED <<phase, on, moved, layer>>
           /\ out'[A] \subseteq out[A]
  <2>1. k \in Unsettled(A)
    BY <1>2 DEF Unsettled
  <2> QED BY <1>1, <1>2, <2>1
<1>3. ASSUME NEW c \in Clients, Replaying(c) PROVE layer'[A] = on'[k]
  <2>1. ASSUME NEW l \in Layers, ChangeLayer(c, l) PROVE layer'[A] = on'[k]
    <3>1. k \in Unsettled(A)
      BY <2>1 DEF ChangeLayer, Unsettled
    <3>2. c # A
      BY <2>1, <3>1 DEF ChangeLayer
    <3>3. layer'[A] = layer[A] /\ on' = on /\ moved \subseteq moved'
      BY <1>0, <2>1, <3>2 DEF ChangeLayer, TypeOK
    <3> QED BY <1>1, <3>1, <3>3
  <2>2. CASE GreetingPanic(c) \/ OwnSendPanic(c)
    BY <1>0, <1>2, <2>2 DEF GreetingPanic, OwnSendPanic, Panic, TypeOK
  <2>3. CASE \/ Connect(c) \/ ReadEvents(c) \/ ReadBuffer(c)
             \/ ReplayFails(c) \/ Reply(c) \/ Join(c) \/ Ack(c)
    BY <1>2, <2>3 DEF Connect, ReadEvents, ReadBuffer, ReplayFails, Reply,
                      Join, Ack
  <2> QED BY <1>3, <2>1, <2>2, <2>3
<1>4. ASSUME NEW c \in Clients, Drawing(c) PROVE layer'[A] = on'[k]
  <2>1. ASSUME NEW x \in Strokes, NEW n, Says(c, <<x, n>>), x # k
        PROVE  \A m \in out'[A] : m[1] = k => m \in out[A]
    <3>1. out'[A] \subseteq out[A] \cup {<<x, n>>}
      BY <1>0, <2>1 DEF Says, TypeOK
    <3>2. <<x, n>>[1] = x
      OBVIOUS
    <3> QED BY <2>1, <3>1, <3>2
  <2>2. ASSUME NEW x \in Strokes, StrokeStart(c, x) PROVE layer'[A] = on'[k]
    <3>1. CASE x = k
      BY <2>2, <3>1 DEF StrokeStart, TypeOK
    <3>2. CASE x # k
      <4>1. phase'[k] = phase[k] /\ on'[k] = on[k] /\ layer' = layer
            /\ moved' = moved
        BY <2>2, <3>2 DEF StrokeStart, TypeOK
      <4>2. k \in Unsettled(A)
        BY <2>1, <2>2, <3>2, <4>1 DEF Unsettled, StrokeStart
      <4> QED BY <1>1, <4>1, <4>2
    <3> QED BY <3>1, <3>2
  <2>3. ASSUME NEW x \in Strokes, StrokeUpdate(c, x) PROVE layer'[A] = on'[k]
    <3>1. CASE x = k
      BY <1>1, <2>3, <3>1 DEF StrokeUpdate, Unsettled
    <3>2. CASE x # k
      BY <1>1, <2>1, <2>3, <3>2 DEF StrokeUpdate, Unsettled
    <3> QED BY <3>1, <3>2
  <2>4. ASSUME NEW x \in Strokes, StrokeEnd(c, x) PROVE layer'[A] = on'[k]
    <3>1. CASE x = k
      BY <1>1, <2>4, <3>1 DEF StrokeEnd, Unsettled
    <3>2. CASE x # k
      <4>1. phase'[k] = phase[k]
        BY <2>4, <3>2 DEF StrokeEnd, TypeOK
      <4> QED BY <1>1, <2>1, <2>4, <3>2, <4>1 DEF StrokeEnd, Unsettled
    <3> QED BY <3>1, <3>2
  <2>5. CASE NextClockPanic(c)
    BY <1>0, <1>2, <2>5 DEF NextClockPanic, Panic, TypeOK
  <2> QED BY <1>4, <2>2, <2>3, <2>4, <2>5
<1>5. ASSUME NEW c \in Clients, Broadcast(c) PROVE layer'[A] = on'[k]
  <2>1. UNCHANGED <<phase, on, moved, layer>>
    BY <1>5 DEF Lookup, Skip, Pick, Deliver, Evict, SendPanic, Return, Panic
  <2>2. out' = out \/ out' = [out EXCEPT ![c] = {}]
    BY <1>5 DEF Lookup, Skip, Pick, Deliver, Evict, SendPanic, Return, Panic
  <2>3. out'[A] \subseteq out[A]
    BY <1>0, <2>2 DEF TypeOK
  <2> QED BY <1>2, <2>1, <2>3
<1>6. ASSUME NEW c \in Clients, Leave(c) \/ ReadEnds(c)
      PROVE  layer'[A] = on'[k]
  BY <1>2, <1>6 DEF Leave, ReadEnds
<1>7. CASE StrokeTTLGC
  <2>1. phase'[k] \in {"drawing", "dropped"} =>
          phase[k] \in {"drawing", "dropped"}
    BY <1>7 DEF StrokeTTLGC
  <2> QED BY <1>1, <1>7, <2>1 DEF StrokeTTLGC, Unsettled
<1>8. ASSUME NEW x \in Strokes, Save(x) PROVE layer'[A] = on'[k]
  <2>1. phase'[k] \in {"drawing", "dropped"} => phase'[k] = phase[k]
    BY <1>8 DEF Save, TypeOK
  <2> QED BY <1>1, <1>8, <2>1 DEF Save, Unsettled
<1>9. CASE Crash
  BY <1>0, <1>9 DEF Crash, Unsettled
<1>10. CASE UNCHANGED vars
  BY <1>2, <1>10 DEF vars
<1> QED BY <1>3, <1>4, <1>5, <1>6, <1>7, <1>8, <1>9, <1>10 DEF Next

(* A message of another stroke, or of a stroke that is not saved, leaves   *)
(* what is saved as it is.                                                 *)
LEMMA SavedMade ==
  ASSUME TypeOK, NEW c \in Clients, NEW x \in Strokes,
         StrokeStart(c, x) \/ StrokeUpdate(c, x) \/ StrokeEnd(c, x),
         NEW k \in Strokes, phase[k] = "saved"
  PROVE  phase'[k] = "saved" /\ \A m \in made' : m[1] = k => m \in made
<1>1. k # x
  BY DEF StrokeStart, StrokeUpdate, StrokeEnd
<1>2. phase'[k] = "saved"
  BY <1>1 DEF StrokeStart, StrokeUpdate, StrokeEnd, TypeOK
<1>3. PICK n : Says(c, <<x, n>>)
  BY DEF StrokeStart, StrokeUpdate, StrokeEnd
<1>4. <<x, n>>[1] = x
  OBVIOUS
<1> QED BY <1>1, <1>2, <1>3, <1>4 DEF Says

(* What GetReplay found in the table stays there.                          *)
LEMMA EventsStep == TypeOK /\ EventsInv /\ [Next]_vars => EventsInv'
<1> DEFINE Found(d, k) ==
             phase[k] = "saved" /\ \A m \in made : m[1] = k => m \in snap[d]
<1> SUFFICES ASSUME TypeOK, EventsInv, [Next]_vars,
                    NEW d \in Clients, NEW k \in Strokes,
                    pc'[d] = "buffer", <<k, 0>> \in snap'[d]
             PROVE  Found(d, k)'
  BY DEF EventsInv
<1>1. CASE /\ pc[d] = "buffer" /\ snap'[d] = snap[d]
           /\ phase[k] = "saved" =>
                phase'[k] = "saved" /\ \A m \in made' : m[1] = k => m \in made
  BY <1>1 DEF EventsInv
<1>2. ASSUME NEW c \in Clients, Replaying(c) PROVE Found(d, k)'
  <2>1. CASE ReadEvents(c) /\ c = d
    <3>1. /\ made' = made /\ phase' = phase
          /\ snap'[d] = Kept("saved", layer[d])
      BY <2>1 DEF ReadEvents, TypeOK
    <3>2. phase[k] = "saved" /\ on[k] = layer[d]
      <4>1. <<k, 0>>[1] = k
        OBVIOUS
      <4> QED BY <3>1, <4>1 DEF Kept
    <3> QED BY <3>1, <3>2 DEF Kept
  <2>2. CASE ReadEvents(c) /\ c # d
    BY <1>1, <2>2 DEF ReadEvents, TypeOK
  <2>3. CASE GreetingPanic(c) \/ OwnSendPanic(c)
    BY <1>1, <2>3 DEF GreetingPanic, OwnSendPanic, Panic, TypeOK
  <2>4. CASE ReadBuffer(c) \/ ReplayFails(c) \/ Reply(c)
    BY <1>1, <2>4 DEF ReadBuffer, ReplayFails, Reply, TypeOK
  <2>5. CASE \/ Connect(c) \/ Join(c) \/ Ack(c)
             \/ \E l \in Layers : ChangeLayer(c, l)
    BY <1>1, <2>5 DEF Connect, Join, Ack, ChangeLayer, TypeOK
  <2> QED BY <1>2, <2>1, <2>2, <2>3, <2>4, <2>5
<1>3. ASSUME NEW c \in Clients, Drawing(c) PROVE Found(d, k)'
  <2>1. ASSUME NEW x \in Strokes,
               StrokeStart(c, x) \/ StrokeUpdate(c, x) \/ StrokeEnd(c, x)
        PROVE  Found(d, k)'
    <3>1. pc' = pc /\ snap' = snap
      BY <2>1 DEF StrokeStart, StrokeUpdate, StrokeEnd
    <3> QED BY <1>1, <2>1, <3>1, SavedMade
  <2>2. CASE NextClockPanic(c)
    BY <1>1, <2>2 DEF NextClockPanic, Panic, TypeOK
  <2> QED BY <1>3, <2>1, <2>2
<1>4. ASSUME NEW c \in Clients, Broadcast(c) PROVE Found(d, k)'
  <2>1. UNCHANGED <<phase, made>>
    BY <1>4 DEF Lookup, Skip, Pick, Deliver, Evict, SendPanic, Return, Panic
  <2>2. pc[d] = "buffer" /\ snap'[d] = snap[d]
    BY <1>4 DEF Lookup, Skip, Pick, Deliver, Evict, SendPanic, Return, Panic,
                TypeOK
  <2> QED BY <1>1, <2>1, <2>2
<1>5. ASSUME NEW c \in Clients, Leave(c) \/ ReadEnds(c) PROVE Found(d, k)'
  BY <1>1, <1>5 DEF Leave, ReadEnds, TypeOK
<1>6. CASE StrokeTTLGC \/ \E x \in Strokes : Save(x)
  <2>1. phase[k] = "saved" => phase'[k] = "saved"
    BY <1>6 DEF StrokeTTLGC, Save, TypeOK
  <2> QED BY <1>1, <1>6, <2>1 DEF StrokeTTLGC, Save
<1>7. CASE Crash
  BY <1>7 DEF Crash
<1>8. CASE UNCHANGED vars
  BY <1>1, <1>8 DEF vars
<1> QED BY <1>2, <1>3, <1>4, <1>5, <1>6, <1>7, <1>8 DEF Next

(* A step that handles no message of k, shows d nothing and reads nothing  *)
(* for it keeps its debt to d, if what a running Broadcast owes is still   *)
(* owed.                                                                   *)
LEMMA Keep ==
  ASSUME Inv, NEW d \in Clients, NEW k \in Strokes,
         Follows(d, k), CatchUp(d, k),
         \A m \in made' : m[1] = k => m \in made,
         phase'[k] = "drawing" => phase[k] = "drawing",
         given'[d] = given[d],
         status'[d] = "synced" => status[d] = "synced",
         pc'[d] \in {"events", "buffer"} => pc[d] \in {"events", "buffer"},
         pc'[d] = "reply" => pc[d] = "reply" /\ snap'[d] = snap[d],
         \A m \in out[Artist[k]] : m[1] = k /\ Owes(Artist[k], d) =>
           m \in out'[Artist[k]] /\ Owes(Artist[k], d)'
  PROVE  CatchUp(d, k)'
<1>1. ASSUME NEW got, Covered(d, k, got)
      PROVE  \A m \in made' : m[1] = k =>
               m \in got \/ (m \in out'[Artist[k]] /\ Owes(Artist[k], d)')
  BY <1>1 DEF Covered
<1>2. /\ Covered(d, k, given[d]) => Covered(d, k, given[d])'
      /\ pc'[d] = "reply" /\ Covered(d, k, given[d] \cup snap[d]) =>
           Covered(d, k, given[d] \cup snap[d])'
  BY <1>1 DEF Covered
<1> QED BY <1>2 DEF CatchUp, Whole

(* The steps of a running Broadcast: nobody on the layer of a stroke whose *)
(* messages it has is passed over.                                         *)
LEMMA BroadcastCatchUp ==
  ASSUME Inv, NEW c \in Clients, Broadcast(c),
         NEW d \in Clients, NEW k \in Strokes, Follows(d, k)'
  PROVE  CatchUp(d, k)'
<1> DEFINE A == Artist[k]
<1>0. A \in Clients /\ TypeOK
  BY OfStroke DEF Inv
<1>1. /\ UNCHANGED <<made, phase, on, moved, layer, status>>
      /\ room' \subseteq room
  BY DEF Lookup, Skip, Pick, Deliver, Evict, SendPanic, Return, Panic
<1>2. pc[A] # "broken"
  BY <1>0 DEF Follows, Lookup, Skip, Pick, Deliver, Evict, SendPanic, Return,
              Panic, TypeOK
<1>3. Follows(d, k) /\ CatchUp(d, k)
  BY <1>1, <1>2 DEF Follows, Inv, CatchUpInv
<1>4. /\ pc'[d] \in {"events", "buffer", "reply"} => pc'[d] = pc[d]
      /\ pc'[d] = "reply" => snap'[d] = snap[d]
  BY <1>0 DEF Lookup, Skip, Pick, Deliver, Evict, SendPanic, Return, Panic,
              TypeOK
<1>5. ASSUME given'[d] = given[d],
             \A m \in out[A] : m[1] = k /\ Owes(A, d) =>
               m \in out'[A] /\ Owes(A, d)'
      PROVE  CatchUp(d, k)'
  BY <1>1, <1>3, <1>4, <1>5, Keep
<1>6. CASE Lookup(c)
  <2>1. open /\ d \in room /\ A # d
    BY <1>3 DEF Inv, StatusInv, Follows
  <2>2. given' = given /\ out' = out
    BY <1>6 DEF Lookup
  <2>3. CASE c = A
    <3>1. d \in todo'[A]
      BY <1>0, <1>6, <2>1, <2>3 DEF Lookup, TypeOK
    <3> QED BY <1>5, <2>2, <3>1 DEF Owes
  <2>4. CASE c # A
    <3>1. pc'[A] = pc[A] /\ todo'[A] = todo[A] /\ aim'[A] = aim[A]
      BY <1>0, <1>6, <2>4 DEF Lookup, TypeOK
    <3> QED BY <1>5, <2>2, <3>1 DEF Owes
  <2> QED BY <2>3, <2>4
<1>7. ASSUME NEW e \in Clients, Skip(c, e) PROVE CatchUp(d, k)'
  <2>1. given' = given /\ out' = out /\ aim' = aim /\ pc' = pc
    BY <1>7 DEF Skip
  <2>2. CASE c # A \/ e # d
    <3>1. Owes(A, d) => Owes(A, d)'
      BY <1>0, <1>7, <2>1, <2>2 DEF Skip, Owes, TypeOK
    <3> QED BY <1>5, <2>1, <3>1
  <2>3. CASE c = A /\ e = d
    <3>1. layer[A] # on[k] /\ k \notin moved
      BY <1>3, <1>7, <2>3 DEF Skip, Follows
    <3>2. \A m \in out[A] : m[1] # k
      BY <3>1 DEF Inv, LayerInv, Unsettled
    <3> QED BY <1>5, <2>1, <3>2
  <2> QED BY <2>2, <2>3
<1>8. ASSUME NEW e \in Clients, Pick(c, e) PROVE CatchUp(d, k)'
  <2>1. given' = given /\ out' = out
    BY <1>8 DEF Pick
  <2>2. pc[c] = "range" /\ aim[c] = None
    BY <1>0, <1>8 DEF Pick, TypeOK
  <2>3. Owes(A, d) => Owes(A, d)'
    BY <1>0, <1>8, <2>2, ReplayAssumption DEF Pick, Owes, TypeOK
  <2> QED BY <1>5, <2>1, <2>3
<1>9. CASE Deliver(c)
  <2>1. out' = out /\ snap' = snap
    BY <1>9 DEF Deliver
  <2>2. aim[c] \in Clients /\ pc[c] = "send"
    BY <1>0, <1>9 DEF Deliver, TypeOK
  <2>3. CASE aim[c] # d
    <3>1. given'[d] = given[d]
      BY <1>0, <1>9, <2>3 DEF Deliver, TypeOK
    <3>2. Owes(A, d) => Owes(A, d)'
      BY <1>0, <1>9, <2>2, <2>3 DEF Deliver, Owes, TypeOK
    <3> QED BY <1>5, <2>1, <3>1, <3>2
  <2>4. CASE aim[c] = d
    <3>0. PICK g, r, o : g = given[d] /\ r = snap[d] /\ o = out[c]
      OBVIOUS
    <3>1. given'[d] = g \cup o /\ snap'[d] = r
      BY <1>0, <1>9, <2>1, <2>4, <3>0 DEF Deliver, TypeOK
    <3>2. ASSUME NEW got, Covered(d, k, got)
          PROVE  Covered(d, k, got \cup o)'
      <4>1. CASE c = A
        BY <1>1, <2>1, <3>0, <3>2, <4>1 DEF Covered
      <4>2. CASE c # A
        <5>1. Owes(A, d) => Owes(A, d)'
          BY <1>0, <1>9, <4>2 DEF Deliver, Owes, TypeOK
        <5> QED BY <1>1, <2>1, <3>2, <5>1 DEF Covered
      <4> QED BY <4>1, <4>2
    <3>3. ASSUME <<k, 0>> \in o, NEW got
          PROVE  Covered(d, k, got \cup o)'
      <4>1. \A m \in made' : m[1] = k => m \in o
        BY <1>1, <3>0, <3>3 DEF Inv, FrameInv
      <4> QED BY <4>1 DEF Covered
    <3>4. ASSUME NEW got, Whole(d, k, got)
          PROVE  Whole(d, k, got \cup o)'
      BY <1>1, <3>2, <3>3, <3>4 DEF Whole
    <3>5. pc'[d] \in {"events", "buffer"} /\ <<k, 0>> \in g \cup o =>
               Covered(d, k, g \cup o)'
      <4>1. CASE <<k, 0>> \in o
        BY <3>3, <4>1
      <4>2. CASE <<k, 0>> \in g
        BY <1>3, <1>4, <3>0, <3>2, <4>2 DEF CatchUp
      <4> QED BY <4>1, <4>2
    <3>6. status'[d] = "synced" => Whole(d, k, g \cup o)'
      BY <1>1, <1>3, <3>0, <3>4 DEF CatchUp
    <3>7. pc'[d] = "reply" => Whole(d, k, (g \cup o) \cup r)'
      <4>1. pc'[d] = "reply" => Whole(d, k, (g \cup r) \cup o)'
        BY <1>3, <1>4, <3>0, <3>4 DEF CatchUp
      <4>2. (g \cup r) \cup o = (g \cup o) \cup r
        OBVIOUS
      <4> QED BY <4>1, <4>2
    <3> QED BY <3>1, <3>5, <3>6, <3>7 DEF CatchUp
  <2> QED BY <2>3, <2>4
<1>10. CASE Evict(c)
  <2>1. given' = given /\ out' = out /\ aim[c] # d /\ pc[c] = "send"
    BY <1>10 DEF Evict, Follows
  <2>2. Owes(A, d) => Owes(A, d)'
    BY <1>0, <1>10, <2>1 DEF Evict, Owes, TypeOK
  <2> QED BY <1>5, <2>1, <2>2
<1>11. CASE SendPanic(c)
  <2>1. c # A
    BY <1>0, <1>11 DEF SendPanic, Panic, Follows, TypeOK
  <2>2. /\ given' = given /\ out'[A] = out[A] /\ pc'[A] = pc[A]
        /\ todo'[A] = todo[A] /\ aim'[A] = aim[A]
    BY <1>0, <1>11, <2>1 DEF SendPanic, Panic, TypeOK
  <2> QED BY <1>5, <2>2 DEF Owes
<1>12. CASE Return(c)
  <2>1. given' = given
    BY <1>12 DEF Return
  <2>2. CASE c = A
    <3>1. ~Owes(A, d)
      BY <1>0, <1>3, <1>12, <2>2, ReplayAssumption
         DEF Return, Owes, TypeOK, Follows
    <3> QED BY <1>5, <2>1, <3>1
  <2>3. CASE c # A
    <3>1. /\ out'[A] = out[A] /\ pc'[A] = pc[A]
          /\ todo'[A] = todo[A] /\ aim'[A] = aim[A]
      BY <1>0, <1>12, <2>3 DEF Return, TypeOK
    <3> QED BY <1>5, <2>1, <3>1 DEF Owes
  <2> QED BY <2>2, <2>3
<1> QED BY <1>6, <1>7, <1>8, <1>9, <1>10, <1>11, <1>12

(* The steps of a replay: the table has every stroke that is over, the     *)
(* buffer every stroke that is not, and whatever comes later comes to a    *)
(* member of the layer.                                                    *)
LEMMA ReplayingCatchUp ==
  ASSUME Inv, NEW c \in Clients, Replaying(c),
         NEW d \in Clients, NEW k \in Strokes, Follows(d, k)'
  PROVE  CatchUp(d, k)'
<1> DEFINE A == Artist[k]
<1>0. /\ A \in Clients /\ A # d /\ TypeOK /\ StatusInv /\ d \in room'
      /\ pc'[A] # "broken"
  BY OfStroke DEF Inv, Follows
<1>1. UNCHANGED <<made, phase, on>> /\ moved \subseteq moved'
  BY DEF Connect, ReadEvents, ReadBuffer, ReplayFails, Reply, Join,
         GreetingPanic, ChangeLayer, Ack, OwnSendPanic, Panic
<1>2. CASE c # d
  <2>1. /\ d \in room /\ layer'[d] = layer[d] /\ given'[d] = given[d]
        /\ snap'[d] = snap[d] /\ status'[d] = status[d] /\ pc'[d] = pc[d]
    BY <1>0, <1>2 DEF Connect, ReadEvents, ReadBuffer, ReplayFails, Reply, Join,
         GreetingPanic, ChangeLayer, Ack, OwnSendPanic, Panic, TypeOK
  <2>2. /\ out'[A] = out[A]
        /\ pc'[A] = pc[A] \/ pc'[A] \notin {"range", "send"}
        /\ todo'[A] = todo[A] /\ aim'[A] = aim[A]
    <3>1. CASE c = A
      BY <1>0, <3>1 DEF Connect, ReadEvents, ReadBuffer, ReplayFails, Reply,
         Join, GreetingPanic, ChangeLayer, Ack, OwnSendPanic, Panic, TypeOK
    <3>2. CASE c # A
      BY <1>0, <3>2 DEF Connect, ReadEvents, ReadBuffer, ReplayFails, Reply,
         Join, GreetingPanic, ChangeLayer, Ack, OwnSendPanic, Panic, TypeOK
    <3> QED BY <3>1, <3>2
  <2>3. pc[A] # "broken"
    BY <1>0 DEF Connect, ReadEvents, ReadBuffer, ReplayFails, Reply,
         Join, GreetingPanic, ChangeLayer, Ack, OwnSendPanic, Panic, TypeOK
  <2>4. Follows(d, k)
    BY <1>1, <2>1, <2>3 DEF Follows
  <2>5. CatchUp(d, k)
    BY <2>4 DEF Inv, CatchUpInv
  <2>6. Owes(A, d) => Owes(A, d)'
    BY <2>2 DEF Owes
  <2> QED BY <1>1, <2>1, <2>2, <2>4, <2>5, <2>6, Keep
<1>3. CASE c = d
  <2>1. /\ UNCHANGED <<out, scan>> \/ pc'[d] = "broken"
        /\ out'[A] = out[A] /\ pc'[A] = pc[A]
        /\ todo'[A] = todo[A] /\ aim'[A] = aim[A]
    BY <1>0, <1>3 DEF Connect, ReadEvents, ReadBuffer, ReplayFails, Reply, Join,
         GreetingPanic, ChangeLayer, Ack, OwnSendPanic, Panic, TypeOK
  <2>2. Owes(A, d)' = Owes(A, d)
    BY <2>1 DEF Owes
  <2>3. ASSUME NEW got, Covered(d, k, got) PROVE Covered(d, k, got)'
    BY <1>1, <2>1, <2>2, <2>3 DEF Covered
  <2>4. ASSUME layer'[d] = layer[d], d \in room PROVE Follows(d, k) /\ CatchUp(d, k)
    <3>1. Follows(d, k)
      BY <1>0, <1>1, <2>1, <2>4 DEF Follows
    <3> QED BY <3>1 DEF Inv, CatchUpInv
  <2>5. CASE ReadEvents(d)
    <3>1. /\ given' = given /\ status' = status /\ pc'[d] = "buffer"
          /\ layer' = layer /\ room' = room /\ pc[d] = "events"
      BY <1>0, <2>5 DEF ReadEvents, TypeOK
    <3>2. status[d] # "synced"
      BY <1>0, <3>1 DEF StatusInv
    <3>3. <<k, 0>> \in given[d] => Covered(d, k, given[d])
      BY <1>0, <2>4, <3>1 DEF CatchUp
    <3>4. PICK g : g = given[d]
      OBVIOUS
    <3> QED BY <2>3, <3>1, <3>2, <3>3, <3>4 DEF CatchUp
  <2>6. CASE ReadBuffer(d)
    <3>0. PICK g, r, b : /\ g = given[d] /\ r = snap[d]
                         /\ b = Kept("drawing", layer[d])
      OBVIOUS
    <3>1. /\ given'[d] = g /\ status' = status /\ pc'[d] = "reply"
          /\ layer' = layer /\ room' = room /\ pc[d] = "buffer"
          /\ snap'[d] = r \cup b
      BY <1>0, <2>6, <3>0 DEF ReadBuffer, TypeOK
    <3>2. status[d] # "synced"
      BY <1>0, <3>1 DEF StatusInv
    <3>3. Follows(d, k) /\ CatchUp(d, k)
      BY <1>0, <2>4, <3>1
    <3>4. <<k, 0>> \in g => Covered(d, k, g)'
      BY <2>3, <3>0, <3>1, <3>3 DEF CatchUp
    <3>5. ASSUME <<k, 0>> \in r PROVE Covered(d, k, r)'
      <4>1. \A m \in made : m[1] = k => m \in r
        BY <3>0, <3>1, <3>5 DEF Inv, EventsInv
      <4> QED BY <1>1, <4>1 DEF Covered
    <3>6. ASSUME phase[k] = "drawing" PROVE Covered(d, k, b)'
      <4>1. \A m \in made : m[1] = k => m \in b
        BY <3>0, <3>3, <3>6 DEF Kept, Follows
      <4> QED BY <1>1, <4>1 DEF Covered
    <3>7. <<k, 0>> \in b => phase[k] = "drawing"
      <4>1. <<k, 0>>[1] = k
        OBVIOUS
      <4> QED BY <3>0, <4>1 DEF Kept
    <3>8. Whole(d, k, g \cup (r \cup b))'
      <4>1. phase'[k] = "drawing" \/ <<k, 0>> \in g \cup (r \cup b) =>
              Covered(d, k, g)' \/ Covered(d, k, r)' \/ Covered(d, k, b)'
        BY <1>1, <3>4, <3>5, <3>6, <3>7
      <4> QED BY <4>1 DEF Whole, Covered
    <3> QED BY <3>1, <3>2, <3>8 DEF CatchUp
  <2>7. CASE Reply(d)
    <3>0. PICK g, r : g = given[d] /\ r = snap[d]
      OBVIOUS
    <3>1. /\ layer' = layer /\ room' = room /\ pc[d] = "reply"
      BY <2>7 DEF Reply
    <3>2. status[d] = "switching"
      BY <1>0, <3>1 DEF StatusInv
    <3>3. pc'[d] = "ready"
      BY <1>0, <2>7, <3>2 DEF Reply, TypeOK
    <3>4. PICK more : /\ given'[d] = (g \cup r) \cup more
                      /\ \A m \in more : <<m[1], 0>> \in r
      <4>1. PICK upto \in [Strokes -> 0..MaxPoint] :
              given' = [given EXCEPT ![d] = @ \cup snap[d] \cup
                          {m \in made : /\ <<m[1], 0>> \in snap[d]
                                        /\ m[2] <= upto[m[1]]}]
        BY <2>7 DEF Reply
      <4> DEFINE more == {m \in made : /\ <<m[1], 0>> \in r
                                       /\ m[2] <= upto[m[1]]}
      <4>2. given'[d] = (g \cup r) \cup more
        BY <1>0, <3>0, <4>1 DEF TypeOK
      <4>3. \A m \in more : <<m[1], 0>> \in r
        OBVIOUS
      <4> HIDE DEF more
      <4> QED BY <4>2, <4>3
    <3>5. <<k, 0>> \in more => <<k, 0>> \in r
      <4>1. <<k, 0>>[1] = k
        OBVIOUS
      <4> QED BY <3>4, <4>1
    <3>6. Whole(d, k, g \cup r)
      BY <1>0, <2>4, <3>0, <3>1 DEF CatchUp
    <3>7. Whole(d, k, (g \cup r) \cup more)'
      BY <1>1, <2>3, <3>5, <3>6 DEF Whole, Covered
    <3> QED BY <3>3, <3>4, <3>7 DEF CatchUp
  <2>8. CASE Ack(d)
    <3>1. given'[d] = {} /\ pc'[d] = "events" /\ status' = status
      BY <1>0, <2>8 DEF Ack, TypeOK
    <3>2. status[d] # "synced"
      BY <1>0, <2>8 DEF Ack, StatusInv
    <3> QED BY <3>1, <3>2 DEF CatchUp
  <2>9. ASSUME NEW l \in Layers, ChangeLayer(d, l) PROVE CatchUp(d, k)'
    <3>1. pc'[d] = "ack" /\ status'[d] = "switching"
      BY <1>0, <2>9 DEF ChangeLayer, TypeOK
    <3> QED BY <3>1 DEF CatchUp
  <2>10. CASE Connect(d) \/ Join(d)
    <3>1. pc[d] \in {"out", "join"} /\ status[d] = "out" /\ d \notin room
      BY <1>0, <2>10 DEF Connect, Join, StatusInv
    <3>2. Join(d)
      BY <1>0, <2>10, <3>1 DEF Connect
    <3>3. pc'[d] = "ready" /\ status'[d] = "joined"
      BY <1>0, <3>2 DEF Join, TypeOK
    <3> QED BY <3>3 DEF CatchUp
  <2>11. CASE ReplayFails(d) \/ GreetingPanic(d) \/ OwnSendPanic(d)
    <3>1. /\ pc'[d] \notin {"events", "buffer", "reply"}
          /\ pc[d] \in {"events", "buffer", "reply", "ack", "join"}
          /\ status' = status
      BY <1>0, <2>11
         DEF ReplayFails, GreetingPanic, OwnSendPanic, Panic, TypeOK
    <3>2. status'[d] # "synced"
      BY <1>0, <3>1 DEF StatusInv
    <3> QED BY <3>1, <3>2 DEF CatchUp
  <2> QED BY <1>3, <2>5, <2>6, <2>7, <2>8, <2>9, <2>10, <2>11
<1> QED BY <1>2, <1>3

(* A message handled for a stroke is in its artist's frame, which is yet   *)
(* to be broadcast.                                                        *)
LEMMA DrawingCatchUp ==
  ASSUME Inv, NEW c \in Clients, Drawing(c),
         NEW d \in Clients, NEW k \in Strokes, Follows(d, k)'
  PROVE  CatchUp(d, k)'
<1> DEFINE A == Artist[k]
<1>0. A \in Clients /\ TypeOK
  BY OfStroke DEF Inv
<1>1. ASSUME NEW x \in Strokes,
             StrokeStart(c, x) \/ StrokeUpdate(c, x) \/ StrokeEnd(c, x)
      PROVE  CatchUp(d, k)'
  <2>1. /\ UNCHANGED <<moved, hub, layer, pc, scan, known>>
        /\ pc[c] = "ready" /\ Artist[x] = c
    BY <1>1 DEF StrokeStart, StrokeUpdate, StrokeEnd, Handling
  <2>2. PICK n : Says(c, <<x, n>>)
    BY <1>1 DEF StrokeStart, StrokeUpdate, StrokeEnd
  <2>3. <<x, n>>[1] = x
    OBVIOUS
  <2>4. out[A] \subseteq out'[A]
    BY <1>0, <2>2 DEF Says, TypeOK
  <2>5. Owes(A, d)' = Owes(A, d)
    BY <2>1 DEF Owes
  <2>6. CASE x # k
    <3>1. phase'[k] = phase[k] /\ on'[k] = on[k]
      BY <1>0, <1>1, <2>6 DEF StrokeStart, StrokeUpdate, StrokeEnd, TypeOK
    <3>2. Follows(d, k) /\ CatchUp(d, k)
      BY <2>1, <3>1 DEF Follows, Inv, CatchUpInv
    <3>3. \A m \in made' : m[1] = k => m \in made
      BY <2>2, <2>3, <2>6 DEF Says
    <3> QED BY <2>1, <2>4, <2>5, <3>1, <3>2, <3>3, Keep
  <2>7. CASE x = k
    <3>1. <<x, n>> \in out'[A] /\ Owes(A, d)'
      BY <1>0, <2>1, <2>2, <2>5, <2>7 DEF Says, Owes, TypeOK
    <3>2. CASE StrokeStart(c, x)
      <4>1. \A m \in made : m[1] # k
        BY <1>0, <2>7, <3>2 DEF StrokeStart, TypeOK
      <4>2. ASSUME NEW got PROVE Covered(d, k, got)'
        BY <2>2, <3>1, <4>1 DEF Says, Covered
      <4>3. PICK g, r : g = given'[d] /\ r = snap'[d]
        OBVIOUS
      <4> QED BY <4>2, <4>3 DEF CatchUp, Whole
    <3>3. CASE StrokeUpdate(c, x) \/ StrokeEnd(c, x)
      <4>1. on' = on /\ (phase'[k] = "drawing" => phase[k] = "drawing")
        BY <1>0, <2>7, <3>3 DEF StrokeUpdate, StrokeEnd, TypeOK
      <4>2. Follows(d, k) /\ CatchUp(d, k)
        BY <2>1, <4>1 DEF Follows, Inv, CatchUpInv
      <4>3. ASSUME NEW got, Covered(d, k, got) PROVE Covered(d, k, got)'
        BY <2>2, <2>4, <2>5, <3>1, <4>3 DEF Says, Covered
      <4>4. PICK g, r : g = given[d] /\ r = snap[d]
        OBVIOUS
      <4>5. /\ Whole(d, k, g) => Whole(d, k, g)'
            /\ Whole(d, k, g \cup r) => Whole(d, k, g \cup r)'
            /\ Covered(d, k, g) => Covered(d, k, g)'
        BY <4>1, <4>3 DEF Whole
      <4>6. g = given'[d] /\ r = snap'[d] /\ pc' = pc /\ status' = status
        BY <2>1, <4>4
      <4> QED BY <4>2, <4>4, <4>5, <4>6 DEF CatchUp
    <3> QED BY <1>1, <3>2, <3>3
  <2> QED BY <2>6, <2>7
<1>2. CASE NextClockPanic(c)
  <2>1. c # A
    BY <1>0, <1>2 DEF NextClockPanic, Panic, Follows, TypeOK
  <2>2. /\ UNCHANGED <<strokes, hub, layer, status, given>>
        /\ out'[A] = out[A] /\ pc'[A] = pc[A]
        /\ todo'[A] = todo[A] /\ aim'[A] = aim[A]
        /\ pc'[d] = pc[d] \/ pc'[d] = "broken"
        /\ pc'[d] = pc[d] => c # d /\ snap'[d] = snap[d]
    BY <1>0, <1>2, <2>1 DEF NextClockPanic, Panic, Handling, TypeOK
  <2>3. Follows(d, k) /\ CatchUp(d, k)
    BY <2>2 DEF Follows, Inv, CatchUpInv
  <2>4. Owes(A, d)' = Owes(A, d)
    BY <2>2 DEF Owes
  <2> QED BY <2>2, <2>3, <2>4, Keep
<1> QED BY <1>1, <1>2

(* The steps of everybody else: they show nobody anything, and strokes     *)
(* only leave the buffer.                                                  *)
LEMMA OtherCatchUp ==
  ASSUME Inv,
         \/ \E c \in Clients : Leave(c) \/ ReadEnds(c)
         \/ StrokeTTLGC \/ (\E x \in Strokes : Save(x))
         \/ Crash \/ UNCHANGED vars,
         NEW d \in Clients, NEW k \in Strokes, Follows(d, k)'
  PROVE  CatchUp(d, k)'
<1> DEFINE A == Artist[k]
<1>0. A \in Clients /\ TypeOK
  BY OfStroke DEF Inv
<1>1. ~Crash
  BY DEF Crash, Follows
<1>2. /\ UNCHANGED <<made, on, moved, layer, out, scan, status, snap>>
      /\ d \in room
    BY <1>1 DEF Leave, ReadEnds, StrokeTTLGC, Save, Follows, vars
<1>3. given'[d] = given[d]
  BY <1>0, <1>1 DEF Leave, ReadEnds, StrokeTTLGC, Save, Follows, TypeOK, vars
<1>4. phase'[k] = "drawing" => phase[k] = "drawing"
  BY <1>0, <1>1 DEF Leave, ReadEnds, StrokeTTLGC, Save, TypeOK, vars
<1>5. \A x \in Clients : pc'[x] = pc[x] \/ (pc[x] = "ready" /\ pc'[x] = "end")
  BY <1>0, <1>1 DEF Leave, ReadEnds, StrokeTTLGC, Save, TypeOK, vars
<1>6. Follows(d, k) /\ CatchUp(d, k)
  BY <1>0, <1>2, <1>5 DEF Follows, Inv, CatchUpInv
<1>7. Owes(A, d) => Owes(A, d)'
  BY <1>0, <1>2, <1>5 DEF Owes
<1> QED BY <1>2, <1>3, <1>4, <1>5, <1>6, <1>7, Keep

(* Every step keeps Inv. *)
LEMMA InvStep == Inv /\ [Next]_vars => Inv'
<1> SUFFICES ASSUME Inv, [Next]_vars PROVE Inv'
  OBVIOUS
<1>1. /\ TypeOK' /\ FrameInv' /\ LayerInv' /\ StatusInv' /\ EventsInv'
  BY TypeStep, FrameStep, LayerStep, StatusStep, EventsStep DEF Inv
<1>2. ASSUME NEW d \in Clients, NEW k \in Strokes, Follows(d, k)'
      PROVE  CatchUp(d, k)'
  <2>1. \/ \E c \in Clients : Replaying(c) \/ Drawing(c) \/ Broadcast(c)
        \/ \E c \in Clients : Leave(c) \/ ReadEnds(c)
        \/ StrokeTTLGC \/ (\E x \in Strokes : Save(x))
        \/ Crash \/ UNCHANGED vars
    <3> HIDE DEF Replaying, Drawing, Broadcast
    <3> QED BY DEF Next
  <2> HIDE DEF Replaying, Drawing, Broadcast
  <2>2. CASE \E c \in Clients : Replaying(c) \/ Drawing(c) \/ Broadcast(c)
    BY <1>2, <2>2, ReplayingCatchUp, DrawingCatchUp, BroadcastCatchUp
  <2> QED BY <1>2, <2>1, <2>2, OtherCatchUp
<1> QED BY <1>1, <1>2 DEF Inv, CatchUpInv

(* The initial states satisfy Inv: no message, no member. *)
LEMMA InvInit == Init => Inv
<1> SUFFICES ASSUME Init PROVE Inv
  OBVIOUS
<1>1. TypeOK
  BY TypeInit
<1>2. /\ made = {} /\ room = {} /\ \A k \in Strokes : phase[k] = "new"
      /\ \A c \in Clients : /\ out[c] = {} /\ pc[c] = "out"
                           /\ status[c] = "out"
  BY DEF Init, Nowhere
<1>3. FrameInv /\ LayerInv
  BY <1>2, OfStroke, <1>1 DEF FrameInv, LayerInv, Unsettled
<1>4. StatusInv /\ EventsInv /\ CatchUpInv
  BY <1>2 DEF StatusInv, EventsInv, CatchUpInv, Follows
<1> QED BY <1>1, <1>3, <1>4 DEF Inv

(* What a peer that changed layer has been sent, and what is on its way,   *)
(* is consistent in every state.                                           *)
THEOREM InvCorrect == Spec => []Inv
  BY InvInit, InvStep, PTL DEF Spec

(* A peer that was sent a replay after a change of layer misses nothing of *)
(* the strokes drawn on that layer, wherever the reads of the replay fell  *)
(* between the steps of the other connections, of the collector and of the *)
(* database (hub.go:377-378 and 458-485, handler.go:139-229).              *)
THEOREM NothingMissedCorrect == Spec => []NothingMissed
<1>1. Inv => NothingMissed
  BY DEF Inv, CatchUpInv, CatchUp, NothingMissed
<1> QED BY <1>1, InvCorrect, PTL
----------------------------------------------------------------------------
(* The membership of the room.                                             *)

(* Who is behind Join has a membership; whoever ran Leave was and is not a *)
(* member; and nobody is one before Join.                                  *)
SeatInv ==
  \A d \in Clients :
    /\ pc[d] \in {"ready", "ack", "range", "send"} => status[d] # "out"
    /\ pc[d] = "join" => status[d] = "out"
    /\ d \in left => status[d] # "out" /\ d \notin room
    /\ d \in room => status[d] # "out"

(* A step that makes nobody a member and has nobody leave is none of       *)
(* Membership.                                                             *)
LEMMA SameStanding ==
  ASSUME UNCHANGED hub,
         \A d \in Clients : status'[d] = "out" <=> status[d] = "out"
  PROVE  [Room!Next]_Room!membership
<1>1. \A d \in Clients : Standing(d)' = Standing(d)
  BY DEF Standing
<1>2. [c \in Clients |-> Standing(c)]' = [c \in Clients |-> Standing(c)]
  BY <1>1
<1> QED BY <1>2 DEF Room!membership

(* What the steps that change no member do to the reader and its status. *)
LEMMA QuietStep ==
  ASSUME TypeOK, SeatInv, NEW c \in Clients,
         \/ Connect(c) \/ ReadEvents(c) \/ ReadBuffer(c) \/ ReplayFails(c)
         \/ Reply(c) \/ GreetingPanic(c) \/ Ack(c) \/ OwnSendPanic(c)
         \/ \E l \in Layers : ChangeLayer(c, l)
         \/ Drawing(c)
         \/ Lookup(c) \/ Deliver(c) \/ SendPanic(c) \/ Return(c)
         \/ \E d \in Clients : Skip(c, d) \/ Pick(c, d)
         \/ ReadEnds(c)
  PROVE  /\ UNCHANGED hub
         /\ \A d \in Clients : status'[d] = "out" <=> status[d] = "out"
         /\ SeatInv'
<1> USE DEF SeatInv, TypeOK
<1>1. CASE Connect(c)
  BY <1>1 DEF Connect
<1>2. CASE ReadEvents(c) \/ ReadBuffer(c)
  BY <1>2 DEF ReadEvents, ReadBuffer
<1>3. CASE ReplayFails(c)
  BY <1>3 DEF ReplayFails
<1>4. CASE Reply(c)
  BY <1>4 DEF Reply
<1>5. CASE Panic(c)
  BY <1>5 DEF Panic
<1>6. CASE Ack(c)
  BY <1>6 DEF Ack
<1>7. ASSUME NEW l \in Layers, ChangeLayer(c, l)
      PROVE  /\ UNCHANGED hub
             /\ \A d \in Clients : status'[d] = "out" <=> status[d] = "out"
             /\ SeatInv'
  BY <1>7 DEF ChangeLayer
<1>8. CASE /\ Drawing(c) /\ ~Panic(c)
  <2>1. UNCHANGED <<hub, pc, status>>
    BY <1>8 DEF StrokeStart, StrokeUpdate, StrokeEnd, NextClockPanic
  <2> QED BY <2>1
<1>9. CASE Lookup(c) \/ Deliver(c) \/ Return(c)
  BY <1>9 DEF Lookup, Deliver, Return
<1>10. ASSUME NEW d \in Clients, Skip(c, d) \/ Pick(c, d)
      PROVE  /\ UNCHANGED hub
             /\ \A e \in Clients : status'[e] = "out" <=> status[e] = "out"
             /\ SeatInv'
  BY <1>10 DEF Skip, Pick
<1>11. CASE ReadEnds(c)
  BY <1>11 DEF ReadEnds
<1> QED BY <1>1, <1>2, <1>3, <1>4, <1>5, <1>6, <1>7, <1>8, <1>9, <1>10, <1>11
        DEF GreetingPanic, OwnSendPanic, SendPanic

(* Every step is a step of Membership, or none, and keeps SeatInv. *)
LEMMA MembershipStep ==
  TypeOK /\ SeatInv /\ [Next]_vars => SeatInv' /\ [Room!Next]_Room!membership
<1> SUFFICES ASSUME TypeOK, SeatInv, [Next]_vars
             PROVE  SeatInv' /\ [Room!Next]_Room!membership
  OBVIOUS
<1>1. ASSUME NEW c \in Clients, Join(c)
      PROVE  SeatInv' /\ [Room!Next]_Room!membership
  <2>1. SeatInv'
    BY <1>1 DEF SeatInv, TypeOK, Join
  <2>2. Standing(c) = "out"
    BY <1>1 DEF SeatInv, Standing, Join
  <2>3. ASSUME NEW d \in Clients
        PROVE  Standing(d)' = IF d = c THEN "member" ELSE Standing(d)
    BY <1>1 DEF TypeOK, Standing, Join
  <2>4. [d \in Clients |-> Standing(d)]' =
          [[d \in Clients |-> Standing(d)] EXCEPT ![c] = "member"]
    BY <2>3
  <2>5. open'
    BY <1>1 DEF Join
  <2>6. Room!Join(c)
    BY <2>2, <2>4, <2>5 DEF Room!Join
  <2> QED BY <2>1, <2>6 DEF Room!Next
<1>2. ASSUME NEW c \in Clients, Evict(c)
      PROVE  SeatInv' /\ [Room!Next]_Room!membership
  <2>1. PICK d \in Clients : d = aim[c]
    BY <1>2 DEF TypeOK, Evict
  <2>2. room' = room \ {d} /\ UNCHANGED <<open, left, status>>
    BY <1>2, <2>1 DEF Evict
  <2>3. SeatInv'
    BY <1>2, <2>2 DEF SeatInv, TypeOK, Evict
  <2>4. ASSUME NEW e \in Clients, e # d PROVE Standing(e)' = Standing(e)
    BY <2>2, <2>4 DEF Standing
  <2>5. CASE d \in room
    <3>1. Standing(d) = "member" /\ Standing(d)' = "evicted"
      BY <2>2, <2>5 DEF SeatInv, Standing
    <3>2. [e \in Clients |-> Standing(e)]' =
            [[e \in Clients |-> Standing(e)] EXCEPT ![d] = "evicted"]
      BY <2>4, <3>1
    <3>3. Room!Evict(d)
      BY <2>2, <3>1, <3>2 DEF Room!Evict
    <3> QED BY <2>3, <3>3 DEF Room!Next
  <2>6. CASE d \notin room
    BY <2>2, <2>3, <2>6, SameStanding
  <2> QED BY <2>5, <2>6
<1>3. ASSUME NEW c \in Clients, Leave(c)
      PROVE  SeatInv' /\ [Room!Next]_Room!membership
  <2>1. SeatInv'
    BY <1>3 DEF SeatInv, TypeOK, Leave
  <2>2. /\ status[c] # "out" /\ c \notin left /\ status' = status
        /\ left' = left \cup {c} /\ room' = room \ {c}
        /\ open' = (open /\ room \ {c} # {})
    BY <1>3 DEF Leave
  <2>3. Standing(c) \in {"member", "evicted"}
    BY <2>2 DEF Standing
  <2>4. ASSUME NEW d \in Clients
        PROVE  Standing(d)' = IF d = c THEN "left" ELSE Standing(d)
    BY <2>2 DEF Standing
  <2>5. [d \in Clients |-> Standing(d)]' =
          [[d \in Clients |-> Standing(d)] EXCEPT ![c] = "left"]
    BY <2>4
  <2>6. Room!Others(c) = room \ {c}
    <3>1. \A d \in Clients : Standing(d) = "member" <=> d \in room
      BY DEF Standing
    <3> QED BY <3>1 DEF TypeOK, Room!Others
  <2>7. Room!Leave(c)
    BY <2>2, <2>3, <2>5, <2>6 DEF Room!Leave
  <2> QED BY <2>1, <2>7 DEF Room!Next
<1>4. CASE Crash
  <2>1. SeatInv'
    BY <1>4 DEF Crash, SeatInv
  <2>2. \A d \in Clients : Standing(d)' = "out"
    BY <1>4 DEF Crash, Standing
  <2>3. [d \in Clients |-> Standing(d)]' = [d \in Clients |-> "out"]
    BY <2>2
  <2>4. ~open'
    BY <1>4 DEF Crash
  <2>5. Room!Restart
    BY <2>3, <2>4 DEF Room!Restart
  <2> QED BY <2>1, <2>5 DEF Room!Next
<1>5. CASE UNCHANGED <<hub, pc, status>>
  BY <1>5, SameStanding DEF SeatInv
<1>6. CASE StrokeTTLGC \/ \E k \in Strokes : Save(k)
  BY <1>5, <1>6 DEF StrokeTTLGC, Save
<1>7. ASSUME NEW c \in Clients,
             Replaying(c) \/ Drawing(c) \/ Broadcast(c) \/ ReadEnds(c)
      PROVE  SeatInv' /\ [Room!Next]_Room!membership
  BY <1>1, <1>2, <1>7, QuietStep, SameStanding
<1> QED BY <1>3, <1>4, <1>5, <1>6, <1>7 DEF Next, vars

(* The room of a replay is a room of Membership: only who has read a       *)
(* replay joins, an evicted connection is still one that will leave, and   *)
(* the room is gone exactly when its last member left (hub.go:34-69).      *)
THEOREM ImplementsMembershipCorrect == Spec => ImplementsMembership
<1>1. Init => SeatInv
  BY DEF Init, Nowhere, SeatInv
<1>2. Init => Room!Init
  <2> SUFFICES ASSUME Init PROVE Room!Init
    OBVIOUS
  <2>1. \A d \in Clients : Standing(d) = "out"
    BY DEF Init, Nowhere, Standing
  <2>2. ~open
    BY DEF Init, Nowhere
  <2> QED BY <2>1, <2>2 DEF Room!Init
<1>3. Spec => [](TypeOK /\ SeatInv)
  BY <1>1, MembershipStep, TypeInit, TypeStep, PTL DEF Spec
<1> QED BY <1>2, <1>3, MembershipStep, PTL
        DEF Spec, ImplementsMembership, Room!Spec
=============================================================================
