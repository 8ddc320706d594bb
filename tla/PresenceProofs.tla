--------------------------- MODULE PresenceProofs ---------------------------
(* Theorems about presence in Hub: who is told of an arrival and of a      *)
(* leaving, for every number of connections, rooms and users.              *)
EXTENDS HubProofs

USE DEF Threads, Goto, rooms, frame, chan, known

(* The Broadcast of goroutine g of d has still to send to c: it has not    *)
(* looked the room up, or c is among those it may yet produce, or is the   *)
(* one it has just produced (hub.go:117-147).                              *)
Reaches(d, g, c) ==
  \/ pc[d][g] = "lookup"
  \/ /\ pc[d][g] \in {"range", "send"}
     /\ c \in members[iter[d][g].room]
     /\ \/ c \in iter[d][g].todo
        \/ pc[d][g] = "send" /\ iter[d][g].at = c

(* Goroutine g of d runs the function of closeOnce, past Leave's delete    *)
(* (client.go:93-99).                                                      *)
Closing(d, g) == pc[d][g] \in {"unlock", "closesend"} \/ iter[d][g].why = "bye"

(* A Broadcast ranges over a room of its connection's room id and sends to *)
(* somebody who has joined it.                                             *)
ScanOK(d, g) ==
  pc[d][g] \in {"range", "send"} =>
    /\ iter[d][g].room \in Clients
    /\ RoomOf[iter[d][g].room] = RoomOf[d]
    /\ pc[d][g] = "send" =>
         /\ iter[d][g].at \in Clients
         /\ RoomOf[iter[d][g].at] = RoomOf[d]
         /\ Joined(iter[d][g].at)

(* closeOnce lets one goroutine in. *)
OneCloser(d) ==
  \A g \in Threads :
    Closing(d, g) =>
      once[d] = "left" /\ \A h \in Threads : Closing(d, h) => h = g

(* Whoever was listed to d, or was told of d, is an observed connection of *)
(* the room of d and had joined by then.                                   *)
Known(c, d) ==
  c \in roster[d] \/ <<"join", d>> \in told[c] =>
    c \in Observed /\ RoomOf[c] = RoomOf[d] /\ Joined(c)

(* A member that was listed to d has been told of d, or will be by the     *)
(* Broadcast that precedes d's Join, or d never joins.                     *)
Listed(c, d) ==
  c \in roster[d] /\ InRoom(c) =>
    \/ <<"join", d>> \in told[c]
    \/ iter[d]["reader"].why = "hello" /\ Reaches(d, "reader", c)
    \/ pc[d]["reader"] = "end" /\ ~Joined(d)

(* A member that was told of d is told of its leaving, or will be by the   *)
(* Broadcast of Leave, once d is past Leave's delete.                      *)
Announced(c, d) ==
  InRoom(c) /\ <<"join", d>> \in told[c] /\ (once[d] = "left" \/ closed[d]) =>
    \/ <<"leave", d>> \in told[c]
    \/ \E g \in Threads :
         \/ pc[d][g] = "unlock"
         \/ iter[d][g].why = "bye" /\ Reaches(d, g, c)

(* The client-join of HandleWS is broadcast before write() begins. *)
ReaderGreets(d) == iter[d]["writer"].why # "hello"

PresenceInv ==
  /\ \A d \in Clients : OneCloser(d) /\ ReaderGreets(d)
  /\ \A d \in Clients, g \in Threads : ScanOK(d, g)
  /\ \A c, d \in Clients : Known(c, d) /\ Listed(c, d) /\ Announced(c, d)

----------------------------------------------------------------------------
(* A connection is in one room object.                                     *)
LEMMA OneRoomObject ==
  ASSUME TypeOK, RoomInv, NEW c \in Clients, NEW p \in Clients,
         NEW q \in Clients, c \in members[p], c \in members[q]
  PROVE  p = q
  BY DEF RoomInv

(* A Broadcast that goes on while members only leave still reaches those   *)
(* it reached who stay.                                                    *)
LEMMA StillReached ==
  ASSUME TypeOK, RoomInv, NEW c \in Clients, NEW d \in Clients,
         NEW g \in Threads, ScanOK(d, g),
         \A p \in Clients : members'[p] \subseteq members[p],
         InRoom(c)', pc'[d][g] = pc[d][g], iter'[d][g] = iter[d][g],
         Reaches(d, g, c)
  PROVE  Reaches(d, g, c)'
<1>1. CASE pc[d][g] = "lookup"
  BY <1>1 DEF Reaches
<1>2. CASE pc[d][g] \in {"range", "send"}
  <2>1. PICK p \in Clients : c \in members'[p]
    BY DEF InRoom
  <2>2. iter[d][g].room \in Clients /\ c \in members[iter[d][g].room]
    BY <1>2 DEF ScanOK, Reaches
  <2>3. p = iter[d][g].room
    BY <2>1, <2>2, OneRoomObject
  <2> QED BY <1>2, <2>1, <2>3 DEF Reaches
<1> QED BY <1>1, <1>2 DEF Reaches

(* Nobody whose room id maps to no room object is a member. *)
LEMMA NoMemberWithoutRoom ==
  ASSUME RoomInv, NEW c \in Clients, hub[RoomOf[c]] = None,
         HubAssumption
  PROVE  ~InRoom(c)
  BY DEF RoomInv, InRoom

(* A member is in the room object its room id maps to, and has joined. *)
LEMMA MemberOf ==
  ASSUME RoomInv, NEW c \in Clients, InRoom(c)
  PROVE  /\ hub[RoomOf[c]] \in Clients
         /\ c \in members[hub[RoomOf[c]]]
         /\ Staying(c)
  BY DEF RoomInv, InRoom

(* Steps of a goroutine that neither broadcasts nor closes, and does not   *)
(* begin to, though it may end, change nothing that presence depends on.   *)
Busy == {"off", "lookup", "range", "send", "unlock", "closesend"}

(* They keep the invariant.                                                *)
LEMMA QuietPresence ==
  ASSUME TypeOK, PhaseInv, PresenceInv,
         UNCHANGED <<members, iter, closed, once, roster, told>>,
         NEW e \in Clients, NEW h \in Threads,
         \/ pc' = pc
         \/ /\ pc[e][h] \notin Busy \cup {"end"}
            /\ \E l : l \notin Busy /\ pc' = [pc EXCEPT ![e][h] = l]
  PROVE  PresenceInv'
<1>1. ASSUME NEW d \in Clients, NEW g \in Threads
      PROVE  /\ pc[d][g] \in Busy \cup {"end"} => pc'[d][g] = pc[d][g]
             /\ pc'[d][g] \in Busy => pc'[d][g] = pc[d][g]
  <2>1. CASE pc' = pc
    BY <2>1
  <2>2. ASSUME pc[e][h] \notin Busy \cup {"end"}, NEW l, l \notin Busy,
               pc' = [pc EXCEPT ![e][h] = l]
        PROVE  /\ pc[d][g] \in Busy \cup {"end"} => pc'[d][g] = pc[d][g]
               /\ pc'[d][g] \in Busy => pc'[d][g] = pc[d][g]
    <3>1. pc'[d][g] = IF d = e /\ g = h THEN l ELSE pc[d][g]
      BY <2>2 DEF TypeOK
    <3> QED BY <2>2, <3>1
  <2> QED BY <2>1, <2>2
<1>2. \A d \in Clients : Joined(d)' <=> Joined(d)
  BY <1>1 DEF Joined, Busy
<1>3. \A d \in Clients, g \in Threads, c \in Clients :
        Reaches(d, g, c)' <=> Reaches(d, g, c)
  BY <1>1 DEF Reaches, Busy
<1>4. \A c \in Clients : InRoom(c)' <=> InRoom(c)
  BY DEF InRoom
<1>5. \A d \in Clients : OneCloser(d)'
  BY <1>1 DEF PresenceInv, OneCloser, Closing, Busy
<1>6. \A d \in Clients, g \in Threads : ScanOK(d, g)'
  BY <1>1, <1>2 DEF PresenceInv, ScanOK, Busy
<1>7. \A c, d \in Clients : Known(c, d)'
  BY <1>2 DEF PresenceInv, Known
<1>8. \A c, d \in Clients : Listed(c, d)'
  BY <1>1, <1>2, <1>3, <1>4 DEF PresenceInv, Listed, Busy
<1>9. \A c, d \in Clients : Announced(c, d)'
  BY <1>1, <1>3, <1>4 DEF PresenceInv, Announced, Busy
<1>10. \A d \in Clients : ReaderGreets(d)'
  BY DEF PresenceInv, ReaderGreets
<1> QED BY <1>5, <1>6, <1>7, <1>8, <1>9, <1>10 DEF PresenceInv

----------------------------------------------------------------------------
(* HandleWS: the newcomer is listed those already there, and its own       *)
(* client-join is about to be broadcast.                                   *)
LEMMA GreetPresence ==
  ASSUME TypeOK, PhaseInv, RoomInv, PresenceInv, NEW e \in Clients, Greet(e)
  PROVE  PresenceInv'
<1> DEFINE s == Scan(None, {}, None, "hello")
<1>1. /\ pc[e]["reader"] = "greet"
      /\ pc' = [pc EXCEPT ![e]["reader"] = "lookup"]
      /\ iter' = [iter EXCEPT ![e]["reader"] = s]
      /\ s.why = "hello"
      /\ roster' = [roster EXCEPT ![e] = Present(RoomOf[e]) \cap Observed]
      /\ UNCHANGED <<hub, members, closed, once, told>>
  BY DEF Greet, Scan
<1>2. iter[e]["reader"].why = "none" /\ once[e] = "new" /\ ~closed[e]
  BY <1>1, HubAssumption DEF PhaseInv, Phase, TypeOK
<1>3. ASSUME NEW d \in Clients, NEW g \in Threads, d # e \/ g # "reader"
      PROVE  pc'[d][g] = pc[d][g] /\ iter'[d][g] = iter[d][g]
  BY <1>1, <1>3 DEF TypeOK
<1>4. /\ pc'[e]["reader"] = "lookup" /\ iter'[e]["reader"] = s
  BY <1>1 DEF TypeOK
<1>5. \A d \in Clients : (Joined(d)' <=> Joined(d)) /\ (InRoom(d)' <=> InRoom(d))
  BY <1>1, <1>3 DEF Joined, InRoom
<1>6. \A d \in Clients, g \in Threads, c \in Clients :
        (d # e \/ g # "reader") => (Reaches(d, g, c)' <=> Reaches(d, g, c))
  BY <1>1, <1>3 DEF Reaches
<1>7. ASSUME NEW d \in Clients PROVE OneCloser(d)'
  <2>1. \A g \in Threads : Closing(d, g)' => Closing(d, g)
    BY <1>1, <1>3, <1>4 DEF Closing
  <2> QED BY <1>1, <2>1 DEF PresenceInv, OneCloser
<1>8. \A d \in Clients, g \in Threads : ScanOK(d, g)'
  BY <1>3, <1>4, <1>5 DEF PresenceInv, ScanOK
<1>9. ASSUME NEW c \in Clients, NEW d \in Clients PROVE Known(c, d)'
  <2>1. CASE d = e
    <3>1. CASE c \in roster'[e]
      <4>1. c \in Observed /\ c \in Present(RoomOf[e])
        BY <1>1, <3>1 DEF TypeOK
      <4>2. hub[RoomOf[e]] \in Clients /\ c \in members[hub[RoomOf[e]]]
        BY <4>1, HubAssumption DEF Present, TypeOK
      <4>3. RoomOf[c] = RoomOf[e] /\ Joined(c)
        BY <4>2, HubAssumption DEF RoomInv, Staying, Joined
      <4> QED BY <1>5, <2>1, <4>1, <4>3 DEF Known
    <3>2. CASE c \notin roster'[e]
      BY <1>1, <1>5, <2>1, <3>2 DEF PresenceInv, Known
    <3> QED BY <3>1, <3>2
  <2>2. CASE d # e
    BY <1>1, <1>5, <2>2 DEF PresenceInv, Known, TypeOK
  <2> QED BY <2>1, <2>2
<1>10. ASSUME NEW c \in Clients, NEW d \in Clients PROVE Listed(c, d)'
  <2>1. CASE d = e
    BY <1>1, <1>4, <2>1 DEF Listed, Reaches
  <2>2. CASE d # e
    BY <1>1, <1>3, <1>5, <1>6, <2>2 DEF PresenceInv, Listed, TypeOK
  <2> QED BY <2>1, <2>2
<1>11. ASSUME NEW c \in Clients, NEW d \in Clients PROVE Announced(c, d)'
  <2>1. CASE d = e
    BY <1>1, <1>2, <2>1 DEF Announced
  <2>2. CASE d # e
    BY <1>1, <1>3, <1>5, <1>6, <2>2 DEF PresenceInv, Announced
  <2> QED BY <2>1, <2>2
<1>12. \A d \in Clients : ReaderGreets(d)'
  BY <1>3 DEF PresenceInv, ReaderGreets
<1> QED BY <1>7, <1>8, <1>9, <1>10, <1>11, <1>12 DEF PresenceInv

(* Join: the newcomer becomes a member; it was listed to nobody before and *)
(* told of nobody.                                                         *)
LEMMA JoinPresence ==
  ASSUME TypeOK, PhaseInv, RoomInv, PresenceInv, NEW e \in Clients, Join(e)
  PROVE  PresenceInv'
<1>1. PICK o \in Clients : members' = [members EXCEPT ![o] = @ \cup {e}]
  BY HubAssumption DEF Join, TypeOK
<1>2. /\ pc[e]["reader"] = "join"
      /\ pc' = [pc EXCEPT ![e]["reader"] = "read", ![e]["writer"] = "write"]
  BY DEF Join
<1>0. UNCHANGED <<iter, closed, once, roster, told>>
  BY DEF Join
<1>3. /\ pc[e]["writer"] = "off" /\ once[e] = "new" /\ ~closed[e]
      /\ iter[e]["reader"].why = "none"
  BY <1>2, HubAssumption DEF PhaseInv, Phase, TypeOK
<1>4. ASSUME NEW d \in Clients, NEW g \in Threads
      PROVE  /\ d # e => pc'[d][g] = pc[d][g]
             /\ d = e => pc[d][g] \in {"join", "off"}
             /\ d = e => pc'[d][g] \in {"read", "write"}
  BY <1>2, <1>3 DEF TypeOK
<1>5. \A d \in Clients : Joined(d) => Joined(d)'
  BY <1>4 DEF Joined
<1>6. \A c \in Clients : c # e => (InRoom(c)' <=> InRoom(c))
  BY <1>1 DEF InRoom, TypeOK
<1>7. ~Joined(e)
  BY <1>3 DEF Joined
<1>8. \A d \in Clients, g \in Threads, c \in Clients :
        Reaches(d, g, c) => Reaches(d, g, c)' /\ d # e
  <2> SUFFICES ASSUME NEW d \in Clients, NEW g \in Threads, NEW c \in Clients,
                      Reaches(d, g, c)
               PROVE  Reaches(d, g, c)' /\ d # e
    OBVIOUS
  <2>1. d # e
    BY <1>4 DEF Reaches
  <2>2. pc[d][g] \in {"range", "send"} => iter[d][g].room \in Clients
    BY DEF PresenceInv, ScanOK
  <2>3. \A p \in Clients : members[p] \subseteq members'[p]
    BY <1>1 DEF TypeOK
  <2> QED BY <1>0, <1>4, <2>1, <2>2, <2>3 DEF Reaches
<1>9. ASSUME NEW d \in Clients PROVE OneCloser(d)'
  BY <1>0, <1>3, <1>4 DEF PresenceInv, OneCloser, Closing
<1>10. \A d \in Clients, g \in Threads : ScanOK(d, g)'
  BY <1>0, <1>4, <1>5 DEF PresenceInv, ScanOK
<1>11. \A c, d \in Clients : Known(c, d)'
  BY <1>0, <1>5 DEF PresenceInv, Known
<1>12. ASSUME NEW c \in Clients, NEW d \in Clients PROVE Listed(c, d)'
  <2>1. CASE c = e
    BY <1>0, <1>7, <2>1 DEF PresenceInv, Known, Listed
  <2>2. CASE c # e /\ d = e
    BY <1>0, <1>3, <1>4, <1>6, <2>2 DEF PresenceInv, Listed
  <2>3. CASE c # e /\ d # e
    BY <1>0, <1>4, <1>6, <1>8, <2>3 DEF PresenceInv, Listed, Joined
  <2> QED BY <2>1, <2>2, <2>3
<1>13. ASSUME NEW c \in Clients, NEW d \in Clients PROVE Announced(c, d)'
  <2>1. CASE c = e
    BY <1>0, <1>7, <2>1 DEF PresenceInv, Known, Announced
  <2>2. CASE c # e
    BY <1>0, <1>3, <1>4, <1>6, <1>8, <2>2 DEF PresenceInv, Announced
  <2> QED BY <2>1, <2>2
<1>14. \A d \in Clients : ReaderGreets(d)'
  BY <1>0 DEF PresenceInv, ReaderGreets
<1> QED BY <1>9, <1>10, <1>11, <1>12, <1>13, <1>14 DEF PresenceInv

(* The responses of a batch begin to be broadcast. *)
LEMMA EndBatchPresence ==
  ASSUME TypeOK, PhaseInv, PresenceInv, NEW e \in Clients, EndBatch(e)
  PROVE  PresenceInv'
<1>0. UNCHANGED <<members, closed, once, roster, told>>
      /\ pc[e]["reader"] = "handle"
  BY DEF EndBatch
<1>1. CASE UNCHANGED iter /\ pc' = [pc EXCEPT ![e]["reader"] = "read"]
  BY <1>0, <1>1, QuietPresence DEF Busy
<1>2. ASSUME pc' = [pc EXCEPT ![e]["reader"] = "lookup"],
             NEW s, s.why = "batch", iter' = [iter EXCEPT ![e]["reader"] = s]
      PROVE  PresenceInv'
  <2>2. iter[e]["reader"].why = "none"
    BY <1>0 DEF PhaseInv, Phase, TypeOK
  <2>3. ASSUME NEW d \in Clients, NEW g \in Threads, d # e \/ g # "reader"
        PROVE  pc'[d][g] = pc[d][g] /\ iter'[d][g] = iter[d][g]
    BY <1>2, <2>3 DEF TypeOK
  <2>4. /\ pc'[e]["reader"] = "lookup" /\ iter'[e]["reader"].why = "batch"
    BY <1>2 DEF TypeOK
  <2>5. \A d \in Clients :
          (Joined(d)' <=> Joined(d)) /\ (InRoom(d)' <=> InRoom(d))
    BY <1>0, <2>3 DEF Joined, InRoom
  <2>6. \A d \in Clients, g \in Threads, c \in Clients :
          (d # e \/ g # "reader") => (Reaches(d, g, c)' <=> Reaches(d, g, c))
    BY <1>0, <2>3 DEF Reaches
  <2>7. ASSUME NEW d \in Clients PROVE OneCloser(d)'
    <3>1. \A g \in Threads : Closing(d, g)' => Closing(d, g)
      BY <2>3, <2>4 DEF Closing
    <3> QED BY <1>0, <3>1 DEF PresenceInv, OneCloser
  <2>8. \A d \in Clients, g \in Threads : ScanOK(d, g)'
    BY <2>3, <2>4, <2>5 DEF PresenceInv, ScanOK
  <2>9. \A c, d \in Clients : Known(c, d)'
    BY <1>0, <2>5 DEF PresenceInv, Known
  <2>10. ASSUME NEW c \in Clients, NEW d \in Clients PROVE Listed(c, d)'
    BY <1>0, <2>2, <2>3, <2>5, <2>6 DEF PresenceInv, Listed
  <2>11. ASSUME NEW c \in Clients, NEW d \in Clients PROVE Announced(c, d)'
    BY <1>0, <2>2, <2>3, <2>5, <2>6 DEF PresenceInv, Announced
  <2>12. \A d \in Clients : ReaderGreets(d)'
    BY <2>3 DEF PresenceInv, ReaderGreets
  <2> QED BY <2>7, <2>8, <2>9, <2>10, <2>11, <2>12 DEF PresenceInv
<1>3. PICK s : s = Scan(None, {}, None, "batch")
  OBVIOUS
<1>4. s.why = "batch"
  BY <1>3 DEF Scan
<1>5. \/ UNCHANGED iter /\ pc' = [pc EXCEPT ![e]["reader"] = "read"]
      \/ /\ iter' = [iter EXCEPT ![e]["reader"] = s]
         /\ pc' = [pc EXCEPT ![e]["reader"] = "lookup"]
  BY <1>3, Zenon DEF EndBatch
<1> QED BY <1>1, <1>2, <1>4, <1>5

----------------------------------------------------------------------------
(* Broadcast.                                                              *)

(* What a step of a Broadcast owes a member: whoever it reached is reached *)
(* by what is left of it, or has been sent the message.                    *)
Kept(e, h, c) ==
  /\ iter[e][h].why = "hello" /\ c \in roster[e] =>
       \/ <<"join", e>> \in told'[c]
       \/ iter'[e][h].why = "hello" /\ Reaches(e, h, c)'
  /\ iter[e][h].why = "bye" /\ <<"join", e>> \in told[c] =>
       \/ <<"leave", e>> \in told'[c]
       \/ iter'[e][h].why = "bye" /\ Reaches(e, h, c)'

(* A step of a Broadcast that owes nobody anything keeps presence.         *)
LEMMA ScanPresence ==
  ASSUME TypeOK, PhaseInv, RoomInv, PresenceInv,
         NEW e \in Clients, NEW h \in Threads,
         UNCHANGED <<closed, once, roster>>,
         \A p \in Clients : members'[p] \subseteq members[p],
         \A d \in Clients, g \in Threads :
           d # e \/ g # h => pc'[d][g] = pc[d][g] /\ iter'[d][g] = iter[d][g],
         pc[e][h] \in {"lookup", "range", "send"},
         pc'[e][h] \notin {"off", "unlock"},
         iter'[e][h].why \in {iter[e][h].why, "none"},
         ScanOK(e, h)', Closing(e, h)' => Closing(e, h),
         \A c \in Clients :
           /\ told[c] \subseteq told'[c]
           /\ \A d \in Clients :
                <<"join", d>> \in told'[c] /\ <<"join", d>> \notin told[c] =>
                  /\ d = e /\ once[e] = "new"
                  /\ c \in Observed /\ RoomOf[c] = RoomOf[e] /\ Joined(c),
         \A c \in Clients : InRoom(c)' /\ Reaches(e, h, c) => Kept(e, h, c)
  PROVE  PresenceInv'
<1>1. \A d \in Clients : Joined(d)' <=> Joined(d)
  BY DEF Joined
<1>2. \A d \in Clients : InRoom(d)' => InRoom(d)
  BY DEF InRoom
<1>3. ASSUME NEW d \in Clients, NEW g \in Threads, NEW c \in Clients,
             d # e \/ g # h, InRoom(c)', Reaches(d, g, c)
      PROVE  Reaches(d, g, c)' /\ iter'[d][g] = iter[d][g]
  <2>1. ScanOK(d, g)
    BY DEF PresenceInv
  <2>2. pc'[d][g] = pc[d][g] /\ iter'[d][g] = iter[d][g]
    BY <1>3
  <2> QED BY <1>3, <2>1, <2>2, StillReached
<1>4. ASSUME NEW d \in Clients PROVE OneCloser(d)'
  <2>1. \A g \in Threads : Closing(d, g)' => Closing(d, g)
    BY DEF Closing
  <2> QED BY <2>1 DEF PresenceInv, OneCloser
<1>5. ASSUME NEW d \in Clients, NEW g \in Threads PROVE ScanOK(d, g)'
  BY <1>1 DEF PresenceInv, ScanOK
<1>6. ASSUME NEW c \in Clients, NEW d \in Clients PROVE Known(c, d)'
  BY <1>1 DEF PresenceInv, Known
<1>7. ASSUME NEW c \in Clients, NEW d \in Clients PROVE Listed(c, d)'
  <2> SUFFICES ASSUME c \in roster[d], InRoom(c)'
               PROVE  \/ <<"join", d>> \in told'[c]
                      \/ /\ iter'[d]["reader"].why = "hello"
                         /\ Reaches(d, "reader", c)'
                      \/ pc'[d]["reader"] = "end" /\ ~Joined(d)'
    BY DEF Listed
  <2>1. \/ <<"join", d>> \in told[c]
        \/ iter[d]["reader"].why = "hello" /\ Reaches(d, "reader", c)
        \/ pc[d]["reader"] = "end" /\ ~Joined(d)
    BY <1>2 DEF PresenceInv, Listed
  <2>2. CASE <<"join", d>> \in told[c]
    BY <2>2
  <2>3. CASE iter[d]["reader"].why = "hello" /\ Reaches(d, "reader", c)
    <3>1. CASE d = e /\ h = "reader"
      BY <2>3, <3>1 DEF Kept
    <3>2. CASE ~(d = e /\ h = "reader")
      BY <1>3, <2>3, <3>2
    <3> QED BY <3>1, <3>2
  <2>4. CASE pc[d]["reader"] = "end" /\ ~Joined(d)
    BY <1>1, <2>4
  <2> QED BY <2>1, <2>2, <2>3, <2>4
<1>8. ASSUME NEW c \in Clients, NEW d \in Clients PROVE Announced(c, d)'
  <2> SUFFICES ASSUME InRoom(c)', <<"join", d>> \in told'[c],
                      once[d] = "left" \/ closed[d]
               PROVE  \/ <<"leave", d>> \in told'[c]
                      \/ \E g \in Threads :
                           \/ pc'[d][g] = "unlock"
                           \/ /\ iter'[d][g].why = "bye"
                              /\ Reaches(d, g, c)'
    BY DEF Announced
  <2>1. once[d] # "new"
    BY DEF PhaseInv, Phase
  <2>2. <<"join", d>> \in told[c]
    BY <2>1
  <2>3. \/ <<"leave", d>> \in told[c]
        \/ \E g \in Threads :
             \/ pc[d][g] = "unlock"
             \/ iter[d][g].why = "bye" /\ Reaches(d, g, c)
    BY <1>2, <2>2 DEF PresenceInv, Announced
  <2>4. CASE <<"leave", d>> \in told[c]
    BY <2>4
  <2>5. ASSUME NEW g \in Threads, pc[d][g] = "unlock"
        PROVE  pc'[d][g] = "unlock"
    BY <2>5
  <2>6. ASSUME NEW g \in Threads, iter[d][g].why = "bye", Reaches(d, g, c)
        PROVE  \/ <<"leave", d>> \in told'[c]
               \/ iter'[d][g].why = "bye" /\ Reaches(d, g, c)'
    <3>1. CASE d = e /\ g = h
      BY <2>2, <2>6, <3>1 DEF Kept
    <3>2. CASE ~(d = e /\ g = h)
      BY <1>3, <2>6, <3>2
    <3> QED BY <3>1, <3>2
  <2> QED BY <2>3, <2>4, <2>5, <2>6
<1>9. ASSUME NEW d \in Clients PROVE ReaderGreets(d)'
  BY DEF PresenceInv, ReaderGreets
<1> QED BY <1>4, <1>5, <1>6, <1>7, <1>8, <1>9 DEF PresenceInv

(* A Broadcast returns when it reaches nobody any more. *)
LEMMA ReturnPresence ==
  ASSUME TypeOK, PhaseInv, RoomInv, PresenceInv,
         NEW e \in Clients, NEW h \in Threads, Return(e, h),
         UNCHANGED <<members, closed, once, roster, told>>,
         pc[e][h] \in {"lookup", "range"},
         \A c \in Clients : InRoom(c) /\ Reaches(e, h, c) =>
                            iter[e][h].why = "batch" \/ RoomOf[c] # RoomOf[e]
  PROVE  PresenceInv'
<1>1. \A d \in Clients, g \in Threads :
        d # e \/ g # h => pc'[d][g] = pc[d][g] /\ iter'[d][g] = iter[d][g]
  BY DEF Return, TypeOK
<1>2. pc'[e][h] = After(iter[e][h].why) /\ iter'[e][h].why = "none"
  BY DEF Return, TypeOK, NoScan, Scan
<1>3. pc'[e][h] \in {"join", "read", "closesend"}
  BY <1>2 DEF After
<1>4. iter[e][h].why \in {"hello", "batch", "bye"}
  BY ScanFields DEF PhaseInv, Phase, TypeOK
<1>5. ScanOK(e, h)'
  BY <1>3 DEF ScanOK
<1>6. Closing(e, h)' => Closing(e, h)
  BY <1>2, <1>4 DEF Closing, After
<1>7. ASSUME NEW c \in Clients, InRoom(c)', Reaches(e, h, c)
      PROVE  Kept(e, h, c)
  <2>1. InRoom(c)
    BY <1>7 DEF InRoom
  <2>2. iter[e][h].why = "batch" \/ RoomOf[c] # RoomOf[e]
    BY <1>7, <2>1
  <2>3. CASE RoomOf[c] # RoomOf[e]
    <3>1. c \notin roster[e] /\ <<"join", e>> \notin told[c]
      BY <2>3 DEF PresenceInv, Known
    <3> QED BY <3>1 DEF Kept
  <2>4. CASE iter[e][h].why = "batch"
    BY <2>4 DEF Kept
  <2> QED BY <2>2, <2>3, <2>4
<1> QED BY <1>1, <1>2, <1>3, <1>5, <1>6, <1>7, ScanPresence

(* The room is looked up: every member of it will be reached. *)
LEMMA LookupPresence ==
  ASSUME TypeOK, PhaseInv, RoomInv, PresenceInv,
         NEW e \in Clients, NEW h \in Threads, Lookup(e, h)
  PROVE  PresenceInv'
<1>1. /\ pc[e][h] = "lookup"
      /\ UNCHANGED <<members, closed, once, roster, told>>
  BY DEF Lookup
<1>2. CASE hub[RoomOf[e]] = None
  <2>1. Return(e, h)
    BY <1>2 DEF Lookup
  <2>2. \A c \in Clients : InRoom(c) => RoomOf[c] # RoomOf[e]
    BY <1>2, HubAssumption, NoMemberWithoutRoom
  <2> QED BY <1>1, <2>1, <2>2, ReturnPresence
<1>3. CASE hub[RoomOf[e]] # None
  <2>1. PICK o \in Clients : o = hub[RoomOf[e]]
    BY <1>3, HubAssumption DEF TypeOK
  <2>2. PICK todo :
          /\ members[o] \ Sender(e, h) \subseteq todo
          /\ iter' = [iter EXCEPT ![e][h] = Scan(o, todo, None, @.why)]
          /\ pc' = [pc EXCEPT ![e][h] = "range"]
    <3>1. PICK late \in SUBSET Coming(RoomOf[e]) :
            iter' = [iter EXCEPT ![e][h] =
              Scan(o, (members[o] \cup late) \ Sender(e, h), None, @.why)]
      BY <1>3, <2>1 DEF Lookup
    <3>2. pc' = [pc EXCEPT ![e][h] = "range"]
      BY <1>3 DEF Lookup
    <3> QED BY <3>1, <3>2
  <2>3. \A d \in Clients, g \in Threads :
          d # e \/ g # h => pc'[d][g] = pc[d][g] /\ iter'[d][g] = iter[d][g]
    BY <2>2 DEF TypeOK
  <2>4. /\ pc'[e][h] = "range"
        /\ iter'[e][h].room = o
        /\ iter'[e][h].todo = todo
        /\ iter'[e][h].why = iter[e][h].why
    BY <2>2 DEF TypeOK, Scan
  <2>5. RoomOf[o] = RoomOf[e]
    BY <2>1, HubAssumption DEF RoomInv, TypeOK
  <2>6. ScanOK(e, h)'
    BY <2>4, <2>5 DEF ScanOK
  <2>7. Closing(e, h)' => Closing(e, h)
    BY <2>4 DEF Closing
  <2>8. ASSUME NEW c \in Clients, InRoom(c)' PROVE Kept(e, h, c)
    <3>1. CASE RoomOf[c] # RoomOf[e]
      <4>1. c \notin roster[e] /\ <<"join", e>> \notin told[c]
        BY <3>1 DEF PresenceInv, Known
      <4> QED BY <4>1 DEF Kept
    <3>2. CASE RoomOf[c] = RoomOf[e] /\ iter[e][h].why \in {"hello", "bye"}
      <4>1. InRoom(c)
        BY <1>1, <2>8 DEF InRoom
      <4>2. c \in members[o]
        BY <2>1, <3>2, <4>1, MemberOf
      <4>3. c \in todo
        BY <2>2, <3>2, <4>2 DEF Sender
      <4>4. Reaches(e, h, c)'
        BY <1>1, <2>4, <4>2, <4>3 DEF Reaches
      <4> QED BY <2>4, <4>4 DEF Kept
    <3>3. CASE iter[e][h].why \notin {"hello", "bye"}
      BY <3>3 DEF Kept
    <3> QED BY <3>1, <3>2, <3>3
  <2> QED BY <1>1, <2>3, <2>4, <2>6, <2>7, <2>8, ScanPresence
<1> QED BY <1>2, <1>3

(* The loop produces a member, who is sent to next, or ends. *)
LEMMA RangePresence ==
  ASSUME TypeOK, PhaseInv, RoomInv, PresenceInv,
         NEW e \in Clients, NEW h \in Threads, Range(e, h)
  PROVE  PresenceInv'
<1>1. /\ pc[e][h] = "range"
      /\ UNCHANGED <<members, closed, once, roster, told>>
  BY DEF Range
<1>2. PICK rest : rest = iter[e][h].todo \cap members[iter[e][h].room]
  OBVIOUS
<1>3. CASE rest = {} /\ Return(e, h)
  <2>1. \A c \in Clients : ~Reaches(e, h, c)
    BY <1>1, <1>2, <1>3 DEF Reaches
  <2> QED BY <1>1, <1>3, <2>1, ReturnPresence
<1>4. ASSUME NEW d \in rest,
             iter' = [iter EXCEPT ![e][h] = Scan(@.room, @.todo \ {d}, d, @.why)],
             pc' = [pc EXCEPT ![e][h] = "send"]
      PROVE  PresenceInv'
  <2>1. /\ iter[e][h].room \in Clients
        /\ RoomOf[iter[e][h].room] = RoomOf[e]
    BY <1>1 DEF PresenceInv, ScanOK
  <2>2. d \in Clients /\ d \in members[iter[e][h].room]
    BY <1>2, <1>4, <2>1 DEF TypeOK
  <2>3. RoomOf[d] = RoomOf[e] /\ Joined(d)
    BY <2>1, <2>2 DEF RoomInv, Staying, Joined
  <2>4. \A c \in Clients, g \in Threads :
          c # e \/ g # h => pc'[c][g] = pc[c][g] /\ iter'[c][g] = iter[c][g]
    BY <1>4 DEF TypeOK
  <2>5. /\ pc'[e][h] = "send"
        /\ iter'[e][h].room = iter[e][h].room
        /\ iter'[e][h].todo = iter[e][h].todo \ {d}
        /\ iter'[e][h].at = d
        /\ iter'[e][h].why = iter[e][h].why
    BY <1>4 DEF TypeOK, Scan
  <2>6. Joined(d)'
    BY <2>2, <2>3, <2>4, <2>5 DEF Joined
  <2>7. ScanOK(e, h)'
    BY <2>1, <2>2, <2>3, <2>5, <2>6 DEF ScanOK
  <2>8. Closing(e, h)' => Closing(e, h)
    BY <2>5 DEF Closing
  <2>9. ASSUME NEW c \in Clients, Reaches(e, h, c) PROVE Kept(e, h, c)
    <3>1. c \in iter[e][h].todo /\ c \in members[iter[e][h].room]
      BY <1>1, <2>9 DEF Reaches
    <3>2. Reaches(e, h, c)'
      BY <1>1, <2>5, <3>1 DEF Reaches
    <3> QED BY <2>5, <3>2 DEF Kept
  <2> QED BY <1>1, <2>4, <2>5, <2>7, <2>8, <2>9, ScanPresence
<1> QED BY <1>2, <1>3, <1>4 DEF Range

(* A batch passes over a member of another layer. *)
LEMMA SkipPresence ==
  ASSUME TypeOK, PhaseInv, RoomInv, PresenceInv,
         NEW e \in Clients, NEW h \in Threads, Skip(e, h)
  PROVE  PresenceInv'
<1>1. /\ pc[e][h] = "send"
      /\ iter[e][h].why = "batch"
      /\ UNCHANGED <<members, iter, closed, once, roster, told>>
      /\ pc' = [pc EXCEPT ![e][h] = "range"]
  BY DEF Skip, Wanted
<1>2. \A c \in Clients, g \in Threads :
        c # e \/ g # h => pc'[c][g] = pc[c][g] /\ iter'[c][g] = iter[c][g]
  BY <1>1 DEF TypeOK
<1>3. pc'[e][h] = "range"
  BY <1>1 DEF TypeOK
<1>4. ScanOK(e, h)'
  BY <1>1, <1>3 DEF PresenceInv, ScanOK
<1>5. Closing(e, h)' => Closing(e, h)
  BY <1>1, <1>3 DEF Closing
<1>6. \A c \in Clients : Kept(e, h, c)
  BY <1>1 DEF Kept
<1> QED BY <1>1, <1>2, <1>3, <1>4, <1>5, <1>6, ScanPresence

(* The message is sent to the member the loop has produced. *)
LEMMA DeliverPresence ==
  ASSUME TypeOK, PhaseInv, RoomInv, PresenceInv,
         NEW e \in Clients, NEW h \in Threads, Deliver(e, h)
  PROVE  PresenceInv'
<1> DEFINE x == iter[e][h].at
<1>1. /\ pc[e][h] = "send"
      /\ UNCHANGED <<members, iter, closed, once, roster>>
  BY DEF Deliver
<1>2. x \in Clients /\ RoomOf[x] = RoomOf[e] /\ Joined(x)
  BY <1>1 DEF PresenceInv, ScanOK
<1>3. /\ pc' = [pc EXCEPT ![e][h] = "range"]
      /\ told' = [told EXCEPT ![x] = @ \cup Notice(e, h)]
  BY DEF Deliver
<1>4. \A c \in Clients, g \in Threads : c # e \/ g # h => pc'[c][g] = pc[c][g]
  BY <1>3 DEF TypeOK
<1>5. pc'[e][h] = "range"
  BY <1>3 DEF TypeOK
<1>6. /\ \A c \in Clients : told[c] \subseteq told'[c]
      /\ \A c \in Clients : c # x => told'[c] = told[c]
      /\ told'[x] = told[x] \cup Notice(e, h)
  BY <1>2, <1>3 DEF TypeOK
<1>7. ScanOK(e, h)'
  BY <1>1, <1>5 DEF PresenceInv, ScanOK
<1>8. Closing(e, h)' => Closing(e, h)
  BY <1>1, <1>5 DEF Closing
<1>9. ASSUME NEW c \in Clients, NEW d \in Clients, <<"join", d>> \in told'[c],
             <<"join", d>> \notin told[c]
      PROVE  /\ d = e /\ once[e] = "new"
             /\ c \in Observed /\ RoomOf[c] = RoomOf[e] /\ Joined(c)
  <2>1. c = x /\ <<"join", d>> \in Notice(e, h)
    BY <1>6, <1>9
  <2>2. d = e /\ c \in Observed /\ iter[e][h].why = "hello"
    BY <2>1 DEF Notice
  <2>3. once[e] = "new"
    BY <2>2 DEF PresenceInv, ReaderGreets, PhaseInv, Phase
  <2> QED BY <1>2, <2>1, <2>2, <2>3
<1>10. ASSUME NEW c \in Clients, Reaches(e, h, c) PROVE Kept(e, h, c)
  <2>1. CASE c = x
    <3>1. ASSUME c \in Observed
          PROVE  /\ iter[e][h].why = "hello" => <<"join", e>> \in Notice(e, h)
                 /\ iter[e][h].why = "bye" => <<"leave", e>> \in Notice(e, h)
      BY <2>1, <3>1 DEF Notice, Notices
    <3>2. c \in roster[e] \/ <<"join", e>> \in told[c] => c \in Observed
      BY DEF PresenceInv, Known
    <3> QED BY <1>6, <2>1, <3>1, <3>2 DEF Kept
  <2>2. CASE c # x
    <3>1. c \in iter[e][h].todo /\ c \in members[iter[e][h].room]
      BY <1>1, <1>10, <2>2 DEF Reaches
    <3>2. Reaches(e, h, c)'
      BY <1>1, <1>5, <3>1 DEF Reaches
    <3> QED BY <1>1, <3>2 DEF Kept
  <2> QED BY <2>1, <2>2
<1> QED BY <1>1, <1>4, <1>5, <1>6, <1>7, <1>8, <1>9, <1>10, ScanPresence

(* The member is evicted: it is in no room any more. *)
LEMMA EvictPresence ==
  ASSUME TypeOK, PhaseInv, RoomInv, PresenceInv,
         NEW e \in Clients, NEW h \in Threads, Evict(e, h)
  PROVE  PresenceInv'
<1> DEFINE x == iter[e][h].at
           o == iter[e][h].room
<1>1. /\ pc[e][h] = "send"
      /\ UNCHANGED <<iter, closed, once, roster, told>>
  BY DEF Evict
<1>2. o \in Clients
  BY <1>1 DEF PresenceInv, ScanOK
<1>3. /\ pc' = [pc EXCEPT ![e][h] = "range"]
      /\ members' = [members EXCEPT ![o] = @ \ {x}]
  BY DEF Evict
<1>4. \A c \in Clients, g \in Threads : c # e \/ g # h => pc'[c][g] = pc[c][g]
  BY <1>3 DEF TypeOK
<1>5. pc'[e][h] = "range"
  BY <1>3 DEF TypeOK
<1>6. /\ \A p \in Clients : members'[p] \subseteq members[p]
      /\ members'[o] = members[o] \ {x}
  BY <1>2, <1>3 DEF TypeOK
<1>7. ScanOK(e, h)'
  BY <1>1, <1>5 DEF PresenceInv, ScanOK
<1>8. Closing(e, h)' => Closing(e, h)
  BY <1>1, <1>5 DEF Closing
<1>9. ASSUME NEW c \in Clients, InRoom(c)', Reaches(e, h, c) PROVE Kept(e, h, c)
  <2>1. c \in members[o]
    BY <1>1, <1>9 DEF Reaches
  <2>2. PICK p \in Clients : c \in members'[p]
    BY <1>9 DEF InRoom
  <2>3. p = o
    BY <1>2, <1>6, <2>1, <2>2, OneRoomObject
  <2>4. c \in members'[o] /\ c # x
    BY <1>6, <2>2, <2>3
  <2>5. c \in iter[e][h].todo
    BY <1>1, <1>9, <2>4 DEF Reaches
  <2>6. Reaches(e, h, c)'
    BY <1>1, <1>5, <2>4, <2>5 DEF Reaches
  <2> QED BY <1>1, <2>6 DEF Kept
<1> QED BY <1>1, <1>4, <1>5, <1>6, <1>7, <1>8, <1>9, ScanPresence

(* The member has closed its channel: the panic ends HandleWS before Join, *)
(* or read(), or closeOnce with the channel of the leaver left open.       *)
LEMMA PanicPresence ==
  ASSUME TypeOK, PhaseInv, RoomInv, PresenceInv, NEW e \in Clients,
         SendPanic(e)
  PROVE  PresenceInv'
<1> DEFINE why == iter[e]["reader"].why
<1>1. /\ pc[e]["reader"] = "send"
      /\ UNCHANGED <<members, closed, roster, told>>
  BY DEF SendPanic, OnClosed
<1>2. /\ pc' = [pc EXCEPT ![e]["reader"] = IF why = "batch" THEN "close" ELSE "end"]
      /\ iter' = [iter EXCEPT ![e]["reader"] = NoScan]
      /\ once' = [once EXCEPT ![e] = IF why = "bye" THEN "done" ELSE @]
  BY DEF SendPanic
<1>3. \A d \in Clients, g \in Threads :
        d # e \/ g # "reader" => pc'[d][g] = pc[d][g] /\ iter'[d][g] = iter[d][g]
  BY <1>2 DEF TypeOK
<1>4. /\ pc'[e]["reader"] = IF why = "batch" THEN "close" ELSE "end"
      /\ iter'[e]["reader"].why = "none"
  BY <1>2 DEF TypeOK, NoScan, Scan
<1>5. /\ \A d \in Clients : d # e => once'[d] = once[d]
      /\ once'[e] = IF why = "bye" THEN "done" ELSE once[e]
  BY <1>2 DEF TypeOK
<1>6. \A d \in Clients : (Joined(d)' <=> Joined(d)) /\ (InRoom(d)' <=> InRoom(d))
  BY <1>1, <1>3 DEF Joined, InRoom
<1>7. \A d \in Clients, g \in Threads, c \in Clients :
        (d # e \/ g # "reader") => (Reaches(d, g, c)' <=> Reaches(d, g, c))
  BY <1>1, <1>3 DEF Reaches
<1>8. why = "bye" => once[e] = "left" /\ ~closed[e] /\ ~Closing(e, "writer")
  <2> SUFFICES ASSUME why = "bye"
               PROVE  once[e] = "left" /\ ~closed[e] /\ ~Closing(e, "writer")
    OBVIOUS
  <2>1. Closing(e, "reader")
    BY DEF Closing
  <2>2. once[e] = "left" /\ ~Closing(e, "writer")
    BY <2>1 DEF PresenceInv, OneCloser
  <2> QED BY <2>2 DEF PhaseInv, Phase
<1>9. ASSUME NEW d \in Clients PROVE OneCloser(d)'
  <2>1. \A g \in Threads :
          Closing(d, g)' => Closing(d, g) /\ (d # e \/ g = "writer")
    BY <1>3, <1>4 DEF Closing
  <2>2. CASE d # e
    BY <1>5, <2>1, <2>2 DEF PresenceInv, OneCloser
  <2>3. CASE d = e /\ why = "bye"
    BY <1>8, <2>1, <2>3 DEF OneCloser
  <2>4. CASE d = e /\ why # "bye"
    BY <1>5, <2>1, <2>4 DEF PresenceInv, OneCloser
  <2> QED BY <2>2, <2>3, <2>4
<1>10. ASSUME NEW d \in Clients, NEW g \in Threads PROVE ScanOK(d, g)'
  <2>1. CASE d = e /\ g = "reader"
    BY <1>4, <2>1 DEF ScanOK
  <2>2. CASE d # e \/ g # "reader"
    BY <1>3, <1>6, <2>2 DEF PresenceInv, ScanOK
  <2> QED BY <2>1, <2>2
<1>11. ASSUME NEW d \in Clients PROVE ReaderGreets(d)'
  BY <1>3 DEF PresenceInv, ReaderGreets
<1>12. ASSUME NEW c \in Clients, NEW d \in Clients PROVE Known(c, d)'
  BY <1>1, <1>6 DEF PresenceInv, Known
<1>13. ASSUME NEW c \in Clients, NEW d \in Clients PROVE Listed(c, d)'
  <2>1. CASE d # e
    BY <1>1, <1>3, <1>6, <1>7, <2>1 DEF PresenceInv, Listed
  <2>2. CASE d = e /\ why # "hello"
    BY <1>1, <1>6, <2>2 DEF PresenceInv, Listed
  <2>3. CASE d = e /\ why = "hello"
    <3>1. ~Joined(e)
      BY <2>3 DEF PhaseInv, Phase, Joined
    <3> QED BY <1>4, <1>6, <2>3, <3>1 DEF Listed
  <2> QED BY <2>1, <2>2, <2>3
<1>14. ASSUME NEW c \in Clients, NEW d \in Clients PROVE Announced(c, d)'
  <2>1. CASE d # e
    BY <1>1, <1>3, <1>5, <1>6, <1>7, <2>1 DEF PresenceInv, Announced
  <2>2. CASE d = e /\ why = "bye"
    BY <1>1, <1>5, <1>8, <2>2 DEF Announced
  <2>3. CASE d = e /\ why # "bye"
    BY <1>1, <1>3, <1>5, <1>6, <1>7, <2>3 DEF PresenceInv, Announced
  <2> QED BY <2>1, <2>2, <2>3
<1> QED BY <1>9, <1>10, <1>11, <1>12, <1>13, <1>14 DEF PresenceInv

----------------------------------------------------------------------------
(* close() and Leave.                                                      *)

(* Leave's delete: the leaver is out of its room, and unless nobody is     *)
(* left its leaving is about to be broadcast.                              *)
LEMMA LeavePresence ==
  ASSUME TypeOK, PhaseInv, RoomInv, PresenceInv,
         NEW e \in Clients, NEW h \in Threads, Leave(e, h)
  PROVE  PresenceInv'
<1>1. /\ pc[e][h] = "close" /\ once[e] = "new"
      /\ UNCHANGED <<iter, closed, roster, told>>
  BY DEF Leave
<1>2. PICK l : /\ l = (IF Emptied(e) THEN "closesend" ELSE "unlock")
               /\ pc' = [pc EXCEPT ![e][h] = l]
  BY DEF Leave
<1>3. \A d \in Clients, g \in Threads : d # e \/ g # h => pc'[d][g] = pc[d][g]
  BY <1>2 DEF TypeOK
<1>4. pc'[e][h] = l
  BY <1>2 DEF TypeOK
<1>5. once'[e] = "left" /\ \A d \in Clients : d # e => once'[d] = once[d]
  BY DEF Leave, TypeOK
<1>6. \A o \in Clients :
        /\ o = hub[RoomOf[e]] => members'[o] = members[o] \ {e}
        /\ o # hub[RoomOf[e]] => members'[o] = members[o]
  BY HubAssumption DEF Leave, Remaining, Present, TypeOK
<1>7. \A p \in Clients : members'[p] \subseteq members[p]
  BY <1>6
<1>8. \A d \in Clients : (Joined(d)' <=> Joined(d)) /\ (InRoom(d)' => InRoom(d))
  BY <1>1, <1>2, <1>3, <1>4, <1>7 DEF Joined, InRoom
<1>9. ASSUME NEW d \in Clients, NEW g \in Threads, NEW c \in Clients,
             InRoom(c)', Reaches(d, g, c)
      PROVE  Reaches(d, g, c)' /\ iter'[d][g] = iter[d][g]
  <2>1. ScanOK(d, g)
    BY DEF PresenceInv
  <2>2. d # e \/ g # h
    BY <1>1, <1>9 DEF Reaches
  <2>3. pc'[d][g] = pc[d][g] /\ iter'[d][g] = iter[d][g]
    BY <1>1, <1>3, <2>2
  <2> QED BY <1>7, <1>9, <2>1, <2>3, StillReached
<1>10. \A g \in Threads : ~Closing(e, g)
  BY <1>1 DEF PresenceInv, OneCloser
<1>11. ASSUME NEW d \in Clients PROVE OneCloser(d)'
  <2>1. CASE d = e
    <3>1. \A g \in Threads : Closing(e, g)' => g = h
      BY <1>1, <1>3, <1>10 DEF Closing
    <3> QED BY <1>5, <2>1, <3>1 DEF OneCloser
  <2>2. CASE d # e
    <3>1. \A g \in Threads : Closing(d, g)' <=> Closing(d, g)
      BY <1>1, <1>3, <2>2 DEF Closing
    <3> QED BY <1>5, <2>2, <3>1 DEF PresenceInv, OneCloser
  <2> QED BY <2>1, <2>2
<1>12. ASSUME NEW d \in Clients, NEW g \in Threads PROVE ScanOK(d, g)'
  BY <1>1, <1>2, <1>3, <1>4, <1>8 DEF PresenceInv, ScanOK
<1>13. ASSUME NEW d \in Clients PROVE ReaderGreets(d)'
  BY <1>1 DEF PresenceInv, ReaderGreets
<1>14. ASSUME NEW c \in Clients, NEW d \in Clients PROVE Known(c, d)'
  BY <1>1, <1>8 DEF PresenceInv, Known
<1>15. ASSUME NEW c \in Clients, NEW d \in Clients PROVE Listed(c, d)'
  <2>1. pc[d]["reader"] = "end" => pc'[d]["reader"] = "end"
    BY <1>1, <1>3
  <2> QED BY <1>1, <1>8, <1>9, <2>1 DEF PresenceInv, Listed
<1>16. ASSUME NEW c \in Clients, NEW d \in Clients PROVE Announced(c, d)'
  <2>1. CASE d # e
    <3>1. \A g \in Threads : pc'[d][g] = pc[d][g]
      BY <1>3, <2>1
    <3> QED BY <1>1, <1>5, <1>8, <1>9, <2>1, <3>1 DEF PresenceInv, Announced
  <2>2. CASE d = e /\ ~Emptied(e)
    BY <1>2, <1>4, <2>2 DEF Announced
  <2>3. CASE d = e /\ Emptied(e)
    <3> SUFFICES ASSUME InRoom(c)', <<"join", e>> \in told[c] PROVE FALSE
      BY <1>1, <2>3 DEF Announced
    <3>1. RoomOf[c] = RoomOf[e]
      BY DEF PresenceInv, Known
    <3>2. /\ hub[RoomOf[e]] \in Clients
          /\ c \in members[hub[RoomOf[e]]]
      BY <1>8, <3>1, MemberOf
    <3>3. PICK p \in Clients : c \in members'[p]
      BY DEF InRoom
    <3>4. p = hub[RoomOf[e]]
      BY <1>7, <3>2, <3>3, OneRoomObject
    <3>5. c \in members[hub[RoomOf[e]]] \ {e}
      BY <1>6, <3>2, <3>3, <3>4
    <3> QED BY <2>3, <3>2, <3>5, HubAssumption DEF Emptied, Remaining, Present
  <2> QED BY <2>1, <2>2, <2>3
<1> QED BY <1>11, <1>12, <1>13, <1>14, <1>15, <1>16 DEF PresenceInv

(* The leaver's locks are released and its client-leave is about to be     *)
(* broadcast.                                                              *)
LEMMA UnlockPresence ==
  ASSUME TypeOK, PhaseInv, RoomInv, PresenceInv,
         NEW e \in Clients, NEW h \in Threads, Unlock(e, h)
  PROVE  PresenceInv'
<1>1. /\ pc[e][h] = "unlock"
      /\ UNCHANGED <<members, closed, once, roster, told>>
  BY DEF Unlock
<1>2. PICK s : s.why = "bye" /\ iter' = [iter EXCEPT ![e][h] = s]
  BY DEF Unlock, Scan
<1>3. pc' = [pc EXCEPT ![e][h] = "lookup"]
  BY DEF Unlock
<1>4. \A d \in Clients, g \in Threads :
        d # e \/ g # h => pc'[d][g] = pc[d][g] /\ iter'[d][g] = iter[d][g]
  BY <1>2, <1>3 DEF TypeOK
<1>5. pc'[e][h] = "lookup" /\ iter'[e][h].why = "bye"
  BY <1>2, <1>3 DEF TypeOK
<1>6. iter[e][h].why = "none"
  BY <1>1 DEF PhaseInv, Phase
<1>7. \A d \in Clients : (Joined(d)' <=> Joined(d)) /\ (InRoom(d)' <=> InRoom(d))
  BY <1>1, <1>4, <1>5 DEF Joined, InRoom
<1>8. \A d \in Clients, g \in Threads, c \in Clients :
        (d # e \/ g # h) => (Reaches(d, g, c)' <=> Reaches(d, g, c))
  BY <1>1, <1>4 DEF Reaches
<1>9. \A c \in Clients : Reaches(e, h, c)'
  BY <1>5 DEF Reaches
<1>10. ASSUME NEW d \in Clients PROVE OneCloser(d)'
  <2>1. \A g \in Threads : Closing(d, g)' <=> Closing(d, g)
    BY <1>1, <1>4, <1>5 DEF Closing
  <2> QED BY <1>1, <2>1 DEF PresenceInv, OneCloser
<1>11. ASSUME NEW d \in Clients, NEW g \in Threads PROVE ScanOK(d, g)'
  BY <1>4, <1>5, <1>7 DEF PresenceInv, ScanOK
<1>12. ASSUME NEW d \in Clients PROVE ReaderGreets(d)'
  BY <1>4, <1>5 DEF PresenceInv, ReaderGreets
<1>13. ASSUME NEW c \in Clients, NEW d \in Clients PROVE Known(c, d)'
  BY <1>1, <1>7 DEF PresenceInv, Known
<1>14. ASSUME NEW c \in Clients, NEW d \in Clients PROVE Listed(c, d)'
  BY <1>1, <1>4, <1>6, <1>7, <1>8 DEF PresenceInv, Listed
<1>15. ASSUME NEW c \in Clients, NEW d \in Clients PROVE Announced(c, d)'
  BY <1>1, <1>4, <1>5, <1>7, <1>8, <1>9 DEF PresenceInv, Announced
<1> QED BY <1>10, <1>11, <1>12, <1>13, <1>14, <1>15 DEF PresenceInv

(* The channel is closed: the leaver is in no room, and its leaving has    *)
(* been broadcast by the one goroutine that ran closeOnce.                 *)
LEMMA CloseSendPresence ==
  ASSUME TypeOK, PhaseInv, RoomInv, PresenceInv,
         NEW e \in Clients, NEW h \in Threads, CloseSend(e, h)
  PROVE  PresenceInv'
<1>1. /\ pc[e][h] = "closesend"
      /\ UNCHANGED <<members, iter>>
  BY DEF CloseSend
<1>2. pc' = [pc EXCEPT ![e][h] = "end"]
  BY DEF CloseSend
<1>3. \A d \in Clients, g \in Threads : d # e \/ g # h => pc'[d][g] = pc[d][g]
  BY <1>2 DEF TypeOK
<1>4. pc'[e][h] = "end"
  BY <1>2 DEF TypeOK
<1>5. /\ \A d \in Clients : d # e => /\ closed'[d] = closed[d]
                                   /\ once'[d] = once[d]
                                   /\ roster'[d] = roster[d]
                                   /\ told'[d] = told[d]
      /\ once'[e] = "done" /\ roster'[e] = {} /\ told'[e] = {}
  BY DEF CloseSend, TypeOK
<1>6. once[e] = "left" /\ \A g \in Threads : Closing(e, g) => g = h
  BY <1>1 DEF PresenceInv, OneCloser, Closing
<1>7. iter[e][h].why = "none"
  BY <1>1 DEF PhaseInv, Phase
<1>8. ~InRoom(e)
  BY <1>6, MemberOf DEF Staying
<1>9. \A d \in Clients : (Joined(d)' <=> Joined(d)) /\ (InRoom(d)' <=> InRoom(d))
  BY <1>1, <1>3, <1>4 DEF Joined, InRoom
<1>10. \A d \in Clients, g \in Threads, c \in Clients :
         Reaches(d, g, c)' <=> Reaches(d, g, c)
  BY <1>1, <1>3, <1>4 DEF Reaches
<1>11. ASSUME NEW d \in Clients PROVE OneCloser(d)'
  <2>1. \A g \in Threads : Closing(d, g)' => Closing(d, g) /\ (d # e \/ g # h)
    BY <1>1, <1>3, <1>4, <1>7 DEF Closing
  <2> QED BY <1>5, <1>6, <2>1 DEF PresenceInv, OneCloser
<1>12. ASSUME NEW d \in Clients, NEW g \in Threads PROVE ScanOK(d, g)'
  BY <1>1, <1>3, <1>4, <1>9 DEF PresenceInv, ScanOK
<1>13. ASSUME NEW d \in Clients PROVE ReaderGreets(d)'
  BY <1>1 DEF PresenceInv, ReaderGreets
<1>14. ASSUME NEW c \in Clients, NEW d \in Clients PROVE Known(c, d)'
  BY <1>5, <1>9 DEF PresenceInv, Known
<1>15. ASSUME NEW c \in Clients, NEW d \in Clients PROVE Listed(c, d)'
  <2>1. CASE c = e \/ d = e
    BY <1>5, <1>8, <1>9, <2>1 DEF Listed
  <2>2. CASE c # e /\ d # e
    BY <1>1, <1>3, <1>5, <1>9, <1>10, <2>2 DEF PresenceInv, Listed
  <2> QED BY <2>1, <2>2
<1>16. ASSUME NEW c \in Clients, NEW d \in Clients PROVE Announced(c, d)'
  <2>1. CASE c = e
    BY <1>8, <1>9, <2>1 DEF Announced
  <2>2. CASE c # e /\ d # e
    BY <1>1, <1>3, <1>5, <1>9, <1>10, <2>2 DEF PresenceInv, Announced
  <2>3. CASE c # e /\ d = e
    <3> SUFFICES ASSUME InRoom(c), <<"join", e>> \in told[c]
                 PROVE  <<"leave", e>> \in told[c]
      BY <1>5, <1>9, <2>3 DEF Announced
    <3>1. ASSUME NEW g \in Threads
          PROVE  pc[e][g] # "unlock" /\ iter[e][g].why # "bye"
      BY <1>1, <1>6, <1>7 DEF Closing
    <3> QED BY <1>6, <3>1 DEF PresenceInv, Announced
  <2> QED BY <2>1, <2>2, <2>3
<1> QED BY <1>11, <1>12, <1>13, <1>14, <1>15, <1>16 DEF PresenceInv

----------------------------------------------------------------------------
(* The other steps of a connection move one goroutine between places that  *)
(* presence does not depend on.                                            *)
LEMMA QuietSteps ==
  ASSUME TypeOK, PhaseInv, PresenceInv, NEW e \in Clients, NEW g \in Threads,
         \/ Connect(e) \/ GreetFails(e) \/ CloseAgain(e, g) \/ ReadBatch(e) \/ ReadError(e)
         \/ HandlePlain(e) \/ HandleClocked(e) \/ HandleClockedPanic(e)
         \/ \E d \in Doms : HandleLock(e, d) \/ HandleUnlock(e, d)
         \/ HandleLayer(e) \/ Ack(e) \/ Answer(e) \/ AnswerPanic(e)
         \/ Write(e) \/ WriteEnds(e) \/ ConnFail(e)
  PROVE  PresenceInv'
<1>1. UNCHANGED <<members, iter, closed, once, roster, told>>
  BY DEF Connect, GreetFails, CloseAgain, ReadBatch, ReadError, HandlePlain, HandleClocked,
         HandleClockedPanic, HandleLock, HandleUnlock, HandleLayer, Ack,
         Answer, AnswerPanic, Write, WriteEnds, ConnFail, SendOwn, EndTurn
<1>2. \/ pc' = pc
      \/ \E h \in Threads :
           /\ pc[e][h] \notin Busy \cup {"end"}
           /\ \E l : l \notin Busy /\ pc' = [pc EXCEPT ![e][h] = l]
  <2>1. CASE Connect(e)
    BY <2>1 DEF Connect, Busy
  <2>2. CASE ReadBatch(e) \/ ReadError(e)
    BY <2>2 DEF ReadBatch, ReadError, Busy
  <2>3. CASE HandlePlain(e) \/ HandleClocked(e) \/ ConnFail(e)
             \/ \E d \in Doms : HandleLock(e, d) \/ HandleUnlock(e, d)
    BY <2>3 DEF HandlePlain, HandleClocked, ConnFail, HandleLock, HandleUnlock
  <2>4. CASE HandleClockedPanic(e) \/ AnswerPanic(e)
    BY <2>4 DEF HandleClockedPanic, AnswerPanic, Busy
  <2>5. CASE HandleLayer(e)
    BY <2>5 DEF HandleLayer, Handling, Busy
  <2>6. CASE Ack(e)
    BY <2>6 DEF Ack, Busy
  <2>7. CASE Answer(e)
    BY <2>7 DEF Answer, Busy
  <2>8. CASE Write(e)
    BY <2>8 DEF Write, Busy
  <2>9. CASE WriteEnds(e)
    BY <2>9 DEF WriteEnds, Busy
  <2>10. CASE GreetFails(e) \/ CloseAgain(e, g)
    BY <2>10 DEF GreetFails, CloseAgain, Busy
  <2> QED BY <2>1, <2>2, <2>3, <2>4, <2>5, <2>6, <2>7, <2>8, <2>9, <2>10
<1> QED BY <1>1, <1>2, QuietPresence

(* The empty state the server starts in, also after a restart. *)
LEMMA PresenceInit == Init => PresenceInv
<1> SUFFICES ASSUME Init PROVE PresenceInv
  OBVIOUS
<1>1. \A c \in Clients, g \in Threads :
        pc[c][g] \in {"idle", "off"} /\ iter[c][g].why = "none"
  BY DEF Init, NoScan, Scan
<1>2. \A c \in Clients : roster[c] = {} /\ told[c] = {}
  BY DEF Init
<1> QED BY <1>1, <1>2
        DEF PresenceInv, OneCloser, Closing, ReaderGreets, ScanOK, Known,
            Listed, Announced

(* So does a restart.                                                      *)
LEMMA PresenceCrash == Crash => PresenceInv'
<1> SUFFICES ASSUME Crash PROVE PresenceInv'
  OBVIOUS
<1>1. \A c \in Clients, g \in Threads :
        pc'[c][g] \in {"idle", "off"} /\ iter'[c][g].why = "none"
  BY DEF Crash, NoScan, Scan
<1>2. \A c \in Clients : roster'[c] = {} /\ told'[c] = {}
  BY DEF Crash
<1> QED BY <1>1, <1>2
        DEF PresenceInv, OneCloser, Closing, ReaderGreets, ScanOK, Known,
            Listed, Announced

(* Every step keeps presence. *)
LEMMA PresenceStep ==
  ASSUME Inv, PresenceInv, [Next]_vars PROVE PresenceInv'
<1> USE DEF Inv
<1>1. CASE UNCHANGED vars \/ Ended
  <2>1. UNCHANGED <<members, pc, iter, closed, once, roster, told>>
    BY <1>1 DEF vars, Ended
  <2> QED BY <2>1
          DEF PresenceInv, OneCloser, Closing, ReaderGreets, ScanOK, Known,
              Listed, Announced, Reaches, InRoom, Joined
<1>2. CASE MapRace
  BY <1>2, PresenceCrash DEF MapRace
<1>3. ASSUME NEW e \in Clients,
             \/ Connect(e) \/ ReadBatch(e) \/ ConnFail(e)
             \/ ReaderStep(e) \/ WriterStep(e)
             \/ \E g \in Threads : SharedStep(e, g)
      PROVE  PresenceInv'
  BY <1>3, PresenceCrash, GreetPresence, JoinPresence, EndBatchPresence,
     LookupPresence, RangePresence, SkipPresence, DeliverPresence,
     EvictPresence, PanicPresence, LeavePresence, UnlockPresence,
     CloseSendPresence, QuietSteps
     DEF ReaderStep, WriterStep, SharedStep, WriterPanic
<1> QED BY <1>1, <1>2, <1>3 DEF Next

(* The inductive invariant of presence is an invariant of the hub. *)
THEOREM PresenceCorrect == Spec => [](Inv /\ PresenceInv)
<1>1. Init => PresenceInv
  BY PresenceInit
<1>2. Inv /\ PresenceInv /\ [Next]_vars => PresenceInv'
  BY PresenceStep
<1> QED BY <1>1, <1>2, InvCorrect, PTL DEF Spec

(* A member that was on the list a newcomer was sent has been sent the     *)
(* newcomer's client-join by the time it has joined: the list is taken     *)
(* under the mutex, the client-join is broadcast after it (handler.go:69-  *)
(* 130), and the member is in the room object the Broadcast ranges over    *)
(* unless somebody evicted it meanwhile.                                   *)
THEOREM ListedAreToldCorrect == Spec => []ListedAreTold
<1>1. Inv /\ PresenceInv => ListedAreTold
  BY DEF Inv, PhaseInv, Phase, PresenceInv, Listed, ListedAreTold, Joined
<1> QED BY <1>1, PresenceCorrect, PTL

(* A member that was told of a connection has been told of its leaving by  *)
(* the time the connection's channel is closed (hub.go:104-110 with        *)
(* client.go:95-96): closeOnce lets one goroutine in, which closes the     *)
(* channel only after its Broadcast has returned.                          *)
THEOREM LeaveIsAnnouncedCorrect == Spec => []LeaveIsAnnounced
<1>1. Inv /\ PresenceInv => LeaveIsAnnounced
  <2> SUFFICES ASSUME Inv, PresenceInv, NEW c \in Clients, NEW d \in Clients,
                      InRoom(c), <<"join", d>> \in told[c], closed[d]
               PROVE  <<"leave", d>> \in told[c]
    BY DEF LeaveIsAnnounced
  <2>1. once[d] = "done"
    BY DEF Inv, PhaseInv, Phase
  <2>2. \A g \in Threads : pc[d][g] # "unlock" /\ iter[d][g].why # "bye"
    BY <2>1 DEF PresenceInv, OneCloser, Closing
  <2> QED BY <2>2 DEF PresenceInv, Announced
<1> QED BY <1>1, PresenceCorrect, PTL
=============================================================================
