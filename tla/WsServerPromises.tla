-------------------------- MODULE WsServerPromises --------------------------
(* Theorems about what a client of WsServer can rely on while the handlers of
   other connections run: its rooms, its rosters, the history of its texts. *)
EXTENDS WsServerProofs

\* What a handler knows on its way, whatever the others do meanwhile: its text
\* is in the history of the room unless an overlapping append took it out, and
\* a room it has left is none of the rooms of its connection.
WayOf(c) ==
  LET r == frame[c].room
  IN /\ pc[c] = "start" => frame[c].op = "join"
     /\ pc[c] \in {"check", "remove"} => frame[c].op \in {"leave", "close"}
     /\ pc[c] \in {"data", "send"} /\ frame[c].op = "text"
          => r \in lost \/ frame[c].arg \in messages[r]
     /\ pc[c] \in {"check", "remove", "data"} /\ frame[c].op \in {"leave", "close"}
          => r \notin mine[c]

Way == \A c \in Conns : WayOf(c)

\* Texts are in the history of their room, in the map or not.
TextsKept ==
  \A c \in Conns : \A out \in inbox[c] :
    out.kind = "text" /\ out.room \in RoomIds \ lost => out.text \in messages[out.room]

\* No two connections came with the same socket id.
Distinct == \A c, d \in Admitted : self[c].peer = self[d].peer => c = d

\* A connection is only in rooms its completed calls put it into, and nobody is
\* in a room who never connected.
Entered ==
  /\ \A c \in Conns : pc[c] \in {"new", "register"} => mine[c] = {}
  /\ \A c \in Admitted : GetUserRooms(self[c].peer) \ lost \subseteq mine[c]
  /\ \A m \in joined : Drawn(m[1])

\* ... and in all of them.
Visible ==
  \A c \in Conns : pc[c] # "done" => \A r \in mine[c] \ lost : Present(c, r)

\* The goroutine runs processMessage or onCloseConnection.
InHandler(c) == pc[c] \notin {"new", "register", "read", "defer", "done"}

\* The rooms the peer of a connection was ever put into.
Been(c) == {r \in RoomIds : <<self[c].peer, r>> \in joined}

\* The way out of the rooms: those onCloseConnection has still to leave, the one
\* it is leaving, and, when it ended early, one it had left before.
LeavingOf(c) ==
  LET r    == frame[c].room
      In   == GetUserRooms(self[c].peer) \ lost
      Left == frame[c].left
  IN /\ pc[c] \in {"scan", "next"} => frame[c].op = "close"
     /\ InHandler(c) /\ frame[c].op = "close" =>
          /\ pc[c] \notin {"create", "created", "loadlog", "storelog", "start", "relay"}
          /\ Left \subseteq Been(c)
          /\ pc[c] \in Handling => r \in Been(c) \ Left
          /\ pc[c] \in {"find", "load", "store"} => In \subseteq Left \cup {r}
          /\ pc[c] \in {"next", "check", "remove", "data", "send"} => In \subseteq Left
     /\ pc[c] \in {"defer", "done"} /\ self[c] # None /\ c \notin panicked =>
          \A q \in In : Been(c) \ {q} # {}

Leaving == \A c \in Conns : LeavingOf(c)

\* The goroutine has changed the users of the room and not told c yet: it has
\* still to make the data, or c is among those the data made of the users the
\* room has now is still to be sent to.
Announcing(a, c, r) ==
  /\ frame[a].room = r
  /\ \/ pc[a] \in {"start", "check", "remove"}
     \/ pc[a] = "created" /\ a = c
     \/ pc[a] = "data" /\ frame[a].op # "text"
     \/ /\ pc[a] = "send" /\ frame[a].op # "text" /\ frame[a].seen = users[r]
        /\ \E u \in User : u.peer = self[c].peer /\ frame[a].todo[u] > 0

Started == \A c \in Conns : pc[c] # "new" => socket[c] # "new"

\* Whoever is in a room and did not leave it knows its users, or somebody is
\* about to tell.
Member(c, r) ==
  Serving(c) /\ socket[c] # "closed" /\ r \in mine[c] /\ Present(c, r)
Informed(c, r) == roster[c][r] = users[r] \/ \E a \in Conns : Announcing(a, c, r)

Told ==
  \A c \in Conns, r \in rooms \ (unannounced \cup overtaken) : Member(c, r) => Informed(c, r)

-----------------------------------------------------------------------------
(* Steps. *)

\* The steps of the goroutine that serves a connection.
Step(c) == Accept(c) \/ ReadMessage(c) \/ Work(c)

\* They leave the locals of the other goroutines alone.
LEMMA StepLemma ==
  ASSUME Shape, NEW c \in Conns, Step(c)
  PROVE  /\ pc' = [pc EXCEPT ![c] = pc'[c]] /\ frame' = [frame EXCEPT ![c] = frame'[c]]
         /\ \A d \in Conns \ {c} : pc'[d] = pc[d] /\ frame'[d] = frame[d] /\ self'[d] = self[d]
<1>1. Accept(c) \/ Register(c) \/ Defer(c) \/ Handler(c)
  BY DEF Step, Work, Handler
<1>2. \A d \in Conns \ {c} : self'[d] = self[d]
  <2>1. CASE Accept(c)
    BY <2>1 DEF Accept, Shape, TypeOK
  <2>2. CASE Register(c) \/ Defer(c)
    BY <2>2 DEF Register, Defer
  <2>3. QED
    BY <1>1, <2>1, <2>2, HandlerLemma
<1>3. pc' = [pc EXCEPT ![c] = pc'[c]] /\ frame' = [frame EXCEPT ![c] = frame'[c]]
  <2>1. CASE Calm(c)
    BY <2>1, CalmLemma
  <2>2. CASE Create(c) \/ Check(c) \/ Remove(c)
    BY <2>2 DEF Create, Check, Remove, Panic, Goto, Return, Shape, TypeOK
  <2>3. CASE StoreJoin(c) \/ StoreLeave(c) \/ StoreFake(c)
    BY <2>3 DEF StoreJoin, StoreLeave, StoreFake, Goto, Return, Shape, TypeOK
  <2>4. QED
    BY <2>1, <2>2, <2>3 DEF Step, Work, Calm
<1>4. QED
  BY <1>2, <1>3 DEF Shape, TypeOK

\* What is lost stays lost, and who panicked is remembered.
LEMMA LostLemma ==
  ASSUME [Next]_vars
  PROVE  lost \subseteq lost' /\ panicked \subseteq panicked'
<1>1. ASSUME NEW c \in Conns, \/ Accept(c) \/ Register(c) \/ ReadMessage(c) \/ ReadError(c)
                              \/ Defer(c) \/ Find(c) \/ LoadLog(c) \/ Load(c) \/ Sent(c)
                              \/ Scan(c) \/ NextRoom(c) \/ Hangup(c) \/ Stall(c) \/ Resume(c)
      PROVE  UNCHANGED <<lost, panicked>>
  BY <1>1 DEF Accept, Register, ReadMessage, ReadError, Defer, Find, LoadLog, Load, Sent,
     Scan, NextRoom, Hangup, Stall, Resume, history
<1>2. ASSUME NEW c \in Conns, Create(c) \/ Created(c) \/ Start(c) \/ Data(c) \/ Send(c) \/ Relay(c)
      PROVE  UNCHANGED <<lost, panicked>>
  BY <1>2 DEF Create, Created, Start, Data, Send, Relay
<1>3. ASSUME NEW c \in Conns, StoreLog(c) \/ StoreJoin(c) \/ StoreLeave(c) \/ StoreFake(c)
      PROVE  lost \subseteq lost' /\ UNCHANGED panicked
  BY <1>3 DEF StoreLog, StoreJoin, StoreLeave, StoreFake, Loses
<1>4. ASSUME NEW c \in Conns, Check(c) \/ Remove(c)
      PROVE  lost \subseteq lost' /\ panicked \subseteq panicked'
  BY <1>4 DEF Check, Remove, Panic, Loses
<1>5. ASSUME Restart \/ UNCHANGED vars PROVE UNCHANGED <<lost, panicked>>
  BY <1>5 DEF Restart, vars, history
<1>6. QED
  BY <1>1, <1>2, <1>3, <1>4, <1>5 DEF Next, Fatal, Terminate, Work, Client, Terminated

-----------------------------------------------------------------------------
(* The operations on rooms. *)

Opened(c, r) ==
  /\ pc[c] = "create" /\ pc'[c] = "created" /\ frame'[c].room = r
  /\ frame'[c].op = frame[c].op
  /\ r \notin Known /\ rooms' = rooms \cup {r}
  /\ users' = [users EXCEPT ![r] = AppendUser(EmptyBag, self[c])]
  /\ joined' = joined \cup {<<self[c].peer, r>>}
  /\ mine' = [mine EXCEPT ![c] = @ \cup {r}]

\* The change is made to the room as it is, and the room is in the map.
Fresh(c, r) == r \in rooms /\ frame[c].seen = users[r]

Entering(c, r) ==
  /\ pc[c] = "store" /\ frame[c].op = "join" /\ rooms' = rooms
  /\ users' = [users EXCEPT ![r] = AppendUser(frame[c].seen, self[c])]
  /\ r \notin lost' => Fresh(c, r)
  /\ joined' = joined \cup {<<self[c].peer, r>>}
  /\ mine' = [mine EXCEPT ![c] = @ \cup {r}]

Exiting(c, r) ==
  /\ pc[c] = "store" /\ frame[c].op \in {"leave", "close"}
  /\ pc'[c] = "check" /\ frame' = frame /\ rooms' = rooms
  /\ users' = [users EXCEPT ![r] = WithoutPeer(frame[c].seen, self[c].peer)]
  /\ r \notin lost' => Fresh(c, r)
  /\ mine' = [mine EXCEPT ![c] = @ \ {r}]
  /\ joined' = joined

Faking(c, r) ==
  /\ pc[c] = "store" /\ frame[c].op \in {"addFake", "removeFake"}
  /\ pc'[c] = "data" /\ frame' = frame
  /\ \E b \in Bag : users' = [users EXCEPT ![r] = b]
  /\ r \notin lost' => /\ r \in rooms
                       /\ \A p \in PeerIds : hasUser(users'[r], p) <=> hasUser(users[r], p)
  /\ UNCHANGED <<rooms, joined, mine>>

Dropping(c, r) ==
  /\ pc[c] = "remove" /\ rooms' = rooms \ {r}
  /\ r \notin lost' => users[r] = EmptyBag
  /\ UNCHANGED <<users, joined, mine>>

\* Who is in a slice after the operations on it.
LEMMA HasUserLemma ==
  ASSUME NEW b \in Bag, NEW p \in PeerIds
  PROVE  /\ ~hasUser(EmptyBag, p)
         /\ \A u \in User : hasUser(AppendUser(b, u), p) <=> hasUser(b, p) \/ u.peer = p
         /\ \A q : hasUser(WithoutPeer(b, q), p) <=> hasUser(b, p) /\ p # q
         /\ \A i : hasUser(WithoutId(b, i), p) => hasUser(b, p)
         /\ \A i \in FakeIds : hasUser(b, p) => hasUser(WithoutId(b, i), p)
         /\ \A i \in FakeIds : hasUser(AppendUser(b, [id |-> i, peer |-> NoPeer]), p)
                                <=> hasUser(b, p)
<1>1. ~hasUser(EmptyBag, p)
  BY DEF hasUser, EmptyBag
<1>2. ASSUME NEW u \in User
      PROVE  hasUser(AppendUser(b, u), p) <=> hasUser(b, p) \/ u.peer = p
  <2>1. \A v \in User : AppendUser(b, u)[v] > 0 <=> b[v] > 0 \/ v = u
    BY DEF AppendUser, Bag
  <2>2. QED
    BY <2>1 DEF hasUser
<1>3. ASSUME NEW q PROVE hasUser(WithoutPeer(b, q), p) <=> hasUser(b, p) /\ p # q
  BY DEF hasUser, WithoutPeer
<1>4. ASSUME NEW i PROVE hasUser(WithoutId(b, i), p) => hasUser(b, p)
  BY DEF hasUser, WithoutId
<1>5. ASSUME NEW i \in FakeIds, hasUser(b, p) PROVE hasUser(WithoutId(b, i), p)
  <2>1. PICK u \in User : u.peer = p /\ b[u] > 0
    BY <1>5 DEF hasUser
  <2>2. u.id # i
    BY <1>5, <2>1, FakeIdsAssumption, NoPeerAssumption DEF User, RealUser, FakeUser
  <2>3. WithoutId(b, i)[u] > 0
    BY <2>1, <2>2 DEF WithoutId
  <2>4. QED
    BY <2>1, <2>3 DEF hasUser
<1>6. ASSUME NEW i \in FakeIds
      PROVE  hasUser(AppendUser(b, [id |-> i, peer |-> NoPeer]), p) <=> hasUser(b, p)
  <2>1. [id |-> i, peer |-> NoPeer] \in User /\ [id |-> i, peer |-> NoPeer].peer # p
    BY UserLemma, NoPeerAssumption
  <2>2. QED
    BY <1>2, <2>1
<1>7. QED
  BY <1>1, <1>2, <1>3, <1>4, <1>5, <1>6

\* Taking out an id that no real user of the slice has takes out no peer.
LEMMA WithoutIdLemma ==
  ASSUME NEW b \in Bag, NEW p \in PeerIds, NEW i,
         \A u \in RealUser : u.id = i => ~(b[u] > 0)
  PROVE  hasUser(WithoutId(b, i), p) <=> hasUser(b, p)
<1>1. ASSUME hasUser(b, p) PROVE hasUser(WithoutId(b, i), p)
  <2>1. PICK u \in User : u.peer = p /\ b[u] > 0
    BY <1>1 DEF hasUser
  <2>2. u \in RealUser
    BY <2>1, NoPeerAssumption DEF User, FakeUser
  <2>3. WithoutId(b, i)[u] > 0
    BY <2>1, <2>2 DEF WithoutId
  <2>4. QED
    BY <2>1, <2>3 DEF hasUser
<1>2. QED
  BY <1>1, HasUserLemma

\* Every step of a goroutine is an operation on the room of its handler, or
\* changes no room.
LEMMA OperationLemma ==
  ASSUME Shape, NEW c \in Conns, Step(c)
  PROVE  \/ UNCHANGED <<rooms, users, joined, mine>>
         \/ \E r \in RoomIds : Opened(c, r)
         \/ /\ frame[c].room \in RoomIds
            /\ \/ Entering(c, frame[c].room) \/ Exiting(c, frame[c].room)
               \/ Faking(c, frame[c].room) \/ Dropping(c, frame[c].room)
<1>0. /\ LocalsOf(c) /\ frame[c] \in Frames /\ frame[c].seen \in Bag
      /\ pc[c] \in Handling => frame[c].room \in RoomIds
  BY FrameTypes DEF Shape, Locals, LocalsOf, TypeOK, Known
<1>1. CASE Calm(c)
  <2>1. UNCHANGED <<rooms, users>>
    BY <1>1, CalmLemma
  <2>2. UNCHANGED <<joined, mine>>
    <3>1. CASE Accept(c) \/ Register(c) \/ ReadMessage(c) \/ ReadError(c) \/ Defer(c)
      BY <3>1 DEF Accept, Register, ReadMessage, ReadError, Defer, history
    <3>2. CASE Created(c) \/ Find(c) \/ LoadLog(c) \/ StoreLog(c) \/ Load(c) \/ Start(c)
      BY <3>2 DEF Created, Find, LoadLog, StoreLog, Load, Start, history
    <3>3. CASE Data(c) \/ Send(c) \/ Sent(c) \/ Relay(c) \/ Scan(c) \/ NextRoom(c)
      BY <3>3 DEF Data, Send, Sent, Relay, Scan, NextRoom, history
    <3>4. QED
      BY <1>1, <3>1, <3>2, <3>3 DEF Calm
  <2>3. QED
    BY <2>1, <2>2
<1>2. CASE Create(c)
  <2>1. CASE UNCHANGED <<rooms, owner, users, joined, mine>>
    BY <2>1
  <2>2. ASSUME NEW r \in RoomIds \ Known, rooms' = rooms \cup {r},
               users' = [users EXCEPT ![r] = AppendUser(EmptyBag, self[c])],
               joined' = joined \cup {<<self[c].peer, r>>},
               mine' = [mine EXCEPT ![c] = @ \cup {r}],
               frame' = [frame EXCEPT ![c].room = r], Goto(c, "created")
        PROVE  Opened(c, r)
    <3>1. frame'[c] = [frame[c] EXCEPT !.room = r] /\ pc'[c] = "created" /\ pc[c] = "create"
      BY <1>2, <2>2 DEF Create, Goto, Shape, TypeOK
    <3>2. frame'[c].room = r /\ frame'[c].op = frame[c].op
      BY <1>0, <3>1, FieldLemma
    <3>3. QED
      BY <2>2, <3>1, <3>2 DEF Opened
  <2>3. QED
    BY <1>2, <2>1, <2>2 DEF Create
<1>3. CASE StoreJoin(c)
  BY <1>0, <1>3 DEF StoreJoin, JoinToRoom, Handling, Entering, Fresh, Stale, Loses
<1>4. CASE StoreLeave(c)
  BY <1>0, <1>4 DEF StoreLeave, LeaveRoom, Handling, Exiting, Fresh, Stale, Loses, Goto,
     Shape, TypeOK
<1>5. CASE StoreFake(c)
  <2> DEFINE r == frame[c].room
             b == IF frame[c].op = "addFake" THEN AddFakeUser(c) ELSE RemoveFakeUser(c)
  <2>1. /\ pc[c] = "store" /\ frame[c].op \in {"addFake", "removeFake"} /\ r \in RoomIds
        /\ users' = [users EXCEPT ![r] = b]
        /\ pc'[c] = "data" /\ frame' = frame /\ UNCHANGED <<rooms, joined, mine>>
        /\ r \notin lost' => ~Stale(c) /\ ~TakesReal(c)
    BY <1>0, <1>5 DEF StoreFake, Handling, Loses, Goto, Shape, TypeOK
  <2>2. /\ b \in Bag
        /\ ~TakesReal(c) => \A p \in PeerIds : hasUser(b, p) <=> hasUser(frame[c].seen, p)
    <3>1. CASE frame[c].op = "addFake"
      <4>1. frame[c].arg \in FakeIds /\ b = AddFakeUser(c)
        BY <1>0, <3>1 DEF LocalsOf
      <4>2. QED
        BY <1>0, <4>1, BagLemma, UserLemma, HasUserLemma DEF AddFakeUser
    <3>2. CASE frame[c].op # "addFake"
      <4>1. b = WithoutId(frame[c].seen, frame[c].arg) /\ frame[c].op = "removeFake"
        BY <2>1, <3>2 DEF RemoveFakeUser
      <4>2. ~TakesReal(c) => \A u \in RealUser : u.id = frame[c].arg => ~(frame[c].seen[u] > 0)
        BY <4>1 DEF TakesReal
      <4>3. QED
        BY <1>0, <4>1, <4>2, BagLemma, WithoutIdLemma
    <3>3. QED
      BY <3>1, <3>2
  <2>3. users'[r] = b
    BY <2>1 DEF Shape, TypeOK
  <2> HIDE DEF b
  <2>4. Faking(c, r)
    BY <2>1, <2>2, <2>3 DEF Faking, Stale
  <2>5. QED
    BY <2>1, <2>4
<1>6. CASE Check(c)
  BY <1>6 DEF Check, shared
<1>7. CASE Remove(c)
  BY <1>0, <1>7 DEF Remove, Handling, Dropping, Loses
<1>8. QED
  BY <1>1, <1>2, <1>3, <1>4, <1>5, <1>6, <1>7 DEF Step, Work, Calm

LEMMA AdmittedPeers == Shape => \A c \in Admitted : c \in Conns /\ self[c].peer \in PeerIds
BY UserLemma DEF Shape, TypeOK, Admitted

\* A slice that hasUser finds a peer in belongs to a room the peer was put into.
LEMMA PresentJoined ==
  ASSUME Shape, Confined, NEW p \in PeerIds, NEW r \in RoomIds, hasUser(users[r], p)
  PROVE  <<p, r>> \in joined
BY NoPeerAssumption DEF Confined, Entitled, hasUser

\* Only Accept draws a socket id.
LEMMA AcceptLemma ==
  ASSUME Shape, [Next]_vars
  PROVE  /\ self' = self \/ \E c \in Conns : Accept(c)
         /\ \A d \in Admitted : d \in Admitted' /\ self'[d] = self[d]
<1>1. ASSUME NEW c \in Conns, Handler(c) PROVE self' = self
  BY <1>1, HandlerLemma
<1>2. ASSUME NEW c \in Conns, Register(c) \/ Defer(c) \/ Hangup(c) \/ Stall(c) \/ Resume(c)
      PROVE  self' = self
  BY <1>2 DEF Register, Defer, Hangup, Stall, Resume, local
<1>3. ASSUME Restart \/ UNCHANGED vars PROVE self' = self
  BY <1>3 DEF Restart, vars, local
<1>4. self' = self \/ \E c \in Conns : Accept(c)
  BY <1>1, <1>2, <1>3 DEF Next, Fatal, Terminate, Work, Client, Handler, Terminated
<1>5. ASSUME NEW c \in Conns, Accept(c) PROVE self[c] = None /\ \A d \in Conns \ {c} : self'[d] = self[d]
  BY <1>5 DEF Accept, Shape, TypeOK, Locals, LocalsOf
<1>6. QED
  BY <1>4, <1>5 DEF Admitted

\* ... and when ids are fresh, one that nobody came with.
LEMMA FreshLemma ==
  ASSUME FreshIds, Shape, NEW c \in Conns, Accept(c), self'[c] # None
  PROVE  self'[c].peer \in PeerIds /\ ~Drawn(self'[c].peer)
<1>1. self[c] = None
  BY DEF Accept, Shape, Locals, LocalsOf
<1>2. PICK id \in UserIds, peer \in PeerIds :
        ~Drawn(peer) /\ self' = [self EXCEPT ![c] = [id |-> id, peer |-> peer]]
  BY <1>1 DEF Accept, Admissible
<1>3. self'[c].peer = peer
  BY <1>2 DEF Shape, TypeOK
<1>4. QED
  BY <1>2, <1>3

LEMMA DistinctNext == FreshIds /\ Shape /\ Distinct /\ [Next]_vars => Distinct'
<1> SUFFICES ASSUME FreshIds, Shape, Distinct, [Next]_vars PROVE Distinct'
  OBVIOUS
<1>1. ASSUME NEW c \in Conns, Accept(c) PROVE Distinct'
  <2>1. self[c] = None /\ \A d \in Conns \ {c} : self'[d] = self[d]
    BY <1>1 DEF Accept, Shape, TypeOK, Locals, LocalsOf
  <2>2. self'[c] # None => \A d \in Conns \ {c} : self'[d] # None => self'[d].peer # self'[c].peer
    BY <1>1, <2>1, FreshLemma DEF Drawn, Admitted
  <2>3. QED
    BY <2>1, <2>2 DEF Distinct, Admitted
<1>2. CASE self' = self
  BY <1>2 DEF Distinct, Admitted
<1>3. QED
  BY <1>1, <1>2, AcceptLemma

\* The handlers of a connection that was admitted.
LEMMA RunnerLemma ==
  ASSUME Shape, NEW c \in Conns, pc[c] \notin {"new", "done"}
  PROVE  c \in Admitted /\ self[c] \in User /\ self[c].peer \in PeerIds
BY UserLemma, NoneLemma DEF Shape, Locals, LocalsOf, Admitted

\* A peer appears in a room by its own create or join only, when no change of
\* the room was lost,
LEMMA AppearLemma ==
  ASSUME Shape, NEW c \in Conns, Step(c), NEW r \in rooms' \ lost', NEW p \in PeerIds,
         hasUser(users'[r], p)
  PROVE  \/ r \in rooms /\ hasUser(users[r], p)
         \/ p = self[c].peer /\ (Opened(c, r) \/ Entering(c, r))
<1>0. \A q \in RoomIds : users[q] \in Bag
  BY DEF Shape, TypeOK
<1> DEFINE Goal == \/ r \in rooms /\ hasUser(users[r], p)
                   \/ p = self[c].peer /\ (Opened(c, r) \/ Entering(c, r))
<1>1. CASE UNCHANGED <<rooms, users, joined, mine>>
  BY <1>1
<1>2. ASSUME NEW q \in RoomIds, Opened(c, q) PROVE Goal
  <2>1. CASE q # r
    BY <1>2, <2>1 DEF Opened, Shape, TypeOK
  <2>2. CASE q = r
    <3>1. users'[r] = AppendUser(EmptyBag, self[c]) /\ self[c] \in User
      BY <1>2, <2>2, RunnerLemma DEF Opened, Shape, TypeOK
    <3>2. QED
      BY <1>2, <2>2, <3>1, BagLemma, HasUserLemma
  <2>3. QED
    BY <2>1, <2>2
<1>3. ASSUME NEW q \in RoomIds, Entering(c, q) PROVE Goal
  <2>1. CASE q # r
    BY <1>3, <2>1 DEF Entering, Shape, TypeOK
  <2>2. CASE q = r
    <3>1. users'[r] = AppendUser(users[r], self[c]) /\ self[c] \in User /\ r \in rooms
      BY <1>3, <2>2, RunnerLemma DEF Entering, Fresh, Shape, TypeOK
    <3>2. QED
      BY <1>0, <1>3, <2>2, <3>1, HasUserLemma
  <2>3. QED
    BY <2>1, <2>2
<1>4. ASSUME NEW q \in RoomIds, Exiting(c, q) PROVE Goal
  <2>1. CASE q # r
    BY <1>4, <2>1 DEF Exiting, Shape, TypeOK
  <2>2. CASE q = r
    <3>1. users'[r] = WithoutPeer(users[r], self[c].peer) /\ r \in rooms
      BY <1>4, <2>2 DEF Exiting, Fresh, Shape, TypeOK
    <3>2. QED
      BY <1>0, <2>2, <3>1, HasUserLemma
  <2>3. QED
    BY <2>1, <2>2
<1>5. ASSUME NEW q \in RoomIds, Faking(c, q) PROVE Goal
  BY <1>5 DEF Faking, Shape, TypeOK
<1>6. ASSUME NEW q \in RoomIds, Dropping(c, q) PROVE Goal
  BY <1>6 DEF Dropping
<1>7. QED
  BY <1>1, <1>2, <1>3, <1>4, <1>5, <1>6, OperationLemma

\* ... its own leave takes it out, whatever slice it was made of,
LEMMA ExitLemma ==
  ASSUME Shape, NEW c \in Conns, NEW r \in RoomIds, Exiting(c, r)
  PROVE  /\ ~hasUser(users'[r], self[c].peer)
         /\ r \notin lost' =>
              \A p \in PeerIds : hasUser(users[r], p) /\ p # self[c].peer => hasUser(users'[r], p)
         /\ \A q \in RoomIds \ {r} : users'[q] = users[q]
<1>1. /\ users'[r] = WithoutPeer(frame[c].seen, self[c].peer) /\ users[r] \in Bag
      /\ \A q \in RoomIds \ {r} : users'[q] = users[q]
      /\ self[c].peer \in PeerIds /\ frame[c].seen \in Bag
  BY RunnerLemma, FrameTypes DEF Exiting, Shape, TypeOK
<1>2. r \notin lost' => frame[c].seen = users[r]
  BY DEF Exiting, Fresh
<1>3. QED
  BY <1>1, <1>2, HasUserLemma

\* ... and only that.
LEMMA StayLemma ==
  ASSUME Shape, NEW c \in Conns, Step(c),
         NEW r \in rooms \ lost', NEW p \in PeerIds, hasUser(users[r], p)
  PROVE  \/ r \in rooms' /\ hasUser(users'[r], p)
         \/ p = self[c].peer /\ Exiting(c, r)
<1>0. r \in RoomIds /\ r \in Known /\ \A q \in RoomIds : users[q] \in Bag
  BY DEF Shape, TypeOK
<1> DEFINE Goal == \/ r \in rooms' /\ hasUser(users'[r], p)
                   \/ p = self[c].peer /\ Exiting(c, r)
<1>1. CASE UNCHANGED <<rooms, users, joined, mine>>
  BY <1>1
<1>2. ASSUME NEW q \in RoomIds, Opened(c, q) PROVE Goal
  BY <1>0, <1>2 DEF Opened, Shape, TypeOK
<1>3. ASSUME NEW q \in RoomIds, Entering(c, q) PROVE Goal
  <2>1. q # r => users'[r] = users[r]
    BY <1>0, <1>3 DEF Entering, Shape, TypeOK
  <2>2. q = r => users'[r] = AppendUser(users[r], self[c]) /\ self[c] \in User
    BY <1>3, RunnerLemma DEF Entering, Fresh, Shape, TypeOK
  <2>3. QED
    BY <1>0, <1>3, <2>1, <2>2, HasUserLemma DEF Entering
<1>4. ASSUME NEW q \in RoomIds, Exiting(c, q) PROVE Goal
  <2>1. rooms' = rooms
    BY <1>4 DEF Exiting
  <2>2. QED
    BY <1>0, <1>4, <2>1, ExitLemma
<1>5. ASSUME NEW q \in RoomIds, Faking(c, q) PROVE Goal
  BY <1>0, <1>5 DEF Faking, Shape, TypeOK
<1>6. ASSUME NEW q \in RoomIds, Dropping(c, q) PROVE Goal
  <2>1. q # r
    BY <1>0, <1>6, HasUserLemma DEF Dropping
  <2>2. QED
    BY <1>6, <2>1 DEF Dropping
<1>7. QED
  BY <1>1, <1>2, <1>3, <1>4, <1>5, <1>6, OperationLemma

\* Which connections are new, and which rooms they are in.
LEMMA StartsLemma ==
  ASSUME Shape, NEW c \in Conns, Step(c), pc'[c] \in {"new", "register"}
  PROVE  Accept(c) /\ pc[c] = "new" /\ mine' = mine
<1>1. Accept(c)
  BY HandlerLemma DEF Step, Work, Handler, Register, Defer, Goto, Shape, TypeOK
<1>2. QED
  BY <1>1 DEF Accept, history

\* The calls a step completes for its connection.
LEMMA MineLemma ==
  ASSUME Shape, NEW c \in Conns, Step(c)
  PROVE  /\ \A d \in Conns \ {c} : mine'[d] = mine[d]
         /\ \A r \in mine[c] : r \in mine'[c] \/ (r \in RoomIds /\ Exiting(c, r))
         /\ \A r \in mine'[c] : r \in mine[c] \/ Opened(c, r) \/ Entering(c, r)
         /\ \A r : Opened(c, r) \/ Entering(c, r) => r \in mine'[c] /\ c \in Admitted
         /\ joined \subseteq joined'
         /\ \A m \in joined' : m \in joined \/ (c \in Admitted /\ m[1] = self[c].peer)
<1>1. ASSUME NEW r, Opened(c, r) \/ Entering(c, r) PROVE r \in mine'[c] /\ c \in Admitted
  BY <1>1, RunnerLemma DEF Opened, Entering, Shape, TypeOK
<1>2. \A d \in Conns \ {c} : mine'[d] = mine[d]
  BY OperationLemma DEF Opened, Entering, Exiting, Faking, Dropping, Shape, TypeOK
<1>3. \A r \in mine[c] : r \in mine'[c] \/ (r \in RoomIds /\ Exiting(c, r))
  BY OperationLemma DEF Opened, Entering, Exiting, Faking, Dropping, Shape, TypeOK
<1>4. ASSUME NEW r \in mine'[c] PROVE r \in mine[c] \/ Opened(c, r) \/ Entering(c, r)
  <2>1. ASSUME NEW q \in RoomIds, Opened(c, q) \/ Entering(c, q)
        PROVE  r \in mine[c] \/ r = q
    BY <1>4, <2>1 DEF Opened, Entering, Shape, TypeOK
  <2>2. CASE \E q \in RoomIds : Exiting(c, q) \/ Faking(c, q) \/ Dropping(c, q)
    BY <1>4, <2>2 DEF Exiting, Faking, Dropping, Shape, TypeOK
  <2>3. QED
    BY <1>4, <2>1, <2>2, OperationLemma
<1>5. joined \subseteq joined'
  BY OperationLemma DEF Opened, Entering, Exiting, Faking, Dropping
<1>6. ASSUME NEW m \in joined' PROVE m \in joined \/ (c \in Admitted /\ m[1] = self[c].peer)
  <2>1. ASSUME NEW q \in RoomIds, Opened(c, q) \/ Entering(c, q)
        PROVE  m \in joined \/ (c \in Admitted /\ m[1] = self[c].peer)
    <3>1. joined' = joined \cup {<<self[c].peer, q>>} /\ c \in Admitted
      BY <1>1, <2>1 DEF Opened, Entering
    <3>2. QED
      BY <1>6, <3>1
  <2>2. CASE \E q \in RoomIds : Exiting(c, q) \/ Faking(c, q) \/ Dropping(c, q)
    BY <1>6, <2>2 DEF Exiting, Faking, Dropping
  <2>3. QED
    BY <1>6, <2>1, <2>2, OperationLemma
<1>7. QED
  BY <1>1, <1>2, <1>3, <1>4, <1>5, <1>6

-----------------------------------------------------------------------------
(* The way of a handler, and the texts it sends. *)

\* No step forgets a text, but an append that overlapped another one.
LEMMA MessagesGrow ==
  ASSUME Shape, [Next]_vars, NEW r \in RoomIds \ lost'
  PROVE  messages[r] \subseteq messages'[r]
<1>1. ASSUME NEW c \in Conns, StoreLog(c) PROVE messages[r] \subseteq messages'[r]
  <2>1. /\ messages' = [messages EXCEPT ![frame[c].room] = frame[c].log \cup {frame[c].arg}]
        /\ frame[c].room = r => frame[c].log = messages[r]
    BY <1>1 DEF StoreLog, Loses
  <2>2. QED
    BY <2>1 DEF Shape, TypeOK
<1>2. ASSUME NEW c \in Conns, Accept(c) \/ Register(c) \/ ReadMessage(c) \/ ReadError(c) \/ Defer(c)
      PROVE  UNCHANGED messages
  BY <1>2 DEF Accept, Register, ReadMessage, ReadError, Defer, shared
<1>3. ASSUME NEW c \in Conns, Create(c) \/ Created(c) \/ Find(c) \/ LoadLog(c) \/ Load(c)
      PROVE  UNCHANGED messages
  BY <1>3 DEF Create, Created, Find, LoadLog, Load, shared
<1>4. ASSUME NEW c \in Conns, StoreJoin(c) \/ StoreLeave(c) \/ StoreFake(c) \/ Check(c)
      PROVE  UNCHANGED messages
  BY <1>4 DEF StoreJoin, StoreLeave, StoreFake, Check, shared
<1>5. ASSUME NEW c \in Conns, Remove(c) \/ Start(c) \/ Data(c) \/ Send(c) \/ Sent(c)
      PROVE  UNCHANGED messages
  BY <1>5 DEF Remove, Start, Data, Send, Sent, shared
<1>6. ASSUME NEW c \in Conns, \/ Relay(c) \/ Scan(c) \/ NextRoom(c)
                              \/ Hangup(c) \/ Stall(c) \/ Resume(c)
      PROVE  UNCHANGED messages
  BY <1>6 DEF Relay, Scan, NextRoom, Hangup, Stall, Resume, shared
<1>7. CASE Restart \/ UNCHANGED vars
  BY <1>7 DEF Restart, vars, shared
<1>8. QED
  BY <1>1, <1>2, <1>3, <1>4, <1>5, <1>6, <1>7
     DEF Next, Fatal, Terminate, Work, Client, Terminated

\* A message carries its type.
LEMMA RequestOp ==
  ASSUME TypeOK, NEW c \in Conns, self[c] \in RealUser, sent < MaxMsgs,
         NEW op \in Ops, NEW request \in Requests(c)[op]
  PROVE  request.op = op
<1>1. CASE op \in {"text", "create", "join"}
  BY <1>1, RequestFields DEF Requests
<1>2. CASE op \in {"leave", "addFake", "removeFake", "relay"}
  BY <1>2, RequestFields DEF Requests
<1>3. QED
  BY <1>1, <1>2, OpsAssumption DEF Messages

\* Whatever another goroutine does, a handler knows what it knew.
LEMMA OthersWay ==
  ASSUME Shape, [Next]_vars, NEW c \in Conns, Step(c), NEW d \in Conns \ {c}, WayOf(d)
  PROVE  WayOf(d)'
<1>1. pc'[d] = pc[d] /\ frame'[d] = frame[d] /\ mine'[d] = mine[d]
  BY StepLemma, MineLemma
<1>2. pc[d] \in Handling => frame[d].room \in RoomIds
  BY DEF Shape, Locals, LocalsOf, TypeOK, Known
<1>3. \A r \in RoomIds : r \in lost' \/ messages[r] \subseteq messages'[r]
  BY MessagesGrow
<1>4. lost \subseteq lost'
  BY LostLemma
<1>5. QED
  BY <1>1, <1>2, <1>3, <1>4 DEF WayOf, Handling

LEMMA WayNext == Shape /\ Way /\ [Next]_vars => Way'
<1> SUFFICES ASSUME Shape, Way, [Next]_vars PROVE Way'
  OBVIOUS
<1>0. lost \subseteq lost'
  BY LostLemma
<1>1. ASSUME NEW c \in Conns, Step(c) PROVE WayOf(c)'
  <2>0. /\ WayOf(c) /\ LocalsOf(c) /\ frame[c] \in Frames
        /\ pc[c] \in Handling => frame[c].room \in RoomIds
        /\ pc[c] \in {"loadlog", "storelog"} => frame[c].op = "text"
    BY DEF Way, Shape, Locals, LocalsOf, TypeOK, Known
  <2>1. CASE pc'[c] \notin {"start", "check", "remove", "data", "send"}
    BY <2>1 DEF WayOf
  <2>2. CASE Accept(c) \/ Register(c) \/ ReadError(c) \/ Defer(c) \/ Created(c) \/ Relay(c)
             \/ Scan(c) \/ Sent(c) \/ Create(c) \/ Find(c) \/ LoadLog(c) \/ Load(c)
             \/ Remove(c) \/ NextRoom(c)
    <3>1. CASE Accept(c) \/ Register(c) \/ ReadError(c) \/ Defer(c) \/ Created(c) \/ Relay(c)
               \/ Scan(c)
      BY <2>1, <3>1 DEF Accept, Register, ReadError, Defer, Created, Relay, Scan, Goto,
         Return, Shape, TypeOK
    <3>2. CASE Sent(c) \/ Create(c) \/ Find(c) \/ LoadLog(c) \/ Load(c) \/ Remove(c) \/ NextRoom(c)
      BY <2>1, <3>2 DEF Sent, Create, Find, LoadLog, Load, Remove, Panic, NextRoom, Goto,
         Return, Shape, TypeOK
    <3>3. QED
      BY <2>2, <3>1, <3>2
  <2>3. CASE ReadMessage(c)
    <3>1. PICK op \in Ops : Goto(c, IF op \in {"create", "relay"} THEN op ELSE "find")
      BY <2>3 DEF ReadMessage
    <3>2. QED
      BY <2>1, <3>1 DEF Goto, Shape, TypeOK
  <2>4. CASE StoreLog(c)
    <3>1. /\ pc[c] = "storelog" /\ pc'[c] = "data" /\ frame[c].op = "text"
          /\ frame'[c] = [frame[c] EXCEPT !.log = {}]
          /\ frame[c].room \in RoomIds
          /\ messages'[frame[c].room] = frame[c].log \cup {frame[c].arg}
      BY <2>0, <2>4 DEF StoreLog, Goto, Handling, Shape, TypeOK
    <3>2. /\ frame'[c].room = frame[c].room /\ frame'[c].arg = frame[c].arg
          /\ frame'[c].op = frame[c].op
      BY <2>0, <3>1, FieldLemma
    <3>3. QED
      BY <3>1, <3>2 DEF WayOf
  <2>5. CASE StoreJoin(c)
    <3>1. /\ frame[c].op = "join"
          /\ pc'[c] \in {"read", "defer"} \/ (pc'[c] = "start" /\ frame'[c] = frame[c])
      BY <2>5 DEF StoreJoin, Goto, Return, Shape, TypeOK
    <3>2. QED
      BY <3>1 DEF WayOf
  <2>6. CASE StoreLeave(c)
    <3>1. /\ frame[c].op \in {"leave", "close"} /\ frame' = frame /\ pc'[c] = "check"
          /\ mine'[c] = mine[c] \ {frame[c].room}
      BY <2>6 DEF StoreLeave, Goto, Shape, TypeOK
    <3>2. QED
      BY <3>1 DEF WayOf
  <2>7. CASE StoreFake(c)
    <3>1. frame[c].op \in {"addFake", "removeFake"} /\ frame' = frame /\ pc'[c] = "data"
      BY <2>7 DEF StoreFake, Goto, Shape, TypeOK
    <3>2. QED
      BY <3>1 DEF WayOf
  <2>8. CASE Check(c)
    <3>1. /\ pc[c] = "check" /\ mine' = mine
          /\ pc'[c] = "defer" \/ (pc'[c] \in {"remove", "data"} /\ frame' = frame)
      BY <2>8 DEF Check, Panic, Goto, Shape, TypeOK
    <3>2. QED
      BY <2>0, <3>1 DEF WayOf
  <2>9. CASE Start(c)
    <3>1. /\ pc[c] = "start"
          /\ pc'[c] \in {"read", "defer"} \/ (pc'[c] = "data" /\ frame' = frame)
      BY <2>9 DEF Start, Goto, Return, Shape, TypeOK
    <3>2. QED
      BY <2>0, <3>1 DEF WayOf
  <2>10. CASE Data(c)
    <3>1. /\ UNCHANGED messages /\ pc[c] = "data" /\ pc'[c] = "send"
          /\ frame'[c] = [[frame[c] EXCEPT !.seen = users[frame[c].room]]
                                     EXCEPT !.todo = Recipients(c)]
          /\ users[frame[c].room] \in Bag
      BY <2>0, <2>10 DEF Data, Goto, shared, Handling, Shape, TypeOK
    <3>2. [frame[c] EXCEPT !.seen = users[frame[c].room]] \in Frames
      BY <2>0, <3>1, FrameLemma
    <3>3. /\ frame'[c].room = frame[c].room
          /\ frame'[c].op = frame[c].op /\ frame'[c].arg = frame[c].arg
      BY <2>0, <3>1, <3>2, FieldLemma
    <3>4. QED
      BY <1>0, <2>0, <3>1, <3>3 DEF WayOf
  <2>11. CASE Send(c)
    <3>1. UNCHANGED <<messages, pc>> /\ pc[c] = "send"
      BY <2>11 DEF Send, shared
    <3>2. PICK u \in User :
            frame'[c] = [frame[c] EXCEPT !.todo = [frame[c].todo EXCEPT ![u] = @ - 1]]
      BY <2>11 DEF Send, Served, Shape, TypeOK
    <3>3. /\ frame'[c].room = frame[c].room
          /\ frame'[c].op = frame[c].op /\ frame'[c].arg = frame[c].arg
      BY <2>0, <3>2, FieldLemma
    <3>4. QED
      BY <1>0, <2>0, <3>1, <3>3 DEF WayOf
  <2>12. QED
    BY <1>1, <2>2, <2>3, <2>4, <2>5, <2>6, <2>7, <2>8, <2>9, <2>10, <2>11 DEF Step, Work
<1>2. ASSUME NEW c \in Conns, Step(c) PROVE Way'
  BY <1>1, <1>2, OthersWay DEF Way
<1>3. CASE Restart
  BY <1>3 DEF Restart, Way, WayOf
<1>4. CASE UNCHANGED vars \/ \E c \in Conns : Hangup(c) \/ Stall(c) \/ Resume(c)
  BY <1>4 DEF vars, shared, local, history, Hangup, Stall, Resume, Way, WayOf
<1>5. QED
  BY <1>2, <1>3, <1>4 DEF Next, Fatal, Terminate, Client, Step, Terminated

\* A write to a websocket adds at most the frame written.
LEMMA ReceivedLemma ==
  ASSUME Shape, NEW d \in Conns \cup {None}, NEW out, Receive(d, out)
  PROVE  \A e \in Conns : inbox'[e] \subseteq inbox[e] \cup {out}
BY DEF Receive, Shape, TypeOK

\* What a step writes to a websocket is no text, or a text of the history, unless
\* that lost it meanwhile.
NewTexts ==
  \A c \in Conns : \A out \in inbox'[c] \ inbox[c] :
    out.kind = "text" => out.room \in lost \/ out.text \in messages[out.room]

LEMMA NewTextsLemma ==
  ASSUME Shape, Way, [Next]_vars
  PROVE  NewTexts
<1>1. ASSUME NEW d \in Conns \cup {None}, NEW out, Receive(d, out),
             out.kind = "text" => out.room \in lost \/ out.text \in messages[out.room]
      PROVE  NewTexts
  BY <1>1, ReceivedLemma DEF NewTexts
<1>2. \A p \in PeerIds \cup {NoPeer} : clients[p] \in Conns \cup {None}
  BY DEF Shape, TypeOK
<1>3. ASSUME NEW c \in Conns
      PROVE  /\ pc[c] \notin {"new", "done"} => self[c].peer \in PeerIds
             /\ pc[c] = "start" => owner[frame[c].room] \in PeerIds
             /\ pc[c] = "relay" => frame[c].arg \in PeerIds
  BY UserLemma DEF Shape, TypeOK, Locals, LocalsOf, Handling, Known
<1>4. ASSUME NEW c \in Conns, Created(c) PROVE NewTexts
  <2> DEFINE out == [kind |-> "created", room |-> frame[c].room, from |-> None,
                     text |-> None]
  <2>1. Receive(clients[self[c].peer], out) /\ pc[c] = "created"
    BY <1>4 DEF Created
  <2>2. out.kind # "text"
    OBVIOUS
  <2>3. clients[self[c].peer] \in Conns \cup {None}
    BY <1>2, <1>3, <2>1
  <2> HIDE DEF out
  <2>4. QED
    BY <1>1, <2>1, <2>2, <2>3
<1>5. ASSUME NEW c \in Conns, Start(c) PROVE NewTexts
  <2> DEFINE out == [kind |-> "start", room |-> frame[c].room, from |-> self[c].peer,
                     text |-> None]
  <2>1. (Receive(clients[owner[frame[c].room]], out) \/ UNCHANGED inbox) /\ pc[c] = "start"
    BY <1>5 DEF Start
  <2>2. out.kind # "text"
    OBVIOUS
  <2>3. clients[owner[frame[c].room]] \in Conns \cup {None}
    BY <1>2, <1>3, <2>1
  <2> HIDE DEF out
  <2>4. QED
    BY <1>1, <2>1, <2>2, <2>3 DEF NewTexts
<1>6. ASSUME NEW c \in Conns, Relay(c) PROVE NewTexts
  <2> DEFINE out == [kind |-> "relay", room |-> None, from |-> self[c].peer, text |-> None]
  <2>1. Receive(clients[frame[c].arg], out) /\ pc[c] = "relay"
    BY <1>6 DEF Relay
  <2>2. out.kind # "text"
    OBVIOUS
  <2>3. clients[frame[c].arg] \in Conns \cup {None}
    BY <1>2, <1>3, <2>1
  <2> HIDE DEF out
  <2>4. QED
    BY <1>1, <2>1, <2>2, <2>3
<1>7. ASSUME NEW c \in Conns, Send(c) PROVE NewTexts
  <2> DEFINE text == [kind |-> "text", room |-> frame[c].room, from |-> None,
                      text |-> frame[c].arg]
             update == [kind |-> "update", room |-> frame[c].room, from |-> None,
                        text |-> None]
  <2>1. PICK u \in User : IF frame[c].op = "text" THEN Receive(clients[u.peer], text)
                                                  ELSE Receive(clients[u.peer], update)
    BY <1>7 DEF Send
  <2>2. frame[c].op = "text" => text.room \in lost \/ text.text \in messages[text.room]
    BY <1>7 DEF Send, Way, WayOf
  <2>3. update.kind # "text"
    OBVIOUS
  <2>4. clients[u.peer] \in Conns \cup {None}
    BY <1>2, UserLemma
  <2> HIDE DEF text, update
  <2>5. QED
    BY <1>1, <2>1, <2>2, <2>3, <2>4
<1>8. ASSUME NEW c \in Conns, Accept(c) \/ Register(c) \/ ReadMessage(c) \/ ReadError(c) \/ Defer(c)
      PROVE  UNCHANGED inbox
  BY <1>8 DEF Accept, Register, ReadMessage, ReadError, Defer, history
<1>9. ASSUME NEW c \in Conns, Create(c) \/ Find(c) \/ LoadLog(c) \/ StoreLog(c) \/ Load(c)
      PROVE  UNCHANGED inbox
  BY <1>9 DEF Create, Find, LoadLog, StoreLog, Load, history
<1>10. ASSUME NEW c \in Conns, StoreJoin(c) \/ StoreLeave(c) \/ StoreFake(c) \/ Check(c) \/ Remove(c)
       PROVE  UNCHANGED inbox
  BY <1>10 DEF StoreJoin, StoreLeave, StoreFake, Check, Remove
<1>11. ASSUME NEW c \in Conns, \/ Data(c) \/ Sent(c) \/ Scan(c) \/ NextRoom(c)
                               \/ Hangup(c) \/ Stall(c) \/ Resume(c)
       PROVE  UNCHANGED inbox
  BY <1>11 DEF Data, Sent, Scan, NextRoom, Hangup, Stall, Resume, history
<1>12. ASSUME Restart \/ UNCHANGED vars PROVE UNCHANGED inbox
  BY <1>12 DEF Restart, vars, history
<1>13. CASE UNCHANGED inbox
  BY <1>13 DEF NewTexts
<1>14. QED
  BY <1>4, <1>5, <1>6, <1>7, <1>8, <1>9, <1>10, <1>11, <1>12, <1>13
     DEF Next, Fatal, Terminate, Work, Client, Terminated

LEMMA TextsNext == Shape /\ Way /\ TextsKept /\ [Next]_vars => TextsKept'
BY NewTextsLemma, MessagesGrow, LostLemma DEF TextsKept, NewTexts

\* The history of a room has every text a member got, however the handlers of
\* its members overlap: an append to room.Messages is lost to an overlapping
\* append only.
THEOREM HistoryIsComplete == Spec => []HistoryComplete
<1>1. Init => Way /\ TextsKept
  BY DEF Init, Way, WayOf, TextsKept
<1>2. IInv /\ Way /\ TextsKept /\ [Next]_vars => (Way /\ TextsKept)'
  BY WayNext, TextsNext DEF IInv
<1>3. IInv /\ TextsKept => HistoryComplete
  BY DEF TextsKept, HistoryComplete, IInv, Shape, TypeOK
<1>4. QED
  BY <1>1, <1>2, <1>3, Inductive, PTL DEF Spec

-----------------------------------------------------------------------------
(* Members of rooms. *)

LEMMA EnteredNext ==
  FreshIds /\ Shape /\ Confined /\ Distinct /\ Entered /\ [Next]_vars => Entered'
<1> SUFFICES ASSUME FreshIds, Shape, Confined, Distinct, Entered, [Next]_vars
             PROVE  Entered'
  OBVIOUS
<1>0. lost \subseteq lost'
  BY LostLemma
<1>1. \A d \in Admitted : d \in Conns /\ d \in Admitted' /\ self'[d] = self[d]
                          /\ self[d].peer \in PeerIds
  BY AcceptLemma, AdmittedPeers
<1>2. \A p : Drawn(p) => Drawn(p)'
  BY <1>1 DEF Drawn
<1>3. ASSUME NEW c \in Conns, Step(c) PROVE Entered'
  <2>1. ASSUME NEW d \in Conns, pc'[d] \in {"new", "register"} PROVE mine'[d] = {}
    BY <1>3, <2>1, StartsLemma, StepLemma, MineLemma DEF Entered
  <2>2. ASSUME NEW d \in Admitted', NEW r \in rooms' \ lost', hasUser(users'[r], self'[d].peer)
        PROVE  r \in mine'[d]
    <3>1. CASE d \notin Admitted
      <4>1. d \in Conns /\ Accept(d) /\ self'[d] # None
        <5>1. d \in Conns /\ self'[d] # None /\ self'[d] # self[d]
          BY <2>2, <3>1 DEF Admitted
        <5>2. PICK e \in Conns : Accept(e)
          BY <5>1, AcceptLemma
        <5>3. \A f \in Conns \ {e} : self'[f] = self[f]
          BY <5>2, StepLemma DEF Step
        <5>4. QED
          BY <5>1, <5>2, <5>3
      <4>2. UNCHANGED <<rooms, users>> /\ self'[d].peer \in PeerIds /\ ~Drawn(self'[d].peer)
        BY <4>1, FreshLemma DEF Accept, shared
      <4>3. <<self'[d].peer, r>> \in joined
        BY <2>2, <4>2, PresentJoined DEF Shape, TypeOK
      <4>4. QED
        BY <4>2, <4>3 DEF Entered
    <3>2. CASE d \in Admitted
      <4>1. /\ d \in Conns /\ self[d].peer \in PeerIds /\ hasUser(users'[r], self[d].peer)
        BY <1>1, <2>2, <3>2
      <4>2. CASE r \in rooms /\ hasUser(users[r], self[d].peer)
        <5>1. r \in mine[d] /\ r \in RoomIds
          BY <1>0, <2>2, <3>2, <4>2 DEF Entered, GetUserRooms, Shape, TypeOK
        <5>2. QED
          BY <1>3, <4>1, <5>1, MineLemma, ExitLemma
      <4>3. CASE self[d].peer = self[c].peer /\ (Opened(c, r) \/ Entering(c, r))
        BY <1>3, <3>2, <4>3, MineLemma DEF Distinct
      <4>4. QED
        BY <1>3, <2>2, <4>1, <4>2, <4>3, AppearLemma
    <3>3. QED
      BY <3>1, <3>2
  <2>3. ASSUME NEW m \in joined' PROVE Drawn(m[1])'
    <3>1. m \in joined \/ (c \in Admitted /\ m[1] = self[c].peer)
      BY <1>3, <2>3, MineLemma
    <3>2. Drawn(m[1])
      BY <3>1 DEF Entered, Drawn
    <3>3. QED
      BY <1>2, <3>2
  <2>4. QED
    BY <2>1, <2>2, <2>3 DEF Entered, GetUserRooms
<1>4. CASE Restart
  <2>1. /\ UNCHANGED <<self, mine, joined>> /\ rooms' = {}
        /\ \A c \in Conns : pc'[c] \in {"new", "register"} => pc[c] = "new"
    BY <1>4 DEF Restart, history
  <2>2. QED
    BY <2>1 DEF Entered, Admitted, Drawn, GetUserRooms
<1>5. CASE UNCHANGED vars \/ \E c \in Conns : Hangup(c) \/ Stall(c) \/ Resume(c)
  <2>1. UNCHANGED <<self, mine, joined, rooms, users, pc, lost>>
    BY <1>5 DEF vars, shared, local, history, Hangup, Stall, Resume
  <2>2. QED
    BY <2>1 DEF Entered, Admitted, Drawn, GetUserRooms
<1>6. QED
  BY <1>3, <1>4, <1>5 DEF Next, Fatal, Terminate, Client, Step, Terminated

\* A goroutine that has ended stays so.
LEMMA LiveLemma ==
  ASSUME Shape, NEW c \in Conns, Step(c), NEW d \in Conns, pc'[d] # "done"
  PROVE  pc[d] # "done" /\ (pc[d] # "new" \/ (d = c /\ Accept(d)) \/ pc'[d] = "new")
<1>1. d # c => pc'[d] = pc[d]
  BY StepLemma
<1>2. pc[c] # "done" /\ (pc[c] = "new" => Accept(c))
  BY HandlerLemma DEF Step, Work, Handler, Accept, Register, Defer
<1>3. QED
  BY <1>1, <1>2

LEMMA VisibleNext ==
  Shape /\ Distinct /\ Entered /\ Visible /\ [Next]_vars => Visible'
<1> SUFFICES ASSUME Shape, Distinct, Entered, Visible, [Next]_vars PROVE Visible'
  OBVIOUS
<1>0. lost \subseteq lost'
  BY LostLemma
<1>1. ASSUME NEW c \in Conns, Step(c) PROVE Visible'
  <2> SUFFICES ASSUME NEW d \in Conns, pc'[d] # "done", NEW r \in mine'[d] \ lost'
               PROVE  r \in rooms' /\ hasUser(users'[r], self'[d].peer)
    BY DEF Visible, Present
  <2>1. CASE d \notin Admitted
    <3>1. pc[d] \in {"new", "done"}
      BY <2>1, NoneLemma DEF Admitted, Shape, Locals, LocalsOf
    <3>2. pc[d] = "new" /\ (pc'[d] = "new" \/ Accept(d))
      BY <1>1, <3>1, LiveLemma
    <3>3. mine'[d] = {}
      <4>1. CASE Accept(d)
        BY <3>2, <4>1 DEF Accept, history, Entered
      <4>2. CASE pc'[d] = "new"
        BY <1>1, <3>2, <4>2, StartsLemma, StepLemma, MineLemma DEF Entered
      <4>3. QED
        BY <3>2, <4>1, <4>2
    <3>4. QED
      BY <3>3
  <2>2. CASE d \in Admitted
    <3>1. self'[d] = self[d] /\ self[d].peer \in PeerIds /\ pc[d] # "done"
      BY <1>1, <2>2, AcceptLemma, AdmittedPeers, LiveLemma
    <3>2. CASE r \in mine[d]
      <4>1. r \in rooms /\ hasUser(users[r], self[d].peer)
        BY <1>0, <3>1, <3>2 DEF Visible, Present
      <4>2. ASSUME self[d].peer = self[c].peer, Exiting(c, r) PROVE FALSE
        <5>1. d = c
          BY <2>2, <4>2, RunnerLemma DEF Distinct, Exiting
        <5>2. r \notin mine'[c]
          BY <4>2 DEF Exiting, Shape, TypeOK
        <5>3. QED
          BY <5>1, <5>2
      <4>3. QED
        BY <1>1, <3>1, <4>1, <4>2, StayLemma
    <3>3. CASE r \notin mine[d]
      <4>1. d = c /\ (Opened(c, r) \/ Entering(c, r))
        BY <1>1, <3>3, MineLemma
      <4>2. self[c] \in User /\ self[c].peer \in PeerIds /\ frame[c].seen \in Bag
        BY <4>1, RunnerLemma, FrameTypes DEF Opened, Entering, Shape, TypeOK
      <4>3. r \in rooms'
        BY <4>1 DEF Opened, Entering, Fresh
      <4>4. \/ users' = [users EXCEPT ![r] = AppendUser(EmptyBag, self[c])]
            \/ users' = [users EXCEPT ![r] = AppendUser(frame[c].seen, self[c])]
        BY <4>1 DEF Opened, Entering
      <4>5. r \in RoomIds
        BY <1>1, <4>3, ShapeNext DEF Shape, TypeOK
      <4>6. \E b \in Bag : users'[r] = AppendUser(b, self[c])
        BY <4>2, <4>4, <4>5, BagLemma DEF Shape, TypeOK
      <4>7. QED
        BY <3>1, <4>1, <4>2, <4>3, <4>6, HasUserLemma
    <3>4. QED
      BY <3>2, <3>3
  <2>3. QED
    BY <2>1, <2>2
<1>2. CASE Restart
  <2>1. UNCHANGED mine /\ \A c \in Conns : pc'[c] # "done" => pc[c] = "new"
    BY <1>2 DEF Restart, history
  <2>2. QED
    BY <2>1 DEF Visible, Entered
<1>3. CASE UNCHANGED vars \/ \E c \in Conns : Hangup(c) \/ Stall(c) \/ Resume(c)
  <2>1. UNCHANGED <<self, mine, rooms, users, pc, lost>>
    BY <1>3 DEF vars, shared, local, history, Hangup, Stall, Resume
  <2>2. QED
    BY <2>1 DEF Visible, Present
<1>4. QED
  BY <1>1, <1>2, <1>3 DEF Next, Fatal, Terminate, Client, Step, Terminated

-----------------------------------------------------------------------------
(* The way out of the rooms. *)

\* Whatever another goroutine does, no room comes to those a connection has to
\* leave, and those its peer has been in stay such.
LEMMA OthersLeaving ==
  ASSUME Shape, Distinct, [Next]_vars, NEW c \in Conns, Step(c), NEW d \in Conns \ {c},
         LeavingOf(d)
  PROVE  LeavingOf(d)'
<1>1. pc'[d] = pc[d] /\ self'[d] = self[d] /\ frame'[d] = frame[d]
  BY StepLemma
<1>2. panicked \subseteq panicked' /\ lost \subseteq lost'
  BY LostLemma
<1>3. Been(d) \subseteq Been(d)'
  BY <1>1, MineLemma DEF Been
<1>4. ASSUME self[d] # None, NEW q \in GetUserRooms(self[d].peer)' \ lost'
      PROVE  q \in GetUserRooms(self[d].peer) \ lost
  <2>1. d \in Admitted /\ self[d].peer \in PeerIds
    BY <1>4, AdmittedPeers DEF Admitted
  <2>2. q \in rooms' \ lost' /\ hasUser(users'[q], self[d].peer)
    BY <1>1, <1>4 DEF GetUserRooms
  <2>3. ASSUME self[d].peer = self[c].peer, Opened(c, q) \/ Entering(c, q) PROVE FALSE
    BY <2>1, <2>3, RunnerLemma DEF Distinct, Opened, Entering
  <2>4. q \in rooms /\ hasUser(users[q], self[d].peer)
    BY <2>1, <2>2, <2>3, AppearLemma
  <2>5. QED
    BY <1>2, <2>2, <2>4 DEF GetUserRooms
<1>5. InHandler(d) => self[d] # None
  BY RunnerLemma DEF InHandler, Admitted
<1>6. QED
  BY <1>1, <1>2, <1>3, <1>4, <1>5 DEF LeavingOf, InHandler, Handling

LEMMA LeavingNext ==
  Shape /\ Confined /\ Way /\ Distinct /\ Leaving /\ [Next]_vars => Leaving'
<1> SUFFICES ASSUME Shape, Confined, Way, Distinct, Leaving, [Next]_vars PROVE Leaving'
  OBVIOUS
<1>0. lost \subseteq lost' /\ panicked \subseteq panicked'
  BY LostLemma
<1>1. ASSUME NEW c \in Conns, Step(c) PROVE LeavingOf(c)'
  <2>0. /\ LeavingOf(c) /\ WayOf(c) /\ LocalsOf(c) /\ frame[c] \in Frames
        /\ pc[c] \in Handling => frame[c].room \in RoomIds
        /\ pc[c] \notin {"new", "done"} => self[c].peer \in PeerIds
    BY UserLemma DEF Leaving, Way, Shape, Locals, LocalsOf, TypeOK, Known
  <2>1. CASE Accept(c)
    <3>1. pc'[c] = "register" \/ (pc'[c] = "done" /\ self'[c] = None)
      BY <2>0, <2>1 DEF Accept, Goto, LocalsOf, Shape, TypeOK
    <3>2. QED
      BY <3>1 DEF LeavingOf, Been, InHandler, Handling
  <2>2. CASE Register(c) \/ Relay(c) \/ Created(c) \/ Start(c) \/ StoreJoin(c)
    <3>1. /\ pc'[c] \in {"read", "defer", "data", "start"}
          /\ pc'[c] = "defer" => frame[c].op = "close" /\ pc[c] \in {"relay", "created", "start", "store"}
          /\ pc'[c] \in {"data", "start"} => frame'[c] = frame[c] /\ pc[c] \in {"start", "store"}
          /\ pc[c] \in {"start", "store"} => frame[c].op = "join"
      BY <2>0, <2>2 DEF Register, Relay, Created, Start, StoreJoin, WayOf, Goto, Return,
         Shape, TypeOK
    <3>2. pc'[c] # "defer"
      BY <2>0, <3>1 DEF LeavingOf, Been, InHandler
    <3>3. QED
      BY <3>1, <3>2 DEF LeavingOf, Been, InHandler, Handling
  <2>3. CASE LoadLog(c) \/ StoreLog(c) \/ Create(c) \/ StoreFake(c)
    <3>1. /\ pc'[c] \in {"storelog", "data", "created", "read", "defer"}
          /\ pc'[c] = "defer" => frame[c].op = "close"
          /\ pc'[c] \notin {"read", "defer"} => frame'[c].op = frame[c].op
          /\ pc[c] \in {"loadlog", "storelog", "create"} \/ frame[c].op # "close"
          /\ InHandler(c)
      <4>1. CASE StoreFake(c)
        BY <4>1 DEF StoreFake, InHandler, Goto, Shape, TypeOK
      <4>2. CASE LoadLog(c) \/ StoreLog(c)
        <5>1. \E x : frame' = [frame EXCEPT ![c].log = x]
          BY <4>2 DEF LoadLog, StoreLog
        <5>2. frame'[c].op = frame[c].op
          BY <2>0, <5>1, FieldLemma DEF Shape, TypeOK
        <5>3. QED
          BY <4>2, <5>2 DEF LoadLog, StoreLog, InHandler, Goto, Shape, TypeOK
      <4>3. CASE Create(c)
        <5>1. pc[c] = "create"
          BY <4>3 DEF Create
        <5>2. CASE Return(c)
          BY <5>1, <5>2 DEF Return, Goto, InHandler, Shape, TypeOK
        <5>3. ASSUME NEW r, frame' = [frame EXCEPT ![c].room = r], Goto(c, "created")
              PROVE  pc'[c] = "created" /\ frame'[c].op = frame[c].op
          <6>1. frame'[c] = [frame[c] EXCEPT !.room = r]
            BY <5>3 DEF Shape, TypeOK
          <6>2. QED
            BY <2>0, <5>3, <6>1, FieldLemma DEF Goto, Shape, TypeOK
        <5>4. QED
          BY <4>3, <5>1, <5>2, <5>3 DEF Create, InHandler
      <4>4. QED
        BY <2>3, <4>1, <4>2, <4>3
    <3>2. frame[c].op # "close"
      BY <2>0, <3>1 DEF LeavingOf
    <3>3. QED
      BY <3>1, <3>2 DEF LeavingOf, Been, InHandler, Handling
  <2>4. CASE ReadMessage(c)
    <3>1. PICK op \in Ops : \E request \in Requests(c)[op] :
            /\ frame' = [frame EXCEPT ![c] = request]
            /\ Goto(c, IF op \in {"create", "relay"} THEN op ELSE "find")
      BY <2>4 DEF ReadMessage
    <3>2. PICK request \in Requests(c)[op] :
            /\ frame'[c] = request
            /\ pc'[c] = IF op \in {"create", "relay"} THEN op ELSE "find"
      BY <3>1 DEF Goto, Shape, TypeOK
    <3>3. request.op = op /\ op # "close"
      BY <2>0, <2>4, RequestOp, OpsAssumption DEF ReadMessage, LocalsOf, Shape, Messages
    <3>4. QED
      BY <3>2, <3>3 DEF LeavingOf, Been, InHandler, Handling
  <2>5. CASE ReadError(c)
    <3>1. pc'[c] = "scan" /\ frame'[c] = Request("close", None, None)
      BY <2>5 DEF ReadError, Goto, Shape, TypeOK
    <3>2. QED
      BY <3>1, RequestFields DEF LeavingOf, Been, InHandler, Handling
  <2>6. CASE Defer(c)
    <3>1. pc[c] = "defer" /\ pc'[c] = "done" /\ UNCHANGED <<rooms, users, self, joined, lost, panicked>>
      BY <2>6 DEF Defer, Goto, history, Shape, TypeOK
    <3>2. QED
      BY <2>0, <3>1 DEF LeavingOf, Been, InHandler, Handling, GetUserRooms
  <2>7. CASE Find(c) \/ Load(c) \/ Check(c) \/ Data(c) \/ Send(c)
    <3>1. UNCHANGED <<rooms, users, self, joined>>
      BY <2>7 DEF Find, Load, Check, Data, Send, shared, history
    <3>2. \/ pc'[c] = "read" \/ (pc'[c] = "defer" /\ c \in panicked')
          \/ /\ pc'[c] = "defer" /\ pc[c] = "find" /\ frame[c].op = "close"
             /\ frame[c].room \notin rooms
          \/ /\ frame'[c].op = frame[c].op /\ frame'[c].room = frame[c].room
             /\ frame'[c].left = frame[c].left
             /\ \/ pc[c] \in {"find", "load"} /\ pc'[c] \in {"load", "store"}
                \/ pc[c] = "find" /\ pc'[c] = "loadlog" /\ frame[c].op = "text"
                \/ pc[c] \in {"check", "data", "send"} /\ pc'[c] \in {"remove", "data", "send"}
      <4>1. CASE Find(c)
        BY <4>1 DEF Find, Return, Goto, Shape, TypeOK
      <4>2. CASE Load(c)
        BY <2>0, <4>2, FieldLemma DEF Load, Goto, Shape, TypeOK
      <4>3. CASE Check(c)
        BY <2>0, <4>3 DEF Check, Panic, Handling, Goto, Shape, TypeOK
      <4>4. CASE Data(c)
        <5>1. [frame[c] EXCEPT !.seen = users[frame[c].room]] \in Frames
          BY <2>0, <4>4, FrameLemma DEF Data, Handling, Shape, TypeOK
        <5>2. frame'[c] = [[frame[c] EXCEPT !.seen = users[frame[c].room]]
                                     EXCEPT !.todo = Recipients(c)]
          BY <4>4 DEF Data, Shape, TypeOK
        <5>3. QED
          BY <2>0, <4>4, <5>1, <5>2, FieldLemma DEF Data, Goto, Shape, TypeOK
      <4>5. CASE Send(c)
        <5>1. PICK u \in User :
                frame'[c] = [frame[c] EXCEPT !.todo = [frame[c].todo EXCEPT ![u] = @ - 1]]
          BY <4>5 DEF Send, Served, Shape, TypeOK
        <5>2. pc[c] = "send" /\ pc'[c] = "send"
          BY <4>5 DEF Send
        <5>3. QED
          BY <2>0, <5>1, <5>2, FieldLemma
      <4>6. QED
        BY <2>7, <4>1, <4>2, <4>3, <4>4, <4>5
    <3>3. GetUserRooms(self[c].peer)' = GetUserRooms(self[c].peer) /\ Been(c)' = Been(c)
      BY <3>1 DEF GetUserRooms, Been
    <3>4. CASE pc'[c] = "defer" /\ pc[c] = "find" /\ frame[c].op = "close"
               /\ frame[c].room \notin rooms
      <4>1. /\ GetUserRooms(self[c].peer) \ lost \subseteq frame[c].left \cup {frame[c].room}
            /\ frame[c].room \in Been(c) \ frame[c].left
        BY <2>0, <3>4 DEF LeavingOf, InHandler, Handling
      <4>2. frame[c].room \notin GetUserRooms(self[c].peer)
        BY <3>4 DEF GetUserRooms
      <4>3. \A p \in GetUserRooms(self[c].peer) \ lost' : Been(c) \ {p} # {}
        BY <1>0, <4>1, <4>2
      <4>4. QED
        BY <3>1, <3>3, <3>4, <4>3 DEF LeavingOf, InHandler
    <3>5. CASE pc'[c] = "read" \/ (pc'[c] = "defer" /\ c \in panicked')
      BY <3>5 DEF LeavingOf, InHandler
    <3>6. CASE /\ frame'[c].op = frame[c].op /\ frame'[c].room = frame[c].room
               /\ frame'[c].left = frame[c].left
               /\ \/ pc[c] \in {"find", "load"} /\ pc'[c] \in {"load", "store"}
                  \/ pc[c] = "find" /\ pc'[c] = "loadlog" /\ frame[c].op = "text"
                  \/ pc[c] \in {"check", "data", "send"} /\ pc'[c] \in {"remove", "data", "send"}
      BY <1>0, <2>0, <3>1, <3>3, <3>6 DEF LeavingOf, InHandler, Handling
    <3>7. QED
      BY <3>2, <3>4, <3>5, <3>6
  <2>8. CASE StoreLeave(c)
    <3>1. /\ pc[c] = "store" /\ pc'[c] = "check" /\ frame[c].room \in RoomIds
          /\ UNCHANGED <<rooms, frame, self, joined>> /\ self[c].peer \in PeerIds
      BY <2>0, <2>8 DEF StoreLeave, Goto, Handling, Shape, TypeOK
    <3>2. GetUserRooms(self[c].peer)' \subseteq GetUserRooms(self[c].peer) \ {frame[c].room}
      <4>1. users' = [users EXCEPT ![frame[c].room] = WithoutPeer(frame[c].seen, self[c].peer)]
        BY <2>8 DEF StoreLeave, LeaveRoom
      <4>2. ~hasUser(users'[frame[c].room], self[c].peer)
        BY <2>0, <3>1, <4>1, FrameTypes, HasUserLemma DEF Shape, TypeOK
      <4>3. \A q \in RoomIds \ {frame[c].room} : users'[q] = users[q]
        BY <4>1 DEF Shape, TypeOK
      <4>4. QED
        BY <3>1, <4>2, <4>3 DEF GetUserRooms, Shape, TypeOK
    <3>3. QED
      BY <1>0, <2>0, <3>1, <3>2 DEF LeavingOf, Been, InHandler, Handling
  <2>9. CASE Remove(c)
    <3>1. /\ pc[c] = "remove" /\ rooms' = rooms \ {frame[c].room}
          /\ UNCHANGED <<users, self, joined>>
          /\ pc'[c] = "read" \/ (pc'[c] = "defer" /\ (frame[c].op = "close" \/ c \in panicked'))
      BY <2>9 DEF Remove, Return, Panic, Goto, Shape, TypeOK
    <3>2. frame[c].op = "close" =>
            /\ GetUserRooms(self[c].peer) \ lost \subseteq frame[c].left
            /\ frame[c].room \in RoomIds \ frame[c].left
            /\ <<self[c].peer, frame[c].room>> \in joined
      BY <2>0, <3>1 DEF LeavingOf, Been, InHandler, Handling
    <3>3. QED
      BY <1>0, <3>1, <3>2 DEF LeavingOf, Been, InHandler, Handling, GetUserRooms
  <2>10. CASE Sent(c)
    <3>1. /\ pc[c] = "send" /\ UNCHANGED <<rooms, users, self, joined, lost, panicked>>
          /\ \/ pc'[c] = "read"
             \/ pc'[c] = "next" /\ frame'[c] = frame[c] /\ frame[c].op = "close"
      BY <2>10 DEF Sent, Return, Goto, shared, history, Shape, TypeOK
    <3>2. QED
      BY <2>0, <3>1 DEF LeavingOf, Been, InHandler, Handling, GetUserRooms
  <2>11. CASE Scan(c)
    <3>1. /\ pc[c] = "scan" /\ pc'[c] = "next" /\ UNCHANGED <<rooms, users, self, joined, lost, panicked>>
          /\ frame'[c] = [frame[c] EXCEPT !.left = GetUserRooms(self[c].peer)]
      BY <2>11 DEF Scan, Goto, shared, history, Shape, TypeOK
    <3>2. frame'[c].op = frame[c].op /\ frame'[c].left = GetUserRooms(self[c].peer)
      BY <2>0, <3>1, FieldLemma
    <3>3. \A q \in GetUserRooms(self[c].peer) : q \in rooms /\ q \in RoomIds
                                                /\ <<self[c].peer, q>> \in joined
      BY <2>0, <3>1, PresentJoined DEF GetUserRooms, Shape, TypeOK
    <3>4. QED
      BY <2>0, <3>1, <3>2, <3>3 DEF LeavingOf, Been, InHandler, Handling, GetUserRooms
  <2>12. CASE NextRoom(c)
    <3>1. /\ pc[c] = "next" /\ frame[c].op = "close" /\ UNCHANGED <<rooms, users, self, joined, lost, panicked>>
          /\ frame[c].left \subseteq Been(c)
          /\ GetUserRooms(self[c].peer) \ lost \subseteq frame[c].left
      BY <2>0, <2>12 DEF NextRoom, LeavingOf, Been, InHandler, shared, history
    <3>2. CASE frame[c].left = {} /\ Return(c)
      <4>1. pc'[c] = "defer" /\ GetUserRooms(self[c].peer) \ lost = {}
        BY <3>1, <3>2 DEF Return, Goto, Shape, TypeOK
      <4>2. QED
        BY <3>1, <4>1 DEF LeavingOf, Been, InHandler, Handling, GetUserRooms
    <3>3. ASSUME NEW r \in frame[c].left, pc'[c] = "find",
                 frame'[c] = [Request("close", r, None) EXCEPT !.left = frame[c].left \ {r}]
          PROVE  LeavingOf(c)'
      <4>1. Request("close", r, None) \in Frames
        BY <2>0, <3>3, FrameLemma DEF LocalsOf, Known, Arg
      <4>2. frame'[c].op = "close" /\ frame'[c].room = r /\ frame'[c].left = frame[c].left \ {r}
        BY <3>3, <4>1, FieldLemma, RequestFields
      <4>3. QED
        BY <3>1, <3>3, <4>2 DEF LeavingOf, Been, InHandler, Handling, GetUserRooms
    <3>4. QED
      BY <2>12, <3>2, <3>3 DEF NextRoom, Goto, Shape, TypeOK
  <2>13. QED
    BY <1>1, <2>1, <2>2, <2>3, <2>4, <2>5, <2>6, <2>7, <2>8, <2>9, <2>10, <2>11, <2>12
       DEF Step, Work
<1>2. ASSUME NEW c \in Conns, Step(c) PROVE Leaving'
  BY <1>1, <1>2, OthersLeaving DEF Leaving
<1>3. CASE Restart
  <2>1. /\ UNCHANGED <<self, joined, panicked>> /\ rooms' = {}
        /\ \A c \in Conns : pc'[c] \in {"new", "done"}
    BY <1>3 DEF Restart, history
  <2>2. QED
    BY <2>1 DEF Leaving, LeavingOf, Been, InHandler, Handling, GetUserRooms
<1>4. CASE UNCHANGED vars \/ \E c \in Conns : Hangup(c) \/ Stall(c) \/ Resume(c)
  <2>1. UNCHANGED <<self, joined, rooms, users, pc, frame, lost, panicked>>
    BY <1>4 DEF vars, shared, local, history, Hangup, Stall, Resume
  <2>2. QED
    BY <2>1 DEF Leaving, LeavingOf, Been, InHandler, GetUserRooms
<1>5. QED
  BY <1>2, <1>3, <1>4 DEF Next, Fatal, Terminate, Client, Step, Terminated

-----------------------------------------------------------------------------
Membership == Way /\ Distinct /\ Entered /\ Leaving

LEMMA MembershipAlways ==
  ASSUME FreshIds
  PROVE  Spec => [](IInv /\ Membership)
<1>1. Init => Membership
  BY DEF Init, Membership, Way, WayOf, Distinct, Admitted, Entered, Leaving, LeavingOf,
         InHandler, GetUserRooms
<1>2. IInv /\ Membership /\ [Next]_vars => Membership'
  BY WayNext, DistinctNext, EnteredNext, LeavingNext DEF IInv, Membership
<1>3. QED
  BY <1>1, <1>2, Inductive, PTL DEF Spec

\* What CreateRoom and JoinToRoom told a connection a look into the rooms shows,
\* for as long as it does not leave and whatever handlers overlap: it goes out of
\* sight at a step that loses a change of the room, and at no other.
THEOREM JoinsAreVisible ==
  ASSUME FreshIds
  PROVE  Spec => []JoinIsVisible
<1>1. Init => Visible
  BY DEF Init, Visible
<1>2. IInv /\ Membership /\ Visible /\ [Next]_vars => Visible'
  BY VisibleNext DEF IInv, Membership
<1>3. Visible => JoinIsVisible
  BY DEF Visible, JoinIsVisible
<1>4. QED
  BY <1>1, <1>2, <1>3, MembershipAlways, PTL DEF Spec

\* After LeaveRoom a connection is out of the room until it joins again, however
\* often it had joined: filterUsers takes out every occurrence, and only a slice
\* loaded before brings one back.
THEOREM LeavesAreFinal ==
  ASSUME FreshIds
  PROVE  Spec => []LeaveIsFinal
<1>1. IInv /\ Membership => LeaveIsFinal
  <2> SUFFICES ASSUME IInv, Membership, NEW c \in Conns, pc[c] = "read",
                      NEW r \in rooms \ (mine[c] \cup lost), Present(c, r)
               PROVE  FALSE
    BY DEF LeaveIsFinal
  <2>1. c \in Admitted
    BY RunnerLemma DEF IInv
  <2>2. QED
    BY <2>1 DEF Membership, Entered, GetUserRooms, Present
<1>2. QED
  BY <1>1, MembershipAlways, PTL

\* onCloseConnection takes a peer out of the one room it was in, even when
\* LeaveRoom ends it early because the room is now empty or was removed by
\* another goroutine meanwhile.
THEOREM SingleRoomExitsAreClean ==
  ASSUME FreshIds
  PROVE  Spec => []SingleRoomExitIsClean
<1>1. IInv /\ Membership => SingleRoomExitIsClean
  <2> SUFFICES ASSUME IInv, Membership, NEW c \in Conns \ panicked, NEW r \in rooms \ lost,
                      pc[c] = "done", self[c] # None, Present(c, r)
               PROVE  \E q \in RoomIds \ {r} : <<self[c].peer, q>> \in joined
    BY DEF SingleRoomExitIsClean
  <2>1. Been(c) \ {r} # {}
    BY DEF Membership, Leaving, LeavingOf, GetUserRooms, Present
  <2>2. QED
    BY <2>1 DEF Been
<1>2. QED
  BY <1>1, MembershipAlways, PTL

-----------------------------------------------------------------------------
(* Rosters. *)

\* A socket opens once, when its connection is accepted.
LEMMA SocketLemma ==
  ASSUME Shape, [Next]_vars
  PROVE  /\ \A d \in Conns : pc[d] # "new" /\ socket'[d] # "closed" => socket[d] # "closed"
         /\ Started => Started'
<1> DEFINE Closes == \A d \in Conns : /\ pc[d] # "new" /\ socket'[d] # "closed"
                                           => socket[d] # "closed"
                                      /\ socket[d] # "new" => socket'[d] # "new"
                                      /\ pc'[d] # "new" => pc[d] # "new" \/ socket'[d] # "new"
<1>1. ASSUME NEW c \in Conns, Accept(c) PROVE Closes
  BY <1>1 DEF Accept, Goto, Shape, TypeOK
<1>2. ASSUME NEW c \in Conns, Handler(c) PROVE Closes
  <2>1. UNCHANGED socket
    <3>1. CASE ReadMessage(c) \/ ReadError(c) \/ Create(c) \/ Created(c)
      BY <3>1 DEF ReadMessage, ReadError, Create, Created
    <3>2. CASE Find(c) \/ LoadLog(c) \/ StoreLog(c) \/ Load(c)
      BY <3>2 DEF Find, LoadLog, StoreLog, Load
    <3>3. CASE StoreJoin(c) \/ StoreLeave(c) \/ StoreFake(c) \/ Check(c) \/ Remove(c) \/ Start(c)
      BY <3>3 DEF StoreJoin, StoreLeave, StoreFake, Check, Remove, Start
    <3>4. CASE Data(c) \/ Send(c) \/ Sent(c) \/ Relay(c) \/ Scan(c) \/ NextRoom(c)
      BY <3>4 DEF Data, Send, Sent, Relay, Scan, NextRoom
    <3>5. QED
      BY <1>2, <3>1, <3>2, <3>3, <3>4 DEF Handler
  <2>2. \A d \in Conns : pc'[d] # "new" => pc[d] # "new"
    BY <1>2, HandlerLemma DEF Shape, TypeOK
  <2>3. QED
    BY <2>1, <2>2
<1>3. ASSUME NEW c \in Conns, Register(c) \/ Defer(c) PROVE Closes
  BY <1>3 DEF Register, Defer, Goto, Shape, TypeOK
<1>4. ASSUME NEW c \in Conns, Hangup(c) \/ Stall(c) \/ Resume(c) PROVE Closes
  BY <1>4 DEF Hangup, Stall, Resume, local, Shape, TypeOK
<1>5. ASSUME Restart PROVE Closes
  BY <1>5 DEF Restart, Shape, TypeOK
<1>6. ASSUME UNCHANGED vars PROVE Closes
  BY <1>6 DEF vars, local
<1>7. Closes
  BY <1>1, <1>2, <1>3, <1>4, <1>5, <1>6
     DEF Next, Fatal, Terminate, Work, Client, Handler, Terminated
<1>8. QED
  BY <1>7 DEF Started

\* Who is in a room after a step served its connection before it.
LEMMA MemberLemma ==
  ASSUME Shape, Entered, [Next]_vars, NEW c \in Conns, Step(c), NEW e \in Conns,
         NEW r, Member(e, r)'
  PROVE  /\ Serving(e) /\ socket[e] # "closed"
         /\ e \in Admitted /\ self'[e] = self[e] /\ self[e].peer \in PeerIds
<1>1. Serving(e)
  <2>1. pc'[e] \notin {"new", "register", "done"}
    BY DEF Member, Serving
  <2>2. CASE e # c
    BY <2>1, <2>2, StepLemma DEF Serving
  <2>3. CASE e = c
    <3>1. CASE Accept(c)
      BY <2>1, <2>3, <3>1 DEF Accept, Goto, Shape, TypeOK
    <3>2. CASE Register(c)
      <4>1. pc[c] = "register" /\ UNCHANGED <<rooms, users, self>>
        BY <3>2 DEF Register
      <4>2. c \in Admitted
        BY <4>1, RunnerLemma
      <4>3. mine[c] = {} /\ mine' = mine
        BY <3>2, <4>1 DEF Register, history, Entered
      <4>4. QED
        BY <2>3, <4>3 DEF Member
    <3>3. CASE Handler(c) \/ Defer(c)
      BY <2>3, <3>3, HandlerLemma DEF Defer, Serving
    <3>4. QED
      BY <3>1, <3>2, <3>3 DEF Step, Work, Handler
  <2>4. QED
    BY <2>2, <2>3
<1>2. e \in Admitted /\ self[e].peer \in PeerIds
  BY <1>1, RunnerLemma DEF Serving
<1>3. socket[e] # "closed"
  BY <1>1, SocketLemma DEF Member, Serving
<1>4. QED
  BY <1>1, <1>2, <1>3, AcceptLemma

\* A step that leaves the users of a room alone keeps its members informed: what
\* the other goroutines have to announce they still have to.
LEMMA InformedLemma ==
  ASSUME Shape, Told, NEW c \in Conns, Step(c),
         NEW e \in Conns, NEW r \in rooms \ (unannounced \cup overtaken),
         Serving(e), socket[e] # "closed", self'[e] = self[e], Member(e, r)', r \in mine[e],
         users'[r] = users[r], roster[e][r] = users[r] => roster'[e][r] = users[r],
         Announcing(c, e, r) => Announcing(c, e, r)' \/ roster'[e][r] = users[r]
  PROVE  Informed(e, r)'
<1>1. Member(e, r)
  BY DEF Member, Present
<1>2. roster[e][r] = users[r] \/ \E a \in Conns : Announcing(a, e, r)
  BY <1>1 DEF Told, Informed
<1>3. ASSUME NEW a \in Conns \ {c}, Announcing(a, e, r) PROVE Announcing(a, e, r)'
  BY <1>3, StepLemma DEF Announcing
<1>4. QED
  BY <1>2, <1>3 DEF Informed

\* The goroutine of a connection whose socket id nobody else came with is found
\* in the map, and what is sent to it arrives while its socket is open.
LEMMA ReachLemma ==
  ASSUME Shape, Registry, Distinct, Started, NEW e \in Admitted, Serving(e),
         socket[e] # "closed"
  PROVE  /\ clients[self[e].peer] = e
         /\ ~Blocked(clients[self[e].peer]) => Receives(clients[self[e].peer])
<1>1. e \in Conns /\ pc[e] # "new"
  BY DEF Admitted, Serving
<1>2. \A d \in Admitted \ {e} : self[d].peer # self[e].peer
  BY DEF Distinct
<1>3. clients[self[e].peer] = e
  BY <1>1, <1>2 DEF Registry, RegistryExact
<1>4. e # None
  BY <1>1, NoneAssumption
<1>5. socket[e] \in {"open", "stalled"}
  BY <1>1 DEF Started, Shape, TypeOK
<1>6. QED
  BY <1>3, <1>4, <1>5 DEF Blocked, Receives

\* What a connection was last told of a room changes by a write to it alone.
LEMMA ShownLemma ==
  ASSUME Shape, NEW d \in Conns \cup {None}, NEW q \in RoomIds, NEW b, ShowRoster(d, q, b),
         NEW e \in Conns, NEW r \in RoomIds
  PROVE  /\ roster'[e][r] = roster[e][r] \/ (r = q /\ roster'[e][r] = b)
         /\ d = e /\ Receives(d) => roster'[e][q] = b
BY DEF ShowRoster, Receives, Shape, TypeOK

\* Steps that announce nothing, and have nothing to announce.
Silent(c) ==
  \/ Accept(c) \/ Register(c) \/ ReadMessage(c) \/ ReadError(c) \/ Defer(c)
  \/ Find(c) \/ LoadLog(c) \/ StoreLog(c) \/ Load(c) \/ Sent(c) \/ Relay(c) \/ Scan(c)
  \/ NextRoom(c)

LEMMA SilentLemma ==
  ASSUME Shape, NEW c \in Conns, Silent(c)
  PROVE  /\ UNCHANGED <<rooms, users, roster, mine, unannounced, overtaken>>
         /\ \A e, r : ~Announcing(c, e, r)
<1>1. UNCHANGED <<rooms, users>>
  BY CalmLemma DEF Silent, Calm
<1>2. UNCHANGED <<roster, mine, unannounced, overtaken>>
  <2>1. CASE Accept(c) \/ Register(c) \/ ReadMessage(c) \/ ReadError(c) \/ Defer(c) \/ Find(c)
    BY <2>1 DEF Accept, Register, ReadMessage, ReadError, Defer, Find, history
  <2>2. CASE LoadLog(c) \/ StoreLog(c) \/ Load(c) \/ Sent(c) \/ Relay(c) \/ Scan(c) \/ NextRoom(c)
    BY <2>2 DEF LoadLog, StoreLog, Load, Sent, Relay, Scan, NextRoom, history
  <2>3. QED
    BY <2>1, <2>2 DEF Silent
<1>3. \/ pc[c] \in {"new", "register", "read", "defer", "find", "loadlog", "storelog", "load",
                    "relay", "scan", "next"}
      \/ pc[c] = "send" /\ frame[c].todo = EmptyBag
  <2>1. CASE Accept(c) \/ Register(c) \/ ReadMessage(c) \/ ReadError(c) \/ Defer(c) \/ Find(c)
    BY <2>1 DEF Accept, Register, ReadMessage, ReadError, Defer, Find
  <2>2. CASE LoadLog(c) \/ StoreLog(c) \/ Load(c) \/ Sent(c) \/ Relay(c) \/ Scan(c) \/ NextRoom(c)
    BY <2>2 DEF LoadLog, StoreLog, Load, Sent, Relay, Scan, NextRoom
  <2>3. QED
    BY <2>1, <2>2 DEF Silent
<1>4. \A u \in User : ~(EmptyBag[u] > 0)
  BY DEF EmptyBag
<1>5. QED
  BY <1>1, <1>2, <1>3, <1>4 DEF Announcing

LEMMA ToldNext ==
  /\ Shape /\ Registry /\ Way /\ Distinct /\ Entered /\ Started /\ Told /\ [Next]_vars
  => Told'
<1> SUFFICES ASSUME Shape, Registry, Way, Distinct, Entered, Started, Told, [Next]_vars
             PROVE  Told'
  OBVIOUS
<1>1. ASSUME NEW c \in Conns, Step(c) PROVE Told'
  <2> SUFFICES ASSUME NEW e \in Conns, NEW r \in rooms' \ (unannounced' \cup overtaken'),
                      Member(e, r)'
               PROVE  Informed(e, r)'
    BY DEF Told
  <2> DEFINE q == frame[c].room
  <2>0. /\ WayOf(c) /\ LocalsOf(c) /\ frame[c] \in Frames
        /\ pc[c] \in Handling => q \in RoomIds
        /\ \A p \in RoomIds : users[p] \in Bag
    BY DEF Way, Shape, Locals, LocalsOf, TypeOK, Known
  <2>1. /\ Serving(e) /\ socket[e] # "closed"
        /\ e \in Admitted /\ self'[e] = self[e] /\ self[e].peer \in PeerIds
    BY <1>1, MemberLemma
  <2>3. r \in RoomIds
    BY <1>1, ShapeNext DEF Shape, TypeOK
  <2>4. ASSUME r \in rooms \ (unannounced \cup overtaken), users'[r] = users[r], r \in mine[e],
               roster[e][r] = users[r] => roster'[e][r] = users[r],
               Announcing(c, e, r) => Announcing(c, e, r)' \/ roster'[e][r] = users[r]
        PROVE  Informed(e, r)'
    BY <1>1, <2>1, <2>4, InformedLemma
  <2>2. r \in mine'[e]
    BY DEF Member
  <2>5. CASE Silent(c)
    BY <2>2, <2>4, <2>5, SilentLemma
  <2>6. CASE Create(c)
    <3>1. UNCHANGED <<roster, unannounced, overtaken>> /\ ~Announcing(c, e, r)
      BY <2>6 DEF Create, Announcing
    <3>2. CASE UNCHANGED <<rooms, users, joined, mine>>
      BY <2>2, <2>4, <3>1, <3>2
    <3>3. ASSUME NEW p \in RoomIds, Opened(c, p) PROVE Informed(e, r)'
      <4>1. CASE p = r
        <5>1. /\ users'[r] = AppendUser(EmptyBag, self[c]) /\ pc'[c] = "created"
              /\ frame'[c].room = r
          BY <2>3, <3>3, <4>1 DEF Opened, Shape, TypeOK
        <5>2. c \in Admitted /\ self[c] \in User
          BY <3>3, RunnerLemma DEF Opened
        <5>3. hasUser(users'[r], self[e].peer)
          BY <2>1 DEF Member, Present
        <5>4. self[c].peer = self[e].peer
          BY <2>1, <5>1, <5>2, <5>3, BagLemma, HasUserLemma
        <5>5. e = c
          BY <2>1, <5>2, <5>4 DEF Distinct
        <5>6. QED
          BY <5>1, <5>5 DEF Informed, Announcing
      <4>2. CASE p # r
        <5>1. r \in rooms /\ users'[r] = users[r] /\ r \in mine[e]
          BY <2>2, <2>3, <3>3, <4>2 DEF Opened, Shape, TypeOK
        <5>2. QED
          BY <2>4, <3>1, <5>1
      <4>3. QED
        BY <4>1, <4>2
    <3>4. pc[c] = "create"
      BY <2>6 DEF Create
    <3>5. QED
      BY <1>1, <3>2, <3>3, <3>4, OperationLemma DEF Entering, Exiting, Faking, Dropping
  <2>7. CASE StoreJoin(c) \/ StoreLeave(c) \/ StoreFake(c)
    <3>1. /\ UNCHANGED <<roster, rooms, overtaken>> /\ unannounced \subseteq unannounced'
          /\ ~Announcing(c, e, r) /\ q \in RoomIds
          /\ \E b : users' = [users EXCEPT ![q] = b]
          /\ \/ q \in unannounced'
             \/ /\ frame' = frame
                /\ \/ pc'[c] \in {"start", "check"}
                   \/ pc'[c] = "data" /\ frame[c].op # "text"
      BY <2>0, <2>7 DEF StoreJoin, StoreLeave, StoreFake, Goto, Announcing, Handling, Shape, TypeOK
    <3>2. CASE q = r
      BY <3>1, <3>2 DEF Informed, Announcing
    <3>3. CASE q # r
      <4>1. users'[r] = users[r] /\ r \in rooms \ (unannounced \cup overtaken) /\ r \in mine[e]
        <5>1. mine' = mine \/ mine' = [mine EXCEPT ![c] = @ \cup {q}]
              \/ mine' = [mine EXCEPT ![c] = @ \ {q}]
          BY <2>7 DEF StoreJoin, StoreLeave, StoreFake
        <5>2. r \in mine[e]
          <6>1. CASE e # c \/ mine' = mine
            BY <2>2, <5>1, <6>1 DEF Shape, TypeOK
          <6>2. CASE e = c
            <7>1. mine'[c] \in {mine[c], mine[c] \cup {q}, mine[c] \ {q}}
              BY <5>1 DEF Shape, TypeOK
            <7>2. QED
              BY <2>2, <3>3, <6>2, <7>1
          <6>3. QED
            BY <6>1, <6>2
        <5>3. QED
          BY <2>3, <3>1, <3>3, <5>2 DEF Shape, TypeOK
      <4>2. QED
        BY <2>4, <3>1, <4>1
    <3>4. QED
      BY <3>2, <3>3
  <2>8. CASE Check(c)
    <3>1. /\ UNCHANGED <<rooms, users, roster, mine, unannounced, overtaken>>
          /\ frame[c].op # "text"
          /\ q \notin rooms \/ (pc'[c] \in {"remove", "data"} /\ frame' = frame)
      BY <2>0, <2>8 DEF Check, WayOf, Goto, shared, Shape, TypeOK
    <3>2. Announcing(c, e, r) => Announcing(c, e, r)'
      BY <3>1 DEF Announcing
    <3>3. QED
      BY <2>2, <2>4, <3>1, <3>2
  <2>9. CASE Remove(c)
    <3>1. /\ UNCHANGED <<users, roster, mine, unannounced, overtaken>>
          /\ rooms' = rooms \ {q} /\ r # q
      BY <2>9 DEF Remove
    <3>2. ~Announcing(c, e, r)
      BY <3>1 DEF Announcing
    <3>3. QED
      BY <2>2, <2>4, <3>1, <3>2
  <2>10. CASE Start(c)
    <3>1. /\ UNCHANGED <<rooms, users, roster, mine, overtaken>> /\ unannounced \subseteq unannounced'
          /\ \/ q \in unannounced'
             \/ pc'[c] = "data" /\ frame' = frame /\ frame[c].op = "join"
      BY <2>0, <2>10 DEF Start, WayOf, Goto, shared, Shape, TypeOK
    <3>2. Announcing(c, e, r) => Announcing(c, e, r)'
      BY <3>1 DEF Announcing
    <3>3. QED
      BY <2>2, <2>4, <3>1, <3>2
  <2>11. CASE Created(c)
    <3>1. /\ UNCHANGED <<rooms, users, self, mine, unannounced, overtaken>> /\ pc[c] = "created"
          /\ ~Blocked(clients[self[c].peer])
          /\ ShowRoster(clients[self[c].peer], q, users[q])
      BY <2>11 DEF Created, shared
    <3>2. clients[self[c].peer] \in Conns \cup {None} /\ c \in Admitted /\ q \in RoomIds
      BY <2>0, <3>1, RunnerLemma DEF Handling, Shape, TypeOK
    <3>3. roster'[e][r] = roster[e][r] \/ (r = q /\ roster'[e][r] = users[q])
      BY <2>3, <3>1, <3>2, ShownLemma
    <3>4. ASSUME Announcing(c, e, r) PROVE roster'[e][r] = users[r]
      <4>1. q = r /\ c = e
        BY <3>1, <3>4 DEF Announcing
      <4>4. clients[self[c].peer] = e /\ Receives(clients[self[c].peer])
        BY <2>1, <3>1, <4>1, ReachLemma
      <4>5. QED
        BY <2>3, <3>1, <3>2, <4>1, <4>4, ShownLemma
    <3>5. QED
      BY <2>2, <2>4, <3>1, <3>3, <3>4
  <2>12. CASE Data(c)
    <3>1. /\ UNCHANGED <<rooms, users, roster, mine>> /\ pc[c] = "data" /\ pc'[c] = "send"
          /\ IF frame[c].op = "text" THEN UNCHANGED <<unannounced, overtaken>>
             ELSE /\ unannounced' = unannounced \ {q}
                  /\ overtaken' = overtaken \ {q}
          /\ frame'[c] = [[frame[c] EXCEPT !.seen = users[q]] EXCEPT !.todo = Recipients(c)]
      BY <2>12 DEF Data, Goto, shared, Shape, TypeOK
    <3>2. [frame[c] EXCEPT !.seen = users[q]] \in Frames
      BY <2>0, <3>1, FrameLemma DEF Handling
    <3>3. /\ frame'[c].room = q /\ frame'[c].op = frame[c].op
          /\ frame'[c].todo = Recipients(c)
      BY <2>0, <3>1, <3>2, FieldLemma
    <3>4. CASE frame[c].op = "text" \/ r # q
      <4>1. ~Announcing(c, e, r) /\ r \notin unannounced \cup overtaken
        BY <3>1, <3>4 DEF Announcing
      <4>2. QED
        BY <2>2, <2>4, <3>1, <4>1
    <3>5. CASE frame[c].op # "text" /\ r = q
      <4>1. PICK u \in User : u.peer = self[e].peer /\ users[r][u] > 0
        BY <2>1, <3>1 DEF Member, Present, hasUser
      <4>2. frame[c].op \in {"leave", "close"} => u.peer # self[c].peer
        <5>1. frame[c].op \in {"leave", "close"} => r \notin mine[c]
          BY <2>0, <3>1, <3>5 DEF WayOf
        <5>2. c \in Admitted
          BY <3>1, RunnerLemma
        <5>3. QED
          BY <2>1, <2>2, <3>1, <4>1, <5>1, <5>2 DEF Distinct
      <4>3. Recipients(c)[u] > 0
        BY <3>5, <4>1, <4>2 DEF Recipients, WithoutPeer
      <4>4. Announcing(c, e, r)'
        BY <2>1, <3>1, <3>3, <3>5, <4>1, <4>3 DEF Announcing
      <4>5. QED
        BY <4>4 DEF Informed
    <3>6. QED
      BY <3>4, <3>5
  <2>13. CASE Send(c)
    <3>1. PICK u \in User :
            /\ frame[c].todo[u] > 0 /\ ~Blocked(clients[u.peer]) /\ Served(c, u)
            /\ IF frame[c].op = "text" THEN UNCHANGED <<roster, overtaken>>
               ELSE /\ ShowRoster(clients[u.peer], q, frame[c].seen)
                    /\ overtaken' = IF Overtakes(c, clients[u.peer]) THEN overtaken \cup {q}
                                                                     ELSE overtaken
      BY <2>13 DEF Send
    <3>2. UNCHANGED <<rooms, users, self, pc, mine, unannounced>> /\ pc[c] = "send"
      BY <2>13 DEF Send, shared
    <3>3. CASE frame[c].op = "text"
      BY <2>2, <2>4, <3>1, <3>2, <3>3 DEF Announcing
    <3>4. CASE frame[c].op # "text"
      <4>1. q \in RoomIds /\ r \notin overtaken
        BY <2>0, <3>1, <3>2, <3>4 DEF Handling
      <4>2. clients[u.peer] \in Conns \cup {None}
        BY UserLemma DEF Shape, TypeOK
      <4>3. ASSUME roster[e][r] = users[r] PROVE roster'[e][r] = users[r]
        <5>1. CASE r = q /\ clients[u.peer] = e /\ Receives(e)
          <6>1. frame[c].seen = users[r]
            BY <3>1, <3>4, <4>3, <5>1 DEF Overtakes
          <6>2. QED
            BY <2>3, <3>1, <3>4, <4>1, <4>2, <5>1, <6>1, ShownLemma
        <5>2. CASE ~(r = q /\ clients[u.peer] = e /\ Receives(e))
          BY <2>3, <3>1, <3>4, <4>1, <4>2, <4>3, <5>2 DEF ShowRoster, Shape, TypeOK
        <5>3. QED
          BY <5>1, <5>2
      <4>4. ASSUME Announcing(c, e, r)
            PROVE  Announcing(c, e, r)' \/ roster'[e][r] = users[r]
        <5>1. PICK v \in User : v.peer = self[e].peer /\ frame[c].todo[v] > 0
          BY <3>2, <4>4 DEF Announcing
        <5>2. r = q /\ frame[c].seen = users[r]
          BY <3>2, <4>4 DEF Announcing
        <5>3. CASE v = u
          <6>1. clients[u.peer] = e /\ Receives(clients[u.peer])
            BY <2>1, <3>1, <5>1, <5>3, ReachLemma
          <6>2. QED
            BY <2>3, <3>1, <3>4, <4>1, <4>2, <5>2, <6>1, ShownLemma
        <5>4. CASE v # u
          <6>1. frame'[c] = [frame[c] EXCEPT !.todo = [frame[c].todo EXCEPT ![u] = @ - 1]]
            BY <3>1 DEF Served, Shape, TypeOK
          <6>2. /\ frame'[c].room = q /\ frame'[c].op = frame[c].op
                /\ frame'[c].todo = [frame[c].todo EXCEPT ![u] = @ - 1]
            BY <2>0, <6>1, FieldLemma
          <6>3. frame'[c].todo[v] > 0
            BY <2>0, <5>1, <5>4, <6>2, FrameTypes DEF Bag
          <6>4. /\ frame'[c].seen = frame[c].seen /\ pc'[c] = "send"
                /\ users'[r] = users[r] /\ self'[e].peer = self[e].peer
            BY <2>0, <2>1, <3>2, <6>1, FieldLemma
          <6>5. QED
            BY <3>4, <5>1, <5>2, <6>2, <6>3, <6>4 DEF Announcing
        <5>5. QED
          BY <5>3, <5>4
      <4>5. QED
        BY <2>2, <2>4, <3>2, <4>1, <4>3, <4>4
    <3>5. QED
      BY <3>3, <3>4
  <2>14. QED
    BY <1>1, <2>5, <2>6, <2>7, <2>8, <2>9, <2>10, <2>11, <2>12, <2>13
       DEF Step, Work, Silent
<1>2. CASE Restart
  BY <1>2 DEF Restart, Told
<1>3. CASE UNCHANGED vars \/ \E c \in Conns : Hangup(c) \/ Stall(c) \/ Resume(c)
  <2>1. UNCHANGED <<self, rooms, users, pc, frame, roster, mine, unannounced, overtaken>>
    BY <1>3 DEF vars, shared, local, history, Hangup, Stall, Resume
  <2>2. \A e \in Conns, r \in rooms : Member(e, r)' => Member(e, r)
    BY <2>1, SocketLemma DEF Member, Present, Serving
  <2>3. \A e \in Conns, r \in rooms : Informed(e, r) => Informed(e, r)'
    BY <2>1 DEF Informed, Announcing
  <2>4. QED
    BY <2>1, <2>2, <2>3 DEF Told
<1>4. QED
  BY <1>1, <1>2, <1>3 DEF Next, Fatal, Terminate, Client, Step, Terminated

\* Every connection of a room that is not being worked on was last told exactly
\* the users the room has: whoever changed them last made the data afterwards
\* and sent it to whoever was in the room, however many others work on it.
THEOREM RostersAgree ==
  ASSUME FreshIds
  PROVE  Spec => []RosterAgreement
<1> DEFINE Announced == Started /\ Told
<1>1. Init => Announced
  BY DEF Init, Started, Told
<1>2. IInv /\ Membership /\ Announced /\ [Next]_vars => Announced'
  BY SocketLemma, ToldNext DEF IInv, Membership
<1>3. Announced => RosterAgreement
  <2>1. ASSUME Quiet, NEW c \in Conns, NEW r PROVE \A a \in Conns : ~Announcing(a, c, r)
    BY <2>1 DEF Quiet, Busy, Announcing
  <2>2. QED
    BY <2>1 DEF Told, Informed, Member, Serving, RosterAgreement
<1> HIDE DEF Announced
<1>4. QED
  BY <1>1, <1>2, <1>3, MembershipAlways, PTL DEF Spec
=============================================================================
