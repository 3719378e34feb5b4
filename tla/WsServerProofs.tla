--------------------------- MODULE WsServerProofs ---------------------------
(***************************************************************************)
(* Theorems about WsServer, for every value of its constants and however   *)
(* its handlers interleave.                                                *)
(***************************************************************************)
EXTENDS WsServer, TLAPS

-----------------------------------------------------------------------------
(* The types of the variables, and of the locals of the goroutines. *)

\* The labels at which frame[c].room is the room a handler works on.
Handling == {"created", "find", "loadlog", "storelog", "load", "store", "start",
             "data", "send", "check", "remove"}

\* What the locals of a goroutine are, label by label.
LocalsOf(c) ==
  /\ pc[c] = "new" => self[c] = None
  /\ pc[c] \notin {"new", "done"} => self[c] \in RealUser
  /\ pc[c] \in Handling => frame[c].room \in Known
  /\ frame[c].left \subseteq Known
  /\ pc[c] \in {"loadlog", "storelog"} => frame[c].op = "text"
  /\ frame[c].op = "text" => frame[c].arg \in Texts
  /\ frame[c].op = "addFake" => frame[c].arg \in FakeIds
  /\ pc[c] = "relay" => frame[c].arg \in PeerIds

Locals == \A c \in Conns : LocalsOf(c)

Shape == TypeOK /\ Locals /\ rooms \subseteq Known

LEMMA BagLemma ==
  /\ EmptyBag \in Bag
  /\ \A b \in Bag, u \in User : AppendUser(b, u) \in Bag
  /\ \A b \in Bag : \A p : WithoutPeer(b, p) \in Bag /\ WithoutId(b, p) \in Bag
  /\ \A b \in Bag, u \in User : b[u] > 0 => [b EXCEPT ![u] = @ - 1] \in Bag
BY DEF EmptyBag, Bag, AppendUser, WithoutPeer, WithoutId

LEMMA UserLemma ==
  /\ RealUser \subseteq User
  /\ \A i \in FakeIds : [id |-> i, peer |-> NoPeer] \in User
  /\ \A u \in User : u.peer \in PeerIds \cup {NoPeer}
  /\ \A u \in RealUser : u.peer \in PeerIds
BY DEF User, RealUser, FakeUser

LEMMA FrameLemma ==
  /\ Idle \in Frames
  /\ \A op \in Messages \cup {"close"}, r \in RoomIds \cup {None}, a \in Arg :
       Request(op, r, a) \in Frames
  /\ \A f \in Frames : /\ \A r \in RoomIds : [f EXCEPT !.room = r] \in Frames
                       /\ \A b \in Bag : [f EXCEPT !.seen = b] \in Frames
                       /\ \A b \in Bag : [f EXCEPT !.todo = b] \in Frames
                       /\ \A l \in SUBSET Texts : [f EXCEPT !.log = l] \in Frames
                       /\ \A s \in SUBSET RoomIds : [f EXCEPT !.left = s] \in Frames
BY ZenonT(60), BagLemma DEF Idle, Frames, Request, Arg, Messages

\* A handler changes one local of a goroutine at a time.
LEMMA FieldLemma ==
  \A f \in Frames :
    /\ \A x : LET g == [f EXCEPT !.room = x] IN
         /\ g.op = f.op /\ g.room = x /\ g.arg = f.arg /\ g.seen = f.seen
         /\ g.todo = f.todo /\ g.left = f.left
    /\ \A x : LET g == [f EXCEPT !.seen = x] IN
         /\ g.op = f.op /\ g.room = f.room /\ g.arg = f.arg /\ g.seen = x
         /\ g.todo = f.todo /\ g.left = f.left
    /\ \A x : LET g == [f EXCEPT !.log = x] IN
         /\ g.op = f.op /\ g.room = f.room /\ g.arg = f.arg /\ g.seen = f.seen
         /\ g.todo = f.todo /\ g.left = f.left
    /\ \A x : LET g == [f EXCEPT !.todo = x] IN
         /\ g.op = f.op /\ g.room = f.room /\ g.arg = f.arg /\ g.seen = f.seen
         /\ g.todo = x /\ g.left = f.left
    /\ \A x : LET g == [f EXCEPT !.left = x] IN
         /\ g.op = f.op /\ g.room = f.room /\ g.arg = f.arg /\ g.seen = f.seen
         /\ g.todo = f.todo /\ g.left = x
BY DEF Frames

\* A step of one goroutine that forgets no room keeps Locals when it keeps its
\* own.
LEMMA LocalsLemma ==
  ASSUME Locals, NEW c \in Conns,
         pc' = [pc EXCEPT ![c] = pc'[c]], frame' = [frame EXCEPT ![c] = frame'[c]],
         self' = [self EXCEPT ![c] = self'[c]], TypeOK,
         Known \subseteq Known', LocalsOf(c)'
  PROVE  Locals'
<1> SUFFICES ASSUME NEW d \in Conns, d # c PROVE LocalsOf(d)'
  BY DEF Locals
<1>1. LocalsOf(d) /\ pc'[d] = pc[d] /\ frame'[d] = frame[d] /\ self'[d] = self[d]
  BY DEF Locals, TypeOK
<1>2. QED
  BY <1>1 DEF LocalsOf

THEOREM ShapeInit == Init => Shape
<1> SUFFICES ASSUME Init PROVE Shape
  OBVIOUS
<1>1. TypeOK
  BY BagLemma, FrameLemma, BoundsAssumption DEF Init, TypeOK, Labels
<1>2. Locals
  BY NoneAssumption DEF Init, Locals, LocalsOf, Handling, Idle, Messages
<1>3. rooms \subseteq Known
  BY DEF Init
<1>4. QED
  BY <1>1, <1>2, <1>3 DEF Shape

LEMMA FrameTypes ==
  \A f \in Frames :
    /\ f.op \in Messages \cup {"close", None} /\ f.room \in RoomIds \cup {None}
    /\ f.arg \in Arg /\ f.seen \in Bag /\ f.log \subseteq Texts /\ f.todo \in Bag
    /\ f.left \subseteq RoomIds
BY DEF Frames

LEMMA RequestFields ==
  ASSUME NEW op, NEW r, NEW a
  PROVE  LET f == Request(op, r, a) IN
           f.op = op /\ f.room = r /\ f.arg = a /\ f.left = {}
BY DEF Request, Idle

\* The requests of clients are of the types the handlers expect.
LEMMA RequestLemma ==
  ASSUME TypeOK, NEW c \in Conns, self[c] \in RealUser, sent < MaxMsgs,
         NEW op \in Ops, NEW request \in Requests(c)[op]
  PROVE  \E r \in Known \cup {None}, a \in Arg :
           /\ request = Request(op, r, a)
           /\ op \notin {"create", "relay"} => r \in Known
           /\ op = "text" => a \in Texts
           /\ op = "addFake" => a \in FakeIds
           /\ op = "relay" => a \in PeerIds
<1>1. sent + 1 \in Texts
  BY BoundsAssumption DEF TypeOK, Texts
<1>2. self[c].peer \in PeerIds
  BY UserLemma
<1>3. CASE op = "text"
  BY <1>1, <1>3 DEF Requests, Arg
<1>4. CASE op = "create"
  BY <1>4 DEF Requests, Arg
<1>5. CASE op = "join"
  BY <1>2, <1>5 DEF Requests, Arg
<1>6. CASE op = "leave"
  BY <1>6 DEF Requests, Arg
<1>7. CASE op = "addFake"
  BY <1>7 DEF Requests, Arg
<1>8. CASE op = "removeFake"
  BY <1>8, RemovableAssumption DEF Requests, Arg
<1>9. CASE op = "relay"
  BY <1>9 DEF Requests, Arg
<1>10. QED
  BY <1>3, <1>4, <1>5, <1>6, <1>7, <1>8, <1>9, OpsAssumption DEF Messages

\* The rooms a change was lost from are rooms, and stay so.
LEMMA LosesLemma ==
  ASSUME lost \in SUBSET RoomIds, NEW r \in RoomIds, NEW event, Loses(r, event)
  PROVE  lost' \in SUBSET RoomIds /\ lost \subseteq lost' /\ (event => r \in lost')
BY DEF Loses

LEMMA ReceiveLemma ==
  ASSUME TypeOK, NEW d \in Conns \cup {None}, NEW out \in Out, Receive(d, out)
  PROVE  inbox' \in [Conns -> SUBSET Out]
BY DEF TypeOK, Receive

LEMMA ShowRosterLemma ==
  ASSUME TypeOK, NEW d \in Conns \cup {None}, NEW r \in RoomIds, NEW b \in Bag,
         ShowRoster(d, r, b)
  PROVE  roster' \in [Conns -> [RoomIds -> Bag \cup {None}]]
BY DEF TypeOK, ShowRoster

LEMMA ShapeNext == Shape /\ [Next]_vars => Shape'
<1> SUFFICES ASSUME TypeOK, Locals, rooms \subseteq Known, [Next]_vars PROVE Shape'
  BY DEF Shape
<1>1. ASSUME NEW c \in Conns, Accept(c) PROVE Shape'
  <2>0. LocalsOf(c)
    BY DEF Locals
  <2>1. frame' \in [Conns -> Frames] /\ frame' = [frame EXCEPT ![c] = frame'[c]]
    BY <1>1, <2>0, BagLemma, UserLemma, FrameLemma DEF TypeOK, Accept, local, LocalsOf, Handling, Known, Return, Admissible, RealUser
  <2>7. self' \in [Conns -> RealUser \cup {None}]
    BY <1>1 DEF TypeOK, Accept, Admissible, RealUser
  <2>2. TypeOK'
    BY ZenonT(60), <1>1, <2>0, <2>7, <2>1, BagLemma, UserLemma DEF TypeOK, Accept, shared, local, history, Goto, Return, Labels, LocalsOf, Handling, Known, Admissible, RealUser
  <2>3. LocalsOf(c)'
    BY <1>1, <2>0, FieldLemma, UserLemma, NoneAssumption DEF TypeOK, LocalsOf, Accept, shared, local, history, Goto, Return, Known, Idle, Handling, Messages, Admissible, RealUser
  <2>4. Known \subseteq Known' /\ (rooms \subseteq Known)'
    BY <1>1, <2>0, UserLemma, NoneAssumption DEF TypeOK, LocalsOf, Accept, shared, local, history, Known, Admissible, RealUser
  <2>5. pc' = [pc EXCEPT ![c] = pc'[c]] /\ self' = [self EXCEPT ![c] = self'[c]]
    BY <1>1 DEF TypeOK, Accept, local, Goto, Return, Admissible, RealUser
  <2>6. QED
    BY <2>1, <2>2, <2>3, <2>4, <2>5, LocalsLemma DEF Shape
<1>2. ASSUME NEW c \in Conns, Register(c) PROVE Shape'
  <2>0. LocalsOf(c)
    BY DEF Locals
  <2>1. frame' \in [Conns -> Frames] /\ frame' = [frame EXCEPT ![c] = frame'[c]]
    BY <1>2, <2>0, BagLemma, UserLemma, FrameLemma DEF TypeOK, Register, local, LocalsOf, Handling, Known, Return
  <2>2. TypeOK'
    BY <1>2, <2>0, <2>1, BagLemma, UserLemma DEF TypeOK, Register, shared, local, history, Goto, Return, Labels, LocalsOf, Handling, Known
  <2>3. LocalsOf(c)'
    BY <1>2, <2>0, FieldLemma, UserLemma, NoneAssumption DEF TypeOK, LocalsOf, Register, shared, local, history, Goto, Return, Known, Idle, Handling, Messages
  <2>4. Known \subseteq Known' /\ (rooms \subseteq Known)'
    BY <1>2, <2>0, UserLemma, NoneAssumption DEF TypeOK, LocalsOf, Register, shared, local, history, Known
  <2>5. pc' = [pc EXCEPT ![c] = pc'[c]] /\ self' = [self EXCEPT ![c] = self'[c]]
    BY <1>2 DEF TypeOK, Register, local, Goto, Return
  <2>6. QED
    BY <2>1, <2>2, <2>3, <2>4, <2>5, LocalsLemma DEF Shape
<1>3. ASSUME NEW c \in Conns, Hangup(c) PROVE Shape'
  <2>0. LocalsOf(c)
    BY DEF Locals
  <2>1. frame' \in [Conns -> Frames] /\ frame' = [frame EXCEPT ![c] = frame'[c]]
    BY <1>3, <2>0, BagLemma, UserLemma, FrameLemma DEF TypeOK, Hangup, local, LocalsOf, Handling, Known, Return
  <2>2. TypeOK'
    BY <1>3, <2>0, <2>1, BagLemma, UserLemma DEF TypeOK, Hangup, shared, local, history, Goto, Return, Labels, LocalsOf, Handling, Known
  <2>3. LocalsOf(c)'
    BY <1>3, <2>0, FieldLemma, UserLemma, NoneAssumption DEF TypeOK, LocalsOf, Hangup, shared, local, history, Goto, Return, Known, Idle, Handling, Messages
  <2>4. Known \subseteq Known' /\ (rooms \subseteq Known)'
    BY <1>3, <2>0, UserLemma, NoneAssumption DEF TypeOK, LocalsOf, Hangup, shared, local, history, Known
  <2>5. pc' = [pc EXCEPT ![c] = pc'[c]] /\ self' = [self EXCEPT ![c] = self'[c]]
    BY <1>3 DEF TypeOK, Hangup, local, Goto, Return
  <2>6. QED
    BY <2>1, <2>2, <2>3, <2>4, <2>5, LocalsLemma DEF Shape
<1>4. ASSUME NEW c \in Conns, Stall(c) PROVE Shape'
  <2>0. LocalsOf(c)
    BY DEF Locals
  <2>1. frame' \in [Conns -> Frames] /\ frame' = [frame EXCEPT ![c] = frame'[c]]
    BY <1>4, <2>0, BagLemma, UserLemma, FrameLemma DEF TypeOK, Stall, local, LocalsOf, Handling, Known, Return
  <2>2. TypeOK'
    BY <1>4, <2>0, <2>1, BagLemma, UserLemma DEF TypeOK, Stall, shared, local, history, Goto, Return, Labels, LocalsOf, Handling, Known
  <2>3. LocalsOf(c)'
    BY <1>4, <2>0, FieldLemma, UserLemma, NoneAssumption DEF TypeOK, LocalsOf, Stall, shared, local, history, Goto, Return, Known, Idle, Handling, Messages
  <2>4. Known \subseteq Known' /\ (rooms \subseteq Known)'
    BY <1>4, <2>0, UserLemma, NoneAssumption DEF TypeOK, LocalsOf, Stall, shared, local, history, Known
  <2>5. pc' = [pc EXCEPT ![c] = pc'[c]] /\ self' = [self EXCEPT ![c] = self'[c]]
    BY <1>4 DEF TypeOK, Stall, local, Goto, Return
  <2>6. QED
    BY <2>1, <2>2, <2>3, <2>4, <2>5, LocalsLemma DEF Shape
<1>5. ASSUME NEW c \in Conns, Resume(c) PROVE Shape'
  <2>0. LocalsOf(c)
    BY DEF Locals
  <2>1. frame' \in [Conns -> Frames] /\ frame' = [frame EXCEPT ![c] = frame'[c]]
    BY <1>5, <2>0, BagLemma, UserLemma, FrameLemma DEF TypeOK, Resume, local, LocalsOf, Handling, Known, Return
  <2>2. TypeOK'
    BY <1>5, <2>0, <2>1, BagLemma, UserLemma DEF TypeOK, Resume, shared, local, history, Goto, Return, Labels, LocalsOf, Handling, Known
  <2>3. LocalsOf(c)'
    BY <1>5, <2>0, FieldLemma, UserLemma, NoneAssumption DEF TypeOK, LocalsOf, Resume, shared, local, history, Goto, Return, Known, Idle, Handling, Messages
  <2>4. Known \subseteq Known' /\ (rooms \subseteq Known)'
    BY <1>5, <2>0, UserLemma, NoneAssumption DEF TypeOK, LocalsOf, Resume, shared, local, history, Known
  <2>5. pc' = [pc EXCEPT ![c] = pc'[c]] /\ self' = [self EXCEPT ![c] = self'[c]]
    BY <1>5 DEF TypeOK, Resume, local, Goto, Return
  <2>6. QED
    BY <2>1, <2>2, <2>3, <2>4, <2>5, LocalsLemma DEF Shape
<1>6. ASSUME NEW c \in Conns, ReadMessage(c) PROVE Shape'
  <2>0. LocalsOf(c) /\ self[c] \in RealUser /\ sent < MaxMsgs
    BY <1>6 DEF Locals, LocalsOf, ReadMessage
  <2>9. PICK op \in Ops : \E request \in Requests(c)[op] :
          /\ frame' = [frame EXCEPT ![c] = request]
          /\ Goto(c, IF op \in {"create", "relay"} THEN op ELSE "find")
    BY <1>6 DEF ReadMessage
  <2>1. PICK request \in Requests(c)[op] :
          /\ frame' = [frame EXCEPT ![c] = request]
          /\ pc' = [pc EXCEPT ![c] = IF op \in {"create", "relay"} THEN op ELSE "find"]
    BY <2>9 DEF Goto
  <2>2. PICK r \in Known \cup {None}, a \in Arg :
          /\ request = Request(op, r, a)
          /\ op \notin {"create", "relay"} => r \in Known
          /\ op = "text" => a \in Texts
          /\ op = "addFake" => a \in FakeIds
          /\ op = "relay" => a \in PeerIds
    BY <2>0, RequestLemma
  <2>3. request \in Frames
    BY <2>2, FrameLemma, OpsAssumption DEF Known
  <2>4. TypeOK'
    BY <1>6, <2>1, <2>3, BoundsAssumption
       DEF ReadMessage, TypeOK, Labels, shared, history
  <2>5. pc'[c] = (IF op \in {"create", "relay"} THEN op ELSE "find") /\ frame'[c] = request
    BY <2>1 DEF TypeOK
  <2>6. UNCHANGED <<owner, rooms, self>>
    BY <1>6 DEF ReadMessage, shared
  <2>7. LocalsOf(c)'
    BY <2>0, <2>2, <2>5, <2>6, RequestFields DEF LocalsOf, Handling, Known
  <2>8. QED
    BY <2>1, <2>4, <2>5, <2>6, <2>7, LocalsLemma DEF Shape, Known, TypeOK
<1>7. ASSUME NEW c \in Conns, ReadError(c) PROVE Shape'
  <2>0. LocalsOf(c)
    BY DEF Locals
  <2>1. frame' \in [Conns -> Frames] /\ frame' = [frame EXCEPT ![c] = frame'[c]]
    BY <1>7, FrameLemma DEF TypeOK, ReadError, Arg
  <2>2. TypeOK'
    BY <1>7, <2>0, <2>1, BagLemma, UserLemma DEF TypeOK, ReadError, shared, local, history, Goto, Return, Labels, LocalsOf, Handling, Known, Request, Idle, Messages
  <2>3. LocalsOf(c)'
    BY <1>7, <2>0, FieldLemma, UserLemma, NoneAssumption DEF TypeOK, LocalsOf, ReadError, shared, local, history, Goto, Return, Known, Idle, Handling, Messages, Request, Idle, Messages
  <2>4. Known \subseteq Known' /\ (rooms \subseteq Known)'
    BY <1>7, <2>0, UserLemma, NoneAssumption DEF TypeOK, LocalsOf, ReadError, shared, local, history, Known, Request, Idle, Messages
  <2>5. pc' = [pc EXCEPT ![c] = pc'[c]] /\ self' = [self EXCEPT ![c] = self'[c]]
    BY <1>7 DEF TypeOK, ReadError, local, Goto, Return, Request, Idle, Messages
  <2>6. QED
    BY <2>1, <2>2, <2>3, <2>4, <2>5, LocalsLemma DEF Shape
<1>8. ASSUME NEW c \in Conns, Defer(c) PROVE Shape'
  <2>0. LocalsOf(c)
    BY DEF Locals
  <2>1. frame' \in [Conns -> Frames] /\ frame' = [frame EXCEPT ![c] = frame'[c]]
    BY <1>8, <2>0, BagLemma, UserLemma, FrameLemma DEF TypeOK, Defer, local, LocalsOf, Handling, Known, Return
  <2>2. TypeOK'
    BY <1>8, <2>0, <2>1, BagLemma, UserLemma DEF TypeOK, Defer, shared, local, history, Goto, Return, Labels, LocalsOf, Handling, Known
  <2>3. LocalsOf(c)'
    BY <1>8, <2>0, FieldLemma, UserLemma, NoneAssumption DEF TypeOK, LocalsOf, Defer, shared, local, history, Goto, Return, Known, Idle, Handling, Messages
  <2>4. Known \subseteq Known' /\ (rooms \subseteq Known)'
    BY <1>8, <2>0, UserLemma, NoneAssumption DEF TypeOK, LocalsOf, Defer, shared, local, history, Known
  <2>5. pc' = [pc EXCEPT ![c] = pc'[c]] /\ self' = [self EXCEPT ![c] = self'[c]]
    BY <1>8 DEF TypeOK, Defer, local, Goto, Return
  <2>6. QED
    BY <2>1, <2>2, <2>3, <2>4, <2>5, LocalsLemma DEF Shape
<1>9. ASSUME NEW c \in Conns, Create(c) PROVE Shape'
  <2>0. LocalsOf(c) /\ self[c] \in RealUser /\ frame[c] \in Frames
    BY <1>9 DEF Locals, LocalsOf, Create, TypeOK
  <2>1. CASE RoomIds \subseteq Known /\ Return(c) /\ UNCHANGED <<rooms, owner, users, joined, mine>>
    <3>1. TypeOK'
      BY <1>9, <2>1, FrameLemma DEF TypeOK, Create, Return, Goto, Labels
    <3>2. LocalsOf(c)'
      BY <1>9, <2>0, <2>1, NoneAssumption
         DEF Create, TypeOK, LocalsOf, Return, Goto, Known, Idle, Handling, Messages
    <3>3. QED
      BY <1>9, <2>1, <3>1, <3>2, LocalsLemma
         DEF Create, TypeOK, Return, Goto, Known, Shape
  <2>2. ASSUME NEW r \in RoomIds \ Known,
               rooms' = rooms \cup {r},
               owner' = [owner EXCEPT ![r] = self[c].peer],
               users' = [users EXCEPT ![r] = AppendUser(EmptyBag, self[c])],
               joined' = joined \cup {<<self[c].peer, r>>},
               mine' = [mine EXCEPT ![c] = @ \cup {r}],
               frame' = [frame EXCEPT ![c].room = r],
               Goto(c, "created")
        PROVE  Shape'
    <3>1. self[c].peer \in PeerIds /\ AppendUser(EmptyBag, self[c]) \in Bag
      BY <2>0, UserLemma, BagLemma
    <3>2. frame' \in [Conns -> Frames] /\ frame'[c] = [frame[c] EXCEPT !.room = r]
      BY <2>0, <2>2, FrameLemma DEF TypeOK
    <3>3. TypeOK'
      BY SMTT(60), <1>9, <2>2, <3>1, <3>2 DEF TypeOK, Create, Goto, Labels
    <3>4. Known' = Known \cup {r}
      BY <2>2, <3>1, NoneAssumption DEF Known, TypeOK
    <3>5. LocalsOf(c)'
      BY SMTT(60), <1>9, <2>0, <2>2, <3>2, <3>4, FieldLemma
         DEF Create, TypeOK, LocalsOf, Goto, Handling
    <3>6. Locals'
      BY ZenonT(60), <1>9, <2>2, <3>2, <3>4, <3>5, LocalsLemma DEF Create, TypeOK, Goto
    <3>7. QED
      BY <2>2, <3>3, <3>4, <3>6 DEF Shape
  <2>3. QED
    BY <1>9, <2>1, <2>2 DEF Create
<1>10. ASSUME NEW c \in Conns, Created(c) PROVE Shape'
  <2>0. LocalsOf(c)
    BY DEF Locals
  <2>1. frame' \in [Conns -> Frames] /\ frame' = [frame EXCEPT ![c] = frame'[c]]
    BY <1>10, <2>0, BagLemma, UserLemma, FrameLemma DEF TypeOK, Created, local, LocalsOf, Handling, Known, Return, Receive, Receives, ShowRoster, Out
  <2>2. TypeOK'
    BY <1>10, <2>0, <2>1, BagLemma, UserLemma DEF TypeOK, Created, shared, local, history, Goto, Return, Labels, LocalsOf, Handling, Known, Receive, Receives, ShowRoster, Out
  <2>3. LocalsOf(c)'
    BY <1>10, <2>0, FieldLemma, UserLemma, NoneAssumption DEF TypeOK, LocalsOf, Created, shared, local, history, Goto, Return, Known, Idle, Handling, Messages, Receive, Receives, ShowRoster, Out
  <2>4. Known \subseteq Known' /\ (rooms \subseteq Known)'
    BY <1>10, <2>0, UserLemma, NoneAssumption DEF TypeOK, LocalsOf, Created, shared, local, history, Known, Receive, Receives, ShowRoster, Out
  <2>5. pc' = [pc EXCEPT ![c] = pc'[c]] /\ self' = [self EXCEPT ![c] = self'[c]]
    BY <1>10 DEF TypeOK, Created, local, Goto, Return, Receive, Receives, ShowRoster, Out
  <2>6. QED
    BY <2>1, <2>2, <2>3, <2>4, <2>5, LocalsLemma DEF Shape
<1>11. ASSUME NEW c \in Conns, Find(c) PROVE Shape'
  <2>0. LocalsOf(c)
    BY DEF Locals
  <2>1. frame' \in [Conns -> Frames] /\ frame' = [frame EXCEPT ![c] = frame'[c]]
    BY <1>11, <2>0, BagLemma, UserLemma, FrameLemma DEF TypeOK, Find, local, LocalsOf, Handling, Known, Return
  <2>2. TypeOK'
    BY ZenonT(60), <1>11, <2>0, <2>1, BagLemma, UserLemma DEF TypeOK, Find, shared, local, history, Goto, Return, Labels, LocalsOf, Handling, Known
  <2>3. LocalsOf(c)'
    BY <1>11, <2>0, FieldLemma, UserLemma, NoneAssumption DEF TypeOK, LocalsOf, Find, shared, local, history, Goto, Return, Known, Idle, Handling, Messages
  <2>4. Known \subseteq Known' /\ (rooms \subseteq Known)'
    BY <1>11, <2>0, UserLemma, NoneAssumption DEF TypeOK, LocalsOf, Find, shared, local, history, Known
  <2>5. pc' = [pc EXCEPT ![c] = pc'[c]] /\ self' = [self EXCEPT ![c] = self'[c]]
    BY <1>11 DEF TypeOK, Find, local, Goto, Return
  <2>6. QED
    BY <2>1, <2>2, <2>3, <2>4, <2>5, LocalsLemma DEF Shape
<1>12. ASSUME NEW c \in Conns, LoadLog(c) PROVE Shape'
  <2>0. LocalsOf(c)
    BY DEF Locals
  <2>1. frame' \in [Conns -> Frames] /\ frame' = [frame EXCEPT ![c] = frame'[c]]
    BY <1>12, <2>0, BagLemma, UserLemma, FrameLemma DEF TypeOK, LoadLog, local, LocalsOf, Handling, Known, Return
  <2>2. TypeOK'
    BY <1>12, <2>0, <2>1, BagLemma, UserLemma DEF TypeOK, LoadLog, shared, local, history, Goto, Return, Labels, LocalsOf, Handling, Known
  <2>3. LocalsOf(c)'
    BY <1>12, <2>0, FieldLemma, UserLemma, NoneAssumption DEF TypeOK, LocalsOf, LoadLog, shared, local, history, Goto, Return, Known, Idle, Handling, Messages
  <2>4. Known \subseteq Known' /\ (rooms \subseteq Known)'
    BY <1>12, <2>0, UserLemma, NoneAssumption DEF TypeOK, LocalsOf, LoadLog, shared, local, history, Known
  <2>5. pc' = [pc EXCEPT ![c] = pc'[c]] /\ self' = [self EXCEPT ![c] = self'[c]]
    BY <1>12 DEF TypeOK, LoadLog, local, Goto, Return
  <2>6. QED
    BY <2>1, <2>2, <2>3, <2>4, <2>5, LocalsLemma DEF Shape
<1>13. ASSUME NEW c \in Conns, StoreLog(c) PROVE Shape'
  <2>0. LocalsOf(c)
    BY DEF Locals
  <2>1. frame' \in [Conns -> Frames] /\ frame' = [frame EXCEPT ![c] = frame'[c]]
    BY <1>13, <2>0, BagLemma, UserLemma, FrameLemma DEF TypeOK, StoreLog, local, LocalsOf, Handling, Known, Return
  <2>a. lost' \in SUBSET RoomIds
    BY <1>13, <2>0, LosesLemma DEF TypeOK, StoreLog, LocalsOf, Handling, Known
  <2>2. TypeOK'
    BY <1>13, <2>0, <2>1, <2>a, BagLemma, UserLemma, FrameTypes DEF TypeOK, StoreLog, shared, local, history, Goto, Return, Labels, LocalsOf, Handling, Known
  <2>3. LocalsOf(c)'
    BY <1>13, <2>0, FieldLemma, UserLemma, NoneAssumption DEF TypeOK, LocalsOf, StoreLog, shared, local, history, Goto, Return, Known, Idle, Handling, Messages
  <2>4. Known \subseteq Known' /\ (rooms \subseteq Known)'
    BY <1>13, <2>0, UserLemma, NoneAssumption DEF TypeOK, LocalsOf, StoreLog, shared, local, history, Known
  <2>5. pc' = [pc EXCEPT ![c] = pc'[c]] /\ self' = [self EXCEPT ![c] = self'[c]]
    BY <1>13 DEF TypeOK, StoreLog, local, Goto, Return
  <2>6. QED
    BY <2>1, <2>2, <2>3, <2>4, <2>5, LocalsLemma DEF Shape
<1>14. ASSUME NEW c \in Conns, Load(c) PROVE Shape'
  <2>0. LocalsOf(c)
    BY DEF Locals
  <2>1. frame' \in [Conns -> Frames] /\ frame' = [frame EXCEPT ![c] = frame'[c]]
    BY <1>14, <2>0, BagLemma, UserLemma, FrameLemma DEF TypeOK, Load, local, LocalsOf, Handling, Known, Return
  <2>2. TypeOK'
    BY <1>14, <2>0, <2>1, BagLemma, UserLemma DEF TypeOK, Load, shared, local, history, Goto, Return, Labels, LocalsOf, Handling, Known
  <2>3. LocalsOf(c)'
    BY <1>14, <2>0, FieldLemma, UserLemma, NoneAssumption DEF TypeOK, LocalsOf, Load, shared, local, history, Goto, Return, Known, Idle, Handling, Messages
  <2>4. Known \subseteq Known' /\ (rooms \subseteq Known)'
    BY <1>14, <2>0, UserLemma, NoneAssumption DEF TypeOK, LocalsOf, Load, shared, local, history, Known
  <2>5. pc' = [pc EXCEPT ![c] = pc'[c]] /\ self' = [self EXCEPT ![c] = self'[c]]
    BY <1>14 DEF TypeOK, Load, local, Goto, Return
  <2>6. QED
    BY <2>1, <2>2, <2>3, <2>4, <2>5, LocalsLemma DEF Shape
<1>15. ASSUME NEW c \in Conns, StoreJoin(c) PROVE Shape'
  <2>0. /\ LocalsOf(c) /\ self[c] \in RealUser /\ frame[c].room \in RoomIds
        /\ frame[c] \in Frames
    BY <1>15 DEF Locals, LocalsOf, StoreJoin, Handling, Known, TypeOK
  <2>1. JoinToRoom(c) \in Bag /\ self[c].peer \in PeerIds
    BY <2>0, FrameTypes, BagLemma, UserLemma DEF JoinToRoom
  <2>2. /\ frame' \in [Conns -> Frames] /\ frame' = [frame EXCEPT ![c] = frame'[c]]
        /\ pc' \in [Conns -> Labels] /\ pc' = [pc EXCEPT ![c] = pc'[c]]
        /\ unannounced' \in SUBSET RoomIds
    <3>1. CASE Return(c) /\ unannounced' = unannounced \cup {frame[c].room}
      BY <2>0, <3>1, FrameLemma DEF TypeOK, Return, Goto, Labels
    <3>2. CASE Goto(c, "start") /\ UNCHANGED <<unannounced, frame>>
      BY <3>2 DEF TypeOK, Goto, Labels
    <3>3. QED
      BY <1>15, <3>1, <3>2 DEF StoreJoin
  <2>a. lost' \in SUBSET RoomIds
    BY <1>15, <2>0, LosesLemma DEF TypeOK, StoreJoin
  <2>3. TypeOK'
    BY <1>15, <2>0, <2>1, <2>2, <2>a DEF StoreJoin, TypeOK
  <2>4. LocalsOf(c)'
    BY <1>15, <2>0, NoneAssumption
       DEF StoreJoin, TypeOK, LocalsOf, Goto, Return, Known, Idle, Handling, Messages
  <2>5. QED
    BY SMTT(60), <1>15, <2>2, <2>3, <2>4, LocalsLemma DEF StoreJoin, Shape, Known, TypeOK
<1>16. ASSUME NEW c \in Conns, StoreLeave(c) PROVE Shape'
  <2>0. LocalsOf(c)
    BY DEF Locals
  <2>1. frame' \in [Conns -> Frames] /\ frame' = [frame EXCEPT ![c] = frame'[c]]
    BY <1>16, <2>0, BagLemma, UserLemma, FrameLemma DEF TypeOK, StoreLeave, local, LocalsOf, Handling, Known, Return, LeaveRoom
  <2>a. lost' \in SUBSET RoomIds
    BY <1>16, <2>0, LosesLemma DEF TypeOK, StoreLeave, LocalsOf, Handling, Known
  <2>2. TypeOK'
    BY <1>16, <2>0, <2>1, <2>a, BagLemma, UserLemma, FrameTypes DEF TypeOK, StoreLeave, shared, local, history, Goto, Return, Labels, LocalsOf, Handling, Known, LeaveRoom
  <2>3. LocalsOf(c)'
    BY <1>16, <2>0, FieldLemma, UserLemma, NoneAssumption DEF TypeOK, LocalsOf, StoreLeave, shared, local, history, Goto, Return, Known, Idle, Handling, Messages, LeaveRoom
  <2>4. Known \subseteq Known' /\ (rooms \subseteq Known)'
    BY <1>16, <2>0, UserLemma, NoneAssumption DEF TypeOK, LocalsOf, StoreLeave, shared, local, history, Known, LeaveRoom
  <2>5. pc' = [pc EXCEPT ![c] = pc'[c]] /\ self' = [self EXCEPT ![c] = self'[c]]
    BY <1>16 DEF TypeOK, StoreLeave, local, Goto, Return, LeaveRoom
  <2>6. QED
    BY <2>1, <2>2, <2>3, <2>4, <2>5, LocalsLemma DEF Shape
<1>17. ASSUME NEW c \in Conns, StoreFake(c) PROVE Shape'
  <2>0. LocalsOf(c)
    BY DEF Locals
  <2>1. frame' \in [Conns -> Frames] /\ frame' = [frame EXCEPT ![c] = frame'[c]]
    BY <1>17, <2>0, BagLemma, UserLemma, FrameLemma DEF TypeOK, StoreFake, local, LocalsOf, Handling, Known, Return, AddFakeUser, RemoveFakeUser
  <2>a. lost' \in SUBSET RoomIds
    BY <1>17, <2>0, LosesLemma DEF TypeOK, StoreFake, LocalsOf, Handling, Known
  <2>2. TypeOK'
    BY <1>17, <2>0, <2>1, <2>a, BagLemma, UserLemma, FrameTypes DEF TypeOK, StoreFake, shared, local, history, Goto, Return, Labels, LocalsOf, Handling, Known, AddFakeUser, RemoveFakeUser
  <2>3. LocalsOf(c)'
    BY <1>17, <2>0, FieldLemma, UserLemma, NoneAssumption DEF TypeOK, LocalsOf, StoreFake, shared, local, history, Goto, Return, Known, Idle, Handling, Messages, AddFakeUser, RemoveFakeUser
  <2>4. Known \subseteq Known' /\ (rooms \subseteq Known)'
    BY <1>17, <2>0, UserLemma, NoneAssumption DEF TypeOK, LocalsOf, StoreFake, shared, local, history, Known, AddFakeUser, RemoveFakeUser
  <2>5. pc' = [pc EXCEPT ![c] = pc'[c]] /\ self' = [self EXCEPT ![c] = self'[c]]
    BY <1>17 DEF TypeOK, StoreFake, local, Goto, Return, AddFakeUser, RemoveFakeUser
  <2>6. QED
    BY <2>1, <2>2, <2>3, <2>4, <2>5, LocalsLemma DEF Shape
<1>18. ASSUME NEW c \in Conns, Check(c) PROVE Shape'
  <2>0. LocalsOf(c)
    BY DEF Locals
  <2>1. frame' \in [Conns -> Frames] /\ frame' = [frame EXCEPT ![c] = frame'[c]]
    <3>1. frame' = [frame EXCEPT ![c] = Idle] \/ frame' = frame
      BY <1>18 DEF Check, Panic
    <3>2. QED
      BY <3>1, FrameLemma DEF TypeOK
  <2>a. panicked' \in SUBSET Conns /\ pc' \in [Conns -> Labels]
    BY <1>18 DEF TypeOK, Check, Panic, Goto, Labels
  <2>2. TypeOK'
    BY <1>18, <2>0, <2>1, <2>a, BagLemma, UserLemma DEF TypeOK, Check, Panic, shared, local, history, Goto, Return, Labels, LocalsOf, Handling, Known
  <2>3. LocalsOf(c)'
    BY <1>18, <2>0, FieldLemma, UserLemma, NoneAssumption DEF TypeOK, LocalsOf, Check, Panic, shared, local, history, Goto, Return, Known, Idle, Handling, Messages
  <2>4. Known \subseteq Known' /\ (rooms \subseteq Known)'
    BY <1>18, <2>0, UserLemma, NoneAssumption DEF TypeOK, LocalsOf, Check, Panic, shared, local, history, Known
  <2>5. pc' = [pc EXCEPT ![c] = pc'[c]] /\ self' = [self EXCEPT ![c] = self'[c]]
    BY <1>18 DEF TypeOK, Check, Panic, local, Goto, Return
  <2>6. QED
    BY <2>1, <2>2, <2>3, <2>4, <2>5, LocalsLemma DEF Shape
<1>19. ASSUME NEW c \in Conns, Remove(c) PROVE Shape'
  <2>0. LocalsOf(c)
    BY DEF Locals
  <2>1. frame' \in [Conns -> Frames] /\ frame' = [frame EXCEPT ![c] = frame'[c]]
    <3>1. frame' = [frame EXCEPT ![c] = Idle]
      BY <1>19 DEF Remove, Return, Panic
    <3>2. QED
      BY <3>1, FrameLemma DEF TypeOK
  <2>a. lost' \in SUBSET RoomIds
    BY <1>19, <2>0, LosesLemma DEF TypeOK, Remove, LocalsOf, Handling, Known
  <2>2. TypeOK'
    BY <1>19, <2>0, <2>1, <2>a, BagLemma, UserLemma DEF TypeOK, Remove, Panic, shared, local, history, Goto, Return, Labels, LocalsOf, Handling, Known
  <2>3. LocalsOf(c)'
    BY <1>19, <2>0, FieldLemma, UserLemma, NoneAssumption DEF TypeOK, LocalsOf, Remove, Panic, shared, local, history, Goto, Return, Known, Idle, Handling, Messages
  <2>4. Known \subseteq Known' /\ (rooms \subseteq Known)'
    BY <1>19, <2>0, UserLemma, NoneAssumption DEF TypeOK, LocalsOf, Remove, Panic, shared, local, history, Known
  <2>5. pc' = [pc EXCEPT ![c] = pc'[c]] /\ self' = [self EXCEPT ![c] = self'[c]]
    BY <1>19 DEF TypeOK, Remove, Panic, local, Goto, Return
  <2>6. QED
    BY <2>1, <2>2, <2>3, <2>4, <2>5, LocalsLemma DEF Shape
<1>20. ASSUME NEW c \in Conns, Start(c) PROVE Shape'
  <2>0. /\ LocalsOf(c) /\ self[c] \in RealUser /\ frame[c].room \in Known
        /\ self[c].peer \in PeerIds
    BY <1>20, UserLemma DEF Locals, LocalsOf, Start, Handling
  <2>1. /\ frame' \in [Conns -> Frames] /\ frame' = [frame EXCEPT ![c] = frame'[c]]
        /\ pc' \in [Conns -> Labels] /\ pc' = [pc EXCEPT ![c] = pc'[c]]
        /\ unannounced' \in SUBSET RoomIds
    <3>1. CASE Return(c) /\ unannounced' = unannounced \cup {frame[c].room}
      BY <2>0, <3>1, FrameLemma DEF TypeOK, Return, Goto, Labels, Known
    <3>2. CASE Goto(c, "data") /\ UNCHANGED <<unannounced, frame>>
      BY <3>2 DEF TypeOK, Goto, Labels
    <3>3. QED
      BY <1>20, <3>1, <3>2 DEF Start
  <2>2. clients[owner[frame[c].room]] \in Conns \cup {None}
    BY <2>0 DEF TypeOK, Known
  <2>3. [kind |-> "start", room |-> frame[c].room, from |-> self[c].peer,
         text |-> None] \in Out
    BY <2>0 DEF Out, Known
  <2>4. inbox' \in [Conns -> SUBSET Out]
    BY <1>20, <2>2, <2>3, ReceiveLemma DEF Start, TypeOK
  <2>5. TypeOK'
    BY <1>20, <2>1, <2>4 DEF Start, TypeOK, shared
  <2>6. LocalsOf(c)'
    BY <1>20, <2>0, NoneAssumption
       DEF Start, TypeOK, LocalsOf, Goto, Return, Known, Idle, Handling, Messages, shared
  <2>7. QED
    BY <1>20, <2>1, <2>5, <2>6, LocalsLemma DEF Start, Shape, Known, TypeOK, shared
<1>21. ASSUME NEW c \in Conns, Data(c) PROVE Shape'
  <2>0. LocalsOf(c)
    BY DEF Locals
  <2>1. frame' \in [Conns -> Frames] /\ frame' = [frame EXCEPT ![c] = frame'[c]]
    BY <1>21, <2>0, BagLemma, UserLemma, FrameLemma DEF TypeOK, Data, local, LocalsOf, Handling, Known, Return, Recipients
  <2>2. TypeOK'
    BY <1>21, <2>0, <2>1, BagLemma, UserLemma DEF TypeOK, Data, shared, local, history, Goto, Return, Labels, LocalsOf, Handling, Known, Recipients
  <2>3. LocalsOf(c)'
    BY <1>21, <2>0, FieldLemma, UserLemma, NoneAssumption DEF TypeOK, LocalsOf, Data, shared, local, history, Goto, Return, Known, Idle, Handling, Messages, Recipients
  <2>4. Known \subseteq Known' /\ (rooms \subseteq Known)'
    BY <1>21, <2>0, UserLemma, NoneAssumption DEF TypeOK, LocalsOf, Data, shared, local, history, Known, Recipients
  <2>5. pc' = [pc EXCEPT ![c] = pc'[c]] /\ self' = [self EXCEPT ![c] = self'[c]]
    BY <1>21 DEF TypeOK, Data, local, Goto, Return, Recipients
  <2>6. QED
    BY <2>1, <2>2, <2>3, <2>4, <2>5, LocalsLemma DEF Shape
<1>22. ASSUME NEW c \in Conns, Send(c) PROVE Shape'
  <2>0. /\ LocalsOf(c) /\ frame[c].room \in RoomIds /\ frame[c] \in Frames
        /\ frame[c].seen \in Bag /\ frame[c].todo \in Bag
    BY <1>22, FrameTypes DEF Locals, LocalsOf, Send, Handling, Known, TypeOK
  <2> DEFINE r == frame[c].room
             text == [kind |-> "text", room |-> r, from |-> None, text |-> frame[c].arg]
             update == [kind |-> "update", room |-> r, from |-> None, text |-> None]
  <2>1. PICK u \in User :
          /\ frame[c].todo[u] > 0 /\ Served(c, u)
          /\ \/ frame[c].op = "text" /\ Receive(clients[u.peer], text) /\ UNCHANGED roster
             \/ Receive(clients[u.peer], update) /\ ShowRoster(clients[u.peer], r, frame[c].seen)
    BY <1>22 DEF Send
  <2>2. clients[u.peer] \in Conns \cup {None}
    BY UserLemma DEF TypeOK
  <2>3. update \in Out /\ (frame[c].op = "text" => text \in Out)
    BY <2>0 DEF Out, LocalsOf
  <2> HIDE DEF text, update
  <2>4. inbox' \in [Conns -> SUBSET Out]
    BY <2>1, <2>2, <2>3, ReceiveLemma
  <2>5. roster' \in [Conns -> [RoomIds -> Bag \cup {None}]]
    BY <2>0, <2>1, <2>2, ShowRosterLemma DEF TypeOK
  <2>6. [frame[c].todo EXCEPT ![u] = @ - 1] \in Bag
    BY <2>0, <2>1, BagLemma
  <2>7. frame' = [frame EXCEPT ![c] = [frame[c] EXCEPT
                                         !.todo = [frame[c].todo EXCEPT ![u] = @ - 1]]]
    BY <2>1 DEF Served
  <2>8. frame' \in [Conns -> Frames] /\ frame' = [frame EXCEPT ![c] = frame'[c]]
    BY <2>0, <2>6, <2>7, FrameLemma DEF TypeOK
  <2>a. overtaken' \in SUBSET RoomIds
    <3>1. overtaken' \in {overtaken, overtaken \cup {r}}
      BY <1>22 DEF Send
    <3>2. QED
      BY <2>0, <3>1 DEF TypeOK
  <2>9. TypeOK'
    BY <1>22, <2>4, <2>5, <2>8, <2>a DEF Send, TypeOK, shared
  <2>10. LocalsOf(c)'
    BY <1>22, <2>0, <2>7, FieldLemma DEF Send, TypeOK, LocalsOf, Known, shared
  <2>11. QED
    BY <1>22, <2>8, <2>9, <2>10, LocalsLemma DEF Send, Shape, Known, TypeOK, shared
<1>23. ASSUME NEW c \in Conns, Sent(c) PROVE Shape'
  <2>0. LocalsOf(c)
    BY DEF Locals
  <2>1. frame' \in [Conns -> Frames] /\ frame' = [frame EXCEPT ![c] = frame'[c]]
    BY <1>23, <2>0, BagLemma, UserLemma, FrameLemma DEF TypeOK, Sent, local, LocalsOf, Handling, Known, Return
  <2>2. TypeOK'
    BY <1>23, <2>0, <2>1, BagLemma, UserLemma DEF TypeOK, Sent, shared, local, history, Goto, Return, Labels, LocalsOf, Handling, Known
  <2>3. LocalsOf(c)'
    BY <1>23, <2>0, FieldLemma, UserLemma, NoneAssumption DEF TypeOK, LocalsOf, Sent, shared, local, history, Goto, Return, Known, Idle, Handling, Messages
  <2>4. Known \subseteq Known' /\ (rooms \subseteq Known)'
    BY <1>23, <2>0, UserLemma, NoneAssumption DEF TypeOK, LocalsOf, Sent, shared, local, history, Known
  <2>5. pc' = [pc EXCEPT ![c] = pc'[c]] /\ self' = [self EXCEPT ![c] = self'[c]]
    BY <1>23 DEF TypeOK, Sent, local, Goto, Return
  <2>6. QED
    BY <2>1, <2>2, <2>3, <2>4, <2>5, LocalsLemma DEF Shape
<1>24. ASSUME NEW c \in Conns, Relay(c) PROVE Shape'
  <2>0. LocalsOf(c)
    BY DEF Locals
  <2>1. frame' \in [Conns -> Frames] /\ frame' = [frame EXCEPT ![c] = frame'[c]]
    BY <1>24, <2>0, BagLemma, UserLemma, FrameLemma DEF TypeOK, Relay, local, LocalsOf, Handling, Known, Return, Receive, Receives, Out
  <2>2. TypeOK'
    BY <1>24, <2>0, <2>1, BagLemma, UserLemma DEF TypeOK, Relay, shared, local, history, Goto, Return, Labels, LocalsOf, Handling, Known, Receive, Receives, Out
  <2>3. LocalsOf(c)'
    BY <1>24, <2>0, FieldLemma, UserLemma, NoneAssumption DEF TypeOK, LocalsOf, Relay, shared, local, history, Goto, Return, Known, Idle, Handling, Messages, Receive, Receives, Out
  <2>4. Known \subseteq Known' /\ (rooms \subseteq Known)'
    BY <1>24, <2>0, UserLemma, NoneAssumption DEF TypeOK, LocalsOf, Relay, shared, local, history, Known, Receive, Receives, Out
  <2>5. pc' = [pc EXCEPT ![c] = pc'[c]] /\ self' = [self EXCEPT ![c] = self'[c]]
    BY <1>24 DEF TypeOK, Relay, local, Goto, Return, Receive, Receives, Out
  <2>6. QED
    BY <2>1, <2>2, <2>3, <2>4, <2>5, LocalsLemma DEF Shape
<1>25. ASSUME NEW c \in Conns, Scan(c) PROVE Shape'
  <2>0. LocalsOf(c)
    BY DEF Locals
  <2>1. frame' \in [Conns -> Frames] /\ frame' = [frame EXCEPT ![c] = frame'[c]]
    BY <1>25, <2>0, BagLemma, UserLemma, FrameLemma DEF TypeOK, Scan, local, LocalsOf, Handling, Known, Return, GetUserRooms
  <2>2. TypeOK'
    BY <1>25, <2>0, <2>1, BagLemma, UserLemma DEF TypeOK, Scan, shared, local, history, Goto, Return, Labels, LocalsOf, Handling, Known, GetUserRooms
  <2>3. LocalsOf(c)'
    BY <1>25, <2>0, FieldLemma, UserLemma, NoneAssumption DEF TypeOK, LocalsOf, Scan, shared, local, history, Goto, Return, Known, Idle, Handling, Messages, GetUserRooms
  <2>4. Known \subseteq Known' /\ (rooms \subseteq Known)'
    BY <1>25, <2>0, UserLemma, NoneAssumption DEF TypeOK, LocalsOf, Scan, shared, local, history, Known, GetUserRooms
  <2>5. pc' = [pc EXCEPT ![c] = pc'[c]] /\ self' = [self EXCEPT ![c] = self'[c]]
    BY <1>25 DEF TypeOK, Scan, local, Goto, Return, GetUserRooms
  <2>6. QED
    BY <2>1, <2>2, <2>3, <2>4, <2>5, LocalsLemma DEF Shape
<1>26. ASSUME NEW c \in Conns, NextRoom(c) PROVE Shape'
  <2>0. LocalsOf(c) /\ self[c] \in RealUser /\ frame[c] \in Frames
    BY <1>26 DEF Locals, LocalsOf, NextRoom, TypeOK
  <2>1. CASE frame[c].left = {} /\ Return(c)
    <3>1. TypeOK'
      BY <1>26, <2>1, FrameLemma DEF TypeOK, NextRoom, Return, Goto, Labels, shared, history
    <3>2. LocalsOf(c)'
      BY <1>26, <2>0, <2>1, NoneAssumption
         DEF NextRoom, TypeOK, LocalsOf, Return, Goto, Known, Idle, Handling, Messages, shared
    <3>3. QED
      BY ZenonT(60), <1>26, <2>1, <3>1, <3>2, LocalsLemma
         DEF NextRoom, TypeOK, Return, Goto, Known, Shape, shared
  <2>2. ASSUME NEW r \in frame[c].left,
               frame' = [frame EXCEPT ![c] = [Request("close", r, None) EXCEPT
                                                !.left = frame[c].left \ {r}]],
               Goto(c, "find")
        PROVE  Shape'
    <3> DEFINE f == Request("close", r, None)
               g == [f EXCEPT !.left = frame[c].left \ {r}]
    <3>1. r \in Known /\ frame[c].left \subseteq Known /\ f \in Frames
      BY <2>0, FrameLemma DEF LocalsOf, Known, Arg
    <3>2. g \in Frames
      <4>1. frame[c].left \ {r} \in SUBSET RoomIds
        BY <3>1 DEF Known
      <4>2. QED
        BY <3>1, <4>1, FrameLemma
    <3>3. f.op = "close" /\ f.room = r
      BY RequestFields
    <3>4. g.op = "close" /\ g.room = r /\ g.left = frame[c].left \ {r}
      BY <3>1, <3>3, FieldLemma
    <3> HIDE DEF f, g
    <3>5. frame'[c] = g /\ frame' = [frame EXCEPT ![c] = g]
      BY <2>2 DEF TypeOK, f, g
    <3>6. TypeOK'
      BY <1>26, <2>2, <3>2, <3>5 DEF TypeOK, NextRoom, Goto, Labels, shared, history
    <3>7. LocalsOf(c)'
      BY <1>26, <2>0, <2>2, <3>1, <3>4, <3>5
         DEF NextRoom, TypeOK, LocalsOf, Goto, Known, Handling, shared
    <3>8. QED
      BY <1>26, <2>2, <3>5, <3>6, <3>7, LocalsLemma
         DEF NextRoom, TypeOK, Goto, Known, Shape, shared
  <2>3. QED
    BY <1>26, <2>1, <2>2 DEF NextRoom
<1>27. CASE Restart
  <2>1. TypeOK'
    BY <1>27, FrameLemma DEF TypeOK, Restart, history, Labels
  <2>2. Locals'
    BY <1>27, NoneAssumption DEF Locals, LocalsOf, Restart, history, Idle, Messages, Handling
  <2>3. QED
    BY <1>27, <2>1, <2>2 DEF Restart, Known, Shape
<1>28. CASE UNCHANGED vars
  BY <1>28 DEF vars, shared, local, history, TypeOK, Locals, LocalsOf, Known, Shape
<1>29. QED
  BY <1>1, <1>2, <1>3, <1>4, <1>5, <1>6, <1>7, <1>8, <1>9, <1>10, <1>11, <1>12, <1>13, <1>14, <1>15, <1>16, <1>17, <1>18, <1>19, <1>20, <1>21, <1>22, <1>23, <1>24, <1>25, <1>26, <1>27, <1>28 DEF Next, Fatal, Terminate, Work, Client,
     Terminated

-----------------------------------------------------------------------------
(* The handlers and the clients map. *)

\* Steps of the read loop and of the handlers.
Handler(c) ==
  \/ ReadMessage(c) \/ ReadError(c)
  \/ Create(c) \/ Created(c)
  \/ Find(c) \/ LoadLog(c) \/ StoreLog(c)
  \/ Load(c) \/ StoreJoin(c) \/ StoreLeave(c) \/ StoreFake(c)
  \/ Check(c) \/ Remove(c) \/ Start(c)
  \/ Data(c) \/ Send(c) \/ Sent(c) \/ Relay(c)
  \/ Scan(c) \/ NextRoom(c)

\* They touch neither the clients map nor `user', and stay in the loop.
LEMMA HandlerLemma ==
  ASSUME Shape, NEW c \in Conns, Handler(c)
  PROVE  /\ UNCHANGED <<clients, self>>
         /\ pc' = [pc EXCEPT ![c] = pc'[c]]
         /\ pc[c] \notin {"new", "register", "done"}
         /\ pc'[c] \notin {"new", "register", "done"}
<1> USE DEF Shape, TypeOK, Goto, Return, shared, local, history
<1>1. CASE ReadError(c) \/ Create(c) \/ Created(c)
  BY <1>1 DEF ReadError, Create, Created
<1>2. CASE Find(c) \/ LoadLog(c) \/ StoreLog(c) \/ Load(c)
  BY <1>2 DEF Find, LoadLog, StoreLog, Load
<1>3. CASE StoreJoin(c) \/ StoreLeave(c) \/ StoreFake(c)
  BY <1>3 DEF StoreJoin, StoreLeave, StoreFake
<1>4. CASE Check(c) \/ Remove(c) \/ Start(c) \/ Data(c)
  BY <1>4 DEF Check, Panic, Remove, Start, Data
<1>5. CASE Send(c) \/ Sent(c) \/ Relay(c) \/ Scan(c)
  BY <1>5 DEF Send, Sent, Relay, Scan
<1>6. CASE NextRoom(c)
  BY <1>6 DEF NextRoom
<1>7. CASE ReadMessage(c)
  <2>1. UNCHANGED <<clients, self>> /\ pc[c] = "read"
    BY <1>7 DEF ReadMessage
  <2>2. PICK op \in Ops : Goto(c, IF op \in {"create", "relay"} THEN op ELSE "find")
    BY <1>7 DEF ReadMessage
  <2>3. QED
    BY <2>1, <2>2
<1>8. QED
  BY <1>1, <1>2, <1>3, <1>4, <1>5, <1>6, <1>7 DEF Handler

\* The clients map, and that no entry is ever made for the empty socket id.
Registry == clients[NoPeer] = None /\ RegistryExact

LEMMA NoneLemma == None \notin RealUser
BY NoneAssumption

LEMMA RegistryInit == Init => Registry
BY DEF Init, Registry, RegistryExact, Serving

LEMMA RegistryNext == Shape /\ Registry /\ [Next]_vars => Registry'
<1> SUFFICES ASSUME Shape, Registry, [Next]_vars PROVE Registry'
  OBVIOUS
<1> USE DEF Registry, RegistryExact, Serving, Admitted
<1>1. ASSUME NEW c \in Conns, Accept(c) PROVE Registry'
  <2>1. /\ UNCHANGED clients /\ \A d \in Conns \ {c} : pc'[d] = pc[d] /\ self'[d] = self[d]
        /\ pc[c] = "new" /\ pc'[c] \in {"register", "done"}
    BY <1>1 DEF Accept, Goto, shared, Shape, TypeOK
  <2>2. \A d \in Conns : Serving(d) => self[d] \in RealUser /\ d # c
    BY <2>1 DEF Shape, Locals, LocalsOf
  <2>3. \A p \in PeerIds \cup {NoPeer} : clients[p] \in Conns \cup {None}
    BY DEF Shape, TypeOK
  <2>4. ASSUME NEW p \in PeerIds \cup {NoPeer}, clients'[p] # None
        PROVE  Serving(clients[p])' /\ self'[clients'[p]].peer = p
    <3>1. clients[p] \in Conns /\ Serving(clients[p]) /\ self[clients[p]].peer = p
      BY <2>1, <2>3, <2>4
    <3>2. QED
      BY <2>1, <2>2, <3>1
  <2>5. ASSUME NEW e \in Conns, Serving(e)',
               \A d \in Admitted' \ {e} : self'[d].peer # self'[e].peer
        PROVE  clients'[self'[e].peer] = e
    <3>1. e # c /\ Serving(e) /\ pc[c] = "new"
      BY <2>1, <2>5
    <3>2. ASSUME NEW d \in Admitted, d # e PROVE self[d].peer # self[e].peer
      <4>1. d # c
        BY <3>1 DEF Shape, Locals, LocalsOf
      <4>2. self'[d] = self[d] /\ self'[e] = self[e]
        BY <2>1, <3>1, <4>1
      <4>3. d \in Admitted'
        BY <3>2, <4>2
      <4>4. QED
        BY <2>5, <3>2, <4>2, <4>3
    <3>3. QED
      BY <2>1, <3>1, <3>2
  <2>6. QED
    BY <2>1, <2>4, <2>5
<1>2. ASSUME NEW c \in Conns, Register(c) PROVE Registry'
  <2>1. self[c] \in RealUser /\ self[c].peer \in PeerIds
    BY <1>2, UserLemma DEF Shape, Locals, LocalsOf, Register
  <2>2. /\ UNCHANGED self /\ pc' = [pc EXCEPT ![c] = "read"] /\ pc[c] = "register"
        /\ clients' = [clients EXCEPT ![self[c].peer] = c]
    BY <1>2 DEF Register, Goto
  <2>3. clients'[NoPeer] = None
    BY <2>1, <2>2, NoPeerAssumption DEF Shape, TypeOK
  <2>4. ASSUME NEW p \in PeerIds \cup {NoPeer}, clients'[p] # None
        PROVE  Serving(clients[p])' /\ self'[clients'[p]].peer = p
    BY <2>1, <2>2, <2>4 DEF Shape, TypeOK
  <2>5. ASSUME NEW e \in Conns, Serving(e)',
               \A d \in Admitted' \ {e} : self'[d].peer # self'[e].peer
        PROVE  clients'[self'[e].peer] = e
    <3>1. CASE e = c
      BY <2>1, <2>2, <3>1 DEF Shape, TypeOK
    <3>2. CASE e # c
      <4>1. self[e].peer # self[c].peer
        BY <2>1, <2>2, <2>5, <3>2, NoneLemma
      <4>2. Serving(e) /\ self[e] \in RealUser /\ self[e].peer \in PeerIds
        BY <2>2, <2>5, <3>2, UserLemma DEF Shape, TypeOK, Locals, LocalsOf
      <4>3. QED
        BY <2>1, <2>2, <2>5, <4>1, <4>2 DEF Shape, TypeOK
    <3>3. QED
      BY <3>1, <3>2
  <2>6. QED
    BY <2>3, <2>4, <2>5
<1>3. ASSUME NEW c \in Conns, Defer(c) PROVE Registry'
  <2>1. self[c] \in RealUser /\ self[c].peer \in PeerIds
    BY <1>3, UserLemma DEF Shape, Locals, LocalsOf, Defer
  <2>2. /\ UNCHANGED self /\ pc' = [pc EXCEPT ![c] = "done"]
        /\ clients' = [clients EXCEPT ![self[c].peer] = None]
    BY <1>3 DEF Defer, Goto
  <2>3. clients'[NoPeer] = None
    BY <2>1, <2>2, NoPeerAssumption DEF Shape, TypeOK
  <2>4. ASSUME NEW p \in PeerIds \cup {NoPeer}, clients'[p] # None
        PROVE  Serving(clients[p])' /\ self'[clients'[p]].peer = p
    <3>1. p # self[c].peer /\ clients'[p] = clients[p]
      BY <2>1, <2>2, <2>4 DEF Shape, TypeOK
    <3>2. clients[p] \in Conns /\ Serving(clients[p]) /\ self[clients[p]].peer = p
      BY <2>4, <3>1 DEF Shape, TypeOK
    <3>3. clients[p] # c
      BY <3>1, <3>2
    <3>4. QED
      BY <2>2, <3>1, <3>2, <3>3 DEF Shape, TypeOK
  <2>5. ASSUME NEW e \in Conns, Serving(e)',
               \A d \in Admitted' \ {e} : self'[d].peer # self'[e].peer
        PROVE  clients'[self'[e].peer] = e
    <3>1. e # c
      BY <2>2, <2>5 DEF Shape, TypeOK
    <3>2. self[e].peer # self[c].peer
      BY <2>1, <2>2, <2>5, <3>1, NoneLemma
    <3>3. Serving(e) /\ self[e] \in RealUser /\ self[e].peer \in PeerIds
      BY <2>2, <2>5, <3>1, UserLemma DEF Shape, TypeOK, Locals, LocalsOf
    <3>4. QED
      BY <2>1, <2>2, <2>5, <3>2, <3>3 DEF Shape, TypeOK
  <2>6. QED
    BY <2>3, <2>4, <2>5
<1>4. ASSUME NEW c \in Conns, Handler(c) PROVE Registry'
  <2>1. \A d \in Conns : pc'[d] \in {"new", "register", "done"} <=> pc[d] \in {"new", "register", "done"}
    BY <1>4, HandlerLemma DEF Shape, TypeOK
  <2>2. UNCHANGED <<clients, self>>
    BY <1>4, HandlerLemma
  <2>3. QED
    BY <2>1, <2>2 DEF Shape, TypeOK
<1>5. ASSUME NEW c \in Conns, Hangup(c) \/ Stall(c) \/ Resume(c) PROVE Registry'
  BY <1>5 DEF Hangup, Stall, Resume, shared, local
<1>6. CASE Restart
  BY <1>6 DEF Restart
<1>7. CASE UNCHANGED vars
  BY <1>7 DEF vars, shared, local
<1>8. QED
  BY <1>1, <1>2, <1>3, <1>4, <1>5, <1>6, <1>7
     DEF Next, Fatal, Terminate, Work, Client, Handler, Terminated

\* Steps that change neither a room nor the way to its removal.
Calm(c) ==
  \/ Accept(c) \/ Register(c) \/ ReadMessage(c) \/ ReadError(c) \/ Defer(c)
  \/ Created(c) \/ Find(c) \/ LoadLog(c) \/ StoreLog(c) \/ Load(c) \/ Start(c)
  \/ Data(c) \/ Send(c) \/ Sent(c) \/ Relay(c) \/ Scan(c)
  \/ NextRoom(c)

LEMMA CalmLemma ==
  ASSUME Shape, NEW c \in Conns, Calm(c)
  PROVE  /\ UNCHANGED <<rooms, owner, users, drained>>
         /\ pc[c] \notin {"check", "remove"}
         /\ pc' = [pc EXCEPT ![c] = pc'[c]]
         /\ frame' = [frame EXCEPT ![c] = frame'[c]]
<1> USE DEF Shape, TypeOK, Goto, Return, shared, local, history
<1>1. CASE Accept(c) \/ Register(c)
  BY <1>1 DEF Accept, Register
<1>2. CASE ReadError(c) \/ Defer(c) \/ Created(c) \/ Find(c) \/ LoadLog(c) \/ StoreLog(c)
  BY <1>2 DEF ReadError, Defer, Created, Find, LoadLog, StoreLog
<1>3. CASE Load(c) \/ Start(c) \/ Data(c) \/ Sent(c) \/ Relay(c) \/ Scan(c)
  BY <1>3 DEF Load, Start, Data, Sent, Relay, Scan
<1>4. CASE Send(c)
  <2>1. PICK u \in User : Served(c, u)
    BY <1>4 DEF Send
  <2>2. QED
    BY <1>4, <2>1 DEF Send, Served
<1>5. CASE NextRoom(c)
  BY <1>5 DEF NextRoom
<1>6. CASE ReadMessage(c)
  <2>1. UNCHANGED <<rooms, owner, users, drained>> /\ pc[c] = "read"
    BY <1>6 DEF ReadMessage
  <2>2. PICK op \in Ops : \E request \in Requests(c)[op] :
          /\ frame' = [frame EXCEPT ![c] = request]
          /\ Goto(c, IF op \in {"create", "relay"} THEN op ELSE "find")
    BY <1>6 DEF ReadMessage
  <2>3. QED
    BY <2>1, <2>2
<1>7. QED
  BY <1>1, <1>2, <1>3, <1>4, <1>5, <1>6 DEF Calm

\* A room that is empty but still in the map, and the goroutine that will
\* remove it.
Removing(c, r) == pc[c] \in {"check", "remove"} /\ frame[c].room = r

LEMMA EmptyRoomLemma ==
  ASSUME Shape, NoEmptyRoom, UNCHANGED <<rooms, users, drained>>,
         NEW c \in Conns, pc[c] \notin {"check", "remove"},
         pc' = [pc EXCEPT ![c] = pc'[c]], frame' = [frame EXCEPT ![c] = frame'[c]]
  PROVE  NoEmptyRoom'
<1>1. \A d \in Conns, r \in RoomIds : Removing(d, r) => Removing(d, r)'
  BY DEF Shape, TypeOK, Removing
<1>2. QED
  BY SMTT(60), <1>1 DEF NoEmptyRoom, Removing, Shape, TypeOK

LEMMA AppendLemma ==
  \A b \in Bag, u \in User : AppendUser(b, u) # EmptyBag
<1> SUFFICES ASSUME NEW b \in Bag, NEW u \in User PROVE AppendUser(b, u) # EmptyBag
  OBVIOUS
<1>1. AppendUser(b, u)[u] = b[u] + 1 /\ b[u] \in Nat
  BY DEF AppendUser, Bag
<1>2. EmptyBag[u] = 0
  BY DEF EmptyBag
<1>3. QED
  BY <1>1, <1>2

LEMMA NoEmptyRoomNext == Shape /\ NoEmptyRoom /\ [Next]_vars => NoEmptyRoom'
<1> SUFFICES ASSUME Shape, NoEmptyRoom, [Next]_vars PROVE NoEmptyRoom'
  OBVIOUS
<1>1. ASSUME NEW c \in Conns, Create(c) PROVE NoEmptyRoom'
  <2>1. pc[c] = "create" /\ self[c] \in User /\ UNCHANGED drained
    BY <1>1, UserLemma DEF Create, Shape, Locals, LocalsOf
  <2>2. CASE UNCHANGED <<rooms, owner, users, joined, mine>> /\ Return(c)
    BY <2>1, <2>2, EmptyRoomLemma DEF Return, Goto, Shape, TypeOK
  <2>3. ASSUME NEW r \in RoomIds, rooms' = rooms \cup {r},
               users' = [users EXCEPT ![r] = AppendUser(EmptyBag, self[c])],
               frame' = [frame EXCEPT ![c].room = r], Goto(c, "created")
        PROVE  NoEmptyRoom'
    <3>1. users'[r] # EmptyBag
      BY <2>1, <2>3, BagLemma, AppendLemma DEF Shape, TypeOK
    <3>2. \A d \in Conns, q \in RoomIds : Removing(d, q) => Removing(d, q)'
      BY <2>1, <2>3 DEF Shape, TypeOK, Removing, Goto
    <3>3. QED
      BY SMTT(60), <2>1, <2>3, <3>1, <3>2 DEF NoEmptyRoom, Removing, Shape, TypeOK
  <2>4. QED
    BY <1>1, <2>2, <2>3 DEF Create
<1>2. ASSUME NEW c \in Conns, StoreJoin(c) PROVE NoEmptyRoom'
  <2>1. /\ pc[c] = "store" /\ self[c] \in User /\ frame[c].seen \in Bag
        /\ frame[c].room \in RoomIds /\ UNCHANGED <<rooms, drained>>
    BY <1>2, UserLemma, FrameTypes
       DEF StoreJoin, Shape, TypeOK, Locals, LocalsOf, Handling, Known
  <2>2. JoinToRoom(c) # EmptyBag
    BY <2>1, AppendLemma DEF JoinToRoom
  <2>3. \A d \in Conns, q \in RoomIds : Removing(d, q) => Removing(d, q)'
    BY <1>2, <2>1 DEF StoreJoin, Shape, TypeOK, Removing, Goto, Return
  <2>4. users' = [users EXCEPT ![frame[c].room] = JoinToRoom(c)]
    BY <1>2 DEF StoreJoin
  <2>5. QED
    BY SMTT(60), <2>1, <2>2, <2>3, <2>4 DEF NoEmptyRoom, Removing, Shape, TypeOK
<1>3. ASSUME NEW c \in Conns, StoreLeave(c) PROVE NoEmptyRoom'
  <2>1. /\ pc[c] = "store" /\ frame[c].room \in RoomIds
        /\ UNCHANGED <<rooms, drained, frame>> /\ pc' = [pc EXCEPT ![c] = "check"]
        /\ users' = [users EXCEPT ![frame[c].room] = LeaveRoom(c)]
    BY <1>3 DEF StoreLeave, Shape, TypeOK, Locals, LocalsOf, Handling, Known, Goto
  <2>2. \A d \in Conns, q \in RoomIds : Removing(d, q) => Removing(d, q)'
    BY <2>1 DEF Shape, TypeOK, Removing
  <2>3. Removing(c, frame[c].room)'
    BY <2>1 DEF Shape, TypeOK, Removing
  <2>4. QED
    BY <2>1, <2>2, <2>3 DEF NoEmptyRoom, Removing, Shape, TypeOK
<1>4. ASSUME NEW c \in Conns, StoreFake(c) PROVE NoEmptyRoom'
  <2>1. /\ pc[c] = "store" /\ frame[c].room \in RoomIds
        /\ UNCHANGED <<rooms, frame>> /\ pc' = [pc EXCEPT ![c] = "data"]
        /\ drained \subseteq drained'
        /\ users'[frame[c].room] = EmptyBag => frame[c].room \in drained'
        /\ \A q \in RoomIds \ {frame[c].room} : users'[q] = users[q]
    BY <1>4 DEF StoreFake, Shape, TypeOK, Locals, LocalsOf, Handling, Known, Goto
  <2>2. \A d \in Conns, q \in RoomIds : Removing(d, q) => Removing(d, q)'
    BY <2>1 DEF Shape, TypeOK, Removing
  <2>3. QED
    BY <2>1, <2>2 DEF NoEmptyRoom, Removing, Shape, TypeOK
<1>5. ASSUME NEW c \in Conns, Check(c) PROVE NoEmptyRoom'
  <2>1. UNCHANGED <<rooms, users, drained>> /\ pc[c] = "check" /\ frame[c].room \in RoomIds
    BY <1>5 DEF Check, Panic, shared, history, Shape, Locals, LocalsOf, Handling, Known
  <2>2. \A d \in Conns \ {c}, q \in RoomIds : Removing(d, q) => Removing(d, q)'
    BY <1>5 DEF Check, Panic, Shape, TypeOK, Removing, Goto
  <2>3. \A q \in rooms : users[q] = EmptyBag /\ Removing(c, q) => Removing(c, q)'
    BY <1>5, <2>1 DEF Check, Panic, Shape, TypeOK, Removing, Goto
  <2>4. QED
    BY <2>1, <2>2, <2>3 DEF NoEmptyRoom, Removing, Shape, TypeOK
<1>6. ASSUME NEW c \in Conns, Remove(c) PROVE NoEmptyRoom'
  <2>1. /\ UNCHANGED <<users, drained>> /\ rooms' = rooms \ {frame[c].room}
        /\ pc' = [pc EXCEPT ![c] = pc'[c]] /\ frame' = [frame EXCEPT ![c] = frame'[c]]
    BY <1>6 DEF Remove, Panic, history, Return, Goto, Shape, TypeOK
  <2>2. \A d \in Conns \ {c}, q \in RoomIds : Removing(d, q) => Removing(d, q)'
    BY <2>1 DEF Shape, TypeOK, Removing
  <2>3. \A q \in rooms' : ~Removing(c, q)
    BY <2>1 DEF Removing
  <2>4. QED
    BY <2>1, <2>2, <2>3 DEF NoEmptyRoom, Removing, Shape, TypeOK
<1>7. ASSUME NEW c \in Conns, Calm(c) PROVE NoEmptyRoom'
  BY <1>7, CalmLemma, EmptyRoomLemma
<1>8. CASE Restart
  BY <1>8 DEF Restart, NoEmptyRoom
<1>9. CASE UNCHANGED vars \/ \E c \in Conns : Hangup(c) \/ Stall(c) \/ Resume(c)
  BY <1>9 DEF vars, shared, local, history, NoEmptyRoom, Hangup, Stall, Resume
<1>10. QED
  BY <1>1, <1>2, <1>3, <1>4, <1>5, <1>6, <1>7, <1>8, <1>9
     DEF Next, Fatal, Terminate, Work, Client, Calm, Terminated

\* By what `in' says, every user of a bag was put into the room or is fake.
Entitled(b, r, in) ==
  \A u \in User : b[u] > 0 => u.peer = NoPeer \/ <<u.peer, r>> \in in

FrameConfined(c) ==
  /\ Entitled(frame[c].seen, frame[c].room, joined)
  /\ Entitled(frame[c].todo, frame[c].room, joined)
  /\ pc[c] = "create" => frame[c].seen = EmptyBag /\ frame[c].todo = EmptyBag
  /\ pc[c] = "created" => <<self[c].peer, frame[c].room>> \in joined

\* Slices name only users of their room, wherever they are kept: in the room, in
\* the locals of a goroutine that loaded them, in the loop that serves them.
Confined ==
  /\ \A r \in RoomIds : Entitled(users[r], r, joined)
  /\ \A r \in Known : <<owner[r], r>> \in joined
  /\ \A c \in Conns : FrameConfined(c)

LEMMA EntitledLemma ==
  ASSUME NEW b \in Bag, NEW r, NEW in
  PROVE  /\ Entitled(EmptyBag, r, in)
         /\ Entitled(b, r, in) =>
              /\ \A p : Entitled(WithoutPeer(b, p), r, in) /\ Entitled(WithoutId(b, p), r, in)
              /\ \A u \in User : Entitled([b EXCEPT ![u] = @ - 1], r, in)
              /\ \A u \in User : u.peer = NoPeer \/ <<u.peer, r>> \in in
                                   => Entitled(AppendUser(b, u), r, in)
              /\ \A more : in \subseteq more => Entitled(b, r, more)
<1>1. Entitled(EmptyBag, r, in)
  BY DEF Entitled, EmptyBag
<1> SUFFICES ASSUME Entitled(b, r, in)
             PROVE  /\ \A p : /\ Entitled(WithoutPeer(b, p), r, in)
                              /\ Entitled(WithoutId(b, p), r, in)
                    /\ \A u \in User : Entitled([b EXCEPT ![u] = @ - 1], r, in)
                    /\ \A u \in User : u.peer = NoPeer \/ <<u.peer, r>> \in in
                                         => Entitled(AppendUser(b, u), r, in)
                    /\ \A more : in \subseteq more => Entitled(b, r, more)
  BY <1>1
<1>2. \A p : Entitled(WithoutPeer(b, p), r, in) /\ Entitled(WithoutId(b, p), r, in)
  BY DEF Entitled, WithoutPeer, WithoutId, Bag
<1>3. \A u \in User : Entitled([b EXCEPT ![u] = @ - 1], r, in)
  BY DEF Entitled, Bag
<1>4. ASSUME NEW u \in User, u.peer = NoPeer \/ <<u.peer, r>> \in in
      PROVE  Entitled(AppendUser(b, u), r, in)
  BY <1>4 DEF Entitled, AppendUser, Bag
<1>5. \A more : in \subseteq more => Entitled(b, r, more)
  BY DEF Entitled
<1>6. QED
  BY <1>2, <1>3, <1>4, <1>5

\* A step of one goroutine keeps Confined when it confines what it writes.
LEMMA ConfinedLemma ==
  ASSUME Shape, Confined, NEW c \in Conns, joined \subseteq joined',
         self' = [self EXCEPT ![c] = self'[c]], pc' = [pc EXCEPT ![c] = pc'[c]],
         frame' = [frame EXCEPT ![c] = frame'[c]], FrameConfined(c)',
         \A r \in RoomIds : users'[r] = users[r] \/ Entitled(users'[r], r, joined'),
         \A r \in Known' : owner'[r] = owner[r] \/ <<owner'[r], r>> \in joined'
  PROVE  Confined'
<1>1. \A r \in RoomIds : Entitled(users[r], r, joined')
  BY EntitledLemma DEF Confined, Shape, TypeOK
<1>2. \A r \in Known' : <<owner'[r], r>> \in joined'
  BY DEF Confined, Known
<1>3. ASSUME NEW d \in Conns, d # c PROVE FrameConfined(d)'
  <2>1. pc'[d] = pc[d] /\ frame'[d] = frame[d] /\ self'[d] = self[d]
    BY <1>3 DEF Shape, TypeOK
  <2>2. FrameConfined(d) /\ frame[d].seen \in Bag /\ frame[d].todo \in Bag
    BY FrameTypes DEF Confined, Shape, TypeOK
  <2>3. Entitled(frame[d].seen, frame[d].room, joined')
    BY <2>2, EntitledLemma DEF FrameConfined
  <2>4. Entitled(frame[d].todo, frame[d].room, joined')
    BY <2>2, EntitledLemma DEF FrameConfined
  <2>5. QED
    BY <2>1, <2>2, <2>3, <2>4 DEF FrameConfined
<1>4. QED
  BY <1>1, <1>2, <1>3 DEF Confined

\* Most steps leave the slices of a goroutine alone or drop them.
LEMMA KeptFrameLemma ==
  ASSUME Shape, Confined, NEW c \in Conns, joined \subseteq joined',
         pc'[c] \notin {"create", "created"},
         \/ frame'[c] = Idle
         \/ /\ frame'[c].room = frame[c].room
            /\ frame'[c].seen \in {frame[c].seen, EmptyBag}
            /\ frame'[c].todo \in {frame[c].todo, EmptyBag}
  PROVE  FrameConfined(c)'
<1>1. /\ Entitled(frame[c].seen, frame[c].room, joined')
      /\ Entitled(frame[c].todo, frame[c].room, joined')
      /\ \A r : Entitled(EmptyBag, r, joined')
  <2>1. frame[c].seen \in Bag /\ frame[c].todo \in Bag /\ FrameConfined(c)
    BY FrameTypes DEF Shape, TypeOK, Confined
  <2>2. QED
    BY <2>1, BagLemma, EntitledLemma DEF FrameConfined
<1>2. Idle.seen = EmptyBag /\ Idle.todo = EmptyBag
  BY DEF Idle
<1>3. QED
  BY <1>1, <1>2 DEF FrameConfined

LEMMA RequestBags ==
  ASSUME NEW op, NEW r, NEW a
  PROVE  Request(op, r, a).seen = EmptyBag /\ Request(op, r, a).todo = EmptyBag
BY DEF Request, Idle

LEMMA ConfinedInit == Init => Confined
<1> SUFFICES ASSUME Init PROVE Confined
  OBVIOUS
<1>1. \A r : Entitled(EmptyBag, r, joined)
  BY BagLemma, EntitledLemma
<1>2. \A r \in RoomIds : users[r] = EmptyBag /\ owner[r] = None
  BY DEF Init
<1>3. \A c \in Conns : frame[c].seen = EmptyBag /\ frame[c].todo = EmptyBag /\ pc[c] = "new"
  BY DEF Init, Idle
<1>4. QED
  BY <1>1, <1>2, <1>3 DEF Confined, FrameConfined, Known

LEMMA ConfinedNext == Shape /\ Confined /\ [Next]_vars => Confined'
<1> SUFFICES ASSUME Shape, Confined, [Next]_vars PROVE Confined'
  OBVIOUS
<1>0. ASSUME NEW c \in Conns
      PROVE  /\ frame[c] \in Frames /\ FrameConfined(c) /\ LocalsOf(c)
             /\ frame[c].seen \in Bag /\ frame[c].todo \in Bag
             /\ \A r : Entitled(EmptyBag, r, joined)
  BY FrameTypes, BagLemma, EntitledLemma DEF Confined, Shape, TypeOK, Locals
<1>1. ASSUME NEW c \in Conns, Accept(c) \/ Register(c) \/ Defer(c)
      PROVE  Confined'
  <2>1. /\ UNCHANGED <<users, owner, joined>> /\ self' = [self EXCEPT ![c] = self'[c]]
        /\ pc' = [pc EXCEPT ![c] = pc'[c]] /\ frame' = [frame EXCEPT ![c] = frame'[c]]
        /\ pc'[c] \notin {"create", "created"}
    BY <1>1 DEF Accept, Register, Defer, Goto, local, Shape, TypeOK, shared, history
  <2>2. \/ frame'[c] = Idle
        \/ /\ frame'[c].room = frame[c].room
           /\ frame'[c].seen = frame[c].seen /\ frame'[c].todo = frame[c].todo
    BY <1>1, <1>0 DEF Accept, Register, Defer, Goto, local, Shape, TypeOK, shared, history
  <2>3. FrameConfined(c)'
    BY <2>1, <2>2, KeptFrameLemma
  <2>4. QED
    BY <2>1, <2>3, ConfinedLemma
<1>2. ASSUME NEW c \in Conns, Find(c) \/ Check(c) \/ Remove(c) \/ Start(c)
      PROVE  Confined'
  <2>1. /\ UNCHANGED <<users, owner, joined>> /\ self' = [self EXCEPT ![c] = self'[c]]
        /\ pc' = [pc EXCEPT ![c] = pc'[c]] /\ frame' = [frame EXCEPT ![c] = frame'[c]]
        /\ pc'[c] \notin {"create", "created"}
    BY <1>2 DEF Find, Check, Panic, Remove, Start, Goto, Return, Shape, TypeOK, shared, history
  <2>2. \/ frame'[c] = Idle
        \/ /\ frame'[c].room = frame[c].room
           /\ frame'[c].seen = frame[c].seen /\ frame'[c].todo = frame[c].todo
    BY <1>2, <1>0 DEF Find, Check, Panic, Remove, Start, Goto, Return, Shape, TypeOK, shared, history
  <2>3. FrameConfined(c)'
    BY <2>1, <2>2, KeptFrameLemma
  <2>4. QED
    BY <2>1, <2>3, ConfinedLemma
<1>3. ASSUME NEW c \in Conns, Created(c) \/ Relay(c) \/ Sent(c)
      PROVE  Confined'
  <2>1. /\ UNCHANGED <<users, owner, joined>> /\ self' = [self EXCEPT ![c] = self'[c]]
        /\ pc' = [pc EXCEPT ![c] = pc'[c]] /\ frame' = [frame EXCEPT ![c] = frame'[c]]
        /\ pc'[c] \notin {"create", "created"}
    BY <1>3 DEF Created, Relay, Sent, Goto, Return, Shape, TypeOK, shared, history
  <2>2. \/ frame'[c] = Idle
        \/ /\ frame'[c].room = frame[c].room
           /\ frame'[c].seen = frame[c].seen /\ frame'[c].todo = frame[c].todo
    BY <1>3, <1>0 DEF Created, Relay, Sent, Goto, Return, Shape, TypeOK, shared, history
  <2>3. FrameConfined(c)'
    BY <2>1, <2>2, KeptFrameLemma
  <2>4. QED
    BY <2>1, <2>3, ConfinedLemma
<1>4. ASSUME NEW c \in Conns, LoadLog(c) \/ StoreLog(c) \/ Scan(c)
      PROVE  Confined'
  <2>1. /\ UNCHANGED <<users, owner, joined>> /\ self' = [self EXCEPT ![c] = self'[c]]
        /\ pc' = [pc EXCEPT ![c] = pc'[c]] /\ frame' = [frame EXCEPT ![c] = frame'[c]]
        /\ pc'[c] \notin {"create", "created"}
    BY <1>4 DEF LoadLog, StoreLog, Scan, Goto, Shape, TypeOK, shared, history
  <2>2. \/ frame'[c] = Idle
        \/ /\ frame'[c].room = frame[c].room
           /\ frame'[c].seen = frame[c].seen /\ frame'[c].todo = frame[c].todo
    <3>1. PICK x : \/ frame'[c] = [frame[c] EXCEPT !.log = x]
                   \/ frame'[c] = [frame[c] EXCEPT !.left = x]
      BY <1>4 DEF LoadLog, StoreLog, Scan, Shape, TypeOK
    <3>2. CASE frame'[c] = [frame[c] EXCEPT !.log = x]
      BY <1>0, <3>2, FieldLemma
    <3>3. CASE frame'[c] = [frame[c] EXCEPT !.left = x]
      BY <1>0, <3>3, FieldLemma
    <3>4. QED
      BY <3>1, <3>2, <3>3
  <2>3. FrameConfined(c)'
    BY <2>1, <2>2, KeptFrameLemma
  <2>4. QED
    BY <2>1, <2>3, ConfinedLemma
<1>5. ASSUME NEW c \in Conns, Load(c) PROVE Confined'
  <2>1. /\ UNCHANGED <<users, owner, joined, self>> /\ pc' = [pc EXCEPT ![c] = "store"]
        /\ frame' = [frame EXCEPT ![c] = [frame[c] EXCEPT !.seen = users[frame[c].room]]]
        /\ frame[c].room \in RoomIds
    BY <1>0, <1>5 DEF Load, Goto, shared, history, LocalsOf, Handling, Known
  <2>2. /\ frame'[c].seen = users[frame[c].room] /\ frame'[c].todo = frame[c].todo
        /\ frame'[c].room = frame[c].room
    BY <1>0, <2>1, FieldLemma DEF Shape, TypeOK
  <2>3. FrameConfined(c)'
    BY <1>0, <2>1, <2>2 DEF FrameConfined, Confined, Shape, TypeOK
  <2>4. QED
    BY <2>1, <2>3, ConfinedLemma DEF Shape, TypeOK
<1>6. ASSUME NEW c \in Conns, StoreJoin(c) PROVE Confined'
  <2>1. /\ frame[c].room \in RoomIds /\ self[c] \in User
        /\ users' = [users EXCEPT ![frame[c].room] = AppendUser(frame[c].seen, self[c])]
        /\ joined' = joined \cup {<<self[c].peer, frame[c].room>>}
    BY <1>0, <1>6, UserLemma DEF StoreJoin, JoinToRoom, LocalsOf, Handling, Known
  <2>2. /\ UNCHANGED <<owner, self>> /\ pc' = [pc EXCEPT ![c] = pc'[c]]
        /\ frame' = [frame EXCEPT ![c] = frame'[c]] /\ frame'[c] \in {frame[c], Idle}
        /\ pc'[c] \notin {"create", "created"}
    BY <1>6 DEF StoreJoin, Goto, Return, Shape, TypeOK
  <2>3. Entitled(frame[c].seen, frame[c].room, joined')
    BY <1>0, <2>1, EntitledLemma DEF FrameConfined
  <2>4. Entitled(AppendUser(frame[c].seen, self[c]), frame[c].room, joined')
    BY <1>0, <2>1, <2>3, EntitledLemma
  <2>5. \A r \in RoomIds : users'[r] = users[r] \/ Entitled(users'[r], r, joined')
    BY <2>1, <2>4 DEF Shape, TypeOK
  <2>6. FrameConfined(c)'
    BY <2>1, <2>2, KeptFrameLemma
  <2>7. QED
    BY <2>1, <2>2, <2>5, <2>6, ConfinedLemma DEF Shape, TypeOK
<1>7. ASSUME NEW c \in Conns, StoreLeave(c) \/ StoreFake(c) PROVE Confined'
  <2>1. /\ frame[c].room \in RoomIds /\ UNCHANGED <<owner, self, joined, frame>>
        /\ pc' = [pc EXCEPT ![c] = pc'[c]] /\ pc'[c] \in {"check", "data"}
    BY <1>0, <1>7 DEF StoreLeave, StoreFake, Goto, LocalsOf, Handling, Known, Shape, TypeOK
  <2>2. PICK b : /\ users' = [users EXCEPT ![frame[c].room] = b]
                 /\ \/ b = LeaveRoom(c)
                    \/ b = RemoveFakeUser(c)
                    \/ frame[c].op = "addFake" /\ b = AddFakeUser(c)
    BY <1>7 DEF StoreLeave, StoreFake
  <2>3. Entitled(b, frame[c].room, joined)
    <3>1. Entitled(LeaveRoom(c), frame[c].room, joined)
      BY <1>0, EntitledLemma DEF LeaveRoom, FrameConfined
    <3>2. Entitled(RemoveFakeUser(c), frame[c].room, joined)
      BY <1>0, EntitledLemma DEF RemoveFakeUser, FrameConfined
    <3>3. CASE frame[c].op = "addFake"
      <4>1. [id |-> frame[c].arg, peer |-> NoPeer] \in User
        BY <1>0, <3>3, UserLemma DEF LocalsOf
      <4>2. Entitled(AddFakeUser(c), frame[c].room, joined)
        BY <1>0, <4>1, EntitledLemma DEF AddFakeUser, FrameConfined
      <4>3. QED
        BY <2>2, <3>1, <3>2, <4>2
    <3>4. QED
      BY <2>2, <3>1, <3>2, <3>3
  <2>4. \A r \in RoomIds : users'[r] = users[r] \/ Entitled(users'[r], r, joined')
    BY <2>1, <2>2, <2>3 DEF Shape, TypeOK
  <2>5. FrameConfined(c)'
    BY <2>1, KeptFrameLemma
  <2>6. QED
    BY <2>1, <2>4, <2>5, ConfinedLemma DEF Shape, TypeOK
<1>8. ASSUME NEW c \in Conns, Data(c) PROVE Confined'
  <2>1. /\ UNCHANGED <<users, owner, joined, self>> /\ pc' = [pc EXCEPT ![c] = "send"]
        /\ frame' = [frame EXCEPT ![c] = [[frame[c] EXCEPT !.seen = users[frame[c].room]]
                                            EXCEPT !.todo = Recipients(c)]]
        /\ frame[c].room \in RoomIds
    BY <1>0, <1>8 DEF Data, Goto, shared, LocalsOf, Handling, Known
  <2>2. [frame[c] EXCEPT !.seen = users[frame[c].room]] \in Frames
    BY <1>0, <2>1, FrameLemma DEF Shape, TypeOK
  <2>3. /\ frame'[c].seen = users[frame[c].room] /\ frame'[c].todo = Recipients(c)
        /\ frame'[c].room = frame[c].room
    BY <1>0, <2>1, <2>2, FieldLemma DEF Shape, TypeOK
  <2>4. Entitled(users[frame[c].room], frame[c].room, joined) /\ users[frame[c].room] \in Bag
    BY <2>1 DEF Confined, Shape, TypeOK
  <2>5. Entitled(Recipients(c), frame[c].room, joined)
    BY <2>4, EntitledLemma DEF Recipients
  <2>6. FrameConfined(c)'
    BY <2>1, <2>3, <2>4, <2>5 DEF FrameConfined, Shape, TypeOK
  <2>7. QED
    BY <2>1, <2>6, ConfinedLemma DEF Shape, TypeOK
<1>9. ASSUME NEW c \in Conns, Send(c) PROVE Confined'
  <2>1. UNCHANGED <<users, owner, joined, self, pc>> /\ pc[c] = "send"
    BY <1>9 DEF Send, shared
  <2>2. PICK u \in User :
          frame' = [frame EXCEPT ![c] = [frame[c] EXCEPT
                                           !.todo = [frame[c].todo EXCEPT ![u] = @ - 1]]]
    BY <1>9 DEF Send, Served
  <2>3. /\ frame'[c].todo = [frame[c].todo EXCEPT ![u] = @ - 1]
        /\ frame'[c].seen = frame[c].seen /\ frame'[c].room = frame[c].room
    BY <1>0, <2>2, FieldLemma DEF Shape, TypeOK
  <2>4. Entitled(frame'[c].todo, frame[c].room, joined)
    <3>1. Entitled([frame[c].todo EXCEPT ![u] = @ - 1], frame[c].room, joined)
      BY <1>0, EntitledLemma DEF FrameConfined
    <3>2. QED
      BY <2>3, <3>1
  <2>5. FrameConfined(c)'
    BY <1>0, <2>1, <2>3, <2>4 DEF FrameConfined
  <2>6. QED
    BY <2>1, <2>2, <2>5, ConfinedLemma DEF Shape, TypeOK
<1>10. ASSUME NEW c \in Conns, NextRoom(c) PROVE Confined'
  <2>1. /\ UNCHANGED <<users, owner, joined, self>> /\ pc' = [pc EXCEPT ![c] = pc'[c]]
        /\ frame' = [frame EXCEPT ![c] = frame'[c]] /\ pc'[c] \notin {"create", "created"}
    BY <1>10 DEF NextRoom, Goto, Return, shared, history, Shape, TypeOK
  <2>2. CASE frame'[c] = Idle
    BY <2>1, <2>2, KeptFrameLemma, ConfinedLemma DEF Shape, TypeOK
  <2>3. ASSUME NEW r \in frame[c].left,
               frame'[c] = [Request("close", r, None) EXCEPT !.left = frame[c].left \ {r}]
        PROVE  Confined'
    <3>1. Request("close", r, None) \in Frames
      BY <1>0, FrameLemma DEF LocalsOf, Known, Arg
    <3>2. frame'[c].seen = EmptyBag /\ frame'[c].todo = EmptyBag
      BY <2>3, <3>1, FieldLemma, RequestBags
    <3>3. FrameConfined(c)'
      BY <1>0, <2>1, <3>2 DEF FrameConfined
    <3>4. QED
      BY <2>1, <3>3, ConfinedLemma DEF Shape, TypeOK
  <2>4. QED
    BY <1>10, <2>2, <2>3 DEF NextRoom, Return, Shape, TypeOK
<1>11. ASSUME NEW c \in Conns, ReadMessage(c) \/ ReadError(c) PROVE Confined'
  <2>1. UNCHANGED <<users, owner, joined, self>>
    BY <1>11 DEF ReadMessage, ReadError, shared, history
  <2>2. PICK f, label : /\ frame' = [frame EXCEPT ![c] = f] /\ Goto(c, label)
                        /\ label # "created"
                        /\ f.seen = EmptyBag /\ f.todo = EmptyBag
    <3>1. CASE ReadError(c)
      BY <3>1, RequestBags DEF ReadError
    <3>2. CASE ReadMessage(c)
      <4>1. PICK op \in Ops : \E request \in Requests(c)[op] :
              /\ frame' = [frame EXCEPT ![c] = request]
              /\ Goto(c, IF op \in {"create", "relay"} THEN op ELSE "find")
        BY <3>2 DEF ReadMessage
      <4>2. PICK request \in Requests(c)[op] :
              /\ frame' = [frame EXCEPT ![c] = request]
              /\ Goto(c, IF op \in {"create", "relay"} THEN op ELSE "find")
        BY <4>1
      <4>3. \E r, a : request = Request(op, r, a)
        BY <1>0, <3>2, RequestLemma DEF ReadMessage, LocalsOf, Shape
      <4>4. request.seen = EmptyBag /\ request.todo = EmptyBag
        BY <4>3, RequestBags
      <4>5. QED
        BY <4>2, <4>4
    <3>3. QED
      BY <1>11, <3>1, <3>2
  <2>3. FrameConfined(c)'
    BY <1>0, <2>1, <2>2 DEF FrameConfined, Goto, Shape, TypeOK
  <2>4. QED
    BY <2>1, <2>2, <2>3, ConfinedLemma DEF Goto, Shape, TypeOK
<1>12. ASSUME NEW c \in Conns, Create(c) PROVE Confined'
  <2>1. pc[c] = "create" /\ self[c] \in User /\ UNCHANGED self
    BY <1>0, <1>12, UserLemma DEF Create, LocalsOf
  <2>2. CASE Return(c) /\ UNCHANGED <<rooms, owner, users, joined, mine>>
    <3>1. /\ pc' = [pc EXCEPT ![c] = pc'[c]] /\ frame' = [frame EXCEPT ![c] = frame'[c]]
          /\ frame'[c] = Idle /\ pc'[c] \notin {"create", "created"}
      BY <2>2 DEF Return, Goto, Shape, TypeOK
    <3>2. QED
      BY <2>1, <2>2, <3>1, KeptFrameLemma, ConfinedLemma DEF Shape, TypeOK
  <2>3. ASSUME NEW r \in RoomIds \ Known,
               owner' = [owner EXCEPT ![r] = self[c].peer],
               users' = [users EXCEPT ![r] = AppendUser(EmptyBag, self[c])],
               joined' = joined \cup {<<self[c].peer, r>>},
               frame' = [frame EXCEPT ![c].room = r],
               Goto(c, "created")
        PROVE  Confined'
    <3>1. frame'[c] = [frame[c] EXCEPT !.room = r] /\ pc' = [pc EXCEPT ![c] = "created"]
      BY <2>3 DEF Goto, Shape, TypeOK
    <3>2. frame'[c].seen = EmptyBag /\ frame'[c].todo = EmptyBag /\ frame'[c].room = r
      <4>1. frame[c].seen = EmptyBag /\ frame[c].todo = EmptyBag
        BY <1>0, <2>1 DEF FrameConfined
      <4>2. QED
        BY <1>0, <3>1, <4>1, FieldLemma
    <3>3. Entitled(EmptyBag, r, joined')
      BY BagLemma, EntitledLemma
    <3>4. Entitled(AppendUser(EmptyBag, self[c]), r, joined')
      BY <2>1, <2>3, <3>3, BagLemma, EntitledLemma
    <3>5. FrameConfined(c)'
      BY <2>1, <2>3, <3>1, <3>2, <3>3 DEF FrameConfined, Shape, TypeOK
    <3>6. \A q \in RoomIds : users'[q] = users[q] \/ Entitled(users'[q], q, joined')
      BY <2>3, <3>4 DEF Shape, TypeOK
    <3>7. \A q \in Known' : owner'[q] = owner[q] \/ <<owner'[q], q>> \in joined'
      BY <2>3 DEF Known, Shape, TypeOK
    <3>8. QED
      BY <2>1, <2>3, <3>1, <3>5, <3>6, <3>7, ConfinedLemma DEF Shape, TypeOK
  <2>4. QED
    BY <1>12, <2>2, <2>3 DEF Create
<1>13. CASE Restart
  <2>1. UNCHANGED <<users, owner, joined, self>>
    BY <1>13 DEF Restart, history
  <2>2. \A c \in Conns : frame'[c] = Idle /\ pc'[c] \in {"new", "done"}
    BY <1>13 DEF Restart
  <2>3. \A c \in Conns : FrameConfined(c)'
    BY <2>1, <2>2, KeptFrameLemma
  <2>4. QED
    BY <2>1, <2>3 DEF Confined, Known
<1>14. CASE UNCHANGED vars \/ \E c \in Conns : Hangup(c) \/ Stall(c) \/ Resume(c)
  <2>1. UNCHANGED <<users, owner, joined, self, frame, pc>>
    BY <1>14 DEF vars, shared, local, history, Hangup, Stall, Resume
  <2>2. QED
    BY <2>1 DEF Confined, FrameConfined, Known
<1>15. QED
  BY <1>1, <1>2, <1>3, <1>4, <1>5, <1>6, <1>7, <1>8, <1>9, <1>10, <1>11, <1>12, <1>13, <1>14
     DEF Next, Fatal, Terminate, Work, Client, Terminated

\* What the connections received, and that it starts with their registration.
Delivered ==
  /\ \A c \in Conns : self[c] = None => inbox[c] = {}
  /\ NoForeignDelivery

LEMMA DeliveredInit == Init => Delivered
BY DEF Init, Delivered, NoForeignDelivery

LEMMA SameInboxLemma ==
  ASSUME Delivered, UNCHANGED <<self, inbox>>, joined \subseteq joined'
  PROVE  Delivered' /\ reached' = reached
BY DEF Delivered, NoForeignDelivery, reached, Admitted

\* A write to the connection of an entitled peer.
LEMMA DeliveryLemma ==
  ASSUME Shape, Registry, Delivered, UNCHANGED <<self, joined>>,
         NEW p \in PeerIds \cup {NoPeer}, NEW r \in RoomIds,
         p = NoPeer \/ <<p, r>> \in joined,
         NEW out \in Out, out.room = r, Receive(clients[p], out)
  PROVE  /\ Delivered'
         /\ \/ reached' = reached
            \/ <<p, r>> \in joined /\ reached' = reached \cup {<<p, r>>}
<1>1. CASE ~Receives(clients[p])
  BY <1>1, SameInboxLemma DEF Receive
<1>2. CASE Receives(clients[p])
  <2> DEFINE d == clients[p]
  <2>1. d \in Conns /\ self[d] \in RealUser /\ self[d].peer = p /\ p # NoPeer
    BY <1>2 DEF Receives, Registry, RegistryExact, Serving, Shape, TypeOK, Locals, LocalsOf
  <2> HIDE DEF d
  <2>2. <<p, r>> \in joined /\ d \in Admitted
    BY <2>1, NoneLemma DEF Admitted
  <2>3. inbox' = [inbox EXCEPT ![d] = @ \cup {out}]
    BY <1>2 DEF Receive, d
  <2>4. \A c \in Conns : inbox'[c] = IF c = d THEN inbox[c] \cup {out} ELSE inbox[c]
    BY <2>1, <2>3 DEF Shape, TypeOK
  <2>5. Delivered'
    BY <2>1, <2>2, <2>4, NoneLemma DEF Delivered, NoForeignDelivery
  <2>6. Admitted' = Admitted
    BY DEF Admitted
  <2>7. ASSUME NEW m \in PeerIds \X RoomIds
        PROVE  m \in reached' <=> m \in reached \/ m = <<p, r>>
    <3>1. m \in reached' <=> \E c \in Admitted : /\ self[c].peer = m[1]
                                                 /\ \E o \in inbox'[c] : o.room = m[2]
      BY <2>6 DEF reached
    <3>2. m \in reached <=> \E c \in Admitted : /\ self[c].peer = m[1]
                                                /\ \E o \in inbox[c] : o.room = m[2]
      BY DEF reached
    <3>3. m = <<p, r>> <=> m[1] = p /\ m[2] = r
      OBVIOUS
    <3>4. Admitted \subseteq Conns
      BY DEF Admitted
    <3>5. QED
      BY <2>1, <2>2, <2>4, <3>1, <3>2, <3>3, <3>4
  <2>8. reached \subseteq PeerIds \X RoomIds /\ reached' \subseteq PeerIds \X RoomIds
    BY DEF reached
  <2>9. p \in PeerIds
    BY <2>1
  <2>10. reached' = reached \cup {<<p, r>>}
    BY <2>7, <2>8, <2>9
  <2>11. QED
    BY <2>2, <2>5, <2>10
<1>3. QED
  BY <1>1, <1>2

\* Every step is a step of the contract, or one it does not see.
LEMMA ContractNext ==
  Shape /\ Registry /\ Confined /\ Delivered /\ [Next]_vars
    => Delivered' /\ [Contract!Next]_(Contract!vars)
<1> SUFFICES ASSUME Shape, Registry, Confined, Delivered, [Next]_vars
             PROVE  Delivered' /\ [Contract!Next]_(Contract!vars)
  OBVIOUS
<1>a. ASSUME UNCHANGED <<rooms, owner, joined>>, reached' = reached
      PROVE  [Contract!Next]_(Contract!vars)
  BY <1>a DEF Contract!vars, phase
<1>b. ASSUME UNCHANGED <<rooms, owner, joined>>, NEW p \in PeerIds, NEW r \in RoomIds,
             <<p, r>> \in joined, reached' = reached \cup {<<p, r>>}
      PROVE  [Contract!Next]_(Contract!vars)
  <2>1. Contract!Reach(p, r)
    BY <1>b DEF Contract!Reach, phase
  <2>2. QED
    BY <2>1 DEF Contract!Next
<1>0. ASSUME NEW c \in Conns
      PROVE  FrameConfined(c) /\ LocalsOf(c) /\ frame[c] \in Frames
  BY DEF Confined, Shape, Locals, TypeOK
<1>1. ASSUME NEW c \in Conns, Create(c)
      PROVE  Delivered' /\ [Contract!Next]_(Contract!vars)
  <2>1. self[c].peer \in PeerIds
    BY <1>0, <1>1, UserLemma DEF Create, LocalsOf
  <2>2. UNCHANGED <<self, inbox>> /\ joined \subseteq joined'
    BY <1>1 DEF Create
  <2>3. Delivered' /\ reached' = reached
    BY <2>2, SameInboxLemma
  <2>4. CASE UNCHANGED <<rooms, owner, users, joined, mine>>
    BY <1>a, <2>3, <2>4
  <2>5. ASSUME NEW r \in RoomIds \ Known,
               rooms' = rooms \cup {r}, owner' = [owner EXCEPT ![r] = self[c].peer],
               joined' = joined \cup {<<self[c].peer, r>>}
        PROVE  Contract!Open(self[c].peer, r)
    <3>1. phase[r] = "absent"
      BY DEF phase, Known
    <3>2. phase' = [phase EXCEPT ![r] = "live"]
      BY <2>1, <2>5, NoneAssumption DEF phase, Shape, TypeOK
    <3>3. QED
      BY <2>3, <2>5, <3>1, <3>2 DEF Contract!Open
  <2>6. QED
    BY <1>1, <2>1, <2>3, <2>4, <2>5 DEF Create, Contract!Next
<1>2. ASSUME NEW c \in Conns, StoreJoin(c)
      PROVE  Delivered' /\ [Contract!Next]_(Contract!vars)
  <2>1. /\ self[c].peer \in PeerIds /\ frame[c].room \in Known
        /\ UNCHANGED <<rooms, owner, self, inbox>>
        /\ joined' = joined \cup {<<self[c].peer, frame[c].room>>}
    BY <1>0, <1>2, UserLemma DEF StoreJoin, LocalsOf, Handling
  <2>2. Delivered' /\ reached' = reached
    BY <2>1, SameInboxLemma
  <2>3. Contract!Admit(self[c].peer, frame[c].room)
    BY <2>1, <2>2 DEF Contract!Admit, phase, Known
  <2>4. QED
    BY <2>1, <2>2, <2>3 DEF Contract!Next, Known
<1>3. ASSUME NEW c \in Conns, Remove(c)
      PROVE  Delivered' /\ [Contract!Next]_(Contract!vars)
  <2>1. /\ frame[c].room \in Known /\ UNCHANGED <<owner, self, inbox, joined>>
        /\ rooms' = rooms \ {frame[c].room}
    BY <1>0, <1>3 DEF Remove, Panic, LocalsOf, Handling, history
  <2>2. Delivered' /\ reached' = reached
    BY <2>1, SameInboxLemma
  <2>3. CASE frame[c].room \in rooms
    <3>1. phase[frame[c].room] = "live" /\ phase' = [phase EXCEPT ![frame[c].room] = "gone"]
      BY <2>1, <2>3 DEF phase, Known
    <3>2. Contract!Close(frame[c].room)
      BY <2>1, <2>2, <3>1 DEF Contract!Close
    <3>3. QED
      BY <2>1, <2>2, <3>2 DEF Contract!Next, Known
  <2>4. CASE frame[c].room \notin rooms
    <3>1. rooms' = rooms
      BY <2>1, <2>4
    <3>2. QED
      BY <1>a, <2>1, <2>2, <3>1
  <2>5. QED
    BY <2>3, <2>4
<1>4. ASSUME NEW c \in Conns, Created(c) \/ Start(c) \/ Send(c)
      PROVE  Delivered' /\ [Contract!Next]_(Contract!vars)
  <2>1. UNCHANGED <<rooms, owner, self, joined>> /\ frame[c].room \in Known
    BY <1>0, <1>4 DEF Created, Start, Send, shared, LocalsOf, Handling
  <2>2. CASE UNCHANGED inbox
    BY <1>a, <2>1, <2>2, SameInboxLemma
  <2>3. ASSUME NEW p \in PeerIds \cup {NoPeer}, p = NoPeer \/ <<p, frame[c].room>> \in joined,
               NEW out \in Out, out.room = frame[c].room, Receive(clients[p], out)
        PROVE  Delivered' /\ [Contract!Next]_(Contract!vars)
    <3>1. /\ Delivered'
          /\ \/ reached' = reached
             \/ /\ <<p, frame[c].room>> \in joined
                /\ reached' = reached \cup {<<p, frame[c].room>>}
      BY <2>1, <2>3, DeliveryLemma DEF Known
    <3>2. joined \subseteq PeerIds \X RoomIds
      BY DEF Shape, TypeOK
    <3>3. QED
      BY <1>a, <1>b, <2>1, <3>1, <3>2
  <2>4. CASE Created(c)
    <3> DEFINE out == [kind |-> "created", room |-> frame[c].room, from |-> None,
                       text |-> None]
    <3>1. Receive(clients[self[c].peer], out)
      BY <2>4 DEF Created
    <3>2. out \in Out /\ out.room = frame[c].room
      BY <2>1 DEF Out, Known
    <3>3. self[c].peer \in PeerIds /\ <<self[c].peer, frame[c].room>> \in joined
      BY <1>0, <2>4, UserLemma DEF Created, LocalsOf, FrameConfined
    <3>4. QED
      BY <2>3, <3>1, <3>2, <3>3
  <2>5. CASE Start(c)
    <3> DEFINE out == [kind |-> "start", room |-> frame[c].room, from |-> self[c].peer,
                       text |-> None]
    <3>1. Receive(clients[owner[frame[c].room]], out) \/ UNCHANGED inbox
      BY <2>5 DEF Start
    <3>2. out \in Out /\ out.room = frame[c].room
      BY <1>0, <2>1, <2>5, UserLemma DEF Out, Known, Start, LocalsOf
    <3>3. /\ owner[frame[c].room] \in PeerIds
          /\ <<owner[frame[c].room], frame[c].room>> \in joined
      BY <2>1 DEF Known, Confined, Shape, TypeOK
    <3>4. QED
      BY <2>2, <2>3, <3>1, <3>2, <3>3
  <2>6. CASE Send(c)
    <3>1. PICK u \in User : \E k \in {"text", "update"}, t \in Texts \cup {None} :
            /\ frame[c].todo[u] > 0
            /\ Receive(clients[u.peer], [kind |-> k, room |-> frame[c].room,
                                         from |-> None, text |-> t])
      BY <1>0, <2>6 DEF Send, LocalsOf
    <3>2. PICK k \in {"text", "update"}, t \in Texts \cup {None} :
            Receive(clients[u.peer], [kind |-> k, room |-> frame[c].room,
                                      from |-> None, text |-> t])
      BY <3>1
    <3> DEFINE out == [kind |-> k, room |-> frame[c].room, from |-> None, text |-> t]
    <3>3. out \in Out /\ out.room = frame[c].room
      BY <2>1 DEF Out, Known
    <3>4. u.peer \in PeerIds \cup {NoPeer}
      BY UserLemma
    <3>5. u.peer = NoPeer \/ <<u.peer, frame[c].room>> \in joined
      BY <1>0, <3>1 DEF FrameConfined, Entitled
    <3>6. QED
      BY <2>3, <3>2, <3>3, <3>4, <3>5
  <2>7. QED
    BY <1>4, <2>4, <2>5, <2>6
<1>5. ASSUME NEW c \in Conns, Relay(c)
      PROVE  Delivered' /\ [Contract!Next]_(Contract!vars)
  <2>1. UNCHANGED <<rooms, owner, self, joined>> /\ frame[c].arg \in PeerIds
    BY <1>0, <1>5 DEF Relay, shared, LocalsOf
  <2> DEFINE d == clients[frame[c].arg]
             out == [kind |-> "relay", room |-> None, from |-> self[c].peer, text |-> None]
  <2>2. CASE ~Receives(d)
    BY <1>5, <1>a, <2>1, <2>2, SameInboxLemma DEF Relay, Receive
  <2>3. CASE Receives(d)
    <3>1. d \in Conns /\ self[d] \in RealUser
      BY <2>1, <2>3 DEF Receives, Registry, RegistryExact, Serving, Shape, TypeOK, Locals,
         LocalsOf
    <3>2. inbox' = [inbox EXCEPT ![d] = @ \cup {out}]
      BY <1>5, <2>3 DEF Relay, Receive
    <3>3. out.room = None
      OBVIOUS
    <3> HIDE DEF d, out
    <3>4. \A e \in Conns : inbox'[e] = IF e = d THEN inbox[e] \cup {out} ELSE inbox[e]
      BY <3>1, <3>2 DEF Shape, TypeOK
    <3>5. Delivered'
      BY <2>1, <3>1, <3>3, <3>4, NoneLemma DEF Delivered, NoForeignDelivery
    <3>6. \A e \in Conns, r \in RoomIds :
            (\E o \in inbox'[e] : o.room = r) <=> \E o \in inbox[e] : o.room = r
      BY <3>3, <3>4, NoneAssumption
    <3>7. reached' = reached
      BY <2>1, <3>6 DEF reached, Admitted
    <3>8. QED
      BY <1>a, <2>1, <3>5, <3>7
  <2>4. QED
    BY <2>2, <2>3
<1>6. ASSUME NEW c \in Conns, Accept(c)
      PROVE  Delivered' /\ [Contract!Next]_(Contract!vars)
  <2>1. /\ UNCHANGED <<rooms, owner, joined, inbox>> /\ inbox[c] = {}
        /\ \A d \in Conns \ {c} : self'[d] = self[d]
    BY <1>0, <1>6 DEF Accept, shared, history, LocalsOf, Delivered, Shape, TypeOK
  <2>2. Delivered'
    BY <2>1 DEF Delivered, NoForeignDelivery
  <2>3. reached' = reached
    BY <2>1 DEF reached, Admitted
  <2>4. QED
    BY <1>a, <2>1, <2>2, <2>3
<1>7. ASSUME NEW c \in Conns,
             \/ Register(c) \/ Defer(c) \/ ReadMessage(c) \/ ReadError(c)
             \/ Hangup(c) \/ Stall(c) \/ Resume(c)
      PROVE  UNCHANGED <<rooms, owner, self, joined, inbox>>
  BY <1>7 DEF Register, Defer, ReadMessage, ReadError, Hangup, Stall, Resume,
     shared, local, history
<1>8. ASSUME NEW c \in Conns,
             \/ Find(c) \/ LoadLog(c) \/ StoreLog(c) \/ Load(c)
             \/ StoreLeave(c) \/ StoreFake(c) \/ Check(c)
             \/ Data(c) \/ Sent(c) \/ Scan(c) \/ NextRoom(c)
      PROVE  UNCHANGED <<rooms, owner, self, joined, inbox>>
  BY <1>8 DEF Find, LoadLog, StoreLog, Load, StoreLeave, StoreFake, Check, Panic, Data, Sent,
     Scan, NextRoom, shared, local, history
<1>9. CASE UNCHANGED vars
  BY <1>9, <1>a, SameInboxLemma DEF vars, shared, local, history
<1>10. CASE UNCHANGED <<rooms, owner, self, joined, inbox>>
  BY <1>10, <1>a, SameInboxLemma
<1>11. CASE Restart
  <2>1. UNCHANGED <<owner, self, joined, inbox>> /\ rooms' = {}
    BY <1>11 DEF Restart, history
  <2>2. Delivered' /\ reached' = reached
    BY <2>1, SameInboxLemma
  <2>3. Contract!Crash
    BY <2>1, <2>2 DEF Contract!Crash, phase
  <2>4. QED
    BY <2>2, <2>3 DEF Contract!Next
<1>12. QED
  BY <1>1, <1>2, <1>3, <1>4, <1>5, <1>6, <1>7, <1>8, <1>9, <1>10, <1>11
     DEF Next, Fatal, Terminate, Work, Client, Terminated

LEMMA ContractInit == Init => Contract!Init
<1> SUFFICES ASSUME Init PROVE Contract!Init
  OBVIOUS
<1>1. phase = [r \in RoomIds |-> "absent"]
  BY DEF Init, phase
<1>2. reached = {}
  BY DEF Init, reached, Admitted
<1>3. QED
  BY <1>1, <1>2 DEF Init, Contract!Init

-----------------------------------------------------------------------------
(* The inductive invariant, and what follows from it. *)
IInv == Shape /\ Registry /\ NoEmptyRoom /\ Confined /\ Delivered

LEMMA Inductive == Spec => []IInv
<1>1. Init => IInv
  BY ShapeInit, RegistryInit, ConfinedInit, DeliveredInit DEF IInv, Init, NoEmptyRoom
<1>2. IInv /\ [Next]_vars => IInv'
  BY ShapeNext, RegistryNext, NoEmptyRoomNext, ConfinedNext, ContractNext DEF IInv
<1>3. QED
  BY <1>1, <1>2, PTL DEF Spec

\* The variables and the locals of every goroutine stay in their types: no
\* handler works on a nil room, on a connection that was not registered, or on
\* fields its message does not have.
THEOREM TypeCorrect == Spec => []TypeOK
<1>1. IInv => TypeOK
  BY DEF IInv, Shape
<1>2. QED
  BY <1>1, Inductive, PTL

\* The clients map is exact under every interleaving of connecting,
\* disconnecting and panicking goroutines, duplicate socket ids included.
THEOREM RegistryCorrect == Spec => []RegistryExact
<1>1. IInv => RegistryExact
  BY DEF IInv, Registry
<1>2. QED
  BY <1>1, Inductive, PTL

\* LeaveRoom never leaves an empty room behind, however many goroutines leave
\* at once and whatever updates they lose.
THEOREM NoRoomStaysEmpty == Spec => []NoEmptyRoom
<1>1. IInv => NoEmptyRoom
  BY DEF IInv
<1>2. QED
  BY <1>1, Inductive, PTL

\* What is said in a room reaches only peers that were put into it.
THEOREM DeliveryIsConfined == Spec => []NoForeignDelivery
<1>1. IInv => NoForeignDelivery
  BY DEF IInv, Delivered
<1>2. QED
  BY <1>1, Inductive, PTL

\* The server, data races and all, implements RoomContract.
THEOREM Refinement == Spec => KeepsContract
<1>1. Init => Contract!Init
  BY ContractInit
<1>2. IInv /\ [Next]_vars => [Contract!Next]_(Contract!vars)
  BY ContractNext DEF IInv
<1>3. QED
  BY <1>1, <1>2, Inductive, PTL DEF Spec, KeepsContract, Contract!Spec
=============================================================================
