------------------------------ MODULE WsServer ------------------------------
(***************************************************************************)
(* The signalling server of server/websocket.go over the rooms of          *)
(* server/roomService.go.                                                  *)
(*                                                                         *)
(* net/http runs SocketHandler in a goroutine per connection, and nothing  *)
(* guards WsServer.clients, RoomService.rooms or a Room: no mutex, no      *)
(* channel.  Every step below is therefore one access of one goroutine to  *)
(* shared memory (a map operation, a load or a store of a slice, one       *)
(* message sent), and the steps of the goroutines interleave.  A Room that *)
(* was deleted from the map stays usable through the pointers goroutines   *)
(* hold, so owner, users and messages are indexed by every id ever drawn   *)
(* and `rooms' is the set of keys of RoomService.rooms.                    *)
(***************************************************************************)
EXTENDS RoomService, Integers, FiniteSets

CONSTANTS
  Conns,         \* accepted websockets; each has its goroutine
  RoomIds,       \* uuids CreateRoom draws: bounds the rooms ever created
  None,          \* nil, or a field that is not used
  Ops,           \* the message types clients send in this instance
  RemovableIds,  \* ids clients name in a removeFakeUser message
  FreshIds,      \* TRUE when no socket id is drawn twice (getId, utils.js)
  MayStall,      \* TRUE when clients may stop reading what they are sent
  MayTerminate,  \* TRUE when the process may be terminated and started again
  MaxMsgs,       \* bound: messages the clients send, all together
  MaxActive      \* bound: goroutines between two reads at the same time

Messages == {"text", "create", "join", "leave", "addFake", "removeFake", "relay"}

ASSUME OpsAssumption == Ops \subseteq Messages
ASSUME RemovableAssumption == RemovableIds \subseteq FakeIds \cup UserIds
ASSUME FlagsAssumption ==
  FreshIds \in BOOLEAN /\ MayStall \in BOOLEAN /\ MayTerminate \in BOOLEAN
ASSUME BoundsAssumption == MaxMsgs \in Nat /\ MaxActive \in Nat
ASSUME NoneAssumption ==
  None \notin Conns \cup RoomIds \cup PeerIds \cup {NoPeer} \cup FakeIds \cup UserIds
               \cup Nat \cup Messages \cup {"close"} \cup RealUser

VARIABLES
  clients,   \* WsServer.clients: socket id -> connection or nil
  rooms,     \* the keys of RoomService.rooms
  owner,     \* Room.Owner; None before the room is created
  users,     \* Room.Users
  messages,  \* Room.Messages, as the set of the texts in it
  socket,    \* the TCP connection: "new", "open", "stalled" or "closed"
  self,      \* the `user' local of SocketHandler, None before validation
  pc,        \* the next step of each goroutine
  frame,     \* the locals of the handler a goroutine runs
  sent       \* messages read so far from all connections

\* History: what the outside world has seen.
VARIABLES
  inbox,        \* the set of frames each connection received
  roster,       \* the Users of the last room data each connection received
  joined,       \* <<peer, room>>: the peer was put into the room, ever
  mine,         \* rooms each connection is in by the calls it completed
  unannounced,  \* rooms whose last change a failed join left unannounced
  overtaken,    \* rooms an older update came last from, to some connection
  lost,         \* rooms that a change was lost from to another goroutine's
  drained,      \* rooms a removeFakeUser left without users
  panicked      \* connections whose goroutine a panic unwound

shared  == <<clients, rooms, owner, users, messages>>
local   == <<self, pc, frame, sent>>
history == <<inbox, roster, joined, mine, unannounced, overtaken, lost, drained, panicked>>
vars    == <<shared, socket, local, history>>

Labels == {"new", "register", "read", "create", "created", "find", "loadlog",
           "storelog", "load", "store", "start", "data", "send", "check",
           "remove", "relay", "scan", "next", "defer", "done"}

Texts  == 1 .. MaxMsgs
Arg    == PeerIds \cup FakeIds \cup UserIds \cup Texts \cup {None}
Frames == [op   : Messages \cup {"close", None},
           room : RoomIds \cup {None},
           arg  : Arg,
           seen : Bag,              \* Users loaded, then Users put in RoomToMap
           log  : SUBSET Texts,     \* Messages loaded
           todo : Bag,              \* recipients not served yet
           left : SUBSET RoomIds]   \* rooms onCloseConnection has still to leave

Idle == [op |-> None, room |-> None, arg |-> None, seen |-> EmptyBag,
         log |-> {}, todo |-> EmptyBag, left |-> {}]

\* Messages the server writes to a websocket.
Out == [kind : {"text", "created", "update", "start", "relay"},
        room : RoomIds \cup {None},
        from : PeerIds \cup {None},    \* the peer a "start" or a "relay" is about
        text : Texts \cup {None}]

TypeOK ==
  /\ clients \in [PeerIds \cup {NoPeer} -> Conns \cup {None}]
  /\ rooms \in SUBSET RoomIds
  /\ owner \in [RoomIds -> PeerIds \cup {None}]
  /\ users \in [RoomIds -> Bag]
  /\ messages \in [RoomIds -> SUBSET Texts]
  /\ socket \in [Conns -> {"new", "open", "stalled", "closed"}]
  /\ self \in [Conns -> RealUser \cup {None}]
  /\ pc \in [Conns -> Labels]
  /\ frame \in [Conns -> Frames]
  /\ sent \in 0 .. MaxMsgs
  /\ inbox \in [Conns -> SUBSET Out]
  /\ roster \in [Conns -> [RoomIds -> Bag \cup {None}]]
  /\ joined \in SUBSET (PeerIds \X RoomIds)
  /\ mine \in [Conns -> SUBSET RoomIds]
  /\ unannounced \in SUBSET RoomIds
  /\ overtaken \in SUBSET RoomIds
  /\ lost \in SUBSET RoomIds
  /\ drained \in SUBSET RoomIds
  /\ panicked \in SUBSET Conns

Init ==
  /\ clients = [p \in PeerIds \cup {NoPeer} |-> None]
  /\ rooms = {}
  /\ owner = [r \in RoomIds |-> None]
  /\ users = [r \in RoomIds |-> EmptyBag]
  /\ messages = [r \in RoomIds |-> {}]
  /\ socket = [c \in Conns |-> "new"]
  /\ self = [c \in Conns |-> None]
  /\ pc = [c \in Conns |-> "new"]
  /\ frame = [c \in Conns |-> Idle]
  /\ sent = 0
  /\ inbox = [c \in Conns |-> {}]
  /\ roster = [c \in Conns |-> [r \in RoomIds |-> None]]
  /\ joined = {}
  /\ mine = [c \in Conns |-> {}]
  /\ unannounced = {}
  /\ overtaken = {}
  /\ lost = {}
  /\ drained = {}
  /\ panicked = {}

-----------------------------------------------------------------------------
(* Helpers *)

\* The goroutine is between two reads of its socket.
Busy(c) == pc[c] \notin {"new", "read", "done"}

\* Bound: a goroutine starts a handler only when fewer than MaxActive run one.
\* With 1 the handlers never overlap.
HasSlot == Cardinality({c \in Conns : Busy(c)}) < MaxActive

Goto(c, label) == pc' = [pc EXCEPT ![c] = label]

\* The handler returns: processMessage to the read loop, onCloseConnection to
\* the deferred calls of SocketHandler.
Return(c) ==
  /\ Goto(c, IF frame[c].op = "close" THEN "defer" ELSE "read")
  /\ frame' = [frame EXCEPT ![c] = Idle]

\* A nil dereference unwinds SocketHandler: its deferred calls run, and
\* onCloseConnection does not.
Panic(c) ==
  /\ Goto(c, "defer")
  /\ frame' = [frame EXCEPT ![c] = Idle]
  /\ panicked' = panicked \cup {c}

\* send(): nothing is written when the map had no entry for the peer, and what
\* is written to a socket its client closed reaches nobody.
Receives(d) == d # None /\ socket[d] = "open"

\* The write blocks: the client does not read and the buffers are full.  No
\* deadline is set on a connection.
Blocked(d) == d # None /\ socket[d] = "stalled"

Receive(d, out) ==
  inbox' = IF Receives(d) THEN [inbox EXCEPT ![d] = @ \cup {out}] ELSE inbox

ShowRoster(d, r, data) ==
  roster' = IF Receives(d) THEN [roster EXCEPT ![d][r] = data] ELSE roster

\* History: the step takes out of a room what a completed call put into it.
Loses(r, event) == lost' = IF event THEN lost \cup {r} ELSE lost

-----------------------------------------------------------------------------
(* SocketHandler *)

\* ValidateToken succeeded and both ids are there; otherwise the handler ends,
\* by its return or by the panic of authUser.ID on a nil user, and the deferred
\* conn.Close runs: nothing is registered yet.
\* Slip: the id parameter is not looked at.
AdmissibleByToken(id, peer) == id # None

Admissible(id, peer) == id # None /\ peer # NoPeer

\* Some other connection came with this socket id.
Admitted == {c \in Conns : self[c] # None}
Drawn(peer) == \E d \in Admitted : self[d].peer = peer

Accept(c) ==
  /\ pc[c] = "new"
  /\ HasSlot
  /\ \E id \in UserIds \cup {None}, peer \in PeerIds \cup {NoPeer} :
       /\ FreshIds => ~Drawn(peer)
       /\ IF Admissible(id, peer)
          THEN /\ self' = [self EXCEPT ![c] = [id |-> id, peer |-> peer]]
               /\ socket' = [socket EXCEPT ![c] = "open"]
               /\ Goto(c, "register")
          ELSE /\ socket' = [socket EXCEPT ![c] = "closed"]
               /\ Goto(c, "done")
               /\ UNCHANGED self
  /\ UNCHANGED <<shared, frame, sent, history>>

\* s.clients[socketID] = client
Register(c) ==
  /\ pc[c] = "register"
  /\ clients' = [clients EXCEPT ![self[c].peer] = c]
  /\ Goto(c, "read")
  /\ UNCHANGED <<rooms, owner, users, messages, socket, self, frame, sent, history>>

\* Environment: the client closes its end (a tab closed, the network reset).
Hangup(c) ==
  /\ socket[c] \in {"open", "stalled"}
  /\ socket' = [socket EXCEPT ![c] = "closed"]
  /\ UNCHANGED <<shared, local, history>>

\* Environment: the client stops reading (a suspended laptop, a full window),
\* and reads again.
Stall(c) ==
  /\ MayStall
  /\ socket[c] = "open"
  /\ socket' = [socket EXCEPT ![c] = "stalled"]
  /\ UNCHANGED <<shared, local, history>>

Resume(c) ==
  /\ socket[c] = "stalled"
  /\ socket' = [socket EXCEPT ![c] = "open"]
  /\ UNCHANGED <<shared, local, history>>

\* Room ids travel in conference links, so a client may name any room that was
\* ever created; a field missing in the data reads as "".
Known == {r \in RoomIds : owner[r] # None}

Request(op, r, arg) == [Idle EXCEPT !.op = op, !.room = r, !.arg = arg]

Requests(c) ==
  [text       |-> {Request("text", r, sent + 1) : r \in Known},
   create     |-> {Request("create", None, None)},
   join       |-> {Request("join", r, a) : r \in Known, a \in {self[c].peer, None}},
   leave      |-> {Request("leave", r, None) : r \in Known},
   addFake    |-> {Request("addFake", r, a) : r \in Known, a \in FakeIds},
   removeFake |-> {Request("removeFake", r, a) : r \in Known, a \in RemovableIds},
   relay      |-> {Request("relay", None, a) : a \in PeerIds}]

\* ReadClientData returned a message: processMessage dispatches on its type.
ReadMessage(c) ==
  /\ pc[c] = "read" /\ socket[c] \in {"open", "stalled"}
  /\ HasSlot
  /\ sent < MaxMsgs
  /\ sent' = sent + 1
  /\ \E op \in Ops : \E request \in Requests(c)[op] :
       /\ frame' = [frame EXCEPT ![c] = request]
       /\ Goto(c, IF op \in {"create", "relay"} THEN op ELSE "find")
  /\ UNCHANGED <<shared, socket, self, history>>

\* ReadClientData failed: onCloseConnection(user).
\* Slip: the loop is left without onCloseConnection.
ReadErrorNoClose(c) ==
  /\ pc[c] = "read" /\ socket[c] = "closed"
  /\ Goto(c, "defer")
  /\ UNCHANGED <<shared, socket, self, frame, sent, history>>

ReadError(c) ==
  /\ pc[c] = "read" /\ socket[c] = "closed"
  /\ HasSlot
  /\ frame' = [frame EXCEPT ![c] = Request("close", None, None)]
  /\ Goto(c, "scan")
  /\ UNCHANGED <<shared, socket, self, sent, history>>

\* The deferred delete(s.clients, socketID) and conn.Close().  They run when
\* SocketHandler returns and when a panic unwinds it.
\* Slip: the entry is deleted at the end of the read loop, and not deferred.
DeferNoDelete(c) ==
  /\ pc[c] = "defer"
  /\ socket' = [socket EXCEPT ![c] = "closed"]
  /\ Goto(c, "done")
  /\ UNCHANGED <<shared, self, frame, sent, history>>

Defer(c) ==
  /\ pc[c] = "defer"
  /\ clients' = [clients EXCEPT ![self[c].peer] = None]
  /\ socket' = [socket EXCEPT ![c] = "closed"]
  /\ Goto(c, "done")
  /\ UNCHANGED <<rooms, owner, users, messages, self, frame, sent, history>>

-----------------------------------------------------------------------------
(***************************************************************************)
(* Steps of the handlers of processMessage and of onCloseConnection.  A    *)
(* handler is a path through the labels; it is at "send" once per user:    *)
(*   text            find loadlog storelog data send                       *)
(*   create          create created                                        *)
(*   join            find load store start data send                       *)
(*   leave           find load store check, then remove or data send       *)
(*   add/removeFake  find load store data send                             *)
(*   sdp, candidate  relay                                                 *)
(*   close           scan, and the path of leave from each "next"          *)
(***************************************************************************)

\* CreateRoom.  uuid.New() draws an id never drawn before; when this instance
\* has no such id left the call fails, as it would on a collision.
Create(c) ==
  /\ pc[c] = "create"
  /\ \/ \E r \in RoomIds \ Known :
          /\ rooms' = rooms \cup {r}
          /\ owner' = [owner EXCEPT ![r] = self[c].peer]
          /\ users' = [users EXCEPT ![r] = AppendUser(EmptyBag, self[c])]
          /\ joined' = joined \cup {<<self[c].peer, r>>}
          /\ mine' = [mine EXCEPT ![c] = @ \cup {r}]
          /\ frame' = [frame EXCEPT ![c].room = r]
          /\ Goto(c, "created")
     \/ /\ RoomIds \subseteq Known
        /\ Return(c)
        /\ UNCHANGED <<rooms, owner, users, joined, mine>>
  /\ UNCHANGED <<clients, messages, socket, self, sent, inbox, roster,
                 unannounced, overtaken, lost, drained, panicked>>

\* The createRoomMessage branch answers with roomIsCreatedMessage.
Created(c) ==
  LET r == frame[c].room
      d == clients[self[c].peer]
  IN /\ pc[c] = "created" /\ ~Blocked(d)
     /\ Receive(d, [kind |-> "created", room |-> r, from |-> None, text |-> None])
     /\ ShowRoster(d, r, users[r])
     /\ Return(c)
     /\ UNCHANGED <<shared, socket, self, sent, joined, mine, unannounced,
                    overtaken, lost, drained, panicked>>

\* r.rooms[id], in GetRoom and at the head of every operation on a room.
Find(c) ==
  /\ pc[c] = "find"
  /\ IF frame[c].room \in rooms
     THEN /\ Goto(c, IF frame[c].op = "text" THEN "loadlog" ELSE "load")
          /\ UNCHANGED frame
     ELSE Return(c)
  /\ UNCHANGED <<shared, socket, self, sent, history>>

\* room.Messages = append(room.Messages, newMessage): a load, then a store.
LoadLog(c) ==
  /\ pc[c] = "loadlog"
  /\ frame' = [frame EXCEPT ![c].log = messages[frame[c].room]]
  /\ Goto(c, "storelog")
  /\ UNCHANGED <<shared, socket, self, sent, history>>

\* Slip: the new message replaces the messages.
StoreLogFresh(c) ==
  /\ pc[c] = "storelog"
  /\ messages' = [messages EXCEPT ![frame[c].room] = {frame[c].arg}]
  /\ frame' = [frame EXCEPT ![c].log = {}]
  /\ Goto(c, "data")
  /\ UNCHANGED <<clients, rooms, owner, users, socket, self, sent, history>>

StoreLog(c) ==
  /\ pc[c] = "storelog"
  /\ messages' = [messages EXCEPT ![frame[c].room] = frame[c].log \cup {frame[c].arg}]
  /\ Loses(frame[c].room, messages[frame[c].room] # frame[c].log)
  /\ frame' = [frame EXCEPT ![c].log = {}]
  /\ Goto(c, "data")
  /\ UNCHANGED <<clients, rooms, owner, users, socket, self, sent, inbox, roster,
                 joined, mine, unannounced, overtaken, drained, panicked>>

\* room.Users = append(room.Users, user) or filterUsers(room.Users, ...): the
\* slice is loaded here and the new one stored by the next step.
Load(c) ==
  /\ pc[c] = "load"
  /\ frame' = [frame EXCEPT ![c].seen = users[frame[c].room]]
  /\ Goto(c, "store")
  /\ UNCHANGED <<shared, socket, self, sent, history>>

\* Slips: the user is appended to a copy of the room; only the first occurrence
\* is filtered out.
JoinACopy(c)  == frame[c].seen
LeaveFirst(c) == [frame[c].seen EXCEPT ![self[c]] = IF @ > 0 THEN @ - 1 ELSE 0]

JoinToRoom(c)     == AppendUser(frame[c].seen, self[c])
LeaveRoom(c)      == WithoutPeer(frame[c].seen, self[c].peer)
AddFakeUser(c)    == AppendUser(frame[c].seen, [id |-> frame[c].arg, peer |-> NoPeer])
RemoveFakeUser(c) == WithoutId(frame[c].seen, frame[c].arg)

\* What the goroutine loaded is not what the room holds, or the room was removed
\* since it was found.
Stale(c) == frame[c].room \notin rooms \/ frame[c].seen # users[frame[c].room]

\* Slip: the room is put back into the map with its new users.
StoreJoinBack(c) ==
  LET r == frame[c].room
  IN /\ pc[c] = "store" /\ frame[c].op = "join"
     /\ users' = [users EXCEPT ![r] = JoinToRoom(c)]
     /\ rooms' = rooms \cup {r}
     /\ joined' = joined \cup {<<self[c].peer, r>>}
     /\ mine' = [mine EXCEPT ![c] = @ \cup {r}]
     /\ Loses(r, Stale(c))
     /\ Goto(c, "start")
     /\ UNCHANGED <<clients, owner, messages, socket, self, frame, sent, inbox,
                    roster, unannounced, overtaken, drained, panicked>>

\* JoinToRoom has run; a join without a peerId ends here, announced to nobody.
StoreJoin(c) ==
  LET r == frame[c].room
  IN /\ pc[c] = "store" /\ frame[c].op = "join"
     /\ users' = [users EXCEPT ![r] = JoinToRoom(c)]
     /\ joined' = joined \cup {<<self[c].peer, r>>}
     /\ mine' = [mine EXCEPT ![c] = @ \cup {r}]
     /\ Loses(r, Stale(c))
     /\ IF frame[c].arg = None
        THEN /\ unannounced' = unannounced \cup {r}
             /\ Return(c)
        ELSE /\ Goto(c, "start")
             /\ UNCHANGED <<unannounced, frame>>
     /\ UNCHANGED <<clients, rooms, owner, messages, socket, self, sent, inbox,
                    roster, overtaken, drained, panicked>>

StoreLeave(c) ==
  LET r == frame[c].room
  IN /\ pc[c] = "store" /\ frame[c].op \in {"leave", "close"}
     /\ users' = [users EXCEPT ![r] = LeaveRoom(c)]
     /\ mine' = [mine EXCEPT ![c] = @ \ {r}]
     /\ Loses(r, Stale(c))
     /\ Goto(c, "check")
     /\ UNCHANGED <<clients, rooms, owner, messages, socket, self, frame, sent,
                    inbox, roster, joined, unannounced, overtaken, drained, panicked>>

\* removeFakeUser goes by the id alone, so it takes real users of that id too.
TakesReal(c) ==
  frame[c].op = "removeFake" /\ \E u \in RealUser : u.id = frame[c].arg /\ frame[c].seen[u] > 0

StoreFake(c) ==
  LET r == frame[c].room
  IN /\ pc[c] = "store" /\ frame[c].op \in {"addFake", "removeFake"}
     /\ users' = [users EXCEPT ![r] = IF frame[c].op = "addFake"
                                      THEN AddFakeUser(c) ELSE RemoveFakeUser(c)]
     /\ drained' = IF users'[r] = EmptyBag THEN drained \cup {r} ELSE drained
     /\ Loses(r, Stale(c) \/ TakesReal(c))
     /\ Goto(c, "data")
     /\ UNCHANGED <<clients, rooms, owner, messages, socket, self, frame, sent,
                    inbox, roster, joined, mine, unannounced, overtaken, panicked>>

\* Slip: the length tested is that of the slice before the filter.
CheckOld(c) ==
  LET r == frame[c].room
  IN /\ pc[c] = "check"
     /\ Goto(c, IF frame[c].seen = EmptyBag THEN "remove" ELSE "data")
     /\ UNCHANGED <<shared, socket, self, frame, sent, history>>

\* len(r.rooms[roomID].Users) == 0 in LeaveRoom looks the room up again: when
\* it is gone, the nil dereference panics and unwinds SocketHandler.
Check(c) ==
  LET r == frame[c].room
  IN /\ pc[c] = "check"
     /\ IF r \notin rooms
        THEN Panic(c)
        ELSE /\ Goto(c, IF users[r] = EmptyBag THEN "remove" ELSE "data")
             /\ UNCHANGED <<frame, panicked>>
     /\ UNCHANGED <<shared, socket, self, sent, inbox, roster, joined, mine,
                    unannounced, overtaken, lost, drained>>

\* RemoveRoom(roomID, room.Owner), whose error LeaveRoom ignores.  LeaveRoom
\* then returns nil, and so do both of its callers: onCloseConnection without
\* leaving the rooms it has still to leave.  When another goroutine removed the
\* room after the check, RemoveRoom may find it in its first lookup and not in
\* the second, whose result it dereferences.
Remove(c) ==
  LET r == frame[c].room
  IN /\ pc[c] = "remove"
     /\ rooms' = rooms \ {r}
     /\ Loses(r, users[r] # EmptyBag)
     /\ \/ Return(c) /\ UNCHANGED panicked
        \/ r \notin rooms /\ Panic(c)
     /\ UNCHANGED <<clients, owner, users, messages, socket, self, sent, inbox,
                    roster, joined, mine, unannounced, overtaken, drained>>

\* startPeerConnectionMessage to the owner, when the map has one.  Writing to
\* a closed socket may fail, and the join then ends without an announcement.
Start(c) ==
  LET r == frame[c].room
      d == clients[owner[r]]
  IN /\ pc[c] = "start" /\ ~Blocked(d)
     /\ \/ /\ Receive(d, [kind |-> "start", room |-> r, from |-> self[c].peer,
                          text |-> None])
           /\ Goto(c, "data")
           /\ UNCHANGED <<frame, unannounced>>
        \/ /\ d # None /\ socket[d] = "closed"
           /\ unannounced' = unannounced \cup {r}
           /\ Return(c)
           /\ UNCHANGED inbox
     /\ UNCHANGED <<shared, socket, self, sent, roster, joined, mine, overtaken,
                    lost, drained, panicked>>

\* Slips: everybody connected is served; nobody is told what it did itself.
RecipientsAll(c) ==
  [u \in User |-> IF u.peer \in PeerIds /\ clients[u.peer] # None THEN 1 ELSE 0]
RecipientsOthers(c) == WithoutPeer(users[frame[c].room], self[c].peer)

\* Whom the loops of the text branch, sendToAllRoom, sendToRoom (leave) and
\* onCloseConnection go through: the last two skip the peer itself.
Recipients(c) ==
  IF frame[c].op \in {"leave", "close"}
  THEN WithoutPeer(users[frame[c].room], self[c].peer)
  ELSE users[frame[c].room]

\* Slip: the users put in the data are those loaded before the change.
DataStale(c) ==
  /\ pc[c] = "data"
  /\ frame' = [frame EXCEPT ![c].todo = Recipients(c)]
  /\ unannounced' = unannounced \ {frame[c].room}
  /\ overtaken' = overtaken \ {frame[c].room}
  /\ Goto(c, "send")
  /\ UNCHANGED <<shared, socket, self, sent, inbox, roster, joined, mine, lost, drained, panicked>>

\* RoomToMap(room), and the slice the loop that follows ranges over.
Data(c) ==
  /\ pc[c] = "data"
  /\ frame' = [frame EXCEPT ![c].seen = users[frame[c].room],
                            ![c].todo = Recipients(c)]
  /\ IF frame[c].op = "text"
     THEN UNCHANGED <<unannounced, overtaken>>
     ELSE /\ unannounced' = unannounced \ {frame[c].room}
          /\ overtaken' = overtaken \ {frame[c].room}
  /\ Goto(c, "send")
  /\ UNCHANGED <<shared, socket, self, sent, inbox, roster, joined, mine, lost, drained, panicked>>

Served(c, u) == frame' = [frame EXCEPT ![c].todo[u] = @ - 1]

\* The data is older than what the connection shows already.
Overtakes(c, d) ==
  LET now == users[frame[c].room]
  IN Receives(d) /\ frame[c].seen # now /\ roster[d][frame[c].room] = now

Send(c) ==
  /\ pc[c] = "send"
  /\ \E u \in User :
       LET r == frame[c].room
           d == clients[u.peer]
       IN /\ frame[c].todo[u] > 0 /\ ~Blocked(d)
          /\ Served(c, u)
          /\ IF frame[c].op = "text"
             THEN /\ Receive(d, [kind |-> "text", room |-> r, from |-> None,
                                 text |-> frame[c].arg])
                  /\ UNCHANGED <<roster, overtaken>>
             ELSE /\ Receive(d, [kind |-> "update", room |-> r, from |-> None,
                                 text |-> None])
                  /\ ShowRoster(d, r, frame[c].seen)
                  /\ overtaken' = IF Overtakes(c, d) THEN overtaken \cup {r} ELSE overtaken
  /\ UNCHANGED <<shared, socket, self, pc, sent, joined, mine, unannounced, lost, drained, panicked>>

Sent(c) ==
  /\ pc[c] = "send" /\ frame[c].todo = EmptyBag
  /\ IF frame[c].op = "close"
     THEN /\ Goto(c, "next")
          /\ UNCHANGED frame
     ELSE Return(c)
  /\ UNCHANGED <<shared, socket, self, sent, history>>

\* The sdpMessage and candidateMessage branches: forward the data to message.To.
Relay(c) ==
  /\ pc[c] = "relay" /\ ~Blocked(clients[frame[c].arg])
  /\ Receive(clients[frame[c].arg], [kind |-> "relay", room |-> None,
                                     from |-> self[c].peer, text |-> None])
  /\ Return(c)
  /\ UNCHANGED <<shared, socket, self, sent, roster, joined, mine, unannounced,
                 overtaken, lost, drained, panicked>>

\* onCloseConnection: GetUserRooms, then LeaveRoom for each, in map order.
GetUserRooms(peer) == {r \in rooms : hasUser(users[r], peer)}

Scan(c) ==
  /\ pc[c] = "scan"
  /\ frame' = [frame EXCEPT ![c].left = GetUserRooms(self[c].peer)]
  /\ Goto(c, "next")
  /\ UNCHANGED <<shared, socket, self, sent, history>>

\* getRooms of RoomsController, behind GET /api/room: it asks with the id of the
\* token's user, where GetUserRooms compares socket ids.
getRooms(c) == GetUserRooms(self[c].id)

\* Slip: the room stays in the list of rooms to leave.
NextRoomAgain(c) ==
  /\ pc[c] = "next"
  /\ \/ \E r \in frame[c].left :
          /\ frame' = [frame EXCEPT ![c] = [Request("close", r, None) EXCEPT
                                              !.left = frame[c].left]]
          /\ Goto(c, "find")
     \/ /\ frame[c].left = {}
        /\ Return(c)
  /\ UNCHANGED <<shared, socket, self, sent, history>>

NextRoom(c) ==
  /\ pc[c] = "next"
  /\ \/ \E r \in frame[c].left :
          /\ frame' = [frame EXCEPT ![c] = [Request("close", r, None) EXCEPT
                                              !.left = frame[c].left \ {r}]]
          /\ Goto(c, "find")
     \/ /\ frame[c].left = {}
        /\ Return(c)
  /\ UNCHANGED <<shared, socket, self, sent, history>>

-----------------------------------------------------------------------------
(***************************************************************************)
(* Data races.  Two goroutines race when the next access of each is to the *)
(* same map or slice and one of them writes.  The Go runtime kills the     *)
(* process when it sees two such map operations overlap ("concurrent map   *)
(* writes", "concurrent map iteration and map write"), and a slice header  *)
(* torn between two stores can fault; when neither happens the two         *)
(* accesses take effect in some order, as in the interleaved steps.        *)
(***************************************************************************)
ReadsRooms(c)    == pc[c] \in {"find", "check", "scan"}
WritesRooms(c)   == pc[c] \in {"create", "remove"}
ReadsClients(c)  == \/ pc[c] \in {"created", "start", "relay"}
                    \/ pc[c] = "send" /\ frame[c].todo # EmptyBag
WritesClients(c) == pc[c] \in {"register", "defer"}
ReadsUsers(c, r) == \/ pc[c] \in {"load", "check", "data", "created"} /\ frame[c].room = r
                    \/ pc[c] = "scan" /\ r \in rooms
WritesUsers(c, r) == pc[c] = "store" /\ frame[c].room = r
ReadsLog(c, r)   == /\ frame[c].room = r
                    /\ \/ pc[c] \in {"loadlog", "created"}
                       \/ pc[c] = "data" /\ frame[c].op # "text"
WritesLog(c, r)  == pc[c] = "storelog" /\ frame[c].room = r

Conflict(c, d) ==
  \/ WritesRooms(c) /\ (ReadsRooms(d) \/ WritesRooms(d))
  \/ WritesClients(c) /\ (ReadsClients(d) \/ WritesClients(d))
  \/ \E r \in RoomIds : WritesUsers(c, r) /\ (ReadsUsers(d, r) \/ WritesUsers(d, r))
  \/ \E r \in RoomIds : WritesLog(c, r) /\ (ReadsLog(d, r) \/ WritesLog(d, r))

Race == \E c, d \in Conns : c # d /\ Conflict(c, d)

\* GET /api/room ranges over the rooms and their users, at any moment, in a
\* goroutine of its own (the page asks when its socket opens).
ApiRace == \E c \in Conns : WritesRooms(c) \/ \E r \in rooms : WritesUsers(c, r)

\* The process dies and is started again: composeRouter makes an empty
\* RoomService and an empty WsServer, nothing was stored outside the process,
\* every connection breaks.  Connections still to come reach the new process,
\* and the ids of the lost rooms are still in the links clients have.
Restart ==
  /\ clients' = [p \in PeerIds \cup {NoPeer} |-> None]
  /\ rooms' = {}
  /\ pc' = [c \in Conns |-> IF pc[c] = "new" THEN "new" ELSE "done"]
  /\ frame' = [c \in Conns |-> Idle]
  /\ socket' = [c \in Conns |-> IF pc[c] = "new" THEN socket[c] ELSE "closed"]
  /\ UNCHANGED <<owner, users, messages, self, sent, history>>

Fatal == (Race \/ ApiRace) /\ Restart

\* SIGTERM.  Run asks for the signal after ListenAndServe only, which does not
\* return: the signal kills the process where it is.
Terminate == MayTerminate /\ Restart

-----------------------------------------------------------------------------
(* What a goroutine does once it has started: its handler up to the end, and
   the end of the connection after a failed read. *)
Work(c) ==
  \/ Register(c) \/ ReadError(c) \/ Defer(c)
  \/ Create(c) \/ Created(c)
  \/ Find(c) \/ LoadLog(c) \/ StoreLog(c)
  \/ Load(c) \/ StoreJoin(c) \/ StoreLeave(c) \/ StoreFake(c)
  \/ Check(c) \/ Remove(c) \/ Start(c)
  \/ Data(c) \/ Send(c) \/ Sent(c) \/ Relay(c)
  \/ Scan(c) \/ NextRoom(c)

\* What the clients do.
Client(c) == Accept(c) \/ ReadMessage(c) \/ Hangup(c) \/ Stall(c) \/ Resume(c)

Terminated == (\A c \in Conns : pc[c] = "done") /\ UNCHANGED vars

Next == (\E c \in Conns : Work(c) \/ Client(c)) \/ Fatal \/ Terminate \/ Terminated

\* The Go scheduler runs every goroutine that can run, and a write that waits
\* for buffer space goes on when the client makes space, however often it stops
\* again.  Clients are free to send or not, to stay or to leave; one that
\* stopped reading reads again or goes.
Fairness ==
  \A c \in Conns : /\ SF_vars(Work(c))
                   /\ WF_vars(Resume(c) \/ (socket[c] = "stalled" /\ Hangup(c)))

Spec == Init /\ [][Next]_vars

FairSpec == Spec /\ Fairness

-----------------------------------------------------------------------------
(***************************************************************************)
(* Properties that hold however the handlers interleave.                   *)
(***************************************************************************)

Serving(c) == pc[c] \notin {"new", "register", "done"}

\* The clients map is exact: an entry is a connection that registered under
\* that id and whose goroutine has not ended, panics included; and a goroutine
\* that serves a connection finds it in the map unless another connection came
\* with the same id (the "check id is used" of SocketHandler is not done).
RegistryExact ==
  /\ \A p \in PeerIds \cup {NoPeer} :
       clients[p] # None => Serving(clients[p]) /\ self[clients[p]].peer = p
  /\ \A c \in Conns :
       /\ Serving(c)
       /\ \A d \in Admitted \ {c} : self[d].peer # self[c].peer
       => clients[self[c].peer] = c

\* Texts, rosters and start requests of a room reach only connections whose
\* peer was put into that room, whoever leaves, joins or disconnects while the
\* loop of send() runs.
NoForeignDelivery ==
  \A c \in Conns : \A out \in inbox[c] :
    out.room # None => <<self[c].peer, out.room>> \in joined

\* LeaveRoom tests the length of the slice it finds, not of the slice it
\* stored: still, no interleaving leaves a room without users in the map
\* behind, except the room RemoveFakeUser emptied, which nobody removes.
NoEmptyRoom ==
  \A r \in rooms :
    users[r] = EmptyBag =>
      \/ r \in drained
      \/ \E c \in Conns : pc[c] \in {"check", "remove"} /\ frame[c].room = r

\* Under every interleaving the server keeps the contract of RoomContract: a
\* room is opened once and removed once, keeps its owner, does not come back
\* although goroutines go on working on it through the pointers they hold, and
\* what is said in it reaches only peers that were put into it.
phase == [r \in RoomIds |-> IF owner[r] = None THEN "absent"
                            ELSE IF r \in rooms THEN "live" ELSE "gone"]

reached == {m \in PeerIds \X RoomIds :
              \E c \in Admitted : /\ self[c].peer = m[1]
                                  /\ \E out \in inbox[c] : out.room = m[2]}

Contract == INSTANCE RoomContract
  WITH Peers <- PeerIds, Rooms <- RoomIds, Nobody <- None, admitted <- joined

KeepsContract == Contract!Spec

\* Whatever the other goroutines do, a connection its client closed ends up
\* unregistered and its goroutine gone.
ClosedIsForgotten ==
  \A c \in Conns : socket[c] = "closed" ~> pc[c] = "done"

-----------------------------------------------------------------------------
(***************************************************************************)
(* What a client can rely on.  Overlapping handlers do lose changes: `lost'*)
(* and `overtaken' name the steps at which they do, and the properties say *)
(* that nothing is lost at any other step.                                 *)
(***************************************************************************)
Quiet == \A c \in Conns : ~Busy(c)

Present(c, r) == r \in rooms /\ hasUser(users[r], self[c].peer)

\* What JoinToRoom, CreateRoom and LeaveRoom told a connection is what a look
\* into the rooms shows (the claims of TestJoinLeaveRoom): it is in the rooms
\* it entered and did not leave, unless a slice was stored there that another
\* goroutine had changed since it was loaded, the room was removed under its
\* users, or a real user was removed as a fake one.
JoinIsVisible ==
  \A c \in Conns : pc[c] = "read" => \A r \in mine[c] \ lost : Present(c, r)

\* ... and in no other room.
LeaveIsFinal ==
  \A c \in Conns : pc[c] = "read" => \A r \in rooms \ (mine[c] \cup lost) : ~Present(c, r)

\* Every connection that is in a room and did not leave it was last told exactly
\* the users the room has, lost changes included: whoever changed them last
\* told everybody.  Except when that was a join that returned early, without a
\* peerId or because the owner's socket was closed, and when an older update
\* overtook a newer one on its way to a connection.
RosterAgreement ==
  Quiet => \A c \in Conns, r \in rooms \ (unannounced \cup overtaken) :
             pc[c] = "read" /\ socket[c] = "open" /\ r \in mine[c] /\ Present(c, r) =>
               roster[c][r] = users[r]

\* Every text somebody received is in the history a later member is given,
\* unless two appends to the history of that room overlapped.
HistoryComplete ==
  \A c \in Conns : \A out \in inbox[c] :
    out.kind = "text" /\ out.room \in rooms \ lost => out.text \in messages[out.room]

\* A peer that only ever entered one room is in no room once its goroutine has
\* ended, whatever the others do to the room while it leaves, unless a panic in
\* LeaveRoom ended it: onCloseConnection then does not run.  (One that entered
\* several may stay behind in all but one of them.)
SingleRoomExitIsClean ==
  \A c \in Conns \ panicked : \A r \in rooms \ lost :
    pc[c] = "done" /\ self[c] # None /\ Present(c, r) =>
      \E q \in RoomIds \ {r} : <<self[c].peer, q>> \in joined

\* A join of a room that is there is answered, however the other goroutines
\* block on clients that do not read: the joiner gets the room, or it has gone,
\* or the write to the owner failed, or its user was lost from the room to an
\* overlapping change.
JoinIsAnswered ==
  \A c \in Conns, r \in RoomIds :
    pc[c] = "start" /\ frame[c].room = r ~>
      \/ roster[c][r] # None
      \/ socket[c] = "closed"
      \/ r \in unannounced
      \/ self[c] # None /\ ~hasUser(users[r], self[c].peer)

-----------------------------------------------------------------------------
(***************************************************************************)
(* Statements of the repository the code does not live up to.              *)
(***************************************************************************)

\* "go run -race": the server runs without a data race.
RaceFree == ~Race

\* "onCloseConnection leave %d rooms for %s": a closed connection has left all
\* its rooms.
CloseLeavesAllRooms ==
  \A c \in Conns : \A r \in rooms :
    pc[c] = "done" /\ self[c] # None => ~Present(c, r)

\* "all peers connects to room owner": the owner a join asks to start the
\* connection is among the clients when the join goes on to its announcement.
AllPeersConnectToOwner ==
  \A c \in Conns :
    pc[c] = "data" /\ frame[c].op = "join" => clients[owner[frame[c].room]] # None

\* "GetUserRooms return list of rooms for particular user": the API lists the
\* rooms its user is in.
ApiListsRooms ==
  \A c \in Conns : pc[c] = "read" => {r \in rooms : Present(c, r)} \subseteq getRooms(c)
=============================================================================
