# websignal in TLA+

websignal is a WebRTC signalling server in Go with a browser front end. People sign in with an
OAuth2 provider or with a local form, a page opens a websocket, creates or joins a conference room,
and exchanges texts, session descriptions and ICE candidates through the server. This directory
models the server, the sign-in and the conference of the pages, checks them with TLC and proves the main
invariants with TLAPS.

## The system

| part | state | operations | talks to |
|---|---|---|---|
| `RoomService` (`server/roomService.go`) | `rooms`, a map from ids to `*Room`; a room's `Owner`, `Users`, `Messages` | create, join, leave, remove, add and remove a fake user, list the rooms of a user | called by the goroutines of the websockets and of `GET /api/room` |
| `WsServer` (`server/websocket.go`, `message.go`) | `clients`, a map from socket ids to connections | `SocketHandler`, `processMessage` (text, create, join, leave, add and remove fake user, sdp, candidate), `onCloseConnection`, `send` | `RoomService`, `Auth.ValidateToken`, the sockets of other clients |
| `RoomsController` (`server/roomsController.go`) | none | `getRooms` | `RoomService`, behind the middleware `Auth.Auth` |
| Sessions (`auth/auth.go`, `jwt.go`, `auth2provider.go`) | none but a provider's `conf.RedirectURL`; a session is a signed token in the cookie `jwt` | login, callback, local login, logout, `/auth/user`, `ValidateToken`, the middleware with its refresh | the browser's cookie, the OAuth2 provider |
| Sign-in of a page (`static/src/auth.js`, `store.js`, `rooms.js`, `view/login.js`, `view/header.js`) | the cookie shared by all tabs; the user a page shows; its socket | load the page, log in, log out | `/auth`, `/ws`, `/api/room` |
| Send queue of a page (`static/src/connection.js`) | the socket, `messageQueue`, a timer | `connect`, `send` | the server |
| Conference in a page (`static/src/store.js`, `webrtc.js`) | room, users, messages, peer connections, tracks, streams | start, join, stop, load and drop a file, answer the server's messages | the websocket, other peers |
| Bootstrap (`main.go`, `server/server.go`) | none | `composeRouter`, `Run` | all of the server |
| The rest: views, static files, logger | none of interest | | |

What is hard in it:

* **Goroutines without a lock.** net/http runs a goroutine per websocket and all of them work on the
  `clients` map, the `rooms` map and the slices of a room. There is no mutex and no channel.
* **Failure in the middle.** A join adds the user first and looks at its arguments afterwards; a write
  to a dead socket ends a handler half way; a nil dereference unwinds one; a leave stops at the first
  room it empties.
* **Peers that do not read.** No connection has a deadline, so that a write waits as long as it takes.
* **Requests that cross.** The tabs of a browser share one cookie. It is read when a request is sent,
  and written when an answer arrives, which may be after another tab logged in or out.
* **Awaits that overlap.** A page is single-threaded, but a join, a file that was loaded and one that is
  dropped each await the browser several times, on the same peer connections, and keep what they read
  before. Offers, answers and candidates cross on the way.
* **Restarts.** Nothing is stored: a process that ends forgets all rooms, and links to them live on.
* **Time.** Tokens expire between two requests of a page that loads.

What makes each part correct: the registry names the living connections and no others; rooms are
removed when and only when they are empty; a message of a room stays among those that were put into it;
members agree on who is in the room; a closed connection is cleaned up; a session was earned, ends by a
logout, and is the same for a page, its socket and its cookie; a page's messages are sent in order, none
twice; two ends of a peer connection agree when nothing is under way, guests play what they are sent, and
what the owner loads it can remove.

## Modules

| module | what it is |
|---|---|
| `RoomService` | data: users, the `Users` slice as a bag, `append`, `filterUsers`, `hasUser` |
| `WsServer` | the server: goroutines over shared maps and rooms; its properties |
| `RoomContract` | abstract: rooms are opened once, closed once, and what is said in a room reaches only admitted peers |
| `MCWsServer` | instances of `WsServer` for TLC |
| `WsServerProofs` | proofs: types and locals; registry, empty rooms, deliveries, refinement |
| `WsServerPromises` | proofs: history, membership, rosters, clean exits, with handlers that overlap |
| `Auth` | sessions: handlers, tokens and a browser with several tabs; its properties |
| `MCAuth` | instances of `Auth` for TLC |
| `AuthProofs` | proofs: types, earned sessions, pages, logouts |
| `Connection` | the send queue of a page and its timer; its properties |
| `Channel` | abstract: messages arrive in order, none left out or repeated, until the channel is cut |
| `ConnectionProofs` | proofs: types, order, refinement of `Channel` |
| `PeerConnection` | external: `RTCPeerConnection` as the pages use it, as operators on records |
| `Conference` | one room as its pages see it: owner, guests, server, negotiation; its properties |
| `MCConference` | the instance of `Conference` for TLC |
| `ConferenceShape`, `ConferenceProofs` | proofs: types and the order of the loops; rooms, messages, offers |
| `ConferenceTalk` | proofs: offers and answers, both ends of a connection |
| `ConferenceFiles` | proofs: the arrays of fake users, and what the guests play |

### WsServer

`clients` is `WsServer.clients`, `rooms` the set of keys of `RoomService.rooms`, and `owner`, `users`,
`messages` the fields of the `Room` values. These outlive their key: a goroutine that has the pointer of a
removed room goes on working on it, as in the code. `self`, `pc` and `frame` are the locals of the
goroutine of a connection.

A step is one access to shared memory or one message written. The handlers are paths through these
steps (they are listed in the module): a join, for example, is `Find` (look the room up), `Load` and
`StoreJoin` (the append), `Start` (tell the owner), `Data` (make the room data), and a `Send` for each
user. Load and store are separate steps because another goroutine's store may come between them. An
early return in the code is a disjunct that ends in `Return`; a nil dereference is one that goes to
`defer`, where the deferred `delete` and `Close` run.

`Restart` is the end of the process and its new start: the connections break, the maps are made anew by
`composeRouter`, and connections still to come find an empty server. It has two causes. `Fatal` is the Go
runtime that ends the process when it sees two map operations overlap: it is enabled when the next
accesses of two goroutines conflict (`Race`), or when one of them writes what `GET /api/room` ranges over
(`ApiRace`), and it may happen or not. `Terminate` is SIGTERM, in the instances that have it: `Run`
subscribes to the signal after `ListenAndServe`, which does not return, so that nothing is shut down.

The clients of the server are its environment. They connect with any token user and socket id, send any
message about any room that was ever created, hang up at any moment, and stop and start reading.

The history variables record what clients were sent (`inbox`, `roster`), who was ever put into a room
(`joined`), what a client may believe from the calls it completed (`mine`), and the steps at which the code
breaks a promise, by which the properties name their exceptions: a join that ended early and told nobody
(`unannounced`), a store of a slice that another goroutine changed since it was loaded, a room removed under
its users or a real user removed as a fake one (`lost`), an update written to a member that was told of
newer users already (`overtaken`, until the next update of the room), a room emptied by RemoveFakeUser
(`drained`), and a goroutine that a panic unwound (`panicked`).

Abstractions:

* `Users` is a bag. No decision depends on the order of the slice, but duplicates matter: a client that
  joins twice is listed and served twice.
* The write of an element by `append` and the store of the slice header are one step; two appends that
  share a backing array are modelled by the lost update of the header only.
* `GetUserRooms` looks at all rooms in one step, and a loop that sends ranges over the users read at its
  start, as `range` does.
* Two goroutines that write to one socket at the same time are taken to write whole frames.
* A room id that never existed behaves like one that was removed; only the latter are sent.
* `GET /api/room` changes nothing. Its answer is `getRooms`, and that its goroutine reads the maps at any
  moment is `ApiRace`.
* Admission is a choice of a user or of none: what a token must be is the subject of `Auth`.

### Auth

The server keeps nothing about a session, so browsers do not interact and the model has one, with
several tabs. A tab has one navigation, or one `/auth/user`, under way at a time. The request takes the cookie
when it is sent, one action per handler turns it into an answer, and an answer changes the cookie when it
arrives: between these three moments the other tabs do as they like. After a redirect the next document comes
(`Load`), and the page asks `/auth/user`, reads the token from the cookie when that is answered, and shows its
user and opens its socket at once.

The websocket and the request for the rooms go on behind the page, and while it is being left, until the next
document ends its scripts. `SocketHandler` upgrades the connection before it validates the token, so that
a socket opens (`OnOpen`) and the page asks for the rooms whether the socket is then admitted or refused
(`OnClose`); and the middleware before that request refreshes the cookie of an expired session.
Panics of handlers are answers of the status `dead`: net/http closes the connection.

The person loads pages, fills in forms, comes back from the provider signed in or not, goes back,
reloads a tab whose request failed, and closes the browser. The provider and its answers, the clock and
the losses are the environment. `Blank` is the account `mapUser` makes of a JSON answer that is no
profile: the status of the provider's response is not looked at.

Abstractions: tokens are records, as only the server can sign one; there is one provider beside the
local form, for a handshake does not name its provider; a handler that cannot draw a random token is
left out, and so is the `session` parameter, which `Set` ignores. The header `X-JWT`
and the query parameter are not used by the front end for requests other than the socket's.

### Connection

A task of the event loop is a step: the store calls `send`, the timer runs out, the socket opens or
closes. A message is its number in the order of the calls of `send`, and 0 is the `undefined` the timer
passes on when it calls `send` without an argument, which is queued like a message when the socket is
still not open. `Channel` does not know of the queue: `accepted` is the number of calls, `delivered` the
messages among the frames written, and the channel is `cut` when the socket is closed.

### Conference

`PeerConnection` has what the negotiation depends on in a browser: signalling states, the operations
chain in which `createOffer`, `setLocalDescription` and the others wait for each other, m-lines and tracks
of a description, and when an answer or an offer is refused. A description that is not the last one
created *may* be refused; the recommendation says it must and browsers differ.

In `Conference`, `ownerPc` and `guestPc` are the `peers` of the pages (the star of the code: the owner has
one for each guest, a guest the one to the owner), `peers` the order of the owner's keys, `streams` and
`tracks` the fields of `WebRTC`. `room` is `Store.data.room`, of which only the fake users matter. `arrays`,
`fakeUsers` and `captured` are the arrays `Store.data.fakeUsers` has been, the one it is, and those that
`dropClient` and `onMp3FileLoad` took before their awaits: the code changes arrays in place (`push`) and
replaces them (`filter`), so their identity is state. `todo` is what remains of a loop over the peers.
`down` are the messages on their way to each page: links are FIFO and the server relays in order, so the way
up and the way down are one queue. The server's handlers overlap as far as the pages can tell: the goroutine
of a joiner asks the owner to connect (`Join`), makes the data of the room (`Announce`), and writes it to
the members one by one (`SendUpdate`); that of a page that went does the last two (`LeaveRoom`). Between
these steps the owner changes the fake users, so that what is in `unsent` may be out of date when it is
written; `misled` remembers about which files a guest was told so. The owner's own updates are sent in the
step that changes the fake users, for nobody else changes them.

An await is the end of a step, and its continuation is the step that carries out the operation of the
peer connection. A loop takes up its next peer in the step in which the offer for the one before is set
and sent. Persons join, load, drop, stop and close their pages, `MaxActs` times all together; the model
starts with some guests connected.

Abstractions: the main track every end sends is left out; of the candidates there is one for each end,
sent when the first description was set; a file is loaded once; one drop of a file runs at a time.

## Runs

| run | instance | shows |
|---|---|---|
| `Overlap` | 2 connections with reused ids, 2 rooms, all messages, 3 messages, 2 handlers at a time, restarts | `TypeOK`, `RegistryExact`, `NoForeignDelivery`, `NoEmptyRoom`, `HistoryComplete`, `KeepsContract` |
| `Closing` | 2 connections that may stall, 1 room, 2 messages, 2 handlers at a time, fair | `ClosedIsForgotten`, `JoinIsAnswered` |
| `Promises` | 2 connections, fresh ids, 2 rooms, 4 messages, 2 handlers at a time | `JoinIsVisible`, `LeaveIsFinal`, `RosterAgreement`, `SingleRoomExitIsClean` |
| `Sessions` | 2 tabs, 2 users, 2 logins with the provider, 5 clicks, 3 ticks, lost messages | `TypeOK`, `SessionIsEarned`, `PageIsTheSession`, `LogoutHolds` |
| `LeadsHome` | 2 tabs, 1 user, 5 clicks, nothing lost or expired, fair | `LoginLeadsHome`, `PageComesUp` |
| `Sending` | 4 messages, 3 early timeouts, fair | `TypeOK`, `InOrder`, `IsAChannel`, `QueueIsFlushed` |
| `Conference` | an owner, 3 guests of whom 2 may be connected, 3 files of which 1 is loaded, 2 acts, or 3 with one guest; one late write | `TypeOK`, `EndsAgree`, `PlaysWhatIsSent`, `SilentWithoutRoom`, `MessageFindsPeer`, `EveryChangeIsOffered`, `Removable`, `JoinConnects` |
| `Race` | 2 connections | violated: `RaceFree` |
| `CloseStops` | 2 connections, 2 rooms | violated: `CloseLeavesAllRooms` |
| `OwnerGone` | 3 connections | violated: `AllPeersConnectToOwner` |
| `RoomsApi` | 2 connections | violated: `ApiListsRooms` |
| `Refusal` | 1 tab | violated: `SocketRefusalIsAnError` |

**What survives the overlaps.** All promises of the server are checked and proved with handlers that overlap
in every interleaving. Some hold without exception (`RegistryExact`, `NoForeignDelivery`, `KeepsContract`,
`ClosedIsForgotten`). What a reader of the code expects of it besides (a client that joined is in the room,
members agree on the users, the history is complete) does not survive every race that `Race` finds: a join
whose slice is stored over another's change undoes it, and an older update may arrive behind a newer one.
`Overlap` and `Promises` show that nothing else goes wrong: these steps are named in the model where the
code takes them (`lost`, `overtaken`), with the joins that return early (`unannounced`) and the panics
(`panicked`), and at every other step the promise is kept, whatever the others are doing. A lost change does
not even stop members from agreeing on the users that are left (`RosterAgreement`). Clients come and go at
any step, and a client of several rooms may stay behind in some (`CloseStops`).

**The conference.** What its run shows is that the negotiation survives overlaps the code does not prevent.
Loops and joins make several offers on one connection, of which some are refused and some answered twice,
and yet whenever a connection comes to rest its ends agree (`EndsAgree`), every guest is connected
(`JoinConnects`) and was offered exactly what it is sent (`EveryChangeIsOffered`): an offer lists all
tracks, the loops go through the peers in one order, and what cuts one loop short is an offer that says the
same. A drop that is cut short does not come to the peers behind, which go on being sent the file; but then
its user stays in the room, and nobody is sent a file whose user has gone. The exceptions, which the
properties name, are real too:

* A joiner may get the owner's offer before its own room update. Its `getUsers` then has no room, `ontrack`
  throws, and the track is never played (`early`).
* The update of a join or a leave is made before the loop that writes it, in another goroutine than the
  owner's. Written after the owner added a fake user, it takes the user away again at the guest, and the
  track that is offered next is not played (`misled`).
* Every load and every drop keeps the array of fake users it found and stores it when it ends. A load
  pushes to its array in place, so that all who kept the same one see the file; but when another load or
  drop beside it kept another array (`clashed`), the last of them to end may put back one without the
  file, which then has no X button for ever: a file chosen during a drop, or one that is loaded when a
  second drop begins beside a first. It takes three acts.
* A join while a file is offered may make the browser refuse the first offer to the joiner, and
  `onStartPeerConnection` reloads the owner's page: the conference is over.
* `addLocalAudioTracks` forgets the files loaded before (webrtc.js:210), so a later joiner is not offered
  them; and a file dropped when there are no peers stays in `tracks`, is offered to the next joiner and
  ignored there. `PlaysWhatIsSent` speaks of what a guest is sent, for this reason.

**Bounds.** In `Overlap` and `Promises` three messages put two members into a room and have one of them
leave, join again or be removed while the other disconnects, which is not counted as a message; a fourth
allows two rooms with two members, or a double join followed by a leave. A race needs two goroutines, and
the properties of both runs are proved for any number of them. Room ids are drawn afresh for each room; two
make the case of several rooms. In `Sessions` five clicks allow a login, a logout and another login in a
tab, or two logins with a provider that cross in two tabs and the callback of one, and three ticks with a
lifetime of one let a token expire and be refreshed. In `Conference` two loops must overlap, or a loop with
a join, a stop or a page that closes: that is two acts, on two connected guests, so that one loop can be at
each of them, and a third guest to join. Arrays of fake users cross only when three loads and drops do:
`MCConference` allows a third act for that, with one guest, since three acts with three guests are too many
for TLC; of two drops beside a load, and of more, the theorem speaks. Of the writes in `unsent` one at a
time is late, any of them, as long as a load or a drop may still change the fake users or the guest it is
for has no room; with three guests none is, and those who were there first answer an offer at once. The
theorems have none of these bounds. Every disjunct of the next-state relation of `Conference` fires. All
tabs, users and states are alike, and so are files, connections, socket ids and rooms: the symmetry sets of
the MC modules hold only for runs without liveness.

**Deadlock.** TLC checks it for the server: goroutines that wait for a client that does not read always have
that client to wait for. In `Auth`, `Connection` and `Conference` persons may stop, and `CHECK_DEADLOCK` is
off.

**Fairness.** `WsServer`: strong fairness of the steps of each goroutine, since Go's scheduler and the
network poller run a goroutine whose write can go on, however often the socket fills again; and weak
fairness of a client that stopped reading to read again or to go, since TCP keep-alive, which Go
switches on, ends a connection whose host has gone. Clients owe nothing else. A client that stops
reading for ever and stays connected would block for ever whoever writes to it: the assumption
says that none does. `Connection`: weak fairness of a timer that is due and of an attempt to connect, which
ends; an open socket may stay open. `Conference` needs none: `JoinConnects` says what holds when nothing
is under way. `Auth`: weak fairness of the handlers and of the arrival of answers; the person
owes nothing.

## What the violated runs say

* `Race`: two connections that open at the same time write `clients` at the same time; the server is
  started with `-race` by the Makefile. The process may die ("concurrent map writes").
* `CloseStops`: `onCloseConnection` returns when a room becomes empty and leaves none of the other
  rooms of the client, whose members keep somebody who has gone.
* `OwnerGone`: the room outlives its owner. When the owner's goroutine has ended, its id is no longer in
  `clients`, `to` is nil, the join succeeds and is announced, and nobody is asked to connect.
* `RoomsApi`: the rooms API looks rooms up by the user's id where they hold socket ids.
* `Refusal`: with an expired token `ValidateToken` returns a nil user and a nil error, and
  `SocketHandler` takes the user's id before it looks at the error. `/auth/user` accepts that token, so
  that a page whose cookie has expired shows its user and loses its socket.

## Theorems

All are proved for every value of the constants under the assumptions named in the modules
(`NoPeerAssumption`, `FakeIdsAssumption`, `OpsAssumption`, `NoneAssumption`, `PagesAssumption`, ...), which
say that ids of different kinds differ, the guests are finitely many and bounds are numbers; TLC evaluates
them in every run.

| theorem | states |
|---|---|
| `WsServerProofs!TypeCorrect` | `Spec => []TypeOK` |
| `WsServerProofs!RegistryCorrect` | `Spec => []RegistryExact` |
| `WsServerProofs!NoRoomStaysEmpty` | `Spec => []NoEmptyRoom` |
| `WsServerProofs!DeliveryIsConfined` | `Spec => []NoForeignDelivery` |
| `WsServerProofs!Refinement` | `Spec => KeepsContract` |
| `WsServerPromises!HistoryIsComplete` | `Spec => []HistoryComplete` |
| `WsServerPromises!JoinsAreVisible` | `FreshIds \|- Spec => []JoinIsVisible` |
| `WsServerPromises!LeavesAreFinal` | `FreshIds \|- Spec => []LeaveIsFinal` |
| `WsServerPromises!SingleRoomExitsAreClean` | `FreshIds \|- Spec => []SingleRoomExitIsClean` |
| `WsServerPromises!RostersAgree` | `FreshIds \|- Spec => []RosterAgreement` |
| `AuthProofs!TypeCorrect` | `Spec => []TypeOK` |
| `AuthProofs!SessionsAreEarned` | `Spec => []SessionIsEarned` |
| `AuthProofs!LogoutIsFinal` | `Spec => []LogoutHolds` |
| `AuthProofs!PagesAgree` | `Spec => []PageIsTheSession` |
| `ConnectionProofs!TypeCorrect` | `Spec => []TypeOK` |
| `ConnectionProofs!FramesInOrder` | `Spec => []InOrder` |
| `ConnectionProofs!Refinement` | `Spec => IsAChannel` |
| `ConferenceProofs!TypeCorrect` | `Spec => []TypeOK` |
| `ConferenceProofs!Silent` | `Spec => []SilentWithoutRoom` |
| `ConferenceProofs!NothingIsLost` | `Spec => []MessageFindsPeer` |
| `ConferenceTalk!BothEndsAgree` | `Spec => []EndsAgree` |
| `ConferenceTalk!JoinsConnect` | `Spec => []JoinConnects` |
| `ConferenceFiles!ChangesAreOffered` | `Spec => []EveryChangeIsOffered` |
| `ConferenceFiles!ButtonsStay` | `Spec => []Removable` |
| `ConferenceFiles!GuestsPlayWhatIsSent` | `Spec => []PlaysWhatIsSent` |

**The server.** The inductive invariant is `Shape /\ Registry /\ NoEmptyRoom /\ Confined /\ Delivered`.
`Shape` is `TypeOK` and what the locals of a handler are at each label (a goroutine at `load` has a room
that was created, one at `register` has a user, and so on); types alone say nothing about that.
`Registry` adds to `RegistryExact`
that nothing is ever registered under the empty id, under which fake users are looked up. `NoEmptyRoom` is
inductive by itself given `Shape`: whoever stores an empty slice is at `check` afterwards. `Confined`
says that every peer in a slice, in the map or in the locals of a handler, was put into that room before,
which a delivery needs at the moment of its `Send`, long after the slice was read; `Delivered` is what
follows for the frames received. The refinement maps `phase` to whether the room has an owner and is a
key of the map, and `reached` to the frames received; the steps of the goroutines are steps of the
contract or stutter.

**What clients can rely on.** The theorems of `WsServerPromises` hold for every schedule: any number of
connections, rooms, messages and handlers at a time, and restarts. Those about who is in a room assume
`FreshIds`, that no two connections have the same socket id: with a reused one a client leaves the rooms of
another. On top of the server's invariant:

* `Way` is what a handler knows on its way although others run: the text it announces is in the history or
  was lost, and the room it has left is not one of its connection's. With it `TextsKept`, of which
  `HistoryComplete` is a case: an append that is not lost only adds.
* `Distinct` (socket ids differ), `Entered` (a connection is only in rooms its calls put it into) and `Visible`
  (it is in all of those) hold in the middle of handlers too, since the rooms and `mine` change in the same
  step, the store. A store either takes effect on the room as it is, or is in `lost`.
* `Leaving` follows `onCloseConnection` through its rooms: what it has still to leave, the one it is
  leaving, and, when it ends early, one it left before. That last one is the other room the property speaks of.
* `Told` says that a member was last told what the room has, or that some goroutine is about to tell it
  (`Announcing`: it has stored and not made its data yet, or its data is what the room has and the member is
  still to be served). With overlaps this may be another goroutine than the one that made the change: whoever
  stored last has still to make its data, and data that has gone out of date was made before a store whose
  own data follows. What is left is the write that arrives behind it, `overtaken`.

**Sessions.** The inductive invariant is `TypeOK /\ SessionIsEarned /\ Asked /\ Told /\ Gone /\ Alone /\
Shown`. `SessionIsEarned` speaks of every token, in the cookie, in a request or in an answer. `Asked` says
that a request for a login carries an account that was proved, and `Told` what the answers to each kind of
request may hold: an answer about a user repeats the request's token, a refresh keeps its user, and nothing
but a login or a refresh sets a session. `Gone` is `LogoutHolds` with all that could still break it: after a
logout no request and no answer on its way brings a session back. That includes the requests for rooms: a
page that was left by the logout still has its scripts until the next document comes, and its socket may
open meanwhile, but the cookie its request carries is gone by then. `Alone` says that nothing of the
document before is left when a page asks for its user. `Shown` says what a page that loads has learnt from
each of its requests, unless another tab stirred the cookie: the request carries the cookie of this moment,
and the user shown is the cookie's. The lemmas take one kind of step each: a handler, a click, an answer
that arrives, a loss.

**The send queue.** `InOrder` says nothing about what waits, so the invariant is
`TypeOK /\ Unopened /\ InOrder /\ Ordered /\ Complete`: nothing is written before the socket opens
(`Unopened`), the queue is in order and behind the frames (`Ordered`), and every message is in one of the
two while the socket lives (`Complete`), without which a flush could leave a gap in the channel.

**The conference.** `EveryChangeIsOffered` speaks of a connection at rest, and the argument for its first
half (what was offered last is what is sent) is about the time before. A loop over the peers ends where its
offer is refused, and an offer is refused because a later one was created; that later one belongs to a loop
which is behind, and must go on to the peers the first one has left. The inductive invariant is `Typed /\
Files /\ Serving /\ Letters /\ SilentWithoutRoom`:

* `Typed` is `TypeOK` and what the operations on a chain, the descriptions and the loops may hold; `Files`
  that a file is loaded once and each drop adds one array.
* `Serving` is `Star` (the owner has a connection to every peer in its list, each once), `Orderly` and
  `Change`. By `Orderly` a loop has one offer under way, what it has still to serve are peers that follow
  in the list (`InLine`, `Once`), the offer of `connectPeer` is ahead of every other (`First`), and a loop
  that is ahead reaches no further than one behind it (`Order`). `Change` says that the last offer created
  on a connection tells what is sent, unless another is still to be created or a loop is still to come.
* `Letters` is what the messages under way say: the owner is asked once for each joiner and has no
  connection to it before (`Starts`), answers come from guests the owner is connected to (`Replies`), and a
  candidate is behind the first offer (`Candidates`), from which `MessageFindsPeer` follows.

`ConferenceShape` has the facts about chains, lists and loops as values, `ConferenceProofs` one lemma for
each step and the theorems. `ConferenceFiles` adds `Buttons` to the invariant, for `Removable`: the array
that is shown will be replaced by those that are kept, so a fake user must be in every one of these
(`InEvery`), and a load whose file is not yet in all of them keeps the one that all the others keep
(`SameArray`), or is named in `clashed`.

`ConferenceTalk` adds `Talk`, for `EndsAgree` and `JoinConnects`: what both ends of a connection are to each
other at each step of a negotiation. A property of a connection at rest is turned into one that always
holds by naming what is still to come.

* `Tells`: what the owner set last is the last offer under way, or else the last one in the guest's
  chain, or else what the guest has set. So nothing can be left of an older offer, although offers overlap.
* `Answers`: a guest that has set an offer has still to make an answer, or has one with the lines of the
  offer it holds. A second offer that arrives before the answer is set makes the first answer useless
  (other lines), but its own is behind it in the chain.
* `Awaits`: an owner that has set an offer offers again, or the offer is on its way, or its guest is about to
  answer, or an answer *with the same lines* is on its way. Answers with other lines are
  dropped by the owner, which is why the lines are in the clause.
* `Begun`, `Reached`, `Fresh` and `Greeted` are for `JoinConnects`: an owner's connection has an offer or is
  about to make one, the offer of an open guest reaches it, a guest that was not greeted has no connection
  yet, and one that was not served is in the owner's messages. `Held` ties all that to pages that are open.

For `PlaysWhatIsSent` the invariant is `Talk /\ Plays`. A guest looks a track up in its room when it sets the
offer, and never again; so the room has to be right about the track at that moment, whatever updates are
still on their way then. `Plays` says so of every guest and track.

* `Watch`, at the guest's end, for each track the guest was not misled about. `InTime`: an offer under way
  that carries a track has in front of it an update that is right about the track, behind every one that is
  wrong, or finds a room that is right (or none, which puts the guest in `early`). `Waiting`: once the offer
  is in the guest's chain the room is right, and no wrong update is to come. `Played`: of the tracks it
  holds the guest plays those that are fake users. All this is for fake users and for tracks that the owner
  may still offer: when a file is dropped the updates behind the last offer become wrong, and nobody minds.
  `Latest` and `Unheard` say why a new fake user is safe: the newest update under way is the true one, and
  before a file is stored in an array no guest was offered its track. An update of a join or a leave that is
  written late is true of every track, or the track is added to `misled` at that step.
* `Stock`, at the owner's end. While a file is dropped, each connection has no offer with its track any more
  (`Clean`), or has the offer without it to make (`Going`), or is a peer the loop has still to serve
  (`Awaited`). When the loop ends all are `Clean`, and only then does the update say that the user has gone.
* `Spent`: from then on they stay clean. This is the second half of `EveryChangeIsOffered`, which is proved
  here: nobody is sent a file whose user has gone, but for files dropped while there was no peer (`kept`).
* `Joined`: an open guest is in the room and so gets every update.

The last step needs `EndsAgree`: at rest the guest holds what the owner set last.

Every invariant and action property of the runs is thus a theorem. Liveness (`ClosedIsForgotten`,
`JoinIsAnswered`, `LoginLeadsHome`, `PageComesUp`, `QueueIsFlushed`) is out of the prover's reach and only
model-checked.

## Not modelled

* `onRefresh` of the store: its button is in `view/video.js`, which no view imports. (That a client may join a
  room it is in already is modelled, in `WsServer`.)
* The dialog for a file when it is cancelled: `input` then has an empty list of files, and the page clears
  its tracks.
* A second conference of a page after a stop, the microphone and mute, texts in a page (in `WsServer` they
  are sent and stored), the audio analysers.
* The websocket library: handshakes, fragments, ping and pong, and two writers of one connection. Whether
  two goroutines can mix their frames is decided there, and not in this repository.
* `auth/user.go` (a context value, an avatar, a hash), `main.go`, routes, static files, logging and the
  views: no state, or state nobody else reads.
* The provider: that a code is good once and for one login is its promise.

## Plan

1. Done: the server, its contract and proofs; the sign-in and its proofs; restarts; the send queue, its
   channel and proofs; the conference, over a server whose handlers overlap, and its theorems.
2. Done: what clients can rely on while handlers overlap, and the ends of a connection, as theorems.
3. Done: `PlaysWhatIsSent` as a theorem: updates and offers in one queue, fake users and tracks.
4. A membership contract of the server, with the changes that are lost, as a refinement.
