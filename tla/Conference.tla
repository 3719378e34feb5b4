----------------------------- MODULE Conference -----------------------------
(***************************************************************************)
(* One room as its pages see it: Store of static/src/store.js and WebRTC   *)
(* of static/src/webrtc.js on the page of the owner and on those of the    *)
(* guests, with the server of server/websocket.go between them.            *)
(*                                                                         *)
(* The owner keeps a peer connection to every guest and sends them the     *)
(* tracks of the files it loads; a loaded file is shown to everybody as a  *)
(* "fake user" of the room.  Pages are single-threaded: a step is one task *)
(* of an event loop, up to its next await.  Loads, drops and joins overlap *)
(* at the awaits of the owner's page.                                      *)
(*                                                                         *)
(* The handlers of the server overlap here as far as the pages can tell.   *)
(* The goroutine of a guest that joins asks the owner to connect, makes    *)
(* the data of the room and writes it to the members; that of one that     *)
(* goes does the last two.  Each of these writes may come late, for a      *)
(* member that does not read holds up the loop, and the owner's goroutine  *)
(* changes the fake users meanwhile.  (The owner's own updates are sent in *)
(* one step: its goroutine is the only one that changes the fake users, so *)
(* their data cannot be older than the state, and its next message is read *)
(* when they are sent.  Lost updates of the memory are for WsServer.)      *)
(* A message is in `down' from the moment it is sent: the links of a page  *)
(* are FIFO and the server relays in order, so the time it spends on the   *)
(* way to the server adds nothing to the time it spends on the way down.   *)
(***************************************************************************)
EXTENDS PeerConnection, SequencesExt

CONSTANTS
  Owner,     \* the page that created the room
  Guests,    \* pages opened from the conference link
  Settlers,  \* guests that may be connected to the owner when the model starts
  Loaded,    \* files loaded by then: every guest connected is sent them
  MaxActs    \* bound: what the persons do, all together

Pages == {Owner} \cup Guests

\* The loops over the peers for a file that was loaded or dropped; and what
\* else an operation may be for.
Loops   == [kind : {"load", "drop"}, track : Tracks]
Load(t) == [kind |-> "load", track |-> t]
Drop(t) == [kind |-> "drop", track |-> t]
Connect == [kind |-> "connect", track |-> None]
Reply   == [kind |-> "answer", track |-> None]

ASSUME PagesAssumption ==
  /\ Owner \notin Guests /\ IsFiniteSet(Guests)
  /\ None \notin Pages \cup Tracks \cup Seq(Guests)
  /\ \A shown \in SUBSET Tracks : shown # None
ASSUME BoundsAssumption ==
  Settlers \subseteq Guests /\ Loaded \subseteq Tracks /\ MaxActs \in Nat

VARIABLES
  page,        \* "new" before the join was handled, "open", "gone"
  members,     \* pages among the users of the room, on the server
  fakes,       \* fake users of the room, on the server
  announcing,  \* guests whose join was handled up to its announcement
  unsent,      \* room data made and not written yet, of joins and leaves
  down,        \* messages on their way to each page
  room,        \* Store.data.room: null, or the fake users it lists
  ownerPc,     \* WebRTC.peers of the owner
  peers,       \* its keys: an object keeps them in the order they were added
  guestPc,     \* WebRTC.peers of each guest: its connection to the owner
  streams,     \* WebRTC.streams of each guest: the tracks it plays
  tracks,      \* WebRTC.tracks of the owner
  decoding,    \* files chosen whose audio is still being decoded
  todo,        \* peers a loop has still to serve; None when it does not run
  arrays,      \* the arrays Store.data.fakeUsers has been, oldest first
  fakeUsers,   \* Store.data.fakeUsers: which of them it is
  captured,    \* which of them a load or a drop took across its awaits
  acts         \* what the persons have done so far

\* History.
VARIABLES
  stopped,     \* pages whose person pressed stop
  early,       \* guests that were offered a track while they had no room
  misled,      \* fake users each guest was told of in data that was out of date
  kept,        \* files dropped while there was no peer, which stay in tracks
  cutShort,    \* tracks of loops that did not get to their end
  clashed      \* files in whose load another load or drop kept another array

server  == <<members, fakes, announcing, unsent>>
owner   == <<ownerPc, peers>>
files   == <<decoding, arrays, captured>>
history == <<stopped, early, misled, kept, cutShort, clashed>>
vars    == <<page, server, down, room, owner, guestPc, streams, tracks, files,
             todo, fakeUsers, acts, history>>

Message == [type  : {"update", "start", "offer", "answer", "candidate"},
            from  : Pages \cup {None},
            desc  : Description \cup {None},
            fakes : (SUBSET Tracks) \cup {None}]

\* One write of the loop of sendToAllRoom, sendToRoom or onCloseConnection.
Write == [by : Pages, to : Pages, fakes : SUBSET Tracks]

\* The ends never swap roles: only the owner offers.
TypeOK ==
  /\ page \in [Pages -> {"new", "open", "gone"}]
  /\ members \in SUBSET Pages
  /\ fakes \in SUBSET Tracks
  /\ announcing \in SUBSET Guests
  /\ unsent \in SUBSET Write
  /\ down \in [Pages -> Seq(Message)]
  /\ room \in [Pages -> (SUBSET Tracks) \cup {None}]
  /\ ownerPc \in [Guests -> {None} \cup PC] /\ guestPc \in [Guests -> {None} \cup PC]
  /\ \A g \in Guests : ownerPc[g] # None => ownerPc[g].sig # "remote"
  /\ \A g \in Guests : guestPc[g] # None => guestPc[g].sig # "local"
  /\ streams \in [Guests -> SUBSET Tracks]
  /\ tracks \in SUBSET Tracks
  /\ decoding \in SUBSET Tracks
  /\ peers \in Seq(Guests)
  /\ todo \in [Loops -> Seq(Guests) \cup {None}]
  /\ arrays \in Seq(SUBSET Tracks) /\ Len(arrays) <= MaxActs + 1
  /\ acts \in 0 .. MaxActs
  /\ fakeUsers \in 1 .. Len(arrays)
  /\ captured \in [Loops -> 1 .. Len(arrays)]
  /\ stopped \in SUBSET Pages
  /\ early \in SUBSET Guests
  /\ misled \in [Guests -> SUBSET Tracks]
  /\ kept \in SUBSET Tracks
  /\ cutShort \in SUBSET Tracks
  /\ clashed \in SUBSET Tracks

\* A connection at rest, negotiated before the model starts.
SettledPC(sent) ==
  LET desc == [tracks |-> Loaded, lines |-> Loaded]
  IN [NewPC(sent) EXCEPT !.local = desc, !.remote = desc]

\* Some guests are connected and hear the files that were loaded.
Init ==
  \E settled \in SUBSET Settlers :
    /\ page = [p \in Pages |-> IF p \in {Owner} \cup settled THEN "open" ELSE "new"]
    /\ members = {Owner} \cup settled
    /\ fakes = Loaded
    /\ announcing = {}
    /\ unsent = {}
    /\ down = [p \in Pages |-> <<>>]
    /\ room = [p \in Pages |-> IF p \in {Owner} \cup settled THEN Loaded ELSE None]
    /\ ownerPc = [g \in Guests |-> IF g \in settled THEN SettledPC(Loaded) ELSE None]
    /\ peers \in SetToSeqs(settled)
    /\ guestPc = [g \in Guests |-> IF g \in settled THEN SettledPC({}) ELSE None]
    /\ streams = [g \in Guests |-> IF g \in settled THEN Loaded ELSE {}]
    /\ tracks = Loaded
    /\ decoding = {}
    /\ todo = [job \in Loops |-> None]
    /\ arrays = <<Loaded>>
    /\ fakeUsers = 1
    /\ captured = [job \in Loops |-> 1]
    /\ acts = 0
    /\ stopped = {}
    /\ early = {}
    /\ misled = [g \in Guests |-> {}]
    /\ kept = {}
    /\ cutShort = {}
    /\ clashed = {}

-----------------------------------------------------------------------------
(* Messages *)

Open(p)    == page[p] = "open"
Blank      == [type |-> "update", from |-> None, desc |-> None, fakes |-> None]
Update(fs) == [Blank EXCEPT !.fakes = fs]
Start(g)   == [Blank EXCEPT !.type = "start", !.from = g]
Candidate(p)       == [Blank EXCEPT !.type = "candidate", !.from = p]
Sdp(type, p, desc) == [Blank EXCEPT !.type = type, !.from = p, !.desc = desc]

\* What is sent to a page that has gone reaches nobody.
To(q, p, messages) == [q EXCEPT ![p] = IF Open(p) THEN @ \o messages ELSE @]

\* sendToAllRoom
ToRoom(q, message) ==
  [p \in Pages |-> IF p \in members /\ Open(p) THEN Append(q[p], message) ELSE q[p]]

Gets(p, type) == Open(p) /\ down[p] # <<>> /\ Head(down[p]).type = type
Rest(p)       == [down EXCEPT ![p] = Tail(@)]

-----------------------------------------------------------------------------
(* The server: joinRoomMessage, onCloseConnection *)

\* onJoinRoom of a page opened from the link, as the server handles it: the
\* guest is a user of the room, and the owner is told to connect to it.  When
\* the owner's socket is closed that write may fail, and the join ends.
Join(g) ==
  /\ page[g] = "new"
  /\ page' = [page EXCEPT ![g] = "open"]
  /\ members' = members \cup {g}
  /\ down' = To(down, Owner, <<Start(g)>>)
  /\ \/ announcing' = announcing \cup {g}
     \/ Owner \in members /\ ~Open(Owner) /\ UNCHANGED announcing
  /\ UNCHANGED <<fakes, unsent, room, owner, guestPc, streams, tracks, files, todo,
                 fakeUsers, history>>

\* RoomToMap, and the members the loop that follows ranges over.
Writes(p, to) == {[by |-> p, to |-> q, fakes |-> fakes] : q \in to}

Announce(g) ==
  /\ g \in announcing
  /\ announcing' = announcing \ {g}
  /\ unsent' = unsent \cup Writes(g, members)
  /\ UNCHANGED <<page, members, fakes, down, room, owner, guestPc, streams, tracks,
                 files, todo, fakeUsers, history>>

\* The read of the closed socket fails when the goroutine comes to it.
LeaveRoom(p) ==
  /\ page[p] = "gone" /\ p \in members \ announcing
  /\ \A w \in unsent : w.by # p
  /\ members' = members \ {p}
  /\ unsent' = unsent \cup Writes(p, members')
  /\ UNCHANGED <<page, fakes, announcing, down, room, owner, guestPc, streams, tracks,
                 files, todo, fakeUsers, history>>

\* Fake users data is wrong about by now.
OutOfDate(data) == (data \ fakes) \cup (fakes \ data)

\* One of the writes; the order of a loop is left open.
SendUpdate(w) ==
  /\ w \in unsent
  /\ unsent' = unsent \ {w}
  /\ down' = To(down, w.to, <<Update(w.fakes)>>)
  /\ misled' = [g \in Guests |-> IF g = w.to THEN misled[g] \cup OutOfDate(w.fakes)
                                            ELSE misled[g]]
  /\ UNCHANGED <<page, members, fakes, announcing, room, owner, guestPc, streams, tracks,
                 files, todo, fakeUsers, stopped, early, kept, cutShort, clashed>>

-----------------------------------------------------------------------------
(* Pages *)

\* The page is closed, or reloaded without the room (location.search = '').
Gone(p) ==
  /\ page' = [page EXCEPT ![p] = "gone"]
  /\ down' = [down EXCEPT ![p] = <<>>]
  /\ room' = [room EXCEPT ![p] = None]
  /\ guestPc' = [g \in Guests |-> IF g = p THEN None ELSE guestPc[g]]
  /\ streams' = [g \in Guests |-> IF g = p THEN {} ELSE streams[g]]
  /\ IF p = Owner
     THEN /\ ownerPc' = [g \in Guests |-> None]
          /\ peers' = <<>>
          /\ tracks' = {}
          /\ decoding' = {}
          /\ todo' = [job \in Loops |-> None]
     ELSE UNCHANGED <<owner, tracks, decoding, todo>>
  /\ UNCHANGED <<server, arrays, captured, fakeUsers, history>>

Hangup(p) == Open(p) /\ Gone(p)

onUpdateRoom(p) ==
  /\ Gets(p, "update")
  /\ room' = [room EXCEPT ![p] = Head(down[p]).fakes]
  /\ down' = Rest(p)
  /\ UNCHANGED <<page, server, owner, guestPc, streams, tracks, files, todo,
                 fakeUsers, history>>

\* onCandidate: without a peer connection the candidate is dropped.
onCandidate(p) ==
  /\ Gets(p, "candidate")
  /\ down' = Rest(p)
  /\ UNCHANGED <<page, server, room, owner, guestPc, streams, tracks, files,
                 todo, fakeUsers, history>>

Running(kind) == {job.track : job \in {j \in Loops : j.kind = kind /\ todo[j] # None}}

\* this.streams = [].
\* Slip: only the peer connections are closed.
NotSilenced(p) == streams
Silenced(p) == [g \in Guests |-> IF g = p THEN {} ELSE streams[g]]

\* stopConference and WebRTC.stop: the operations that were under way on the
\* closed peer connections never settle, and nothing is told to the server.
stopConference(p) ==
  /\ Open(p) /\ room[p] # None
  /\ stopped' = stopped \cup {p}
  /\ room' = [room EXCEPT ![p] = None]
  /\ guestPc' = [g \in Guests |-> IF g = p THEN None ELSE guestPc[g]]
  /\ streams' = Silenced(p)
  /\ IF p = Owner
     THEN /\ ownerPc' = [g \in Guests |-> None]
          /\ peers' = <<>>
          /\ tracks' = {}
          /\ todo' = [job \in Loops |-> None]
          /\ cutShort' = cutShort \cup Running("load") \cup Running("drop")
     ELSE UNCHANGED <<owner, tracks, todo, cutShort>>
  /\ UNCHANGED <<page, server, down, files, fakeUsers, early, misled, kept, clashed>>

-----------------------------------------------------------------------------
(* The owner's page: what its person does *)

\* The loops of refreshPeersSdp and dropClient take up the next of their peers
\* and wait for its offer; pcs are the peer connections as they are by then.
\* Slip: the loop ends after its first peer.
NextPeerOnly(job, ids, pcs) ==
  /\ ids # <<>>
  /\ todo' = [todo EXCEPT ![job] = <<>>]
  /\ ownerPc' = [pcs EXCEPT ![Head(ids)] =
       Queue(IF job.kind = "drop" THEN removeTrack(@, job.track) ELSE @,
             "create", None, job)]

NextPeer(job, ids, pcs) ==
  /\ ids # <<>>
  /\ todo' = [todo EXCEPT ![job] = Tail(ids)]
  /\ ownerPc' = [pcs EXCEPT ![Head(ids)] =
       Queue(IF job.kind = "drop" THEN removeTrack(@, job.track) ELSE @,
             "create", None, job)]

\* History: who chooses or drops a file while a load keeps another array than
\* the one of this moment will undo that load, or be undone by it.
UnderWay == {Load(t) : t \in decoding} \cup {job \in Loops : todo[job] # None}
AtOdds   == {job \in UnderWay : captured[job] # fakeUsers}
Clashing == clashed \cup {t \in Tracks : Load(t) \in AtOdds}

\* onMp3FileLoad up to its await: it keeps the array fakeUsers of this moment.
\* The buttons are there while the room is.
ChooseFile(t) ==
  /\ Open(Owner) /\ room[Owner] # None
  /\ t \notin decoding \cup UNION {arrays[i] : i \in 1 .. Len(arrays)}
  /\ decoding' = decoding \cup {t}
  /\ captured' = [captured EXCEPT ![Load(t)] = fakeUsers]
  /\ clashed' = IF AtOdds = {} THEN clashed ELSE Clashing \cup {t}
  /\ UNCHANGED <<page, server, down, room, owner, guestPc, streams, tracks,
                 arrays, todo, fakeUsers, stopped, early, misled, kept, cutShort>>

\* fakeUsers.push(id)
\* Slip: the id is added to a copy.
PushedToCopy(t) == Append(arrays, arrays[captured[Load(t)]] \cup {t})
Pushed(t) == [arrays EXCEPT ![captured[Load(t)]] = @ \cup {t}]

\* The audio is decoded: the id is pushed to the array kept, the room is told,
\* every peer connection gets the track (addLocalAudioTracks forgets the files
\* before), and refreshPeersSdp begins.
onMp3FileLoad(t) ==
  LET pcs == [g \in Guests |-> IF ownerPc[g] = None THEN None ELSE addTrack(ownerPc[g], t)]
  IN /\ t \in decoding
     /\ decoding' = decoding \ {t}
     /\ arrays' = Pushed(t)
     /\ fakes' = fakes \cup {t}
     /\ down' = ToRoom(down, Update(fakes'))
     /\ tracks' = {t}
     /\ \/ /\ NextPeer(Load(t), peers, pcs)
           /\ UNCHANGED fakeUsers
        \/ /\ peers = <<>>
           /\ fakeUsers' = captured[Load(t)]
           /\ UNCHANGED <<owner, todo>>
     /\ UNCHANGED <<page, members, announcing, unsent, room, peers, guestPc, streams,
                    captured, history>>

\* dropClient: a new array without the id is shown until the loop is over, and
\* then the old one again.  Without peers the loop, in which the track leaves
\* WebRTC.tracks, does not run once.  Bound: one drop of a file at a time.
dropClient(t) ==
  /\ Open(Owner) /\ room[Owner] # None
  /\ t \in room[Owner] /\ t \in arrays[fakeUsers] /\ todo[Drop(t)] = None
  /\ arrays' = Append(arrays, arrays[fakeUsers] \ {t})
  /\ captured' = [captured EXCEPT ![Drop(t)] = fakeUsers]
  /\ \/ /\ NextPeer(Drop(t), peers, ownerPc)
        /\ tracks' = tracks \ {t}
        /\ fakeUsers' = Len(arrays')
        /\ clashed' = Clashing
        /\ UNCHANGED <<fakes, down, kept>>
     \/ /\ peers = <<>>
        /\ fakes' = fakes \ {t}
        /\ kept' = kept \cup {t}
        /\ down' = ToRoom(down, Update(fakes'))
        /\ UNCHANGED <<owner, todo, tracks, fakeUsers, clashed>>
  /\ UNCHANGED <<page, members, announcing, unsent, room, peers, guestPc, streams,
                 decoding, stopped, early, misled, cutShort>>

-----------------------------------------------------------------------------
(* The owner's page: negotiation *)

\* connectPeer
onStartPeerConnection ==
  LET g == Head(down[Owner]).from
  IN /\ Gets(Owner, "start")
     /\ ownerPc' = [ownerPc EXCEPT ![g] = Queue(NewPC(tracks), "create", None, Connect)]
     /\ peers' = Append(peers, g)
     /\ down' = Rest(Owner)
     /\ UNCHANGED <<page, server, room, guestPc, streams, tracks, files, todo,
                    fakeUsers, history>>

\* onSDP: an answer.  Without a peer connection it is dropped.
onAnswer ==
  LET g == Head(down[Owner]).from
  IN /\ Gets(Owner, "answer")
     /\ ownerPc' = [ownerPc EXCEPT ![g] =
          IF @ = None THEN None ELSE Queue(@, "remote", Head(down[Owner]).desc, Reply)]
     /\ down' = Rest(Owner)
     /\ UNCHANGED <<page, server, room, peers, guestPc, streams, tracks, files, todo,
                    fakeUsers, history>>

Has(pc, kind) == pc # None /\ Waits(pc, kind)

OfferMade(g) ==
  /\ Has(ownerPc[g], "create")
  /\ ownerPc' = [ownerPc EXCEPT ![g] = Create(@, Offer(@))]
  /\ UNCHANGED <<page, server, down, room, peers, guestPc, streams, tracks, files, todo,
                 fakeUsers, history>>

\* Slip: the sdp is handed on as an offer.
AnswerAppliedAsOffer(g) ==
  /\ Has(ownerPc[g], "remote")
  /\ ownerPc' = [ownerPc EXCEPT ![g] = Dequeue(SetRemoteOffer(@, Head(@.chain).desc))]
  /\ UNCHANGED <<page, server, down, room, peers, guestPc, streams, tracks, files, todo,
                 fakeUsers, history>>

\* pc.setRemoteDescription(sdp) is not awaited: nobody learns it was rejected.
AnswerApplied(g) ==
  /\ Has(ownerPc[g], "remote")
  /\ LET desc == Head(ownerPc[g].chain).desc
     IN ownerPc' = [ownerPc EXCEPT ![g] =
          Dequeue(IF AnswerFits(@, desc) THEN SetRemoteAnswer(@, desc) ELSE @)]
  /\ UNCHANGED <<page, server, down, room, peers, guestPc, streams, tracks, files, todo,
                 fakeUsers, history>>

\* setLocalDescription took the offer: it is sent, and after the first one the
\* candidates the browser gathers.
\* Slip: the candidates are sent while the offer is being set.
OfferOutLate(g, desc) ==
  To(down, g, IF ownerPc[g].local = None
              THEN <<Candidate(Owner), Sdp("offer", Owner, desc)>>
              ELSE <<Sdp("offer", Owner, desc)>>)

OfferOut(g, desc) ==
  To(down, g, IF ownerPc[g].local = None
              THEN <<Sdp("offer", Owner, desc), Candidate(Owner)>>
              ELSE <<Sdp("offer", Owner, desc)>>)

\* The end of onMp3FileLoad, or of dropClient with its removeFakeUser message.
EndLoop(job, messages) ==
  /\ todo' = [todo EXCEPT ![job] = None]
  /\ fakeUsers' = captured[job]
  /\ captured' = [captured EXCEPT ![job] = 1]
  /\ fakes' = IF job.kind = "drop" THEN fakes \ {job.track} ELSE fakes
  /\ down' = IF job.kind = "drop" THEN ToRoom(messages, Update(fakes')) ELSE messages

OfferApplied(g) ==
  /\ Has(ownerPc[g], "local")
  /\ LET op  == Head(ownerPc[g].chain)
         out == OfferOut(g, op.desc)
         pcs == [ownerPc EXCEPT ![g] = Dequeue(SetLocalOffer(@, op.desc))]
     IN \/ /\ op.job = Connect
           /\ ownerPc' = pcs
           /\ down' = out
           /\ UNCHANGED <<fakes, todo, fakeUsers, captured>>
        \/ /\ op.job # Connect
           /\ todo[op.job] # <<>>
           /\ NextPeer(op.job, todo[op.job], pcs)
           /\ down' = out
           /\ UNCHANGED <<fakes, fakeUsers, captured>>
        \/ /\ op.job # Connect
           /\ todo[op.job] = <<>>
           /\ ownerPc' = pcs
           /\ EndLoop(op.job, out)
  /\ UNCHANGED <<page, members, announcing, unsent, room, peers, guestPc, streams,
                 tracks, decoding, arrays, history>>

\* setLocalDescription rejected the offer: connectPeer reloads the page, a loop
\* ends where it is.
OfferRefused(g) ==
  /\ Has(ownerPc[g], "local")
  /\ LET op == Head(ownerPc[g].chain)
     IN /\ MayBeRefused(ownerPc[g])
        /\ \/ op.job = Connect /\ Gone(Owner)
           \/ /\ op.job # Connect
              /\ ownerPc' = [ownerPc EXCEPT ![g] = Dequeue(@)]
              /\ todo' = [todo EXCEPT ![op.job] = None]
              /\ cutShort' = cutShort \cup {op.job.track}
              /\ UNCHANGED <<page, server, down, room, peers, guestPc, streams, tracks,
                             files, fakeUsers, stopped, early, misled, kept, clashed>>

-----------------------------------------------------------------------------
(* A guest's page: negotiation *)

\* onSDP: an offer.  The peer connection is registered before the first await.
\* Slips: a peer that is there already takes no offer; a page without the room
\* takes none.
onOfferOnce(g) ==
  /\ Gets(g, "offer")
  /\ guestPc' = [guestPc EXCEPT ![g] =
       IF @ = None THEN Queue(NewPC({}), "remote", Head(down[g]).desc, Reply) ELSE @]
  /\ down' = Rest(g)
  /\ UNCHANGED <<page, server, room, owner, streams, tracks, files, todo,
                 fakeUsers, history>>

onOfferInRoom(g) ==
  /\ Gets(g, "offer")
  /\ guestPc' = [guestPc EXCEPT ![g] =
       IF room[g] = None THEN @
       ELSE Queue(IF @ = None THEN NewPC({}) ELSE @, "remote", Head(down[g]).desc, Reply)]
  /\ down' = Rest(g)
  /\ UNCHANGED <<page, server, room, owner, streams, tracks, files, todo,
                 fakeUsers, history>>

onOffer(g) ==
  /\ Gets(g, "offer")
  /\ guestPc' = [guestPc EXCEPT ![g] =
       Queue(IF @ = None THEN NewPC({}) ELSE @, "remote", Head(down[g]).desc, Reply)]
  /\ down' = Rest(g)
  /\ UNCHANGED <<page, server, room, owner, streams, tracks, files, todo,
                 fakeUsers, history>>

Heard(g)       == IF guestPc[g].remote = None THEN {} ELSE guestPc[g].remote.tracks
Users(g)       == IF room[g] = None THEN {} ELSE room[g]
Arrive(g, desc) == desc.tracks \ Heard(g)

\* The tracks setRemoteDescription adds and takes away: ontrack keeps one that
\* is a fake user of the room, and fails without a room; onmute lets one go.
\* Slip: a track that is muted is kept.
StreamsKept(g, desc) == streams[g] \cup (Arrive(g, desc) \cap Users(g))
Streams(g, desc) ==
  (streams[g] \ (Heard(g) \ desc.tracks)) \cup (Arrive(g, desc) \cap Users(g))

OfferTaken(g) ==
  /\ Has(guestPc[g], "remote")
  /\ LET desc == Head(guestPc[g].chain).desc
     IN /\ streams' = [streams EXCEPT ![g] = Streams(g, desc)]
        /\ early' = IF room[g] = None /\ Arrive(g, desc) # {} THEN early \cup {g} ELSE early
        /\ guestPc' = [guestPc EXCEPT ![g] =
             Queue(Dequeue(SetRemoteOffer(@, desc)), "create", None, Reply)]
  /\ UNCHANGED <<page, server, down, room, owner, tracks, files, todo, fakeUsers,
                 stopped, misled, kept, cutShort, clashed>>

\* createAnswer: rejected when the offer has been answered already.
AnswerMade(g) ==
  /\ Has(guestPc[g], "create")
  /\ guestPc' = [guestPc EXCEPT ![g] =
       IF @.sig = "remote" THEN Create(@, Answer(@)) ELSE Dequeue(@)]
  /\ UNCHANGED <<page, server, down, room, owner, streams, tracks, files, todo,
                 fakeUsers, history>>

\* setLocalDescription takes the answer, or rejects it: then none is sent.
AnswerSent(g) ==
  /\ Has(guestPc[g], "local")
  /\ LET pc   == guestPc[g]
         desc == Head(pc.chain).desc
         fits == pc.sig = "remote" /\ desc.lines = pc.remote.lines
     IN \/ /\ fits
           /\ guestPc' = [guestPc EXCEPT ![g] = Dequeue(SetLocalAnswer(@, desc))]
           /\ down' = To(down, Owner,
                IF pc.local = None THEN <<Sdp("answer", g, desc), Candidate(g)>>
                                   ELSE <<Sdp("answer", g, desc)>>)
        \/ /\ ~fits \/ MayBeRefused(pc)
           /\ guestPc' = [guestPc EXCEPT ![g] = Dequeue(@)]
           /\ UNCHANGED down
  /\ UNCHANGED <<page, server, room, owner, streams, tracks, files, todo,
                 fakeUsers, history>>

-----------------------------------------------------------------------------
Person ==
  /\ acts < MaxActs /\ acts' = acts + 1
  /\ \/ \E g \in Guests : Join(g)
     \/ \E t \in Tracks : ChooseFile(t) \/ dropClient(t)
     \/ \E p \in Pages : Hangup(p) \/ stopConference(p)

Server ==
  \/ \E g \in Guests : Announce(g)
  \/ \E p \in Pages : LeaveRoom(p)
  \/ \E w \in unsent : SendUpdate(w)

\* The browsers carry out what they were asked and take up what arrived.
OwnerRuns ==
  \/ onStartPeerConnection \/ onAnswer
  \/ \E t \in Tracks : onMp3FileLoad(t)
  \/ \E g \in Guests : OfferMade(g) \/ OfferApplied(g) \/ OfferRefused(g)
                      \/ AnswerApplied(g)

GuestRuns(g) == onOffer(g) \/ OfferTaken(g) \/ AnswerMade(g) \/ AnswerSent(g)

Next ==
  \/ Person
  \/ /\ UNCHANGED acts
     /\ \/ Server \/ OwnerRuns
        \/ \E g \in Guests : GuestRuns(g)
        \/ \E p \in Pages : onUpdateRoom(p) \/ onCandidate(p)

Spec == Init /\ [][Next]_vars

-----------------------------------------------------------------------------
\* Nothing is under way between the owner and g.
Settled(g) ==
  /\ Open(Owner) /\ ownerPc[g] # None /\ ownerPc[g].chain = <<>>
  /\ Open(g) /\ guestPc[g] # None /\ guestPc[g].chain = <<>>
  /\ \A i \in 1 .. Len(down[g]) : down[g][i].type # "offer"
  /\ \A i \in 1 .. Len(down[Owner]) :
       ~(down[Owner][i].type = "answer" /\ down[Owner][i].from = g)

\* However the offers of joins, loads and drops overlap on one connection, and
\* whichever of them the browsers refuse: once it comes to rest both ends are
\* stable and hold the same offer.
EndsAgree ==
  \A g \in Guests : Settled(g) =>
    /\ ownerPc[g].sig = "stable" /\ guestPc[g].sig = "stable"
    /\ guestPc[g].remote = ownerPc[g].local

\* What a guest plays is what it is sent of the fake users of the room: the
\* message about a fake user overtakes its track (the "hack" of onMp3FileLoad),
\* and a track goes before its user does.  Not so for a guest that was offered
\* a track before the announcement of its own join came, or after it stopped;
\* nor for a file about which the update of a join or a leave that was made
\* before the owner changed the fake users, and written after it, misled the
\* guest: such a track is not played, and is not offered again.
PlaysWhatIsSent ==
  \A g \in Guests \ early : Settled(g) /\ room[g] # None =>
    streams[g] \ misled[g] = (guestPc[g].remote.tracks \cap fakes) \ misled[g]

\* A page that stopped the conference is silent until the room comes back,
\* although its user is still in the room and offers go on arriving.
SilentWithoutRoom ==
  \A g \in Guests : room[g] = None => streams[g] = {}

\* No candidate and no answer comes to a page that has no peer connection for
\* it, unless its person stopped the conference.
MessageFindsPeer ==
  /\ \A g \in Guests \ stopped : Gets(g, "candidate") => guestPc[g] # None
  /\ Owner \notin stopped /\ (Gets(Owner, "candidate") \/ Gets(Owner, "answer")) =>
       ownerPc[Head(down[Owner]).from] # None

\* When nothing runs any more, every peer has been offered just the tracks it
\* is being sent, whatever cut a loop short; and none is sent a file that is no
\* fake user of the room any more, unless it was dropped while there was no
\* peer: a drop takes the user away when it has told every peer, those that
\* joined meanwhile too.  (A drop cut short leaves the user, and the peers it
\* did not come to go on being sent the file.)
EveryChangeIsOffered ==
  \A g \in Guests :
    /\ ownerPc[g] # None /\ ownerPc[g].chain = <<>>
    /\ \A job \in Loops : todo[job] = None
    => /\ ownerPc[g].sending = ownerPc[g].local.tracks
       /\ ownerPc[g].local.tracks \subseteq fakes \cup kept

\* When no load and no drop is under way, every fake user of the room has its X
\* button on the owner's page: each of them ends with the array it kept, and
\* still the last to end puts back one with all the files.  Not so for a file in
\* whose load another of them kept another array, or whose loop was cut short.
Removable ==
  Open(Owner) /\ (\A job \in Loops : todo[job] = None) =>
    fakes \subseteq arrays[fakeUsers] \cup clashed \cup cutShort

\* When nothing is under way any more, every guest that joined is connected to
\* the owner, unless one of the two has gone or has stopped the conference: no
\* offer and no answer is lost or refused for good, whatever it crossed.
Connected(pc) == pc # None /\ pc.sig = "stable" /\ pc.remote # None

AtRest ==
  /\ \A p \in Pages : down[p] = <<>>
  /\ \A g \in Guests : \A pc \in {ownerPc[g], guestPc[g]} : pc # None => pc.chain = <<>>

JoinConnects ==
  AtRest => \A g \in Guests :
    \/ Connected(ownerPc[g]) /\ Connected(guestPc[g])
    \/ page[g] = "new"
    \/ \E p \in {g, Owner} : page[p] = "gone" \/ p \in stopped
=============================================================================
