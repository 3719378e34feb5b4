--------------------------- MODULE PeerConnection ---------------------------
(***************************************************************************)
(* RTCPeerConnection as static/src/webrtc.js uses it: one end offers audio *)
(* tracks, the other receives them.  The browser is not part of the        *)
(* repository; what is modelled is the part of its contract (W3C WebRTC    *)
(* 1.0, JSEP) the negotiation depends on:                                  *)
(*                                                                         *)
(*   - createOffer, createAnswer, setLocalDescription and                  *)
(*     setRemoteDescription are queued in the operations chain of the      *)
(*     connection and take effect one after the other; a closed connection *)
(*     never settles the ones it still has;                                *)
(*   - a description lists an m-line for every track ever added and says   *)
(*     which are being sent; an answer must have the lines of its offer    *)
(*     (that a line which never sent may be used again is left out);       *)
(*   - an answer is accepted only while an offer is pending;               *)
(*   - an offer or answer that is not the last one created may be refused  *)
(*     (the recommendation says so, some browsers take it).                *)
(*                                                                         *)
(* The main track every end sends is always there and is left out.         *)
(***************************************************************************)
EXTENDS Sequences, Naturals

CONSTANTS
  Tracks,  \* audio tracks of loaded files
  None     \* no description

Description == [tracks : SUBSET Tracks,   \* the tracks being sent
                lines  : SUBSET Tracks]   \* the m-lines: tracks ever added

\* What a page awaits an operation for: a file loaded or dropped, a new peer,
\* an offer to answer.
Job == [kind : {"load", "drop", "connect", "answer"}, track : Tracks \cup {None}]

Operation == [kind : {"create", "local", "remote"},
              desc : Description \cup {None},
              job  : Job]

PC == [sig     : {"stable", "local", "remote"},   \* signalingState: who has offered
       sending : SUBSET Tracks,                   \* tracks of the senders
       added   : SUBSET Tracks,
       local   : Description \cup {None},
       remote  : Description \cup {None},
       chain   : Seq(Operation)]

ASSUME NoneAssumption == None \notin Description \cup PC

NewPC(tracks) ==
  [sig |-> "stable", sending |-> tracks, added |-> tracks, local |-> None,
   remote |-> None, chain |-> <<>>]

addTrack(pc, track)    == [pc EXCEPT !.sending = @ \cup {track}, !.added = @ \cup {track}]
removeTrack(pc, track) == [pc EXCEPT !.sending = @ \ {track}]

Queue(pc, kind, desc, job) ==
  [pc EXCEPT !.chain = Append(@, [kind |-> kind, desc |-> desc, job |-> job])]

Waits(pc, kind) == pc.chain # <<>> /\ Head(pc.chain).kind = kind
Dequeue(pc)     == [pc EXCEPT !.chain = Tail(@)]

\* The descriptions made from the state of the connection.
Offer(pc)  == [tracks |-> pc.sending, lines |-> pc.added]
Answer(pc) == pc.remote

\* The created description is handed to setLocalDescription at once: the page
\* runs its continuation before the next operation can be queued.
Create(pc, desc) ==
  Queue(Dequeue(pc), "local", desc, Head(pc.chain).job)

\* Another description was created after the one that waits to be set.
MayBeRefused(pc) == \E i \in 2 .. Len(pc.chain) : pc.chain[i].kind = "local"

AnswerFits(pc, desc)   == pc.sig = "local" /\ desc.lines = pc.local.lines

SetLocalOffer(pc, desc)   == [pc EXCEPT !.sig = "local", !.local = desc]
SetRemoteOffer(pc, desc)  == [pc EXCEPT !.sig = "remote", !.remote = desc]
SetLocalAnswer(pc, desc)  == [pc EXCEPT !.sig = "stable", !.local = desc]
SetRemoteAnswer(pc, desc) == [pc EXCEPT !.sig = "stable", !.remote = desc]
=============================================================================
