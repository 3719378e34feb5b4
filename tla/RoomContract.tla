---------------------------- MODULE RoomContract ----------------------------
(***************************************************************************)
(* What the server promises about rooms however its goroutines interleave: *)
(* a room is opened once, by its owner, and closed once; and what is said  *)
(* in a room reaches only peers that were admitted to it.                  *)
(*                                                                         *)
(* It promises no less and no more: a peer may be admitted to a room that  *)
(* is closed already (a join that found the room before it was removed),   *)
(* and when the process dies every room closes at once.                    *)
(***************************************************************************)
CONSTANTS Peers, Rooms, Nobody

VARIABLES
  phase,     \* of each room: "absent", "live", "gone"
  owner,     \* the peer that opened each room
  admitted,  \* <<peer, room>>: the peer was admitted to the room, ever
  reached    \* <<peer, room>>: something said in the room reached the peer

vars == <<phase, owner, admitted, reached>>

TypeOK ==
  /\ phase \in [Rooms -> {"absent", "live", "gone"}]
  /\ owner \in [Rooms -> Peers \cup {Nobody}]
  /\ admitted \subseteq Peers \X Rooms
  /\ reached \subseteq Peers \X Rooms

Init ==
  /\ phase = [r \in Rooms |-> "absent"]
  /\ owner = [r \in Rooms |-> Nobody]
  /\ admitted = {}
  /\ reached = {}

Open(p, r) ==
  /\ phase[r] = "absent"
  /\ phase' = [phase EXCEPT ![r] = "live"]
  /\ owner' = [owner EXCEPT ![r] = p]
  /\ admitted' = admitted \cup {<<p, r>>}
  /\ UNCHANGED reached

Admit(p, r) ==
  /\ phase[r] # "absent"
  /\ admitted' = admitted \cup {<<p, r>>}
  /\ UNCHANGED <<phase, owner, reached>>

Reach(p, r) ==
  /\ <<p, r>> \in admitted
  /\ reached' = reached \cup {<<p, r>>}
  /\ UNCHANGED <<phase, owner, admitted>>

Close(r) ==
  /\ phase[r] = "live"
  /\ phase' = [phase EXCEPT ![r] = "gone"]
  /\ UNCHANGED <<owner, admitted, reached>>

Crash ==
  /\ phase' = [r \in Rooms |-> IF phase[r] = "live" THEN "gone" ELSE phase[r]]
  /\ UNCHANGED <<owner, admitted, reached>>

Next ==
  \/ \E r \in Rooms, p \in Peers : Open(p, r) \/ Admit(p, r) \/ Reach(p, r)
  \/ \E r \in Rooms : Close(r)
  \/ Crash

Spec == Init /\ [][Next]_vars
=============================================================================
