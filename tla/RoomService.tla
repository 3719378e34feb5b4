---------------------------- MODULE RoomService ----------------------------
(***************************************************************************)
(* The data of server/roomService.go: users, the Users slice of a room and *)
(* the operations RoomService performs on it.                              *)
(*                                                                         *)
(* A Users slice is modelled as a bag: a function from users to the number *)
(* of times they occur.  Occurrences matter (joining twice lists a user    *)
(* twice, and every occurrence is sent a copy of a broadcast); the order   *)
(* of the slice does not matter to anything the server decides.  Names and *)
(* pictures are carried along by the code and are left out.                *)
(***************************************************************************)
EXTENDS Naturals

CONSTANTS
  PeerIds,   \* socket ids clients send in the "id" query parameter
  NoPeer,    \* the empty string as a socket id; the PeerID of a fake user
  UserIds,   \* User.ID, as found in a token
  FakeIds    \* ids of fake users: the ids of the tracks of loaded files

ASSUME NoPeerAssumption == NoPeer \notin PeerIds
ASSUME FakeIdsAssumption == FakeIds \cap UserIds = {}

\* A user with a socket, and a fake user: its PeerID is left empty.
RealUser == [id : UserIds, peer : PeerIds]
FakeUser == [id : FakeIds, peer : {NoPeer}]
User     == RealUser \cup FakeUser

\* The values of Room.Users.
Bag      == [User -> Nat]
EmptyBag == [u \in User |-> 0]

\* room.Users = append(room.Users, u)
AppendUser(users, u) == [users EXCEPT ![u] = @ + 1]

\* filterUsers with the two predicates it is called with: u.PeerID != peer
\* (LeaveRoom) and u.ID != id (RemoveFakeUser).
WithoutPeer(users, peer) ==
  [u \in User |-> IF u.peer = peer THEN 0 ELSE users[u]]

WithoutId(users, id) ==
  [u \in User |-> IF u.id = id THEN 0 ELSE users[u]]

\* hasUser: some user of the slice has this PeerID.
hasUser(users, peer) == \E u \in User : u.peer = peer /\ users[u] > 0
=============================================================================
