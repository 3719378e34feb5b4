\* Handlers overlap; socket ids are fresh; clients send what real ones may, and a
\* removeFakeUser with the id of a real user.
SPECIFICATION Spec
CONSTANTS
  None = None
  NoPeer = NoPeer
  Conns = {c1, c2}
  PeerIds = {p1, p2}
  UserIds = {u1}
  FakeIds = {f1}
  RoomIds = {r1, r2}
  Ops = {"create", "join", "leave", "addFake", "removeFake"}
  RemovableIds = {u1}
  FreshIds = TRUE
  MayTerminate = FALSE
  MayStall = FALSE
  MaxMsgs = 4
  MaxActive = 2
SYMMETRY Symmetry
INVARIANTS JoinIsVisible LeaveIsFinal RosterAgreement SingleRoomExitIsClean
