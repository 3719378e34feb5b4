\* Handlers do not overlap: one client in two rooms.
SPECIFICATION Spec
CONSTANTS
  None = None
  NoPeer = NoPeer
  Conns = {c1, c2}
  PeerIds = {p1, p2}
  UserIds = {u1}
  FakeIds = {}
  RoomIds = {r1, r2}
  Ops = {"create", "join", "leave"}
  RemovableIds = {}
  FreshIds = TRUE
  MayTerminate = FALSE
  MayStall = FALSE
  MaxMsgs = 4
  MaxActive = 1
INVARIANTS CloseLeavesAllRooms
