\* Handlers do not overlap: two clients.
SPECIFICATION Spec
CONSTANTS
  None = None
  NoPeer = NoPeer
  Conns = {c1, c2}
  PeerIds = {p1, p2}
  UserIds = {u1}
  FakeIds = {}
  RoomIds = {r1, r2}
  Ops = {"create", "join", "leave"}
  RemovableIds = {}
  FreshIds = TRUE
  MayTerminate = FALSE
  MayStall = FALSE
  MaxMsgs = 4
  MaxActive = 1
INVARIANTS ApiListsRooms
