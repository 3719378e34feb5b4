\* Handlers do not overlap: the owner leaves before a join.
SPECIFICATION Spec
CONSTANTS
  None = None
  NoPeer = NoPeer
  Conns = {c1, c2, c3}
  PeerIds = {p1, p2, p3}
  UserIds = {u1}
  FakeIds = {}
  RoomIds = {r1}
  Ops = {"create", "join", "leave"}
  RemovableIds = {}
  FreshIds = TRUE
  MayTerminate = FALSE
  MayStall = FALSE
  MaxMsgs = 3
  MaxActive = 1
SYMMETRY Symmetry
INVARIANTS AllPeersConnectToOwner
