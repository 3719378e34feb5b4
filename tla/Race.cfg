\* Two handlers overlap.
SPECIFICATION Spec
CONSTANTS
  None = None
  NoPeer = NoPeer
  Conns = {c1, c2}
  PeerIds = {p1, p2}
  UserIds = {u1}
  FakeIds = {}
  RoomIds = {r1}
  Ops = {"create", "join", "leave"}
  RemovableIds = {}
  FreshIds = TRUE
  MayTerminate = FALSE
  MayStall = FALSE
  MaxMsgs = 2
  MaxActive = 2
INVARIANTS RaceFree
