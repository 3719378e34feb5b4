\* Handlers overlap, every message type, two rooms; socket ids may come twice.
SPECIFICATION Spec
CONSTANTS
  None = None
  NoPeer = NoPeer
  Conns = {c1, c2}
  PeerIds = {p1, p2}
  UserIds = {u1}
  FakeIds = {f1}
  RoomIds = {r1, r2}
  Ops = {"text", "create", "join", "leave", "addFake", "removeFake", "relay"}
  RemovableIds = {f1, u1}
  FreshIds = FALSE
  MayTerminate = TRUE
  MayStall = FALSE
  MaxMsgs = 3
  MaxActive = 2
SYMMETRY Symmetry
INVARIANTS TypeOK RegistryExact NoForeignDelivery NoEmptyRoom HistoryComplete
PROPERTIES KeepsContract
