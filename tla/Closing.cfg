\* Handlers overlap, clients stop reading; fair scheduler.
SPECIFICATION FairSpec
CONSTANTS
  None = None
  NoPeer = NoPeer
  Conns = {c1, c2}
  PeerIds = {p1, p2}
  UserIds = {u1}
  FakeIds = {}
  RoomIds = {r1}
  Ops = {"create", "join", "leave"}
  RemovableIds = {}
  FreshIds = TRUE
  MayTerminate = FALSE
  MayStall = TRUE
  MaxMsgs = 2
  MaxActive = 2
PROPERTIES ClosedIsForgotten JoinIsAnswered
