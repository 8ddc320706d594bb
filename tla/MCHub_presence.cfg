SPECIFICATION Spec
CONSTANTS
  c1 = c1  c2 = c2  c3 = c3
  r1 = r1  d1 = d1
  None = None
  Clients = {c1, c2, c3}
  Users = {c1, c2, c3}
  UserOf <- OwnUser
  Rooms = {r1}
  RoomOf <- OneRoom
  Layers = {0}
  Doms = {}
  Ops = {}
  Flaky = {c1}
  Observed = {c1, c2, c3}
  SendCap = 2
  MaxBatch = 1
INVARIANTS
  ListedAreTold
  LeaveIsAnnounced
SYMMETRY Peers
