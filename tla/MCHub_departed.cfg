SPECIFICATION Spec
CONSTANTS
  c1 = c1  c2 = c2  c3 = c3
  r1 = r1  d1 = d1
  None = None
  Clients = {c1, c2}
  Users = {c1, c2}
  UserOf <- OwnUser
  Rooms = {r1}
  RoomOf <- OneRoom
  Layers = {0}
  Doms = {d1}
  Ops = {"lock"}
  Flaky = {c1, c2}
  Observed = {}
  SendCap = 2
  MaxBatch = 1
INVARIANTS
  NoLockOfTheDeparted
