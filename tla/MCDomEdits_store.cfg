SPECIFICATION Spec
CONSTANTS
  s1 = s1  s2 = s2  s3 = s3
  d1 = d1  d2 = d2
  r1 = r1  r2 = r2
  None = None
  Sessions = {s1, s2, s3}
  UserOf <- OwnUser
  RoomOf <- TwoRooms
  Doms = {d1}
  QueueCap = 2
  MaxEdits = 3
  MaxRestart = 1
  WriteFails = TRUE
INVARIANTS
  TypeOK
  NoGhosts
PROPERTIES
  ImplementsStore
SYMMETRY Symmetry
