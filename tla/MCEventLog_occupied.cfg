SPECIFICATION Spec
CONSTANTS
  s1 = s1  s2 = s2  s3 = s3
  r1 = r1  r2 = r2
  k1 = k1  k2 = k2
  None = None
  Sessions = {s1, s2, s3}
  Rooms = {r1, r2}
  RoomOf <- TwoRooms
  Strokes = {k1, k2}
  QueueCap = 2
  MaxId = 2
  ReadFails = FALSE
  WriteFails = FALSE
  KeepOccupied = TRUE
INVARIANTS
  TypeOK
  UniqueIds
  ClockAhead
PROPERTIES
  ImplementsJournal
SYMMETRY Symmetry
