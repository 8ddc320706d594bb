SPECIFICATION Spec
CONSTANTS
  s1 = s1  s2 = s2  s3 = s3
  r1 = r1  r2 = r2
  k1 = k1  k2 = k2
  None = None
  Sessions = {s1, s2}
  Rooms = {r1}
  RoomOf <- OneRoom
  Strokes = {k1, k2}
  QueueCap = 1
  MaxId = 3
  ReadFails = TRUE
  WriteFails = TRUE
  KeepOccupied = FALSE
PROPERTIES
  LostOnlyWhereGivenUp
SYMMETRY Symmetry
