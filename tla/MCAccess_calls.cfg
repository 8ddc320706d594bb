SPECIFICATION FairSpec
CONSTANTS
  s1 = s1  s2 = s2  s3 = s3
  r1 = r1  r2 = r2
  None = None
  Sessions = {s1, s2}
  Users = {s1, s2}
  UserOf <- OwnUser
  Moderators = {s1}
  Rooms = {r1}
  RoomOf <- OneRoom
  QueueCap = 1
  MaxLayer = 2
  Granted = {0, 3}
  ReadFails = TRUE
  WriteFails = TRUE
INVARIANTS
  RoomsAreWhole
PROPERTIES
  CallsReturn
