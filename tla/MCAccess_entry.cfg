SPECIFICATION Spec
CONSTANTS
  s1 = s1  s2 = s2  s3 = s3
  r1 = r1  r2 = r2
  None = None
  Sessions = {s1, s2, s3}
  Users = {s1, s2, s3}
  UserOf <- OwnUser
  Moderators = {s1, s2}
  Rooms = {r1}
  RoomOf <- OneRoom
  QueueCap = 2
  MaxLayer = 3
  Granted = {}
  ReadFails = FALSE
  WriteFails = FALSE
INVARIANTS
  TypeOK
  AdmittedToARoom
  OnlyOwnPrivateLayers
  MembershipHasRoom
SYMMETRY Symmetry
