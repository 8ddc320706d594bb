SPECIFICATION Spec
CONSTANTS
  a = a  b = b  c = c
  k1 = k1
  None = None
  Clients = {a, b, c}
  Strokes = {k1}
  Artist <- OneArtist
  Layers = {0, 1}
  MaxPoint = 1
  MaxBatch = 1
  Roams = {b, c}
  Flaky = {a, c}
INVARIANTS
  TypeOK
  NothingMissed
