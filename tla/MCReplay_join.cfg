SPECIFICATION Spec
CONSTANTS
  a = a  b = b  c = c
  k1 = k1
  None = None
  Clients = {a, b}
  Strokes = {k1}
  Artist <- OneArtist
  Layers = {0}
  MaxPoint = 1
  MaxBatch = 1
  Roams = {}
  Flaky = {}
INVARIANTS
  JoinedMidDrawing
