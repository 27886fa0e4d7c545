CONSTANTS
  Bufs = {b1, b2, b3}
  Memories = {m1, m2}
  Capacity = 3
  Sources <- MCSources
SPECIFICATION Spec
SYMMETRY Symmetry
INVARIANTS
  TypeOK
  ContentExact
  RefsExact
