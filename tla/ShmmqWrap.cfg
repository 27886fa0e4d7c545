CONSTANTS
  Procs = {p1, p2}
  Items = {a, b}
  MqSize = 3
  PosMod = 4
  Garbage = Garbage
SPECIFICATION Spec
SYMMETRY Symmetry
INVARIANT FifoIntact
