CONSTANTS
  Procs = {p1, p2}
  Items = {a, b}
  MqSize = 3
  PosMod = 6
  Garbage = Garbage
SPECIFICATION FairSpec
INVARIANTS
  TypeOK
  LockOwned
  PositionsAgree
  FifoIntact
  VerdictHolds
PROPERTIES
  CallsReturn
  ImplementsBoundedQueue
