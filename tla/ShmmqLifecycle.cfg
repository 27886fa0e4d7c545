CONSTANTS
  Creator = creator
  Users = {u1, u2}
  MaxSems = 2
  MaxSegs = 2
SPECIFICATION FairSpec
INVARIANTS
  Exclusive
  OpenedWhole
PROPERTY WaitersReturn
