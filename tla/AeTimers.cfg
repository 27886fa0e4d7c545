CONSTANTS
  SecMs = 3
  MaxNow = 6
  MaxTimers = 3
  Delays = {0, 1, 4}
  Returns = {2}
SPECIFICATION Spec
INVARIANTS
  ListIntact
  DueExact
  ScanFiresAll
  SleepBounded
