CONSTANTS
  SecMs = 3
  MaxNow = 6
  MaxTimers = 1
  Delays = {0, 1, 4}
  Returns = {2}
SPECIFICATION Spec
INVARIANT
  NoEventDelayed
