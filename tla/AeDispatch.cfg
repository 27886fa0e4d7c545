CONSTANTS
  SetSize = 2
  Masks = {{"READABLE"}, {"WRITABLE"}, {"READABLE", "WRITABLE"}}
  Handlers = {h1, h2}
  None = None
  Timed = TRUE
SPECIFICATION Spec
SYMMETRY Symmetry
INVARIANTS
  KernelAgrees
  MaxFdExact
PROPERTY CallsAreValid
