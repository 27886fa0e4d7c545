CONSTANTS
  SetSize = 3
  Masks = {{"READABLE"}}
  Handlers = {"accept_handler", "drive_machine"}
  None = None
  Timed = TRUE
  MaxOpen = 4
  MaxClients = 4
  MaxSends = 3
  Window = 1
SPECIFICATION ServerSpec
INVARIANT NoOrphan
PROPERTY EveryoneServed
CHECK_DEADLOCK FALSE
