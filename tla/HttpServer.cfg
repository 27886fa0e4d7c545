CONSTANTS
  Threads = 2
  MaxAccepts = 2
  Wire <- WireDef
  Streams <- StreamsDef
  Malformed = Malformed
SPECIFICATION FairSpec
INVARIANTS
  HandlersReady
  SocketExclusive
  AnsweredOnce
  RequestSeen
PROPERTY ServesAndRests
CHECK_DEADLOCK FALSE
