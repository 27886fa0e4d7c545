CONSTANTS
  Chars = {"g", "e", "c", "n", "t", "u", "p", "0", "1", "HTTP/1.1",
           "CR", "LF", "SP", ":", ",", "/", "ctl"}
  MaxHeader = 13
  UllMax = 21
  MaxCuts = 1
  MaxLength = 4
  MaxWithNul = 3
  MaxPieces = 3
  TagBufSize = 2
  Texts <- MCTexts
  AllowLists <- MCAllowLists
SPECIFICATION MCSpec
CHECK_DEADLOCK FALSE
INVARIANTS
  CutsDoNotMatter
  NothingLost
  CallbacksInOrder
  HeaderBounded
  AssertionsHold
  WritesFit
  TextOnly
