\* Every text of up to five tokens; no int is listed twice in a range.
SPECIFICATION FairSpec
CONSTANTS
  INT_MAX = 7
  LONG_MAX = 31
  Numbers <- SomeNumbers
  Comma = Comma
  Other = Other
  MaxTokens = 5
  MaxFrames = 17
INVARIANTS
  AcceptsGrammar
  RangeListed
  NoFrameTwice
PROPERTY GetAllReturns
CHECK_DEADLOCK FALSE
