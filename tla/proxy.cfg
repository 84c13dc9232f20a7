\* One worker, two controllers and everything that can fail.
SPECIFICATION FairSpec
CONSTANTS
  Workers = {w1}
  Controllers = {c1, c2}
  Second = c2
  NoPeer = NoPeer
  MaxWritten <- OneSilent
  WireSize = 1
  Faults = {"close", "lost", "accept", "poll"}
INVARIANTS
  TypeOK
  NoProgrammerError
  DescriptorsMatch
  NobodyWaitsInVain
  DeletedStayClosed
  PipesInv
PROPERTIES
  ActsAsPipes
  Delivered
  Reaped
CHECK_DEADLOCK FALSE
