\* Two workers behind a proxy, a large response to one request and a large
\* request on the other connection; nothing fails.
SPECIFICATION RelaySpec
CONSTANTS
  Workers = {w1, w2}
  Controllers = {c1, c2}
  NoPeer = NoPeer
  Second = c2
  MaxWritten <- LargeResponses
  WireSize = 1
  Faults = {}
PROPERTIES
  SendReturns
CHECK_DEADLOCK FALSE
