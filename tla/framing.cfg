\* Two to three exchanges over streams that cut messages anywhere.
SPECIFICATION FairSpec
CONSTANTS
  SizeBytes = 2
  MAX_INCOMING_FILE_SIZE = 3
  RequestSizes <- Requests
  ResponseSizes <- Responses
  WireSize = 3
  Exchanges = 3
  Nothing = Nothing
INVARIANTS
  WithinBuffer
  NothingGarbled
  ShortOnlyIfCutOff
  WholeMessages
PROPERTIES
  CarriesMessages
  RequestsAnswered
CHECK_DEADLOCK FALSE
