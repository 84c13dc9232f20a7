\* Short command lines of every kind, and texts of up to five characters.
SPECIFICATION Spec
CONSTANTS
  CommandLines <- SomeCommandLines
  INT_MAX = 127
  LONG_MAX = 8191
  SomeFrames = {0, 1, 10, 111}
  MaxArguments = 4
  MaxGroups = 4
  MaxText = 5
INVARIANTS
  ReadsUsage
  RemoteStaysLocal
  ReplacesParameters
  FramesHaveNames
  EndpointForms
CHECK_DEADLOCK FALSE
