\* A worker closes its connection between two messages.
SPECIFICATION FairSpec
CONSTANTS
  InCopies <- NoCopies
  OutCopies <- FrameImage
  AllFrames <- OneFrame
  NoFile = NoFile
  Damaged = Damaged
  Direct = {w1}
  Proxied = {}
  ProxyCount = 0
  Faults = {"close"}
PROPERTIES
  ClosedWorkerReaped
CHECK_DEADLOCK FALSE
