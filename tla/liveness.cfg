\* Two workers that may end at any time, and two frames.
SPECIFICATION FairSpec
CONSTANTS
  InCopies <- NoCopies
  OutCopies <- LogAndFrameImage
  AllFrames <- TwoFrames
  NoFile = NoFile
  Damaged = Damaged
  Direct = {w1, w2}
  Proxied = {}
  ProxyCount = 0
  Faults = {"close"}
PROPERTIES
  Termination
  ResetWorkerReaped
  ActsAsWorkQueue
CHECK_DEADLOCK FALSE
