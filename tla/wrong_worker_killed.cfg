\* A reset makes the loop erase the next worker as well.
SPECIFICATION Spec
CONSTANTS
  InCopies <- NoCopies
  OutCopies <- FrameImage
  AllFrames <- OneFrame
  NoFile = NoFile
  Damaged = Damaged
  Direct = {w1, w2}
  Proxied = {}
  ProxyCount = 0
  Faults = {"close"}
PROPERTIES
  KillOnlyDead
CHECK_DEADLOCK FALSE
