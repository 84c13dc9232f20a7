\* One worker, and failures that the code takes for successes.
SPECIFICATION Spec
CONSTANTS
  InCopies <- SceneAndCamera
  OutCopies <- LogAndFrameImage
  AllFrames <- TwoFrames
  NoFile = NoFile
  Damaged = Damaged
  Direct = {w1}
  Proxied = {}
  ProxyCount = 0
  Faults = {"close", "error", "partial", "signal", "fork"}
INVARIANTS
  TalkInv
  OutputsMatchFrame
CHECK_DEADLOCK FALSE
