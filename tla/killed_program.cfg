\* The program is killed by a signal.
SPECIFICATION Spec
CONSTANTS
  InCopies <- NoCopies
  OutCopies <- FrameImage
  AllFrames <- TwoFrames
  NoFile = NoFile
  Damaged = Damaged
  Direct = {w1}
  Proxied = {}
  ProxyCount = 0
  Faults = {"signal"}
INVARIANTS
  SavedWasRendered
CHECK_DEADLOCK FALSE
