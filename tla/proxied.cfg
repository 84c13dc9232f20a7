\* Two proxies and three descriptors for the connections to them.
SPECIFICATION Spec
CONSTANTS
  InCopies <- NoCopies
  OutCopies <- FrameImage
  AllFrames <- OneFrame
  NoFile = NoFile
  Damaged = Damaged
  Direct = {}
  Proxied = {p1, p2, p3}
  ProxyCount = 2
  Faults = {"close", "connect"}
SYMMETRY Symmetry
INVARIANTS
  OnePendingPerProxy
  IndInv
CHECK_DEADLOCK FALSE
