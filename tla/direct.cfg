\* Two workers that connect directly, and everything that can go wrong but
\* the failures that the code takes for successes.
SPECIFICATION Spec
CONSTANTS
  InCopies <- SceneAndCamera
  OutCopies <- LogAndImage
  AllFrames <- TwoFrames
  NoFile = NoFile
  Damaged = Damaged
  Direct = {w1, w2}
  Proxied = {}
  ProxyCount = 0
  Faults = {"close", "lost", "accept", "poll", "read_file", "write_file", "oversize", "error"}
SYMMETRY Symmetry
INVARIANTS
  TypeOK
  FrameHeldOnce
  NoFrameLost
  AllFramesSaved
  FilesComplete
  InputsReady
  Lockstep
  NoAssertion
  ServedFdAligned
CHECK_DEADLOCK FALSE
