\* Two sessions: what retries, reconnects and late messages do to one another.
CONSTANTS
  Inline = {t1}
  Popup = {p1}
  Sid = {s1, s2}
  None = None
  ChunkSizes = {1}
  BufferLimit = 1
  MaxKeys = 0
  MaxSent = 2
  Leaver = {}
SPECIFICATION Spec
SYMMETRY SessionSymmetry
INVARIANTS StreamIntact NoViewerForgotten MapMatchesSockets
CHECK_DEADLOCK FALSE
