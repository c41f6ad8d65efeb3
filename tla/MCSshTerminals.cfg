\* One session watched from two tabs: every interleaving of output, replay, typing and leaving.
CONSTANTS
  Inline = {t1}
  Popup = {p1}
  Sid = {s1}
  None = None
  ChunkSizes = {1, 3}
  BufferLimit = 3
  MaxKeys = 1
  MaxSent = 4
  Leaver = {t1}
SPECIFICATION FairSpec
INVARIANTS TypeOK StreamIntact BufferKeepsLatest NoViewerForgotten KeysFindOpenSocket
PROPERTY ConnectingEnds
CHECK_DEADLOCK FALSE
