\* A session that is given up for one with typed credentials.
CONSTANTS
  Inline = {t1}
  Popup = {}
  Sid = {s1, s2}
  None = None
  ChunkSizes = {1}
  BufferLimit = 1
  MaxKeys = 0
  MaxSent = 2
  Leaver = {}
SPECIFICATION Spec
INVARIANT NoAbandonedSession
CHECK_DEADLOCK FALSE
