\* A socket that closes while the server's row is being read.
CONSTANTS
  Sock = {w1}
  Login = {dbPam}
  NoCookie = NoCookie
  Ephemeral = {}
  Pam = {dbPam}
  ChunkSizes = {1}
  MaxChunks = 1
SPECIFICATION Spec
INVARIANT NoOrphan
CHECK_DEADLOCK FALSE
