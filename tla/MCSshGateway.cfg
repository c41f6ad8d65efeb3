\* Two sockets, a login of each kind: every interleaving, and what the callbacks owed bring about.
CONSTANTS
  Sock = {w1, w2}
  Login = {dbPam, ephAnon}
  NoCookie = NoCookie
  Ephemeral = {ephAnon}
  Pam = {dbPam}
  ChunkSizes = {1}
  MaxChunks = 2
SPECIFICATION FairSpec
INVARIANTS TypeOK OrphansOnlyFromLookup
PROPERTIES KeepsDialogue InitIsAnswered GivenUpIsTornDown
CHECK_DEADLOCK FALSE
