\* A steady stream beside one whose client may stop reading and which either end
\* may close; channels of one chunk, so that the reader meets a full one; an origin
\* that may stop reading.
SPECIFICATION FairSpec
CONSTANTS
  a = a
  b = b
  Streams = {a, b}
  Fickle = {b}
  Slow = {b}
  Talking = {b}
  Late = {b}
  OriginMayStall = TRUE
  Capacity = 1
  MaxChunks <- MCMaxChunks
  WireCapacity = 1
PROPERTIES
  
  ClosedSessionEndsReader
  LeftClientIsForgotten
  ChunksArriveUnlessStalled
CHECK_DEADLOCK FALSE
