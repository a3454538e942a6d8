\* An origin that reads, and two clients that stay: one of them stops reading.
SPECIFICATION FairSpec
CONSTANTS
  a = a
  b = b
  Streams = {a, b}
  Fickle = {}
  Slow = {b}
  Talking = {}
  Late = {b}
  OriginMayStall = FALSE
  Capacity = 1
  MaxChunks <- MCMaxChunks
  WireCapacity = 1
PROPERTY OneSlowStreamBlocksNoOther
CHECK_DEADLOCK FALSE
