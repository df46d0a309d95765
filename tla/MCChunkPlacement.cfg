SPECIFICATION Spec
CONSTANTS
  Adult = {1, 2, 3, 4}
  Chunk = {0}
  Distance <- MCDistance
  First = {3, 4}
  Filling = {3}
  CHUNK_COPY_COUNT = 2
  MaxChanges = 2
  MaxFaults = 2
CHECK_DEADLOCK FALSE
INVARIANTS
  NoChunkLost
  ReadableWhenNotFull
