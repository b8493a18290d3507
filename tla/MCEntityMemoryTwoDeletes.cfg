\* Two entities are deleted in one frame (two windows closed at once).
SPECIFICATION Spec
CONSTANTS
  e1 = e1  e2 = e2
  b1 = b1  b2 = b2  b3 = b3  b4 = b4  b5 = b5
  Null = Null
  Entities <- MCEntities
  Blocks <- FewerBlocks
  FirstAllocs = 1
  MaxMore = 0
  MaxDeletes = 2
PROPERTY CollectorEnds
