\* Entities: two, deleted in frames of their own or both in one; the first two
\* allocations of each in one deferred section and two more later, over five
\* blocks: a block is recycled by the other entity while orphans are around.
\* Heap: blocks of 2, 4, 8 and 16 units in a heap of 16, a request that rounds
\* up, and one that the heap can never serve.
\* Frame: three threads over 6 bytes with an alignment of 2; the sizes leave
\* begin odd and even, fill the arena exactly and run past its end.
SPECIFICATION MCSpec
CONSTANTS
  e1 = e1  e2 = e2
  b1 = b1  b2 = b2  b3 = b3  b4 = b4  b5 = b5
  Null = Null
  Entities <- MCEntities
  Blocks <- MCBlocks
  FirstAllocs = 2
  MaxMore = 2
  MaxDeletes = 2
  Sizes = {1, 2, 4, 8, 16}
  Total = 16
  Requests = {1, 2, 7, 15, 16}
  NoBlock = NoBlock
  Threads = {t1, t2, t3}
  Data = 2
  End = 8
  Align = 2
  AllocSizes = {1, 3}
INVARIANTS
  OwnedStaysLive FreedTwiceOnlyInBurst
  Tiled OnlyLastIsMissed
  OneBlockPastEnd BeginStaysNear
PROPERTIES HeapIsAllocator FrameIsAllocator RootsAreFreed CallsReturn
