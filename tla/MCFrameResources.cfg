\* Two windows with two frame slots each, the first one opened and resized or
\* opened twice; a pool holds one set, so that the second set of an object always
\* overflows, and a third pool serves a slot whose window is opened again; the
\* frames of the second window draw nothing. One object is put off, a buffer or
\* a texture, in some frame of either window.
SPECIFICATION FRSpec
CONSTANTS
  Windows = {"main", "extra"}
  Inflight = 2
  FrameWrap = 2
  MaxSwapchains <- MCMaxSwapchains
  Allocators <- MCAllocators
  Queues <- MCAllocators
  InitialSets = 1
  MaxSets = 4
  MaxPools = 3
  None = None
  Objects = {"buffer", "texture"}
  Textures = {"texture"}
  MaxObjects <- MCMaxObjects
  MaxDeferred = 1
INVARIANTS RetryFindsRoom InFlightIntact EveryPoolOnce DeferredOnce
\* With every window closed for good, or after an abort, the program stops.
CHECK_DEADLOCK FALSE
