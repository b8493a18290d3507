\* Two windows with two frame slots each (the engine's default), a frame
\* counter that wraps at 3, so that the wrap repeats a slot, and up to three
\* swapchains per window: windows open, resize and close with frames in flight.
SPECIFICATION Spec
CONSTANTS
  Windows = {"main", "extra"}
  Inflight = 2
  FrameWrap = 3
  MaxSwapchains <- MCMaxSwapchains
INVARIANTS SlotIdleWhenReused WorkUsesLiveSurface FenceWillCome
PROPERTY EveryWindowRendered
\* With every window closed for good, or after an abort, the program stops.
CHECK_DEADLOCK FALSE
