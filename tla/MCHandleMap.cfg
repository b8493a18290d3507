\* Three handle variables and five registrations: enough for a drop of one
\* of three owners, for slots whose object is gone between slots that live,
\* and for three doublings of an array that starts with one slot.
SPECIFICATION Spec
CONSTANTS
  h1 = h1
  h2 = h2
  h3 = h3
  Holders <- MCHolders
  InitialCap = 1
  MaxObjects = 5
SYMMETRY HolderSymmetry
INVARIANTS
  CountIsOwners FreedWhenUnowned
  AllFreedOnceAtDeinit ResolvesToOwn
PROPERTY ImplementsOwnership
\* A map that was deinitialised is not used again.
CHECK_DEADLOCK FALSE
