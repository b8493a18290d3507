\* Objects of six types with nested objects, floats, fixed and growing arrays of
\* up to two elements, in both layouts; an older and a newer reader; every place
\* to cut the text. Floats are printed with one decimal of which three characters
\* are kept, where the code prints six and keeps 31.
SPECIFICATION JsonSpec
CONSTANTS
  Registries <- MCRegistries
  Writer = "current"
  Samples <- MCSamples
  Memories <- MCMemories
  Levels = 3
  Decimals = 1
  FloatRoom = 3
  Pretty = {TRUE, FALSE}
INVARIANTS ReadsWhatWasWritten CutIsRejected
\* One object is written and read.
CHECK_DEADLOCK FALSE
