\* A text that ends behind the colon of the type's name.
SPECIFICATION JsonSpec
CONSTANTS
  Registries <- SameRegistry
  Writer = "current"
  Samples <- ArraySamples
  Memories <- ArrayMemories
  Levels = 3
  Decimals = 1
  FloatRoom = 3
  Pretty = {FALSE}
INVARIANT ErrorOrObject
CHECK_DEADLOCK FALSE
