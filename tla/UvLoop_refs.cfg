SPECIFICATION Spec
CONSTANTS
  h1 = h1
  h2 = h2
  Handles <- TwoHandles
  Kinds <- AllKinds
  Timeouts <- UpToOne
  Repeats <- UpToOne
  MaxElapsed = 2
  MaxRefs = 1
  MaxLost = 1
PROPERTY RefUntilClosed
