SPECIFICATION FairRSpec
CONSTANTS
  g1 = g1
  g2 = g2
  Goroutines = {g1, g2}
  Std = Std
  A = A
  B = B
  None = None
  Crash = Crash
  ordered = ordered
  plain = plain
  map = map
  struct = struct
  Ordered = {map}
  Adapters <- MCAdapters
  Types <- MCTypes
  Caps <- MCCaps
  What <- MCWhat
  Supports <- MCSupports
  Modes <- MCModes
INVARIANT LastRegisteredFirst
INVARIANT AlwaysServed
INVARIANT ServesSupporting
PROPERTY KeepsOrder
PROPERTY CallsEnd
\* a crashed lookup keeps the read lock: the program may stop for good
CHECK_DEADLOCK FALSE
