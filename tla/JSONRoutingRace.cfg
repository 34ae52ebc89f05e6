SPECIFICATION RSpec
CONSTANTS
  g1 = g1
  g2 = g2
  Goroutines = {g1}
  Std = Std
  A = A
  B = B
  None = None
  Crash = Crash
  ordered = ordered
  plain = plain
  map = map
  struct = struct
  Ordered = {map}
  Adapters <- MCAdapters
  Types <- MCTypes
  Caps <- MCCaps
  What <- MCWhat
  Supports <- MCSupports
  Modes <- MCFree
INVARIANT NoCallPanics
