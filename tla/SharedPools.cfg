SPECIFICATION SSpec
CONSTANTS
  b1 = b1
  c1 = c1
  r1 = r1
  Buffers = {b1}
  RBuffers = {c1}
  Readers = {r1}
  Options <- MCOptions
  Sizes = {0, 1, 2}
  MaxCap = 4
INVARIANT PooledHoldsNothing
INVARIANT CapacityKept
INVARIANT IdleIsLight
