SPECIFICATION Spec
CONSTANTS
  Documents <- MCDocuments
  Receivers <- MCReceivers
  MaxDepth = 6
  AliasThreshold = 2
  DecodeThreshold = 6
  RangeLow = 12
  RangeHigh = 40
  RatioSmall = 60
  RatioLarge = 20
CHECK_DEADLOCK FALSE
INVARIANT ExpansionsBalanced
INVARIANT ExpandsOrRefuses
INVARIANT WorkBounded
INVARIANT WritesWhatItWalked
