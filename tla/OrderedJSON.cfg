SPECIFICATION Spec
CONSTANTS
  Keys = {"a", "b"}
  Rough = {}
  Scalars = {"true", "2.9999999999", "1e400"}
  ParseFloat <- MCParseFloat
  Truncated <- MCTruncated
  Infinite = {"+Inf"}
  MaxDepth = 2
  MaxTokens = 8
  Held <- MCHeld
INVARIANT DepthIsNesting
INVARIANT AcceptsObjects
INVARIANT FailureChangesNothing
INVARIANT WritesWhatItRead
INVARIANT UpdatesInPlace
INVARIANT JoinsDocuments
