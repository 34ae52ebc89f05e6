SPECIFICATION Spec
CONSTANTS
  Keys = {"a", "newline"}
  Rough = {"newline"}
  Scalars = {"true", "2.9999999999", "1e400"}
  ParseFloat <- MCParseFloat
  Truncated <- MCTruncated
  Infinite = {"+Inf"}
  MaxDepth = 2
  MaxTokens = 4
  Held <- MCHeld
INVARIANT WritesWhatItRead
