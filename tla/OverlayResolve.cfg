SPECIFICATION Spec
CONSTANTS
  Names <- MCNames
  Trees <- MCTrees
  Owned <- MCOwned
  Height = 3
INVARIANT ResolvesAsUnionMount
INVARIANT ListsWhatResolves
CHECK_DEADLOCK FALSE
