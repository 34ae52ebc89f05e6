SPECIFICATION RSpec
CONSTANTS
  Inputs <- MCInputs
  PageSizes <- MCPageSizes
  Alien <- MCAlien
CHECK_DEADLOCK FALSE
INVARIANT FailsWhenWrong
INVARIANT IndexIsTree
INVARIANT PagesAreListing
