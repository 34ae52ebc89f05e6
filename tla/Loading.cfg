SPECIFICATION FairSpec
CONSTANTS
  Drives <- MCDrives
  Undotted <- MCUndotted
  Files <- MCFiles
  Links <- MCLinks
  Cwd <- MCCwd
  Openable <- MCOpenable
  FSFiles <- MCFSFiles
  Calls <- MCCalls
  Canonical <- MCCanonical
  MaxChunks = 2
CHECK_DEADLOCK FALSE
INVARIANT ReadsWhereTold
INVARIANT AsksAsTold
INVARIANT AnswerIsWhole
INVARIANT Released
PROPERTY LoadEnds
