\* Two processes that save, back up and restore, killed at any system call.
SPECIFICATION FilesSpec
CONSTANTS
  h1 = h1  h2 = h2  v1 = v1  v2 = v2  i1 = i1  i2 = i2
  File = File  Missing = Missing  Empty = Empty  Torn = Torn  None = None
  Proc <- MCProc
  Text <- MCText
  Id <- MCId
  MaxSecond = 2
  MaxCalls = 4
  MaxEdits = 2
INVARIANTS FilesTypeOK SnapshotsKept CopiesWhole NoLeftovers
PROPERTY RestoreBringsBack
SYMMETRY Symmetry
CHECK_DEADLOCK FALSE
