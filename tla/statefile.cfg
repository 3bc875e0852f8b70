\* Two processes, in turn or at once, killed at any system call.
SPECIFICATION StateSpec
CONSTANTS
  h1 = h1  h2 = h2  t1 = t1  t2 = t2  devp = devp
  Mark = Mark  Missing = Missing  Empty = Empty  Torn = Torn  None = None
  Tool <- MCTool
  Requester <- MCRequester
  Writer <- MCWriter
  MaxChanges = 4
INVARIANTS StateTypeOK NeverTorn OnlyRecorded
PROPERTY ImplementsMap
SYMMETRY Symmetry
CHECK_DEADLOCK FALSE
