\* Two processes, each of root's or behind sudo, on a machine with any of the
\* four managers, beside the managers other people run.
SPECIFICATION ManagerFairSpec
CONSTANTS
  h1 = h1  h2 = h2
  Caller = {h1, h2}
  Manager = {"apt", "dnf", "pacman", "zypper"}
  Other = Other  None = None
  EnglishOutput = TRUE
INVARIANTS ManagerTypeOK LockHeldInUse
PROPERTIES ImplementsOps BusyMeansBusy CallsReturn
