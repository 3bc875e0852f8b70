\* Two processes diagnose, repair and upgrade a Debian machine that changes under them.
SPECIFICATION MaintenanceSpec
CONSTANTS
  h1 = h1  h2 = h2
  Proc <- MCProc
  Manager = "apt"
  Family = "debian"
  Host <- PoorHost
  Disks <- Boundary
  Commands <- AllCommands
  MaxCommands = 2
  MaxChanges = 1
  WarningAt = 70  HighAt = 85  CriticalAt = 95
INVARIANTS MaintenanceTypeOK FixFitsMachine RunsAreRecorded AlarmsAreReal AlarmsAreRaised
PROPERTY ChangesConsented
SYMMETRY Symmetry
CHECK_DEADLOCK FALSE
