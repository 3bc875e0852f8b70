\* One hallfix process at a time, commands with and without flags.
SPECIFICATION ProvSpec
CONSTANTS
  t1 = t1  t2 = t2  devp = devp  opsp = opsp
  Proc = {h1}
  Root = {h1}
  Tool <- MCTool
  Profile <- MCProfile
  Hallfix = Hallfix
  Supported <- MCTool
  Versioned = {t2}
  RiskOf <- MixedRisk
  Commands <- FlaggedCommands
  EnglishOutput = TRUE
  MaxCommands = 3
  MaxOutside = 0
INVARIANTS TypeOK InstallsAccounted TracksChanges
PROPERTIES ClaimsRespected ConsentedChange
CHECK_DEADLOCK FALSE
