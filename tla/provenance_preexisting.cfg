\* Upgrading a tool makes hallfix its owner.
SPECIFICATION ProvSpec
CONSTANTS
  t1 = t1  t2 = t2  devp = devp  opsp = opsp
  Proc = {h1}
  Root = {h1}
  Tool <- MCTool
  Profile <- MCProfile
  Hallfix = Hallfix
  Supported <- MCTool
  Versioned = {t2}
  RiskOf <- LowRisk
  Commands <- SharedCommands
  EnglishOutput = TRUE
  MaxCommands = 2
  MaxOutside = 0
PROPERTY PreexistingKept
CHECK_DEADLOCK FALSE
