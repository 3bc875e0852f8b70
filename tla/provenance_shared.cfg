\* A profile installed over tools that were there is not recorded as their owner.
SPECIFICATION ProvSpec
CONSTANTS
  t1 = t1  t2 = t2  devp = devp  opsp = opsp
  Proc = {h1}
  Root = {h1}
  Tool <- MCTool
  Profile <- MCProfile
  Hallfix = Hallfix
  Supported <- MCTool
  Versioned = {t2}
  RiskOf <- LowRisk
  Commands <- ProfileCommands
  EnglishOutput = TRUE
  MaxCommands = 3
  MaxOutside = 0
PROPERTY SharedToolsKept
CHECK_DEADLOCK FALSE
