\* Executions of root's process end, beside one behind sudo that may never come back.
SPECIFICATION FairSpec
CONSTANTS
  t1 = t1  t2 = t2  devp = devp  opsp = opsp
  Proc = {h1, h2}
  Root = {h1}
  Tool <- MCTool
  Profile <- MCProfile
  Hallfix = Hallfix
  Supported = {t2}
  Versioned = {t2}
  RiskOf <- MediumRisk
  Commands <- BothTools
  EnglishOutput = FALSE
  MaxCommands = 2
  MaxOutside = 0
PROPERTY RunsEnd
CHECK_DEADLOCK FALSE
