\* Two processes sharing packages, state.json and history.jsonl.
SPECIFICATION Spec
CONSTANTS
  t1 = t1  t2 = t2  devp = devp  opsp = opsp
  Proc = {h1, h2}
  Root = {h1}
  Tool = {t2}
  Profile <- MCProfile
  Hallfix = Hallfix
  Supported = {t2}
  Versioned = {t2}
  RiskOf <- LowRisk
  Commands <- RaceCommands
  EnglishOutput = TRUE
  MaxCommands = 3
  MaxOutside = 1
INVARIANT NeverAssumed
PROPERTY RemovalsAreOurs
CHECK_DEADLOCK FALSE
