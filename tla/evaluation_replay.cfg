\* Replay rechecks the scores of every epoch.
SPECIFICATION EvalSpec
CONSTANTS
  One = 2
  AlphaNum = 1
  AlphaDen = 2
  Miner = {1, 2}
  Hash = {1, 2}
  Quota = 1
  PanelMode = "calibrate"
  MaxTasks = 1
  Docker = TRUE
  HoldoutRequired = TRUE
  Values = {1, 2}
  Frontiers = {0, 1}
  MaxEpoch = 1
  MaxPackages <- ThreeThenTwo
INVARIANTS
  ReplayMatches
CHECK_DEADLOCK FALSE
