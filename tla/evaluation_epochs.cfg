\* Two epochs of two miners with up to two packages each, two hashes, one live
\* panel run per epoch: credit, budget, cache, archive, replay and EMA.
SPECIFICATION EvalSpec
CONSTANTS
  One = 2
  AlphaNum = 1
  AlphaDen = 2
  Miner = {1, 2}
  Hash = {1, 2}
  Quota = 2
  PanelMode = "calibrate"
  MaxTasks = 1
  Docker = TRUE
  HoldoutRequired = TRUE
  Values = {1, 2}
  Frontiers = {0, 1}
  MaxEpoch = 2
  MaxPackages <- ThreeThenTwo
INVARIANTS
  OneCreditPerHash
  CreditIsEarned
  BudgetAccounted
  UnverifiedNotArchived
  ReplayAgrees
PROPERTIES
  MeasuredOnce
  EmaMovesOnEvidence
CHECK_DEADLOCK FALSE
