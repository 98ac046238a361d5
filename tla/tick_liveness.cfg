\* Two processes, two epochs, two faults: every epoch settles.
SPECIFICATION FairSpec
CONSTANTS
  Proc = {timer, operator}
  NoProc = NoProc
  Timer = timer
  MaxEpoch = 2
  MaxFaults = 2
  PublishModes = {"off", "dry-run", "live"}
  CommitRevealEpochs = {}
  RepeatEpochs = {}
  DamageableEpochs = {}
PROPERTIES
  EpochSettles
