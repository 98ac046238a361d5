\* A dry-run validator; its one fault is an exception, no crash follows it.
SPECIFICATION PreSpec
CONSTANTS
  Proc = {timer}
  NoProc = NoProc
  Timer = timer
  MaxEpoch = 2
  MaxFaults = 1
  PublishModes = {"dry-run"}
  CommitRevealEpochs = {}
  RepeatEpochs = {}
  DamageableEpochs = {}
INVARIANTS
  PreSubmitErrorAdvances
