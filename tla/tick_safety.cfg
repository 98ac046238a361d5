\* Two processes, three epochs, every publish mode, a commit-reveal epoch, two
\* epochs with equal weights and a damaged snapshot: safety of the recurring validator.
SPECIFICATION Spec
CONSTANTS
  Proc = {timer, operator}
  NoProc = NoProc
  Timer = timer
  MaxEpoch = 3
  MaxFaults = 2
  PublishModes = {"off", "dry-run", "live"}
  CommitRevealEpochs = {2}
  RepeatEpochs = {1, 3}
  DamageableEpochs = {1}
SYMMETRY ProcSymmetry
INVARIANTS
  StateValid
  AmbiguityFailsClosed
  AtMostOneSubmission
  EmaLineage
  SingleEvaluation
  CommittedIsEvidenced
PROPERTIES
  AbandonedForever
  ChainNeverRegresses
  ImplementsLedger
