\* Two validators, an honest and a dishonest miner, a retried epoch, and a
\* network that loses, delays, mixes up and changes responses.
SPECIFICATION WireSpec
CONSTANTS
  Validator = {v1, v2}
  Miner = {honest, other}
  Honest = {honest}
  small = small
  large = large
  Package = {small, large}
  Bytes <- PackageBytes
  TaskLists <- MinerTasks
  ServeQuota = 2
  Quotas = {1, 3}
  MaxResponse = 2
  Envelope = 1
  Overhead = 1
  MaxQuery = 2
  MaxEpoch = 2
  OtherVersion = OtherVersion
  None = None
SYMMETRY ValidatorSymmetry
CHECK_DEADLOCK FALSE
INVARIANTS
  PayloadsAreAnswers
  CountedOnce
  HonestAnswerCounts
