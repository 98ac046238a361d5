\* Two commands against a chain that moves while they run.
SPECIFICATION FairClientSpec
CONSTANTS
  v = v
  m1 = m1
  m2 = m2
  m3 = m3
  Self = v
  Miner = {m1, m2, m3}
  Uid = {0, 1, 2}
  None = None
  Start <- Slots
  Commands <- AllCommands
  Networks = {"test", "loopback"}
  Parameters <- OneAway
  FirstParams <- AtFirst
  FirstAxon <- Published
  MaxBlock = 1
  MaxChanges = 1
  MaxCommands = 2
INVARIANTS
  AlarmContained
  PaidToOwner
  NeverEmpty
  RateLimitKept
  HealthyTickConnects
CHECK_DEADLOCK FALSE
PROPERTIES
  CommandsEnd
