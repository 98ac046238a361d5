\* The miner's unit with its own numbers of attempts and starts: publication,
\* doctor, crashes, slow starts, the loss of the UID, and a request delivered
\* again and again, with bodies within and above the cap.
SPECIFICATION FairServiceSpec
CONSTANTS
  Conn = {c1}
  IP = {ip}
  Hotkey = {v}
  Allowed = {v}
  Uuid = {u}
  Skew <- ClocksAhead
  Policies = {TRUE}
  Paced = {}
  Pace = 0
  Sizes = {1, 2}
  NoLength = NoLength
  BadLength = BadLength
  Declarations = {NoLength}
  MaxBytes = 1
  MaxAge = 0
  MaxSkew = 1
  Cost = 1
  HttpBurst = 1
  HttpRate = 1
  AuthBurst = 1
  AuthRate = 1
  MaxTime = 1
  MaxRequests = 1
  ReadBacks = 2
  Attempts = 3
  StartBurst = 5
  MaxFaults = 4
  MaxLaunches = 1
CHECK_DEADLOCK FALSE
INVARIANTS
  WholeBody
  PublishedIsExact
PROPERTIES
  AcceptOncePerLife
  DoctorTellsTruth
  ServiceRecovers
