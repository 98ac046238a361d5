\* Two configured validators, one of them paced and one with a clock ahead of the
\* miner's, one that is not configured, two connections, and requests delivered
\* late, repeatedly, altered and with other headers.
SPECIFICATION AdmSpec
CONSTANTS
  Conn = {c1, c2}
  IP = {ip}
  v1 = v1
  v2 = v2
  v3 = v3
  Hotkey = {v1, v2, v3}
  Allowed = {v1, v2}
  Uuid = {u}
  Skew <- SkewedClocks
  Policies = {TRUE, FALSE}
  Paced = {v1}
  Pace = 2
  Sizes = {1}
  NoLength = NoLength
  BadLength = BadLength
  Declarations = {NoLength}
  MaxBytes = 1
  MaxAge = 1
  MaxSkew = 1
  Cost = 2
  HttpBurst = 3
  HttpRate = 1
  AuthBurst = 2
  AuthRate = 1
  MaxTime = 2
  MaxRequests = 3
SYMMETRY ConnSymmetry
CHECK_DEADLOCK FALSE
INVARIANTS
  ServedIsAuthentic
  RateBound
  CacheBounded
  ReplayCovered
  PacedNeverRefused
PROPERTIES
  AcceptOnce
