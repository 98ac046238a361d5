\* What the docstring of bounded_call says of an expiry.
SPECIFICATION CallSpec
CHECK_DEADLOCK FALSE
INVARIANTS
  ExpiryIsTimeout
