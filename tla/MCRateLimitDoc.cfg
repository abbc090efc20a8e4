\* rate_limiter.go:58 against an Expire that fails.
SPECIFICATION Spec
CONSTANTS
  Procs = {p1, p2}
  Limit = 2
PROPERTY LaterIsAllowed
