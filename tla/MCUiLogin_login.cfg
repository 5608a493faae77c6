\* One address, two logins at a time, two sessions, a failure limit of one and a restart.
CONSTANTS
  FailureLimit = 1
  Window = 2
  LockoutTime = 2
  Ips = {ip1}
  Requests = {r1, r2}
  Tokens = {t1, t2}
  Ttls <- BothOrNone
  MaxTime = 3
  MaxRestarts = 1
SYMMETRY Symmetry
SPECIFICATION Spec
INVARIANTS
  TypeOK
  CeilingKept
  RefusedForGood
  FailuresPerWindow
PROPERTY
  SessionsSurvive
  LockoutHolds
\* The clock stops at MaxTime, and a locked address waits for it in vain.
CHECK_DEADLOCK FALSE
