SPECIFICATION Spec
CONSTANTS
  Identifiers <- AllIdentifiers
  Limit <- AttemptLimits
  Window = 2
  LockoutDuration = 2
  MaxTime = 2
  Sessions = {s1, s2}
  Requests = {r1, r2}
  Codes = {c1}
  Idle = 1
  Absolute = 2
  StateTTL = 0
  Workloads <- AllWorkloads
  None = None
SYMMETRY Symmetry
CHECK_DEADLOCK FALSE
INVARIANTS GuessBound CodesOnce SuspensionEndsSessions
