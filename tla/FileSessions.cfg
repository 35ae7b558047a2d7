SPECIFICATION FairSpec
CONSTANTS
  Conns = {c1, c2}
  Sessions = {s1, s2, s3}
  Requests = {r1, r2}
  Reaper = reaper
  Shutdown = shutdown
  None = None
CHECK_DEADLOCK FALSE
INVARIANTS NoLeaseForgotten
PROPERTIES ImplementsAccess LeaversReleased
