SPECIFICATION FairSpec
CONSTANTS
  a = a
  b = b
  c = c
  Keys = {a, b, c}
  Asked = {b, c}
  Route <- Chain
  Entries = {e1, e2, e3}
  Callers = {p, q}
  Closer = closer
  MaxJumpChain = 2
  None = None
INVARIANTS Accounted NothingPulledAway
PROPERTIES AcquireReturns
