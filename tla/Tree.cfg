SPECIFICATION ImportsSpec
CONSTANTS
  Users = {a, u}
  Admins = {a}
  Teams = {t}
  Folders = {f1, f2, f3}
  Conns = {c1, c2, c3, c4, c5}
  Requests = {r1, r2}
  Names <- HandNames
  MaxDepth = 3
  MaxJumpChain = 3
  Workloads <- AllWorkloads
  Bundles <- AllBundles
  Tokens = {k1}
  MaxStaged = 1
  None = None
  Gone = Gone
SYMMETRY Symmetry
CHECK_DEADLOCK FALSE
INVARIANTS OwnersKept LoopsNeedRaces RoutesSound CommittedOnce
PROPERTIES DeletesExactly
