SPECIFICATION FairSpec
CONSTANTS
  Tunnels = {t1, t2}
  Conns = {c1}
  Ports = {p1}
  Allowed = {"local", "remote", "web"}
  MaxPerUser = 2
  Attempts = 2
  None = None
CHECK_DEADLOCK FALSE
INVARIANTS PortsAccounted HeldWhileUsed
PROPERTIES ReaperSparesActive ClosesFinish
