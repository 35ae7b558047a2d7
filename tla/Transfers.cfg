SPECIFICATION FairSpec
CONSTANTS
  c1 = c1
  c2 = c2
  x = x
  y = y
  Conns = {c1, c2}
  Sessions = {s1, s2}
  Requests = {r1}
  None = None
  Jobs = {j1}
  MaxJobsPerUser = 1
  Trees <- TwoHosts
  Targets <- Paths
  Dirs <- OneDir
  Spellings <- FourSpellings
  Places <- NewPlaces
  Modes = {x}
  MaxEdits = 1
  MaxBuffers = 1
CHECK_DEADLOCK FALSE
PROPERTIES  DoneIsWhole DeleteStaysInside JobsEnd
