SPECIFICATION RecordingSpec
CONSTANTS
  Sessions = {s1, s2}
  Logs = {l1, l2, l3}
  Nil = Nil
  MaxBytes = 2
  Seconds = 1
SYMMETRY Symmetry
CHECK_DEADLOCK FALSE
INVARIANTS FilesClosed RecordsKept
