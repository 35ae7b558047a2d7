SPECIFICATION BroadcastSpec
CONSTANTS
  t1 = t1
  t2 = t2
  t3 = t3
  t4 = t4
  Terms = {t1, t2, t3, t4}
  Mine = {t1, t2, t3}
  Primary = t1
  Choices <- MCChoices
  MaxSent = 4
CHECK_DEADLOCK FALSE
INVARIANTS KeysInStep GroupHonest
