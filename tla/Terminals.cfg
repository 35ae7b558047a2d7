SPECIFICATION FairSpec
CONSTANTS
  Terms = {t1}
  Browsers = {b1, b2}
  someone = someone
  UserOf <- OneUser
  None = None
  Grace = 1
INVARIANTS ChannelsLive InReach ReportHonest
PROPERTIES DrainSettles Progress
