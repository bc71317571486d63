SPECIFICATION FairSpec
CONSTANTS
  Validators = {v1}
  Voters = {}
  Feeds = {f1}
  Sweepers = {w1}
  Ips = {ip1}
  EndDates = {1}
  Editorial = FALSE
  ServeFreshness = 0
  StaleExpire = 0
  EditorialExpire = 1
  VoteWindow = 1
  MaxTime = 2
  MaxVotes = 0
INVARIANTS
  TypeOK
  RowShowsLastVerdict
  StreakCountsInconclusive
  ServedWasVerified
PROPERTIES
  
  RevivedByCheck
  ImplementsTrust
  PastEndDateIsExpired
