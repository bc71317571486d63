SPECIFICATION FairSpec
CONSTANTS
  Validators = {v1}
  Voters = {u1}
  Feeds = {}
  Sweepers = {w1}
  Ips = {ip1}
  EndDates = {}
  Editorial = FALSE
  ServeFreshness = 1
  StaleExpire = 1
  EditorialExpire = 2
  VoteWindow = 1
  MaxTime = 3
  MaxVotes = 2
PROPERTIES
  InconclusiveDoesNotTaint
