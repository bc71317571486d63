SPECIFICATION Spec
CONSTANTS
  Validators = {v1, v2}
  Voters = {u1}
  Feeds = {}
  Sweepers = {}
  Ips = {ip1, ip2}
  EndDates = {}
  Editorial = FALSE
  ServeFreshness = 1
  StaleExpire = 1
  EditorialExpire = 2
  VoteWindow = 0
  MaxTime = 2
  MaxVotes = 4
SYMMETRY Symmetry
INVARIANTS
  BadgeBackedByCheck
  CrowdWeighsAtMostHalf
