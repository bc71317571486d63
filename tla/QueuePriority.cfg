SPECIFICATION FairSpec
CONSTANTS
  Coupons = {c1, c2}
  NoCoupon = none
  TopMerchant = {c1}
  Workers = {w1}
  Sweeps = {s1}
  Feeds = {}
  Results = {"valid", "unverifiable"}
  Limit = 1
  RevalidateAfter = 2
  Backoff = 2
  StreakThreshold = 1
  PendingTtl = 2
  Outages = FALSE
  Restarts = FALSE
  MaxMessages = 2
PROPERTIES
  NewCodesJumpAhead
