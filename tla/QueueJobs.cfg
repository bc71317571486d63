SPECIFICATION Spec
CONSTANTS
  Coupons = {c1, c2}
  NoCoupon = none
  TopMerchant = {}
  Workers = {w1}
  Sweeps = {s1}
  Feeds = {f1}
  Results = {"valid", "invalid", "unverifiable"}
  Limit = 2
  RevalidateAfter = 2
  Backoff = 3
  StreakThreshold = 1
  PendingTtl = 2
  Outages = TRUE
  Restarts = TRUE
  MaxMessages = 2
CONSTRAINT NoKeyLostYet
SYMMETRY Symmetry
INVARIANTS
  TypeOK
  OneJobUnlessKeyLost
