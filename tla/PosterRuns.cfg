SPECIFICATION FairSpec
CONSTANTS
  Coupons = {c1, c2}
  Trials = {t1}
  Runs = {r1, r2}
  Refused = {c2}
  Window = 2
  Limit = 1
  MaxFaults = 2
INVARIANTS
  TypeOK
  MarkedWasSent
  RepeatsAreMishaps
PROPERTIES
  FreshIsPosted
