SPECIFICATION FairSpec
CONSTANTS
  o1 = o1
  o2 = o2
  l1 = l1
  l2 = l2
  m1 = m1
  m2 = m2
  Syncs = {s1, s2}
  Pulls = {p1}
  Casts = {{s1, s2}, {s1, p1}}
  Offers = {o1, o2}
  Listed = {l1, l2}
  Merchants = {m1, m2}
  MerchantOf <- TwoMerchants
  Texts = {a}
  FirstText = a
  Bad = {}
  StaleAfter = 1
  MaxTime = 2
  MaxChanges = 1
  MaxFaults = 1
INVARIANTS
  TypeOK
  
  HealthyMeansShown

  
