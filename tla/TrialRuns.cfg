SPECIFICATION FairSpec
CONSTANTS
  x = x
  X = X
  d = d
  t1 = t1
  t2 = t2
  Extractors = {e1}
  Verifiers = {v1}
  Reminders = {r1}
  Titles = {x, X, d}
  Name <- CaseBlind
  Default = d
  Types = {t1, t2}
  Answers <- LlmAnswers
  Curated <- CuratedOffers
  Retired = {d}
  VerifyLimit = 1
  ReverifyAfter = 0
  MaxId = 3
  MaxTime = 2
  MaxSeeds = 2
  MaxPages = 2
INVARIANTS
  TypeOK
  StatusIsLastVerdict
  
PROPERTIES
  
  ExtractionKeepsTitlesApart
  DueIsVerified
