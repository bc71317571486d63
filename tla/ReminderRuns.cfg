SPECIFICATION FairSpec
CONSTANTS
  Ids = {r1}
  Dispatchers = {d1, d2}
  Offsets = {0, 2}
  Outcomes <- AllOutcomes
  LastDay = 3
  MaxMails = 2
INVARIANTS
  TypeOK
  MarkedWasMailed
  MailedOnceUnlessMishap
PROPERTIES
  StopIsFinal
  DueIsMailed
