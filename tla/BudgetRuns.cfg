SPECIFICATION FairSpec
CONSTANTS
  NumTools = 3
  Restless = {1}
  Extractors = {x1, x2}
  Checkers = {v1}
  Providers = 2
  Costs = {0, 1}
  Cap = 2
  Budget = 3
  MaxUnchecked = 3
  MaxFaults = 1
INVARIANTS
  TypeOK
  OvershootBounded
PROPERTIES
  ToolsAreRead
