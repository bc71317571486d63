SPECIFICATION Spec
CONSTANTS
  None = None
  Key <- MCKey
  Score <- MCPairScore
  Upper <- MCUpper
  Placeholders <- MCPlaceholders
  Offers <- MCOffers
  Listings <- MCListings
  Links <- MCLinks
  PageSize = 2
  MaxPages = 3
  MaxChanges = 2
INVARIANTS
  TypeOK
  NoOfferSkipped
  SourcesAreKept
  LabelFollowsText
  LabelIsPlausible
