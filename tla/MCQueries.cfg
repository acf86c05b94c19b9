SPECIFICATION QuerySpec
CONSTANTS
  v1 = v1
  v2 = v2
  a = a
  b = b
  d1 = d1
  d2 = d2
  Models <- const_Models
  Definitions = {d1, d2}
  NoEntry = NoEntry
  Rank <- const_Rank
  Aliases <- const_Aliases
  s1 = s1
  s2 = s2
  t = t
  Sources <- const_Sources
  Texts <- const_Texts
  Containing <- const_Containing
  Filters <- const_Filters
  Categorised = {d1}
  Sizes = {0, 1, 9}
  DefaultSize = 1
  MaxSize = 2
  NoVendor = NoVendor
  NoToken = NoToken
  MaxEvents = 2
  MaxChanges = 3
INVARIANTS
  ListingIsExact
  SearchFindsName
  StableNameResolves
  AnswerWasRight
