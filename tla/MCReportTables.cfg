SPECIFICATION Spec
CONSTANTS
  s1 = s1  s2 = s2  u1 = u1  u2 = u2
  html = html  image = image  w1 = w1  k1 = k1  k2 = k2
  Sessions <- TwoSessions
  Users <- TwoUsers
  UserOf <- TwoUserOf
  Pages <- TwoPages
  Urls <- OneUrl
  UrlOf <- OneUrlOf
  Keys <- TwoKeys
  NoItem = NoItem
  NoProtocol = NoProtocol
  MaxResponses = 3
  MaxAggregations = 3
  MaxMonths = 2
  Settings <- Configurations
CHECK_DEADLOCK FALSE
INVARIANTS TypeOK ProtocolsComplete OwnPagesExact RatingComplete
