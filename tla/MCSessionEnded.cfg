SPECIFICATION FairSpec
CONSTANTS
  s1 = s1
  s2 = s2
  u1 = u1
  p1 = p1
  p2 = p2
  Sids <- OneSession
  Users <- OneUser
  LoginOf <- OneLogin
  Processors <- TwoProcessors
  MaxRows = 2
  NoRow = NoRow
  WebTimeout = 1
  RefusedUsers = {}
  Settings <- Endings
PROPERTY EndedIsClosed
