SPECIFICATION FairSpec
CONSTANTS
  s1 = s1  s2 = s2  r1 = r1  r2 = r2
  i1 = i1  i2 = i2  u1 = u1  u2 = u2
  Sessions <- OneSession
  Ips <- OneIp
  Users <- OneUser
  Records <- OneRecord
  IpOf <- OneIpOf
  UserOf <- OneUserOf
  RecIp <- OneRecIp
  NoSession = NoSession
  Unlisted = Unlisted
  CountCap = 2
  DbReconnect = TRUE
  DeletableUsers = {u1}
  Located = {}
PROPERTIES MonitorIsLeft LoggedIsBilled CollectReturns
