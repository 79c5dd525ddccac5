SPECIFICATION Spec
CONSTANTS
  s1 = s1  s2 = s2  r1 = r1  r2 = r2
  i1 = i1  i2 = i2  u1 = u1  u2 = u2
  Sessions <- TwoSessions
  Ips <- TwoIps
  Users <- TwoUsers
  Records <- TwoRecords
  IpOf <- SharedIpOf
  UserOf <- TwoUserOf
  RecIp <- TwoRecIp
  NoSession = NoSession
  Unlisted = Unlisted
  CountCap = 2
  DbReconnect = FALSE
  DeletableUsers = {}
  Located = {r1}
PROPERTY CollectedIsFlushed
