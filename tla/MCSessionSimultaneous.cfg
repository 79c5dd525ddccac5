SPECIFICATION Spec
CONSTANTS
  s1 = s1
  s2 = s2
  u1 = u1
  p1 = p1
  p2 = p2
  Sids <- TwoSessions
  Users <- OneUser
  LoginOf <- SameLogin
  Processors <- TwoProcessors
  MaxRows = 2
  NoRow = NoRow
  WebTimeout = 1
  RefusedUsers = {}
  Settings <- TwoAtOnce
SYMMETRY Interchangeable
INVARIANT SimultaneousUseKept
