CONSTANTS
  u1 = u1
  u2 = u2
  a1 = a1
  a2 = a2
  a3 = a3
  s1 = s1
  b1 = b1
  b2 = b2
  q1 = q1
  q2 = q2
  None = None
  System = System
  Deleted = Deleted
  Users = {u1, u2}
  Accounts = {a1, a2, a3}
  Scripts = {s1}
  Bots = {b1, b2}
  Requests = {q1, q2}
  AccountLimit = 1
  MaxBots = 1
  MaxFaults = 1
SPECIFICATION Spec
SYMMETRY Symmetry
INVARIANTS
  OneBotPerAccount
  BotsOwnTheirParts
  PaidForIsKnown
  LimitsHold
