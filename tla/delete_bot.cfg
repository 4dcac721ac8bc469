CONSTANTS
  u1 = u1
  a1 = a1
  a2 = a2
  s1 = s1
  b1 = b1
  q1 = q1
  None = None
  System = System
  Deleted = Deleted
  Users = {u1}
  Accounts = {a1, a2}
  Scripts = {s1}
  Bots = {b1}
  Requests = {q1}
  AccountLimit = 1
  MaxBots = 1
  MaxFaults = 0
SPECIFICATION Spec
PROPERTY DeletedBotIsGone
