CONSTANTS
  u1 = u1
  k1 = k1
  k2 = k2
  m1 = m1
  x1 = x1
  r1 = r1
  r2 = r2
  root = root
  chief = chief
  None = None
  Subject = {u1}
  Token = {k1, k2}
  Membership = {m1}
  SseTicket = {x1}
  Request = {r1, r2}
  Officer = {root, chief}
  RootOfficer = {root}
  ChiefOf <- MCChiefOf
  Life = 2
  SseLife = 1
  Horizon = 3
  MaxId = 2
  MaxRequests = 4
SPECIFICATION Spec
CHECK_DEADLOCK FALSE
SYMMETRY Slots
INVARIANT DisabledIsRefused OneIdentity RevokedByNextToken TicketsAreSpent BannedEverywhere
