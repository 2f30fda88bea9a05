CONSTANTS
  adm = adm
  boss = boss
  chf = chf
  mem = mem
  s1 = s1
  s2 = s2
  t1 = t1
  r1 = r1
  r2 = r2
  NoUser = NoUser
  NoSector = NoSector
  User = {adm, boss, mem}
  Ticket = {t1}
  Sector = {s1, s2}
  Request = {r1, r2}
  Admin <- MCAdmin
  Auditor = {}
  Distributor <- MCDistributor
  Member <- MCMember
  Chief <- MCChief
  Requester <- MCRequester
  Named <- MCNamed
  Holder <- MCHolder
  Home <- MCHome
  OverviewTtl = 1
  PanelTtl = 2
  GlobalTtl = 3
  Patience = 1
  MaxAsks = 2
  MaxMoves = 1
SPECIFICATION Spec
CHECK_DEADLOCK FALSE
SYMMETRY Slots
INVARIANT OverviewIsMine
