CONSTANTS
  adm = adm
  av1 = av1
  av2 = av2
  s1 = s1
  r1 = r1
  r2 = r2
  c1 = c1
  c2 = c2
  c3 = c3
  e1 = e1
  e2 = e2
  d1 = d1
  Detail = {d1}
  NoUser = NoUser
  NoSector = NoSector
  User = {adm, av1}
  Avizator = {av1}
  Sector = {s1}
  Request = {r1}
  Caller = {c1, c2}
  Endorsement = {e1, e2}
  Ops = {"assign_to_me", "mark_done", "reopen"}
  Admin = {adm}
  SuperAdmin = {adm}
  Distributor = {}
  Viewer = {}
  Member <- MCMember
  Chief <- MCMember
  MaxReopen = 1
SPECIFICATION ESpec
CHECK_DEADLOCK FALSE
SYMMETRY Interchangeable
INVARIANT OneClaimant
PROPERTY DoneSawDecisions ImplementsDesk OverruledByRacer
