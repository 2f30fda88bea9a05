CONSTANTS
  adm = adm
  chf = chf
  mem = mem
  dis = dis
  s1 = s1
  s2 = s2
  r1 = r1
  r2 = r2
  r3 = r3
  d1 = d1
  d2 = d2
  Detail = {d1}
  NoUser = NoUser
  NoSector = NoSector
  User = {adm, chf, dis}
  Sector = {s1}
  Request = {r1, r2}
  Ops = {"assign_sector", "assign_to_me", "assign_to_user", "add_sector", "remove_sector", "add_assignee", "change_status", "mark_done", "reopen", "cancel", "delete"}
  Admin <- MCAdmin
  SuperAdmin <- MCAdmin
  Distributor <- MCDistributor
  Viewer = {}
  Member <- MCMember
  Chief <- MCChief
  MaxReopen = 1
SPECIFICATION Spec
CHECK_DEADLOCK FALSE
SYMMETRY Alike
INVARIANT StampMeansDone AssigneeJoined HolderIsLastActive
PROPERTY ImplementsLifecycle
