CONSTANTS
  t1 = t1
  t2 = t2
  adm = adm
  wrk = wrk
  l1 = l1
  w1 = w1
  m1 = m1
  M1 = M1
  m2 = m2
  r1 = r1
  r2 = r2
  v1 = v1
  v2 = v2
  On = On
  Absent = Absent
  Ticket = {t1, t2}
  User = {adm, wrk}
  Request = {r1, r2}
  Link = {l1}
  Watch = {w1}
  Meta = {m1, m2}
  Spelling = {m1, M1, m2}
  Lower <- MCLower
  Text = {v1, v2}
  Admin = {adm}
  From <- MCFrom
  To <- MCTo
  Type <- MCType
  Watched <- MCWatched
  Watching <- MCWatching
  Described <- MCDescribed
  Viewer <- MCViewer
  Modifier <- MCModifier
  MaxId = 3
SPECIFICATION Spec
CHECK_DEADLOCK FALSE
SYMMETRY Alike
INVARIANT OneRowPerKey PagesMirror
PROPERTY ImplementsBook
