CONSTANTS
  c1 = c1
  c2 = c2
  s1 = s1
  s2 = s2
  f1 = f1
  t1 = t1
  r1 = r1
  r2 = r2
  medium = medium
  high = high
  None = None
  Category = {c1, c2}
  Subcategory = {s1, s2}
  Field = {f1}
  Ticket = {t1}
  Priority = {medium, high}
  Request = {r1, r2}
  MaxLog = 3
  MaxEdits = 2
SPECIFICATION Spec
CHECK_DEADLOCK FALSE
SYMMETRY Alike
INVARIANT NothingDangles FiledUnderItsCategory PriorityHistoryTrue
