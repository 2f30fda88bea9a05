CONSTANTS
  t1 = t1
  t2 = t2
  adm = adm
  wrk = wrk
  rqs = rqs
  c1 = c1
  k1 = k1
  k2 = k2
  r1 = r1
  r2 = r2
  b1 = b1
  b2 = b2
  b3 = b3
  a1 = a1
  NoUser = NoUser
  NoBody = NoBody
  Ticket = {t1, t2}
  User = {adm, wrk, rqs}
  Comment = {c1}
  Key = {k1, k2}
  Attachment = {a1}
  Body = {b1, b2, b3}
  Request = {r1, r2}
  TicketOf <- MCTicketOf
  KeyTicket <- MCKeyTicket
  Admin = {adm}
  Auditor = {}
  Distributor = {}
  Avizator = {rqs}
  Party <- MCParty
  Watcher <- MCWatcher
  Situations <- MCSituations
  Mentions <- MCMentions
  MaxRequests = 3
SPECIFICATION Spec
CHECK_DEADLOCK FALSE
SYMMETRY Alike
INVARIANT BodyOnRecord AttachmentsSound ListedIsFetchable
PROPERTY DeletedStaysDeleted OnlyItsAuthor PrivateStaysInside
