----------------------- MODULE TicketWorkflow_proofs -----------------------
(***************************************************************************)
(* Theorems about TicketWorkflow for any set of users, sectors, endpoints  *)
(* and concurrent requests.                                                *)
(***************************************************************************)
EXTENDS TicketWorkflow, TLAPS

\* What the type of a request does not say: the arguments its write needs are
\* there, a status write goes from the snapshot's status to a target that the
\* generic table and the endpoint's own table allow from it, and only releases
\* look for a successor.
WellFormed(q) ==
  /\ q.op \in {"assign_sector", "add_sector"} => q.sec \in Sector
  /\ q.op \in {"assign_to_me", "assign_to_user", "add_assignee"} => q.to \in User
  /\ q.op \in StatusOps => /\ q.target \in DOMAIN ChangeStatusFrom
                           /\ q.status \in ChangeStatusFrom[q.target]
                           /\ q.pick # NoUser => Wakes(q)
                           /\ MayMove(q.op, q.status, q.target)
  /\ q.stage = "promote" => q.op \in StaleWriters
  /\ q.op = "return" => q.pick \in User

Remembers == \A r \in Request : WellFormed(req[r])

TypeInv == TypeOK /\ Remembers

USE RolesAssumption

\* The tables, with the records taken apart.
LEMMA Tables ==
  /\ Transitions.assign_sector.from = {"pending", "assigned_to_sector", "in_progress"}
  /\ Transitions.assign_to_me.from = {"pending", "assigned_to_sector"}
  /\ Transitions.assign_to_user.from = {"pending", "assigned_to_sector", "in_progress"}
  /\ Transitions.mark_done.from = {"in_progress"}
  /\ Transitions.reopen.from = {"done", "cancelled"}
  /\ Transitions.cancel.from = {"pending", "assigned_to_sector", "in_progress"}
  /\ DOMAIN ChangeStatusFrom = {"assigned_to_sector", "in_progress", "done", "cancelled"}
  /\ ChangeStatusFrom["assigned_to_sector"] = {"in_progress"}
  /\ ChangeStatusFrom["in_progress"] = {"pending", "assigned_to_sector", "done", "cancelled"}
  /\ ChangeStatusFrom["done"] = {"in_progress"}
  /\ ChangeStatusFrom["cancelled"] = {"pending", "assigned_to_sector", "in_progress"}
BY DEF Transitions, ChangeStatusFrom, Workable, Assignable, Finished

\* The rows of the design table, endpoint by endpoint.
LEMMA MoveTable ==
  /\ \A s \in Transitions.assign_sector.from : MayMove("assign_sector", s, "assigned_to_sector")
  /\ \A s \in Transitions.assign_to_me.from : MayMove("assign_to_me", s, "in_progress")
  /\ \A s \in Transitions.assign_to_user.from : MayMove("assign_to_user", s, "in_progress")
  /\ \A s \in Transitions.mark_done.from : MayMove("mark_done", s, "done")
  /\ \A s \in Transitions.reopen.from : MayMove("reopen", s, "in_progress")
  /\ \A s \in Transitions.cancel.from : MayMove("cancel", s, "cancelled")
BY DEF MayMove, Transitions

\* A release leaves a status behind whatever status it saw.
LEMMA FallbackType ==
  ASSUME NEW q \in Req
  PROVE  Fallback(q) \in Statuses
<1>1. Transitions["unassign"].to = "assigned_to_sector"
  BY DEF Transitions
<1>2. q.status \in Statuses
  BY DEF Req
<1> QED
  BY <1>1, <1>2 DEF Fallback, TargetStatus, Statuses

\* Remembering a well-formed q preserves the types.
LEMMA KeepType ==
  ASSUME TypeInv, NEW r \in Request, NEW q \in Req, Keep(r, q), WellFormed(q)
  PROVE  TypeInv'
<1>1. req' = [req EXCEPT ![r] = q] /\ req' \in [Request -> Req]
  BY DEF Keep, TypeInv, TypeOK
<1>2. TypeOK'
  BY <1>1 DEF Keep, TypeInv, TypeOK
<1>3. Remembers'
  <2>1. \A x \in Request : req'[x] = IF x = r THEN q ELSE req[x]
    BY <1>1 DEF TypeInv, TypeOK
  <2> QED
    BY <2>1 DEF TypeInv, Remembers
<1> QED
  BY <1>2, <1>3 DEF TypeInv

\* Ending a request preserves what the others remember.
LEMMA DropType ==
  ASSUME TypeInv, NEW r \in Request, req' = [req EXCEPT ![r] = Idle]
  PROVE  req' \in [Request -> Req] /\ Remembers'
<1>1. Idle \in Req /\ WellFormed(Idle)
  BY DEF Idle, Req, Statuses, WellFormed, StatusOps
<1>2. req' \in [Request -> Req]
  BY <1>1 DEF TypeInv, TypeOK
<1>3. Remembers'
  <2>1. \A x \in Request : req'[x] = IF x = r THEN Idle ELSE req[x]
    BY DEF TypeInv, TypeOK
  <2> QED
    BY <1>1, <2>1 DEF TypeInv, Remembers
<1> QED
  BY <1>2, <1>3

\* Every read handler remembers something well-formed.
LEMMA ReadType ==
  ASSUME TypeInv, NEW r \in Request, NEW p \in User, Read(r, p)
  PROVE  TypeInv'
<1>0. row \in Row
  BY DEF TypeInv, TypeOK
<1>1. ASSUME NEW s \in Sector, AssignSectorRead(r, p, s)
      PROVE  TypeInv'
  <2> DEFINE q == [Idle EXCEPT !.op = "assign_sector", !.sec = s]
  <2>1. q \in Req /\ WellFormed(q)
    BY <1>1 DEF AssignSectorRead, Load, Idle, Req, WellFormed, StatusOps, StaleWriters, Statuses
  <2>2. Keep(r, q)
    BY <1>1 DEF AssignSectorRead
  <2> HIDE DEF q
  <2> QED
    BY <2>1, <2>2, KeepType
<1>2. ASSUME NEW s \in Sector, AddSectorRead(r, p, s)
      PROVE  TypeInv'
  <2> DEFINE q == [Idle EXCEPT !.op = "add_sector", !.sec = s]
  <2>1. q \in Req /\ WellFormed(q)
    BY <1>2 DEF AddSectorRead, Load, Idle, Req, WellFormed, StatusOps, StaleWriters, Statuses
  <2>2. Keep(r, q)
    BY <1>2 DEF AddSectorRead
  <2> HIDE DEF q
  <2> QED
    BY <2>1, <2>2, KeepType
<1>3. ASSUME NEW s \in Sector, RemoveSectorRead(r, p, s)
      PROVE  TypeInv'
  <2> DEFINE q == [Idle EXCEPT !.op = "remove_sector", !.sec = s]
  <2>1. q \in Req /\ WellFormed(q)
    BY <1>3 DEF RemoveSectorRead, Load, Idle, Req, WellFormed, StatusOps, StaleWriters, Statuses
  <2>2. Keep(r, q)
    BY <1>3 DEF RemoveSectorRead
  <2> HIDE DEF q
  <2> QED
    BY <2>1, <2>2, KeepType
<1>4. ASSUME NEW u \in User, AssignToUserRead(r, p, u)
      PROVE  TypeInv'
  <2> DEFINE q == [Idle EXCEPT !.op = "assign_to_user", !.to = u]
  <2>1. q \in Req /\ WellFormed(q)
    BY <1>4 DEF AssignToUserRead, Load, Idle, Req, WellFormed, StatusOps, StaleWriters, Statuses
  <2>2. Keep(r, q)
    BY <1>4 DEF AssignToUserRead
  <2> HIDE DEF q
  <2> QED
    BY <2>1, <2>2, KeepType
<1>5. ASSUME NEW u \in User, AddAssigneeRead(r, p, u)
      PROVE  TypeInv'
  <2> DEFINE q == [Idle EXCEPT !.op = "add_assignee", !.to = u,
                               !.pick = IF row.assignee = NoUser THEN u ELSE NoUser,
                               !.mark = row.assignee = NoUser /\ u \in assignees \ primaries,
                               !.rows = assignees]
  <2>0. assignees \subseteq User
    BY DEF TypeInv, TypeOK
  <2>1. q \in Req /\ WellFormed(q)
    BY <1>5, <2>0, ZenonT(60) DEF AddAssigneeRead, Load, Idle, Req, WellFormed, StatusOps, StaleWriters, Statuses
  <2>2. Keep(r, q)
    BY <1>5 DEF AddAssigneeRead
  <2> HIDE DEF q
  <2> QED
    BY <2>1, <2>2, KeepType
<1>6. ASSUME NEW u \in User, RemoveAssigneeRead(r, p, u)
      PROVE  TypeInv'
  <2> DEFINE q == [Idle EXCEPT !.op = "remove_assignee", !.to = u, !.stage = "promote",
                               !.assignee = u, !.status = row.status]
             n == [Idle EXCEPT !.op = "remove_assignee", !.to = u]
  <2>1. q \in Req /\ WellFormed(q)
    BY <1>0, <1>6 DEF RemoveAssigneeRead, Load, Idle, Req, WellFormed, StatusOps, StaleWriters, Row, Statuses
  <2>2. n \in Req /\ WellFormed(n)
    BY <1>6 DEF RemoveAssigneeRead, Load, Idle, Req, WellFormed, StatusOps, StaleWriters, Statuses
  <2>3. Keep(r, q) \/ Keep(r, n)
    BY <1>6 DEF RemoveAssigneeRead
  <2> HIDE DEF q, n
  <2> QED
    BY <2>1, <2>2, <2>3, KeepType
<1>7. CASE AssignToMeRead(r, p)
  <2> DEFINE st == IF row.assignee = NoUser
                   THEN TargetStatus("assign_to_me", row.status, row.status)
                   ELSE row.status
             q == [Idle EXCEPT !.op = "assign_to_me", !.to = p, !.sector = row.sector,
                               !.status = st]
  <2>1. Transitions["assign_to_me"].to = "in_progress"
    BY DEF Transitions
  <2>2. st \in Statuses
    BY <1>0, <2>1 DEF TargetStatus, Row, Statuses
  <2>3. Keep(r, q) /\ "assign_to_me" \in Ops
    BY <1>7 DEF AssignToMeRead, Load
  <2> HIDE DEF st
  <2>4. q \in Req /\ WellFormed(q)
    BY <1>0, <2>2, <2>3, ZenonT(60) DEF Idle, Req, Row, Statuses, WellFormed, StatusOps, StaleWriters
  <2> HIDE DEF q
  <2> QED
    BY <2>3, <2>4, KeepType
<1>8. CASE UnassignRead(r, p)
  <2> DEFINE q == [Idle EXCEPT !.op = "unassign", !.stage = "promote",
                          !.to = row.assignee, !.assignee = row.assignee,
                          !.status = row.status]
  <2>1. q \in Req /\ WellFormed(q)
    BY <1>0, <1>8 DEF UnassignRead, Load, Idle, Req, WellFormed, StatusOps, StaleWriters, Row, Statuses
  <2>2. Keep(r, q)
    BY <1>8 DEF UnassignRead
  <2> HIDE DEF q
  <2> QED
    BY <2>1, <2>2, KeepType
<1>9. ASSUME NEW op \in StatusOps, NEW target \in DOMAIN ChangeStatusFrom, NEW from,
             from \subseteq ChangeStatusFrom[target],
             op = "reopen" => target = "in_progress" /\ from = Finished,
             \A s \in from : MayMove(op, s, target),
             ApplyStatusRead(r, p, op, target, from)
      PROVE  TypeInv'
  <2> DEFINE q == [Idle EXCEPT !.op = op, !.target = target,
                          !.status = row.status, !.assignee = row.assignee,
                          !.pick = IF op = "reopen" THEN row.lastActive ELSE NoUser]
  <2>0. op \in Ops /\ target \in Statuses
    BY <1>9, Tables DEF ApplyStatusRead, Load, Statuses
  <2>1. q \in Req
    <3>1. /\ row.status \in Statuses
          /\ row.assignee \in User \cup {NoUser} /\ row.lastActive \in User \cup {NoUser}
      BY <1>0 DEF Row
    <3> DEFINE pick == IF op = "reopen" THEN row.lastActive ELSE NoUser
    <3>2. pick \in User \cup {NoUser}
      BY <3>1
    <3> HIDE DEF pick
    <3>3. [Idle EXCEPT !.op = op, !.target = target, !.status = row.status,
                       !.assignee = row.assignee, !.pick = pick] \in Req
      BY <2>0, <3>1, <3>2 DEF Idle, Req
    <3> QED
      BY <3>3 DEF pick
  <2>2. q.op = op /\ q.stage = "write" /\ q.target = target /\ q.status = row.status
        /\ (q.pick # NoUser => op = "reopen")
    BY DEF Idle
  <2>3. Keep(r, q) /\ row.status \in from
    BY <1>9 DEF ApplyStatusRead
  <2>4. op \notin {"assign_sector", "add_sector", "assign_to_me", "assign_to_user", "add_assignee",
                   "return"}
    BY DEF StatusOps
  <2> HIDE DEF q
  <2>5. q.pick # NoUser => Wakes(q)
    BY <1>9, <2>2, <2>3 DEF Wakes
  <2>6. WellFormed(q)
    BY <1>9, <2>2, <2>3, <2>4, <2>5 DEF WellFormed
  <2> QED
    BY <2>1, <2>3, <2>6, KeepType
<1>10. CASE ChangeStatusRead(r, p)
  BY <1>9, <1>10 DEF ChangeStatusRead, StatusOps, MayMove
<1>11. CASE MarkDoneRead(r, p)
  BY <1>9, <1>11, Tables, MoveTable DEF MarkDoneRead, StatusOps
<1>12. CASE ReopenRead(r, p)
  BY <1>9, <1>12, Tables, MoveTable DEF ReopenRead, StatusOps, Finished
<1>13. CASE CancelRead(r, p)
  BY <1>9, <1>13, Tables, MoveTable DEF CancelRead, StatusOps
<1>14. CASE DeleteRead(r, p)
  <2> DEFINE q == [Idle EXCEPT !.op = "delete"]
  <2>1. q \in Req /\ WellFormed(q)
    BY <1>14 DEF DeleteRead, Load, Idle, Req, WellFormed, StatusOps, StaleWriters, Statuses
  <2>2. Keep(r, q)
    BY <1>14 DEF DeleteRead
  <2> HIDE DEF q
  <2> QED
    BY <2>1, <2>2, KeepType
<1>15. CASE ReturnRead(r, p)
  <2> DEFINE q == [Idle EXCEPT !.op = "return", !.pick = row.lastActive]
  <2>1. row.lastActive \in User
    BY <1>0, <1>15 DEF ReturnRead, Row
  <2>2. q \in Req /\ WellFormed(q)
    BY <2>1 DEF Idle, Req, WellFormed, StatusOps, StaleWriters, Statuses
  <2>3. Keep(r, q)
    BY <1>15 DEF ReturnRead
  <2> HIDE DEF q
  <2> QED
    BY <2>2, <2>3, KeepType
<1>16. CASE DescribeRead(r, p)
  <2> DEFINE q == [Idle EXCEPT !.op = "describe"]
  <2>1. q \in Req /\ WellFormed(q)
    BY <1>16 DEF DescribeRead, Load, Idle, Req, WellFormed, StatusOps, StaleWriters, Statuses
  <2>2. Keep(r, q)
    BY <1>16 DEF DescribeRead
  <2> HIDE DEF q
  <2> QED
    BY <2>1, <2>2, KeepType
<1> QED
  BY <1>1, <1>2, <1>3, <1>4, <1>5, <1>6, <1>7, <1>8, <1>10, <1>11, <1>12, <1>13, <1>14, <1>15, <1>16
  DEF Read

\* Every commit writes a well-formed row and well-formed join tables.
LEMMA WriteType ==
  ASSUME TypeInv, NEW r \in Request, Write(r)
  PROVE  TypeInv'
<1> DEFINE q == req[r]
<1>0. row \in Row /\ q \in Req
  BY DEF TypeInv, TypeOK
<1>a. /\ q.op \in {"assign_sector", "add_sector"} => q.sec \in Sector
      /\ q.op \in {"assign_to_me", "assign_to_user", "add_assignee"} => q.to \in User
      /\ q.op \in StatusOps => q.target \in DOMAIN ChangeStatusFrom
  BY DEF TypeInv, Remembers, WellFormed
<1>b. /\ assignees \subseteq User /\ primaries \subseteq assignees
      /\ sectors \subseteq Sector /\ claims \subseteq User
  BY DEF TypeInv, TypeOK
<1>c. ASSUME NEW u \in User
      PROVE  HandTo(u) \in Row /\ [HandTo(u) EXCEPT !.status = "in_progress"] \in Row
  BY <1>0 DEF HandTo, Row, Statuses
<1>d. ASSUME NEW new \in Row, Commit(r, new),
             assignees' \subseteq User, primaries' \subseteq assignees',
             sectors' \subseteq Sector, claims' \subseteq User
      PROVE  TypeInv'
  BY <1>d, DropType DEF Commit, TypeInv, TypeOK
<1>e. ASSUME NEW new, NEW won, won \subseteq User, Claims(new, won)
      PROVE  claims' \subseteq User
  BY <1>b, <1>e DEF Claims
<1>f. ASSUME NEW rows, NEW u \in User, NEW primary \in BOOLEAN, JoinSeeing(rows, u, primary)
      PROVE  assignees' \subseteq User /\ primaries' \subseteq assignees'
  BY <1>b, <1>f DEF JoinSeeing
<1>g. ASSUME Leave(q)
      PROVE  assignees' \subseteq User /\ primaries' \subseteq assignees'
  BY <1>b, <1>g DEF Leave
<1> HIDE DEF q
<1>1. CASE AssignSectorWrite(r)
  <2>1. q.sec \in Sector
    BY <1>1, <1>a DEF AssignSectorWrite, Writing, q
  <2>2. [row EXCEPT !.status = "assigned_to_sector", !.sector = q.sec] \in Row
    BY <1>0, <2>1 DEF Row, Statuses
  <2>3. /\ Commit(r, [row EXCEPT !.status = "assigned_to_sector", !.sector = q.sec])
        /\ sectors' = sectors \cup {q.sec}
        /\ UNCHANGED <<assignees, primaries, claims>>
    BY <1>1 DEF AssignSectorWrite, q
  <2> QED
    BY <1>b, <1>d, <2>1, <2>2, <2>3
<1>2. CASE AddSectorWrite(r)
  BY <1>0, <1>a, <1>b, <1>d, <1>2 DEF AddSectorWrite, Writing, q
<1>3. CASE RemoveSectorWrite(r)
  BY <1>0, <1>b, <1>d, <1>3 DEF RemoveSectorWrite
<1>4. CASE AssignToMeWrite(r)
  <2>1. q.to \in User
    BY <1>4, <1>a DEF AssignToMeWrite, Writing, q
  <2> DEFINE new == [HandTo(q.to) EXCEPT !.status = "in_progress"]
  <2>2. /\ Commit(r, new) /\ Claims(new, {q.to}) /\ JoinSeeing(assignees, q.to, TRUE)
        /\ UNCHANGED sectors
    BY <1>4 DEF AssignToMeWrite, JoinAs, q
  <2>3. new \in Row
    BY <1>c, <2>1
  <2> HIDE DEF new
  <2> QED
    BY <1>b, <1>d, <1>e, <1>f, <2>1, <2>2, <2>3
<1>5. CASE AssignToUserWrite(r)
  <2>1. q.to \in User
    BY <1>5, <1>a DEF AssignToUserWrite, Writing, q
  <2> DEFINE new == [HandTo(q.to) EXCEPT !.status = "in_progress"]
  <2>2. /\ Commit(r, new) /\ Claims(new, {}) /\ JoinSeeing(assignees, q.to, TRUE)
        /\ UNCHANGED sectors
    BY <1>5 DEF AssignToUserWrite, JoinAs, q
  <2>3. new \in Row
    BY <1>c, <2>1
  <2> HIDE DEF new
  <2> QED
    BY <1>b, <1>d, <1>e, <1>f, <2>1, <2>2, <2>3
<1>6. CASE AddAssigneeWrite(r)
  <2>1. q.to \in User
    BY <1>6, <1>a DEF AddAssigneeWrite, Writing, q
  <2> DEFINE new == IF q.pick = NoUser THEN row ELSE HandTo(q.pick)
  <2>2. /\ Commit(r, new) /\ Claims(new, {}) /\ UNCHANGED sectors
        /\ \/ JoinSeeing(q.rows, q.to, q.pick # NoUser)
           \/ JoinSeeing(assignees, q.to, q.pick # NoUser)
    BY <1>6 DEF AddAssigneeWrite, q
  <2>3. q.pick \in User \cup {NoUser}
    BY <1>0 DEF Req
  <2>4. new \in Row
    BY <1>0, <1>c, <2>3
  <2> HIDE DEF new
  <2> QED
    BY <1>b, <1>d, <1>e, <1>f, <2>1, <2>2, <2>4
<1>7. CASE UnassignWrite(r)
  <2> DEFINE st == IF q.pick = NoUser THEN Fallback(q) ELSE "in_progress"
             new == [row EXCEPT !.assignee = q.pick, !.status = st]
  <2>1. /\ Commit(r, new) /\ Claims(new, {}) /\ Leave(q)
        /\ UNCHANGED sectors
    BY <1>7 DEF UnassignWrite, q
  <2>2. st \in Statuses
    BY <1>0, FallbackType DEF Statuses
  <2> HIDE DEF st
  <2>3. new \in Row
    BY <1>0, <2>2 DEF Row, Req
  <2> HIDE DEF new
  <2> QED
    BY <1>b, <1>d, <1>e, <1>g, <2>1, <2>3
<1>8. CASE RemoveAssigneeWrite(r)
  <2> DEFINE st == IF q.pick = NoUser THEN Fallback(q) ELSE q.status
             new == [row EXCEPT !.assignee = q.pick, !.status = st]
  <2>1. /\ \/ Commit(r, new) /\ Claims(new, {})
           \/ Commit(r, row) /\ UNCHANGED claims
        /\ Leave(q) /\ UNCHANGED sectors
    BY <1>8 DEF RemoveAssigneeWrite, q
  <2>2. st \in Statuses
    BY <1>0, FallbackType DEF Req
  <2> HIDE DEF st
  <2>3. new \in Row
    BY <1>0, <2>2 DEF Row, Req
  <2> HIDE DEF new
  <2> QED
    BY <1>0, <1>b, <1>d, <1>e, <1>g, <2>1, <2>3
<1>9. CASE ApplyStatusWrite(r)
  <2>1. q.target \in Statuses
    BY <1>0 DEF Req
  <2>d. PICK d \in Told(q) : Commit(r, StatusRow(q, d)) /\ Claims(StatusRow(q, d), {})
    BY <1>9 DEF ApplyStatusWrite, q
  <2>2. /\ Wakes(q) => row.reopened < MaxReopen
        /\ UNCHANGED sectors
        /\ \/ assignees' = {} /\ primaries' = {}
           \/ UNCHANGED <<assignees, primaries>>
    BY <1>9 DEF ApplyStatusWrite, q
  <2>3. (IF Wakes(q) THEN row.reopened + 1 ELSE row.reopened) \in 0..MaxReopen
    BY <1>0, <2>2 DEF Row
  <2>4. d \in Detail
    BY <1>0, <2>d DEF Told, Row
  <2>5. StatusRow(q, d) \in Row
    BY <1>0, <2>1, <2>3, <2>4, ZenonT(60) DEF StatusRow, Row, Req
  <2> QED
    BY <1>b, <1>d, <1>e, <2>d, <2>2, <2>5
<1>10. CASE DeleteWrite(r)
  <2>1. [row EXCEPT !.deleted = TRUE] \in Row
    BY <1>0 DEF Row
  <2> QED
    BY <1>b, <1>d, <1>10, <2>1 DEF DeleteWrite
<1>11. CASE ReturnWrite(r)
  <2> DEFINE new == IF row.deleted THEN row ELSE [row EXCEPT !.assignee = q.pick]
  <2>1. /\ Commit(r, new) /\ Claims(new, {})
        /\ UNCHANGED <<assignees, primaries, sectors>>
    BY <1>11 DEF ReturnWrite, q
  <2>2. new \in Row
    BY <1>0 DEF Row, Req
  <2> HIDE DEF new
  <2> QED
    BY <1>b, <1>d, <1>e, <2>1, <2>2
<1>12. CASE DescribeWrite(r)
  <2>1. PICK d \in Detail : Commit(r, [row EXCEPT !.details = d])
    BY <1>12 DEF DescribeWrite
  <2>2. [row EXCEPT !.details = d] \in Row
    BY <1>0 DEF Row
  <2> QED
    BY <1>b, <1>d, <1>12, <2>1, <2>2 DEF DescribeWrite
<1> QED
  BY <1>1, <1>2, <1>3, <1>4, <1>5, <1>6, <1>7, <1>8, <1>9, <1>10, <1>11, <1>12 DEF Write

\* Every step keeps the types, and what requests remember well-formed.
LEMMA TypeStep == TypeInv /\ [Next]_vars => TypeInv'
<1> SUFFICES ASSUME TypeInv, [Next]_vars
             PROVE  TypeInv'
  OBVIOUS
<1>1. ASSUME NEW r \in Request, Promote(r)
      PROVE  TypeInv'
  <2> DEFINE q == req[r]
  <2>1. q \in Req /\ q.stage = "promote"
    BY <1>1 DEF TypeInv, TypeOK, Promote
  <2>2. PICK u \in User \cup {NoUser} :
          Keep(r, [q EXCEPT !.stage = "write", !.pick = u,
                            !.mark = u # NoUser /\ u \notin primaries])
    BY <1>1 DEF Promote, TypeInv, TypeOK
  <2> DEFINE n == [q EXCEPT !.stage = "write", !.pick = u,
                            !.mark = u # NoUser /\ u \notin primaries]
  <2>3. n \in Req /\ n.op = q.op /\ n.sec = q.sec /\ n.to = q.to /\ n.stage = "write"
    BY <2>1, <2>2, ZenonT(60) DEF Req
  <2>4. q.op \in StaleWriters
    BY <2>1 DEF TypeInv, Remembers, WellFormed
  <2>5. WellFormed(n)
    BY <2>3, <2>4 DEF WellFormed, StatusOps, StaleWriters
  <2>6. Keep(r, n)
    BY <2>2
  <2> HIDE DEF n
  <2> QED
    BY <2>3, <2>5, <2>6, KeepType
<1>2. ASSUME NEW r \in Request, Rollback(r)
      PROVE  TypeInv'
  BY <1>2, DropType DEF Rollback, TypeInv, TypeOK
<1>3. CASE UNCHANGED vars
  BY <1>3 DEF vars, TypeInv, TypeOK, Remembers
<1>4. CASE Declassify
  <2>1. row \in Row
    BY DEF TypeInv, TypeOK
  <2>2. row' \in Row
    BY <1>4, <2>1 DEF Declassify, Row
  <2> QED
    BY <1>4, <2>2 DEF Declassify, TypeInv, TypeOK, Remembers
<1> QED
  BY <1>1, <1>2, <1>3, <1>4, ReadType, WriteType DEF Next

\* The initial state is of the right type.
LEMMA InitType == Init => TypeInv
<1> SUFFICES ASSUME Init
             PROVE  TypeInv
  OBVIOUS
<1>1. Idle \in Req
  BY DEF Idle, Req, Statuses
<1>2. row \in Row
  BY DEF Init, Row, Statuses
<1>3. TypeOK
  BY <1>1, <1>2 DEF Init, TypeOK
<1>4. Remembers
  BY DEF Init, Remembers, WellFormed, Idle, StatusOps
<1> QED
  BY <1>3, <1>4 DEF TypeInv

\* The types of the row, the join tables and the requests in flight.
THEOREM TypeCorrect == Spec => []TypeOK
<1>1. TypeInv => TypeOK
  BY DEF TypeInv
<1> QED
  BY <1>1, InitType, TypeStep, PTL DEF Spec

-----------------------------------------------------------------------------
(* Only a commit changes the tables                                        *)

\* A read changes nothing but the reader's memory.
LEMMA ReadKeeps ==
  ASSUME NEW r \in Request, NEW p \in User, Read(r, p)
  PROVE  UNCHANGED <<row, assignees, primaries, sectors, claims>>
BY DEF Read, AssignSectorRead, AddSectorRead, RemoveSectorRead, AssignToUserRead,
       AddAssigneeRead, RemoveAssigneeRead, AssignToMeRead, UnassignRead,
       ChangeStatusRead, MarkDoneRead, ReopenRead, CancelRead, DeleteRead,
       ReturnRead, DescribeRead, ApplyStatusRead, Keep

\* Neither does choosing whom to promote, or giving up.
LEMMA QuietKeeps ==
  ASSUME NEW r \in Request, Promote(r) \/ Rollback(r)
  PROVE  UNCHANGED <<row, assignees, primaries, sectors, claims>>
BY DEF Promote, Rollback, Keep

\* A step that changes the ticket is some request's write, or the database
\* takes a deleted category off it.
LEMMA OnlyWritesWrite ==
  ASSUME [Next]_vars, row' # row
  PROVE  Declassify \/ \E r \in Request : Write(r)
BY ReadKeeps, QuietKeeps DEF Next, vars

\* Writing other details leaves the rest of the row alone.
LEMMA DeclassifyKeeps ==
  ASSUME TypeInv, Declassify
  PROVE  /\ SameButDetails /\ UNCHANGED <<assignees, primaries, sectors, claims, req>>
         /\ row'.status = row.status /\ row'.sector = row.sector /\ row'.assignee = row.assignee
         /\ row'.lastActive = row.lastActive /\ row'.doneAt = row.doneAt
         /\ row'.reopened = row.reopened /\ row'.deleted = row.deleted
<1>1. row \in Row
  BY DEF TypeInv, TypeOK
<1> QED
  BY <1>1 DEF Declassify, SameButDetails, Row

LEMMA DescribeKeeps ==
  ASSUME TypeInv, NEW r \in Request, DescribeWrite(r)
  PROVE  /\ SameButDetails /\ UNCHANGED <<assignees, primaries, sectors, claims>>
         /\ row'.status = row.status /\ row'.sector = row.sector /\ row'.assignee = row.assignee
         /\ row'.lastActive = row.lastActive /\ row'.doneAt = row.doneAt
         /\ row'.reopened = row.reopened /\ row'.deleted = row.deleted
         /\ req' = [req EXCEPT ![r] = Idle]
<1>1. row \in Row
  BY DEF TypeInv, TypeOK
<1> QED
  BY <1>1 DEF DescribeWrite, Commit, SameButDetails, Row

\* A reopen of a ticket in progress touches its assignee only, if anything.
LEMMA ReturnKeeps ==
  ASSUME TypeInv, NEW r \in Request, ReturnWrite(r)
  PROVE  /\ UNCHANGED <<assignees, primaries, sectors>>
         /\ row'.status = row.status /\ row'.sector = row.sector
         /\ row'.lastActive = row.lastActive /\ row'.doneAt = row.doneAt
         /\ row'.reopened = row.reopened /\ row'.deleted = row.deleted
         /\ row' = row \/ (row'.assignee = req[r].pick /\ ~row.deleted)
<1>1. row \in Row
  BY DEF TypeInv, TypeOK
<1>2. CASE row.deleted
  BY <1>2 DEF ReturnWrite, Commit
<1>3. CASE ~row.deleted
  <2>1. row' = [row EXCEPT !.assignee = req[r].pick]
    BY <1>3 DEF ReturnWrite, Commit
  <2> QED
    BY <1>1, <1>3, <2>1 DEF ReturnWrite, Row
<1> QED
  BY <1>2, <1>3

-----------------------------------------------------------------------------
(* At most one winner                                                      *)

\* Why OneClaim holds: a claim is only ever added to a ticket nobody holds,
\* and by then the earlier claims are over.
ClaimInv == OneClaim /\ (claims # {} => row.assignee # NoUser)

\* The commit of a handler that claims nothing for itself.
LEMMA NoClaimStep ==
  ASSUME ClaimInv, NEW r \in Request, NEW new, Commit(r, new), Claims(new, {})
  PROVE  ClaimInv'
BY DEF ClaimInv, OneClaim, Commit, Claims

\* Every step keeps the claims of an unheld ticket empty and at most one.
LEMMA ClaimStep == TypeInv /\ ClaimInv /\ [Next]_vars => ClaimInv'
<1> SUFFICES ASSUME TypeInv, ClaimInv, [Next]_vars
             PROVE  ClaimInv'
  OBVIOUS
<1>0. row \in Row
  BY DEF TypeInv, TypeOK
<1>1. ASSUME row'.assignee = row.assignee, claims' = claims
      PROVE  ClaimInv'
  BY <1>1 DEF ClaimInv, OneClaim
<1>2. ASSUME NEW r \in Request, NEW p \in User, Read(r, p)
      PROVE  ClaimInv'
  BY <1>1, <1>2, ReadKeeps
<1>3. ASSUME NEW r \in Request, Promote(r) \/ Rollback(r)
      PROVE  ClaimInv'
  BY <1>1, <1>3, QuietKeeps
<1>4. ASSUME NEW r \in Request, Write(r)
      PROVE  ClaimInv'
  <2> DEFINE q == req[r]
  <2>1. CASE AssignSectorWrite(r)
    BY <1>0, <1>1, <2>1 DEF AssignSectorWrite, Commit, Row
  <2>2. CASE AddSectorWrite(r)
    BY <1>1, <2>2 DEF AddSectorWrite, Commit
  <2>3. CASE RemoveSectorWrite(r)
    BY <1>1, <2>3 DEF RemoveSectorWrite, Commit
  <2>4. CASE AssignToMeWrite(r)
    <3>1. q.to \in User
      BY <2>4 DEF AssignToMeWrite, Writing, TypeInv, Remembers, WellFormed
    <3> DEFINE new == [HandTo(q.to) EXCEPT !.status = "in_progress"]
    <3>2. Commit(r, new) /\ Claims(new, {q.to}) /\ row.assignee = NoUser
      BY <2>4 DEF AssignToMeWrite, Claimable
    <3>3. claims = {}
      BY <3>2 DEF ClaimInv
    <3>4. new.assignee = q.to
      BY <1>0 DEF HandTo, Row
    <3> HIDE DEF new
    <3>5. row' = new /\ claims' = {q.to}
      BY <3>1, <3>2, <3>3, <3>4 DEF Commit, Claims
    <3> QED
      BY <3>1, <3>4, <3>5 DEF ClaimInv, OneClaim
  <2>5. CASE AssignToUserWrite(r)
    BY <2>5, NoClaimStep DEF AssignToUserWrite
  <2>6. CASE AddAssigneeWrite(r)
    BY <2>6, NoClaimStep DEF AddAssigneeWrite
  <2>7. CASE UnassignWrite(r)
    BY <2>7, NoClaimStep DEF UnassignWrite
  <2>8. CASE RemoveAssigneeWrite(r)
    <3>1. CASE q.assignee = q.to
      BY <2>8, <3>1, NoClaimStep DEF RemoveAssigneeWrite
    <3>2. CASE q.assignee # q.to
      BY <1>1, <2>8, <3>2 DEF RemoveAssigneeWrite, Commit
    <3> QED
      BY <3>1, <3>2
  <2>9. CASE ApplyStatusWrite(r)
    BY <2>9, NoClaimStep DEF ApplyStatusWrite
  <2>10. CASE DeleteWrite(r)
    BY <1>0, <1>1, <2>10 DEF DeleteWrite, Commit, Row
  <2>11. CASE ReturnWrite(r)
    BY <2>11, NoClaimStep DEF ReturnWrite
  <2>12. CASE DescribeWrite(r)
    BY <1>1, <2>12, DescribeKeeps
  <2> QED
    BY <1>4, <2>1, <2>2, <2>3, <2>4, <2>5, <2>6, <2>7, <2>8, <2>9, <2>10, <2>11, <2>12 DEF Write
<1>5. CASE UNCHANGED vars
  BY <1>1, <1>5 DEF vars
<1>6. CASE Declassify
  BY <1>1, <1>6, DeclassifyKeeps
<1> QED
  BY <1>2, <1>3, <1>4, <1>5, <1>6 DEF Next

\* assign_to_me has at most one winner per period in which the ticket is held,
\* for any number of callers, users and other endpoints in flight.
THEOREM AtMostOneClaim == Spec => []OneClaim
<1>1. Init => ClaimInv
  BY DEF Init, ClaimInv, OneClaim
<1>2. ClaimInv => OneClaim
  BY DEF ClaimInv
<1>3. Init => TypeInv
  BY InitType
<1> QED
  BY <1>1, <1>2, <1>3, TypeStep, ClaimStep, PTL DEF Spec

-----------------------------------------------------------------------------
(* The lifecycle                                                           *)

\* _apply_status, whatever endpoint called it, is one lifecycle transition:
\* its WHERE clause makes the status it checked the status it replaces.
LEMMA StatusStep ==
  ASSUME TypeInv, StampMeansDone, NEW r \in Request, ApplyStatusWrite(r)
  PROVE  Lifecycle!Next
<1> DEFINE q == req[r]
<1>1. row \in Row /\ q \in Req
  BY DEF TypeInv, TypeOK
<1>d. PICK d \in Told(q) : row' = StatusRow(q, d)
  BY DEF ApplyStatusWrite, Commit
<1>2. row.status = q.status /\ ~row.deleted /\ q.op \in StatusOps
  BY DEF ApplyStatusWrite, StatusAsRead
<1>3. /\ q.target \in DOMAIN ChangeStatusFrom
      /\ q.status \in ChangeStatusFrom[q.target]
      /\ q.pick # NoUser => Wakes(q)
  BY <1>2 DEF TypeInv, Remembers, WellFormed
<1>4. row.doneAt <=> row.status = "done"
  BY DEF StampMeansDone, Lifecycle!StampMeansDone
<1>5. /\ row'.status = q.target
      /\ row'.doneAt = (q.target = "done")
      /\ row'.reopened = IF Wakes(q) THEN row.reopened + 1 ELSE row.reopened
      /\ row'.assignee = IF q.target = "assigned_to_sector" THEN NoUser
                         ELSE IF q.pick \notin {NoUser, q.assignee} THEN q.pick
                         ELSE row.assignee
      /\ row'.deleted = row.deleted
  BY <1>1, <1>d DEF StatusRow, Row
<1> HIDE DEF q
<1>6. CASE q.target = "done"
  <2>1. q.pick = NoUser /\ ~Wakes(q)
    BY <1>3, <1>6 DEF Wakes
  <2>2. Lifecycle!Finish
    BY <1>2, <1>3, <1>5, <1>6, <2>1, Tables DEF Lifecycle!Finish, Lifecycle!Moves,
         Lifecycle!Live, Lifecycle!Transitions
  <2> QED
    BY <2>2 DEF Lifecycle!Next
<1>7. CASE q.target = "cancelled"
  <2>1. q.pick = NoUser /\ ~Wakes(q)
    BY <1>3, <1>7 DEF Wakes
  <2>2. ~row.doneAt
    BY <1>2, <1>3, <1>4, <1>7, Tables
  <2>3. row.status \in {"pending", "assigned_to_sector", "in_progress"}
    BY <1>2, <1>3, <1>7, Tables
  <2>4. Lifecycle!Cancel
    BY <1>1, <1>2, <1>5, <1>7, <2>1, <2>2, <2>3 DEF Row, Lifecycle!Cancel, Lifecycle!Moves,
         Lifecycle!Live, Lifecycle!Transitions, Lifecycle!Workable, Lifecycle!Assignable
  <2> QED
    BY <2>4 DEF Lifecycle!Next
<1>8. CASE q.target = "assigned_to_sector"
  <2>1. q.pick = NoUser /\ ~Wakes(q)
    BY <1>3, <1>8 DEF Wakes
  <2>2. row.status = "in_progress" /\ ~row.doneAt
    BY <1>2, <1>3, <1>4, <1>8, Tables
  <2>3. Lifecycle!Park
    BY <1>1, <1>2, <1>5, <1>8, <2>1, <2>2 DEF Row, Lifecycle!Park, Lifecycle!Moves,
         Lifecycle!Live, Lifecycle!Transitions
  <2> QED
    BY <2>3 DEF Lifecycle!Next
<1>9. CASE q.target = "in_progress" /\ q.status \in {"pending", "assigned_to_sector"}
  <2>1. q.pick = NoUser /\ ~Wakes(q)
    BY <1>3, <1>9 DEF Wakes, Finished
  <2>2. ~row.doneAt
    BY <1>2, <1>4, <1>9
  <2>3. Lifecycle!Start
    BY <1>1, <1>2, <1>5, <1>9, <2>1, <2>2 DEF Row, Lifecycle!Start, Lifecycle!Live,
         Lifecycle!Transitions, Lifecycle!Assignable
  <2> QED
    BY <2>3 DEF Lifecycle!Next
<1>10. CASE q.target = "in_progress" /\ q.status \in {"done", "cancelled"}
  <2>1. Wakes(q)
    BY <1>10 DEF Wakes, Finished
  <2>2. row'.assignee \in {row.assignee} \cup User
    BY <1>1, <1>5, <1>10 DEF Req, Row
  <2>3. Lifecycle!Reopen
    BY <1>2, <1>5, <1>10, <2>1, <2>2 DEF Lifecycle!Reopen, Lifecycle!Moves, Lifecycle!Live,
         Lifecycle!Transitions, Lifecycle!Finished
  <2> QED
    BY <2>3 DEF Lifecycle!Next
<1> QED
  BY <1>3, <1>6, <1>7, <1>8, <1>9, <1>10, Tables

\* What the commit of unassign or remove_assignee leaves alone.
LEMMA StrayWrite ==
  ASSUME TypeInv, NEW r \in Request, UnassignWrite(r) \/ RemoveAssigneeWrite(r)
  PROVE  row' = row \/ StrayCommit(r)
<1>1. row \in Row /\ req \in [Request -> Req] /\ Idle.op = "none"
  BY DEF TypeInv, TypeOK, Idle
<1>2. /\ req[r].op \in {"unassign", "remove_assignee"}
      /\ req' = [req EXCEPT ![r] = Idle]
  BY DEF UnassignWrite, RemoveAssigneeWrite, Writing, Commit
<1>3. row'.doneAt = row.doneAt /\ row'.reopened = row.reopened /\ row'.deleted = row.deleted
  BY <1>1 DEF UnassignWrite, RemoveAssigneeWrite, Commit, Row
<1> QED
  BY <1>1, <1>2, <1>3 DEF StrayCommit, Commits, StaleWriters

\* A step of the endpoints is a step of the lifecycle, changes nothing in it,
\* or is a commit of one of the two unguarded writers.
LEMMA EndpointStep ==
  ASSUME TypeInv, StampMeansDone, [Next]_vars
  PROVE  \/ [Lifecycle!Next]_(Lifecycle!lvars)
         \/ \E r \in Request : StrayCommit(r)
<1> DEFINE Goal == \/ [Lifecycle!Next]_(Lifecycle!lvars)
                   \/ \E r \in Request : StrayCommit(r)
<1>0. row \in Row
  BY DEF TypeInv, TypeOK
<1>1. ASSUME row' = row
      PROVE  UNCHANGED Lifecycle!lvars
  BY <1>1 DEF Lifecycle!lvars
<1>2. ASSUME NEW r \in Request, NEW p \in User, Read(r, p)
      PROVE  UNCHANGED row
  BY <1>2, ReadKeeps
<1>3. ASSUME NEW r \in Request, Promote(r) \/ Rollback(r)
      PROVE  UNCHANGED row
  BY <1>3, QuietKeeps
<1>4. ASSUME NEW r \in Request, Write(r)
      PROVE  Goal
  <2> DEFINE q == req[r]
  <2>0. q \in Req /\ WellFormed(q)
    BY DEF TypeInv, TypeOK, Remembers
  <2>1. CASE AssignSectorWrite(r)
    <3>1. Lifecycle!Route
      BY <1>0, <2>1 DEF AssignSectorWrite, Commit, Row, Transitions,
           Lifecycle!Route, Lifecycle!Moves, Lifecycle!Live, Lifecycle!Transitions,
           Lifecycle!Workable, Lifecycle!Assignable, Workable, Assignable
    <3> QED
      BY <3>1 DEF Lifecycle!Next
  <2>2. CASE AddSectorWrite(r) \/ RemoveSectorWrite(r)
    BY <1>1, <2>2 DEF AddSectorWrite, RemoveSectorWrite, Commit
  <2>3. CASE AssignToMeWrite(r)
    <3>1. q.to \in User
      BY <2>0, <2>3 DEF AssignToMeWrite, Writing, WellFormed
    <3>2. row' = [HandTo(q.to) EXCEPT !.status = "in_progress"] /\ Claimable(q)
      BY <2>3 DEF AssignToMeWrite, Commit
    <3>3. Lifecycle!Take(q.to)
      BY <1>0, <3>2 DEF HandTo, Claimable, Row, Transitions,
           Lifecycle!Take, Lifecycle!Moves, Lifecycle!Live, Lifecycle!Transitions,
           Lifecycle!Assignable, Assignable
    <3> QED
      BY <3>1, <3>3 DEF Lifecycle!Next
  <2>4. CASE AssignToUserWrite(r)
    <3>1. q.to \in User
      BY <2>0, <2>4 DEF AssignToUserWrite, Writing, WellFormed
    <3>2. /\ row' = [HandTo(q.to) EXCEPT !.status = "in_progress"]
          /\ ~row.deleted /\ row.status \in Transitions.assign_to_user.from
      BY <2>4 DEF AssignToUserWrite, Commit
    <3>3. Lifecycle!Give(q.to)
      BY <1>0, <3>2 DEF HandTo, Row, Transitions,
           Lifecycle!Give, Lifecycle!Moves, Lifecycle!Live, Lifecycle!Transitions,
           Lifecycle!Workable, Lifecycle!Assignable, Workable, Assignable
    <3> QED
      BY <3>1, <3>3 DEF Lifecycle!Next
  <2>5. CASE AddAssigneeWrite(r)
    <3>1. row' = IF q.pick = NoUser THEN row ELSE HandTo(q.pick)
      BY <2>5 DEF AddAssigneeWrite, Commit
    <3>2. CASE q.pick = NoUser
      BY <1>1, <3>1, <3>2
    <3>3. CASE q.pick # NoUser
      <4>1. q.pick \in User
        BY <2>0, <3>3 DEF Req
      <4>2. Lifecycle!Join(q.pick)
        BY <1>0, <3>1, <3>3 DEF HandTo, Row, Lifecycle!Join
      <4> QED
        BY <4>1, <4>2 DEF Lifecycle!Next
    <3> QED
      BY <3>2, <3>3
  <2>6. CASE UnassignWrite(r) \/ RemoveAssigneeWrite(r)
    BY <1>1, <2>6, StrayWrite
  <2>7. CASE ApplyStatusWrite(r)
    BY <2>7, StatusStep
  <2>8. CASE DeleteWrite(r)
    <3>1. Lifecycle!Delete
      BY <1>0, <2>8 DEF DeleteWrite, Commit, Row, Lifecycle!Delete
    <3> QED
      BY <3>1 DEF Lifecycle!Next
  <2>9. CASE ReturnWrite(r)
    <3>1. CASE row' = row
      BY <1>1, <3>1
    <3>2. CASE row' # row
      <4>1. q.pick \in User
        BY <2>0, <2>9 DEF ReturnWrite, Writing, WellFormed
      <4>2. Lifecycle!Join(q.pick)
        BY <2>9, <3>2, ReturnKeeps DEF Lifecycle!Join
      <4> QED
        BY <4>1, <4>2 DEF Lifecycle!Next
    <3> QED
      BY <3>1, <3>2
  <2>10. CASE DescribeWrite(r)
    BY <2>10, DescribeKeeps DEF Lifecycle!lvars
  <2> QED
    BY <1>4, <2>1, <2>2, <2>3, <2>4, <2>5, <2>6, <2>7, <2>8, <2>9, <2>10 DEF Write
<1>5. CASE UNCHANGED vars
  BY <1>1, <1>5 DEF vars
<1>6. CASE Declassify
  BY <1>6, DeclassifyKeeps DEF Lifecycle!lvars
<1> QED
  BY <1>1, <1>2, <1>3, <1>4, <1>5, <1>6 DEF Next

\* Without those two, a step of the endpoints is a step of the lifecycle or
\* changes nothing in it.
LEMMA LifecycleStep ==
  ASSUME Ops \cap StaleWriters = {}, TypeInv, StampMeansDone, [Next]_vars
  PROVE  [Lifecycle!Next]_(Lifecycle!lvars)
<1>1. ASSUME NEW r \in Request, StrayCommit(r)
      PROVE  FALSE
  <2>1. req[r] \in Req /\ req[r].op \in StaleWriters
    BY <1>1 DEF StrayCommit, TypeInv, TypeOK
  <2> QED
    BY <2>1 DEF Req, StaleWriters
<1> QED
  BY <1>1, EndpointStep

\* The stamp is an invariant of the lifecycle, hence of what implements it.
LEMMA StampStep ==
  StampMeansDone /\ [Lifecycle!Next]_(Lifecycle!lvars) => StampMeansDone'
BY DEF StampMeansDone, Lifecycle!StampMeansDone, Lifecycle!lvars, Lifecycle!Next,
       Lifecycle!Route, Lifecycle!Take, Lifecycle!Give, Lifecycle!Join, Lifecycle!Park,
       Lifecycle!Start, Lifecycle!Finish, Lifecycle!Cancel, Lifecycle!Reopen,
       Lifecycle!Delete, Lifecycle!Moves, Lifecycle!Live, Lifecycle!Transitions,
       Lifecycle!Workable, Lifecycle!Assignable, Lifecycle!Finished

\* A created ticket is in the lifecycle's initial state.
LEMMA StampInit == Init => StampMeansDone /\ Lifecycle!Init
BY DEF Init, StampMeansDone, Lifecycle!StampMeansDone, Lifecycle!Init

\* Without the two endpoints that write a stale status back, done_at is set
\* exactly on the done tickets.
THEOREM StampTheorem ==
  ASSUME Ops \cap StaleWriters = {}
  PROVE  Spec => []StampMeansDone
<1>1. TypeInv /\ StampMeansDone /\ [Next]_vars => StampMeansDone'
  BY LifecycleStep, StampStep
<1> QED
  BY <1>1, StampInit, InitType, TypeStep, PTL DEF Spec

\* Without those two endpoints every interleaving of requests, each with its
\* stale snapshot, is a behaviour of the one-step-at-a-time lifecycle.
THEOREM LifecycleTheorem ==
  ASSUME Ops \cap StaleWriters = {}
  PROVE  Spec => ImplementsLifecycle
<1>1. TypeInv /\ StampMeansDone /\ [Next]_vars => [Lifecycle!Next]_(Lifecycle!lvars)
  BY LifecycleStep
<1>2. Spec => []StampMeansDone
  BY StampTheorem
<1> QED
  BY <1>1, <1>2, StampInit, InitType, TypeStep, PTL DEF Spec, ImplementsLifecycle, Lifecycle!Spec

\* With every endpoint, only those two ever take the ticket out of the
\* lifecycle, and even they touch neither stamp, count nor deletion.
THEOREM StrayTheorem == Spec => StrayOnlyByStaleWriters
<1>1. TypeInv /\ [Next]_vars
        => [StampMeansDone => \/ Lifecycle!Next \/ UNCHANGED Lifecycle!lvars
                              \/ \E r \in Request : StrayCommit(r)]_vars
  BY EndpointStep
<1> QED
  BY <1>1, InitType, TypeStep, PTL DEF Spec, StrayOnlyByStaleWriters

-----------------------------------------------------------------------------
(* What a commit may do                                                    *)

\* Only the request whose write is being executed commits.
LEMMA OneCommit ==
  ASSUME TypeInv, [Next]_vars, NEW r \in Request, Commits(r)
  PROVE  Write(r)
<1>1. req \in [Request -> Req] /\ req[r] # Idle /\ req'[r] = Idle /\ row' # row
  BY DEF TypeInv, TypeOK, Commits
<1>2. ASSUME NEW x \in Request, Write(x)
      PROVE  req' = [req EXCEPT ![x] = Idle]
  BY <1>2 DEF Write, AssignSectorWrite, AddSectorWrite, RemoveSectorWrite, AssignToMeWrite,
              AssignToUserWrite, AddAssigneeWrite, UnassignWrite, RemoveAssigneeWrite,
              ApplyStatusWrite, ReturnWrite, DeleteWrite, DescribeWrite, Commit
<1>3. PICK x \in Request : Write(x)
  BY <1>1, OnlyWritesWrite DEF Declassify
<1>4. x = r
  BY <1>1, <1>2, <1>3
<1> QED
  BY <1>3, <1>4

\* What an UPDATE does to the status, endpoint by endpoint.
LEMMA WriteMoves ==
  ASSUME TypeInv, NEW r \in Request, Write(r),
         row'.status # row.status, req[r].op \notin StaleWriters
  PROVE  MayMove(req[r].op, row.status, row'.status)
<1> DEFINE q == req[r]
<1>0. row \in Row /\ q \in Req /\ WellFormed(q)
  BY DEF TypeInv, TypeOK, Remembers
<1>1. CASE AssignSectorWrite(r)
  BY <1>0, <1>1, MoveTable DEF AssignSectorWrite, Writing, Commit, Row
<1>2. CASE AddSectorWrite(r) \/ RemoveSectorWrite(r)
  BY <1>2 DEF AddSectorWrite, RemoveSectorWrite, Commit
<1>3. CASE AssignToMeWrite(r)
  BY <1>0, <1>3, MoveTable DEF AssignToMeWrite, Writing, Claimable, Commit, HandTo, Row
<1>4. CASE AssignToUserWrite(r)
  BY <1>0, <1>4, MoveTable DEF AssignToUserWrite, Writing, Commit, HandTo, Row
<1>5. CASE AddAssigneeWrite(r)
  BY <1>0, <1>5 DEF AddAssigneeWrite, Commit, HandTo, Row
<1>6. CASE UnassignWrite(r) \/ RemoveAssigneeWrite(r)
  BY <1>6 DEF UnassignWrite, RemoveAssigneeWrite, Writing, StaleWriters
<1>7. CASE ApplyStatusWrite(r)
  <2>1. MayMove(q.op, q.status, q.target)
    BY <1>0, <1>7 DEF WellFormed, ApplyStatusWrite
  <2>2. row'.status = q.target /\ row.status = q.status
    BY <1>0, <1>7 DEF ApplyStatusWrite, StatusAsRead, Commit, StatusRow, Row
  <2> QED
    BY <2>1, <2>2
<1>8. CASE DeleteWrite(r)
  BY <1>0, <1>8 DEF DeleteWrite, Commit, Row
<1>9. CASE ReturnWrite(r) \/ DescribeWrite(r)
  BY <1>9, ReturnKeeps, DescribeKeeps
<1> QED
  BY <1>1, <1>2, <1>3, <1>4, <1>5, <1>6, <1>7, <1>8, <1>9 DEF Write

\* Every status change of an endpoint that guards what it writes is a row of
\* that endpoint's table.
THEOREM LegalMovesTheorem == Spec => LegalMoves
<1>1. ASSUME TypeInv, [Next]_vars, NEW r \in Request, Commits(r),
             row'.status # row.status, req[r].op \notin StaleWriters
      PROVE  MayMove(req[r].op, row.status, row'.status)
  BY <1>1, OneCommit, WriteMoves
<1>2. TypeInv /\ [Next]_vars
        => [\A r \in Request :
              Commits(r) /\ row'.status # row.status /\ req[r].op \notin StaleWriters
                => MayMove(req[r].op, row.status, row'.status)]_vars
  BY <1>1
<1> QED
  BY <1>2, InitType, TypeStep, PTL DEF Spec, LegalMoves

\* With every endpoint in flight: a finished ticket that is in progress again
\* was counted as reopened and lost its completion stamp, unless the commit is
\* one of the two handlers that do not guard the status they write.
ReopenCountedOrStray ==
  [][row.status \in Finished /\ row'.status = "in_progress"
       => \/ row'.reopened = row.reopened + 1 /\ ~row'.doneAt
          \/ \E r \in Request : StrayCommit(r)]_vars

\* One step of it.
LEMMA ReopenStep ==
  ASSUME TypeInv, [Next]_vars, row.status \in Finished, row'.status = "in_progress"
  PROVE  \/ row'.reopened = row.reopened + 1 /\ ~row'.doneAt
         \/ \E r \in Request : StrayCommit(r)
<1>0. row' # row /\ row'.status # row.status
  BY DEF Finished
<1>1. PICK r \in Request : Write(r)
  BY <1>0, OnlyWritesWrite, DeclassifyKeeps
<1> DEFINE q == req[r]
<1>2. row \in Row /\ q \in Req /\ WellFormed(q)
  BY DEF TypeInv, TypeOK, Remembers
<1>3. CASE q.op \in StaleWriters
  <2>1. UnassignWrite(r) \/ RemoveAssigneeWrite(r)
    BY <1>1, <1>3 DEF Write, Writing, StaleWriters, StatusOps, AssignSectorWrite,
       AddSectorWrite, RemoveSectorWrite, AssignToMeWrite, AssignToUserWrite,
       AddAssigneeWrite, ApplyStatusWrite, ReturnWrite, DeleteWrite, DescribeWrite
  <2> QED
    BY <1>0, <2>1, StrayWrite
<1>4. CASE q.op \notin StaleWriters
  <2>1. MayMove(q.op, row.status, "in_progress")
    BY <1>0, <1>1, <1>4, WriteMoves
  <2>2. q.op \in StatusOps
    <3>1. CASE q.op = "change_status"
      BY <3>1 DEF StatusOps
    <3>2. CASE /\ q.op \in DOMAIN Transitions
               /\ row.status \in Transitions[q.op].from
               /\ "in_progress" = Transitions[q.op].to
      BY <3>2 DEF Transitions, Workable, Assignable, Finished, StatusOps
    <3> QED
      BY <2>1, <3>1, <3>2 DEF MayMove
  <2>3. ApplyStatusWrite(r)
    BY <1>1, <2>2 DEF Write, Writing, StatusOps, AssignSectorWrite,
       AddSectorWrite, RemoveSectorWrite, AssignToMeWrite, AssignToUserWrite,
       AddAssigneeWrite, UnassignWrite, RemoveAssigneeWrite, ReturnWrite, DeleteWrite, DescribeWrite
  <2>4. row.status = q.status /\ \E d : row' = StatusRow(q, d)
    BY <2>3 DEF ApplyStatusWrite, StatusAsRead, Commit
  <2> HIDE DEF q
  <2>5. /\ row'.status = q.target
        /\ row'.doneAt = (q.target = "done")
        /\ row'.reopened = IF Wakes(q) THEN row.reopened + 1 ELSE row.reopened
    BY <1>2, <2>4 DEF StatusRow, Row
  <2>6. Wakes(q)
    BY <2>4, <2>5 DEF Wakes
  <2> QED
    BY <2>5, <2>6
<1> QED
  BY <1>3, <1>4

THEOREM ReopenTheorem == Spec => ReopenCountedOrStray
<1>1. TypeInv /\ [Next]_vars
        => [row.status \in Finished /\ row'.status = "in_progress"
              => \/ row'.reopened = row.reopened + 1 /\ ~row'.doneAt
                 \/ \E r \in Request : StrayCommit(r)]_vars
  BY ReopenStep
<1> QED
  BY <1>1, InitType, TypeStep, PTL DEF Spec, ReopenCountedOrStray

\* Without those two, what the comment in workflow_service.py says is true.
THEOREM ReopenCountedTheorem ==
  ASSUME Ops \cap StaleWriters = {}
  PROVE  Spec => ReopenIsCounted
<1>1. ASSUME TypeInv, NEW r \in Request, StrayCommit(r)
      PROVE  FALSE
  <2>1. req[r] \in Req /\ req[r].op \in StaleWriters
    BY <1>1 DEF StrayCommit, TypeInv, TypeOK
  <2> QED
    BY <2>1 DEF Req, StaleWriters
<1>2. TypeInv /\ [Next]_vars
        => [row.status \in Finished /\ row'.status = "in_progress"
              => row'.reopened = row.reopened + 1 /\ ~row'.doneAt]_vars
  BY <1>1, ReopenStep
<1> QED
  BY <1>2, InitType, TypeStep, PTL DEF Spec, ReopenIsCounted

\* _apply_status logs the status it really replaced.
THEOREM TrueHistoryTheorem == Spec => TrueHistory
<1>1. ASSUME TypeInv, [Next]_vars, NEW r \in Request, Commits(r), req[r].op \in StatusOps
      PROVE  Logged(req[r]) = <<row.status, row'.status>>
  <2>1. ApplyStatusWrite(r)
    BY <1>1, OneCommit DEF Write, Writing, StatusOps, AssignSectorWrite, AddSectorWrite,
       RemoveSectorWrite, AssignToMeWrite, AssignToUserWrite, AddAssigneeWrite,
       UnassignWrite, RemoveAssigneeWrite, ReturnWrite, DeleteWrite, DescribeWrite
  <2>2. row'.status = req[r].target /\ row.status = req[r].status
    BY <1>1, <2>1 DEF ApplyStatusWrite, StatusAsRead, Commit, StatusRow, TypeInv, TypeOK, Row
  <2> QED
    BY <1>1, <2>2 DEF Logged, StatusOps
<1>2. TypeInv /\ [Next]_vars
        => [\A r \in Request : Commits(r) /\ req[r].op \in StatusOps
              => Logged(req[r]) = <<row.status, row'.status>>]_vars
  BY <1>1
<1> QED
  BY <1>2, InitType, TypeStep, PTL DEF Spec, TrueHistory

\* One step of DeletedIsFrozen: the writers of a deleted row are the two
\* co-assignee endpoints and those that change its details.
LEMMA DeletedStep ==
  ASSUME TypeInv, [Next]_vars, row.deleted
  PROVE  /\ row'.deleted /\ row'.sector = row.sector
         /\ row'.doneAt = row.doneAt /\ row'.reopened = row.reopened
         /\ \/ SameButDetails
            \/ \E r \in Request : Commits(r) /\ req[r].op \in {"add_assignee", "remove_assignee"}
<1>0. row \in Row /\ req \in [Request -> Req] /\ Idle.op = "none"
  BY DEF TypeInv, TypeOK, Idle
<1>1. CASE row' = row
  BY <1>0, <1>1 DEF SameButDetails, Row
<1>2. CASE Declassify
  BY <1>2, DeclassifyKeeps
<1>3. ASSUME NEW r \in Request, Write(r), row' # row
      PROVE  /\ row'.deleted /\ row'.sector = row.sector
             /\ row'.doneAt = row.doneAt /\ row'.reopened = row.reopened
             /\ SameButDetails \/ (Commits(r) /\ req[r].op \in {"add_assignee", "remove_assignee"})
  <2>1. ~AssignSectorWrite(r) /\ ~AssignToMeWrite(r) /\ ~AssignToUserWrite(r)
        /\ ~UnassignWrite(r) /\ ~ApplyStatusWrite(r)
    BY DEF AssignSectorWrite, AssignToMeWrite, Claimable, AssignToUserWrite,
         UnassignWrite, ApplyStatusWrite, StatusAsRead
  <2>2. ~AddSectorWrite(r) /\ ~RemoveSectorWrite(r)
    BY <1>3 DEF AddSectorWrite, RemoveSectorWrite, Commit
  <2>3. ~ReturnWrite(r)
    BY <1>3, ReturnKeeps
  <2>4. ~DeleteWrite(r)
    <3>1. [row EXCEPT !.deleted = TRUE] = row
      BY <1>0 DEF Row
    <3> QED
      BY <1>3, <3>1 DEF DeleteWrite, Commit
  <2>5. CASE DescribeWrite(r)
    BY <2>5, DescribeKeeps
  <2>6. CASE AddAssigneeWrite(r) \/ RemoveAssigneeWrite(r)
    <3>1. req[r].op \in {"add_assignee", "remove_assignee"} /\ req'[r] = Idle
      BY <1>0, <2>6 DEF AddAssigneeWrite, RemoveAssigneeWrite, Writing, Commit
    <3>2. /\ row'.deleted /\ row'.sector = row.sector
          /\ row'.doneAt = row.doneAt /\ row'.reopened = row.reopened
      BY <1>0, <2>6 DEF AddAssigneeWrite, RemoveAssigneeWrite, Commit, HandTo, Row
    <3> QED
      BY <1>0, <1>3, <3>1, <3>2 DEF Commits
  <2> QED
    BY <1>3, <2>1, <2>2, <2>3, <2>4, <2>5, <2>6 DEF Write
<1> QED
  BY <1>1, <1>2, <1>3, OnlyWritesWrite

\* After the soft delete nothing in flight moves the ticket but the co-assignee
\* endpoints, and none of them brings it back.
THEOREM DeletedTheorem == Spec => DeletedIsFrozen
<1>1. TypeInv /\ [Next]_vars
        => [row.deleted =>
              /\ row'.deleted /\ row'.sector = row.sector
              /\ row'.doneAt = row.doneAt /\ row'.reopened = row.reopened
              /\ \/ SameButDetails
                 \/ \E r \in Request : Commits(r) /\ req[r].op \in {"add_assignee", "remove_assignee"}]_vars
  BY DeletedStep
<1> QED
  BY <1>1, InitType, TypeStep, PTL DEF Spec, DeletedIsFrozen

-----------------------------------------------------------------------------
(* The holder of the ticket: last active assignee, and one of its assignees *)

\* Only the holder may reopen, so the last active assignee a reopen has read is
\* the assignee it has read and its second UPDATE has nothing to do.
ReopensToHolder ==
  \A r \in Request : req[r].op \in StatusOps => req[r].pick \in {NoUser, req[r].assignee}

\* The same, for a ticket in progress: a reopen has nobody to return it to.
NothingToReturn == \A r \in Request : req[r].op # "return"

\* Without a holder no row is flagged; so an add_assignee that found no holder
\* has to flag the row it found, and fails if it has gone.
NobodyFlagged == row.assignee = NoUser => primaries = {}
FlagsWhatItPicks ==
  \A r \in Request :
    req[r].op = "add_assignee" /\ req[r].pick # NoUser
      => req[r].pick = req[r].to /\ (req[r].to \in req[r].rows => req[r].mark)

HoldInv == HolderIsLastActive /\ AssigneeJoined /\ ReopensToHolder /\ NothingToReturn
             /\ NobodyFlagged /\ FlagsWhatItPicks

\* Nobody holds a new ticket.
LEMMA HoldInit == Init => HoldInv
BY DEF Init, HoldInv, HolderIsLastActive, AssigneeJoined, ReopensToHolder, NothingToReturn,
       NobodyFlagged, FlagsWhatItPicks, Idle, StatusOps

\* A handler that has read remembers what the invariant says of it.
LEMMA HoldRead ==
  ASSUME TypeInv, HoldInv, NEW r \in Request, NEW p \in User, Read(r, p)
  PROVE  HoldInv'
<1>0. req \in [Request -> Req] /\ UNCHANGED <<row, assignees, primaries>>
  BY ReadKeeps DEF TypeInv, TypeOK
<1>1. ASSUME NEW q, Keep(r, q),
             q.op # "return",
             q.op \in StatusOps => q.pick \in {NoUser, q.assignee},
             q.op = "add_assignee" /\ q.pick # NoUser
               => q.pick = q.to /\ (q.to \in q.rows => q.mark)
      PROVE  HoldInv'
  <2>1. req' = [req EXCEPT ![r] = q]
    BY <1>1 DEF Keep
  <2> QED
    BY <1>0, <1>1, <2>1 DEF HoldInv, HolderIsLastActive, AssigneeJoined, ReopensToHolder,
       NothingToReturn, NobodyFlagged, FlagsWhatItPicks
<1>2. ASSUME NEW q, Keep(r, q), q.op \notin StatusOps \cup {"add_assignee", "return"}
      PROVE  HoldInv'
  BY <1>1, <1>2
<1>3. ASSUME NEW op \in StatusOps, NEW target, NEW from, ApplyStatusRead(r, p, op, target, from)
      PROVE  HoldInv'
  <2>1. row.lastActive = row.assignee
    BY <1>3 DEF ApplyStatusRead, AssignedTo, HoldInv, HolderIsLastActive, TypeInv, TypeOK
  <2> DEFINE q == [Idle EXCEPT !.op = op, !.target = target,
                          !.status = row.status, !.assignee = row.assignee,
                          !.pick = IF op = "reopen" THEN row.lastActive ELSE NoUser]
  <2>2. q.op = op /\ q.pick \in {NoUser, q.assignee}
    BY <2>1 DEF Idle
  <2>3. Keep(r, q)
    BY <1>3 DEF ApplyStatusRead
  <2>4. op # "add_assignee" /\ op # "return"
    BY DEF StatusOps
  <2> HIDE DEF q
  <2> QED
    BY <1>1, <2>2, <2>3, <2>4
<1>4. CASE ChangeStatusRead(r, p) \/ MarkDoneRead(r, p) \/ ReopenRead(r, p) \/ CancelRead(r, p)
  BY <1>3, <1>4 DEF ChangeStatusRead, MarkDoneRead, ReopenRead, CancelRead, StatusOps
<1>5. ASSUME NEW u \in User, AddAssigneeRead(r, p, u)
      PROVE  HoldInv'
  <2> DEFINE q == [Idle EXCEPT !.op = "add_assignee", !.to = u,
                               !.pick = IF row.assignee = NoUser THEN u ELSE NoUser,
                               !.mark = row.assignee = NoUser /\ u \in assignees \ primaries,
                               !.rows = assignees]
  <2>1. q.op = "add_assignee" /\ (q.pick # NoUser => q.pick = q.to /\ row.assignee = NoUser)
    BY DEF Idle
  <2>2. q.to = u /\ q.rows = assignees
        /\ q.mark = (row.assignee = NoUser /\ u \in assignees \ primaries)
    BY DEF Idle
  <2>3. Keep(r, q)
    BY <1>5 DEF AddAssigneeRead
  <2>4. row.assignee = NoUser => primaries = {}
    BY DEF HoldInv, NobodyFlagged
  <2> HIDE DEF q
  <2>5. q.pick # NoUser => (q.to \in q.rows => q.mark)
    BY <2>1, <2>2, <2>4
  <2> QED
    BY <1>1, <2>1, <2>3, <2>5 DEF StatusOps
<1>6. ASSUME NEW s \in Sector, AssignSectorRead(r, p, s)
      PROVE  HoldInv'
  <2> DEFINE q == [Idle EXCEPT !.op = "assign_sector", !.sec = s]
  <2>1. q.op = "assign_sector"
    BY DEF Idle
  <2>2. Keep(r, q)
    BY <1>6 DEF AssignSectorRead
  <2> HIDE DEF q
  <2> QED
    BY <1>2, <2>1, <2>2 DEF StatusOps
<1>7. ASSUME NEW s \in Sector, AddSectorRead(r, p, s)
      PROVE  HoldInv'
  <2> DEFINE q == [Idle EXCEPT !.op = "add_sector", !.sec = s]
  <2>1. q.op = "add_sector"
    BY DEF Idle
  <2>2. Keep(r, q)
    BY <1>7 DEF AddSectorRead
  <2> HIDE DEF q
  <2> QED
    BY <1>2, <2>1, <2>2 DEF StatusOps
<1>8. ASSUME NEW s \in Sector, RemoveSectorRead(r, p, s)
      PROVE  HoldInv'
  <2> DEFINE q == [Idle EXCEPT !.op = "remove_sector", !.sec = s]
  <2>1. q.op = "remove_sector"
    BY DEF Idle
  <2>2. Keep(r, q)
    BY <1>8 DEF RemoveSectorRead
  <2> HIDE DEF q
  <2> QED
    BY <1>2, <2>1, <2>2 DEF StatusOps
<1>9. ASSUME NEW u \in User, AssignToUserRead(r, p, u)
      PROVE  HoldInv'
  <2> DEFINE q == [Idle EXCEPT !.op = "assign_to_user", !.to = u]
  <2>1. q.op = "assign_to_user"
    BY DEF Idle
  <2>2. Keep(r, q)
    BY <1>9 DEF AssignToUserRead
  <2> HIDE DEF q
  <2> QED
    BY <1>2, <2>1, <2>2 DEF StatusOps
<1>10. ASSUME NEW u \in User, RemoveAssigneeRead(r, p, u)
       PROVE  HoldInv'
  <2> DEFINE q == [Idle EXCEPT !.op = "remove_assignee", !.to = u, !.stage = "promote",
                               !.assignee = u, !.status = row.status]
             n == [Idle EXCEPT !.op = "remove_assignee", !.to = u]
  <2>1. q.op = "remove_assignee" /\ n.op = "remove_assignee"
    BY DEF Idle
  <2>2. Keep(r, q) \/ Keep(r, n)
    BY <1>10 DEF RemoveAssigneeRead
  <2> HIDE DEF q, n
  <2> QED
    BY <1>2, <2>1, <2>2 DEF StatusOps
<1>11. CASE AssignToMeRead(r, p)
  <2> DEFINE q == [Idle EXCEPT !.op = "assign_to_me", !.to = p, !.sector = row.sector,
                          !.status = IF row.assignee = NoUser
                                     THEN TargetStatus("assign_to_me", row.status, row.status)
                                     ELSE row.status]
  <2>1. q.op = "assign_to_me"
    BY DEF Idle
  <2>2. Keep(r, q)
    BY <1>11 DEF AssignToMeRead
  <2> HIDE DEF q
  <2> QED
    BY <1>2, <2>1, <2>2 DEF StatusOps
<1>12. CASE UnassignRead(r, p)
  <2> DEFINE q == [Idle EXCEPT !.op = "unassign", !.stage = "promote",
                          !.to = row.assignee, !.assignee = row.assignee,
                          !.status = row.status]
  <2>1. q.op = "unassign"
    BY DEF Idle
  <2>2. Keep(r, q)
    BY <1>12 DEF UnassignRead
  <2> HIDE DEF q
  <2> QED
    BY <1>2, <2>1, <2>2 DEF StatusOps
<1>13. CASE DeleteRead(r, p)
  <2> DEFINE q == [Idle EXCEPT !.op = "delete"]
  <2>1. q.op = "delete"
    BY DEF Idle
  <2>2. Keep(r, q)
    BY <1>13 DEF DeleteRead
  <2> HIDE DEF q
  <2> QED
    BY <1>2, <2>1, <2>2 DEF StatusOps
<1>14. CASE DescribeRead(r, p)
  <2> DEFINE q == [Idle EXCEPT !.op = "describe"]
  <2>1. q.op = "describe"
    BY DEF Idle
  <2>2. Keep(r, q)
    BY <1>14 DEF DescribeRead
  <2> HIDE DEF q
  <2> QED
    BY <1>2, <2>1, <2>2 DEF StatusOps
<1>15. ~ReturnRead(r, p)
  <2>1. row \in Row
    BY DEF TypeInv, TypeOK
  <2> QED
    BY <2>1 DEF ReturnRead, AssignedTo, HoldInv, HolderIsLastActive, Row
<1> QED
  BY <1>4, <1>5, <1>6, <1>7, <1>8, <1>9, <1>10, <1>11, <1>12, <1>13, <1>14, <1>15 DEF Read

\* A commit frees the slot; what it does to the tables is all there is to show.
LEMMA HoldDrop ==
  ASSUME TypeInv, HoldInv, NEW r \in Request, req' = [req EXCEPT ![r] = Idle],
         HolderIsLastActive', AssigneeJoined', NobodyFlagged'
  PROVE  HoldInv'
<1>1. req \in [Request -> Req] /\ Idle.op = "none"
  BY DEF TypeInv, TypeOK, Idle
<1> QED
  BY <1>1 DEF HoldInv, ReopensToHolder, NothingToReturn, FlagsWhatItPicks, StatusOps

\* Every write keeps the holder joined and last active.
LEMMA HoldWrite ==
  ASSUME Ops \cap StaleWriters = {}, TypeInv, HoldInv, NEW r \in Request, Write(r)
  PROVE  HoldInv'
<1> DEFINE q == req[r]
<1>0. /\ row \in Row /\ q \in Req /\ WellFormed(q)
      /\ assignees \subseteq User /\ primaries \subseteq assignees
  BY DEF TypeInv, TypeOK, Remembers
<1>1. ASSUME Commit(r, row), UNCHANGED <<assignees, primaries>>
      PROVE  HoldInv'
  BY <1>1, HoldDrop DEF Commit, HoldInv, HolderIsLastActive, AssigneeJoined, NobodyFlagged
<1>k. ASSUME row'.assignee = row.assignee, row'.lastActive = row.lastActive,
             UNCHANGED <<assignees, primaries>>, req' = [req EXCEPT ![r] = Idle]
      PROVE  HoldInv'
  <2>1. HolderIsLastActive' /\ AssigneeJoined' /\ NobodyFlagged'
    BY <1>k DEF HoldInv, HolderIsLastActive, AssigneeJoined, NobodyFlagged
  <2> QED
    BY <1>k, <2>1, HoldDrop
<1>2. ASSUME NEW u \in User, NEW new, Commit(r, new),
             new = HandTo(u) \/ new = [HandTo(u) EXCEPT !.status = "in_progress"],
             u \in assignees'
      PROVE  HoldInv'
  <2>1. row'.assignee = u /\ row'.lastActive = u
    BY <1>0, <1>2 DEF Commit, HandTo, Row
  <2>2. HolderIsLastActive' /\ AssigneeJoined' /\ NobodyFlagged'
    BY <1>2, <2>1 DEF HolderIsLastActive, AssigneeJoined, NobodyFlagged
  <2> QED
    BY <1>2, <2>2, HoldDrop DEF Commit
<1>3. CASE AssignSectorWrite(r)
  <2>1. row'.assignee = row.assignee /\ row'.lastActive = row.lastActive
    BY <1>0, <1>3 DEF AssignSectorWrite, Commit, Row
  <2> QED
    BY <1>3, <1>k, <2>1 DEF AssignSectorWrite, Commit
<1>4. CASE AddSectorWrite(r) \/ RemoveSectorWrite(r)
  BY <1>1, <1>4 DEF AddSectorWrite, RemoveSectorWrite
<1>5. CASE AssignToMeWrite(r) \/ AssignToUserWrite(r)
  <2>1. q.to \in User
    BY <1>0, <1>5 DEF AssignToMeWrite, AssignToUserWrite, Writing, WellFormed
  <2>2. /\ Commit(r, [HandTo(q.to) EXCEPT !.status = "in_progress"])
        /\ JoinSeeing(assignees, q.to, TRUE)
    BY <1>5 DEF AssignToMeWrite, AssignToUserWrite, JoinAs
  <2>3. q.to \in assignees'
    BY <2>2 DEF JoinSeeing
  <2> QED
    BY <1>2, <2>1, <2>2, <2>3
<1>6. CASE AddAssigneeWrite(r)
  <2>1. q.op = "add_assignee" /\ q.to \in User
    BY <1>0, <1>6 DEF AddAssigneeWrite, Writing, WellFormed
  <2>2. q.pick # NoUser => q.pick = q.to /\ (q.to \in q.rows => q.mark)
    BY <2>1 DEF HoldInv, FlagsWhatItPicks
  <2>3. \/ PickHolds(q) /\ JoinSeeing(q.rows, q.to, q.pick # NoUser)
        \/ JoinSeeing(assignees, q.to, q.pick # NoUser)
    BY <1>6 DEF AddAssigneeWrite
  <2>4. assignees \subseteq assignees'
    BY <2>3 DEF JoinSeeing
  <2>5. CASE q.pick = NoUser
    <3>1. Commit(r, row) /\ primaries' = primaries
      BY <1>6, <2>3, <2>5 DEF AddAssigneeWrite, JoinSeeing
    <3> QED
      BY <2>4, <3>1, HoldDrop DEF Commit, HoldInv, HolderIsLastActive, AssigneeJoined, NobodyFlagged
  <2>6. CASE q.pick # NoUser
    <3>1. q.to \in assignees'
      BY <2>2, <2>3, <2>6 DEF JoinSeeing, PickHolds
    <3>2. Commit(r, HandTo(q.to))
      BY <1>6, <2>2, <2>6 DEF AddAssigneeWrite
    <3> QED
      BY <1>2, <2>1, <3>1, <3>2
  <2> QED
    BY <2>5, <2>6
<1>7. CASE UnassignWrite(r) \/ RemoveAssigneeWrite(r)
  <2>1. q.op \in StaleWriters /\ q.op \notin {"none", "return"}
    BY <1>7 DEF UnassignWrite, RemoveAssigneeWrite, Writing, StaleWriters
  <2> QED
    BY <1>0, <2>1 DEF Req
<1>8. CASE ApplyStatusWrite(r)
  <2>1. q.op \in StatusOps /\ q.pick \in {NoUser, q.assignee}
    BY <1>8 DEF ApplyStatusWrite, HoldInv, ReopensToHolder
  <2>2. PICK d \in Told(q) : Commit(r, StatusRow(q, d))
    BY <1>8 DEF ApplyStatusWrite
  <2>3. /\ row'.lastActive = row.lastActive
        /\ row'.assignee = IF q.target = "assigned_to_sector" THEN NoUser ELSE row.assignee
    BY <1>0, <2>1, <2>2 DEF Commit, StatusRow, Row
  <2>4. IF q.target = "assigned_to_sector"
        THEN assignees' = {} /\ primaries' = {}
        ELSE UNCHANGED <<assignees, primaries>>
    BY <1>8 DEF ApplyStatusWrite
  <2>5. HolderIsLastActive' /\ AssigneeJoined' /\ NobodyFlagged'
    BY <2>3, <2>4 DEF HoldInv, HolderIsLastActive, AssigneeJoined, NobodyFlagged
  <2> QED
    BY <2>2, <2>5, HoldDrop DEF Commit
<1>9. CASE DeleteWrite(r)
  <2>1. row'.assignee = row.assignee /\ row'.lastActive = row.lastActive
    BY <1>0, <1>9 DEF DeleteWrite, Commit, Row
  <2> QED
    BY <1>9, <1>k, <2>1 DEF DeleteWrite, Commit
<1>10. CASE DescribeWrite(r)
  BY <1>10, <1>k, DescribeKeeps
<1>11. ~ReturnWrite(r)
  BY DEF ReturnWrite, Writing, HoldInv, NothingToReturn
<1> QED
  BY <1>3, <1>4, <1>5, <1>6, <1>7, <1>8, <1>9, <1>10, <1>11 DEF Write

\* Every step keeps the invariant of the holder.
LEMMA HoldStep ==
  ASSUME Ops \cap StaleWriters = {}
  PROVE  TypeInv /\ HoldInv /\ [Next]_vars => HoldInv'
<1> SUFFICES ASSUME TypeInv, HoldInv, [Next]_vars
             PROVE  HoldInv'
  OBVIOUS
<1>1. ASSUME NEW r \in Request, Promote(r)
      PROVE  FALSE
  <2>1. req[r].op \in StaleWriters /\ req[r] \in Req
    BY <1>1 DEF TypeInv, TypeOK, Remembers, WellFormed, Promote
  <2> QED
    BY <2>1 DEF Req, StaleWriters
<1>2. ASSUME NEW r \in Request, Rollback(r)
      PROVE  HoldInv'
  BY <1>2, HoldDrop DEF Rollback, HoldInv, HolderIsLastActive, AssigneeJoined, NobodyFlagged
<1>3. CASE UNCHANGED vars
  BY <1>3 DEF vars, HoldInv, HolderIsLastActive, AssigneeJoined, ReopensToHolder,
     NothingToReturn, NobodyFlagged, FlagsWhatItPicks
<1>4. CASE Declassify
  BY <1>4, DeclassifyKeeps DEF HoldInv, HolderIsLastActive, AssigneeJoined, ReopensToHolder,
     NothingToReturn, NobodyFlagged, FlagsWhatItPicks
<1> QED
  BY <1>1, <1>2, <1>3, <1>4, HoldRead, HoldWrite DEF Next

\* With the endpoints that guard what they write, the holder of the ticket is
\* its last active assignee: reopen has nobody else to send it to.
THEOREM LastActiveTheorem ==
  ASSUME Ops \cap StaleWriters = {}
  PROVE  Spec => []HolderIsLastActive
<1>1. TypeInv /\ HoldInv /\ [Next]_vars => HoldInv'
  BY HoldStep
<1>2. HoldInv => HolderIsLastActive
  BY DEF HoldInv
<1> QED
  BY <1>1, <1>2, HoldInit, InitType, TypeStep, PTL DEF Spec

\* ... and has a join row, however co-assignments race with parking.
THEOREM JoinedTheorem ==
  ASSUME Ops \cap StaleWriters = {}
  PROVE  Spec => []AssigneeJoined
<1>1. TypeInv /\ HoldInv /\ [Next]_vars => HoldInv'
  BY HoldStep
<1>2. HoldInv => AssigneeJoined
  BY DEF HoldInv
<1> QED
  BY <1>1, <1>2, HoldInit, InitType, TypeStep, PTL DEF Spec

=============================================================================
