-------------------------- MODULE TicketWorkflow --------------------------
(***************************************************************************)
(* One ticket and the HTTP requests that work on it at the same time.      *)
(*                                                                         *)
(* A workflow handler opens a READ COMMITTED transaction, loads the ticket *)
(* once (the ORM session keeps that snapshot), checks its guards on the    *)
(* snapshot, and then issues one UPDATE whose WHERE clause is evaluated on *)
(* the row as it is at that moment.  So every handler is two actions here: *)
(* ...Read, which keeps in req[r] what the handler remembers, and ...Write,*)
(* which is the UPDATE together with the rest of the transaction and its   *)
(* commit.  Between the two any other request may commit.  A request that  *)
(* loses (0 rows, an exception, a killed worker) is Rollback.              *)
(*                                                                         *)
(* The columns that say what the ticket is about (title, text, resolution, *)
(* priority, category) are one abstract value, `details`: here it matters  *)
(* who writes it and when, TicketIntake has its priority and category.     *)
(* Not in this module: notifications (TaskDelivery), endorsements          *)
(* (TicketEndorsements), audit rows and assignment history.                *)
(***************************************************************************)
EXTENDS StateMachine, Naturals

CONSTANTS
  User,          \* principals
  Sector,
  Request,       \* slots for requests in flight
  Ops,           \* the endpoints offered in this instance
  Admin, SuperAdmin, Distributor,  \* sets of users holding the realm role
  Viewer,        \* may always see the ticket: creator, beneficiary, requester, auditor
  Member, Chief, \* [Sector -> SUBSET User]
  Detail,        \* what a ticket can be about
  NoUser, NoSector,
  MaxReopen      \* bound on reopened_count

AllOps ==
  {"assign_sector", "assign_to_me", "assign_to_user", "add_sector", "remove_sector",
   "add_assignee", "remove_assignee", "unassign", "change_status", "mark_done",
   "reopen", "cancel", "delete", "describe"}

\* Handlers that pass through _apply_status.
StatusOps == {"change_status", "mark_done", "reopen", "cancel"}

\* Handlers that write back a status computed from the snapshot without
\* putting that status in the WHERE clause.
StaleWriters == {"unassign", "remove_assignee"}

ASSUME RolesAssumption ==
  /\ SuperAdmin \subseteq Admin
  /\ Admin \cup Distributor \cup Viewer \subseteq User
  /\ Member \in [Sector -> SUBSET User] /\ Chief \in [Sector -> SUBSET User]
  /\ NoUser \notin User /\ NoSector \notin Sector
  /\ Ops \subseteq AllOps
  /\ MaxReopen \in Nat

VARIABLES
  row,        \* the tickets row
  assignees,  \* users with a ticket_assignees row
  primaries,  \* ... whose row has is_primary
  sectors,    \* sectors with a ticket_sectors row
  claims,     \* auxiliary: who won assign_to_me since the ticket last had no assignee
  req         \* the requests in flight

vars == <<row, assignees, primaries, sectors, claims, req>>

Row == [status: Statuses, sector: Sector \cup {NoSector},
        assignee: User \cup {NoUser}, lastActive: User \cup {NoUser},
        doneAt: BOOLEAN, reopened: 0..MaxReopen, deleted: BOOLEAN, details: Detail]

\* What a handler keeps across its own SQL statements: its arguments (to,
\* sec, target), the snapshot's status, sector and assignee, and the user it
\* is about to put in assignee_user_id (pick; mark says that the pick's join
\* row must be flagged is_primary at flush).  rows: for add_assignee, the join
\* rows at its load.  A reopen that found the ticket in progress is "return".
Req == [op: Ops \cup {"none", "return"}, stage: {"promote", "write"},
        to: User \cup {NoUser}, sec: Sector \cup {NoSector},
        target: Statuses, status: Statuses, sector: Sector \cup {NoSector},
        assignee: User \cup {NoUser}, pick: User \cup {NoUser}, mark: BOOLEAN,
        rows: SUBSET User]

Idle == [op |-> "none", stage |-> "write", to |-> NoUser, sec |-> NoSector, target |-> "pending", status |-> "pending",
         sector |-> NoSector, assignee |-> NoUser, pick |-> NoUser, mark |-> FALSE, rows |-> {}]

TypeOK ==
  /\ row \in Row
  /\ assignees \subseteq User /\ primaries \subseteq assignees
  /\ sectors \subseteq Sector
  /\ claims \subseteq User
  /\ req \in [Request -> Req]

\* ticket_service._create: a pending ticket nobody has routed or taken.
Init ==
  /\ \E d \in Detail :
       row = [status |-> "pending", sector |-> NoSector, assignee |-> NoUser, lastActive |-> NoUser,
              doneAt |-> FALSE, reopened |-> 0, deleted |-> FALSE, details |-> d]
  /\ assignees = {} /\ primaries = {} /\ sectors = {}
  /\ claims = {}
  /\ req = [r \in Request |-> Idle]

-----------------------------------------------------------------------------
(* rbac.py, on the current row                                             *)

InSector(s) == Member[s] \cup Chief[s]
TicketSectors == sectors \cup ({row.sector} \ {NoSector})
ChiefHere(p) == row.sector # NoSector /\ p \in Chief[row.sector]
Overlaps(p) == \E s \in TicketSectors : p \in InSector(s)

\* assignee_user_ids is hydrated with (id, username) pairs, so membership of
\* a bare user id succeeds for the primary assignee only.
AssignedTo(p) == row.assignee = p

CanView(p) ==
  \/ p \in Admin \cup Viewer
  \/ Overlaps(p)
  \/ p \in Distributor /\ row.status \in Assignable

CanRoute(p)   == p \in Admin \cup Distributor \/ ChiefHere(p)
CanClaim(p)   == p \in Admin \/ Overlaps(p)
CanAssign(p)  == CanRoute(p)
CanRelease(p) == p \in Admin \/ ChiefHere(p)

\* The target of an assignment works in the current sector, admins excepted.
MayReceive(p, u) == row.sector # NoSector /\ (p \in Admin \/ u \in InSector(row.sector))

-----------------------------------------------------------------------------
(* The frame of a handler                                                  *)

\* _load and _check_visible.
Load(r, p, op) ==
  /\ op \in Ops /\ req[r] = Idle
  /\ ~row.deleted /\ CanView(p)

\* The handler's guards passed; it now remembers q.
Keep(r, q) ==
  /\ req' = [req EXCEPT ![r] = q]
  /\ UNCHANGED <<row, assignees, primaries, sectors, claims>>

Writing(r, op) == req[r].op = op /\ req[r].stage = "write"

\* The transaction commits with `new` as the tickets row.
Commit(r, new) ==
  /\ row' = new
  /\ req' = [req EXCEPT ![r] = Idle]

\* Everybody's claim ends when the ticket loses its assignee.
Claims(new, won) == claims' = IF new.assignee = NoUser THEN {} ELSE claims \cup won

\* 409 on zero rows, any exception, or a worker that dies: nothing is kept.
Rollback(r) ==
  /\ req[r] # Idle
  /\ req' = [req EXCEPT ![r] = Idle]
  /\ UNCHANGED <<row, assignees, primaries, sectors, claims>>

\* At commit the flush sets is_primary on the picked row; when that row has
\* gone meanwhile it updates nothing and the session raises.
PickHolds(q) == q.mark => q.pick \in assignees

\* _add_user_assignment when its own statements have seen `rows`: u's row is
\* inserted if it was not among them (and meets the unique index if it has come
\* since), and of the others only these lose the flag.
JoinSeeing(rows, u, primary) ==
  /\ u \in rows \/ u \notin assignees
  /\ assignees' = IF u \in rows THEN assignees ELSE assignees \cup {u}
  /\ primaries' = IF primary THEN (primaries \ rows) \cup ({u} \cap assignees') ELSE primaries

\* A slip: the join row is written for the first assignee only.
JoinIfFirst(u, primary) ==
  /\ assignees' = IF primaries = {} THEN assignees \cup {u} ELSE assignees
  /\ primaries' = IF primary THEN {u} \cap assignees' ELSE primaries

\* After an UPDATE of the ticket no other assignment can slip in before the
\* commit, for it would have to update the ticket as well.
JoinAs(u, primary) == JoinSeeing(assignees, u, primary)

-----------------------------------------------------------------------------
(* Routing: assign_sector, add_sector, remove_sector                       *)

AssignSectorRead(r, p, s) ==
  /\ Load(r, p, "assign_sector") /\ CanRoute(p)
  /\ row.status \in Transitions.assign_sector.from
  /\ Keep(r, [Idle EXCEPT !.op = "assign_sector", !.sec = s])

\* The assignee stays: only status and sector are set.
AssignSectorWrite(r) ==
  LET q == req[r] IN
  /\ Writing(r, "assign_sector")
  /\ ~row.deleted /\ row.status \in Transitions.assign_sector.from
  /\ Commit(r, [row EXCEPT !.status = "assigned_to_sector", !.sector = q.sec])
  /\ sectors' = sectors \cup {q.sec}
  /\ UNCHANGED <<assignees, primaries, claims>>

AddSectorRead(r, p, s) ==
  /\ Load(r, p, "add_sector") /\ CanRoute(p)
  /\ Keep(r, [Idle EXCEPT !.op = "add_sector", !.sec = s])

AddSectorWrite(r) ==
  /\ Writing(r, "add_sector")
  /\ sectors' = sectors \cup {req[r].sec}
  /\ Commit(r, row)
  /\ UNCHANGED <<assignees, primaries, claims>>

\* The primary sector is refused on the snapshot only.
RemoveSectorRead(r, p, s) ==
  /\ Load(r, p, "remove_sector")
  /\ p \in Admin \cup Distributor \cup Chief[s]
  /\ row.sector # s
  /\ Keep(r, [Idle EXCEPT !.op = "remove_sector", !.sec = s])

RemoveSectorWrite(r) ==
  /\ Writing(r, "remove_sector")
  /\ sectors' = sectors \ {req[r].sec}
  /\ Commit(r, row)
  /\ UNCHANGED <<assignees, primaries, claims>>

-----------------------------------------------------------------------------
(* Assignment: assign_to_me, assign_to_user, add_assignee                  *)

\* A slip: last_active_assignee_user_id is forgotten.
HandToOnly(u) == [row EXCEPT !.assignee = u]

\* The ticket goes to u, who becomes its last active assignee.
HandTo(u) == [row EXCEPT !.assignee = u, !.lastActive = u]

\* No status or assignee guard on the snapshot: the WHERE clause has them.
\* status is what the loaded ticket shows once the UPDATE has succeeded: the
\* new status if the snapshot itself met the WHERE clause, else the old one.
AssignToMeRead(r, p) ==
  /\ Load(r, p, "assign_to_me") /\ CanClaim(p)
  /\ Keep(r, [Idle EXCEPT !.op = "assign_to_me", !.to = p, !.sector = row.sector,
                          !.status = IF row.assignee = NoUser
                                     THEN TargetStatus("assign_to_me", row.status, row.status)
                                     ELSE row.status])

\* A slip: the status is trusted to say that nobody holds the ticket.
ClaimableByStatus(q) ==
  /\ row.sector = q.sector /\ ~row.deleted
  /\ row.status \in Transitions.assign_to_me.from

\* WHERE current_sector_id, not deleted, assignee IS NULL, status assignable.
Claimable(q) ==
  /\ row.sector = q.sector /\ ~row.deleted
  /\ row.assignee = NoUser
  /\ row.status \in Transitions.assign_to_me.from

AssignToMeWrite(r) ==
  LET u == req[r].to
      new == [HandTo(u) EXCEPT !.status = "in_progress"]
  IN
  /\ Writing(r, "assign_to_me")
  /\ Claimable(req[r])
  /\ Commit(r, new) /\ Claims(new, {u})
  /\ JoinAs(u, TRUE)
  /\ UNCHANGED sectors

AssignToUserRead(r, p, u) ==
  /\ Load(r, p, "assign_to_user") /\ CanAssign(p) /\ MayReceive(p, u)
  /\ row.status \in Transitions.assign_to_user.from
  /\ Keep(r, [Idle EXCEPT !.op = "assign_to_user", !.to = u])

AssignToUserWrite(r) ==
  LET u == req[r].to
      new == [HandTo(u) EXCEPT !.status = "in_progress"]
  IN
  /\ Writing(r, "assign_to_user")
  /\ ~row.deleted /\ row.status \in Transitions.assign_to_user.from
  /\ Commit(r, new) /\ Claims(new, {})
  /\ JoinAs(u, TRUE)
  /\ UNCHANGED sectors

\* `primary` is decided on the snapshot: q.pick is the user to promote, if any.
AddAssigneeRead(r, p, u) ==
  /\ Load(r, p, "add_assignee") /\ CanAssign(p) /\ MayReceive(p, u)
  /\ Keep(r, [Idle EXCEPT !.op = "add_assignee", !.to = u,
                          !.pick = IF row.assignee = NoUser THEN u ELSE NoUser,
                          !.mark = row.assignee = NoUser /\ u \in assignees \ primaries,
                          !.rows = assignees])

\* WHERE id only, and _add_user_assignment comes first: it sees the join rows of
\* the load or those of the commit.
AddAssigneeWrite(r) ==
  LET q == req[r]
      new == IF q.pick = NoUser THEN row
             ELSE HandTo(q.pick)
  IN
  /\ Writing(r, "add_assignee")
  /\ Commit(r, new) /\ Claims(new, {})
  /\ \/ PickHolds(q) /\ JoinSeeing(q.rows, q.to, q.pick # NoUser)
     \/ JoinSeeing(assignees, q.to, q.pick # NoUser)
  /\ UNCHANGED sectors

-----------------------------------------------------------------------------
(* Release: unassign, remove_assignee                                      *)

UnassignRead(r, p) ==
  /\ Load(r, p, "unassign")
  /\ row.assignee # NoUser
  /\ AssignedTo(p) \/ CanRelease(p)
  /\ Keep(r, [Idle EXCEPT !.op = "unassign", !.stage = "promote",
                          !.to = row.assignee, !.assignee = row.assignee,
                          !.status = row.status])

\* Only the removal of the snapshot's primary goes on to promote somebody and
\* to write the ticket, so only then is the snapshot remembered.
RemoveAssigneeRead(r, p, u) ==
  /\ Load(r, p, "remove_assignee")
  /\ u = p \/ CanRelease(p)
  /\ \/ /\ row.assignee = u
        /\ Keep(r, [Idle EXCEPT !.op = "remove_assignee", !.to = u, !.stage = "promote",
                                !.assignee = u, !.status = row.status])
     \/ /\ row.assignee # u
        /\ Keep(r, [Idle EXCEPT !.op = "remove_assignee", !.to = u])

\* The join row of the leaver is deleted and _promote_remaining_assignee
\* reads the others.  It takes the oldest by added_at, which is the start of
\* the inserting transaction and not its commit; the order is left open.
Promote(r) ==
  LET rest == assignees \ {req[r].to} IN
  /\ req[r].stage = "promote"
  /\ \E u \in IF rest = {} THEN {NoUser} ELSE rest :
       Keep(r, [req[r] EXCEPT !.stage = "write", !.pick = u,
                              !.mark = u # NoUser /\ u \notin primaries])

Leave(q) ==
  /\ assignees' = assignees \ {q.to}
  /\ primaries' = (primaries \cup {q.pick}) \cap (assignees \ {q.to})

\* The status left behind when nobody is left.
Fallback(q) == TargetStatus("unassign", q.status, q.status)

\* WHERE not deleted and assignee = the one read.  The status is what the
\* snapshot implies, or in_progress when somebody was promoted.
UnassignWrite(r) ==
  LET q == req[r]
      new == [row EXCEPT !.assignee = q.pick,
                         !.status = IF q.pick = NoUser THEN Fallback(q) ELSE "in_progress"]
  IN
  /\ Writing(r, "unassign")
  /\ ~row.deleted /\ row.assignee = q.assignee
  /\ PickHolds(q)
  /\ Commit(r, new) /\ Claims(new, {}) /\ Leave(q)
  /\ UNCHANGED sectors

\* WHERE id only, and the status of the snapshot is written back.
RemoveAssigneeWrite(r) ==
  LET q == req[r]
      new == [row EXCEPT !.assignee = q.pick,
                         !.status = IF q.pick = NoUser THEN Fallback(q) ELSE q.status]
  IN
  /\ Writing(r, "remove_assignee")
  /\ PickHolds(q)
  /\ IF q.assignee = q.to THEN Commit(r, new) /\ Claims(new, {})
                          ELSE Commit(r, row) /\ UNCHANGED claims
  /\ Leave(q)
  /\ UNCHANGED sectors

-----------------------------------------------------------------------------
(* Status: change_status, mark_done (and close), reopen, cancel.  The      *)
(* endorsement check in front of `done` belongs to TicketEndorsements.     *)

\* can_mark_done, can_close, can_reopen, can_cancel and can_drive_status are
\* one predicate.  For reopen, pick is the last active assignee.
ApplyStatusRead(r, p, op, target, from) ==
  /\ Load(r, p, op) /\ AssignedTo(p)
  /\ row.status \in from
  /\ Keep(r, [Idle EXCEPT !.op = op, !.target = target,
                          !.status = row.status, !.assignee = row.assignee,
                          !.pick = IF op = "reopen" THEN row.lastActive ELSE NoUser])

ChangeStatusRead(r, p) ==
  \E target \in DOMAIN ChangeStatusFrom :
    ApplyStatusRead(r, p, "change_status", target, ChangeStatusFrom[target])

MarkDoneRead(r, p) ==
  ApplyStatusRead(r, p, "mark_done", "done", Transitions.mark_done.from)

ReopenRead(r, p) ==
  ApplyStatusRead(r, p, "reopen", "in_progress", Transitions.reopen.from)

CancelRead(r, p) ==
  ApplyStatusRead(r, p, "cancel", "cancelled", Transitions.cancel.from)

\* Slips: the WHERE clause of _apply_status with one of its conditions lost.
StatusUnguarded(q) == ~row.deleted
StatusOfAnyRow(q)  == row.status = q.status

\* WHERE status = the one read, not deleted.
StatusAsRead(q) == row.status = q.status /\ ~row.deleted

\* A slip: a cancelled ticket that is picked up again is not counted.
WakesDoneOnly(q) == q.target = "in_progress" /\ q.status = "done"

Wakes(q) == q.target = "in_progress" /\ q.status \in Finished

\* A slip: done_at is written by `done` and never cleared.
StatusRowKeepsStamp(q, d) ==
  [row EXCEPT !.status = q.target, !.details = d,
              !.doneAt = @ \/ q.target = "done",
              !.reopened = IF Wakes(q) THEN @ + 1 ELSE @,
              !.assignee = IF q.target = "assigned_to_sector" THEN NoUser
                           ELSE IF q.pick \notin {NoUser, q.assignee} THEN q.pick ELSE @]

\* The status columns, and reopen's second UPDATE of the assignee.
StatusRow(q, d) ==
  [row EXCEPT !.status = q.target, !.details = d,
              !.doneAt = (q.target = "done"),
              !.reopened = IF Wakes(q) THEN @ + 1 ELSE @,
              !.assignee = IF q.target = "assigned_to_sector" THEN NoUser
                           ELSE IF q.pick \notin {NoUser, q.assignee} THEN q.pick ELSE @]

\* `done` writes a resolution, a given one or that of the snapshot.
Told(q) == IF q.target = "done" THEN Detail ELSE {row.details}

ApplyStatusWrite(r) ==
  LET q == req[r] IN
  /\ q.op \in StatusOps /\ StatusAsRead(q)
  /\ Wakes(q) => row.reopened < MaxReopen
  /\ \E d \in Told(q) : Commit(r, StatusRow(q, d)) /\ Claims(StatusRow(q, d), {})
  /\ IF q.target = "assigned_to_sector"
     THEN assignees' = {} /\ primaries' = {}
     ELSE UNCHANGED <<assignees, primaries>>
  /\ UNCHANGED sectors

\* reopen of a ticket that is in progress: _apply_status has nothing to do and
\* returns, and reopen goes on to put the last active assignee back.
ReturnRead(r, p) ==
  /\ Load(r, p, "reopen") /\ AssignedTo(p)
  /\ row.status = "in_progress" /\ row.lastActive \notin {NoUser, row.assignee}
  /\ Keep(r, [Idle EXCEPT !.op = "return", !.pick = row.lastActive])

\* WHERE id and not deleted, whatever has become of the status; finding no row
\* is no error, and the join rows are left as they are.
ReturnWrite(r) ==
  LET new == IF row.deleted THEN row ELSE [row EXCEPT !.assignee = req[r].pick] IN
  /\ Writing(r, "return")
  /\ Commit(r, new) /\ Claims(new, {})
  /\ UNCHANGED <<assignees, primaries, sectors>>

DeleteRead(r, p) ==
  /\ Load(r, p, "delete") /\ p \in SuperAdmin
  /\ Keep(r, [Idle EXCEPT !.op = "delete"])

DeleteWrite(r) ==
  /\ Writing(r, "delete")
  /\ Commit(r, [row EXCEPT !.deleted = TRUE])
  /\ UNCHANGED <<assignees, primaries, sectors, claims>>

-----------------------------------------------------------------------------
(* What the ticket is about: ticket_service.update, review, change_priority *)
(* and mark_done or close of a ticket that is done (its late resolution).   *)

\* can_update_ticket and can_change_priority are the predicate of routing.
DescribeRead(r, p) ==
  /\ Load(r, p, "describe")
  /\ CanRoute(p) \/ (AssignedTo(p) /\ row.status = "done")
  /\ Keep(r, [Idle EXCEPT !.op = "describe"])

\* Only changed columns, WHERE id only (change_priority adds the priority it has
\* read): the ticket may have been deleted since.
DescribeWrite(r) ==
  /\ Writing(r, "describe")
  /\ \E d \in Detail : Commit(r, [row EXCEPT !.details = d])
  /\ UNCHANGED <<assignees, primaries, sectors, claims>>

\* An administrator deletes a category or subcategory, and the database takes
\* it off every ticket, the deleted ones as well (ON DELETE SET NULL).
Declassify ==
  /\ \E d \in Detail : row' = [row EXCEPT !.details = d]
  /\ UNCHANGED <<assignees, primaries, sectors, claims, req>>

-----------------------------------------------------------------------------
(* ticket_status_history is only appended to and no handler reads it, so   *)
(* it is no variable: Logged(q) is the row <<old, new>> the transaction    *)
(* with memory q inserts, <<>> for none.  The UPDATE refreshes the loaded  *)
(* ticket object, and t.status is read after it: what was meant as the old *)
(* status is already the new one, except in _apply_status, which keeps the *)
(* old status in a local variable.                                         *)

\* A slip: _apply_status, too, reads t.status after its UPDATE.
LoggedAfterUpdate(q) ==
  IF q.op \in StatusOps THEN <<q.target, q.target>> ELSE <<>>

Logged(q) ==
  CASE q.op \in StatusOps -> <<q.status, q.target>>
    [] q.op = "assign_sector" -> <<"assigned_to_sector", "assigned_to_sector">>
    [] q.op = "assign_to_me" -> <<q.status, "in_progress">>
    [] q.op = "unassign" /\ q.pick # NoUser /\ Fallback(q) # "in_progress" ->
         <<"in_progress", Fallback(q)>>
    [] OTHER -> <<>>

-----------------------------------------------------------------------------
Read(r, p) ==
  \/ \E s \in Sector : \/ AssignSectorRead(r, p, s)
                       \/ AddSectorRead(r, p, s)
                       \/ RemoveSectorRead(r, p, s)
  \/ \E u \in User : \/ AssignToUserRead(r, p, u)
                     \/ AddAssigneeRead(r, p, u)
                     \/ RemoveAssigneeRead(r, p, u)
  \/ AssignToMeRead(r, p)
  \/ UnassignRead(r, p)
  \/ ChangeStatusRead(r, p)
  \/ MarkDoneRead(r, p)
  \/ ReopenRead(r, p)
  \/ ReturnRead(r, p)
  \/ CancelRead(r, p)
  \/ DeleteRead(r, p)
  \/ DescribeRead(r, p)

Write(r) ==
  \/ AssignSectorWrite(r)
  \/ AddSectorWrite(r)
  \/ RemoveSectorWrite(r)
  \/ AssignToMeWrite(r)
  \/ AssignToUserWrite(r)
  \/ AddAssigneeWrite(r)
  \/ UnassignWrite(r)
  \/ RemoveAssigneeWrite(r)
  \/ ApplyStatusWrite(r)
  \/ ReturnWrite(r)
  \/ DeleteWrite(r)
  \/ DescribeWrite(r)

Next ==
  \/ \E r \in Request : \/ \E p \in User : Read(r, p)
                        \/ Promote(r)
                        \/ Write(r)
                        \/ Rollback(r)
  \/ Declassify

Spec == Init /\ [][Next]_vars

-----------------------------------------------------------------------------
(* Properties                                                              *)

\* Request r's transaction changed the ticket in this step.
Commits(r) == req[r] # Idle /\ req'[r] = Idle /\ row' # row

\* assign_to_me has at most one winner: until the ticket loses its assignee
\* again nobody else can claim it, whoever else writes in between.
OneClaim == \A a, b \in claims : a = b

\* The status changes an endpoint may make.
MayMove(op, from, to) ==
  \/ op = "change_status" /\ to \in DOMAIN ChangeStatusFrom /\ from \in ChangeStatusFrom[to]
  \/ op \in DOMAIN Transitions /\ from \in Transitions[op].from /\ to = Transitions[op].to

\* Whatever happened since a handler read the ticket, the status it replaces
\* and the status it writes form a row of its own table.  Exempt are the two
\* handlers that do not guard the status they write (see ReopenIsCounted).
LegalMoves ==
  [][\A r \in Request :
       Commits(r) /\ row'.status # row.status /\ req[r].op \notin StaleWriters
         => MayMove(req[r].op, row.status, row'.status)]_vars

\* A status written through _apply_status is logged with the status it really
\* replaced, not with the one some earlier snapshot showed.
TrueHistory ==
  [][\A r \in Request :
       Commits(r) /\ req[r].op \in StatusOps
         => Logged(req[r]) = <<row.status, row'.status>>]_vars

\* The ticket with other details.
SameButDetails == row' = [row EXCEPT !.details = row'.details]

\* The soft delete is final, and no request that was in flight when it committed
\* moves the ticket any more: its sector, stamp and count stay, and its status
\* and assignee change only by the two co-assignee endpoints, whose UPDATE has
\* no is_deleted clause.  The other writers that go by id (update, review, a
\* priority, a late resolution, a category deleted) change its details alone.
DeletedIsFrozen ==
  [][row.deleted =>
       /\ row'.deleted /\ row'.sector = row.sector
       /\ row'.doneAt = row.doneAt /\ row'.reopened = row.reopened
       /\ \/ SameButDetails
          \/ \E r \in Request : Commits(r) /\ req[r].op \in {"add_assignee", "remove_assignee"}]_vars

\* The endpoints other than StaleWriters, with their snapshots and races,
\* implement the lifecycle.
Lifecycle == INSTANCE TicketLifecycle
  WITH status <- row.status, holder <- row.assignee, doneAt <- row.doneAt,
       reopened <- row.reopened, deleted <- row.deleted

ImplementsLifecycle == Lifecycle!Spec

\* Without StaleWriters done_at is set exactly on the tickets that are done:
\* the durations the monitor derives from it rely on that.
StampMeansDone == Lifecycle!StampMeansDone

\* A commit of one of the two handlers that do not guard the status they write.
StrayCommit(r) ==
  /\ Commits(r) /\ req[r].op \in StaleWriters
  /\ row'.doneAt = row.doneAt /\ row'.reopened = row.reopened /\ row'.deleted = row.deleted

\* With every endpoint in flight, those two alone take the ticket out of the
\* lifecycle, and they touch neither the stamp nor the count nor the deletion:
\* any other step of a ticket whose stamp is right is one the lifecycle allows.
StrayOnlyByStaleWriters ==
  [][StampMeansDone => \/ Lifecycle!Next \/ UNCHANGED Lifecycle!lvars
                       \/ \E r \in Request : StrayCommit(r)]_vars

\* Without StaleWriters the assignee of the ticket has a join row, so he
\* appears in every list that is built from ticket_assignees.
AssigneeJoined == row.assignee # NoUser => row.assignee \in assignees

\* reopen sends the ticket to last_active_assignee_user_id, which is, without
\* StaleWriters, the person who holds it now whenever somebody does.
HolderIsLastActive == row.assignee # NoUser => row.lastActive = row.assignee

-----------------------------------------------------------------------------
(* What the repository says and the code does not do: TLC refutes each     *)
(* when it is given as a property.                                         *)

\* workflow_service.py:147 "Moving a finished/cancelled ticket back to
\* in_progress carries the reopen bookkeeping", whichever endpoint moves it.
ReopenIsCounted ==
  [][row.status \in Finished /\ row'.status = "in_progress"
       => row'.reopened = row.reopened + 1 /\ ~row'.doneAt]_vars

\* monitor_service.py:139 counts "tickets transitioned out of pending" as the
\* history rows whose old_status is pending.
LeavingPendingLogged ==
  [][\A r \in Request :
       Commits(r) /\ row.status = "pending" /\ row'.status # "pending"
         => Logged(req[r]) = <<"pending", row'.status>>]_vars

\* rbac.py:167-173 "only assigned users can drive status. Assignment is the
\* gateway for anyone who wants to work a ticket": every assignee may.
AssigneesCanDrive == \A u \in assignees : AssignedTo(u)

=============================================================================
