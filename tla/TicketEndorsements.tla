------------------------- MODULE TicketEndorsements -------------------------
(***************************************************************************)
(* Supplementary endorsements, composed with the workflow of their ticket. *)
(*                                                                         *)
(* The assignee files endorsement rows on the ticket; an avizator claims a *)
(* row from the pool, and an avizator or administrator decides it.  While  *)
(* a row is pending the workflow refuses `done`, by a query of its own     *)
(* between loading the ticket and its UPDATE.  As in TicketWorkflow a      *)
(* handler is a Read and a Write, with anything in between.                *)
(***************************************************************************)
EXTENDS TicketWorkflow

CONSTANTS
  Endorsement,  \* the rows that can be filed
  Caller,       \* slots for endorsement requests in flight
  Avizator      \* users with the tickora_avizator role

ASSUME AvizatorAssumption == Avizator \subseteq User

VARIABLES
  endo,       \* the ticket_endorsements rows
  ereq,       \* the endorsement requests in flight
  claimants,  \* auxiliary: whose claim() of a row succeeded
  gated,      \* workflow requests that have passed the pending check
  seen        \* auxiliary: the rows that existed when they did

evars == <<endo, ereq, claimants, gated, seen>>
allvars == <<vars, evars>>

Decided == {"approved", "rejected"}

EndoRow == [status: {"none", "pending"} \cup Decided,
            to: User \cup {NoUser}, by: User \cup {NoUser}]

\* pool: the row was unassigned when decide() loaded it.
EReq == [op: {"none", "file", "decide", "claim"}, user: User \cup {NoUser},
         to: User \cup {NoUser}, rows: SUBSET Endorsement, verdict: Decided, pool: BOOLEAN]

ENone == [op |-> "none", user |-> NoUser, to |-> NoUser, rows |-> {},
          verdict |-> "approved", pool |-> FALSE]

ETypeOK ==
  /\ endo \in [Endorsement -> EndoRow]
  /\ ereq \in [Caller -> EReq]
  /\ claimants \in [Endorsement -> SUBSET User]
  /\ gated \subseteq Request
  /\ seen \in [Request -> SUBSET Endorsement]

EInit ==
  /\ Init
  /\ endo = [e \in Endorsement |-> [status |-> "none", to |-> NoUser, by |-> NoUser]]
  /\ ereq = [c \in Caller |-> ENone]
  /\ claimants = [e \in Endorsement |-> {}]
  /\ gated = {} /\ seen = [r \in Request |-> {}]

Filed   == {e \in Endorsement : endo[e].status # "none"}
Pending == {e \in Endorsement : endo[e].status = "pending"}

\* A slip: only the rows addressed to somebody are counted.
HasDirectPending == \E e \in Pending : endo[e].to # NoUser

\* has_pending.
HasPending == Pending # {}

-----------------------------------------------------------------------------
(* The workflow under the pending check                                    *)

\* _apply_status leaves a workflow request with target `done` at this query.
CheckPending(r) ==
  /\ req[r].target = "done" /\ r \notin gated
  /\ ~HasPending
  /\ gated' = gated \cup {r}
  /\ seen' = [seen EXCEPT ![r] = Filed]
  /\ UNCHANGED <<vars, endo, ereq, claimants>>

\* Without having passed it, such a request can only end without effect.
Gate == \A r \in Request :
  req[r].target = "done" /\ r \notin gated /\ req'[r] = Idle => row' = row

WorkflowStep ==
  /\ Next /\ Gate
  /\ gated' = {r \in gated : req'[r] # Idle}
  /\ seen' = [r \in Request |-> IF req'[r] = Idle THEN {} ELSE seen[r]]
  /\ UNCHANGED <<endo, ereq, claimants>>

-----------------------------------------------------------------------------
(* The endorsement endpoints                                               *)

EKeep(c, q) ==
  /\ ereq[c] = ENone
  /\ ereq' = [ereq EXCEPT ![c] = q]
  /\ UNCHANGED <<vars, endo, claimants, gated, seen>>

ECommit(c) ==
  /\ ereq' = [ereq EXCEPT ![c] = ENone]
  /\ UNCHANGED <<vars, gated, seen>>

ERollback(c) ==
  /\ ereq[c] # ENone
  /\ ECommit(c)
  /\ UNCHANGED <<endo, claimants>>

\* ticket_service.get: whoever may act, or has acted, on an endorsement sees
\* the ticket too.
CanOpen(p) ==
  \/ CanView(p)
  \/ /\ p \in Avizator
     /\ \E e \in Filed : endo[e].to \in {NoUser, p} \/ endo[e].by = p

\* request(): for the pool (t = NoUser) or for one avizator.  The status of
\* the ticket is not looked at.
FileRead(c, p, t) ==
  /\ ~row.deleted /\ CanOpen(p) /\ AssignedTo(p)
  /\ EKeep(c, [ENone EXCEPT !.op = "file", !.user = p, !.to = t])

FileWrite(c) ==
  /\ ereq[c].op = "file"
  /\ \E e \in Endorsement \ Filed :
       endo' = [endo EXCEPT ![e] = [status |-> "pending", to |-> ereq[c].to, by |-> NoUser]]
  /\ ECommit(c)
  /\ UNCHANGED claimants

CanDecide(p, e) == p \in Admin \/ (p \in Avizator /\ endo[e].to \in {NoUser, p})

DecideRead(c, p, e, verdict) ==
  /\ e \in Pending /\ CanDecide(p, e)
  /\ EKeep(c, [ENone EXCEPT !.op = "decide", !.user = p, !.rows = {e}, !.verdict = verdict,
                            !.pool = endo[e].to = NoUser])

\* A slip: the assignee that was loaded is written back.
EntrustedAsLoaded(q, e) == IF q.pool THEN NoUser ELSE endo[e].to

\* A pool row is claimed by its decision; otherwise the column is not written.
Entrusted(q, e) == IF q.pool THEN q.user ELSE endo[e].to

\* The flush of an ORM object: WHERE id only.
DecideWrite(c) ==
  LET q == ereq[c] IN
  /\ q.op = "decide"
  /\ endo' = [e \in Endorsement |->
                IF e \in q.rows
                THEN [status |-> q.verdict, to |-> Entrusted(q, e), by |-> q.user]
                ELSE endo[e]]
  /\ ECommit(c)
  /\ UNCHANGED claimants

ClaimRead(c, p, e) ==
  /\ e \in Pending /\ endo[e].to = NoUser /\ CanDecide(p, e)
  /\ EKeep(c, [ENone EXCEPT !.op = "claim", !.user = p, !.rows = {e}])

\* A slip: the checks made on the loaded row are trusted.
UnclaimedWhenRead(e) == TRUE

\* WHERE status = 'pending' AND assigned_to_user_id IS NULL.
Unclaimed(e) == e \in Pending /\ endo[e].to = NoUser

ClaimWrite(c) ==
  LET q == ereq[c] IN
  /\ q.op = "claim"
  /\ \A e \in q.rows : Unclaimed(e)
  /\ endo' = [e \in Endorsement |->
                IF e \in q.rows THEN [endo[e] EXCEPT !.to = q.user] ELSE endo[e]]
  /\ claimants' = [e \in Endorsement |->
                     IF e \in q.rows THEN claimants[e] \cup {q.user} ELSE claimants[e]]
  /\ ECommit(c)

EndorsementStep(c) ==
  \/ \E p \in User : \/ \E t \in Avizator \cup {NoUser} : FileRead(c, p, t)
                     \/ \E e \in Endorsement : \/ \E v \in Decided : DecideRead(c, p, e, v)
                                               \/ ClaimRead(c, p, e)
  \/ FileWrite(c)
  \/ DecideWrite(c)
  \/ ClaimWrite(c)
  \/ ERollback(c)

ENext ==
  \/ WorkflowStep
  \/ \E r \in Request : CheckPending(r)
  \/ \E c \in Caller : EndorsementStep(c)

ESpec == EInit /\ [][ENext]_allvars

-----------------------------------------------------------------------------
(* Properties                                                              *)

\* A pool row is claimed at most once, however claims and decisions race.
OneClaimant == \A e \in Endorsement : \A a, b \in claimants[e] : a = b

\* Once somebody has been entrusted with a row, it never returns to the pool,
\* where every avizator would be asked to take it.
NeverBackToPool ==
  [][\A e \in Endorsement : endo[e].to # NoUser => endo'[e].to # NoUser]_allvars

\* What the pending check does give: when a status endpoint makes a ticket
\* done, it has passed the check, and every row that existed at the check has
\* been decided.  Rows filed after it may pend.
DoneSawDecisions ==
  [][\A r \in Request :
       Commits(r) /\ req[r].op \in StatusOps /\ row.status # "done" /\ row'.status = "done"
         => r \in gated /\ \A e \in seen[r] : endo[e].status \in Decided]_allvars

\* The endpoints, with their snapshots and races, run the desk: every row is
\* filed, claimed from the pool and decided one step at a time, by people who
\* may, and belongs to somebody from its claim or decision on.
Desk == INSTANCE EndorsementDesk WITH desk <- endo, Judge <- Admin \cup Avizator

ImplementsDesk == Desk!Spec

\* A decided row changes only by another decision that was in flight, and it
\* never pends again: the verdict and its author change together.
OverruledByRacer ==
  [][\A e \in Endorsement :
       endo[e].status \in Decided /\ endo'[e] # endo[e]
         => /\ endo'[e].status \in Decided
            /\ \E c \in Caller : /\ ereq[c].op = "decide" /\ e \in ereq[c].rows
                                 /\ endo'[e].status = ereq[c].verdict
                                 /\ endo'[e].by = ereq[c].user]_allvars

-----------------------------------------------------------------------------
(* What the repository says and the code does not do: TLC refutes each     *)
(* when it is given as a property.                                         *)

\* models.py:434 "A pending row blocks the ticket from moving to done".
PendingBlocksDone ==
  [][row.status # "done" /\ row'.status = "done" => ~HasPending]_allvars

\* endorsement_service.py:119 "Approve or reject a pending endorsement": a
\* decision that has been made is not replaced.
DecidedOnce ==
  [][\A e \in Endorsement : endo[e].status \in Decided => endo'[e] = endo[e]]_allvars

=============================================================================
