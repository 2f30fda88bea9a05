-------------------------- MODULE TicketLifecycle --------------------------
(***************************************************************************)
(* What the workflow promises about a ticket, with no requests, no         *)
(* snapshots and no join tables: each step is one atomic transition of the *)
(* design table, with its bookkeeping.  A finished ticket leaves its state *)
(* only by Reopen, which counts itself and clears the completion stamp.    *)
(***************************************************************************)
EXTENDS StateMachine, Naturals

CONSTANTS User, NoUser

VARIABLES status, holder, doneAt, reopened, deleted

lvars == <<status, holder, doneAt, reopened, deleted>>

Init ==
  /\ status = "pending" /\ holder = NoUser
  /\ doneAt = FALSE /\ reopened = 0 /\ deleted = FALSE

Live(action) == ~deleted /\ status \in Transitions[action].from

Moves(action) ==
  /\ Live(action)
  /\ status' = Transitions[action].to

Route ==
  /\ Moves("assign_sector")
  /\ UNCHANGED <<holder, doneAt, reopened, deleted>>

\* Self-service: only an unheld ticket can be taken.
Take(u) ==
  /\ holder = NoUser /\ holder' = u
  /\ Moves("assign_to_me")
  /\ UNCHANGED <<doneAt, reopened, deleted>>

\* Management hands the ticket over, held or not.
Give(u) ==
  /\ holder' = u
  /\ Moves("assign_to_user")
  /\ UNCHANGED <<doneAt, reopened, deleted>>

\* A co-assignee becomes the holder whatever the state of the ticket, or the
\* last active assignee when a ticket in progress is reopened.
Join(u) ==
  /\ holder' = u
  /\ UNCHANGED <<status, doneAt, reopened, deleted>>

Park ==
  /\ holder' = NoUser
  /\ Moves("unassign")
  /\ UNCHANGED <<doneAt, reopened, deleted>>

Start ==
  /\ Live("assign_to_me") /\ status' = "in_progress"
  /\ UNCHANGED <<holder, doneAt, reopened, deleted>>

Finish ==
  /\ Moves("mark_done") /\ doneAt' = TRUE
  /\ UNCHANGED <<holder, reopened, deleted>>

Cancel ==
  /\ Moves("cancel")
  /\ UNCHANGED <<holder, doneAt, reopened, deleted>>

\* The holder stays or the last active assignee gets the ticket back.
Reopen ==
  /\ Moves("reopen")
  /\ holder' \in {holder} \cup User
  /\ doneAt' = FALSE /\ reopened' = reopened + 1
  /\ UNCHANGED deleted

Delete ==
  /\ deleted' = TRUE
  /\ UNCHANGED <<status, holder, doneAt, reopened>>

Next ==
  \/ Route \/ Park \/ Start \/ Finish \/ Cancel \/ Reopen \/ Delete
  \/ \E u \in User : Take(u) \/ Give(u) \/ Join(u)

Spec == Init /\ [][Next]_lvars

\* The completion stamp is there exactly while the ticket is done: every
\* duration the monitor derives from done_at relies on it.
StampMeansDone == doneAt <=> status = "done"

=============================================================================
