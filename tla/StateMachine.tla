--------------------------- MODULE StateMachine ---------------------------
(***************************************************************************)
(* The design table of src/src/ticketing/state_machine.py: which status an *)
(* action may start from and which status it leads to.  Pure definitions,  *)
(* shared by the abstract lifecycle and by the detailed workflow.          *)
(***************************************************************************)

Statuses == {"pending", "assigned_to_sector", "in_progress", "done", "cancelled"}

Assignable == {"pending", "assigned_to_sector"}
Workable   == Assignable \cup {"in_progress"}
Finished   == {"done", "cancelled"}

\* TRANSITIONS.  reassign is assign_to_user and close is mark_done: same rows.
Transitions ==
  [assign_sector  |-> [from |-> Workable,        to |-> "assigned_to_sector"],
   assign_to_me   |-> [from |-> Assignable,      to |-> "in_progress"],
   assign_to_user |-> [from |-> Workable,        to |-> "in_progress"],
   unassign       |-> [from |-> {"in_progress"}, to |-> "assigned_to_sector"],
   mark_done      |-> [from |-> {"in_progress"}, to |-> "done"],
   reopen         |-> [from |-> Finished,        to |-> "in_progress"],
   cancel         |-> [from |-> Workable,        to |-> "cancelled"]]

\* The generic endpoint's own table (allowed_from in change_status).
ChangeStatusFrom ==
  [assigned_to_sector |-> {"in_progress"},
   in_progress        |-> Assignable \cup Finished,
   done               |-> {"in_progress"},
   cancelled          |-> Workable]

\* target_status(action, s) or otherwise, as the callers write it.
TargetStatus(action, s, otherwise) ==
  IF s \in Transitions[action].from THEN Transitions[action].to ELSE otherwise

=============================================================================
