---------------------------- MODULE AtLeastOnce ----------------------------
(***************************************************************************)
(* What a mailbox of tasks promises to those who post into it: a task      *)
(* stays in the mailbox until it has been handled.  It may be handled      *)
(* again while it is there, never without being there, and the removal     *)
(* comes some time after the handling, several tasks at once.              *)
(***************************************************************************)
CONSTANT Task

VARIABLES
  inbox,    \* the tasks that are, or will again be, given to a worker
  handled   \* the tasks that some worker has run to an end

mvars == <<inbox, handled>>

Init == inbox = {} /\ handled = {}

Arrive(t) ==
  /\ inbox' = inbox \cup {t}
  /\ UNCHANGED handled

Handle(t) ==
  /\ t \in inbox
  /\ handled' = handled \cup {t}
  /\ UNCHANGED inbox

\* Only handled tasks are removed.
Remove(done) ==
  /\ done \subseteq inbox \cap handled
  /\ inbox' = inbox \ done
  /\ UNCHANGED handled

Next ==
  \/ \E t \in Task : Arrive(t) \/ Handle(t)
  \/ \E done \in SUBSET Task : Remove(done)

Spec == Init /\ [][Next]_mvars

=============================================================================
