--------------------------- MODULE TicketIntake ---------------------------
(***************************************************************************)
(* Filing and classifying tickets (ticket_service.create, review_service,  *)
(* workflow_service.change_priority) while administrators edit the         *)
(* catalogue of categories, subcategories and fields (admin_service).      *)
(*                                                                         *)
(* A request is one transaction at READ COMMITTED: it reads (one step) and *)
(* writes on what it has read (a later step), or is rolled back.  Of a     *)
(* payload only what is classified is kept, and it is chosen in the step   *)
(* that first depends on it; a member of Category stands for a row and for *)
(* the code it was created with.  Requests of callers who are refused      *)
(* change nothing and are left out.                                        *)
(***************************************************************************)
EXTENDS Integers, Sequences

CONSTANTS
  Category, Subcategory, Field, Ticket, Priority, Request,
  None,             \* NULL
  MaxLog, MaxEdits  \* bounds on the priorities set and catalogue edits explored

ASSUME IntakeAssumption ==
  /\ {MaxLog, MaxEdits} \subseteq Nat
  /\ None \notin Category \cup Subcategory \cup Priority

VARIABLES
  category,     \* [Category -> the state of its row]
  subcategory,  \* [Subcategory -> [state, parent]]
  field,        \* [Field -> [state, sub]]: the fields a subcategory asks for
  ticket,       \* [Ticket -> row]
  priorityLog,  \* the TICKET_CREATED and PRIORITY_CHANGED rows of the audit trail,
                \* in the order of their commits
  req,          \* the transactions in progress
  moved,        \* ghost: the subcategories ever moved to another category
  edits         \* the catalogue edits begun

vars == <<category, subcategory, field, ticket, priorityLog, req, moved, edits>>
catalogue == <<category, subcategory, field>>

\* An id is never used twice, so a row that is gone stays gone.
Alive == {"active", "inactive"}
Life  == Alive \cup {"unborn", "gone"}

\* @reviewed is a ghost: a review has changed the classification.
Unfiled == [filed |-> FALSE, category |-> None, subcategory |-> None,
            priority |-> None, reviewed |-> FALSE]

Idle == [op |-> "idle"]

\* A catalogue with some of its rows, and no ticket yet.
Init ==
  /\ category \in [Category -> {"unborn", "active"}]
  /\ subcategory \in [Subcategory -> [state: {"unborn"}, parent: {None}] \cup
                                      [state: {"active"}, parent: {c \in Category : category[c] = "active"}]]
  /\ field \in [Field -> [state: {"unborn"}, sub: {None}, required: {FALSE}] \cup
                          [state: {"active"}, sub: {s \in Subcategory : subcategory[s].state = "active"},
                           required: BOOLEAN]]
  /\ ticket = [t \in Ticket |-> Unfiled]
  /\ priorityLog = <<>>
  /\ req = [r \in Request |-> Idle]
  /\ moved = {} /\ edits = 0

Load(r, q) ==
  /\ req[r] = Idle
  /\ req' = [req EXCEPT ![r] = q]
  /\ UNCHANGED <<catalogue, ticket, priorityLog, moved>>

\* A transaction of a request about tickets, or about the catalogue.
Serve(r, q) == Load(r, q) /\ UNCHANGED edits
Edit(r, q)  == Load(r, q) /\ edits < MaxEdits /\ edits' = edits + 1

Done(r) == req' = [req EXCEPT ![r] = Idle] /\ UNCHANGED edits

\* Any transaction can end without a trace: a constraint that fails, an
\* UPDATE that finds no row, a deadlock, or, in a review, a later part of it
\* (routing, assigning, commenting, closing) that is refused.
Rollback(r) ==
  /\ req[r] # Idle
  /\ Done(r)
  /\ UNCHANGED <<catalogue, ticket, priorityLog, moved>>

-----------------------------------------------------------------------------
(* The catalogue *)

\* The unit of work writes a column only when it differs from what was read.
Written(seen, new, now) == IF new = seen THEN now ELSE new

\* An INSERT needs its code to be free, an UPDATE its row to be there.
Writable(seen, now) == IF seen = "unborn" THEN now = "unborn" ELSE now \in Alive

UpsertCategory(r) ==
  \E c \in Category :
    category[c] # "gone" /\ Edit(r, [op |-> "category", id |-> c, seen |-> category[c]])

CommitCategory(r) ==
  LET q == req[r] IN
  /\ q.op = "category" /\ Writable(q.seen, category[q.id])
  /\ \E to \in Alive : category' = [category EXCEPT ![q.id] = Written(q.seen, to, @)]
  /\ Done(r) /\ UNCHANGED <<subcategory, field, ticket, priorityLog, moved>>

UpsertSubcategory(r) ==
  \E c \in Category, s \in Subcategory :
    /\ category[c] \in Alive /\ subcategory[s].state # "gone"
    /\ Edit(r, [op |-> "subcategory", id |-> s, seen |-> subcategory[s], parent |-> c])

CommitSubcategory(r) ==
  LET q == req[r]
      parent == Written(q.seen.parent, q.parent, subcategory[q.id].parent) IN
  /\ q.op = "subcategory" /\ Writable(q.seen.state, subcategory[q.id].state)
  /\ category[parent] \in Alive
  /\ \E to \in Alive :
       subcategory' = [subcategory EXCEPT ![q.id] =
                         [state |-> Written(q.seen.state, to, @.state), parent |-> parent]]
  /\ moved' = IF subcategory[q.id].parent \in {None, parent} THEN moved ELSE moved \cup {q.id}
  /\ Done(r) /\ UNCHANGED <<category, field, ticket, priorityLog>>

UpsertField(r) ==
  \E s \in Subcategory, f \in Field :
    /\ subcategory[s].state \in Alive /\ field[f].state # "gone"
    /\ Edit(r, [op |-> "field", id |-> f, seen |-> field[f], sub |-> s])

CommitField(r) ==
  LET q == req[r]
      sub == Written(q.seen.sub, q.sub, field[q.id].sub) IN
  /\ q.op = "field" /\ Writable(q.seen.state, field[q.id].state)
  /\ subcategory[sub].state \in Alive
  /\ \E required \in BOOLEAN :
       field' = [field EXCEPT ![q.id] =
                   [state |-> "active", sub |-> sub, required |-> Written(q.seen.required, required, @.required)]]
  /\ Done(r) /\ UNCHANGED <<category, subcategory, ticket, priorityLog, moved>>

\* The live rows below a category or a subcategory.
SubsOf(cats) == {s \in Subcategory : subcategory[s].state \in Alive /\ subcategory[s].parent \in cats}
FieldsOf(subs) == {f \in Field : field[f].state \in Alive /\ field[f].sub \in subs}

\* Deleting goes through the ORM, which reads the rows below first.
Doom(r, cats, subs, fields) == Edit(r, [op |-> "delete", cats |-> cats, subs |-> subs, fields |-> fields])

DeleteCategory(r) ==
  \E c \in Category : category[c] \in Alive /\ Doom(r, {c}, SubsOf({c}), FieldsOf(SubsOf({c})))

DeleteSubcategory(r) ==
  \E s \in Subcategory : subcategory[s].state \in Alive /\ Doom(r, {}, {s}, FieldsOf({s}))

DeleteField(r) ==
  \E f \in Field : field[f].state \in Alive /\ Doom(r, {}, {}, {f})

\* A slip: the foreign keys of the tickets without ON DELETE SET NULL.
Dangling(t, cats, subs) == t

\* ON DELETE SET NULL
Released(t, cats, subs) ==
  [t EXCEPT !.category = IF @ \in cats THEN None ELSE @, !.subcategory = IF @ \in subs THEN None ELSE @]

\* The rows that were read are deleted, and by ON DELETE CASCADE those that
\* hang below them by now.  A row that is already gone is passed over.
CommitDelete(r) ==
  LET q == req[r]
      subs   == q.subs \cup SubsOf(q.cats)
      fields == q.fields \cup FieldsOf(subs) IN
  /\ q.op = "delete"
  /\ category' = [c \in Category |-> IF c \in q.cats THEN "gone" ELSE category[c]]
  /\ subcategory' = [s \in Subcategory |-> IF s \in subs THEN [state |-> "gone", parent |-> None] ELSE subcategory[s]]
  /\ field' = [f \in Field |-> IF f \in fields THEN [state |-> "gone", sub |-> None, required |-> FALSE] ELSE field[f]]
  /\ ticket' = [t \in Ticket |-> Released(ticket[t], q.cats, subs)]
  /\ Done(r) /\ UNCHANGED <<priorityLog, moved>>

-----------------------------------------------------------------------------
(* Tickets *)

\* A slip: a category and a subcategory are looked up, each on its own.
Chosen(c, s) ==
  /\ c # None => category[c] = "active"
  /\ s # None => c # None /\ subcategory[s].state = "active"

\* _validate_classification: what a new ticket may be filed under.
Classifiable(c, s) ==
  /\ c # None => category[c] = "active"
  /\ s # None => c # None /\ subcategory[s].state = "active" /\ subcategory[s].parent = c

\* All the required fields of the subcategory are answered, and no others
\* than its own.  (The answers become metadata rows: TicketRelations.)
Answerable(s, answers) ==
  /\ answers \subseteq FieldsOf({s} \ {None})
  /\ \A f \in FieldsOf({s} \ {None}) : field[f].required => f \in answers

CreateTicket(r) ==
  \E t \in Ticket, c \in Category \cup {None}, s \in Subcategory \cup {None}, answers \in SUBSET Field :
    /\ ~ticket[t].filed
    /\ \A other \in Request : req[other].op = "create" => req[other].id # t
    /\ Classifiable(c, s) /\ Answerable(s, answers)
    /\ Serve(r, [op |-> "create", id |-> t, category |-> c, subcategory |-> s])

\* The foreign keys of a row are checked as it is written.
Referable(c, s) ==
  /\ c # None => category[c] \in Alive
  /\ s # None => subcategory[s].state \in Alive

\* The ticket and its TICKET_CREATED row, with the priority of the payload.
InsertTicket(r) ==
  \E p \in Priority :
    LET q == req[r]
        row == [Unfiled EXCEPT !.filed = TRUE, !.category = q.category, !.subcategory = q.subcategory,
                               !.priority = p] IN
    /\ q.op = "create" /\ Referable(q.category, q.subcategory) /\ Len(priorityLog) < MaxLog
    /\ ticket' = [ticket EXCEPT ![q.id] = row]
    /\ priorityLog' = Append(priorityLog, [ticket |-> q.id, old |-> None, new |-> p])
    /\ Done(r) /\ UNCHANGED <<catalogue, moved>>

\* Reviewing and change_priority begin by reading the ticket.
Review(r) ==
  \E t \in Ticket :
    /\ ticket[t].filed
    /\ Serve(r, [op |-> "review", id |-> t, category |-> ticket[t].category,
                 subcategory |-> ticket[t].subcategory, priority |-> ticket[t].priority])

\* A slip: the priority is written whatever it has become.
StillAny(seen, now) == TRUE

\* UPDATE ... WHERE priority = :seen RETURNING id
StillAsSeen(seen, now) == seen.priority = now.priority

\* A review may set any classification, which it does not validate, and a
\* priority; change_priority sets a priority alone.  What is asked for counts
\* when it differs from what was read.
CommitReview(r) ==
  \E c \in Category \cup {None}, s \in Subcategory \cup {None}, p \in Priority :
    LET q == req[r]
        now == ticket[q.id]
        raised == p # q.priority
        new == [now EXCEPT !.category = Written(q.category, c, @),
                           !.subcategory = Written(q.subcategory, s, @),
                           !.priority = IF raised THEN p ELSE @,
                           !.reviewed = @ \/ <<c, s>> # <<q.category, q.subcategory>>] IN
    /\ q.op = "review"
    /\ raised => StillAsSeen(q, now) /\ Len(priorityLog) < MaxLog
    /\ Referable(new.category, new.subcategory)
    /\ ticket' = [ticket EXCEPT ![q.id] = new]
    /\ priorityLog' = IF raised THEN Append(priorityLog, [ticket |-> q.id, old |-> q.priority, new |-> p])
                      ELSE priorityLog
    /\ Done(r) /\ UNCHANGED <<catalogue, moved>>

-----------------------------------------------------------------------------

Administer(r) ==
  \/ UpsertCategory(r) \/ UpsertSubcategory(r) \/ UpsertField(r)
  \/ CommitCategory(r) \/ CommitSubcategory(r) \/ CommitField(r)
  \/ DeleteCategory(r) \/ DeleteSubcategory(r) \/ DeleteField(r) \/ CommitDelete(r)

Handle(r) ==
  \/ CreateTicket(r) \/ InsertTicket(r)
  \/ Review(r) \/ CommitReview(r)

Next == \E r \in Request : Administer(r) \/ Handle(r) \/ Rollback(r)

Spec == Init /\ [][Next]_vars

-----------------------------------------------------------------------------
(* Properties *)

\* Nothing points at a row that is gone, in whatever order categories are
\* deleted, subcategories moved and tickets filed or reviewed: what hangs
\* below a deleted row goes with it, and tickets let go of it.
NothingDangles ==
  /\ \A s \in Subcategory : subcategory[s].state \in Alive => category[subcategory[s].parent] \in Alive
  /\ \A f \in Field : field[f].state \in Alive => subcategory[field[f].sub].state \in Alive
  /\ \A t \in Ticket : Referable(ticket[t].category, ticket[t].subcategory)

\* A ticket is filed under a subcategory of its own category, unless a
\* review reclassified it (which checks nothing) or an administrator has
\* moved the subcategory: deletions and races with them never separate the
\* two (_validate_classification).
FiledUnderItsCategory ==
  \A t \in Ticket :
    LET s == ticket[t].subcategory IN
    s # None => subcategory[s].parent = ticket[t].category \/ ticket[t].reviewed \/ s \in moved

\* The priority p of ticket t that the first n - 1 entries of the log tell: that
\* of the last one about t, and none before it is filed.
Tells(t, n, p) ==
  \/ p = None /\ \A i \in 1 .. n - 1 : priorityLog[i].ticket # t
  \/ \E i \in 1 .. n - 1 :
       /\ priorityLog[i].ticket = t /\ priorityLog[i].new = p
       /\ \A j \in i + 1 .. n - 1 : priorityLog[j].ticket # t

\* The trail of a ticket tells the true history of its priority: the first row
\* files it, each later one starts from where the one before it ended, and the
\* last ends at the priority the ticket has, although two requests may change
\* it from the same reading (the WHERE of _change_priority).
PriorityHistoryTrue ==
  /\ \A n \in 1 .. Len(priorityLog) : Tells(priorityLog[n].ticket, n, priorityLog[n].old)
  /\ \A t \in Ticket : Tells(t, Len(priorityLog) + 1, ticket[t].priority)

=============================================================================
