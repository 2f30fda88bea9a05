-------------------------- MODULE TicketIntake_proofs --------------------------
(***************************************************************************)
(* Theorems about TicketIntake for any catalogue, tickets, priorities and  *)
(* number of concurrent requests.                                          *)
(***************************************************************************)
EXTENDS TicketIntake, SequenceTheorems, TLAPS

SubRow == [state: {"unborn", "gone"}, parent: {None}] \cup [state: Alive, parent: Category]
FieldRow == [state: {"unborn", "gone"}, sub: {None}, required: BOOLEAN]
              \cup [state: Alive, sub: Subcategory, required: BOOLEAN]
TicketRow == [filed: BOOLEAN, category: Category \cup {None}, subcategory: Subcategory \cup {None},
              priority: Priority \cup {None}, reviewed: BOOLEAN]
Entry == [ticket: Ticket, old: Priority \cup {None}, new: Priority]

EditingCategory == [op: {"category"}, id: Category, seen: Life]
EditingSubcategory == [op: {"subcategory"}, id: Subcategory, seen: SubRow, parent: Category]
EditingField == [op: {"field"}, id: Field, seen: FieldRow, sub: Subcategory]
Deleting == [op: {"delete"}, cats: SUBSET Category, subs: SUBSET Subcategory, fields: SUBSET Field]
Creating == [op: {"create"}, id: Ticket, category: Category \cup {None}, subcategory: Subcategory \cup {None}]
Reviewing == [op: {"review"}, id: Ticket, category: Category \cup {None}, subcategory: Subcategory \cup {None},
              priority: Priority \cup {None}]
Req == {Idle} \cup EditingCategory \cup EditingSubcategory \cup EditingField \cup Deleting \cup Creating \cup Reviewing

TypeOK ==
  /\ category \in [Category -> Life] /\ subcategory \in [Subcategory -> SubRow] /\ field \in [Field -> FieldRow]
  /\ ticket \in [Ticket -> TicketRow] /\ priorityLog \in Seq(Entry)
  /\ req \in [Request -> Req] /\ moved \subseteq Subcategory /\ edits \in Nat

\* What the transactions in progress rely on: a ticket that is created is not
\* there yet and is created once, one that is reviewed is there, and the
\* subcategory chosen for a new ticket still belongs to its category unless
\* it was moved or deleted.
Pending ==
  /\ \A t \in Ticket : ~ticket[t].filed => ticket[t].priority = None
  /\ \A r \in Request :
       /\ req[r].op = "create" => ~ticket[req[r].id].filed
       /\ req[r].op = "review" => ticket[req[r].id].filed
       /\ req[r].op = "create" /\ req[r].subcategory # None =>
            LET s == req[r].subcategory IN
            /\ subcategory[s].state # "unborn"
            /\ subcategory[s].parent = req[r].category \/ s \in moved \/ subcategory[s].state = "gone"
  /\ \A r, x \in Request : req[r].op = "create" /\ req[x].op = "create" /\ req[r].id = req[x].id => r = x

Inv == TypeOK /\ Pending /\ NothingDangles /\ FiledUnderItsCategory

\* What a transaction remembers, by its kind.
LEMMA Shape ==
  ASSUME TypeOK, NEW r \in Request
  PROVE  /\ req[r].op = "category" => req[r] \in EditingCategory
         /\ req[r].op = "subcategory" => req[r] \in EditingSubcategory
         /\ req[r].op = "field" => req[r] \in EditingField
         /\ req[r].op = "delete" => req[r] \in Deleting
         /\ req[r].op = "create" => req[r] \in Creating
         /\ req[r].op = "review" => req[r] \in Reviewing
<1>1. req[r] \in Req
  BY DEF TypeOK
<1>2. /\ Idle.op = "idle"
      /\ \A q \in EditingCategory : q.op = "category"
      /\ \A q \in EditingSubcategory : q.op = "subcategory"
      /\ \A q \in EditingField : q.op = "field"
      /\ \A q \in Deleting : q.op = "delete"
      /\ \A q \in Creating : q.op = "create"
      /\ \A q \in Reviewing : q.op = "review"
  BY DEF Idle, EditingCategory, EditingSubcategory, EditingField, Deleting, Creating, Reviewing
<1> QED
  BY <1>1, <1>2 DEF Req

LEMMA IdleType == Idle \in Req /\ Idle.op = "idle"
BY DEF Idle, Req

\* None is no row's id, and the states of live rows are not the others.
LEMMA Distinct ==
  /\ None \notin Category /\ None \notin Subcategory
  /\ "unborn" \notin Alive /\ "gone" \notin Alive /\ Alive \subseteq Life
BY IntakeAssumption DEF Alive, Life

\* A row's reference is a real one exactly when the row is alive.
LEMMA Rows ==
  /\ \A x \in SubRow : /\ x.state \in Alive <=> x.parent \in Category
                       /\ x.state \in Life /\ x.parent \in Category \cup {None}
  /\ \A x \in FieldRow : /\ x.state \in Alive <=> x.sub \in Subcategory
                         /\ x.state \in Life /\ x.sub \in Subcategory \cup {None} /\ x.required \in BOOLEAN
<1>1. \A x \in SubRow : /\ x.state \in Alive <=> x.parent \in Category
                        /\ x.state \in Life /\ x.parent \in Category \cup {None}
  BY Distinct DEF SubRow, Life
<1>2. \A x \in FieldRow : /\ x.state \in Alive <=> x.sub \in Subcategory
                          /\ x.state \in Life /\ x.sub \in Subcategory \cup {None} /\ x.required \in BOOLEAN
  BY Distinct DEF FieldRow, Life
<1> QED
  BY <1>1, <1>2

LEMMA InitInv == Init => Inv
<1> SUFFICES ASSUME Init PROVE Inv
  OBVIOUS
<1>1. Unfiled \in TicketRow /\ ~Unfiled.filed /\ Unfiled.priority = None
      /\ Unfiled.category = None /\ Unfiled.subcategory = None
  BY IntakeAssumption DEF Unfiled, TicketRow
<1>2. category \in [Category -> Life] /\ \A c \in Category : category[c] \in {"unborn", "active"}
  BY DEF Init, Life, Alive
<1>3. subcategory \in [Subcategory -> SubRow]
      /\ \A s \in Subcategory : subcategory[s].state \in Alive => category[subcategory[s].parent] = "active"
  <2>1. subcategory \in [Subcategory -> [state: {"unborn"}, parent: {None}] \cup
                                        [state: {"active"}, parent: {c \in Category : category[c] = "active"}]]
    BY DEF Init
  <2> QED
    BY <2>1, Distinct DEF SubRow, Alive
<1>4. field \in [Field -> FieldRow]
      /\ \A f \in Field : field[f].state \in Alive => subcategory[field[f].sub].state = "active"
  <2>1. field \in [Field -> [state: {"unborn"}, sub: {None}, required: {FALSE}] \cup
                            [state: {"active"}, sub: {s \in Subcategory : subcategory[s].state = "active"},
                             required: BOOLEAN]]
    BY DEF Init
  <2> QED
    BY <2>1, Distinct DEF FieldRow, Alive
<1>5. /\ ticket = [t \in Ticket |-> Unfiled] /\ priorityLog = <<>> /\ req = [r \in Request |-> Idle]
      /\ moved = {} /\ edits = 0
  BY DEF Init
<1>6. TypeOK
  BY <1>1, <1>2, <1>3, <1>4, <1>5, IdleType DEF TypeOK
<1>7. Pending
  BY <1>1, <1>5, IdleType DEF Pending
<1>8. NothingDangles
  BY <1>1, <1>3, <1>4, <1>5 DEF NothingDangles, Referable, Alive
<1>9. FiledUnderItsCategory
  BY <1>1, <1>5 DEF FiledUnderItsCategory
<1> QED
  BY <1>6, <1>7, <1>8, <1>9 DEF Inv
-----------------------------------------------------------------------------
(* Reading                                                                 *)

LEMMA LoadStep ==
  ASSUME Inv, NEW r \in Request, NEW q \in Req, Load(r, q), edits' \in Nat,
         q.op = "create" =>
           /\ ~ticket[q.id].filed
           /\ \A x \in Request : req[x].op = "create" => req[x].id # q.id
           /\ q.subcategory # None => /\ subcategory[q.subcategory].state = "active"
                                      /\ subcategory[q.subcategory].parent = q.category,
         q.op = "review" => ticket[q.id].filed
  PROVE  Inv'
<1>0. TypeOK /\ Pending /\ NothingDangles /\ FiledUnderItsCategory
  BY DEF Inv
<1>1. /\ req' \in [Request -> Req]
      /\ \A x \in Request : req'[x] = IF x = r THEN q ELSE req[x]
  BY <1>0 DEF Load, TypeOK
<1>2. UNCHANGED <<category, subcategory, field, ticket, priorityLog, moved>>
  BY DEF Load, catalogue
<1>3. TypeOK'
  BY <1>0, <1>1, <1>2 DEF TypeOK
<1>4. Pending'
  BY <1>0, <1>1, <1>2 DEF Pending
<1>5. NothingDangles' /\ FiledUnderItsCategory'
  BY <1>0, <1>2 DEF NothingDangles, Referable, FiledUnderItsCategory
<1> QED
  BY <1>3, <1>4, <1>5 DEF Inv

LEMMA EditLoads ==
  ASSUME Inv, NEW r \in Request, NEW q \in Req, q.op \notin {"create", "review"}, Edit(r, q)
  PROVE  Inv'
<1>1. Load(r, q) /\ edits' \in Nat
  BY DEF Edit, Inv, TypeOK
<1> QED
  BY <1>1, LoadStep

LEMMA UpsertStep ==
  ASSUME Inv, NEW r \in Request, UpsertCategory(r) \/ UpsertSubcategory(r) \/ UpsertField(r)
  PROVE  Inv'
<1>0. TypeOK
  BY DEF Inv
<1>1. ASSUME NEW c \in Category, Edit(r, [op |-> "category", id |-> c, seen |-> category[c]])
      PROVE  Inv'
  <2> DEFINE q == [op |-> "category", id |-> c, seen |-> category[c]]
  <2>1. q \in Req /\ q.op = "category"
    BY <1>0 DEF Req, EditingCategory, TypeOK
  <2> HIDE DEF q
  <2> QED
    BY <1>1, <2>1, EditLoads DEF q
<1>2. ASSUME NEW c \in Category, NEW s \in Subcategory,
             Edit(r, [op |-> "subcategory", id |-> s, seen |-> subcategory[s], parent |-> c])
      PROVE  Inv'
  <2> DEFINE q == [op |-> "subcategory", id |-> s, seen |-> subcategory[s], parent |-> c]
  <2>0. subcategory[s] \in SubRow
    BY <1>0 DEF TypeOK
  <2>1. q \in Req /\ q.op = "subcategory"
    BY <2>0 DEF Req, EditingSubcategory
  <2> HIDE DEF q
  <2> QED
    BY <1>2, <2>1, EditLoads DEF q
<1>3. ASSUME NEW s \in Subcategory, NEW f \in Field,
             Edit(r, [op |-> "field", id |-> f, seen |-> field[f], sub |-> s])
      PROVE  Inv'
  <2> DEFINE q == [op |-> "field", id |-> f, seen |-> field[f], sub |-> s]
  <2>0. field[f] \in FieldRow
    BY <1>0 DEF TypeOK
  <2>1. q \in Req /\ q.op = "field"
    BY <2>0 DEF Req, EditingField
  <2> HIDE DEF q
  <2> QED
    BY <1>3, <2>1, EditLoads DEF q
<1> QED
  BY <1>1, <1>2, <1>3 DEF UpsertCategory, UpsertSubcategory, UpsertField

LEMMA DoomStep ==
  ASSUME Inv, NEW r \in Request, DeleteCategory(r) \/ DeleteSubcategory(r) \/ DeleteField(r)
  PROVE  Inv'
<1>1. ASSUME NEW cats \in SUBSET Category, NEW subs \in SUBSET Subcategory, NEW fields \in SUBSET Field,
             Doom(r, cats, subs, fields)
      PROVE  Inv'
  <2> DEFINE q == [op |-> "delete", cats |-> cats, subs |-> subs, fields |-> fields]
  <2>1. q \in Req /\ q.op = "delete"
    BY DEF Req, Deleting
  <2>2. Edit(r, q)
    BY <1>1 DEF Doom
  <2> HIDE DEF q
  <2> QED
    BY <2>1, <2>2, EditLoads
<1>2. \A cats, subs : SubsOf(cats) \in SUBSET Subcategory /\ FieldsOf(subs) \in SUBSET Field
  BY DEF SubsOf, FieldsOf
<1>3. ASSUME NEW c \in Category, Doom(r, {c}, SubsOf({c}), FieldsOf(SubsOf({c})))
      PROVE  Inv'
  <2>1. {c} \in SUBSET Category
    OBVIOUS
  <2> QED
    BY <1>1, <1>2, <1>3, <2>1
<1>4. ASSUME NEW s \in Subcategory, Doom(r, {}, {s}, FieldsOf({s}))
      PROVE  Inv'
  <2>1. {} \in SUBSET Category /\ {s} \in SUBSET Subcategory
    OBVIOUS
  <2> QED
    BY <1>1, <1>2, <1>4, <2>1
<1>5. ASSUME NEW f \in Field, Doom(r, {}, {}, {f})
      PROVE  Inv'
  <2>1. {} \in SUBSET Category /\ {} \in SUBSET Subcategory /\ {f} \in SUBSET Field
    OBVIOUS
  <2> QED
    BY <1>1, <1>5, <2>1
<1> QED
  BY <1>3, <1>4, <1>5 DEF DeleteCategory, DeleteSubcategory, DeleteField

LEMMA CreateStep ==
  ASSUME Inv, NEW r \in Request, CreateTicket(r)
  PROVE  Inv'
<1>1. PICK t \in Ticket, c \in Category \cup {None}, s \in Subcategory \cup {None} :
         /\ ~ticket[t].filed
         /\ \A other \in Request : req[other].op = "create" => req[other].id # t
         /\ Classifiable(c, s)
         /\ Serve(r, [op |-> "create", id |-> t, category |-> c, subcategory |-> s])
  BY DEF CreateTicket
<1> DEFINE q == [op |-> "create", id |-> t, category |-> c, subcategory |-> s]
<1>2. q \in Req /\ q.op = "create" /\ q.id = t /\ q.category = c /\ q.subcategory = s
  BY DEF Req, Creating
<1>3. Load(r, q) /\ edits' \in Nat
  BY <1>1 DEF Serve, Inv, TypeOK
<1>4. s # None => subcategory[s].state = "active" /\ subcategory[s].parent = c
  BY <1>1 DEF Classifiable
<1> HIDE DEF q
<1> QED
  BY <1>1, <1>2, <1>3, <1>4, LoadStep

LEMMA ReviewStep ==
  ASSUME Inv, NEW r \in Request, Review(r)
  PROVE  Inv'
<1>1. PICK t \in Ticket :
         /\ ticket[t].filed
         /\ Serve(r, [op |-> "review", id |-> t, category |-> ticket[t].category,
                      subcategory |-> ticket[t].subcategory, priority |-> ticket[t].priority])
  BY DEF Review
<1> DEFINE q == [op |-> "review", id |-> t, category |-> ticket[t].category,
                 subcategory |-> ticket[t].subcategory, priority |-> ticket[t].priority]
<1>0. ticket[t] \in TicketRow
  BY DEF Inv, TypeOK
<1>2. q \in Req /\ q.op = "review" /\ q.id = t
  BY <1>0 DEF Req, Reviewing, TicketRow
<1>3. Load(r, q) /\ edits' \in Nat
  BY <1>1 DEF Serve, Inv, TypeOK
<1> HIDE DEF q
<1> QED
  BY <1>1, <1>2, <1>3, LoadStep
-----------------------------------------------------------------------------
(* Writing                                                                 *)

\* A transaction ends, one way or the other.
LEMMA Ends ==
  ASSUME TypeOK, NEW r \in Request, Done(r)
  PROVE  /\ req' \in [Request -> Req] /\ edits' = edits
         /\ \A x \in Request : req'[x] = IF x = r THEN Idle ELSE req[x]
BY IdleType DEF Done, TypeOK

LEMMA RollbackStep ==
  ASSUME Inv, NEW r \in Request, Rollback(r)
  PROVE  Inv'
<1>0. TypeOK /\ Pending /\ NothingDangles /\ FiledUnderItsCategory
  BY DEF Inv
<1>1. /\ req' \in [Request -> Req] /\ edits' = edits
      /\ \A x \in Request : req'[x] = IF x = r THEN Idle ELSE req[x]
  BY <1>0, Ends DEF Rollback
<1>2. UNCHANGED <<category, subcategory, field, ticket, priorityLog, moved>>
  BY DEF Rollback, catalogue
<1>3. TypeOK'
  BY <1>0, <1>1, <1>2 DEF TypeOK
<1>4. Pending'
  BY <1>0, <1>1, <1>2, IdleType DEF Pending
<1>5. NothingDangles' /\ FiledUnderItsCategory'
  BY <1>0, <1>2 DEF NothingDangles, Referable, FiledUnderItsCategory
<1> QED
  BY <1>3, <1>4, <1>5 DEF Inv

LEMMA CategoryStep ==
  ASSUME Inv, NEW r \in Request, CommitCategory(r)
  PROVE  Inv'
<1> DEFINE q == req[r]
<1>0. TypeOK /\ Pending /\ NothingDangles /\ FiledUnderItsCategory
  BY DEF Inv
<1>1. /\ req' \in [Request -> Req] /\ edits' = edits
      /\ \A x \in Request : req'[x] = IF x = r THEN Idle ELSE req[x]
  BY <1>0, Ends DEF CommitCategory
<1>2. UNCHANGED <<subcategory, field, ticket, priorityLog, moved>>
  BY DEF CommitCategory
<1>3. q.id \in Category /\ q.seen \in Life
  BY <1>0, Shape DEF CommitCategory, EditingCategory
<1>4. PICK to \in Alive : category' = [category EXCEPT ![q.id] = Written(q.seen, to, category[q.id])]
  BY DEF CommitCategory
<1>5. Written(q.seen, to, category[q.id]) \in Alive
  BY <1>4, Distinct DEF CommitCategory, Written, Writable
<1>6. /\ category' \in [Category -> Life]
      /\ \A c \in Category : category[c] \in Alive => category'[c] \in Alive
  BY <1>0, <1>3, <1>4, <1>5, Distinct DEF TypeOK
<1>7. TypeOK'
  BY <1>0, <1>1, <1>2, <1>6 DEF TypeOK
<1>8. Pending'
  BY <1>0, <1>1, <1>2, IdleType DEF Pending
<1>9. NothingDangles'
  <2>1. \A s \in Subcategory : subcategory[s].state \in Alive => subcategory[s].parent \in Category
    BY <1>0, Rows DEF TypeOK
  <2>2. \A t \in Ticket : ticket[t].category # None => ticket[t].category \in Category
    BY <1>0 DEF TypeOK, TicketRow
  <2> QED
    BY <1>0, <1>2, <1>6, <2>1, <2>2 DEF NothingDangles, Referable
<1>10. FiledUnderItsCategory'
  BY <1>0, <1>2 DEF FiledUnderItsCategory
<1> QED
  BY <1>7, <1>8, <1>9, <1>10 DEF Inv

LEMMA SubcategoryStep ==
  ASSUME Inv, NEW r \in Request, CommitSubcategory(r)
  PROVE  Inv'
<1> DEFINE q == req[r]
           s == req[r].id
           parent == Written(req[r].seen.parent, req[r].parent, subcategory[req[r].id].parent)
<1>0. TypeOK /\ Pending /\ NothingDangles /\ FiledUnderItsCategory
  BY DEF Inv
<1>1. /\ req' \in [Request -> Req] /\ edits' = edits
      /\ \A x \in Request : req'[x] = IF x = r THEN Idle ELSE req[x]
  BY <1>0, Ends DEF CommitSubcategory
<1>2. UNCHANGED <<category, field, ticket, priorityLog>>
  BY DEF CommitSubcategory
<1>3. s \in Subcategory /\ q.seen \in SubRow /\ q.parent \in Category
  BY <1>0, Shape DEF CommitSubcategory, EditingSubcategory
<1>4. PICK to \in Alive :
         subcategory' = [subcategory EXCEPT ![s] =
                           [state |-> Written(q.seen.state, to, subcategory[s].state), parent |-> parent]]
  BY DEF CommitSubcategory
<1>5. /\ Writable(q.seen.state, subcategory[s].state) /\ category[parent] \in Alive
      /\ moved' = IF subcategory[s].parent \in {None, parent} THEN moved ELSE moved \cup {s}
  BY DEF CommitSubcategory
<1>6. subcategory[s] \in SubRow
  BY <1>0, <1>3 DEF TypeOK
<1> DEFINE state == Written(q.seen.state, to, subcategory[s].state)
<1>7. state \in Alive
  BY <1>4, <1>5, Distinct DEF Written, Writable
<1>8. parent \in Category
  BY <1>3, <1>5, <1>6, Rows, Distinct DEF Written, Writable
<1> DEFINE row == [state |-> state, parent |-> parent]
<1>9. row \in SubRow /\ row.state = state /\ row.parent = parent
  BY <1>7, <1>8 DEF SubRow
<1>10. subcategory[s].state # "gone"
  BY <1>5, Distinct DEF Writable
<1> HIDE DEF row, state, parent
<1>11. subcategory' = [subcategory EXCEPT ![s] = row]
  BY <1>4 DEF row, state
<1> HIDE DEF s
<1>12. /\ subcategory' \in [Subcategory -> SubRow]
       /\ \A x \in Subcategory : subcategory'[x] = IF x = s THEN row ELSE subcategory[x]
  BY <1>0, <1>3, <1>9, <1>11 DEF TypeOK
<1>13. TypeOK'
  BY <1>0, <1>1, <1>2, <1>3, <1>5, <1>12 DEF TypeOK
<1>14. \A x \in Subcategory : /\ x \in moved => x \in moved'
                              /\ subcategory[x].state # "unborn" => subcategory'[x].state # "unborn"
                              /\ \/ subcategory'[x].parent = subcategory[x].parent /\ subcategory'[x].state = subcategory[x].state
                                 \/ x = s /\ subcategory'[x].parent = subcategory[x].parent
                                 \/ x = s /\ x \in moved'
                                 \/ subcategory[x].state = "unborn"
  <2>1. subcategory[s].parent = None => subcategory[s].state = "unborn"
    BY <1>6, <1>10, Rows, Distinct DEF Life
  <2> QED
    BY <1>5, <1>7, <1>9, <1>12, <2>1, Distinct
<1>15. Pending'
  <2>1. \A x \in Request : req[x].op = "create" /\ req[x].subcategory # None => req[x].subcategory \in Subcategory
    BY <1>0, Shape DEF Creating
  <2>2. \A x \in Request : req'[x].op = "create" /\ req'[x].subcategory # None =>
          /\ subcategory'[req'[x].subcategory].state # "unborn"
          /\ \/ subcategory'[req'[x].subcategory].parent = req'[x].category
             \/ req'[x].subcategory \in moved'
             \/ subcategory'[req'[x].subcategory].state = "gone"
    <3> TAKE x \in Request
    <3> HAVE req'[x].op = "create" /\ req'[x].subcategory # None
    <3>1. req'[x] = req[x]
      BY <1>1, IdleType
    <3>2. req[x].subcategory \in Subcategory
      BY <2>1, <3>1
    <3>3. /\ subcategory[req[x].subcategory].state # "unborn"
          /\ \/ subcategory[req[x].subcategory].parent = req[x].category
             \/ req[x].subcategory \in moved
             \/ subcategory[req[x].subcategory].state = "gone"
      BY <1>0, <3>1 DEF Pending
    <3> QED
      BY <1>10, <1>14, <3>1, <3>2, <3>3
  <2>3. \A t \in Ticket : ~ticket'[t].filed => ticket'[t].priority = None
    BY <1>0, <1>2 DEF Pending
  <2>4. \A x \in Request : /\ req'[x].op = "create" => ~ticket'[req'[x].id].filed
                           /\ req'[x].op = "review" => ticket'[req'[x].id].filed
    BY <1>0, <1>1, <1>2, IdleType DEF Pending
  <2>5. \A x, y \in Request : req'[x].op = "create" /\ req'[y].op = "create" /\ req'[x].id = req'[y].id => x = y
    BY <1>0, <1>1, IdleType DEF Pending
  <2> QED
    BY <2>2, <2>3, <2>4, <2>5 DEF Pending
<1>16. NothingDangles'
  <2>1. \A x \in Subcategory : subcategory'[x].state \in Alive => category[subcategory'[x].parent] \in Alive
    BY <1>0, <1>5, <1>9, <1>12 DEF NothingDangles
  <2>2. \A x \in Subcategory : subcategory[x].state \in Alive => subcategory'[x].state \in Alive
    BY <1>7, <1>9, <1>12
  <2>3. \A f \in Field : field[f].state \in Alive => field[f].sub \in Subcategory
    BY <1>0, Rows DEF TypeOK
  <2>4. \A t \in Ticket : ticket[t].subcategory # None => ticket[t].subcategory \in Subcategory
    BY <1>0 DEF TypeOK, TicketRow
  <2> QED
    BY <1>0, <1>2, <2>1, <2>2, <2>3, <2>4 DEF NothingDangles, Referable
<1>17. FiledUnderItsCategory'
  <2>1. \A t \in Ticket : ticket[t].subcategory # None =>
          ticket[t].subcategory \in Subcategory /\ subcategory[ticket[t].subcategory].state \in Alive
    BY <1>0 DEF TypeOK, TicketRow, NothingDangles, Referable
  <2> QED
    BY <1>0, <1>2, <1>14, <2>1, Distinct DEF FiledUnderItsCategory
<1> QED
  BY <1>13, <1>15, <1>16, <1>17 DEF Inv

LEMMA FieldStep ==
  ASSUME Inv, NEW r \in Request, CommitField(r)
  PROVE  Inv'
<1> DEFINE q == req[r]
           f == req[r].id
           sub == Written(req[r].seen.sub, req[r].sub, field[req[r].id].sub)
<1>0. TypeOK /\ Pending /\ NothingDangles /\ FiledUnderItsCategory
  BY DEF Inv
<1>1. /\ req' \in [Request -> Req] /\ edits' = edits
      /\ \A x \in Request : req'[x] = IF x = r THEN Idle ELSE req[x]
  BY <1>0, Ends DEF CommitField
<1>2. UNCHANGED <<category, subcategory, ticket, priorityLog, moved>>
  BY DEF CommitField
<1>3. f \in Field /\ q.seen \in FieldRow /\ q.sub \in Subcategory
  BY <1>0, Shape DEF CommitField, EditingField
<1>4. PICK required \in BOOLEAN :
         field' = [field EXCEPT ![f] =
                     [state |-> "active", sub |-> sub, required |-> Written(q.seen.required, required, field[f].required)]]
  BY DEF CommitField
<1>5. Writable(q.seen.state, field[f].state) /\ subcategory[sub].state \in Alive
  BY DEF CommitField
<1>6. field[f] \in FieldRow
  BY <1>0, <1>3 DEF TypeOK
<1>7. sub \in Subcategory
  BY <1>3, <1>5, <1>6, Rows, Distinct DEF Written, Writable
<1> DEFINE needed == Written(q.seen.required, required, field[f].required)
           row == [state |-> "active", sub |-> sub, required |-> needed]
<1>8. needed \in BOOLEAN
  BY <1>6, Rows DEF Written
<1>9. row \in FieldRow /\ row.state = "active" /\ row.sub = sub
  BY <1>7, <1>8 DEF FieldRow, Alive
<1> HIDE DEF row, needed, sub
<1>10. field' = [field EXCEPT ![f] = row]
  BY <1>4 DEF row, needed
<1> HIDE DEF f
<1>11. /\ field' \in [Field -> FieldRow]
       /\ \A x \in Field : field'[x] = IF x = f THEN row ELSE field[x]
  BY <1>0, <1>3, <1>9, <1>10 DEF TypeOK
<1>12. TypeOK'
  BY <1>0, <1>1, <1>2, <1>11 DEF TypeOK
<1>13. Pending'
  BY <1>0, <1>1, <1>2, IdleType DEF Pending
<1>14. NothingDangles'
  BY <1>0, <1>2, <1>5, <1>9, <1>11 DEF NothingDangles, Referable
<1>15. FiledUnderItsCategory'
  BY <1>0, <1>2 DEF FiledUnderItsCategory
<1> QED
  BY <1>12, <1>13, <1>14, <1>15 DEF Inv

LEMMA DeleteStep ==
  ASSUME Inv, NEW r \in Request, CommitDelete(r)
  PROVE  Inv'
<1> DEFINE q == req[r]
           subs == req[r].subs \cup SubsOf(req[r].cats)
           fields == req[r].fields \cup FieldsOf(subs)
<1>0. TypeOK /\ Pending /\ NothingDangles /\ FiledUnderItsCategory
  BY DEF Inv
<1>1. /\ req' \in [Request -> Req] /\ edits' = edits
      /\ \A x \in Request : req'[x] = IF x = r THEN Idle ELSE req[x]
  BY <1>0, Ends DEF CommitDelete
<1>2. UNCHANGED <<priorityLog, moved>>
  BY DEF CommitDelete
<1>3. /\ category' = [c \in Category |-> IF c \in q.cats THEN "gone" ELSE category[c]]
      /\ subcategory' = [s \in Subcategory |-> IF s \in subs THEN [state |-> "gone", parent |-> None] ELSE subcategory[s]]
      /\ field' = [f \in Field |-> IF f \in fields THEN [state |-> "gone", sub |-> None, required |-> FALSE] ELSE field[f]]
      /\ ticket' = [t \in Ticket |-> Released(ticket[t], q.cats, subs)]
  BY DEF CommitDelete
<1>4. \A s \in Subcategory : subcategory[s].state \in Alive /\ subcategory[s].parent \in q.cats => s \in subs
  BY DEF SubsOf
<1>5. \A f \in Field : field[f].state \in Alive /\ field[f].sub \in subs => f \in fields
  BY DEF FieldsOf
<1> HIDE DEF fields, subs
<1> DEFINE goneSub == [state |-> "gone", parent |-> None]
           goneField == [state |-> "gone", sub |-> None, required |-> FALSE]
<1>6. goneSub \in SubRow /\ goneSub.state = "gone" /\ goneField \in FieldRow /\ goneField.state = "gone"
  BY DEF SubRow, FieldRow
<1> HIDE DEF goneSub, goneField
<1>7. /\ category' \in [Category -> Life]
      /\ \A c \in Category : category'[c] = IF c \in q.cats THEN "gone" ELSE category[c]
  BY <1>0, <1>3 DEF TypeOK, Life
<1>8. /\ subcategory' \in [Subcategory -> SubRow]
      /\ \A s \in Subcategory : subcategory'[s] = IF s \in subs THEN goneSub ELSE subcategory[s]
  BY <1>0, <1>3, <1>6 DEF TypeOK, goneSub
<1>9. /\ field' \in [Field -> FieldRow]
      /\ \A f \in Field : field'[f] = IF f \in fields THEN goneField ELSE field[f]
  BY <1>0, <1>3, <1>6 DEF TypeOK, goneField
<1>10. \A x \in TicketRow :
         LET y == Released(x, q.cats, subs) IN
         /\ y \in TicketRow
         /\ y.category = IF x.category \in q.cats THEN None ELSE x.category
         /\ y.subcategory = IF x.subcategory \in subs THEN None ELSE x.subcategory
         /\ y.filed = x.filed /\ y.priority = x.priority /\ y.reviewed = x.reviewed
  BY DEF Released, TicketRow
<1>11. /\ ticket' \in [Ticket -> TicketRow]
       /\ \A t \in Ticket :
            /\ ticket'[t].category = IF ticket[t].category \in q.cats THEN None ELSE ticket[t].category
            /\ ticket'[t].subcategory = IF ticket[t].subcategory \in subs THEN None ELSE ticket[t].subcategory
            /\ ticket'[t].filed = ticket[t].filed /\ ticket'[t].priority = ticket[t].priority
            /\ ticket'[t].reviewed = ticket[t].reviewed
  BY <1>0, <1>3, <1>10 DEF TypeOK
<1>12. TypeOK'
  BY <1>0, <1>1, <1>2, <1>7, <1>8, <1>9, <1>11 DEF TypeOK
<1>13. \A x \in Request : /\ req[x].op \in {"create", "review"} => req[x].id \in Ticket
                          /\ req[x].op = "create" /\ req[x].subcategory # None => req[x].subcategory \in Subcategory
  BY <1>0, Shape DEF Creating, Reviewing
<1>14. Pending'
  BY <1>0, <1>1, <1>2, <1>6, <1>8, <1>11, <1>13, IdleType DEF Pending
<1>15. NothingDangles'
  <2>1. \A s \in Subcategory : subcategory'[s].state \in Alive =>
          /\ subcategory'[s] = subcategory[s] /\ subcategory[s].state \in Alive /\ s \notin subs
          /\ subcategory[s].parent \in Category /\ subcategory[s].parent \notin q.cats
    BY <1>0, <1>4, <1>6, <1>8, Rows, Distinct DEF TypeOK
  <2>2. \A f \in Field : field'[f].state \in Alive =>
          /\ field'[f] = field[f] /\ field[f].state \in Alive
          /\ field[f].sub \in Subcategory /\ field[f].sub \notin subs
    BY <1>0, <1>5, <1>6, <1>9, Rows, Distinct DEF TypeOK
  <2>3. \A s \in Subcategory : subcategory'[s].state \in Alive => category'[subcategory'[s].parent] \in Alive
    BY <1>0, <1>7, <2>1 DEF NothingDangles
  <2>4. \A f \in Field : field'[f].state \in Alive => subcategory'[field'[f].sub].state \in Alive
    BY <1>0, <1>8, <2>2 DEF NothingDangles
  <2>5. \A t \in Ticket : /\ ticket'[t].category # None => category'[ticket'[t].category] \in Alive
                          /\ ticket'[t].subcategory # None => subcategory'[ticket'[t].subcategory].state \in Alive
    <3> TAKE t \in Ticket
    <3>1. ticket[t].category \in Category \cup {None} /\ ticket[t].subcategory \in Subcategory \cup {None}
      BY <1>0 DEF TypeOK, TicketRow
    <3>2. /\ ticket[t].category # None => category[ticket[t].category] \in Alive
          /\ ticket[t].subcategory # None => subcategory[ticket[t].subcategory].state \in Alive
      BY <1>0 DEF NothingDangles, Referable
    <3> QED
      BY <1>7, <1>8, <1>11, <3>1, <3>2
  <2> QED
    BY <2>3, <2>4, <2>5 DEF NothingDangles, Referable
<1>16. FiledUnderItsCategory'
  <2>1. ASSUME NEW t \in Ticket, ticket'[t].subcategory # None
        PROVE  \/ subcategory'[ticket'[t].subcategory].parent = ticket'[t].category
               \/ ticket'[t].reviewed \/ ticket'[t].subcategory \in moved'
    <3> DEFINE s == ticket[t].subcategory
    <3>1. ticket'[t].subcategory = s /\ s # None /\ s \notin subs
      BY <1>11, <2>1
    <3>2. s \in Subcategory /\ subcategory[s].state \in Alive
      BY <1>0, <3>1 DEF TypeOK, TicketRow, NothingDangles, Referable
    <3>3. subcategory'[s] = subcategory[s] /\ subcategory[s].parent \notin q.cats
      BY <1>4, <1>8, <3>1, <3>2
    <3>4. subcategory[s].parent = ticket[t].category \/ ticket[t].reviewed \/ s \in moved
      BY <1>0, <3>1 DEF FiledUnderItsCategory
    <3> QED
      BY <1>2, <1>11, <3>1, <3>3, <3>4
  <2> QED
    BY <2>1 DEF FiledUnderItsCategory
<1> QED
  BY <1>12, <1>14, <1>15, <1>16 DEF Inv

\* A ticket's row is written by the transaction that ends.
LEMMA WriteStep ==
  ASSUME Inv, NEW r \in Request, Done(r), UNCHANGED <<category, subcategory, field, moved>>,
         priorityLog' \in Seq(Entry), req[r].op \in {"create", "review"},
         NEW row \in TicketRow, ticket' = [ticket EXCEPT ![req[r].id] = row],
         row.filed, Referable(row.category, row.subcategory),
         row.subcategory # None =>
           subcategory[row.subcategory].parent = row.category \/ row.reviewed \/ row.subcategory \in moved
  PROVE  Inv'
<1> DEFINE t == req[r].id
<1>0. TypeOK /\ Pending /\ NothingDangles /\ FiledUnderItsCategory
  BY DEF Inv
<1>1. /\ req' \in [Request -> Req] /\ edits' = edits
      /\ \A x \in Request : req'[x] = IF x = r THEN Idle ELSE req[x]
  BY <1>0, Ends
<1>2. t \in Ticket
  BY <1>0, Shape DEF Creating, Reviewing
<1>3. /\ ticket' \in [Ticket -> TicketRow]
      /\ \A x \in Ticket : ticket'[x] = IF x = t THEN row ELSE ticket[x]
  BY <1>0, <1>2 DEF TypeOK
<1>4. TypeOK'
  BY <1>0, <1>1, <1>3 DEF TypeOK
<1>5. \A x \in Request : req[x].op \in {"create", "review"} => req[x].id \in Ticket
  BY <1>0, Shape DEF Creating, Reviewing
<1>6. \A x \in Request : x # r /\ req[x].op = "create" => req[x].id # t
  BY <1>0 DEF Pending
<1> HIDE DEF t
<1>7. Pending'
  BY <1>0, <1>1, <1>3, <1>5, <1>6, IdleType DEF Pending
<1>8. NothingDangles'
  BY <1>0, <1>3 DEF NothingDangles, Referable
<1>9. FiledUnderItsCategory'
  BY <1>0, <1>3 DEF FiledUnderItsCategory
<1> QED
  BY <1>4, <1>7, <1>8, <1>9 DEF Inv

\* What an insert writes.
LEMMA InsertedRow ==
  ASSUME Inv, NEW r \in Request, InsertTicket(r)
  PROVE  \E row \in TicketRow, p \in Priority :
           /\ ticket' = [ticket EXCEPT ![req[r].id] = row]
           /\ row.filed /\ row.category = req[r].category /\ row.subcategory = req[r].subcategory
           /\ row.priority = p
           /\ priorityLog' = Append(priorityLog, [ticket |-> req[r].id, old |-> None, new |-> p])
<1>0. PICK p \in Priority :
         LET q == req[r]
             row == [Unfiled EXCEPT !.filed = TRUE, !.category = q.category, !.subcategory = q.subcategory,
                                    !.priority = p] IN
         /\ ticket' = [ticket EXCEPT ![q.id] = row]
         /\ priorityLog' = Append(priorityLog, [ticket |-> q.id, old |-> None, new |-> p])
  BY Zenon DEF InsertTicket
<1> DEFINE q == req[r]
           row == [Unfiled EXCEPT !.filed = TRUE, !.category = q.category, !.subcategory = q.subcategory,
                                  !.priority = p]
<1>1. q \in Creating
  BY Shape DEF InsertTicket, Inv
<1>2. q.category \in Category \cup {None} /\ q.subcategory \in Subcategory \cup {None}
  BY <1>1 DEF Creating
<1>3. Unfiled \in TicketRow
  BY IntakeAssumption DEF Unfiled, TicketRow
<1>4. /\ row \in TicketRow /\ row.filed /\ row.category = q.category /\ row.subcategory = q.subcategory
      /\ row.priority = p
  BY <1>2, <1>3 DEF TicketRow
<1>5. /\ ticket' = [ticket EXCEPT ![q.id] = row]
      /\ priorityLog' = Append(priorityLog, [ticket |-> q.id, old |-> None, new |-> p])
  BY <1>0
<1> HIDE DEF row
<1> QED
  BY <1>4, <1>5

LEMMA InsertStep ==
  ASSUME Inv, NEW r \in Request, InsertTicket(r)
  PROVE  Inv'
<1> DEFINE q == req[r]
<1>0. TypeOK /\ Pending
  BY DEF Inv
<1>1. PICK row \in TicketRow, p \in Priority :
         /\ ticket' = [ticket EXCEPT ![q.id] = row]
         /\ row.filed /\ row.category = q.category /\ row.subcategory = q.subcategory
         /\ priorityLog' = Append(priorityLog, [ticket |-> q.id, old |-> None, new |-> p])
  BY InsertedRow
<1>2. /\ q.op = "create" /\ Referable(q.category, q.subcategory) /\ Done(r)
      /\ UNCHANGED <<category, subcategory, field, moved>>
  BY DEF InsertTicket, catalogue
<1>3. q.subcategory # None => subcategory[q.subcategory].parent = q.category \/ q.subcategory \in moved
  BY <1>0, <1>2, Distinct DEF Pending, Referable
<1>4. priorityLog' \in Seq(Entry)
  <2> DEFINE entry == [ticket |-> q.id, old |-> None, new |-> p]
  <2>1. q.id \in Ticket
    BY <1>0, <1>2, Shape DEF Creating
  <2>2. entry \in Entry
    BY <2>1 DEF Entry
  <2>3. priorityLog \in Seq(Entry) /\ priorityLog' = Append(priorityLog, entry)
    BY <1>0, <1>1 DEF TypeOK
  <2> HIDE DEF entry
  <2> QED
    BY <2>2, <2>3
<1> QED
  BY <1>1, <1>2, <1>3, <1>4, WriteStep

\* What a review writes.
LEMMA ReviewedRow ==
  ASSUME Inv, NEW r \in Request, CommitReview(r)
  PROVE  LET q == req[r] now == ticket[q.id] IN
         /\ q \in Reviewing /\ now \in TicketRow /\ now.filed
         /\ Done(r) /\ UNCHANGED <<category, subcategory, field, moved>>
         /\ \E row \in TicketRow, p \in Priority :
              /\ ticket' = [ticket EXCEPT ![q.id] = row]
              /\ row.filed /\ Referable(row.category, row.subcategory)
              /\ row.reviewed \/ /\ row.category = now.category /\ row.subcategory = now.subcategory
                                 /\ row.reviewed = now.reviewed
              /\ \/ row.priority = now.priority /\ UNCHANGED priorityLog
                 \/ /\ row.priority = p
                    /\ priorityLog' = Append(priorityLog, [ticket |-> q.id, old |-> now.priority, new |-> p])
<1>4. PICK c \in Category \cup {None}, s \in Subcategory \cup {None}, p \in Priority :
         LET q == req[r]
             now == ticket[q.id]
             raised == p # q.priority
             new == [now EXCEPT !.category = Written(q.category, c, @),
                                !.subcategory = Written(q.subcategory, s, @),
                                !.priority = IF raised THEN p ELSE @,
                                !.reviewed = @ \/ <<c, s>> # <<q.category, q.subcategory>>] IN
         /\ q.op = "review"
         /\ raised => StillAsSeen(q, now) /\ Len(priorityLog) < MaxLog
         /\ Referable(new.category, new.subcategory)
         /\ ticket' = [ticket EXCEPT ![q.id] = new]
         /\ priorityLog' = IF raised THEN Append(priorityLog, [ticket |-> q.id, old |-> q.priority, new |-> p])
                           ELSE priorityLog
         /\ Done(r) /\ UNCHANGED <<catalogue, moved>>
  BY Zenon DEF CommitReview
<1> DEFINE q == req[r]
           now == ticket[req[r].id]
<1>1. q \in Reviewing /\ q.op = "review"
  BY Shape DEF CommitReview, Inv
<1>2. now \in TicketRow /\ now.filed
  BY <1>1 DEF Inv, TypeOK, Pending, Reviewing
<1>3. Done(r) /\ UNCHANGED <<category, subcategory, field, moved>>
  BY DEF CommitReview, catalogue
<1> DEFINE raised == p # q.priority
           cat == Written(q.category, c, now.category)
           sub == Written(q.subcategory, s, now.subcategory)
           prio == IF raised THEN p ELSE now.priority
           rev == now.reviewed \/ <<c, s>> # <<q.category, q.subcategory>>
           row == [now EXCEPT !.category = cat, !.subcategory = sub, !.priority = prio, !.reviewed = rev]
<1>5. /\ cat \in Category \cup {None} /\ sub \in Subcategory \cup {None} /\ prio \in Priority \cup {None} /\ rev \in BOOLEAN
      /\ rev \/ (cat = now.category /\ sub = now.subcategory /\ rev = now.reviewed)
  BY <1>2 DEF Written, TicketRow
<1>6. /\ raised => q.priority = now.priority
      /\ Referable(row.category, row.subcategory) /\ ticket' = [ticket EXCEPT ![q.id] = row]
      /\ priorityLog' = IF raised THEN Append(priorityLog, [ticket |-> q.id, old |-> q.priority, new |-> p])
                        ELSE priorityLog
  BY <1>4 DEF StillAsSeen
<1> HIDE DEF cat, sub, rev
<1>7. /\ row \in TicketRow /\ row.filed /\ row.category = cat /\ row.subcategory = sub
      /\ row.priority = prio /\ row.reviewed = rev
  BY <1>2, <1>5 DEF TicketRow
<1> HIDE DEF row
<1>8. \/ row.priority = now.priority /\ UNCHANGED priorityLog
      \/ /\ row.priority = p
         /\ priorityLog' = Append(priorityLog, [ticket |-> q.id, old |-> now.priority, new |-> p])
  BY <1>6, <1>7
<1>9. row.reviewed \/ /\ row.category = now.category /\ row.subcategory = now.subcategory
                      /\ row.reviewed = now.reviewed
  BY <1>5, <1>7
<1> QED
  BY <1>1, <1>2, <1>3, <1>6, <1>7, <1>8, <1>9

LEMMA CommitReviewStep ==
  ASSUME Inv, NEW r \in Request, CommitReview(r)
  PROVE  Inv'
<1> DEFINE q == req[r]
           now == ticket[req[r].id]
<1>0. TypeOK /\ FiledUnderItsCategory
  BY DEF Inv
<1>1. q \in Reviewing /\ now \in TicketRow /\ Done(r) /\ UNCHANGED <<category, subcategory, field, moved>>
  BY ReviewedRow
<1>2. PICK row \in TicketRow, p \in Priority :
         /\ ticket' = [ticket EXCEPT ![q.id] = row]
         /\ row.filed /\ Referable(row.category, row.subcategory)
         /\ row.reviewed \/ /\ row.category = now.category /\ row.subcategory = now.subcategory
                            /\ row.reviewed = now.reviewed
         /\ \/ row.priority = now.priority /\ UNCHANGED priorityLog
            \/ /\ row.priority = p
               /\ priorityLog' = Append(priorityLog, [ticket |-> q.id, old |-> now.priority, new |-> p])
  BY ReviewedRow
<1>3. q.op = "review" /\ q.id \in Ticket
  BY <1>1 DEF Reviewing
<1> DEFINE entry == [ticket |-> q.id, old |-> now.priority, new |-> p]
<1>4. entry \in Entry
  BY <1>1, <1>3 DEF Entry, TicketRow
<1> HIDE DEF entry
<1>5. priorityLog' = priorityLog \/ priorityLog' = Append(priorityLog, entry)
  BY <1>2 DEF entry
<1>s. priorityLog \in Seq(Entry)
  BY <1>0 DEF TypeOK
<1>6. priorityLog' \in Seq(Entry)
  BY <1>4, <1>5, <1>s
<1>7. row.subcategory # None =>
        subcategory[row.subcategory].parent = row.category \/ row.reviewed \/ row.subcategory \in moved
  BY <1>0, <1>2, <1>3 DEF FiledUnderItsCategory
<1> QED
  BY <1>1, <1>2, <1>3, <1>6, <1>7, WriteStep

LEMMA InvStep == Inv /\ [Next]_vars => Inv'
<1> SUFFICES ASSUME Inv, [Next]_vars PROVE Inv'
  OBVIOUS
<1>1. CASE UNCHANGED vars
  BY <1>1 DEF vars, Inv, TypeOK, Pending, NothingDangles, Referable, FiledUnderItsCategory
<1>2. CASE Next
  BY <1>2, UpsertStep, DoomStep, CategoryStep, SubcategoryStep, FieldStep, DeleteStep, CreateStep, InsertStep,
     ReviewStep, CommitReviewStep, RollbackStep DEF Next, Administer, Handle
<1> QED
  BY <1>1, <1>2

\* Every table, log and transaction has its type.
THEOREM TypeCorrect == Spec => []TypeOK
<1>1. Inv => TypeOK
  BY DEF Inv
<1> QED
  BY InitInv, InvStep, <1>1, PTL DEF Spec

\* NothingDangles: deleting a catalogue row takes along what hangs below it and
\* releases the tickets, in whatever order edits and filings interleave.
THEOREM DanglingTheorem == Spec => []NothingDangles
<1>1. Inv => NothingDangles
  BY DEF Inv
<1> QED
  BY InitInv, InvStep, <1>1, PTL DEF Spec

\* FiledUnderItsCategory: only a review or a move of the subcategory separates a
\* ticket's subcategory from its category.
THEOREM FiledTheorem == Spec => []FiledUnderItsCategory
<1>1. Inv => FiledUnderItsCategory
  BY DEF Inv
<1> QED
  BY InitInv, InvStep, <1>1, PTL DEF Spec
-----------------------------------------------------------------------------
(* The history of priorities                                               *)

\* Appending to the log does not change what its older entries tell.
LEMMA Appended ==
  ASSUME TypeOK, NEW e \in Entry, priorityLog' = Append(priorityLog, e)
  PROVE  /\ Len(priorityLog') = Len(priorityLog) + 1
         /\ priorityLog'[Len(priorityLog) + 1] = e
         /\ \A n \in 1 .. Len(priorityLog) : priorityLog'[n] = priorityLog[n]
BY DEF TypeOK

\* What the first m entries of the log after the step tell.
ToldNext(t, m, p) ==
  \/ p = None /\ \A i \in 1 .. m : priorityLog'[i].ticket # t
  \/ \E i \in 1 .. m :
       /\ priorityLog'[i].ticket = t /\ priorityLog'[i].new = p
       /\ \A j \in i + 1 .. m : priorityLog'[j].ticket # t

\* One more change of a priority.
LEMMA HistoryStep ==
  ASSUME TypeOK, PriorityHistoryTrue, NEW t \in Ticket, NEW p \in Priority,
         priorityLog' = Append(priorityLog, [ticket |-> t, old |-> ticket[t].priority, new |-> p]),
         \A x \in Ticket : ticket'[x].priority = IF x = t THEN p ELSE ticket[x].priority
  PROVE  PriorityHistoryTrue'
<1> DEFINE e == [ticket |-> t, old |-> ticket[t].priority, new |-> p]
           N == Len(priorityLog)
<1>1. e \in Entry /\ e.ticket = t /\ e.old = ticket[t].priority /\ e.new = p
  BY DEF TypeOK, TicketRow, Entry
<1>2. N \in Nat
  BY DEF TypeOK
<1> HIDE DEF e
<1>3. /\ Len(priorityLog') = N + 1 /\ priorityLog'[N + 1] = e
      /\ \A n \in 1 .. N : priorityLog'[n] = priorityLog[n]
  BY <1>1, Appended DEF e
<1>h. /\ \A n \in 1 .. N : Tells(priorityLog[n].ticket, n, priorityLog[n].old)
      /\ \A x \in Ticket : Tells(x, N + 1, ticket[x].priority)
  BY DEF PriorityHistoryTrue
<1> HIDE DEF N
<1>4. ASSUME NEW x, NEW n \in 1 .. N + 1, NEW o, Tells(x, n, o)
      PROVE  ToldNext(x, n - 1, o)
  <2>1. /\ \A i \in 1 .. n - 1 : priorityLog'[i] = priorityLog[i]
        /\ \A i \in 1 .. n - 1 : \A j \in i + 1 .. n - 1 : priorityLog'[j] = priorityLog[j]
    BY <1>2, <1>3
  <2>2. CASE o = None /\ \A i \in 1 .. n - 1 : priorityLog[i].ticket # x
    <3>1. \A i \in 1 .. n - 1 : priorityLog'[i].ticket # x
      BY <2>1, <2>2
    <3> QED
      BY <2>2, <3>1 DEF ToldNext
  <2>3. ASSUME NEW i \in 1 .. n - 1, priorityLog[i].ticket = x, priorityLog[i].new = o,
               \A j \in i + 1 .. n - 1 : priorityLog[j].ticket # x
        PROVE  ToldNext(x, n - 1, o)
    <3>1. priorityLog'[i].ticket = x /\ priorityLog'[i].new = o
      BY <2>1, <2>3
    <3>2. \A j \in i + 1 .. n - 1 : priorityLog'[j].ticket # x
      BY <2>1, <2>3
    <3> QED
      BY <3>1, <3>2 DEF ToldNext
  <2> QED
    BY <1>4, <2>2, <2>3 DEF Tells
<1>5. ASSUME NEW n \in 1 .. N + 1
      PROVE  ToldNext(priorityLog'[n].ticket, n - 1, priorityLog'[n].old)
  <2>1. CASE n = N + 1
    BY <1>1, <1>2, <1>3, <1>4, <1>h, <2>1
  <2>2. CASE n # N + 1
    <3>1. n \in 1 .. N /\ priorityLog'[n] = priorityLog[n]
      BY <1>2, <1>3, <2>2
    <3> QED
      BY <1>4, <1>h, <3>1
  <2> QED
    BY <2>1, <2>2
<1>6. ASSUME NEW x \in Ticket
      PROVE  ToldNext(x, N + 1, ticket'[x].priority)
  <2>1. CASE x = t
    <3>1. N + 1 \in 1 .. N + 1 /\ \A j \in N + 1 + 1 .. N + 1 : FALSE
      BY <1>2
    <3>2. ticket'[x].priority = p
      BY <2>1
    <3> QED
      BY <1>1, <1>3, <2>1, <3>1, <3>2 DEF ToldNext
  <2>2. CASE x # t
    <3>1. N + 1 \in 1 .. N + 1 /\ N + 1 - 1 = N /\ ticket'[x].priority = ticket[x].priority
      BY <1>2, <2>2
    <3>2. ToldNext(x, N, ticket'[x].priority)
      <4> DEFINE n == N + 1
                 o == ticket[x].priority
      <4>1. Tells(x, n, o)
        BY <1>h
      <4>3. n \in 1 .. N + 1 /\ n - 1 = N
        BY <1>2
      <4>4. ticket'[x].priority = o
        BY <3>1
      <4> HIDE DEF n, o
      <4>2. ToldNext(x, n - 1, o)
        BY <1>4, <4>1, <4>3
      <4> QED
        BY <4>2, <4>3, <4>4
    <3>6. \A i \in 1 .. N + 1 : i \in 1 .. N \/ i = N + 1
      BY <1>2
    <3>3. priorityLog'[N + 1].ticket # x
      BY <1>1, <1>3, <2>2
    <3>4. CASE ticket'[x].priority = None /\ \A i \in 1 .. N : priorityLog'[i].ticket # x
      <4>1. \A i \in 1 .. N + 1 : priorityLog'[i].ticket # x
        BY <3>3, <3>4, <3>6
      <4> QED
        BY <3>4, <4>1 DEF ToldNext
    <3>5. ASSUME NEW i \in 1 .. N, priorityLog'[i].ticket = x, priorityLog'[i].new = ticket'[x].priority,
                 \A j \in i + 1 .. N : priorityLog'[j].ticket # x
          PROVE  ToldNext(x, N + 1, ticket'[x].priority)
      <4>1. i \in 1 .. N + 1
        BY <1>2
      <4>2. \A j \in i + 1 .. N + 1 : priorityLog'[j].ticket # x
        <5>1. \A j \in i + 1 .. N + 1 : j \in i + 1 .. N \/ j = N + 1
          BY <1>2
        <5> QED
          BY <3>3, <3>5, <5>1
      <4> QED
        BY <3>5, <4>1, <4>2 DEF ToldNext
    <3> QED
      BY <3>2, <3>4, <3>5 DEF ToldNext
  <2> QED
    BY <2>1, <2>2
<1>7. /\ \A n \in 1 .. Len(priorityLog') : ToldNext(priorityLog'[n].ticket, n - 1, priorityLog'[n].old)
      /\ \A x \in Ticket : ToldNext(x, Len(priorityLog') + 1 - 1, ticket'[x].priority)
  <2>1. N + 1 + 1 - 1 = N + 1
    BY <1>2
  <2> QED
    BY <1>3, <1>5, <1>6, <2>1
<1> QED
  <2>1. ASSUME NEW n \in 1 .. Len(priorityLog')
        PROVE  Tells(priorityLog[n].ticket, n, priorityLog[n].old)'
    BY <1>7, Zenon DEF Tells, ToldNext
  <2>2. ASSUME NEW x \in Ticket
        PROVE  Tells(x, Len(priorityLog) + 1, ticket[x].priority)'
    BY <1>7 DEF Tells, ToldNext
  <2> QED
    BY <2>1, <2>2 DEF PriorityHistoryTrue

LEMMA SameHistory ==
  ASSUME PriorityHistoryTrue, UNCHANGED priorityLog,
         \A x \in Ticket : ticket'[x].priority = ticket[x].priority
  PROVE  PriorityHistoryTrue'
BY DEF PriorityHistoryTrue, Tells

\* PriorityHistoryTrue: the audit trail of a ticket's priority has no gap, although
\* two requests may change it from the same reading.
THEOREM HistoryTheorem == Spec => []PriorityHistoryTrue
<1>1. Init => PriorityHistoryTrue
  BY DEF Init, PriorityHistoryTrue, Tells, Unfiled
<1>2. ASSUME Inv, PriorityHistoryTrue, NEW r \in Request, CommitReview(r)
      PROVE  PriorityHistoryTrue'
  <2> DEFINE q == req[r]
             now == ticket[req[r].id]
  <2>1. TypeOK /\ q.id \in Ticket
    BY <1>2, ReviewedRow DEF Inv, Reviewing
  <2>2. PICK row \in TicketRow, p \in Priority :
           /\ ticket' = [ticket EXCEPT ![q.id] = row]
           /\ \/ row.priority = now.priority /\ UNCHANGED priorityLog
              \/ /\ row.priority = p
                 /\ priorityLog' = Append(priorityLog, [ticket |-> q.id, old |-> now.priority, new |-> p])
    BY <1>2, ReviewedRow
  <2>3. \A x \in Ticket : ticket'[x] = IF x = q.id THEN row ELSE ticket[x]
    BY <2>1, <2>2 DEF TypeOK
  <2> QED
    BY <1>2, <2>1, <2>2, <2>3, HistoryStep, SameHistory
<1>3. ASSUME Inv, PriorityHistoryTrue, NEW r \in Request, InsertTicket(r)
      PROVE  PriorityHistoryTrue'
  <2>1. PICK row \in TicketRow, p \in Priority :
           /\ ticket' = [ticket EXCEPT ![req[r].id] = row] /\ row.priority = p
           /\ priorityLog' = Append(priorityLog, [ticket |-> req[r].id, old |-> None, new |-> p])
    BY <1>3, InsertedRow
  <2>2. TypeOK /\ req[r].id \in Ticket /\ ticket[req[r].id].priority = None
    BY <1>3, Shape DEF Inv, InsertTicket, Pending, Creating
  <2>3. \A x \in Ticket : ticket'[x] = IF x = req[r].id THEN row ELSE ticket[x]
    BY <2>1, <2>2 DEF TypeOK
  <2> QED
    BY <1>3, <2>1, <2>2, <2>3, HistoryStep
<1>4. ASSUME Inv, PriorityHistoryTrue, NEW r \in Request, CommitDelete(r)
      PROVE  PriorityHistoryTrue'
  <2>1. /\ ticket' = [t \in Ticket |-> Released(ticket[t], req[r].cats, req[r].subs \cup SubsOf(req[r].cats))]
        /\ UNCHANGED priorityLog
    BY <1>4 DEF CommitDelete
  <2>2. \A x \in TicketRow : \A cats, subs : Released(x, cats, subs).priority = x.priority
    BY DEF Released, TicketRow
  <2>3. ticket \in [Ticket -> TicketRow]
    BY <1>4 DEF Inv, TypeOK
  <2> QED
    BY <1>4, <2>1, <2>2, <2>3, SameHistory
<1>5. ASSUME NEW r \in Request, NEW q, Load(r, q)
      PROVE  UNCHANGED <<ticket, priorityLog>>
  BY <1>5 DEF Load
<1>6. ASSUME NEW r \in Request,
             \/ UpsertCategory(r) \/ UpsertSubcategory(r) \/ UpsertField(r)
             \/ DeleteCategory(r) \/ DeleteSubcategory(r) \/ DeleteField(r)
             \/ CreateTicket(r) \/ Review(r)
      PROVE  UNCHANGED <<ticket, priorityLog>>
  BY <1>5, <1>6 DEF UpsertCategory, UpsertSubcategory, UpsertField, DeleteCategory, DeleteSubcategory,
     DeleteField, CreateTicket, Review, Doom, Edit, Serve
<1>7. ASSUME NEW r \in Request, CommitCategory(r) \/ CommitSubcategory(r) \/ CommitField(r) \/ Rollback(r)
      PROVE  UNCHANGED <<ticket, priorityLog>>
  BY <1>7 DEF CommitCategory, CommitSubcategory, CommitField, Rollback
<1>8. UNCHANGED vars => UNCHANGED <<ticket, priorityLog>>
  BY DEF vars
<1>9. Inv /\ PriorityHistoryTrue /\ [Next]_vars => PriorityHistoryTrue'
  BY <1>2, <1>3, <1>4, <1>6, <1>7, <1>8, SameHistory DEF Next, Administer, Handle
<1> QED
  BY InitInv, InvStep, <1>1, <1>9, PTL DEF Spec

=============================================================================
