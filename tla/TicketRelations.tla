-------------------------- MODULE TicketRelations --------------------------
(***************************************************************************)
(* The side tables of a ticket: links, watchers and metadata.              *)
(*                                                                         *)
(* The three services look for the row of a key and then insert, update or *)
(* delete; the administration of metadata takes rows by id, too, and may   *)
(* give a row another key.  The look-up and the write are two statements;  *)
(* between them other requests commit.  The tables have a unique index on  *)
(* the key and a surrogate id: UPDATE and DELETE name the id, INSERT and a *)
(* new key meet the index.  An UPDATE that matches no row raises, a DELETE *)
(* that matches none does not.                                             *)
(***************************************************************************)
EXTENDS Naturals

CONSTANTS
  Ticket, User, Request,
  Link,        \* keys of ticket_links, with
  From, To,    \*   [Link -> Ticket]
  Type,        \*   [Link -> DOMAIN LinkTypes]
  Watch,       \* keys of ticket_watchers, with
  Watched,     \*   [Watch -> Ticket]
  Watching,    \*   [Watch -> User]
  Meta,        \* keys of ticket_metadatas, with
  Described,   \*   [Meta -> Ticket]
  Spelling,    \* the keys callers may send, Meta among them, with
  Lower,       \*   [Spelling -> Meta]: strip().lower()
  Text, On,    \* metadata values; the value of a link or a watcher
  Absent,      \* the value of a key without a row, and of a column not sent
  Viewer, Modifier,  \* [Ticket -> SUBSET User]: can_view_ticket, can_modify_ticket
  Admin,
  MaxId        \* bound on the rows ever inserted

LinkTypes == [parent_of |-> "child_of", blocks |-> "blocked_by",
              duplicates |-> "duplicate_of", relates_to |-> "relates_to"]

Key == Link \cup Watch \cup Meta
Value == Text \cup {On}
NoId == 0

ASSUME RelationsAssumption ==
  /\ From \in [Link -> Ticket] /\ To \in [Link -> Ticket] /\ Type \in [Link -> DOMAIN LinkTypes]
  /\ \A a, b \in Link : From[a] = From[b] /\ To[a] = To[b] /\ Type[a] = Type[b] => a = b
  /\ Watched \in [Watch -> Ticket] /\ Watching \in [Watch -> User]
  /\ Described \in [Meta -> Ticket] /\ Meta \subseteq Spelling
  /\ Lower \in [Spelling -> Meta] /\ \A k \in Meta : Lower[k] = k
  /\ Link \cap Watch = {} /\ Link \cap Meta = {} /\ Watch \cap Meta = {}
  /\ On \notin Text /\ Absent \notin Value \cup Key
  /\ Viewer \in [Ticket -> SUBSET User] /\ Modifier \in [Ticket -> SUBSET User]
  /\ MaxId \in Nat

VARIABLES
  rows,    \* the rows of the three tables
  lastId,  \* ids given so far
  req,     \* the requests in flight
  ok       \* [Request -> BOOLEAN]: the last answer was a success

vars == <<rows, lastId, req, ok>>

Row == [key: Key, id: 1..MaxId, value: Value]

\* What a handler keeps after its look-up: id and key of the row it found, and
\* the columns to send, which are those that differ from the loaded row.
Idle == [op |-> "none"]
Req == {Idle} \cup [op: {"insert"}, key: Key, value: Value]
              \cup [op: {"update"}, key: Meta, id: 1..MaxId, to: Meta \cup {Absent}, value: Text \cup {Absent}]
              \cup [op: {"delete"}, key: Key, id: 1..MaxId]

TypeOK ==
  /\ rows \subseteq Row /\ lastId \in 0..MaxId
  /\ req \in [Request -> Req] /\ ok \in [Request -> BOOLEAN]

Init ==
  /\ rows = {} /\ lastId = 0
  /\ req = [r \in Request |-> Idle] /\ ok = [r \in Request |-> TRUE]

RowsOf(k) == {row \in rows : row.key = k}

-----------------------------------------------------------------------------
(* The look-ups                                                            *)

Keep(r, q) ==
  /\ req[r] = Idle
  /\ req' = [req EXCEPT ![r] = q]
  /\ UNCHANGED <<rows, lastId, ok>>

\* Answered from the look-up: there is nothing to write.
Nothing(r) ==
  /\ req[r] = Idle
  /\ ok' = [ok EXCEPT ![r] = TRUE]
  /\ UNCHANGED <<rows, lastId, req>>

\* The row there is, or a new one.
AddOnce(r, k) ==
  IF RowsOf(k) # {} THEN Nothing(r)
  ELSE Keep(r, [op |-> "insert", key |-> k, value |-> On])

AddLink(r, u, k) ==
  /\ From[k] # To[k]
  /\ u \in Viewer[From[k]] \cap Modifier[From[k]] /\ u \in Viewer[To[k]]
  /\ AddOnce(r, k)

\* By id, which the caller has from the list; either end may be his.  The
\* second end is only loaded when the first is not his.
RemoveLink(r, u, row) ==
  /\ row.key \in Link
  /\ u \in Viewer[From[row.key]]
  /\ \/ u \in Modifier[From[row.key]]
     \/ u \in Viewer[To[row.key]] \cap Modifier[To[row.key]]
  /\ Keep(r, [op |-> "delete", key |-> row.key, id |-> row.id])

SelfOrAdmin(u, k) == (u = Watching[k] \/ u \in Admin) /\ u \in Viewer[Watched[k]]

AddWatcher(r, u, k) == SelfOrAdmin(u, k) /\ AddOnce(r, k)

\* The row is deleted by the id the look-up found; without a row the call is
\* a silent success.
DeleteOnce(r, k) ==
  \/ RowsOf(k) = {} /\ Nothing(r)
  \/ \E row \in RowsOf(k) : Keep(r, [op |-> "delete", key |-> k, id |-> row.id])

RemoveWatcher(r, u, k) == SelfOrAdmin(u, k) /\ DeleteOnce(r, k)

MayDescribe(u, k) == u \in Viewer[Described[k]] \cap Modifier[Described[k]]

MetaKey(s) == Lower[s]

\* The row that was found is given key k and value v.
Change(r, row, k, v) ==
  Keep(r, [op |-> "update", key |-> row.key, id |-> row.id,
           to |-> IF k = row.key THEN Absent ELSE k,
           value |-> IF v = row.value THEN Absent ELSE v])

Upsert(r, k, v) ==
  \/ RowsOf(k) = {} /\ Keep(r, [op |-> "insert", key |-> k, value |-> v])
  \/ \E row \in RowsOf(k) : Change(r, row, k, v)

SetMetadata(r, u, s, v) == MayDescribe(u, MetaKey(s)) /\ Upsert(r, MetaKey(s), v)

\* The key is looked for as it was sent.
DeleteMetadata(r, u, s) == MayDescribe(u, Lower[s]) /\ DeleteOnce(r, s)

\* admin_service: by ticket and key,
UpsertTicketMetadata(r, u, s, v) == u \in Admin /\ Upsert(r, MetaKey(s), v)

\* or by the row's id, which the list shows, with another key, value or both.
RenameTicketMetadata(r, u, row, s, v) ==
  /\ u \in Admin /\ row.key \in Meta
  /\ Described[MetaKey(s)] = Described[row.key]
  /\ Change(r, row, MetaKey(s), v)

DeleteTicketMetadata(r, u, row) ==
  /\ u \in Admin /\ row.key \in Meta
  /\ Keep(r, [op |-> "delete", key |-> row.key, id |-> row.id])

-----------------------------------------------------------------------------
(* The writes                                                              *)

Commit(r) ==
  /\ req' = [req EXCEPT ![r] = Idle]
  /\ ok' = [ok EXCEPT ![r] = TRUE]

\* A slip: the tables without their unique index.
InsertableAnywhere(k) == lastId < MaxId

\* The unique index.
Insertable(k) == lastId < MaxId /\ RowsOf(k) = {}

Insert(r) ==
  LET q == req[r] IN
  /\ q.op = "insert" /\ Insertable(q.key)
  /\ rows' = rows \cup {[key |-> q.key, id |-> lastId + 1, value |-> q.value]}
  /\ lastId' = lastId + 1
  /\ Commit(r)

Unchanged(q) == q.to = Absent /\ q.value = Absent

\* The row is still there, and the index admits its new key.
UpdateMatches(q) ==
  /\ \E row \in rows : row.id = q.id
  /\ \A row \in RowsOf(q.to) : row.id = q.id

Written(q, row) ==
  [row EXCEPT !.key = IF q.to = Absent THEN @ ELSE q.to, !.value = IF q.value = Absent THEN @ ELSE q.value]

\* No statement is sent for the loaded row; any other must match.
Update(r) ==
  LET q == req[r] IN
  /\ q.op = "update"
  /\ \/ Unchanged(q) /\ UNCHANGED rows
     \/ /\ ~Unchanged(q) /\ UpdateMatches(q)
        /\ rows' = {IF row.id = q.id THEN Written(q, row) ELSE row : row \in rows}
  /\ UNCHANGED lastId
  /\ Commit(r)

\* A slip: the DELETE names the key.
OtherKeys(q) == {row \in rows : row.key # q.key}

OtherIds(q) == {row \in rows : row.id # q.id}

Delete(r) ==
  /\ req[r].op = "delete"
  /\ rows' = OtherIds(req[r])
  /\ UNCHANGED lastId
  /\ Commit(r)

\* A violated index, an unmatched UPDATE, a dead worker.
Rollback(r) ==
  /\ req[r] # Idle
  /\ req' = [req EXCEPT ![r] = Idle]
  /\ ok' = [ok EXCEPT ![r] = FALSE]
  /\ UNCHANGED <<rows, lastId>>

-----------------------------------------------------------------------------
(* link_service.list_for_ticket                                            *)

\* A slip: the target's page shows the relation as the source's does.
IncomingSame(k) == Type[k]

Incoming(k) == LinkTypes[Type[k]]

\* The relations on t's page, each with the other ticket.
Page(t) ==
  {[relation |-> Type[row.key], other |-> To[row.key]] :
     row \in {x \in rows : x.key \in Link /\ From[x.key] = t}}
  \cup
  {[relation |-> Incoming(row.key), other |-> From[row.key]] :
     row \in {x \in rows : x.key \in Link /\ To[x.key] = t}}

-----------------------------------------------------------------------------
LookUp(r, u) ==
  \/ \E k \in Link : AddLink(r, u, k)
  \/ \E row \in rows : RemoveLink(r, u, row)
  \/ \E k \in Watch : AddWatcher(r, u, k) \/ RemoveWatcher(r, u, k)
  \/ \E s \in Spelling :
       \/ DeleteMetadata(r, u, s)
       \/ \E v \in Text : \/ SetMetadata(r, u, s, v) \/ UpsertTicketMetadata(r, u, s, v)
                          \/ \E row \in rows : RenameTicketMetadata(r, u, row, s, v)
  \/ \E row \in rows : DeleteTicketMetadata(r, u, row)

Next ==
  \E r \in Request : \/ \E u \in User : LookUp(r, u)
                     \/ Insert(r) \/ Update(r) \/ Delete(r)
                     \/ Rollback(r)

Spec == Init /\ [][Next]_vars

-----------------------------------------------------------------------------
(* Properties                                                              *)

\* Two first calls for the same link, watcher or metadata key never leave two
\* rows: the lists would show it twice, and removing one would not remove it.
OneRowPerKey == \A a, b \in rows : a.key = b.key => a = b

\* The two pages of a link tell the same story: what A is to B on B's page is
\* the inverse of what B is to A on A's.
PagesMirror ==
  \A s, t \in Ticket : \A rel \in DOMAIN LinkTypes :
     [relation |-> rel, other |-> t] \in Page(s)
       <=> [relation |-> LinkTypes[rel], other |-> s] \in Page(t)

\* The refinement mapping.  The entry of a key is the value of its row.
Entry(table, k) ==
  LET found == {row \in table : row.key = k}
  IN  IF found = {} THEN Absent ELSE (CHOOSE row \in found : TRUE).value

\* The key of the row with an id, wherever it has been moved.
KeysOf(table, id) == {row.key : row \in {x \in table : x.id = id}}

\* A removal whose row is gone has had its effect, through whoever removed the
\* row, and a change of nothing has; any other change of that row is lost.
Phase(table, q) ==
  LET key == CHOOSE k \in KeysOf(table, q.id) : TRUE IN
  CASE q.op = "none" -> [state |-> "idle"]
    [] q.op = "insert" -> [state |-> "add", key |-> q.key, value |-> q.value]
    [] q.op = "update" /\ ~Unchanged(q) ->
         IF KeysOf(table, q.id) = {} THEN [state |-> "lost"]
         ELSE [state |-> "change", key |-> key, to |-> q.to, value |-> q.value]
    [] q.op = "delete" /\ KeysOf(table, q.id) # {} -> [state |-> "remove", key |-> key]
    [] OTHER -> [state |-> "done"]

Entries == [k \in Key |-> Entry(rows, k)]
Phases  == [r \in Request |-> Phase(rows, req[r])]

Book == INSTANCE RowBook WITH book <- Entries, call <- Phases

\* Under every interleaving the calls are those of one book: adding is idempotent
\* and never overwrites, removing is idempotent and spares an entry made after
\* the one it had found, a change hits the entry it had found, under whatever key
\* that entry is by then, or fails, and a failed call changes nothing.
ImplementsBook == Book!Spec

-----------------------------------------------------------------------------
(* What does not hold: TLC refutes it as an invariant.                     *)

\* A call that found a row under a key writes the entry of that key: an
\* administrator may have renamed the row since.
FoundKeyStands ==
  \A r \in Request : req[r].op \in {"update", "delete"} =>
    \A row \in rows : row.id = req[r].id => row.key = req[r].key

=============================================================================
