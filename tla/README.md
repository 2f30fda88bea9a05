# Formal models of the Tickora backend

TLA+ models of the Python backend of Tickora (a ticketing system: Flask
endpoints over PostgreSQL, Redis, Keycloak, Kafka and an object store), the TLC
instances that check them, and theorems about them checked by TLAPS. Paths
below are relative to the repository; `workflow_service.py` is
`src/ticketing/service/workflow_service.py`, and so on. `PROJECT.json` lists,
definition by definition, the lines each one stands for.

```
tlc -workers 2 -config TicketWorkflow_races.cfg MCTicketWorkflow    # a run
tlapm TicketWorkflow_proofs.tla                                     # a proof
```

## 1. The system

| Component | State | Operations | Interacts with |
|---|---|---|---|
| Status table (`state_machine.py`) | none | which status an action may start from, where it leads | read by every workflow handler |
| Ticket workflow (`workflow_service.py`, `api/workflow.py`) | `tickets` (status, current sector, assignee, last active assignee, done_at, reopened_count, is_deleted), `ticket_assignees`, `ticket_sectors`, `ticket_status_history` | assign_sector, add/remove_sector, assign_to_me, assign_to_user (= reassign), add/remove_assignee, unassign, change_status, mark_done (= close), reopen, cancel, change_priority | role predicates, endorsements (`has_pending`), publishes tasks, writes audit and history rows |
| Role predicates (`iam/rbac.py`) | none | can_view, can_assign_to_me, can_mark_done, ... | evaluated on the ticket as loaded |
| Ticket service (`ticket_service.py`) | `tickets`, `ticket_metadata` | create, get, list, update, soft delete | workflow, beneficiaries, tasks |
| Endorsements (`endorsement_service.py`) | `ticket_endorsements` | request, claim, decide, inbox | blocks `done` in the workflow; tasks |
| Background tasks (`tasking/*`, `worker.py`) | `tasks`, a Kafka topic, the consumer group's offsets, the session's `after_commit_tasks` | publish, consume, mark_running/completed/failed, recover_orphans | every service publishes; handlers read the ticket |
| Database sessions (`common/db.py`) | the open transaction | commit, rollback, run the queued callbacks | all services |
| Notification handlers (`ticketing/notifications.py`) | `notifications`, mail | one handler per event | run by the worker or inline |
| Authentication (`iam/service.py`, `token_verifier.py`, `decorators.py`) | token and principal caches, JWKS, `users` | verify, upsert user, build principal | Keycloak, Redis |
| Redis helpers (`common/cache.py`, `rate_limiter.py`, `session_tracker.py`) | cached results, sliding windows, active sessions | cached_call, invalidate, check | endpoints |
| Notification API and SSE (`api/notifications.py`) | stream tickets, read flags, a pub/sub channel | list, mark read, stream | handlers publish |
| Comments, attachments | `ticket_comments`, `ticket_attachments`, objects | create, edit in a window, delete; presign, upload, register, delete | tasks, object store |
| Watchers, links, metadata | a row per triple | add, remove, set, list; upsert, rename and delete by the administration | unique constraints |
| Review (`review_service.py`) | none of its own | several workflow steps in one transaction | workflow |
| Administration, snippets, reference data, beneficiaries | their tables | create, update, list | principals |
| Monitor, dashboards | cached aggregates | read | status history, done_at |
| Audit | append-only rows, stamped with the start of their transaction | record, list | all services, same transaction |

### Which behaviours are hard

* **Read, then write.** A handler loads the ticket, checks its guards on the ORM
  object, and issues an `UPDATE ... WHERE` in READ COMMITTED. Anything may commit
  in between. Some WHERE clauses repeat the guards (`_apply_status`,
  `assign_to_me`), some repeat a part (`unassign`), some only the id
  (`add_assignee`, `remove_assignee`, `decide`, soft delete), and many do not ask
  whether the ticket has been deleted meanwhile (`update`, `review`,
  `change_priority`, the co-assignee endpoints).
* **The ORM refreshes what it holds.** An ORM-enabled UPDATE synchronises the
  loaded object, so a handler that reads `t.status` afterwards sees the new value.
* **A check in another table.** The pending endorsements are counted before, not
  in, the UPDATE that sets `done`.
* **Messages leave before the commit.** `publish()` commits a lifecycle row in a
  session of its own and gives the envelope to the producer while the request's
  transaction is open; when it waits for the broker and gives up, the envelope may
  have been delivered, and the task done.
* **At-least-once with auto-commit.** Offsets are committed periodically behind
  the consumer's back; workers crash, are stopped by SIGTERM inside a handler,
  and lose partitions; lifecycle rows are written blindly and their database
  errors are swallowed.
* **Look up, then insert.** Links, watchers, metadata, users, memberships and the
  catalogue look for a row and insert one if there is none; a unique index, where
  there is one, decides the race.
* **Several stores, no common transaction.** An account is disabled in Keycloak and
  then in the database; a file is in the object store and then registered; a token
  says one thing, the cached principal another, the `users` row a third.
* **Caches of caches.** A principal is cached per token beside the `is_active`
  flag that is not; a monitor overview is memoised from panels that are memoised
  themselves, under keys that stand for classes of users.
* **Side effects computed late.** The recipients of a comment's notification are
  worked out by a worker on the ticket as it is by then.

The full list, each at its line, is under `hazards` in `PROJECT.json`.

### What makes each component correct

* Workflow: one winner of a claim; every status change is a row of the handler's
  table *at the moment it commits*; the history is true; `done_at` marks exactly
  the done tickets; the assignee, his join row and `last_active` agree; a deleted
  ticket does not move (its details may change); a finished ticket returns only as
  a counted reopen.
* Endorsements: one claimant of a pool row, an entrusted row is never back in the
  pool, a decision is final, no ticket is done over a row the check has seen pending.
* Tasks: a final row tells the truth and is taken back only by who holds the task or
  gave up publishing it, no message is skipped, a message the broker has is eventually
  handled, an aborted request leaves no trace.
* Comments and attachments: only its author or an administrator changes a comment; the
  audit trail, as it is listed, ends at the body that is shown unless edits overlap; a
  deleted comment stays deleted; a private comment is notified to people who may
  read it by then; a registered file belongs to the comment's ticket and exists; the
  list and the download agree.
* Links, watchers, metadata: one row per key, idempotent calls, writes that hit the
  entry they found even if it has been renamed, and two pages of a link that mirror
  each other, under every interleaving.
* Accounts: one row per subject; a disabled account is not served, whatever is
  cached; a group lost before a token was issued is not used with that token; a
  spent stream ticket is gone; what was answered as disabled is disabled on both sides.
* Intake: no row points at a deleted one; a ticket's subcategory belongs to its
  category until somebody is allowed to separate them; the priority trail is a chain
  from the priority the ticket was filed with.
* Monitor: no answer contains a row its receiver was not entitled to when it was
  read, however many users share the cache entry; ages are bounded by the two layers.

## 2. The modules

| Module | What it is |
|---|---|
| `StateMachine` | the status sets and the two tables, as constant definitions |
| `TicketLifecycle` | **abstract**: a ticket as five variables and atomic transitions, no requests, no snapshots, no join tables |
| `TicketWorkflow` | **detailed**: one ticket and any number of concurrent requests; implements `TicketLifecycle` |
| `EndorsementDesk` | **abstract**: endorsement rows that are filed, claimed and decided in single steps |
| `TicketEndorsements` | extends `TicketWorkflow` with the endorsement rows, their requests, and the pending check; implements `EndorsementDesk` |
| `AtLeastOnce` | **abstract**: a mailbox that keeps a task until it has been handled |
| `TaskDelivery` | a publishing request, the lifecycle row, producer, broker, executors; implements `AtLeastOnce` |
| `TicketContent` | comments, attachments with the object store, recipients of comment notifications |
| `RowBook` | **abstract**: a book with one entry per key, idempotent calls, and writers that follow an entry when it is given another key |
| `TicketRelations` | **detailed**: links, watchers and metadata, the administration's renames included, as look-up and later write by row id; implements `RowBook` |
| `Accounts` | from a bearer token or an SSE ticket to a principal, and the administration of accounts and memberships |
| `TicketIntake` | creating, reviewing and reprioritising tickets while the catalogue is edited |
| `Monitor` | the panels over the visibility filter, and the two layers of cache |
| `MC*` | constants for TLC and symmetry sets |
| `*_proofs` | the theorems |

Each module with properties also has a few operators marked "a slip": the way a
plausible mistake would change the definition next to them. `PROJECT.json` names
them under `mutants`; with a slip in place of its definition TLC finds the
property violated, which shows that the property speaks about that code.

### TicketWorkflow

One ticket suffices: no handler relates two tickets, and the guards are all about
the ticket's own rows.

| Code | Model |
|---|---|
| the `tickets` row | `row`: status, sector, assignee, lastActive, doneAt (is the timestamp set), reopened, deleted; details (title, text, classification, priority and resolution in one) |
| `ticket_assignees`, its `is_primary` | `assignees`, `primaries` |
| `ticket_sectors` | `sectors` |
| a handler's local memory, the loaded object included | `req[r]` |
| load, visibility, predicate, guards | `<Op>Read(r, p, ...)` |
| the UPDATE with its WHERE, the join-table writes, commit | `<Op>Write(r)` |
| `_promote_remaining_assignee`, between the two | `Promote(r)` |
| 409 on zero rows, an exception, a killed process, a deadlock victim | `Rollback(r)` |
| `ticket_service.update`, `review`, `change_priority`, the resolution `_apply_status` writes on a ticket that is done already | `DescribeRead`, `DescribeWrite`: other details, WHERE id, deleted or not |
| reopen of a ticket in progress: `_apply_status` returns early, the UPDATE of the assignee follows | `ReturnRead`, `ReturnWrite` |
| ON DELETE SET NULL of the category columns | `Declassify`, at any time |

`_apply_status` is one action for its four callers; what they pass (the target and
the statuses allowed) is fixed in their `Read`. Conditions in a `Write` are those
of the WHERE clause and of nothing else, evaluated on `row` as it is then; values
written are those of `req[r]`, the snapshot, where the code computes them from the
object it loaded. That is what makes `remove_assignee` write back an old status
in the model as in the code. `reopened < MaxReopen` is the only bound in a guard.

The details are one value because no workflow guard reads them; they are in the row
so that it shows who writes it after a soft delete. What a review and a change of
the priority mean for classification and trail is in `TicketIntake`.

A transaction's effects appear at its commit, and the reads of one handler are
taken together at its load, with three exceptions that matter: the promotion's
query and the pending check have actions of their own, and `add_assignee`, which
touches `ticket_assignees` before it updates (or does not update) the ticket, may
have seen the join rows of its load or those of its commit (`JoinSeeing`). So two
rows can be flagged `is_primary`, an insert can meet the unique index, and the
flush of a flag can find its row gone (`PickHolds`). The other handlers write the
join tables after their UPDATE, whose row lock lasts until the commit.

`Logged(q)` is the history row a transaction inserts. The table is append-only and
no handler reads it, so it is a function of the request's memory and no variable.

`claims` is auxiliary: who has won `assign_to_me` since the ticket last had no
assignee. No guard reads it.

### TicketLifecycle and the refinement

`TicketLifecycle` says what an API client is told: transitions of the table, each
atomic, with bookkeeping (`Finish` stamps, `Reopen` counts and clears). In
`TicketWorkflow` it is instantiated with `status <- row.status`, `holder <-
row.assignee`, and so on; every commit must be one of its steps, every read,
promotion and rollback a stutter. The two handlers that write a status they do not
guard (`StaleWriters`: `unassign`, `remove_assignee`) are outside: with them the
refinement is false, see *Findings*. `StrayOnlyByStaleWriters` says how false: with
every endpoint in flight, a step of a ticket whose stamp is right is a step of the
lifecycle, a stutter, or a commit of one of those two, and such a commit leaves the
stamp, the count and the deletion alone.

### TicketEndorsements

`endo` are the endorsement rows, `ereq` the endorsement requests. A workflow step
is a step of `TicketWorkflow` that satisfies `Gate`: a request whose target is
`done` may commit only after `CheckPending(r)`, the query `has_pending`, took
place in between its `Read` and its `Write`. `claimants` and `seen` are auxiliary.
`decide()` flushes an ORM object: only columns whose value changed are written,
WHERE id, so the assignee column is written exactly when the row was in the pool
when loaded.

`EndorsementDesk` is instantiated with `desk <- endo` and `Judge` as the avizators
and administrators: a row is filed once, claimed from the pool while it pends,
decided by a judge, and from a claim or a decision on it is somebody's. It admits
what the code admits and the docstring of `decide()` does not: that a verdict is
replaced by another. `OverruledByRacer` narrows this to decisions that were in
flight when the first one committed.

### TaskDelivery

| Code | Model |
|---|---|
| the request's transaction | `tx[c]` |
| how far `publish()` is | `pub[t]`: `Register` (the lifecycle row, own transaction), then `Enqueue` (inline) or `Send` (Kafka), after which it waits for `Acknowledge` with `AwaitSend`; `Refuse` is `send` or the wait raising |
| `tasks.status`, age of its heartbeat | `row[t]`, `stale` |
| the producer's memory | `buffer`, drained by `Ship` or `Lose` |
| `session.info["after_commit_tasks"]` / messages above the committed offset | `due` |
| `run_inline` / `_process_message` | `Take`, `MarkRunning`, `Return`/`Raise`, `Finish` of an executor |
| auto-commit, SIGTERM, kill, start with `recover_orphans` | `AutoCommit`, `Stop`, `Crash`, `Start` |
| `_bump`: own transaction, errors swallowed | `Bump(t, s)` |

`Inline` is `INLINE_TASKS_IN_DEV`, `AwaitSend` the wait for the broker in
`DEV_MODE`. The envelope goes its way while the publisher waits, so when the wait
times out the task may be queued, in a worker's hands or done, and `Refuse` marks
its row failed all the same. `Faults` selects which faults an instance shows: `db`
(a lifecycle write fails), `raise`, `refuse` (send or its wait raises), `lose`,
`crash`, `stop`, `rebalance`, `keycloak` (the recipients cannot be asked for; the
handler returns with nobody notified). `MaxFail` bounds crashes and stops only.
`trace` is auxiliary; it tells `found` (the handler saw the ticket) from `notified`.

Messages are a set: partitions and the order within them are left out. A reader
above the committed offset may take any message it is not done with, so the model
allows every order Kafka does, and more. Auto-commit covers what the iterator has moved past.

`AtLeastOnce` is instantiated with `inbox <- due` and `handled` as the tasks with an
ended run. Over Kafka, and without `stop`, every step is an arrival, a handling, a
removal of handled tasks or a stutter: crashes, rebalances, redeliveries and offset
commits change nothing a client of the mailbox could see.

### TicketContent

| Code | Model |
|---|---|
| the ticket as `ticket_service.get` hydrates it, with the memberships | `ticket[t]`, one of the `Situations` an instance lists; `TicketMoves` changes it at any time |
| `ticket_comments` | `comment[c]`; `closed` is "EDIT_WINDOW has passed since created_at", set by `CloseWindow` |
| the `COMMENT_*` audit rows | `onRecord[c].end`: the row with the latest stamp among those that report a body; `onRecord[c].shown`: when the edit that is shown began and committed |
| `created_at = func.now()` of an audit row, the start of its transaction | `at`, the value of `quota` when the request began; `quota` counts down, so a smaller stamp is a later one |
| `ticket_attachments`, the bucket, presigned URLs | `attachment`, `stored`, `signed` |
| create, edit, delete, register, delete attachment | `<Op>` (load and guards) and `<Op>Commit` (flush and commit) |
| `request_upload_url`, the client's PUT, the ttl | `RequestUploadUrl`, `Upload`, `ExpireUrl` |
| `list_`, `_load_authorized` | `ListedComments`, `ListedAttachments`, `Fetchable`: operators, evaluated in every state |
| `publish()` over Kafka, before the commit, and inline, at the commit | `Send(r)`, which a rollback does not take back; `PublishOnCommit(r)` |
| `notify_comment`, `notify_mentions` | `Notify(m)` on a task of `outbox`, which may stay for a redelivery |

The flush of an edit sets only the columns whose value differs from the loaded one,
by primary key; that is why a late edit cannot bring a deleted comment back, and why
an edit to the loaded body neither writes nor reports anything.

### TicketRelations and RowBook

The three services share their shape, so a link, a watcher or a metadata key is a
`Key`, and a row is `[key, id, value]` with a surrogate id. A request is its look-up
(`AddLink`, `RemoveLink`, `AddWatcher`, `RemoveWatcher`, `SetMetadata`,
`DeleteMetadata`; of the administration `UpsertTicketMetadata`,
`RenameTicketMetadata`, `DeleteTicketMetadata`) and, when there is something to write,
`Insert`, `Update` or `Delete`, or `Rollback`. An INSERT and a new key meet the
unique index, an UPDATE must find its row, a DELETE need not. The ORM sends the
columns that differ from the loaded row: key, value, both, or no statement at all.
`Page(t)` is `list_for_ticket`.

`RowBook` is what the tables amount to: one value per key, a successful call takes
effect at one moment between its start and its answer, a failed one has none. A call
is about the *entry* it found: when `admin_service.upsert_ticket_metadata` gives that
row another key, whoever was about to change or remove it follows (`Follows`). A
stronger book, in which a call is about the key it named, is not implemented
(`FoundKeyStands`, see *Findings*). The mapping reads the entry of a key from its
row; the subtle parts are a removal whose row is already gone, which counts as served
by whoever removed it (`done`), even if somebody has made the entry again since, and
a change whose row is gone, which must fail (`lost`).

### Accounts

| Code | Model |
|---|---|
| Keycloak's groups and enabled flag | `kc` |
| access tokens with `sub`, `exp`, groups claim | `token`, made by `Issue` |
| `principal:<sub>:<jti>` in Redis; `sse_ticket:<id>` | `cache`, `sse`, both aged by `Tick` |
| `users`, `sector_memberships` | `users`, `member` |
| `_build_principal`: ticket or header, verify, cached principal, account check, find or insert, groups, store | `FetchTicket`/`Bearer`, `DeleteTicket`, `ReadCache`, `CheckAccount`, `FindUser`, `InsertUser`, `BuildPrincipal` |
| the endpoints | `Handle`, `CreateStreamTicket`, `OpenStream` |
| `update_user(is_active)`; `grant_membership`, `revoke_membership` | `SetActive`, `CommitActive`; `LoadMembership`, `WriteMembership` |

Every call to Redis may miss or fail, every call to Keycloak may go unanswered: a
failed read is the miss disjunct of `ReadCache`, a failed write the stutter of
`cache`, a failed Keycloak a smaller group set (`Granted`), an unchanged `kc`
(memberships, where the error is logged) or a `Refuse` (accounts, where it is not).
Auxiliary: `lost` (when a group was last removed), `banned`, and in a request
`alive` (the account was enabled at some moment since the request came in).

### TicketIntake

A request is one transaction, `req[r]`: the step that reads and the step that writes
(`Upsert*`/`Commit*`, `Delete*`/`CommitDelete`, `CreateTicket`/`InsertTicket`,
`Review`/`CommitReview`). `Written(seen, new, now)` is the unit of work: a column is
set only if it differs from what was loaded. The foreign keys with their ON DELETE
rules are `Referable` and `Released`; a delete takes the children the ORM has read
and those the database finds by then. A review may classify anew and change the
priority, the latter under `WHERE priority = :seen`; `change_priority` is the same
with the classification left alone. `InsertTicket` files with any priority the payload
may give. `priorityLog` has the rows of `TICKET_CREATED` and
`TICKET_PRIORITY_CHANGED` in the order of their commits; the audit list orders them
by the start of their transactions. `moved` and `reviewed` are auxiliary.

### Monitor

A panel is the set of ticket rows behind it; counts, groups and orders are
abstracted away. A value carries for whom it was computed and how long ago its rows
were read; cache entries carry their remaining life; `Tick` ages everything, and
`Patience` bounds the time a request takes. `Overview` and `Single` start a request
(`Allowed` are the endpoint guards), `ReadPanel` and `Memoise` are `cached_call` for
one memoised panel, `Reply` is the end, which memoises a whole overview.
`TicketMoves` is the workflow seen from here; before a ticket is routed only those
who pass `can_assign_to_me` without a current sector may take it (`Takers`).

## 3. The runs

All runs state `CHECK_DEADLOCK FALSE`: with the bounded counters, and once every
task is handled, the modelled scenario really is over.

| Run | Instance | Shows |
|---|---|---|
| `TicketWorkflow_races` | 2 requests; an admin and a member; one sector; 10 endpoints, the unguarded ones and the writers of the details included | `OneClaim`, `LegalMoves`, `TrueHistory`, `DeletedIsFrozen`, `StrayOnlyByStaleWriters` |
| `TicketWorkflow_lifecycle` | 2 requests; admin, chief, distributor; all endpoints but `StaleWriters` | `StampMeansDone`, `AssigneeJoined`, `HolderIsLastActive`, `ImplementsLifecycle` |
| `TicketEndorsements_races` | 1 workflow request, 2 endorsement requests, 2 rows; admin and an avizator | `OneClaimant`, `DoneSawDecisions`, `ImplementsDesk`, `OverruledByRacer` |
| `TaskDelivery_kafka` | 2 tasks of one request, 2 workers, every fault, `AwaitSend` | `VerdictEarned`, `NoneSkipped`, `FinalUntilRetaken` |
| `TaskDelivery_live` | the same without waiting for the broker; crash and rebalance; `FairSpec` | `EventuallyHandled`, `ImplementsMailbox` |
| `TaskDelivery_inline` | 3 tasks, 2 callers of which one creates its ticket | `AbortedLeavesNoTrace`, `CompletedHasFound` |
| `TicketContent_races` | 2 requests at a time, 3 in all; 2 tickets, 3 users, 1 comment with 3 bodies, 2 keys, 1 attachment | `BodyOnRecord`, `DeletedStaysDeleted`, `OnlyItsAuthor`, `PrivateStaysInside`, `AttachmentsSound`, `ListedIsFetchable` |
| `TicketRelations_races` | 2 requests; 1 link, 1 watcher, 2 metadata keys of which one has two spellings; an administrator who renames | `OneRowPerKey`, `PagesMirror`, `ImplementsBook` |
| `Accounts_caches` | 2 requests, 4 in all; 1 subject, 2 tokens, 1 membership, 1 SSE ticket, a root officer and a chief | `DisabledIsRefused`, `OneIdentity`, `RevokedByNextToken`, `TicketsAreSpent`, `BannedEverywhere` |
| `TicketIntake_races` | 2 requests; 2 categories, 2 subcategories, 1 field, 1 ticket | `NothingDangles`, `FiledUnderItsCategory`, `PriorityHistoryTrue` |
| `Monitor_caches` | 2 requests; an admin, a chief, a member; 2 sectors, 1 ticket | `AnswersWithinSight`, `AgesBounded`, `OverviewOwned` |
| `Monitor_overview` | two admins | refutes `OverviewIsMine` |

No run lists a `TypeOK` or `NeverBackToPool`. Each module has its type invariant and it
is proved, for every value of the constants (section 4), and `NeverBackToPool` follows
from `ImplementsDesk`; each can still be added to the `INVARIANT` or `PROPERTY` line of a
configuration.

### Bounds

* *Requests in flight: 2.* A handler remembers one snapshot and writes once, so
  a lost update needs one request to be overtaken by another; the second slot is
  free again after each commit, so a slow request is overtaken by any sequence of
  the others. The theorems hold for any number.
* *Users.* `races` needs two different users who both can claim; `lifecycle` needs
  the three ways to be allowed to route (admin, distributor, chief).
* *Endpoints.* `races` leaves out `change_status`, `cancel` and the sector endpoints,
  which go through the same `_apply_status` or write neither status nor assignee; they
  are in `lifecycle`. Two details tell "changed" from "unchanged".
* *One sector* in these runs: re-routing to the same sector goes through
  the same guards; a second sector multiplies the states and only adds the case
  in which a claim's `current_sector_id` clause fails, which is a `Rollback`.
* *`MaxReopen` 1*: a finished ticket returns once, so every status is reached
  again with a finished past.
* *`MaxFail` 1*: one crash or stop at every point; rebalances, raises and database
  errors are unbounded. Two workers make a rebalance; two tasks make one message's
  offset pass another's.
* *Content*: two requests meet on one comment, every other one finds it as they left
  it; two tickets and two keys make a file uploaded for the wrong ticket, three users
  somebody inside, somebody outside and an administrator. `MaxRequests` 3 is a
  create and two requests that race after it, which is what overlapping edits take;
  three bodies tell the created one from those of the two edits. The comment's ticket is
  held by the worker with the requester joined, or free; it is not deleted in this run,
  where a deletion only closes every guard.
* *Relations*: `MaxId` 3 rows ever inserted: a key is made, removed and made again
  while an old removal waits, with one row to spare for another key; two metadata keys
  are what a rename takes.
* *Accounts*: a token lives 2 ticks and a stream ticket 1 of the clock's 3, so a
  second token is issued after a change and both expire. `MaxRequests` 4 is two
  administrative calls around two authentications. One membership decides between
  "has the group" and "lost it"; two row ids make a second row possible.
* *Intake*: `MaxEdits` 2 and `MaxLog` 3: a deletion and a move, and the filing with two
  changes of its priority; the initial states are all catalogues, so no edit is spent on building one.
* *Monitor*: ttls 1, 2, 3 for overview, panel and global, so that each layer can
  outlive another; `MaxAsks` 2 and `MaxMoves` 1: one request fills the caches, the
  ticket moves, another reads. With more asks an entry is refilled, which resets its age.
* *Symmetry*: request slots, endorsement rows and slots, and workers are
  interchangeable. It is not used in the liveness run.

### Fairness

`EventuallyHandled` assumes `FairSpec`: weak fairness of `Ship(t) \/ Lose(t)` (the
producer's sender thread runs until it succeeds or gives up), `Execute(x)` (a worker that
runs goes on with its loop), `Start(x)` (the worker is a supervised container),
and `Age(t)` (time passes). Nothing is assumed of callers, of crashes, of the
offset commits, or of rebalances. Without `stop` among the faults: a worker that is
stopped inside a handler acknowledges the message it holds, and the property is
then false, as listed among the hazards.

## 4. What is proved

For every value of the constants that satisfies the assumptions of the modules
(`RolesAssumption`, `AvizatorAssumption`, `TaskAssumption`, `ContentAssumption`,
`RelationsAssumption`, `AccountsAssumption`, `IntakeAssumption`,
`MonitorAssumption`): roles are sets of users, sentinels are outside the sets they
stand beside, bounds are naturals and lifetimes of cache entries positive. Two say more: the
chiefs of a situation belong to the desk and the desk to the team
(`ContentAssumption`), and links are determined by their two ends and type and
normalising a spelling twice changes nothing (`RelationsAssumption`).

**TicketWorkflow_proofs**

* `TypeCorrect` (`TypeOK`). The type alone is not inductive: a write uses arguments
  that the type allows to be the sentinel. `WellFormed` says what each handler's
  memory really holds once its guards have passed; `TypeInv == TypeOK /\ Remembers`
  is inductive.
* `AtMostOneClaim` (`OneClaim`), from `ClaimInv`: a ticket without assignee has no
  claims outstanding. The claim's WHERE clause is what makes the step go through.
* `StampTheorem` (`StampMeansDone`) and `LifecycleTheorem` (`ImplementsLifecycle`),
  both under `Ops \cap StaleWriters = {}`. The stamp is inductive only together
  with `WellFormed`, which ties the remembered status to the remembered target. The
  refinement then has one step per write.
* `LastActiveTheorem` (`HolderIsLastActive`) and `JoinedTheorem` (`AssigneeJoined`),
  under the same assumption, from `HoldInv`. It adds that a status request never
  remembers a last active assignee other than the assignee (only he may reopen, so
  reopen's second UPDATE has nothing to do, `ReopensToHolder` and `NothingToReturn`),
  and that nobody is flagged while
  nobody holds the ticket, so an `add_assignee` that found a row must flag it and
  fails when parking has deleted it.
* `StrayTheorem` (`StrayOnlyByStaleWriters`): the same without the assumption. Its
  lemma `EndpointStep` classifies the step of every endpoint; `LifecycleTheorem` is the
  case in which the stray ones are not offered.
* `ReopenTheorem`: with every endpoint, a finished ticket returns to `in_progress` as a
  counted reopen with the stamp cleared, or by a stray commit (`ReopenCountedOrStray`);
  `ReopenCountedTheorem`: without `StaleWriters` it is always counted (`ReopenIsCounted`,
  the formula of finding 1). So these two handlers are the whole of that finding.
* `LegalMovesTheorem`, `TrueHistoryTheorem`, `DeletedTheorem`: action properties, for
  all endpoints; each rests on `OneCommit` (the request whose slot is freed with a
  changed row is the one that wrote) and on `TypeInv`. `DeletedTheorem` is about every
  writer of the row: a deleted ticket changes its details by the writers that go by id,
  status and assignee by the two co-assignee endpoints, and nothing else.

**TicketEndorsements_proofs**

* `Composition`: `ESpec => Spec`. The check only removes behaviours, so the theorems
  above hold of the composition; `WorkflowCarriesOver` states those that need no
  assumption. `ETypeCorrect` is its type invariant.
* `OneClaimantTheorem`, `DoneSawTheorem`, `PoolTheorem` (`NeverBackToPool`), from `EInv`: a row with a claimant is
  entrusted to somebody, an unfiled row to nobody, what a gated request has seen is decided.
* `AccountTheorem`: every verdict has an author who may judge, and its row is somebody's
  (`VerdictAccountable`). Inductive with `DeciderMay`: whoever is about to decide may,
  and if he did not find the row in the pool it is not there now, because no row returns.
* `DeskTheorem` (`ImplementsDesk`), from `AccountInv` and `DeskInv`: a request is about
  one row that was filed before it, and nobody signs a pending row. Its steps are one lemma
  per write.
* `OverruledTheorem` (`OverruledByRacer`), for any number of requests, and
  `DecidedOnceTheorem`: if endorsement requests do not overlap (at most one slot), a
  verdict is final (`DecidedOnce`). The race is thus the whole of finding 5, not some
  sequence of calls.

**TaskDelivery_proofs**, in both modes and under every set of faults unless said otherwise

* `TypeCorrect`, with `HasTask`: an executor at work has a task.
* `VerdictTheorem` (`VerdictEarned`). Strengthened with `OnRecord`: an executor in
  `returned` or `raised` has that event in the trace of its task; `TraceGrows` is a
  lemma of its own.
* `NoneSkippedTheorem` (`NoneSkipped`): everything an executor holds or is done with
  has been taken, and with `Inline` nothing arrives at a broker.
* `FinalTheorem` (`FinalUntilRetaken`), from `UnsentInv`: a task not yet sent has no final
  row, is in nobody's hands and not on its way, so `Register` and a `send` that raises
  cannot rewrite one; only the wait after `send` can.
* `InlineTheorem` (`AbortedLeavesNoTrace`) and `CompletedTheorem`
  (`CompletedHasFound`), under `Inline`: a task is taken only in a committed
  request (`OnlyCommitted`), hence a handler that returns has found its ticket
  (`ReturnedFound`).
* `MailboxTheorem` (`ImplementsMailbox`), over Kafka and without `stop`, from `MailInv`:
  what is due or in work has arrived, what an executor is done with has ended, what has
  arrived and not ended is due. The third is the promise; the second is why a committed
  offset removes handled tasks only, while a stop commits that of the message in work too.
* `StrandedTheorem` (`NeverStranded`), under the same assumptions, with `FreeWhenIdle`:
  a message that has arrived and not ended is in the hands of an executor or may be taken
  by every one. It is what the liveness property needs of the states, for any number of
  tasks and workers.
* `OnceTheorem` (`NeverTwice`), under `Inline`: a handler that was begun is never begun
  again, from `FreshInQueue` (what is queued has not been taken).
* `AloneTheorem` (`WorksAlone`), without `rebalance`: no two executors work on one task;
  inline because only the publishing request does (`OwnWork`), over Kafka because a
  partition has one reader.

**TicketContent_proofs**

* `TypeCorrect`, from `TypeInv == TypeOK /\ Refs`. `Refs` says what the requests in
  flight refer to: an edit or a deletion a comment that exists, a creation one that does not
  and that nobody else creates, a task a comment of the visibility it was published with.
* `RecordTheorem` (`BodyOnRecord`), from `Stamped`: every stamp, of a request under way or
  at the end of a trail, lies behind the clock; the row at the end began before the edit
  shown was committed, and after it began if the two bodies differ.
* `DeletedTheorem` (`DeletedStaysDeleted`), by the columns a flush may set.
* `AuthorTheorem` (`OnlyItsAuthor`), from `Rightful`: the guard was evaluated when the
  request loaded the comment, and holds at the flush because authors do not change.
* `AttachmentTheorem` (`AttachmentsSound`), from `Uploaded`: a register request also
  refers to an object that is stored and belongs to its ticket. Nothing removes a stored object.
* `FetchTheorem` (`ListedIsFetchable`): the two visibility rules compared case by case, in
  every situation of the ticket; a registered attachment's comment is public or private.
* `PrivateTheorem` (`PrivateStaysInside`): only `Notify` fills inboxes, on the ticket of
  that moment, by `Refs` its task knows that the comment is private, and its filter admits
  the desk only, which the assumption puts into the team.

**TicketRelations_proofs**

* `TypeCorrect`; `UniqueTheorem` (`OneRowPerKey`); `MirrorTheorem` (`PagesMirror`), from the
  inverse of `LinkTypes` being its own inverse.
* `BookTheorem` (`ImplementsBook`), from `BookInv == TypeInv /\ OneRowPerKey /\ IdsName`.
  `IdsName` is what writing by id rests on: an id is given once, so the row a request
  finds under it, if it is there, is the one of its look-up, under whatever key. Every
  look-up and rollback is then a step of the book or a stutter; an update that renames
  takes the calls about its row along (`Following`), a deletion ends them (`Missing`).

**Accounts_proofs**

* `TypeCorrect`, from `TypeInv == TypeOK /\ Issued` (tokens in use, cached or in a stream
  ticket have been issued) and `Addressed` (who is being administered has a row).
* `IdentityTheorem` (`OneIdentity`), from `Rows`: rows differ in subject and in id, and a
  principal, cached or held by a request, names the row of its token's subject.
* `RefusedTheorem` (`DisabledIsRefused`), from `Awake`: a request at work has seen its
  account enabled, or the account is disabled now; past the account check it has seen it.
* `SpentTheorem` (`TicketsAreSpent`), from `Spent`: whoever came with a stream ticket and is
  past its deletion leaves it gone, and gone it stays.
* `RevokedTheorem` (`RevokedByNextToken`), from `Effective`: the groups in claims, in cached
  principals and in requests were all had at or after their token was issued.
* `BannedTheorem` (`BannedEverywhere`), from `Quarantine`: while a disabling is clean, no
  request is about to enable the row, and Keycloak has it disabled already.

**TicketIntake_proofs**

* `TypeCorrect`, `DanglingTheorem` (`NothingDangles`) and `FiledTheorem`
  (`FiledUnderItsCategory`), from `Inv == TypeOK /\ Pending /\ NothingDangles /\
  FiledUnderItsCategory`. `Pending` is what a transaction relies on between its two steps:
  the subcategory chosen for a new ticket still belongs to the category, or was moved or deleted.
* `HistoryTheorem` (`PriorityHistoryTrue`): the first entry is the filing, later ones are
  appended in the step that writes over the priority they found, so what the log tells (`Tells`) stays what the ticket has.

**Monitor_proofs**

* `SightTheorem` (`AnswersWithinSight`) and `AgeTheorem` (`AgesBounded`), both from one
  invariant, `Inv`. A cached panel may be given to all who ask under its key
  (`Shared`), because those who have equal keys have equal sectors or see everything
  (`SharedOverview`, `MemoisedShared`); age plus remaining life of an entry never exceeds
  its ttl and `Patience`, and those of an overview add its own ttl to that of its panels.
* `OwnedTheorem` (`OverviewOwned`), from `OwnInv`: an overview being computed is its
  user's, one in the cache is of somebody with that key, and outside the global classes
  the key names the user.
* `OverviewTheorem`: if no two administrators or auditors have the same roles and sectors,
  `OverviewIsMine` holds. The hypothesis is the case the finding needs, so the shared
  global entry is the only way to somebody else's section.

**Only model-checked.** `EventuallyHandled`: liveness under fairness, and `ENABLED`,
are out of the prover's reach and stay with TLC; so does induction over data, of
which these modules have none. Every other property of a passing run is the subject
of a theorem. `MailboxTheorem` and `StrandedTheorem` are as much of `EventuallyHandled` as
can be said without fairness: TLC supplies the progress, on two tasks and two workers.
No module uses a `RECURSIVE` operator. The findings are counterexamples and need no proof.

## 5. Findings

**With a run.** `Monitor_overview` refutes `OverviewIsMine`: administrators and
auditors share the cache key `monitor:overview:global` (`monitor_service.py:39`), and
the payload's `personal` section is the one of the caller for whom it was computed.
The endpoint is documented as per-principal; for up to a ttl a second administrator
is shown the first one's queue as his own.

**Without a run.** The modules keep these formulas as definitions; TLC refutes each
when it is given as a property under the configuration named.

1. *A finished ticket can come back uncounted* (`ReopenIsCounted`,
   `TicketWorkflow_races`). `_unassign` and `remove_assignee` have no status guard.
   Done ticket, two assignees, unassign the first: the other is promoted, the status
   is `in_progress`, `done_at` stays set, `reopened_count` is unchanged
   (`workflow_service.py:742`).
2. *Leaving `pending` is not logged* (`LeavingPendingLogged`, `TicketWorkflow_races`).
   `_assign_sector` and `_assign_to_me` read the old status from the object after the
   UPDATE has refreshed it; the distributor panel's `reviewed_today` looks for
   `old_status = 'pending'` and is always empty.
3. *A co-assignee cannot drive the ticket* (`AssigneesCanDrive`,
   `TicketWorkflow_races`). `assignee_user_ids` holds (id, name) pairs, and the
   predicate looks for an id.
4. *A pending endorsement on a done ticket* (`PendingBlocksDone`,
   `TicketEndorsements_races`): filed between the check and the UPDATE.
5. *A decision replaces a decision* (`DecidedOnce`, `TicketEndorsements_races`):
   `decide()` checks the loaded row and flushes by id.
6. *A rolled-back request's task runs* over Kafka (`AbortedLeavesNoTrace`,
   `TaskDelivery_kafka`), against the comment in `assign_to_me`.
7. *A completed task has notified nobody* (`CompletedHasNotified`,
   `TaskDelivery_inline`): `notify_distributors` logs Keycloak's failure, finds no
   recipients and returns (`notifications.py:46-51`), against "Notify all distributors
   and admins about a new ticket" (line 21).
8. *The trail of a comment ends at another body than the one shown* (`TrailEndsAtBody`,
   `TicketContent_races`). Audit rows carry the start of their transaction; of two edits
   under way at once, the one that began first may be flushed last.
9. *A notification about a comment that does not exist* (`AnnouncedExists`,
   `TicketContent_races`): over Kafka the task leaves before the commit.
10. *A metadata call hits another key* (`FoundKeyStands`, `TicketRelations_races`). An
    administrator renames the row between the look-up and the write of a set or delete,
    which goes by the row's id and answers with success for the old key.

**Seen in a model or while reading.**

* Workflow: `add_assignee` as secondary decides on its snapshot that nobody holds the
  ticket and can replace a claimant; a promotion does not update `last_active`, so a
  later reopen may return the ticket to somebody who left it, and a reopen of a ticket
  in progress takes it from its holder for that person; a deleted ticket can still be
  retitled, reprioritised and given another assignee by requests in flight; `remove_sector` can drop
  the join row of a sector that has become primary meanwhile; `unassign` with a
  promotion logs a reversed pair; the row `_denied` writes is rolled back by the
  exception that follows; `features/workflow.feature` lets a beneficiary reopen a
  done ticket, `can_reopen` lets the assignee only. `update` writes an audit row only
  if its snapshot differs, and the text is not part of the snapshot.
* Tasks: a stopped worker acknowledges the message it was working on; swept rows and
  lost messages stay `pending` for ever; a redelivery takes a row from `completed`
  back to `running` and notifies twice; a publisher whose wait for the broker times out
  turns `completed` into `failed` for a task that was delivered and done, and aborts.
* Content: a co-assignee who is mentioned in a private comment is notified, though
  the web path does not let him read it; a watcher who can no longer see a ticket
  still gets its public notifications; `notify_ticket_event` does not filter by
  visibility; attachments of a deleted comment stay listed and fetchable; the
  documentation calls the edit window configurable, it is a constant.
* Relations: metadata keys are normalised by `set_` but not by `delete`, so a delete
  in another spelling is a silent success; deleting metadata does not ask whether the
  answer is a required field of the subcategory.
* Accounts: when Keycloak does not answer, a principal without its groups is cached
  for the life of the token; the SSE ticket is fetched and deleted by two commands, so
  two requests can be served by one ticket; `update_user` with `is_active` and roles
  from a chief is refused after Keycloak has already been changed.
* Intake: moving a subcategory leaves its tickets under another category; a review
  does not validate what it sets; the review's private comment or closing, refused to
  a distributor who is not the assignee, undoes the whole review; two first tickets of
  a user may make two beneficiary rows.
* Monitor: `_visibility_filter` compares the requester's e-mail exactly, `rbac` without
  case; `auto_configure_dashboard` stores a primary sector nobody has validated.

## 6. What is not modelled, and why

* Workflow: the audit rows and assignment history a handler writes (append-only,
  no guard reads them); `ticket_sectors.is_primary` (no handler reads it); what
  reopen writes on a ticket in progress beside the assignee (its comment, its
  assignment row, the task it publishes); `added_at` (the promoted assignee
  is any of the remaining); `sectors.is_active` and missing rows (a request for one
  ends as a 4xx); the membership table, which is taken to say what the principal's
  token says. Row locks and deadlocks: a victim is a `Rollback`.
* Ticket service: what `update` writes (its text is one of the `details`), the
  paging and sorting of `list_`.
* Tasks: partitions, `heartbeat()` (it has no caller), the admin read API.
* Notifications: the recipients of events other than comments, the mail stub, read
  flags (idempotent single-row updates), pub/sub to an open stream (at most once, no
  acknowledgement).
* Review: its steps are those of the other modules; that a later one may be refused
  and undo the whole is the `Rollback` of `TicketIntake`.
* Administration: sectors, realm roles, password reset, metadata key definitions,
  settings, widget definitions: single-row writes behind a role check.
* Monitor: counting and grouping, and the bottleneck analysis, which only reads the
  history. Redis: the sliding-window limiter, one pipeline per request, and the
  presence keys.
* Dashboards, snippets, reference data, beneficiaries: personal rows, no state that
  another component guards on. Audit: the rows of other actions than those the comment
  and priority trails consist of, and the queries. The order in which the list shows
  a priority trail (by transaction start) is not `priorityLog`'s (by commit); they may
  differ when changes overlap and the priority goes away and comes back.
* Signatures and key rotation of tokens, object sizes and names: external or data.
* Configuration, HTTP wiring, the frontend, running the migrations, seed data. The
  constraints the migrations declare are guards of the models that rely on them.

## 7. Plan

Done: the ticket and its side effects (`StateMachine`, `TicketLifecycle`,
`TicketWorkflow`, `TicketEndorsements`, `TaskDelivery`), then what hangs on it and
who may touch it (`TicketContent`, `RowBook`, `TicketRelations`, `Accounts`, `Monitor`,
`TicketIntake`).

Left, in this order: the recipients of the other events against a reference
definition; the sliding window on a small clock, against "admissions in any window";
`Review` as a composition of the workflow's steps with `TicketContent` and
`TaskDelivery`; what `remove_assignee` leaves of the join rows and of the last active
assignee (`StrayTheorem` bounds the ticket row only); abstract specifications of
`TicketContent`, `Accounts` and `TicketIntake`, whose properties are proved one by one.
