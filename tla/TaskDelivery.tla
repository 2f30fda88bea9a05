---------------------------- MODULE TaskDelivery ----------------------------
(***************************************************************************)
(* From publish() inside a request to the end of the task's handler.       *)
(*                                                                         *)
(* A request (Caller) publishes tasks while its database transaction is    *)
(* open.  publish() first commits a lifecycle row of its own, then either  *)
(* queues the handler on the session, to run after the commit (Inline), or *)
(* hands an envelope to the Kafka producer at once.  A worker takes the    *)
(* message, bumps the row to `running`, calls the handler and bumps it to  *)
(* `completed` or `failed`; offsets are committed behind its back.  The    *)
(* bumps do not look at the status they overwrite.                         *)
(***************************************************************************)
EXTENDS Naturals

CONSTANTS
  Task, Caller, Worker,
  Owner,      \* [Task -> Caller]: the request that publishes the task
  Creators,   \* callers whose transaction creates the ticket the task is about
  Inline,     \* Config.INLINE_TASKS_IN_DEV
  AwaitSend,  \* Config.DEV_MODE: wait for the broker
  Faults,     \* the faults this instance exhibits
  MaxFail,    \* bound on the crashes and stops of executors
  NoTask

AllFaults == {"db", "raise", "refuse", "lose", "crash", "stop", "rebalance", "keycloak"}

ASSUME TaskAssumption ==
  /\ Owner \in [Task -> Caller]
  /\ Creators \subseteq Caller
  /\ Inline \in BOOLEAN /\ AwaitSend \in BOOLEAN
  /\ Faults \subseteq AllFaults
  /\ MaxFail \in Nat
  /\ NoTask \notin Task

\* Inline tasks run in the thread of the request that published them.
Executor == IF Inline THEN Caller ELSE Worker

VARIABLES
  tx,      \* the callers' transactions
  pub,     \* how far publish() has come, per task
  row,     \* tasks.status
  stale,   \* rows whose last_heartbeat_at is older than stuck_after_seconds
  buffer,  \* envelopes accepted by the producer and not yet by the broker
  due,     \* inline: after_commit_tasks; else: messages above the committed offset
  run,     \* what each executor is doing
  seen,    \* messages an executor is done with, their offset not yet committed
  fails,   \* crashes and stops so far
  trace    \* auxiliary: what has happened to each task

vars == <<tx, pub, row, stale, buffer, due, run, seen, fails, trace>>

Steps  == {"down", "idle", "taken", "running", "returned", "raised"}
Events == {"arrived", "taken", "returned", "raised", "refused", "found", "notified"}

TypeOK ==
  /\ tx \in [Caller -> {"open", "committed", "aborted"}]
  /\ pub \in [Task -> {"no", "registered", "sent", "accepted", "refused"}]
  /\ row \in [Task -> {"none", "pending", "running", "completed", "failed"}]
  /\ stale \subseteq Task /\ buffer \subseteq Task /\ due \subseteq Task
  /\ run \in [Executor -> [task: Task \cup {NoTask}, step: Steps]]
  /\ seen \in [Executor -> SUBSET Task]
  /\ fails \in 0..MaxFail
  /\ trace \in [Task -> SUBSET Events]

Final == {"completed", "failed"}

At(t, s) == [task |-> t, step |-> s]

Init ==
  /\ tx = [c \in Caller |-> "open"]
  /\ pub = [t \in Task |-> "no"]
  /\ row = [t \in Task |-> "none"]
  /\ stale = {} /\ buffer = {} /\ due = {}
  /\ run = [x \in Executor |-> At(NoTask, IF Inline THEN "idle" ELSE "down")]
  /\ seen = [x \in Executor |-> {}]
  /\ fails = 0
  /\ trace = [t \in Task |-> {}]

Note(t, e) == trace' = [trace EXCEPT ![t] = @ \cup {e}]

\* _bump: UPDATE ... WHERE id, in a transaction of its own.  It does nothing
\* when the row is missing, and a database error is logged and forgotten.
Bump(t, status) ==
  \/ /\ row' = [row EXCEPT ![t] = IF @ = "none" THEN @ ELSE status]
     /\ stale' = stale \ {t}
  \/ "db" \in Faults /\ UNCHANGED <<row, stale>>

-----------------------------------------------------------------------------
(* The publishing request                                                  *)

Published(c) == {t \in Task : Owner[t] = c /\ pub[t] # "no"}

\* lifecycle.create.  The publish() calls of one handler follow one another.
Register(t) ==
  /\ tx[Owner[t]] = "open" /\ pub[t] = "no"
  /\ \A u \in Published(Owner[t]) : pub[u] = "accepted"
  /\ pub' = [pub EXCEPT ![t] = "registered"]
  /\ \/ row' = [row EXCEPT ![t] = "pending"]
     \/ "db" \in Faults /\ UNCHANGED row
  /\ UNCHANGED <<tx, stale, buffer, due, run, seen, fails, trace>>

Sending(t) == tx[Owner[t]] = "open" /\ pub[t] = "registered"

\* enqueue_after_commit(run_inline).
Enqueue(t) ==
  /\ Inline /\ Sending(t)
  /\ pub' = [pub EXCEPT ![t] = "accepted"]
  /\ due' = due \cup {t}
  /\ UNCHANGED <<tx, row, stale, buffer, run, seen, fails, trace>>

\* producer.send: the envelope is in the producer's memory.  publish() returns,
\* or (AwaitSend) waits for the broker's word; the sender thread and the workers
\* do not wait for it.
Send(t) ==
  /\ ~Inline /\ Sending(t)
  /\ pub' = [pub EXCEPT ![t] = IF AwaitSend THEN "sent" ELSE "accepted"]
  /\ buffer' = buffer \cup {t}
  /\ UNCHANGED <<tx, row, stale, due, run, seen, fails, trace>>

Awaiting(t) == tx[Owner[t]] = "open" /\ pub[t] = "sent"

\* future.get returns: the broker has the envelope.
Acknowledge(t) ==
  /\ Awaiting(t) /\ "arrived" \in trace[t]
  /\ pub' = [pub EXCEPT ![t] = "accepted"]
  /\ UNCHANGED <<tx, row, stale, buffer, due, run, seen, fails, trace>>

\* send raises, or future.get does: delivery failed or the wait timed out,
\* wherever the envelope is by then.  The row is marked failed and the
\* exception ends the caller's transaction.
Refuse(t) ==
  /\ "refuse" \in Faults /\ ~Inline
  /\ Sending(t) \/ Awaiting(t)
  /\ Bump(t, "failed")
  /\ pub' = [pub EXCEPT ![t] = "refused"] /\ Note(t, "refused")
  /\ tx' = [tx EXCEPT ![Owner[t]] = "aborted"]
  /\ UNCHANGED <<buffer, due, run, seen, fails>>

\* get_db: the handler has published all it had to, and commits.
Commit(c) ==
  /\ tx[c] = "open"
  /\ \A t \in Task : Owner[t] = c => pub[t] = "accepted"
  /\ tx' = [tx EXCEPT ![c] = "committed"]
  /\ UNCHANGED <<pub, row, stale, buffer, due, run, seen, fails, trace>>

\* Any exception, at any point; the session's list of tasks goes with it.
Abort(c) ==
  /\ tx[c] = "open"
  /\ tx' = [tx EXCEPT ![c] = "aborted"]
  /\ due' = IF Inline THEN {t \in due : Owner[t] # c} ELSE due
  /\ UNCHANGED <<pub, row, stale, buffer, run, seen, fails, trace>>

-----------------------------------------------------------------------------
(* Between producer and broker                                             *)

Ship(t) ==
  /\ t \in buffer
  /\ buffer' = buffer \ {t} /\ due' = due \cup {t}
  /\ Note(t, "arrived")
  /\ UNCHANGED <<tx, pub, row, stale, run, seen, fails>>

\* The producer's own retries are used up, or the API process ends.
Lose(t) ==
  /\ "lose" \in Faults /\ t \in buffer
  /\ buffer' = buffer \ {t}
  /\ UNCHANGED <<tx, pub, row, stale, due, run, seen, fails, trace>>

-----------------------------------------------------------------------------
(* The executor: run_inline, or _process_message in a worker               *)

\* A slip: the queued callbacks do not wait for the commit.
OwnTask(x, t) == x = Owner[t]

\* get_db runs the queued callbacks after the commit of the session.
AfterCommit(x, t) == x = Owner[t] /\ tx[x] = "committed"

\* Each message has one reader in the group, until a rebalance gives it to
\* another worker while its offset is not committed.
OneReader(x, t) ==
  /\ t \notin seen[x]
  /\ \/ "rebalance" \in Faults
     \/ \A y \in Executor \ {x} : t \notin seen[y] /\ run[y].task # t

Due(x, t) == t \in due /\ (IF Inline THEN AfterCommit(x, t) ELSE OneReader(x, t))

Take(x, t) ==
  /\ run[x].step = "idle" /\ Due(x, t)
  /\ run' = [run EXCEPT ![x] = At(t, "taken")]
  /\ due' = IF Inline THEN due \ {t} ELSE due
  /\ Note(t, "taken")
  /\ UNCHANGED <<tx, pub, row, stale, buffer, seen, fails>>

MarkRunning(x) ==
  /\ run[x].step = "taken"
  /\ Bump(run[x].task, "running")
  /\ run' = [run EXCEPT ![x].step = "running"]
  /\ UNCHANGED <<tx, pub, buffer, due, seen, fails, trace>>

\* notify_*: one transaction, in which a ticket that its creator has not
\* committed is "not found"; the handler then returns as if all were well.
Found(t) == Owner[t] \in Creators => tx[Owner[t]] = "committed"

\* notify_distributors asks Keycloak for its recipients; when Keycloak fails it
\* has none, and returns as well.
Return(x) ==
  LET t == run[x].task IN
  /\ run[x].step = "running"
  /\ run' = [run EXCEPT ![x].step = "returned"]
  /\ \E told \in {{"notified"}} \cup (IF "keycloak" \in Faults THEN {{}} ELSE {}) :
       trace' = [trace EXCEPT ![t] = @ \cup {"returned"}
                                       \cup (IF Found(t) THEN {"found"} \cup told ELSE {})]
  /\ UNCHANGED <<tx, pub, row, stale, buffer, due, seen, fails>>

\* The handler raises, or the task name is not registered.
Raise(x) ==
  /\ "raise" \in Faults /\ run[x].step \in {"taken", "running"}
  /\ run' = [run EXCEPT ![x].step = "raised"]
  /\ Note(run[x].task, "raised")
  /\ UNCHANGED <<tx, pub, row, stale, buffer, due, seen, fails>>

\* A slip: mark_completed in a `finally`.
VerdictOptimistic(x) == "completed"

Verdict(x) == IF run[x].step = "returned" THEN "completed" ELSE "failed"

\* mark_completed or mark_failed; the iterator moves past the message.
Finish(x) ==
  /\ run[x].step \in {"returned", "raised"}
  /\ Bump(run[x].task, Verdict(x))
  /\ run' = [run EXCEPT ![x] = At(NoTask, "idle")]
  /\ seen' = IF Inline THEN seen ELSE [seen EXCEPT ![x] = @ \cup {run[x].task}]
  /\ UNCHANGED <<tx, pub, buffer, due, fails, trace>>

-----------------------------------------------------------------------------
(* Offsets, crashes and restarts of executors                              *)

\* A slip: the position is committed with the message still in work.
ConsumedAhead(x) == seen[x] \cup ({run[x].task} \ {NoTask})

\* What the periodic commit of the client covers: messages the iterator has
\* moved past.
Consumed(x) == seen[x]

AutoCommit(x) ==
  /\ Consumed(x) # {}
  /\ due' = due \ Consumed(x)
  /\ seen' = [seen EXCEPT ![x] = {}]
  /\ UNCHANGED <<tx, pub, row, stale, buffer, run, fails, trace>>

Ends(x, acked) ==
  /\ fails < MaxFail /\ fails' = fails + 1
  /\ run[x].step # "down"
  /\ run' = [run EXCEPT ![x] = At(NoTask, "down")]
  /\ seen' = [seen EXCEPT ![x] = {}]
  /\ due' = due \ acked
  /\ UNCHANGED <<tx, pub, row, stale, buffer, trace>>

\* The process is killed.  With an API process its queued callbacks are gone.
Crash(x) ==
  /\ "crash" \in Faults
  /\ IF Inline THEN tx[x] = "committed" /\ Ends(x, {t \in Task : Owner[t] = x}) ELSE Ends(x, {})

\* A slip: everything fetched is acknowledged.
AckedAll(x) == due

\* SIGTERM raises SystemExit inside the handler; `finally: consumer.close()`
\* commits the position, which is already past the message in work.
Acked(x) == seen[x] \cup {run[x].task}

Stop(x) ==
  /\ "stop" \in Faults /\ ~Inline
  /\ Ends(x, Acked(x))

\* A slip: the sweep goes by the heartbeat alone.
OrphansByAge == stale

Orphans == {t \in stale : row[t] = "running"}

\* recover_orphans, once, when a worker starts.
Start(x) ==
  /\ ~Inline /\ run[x].step = "down"
  /\ run' = [run EXCEPT ![x].step = "idle"]
  /\ \/ row' = [t \in Task |-> IF t \in Orphans THEN "pending" ELSE row[t]]
     \/ "db" \in Faults /\ UNCHANGED row
  /\ UNCHANGED <<tx, pub, stale, buffer, due, seen, fails, trace>>

\* Ten minutes pass; no handler calls heartbeat().
Age(t) ==
  /\ row[t] \in {"running"} \cup Final /\ t \notin stale
  /\ stale' = stale \cup {t}
  /\ UNCHANGED <<tx, pub, row, buffer, due, run, seen, fails, trace>>

-----------------------------------------------------------------------------
Execute(x) ==
  \/ \E t \in Task : Take(x, t)
  \/ MarkRunning(x)
  \/ Return(x)
  \/ Raise(x)
  \/ Finish(x)

Next ==
  \/ \E t \in Task : \/ Register(t) \/ Enqueue(t)
                     \/ Send(t) \/ Acknowledge(t) \/ Refuse(t)
                     \/ Ship(t) \/ Lose(t) \/ Age(t)
  \/ \E c \in Caller : Commit(c) \/ Abort(c)
  \/ \E x \in Executor : \/ Execute(x) \/ AutoCommit(x)
                         \/ Crash(x) \/ Stop(x) \/ Start(x)

Spec == Init /\ [][Next]_vars

\* The producer's sender thread goes on until it succeeds or gives up, a
\* running executor goes on with its work, a supervisor starts workers again,
\* and time passes.  Nothing is assumed about callers, crashes and offsets.
Fairness ==
  /\ \A t \in Task : WF_vars(Ship(t) \/ Lose(t)) /\ WF_vars(Age(t))
  /\ \A x \in Executor : WF_vars(Execute(x)) /\ WF_vars(Start(x))

FairSpec == Spec /\ Fairness

-----------------------------------------------------------------------------
(* Properties                                                              *)

\* An operator can trust a final row: `completed` means that some run of the
\* handler returned, `failed` that one raised or the message was refused,
\* however often the message was delivered and whoever wrote the row last.
VerdictEarned ==
  \A t \in Task :
    /\ row[t] = "completed" => "returned" \in trace[t]
    /\ row[t] = "failed" => trace[t] \cap {"raised", "refused"} # {}

\* No committed offset passes over a message that nobody has taken.
NoneSkipped ==
  \A t \in Task : "arrived" \in trace[t] /\ t \notin due => "taken" \in trace[t]

\* A final row is rewritten only by an executor that holds the task (again), or
\* by its publisher giving up the wait for the broker, which makes it failed:
\* never by the recovery of orphans, nor by a publisher that does not wait.
FinalUntilRetaken ==
  [][\A t \in Task :
       row[t] \in Final /\ row'[t] # row[t]
         => \/ \E x \in Executor : run[x].task = t
            \/ pub[t] = "sent" /\ pub'[t] = "refused" /\ row'[t] = "failed"]_vars

Ended(t) == trace[t] \cap {"returned", "raised"} # {}

\* Where no worker is stopped in the middle of a message, the topic with its
\* committed offset is a mailbox: whatever crashes and whoever reads a message
\* twice, it is there until a run of its handler has come to an end.
Mailbox == INSTANCE AtLeastOnce WITH inbox <- due, handled <- {t \in Task : Ended(t)}

ImplementsMailbox == Mailbox!Spec

\* At least once: unless a worker is stopped in the middle of it, a message
\* that has reached the broker is run to an end, whatever crashes.
EventuallyHandled ==
  \A t \in Task : t \in due ~> Ended(t)

\* workflow_service.py:388-390 "All side effects (... Kafka notification) run
\* in the same transaction as the UPDATE ... an aborted attempt leaves no
\* trace".  Holds inline; refuted with Kafka.
AbortedLeavesNoTrace ==
  \A t \in Task : tx[Owner[t]] = "aborted" => trace[t] \cap {"taken", "found", "notified"} = {}

\* Inline, the handler of a completed task has found the ticket that its
\* request has created, and has not returned quietly for want of it
\* (notifications.py:31): the callbacks run after the commit.
CompletedHasFound ==
  \A t \in Task : row[t] = "completed" /\ tx[Owner[t]] = "committed" => "found" \in trace[t]

-----------------------------------------------------------------------------
(* What the repository says and the code does not do: TLC refutes it when  *)
(* it is given as an invariant.                                            *)

\* notifications.py:21 "Notify all distributors and admins about a new ticket":
\* once its task is completed somebody has been notified.
CompletedHasNotified ==
  \A t \in Task : row[t] = "completed" /\ tx[Owner[t]] = "committed" => "notified" \in trace[t]

=============================================================================
