------------------------ MODULE TaskDelivery_proofs ------------------------
(***************************************************************************)
(* Theorems about TaskDelivery for any set of requests, tasks and workers, *)
(* in every mode and under every combination of faults.                    *)
(***************************************************************************)
EXTENDS TaskDelivery, TLAPS

USE TaskAssumption

AtWork == {"taken", "running", "returned", "raised"}

\* What the type of `run` does not say: an executor at work has a task.
HasTask == \A x \in Executor : run[x].step \in AtWork => run[x].task \in Task

TypeInv == TypeOK /\ HasTask

\* The steps that belong to one task and to no executor.
Publishing(t) ==
  \/ Register(t) \/ Enqueue(t) \/ Send(t) \/ Acknowledge(t) \/ Refuse(t)
  \/ Ship(t) \/ Lose(t) \/ Age(t)

\* Each action in turn; goals about one step are proved against this list.
LEMMA NextCases ==
  ASSUME Next
  PROVE  \/ \E t \in Task : Publishing(t)
         \/ \E c \in Caller : Commit(c) \/ Abort(c)
         \/ \E x \in Executor, t \in Task : Take(x, t)
         \/ \E x \in Executor : \/ MarkRunning(x) \/ Return(x) \/ Raise(x) \/ Finish(x)
                                \/ AutoCommit(x) \/ Crash(x) \/ Stop(x) \/ Start(x)
BY DEF Next, Execute, Publishing

\* A lifecycle bump keeps the types of the row and of its heartbeat.
LEMMA BumpType ==
  ASSUME TypeOK, NEW t \in Task, NEW s \in {"running", "completed", "failed"}, Bump(t, s)
  PROVE  /\ row' \in [Task -> {"none", "pending", "running", "completed", "failed"}]
         /\ stale' \subseteq Task
BY DEF TypeOK, Bump

\* Recording an event keeps the type of the trace.
LEMMA NoteType ==
  ASSUME TypeOK, NEW t \in Task, NEW e \in Events, Note(t, e)
  PROVE  trace' \in [Task -> SUBSET Events]
BY DEF TypeOK, Note

\* The end of an executor, by a crash or a stop, keeps the types.
LEMMA EndsType ==
  ASSUME TypeInv, NEW x \in Executor, NEW acked, Ends(x, acked)
  PROVE  TypeInv'
<1>1. fails + 1 \in 0..MaxFail
  BY DEF TypeInv, TypeOK, Ends
<1>2. At(NoTask, "down") \in [task: Task \cup {NoTask}, step: Steps]
  BY DEF At, Steps
<1>3. run' \in [Executor -> [task: Task \cup {NoTask}, step: Steps]]
  BY <1>2 DEF TypeInv, TypeOK, Ends
<1>4. TypeOK'
  BY <1>1, <1>3 DEF TypeInv, TypeOK, Ends
<1>5. HasTask'
  BY DEF TypeInv, TypeOK, HasTask, Ends, At, AtWork
<1> QED
  BY <1>4, <1>5 DEF TypeInv

\* The steps of the publishing request and of the producer keep the types.
LEMMA PublishType ==
  ASSUME TypeInv, NEW t \in Task, Publishing(t)
  PROVE  TypeInv'
<1>1. CASE Register(t)
  BY <1>1 DEF TypeInv, TypeOK, HasTask, Register
<1>2. CASE Enqueue(t)
  BY <1>2 DEF TypeInv, TypeOK, HasTask, Enqueue
<1>3. CASE Send(t) \/ Acknowledge(t)
  BY <1>3 DEF TypeInv, TypeOK, HasTask, Send, Acknowledge
<1>4. CASE Refuse(t)
  <2>1. trace' \in [Task -> SUBSET Events]
    BY <1>4, NoteType DEF Refuse, Events, TypeInv
  <2>2. /\ row' \in [Task -> {"none", "pending", "running", "completed", "failed"}]
        /\ stale' \subseteq Task
    BY <1>4, BumpType DEF Refuse, TypeInv
  <2> QED
    BY <1>4, <2>1, <2>2 DEF TypeInv, TypeOK, HasTask, Refuse
<1>5. CASE Ship(t)
  <2>1. trace' \in [Task -> SUBSET Events]
    BY <1>5, NoteType DEF Ship, Events, TypeInv
  <2> QED
    BY <1>5, <2>1 DEF TypeInv, TypeOK, HasTask, Ship
<1>6. CASE Lose(t)
  BY <1>6 DEF TypeInv, TypeOK, HasTask, Lose
<1>7. CASE Age(t)
  BY <1>7 DEF TypeInv, TypeOK, HasTask, Age
<1> QED
  BY <1>1, <1>2, <1>3, <1>4, <1>5, <1>6, <1>7 DEF Publishing

\* A handler that returns records that it did, and what came of it.
LEMMA ReturnRecords ==
  ASSUME TypeInv, NEW x \in Executor, Return(x)
  PROVE  /\ run[x].task \in Task
         /\ \A u \in Task : u # run[x].task => trace'[u] = trace[u]
         /\ "returned" \in trace'[run[x].task]
         /\ \A u \in Task : "arrived" \in trace'[u] => "arrived" \in trace[u]
         /\ \A u \in Task : "taken" \in trace'[u] => "taken" \in trace[u]
<1> DEFINE t == run[x].task
<1>1. t \in Task
  <2>1. run[x].step = "running"
    BY DEF Return
  <2> QED
    BY <2>1 DEF TypeInv, HasTask, AtWork
<1>2. PICK more \in SUBSET {"found", "notified"} :
        trace' = [trace EXCEPT ![t] = @ \cup {"returned"} \cup more]
  <2>1. PICK told \in {{"notified"}, {}} :
          trace' = [trace EXCEPT ![t] = @ \cup {"returned"}
                                          \cup (IF Found(t) THEN {"found"} \cup told ELSE {})]
    BY DEF Return
  <2> DEFINE more == IF Found(t) THEN {"found"} \cup told ELSE {}
  <2>2. more \in SUBSET {"found", "notified"}
    OBVIOUS
  <2>3. trace' = [trace EXCEPT ![t] = @ \cup {"returned"} \cup more]
    BY <2>1
  <2> QED
    BY <2>2, <2>3
<1>3. DOMAIN trace = Task
  BY DEF TypeInv, TypeOK
<1> HIDE DEF t
<1>4. /\ \A u \in Task : u # t => trace'[u] = trace[u]
      /\ trace'[t] = trace[t] \cup {"returned"} \cup more
  BY <1>1, <1>2, <1>3
<1>5. "arrived" \notin more /\ "taken" \notin more
  OBVIOUS
<1>6. /\ \A u \in Task : u # t => trace'[u] = trace[u]
      /\ "returned" \in trace'[t]
      /\ \A u \in Task : "arrived" \in trace'[u] => "arrived" \in trace[u]
      /\ \A u \in Task : "taken" \in trace'[u] => "taken" \in trace[u]
  BY <1>4, <1>5
<1> QED
  BY <1>1, <1>6 DEF t

\* An executor that goes from one step of its task to the next keeps the types.
LEMMA WorkType ==
  ASSUME TypeInv, NEW x \in Executor,
         MarkRunning(x) \/ Return(x) \/ Raise(x) \/ Finish(x)
  PROVE  TypeInv'
<1>1. CASE MarkRunning(x)
  <2>1. run[x].task \in Task
    BY <1>1 DEF MarkRunning, TypeInv, HasTask, AtWork
  <2>2. /\ row' \in [Task -> {"none", "pending", "running", "completed", "failed"}]
        /\ stale' \subseteq Task
    BY <1>1, <2>1, BumpType DEF MarkRunning, TypeInv
  <2>3. run' \in [Executor -> [task: Task \cup {NoTask}, step: Steps]] /\ HasTask'
    BY <1>1, <2>1 DEF MarkRunning, TypeInv, TypeOK, HasTask, Steps, AtWork
  <2> QED
    BY <1>1, <2>2, <2>3 DEF TypeInv, TypeOK, MarkRunning
<1>2. CASE Return(x)
  <2>1. run[x].task \in Task
    BY <1>2 DEF Return, TypeInv, HasTask, AtWork
  <2>2. trace' \in [Task -> SUBSET Events]
    BY <1>2, <2>1 DEF Return, Events, TypeInv, TypeOK
  <2>3. run' \in [Executor -> [task: Task \cup {NoTask}, step: Steps]] /\ HasTask'
    BY <1>2, <2>1 DEF Return, TypeInv, TypeOK, HasTask, Steps, AtWork
  <2> QED
    BY <1>2, <2>2, <2>3 DEF TypeInv, TypeOK, Return
<1>3. CASE Raise(x)
  <2>1. run[x].task \in Task
    BY <1>3 DEF Raise, TypeInv, HasTask, AtWork
  <2>2. trace' \in [Task -> SUBSET Events]
    BY <1>3, <2>1, NoteType DEF Raise, Events, TypeInv
  <2>3. run' \in [Executor -> [task: Task \cup {NoTask}, step: Steps]] /\ HasTask'
    BY <1>3, <2>1 DEF Raise, TypeInv, TypeOK, HasTask, Steps, AtWork
  <2> QED
    BY <1>3, <2>2, <2>3 DEF TypeInv, TypeOK, Raise
<1>4. CASE Finish(x)
  <2>1. run[x].task \in Task
    BY <1>4 DEF Finish, TypeInv, HasTask, AtWork
  <2>2. /\ row' \in [Task -> {"none", "pending", "running", "completed", "failed"}]
        /\ stale' \subseteq Task
    BY <1>4, <2>1, BumpType DEF Finish, Verdict, TypeInv
  <2>3. run' \in [Executor -> [task: Task \cup {NoTask}, step: Steps]] /\ HasTask'
    BY <1>4, <2>1 DEF Finish, TypeInv, TypeOK, HasTask, Steps, AtWork, At
  <2>4. seen' \in [Executor -> SUBSET Task]
    BY <1>4, <2>1 DEF Finish, TypeInv, TypeOK
  <2> QED
    BY <1>4, <2>2, <2>3, <2>4 DEF TypeInv, TypeOK, Finish
<1> QED
  BY <1>1, <1>2, <1>3, <1>4

\* Every step keeps the types.
LEMMA TypeStep ==
  ASSUME TypeInv, [Next]_vars
  PROVE  TypeInv'
<1>1. CASE UNCHANGED vars
  BY <1>1 DEF TypeInv, TypeOK, HasTask, vars
<1>2. ASSUME NEW t \in Task, Publishing(t)
      PROVE  TypeInv'
  BY <1>2, PublishType
<1>3. ASSUME NEW c \in Caller, Commit(c) \/ Abort(c)
      PROVE  TypeInv'
  BY <1>3 DEF TypeInv, TypeOK, HasTask, Commit, Abort
<1>4. ASSUME NEW x \in Executor, NEW t \in Task, Take(x, t)
      PROVE  TypeInv'
  <2>1. trace' \in [Task -> SUBSET Events]
    BY <1>4, NoteType DEF Take, Events, TypeInv
  <2>2. run' \in [Executor -> [task: Task \cup {NoTask}, step: Steps]] /\ HasTask'
    BY <1>4 DEF Take, TypeInv, TypeOK, HasTask, Steps, AtWork, At
  <2> QED
    BY <1>4, <2>1, <2>2 DEF TypeInv, TypeOK, Take
<1>5. ASSUME NEW x \in Executor, MarkRunning(x) \/ Return(x) \/ Raise(x) \/ Finish(x)
      PROVE  TypeInv'
  BY <1>5, WorkType
<1>6. ASSUME NEW x \in Executor, AutoCommit(x)
      PROVE  TypeInv'
  BY <1>6 DEF TypeInv, TypeOK, HasTask, AutoCommit
<1>7. ASSUME NEW x \in Executor, Crash(x) \/ Stop(x)
      PROVE  TypeInv'
  BY <1>7, EndsType DEF Crash, Stop
<1>8. ASSUME NEW x \in Executor, Start(x)
      PROVE  TypeInv'
  <2>1. run' \in [Executor -> [task: Task \cup {NoTask}, step: Steps]] /\ HasTask'
    BY <1>8 DEF Start, TypeInv, TypeOK, HasTask, Steps, AtWork
  <2>2. row' \in [Task -> {"none", "pending", "running", "completed", "failed"}]
    BY <1>8 DEF Start, TypeInv, TypeOK
  <2> QED
    BY <1>8, <2>1, <2>2 DEF TypeInv, TypeOK, Start
<1> QED
  BY <1>1, <1>2, <1>3, <1>4, <1>5, <1>6, <1>7, <1>8, NextCases

\* The initial states are of the right type.
LEMMA InitType == Init => TypeInv
BY DEF Init, TypeInv, TypeOK, HasTask, Steps, AtWork, At

\* Type correctness, in every mode and under every set of faults.
THEOREM TypeCorrect == Spec => []TypeOK
<1>1. TypeInv /\ [Next]_vars => TypeInv'
  BY TypeStep
<1>2. TypeInv => TypeOK
  BY DEF TypeInv
<1> QED
  BY <1>1, <1>2, InitType, PTL DEF Spec

-----------------------------------------------------------------------------
(* Final rows are earned                                                   *)

\* What has happened to a task stays on record.
LEMMA TraceGrows ==
  ASSUME TypeInv, [Next]_vars
  PROVE  \A t \in Task : trace[t] \subseteq trace'[t]
<1>1. CASE UNCHANGED vars
  BY <1>1 DEF vars
<1>2. ASSUME NEW t \in Task, Publishing(t)
      PROVE  \A u \in Task : trace[u] \subseteq trace'[u]
  BY <1>2 DEF TypeInv, TypeOK, Publishing, Register, Enqueue, Send, Acknowledge, Refuse, Ship, Lose, Age, Note
<1>3. ASSUME NEW c \in Caller, Commit(c) \/ Abort(c)
      PROVE  \A u \in Task : trace[u] \subseteq trace'[u]
  BY <1>3 DEF Commit, Abort
<1>4. ASSUME NEW x \in Executor, NEW t \in Task, Take(x, t)
      PROVE  \A u \in Task : trace[u] \subseteq trace'[u]
  BY <1>4 DEF TypeInv, TypeOK, Take, Note
<1>5. ASSUME NEW x \in Executor, MarkRunning(x) \/ Return(x) \/ Raise(x) \/ Finish(x)
      PROVE  \A u \in Task : trace[u] \subseteq trace'[u]
  BY <1>5 DEF TypeInv, TypeOK, MarkRunning, Return, Raise, Finish, Note
<1>6. ASSUME NEW x \in Executor, AutoCommit(x) \/ Crash(x) \/ Stop(x) \/ Start(x)
      PROVE  \A u \in Task : trace[u] \subseteq trace'[u]
  BY <1>6 DEF TypeInv, TypeOK, AutoCommit, Crash, Stop, Ends, Start
<1> QED
  BY <1>1, <1>2, <1>3, <1>4, <1>5, <1>6, NextCases

\* An executor that says its handler returned, or raised, has it on record.
OnRecord ==
  \A x \in Executor :
    run[x].step \in {"returned", "raised"} => run[x].step \in trace[run[x].task]

VerdictInv == TypeInv /\ VerdictEarned /\ OnRecord

\* A bump to `running` gives no verdict, one to a final status only the
\* verdict that its own task has earned.
LEMMA BumpVerdict ==
  ASSUME VerdictInv, [Next]_vars, NEW t \in Task, NEW s \in {"running", "completed", "failed"},
         Bump(t, s),
         s = "completed" => "returned" \in trace'[t],
         s = "failed" => trace'[t] \cap {"raised", "refused"} # {}
  PROVE  VerdictEarned'
<1>1. \A u \in Task : trace[u] \subseteq trace'[u]
  BY TraceGrows DEF VerdictInv
<1>2. \A u \in Task : row'[u] = row[u] \/ (u = t /\ row'[u] = s)
  BY DEF Bump, VerdictInv, TypeInv, TypeOK
<1> QED
  BY <1>1, <1>2 DEF VerdictInv, VerdictEarned

\* Where no row becomes final and no executor ends a handler, all stays earned.
LEMMA QuietVerdict ==
  ASSUME VerdictInv, [Next]_vars,
         \A u \in Task : row'[u] = row[u] \/ row'[u] \in {"none", "pending", "running"},
         \A x \in Executor : run'[x] = run[x] \/ run'[x].step \notin {"returned", "raised"}
  PROVE  VerdictEarned' /\ OnRecord'
<1>1. \A u \in Task : trace[u] \subseteq trace'[u]
  BY TraceGrows DEF VerdictInv
<1>2. VerdictEarned'
  BY <1>1 DEF VerdictInv, VerdictEarned
<1>3. OnRecord'
  BY <1>1 DEF VerdictInv, TypeInv, HasTask, AtWork, OnRecord
<1> QED
  BY <1>2, <1>3

\* Executors that are not at the end of a handler have nothing to record.
LEMMA SameRunRecord ==
  ASSUME VerdictInv, [Next]_vars,
         \A x \in Executor : run'[x] = run[x] \/ run'[x].step \notin {"returned", "raised"}
  PROVE  OnRecord'
<1>1. \A u \in Task : trace[u] \subseteq trace'[u]
  BY TraceGrows DEF VerdictInv
<1> QED
  BY <1>1 DEF VerdictInv, TypeInv, HasTask, AtWork, OnRecord

\* Every step keeps the verdicts earned.
LEMMA VerdictStep ==
  ASSUME VerdictInv, [Next]_vars
  PROVE  VerdictInv'
<1>0. TypeInv'
  BY TypeStep DEF VerdictInv
<1> SUFFICES VerdictEarned' /\ OnRecord'
  BY <1>0 DEF VerdictInv
<1> USE DEF VerdictInv, TypeInv, TypeOK
<1>1. CASE UNCHANGED vars
  BY <1>1, QuietVerdict DEF vars
<1>2. ASSUME NEW t \in Task, Publishing(t), ~Refuse(t)
      PROVE  VerdictEarned' /\ OnRecord'
  BY <1>2, QuietVerdict DEF Publishing, Register, Enqueue, Send, Acknowledge, Ship, Lose, Age
<1>3. ASSUME NEW t \in Task, Refuse(t)
      PROVE  VerdictEarned' /\ OnRecord'
  <2>1. "refused" \in trace'[t]
    BY <1>3 DEF Refuse, Note
  <2>2. VerdictEarned'
    BY <1>3, <2>1, BumpVerdict DEF Refuse
  <2> QED
    BY <1>3, <2>2, SameRunRecord DEF Refuse
<1>4. ASSUME NEW c \in Caller, Commit(c) \/ Abort(c)
      PROVE  VerdictEarned' /\ OnRecord'
  BY <1>4, QuietVerdict DEF Commit, Abort
<1>5. ASSUME NEW x \in Executor, NEW t \in Task, Take(x, t)
      PROVE  VerdictEarned' /\ OnRecord'
  BY <1>5, QuietVerdict DEF Take, At
<1>6. ASSUME NEW x \in Executor, MarkRunning(x)
      PROVE  VerdictEarned' /\ OnRecord'
  <2>1. run[x].task \in Task
    BY <1>6 DEF MarkRunning, HasTask, AtWork
  <2>2. VerdictEarned'
    BY <1>6, <2>1, BumpVerdict DEF MarkRunning
  <2> QED
    BY <1>6, <2>2, SameRunRecord DEF MarkRunning
<1>7. ASSUME NEW x \in Executor, Return(x) \/ Raise(x)
      PROVE  VerdictEarned' /\ OnRecord'
  <2>1. run[x].task \in Task
    BY <1>7 DEF Return, Raise, HasTask, AtWork
  <2>2. \A u \in Task : trace[u] \subseteq trace'[u]
    BY TraceGrows
  <2>3. VerdictEarned'
    BY <1>7, <2>2 DEF Return, Raise, VerdictEarned
  <2>4. run'[x].step \in {"returned", "raised"} => run'[x].step \in trace'[run[x].task]
    BY <1>7, <2>1 DEF Return, Raise, Note
  <2>5. run'[x].task = run[x].task /\ \A y \in Executor \ {x} : run'[y] = run[y]
    BY <1>7 DEF Return, Raise
  <2>6. OnRecord'
    BY <2>2, <2>4, <2>5 DEF OnRecord, HasTask, AtWork
  <2> QED
    BY <2>3, <2>6
<1>8. ASSUME NEW x \in Executor, Finish(x)
      PROVE  VerdictEarned' /\ OnRecord'
  <2>1. run[x].task \in Task
    BY <1>8 DEF Finish, HasTask, AtWork
  <2>2. run[x].step \in trace[run[x].task] /\ trace' = trace
    BY <1>8 DEF Finish, OnRecord
  <2>3. Verdict(x) \in {"completed", "failed"}
        /\ (Verdict(x) = "completed" => "returned" \in trace'[run[x].task])
        /\ (Verdict(x) = "failed" => trace'[run[x].task] \cap {"raised", "refused"} # {})
    BY <1>8, <2>2 DEF Finish, Verdict
  <2>4. VerdictEarned'
    BY <1>8, <2>1, <2>3, BumpVerdict DEF Finish
  <2>5. \A y \in Executor : run'[y] = run[y] \/ run'[y].step \notin {"returned", "raised"}
    BY <1>8 DEF Finish, At
  <2> QED
    BY <2>4, <2>5, SameRunRecord
<1>9. ASSUME NEW x \in Executor, AutoCommit(x) \/ Crash(x) \/ Stop(x) \/ Start(x)
      PROVE  VerdictEarned' /\ OnRecord'
  <2>1. \A u \in Task : row'[u] = row[u] \/ row'[u] \in {"none", "pending", "running"}
    BY <1>9 DEF AutoCommit, Crash, Stop, Ends, Start
  <2>2. \A y \in Executor : run'[y] = run[y] \/ run'[y].step \notin {"returned", "raised"}
    BY <1>9 DEF AutoCommit, Crash, Stop, Ends, Start, At
  <2> QED
    BY <2>1, <2>2, QuietVerdict
<1> QED
  BY <1>1, <1>2, <1>3, <1>4, <1>5, <1>6, <1>7, <1>8, <1>9, NextCases

\* A final lifecycle row tells the truth, for any number of deliveries,
\* workers, restarts and lost bumps.
THEOREM VerdictTheorem == Spec => []VerdictEarned
<1>1. Init => VerdictInv
  <2>1. Init => VerdictEarned /\ OnRecord
    BY DEF Init, VerdictEarned, OnRecord, At
  <2> QED
    BY <2>1, InitType DEF VerdictInv
<1>2. VerdictInv /\ [Next]_vars => VerdictInv'
  BY VerdictStep
<1>3. VerdictInv => VerdictEarned
  BY DEF VerdictInv
<1> QED
  BY <1>1, <1>2, <1>3, PTL DEF Spec

-----------------------------------------------------------------------------
(* No offset passes over a message nobody took; inline tasks wait          *)

\* What an executor works on or has moved past, somebody has taken.
Touched ==
  \A x \in Executor, t \in Task :
    run[x].task = t \/ t \in seen[x] => "taken" \in trace[t]

\* Inline, nothing goes through the producer.
NoKafka == Inline => buffer = {} /\ \A t \in Task : "arrived" \notin trace[t]

SkipInv == TypeInv /\ NoneSkipped /\ Touched /\ NoKafka

\* Publishing: a message that arrives is due.
LEMMA PublishSkip ==
  ASSUME SkipInv, [Next]_vars, NEW t \in Task, Publishing(t)
  PROVE  NoneSkipped' /\ Touched' /\ NoKafka'
<1>0. \A u \in Task : trace[u] \subseteq trace'[u]
  BY TraceGrows DEF SkipInv
<1>1. run' = run /\ seen' = seen
  BY DEF Publishing, Register, Enqueue, Send, Acknowledge, Refuse, Ship, Lose, Age
<1>2. Touched'
  BY <1>0, <1>1 DEF SkipInv, Touched
<1>3. due \subseteq due'
  BY DEF Publishing, Register, Enqueue, Send, Acknowledge, Refuse, Ship, Lose, Age
<1>4. \A u \in Task : "arrived" \in trace'[u] => "arrived" \in trace[u] \/ u \in due'
  BY DEF SkipInv, TypeInv, TypeOK, Publishing, Register, Enqueue, Send, Acknowledge, Refuse, Ship, Lose, Age, Note
<1>5. NoneSkipped'
  BY <1>0, <1>3, <1>4 DEF SkipInv, NoneSkipped
<1>6. NoKafka'
  BY DEF SkipInv, TypeInv, TypeOK, NoKafka, Publishing, Register, Enqueue, Send, Acknowledge, Refuse, Ship, Lose, Age, Note
<1> QED
  BY <1>2, <1>5, <1>6

\* The end of an executor may acknowledge what was taken, or, inline, drop
\* what never went through the broker.
LEMMA EndsSkip ==
  ASSUME SkipInv, NEW x \in Executor, NEW acked, Ends(x, acked),
         \A t \in Task : t \in acked => "taken" \in trace[t] \/ Inline
  PROVE  NoneSkipped' /\ Touched' /\ NoKafka'
<1>1. \A y \in Executor : \/ run'[y].task = run[y].task /\ seen'[y] = seen[y]
                          \/ run'[y].task = NoTask /\ seen'[y] = {}
  BY DEF Ends, At, SkipInv, TypeInv, TypeOK
<1>2. Touched'
  BY <1>1 DEF Ends, SkipInv, Touched
<1>3. NoneSkipped'
  BY DEF Ends, SkipInv, NoneSkipped, NoKafka
<1> QED
  BY <1>2, <1>3 DEF Ends, SkipInv, NoKafka

\* Every step keeps the account of what was taken.
LEMMA SkipStep ==
  ASSUME SkipInv, [Next]_vars
  PROVE  SkipInv'
<1>0. TypeInv' /\ \A u \in Task : trace[u] \subseteq trace'[u]
  BY TypeStep, TraceGrows DEF SkipInv
<1> SUFFICES NoneSkipped' /\ Touched' /\ NoKafka'
  BY <1>0 DEF SkipInv
<1>1. CASE UNCHANGED vars
  BY <1>1 DEF SkipInv, NoneSkipped, Touched, NoKafka, vars
<1>2. ASSUME NEW t \in Task, Publishing(t)
      PROVE  NoneSkipped' /\ Touched' /\ NoKafka'
  BY <1>2, PublishSkip
<1>3. ASSUME NEW c \in Caller, Commit(c) \/ Abort(c)
      PROVE  NoneSkipped' /\ Touched' /\ NoKafka'
  <2>1. NoneSkipped'
    BY <1>3 DEF SkipInv, NoneSkipped, NoKafka, Commit, Abort
  <2> QED
    BY <1>3, <2>1 DEF SkipInv, Touched, NoKafka, Commit, Abort
<1>4. ASSUME NEW x \in Executor, NEW t \in Task, Take(x, t)
      PROVE  NoneSkipped' /\ Touched' /\ NoKafka'
  <2>1. \A u \in Task : trace'[u] = IF u = t THEN trace[u] \cup {"taken"} ELSE trace[u]
    BY <1>4 DEF Take, Note, SkipInv, TypeInv, TypeOK
  <2>2. \A y \in Executor : run'[y].task = run[y].task \/ run'[y].task = t
    BY <1>4 DEF Take, At
  <2>3. Touched'
    BY <1>4, <2>1, <2>2 DEF Take, SkipInv, Touched
  <2>4. NoneSkipped'
    BY <1>4, <2>1 DEF Take, SkipInv, NoneSkipped
  <2>5. \A u \in Task : "arrived" \in trace'[u] => "arrived" \in trace[u]
    BY <1>4 DEF Take, Note, SkipInv, TypeInv, TypeOK
  <2>6. NoKafka'
    BY <1>4, <2>5 DEF Take, SkipInv, NoKafka
  <2> QED
    BY <2>3, <2>4, <2>6
<1>5. ASSUME NEW x \in Executor, MarkRunning(x) \/ Return(x) \/ Raise(x)
      PROVE  NoneSkipped' /\ Touched' /\ NoKafka'
  <2>1. due' = due /\ seen' = seen /\ buffer' = buffer
    BY <1>5 DEF MarkRunning, Return, Raise
  <2>2. \A u \in Task : "arrived" \in trace'[u] => "arrived" \in trace[u]
    BY <1>5 DEF MarkRunning, Return, Raise, Note, SkipInv, TypeInv, TypeOK
  <2>3. \A y \in Executor : run'[y].task = run[y].task
    BY <1>5 DEF MarkRunning, Return, Raise, SkipInv, TypeInv, TypeOK
  <2>4. NoneSkipped'
    BY <1>0, <2>1, <2>2 DEF SkipInv, NoneSkipped
  <2>5. Touched'
    BY <1>0, <2>1, <2>3 DEF SkipInv, Touched
  <2>6. NoKafka'
    BY <2>1, <2>2 DEF SkipInv, NoKafka
  <2> QED
    BY <2>4, <2>5, <2>6
<1>6. ASSUME NEW x \in Executor, Finish(x)
      PROVE  NoneSkipped' /\ Touched' /\ NoKafka'
  <2>1. \A y \in Executor : run'[y].task = run[y].task \/ run'[y].task = NoTask
    BY <1>6 DEF Finish, At
  <2>2. \A y \in Executor : seen'[y] \subseteq seen[y] \cup {run[y].task}
    BY <1>6 DEF Finish, SkipInv, TypeInv, TypeOK
  <2>3. Touched'
    BY <1>6, <2>1, <2>2 DEF Finish, SkipInv, Touched
  <2> QED
    BY <1>6, <2>3 DEF Finish, SkipInv, NoneSkipped, NoKafka
<1>7. ASSUME NEW x \in Executor, AutoCommit(x)
      PROVE  NoneSkipped' /\ Touched' /\ NoKafka'
  <2>1. \A y \in Executor : seen'[y] \subseteq seen[y]
    BY <1>7 DEF AutoCommit, SkipInv, TypeInv, TypeOK
  <2>2. NoneSkipped'
    BY <1>7 DEF AutoCommit, Consumed, SkipInv, NoneSkipped, Touched
  <2>3. Touched'
    BY <1>7, <2>1 DEF AutoCommit, SkipInv, Touched
  <2> QED
    BY <1>7, <2>2, <2>3 DEF AutoCommit, SkipInv, NoKafka
<1>8. ASSUME NEW x \in Executor, Crash(x)
      PROVE  NoneSkipped' /\ Touched' /\ NoKafka'
  BY <1>8, EndsSkip DEF Crash
<1>9. ASSUME NEW x \in Executor, Stop(x)
      PROVE  NoneSkipped' /\ Touched' /\ NoKafka'
  BY <1>9, EndsSkip DEF Stop, Acked, SkipInv, Touched
<1>10. ASSUME NEW x \in Executor, Start(x)
       PROVE  NoneSkipped' /\ Touched' /\ NoKafka'
  <2>1. due' = due /\ seen' = seen /\ buffer' = buffer
    BY <1>10 DEF Start
  <2>2. \A u \in Task : "arrived" \in trace'[u] => "arrived" \in trace[u]
    BY <1>10 DEF Start, SkipInv, TypeInv, TypeOK
  <2>3. \A y \in Executor : run'[y].task = run[y].task
    BY <1>10 DEF Start, SkipInv, TypeInv, TypeOK
  <2> QED
    BY <1>0, <2>1, <2>2, <2>3 DEF SkipInv, NoneSkipped, Touched, NoKafka
<1> QED
  BY <1>1, <1>2, <1>3, <1>4, <1>5, <1>6, <1>7, <1>8, <1>9, <1>10, NextCases

\* Initially nothing is due, taken or sent.
LEMMA SkipInit == Init => SkipInv
<1>1. Init => NoneSkipped /\ Touched /\ NoKafka
  BY DEF Init, NoneSkipped, Touched, NoKafka, At
<1> QED
  BY <1>1, InitType DEF SkipInv

\* Crashes, graceful stops, rebalances and the automatic commits of offsets
\* never pass over a message that no worker has taken.
THEOREM NoneSkippedTheorem == Spec => []NoneSkipped
<1>1. SkipInv /\ [Next]_vars => SkipInv'
  BY SkipStep
<1>2. SkipInv => NoneSkipped
  BY DEF SkipInv
<1> QED
  BY <1>1, <1>2, SkipInit, PTL DEF Spec

\* Inline, only tasks of committed requests are taken.
OnlyCommitted ==
  \A t \in Task : trace[t] \cap {"taken", "found", "notified"} # {} => tx[Owner[t]] = "committed"

InlineInv == SkipInv /\ OnlyCommitted

\* Every step of the inline mode preserves it.
LEMMA InlineStep ==
  ASSUME Inline, InlineInv, [Next]_vars
  PROVE  InlineInv'
<1>0. SkipInv'
  BY SkipStep DEF InlineInv
<1> SUFFICES OnlyCommitted'
  BY <1>0 DEF InlineInv
<1> USE DEF InlineInv, SkipInv, TypeInv, TypeOK
<1>1. CASE UNCHANGED vars
  BY <1>1 DEF OnlyCommitted, vars
<1>2. ASSUME NEW t \in Task, Publishing(t)
      PROVE  OnlyCommitted'
  BY <1>2 DEF OnlyCommitted, NoKafka, Publishing, Register, Enqueue, Send, Acknowledge, Refuse, Ship, Lose, Age
<1>3. ASSUME NEW c \in Caller, Commit(c) \/ Abort(c)
      PROVE  OnlyCommitted'
  BY <1>3 DEF OnlyCommitted, Commit, Abort
<1>4. ASSUME NEW x \in Executor, NEW t \in Task, Take(x, t)
      PROVE  OnlyCommitted'
  BY <1>4 DEF OnlyCommitted, Take, Due, AfterCommit, Note
<1>5. ASSUME NEW x \in Executor, MarkRunning(x) \/ Finish(x) \/ AutoCommit(x) \/ Crash(x) \/ Stop(x)
      PROVE  OnlyCommitted'
  BY <1>5 DEF OnlyCommitted, MarkRunning, Finish, AutoCommit, Crash, Stop, Ends
<1>6. ASSUME NEW x \in Executor, Return(x) \/ Raise(x)
      PROVE  OnlyCommitted'
  <2>1. run[x].task \in Task
    BY <1>6 DEF Return, Raise, HasTask, AtWork
  <2>2. tx[Owner[run[x].task]] = "committed"
    BY <2>1 DEF Touched, OnlyCommitted
  <2> QED
    BY <1>6, <2>1, <2>2 DEF OnlyCommitted, Return, Raise, Note
<1>7. ASSUME NEW x \in Executor, Start(x)
      PROVE  OnlyCommitted'
  BY <1>7 DEF Start
<1> QED
  BY <1>1, <1>2, <1>3, <1>4, <1>5, <1>6, <1>7, NextCases

\* With inline tasks a request that rolls back leaves no trace of its tasks.
THEOREM InlineTheorem ==
  ASSUME Inline
  PROVE  Spec => []AbortedLeavesNoTrace
<1>1. Init => InlineInv
  BY SkipInit DEF InlineInv, OnlyCommitted, Init
<1>2. InlineInv /\ [Next]_vars => InlineInv'
  BY InlineStep
<1>3. InlineInv => AbortedLeavesNoTrace
  BY DEF InlineInv, OnlyCommitted, AbortedLeavesNoTrace
<1> QED
  BY <1>1, <1>2, <1>3, PTL DEF Spec

\* Inline, a handler that returned has found its ticket.
ReturnedFound ==
  \A t \in Task : "returned" \in trace[t] => "found" \in trace[t]

\* A handler that returns inline runs in a committed request.
LEMMA ReturnedStep ==
  ASSUME Inline, InlineInv, ReturnedFound, [Next]_vars
  PROVE  ReturnedFound'
<1> USE DEF InlineInv, SkipInv, TypeInv, TypeOK
<1>1. CASE UNCHANGED vars
  BY <1>1 DEF ReturnedFound, vars
<1>2. ASSUME NEW t \in Task, Publishing(t)
      PROVE  ReturnedFound'
  BY <1>2 DEF ReturnedFound, Publishing, Register, Enqueue, Send, Acknowledge, Refuse, Ship, Lose, Age, Note
<1>3. ASSUME NEW c \in Caller, Commit(c) \/ Abort(c)
      PROVE  ReturnedFound'
  BY <1>3 DEF ReturnedFound, Commit, Abort
<1>4. ASSUME NEW x \in Executor, NEW t \in Task, Take(x, t)
      PROVE  ReturnedFound'
  BY <1>4 DEF ReturnedFound, Take, Note
<1>5. ASSUME NEW x \in Executor, Return(x)
      PROVE  ReturnedFound'
  <2>1. run[x].task \in Task
    BY <1>5 DEF Return, HasTask, AtWork
  <2>2. Found(run[x].task)
    BY <2>1 DEF Touched, OnlyCommitted, Found
  <2> QED
    BY <1>5, <2>1, <2>2 DEF ReturnedFound, Return
<1>6. ASSUME NEW x \in Executor, MarkRunning(x) \/ Raise(x) \/ Finish(x)
      PROVE  ReturnedFound'
  BY <1>6 DEF ReturnedFound, MarkRunning, Raise, Finish, Note
<1>7. ASSUME NEW x \in Executor, AutoCommit(x) \/ Crash(x) \/ Stop(x) \/ Start(x)
      PROVE  ReturnedFound'
  BY <1>7 DEF ReturnedFound, AutoCommit, Crash, Stop, Ends, Start
<1> QED
  BY <1>1, <1>2, <1>3, <1>4, <1>5, <1>6, <1>7, NextCases

\* With inline tasks a completed task of a committed request has found its
\* ticket, the one that its own request creates included.
THEOREM CompletedTheorem ==
  ASSUME Inline
  PROVE  Spec => []CompletedHasFound
<1>1. Init => InlineInv /\ ReturnedFound
  BY SkipInit DEF InlineInv, OnlyCommitted, ReturnedFound, Init
<1>2. InlineInv /\ [Next]_vars => InlineInv'
  BY InlineStep
<1>3. InlineInv /\ ReturnedFound /\ [Next]_vars => ReturnedFound'
  BY ReturnedStep
<1>4. ReturnedFound /\ VerdictEarned => CompletedHasFound
  BY DEF ReturnedFound, VerdictEarned, CompletedHasFound
<1> QED
  BY <1>1, <1>2, <1>3, <1>4, VerdictTheorem, PTL DEF Spec

-----------------------------------------------------------------------------
(* Who may reopen a final row                                              *)

\* Before publish() has handed a task over nobody can have worked on it.
Unsent ==
  \A t \in Task : pub[t] \in {"no", "registered"} =>
    /\ row[t] \in {"none", "pending"}
    /\ t \notin buffer \cup due
    /\ \A x \in Executor : run[x].task # t

UnsentInv == TypeInv /\ Unsent

\* Publishing and shipping one task.
LEMMA PublishUnsent ==
  ASSUME UnsentInv, NEW t \in Task, Publishing(t)
  PROVE  Unsent'
<1>1. \A u \in Task : pub'[u] \in {"no", "registered"} =>
        pub[u] \in {"no", "registered"} /\ (u = t => Register(t) \/ Lose(t) \/ Age(t))
  BY DEF Publishing, Register, Enqueue, Send, Acknowledge, Refuse, Ship, Lose, Age, UnsentInv, TypeInv, TypeOK, Unsent
<1>2. run' = run
  BY DEF Publishing, Register, Enqueue, Send, Acknowledge, Refuse, Ship, Lose, Age
<1>3. \A u \in Task : u # t => row'[u] = row[u]
  BY DEF Publishing, Register, Enqueue, Send, Acknowledge, Refuse, Ship, Lose, Age, Bump, UnsentInv, TypeInv, TypeOK
<1>4. buffer' \cup due' \subseteq buffer \cup due \cup {t}
  BY DEF Publishing, Register, Enqueue, Send, Acknowledge, Refuse, Ship, Lose, Age
<1>5. Register(t) \/ Lose(t) \/ Age(t) => /\ row'[t] \in {row[t], "pending"}
                                       /\ buffer' \cup due' \subseteq buffer \cup due
  BY DEF Register, Lose, Age, UnsentInv, TypeInv, TypeOK
<1> QED
  BY <1>1, <1>2, <1>3, <1>4, <1>5 DEF UnsentInv, Unsent

\* Every step keeps unsent tasks untouched.
LEMMA UnsentStep ==
  ASSUME UnsentInv, [Next]_vars
  PROVE  UnsentInv'
<1>0. TypeInv'
  BY TypeStep DEF UnsentInv
<1> SUFFICES Unsent'
  BY <1>0 DEF UnsentInv
<1>1. CASE UNCHANGED vars
  BY <1>1 DEF UnsentInv, Unsent, vars
<1>2. ASSUME NEW t \in Task, Publishing(t)
      PROVE  Unsent'
  BY <1>2, PublishUnsent
<1>3. ASSUME NEW c \in Caller, Commit(c) \/ Abort(c)
      PROVE  Unsent'
  BY <1>3 DEF Commit, Abort, UnsentInv, Unsent
<1>4. ASSUME NEW x \in Executor, NEW t \in Task, Take(x, t)
      PROVE  Unsent'
  <2>1. t \in due /\ due' \subseteq due
    BY <1>4 DEF Take, Due
  <2>2. \A y \in Executor : run'[y].task \in {run[y].task, t}
    BY <1>4 DEF Take, At
  <2> QED
    BY <1>4, <2>1, <2>2 DEF Take, UnsentInv, Unsent
<1>5. ASSUME NEW x \in Executor, MarkRunning(x) \/ Return(x) \/ Raise(x) \/ Finish(x)
      PROVE  Unsent'
  <2>1. \A u \in Task : u # run[x].task => row'[u] = row[u]
    BY <1>5 DEF MarkRunning, Return, Raise, Finish, Bump, UnsentInv, TypeInv, TypeOK
  <2>2. \A y \in Executor : run'[y].task \in {run[y].task, NoTask}
    BY <1>5 DEF MarkRunning, Return, Raise, Finish, At, UnsentInv, TypeInv, TypeOK
  <2>3. UNCHANGED <<pub, buffer, due>>
    BY <1>5 DEF MarkRunning, Return, Raise, Finish
  <2> QED
    BY <2>1, <2>2, <2>3 DEF UnsentInv, Unsent
<1>6. ASSUME NEW x \in Executor, AutoCommit(x) \/ Crash(x) \/ Stop(x)
      PROVE  Unsent'
  <2>1. UNCHANGED <<pub, row, buffer>> /\ due' \subseteq due
    BY <1>6 DEF AutoCommit, Crash, Stop, Ends
  <2>2. \A y \in Executor : run'[y].task \in {run[y].task, NoTask}
    <3>1. UNCHANGED run \/ run' = [run EXCEPT ![x] = At(NoTask, "down")]
      BY <1>6 DEF AutoCommit, Crash, Stop, Ends
    <3> QED
      BY <3>1 DEF At, UnsentInv, TypeInv, TypeOK
  <2> QED
    BY <2>1, <2>2 DEF UnsentInv, Unsent
<1>7. ASSUME NEW x \in Executor, Start(x)
      PROVE  Unsent'
  <2>1. \A u \in Task : row'[u] \in {row[u], "pending"}
    BY <1>7 DEF Start, UnsentInv, TypeInv, TypeOK
  <2>2. \A y \in Executor : run'[y].task = run[y].task
    BY <1>7 DEF Start, UnsentInv, TypeInv, TypeOK
  <2> QED
    BY <1>7, <2>1, <2>2 DEF Start, UnsentInv, Unsent
<1> QED
  BY <1>1, <1>2, <1>3, <1>4, <1>5, <1>6, <1>7, NextCases

\* A row that changes although it is final is the row of a task at work.
LEMMA FinalStep ==
  ASSUME UnsentInv, [Next]_vars, NEW t \in Task, row[t] \in Final, row'[t] # row[t]
  PROVE  \/ \E x \in Executor : run[x].task = t
         \/ pub[t] = "sent" /\ pub'[t] = "refused" /\ row'[t] = "failed"
<1>1. pub[t] \notin {"no", "registered"}
  BY DEF UnsentInv, Unsent, Final
<1>2. ASSUME NEW u \in Task, Publishing(u)
      PROVE  pub[t] = "sent" /\ pub'[t] = "refused" /\ row'[t] = "failed"
  <2>1. ~Register(t)
    BY <1>1 DEF Register
  <2>2. u = t /\ Refuse(t)
    BY <1>2, <2>1 DEF Publishing, Register, Enqueue, Send, Acknowledge, Refuse, Ship, Lose, Age, Bump,
                      UnsentInv, TypeInv, TypeOK
  <2>3. pub[t] = "sent"
    BY <1>1, <2>2 DEF Refuse, Sending, Awaiting
  <2> QED
    BY <2>2, <2>3 DEF Refuse, Bump, UnsentInv, TypeInv, TypeOK
<1>3. ASSUME NEW c \in Caller, Commit(c) \/ Abort(c)
      PROVE  FALSE
  BY <1>3 DEF Commit, Abort
<1>4. ASSUME NEW x \in Executor, NEW u \in Task, Take(x, u)
      PROVE  FALSE
  BY <1>4 DEF Take
<1>5. ASSUME NEW x \in Executor, MarkRunning(x) \/ Return(x) \/ Raise(x) \/ Finish(x)
      PROVE  run[x].task = t
  BY <1>5 DEF MarkRunning, Return, Raise, Finish, Bump, UnsentInv, TypeInv, TypeOK
<1>6. ASSUME NEW x \in Executor, AutoCommit(x) \/ Crash(x) \/ Stop(x) \/ Start(x)
      PROVE  FALSE
  <2>1. ~UNCHANGED row
    OBVIOUS
  <2>2. Start(x)
    BY <1>6, <2>1 DEF AutoCommit, Crash, Stop, Ends
  <2>3. row'[t] = row[t] \/ row[t] = "running"
    BY <2>2 DEF Start, Orphans, UnsentInv, TypeInv, TypeOK
  <2> QED
    BY <2>3 DEF Final
<1>7. ASSUME NEW x \in Executor, MarkRunning(x) \/ Return(x) \/ Raise(x) \/ Finish(x)
      PROVE  \E y \in Executor : run[y].task = t
  BY <1>5, <1>7
<1>8. Next
  BY DEF vars
<1> QED
  BY <1>2, <1>3, <1>4, <1>6, <1>7, <1>8, NextCases

\* In any mode and under any faults a final row is rewritten only by a worker at
\* the task, or made failed by a publisher that gives up waiting for the broker;
\* the recovery of orphans never touches it.
THEOREM FinalTheorem == Spec => FinalUntilRetaken
<1>1. Init => UnsentInv
  <2>1. Init => Unsent
    BY DEF Init, Unsent, At
  <2> QED
    BY <2>1, InitType DEF UnsentInv
<1>2. UnsentInv /\ [Next]_vars => UnsentInv'
  BY UnsentStep
<1>3. UnsentInv /\ [Next]_vars
        => [\A t \in Task :
              row[t] \in Final /\ row'[t] # row[t]
                => \/ \E x \in Executor : run[x].task = t
                   \/ pub[t] = "sent" /\ pub'[t] = "refused" /\ row'[t] = "failed"]_vars
  BY FinalStep
<1> QED
  BY <1>1, <1>2, <1>3, PTL DEF Spec, FinalUntilRetaken

-----------------------------------------------------------------------------
(* A message is in the mailbox until it has been handled                   *)

\* Without graceful stops: a message that is due or in work has arrived, one
\* that an executor is done with has ended, and one that has arrived and has
\* not ended is due.
DueArrived == \A t \in Task : t \in due => "arrived" \in trace[t]
HeldArrived ==
  \A x \in Executor, t \in Task : run[x].task = t \/ t \in seen[x] => "arrived" \in trace[t]
SeenEnded == \A x \in Executor, t \in Task : t \in seen[x] => Ended(t)
UnhandledIsDue == \A t \in Task : "arrived" \in trace[t] /\ ~Ended(t) => t \in due

MailInv == VerdictInv /\ DueArrived /\ HeldArrived /\ SeenEnded /\ UnhandledIsDue

\* A verdict of the handler is the end of its task.
LEMMA VerdictEnds ==
  ASSUME VerdictInv, NEW x \in Executor, run[x].step \in {"returned", "raised"}
  PROVE  run[x].task \in Task /\ Ended(run[x].task)
<1>1. run[x].task \in Task
  BY DEF VerdictInv, TypeInv, HasTask, AtWork
<1>2. run[x].step \in trace[run[x].task]
  BY DEF VerdictInv, OnRecord
<1> QED
  BY <1>1, <1>2 DEF Ended

\* The tasks that have ended, in a step that records nothing of the kind.
LEMMA SameEnds ==
  ASSUME \A t \in Task : trace'[t] \cap {"returned", "raised"} = trace[t] \cap {"returned", "raised"}
  PROVE  /\ \A t \in Task : Ended(t)' <=> Ended(t)
         /\ {t \in Task : Ended(t)}' = {t \in Task : Ended(t)}
BY DEF Ended

\* What the publisher and the producer do to the mailbox: a message arrives.
LEMMA PublishMail ==
  ASSUME MailInv, ~Inline, NEW t \in Task, Publishing(t)
  PROVE  /\ UNCHANGED <<run, seen>>
         /\ \A u \in Task : trace'[u] \cap {"returned", "raised"} = trace[u] \cap {"returned", "raised"}
         /\ \/ due' = due /\ \A u \in Task : "arrived" \in trace'[u] <=> "arrived" \in trace[u]
            \/ /\ due' = due \cup {t}
               /\ \A u \in Task : "arrived" \in trace'[u] <=> "arrived" \in trace[u] \/ u = t
<1> USE DEF MailInv, VerdictInv, TypeInv, TypeOK
<1>1. CASE Register(t) \/ Lose(t) \/ Age(t)
  BY <1>1 DEF Register, Lose, Age
<1>2. CASE Enqueue(t)
  BY <1>2 DEF Enqueue
<1>3. CASE Send(t) \/ Acknowledge(t)
  BY <1>3 DEF Send, Acknowledge
<1>4. CASE Refuse(t)
  BY <1>4 DEF Refuse, Note
<1>5. CASE Ship(t)
  BY <1>5 DEF Ship, Note
<1> QED
  BY <1>1, <1>2, <1>3, <1>4, <1>5 DEF Publishing

\* A step in which nothing arrives or leaves keeps the account of the mailbox:
\* work is taken up from what is due, and put aside when it has ended.
LEMMA QuietMail ==
  ASSUME MailInv, [Next]_vars,
         UNCHANGED due,
         \A u \in Task : "arrived" \in trace'[u] => "arrived" \in trace[u],
         \A x \in Executor, u \in Task :
           run'[x].task = u => run[x].task = u \/ u \in due,
         \A x \in Executor, u \in Task :
           u \in seen'[x] => u \in seen[x] \/ (run[x].task = u /\ Ended(u))
  PROVE  DueArrived' /\ HeldArrived' /\ SeenEnded' /\ UnhandledIsDue'
<1>a. \A t \in Task : trace[t] \subseteq trace'[t]
  BY TraceGrows DEF MailInv, VerdictInv
<1>b. \A t \in Task : Ended(t) => Ended(t)'
  BY <1>a DEF Ended
<1>1. DueArrived'
  BY <1>a DEF MailInv, DueArrived
<1>2. HeldArrived'
  BY <1>a DEF MailInv, DueArrived, HeldArrived
<1>3. SeenEnded'
  BY <1>b DEF MailInv, SeenEnded
<1>4. UnhandledIsDue'
  BY <1>b DEF MailInv, UnhandledIsDue
<1> QED
  BY <1>1, <1>2, <1>3, <1>4

\* Every step but a graceful stop keeps the account of the mailbox.
LEMMA MailStep ==
  ASSUME MailInv, ~Inline, "stop" \notin Faults, [Next]_vars
  PROVE  MailInv'
<1>0. VerdictInv'
  BY VerdictStep DEF MailInv
<1> SUFFICES DueArrived' /\ HeldArrived' /\ SeenEnded' /\ UnhandledIsDue'
  BY <1>0 DEF MailInv
<1>a. \A t \in Task : trace[t] \subseteq trace'[t]
  BY TraceGrows DEF MailInv, VerdictInv
<1>b. \A t \in Task : Ended(t) => Ended(t)'
  BY <1>a DEF Ended
<1>1. CASE UNCHANGED vars
  BY <1>1 DEF MailInv, DueArrived, HeldArrived, SeenEnded, UnhandledIsDue, Ended, vars
<1>2. ASSUME NEW t \in Task, Publishing(t)
      PROVE  DueArrived' /\ HeldArrived' /\ SeenEnded' /\ UnhandledIsDue'
  <2>1. /\ UNCHANGED <<run, seen>>
        /\ \A u \in Task : trace'[u] \cap {"returned", "raised"} = trace[u] \cap {"returned", "raised"}
    BY <1>2, PublishMail
  <2>2. \A u \in Task : Ended(u)' <=> Ended(u)
    BY <2>1, SameEnds
  <2>3. \/ due' = due /\ \A u \in Task : "arrived" \in trace'[u] <=> "arrived" \in trace[u]
        \/ /\ due' = due \cup {t}
           /\ \A u \in Task : "arrived" \in trace'[u] <=> "arrived" \in trace[u] \/ u = t
    BY <1>2, PublishMail
  <2>4. DueArrived' /\ UnhandledIsDue'
    BY <2>2, <2>3 DEF MailInv, DueArrived, UnhandledIsDue
  <2>5. HeldArrived'
    BY <1>a, <2>1 DEF MailInv, HeldArrived
  <2>6. SeenEnded'
    BY <2>1, <2>2 DEF MailInv, SeenEnded
  <2> QED
    BY <2>4, <2>5, <2>6
<1>4. ASSUME NEW c \in Caller, Commit(c) \/ Abort(c)
      PROVE  DueArrived' /\ HeldArrived' /\ SeenEnded' /\ UnhandledIsDue'
  <2>1. UNCHANGED <<due, run, seen, trace>>
    BY <1>4 DEF Commit, Abort
  <2> QED
    BY <2>1, QuietMail
<1>5. ASSUME NEW x \in Executor, NEW t \in Task, Take(x, t)
      PROVE  DueArrived' /\ HeldArrived' /\ SeenEnded' /\ UnhandledIsDue'
  <2>1. UNCHANGED <<due, seen>> /\ t \in due
    BY <1>5 DEF Take, Due
  <2>2. \A y \in Executor : run'[y].task = run[y].task \/ run'[y].task = t
    BY <1>5 DEF Take, At, MailInv, VerdictInv, TypeInv, TypeOK
  <2>3. \A u \in Task : "arrived" \in trace'[u] => "arrived" \in trace[u]
    BY <1>5 DEF Take, Note, MailInv, VerdictInv, TypeInv, TypeOK
  <2>4. /\ \A y \in Executor, u \in Task : run'[y].task = u => run[y].task = u \/ u \in due
        /\ \A y \in Executor, u \in Task :
             u \in seen'[y] => u \in seen[y] \/ (run[y].task = u /\ Ended(u))
    BY <2>1, <2>2
  <2> QED
    BY <2>1, <2>3, <2>4, QuietMail
<1>6. ASSUME NEW x \in Executor, MarkRunning(x) \/ Return(x) \/ Raise(x)
      PROVE  DueArrived' /\ HeldArrived' /\ SeenEnded' /\ UnhandledIsDue'
  <2>1. UNCHANGED <<due, seen>> /\ \E s \in Steps : run' = [run EXCEPT ![x].step = s]
    BY <1>6 DEF MarkRunning, Return, Raise, Steps
  <2>2. \A y \in Executor : run'[y].task = run[y].task
    BY <2>1 DEF MailInv, VerdictInv, TypeInv, TypeOK
  <2>3. \A u \in Task : "arrived" \in trace'[u] => "arrived" \in trace[u]
    <3>1. TypeInv
      BY DEF MailInv, VerdictInv
    <3>2. CASE Return(x)
      BY <3>1, <3>2, ReturnRecords
    <3>3. CASE MarkRunning(x)
      BY <3>3 DEF MarkRunning
    <3>4. CASE Raise(x)
      BY <3>1, <3>4 DEF Raise, Note, TypeInv, TypeOK
    <3> QED
      BY <1>6, <3>2, <3>3, <3>4
  <2>4. /\ \A y \in Executor, u \in Task : run'[y].task = u => run[y].task = u \/ u \in due
        /\ \A y \in Executor, u \in Task :
             u \in seen'[y] => u \in seen[y] \/ (run[y].task = u /\ Ended(u))
    BY <2>1, <2>2
  <2> QED
    BY <2>1, <2>3, <2>4, QuietMail
<1>7. ASSUME NEW x \in Executor, Finish(x)
      PROVE  DueArrived' /\ HeldArrived' /\ SeenEnded' /\ UnhandledIsDue'
  <2>1. Ended(run[x].task) /\ UNCHANGED <<due, trace>>
    BY <1>7, VerdictEnds DEF Finish, MailInv
  <2>2. /\ \A y \in Executor : run'[y] = run[y] \/ run'[y].task = NoTask
        /\ \A y \in Executor : seen'[y] = seen[y] \/ (y = x /\ seen'[y] = seen[y] \cup {run[x].task})
    BY <1>7 DEF Finish, At, MailInv, VerdictInv, TypeInv, TypeOK
  <2>3. \A y \in Executor, u \in Task : run'[y].task = u => run[y].task = u \/ u \in due
    BY <2>2, TaskAssumption
  <2>4. \A y \in Executor, u \in Task :
          u \in seen'[y] => u \in seen[y] \/ (run[y].task = u /\ Ended(u))
    BY <2>1, <2>2
  <2> QED
    BY <2>1, <2>3, <2>4, QuietMail
<1>8. ASSUME NEW x \in Executor, AutoCommit(x)
      PROVE  DueArrived' /\ HeldArrived' /\ SeenEnded' /\ UnhandledIsDue'
  <2>1. /\ due' = due \ seen[x] /\ UNCHANGED <<run, trace>>
        /\ \A y \in Executor : seen'[y] \subseteq seen[y]
    BY <1>8 DEF AutoCommit, Consumed, MailInv, VerdictInv, TypeInv, TypeOK
  <2>2. \A u \in Task : Ended(u)' <=> Ended(u)
    BY <2>1 DEF Ended
  <2> QED
    BY <2>1, <2>2 DEF MailInv, DueArrived, HeldArrived, SeenEnded, UnhandledIsDue
<1>9. ASSUME NEW x \in Executor, Crash(x)
      PROVE  DueArrived' /\ HeldArrived' /\ SeenEnded' /\ UnhandledIsDue'
  <2>1. Ends(x, {})
    BY <1>9 DEF Crash
  <2>2. UNCHANGED <<due, trace>>
    BY <2>1 DEF Ends
  <2>3. \A y \in Executor : \/ run'[y] = run[y] /\ seen'[y] = seen[y]
                            \/ run'[y].task = NoTask /\ seen'[y] = {}
    BY <2>1 DEF Ends, At, MailInv, VerdictInv, TypeInv, TypeOK
  <2>4. /\ \A y \in Executor, u \in Task : run'[y].task = u => run[y].task = u \/ u \in due
        /\ \A y \in Executor, u \in Task :
             u \in seen'[y] => u \in seen[y] \/ (run[y].task = u /\ Ended(u))
    BY <2>3, TaskAssumption
  <2> QED
    BY <2>2, <2>4, QuietMail
<1>10. ASSUME NEW x \in Executor, Stop(x)
       PROVE  FALSE
  BY <1>10 DEF Stop
<1>11. ASSUME NEW x \in Executor, Start(x)
       PROVE  DueArrived' /\ HeldArrived' /\ SeenEnded' /\ UnhandledIsDue'
  <2>1. UNCHANGED <<due, seen, trace>>
    BY <1>11 DEF Start
  <2>2. \A y \in Executor : run'[y].task = run[y].task
    BY <1>11 DEF Start, MailInv, VerdictInv, TypeInv, TypeOK
  <2>3. /\ \A y \in Executor, u \in Task : run'[y].task = u => run[y].task = u \/ u \in due
        /\ \A y \in Executor, u \in Task :
             u \in seen'[y] => u \in seen[y] \/ (run[y].task = u /\ Ended(u))
    BY <2>1, <2>2
  <2> QED
    BY <2>1, <2>3, QuietMail
<1> QED
  BY <1>1, <1>2, <1>4, <1>5, <1>6, <1>7, <1>8, <1>9, <1>10, <1>11, NextCases

\* Nothing has been published yet.
LEMMA MailInit == Init => MailInv
<1> SUFFICES ASSUME Init PROVE MailInv
  OBVIOUS
<1>1. TypeInv
  BY InitType
<1>2. VerdictEarned /\ OnRecord
  BY DEF Init, VerdictEarned, OnRecord, At
<1>3. DueArrived /\ HeldArrived /\ SeenEnded /\ UnhandledIsDue
  BY TaskAssumption DEF Init, DueArrived, HeldArrived, SeenEnded, UnhandledIsDue, At
<1> QED
  BY <1>1, <1>2, <1>3 DEF MailInv, VerdictInv

\* A step that ends no run of a handler is an arrival at the mailbox, a
\* removal of tasks that have ended, or nothing to it.
LEMMA MailboxQuiet ==
  ASSUME {t \in Task : Ended(t)}' = {t \in Task : Ended(t)},
         \/ UNCHANGED due
         \/ \E t \in Task : due' = due \cup {t}
         \/ \E done \in SUBSET Task :
              done \subseteq due /\ done \subseteq {t \in Task : Ended(t)} /\ due' = due \ done
  PROVE  [Mailbox!Next]_(Mailbox!mvars)
BY DEF Mailbox!Next, Mailbox!Arrive, Mailbox!Remove, Mailbox!mvars

\* Each step is a step of the mailbox.
LEMMA MailboxStep ==
  ASSUME MailInv, ~Inline, "stop" \notin Faults, [Next]_vars
  PROVE  [Mailbox!Next]_(Mailbox!mvars)
<1> USE DEF MailInv, VerdictInv, TypeInv, TypeOK
<1>1. CASE UNCHANGED vars
  <2>1. \A t \in Task : trace'[t] \cap {"returned", "raised"} = trace[t] \cap {"returned", "raised"}
    BY <1>1 DEF vars
  <2>2. {t \in Task : Ended(t)}' = {t \in Task : Ended(t)}
    BY <2>1, SameEnds
  <2>3. UNCHANGED due
    BY <1>1 DEF vars
  <2> QED
    BY <2>2, <2>3, MailboxQuiet
<1>2. ASSUME NEW t \in Task, Publishing(t)
      PROVE  [Mailbox!Next]_(Mailbox!mvars)
  <2>1. \A u \in Task : trace'[u] \cap {"returned", "raised"} = trace[u] \cap {"returned", "raised"}
    BY <1>2, PublishMail
  <2>2. {u \in Task : Ended(u)}' = {u \in Task : Ended(u)}
    BY <2>1, SameEnds
  <2>3. UNCHANGED due \/ due' = due \cup {t}
    BY <1>2, PublishMail
  <2> QED
    BY <2>2, <2>3, MailboxQuiet
<1>3. ASSUME NEW x \in Executor, NEW t \in Task, Take(x, t)
      PROVE  [Mailbox!Next]_(Mailbox!mvars)
  <2>1. \A u \in Task : trace'[u] \cap {"returned", "raised"} = trace[u] \cap {"returned", "raised"}
    BY <1>3 DEF Take, Note
  <2>2. {u \in Task : Ended(u)}' = {u \in Task : Ended(u)}
    BY <2>1, SameEnds
  <2>3. UNCHANGED due
    BY <1>3 DEF Take
  <2> QED
    BY <2>2, <2>3, MailboxQuiet
<1>4. ASSUME NEW x \in Executor, Return(x) \/ Raise(x)
      PROVE  [Mailbox!Next]_(Mailbox!mvars)
  <2> DEFINE t == run[x].task
  <2>1. t \in Task
    BY <1>4 DEF Return, Raise, HasTask, AtWork
  <2>2. UNCHANGED due
    BY <1>4 DEF Return, Raise
  <2>3. "arrived" \in trace[t]
    BY <2>1 DEF HeldArrived
  <2>4. /\ \A u \in Task \ {t} : trace'[u] = trace[u]
        /\ trace'[t] \cap {"returned", "raised"} # {}
    <3>1. CASE Return(x)
      <4>1. "returned" \in trace'[t] /\ \A u \in Task : u # t => trace'[u] = trace[u]
        BY <3>1, ReturnRecords
      <4> QED
        BY <4>1
    <3>2. CASE Raise(x)
      BY <2>1, <3>2 DEF Raise, Note
    <3> QED
      BY <1>4, <3>1, <3>2
  <2>5. {u \in Task : Ended(u)}' = {u \in Task : Ended(u)} \cup {t}
    BY <2>1, <2>4 DEF Ended
  <2>6. CASE Ended(t)
    BY <2>2, <2>5, <2>6, <2>1 DEF Mailbox!mvars
  <2>7. CASE ~Ended(t)
    <3>1. t \in due
      BY <2>1, <2>3, <2>7 DEF UnhandledIsDue
    <3>2. Mailbox!Handle(t)
      BY <2>2, <2>5, <3>1 DEF Mailbox!Handle
    <3> QED
      BY <2>1, <3>2 DEF Mailbox!Next
  <2> QED
    BY <2>6, <2>7
<1>5. ASSUME NEW x \in Executor, MarkRunning(x) \/ Finish(x)
      PROVE  [Mailbox!Next]_(Mailbox!mvars)
  <2>1. UNCHANGED <<due, trace>>
    BY <1>5 DEF MarkRunning, Finish
  <2>2. {u \in Task : Ended(u)}' = {u \in Task : Ended(u)}
    BY <2>1, SameEnds
  <2> QED
    BY <2>1, <2>2, MailboxQuiet
<1>6. ASSUME NEW x \in Executor, AutoCommit(x)
      PROVE  [Mailbox!Next]_(Mailbox!mvars)
  <2> DEFINE done == due \cap seen[x]
  <2>1. due' = due \ done /\ UNCHANGED trace
    BY <1>6 DEF AutoCommit, Consumed
  <2>2. {u \in Task : Ended(u)}' = {u \in Task : Ended(u)}
    BY <2>1, SameEnds
  <2>3. done \in SUBSET Task /\ done \subseteq due /\ done \subseteq {u \in Task : Ended(u)}
    BY DEF SeenEnded
  <2> QED
    BY <2>1, <2>2, <2>3, MailboxQuiet
<1>7. ASSUME NEW x \in Executor, Crash(x) \/ Start(x)
      PROVE  [Mailbox!Next]_(Mailbox!mvars)
  <2>1. UNCHANGED <<due, trace>>
    BY <1>7 DEF Crash, Ends, Start
  <2>2. {u \in Task : Ended(u)}' = {u \in Task : Ended(u)}
    BY <2>1, SameEnds
  <2> QED
    BY <2>1, <2>2, MailboxQuiet
<1>8. ASSUME NEW c \in Caller, Commit(c) \/ Abort(c)
      PROVE  [Mailbox!Next]_(Mailbox!mvars)
  <2>1. UNCHANGED <<due, trace>>
    BY <1>8 DEF Commit, Abort
  <2>2. {u \in Task : Ended(u)}' = {u \in Task : Ended(u)}
    BY <2>1, SameEnds
  <2> QED
    BY <2>1, <2>2, MailboxQuiet
<1>9. ASSUME NEW x \in Executor, Stop(x)
      PROVE  FALSE
  BY <1>9 DEF Stop
<1> QED
  BY <1>1, <1>2, <1>3, <1>4, <1>5, <1>6, <1>7, <1>8, <1>9, NextCases

\* With Kafka and no graceful stop, delivery implements the mailbox: a message
\* is there until a run of its handler has returned or raised, for any number
\* of tasks, workers and crashes..
THEOREM MailboxTheorem ==
  ASSUME ~Inline, "stop" \notin Faults
  PROVE  Spec => ImplementsMailbox
<1>1. Init => MailInv
  BY MailInit
<1>2. MailInv /\ [Next]_vars => MailInv'
  BY MailStep
<1>3. Init => Mailbox!Init
  BY DEF Init, Mailbox!Init, Ended
<1>4. MailInv /\ [Next]_vars => [Mailbox!Next]_(Mailbox!mvars)
  BY MailboxStep
<1> QED
  BY <1>1, <1>2, <1>3, <1>4, PTL DEF Spec, ImplementsMailbox, Mailbox!Spec

-----------------------------------------------------------------------------
(* No message is stranded                                                  *)

\* An executor that is not at work holds no task.
FreeWhenIdle == \A x \in Executor : run[x].step \notin AtWork => run[x].task = NoTask

\* Every step keeps idle executors free.
LEMMA FreeStep ==
  ASSUME TypeInv, FreeWhenIdle, [Next]_vars
  PROVE  FreeWhenIdle'
<1> USE DEF TypeInv, TypeOK
<1>1. CASE UNCHANGED vars
  BY <1>1 DEF FreeWhenIdle, vars
<1>2. ASSUME NEW t \in Task, Publishing(t)
      PROVE  FreeWhenIdle'
  <2>1. UNCHANGED run
    BY <1>2 DEF Publishing, Register, Enqueue, Send, Acknowledge, Refuse, Ship, Lose, Age
  <2> QED
    BY <2>1 DEF FreeWhenIdle
<1>3. ASSUME NEW c \in Caller, Commit(c) \/ Abort(c)
      PROVE  FreeWhenIdle'
  BY <1>3 DEF FreeWhenIdle, Commit, Abort
<1>4. ASSUME NEW x \in Executor, NEW t \in Task, Take(x, t)
      PROVE  FreeWhenIdle'
  BY <1>4 DEF FreeWhenIdle, Take, At, AtWork
<1>5. ASSUME NEW x \in Executor, MarkRunning(x) \/ Return(x) \/ Raise(x)
      PROVE  FreeWhenIdle'
  <2>1. run[x].step \in AtWork
    BY <1>5 DEF MarkRunning, Return, Raise, AtWork
  <2>2. /\ \A y \in Executor : y = x \/ run'[y] = run[y]
        /\ run'[x].step \in {"running", "returned", "raised"}
    BY <1>5 DEF MarkRunning, Return, Raise
  <2> QED
    BY <2>1, <2>2 DEF FreeWhenIdle, AtWork
<1>6. ASSUME NEW x \in Executor, Finish(x)
      PROVE  FreeWhenIdle'
  BY <1>6 DEF FreeWhenIdle, Finish, At
<1>7. ASSUME NEW x \in Executor, NEW acked, Ends(x, acked)
      PROVE  FreeWhenIdle'
  BY <1>7 DEF FreeWhenIdle, Ends, At
<1>8. ASSUME NEW x \in Executor, AutoCommit(x)
      PROVE  FreeWhenIdle'
  BY <1>8 DEF FreeWhenIdle, AutoCommit
<1>9. ASSUME NEW x \in Executor, Start(x)
      PROVE  FreeWhenIdle'
  BY <1>9 DEF FreeWhenIdle, Start, AtWork
<1>10. ASSUME NEW x \in Executor, Crash(x) \/ Stop(x)
       PROVE  FreeWhenIdle'
  BY <1>7, <1>10 DEF Crash, Stop
<1> QED
  BY <1>1, <1>2, <1>3, <1>4, <1>5, <1>6, <1>8, <1>9, <1>10, NextCases

\* With Kafka and no graceful stop, nothing stands between a message and its
\* handling: while no run of it has ended, an executor is at work on it or any
\* executor that is idle may take it.  The safety half of EventuallyHandled,
\* for any number of tasks and workers.
NeverStranded ==
  \A t \in Task :
    "arrived" \in trace[t] /\ ~Ended(t)
      => \/ \E x \in Executor : run[x].task = t /\ run[x].step \in AtWork
         \/ \A x \in Executor : Due(x, t)

THEOREM StrandedTheorem ==
  ASSUME ~Inline, "stop" \notin Faults
  PROVE  Spec => []NeverStranded
<1>1. Init => MailInv /\ FreeWhenIdle
  <2>1. Init => FreeWhenIdle
    BY DEF Init, FreeWhenIdle, At
  <2> QED
    BY <2>1, MailInit
<1>2. MailInv /\ FreeWhenIdle /\ [Next]_vars => MailInv' /\ FreeWhenIdle'
  BY MailStep, FreeStep DEF MailInv, VerdictInv
<1>3. MailInv /\ FreeWhenIdle => NeverStranded
  <2> SUFFICES ASSUME MailInv, FreeWhenIdle, NEW t \in Task, "arrived" \in trace[t], ~Ended(t),
                      ~\E x \in Executor : run[x].task = t /\ run[x].step \in AtWork,
                      NEW x \in Executor
               PROVE  Due(x, t)
    BY DEF NeverStranded
  <2>1. t \in due
    BY DEF MailInv, UnhandledIsDue
  <2>2. \A y \in Executor : t \notin seen[y]
    BY DEF MailInv, SeenEnded
  <2>3. \A y \in Executor : run[y].task # t
    BY TaskAssumption DEF FreeWhenIdle
  <2> QED
    BY <2>1, <2>2, <2>3 DEF Due, OneReader
<1> QED
  BY <1>1, <1>2, <1>3, PTL DEF Spec

-----------------------------------------------------------------------------
(* What an executor holds                                                  *)

\* An executor takes a task, or it keeps what it holds or lets go of it.
LEMMA HeldCases ==
  ASSUME TypeInv, [Next]_vars
  PROVE  \/ \E x \in Executor, t \in Task : Take(x, t)
         \/ \A x \in Executor : run'[x].task \in {run[x].task, NoTask}
<1> USE DEF TypeInv, TypeOK
<1> DEFINE Kept == \A x \in Executor : run'[x].task \in {run[x].task, NoTask}
<1>1. ASSUME UNCHANGED run PROVE Kept
  BY <1>1
<1>2. CASE UNCHANGED vars
  BY <1>1, <1>2 DEF vars
<1>3. ASSUME NEW t \in Task, Publishing(t)
      PROVE  Kept
  BY <1>1, <1>3 DEF Publishing, Register, Enqueue, Send, Acknowledge, Refuse, Ship, Lose, Age
<1>4. ASSUME NEW c \in Caller, Commit(c) \/ Abort(c) PROVE Kept
  BY <1>1, <1>4 DEF Commit, Abort
<1>5. ASSUME NEW x \in Executor, MarkRunning(x) \/ Return(x) \/ Raise(x) \/ Start(x) PROVE Kept
  BY <1>5 DEF MarkRunning, Return, Raise, Start
<1>6. ASSUME NEW x \in Executor, Finish(x) PROVE Kept
  BY <1>6 DEF Finish, At
<1>7. ASSUME NEW x \in Executor, NEW acked, Ends(x, acked) PROVE Kept
  BY <1>7 DEF Ends, At
<1>8. ASSUME NEW x \in Executor, AutoCommit(x) \/ Crash(x) \/ Stop(x) PROVE Kept
  BY <1>1, <1>7, <1>8 DEF AutoCommit, Crash, Stop
<1> QED
  BY <1>2, <1>3, <1>4, <1>5, <1>6, <1>8, NextCases

\* What an executor begins to hold was due.
LEMMA TaskHeld ==
  ASSUME TypeInv, [Next]_vars, NEW x \in Executor
  PROVE  \/ run'[x].task \in {run[x].task, NoTask}
         \/ \E u \in due : run'[x].task = u
<1>1. ASSUME NEW y \in Executor, NEW t \in Task, Take(y, t)
      PROVE  run'[x].task = run[x].task \/ \E u \in due : run'[x].task = u
  <2>1. t \in due
    BY <1>1 DEF Take, Due
  <2>2. run'[x] = IF x = y THEN At(t, "taken") ELSE run[x]
    BY <1>1 DEF Take, TypeInv, TypeOK
  <2> QED
    BY <2>1, <2>2 DEF At
<1> QED
  BY <1>1, HeldCases

-----------------------------------------------------------------------------
(* How often a task is run, and by how many                                *)

\* Inline: a queued handler has not been taken yet, and one that its request
\* has not queued has neither been taken nor is it due.
FreshInQueue ==
  \A t \in Task :
    /\ t \in due => "taken" \notin trace[t]
    /\ pub[t] # "accepted" => t \notin due /\ "taken" \notin trace[t]

LEMMA FreshStep ==
  ASSUME TypeInv, FreshInQueue, Inline, NoKafka, [Next]_vars
  PROVE  FreshInQueue'
<1> USE DEF TypeInv, TypeOK
<1>1. CASE UNCHANGED vars
  BY <1>1 DEF FreshInQueue, vars
<1>2. ASSUME NEW t \in Task, Register(t)
      PROVE  FreshInQueue'
  BY <1>2 DEF FreshInQueue, Register
<1>3. ASSUME NEW t \in Task, Enqueue(t)
      PROVE  FreshInQueue'
  BY <1>3 DEF FreshInQueue, Enqueue, Sending
<1>4. ASSUME NEW t \in Task, Send(t) \/ Acknowledge(t) \/ Refuse(t) \/ Ship(t)
      PROVE  FALSE
  BY <1>4 DEF Send, Acknowledge, Refuse, Ship, NoKafka
<1>5. ASSUME NEW t \in Task, Lose(t) \/ Age(t)
      PROVE  FreshInQueue'
  BY <1>5 DEF FreshInQueue, Lose, Age
<1>6. ASSUME NEW c \in Caller, Commit(c) \/ Abort(c)
      PROVE  FreshInQueue'
  <2>1. UNCHANGED <<pub, trace>> /\ due' \subseteq due
    BY <1>6 DEF Commit, Abort
  <2> QED
    BY <2>1 DEF FreshInQueue
<1>7. ASSUME NEW x \in Executor, NEW t \in Task, Take(x, t)
      PROVE  FreshInQueue'
  <2>1. t \in due /\ due' = due \ {t} /\ pub' = pub
    BY <1>7 DEF Take, Due
  <2>2. \A u \in Task : u # t => trace'[u] = trace[u]
    BY <1>7 DEF Take, Note
  <2> QED
    BY <2>1, <2>2 DEF FreshInQueue
<1>8. ASSUME NEW x \in Executor, MarkRunning(x) \/ Return(x) \/ Raise(x) \/ Finish(x)
      PROVE  FreshInQueue'
  <2>1. UNCHANGED <<pub, due>>
    BY <1>8 DEF MarkRunning, Return, Raise, Finish
  <2>2. \A u \in Task : "taken" \in trace'[u] => "taken" \in trace[u]
    <3>1. CASE Return(x)
      BY <3>1, ReturnRecords
    <3>2. CASE MarkRunning(x) \/ Raise(x) \/ Finish(x)
      BY <3>2 DEF MarkRunning, Raise, Finish, Note
    <3> QED
      BY <1>8, <3>1, <3>2
  <2> QED
    BY <2>1, <2>2 DEF FreshInQueue
<1>9. ASSUME NEW x \in Executor, AutoCommit(x) \/ Crash(x) \/ Stop(x) \/ Start(x)
      PROVE  FreshInQueue'
  <2>1. UNCHANGED <<pub, trace>> /\ due' \subseteq due
    BY <1>9 DEF AutoCommit, Crash, Stop, Ends, Start
  <2> QED
    BY <2>1 DEF FreshInQueue
<1> QED
  BY <1>1, <1>2, <1>3, <1>4, <1>5, <1>6, <1>7, <1>8, <1>9, NextCases DEF Publishing

\* Run after the commit, in the request's own thread, a handler is never begun
\* a second time, whatever crashes.  (Through Kafka it may be: see Mailbox.)
NeverTwice ==
  [][\A t \in Task : "taken" \in trace[t] =>
       \A x \in Executor : run[x].task # t => run'[x].task # t]_vars

THEOREM OnceTheorem ==
  ASSUME Inline
  PROVE  Spec => NeverTwice
<1>1. ASSUME TypeInv, FreshInQueue, [Next]_vars, NEW t \in Task, "taken" \in trace[t],
             NEW x \in Executor, run[x].task # t
      PROVE  run'[x].task # t
  <2>0. t \notin due
    BY <1>1 DEF FreshInQueue
  <2>1. \/ run'[x].task \in {run[x].task, NoTask}
        \/ \E u \in due : run'[x].task = u
    BY <1>1, TaskHeld
  <2> QED
    BY <1>1, <2>0, <2>1, TaskAssumption
<1>2. TypeInv /\ FreshInQueue /\ [Next]_vars
        => [\A t \in Task : "taken" \in trace[t] =>
              \A x \in Executor : run[x].task # t => run'[x].task # t]_vars
  BY <1>1
<1>3. Init => SkipInv /\ FreshInQueue
  <2>1. Init => FreshInQueue
    BY DEF Init, FreshInQueue
  <2> QED
    BY <2>1, SkipInit
<1>4. SkipInv /\ FreshInQueue /\ [Next]_vars => SkipInv' /\ FreshInQueue'
  BY SkipStep, FreshStep DEF SkipInv
<1>5. SkipInv => TypeInv
  BY DEF SkipInv
<1> QED
  BY <1>2, <1>3, <1>4, <1>5, PTL DEF Spec, NeverTwice

\* Two executors are never at work on one task, unless a rebalance hands it
\* over: inline a task has one thread, and a partition has one reader.
WorksAlone ==
  \A x, y \in Executor : \A t \in Task : run[x].task = t /\ run[y].task = t => x = y

\* Inline, only the request that published a task holds it.
OwnWork == Inline => \A x \in Executor : \A t \in Task : run[x].task = t => x = Owner[t]

LEMMA AloneStep ==
  ASSUME TypeInv, WorksAlone, OwnWork, "rebalance" \notin Faults, [Next]_vars
  PROVE  WorksAlone' /\ OwnWork'
<1>1. CASE \A x \in Executor : run'[x].task \in {run[x].task, NoTask}
  BY <1>1, TaskAssumption DEF WorksAlone, OwnWork
<1>2. ASSUME NEW x \in Executor, NEW u \in Task, Take(x, u)
      PROVE  WorksAlone' /\ OwnWork'
  <2>1. /\ run'[x].task = u
        /\ \A y \in Executor \ {x} : run'[y] = run[y]
    BY <1>2 DEF Take, At, TypeInv, TypeOK
  <2>2. \A y \in Executor \ {x} : run[y].task # u
    BY <1>2 DEF Take, Due, AfterCommit, OneReader, OwnWork
  <2>3. Inline => x = Owner[u]
    BY <1>2 DEF Take, Due, AfterCommit
  <2>4. OwnWork'
    BY <2>1, <2>3 DEF OwnWork
  <2>5. WorksAlone'
    BY <2>1, <2>2 DEF WorksAlone
  <2> QED
    BY <2>4, <2>5
<1> QED
  BY <1>1, <1>2, HeldCases

THEOREM AloneTheorem ==
  ASSUME "rebalance" \notin Faults
  PROVE  Spec => []WorksAlone
<1>1. Init => TypeInv /\ WorksAlone /\ OwnWork
  <2>1. Init => WorksAlone /\ OwnWork
    BY TaskAssumption DEF Init, WorksAlone, OwnWork, At
  <2> QED
    BY <2>1, InitType
<1>2. TypeInv /\ WorksAlone /\ OwnWork /\ [Next]_vars => WorksAlone' /\ OwnWork'
  BY AloneStep
<1>3. TypeInv /\ [Next]_vars => TypeInv'
  BY TypeStep
<1> QED
  BY <1>1, <1>2, <1>3, PTL DEF Spec

=============================================================================
