------------------------------ MODULE RowBook ------------------------------
(***************************************************************************)
(* What the side tables of a ticket promise to their callers: a book with  *)
(* at most one entry per key.  A call that finds no entry under its key    *)
(* wants to add one; a call that finds one wants to change or remove that  *)
(* entry, and follows it when somebody gives it another key.  A call that  *)
(* is answered with success took effect at one moment between its start    *)
(* and its answer; one that fails before had none.  When an entry is       *)
(* removed, everybody who was waiting to remove it is served by the one    *)
(* removal, and whoever was waiting to change it is lost.                  *)
(***************************************************************************)
CONSTANTS Key, Value, Request,
          Absent   \* no value: the key has no entry, or a column is not changed

VARIABLES
  book,   \* [Key -> Value or Absent]
  call,   \* the calls in progress
  ok      \* [Request -> BOOLEAN]: the last answer was a success

vars == <<book, call, ok>>

Idle == [state |-> "idle"]
Done == [state |-> "done"]
Lost == [state |-> "lost"]
Adding(k, v) == [state |-> "add", key |-> k, value |-> v]
Removing(k)  == [state |-> "remove", key |-> k]

\* A change of nothing is done.
Changing(k, to, v) ==
  IF to = Absent /\ v = Absent THEN Done ELSE [state |-> "change", key |-> k, to |-> to, value |-> v]

Calls == {Idle, Done, Lost} \cup [state: {"add"}, key: Key, value: Value]
  \cup [state: {"change"}, key: Key, to: Key \cup {Absent}, value: Value \cup {Absent}]
  \cup [state: {"remove"}, key: Key]

TypeOK ==
  /\ book \in [Key -> Value \cup {Absent}]
  /\ call \in [Request -> Calls]
  /\ ok \in [Request -> BOOLEAN]

Init ==
  /\ book \in [Key -> Value \cup {Absent}]
  /\ call = [r \in Request |-> Idle]
  /\ ok = [r \in Request |-> TRUE]

Begin(r) ==
  /\ call[r] = Idle
  /\ \E k \in Key :
       \/ book[k] = Absent /\ \E v \in Value : call' = [call EXCEPT ![r] = Adding(k, v)]
       \/ book[k] # Absent /\ \E to \in Key \cup {Absent}, v \in Value \cup {Absent} :
                                call' = [call EXCEPT ![r] = Changing(k, to, v)]
       \/ book[k] # Absent /\ call' = [call EXCEPT ![r] = Removing(k)]
  /\ UNCHANGED <<book, ok>>

\* A call that finds its work done may be answered at once.
Trivial(r) ==
  /\ call[r] = Idle
  /\ ok' = [ok EXCEPT ![r] = TRUE]
  /\ UNCHANGED <<book, call>>

\* Whoever is after the entry of k, when it is given key t,
Follows(c, k, t) ==
  CASE c.state = "change" /\ c.key = k -> Changing(t, c.to, c.value)
    [] c.state = "remove" /\ c.key = k -> Removing(t)
    [] OTHER -> c

\* and when it is removed.
Misses(c, k) ==
  CASE c.state = "change" /\ c.key = k -> Lost
    [] c.state = "remove" /\ c.key = k -> Done
    [] OTHER -> c

Add(r) ==
  /\ call[r].state = "add" /\ book[call[r].key] = Absent
  /\ book' = [book EXCEPT ![call[r].key] = call[r].value]
  /\ call' = [call EXCEPT ![r] = Idle]
  /\ ok' = [ok EXCEPT ![r] = TRUE]

Change(r) ==
  LET k == call[r].key
      t == IF call[r].to = Absent THEN k ELSE call[r].to
      v == IF call[r].value = Absent THEN book[k] ELSE call[r].value
  IN
  /\ call[r].state = "change" /\ (t = k \/ book[t] = Absent)
  /\ book' = [x \in Key |-> IF x = t THEN v ELSE IF x = k THEN Absent ELSE book[x]]
  /\ call' = [x \in Request |-> IF x = r THEN Idle ELSE Follows(call[x], k, t)]
  /\ ok' = [ok EXCEPT ![r] = TRUE]

Remove(r) ==
  LET k == call[r].key IN
  /\ call[r].state = "remove" /\ book[k] # Absent
  /\ book' = [book EXCEPT ![k] = Absent]
  /\ call' = [x \in Request |-> IF x = r THEN Idle ELSE Misses(call[x], k)]
  /\ ok' = [ok EXCEPT ![r] = TRUE]

\* The answer of a call whose effect has happened may still get lost.
Answer(r) ==
  /\ call[r] = Done
  /\ call' = [call EXCEPT ![r] = Idle]
  /\ \E b \in BOOLEAN : ok' = [ok EXCEPT ![r] = b]
  /\ UNCHANGED book

Fail(r) ==
  /\ call[r].state \in {"add", "change", "remove", "lost"}
  /\ call' = [call EXCEPT ![r] = Idle]
  /\ ok' = [ok EXCEPT ![r] = FALSE]
  /\ UNCHANGED book

Next ==
  \E r \in Request : \/ Begin(r) \/ Trivial(r)
                     \/ Add(r) \/ Change(r) \/ Remove(r)
                     \/ Answer(r) \/ Fail(r)

Spec == Init /\ [][Next]_vars

=============================================================================
