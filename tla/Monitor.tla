------------------------------ MODULE Monitor ------------------------------
(***************************************************************************)
(* The monitor endpoints (api/monitor.py, monitor_service) over the        *)
(* visibility filter of ticket_service and the memoised calls of           *)
(* common/cache.                                                           *)
(*                                                                         *)
(* A panel is modelled by the ticket rows its queries range over; what is  *)
(* counted, grouped, sorted or cut to a limit among them is left out.  A   *)
(* value remembers for whom it was computed and how long ago its rows were *)
(* read.  Time is kept as ages and remaining lives, so no clock is needed. *)
(***************************************************************************)
EXTENDS StateMachine, Integers, Sequences

CONSTANTS
  User, Ticket, Sector, Request,
  Admin, Auditor, Distributor, \* global roles: subsets of User
  Member, Chief,               \* [User -> SUBSET Sector]
  Requester,                   \* [Ticket -> SUBSET User]: creator or beneficiary
  Named,                       \* [Ticket -> SUBSET User]: external requester, by e-mail
  Holder, Home,                \* [Ticket -> User], [Ticket -> Sector]: see Init
  NoUser, NoSector,
  OverviewTtl, PanelTtl, GlobalTtl,
  Patience,                    \* the longest time a request is in progress
  MaxAsks, MaxMoves            \* bounds on the exploration

ASSUME MonitorAssumption ==
  /\ Admin \cup Auditor \cup Distributor \subseteq User
  /\ Member \in [User -> SUBSET Sector] /\ Chief \in [User -> SUBSET Sector]
  /\ Requester \in [Ticket -> SUBSET User] /\ Named \in [Ticket -> SUBSET User]
  /\ Holder \in [Ticket -> User] /\ Home \in [Ticket -> Sector]
  /\ NoUser \notin User /\ NoSector \notin Sector
  /\ {OverviewTtl, PanelTtl, GlobalTtl} \subseteq Nat \ {0}
  /\ {Patience, MaxAsks, MaxMoves} \subseteq Nat

VARIABLES
  row,     \* the tickets table
  cache,   \* Redis: the live entries, [SUBSET Keys -> entry]
  req,     \* the requests in progress
  answer,  \* the answer just given, if any
  asks, moves

vars == <<row, cache, req, answer, asks, moves>>

Row == [ticket: Ticket, status: Statuses, sector: Sector \cup {NoSector}, sectors: SUBSET Sector,
        assignee: User \cup {NoUser}, deleted: BOOLEAN]

\* @scope: what the panel is about: a user, a sector, or nothing in particular
Panel == [name: {"personal"}, scope: User] \cup [name: {"sector"}, scope: Sector]
           \cup [name: {"visible", "global", "sectors", "distributor"}, scope: {"-"}]
ThePanel(n) == [name |-> n, scope |-> "-"]
Personal(u) == [name |-> "personal", scope |-> u]

Value == [rows: SUBSET Row, for: User, age: Nat]
Nothing == [rows |-> {}, for |-> NoUser, age |-> 0]

\* @redis: whether Redis answers while the request runs (cache.py treats an
\* error as a miss and a failed write as done)
Idle == [user |-> NoUser, redis |-> TRUE, todo |-> <<>>, whole |-> FALSE, got |-> <<>>, fresh |-> Nothing,
         waited |-> 0]

NoAnswer == [to |-> NoUser, whole |-> FALSE, got |-> <<>>]

New(t) == [ticket |-> t, status |-> "pending", sector |-> NoSector, sectors |-> {},
           assignee |-> NoUser, deleted |-> FALSE]
Taken(t) == [New(t) EXCEPT !.status = "in_progress", !.sector = Home[t], !.sectors = {Home[t]},
                           !.assignee = Holder[t]]

\* Tickets nobody has looked at, and tickets taken the day before.
Init ==
  /\ row \in {x \in [Ticket -> {New(t) : t \in Ticket} \cup {Taken(t) : t \in Ticket}] :
             \A t \in Ticket : x[t].ticket = t}
  /\ cache = <<>>
  /\ req = [r \in Request |-> Idle]
  /\ answer = NoAnswer
  /\ asks = 0 /\ moves = 0

-----------------------------------------------------------------------------
(* Who may see what *)

AllSectors(u) == Member[u] \cup Chief[u]
CanViewGlobal(u) == u \in Admin \cup Auditor
CanViewSector(u, s) == CanViewGlobal(u) \/ s \in AllSectors(u)
\* Chiefs look over the shoulders of the people of their sectors
CanViewUser(u, v) == u = v \/ CanViewGlobal(u) \/ Chief[u] \cap AllSectors(v) # {}

\* The filter every list and every live panel is read through.
Visible(u, x) ==
  \/ CanViewGlobal(u)
  \/ u \in Requester[x.ticket] \cup Named[x.ticket]
  \/ x.sector \in AllSectors(u)
  \/ x.sectors \cap AllSectors(u) # {}
  \/ u \in Distributor /\ x.status \in Assignable

Live == {row[t] : t \in {t \in Ticket : ~row[t].deleted}}
VisibleRows(u) == {x \in Live : Visible(u, x)}

\* monitor_personal: the operator's tickets and the requester's.
PersonalRows(u, v) == {x \in VisibleRows(u) : x.assignee = v \/ v \in Requester[x.ticket]}

\* monitor_sector, _build_monitor_sectors: the tickets routed there; a
\* secondary sector counts for seeing a ticket, not here.
SectorRows(codes) == {x \in Live : x.sector \in codes}

\* _build_monitor_distributor.  Its reviewed_today asks the history for tickets
\* that left pending, which routing never records: that list is empty.
DistributorRows == {x \in Live : x.status \in Assignable}

\* _global_kpis and the breakdowns without a sector.
GlobalRows == Live

\* The sectors _build_monitor_sectors reports on.
SectorsOf(u) == IF CanViewGlobal(u) THEN Sector ELSE AllSectors(u)

\* The rows a panel's queries range over when user u has it computed.
RowsOf(u, p) ==
  CASE p.name = "personal"    -> PersonalRows(u, p.scope)
    [] p.name = "visible"     -> VisibleRows(u)
    [] p.name = "sector"      -> SectorRows({p.scope})
    [] p.name = "global"      -> GlobalRows
    [] p.name = "distributor" -> DistributorRows
    [] p.name = "sectors"     -> SectorRows(SectorsOf(u))

Computed(u, p) == [rows |-> RowsOf(u, p), for |-> u, age |-> 0]

-----------------------------------------------------------------------------
(* The cache *)

RolesOf(u) == {k \in {"admin", "auditor", "distributor"} :
                 u \in CASE k = "admin" -> Admin [] k = "auditor" -> Auditor [] OTHER -> Distributor}

\* A slip: every user of the same roles and sectors shares one overview.
OverviewKeyByProfile(u) == [ns |-> "overview", who |-> "profile", roles |-> RolesOf(u), sectors |-> AllSectors(u)]

OverviewKey(u) == [ns |-> "overview", who |-> IF CanViewGlobal(u) THEN "global" ELSE u,
                   roles |-> RolesOf(u), sectors |-> AllSectors(u)]

Memoised == {"global", "distributor", "sectors"}
PanelKey(u, n) ==
  [ns |-> n, who |-> IF n = "sectors" /\ ~CanViewGlobal(u) THEN "sectors" ELSE "global",
   roles |-> {}, sectors |-> IF n = "sectors" /\ ~CanViewGlobal(u) THEN AllSectors(u) ELSE {}]

Ttl(key) == CASE key.ns = "overview" -> OverviewTtl [] key.ns = "global" -> GlobalTtl [] OTHER -> PanelTtl

\* setex: the entry replaces what was there and lives for a full ttl.
Setex(key, value) ==
  [k \in DOMAIN cache \cup {key} |-> IF k = key THEN [value |-> value, left |-> Ttl(key)] ELSE cache[k]]

\* A slip: entries written without a ttl.
AllOf(c) == DOMAIN c

\* An entry whose life ends is gone.
Survivors(c) == {k \in DOMAIN c : c[k].left > 1}

-----------------------------------------------------------------------------
(* Requests *)

\* The memoised sections of the overview, in the order they are produced.
Sections(u) ==
  (IF CanViewGlobal(u) THEN <<ThePanel("global"), ThePanel("sectors")>>
   ELSE IF AllSectors(u) # {} THEN <<ThePanel("sectors")>> ELSE <<>>)
    \o (IF u \in Distributor \cup Admin THEN <<ThePanel("distributor")>> ELSE <<>>)

\* The panels user u gets from an endpoint of their own.
Allowed(u) ==
  {Personal(v) : v \in {v \in User : CanViewUser(u, v)}}
    \cup {[name |-> "sector", scope |-> s] : s \in {s \in Sector : CanViewSector(u, s)}}
    \cup {ThePanel("visible"), ThePanel("sectors")}
    \cup (IF CanViewGlobal(u) THEN {ThePanel("global")} ELSE {})
    \cup (IF u \in Distributor \cup Admin THEN {ThePanel("distributor")} ELSE {})

Answer(r, u, whole, got) ==
  /\ answer' = [to |-> u, whole |-> whole, got |-> got]
  /\ req' = [req EXCEPT ![r] = Idle]

\* The live panels of a payload come first and are read together, then the
\* memoised ones (@todo) one after the other.
Begin(r, u, live, todo, whole, redis) ==
  /\ req' = [req EXCEPT ![r] = [Idle EXCEPT !.user = u, !.redis = redis, !.todo = todo, !.whole = whole,
                                            !.got = [p \in live |-> Computed(u, p)]]]
  /\ answer' = NoAnswer

\* GET /monitor/overview: from the cache, or section by section.
Overview(r, u) ==
  /\ req[r] = Idle /\ asks < MaxAsks
  /\ asks' = asks + 1
  /\ \E redis \in BOOLEAN :
       IF redis /\ OverviewKey(u) \in DOMAIN cache
       THEN Answer(r, u, TRUE, cache[OverviewKey(u)].value)
       ELSE Begin(r, u, {Personal(u), ThePanel("visible")}, Sections(u), TRUE, redis)
  /\ UNCHANGED <<row, cache, moves>>

\* The endpoints of a single panel; others are refused.
Single(r, u) ==
  /\ req[r] = Idle /\ asks < MaxAsks
  /\ asks' = asks + 1
  /\ \E p \in Allowed(u), redis \in BOOLEAN :
       IF p.name \in Memoised THEN Begin(r, u, {}, <<p>>, FALSE, redis)
                              ELSE Begin(r, u, {p}, <<>>, FALSE, TRUE)
  /\ UNCHANGED <<row, cache, moves>>

Got(q, v) == [q EXCEPT !.todo = Tail(@), !.fresh = Nothing,
                       !.got = [p \in DOMAIN @ \cup {Head(q.todo)} |-> IF p = Head(q.todo) THEN v ELSE @[p]]]

\* The next panel is cached, or it is computed.
ReadPanel(r) ==
  LET q == req[r] p == Head(q.todo) key == PanelKey(q.user, p.name) IN
  /\ q.todo # <<>> /\ q.fresh = Nothing
  /\ req' = [req EXCEPT ![r] = IF q.redis /\ key \in DOMAIN cache THEN Got(q, cache[key].value)
                               ELSE [q EXCEPT !.fresh = Computed(q.user, p)]]
  /\ answer' = NoAnswer
  /\ UNCHANGED <<row, cache, asks, moves>>

\* What was computed is memoised, whatever others have stored meanwhile.
Memoise(r) ==
  LET q == req[r] IN
  /\ q.todo # <<>> /\ q.fresh # Nothing
  /\ cache' = IF q.redis THEN Setex(PanelKey(q.user, Head(q.todo).name), q.fresh) ELSE cache
  /\ req' = [req EXCEPT ![r] = Got(q, q.fresh)]
  /\ answer' = NoAnswer
  /\ UNCHANGED <<row, asks, moves>>

\* The payload is complete; an overview is memoised as a whole.
Reply(r) ==
  LET q == req[r] IN
  /\ q.user # NoUser /\ q.todo = <<>>
  /\ cache' = IF q.whole /\ q.redis THEN Setex(OverviewKey(q.user), q.got) ELSE cache
  /\ Answer(r, q.user, q.whole, q.got)
  /\ UNCHANGED <<row, asks, moves>>

-----------------------------------------------------------------------------
(* The rest of the system *)

\* What the workflow may make of a row.  Only the assignee drives the status.
Routed(x) ==
  {[x EXCEPT !.status = "assigned_to_sector", !.sector = s, !.sectors = @ \cup {s}] :
     s \in IF x.status \in Workable THEN Sector ELSE {}}
  \cup {[x EXCEPT !.sectors = @ \cup {s}] : s \in Sector}
  \cup {[x EXCEPT !.sectors = @ \ {s}] : s \in Sector \ {x.sector}}

\* Before a ticket is routed, an administrator or a secondary sector may claim it;
\* afterwards anybody may be given it.
Takers(x) ==
  {u \in User : x.sector # NoSector \/ u \in Admin \/ x.sectors \cap AllSectors(u) # {}}

Assigned(x) ==
  {[x EXCEPT !.status = "in_progress", !.assignee = u] : u \in IF x.status \in Workable THEN Takers(x) ELSE {}}
  \cup {[x EXCEPT !.assignee = u] : u \in IF x.assignee = NoUser /\ x.sector # NoSector THEN User ELSE {}}

Driven(x) ==
  IF x.assignee = NoUser THEN {}
  ELSE {[x EXCEPT !.status = TargetStatus("unassign", @, @), !.assignee = NoUser]}
       \cup {[x EXCEPT !.status = st] : st \in {st \in {"in_progress", "done", "cancelled"} :
                                                x.status \in ChangeStatusFrom[st]}}

TicketMoves(t) ==
  /\ ~row[t].deleted /\ moves < MaxMoves
  /\ moves' = moves + 1
  /\ \E x \in (Routed(row[t]) \cup Assigned(row[t]) \cup Driven(row[t])
                \cup {[row[t] EXCEPT !.deleted = TRUE]}) \ {row[t]} : row' = [row EXCEPT ![t] = x]
  /\ answer' = NoAnswer
  /\ UNCHANGED <<cache, req, asks>>

Older(v) == [v EXCEPT !.age = @ + 1]
AllOlder(got) == [p \in DOMAIN got |-> Older(got[p])]

Aged(key, e) == [value |-> IF key.ns = "overview" THEN AllOlder(e.value) ELSE Older(e.value), left |-> e.left - 1]

Waiting(q) ==
  IF q = Idle THEN Idle
  ELSE [q EXCEPT !.got = AllOlder(@), !.waited = @ + 1, !.fresh = IF @ = Nothing THEN Nothing ELSE Older(@)]

\* Time passes; no request takes longer than Patience.
Tick ==
  /\ \A r \in Request : req[r].waited < Patience
  /\ cache' = [k \in Survivors(cache) |-> Aged(k, cache[k])]
  /\ req' = [r \in Request |-> Waiting(req[r])]
  /\ answer' = NoAnswer
  /\ UNCHANGED <<row, asks, moves>>

Next ==
  \/ \E r \in Request :
       \/ \E u \in User : Overview(r, u) \/ Single(r, u)
       \/ ReadPanel(r) \/ Memoise(r) \/ Reply(r)
  \/ \E t \in Ticket : TicketMoves(t)
  \/ Tick

Spec == Init /\ [][Next]_vars

-----------------------------------------------------------------------------
(* Properties *)

\* Every ticket behind a panel was, when its row was read, one that the user
\* who gets the answer was allowed to see: sharing a cache entry between
\* users never carries a ticket to somebody the filter hides it from.
AnswersWithinSight ==
  answer.to # NoUser =>
    \A p \in DOMAIN answer.got : \A x \in answer.got[p].rows : Visible(answer.to, x)

Longest(p) == Patience + OverviewTtl
                + (IF p.name \notin Memoised THEN 0
                   ELSE Patience + IF p.name = "global" THEN GlobalTtl ELSE PanelTtl)

\* Two layers of cache add up, and no more than that: nothing in an answer
\* is older than its own life, the life of the overview around it, and the
\* time the requests that filled them took.
AgesBounded ==
  \A p \in DOMAIN answer.got : answer.got[p].age < Longest(p)

\* An overview is private to whoever does not see everything: its personal
\* section is about the user who gets it, and whatever in it is not memoised
\* on its own was computed for him, however many users' overviews are cached.
OverviewOwned ==
  answer.whole /\ ~CanViewGlobal(answer.to)
    => /\ Personal(answer.to) \in DOMAIN answer.got
       /\ \A p \in DOMAIN answer.got : p.name \notin Memoised => answer.got[p].for = answer.to

\* The overview is "per-principal": its personal section is about the user
\* who asked for it (monitor_overview's docstring and its call of
\* monitor_personal with the caller's own id).
OverviewIsMine ==
  answer.whole => Personal(answer.to) \in DOMAIN answer.got

=============================================================================
