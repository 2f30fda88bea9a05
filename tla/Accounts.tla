------------------------------ MODULE Accounts ------------------------------
(***************************************************************************)
(* Who is calling: from a bearer token or an SSE ticket to a principal,    *)
(* and the administration of accounts and memberships behind it.           *)
(*                                                                         *)
(* Keycloak issues the tokens and owns the groups.  Verified claims and    *)
(* whole principals are cached in Redis until the token expires; only the  *)
(* account's is_active flag is read from the database on every request.    *)
(* Administrators change Keycloak and the database in one request, without *)
(* a common transaction.  Every call to Redis or Keycloak may fail.        *)
(***************************************************************************)
EXTENDS Integers

CONSTANTS
  Subject, Token, Membership,  \* memberships: a sector with a role in it
  SseTicket, Request,
  Officer,     \* the administrators,
  RootOfficer, \*   those in the root group, and
  ChiefOf,     \*   [Officer -> SUBSET Membership]: what is in a chief's sectors
  None,
  Life, SseLife, Horizon,  \* lifetimes in ticks; bound on the clock
  MaxId,       \* bounds: rows of users,
  MaxRequests  \*   requests

ASSUME AccountsAssumption ==
  /\ RootOfficer \subseteq Officer /\ ChiefOf \in [Officer -> SUBSET Membership]
  /\ None \notin Subject \cup Token \cup SseTicket
  /\ {Life, SseLife, MaxId, MaxRequests} \subseteq Nat /\ Horizon \in Nat \ {0}

VARIABLES
  now,       \* the clock
  kc,        \* Keycloak: [Subject -> [groups, enabled]]
  lost,      \* auxiliary: [Subject -> [Membership -> tick of the last removal from the group]]
  token,     \* the access tokens by id
  cache,     \* Redis: cached principals
  sse,       \* Redis: the SSE tickets
  streams,   \* SSE tickets a stream was opened with
  users,     \* the users table
  member,    \* sector_memberships: [1..MaxId -> [Membership -> state of the row]]
  banned,    \* auxiliary: subjects whose last disabling no enabling overlapped
  req,       \* the requests in flight
  quota      \* requests that may still start

vars == <<now, kc, lost, token, cache, sse, streams, users, member, banned, req, quota>>

Times == 1..Horizon
Ids == 1..MaxId

\* What the handler gets, as far as the properties need it.
Principal == [id: Ids, groups: SUBSET Membership]

NoToken == [state |-> "none"]
TokenOf == [state: {"issued"}, sub: Subject, issued: Times, exp: Nat, claims: SUBSET Membership]
SseOf == {[state |-> "new"], [state |-> "gone"]} \cup [state: {"live"}, k: Token, until: Nat]
Entry == [key: [sub: Subject, id: Token \cup {None}], p: Principal, until: Nat]

\* A caller's request.  alive: the account was not disabled at some moment since
\* it came in; p: the principal as far as it is known.
Nobody == [id |-> 0, groups |-> {}]
Idle == [pc |-> "idle"]
Stages == {"ticket", "claims", "miss", "insert", "cached", "account", "served"}
Req == {Idle}
  \cup [pc: Stages, via: SseTicket \cup {None}, k: Token, alive: BOOLEAN, p: Principal \cup {Nobody}]
  \cup [pc: {"setactive"}, id: Ids, was: BOOLEAN, to: BOOLEAN, clean: BOOLEAN]
  \cup [pc: {"member"}, id: Ids, m: Membership, was: {"none", "on", "off"}, to: {"on", "off"}]

TypeOK ==
  /\ now \in Times
  /\ kc \in [Subject -> [groups: SUBSET Membership, enabled: BOOLEAN]]
  /\ lost \in [Subject -> [Membership -> 0..Horizon]]
  /\ token \in [Token -> {NoToken} \cup TokenOf]
  /\ cache \subseteq Entry /\ \A a, b \in cache : a.key = b.key => a = b
  /\ sse \in [SseTicket -> SseOf]
  /\ streams \subseteq SseTicket
  /\ users \subseteq [id: Ids, sub: Subject, active: BOOLEAN]
  /\ member \in [Ids -> [Membership -> {"none", "on", "off"}]]
  /\ banned \subseteq Subject
  /\ req \in [Request -> Req] /\ quota \in 0..MaxRequests

Init ==
  /\ now = 1
  /\ kc = [s \in Subject |-> [groups |-> Membership, enabled |-> TRUE]]
  /\ lost = [s \in Subject |-> [m \in Membership |-> 0]]
  /\ token = [k \in Token |-> NoToken]
  /\ cache = {}
  /\ sse = [x \in SseTicket |-> [state |-> "new"]] /\ streams = {}
  /\ users = {}
  /\ member = [i \in Ids |-> [m \in Membership |-> "none"]]
  /\ banned = {}
  /\ req = [r \in Request |-> Idle] /\ quota = MaxRequests

Sub(r) == token[req[r].k].sub
RowsFor(s) == {u \in users : u.sub = s}
Row(i) == CHOOSE u \in users : u.id = i
Disabled(s) == \E u \in RowsFor(s) : ~u.active

-----------------------------------------------------------------------------
(* Time, and Keycloak                                                      *)

\* A cached value leaves Redis at the tick the token expires.
Tick ==
  /\ now < Horizon
  /\ now' = now + 1
  /\ cache' = {e \in cache : e.until > now'}
  /\ sse' = [x \in SseTicket |-> IF sse[x].state = "live" /\ sse[x].until <= now'
                                 THEN [state |-> "gone"] ELSE sse[x]]
  /\ UNCHANGED <<kc, lost, token, streams, users, member, banned, req, quota>>

\* Login or refresh: the token names the groups, or none at all.
Issue(k, s) ==
  /\ token[k] = NoToken /\ kc[s].enabled
  /\ \E claims \in {{}, kc[s].groups} :
       token' = [token EXCEPT ![k] = [state |-> "issued", sub |-> s, issued |-> now,
                                      exp |-> now + Life, claims |-> claims]]
  /\ UNCHANGED <<now, kc, lost, cache, sse, streams, users, member, banned, req, quota>>

-----------------------------------------------------------------------------
(* decorators._build_principal                                             *)

At(r, pc) == req[r].pc = pc
Start(r) == At(r, "idle") /\ quota > 0 /\ quota' = quota - 1
Goto(r, q) == req' = [req EXCEPT ![r] = q]
NoWrite == UNCHANGED <<now, kc, lost, token, cache, sse, streams, users, member, banned>>
Step(r, q) == Goto(r, q) /\ NoWrite /\ UNCHANGED quota

Caller(pc, x, k) == [pc |-> pc, via |-> x, k |-> k, alive |-> ~Disabled(token[k].sub), p |-> Nobody]
Moved(r, pc) == [req[r] EXCEPT !.pc = pc]
Known(r, pc, p) == [req[r] EXCEPT !.pc = pc, !.p = p]

\* verify_token: cached claims say what a fresh look would say, and are only
\* cached while there is time left.
Verified(k) == token[k] # NoToken /\ now <= token[k].exp

\* A request with the token in its header.
Bearer(r, k) ==
  /\ Start(r) /\ Verified(k)
  /\ Goto(r, Caller("claims", None, k)) /\ NoWrite

\* /stream with an SSE ticket: the token is fetched, and the ticket deleted by
\* the next command.
FetchTicket(r, x) ==
  /\ Start(r) /\ sse[x].state = "live"
  /\ Goto(r, Caller("ticket", x, sse[x].k)) /\ NoWrite

\* A slip: the ticket is left to expire.
TicketKept(x) == sse

TicketDropped(x) == [sse EXCEPT ![x] = [state |-> "gone"]]

DeleteTicket(r) ==
  /\ At(r, "ticket")
  /\ sse' = TicketDropped(req[r].via)
  /\ Goto(r, IF Verified(req[r].k) THEN Moved(r, "claims") ELSE Idle)
  /\ UNCHANGED <<now, kc, lost, token, cache, streams, users, member, banned, quota>>

\* A slip: one entry per user, whatever the token.
KeyOfSubject(k) == [sub |-> token[k].sub, id |-> None]

CacheKey(k) == [sub |-> token[k].sub, id |-> k]

Hits(k) == {e \in cache : e.key = CacheKey(k) /\ token[k].exp > now}

ReadCache(r) ==
  /\ At(r, "claims")
  /\ \/ \E e \in Hits(req[r].k) : Step(r, Known(r, "cached", e.p))
     \/ Step(r, Moved(r, "miss"))

\* A slip: a cached principal is good enough.
AnyAccount(i) == TRUE

\* _assert_user_active
MayLogIn(i) == \A u \in users : u.id = i => u.active

\* The error of a disabled account is swallowed with all others: the request
\* goes on as if nothing had been cached.
CheckAccount(r) ==
  /\ At(r, "cached")
  /\ Step(r, IF MayLogIn(req[r].p.id) THEN Moved(r, "served") ELSE Known(r, "miss", Nobody))

\* get_or_create_user_from_claims
FindUser(r) ==
  /\ At(r, "miss")
  /\ \/ RowsFor(Sub(r)) = {} /\ Step(r, Moved(r, "insert"))
     \/ \E u \in RowsFor(Sub(r)) :
          u.active /\ Step(r, Known(r, "account", [id |-> u.id, groups |-> {}]))

\* A slip: users without the unique index on keycloak_subject.
NoIndex(s) == TRUE

NewSubject(s) == RowsFor(s) = {}

\* Ids are never given twice.
FreshId == CHOOSE i \in Ids : \A u \in users : u.id # i

InsertUser(r) ==
  LET i == FreshId IN
  /\ At(r, "insert") /\ NewSubject(Sub(r))
  /\ \E x \in Ids : \A u \in users : u.id # x
  /\ users' = users \cup {[id |-> i, sub |-> Sub(r), active |-> TRUE]}
  /\ Goto(r, Known(r, "account", [id |-> i, groups |-> {}]))
  /\ UNCHANGED <<now, kc, lost, token, cache, sse, streams, member, banned, quota>>

Stored(k, p) ==
  {e \in cache : e.key # CacheKey(k)} \cup {[key |-> CacheKey(k), p |-> p, until |-> token[k].exp]}

\* _groups_for_claims: Keycloak is asked for more than the claims name unless they
\* have the root group, and may not answer.
Granted(k) == {token[k].claims, token[k].claims \cup kc[token[k].sub].groups}

\* The principal is cached as long as the token lives.
BuildPrincipal(r) ==
  LET k == req[r].k IN
  /\ At(r, "account")
  /\ \E groups \in Granted(k) :
       LET p == [id |-> req[r].p.id, groups |-> groups] IN
       /\ Goto(r, Known(r, "served", p))
       /\ \/ UNCHANGED cache
          \/ token[k].exp > now /\ cache' = Stored(k, p)
  /\ UNCHANGED <<now, kc, lost, token, sse, streams, users, member, banned, quota>>

\* A refusal, a failed statement or a dead worker.
Refuse(r) == ~At(r, "idle") /\ ~At(r, "served") /\ Step(r, Idle)

-----------------------------------------------------------------------------
(* The endpoints: any of them; an SSE ticket only opens a stream           *)

Handle(r) == At(r, "served") /\ req[r].via = None /\ Step(r, Idle)

CreateStreamTicket(r, x) ==
  /\ At(r, "served") /\ req[r].via = None /\ sse[x].state = "new"
  /\ sse' = [sse EXCEPT ![x] = [state |-> "live", k |-> req[r].k, until |-> now + SseLife]]
  /\ Goto(r, Idle)
  /\ UNCHANGED <<now, kc, lost, token, cache, streams, users, member, banned, quota>>

OpenStream(r) ==
  /\ At(r, "served") /\ req[r].via # None
  /\ streams' = streams \cup {req[r].via}
  /\ Goto(r, Idle)
  /\ UNCHANGED <<now, kc, lost, token, cache, sse, users, member, banned, quota>>

-----------------------------------------------------------------------------
(* admin_service: accounts and memberships                                 *)

\* require_admin_or_chief
Manages(o, i) == o \in RootOfficer \/ \E m \in ChiefOf[o] : member[i][m] = "on"

\* A slip: a Keycloak error is logged only.
KeycloakTried(s, b) == {kc, [kc EXCEPT ![s].enabled = b]}

\* _run_keycloak: the request fails with Keycloak.
KeycloakSet(s, b) == {[kc EXCEPT ![s].enabled = b]}

\* update_user: Keycloak first, then the row.
SetActive(r, o, i, b) ==
  /\ Start(r) /\ Manages(o, i)
  /\ \E u \in users :
       /\ u.id = i
       /\ kc' \in KeycloakSet(u.sub, b)
       /\ req' = [x \in Request |->
            IF x = r THEN [pc |-> "setactive", id |-> i, was |-> u.active, to |-> b,
                           clean |-> ~b /\ \A y \in Request : At(y, "setactive") /\ req[y].id = i => ~req[y].to]
            ELSE IF b /\ At(x, "setactive") /\ req[x].id = i THEN [req[x] EXCEPT !.clean = FALSE]
            ELSE req[x]]
       /\ banned' = IF b THEN banned \ {u.sub} ELSE banned
  /\ UNCHANGED <<now, lost, token, cache, sse, streams, users, member>>

\* No statement is sent for the value that was loaded.
CommitActive(r) ==
  LET q == req[r] s == Row(q.id).sub IN
  /\ At(r, "setactive")
  /\ users' = IF q.was = q.to THEN users
              ELSE {IF u.id = q.id THEN [u EXCEPT !.active = q.to] ELSE u : u \in users}
  /\ req' = [x \in Request |->
       IF x = r THEN Idle
       ELSE IF req[x].pc \in Stages /\ [id |-> q.id, sub |-> Sub(x), active |-> TRUE] \in users'
            THEN [req[x] EXCEPT !.alive = TRUE] ELSE req[x]]
  /\ banned' = IF q.clean THEN banned \cup {s} ELSE banned
  /\ UNCHANGED <<now, kc, lost, token, cache, sse, streams, member, quota>>

\* grant_membership and revoke_membership: the row is read,
LoadMembership(r, o, i, m, to) ==
  /\ Start(r) /\ o \in RootOfficer /\ \E u \in users : u.id = i
  /\ to = "off" => member[i][m] # "none"
  /\ Goto(r, [pc |-> "member", id |-> i, m |-> m, was |-> member[i][m], to |-> to])
  /\ NoWrite

Regrouped(s, m, to) ==
  [kc EXCEPT ![s].groups = IF to = "on" THEN @ \cup {m} ELSE @ \ {m}]

\* written, and Keycloak told; its errors are only logged.  The row stays locked
\* meanwhile.  The transaction may still fail after Keycloak has been told.
WriteMembership(r) ==
  LET q == req[r] s == Row(q.id).sub IN
  /\ At(r, "member")
  /\ \/ q.was # "none"
     \/ member[q.id][q.m] = "none"
  /\ kc' \in {kc, Regrouped(s, q.m, q.to)}
  /\ lost' = IF q.m \in kc[s].groups \ kc'[s].groups THEN [lost EXCEPT ![s][q.m] = now] ELSE lost
  /\ member' \in {member, IF q.was = q.to THEN member ELSE [member EXCEPT ![q.id][q.m] = q.to]}
  /\ Goto(r, Idle)
  /\ UNCHANGED <<now, token, cache, sse, streams, users, banned, quota>>

-----------------------------------------------------------------------------
Authenticate(r) ==
  \/ \E k \in Token : Bearer(r, k)
  \/ \E x \in SseTicket : FetchTicket(r, x)
  \/ DeleteTicket(r) \/ ReadCache(r) \/ CheckAccount(r)
  \/ FindUser(r) \/ InsertUser(r) \/ BuildPrincipal(r) \/ Refuse(r)

Endpoint(r) ==
  \/ Handle(r) \/ OpenStream(r)
  \/ \E x \in SseTicket : CreateStreamTicket(r, x)

Administer(r) ==
  \/ \E o \in Officer, i \in Ids :
       \/ \E b \in BOOLEAN : SetActive(r, o, i, b)
       \/ \E m \in Membership, to \in {"on", "off"} : LoadMembership(r, o, i, m, to)
  \/ CommitActive(r) \/ WriteMembership(r)

Next ==
  \/ Tick
  \/ \E k \in Token, s \in Subject : Issue(k, s)
  \/ \E r \in Request : Authenticate(r) \/ Endpoint(r) \/ Administer(r)

Spec == Init /\ [][Next]_vars

-----------------------------------------------------------------------------
(* Properties                                                              *)

\* A request is only served if its account was enabled at some moment since
\* the request came in, however many caches answered on the way.
DisabledIsRefused == \A r \in Request : At(r, "served") => req[r].alive

\* A subject has one row, and every principal, cached or fresh, names the row
\* of the token's subject, also when two first requests race.
OneIdentity ==
  /\ \A a, b \in users : a.sub = b.sub => a = b
  /\ \A r \in Request : At(r, "served") => \E u \in RowsFor(Sub(r)) : u.id = req[r].p.id

\* A caller never acts with a group he had lost before his token was issued:
\* every revocation that reached Keycloak is effective with the next token.
RevokedByNextToken ==
  \A r \in Request : At(r, "served") =>
    \A m \in req[r].p.groups :
      m \in kc[Sub(r)].groups \/ lost[Sub(r)][m] >= token[req[r].k].issued

\* When a stream has been opened with an SSE ticket, the ticket is gone from
\* Redis: only requests that had fetched it before can still be served by it.
TicketsAreSpent == \A x \in streams : sse[x].state = "gone"

\* An account whose disabling was answered with success, and that no enabling
\* overlapped or followed, is disabled in Keycloak and in the database.
BannedEverywhere == \A s \in banned : ~kc[s].enabled /\ Disabled(s)

=============================================================================
