--------------------------- MODULE Accounts_proofs ---------------------------
(***************************************************************************)
(* Theorems about Accounts for any subjects, tokens, memberships, SSE      *)
(* tickets, officers and number of concurrent requests.                    *)
(***************************************************************************)
EXTENDS Accounts, TLAPS

USE AccountsAssumption

\* Request r steps: its memory becomes q, the others keep theirs.
LEMMA Steps ==
  ASSUME TypeOK, NEW r \in Request, NEW q, Goto(r, q)
  PROVE  /\ req' = [req EXCEPT ![r] = q]
         /\ \A x \in Request : req'[x] = IF x = r THEN q ELSE req[x]
BY DEF TypeOK, Goto

\* What a memory holds at its place in the code.
LEMMA Shape ==
  ASSUME TypeOK, NEW r \in Request
  PROVE  /\ req[r] \in Req
         /\ req[r].pc \in Stages => /\ req[r].via \in SseTicket \cup {None} /\ req[r].k \in Token
                                    /\ req[r].alive \in BOOLEAN /\ req[r].p \in Principal \cup {Nobody}
         /\ req[r].pc = "setactive" => /\ req[r].id \in Ids /\ req[r].was \in BOOLEAN
                                       /\ req[r].to \in BOOLEAN /\ req[r].clean \in BOOLEAN
         /\ req[r].pc = "member" => /\ req[r].id \in Ids /\ req[r].m \in Membership
                                    /\ req[r].was \in {"none", "on", "off"} /\ req[r].to \in {"on", "off"}
         /\ req[r].pc \in Stages \cup {"idle", "setactive", "member"}
<1>1. req[r] \in Req
  BY DEF TypeOK
<1>2. CASE req[r] = Idle
  BY <1>1, <1>2 DEF Idle, Stages
<1>3. CASE req[r] \in [pc: Stages, via: SseTicket \cup {None}, k: Token, alive: BOOLEAN,
                       p: Principal \cup {Nobody}]
  BY <1>1, <1>3 DEF Stages
<1>4. CASE req[r] \in [pc: {"setactive"}, id: Ids, was: BOOLEAN, to: BOOLEAN, clean: BOOLEAN]
  BY <1>1, <1>4 DEF Stages
<1>5. CASE req[r] \in [pc: {"member"}, id: Ids, m: Membership, was: {"none", "on", "off"},
                       to: {"on", "off"}]
  BY <1>1, <1>5 DEF Stages
<1> QED
  BY <1>1, <1>2, <1>3, <1>4, <1>5 DEF Req

\* A stage handed on.
LEMMA MovedType ==
  ASSUME TypeOK, NEW r \in Request, req[r].pc \in Stages, NEW pc \in Stages
  PROVE  /\ Moved(r, pc) \in Req
         /\ Moved(r, pc).pc = pc /\ Moved(r, pc).via = req[r].via /\ Moved(r, pc).k = req[r].k
         /\ Moved(r, pc).alive = req[r].alive /\ Moved(r, pc).p = req[r].p
<1>1. req[r] \in [pc: Stages, via: SseTicket \cup {None}, k: Token, alive: BOOLEAN,
                  p: Principal \cup {Nobody}]
  BY DEF TypeOK, Req, Idle, Stages
<1> QED
  BY <1>1 DEF Moved, Req

LEMMA KnownType ==
  ASSUME TypeOK, NEW r \in Request, req[r].pc \in Stages, NEW pc \in Stages,
         NEW p \in Principal \cup {Nobody}
  PROVE  /\ Known(r, pc, p) \in Req
         /\ Known(r, pc, p).pc = pc /\ Known(r, pc, p).via = req[r].via /\ Known(r, pc, p).k = req[r].k
         /\ Known(r, pc, p).alive = req[r].alive /\ Known(r, pc, p).p = p
<1>1. req[r] \in [pc: Stages, via: SseTicket \cup {None}, k: Token, alive: BOOLEAN,
                  p: Principal \cup {Nobody}]
  BY DEF TypeOK, Req, Idle, Stages
<1> QED
  BY <1>1 DEF Known, Req

LEMMA CallerType ==
  ASSUME TypeOK, NEW pc \in Stages, NEW x \in SseTicket \cup {None}, NEW k \in Token
  PROVE  /\ Caller(pc, x, k) \in Req
         /\ Caller(pc, x, k).pc = pc /\ Caller(pc, x, k).via = x /\ Caller(pc, x, k).k = k
         /\ Caller(pc, x, k).alive = ~Disabled(token[k].sub) /\ Caller(pc, x, k).p = Nobody
BY DEF Caller, Req
-----------------------------------------------------------------------------
(* Types                                                                   *)

LEMMA InitType == Init => TypeOK
BY DEF Init, TypeOK, Times, Req, SseOf, Ids

\* A step that only moves a request on.
LEMMA QuietType ==
  ASSUME TypeOK, NEW r \in Request, NEW q \in Req, Goto(r, q), NoWrite, quota' \in 0..MaxRequests
  PROVE  TypeOK'
BY DEF TypeOK, Goto, NoWrite

LEMMA SlotType ==
  ASSUME TypeOK, NEW r \in Request, NEW q \in Req, Goto(r, q)
  PROVE  req' \in [Request -> Req]
BY DEF TypeOK, Goto

LEMMA StartQuota ==
  ASSUME TypeOK, NEW r \in Request, Start(r)
  PROVE  quota' \in 0..MaxRequests
BY DEF TypeOK, Start

LEMMA IdleType == Idle \in Req /\ Idle.pc = "idle" /\ Idle.pc \notin Stages
BY DEF Idle, Req, Stages

LEMMA StoredType ==
  ASSUME TypeOK, NEW k \in Token, token[k] # NoToken, NEW p \in Principal
  PROVE  /\ Stored(k, p) \subseteq Entry
         /\ \A a, b \in Stored(k, p) : a.key = b.key => a = b
<1>1. token[k] \in TokenOf
  BY DEF TypeOK
<1>2. [key |-> CacheKey(k), p |-> p, until |-> token[k].exp] \in Entry
  BY <1>1 DEF TokenOf, CacheKey, Entry
<1> QED
  BY <1>2 DEF TypeOK, Stored

\* The places at which a principal is known.
Faces == {"cached", "account", "served"}

\* Tokens in use have been issued, and known principals are principals.
Issued ==
  /\ \A r \in Request : req[r].pc \in Faces => req[r].p \in Principal
  /\ \A r \in Request : req[r].pc \in Stages => token[req[r].k] # NoToken
  /\ \A x \in SseTicket : sse[x].state = "live" => token[sse[x].k] # NoToken
  /\ \A e \in cache : /\ e.key.id \in Token /\ token[e.key.id] # NoToken
                      /\ e.key.sub = token[e.key.id].sub

TypeInv == TypeOK /\ Issued

LEMMA TokenStays ==
  ASSUME TypeOK, [Next]_vars, NEW k \in Token, token[k] # NoToken
  PROVE  token'[k] = token[k]
<1>1. CASE UNCHANGED token
  BY <1>1
<1>2. ASSUME NEW j \in Token, NEW s \in Subject, Issue(j, s)
      PROVE  token'[k] = token[k]
  BY <1>2 DEF Issue, TypeOK
<1>3. ASSUME NEW r \in Request, Authenticate(r) \/ Endpoint(r) \/ Administer(r)
      PROVE  UNCHANGED token
  BY <1>3 DEF Authenticate, Bearer, FetchTicket, DeleteTicket, ReadCache, CheckAccount, FindUser,
       InsertUser, BuildPrincipal, Refuse, Endpoint, Handle, OpenStream, CreateStreamTicket,
       Administer, SetActive, LoadMembership, CommitActive, WriteMembership, Step, NoWrite
<1>4. Tick => UNCHANGED token
  BY DEF Tick
<1> QED
  BY <1>1, <1>2, <1>3, <1>4 DEF Next, vars
-----------------------------------------------------------------------------
(* Steps that only move a request on                                       *)

\* The memory such a step leaves.
Passes(r, q) ==
  \/ q.pc \notin Stages \cup {"setactive"}
  \/ \E k \in Token : Verified(k) /\ q = Caller("claims", None, k)
  \/ \E x \in SseTicket : sse[x].state = "live" /\ q = Caller("ticket", x, sse[x].k)
  \/ At(r, "claims") /\ q = Moved(r, "miss")
  \/ At(r, "claims") /\ \E e \in Hits(req[r].k) : q = Known(r, "cached", e.p)
  \/ At(r, "cached") /\ MayLogIn(req[r].p.id) /\ q = Moved(r, "served")
  \/ At(r, "cached") /\ q = Known(r, "miss", Nobody)
  \/ At(r, "miss") /\ RowsFor(Sub(r)) = {} /\ q = Moved(r, "insert")
  \/ At(r, "miss") /\ \E u \in RowsFor(Sub(r)) :
       u.active /\ q = Known(r, "account", [id |-> u.id, groups |-> {}])

Passive(r) ==
  \/ \E k \in Token : Bearer(r, k)
  \/ \E x \in SseTicket : FetchTicket(r, x)
  \/ ReadCache(r) \/ CheckAccount(r) \/ FindUser(r) \/ Refuse(r) \/ Handle(r)
  \/ \E o \in Officer, i \in Ids, m \in Membership, to \in {"on", "off"} : LoadMembership(r, o, i, m, to)

LEMMA LiveTicket ==
  ASSUME TypeOK, NEW x \in SseTicket, sse[x].state = "live"
  PROVE  sse[x].k \in Token
BY DEF TypeOK, SseOf

LEMMA PassiveSteps ==
  ASSUME TypeOK, NEW r \in Request, Passive(r)
  PROVE  /\ NoWrite /\ quota' \in 0..MaxRequests
         /\ \E q \in Req : Goto(r, q) /\ Passes(r, q)
<1>s. {"ticket", "claims", "miss", "insert", "cached", "account", "served"} = Stages
  BY DEF Stages
<1>q. quota \in 0..MaxRequests
  BY DEF TypeOK
<1>1. ASSUME NEW k \in Token, Bearer(r, k)
      PROVE  /\ NoWrite /\ quota' \in 0..MaxRequests
             /\ \E q \in Req : Goto(r, q) /\ Passes(r, q)
  <2>1. Caller("claims", None, k) \in Req
    BY <1>s, CallerType
  <2> QED
    BY <1>1, <2>1, StartQuota DEF Bearer, Passes
<1>2. ASSUME NEW x \in SseTicket, FetchTicket(r, x)
      PROVE  /\ NoWrite /\ quota' \in 0..MaxRequests
             /\ \E q \in Req : Goto(r, q) /\ Passes(r, q)
  <2>1. Caller("ticket", x, sse[x].k) \in Req
    BY <1>s, <1>2, CallerType, LiveTicket DEF FetchTicket
  <2> QED
    BY <1>2, <2>1, StartQuota DEF FetchTicket, Passes
<1>3. ASSUME ReadCache(r)
      PROVE  /\ NoWrite /\ quota' \in 0..MaxRequests
             /\ \E q \in Req : Goto(r, q) /\ Passes(r, q)
  <2>1. At(r, "claims") /\ req[r].pc \in Stages
    BY <1>s, <1>3 DEF ReadCache, At
  <2>2. \A e \in Hits(req[r].k) : e.p \in Principal
    BY DEF Hits, TypeOK, Entry
  <2>3. \A e \in Hits(req[r].k) : Known(r, "cached", e.p) \in Req
    BY <1>s, <2>1, <2>2, KnownType
  <2>4. Moved(r, "miss") \in Req
    BY <1>s, <2>1, MovedType
  <2> QED
    BY <1>q, <1>3, <2>1, <2>3, <2>4 DEF ReadCache, Step, Passes
<1>4. ASSUME CheckAccount(r)
      PROVE  /\ NoWrite /\ quota' \in 0..MaxRequests
             /\ \E q \in Req : Goto(r, q) /\ Passes(r, q)
  <2>1. At(r, "cached") /\ req[r].pc \in Stages
    BY <1>s, <1>4 DEF CheckAccount, At
  <2>2. Moved(r, "served") \in Req /\ Known(r, "miss", Nobody) \in Req
    BY <1>s, <2>1, MovedType, KnownType
  <2> QED
    BY <1>q, <1>4, <2>1, <2>2 DEF CheckAccount, Step, Passes
<1>5. ASSUME FindUser(r)
      PROVE  /\ NoWrite /\ quota' \in 0..MaxRequests
             /\ \E q \in Req : Goto(r, q) /\ Passes(r, q)
  <2>1. At(r, "miss") /\ req[r].pc \in Stages
    BY <1>s, <1>5 DEF FindUser, At
  <2>2. \A u \in RowsFor(Sub(r)) : [id |-> u.id, groups |-> {}] \in Principal
    BY DEF RowsFor, TypeOK, Principal
  <2>3. /\ Moved(r, "insert") \in Req
        /\ \A u \in RowsFor(Sub(r)) : Known(r, "account", [id |-> u.id, groups |-> {}]) \in Req
    BY <1>s, <2>1, <2>2, MovedType, KnownType
  <2> QED
    BY <1>q, <1>5, <2>1, <2>3 DEF FindUser, Step, Passes
<1>6. ASSUME Refuse(r) \/ Handle(r)
      PROVE  /\ NoWrite /\ quota' \in 0..MaxRequests
             /\ \E q \in Req : Goto(r, q) /\ Passes(r, q)
  <2>1. Idle.pc \notin Stages \cup {"setactive"}
    BY DEF Idle, Stages
  <2> QED
    BY <1>q, <1>6, <2>1, IdleType DEF Refuse, Handle, Step, Passes
<1>7. ASSUME NEW o \in Officer, NEW i \in Ids, NEW m \in Membership, NEW to \in {"on", "off"},
             LoadMembership(r, o, i, m, to)
      PROVE  /\ NoWrite /\ quota' \in 0..MaxRequests
             /\ \E q \in Req : Goto(r, q) /\ Passes(r, q)
  <2> DEFINE q == [pc |-> "member", id |-> i, m |-> m, was |-> member[i][m], to |-> to]
  <2>1. q \in Req
    BY DEF Req, TypeOK
  <2>2. q.pc \notin Stages \cup {"setactive"}
    BY DEF Stages
  <2> QED
    BY <1>7, <2>1, <2>2, StartQuota DEF LoadMembership, Passes
<1> QED
  BY <1>1, <1>2, <1>3, <1>4, <1>5, <1>6, <1>7 DEF Passive

\* Whoever is passed on keeps the token, or brings one that has been issued.
LEMMA PassesToken ==
  ASSUME TypeInv, NEW r \in Request, NEW q, Passes(r, q), q.pc \in Stages
  PROVE  token[q.k] # NoToken
<1>s. {"ticket", "claims", "miss", "insert", "cached", "account", "served"} = Stages
  BY DEF Stages
<1>0. TypeOK /\ Issued
  BY DEF TypeInv
<1>1. ASSUME NEW k \in Token, Verified(k), q = Caller("claims", None, k)
      PROVE  token[q.k] # NoToken
  BY <1>s, <1>0, <1>1, CallerType DEF Verified
<1>2. ASSUME NEW x \in SseTicket, sse[x].state = "live", q = Caller("ticket", x, sse[x].k)
      PROVE  token[q.k] # NoToken
  <2>1. sse[x].k \in Token /\ token[sse[x].k] # NoToken
    BY <1>0, <1>2, LiveTicket DEF Issued
  <2>2. q.k = sse[x].k
    BY <1>s, <1>0, <1>2, <2>1, CallerType
  <2> QED
    BY <2>1, <2>2
<1>3. ASSUME req[r].pc \in Stages, q.k = req[r].k
      PROVE  token[q.k] # NoToken
  BY <1>0, <1>3 DEF Issued
<1>4. ASSUME req[r].pc \in Stages, NEW pc \in Stages, q = Moved(r, pc)
      PROVE  token[q.k] # NoToken
  BY <1>0, <1>3, <1>4, MovedType
<1>5. ASSUME req[r].pc \in Stages, NEW pc \in Stages, NEW p, q = Known(r, pc, p)
      PROVE  q.k = req[r].k
  <2>1. req[r] \in [pc: Stages, via: SseTicket \cup {None}, k: Token, alive: BOOLEAN,
                    p: Principal \cup {Nobody}]
    BY <1>0, <1>5 DEF TypeOK, Req, Idle, Stages
  <2> QED
    BY <1>5, <2>1 DEF Known
<1> QED
  BY <1>s, <1>1, <1>2, <1>3, <1>4, <1>5 DEF Passes, At
\* A principal comes from the cache or from a row.
LEMMA PassesFace ==
  ASSUME TypeInv, NEW r \in Request, NEW q, Passes(r, q), q.pc \in Faces
  PROVE  q.p \in Principal
<1>s. {"ticket", "claims", "miss", "insert", "cached", "account", "served"} = Stages
  BY DEF Stages
<1>0. TypeOK /\ Issued /\ Faces \subseteq Stages
  BY DEF TypeInv, Faces, Stages
<1>1. ASSUME NEW k \in Token, q = Caller("claims", None, k)
      PROVE  FALSE
  BY <1>s, <1>0, <1>1, CallerType DEF Faces
<1>2. ASSUME NEW x \in SseTicket, sse[x].state = "live", q = Caller("ticket", x, sse[x].k)
      PROVE  FALSE
  <2>1. sse[x].k \in Token
    BY <1>0, <1>2, LiveTicket
  <2>2. q.pc = "ticket"
    BY <1>2 DEF Caller
  <2> QED
    BY <2>2 DEF Faces
<1>3. ASSUME req[r].pc \in Stages, q = Moved(r, "miss") \/ q = Moved(r, "insert")
      PROVE  FALSE
  BY <1>s, <1>0, <1>3, MovedType DEF Faces
<1>4. ASSUME At(r, "cached"), q = Moved(r, "served")
      PROVE  q.p \in Principal
  <2>1. req[r].pc \in Stages /\ req[r].p \in Principal
    BY <1>s, <1>0, <1>4 DEF At, Issued, Faces
  <2> QED
    BY <1>s, <1>0, <1>4, <2>1, MovedType
<1>5. ASSUME req[r].pc \in Stages, q = Known(r, "miss", Nobody)
      PROVE  FALSE
  BY <1>s, <1>0, <1>5, KnownType DEF Faces
<1>6. ASSUME req[r].pc \in Stages, NEW e \in Hits(req[r].k), q = Known(r, "cached", e.p)
      PROVE  q.p \in Principal
  <2>1. e.p \in Principal
    BY <1>0 DEF Hits, TypeOK, Entry
  <2> QED
    BY <1>s, <1>0, <1>6, <2>1, KnownType
<1>7. ASSUME req[r].pc \in Stages, NEW u \in RowsFor(Sub(r)),
             q = Known(r, "account", [id |-> u.id, groups |-> {}])
      PROVE  q.p \in Principal
  <2>1. [id |-> u.id, groups |-> {}] \in Principal
    BY <1>0 DEF RowsFor, TypeOK, Principal
  <2> QED
    BY <1>s, <1>0, <1>7, <2>1, KnownType
<1> QED
  BY <1>s, <1>0, <1>1, <1>2, <1>3, <1>4, <1>5, <1>6, <1>7 DEF Passes, At

LEMMA IssuedFrame ==
  ASSUME TypeInv, [Next]_vars,
         \A x \in Request : req'[x].pc \in Stages => req'[x].k \in Token /\ token[req'[x].k] # NoToken,
         \A x \in Request : req'[x].pc \in Faces => req'[x].p \in Principal,
         \A x \in SseTicket : sse'[x].state = "live" => sse'[x].k \in Token /\ token[sse'[x].k] # NoToken,
         \A e \in cache' : /\ e.key.id \in Token /\ token[e.key.id] # NoToken
                           /\ e.key.sub = token[e.key.id].sub
  PROVE  Issued'
<1>1. \A k \in Token : token[k] # NoToken => token'[k] = token[k]
  BY TokenStays DEF TypeInv
<1> QED
  BY <1>1 DEF Issued

\* What holds before the step, in the form the frame asks for.
LEMMA IssuedNow ==
  ASSUME TypeInv
  PROVE  /\ \A x \in Request : req[x].pc \in Faces => req[x].p \in Principal
         /\ \A x \in Request : req[x].pc \in Stages => req[x].k \in Token /\ token[req[x].k] # NoToken
         /\ \A x \in SseTicket : sse[x].state = "live" => sse[x].k \in Token /\ token[sse[x].k] # NoToken
         /\ \A e \in cache : /\ e.key.id \in Token /\ token[e.key.id] # NoToken
                             /\ e.key.sub = token[e.key.id].sub
BY Shape, LiveTicket DEF TypeInv, Issued

LEMMA TickType ==
  ASSUME TypeInv, [Next]_vars, Tick
  PROVE  TypeInv'
<1>0. TypeOK
  BY DEF TypeInv
<1>1. now' \in Times
  BY <1>0 DEF Tick, TypeOK, Times
<1>2. sse' \in [SseTicket -> SseOf] /\ \A x \in SseTicket : sse'[x] = sse[x] \/ sse'[x].state = "gone"
  BY <1>0 DEF Tick, TypeOK, SseOf
<1>3. cache' \subseteq cache /\ UNCHANGED <<kc, lost, token, streams, users, member, banned, req, quota>>
  BY DEF Tick
<1>4. TypeOK'
  BY <1>0, <1>1, <1>2, <1>3 DEF TypeOK
<1>5. Issued'
  BY <1>2, <1>3, IssuedNow, IssuedFrame
<1> QED
  BY <1>4, <1>5 DEF TypeInv

LEMMA IssueType ==
  ASSUME TypeInv, [Next]_vars, NEW k \in Token, NEW s \in Subject, Issue(k, s)
  PROVE  TypeInv'
<1>0. TypeOK
  BY DEF TypeInv
<1>1. UNCHANGED <<now, kc, lost, cache, sse, streams, users, member, banned, req, quota>>
  BY DEF Issue
<1>2. \A claims \in {{}, kc[s].groups} :
        [state |-> "issued", sub |-> s, issued |-> now, exp |-> now + Life, claims |-> claims] \in TokenOf
  BY <1>0 DEF TypeOK, TokenOf, Times
<1>3. token' \in [Token -> {NoToken} \cup TokenOf]
  BY <1>0, <1>2 DEF Issue, TypeOK
<1>4. TypeOK'
  BY <1>0, <1>1, <1>3 DEF TypeOK
<1>5. Issued'
  BY <1>1, IssuedNow, IssuedFrame
<1> QED
  BY <1>4, <1>5 DEF TypeInv

\* A step of request r that leaves q behind and does not write cache or sse.
LEMMA MoveIssued ==
  ASSUME TypeInv, [Next]_vars, NEW r \in Request, NEW q \in Req, Goto(r, q),
         q.pc \in Stages => q.k \in Token /\ token[q.k] # NoToken,
         q.pc \in Faces => q.p \in Principal,
         UNCHANGED <<cache, sse>>
  PROVE  Issued'
<1>1. \A x \in Request : req'[x] = IF x = r THEN q ELSE req[x]
  BY Steps DEF TypeInv
<1>2. \A x \in Request : /\ req'[x].pc \in Stages => req'[x].k \in Token /\ token[req'[x].k] # NoToken
                         /\ req'[x].pc \in Faces => req'[x].p \in Principal
  BY <1>1, IssuedNow
<1> QED
  BY <1>2, IssuedNow, IssuedFrame

LEMMA PassiveType ==
  ASSUME TypeInv, [Next]_vars, NEW r \in Request, Passive(r)
  PROVE  TypeInv'
<1>0. TypeOK
  BY DEF TypeInv
<1>1. PICK q \in Req : Goto(r, q) /\ Passes(r, q)
  BY <1>0, PassiveSteps
<1>2. NoWrite /\ quota' \in 0..MaxRequests
  BY <1>0, PassiveSteps
<1>3. TypeOK'
  BY <1>0, <1>1, <1>2, QuietType
<1>4. q.pc \in Stages => q.k \in Token /\ token[q.k] # NoToken
  <2>1. q.pc \in Stages => q.k \in Token
    BY DEF Req, Idle, Stages
  <2> QED
    BY <1>1, <2>1, PassesToken
<1>5. Issued'
  BY <1>1, <1>2, <1>4, PassesFace, MoveIssued DEF NoWrite
<1> QED
  BY <1>3, <1>5 DEF TypeInv
LEMMA DeleteTicketType ==
  ASSUME TypeInv, [Next]_vars, NEW r \in Request, DeleteTicket(r)
  PROVE  TypeInv'
<1>0. TypeOK /\ req[r].pc \in Stages
  BY DEF TypeInv, DeleteTicket, At, Stages
<1> DEFINE q == IF Verified(req[r].k) THEN Moved(r, "claims") ELSE Idle
<1>1. Goto(r, q) /\ UNCHANGED <<now, kc, lost, token, cache, streams, users, member, banned, quota>>
  BY DEF DeleteTicket
<1>2. "claims" \in Stages
  BY DEF Stages
<1>3. q \in Req
  BY <1>0, <1>2, MovedType, IdleType
<1>4. q.pc \in Stages => q.k \in Token /\ token[q.k] # NoToken
  BY <1>0, <1>2, MovedType, IdleType, IssuedNow
<1>9. q.pc \notin Faces
  BY <1>0, <1>2, MovedType, IdleType DEF Faces
<1> HIDE DEF q
<1>5. sse' \in [SseTicket -> SseOf] /\ \A x \in SseTicket : sse'[x] = sse[x] \/ sse'[x].state = "gone"
  BY <1>0 DEF DeleteTicket, TicketDropped, TypeOK, SseOf
<1>6. TypeOK'
  BY <1>0, <1>1, <1>3, <1>5, SlotType DEF TypeOK
<1>7. \A x \in Request : req'[x] = IF x = r THEN q ELSE req[x]
  BY <1>0, <1>1, Steps
<1>8. Issued'
  BY <1>1, <1>4, <1>5, <1>7, <1>9, IssuedNow, IssuedFrame
<1> QED
  BY <1>6, <1>8 DEF TypeInv

LEMMA FreshIdType ==
  ASSUME NEW r \in Request, InsertUser(r)
  PROVE  FreshId \in Ids /\ \A u \in users : u.id # FreshId
BY DEF InsertUser, FreshId

LEMMA InsertUserType ==
  ASSUME TypeInv, [Next]_vars, NEW r \in Request, InsertUser(r)
  PROVE  TypeInv'
<1> DEFINE p == [id |-> FreshId, groups |-> {}]
           q == Known(r, "account", p)
<1>0. TypeOK /\ req[r].pc \in Stages /\ "account" \in Stages
  BY DEF TypeInv, InsertUser, At, Stages
<1>1. FreshId \in Ids /\ p \in Principal
  BY FreshIdType DEF Principal
<1>2. /\ Goto(r, q) /\ UNCHANGED <<now, kc, lost, token, cache, sse, streams, member, banned, quota>>
      /\ users' = users \cup {[id |-> FreshId, sub |-> Sub(r), active |-> TRUE]}
  BY DEF InsertUser
<1>3. q \in Req /\ q.k = req[r].k /\ q.p \in Principal
  BY <1>0, <1>1, KnownType
<1>4. req[r].k \in Token /\ token[req[r].k] # NoToken
  BY <1>0, IssuedNow
<1>5. Sub(r) \in Subject
  BY <1>0, <1>4 DEF TypeOK, TokenOf, Sub
<1>8. [id |-> FreshId, sub |-> Sub(r), active |-> TRUE] \in [id: Ids, sub: Subject, active: BOOLEAN]
  BY <1>1, <1>5
<1> HIDE DEF q, p
<1>6. TypeOK'
  BY <1>0, <1>2, <1>3, <1>8, SlotType DEF TypeOK
<1>7. Issued'
  BY <1>2, <1>3, <1>4, MoveIssued
<1> QED
  BY <1>6, <1>7 DEF TypeInv

LEMMA BuildPrincipalType ==
  ASSUME TypeInv, [Next]_vars, NEW r \in Request, BuildPrincipal(r)
  PROVE  TypeInv'
<1> DEFINE k == req[r].k
<1>0. TypeOK /\ req[r].pc \in Stages /\ "served" \in Stages
  BY DEF TypeInv, BuildPrincipal, At, Stages
<1>1. k \in Token /\ token[k] # NoToken
  BY <1>0, IssuedNow
<1>2. token[k] \in TokenOf
  BY <1>0, <1>1 DEF TypeOK
<1>3. \A groups \in Granted(k) : groups \in SUBSET Membership
  BY <1>0, <1>2 DEF Granted, TokenOf, TypeOK
<1>4. req[r].p \in Principal
  BY IssuedNow DEF BuildPrincipal, At, Faces
<1>5. PICK groups \in Granted(k) :
        /\ Goto(r, Known(r, "served", [id |-> req[r].p.id, groups |-> groups]))
        /\ \/ UNCHANGED cache
           \/ token[k].exp > now /\ cache' = Stored(k, [id |-> req[r].p.id, groups |-> groups])
  BY DEF BuildPrincipal
<1> DEFINE p == [id |-> req[r].p.id, groups |-> groups]
           q == Known(r, "served", p)
<1>6. p \in Principal
  BY <1>3, <1>4, <1>5 DEF Principal
<1>7. q \in Req /\ q.k = k /\ q.p = p
  BY <1>0, <1>6, KnownType
<1>8. UNCHANGED <<now, kc, lost, token, sse, streams, users, member, banned, quota>>
  BY DEF BuildPrincipal
<1>9. Goto(r, q) /\ (cache' = cache \/ cache' = Stored(k, p))
  BY <1>5
<1> HIDE DEF p, q
<1>10. cache' \subseteq Entry /\ \A a, b \in cache' : a.key = b.key => a = b
  BY <1>0, <1>1, <1>6, <1>9, StoredType DEF TypeOK
<1>11. TypeOK'
  BY <1>0, <1>7, <1>8, <1>9, <1>10, SlotType DEF TypeOK
<1>12. \A e \in cache' : e \in cache \/ e.key = [sub |-> token[k].sub, id |-> k]
  BY <1>9 DEF Stored, CacheKey
<1>13. \A e \in cache' : /\ e.key.id \in Token /\ token[e.key.id] # NoToken
                         /\ e.key.sub = token[e.key.id].sub
  BY <1>1, <1>12, IssuedNow
<1>14. \A x \in Request : req'[x] = IF x = r THEN q ELSE req[x]
  BY <1>0, <1>9, Steps
<1>15. Issued'
  BY <1>1, <1>6, <1>7, <1>8, <1>13, <1>14, IssuedNow, IssuedFrame
<1> QED
  BY <1>11, <1>15 DEF TypeInv

LEMMA CreateStreamTicketType ==
  ASSUME TypeInv, [Next]_vars, NEW r \in Request, NEW x \in SseTicket, CreateStreamTicket(r, x)
  PROVE  TypeInv'
<1>0. TypeOK /\ req[r].pc \in Stages
  BY DEF TypeInv, CreateStreamTicket, At, Stages
<1>1. req[r].k \in Token /\ token[req[r].k] # NoToken
  BY <1>0, IssuedNow
<1> DEFINE new == [state |-> "live", k |-> req[r].k, until |-> now + SseLife]
<1>2. new \in SseOf /\ new.k = req[r].k
  BY <1>0, <1>1 DEF SseOf, TypeOK, Times
<1>3. /\ Goto(r, Idle) /\ sse' = [sse EXCEPT ![x] = new]
      /\ UNCHANGED <<now, kc, lost, token, cache, streams, users, member, banned, quota>>
  BY DEF CreateStreamTicket
<1> HIDE DEF new
<1>4. sse' \in [SseTicket -> SseOf] /\ \A y \in SseTicket : sse'[y] = IF y = x THEN new ELSE sse[y]
  BY <1>0, <1>2, <1>3 DEF TypeOK
<1>5. TypeOK'
  BY <1>0, <1>3, <1>4, IdleType, SlotType DEF TypeOK
<1>6. \A y \in Request : req'[y] = IF y = r THEN Idle ELSE req[y]
  BY <1>0, <1>3, Steps
<1>7. Idle.pc \notin Stages /\ Idle.pc \notin Faces
  BY IdleType DEF Faces
<1>8. \A y \in SseTicket : sse'[y].state = "live" => sse'[y].k \in Token /\ token[sse'[y].k] # NoToken
  BY <1>1, <1>2, <1>4, IssuedNow
<1>9. \A y \in Request : /\ req'[y].pc \in Stages => req'[y].k \in Token /\ token[req'[y].k] # NoToken
                         /\ req'[y].pc \in Faces => req'[y].p \in Principal
  BY <1>6, <1>7, IssuedNow
<1>10. Issued'
  BY <1>3, <1>8, <1>9, IssuedNow, IssuedFrame
<1> QED
  BY <1>5, <1>10 DEF TypeInv

LEMMA OpenStreamType ==
  ASSUME TypeInv, [Next]_vars, NEW r \in Request, OpenStream(r)
  PROVE  TypeInv'
<1>0. TypeOK /\ req[r].pc \in Stages
  BY DEF TypeInv, OpenStream, At, Stages
<1>1. req[r].via \in SseTicket
  BY <1>0, Shape DEF OpenStream
<1>2. /\ Goto(r, Idle) /\ streams' = streams \cup {req[r].via}
      /\ UNCHANGED <<now, kc, lost, token, cache, sse, users, member, banned, quota>>
  BY DEF OpenStream
<1>3. TypeOK'
  BY <1>0, <1>1, <1>2, IdleType, SlotType DEF TypeOK
<1>4. Idle.pc \notin Stages /\ Idle.pc \notin Faces
  BY IdleType DEF Faces
<1>5. Issued'
  BY <1>2, <1>4, IdleType, MoveIssued
<1> QED
  BY <1>3, <1>5 DEF TypeInv

LEMMA PendingType ==
  ASSUME TypeOK, NEW r \in Request, At(r, "setactive")
  PROVE  req[r] \in [pc: {"setactive"}, id: Ids, was: BOOLEAN, to: BOOLEAN, clean: BOOLEAN]
<1>1. req[r] \in Req /\ req[r].pc = "setactive"
  BY DEF TypeOK, At
<1>2. req[r] # Idle
  BY <1>1 DEF Idle
<1>3. req[r] \notin [pc: Stages, via: SseTicket \cup {None}, k: Token, alive: BOOLEAN,
                     p: Principal \cup {Nobody}]
  BY <1>1 DEF Stages
<1>4. req[r] \notin [pc: {"member"}, id: Ids, m: Membership, was: {"none", "on", "off"},
                     to: {"on", "off"}]
  BY <1>1
<1> QED
  BY <1>1, <1>2, <1>3, <1>4 DEF Req

LEMMA EnabledType ==
  ASSUME kc \in [Subject -> [groups: SUBSET Membership, enabled: BOOLEAN]],
         NEW s \in Subject, NEW b \in BOOLEAN
  PROVE  /\ [kc EXCEPT ![s].enabled = b] \in [Subject -> [groups: SUBSET Membership, enabled: BOOLEAN]]
         /\ \A t \in Subject : /\ [kc EXCEPT ![s].enabled = b][t].groups = kc[t].groups
                               /\ [kc EXCEPT ![s].enabled = b][t].enabled = IF t = s THEN b ELSE kc[t].enabled
<1>1. [kc[s] EXCEPT !.enabled = b] \in [groups: SUBSET Membership, enabled: BOOLEAN]
  OBVIOUS
<1>2. [kc EXCEPT ![s].enabled = b] = [kc EXCEPT ![s] = [kc[s] EXCEPT !.enabled = b]]
  OBVIOUS
<1> QED
  BY <1>1, <1>2

\* The memory of a request that enables or disables an account.
LEMMA SetActiveShape ==
  ASSUME TypeOK, NEW r \in Request, NEW o \in Officer, NEW i \in Ids, NEW b \in BOOLEAN, SetActive(r, o, i, b)
  PROVE  \A x \in Request :
           /\ req'[x] \in Req
           /\ IF x = r THEN req'[x].pc = "setactive"
              ELSE \/ req'[x] = req[x]
                   \/ At(x, "setactive") /\ req'[x] = [req[x] EXCEPT !.clean = FALSE]
<1>1. PICK u \in users :
        req' = [x \in Request |->
            IF x = r THEN [pc |-> "setactive", id |-> i, was |-> u.active, to |-> b,
                           clean |-> ~b /\ \A y \in Request : At(y, "setactive") /\ req[y].id = i => ~req[y].to]
            ELSE IF b /\ At(x, "setactive") /\ req[x].id = i THEN [req[x] EXCEPT !.clean = FALSE]
            ELSE req[x]]
  BY DEF SetActive
<1>2. u.active \in BOOLEAN
  BY DEF TypeOK
<1> SUFFICES ASSUME NEW x \in Request
             PROVE  /\ req'[x] \in Req
                    /\ IF x = r THEN req'[x].pc = "setactive"
                       ELSE \/ req'[x] = req[x]
                            \/ At(x, "setactive") /\ req'[x] = [req[x] EXCEPT !.clean = FALSE]
  OBVIOUS
<1>3. CASE x = r
  <2> DEFINE clean == ~b /\ \A y \in Request : At(y, "setactive") /\ req[y].id = i => ~req[y].to
  <2>1. clean \in BOOLEAN
    OBVIOUS
  <2>2. req'[x] = [pc |-> "setactive", id |-> i, was |-> u.active, to |-> b, clean |-> clean]
    BY <1>1, <1>3
  <2> HIDE DEF clean
  <2> QED
    BY <1>2, <1>3, <2>1, <2>2 DEF Req
<1>4. CASE x # r /\ b /\ At(x, "setactive") /\ req[x].id = i
  <2>1. req'[x] = [req[x] EXCEPT !.clean = FALSE]
    BY <1>1, <1>4
  <2>2. req[x] \in [pc: {"setactive"}, id: Ids, was: BOOLEAN, to: BOOLEAN, clean: BOOLEAN]
    BY <1>4, PendingType
  <2>3. [req[x] EXCEPT !.clean = FALSE] \in [pc: {"setactive"}, id: Ids, was: BOOLEAN, to: BOOLEAN, clean: BOOLEAN]
    BY <2>2
  <2> QED
    BY <1>4, <2>1, <2>3 DEF Req
<1>5. CASE x # r /\ ~(b /\ At(x, "setactive") /\ req[x].id = i)
  <2>1. req'[x] = req[x]
    BY <1>1, <1>5
  <2> QED
    BY <1>5, <2>1 DEF TypeOK
<1> QED
  BY <1>3, <1>4, <1>5

LEMMA SetActiveType ==
  ASSUME TypeInv, [Next]_vars, NEW r \in Request, NEW o \in Officer, NEW i \in Ids, NEW b \in BOOLEAN,
         SetActive(r, o, i, b)
  PROVE  TypeInv'
<1>0. TypeOK
  BY DEF TypeInv
<1>1. PICK u \in users : /\ kc' = [kc EXCEPT ![u.sub].enabled = b]
                         /\ banned' = IF b THEN banned \ {u.sub} ELSE banned
  BY DEF SetActive, KeycloakSet
<1>2. UNCHANGED <<now, lost, token, cache, sse, streams, users, member>> /\ quota' \in 0..MaxRequests
  BY <1>0, StartQuota DEF SetActive
<1>3. u.sub \in Subject
  BY <1>0 DEF TypeOK
<1>4. kc' \in [Subject -> [groups: SUBSET Membership, enabled: BOOLEAN]]
  BY <1>0, <1>1, <1>3, EnabledType DEF TypeOK
<1>b. banned \subseteq Subject
  BY <1>0 DEF TypeOK
<1>5. banned' \subseteq Subject
  BY <1>1, <1>b
<1>6. req' \in [Request -> Req]
  <2>1. req' = [x \in Request |-> req'[x]]
    BY DEF SetActive
  <2>2. \A x \in Request : req'[x] \in Req
    BY <1>0, SetActiveShape, ZenonT(60)
  <2> QED
    BY <2>1, <2>2
<1>7. TypeOK'
  BY <1>0, <1>2, <1>4, <1>5, <1>6 DEF TypeOK
<1>8. \A x \in Request : req'[x] = req[x] \/ req'[x].pc = "setactive"
  <2>1. \A x \in Request : At(x, "setactive") =>
          [req[x] EXCEPT !.clean = FALSE].pc = "setactive"
    <3> TAKE x \in Request
    <3> HAVE At(x, "setactive")
    <3>1. req[x] \in [pc: {"setactive"}, id: Ids, was: BOOLEAN, to: BOOLEAN, clean: BOOLEAN]
      BY <1>0, PendingType
    <3> QED
      BY <3>1
  <2>2. \A x \in Request :
          IF x = r THEN req'[x].pc = "setactive"
          ELSE \/ req'[x] = req[x]
               \/ At(x, "setactive") /\ req'[x] = [req[x] EXCEPT !.clean = FALSE]
    BY <1>0, SetActiveShape
  <2> QED
    BY <2>1, <2>2
<1>9. "setactive" \notin Stages /\ "setactive" \notin Faces
  BY DEF Stages, Faces
<1>10. Issued'
  BY <1>2, <1>8, <1>9, IssuedNow, IssuedFrame
<1> QED
  BY <1>7, <1>10 DEF TypeInv

\* The row of an account that has been addressed.
LEMMA RowOf ==
  ASSUME NEW i, \E u \in users : u.id = i
  PROVE  Row(i) \in users /\ Row(i).id = i
BY DEF Row

\* The memory of others when the statement of an administrator is committed.
LEMMA CommitShape ==
  ASSUME TypeOK, NEW r \in Request, CommitActive(r)
  PROVE  \A x \in Request :
           /\ req'[x] \in Req
           /\ IF x = r THEN req'[x] = Idle
              ELSE \/ req'[x] = req[x]
                   \/ req[x].pc \in Stages /\ req'[x] = [req[x] EXCEPT !.alive = TRUE]
<1>1. req' = [x \in Request |->
        IF x = r THEN Idle
        ELSE IF req[x].pc \in Stages /\ [id |-> req[r].id, sub |-> Sub(x), active |-> TRUE] \in users'
             THEN [req[x] EXCEPT !.alive = TRUE] ELSE req[x]]
  BY DEF CommitActive
<1> TAKE x \in Request
<1>2. req[x] \in Req /\ Idle \in Req
  BY IdleType DEF TypeOK
<1>3. req[x].pc \in Stages => [req[x] EXCEPT !.alive = TRUE] \in Req
  <2> HAVE req[x].pc \in Stages
  <2>1. req[x] \in [pc: Stages, via: SseTicket \cup {None}, k: Token, alive: BOOLEAN,
                    p: Principal \cup {Nobody}]
    BY <1>2 DEF Req, Idle, Stages
  <2> QED
    BY <2>1 DEF Req
<1>4. IF x = r THEN req'[x] = Idle
      ELSE \/ req'[x] = req[x]
           \/ req[x].pc \in Stages /\ req'[x] = [req[x] EXCEPT !.alive = TRUE]
  BY <1>1
<1> QED
  BY <1>2, <1>3, <1>4

\* A living request is otherwise unchanged.
LEMMA AliveType ==
  ASSUME TypeOK, NEW x \in Request, req[x].pc \in Stages
  PROVE  LET q == [req[x] EXCEPT !.alive = TRUE]
         IN  q.pc = req[x].pc /\ q.via = req[x].via /\ q.k = req[x].k /\ q.p = req[x].p /\ q.alive
<1>1. req[x] \in [pc: Stages, via: SseTicket \cup {None}, k: Token, alive: BOOLEAN,
                  p: Principal \cup {Nobody}]
  BY DEF TypeOK, Req, Idle, Stages
<1> QED
  BY <1>1

\* Whoever is being administered has a row.
Addressed ==
  \A r \in Request : req[r].pc \in {"setactive", "member"} => \E u \in users : u.id = req[r].id

LEMMA CommitActiveType ==
  ASSUME TypeInv, Addressed, [Next]_vars, NEW r \in Request, CommitActive(r)
  PROVE  TypeInv'
<1>0. TypeOK
  BY DEF TypeInv
<1>1. /\ req[r].to \in BOOLEAN /\ req[r].id \in Ids
      /\ UNCHANGED <<now, kc, lost, token, cache, sse, streams, member, quota>>
  BY <1>0, Shape DEF CommitActive, At
<1>2. users' \subseteq [id: Ids, sub: Subject, active: BOOLEAN]
  <2>3. users \subseteq [id: Ids, sub: Subject, active: BOOLEAN]
    BY <1>0 DEF TypeOK
  <2>1. \A u \in users : [u EXCEPT !.active = req[r].to] \in [id: Ids, sub: Subject, active: BOOLEAN]
    BY <1>1, <2>3
  <2>2. \A v \in users' : v \in users \/ \E u \in users : v = [u EXCEPT !.active = req[r].to]
    BY DEF CommitActive
  <2> QED
    BY <2>1, <2>2, <2>3
<1>3. banned' \subseteq Subject
  <2>1. Row(req[r].id) \in users
    BY RowOf DEF Addressed, CommitActive, At
  <2>2. Row(req[r].id).sub \in Subject
    BY <1>0, <2>1 DEF TypeOK
  <2> QED
    BY <1>0, <2>2 DEF CommitActive, TypeOK
<1>4. req' \in [Request -> Req]
  <2>1. req' = [x \in Request |-> req'[x]]
    BY DEF CommitActive
  <2>2. \A x \in Request : req'[x] \in Req
    BY <1>0, CommitShape
  <2> QED
    BY <2>1, <2>2
<1>5. TypeOK'
  BY <1>0, <1>1, <1>2, <1>3, <1>4 DEF TypeOK
<1>6. \A x \in Request :
        \/ req'[x].pc \notin Stages
        \/ req'[x].pc = req[x].pc /\ req'[x].k = req[x].k /\ req'[x].p = req[x].p
  <2> TAKE x \in Request
  <2>1. IF x = r THEN req'[x] = Idle
        ELSE \/ req'[x] = req[x]
             \/ req[x].pc \in Stages /\ req'[x] = [req[x] EXCEPT !.alive = TRUE]
    BY <1>0, CommitShape
  <2> QED
    BY <1>0, <2>1, IdleType, AliveType
<1>7. Faces \subseteq Stages
  BY DEF Faces, Stages
<1>8. Issued'
  BY <1>1, <1>6, <1>7, IssuedNow, IssuedFrame
<1> QED
  BY <1>5, <1>8 DEF TypeInv

LEMMA RegroupedType ==
  ASSUME kc \in [Subject -> [groups: SUBSET Membership, enabled: BOOLEAN]],
         NEW s \in Subject, NEW m \in Membership, NEW to \in {"on", "off"}
  PROVE  /\ Regrouped(s, m, to) \in [Subject -> [groups: SUBSET Membership, enabled: BOOLEAN]]
         /\ \A t \in Subject :
              /\ Regrouped(s, m, to)[t].enabled = kc[t].enabled
              /\ t # s => Regrouped(s, m, to)[t] = kc[t]
              /\ kc[t].groups \ {m} \subseteq Regrouped(s, m, to)[t].groups
<1> DEFINE gs == IF to = "on" THEN kc[s].groups \cup {m} ELSE kc[s].groups \ {m}
<1>0. kc[s].groups \in SUBSET Membership
  OBVIOUS
<1>1. gs \in SUBSET Membership /\ kc[s].groups \ {m} \subseteq gs
  BY <1>0
<1>2. Regrouped(s, m, to) = [kc EXCEPT ![s] = [kc[s] EXCEPT !.groups = gs]]
  BY DEF Regrouped
<1> HIDE DEF gs
<1>3. /\ [kc[s] EXCEPT !.groups = gs] \in [groups: SUBSET Membership, enabled: BOOLEAN]
      /\ [kc[s] EXCEPT !.groups = gs].enabled = kc[s].enabled
      /\ [kc[s] EXCEPT !.groups = gs].groups = gs
  BY <1>1
<1> QED
  BY <1>1, <1>2, <1>3

LEMMA LostType ==
  ASSUME TypeOK, NEW s \in Subject, NEW m \in Membership
  PROVE  /\ [lost EXCEPT ![s][m] = now] \in [Subject -> [Membership -> 0..Horizon]]
         /\ \A t \in Subject, n \in Membership :
              [lost EXCEPT ![s][m] = now][t][n] = IF t = s /\ n = m THEN now ELSE lost[t][n]
<1>1. now \in 0..Horizon /\ lost \in [Subject -> [Membership -> 0..Horizon]]
  BY DEF TypeOK, Times
<1>2. [lost[s] EXCEPT ![m] = now] \in [Membership -> 0..Horizon]
  BY <1>1
<1>3. [lost EXCEPT ![s][m] = now] = [lost EXCEPT ![s] = [lost[s] EXCEPT ![m] = now]]
  OBVIOUS
<1> QED
  BY <1>1, <1>2, <1>3

LEMMA WriteMembershipType ==
  ASSUME TypeInv, Addressed, [Next]_vars, NEW r \in Request, WriteMembership(r)
  PROVE  TypeInv'
<1> DEFINE m == req[r].m
           i == req[r].id
           to == req[r].to
           s == Row(i).sub
<1>0. TypeOK
  BY DEF TypeInv
<1>1. i \in Ids /\ m \in Membership /\ to \in {"on", "off"}
  BY <1>0, Shape DEF WriteMembership, At
<1>2. s \in Subject
  <2>1. Row(i) \in users
    BY RowOf DEF Addressed, WriteMembership, At
  <2> QED
    BY <1>0, <2>1 DEF TypeOK
<1>3. /\ kc' \in {kc, Regrouped(s, m, to)}
      /\ lost' = lost \/ lost' = [lost EXCEPT ![s][m] = now]
      /\ member' = member \/ member' = [member EXCEPT ![i][m] = to]
      /\ Goto(r, Idle)
      /\ UNCHANGED <<now, token, cache, sse, streams, users, banned, quota>>
  BY DEF WriteMembership
<1> HIDE DEF m, i, to, s
<1>4. kc' \in [Subject -> [groups: SUBSET Membership, enabled: BOOLEAN]]
  BY <1>0, <1>1, <1>2, <1>3, RegroupedType DEF TypeOK
<1>5. lost' \in [Subject -> [Membership -> 0..Horizon]]
  <2>1. lost \in [Subject -> [Membership -> 0..Horizon]]
    BY <1>0 DEF TypeOK
  <2>2. [lost EXCEPT ![s][m] = now] \in [Subject -> [Membership -> 0..Horizon]]
    BY <1>0, <1>1, <1>2, LostType
  <2> QED
    BY <1>3, <2>1, <2>2
<1>6. member' \in [Ids -> [Membership -> {"none", "on", "off"}]]
  <2>1. [member[i] EXCEPT ![m] = to] \in [Membership -> {"none", "on", "off"}]
    BY <1>0, <1>1 DEF TypeOK
  <2>2. [member EXCEPT ![i][m] = to] = [member EXCEPT ![i] = [member[i] EXCEPT ![m] = to]]
    OBVIOUS
  <2> QED
    BY <1>0, <1>1, <1>3, <2>1, <2>2 DEF TypeOK
<1>7. TypeOK'
  BY <1>0, <1>3, <1>4, <1>5, <1>6, IdleType, SlotType DEF TypeOK
<1>8. Idle.pc \notin Stages /\ Idle.pc \notin Faces
  BY IdleType DEF Faces
<1>9. Issued'
  BY <1>3, <1>8, IdleType, MoveIssued
<1> QED
  BY <1>7, <1>9 DEF TypeInv
-----------------------------------------------------------------------------
(* The steps of the system, and the first invariant                        *)

\* The steps of a request, the passive ones in one.
Acts(r) ==
  \/ Passive(r) \/ DeleteTicket(r) \/ InsertUser(r) \/ BuildPrincipal(r) \/ OpenStream(r)
  \/ \E x \in SseTicket : CreateStreamTicket(r, x)
  \/ \E o \in Officer, i \in Ids, b \in BOOLEAN : SetActive(r, o, i, b)
  \/ CommitActive(r) \/ WriteMembership(r)

LEMMA Cases ==
  ASSUME [Next]_vars
  PROVE  \/ UNCHANGED vars
         \/ Tick
         \/ \E k \in Token, s \in Subject : Issue(k, s)
         \/ \E r \in Request : Acts(r)
<1>1. ASSUME NEW r \in Request, Authenticate(r)
      PROVE  Acts(r)
  BY <1>1 DEF Authenticate, Acts, Passive
<1>2. ASSUME NEW r \in Request, Endpoint(r)
      PROVE  Acts(r)
  BY <1>2 DEF Endpoint, Acts, Passive
<1>3. ASSUME NEW r \in Request, Administer(r)
      PROVE  Acts(r)
  BY <1>3 DEF Administer, Acts, Passive
<1> QED
  BY <1>1, <1>2, <1>3 DEF Next

\* Who writes the users table, the cache, and the SSE tickets.
LEMMA Writers ==
  ASSUME [Next]_vars
  PROVE  /\ UNCHANGED users \/ \E r \in Request : InsertUser(r) \/ CommitActive(r)
         /\ cache' \subseteq cache \/ \E r \in Request : BuildPrincipal(r)
         /\ \/ \A x \in SseTicket : sse'[x] = sse[x] \/ sse'[x].state = "gone"
            \/ \E r \in Request, x \in SseTicket : CreateStreamTicket(r, x)
            \/ \E r \in Request : DeleteTicket(r)
         /\ UNCHANGED streams \/ \E r \in Request : OpenStream(r)
<1>1. ASSUME NEW r \in Request, Acts(r), ~InsertUser(r), ~CommitActive(r)
      PROVE  UNCHANGED users
  BY <1>1 DEF Acts, Passive, Bearer, FetchTicket, ReadCache, CheckAccount, FindUser, Refuse, Handle,
       LoadMembership, DeleteTicket, BuildPrincipal, OpenStream, CreateStreamTicket, SetActive,
       WriteMembership, Step, NoWrite
<1>2. ASSUME NEW r \in Request, Acts(r), ~BuildPrincipal(r)
      PROVE  UNCHANGED cache
  BY <1>2 DEF Acts, Passive, Bearer, FetchTicket, ReadCache, CheckAccount, FindUser, Refuse, Handle,
       LoadMembership, DeleteTicket, InsertUser, OpenStream, CreateStreamTicket, SetActive,
       CommitActive, WriteMembership, Step, NoWrite
<1>3. ASSUME NEW r \in Request, Acts(r), ~DeleteTicket(r), \A x \in SseTicket : ~CreateStreamTicket(r, x)
      PROVE  UNCHANGED sse
  BY <1>3 DEF Acts, Passive, Bearer, FetchTicket, ReadCache, CheckAccount, FindUser, Refuse, Handle,
       LoadMembership, InsertUser, BuildPrincipal, OpenStream, SetActive, CommitActive,
       WriteMembership, Step, NoWrite
<1>4. ASSUME NEW r \in Request, Acts(r), ~OpenStream(r)
      PROVE  UNCHANGED streams
  BY <1>4 DEF Acts, Passive, Bearer, FetchTicket, ReadCache, CheckAccount, FindUser, Refuse, Handle,
       LoadMembership, DeleteTicket, InsertUser, BuildPrincipal, CreateStreamTicket, SetActive,
       CommitActive, WriteMembership, Step, NoWrite
<1>5. ASSUME Tick
      PROVE  /\ UNCHANGED <<users, streams>> /\ cache' \subseteq cache
             /\ \A x \in SseTicket : sse'[x] = sse[x] \/ sse'[x].state = "gone"
  BY <1>5 DEF Tick
<1>6. (\E k \in Token, s \in Subject : Issue(k, s)) \/ UNCHANGED vars
        => UNCHANGED <<users, cache, sse, streams>>
  BY DEF Issue, vars
<1> QED
  BY <1>1, <1>2, <1>3, <1>4, <1>5, <1>6, Cases

\* Rows keep their id and their subject; new ones are a first request's.
LEMMA RowsStay ==
  ASSUME TypeInv, [Next]_vars
  PROVE  \A u \in users : \E v \in users' : v.id = u.id /\ v.sub = u.sub
<1>1. ASSUME UNCHANGED users
      PROVE  \A u \in users : \E v \in users' : v.id = u.id /\ v.sub = u.sub
  BY <1>1
<1>2. ASSUME NEW r \in Request, InsertUser(r)
      PROVE  \A u \in users : \E v \in users' : v.id = u.id /\ v.sub = u.sub
  BY <1>2 DEF InsertUser
<1>3. ASSUME NEW r \in Request, CommitActive(r)
      PROVE  \A u \in users : \E v \in users' : v.id = u.id /\ v.sub = u.sub
  <2>1. CASE users' = users
    BY <2>1
  <2>2. CASE users' = {IF u.id = req[r].id THEN [u EXCEPT !.active = req[r].to] ELSE u : u \in users}
    <3> TAKE u \in users
    <3> DEFINE v == IF u.id = req[r].id THEN [u EXCEPT !.active = req[r].to] ELSE u
    <3>1. u \in [id: Ids, sub: Subject, active: BOOLEAN]
      BY DEF TypeInv, TypeOK
    <3>2. v.id = u.id /\ v.sub = u.sub
      BY <3>1
    <3>3. v \in users'
      BY <2>2
    <3> QED
      BY <3>2, <3>3
  <2> QED
    BY <1>3, <2>1, <2>2 DEF CommitActive
<1> QED
  BY <1>1, <1>2, <1>3, Writers

\* What a step of r leaves of the others' memories.
LEMMA Others ==
  ASSUME TypeInv, NEW r \in Request, Acts(r), NEW x \in Request, x # r
  PROVE  \/ req'[x] = req[x]
         \/ /\ CommitActive(r) /\ req[x].pc \in Stages
            /\ req'[x] = [req[x] EXCEPT !.alive = TRUE]
         \/ /\ At(x, "setactive") /\ req'[x] = [req[x] EXCEPT !.clean = FALSE]
            /\ \E o \in Officer, i \in Ids : SetActive(r, o, i, TRUE) /\ req[x].id = i
<1>0. TypeOK
  BY DEF TypeInv
<1>1. ASSUME NEW q, Goto(r, q)
      PROVE  req'[x] = req[x]
  BY <1>0, <1>1, Steps
<1>2. Passive(r) => \E q : Goto(r, q)
  BY <1>0, PassiveSteps
<1>3. DeleteTicket(r) \/ InsertUser(r) \/ BuildPrincipal(r) \/ OpenStream(r) => \E q : Goto(r, q)
  BY DEF DeleteTicket, InsertUser, BuildPrincipal, OpenStream
<1>4. WriteMembership(r) \/ (\E y \in SseTicket : CreateStreamTicket(r, y)) => \E q : Goto(r, q)
  BY DEF WriteMembership, CreateStreamTicket
<1>5. CommitActive(r) => \/ req'[x] = req[x]
                         \/ req[x].pc \in Stages /\ req'[x] = [req[x] EXCEPT !.alive = TRUE]
  BY <1>0, CommitShape
<1>6. ASSUME NEW o \in Officer, NEW i \in Ids, NEW b \in BOOLEAN, SetActive(r, o, i, b)
      PROVE  \/ req'[x] = req[x]
             \/ /\ At(x, "setactive") /\ req'[x] = [req[x] EXCEPT !.clean = FALSE]
                /\ SetActive(r, o, i, TRUE) /\ req[x].id = i
  <2>1. req'[x] = IF b /\ At(x, "setactive") /\ req[x].id = i THEN [req[x] EXCEPT !.clean = FALSE]
                  ELSE req[x]
    BY <1>6 DEF SetActive
  <2>2. CASE b /\ At(x, "setactive") /\ req[x].id = i
    <3>1. req'[x] = [req[x] EXCEPT !.clean = FALSE] /\ b = TRUE
      BY <2>1, <2>2
    <3>2. SetActive(r, o, i, TRUE)
      BY <1>6, <3>1, Zenon
    <3> QED
      BY <2>2, <3>1, <3>2, Zenon
  <2>3. CASE ~(b /\ At(x, "setactive") /\ req[x].id = i)
    BY <2>1, <2>3, Zenon
  <2> QED
    BY <2>2, <2>3
<1>7. ASSUME ~CommitActive(r), \A o \in Officer, i \in Ids, b \in BOOLEAN : ~SetActive(r, o, i, b)
      PROVE  req'[x] = req[x]
  <2>1. \E q : Goto(r, q)
    BY <1>2, <1>3, <1>4, <1>7 DEF Acts
  <2> QED
    BY <1>1, <2>1
<1>8. ASSUME NEW o \in Officer, NEW i \in Ids, NEW b \in BOOLEAN, SetActive(r, o, i, b)
      PROVE  \/ req'[x] = req[x]
             \/ /\ At(x, "setactive") /\ req'[x] = [req[x] EXCEPT !.clean = FALSE]
                /\ \E n \in Officer, j \in Ids : SetActive(r, n, j, TRUE) /\ req[x].id = j
  <2>1. \/ req'[x] = req[x]
        \/ /\ At(x, "setactive") /\ req'[x] = [req[x] EXCEPT !.clean = FALSE]
           /\ SetActive(r, o, i, TRUE) /\ req[x].id = i
    BY <1>6, <1>8, Zenon
  <2> QED
    BY <2>1, Zenon
<1>9. CASE CommitActive(r)
  BY <1>5, <1>9
<1> QED
  BY <1>7, <1>8, <1>9

\* Who administers after a step has just begun.
LEMMA SelfAfter ==
  ASSUME TypeInv, NEW r \in Request, Acts(r)
  PROVE  \/ req'[r].pc \notin {"setactive", "member"}
         \/ \E o \in Officer, i \in Ids, m \in Membership, to \in {"on", "off"} : LoadMembership(r, o, i, m, to)
         \/ \E o \in Officer, i \in Ids, b \in BOOLEAN : SetActive(r, o, i, b)
<1>0. TypeOK
  BY DEF TypeInv
<1>1. ASSUME NEW q, Goto(r, q), q.pc \notin {"setactive", "member"}
      PROVE  req'[r].pc \notin {"setactive", "member"}
  BY <1>0, <1>1, Steps
<1>2. CommitActive(r) => req'[r] = Idle
  BY <1>0, CommitShape
<1>3. ASSUME Passive(r), \A o \in Officer, i \in Ids, m \in Membership, to \in {"on", "off"} :
                           ~LoadMembership(r, o, i, m, to)
      PROVE  \E q : Goto(r, q) /\ q.pc \notin {"setactive", "member"}
  <2>1. ASSUME NEW k \in Token, Bearer(r, k)
        PROVE  \E q : Goto(r, q) /\ q.pc \notin {"setactive", "member"}
    BY <2>1 DEF Bearer, Caller
  <2>2. ASSUME NEW y \in SseTicket, FetchTicket(r, y)
        PROVE  \E q : Goto(r, q) /\ q.pc \notin {"setactive", "member"}
    BY <2>2 DEF FetchTicket, Caller
  <2>3. ASSUME NEW pc \in Stages, req[r].pc \in Stages, Goto(r, Moved(r, pc))
        PROVE  \E q : Goto(r, q) /\ q.pc \notin {"setactive", "member"}
    <3>1. Moved(r, pc).pc \in Stages
      BY <1>0, <2>3, MovedType
    <3> QED
      BY <2>3, <3>1 DEF Stages
  <2>4. ASSUME NEW pc \in Stages, req[r].pc \in Stages, NEW p, Goto(r, Known(r, pc, p))
        PROVE  \E q : Goto(r, q) /\ q.pc \notin {"setactive", "member"}
    <3>1. req[r] \in [pc: Stages, via: SseTicket \cup {None}, k: Token, alive: BOOLEAN,
                      p: Principal \cup {Nobody}]
      BY <1>0, <2>4 DEF TypeOK, Req, Idle, Stages
    <3>2. Known(r, pc, p).pc = pc
      BY <3>1 DEF Known
    <3> QED
      BY <2>4, <3>2 DEF Stages
  <2>5. ReadCache(r) \/ CheckAccount(r) \/ FindUser(r) =>
          \E q : Goto(r, q) /\ q.pc \notin {"setactive", "member"}
    BY <2>3, <2>4 DEF ReadCache, CheckAccount, FindUser, Step, At, Stages
  <2>6. Refuse(r) \/ Handle(r) => Goto(r, Idle)
    BY DEF Refuse, Handle, Step
  <2> QED
    BY <1>3, <2>1, <2>2, <2>5, <2>6 DEF Passive, Idle
<1>4. Idle.pc \notin {"setactive", "member"}
  BY DEF Idle
<1>5. OpenStream(r) \/ WriteMembership(r) \/ (\E y \in SseTicket : CreateStreamTicket(r, y))
        => Goto(r, Idle)
  BY DEF OpenStream, WriteMembership, CreateStreamTicket
<1>6. DeleteTicket(r) \/ InsertUser(r) \/ BuildPrincipal(r) =>
        \E q : Goto(r, q) /\ q.pc \notin {"setactive", "member"}
  <2>1. DeleteTicket(r) \/ InsertUser(r) \/ BuildPrincipal(r) => req[r].pc \in Stages
    BY DEF DeleteTicket, InsertUser, BuildPrincipal, At, Stages
  <2>2. req[r].pc \in Stages => /\ Moved(r, "claims").pc = "claims"
                                /\ \A p : Known(r, "account", p).pc = "account"
                                /\ \A p : Known(r, "served", p).pc = "served"
    <3>1. req[r].pc \in Stages =>
            req[r] \in [pc: Stages, via: SseTicket \cup {None}, k: Token, alive: BOOLEAN,
                        p: Principal \cup {Nobody}]
      BY <1>0 DEF TypeOK, Req, Idle, Stages
    <3> QED
      BY <3>1 DEF Moved, Known
  <2>3. DeleteTicket(r) => Goto(r, Moved(r, "claims")) \/ Goto(r, Idle)
    BY DEF DeleteTicket
  <2>4. InsertUser(r) => \E p : Goto(r, Known(r, "account", p))
    BY DEF InsertUser
  <2>5. BuildPrincipal(r) => \E p : Goto(r, Known(r, "served", p))
    BY DEF BuildPrincipal
  <2> QED
    BY <1>4, <2>1, <2>2, <2>3, <2>4, <2>5
<1> QED
  BY <1>1, <1>2, <1>3, <1>4, <1>5, <1>6 DEF Acts

LEMMA AddressedStep ==
  ASSUME TypeInv, Addressed, [Next]_vars
  PROVE  Addressed'
<1>0. TypeOK
  BY DEF TypeInv
<1>1. \A u \in users : \E v \in users' : v.id = u.id
  BY RowsStay
<1>2. UNCHANGED req => Addressed'
  BY <1>1 DEF Addressed
<1>3. ASSUME NEW r \in Request, Acts(r)
      PROVE  Addressed'
  <2>1. ASSUME NEW x \in Request, x # r, req'[x].pc \in {"setactive", "member"}
        PROVE  \E u \in users : u.id = req'[x].id
    <3>1. CASE req'[x] = req[x]
      BY <2>1, <3>1 DEF Addressed
    <3>2. CASE req[x].pc \in Stages /\ req'[x] = [req[x] EXCEPT !.alive = TRUE]
      <4>1. req'[x].pc \in Stages
        BY <1>0, <3>2, AliveType
      <4> QED
        BY <2>1, <4>1 DEF Stages
    <3>3. CASE At(x, "setactive") /\ req'[x] = [req[x] EXCEPT !.clean = FALSE]
      <4>1. req[x] \in [pc: {"setactive"}, id: Ids, was: BOOLEAN, to: BOOLEAN, clean: BOOLEAN]
        BY <1>0, <3>3, PendingType
      <4>2. req'[x].id = req[x].id
        BY <3>3, <4>1
      <4> QED
        BY <3>3, <4>2 DEF Addressed, At
    <3> QED
      BY <1>3, <2>1, <3>1, <3>2, <3>3, Others
  <2>2. ASSUME req'[r].pc \in {"setactive", "member"}
        PROVE  \E u \in users : u.id = req'[r].id
    <3>1. ASSUME NEW o \in Officer, NEW i \in Ids, NEW m \in Membership, NEW to \in {"on", "off"},
                 LoadMembership(r, o, i, m, to)
          PROVE  \E u \in users : u.id = req'[r].id
      BY <1>0, <3>1, Steps DEF LoadMembership
    <3>2. ASSUME NEW o \in Officer, NEW i \in Ids, NEW b \in BOOLEAN, SetActive(r, o, i, b)
          PROVE  \E u \in users : u.id = req'[r].id
      <4>1. PICK u \in users : u.id = i /\ req'[r].id = i
        BY <3>2 DEF SetActive
      <4> QED
        BY <4>1
    <3> QED
      BY <1>3, <2>2, <3>1, <3>2, SelfAfter
  <2> QED
    BY <1>1, <2>1, <2>2 DEF Addressed
<1> QED
  BY <1>2, <1>3, Cases DEF Tick, Issue, vars

LEMMA TypeStep ==
  ASSUME TypeInv, Addressed, [Next]_vars
  PROVE  TypeInv' /\ Addressed'
<1>1. ASSUME UNCHANGED vars
      PROVE  TypeInv'
  BY <1>1 DEF vars, TypeInv, TypeOK, Issued
<1>2. ASSUME NEW r \in Request, Acts(r)
      PROVE  TypeInv'
  BY <1>2, PassiveType, DeleteTicketType, InsertUserType, BuildPrincipalType, OpenStreamType,
     CreateStreamTicketType, SetActiveType, CommitActiveType, WriteMembershipType DEF Acts
<1> QED
  BY <1>1, <1>2, Cases, TickType, IssueType, AddressedStep

LEMMA TypeInit == Init => TypeInv /\ Addressed
BY InitType, IdleType DEF Init, TypeInv, Issued, Addressed, Idle, Faces

\* TypeOK: every memory, row, token and cache entry has its type.
THEOREM TypeCorrect == Spec => []TypeOK
<1>1. TypeInv /\ Addressed /\ [Next]_vars => (TypeInv /\ Addressed)'
  BY TypeStep
<1>2. TypeInv => TypeOK
  BY DEF TypeInv
<1> QED
  BY TypeInit, <1>1, <1>2, PTL DEF Spec
-----------------------------------------------------------------------------
(* One row per subject, and every principal names it                       *)

\* What a passive step leaves, part by part.
LEMMA Parts ==
  ASSUME TypeInv, NEW r \in Request, NEW q, Passes(r, q), q.pc \in Stages
  PROVE  \/ /\ q.pc \in {"ticket", "claims"} /\ q.alive = ~Disabled(token[q.k].sub)
            /\ q.k \in Token /\ (q.pc = "ticket" \/ q.via = None)
         \/ /\ req[r].pc \in {"claims", "cached", "miss"}
            /\ q.via = req[r].via /\ q.k = req[r].k /\ q.alive = req[r].alive
            /\ \/ q.pc \in {"miss", "insert"}
               \/ q.pc = "cached" /\ \E e \in Hits(q.k) : q.p = e.p
               \/ /\ q.pc = "served" /\ req[r].pc = "cached"
                  /\ MayLogIn(req[r].p.id) /\ q.p = req[r].p
               \/ /\ q.pc = "account"
                  /\ \E u \in RowsFor(Sub(r)) : u.active /\ q.p = [id |-> u.id, groups |-> {}]
<1> DEFINE Fresh == /\ q.pc \in {"ticket", "claims"} /\ q.alive = ~Disabled(token[q.k].sub)
                    /\ q.k \in Token /\ (q.pc = "ticket" \/ q.via = None)
           Kept == req[r].pc \in {"claims", "cached", "miss"}
                   /\ q.via = req[r].via /\ q.k = req[r].k /\ q.alive = req[r].alive
           Next1 == \/ q.pc \in {"miss", "insert"}
                    \/ q.pc = "cached" /\ \E e \in Hits(q.k) : q.p = e.p
                    \/ /\ q.pc = "served" /\ req[r].pc = "cached"
                       /\ MayLogIn(req[r].p.id) /\ q.p = req[r].p
                    \/ /\ q.pc = "account"
                       /\ \E u \in RowsFor(Sub(r)) : u.active /\ q.p = [id |-> u.id, groups |-> {}]
<1>0. TypeOK
  BY DEF TypeInv
<1>1. ASSUME NEW k \in Token, q = Caller("claims", None, k)
      PROVE  Fresh
  BY <1>1 DEF Caller
<1>2. ASSUME NEW x \in SseTicket, sse[x].state = "live", q = Caller("ticket", x, sse[x].k)
      PROVE  Fresh
  <2>1. sse[x].k \in Token
    BY <1>0, <1>2, LiveTicket
  <2>2. /\ q.pc = "ticket" /\ q.k = sse[x].k
        /\ q.alive = ~Disabled(token[sse[x].k].sub)
    BY <1>2 DEF Caller
  <2> QED
    BY <2>1, <2>2
<1>3. ASSUME req[r].pc \in {"claims", "cached", "miss"}, NEW pc \in Stages, NEW p,
             q = Moved(r, pc) \/ q = Known(r, pc, p)
      PROVE  /\ Kept /\ q.pc = pc
             /\ q = Moved(r, pc) => q.p = req[r].p
             /\ q = Known(r, pc, p) => q.p = p
  <2>1. req[r].pc \in Stages
    BY <1>3 DEF Stages
  <2>2. req[r] \in [pc: Stages, via: SseTicket \cup {None}, k: Token, alive: BOOLEAN,
                    p: Principal \cup {Nobody}]
    BY <1>0, <2>1 DEF TypeOK, Req, Idle, Stages
  <2>3. q = Moved(r, pc) => /\ q.pc = pc /\ q.p = req[r].p
                            /\ q.via = req[r].via /\ q.k = req[r].k /\ q.alive = req[r].alive
    BY <2>2 DEF Moved
  <2>4. q = Known(r, pc, p) => /\ q.pc = pc /\ q.p = p
                               /\ q.via = req[r].via /\ q.k = req[r].k /\ q.alive = req[r].alive
    BY <2>2 DEF Known
  <2> QED
    BY <1>3, <2>3, <2>4
<1>s. {"claims", "miss", "insert", "cached", "account", "served"} \subseteq Stages
  BY DEF Stages
<1>4. ASSUME At(r, "claims"), q = Moved(r, "miss") \/ \E e \in Hits(req[r].k) : q = Known(r, "cached", e.p)
      PROVE  Kept /\ Next1
  <2>1. CASE q = Moved(r, "miss")
    BY <1>s, <1>3, <1>4, <2>1 DEF At
  <2>2. ASSUME NEW e \in Hits(req[r].k), q = Known(r, "cached", e.p)
        PROVE  Kept /\ Next1
    <3>1. Kept /\ q.pc = "cached" /\ q.p = e.p
      BY <1>s, <1>3, <1>4, <2>2 DEF At
    <3> QED
      BY <3>1
  <2> QED
    BY <1>4, <2>1, <2>2
<1>5. ASSUME At(r, "cached"), (MayLogIn(req[r].p.id) /\ q = Moved(r, "served")) \/ q = Known(r, "miss", Nobody)
      PROVE  Kept /\ Next1
  <2>1. CASE MayLogIn(req[r].p.id) /\ q = Moved(r, "served")
    <3>1. Kept /\ q.pc = "served" /\ q.p = req[r].p
      BY <1>s, <1>3, <1>5, <2>1 DEF At
    <3> QED
      BY <1>5, <2>1, <3>1 DEF At
  <2>2. CASE q = Known(r, "miss", Nobody)
    BY <1>s, <1>3, <1>5, <2>2 DEF At
  <2> QED
    BY <1>5, <2>1, <2>2
<1>6. ASSUME At(r, "miss"), q = Moved(r, "insert")
      PROVE  Kept /\ Next1
  BY <1>s, <1>3, <1>6 DEF At
<1>7. ASSUME At(r, "miss"), NEW u \in RowsFor(Sub(r)), u.active,
             q = Known(r, "account", [id |-> u.id, groups |-> {}])
      PROVE  Kept /\ Next1
  <2>1. Kept /\ q.pc = "account" /\ q.p = [id |-> u.id, groups |-> {}]
    BY <1>s, <1>3, <1>7 DEF At
  <2> QED
    BY <1>7, <2>1
<1> QED
  <2>1. Fresh \/ (Kept /\ Next1)
    <3> HIDE DEF Fresh, Kept, Next1
    <3> QED
      BY <1>1, <1>2, <1>4, <1>5, <1>6, <1>7 DEF Passes
  <2> QED
    BY <2>1

\* The ways a request comes to where it is after a step: it was there, or moved.
Stays(x) ==
  /\ req[x].pc \in Stages /\ req'[x].pc = req[x].pc /\ req'[x].via = req[x].via
  /\ req'[x].k = req[x].k /\ req'[x].p = req[x].p
  /\ req'[x].alive = req[x].alive \/ req'[x].alive

Advances(x, pc) ==
  /\ req[x].pc \in Stages /\ req'[x].pc = pc /\ req'[x].via = req[x].via
  /\ req'[x].k = req[x].k /\ req'[x].alive = req[x].alive

LEMMA After ==
  ASSUME TypeInv, [Next]_vars, NEW x \in Request, req'[x].pc \in Stages
  PROVE  \/ Stays(x)
         \/ Passes(x, req'[x]) /\ NoWrite
         \/ DeleteTicket(x) /\ Advances(x, "claims")
         \/ InsertUser(x) /\ Advances(x, "account") /\ req'[x].p = [id |-> FreshId, groups |-> {}]
         \/ /\ BuildPrincipal(x) /\ Advances(x, "served")
            /\ \E groups \in Granted(req[x].k) : req'[x].p = [id |-> req[x].p.id, groups |-> groups]
<1>0. TypeOK
  BY DEF TypeInv
<1>1. ASSUME req'[x] = req[x]
      PROVE  Stays(x)
  BY <1>1 DEF Stays
<1>2. ASSUME NEW r \in Request, Acts(r), x # r
      PROVE  Stays(x)
  <2>1. CASE req'[x] = req[x]
    BY <1>1, <2>1
  <2>2. CASE req[x].pc \in Stages /\ req'[x] = [req[x] EXCEPT !.alive = TRUE]
    BY <1>0, <2>2, AliveType DEF Stays
  <2>3. CASE At(x, "setactive") /\ req'[x] = [req[x] EXCEPT !.clean = FALSE]
    <3>1. req[x] \in [pc: {"setactive"}, id: Ids, was: BOOLEAN, to: BOOLEAN, clean: BOOLEAN]
      BY <1>0, <2>3, PendingType
    <3>2. req'[x].pc = "setactive"
      BY <2>3, <3>1
    <3> QED
      BY <3>2 DEF Stages
  <2> QED
    BY <1>2, <2>1, <2>2, <2>3, Others
<1>3. CASE Passive(x)
  <2>1. PICK q \in Req : Goto(x, q) /\ Passes(x, q)
    BY <1>0, <1>3, PassiveSteps
  <2>2. req'[x] = q
    BY <1>0, <2>1, Steps
  <2> QED
    BY <1>0, <1>3, <2>1, <2>2, PassiveSteps
<1>4. ASSUME req[x].pc \in Stages, NEW pc \in Stages, Goto(x, Moved(x, pc))
      PROVE  Advances(x, pc)
  <2>1. req'[x] = Moved(x, pc)
    BY <1>0, <1>4, Steps
  <2> QED
    BY <1>0, <1>4, <2>1, MovedType DEF Advances
<1>5. ASSUME req[x].pc \in Stages, NEW pc \in Stages, NEW p \in Principal, Goto(x, Known(x, pc, p))
      PROVE  Advances(x, pc) /\ req'[x].p = p
  <2>1. req'[x] = Known(x, pc, p)
    BY <1>0, <1>5, Steps
  <2> QED
    BY <1>0, <1>5, <2>1, KnownType DEF Advances
<1>s. {"ticket", "claims", "miss", "insert", "cached", "account", "served"} = Stages
  BY DEF Stages
<1>6. ASSUME Goto(x, Idle)
      PROVE  FALSE
  BY <1>0, <1>6, Steps, IdleType
<1>7. CASE DeleteTicket(x)
  <2>1. Goto(x, Moved(x, "claims"))
    BY <1>6, <1>7 DEF DeleteTicket
  <2> QED
    BY <1>s, <1>4, <1>7, <2>1 DEF DeleteTicket, At
<1>8. CASE InsertUser(x)
  <2>1. [id |-> FreshId, groups |-> {}] \in Principal
    BY <1>8, FreshIdType DEF Principal
  <2>2. Goto(x, Known(x, "account", [id |-> FreshId, groups |-> {}])) /\ req[x].pc \in Stages
    BY <1>s, <1>8 DEF InsertUser, At
  <2>3. Advances(x, "account") /\ req'[x].p = [id |-> FreshId, groups |-> {}]
    BY <1>s, <1>5, <2>1, <2>2
  <2> QED
    BY <1>8, <2>3
<1>9. CASE BuildPrincipal(x)
  <2>1. PICK groups \in Granted(req[x].k) : Goto(x, Known(x, "served", [id |-> req[x].p.id, groups |-> groups]))
    BY <1>9 DEF BuildPrincipal
  <2>2. req[x].pc \in Stages /\ req[x].pc \in Faces
    BY <1>s, <1>9 DEF BuildPrincipal, At, Faces
  <2>3. groups \in SUBSET Membership
    <3>1. req[x].k \in Token /\ token[req[x].k] # NoToken
      BY <2>2, IssuedNow
    <3>2. token[req[x].k] \in TokenOf
      BY <1>0, <3>1 DEF TypeOK
    <3> QED
      BY <1>0, <2>1, <3>2 DEF Granted, TokenOf, TypeOK
  <2>4. [id |-> req[x].p.id, groups |-> groups] \in Principal
    BY <2>2, <2>3, IssuedNow DEF Principal
  <2>5. Advances(x, "served") /\ req'[x].p = [id |-> req[x].p.id, groups |-> groups]
    BY <1>s, <1>5, <2>1, <2>2, <2>4
  <2> QED
    BY <1>9, <2>1, <2>5
<1>10. OpenStream(x) \/ WriteMembership(x) \/ (\E y \in SseTicket : CreateStreamTicket(x, y)) => Goto(x, Idle)
  BY DEF OpenStream, WriteMembership, CreateStreamTicket
<1>11. CommitActive(x) => FALSE
  <2> HAVE CommitActive(x)
  <2>1. req'[x] = Idle
    BY <1>0, CommitShape
  <2> QED
    BY <2>1, IdleType
<1>12. ASSUME NEW o \in Officer, NEW i \in Ids, NEW b \in BOOLEAN, SetActive(x, o, i, b)
       PROVE  FALSE
  <2>1. req'[x].pc = "setactive"
    BY <1>12 DEF SetActive
  <2> QED
    BY <2>1 DEF Stages
<1>13. CASE Acts(x)
  BY <1>3, <1>6, <1>7, <1>8, <1>9, <1>10, <1>11, <1>12, <1>13 DEF Acts
<1>14. CASE UNCHANGED req
  BY <1>1, <1>14
<1> QED
  BY <1>2, <1>13, <1>14, Cases DEF Tick, Issue, vars

OneRow == \A a, b \in users : a.sub = b.sub \/ a.id = b.id => a = b

Named ==
  /\ \A r \in Request : req[r].pc \in Faces => \E u \in users : u.id = req[r].p.id /\ u.sub = Sub(r)
  /\ \A e \in cache : \E u \in users : u.id = e.p.id /\ u.sub = e.key.sub

Rows == OneRow /\ Named

LEMMA OneRowStep ==
  ASSUME TypeInv, OneRow, [Next]_vars
  PROVE  OneRow'
<1>1. CASE UNCHANGED users
  BY <1>1 DEF OneRow
<1>2. ASSUME NEW r \in Request, InsertUser(r)
      PROVE  OneRow'
  <2> DEFINE new == [id |-> FreshId, sub |-> Sub(r), active |-> TRUE]
  <2>1. /\ users' = users \cup {new}
        /\ \A u \in users : u.id # FreshId /\ u.sub # Sub(r)
    BY <1>2, FreshIdType DEF InsertUser, NewSubject, RowsFor
  <2>2. new.id = FreshId /\ new.sub = Sub(r)
    OBVIOUS
  <2> HIDE DEF new
  <2> QED
    BY <2>1, <2>2 DEF OneRow
<1>3. ASSUME NEW r \in Request, CommitActive(r), users' # users
      PROVE  OneRow'
  <2> DEFINE f(u) == IF u.id = req[r].id THEN [u EXCEPT !.active = req[r].to] ELSE u
  <2>1. users' = {f(u) : u \in users}
    BY <1>3 DEF CommitActive
  <2>2. \A u \in users : f(u).id = u.id /\ f(u).sub = u.sub
    <3> TAKE u \in users
    <3>1. u \in [id: Ids, sub: Subject, active: BOOLEAN]
      BY DEF TypeInv, TypeOK
    <3> QED
      BY <3>1
  <2> HIDE DEF f
  <2>3. SUFFICES ASSUME NEW a \in users', NEW b \in users', a.sub = b.sub \/ a.id = b.id
                 PROVE  a = b
    BY DEF OneRow
  <2>4. PICK u \in users, v \in users : a = f(u) /\ b = f(v)
    BY <2>1
  <2>5. u = v
    BY <2>2, <2>3, <2>4 DEF OneRow
  <2> QED
    BY <2>4, <2>5
<1> QED
  BY <1>1, <1>2, <1>3, Writers

LEMMA NamedStep ==
  ASSUME TypeInv, Named, [Next]_vars
  PROVE  Named'
<1>0. TypeOK /\ Faces \subseteq Stages
  BY DEF TypeInv, Faces, Stages
<1>1. \A x \in Request : req[x].pc \in Stages => req[x].k \in Token /\ token'[req[x].k] = token[req[x].k]
  BY <1>0, IssuedNow, TokenStays
<1>2. ASSUME NEW x \in Request, req'[x].pc \in Faces
      PROVE  \E u \in users' : u.id = req'[x].p.id /\ u.sub = Sub(x)'
  <2> SUFFICES \E u \in users \cup users' : u.id = req'[x].p.id /\ u.sub = token'[req'[x].k].sub
    BY RowsStay DEF Sub
  <2>1. req'[x].pc \in Stages
    BY <1>0, <1>2
  <2>2. CASE Stays(x)
    BY <1>0, <1>1, <1>2, <2>2 DEF Stays, Named, Sub
  <2>3. CASE Passes(x, req'[x]) /\ NoWrite
    <3>1. UNCHANGED token
      BY <2>3 DEF NoWrite
    <3>2. /\ req[x].pc \in {"claims", "cached", "miss"} /\ req'[x].k = req[x].k
          /\ \/ \E e \in Hits(req'[x].k) : req'[x].p = e.p
             \/ req[x].pc = "cached" /\ req'[x].p = req[x].p
             \/ \E u \in RowsFor(Sub(x)) : u.active /\ req'[x].p = [id |-> u.id, groups |-> {}]
      <4> DEFINE q == req'[x]
      <4>1. Passes(x, q) /\ q.pc \in Stages /\ q.pc \in Faces
        BY <1>2, <2>1, <2>3
      <4> HIDE DEF q
      <4>2. /\ req[x].pc \in {"claims", "cached", "miss"} /\ q.k = req[x].k
            /\ \/ \E e \in Hits(q.k) : q.p = e.p
               \/ req[x].pc = "cached" /\ q.p = req[x].p
               \/ \E u \in RowsFor(Sub(x)) : u.active /\ q.p = [id |-> u.id, groups |-> {}]
        <5>1. q.pc \notin {"ticket", "claims", "miss", "insert"}
          BY <4>1 DEF Faces
        <5>2. /\ req[x].pc \in {"claims", "cached", "miss"}
              /\ q.via = req[x].via /\ q.k = req[x].k /\ q.alive = req[x].alive
              /\ \/ q.pc \in {"miss", "insert"}
                 \/ q.pc = "cached" /\ \E e \in Hits(q.k) : q.p = e.p
                 \/ /\ q.pc = "served" /\ req[x].pc = "cached"
                    /\ MayLogIn(req[x].p.id) /\ q.p = req[x].p
                 \/ /\ q.pc = "account"
                    /\ \E u \in RowsFor(Sub(x)) : u.active /\ q.p = [id |-> u.id, groups |-> {}]
          BY <4>1, <5>1, Parts, Zenon
        <5> QED
          BY <5>1, <5>2
      <4> QED
        BY <4>2 DEF q
    <3>3. CASE \E e \in Hits(req'[x].k) : req'[x].p = e.p
      <4>1. PICK e \in cache : e.key = CacheKey(req'[x].k) /\ req'[x].p = e.p
        BY <3>3 DEF Hits
      <4>2. e.key.sub = token[req'[x].k].sub
        BY <4>1 DEF CacheKey
      <4> QED
        BY <3>1, <4>1, <4>2 DEF Named
    <3>4. CASE req[x].pc = "cached" /\ req'[x].p = req[x].p
      BY <3>1, <3>2, <3>4 DEF Named, Faces, Sub
    <3>5. ASSUME NEW u \in RowsFor(Sub(x)), req'[x].p = [id |-> u.id, groups |-> {}]
          PROVE  \E v \in users : v.id = req'[x].p.id /\ v.sub = token'[req'[x].k].sub
      BY <3>1, <3>2, <3>5 DEF RowsFor, Sub
    <3> QED
      BY <3>2, <3>3, <3>4, <3>5
  <2>4. CASE InsertUser(x) /\ Advances(x, "account") /\ req'[x].p = [id |-> FreshId, groups |-> {}]
    <3>1. [id |-> FreshId, sub |-> Sub(x), active |-> TRUE] \in users'
      BY <2>4 DEF InsertUser
    <3> QED
      BY <1>1, <2>4, <3>1 DEF Advances, Sub
  <2>5. ASSUME BuildPrincipal(x), Advances(x, "served"), NEW groups,
               req'[x].p = [id |-> req[x].p.id, groups |-> groups]
        PROVE  \E u \in users : u.id = req'[x].p.id /\ u.sub = token'[req'[x].k].sub
    <3>1. req[x].pc \in Faces
      BY <2>5 DEF BuildPrincipal, At, Faces
    <3> QED
      BY <1>0, <1>1, <2>5, <3>1 DEF Advances, Named, Sub
  <2>6. ~Advances(x, "claims")
    BY <1>2 DEF Advances, Faces
  <2> QED
    BY <2>1, <2>2, <2>3, <2>4, <2>5, <2>6, After
<1>3. \A e \in cache' : \E u \in users' : u.id = e.p.id /\ u.sub = e.key.sub
  <2>1. ASSUME NEW e \in cache
        PROVE  \E u \in users' : u.id = e.p.id /\ u.sub = e.key.sub
    BY RowsStay DEF Named
  <2>2. ASSUME NEW r \in Request, BuildPrincipal(r), NEW e \in cache', e \notin cache
        PROVE  \E u \in users' : u.id = e.p.id /\ u.sub = e.key.sub
    <3>1. PICK groups : e = [key |-> CacheKey(req[r].k), p |-> [id |-> req[r].p.id, groups |-> groups],
                             until |-> token[req[r].k].exp]
      BY <2>2 DEF BuildPrincipal, Stored
    <3>2. e.p.id = req[r].p.id /\ e.key.sub = Sub(r) /\ req[r].pc \in Faces
      BY <2>2, <3>1 DEF CacheKey, Sub, BuildPrincipal, At, Faces
    <3> QED
      BY <3>2, RowsStay DEF Named
  <2> QED
    BY <2>1, <2>2, Writers
<1> QED
  BY <1>2, <1>3 DEF Named

\* OneIdentity: a subject has one row, and whoever is served names the row of
\* the token's subject, also when two first requests race.
THEOREM IdentityTheorem == Spec => []OneIdentity
<1>1. Init => Rows
  BY IdleType DEF Init, Rows, OneRow, Named, Idle, Faces
<1>2. TypeInv /\ Rows /\ [Next]_vars => Rows'
  BY OneRowStep, NamedStep DEF Rows
<1>3. Rows => OneIdentity
  BY DEF Rows, OneRow, Named, OneIdentity, At, Faces, RowsFor
<1>4. TypeInv /\ Addressed /\ [Next]_vars => (TypeInv /\ Addressed)'
  BY TypeStep
<1> QED
  BY TypeInit, <1>1, <1>2, <1>3, <1>4, PTL DEF Spec
-----------------------------------------------------------------------------
(* Who is served was enabled at some moment of the request                 *)

Awake ==
  /\ \A r \in Request : req[r].pc \in Stages => req[r].alive \/ Disabled(Sub(r))
  /\ \A r \in Request : req[r].pc \in {"account", "served"} => req[r].alive

\* Only an administrator's commit enables an account, and every request of that
\* account takes notice.
LEMMA Awakened ==
  ASSUME TypeInv, [Next]_vars, NEW x \in Request, Stays(x), Disabled(Sub(x)), ~Disabled(Sub(x))'
  PROVE  req'[x].alive
<1>0. TypeOK
  BY DEF TypeInv
<1>1. Sub(x)' = Sub(x)
  BY <1>0, IssuedNow, TokenStays DEF Stays, Sub
<1>2. PICK u \in users : u.sub = Sub(x) /\ ~u.active
  BY DEF Disabled, RowsFor
<1>3. \A v \in users' : v.sub = Sub(x) => v.active
  BY <1>1 DEF Disabled, RowsFor
<1>4. PICK r \in Request : InsertUser(r) \/ CommitActive(r)
  BY <1>2, <1>3, Writers
<1>5. ~InsertUser(r)
  BY <1>2, <1>3 DEF InsertUser
<1>6. CommitActive(r)
  BY <1>4, <1>5
<1> DEFINE v == [u EXCEPT !.active = req[r].to]
<1>7. users' # users
  BY <1>2, <1>3
<1>8. (IF u.id = req[r].id THEN v ELSE u) \in users'
  BY <1>6, <1>7 DEF CommitActive
<1>9. u.id = req[r].id /\ v \in users'
  BY <1>2, <1>3, <1>8
<1>10. u \in [id: Ids, sub: Subject, active: BOOLEAN] /\ req[r].to \in BOOLEAN
  BY <1>0, <1>6, Shape DEF TypeOK, CommitActive, At
<1>11. v.id = u.id /\ v.sub = u.sub /\ v.active = req[r].to /\ v \in [id: Ids, sub: Subject, active: BOOLEAN]
  BY <1>10
<1> HIDE DEF v
<1>12. v.active = TRUE
  BY <1>2, <1>3, <1>9, <1>10, <1>11
<1>13. v = [id |-> req[r].id, sub |-> Sub(x), active |-> TRUE]
  BY <1>2, <1>9, <1>11, <1>12
<1>14. x # r
  BY <1>0, <1>6, CommitShape, IdleType DEF Stays
<1>15. req'[x] = [req[x] EXCEPT !.alive = TRUE]
  BY <1>6, <1>9, <1>13, <1>14 DEF CommitActive, Stays
<1> QED
  BY <1>0, <1>15, AliveType DEF Stays

LEMMA AwakeStep ==
  ASSUME TypeInv, Rows, Awake, [Next]_vars
  PROVE  Awake'
<1>0. TypeOK
  BY DEF TypeInv
<1>1. \A x \in Request : req[x].pc \in Stages => req[x].k \in Token /\ token'[req[x].k] = token[req[x].k]
  BY <1>0, IssuedNow, TokenStays
<1>2. \A s, u : u \in RowsFor(s) /\ u.active => ~Disabled(s)
  BY DEF Rows, OneRow, RowsFor, Disabled
<1> SUFFICES ASSUME NEW x \in Request, req'[x].pc \in Stages
             PROVE  /\ req'[x].alive \/ Disabled(Sub(x))'
                    /\ req'[x].pc \in {"account", "served"} => req'[x].alive
  BY DEF Awake, Stages
<1>3. CASE Stays(x)
  <2>1. Sub(x)' = Sub(x) /\ (req[x].alive \/ Disabled(Sub(x)))
    BY <1>1, <1>3 DEF Stays, Sub, Awake
  <2>2. CASE req[x].alive
    BY <1>3, <2>2 DEF Stays
  <2>3. CASE ~req[x].alive
    <3>1. req[x].pc \notin {"account", "served"} /\ req'[x].pc = req[x].pc
      BY <1>3, <2>3 DEF Awake, Stays
    <3> QED
      BY <1>3, <2>1, <2>3, <3>1, Awakened
  <2> QED
    BY <2>2, <2>3
<1>4. CASE Passes(x, req'[x]) /\ NoWrite
  <2> DEFINE q == req'[x]
  <2>1. Passes(x, q) /\ q.pc \in Stages
    BY <1>4
  <2>2. UNCHANGED <<token, users>>
    BY <1>4 DEF NoWrite
  <2>3. Disabled(Sub(x))' <=> Disabled(token[q.k].sub)
    BY <2>2 DEF Disabled, RowsFor, Sub
  <2> HIDE DEF q
  <2>4. /\ q.alive \/ Disabled(token[q.k].sub)
        /\ q.pc \in {"account", "served"} => q.alive
    <3>1. CASE q.pc \in {"ticket", "claims"} /\ q.alive = ~Disabled(token[q.k].sub)
      BY <3>1
    <3>2. ASSUME req[x].pc \in {"claims", "cached", "miss"}, q.k = req[x].k, q.alive = req[x].alive
          PROVE  q.alive \/ Disabled(token[q.k].sub)
      BY <3>2 DEF Awake, Sub, Stages
    <3>3. ASSUME req[x].pc = "cached", MayLogIn(req[x].p.id), q.alive = req[x].alive
          PROVE  q.alive
      <4>1. PICK u \in users : u.id = req[x].p.id /\ u.sub = Sub(x)
        BY <3>3 DEF Rows, Named, Faces
      <4>2. ~Disabled(Sub(x))
        BY <1>2, <3>3, <4>1 DEF MayLogIn, RowsFor
      <4> QED
        BY <3>3, <4>2 DEF Awake, Stages
    <3>4. ASSUME req[x].pc \in {"claims", "cached", "miss"}, q.alive = req[x].alive,
                 \E u \in RowsFor(Sub(x)) : u.active
          PROVE  q.alive
      <4>1. ~Disabled(Sub(x))
        BY <1>2, <3>4
      <4> QED
        BY <3>4, <4>1 DEF Awake, Stages
    <3>5. \/ q.pc \in {"ticket", "claims"} /\ q.alive = ~Disabled(token[q.k].sub)
          \/ /\ req[x].pc \in {"claims", "cached", "miss"} /\ q.k = req[x].k /\ q.alive = req[x].alive
             /\ q.pc \in {"account", "served"} =>
                  \/ req[x].pc = "cached" /\ MayLogIn(req[x].p.id)
                  \/ \E u \in RowsFor(Sub(x)) : u.active
      BY <2>1, Parts, Zenon
    <3> QED
      BY <3>1, <3>2, <3>3, <3>4, <3>5
  <2> QED
    BY <2>3, <2>4 DEF q
<1>5. CASE DeleteTicket(x) /\ Advances(x, "claims")
  <2>1. UNCHANGED <<token, users>>
    BY <1>5 DEF DeleteTicket
  <2> QED
    BY <1>5, <2>1 DEF Advances, Awake, Sub, Disabled, RowsFor
<1>6. CASE InsertUser(x) /\ Advances(x, "account")
  <2>1. ~Disabled(Sub(x))
    BY <1>6 DEF InsertUser, NewSubject, Disabled
  <2> QED
    BY <1>6, <2>1 DEF Advances, Awake
<1>7. CASE BuildPrincipal(x) /\ Advances(x, "served")
  BY <1>7 DEF BuildPrincipal, At, Advances, Awake
<1> QED
  BY <1>3, <1>4, <1>5, <1>6, <1>7, After

\* DisabledIsRefused: whoever is served was not disabled at some moment since the
\* request came in, whichever cache answered.
THEOREM RefusedTheorem == Spec => []DisabledIsRefused
<1>1. Init => Rows /\ Awake
  BY IdleType DEF Init, Rows, OneRow, Named, Awake, Idle, Faces, Stages
<1>2. TypeInv /\ Rows /\ Awake /\ [Next]_vars => (Rows /\ Awake)'
  BY OneRowStep, NamedStep, AwakeStep DEF Rows
<1>3. Awake => DisabledIsRefused
  BY DEF Awake, DisabledIsRefused, At
<1>4. TypeInv /\ Addressed /\ [Next]_vars => (TypeInv /\ Addressed)'
  BY TypeStep
<1> QED
  BY TypeInit, <1>1, <1>2, <1>3, <1>4, PTL DEF Spec
-----------------------------------------------------------------------------
(* SSE tickets                                                             *)

Spent ==
  /\ \A r \in Request : req[r].pc \in Stages \ {"ticket"} /\ req[r].via # None
                        => sse[req[r].via].state = "gone"
  /\ TicketsAreSpent

LEMMA GoneStays ==
  ASSUME TypeInv, [Next]_vars, NEW x \in SseTicket, sse[x].state = "gone"
  PROVE  sse'[x].state = "gone"
<1>0. sse \in [SseTicket -> SseOf]
  BY DEF TypeInv, TypeOK
<1>1. ASSUME NEW r \in Request, NEW y \in SseTicket, CreateStreamTicket(r, y)
      PROVE  sse'[x].state = "gone"
  <2>1. x # y
    BY <1>1 DEF CreateStreamTicket
  <2> QED
    BY <1>0, <1>1, <2>1 DEF CreateStreamTicket
<1>2. ASSUME NEW r \in Request, DeleteTicket(r)
      PROVE  sse'[x].state = "gone"
  BY <1>0, <1>2 DEF DeleteTicket, TicketDropped
<1> QED
  BY <1>1, <1>2, Writers

LEMMA SpentStep ==
  ASSUME TypeInv, Spent, [Next]_vars
  PROVE  Spent'
<1>0. TypeOK
  BY DEF TypeInv
<1>1. ASSUME NEW x \in Request, req'[x].pc \in Stages \ {"ticket"}, req'[x].via # None
      PROVE  sse'[req'[x].via].state = "gone"
  <2>0. req[x].pc \in Stages => req[x].via \in SseTicket \cup {None}
    BY <1>0, Shape
  <2>1. ASSUME req[x].pc \in Stages \ {"ticket"}, req'[x].via = req[x].via
        PROVE  sse'[req'[x].via].state = "gone"
    BY <1>1, <2>0, <2>1, GoneStays DEF Spent
  <2>2. CASE Stays(x)
    BY <1>1, <2>1, <2>2 DEF Stays
  <2>3. CASE Passes(x, req'[x]) /\ NoWrite
    <3> DEFINE q == req'[x]
    <3>1. Passes(x, q) /\ q.pc \in Stages /\ q.pc # "ticket" /\ q.via # None
      BY <1>1, <2>3
    <3> HIDE DEF q
    <3>2. req[x].pc \in {"claims", "cached", "miss"} /\ q.via = req[x].via
      BY <3>1, Parts, Zenon
    <3>3. req[x].pc \in Stages \ {"ticket"}
      BY <3>2 DEF Stages
    <3> QED
      BY <2>1, <3>2, <3>3 DEF q
  <2>4. CASE DeleteTicket(x) /\ Advances(x, "claims")
    <3>1. req'[x].via \in SseTicket /\ req'[x].via = req[x].via
      BY <1>1, <2>0, <2>4 DEF Advances
    <3>2. sse' = [sse EXCEPT ![req[x].via] = [state |-> "gone"]] /\ sse \in [SseTicket -> SseOf]
      BY <1>0, <2>4 DEF DeleteTicket, TicketDropped, TypeOK
    <3> QED
      BY <3>1, <3>2
  <2>5. CASE InsertUser(x) /\ Advances(x, "account")
    BY <2>1, <2>5 DEF InsertUser, At, Advances
  <2>6. CASE BuildPrincipal(x) /\ Advances(x, "served")
    BY <2>1, <2>6 DEF BuildPrincipal, At, Advances
  <2> QED
    BY <1>1, <2>2, <2>3, <2>4, <2>5, <2>6, After
<1>2. TicketsAreSpent'
  <2>1. ASSUME NEW x \in streams
        PROVE  sse'[x].state = "gone"
    <3>1. x \in SseTicket /\ sse[x].state = "gone"
      BY <1>0 DEF TypeOK, Spent, TicketsAreSpent
    <3> QED
      BY <3>1, GoneStays
  <2>2. ASSUME NEW r \in Request, OpenStream(r)
        PROVE  TicketsAreSpent'
    <3>1. req[r].pc \in Stages \ {"ticket"} /\ req[r].via \in SseTicket /\ req[r].via # None
      BY <1>0, <2>2, Shape DEF OpenStream, At, Stages
    <3>2. sse'[req[r].via].state = "gone"
      BY <3>1, GoneStays DEF Spent
    <3> QED
      BY <2>1, <2>2, <3>2 DEF OpenStream, TicketsAreSpent
  <2> QED
    BY <2>1, <2>2, Writers DEF TicketsAreSpent
<1> QED
  BY <1>1, <1>2 DEF Spent

\* TicketsAreSpent: once a stream has been opened with an SSE ticket, the ticket is
\* gone from Redis.
THEOREM SpentTheorem == Spec => []TicketsAreSpent
<1>1. Init => Spent
  BY IdleType DEF Init, Spent, TicketsAreSpent
<1>2. TypeInv /\ Spent /\ [Next]_vars => Spent'
  BY SpentStep
<1>3. Spent => TicketsAreSpent
  BY DEF Spent
<1>4. TypeInv /\ Addressed /\ [Next]_vars => (TypeInv /\ Addressed)'
  BY TypeStep
<1> QED
  BY TypeInit, <1>1, <1>2, <1>3, <1>4, PTL DEF Spec
-----------------------------------------------------------------------------
(* A group lost before a token was issued is not granted with it           *)

\* At or after t, subject s had the group of m.
Had(s, m, t) == m \in kc[s].groups \/ lost[s][m] >= t
HadNext(s, m, t) == m \in kc'[s].groups \/ lost'[s][m] >= t

Effective ==
  /\ \A k \in Token : token[k] # NoToken => /\ token[k].issued <= now
                                            /\ \A m \in token[k].claims : Had(token[k].sub, m, token[k].issued)
  /\ \A e \in cache : \A m \in e.p.groups : Had(e.key.sub, m, token[e.key.id].issued)
  /\ \A r \in Request : req[r].pc \in Faces =>
       \A m \in req[r].p.groups : Had(Sub(r), m, token[req[r].k].issued)

LEMMA HadStays ==
  ASSUME TypeInv, Addressed, [Next]_vars,
         NEW s \in Subject, NEW m \in Membership, NEW t \in Nat, t <= now, Had(s, m, t)
  PROVE  HadNext(s, m, t)
<1>0. TypeOK
  BY DEF TypeInv
<1>1. CASE UNCHANGED <<kc, lost>>
  BY <1>1 DEF Had, HadNext
<1>2. ASSUME NEW r \in Request, NEW o \in Officer, NEW i \in Ids, NEW b \in BOOLEAN, SetActive(r, o, i, b)
      PROVE  HadNext(s, m, t)
  <2>1. PICK u \in users : kc' = [kc EXCEPT ![u.sub].enabled = b]
    BY <1>2 DEF SetActive, KeycloakSet
  <2>2. UNCHANGED lost /\ u.sub \in Subject
    BY <1>0, <1>2 DEF SetActive, TypeOK
  <2>3. kc'[s].groups = kc[s].groups
    BY <1>0, <2>1, <2>2, EnabledType DEF TypeOK
  <2> QED
    BY <2>2, <2>3 DEF Had, HadNext
<1>3. ASSUME NEW r \in Request, WriteMembership(r)
      PROVE  HadNext(s, m, t)
  <2> DEFINE n == req[r].m
             to == req[r].to
             c == Row(req[r].id).sub
  <2>1. n \in Membership /\ to \in {"on", "off"}
    BY <1>0, <1>3, Shape DEF WriteMembership, At
  <2>2. c \in Subject
    <3>1. Row(req[r].id) \in users
      BY <1>3, RowOf DEF Addressed, WriteMembership, At
    <3> QED
      BY <1>0, <3>1 DEF TypeOK
  <2>3. /\ kc' \in {kc, Regrouped(c, n, to)}
        /\ lost' = IF n \in kc[c].groups \ kc'[c].groups THEN [lost EXCEPT ![c][n] = now] ELSE lost
    BY <1>3 DEF WriteMembership
  <2> HIDE DEF n, to, c
  <2>4. now \in Nat /\ lost[s][m] \in Nat
    BY <1>0 DEF TypeOK, Times
  <2>5. /\ \A v \in Subject : v # c => kc'[v] = kc[v]
        /\ kc[c].groups \ {n} \subseteq kc'[c].groups
    <3>1. kc \in [Subject -> [groups: SUBSET Membership, enabled: BOOLEAN]]
      BY <1>0 DEF TypeOK
    <3>2. CASE kc' = kc
      BY <2>2, <3>2
    <3>3. CASE kc' = Regrouped(c, n, to)
      BY <2>1, <2>2, <3>1, <3>3, RegroupedType
    <3> QED
      BY <2>3, <3>2, <3>3
  <2>6. \A v \in Subject, w \in Membership :
          [lost EXCEPT ![c][n] = now][v][w] = IF v = c /\ w = n THEN now ELSE lost[v][w]
    BY <1>0, <2>1, <2>2, LostType
  <2>7. CASE lost[s][m] >= t
    <3>1. lost'[s][m] \in {lost[s][m], now}
      BY <2>3, <2>6
    <3> QED
      BY <2>4, <2>7, <3>1 DEF Had, HadNext
  <2>8. CASE m \in kc[s].groups /\ m \notin kc'[s].groups
    <3>1. s = c /\ m = n
      BY <2>5, <2>8
    <3>2. lost'[s][m] = now
      BY <2>3, <2>6, <2>8, <3>1
    <3> QED
      BY <2>4, <3>2 DEF Had, HadNext
  <2> QED
    BY <2>7, <2>8 DEF Had, HadNext
<1>4. ASSUME NEW r \in Request, Acts(r), ~WriteMembership(r),
             \A o \in Officer, i \in Ids, b \in BOOLEAN : ~SetActive(r, o, i, b)
      PROVE  UNCHANGED <<kc, lost>>
  BY <1>4 DEF Acts, Passive, Bearer, FetchTicket, ReadCache, CheckAccount, FindUser, Refuse, Handle,
       LoadMembership, DeleteTicket, InsertUser, BuildPrincipal, OpenStream, CreateStreamTicket,
       CommitActive, Step, NoWrite
<1>5. Tick \/ (\E k \in Token, v \in Subject : Issue(k, v)) \/ UNCHANGED vars => UNCHANGED <<kc, lost>>
  BY DEF Tick, Issue, vars
<1> QED
  BY <1>1, <1>2, <1>3, <1>4, <1>5, Cases

\* A token in use.
LEMMA TokenType ==
  ASSUME TypeOK, NEW k \in Token, token[k] # NoToken
  PROVE  /\ token[k].sub \in Subject /\ token[k].issued \in Nat
         /\ token[k].exp \in Nat /\ token[k].claims \subseteq Membership
BY DEF TypeOK, TokenOf, Times

LEMMA EffectiveStep ==
  ASSUME TypeInv, Addressed, Effective, [Next]_vars
  PROVE  Effective'
<1>0. TypeOK /\ Faces \subseteq Stages
  BY DEF TypeInv, Faces, Stages
<1>1. \A k \in Token : token[k] # NoToken => token'[k] = token[k]
  BY <1>0, TokenStays
<1>2. ASSUME NEW k \in Token, token[k] # NoToken, NEW m \in Membership,
             Had(token[k].sub, m, token[k].issued)
      PROVE  HadNext(token[k].sub, m, token[k].issued)
  <2>1. token[k].sub \in Subject /\ token[k].issued \in Nat /\ token[k].issued <= now
    BY <1>0, <1>2, TokenType DEF Effective
  <2> QED
    BY <1>2, <2>1, HadStays
<1>3. ASSUME NEW k \in Token, token'[k] # NoToken
      PROVE  /\ token'[k].issued <= now'
             /\ \A m \in token'[k].claims : HadNext(token'[k].sub, m, token'[k].issued)
  <2>1. CASE token[k] # NoToken
    <3>1. now <= now' /\ now \in Nat /\ now' \in Nat
      <4>1. now' \in Nat /\ now \in Nat
        BY <1>0, TypeStep DEF TypeInv, TypeOK, Times
      <4>2. now' = now \/ now' = now + 1
        <5>1. ASSUME NEW r \in Request, Acts(r)
              PROVE  now' = now
          BY <5>1 DEF Acts, Passive, Bearer, FetchTicket, ReadCache, CheckAccount, FindUser, Refuse, Handle,
               LoadMembership, DeleteTicket, InsertUser, BuildPrincipal, OpenStream, CreateStreamTicket,
               SetActive, CommitActive, WriteMembership, Step, NoWrite
        <5> QED
          BY <5>1, Cases DEF Tick, Issue, vars
      <4> QED
        BY <4>1, <4>2
    <3>2. token[k].issued <= now /\ token[k].issued \in Nat /\ token'[k] = token[k]
      BY <1>0, <1>1, <2>1, TokenType DEF Effective
    <3>3. \A m \in token[k].claims : m \in Membership /\ Had(token[k].sub, m, token[k].issued)
      BY <1>0, <2>1, TokenType DEF Effective
    <3> QED
      BY <1>2, <2>1, <3>1, <3>2, <3>3
  <2>2. CASE token[k] = NoToken
    <3>1. PICK j \in Token, s \in Subject : Issue(j, s)
      <4>1. ASSUME NEW r \in Request, Acts(r)
            PROVE  UNCHANGED token
        BY <4>1 DEF Acts, Passive, Bearer, FetchTicket, ReadCache, CheckAccount, FindUser, Refuse, Handle,
             LoadMembership, DeleteTicket, InsertUser, BuildPrincipal, OpenStream, CreateStreamTicket,
             SetActive, CommitActive, WriteMembership, Step, NoWrite
      <4> QED
        BY <1>3, <2>2, <4>1, Cases DEF Tick, vars
    <3>2. PICK claims \in {{}, kc[s].groups} :
            token' = [token EXCEPT ![j] = [state |-> "issued", sub |-> s, issued |-> now,
                                           exp |-> now + Life, claims |-> claims]]
      BY <3>1 DEF Issue
    <3>3. j = k
      BY <1>0, <1>3, <2>2, <3>2 DEF TypeOK
    <3>4. token'[k] = [state |-> "issued", sub |-> s, issued |-> now, exp |-> now + Life, claims |-> claims]
      BY <1>0, <3>2, <3>3 DEF TypeOK
    <3>5. token'[k].issued = now /\ token'[k].sub = s /\ token'[k].claims = claims
      BY <3>4
    <3>6. UNCHANGED <<now, kc, lost>> /\ now \in Nat
      BY <1>0, <3>1 DEF Issue, TypeOK, Times
    <3> QED
      BY <3>2, <3>5, <3>6 DEF Had, HadNext
  <2> QED
    BY <2>1, <2>2
<1>4. \A x \in Request : req[x].pc \in Stages =>
        req[x].k \in Token /\ token[req[x].k] # NoToken /\ token'[req[x].k] = token[req[x].k]
  BY <1>1, IssuedNow
<1>5. \A e \in cache : /\ e.key.id \in Token /\ token[e.key.id] # NoToken /\ e.key.sub = token[e.key.id].sub
                       /\ e.p.groups \subseteq Membership
  BY <1>0, IssuedNow DEF TypeOK, Entry, Principal
<1>6. ASSUME NEW r \in Request, BuildPrincipal(r), NEW groups \in Granted(req[r].k), NEW m \in groups
      PROVE  HadNext(token[req[r].k].sub, m, token[req[r].k].issued) /\ m \in Membership
  <2> DEFINE k == req[r].k
  <2>1. k \in Token /\ token[k] # NoToken
    BY <1>4, <1>6 DEF BuildPrincipal, At, Stages
  <2>2. token[k].sub \in Subject /\ token[k].claims \subseteq Membership
    BY <1>0, <2>1, TokenType
  <2>3. kc[token[k].sub].groups \subseteq Membership
    BY <1>0, <2>2 DEF TypeOK
  <2>4. m \in Membership
    BY <1>6, <2>2, <2>3 DEF Granted
  <2>5. Had(token[k].sub, m, token[k].issued)
    BY <1>6, <2>1 DEF Granted, Effective, Had
  <2> QED
    BY <1>2, <2>1, <2>4, <2>5
<1>7. ASSUME NEW e \in cache', NEW m \in e.p.groups
      PROVE  HadNext(e.key.sub, m, token'[e.key.id].issued)
  <2>1. CASE e \in cache
    <3> DEFINE k == e.key.id
    <3>1. k \in Token /\ token[k] # NoToken /\ e.key.sub = token[k].sub /\ m \in Membership
      BY <1>5, <1>7, <2>1
    <3>2. Had(token[k].sub, m, token[k].issued)
      BY <1>7, <2>1, <3>1 DEF Effective
    <3>3. HadNext(token[k].sub, m, token[k].issued)
      BY <1>2, <3>1, <3>2
    <3> QED
      BY <1>1, <3>1, <3>3
  <2>2. ASSUME NEW r \in Request, BuildPrincipal(r), e \notin cache
        PROVE  HadNext(e.key.sub, m, token'[e.key.id].issued)
    <3> DEFINE k == req[r].k
    <3>1. PICK groups \in Granted(k) :
            e = [key |-> CacheKey(k), p |-> [id |-> req[r].p.id, groups |-> groups], until |-> token[k].exp]
      BY <2>2 DEF BuildPrincipal, Stored
    <3>2. e.key.sub = token[k].sub /\ e.key.id = k /\ e.p.groups = groups
      BY <3>1 DEF CacheKey
    <3>3. token'[k] = token[k]
      BY <1>4, <2>2 DEF BuildPrincipal, At, Stages
    <3>4. HadNext(token[k].sub, m, token[k].issued)
      BY <1>6, <1>7, <2>2, <3>1, <3>2
    <3> QED
      BY <3>2, <3>3, <3>4
  <2> QED
    BY <2>1, <2>2, Writers
<1>8. ASSUME NEW x \in Request, req'[x].pc \in Faces, NEW m \in req'[x].p.groups
      PROVE  HadNext(token'[req'[x].k].sub, m, token'[req'[x].k].issued)
  <2> DEFINE k == req[x].k
  <2>0. req'[x].pc \in Stages
    BY <1>0, <1>8
  <2>1. ASSUME req[x].pc \in Stages, req'[x].k = k, m \in Membership, Had(token[k].sub, m, token[k].issued)
        PROVE  HadNext(token'[req'[x].k].sub, m, token'[req'[x].k].issued)
    BY <1>2, <1>4, <2>1
  <2>2. ASSUME req[x].pc \in Faces, req'[x].k = k, req'[x].p = req[x].p
        PROVE  HadNext(token'[req'[x].k].sub, m, token'[req'[x].k].issued)
    <3>1. req[x].pc \in Stages /\ m \in Membership
      BY <1>0, <1>8, <2>2, IssuedNow DEF Principal
    <3>2. Had(token[k].sub, m, token[k].issued)
      BY <1>8, <2>2 DEF Effective, Sub
    <3> QED
      BY <2>1, <2>2, <3>1, <3>2
  <2>3. CASE Stays(x)
    BY <1>8, <2>2, <2>3 DEF Stays
  <2>4. CASE Passes(x, req'[x]) /\ NoWrite
    <3> DEFINE q == req'[x]
    <3>1. Passes(x, q) /\ q.pc \in Stages /\ q.pc \notin {"ticket", "claims", "miss", "insert"}
      BY <1>8, <2>0, <2>4 DEF Faces
    <3> HIDE DEF q, k
    <3>2. /\ req[x].pc \in {"claims", "cached", "miss"} /\ q.k = req[x].k
          /\ \/ \E e \in Hits(q.k) : q.p = e.p
             \/ req[x].pc = "cached" /\ q.p = req[x].p
             \/ \E u \in RowsFor(Sub(x)) : q.p = [id |-> u.id, groups |-> {}]
      <4>1. /\ req[x].pc \in {"claims", "cached", "miss"}
            /\ q.via = req[x].via /\ q.k = req[x].k /\ q.alive = req[x].alive
            /\ \/ q.pc \in {"miss", "insert"}
               \/ q.pc = "cached" /\ \E e \in Hits(q.k) : q.p = e.p
               \/ /\ q.pc = "served" /\ req[x].pc = "cached"
                  /\ MayLogIn(req[x].p.id) /\ q.p = req[x].p
               \/ /\ q.pc = "account"
                  /\ \E u \in RowsFor(Sub(x)) : u.active /\ q.p = [id |-> u.id, groups |-> {}]
        BY <3>1, Parts, Zenon
      <4> QED
        BY <3>1, <4>1
    <3>3. req[x].pc \in Stages /\ q.k = k /\ q = req'[x]
      BY <3>2 DEF Stages, q, k
    <3>4. ASSUME NEW e \in Hits(q.k), q.p = e.p
          PROVE  HadNext(token'[req'[x].k].sub, m, token'[req'[x].k].issued)
      <4>1. e \in cache /\ e.key.id = k /\ e.key.sub = token[k].sub
        BY <3>3, <3>4 DEF Hits, CacheKey
      <4>2. m \in e.p.groups
        BY <1>8, <3>3, <3>4
      <4> QED
        BY <1>5, <2>1, <3>3, <4>1, <4>2 DEF Effective, k
    <3>5. CASE req[x].pc = "cached" /\ q.p = req[x].p
      BY <2>2, <3>3, <3>5 DEF Faces, k
    <3>6. ASSUME NEW u, q.p = [id |-> u.id, groups |-> {}]
          PROVE  FALSE
      BY <1>8, <3>3, <3>6
    <3> QED
      BY <3>2, <3>4, <3>5, <3>6
  <2>5. req'[x].p # [id |-> FreshId, groups |-> {}]
    BY <1>8
  <2>6. ASSUME BuildPrincipal(x), Advances(x, "served"), NEW groups \in Granted(req[x].k),
               req'[x].p = [id |-> req[x].p.id, groups |-> groups]
        PROVE  HadNext(token'[req'[x].k].sub, m, token'[req'[x].k].issued)
    <3>1. m \in groups
      BY <1>8, <2>6
    <3> QED
      BY <1>4, <1>6, <2>6, <3>1 DEF Advances
  <2>7. ~Advances(x, "claims")
    BY <1>8 DEF Advances, Faces
  <2> QED
    BY <2>0, <2>3, <2>4, <2>5, <2>6, <2>7, After
<1> QED
  BY <1>3, <1>7, <1>8 DEF Effective, Had, HadNext, Sub

\* RevokedByNextToken: nobody acts with a group he had lost before his token was
\* issued, whatever the caches hold.
THEOREM RevokedTheorem == Spec => []RevokedByNextToken
<1>1. Init => Effective
  BY IdleType DEF Init, Effective, Faces, Idle
<1>2. TypeInv /\ Addressed /\ Effective /\ [Next]_vars => Effective'
  BY EffectiveStep
<1>3. Effective => RevokedByNextToken
  BY DEF Effective, RevokedByNextToken, Had, At, Faces
<1>4. TypeInv /\ Addressed /\ [Next]_vars => (TypeInv /\ Addressed)'
  BY TypeStep
<1> QED
  BY TypeInit, <1>1, <1>2, <1>3, <1>4, PTL DEF Spec
-----------------------------------------------------------------------------
(* Who has been disabled stays so                                          *)

\* No request is about to enable row i.
NoEnabling(i) == \A x \in Request : At(x, "setactive") /\ req[x].id = i => ~req[x].to

Quarantine ==
  /\ \A r \in Request : At(r, "setactive") /\ req[r].clean =>
       /\ NoEnabling(req[r].id)
       /\ \A u \in users : u.id = req[r].id => ~kc[u.sub].enabled /\ (u.active => req[r].was)
  /\ \A s \in banned : /\ ~kc[s].enabled /\ Disabled(s)
                       /\ \A u \in RowsFor(s) : NoEnabling(u.id)

\* A pending change of an account is kept as it was.
Pends(x) ==
  /\ At(x, "setactive") /\ req'[x].pc = "setactive" /\ req'[x].id = req[x].id
  /\ req'[x].was = req[x].was /\ req'[x].to = req[x].to
  /\ req'[x].clean => req[x].clean

LEMMA Pending ==
  ASSUME TypeInv, [Next]_vars, NEW x \in Request, req'[x].pc = "setactive"
  PROVE  Pends(x) \/ \E o \in Officer, i \in Ids, b \in BOOLEAN : SetActive(x, o, i, b)
<1>0. TypeOK
  BY DEF TypeInv
<1>1. ASSUME req'[x] = req[x]
      PROVE  Pends(x)
  BY <1>1 DEF Pends, At
<1>2. ASSUME NEW r \in Request, Acts(r), x # r
      PROVE  Pends(x)
  <2>1. CASE req[x].pc \in Stages /\ req'[x] = [req[x] EXCEPT !.alive = TRUE]
    <3>1. req'[x].pc \in Stages
      BY <1>0, <2>1, AliveType
    <3> QED
      BY <3>1 DEF Stages
  <2>2. CASE At(x, "setactive") /\ req'[x] = [req[x] EXCEPT !.clean = FALSE]
    <3>1. req[x] \in [pc: {"setactive"}, id: Ids, was: BOOLEAN, to: BOOLEAN, clean: BOOLEAN]
      BY <1>0, <2>2, PendingType
    <3>2. /\ req'[x].id = req[x].id /\ req'[x].was = req[x].was /\ req'[x].to = req[x].to
          /\ req'[x].clean = FALSE
      BY <2>2, <3>1
    <3> QED
      BY <2>2, <3>2 DEF Pends, At
  <2>3. CASE req'[x] = req[x]
    BY <1>1, <2>3
  <2> QED
    BY <1>2, <2>1, <2>2, <2>3, Others
<1>3. ASSUME Acts(x), \A o \in Officer, i \in Ids, b \in BOOLEAN : ~SetActive(x, o, i, b)
      PROVE  FALSE
  <2>1. ASSUME NEW o \in Officer, NEW i \in Ids, NEW m \in Membership, NEW to \in {"on", "off"},
               LoadMembership(x, o, i, m, to)
        PROVE  req'[x].pc = "member"
    BY <1>0, <2>1, Steps DEF LoadMembership
  <2> QED
    BY <1>3, <2>1, SelfAfter
<1> QED
  BY <1>1, <1>2, <1>3, Cases DEF Tick, Issue, vars

\* Steps that touch neither an account nor a pending change of one.
LEMMA QuarantineFrame ==
  ASSUME TypeInv, Addressed, Quarantine,
         \A x \in Request : req'[x].pc = "setactive" => Pends(x),
         \A s \in Subject : kc'[s].enabled = kc[s].enabled,
         UNCHANGED banned, users' \subseteq [id: Ids, sub: Subject, active: BOOLEAN],
         users \subseteq users', \A u \in users', v \in users : u \in users \/ u.id # v.id
  PROVE  Quarantine'
<1>0. banned \subseteq Subject
  BY DEF TypeInv, TypeOK
<1>1. ASSUME NEW i, NoEnabling(i)
      PROVE  \A x \in Request : req'[x].pc = "setactive" /\ req'[x].id = i => ~req'[x].to
  BY <1>1 DEF NoEnabling, Pends
<1>2. ASSUME NEW r \in Request, req'[r].pc = "setactive", req'[r].clean
      PROVE  /\ \A x \in Request : req'[x].pc = "setactive" /\ req'[x].id = req'[r].id => ~req'[x].to
             /\ \A u \in users' : u.id = req'[r].id => ~kc'[u.sub].enabled /\ (u.active => req'[r].was)
  <2>1. At(r, "setactive") /\ req[r].clean /\ req'[r].id = req[r].id /\ req'[r].was = req[r].was
    BY <1>2 DEF Pends
  <2>2. PICK v \in users : v.id = req[r].id
    BY <2>1 DEF Addressed, At
  <2>3. \A u \in users' : u.id = req[r].id => u \in users /\ u.sub \in Subject
    BY <2>2
  <2> QED
    BY <1>1, <2>1, <2>3 DEF Quarantine
<1>3. ASSUME NEW s \in banned
      PROVE  /\ ~kc'[s].enabled /\ \E u \in users' : u.sub = s /\ ~u.active
             /\ \A u \in users' : u.sub = s =>
                  \A x \in Request : req'[x].pc = "setactive" /\ req'[x].id = u.id => ~req'[x].to
  <2>1. ASSUME NEW u \in users', u.sub = s, u \notin users, NEW x \in Request, req'[x].pc = "setactive",
               req'[x].id = u.id
        PROVE  FALSE
    BY <2>1 DEF Pends, Addressed, At
  <2> QED
    BY <1>0, <1>1, <2>1 DEF Quarantine, Disabled, RowsFor
<1> QED
  BY <1>2, <1>3 DEF Quarantine, NoEnabling, At, Disabled, RowsFor

LEMMA QuarantineSetActive ==
  ASSUME TypeInv, Rows, Addressed, Quarantine, [Next]_vars,
         NEW r \in Request, NEW o \in Officer, NEW i \in Ids, NEW b \in BOOLEAN, SetActive(r, o, i, b)
  PROVE  Quarantine'
<1>0. TypeOK /\ banned \subseteq Subject
  BY DEF TypeInv, TypeOK
<1>1. PICK u \in users :
        /\ u.id = i
        /\ kc' = [kc EXCEPT ![u.sub].enabled = b]
        /\ req' = [x \in Request |->
            IF x = r THEN [pc |-> "setactive", id |-> i, was |-> u.active, to |-> b,
                           clean |-> ~b /\ \A y \in Request : At(y, "setactive") /\ req[y].id = i => ~req[y].to]
            ELSE IF b /\ At(x, "setactive") /\ req[x].id = i THEN [req[x] EXCEPT !.clean = FALSE]
            ELSE req[x]]
        /\ banned' = IF b THEN banned \ {u.sub} ELSE banned
  BY DEF SetActive, KeycloakSet
<1>2. UNCHANGED users /\ u.sub \in Subject /\ req[r].pc = "idle"
  BY <1>0 DEF SetActive, TypeOK, Start, At
<1>3. \A v \in users : v.id = i <=> v = u
  BY <1>1 DEF Rows, OneRow
<1>4. \A v \in users : v.sub = u.sub <=> v = u
  BY <1>1 DEF Rows, OneRow
<1>5. \A s \in Subject : kc'[s].enabled = IF s = u.sub THEN b ELSE kc[s].enabled
  BY <1>0, <1>1, <1>2, EnabledType DEF TypeOK
<1> DEFINE clean == ~b /\ \A y \in Request : At(y, "setactive") /\ req[y].id = i => ~req[y].to
<1>6. req'[r] = [pc |-> "setactive", id |-> i, was |-> u.active, to |-> b, clean |-> clean]
  BY <1>1
<1>7. /\ req'[r].pc = "setactive" /\ req'[r].id = i /\ req'[r].was = u.active /\ req'[r].to = b
      /\ req'[r].clean <=> clean
  <2> HIDE DEF clean
  <2> QED
    BY <1>6
<1>8. \A x \in Request : x # r /\ req'[x].pc = "setactive" =>
        Pends(x) /\ (b /\ req[x].id = i => ~req'[x].clean)
  <2> TAKE x \in Request
  <2> HAVE x # r /\ req'[x].pc = "setactive"
  <2>1. CASE b /\ At(x, "setactive") /\ req[x].id = i
    <3>1. req[x] \in [pc: {"setactive"}, id: Ids, was: BOOLEAN, to: BOOLEAN, clean: BOOLEAN]
      BY <1>0, <2>1, PendingType
    <3>2. req'[x] = [req[x] EXCEPT !.clean = FALSE]
      BY <1>1, <2>1
    <3>3. /\ req'[x].id = req[x].id /\ req'[x].was = req[x].was /\ req'[x].to = req[x].to
          /\ req'[x].clean = FALSE
      BY <3>1, <3>2
    <3> QED
      BY <2>1, <3>3 DEF Pends
  <2>2. CASE ~(b /\ At(x, "setactive") /\ req[x].id = i)
    <3>1. req'[x] = req[x]
      BY <1>1, <2>2
    <3> QED
      BY <2>2, <3>1 DEF Pends, At
  <2> QED
    BY <2>1, <2>2
<1> HIDE DEF clean
<1>9. ASSUME NEW j, NoEnabling(j), j = i => ~b
      PROVE  \A x \in Request : req'[x].pc = "setactive" /\ req'[x].id = j => ~req'[x].to
  BY <1>7, <1>8, <1>9 DEF NoEnabling, Pends
<1>10. ASSUME NEW x \in Request, req'[x].pc = "setactive", req'[x].clean
       PROVE  /\ \A y \in Request : req'[y].pc = "setactive" /\ req'[y].id = req'[x].id => ~req'[y].to
              /\ \A v \in users : v.id = req'[x].id => ~kc'[v.sub].enabled /\ (v.active => req'[x].was)
  <2>1. CASE x = r
    <3>1. ~b /\ NoEnabling(i)
      BY <1>7, <1>10, <2>1 DEF clean, NoEnabling
    <3> QED
      BY <1>2, <1>3, <1>5, <1>7, <1>9, <2>1, <3>1
  <2>2. CASE x # r
    <3>1. /\ At(x, "setactive") /\ req[x].clean /\ req'[x].id = req[x].id /\ req'[x].was = req[x].was
          /\ req[x].id = i => ~b
      BY <1>8, <1>10, <2>2 DEF Pends
    <3>2. \A v \in users : v.sub \in Subject
      BY <1>0 DEF TypeOK
    <3>3. \A v \in users : v.id = req[x].id => ~kc'[v.sub].enabled
      BY <1>3, <1>4, <1>5, <3>1, <3>2 DEF Quarantine
    <3> QED
      BY <1>9, <3>1, <3>3 DEF Quarantine
  <2> QED
    BY <2>1, <2>2
<1>11. ASSUME NEW s \in banned'
       PROVE  /\ ~kc'[s].enabled /\ Disabled(s)
              /\ \A v \in RowsFor(s) :
                   \A x \in Request : req'[x].pc = "setactive" /\ req'[x].id = v.id => ~req'[x].to
  <2>1. s \in banned /\ s \in Subject /\ (s = u.sub => ~b)
    BY <1>0, <1>1
  <2>2. \A v \in RowsFor(s) : v.id = i => ~b
    BY <1>3, <2>1 DEF RowsFor
  <2> QED
    BY <1>5, <1>9, <2>1, <2>2 DEF Quarantine
<1> QED
  BY <1>2, <1>10, <1>11 DEF Quarantine, NoEnabling, At, Disabled, RowsFor

LEMMA QuarantineCommit ==
  ASSUME TypeInv, Rows, Addressed, Quarantine, [Next]_vars, NEW r \in Request, CommitActive(r)
  PROVE  Quarantine'
<1>0. TypeOK /\ banned \subseteq Subject /\ users \subseteq [id: Ids, sub: Subject, active: BOOLEAN]
  BY DEF TypeInv, TypeOK
<1> DEFINE i == req[r].id
           to == req[r].to
           f(v) == IF v.id = i THEN [v EXCEPT !.active = to] ELSE v
<1>1. At(r, "setactive") /\ UNCHANGED kc /\ to \in BOOLEAN
  BY <1>0, Shape DEF CommitActive, At
<1> DEFINE u == Row(i)
<1>2. u \in users /\ u.id = i
  BY <1>1, RowOf DEF Addressed, At
<1>3. /\ \A v \in users : v.id = i <=> v = u
      /\ \A v \in users : v.sub = u.sub <=> v = u
  BY <1>2 DEF Rows, OneRow
<1>4. \A v \in users : /\ f(v).id = v.id /\ f(v).sub = v.sub
                       /\ f(v).active = IF v.id = i THEN to ELSE v.active
  <2> TAKE v \in users
  <2>1. v \in [id: Ids, sub: Subject, active: BOOLEAN]
    BY <1>0
  <2> QED
    BY <2>1
<1>5. users' = IF req[r].was = to THEN users ELSE {f(v) : v \in users}
  BY DEF CommitActive
<1>6. banned' = IF req[r].clean THEN banned \cup {u.sub} ELSE banned
  BY DEF CommitActive
<1> HIDE DEF f, u, to, i
<1>7. \A v \in users : \E w \in users' : /\ w.id = v.id /\ w.sub = v.sub
                                         /\ w.active = v.active \/ (v.id = i /\ w.active = to)
  <2>1. CASE req[r].was = to
    BY <1>5, <2>1
  <2>2. CASE req[r].was # to
    <3> TAKE v \in users
    <3>1. f(v) \in users'
      BY <1>5, <2>2
    <3> QED
      BY <1>4, <3>1
  <2> QED
    BY <2>1, <2>2
<1>8. \A w \in users' : \E v \in users : /\ w.id = v.id /\ w.sub = v.sub
                                         /\ w.active = v.active \/ (v.id = i /\ w.active = to)
  <2>1. CASE req[r].was = to
    BY <1>5, <2>1
  <2>2. CASE req[r].was # to
    <3> TAKE w \in users'
    <3>1. PICK v \in users : w = f(v)
      BY <1>5, <2>2
    <3> QED
      BY <1>4, <3>1
  <2> QED
    BY <2>1, <2>2
<1>9. \A x \in Request : req'[x].pc = "setactive" => Pends(x)
  <2> TAKE x \in Request
  <2> HAVE req'[x].pc = "setactive"
  <2>1. x # r
    <3>1. req'[r] = Idle
      BY <1>0, CommitShape
    <3> QED
      BY <3>1 DEF Idle
  <2>2. req'[x] = req[x]
    <3>1. CASE req[x].pc \in Stages /\ req'[x] = [req[x] EXCEPT !.alive = TRUE]
      <4>1. req'[x].pc \in Stages
        BY <1>0, <3>1, AliveType
      <4> QED
        BY <4>1 DEF Stages
    <3> QED
      BY <1>0, <2>1, <3>1, CommitShape
  <2> QED
    BY <2>2 DEF Pends, At
<1>10. ASSUME NEW j, NoEnabling(j)
       PROVE  \A x \in Request : req'[x].pc = "setactive" /\ req'[x].id = j => ~req'[x].to
  BY <1>9, <1>10 DEF NoEnabling, Pends
<1>11. ASSUME NEW j, NoEnabling(j), j = i
       PROVE  ~to
  BY <1>1, <1>11 DEF NoEnabling, i, to
<1>12. ASSUME NEW x \in Request, req'[x].pc = "setactive", req'[x].clean
       PROVE  /\ \A y \in Request : req'[y].pc = "setactive" /\ req'[y].id = req'[x].id => ~req'[y].to
              /\ \A w \in users' : w.id = req'[x].id => ~kc'[w.sub].enabled /\ (w.active => req'[x].was)
  <2>1. At(x, "setactive") /\ req[x].clean /\ req'[x].id = req[x].id /\ req'[x].was = req[x].was
    BY <1>9, <1>12 DEF Pends
  <2>2. NoEnabling(req[x].id)
    BY <2>1 DEF Quarantine
  <2>3. ASSUME NEW w \in users', w.id = req[x].id
        PROVE  ~kc'[w.sub].enabled /\ (w.active => req[x].was)
    <3>1. PICK v \in users : /\ w.id = v.id /\ w.sub = v.sub
                             /\ w.active = v.active \/ (v.id = i /\ w.active = to)
      BY <1>8
    <3>2. ~kc[v.sub].enabled /\ (v.active => req[x].was)
      BY <2>1, <2>3, <3>1 DEF Quarantine
    <3>3. v.id = i => ~to
      BY <1>11, <2>2, <2>3, <3>1
    <3> QED
      BY <1>1, <3>1, <3>2, <3>3
  <2> QED
    BY <1>10, <2>1, <2>2, <2>3
<1>13. ASSUME NEW s \in banned'
       PROVE  /\ ~kc'[s].enabled /\ \E w \in users' : w.sub = s /\ ~w.active
              /\ \A w \in users' : w.sub = s =>
                   \A x \in Request : req'[x].pc = "setactive" /\ req'[x].id = w.id => ~req'[x].to
  <2>1. CASE s \in banned
    <3>1. PICK v \in users : v.sub = s /\ ~v.active
      BY <2>1 DEF Quarantine, Disabled, RowsFor
    <3>2. \A y \in users : y.sub = s => NoEnabling(y.id)
      BY <2>1 DEF Quarantine, RowsFor
    <3>3. PICK w \in users' : /\ w.id = v.id /\ w.sub = v.sub
                              /\ w.active = v.active \/ (v.id = i /\ w.active = to)
      BY <1>7
    <3>4. ~w.active
      BY <1>11, <3>1, <3>2, <3>3
    <3>5. \A z \in users' : z.sub = s => NoEnabling(z.id)
      BY <1>8, <3>2
    <3> QED
      BY <1>1, <1>10, <2>1, <3>1, <3>3, <3>4, <3>5 DEF Quarantine
  <2>2. CASE s \notin banned
    <3>1. s = u.sub /\ req[r].clean
      BY <1>6, <2>2
    <3>2. NoEnabling(i) /\ ~kc[s].enabled /\ (u.active => req[r].was)
      BY <1>1, <1>2, <3>1 DEF Quarantine, i
    <3>3. ~to
      BY <1>11, <3>2
    <3>4. \E w \in users' : w.sub = s /\ ~w.active
      <4>1. CASE req[r].was = to
        BY <1>2, <1>5, <3>1, <3>2, <3>3, <4>1
      <4>2. CASE req[r].was # to
        <5>1. f(u) \in users'
          BY <1>2, <1>5, <4>2
        <5> QED
          BY <1>2, <1>4, <3>1, <3>3, <5>1
      <4> QED
        BY <4>1, <4>2
    <3>5. \A w \in users' : w.sub = s => w.id = i
      BY <1>2, <1>3, <1>8, <3>1
    <3> QED
      BY <1>1, <1>10, <3>2, <3>4, <3>5
  <2> QED
    BY <2>1, <2>2
<1> QED
  BY <1>12, <1>13 DEF Quarantine, NoEnabling, At, Disabled, RowsFor

LEMMA QuarantineStep ==
  ASSUME TypeInv, Rows, Addressed, Quarantine, [Next]_vars
  PROVE  Quarantine'
<1>0. TypeOK /\ users' \subseteq [id: Ids, sub: Subject, active: BOOLEAN]
  BY TypeStep DEF TypeInv, TypeOK
<1>1. CASE \E r \in Request, o \in Officer, i \in Ids, b \in BOOLEAN : SetActive(r, o, i, b)
  BY <1>1, QuarantineSetActive
<1>2. CASE \E r \in Request : CommitActive(r)
  BY <1>2, QuarantineCommit
<1>3. CASE /\ \A r \in Request : ~CommitActive(r)
           /\ \A r \in Request, o \in Officer, i \in Ids, b \in BOOLEAN : ~SetActive(r, o, i, b)
  <2>1. \A x \in Request : req'[x].pc = "setactive" => Pends(x)
    BY <1>3, Pending
  <2>2. users \subseteq users' /\ \A u \in users', v \in users : u \in users \/ u.id # v.id
    <3>1. ASSUME NEW r \in Request, InsertUser(r)
          PROVE  users \subseteq users' /\ \A u \in users', v \in users : u \in users \/ u.id # v.id
      <4> DEFINE new == [id |-> FreshId, sub |-> Sub(r), active |-> TRUE]
      <4>1. users' = users \cup {new} /\ \A v \in users : v.id # FreshId
        BY <3>1, FreshIdType DEF InsertUser
      <4>2. new.id = FreshId
        OBVIOUS
      <4> HIDE DEF new
      <4> QED
        BY <4>1, <4>2
    <3> QED
      BY <1>3, <3>1, Writers
  <2>3. UNCHANGED banned /\ \A s \in Subject : kc'[s].enabled = kc[s].enabled
    <3>1. ASSUME NEW r \in Request, WriteMembership(r)
          PROVE  UNCHANGED banned /\ \A s \in Subject : kc'[s].enabled = kc[s].enabled
      <4>1. req[r].m \in Membership /\ req[r].to \in {"on", "off"}
        BY <1>0, <3>1, Shape DEF WriteMembership, At
      <4>2. Row(req[r].id).sub \in Subject
        <5>1. Row(req[r].id) \in users
          BY <3>1, RowOf DEF Addressed, WriteMembership, At
        <5> QED
          BY <1>0, <5>1 DEF TypeOK
      <4>3. kc' \in {kc, Regrouped(Row(req[r].id).sub, req[r].m, req[r].to)} /\ UNCHANGED banned
        BY <3>1 DEF WriteMembership
      <4>4. kc \in [Subject -> [groups: SUBSET Membership, enabled: BOOLEAN]]
        BY <1>0 DEF TypeOK
      <4> QED
        BY <4>1, <4>2, <4>3, <4>4, RegroupedType
    <3>2. ASSUME NEW r \in Request, Acts(r), ~WriteMembership(r)
          PROVE  UNCHANGED <<banned, kc>>
      BY <1>3, <3>2 DEF Acts, Passive, Bearer, FetchTicket, ReadCache, CheckAccount, FindUser, Refuse, Handle,
         LoadMembership, DeleteTicket, InsertUser, BuildPrincipal, OpenStream, CreateStreamTicket, Step, NoWrite
    <3>3. Tick \/ (\E k \in Token, s \in Subject : Issue(k, s)) \/ UNCHANGED vars => UNCHANGED <<banned, kc>>
      BY DEF Tick, Issue, vars
    <3> QED
      BY <3>1, <3>2, <3>3, Cases
  <2> QED
    BY <1>0, <2>1, <2>2, <2>3, QuarantineFrame
<1> QED
  BY <1>1, <1>2, <1>3

\* BannedEverywhere: an account whose disabling was answered with success, and that no
\* enabling overlapped or followed, is disabled in Keycloak and in the database.
THEOREM BannedTheorem == Spec => []BannedEverywhere
<1>1. Init => Rows /\ Quarantine
  BY IdleType DEF Init, Rows, OneRow, Named, Quarantine, At, Idle, Faces
<1>2. TypeInv /\ Addressed /\ Rows /\ Quarantine /\ [Next]_vars => (Rows /\ Quarantine)'
  BY OneRowStep, NamedStep, QuarantineStep DEF Rows
<1>3. Quarantine => BannedEverywhere
  BY DEF Quarantine, BannedEverywhere
<1>4. TypeInv /\ Addressed /\ [Next]_vars => (TypeInv /\ Addressed)'
  BY TypeStep
<1> QED
  BY TypeInit, <1>1, <1>2, <1>3, <1>4, PTL DEF Spec

=============================================================================
