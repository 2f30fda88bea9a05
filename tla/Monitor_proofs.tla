----------------------------- MODULE Monitor_proofs -----------------------------
(***************************************************************************)
(* Theorems about Monitor for any users, roles, tickets, sectors,          *)
(* lifetimes and number of concurrent requests.                            *)
(***************************************************************************)
EXTENDS Monitor, SequenceTheorems, TLAPS

Gots == UNION {[D -> Value] : D \in SUBSET Panel}

Reqs == [user: User \cup {NoUser}, redis: BOOLEAN, todo: Seq(Panel), whole: BOOLEAN, got: Gots,
         fresh: Value \cup {Nothing}, waited: Nat]
Answers == [to: User \cup {NoUser}, whole: BOOLEAN, got: Gots]

OverviewKeys == {OverviewKey(u) : u \in User}
PanelKeys == {PanelKey(u, n) : u \in User, n \in Memoised}

Lives == Nat \ {0}
OverviewEntry == [value: Gots, left: Lives]
PanelEntry == [value: Value, left: Lives]

\* A value somebody may be given.
SeenBy(u, v) == \A x \in v.rows : Visible(u, x)

\* Who may ask for a memoised panel.
MaySee(u, n) == n = "sectors" \/ CanViewGlobal(u) \/ (n = "distributor" /\ u \in Distributor)

\* All who may ask for a panel under a key may be given its value.
Shared(k, v) == \A u \in User, n \in Memoised : MaySee(u, n) /\ PanelKey(u, n) = k => SeenBy(u, v)

\* What a cached panel adds to the age of a value when it is read.
Extra(p) == IF p.name \notin Memoised THEN 0
            ELSE Patience + (IF p.name = "global" THEN GlobalTtl ELSE PanelTtl) - 1

GoodPanel(k, e) ==
  /\ k \in PanelKeys /\ e \in PanelEntry /\ Shared(k, e.value)
  /\ e.value.age + e.left <= Patience + Ttl(k)

GoodOverview(k, e) ==
  /\ k \in OverviewKeys /\ e \in OverviewEntry
  /\ \A p \in DOMAIN e.value :
       /\ \A u \in User : OverviewKey(u) = k => SeenBy(u, e.value[p])
       /\ e.value[p].age + e.left <= Patience + Extra(p) + OverviewTtl

GoodReq(q) ==
  /\ q \in Reqs /\ q.waited <= Patience
  /\ q.user = NoUser => q.todo = <<>>
  /\ \A p \in DOMAIN q.got : SeenBy(q.user, q.got[p]) /\ q.got[p].age <= q.waited + Extra(p)
  /\ \A i \in 1 .. Len(q.todo) : q.todo[i].name \in Memoised /\ MaySee(q.user, q.todo[i].name)
  /\ q.fresh # Nothing => /\ q.fresh.age <= q.waited
                          /\ q.todo # <<>> => Shared(PanelKey(q.user, q.todo[1].name), q.fresh)

GoodAnswer(a) ==
  /\ a \in Answers
  /\ \A p \in DOMAIN a.got : SeenBy(a.to, a.got[p]) /\ a.got[p].age < Longest(p)

Inv ==
  /\ row \in [Ticket -> Row]
  /\ \A r \in Request : GoodReq(req[r])
  /\ req \in [Request -> Reqs]
  /\ \A k \in DOMAIN cache : GoodPanel(k, cache[k]) \/ GoodOverview(k, cache[k])
  /\ GoodAnswer(answer)

-----------------------------------------------------------------------------
(* Constants and types                                                     *)

LEMMA Numbers ==
  /\ OverviewTtl \in Nat /\ OverviewTtl > 0 /\ PanelTtl \in Nat /\ PanelTtl > 0
  /\ GlobalTtl \in Nat /\ GlobalTtl > 0 /\ Patience \in Nat
BY MonitorAssumption

LEMMA Extras ==
  ASSUME NEW p
  PROVE  Extra(p) \in Nat /\ Longest(p) \in Nat /\ Patience + Extra(p) + OverviewTtl <= Longest(p)
BY Numbers DEF Extra, Longest

LEMMA GotsAre ==
  ASSUME NEW g \in Gots
  PROVE  /\ DOMAIN g \subseteq Panel
         /\ \A p \in DOMAIN g : g[p] \in Value
         /\ g = [p \in DOMAIN g |-> g[p]]
BY DEF Gots

LEMMA NoGots == <<>> \in Gots /\ DOMAIN <<>> = {}
<1>1. DOMAIN <<>> = {}
  OBVIOUS
<1>2. <<>> \in [{} -> Value]
  BY <1>1
<1> QED
  BY <1>1, <1>2 DEF Gots

\* Keys of panels and of overviews are different.
LEMMA Keys ==
  /\ \A u \in User : OverviewKey(u) \in OverviewKeys /\ OverviewKey(u).ns = "overview"
  /\ \A u \in User, n \in Memoised : PanelKey(u, n) \in PanelKeys /\ PanelKey(u, n).ns = n
  /\ \A k \in OverviewKeys : k.ns = "overview"
  /\ \A k \in PanelKeys : k.ns \in Memoised
  /\ "overview" \notin Memoised
BY DEF OverviewKeys, PanelKeys, OverviewKey, PanelKey, Memoised

LEMMA Lifetimes ==
  /\ \A u \in User : Ttl(OverviewKey(u)) = OverviewTtl
  /\ \A u \in User, n \in Memoised : Ttl(PanelKey(u, n)) = IF n = "global" THEN GlobalTtl ELSE PanelTtl
  /\ \A k \in OverviewKeys \cup PanelKeys : Ttl(k) \in Lives
<1>1. \A u \in User : Ttl(OverviewKey(u)) = OverviewTtl
  BY Keys DEF Ttl
<1>2. \A u \in User, n \in Memoised : Ttl(PanelKey(u, n)) = IF n = "global" THEN GlobalTtl ELSE PanelTtl
  BY Keys DEF Ttl
<1>3. \A k \in OverviewKeys \cup PanelKeys : Ttl(k) \in Lives
  BY Keys, Numbers DEF Ttl, Lives, Memoised
<1> QED
  BY <1>1, <1>2, <1>3

LEMMA PanelTypes ==
  /\ \A n \in {"visible", "global", "sectors", "distributor"} :
       ThePanel(n) \in Panel /\ ThePanel(n).name = n
  /\ \A v \in User : Personal(v) \in Panel /\ Personal(v).name = "personal"
  /\ \A p \in Panel : p.name \in Memoised => p = ThePanel(p.name)
BY DEF ThePanel, Personal, Panel, Memoised

\* Users of the same roles see everything, or none of them does.
LEMMA SameRoles ==
  ASSUME NEW u \in User, NEW v \in User, RolesOf(u) = RolesOf(v)
  PROVE  CanViewGlobal(u) <=> CanViewGlobal(v)
<1>1. \A w \in User : ("admin" \in RolesOf(w) <=> w \in Admin) /\ ("auditor" \in RolesOf(w) <=> w \in Auditor)
  BY DEF RolesOf
<1> QED
  BY <1>1 DEF CanViewGlobal

\* An overview is shared among those who see everything, or not at all.
LEMMA SharedOverview ==
  ASSUME NEW u \in User, NEW v \in User, OverviewKey(u) = OverviewKey(v)
  PROVE  u = v \/ CanViewGlobal(v)
<1>1. OverviewKey(u).roles = RolesOf(u) /\ OverviewKey(v).roles = RolesOf(v)
  BY DEF OverviewKey
<1>2. /\ OverviewKey(u).who = IF CanViewGlobal(u) THEN "global" ELSE u
      /\ OverviewKey(v).who = IF CanViewGlobal(v) THEN "global" ELSE v
  BY DEF OverviewKey
<1>3. RolesOf(u) = RolesOf(v)
  BY <1>1
<1> QED
  BY <1>2, <1>3, SameRoles

LEMMA GlobalSees == \A u, v : CanViewGlobal(u) => SeenBy(u, v)
BY DEF SeenBy, Visible
-----------------------------------------------------------------------------
(* Panels computed now                                                     *)

LEMMA ComputedType ==
  ASSUME row \in [Ticket -> Row], NEW u \in User, NEW p \in Panel
  PROVE  /\ Computed(u, p) \in Value /\ Computed(u, p).rows = RowsOf(u, p)
         /\ Computed(u, p).age = 0 /\ Computed(u, p) # Nothing
<1>1. Live \subseteq Row
  BY DEF Live
<1>2. p.name \in {"personal", "sector", "visible", "global", "sectors", "distributor"}
  BY DEF Panel
<1>3. RowsOf(u, p) \subseteq Live
  BY <1>2 DEF RowsOf, PersonalRows, VisibleRows, SectorRows, DistributorRows, GlobalRows
<1>4. RowsOf(u, p) \in SUBSET Row
  BY <1>1, <1>3
<1> QED
  BY <1>4, MonitorAssumption DEF Computed, Value, Nothing

\* The live panels of a user's endpoints range over tickets he may see.
LEMMA LiveSeen ==
  ASSUME NEW u \in User, NEW p,
         \/ \E v \in User : p = Personal(v)
         \/ p = ThePanel("visible")
         \/ \E s \in Sector : p = [name |-> "sector", scope |-> s] /\ CanViewSector(u, s)
  PROVE  \A x \in RowsOf(u, p) : Visible(u, x)
<1>1. CASE \E v \in User : p = Personal(v)
  BY <1>1 DEF Personal, RowsOf, PersonalRows, VisibleRows
<1>2. CASE p = ThePanel("visible")
  BY <1>2 DEF ThePanel, RowsOf, VisibleRows
<1>3. ASSUME NEW s \in Sector, p = [name |-> "sector", scope |-> s], CanViewSector(u, s)
      PROVE  \A x \in RowsOf(u, p) : Visible(u, x)
  <2>1. RowsOf(u, p) = SectorRows({s})
    BY <1>3 DEF RowsOf
  <2> QED
    BY <1>3, <2>1 DEF SectorRows, CanViewSector, Visible
<1> QED
  BY <1>1, <1>2, <1>3

\* A memoised panel ranges over tickets that all who share its key may see.
LEMMA MemoisedShared ==
  ASSUME row \in [Ticket -> Row], NEW u \in User, NEW n \in Memoised, MaySee(u, n)
  PROVE  Shared(PanelKey(u, n), Computed(u, ThePanel(n)))
<1> SUFFICES ASSUME NEW v \in User, NEW m \in Memoised, MaySee(v, m), PanelKey(v, m) = PanelKey(u, n)
             PROVE  SeenBy(v, Computed(u, ThePanel(n)))
  BY DEF Shared
<1>1. m = n
  BY DEF PanelKey
<1>2. ThePanel(n) \in Panel /\ ThePanel(n).name = n
  BY PanelTypes DEF Memoised
<1>3. Computed(u, ThePanel(n)).rows = RowsOf(u, ThePanel(n))
  BY <1>2, ComputedType
<1>4. CASE CanViewGlobal(v)
  BY <1>4, GlobalSees
<1>5. CASE n = "distributor" /\ v \in Distributor
  <2>1. RowsOf(u, ThePanel(n)) = DistributorRows
    BY <1>2, <1>5 DEF RowsOf
  <2> QED
    BY <1>3, <1>5, <2>1 DEF SeenBy, DistributorRows, Visible
<1>6. CASE n = "sectors" /\ ~CanViewGlobal(v)
  <2>1. RowsOf(u, ThePanel(n)) = SectorRows(SectorsOf(u))
    BY <1>2, <1>6 DEF RowsOf
  <2>2. PanelKey(v, n).who = "sectors" /\ PanelKey(v, n).sectors = AllSectors(v)
    BY <1>6 DEF PanelKey
  <2>3. ~CanViewGlobal(u) /\ PanelKey(u, n).sectors = AllSectors(u)
    BY <1>1, <1>6, <2>2 DEF PanelKey
  <2>4. SectorsOf(u) = AllSectors(v)
    BY <1>1, <2>2, <2>3 DEF SectorsOf
  <2> QED
    BY <1>3, <2>1, <2>4 DEF SeenBy, SectorRows, Visible
<1> QED
  BY <1>1, <1>4, <1>5, <1>6 DEF MaySee
-----------------------------------------------------------------------------
(* Requests                                                                *)

LEMMA GoodIdle == GoodReq(Idle)
<1>1. /\ Idle.user = NoUser /\ Idle.todo = <<>> /\ Idle.waited = 0 /\ Idle.fresh = Nothing
      /\ Idle.got = <<>> /\ Idle.redis = TRUE /\ Idle.whole = FALSE
  BY DEF Idle
<1>2. Idle \in Reqs
  BY NoGots, EmptySeq DEF Idle, Reqs
<1> QED
  BY <1>1, <1>2, NoGots, Numbers DEF GoodReq

\* The request slot r takes q; the rest follows from what happens to the answer
\* and the cache.
LEMMA Slots ==
  ASSUME Inv, NEW r \in Request, NEW q, GoodReq(q), req' = [req EXCEPT ![r] = q],
         UNCHANGED row, GoodAnswer(answer'),
         \A k \in DOMAIN cache' : GoodPanel(k, cache'[k]) \/ GoodOverview(k, cache'[k])
  PROVE  Inv'
<1>1. q \in Reqs
  BY DEF GoodReq
<1>2. req' \in [Request -> Reqs] /\ \A x \in Request : req'[x] = IF x = r THEN q ELSE req[x]
  BY <1>1 DEF Inv
<1>3. \A x \in Request : GoodReq(req'[x])
  BY <1>2 DEF Inv
<1> QED
  BY <1>2, <1>3 DEF Inv

LEMMA GoodNoAnswer == GoodAnswer(NoAnswer)
<1>1. NoAnswer.got = <<>> /\ NoAnswer \in Answers
  BY NoGots DEF NoAnswer, Answers
<1> QED
  BY <1>1, NoGots DEF GoodAnswer

\* The sections of an overview are panels of its user.
LEMMA SectionsType ==
  ASSUME NEW u \in User
  PROVE  /\ Sections(u) \in Seq(Panel)
         /\ \A i \in 1 .. Len(Sections(u)) :
              Sections(u)[i].name \in Memoised /\ MaySee(u, Sections(u)[i].name)
<1> DEFINE G == ThePanel("global")
           S == ThePanel("sectors")
           D == ThePanel("distributor")
           Good(p) == p \in Panel /\ p.name \in Memoised /\ MaySee(u, p.name)
<1>1. Good(S) /\ (CanViewGlobal(u) => Good(G)) /\ (u \in Distributor \cup Admin => Good(D))
  BY PanelTypes DEF Memoised, MaySee, CanViewGlobal
<1> HIDE DEF G, S, D, Good
<1>2. Sections(u) = (IF CanViewGlobal(u) THEN <<G, S>> ELSE IF AllSectors(u) # {} THEN <<S>> ELSE <<>>)
                      \o (IF u \in Distributor \cup Admin THEN <<D>> ELSE <<>>)
  BY DEF Sections, G, S, D
<1> DEFINE P == {p \in Panel : Good(p)}
           A == IF CanViewGlobal(u) THEN <<G, S>> ELSE IF AllSectors(u) # {} THEN <<S>> ELSE <<>>
           B == IF u \in Distributor \cup Admin THEN <<D>> ELSE <<>>
<1>3. S \in P /\ (CanViewGlobal(u) => G \in P) /\ (u \in Distributor \cup Admin => D \in P)
  BY <1>1 DEF Good
<1> HIDE DEF P
<1>4. A \in Seq(P) /\ B \in Seq(P)
  BY <1>3
<1> HIDE DEF A, B
<1>5. Sections(u) = A \o B
  BY <1>2 DEF A, B
<1>6. Sections(u) \in Seq(P)
  BY <1>4, <1>5
<1>7. Sections(u) \in Seq(Panel)
  BY <1>6 DEF P
<1> QED
  BY <1>6, <1>7 DEF P, Good

\* A request begins.
LEMMA BeginStep ==
  ASSUME Inv, NEW r \in Request, NEW u \in User, NEW live \in SUBSET Panel, NEW todo \in Seq(Panel),
         NEW whole \in BOOLEAN, NEW redis \in BOOLEAN,
         \A p \in live : \A x \in RowsOf(u, p) : Visible(u, x),
         \A i \in 1 .. Len(todo) : todo[i].name \in Memoised /\ MaySee(u, todo[i].name),
         Begin(r, u, live, todo, whole, redis), UNCHANGED <<row, cache>>
  PROVE  Inv'
<1> DEFINE got == [p \in live |-> Computed(u, p)]
           q == [Idle EXCEPT !.user = u, !.redis = redis, !.todo = todo, !.whole = whole, !.got = got]
<1>1. /\ got \in Gots /\ DOMAIN got = live
      /\ \A p \in live : SeenBy(u, got[p]) /\ got[p].age = 0
  <2>1. \A p \in live : /\ Computed(u, p) \in Value /\ Computed(u, p).rows = RowsOf(u, p)
                        /\ Computed(u, p).age = 0
    BY ComputedType DEF Inv
  <2> QED
    BY <2>1 DEF Gots, SeenBy
<1> HIDE DEF got
<1>2. req' = [req EXCEPT ![r] = q] /\ answer' = NoAnswer
  BY Zenon DEF Begin, got
<1>3. q \in Reqs /\ q.user = u /\ q.todo = todo /\ q.got = got /\ q.fresh = Nothing /\ q.waited = 0
  <2>1. Idle \in Reqs
    BY GoodIdle DEF GoodReq
  <2>2. Idle.fresh = Nothing /\ Idle.waited = 0
    BY DEF Idle
  <2> QED
    BY <1>1, <2>1, <2>2 DEF Reqs
<1> HIDE DEF q
<1>4. GoodReq(q)
  BY <1>1, <1>3, Extras, Numbers, MonitorAssumption DEF GoodReq
<1> QED
  BY <1>2, <1>4, Slots, GoodNoAnswer DEF Inv

\* Somebody is answered.
LEMMA AnswerStep ==
  ASSUME Inv, NEW r \in Request, NEW u \in User, NEW whole \in BOOLEAN, NEW got \in Gots,
         \A p \in DOMAIN got : SeenBy(u, got[p]) /\ got[p].age < Longest(p),
         Answer(r, u, whole, got), UNCHANGED row,
         \A k \in DOMAIN cache' : GoodPanel(k, cache'[k]) \/ GoodOverview(k, cache'[k])
  PROVE  Inv'
<1> DEFINE a == [to |-> u, whole |-> whole, got |-> got]
<1>1. a \in Answers /\ a.to = u /\ a.got = got
  BY DEF Answers
<1>2. answer' = a /\ req' = [req EXCEPT ![r] = Idle]
  BY DEF Answer
<1> HIDE DEF a
<1>3. GoodAnswer(a)
  BY <1>1 DEF GoodAnswer
<1> QED
  BY <1>2, <1>3, Slots, GoodIdle

LEMMA OverviewStep ==
  ASSUME Inv, NEW r \in Request, NEW u \in User, Overview(r, u)
  PROVE  Inv'
<1>0. UNCHANGED <<row, cache>>
  BY DEF Overview
<1>1. PICK redis \in BOOLEAN :
         IF redis /\ OverviewKey(u) \in DOMAIN cache
         THEN Answer(r, u, TRUE, cache[OverviewKey(u)].value)
         ELSE Begin(r, u, {Personal(u), ThePanel("visible")}, Sections(u), TRUE, redis)
  BY DEF Overview
<1>2. CASE redis /\ OverviewKey(u) \in DOMAIN cache
  <2> DEFINE e == cache[OverviewKey(u)]
  <2>1. GoodOverview(OverviewKey(u), e)
    BY <1>2, Keys DEF Inv, GoodPanel
  <2>2. e.value \in Gots /\ e.left \in Nat /\ e.left > 0
    BY <2>1 DEF GoodOverview, OverviewEntry, Lives
  <2> HIDE DEF e
  <2>3. \A p \in DOMAIN e.value : SeenBy(u, e.value[p]) /\ e.value[p].age < Longest(p)
    <3> TAKE p \in DOMAIN e.value
    <3>1. e.value[p].age \in Nat
      BY <2>2, GotsAre DEF Value
    <3>2. SeenBy(u, e.value[p]) /\ e.value[p].age + e.left <= Patience + Extra(p) + OverviewTtl
      BY <2>1 DEF GoodOverview
    <3> QED
      BY <2>2, <3>1, <3>2, Extras, Numbers
  <2>4. Answer(r, u, TRUE, e.value)
    BY <1>1, <1>2 DEF e
  <2> QED
    BY <1>0, <2>2, <2>3, <2>4, AnswerStep DEF Inv
<1>3. CASE ~(redis /\ OverviewKey(u) \in DOMAIN cache)
  <2>1. Begin(r, u, {Personal(u), ThePanel("visible")}, Sections(u), TRUE, redis)
    BY <1>1, <1>3
  <2>2. {Personal(u), ThePanel("visible")} \in SUBSET Panel
    BY PanelTypes
  <2>3. \A p \in {Personal(u), ThePanel("visible")} : \A x \in RowsOf(u, p) : Visible(u, x)
    BY LiveSeen
  <2>4. TRUE \in BOOLEAN
    OBVIOUS
  <2> QED
    BY <1>0, <2>1, <2>2, <2>3, <2>4, SectionsType, BeginStep
<1> QED
  BY <1>2, <1>3

LEMMA SingleStep ==
  ASSUME Inv, NEW r \in Request, NEW u \in User, Single(r, u)
  PROVE  Inv'
<1>0. UNCHANGED <<row, cache>>
  BY DEF Single
<1>1. PICK p \in Allowed(u), redis \in BOOLEAN :
         IF p.name \in Memoised THEN Begin(r, u, {}, <<p>>, FALSE, redis)
                                ELSE Begin(r, u, {p}, <<>>, FALSE, TRUE)
  BY DEF Single
<1>2. \/ \E v \in User : p = Personal(v)
      \/ p = ThePanel("visible")
      \/ \E s \in Sector : p = [name |-> "sector", scope |-> s] /\ CanViewSector(u, s)
      \/ \E n \in Memoised : p = ThePanel(n) /\ MaySee(u, n)
  BY DEF Allowed, Memoised, MaySee, CanViewGlobal
<1>3. p \in Panel
  <2>1. \A s \in Sector : [name |-> "sector", scope |-> s] \in Panel
    BY DEF Panel
  <2> QED
    BY <1>2, <2>1, PanelTypes DEF Memoised
<1>4. CASE p.name \in Memoised
  <2>1. MaySee(u, p.name)
    <3>1. \A s \in Sector : [name |-> "sector", scope |-> s].name = "sector"
      OBVIOUS
    <3>2. "sector" \notin Memoised /\ "personal" \notin Memoised /\ "visible" \notin Memoised
      BY DEF Memoised
    <3> QED
      BY <1>2, <1>4, <3>1, <3>2, PanelTypes DEF Memoised
  <2>2. <<p>> \in Seq(Panel) /\ \A i \in 1 .. Len(<<p>>) : <<p>>[i] = p
    BY <1>3
  <2>3. Begin(r, u, {}, <<p>>, FALSE, redis)
    BY <1>1, <1>4
  <2>4. {} \in SUBSET Panel /\ FALSE \in BOOLEAN
    OBVIOUS
  <2>5. \A i \in 1 .. Len(<<p>>) : <<p>>[i].name \in Memoised /\ MaySee(u, <<p>>[i].name)
    BY <1>4, <2>1, <2>2
  <2>6. \A x \in {} : \A y \in RowsOf(u, x) : Visible(u, y)
    OBVIOUS
  <2> DEFINE todo == <<p>>
  <2> HIDE DEF todo
  <2>7. /\ todo \in Seq(Panel) /\ Begin(r, u, {}, todo, FALSE, redis)
        /\ \A i \in 1 .. Len(todo) : todo[i].name \in Memoised /\ MaySee(u, todo[i].name)
    BY <2>2, <2>3, <2>5 DEF todo
  <2> QED
    BY <1>0, <2>4, <2>6, <2>7, BeginStep
<1>5. CASE p.name \notin Memoised
  <2>1. \A x \in RowsOf(u, p) : Visible(u, x)
    <3>1. \A n \in Memoised : ThePanel(n).name = n
      BY PanelTypes DEF Memoised
    <3> QED
      BY <1>2, <1>5, <3>1, LiveSeen
  <2>2. Begin(r, u, {p}, <<>>, FALSE, TRUE)
    BY <1>1, <1>5
  <2>3. {p} \in SUBSET Panel /\ FALSE \in BOOLEAN /\ TRUE \in BOOLEAN
    BY <1>3
  <2> DEFINE todo == <<>>
  <2>4. todo \in Seq(Panel) /\ Len(todo) = 0
    OBVIOUS
  <2>5. \A i \in 1 .. Len(todo) : todo[i].name \in Memoised /\ MaySee(u, todo[i].name)
    BY <2>4
  <2> HIDE DEF todo
  <2>6. Begin(r, u, {p}, todo, FALSE, TRUE)
    BY <2>2 DEF todo
  <2>7. \A y \in {p} : \A x \in RowsOf(u, y) : Visible(u, x)
    BY <2>1
  <2> QED
    BY <1>0, <2>3, <2>4, <2>5, <2>6, <2>7, BeginStep
<1> QED
  BY <1>4, <1>5
-----------------------------------------------------------------------------
(* A request goes on                                                       *)

\* What a request at work is about.
LEMMA AtWork ==
  ASSUME Inv, NEW r \in Request, req[r].todo # <<>>
  PROVE  LET q == req[r] p == Head(q.todo) IN
         /\ GoodReq(q) /\ q \in Reqs /\ q.user \in User
         /\ p \in Panel /\ p = q.todo[1] /\ p.name \in Memoised /\ MaySee(q.user, p.name)
         /\ p = ThePanel(p.name) /\ PanelKey(q.user, p.name) \in PanelKeys
         /\ Ttl(PanelKey(q.user, p.name)) = IF p.name = "global" THEN GlobalTtl ELSE PanelTtl
         /\ Tail(q.todo) \in Seq(Panel)
         /\ \A i \in 1 .. Len(Tail(q.todo)) :
              Tail(q.todo)[i].name \in Memoised /\ MaySee(q.user, Tail(q.todo)[i].name)
<1> DEFINE q == req[r]
           p == Head(q.todo)
<1>1. GoodReq(q) /\ q \in Reqs
  BY DEF Inv, GoodReq
<1>2. q.user \in User /\ q.todo \in Seq(Panel) /\ q.todo # <<>>
  BY <1>1 DEF GoodReq, Reqs
<1>3. /\ p \in Panel /\ p = q.todo[1] /\ Len(q.todo) \in Nat /\ Len(q.todo) >= 1
      /\ Tail(q.todo) \in Seq(Panel) /\ Len(Tail(q.todo)) = Len(q.todo) - 1
      /\ \A i \in 1 .. Len(Tail(q.todo)) : Tail(q.todo)[i] = q.todo[i + 1]
  BY <1>2
<1>4. \A i \in 1 .. Len(q.todo) : q.todo[i].name \in Memoised /\ MaySee(q.user, q.todo[i].name)
  BY <1>1 DEF GoodReq
<1>5. p.name \in Memoised /\ MaySee(q.user, p.name)
  BY <1>3, <1>4
<1>6. \A i \in 1 .. Len(Tail(q.todo)) :
        Tail(q.todo)[i].name \in Memoised /\ MaySee(q.user, Tail(q.todo)[i].name)
  BY <1>3, <1>4
<1>7. p = ThePanel(p.name)
  BY <1>3, <1>5, PanelTypes
<1>8. /\ PanelKey(q.user, p.name) \in PanelKeys
      /\ Ttl(PanelKey(q.user, p.name)) = IF p.name = "global" THEN GlobalTtl ELSE PanelTtl
  BY <1>2, <1>5, Keys, Lifetimes
<1> HIDE DEF q, p
<1> QED
  BY <1>1, <1>2, <1>3, <1>5, <1>6, <1>7, <1>8 DEF q, p

\* The next panel is got.
LEMMA GotGood ==
  ASSUME Inv, NEW r \in Request, req[r].todo # <<>>,
         NEW v \in Value, SeenBy(req[r].user, v),
         v.age <= req[r].waited + Extra(Head(req[r].todo))
  PROVE  GoodReq(Got(req[r], v))
<1> DEFINE q == req[r]
           p == Head(q.todo)
           got == [x \in DOMAIN q.got \cup {p} |-> IF x = p THEN v ELSE q.got[x]]
           new == [q EXCEPT !.todo = Tail(q.todo), !.fresh = Nothing, !.got = got]
<1>1. /\ GoodReq(q) /\ q \in Reqs /\ q.user \in User /\ p \in Panel
      /\ Tail(q.todo) \in Seq(Panel)
      /\ \A i \in 1 .. Len(Tail(q.todo)) :
           Tail(q.todo)[i].name \in Memoised /\ MaySee(q.user, Tail(q.todo)[i].name)
  BY AtWork
<1>2. q.got \in Gots /\ q.waited \in Nat
  BY <1>1 DEF Reqs
<1>3. DOMAIN q.got \subseteq Panel /\ \A x \in DOMAIN q.got : q.got[x] \in Value
  BY <1>2, GotsAre
<1>4. \A x \in DOMAIN q.got : SeenBy(q.user, q.got[x]) /\ q.got[x].age <= q.waited + Extra(x)
  BY <1>1 DEF GoodReq
<1>5. /\ DOMAIN got = DOMAIN q.got \cup {p}
      /\ \A x \in DOMAIN got : got[x] = IF x = p THEN v ELSE q.got[x]
  OBVIOUS
<1>6. got \in Gots
  <2>1. DOMAIN q.got \cup {p} \in SUBSET Panel
    BY <1>1, <1>3
  <2>2. got \in [DOMAIN q.got \cup {p} -> Value]
    BY <1>3
  <2> QED
    BY <2>1, <2>2 DEF Gots
<1>7. Got(q, v) = new
  BY Zenon DEF Got
<1> HIDE DEF got
<1>8. /\ new \in Reqs /\ new.user = q.user /\ new.todo = Tail(q.todo) /\ new.got = got
      /\ new.fresh = Nothing /\ new.waited = q.waited
  BY <1>1, <1>6 DEF Reqs
<1> HIDE DEF new
<1>9. \A x \in DOMAIN got : SeenBy(q.user, got[x]) /\ got[x].age <= q.waited + Extra(x)
  BY <1>4, <1>5
<1>10. q.user # NoUser /\ q.waited <= Patience
  BY <1>1, MonitorAssumption DEF GoodReq
<1>11. GoodReq(new)
  BY <1>1, <1>8, <1>9, <1>10 DEF GoodReq
<1> QED
  BY <1>7, <1>11

LEMMA ReadStep ==
  ASSUME Inv, NEW r \in Request, ReadPanel(r)
  PROVE  Inv'
<1> DEFINE q == req[r]
           p == Head(q.todo)
           key == PanelKey(q.user, p.name)
<1>1. /\ q.todo # <<>> /\ answer' = NoAnswer /\ UNCHANGED <<row, cache>>
      /\ req' = [req EXCEPT ![r] = IF q.redis /\ key \in DOMAIN cache THEN Got(q, cache[key].value)
                                   ELSE [q EXCEPT !.fresh = Computed(q.user, p)]]
  BY Zenon DEF ReadPanel
<1>2. /\ GoodReq(q) /\ q \in Reqs /\ q.user \in User
      /\ p \in Panel /\ p = q.todo[1] /\ p.name \in Memoised /\ MaySee(q.user, p.name)
      /\ p = ThePanel(p.name) /\ key \in PanelKeys
      /\ Ttl(key) = IF p.name = "global" THEN GlobalTtl ELSE PanelTtl
  BY <1>1, AtWork
<1>3. CASE q.redis /\ key \in DOMAIN cache
  <2> DEFINE e == cache[key]
  <2>1. GoodPanel(key, e)
    BY <1>2, <1>3, Keys DEF Inv, GoodOverview
  <2>3. SeenBy(q.user, e.value)
    BY <1>2, <2>1 DEF GoodPanel, Shared
  <2>2. /\ e.value \in Value /\ e.value.age \in Nat /\ e.left \in Nat /\ e.left > 0
        /\ e.value.age + e.left <= Patience + Ttl(key)
    <3>1. e \in PanelEntry /\ e.value.age + e.left <= Patience + Ttl(key)
      BY <2>1 DEF GoodPanel
    <3> HIDE DEF e
    <3>2. e.value \in Value /\ e.left \in Lives
      BY <3>1 DEF PanelEntry
    <3> QED
      BY <3>1, <3>2 DEF Value, Lives
  <2>4. Extra(p) = Patience + Ttl(key) - 1
    BY <1>2 DEF Extra
  <2>5. q.waited \in Nat
    BY <1>2 DEF Reqs
  <2>6. Ttl(key) \in Nat
    BY <1>2, Numbers
  <2>7. e.value.age <= q.waited + Extra(p)
    <3> HIDE DEF e, key, p, q
    <3>1. Patience \in Nat /\ Extra(p) \in Nat
      BY Numbers, Extras
    <3>2. e.value.age + e.left <= Extra(p) + 1
      BY <2>2, <2>4, <2>6, <3>1
    <3>3. e.value.age <= Extra(p)
      BY <2>2, <3>1, <3>2
    <3> QED
      BY <2>2, <2>5, <3>1, <3>3
  <2>8. GoodReq(Got(q, e.value))
    BY <1>1, <2>2, <2>3, <2>7, GotGood
  <2>9. req' = [req EXCEPT ![r] = Got(q, e.value)]
    BY <1>1, <1>3
  <2> QED
    BY <1>1, <2>8, <2>9, Slots, GoodNoAnswer DEF Inv
<1>4. CASE ~(q.redis /\ key \in DOMAIN cache)
  <2> DEFINE v == Computed(q.user, p)
             new == [q EXCEPT !.fresh = v]
  <2>1. v \in Value /\ v.age = 0
    BY <1>2, ComputedType DEF Inv
  <2>2. Shared(key, v)
    <3>1. Shared(key, Computed(q.user, ThePanel(p.name)))
      BY <1>2, MemoisedShared DEF Inv
    <3> QED
      BY <1>2, <3>1
  <2>3. req' = [req EXCEPT ![r] = new]
    BY <1>1, <1>4
  <2> HIDE DEF v
  <2>4. /\ new \in Reqs /\ new.user = q.user /\ new.todo = q.todo /\ new.got = q.got
        /\ new.fresh = v /\ new.waited = q.waited
    BY <1>2, <2>1 DEF Reqs
  <2>5. q.waited \in Nat
    BY <1>2 DEF Reqs
  <2> HIDE DEF new
  <2>6. GoodReq(new)
    BY <1>2, <2>1, <2>2, <2>4, <2>5 DEF GoodReq
  <2> QED
    BY <1>1, <2>3, <2>6, Slots, GoodNoAnswer DEF Inv
<1> QED
  BY <1>3, <1>4

\* A cache with one entry replaced.
LEMMA SetexGood ==
  ASSUME Inv, NEW key, NEW value,
         LET e == [value |-> value, left |-> Ttl(key)] IN GoodPanel(key, e) \/ GoodOverview(key, e),
         NEW c, c = Setex(key, value)
  PROVE  \A k \in DOMAIN c : GoodPanel(k, c[k]) \/ GoodOverview(k, c[k])
BY DEF Inv, Setex

LEMMA MemoiseStep ==
  ASSUME Inv, NEW r \in Request, Memoise(r)
  PROVE  Inv'
<1> DEFINE q == req[r]
           p == Head(q.todo)
           key == PanelKey(q.user, p.name)
           e == [value |-> q.fresh, left |-> Ttl(key)]
<1>1. /\ q.todo # <<>> /\ q.fresh # Nothing /\ answer' = NoAnswer /\ UNCHANGED row
      /\ cache' = IF q.redis THEN Setex(key, q.fresh) ELSE cache
      /\ req' = [req EXCEPT ![r] = Got(q, q.fresh)]
  BY DEF Memoise
<1>2. /\ GoodReq(q) /\ q \in Reqs /\ q.user \in User
      /\ p \in Panel /\ p = q.todo[1] /\ p.name \in Memoised /\ MaySee(q.user, p.name)
      /\ key \in PanelKeys
      /\ Ttl(key) = IF p.name = "global" THEN GlobalTtl ELSE PanelTtl
  BY <1>1, AtWork
<1>3. q.fresh \in Value /\ q.fresh.age \in Nat /\ q.waited \in Nat
  BY <1>1, <1>2 DEF Reqs, Value
<1>4. Shared(key, q.fresh) /\ q.fresh.age <= q.waited /\ q.waited <= Patience
  BY <1>1, <1>2 DEF GoodReq
<1>5. SeenBy(q.user, q.fresh)
  BY <1>2, <1>4 DEF Shared
<1>6. Ttl(key) \in Lives
  BY <1>2, Lifetimes
<1>7. e \in PanelEntry /\ e.value = q.fresh /\ e.left = Ttl(key)
  BY <1>3, <1>6 DEF PanelEntry
<1>8. GoodPanel(key, e)
  BY <1>2, <1>3, <1>4, <1>6, <1>7, Numbers DEF GoodPanel, Lives
<1>9. GoodReq(Got(q, q.fresh))
  BY <1>1, <1>2, <1>3, <1>4, <1>5, GotGood, Extras
<1>10. \A k \in DOMAIN cache' : GoodPanel(k, cache'[k]) \/ GoodOverview(k, cache'[k])
  BY <1>1, <1>8, SetexGood DEF Inv
<1> QED
  BY <1>1, <1>9, <1>10, Slots, GoodNoAnswer

LEMMA ReplyStep ==
  ASSUME Inv, NEW r \in Request, Reply(r)
  PROVE  Inv'
<1> DEFINE q == req[r]
           key == OverviewKey(q.user)
           e == [value |-> q.got, left |-> Ttl(key)]
<1>1. /\ q.user # NoUser /\ UNCHANGED row /\ Answer(r, q.user, q.whole, q.got)
      /\ cache' = IF q.whole /\ q.redis THEN Setex(key, q.got) ELSE cache
  BY DEF Reply
<1>2. GoodReq(q) /\ q \in Reqs
  BY DEF Inv, GoodReq
<1>3. q.user \in User /\ q.got \in Gots /\ q.whole \in BOOLEAN /\ q.waited \in Nat /\ q.waited <= Patience
  BY <1>1, <1>2 DEF Reqs, GoodReq
<1>4. \A p \in DOMAIN q.got : /\ q.got[p] \in Value /\ q.got[p].age \in Nat
                              /\ SeenBy(q.user, q.got[p]) /\ q.got[p].age <= Patience + Extra(p)
  <2> TAKE p \in DOMAIN q.got
  <2>1. q.got[p] \in Value /\ q.got[p].age \in Nat
    BY <1>3, GotsAre DEF Value
  <2>2. SeenBy(q.user, q.got[p]) /\ q.got[p].age <= q.waited + Extra(p)
    BY <1>2 DEF GoodReq
  <2> QED
    BY <1>3, <2>1, <2>2, Extras, Numbers
<1>5. key \in OverviewKeys /\ Ttl(key) = OverviewTtl /\ OverviewTtl \in Lives
  BY <1>3, Keys, Lifetimes
<1>6. e \in OverviewEntry /\ e.value = q.got /\ e.left = OverviewTtl
  BY <1>3, <1>5 DEF OverviewEntry
<1> HIDE DEF e
<1>7. GoodOverview(key, e)
  <2>1. ASSUME NEW p \in DOMAIN e.value
        PROVE  /\ \A u \in User : OverviewKey(u) = key => SeenBy(u, e.value[p])
               /\ e.value[p].age + e.left <= Patience + Extra(p) + OverviewTtl
    <3>1. ASSUME NEW u \in User, OverviewKey(u) = key
          PROVE  SeenBy(u, e.value[p])
      <4>1. q.user = u \/ CanViewGlobal(u)
        BY <1>3, <3>1, SharedOverview
      <4> QED
        BY <1>4, <1>6, <2>1, <4>1, GlobalSees
    <3>2. e.value[p].age + e.left <= Patience + Extra(p) + OverviewTtl
      BY <1>4, <1>6, <2>1, Extras, Numbers
    <3> QED
      BY <3>1, <3>2
  <2> QED
    BY <1>5, <1>6, <2>1 DEF GoodOverview
<1>8. \A k \in DOMAIN cache' : GoodPanel(k, cache'[k]) \/ GoodOverview(k, cache'[k])
  BY <1>1, <1>7, SetexGood DEF Inv, e
<1>9. \A p \in DOMAIN q.got : SeenBy(q.user, q.got[p]) /\ q.got[p].age < Longest(p)
  <2> TAKE p \in DOMAIN q.got
  <2>1. /\ q.got[p].age \in Nat /\ SeenBy(q.user, q.got[p]) /\ q.got[p].age <= Patience + Extra(p)
    BY <1>4
  <2> QED
    BY <2>1, Extras, Numbers
<1> QED
  BY <1>1, <1>3, <1>8, <1>9, AnswerStep

-----------------------------------------------------------------------------
(* The rest of the system                                                  *)

LEMMA MovedType ==
  ASSUME NEW x \in Row
  PROVE  Routed(x) \cup Assigned(x) \cup Driven(x) \cup {[x EXCEPT !.deleted = TRUE]} \subseteq Row
<1>1. /\ x.sectors \in SUBSET Sector /\ x.status \in Statuses
      /\ "assigned_to_sector" \in Statuses /\ "in_progress" \in Statuses
      /\ "done" \in Statuses /\ "cancelled" \in Statuses
  BY DEF Row, Statuses
<1>2. Routed(x) \subseteq Row
  <2>1. \A s \in Sector : x.sectors \cup {s} \in SUBSET Sector /\ x.sectors \ {s} \in SUBSET Sector
    BY <1>1
  <2>2. \A s \in Sector : [x EXCEPT !.status = "assigned_to_sector", !.sector = s, !.sectors = x.sectors \cup {s}] \in Row
    BY <1>1, <2>1 DEF Row
  <2>3. \A s \in Sector : [x EXCEPT !.sectors = x.sectors \cup {s}] \in Row
    BY <2>1 DEF Row
  <2>4. \A s \in Sector : [x EXCEPT !.sectors = x.sectors \ {s}] \in Row
    BY <2>1 DEF Row
  <2> QED
    BY <2>2, <2>3, <2>4 DEF Routed
<1>3. Assigned(x) \subseteq Row
  <2>1. \A u \in User : [x EXCEPT !.status = "in_progress", !.assignee = u] \in Row
    BY <1>1 DEF Row
  <2>2. \A u \in User : [x EXCEPT !.assignee = u] \in Row
    BY DEF Row
  <2> QED
    BY <2>1, <2>2 DEF Assigned, Takers
<1>4. Driven(x) \subseteq Row
  <2>1. TargetStatus("unassign", x.status, x.status) \in Statuses
    BY <1>1 DEF TargetStatus, Transitions
  <2>2. [x EXCEPT !.status = TargetStatus("unassign", x.status, x.status), !.assignee = NoUser] \in Row
    BY <2>1 DEF Row
  <2>3. \A st \in {"in_progress", "done", "cancelled"} : [x EXCEPT !.status = st] \in Row
    BY <1>1 DEF Row
  <2> QED
    BY <2>2, <2>3 DEF Driven
<1>5. [x EXCEPT !.deleted = TRUE] \in Row
  BY DEF Row
<1> QED
  BY <1>2, <1>3, <1>4, <1>5

LEMMA MovesStep ==
  ASSUME Inv, NEW t \in Ticket, TicketMoves(t)
  PROVE  Inv'
<1>1. row[t] \in Row
  BY DEF Inv
<1>2. PICK x \in Routed(row[t]) \cup Assigned(row[t]) \cup Driven(row[t])
                   \cup {[row[t] EXCEPT !.deleted = TRUE]} : row' = [row EXCEPT ![t] = x]
  BY DEF TicketMoves
<1>3. x \in Row
  BY <1>1, <1>2, MovedType
<1>4. row' \in [Ticket -> Row]
  BY <1>2, <1>3 DEF Inv
<1>5. UNCHANGED <<cache, req>> /\ answer' = NoAnswer
  BY DEF TicketMoves
<1> QED
  BY <1>4, <1>5, GoodNoAnswer DEF Inv

\* A value grows older, and nothing else.
LEMMA OlderValue ==
  ASSUME NEW v \in Value
  PROVE  /\ Older(v) \in Value /\ v.age \in Nat /\ Older(v).age = v.age + 1
         /\ Older(v).rows = v.rows /\ Older(v) # Nothing
<1>1. Older(v) = [v EXCEPT !.age = v.age + 1]
  BY DEF Older
<1>2. v.age \in Nat
  BY DEF Value
<1>3. /\ Older(v) \in Value /\ Older(v).age = v.age + 1
      /\ Older(v).rows = v.rows /\ Older(v).for \in User
  BY <1>1, <1>2 DEF Value
<1>4. Nothing.for = NoUser
  BY DEF Nothing
<1> QED
  BY <1>2, <1>3, <1>4, MonitorAssumption

LEMMA OlderGots ==
  ASSUME NEW g \in Gots
  PROVE  /\ AllOlder(g) \in Gots /\ DOMAIN AllOlder(g) = DOMAIN g
         /\ \A p \in DOMAIN g : /\ AllOlder(g)[p] = Older(g[p]) /\ g[p].age \in Nat
                                /\ AllOlder(g)[p].age = g[p].age + 1
                                /\ \A u : SeenBy(u, g[p]) => SeenBy(u, AllOlder(g)[p])
<1>1. DOMAIN g \subseteq Panel /\ \A p \in DOMAIN g : g[p] \in Value
  BY GotsAre
<1>2. DOMAIN AllOlder(g) = DOMAIN g /\ \A p \in DOMAIN g : AllOlder(g)[p] = Older(g[p])
  BY DEF AllOlder
<1>3. AllOlder(g) \in Gots
  <2>1. AllOlder(g) \in [DOMAIN g -> Value]
    BY <1>1, OlderValue DEF AllOlder
  <2> QED
    BY <1>1, <2>1 DEF Gots
<1>4. ASSUME NEW p \in DOMAIN g
      PROVE  /\ g[p].age \in Nat /\ AllOlder(g)[p].age = g[p].age + 1
             /\ \A u : SeenBy(u, g[p]) => SeenBy(u, AllOlder(g)[p])
  BY <1>1, <1>2, OlderValue DEF SeenBy
<1> QED
  BY <1>2, <1>3, <1>4

\* A request that waits.
LEMMA WaitingGood ==
  ASSUME NEW q, GoodReq(q), q.waited < Patience
  PROVE  GoodReq(Waiting(q))
<1>1. CASE q = Idle
  BY <1>1, GoodIdle DEF Waiting
<1>2. CASE q # Idle
  <2> DEFINE fresh == IF q.fresh = Nothing THEN Nothing ELSE Older(q.fresh)
             got == AllOlder(q.got)
             waited == q.waited + 1
             new == [q EXCEPT !.got = got, !.waited = waited, !.fresh = fresh]
  <2>1. Waiting(q) = new
    BY <1>2, Zenon DEF Waiting
  <2>2. q \in Reqs /\ q.got \in Gots /\ q.waited \in Nat /\ q.fresh \in Value \cup {Nothing}
    BY DEF GoodReq, Reqs
  <2>3. /\ fresh \in Value \cup {Nothing}
        /\ fresh # Nothing => /\ q.fresh # Nothing /\ q.fresh.age \in Nat
                              /\ fresh.age = q.fresh.age + 1 /\ fresh.rows = q.fresh.rows
    BY <2>2, OlderValue
  <2> HIDE DEF fresh
  <2>4. got \in Gots /\ waited \in Nat
    BY <2>2, OlderGots
  <2> HIDE DEF got, waited
  <2>a. /\ new \in Reqs /\ new.user = q.user /\ new.todo = q.todo /\ new.got = got
        /\ new.fresh = fresh /\ new.waited = waited
    BY <2>2, <2>3, <2>4 DEF Reqs
  <2> HIDE DEF new
  <2>5. /\ new \in Reqs /\ new.user = q.user /\ new.todo = q.todo /\ new.got = AllOlder(q.got)
        /\ new.fresh = fresh /\ new.waited = q.waited + 1
    BY <2>a DEF got, waited
  <2>6. new.waited <= Patience
    BY <2>2, <2>5, Numbers
  <2>7. \A p \in DOMAIN new.got : SeenBy(new.user, new.got[p]) /\ new.got[p].age <= new.waited + Extra(p)
    <3> SUFFICES ASSUME NEW p \in DOMAIN new.got
                 PROVE  SeenBy(new.user, new.got[p]) /\ new.got[p].age <= new.waited + Extra(p)
      OBVIOUS
    <3>1. p \in DOMAIN q.got
      BY <2>2, <2>5, OlderGots
    <3>2. /\ SeenBy(q.user, q.got[p]) /\ q.got[p].age <= q.waited + Extra(p)
      BY <3>1 DEF GoodReq
    <3>3. /\ q.got[p].age \in Nat /\ new.got[p].age = q.got[p].age + 1
          /\ SeenBy(new.user, new.got[p])
      BY <2>2, <2>5, <3>1, <3>2, OlderGots
    <3> QED
      BY <2>2, <2>5, <3>2, <3>3, Extras
  <2>8. new.fresh # Nothing => /\ new.fresh.age <= new.waited
                               /\ new.todo # <<>> => Shared(PanelKey(new.user, new.todo[1].name), new.fresh)
    <3> SUFFICES ASSUME new.fresh # Nothing
                 PROVE  /\ new.fresh.age <= new.waited
                        /\ new.todo # <<>> => Shared(PanelKey(new.user, new.todo[1].name), new.fresh)
      OBVIOUS
    <3>1. /\ q.fresh # Nothing /\ q.fresh.age \in Nat
          /\ new.fresh.age = q.fresh.age + 1 /\ new.fresh.rows = q.fresh.rows
      BY <2>3, <2>5
    <3>2. /\ q.fresh.age <= q.waited
          /\ q.todo # <<>> => Shared(PanelKey(q.user, q.todo[1].name), q.fresh)
      BY <3>1 DEF GoodReq
    <3>3. new.fresh.age <= new.waited
      BY <2>2, <2>5, <3>1, <3>2
    <3> QED
      BY <2>5, <3>1, <3>2, <3>3 DEF Shared, SeenBy
  <2> QED
    BY <2>1, <2>5, <2>6, <2>7, <2>8 DEF GoodReq
<1> QED
  BY <1>1, <1>2

\* A cache entry that survives.
LEMMA AgedGood ==
  ASSUME NEW k, NEW e, e.left > 1, GoodPanel(k, e) \/ GoodOverview(k, e)
  PROVE  GoodPanel(k, Aged(k, e)) \/ GoodOverview(k, Aged(k, e))
<1>1. CASE GoodPanel(k, e)
  <2>1. /\ k \in PanelKeys /\ k.ns # "overview" /\ e \in PanelEntry /\ Shared(k, e.value)
        /\ e.value.age + e.left <= Patience + Ttl(k)
    BY <1>1, Keys DEF GoodPanel
  <2>2. e.value \in Value /\ e.left \in Nat /\ e.left - 1 \in Lives
    BY <2>1 DEF PanelEntry, Lives
  <2>3. Aged(k, e) = [value |-> Older(e.value), left |-> e.left - 1]
    BY <2>1 DEF Aged
  <2>4. Aged(k, e) \in PanelEntry /\ Aged(k, e).value = Older(e.value) /\ Aged(k, e).left = e.left - 1
    BY <2>2, <2>3, OlderValue DEF PanelEntry
  <2>5. Shared(k, Older(e.value))
    BY <2>1, <2>2, OlderValue DEF Shared, SeenBy
  <2>6. Older(e.value).age = e.value.age + 1 /\ e.value.age \in Nat
    BY <2>2, OlderValue
  <2>7. Older(e.value).age + (e.left - 1) = e.value.age + e.left
    BY <2>2, <2>6
  <2> QED
    BY <2>1, <2>4, <2>5, <2>7 DEF GoodPanel
<1>2. CASE GoodOverview(k, e)
  <2>1. /\ k \in OverviewKeys /\ k.ns = "overview" /\ e \in OverviewEntry
        /\ \A p \in DOMAIN e.value :
             /\ \A u \in User : OverviewKey(u) = k => SeenBy(u, e.value[p])
             /\ e.value[p].age + e.left <= Patience + Extra(p) + OverviewTtl
    BY <1>2, Keys DEF GoodOverview
  <2>2. e.value \in Gots /\ e.left \in Nat /\ e.left - 1 \in Lives
    BY <2>1 DEF OverviewEntry, Lives
  <2>3. Aged(k, e) = [value |-> AllOlder(e.value), left |-> e.left - 1]
    BY <2>1 DEF Aged
  <2>4. Aged(k, e) \in OverviewEntry /\ Aged(k, e).value = AllOlder(e.value) /\ Aged(k, e).left = e.left - 1
    BY <2>2, <2>3, OlderGots DEF OverviewEntry
  <2> DEFINE g == AllOlder(e.value)
  <2>5. DOMAIN g = DOMAIN e.value
    BY <2>2, OlderGots
  <2>6. ASSUME NEW p \in DOMAIN e.value
        PROVE  /\ \A u \in User : OverviewKey(u) = k => SeenBy(u, g[p])
               /\ g[p].age + (e.left - 1) <= Patience + Extra(p) + OverviewTtl
    <3>1. /\ e.value[p].age \in Nat /\ g[p].age = e.value[p].age + 1
          /\ \A u : SeenBy(u, e.value[p]) => SeenBy(u, g[p])
      BY <2>2, OlderGots
    <3>2. g[p].age + (e.left - 1) = e.value[p].age + e.left
      BY <2>2, <3>1
    <3> QED
      BY <2>1, <3>1, <3>2
  <2> HIDE DEF g
  <2>7. Aged(k, e).value = g
    BY <2>4 DEF g
  <2> QED
    BY <2>1, <2>4, <2>5, <2>6, <2>7 DEF GoodOverview
<1> QED
  BY <1>1, <1>2

LEMMA TickStep ==
  ASSUME Inv, Tick
  PROVE  Inv'
<1>1. /\ \A r \in Request : req[r].waited < Patience
      /\ cache' = [k \in Survivors(cache) |-> Aged(k, cache[k])]
      /\ req' = [r \in Request |-> Waiting(req[r])]
      /\ answer' = NoAnswer /\ UNCHANGED row
  BY DEF Tick
<1>2. \A r \in Request : GoodReq(req'[r])
  BY <1>1, WaitingGood DEF Inv
<1>3. req' \in [Request -> Reqs]
  <2>1. \A r \in Request : Waiting(req[r]) \in Reqs
    BY <1>1, WaitingGood DEF Inv, GoodReq
  <2> QED
    BY <1>1, <2>1
<1>4. \A k \in DOMAIN cache' : GoodPanel(k, cache'[k]) \/ GoodOverview(k, cache'[k])
  <2> SUFFICES ASSUME NEW k \in Survivors(cache)
               PROVE  GoodPanel(k, Aged(k, cache[k])) \/ GoodOverview(k, Aged(k, cache[k]))
    BY <1>1
  <2>1. k \in DOMAIN cache /\ cache[k].left > 1
    BY DEF Survivors
  <2>2. GoodPanel(k, cache[k]) \/ GoodOverview(k, cache[k])
    BY <2>1 DEF Inv
  <2> QED
    BY <2>1, <2>2, AgedGood
<1> QED
  BY <1>1, <1>2, <1>3, <1>4, GoodNoAnswer DEF Inv

-----------------------------------------------------------------------------
(* Theorems                                                                *)

LEMMA InitInv == Init => Inv
<1> SUFFICES ASSUME Init PROVE Inv
  OBVIOUS
<1>1. \A t \in Ticket : New(t) \in Row
  BY DEF New, Row, Statuses
<1>2. \A t \in Ticket : Taken(t) \in Row
  <2> TAKE t \in Ticket
  <2>1. Home[t] \in Sector /\ {Home[t]} \in SUBSET Sector /\ Holder[t] \in User /\ "in_progress" \in Statuses
    BY MonitorAssumption DEF Statuses
  <2>2. New(t) \in Row
    BY <1>1
  <2> QED
    BY <2>1, <2>2 DEF Taken, Row
<1>3. row \in [Ticket -> Row]
  BY <1>1, <1>2 DEF Init
<1>4. cache = <<>> /\ req = [r \in Request |-> Idle] /\ answer = NoAnswer
  BY DEF Init
<1>5. Idle \in Reqs
  BY GoodIdle DEF GoodReq
<1>6. \A k \in DOMAIN cache : GoodPanel(k, cache[k]) \/ GoodOverview(k, cache[k])
  BY <1>4, NoGots
<1> QED
  BY <1>3, <1>4, <1>5, <1>6, GoodIdle, GoodNoAnswer DEF Inv

LEMMA InvStep == Inv /\ [Next]_vars => Inv'
<1> SUFFICES ASSUME Inv, [Next]_vars PROVE Inv'
  OBVIOUS
<1>1. ASSUME NEW r \in Request, NEW u \in User, Overview(r, u) PROVE Inv'
  BY <1>1, OverviewStep
<1>2. ASSUME NEW r \in Request, NEW u \in User, Single(r, u) PROVE Inv'
  BY <1>2, SingleStep
<1>3. ASSUME NEW r \in Request, ReadPanel(r) PROVE Inv'
  BY <1>3, ReadStep
<1>4. ASSUME NEW r \in Request, Memoise(r) PROVE Inv'
  BY <1>4, MemoiseStep
<1>5. ASSUME NEW r \in Request, Reply(r) PROVE Inv'
  BY <1>5, ReplyStep
<1>6. ASSUME NEW t \in Ticket, TicketMoves(t) PROVE Inv'
  BY <1>6, MovesStep
<1>7. CASE Tick
  BY <1>7, TickStep
<1>8. CASE UNCHANGED vars
  BY <1>8 DEF vars, Inv
<1> QED
  BY <1>1, <1>2, <1>3, <1>4, <1>5, <1>6, <1>7, <1>8 DEF Next

\* What is read, cached, shared and answered is what the endpoints make it:
\* panels of tickets everybody under their key may see, no older than the
\* lives and the requests that carried them allow.
THEOREM TypeCorrect == Spec => []Inv
BY InitInv, InvStep, PTL DEF Spec

\* No sharing of cached panels or overviews carries a ticket to a user whom
\* the visibility filter hides it from (overview and panel keys of
\* monitor_service, memoize of common/cache).
THEOREM SightTheorem == Spec => []AnswersWithinSight
<1>1. Inv => AnswersWithinSight
  BY DEF Inv, GoodAnswer, SeenBy, AnswersWithinSight
<1> QED
  BY <1>1, TypeCorrect, PTL

\* The two layers of cache add up, and nothing answered is older than both
\* lives and the two requests that filled them.
THEOREM AgeTheorem == Spec => []AgesBounded
<1>1. Inv => AgesBounded
  BY DEF Inv, GoodAnswer, AgesBounded
<1> QED
  BY <1>1, TypeCorrect, PTL

-----------------------------------------------------------------------------
(* Whose overview it is                                                    *)

\* What an overview made for v holds of v's own.
Owned(v, got) ==
  /\ Personal(v) \in DOMAIN got
  /\ \A p \in DOMAIN got : p.name \notin Memoised => got[p].for = v

\* Under a key there is the overview of somebody who has that key.
OwnEntry(k, got) == \E v \in User : OverviewKey(v) = k /\ Owned(v, got)

OwnReq(q) == q.whole => q.user \in User /\ Owned(q.user, q.got)

OwnInv ==
  /\ \A r \in Request : OwnReq(req[r])
  /\ \A k \in DOMAIN cache : k.ns = "overview" => OwnEntry(k, cache[k].value)
  /\ answer.whole => answer.to \in User /\ OwnEntry(OverviewKey(answer.to), answer.got)

\* Growing older changes no owner.
LEMMA OlderOwned ==
  ASSUME NEW g \in Gots, NEW v \in User, Owned(v, g)
  PROVE  Owned(v, AllOlder(g))
<1>1. DOMAIN AllOlder(g) = DOMAIN g /\ \A p \in DOMAIN g : AllOlder(g)[p] = Older(g[p])
  BY DEF AllOlder
<1>2. \A p \in DOMAIN g : Older(g[p]).for = g[p].for
  BY GotsAre DEF Older, Value
<1> QED
  BY <1>1, <1>2 DEF Owned

\* The slot of one request changes; the rest follows from the cache and the
\* answer.
LEMMA OwnSlots ==
  ASSUME Inv, OwnInv, NEW r \in Request, NEW q, OwnReq(q), req' = [req EXCEPT ![r] = q],
         \A k \in DOMAIN cache' : k.ns = "overview" => OwnEntry(k, cache'[k].value),
         answer'.whole => answer'.to \in User /\ OwnEntry(OverviewKey(answer'.to), answer'.got)
  PROVE  OwnInv'
<1>1. \A x \in Request : req'[x] = IF x = r THEN q ELSE req[x]
  BY DEF Inv
<1>2. \A x \in Request : OwnReq(req'[x])
  BY <1>1 DEF OwnInv
<1> QED
  BY <1>2 DEF OwnInv

LEMMA OwnQuiet == ~NoAnswer.whole /\ OwnReq(Idle)
BY DEF NoAnswer, OwnReq, Idle

\* An overview that begins has its personal section at once.
LEMMA OwnBegin ==
  ASSUME Inv, OwnInv, NEW r \in Request, NEW u \in User, NEW live \in SUBSET Panel,
         NEW todo \in Seq(Panel), NEW whole \in BOOLEAN, NEW redis \in BOOLEAN,
         whole => Personal(u) \in live,
         Begin(r, u, live, todo, whole, redis), UNCHANGED cache
  PROVE  OwnInv'
<1> DEFINE got == [p \in live |-> Computed(u, p)]
           q == [Idle EXCEPT !.user = u, !.redis = redis, !.todo = todo, !.whole = whole, !.got = got]
<1>1. req' = [req EXCEPT ![r] = q] /\ answer' = NoAnswer
  BY Zenon DEF Begin
<1>2. DOMAIN got = live /\ \A p \in live : got[p].for = u
  BY DEF Computed
<1> HIDE DEF got
<1>3. q.user = u /\ q.whole = whole /\ q.got = got
  BY DEF Idle
<1> HIDE DEF q
<1>4. OwnReq(q)
  BY <1>2, <1>3 DEF OwnReq, Owned
<1> QED
  BY <1>1, <1>4, OwnSlots, OwnQuiet DEF OwnInv

LEMMA OwnOverview ==
  ASSUME Inv, OwnInv, NEW r \in Request, NEW u \in User, Overview(r, u)
  PROVE  OwnInv'
<1>0. UNCHANGED <<row, cache>>
  BY DEF Overview
<1>1. PICK redis \in BOOLEAN :
         IF redis /\ OverviewKey(u) \in DOMAIN cache
         THEN Answer(r, u, TRUE, cache[OverviewKey(u)].value)
         ELSE Begin(r, u, {Personal(u), ThePanel("visible")}, Sections(u), TRUE, redis)
  BY DEF Overview
<1>2. CASE redis /\ OverviewKey(u) \in DOMAIN cache
  <2> DEFINE g == cache[OverviewKey(u)].value
  <2>1. OwnEntry(OverviewKey(u), g)
    BY <1>2, Keys DEF OwnInv
  <2>2. Answer(r, u, TRUE, g)
    BY <1>1, <1>2
  <2> HIDE DEF g
  <2>3. answer'.to = u /\ answer'.got = g /\ req' = [req EXCEPT ![r] = Idle]
    BY <2>2 DEF Answer
  <2> QED
    BY <1>0, <2>1, <2>3, OwnSlots, OwnQuiet DEF OwnInv
<1>3. CASE ~(redis /\ OverviewKey(u) \in DOMAIN cache)
  <2>1. Begin(r, u, {Personal(u), ThePanel("visible")}, Sections(u), TRUE, redis)
    BY <1>1, <1>3
  <2>2. {Personal(u), ThePanel("visible")} \in SUBSET Panel /\ TRUE \in BOOLEAN
    BY PanelTypes
  <2>3. Personal(u) \in {Personal(u), ThePanel("visible")}
    OBVIOUS
  <2> QED
    BY <1>0, <2>1, <2>2, <2>3, SectionsType, OwnBegin
<1> QED
  BY <1>2, <1>3

\* A request for a single panel is no overview.
LEMMA OwnSingle ==
  ASSUME Inv, OwnInv, NEW r \in Request, NEW u \in User, Single(r, u)
  PROVE  OwnInv'
<1>1. PICK live, todo, redis : Begin(r, u, live, todo, FALSE, redis)
  BY DEF Single
<1> DEFINE q == [Idle EXCEPT !.user = u, !.redis = redis, !.todo = todo, !.whole = FALSE,
                             !.got = [p \in live |-> Computed(u, p)]]
<1>2. req' = [req EXCEPT ![r] = q] /\ answer' = NoAnswer
  BY <1>1, Zenon DEF Begin
<1>3. UNCHANGED cache
  BY DEF Single
<1>4. q.whole = FALSE
  BY DEF Idle
<1> HIDE DEF q
<1>5. OwnReq(q)
  BY <1>4 DEF OwnReq
<1> QED
  BY <1>2, <1>3, <1>5, OwnSlots, OwnQuiet DEF OwnInv

\* A memoised panel adds nothing of anybody's own.
LEMMA OwnGot ==
  ASSUME Inv, OwnInv, NEW r \in Request, req[r].todo # <<>>, NEW v
  PROVE  OwnReq(Got(req[r], v))
<1> DEFINE q == req[r]
           p == Head(q.todo)
           got == [x \in DOMAIN q.got \cup {p} |-> IF x = p THEN v ELSE q.got[x]]
           new == [q EXCEPT !.todo = Tail(q.todo), !.fresh = Nothing, !.got = got]
<1>1. q \in Reqs /\ p.name \in Memoised
  BY AtWork
<1>2. OwnReq(q)
  BY DEF OwnInv
<1>3. Got(q, v) = new
  BY Zenon DEF Got
<1>4. /\ DOMAIN got = DOMAIN q.got \cup {p}
      /\ \A x \in DOMAIN got : got[x] = IF x = p THEN v ELSE q.got[x]
  OBVIOUS
<1> HIDE DEF got
<1>5. new.user = q.user /\ new.whole = q.whole /\ new.got = got
  BY <1>1 DEF Reqs
<1> HIDE DEF new
<1>6. OwnReq(new)
  BY <1>1, <1>2, <1>4, <1>5 DEF OwnReq, Owned
<1> QED
  BY <1>3, <1>6

LEMMA OwnRead ==
  ASSUME Inv, OwnInv, NEW r \in Request, ReadPanel(r)
  PROVE  OwnInv'
<1> DEFINE q == req[r]
           key == PanelKey(q.user, Head(q.todo).name)
           new == IF q.redis /\ key \in DOMAIN cache THEN Got(q, cache[key].value)
                  ELSE [q EXCEPT !.fresh = Computed(q.user, Head(q.todo))]
<1>1. /\ q.todo # <<>> /\ answer' = NoAnswer /\ UNCHANGED cache
      /\ req' = [req EXCEPT ![r] = new]
  BY Zenon DEF ReadPanel
<1>2. OwnReq(new)
  <2>1. CASE q.redis /\ key \in DOMAIN cache
    BY <1>1, <2>1, OwnGot
  <2>2. CASE ~(q.redis /\ key \in DOMAIN cache)
    <3> DEFINE old == [q EXCEPT !.fresh = Computed(q.user, Head(q.todo))]
    <3>1. q \in Reqs /\ OwnReq(q)
      BY DEF Inv, OwnInv
    <3>2. old.user = q.user /\ old.whole = q.whole /\ old.got = q.got
      BY <3>1 DEF Reqs
    <3> HIDE DEF old
    <3>3. OwnReq(old)
      BY <3>1, <3>2 DEF OwnReq
    <3>4. new = old
      BY <2>2 DEF old
    <3> QED
      BY <3>3, <3>4
  <2> QED
    BY <2>1, <2>2
<1> HIDE DEF new
<1> QED
  BY <1>1, <1>2, OwnSlots, OwnQuiet DEF OwnInv

LEMMA OwnMemoise ==
  ASSUME Inv, OwnInv, NEW r \in Request, Memoise(r)
  PROVE  OwnInv'
<1> DEFINE q == req[r]
           key == PanelKey(q.user, Head(q.todo).name)
<1>1. /\ q.todo # <<>> /\ answer' = NoAnswer
      /\ cache' = IF q.redis THEN Setex(key, q.fresh) ELSE cache
      /\ req' = [req EXCEPT ![r] = Got(q, q.fresh)]
  BY DEF Memoise
<1>2. key.ns # "overview"
  <2>1. q.user \in User /\ Head(q.todo).name \in Memoised
    BY <1>1, AtWork
  <2> QED
    BY <2>1, Keys
<1> HIDE DEF key
<1>3. \A k \in DOMAIN cache' : k.ns = "overview" => OwnEntry(k, cache'[k].value)
  BY <1>1, <1>2 DEF Setex, OwnInv
<1>4. OwnReq(Got(q, q.fresh))
  BY <1>1, OwnGot
<1> QED
  BY <1>1, <1>3, <1>4, OwnSlots, OwnQuiet

LEMMA OwnReply ==
  ASSUME Inv, OwnInv, NEW r \in Request, Reply(r)
  PROVE  OwnInv'
<1> DEFINE q == req[r]
           key == OverviewKey(q.user)
<1>1. /\ answer' = [to |-> q.user, whole |-> q.whole, got |-> q.got]
      /\ req' = [req EXCEPT ![r] = Idle]
      /\ cache' = IF q.whole /\ q.redis THEN Setex(key, q.got) ELSE cache
  BY DEF Reply, Answer
<1>2. q.whole => q.user \in User /\ OwnEntry(key, q.got)
  BY DEF OwnInv, OwnReq, OwnEntry
<1> HIDE DEF key
<1>3. \A k \in DOMAIN cache' : k.ns = "overview" => OwnEntry(k, cache'[k].value)
  BY <1>1, <1>2 DEF Setex, OwnInv
<1>4. answer'.whole => answer'.to \in User /\ OwnEntry(OverviewKey(answer'.to), answer'.got)
  BY <1>1, <1>2 DEF key
<1> QED
  BY <1>1, <1>3, <1>4, OwnSlots, OwnQuiet

LEMMA OwnTick ==
  ASSUME Inv, OwnInv, Tick
  PROVE  OwnInv'
<1>1. /\ cache' = [k \in Survivors(cache) |-> Aged(k, cache[k])]
      /\ req' = [r \in Request |-> Waiting(req[r])]
      /\ answer' = NoAnswer
  BY DEF Tick
<1>2. ASSUME NEW r \in Request
      PROVE  OwnReq(Waiting(req[r]))
  <2> DEFINE q == req[r]
             fresh == IF q.fresh = Nothing THEN Nothing ELSE Older(q.fresh)
             new == [q EXCEPT !.got = AllOlder(q.got), !.waited = q.waited + 1, !.fresh = fresh]
  <2>1. CASE q = Idle
    BY <2>1, OwnQuiet DEF Waiting
  <2>2. CASE q # Idle
    <3>1. Waiting(q) = new
      BY <2>2, Zenon DEF Waiting
    <3>2. q \in Reqs /\ OwnReq(q)
      BY DEF Inv, OwnInv
    <3> HIDE DEF fresh
    <3>3. new.user = q.user /\ new.whole = q.whole /\ new.got = AllOlder(q.got) /\ q.got \in Gots
      BY <3>2 DEF Reqs
    <3> HIDE DEF new
    <3>4. OwnReq(new)
      BY <3>2, <3>3, OlderOwned DEF OwnReq
    <3> QED
      BY <3>1, <3>4
  <2> QED
    BY <2>1, <2>2
<1>3. ASSUME NEW k \in Survivors(cache), k.ns = "overview"
      PROVE  OwnEntry(k, Aged(k, cache[k]).value)
  <2>1. k \in DOMAIN cache /\ OwnEntry(k, cache[k].value)
    BY <1>3 DEF Survivors, OwnInv
  <2>2. cache[k].value \in Gots
    BY <1>3, <2>1, Keys DEF Inv, GoodPanel, GoodOverview, OverviewEntry
  <2>3. Aged(k, cache[k]).value = AllOlder(cache[k].value)
    BY <1>3 DEF Aged
  <2> QED
    BY <2>1, <2>2, <2>3, OlderOwned DEF OwnEntry
<1>4. \A k \in DOMAIN cache' : k.ns = "overview" => OwnEntry(k, cache'[k].value)
  BY <1>1, <1>3
<1> QED
  BY <1>1, <1>2, <1>4, OwnQuiet DEF OwnInv

LEMMA OwnStep == Inv /\ OwnInv /\ [Next]_vars => OwnInv'
<1> SUFFICES ASSUME Inv, OwnInv, [Next]_vars PROVE OwnInv'
  OBVIOUS
<1>1. ASSUME NEW r \in Request, NEW u \in User, Overview(r, u) PROVE OwnInv'
  BY <1>1, OwnOverview
<1>2. ASSUME NEW r \in Request, NEW u \in User, Single(r, u) PROVE OwnInv'
  BY <1>2, OwnSingle
<1>3. ASSUME NEW r \in Request, ReadPanel(r) PROVE OwnInv'
  BY <1>3, OwnRead
<1>4. ASSUME NEW r \in Request, Memoise(r) PROVE OwnInv'
  BY <1>4, OwnMemoise
<1>5. ASSUME NEW r \in Request, Reply(r) PROVE OwnInv'
  BY <1>5, OwnReply
<1>6. ASSUME NEW t \in Ticket, TicketMoves(t) PROVE OwnInv'
  <2>1. UNCHANGED <<cache, req>> /\ answer' = NoAnswer
    BY <1>6 DEF TicketMoves
  <2> QED
    BY <2>1, OwnQuiet DEF OwnInv
<1>7. CASE Tick
  BY <1>7, OwnTick
<1>8. CASE UNCHANGED vars
  BY <1>8 DEF vars, OwnInv
<1> QED
  BY <1>1, <1>2, <1>3, <1>4, <1>5, <1>6, <1>7, <1>8 DEF Next

LEMMA OwnInit == Init => OwnInv
BY OwnQuiet, NoGots DEF Init, OwnInv

\* An overview that somebody gets was made for somebody with the same key.
LEMMA OwnTheorem == Spec => []OwnInv
<1>1. Init => Inv /\ OwnInv
  BY InitInv, OwnInit
<1> QED
  BY <1>1, InvStep, OwnStep, PTL DEF Spec

\* Who does not see everything only ever gets an overview that was made for
\* himself, however many users, requests and cached overviews there are.
THEOREM OwnedTheorem == Spec => []OverviewOwned
<1>1. OwnInv => OverviewOwned
  <2> SUFFICES ASSUME OwnInv, answer.whole, ~CanViewGlobal(answer.to)
               PROVE  Owned(answer.to, answer.got)
    BY DEF OverviewOwned, Owned
  <2>1. PICK v \in User : OverviewKey(v) = OverviewKey(answer.to) /\ Owned(v, answer.got)
    BY DEF OwnInv, OwnEntry
  <2>2. v = answer.to
    BY <2>1, SharedOverview DEF OwnInv
  <2> QED
    BY <2>1, <2>2
<1> QED
  BY <1>1, OwnTheorem, PTL

\* And the overview is the caller's own for everybody, as its docstring says,
\* if no two users who see everything have the same roles and sectors.
THEOREM OverviewTheorem ==
  ASSUME \A u, v \in User :
           /\ CanViewGlobal(u) /\ CanViewGlobal(v)
           /\ RolesOf(u) = RolesOf(v) /\ AllSectors(u) = AllSectors(v)
             => u = v
  PROVE  Spec => []OverviewIsMine
<1>1. ASSUME NEW u \in User, NEW v \in User, OverviewKey(u) = OverviewKey(v)
      PROVE  u = v
  <2>1. RolesOf(u) = RolesOf(v) /\ AllSectors(u) = AllSectors(v)
    BY <1>1 DEF OverviewKey
  <2>2. CanViewGlobal(u) <=> CanViewGlobal(v)
    BY <2>1, SameRoles
  <2> QED
    BY <1>1, <2>1, <2>2, SharedOverview
<1>2. OwnInv => OverviewIsMine
  <2> SUFFICES ASSUME OwnInv, answer.whole
               PROVE  Personal(answer.to) \in DOMAIN answer.got
    BY DEF OverviewIsMine
  <2>1. PICK v \in User : OverviewKey(v) = OverviewKey(answer.to) /\ Owned(v, answer.got)
    BY DEF OwnInv, OwnEntry
  <2>2. v = answer.to
    BY <1>1, <2>1 DEF OwnInv
  <2> QED
    BY <2>1, <2>2 DEF Owned
<1> QED
  BY <1>2, OwnTheorem, PTL

=============================================================================
