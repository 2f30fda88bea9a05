----------------------- MODULE TicketRelations_proofs -----------------------
(***************************************************************************)
(* Theorems about TicketRelations for any tickets, keys, spellings and     *)
(* number of concurrent requests.                                          *)
(***************************************************************************)
EXTENDS TicketRelations, TLAPS

USE RelationsAssumption

\* Metadata rows, and writes of metadata, carry a text.
Texts ==
  /\ \A row \in rows : row.key \in Meta => row.value \in Text
  /\ \A r \in Request : req[r].op = "insert" /\ req[r].key \in Meta => req[r].value \in Text

TypeInv == TypeOK /\ Texts

\* Ids are given once: they name rows, and a row of metadata stays one, whatever
\* its key.
IdsName ==
  /\ \A a, b \in rows : a.id = b.id => a = b
  /\ \A row \in rows : row.id <= lastId
  /\ \A r \in Request : req[r].op \in {"update", "delete"} =>
       /\ req[r].id <= lastId
       /\ req[r].op = "update" => \A row \in rows : row.id = req[r].id => row.key \in Meta

BookInv == TypeInv /\ OneRowPerKey /\ IdsName

-----------------------------------------------------------------------------
(* What a look-up leaves behind                                            *)

\* A look-up either answers, or remembers an insertion of a key without a row,
\* or the row it found.
Remembers(q) ==
  \/ \E k \in Key, v \in Value :
       /\ q = [op |-> "insert", key |-> k, value |-> v]
       /\ RowsOf(k) = {}
       /\ k \in Meta => v \in Text
  \/ \E row \in rows, k \in Meta \cup {Absent}, v \in Text \cup {Absent} :
       /\ q = [op |-> "update", key |-> row.key, id |-> row.id, to |-> k, value |-> v]
       /\ row.key \in Meta
  \/ \E row \in rows : q = [op |-> "delete", key |-> row.key, id |-> row.id]

LEMMA AddOnceLeaves ==
  ASSUME NEW r \in Request, NEW k \in Link \cup Watch, AddOnce(r, k)
  PROVE  Nothing(r) \/ \E q : Keep(r, q) /\ Remembers(q)
<1>1. CASE RowsOf(k) # {}
  BY <1>1 DEF AddOnce
<1>2. CASE RowsOf(k) = {}
  <2>1. k \in Key /\ On \in Value /\ k \notin Meta
    BY DEF Key, Value
  <2>2. Keep(r, [op |-> "insert", key |-> k, value |-> On])
    BY <1>2 DEF AddOnce
  <2>3. Remembers([op |-> "insert", key |-> k, value |-> On])
    BY <1>2, <2>1 DEF Remembers
  <2> QED
    BY <2>2, <2>3
<1> QED
  BY <1>1, <1>2

LEMMA DeleteOnceLeaves ==
  ASSUME NEW r \in Request, NEW k, DeleteOnce(r, k)
  PROVE  Nothing(r) \/ \E q : Keep(r, q) /\ Remembers(q)
<1>1. ASSUME NEW row \in RowsOf(k), Keep(r, [op |-> "delete", key |-> k, id |-> row.id])
      PROVE  \E q : Keep(r, q) /\ Remembers(q)
  <2>1. row \in rows /\ row.key = k
    BY DEF RowsOf
  <2>2. Remembers([op |-> "delete", key |-> k, id |-> row.id])
    BY <2>1 DEF Remembers
  <2> QED
    BY <1>1, <2>2
<1> QED
  BY <1>1 DEF DeleteOnce

LEMMA ChangeLeaves ==
  ASSUME NEW r \in Request, NEW row \in rows, row.key \in Meta, NEW k \in Meta, NEW v \in Text,
         Change(r, row, k, v)
  PROVE  \E q : Keep(r, q) /\ Remembers(q)
<1> DEFINE to == IF k = row.key THEN Absent ELSE k
           value == IF v = row.value THEN Absent ELSE v
           q == [op |-> "update", key |-> row.key, id |-> row.id, to |-> to, value |-> value]
<1>1. Keep(r, q)
  BY DEF Change
<1>2. to \in Meta \cup {Absent} /\ value \in Text \cup {Absent}
  OBVIOUS
<1> HIDE DEF to, value
<1>3. Remembers(q)
  BY <1>2 DEF Remembers
<1> QED
  BY <1>1, <1>3

LEMMA UpsertLeaves ==
  ASSUME NEW r \in Request, NEW k \in Meta, NEW v \in Text, Upsert(r, k, v)
  PROVE  \E q : Keep(r, q) /\ Remembers(q)
<1>1. k \in Key /\ v \in Value
  BY DEF Key, Value
<1>2. CASE RowsOf(k) = {} /\ Keep(r, [op |-> "insert", key |-> k, value |-> v])
  BY <1>1, <1>2 DEF Remembers
<1>3. ASSUME NEW row \in RowsOf(k), Change(r, row, k, v)
      PROVE  \E q : Keep(r, q) /\ Remembers(q)
  <2>1. row \in rows /\ row.key \in Meta
    BY DEF RowsOf
  <2> QED
    BY <1>3, <2>1, ChangeLeaves
<1> QED
  BY <1>2, <1>3 DEF Upsert

LEMMA LookUpLeaves ==
  ASSUME TypeInv, NEW r \in Request, NEW u \in User, LookUp(r, u)
  PROVE  Nothing(r) \/ \E q : Keep(r, q) /\ Remembers(q)
<1>1. ASSUME NEW k \in Link, AddLink(r, u, k)
      PROVE  AddOnce(r, k)
  BY <1>1 DEF AddLink
<1>2. ASSUME NEW row \in rows, RemoveLink(r, u, row)
      PROVE  \E q : Keep(r, q) /\ Remembers(q)
  BY <1>2 DEF RemoveLink, Remembers
<1>3. ASSUME NEW k \in Watch, AddWatcher(r, u, k)
      PROVE  AddOnce(r, k)
  BY <1>3 DEF AddWatcher
<1>4. ASSUME NEW k \in Watch, RemoveWatcher(r, u, k)
      PROVE  DeleteOnce(r, k)
  BY <1>4 DEF RemoveWatcher
<1>5. ASSUME NEW s \in Spelling, DeleteMetadata(r, u, s)
      PROVE  DeleteOnce(r, s)
  BY <1>5 DEF DeleteMetadata
<1>6. ASSUME NEW s \in Spelling, NEW v \in Text,
             SetMetadata(r, u, s, v) \/ UpsertTicketMetadata(r, u, s, v)
      PROVE  \E q : Keep(r, q) /\ Remembers(q)
  <2>1. MetaKey(s) \in Meta /\ Upsert(r, MetaKey(s), v)
    BY <1>6 DEF SetMetadata, UpsertTicketMetadata, MetaKey
  <2> QED
    BY <2>1, UpsertLeaves
<1>7. ASSUME NEW s \in Spelling, NEW v \in Text, NEW row \in rows, RenameTicketMetadata(r, u, row, s, v)
      PROVE  \E q : Keep(r, q) /\ Remembers(q)
  <2>1. MetaKey(s) \in Meta /\ row.key \in Meta /\ Change(r, row, MetaKey(s), v)
    BY <1>7 DEF RenameTicketMetadata, MetaKey
  <2> QED
    BY <2>1, ChangeLeaves
<1>8. ASSUME NEW row \in rows, DeleteTicketMetadata(r, u, row)
      PROVE  \E q : Keep(r, q) /\ Remembers(q)
  BY <1>8 DEF DeleteTicketMetadata, Remembers
<1> QED
  BY <1>1, <1>2, <1>3, <1>4, <1>5, <1>6, <1>7, <1>8, AddOnceLeaves, DeleteOnceLeaves DEF LookUp

-----------------------------------------------------------------------------
(* Types                                                                   *)

LEMMA InitInv == Init => BookInv
BY DEF Init, BookInv, TypeInv, TypeOK, Texts, OneRowPerKey, IdsName, Idle, Req

LEMMA RememberedType ==
  ASSUME TypeOK, NEW q, Remembers(q)
  PROVE  q \in Req /\ (q.op = "insert" /\ q.key \in Meta => q.value \in Text)
<1>1. \A row \in rows : row.key \in Key /\ row.id \in 1..MaxId
  BY DEF TypeOK, Row
<1>2. ASSUME NEW k \in Key, NEW v \in Value, k \in Meta => v \in Text,
             q = [op |-> "insert", key |-> k, value |-> v]
      PROVE  q \in Req /\ (q.op = "insert" /\ q.key \in Meta => q.value \in Text)
  BY <1>2 DEF Req
<1>3. ASSUME NEW row \in rows, row.key \in Meta, NEW k \in Meta \cup {Absent}, NEW v \in Text \cup {Absent},
             q = [op |-> "update", key |-> row.key, id |-> row.id, to |-> k, value |-> v]
      PROVE  q \in Req /\ q.op # "insert"
  BY <1>1, <1>3 DEF Req
<1>4. ASSUME NEW row \in rows, q = [op |-> "delete", key |-> row.key, id |-> row.id]
      PROVE  q \in Req /\ q.op # "insert"
  BY <1>1, <1>4 DEF Req
<1> QED
  BY <1>2, <1>3, <1>4 DEF Remembers

LEMMA KeepType ==
  ASSUME TypeInv, NEW r \in Request, NEW q, Keep(r, q), Remembers(q)
  PROVE  TypeInv'
<1>1. q \in Req /\ (q.op = "insert" /\ q.key \in Meta => q.value \in Text)
  BY RememberedType DEF TypeInv
<1>2. req \in [Request -> Req] /\ req' = [req EXCEPT ![r] = q]
  BY DEF TypeInv, TypeOK, Keep
<1>3. TypeOK'
  BY <1>1, <1>2 DEF TypeInv, TypeOK, Keep
<1>4. \A x \in Request : req'[x] = IF x = r THEN q ELSE req[x]
  BY <1>2
<1>5. Texts'
  BY <1>1, <1>4 DEF TypeInv, Texts, Keep
<1> QED
  BY <1>3, <1>5 DEF TypeInv

\* A request that ends leaves nothing behind but its rows.
LEMMA EndType ==
  ASSUME TypeInv, NEW r \in Request, req' = [req EXCEPT ![r] = Idle],
         NEW b \in BOOLEAN, ok' = [ok EXCEPT ![r] = b],
         rows' \subseteq Row, lastId' \in 0..MaxId,
         \A row \in rows' : row.key \in Meta => row.value \in Text
  PROVE  TypeInv'
<1>1. TypeOK'
  BY DEF TypeInv, TypeOK, Req
<1>2. \A x \in Request : req'[x] = IF x = r THEN Idle ELSE req[x]
  BY DEF TypeInv, TypeOK
<1>3. Idle.op # "insert"
  BY DEF Idle
<1> QED
  BY <1>1, <1>2, <1>3 DEF TypeInv, Texts

LEMMA RequestShape ==
  ASSUME TypeInv, NEW r \in Request
  PROVE  /\ req[r].op = "insert" => req[r].key \in Key /\ req[r].value \in Value
         /\ req[r].op = "update" => /\ req[r].to \in Meta \cup {Absent} /\ req[r].value \in Text \cup {Absent}
                                    /\ req[r].id \in 1..MaxId
         /\ req[r].op = "delete" => req[r].key \in Key /\ req[r].id \in 1..MaxId
         /\ req[r].op \in {"none", "insert", "update", "delete"}
         /\ req[r].op = "none" => req[r] = Idle
<1>1. req[r] \in Req
  BY DEF TypeInv, TypeOK
<1> QED
  BY <1>1 DEF Req, Idle

\* What an update makes of its row, which is one of metadata.
LEMMA WrittenRow ==
  ASSUME NEW q, q.to \in Meta \cup {Absent}, q.value \in Text \cup {Absent}, NEW row \in Row, row.key \in Meta
  PROVE  /\ Written(q, row) \in Row /\ Written(q, row).id = row.id
         /\ Written(q, row).key = IF q.to = Absent THEN row.key ELSE q.to
         /\ Written(q, row).value = IF q.value = Absent THEN row.value ELSE q.value
         /\ Written(q, row).key \in Meta
         /\ row.value \in Text => Written(q, row).value \in Text
<1> DEFINE k == IF q.to = Absent THEN row.key ELSE q.to
           v == IF q.value = Absent THEN row.value ELSE q.value
<1>1. k \in Meta /\ k \in Key /\ v \in Value /\ (row.value \in Text => v \in Text)
  BY DEF Row, Key, Value
<1>2. Written(q, row) = [row EXCEPT !.key = k, !.value = v]
  BY DEF Written
<1> HIDE DEF k, v
<1>3. /\ [row EXCEPT !.key = k, !.value = v] \in Row
      /\ [row EXCEPT !.key = k, !.value = v].key = k
      /\ [row EXCEPT !.key = k, !.value = v].id = row.id
      /\ [row EXCEPT !.key = k, !.value = v].value = v
  BY <1>1 DEF Row
<1> QED
  BY <1>1, <1>2, <1>3 DEF k, v

\* An update writes its row and leaves the others.
LEMMA UpdatedRows ==
  ASSUME NEW r, Update(r)
  PROVE  \/ rows' = rows
         \/ /\ UpdateMatches(req[r])
            /\ \A row \in rows' : \E x \in rows :
                 row = IF x.id = req[r].id THEN Written(req[r], x) ELSE x
            /\ \A x \in rows : (IF x.id = req[r].id THEN Written(req[r], x) ELSE x) \in rows'
BY DEF Update

\* Every row after an update comes from a row with its id.
LEMMA UpdateKeeps ==
  ASSUME TypeInv, IdsName, NEW r \in Request, Update(r), NEW row \in rows'
  PROVE  /\ row \in Row /\ (row.key \in Meta => row.value \in Text)
         /\ \E x \in rows : x.id = row.id /\ (row = x \/ (x.id = req[r].id /\ row = Written(req[r], x)))
         /\ \A x \in rows : x.id = row.id => (row.key \in Meta <=> x.key \in Meta)
<1>0. /\ rows \subseteq Row /\ req[r].op = "update"
      /\ req[r].to \in Meta \cup {Absent} /\ req[r].value \in Text \cup {Absent}
  BY RequestShape DEF TypeInv, TypeOK, Update
<1>1. CASE row \in rows
  BY <1>0, <1>1 DEF TypeInv, Texts, IdsName
<1>2. ASSUME NEW x \in rows, x.id = req[r].id, row = Written(req[r], x)
      PROVE  /\ row \in Row /\ (row.key \in Meta => row.value \in Text)
             /\ row.id = x.id /\ row.key \in Meta /\ x.key \in Meta
  <2>1. x \in Row /\ x.key \in Meta /\ x.value \in Text
    BY <1>0, <1>2 DEF IdsName, TypeInv, Texts
  <2> QED
    BY <1>0, <1>2, <2>1, WrittenRow
<1>3. row \in rows \/ \E x \in rows : x.id = req[r].id /\ row = Written(req[r], x)
  <2>1. CASE rows' = rows
    BY <2>1
  <2>2. CASE rows' # rows
    <3>1. PICK x \in rows : row = IF x.id = req[r].id THEN Written(req[r], x) ELSE x
      BY <2>2, UpdatedRows
    <3> QED
      BY <3>1
  <2> QED
    BY <2>1, <2>2
<1>4. ASSUME NEW x \in rows, x.id = req[r].id, row = Written(req[r], x)
      PROVE  \A y \in rows : y.id = row.id => (row.key \in Meta <=> y.key \in Meta)
  <2>1. row.id = x.id /\ row.key \in Meta /\ x.key \in Meta
    BY <1>2, <1>4
  <2> QED
    BY <2>1 DEF IdsName
<1> QED
  BY <1>1, <1>2, <1>3, <1>4

LEMMA UpdatedId ==
  ASSUME TypeInv, IdsName, NEW r \in Request, Update(r), NEW x \in rows, x.id = req[r].id
  PROVE  /\ Written(req[r], x).id = x.id
         /\ Written(req[r], x).key = IF req[r].to = Absent THEN x.key ELSE req[r].to
         /\ Written(req[r], x).value = IF req[r].value = Absent THEN x.value ELSE req[r].value
<1>1. /\ x \in Row /\ req[r].op = "update"
      /\ req[r].to \in Meta \cup {Absent} /\ req[r].value \in Text \cup {Absent}
  BY RequestShape DEF TypeInv, TypeOK, Update
<1>2. x.key \in Meta
  BY <1>1 DEF IdsName
<1> QED
  BY <1>1, <1>2, WrittenRow

LEMMA TypeStep == TypeInv /\ IdsName /\ [Next]_vars => TypeInv'
<1> SUFFICES ASSUME TypeInv, IdsName, [Next]_vars
             PROVE  TypeInv'
  OBVIOUS
<1>0. rows \subseteq Row /\ lastId \in 0..MaxId /\ Meta \subseteq Key /\ Text \subseteq Value
  BY DEF TypeInv, TypeOK, Key, Value
<1>1. ASSUME NEW r \in Request, NEW u \in User, LookUp(r, u)
      PROVE  TypeInv'
  <2>1. CASE Nothing(r)
    BY <2>1 DEF Nothing, TypeInv, TypeOK, Texts
  <2> QED
    BY <1>1, <2>1, LookUpLeaves, KeepType
<1>2. ASSUME NEW r \in Request, Insert(r)
      PROVE  TypeInv'
  <2> DEFINE new == [key |-> req[r].key, id |-> lastId + 1, value |-> req[r].value]
  <2>1. new \in Row
    BY <1>0, <1>2, RequestShape DEF Insert, Insertable, Row
  <2>2. rows' = rows \cup {new} /\ lastId' = lastId + 1 /\ lastId < MaxId /\ req[r].op = "insert"
    BY <1>2 DEF Insert, Insertable
  <2>3. \A row \in rows' : row.key \in Meta => row.value \in Text
    BY <2>2 DEF TypeInv, Texts
  <2>4. rows' \subseteq Row /\ lastId' \in 0..MaxId
    BY <1>0, <2>1, <2>2
  <2>5. req' = [req EXCEPT ![r] = Idle] /\ ok' = [ok EXCEPT ![r] = TRUE]
    BY <1>2 DEF Insert, Commit
  <2> QED
    BY <2>3, <2>4, <2>5, EndType
<1>3. ASSUME NEW r \in Request, Update(r)
      PROVE  TypeInv'
  <2>2. rows' \subseteq Row
    BY <1>3, UpdateKeeps
  <2>3. \A row \in rows' : row.key \in Meta => row.value \in Text
    BY <1>3, UpdateKeeps
  <2> QED
    BY <1>0, <1>3, <2>2, <2>3, EndType DEF Update, Commit
<1>4. ASSUME NEW r \in Request, Delete(r)
      PROVE  TypeInv'
  <2>1. rows' \subseteq rows
    BY <1>4 DEF Delete, OtherIds
  <2> QED
    BY <1>0, <1>4, <2>1, EndType DEF Delete, Commit, TypeInv, Texts
<1>5. ASSUME NEW r \in Request, Rollback(r)
      PROVE  TypeInv'
  BY <1>0, <1>5, EndType DEF Rollback, TypeInv, Texts
<1>6. CASE UNCHANGED vars
  BY <1>6 DEF vars, TypeInv, TypeOK, Texts
<1> QED
  BY <1>1, <1>2, <1>3, <1>4, <1>5, <1>6 DEF Next

-----------------------------------------------------------------------------
(* Ids                                                                     *)

\* A look-up remembers the key and the id of a row there is.
LEMMA IdsKeep ==
  ASSUME TypeInv, IdsName, NEW r \in Request, NEW q, Keep(r, q), Remembers(q)
  PROVE  IdsName'
<1>1. q.op \in {"update", "delete"} =>
        \E row \in rows : q.id = row.id /\ (q.op = "update" => row.key \in Meta)
  BY DEF Remembers
<1>2. \A x \in Request : req'[x] = IF x = r THEN q ELSE req[x]
  BY DEF TypeInv, TypeOK, Keep
<1> QED
  BY <1>1, <1>2 DEF IdsName, Keep

LEMMA IdsEnd ==
  ASSUME TypeInv, IdsName, NEW r \in Request, req' = [req EXCEPT ![r] = Idle], lastId' = lastId,
         \A row \in rows' : \E x \in rows : x.id = row.id /\ (row.key \in Meta <=> x.key \in Meta),
         \A a, b \in rows' : a.id = b.id => a = b
  PROVE  IdsName'
<1>1. \A x \in Request : req'[x] = IF x = r THEN Idle ELSE req[x]
  BY DEF TypeInv, TypeOK
<1>2. Idle.op \notin {"update", "delete"}
  BY DEF Idle
<1>3. ASSUME NEW x \in Request, req'[x].op \in {"update", "delete"}
      PROVE  /\ req'[x].id <= lastId'
             /\ req'[x].op = "update" => \A row \in rows' : row.id = req'[x].id => row.key \in Meta
  BY <1>1, <1>2, <1>3 DEF IdsName
<1>4. \A row \in rows' : row.id <= lastId'
  BY DEF IdsName
<1> QED
  BY <1>3, <1>4 DEF IdsName

LEMMA IdsStep == TypeInv /\ IdsName /\ [Next]_vars => IdsName'
<1> SUFFICES ASSUME TypeInv, IdsName, [Next]_vars
             PROVE  IdsName'
  OBVIOUS
<1>0. rows \subseteq Row /\ lastId \in Nat /\ \A row \in rows : row.id \in Nat
  BY DEF TypeInv, TypeOK, Row
<1>1. ASSUME NEW r \in Request, NEW u \in User, LookUp(r, u)
      PROVE  IdsName'
  <2>1. CASE Nothing(r)
    BY <2>1 DEF Nothing, IdsName
  <2> QED
    BY <1>1, <2>1, LookUpLeaves, IdsKeep
<1>2. ASSUME NEW r \in Request, Insert(r)
      PROVE  IdsName'
  <2> DEFINE new == [key |-> req[r].key, id |-> lastId + 1, value |-> req[r].value]
  <2>1. rows' = rows \cup {new} /\ lastId' = lastId + 1 /\ req' = [req EXCEPT ![r] = Idle]
    BY <1>2 DEF Insert, Commit
  <2>2. \A x \in Request : req'[x] = IF x = r THEN Idle ELSE req[x]
    BY <2>1 DEF TypeInv, TypeOK
  <2>3. Idle.op \notin {"update", "delete"} /\ new.id = lastId + 1
    BY DEF Idle
  <2>4. \A a, b \in rows' : a.id = b.id => a = b
    <3>1. \A a \in rows : a.id <= lastId
      BY DEF IdsName
    <3>2. \A a \in rows : a.id # new.id
      BY <1>0, <2>3, <3>1
    <3> QED
      BY <2>1, <3>2 DEF IdsName
  <2>5. \A row \in rows' : row.id <= lastId'
    BY <1>0, <2>1, <2>3 DEF IdsName
  <2>6. ASSUME NEW x \in Request, req'[x].op \in {"update", "delete"}
        PROVE  /\ req'[x].id <= lastId'
               /\ req'[x].op = "update" => \A row \in rows' : row.id = req'[x].id => row.key \in Meta
    <3>1. req'[x] = req[x] /\ req[x].id <= lastId /\ req[x].id \in Nat
      BY <2>2, <2>3, <2>6, RequestShape DEF IdsName
    <3>2. req[x].id # new.id
      BY <1>0, <2>3, <3>1
    <3> QED
      BY <1>0, <2>1, <2>6, <3>1, <3>2 DEF IdsName
  <2> QED
    BY <2>4, <2>5, <2>6 DEF IdsName
<1>3. ASSUME NEW r \in Request, Update(r)
      PROVE  IdsName'
  <2>1. req' = [req EXCEPT ![r] = Idle] /\ lastId' = lastId
    BY <1>3 DEF Update, Commit
  <2>2. \A row \in rows' : \E x \in rows : x.id = row.id /\ (row.key \in Meta <=> x.key \in Meta)
    BY <1>3, UpdateKeeps
  <2>3. ASSUME NEW a \in rows', NEW b \in rows', a.id = b.id
        PROVE  a = b
    <3>1. CASE rows' = rows
      BY <2>3, <3>1 DEF IdsName
    <3>2. CASE rows' # rows
      <4>1. PICK x \in rows : a = IF x.id = req[r].id THEN Written(req[r], x) ELSE x
        BY <1>3, <3>2, UpdatedRows
      <4>2. PICK y \in rows : b = IF y.id = req[r].id THEN Written(req[r], y) ELSE y
        BY <1>3, <3>2, UpdatedRows
      <4>3. a.id = x.id /\ b.id = y.id
        BY <1>3, <4>1, <4>2, UpdatedId
      <4> QED
        BY <2>3, <4>1, <4>2, <4>3 DEF IdsName
    <3> QED
      BY <3>1, <3>2
  <2> QED
    BY <2>1, <2>2, <2>3, IdsEnd
<1>4. ASSUME NEW r \in Request, Delete(r) \/ Rollback(r)
      PROVE  IdsName'
  <2>1. req' = [req EXCEPT ![r] = Idle] /\ lastId' = lastId /\ rows' \subseteq rows
    BY <1>4 DEF Delete, OtherIds, Rollback, Commit
  <2>2. \A a, b \in rows' : a.id = b.id => a = b
    BY <2>1 DEF IdsName
  <2> QED
    BY <2>1, <2>2, IdsEnd
<1>5. CASE UNCHANGED vars
  BY <1>5 DEF vars, IdsName
<1> QED
  BY <1>1, <1>2, <1>3, <1>4, <1>5 DEF Next

\* Types and ids hold together.
LEMMA Inductive == TypeInv /\ IdsName /\ [Next]_vars => TypeInv' /\ IdsName'
BY TypeStep, IdsStep

\* Rows, ids and the memory of every request keep their types.
THEOREM TypeCorrect == Spec => []TypeOK
<1>1. Init => TypeInv /\ IdsName
  BY InitInv DEF BookInv
<1>2. TypeInv => TypeOK
  BY DEF TypeInv
<1> QED
  BY <1>1, <1>2, Inductive, PTL DEF Spec
-----------------------------------------------------------------------------
(* One row per key                                                         *)

\* The look-ups do not write; the index, not the look-up, keeps two racing
\* insertions apart, and a new key from an old one.
LEMMA UniqueStep == TypeInv /\ IdsName /\ OneRowPerKey /\ [Next]_vars => OneRowPerKey'
<1> SUFFICES ASSUME TypeInv, IdsName, OneRowPerKey, [Next]_vars
             PROVE  OneRowPerKey'
  OBVIOUS
<1>1. ASSUME rows' \subseteq rows
      PROVE  OneRowPerKey'
  BY <1>1 DEF OneRowPerKey
<1>2. ASSUME NEW r \in Request, NEW u \in User, LookUp(r, u)
      PROVE  rows' = rows
  BY <1>2, LookUpLeaves DEF Nothing, Keep
<1>3. ASSUME NEW r \in Request, Insert(r)
      PROVE  OneRowPerKey'
  BY <1>3 DEF Insert, Insertable, RowsOf, OneRowPerKey
<1>4. ASSUME NEW r \in Request, Update(r), rows' # rows
      PROVE  OneRowPerKey'
  <2> SUFFICES ASSUME NEW a \in rows', NEW b \in rows', a.key = b.key
               PROVE  a = b
    BY DEF OneRowPerKey
  <2>1. PICK x \in rows : a = IF x.id = req[r].id THEN Written(req[r], x) ELSE x
    BY <1>4, UpdatedRows
  <2>2. PICK y \in rows : b = IF y.id = req[r].id THEN Written(req[r], y) ELSE y
    BY <1>4, UpdatedRows
  <2>3. \A z \in rows : z.key = req[r].to => z.id = req[r].id
    BY <1>4, UpdatedRows DEF UpdateMatches, RowsOf
  <2>4. CASE x.id = y.id
    BY <2>1, <2>2, <2>4 DEF IdsName
  <2>5. CASE x.id # req[r].id /\ y.id # req[r].id
    BY <2>1, <2>2, <2>5 DEF OneRowPerKey
  <2>6. CASE x.id = req[r].id /\ y.id # req[r].id
    <3>1. b = y /\ a.key = IF req[r].to = Absent THEN x.key ELSE req[r].to
      BY <1>4, <2>1, <2>2, <2>6, UpdatedId
    <3> QED
      BY <2>3, <2>6, <3>1 DEF OneRowPerKey
  <2>7. CASE x.id # req[r].id /\ y.id = req[r].id
    <3>1. a = x /\ b.key = IF req[r].to = Absent THEN y.key ELSE req[r].to
      BY <1>4, <2>1, <2>2, <2>7, UpdatedId
    <3> QED
      BY <2>3, <2>7, <3>1 DEF OneRowPerKey
  <2> QED
    BY <2>4, <2>5, <2>6, <2>7
<1>5. ASSUME NEW r \in Request, Delete(r) \/ Rollback(r)
      PROVE  rows' \subseteq rows
  BY <1>5 DEF Delete, OtherIds, Rollback
<1> QED
  BY <1>1, <1>2, <1>3, <1>4, <1>5 DEF Next, vars

\* However calls for one link, watcher or metadata key interleave, renamings
\* among them, there is never a second row for it.
THEOREM UniqueTheorem == Spec => []OneRowPerKey
<1>1. Init => TypeInv /\ IdsName /\ OneRowPerKey
  BY InitInv DEF BookInv
<1> QED
  BY <1>1, Inductive, UniqueStep, PTL DEF Spec

\* The tables of inverse relations: relates_to is its own inverse, and no other
\* inverse is a type of a row.
LEMMA Inverses ==
  /\ DOMAIN LinkTypes = {"parent_of", "blocks", "duplicates", "relates_to"}
  /\ LinkTypes["parent_of"] = "child_of" /\ LinkTypes["blocks"] = "blocked_by"
  /\ LinkTypes["duplicates"] = "duplicate_of" /\ LinkTypes["relates_to"] = "relates_to"
BY DEF LinkTypes

\* What the two pages of a link say.
LEMMA OnPage ==
  ASSUME NEW t, NEW rel, NEW other
  PROVE  [relation |-> rel, other |-> other] \in Page(t)
           <=> \E row \in rows : /\ row.key \in Link
                                 /\ \/ From[row.key] = t /\ To[row.key] = other /\ Type[row.key] = rel
                                    \/ To[row.key] = t /\ From[row.key] = other
                                         /\ LinkTypes[Type[row.key]] = rel
<1> DEFINE out == {x \in rows : x.key \in Link /\ From[x.key] = t}
           in  == {x \in rows : x.key \in Link /\ To[x.key] = t}
           e   == [relation |-> rel, other |-> other]
<1>1. e \in Page(t) <=> \/ \E row \in out : e = [relation |-> Type[row.key], other |-> To[row.key]]
                        \/ \E row \in in : e = [relation |-> Incoming(row.key), other |-> From[row.key]]
  BY Zenon DEF Page
<1>2. \A row : e = [relation |-> Type[row.key], other |-> To[row.key]]
               <=> Type[row.key] = rel /\ To[row.key] = other
  OBVIOUS
<1>3. \A row : e = [relation |-> Incoming(row.key), other |-> From[row.key]]
               <=> LinkTypes[Type[row.key]] = rel /\ From[row.key] = other
  BY DEF Incoming
<1>4. e \in Page(t) <=> \/ \E row \in out : Type[row.key] = rel /\ To[row.key] = other
                        \/ \E row \in in : LinkTypes[Type[row.key]] = rel /\ From[row.key] = other
  BY <1>1, <1>2, <1>3
<1> QED
  BY <1>4

LEMMA Mirror == TypeOK => PagesMirror
<1> SUFFICES ASSUME NEW s \in Ticket, NEW t \in Ticket, NEW rel \in DOMAIN LinkTypes
             PROVE  [relation |-> rel, other |-> t] \in Page(s)
                      <=> [relation |-> LinkTypes[rel], other |-> s] \in Page(t)
  BY DEF PagesMirror
<1>1. \A k \in Link : Type[k] \in DOMAIN LinkTypes
  BY DEF RelationsAssumption
<1>2. \A a, b \in DOMAIN LinkTypes :
        /\ LinkTypes[a] = LinkTypes[b] => a = b
        /\ LinkTypes[a] = b => b = LinkTypes[b] /\ a = b
  BY Inverses
<1>3. \A k \in Link : /\ Type[k] = rel <=> LinkTypes[Type[k]] = LinkTypes[rel]
                      /\ LinkTypes[Type[k]] = rel <=> Type[k] = LinkTypes[rel]
  BY <1>1, <1>2
<1>4. [relation |-> rel, other |-> t] \in Page(s)
        <=> \E row \in rows : /\ row.key \in Link
                              /\ \/ From[row.key] = s /\ To[row.key] = t /\ Type[row.key] = rel
                                 \/ To[row.key] = s /\ From[row.key] = t
                                      /\ LinkTypes[Type[row.key]] = rel
  BY OnPage
<1>5. [relation |-> LinkTypes[rel], other |-> s] \in Page(t)
        <=> \E row \in rows : /\ row.key \in Link
                              /\ \/ From[row.key] = t /\ To[row.key] = s
                                      /\ Type[row.key] = LinkTypes[rel]
                                 \/ To[row.key] = t /\ From[row.key] = s
                                      /\ LinkTypes[Type[row.key]] = LinkTypes[rel]
  BY OnPage
<1> QED
  BY <1>3, <1>4, <1>5

\* On the two pages of a link the relations are inverse to each other.
THEOREM MirrorTheorem == Spec => []PagesMirror
BY TypeCorrect, Mirror, PTL
-----------------------------------------------------------------------------
(* The book                                                                *)

LEMMA EntryOf ==
  ASSUME NEW table, \A a, b \in table : a.key = b.key => a = b, NEW k
  PROVE  /\ (\A row \in table : row.key # k) => Entry(table, k) = Absent
         /\ \A row \in table : row.key = k => Entry(table, k) = row.value
<1> DEFINE found == {row \in table : row.key = k}
<1>1. CASE found = {}
  BY <1>1 DEF Entry
<1>2. CASE found # {}
  <2> DEFINE the == CHOOSE row \in found : TRUE
  <2>1. the \in found
    BY <1>2
  <2>2. Entry(table, k) = the.value
    BY <1>2 DEF Entry
  <2> HIDE DEF the
  <2> QED
    BY <2>1, <2>2
<1> QED
  BY <1>1, <1>2

\* Two tables with the same value for a key have the same entry for it.
LEMMA SameEntry ==
  ASSUME NEW a, NEW b, NEW k,
         \A x, y \in a : x.key = y.key => x = y, \A x, y \in b : x.key = y.key => x = y,
         \A x \in a : x.key = k => \E y \in b : y.key = k /\ y.value = x.value,
         \A y \in b : y.key = k => \E x \in a : x.key = k /\ y.value = x.value
  PROVE  Entry(a, k) = Entry(b, k)
<1>1. CASE \E x \in a : x.key = k
  <2>1. PICK x \in a : x.key = k
    BY <1>1
  <2>2. PICK y \in b : y.key = k /\ y.value = x.value
    BY <2>1
  <2>3. Entry(a, k) = x.value
    BY <2>1, EntryOf
  <2>4. Entry(b, k) = y.value
    BY <2>2, EntryOf
  <2> QED
    BY <2>2, <2>3, <2>4
<1>2. CASE \A x \in a : x.key # k
  <2>1. \A y \in b : y.key # k
    BY <1>2
  <2>2. Entry(a, k) = Absent
    BY <1>2, EntryOf
  <2>3. Entry(b, k) = Absent
    BY <2>1, EntryOf
  <2> QED
    BY <2>2, <2>3
<1> QED
  BY <1>1, <1>2

\* The key of a row by its id.
LEMMA KeysAt ==
  ASSUME NEW table, \A a, b \in table : a.id = b.id => a = b, NEW id
  PROVE  /\ (\A row \in table : row.id # id) => KeysOf(table, id) = {}
         /\ \A row \in table : row.id = id => KeysOf(table, id) = {row.key}
BY DEF KeysOf

LEMMA PhaseOf ==
  ASSUME NEW table, NEW q
  PROVE  /\ q.op = "none" => Phase(table, q) = Book!Idle
         /\ q.op = "insert" => Phase(table, q) = Book!Adding(q.key, q.value)
         /\ q.op = "update" /\ Unchanged(q) => Phase(table, q) = Book!Done
         /\ q.op = "update" /\ ~Unchanged(q) /\ KeysOf(table, q.id) = {} => Phase(table, q) = Book!Lost
         /\ q.op = "delete" /\ KeysOf(table, q.id) = {} => Phase(table, q) = Book!Done
BY DEF Phase, Book!Idle, Book!Adding, Book!Done, Book!Lost

LEMMA PhaseAt ==
  ASSUME NEW table, NEW q, NEW k, KeysOf(table, q.id) = {k}
  PROVE  /\ q.op = "update" => Phase(table, q) = Book!Changing(k, q.to, q.value)
         /\ q.op = "delete" => Phase(table, q) = Book!Removing(k)
<1>1. (CHOOSE x \in KeysOf(table, q.id) : TRUE) = k
  OBVIOUS
<1> QED
  BY <1>1 DEF Phase, Unchanged, Book!Changing, Book!Removing, Book!Done

\* The calls that a step leaves alone stay where they are, as long as the rows
\* that they have found stay under their keys.
LEMMA SamePhase ==
  ASSUME NEW x \in Request, req'[x] = req[x],
         req[x].op \in {"update", "delete"} => KeysOf(rows', req[x].id) = KeysOf(rows, req[x].id)
  PROVE  Phase(rows', req'[x]) = Phase(rows, req[x])
BY DEF Phase

LEMMA Override ==
  ASSUME NEW S, NEW r \in S, NEW e, NEW f, NEW g,
         f = [x \in S |-> f[x]], g = [x \in S |-> g[x]],
         g[r] = e, \A x \in S \ {r} : g[x] = f[x]
  PROVE  g = [f EXCEPT ![r] = e]
OBVIOUS

\* One call moves,
LEMMA CallMoves ==
  ASSUME NEW r \in Request, NEW e, Phase(rows', req'[r]) = e,
         \A x \in Request \ {r} : Phase(rows', req'[x]) = Phase(rows, req[x])
  PROVE  Phases' = [Phases EXCEPT ![r] = e]
<1>1. /\ \A x \in Request : Phases[x] = Phase(rows, req[x]) /\ Phases'[x] = Phase(rows', req'[x])
      /\ Phases = [x \in Request |-> Phases[x]] /\ Phases' = [x \in Request |-> Phases'[x]]
  BY DEF Phases
<1> QED
  BY <1>1, Override

\* or one entry.
LEMMA EntryMoves ==
  ASSUME NEW k \in Key, NEW e, Entry(rows', k) = e,
         \A x \in Key \ {k} : Entry(rows', x) = Entry(rows, x)
  PROVE  Entries' = [Entries EXCEPT ![k] = e]
<1>1. /\ \A x \in Key : Entries[x] = Entry(rows, x) /\ Entries'[x] = Entry(rows', x)
      /\ Entries = [x \in Key |-> Entries[x]] /\ Entries' = [x \in Key |-> Entries'[x]]
  BY DEF Entries
<1> QED
  BY <1>1, Override

\* Without a write the other calls and all entries stay.
LEMMA SameBook ==
  ASSUME TypeInv, rows' = rows, NEW r \in Request, NEW q, req' = [req EXCEPT ![r] = q]
  PROVE  /\ Entries' = Entries
         /\ Phases' = [Phases EXCEPT ![r] = Phase(rows, q)]
<1>1. \A x \in Request : req'[x] = IF x = r THEN q ELSE req[x]
  BY DEF TypeInv, TypeOK
<1>2. Phases' = [Phases EXCEPT ![r] = Phase(rows, q)]
  BY <1>1, CallMoves
<1> QED
  BY <1>2 DEF Entries

LEMMA Here ==
  /\ \A r \in Request : Phases[r] = Phase(rows, req[r])
  /\ \A k \in Key : Entries[k] = Entry(rows, k)
BY DEF Phases, Entries

-----------------------------------------------------------------------------
(* Calls begin and end                                                     *)

LEMMA AddBegins ==
  ASSUME NEW r \in Request, NEW k \in Key, NEW v \in Value, Phases[r] = Book!Idle,
         Phases' = [Phases EXCEPT ![r] = Book!Adding(k, v)], Entries' = Entries, ok' = ok, Entries[k] = Absent
  PROVE  Book!Next
<1>1. Book!Begin(r)
  BY Zenon DEF Book!Begin
<1> QED
  BY <1>1 DEF Book!Next

LEMMA ChangeBegins ==
  ASSUME NEW r \in Request, NEW k \in Key, NEW to \in Key \cup {Absent}, NEW v \in Value \cup {Absent},
         Phases[r] = Book!Idle, Phases' = [Phases EXCEPT ![r] = Book!Changing(k, to, v)],
         Entries' = Entries, ok' = ok, Entries[k] # Absent
  PROVE  Book!Next
<1>1. Book!Begin(r)
  BY Zenon DEF Book!Begin
<1> QED
  BY <1>1 DEF Book!Next

LEMMA RemoveBegins ==
  ASSUME NEW r \in Request, NEW k \in Key, Phases[r] = Book!Idle,
         Phases' = [Phases EXCEPT ![r] = Book!Removing(k)], Entries' = Entries, ok' = ok, Entries[k] # Absent
  PROVE  Book!Next
<1>1. Book!Begin(r)
  BY Zenon DEF Book!Begin
<1> QED
  BY <1>1 DEF Book!Next

\* A call ends with a success: an addition,
LEMMA AddEnds ==
  ASSUME NEW r \in Request, NEW k, NEW v, Phases[r] = Book!Adding(k, v), Entries[k] = Absent,
         Entries' = [Entries EXCEPT ![k] = v], Phases' = [Phases EXCEPT ![r] = Book!Idle],
         ok' = [ok EXCEPT ![r] = TRUE]
  PROVE  Book!Next
<1>1. Phases[r].state = "add" /\ Phases[r].key = k /\ Phases[r].value = v
  BY DEF Book!Adding
<1>2. Book!Add(r)
  BY <1>1 DEF Book!Add
<1> QED
  BY <1>2 DEF Book!Next

\* a removal,
LEMMA RemoveEnds ==
  ASSUME NEW r \in Request, NEW k, Phases[r] = Book!Removing(k), Entries[k] # Absent,
         Entries' = [Entries EXCEPT ![k] = Absent], ok' = [ok EXCEPT ![r] = TRUE],
         Phases' = [x \in Request |-> IF x = r THEN Book!Idle ELSE Book!Misses(Phases[x], k)]
  PROVE  Book!Next
<1>1. Phases[r].state = "remove" /\ Phases[r].key = k
  BY DEF Book!Removing
<1>2. Book!Remove(r)
  BY <1>1, Zenon DEF Book!Remove
<1> QED
  BY <1>2 DEF Book!Next

\* or the answer to one whose effect has happened is given or lost.
LEMMA DoneEnds ==
  ASSUME NEW r \in Request, Phases[r] = Book!Done, Entries' = Entries,
         Phases' = [Phases EXCEPT ![r] = Book!Idle], NEW b \in BOOLEAN, ok' = [ok EXCEPT ![r] = b]
  PROVE  Book!Next
<1>1. Book!Answer(r)
  BY DEF Book!Answer
<1> QED
  BY <1>1 DEF Book!Next

-----------------------------------------------------------------------------
(* Every step is one of the book                                           *)

\* A look-up with nothing to write is answered at once; any other begins a call.
LEMMA LookUpRefines ==
  ASSUME BookInv, NEW r \in Request, NEW u \in User, LookUp(r, u)
  PROVE  Book!Next
<1>0. TypeInv /\ OneRowPerKey /\ rows \subseteq Row
      /\ \A a, b \in rows : a.id = b.id => a = b
  BY DEF BookInv, TypeInv, TypeOK, IdsName
<1>1. CASE Nothing(r)
  <2>1. Book!Trivial(r)
    BY <1>0, <1>1, PhaseOf, Here DEF Nothing, Book!Trivial, Book!Idle, Idle, Phases, Entries
  <2> QED
    BY <2>1 DEF Book!Next
<1>2. ASSUME NEW q, Keep(r, q), Remembers(q)
      PROVE  Book!Next
  <2>0. /\ rows' = rows /\ req' = [req EXCEPT ![r] = q] /\ ok' = ok
        /\ Phases[r] = Book!Idle
    BY <1>2, PhaseOf, Here DEF Keep, Idle
  <2>b. Entries' = Entries /\ Phases' = [Phases EXCEPT ![r] = Phase(rows, q)]
    BY <1>0, <2>0, SameBook
  <2>1. ASSUME NEW k \in Key, NEW v \in Value, RowsOf(k) = {},
               q = [op |-> "insert", key |-> k, value |-> v]
        PROVE  Book!Next
    <3>1. Entries[k] = Absent
      BY <1>0, <2>1, EntryOf, Here DEF RowsOf, OneRowPerKey
    <3>2. Phase(rows, q) = Book!Adding(k, v)
      BY <2>1, PhaseOf
    <3> QED
      BY <2>0, <2>b, <3>1, <3>2, AddBegins
  <2>2. ASSUME NEW row \in rows, NEW to \in Meta \cup {Absent}, NEW v \in Text \cup {Absent},
               q = [op |-> "update", key |-> row.key, id |-> row.id, to |-> to, value |-> v]
        PROVE  Book!Next
    <3>1. /\ row.key \in Key /\ row.value # Absent /\ Entry(rows, row.key) = row.value
          /\ to \in Key \cup {Absent} /\ v \in Value \cup {Absent}
      BY <1>0, EntryOf DEF OneRowPerKey, Row, Key, Value
    <3>2. q.op = "update" /\ q.id = row.id /\ q.to = to /\ q.value = v
      BY <2>2
    <3>3. Phase(rows, q) = Book!Changing(row.key, to, v)
      <4>1. KeysOf(rows, q.id) = {row.key}
        BY <1>0, <3>2, KeysAt
      <4>2. Phase(rows, q) = Book!Changing(row.key, q.to, q.value)
        BY ONLY <3>2, <4>1, PhaseAt
      <4> QED
        BY <3>2, <4>2
    <3>4. Entries[row.key] # Absent
      BY <3>1, Here
    <3> QED
      BY <2>0, <2>b, <3>1, <3>3, <3>4, ChangeBegins
  <2>3. ASSUME NEW row \in rows, q = [op |-> "delete", key |-> row.key, id |-> row.id]
        PROVE  Book!Next
    <3>1. row.key \in Key /\ row.value # Absent /\ Entry(rows, row.key) = row.value
      BY <1>0, EntryOf DEF OneRowPerKey, Row
    <3>2. q.op = "delete" /\ q.id = row.id
      BY <2>3
    <3>3. Phase(rows, q) = Book!Removing(row.key)
      <4>1. KeysOf(rows, q.id) = {row.key}
        BY <1>0, <3>2, KeysAt
      <4> QED
        BY <3>2, <4>1, PhaseAt
    <3>4. Entries[row.key] # Absent
      BY <3>1, Here
    <3> QED
      BY <2>0, <2>b, <3>1, <3>3, <3>4, RemoveBegins
  <2> QED
    BY <1>2, <2>1, <2>2, <2>3 DEF Remembers
<1> QED
  BY <1>0, <1>1, <1>2, LookUpLeaves

LEMMA InsertRefines ==
  ASSUME BookInv, NEW r \in Request, Insert(r)
  PROVE  Book!Next
<1> DEFINE k == req[r].key
           v == req[r].value
           new == [key |-> k, id |-> lastId + 1, value |-> v]
<1>0. TypeInv /\ OneRowPerKey /\ rows \subseteq Row /\ lastId \in Nat
  BY DEF BookInv, TypeInv, TypeOK
<1>1. /\ req[r].op = "insert" /\ k \in Key /\ v \in Value /\ RowsOf(k) = {}
      /\ rows' = rows \cup {new} /\ req' = [req EXCEPT ![r] = Idle] /\ ok' = [ok EXCEPT ![r] = TRUE]
  BY <1>0, RequestShape DEF Insert, Insertable, Commit
<1>2. \A x \in Request : req'[x] = IF x = r THEN Idle ELSE req[x]
  BY <1>0, <1>1 DEF TypeInv, TypeOK
<1>3. \A a, b \in rows' : a.key = b.key => a = b
  BY <1>0, <1>1 DEF OneRowPerKey, RowsOf
<1>4. Entry(rows', k) = v
  <2>1. new \in rows' /\ new.key = k /\ new.value = v
    BY <1>1
  <2> HIDE DEF new, k, v
  <2> QED
    BY <1>3, <2>1, EntryOf
<1>5. ASSUME NEW x \in Key \ {k}
      PROVE  Entry(rows', x) = Entry(rows, x)
  <2>1. \A row \in rows' : row.key = x => row \in rows
    BY <1>1
  <2>2. rows \subseteq rows'
    BY <1>1
  <2>3. \A a, b \in rows : a.key = b.key => a = b
    BY <1>0 DEF OneRowPerKey
  <2> QED
    BY <1>3, <2>1, <2>2, <2>3, SameEntry
<1>6. Entries' = [Entries EXCEPT ![k] = v]
  BY <1>1, <1>4, <1>5, EntryMoves
<1>7. ASSUME NEW x \in Request \ {r}
      PROVE  Phase(rows', req'[x]) = Phase(rows, req[x])
  <2>1. req'[x] = req[x]
    BY <1>2
  <2>2. req[x].op \in {"update", "delete"} => KeysOf(rows', req[x].id) = KeysOf(rows, req[x].id)
    <3>1. new.id = lastId + 1
      OBVIOUS
    <3>2. req[x].op \in {"update", "delete"} => new.id # req[x].id
      BY <1>0, <3>1, RequestShape DEF BookInv, IdsName
    <3> HIDE DEF new
    <3> QED
      BY <1>1, <3>2 DEF KeysOf
  <2> QED
    BY <2>1, <2>2, SamePhase
<1>8. Phases' = [Phases EXCEPT ![r] = Book!Idle]
  BY <1>2, <1>7, PhaseOf, CallMoves DEF Idle
<1>9. Phases[r] = Book!Adding(k, v) /\ Entries[k] = Absent
  <2>1. \A row \in rows : row.key # k
    BY <1>1 DEF RowsOf
  <2>2. Entry(rows, k) = Absent
    BY <1>0, <2>1, EntryOf DEF OneRowPerKey
  <2> QED
    BY <1>1, <2>2, PhaseOf, Here
<1> QED
  BY <1>1, <1>6, <1>8, <1>9, AddEnds

\* What the change of a row's key to t is to the others: they follow it.
LEMMA Following ==
  ASSUME NEW old, NEW new, NEW q \in Req, NEW row \in old, NEW t,
         \A a, b \in old : a.id = b.id => a = b,
         \A a, b \in old : a.key = b.key => a = b,
         KeysOf(new, row.id) = {t},
         \A id : id # row.id => KeysOf(new, id) = KeysOf(old, id)
  PROVE  Phase(new, q) = Book!Follows(Phase(old, q), row.key, t)
<1>0. q.op \in {"none", "insert", "update", "delete"}
  BY DEF Req, Idle
<1>1. CASE q.op = "none" \/ q.op = "insert" \/ (q.op = "update" /\ Unchanged(q))
  <2>1. Phase(new, q) = Phase(old, q)
    BY <1>1, PhaseOf
  <2> QED
    BY <1>1, <2>1, PhaseOf DEF Book!Follows, Book!Idle, Book!Done, Book!Adding
<1>2. CASE q.op = "update" /\ ~Unchanged(q)
  <2>1. CASE \A z \in old : z.id # q.id
    <3>1. KeysOf(old, q.id) = {} /\ KeysOf(new, q.id) = {}
      BY <2>1, KeysAt
    <3>2. Phase(old, q) = Book!Lost /\ Phase(new, q) = Book!Lost
      BY <1>2, <3>1, PhaseOf
    <3> QED
      BY <3>2 DEF Book!Follows, Book!Lost
  <2>2. CASE row.id = q.id
    <3>1. KeysOf(old, q.id) = {row.key} /\ KeysOf(new, q.id) = {t}
      BY <2>2, KeysAt
    <3>2. Phase(old, q) = Book!Changing(row.key, q.to, q.value)
      BY ONLY <1>2, <3>1, PhaseAt
    <3>3. Phase(new, q) = Book!Changing(t, q.to, q.value)
      BY ONLY <1>2, <3>1, PhaseAt
    <3> QED
      BY <1>2, <3>2, <3>3 DEF Book!Follows, Book!Changing, Unchanged
  <2>3. ASSUME NEW z \in old, z # row, z.id = q.id
        PROVE  Phase(new, q) = Book!Follows(Phase(old, q), row.key, t)
    <3>1. KeysOf(old, q.id) = {z.key} /\ KeysOf(new, q.id) = {z.key} /\ z.key # row.key
      BY <2>3, KeysAt
    <3>2. Phase(old, q) = Book!Changing(z.key, q.to, q.value)
      BY ONLY <1>2, <3>1, PhaseAt
    <3>3. Phase(new, q) = Book!Changing(z.key, q.to, q.value)
      BY ONLY <1>2, <3>1, PhaseAt
    <3> QED
      BY <1>2, <3>1, <3>2, <3>3 DEF Book!Follows, Book!Changing, Unchanged
  <2> QED
    BY <2>1, <2>2, <2>3
<1>3. CASE q.op = "delete"
  <2>1. CASE \A z \in old : z.id # q.id
    <3>1. KeysOf(old, q.id) = {} /\ KeysOf(new, q.id) = {}
      BY <2>1, KeysAt
    <3>2. Phase(old, q) = Book!Done /\ Phase(new, q) = Book!Done
      BY <1>3, <3>1, PhaseOf
    <3> QED
      BY <3>2 DEF Book!Follows, Book!Done
  <2>2. CASE row.id = q.id
    <3>1. KeysOf(old, q.id) = {row.key} /\ KeysOf(new, q.id) = {t}
      BY <2>2, KeysAt
    <3>2. Phase(old, q) = Book!Removing(row.key)
      BY <1>3, <3>1, PhaseAt
    <3>3. Phase(new, q) = Book!Removing(t)
      BY <1>3, <3>1, PhaseAt, PhaseOf
    <3> QED
      BY <3>2, <3>3 DEF Book!Follows, Book!Removing
  <2>3. ASSUME NEW z \in old, z # row, z.id = q.id
        PROVE  Phase(new, q) = Book!Follows(Phase(old, q), row.key, t)
    <3>1. KeysOf(old, q.id) = {z.key} /\ KeysOf(new, q.id) = {z.key} /\ z.key # row.key
      BY <2>3, KeysAt
    <3>2. Phase(old, q) = Book!Removing(z.key)
      BY <1>3, <3>1, PhaseAt
    <3>3. Phase(new, q) = Book!Removing(z.key)
      BY <1>3, <3>1, PhaseAt
    <3> QED
      BY <3>1, <3>2, <3>3 DEF Book!Follows, Book!Removing
  <2> QED
    BY <2>1, <2>2, <2>3
<1> QED
  BY <1>0, <1>1, <1>2, <1>3

\* What the removal of a row is to the others: they miss it.
LEMMA Missing ==
  ASSUME NEW old, NEW new, NEW q \in Req, NEW row \in old,
         \A a, b \in old : a.id = b.id => a = b,
         \A a, b \in old : a.key = b.key => a = b,
         KeysOf(new, row.id) = {},
         \A id : id # row.id => KeysOf(new, id) = KeysOf(old, id)
  PROVE  Phase(new, q) = Book!Misses(Phase(old, q), row.key)
<1>0. q.op \in {"none", "insert", "update", "delete"}
  BY DEF Req, Idle
<1>1. CASE q.op = "none" \/ q.op = "insert" \/ (q.op = "update" /\ Unchanged(q))
  <2>1. Phase(new, q) = Phase(old, q)
    BY <1>1, PhaseOf
  <2> QED
    BY <1>1, <2>1, PhaseOf DEF Book!Misses, Book!Idle, Book!Done, Book!Adding
<1>2. CASE q.op = "update" /\ ~Unchanged(q)
  <2>1. CASE \A z \in old : z.id # q.id
    <3>1. KeysOf(old, q.id) = {} /\ KeysOf(new, q.id) = {}
      BY <2>1, KeysAt
    <3>2. Phase(old, q) = Book!Lost /\ Phase(new, q) = Book!Lost
      BY <1>2, <3>1, PhaseOf
    <3> QED
      BY <3>2 DEF Book!Misses, Book!Lost
  <2>2. CASE row.id = q.id
    <3>1. KeysOf(old, q.id) = {row.key} /\ KeysOf(new, q.id) = {}
      BY <2>2, KeysAt
    <3>2. Phase(old, q) = Book!Changing(row.key, q.to, q.value)
      BY ONLY <1>2, <3>1, PhaseAt
    <3>3. Phase(new, q) = Book!Lost
      BY <1>2, <3>1, PhaseAt, PhaseOf
    <3> QED
      BY <1>2, <3>2, <3>3 DEF Book!Misses, Book!Changing, Unchanged
  <2>3. ASSUME NEW z \in old, z # row, z.id = q.id
        PROVE  Phase(new, q) = Book!Misses(Phase(old, q), row.key)
    <3>1. KeysOf(old, q.id) = {z.key} /\ KeysOf(new, q.id) = {z.key} /\ z.key # row.key
      BY <2>3, KeysAt
    <3>2. Phase(old, q) = Book!Changing(z.key, q.to, q.value)
      BY ONLY <1>2, <3>1, PhaseAt
    <3>3. Phase(new, q) = Book!Changing(z.key, q.to, q.value)
      BY ONLY <1>2, <3>1, PhaseAt
    <3> QED
      BY <1>2, <3>1, <3>2, <3>3 DEF Book!Misses, Book!Changing, Unchanged
  <2> QED
    BY <2>1, <2>2, <2>3
<1>3. CASE q.op = "delete"
  <2>1. CASE \A z \in old : z.id # q.id
    <3>1. KeysOf(old, q.id) = {} /\ KeysOf(new, q.id) = {}
      BY <2>1, KeysAt
    <3>2. Phase(old, q) = Book!Done /\ Phase(new, q) = Book!Done
      BY <1>3, <3>1, PhaseOf
    <3> QED
      BY <3>2 DEF Book!Misses, Book!Done
  <2>2. CASE row.id = q.id
    <3>1. KeysOf(old, q.id) = {row.key} /\ KeysOf(new, q.id) = {}
      BY <2>2, KeysAt
    <3>2. Phase(old, q) = Book!Removing(row.key)
      BY <1>3, <3>1, PhaseAt
    <3>3. Phase(new, q) = Book!Done
      BY <1>3, <3>1, PhaseAt, PhaseOf
    <3> QED
      BY <3>2, <3>3 DEF Book!Misses, Book!Removing
  <2>3. ASSUME NEW z \in old, z # row, z.id = q.id
        PROVE  Phase(new, q) = Book!Misses(Phase(old, q), row.key)
    <3>1. KeysOf(old, q.id) = {z.key} /\ KeysOf(new, q.id) = {z.key} /\ z.key # row.key
      BY <2>3, KeysAt
    <3>2. Phase(old, q) = Book!Removing(z.key)
      BY <1>3, <3>1, PhaseAt
    <3>3. Phase(new, q) = Book!Removing(z.key)
      BY <1>3, <3>1, PhaseAt
    <3> QED
      BY <3>1, <3>2, <3>3 DEF Book!Misses, Book!Removing
  <2> QED
    BY <2>1, <2>2, <2>3
<1> QED
  BY <1>0, <1>1, <1>2, <1>3

\* A change writes the row that was found, whose entry it changes; it is
\* answered, and everybody else after that row follows it.
LEMMA UpdateRefines ==
  ASSUME BookInv, NEW r \in Request, Update(r)
  PROVE  Book!Next
<1> DEFINE q == req[r]
<1>0. /\ TypeInv /\ IdsName /\ OneRowPerKey /\ rows \subseteq Row /\ Meta \subseteq Key
      /\ \A a, b \in rows : a.id = b.id => a = b
      /\ \A a, b \in rows : a.key = b.key => a = b
  BY DEF BookInv, TypeInv, TypeOK, Key, IdsName, OneRowPerKey
<1>1. /\ q.op = "update" /\ q.to \in Meta \cup {Absent} /\ q.value \in Text \cup {Absent}
      /\ req' = [req EXCEPT ![r] = Idle] /\ ok' = [ok EXCEPT ![r] = TRUE]
  BY <1>0, RequestShape DEF Update, Commit
<1>2. \A x \in Request : req'[x] = IF x = r THEN Idle ELSE req[x]
  BY <1>0, <1>1 DEF TypeInv, TypeOK
<1>3. /\ \A a, b \in rows' : a.id = b.id => a = b
      /\ \A a, b \in rows' : a.key = b.key => a = b
  <2>1. [Next]_vars
    BY DEF Next
  <2> QED
    BY <1>0, <2>1, IdsStep, UniqueStep DEF IdsName, OneRowPerKey
<1>4. Phase(rows', req'[r]) = Book!Idle
  BY <1>2, PhaseOf DEF Idle, Book!Idle
<1>5. CASE Unchanged(q)
  <2>1. rows' = rows
    BY <1>5 DEF Update
  <2>2. Entries' = Entries /\ Phases' = [Phases EXCEPT ![r] = Book!Idle]
    BY <1>0, <1>1, <1>2, <1>4, <2>1, SameBook
  <2>3. Phases[r] = Book!Done
    BY <1>1, <1>5, PhaseOf, Here
  <2> QED
    BY <1>1, <2>2, <2>3, DoneEnds
<1>6. CASE ~Unchanged(q)
  <2>1. /\ rows' = {IF x.id = q.id THEN Written(q, x) ELSE x : x \in rows}
        /\ \A x \in rows : x.key = q.to => x.id = q.id
    BY <1>6 DEF Update, UpdateMatches, RowsOf
  <2>2. PICK row \in rows : row.id = q.id
    BY <1>6 DEF Update, UpdateMatches
  <2> DEFINE k == row.key
             t == IF q.to = Absent THEN k ELSE q.to
             w == IF q.value = Absent THEN row.value ELSE q.value
             new == Written(q, row)
  <2>3. k \in Key /\ t \in Key /\ row.value # Absent /\ (t # k => q.to = t)
    BY <1>0, <1>1, <2>2 DEF Row
  <2>4. new.id = row.id /\ new.key = t /\ new.value = w
    BY <1>0, <2>2, UpdatedId
  <2>5. /\ new \in rows'
        /\ \A x \in rows : x # row => x \in rows' /\ x.id # row.id /\ x.key # k
        /\ \A y \in rows' : y = new \/ (y \in rows /\ y # row)
    BY <1>0, <2>1, <2>2
  <2>6. \A x \in rows : x # row => x.key # t
    BY <1>0, <2>1, <2>2
  <2>7. Phases[r] = Book!Changing(k, q.to, q.value)
    <3>1. KeysOf(rows, q.id) = {row.key}
      BY <1>0, <2>2, KeysAt
    <3>2. Phase(rows, q) = Book!Changing(row.key, q.to, q.value)
      BY ONLY <1>1, <3>1, PhaseAt
    <3> QED
      BY <3>2, Here
  <2>8. q.to # Absent \/ q.value # Absent
    BY <1>6 DEF Unchanged
  <2> HIDE DEF new, t, w, k
  <2>9. Entry(rows', t) = w
    BY <1>3, <2>4, <2>5, EntryOf
  <2>10. k # t => Entry(rows', k) = Absent
    BY <1>3, <2>4, <2>5, EntryOf
  <2>11. ASSUME NEW y \in Key, y # k, y # t
         PROVE  Entry(rows', y) = Entry(rows, y)
    <3>1. \A x \in rows : x.key = y => x \in rows'
      BY <2>5, <2>11 DEF k
    <3>2. \A x \in rows' : x.key = y => x \in rows
      BY <2>4, <2>5, <2>11
    <3> QED
      BY <1>0, <1>3, <3>1, <3>2, SameEntry
  <2>12. Entries' = [x \in Key |-> IF x = t THEN w ELSE IF x = k THEN Absent ELSE Entries[x]]
    BY <2>9, <2>10, <2>11 DEF Entries
  <2>13. Entries[k] = row.value /\ (t = k \/ Entries[t] = Absent)
    <3>1. Entry(rows, k) = row.value
      BY <1>0, EntryOf DEF k
    <3>2. t # k => Entry(rows, t) = Absent
      BY <1>0, <2>6, EntryOf DEF k
    <3> QED
      BY <2>3, <3>1, <3>2, Here
  <2>14. KeysOf(rows', row.id) = {t}
    BY <1>3, <2>4, <2>5, KeysAt
  <2>15. ASSUME NEW id, id # row.id
         PROVE  KeysOf(rows', id) = KeysOf(rows, id)
    BY <2>4, <2>5, <2>15 DEF KeysOf
  <2>16. ASSUME NEW x \in Request \ {r}
         PROVE  Phase(rows', req'[x]) = Book!Follows(Phase(rows, req[x]), k, t)
    <3>1. req'[x] = req[x] /\ req[x] \in Req
      BY <1>0, <1>2 DEF TypeInv, TypeOK
    <3>2. /\ row \in rows
          /\ \A a, b \in rows : a.id = b.id => a = b
          /\ \A a, b \in rows : a.key = b.key => a = b
          /\ \A id : id # row.id => KeysOf(rows', id) = KeysOf(rows, id)
      BY <1>0, <2>15
    <3>3. Phase(rows', req[x]) = Book!Follows(Phase(rows, req[x]), row.key, t)
      BY ONLY <2>14, <3>1, <3>2, Following
    <3> QED
      BY <3>1, <3>3 DEF k
  <2>17. Phases' = [x \in Request |-> IF x = r THEN Book!Idle ELSE Book!Follows(Phases[x], k, t)]
    BY <1>4, <2>16 DEF Phases
  <2>18. /\ t = IF q.to = Absent THEN k ELSE q.to
         /\ w = IF q.value = Absent THEN Entries[k] ELSE q.value
    BY <2>13 DEF t, w
  <2>19. Book!Change(r)
    <3>1. /\ Phases[r].state = "change" /\ Phases[r].key = k
          /\ Phases[r].to = q.to /\ Phases[r].value = q.value
      BY <2>7, <2>8 DEF Book!Changing
    <3> HIDE DEF q
    <3> QED
      BY <1>1, <2>12, <2>13, <2>17, <2>18, <3>1 DEF Book!Change
  <2> QED
    BY <2>19 DEF Book!Next
<1> QED
  BY <1>5, <1>6

\* The removal of a row takes its entry, serves everybody who waits for it, and
\* loses whoever would change it; one that comes too late has been served.
LEMMA DeleteRefines ==
  ASSUME BookInv, NEW r \in Request, Delete(r)
  PROVE  Book!Next
<1> DEFINE q == req[r]
<1>0. /\ TypeInv /\ IdsName /\ OneRowPerKey /\ rows \subseteq Row
      /\ \A a, b \in rows : a.id = b.id => a = b
      /\ \A a, b \in rows : a.key = b.key => a = b
  BY DEF BookInv, TypeInv, TypeOK, IdsName, OneRowPerKey
<1>1. /\ q.op = "delete" /\ rows' = {row \in rows : row.id # q.id}
      /\ req' = [req EXCEPT ![r] = Idle] /\ ok' = [ok EXCEPT ![r] = TRUE]
  BY <1>0 DEF Delete, OtherIds, Commit
<1>2. \A x \in Request : req'[x] = IF x = r THEN Idle ELSE req[x]
  BY <1>0, <1>1 DEF TypeInv, TypeOK
<1>3. Phase(rows', req'[r]) = Book!Idle
  BY <1>2, PhaseOf DEF Idle, Book!Idle
<1>4. CASE \A row \in rows : row.id # q.id
  <2>1. rows' = rows
    BY <1>1, <1>4
  <2>2. Entries' = Entries /\ Phases' = [Phases EXCEPT ![r] = Book!Idle]
    BY <1>0, <1>1, <1>2, <1>3, <2>1, SameBook
  <2>3. Phases[r] = Book!Done
    BY <1>0, <1>1, <1>4, KeysAt, PhaseOf, Here
  <2> QED
    BY <1>1, <2>2, <2>3, DoneEnds
<1>5. ASSUME NEW row \in rows, row.id = q.id
      PROVE  Book!Next
  <2>1. row.key \in Key /\ row.value # Absent
    BY <1>0 DEF Row
  <2>2. \A x \in rows : x # row <=> x \in rows'
    BY <1>0, <1>1, <1>5
  <2>3. rows' \subseteq rows
    BY <1>1
  <2>4. Phases[r] = Book!Removing(row.key)
    <3>1. KeysOf(rows, q.id) = {row.key}
      BY <1>0, <1>5, KeysAt
    <3>2. Phase(rows, q) = Book!Removing(row.key)
      BY ONLY <1>1, <3>1, PhaseAt
    <3> QED
      BY <3>2, Here
  <2>5. Entries[row.key] # Absent
    BY <1>0, <2>1, EntryOf, Here
  <2>6. Entry(rows', row.key) = Absent
    <3>1. \A x \in rows' : x.key # row.key
      BY <1>0, <2>2, <2>3
    <3>2. \A a, b \in rows' : a.key = b.key => a = b
      BY <1>0, <2>3
    <3> QED
      BY <3>1, <3>2, EntryOf
  <2>7. ASSUME NEW y \in Key \ {row.key}
        PROVE  Entry(rows', y) = Entry(rows, y)
    <3>1. \A x \in rows : x.key = y => x \in rows'
      BY <2>2
    <3> QED
      BY <1>0, <2>3, <3>1, SameEntry
  <2>8. Entries' = [Entries EXCEPT ![row.key] = Absent]
    BY <2>1, <2>6, <2>7, EntryMoves
  <2>9. KeysOf(rows', row.id) = {}
    BY <1>1, <1>5 DEF KeysOf
  <2>10. ASSUME NEW id, id # row.id
         PROVE  KeysOf(rows', id) = KeysOf(rows, id)
    BY <1>1, <1>5, <2>10 DEF KeysOf
  <2>11. ASSUME NEW x \in Request \ {r}
         PROVE  Phase(rows', req'[x]) = Book!Misses(Phase(rows, req[x]), row.key)
    <3>1. req'[x] = req[x] /\ req[x] \in Req
      BY <1>0, <1>2 DEF TypeInv, TypeOK
    <3> QED
      BY <1>0, <2>9, <2>10, <3>1, Missing
  <2>12. Phases' = [x \in Request |-> IF x = r THEN Book!Idle ELSE Book!Misses(Phases[x], row.key)]
    BY <1>3, <2>11 DEF Phases
  <2> QED
    BY <1>1, <2>4, <2>5, <2>8, <2>12, RemoveEnds
<1> QED
  BY <1>4, <1>5

LEMMA RollbackRefines ==
  ASSUME BookInv, NEW r \in Request, Rollback(r)
  PROVE  Book!Next
<1> DEFINE q == req[r]
<1>0. TypeInv /\ \A a, b \in rows : a.id = b.id => a = b
  BY DEF BookInv, IdsName
<1>1. /\ q.op \in {"insert", "update", "delete"} /\ rows' = rows
      /\ req' = [req EXCEPT ![r] = Idle] /\ ok' = [ok EXCEPT ![r] = FALSE]
  BY <1>0, RequestShape DEF Rollback
<1>2. Phase(rows, Idle) = Book!Idle
  BY PhaseOf DEF Idle, Book!Idle
<1>3. Entries' = Entries /\ Phases' = [Phases EXCEPT ![r] = Book!Idle]
  BY <1>0, <1>1, <1>2, SameBook
<1>4. Phase(rows, q) = Book!Done \/ Phase(rows, q).state \in {"add", "change", "remove", "lost"}
  BY <1>1 DEF Phase, Book!Done
<1>5. CASE Phases[r] = Book!Done
  BY <1>1, <1>3, <1>5, DoneEnds
<1>6. CASE Phases[r].state \in {"add", "change", "remove", "lost"}
  <2>1. Book!Fail(r)
    BY <1>1, <1>3, <1>6 DEF Book!Fail
  <2> QED
    BY <2>1 DEF Book!Next
<1> QED
  BY <1>4, <1>5, <1>6, Here

LEMMA BookStep == BookInv /\ [Next]_vars => BookInv' /\ [Book!Next]_(Book!vars)
<1>1. BookInv /\ [Next]_vars => BookInv'
  BY Inductive, UniqueStep DEF BookInv
<1>2. BookInv /\ UNCHANGED vars => UNCHANGED Book!vars
  BY DEF vars, Book!vars, Entries, Phases
<1> QED
  BY <1>1, <1>2, LookUpRefines, InsertRefines, UpdateRefines, DeleteRefines, RollbackRefines
  DEF Next

LEMMA BookInit == Init => Book!Init
<1> SUFFICES ASSUME Init
             PROVE  Book!Init
  OBVIOUS
<1>1. \A k \in Key : Entry(rows, k) = Absent
  BY EntryOf DEF Init
<1>2. \A r \in Request : Phase(rows, req[r]) = Book!Idle
  BY PhaseOf DEF Init, Idle, Book!Idle
<1> QED
  BY <1>1, <1>2 DEF Init, Book!Init, Entries, Phases

\* Whatever interleaves, renamings by the administration among it, every call for
\* links, watchers or metadata is answered as if there were one book with one
\* entry per key, in which a call that found an entry stays with it.
THEOREM BookTheorem == Spec => ImplementsBook
BY InitInv, BookInit, BookStep, PTL DEF Spec, ImplementsBook, Book!Spec

=============================================================================
