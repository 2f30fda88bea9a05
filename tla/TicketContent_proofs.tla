------------------------- MODULE TicketContent_proofs -------------------------
(***************************************************************************)
(* Theorems about TicketContent for any tickets, users, comments, files    *)
(* and number of concurrent requests.                                      *)
(***************************************************************************)
EXTENDS TicketContent, TLAPS

Creating == [op: {"create"}, by: User, comment: Comment, vis: Visibilities, body: Body,
             names: SUBSET User, at: Stamp]
Editing == [op: {"edit"}, by: User, comment: Comment, body: Body, old: Body, at: Stamp]
Deleting == [op: {"delete"}, by: User, comment: Comment]
Registering == [op: {"register"}, by: User, comment: Comment, key: Key]
Detaching == [op: {"detach"}, by: User, attachment: Attachment]

\* What a handler remembers, by the operation it is in.
LEMMA Shape ==
  ASSUME TypeOK, NEW r \in Request
  PROVE  /\ req[r].op = "create" => req[r] \in Creating
         /\ req[r].op = "edit" => req[r] \in Editing
         /\ req[r].op = "delete" => req[r] \in Deleting
         /\ req[r].op = "register" => req[r] \in Registering
         /\ req[r].op = "detach" => req[r] \in Detaching
<1>1. req[r] \in {Idle} \cup Creating \cup Editing \cup Deleting \cup Registering \cup Detaching
  BY DEF TypeOK, Req, Creating, Editing, Deleting, Registering, Detaching
<1>2. /\ Idle.op = "none"
      /\ \A q \in Creating : q.op = "create"
      /\ \A q \in Editing : q.op = "edit"
      /\ \A q \in Deleting : q.op = "delete"
      /\ \A q \in Registering : q.op = "register"
      /\ \A q \in Detaching : q.op = "detach"
  BY DEF Idle, Creating, Editing, Deleting, Registering, Detaching
<1> QED
  BY <1>1, <1>2

\* A request loads its rows, and ends.
LEMMA Keeps ==
  ASSUME TypeOK, NEW r \in Request, NEW q \in Req, quota > 0, Keep(r, q)
  PROVE  /\ TypeOK'
         /\ \A x \in Request : req'[x] = IF x = r THEN q ELSE req[x]
<1>1. req \in [Request -> Req] /\ req' = [req EXCEPT ![r] = q]
  BY DEF TypeOK, Keep
<1>2. req' \in [Request -> Req] /\ \A x \in Request : req'[x] = IF x = r THEN q ELSE req[x]
  BY <1>1
<1>3. quota' \in 0..MaxRequests
  BY ContentAssumption DEF TypeOK, Keep
<1>4. UNCHANGED <<ticket, comment, onRecord, attachment, signed, stored, outbox, inbox, sent>>
  BY DEF Keep
<1> QED
  BY <1>2, <1>3, <1>4 DEF TypeOK

LEMMA Commits ==
  ASSUME TypeOK, NEW r \in Request, NEW op, Commit(r, op)
  PROVE  /\ req' \in [Request -> Req] /\ sent' \subseteq Request
         /\ \A x \in Request : req'[x] = IF x = r THEN Idle ELSE req[x]
BY DEF TypeOK, Commit, Req

\* The references between the tables and the requests in flight.
Refs ==
  /\ \A c \in Comment : IF comment[c].state = "none" THEN comment[c] = NoComment ELSE comment[c].body \in Body
  /\ \A r \in Request : /\ req[r].op \in {"edit", "delete", "register"} => comment[req[r].comment].state # "none"
                        /\ req[r].op = "create" => comment[req[r].comment].state = "none"
                        /\ req[r].op = "detach" => attachment[req[r].attachment].state # "none"
  /\ \A r, x \in Request : req[r].op = "create" /\ req[x].op = "create" /\ req[r].comment = req[x].comment => r = x
  /\ \A m \in outbox : comment[m.about].state # "none" => m.vis = comment[m.about].vis
  /\ \A r \in Request, m \in outbox : req[r].op = "create" /\ m.about = req[r].comment => m.vis = req[r].vis

TypeInv == TypeOK /\ Refs

LEMMA InitType == Init => TypeInv
<1> SUFFICES ASSUME Init PROVE TypeInv
  OBVIOUS
<1>1. TypeOK
  <2>1. NoRecord \in Record
    BY ContentAssumption DEF NoRecord, Record, Stamp
  <2> QED
    BY <2>1, ContentAssumption DEF Init, TypeOK, NoComment, CommentRow, Visibilities, Req
<1>2. Refs
  BY DEF Init, Refs, NoComment, Idle
<1> QED
  BY <1>1, <1>2 DEF TypeInv
-----------------------------------------------------------------------------
(* Loading                                                                 *)

LEMMA LoadStep ==
  ASSUME TypeInv, NEW r \in Request, NEW q \in Req, quota > 0, Keep(r, q),
         q.op \in {"edit", "delete", "register"} => comment[q.comment].state # "none",
         q.op = "create" => /\ comment[q.comment].state = "none"
                            /\ \A x \in Request : req[x].op = "create" => req[x].comment # q.comment
                            /\ \A m \in outbox : m.about # q.comment,
         q.op = "detach" => attachment[q.attachment].state # "none"
  PROVE  TypeInv'
<1>1. TypeOK' /\ \A x \in Request : req'[x] = IF x = r THEN q ELSE req[x]
  BY Keeps DEF TypeInv
<1>2. UNCHANGED <<ticket, comment, onRecord, attachment, signed, stored, outbox, inbox, sent>>
  BY DEF Keep
<1>3. Refs'
  BY <1>1, <1>2 DEF TypeInv, Refs
<1> QED
  BY <1>1, <1>3 DEF TypeInv

LEMMA HandleStep ==
  ASSUME TypeInv, NEW r \in Request, NEW u \in User, Handle(r, u)
  PROVE  TypeInv'
<1>0. TypeOK /\ Refs /\ quota > 0
  BY DEF TypeInv, Handle
<1>s. quota \in Stamp
  BY <1>0, ContentAssumption DEF TypeOK, Stamp
<1>1. ASSUME NEW c \in Comment, NEW vis \in Visibilities, NEW b \in Body, NEW names \in Mentions,
             CreateComment(r, u, c, vis, b, names)
      PROVE  TypeInv'
  <2> DEFINE q == [op |-> "create", by |-> u, comment |-> c, vis |-> vis, body |-> b, names |-> names,
                   at |-> quota]
  <2>1. q \in Req /\ q.op = "create" /\ q.comment = c
    BY <1>s, ContentAssumption DEF Req
  <2>2. /\ Keep(r, q) /\ comment[c].state = "none"
        /\ \A x \in Request : req[x].op = "create" => req[x].comment # c
        /\ \A m \in outbox : m.about # c
    BY <1>1 DEF CreateComment, NoComment
  <2> HIDE DEF q
  <2> QED
    BY <1>0, <2>1, <2>2, LoadStep
<1>2. ASSUME NEW c \in Comment, NEW b \in Body, EditComment(r, u, c, b)
      PROVE  TypeInv'
  <2> DEFINE q == [op |-> "edit", by |-> u, comment |-> c, body |-> b, old |-> comment[c].body, at |-> quota]
  <2>1. comment[c].state # "none" /\ Keep(r, q)
    BY <1>2 DEF EditComment, OwnComment
  <2>2. comment[c].body \in Body
    BY <1>0, <2>1 DEF Refs
  <2>3. q \in Req /\ q.op = "edit" /\ q.comment = c
    BY <1>s, <2>2 DEF Req
  <2> HIDE DEF q
  <2> QED
    BY <1>0, <2>1, <2>3, LoadStep
<1>3. ASSUME NEW c \in Comment, DeleteComment(r, u, c)
      PROVE  TypeInv'
  <2> DEFINE q == [op |-> "delete", by |-> u, comment |-> c]
  <2>1. q \in Req /\ q.op = "delete" /\ q.comment = c
    BY DEF Req
  <2>2. comment[c].state # "none" /\ Keep(r, q)
    BY <1>3 DEF DeleteComment, OwnComment
  <2> HIDE DEF q
  <2> QED
    BY <1>0, <2>1, <2>2, LoadStep
<1>4. ASSUME NEW c \in Comment, NEW k \in Key, RegisterAttachment(r, u, c, k)
      PROVE  TypeInv'
  <2> DEFINE q == [op |-> "register", by |-> u, comment |-> c, key |-> k]
  <2>1. q \in Req /\ q.op = "register" /\ q.comment = c
    BY DEF Req
  <2>2. comment[c].state # "none" /\ Keep(r, q)
    BY <1>4 DEF RegisterAttachment
  <2> HIDE DEF q
  <2> QED
    BY <1>0, <2>1, <2>2, LoadStep
<1>5. ASSUME NEW a \in Attachment, DeleteAttachment(r, u, a)
      PROVE  TypeInv'
  <2> DEFINE q == [op |-> "detach", by |-> u, attachment |-> a]
  <2>1. q \in Req /\ q.op = "detach" /\ q.attachment = a
    BY DEF Req
  <2>2. attachment[a].state # "none" /\ Keep(r, q)
    BY <1>5 DEF DeleteAttachment, Fetchable
  <2> HIDE DEF q
  <2> QED
    BY <1>0, <2>1, <2>2, LoadStep
<1> QED
  BY <1>1, <1>2, <1>3, <1>4, <1>5 DEF Handle
-----------------------------------------------------------------------------
(* Committing                                                              *)

LEMMA IdleType == Idle \in Req /\ Idle.op = "none"
BY DEF Idle, Req

\* The payload of a task.
LEMMA Announced ==
  ASSUME TypeOK, NEW r \in Request, req[r].op \in {"create", "edit", "delete"}
  PROVE  /\ Announcement(req[r]) \in Task /\ Announcement(req[r]).about = req[r].comment
         /\ Announcement(req[r]).vis = IF req[r].op = "create" THEN req[r].vis ELSE comment[req[r].comment].vis
<1>1. CASE req[r].op = "create"
  BY <1>1, Shape DEF Announcement, Creating, Task
<1>2. CASE req[r].op \in {"edit", "delete"}
  <2>1. req[r].comment \in Comment /\ req[r].by \in User
    BY <1>2, Shape DEF Editing, Deleting
  <2>2. comment[req[r].comment].vis \in Visibilities
    BY <2>1 DEF TypeOK, CommentRow
  <2> QED
    BY <1>2, <2>1, <2>2 DEF Announcement, Task
<1> QED
  BY <1>1, <1>2

\* An audit row extends the trail by a stamp.
LEMMA RecordedType ==
  ASSUME TypeOK, NEW r \in Request, req[r].op \in {"create", "edit"}
  PROVE  Recorded(req[r]) \in Record
<1>1. req[r].comment \in Comment /\ req[r].body \in Body /\ req[r].at \in Stamp
  BY Shape DEF Creating, Editing
<1>2. onRecord[req[r].comment].end \in [body: Body \cup {NoBody}, at: Stamp] /\ quota \in 0..MaxRequests
  BY <1>1 DEF TypeOK, Record
<1> QED
  BY <1>1, <1>2 DEF Recorded, Record

\* A comment's row is replaced and its task published, if it has not been sent.
LEMMA CommentStep ==
  ASSUME TypeInv, NEW r \in Request, NEW op \in {"create", "edit", "delete"}, Commit(r, op),
         NEW c \in Comment, c = req[r].comment, NEW row \in CommentRow,
         comment' = [comment EXCEPT ![c] = row], row.state # "none", row.body \in Body,
         row.vis = IF op = "create" THEN req[r].vis ELSE comment[c].vis,
         onRecord' \in [Comment -> Record], UNCHANGED attachment, PublishOnCommit(r)
  PROVE  TypeInv'
<1>0. TypeOK /\ Refs
  BY DEF TypeInv
<1>1. /\ req' \in [Request -> Req] /\ sent' \subseteq Request
      /\ \A x \in Request : req'[x] = IF x = r THEN Idle ELSE req[x]
  BY <1>0, Commits
<1>2. /\ comment' \in [Comment -> CommentRow]
      /\ \A d \in Comment : comment'[d] = IF d = c THEN row ELSE comment[d]
  BY <1>0 DEF TypeOK
<1>3. UNCHANGED <<ticket, signed, stored, inbox, quota>>
  BY DEF Commit
<1> DEFINE new == Announcement(req[r])
<1>4. outbox' = outbox \cup (IF r \in sent THEN {} ELSE {new})
  BY DEF PublishOnCommit
<1>5. new \in Task /\ new.about = c /\ new.vis = row.vis
  BY <1>0, Announced DEF Commit
<1> HIDE DEF new
<1>6. TypeOK'
  BY <1>0, <1>1, <1>2, <1>3, <1>4, <1>5 DEF TypeOK
<1>7. \A m \in outbox : m.about \in Comment
  BY <1>0 DEF TypeOK, Task
<1>8. \A x \in Request : x # r => /\ req[x].op = "create" => req[x].comment # c
                                  /\ req[x].op \in {"create", "edit", "delete", "register"} => req[x].comment \in Comment
  <2> TAKE x \in Request
  <2> HAVE x # r
  <2>1. req[x].op \in {"create", "edit", "delete", "register"} => req[x].comment \in Comment
    BY <1>0, Shape DEF Creating, Editing, Deleting, Registering
  <2>2. CASE op = "create"
    BY <1>0, <2>1, <2>2 DEF Refs, Commit
  <2>3. CASE op \in {"edit", "delete"}
    BY <1>0, <2>1, <2>3 DEF Refs, Commit
  <2> QED
    BY <2>1, <2>2, <2>3
<1>9. Refs'
  <2>1. \A d \in Comment :
          IF comment'[d].state = "none" THEN comment'[d] = NoComment ELSE comment'[d].body \in Body
    BY <1>0, <1>2 DEF Refs
  <2>2. \A x \in Request :
          /\ req'[x].op \in {"edit", "delete", "register"} => comment'[req'[x].comment].state # "none"
          /\ req'[x].op = "create" => comment'[req'[x].comment].state = "none"
          /\ req'[x].op = "detach" => attachment'[req'[x].attachment].state # "none"
    <3> TAKE x \in Request
    <3>1. CASE x = r
      BY <1>1, <3>1, IdleType
    <3>2. CASE x # r
      <4>1. req'[x] = req[x]
        BY <1>1, <3>2
      <4>2. /\ req[x].op \in {"edit", "delete", "register"} => comment[req[x].comment].state # "none"
            /\ req[x].op = "create" => comment[req[x].comment].state = "none"
            /\ req[x].op = "detach" => attachment[req[x].attachment].state # "none"
        BY <1>0 DEF Refs
      <4>3. /\ req[x].op = "create" => req[x].comment # c
            /\ req[x].op \in {"create", "edit", "delete", "register"} => req[x].comment \in Comment
        BY <1>8, <3>2
      <4>4. req[x].op \in {"edit", "delete", "register"} => comment'[req[x].comment].state # "none"
        BY <1>2, <4>2, <4>3
      <4>5. req[x].op = "create" => comment'[req[x].comment].state = "none"
        BY <1>2, <4>2, <4>3
      <4> QED
        BY <4>1, <4>2, <4>4, <4>5
    <3> QED
      BY <3>1, <3>2
  <2>3. \A x, y \in Request :
          req'[x].op = "create" /\ req'[y].op = "create" /\ req'[x].comment = req'[y].comment => x = y
    BY <1>0, <1>1, IdleType DEF Refs
  <2>4. \A m \in outbox : m.about = c => m.vis = row.vis
    <3>1. CASE op = "create"
      BY <1>0, <3>1 DEF Refs, Commit
    <3>2. CASE op \in {"edit", "delete"}
      <4>1. comment[c].state # "none"
        BY <1>0, <3>2 DEF Refs, Commit
      <4> QED
        BY <1>0, <3>2, <4>1 DEF Refs
    <3> QED
      BY <3>1, <3>2
  <2>5. \A m \in outbox' : comment'[m.about].state # "none" => m.vis = comment'[m.about].vis
    <3> TAKE m \in outbox'
    <3>1. CASE m \in outbox /\ m.about # c
      <4>1. comment'[m.about] = comment[m.about]
        BY <1>2, <1>7, <3>1
      <4> QED
        BY <1>0, <3>1, <4>1 DEF Refs
    <3>2. CASE m \in outbox /\ m.about = c
      BY <1>2, <2>4, <3>2
    <3>3. CASE m = new
      BY <1>2, <1>5, <3>3
    <3> QED
      BY <1>4, <3>1, <3>2, <3>3
  <2>6. \A x \in Request, m \in outbox' :
          req'[x].op = "create" /\ m.about = req'[x].comment => m.vis = req'[x].vis
    <3> TAKE x \in Request, m \in outbox'
    <3>1. CASE x = r
      BY <1>1, <3>1, IdleType
    <3>2. CASE x # r
      BY <1>0, <1>1, <1>4, <1>5, <1>8, <3>2 DEF Refs
    <3> QED
      BY <3>1, <3>2
  <2> QED
    BY <2>1, <2>2, <2>3, <2>5, <2>6 DEF Refs
<1> QED
  BY <1>6, <1>9 DEF TypeInv

LEMMA CreateStep ==
  ASSUME TypeInv, NEW r \in Request, CreateCommentCommit(r)
  PROVE  TypeInv'
<1> DEFINE q == req[r]
           row == [state |-> "live", vis |-> q.vis, author |-> q.by, body |-> q.body, closed |-> FALSE]
<1>0. TypeOK /\ Refs
  BY DEF TypeInv
<1>1. q \in Creating
  BY <1>0, Shape DEF CreateCommentCommit, Commit
<1>2. row \in CommentRow /\ row.state # "none" /\ row.body \in Body
  BY <1>1 DEF Creating, CommentRow
<1>3. q.comment \in Comment
  BY <1>1 DEF Creating
<1>5. /\ Commit(r, "create") /\ comment' = [comment EXCEPT ![q.comment] = row]
      /\ onRecord' = [onRecord EXCEPT ![q.comment] = Recorded(q)]
      /\ PublishOnCommit(r) /\ UNCHANGED attachment
  BY DEF CreateCommentCommit
<1>r. Recorded(q) \in Record
  BY <1>0, RecordedType DEF CreateCommentCommit, Commit
<1>6. onRecord' \in [Comment -> Record]
  BY <1>0, <1>3, <1>5, <1>r DEF TypeOK
<1>7. row.vis = q.vis
  OBVIOUS
<1> HIDE DEF row
<1> QED
  BY <1>2, <1>3, <1>5, <1>6, <1>7, CommentStep

\* What an edit makes of a row.
LEMMA EditedRow ==
  ASSUME TypeInv, NEW r \in Request, req[r].op = "edit"
  PROVE  LET c == req[r].comment IN
         /\ c \in Comment /\ req[r].by \in User /\ Edited(req[r]) \in CommentRow
         /\ comment[c].state # "none" /\ Edited(req[r]).state = comment[c].state
         /\ Edited(req[r]).vis = comment[c].vis
         /\ Edited(req[r]).body = IF req[r].body = req[r].old THEN comment[c].body ELSE req[r].body
         /\ Edited(req[r]).body \in Body
<1> DEFINE q == req[r]
           b == IF q.body = q.old THEN comment[q.comment].body ELSE q.body
<1>0. TypeOK /\ Refs
  BY DEF TypeInv
<1>1. q.comment \in Comment /\ q.by \in User /\ q.body \in Body
  BY <1>0, Shape DEF Editing
<1>2. comment[q.comment] \in CommentRow /\ comment[q.comment].state # "none"
  BY <1>0, <1>1 DEF TypeOK, Refs
<1>3. b \in Body
  BY <1>0, <1>1, <1>2 DEF Refs
<1>4. Edited(q) = [comment[q.comment] EXCEPT !.body = b]
  BY DEF Edited
<1> HIDE DEF b
<1>5. /\ [comment[q.comment] EXCEPT !.body = b] \in CommentRow
      /\ [comment[q.comment] EXCEPT !.body = b].state = comment[q.comment].state
      /\ [comment[q.comment] EXCEPT !.body = b].vis = comment[q.comment].vis
      /\ [comment[q.comment] EXCEPT !.body = b].body = b
  BY <1>2, <1>3 DEF CommentRow
<1> QED
  BY <1>1, <1>2, <1>3, <1>4, <1>5 DEF b

LEMMA EditStep ==
  ASSUME TypeInv, NEW r \in Request, EditCommentCommit(r)
  PROVE  TypeInv'
<1> DEFINE q == req[r]
           c == req[r].comment
           row == Edited(req[r])
<1>0. TypeOK /\ q.op = "edit"
  BY DEF TypeInv, EditCommentCommit, Commit
<1>1. /\ c \in Comment /\ q.by \in User /\ row \in CommentRow /\ row.state # "none"
      /\ row.vis = comment[c].vis /\ row.body \in Body
  BY <1>0, EditedRow
<1>2. /\ Commit(r, "edit") /\ comment' = [comment EXCEPT ![c] = row]
      /\ onRecord' = [onRecord EXCEPT ![c] = IF q.body = q.old THEN @ ELSE Recorded(q)]
      /\ PublishOnCommit(r) /\ UNCHANGED attachment
  BY DEF EditCommentCommit
<1>3. Recorded(q) \in Record
  BY <1>0, RecordedType
<1>4. onRecord' \in [Comment -> Record]
  BY <1>0, <1>1, <1>2, <1>3 DEF TypeOK
<1> HIDE DEF row, c, q
<1>6. c = req[r].comment
  BY DEF c
<1> QED
  BY <1>1, <1>2, <1>4, <1>6, CommentStep

\* What a deletion makes of a row.
LEMMA DeletedRow ==
  ASSUME TypeInv, NEW r \in Request, req[r].op = "delete"
  PROVE  LET c == req[r].comment
             row == [comment[c] EXCEPT !.state = "deleted"]
         IN  /\ c \in Comment /\ req[r].by \in User /\ row \in CommentRow /\ comment[c].state # "none"
             /\ row.state = "deleted" /\ row.vis = comment[c].vis
             /\ row.body = comment[c].body /\ row.body \in Body
<1> DEFINE c == req[r].comment
<1>0. TypeOK /\ Refs
  BY DEF TypeInv
<1>1. c \in Comment /\ req[r].by \in User
  BY <1>0, Shape DEF Deleting
<1>2. comment[c] \in CommentRow /\ comment[c].state # "none" /\ comment[c].body \in Body
  BY <1>0, <1>1 DEF TypeOK, Refs
<1> HIDE DEF c
<1>3. /\ [comment[c] EXCEPT !.state = "deleted"] \in CommentRow
      /\ [comment[c] EXCEPT !.state = "deleted"].state = "deleted"
      /\ [comment[c] EXCEPT !.state = "deleted"].vis = comment[c].vis
      /\ [comment[c] EXCEPT !.state = "deleted"].body = comment[c].body
  BY <1>2 DEF CommentRow
<1> QED
  BY <1>1, <1>2, <1>3 DEF c

LEMMA DeleteStep ==
  ASSUME TypeInv, NEW r \in Request, DeleteCommentCommit(r)
  PROVE  TypeInv'
<1> DEFINE q == req[r]
           c == req[r].comment
           row == [comment[c] EXCEPT !.state = "deleted"]
<1>0. TypeOK /\ q.op = "delete"
  BY DEF TypeInv, DeleteCommentCommit, Commit
<1>1. /\ c \in Comment /\ q.by \in User /\ row \in CommentRow /\ row.state # "none"
      /\ row.vis = comment[c].vis /\ row.body \in Body
  BY <1>0, DeletedRow
<1>2. /\ Commit(r, "delete") /\ comment' = [comment EXCEPT ![c] = row]
      /\ PublishOnCommit(r) /\ UNCHANGED <<onRecord, attachment>>
  BY DEF DeleteCommentCommit
<1>4. onRecord' \in [Comment -> Record]
  BY <1>0, <1>2 DEF TypeOK
<1> HIDE DEF row, c, q
<1>6. c = req[r].comment
  BY DEF c
<1> QED
  BY <1>1, <1>2, <1>4, <1>6, CommentStep

LEMMA RegisterStep ==
  ASSUME TypeInv, NEW r \in Request, NEW a \in Attachment, RegisterAttachmentCommit(r, a)
  PROVE  TypeInv'
<1> DEFINE q == req[r]
           row == [state |-> "live", key |-> q.key, comment |-> q.comment, by |-> q.by]
<1>0. TypeOK /\ Refs /\ Commit(r, "register")
  BY DEF TypeInv, RegisterAttachmentCommit
<1>1. q \in Registering
  BY <1>0, Shape DEF Commit
<1>2. row \in AttachmentRow /\ row.state # "none"
  BY <1>1 DEF Registering, AttachmentRow
<1>3. attachment' = [attachment EXCEPT ![a] = row] /\ UNCHANGED <<comment, onRecord, outbox>>
  BY DEF RegisterAttachmentCommit
<1> HIDE DEF row
<1>4. /\ attachment' \in [Attachment -> {NoAttachment} \cup AttachmentRow]
      /\ \A b \in Attachment : attachment'[b] = IF b = a THEN row ELSE attachment[b]
  BY <1>0, <1>2, <1>3 DEF TypeOK
<1>5. /\ req' \in [Request -> Req] /\ sent' \subseteq Request
      /\ \A x \in Request : req'[x] = IF x = r THEN Idle ELSE req[x]
  BY <1>0, Commits
<1>6. UNCHANGED <<ticket, signed, stored, inbox, quota>>
  BY <1>0 DEF Commit
<1>7. TypeOK'
  BY <1>0, <1>3, <1>4, <1>5, <1>6 DEF TypeOK
<1>8. \A x \in Request : req'[x].op = "detach" => attachment'[req'[x].attachment].state # "none"
  <2>1. \A x \in Request : req[x].op = "detach" =>
          req[x].attachment \in Attachment /\ attachment[req[x].attachment].state # "none"
    BY <1>0, Shape DEF Refs, Detaching
  <2> QED
    BY <1>2, <1>4, <1>5, <2>1, IdleType
<1>9. Refs'
  BY <1>0, <1>3, <1>5, <1>8, IdleType DEF Refs
<1> QED
  BY <1>7, <1>9 DEF TypeInv

LEMMA DetachStep ==
  ASSUME TypeInv, NEW r \in Request, DeleteAttachmentCommit(r)
  PROVE  /\ TypeInv'
         /\ \A b \in Attachment :
              attachment'[b] = IF b = req[r].attachment THEN [attachment[b] EXCEPT !.state = "deleted"]
                               ELSE attachment[b]
         /\ req[r].attachment \in Attachment /\ attachment[req[r].attachment] \in AttachmentRow
<1> DEFINE a == req[r].attachment
           row == [attachment[a] EXCEPT !.state = "deleted"]
<1>0. TypeOK /\ Refs /\ Commit(r, "detach")
  BY DEF TypeInv, DeleteAttachmentCommit
<1>1. a \in Attachment /\ attachment[a].state # "none"
  BY <1>0, Shape DEF Commit, Refs, Detaching
<1>2. attachment[a] \in AttachmentRow
  BY <1>0, <1>1 DEF TypeOK, NoAttachment
<1>3. row \in AttachmentRow /\ row.state # "none"
  BY <1>2 DEF AttachmentRow
<1>4. attachment' = [attachment EXCEPT ![a] = row] /\ UNCHANGED <<comment, onRecord, outbox>>
  BY DEF DeleteAttachmentCommit
<1>r. row = [attachment[a] EXCEPT !.state = "deleted"]
  OBVIOUS
<1> HIDE DEF row
<1>5. /\ attachment' \in [Attachment -> {NoAttachment} \cup AttachmentRow]
      /\ \A b \in Attachment : attachment'[b] = IF b = a THEN row ELSE attachment[b]
  BY <1>0, <1>1, <1>3, <1>4 DEF TypeOK
<1>6. /\ req' \in [Request -> Req] /\ sent' \subseteq Request
      /\ \A x \in Request : req'[x] = IF x = r THEN Idle ELSE req[x]
  BY <1>0, Commits
<1>7. UNCHANGED <<ticket, signed, stored, inbox, quota>>
  BY <1>0 DEF Commit
<1>8. TypeOK'
  BY <1>0, <1>4, <1>5, <1>6, <1>7 DEF TypeOK
<1>9. \A x \in Request : req'[x].op = "detach" => attachment'[req'[x].attachment].state # "none"
  <2>1. \A x \in Request : req[x].op = "detach" =>
          req[x].attachment \in Attachment /\ attachment[req[x].attachment].state # "none"
    BY <1>0, Shape DEF Refs, Detaching
  <2> QED
    BY <1>3, <1>5, <1>6, <2>1, IdleType
<1>10. Refs'
  BY <1>0, <1>4, <1>6, <1>9, IdleType DEF Refs
<1> QED
  BY <1>1, <1>2, <1>5, <1>r, <1>8, <1>10 DEF TypeInv

LEMMA RollbackStep ==
  ASSUME TypeInv, NEW r \in Request, Rollback(r)
  PROVE  TypeInv'
<1>0. TypeOK /\ Refs /\ UNCHANGED <<ticket, comment, onRecord, attachment, signed, stored, outbox, inbox, quota>>
  BY DEF TypeInv, Rollback
<1>1. /\ req' \in [Request -> Req] /\ sent' \subseteq Request
      /\ \A x \in Request : req'[x] = IF x = r THEN Idle ELSE req[x]
  BY <1>0, IdleType DEF Rollback, TypeOK
<1>2. TypeOK'
  BY <1>0, <1>1 DEF TypeOK
<1>3. Refs'
  BY <1>0, <1>1, IdleType DEF Refs
<1> QED
  BY <1>2, <1>3 DEF TypeInv

\* A task leaves before the commit.
LEMMA SendStep ==
  ASSUME TypeInv, NEW r \in Request, Send(r)
  PROVE  TypeInv'
<1> DEFINE new == Announcement(req[r])
<1>0. /\ TypeOK /\ Refs /\ req[r].op \in {"create", "edit", "delete"}
      /\ outbox' = outbox \cup {new} /\ sent' = sent \cup {r}
      /\ UNCHANGED <<ticket, comment, onRecord, attachment, signed, stored, inbox, req, quota>>
  BY DEF TypeInv, Send
<1>1. /\ new \in Task /\ new.about = req[r].comment
      /\ new.vis = IF req[r].op = "create" THEN req[r].vis ELSE comment[req[r].comment].vis
  BY <1>0, Announced
<1> HIDE DEF new
<1>2. TypeOK'
  BY <1>0, <1>1 DEF TypeOK
<1>3. \A m \in outbox' : comment'[m.about].state # "none" => m.vis = comment'[m.about].vis
  BY <1>0, <1>1 DEF Refs
<1>4. \A x \in Request, m \in outbox' :
        req'[x].op = "create" /\ m.about = req'[x].comment => m.vis = req'[x].vis
  BY <1>0, <1>1 DEF Refs
<1>5. Refs'
  BY <1>0, <1>3, <1>4 DEF Refs
<1> QED
  BY <1>2, <1>5 DEF TypeInv

\* The closing of an edit window touches nothing else of a row.
LEMMA ClosedRow ==
  ASSUME TypeOK, NEW c \in Comment, CloseWindow(c)
  PROVE  /\ comment' \in [Comment -> CommentRow]
         /\ \A d \in Comment : /\ comment'[d].state = comment[d].state /\ comment'[d].vis = comment[d].vis
                               /\ comment'[d].body = comment[d].body
                               /\ comment[d].state = "none" => comment'[d] = comment[d]
<1> DEFINE row == [comment[c] EXCEPT !.closed = TRUE]
<1>1. comment' = [comment EXCEPT ![c] = row] /\ comment \in [Comment -> CommentRow] /\ comment[c].state # "none"
  BY DEF CloseWindow, TypeOK
<1>2. comment[c] \in CommentRow
  BY <1>1
<1>3. /\ row \in CommentRow /\ row.state = comment[c].state /\ row.vis = comment[c].vis
      /\ row.body = comment[c].body
  BY <1>2 DEF CommentRow
<1> HIDE DEF row
<1>4. \A d \in Comment : comment'[d] = IF d = c THEN row ELSE comment[d]
  BY <1>1
<1>5. comment' \in [Comment -> CommentRow]
  BY <1>1, <1>3
<1> QED
  BY <1>1, <1>3, <1>4, <1>5

LEMMA CloseStep ==
  ASSUME TypeInv, NEW c \in Comment, CloseWindow(c)
  PROVE  TypeInv'
<1>0. TypeOK /\ Refs /\ UNCHANGED <<ticket, onRecord, attachment, signed, stored, outbox, inbox, req, sent, quota>>
  BY DEF TypeInv, CloseWindow
<1>1. /\ comment' \in [Comment -> CommentRow]
      /\ \A d \in Comment : /\ comment'[d].state = comment[d].state /\ comment'[d].vis = comment[d].vis
                            /\ comment'[d].body = comment[d].body
                            /\ comment[d].state = "none" => comment'[d] = comment[d]
  BY <1>0, ClosedRow
<1>2. TypeOK'
  BY <1>0, <1>1 DEF TypeOK
<1>3. \A m \in outbox : m.about \in Comment
  BY <1>0 DEF TypeOK, Task
<1>4. \A x \in Request : req[x].op \in {"create", "edit", "delete", "register"} => req[x].comment \in Comment
  BY <1>0, Shape DEF Creating, Editing, Deleting, Registering
<1>5. Refs'
  BY <1>0, <1>1, <1>3, <1>4 DEF Refs
<1> QED
  BY <1>2, <1>5 DEF TypeInv

LEMMA FileStep ==
  ASSUME TypeInv, NEW k \in Key, Upload(k) \/ ExpireUrl(k) \/ \E u \in User : RequestUploadUrl(u, k)
  PROVE  TypeInv'
<1>0. TypeOK /\ Refs
  BY DEF TypeInv
<1>1. UNCHANGED <<ticket, comment, onRecord, attachment, outbox, inbox, req, sent, quota>>
  BY DEF Upload, ExpireUrl, RequestUploadUrl
<1>2. signed' \subseteq Key /\ stored' \subseteq Key
  BY <1>0 DEF TypeOK, Upload, ExpireUrl, RequestUploadUrl
<1>4. TypeOK'
  BY <1>0, <1>1, <1>2 DEF TypeOK
<1>5. Refs'
  BY <1>0, <1>1 DEF Refs
<1> QED
  BY <1>4, <1>5 DEF TypeInv

LEMMA NotifyStep ==
  ASSUME TypeInv, NEW m \in outbox, Notify(m)
  PROVE  TypeInv'
<1>0. TypeOK /\ Refs
  BY DEF TypeInv
<1>1. /\ UNCHANGED <<ticket, comment, onRecord, attachment, signed, stored, req, sent, quota>>
      /\ outbox' \subseteq outbox
  BY DEF Notify
<1>2. m \in Task
  BY <1>0 DEF TypeOK
<1>t. TicketOf[m.about] \in Ticket
  BY <1>2, ContentAssumption DEF Task
<1>3. CommentRecipients(m) \subseteq User
  <2>1. ticket[TicketOf[m.about]] \in Situation
    BY <1>0, <1>t, ContentAssumption DEF TypeOK
  <2> QED
    BY <1>t, <2>1, ContentAssumption DEF CommentRecipients, Situation
<1>4. MentionRecipients(m) \subseteq User
  BY <1>2 DEF MentionRecipients, Task
<1>5. inbox' \subseteq [to: User, about: Comment, vis: Visibilities]
  <2>1. inbox' = inbox \cup {[to |-> u, about |-> m.about, vis |-> m.vis] :
                               u \in CommentRecipients(m) \cup MentionRecipients(m)}
    BY DEF Notify
  <2>2. m.about \in Comment /\ m.vis \in Visibilities
    BY <1>2 DEF Task
  <2>3. inbox \subseteq [to: User, about: Comment, vis: Visibilities]
    BY <1>0 DEF TypeOK
  <2> QED
    BY <1>3, <1>4, <2>1, <2>2, <2>3
<1>6. TypeOK'
  BY <1>0, <1>1, <1>5 DEF TypeOK
<1>7. Refs'
  BY <1>0, <1>1 DEF Refs
<1> QED
  BY <1>6, <1>7 DEF TypeInv

LEMMA MoveStep ==
  ASSUME TypeInv, NEW t \in Ticket, TicketMoves(t)
  PROVE  TypeInv'
<1>0. TypeOK /\ Refs
  BY DEF TypeInv
<1>1. UNCHANGED <<comment, onRecord, attachment, signed, stored, outbox, inbox, req, sent, quota>>
  BY DEF TicketMoves
<1>2. \A x \in Ticket : ticket'[x] \in Situations[x]
  BY <1>0 DEF TypeOK, TicketMoves
<1>3. TypeOK'
  BY <1>0, <1>1, <1>2 DEF TypeOK
<1>4. Refs'
  BY <1>0, <1>1 DEF Refs
<1> QED
  BY <1>3, <1>4 DEF TypeInv

LEMMA TypeStep == TypeInv /\ [Next]_vars => TypeInv'
<1> SUFFICES ASSUME TypeInv, [Next]_vars PROVE TypeInv'
  OBVIOUS
<1>1. CASE UNCHANGED vars
  BY <1>1 DEF vars, TypeInv, TypeOK, Refs
<1>2. CASE Next
  BY <1>2, HandleStep, CreateStep, EditStep, DeleteStep, RegisterStep, DetachStep, RollbackStep,
     SendStep, CloseStep, FileStep, NotifyStep, MoveStep DEF Next
<1> QED
  BY <1>1, <1>2

\* TypeOK: every table, queue and memory has its type.
THEOREM TypeCorrect == Spec => []TypeOK
<1>1. TypeInv => TypeOK
  BY DEF TypeInv
<1> QED
  BY InitType, TypeStep, <1>1, PTL DEF Spec
-----------------------------------------------------------------------------
(* Comments                                                                *)

\* A request under way writes the body of a comment and an audit row about it.
Reported(c) ==
  \E r \in Request :
    /\ req[r].op \in {"create", "edit"} /\ req[r].comment = c /\ UNCHANGED quota
    /\ comment'[c].body = req[r].body /\ onRecord'[c] = Recorded(req[r])

\* What a step makes of a comment: nothing, or one of four things.
LEMMA Comments ==
  ASSUME TypeInv, [Next]_vars, NEW c \in Comment
  PROVE  \/ comment'[c] = comment[c] /\ onRecord'[c] = onRecord[c]
         \/ comment[c].state = "none" /\ Reported(c)
         \/ /\ comment'[c].state \in {comment[c].state, "deleted"} /\ comment'[c].vis = comment[c].vis
            /\ \/ comment'[c].body = comment[c].body /\ onRecord'[c] = onRecord[c]
               \/ Reported(c)
<1> DEFINE Same == comment'[c] = comment[c] /\ onRecord'[c] = onRecord[c]
           Born == comment[c].state = "none" /\ Reported(c)
           Changed == /\ comment'[c].state \in {comment[c].state, "deleted"} /\ comment'[c].vis = comment[c].vis
                      /\ \/ comment'[c].body = comment[c].body /\ onRecord'[c] = onRecord[c]
                         \/ Reported(c)
<1> SUFFICES Same \/ Born \/ Changed
  OBVIOUS
<1>0. TypeOK /\ Refs /\ onRecord \in [Comment -> Record] /\ comment \in [Comment -> CommentRow]
  BY DEF TypeInv, TypeOK
<1>1. CASE UNCHANGED <<comment, onRecord>>
  BY <1>1
<1>2. ASSUME NEW r \in Request, CreateCommentCommit(r)
      PROVE  Same \/ Born
  <2> DEFINE q == req[r]
             row == [state |-> "live", vis |-> q.vis, author |-> q.by, body |-> q.body, closed |-> FALSE]
  <2>1. q.comment \in Comment /\ comment[q.comment].state = "none"
    BY <1>0, <1>2, Shape DEF CreateCommentCommit, Commit, Refs, Creating
  <2>2. /\ comment' = [comment EXCEPT ![q.comment] = row]
        /\ onRecord' = [onRecord EXCEPT ![q.comment] = Recorded(q)]
        /\ q.op = "create" /\ UNCHANGED quota
    BY <1>2 DEF CreateCommentCommit, Commit
  <2>3. row.body = q.body
    OBVIOUS
  <2> HIDE DEF row
  <2>4. CASE c # q.comment
    BY <1>0, <2>1, <2>2, <2>4
  <2>5. CASE c = q.comment
    <3>1. comment'[c].body = q.body /\ onRecord'[c] = Recorded(q)
      BY <1>0, <2>1, <2>2, <2>3, <2>5
    <3> QED
      BY <2>1, <2>2, <2>5, <3>1 DEF Reported
  <2> QED
    BY <2>4, <2>5
<1>3. ASSUME NEW r \in Request, EditCommentCommit(r)
      PROVE  Same \/ Changed
  <2> DEFINE q == req[r]
             row == Edited(req[r])
  <2>1. /\ q.comment \in Comment /\ row.state = comment[q.comment].state /\ row.vis = comment[q.comment].vis
        /\ row.body = IF q.body = q.old THEN comment[q.comment].body ELSE q.body
    BY <1>3, EditedRow DEF EditCommentCommit, Commit
  <2>2. /\ comment' = [comment EXCEPT ![q.comment] = row]
        /\ onRecord' = [onRecord EXCEPT ![q.comment] = IF q.body = q.old THEN @ ELSE Recorded(q)]
        /\ q.op = "edit" /\ UNCHANGED quota
    BY <1>3 DEF EditCommentCommit, Commit
  <2> HIDE DEF row
  <2>3. /\ comment'[c] = IF c = q.comment THEN row ELSE comment[c]
        /\ onRecord'[c] = IF c = q.comment /\ q.body # q.old THEN Recorded(q) ELSE onRecord[c]
    BY <1>0, <2>1, <2>2
  <2>4. CASE c # q.comment \/ q.body = q.old
    BY <2>1, <2>3, <2>4
  <2>5. CASE c = q.comment /\ q.body # q.old
    <3>1. comment'[c].body = q.body /\ onRecord'[c] = Recorded(q)
      BY <2>1, <2>3, <2>5
    <3>2. Reported(c)
      BY <2>2, <2>5, <3>1 DEF Reported
    <3> QED
      BY <2>1, <2>3, <2>5, <3>2
  <2> QED
    BY <2>4, <2>5
<1>4. ASSUME NEW r \in Request, DeleteCommentCommit(r)
      PROVE  Same \/ Changed
  <2> DEFINE d == req[r].comment
             row == [comment[d] EXCEPT !.state = "deleted"]
  <2>1. d \in Comment /\ row.state = "deleted" /\ row.vis = comment[d].vis /\ row.body = comment[d].body
    BY <1>4, DeletedRow DEF DeleteCommentCommit, Commit
  <2>2. comment' = [comment EXCEPT ![d] = row] /\ UNCHANGED onRecord
    BY <1>4 DEF DeleteCommentCommit
  <2> HIDE DEF row, d
  <2> QED
    BY <1>0, <2>1, <2>2
<1>5. ASSUME NEW d \in Comment, CloseWindow(d)
      PROVE  Changed
  BY <1>0, <1>5, ClosedRow DEF CloseWindow
<1>6. ASSUME NEW r \in Request,
             \/ \E u \in User : Handle(r, u)
             \/ \E a \in Attachment : RegisterAttachmentCommit(r, a)
             \/ DeleteAttachmentCommit(r) \/ Send(r) \/ Rollback(r)
      PROVE  UNCHANGED <<comment, onRecord>>
  BY <1>6 DEF Handle, CreateComment, EditComment, DeleteComment, RegisterAttachment, DeleteAttachment, Keep,
     RegisterAttachmentCommit, DeleteAttachmentCommit, Send, Rollback
<1>7. ASSUME \/ \E k \in Key : Upload(k) \/ ExpireUrl(k) \/ \E u \in User : RequestUploadUrl(u, k)
             \/ \E m \in outbox : Notify(m)
             \/ \E t \in Ticket : TicketMoves(t)
      PROVE  UNCHANGED <<comment, onRecord>>
  BY <1>7 DEF Upload, ExpireUrl, RequestUploadUrl, Notify, TicketMoves
<1>8. UNCHANGED vars => UNCHANGED <<comment, onRecord>>
  BY DEF vars
<1> HIDE DEF Same, Born, Changed
<1>9. CASE Next
  BY <1>1, <1>2, <1>3, <1>4, <1>5, <1>6, <1>7, <1>9 DEF Next
<1> QED
  BY <1>1, <1>8, <1>9

\* DeletedStaysDeleted: no edit under way brings a deleted comment back.
THEOREM DeletedTheorem == Spec => DeletedStaysDeleted
<1>1. TypeInv /\ [Next]_vars =>
        [\A c \in Comment : comment[c].state = "deleted" => comment'[c].state = "deleted"]_vars
  BY Comments
<1> QED
  BY InitType, TypeStep, <1>1, PTL DEF Spec, DeletedStaysDeleted
-----------------------------------------------------------------------------
(* Attachments                                                             *)

\* The requests under way refer to uploaded objects of their own ticket.
Uploaded ==
  /\ AttachmentsSound
  /\ \A r \in Request : req[r].op = "register" => UploadedObject(req[r].key, TicketOf[req[r].comment])

\* Loading touches the requests and the quota only.
LEMMA Loads ==
  ASSUME NEW r \in Request, NEW u \in User, Handle(r, u)
  PROVE  UNCHANGED <<ticket, comment, onRecord, attachment, signed, stored, outbox, inbox>>
<1>1. ASSUME NEW q, Keep(r, q)
      PROVE  UNCHANGED <<ticket, comment, onRecord, attachment, signed, stored, outbox, inbox>>
  BY <1>1 DEF Keep
<1> QED
  BY <1>1 DEF Handle, CreateComment, EditComment, DeleteComment, RegisterAttachment, DeleteAttachment

\* Ending a request leaves the ticket, the store and the inboxes alone.
LEMMA Ends ==
  ASSUME NEW r \in Request,
         \/ CreateCommentCommit(r) \/ EditCommentCommit(r) \/ DeleteCommentCommit(r)
         \/ \E a \in Attachment : RegisterAttachmentCommit(r, a)
         \/ DeleteAttachmentCommit(r) \/ Rollback(r)
  PROVE  UNCHANGED <<ticket, signed, stored, inbox, quota>> /\ req' = [req EXCEPT ![r] = Idle]
<1>1. ASSUME NEW op, Commit(r, op)
      PROVE  UNCHANGED <<ticket, signed, stored, inbox, quota>> /\ req' = [req EXCEPT ![r] = Idle]
  BY <1>1 DEF Commit
<1>2. CASE Rollback(r)
  BY <1>2 DEF Rollback
<1> QED
  BY <1>1, <1>2 DEF CreateCommentCommit, EditCommentCommit, DeleteCommentCommit, RegisterAttachmentCommit,
     DeleteAttachmentCommit

\* The steps that neither load nor end a request.
Aside ==
  \/ \E r \in Request : Send(r)
  \/ \E c \in Comment : CloseWindow(c)
  \/ \E k \in Key : Upload(k) \/ ExpireUrl(k) \/ \E u \in User : RequestUploadUrl(u, k)
  \/ \E m \in outbox : Notify(m)
  \/ \E t \in Ticket : TicketMoves(t)

LEMMA Asides ==
  ASSUME Aside
  PROVE  UNCHANGED <<attachment, req, quota>> /\ stored \subseteq stored'
<1>1. ASSUME NEW c \in Comment, CloseWindow(c)
      PROVE  UNCHANGED <<attachment, req, quota>> /\ stored \subseteq stored'
  BY <1>1 DEF CloseWindow
<1>2. ASSUME NEW k \in Key, Upload(k) \/ ExpireUrl(k) \/ \E u \in User : RequestUploadUrl(u, k)
      PROVE  UNCHANGED <<attachment, req, quota>> /\ stored \subseteq stored'
  BY <1>2 DEF Upload, ExpireUrl, RequestUploadUrl
<1>3. ASSUME NEW m \in outbox, Notify(m)
      PROVE  UNCHANGED <<attachment, req, quota>> /\ stored \subseteq stored'
  BY <1>3 DEF Notify
<1>4. ASSUME NEW t \in Ticket, TicketMoves(t)
      PROVE  UNCHANGED <<attachment, req, quota>> /\ stored \subseteq stored'
  BY <1>4 DEF TicketMoves
<1>5. ASSUME NEW r \in Request, Send(r)
      PROVE  UNCHANGED <<attachment, req, quota>> /\ stored \subseteq stored'
  BY <1>5 DEF Send
<1> QED
  BY <1>1, <1>2, <1>3, <1>4, <1>5 DEF Aside

\* Objects are never removed.
LEMMA StoreGrows ==
  ASSUME [Next]_vars
  PROVE  stored \subseteq stored'
<1>1. CASE UNCHANGED vars
  BY <1>1 DEF vars
<1>2. CASE Next
  BY <1>2, Loads, Ends, Asides DEF Next, Aside
<1> QED
  BY <1>1, <1>2

\* A request in flight is as it was, has ended, or has just been loaded.
LEMMA Requests ==
  ASSUME TypeInv, [Next]_vars, NEW r \in Request
  PROVE  req'[r] = req[r] \/ req'[r] = Idle \/ \E u \in User : Handle(r, u)
<1>0. req \in [Request -> Req]
  BY DEF TypeInv, TypeOK
<1>1. ASSUME NEW x \in Request, NEW u \in User, Handle(x, u), x # r
      PROVE  req'[r] = req[r]
  <2>1. ASSUME NEW q, Keep(x, q)
        PROVE  req'[r] = req[r]
    BY <1>0, <1>1, <2>1 DEF Keep
  <2> QED
    BY <1>1, <2>1 DEF Handle, CreateComment, EditComment, DeleteComment, RegisterAttachment, DeleteAttachment
<1>2. ASSUME NEW x \in Request, req' = [req EXCEPT ![x] = Idle]
      PROVE  req'[r] = req[r] \/ req'[r] = Idle
  BY <1>0, <1>2
<1>3. CASE UNCHANGED vars
  BY <1>3 DEF vars
<1>4. CASE Next
  BY <1>1, <1>2, <1>4, Ends, Asides DEF Next, Aside
<1> QED
  BY <1>3, <1>4

LEMMA UploadedStep ==
  ASSUME TypeInv, Uploaded, [Next]_vars
  PROVE  Uploaded'
<1>0. TypeOK
  BY DEF TypeInv
<1>1. stored \subseteq stored'
  BY StoreGrows
<1>2. ASSUME NEW r \in Request, req'[r].op = "register"
      PROVE  KeyTicket[req'[r].key] = TicketOf[req'[r].comment] /\ req'[r].key \in stored'
  <2>1. CASE req'[r] = req[r]
    BY <1>1, <1>2, <2>1 DEF Uploaded, UploadedObject
  <2>2. ASSUME NEW u \in User, Handle(r, u)
        PROVE  KeyTicket[req'[r].key] = TicketOf[req'[r].comment] /\ req'[r].key \in stored'
    <3>1. ASSUME NEW c \in Comment, NEW k \in Key, RegisterAttachment(r, u, c, k)
          PROVE  KeyTicket[req'[r].key] = TicketOf[req'[r].comment] /\ req'[r].key \in stored'
      <4> DEFINE q == [op |-> "register", by |-> u, comment |-> c, key |-> k]
      <4>1. q \in Req /\ q.comment = c /\ q.key = k
        BY DEF Req
      <4>2. Keep(r, q) /\ UploadedObject(k, TicketOf[c])
        BY <3>1 DEF RegisterAttachment
      <4> HIDE DEF q
      <4>3. req'[r] = q
        BY <1>0, <2>2, <4>1, <4>2, Keeps DEF Handle
      <4> QED
        BY <1>1, <4>1, <4>2, <4>3 DEF UploadedObject
    <3>2. ASSUME NEW q, Keep(r, q), q.op # "register"
          PROVE  FALSE
      BY <1>0, <1>2, <3>2 DEF Keep, TypeOK
    <3> QED
      BY <2>2, <3>1, <3>2 DEF Handle, CreateComment, EditComment, DeleteComment, DeleteAttachment
  <2> QED
    BY <1>2, <2>1, <2>2, Requests, IdleType
<1>3. ASSUME NEW a \in Attachment, attachment'[a].state # "none"
      PROVE  KeyTicket[attachment'[a].key] = TicketOf[attachment'[a].comment] /\ attachment'[a].key \in stored'
  <2>1. CASE attachment'[a] = attachment[a]
    BY <1>1, <1>3, <2>1 DEF Uploaded, AttachmentsSound
  <2>2. ASSUME NEW r \in Request, NEW b \in Attachment, RegisterAttachmentCommit(r, b), attachment'[a] # attachment[a]
        PROVE  KeyTicket[attachment'[a].key] = TicketOf[attachment'[a].comment] /\ attachment'[a].key \in stored'
    <3> DEFINE row == [state |-> "live", key |-> req[r].key, comment |-> req[r].comment, by |-> req[r].by]
    <3>1. attachment' = [attachment EXCEPT ![b] = row]
      BY <2>2 DEF RegisterAttachmentCommit
    <3>2. row.key = req[r].key /\ row.comment = req[r].comment
      OBVIOUS
    <3> HIDE DEF row
    <3>3. attachment'[a] = row
      BY <1>0, <2>2, <3>1 DEF TypeOK
    <3>4. UploadedObject(req[r].key, TicketOf[req[r].comment])
      BY <2>2 DEF Uploaded, RegisterAttachmentCommit, Commit
    <3> QED
      BY <1>1, <3>2, <3>3, <3>4 DEF UploadedObject
  <2>3. ASSUME NEW r \in Request, DeleteAttachmentCommit(r), attachment'[a] # attachment[a]
        PROVE  KeyTicket[attachment'[a].key] = TicketOf[attachment'[a].comment] /\ attachment'[a].key \in stored'
    <3>1. attachment'[a] = [attachment[a] EXCEPT !.state = "deleted"] /\ attachment[a] \in AttachmentRow
      BY <2>3, DetachStep
    <3>2. /\ attachment'[a].key = attachment[a].key /\ attachment'[a].comment = attachment[a].comment
          /\ attachment[a].state # "none"
      BY <3>1 DEF AttachmentRow
    <3> QED
      BY <1>1, <3>2 DEF Uploaded, AttachmentsSound
  <2>4. ASSUME NEW r \in Request,
               CreateCommentCommit(r) \/ EditCommentCommit(r) \/ DeleteCommentCommit(r) \/ Rollback(r)
        PROVE  UNCHANGED attachment
    BY <2>4 DEF CreateCommentCommit, EditCommentCommit, DeleteCommentCommit, Rollback
  <2>5. CASE UNCHANGED vars
    BY <2>1, <2>5 DEF vars
  <2>6. CASE Next
    BY <2>1, <2>2, <2>3, <2>4, <2>6, Loads, Asides DEF Next, Aside
  <2> QED
    BY <2>5, <2>6
<1> QED
  BY <1>2, <1>3 DEF Uploaded, AttachmentsSound, UploadedObject

\* AttachmentsSound: an attachment's object is there, and was uploaded for the ticket
\* of its comment.
THEOREM AttachmentTheorem == Spec => []AttachmentsSound
<1>1. Init => Uploaded
  BY DEF Init, Uploaded, AttachmentsSound, NoAttachment, Idle
<1>2. TypeInv /\ Uploaded /\ [Next]_vars => Uploaded'
  BY UploadedStep
<1>3. Uploaded => AttachmentsSound
  BY DEF Uploaded
<1> QED
  BY InitType, TypeStep, <1>1, <1>2, <1>3, PTL DEF Spec

\* ListedIsFetchable: listing and fetching agree on every attachment.
THEOREM FetchTheorem == Spec => []ListedIsFetchable
<1>1. ASSUME TypeOK
      PROVE  ListedIsFetchable
  <2>1. ASSUME NEW a \in Attachment, attachment[a].state # "none"
        PROVE  comment[attachment[a].comment].vis \in {"public", "private"}
    BY <1>1, <2>1 DEF TypeOK, NoAttachment, AttachmentRow, CommentRow, Visibilities
  <2> QED
    BY <2>1 DEF ListedIsFetchable, ListedAttachments, Fetchable, CanDownload
<1>2. TypeInv => ListedIsFetchable
  BY <1>1 DEF TypeInv
<1> QED
  BY InitType, TypeStep, <1>2, PTL DEF Spec

-----------------------------------------------------------------------------
(* The trail                                                               *)

\* Whoever is still to report a change began before now; so did the edit at the
\* end of the trail, and before the commit of the body that is shown.
Stamped ==
  /\ \A r \in Request : req[r].op \in {"create", "edit"} => req[r].at > quota
  /\ \A c \in Comment :
       LET end == onRecord[c].end  shown == onRecord[c].shown IN
       /\ end.at > quota /\ end.at > shown.till
       /\ comment[c].body = end.body \/ end.at < shown.from

LEMMA InitStamped == Init => Stamped
BY ContentAssumption DEF Init, Stamped, NoComment, NoRecord, Idle

LEMMA StampedStep ==
  ASSUME TypeInv, Stamped, [Next]_vars
  PROVE  Stamped'
<1>0. TypeOK /\ quota \in Nat /\ quota' \in Nat
  BY TypeStep, ContentAssumption DEF TypeInv, TypeOK
<1>1. quota' <= quota
  <2>1. ASSUME NEW r \in Request, NEW u \in User, Handle(r, u)
        PROVE  quota' = quota - 1
    <3>1. ASSUME NEW q, Keep(r, q)
          PROVE  quota' = quota - 1
      BY <3>1 DEF Keep
    <3> QED
      BY <2>1, <3>1 DEF Handle, CreateComment, EditComment, DeleteComment, RegisterAttachment, DeleteAttachment
  <2>2. CASE UNCHANGED vars
    BY <1>0, <2>2 DEF vars
  <2>3. CASE Next
    BY <1>0, <2>1, <2>3, Ends, Asides DEF Next, Aside
  <2> QED
    BY <2>2, <2>3
<1>2. ASSUME NEW r \in Request, req'[r].op \in {"create", "edit"}
      PROVE  req'[r].at > quota'
  <2>1. CASE req'[r] = req[r]
    <3>1. req[r].at \in Nat /\ req[r].at > quota
      BY <1>0, <1>2, <2>1, Shape, ContentAssumption DEF Stamped, Creating, Editing, Stamp
    <3> QED
      BY <1>0, <1>1, <2>1, <3>1
  <2>2. ASSUME NEW u \in User, Handle(r, u)
        PROVE  req'[r].at > quota'
    <3>1. ASSUME NEW q, Keep(r, q)
          PROVE  req'[r] = q /\ quota' = quota - 1
      BY <1>0, <3>1 DEF Keep, TypeOK
    <3>2. ASSUME NEW c \in Comment, NEW vis \in Visibilities, NEW b \in Body, NEW names \in Mentions,
                 CreateComment(r, u, c, vis, b, names)
          PROVE  req'[r].at > quota'
      <4>1. req'[r].at = quota /\ quota' = quota - 1
        BY <3>1, <3>2 DEF CreateComment
      <4> QED
        BY <1>0, <4>1
    <3>3. ASSUME NEW c \in Comment, NEW b \in Body, EditComment(r, u, c, b)
          PROVE  req'[r].at > quota'
      <4>1. req'[r].at = quota /\ quota' = quota - 1
        BY <3>1, <3>3 DEF EditComment
      <4> QED
        BY <1>0, <4>1
    <3>4. ASSUME NEW q, Keep(r, q), q.op \notin {"create", "edit"}
          PROVE  FALSE
      BY <1>2, <3>1, <3>4
    <3> QED
      BY <2>2, <3>2, <3>3, <3>4 DEF Handle, DeleteComment, RegisterAttachment, DeleteAttachment
  <2> QED
    BY <1>2, <2>1, <2>2, Requests, IdleType
<1>3. ASSUME NEW c \in Comment
      PROVE  /\ onRecord'[c].end.at > quota' /\ onRecord'[c].end.at > onRecord'[c].shown.till
             /\ comment'[c].body = onRecord'[c].end.body \/ onRecord'[c].end.at < onRecord'[c].shown.from
  <2>0. /\ onRecord[c].end.at \in Nat /\ onRecord[c].end.at > quota
        /\ onRecord[c].end.at > onRecord[c].shown.till
        /\ comment[c].body = onRecord[c].end.body \/ onRecord[c].end.at < onRecord[c].shown.from
    BY <1>0, ContentAssumption DEF TypeOK, Record, Stamp, Stamped
  <2>1. CASE comment'[c].body = comment[c].body /\ onRecord'[c] = onRecord[c]
    BY <1>0, <1>1, <2>0, <2>1
  <2>2. CASE Reported(c)
    <3>1. PICK r \in Request :
            /\ req[r].op \in {"create", "edit"} /\ req[r].comment = c /\ UNCHANGED quota
            /\ comment'[c].body = req[r].body /\ onRecord'[c] = Recorded(req[r])
      BY <2>2 DEF Reported
    <3>2. req[r].at \in Nat /\ req[r].at > quota
      BY <1>0, <3>1, Shape, ContentAssumption DEF Stamped, Creating, Editing, Stamp
    <3>3. /\ onRecord'[c].end = IF req[r].at <= onRecord[c].end.at THEN [body |-> req[r].body, at |-> req[r].at]
                                ELSE onRecord[c].end
          /\ onRecord'[c].shown.from = req[r].at /\ onRecord'[c].shown.till = quota
      BY <3>1 DEF Recorded
    <3>4. CASE req[r].at <= onRecord[c].end.at
      BY <1>0, <3>1, <3>2, <3>3, <3>4
    <3>5. CASE req[r].at > onRecord[c].end.at
      BY <1>0, <2>0, <3>1, <3>2, <3>3, <3>5
    <3> QED
      BY <2>0, <3>2, <3>4, <3>5
  <2> QED
    BY <2>1, <2>2, Comments
<1> QED
  BY <1>2, <1>3 DEF Stamped

\* BodyOnRecord: the audit trail of a comment, read by the stamps of its rows, ends
\* at the body that is shown, unless the edit at its end began while the edit that
\* is shown was under way.
THEOREM RecordTheorem == Spec => []BodyOnRecord
<1>1. TypeInv /\ Stamped /\ [Next]_vars => Stamped'
  BY StampedStep
<1>2. Stamped => BodyOnRecord
  BY DEF Stamped, BodyOnRecord
<1> QED
  BY InitType, TypeStep, InitStamped, <1>1, <1>2, PTL DEF Spec

-----------------------------------------------------------------------------
(* Notifications                                                           *)

\* Whom a task about a private comment reaches.
LEMMA Recipients ==
  ASSUME TypeOK, NEW m \in outbox, m.vis = "private",
         NEW u \in CommentRecipients(m) \cup MentionRecipients(m)
  PROVE  SeesPrivate(u, TicketOf[m.about]) \/ u \in ticket[TicketOf[m.about]].joined
<1> DEFINE t == TicketOf[m.about]
<1>1. t \in Ticket
  BY ContentAssumption DEF TypeOK, Task
<1>2. ticket[t].desk \subseteq ticket[t].team
  BY <1>1, ContentAssumption DEF TypeOK
<1>3. GhostSeesPrivate(u, t) \/ u \in ticket[t].joined
  BY DEF CommentRecipients, MentionRecipients
<1> QED
  BY <1>2, <1>3 DEF GhostSeesPrivate, SeesPrivate

\* PrivateStaysInside: notifications about private comments go to people who may
\* read them, or to mentioned co-assignees, however late they are worked out.
THEOREM PrivateTheorem == Spec => PrivateStaysInside
<1> DEFINE Inside == \A n \in inbox' \ inbox :
                       "private" \in {n.vis, comment[n.about].vis} =>
                         SeesPrivate(n.to, TicketOf[n.about]) \/ n.to \in ticket[TicketOf[n.about]].joined
<1>1. ASSUME TypeInv, NEW m \in outbox, Notify(m)
      PROVE  Inside
  <2>0. TypeOK /\ Refs /\ m.about \in Comment
    BY <1>1 DEF TypeInv, TypeOK, Task
  <2>1. comment[m.about].vis = "private" => m.vis = "private"
    BY <2>0 DEF Refs, NoComment
  <2>2. inbox' = inbox \cup {[to |-> u, about |-> m.about, vis |-> m.vis] :
                               u \in CommentRecipients(m) \cup MentionRecipients(m)}
    BY <1>1 DEF Notify
  <2>3. ASSUME NEW n \in inbox' \ inbox
        PROVE  \E u \in CommentRecipients(m) \cup MentionRecipients(m) :
                 n = [to |-> u, about |-> m.about, vis |-> m.vis]
    BY <2>2, <2>3
  <2>4. ASSUME NEW n \in inbox' \ inbox
        PROVE  /\ n.to \in CommentRecipients(m) \cup MentionRecipients(m)
               /\ n.about = m.about /\ n.vis = m.vis
    BY <2>3
  <2> QED
    BY <2>0, <2>1, <2>4, Recipients
<1>2. ASSUME \/ \E r \in Request : Send(r)
             \/ \E c \in Comment : CloseWindow(c)
             \/ \E k \in Key : Upload(k) \/ ExpireUrl(k) \/ \E u \in User : RequestUploadUrl(u, k)
             \/ \E t \in Ticket : TicketMoves(t)
      PROVE  UNCHANGED inbox
  BY <1>2 DEF Send, CloseWindow, Upload, ExpireUrl, RequestUploadUrl, TicketMoves
<1>3. UNCHANGED inbox => Inside
  OBVIOUS
<1> HIDE DEF Inside
<1>4. ASSUME TypeInv, Next
      PROVE  Inside
  BY <1>1, <1>2, <1>3, <1>4, Loads, Ends DEF Next
<1>5. TypeInv /\ [Next]_vars => [Inside]_vars
  BY <1>4
<1>6. [Inside]_vars => [\A n \in inbox' \ inbox :
         LET t == TicketOf[n.about] IN
         "private" \in {n.vis, comment[n.about].vis}
           => SeesPrivate(n.to, t) \/ n.to \in ticket[t].joined]_vars
  BY DEF Inside
<1> QED
  BY InitType, TypeStep, <1>5, <1>6, PTL DEF Spec, PrivateStaysInside

-----------------------------------------------------------------------------
(* Whose comment it is                                                     *)

\* The three ways to change a row keep its author.
LEMMA AuthorKept ==
  ASSUME NEW row \in CommentRow, NEW b \in Body \cup {NoBody}
  PROVE  /\ [row EXCEPT !.body = b].author = row.author /\ [row EXCEPT !.body = b].vis = row.vis
         /\ [row EXCEPT !.state = "deleted"].author = row.author
         /\ [row EXCEPT !.closed = TRUE].author = row.author
         /\ [row EXCEPT !.closed = TRUE].vis = row.vis
         /\ [row EXCEPT !.closed = TRUE].body = row.body
         /\ [row EXCEPT !.closed = TRUE].state = row.state
BY DEF CommentRow

\* Who is about to edit or delete a comment is its author or an administrator.
Rightful ==
  \A r \in Request : req[r].op \in {"edit", "delete"} =>
    req[r].by \in Admin \cup {comment[req[r].comment].author}

\* What a step may do to a comment that exists.
Handled(c) ==
  /\ comment'[c].author = comment[c].author /\ comment'[c].vis = comment[c].vis
  /\ \/ comment'[c].body = comment[c].body /\ comment'[c].state = comment[c].state
     \/ \E r \in Request : /\ req[r].op \in {"edit", "delete"} /\ req[r].comment = c
                           /\ req[r].by \in Admin \cup {comment[c].author}

LEMMA AuthorStep ==
  ASSUME TypeInv, Rightful, [Next]_vars, NEW c \in Comment, comment[c].state # "none"
  PROVE  Handled(c)
<1>0. /\ TypeOK /\ Refs /\ comment \in [Comment -> CommentRow] /\ comment[c] \in CommentRow
      /\ NoBody \in Body \cup {NoBody}
  BY DEF TypeInv, TypeOK
<1>1. CASE comment' = comment
  BY <1>1 DEF Handled
<1>2. ASSUME NEW r \in Request, CreateCommentCommit(r)
      PROVE  Handled(c)
  <2>1. req[r].comment \in Comment /\ comment[req[r].comment].state = "none"
    BY <1>0, <1>2, Shape DEF CreateCommentCommit, Commit, Refs, Creating
  <2>2. req[r].comment # c
    BY <2>1
  <2> DEFINE row == [state |-> "live", vis |-> req[r].vis, author |-> req[r].by,
                     body |-> req[r].body, closed |-> FALSE]
  <2>3. comment' = [comment EXCEPT ![req[r].comment] = row]
    BY <1>2 DEF CreateCommentCommit
  <2> HIDE DEF row
  <2>4. comment'[c] = comment[c]
    BY <1>0, <2>2, <2>3
  <2> QED
    BY <2>4 DEF Handled
<1>3. ASSUME NEW r \in Request, EditCommentCommit(r)
      PROVE  Handled(c)
  <2>1. req[r].op = "edit" /\ comment' = [comment EXCEPT ![req[r].comment] = Edited(req[r])]
    BY <1>3 DEF EditCommentCommit, Commit
  <2>2. CASE req[r].comment # c
    <3>1. comment'[c] = comment[c]
      BY <1>0, <2>1, <2>2
    <3> QED
      BY <3>1 DEF Handled
  <2>3. CASE req[r].comment = c
    <3> DEFINE b == IF req[r].body = req[r].old THEN comment[c].body ELSE req[r].body
    <3>1. b \in Body \cup {NoBody}
      BY <1>0, <2>1, Shape DEF Editing, CommentRow
    <3>2. Edited(req[r]) = [comment[c] EXCEPT !.body = b]
      BY <2>3 DEF Edited
    <3>3. comment'[c] = Edited(req[r])
      BY <1>0, <2>1, <2>3
    <3> HIDE DEF b
    <3>4. comment'[c].author = comment[c].author /\ comment'[c].vis = comment[c].vis
      BY <1>0, <3>1, <3>2, <3>3, AuthorKept
    <3>5. req[r].by \in Admin \cup {comment[c].author}
      BY <2>1, <2>3 DEF Rightful
    <3> QED
      BY <2>1, <2>3, <3>4, <3>5 DEF Handled
  <2> QED
    BY <2>2, <2>3
<1>4. ASSUME NEW r \in Request, DeleteCommentCommit(r)
      PROVE  Handled(c)
  <2>1. req[r].op = "delete" /\ comment' = [comment EXCEPT ![req[r].comment].state = "deleted"]
    BY <1>4 DEF DeleteCommentCommit, Commit
  <2>2. CASE req[r].comment # c
    <3>1. comment'[c] = comment[c]
      BY <1>0, <2>1, <2>2
    <3> QED
      BY <3>1 DEF Handled
  <2>3. CASE req[r].comment = c
    <3>1. comment'[c] = [comment[c] EXCEPT !.state = "deleted"]
      BY <1>0, <2>1, <2>3
    <3>2. [comment[c] EXCEPT !.state = "deleted"].vis = comment[c].vis
      BY <1>0 DEF CommentRow
    <3>3. comment'[c].author = comment[c].author /\ comment'[c].vis = comment[c].vis
      BY <1>0, <3>1, <3>2, AuthorKept
    <3>4. req[r].by \in Admin \cup {comment[c].author}
      BY <2>1, <2>3 DEF Rightful
    <3> QED
      BY <2>1, <2>3, <3>3, <3>4 DEF Handled
  <2> QED
    BY <2>2, <2>3
<1>5. ASSUME NEW d \in Comment, CloseWindow(d)
      PROVE  Handled(c)
  <2>1. comment'[c] = IF d = c THEN [comment[c] EXCEPT !.closed = TRUE] ELSE comment[c]
    BY <1>0, <1>5 DEF CloseWindow
  <2> QED
    BY <1>0, <2>1, AuthorKept DEF Handled
<1>6. ASSUME NEW r \in Request,
             \/ \E u \in User : Handle(r, u)
             \/ \E a \in Attachment : RegisterAttachmentCommit(r, a)
             \/ DeleteAttachmentCommit(r) \/ Send(r) \/ Rollback(r)
      PROVE  comment' = comment
  BY <1>6 DEF Handle, CreateComment, EditComment, DeleteComment, RegisterAttachment, DeleteAttachment, Keep,
     RegisterAttachmentCommit, DeleteAttachmentCommit, Send, Rollback
<1>7. ASSUME \/ \E k \in Key : Upload(k) \/ ExpireUrl(k) \/ \E u \in User : RequestUploadUrl(u, k)
             \/ \E m \in outbox : Notify(m)
             \/ \E t \in Ticket : TicketMoves(t)
      PROVE  comment' = comment
  BY <1>7 DEF Upload, ExpireUrl, RequestUploadUrl, Notify, TicketMoves
<1>8. UNCHANGED vars => comment' = comment
  BY DEF vars
<1>9. CASE Next
  BY <1>1, <1>2, <1>3, <1>4, <1>5, <1>6, <1>7, <1>9 DEF Next
<1> QED
  BY <1>1, <1>8, <1>9

\* A request in flight was started with an editor or deleter who may, and the
\* author of an existing comment does not change.
LEMMA RightfulStep ==
  ASSUME TypeInv, Rightful, [Next]_vars
  PROVE  Rightful'
<1>0. TypeOK /\ Refs /\ req \in [Request -> Req] /\ Idle.op = "none"
  BY DEF TypeInv, TypeOK, Idle
<1>1. ASSUME NEW r \in Request, req'[r] = req[r], req[r].op \in {"edit", "delete"}
      PROVE  req'[r].by \in Admin \cup {comment'[req'[r].comment].author}
  <2>1. req[r].comment \in Comment /\ comment[req[r].comment].state # "none"
    BY <1>0, <1>1, Shape DEF Editing, Deleting, Refs
  <2>2. comment'[req[r].comment].author = comment[req[r].comment].author
    BY <2>1, AuthorStep DEF Handled
  <2> QED
    BY <1>1, <2>2 DEF Rightful
<1>2. SUFFICES ASSUME NEW r \in Request, req'[r] # req[r], req'[r].op \in {"edit", "delete"}
               PROVE  req'[r].by \in Admin \cup {comment'[req'[r].comment].author}
  BY <1>1 DEF Rightful
<1>3. PICK x \in Request, u \in User : Handle(x, u)
  <2>1. ASSUME NEW x \in Request,
               \/ CreateCommentCommit(x) \/ EditCommentCommit(x) \/ DeleteCommentCommit(x)
               \/ \E a \in Attachment : RegisterAttachmentCommit(x, a)
               \/ DeleteAttachmentCommit(x) \/ Rollback(x)
        PROVE  FALSE
    <3>1. req' = [req EXCEPT ![x] = Idle]
      BY <2>1, Ends
    <3> QED
      BY <1>0, <1>2, <3>1
  <2>2. ASSUME \/ \E x \in Request : Send(x)
               \/ \E d \in Comment : CloseWindow(d)
               \/ \E k \in Key : Upload(k) \/ ExpireUrl(k) \/ \E u \in User : RequestUploadUrl(u, k)
               \/ \E m \in outbox : Notify(m)
               \/ \E t \in Ticket : TicketMoves(t)
               \/ UNCHANGED vars
        PROVE  req' = req
    BY <2>2 DEF Send, CloseWindow, Upload, ExpireUrl, RequestUploadUrl, Notify, TicketMoves, vars
  <2> QED
    BY <1>2, <2>1, <2>2 DEF Next
<1>4. UNCHANGED comment
  BY <1>3, Loads
<1>5. ASSUME NEW q, Keep(x, q), q.op \in {"edit", "delete"} => q.by \in Admin \cup {comment[q.comment].author}
      PROVE  req'[r].by \in Admin \cup {comment'[req'[r].comment].author}
  <2>1. req' = [req EXCEPT ![x] = q]
    BY <1>5 DEF Keep
  <2>2. r = x /\ req'[r] = q
    BY <1>0, <1>2, <2>1
  <2> QED
    BY <1>2, <1>4, <1>5, <2>2
<1>6. ASSUME NEW c \in Comment, NEW vis \in Visibilities, NEW b \in Body, NEW names \in Mentions,
             CreateComment(x, u, c, vis, b, names)
      PROVE  req'[r].by \in Admin \cup {comment'[req'[r].comment].author}
  BY <1>5, <1>6 DEF CreateComment
<1>7. ASSUME NEW c \in Comment, NEW b \in Body, EditComment(x, u, c, b)
      PROVE  req'[r].by \in Admin \cup {comment'[req'[r].comment].author}
  BY <1>5, <1>7 DEF EditComment, OwnComment
<1>8. ASSUME NEW c \in Comment, DeleteComment(x, u, c)
      PROVE  req'[r].by \in Admin \cup {comment'[req'[r].comment].author}
  BY <1>5, <1>8 DEF DeleteComment, OwnComment
<1>9. ASSUME NEW c \in Comment, NEW k \in Key, RegisterAttachment(x, u, c, k)
      PROVE  req'[r].by \in Admin \cup {comment'[req'[r].comment].author}
  BY <1>5, <1>9 DEF RegisterAttachment
<1>10. ASSUME NEW a \in Attachment, DeleteAttachment(x, u, a)
       PROVE  req'[r].by \in Admin \cup {comment'[req'[r].comment].author}
  BY <1>5, <1>10 DEF DeleteAttachment
<1> QED
  BY <1>3, <1>6, <1>7, <1>8, <1>9, <1>10 DEF Handle

\* OnlyItsAuthor: nobody but its author and the administrators changes what a
\* comment says or takes it away, and its author and visibility stay.
THEOREM AuthorTheorem == Spec => OnlyItsAuthor
<1>1. Init => Rightful
  BY DEF Init, Rightful, Idle
<1>2. TypeInv /\ Rightful /\ [Next]_vars
        => [\A c \in Comment :
              comment[c].state # "none" =>
                /\ comment'[c].author = comment[c].author /\ comment'[c].vis = comment[c].vis
                /\ \/ comment'[c].body = comment[c].body /\ comment'[c].state = comment[c].state
                   \/ \E r \in Request : /\ req[r].op \in {"edit", "delete"} /\ req[r].comment = c
                                         /\ req[r].by \in Admin \cup {comment[c].author}]_vars
  BY AuthorStep DEF Handled
<1>3. TypeInv /\ Rightful /\ [Next]_vars => Rightful'
  BY RightfulStep
<1> QED
  BY <1>1, <1>2, <1>3, InitType, TypeStep, PTL DEF Spec, OnlyItsAuthor

=============================================================================
