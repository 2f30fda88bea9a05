--------------------------- MODULE TicketContent ---------------------------
(***************************************************************************)
(* What people put on tickets: comments, the files attached to them, and   *)
(* the notifications a comment causes.                                     *)
(*                                                                         *)
(* A handler loads the ticket and the comment or attachment, checks its    *)
(* guards on what it loaded, and then flushes and commits; between the two *)
(* any other request may commit.  Flushes are UPDATEs by primary key that  *)
(* set the changed columns only.  Files travel outside the database: the   *)
(* client PUTs them to the object store through a presigned URL and then   *)
(* registers them.  Notifications are worked out later, on the ticket as   *)
(* it is then, possibly more than once; over Kafka they are announced      *)
(* before the comment is committed.                                        *)
(*                                                                         *)
(* The ticket itself moves as TicketWorkflow says; here it may take any of *)
(* the Situations at any time.                                             *)
(***************************************************************************)
EXTENDS Naturals

CONSTANTS
  Ticket, User, Comment, Key, Attachment, Body, Request,
  TicketOf,    \* [Comment -> Ticket]: the ticket a comment id is created on
  KeyTicket,   \* [Key -> Ticket]: tickets/<ticket id>/... in the storage key
  Admin, Auditor, Distributor, Avizator,   \* sets of users
  Party,       \* [Ticket -> SUBSET User]: creator, beneficiary, requester
  Watcher,     \* [Ticket -> SUBSET User]: ticket_watchers
  Situations,  \* [Ticket -> SUBSET Situation]: the states a ticket may be in
  Mentions,    \* sets of users a comment may mention
  NoUser, NoBody,
  MaxRequests  \* bound on the number of requests

\* assignee; joined: ticket_assignees; desk, chiefs: members and chiefs of the
\* current sector; team: members of any sector of the ticket.
Situation == [assignee: User \cup {NoUser}, joined: SUBSET User,
              desk: SUBSET User, chiefs: SUBSET User, team: SUBSET User,
              triage: BOOLEAN, deleted: BOOLEAN]

Visibilities == {"public", "private"}

ASSUME ContentAssumption ==
  /\ TicketOf \in [Comment -> Ticket] /\ KeyTicket \in [Key -> Ticket]
  /\ Admin \cup Auditor \cup Distributor \cup Avizator \subseteq User
  /\ Party \in [Ticket -> SUBSET User] /\ Watcher \in [Ticket -> SUBSET User]
  /\ Situations \in [Ticket -> SUBSET Situation] /\ Mentions \subseteq SUBSET User
  /\ \A t \in Ticket : \A s \in Situations[t] : s.chiefs \subseteq s.desk /\ s.desk \subseteq s.team
  /\ NoUser \notin User /\ NoBody \notin Body /\ MaxRequests \in Nat

VARIABLES
  ticket,      \* [Ticket -> Situation]
  comment,     \* ticket_comments by id
  onRecord,    \* auxiliary: where the audit trail of a comment's body ends
  attachment,  \* ticket_attachments by id
  signed,      \* keys with a presigned PUT that has not expired
  stored,      \* keys with an object
  outbox,      \* notify_comment and notify_mentions tasks not dropped yet
  inbox,       \* notifications about comments
  req,         \* the requests in flight
  sent,        \* those of them whose task is already with the broker
  quota        \* requests that may still start

vars == <<ticket, comment, onRecord, attachment, signed, stored, outbox, inbox, req, sent, quota>>

\* The quota counts down, one for each request that starts, and serves as the
\* clock: audit rows carry created_at = now(), the start of the transaction.
Stamp == 1..(MaxRequests + 1)

\* end: of the audit rows that report a change of the body, the one with the
\* latest stamp, at which the trail as listed ends.  shown: when the request
\* that wrote the body now shown began, and the clock at its commit.
Record == [end: [body: Body \cup {NoBody}, at: Stamp],
           shown: [from: Stamp, till: 0..MaxRequests]]

NoRecord == [end |-> [body |-> NoBody, at |-> MaxRequests + 1],
             shown |-> [from |-> MaxRequests + 1, till |-> MaxRequests]]

NoComment == [state |-> "none", vis |-> "public", author |-> NoUser, body |-> NoBody, closed |-> FALSE]

\* closed: EDIT_WINDOW has passed since created_at.
CommentRow == [state: {"none", "live", "deleted"}, vis: Visibilities,
               author: User \cup {NoUser}, body: Body \cup {NoBody}, closed: BOOLEAN]

NoAttachment == [state |-> "none"]
AttachmentRow == [state: {"live", "deleted"}, key: Key, comment: Comment, by: User]

Task == [about: Comment, vis: Visibilities, actor: User, names: SUBSET User]

\* What a handler remembers: its arguments, for an edit the loaded body, and
\* when its transaction began.
Idle == [op |-> "none"]
Req == {Idle}
  \cup [op: {"create"}, by: User, comment: Comment, vis: Visibilities, body: Body, names: SUBSET User, at: Stamp]
  \cup [op: {"edit"}, by: User, comment: Comment, body: Body, old: Body, at: Stamp]
  \cup [op: {"delete"}, by: User, comment: Comment]
  \cup [op: {"register"}, by: User, comment: Comment, key: Key]
  \cup [op: {"detach"}, by: User, attachment: Attachment]

TypeOK ==
  /\ \A t \in Ticket : ticket[t] \in Situations[t]
  /\ comment \in [Comment -> CommentRow] /\ onRecord \in [Comment -> Record]
  /\ attachment \in [Attachment -> {NoAttachment} \cup AttachmentRow]
  /\ signed \subseteq Key /\ stored \subseteq Key
  /\ outbox \subseteq Task /\ inbox \subseteq [to: User, about: Comment, vis: Visibilities]
  /\ req \in [Request -> Req] /\ sent \subseteq Request /\ quota \in 0..MaxRequests

Init ==
  /\ ticket \in {f \in [Ticket -> UNION {Situations[t] : t \in Ticket}] :
                   \A t \in Ticket : f[t] \in Situations[t]}
  /\ comment = [c \in Comment |-> NoComment] /\ onRecord = [c \in Comment |-> NoRecord]
  /\ attachment = [a \in Attachment |-> NoAttachment]
  /\ signed = {} /\ stored = {} /\ outbox = {} /\ inbox = {}
  /\ req = [r \in Request |-> Idle] /\ sent = {} /\ quota = MaxRequests

-----------------------------------------------------------------------------
(* rbac.py, on a ticket as ticket_service.get hydrates it                  *)

CanView(u, t) ==
  \/ u \in Admin \cup Auditor \cup Party[t] \cup ticket[t].team
  \/ u \in Distributor /\ ticket[t].triage

\* ticket_service.get: avizators read through an endorsement of theirs.
CanOpen(u, t) == ~ticket[t].deleted /\ (CanView(u, t) \/ u \in Avizator)

AssignedTo(u, t) == ticket[t].assignee = u

SeesPrivate(u, t) ==
  u \in Admin \cup Auditor \cup Distributor \cup ticket[t].team \/ AssignedTo(u, t)

MayPost(u, t, vis) == AssignedTo(u, t) \/ (vis = "public" /\ u \in Party[t])

CanModify(u, t) == u \in Admin \cup ticket[t].chiefs \/ AssignedTo(u, t)

\* A slip: whoever may view the ticket may fetch its files.
FetchIfViewed(u, t, vis) == CanView(u, t)

CanDownload(u, t, vis) == IF vis = "public" THEN CanView(u, t) ELSE SeesPrivate(u, t)

-----------------------------------------------------------------------------
(* The frame of a handler                                                  *)

Keep(r, q) ==
  /\ req' = [req EXCEPT ![r] = q] /\ quota' = quota - 1
  /\ UNCHANGED <<ticket, comment, onRecord, attachment, signed, stored, outbox, inbox, sent>>

Commit(r, op) ==
  /\ req[r].op = op
  /\ req' = [req EXCEPT ![r] = Idle] /\ sent' = sent \ {r}
  /\ UNCHANGED <<ticket, signed, stored, inbox, quota>>

\* An exception or a dead worker: nothing is kept but what has been sent.
Rollback(r) ==
  /\ req[r] # Idle
  /\ req' = [req EXCEPT ![r] = Idle] /\ sent' = sent \ {r}
  /\ UNCHANGED <<ticket, comment, onRecord, attachment, signed, stored, outbox, inbox, quota>>

\* The payloads of notify_comment and notify_mentions.
Announcement(q) ==
  [about |-> q.comment, actor |-> q.by,
   vis |-> IF q.op = "create" THEN q.vis ELSE comment[q.comment].vis,
   names |-> IF q.op = "create" THEN q.names ELSE {}]

\* publish() over Kafka: the message leaves while the transaction is open.
Send(r) ==
  /\ req[r].op \in {"create", "edit", "delete"} /\ r \notin sent
  /\ outbox' = outbox \cup {Announcement(req[r])} /\ sent' = sent \cup {r}
  /\ UNCHANGED <<ticket, comment, onRecord, attachment, signed, stored, inbox, req, quota>>

\* publish() inline: the task waits for the commit.
PublishOnCommit(r) ==
  outbox' = outbox \cup (IF r \in sent THEN {} ELSE {Announcement(req[r])})

\* The audit row of a change of the body, among those of the other requests.
Recorded(q) ==
  LET e == onRecord[q.comment] IN
  [end   |-> IF q.at <= e.end.at THEN [body |-> q.body, at |-> q.at] ELSE e.end,
   shown |-> [from |-> q.at, till |-> quota]]

-----------------------------------------------------------------------------
(* comment_service                                                         *)

CreateComment(r, u, c, vis, b, names) ==
  /\ comment[c] = NoComment
  /\ \A x \in Request : req[x].op = "create" => req[x].comment # c
  /\ \A m \in outbox \cup inbox : m.about # c
  /\ CanOpen(u, TicketOf[c]) /\ MayPost(u, TicketOf[c], vis)
  /\ Keep(r, [op |-> "create", by |-> u, comment |-> c, vis |-> vis, body |-> b, names |-> names,
              at |-> quota])

CreateCommentCommit(r) ==
  LET q == req[r] IN
  /\ Commit(r, "create")
  /\ comment' = [comment EXCEPT ![q.comment] =
       [state |-> "live", vis |-> q.vis, author |-> q.by, body |-> q.body, closed |-> FALSE]]
  /\ onRecord' = [onRecord EXCEPT ![q.comment] = Recorded(q)]
  /\ PublishOnCommit(r)
  /\ UNCHANGED attachment

\* A slip: whoever can open the ticket may edit and delete.
CommentInReach(u, c) ==
  comment[c].state = "live" /\ CanOpen(u, TicketOf[c])

\* _load_visible and the author rule, shared by edit and delete.
OwnComment(u, c) ==
  /\ comment[c].state = "live" /\ CanOpen(u, TicketOf[c])
  /\ u = comment[c].author \/ u \in Admin

EditComment(r, u, c, b) ==
  /\ OwnComment(u, c)
  /\ u \in Admin \/ ~comment[c].closed
  /\ Keep(r, [op |-> "edit", by |-> u, comment |-> c, body |-> b, old |-> comment[c].body,
              at |-> quota])

\* A slip: the flush writes the whole loaded row back, which was live.
EditedWhole(q) ==
  [comment[q.comment] EXCEPT !.body = IF q.body = q.old THEN @ ELSE q.body, !.state = "live"]

\* A slip: the UPDATE is sent although the body did not change.
EditedAnyway(q) == [comment[q.comment] EXCEPT !.body = q.body]

\* The ORM sends the UPDATE only if the body differs from the loaded one.
Edited(q) == [comment[q.comment] EXCEPT !.body = IF q.body = q.old THEN @ ELSE q.body]

EditCommentCommit(r) ==
  LET q == req[r] IN
  /\ Commit(r, "edit")
  /\ comment' = [comment EXCEPT ![q.comment] = Edited(q)]
  /\ onRecord' = [onRecord EXCEPT ![q.comment] = IF q.body = q.old THEN @ ELSE Recorded(q)]
  /\ PublishOnCommit(r)
  /\ UNCHANGED attachment

DeleteComment(r, u, c) ==
  /\ OwnComment(u, c)
  /\ Keep(r, [op |-> "delete", by |-> u, comment |-> c])

DeleteCommentCommit(r) ==
  LET q == req[r] IN
  /\ Commit(r, "delete")
  /\ comment' = [comment EXCEPT ![q.comment].state = "deleted"]
  /\ PublishOnCommit(r)
  /\ UNCHANGED <<onRecord, attachment>>

\* EDIT_WINDOW passes for a comment.
CloseWindow(c) ==
  /\ comment[c].state # "none" /\ ~comment[c].closed
  /\ comment' = [comment EXCEPT ![c].closed = TRUE]
  /\ UNCHANGED <<ticket, onRecord, attachment, signed, stored, outbox, inbox, req, sent, quota>>

\* What list_ returns to u.
ListedComments(u, t) ==
  {c \in Comment : /\ TicketOf[c] = t /\ comment[c].state = "live" /\ CanOpen(u, t)
                   /\ SeesPrivate(u, t) \/ comment[c].vis = "public"}

-----------------------------------------------------------------------------
(* attachment_service and the object store                                 *)

\* request_upload_url; the size limits and the bucket setup are left out.
RequestUploadUrl(u, k) ==
  /\ k \notin signed
  /\ CanOpen(u, KeyTicket[k]) /\ CanView(u, KeyTicket[k])
  /\ signed' = signed \cup {k}
  /\ UNCHANGED <<ticket, comment, onRecord, attachment, stored, outbox, inbox, req, sent, quota>>

\* The client's PUT.
Upload(k) ==
  /\ k \in signed \ stored
  /\ stored' = stored \cup {k}
  /\ UNCHANGED <<ticket, comment, onRecord, attachment, signed, outbox, inbox, req, sent, quota>>

\* ATTACHMENT_PRESIGNED_TTL.
ExpireUrl(k) ==
  /\ k \in signed
  /\ signed' = signed \ {k}
  /\ UNCHANGED <<ticket, comment, onRecord, attachment, stored, outbox, inbox, req, sent, quota>>

\* A slip: the key is not compared with the ticket.
AnyUploadedObject(k, t) == k \in stored

\* The key lies under the ticket's prefix and head_object finds it.
UploadedObject(k, t) == KeyTicket[k] = t /\ k \in stored

\* The ticket in the URL is the comment's; any other is refused.
RegisterAttachment(r, u, c, k) ==
  LET t == TicketOf[c] IN
  /\ CanOpen(u, t) /\ CanView(u, t)
  /\ comment[c].state = "live" /\ MayPost(u, t, comment[c].vis)
  /\ UploadedObject(k, t)
  /\ Keep(r, [op |-> "register", by |-> u, comment |-> c, key |-> k])

RegisterAttachmentCommit(r, a) ==
  LET q == req[r] IN
  /\ Commit(r, "register")
  /\ attachment[a] = NoAttachment
  /\ attachment' = [attachment EXCEPT ![a] =
       [state |-> "live", key |-> q.key, comment |-> q.comment, by |-> q.by]]
  /\ UNCHANGED <<comment, onRecord, outbox>>

\* _load_authorized.
Fetchable(u, a) ==
  /\ attachment[a].state = "live"
  /\ LET c == attachment[a].comment IN
       CanOpen(u, TicketOf[c]) /\ CanDownload(u, TicketOf[c], comment[c].vis)

DeleteAttachment(r, u, a) ==
  /\ Fetchable(u, a)
  /\ attachment[a].by = u \/ CanModify(u, TicketOf[attachment[a].comment])
  /\ Keep(r, [op |-> "detach", by |-> u, attachment |-> a])

DeleteAttachmentCommit(r) ==
  /\ Commit(r, "detach")
  /\ attachment' = [attachment EXCEPT ![req[r].attachment].state = "deleted"]
  /\ UNCHANGED <<comment, onRecord, outbox>>

\* What list_ returns to u: the join with the comments does not ask whether
\* the comment is deleted.
ListedAttachments(u, t) ==
  {a \in Attachment :
     /\ attachment[a].state = "live" /\ CanOpen(u, t)
     /\ TicketOf[attachment[a].comment] = t
     /\ SeesPrivate(u, t) \/ comment[attachment[a].comment].vis = "public"}

-----------------------------------------------------------------------------
(* notifications.py                                                        *)

\* _user_can_see_private_comments builds a principal without realm roles, in
\* the sectors of the memberships, and a ticket with its current sector only.
GhostSeesPrivate(u, t) == AssignedTo(u, t) \/ u \in ticket[t].desk

\* A slip: watchers are added after the filter.
CommentRecipientsLate(m) ==
  LET t == TicketOf[m.about]
      staff == {u \in ticket[t].joined \cup {ticket[t].assignee} : GhostSeesPrivate(u, t)}
  IN  (staff \cup Watcher[t]) \ {m.actor, NoUser}

\* notify_comment: requester side, assignees and watchers; of these only the
\* staff when the comment is private.
CommentRecipients(m) ==
  LET t == TicketOf[m.about]
      all == ticket[t].joined \cup {ticket[t].assignee} \cup Watcher[t]
  IN  (IF m.vis = "public" THEN all \cup Party[t] ELSE {u \in all : GhostSeesPrivate(u, t)})
        \ {m.actor, NoUser}

\* notify_mentions hydrates assignee_user_ids with all join rows, so that
\* co-assignees count as assigned here.
MentionRecipients(m) ==
  LET t == TicketOf[m.about] IN
  {u \in m.names \ {m.actor} :
     /\ u \in Party[t] \cup ticket[t].desk
     /\ m.vis = "public" \/ GhostSeesPrivate(u, t) \/ u \in ticket[t].joined}

\* A task is run, and perhaps run again later.
Notify(m) ==
  /\ m \in outbox
  /\ inbox' = inbox \cup {[to |-> u, about |-> m.about, vis |-> m.vis] :
                            u \in CommentRecipients(m) \cup MentionRecipients(m)}
  /\ \E again \in BOOLEAN : outbox' = IF again THEN outbox ELSE outbox \ {m}
  /\ UNCHANGED <<ticket, comment, onRecord, attachment, signed, stored, req, sent, quota>>

\* Elsewhere the ticket is routed, assigned, released or deleted.
TicketMoves(t) ==
  /\ ~ticket[t].deleted
  /\ \E s \in Situations[t] : ticket' = [ticket EXCEPT ![t] = s]
  /\ UNCHANGED <<comment, onRecord, attachment, signed, stored, outbox, inbox, req, sent, quota>>

-----------------------------------------------------------------------------
Handle(r, u) ==
  /\ req[r] = Idle /\ quota > 0
  /\ \/ \E c \in Comment :
          \/ \E vis \in Visibilities, b \in Body, names \in Mentions : CreateComment(r, u, c, vis, b, names)
          \/ \E b \in Body : EditComment(r, u, c, b)
          \/ DeleteComment(r, u, c)
          \/ \E k \in Key : RegisterAttachment(r, u, c, k)
     \/ \E a \in Attachment : DeleteAttachment(r, u, a)

Next ==
  \/ \E r \in Request :
       \/ \E u \in User : Handle(r, u)
       \/ CreateCommentCommit(r)
       \/ EditCommentCommit(r)
       \/ DeleteCommentCommit(r)
       \/ \E a \in Attachment : RegisterAttachmentCommit(r, a)
       \/ DeleteAttachmentCommit(r)
       \/ Send(r)
       \/ Rollback(r)
  \/ \E c \in Comment : CloseWindow(c)
  \/ \E k \in Key : Upload(k) \/ ExpireUrl(k) \/ \E u \in User : RequestUploadUrl(u, k)
  \/ \E m \in outbox : Notify(m)
  \/ \E t \in Ticket : TicketMoves(t)

Spec == Init /\ [][Next]_vars

-----------------------------------------------------------------------------
(* Properties                                                              *)

\* A deleted comment stays deleted, whatever edits and deletions were under
\* way when it was deleted.
DeletedStaysDeleted ==
  [][\A c \in Comment : comment[c].state = "deleted" => comment'[c].state = "deleted"]_vars

\* What a comment says, and that it is gone, is the work of its author or of an
\* administrator, whoever edits and deletes beside them; who wrote it and who
\* may read it never changes, so a task that was published before the change
\* still knows both.
OnlyItsAuthor ==
  [][\A c \in Comment :
       comment[c].state # "none" =>
         /\ comment'[c].author = comment[c].author /\ comment'[c].vis = comment[c].vis
         /\ \/ comment'[c].body = comment[c].body /\ comment'[c].state = comment[c].state
            \/ \E r \in Request : /\ req[r].op \in {"edit", "delete"} /\ req[r].comment = c
                                  /\ req[r].by \in Admin \cup {comment[c].author}]_vars

\* The audit trail of a comment, listed by the stamps of its rows, ends at the
\* body that is shown; if it does not, the edit at its end began while the edit
\* that is shown was under way.
BodyOnRecord ==
  \A c \in Comment :
    LET end == onRecord[c].end  shown == onRecord[c].shown IN
    comment[c].body = end.body \/ (end.at < shown.from /\ end.at > shown.till)

\* However early a private comment is announced, and however late the
\* notification is worked out on a ticket that has moved since, it goes to people
\* who are then allowed to read private comments on it, or to co-assignees who
\* were mentioned.
PrivateStaysInside ==
  [][\A n \in inbox' \ inbox :
       LET t == TicketOf[n.about] IN
       "private" \in {n.vis, comment[n.about].vis}
         => SeesPrivate(n.to, t) \/ n.to \in ticket[t].joined]_vars

\* An attachment belongs to one ticket on every path: the ticket of its comment
\* is the one its object was uploaded for, and the object is there.
AttachmentsSound ==
  \A a \in Attachment : attachment[a].state # "none" =>
     /\ KeyTicket[attachment[a].key] = TicketOf[attachment[a].comment]
     /\ attachment[a].key \in stored

\* list_ and download_url agree on every attachment, for everybody but the
\* avizators who may only read through an endorsement.
ListedIsFetchable ==
  \A u \in User, t \in Ticket, a \in Attachment :
     CanView(u, t) /\ attachment[a].state # "none" /\ TicketOf[attachment[a].comment] = t
       => (a \in ListedAttachments(u, t) <=> Fetchable(u, a))

-----------------------------------------------------------------------------
(* What does not hold: TLC refutes both as invariants.                     *)

\* The trail ends at the body shown.  Of two edits under way at once, the one
\* that began first may be flushed last.
TrailEndsAtBody == \A c \in Comment : comment[c].body = onRecord[c].end.body

\* Who is told of a comment can find it.  Over Kafka the task is run before the
\* commit, or after a rollback.
AnnouncedExists == \A n \in inbox : comment[n.about].state # "none"

=============================================================================
