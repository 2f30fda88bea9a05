--------------------- MODULE TicketEndorsements_proofs ---------------------
(***************************************************************************)
(* Theorems about the workflow composed with endorsements.                 *)
(***************************************************************************)
EXTENDS TicketEndorsements, TicketWorkflow_proofs, TLAPS

USE RolesAssumption, AvizatorAssumption

-----------------------------------------------------------------------------
(* Composition                                                             *)

\* A step of the composition is a step of the workflow or leaves it alone.
LEMMA ProjectedStep == [ENext]_allvars => [Next]_vars
BY ZenonT(60) DEF ENext, allvars, WorkflowStep, CheckPending, EndorsementStep, FileRead, DecideRead,
       ClaimRead, EKeep, FileWrite, DecideWrite, ClaimWrite, ERollback, ECommit

\* Endorsements only take behaviours away from the workflow: every property of
\* TicketWorkflow holds of the composition as well.
THEOREM Composition == ESpec => Spec
<1>1. EInit => Init
  BY DEF EInit
<1> QED
  BY <1>1, ProjectedStep, PTL DEF ESpec, Spec

-----------------------------------------------------------------------------
(* The inductive invariant                                                 *)

\* A decision or claim knows who makes it; an unfiled row belongs to nobody;
\* a claimed row is somebody's; what a gated request has seen is decided.
ActorKnown   == \A c \in Caller : ereq[c].op \in {"decide", "claim"} => ereq[c].user \in User
UnfiledFree  == \A e \in Endorsement : endo[e].status = "none" => endo[e].to = NoUser
ClaimedHeld  == \A e \in Endorsement : claimants[e] # {} => endo[e].to # NoUser
SeenDecided  == \A r \in Request : \A e \in seen[r] : endo[e].status \in Decided

EInv == ETypeOK /\ OneClaimant /\ ActorKnown /\ UnfiledFree /\ ClaimedHeld /\ SeenDecided

\* With nothing filed there is nothing to hold.
LEMMA EInvInit == EInit => EInv
BY DEF EInit, EInv, ETypeOK, OneClaimant, ActorKnown, UnfiledFree, ClaimedHeld,
       SeenDecided, EndoRow, EReq, ENone, Decided

\* Ending an endorsement request changes nothing another one remembers.
LEMMA EDrop ==
  ASSUME EInv, NEW c \in Caller, ECommit(c)
  PROVE  /\ ereq' \in [Caller -> EReq] /\ ActorKnown'
         /\ gated' = gated /\ seen' = seen
<1>1. ENone \in EReq /\ ENone.op = "none"
  BY DEF ENone, EReq, Decided
<1> QED
  BY <1>1 DEF ECommit, EInv, ETypeOK, ActorKnown

\* Remembering what was read disturbs nobody.
LEMMA EKept ==
  ASSUME EInv, NEW c \in Caller, NEW q \in EReq, EKeep(c, q),
         q.op \in {"decide", "claim"} => q.user \in User
  PROVE  EInv'
BY DEF EKeep, EInv, ETypeOK, OneClaimant, ActorKnown, UnfiledFree, ClaimedHeld, SeenDecided

\* Each endorsement handler keeps the invariant.
LEMMA EInvEndorsement ==
  ASSUME EInv, NEW c \in Caller, EndorsementStep(c)
  PROVE  EInv'
<1> DEFINE q == ereq[c]
<1>0. /\ endo \in [Endorsement -> EndoRow] /\ q \in EReq
      /\ claimants \in [Endorsement -> SUBSET User]
      /\ gated \subseteq Request /\ seen \in [Request -> SUBSET Endorsement]
  BY DEF EInv, ETypeOK
<1>1. ASSUME NEW p \in User, NEW t \in Avizator \cup {NoUser}, FileRead(c, p, t)
      PROVE  EInv'
  <2> DEFINE n == [ENone EXCEPT !.op = "file", !.user = p, !.to = t]
  <2>1. n \in EReq /\ n.op = "file" /\ EKeep(c, n)
    BY <1>1 DEF FileRead, ENone, EReq, Decided
  <2> HIDE DEF n
  <2> QED
    BY <2>1, EKept
<1>2. ASSUME NEW p \in User, NEW e \in Endorsement, NEW v \in Decided, DecideRead(c, p, e, v)
      PROVE  EInv'
  <2> DEFINE n == [ENone EXCEPT !.op = "decide", !.user = p, !.rows = {e}, !.verdict = v,
                                !.pool = endo[e].to = NoUser]
  <2>1. n \in EReq /\ n.user \in User /\ EKeep(c, n)
    BY <1>2 DEF DecideRead, ENone, EReq
  <2> HIDE DEF n
  <2> QED
    BY <2>1, EKept
<1>3. ASSUME NEW p \in User, NEW e \in Endorsement, ClaimRead(c, p, e)
      PROVE  EInv'
  <2> DEFINE n == [ENone EXCEPT !.op = "claim", !.user = p, !.rows = {e}]
  <2>1. n \in EReq /\ n.user \in User /\ EKeep(c, n)
    BY <1>3 DEF ClaimRead, ENone, EReq, Decided
  <2> HIDE DEF n
  <2> QED
    BY <2>1, EKept
<1>4. CASE FileWrite(c)
  <2>1. PICK e \in Endorsement \ Filed :
          endo' = [endo EXCEPT ![e] = [status |-> "pending", to |-> q.to, by |-> NoUser]]
    BY <1>4 DEF FileWrite
  <2>2. endo[e].status = "none"
    BY <2>1 DEF Filed
  <2>3. [status |-> "pending", to |-> q.to, by |-> NoUser] \in EndoRow
    BY <1>0 DEF EReq, EndoRow
  <2>4. ECommit(c) /\ claimants' = claimants
    BY <1>4 DEF FileWrite
  <2>5. ETypeOK' /\ OneClaimant' /\ ActorKnown'
    BY <1>0, <2>1, <2>3, <2>4, EDrop DEF EInv, ETypeOK, OneClaimant
  <2>6. UnfiledFree'
    BY <1>0, <2>1 DEF EInv, UnfiledFree
  <2>7. claimants[e] = {}
    BY <2>2 DEF EInv, ClaimedHeld, UnfiledFree
  <2>8. ClaimedHeld'
    BY <1>0, <2>1, <2>4, <2>7 DEF EInv, ClaimedHeld
  <2>9. SeenDecided'
    BY <1>0, <2>1, <2>2, <2>4, EDrop DEF EInv, SeenDecided, Decided
  <2> QED
    BY <2>5, <2>6, <2>8, <2>9 DEF EInv
<1>5. CASE DecideWrite(c)
  <2>1. /\ endo' = [e \in Endorsement |->
                      IF e \in q.rows
                      THEN [status |-> q.verdict, to |-> Entrusted(q, e), by |-> q.user]
                      ELSE endo[e]]
        /\ ECommit(c) /\ claimants' = claimants /\ q.op = "decide"
    BY <1>5 DEF DecideWrite
  <2>2. q.user \in User /\ q.verdict \in Decided
    BY <1>0, <2>1 DEF EInv, ActorKnown, EReq
  <2>3. \A e \in Endorsement : Entrusted(q, e) \in User \cup {NoUser}
                               /\ (endo[e].to # NoUser => Entrusted(q, e) # NoUser)
    BY <1>0, <2>2 DEF Entrusted, EndoRow
  <2> HIDE DEF q
  <2>4. \A e \in Endorsement : endo'[e] \in EndoRow
    BY <1>0, <2>1, <2>2, <2>3 DEF EndoRow
  <2>5. ETypeOK' /\ OneClaimant' /\ ActorKnown'
    BY <1>0, <2>1, <2>4, EDrop DEF EInv, ETypeOK, OneClaimant
  <2>6. UnfiledFree'
    BY <1>0, <2>1, <2>2 DEF EInv, UnfiledFree, Decided
  <2>7. ClaimedHeld'
    BY <1>0, <2>1, <2>3 DEF EInv, ClaimedHeld
  <2>8. SeenDecided'
    BY <1>0, <2>1, <2>2, EDrop DEF EInv, SeenDecided
  <2> QED
    BY <2>5, <2>6, <2>7, <2>8 DEF EInv
<1>6. CASE ClaimWrite(c)
  <2>1. /\ endo' = [e \in Endorsement |->
                      IF e \in q.rows THEN [endo[e] EXCEPT !.to = q.user] ELSE endo[e]]
        /\ claimants' = [e \in Endorsement |->
                           IF e \in q.rows THEN claimants[e] \cup {q.user} ELSE claimants[e]]
        /\ \A e \in q.rows : endo[e].status = "pending" /\ endo[e].to = NoUser
        /\ ECommit(c) /\ q.op = "claim"
    BY <1>6 DEF ClaimWrite, Unclaimed, Pending
  <2>2. q.user \in User
    BY <2>1 DEF EInv, ActorKnown
  <2> HIDE DEF q
  <2>3. \A e \in Endorsement : endo'[e] \in EndoRow /\ endo'[e].status = endo[e].status
    BY <1>0, <2>1, <2>2 DEF EndoRow
  <2>4. ETypeOK' /\ ActorKnown'
    BY <1>0, <2>1, <2>2, <2>3, EDrop DEF EInv, ETypeOK
  <2>5. \A e \in q.rows \cap Endorsement : claimants[e] = {}
    BY <2>1 DEF EInv, ClaimedHeld
  <2>6. OneClaimant'
    BY <1>0, <2>1, <2>5 DEF EInv, OneClaimant
  <2>7. UnfiledFree'
    BY <1>0, <2>1, <2>3 DEF EInv, UnfiledFree
  <2>8. \A e \in Endorsement : e \in q.rows => endo'[e].to = q.user
    BY <1>0, <2>1 DEF EndoRow
  <2>9. ClaimedHeld'
    BY <1>0, <2>1, <2>2, <2>8 DEF EInv, ClaimedHeld
  <2>10. SeenDecided'
    BY <1>0, <2>1, <2>3, EDrop DEF EInv, SeenDecided
  <2> QED
    BY <2>4, <2>6, <2>7, <2>9, <2>10 DEF EInv
<1>7. CASE ERollback(c)
  BY <1>0, <1>7, EDrop DEF ERollback, EInv, ETypeOK, OneClaimant, UnfiledFree, ClaimedHeld,
     SeenDecided
<1> QED
  BY <1>1, <1>2, <1>3, <1>4, <1>5, <1>6, <1>7 DEF EndorsementStep

\* Every step of the composition keeps it.
LEMMA EInvStep == EInv /\ [ENext]_allvars => EInv'
<1> SUFFICES ASSUME EInv, [ENext]_allvars
             PROVE  EInv'
  OBVIOUS
<1>0. gated \subseteq Request /\ seen \in [Request -> SUBSET Endorsement]
      /\ endo \in [Endorsement -> EndoRow]
  BY DEF EInv, ETypeOK
<1>1. CASE WorkflowStep
  BY <1>0, <1>1 DEF WorkflowStep, EInv, ETypeOK, OneClaimant, ActorKnown, UnfiledFree,
     ClaimedHeld, SeenDecided
<1>2. ASSUME NEW r \in Request, CheckPending(r)
      PROVE  EInv'
  <2>1. \A e \in Filed : endo[e].status \in Decided
    BY <1>0, <1>2 DEF CheckPending, HasPending, Pending, Filed, EndoRow
  <2>2. Filed \subseteq Endorsement
    BY DEF Filed
  <2>3. SeenDecided'
    BY <1>0, <1>2, <2>1 DEF CheckPending, EInv, SeenDecided
  <2> QED
    BY <1>0, <1>2, <2>2, <2>3 DEF CheckPending, EInv, ETypeOK, OneClaimant, ActorKnown,
       UnfiledFree, ClaimedHeld
<1>3. CASE UNCHANGED allvars
  BY <1>3 DEF allvars, evars, EInv, ETypeOK, OneClaimant, ActorKnown, UnfiledFree,
     ClaimedHeld, SeenDecided
<1> QED
  BY <1>1, <1>2, <1>3, EInvEndorsement DEF ENext

\* A pool row is claimed at most once, for any number of avizators and requests.
THEOREM OneClaimantTheorem == ESpec => []OneClaimant
<1>1. EInv => OneClaimant
  BY DEF EInv
<1> QED
  BY <1>1, EInvInit, EInvStep, PTL DEF ESpec

\* Only a request that has passed the pending check commits `done`.
LEMMA DoneIsGated ==
  ASSUME TypeInv, [ENext]_allvars, NEW r \in Request, Commits(r),
         req[r].op \in StatusOps, row'.status = "done"
  PROVE  r \in gated
<1>1. [Next]_vars
  BY ProjectedStep
<1>2. Write(r)
  BY <1>1, OneCommit
<1>3. ApplyStatusWrite(r)
  BY <1>2 DEF Write, AssignSectorWrite, AddSectorWrite, RemoveSectorWrite, AssignToMeWrite,
              AssignToUserWrite, AddAssigneeWrite, UnassignWrite, RemoveAssigneeWrite,
              ReturnWrite, DeleteWrite, DescribeWrite, Writing, StatusOps
<1>4. row \in Row
  BY DEF TypeInv, TypeOK
<1>5. row'.status = req[r].target
  BY <1>3, <1>4 DEF ApplyStatusWrite, Commit, StatusRow, Row
<1>6. req'[r] = Idle /\ row' # row
  BY DEF Commits
<1>7. Gate
  BY <1>6, ZenonT(60) DEF ENext, allvars, vars, WorkflowStep, CheckPending, EndorsementStep, FileRead,
     DecideRead, ClaimRead, EKeep, FileWrite, DecideWrite, ClaimWrite, ERollback, ECommit
<1> QED
  BY <1>5, <1>6, <1>7 DEF Gate

\* When a status endpoint makes a ticket done, it has passed the pending check
\* and the rows that check saw are decided.
THEOREM DoneSawTheorem == ESpec => DoneSawDecisions
<1>1. TypeInv /\ EInv /\ [ENext]_allvars =>
        [\A r \in Request :
           Commits(r) /\ req[r].op \in StatusOps /\ row.status # "done" /\ row'.status = "done"
             => r \in gated /\ \A e \in seen[r] : endo[e].status \in Decided]_allvars
  BY DoneIsGated DEF EInv, SeenDecided
<1>2. EInit => TypeInv
  BY InitType DEF EInit
<1>3. TypeInv /\ [ENext]_allvars => TypeInv'
  BY ProjectedStep, TypeStep
<1> QED
  BY <1>1, <1>2, <1>3, EInvInit, EInvStep, PTL DEF ESpec, DoneSawDecisions

\* An endorsement step takes nobody's row away from him without giving it to
\* somebody else.
LEMMA HeldStep ==
  ASSUME EInv, [ENext]_allvars, NEW e \in Endorsement, endo[e].to # NoUser
  PROVE  endo'[e].to # NoUser
<1>0. /\ endo \in [Endorsement -> EndoRow] /\ e \in Filed
      /\ \A c \in Caller : ereq[c].op \in {"decide", "claim"} => ereq[c].user # NoUser
  BY DEF EInv, ETypeOK, UnfiledFree, Filed, ActorKnown
<1>1. ASSUME NEW c \in Caller, FileWrite(c)
      PROVE  endo'[e].to # NoUser
  BY <1>0, <1>1 DEF FileWrite
<1>2. ASSUME NEW c \in Caller, DecideWrite(c)
      PROVE  endo'[e].to # NoUser
  BY <1>0, <1>2 DEF DecideWrite, Entrusted
<1>3. ASSUME NEW c \in Caller, ClaimWrite(c)
      PROVE  endo'[e].to # NoUser
  <2>1. ereq[c].user # NoUser
    BY <1>0, <1>3 DEF ClaimWrite
  <2>2. endo'[e] = IF e \in ereq[c].rows THEN [endo[e] EXCEPT !.to = ereq[c].user] ELSE endo[e]
    BY <1>3 DEF ClaimWrite
  <2> QED
    BY <1>0, <2>1, <2>2 DEF EndoRow
<1>4. \/ endo' = endo
      \/ \E c \in Caller : FileWrite(c) \/ DecideWrite(c) \/ ClaimWrite(c)
  BY DEF ENext, allvars, evars, WorkflowStep, CheckPending, EndorsementStep, FileRead,
     DecideRead, ClaimRead, EKeep, ERollback
<1> QED
  BY <1>1, <1>2, <1>3, <1>4

\* A row that somebody has been entrusted with is not written back to the pool:
\* neither by a claim nor by a decision nor by reusing its identity.
THEOREM PoolTheorem == ESpec => NeverBackToPool
<1>1. EInv /\ [ENext]_allvars
        => [\A e \in Endorsement : endo[e].to # NoUser => endo'[e].to # NoUser]_allvars
  BY HeldStep
<1> QED
  BY <1>1, EInvInit, EInvStep, PTL DEF ESpec, NeverBackToPool

-----------------------------------------------------------------------------
(* Types, and the properties of the workflow                               *)

\* Rows, requests and the record of the pending check keep their types,
\* whatever the workflow does meanwhile.
THEOREM ETypeCorrect == ESpec => []ETypeOK
<1>1. EInv => ETypeOK
  BY DEF EInv
<1> QED
  BY <1>1, EInvInit, EInvStep, PTL DEF ESpec

\* What is proved of the workflow alone is true of it under the pending check
\* and beside the endorsement endpoints.
THEOREM WorkflowCarriesOver ==
  ESpec => []OneClaim /\ LegalMoves /\ TrueHistory /\ DeletedIsFrozen /\ StrayOnlyByStaleWriters
BY Composition, AtMostOneClaim, LegalMovesTheorem, TrueHistoryTheorem, DeletedTheorem, StrayTheorem

-----------------------------------------------------------------------------
(* Verdicts                                                                *)

\* Rows change in the write of an endorsement request, and only then.
LEMMA RowsChange ==
  ASSUME [ENext]_allvars
  PROVE  \/ endo' = endo
         \/ \E c \in Caller : FileWrite(c) \/ DecideWrite(c) \/ ClaimWrite(c)
BY DEF ENext, allvars, evars, WorkflowStep, CheckPending, EndorsementStep, FileRead,
       DecideRead, ClaimRead, EKeep, ERollback

\* One step of OverruledByRacer.
LEMMA OverruleStep ==
  ASSUME EInv, [ENext]_allvars, NEW e \in Endorsement,
         endo[e].status \in Decided, endo'[e] # endo[e]
  PROVE  /\ endo'[e].status \in Decided
         /\ \E c \in Caller : /\ ereq[c].op = "decide" /\ e \in ereq[c].rows
                              /\ endo'[e].status = ereq[c].verdict
                              /\ endo'[e].by = ereq[c].user
<1>0. /\ endo \in [Endorsement -> EndoRow] /\ ereq \in [Caller -> EReq]
      /\ e \in Filed /\ e \notin Pending
  BY DEF EInv, ETypeOK, Filed, Pending, Decided
<1>1. ASSUME NEW c \in Caller, FileWrite(c) PROVE FALSE
  BY <1>0, <1>1 DEF FileWrite
<1>2. ASSUME NEW c \in Caller, ClaimWrite(c) PROVE FALSE
  BY <1>0, <1>2 DEF ClaimWrite, Unclaimed
<1>3. PICK c \in Caller : DecideWrite(c)
  BY <1>1, <1>2, RowsChange
<1> DEFINE q == ereq[c]
<1>4. /\ q.op = "decide" /\ e \in q.rows
      /\ endo'[e] = [status |-> q.verdict, to |-> Entrusted(q, e), by |-> q.user]
  BY <1>3 DEF DecideWrite
<1>5. q.verdict \in Decided
  BY <1>0 DEF EReq
<1> QED
  BY <1>4, <1>5

\* For any number of decisions in flight.
THEOREM OverruledTheorem == ESpec => OverruledByRacer
<1>1. EInv /\ [ENext]_allvars
        => [\A e \in Endorsement :
              endo[e].status \in Decided /\ endo'[e] # endo[e]
                => /\ endo'[e].status \in Decided
                   /\ \E c \in Caller : /\ ereq[c].op = "decide" /\ e \in ereq[c].rows
                                        /\ endo'[e].status = ereq[c].verdict
                                        /\ endo'[e].by = ereq[c].user]_allvars
  BY OverruleStep
<1> QED
  BY <1>1, EInvInit, EInvStep, PTL DEF ESpec, OverruledByRacer

\* What is in flight to decide a row has found it pending.
DecidesPending == \A c \in Caller : ereq[c].op = "decide" => ereq[c].rows \subseteq Pending

\* With one endorsement request at a time nothing decides it meanwhile.
LEMMA DecidesPendingStep ==
  ASSUME \A a, b \in Caller : a = b, EInv, DecidesPending, [ENext]_allvars
  PROVE  DecidesPending'
<1>0. ereq \in [Caller -> EReq] /\ ENone.op = "none"
  BY DEF EInv, ETypeOK, ENone
<1>1. ASSUME NEW c \in Caller, ECommit(c) PROVE DecidesPending'
  <2>1. \A b \in Caller : ereq'[b] = ENone
    BY <1>0, <1>1 DEF ECommit
  <2> QED
    BY <1>0, <2>1 DEF DecidesPending
<1>2. ASSUME NEW c \in Caller, NEW q, EKeep(c, q), q.op = "decide" => q.rows \subseteq Pending
      PROVE  DecidesPending'
  <2>1. /\ \A b \in Caller : ereq'[b] = q
        /\ Pending' = Pending
    BY <1>0, <1>2 DEF EKeep, Pending
  <2> QED
    BY <1>2, <2>1 DEF DecidesPending
<1>3. ASSUME UNCHANGED <<endo, ereq>> PROVE DecidesPending'
  BY <1>3 DEF DecidesPending, Pending
<1>4. ASSUME NEW c \in Caller, EndorsementStep(c) PROVE DecidesPending'
  <2>1. ASSUME NEW p \in User, NEW t \in Avizator \cup {NoUser}, FileRead(c, p, t)
        PROVE  DecidesPending'
    <3> DEFINE n == [ENone EXCEPT !.op = "file", !.user = p, !.to = t]
    <3>1. n.op = "file" /\ EKeep(c, n)
      BY <2>1 DEF FileRead, ENone
    <3> HIDE DEF n
    <3> QED
      BY <1>2, <3>1
  <2>2. ASSUME NEW p \in User, NEW e \in Endorsement, NEW v \in Decided, DecideRead(c, p, e, v)
        PROVE  DecidesPending'
    <3> DEFINE n == [ENone EXCEPT !.op = "decide", !.user = p, !.rows = {e}, !.verdict = v,
                                  !.pool = endo[e].to = NoUser]
    <3>1. n.rows = {e} /\ EKeep(c, n) /\ e \in Pending
      BY <2>2 DEF DecideRead, ENone
    <3> HIDE DEF n
    <3> QED
      BY <1>2, <3>1
  <2>3. ASSUME NEW p \in User, NEW e \in Endorsement, ClaimRead(c, p, e)
        PROVE  DecidesPending'
    <3> DEFINE n == [ENone EXCEPT !.op = "claim", !.user = p, !.rows = {e}]
    <3>1. n.op = "claim" /\ EKeep(c, n)
      BY <2>3 DEF ClaimRead, ENone
    <3> HIDE DEF n
    <3> QED
      BY <1>2, <3>1
  <2>4. CASE FileWrite(c) \/ DecideWrite(c) \/ ClaimWrite(c) \/ ERollback(c)
    BY <1>1, <2>4 DEF FileWrite, DecideWrite, ClaimWrite, ERollback
  <2> QED
    BY <1>4, <2>1, <2>2, <2>3, <2>4 DEF EndorsementStep
<1> QED
  BY <1>3, <1>4 DEF ENext, allvars, evars, WorkflowStep, CheckPending

\* A verdict is replaced only because two endorsement requests overlap: where
\* they do not, a row is decided once, as the docstring of decide() has it.
THEOREM DecidedOnceTheorem ==
  ASSUME \A a, b \in Caller : a = b
  PROVE  ESpec => DecidedOnce
<1>1. ASSUME EInv, DecidesPending, [ENext]_allvars, NEW e \in Endorsement, endo[e].status \in Decided
      PROVE  endo'[e] = endo[e]
  <2>1. SUFFICES ASSUME endo'[e] # endo[e] PROVE FALSE
    OBVIOUS
  <2>2. PICK c \in Caller : ereq[c].op = "decide" /\ e \in ereq[c].rows
    BY <1>1, <2>1, OverruleStep
  <2> QED
    BY <1>1, <2>2 DEF DecidesPending, Pending, Decided
<1>2. EInv /\ DecidesPending /\ [ENext]_allvars
        => [\A e \in Endorsement : endo[e].status \in Decided => endo'[e] = endo[e]]_allvars
  BY <1>1
<1>3. EInit => DecidesPending
  BY DEF EInit, DecidesPending, ENone
<1>4. EInv /\ DecidesPending /\ [ENext]_allvars => DecidesPending'
  BY DecidesPendingStep
<1> QED
  BY <1>2, <1>3, <1>4, EInvInit, EInvStep, PTL DEF ESpec, DecidedOnce

-----------------------------------------------------------------------------
(* Who answers for a verdict                                               *)

\* Every verdict has an author who is an avizator or an administrator, and a
\* decided row is somebody's: it left the pool with its decision at the latest.
VerdictAccountable ==
  \A e \in Endorsement :
    endo[e].status \in Decided => endo[e].by \in Admin \cup Avizator /\ endo[e].to # NoUser

\* A decision in flight is made by one who may, and if it did not find the row
\* in the pool, the row is not there now.
DeciderMay ==
  \A c \in Caller : ereq[c].op = "decide" =>
    /\ ereq[c].user \in Admin \cup Avizator
    /\ ~ereq[c].pool => \A e \in ereq[c].rows : endo[e].to # NoUser

AccountInv == VerdictAccountable /\ DeciderMay

LEMMA AccountStep ==
  ASSUME EInv, AccountInv, [ENext]_allvars
  PROVE  AccountInv'
<1>0. /\ ereq \in [Caller -> EReq] /\ ENone.op = "none"
      /\ endo \in [Endorsement -> EndoRow]
  BY DEF EInv, ETypeOK, ENone
<1>1. ASSUME NEW c \in Caller, NEW q, EKeep(c, q),
             q.op = "decide" => /\ q.user \in Admin \cup Avizator
                                /\ ~q.pool => \A e \in q.rows : endo[e].to # NoUser
      PROVE  AccountInv'
  <2>1. endo' = endo /\ ereq' = [ereq EXCEPT ![c] = q]
    BY <1>1 DEF EKeep
  <2>2. \A b \in Caller : ereq'[b] = IF b = c THEN q ELSE ereq[b]
    BY <1>0, <2>1
  <2> QED
    BY <1>1, <2>1, <2>2 DEF AccountInv, VerdictAccountable, DeciderMay
<1>2. ASSUME NEW c \in Caller, ECommit(c),
             \A e \in Endorsement : endo[e].to # NoUser => endo'[e].to # NoUser
      PROVE  DeciderMay'
  <2>1. \A b \in Caller : ereq'[b] = IF b = c THEN ENone ELSE ereq[b]
    BY <1>0, <1>2 DEF ECommit
  <2>2. \A b \in Caller : ereq[b].rows \subseteq Endorsement
    BY <1>0 DEF EReq
  <2> QED
    BY <1>0, <1>2, <2>1, <2>2 DEF AccountInv, DeciderMay
<1>3. ASSUME UNCHANGED <<endo, ereq>> PROVE AccountInv'
  BY <1>3 DEF AccountInv, VerdictAccountable, DeciderMay
<1>4. ASSUME NEW e \in Endorsement, endo[e].to # NoUser
      PROVE  endo'[e].to # NoUser
  BY <1>4, HeldStep
<1>5. ASSUME NEW c \in Caller, EndorsementStep(c) PROVE AccountInv'
  <2> DEFINE q == ereq[c]
  <2>1. ASSUME NEW p \in User, NEW t \in Avizator \cup {NoUser}, FileRead(c, p, t)
        PROVE  AccountInv'
    <3> DEFINE n == [ENone EXCEPT !.op = "file", !.user = p, !.to = t]
    <3>1. n.op = "file" /\ EKeep(c, n)
      BY <2>1 DEF FileRead, ENone
    <3> HIDE DEF n
    <3> QED
      BY <1>1, <3>1
  <2>2. ASSUME NEW p \in User, NEW e \in Endorsement, NEW v \in Decided, DecideRead(c, p, e, v)
        PROVE  AccountInv'
    <3> DEFINE n == [ENone EXCEPT !.op = "decide", !.user = p, !.rows = {e}, !.verdict = v,
                                  !.pool = endo[e].to = NoUser]
    <3>1. /\ n.rows = {e} /\ n.user = p /\ (n.pool <=> endo[e].to = NoUser)
          /\ EKeep(c, n) /\ p \in Admin \cup Avizator
      BY <2>2 DEF DecideRead, CanDecide, ENone
    <3> HIDE DEF n
    <3> QED
      BY <1>1, <3>1
  <2>3. ASSUME NEW p \in User, NEW e \in Endorsement, ClaimRead(c, p, e)
        PROVE  AccountInv'
    <3> DEFINE n == [ENone EXCEPT !.op = "claim", !.user = p, !.rows = {e}]
    <3>1. n.op = "claim" /\ EKeep(c, n)
      BY <2>3 DEF ClaimRead, ENone
    <3> HIDE DEF n
    <3> QED
      BY <1>1, <3>1
  <2>4. CASE FileWrite(c)
    <3>1. PICK e \in Endorsement \ Filed :
            endo' = [endo EXCEPT ![e] = [status |-> "pending", to |-> q.to, by |-> NoUser]]
      BY <2>4 DEF FileWrite
    <3>2. VerdictAccountable'
      BY <1>0, <3>1 DEF AccountInv, VerdictAccountable, Decided
    <3> QED
      BY <1>2, <1>4, <2>4, <3>2 DEF FileWrite, AccountInv
  <2>5. CASE DecideWrite(c)
    <3>1. /\ q.op = "decide"
          /\ endo' = [e \in Endorsement |->
                        IF e \in q.rows
                        THEN [status |-> q.verdict, to |-> Entrusted(q, e), by |-> q.user]
                        ELSE endo[e]]
      BY <2>5 DEF DecideWrite
    <3>2. /\ q.user \in Admin \cup Avizator /\ q.user # NoUser
          /\ ~q.pool => \A e \in q.rows : endo[e].to # NoUser
      BY <3>1 DEF AccountInv, DeciderMay, EInv, ActorKnown
    <3> HIDE DEF q
    <3>3. \A e \in q.rows : Entrusted(q, e) # NoUser
      BY <3>2 DEF Entrusted
    <3>4. VerdictAccountable'
      BY <3>1, <3>2, <3>3 DEF AccountInv, VerdictAccountable
    <3> QED
      BY <1>2, <1>4, <2>5, <3>4 DEF DecideWrite, AccountInv
  <2>6. CASE ClaimWrite(c)
    <3>1. \A e \in q.rows : e \in Pending
      BY <2>6 DEF ClaimWrite, Unclaimed
    <3>2. \A e \in Endorsement :
            endo'[e] = IF e \in q.rows THEN [endo[e] EXCEPT !.to = q.user] ELSE endo[e]
      BY <2>6 DEF ClaimWrite
    <3> HIDE DEF q
    <3>3. \A e \in Endorsement : endo'[e].status \in Decided => endo'[e] = endo[e]
      BY <1>0, <3>1, <3>2 DEF Pending, Decided, EndoRow
    <3>4. VerdictAccountable'
      BY <3>3 DEF AccountInv, VerdictAccountable
    <3> QED
      BY <1>2, <1>4, <2>6, <3>4 DEF ClaimWrite, AccountInv
  <2>7. CASE ERollback(c)
    <3>1. ECommit(c) /\ endo' = endo
      BY <2>7 DEF ERollback
    <3>2. VerdictAccountable'
      BY <3>1 DEF AccountInv, VerdictAccountable
    <3> QED
      BY <1>2, <3>1, <3>2 DEF AccountInv
  <2> QED
    BY <1>5, <2>1, <2>2, <2>3, <2>4, <2>5, <2>6, <2>7 DEF EndorsementStep
<1> QED
  BY <1>3, <1>5 DEF ENext, allvars, evars, WorkflowStep, CheckPending

THEOREM AccountTheorem == ESpec => []VerdictAccountable
<1>1. EInit => AccountInv
  BY DEF EInit, AccountInv, VerdictAccountable, DeciderMay, ENone, Decided
<1>2. EInv /\ AccountInv /\ [ENext]_allvars => AccountInv'
  BY AccountStep
<1>3. AccountInv => VerdictAccountable
  BY DEF AccountInv
<1> QED
  BY <1>1, <1>2, <1>3, EInvInit, EInvStep, PTL DEF ESpec

-----------------------------------------------------------------------------
(* The desk                                                                *)

\* A claim or decision in flight is about one filed row and made by one who
\* may; a pending row is not signed yet.
OneFiledRow ==
  \A c \in Caller : ereq[c].op \in {"claim", "decide"} =>
    /\ ereq[c].user \in Admin \cup Avizator
    /\ \E e \in Endorsement : ereq[c].rows = {e} /\ endo[e].status # "none"
Unsigned == \A e \in Endorsement : endo[e].status = "pending" => endo[e].by = NoUser

DeskInv == OneFiledRow /\ Unsigned

\* A filed row stays filed.
LEMMA FiledStays ==
  ASSUME EInv, [ENext]_allvars, NEW e \in Endorsement, endo[e].status # "none"
  PROVE  endo'[e].status # "none"
<1>0. endo \in [Endorsement -> EndoRow] /\ ereq \in [Caller -> EReq] /\ e \in Filed
  BY DEF EInv, ETypeOK, Filed
<1>1. ASSUME NEW c \in Caller, FileWrite(c) PROVE endo'[e].status # "none"
  BY <1>0, <1>1 DEF FileWrite
<1>2. ASSUME NEW c \in Caller, DecideWrite(c) PROVE endo'[e].status # "none"
  <2>1. ereq[c].verdict \in Decided /\ "none" \notin Decided
    BY <1>0 DEF EReq, Decided
  <2> QED
    BY <1>2, <2>1 DEF DecideWrite
<1>3. ASSUME NEW c \in Caller, ClaimWrite(c) PROVE endo'[e].status # "none"
  <2>1. endo'[e] = IF e \in ereq[c].rows THEN [endo[e] EXCEPT !.to = ereq[c].user] ELSE endo[e]
    BY <1>3 DEF ClaimWrite
  <2> QED
    BY <1>0, <2>1 DEF EndoRow
<1> QED
  BY <1>1, <1>2, <1>3, RowsChange

\* Every step keeps it.
LEMMA DeskInvStep ==
  ASSUME EInv, DeskInv, [ENext]_allvars
  PROVE  DeskInv'
<1>0. /\ ereq \in [Caller -> EReq] /\ ENone.op = "none"
      /\ endo \in [Endorsement -> EndoRow]
  BY DEF EInv, ETypeOK, ENone
<1>1. ASSUME NEW c \in Caller, NEW q, EKeep(c, q),
             q.op \in {"claim", "decide"} =>
               /\ q.user \in Admin \cup Avizator
               /\ \E e \in Endorsement : q.rows = {e} /\ endo[e].status # "none"
      PROVE  DeskInv'
  <2>1. endo' = endo /\ ereq' = [ereq EXCEPT ![c] = q]
    BY <1>1 DEF EKeep
  <2>2. \A b \in Caller : ereq'[b] = IF b = c THEN q ELSE ereq[b]
    BY <1>0, <2>1
  <2>3. OneFiledRow'
    BY <1>1, <2>1, <2>2 DEF DeskInv, OneFiledRow
  <2>4. Unsigned'
    BY <2>1 DEF DeskInv, Unsigned
  <2> QED
    BY <2>3, <2>4 DEF DeskInv
<1>2. ASSUME NEW c \in Caller, ECommit(c)
      PROVE  OneFiledRow'
  <2>1. \A b \in Caller : ereq'[b] = IF b = c THEN ENone ELSE ereq[b]
    BY <1>0, <1>2 DEF ECommit
  <2>2. \A e \in Endorsement : endo[e].status # "none" => endo'[e].status # "none"
    BY FiledStays
  <2> QED
    BY <1>0, <2>1, <2>2 DEF DeskInv, OneFiledRow
<1>3. ASSUME UNCHANGED <<endo, ereq>> PROVE DeskInv'
  BY <1>3 DEF DeskInv, OneFiledRow, Unsigned
<1>4. ASSUME NEW c \in Caller, EndorsementStep(c) PROVE DeskInv'
  <2> DEFINE q == ereq[c]
  <2>1. ASSUME NEW p \in User, NEW t \in Avizator \cup {NoUser}, FileRead(c, p, t)
        PROVE  DeskInv'
    <3> DEFINE n == [ENone EXCEPT !.op = "file", !.user = p, !.to = t]
    <3>1. n.op = "file" /\ EKeep(c, n)
      BY <2>1 DEF FileRead, ENone
    <3> HIDE DEF n
    <3> QED
      BY <1>1, <3>1
  <2>2. ASSUME NEW p \in User, NEW e \in Endorsement, NEW v \in Decided, DecideRead(c, p, e, v)
        PROVE  DeskInv'
    <3> DEFINE n == [ENone EXCEPT !.op = "decide", !.user = p, !.rows = {e}, !.verdict = v,
                                  !.pool = endo[e].to = NoUser]
    <3>1. /\ n.rows = {e} /\ n.user = p /\ EKeep(c, n)
          /\ p \in Admin \cup Avizator /\ endo[e].status # "none"
      BY <2>2 DEF DecideRead, CanDecide, Pending, ENone
    <3> HIDE DEF n
    <3> QED
      BY <1>1, <3>1
  <2>3. ASSUME NEW p \in User, NEW e \in Endorsement, ClaimRead(c, p, e)
        PROVE  DeskInv'
    <3> DEFINE n == [ENone EXCEPT !.op = "claim", !.user = p, !.rows = {e}]
    <3>1. /\ n.rows = {e} /\ n.user = p /\ EKeep(c, n)
          /\ p \in Admin \cup Avizator /\ endo[e].status # "none"
      BY <2>3 DEF ClaimRead, CanDecide, Pending, ENone
    <3> HIDE DEF n
    <3> QED
      BY <1>1, <3>1
  <2>4. CASE FileWrite(c)
    <3>1. PICK e \in Endorsement \ Filed :
            endo' = [endo EXCEPT ![e] = [status |-> "pending", to |-> q.to, by |-> NoUser]]
      BY <2>4 DEF FileWrite
    <3>2. Unsigned'
      BY <1>0, <3>1 DEF DeskInv, Unsigned
    <3> QED
      BY <1>2, <2>4, <3>2 DEF FileWrite, DeskInv
  <2>5. CASE DecideWrite(c)
    <3>1. \A e \in Endorsement :
            endo'[e] = endo[e] \/ endo'[e].status = q.verdict
      BY <2>5 DEF DecideWrite
    <3>2. q.verdict # "pending"
      BY <1>0 DEF EReq, Decided
    <3>3. Unsigned'
      BY <3>1, <3>2 DEF DeskInv, Unsigned
    <3> QED
      BY <1>2, <2>5, <3>3 DEF DecideWrite, DeskInv
  <2>6. CASE ClaimWrite(c)
    <3>1. \A e \in Endorsement :
            endo'[e] = IF e \in q.rows THEN [endo[e] EXCEPT !.to = q.user] ELSE endo[e]
      BY <2>6 DEF ClaimWrite
    <3> HIDE DEF q
    <3>2. \A e \in Endorsement : endo'[e].status = endo[e].status /\ endo'[e].by = endo[e].by
      BY <1>0, <3>1 DEF EndoRow
    <3>3. Unsigned'
      BY <3>2 DEF DeskInv, Unsigned
    <3> QED
      BY <1>2, <2>6, <3>3 DEF ClaimWrite, DeskInv
  <2>7. CASE ERollback(c)
    <3>1. ECommit(c) /\ endo' = endo
      BY <2>7 DEF ERollback
    <3>2. Unsigned'
      BY <3>1 DEF DeskInv, Unsigned
    <3> QED
      BY <1>2, <3>1, <3>2 DEF DeskInv
  <2> QED
    BY <1>4, <2>1, <2>2, <2>3, <2>4, <2>5, <2>6, <2>7 DEF EndorsementStep
<1> QED
  BY <1>3, <1>4 DEF ENext, allvars, evars, WorkflowStep, CheckPending

\* Each step is a step of the desk or changes nothing on it.
LEMMA DeskStep ==
  ASSUME EInv, AccountInv, DeskInv, [ENext]_allvars
  PROVE  [Desk!Next]_endo
<1>0. endo \in [Endorsement -> EndoRow] /\ ereq \in [Caller -> EReq]
  BY DEF EInv, ETypeOK
<1>1. ASSUME NEW c \in Caller, FileWrite(c) PROVE Desk!Next
  <2>1. PICK e \in Endorsement \ Filed :
          endo' = [endo EXCEPT ![e] = [status |-> "pending", to |-> ereq[c].to, by |-> NoUser]]
    BY <1>1 DEF FileWrite
  <2>2. ereq[c].to \in User \cup {NoUser} /\ endo[e].status = "none"
    BY <1>0, <2>1 DEF EReq, Filed
  <2>3. Desk!File(e, ereq[c].to)
    BY <2>1, <2>2 DEF Desk!File
  <2> QED
    BY <2>1, <2>2, <2>3 DEF Desk!Next
<1>2. ASSUME NEW c \in Caller, DecideWrite(c) PROVE Desk!Next
  <2> DEFINE q == ereq[c]
  <2>1. /\ q.op = "decide"
        /\ endo' = [e \in Endorsement |->
                      IF e \in q.rows
                      THEN [status |-> q.verdict, to |-> Entrusted(q, e), by |-> q.user]
                      ELSE endo[e]]
    BY <1>2 DEF DecideWrite
  <2>2. q.user \in Admin \cup Avizator /\ q.user # NoUser /\ q.verdict \in Decided
    BY <1>0, <2>1 DEF DeskInv, OneFiledRow, EInv, ActorKnown, EReq
  <2>3. PICK e \in Endorsement : q.rows = {e} /\ endo[e].status # "none"
    BY <2>1 DEF DeskInv, OneFiledRow
  <2>4. ~q.pool => endo[e].to # NoUser
    BY <2>1, <2>3 DEF AccountInv, DeciderMay
  <2> HIDE DEF q
  <2>5. Entrusted(q, e) \in {q.user, endo[e].to} \ {NoUser}
    BY <2>2, <2>4 DEF Entrusted
  <2>6. endo' = [endo EXCEPT ![e] = [status |-> q.verdict, to |-> Entrusted(q, e), by |-> q.user]]
    BY <1>0, <2>1, <2>3
  <2>7. Desk!Decide(e, q.user, q.verdict)
    BY <2>3, <2>5, <2>6 DEF Desk!Decide
  <2> QED
    BY <2>2, <2>7 DEF Desk!Next, Desk!Verdicts, Decided
<1>3. ASSUME NEW c \in Caller, ClaimWrite(c) PROVE Desk!Next
  <2> DEFINE q == ereq[c]
  <2>1. /\ q.op = "claim" /\ \A e \in q.rows : Unclaimed(e)
        /\ endo' = [e \in Endorsement |->
                      IF e \in q.rows THEN [endo[e] EXCEPT !.to = q.user] ELSE endo[e]]
    BY <1>3 DEF ClaimWrite
  <2>2. q.user \in Admin \cup Avizator
    BY <2>1 DEF DeskInv, OneFiledRow
  <2>3. PICK e \in Endorsement : q.rows = {e}
    BY <2>1 DEF DeskInv, OneFiledRow
  <2>4. endo[e].status = "pending" /\ endo[e].to = NoUser /\ endo[e].by = NoUser
    BY <2>1, <2>3 DEF Unclaimed, Pending, DeskInv, Unsigned
  <2> HIDE DEF q
  <2>5. [endo[e] EXCEPT !.to = q.user] = [status |-> "pending", to |-> q.user, by |-> NoUser]
    BY <1>0, <2>4 DEF EndoRow
  <2>6. endo' = [endo EXCEPT ![e] = [status |-> "pending", to |-> q.user, by |-> NoUser]]
    BY <1>0, <2>1, <2>3, <2>5
  <2>7. Desk!Claim(e, q.user)
    BY <2>4, <2>6 DEF Desk!Claim
  <2> QED
    BY <2>2, <2>7 DEF Desk!Next
<1> QED
  BY <1>1, <1>2, <1>3, RowsChange

\* The endorsement endpoints implement the desk, for any number of rows, users
\* and requests, and beside any workflow.
THEOREM DeskTheorem == ESpec => ImplementsDesk
<1>1. EInit => AccountInv
  BY DEF EInit, AccountInv, VerdictAccountable, DeciderMay, ENone, Decided
<1>2. EInit => DeskInv
  BY DEF EInit, DeskInv, OneFiledRow, Unsigned, ENone
<1>3. EInit => Desk!Init
  BY DEF EInit, Desk!Init
<1>4. EInv /\ AccountInv /\ [ENext]_allvars => AccountInv'
  BY AccountStep
<1>5. EInv /\ DeskInv /\ [ENext]_allvars => DeskInv'
  BY DeskInvStep
<1>6. EInv /\ AccountInv /\ DeskInv /\ [ENext]_allvars => [Desk!Next]_endo
  BY DeskStep
<1> QED
  BY <1>1, <1>2, <1>3, <1>4, <1>5, <1>6, EInvInit, EInvStep, PTL
     DEF ESpec, ImplementsDesk, Desk!Spec

=============================================================================
