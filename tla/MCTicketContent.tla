-------------------------- MODULE MCTicketContent --------------------------
(***************************************************************************)
(* Two tickets: on t1 the interesting people, on t2 nobody but the worker  *)
(* and the administrator.  The requester created t1, watches it, is        *)
(* mentioned in every comment and may be made a co-assignee; as an         *)
(* avizator it can open any ticket.                                        *)
(***************************************************************************)
EXTENDS TicketContent, TLC

CONSTANTS t1, t2, adm, wrk, rqs, c1, k1, k2, r1, r2, b1, b2, b3, a1

MCTicketOf  == c1 :> t1
MCKeyTicket == k1 :> t1 @@ k2 :> t2
MCParty   == t1 :> {rqs} @@ t2 :> {}
MCWatcher == t1 :> {rqs} @@ t2 :> {}

Somewhere(assignee, joined, desk) ==
  [assignee |-> assignee, joined |-> joined, desk |-> desk, chiefs |-> {}, team |-> desk,
   triage |-> assignee = NoUser, deleted |-> FALSE]

\* t1: held by the worker, the requester joined to it; or free, the worker gone
\* from its sector.  t2 is held by the worker all the time.
MCSituations ==
  t1 :> {Somewhere(wrk, {wrk, rqs}, {wrk}), Somewhere(NoUser, {}, {})}
  @@ t2 :> {Somewhere(wrk, {wrk}, {wrk})}

MCMentions == {{rqs}}

Alike == Permutations(Request) \cup Permutations(Body)

=============================================================================
