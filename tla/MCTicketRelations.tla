------------------------- MODULE MCTicketRelations -------------------------
(***************************************************************************)
(* Two tickets with a link, a watcher and two metadata keys, the first     *)
(* sent in either of two spellings; the worker controls the first ticket   *)
(* only.                                                                   *)
(***************************************************************************)
EXTENDS TicketRelations, TLC

CONSTANTS t1, t2, adm, wrk, l1, w1, m1, M1, m2, r1, r2, v1, v2

MCFrom == l1 :> t1
MCTo   == l1 :> t2
MCType == l1 :> "blocks"
MCWatched   == w1 :> t2
MCWatching  == w1 :> wrk
MCLower     == m1 :> m1 @@ M1 :> m1 @@ m2 :> m2
MCDescribed == m1 :> t1 @@ m2 :> t1
MCViewer    == t1 :> {adm, wrk} @@ t2 :> {adm, wrk}
MCModifier  == t1 :> {adm, wrk} @@ t2 :> {adm}

Alike == Permutations(Request) \cup Permutations(Text)

=============================================================================
