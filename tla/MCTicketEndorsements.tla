----------------------- MODULE MCTicketEndorsements -----------------------
(***************************************************************************)
(* Small instances of TicketEndorsements: an administrator who also works  *)
(* the ticket, and one or two avizators.                                   *)
(***************************************************************************)
EXTENDS TicketEndorsements, TLC

CONSTANTS adm, av1, av2, s1, r1, r2, c1, c2, c3, e1, e2, d1

MCMember == [s \in Sector |-> {}]

\* Slots and endorsement rows are interchangeable.
Interchangeable == Permutations(Request) \cup Permutations(Caller) \cup Permutations(Endorsement)

===========================================================================
