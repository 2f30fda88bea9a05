------------------------- MODULE MCTicketWorkflow -------------------------
(***************************************************************************)
(* Small instances of TicketWorkflow.  One office (s1) with a chief and a  *)
(* member, a second sector (s2) the ticket can be routed to, an            *)
(* administrator and a distributor; each cfg picks the users it needs.     *)
(***************************************************************************)
EXTENDS TicketWorkflow, TLC

CONSTANTS adm, chf, mem, dis, s1, s2, r1, r2, r3, d1, d2

MCAdmin       == {adm} \cap User
MCDistributor == {dis} \cap User
MCChief  == [s \in Sector |-> IF s = s1 THEN {chf} \cap User ELSE {}]
MCMember == [s \in Sector |-> IF s = s1 THEN {mem} \cap User ELSE {dis} \cap User]

\* Request slots are interchangeable, and so are the details.
Alike == Permutations(Request) \cup Permutations(Detail)

=============================================================================
