----------------------------- MODULE MCMonitor -----------------------------
(***************************************************************************)
(* Small instances of Monitor: two administrators with the same profile,   *)
(* a chief and a member of one sector who both distribute, and a ticket    *)
(* the member asked for: new, or taken in the other sector.                *)
(***************************************************************************)
EXTENDS Monitor, TLC

CONSTANTS adm, boss, chf, mem, s1, s2, t1, r1, r2

MCAdmin       == {adm, boss} \cap User
MCDistributor == {chf, mem} \cap User
MCChief  == [u \in User |-> IF u = chf THEN {s1} ELSE {}]
MCMember == [u \in User |-> IF u = mem THEN {s1} ELSE {}]
MCRequester == [t \in Ticket |-> {mem}]
MCHolder    == [t \in Ticket |-> mem]
MCHome      == [t \in Ticket |-> s2]
MCNamed     == [t \in Ticket |-> {}]

\* Request slots are interchangeable.
Slots == Permutations(Request)

=============================================================================
