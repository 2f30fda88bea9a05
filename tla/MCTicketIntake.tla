-------------------------- MODULE MCTicketIntake --------------------------
(***************************************************************************)
(* A small instance of TicketIntake: two categories, two subcategories, a  *)
(* field and a ticket, edited by two requests at a time.                   *)
(***************************************************************************)
EXTENDS TicketIntake, TLC

CONSTANTS c1, c2, s1, s2, f1, t1, r1, r2, medium, high

\* The rows of each kind are interchangeable, and so are the requests.
Alike == Permutations(Category) \cup Permutations(Subcategory) \cup Permutations(Priority) \cup Permutations(Request)

=============================================================================
