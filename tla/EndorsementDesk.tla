-------------------------- MODULE EndorsementDesk --------------------------
(***************************************************************************)
(* What the endorsement endpoints promise about the rows, with no requests *)
(* and no snapshots: a row is filed once, for the pool or for one person,  *)
(* is claimed from the pool by one who may decide it, and is decided by    *)
(* one who may.  The promise is weaker than the docstrings in one point: a *)
(* verdict may be overruled by another one.                                *)
(***************************************************************************)
CONSTANTS
  Endorsement, User, NoUser,
  Judge     \* those who may claim and decide

VARIABLE desk   \* [Endorsement -> [status, to, by]]

Verdicts == {"approved", "rejected"}

Init == desk = [e \in Endorsement |-> [status |-> "none", to |-> NoUser, by |-> NoUser]]

File(e, u) ==
  /\ desk[e].status = "none"
  /\ desk' = [desk EXCEPT ![e] = [status |-> "pending", to |-> u, by |-> NoUser]]

Claim(e, u) ==
  /\ desk[e].status = "pending" /\ desk[e].to = NoUser
  /\ desk' = [desk EXCEPT ![e] = [status |-> "pending", to |-> u, by |-> NoUser]]

\* Whose row it is afterwards: the decider's, or still the holder's.
Decide(e, u, verdict) ==
  /\ desk[e].status # "none"
  /\ \E holder \in {u, desk[e].to} \ {NoUser} :
       desk' = [desk EXCEPT ![e] = [status |-> verdict, to |-> holder, by |-> u]]

Next ==
  \E e \in Endorsement :
    \/ \E u \in User \cup {NoUser} : File(e, u)
    \/ \E u \in Judge : \/ Claim(e, u)
                        \/ \E verdict \in Verdicts : Decide(e, u, verdict)

Spec == Init /\ [][Next]_desk

=============================================================================
