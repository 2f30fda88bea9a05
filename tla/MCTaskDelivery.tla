-------------------------- MODULE MCTaskDelivery --------------------------
(***************************************************************************)
(* Small instances of TaskDelivery: one request creates a ticket (k1), the *)
(* other changes one (k2); each publishes as many tasks as the cfg gives.  *)
(***************************************************************************)
EXTENDS TaskDelivery, TLC

CONSTANTS k1, k2, t1, t2, t3, w1, w2

MCOwner    == [t \in Task |-> IF t = t1 /\ k1 \in Caller THEN k1 ELSE k2]
MCCreators == {k1} \cap Caller

\* Workers are interchangeable.
Workers == Permutations(Worker)

===========================================================================
