----------------------------- MODULE MCAccounts -----------------------------
(***************************************************************************)
(* One account with a membership and two tokens, seen by two requests and  *)
(* managed by a root administrator and a sector chief.                     *)
(***************************************************************************)
EXTENDS Accounts, TLC

CONSTANTS u1, k1, k2, m1, x1, r1, r2, root, chief

MCChiefOf == root :> {} @@ chief :> {m1}

Slots == Permutations(Request) \cup Permutations(Token)

=============================================================================
