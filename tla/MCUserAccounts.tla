--------------------------- MODULE MCUserAccounts ---------------------------
(* TLC instances of UserAccounts. *)
EXTENDS UserAccounts, TLC

Symmetry == Permutations(Ids) \cup Permutations(Emails)
               \cup Permutations(Requests)
=============================================================================
