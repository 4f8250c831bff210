--------------------------- MODULE MCAuthSessions ---------------------------
(* TLC instances of AuthSessions. *)
EXTENDS AuthSessions, TLC

Symmetry == Permutations(Tokens) \cup Permutations(Users)
               \cup Permutations(Requests)
=============================================================================
