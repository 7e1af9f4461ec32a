---------------------------- MODULE MCTokenManager ----------------------------
(* Instances of TokenManager small enough for TLC. *)
EXTENDS TokenManager, TLC

\* Requests, login commands and accounts are interchangeable.
Symmetry == Permutations(Requests) \cup Permutations(Logins) \cup Permutations(Accounts)

=============================================================================
