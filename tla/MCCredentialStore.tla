--------------------------- MODULE MCCredentialStore ---------------------------
(***************************************************************************)
(* Two processes, two sets of credentials and three changes of the entry,  *)
(* so that one process can change it twice under the eyes of the other.    *)
(***************************************************************************)
EXTENDS CredentialStore, TLC

Symmetry == Permutations(Processes) \cup Permutations(Values)

================================================================================
