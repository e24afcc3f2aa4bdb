----------------------------- MODULE MCApiKeys -----------------------------
(* Instance of ApiKeys for TLC. *)
EXTENDS ApiKeys, TLC

Symmetry == Permutations(Admins) \union Permutations(Requests)
=============================================================================
