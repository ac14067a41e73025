-------------------------- MODULE MCIdentityResolver --------------------------
(* Small instances of IdentityResolver.                                      *)
EXTENDS IdentityResolver, TLC

Symmetry == Permutations(Identifiers) \cup Permutations(Operators)
==============================================================================
