----------------------------- MODULE MCPlatform -----------------------------
(* Small instances of Platform.                                              *)
EXTENDS Platform, TLC

CONSTANTS ann, Ann, bob, dev, own, foreign, none, elsewhere

MCLower == (ann :> ann) @@ (Ann :> ann) @@ (dev :> dev) @@ (bob :> bob)
MCRestKeys == (own :> Configured) @@ (foreign :> elsewhere)

\* Ids and signing keys are drawn at random, and told apart only by equality.
Symmetry == Permutations(Tenants) \cup Permutations(Keys) \cup Permutations(JwtKeys)
=============================================================================
