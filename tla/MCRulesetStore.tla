---------------------------- MODULE MCRulesetStore ----------------------------
(* An instance of RulesetStore for TLC: one document that loads, with an      *)
(* ignored provider, and one that fails after its first provider.             *)
EXTENDS RulesetStore, TLC

CONSTANTS p1, p2, ignored, faulty

Kinds == (p1 :> "enabled" @@ p2 :> "enabled") @@ (ignored :> "skipped" @@ faulty :> "invalid")
Docs == {<<p1>>, <<p1, ignored, p2>>, <<p2, faulty>>}

Symmetry == Permutations(Threads) \cup Permutations(Arrays)
===============================================================================
