---------------------------- MODULE MCRulesetUpdate ----------------------------
(* Instances of RulesetUpdate for TLC: two updaters, three documents of two   *)
(* chunks each, of which one does not load.                                   *)
EXTENDS RulesetUpdate, TLC

CONSTANTS u1, u2, d1, d2, good, other, broken, i1, i2, i3, i4, i5

OwnDirs == u1 :> d1 @@ u2 :> d2      \* every updater its own directory
SharedDir == u1 :> d1 @@ u2 :> d1    \* the same directory for both
OneUpdater == u1 :> d1

(* Inodes are interchangeable, and so are the two loadable documents. *)
Symmetry == Permutations(Inodes)
SymmetryDocs == Permutations(Inodes) \cup Permutations(Loadable)
===============================================================================
