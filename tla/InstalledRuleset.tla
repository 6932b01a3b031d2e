--------------------------- MODULE InstalledRuleset ---------------------------
(***************************************************************************)
(* What unalix_ruleset_update promises to the readers of the ruleset file  *)
(* it maintains: whoever opens the file, at any moment, finds one complete *)
(* ruleset that loads, replaced by another in a single step, and, where    *)
(* the caller gave a sha256_url, the very document whose hash it fetched.  *)
(* RulesetUpdate.tla refines this module.                                  *)
(***************************************************************************)
CONSTANTS
    Docs,       \* the ruleset documents a server may hand out
    Loadable,   \* those that load_file accepts
    NoDoc,      \* no file at the destination; no hash
    AllChecked  \* TRUE when every caller passes a sha256_url

VARIABLES
    installed,  \* the document a reader of the destination finds, or NoDoc
    warrant     \* the document whose hash its installer fetched, or NoDoc

vars == <<installed, warrant>>

Init ==
    /\ installed \in Loadable \cup {NoDoc}
    /\ warrant = NoDoc

(* Document d replaces what was there, all of it at once. *)
Install(d) ==
    /\ installed' = d
    /\ warrant' \in {d, NoDoc}
    /\ AllChecked => warrant' = d

Next == \E d \in Loadable : Install(d)

Spec == Init /\ [][Next]_vars
===============================================================================
