--------------------------- MODULE MCRulesetRefresh ---------------------------
(* RulesetRefresh as TLC runs it; the configuration gives the bounds. *)
EXTENDS RulesetRefresh
===============================================================================
