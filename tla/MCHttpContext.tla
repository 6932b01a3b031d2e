----------------------------- MODULE MCHttpContext -----------------------------
(* An instance of HttpContext for TLC: two threads call the library in a       *)
(* process with room for a few descriptors.                                   *)
EXTENDS HttpContext, TLC

Symmetry == Permutations(Callers)
===============================================================================
