------------------------------ MODULE RulesetList ------------------------------
(***************************************************************************)
(* What the library promises of its rulesets in memory: a list that only a *)
(* load makes longer, by the rulesets of its document, in their order and  *)
(* none left out, and that only an unload empties.  A load that returns    *)
(* success has added the whole of a sound document; one that returns an    *)
(* error keeps what it has added so far.  RulesetStore.tla refines this    *)
(* module.                                                                 *)
(***************************************************************************)
EXTENDS Sequences

CONSTANTS
    Threads,    \* those who call the library
    Documents   \* [rulesets |-> those to be used, in order, sound |-> whether all compile]

VARIABLES
    list,       \* the rulesets that are loaded
    pending,    \* the running load, [by, rest, sound], if any: a set of at most one
    result      \* what the last call of each thread returned

vars == <<list, pending, result>>

Init ==
    /\ list = <<>>
    /\ pending = {}
    /\ result = [t \in Threads |-> "none"]

Load(t) ==
    /\ pending = {}
    /\ \E d \in Documents : pending' = {[by |-> t, rest |-> d.rulesets, sound |-> d.sound]}
    /\ UNCHANGED <<list, result>>

Add ==
    \E load \in pending :
        /\ load.rest # <<>>
        /\ list' = Append(list, Head(load.rest))
        /\ pending' = {[load EXCEPT !.rest = Tail(@)]}
        /\ UNCHANGED result

Loaded ==
    \E load \in pending :
        /\ load.rest = <<>> /\ load.sound
        /\ pending' = {}
        /\ result' = [result EXCEPT ![load.by] = "success"]
        /\ UNCHANGED list

Refused ==
    \E load \in pending :
        /\ pending' = {}
        /\ result' = [result EXCEPT ![load.by] = "error"]
        /\ UNCHANGED list

Unload ==
    /\ pending = {}
    /\ list' = <<>>
    /\ UNCHANGED <<pending, result>>

(* An unload, or a call that only reads the list, returns. *)
Other(t) ==
    /\ \A load \in pending : load.by # t
    /\ \E r \in {"success", "empty"} : result' = [result EXCEPT ![t] = r]
    /\ UNCHANGED <<list, pending>>

Next ==
    \/ \E t \in Threads : Load(t) \/ Other(t)
    \/ Add \/ Loaded \/ Refused \/ Unload

Spec == Init /\ [][Next]_vars
===============================================================================
