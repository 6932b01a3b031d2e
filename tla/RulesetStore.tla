----------------------------- MODULE RulesetStore -----------------------------
(***************************************************************************)
(* The rulesets in memory (src/ruleset.c): one global `struct Rulesets'     *)
(* that unalix_load_file and unalix_load_string append to provider by      *)
(* provider, unalix_unload_rulesets frees, and unalix_clean_url reads       *)
(* through a copy of the struct.  The library takes no lock.  Callers are  *)
(* taken to keep the calls that write the struct apart from each other, and *)
(* to read through it at any time.                                         *)
(*                                                                         *)
(* Memory is modelled as far as it can go wrong: `array' maps the address  *)
(* of a block to its slots, or to Freed.  Reading or writing freed memory, *)
(* a slot beyond the block, one never written or one whose patterns were   *)
(* freed is undefined behaviour: it is recorded in `undefined', and the    *)
(* model stops there.                                                      *)
(***************************************************************************)
EXTENDS Integers, Sequences, FiniteSets

CONSTANTS
    Threads,    \* the threads that call the library
    Providers,  \* the entries of the "providers" object of a document
    Kind,       \* Kind[p]: "enabled", "skipped" or "invalid"
    Documents,  \* the documents that get loaded: sequences of providers
    Arrays,     \* addresses of blocks that realloc may return
    MaxItems,   \* bound: no load starts that could exceed this many items
    Null, Freed, \* no block; a block given back
    Junk, Dead,  \* a slot never written; one whose patterns are freed
    NoThread

Slots == Providers \cup {Junk, Dead}

ASSUME StoreAssumption ==
    /\ Kind \in [Providers -> {"enabled", "skipped", "invalid"}]
    /\ Documents \subseteq Seq(Providers)
    /\ MaxItems \in Nat
    /\ Null \notin Arrays
    /\ Junk \notin Providers /\ Dead \notin Providers
    /\ Freed \notin Seq(Slots)
    /\ NoThread \notin Threads

VARIABLES
    items, size, offset, \* the global struct; size counts items, not bytes
    array,     \* address -> slots
    leaked,    \* patterns that are allocated and that nothing points to
    pc,        \* what each thread is doing
    todo,      \* load: the providers still to be read
    local,     \* load: the block realloc returned
    snap,      \* clean: the copy of the struct, [items, offset]
    index,     \* clean: the provider the loop is at
    result,    \* what the last call of a thread returned
    overlapped,\* history: a load or unload ran during this call
    undefined  \* the thread whose step was undefined behaviour, or NoThread

store == <<items, size, offset, array, leaked>>
loading == <<todo, local>>
cleaning == <<snap, index>>
vars == <<store, loading, cleaning, pc, result, overlapped, undefined>>

Writing == {"read", "grow", "publish", "append", "release", "reset", "free"}
Reading == {"snapOffset", "snapItems", "scan"}

(* Whose patterns got lost, and in which call; not how many times. *)
Leaks == [of : Providers, by : {"load", "unload"}]

TypeOK ==
    /\ items \in Arrays \cup {Null}
    /\ size \in Nat /\ offset \in Nat
    /\ array \in [Arrays -> Seq(Slots) \cup {Freed}]
    /\ leaked \subseteq Leaks
    /\ pc \in [Threads -> Writing \cup Reading \cup {"idle"}]
    /\ todo \in [Threads -> Seq(Providers)]
    /\ local \in [Threads -> Arrays \cup {Null}]
    /\ snap \in [Threads -> [items : Arrays \cup {Null}, offset : Nat]]
    /\ index \in [Threads -> Nat]
    /\ result \in [Threads -> {"none", "success", "error", "empty"}]
    /\ overlapped \in [Threads -> BOOLEAN]
    /\ undefined \in Threads \cup {NoThread}

NoSnap == [items |-> Null, offset |-> 0]

Enabled(p) == Kind[p] = "enabled"

(* The rulesets a caller who is alone with the store would find in it. *)
Contents(block) ==
    IF block = Null \/ array[block] = Freed THEN <<>>
    ELSE SubSeq(array[block], 1, IF offset <= Len(array[block])
                                 THEN offset ELSE Len(array[block]))

Stored == Contents(items)

(* A block of n slots that keeps the slots of s. *)
Resized(s, n) == [i \in 1 .. n |-> IF i <= Len(s) THEN s[i] ELSE Junk]

(* Address a may be read or written at slot i. *)
Valid(a, i) ==
    a # Null /\ array[a] # Freed /\ i \in 1 .. Len(array[a])

-------------------------------------------------------------------------------
(* Calls *)

Running == undefined = NoThread

Writers == {t \in Threads : pc[t] \in Writing}

(* Callers keep loads and unloads apart from one another: two that overlap   *)
(* race on the global struct, and no outcome of that is worth a property.    *)
(* They overlap calls of unalix_clean_url freely.                            *)
Begin(t, stage) ==
    /\ Running
    /\ pc[t] = "idle"
    /\ stage \in Writing => Writers = {}
    /\ pc' = [pc EXCEPT ![t] = stage]
    /\ overlapped' = [w \in Threads |->
          IF w = t THEN Writers # {}
          ELSE overlapped[w] \/ (stage \in Writing /\ pc[w] # "idle")]
    /\ UNCHANGED undefined

At(t, stage) == Running /\ pc[t] = stage

Goto(t, stage) ==
    /\ pc' = [pc EXCEPT ![t] = stage]
    /\ UNCHANGED <<result, overlapped, undefined>>

(* The call returns r, and its locals are gone. *)
Return(t, r) ==
    /\ pc' = [pc EXCEPT ![t] = "idle"]
    /\ result' = [result EXCEPT ![t] = r]
    /\ overlapped' = [overlapped EXCEPT ![t] = FALSE]
    /\ todo' = [todo EXCEPT ![t] = <<>>]
    /\ local' = [local EXCEPT ![t] = Null]
    /\ snap' = [snap EXCEPT ![t] = NoSnap]
    /\ index' = [index EXCEPT ![t] = 0]
    /\ UNCHANGED undefined

(* The step is undefined behaviour: nothing is said of what follows. *)
Undefined(t) ==
    /\ undefined' = t
    /\ UNCHANGED <<store, loading, cleaning, pc, result, overlapped>>

-------------------------------------------------------------------------------
(* Faulty variants of the actions below.  Nothing refers to them: each shows, *)
(* put in place of the action it is named after, that a property can fail.    *)

(* A provider to be ignored ends the loop instead of one turn of it. *)
SkipProviderAndRest(t) ==
    /\ At(t, "read")
    /\ todo[t] # <<>>
    /\ Kind[Head(todo[t])] = "skipped"
    /\ Return(t, "success")
    /\ UNCHANGED store

(* The size is not brought up to date with the block. *)
PublishOldSize(t) ==
    /\ At(t, "publish")
    /\ items' = local[t]
    /\ Goto(t, "append")
    /\ UNCHANGED <<size, offset, array, leaked, loading, cleaning>>

(* The global offset is itself the counter that runs down past zero. *)
ReleaseCountingDown(t) ==
    /\ At(t, "release")
    /\ offset' = -1
    /\ array' = [a \in Arrays |->
                   IF a = items /\ array[a] # Freed
                   THEN [i \in DOMAIN array[a] |-> Dead] ELSE array[a]]
    /\ Goto(t, "reset")
    /\ UNCHANGED <<items, size, leaked, loading, cleaning>>

(* The pointer to the freed block is kept. *)
FreeItemsDangling(t) ==
    /\ At(t, "free")
    /\ IF items # Null /\ array[items] = Freed
       THEN Undefined(t)
       ELSE /\ array' = [a \in Arrays |-> IF a = items THEN Freed ELSE array[a]]
            /\ Return(t, "success")
            /\ UNCHANGED <<items, size, offset, leaked>>

-------------------------------------------------------------------------------
(* load_ruleset *)

LoadBegin(t) ==
    \E d \in Documents :
        /\ offset + Len(d) <= MaxItems
        /\ Begin(t, "read")
        /\ todo' = [todo EXCEPT ![t] = d]
        /\ UNCHANGED <<store, local, cleaning, result>>

(* A provider that is ignored by its name, or by "completeProvider". *)
SkipProvider(t) ==
    /\ At(t, "read")
    /\ todo[t] # <<>>
    /\ Kind[Head(todo[t])] = "skipped"
    /\ todo' = [todo EXCEPT ![t] = Tail(@)]
    /\ UNCHANGED <<store, local, cleaning, pc, result, overlapped, undefined>>

(* A provider that does not parse or compile, or memory runs out: the call  *)
(* returns, and what it has appended so far stays.  It frees none of the    *)
(* patterns it has compiled of this provider, if there are any by then.     *)
LoadFailed(t) ==
    /\ At(t, "read")
    /\ todo[t] # <<>>
    /\ Kind[Head(todo[t])] # "skipped"
    /\ leaked' \in {leaked, leaked \cup {[of |-> Head(todo[t]), by |-> "load"]}}
    /\ Return(t, "error")
    /\ UNCHANGED <<items, size, offset, array>>

CompileProvider(t) ==
    /\ At(t, "read")
    /\ todo[t] # <<>>
    /\ Enabled(Head(todo[t]))
    /\ Goto(t, "grow")
    /\ UNCHANGED <<store, loading, cleaning>>

(* realloc(items, size + 1): in place, or a new block and the old one freed. *)
Grow(t) ==
    /\ At(t, "grow")
    /\ IF items # Null /\ array[items] = Freed
       THEN Undefined(t)
       ELSE /\ \E a \in Arrays :
                 /\ a = items \/ array[a] = Freed
                 /\ array' = [b \in Arrays |->
                        IF b = a THEN Resized(IF items = Null THEN <<>>
                                              ELSE array[items], size + 1)
                        ELSE IF b = items THEN Freed ELSE array[b]]
                 /\ local' = [local EXCEPT ![t] = a]
            /\ Goto(t, "publish")
            /\ UNCHANGED <<items, size, offset, leaked, todo, cleaning>>

Publish(t) ==
    /\ At(t, "publish")
    /\ items' = local[t]
    /\ size' = size + 1
    /\ Goto(t, "append")
    /\ UNCHANGED <<offset, array, leaked, loading, cleaning>>

AppendRuleset(t) ==
    /\ At(t, "append")
    /\ IF ~Valid(items, offset + 1)
       THEN Undefined(t)
       ELSE /\ array' = [array EXCEPT ![items][offset + 1] = Head(todo[t])]
            /\ offset' = offset + 1
            /\ todo' = [todo EXCEPT ![t] = Tail(@)]
            /\ Goto(t, "read")
            /\ UNCHANGED <<items, size, leaked, local, cleaning>>

LoadEnd(t) ==
    /\ At(t, "read")
    /\ todo[t] = <<>>
    /\ Return(t, "success")
    /\ UNCHANGED store

-------------------------------------------------------------------------------
(* rulesets_free *)

UnloadBegin(t) ==
    /\ Begin(t, "release")
    /\ UNCHANGED <<store, loading, cleaning, result>>

(* The patterns of every ruleset up to offset are freed. *)
ReleasePatterns(t) ==
    /\ At(t, "release")
    /\ IF \E i \in 1 .. offset : ~Valid(items, i) \/ array[items][i] \notin Providers
       THEN Undefined(t)
       ELSE /\ array' = IF offset = 0 THEN array
                        ELSE [array EXCEPT ![items] =
                                [i \in DOMAIN @ |-> IF i <= offset THEN Dead ELSE @[i]]]
            /\ Goto(t, "reset")
            /\ UNCHANGED <<items, size, offset, leaked, loading, cleaning>>

ResetCounts(t) ==
    /\ At(t, "reset")
    /\ offset' = 0
    /\ size' = 0
    /\ Goto(t, "free")
    /\ UNCHANGED <<items, array, leaked, loading, cleaning>>

(* The patterns of a ruleset that is still in the block have no owner then. *)
LiveIn(a) ==
    IF a = Null THEN {} ELSE {p \in Providers : \E i \in DOMAIN array[a] : array[a][i] = p}

FreeItems(t) ==
    /\ At(t, "free")
    /\ IF items # Null /\ array[items] = Freed
       THEN Undefined(t)
       ELSE /\ array' = [a \in Arrays |-> IF a = items THEN Freed ELSE array[a]]
            /\ leaked' = leaked \cup [of : LiveIn(items), by : {"unload"}]
            /\ items' = Null
            /\ Return(t, "success")
            /\ UNCHANGED <<size, offset>>

-------------------------------------------------------------------------------
(* unalix_clean_url, as far as it reads the store *)

CleanBegin(t) ==
    /\ Begin(t, "snapOffset")
    /\ UNCHANGED <<store, loading, cleaning, result>>

(* get_rulesets copies the struct, member by member. *)
SnapOffset(t) ==
    /\ At(t, "snapOffset")
    /\ snap' = [snap EXCEPT ![t].offset = offset]
    /\ Goto(t, "snapItems")
    /\ UNCHANGED <<store, loading, index>>

SnapItems(t) ==
    /\ At(t, "snapItems")
    /\ IF snap[t].offset < 1
       THEN Return(t, "empty")
       ELSE /\ snap' = [snap EXCEPT ![t].items = items]
            /\ index' = [index EXCEPT ![t] = 1]
            /\ Goto(t, "scan")
            /\ UNCHANGED loading
    /\ UNCHANGED store

(* The loop is at one ruleset: go on to the next, or a redirection matches   *)
(* and unalix_clean_url calls itself, whose result it returns.               *)
ScanRuleset(t) ==
    /\ At(t, "scan")
    /\ index[t] <= snap[t].offset
    /\ IF \/ ~Valid(snap[t].items, index[t])
          \/ array[snap[t].items][index[t]] \notin Providers
       THEN Undefined(t)
       ELSE /\ \/ /\ index' = [index EXCEPT ![t] = @ + 1]
                  /\ UNCHANGED <<pc, result, overlapped, undefined>>
               \/ /\ Goto(t, "snapOffset")
                  /\ UNCHANGED index
            /\ UNCHANGED <<store, loading, snap>>

CleanEnd(t) ==
    /\ At(t, "scan")
    /\ index[t] > snap[t].offset
    /\ Return(t, "success")
    /\ UNCHANGED store

-------------------------------------------------------------------------------
Init ==
    /\ items = Null /\ size = 0 /\ offset = 0
    /\ array = [a \in Arrays |-> Freed]
    /\ leaked = {}
    /\ pc = [t \in Threads |-> "idle"]
    /\ todo = [t \in Threads |-> <<>>]
    /\ local = [t \in Threads |-> Null]
    /\ snap = [t \in Threads |-> NoSnap]
    /\ index = [t \in Threads |-> 0]
    /\ result = [t \in Threads |-> "none"]
    /\ overlapped = [t \in Threads |-> FALSE]
    /\ undefined = NoThread

Load(t) ==
    \/ LoadBegin(t) \/ SkipProvider(t) \/ LoadFailed(t) \/ CompileProvider(t)
    \/ Grow(t) \/ Publish(t) \/ AppendRuleset(t) \/ LoadEnd(t)

Unload(t) ==
    UnloadBegin(t) \/ ReleasePatterns(t) \/ ResetCounts(t) \/ FreeItems(t)

Clean(t) ==
    \/ CleanBegin(t) \/ SnapOffset(t) \/ SnapItems(t) \/ ScanRuleset(t)
    \/ CleanEnd(t)

Next == \E t \in Threads : Load(t) \/ Unload(t) \/ Clean(t)

Spec == Init /\ [][Next]_vars

-------------------------------------------------------------------------------
(* Properties *)

(* What callers must arrange, and all they must: only a unalix_clean_url that *)
(* a load or an unload overlaps can touch memory that is not there any more; *)
(* such a call harms neither the load nor any later call (ruleset.c:225-235, *)
(* 242-281, clean_url.c:52-69).                                              *)
Sharing ==
    undefined # NoThread =>
        overlapped[undefined] /\ pc[undefined] \in Reading

LeaksOfLoads == \A leak \in leaked : leak.by = "load"

(* Between loads and unloads every slot up to offset holds a ruleset whose   *)
(* patterns are alive, size is the length of the block and no other block of *)
(* rulesets is allocated, however the last load ended (ruleset.c:225-236,    *)
(* 275-279).  Patterns that no slot holds, and nobody can free any more, are *)
(* those of a provider at which a load failed, which ruleset.c:131-232       *)
(* returns over; an unload loses none.                                       *)
StoreAtRest ==
    Writers = {} =>
        /\ size = offset /\ Len(Stored) = offset
        /\ \A i \in 1 .. offset : Stored[i] \in Providers
        /\ \A a \in Arrays : a = items \/ array[a] = Freed
        /\ items # Null => array[items] # Freed /\ Len(array[items]) = size
        /\ LeaksOfLoads

(* The providers of a document that are used, in their order *)
Used[d \in Seq(Providers)] ==
    IF d = <<>> THEN <<>>
    ELSE IF Enabled(Head(d)) THEN <<Head(d)>> \o Used[Tail(d)]
    ELSE Used[Tail(d)]

(* What the global struct holds, at every step of every call, is a list of    *)
(* rulesets as RulesetList promises: it is empty from the moment the patterns *)
(* are freed, and it is in the new block while realloc has moved it but the   *)
(* pointer is still the old one (ruleset.c:86-281).                           *)
Loaders == {t \in Threads : pc[t] \in {"read", "grow", "publish", "append"}}

Sound(doc) == \A i \in DOMAIN doc : Kind[doc[i]] # "invalid"

InMemory ==
    IF \E t \in Threads : pc[t] = "reset" THEN <<>>
    ELSE IF \E t \in Threads : pc[t] = "publish"
    THEN Contents(local[CHOOSE t \in Threads : pc[t] = "publish"])
    ELSE Stored

LoadOf(t) == [by |-> t, rest |-> Used[todo[t]], sound |-> Sound(todo[t])]

List ==
    INSTANCE RulesetList WITH
        Documents <- {[rulesets |-> Used[d], sound |-> Sound(d)] : d \in Documents},
        list <- InMemory,
        pending <- {LoadOf(t) : t \in Loaders}

StoresList == List!Spec

-------------------------------------------------------------------------------
(* The inductive invariant of RulesetStoreProofs *)

(* A block of n slots of which the first `filled' hold live rulesets *)
Holds(a, n, filled) ==
    /\ a \in Arrays /\ array[a] # Freed /\ Len(array[a]) = n
    /\ \A i \in 1 .. filled : array[a][i] \in Providers

Only(a) == \A b \in Arrays : b = a \/ array[b] = Freed

(* The store as callers find it between loads and unloads *)
Whole ==
    /\ size = offset /\ Only(items)
    /\ IF items = Null THEN offset = 0 ELSE Holds(items, size, offset)

(* The block, if there is one, when the patterns of its rulesets are freed *)
Emptied ==
    items # Null =>
        /\ array[items] # Freed
        /\ \A i \in 1 .. Len(array[items]) : array[items][i] \notin Providers

(* The store while a load or an unload is at some stage: what has been        *)
(* enlarged but not published, published but not filled, emptied but not      *)
(* given back.                                                               *)
StoreAt(t) ==
    /\ pc[t] \in {"read", "grow", "release"} => Whole
    /\ pc[t] = "publish" => size = offset /\ Only(local[t]) /\ Holds(local[t], size + 1, offset)
    /\ pc[t] = "append" => size = offset + 1 /\ Only(items) /\ Holds(items, size, offset)
    /\ pc[t] = "reset" => size = offset /\ Only(items) /\ Emptied
    /\ pc[t] = "free" => size = 0 /\ offset = 0 /\ Only(items) /\ Emptied
    /\ pc[t] \in {"grow", "publish", "append"} => todo[t] # <<>> /\ Enabled(Head(todo[t]))

OneWriter == \A t, u \in Writers : t = u

(* A unalix_clean_url that nothing has overlapped reads what is there. *)
SeesStore ==
    \A t \in Threads : pc[t] \in Reading /\ ~overlapped[t] =>
        /\ Writers = {}
        /\ pc[t] \in {"snapItems", "scan"} => snap[t].offset = offset
        /\ pc[t] = "scan" => snap[t].items = items /\ index[t] >= 1 /\ offset >= 1

(* What each step of a load, an unload and a clean relies on. *)
IInv ==
    /\ TypeOK
    /\ Writers = {} => Whole
    /\ \A t \in Writers : StoreAt(t)
    /\ OneWriter
    /\ SeesStore
    /\ Sharing
    /\ LeaksOfLoads
===============================================================================
