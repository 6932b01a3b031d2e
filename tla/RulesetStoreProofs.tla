-------------------------- MODULE RulesetStoreProofs --------------------------
(***************************************************************************)
(* Theorems about RulesetStore: what the global store holds at each step   *)
(* of a load and an unload, who can touch freed memory, and that the store *)
(* implements RulesetList, for any number of threads and of blocks and any  *)
(* documents.                                                              *)
(***************************************************************************)
EXTENDS RulesetStore, NaturalsInduction, WellFoundedInduction, TLAPS

USE StoreAssumption

-------------------------------------------------------------------------------
(* Lemmas about the operators *)

(* A set of naturals has a least element. *)
LEMMA Least ==
    ASSUME NEW T \in SUBSET Nat, T # {}
    PROVE  \E n \in T : \A m \in T : n <= m
<1> DEFINE Less == {r \in Nat \X Nat : r[1] < r[2]}
<1>1. IsWellFoundedOn(Less, Nat)
  <2>1. OpToRel(<, Nat) = Less
    BY Zenon DEF OpToRel
  <2> QED
    BY <2>1, NatLessThanWellFounded, Zenon
<1>2. PICK n \in T : \A m \in T : ~(<<m, n>> \in Less)
  BY <1>1, WFMin, Zenon
<1>3. \A m \in T : n <= m
  <2> TAKE m \in T
  <2>1. m \in Nat /\ n \in Nat /\ ~(m < n)
    BY <1>2
  <2> QED
    BY <2>1
<1> QED
  BY <1>3

LEMMA ResizedBlock ==
    ASSUME NEW s \in Seq(Slots), NEW n \in Nat
    PROVE  /\ Resized(s, n) \in Seq(Slots)
           /\ Len(Resized(s, n)) = n
           /\ \A i \in 1 .. n : i <= Len(s) => Resized(s, n)[i] = s[i]
<1>1. \A i \in 1 .. n : (IF i <= Len(s) THEN s[i] ELSE Junk) \in Slots
  BY DEF Slots
<1>2. Resized(s, n) \in [1 .. n -> Slots]
  BY <1>1 DEF Resized
<1>3. Resized(s, n) \in Seq(Slots) /\ Len(Resized(s, n)) = n
  BY <1>2
<1> QED
  BY <1>3 DEF Resized

LEMMA BlockType ==
    ASSUME TypeOK, NEW a \in Arrays, array[a] # Freed
    PROVE  array[a] \in Seq(Slots) /\ Len(array[a]) \in Nat
BY DEF TypeOK

-------------------------------------------------------------------------------
(* What all steps of a load or an unload, and all of a clean, have in common *)

LEMMA WriterStep ==
    ASSUME IInv, NEW t \in Threads, pc[t] \in Writing,
           NEW stage \in Writing \cup {"idle"}, pc' = [pc EXCEPT ![t] = stage],
           \A u \in Threads : u # t => overlapped'[u] = overlapped[u]
    PROVE  /\ SeesStore' /\ OneWriter'
           /\ Writers' = IF stage = "idle" THEN {} ELSE {t}
<1>1. \A u \in Threads : u # t => pc[u] \notin Writing
  BY DEF IInv, OneWriter, Writers
<1>2. pc'[t] = stage /\ \A u \in Threads : u # t => pc'[u] = pc[u]
  BY DEF IInv, TypeOK
<1>3. "idle" \notin Writing /\ Writing \cap Reading = {} /\ "idle" \notin Reading
  BY DEF Writing, Reading
<1>4. Writers' = IF stage = "idle" THEN {} ELSE {t}
  BY <1>1, <1>2, <1>3 DEF Writers
<1>5. \A u \in Threads : pc[u] \in Reading => overlapped[u]
  BY DEF IInv, SeesStore, Writers
<1>6. SeesStore'
  BY <1>2, <1>3, <1>5 DEF SeesStore
<1>7. OneWriter'
  BY <1>4 DEF OneWriter
<1> QED
  BY <1>4, <1>6, <1>7

LEMMA ReaderStep ==
    ASSUME IInv, UNCHANGED store, NEW t \in Threads, pc[t] \notin Writing,
           NEW stage, stage \notin Writing, pc' = [pc EXCEPT ![t] = stage],
           \A u \in Threads : u # t => todo'[u] = todo[u] /\ local'[u] = local[u]
    PROVE  /\ Writers' = Writers /\ OneWriter'
           /\ Writers' = {} => Whole'
           /\ \A u \in Writers' : StoreAt(u)'
<1>1. pc'[t] = stage /\ \A u \in Threads : u # t => pc'[u] = pc[u]
  BY DEF IInv, TypeOK
<1>2. Writers' = Writers /\ t \notin Writers
  BY <1>1 DEF Writers
<1>3. OneWriter'
  BY <1>2 DEF IInv, OneWriter
<1>4. Writers' = {} => Whole'
  BY <1>2 DEF IInv, Whole, Only, Holds, store
<1>5. ASSUME NEW u \in Writers' PROVE StoreAt(u)'
  <2>1. StoreAt(u) /\ pc'[u] = pc[u] /\ todo'[u] = todo[u] /\ local'[u] = local[u]
    BY <1>1, <1>2, <1>5 DEF IInv, Writers
  <2> QED
    BY <2>1 DEF StoreAt, Emptied, Whole, Only, Holds, store
<1> QED
  BY <1>2, <1>3, <1>4, <1>5

LEMMA InitInv == Init => IInv
<1> SUFFICES ASSUME Init PROVE IInv
  OBVIOUS
<1>1. TypeOK
  BY DEF Init, TypeOK, NoSnap
<1>2. Writers = {} /\ \A t \in Threads : pc[t] \notin Reading
  BY DEF Init, Writers, Writing, Reading
<1>3. Whole
  BY DEF Init, Whole, Only
<1>4. Sharing
  BY DEF Init, Sharing
<1> QED
  BY <1>1, <1>2, <1>3, <1>4 DEF Init, IInv, OneWriter, SeesStore, LeaksOfLoads

-------------------------------------------------------------------------------
(* One lemma per action *)

(* A load or an unload begins where there is no other.                        *)
LEMMA BeginWriting ==
    ASSUME IInv, NEW t \in Threads, NEW stage \in {"read", "release"}, Begin(t, stage),
           UNCHANGED <<store, local, cleaning, result>>, todo' \in [Threads -> Seq(Providers)]
    PROVE  IInv'
<1>1. TypeOK /\ pc[t] = "idle" /\ Writers = {} /\ Whole /\ undefined = NoThread
  BY DEF IInv, Begin, Running, Writing
<1>2. /\ pc' = [pc EXCEPT ![t] = stage] /\ undefined' = undefined
      /\ overlapped' = [w \in Threads |-> IF w = t THEN FALSE ELSE overlapped[w] \/ pc[w] # "idle"]
  BY <1>1 DEF Begin, Writing
<1>3. /\ UNCHANGED <<items, size, offset, array, leaked>>
      /\ UNCHANGED <<local, snap, index, result>>
  BY DEF store, cleaning
<1>4. TypeOK'
  <2>1. pc' \in [Threads -> Writing \cup Reading \cup {"idle"}]
    BY <1>1, <1>2 DEF TypeOK, Writing
  <2>2. overlapped' \in [Threads -> BOOLEAN]
    BY <1>1, <1>2 DEF TypeOK
  <2> QED
    BY <1>1, <1>2, <1>3, <2>1, <2>2 DEF TypeOK
<1>5. Writers' = {t} /\ pc'[t] = stage
  BY <1>1, <1>2 DEF Writers, TypeOK, Writing
<1>6. Whole'
  BY <1>1, <1>3 DEF Whole, Only, Holds
<1>7. StoreAt(t)'
  BY <1>5, <1>6 DEF StoreAt
<1>8. SeesStore'
  <2> SUFFICES ASSUME NEW u \in Threads, pc'[u] \in Reading PROVE overlapped'[u]
    BY DEF SeesStore
  <2>1. u # t /\ pc'[u] = pc[u] /\ pc[u] # "idle"
    BY <1>1, <1>2, <1>5 DEF TypeOK, Reading
  <2> QED
    BY <1>1, <1>2, <2>1
<1>9. Sharing'
  BY <1>1, <1>2 DEF Sharing
<1> QED
  BY <1>3, <1>4, <1>5, <1>7, <1>8, <1>9 DEF IInv, OneWriter, LeaksOfLoads

LEMMA LoadBeginInv == ASSUME IInv, NEW t \in Threads, LoadBegin(t) PROVE IInv'
<1>1. PICK d \in Documents : /\ Begin(t, "read") /\ todo' = [todo EXCEPT ![t] = d]
                             /\ UNCHANGED <<store, local, cleaning, result>>
  BY DEF LoadBegin
<1>2. todo' \in [Threads -> Seq(Providers)]
  BY <1>1 DEF IInv, TypeOK
<1> QED
  BY <1>1, <1>2, BeginWriting

LEMMA UnloadBeginInv == ASSUME IInv, NEW t \in Threads, UnloadBegin(t) PROVE IInv'
<1>1. todo' \in [Threads -> Seq(Providers)] /\ Begin(t, "release")
      /\ UNCHANGED <<store, local, cleaning, result>>
  BY DEF UnloadBegin, IInv, TypeOK, loading
<1> QED
  BY <1>1, BeginWriting

(* A return leaves the locals of the thread as they were at the start.        *)
LEMMA ReturnTyped ==
    ASSUME TypeOK, NEW t \in Threads, NEW r \in {"success", "error", "empty"}, Return(t, r),
           items' \in Arrays \cup {Null}, size' \in Nat, offset' \in Nat,
           array' \in [Arrays -> Seq(Slots) \cup {Freed}], leaked' \subseteq Leaks
    PROVE  TypeOK'
<1>1. pc' \in [Threads -> Writing \cup Reading \cup {"idle"}]
  BY DEF Return, TypeOK
<1>2. todo' \in [Threads -> Seq(Providers)] /\ local' \in [Threads -> Arrays \cup {Null}]
  BY DEF Return, TypeOK
<1>3. snap' \in [Threads -> [items : Arrays \cup {Null}, offset : Nat]] /\ index' \in [Threads -> Nat]
  BY DEF Return, TypeOK, NoSnap
<1>4. result' \in [Threads -> {"none", "success", "error", "empty"}]
  BY DEF Return, TypeOK
<1>5. overlapped' \in [Threads -> BOOLEAN] /\ undefined' \in Threads \cup {NoThread}
  BY DEF Return, TypeOK
<1> QED
  BY <1>1, <1>2, <1>3, <1>4, <1>5 DEF TypeOK

(* What a running load or unload may rely on *)
LEMMA WriterAt ==
    ASSUME IInv, NEW t \in Threads, NEW stage \in Writing, At(t, stage)
    PROVE  TypeOK /\ undefined = NoThread /\ pc[t] = stage /\ StoreAt(t)
BY DEF IInv, At, Running, Writers

(* A load or an unload returns, and leaves the store whole.                   *)
LEMMA WriterReturns ==
    ASSUME IInv, NEW t \in Threads, pc[t] \in Writing, undefined = NoThread,
           NEW r \in {"success", "error"}, Return(t, r), TypeOK', Whole',
           LeaksOfLoads'
    PROVE  IInv'
<1>1. pc' = [pc EXCEPT ![t] = "idle"] /\ \A u \in Threads : u # t => overlapped'[u] = overlapped[u]
  BY DEF Return, IInv, TypeOK
<1>2. SeesStore' /\ OneWriter' /\ Writers' = {}
  BY <1>1, WriterStep DEF Writing
<1>3. Sharing'
  BY DEF Return, Sharing
<1> QED
  BY <1>2, <1>3 DEF IInv

(* A load or an unload goes on to its next stage.                             *)
LEMMA WriterGoesOn ==
    ASSUME IInv, NEW t \in Threads, pc[t] \in Writing, undefined = NoThread,
           NEW stage \in Writing, pc' = [pc EXCEPT ![t] = stage],
           UNCHANGED <<snap, index, result, overlapped, undefined>>,
           items' \in Arrays \cup {Null}, size' \in Nat, offset' \in Nat,
           array' \in [Arrays -> Seq(Slots) \cup {Freed}], leaked' = leaked,
           todo' \in [Threads -> Seq(Providers)],
           local' \in [Threads -> Arrays \cup {Null}],
           pc'[t] = stage => StoreAt(t)'
    PROVE  IInv'
<1>1. TypeOK'
  <2>1. pc' \in [Threads -> Writing \cup Reading \cup {"idle"}]
    BY DEF IInv, TypeOK
  <2> QED
    BY <2>1 DEF IInv, TypeOK
<1>2. SeesStore' /\ OneWriter' /\ Writers' = {t}
  <2>1. stage # "idle"
    BY DEF Writing
  <2> QED
    BY <2>1, WriterStep
<1>3. pc'[t] = stage
  BY DEF IInv, TypeOK
<1>4. Sharing'
  BY DEF Sharing
<1> QED
  BY <1>1, <1>2, <1>3, <1>4 DEF IInv, LeaksOfLoads

LEMMA SkipProviderInv == ASSUME IInv, NEW t \in Threads, SkipProvider(t) PROVE IInv'
<1>1. TypeOK /\ undefined = NoThread /\ pc[t] = "read" /\ StoreAt(t)
  BY WriterAt DEF SkipProvider, Writing
<1>2. pc' = [pc EXCEPT ![t] = "read"] /\ UNCHANGED store
  BY <1>1 DEF SkipProvider, TypeOK
<1>3. todo[t] \in Seq(Providers) /\ todo[t] # <<>>
  BY <1>1 DEF TypeOK, SkipProvider
<1>4. todo' \in [Threads -> Seq(Providers)]
  BY <1>1, <1>3 DEF TypeOK, SkipProvider
<1>5. pc'[t] = "read" => StoreAt(t)'
  BY <1>1, <1>2 DEF StoreAt, Whole, Only, Holds, store
<1>6. /\ UNCHANGED <<items, size, offset, array, leaked>>
      /\ UNCHANGED <<local, snap, index, result, overlapped, undefined>>
  BY DEF SkipProvider, store, cleaning
<1> QED
  BY <1>1, <1>2, <1>4, <1>5, <1>6, WriterGoesOn DEF TypeOK, Writing

LEMMA LoadFailedInv == ASSUME IInv, NEW t \in Threads, LoadFailed(t) PROVE IInv'
<1>1. TypeOK /\ undefined = NoThread /\ pc[t] = "read" /\ StoreAt(t)
  BY WriterAt DEF LoadFailed, Writing
<1>2. Return(t, "error") /\ UNCHANGED <<items, size, offset, array>>
  BY DEF LoadFailed
<1>3. PICK leak \in Leaks : leak.by = "load" /\ leaked' \in {leaked, leaked \cup {leak}}
  <2>1. Head(todo[t]) \in Providers
    BY <1>1 DEF TypeOK, LoadFailed
  <2> QED
    BY <2>1 DEF LoadFailed, Leaks
<1>4. leaked' \subseteq Leaks /\ LeaksOfLoads'
  BY <1>1, <1>3 DEF TypeOK, IInv, LeaksOfLoads
<1>5. TypeOK'
  BY <1>1, <1>2, <1>4, ReturnTyped DEF TypeOK
<1>6. Whole'
  BY <1>1, <1>2 DEF StoreAt, Whole, Only, Holds
<1> QED
  BY <1>1, <1>2, <1>4, <1>5, <1>6, WriterReturns DEF Writing

LEMMA LoadEndInv == ASSUME IInv, NEW t \in Threads, LoadEnd(t) PROVE IInv'
<1>1. TypeOK /\ undefined = NoThread /\ pc[t] = "read" /\ StoreAt(t)
  BY WriterAt DEF LoadEnd, Writing
<1>2. Return(t, "success") /\ UNCHANGED store
  BY DEF LoadEnd
<1>3. TypeOK'
  BY <1>1, <1>2, ReturnTyped DEF TypeOK, store
<1>4. Whole'
  BY <1>1, <1>2 DEF StoreAt, Whole, Only, Holds, store
<1>5. LeaksOfLoads'
  BY <1>2 DEF IInv, LeaksOfLoads, store
<1> QED
  BY <1>1, <1>2, <1>3, <1>4, <1>5, WriterReturns DEF Writing

LEMMA CompileProviderInv == ASSUME IInv, NEW t \in Threads, CompileProvider(t) PROVE IInv'
<1>1. TypeOK /\ undefined = NoThread /\ pc[t] = "read" /\ StoreAt(t)
  BY WriterAt DEF CompileProvider, Writing
<1>2. /\ pc' = [pc EXCEPT ![t] = "grow"] /\ UNCHANGED <<items, size, offset, array, leaked>>
      /\ UNCHANGED <<todo, local, snap, index, result, overlapped, undefined>>
      /\ todo[t] # <<>> /\ Enabled(Head(todo[t]))
  BY DEF CompileProvider, Goto, store, loading, cleaning
<1>3. pc'[t] = "grow" => StoreAt(t)'
  BY <1>1, <1>2 DEF StoreAt, Whole, Only, Holds, Enabled
<1> QED
  BY <1>1, <1>2, <1>3, WriterGoesOn DEF TypeOK, Writing

LEMMA GrowInv == ASSUME IInv, NEW t \in Threads, Grow(t) PROVE IInv'
<1>1. TypeOK /\ undefined = NoThread /\ pc[t] = "grow" /\ StoreAt(t)
  BY WriterAt DEF Grow, Writing
<1>2. /\ Whole /\ size = offset /\ size \in Nat /\ todo[t] # <<>> /\ Enabled(Head(todo[t]))
      /\ ~ (items # Null /\ array[items] = Freed)
  BY <1>1 DEF StoreAt, Whole, Holds, TypeOK
<1> DEFINE old == IF items = Null THEN <<>> ELSE array[items]
<1>3. old \in Seq(Slots) /\ (items # Null => items \in Arrays)
      /\ \A i \in 1 .. offset : i <= Len(old) /\ old[i] \in Providers
  BY <1>1, <1>2 DEF Whole, Holds, TypeOK
<1>4. PICK a \in Arrays :
        /\ a = items \/ array[a] = Freed
        /\ array' = [b \in Arrays |-> IF b = a THEN Resized(old, size + 1)
                                      ELSE IF b = items THEN Freed ELSE array[b]]
        /\ local' = [local EXCEPT ![t] = a]
  BY <1>2 DEF Grow
<1>5. /\ pc' = [pc EXCEPT ![t] = "publish"]
      /\ UNCHANGED <<items, size, offset, leaked, todo>>
      /\ UNCHANGED <<snap, index, result, overlapped, undefined>>
  BY <1>2 DEF Grow, Goto, cleaning
<1>6. /\ Resized(old, size + 1) \in Seq(Slots)
      /\ Len(Resized(old, size + 1)) = size + 1
      /\ \A i \in 1 .. offset : Resized(old, size + 1)[i] = old[i]
  <2>1. size + 1 \in Nat /\ \A i \in 1 .. offset : i \in 1 .. (size + 1) /\ i <= Len(old)
    BY <1>2, <1>3
  <2> HIDE DEF old
  <2> QED
    BY <1>3, <2>1, ResizedBlock
<1>7. array' \in [Arrays -> Seq(Slots) \cup {Freed}] /\ local' \in [Threads -> Arrays \cup {Null}]
  <2> HIDE DEF old
  <2> QED
    BY <1>1, <1>4, <1>6 DEF TypeOK
<1>8. Only(a)'
  <2> HIDE DEF old
  <2> QED
    BY <1>2, <1>4 DEF Whole, Only
<1>9. Holds(a, size + 1, offset)'
  <2> HIDE DEF old
  <2>1. array'[a] = Resized(old, size + 1)
    BY <1>4
  <2>2. array'[a] # Freed
    BY <1>6, <2>1
  <2> QED
    BY <1>2, <1>3, <1>5, <1>6, <2>1, <2>2 DEF Holds
<1>10. local'[t] = a
  BY <1>1, <1>4 DEF TypeOK
<1>11. pc'[t] = "publish" => StoreAt(t)'
  BY <1>2, <1>5, <1>8, <1>9, <1>10 DEF StoreAt, Enabled
<1> QED
  BY <1>1, <1>5, <1>7, <1>11, WriterGoesOn DEF TypeOK, Writing

LEMMA PublishInv == ASSUME IInv, NEW t \in Threads, Publish(t) PROVE IInv'
<1>1. TypeOK /\ undefined = NoThread /\ pc[t] = "publish" /\ StoreAt(t)
  BY WriterAt DEF Publish, Writing
<1>2. /\ pc' = [pc EXCEPT ![t] = "append"] /\ items' = local[t] /\ size' = size + 1
      /\ UNCHANGED <<offset, array, leaked, todo, local>>
      /\ UNCHANGED <<snap, index, result, overlapped, undefined>>
  BY DEF Publish, Goto, loading, cleaning
<1>3. pc'[t] = "append" => StoreAt(t)'
  BY <1>1, <1>2 DEF StoreAt, Only, Holds, Enabled
<1>4. /\ items' \in Arrays \cup {Null} /\ size' \in Nat /\ offset' \in Nat
      /\ array' \in [Arrays -> Seq(Slots) \cup {Freed}]
      /\ todo' \in [Threads -> Seq(Providers)] /\ local' \in [Threads -> Arrays \cup {Null}]
  BY <1>1, <1>2 DEF TypeOK
<1>5. "append" \in Writing /\ pc[t] \in Writing
  BY <1>1 DEF Writing
<1> QED
  BY <1>1, <1>2, <1>3, <1>4, <1>5, WriterGoesOn

LEMMA AppendRulesetInv == ASSUME IInv, NEW t \in Threads, AppendRuleset(t) PROVE IInv'
<1>1. TypeOK /\ undefined = NoThread /\ pc[t] = "append" /\ StoreAt(t)
  BY WriterAt DEF AppendRuleset, Writing
<1>2. /\ size = offset + 1 /\ offset \in Nat /\ items \in Arrays /\ Only(items)
      /\ Holds(items, size, offset) /\ todo[t] # <<>> /\ todo[t] \in Seq(Providers)
  BY <1>1 DEF StoreAt, Holds, TypeOK
<1>3. array[items] \in Seq(Slots) /\ Len(array[items]) = offset + 1 /\ Valid(items, offset + 1)
  BY <1>1, <1>2, BlockType DEF Holds, Valid
<1>4. Head(todo[t]) \in Providers /\ Tail(todo[t]) \in Seq(Providers)
  BY <1>2
<1>5. /\ array' = [array EXCEPT ![items] = [@ EXCEPT ![offset + 1] = Head(todo[t])]]
      /\ offset' = offset + 1 /\ todo' = [todo EXCEPT ![t] = Tail(@)]
      /\ pc' = [pc EXCEPT ![t] = "read"]
      /\ UNCHANGED <<items, size, leaked, local>>
      /\ UNCHANGED <<snap, index, result, overlapped, undefined>>
  BY <1>3 DEF AppendRuleset, Goto, cleaning
<1> DEFINE new == [array[items] EXCEPT ![offset + 1] = Head(todo[t])]
<1>6. /\ new \in Seq(Slots) /\ Len(new) = offset + 1
      /\ \A i \in 1 .. offset + 1 : new[i] \in Providers
  <2>1. Head(todo[t]) \in Slots
    BY <1>4 DEF Slots
  <2>2. new \in Seq(Slots) /\ Len(new) = offset + 1
    BY <1>2, <1>3, <2>1
  <2> QED
    BY <1>2, <1>3, <1>4, <2>2 DEF Holds
<1>7. array'[items] = new /\ \A b \in Arrays : b # items => array'[b] = array[b]
  BY <1>1, <1>2, <1>5 DEF TypeOK
<1> HIDE DEF new
<1>8. array' \in [Arrays -> Seq(Slots) \cup {Freed}] /\ todo' \in [Threads -> Seq(Providers)]
  <2>1. array' = [array EXCEPT ![items] = new]
    BY <1>5 DEF new
  <2>2. new \in Seq(Slots) \cup {Freed}
    BY <1>6
  <2>3. array' \in [Arrays -> Seq(Slots) \cup {Freed}]
    BY <1>1, <2>1, <2>2 DEF TypeOK
  <2>4. todo' \in [Threads -> Seq(Providers)]
    BY <1>1, <1>4, <1>5 DEF TypeOK
  <2> QED
    BY <2>3, <2>4
<1>9. Whole'
  <2>1. items # Null
    BY <1>2
  <2>2. Holds(items, size, offset)'
    BY <1>2, <1>5, <1>6, <1>7 DEF Holds
  <2>3. Only(items)'
    BY <1>2, <1>5, <1>7 DEF Only
  <2> QED
    BY <1>2, <1>5, <2>1, <2>2, <2>3 DEF Whole
<1>10. pc'[t] = "read" => StoreAt(t)'
  BY <1>9 DEF StoreAt
<1> QED
  BY <1>1, <1>2, <1>5, <1>8, <1>10, WriterGoesOn DEF TypeOK, Writing

LEMMA ReleasePatternsInv == ASSUME IInv, NEW t \in Threads, ReleasePatterns(t) PROVE IInv'
<1>1. TypeOK /\ undefined = NoThread /\ pc[t] = "release" /\ StoreAt(t)
  BY WriterAt DEF ReleasePatterns, Writing
<1>2. Whole /\ offset \in Nat
  BY <1>1 DEF StoreAt, TypeOK
<1>3. \A i \in 1 .. offset : Valid(items, i) /\ array[items][i] \in Providers
  BY <1>1, <1>2 DEF Whole, Holds, Valid
<1> DEFINE new == [i \in DOMAIN array[items] |-> IF i <= offset THEN Dead ELSE array[items][i]]
<1>4. /\ array' = IF offset = 0 THEN array ELSE [array EXCEPT ![items] = new]
      /\ pc' = [pc EXCEPT ![t] = "reset"]
      /\ UNCHANGED <<items, size, offset, leaked, todo, local>>
      /\ UNCHANGED <<snap, index, result, overlapped, undefined>>
  BY <1>3 DEF ReleasePatterns, Goto, loading, cleaning
<1>5. offset # 0 => items \in Arrays /\ array[items] # Freed /\ new \in Seq(Slots)
  <2> SUFFICES ASSUME offset # 0
               PROVE  items \in Arrays /\ array[items] # Freed /\ new \in Seq(Slots)
    OBVIOUS
  <2>1. items \in Arrays /\ array[items] # Freed
    BY <1>2 DEF Whole, Holds
  <2>2. array[items] \in Seq(Slots)
    BY <1>1, <2>1, BlockType
  <2>3. Dead \in Slots
    BY DEF Slots
  <2>4. new \in [1 .. Len(array[items]) -> Slots] /\ Len(array[items]) \in Nat
    BY <2>2, <2>3
  <2> QED
    BY <2>1, <2>4
<1> HIDE DEF new
<1>6. array' \in [Arrays -> Seq(Slots) \cup {Freed}]
  BY <1>1, <1>4, <1>5 DEF TypeOK
<1>7. Only(items)' /\ (items' # Null => array'[items'] # Freed)
  BY <1>1, <1>2, <1>4, <1>5 DEF TypeOK, Whole, Only, Holds
<1>8. Emptied'
  <2>1. CASE offset = 0
    BY <1>2, <1>4, <1>7, <2>1 DEF Whole, Holds, Emptied
  <2>2. CASE offset # 0
    <3>1. items \in Arrays /\ array'[items] = new
      BY <1>1, <1>4, <1>5, <2>2 DEF TypeOK
    <3>2. DOMAIN array[items] = 1 .. offset
      BY <1>1, <1>2, <2>2, BlockType DEF Whole, Holds
    <3>3. DOMAIN new = 1 .. offset /\ \A i \in 1 .. offset : new[i] = Dead
      BY <1>2, <3>2 DEF new
    <3>4. Len(new) = offset
      BY <1>2, <1>5, <2>2, <3>3
    <3> QED
      BY <1>4, <1>7, <3>1, <3>3, <3>4, StoreAssumption DEF Emptied
  <2> QED
    BY <2>1, <2>2
<1>9. pc'[t] = "reset" => StoreAt(t)'
  BY <1>2, <1>4, <1>7, <1>8 DEF StoreAt, Whole
<1> QED
  BY <1>1, <1>4, <1>6, <1>9, WriterGoesOn DEF TypeOK, Writing

LEMMA ResetCountsInv == ASSUME IInv, NEW t \in Threads, ResetCounts(t) PROVE IInv'
<1>1. TypeOK /\ undefined = NoThread /\ pc[t] = "reset" /\ StoreAt(t)
  BY WriterAt DEF ResetCounts, Writing
<1>2. /\ pc' = [pc EXCEPT ![t] = "free"] /\ offset' = 0 /\ size' = 0
      /\ UNCHANGED <<items, array, leaked, todo, local>>
      /\ UNCHANGED <<snap, index, result, overlapped, undefined>>
  BY DEF ResetCounts, Goto, loading, cleaning
<1>3. pc'[t] = "free" => StoreAt(t)'
  BY <1>1, <1>2 DEF StoreAt, Only, Emptied
<1> QED
  BY <1>1, <1>2, <1>3, WriterGoesOn DEF TypeOK, Writing

LEMMA FreeItemsInv == ASSUME IInv, NEW t \in Threads, FreeItems(t) PROVE IInv'
<1>1. TypeOK /\ undefined = NoThread /\ pc[t] = "free" /\ StoreAt(t)
  BY WriterAt DEF FreeItems, Writing
<1>2. size = 0 /\ offset = 0 /\ Only(items) /\ Emptied
  BY <1>1 DEF StoreAt
<1>3. /\ array' = [a \in Arrays |-> IF a = items THEN Freed ELSE array[a]]
      /\ leaked' = leaked \cup [of : LiveIn(items), by : {"unload"}]
      /\ items' = Null /\ Return(t, "success") /\ UNCHANGED <<size, offset>>
  BY <1>2 DEF FreeItems, Emptied
<1>4. LiveIn(items) = {}
  <2>1. items # Null => DOMAIN array[items] = 1 .. Len(array[items])
    BY <1>1, <1>2, BlockType DEF TypeOK, Emptied
  <2> QED
    BY <1>2, <2>1 DEF LiveIn, Emptied
<1>5. leaked' = leaked
  BY <1>3, <1>4
<1>6. TypeOK'
  BY <1>1, <1>3, <1>5, ReturnTyped DEF TypeOK
<1>7. Whole'
  BY <1>2, <1>3 DEF Whole, Only
<1>8. LeaksOfLoads'
  BY <1>5 DEF IInv, LeaksOfLoads
<1> QED
  BY <1>1, <1>3, <1>6, <1>7, <1>8, WriterReturns DEF Writing

(* A unalix_clean_url goes on to its next step.                               *)
LEMMA ReaderGoesOn ==
    ASSUME IInv, UNCHANGED store, NEW t \in Threads, pc[t] \notin Writing, Running,
           NEW stage \in Reading, pc' = [pc EXCEPT ![t] = stage],
           UNCHANGED <<todo, local, result, undefined>>,
           overlapped' \in [Threads -> BOOLEAN],
           \A u \in Threads : u # t => /\ overlapped'[u] = overlapped[u]
                                       /\ snap'[u] = snap[u] /\ index'[u] = index[u],
           snap' \in [Threads -> [items : Arrays \cup {Null}, offset : Nat]],
           index' \in [Threads -> Nat],
           ~overlapped'[t] =>
              /\ Writers = {}
              /\ stage \in {"snapItems", "scan"} => snap'[t].offset = offset
              /\ stage = "scan" => snap'[t].items = items /\ index'[t] >= 1 /\ offset >= 1
    PROVE  IInv'
<1>1. TypeOK'
  <2>1. pc' \in [Threads -> Writing \cup Reading \cup {"idle"}]
    BY DEF IInv, TypeOK
  <2>2. UNCHANGED <<items, size, offset, array, leaked>>
    BY DEF store
  <2> QED
    BY <2>1, <2>2 DEF IInv, TypeOK
<1>2. stage \notin Writing
  BY DEF Reading, Writing
<1>3. /\ Writers' = Writers /\ OneWriter'
      /\ Writers' = {} => Whole'
      /\ \A u \in Writers' : StoreAt(u)'
  BY <1>2, ReaderStep
<1>4. SeesStore'
  <2>1. pc'[t] = stage /\ \A u \in Threads : u # t => pc'[u] = pc[u]
    BY DEF IInv, TypeOK
  <2>2. UNCHANGED <<items, offset>>
    BY DEF store
  <2> SUFFICES ASSUME NEW u \in Threads, pc'[u] \in Reading, ~overlapped'[u]
               PROVE  /\ Writers' = {}
                      /\ pc'[u] \in {"snapItems", "scan"} => snap'[u].offset = offset'
                      /\ pc'[u] = "scan" => snap'[u].items = items' /\ index'[u] >= 1 /\ offset' >= 1
    BY DEF SeesStore
  <2>3. CASE u = t
    BY <1>3, <2>1, <2>2, <2>3
  <2>4. CASE u # t
    BY <1>3, <2>1, <2>2, <2>4 DEF IInv, SeesStore
  <2> QED
    BY <2>3, <2>4
<1>5. Sharing'
  BY DEF Sharing, Running
<1> QED
  BY <1>1, <1>3, <1>4, <1>5 DEF IInv, LeaksOfLoads, store

LEMMA ReaderReturns ==
    ASSUME IInv, UNCHANGED store, NEW t \in Threads, pc[t] \in Reading, Running,
           NEW r \in {"success", "empty"}, Return(t, r)
    PROVE  IInv'
<1>1. TypeOK'
  <2>1. TypeOK /\ UNCHANGED <<items, size, offset, array, leaked>>
    BY DEF IInv, store
  <2>2. /\ items' \in Arrays \cup {Null} /\ size' \in Nat /\ offset' \in Nat
        /\ array' \in [Arrays -> Seq(Slots) \cup {Freed}] /\ leaked' \subseteq Leaks
    BY <2>1 DEF TypeOK
  <2> QED
    BY <2>1, <2>2, ReturnTyped
<1>2. pc' = [pc EXCEPT ![t] = "idle"] /\ pc[t] \notin Writing /\ "idle" \notin Writing
  BY DEF Return, Reading, Writing
<1>3. \A u \in Threads : u # t => /\ todo'[u] = todo[u] /\ local'[u] = local[u]
                                  /\ snap'[u] = snap[u] /\ index'[u] = index[u]
                                  /\ pc'[u] = pc[u] /\ overlapped'[u] = overlapped[u]
  BY DEF Return, IInv, TypeOK
<1>4. /\ Writers' = Writers /\ OneWriter'
      /\ Writers' = {} => Whole'
      /\ \A u \in Writers' : StoreAt(u)'
  BY <1>2, <1>3, ReaderStep
<1>5. pc'[t] \notin Reading
  BY <1>2 DEF IInv, TypeOK, Reading
<1>6. SeesStore'
  BY <1>3, <1>4, <1>5 DEF IInv, SeesStore, store
<1>7. Sharing'
  BY DEF Sharing, Running, Return
<1> QED
  BY <1>1, <1>4, <1>6, <1>7 DEF IInv, LeaksOfLoads, store

LEMMA CleanBeginInv == ASSUME IInv, NEW t \in Threads, CleanBegin(t) PROVE IInv'
<1>1. /\ Running /\ pc[t] = "idle" /\ pc' = [pc EXCEPT ![t] = "snapOffset"]
      /\ overlapped' = [w \in Threads |-> IF w = t THEN Writers # {} ELSE overlapped[w]]
      /\ UNCHANGED store
      /\ UNCHANGED <<todo, local, snap, index, result, undefined>>
  <2>1. "snapOffset" \notin Writing
    BY DEF Writing
  <2>2. \A w \in Threads : overlapped[w] \in BOOLEAN
    BY DEF IInv, TypeOK
  <2> QED
    BY <2>1, <2>2 DEF CleanBegin, Begin, loading, cleaning
<1>2. overlapped' \in [Threads -> BOOLEAN]
  BY <1>1 DEF IInv, TypeOK
<1>3. ~overlapped'[t] => Writers = {}
  BY <1>1
<1>4. "snapOffset" \in Reading /\ "idle" \notin Writing
  BY DEF Reading, Writing
<1> QED
  BY <1>1, <1>2, <1>3, <1>4, ReaderGoesOn DEF IInv, TypeOK

LEMMA SnapOffsetInv == ASSUME IInv, NEW t \in Threads, SnapOffset(t) PROVE IInv'
<1>1. /\ Running /\ pc[t] = "snapOffset" /\ pc' = [pc EXCEPT ![t] = "snapItems"]
      /\ snap' = [snap EXCEPT ![t] = [@ EXCEPT !.offset = offset]]
      /\ UNCHANGED store
      /\ UNCHANGED <<todo, local, index, result, overlapped, undefined>>
  BY DEF SnapOffset, At, Goto, loading
<1>2. pc[t] \in Reading /\ pc[t] \notin Writing /\ "snapItems" \in Reading
  BY <1>1 DEF Reading, Writing
<1>3. ~overlapped'[t] => Writers = {}
  BY <1>1, <1>2 DEF IInv, SeesStore
<1>4. /\ snap' \in [Threads -> [items : Arrays \cup {Null}, offset : Nat]]
      /\ snap'[t].offset = offset /\ \A u \in Threads : u # t => snap'[u] = snap[u]
  <2> DEFINE copy == [snap[t] EXCEPT !.offset = offset]
  <2>1. /\ snap \in [Threads -> [items : Arrays \cup {Null}, offset : Nat]]
        /\ snap' = [snap EXCEPT ![t] = copy]
    BY <1>1 DEF IInv, TypeOK
  <2>2. copy \in [items : Arrays \cup {Null}, offset : Nat] /\ copy.offset = offset
    <3>1. offset \in Nat
      BY DEF IInv, TypeOK
    <3> QED
      BY <2>1, <3>1
  <2> HIDE DEF copy
  <2> QED
    BY <2>1, <2>2
<1> QED
  BY <1>1, <1>2, <1>3, <1>4, ReaderGoesOn DEF IInv, TypeOK

LEMMA SnapItemsInv == ASSUME IInv, NEW t \in Threads, SnapItems(t) PROVE IInv'
<1>1. Running /\ pc[t] = "snapItems" /\ UNCHANGED store
  BY DEF SnapItems, At
<1>2. pc[t] \in Reading /\ pc[t] \notin Writing /\ "scan" \in Reading
  BY <1>1 DEF Reading, Writing
<1>3. CASE snap[t].offset < 1
  BY <1>1, <1>2, <1>3, ReaderReturns DEF SnapItems
<1>4. CASE ~ (snap[t].offset < 1)
  <2>1. /\ pc' = [pc EXCEPT ![t] = "scan"]
        /\ snap' = [snap EXCEPT ![t] = [@ EXCEPT !.items = items]]
        /\ index' = [index EXCEPT ![t] = 1]
        /\ UNCHANGED <<todo, local, result, overlapped, undefined>>
    BY <1>4 DEF SnapItems, Goto, loading
  <2>2. /\ snap' \in [Threads -> [items : Arrays \cup {Null}, offset : Nat]]
        /\ snap'[t].items = items /\ snap'[t].offset = snap[t].offset
        /\ \A u \in Threads : u # t => snap'[u] = snap[u]
    <3> DEFINE copy == [snap[t] EXCEPT !.items = items]
    <3>1. /\ snap \in [Threads -> [items : Arrays \cup {Null}, offset : Nat]]
          /\ snap' = [snap EXCEPT ![t] = copy]
      BY <2>1 DEF IInv, TypeOK
    <3>2. /\ copy \in [items : Arrays \cup {Null}, offset : Nat]
          /\ copy.items = items /\ copy.offset = snap[t].offset
      <4>1. items \in Arrays \cup {Null}
        BY DEF IInv, TypeOK
      <4> QED
        BY <3>1, <4>1
    <3> HIDE DEF copy
    <3> QED
      BY <3>1, <3>2
  <2>3. /\ index' \in [Threads -> Nat] /\ index'[t] = 1
        /\ \A u \in Threads : u # t => index'[u] = index[u]
    BY <2>1 DEF IInv, TypeOK
  <2>4. ~overlapped[t] => Writers = {} /\ snap[t].offset = offset
    BY <1>1, <1>2 DEF IInv, SeesStore
  <2>5. snap[t].offset \in Nat
    BY DEF IInv, TypeOK
  <2>6. ~overlapped'[t] => /\ Writers = {} /\ snap'[t].offset = offset /\ snap'[t].items = items
                           /\ index'[t] >= 1 /\ offset >= 1
    BY <1>4, <2>1, <2>2, <2>3, <2>4, <2>5
  <2>7. overlapped' \in [Threads -> BOOLEAN] /\ \A u \in Threads : overlapped'[u] = overlapped[u]
    BY <2>1 DEF IInv, TypeOK
  <2> QED
    BY <1>1, <1>2, <2>1, <2>2, <2>3, <2>6, <2>7, ReaderGoesOn
<1> QED
  BY <1>3, <1>4

(* A call that reads what is not there has been overlapped: one that has not *)
(* holds a copy of the struct as it is, and the struct is whole.             *)
LEMMA ScanRulesetInv == ASSUME IInv, NEW t \in Threads, ScanRuleset(t) PROVE IInv'
<1>1. Running /\ pc[t] = "scan" /\ index[t] <= snap[t].offset
  BY DEF ScanRuleset, At
<1>2. pc[t] \in Reading /\ pc[t] \notin Writing
  BY <1>1 DEF Reading, Writing
<1>3. ~overlapped[t] => /\ Writers = {} /\ snap[t].offset = offset /\ snap[t].items = items
                        /\ index[t] >= 1 /\ offset >= 1
  BY <1>1, <1>2 DEF IInv, SeesStore
<1> DEFINE bad == \/ ~Valid(snap[t].items, index[t])
                  \/ array[snap[t].items][index[t]] \notin Providers
<1>4. CASE bad
  <2>1. undefined' = t /\ UNCHANGED <<store, loading, cleaning, pc, result, overlapped>>
    BY <1>4 DEF ScanRuleset, Undefined
  <2>2. overlapped[t]
    <3> SUFFICES ASSUME ~overlapped[t] PROVE FALSE
      BY DEF IInv, TypeOK
    <3>1. /\ Whole /\ offset \in Nat /\ offset >= 1 /\ index[t] \in 1 .. offset
          /\ snap[t].items = items
      BY <1>1, <1>3 DEF IInv, TypeOK
    <3>2. /\ items # Null /\ array[items] # Freed /\ Len(array[items]) = offset
          /\ array[items][index[t]] \in Providers
      BY <3>1 DEF Whole, Holds
    <3> QED
      BY <1>4, <3>1, <3>2 DEF Valid
  <2>3. UNCHANGED <<items, size, offset, array, leaked>> /\ UNCHANGED <<pc, todo, local, snap, index, result, overlapped>>
    BY <2>1 DEF store, loading, cleaning
  <2>4. TypeOK'
    BY <2>1, <2>3 DEF IInv, TypeOK
  <2>5. Writers' = Writers /\ (Whole => Whole') /\ \A u \in Threads : StoreAt(u) => StoreAt(u)'
    BY <2>3 DEF Writers, Whole, StoreAt, Emptied, Only, Holds
  <2>6. OneWriter' /\ SeesStore'
    BY <2>3, <2>5 DEF IInv, OneWriter, SeesStore
  <2>7. Sharing'
    BY <1>2, <2>1, <2>2, <2>3 DEF Sharing
  <2>8. \A u \in Writers' : StoreAt(u)'
    BY <2>5 DEF IInv, Writers
  <2> QED
    BY <2>3, <2>4, <2>5, <2>6, <2>7, <2>8 DEF IInv, LeaksOfLoads
<1>5. CASE ~bad /\ index' = [index EXCEPT ![t] = @ + 1]
                /\ UNCHANGED <<pc, result, overlapped, undefined>> /\ UNCHANGED <<store, loading, snap>>
  <2>1. UNCHANGED store /\ UNCHANGED <<todo, local, snap>>
    BY <1>5 DEF loading
  <2>2. pc' = [pc EXCEPT ![t] = "scan"] /\ "scan" \in Reading
    BY <1>1, <1>5 DEF IInv, TypeOK, Reading
  <2>3. /\ index' \in [Threads -> Nat] /\ index'[t] = index[t] + 1
        /\ \A u \in Threads : u # t => index'[u] = index[u]
    BY <1>5 DEF IInv, TypeOK
  <2>4. /\ overlapped' \in [Threads -> BOOLEAN] /\ overlapped' = overlapped
        /\ snap' \in [Threads -> [items : Arrays \cup {Null}, offset : Nat]] /\ snap' = snap
    BY <1>5, <2>1 DEF IInv, TypeOK
  <2>5. index[t] \in Nat
    BY DEF IInv, TypeOK
  <2>6. ~overlapped'[t] => /\ Writers = {} /\ snap'[t].offset = offset /\ snap'[t].items = items
                           /\ index'[t] >= 1 /\ offset >= 1
    BY <1>3, <2>3, <2>4, <2>5
  <2> QED
    BY <1>1, <1>2, <1>5, <2>1, <2>2, <2>3, <2>4, <2>6, ReaderGoesOn
<1>6. CASE ~bad /\ Goto(t, "snapOffset") /\ UNCHANGED index /\ UNCHANGED <<store, loading, snap>>
  <2>1. UNCHANGED store /\ UNCHANGED <<todo, local, snap, index, result, overlapped, undefined>>
        /\ pc' = [pc EXCEPT ![t] = "snapOffset"]
    BY <1>6 DEF loading, Goto
  <2>2. "snapOffset" \in Reading
    BY DEF Reading
  <2>3. ~overlapped'[t] => Writers = {}
    BY <1>3, <2>1
  <2>4. /\ overlapped' \in [Threads -> BOOLEAN] /\ index' \in [Threads -> Nat]
        /\ snap' \in [Threads -> [items : Arrays \cup {Null}, offset : Nat]]
    BY <2>1 DEF IInv, TypeOK
  <2> QED
    BY <1>1, <1>2, <2>1, <2>2, <2>3, <2>4, ReaderGoesOn
<1> QED
  BY <1>4, <1>5, <1>6 DEF ScanRuleset

LEMMA CleanEndInv == ASSUME IInv, NEW t \in Threads, CleanEnd(t) PROVE IInv'
<1>1. Running /\ pc[t] = "scan" /\ Return(t, "success") /\ UNCHANGED store
  BY DEF CleanEnd, At
<1>2. pc[t] \in Reading
  BY <1>1 DEF Reading
<1> QED
  BY <1>1, <1>2, ReaderReturns

-------------------------------------------------------------------------------
(* Nothing happens                                                            *)
LEMMA StutterInv == IInv /\ UNCHANGED vars => IInv'
<1> SUFFICES ASSUME IInv, UNCHANGED vars PROVE IInv'
  OBVIOUS
<1>1. /\ UNCHANGED <<items, size, offset, array, leaked>>
      /\ UNCHANGED <<pc, todo, local, snap, index, result, overlapped, undefined>>
  BY DEF vars, store, loading, cleaning
<1>2. TypeOK' /\ Writers' = Writers /\ Sharing'
  BY <1>1 DEF IInv, TypeOK, Writers, Sharing
<1>3. (Whole => Whole') /\ \A u \in Threads : StoreAt(u) => StoreAt(u)'
  BY <1>1 DEF Whole, StoreAt, Emptied, Only, Holds
<1>4. OneWriter' /\ SeesStore' /\ \A u \in Writers' : StoreAt(u)'
  BY <1>1, <1>2, <1>3 DEF IInv, OneWriter, SeesStore, Writers
<1> QED
  BY <1>1, <1>2, <1>3, <1>4 DEF IInv, LeaksOfLoads

(* The store is as each stage of a load or an unload expects it, and a        *)
(* unalix_clean_url that none of them overlaps holds a true copy of it        *)
(* (ruleset.c:86-281, clean_url.c:52-69).                                     *)
THEOREM StoreAsExpected == Spec => []IInv
<1>1. Init => IInv
  BY InitInv
<1>2. IInv /\ [Next]_vars => IInv'
  <2> SUFFICES ASSUME IInv, [Next]_vars PROVE IInv'
    OBVIOUS
  <2>1. CASE UNCHANGED vars
    BY <2>1, StutterInv
  <2>2. ASSUME NEW t \in Threads, Load(t) PROVE IInv'
    BY <2>2, LoadBeginInv, SkipProviderInv, LoadFailedInv, CompileProviderInv, GrowInv,
       PublishInv, AppendRulesetInv, LoadEndInv DEF Load
  <2>3. ASSUME NEW t \in Threads, Unload(t) PROVE IInv'
    BY <2>3, UnloadBeginInv, ReleasePatternsInv, ResetCountsInv, FreeItemsInv DEF Unload
  <2>4. ASSUME NEW t \in Threads, Clean(t) PROVE IInv'
    BY <2>4, CleanBeginInv, SnapOffsetInv, SnapItemsInv, ScanRulesetInv, CleanEndInv DEF Clean
  <2> QED
    BY <2>1, <2>2, <2>3, <2>4 DEF Next
<1> QED
  BY <1>1, <1>2, PTL DEF Spec

(* Only a unalix_clean_url that a load or an unload has overlapped can touch  *)
(* memory that is not there any more; no load or unload ever does, and no     *)
(* later call (ruleset.c:225-281, clean_url.c:52-69).                         *)
THEOREM OnlyOverlappedReads == Spec => []Sharing
BY StoreAsExpected, PTL DEF IInv

(* Between loads and unloads the store has its offset of live rulesets in a   *)
(* block of that size, and there is no other such block, however the last     *)
(* load ended (ruleset.c:225-236, 275-279).  The patterns that are allocated  *)
(* without being in the store are those of a provider at which a load failed, *)
(* over which ruleset.c:131-232 returns; no unload loses any.                 *)
THEOREM StoreSound == Spec => []StoreAtRest
<1>1. IInv => StoreAtRest
  <2> SUFFICES ASSUME IInv, Writers = {}
               PROVE  /\ size = offset /\ Len(Stored) = offset
                      /\ \A i \in 1 .. offset : Stored[i] \in Providers
                      /\ \A a \in Arrays : a = items \/ array[a] = Freed
                      /\ items # Null => array[items] # Freed /\ Len(array[items]) = size
    BY DEF StoreAtRest, IInv
  <2>1. Whole /\ offset \in Nat
    BY DEF IInv, TypeOK
  <2>2. CASE items = Null
    BY <2>1, <2>2 DEF Whole, Only, Stored, Contents
  <2>3. CASE items # Null
    <3>1. Holds(items, offset, offset) /\ array[items] \in Seq(Slots) /\ Len(array[items]) = offset
      BY <2>1, <2>3, BlockType DEF IInv, Whole, Holds
    <3>2. Stored = SubSeq(array[items], 1, offset)
      BY <2>1, <2>3, <3>1 DEF Stored, Contents, Holds
    <3>3. Len(Stored) = offset /\ \A i \in 1 .. offset : Stored[i] = array[items][i]
      BY <2>1, <3>1, <3>2
    <3> QED
      BY <2>1, <2>3, <3>1, <3>3 DEF Whole, Only, Holds
  <2> QED
    BY <2>2, <2>3
<1> QED
  BY <1>1, StoreAsExpected, PTL

-------------------------------------------------------------------------------
(* What Used says of a document.  A recursive function is a choice, and has    *)
(* to be shown to exist: a nonempty set of naturals has a least element, so   *)
(* there is a function for the documents of up to n providers, for every n.   *)
(* What Used says of document d, given what f says of the rest of d *)
FromRest(f, d) ==
    IF d = <<>> THEN <<>>
    ELSE IF Enabled(Head(d)) THEN <<Head(d)>> \o f[Tail(d)]
    ELSE f[Tail(d)]

(* The documents of at most n providers *)
UpTo(n) == {d \in Seq(Providers) : Len(d) <= n}

(* f is Used on those documents *)
UsedUpTo(f, n) ==
    f \in [UpTo(n) -> Seq(Providers)] /\ \A d \in UpTo(n) : f[d] = FromRest(f, d)

LEMMA RestIsShorter ==
    ASSUME NEW d \in Seq(Providers), d # <<>>
    PROVE  /\ Head(d) \in Providers /\ Tail(d) \in Seq(Providers)
           /\ Len(d) \in Nat /\ Len(d) > 0 /\ Len(Tail(d)) = Len(d) - 1
OBVIOUS

LEMMA UsedUpToExists == \A n \in Nat : \E f : UsedUpTo(f, n)
<1> DEFINE T == {n \in Nat : ~ \E f : UsedUpTo(f, n)}
<1> SUFFICES ASSUME T # {} PROVE FALSE
  OBVIOUS
<1>1. PICK n \in T : \A m \in T : n <= m
  <2>1. T \in SUBSET Nat
    OBVIOUS
  <2> QED
    BY <2>1, Least
<1>2. n # 0
  <2> SUFFICES ASSUME n = 0 PROVE FALSE
    OBVIOUS
  <2> DEFINE f == [d \in UpTo(0) |-> <<>>]
  <2>1. \A d \in UpTo(0) : d = <<>>
    BY DEF UpTo
  <2>2. UsedUpTo(f, 0)
    BY <2>1 DEF UsedUpTo, FromRest
  <2> QED
    BY <1>1, <2>2
<1>3. n \in Nat /\ n - 1 \in Nat /\ n - 1 \notin T
  BY <1>1, <1>2
<1>4. PICK f : UsedUpTo(f, n - 1)
  BY <1>3
<1> DEFINE g == [d \in UpTo(n) |-> FromRest(f, d)]
<1>5. \A d \in UpTo(n) : d # <<>> => /\ Tail(d) \in UpTo(n - 1) /\ Tail(d) \in UpTo(n)
                                    /\ Head(d) \in Providers
  BY <1>3, RestIsShorter DEF UpTo
<1>6. \A d \in UpTo(n) : FromRest(f, d) \in Seq(Providers)
  <2> TAKE d \in UpTo(n)
  <2>1. d # <<>> => f[Tail(d)] \in Seq(Providers) /\ Head(d) \in Providers
    BY <1>4, <1>5 DEF UsedUpTo
  <2>2. d # <<>> => <<Head(d)>> \in Seq(Providers) /\ <<Head(d)>> \o f[Tail(d)] \in Seq(Providers)
    BY <2>1
  <2> QED
    BY <2>1, <2>2 DEF FromRest
<1>7. \A e \in UpTo(n - 1) : e \in UpTo(n) /\ g[e] = f[e]
  <2>1. \A e \in UpTo(n - 1) : e \in UpTo(n)
    BY <1>3 DEF UpTo
  <2> QED
    BY <1>4, <2>1 DEF UsedUpTo
<1>8. \A d \in UpTo(n) : g[d] = FromRest(g, d)
  <2> TAKE d \in UpTo(n)
  <2>1. g[d] = FromRest(f, d)
    OBVIOUS
  <2>2. d # <<>> => g[Tail(d)] = f[Tail(d)]
    BY <1>5, <1>7
  <2> HIDE DEF g
  <2> QED
    BY <2>1, <2>2 DEF FromRest
<1>9. UsedUpTo(g, n)
  BY <1>6, <1>8 DEF UsedUpTo
<1> QED
  BY <1>1, <1>9

LEMMA UsedUpToAgree ==
    ASSUME NEW m \in Nat, NEW n \in Nat, NEW f, NEW g, UsedUpTo(f, m), UsedUpTo(g, n),
           NEW d \in Seq(Providers), Len(d) <= m, Len(d) <= n
    PROVE  f[d] = g[d]
<1> DEFINE Differ == {e \in Seq(Providers) : Len(e) <= m /\ Len(e) <= n /\ f[e] # g[e]}
           T == {k \in Nat : \E e \in Differ : Len(e) = k}
<1> SUFFICES ASSUME d \in Differ PROVE FALSE
  OBVIOUS
<1>1. T \in SUBSET Nat /\ Len(d) \in T
  OBVIOUS
<1>2. PICK k \in T : \A j \in T : k <= j
  <2> HIDE DEF T
  <2> QED
    BY <1>1, Least
<1>3. PICK e \in Differ : Len(e) = k
  BY <1>2
<1>4. e \in UpTo(m) /\ e \in UpTo(n) /\ f[e] # g[e] /\ e \in Seq(Providers)
  BY <1>3 DEF UpTo
<1>5. e # <<>>
  BY <1>4 DEF UsedUpTo, FromRest
<1>6. Tail(e) \in Seq(Providers) /\ Len(Tail(e)) = Len(e) - 1 /\ Len(Tail(e)) \in Nat
  BY <1>4, <1>5, RestIsShorter
<1>7. Len(Tail(e)) \notin T
  BY <1>2, <1>3, <1>6
<1>8. f[Tail(e)] = g[Tail(e)]
  <2>1. Tail(e) \notin Differ
    BY <1>6, <1>7
  <2>2. Len(e) \in Nat /\ Len(e) <= m /\ Len(e) <= n
    BY <1>3
  <2>3. Len(Tail(e)) <= m /\ Len(Tail(e)) <= n
    BY <1>6, <2>2
  <2> QED
    BY <1>6, <2>1, <2>3
<1> QED
  BY <1>4, <1>5, <1>8 DEF UsedUpTo, FromRest

LEMMA UsedUnfolds == Used = [d \in Seq(Providers) |-> FromRest(Used, d)]
<1> DEFINE Approx(d) == CHOOSE f : UsedUpTo(f, Len(d))
           U == [d \in Seq(Providers) |-> Approx(d)[d]]
<1>1. \A d \in Seq(Providers) : UsedUpTo(Approx(d), Len(d))
  BY UsedUpToExists
<1> HIDE DEF Approx
<1>2. \A d \in Seq(Providers) : U[d] = FromRest(U, d)
  <2> TAKE d \in Seq(Providers)
  <2>1. U[d] = FromRest(Approx(d), d)
    <3>1. UsedUpTo(Approx(d), Len(d)) /\ d \in UpTo(Len(d))
      BY <1>1 DEF UpTo
    <3> QED
      BY <3>1 DEF UsedUpTo
  <2>2. d # <<>> => U[Tail(d)] = Approx(d)[Tail(d)]
    <3> SUFFICES ASSUME d # <<>> PROVE U[Tail(d)] = Approx(d)[Tail(d)]
      OBVIOUS
    <3>1. /\ Tail(d) \in Seq(Providers) /\ Len(Tail(d)) \in Nat /\ Len(d) \in Nat
          /\ Len(Tail(d)) <= Len(d) /\ Len(Tail(d)) <= Len(Tail(d))
      BY RestIsShorter
    <3>2. UsedUpTo(Approx(Tail(d)), Len(Tail(d))) /\ UsedUpTo(Approx(d), Len(d))
      BY <1>1, <3>1
    <3>3. ASSUME NEW f, NEW g, NEW e \in Seq(Providers), e = Tail(d),
                 UsedUpTo(f, Len(e)), UsedUpTo(g, Len(d))
          PROVE  f[e] = g[e]
      <4>1. Len(e) \in Nat /\ Len(d) \in Nat /\ Len(e) <= Len(e) /\ Len(e) <= Len(d)
        BY <3>1, <3>3
      <4>2. UsedUpTo(f, Len(e)) /\ UsedUpTo(g, Len(d)) /\ e \in Seq(Providers)
        BY <3>3
      <4>3. \A m, n \in Nat : \A h, k : \A x \in Seq(Providers) :
               UsedUpTo(h, m) /\ UsedUpTo(k, n) /\ Len(x) <= m /\ Len(x) <= n => h[x] = k[x]
        BY UsedUpToAgree
      <4>4. \A h, k : \A x \in Seq(Providers) :
               UsedUpTo(h, Len(e)) /\ UsedUpTo(k, Len(d)) /\ Len(x) <= Len(e) /\ Len(x) <= Len(d) => h[x] = k[x]
        BY <4>1, <4>3
      <4>5. \A x \in Seq(Providers) :
               UsedUpTo(f, Len(e)) /\ UsedUpTo(g, Len(d)) /\ Len(x) <= Len(e) /\ Len(x) <= Len(d) => f[x] = g[x]
        BY <4>4
      <4> QED
        BY <4>1, <4>2, <4>5
    <3>4. Approx(Tail(d))[Tail(d)] = Approx(d)[Tail(d)]
      BY <3>1, <3>2, <3>3
    <3> QED
      BY <3>1, <3>4
  <2> HIDE DEF U
  <2> QED
    BY <2>1, <2>2 DEF FromRest
<1>3. U = [d \in Seq(Providers) |-> FromRest(U, d)]
  BY <1>2
<1> HIDE DEF U
<1> QED
  BY <1>3 DEF Used, FromRest

LEMMA UsedType == \A d \in Seq(Providers) : Used[d] \in Seq(Providers)
<1> DEFINE Untyped == {e \in Seq(Providers) : Used[e] \notin Seq(Providers)}
           T == {k \in Nat : \E e \in Untyped : Len(e) = k}
<1> SUFFICES ASSUME NEW d \in Untyped PROVE FALSE
  OBVIOUS
<1>1. T \in SUBSET Nat /\ Len(d) \in T
  OBVIOUS
<1>2. PICK k \in T : \A j \in T : k <= j
  <2> HIDE DEF T
  <2> QED
    BY <1>1, Least
<1>3. PICK e \in Untyped : Len(e) = k
  BY <1>2
<1>4. e # <<>>
  BY <1>3, UsedUnfolds DEF FromRest
<1>5. Tail(e) \in Seq(Providers) /\ Len(Tail(e)) = Len(e) - 1 /\ Len(Tail(e)) \in Nat /\ Head(e) \in Providers
  BY <1>4, RestIsShorter
<1>6. Len(Tail(e)) \notin T
  BY <1>2, <1>3, <1>5
<1>7. Used[Tail(e)] \in Seq(Providers)
  BY <1>5, <1>6
<1>8. <<Head(e)>> \o Used[Tail(e)] \in Seq(Providers)
  BY <1>5, <1>7
<1> QED
  BY <1>3, <1>4, <1>7, <1>8, UsedUnfolds DEF FromRest

LEMMA UsedOfNone == Used[<<>>] = <<>> /\ Sound(<<>>)
<1>1. <<>> \in Seq(Providers)
  OBVIOUS
<1> QED
  BY <1>1, UsedUnfolds DEF FromRest, Sound

LEMMA UsedOfMore ==
    ASSUME NEW d \in Seq(Providers), d # <<>>
    PROVE  /\ Enabled(Head(d)) => Used[d] # <<>> /\ Head(Used[d]) = Head(d) /\ Tail(Used[d]) = Used[Tail(d)]
           /\ ~Enabled(Head(d)) => Used[d] = Used[Tail(d)]
           /\ Kind[Head(d)] # "invalid" => (Sound(d) <=> Sound(Tail(d)))
<1>1. Used[d] = IF Enabled(Head(d)) THEN <<Head(d)>> \o Used[Tail(d)] ELSE Used[Tail(d)]
  BY UsedUnfolds DEF FromRest
<1>2. Head(d) \in Providers /\ Tail(d) \in Seq(Providers) /\ Used[Tail(d)] \in Seq(Providers)
  BY RestIsShorter, UsedType
<1>3. Enabled(Head(d)) => Used[d] # <<>> /\ Head(Used[d]) = Head(d) /\ Tail(Used[d]) = Used[Tail(d)]
  BY <1>1, <1>2
<1>4. Kind[Head(d)] # "invalid" => (Sound(d) <=> Sound(Tail(d)))
  <2> SUFFICES ASSUME Kind[Head(d)] # "invalid" PROVE Sound(d) <=> Sound(Tail(d))
    OBVIOUS
  <2>1. /\ \A i \in DOMAIN Tail(d) : i + 1 \in DOMAIN d /\ d[i + 1] = Tail(d)[i]
        /\ \A i \in DOMAIN d : i = 1 \/ (i - 1 \in DOMAIN Tail(d) /\ Tail(d)[i - 1] = d[i])
        /\ Head(d) = d[1]
    OBVIOUS
  <2>2. ASSUME Sound(d) PROVE Sound(Tail(d))
    BY <2>1, <2>2 DEF Sound
  <2>3. ASSUME Sound(Tail(d)) PROVE Sound(d)
    <3> SUFFICES ASSUME NEW i \in DOMAIN d PROVE Kind[d[i]] # "invalid"
      BY DEF Sound
    <3>1. CASE i = 1
      BY <2>1, <3>1
    <3>2. CASE i # 1
      <4>1. i - 1 \in DOMAIN Tail(d) /\ Tail(d)[i - 1] = d[i]
        BY <2>1, <3>2
      <4> QED
        BY <2>3, <4>1, Zenon DEF Sound
    <3> QED
      BY <3>1, <3>2
  <2> QED
    BY <2>2, <2>3
<1> QED
  BY <1>1, <1>3, <1>4

-------------------------------------------------------------------------------
(* What the list is at each stage of a load and an unload.                    *)

(* The first n slots of block a *)
Taken(a, n) == [i \in 1 .. n |-> array[a][i]]

LEMMA ContentsOfBlock ==
    ASSUME TypeOK, NEW a \in Arrays, array[a] # Freed, offset <= Len(array[a])
    PROVE  Contents(a) = Taken(a, offset)
<1>1. array[a] \in Seq(Slots) /\ offset \in Nat /\ offset <= Len(array[a])
  BY BlockType DEF TypeOK
<1>2. SubSeq(array[a], 1, offset) = Taken(a, offset)
  BY <1>1 DEF Taken
<1> QED
  BY <1>1, <1>2 DEF Contents

BlocksTaken ==
    \A a \in Arrays : array[a] # Freed /\ offset <= Len(array[a]) => Contents(a) = Taken(a, offset)

LEMMA BlocksAreTaken == TypeOK => BlocksTaken
BY ContentsOfBlock DEF BlocksTaken

(* The list and the load that RulesetList sees *)
ListSeen ==
    /\ Writers = {} => InMemory = Stored /\ {LoadOf(t) : t \in Loaders} = {}
    /\ \A t \in Writers :
          /\ {LoadOf(u) : u \in Loaders} = IF t \in Loaders THEN {LoadOf(t)} ELSE {}
          /\ InMemory = IF pc[t] = "reset" THEN <<>>
                        ELSE IF pc[t] = "publish" THEN Contents(local[t]) ELSE Stored

LEMMA ListIsSeen == IInv => ListSeen
<1> SUFFICES ASSUME IInv PROVE ListSeen
  OBVIOUS
<1>1. /\ Loaders \subseteq Writers
      /\ \A u \in Threads : pc[u] \in {"reset", "publish"} => u \in Writers
  BY DEF Loaders, Writers, Writing
<1>2. Writers = {} => InMemory = Stored /\ {LoadOf(t) : t \in Loaders} = {}
  BY <1>1 DEF InMemory
<1>3. ASSUME NEW t \in Writers
      PROVE  /\ {LoadOf(u) : u \in Loaders} = IF t \in Loaders THEN {LoadOf(t)} ELSE {}
             /\ InMemory = IF pc[t] = "reset" THEN <<>>
                           ELSE IF pc[t] = "publish" THEN Contents(local[t]) ELSE Stored
  <2>1. \A u \in Writers : u = t
    BY DEF IInv, OneWriter
  <2>2. Loaders = IF t \in Loaders THEN {t} ELSE {}
    BY <1>1, <2>1
  <2>3. {LoadOf(u) : u \in Loaders} = IF t \in Loaders THEN {LoadOf(t)} ELSE {}
    BY <2>2
  <2>4. t \in Threads /\ \A u \in Threads : pc[u] \in {"reset", "publish"} => u = t
    BY <1>1, <2>1 DEF Writers
  <2>5. CASE pc[t] = "publish"
    <3>1. (CHOOSE u \in Threads : pc[u] = "publish") = t
      BY <2>4, <2>5
    <3>2. /\ \E u \in Threads : pc[u] = "publish"
          /\ ~ \E u \in Threads : pc[u] = "reset"
      BY <2>4, <2>5
    <3> QED
      BY <2>3, <2>5, <3>1, <3>2 DEF InMemory
  <2>6. CASE pc[t] # "publish"
    BY <2>3, <2>4, <2>6 DEF InMemory
  <2> QED
    BY <2>5, <2>6
<1> QED
  BY <1>2, <1>3 DEF ListSeen

(* A step of a unalix_clean_url leaves the list and the load alone.           *)
LEMMA ReaderKeepsList ==
    ASSUME IInv, IInv', UNCHANGED store, NEW t \in Threads, pc[t] \notin Writing,
           NEW stage, stage \notin Writing, pc' = [pc EXCEPT ![t] = stage],
           \A u \in Threads : u # t => todo'[u] = todo[u] /\ local'[u] = local[u]
    PROVE  /\ InMemory' = InMemory
           /\ {LoadOf(u) : u \in Loaders}' = {LoadOf(u) : u \in Loaders}
           /\ \A load \in {LoadOf(u) : u \in Loaders} : load.by # t
<1>1. ListSeen /\ ListSeen'
  BY ListIsSeen, PTL
<1>2. pc'[t] = stage /\ \A u \in Threads : u # t => pc'[u] = pc[u]
  BY DEF IInv, TypeOK
<1>3. Writers' = Writers /\ t \notin Writers /\ Writers \subseteq Threads
  BY <1>2 DEF Writers
<1>4. UNCHANGED <<items, size, offset, array>>
  BY DEF store
<1>5. Stored' = Stored
  BY <1>4 DEF Stored, Contents
<1>6. CASE Writers = {}
  BY <1>1, <1>3, <1>5, <1>6 DEF ListSeen
<1>7. ASSUME NEW w \in Writers
      PROVE  /\ InMemory' = InMemory
             /\ {LoadOf(u) : u \in Loaders}' = {LoadOf(u) : u \in Loaders}
             /\ \A load \in {LoadOf(u) : u \in Loaders} : load.by # t
  <2>1. /\ w \in Threads /\ w # t /\ pc'[w] = pc[w] /\ todo'[w] = todo[w] /\ local'[w] = local[w]
        /\ w \in Writers' /\ (w \in Loaders' <=> w \in Loaders)
    BY <1>2, <1>3 DEF Loaders
  <2>2. LoadOf(w)' = LoadOf(w) /\ Contents(local[w])' = Contents(local[w])
    BY <1>4, <2>1 DEF LoadOf, Contents
  <2>3. LoadOf(w).by = w
    BY DEF LoadOf
  <2> QED
    BY <1>1, <1>5, <2>1, <2>2, <2>3 DEF ListSeen
<1> QED
  BY <1>6, <1>7

(* The same two facts, where a load or an unload is and stays at work         *)
LEMMA WriterList ==
    ASSUME IInv, IInv', NEW t \in Threads, pc[t] \in Writing
    PROVE  /\ {LoadOf(u) : u \in Loaders} = IF t \in Loaders THEN {LoadOf(t)} ELSE {}
           /\ InMemory = IF pc[t] = "reset" THEN <<>>
                         ELSE IF pc[t] = "publish" THEN Contents(local[t]) ELSE Stored
           /\ pc'[t] \in Writing =>
                 /\ {LoadOf(u) : u \in Loaders}' = IF t \in Loaders' THEN {LoadOf(t)'} ELSE {}
                 /\ InMemory' = IF pc'[t] = "reset" THEN <<>>
                                ELSE IF pc'[t] = "publish" THEN Contents(local[t])' ELSE Stored'
           /\ Writers' = {} => {LoadOf(u) : u \in Loaders}' = {} /\ InMemory' = Stored'
<1>1. ListSeen /\ ListSeen'
  BY ListIsSeen, PTL
<1> QED
  BY <1>1 DEF ListSeen, Writers

(* The step is one of the list, or none of its steps.                         *)
Mapped == [List!Next]_(List!vars)

LEMMA Unseen ==
    ASSUME InMemory' = InMemory, {LoadOf(u) : u \in Loaders}' = {LoadOf(u) : u \in Loaders},
           result' = result
    PROVE  Mapped
BY DEF Mapped, List!vars

LEMMA UnseenLoad ==
    ASSUME IInv, IInv', NEW t \in Threads, t \in Loaders, t \in Loaders',
           Used[todo[t]]' = Used[todo[t]], Sound(todo[t])' = Sound(todo[t]),
           InMemory' = InMemory, result' = result
    PROVE  Mapped
<1>1. pc[t] \in Writing /\ pc'[t] \in Writing
  BY DEF Loaders, Writing
<1>2. LoadOf(t)' = LoadOf(t)
  BY DEF LoadOf
<1>3. {LoadOf(u) : u \in Loaders}' = {LoadOf(u) : u \in Loaders}
  BY <1>1, <1>2, WriterList
<1> QED
  BY <1>3, Unseen

LEMMA LoadBeginMaps ==
    ASSUME IInv, IInv', NEW t \in Threads, LoadBegin(t) PROVE Mapped
<1>1. PICK d \in Documents : /\ Begin(t, "read") /\ todo' = [todo EXCEPT ![t] = d]
                             /\ UNCHANGED <<store, local, cleaning, result>>
  BY DEF LoadBegin
<1>2. Writers = {} /\ pc' = [pc EXCEPT ![t] = "read"]
  BY <1>1 DEF Begin, Writing
<1>3. pc'[t] = "read" /\ todo'[t] = d /\ UNCHANGED <<items, size, offset, array, result>>
  BY <1>1, <1>2 DEF IInv, TypeOK, store
<1>4. ListSeen /\ ListSeen'
  BY ListIsSeen, PTL
<1>5. t \in Writers' /\ t \in Loaders'
  BY <1>3 DEF Writers, Loaders, Writing
<1>6. InMemory = Stored /\ {LoadOf(u) : u \in Loaders} = {}
  BY <1>2, <1>4 DEF ListSeen
<1>7. InMemory' = Stored' /\ {LoadOf(u) : u \in Loaders}' = {LoadOf(t)'}
  BY <1>3, <1>4, <1>5 DEF ListSeen
<1>8. Stored' = Stored /\ LoadOf(t)' = [by |-> t, rest |-> Used[d], sound |-> Sound(d)]
  BY <1>3 DEF Stored, Contents, LoadOf
<1>9. List!Load(t)
  <2> DEFINE doc == [rulesets |-> Used[d], sound |-> Sound(d)]
  <2>1. doc \in {[rulesets |-> Used[e], sound |-> Sound(e)] : e \in Documents}
    OBVIOUS
  <2>2. {LoadOf(u) : u \in Loaders}' = {[by |-> t, rest |-> doc.rulesets, sound |-> doc.sound]}
    BY <1>7, <1>8
  <2> HIDE DEF doc
  <2> QED
    BY <1>3, <1>6, <1>7, <1>8, <2>1, <2>2 DEF List!Load
<1> QED
  BY <1>9 DEF Mapped, List!Next

LEMMA SkipProviderMaps ==
    ASSUME IInv, IInv', NEW t \in Threads, SkipProvider(t) PROVE Mapped
<1>1. /\ pc[t] = "read" /\ pc' = pc /\ todo[t] # <<>> /\ Kind[Head(todo[t])] = "skipped"
      /\ todo'[t] = Tail(todo[t]) /\ todo[t] \in Seq(Providers)
      /\ UNCHANGED <<items, size, offset, array, result>>
  BY DEF SkipProvider, At, IInv, TypeOK, store
<1>2. t \in Loaders /\ t \in Loaders' /\ pc[t] \in Writing
  BY <1>1 DEF Loaders, Writing
<1>3. Used[todo'[t]] = Used[todo[t]] /\ (Sound(todo'[t]) <=> Sound(todo[t]))
  BY <1>1, UsedOfMore DEF Enabled
<1>4. InMemory' = InMemory
  BY <1>1, <1>2, WriterList DEF Stored, Contents
<1>5. Sound(todo[t])' = Sound(todo[t])
  BY <1>3 DEF Sound
<1> QED
  BY <1>1, <1>2, <1>3, <1>4, <1>5, UnseenLoad

(* A load that returns leaves the list as it is.                              *)
LEMMA LoadReturns ==
    ASSUME IInv, IInv', NEW t \in Threads, pc[t] = "read", NEW r, Return(t, r),
           UNCHANGED <<items, size, offset, array>>
    PROVE  /\ {LoadOf(u) : u \in Loaders} = {LoadOf(t)}
           /\ {LoadOf(u) : u \in Loaders}' = {}
           /\ InMemory' = InMemory
<1>1. pc' = [pc EXCEPT ![t] = "idle"] /\ UNCHANGED <<items, size, offset, array>>
  BY DEF Return
<1>2. t \in Loaders /\ pc[t] \in Writing
  BY DEF Loaders, Writing
<1>3. Writers' = {}
  <2>1. \A u \in Threads : u # t => overlapped'[u] = overlapped[u]
    BY DEF Return, IInv, TypeOK
  <2> QED
    BY <1>1, <1>2, <2>1, WriterStep
<1>4. Stored' = Stored
  BY <1>1 DEF Stored, Contents
<1>5. InMemory = Stored
  BY <1>2, WriterList
<1> QED
  BY <1>2, <1>3, <1>4, <1>5, WriterList

LEMMA LoadFailedMaps ==
    ASSUME IInv, IInv', NEW t \in Threads, LoadFailed(t) PROVE Mapped
<1>1. pc[t] = "read" /\ Return(t, "error") /\ UNCHANGED <<items, size, offset, array>>
  BY DEF LoadFailed, At
<1>2. result' = [result EXCEPT ![t] = "error"] /\ LoadOf(t).by = t
  BY <1>1 DEF Return, LoadOf
<1>3. List!Refused
  BY <1>1, <1>2, LoadReturns DEF List!Refused
<1> QED
  BY <1>3 DEF Mapped, List!Next

LEMMA LoadEndMaps ==
    ASSUME IInv, IInv', NEW t \in Threads, LoadEnd(t) PROVE Mapped
<1>1. /\ pc[t] = "read" /\ todo[t] = <<>> /\ Return(t, "success")
      /\ UNCHANGED <<items, size, offset, array>>
  BY DEF LoadEnd, At, store
<1>2. /\ result' = [result EXCEPT ![t] = "success"]
      /\ LoadOf(t).by = t /\ LoadOf(t).rest = <<>> /\ LoadOf(t).sound
  BY <1>1, UsedOfNone DEF Return, LoadOf
<1>3. List!Loaded
  BY <1>1, <1>2, LoadReturns DEF List!Loaded
<1> QED
  BY <1>3 DEF Mapped, List!Next

LEMMA CompileProviderMaps ==
    ASSUME IInv, IInv', NEW t \in Threads, CompileProvider(t) PROVE Mapped
<1>1. /\ pc[t] = "read" /\ pc'[t] = "grow" /\ UNCHANGED <<items, size, offset, array, todo, result>>
  BY DEF CompileProvider, At, Goto, IInv, TypeOK, store, loading
<1>2. t \in Loaders /\ t \in Loaders' /\ pc[t] \in Writing /\ pc'[t] \in Writing
  BY <1>1 DEF Loaders, Writing
<1>3. InMemory' = InMemory
  BY <1>1, <1>2, WriterList DEF Stored, Contents
<1>4. Sound(todo[t])' = Sound(todo[t])
  BY <1>1 DEF Sound
<1> QED
  BY <1>1, <1>2, <1>3, <1>4, UnseenLoad

(* A block of one item more has room for the items there are. *)
LEMMA RoomForOneMore == ASSUME NEW n \in Nat, NEW m \in Nat, n = m PROVE m <= n + 1
  OBVIOUS

(* realloc keeps the rulesets that are in the block.                          *)
LEMMA GrowMaps ==
    ASSUME IInv, IInv', NEW t \in Threads, Grow(t) PROVE Mapped
<1>1. TypeOK /\ pc[t] = "grow" /\ StoreAt(t) /\ Whole /\ offset \in Nat
  BY DEF Grow, At, IInv, Writers, StoreAt, Writing, TypeOK
<1>2. /\ pc'[t] = "publish" /\ UNCHANGED <<items, size, offset, todo, result>>
      /\ array' = [b \in Arrays |->
                     IF b = local'[t] THEN Resized(IF items = Null THEN <<>> ELSE array[items], size + 1)
                     ELSE IF b = items THEN Freed ELSE array[b]]
  <2>1. ~ (items # Null /\ array[items] = Freed)
    BY <1>1 DEF Whole, Holds
  <2>2. PICK a \in Arrays :
          /\ array' = [b \in Arrays |->
                         IF b = a THEN Resized(IF items = Null THEN <<>> ELSE array[items], size + 1)
                         ELSE IF b = items THEN Freed ELSE array[b]]
          /\ local' = [local EXCEPT ![t] = a]
    BY <2>1 DEF Grow
  <2>3. local'[t] = a
    BY <1>1, <2>2 DEF TypeOK
  <2>4. pc'[t] = "publish" /\ UNCHANGED <<items, size, offset, todo, result>>
    BY <1>1, <2>1 DEF Grow, Goto, TypeOK
  <2> QED
    BY <2>2, <2>3, <2>4
<1>3. t \in Loaders /\ t \in Loaders' /\ pc[t] \in Writing /\ pc'[t] \in Writing
  BY <1>1, <1>2 DEF Loaders, Writing
<1>4. InMemory = Stored /\ InMemory' = Contents(local[t])'
  BY <1>1, <1>2, <1>3, WriterList
<1>5. /\ TypeOK' /\ local'[t] \in Arrays /\ array'[local'[t]] # Freed
      /\ offset' <= Len(array'[local'[t]])
  <2>1. StoreAt(t)'
    BY <1>3 DEF IInv, Writers
  <2>2. TypeOK'
    BY DEF IInv
  <2>3. size' = offset' /\ size' \in Nat /\ offset' \in Nat
    BY <1>2, <2>1, <2>2 DEF StoreAt, TypeOK
  <2>4. /\ local'[t] \in Arrays /\ array'[local'[t]] # Freed
        /\ Len(array'[local'[t]]) = size' + 1
    BY <1>2, <2>1 DEF StoreAt, Holds
  <2>5. offset' <= size' + 1
    BY <2>3, RoomForOneMore
  <2> QED
    BY <2>2, <2>4, <2>5
<1>6. Contents(local[t])' = Taken(local[t], offset)'
  <2>1. BlocksTaken'
    BY <1>5, BlocksAreTaken, PTL
  <2> QED
    BY <1>5, <2>1 DEF BlocksTaken, Contents, Taken
<1>7. CASE items = Null
  <2>1. offset = 0 /\ Stored = <<>>
    BY <1>1, <1>7 DEF Whole, Stored, Contents
  <2>2. Taken(local[t], offset)' = <<>>
    BY <1>2, <2>1 DEF Taken
  <2> QED
    BY <1>2, <1>3, <1>4, <1>6, <2>1, <2>2, UnseenLoad DEF Sound
<1>8. CASE items # Null
  <2>1. /\ items \in Arrays /\ array[items] # Freed /\ Len(array[items]) = size /\ size = offset
        /\ array[items] \in Seq(Slots) /\ size + 1 \in Nat
    BY <1>1, <1>8, BlockType DEF Whole, Holds, TypeOK
  <2>2. Stored = Taken(items, offset)
    BY <1>1, <2>1, ContentsOfBlock DEF Stored
  <2>3. array'[local'[t]] = Resized(array[items], size + 1)
    BY <1>2, <1>5, <1>8
  <2>4. \A i \in 1 .. offset : Resized(array[items], size + 1)[i] = array[items][i]
    <3>1. \A i \in 1 .. offset : i \in 1 .. size + 1 /\ i <= Len(array[items])
      BY <1>1, <2>1
    <3> QED
      BY <2>1, <3>1, ResizedBlock
  <2>5. Taken(local[t], offset)' = Taken(items, offset)
    BY <1>1, <1>2, <2>3, <2>4 DEF Taken
  <2> QED
    BY <1>2, <1>3, <1>4, <1>6, <2>2, <2>5, UnseenLoad DEF Sound
<1> QED
  BY <1>7, <1>8

LEMMA PublishMaps ==
    ASSUME IInv, IInv', NEW t \in Threads, Publish(t) PROVE Mapped
<1>1. /\ pc[t] = "publish" /\ pc'[t] = "append" /\ items' = local[t]
      /\ UNCHANGED <<offset, array, todo, result>>
  BY DEF Publish, At, Goto, IInv, TypeOK, loading
<1>2. t \in Loaders /\ t \in Loaders' /\ pc[t] \in Writing /\ pc'[t] \in Writing
  BY <1>1 DEF Loaders, Writing
<1>3. InMemory' = InMemory
  <2>1. InMemory = Contents(local[t]) /\ InMemory' = Stored'
    BY <1>1, <1>2, WriterList
  <2> QED
    BY <1>1, <2>1 DEF Stored, Contents
<1>4. Sound(todo[t])' = Sound(todo[t])
  BY <1>1 DEF Sound
<1> QED
  BY <1>1, <1>2, <1>3, <1>4, UnseenLoad

(* The ruleset at hand goes to the end of the list.                           *)
LEMMA AppendRulesetMaps ==
    ASSUME IInv, IInv', NEW t \in Threads, AppendRuleset(t) PROVE Mapped
<1>1. TypeOK /\ pc[t] = "append" /\ StoreAt(t) /\ todo[t] \in Seq(Providers)
  BY DEF AppendRuleset, At, IInv, Writers, Writing, TypeOK
<1>2. /\ size = offset + 1 /\ offset \in Nat /\ items \in Arrays
      /\ Holds(items, size, offset) /\ todo[t] # <<>> /\ Enabled(Head(todo[t]))
  BY <1>1 DEF StoreAt, Holds, TypeOK
<1>3. array[items] \in Seq(Slots) /\ Len(array[items]) = offset + 1 /\ Valid(items, offset + 1)
  BY <1>1, <1>2, BlockType DEF Holds, Valid
<1>4. /\ array' = [array EXCEPT ![items] = [@ EXCEPT ![offset + 1] = Head(todo[t])]]
      /\ offset' = offset + 1 /\ todo'[t] = Tail(todo[t]) /\ pc'[t] = "read"
      /\ UNCHANGED <<items, size, result>>
  BY <1>1, <1>3 DEF AppendRuleset, Goto, TypeOK
<1>5. t \in Loaders /\ t \in Loaders' /\ pc[t] \in Writing /\ pc'[t] \in Writing
  BY <1>1, <1>4 DEF Loaders, Writing
<1>6. /\ InMemory = Stored /\ {LoadOf(u) : u \in Loaders} = {LoadOf(t)}
      /\ InMemory' = Stored' /\ {LoadOf(u) : u \in Loaders}' = {LoadOf(t)'}
  BY <1>1, <1>4, <1>5, WriterList
<1>7. Stored = Taken(items, offset)
  BY <1>1, <1>2, <1>3, ContentsOfBlock DEF Stored, Holds
<1> DEFINE new == [array[items] EXCEPT ![offset + 1] = Head(todo[t])]
<1>8. array'[items] = new
  BY <1>1, <1>2, <1>4 DEF TypeOK
<1>9. Len(new) = offset + 1 /\ new[offset + 1] = Head(todo[t]) /\ \A i \in 1 .. offset : new[i] = array[items][i]
  BY <1>2, <1>3
<1> HIDE DEF new
<1>10. Stored' = Taken(items, offset)'
  <2>1. Whole' /\ items' # Null /\ TypeOK'
    <3>1. t \in Writers' /\ TypeOK'
      BY <1>5 DEF Writers, IInv
    <3>2. StoreAt(t)'
      BY <3>1 DEF IInv
    <3> QED
      BY <1>2, <1>4, <3>1, <3>2 DEF StoreAt
  <2>2. array'[items'] # Freed /\ offset' <= Len(array'[items']) /\ items' \in Arrays
    BY <1>2, <1>4, <1>8, <1>9, <2>1 DEF Whole, Holds
  <2>3. BlocksTaken'
    BY <2>1, BlocksAreTaken, PTL
  <2> QED
    BY <2>2, <2>3 DEF BlocksTaken, Stored, Contents, Taken
<1>11. InMemory' = Append(InMemory, Head(todo[t]))
  <2>1. Taken(items, offset)' = [i \in 1 .. offset + 1 |-> new[i]]
    <3>1. Taken(items, offset)' = [i \in 1 .. offset' |-> array'[items'][i]]
      BY DEF Taken
    <3>2. items' = items /\ offset' = offset + 1
      BY <1>4
    <3> QED
      BY <1>8, <3>1, <3>2
  <2>2. Append(Taken(items, offset), Head(todo[t])) = [i \in 1 .. offset + 1 |-> new[i]]
    <3>1. Taken(items, offset) \in Seq(Slots) /\ Len(Taken(items, offset)) = offset
      BY <1>2, <1>3 DEF Taken
    <3> QED
      BY <1>2, <1>9, <3>1 DEF Taken
  <2> QED
    BY <1>6, <1>7, <1>10, <2>1, <2>2
<1>12. /\ LoadOf(t).rest # <<>> /\ Head(LoadOf(t).rest) = Head(todo[t])
       /\ LoadOf(t)' = [LoadOf(t) EXCEPT !.rest = Tail(@)]
  <2>1. /\ Used[todo[t]] # <<>> /\ Head(Used[todo[t]]) = Head(todo[t])
        /\ Tail(Used[todo[t]]) = Used[todo'[t]] /\ (Sound(todo[t]) <=> Sound(todo'[t]))
    BY <1>1, <1>2, <1>4, UsedOfMore DEF Enabled
  <2>2. Sound(todo[t])' = Sound(todo[t])
    BY <2>1 DEF Sound
  <2>3. LoadOf(t)' = [by |-> t, rest |-> Used[todo'[t]], sound |-> Sound(todo[t])]
    BY <2>2 DEF LoadOf
  <2>4. [LoadOf(t) EXCEPT !.rest = Tail(@)]
          = [by |-> t, rest |-> Tail(Used[todo[t]]), sound |-> Sound(todo[t])]
    <3>1. ASSUME NEW by, NEW rest, NEW sound, NEW less
          PROVE  [[by |-> by, rest |-> rest, sound |-> sound] EXCEPT !.rest = less]
                   = [by |-> by, rest |-> less, sound |-> sound]
      OBVIOUS
    <3> QED
      BY <3>1, Zenon DEF LoadOf
  <2>5. LoadOf(t).rest = Used[todo[t]]
    BY DEF LoadOf
  <2> QED
    BY <2>1, <2>3, <2>4, <2>5
<1>13. List!Add
  BY <1>4, <1>6, <1>11, <1>12 DEF List!Add
<1> QED
  BY <1>13 DEF Mapped, List!Next

LEMMA UnloadBeginMaps ==
    ASSUME IInv, IInv', NEW t \in Threads, UnloadBegin(t) PROVE Mapped
<1>1. Writers = {} /\ pc'[t] = "release" /\ UNCHANGED <<items, size, offset, array, result>>
  BY DEF UnloadBegin, Begin, Writing, IInv, TypeOK, store
<1>2. t \in Writers' /\ t \notin Loaders'
  BY <1>1 DEF Writers, Writing, Loaders
<1>3. ListSeen /\ ListSeen'
  BY ListIsSeen, PTL
<1>4. Stored' = Stored
  BY <1>1 DEF Stored, Contents
<1> QED
  BY <1>1, <1>2, <1>3, <1>4, Unseen DEF ListSeen

(* The list is empty once the patterns are freed.                             *)
LEMMA ReleasePatternsMaps ==
    ASSUME IInv, IInv', NEW t \in Threads, ReleasePatterns(t) PROVE Mapped
<1>1. TypeOK /\ pc[t] = "release" /\ Whole /\ offset \in Nat
  BY DEF ReleasePatterns, At, IInv, Writers, Writing, StoreAt, TypeOK
<1>2. \A i \in 1 .. offset : Valid(items, i) /\ array[items][i] \in Providers
  BY <1>1 DEF Whole, Holds, Valid
<1>3. pc'[t] = "reset" /\ result' = result
  BY <1>1, <1>2 DEF ReleasePatterns, Goto, TypeOK
<1>4. pc[t] \in Writing /\ pc'[t] \in Writing /\ t \notin Loaders /\ t \notin Loaders'
  BY <1>1, <1>3 DEF Writing, Loaders
<1>5. {LoadOf(u) : u \in Loaders} = {} /\ {LoadOf(u) : u \in Loaders}' = {} /\ InMemory' = <<>>
  BY <1>3, <1>4, WriterList
<1>6. List!Unload
  BY <1>3, <1>5 DEF List!Unload
<1> QED
  BY <1>6 DEF Mapped, List!Next

LEMMA ResetCountsMaps ==
    ASSUME IInv, IInv', NEW t \in Threads, ResetCounts(t) PROVE Mapped
<1>1. /\ TypeOK /\ TypeOK' /\ pc[t] = "reset" /\ pc'[t] = "free" /\ offset' = 0
      /\ items' = items /\ result' = result
  BY DEF ResetCounts, At, Goto, IInv, TypeOK
<1>2. pc[t] \in Writing /\ pc'[t] \in Writing /\ t \notin Loaders /\ t \notin Loaders'
  BY <1>1 DEF Writing, Loaders
<1>3. /\ {LoadOf(u) : u \in Loaders} = {} /\ {LoadOf(u) : u \in Loaders}' = {}
      /\ InMemory = <<>> /\ InMemory' = Stored'
  BY <1>1, <1>2, WriterList
<1>4. Stored' = <<>>
  BY <1>1 DEF Stored, Contents, TypeOK
<1> QED
  BY <1>1, <1>3, <1>4, Unseen

LEMMA FreeItemsMaps ==
    ASSUME IInv, IInv', NEW t \in Threads, FreeItems(t) PROVE Mapped
<1>1. TypeOK /\ pc[t] = "free" /\ StoreAt(t)
  BY DEF FreeItems, At, IInv, Writers, Writing
<1>2. offset = 0 /\ (items # Null => array[items] # Freed)
  BY <1>1 DEF StoreAt, Emptied
<1>3. items' = Null /\ Return(t, "success")
  BY <1>2 DEF FreeItems
<1>4. pc[t] \in Writing /\ t \notin Loaders /\ Writers' = {}
  <2>1. pc[t] \in Writing /\ t \notin Loaders
    BY <1>1 DEF Writing, Loaders
  <2>2. pc' = [pc EXCEPT ![t] = "idle"] /\ \A u \in Threads : u # t => overlapped'[u] = overlapped[u]
    BY <1>1, <1>3 DEF Return, TypeOK
  <2> QED
    BY <2>1, <2>2, WriterStep
<1>5. /\ {LoadOf(u) : u \in Loaders} = {} /\ {LoadOf(u) : u \in Loaders}' = {}
      /\ InMemory = Stored /\ InMemory' = Stored'
  BY <1>1, <1>4, WriterList
<1>6. Stored = <<>> /\ Stored' = <<>>
  BY <1>1, <1>2, <1>3 DEF Stored, Contents, TypeOK
<1>7. result' = [result EXCEPT ![t] = "success"]
  BY <1>3 DEF Return
<1>8. List!Other(t)
  BY <1>5, <1>6, <1>7 DEF List!Other
<1> QED
  BY <1>8 DEF Mapped, List!Next

(* A unalix_clean_url that returns is another call.                           *)
LEMMA ReaderReturnMaps ==
    ASSUME IInv, IInv', UNCHANGED store, NEW t \in Threads, pc[t] \in Reading,
           NEW r \in {"success", "empty"}, Return(t, r)
    PROVE  Mapped
<1>1. /\ pc' = [pc EXCEPT ![t] = "idle"] /\ result' = [result EXCEPT ![t] = r]
      /\ \A u \in Threads : u # t => todo'[u] = todo[u] /\ local'[u] = local[u]
      /\ pc[t] \notin Writing /\ "idle" \notin Writing
  BY DEF Return, Reading, Writing, IInv, TypeOK
<1>2. List!Other(t)
  BY <1>1, ReaderKeepsList DEF List!Other
<1> QED
  BY <1>2 DEF Mapped, List!Next

LEMMA ReaderGoesOnMaps ==
    ASSUME IInv, IInv', UNCHANGED store, NEW t \in Threads, pc[t] \notin Writing,
           NEW stage, stage \notin Writing, pc' = [pc EXCEPT ![t] = stage],
           UNCHANGED <<todo, local, result>>
    PROVE  Mapped
BY ReaderKeepsList, Unseen

LEMMA CleanMaps ==
    ASSUME IInv, IInv', NEW t \in Threads, Clean(t) PROVE Mapped
<1>1. CASE CleanBegin(t)
  <2>1. /\ pc[t] \notin Writing /\ "snapOffset" \notin Writing /\ pc' = [pc EXCEPT ![t] = "snapOffset"]
        /\ UNCHANGED store /\ UNCHANGED <<todo, local, result>>
    BY <1>1 DEF CleanBegin, Begin, Writing, loading
  <2> QED
    BY <2>1, ReaderGoesOnMaps
<1>2. CASE SnapOffset(t)
  <2>1. /\ pc[t] \notin Writing /\ "snapItems" \notin Writing /\ pc' = [pc EXCEPT ![t] = "snapItems"]
        /\ UNCHANGED store /\ UNCHANGED <<todo, local, result>>
    BY <1>2 DEF SnapOffset, At, Goto, Writing, loading
  <2> QED
    BY <2>1, ReaderGoesOnMaps
<1>3. CASE SnapItems(t)
  <2>1. pc[t] = "snapItems" /\ pc[t] \in Reading /\ pc[t] \notin Writing /\ "scan" \notin Writing /\ UNCHANGED store
    BY <1>3 DEF SnapItems, At, Reading, Writing
  <2>2. CASE Return(t, "empty")
    BY <2>1, <2>2, ReaderReturnMaps
  <2>3. CASE Goto(t, "scan") /\ UNCHANGED loading
    BY <2>1, <2>3, ReaderGoesOnMaps DEF Goto, loading
  <2> QED
    BY <1>3, <2>2, <2>3 DEF SnapItems
<1>4. CASE ScanRuleset(t)
  <2>1. /\ pc[t] = "scan" /\ pc[t] \notin Writing /\ "snapOffset" \notin Writing
        /\ UNCHANGED store /\ UNCHANGED <<todo, local, result>>
    BY <1>4 DEF ScanRuleset, At, Goto, Undefined, Writing, loading
  <2>2. pc' = [pc EXCEPT ![t] = "scan"] \/ pc' = [pc EXCEPT ![t] = "snapOffset"]
    BY <1>4, <2>1 DEF ScanRuleset, Goto, Undefined, IInv, TypeOK
  <2> QED
    BY <2>1, <2>2, ReaderGoesOnMaps
<1>5. CASE CleanEnd(t)
  <2>1. pc[t] \in Reading /\ UNCHANGED store /\ Return(t, "success")
    BY <1>5 DEF CleanEnd, At, Reading
  <2> QED
    BY <2>1, ReaderReturnMaps
<1> QED
  BY <1>1, <1>2, <1>3, <1>4, <1>5 DEF Clean

(* The store is the list that RulesetList promises: every load adds the       *)
(* rulesets of its document in order and leaves none out, only an unload       *)
(* empties it, and no call that reads it changes it (ruleset.c:86-281).       *)
THEOREM StoreIsAList == Spec => StoresList
<1>1. Init => List!Init
  <2> SUFFICES ASSUME Init PROVE List!Init
    OBVIOUS
  <2>1. \A t \in Threads : pc[t] = "idle"
    BY DEF Init
  <2>2. {LoadOf(t) : t \in Loaders} = {} /\ InMemory = Stored
    BY <2>1 DEF Loaders, InMemory
  <2>3. Stored = <<>> /\ result = [t \in Threads |-> "none"]
    BY DEF Init, Stored, Contents
  <2> QED
    BY <2>2, <2>3 DEF List!Init
<1>2. IInv /\ IInv' /\ [Next]_vars => [List!Next]_(List!vars)
  <2> SUFFICES ASSUME IInv, IInv', [Next]_vars PROVE Mapped
    BY DEF Mapped
  <2>1. CASE UNCHANGED vars
    <3>1. UNCHANGED <<items, size, offset, array, pc, todo, local, result>>
      BY <2>1 DEF vars, store, loading
    <3> QED
      BY <3>1, Unseen DEF InMemory, Stored, Contents, Loaders, LoadOf, Sound
  <2>2. ASSUME NEW t \in Threads, Load(t) PROVE Mapped
    BY <2>2, LoadBeginMaps, SkipProviderMaps, LoadFailedMaps, CompileProviderMaps, GrowMaps,
       PublishMaps, AppendRulesetMaps, LoadEndMaps DEF Load
  <2>3. ASSUME NEW t \in Threads, Unload(t) PROVE Mapped
    BY <2>3, UnloadBeginMaps, ReleasePatternsMaps, ResetCountsMaps, FreeItemsMaps DEF Unload
  <2>4. ASSUME NEW t \in Threads, Clean(t) PROVE Mapped
    BY <2>4, CleanMaps
  <2> QED
    BY <2>1, <2>2, <2>3, <2>4 DEF Next
<1> QED
  BY <1>1, <1>2, StoreAsExpected, PTL DEF Spec, StoresList, List!Spec

===============================================================================
