---------------------------- MODULE CleanUrlProofs ----------------------------
(***************************************************************************)
(* Theorems about CleanUrl: which URL is cleaned in the end, that a part of *)
(* a URL is absent or not empty throughout, what goes from the path and     *)
(* what stays in query and fragment, and that the rebuilt query fits its    *)
(* buffer, for any rulesets and calls over any vocabulary.                  *)
(***************************************************************************)
EXTENDS CleanUrl, NaturalsInduction, WellFoundedInduction, TLAPS

-------------------------------------------------------------------------------
(* Induction, in terms of sets: a set of naturals has a least element, a set  *)
(* with 0 and with each number the next contains them all, and the function   *)
(* by which a fold over a sequence is defined exists.                        *)

LEMMA Least ==
    ASSUME NEW T \in SUBSET Nat, T # {}
    PROVE  \E n \in T : \A m \in T : n <= m
<1> DEFINE Less == {r \in Nat \X Nat : r[1] < r[2]}
<1>1. IsWellFoundedOn(Less, Nat)
  <2>1. OpToRel(<, Nat) = Less
    BY Zenon DEF OpToRel
  <2> QED
    BY <2>1, NatLessThanWellFounded, Zenon
<1>2. PICK n \in T : \A m \in T : ~(<<m, n>> \in Less)
  BY <1>1, WFMin, Zenon
<1>3. \A m \in T : n <= m
  <2> TAKE m \in T
  <2>1. m \in Nat /\ n \in Nat /\ ~(m < n)
    BY <1>2
  <2> QED
    BY <2>1
<1> QED
  BY <1>3

LEMMA Greatest ==
    ASSUME NEW n \in Nat, NEW T \in SUBSET (1 .. n), T # {}
    PROVE  \E k \in T : \A m \in T : k >= m
<1> DEFINE Gaps == {n - m : m \in T}
<1>1. Gaps \in SUBSET Nat /\ Gaps # {}
  <2>1. \A m \in T : n - m \in Nat
    OBVIOUS
  <2> QED
    BY <2>1
<1>2. PICK g \in Gaps : \A h \in Gaps : g <= h
  <2> HIDE DEF Gaps
  <2> QED
    BY <1>1, Least
<1>3. PICK k \in T : g = n - k
  BY <1>2
<1>4. \A m \in T : k >= m
  <2> TAKE m \in T
  <2>1. n - k <= n - m
    BY <1>2, <1>3
  <2> QED
    BY <2>1
<1> QED
  BY <1>4

(* What holds of 0, and of each number after one it holds of, up to n        *)
LEMMA UpToInduction ==
    ASSUME NEW n \in Nat, NEW Q, 0 \in Q, \A k \in 1 .. n : k - 1 \in Q => k \in Q
    PROVE  \A k \in 0 .. n : k \in Q
<1> DEFINE T == {k \in 0 .. n : k \notin Q}
<1> SUFFICES ASSUME T # {} PROVE FALSE
  OBVIOUS
<1>1. T \in SUBSET Nat
  OBVIOUS
<1>2. PICK k \in T : \A j \in T : k <= j
  <2> HIDE DEF T
  <2> QED
    BY <1>1, Least
<1>3. k \in 1 .. n /\ k - 1 \in 0 .. n
  BY <1>2
<1>4. k - 1 \in Q
  BY <1>2, <1>3
<1> QED
  BY <1>2, <1>3, <1>4

(* The values of a fold of F over 1 .. n from base on, for every set of places *)
Folded(it, n, F, base) ==
    /\ it[{}] = base
    /\ \A k \in 1 .. n : \A s \in SUBSET (1 .. k - 1) : it[s \cup {k}] = F[<<it[s], k>>]

LEMMA FoldExists ==
    ASSUME NEW T, NEW n \in Nat, NEW F \in [T \X (1 .. n) -> T], NEW base \in T
    PROVE  \E it \in [SUBSET (1 .. n) -> T] : Folded(it, n, F, base)
<1> DEFINE Q == {k \in 0 .. n : \E it \in [SUBSET (1 .. k) -> T] : Folded(it, k, F, base)}
<1>1. 0 \in Q
  <2> DEFINE it == [s \in SUBSET (1 .. 0) |-> base]
  <2>1. it \in [SUBSET (1 .. 0) -> T] /\ Folded(it, 0, F, base)
    BY DEF Folded
  <2> QED
    BY <2>1
<1>2. ASSUME NEW k \in 1 .. n, k - 1 \in Q PROVE k \in Q
  <2>1. PICK old \in [SUBSET (1 .. k - 1) -> T] : Folded(old, k - 1, F, base)
    BY <1>2
  <2> DEFINE it == [s \in SUBSET (1 .. k) |->
                      IF k \in s THEN F[<<old[s \ {k}], k>>] ELSE old[s]]
  <2>2. \A s \in SUBSET (1 .. k) : /\ s \ {k} \in SUBSET (1 .. k - 1)
                                   /\ k \notin s => s \in SUBSET (1 .. k - 1)
    OBVIOUS
  <2>3. it \in [SUBSET (1 .. k) -> T]
    BY <2>1, <2>2
  <2>4. \A s \in SUBSET (1 .. k - 1) : it[s] = old[s]
    OBVIOUS
  <2>5. it[{}] = base
    BY <2>1, <2>4 DEF Folded
  <2>6. ASSUME NEW j \in 1 .. k, NEW s \in SUBSET (1 .. j - 1)
        PROVE  it[s \cup {j}] = F[<<it[s], j>>]
    <3>1. s \in SUBSET (1 .. k - 1) /\ s \cup {j} \in SUBSET (1 .. k)
      OBVIOUS
    <3>2. CASE j = k
      <4>1. (s \cup {k}) \ {k} = s /\ k \in s \cup {k}
        BY <3>2
      <4> QED
        BY <2>4, <3>1, <3>2, <4>1
    <3>3. CASE j # k
      <4>1. j \in 1 .. k - 1 /\ s \cup {j} \in SUBSET (1 .. k - 1)
        BY <3>3
      <4>2. it[s \cup {j}] = old[s \cup {j}] /\ it[s] = old[s]
        BY <2>4, <3>1, <4>1
      <4> HIDE DEF it
      <4> QED
        BY <2>1, <2>6, <4>1, <4>2 DEF Folded
    <3> QED
      BY <3>2, <3>3
  <2> HIDE DEF it
  <2>7. Folded(it, k, F, base)
    BY <2>5, <2>6 DEF Folded
  <2> QED
    BY <2>3, <2>7
<1>3. n \in 0 .. n
  OBVIOUS
<1>4. n \in Q
  <2> HIDE DEF Q
  <2> QED
    BY <1>1, <1>2, <1>3, UpToInduction
<1> QED
  BY <1>4

Largest(s) == CHOOSE x \in s : \A y \in s : x >= y

LEMMA LargestOf ==
    ASSUME NEW n \in Nat, NEW s \in SUBSET (1 .. n), s # {}
    PROVE  /\ Largest(s) \in s /\ Largest(s) \in 1 .. n
           /\ s \ {Largest(s)} \in SUBSET (1 .. Largest(s) - 1)
           /\ s = (s \ {Largest(s)}) \cup {Largest(s)}
<1>1. \E x \in s : \A y \in s : x >= y
  BY Greatest
<1>2. Largest(s) \in s /\ \A y \in s : Largest(s) >= y
  BY <1>1, Zenon DEF Largest
<1>3. Largest(s) \in 1 .. n /\ \A y \in s : y \in 1 .. n
  BY <1>2
<1>4. \A y \in s \ {Largest(s)} : y \in 1 .. Largest(s) - 1
  BY <1>2, <1>3
<1> QED
  BY <1>2, <1>3, <1>4

LEMMA LargestUpTo ==
    ASSUME NEW n \in Nat, NEW k \in 1 .. n
    PROVE  /\ Largest(1 .. k) = k /\ (1 .. k) \ {k} = 1 .. (k - 1) /\ 1 .. k # {}
<1>1. k \in Nat /\ 1 .. k \in SUBSET (1 .. k) /\ k \in 1 .. k
  OBVIOUS
<1>2. Largest(1 .. k) \in 1 .. k /\ (1 .. k) \ {Largest(1 .. k)} \in SUBSET (1 .. Largest(1 .. k) - 1)
  BY <1>1, LargestOf
<1>3. Largest(1 .. k) = k
  <2> SUFFICES ASSUME Largest(1 .. k) # k PROVE FALSE
    OBVIOUS
  <2>1. k \in (1 .. k) \ {Largest(1 .. k)}
    BY <1>1
  <2>2. k \in 1 .. Largest(1 .. k) - 1
    BY <1>2, <2>1
  <2> QED
    BY <1>1, <1>2, <2>2
<1> QED
  BY <1>1, <1>3

(* The recursion of a fold: what it takes off a set of places is the largest  *)
Recursion(it, T, n, F, base) ==
    /\ it \in [SUBSET (1 .. n) -> T]
    /\ it[{}] = base
    /\ \A s \in SUBSET (1 .. n) : s # {} =>
          /\ Largest(s) \in 1 .. n /\ s \ {Largest(s)} \in SUBSET (1 .. n)
          /\ it[s \ {Largest(s)}] \in T
          /\ it[s] = F[<<it[s \ {Largest(s)}], Largest(s)>>]

LEMMA FoldRecursion ==
    ASSUME NEW T, NEW n \in Nat, NEW F \in [T \X (1 .. n) -> T], NEW base \in T
    PROVE  \E it : Recursion(it, T, n, F, base)
<1>1. PICK it \in [SUBSET (1 .. n) -> T] : Folded(it, n, F, base)
  BY FoldExists
<1>2. ASSUME NEW s \in SUBSET (1 .. n), s # {}
      PROVE  /\ Largest(s) \in 1 .. n /\ s \ {Largest(s)} \in SUBSET (1 .. n)
             /\ it[s] = F[<<it[s \ {Largest(s)}], Largest(s)>>]
  <2>1. /\ Largest(s) \in 1 .. n
        /\ s \ {Largest(s)} \in SUBSET (1 .. Largest(s) - 1)
        /\ s = (s \ {Largest(s)}) \cup {Largest(s)}
    BY <1>2, LargestOf
  <2> DEFINE k == Largest(s)
             r == s \ {k}
  <2>2. k \in 1 .. n /\ r \in SUBSET (1 .. k - 1) /\ s = r \cup {k}
    BY <2>1
  <2>3. r \in SUBSET (1 .. n)
    BY <2>2
  <2> HIDE DEF k, r
  <2>4. it[s] = F[<<it[r], k>>]
    BY <1>1, <2>2 DEF Folded
  <2> QED
    BY <2>2, <2>3, <2>4 DEF k, r
<1>3. it[{}] = base
  BY <1>1 DEF Folded
<1> QED
  BY <1>2, <1>3 DEF Recursion

(* What a fold makes of the places one by one: all of T, where F keeps to T   *)
Partials(part, it, T, n, F, base) ==
    /\ part \in [0 .. n -> T]
    /\ part[0] = base /\ part[n] = it[1 .. n]
    /\ \A k \in 1 .. n : part[k] = F[<<part[k - 1], k>>]

LEMMA FoldPartials ==
    ASSUME NEW T, NEW n \in Nat, NEW F \in [T \X (1 .. n) -> T], NEW base \in T,
           NEW it, it[{}] = base,
           \A s \in SUBSET (1 .. n) : s # {} /\ it[s \ {Largest(s)}] \in T =>
              it[s] = F[<<it[s \ {Largest(s)}], Largest(s)>>]
    PROVE  \E part : Partials(part, it, T, n, F, base)
<1> DEFINE part == [k \in 0 .. n |-> it[1 .. k]]
           Q == {k \in 0 .. n : part[k] \in T}
<1>1. part[0] = base
  <2>1. 1 .. 0 = {}
    OBVIOUS
  <2> QED
    BY <2>1
<1>2. \A k \in 1 .. n : part[k - 1] \in T => part[k] = F[<<part[k - 1], k>>] /\ part[k] \in T
  <2> TAKE k \in 1 .. n
  <2> SUFFICES ASSUME part[k - 1] \in T
               PROVE  part[k] = F[<<part[k - 1], k>>] /\ part[k] \in T
    OBVIOUS
  <2>1. /\ Largest(1 .. k) = k /\ (1 .. k) \ {k} = 1 .. (k - 1) /\ 1 .. k # {}
        /\ 1 .. k \in SUBSET (1 .. n)
    BY LargestUpTo
  <2>2. part[k] = it[1 .. k] /\ part[k - 1] = it[1 .. (k - 1)]
    OBVIOUS
  <2> HIDE DEF part
  <2> QED
    BY <2>1, <2>2
<1>3. \A k \in 0 .. n : k \in Q
  <2>1. 0 \in Q
    BY <1>1
  <2>2. ASSUME NEW k \in 1 .. n, k - 1 \in Q PROVE k \in Q
    <3> HIDE DEF part
    <3>1. k \in 0 .. n /\ part[k - 1] \in T
      BY <2>2
    <3> QED
      BY <1>2, <3>1
  <2> HIDE DEF Q
  <2> QED
    BY <2>1, <2>2, UpToInduction
<1>4. part \in [0 .. n -> T]
  BY <1>3
<1>5. part[n] = it[1 .. n] /\ \A k \in 1 .. n : k - 1 \in 0 .. n
  OBVIOUS
<1> HIDE DEF part
<1>6. \A k \in 1 .. n : part[k] = F[<<part[k - 1], k>>]
  BY <1>2, <1>4, <1>5
<1> QED
  BY <1>1, <1>4, <1>5, <1>6 DEF Partials

USE CleanUrlAssumption

-------------------------------------------------------------------------------
(* The folds of the loops.  What a loop has made of the first k elements is    *)
(* part[k], for which the loop's own step is known.                           *)

WithoutUpTo(part, S, text, positions) ==
    /\ part \in [0 .. Len(text) -> Seq(S)]
    /\ part[0] = <<>> /\ part[Len(text)] = Without(text, positions)
    /\ \A k \in 1 .. Len(text) :
         part[k] = IF k \in positions THEN part[k - 1] ELSE Append(part[k - 1], text[k])

LEMMA WithoutFold ==
    ASSUME NEW S, NEW text \in Seq(S), NEW positions
    PROVE  \E part : WithoutUpTo(part, S, text, positions)
<1> DEFINE n == Len(text)
           F == [x \in Seq(S) \X (1 .. n) |->
                   IF x[2] \in positions THEN x[1] ELSE Append(x[1], text[x[2]])]
           at == [i \in DOMAIN text |-> i]
           Step(it) == [s \in SUBSET DOMAIN at |->
                          IF s = {} THEN <<>>
                          ELSE IF at[Max(s)] \in positions THEN it[s \ {Max(s)}]
                          ELSE Append(it[s \ {Max(s)}], text[at[Max(s)]])]
           it == CHOOSE f : f = Step(f)
<1>1. Without(text, positions) = it[DOMAIN at]
  BY Zenon DEF Without, FoldLeftDomain, FoldLeft, MapThenFoldSet
<1>2. n \in Nat /\ DOMAIN at = 1 .. n /\ DOMAIN text = 1 .. n /\ \A k \in 1 .. n : at[k] = k
  OBVIOUS
<1>3. F \in [Seq(S) \X (1 .. n) -> Seq(S)]
  OBVIOUS
<1>4. \A x \in Seq(S) : \A k \in 1 .. n :
         F[<<x, k>>] = IF k \in positions THEN x ELSE Append(x, text[k])
  OBVIOUS
<1>5. \A s : Max(s) = Largest(s)
  BY DEF Max, Largest
<1>6. it = Step(it)
  <2> HIDE DEF F, n
  <2>1. <<>> \in Seq(S)
    OBVIOUS
  <2>2. PICK f : Recursion(f, Seq(S), n, F, <<>>)
    BY <1>2, <1>3, <2>1, FoldRecursion
  <2>3. \A s \in SUBSET (1 .. n) :
           f[s] = IF s = {} THEN <<>>
                  ELSE IF at[Max(s)] \in positions THEN f[s \ {Max(s)}]
                  ELSE Append(f[s \ {Max(s)}], text[at[Max(s)]])
    <3> TAKE s \in SUBSET (1 .. n)
    <3> HIDE DEF at
    <3>1. s # {} => /\ Largest(s) \in 1 .. n /\ f[s \ {Largest(s)}] \in Seq(S)
                    /\ f[s] = F[<<f[s \ {Largest(s)}], Largest(s)>>]
      BY <2>2 DEF Recursion
    <3>2. f[{}] = <<>>
      BY <2>2 DEF Recursion
    <3>3. CASE s = {}
      BY <3>2, <3>3
    <3>4. CASE s # {}
      <4>1. F[<<f[s \ {Largest(s)}], Largest(s)>>]
              = IF Largest(s) \in positions THEN f[s \ {Largest(s)}]
                ELSE Append(f[s \ {Largest(s)}], text[Largest(s)])
        BY <1>4, <3>1, <3>4, Zenon
      <4>2. at[Max(s)] = Largest(s) /\ Max(s) = Largest(s)
        BY <1>2, <1>5, <3>1, <3>4
      <4> QED
        BY <3>1, <3>4, <4>1, <4>2, Zenon
    <3> QED
      BY <3>3, <3>4
  <2>4. f = Step(f)
    <3>1. f \in [SUBSET (1 .. n) -> Seq(S)] /\ SUBSET DOMAIN at = SUBSET (1 .. n)
      BY <1>2, <2>2 DEF Recursion
    <3> HIDE DEF at
    <3> QED
      BY <2>3, <3>1
  <2> HIDE DEF Step
  <2> QED
    BY <2>4, Zenon
<1> HIDE DEF it
<1>7. it[{}] = <<>>
  BY <1>2, <1>6
<1>8. \A s \in SUBSET (1 .. n) : s # {} /\ it[s \ {Largest(s)}] \in Seq(S) =>
              it[s] = F[<<it[s \ {Largest(s)}], Largest(s)>>]
  <2> TAKE s \in SUBSET (1 .. n)
  <2> SUFFICES ASSUME s # {}, it[s \ {Largest(s)}] \in Seq(S)
               PROVE  it[s] = F[<<it[s \ {Largest(s)}], Largest(s)>>]
    OBVIOUS
  <2>1. Largest(s) \in 1 .. n
    BY <1>2, LargestOf
  <2>2. it[s] = IF at[Max(s)] \in positions THEN it[s \ {Max(s)}]
                ELSE Append(it[s \ {Max(s)}], text[at[Max(s)]])
    BY <1>2, <1>6
  <2> HIDE DEF F, at, n
  <2>3. F[<<it[s \ {Largest(s)}], Largest(s)>>]
          = IF Largest(s) \in positions THEN it[s \ {Largest(s)}]
            ELSE Append(it[s \ {Largest(s)}], text[Largest(s)])
    BY <1>4, <2>1, Zenon
  <2>4. at[Max(s)] = Largest(s) /\ Max(s) = Largest(s)
    BY <1>2, <1>5, <2>1
  <2> QED
    BY <2>2, <2>3, <2>4, Zenon
<1>9. <<>> \in Seq(S)
  OBVIOUS
<1> HIDE DEF F, at, n
<1>10. PICK part : Partials(part, it, Seq(S), n, F, <<>>)
  BY <1>2, <1>3, <1>7, <1>8, <1>9, FoldPartials
<1>11. \A k \in 1 .. n : part[k - 1] \in Seq(S)
  BY <1>2, <1>10 DEF Partials
<1>12. \A k \in 1 .. n :
           part[k] = IF k \in positions THEN part[k - 1] ELSE Append(part[k - 1], text[k])
  BY <1>4, <1>10, <1>11 DEF Partials
<1>13. /\ part \in [0 .. n -> Seq(S)]
       /\ part[0] = <<>> /\ part[n] = Without(text, positions)
  BY <1>1, <1>2, <1>10 DEF Partials
<1> QED
  BY <1>12, <1>13 DEF n, WithoutUpTo

-------------------------------------------------------------------------------
(* Types of what the operators return                                         *)

LEMMA WithoutType ==
    ASSUME NEW S, NEW text \in Seq(S), NEW positions
    PROVE  Without(text, positions) \in Seq(S)
<1>1. PICK part : /\ part \in [0 .. Len(text) -> Seq(S)]
                  /\ part[Len(text)] = Without(text, positions)
  BY WithoutFold DEF WithoutUpTo
<1>2. Len(text) \in 0 .. Len(text)
  OBVIOUS
<1> QED
  BY <1>1, <1>2

LEMMA PartText == \A part \in PartType : Text(part) \in Texts
BY DEF Text, PartType, Texts

LEMMA OrNullType == \A text \in Texts : OrNull(text) \in PartType
BY DEF OrNull, PartType

LEMMA StripFieldType == \A name : \A part \in PartType : StripField(name, part) \in PartType
BY PartText, OrNullType, WithoutType DEF StripField, Texts

LEMMA StripRawType == \A word : \A part \in PartType : StripRaw(word, part) \in PartType
BY PartText, OrNullType, WithoutType DEF StripRaw, Dropping, Texts

LEMMA StripAllFold ==
    ASSUME NEW names \in Texts, NEW url_part \in PartType
    PROVE  \E part \in [0 .. Len(names) -> PartType] :
             /\ part[0] = url_part /\ part[Len(names)] = StripAll(names, url_part)
             /\ \A k \in 1 .. Len(names) : part[k] = StripField(names[k], part[k - 1])
<1> DEFINE n == Len(names)
           F == [x \in PartType \X (1 .. n) |-> StripField(names[x[2]], x[1])]
           Step(it) == [s \in SUBSET DOMAIN names |->
                          IF s = {} THEN url_part ELSE StripField(names[Max(s)], it[s \ {Max(s)}])]
           it == CHOOSE f : f = Step(f)
<1>1. StripAll(names, url_part) = it[DOMAIN names]
  BY Zenon DEF StripAll, FoldLeft, MapThenFoldSet
<1>2. n \in Nat /\ DOMAIN names = 1 .. n
  BY DEF Texts
<1>3. \A x \in PartType : \A k \in 1 .. n : StripField(names[k], x) \in PartType
  BY <1>2, StripFieldType
<1>4. /\ F \in [PartType \X (1 .. n) -> PartType]
      /\ \A x \in PartType : \A k \in 1 .. n : F[<<x, k>>] = StripField(names[k], x)
  BY <1>3
<1>5. \A s : Max(s) = Largest(s)
  BY DEF Max, Largest
<1>6. it = Step(it)
  <2> HIDE DEF F, n
  <2>1. PICK f : Recursion(f, PartType, n, F, url_part)
    BY <1>2, <1>4, FoldRecursion
  <2>2. \A s \in SUBSET (1 .. n) : f[s] = IF s = {} THEN url_part ELSE StripField(names[Max(s)], f[s \ {Max(s)}])
    <3> TAKE s \in SUBSET (1 .. n)
    <3>1. s # {} => /\ Largest(s) \in 1 .. n /\ f[s \ {Largest(s)}] \in PartType
                    /\ f[s] = F[<<f[s \ {Largest(s)}], Largest(s)>>]
      BY <2>1 DEF Recursion
    <3>2. f[{}] = url_part
      BY <2>1 DEF Recursion
    <3> QED
      BY <1>4, <1>5, <3>1, <3>2, Zenon
  <2>3. f = Step(f)
    <3>1. f \in [SUBSET (1 .. n) -> PartType] /\ SUBSET DOMAIN names = SUBSET (1 .. n)
      BY <1>2, <2>1 DEF Recursion
    <3> QED
      BY <2>2, <3>1
  <2> HIDE DEF Step
  <2> QED
    BY <2>3, Zenon
<1> HIDE DEF it
<1>7. it[{}] = url_part
  BY <1>2, <1>6
<1>8. \A s \in SUBSET (1 .. n) : s # {} /\ it[s \ {Largest(s)}] \in PartType =>
              it[s] = F[<<it[s \ {Largest(s)}], Largest(s)>>]
  <2> TAKE s \in SUBSET (1 .. n)
  <2> SUFFICES ASSUME s # {}, it[s \ {Largest(s)}] \in PartType
               PROVE  it[s] = F[<<it[s \ {Largest(s)}], Largest(s)>>]
    OBVIOUS
  <2>1. Largest(s) \in 1 .. n
    BY <1>2, LargestOf
  <2>2. it[s] = StripField(names[Max(s)], it[s \ {Max(s)}])
    BY <1>2, <1>6
  <2> HIDE DEF F, n
  <2> QED
    BY <1>4, <1>5, <2>1, <2>2, Zenon
<1> HIDE DEF F, n
<1>9. PICK part : Partials(part, it, PartType, n, F, url_part)
  BY <1>2, <1>4, <1>7, <1>8, FoldPartials
<1>10. \A k \in 1 .. n : part[k] = StripField(names[k], part[k - 1])
  <2> TAKE k \in 1 .. n
  <2>1. part[k - 1] \in PartType /\ part[k] = F[<<part[k - 1], k>>]
    <3>1. k - 1 \in 0 .. n
      BY <1>2
    <3>2. part \in [0 .. n -> PartType] /\ \A m \in 1 .. n : part[m] = F[<<part[m - 1], m>>]
      BY <1>9 DEF Partials
    <3> QED
      BY <3>1, <3>2
  <2> QED
    BY <1>4, <2>1, Zenon
<1>11. /\ part \in [0 .. n -> PartType]
       /\ part[0] = url_part /\ part[n] = StripAll(names, url_part)
  BY <1>1, <1>2, <1>9 DEF Partials
<1> QED
  BY <1>10, <1>11 DEF n

LEMMA StripAllRawFold ==
    ASSUME NEW words \in Texts, NEW url_part \in PartType
    PROVE  \E part \in [0 .. Len(words) -> PartType] :
             /\ part[0] = url_part /\ part[Len(words)] = StripAllRaw(words, url_part)
             /\ \A k \in 1 .. Len(words) : part[k] = StripRaw(words[k], part[k - 1])
<1> DEFINE n == Len(words)
           F == [x \in PartType \X (1 .. n) |-> StripRaw(words[x[2]], x[1])]
           Step(it) == [s \in SUBSET DOMAIN words |->
                          IF s = {} THEN url_part ELSE StripRaw(words[Max(s)], it[s \ {Max(s)}])]
           it == CHOOSE f : f = Step(f)
<1>1. StripAllRaw(words, url_part) = it[DOMAIN words]
  BY Zenon DEF StripAllRaw, FoldLeft, MapThenFoldSet
<1>2. n \in Nat /\ DOMAIN words = 1 .. n
  BY DEF Texts
<1>3. \A x \in PartType : \A k \in 1 .. n : StripRaw(words[k], x) \in PartType
  BY <1>2, StripRawType
<1>4. /\ F \in [PartType \X (1 .. n) -> PartType]
      /\ \A x \in PartType : \A k \in 1 .. n : F[<<x, k>>] = StripRaw(words[k], x)
  BY <1>3
<1>5. \A s : Max(s) = Largest(s)
  BY DEF Max, Largest
<1>6. it = Step(it)
  <2> HIDE DEF F, n
  <2>1. PICK f : Recursion(f, PartType, n, F, url_part)
    BY <1>2, <1>4, FoldRecursion
  <2>2. \A s \in SUBSET (1 .. n) : f[s] = IF s = {} THEN url_part ELSE StripRaw(words[Max(s)], f[s \ {Max(s)}])
    <3> TAKE s \in SUBSET (1 .. n)
    <3>1. s # {} => /\ Largest(s) \in 1 .. n /\ f[s \ {Largest(s)}] \in PartType
                    /\ f[s] = F[<<f[s \ {Largest(s)}], Largest(s)>>]
      BY <2>1 DEF Recursion
    <3>2. f[{}] = url_part
      BY <2>1 DEF Recursion
    <3> QED
      BY <1>4, <1>5, <3>1, <3>2, Zenon
  <2>3. f = Step(f)
    <3>1. f \in [SUBSET (1 .. n) -> PartType] /\ SUBSET DOMAIN words = SUBSET (1 .. n)
      BY <1>2, <2>1 DEF Recursion
    <3> QED
      BY <2>2, <3>1
  <2> HIDE DEF Step
  <2> QED
    BY <2>3, Zenon
<1> HIDE DEF it
<1>7. it[{}] = url_part
  BY <1>2, <1>6
<1>8. \A s \in SUBSET (1 .. n) : s # {} /\ it[s \ {Largest(s)}] \in PartType =>
              it[s] = F[<<it[s \ {Largest(s)}], Largest(s)>>]
  <2> TAKE s \in SUBSET (1 .. n)
  <2> SUFFICES ASSUME s # {}, it[s \ {Largest(s)}] \in PartType
               PROVE  it[s] = F[<<it[s \ {Largest(s)}], Largest(s)>>]
    OBVIOUS
  <2>1. Largest(s) \in 1 .. n
    BY <1>2, LargestOf
  <2>2. it[s] = StripRaw(words[Max(s)], it[s \ {Max(s)}])
    BY <1>2, <1>6
  <2> HIDE DEF F, n
  <2> QED
    BY <1>4, <1>5, <2>1, <2>2, Zenon
<1> HIDE DEF F, n
<1>9. PICK part : Partials(part, it, PartType, n, F, url_part)
  BY <1>2, <1>4, <1>7, <1>8, FoldPartials
<1>10. \A k \in 1 .. n : part[k] = StripRaw(words[k], part[k - 1])
  <2> TAKE k \in 1 .. n
  <2>1. part[k - 1] \in PartType /\ part[k] = F[<<part[k - 1], k>>]
    <3>1. k - 1 \in 0 .. n
      BY <1>2
    <3>2. part \in [0 .. n -> PartType] /\ \A m \in 1 .. n : part[m] = F[<<part[m - 1], m>>]
      BY <1>9 DEF Partials
    <3> QED
      BY <3>1, <3>2
  <2> QED
    BY <1>4, <2>1, Zenon
<1>11. /\ part \in [0 .. n -> PartType]
       /\ part[0] = url_part /\ part[n] = StripAllRaw(words, url_part)
  BY <1>1, <1>2, <1>9 DEF Partials
<1> QED
  BY <1>10, <1>11 DEF n

LEMMA StripAllType ==
    ASSUME NEW names \in Texts, NEW url_part \in PartType
    PROVE  StripAll(names, url_part) \in PartType /\ StripAllRaw(names, url_part) \in PartType
<1>1. Len(names) \in 0 .. Len(names)
  BY DEF Texts
<1>2. PICK part \in [0 .. Len(names) -> PartType] : part[Len(names)] = StripAll(names, url_part)
  BY StripAllFold
<1>3. PICK raw \in [0 .. Len(names) -> PartType] : raw[Len(names)] = StripAllRaw(names, url_part)
  BY StripAllRawFold
<1> QED
  BY <1>1, <1>2, <1>3

LEMMA StripFieldsType ==
    ASSUME NEW ruleset \in RulesetType, NEW part \in PartType
    PROVE  StripFields(ruleset, part) \in PartType
<1>1. ruleset.rules \in Texts /\ ruleset.referral_marketing \in Texts
  BY DEF RulesetType
<1> DEFINE ruled == IF On("ignore_rules") THEN part ELSE StripAll(ruleset.rules, part)
<1>2. ruled \in PartType
  BY <1>1, StripAllType
<1>3. StripAll(ruleset.referral_marketing, ruled) \in PartType
  <2> HIDE DEF ruled
  <2> QED
    BY <1>1, <1>2, StripAllType
<1> QED
  BY <1>2, <1>3 DEF StripFields

LEMMA Smallest ==
    ASSUME NEW I \in SUBSET Nat, I # {}
    PROVE  (CHOOSE k \in I : \A j \in I : k <= j) \in I /\ Min(I) \in I
<1>1. \E k \in I : \A j \in I : k <= j
  BY Least
<1> QED
  BY <1>1, Zenon DEF Min

LEMMA ParsedType ==
    ASSUME NEW url \in UrlType
    PROVE  parse_uri(url) \in UrlType
<1>1. CASE url.query # Null
  BY <1>1 DEF parse_uri
<1>2. CASE url.query = Null
  <2> DEFINE text == Text(url.path) \o (IF url.fragment = Null THEN <<>>
                                        ELSE <<HASHTAG>> \o url.fragment)
             hits == {k \in 1 .. Len(text) : text[k] = HASHTAG}
             hash == SelectInSeq(text, LAMBDA w : w = HASHTAG)
             fragment == IF hash = 0 THEN Null ELSE OrNull(SubSeq(text, hash + 1, Len(text)))
  <2>1. text \in Texts
    <3>1. url.path \in PartType /\ url.fragment \in PartType
      BY DEF UrlType
    <3>2. <<HASHTAG>> \in Seq(Vocabulary) /\ <<>> \in Seq(Vocabulary)
      BY DEF HASHTAG
    <3>3. Text(url.path) \in Seq(Vocabulary)
      BY <3>1, PartText DEF Texts
    <3>4. url.fragment # Null => url.fragment \in Seq(Vocabulary)
      BY <3>1 DEF PartType, Texts
    <3> QED
      BY <3>2, <3>3, <3>4 DEF Texts
  <2>2. hash = IF hits # {} THEN Min(hits) ELSE 0
    BY Zenon DEF SelectInSeq
  <2> HIDE DEF text, hash
  <2>3. hash \in Nat
    <3>1. hits \in SUBSET Nat /\ \A k \in hits : k \in Nat
      OBVIOUS
    <3> HIDE DEF hits
    <3> QED
      BY <2>2, <3>1, Smallest
  <2>4. SubSeq(text, hash + 1, Len(text)) \in Texts
    BY <2>1, <2>3 DEF Texts
  <2>5. fragment \in PartType /\ OrNull(text) \in PartType
    BY <2>1, <2>4, OrNullType DEF PartType
  <2>6. parse_uri(url) = [url EXCEPT !.path = OrNull(text), !.fragment = fragment]
    BY <1>2 DEF parse_uri, text, hash
  <2> HIDE DEF fragment
  <2> QED
    BY <2>5, <2>6 DEF UrlType
<1> QED
  BY <1>1, <1>2

LEMMA RedirectTargetType ==
    ASSUME NEW ruleset \in RulesetType, NEW url \in UrlType, Redirecting(ruleset, url) # {}
    PROVE  RedirectTarget(ruleset, url) \in UrlType
<1> DEFINE from == Redirecting(ruleset, url)
           n == CHOOSE m \in from : \A j \in from : m <= j
           all == Captures(ruleset.redirections[n], url)
           k == CHOOSE m \in all : \A j \in all : m <= j
<1>1. from \in SUBSET Nat /\ from # {}
  <2>1. DOMAIN ruleset.redirections \in SUBSET Nat
    BY DEF RulesetType, Texts
  <2> QED
    BY <2>1 DEF Redirecting
<1>2. n \in from
  <2> HIDE DEF from
  <2> QED
    BY <1>1, Smallest
<1>3. all # {} /\ all \in SUBSET Nat
  <2>1. all # {}
    BY <1>2 DEF Redirecting
  <2>2. Text(url.query) \in Texts
    BY PartText DEF UrlType
  <2> QED
    BY <2>1, <2>2 DEF Captures, Texts
<1>4. k \in all
  <2> HIDE DEF all
  <2> QED
    BY <1>3, Smallest
<1>5. Text(url.query)[k] \in DOMAIN Quoted
  <2> HIDE DEF k, n
  <2> QED
    BY <1>4 DEF Captures
<1>6. url.query # Null
  <2> SUFFICES ASSUME url.query = Null PROVE FALSE
    OBVIOUS
  <2>1. Text(url.query) = <<>>
    BY DEF Text
  <2> HIDE DEF k, n
  <2> QED
    BY <1>4, <2>1 DEF Captures
<1>7. Quoted[url.query[k]] \in UrlType
  <2> HIDE DEF k
  <2> QED
    BY <1>5, <1>6 DEF Text
<1>8. \A u \in UrlType : WithScheme(u) \in UrlType
  BY DEF WithScheme, UrlType
<1>9. RedirectTarget(ruleset, url) = WithScheme(Quoted[url.query[k]])
  BY DEF RedirectTarget
<1> HIDE DEF k
<1> QED
  BY <1>7, <1>8, <1>9

LEMMA RebuiltType ==
    ASSUME NEW url \in UrlType, NEW text \in Texts
    PROVE  [url EXCEPT !.query = OrNull(text)] \in UrlType
BY OrNullType DEF UrlType

-------------------------------------------------------------------------------
(* What is left of a text when words are dropped, and of a part when rules are *)
(* applied                                                                    *)

(* Nothing is dropped where there is nothing to drop                          *)
LEMMA WithoutNone ==
    ASSUME NEW S, NEW text \in Seq(S), NEW positions, positions \cap DOMAIN text = {}
    PROVE  Without(text, positions) = text
<1> DEFINE n == Len(text)
<1>1a. PICK part : WithoutUpTo(part, S, text, positions)
  BY WithoutFold
<1>1. /\ part \in [0 .. n -> Seq(S)]
      /\ part[0] = <<>> /\ part[n] = Without(text, positions)
      /\ \A k \in 1 .. n :
           part[k] = IF k \in positions THEN part[k - 1] ELSE Append(part[k - 1], text[k])
  BY <1>1a DEF WithoutUpTo
<1> DEFINE Q == {k \in 0 .. n : /\ Len(part[k]) = k
                                /\ \A j \in 1 .. k : part[k][j] = text[j]}
<1>2. n \in Nat /\ DOMAIN text = 1 .. n
  OBVIOUS
<1>3. 0 \in Q
  BY <1>1
<1>4. ASSUME NEW k \in 1 .. n, k - 1 \in Q PROVE k \in Q
  <2> DEFINE before_k == part[k - 1]
  <2>1. k - 1 \in 0 .. n /\ k \notin positions
    BY <1>2
  <2>2. before_k \in Seq(S) /\ part[k] = Append(before_k, text[k])
    BY <1>1, <2>1
  <2>3. Len(before_k) = k - 1 /\ \A j \in 1 .. (k - 1) : before_k[j] = text[j]
    BY <1>4
  <2> HIDE DEF before_k
  <2>4. Len(part[k]) = k /\ \A j \in 1 .. k : part[k][j] = text[j]
    BY <2>2, <2>3
  <2> QED
    BY <2>4
<1>5. n \in Q
  <2> HIDE DEF Q, n
  <2>1. n \in 0 .. n
    BY <1>2
  <2> QED
    BY <1>2, <1>3, <1>4, <2>1, UpToInduction
<1>6. /\ part[n] \in Seq(S) /\ Len(part[n]) = n
      /\ \A j \in 1 .. n : part[n][j] = text[j]
  BY <1>1, <1>5
<1> DEFINE left == part[n]
<1>7. left \in Seq(S) /\ Len(left) = Len(text) /\ \A j \in 1 .. Len(text) : left[j] = text[j]
  BY <1>6
<1> HIDE DEF left
<1>8. left = text
  BY <1>7
<1> QED
  BY <1>1, <1>8 DEF left

LEMMA DroppingType ==
    ASSUME NEW S, NEW text \in Seq(S), NEW words
    PROVE  Dropping(words, text) \in Seq(S)
BY WithoutType DEF Dropping

LEMMA DroppingNone ==
    ASSUME NEW S, NEW text \in Seq(S), NEW words, words \cap ToSet(text) = {}
    PROVE  Dropping(words, text) = text
<1>1. {k \in DOMAIN text : text[k] \in words} \cap DOMAIN text = {}
  BY DEF ToSet
<1> QED
  BY <1>1, WithoutNone DEF Dropping

(* What has been kept of the first k words of a text                          *)
DroppingUpTo(part, S, text, words) ==
    /\ part \in [0 .. Len(text) -> Seq(S)]
    /\ part[0] = <<>> /\ part[Len(text)] = Dropping(words, text)
    /\ \A k \in 1 .. Len(text) :
         part[k] = IF text[k] \in words THEN part[k - 1] ELSE Append(part[k - 1], text[k])

LEMMA DroppingFold ==
    ASSUME NEW S, NEW text \in Seq(S), NEW words
    PROVE  \E part : DroppingUpTo(part, S, text, words)
<1> DEFINE positions == {k \in DOMAIN text : text[k] \in words}
<1>1. \A k \in 1 .. Len(text) : k \in positions <=> text[k] \in words
  OBVIOUS
<1>2. Dropping(words, text) = Without(text, positions)
  BY DEF Dropping
<1> HIDE DEF positions
<1>3. PICK part : WithoutUpTo(part, S, text, positions)
  BY WithoutFold
<1>4. \A k \in 1 .. Len(text) :
        part[k] = IF text[k] \in words THEN part[k - 1] ELSE Append(part[k - 1], text[k])
  BY <1>1, <1>3 DEF WithoutUpTo
<1> QED
  BY <1>2, <1>3, <1>4 DEF WithoutUpTo, DroppingUpTo

LEMMA DroppingAppend ==
    ASSUME NEW S, NEW text \in Seq(S), NEW x \in S, NEW words
    PROVE  Dropping(words, Append(text, x)) = IF x \in words THEN Dropping(words, text)
                                              ELSE Append(Dropping(words, text), x)
<1> DEFINE n == Len(text)
           more == Append(text, x)
<1>1. n \in Nat /\ more \in Seq(S) /\ Len(more) = n + 1 /\ more[n + 1] = x
      /\ \A k \in 1 .. n : more[k] = text[k]
  OBVIOUS
<1>2a. PICK p : DroppingUpTo(p, S, text, words)
  BY DroppingFold
<1>2. /\ p \in [0 .. n -> Seq(S)]
      /\ p[0] = <<>> /\ p[n] = Dropping(words, text)
      /\ \A k \in 1 .. n :
           p[k] = IF text[k] \in words THEN p[k - 1] ELSE Append(p[k - 1], text[k])
  BY <1>2a DEF DroppingUpTo
<1> HIDE DEF more
<1>3a. PICK q : DroppingUpTo(q, S, more, words)
  BY <1>1, DroppingFold
<1>3. /\ q \in [0 .. Len(more) -> Seq(S)]
      /\ q[0] = <<>> /\ q[Len(more)] = Dropping(words, more)
      /\ \A k \in 1 .. Len(more) :
           q[k] = IF more[k] \in words THEN q[k - 1] ELSE Append(q[k - 1], more[k])
  BY <1>3a DEF DroppingUpTo
<1> HIDE DEF n
<1> DEFINE Q == {k \in 0 .. n : p[k] = q[k]}
<1>4. 0 \in Q
  BY <1>1, <1>2, <1>3
<1>5. ASSUME NEW k \in 1 .. n, k - 1 \in Q PROVE k \in Q
  <2>1. k \in 1 .. Len(more) /\ more[k] = text[k] /\ p[k - 1] = q[k - 1] /\ k \in 0 .. n
    BY <1>1, <1>5
  <2>2. q[k] = IF text[k] \in words THEN q[k - 1] ELSE Append(q[k - 1], text[k])
    BY <1>3, <2>1, Zenon
  <2>3. p[k] = IF text[k] \in words THEN p[k - 1] ELSE Append(p[k - 1], text[k])
    BY <1>2
  <2> QED
    BY <2>1, <2>2, <2>3
<1>6. n \in Q
  <2> HIDE DEF Q
  <2>1. n \in 0 .. n
    BY <1>1
  <2> QED
    BY <1>1, <1>4, <1>5, <2>1, UpToInduction
<1>7. n + 1 \in 1 .. Len(more) /\ (n + 1) - 1 = n
  BY <1>1
<1>8. q[n + 1] = IF x \in words THEN q[n] ELSE Append(q[n], x)
  BY <1>1, <1>3, <1>7
<1> QED
  BY <1>1, <1>2, <1>3, <1>6, <1>8 DEF more

(* Dropping one set of words and then another is dropping both                *)
LEMMA DroppingTwice ==
    ASSUME NEW S, NEW text \in Seq(S), NEW A, NEW B
    PROVE  Dropping(B, Dropping(A, text)) = Dropping(A \cup B, text)
<1> DEFINE n == Len(text)
<1>1. n \in Nat /\ \A k \in 1 .. n : text[k] \in S
  OBVIOUS
<1>2a. PICK p : DroppingUpTo(p, S, text, A)
  BY DroppingFold
<1>2. /\ p \in [0 .. n -> Seq(S)]
      /\ p[0] = <<>> /\ p[n] = Dropping(A, text)
      /\ \A k \in 1 .. n :
           p[k] = IF text[k] \in A THEN p[k - 1] ELSE Append(p[k - 1], text[k])
  BY <1>2a DEF DroppingUpTo
<1>3a. PICK q : DroppingUpTo(q, S, text, A \cup B)
  BY DroppingFold
<1>3. /\ q \in [0 .. n -> Seq(S)]
      /\ q[0] = <<>> /\ q[n] = Dropping(A \cup B, text)
      /\ \A k \in 1 .. n :
           q[k] = IF text[k] \in A \cup B THEN q[k - 1] ELSE Append(q[k - 1], text[k])
  BY <1>3a DEF DroppingUpTo
<1> HIDE DEF n
<1> DEFINE Q == {k \in 0 .. n : Dropping(B, p[k]) = q[k]}
<1>4. 0 \in Q
  <2>1. <<>> \in Seq(S) /\ ToSet(<<>>) = {}
    BY DEF ToSet
  <2>2. Dropping(B, <<>>) = <<>>
    BY <2>1, DroppingNone
  <2> QED
    BY <1>1, <1>2, <1>3, <2>2
<1>5. ASSUME NEW k \in 1 .. n, k - 1 \in Q PROVE k \in Q
  <2> DEFINE x == text[k]
             s == p[k - 1]
             t == q[k - 1]
  <2>1. k - 1 \in 0 .. n /\ k \in 0 .. n /\ x \in S /\ s \in Seq(S)
    BY <1>1, <1>2
  <2>2. Dropping(B, s) = t
    BY <1>5
  <2>3. p[k] = IF x \in A THEN s ELSE Append(s, x)
    BY <1>2
  <2>4. q[k] = IF x \in A \cup B THEN t ELSE Append(t, x)
    BY <1>3
  <2> HIDE DEF x, s, t
  <2>5. Dropping(B, Append(s, x)) = IF x \in B THEN t ELSE Append(t, x)
    BY <2>1, <2>2, DroppingAppend
  <2>6. Dropping(B, p[k]) = q[k]
    <3>1. CASE x \in A
      BY <2>2, <2>3, <2>4, <3>1
    <3>2. CASE x \notin A
      BY <2>3, <2>4, <2>5, <3>2
    <3> QED
      BY <3>1, <3>2
  <2> QED
    BY <2>1, <2>6
<1>6. n \in Q
  <2> HIDE DEF Q
  <2>1. n \in 0 .. n
    BY <1>1
  <2> QED
    BY <1>1, <1>4, <1>5, <2>1, UpToInduction
<1> QED
  BY <1>2, <1>3, <1>6

LEMMA TextOfOrNull ==
    /\ \A text \in Texts : Text(OrNull(text)) = text
    /\ \A part \in PartType : OrNull(Text(part)) = part
BY DEF Text, OrNull, PartType, Texts

(* The raw rules of a ruleset together                                        *)
LEMMA StripAllRawIs ==
    ASSUME NEW words \in Texts, NEW url_part \in PartType
    PROVE  StripAllRaw(words, url_part) = OrNull(Dropping(ToSet(words), Text(url_part)))
<1> DEFINE n == Len(words)
           text == Text(url_part)
           gone(k) == {words[j] : j \in 1 .. k}
<1>1. n \in Nat /\ ToSet(words) = gone(n)
  BY DEF Texts, ToSet
<1>2. text \in Texts /\ OrNull(text) = url_part
  BY PartText, TextOfOrNull
<1>3. PICK part \in [0 .. n -> PartType] :
        /\ part[0] = url_part /\ part[n] = StripAllRaw(words, url_part)
        /\ \A k \in 1 .. n : part[k] = StripRaw(words[k], part[k - 1])
  BY StripAllRawFold
<1>4. \A w : Dropping(w, text) \in Texts
  BY <1>2, DroppingType DEF Texts
<1> HIDE DEF n, text
<1> DEFINE Q == {k \in 0 .. n : part[k] = OrNull(Dropping(gone(k), text))}
<1>5. 0 \in Q
  <2>1. gone(0) = {}
    OBVIOUS
  <2>2. Dropping(gone(0), text) = text
    BY <1>2, <2>1, DroppingNone DEF Texts
  <2> QED
    BY <1>1, <1>2, <1>3, <2>2
<1>6. ASSUME NEW k \in 1 .. n, k - 1 \in Q PROVE k \in Q
  <2>1. k \in 0 .. n /\ part[k - 1] = OrNull(Dropping(gone(k - 1), text))
    BY <1>6
  <2>2. gone(k) = gone(k - 1) \cup {words[k]}
    <3>1. 1 .. k = (1 .. (k - 1)) \cup {k}
      BY <1>1
    <3> QED
      BY <3>1
  <2> HIDE DEF gone
  <2>3. Text(part[k - 1]) = Dropping(gone(k - 1), text)
    BY <1>4, <2>1, TextOfOrNull
  <2>4. part[k] = OrNull(Dropping({words[k]}, Dropping(gone(k - 1), text)))
    BY <1>3, <2>3 DEF StripRaw
  <2>5. Dropping({words[k]}, Dropping(gone(k - 1), text)) = Dropping(gone(k), text)
    BY <1>2, <2>2, DroppingTwice DEF Texts
  <2> QED
    BY <2>1, <2>4, <2>5
<1>7. n \in Q
  <2> HIDE DEF Q
  <2>1. n \in 0 .. n
    BY <1>1
  <2> QED
    BY <1>1, <1>5, <1>6, <2>1, UpToInduction
<1> QED
  BY <1>1, <1>3, <1>7 DEF text

(* Rules whose names do not stand in a part leave it as it is                 *)
LEMMA StripFieldUntouched ==
    ASSUME NEW part \in PartType, NEW name, name \notin ToSet(Text(part))
    PROVE  StripField(name, part) = part
<1> DEFINE text == Text(part)
           positions == UNION {MatchAt(k, text) : k \in Named(name, text)}
<1>1. text \in Texts /\ OrNull(text) = part
  BY PartText, TextOfOrNull
<1>2. Named(name, text) = {}
  BY DEF Named, ToSet
<1>3. positions \cap DOMAIN text = {}
  BY <1>2
<1>4. StripField(name, part) = OrNull(Without(text, positions))
  BY DEF StripField
<1> HIDE DEF text, positions
<1> QED
  BY <1>1, <1>3, <1>4, WithoutNone DEF Texts

LEMMA StripAllUntouched ==
    ASSUME NEW names \in Texts, NEW url_part \in PartType,
           ToSet(names) \cap ToSet(Text(url_part)) = {}
    PROVE  StripAll(names, url_part) = url_part
<1> DEFINE n == Len(names)
<1>1. n \in Nat /\ \A k \in 1 .. n : names[k] \notin ToSet(Text(url_part))
  BY DEF Texts, ToSet
<1>2. PICK part \in [0 .. n -> PartType] :
        /\ part[0] = url_part /\ part[n] = StripAll(names, url_part)
        /\ \A k \in 1 .. n : part[k] = StripField(names[k], part[k - 1])
  BY StripAllFold
<1> HIDE DEF n
<1> DEFINE Q == {k \in 0 .. n : part[k] = url_part}
<1>3. 0 \in Q
  BY <1>1, <1>2
<1>4. \A k \in 1 .. n : k - 1 \in Q => k \in Q
  BY <1>1, <1>2, StripFieldUntouched
<1>5. n \in Q
  <2> HIDE DEF Q
  <2>1. n \in 0 .. n
    BY <1>1
  <2> QED
    BY <1>1, <1>3, <1>4, <2>1, UpToInduction
<1> QED
  BY <1>2, <1>5

LEMMA StripFieldsUntouched ==
    ASSUME NEW ruleset \in RulesetType, NEW part \in PartType,
           Names({ruleset}) \cap ToSet(Text(part)) = {}
    PROVE  StripFields(ruleset, part) = part
<1>1. ruleset.rules \in Texts /\ ruleset.referral_marketing \in Texts
  BY DEF RulesetType
<1>2. /\ ~On("ignore_rules") => ToSet(ruleset.rules) \cap ToSet(Text(part)) = {}
      /\ ~On("ignore_referral_marketing") =>
           ToSet(ruleset.referral_marketing) \cap ToSet(Text(part)) = {}
  BY DEF Names
<1>3. ~On("ignore_rules") => StripAll(ruleset.rules, part) = part
  BY <1>1, <1>2, StripAllUntouched
<1>4. ~On("ignore_referral_marketing") => StripAll(ruleset.referral_marketing, part) = part
  BY <1>1, <1>2, StripAllUntouched
<1> QED
  BY <1>3, <1>4, Zenon DEF StripFields

-------------------------------------------------------------------------------
(* The fields of a query                                                      *)

(* The places of the "&" in a text, and 0                                     *)
Cuts(text) ==
    FoldLeftDomain(LAMBDA c, i : IF text[i] = AND THEN Append(c, i) ELSE c, <<0>>, text)

FieldType == [key : Texts, value : Texts]

LEMMA CutsFold ==
    ASSUME NEW text \in Texts
    PROVE  \E part \in [0 .. Len(text) -> Seq(Nat)] :
             /\ part[0] = <<0>> /\ part[Len(text)] = Cuts(text)
             /\ \A k \in 1 .. Len(text) :
                  part[k] = IF text[k] = AND THEN Append(part[k - 1], k) ELSE part[k - 1]
<1> DEFINE n == Len(text)
           F == [x \in Seq(Nat) \X (1 .. n) |->
                   IF text[x[2]] = AND THEN Append(x[1], x[2]) ELSE x[1]]
           at == [i \in DOMAIN text |-> i]
           Step(it) == [s \in SUBSET DOMAIN at |->
                          IF s = {} THEN <<0>>
                          ELSE IF text[at[Max(s)]] = AND THEN Append(it[s \ {Max(s)}], at[Max(s)]) ELSE it[s \ {Max(s)}]]
           it == CHOOSE f : f = Step(f)
<1>1. Cuts(text) = it[DOMAIN at]
  BY Zenon DEF Cuts, FoldLeftDomain, FoldLeft, MapThenFoldSet
<1>2. n \in Nat /\ DOMAIN at = 1 .. n /\ DOMAIN text = 1 .. n /\ \A k \in 1 .. n : at[k] = k
  BY DEF Texts
<1>3. F \in [Seq(Nat) \X (1 .. n) -> Seq(Nat)]
  OBVIOUS
<1>4. \A x \in Seq(Nat) : \A k \in 1 .. n :
         F[<<x, k>>] = IF text[k] = AND THEN Append(x, k) ELSE x
  OBVIOUS
<1>5. \A s : Max(s) = Largest(s)
  BY DEF Max, Largest
<1>6. it = Step(it)
  <2> HIDE DEF F, n
  <2>1. <<0>> \in Seq(Nat)
    OBVIOUS
  <2>2. PICK f : Recursion(f, Seq(Nat), n, F, <<0>>)
    BY <1>2, <1>3, <2>1, FoldRecursion
  <2>3. \A s \in SUBSET (1 .. n) :
           f[s] = IF s = {} THEN <<0>>
                  ELSE IF text[at[Max(s)]] = AND THEN Append(f[s \ {Max(s)}], at[Max(s)]) ELSE f[s \ {Max(s)}]
    <3> TAKE s \in SUBSET (1 .. n)
    <3> HIDE DEF at
    <3>1. s # {} => /\ Largest(s) \in 1 .. n /\ f[s \ {Largest(s)}] \in Seq(Nat)
                    /\ f[s] = F[<<f[s \ {Largest(s)}], Largest(s)>>]
      BY <2>2 DEF Recursion
    <3>2. f[{}] = <<0>>
      BY <2>2 DEF Recursion
    <3>3. CASE s = {}
      BY <3>2, <3>3
    <3>4. CASE s # {}
      <4>1. F[<<f[s \ {Largest(s)}], Largest(s)>>]
              = IF text[Largest(s)] = AND THEN Append(f[s \ {Largest(s)}], Largest(s))
                ELSE f[s \ {Largest(s)}]
        BY <1>4, <3>1, <3>4, Zenon
      <4>2. at[Max(s)] = Largest(s) /\ Max(s) = Largest(s)
        BY <1>2, <1>5, <3>1, <3>4
      <4> QED
        BY <3>1, <3>4, <4>1, <4>2, Zenon
    <3> QED
      BY <3>3, <3>4
  <2>4. f = Step(f)
    <3>1. f \in [SUBSET (1 .. n) -> Seq(Nat)] /\ SUBSET DOMAIN at = SUBSET (1 .. n)
      BY <1>2, <2>2 DEF Recursion
    <3> HIDE DEF at
    <3> QED
      BY <2>3, <3>1
  <2> HIDE DEF Step
  <2> QED
    BY <2>4, Zenon
<1> HIDE DEF it
<1>7. it[{}] = <<0>>
  BY <1>2, <1>6
<1>8. \A s \in SUBSET (1 .. n) : s # {} /\ it[s \ {Largest(s)}] \in Seq(Nat) =>
              it[s] = F[<<it[s \ {Largest(s)}], Largest(s)>>]
  <2> TAKE s \in SUBSET (1 .. n)
  <2> SUFFICES ASSUME s # {}, it[s \ {Largest(s)}] \in Seq(Nat)
               PROVE  it[s] = F[<<it[s \ {Largest(s)}], Largest(s)>>]
    OBVIOUS
  <2>1. Largest(s) \in 1 .. n
    BY <1>2, LargestOf
  <2>2. it[s] = IF text[at[Max(s)]] = AND THEN Append(it[s \ {Max(s)}], at[Max(s)]) ELSE it[s \ {Max(s)}]
    BY <1>2, <1>6
  <2> HIDE DEF F, at, n
  <2>3. F[<<it[s \ {Largest(s)}], Largest(s)>>]
          = IF text[Largest(s)] = AND THEN Append(it[s \ {Largest(s)}], Largest(s)) ELSE it[s \ {Largest(s)}]
    BY <1>4, <2>1, Zenon
  <2>4. at[Max(s)] = Largest(s) /\ Max(s) = Largest(s)
    BY <1>2, <1>5, <2>1
  <2> QED
    BY <2>2, <2>3, <2>4, Zenon
<1>9. <<0>> \in Seq(Nat)
  OBVIOUS
<1> HIDE DEF F, at, n
<1>10. PICK part : Partials(part, it, Seq(Nat), n, F, <<0>>)
  BY <1>2, <1>3, <1>7, <1>8, <1>9, FoldPartials
<1>11. \A k \in 1 .. n : part[k - 1] \in Seq(Nat)
  BY <1>2, <1>10 DEF Partials
<1>12. \A k \in 1 .. n :
           part[k] = IF text[k] = AND THEN Append(part[k - 1], k) ELSE part[k - 1]
  BY <1>4, <1>10, <1>11 DEF Partials
<1>13. /\ part \in [0 .. n -> Seq(Nat)]
       /\ part[0] = <<0>> /\ part[n] = Cuts(text)
  BY <1>1, <1>2, <1>10 DEF Partials
<1> QED
  BY <1>12, <1>13 DEF n

(* A sequence of places from 0 up to k, each after the one before it          *)
Ascending(c, k) ==
    /\ c \in Seq(Nat) /\ Len(c) \in 1 .. (k + 1)
    /\ c[1] = 0 /\ c[Len(c)] <= k
    /\ \A i \in 1 .. Len(c) - 1 : c[i] < c[i + 1]

LEMMA CutsAscend ==
    ASSUME NEW text \in Texts
    PROVE  Ascending(Cuts(text), Len(text))
<1> DEFINE n == Len(text)
<1>1. n \in Nat /\ n \in 0 .. n
  BY DEF Texts
<1>2. PICK part \in [0 .. n -> Seq(Nat)] :
             /\ part[0] = <<0>> /\ part[n] = Cuts(text)
             /\ \A k \in 1 .. n : part[k] = IF text[k] = AND THEN Append(part[k - 1], k) ELSE part[k - 1]
  BY CutsFold
<1> DEFINE Q == {k \in 0 .. n : Ascending(part[k], k)}
<1>3. 0 \in Q
  BY <1>1, <1>2 DEF Ascending
<1>4. ASSUME NEW k \in 1 .. n, k - 1 \in Q PROVE k \in Q
  <2> DEFINE old == part[k - 1]
  <2>1. k \in 0 .. n /\ k \in Nat /\ Ascending(old, k - 1) /\ old \in Seq(Nat)
    <3>1. k \in 0 .. n /\ k \in Nat
      BY <1>1
    <3>2. Ascending(part[k - 1], k - 1)
      BY <1>4
    <3> QED
      BY <3>1, <3>2 DEF Ascending
  <2>2. part[k] = IF text[k] = AND THEN Append(old, k) ELSE old
    BY <1>2
  <2> HIDE DEF old
  <2>3. Ascending(old, k)
    BY <2>1 DEF Ascending
  <2>4. Ascending(Append(old, k), k)
    <3> DEFINE c == Append(old, k)
    <3>1. /\ c \in Seq(Nat) /\ Len(c) = Len(old) + 1 /\ c[Len(c)] = k
          /\ \A i \in 1 .. Len(old) : c[i] = old[i]
      BY <2>1
    <3>2. Len(old) \in 1 .. k /\ old[1] = 0 /\ old[Len(old)] <= k - 1 /\ old[Len(old)] \in Nat
      BY <2>1 DEF Ascending
    <3>3. \A i \in 1 .. Len(c) - 1 : c[i] < c[i + 1]
      <4> HIDE DEF c
      <4> TAKE i \in 1 .. Len(c) - 1
      <4>1. CASE i = Len(old)
        BY <2>1, <3>1, <3>2, <4>1
      <4>2. CASE i # Len(old)
        <5>1. i \in 1 .. Len(old) - 1 /\ i + 1 \in 1 .. Len(old)
          BY <3>1, <3>2, <4>2
        <5>2. old[i] < old[i + 1]
          BY <2>1, <5>1 DEF Ascending
        <5> QED
          BY <3>1, <5>1, <5>2
      <4> QED
        BY <4>1, <4>2
    <3> HIDE DEF c
    <3>4. Ascending(c, k)
      BY <2>1, <3>1, <3>2, <3>3 DEF Ascending
    <3> QED
      BY <3>4 DEF c
  <2> QED
    BY <2>1, <2>2, <2>3, <2>4
<1>5. n \in Q
  <2> HIDE DEF Q
  <2> QED
    BY <1>1, <1>3, <1>4, UpToInduction
<1> QED
  BY <1>2, <1>5

(* The key and the value of a field have no more characters than its text     *)
LEMMA FieldFits ==
    ASSUME NEW text \in Texts
    PROVE  /\ ParseField(text) \in FieldType
           /\ Len(ParseField(text).key) + Len(ParseField(text).value) <= Len(text)
<1> DEFINE equals == {k \in DOMAIN text : text[k] = EQUAL} \cup {Len(text) + 1}
           sep == CHOOSE k \in equals : \A j \in equals : k <= j
           key == SubSeq(text, 1, sep - 1)
           value == SubSeq(text, sep + 1, Len(text))
<1>1. Len(text) \in Nat /\ DOMAIN text = 1 .. Len(text)
  BY DEF Texts
<1>2. equals \in SUBSET (1 .. Len(text) + 1) /\ equals # {}
  BY <1>1
<1>3. sep \in equals
  <2>1. equals \in SUBSET Nat
    BY <1>1, <1>2
  <2> HIDE DEF equals
  <2> QED
    BY <1>2, <2>1, Smallest
<1>4. sep \in 1 .. Len(text) + 1
  <2> HIDE DEF sep, equals
  <2> QED
    BY <1>2, <1>3
<1>5. ParseField(text) = [key |-> key, value |-> value]
  BY DEF ParseField
<1> HIDE DEF sep
<1>6. key \in Texts /\ value \in Texts /\ Len(key) = sep - 1
      /\ Len(value) = IF sep >= Len(text) THEN 0 ELSE Len(text) - sep
  BY <1>1, <1>4 DEF Texts
<1> HIDE DEF key, value
<1>7. Len(key) + Len(value) <= Len(text)
  <2>1. CASE sep >= Len(text)
    BY <1>1, <1>4, <1>6, <2>1
  <2>2. CASE ~(sep >= Len(text))
    BY <1>1, <1>4, <1>6, <2>2
  <2> QED
    BY <2>1, <2>2
<1> QED
  BY <1>5, <1>6, <1>7 DEF FieldType

(* How the fields of a text stand between its cuts                            *)
LEMMA QueryParsed ==
    ASSUME NEW text \in Texts
    PROVE  LET cuts == Cuts(text) \o <<Len(text) + 1>>
               fields == query_parse(text)
           IN  /\ fields \in Seq(FieldType) /\ Len(fields) = Len(Cuts(text))
               /\ Len(fields) \in 1 .. Len(text) + 1
               /\ cuts[1] = 0 /\ cuts[Len(fields) + 1] = Len(text) + 1
               /\ \A k \in 1 .. Len(fields) :
                    /\ cuts[k] \in Nat /\ cuts[k + 1] \in Nat
                    /\ Len(fields[k].key) + Len(fields[k].value) <= cuts[k + 1] - cuts[k] - 1
<1> DEFINE c == Cuts(text)
           n == Len(c)
           cuts == c \o <<Len(text) + 1>>
           fields == query_parse(text)
<1>1. Ascending(c, Len(text)) /\ Len(text) \in Nat
  BY CutsAscend DEF Texts
<1>2. c \in Seq(Nat) /\ n \in 1 .. Len(text) + 1 /\ n \in Nat
  BY <1>1 DEF Ascending
<1>3. Split(text) = [k \in 1 .. (Len(cuts) - 1) |-> SubSeq(text, cuts[k] + 1, cuts[k + 1] - 1)]
  BY DEF Split, Cuts
<1> HIDE DEF c
<1>4. /\ Len(cuts) = n + 1 /\ \A k \in 1 .. n : cuts[k] = c[k] /\ cuts[k] \in Nat
      /\ cuts[n + 1] = Len(text) + 1
  BY <1>1, <1>2
<1>5. \A k \in 1 .. n : cuts[k + 1] \in Nat /\ cuts[k] < cuts[k + 1] /\ cuts[k + 1] <= Len(text) + 1
  <2> TAKE k \in 1 .. n
  <2>1. \A i \in 1 .. n : c[i] <= Len(text)
    <3> DEFINE Q == {j \in 0 .. n - 1 : c[n - j] <= Len(text)}
    <3>1. 0 \in Q
      BY <1>1, <1>2 DEF Ascending
    <3>2. ASSUME NEW j \in 1 .. n - 1, j - 1 \in Q PROVE j \in Q
      <4>1. PICK i \in 1 .. Len(c) - 1 : i = n - j /\ i + 1 = n - (j - 1)
        <5>1. n - j \in 1 .. n - 1 /\ (n - j) + 1 = n - (j - 1)
          BY <1>2
        <5> QED
          BY <5>1
      <4>2. c[i] < c[i + 1] /\ c[i] \in Nat /\ c[i + 1] \in Nat
        <5>1. \A m \in 1 .. Len(c) - 1 : c[m] < c[m + 1]
          BY <1>1 DEF Ascending
        <5>2. \A m \in 1 .. Len(c) - 1 : c[m] \in Nat /\ c[m + 1] \in Nat
          <6>1. \A x \in Seq(Nat) : \A m \in 1 .. Len(x) - 1 : x[m] \in Nat /\ x[m + 1] \in Nat
            OBVIOUS
          <6> QED
            BY <1>2, <6>1, Zenon
        <5> QED
          BY <5>1, <5>2, Zenon
      <4>3. c[i + 1] <= Len(text)
        BY <3>2, <4>1
      <4> QED
        BY <1>1, <4>1, <4>2, <4>3
    <3>3. \A j \in 0 .. n - 1 : j \in Q
      <4>1. n - 1 \in Nat
        BY <1>2
      <4> HIDE DEF Q
      <4> QED
        BY <3>1, <3>2, <4>1, UpToInduction
    <3> TAKE i \in 1 .. n
    <3>4. n - i \in 0 .. n - 1 /\ n - (n - i) = i
      BY <1>2
    <3>5. n - i \in Q
      <4> HIDE DEF Q
      <4> QED
        BY <3>3, <3>4
    <3> QED
      BY <3>4, <3>5
  <2>2. CASE k = n
    BY <1>1, <1>4, <2>1, <2>2
  <2>3. CASE k # n
    <3>1. k \in 1 .. Len(c) - 1 /\ k + 1 \in 1 .. n
      BY <1>2, <2>3
    <3> QED
      BY <1>1, <1>4, <2>1, <3>1 DEF Ascending
  <2> QED
    BY <2>2, <2>3
<1>6. cuts[1] = 0
  BY <1>1, <1>2, <1>4 DEF Ascending
<1> HIDE DEF cuts
<1>7. \A k \in 1 .. n : /\ SubSeq(text, cuts[k] + 1, cuts[k + 1] - 1) \in Texts
                        /\ Len(SubSeq(text, cuts[k] + 1, cuts[k + 1] - 1)) = cuts[k + 1] - cuts[k] - 1
  <2> TAKE k \in 1 .. n
  <2>1. /\ cuts[k] \in Nat /\ cuts[k + 1] \in Nat /\ cuts[k] < cuts[k + 1]
        /\ cuts[k + 1] <= Len(text) + 1
    BY <1>4, <1>5
  <2>2. \A a \in 1 .. Len(text) + 1 : \A b \in 0 .. Len(text) : a <= b + 1 =>
           SubSeq(text, a, b) \in Texts /\ Len(SubSeq(text, a, b)) = b - a + 1
    BY <1>1 DEF Texts
  <2> DEFINE a == cuts[k] + 1
             b == cuts[k + 1] - 1
  <2>3. /\ a \in 1 .. Len(text) + 1 /\ b \in 0 .. Len(text) /\ a <= b + 1
        /\ b - a + 1 = cuts[k + 1] - cuts[k] - 1
    <3>1. \A len \in Nat : \A lo, hi \in Nat : lo < hi /\ hi <= len + 1 =>
             /\ lo + 1 \in 1 .. len + 1 /\ hi - 1 \in 0 .. len /\ lo + 1 <= (hi - 1) + 1
             /\ (hi - 1) - (lo + 1) + 1 = hi - lo - 1
      OBVIOUS
    <3> QED
      BY <1>1, <2>1, <3>1, Zenon
  <2> HIDE DEF a, b
  <2>4. SubSeq(text, a, b) \in Texts /\ Len(SubSeq(text, a, b)) = cuts[k + 1] - cuts[k] - 1
    BY <2>2, <2>3
  <2> QED
    BY <2>4 DEF a, b
<1>8. fields = [k \in 1 .. n |-> ParseField(SubSeq(text, cuts[k] + 1, cuts[k + 1] - 1))]
  BY <1>2, <1>3, <1>4 DEF query_parse
<1>9. \A k \in 1 .. n :
        /\ ParseField(SubSeq(text, cuts[k] + 1, cuts[k + 1] - 1)) \in FieldType
        /\ Len(ParseField(SubSeq(text, cuts[k] + 1, cuts[k + 1] - 1)).key)
             + Len(ParseField(SubSeq(text, cuts[k] + 1, cuts[k + 1] - 1)).value)
             <= cuts[k + 1] - cuts[k] - 1
  BY <1>7, FieldFits
<1> HIDE DEF fields
<1>10. fields \in Seq(FieldType) /\ Len(fields) = n
  <2>1. fields \in [1 .. n -> FieldType]
    BY <1>8, <1>9
  <2>2. \A m \in Nat : \A x \in [1 .. m -> FieldType] : x \in Seq(FieldType) /\ Len(x) = m
    OBVIOUS
  <2> QED
    BY <1>2, <2>1, <2>2, Zenon
<1>11. \A k \in 1 .. n : Len(fields[k].key) + Len(fields[k].value) <= cuts[k + 1] - cuts[k] - 1
  BY <1>8, <1>9
<1> QED
  BY <1>2, <1>4, <1>5, <1>6, <1>10, <1>11 DEF c, cuts, fields

-------------------------------------------------------------------------------
(* The rebuilt query                                                          *)

LEMMA KeepFieldType ==
    \A kept \in Seq(FieldType) : \A field \in FieldType : KeepField(kept, field) \in Seq(FieldType)
BY DEF KeepField

LEMMA AppendFieldType ==
    \A text \in Texts : \A field \in FieldType : AppendField(text, field) \in Texts
<1>1. <<EQUAL>> \in Texts /\ <<AND>> \in Texts /\ <<>> \in Texts
  BY DEF Texts, EQUAL, AND
<1>2. \A a, b \in Texts : a \o b \in Texts
  BY DEF Texts
<1> QED
  BY <1>1, <1>2 DEF AppendField, FieldType

LEMMA Nothing == <<>> \in Texts /\ <<>> \in Seq(FieldType)
BY DEF Texts

LEMMA KeepFold ==
    ASSUME NEW fields \in Seq(FieldType)
    PROVE  \E part \in [0 .. Len(fields) -> Seq(FieldType)] :
             /\ part[0] = <<>> /\ part[Len(fields)] = FoldLeft(KeepField, <<>>, fields)
             /\ \A k \in 1 .. Len(fields) : part[k] = KeepField(part[k - 1], fields[k])
<1> DEFINE n == Len(fields)
           F == [x \in Seq(FieldType) \X (1 .. n) |-> KeepField(x[1], fields[x[2]])]
           Step(it) == [s \in SUBSET DOMAIN fields |->
                          IF s = {} THEN <<>> ELSE KeepField(it[s \ {Max(s)}], fields[Max(s)])]
           it == CHOOSE f : f = Step(f)
<1>1. FoldLeft(KeepField, <<>>, fields) = it[DOMAIN fields]
  BY Zenon DEF FoldLeft, MapThenFoldSet
<1>2. n \in Nat /\ DOMAIN fields = 1 .. n /\ \A k \in 1 .. n : fields[k] \in FieldType
  OBVIOUS
<1>3. \A x \in Seq(FieldType) : \A k \in 1 .. n : KeepField(x, fields[k]) \in Seq(FieldType)
  BY <1>2, KeepFieldType
<1>4. /\ F \in [Seq(FieldType) \X (1 .. n) -> Seq(FieldType)]
      /\ \A x \in Seq(FieldType) : \A k \in 1 .. n : F[<<x, k>>] = KeepField(x, fields[k])
  BY <1>3
<1>5. \A s : Max(s) = Largest(s)
  BY DEF Max, Largest
<1>6. it = Step(it)
  <2> HIDE DEF F, n
  <2>1. PICK f : Recursion(f, Seq(FieldType), n, F, <<>>)
    BY <1>2, <1>4, Nothing, FoldRecursion
  <2>2. \A s \in SUBSET (1 .. n) : f[s] = IF s = {} THEN <<>> ELSE KeepField(f[s \ {Max(s)}], fields[Max(s)])
    <3> TAKE s \in SUBSET (1 .. n)
    <3>1. s # {} => /\ Largest(s) \in 1 .. n /\ f[s \ {Largest(s)}] \in Seq(FieldType)
                    /\ f[s] = F[<<f[s \ {Largest(s)}], Largest(s)>>]
      BY <2>1 DEF Recursion
    <3>2. f[{}] = <<>>
      BY <2>1 DEF Recursion
    <3> QED
      BY <1>4, <1>5, <3>1, <3>2, Zenon
  <2>3. f = Step(f)
    <3>1. f \in [SUBSET (1 .. n) -> Seq(FieldType)] /\ SUBSET DOMAIN fields = SUBSET (1 .. n)
      BY <1>2, <2>1 DEF Recursion
    <3> QED
      BY <2>2, <3>1
  <2> HIDE DEF Step
  <2> QED
    BY <2>3, Zenon
<1> HIDE DEF it
<1>7. it[{}] = <<>>
  BY <1>2, <1>6
<1>8. \A s \in SUBSET (1 .. n) : s # {} /\ it[s \ {Largest(s)}] \in Seq(FieldType) =>
              it[s] = F[<<it[s \ {Largest(s)}], Largest(s)>>]
  <2> TAKE s \in SUBSET (1 .. n)
  <2> SUFFICES ASSUME s # {}, it[s \ {Largest(s)}] \in Seq(FieldType)
               PROVE  it[s] = F[<<it[s \ {Largest(s)}], Largest(s)>>]
    OBVIOUS
  <2>1. Largest(s) \in 1 .. n
    BY <1>2, LargestOf
  <2>2. it[s] = KeepField(it[s \ {Max(s)}], fields[Max(s)])
    BY <1>2, <1>6
  <2> HIDE DEF F, n
  <2> QED
    BY <1>4, <1>5, <2>1, <2>2, Zenon
<1> HIDE DEF F, n
<1>9. PICK part : Partials(part, it, Seq(FieldType), n, F, <<>>)
  BY <1>2, <1>4, <1>7, <1>8, Nothing, FoldPartials
<1>10. \A k \in 1 .. n : part[k] = KeepField(part[k - 1], fields[k])
  <2> TAKE k \in 1 .. n
  <2>1. part[k - 1] \in Seq(FieldType) /\ part[k] = F[<<part[k - 1], k>>]
    <3>1. k - 1 \in 0 .. n
      BY <1>2
    <3>2. part \in [0 .. n -> Seq(FieldType)] /\ \A m \in 1 .. n : part[m] = F[<<part[m - 1], m>>]
      BY <1>9 DEF Partials
    <3> QED
      BY <3>1, <3>2
  <2> QED
    BY <1>4, <2>1, Zenon
<1>11. /\ part \in [0 .. n -> Seq(FieldType)]
       /\ part[0] = <<>> /\ part[n] = FoldLeft(KeepField, <<>>, fields)
  BY <1>1, <1>2, <1>9 DEF Partials
<1> QED
  BY <1>10, <1>11 DEF n

LEMMA AppendFold ==
    ASSUME NEW fields \in Seq(FieldType)
    PROVE  \E part \in [0 .. Len(fields) -> Texts] :
             /\ part[0] = <<>> /\ part[Len(fields)] = FoldLeft(AppendField, <<>>, fields)
             /\ \A k \in 1 .. Len(fields) : part[k] = AppendField(part[k - 1], fields[k])
<1> DEFINE n == Len(fields)
           F == [x \in Texts \X (1 .. n) |-> AppendField(x[1], fields[x[2]])]
           Step(it) == [s \in SUBSET DOMAIN fields |->
                          IF s = {} THEN <<>> ELSE AppendField(it[s \ {Max(s)}], fields[Max(s)])]
           it == CHOOSE f : f = Step(f)
<1>1. FoldLeft(AppendField, <<>>, fields) = it[DOMAIN fields]
  BY Zenon DEF FoldLeft, MapThenFoldSet
<1>2. n \in Nat /\ DOMAIN fields = 1 .. n /\ \A k \in 1 .. n : fields[k] \in FieldType
  OBVIOUS
<1>3. \A x \in Texts : \A k \in 1 .. n : AppendField(x, fields[k]) \in Texts
  BY <1>2, AppendFieldType
<1>4. /\ F \in [Texts \X (1 .. n) -> Texts]
      /\ \A x \in Texts : \A k \in 1 .. n : F[<<x, k>>] = AppendField(x, fields[k])
  BY <1>3
<1>5. \A s : Max(s) = Largest(s)
  BY DEF Max, Largest
<1>6. it = Step(it)
  <2> HIDE DEF F, n
  <2>1. PICK f : Recursion(f, Texts, n, F, <<>>)
    BY <1>2, <1>4, Nothing, FoldRecursion
  <2>2. \A s \in SUBSET (1 .. n) : f[s] = IF s = {} THEN <<>> ELSE AppendField(f[s \ {Max(s)}], fields[Max(s)])
    <3> TAKE s \in SUBSET (1 .. n)
    <3>1. s # {} => /\ Largest(s) \in 1 .. n /\ f[s \ {Largest(s)}] \in Texts
                    /\ f[s] = F[<<f[s \ {Largest(s)}], Largest(s)>>]
      BY <2>1 DEF Recursion
    <3>2. f[{}] = <<>>
      BY <2>1 DEF Recursion
    <3> QED
      BY <1>4, <1>5, <3>1, <3>2, Zenon
  <2>3. f = Step(f)
    <3>1. f \in [SUBSET (1 .. n) -> Texts] /\ SUBSET DOMAIN fields = SUBSET (1 .. n)
      BY <1>2, <2>1 DEF Recursion
    <3> QED
      BY <2>2, <3>1
  <2> HIDE DEF Step
  <2> QED
    BY <2>3, Zenon
<1> HIDE DEF it
<1>7. it[{}] = <<>>
  BY <1>2, <1>6
<1>8. \A s \in SUBSET (1 .. n) : s # {} /\ it[s \ {Largest(s)}] \in Texts =>
              it[s] = F[<<it[s \ {Largest(s)}], Largest(s)>>]
  <2> TAKE s \in SUBSET (1 .. n)
  <2> SUFFICES ASSUME s # {}, it[s \ {Largest(s)}] \in Texts
               PROVE  it[s] = F[<<it[s \ {Largest(s)}], Largest(s)>>]
    OBVIOUS
  <2>1. Largest(s) \in 1 .. n
    BY <1>2, LargestOf
  <2>2. it[s] = AppendField(it[s \ {Max(s)}], fields[Max(s)])
    BY <1>2, <1>6
  <2> HIDE DEF F, n
  <2> QED
    BY <1>4, <1>5, <2>1, <2>2, Zenon
<1> HIDE DEF F, n
<1>9. PICK part : Partials(part, it, Texts, n, F, <<>>)
  BY <1>2, <1>4, <1>7, <1>8, Nothing, FoldPartials
<1>10. \A k \in 1 .. n : part[k] = AppendField(part[k - 1], fields[k])
  <2> TAKE k \in 1 .. n
  <2>1. part[k - 1] \in Texts /\ part[k] = F[<<part[k - 1], k>>]
    <3>1. k - 1 \in 0 .. n
      BY <1>2
    <3>2. part \in [0 .. n -> Texts] /\ \A m \in 1 .. n : part[m] = F[<<part[m - 1], m>>]
      BY <1>9 DEF Partials
    <3> QED
      BY <3>1, <3>2
  <2> QED
    BY <1>4, <2>1, Zenon
<1>11. /\ part \in [0 .. n -> Texts]
       /\ part[0] = <<>> /\ part[n] = FoldLeft(AppendField, <<>>, fields)
  BY <1>1, <1>2, <1>9 DEF Partials
<1> QED
  BY <1>10, <1>11 DEF n

(* One more kept field is appended to the text so far                         *)
LEMMA AppendedLast ==
    ASSUME NEW fields \in Seq(FieldType), NEW field \in FieldType
    PROVE  /\ FoldLeft(AppendField, <<>>, fields) \in Texts
           /\ FoldLeft(AppendField, <<>>, Append(fields, field))
                = AppendField(FoldLeft(AppendField, <<>>, fields), field)
<1> DEFINE n == Len(fields)
           more == Append(fields, field)
<1>1. /\ n \in Nat /\ more \in Seq(FieldType) /\ Len(more) = n + 1 /\ more[n + 1] = field
      /\ \A k \in 1 .. n : more[k] = fields[k]
  OBVIOUS
<1>2. PICK a \in [0 .. n -> Texts] :
             /\ a[0] = <<>> /\ a[n] = FoldLeft(AppendField, <<>>, fields)
             /\ \A k \in 1 .. n : a[k] = AppendField(a[k - 1], fields[k])
  BY AppendFold
<1> HIDE DEF more
<1>3. PICK b \in [0 .. n + 1 -> Texts] :
             /\ b[0] = <<>> /\ b[n + 1] = FoldLeft(AppendField, <<>>, more)
             /\ \A k \in 1 .. n + 1 : b[k] = AppendField(b[k - 1], more[k])
  <2>1. \E b \in [0 .. Len(more) -> Texts] :
             /\ b[0] = <<>> /\ b[Len(more)] = FoldLeft(AppendField, <<>>, more)
             /\ \A k \in 1 .. Len(more) : b[k] = AppendField(b[k - 1], more[k])
    BY <1>1, AppendFold
  <2> QED
    BY <1>1, <2>1
<1> DEFINE Q == {k \in 0 .. n : a[k] = b[k]}
<1>4. 0 \in Q
  BY <1>1, <1>2, <1>3
<1>5. ASSUME NEW k \in 1 .. n, k - 1 \in Q PROVE k \in Q
  <2>1. k \in 0 .. n /\ k \in 1 .. n + 1 /\ more[k] = fields[k]
    BY <1>1
  <2>2. a[k - 1] = b[k - 1]
    BY <1>5
  <2> QED
    BY <1>2, <1>3, <2>1, <2>2
<1>6. n \in Q
  <2>1. n \in Nat /\ n \in 0 .. n
    BY <1>1
  <2> HIDE DEF Q, n
  <2>2. \A k \in 0 .. n : k \in Q
    BY <1>4, <1>5, <2>1, UpToInduction
  <2> QED
    BY <2>1, <2>2
<1>7. b[n + 1] = AppendField(b[n], field)
  <2>1. n + 1 \in 1 .. n + 1 /\ (n + 1) - 1 = n
    BY <1>1
  <2> QED
    BY <1>1, <1>3, <2>1
<1>8. a[n] \in Texts
  BY <1>1, <1>2
<1> QED
  BY <1>2, <1>3, <1>6, <1>7, <1>8 DEF more

LEMMA AppendedLength ==
    \A text \in Texts : \A field \in FieldType :
      Len(AppendField(text, field))
        = Len(text) + (IF text = <<>> THEN 0 ELSE 1) + Len(field.key) + 1 + Len(field.value)
<1> TAKE text \in Texts
<1> TAKE field \in FieldType
<1>1. field.key \in Texts /\ field.value \in Texts
  BY DEF FieldType
<1>2. <<EQUAL>> \in Texts /\ Len(<<EQUAL>>) = 1 /\ <<AND>> \in Texts /\ Len(<<AND>>) = 1
      /\ <<>> \in Texts /\ Len(<<>>) = 0
  BY DEF Texts, EQUAL, AND
<1>3. \A a, b \in Texts : a \o b \in Texts /\ Len(a \o b) = Len(a) + Len(b) /\ Len(a) \in Nat
  BY DEF Texts
<1> DEFINE amp == IF text = <<>> THEN <<>> ELSE <<AND>>
<1>4. amp \in Texts /\ Len(amp) = IF text = <<>> THEN 0 ELSE 1
  BY <1>2
<1>5. AppendField(text, field) = text \o amp \o field.key \o <<EQUAL>> \o field.value
  BY DEF AppendField
<1> HIDE DEF amp
<1>6. text \o amp \in Texts /\ Len(text \o amp) = Len(text) + Len(amp)
  BY <1>3, <1>4
<1>7. /\ text \o amp \o field.key \in Texts
      /\ Len(text \o amp \o field.key) = Len(text) + Len(amp) + Len(field.key)
  BY <1>1, <1>3, <1>6
<1>8. /\ text \o amp \o field.key \o <<EQUAL>> \in Texts
      /\ Len(text \o amp \o field.key \o <<EQUAL>>) = Len(text) + Len(amp) + Len(field.key) + 1
  BY <1>2, <1>3, <1>7
<1>9. Len(AppendField(text, field)) = Len(text) + Len(amp) + Len(field.key) + 1 + Len(field.value)
  BY <1>1, <1>3, <1>5, <1>8
<1> QED
  BY <1>4, <1>9

(* The text of the kept ones among the first k fields ends before the "&" or  *)
(* the NUL that ends the k-th, plus one "=" for each                          *)
LEMMA RebuiltLength ==
    ASSUME NEW query \in Texts
    PROVE  /\ RebuiltText(query) \in Texts
           /\ Len(RebuiltText(query)) <= 2 * Len(query) + 1
<1> DEFINE fields == query_parse(query)
           n == Len(fields)
           cuts == Cuts(query) \o <<Len(query) + 1>>
           R(K) == FoldLeft(AppendField, <<>>, K)
<1>1. /\ fields \in Seq(FieldType) /\ n \in 1 .. Len(query) + 1
      /\ cuts[1] = 0 /\ cuts[n + 1] = Len(query) + 1
      /\ \A k \in 1 .. n :
           /\ cuts[k] \in Nat /\ cuts[k + 1] \in Nat
           /\ Len(fields[k].key) + Len(fields[k].value) <= cuts[k + 1] - cuts[k] - 1
  BY QueryParsed
<1>2. Len(query) \in Nat /\ n \in Nat
  BY <1>1 DEF Texts
<1> HIDE DEF fields, cuts
<1>3. PICK kept \in [0 .. n -> Seq(FieldType)] :
             /\ kept[0] = <<>> /\ kept[n] = FoldLeft(KeepField, <<>>, fields)
             /\ \A k \in 1 .. n : kept[k] = KeepField(kept[k - 1], fields[k])
  BY <1>1, KeepFold
<1>4. R(<<>>) = <<>>
  <2>1. Len(<<>>) = 0 /\ <<>> \in Seq(FieldType)
    OBVIOUS
  <2>2. PICK part \in [0 .. 0 -> Texts] : part[0] = <<>> /\ part[0] = R(<<>>)
    BY <2>1, AppendFold
  <2> QED
    BY <2>2
<1>5. \A K \in Seq(FieldType) : \A f \in FieldType :
         R(K) \in Texts /\ R(Append(K, f)) = AppendField(R(K), f)
  BY AppendedLast
<1> HIDE DEF R
<1>6. \A k \in 1 .. n : fields[k] \in FieldType
  BY <1>1
<1>7. \A f \in FieldType : Len(f.key) \in Nat /\ Len(f.value) \in Nat
  BY DEF FieldType, Texts
<1>8. \A t \in Texts : Len(t) \in Nat
  BY DEF Texts
<1> DEFINE Q == {k \in 0 .. n : R(kept[k]) = <<>> \/ Len(R(kept[k])) <= cuts[k + 1] + k - 1}
<1>9. 0 \in Q
  BY <1>2, <1>3, <1>4
<1>10. ASSUME NEW k \in 1 .. n, k - 1 \in Q PROVE k \in Q
  <2> DEFINE K == kept[k - 1]
             f == fields[k]
             r == R(K)
  <2>1. K \in Seq(FieldType) /\ f \in FieldType /\ kept[k] = KeepField(K, f) /\ r \in Texts
    <3>1. k - 1 \in 0 .. n
      BY <1>2
    <3>2. K \in Seq(FieldType)
      BY <1>3, <3>1
    <3> QED
      BY <1>3, <1>5, <1>6, <3>2
  <2>2. r = <<>> \/ Len(r) <= cuts[k] + (k - 1) - 1
    <3>1. R(K) = <<>> \/ Len(R(K)) <= cuts[(k - 1) + 1] + (k - 1) - 1
      BY <1>10
    <3>2. (k - 1) + 1 = k
      BY <1>2
    <3> QED
      BY <3>1, <3>2
  <2>3. /\ cuts[k] \in Nat /\ cuts[k + 1] \in Nat /\ k \in 0 .. n
        /\ Len(f.key) + Len(f.value) <= cuts[k + 1] - cuts[k] - 1
        /\ Len(f.key) \in Nat /\ Len(f.value) \in Nat /\ Len(r) \in Nat
    <3>1. cuts[k] \in Nat /\ cuts[k + 1] \in Nat /\ Len(f.key) + Len(f.value) <= cuts[k + 1] - cuts[k] - 1
      BY <1>1
    <3>2. k \in 0 .. n
      BY <1>2
    <3> HIDE DEF f, r
    <3> QED
      BY <1>7, <1>8, <2>1, <3>1, <3>2
  <2>4. PICK lo \in Nat, hi \in Nat, kl \in Nat, vl \in Nat, rl \in Nat :
             /\ lo = cuts[k] /\ hi = cuts[k + 1]
             /\ kl = Len(f.key) /\ vl = Len(f.value) /\ rl = Len(r)
    <3> HIDE DEF f, r
    <3> QED
      BY <2>3
  <2>5. k \in Nat /\ k >= 1 /\ kl + vl <= hi - lo - 1 /\ (r = <<>> \/ rl <= lo + (k - 1) - 1)
    <3>1. k \in Nat /\ k >= 1
      BY <1>2
    <3> HIDE DEF f, r
    <3> QED
      BY <2>2, <2>3, <2>4, <3>1
  <2>6. kept[k] = K \/ kept[k] = Append(K, f)
    BY <2>1 DEF KeepField
  <2>7. CASE kept[k] = K
    <3>1. R(kept[k]) = r
      BY <2>7
    <3>2. r # <<>> => rl <= hi + k - 1
      BY <2>5
    <3> HIDE DEF r, f
    <3> QED
      BY <2>3, <2>4, <3>1, <3>2
  <2>8. CASE kept[k] = Append(K, f)
    <3>1. R(kept[k]) = AppendField(r, f)
      BY <1>5, <2>1, <2>8
    <3> HIDE DEF f, K, r
    <3>2. Len(R(kept[k])) = Len(r) + (IF r = <<>> THEN 0 ELSE 1) + Len(f.key) + 1 + Len(f.value)
      BY <2>1, <3>1, AppendedLength
    <3>3. CASE r = <<>>
      <4>1. Len(r) = 0
        BY <3>3
      <4>2. Len(R(kept[k])) = kl + 1 + vl
        BY <2>4, <3>2, <3>3, <4>1
      <4>3. kl + 1 + vl <= hi + k - 1
        BY <2>5
      <4> QED
        BY <2>3, <2>4, <4>2, <4>3
    <3>4. CASE r # <<>>
      <4>1. Len(R(kept[k])) = rl + 1 + kl + 1 + vl
        BY <2>4, <3>2, <3>4
      <4>2. rl + 1 + kl + 1 + vl <= hi + k - 1
        BY <2>5, <3>4
      <4> QED
        BY <2>3, <2>4, <4>1, <4>2
    <3> QED
      BY <3>3, <3>4
  <2> QED
    BY <2>6, <2>7, <2>8
<1>11. n \in Q
  <2>1. n \in Nat /\ n \in 0 .. n
    BY <1>2
  <2> HIDE DEF Q, n
  <2>2. \A k \in 0 .. n : k \in Q
    BY <1>9, <1>10, <2>1, UpToInduction
  <2> QED
    BY <2>1, <2>2
<1>12. RebuiltText(query) = R(kept[n])
  BY <1>3 DEF RebuiltText, fields, R
<1>13. R(kept[n]) \in Texts
  <2>1. kept[n] \in Seq(FieldType)
    BY <1>2, <1>3
  <2>2. PICK part \in [0 .. Len(kept[n]) -> Texts] : part[Len(kept[n])] = R(kept[n])
    BY <2>1, AppendFold DEF R
  <2>3. Len(kept[n]) \in 0 .. Len(kept[n])
    BY <2>1
  <2> QED
    BY <2>2, <2>3
<1>14. Len(R(kept[n])) <= 2 * Len(query) + 1
  <2>1. CASE R(kept[n]) = <<>>
    <3>1. Len(R(kept[n])) = 0
      BY <2>1
    <3> QED
      BY <1>2, <3>1
  <2>2. CASE R(kept[n]) # <<>>
    BY <1>1, <1>2, <1>8, <1>11, <1>13, <2>2
  <2> QED
    BY <2>1, <2>2
<1> QED
  BY <1>12, <1>13, <1>14

-------------------------------------------------------------------------------
(* The steps                                                                  *)

(* The ruleset the loop is at                                                 *)
LEMMA AtOne ==
    TypeOK /\ Unredirected /\ AtRuleset =>
      /\ index \in 1 .. Len(Rulesets) /\ source \in UrlType /\ uri \in UrlType
      /\ Rulesets[index] \in RulesetType /\ Rulesets[index] \in ToSet(Rulesets)
<1> SUFFICES ASSUME TypeOK, Unredirected, AtRuleset
             PROVE  /\ index \in 1 .. Len(Rulesets) /\ source \in UrlType /\ uri \in UrlType
                    /\ Rulesets[index] \in RulesetType /\ Rulesets[index] \in ToSet(Rulesets)
  OBVIOUS
<1>1. index \in 1 .. Len(Rulesets)
  BY DEF TypeOK, Unredirected, AtRuleset
<1>2. source \in UrlType /\ uri \in UrlType
  BY DEF TypeOK, Unredirected, AtRuleset
<1> QED
  BY <1>1, <1>2 DEF ToSet

(* What the rulesets say of a URL depends on the call's options only          *)
LEMMA SameSayOnUrls ==
    UNCHANGED given =>
      /\ \A flag : On(flag)' = On(flag)
      /\ \A r, u : Applies(r, u)' = Applies(r, u)
<1> SUFFICES ASSUME UNCHANGED given
             PROVE  /\ \A flag : On(flag)' = On(flag)
                    /\ \A r, u : Applies(r, u)' = Applies(r, u)
  OBVIOUS
<1>1. \A flag : On(flag)' = On(flag)
  BY DEF On
<1> QED
  BY <1>1 DEF Applies, Excepted, On

(* What rulesets name depends on the call's options only, and adds up         *)
LEMMA SameNames ==
    UNCHANGED given =>
      /\ \A rs : Names(rs)' = Names(rs)
      /\ \A rs : RawWords(rs)' = RawWords(rs)
      /\ \A query : RebuiltText(query)' = RebuiltText(query)
<1> SUFFICES ASSUME UNCHANGED given
             PROVE  /\ \A rs : Names(rs)' = Names(rs)
                    /\ \A rs : RawWords(rs)' = RawWords(rs)
                    /\ \A query : RebuiltText(query)' = RebuiltText(query)
  OBVIOUS
<1>1. \A rs : Names(rs)' = Names(rs)
  BY DEF Names, On
<1>2. \A rs : RawWords(rs)' = RawWords(rs)
  BY DEF RawWords, On
<1>3. \A query : RebuiltText(query)' = RebuiltText(query)
  BY DEF RebuiltText, KeepField, On, FoldLeft, MapThenFoldSet
<1> QED
  BY <1>1, <1>2, <1>3

LEMMA NamesAdd ==
    /\ Names({}) = {} /\ RawWords({}) = {}
    /\ \A rs, r : /\ Names(rs \cup {r}) = Names(rs) \cup Names({r})
                  /\ RawWords(rs \cup {r}) = RawWords(rs) \cup RawWords({r})
<1>1. Names({}) = {} /\ RawWords({}) = {}
  BY DEF Names, RawWords
<1>2. \A rs, r : Names(rs \cup {r}) = Names(rs) \cup Names({r})
  <2> TAKE rs, r
  <2> DEFINE of(q) == (IF On("ignore_rules") THEN {} ELSE ToSet(q.rules)) \cup
                      (IF On("ignore_referral_marketing") THEN {}
                       ELSE ToSet(q.referral_marketing))
  <2>1. \A s : Names(s) = UNION {of(q) : q \in s}
    BY DEF Names
  <2> HIDE DEF of
  <2> QED
    BY <2>1
<1>3. \A rs, r : RawWords(rs \cup {r}) = RawWords(rs) \cup RawWords({r})
  <2> TAKE rs, r
  <2> QED
    BY DEF RawWords
<1> QED
  BY <1>1, <1>2, <1>3

(* The rulesets for the URL that the loop has passed, after one more          *)
LEMMA PassedMore ==
    /\ index \in Nat /\ index >= 1 /\ index' = index + 1 /\ UNCHANGED <<given, source>>
    => Passed' = IF Applies(Rulesets[index], source) THEN Passed \cup {Rulesets[index]}
                 ELSE Passed
<1> SUFFICES ASSUME index \in Nat, index >= 1, index' = index + 1, UNCHANGED <<given, source>>
             PROVE  Passed' = IF Applies(Rulesets[index], source)
                              THEN Passed \cup {Rulesets[index]} ELSE Passed
  OBVIOUS
<1>1. \A n : Applies(Rulesets[n], source)' = Applies(Rulesets[n], source)
  BY SameSayOnUrls
<1>2. 1 .. (index' - 1) = (1 .. (index - 1)) \cup {index}
  OBVIOUS
<1>3. Passed' = {Rulesets[n] : n \in {n \in 1 .. (index' - 1) : Applies(Rulesets[n], source)}}
  BY <1>1 DEF Passed
<1> QED
  BY <1>2, <1>3 DEF Passed

LEMMA PassedAll ==
    index = Len(Rulesets) + 1 => Passed = Applying(source)
<1> SUFFICES ASSUME index = Len(Rulesets) + 1 PROVE Passed = Applying(source)
  OBVIOUS
<1>1. 1 .. (index - 1) = DOMAIN Rulesets
  OBVIOUS
<1> QED
  BY <1>1 DEF Passed, Applying, ToSet

(* What one more ruleset leaves of the URL                                    *)
LEMMA RulesetStrips ==
    ASSUME NEW r \in RulesetType, NEW url \in UrlType
    PROVE  /\ (IF On("ignore_raw_rules") THEN url.path ELSE StripAllRaw(r.raw_rules, url.path))
                = OrNull(Dropping(RawWords({r}), Text(url.path)))
           /\ Names({r}) \cap ToSet(Text(url.query)) = {} =>
                StripFields(r, url.query) = url.query
           /\ Names({r}) \cap ToSet(Text(url.fragment)) = {} =>
                StripFields(r, url.fragment) = url.fragment
<1>1. /\ url.path \in PartType /\ url.query \in PartType /\ url.fragment \in PartType
      /\ r.raw_rules \in Texts
  BY DEF UrlType, RulesetType
<1>2. CASE On("ignore_raw_rules")
  <2>1. RawWords({r}) = {}
    BY <1>2 DEF RawWords
  <2>2. Text(url.path) \in Texts /\ OrNull(Text(url.path)) = url.path
    BY <1>1, PartText, TextOfOrNull
  <2>3. Dropping(RawWords({r}), Text(url.path)) = Text(url.path)
    BY <2>1, <2>2, DroppingNone DEF Texts
  <2> QED
    BY <1>1, <1>2, <2>2, <2>3, StripFieldsUntouched
<1>3. CASE ~On("ignore_raw_rules")
  <2>1. RawWords({r}) = ToSet(r.raw_rules)
    BY <1>3 DEF RawWords
  <2> QED
    BY <1>1, <1>3, <2>1, StripAllRawIs, StripFieldsUntouched
<1> QED
  BY <1>2, <1>3

(* Nothing is stripped at the start                                           *)
LEMMA NothingStripped ==
    ASSUME NEW part \in PartType
    PROVE  OrNull(Dropping({}, Text(part))) = part
<1>1. Text(part) \in Texts /\ OrNull(Text(part)) = part
  BY PartText, TextOfOrNull
<1>2. Dropping({}, Text(part)) = Text(part)
  BY <1>1, DroppingNone DEF Texts
<1> QED
  BY <1>1, <1>2

LEMMA ParsedKeeps ==
    \A url \in UrlType : /\ parse_uri(url).scheme = url.scheme
                         /\ parse_uri(url).site = url.site
                         /\ parse_uri(url).query = url.query
BY DEF parse_uri, UrlType

LEMMA InitIInv == Init => IInv
<1> SUFFICES ASSUME Init PROVE IInv
  OBVIOUS
<1>1. TypeOK
  BY DEF Init, TypeOK, NoCall, CallType
<1> QED
  BY <1>1 DEF Init, IInv, NoCall, Unredirected, CameFrom, RedirectionsFollowed, Returned,
              StrippedSoFar, PathAsPromised, UntrackedKept

LEMMA CallKeeps == IInv /\ Call => IInv'
<1> SUFFICES ASSUME IInv, Call PROVE IInv'
  OBVIOUS
<1>1. TypeOK'
  BY DEF IInv, TypeOK, Call, CallType
<1> QED
  BY <1>1 DEF IInv, Call, Unredirected, CameFrom, RedirectionsFollowed, Returned,
              StrippedSoFar, PathAsPromised, UntrackedKept

LEMMA CallAgainKeeps == IInv /\ CallAgain => IInv'
<1> SUFFICES ASSUME IInv, CallAgain PROVE IInv'
  OBVIOUS
<1>1. given' \in CallType /\ given'.source = target
  BY DEF IInv, TypeOK, CallAgain, CallType
<1>2. TypeOK'
  BY <1>1 DEF IInv, TypeOK, CallAgain
<1> QED
  BY <1>1, <1>2 DEF IInv, CallAgain, Unredirected, CameFrom, RedirectionsFollowed, Returned,
                   StrippedSoFar, PathAsPromised, UntrackedKept

(* A step that leaves the call and the URL at hand keeps where it came from   *)
LEMMA SameUrlCameFrom == CameFrom /\ UNCHANGED <<given, source>> => CameFrom'
<1> SUFFICES ASSUME CameFrom, UNCHANGED <<given, source>> PROVE CameFrom'
  OBVIOUS
<1>1. \A r, u : Applies(r, u)' = Applies(r, u)
  BY SameSayOnUrls
<1>2. On("ignore_redirections")' = On("ignore_redirections")
  BY SameSayOnUrls
<1> QED
  BY <1>1, <1>2 DEF CameFrom, Applying

LEMMA RefuseKeeps == IInv /\ Refuse => IInv'
<1> SUFFICES ASSUME IInv, Refuse PROVE IInv'
  OBVIOUS
<1>1. StartCode \in {"ARG_INVALID", "RULESETS_EMPTY", "URI_SCHEME_MISSING", "URI_SCHEME_EMPTY",
                    "MEMORY_ALLOCATE_FAILURE"}
  BY DEF Refuse, StartCode, ParseCode
<1>2. TypeOK'
  BY <1>1 DEF IInv, TypeOK, Refuse
<1>3. CameFrom'
  BY SameUrlCameFrom DEF IInv, Refuse
<1> QED
  BY <1>1, <1>2, <1>3 DEF IInv, Refuse, Unredirected, RedirectionsFollowed, Returned,
                        StrippedSoFar, PathAsPromised, UntrackedKept

LEMMA StartKeeps == IInv /\ Start => IInv'
<1> SUFFICES ASSUME IInv, Start PROVE IInv'
  OBVIOUS
<1>1. source # Null /\ source \in UrlType
  BY DEF IInv, TypeOK, Start, StartCode
<1>2. parse_uri(source) \in UrlType
  BY <1>1, ParsedType
<1>3. TypeOK'
  <2>1. pc' = "scan" /\ uri' \in UrlType /\ uri' # Null /\ index' = 1
    BY <1>2 DEF Start
  <2>2. 1 \in 0 .. (Len(Rulesets) + 1)
    OBVIOUS
  <2> QED
    BY <2>1, <2>2 DEF IInv, TypeOK, Start
<1>4. CameFrom'
  BY SameUrlCameFrom DEF IInv, Start
<1>5. Unredirected'
  BY <1>1 DEF Start, Unredirected
<1>6. StrippedSoFar'
  <2>1. source' = source /\ uri' = parse_uri(source) /\ index' = 1
    BY DEF Start
  <2>2. Passed' = {}
    BY <2>1 DEF Passed
  <2>3. RawWords(Passed)' = {}
    BY <2>2, NamesAdd DEF RawWords
  <2>4. uri'.path = OrNull(Dropping({}, Text(uri'.path)))
    BY <1>2, <2>1, NothingStripped DEF UrlType
  <2> QED
    BY <1>1, <2>1, <2>3, <2>4, ParsedKeeps DEF StrippedSoFar
<1> QED
  BY <1>3, <1>4, <1>5, <1>6 DEF IInv, Start, RedirectionsFollowed, Returned, PathAsPromised, UntrackedKept

(* The loop goes on past a ruleset that does not redirect the URL             *)
LEMMA PastRuleset ==
    /\ Unredirected /\ TypeOK /\ AtRuleset
    /\ Applies(Rulesets[index], source) => ~MustRedirect(Rulesets[index])
    /\ index' = index + 1 /\ UNCHANGED <<given, source>>
    => Unredirected'
<1> SUFFICES ASSUME Unredirected, TypeOK, AtRuleset,
                    Applies(Rulesets[index], source) => ~MustRedirect(Rulesets[index]),
                    index' = index + 1, UNCHANGED <<given, source>>
             PROVE  Unredirected'
  OBVIOUS
<1>1. source # Null /\ index \in Nat /\ index >= 1
  BY DEF Unredirected, AtRuleset, TypeOK
<1>2. \A n \in 1 .. (index - 1) : Applies(Rulesets[n], source) => ~MustRedirect(Rulesets[n])
  BY DEF Unredirected, AtRuleset
<1>3. \A n \in 1 .. index : Applies(Rulesets[n], source) => ~MustRedirect(Rulesets[n])
  <2> TAKE n \in 1 .. index
  <2>1. n = index \/ n \in 1 .. (index - 1)
    BY <1>1
  <2> QED
    BY <1>2, <2>1
<1>4. \A r : MustRedirect(r)' = MustRedirect(r)
  BY SameSayOnUrls DEF MustRedirect
<1>5. \A n \in 1 .. index : Applies(Rulesets[n], source)' => ~MustRedirect(Rulesets[n])'
  BY <1>3, <1>4, SameSayOnUrls
<1>6. index' - 1 = index
  BY <1>1
<1> QED
  BY <1>1, <1>5, <1>6 DEF Unredirected

LEMMA SkipRulesetKeeps == IInv /\ SkipRuleset => IInv'
<1> SUFFICES ASSUME IInv, SkipRuleset PROVE IInv'
  OBVIOUS
<1>1. Unredirected'
  BY PastRuleset DEF IInv, SkipRuleset
<1>2. CameFrom'
  BY SameUrlCameFrom DEF IInv, SkipRuleset
<1>3. index' \in 0 .. (Len(Rulesets) + 1) /\ pc' = "scan"
  BY AtOne DEF IInv, SkipRuleset, AtRuleset
<1>4. TypeOK'
  BY <1>3 DEF IInv, TypeOK, SkipRuleset
<1>5. StrippedSoFar'
  <2>1. Passed' = Passed
    <3>1. index \in Nat /\ index >= 1
      BY AtOne DEF IInv, SkipRuleset
    <3> QED
      BY <3>1, PassedMore DEF SkipRuleset
  <2>2. pc = "scan" /\ UNCHANGED <<pc, given, source, uri>>
    BY DEF SkipRuleset, AtRuleset
  <2>3. RawWords(Passed)' = RawWords(Passed) /\ Names(Passed)' = Names(Passed)
    BY <2>1, <2>2, SameNames
  <2> QED
    BY <2>2, <2>3 DEF IInv, StrippedSoFar
<1> QED
  BY <1>1, <1>2, <1>3, <1>4, <1>5
     DEF IInv, RedirectionsFollowed, Returned, PathAsPromised, UntrackedKept

LEMMA RedirectKeeps == IInv /\ Redirect => IInv'
<1> SUFFICES ASSUME IInv, Redirect PROVE IInv'
  OBVIOUS
<1> DEFINE r == Rulesets[index]
<1>1. /\ Applies(r, source) /\ ~On("ignore_redirections") /\ Redirecting(r, source) # {}
      /\ source' = RedirectTarget(r, source) /\ pc' = "start" /\ uri' = Null /\ index' = 0
      /\ UNCHANGED <<given, code, target, before>>
  BY DEF Redirect, MustRedirect
<1>2. r \in RulesetType /\ r \in ToSet(Rulesets) /\ source \in UrlType
  BY AtOne DEF IInv, Redirect
<1> HIDE DEF r
<1>3. source' \in UrlType
  BY <1>1, <1>2, RedirectTargetType
<1>4. TypeOK'
  BY <1>1, <1>3 DEF IInv, TypeOK
<1>5. CameFrom'
  <2>1. \E q \in ToSet(Rulesets) :
           /\ Applies(q, given.source)
           /\ ~On("ignore_redirections") /\ Redirecting(q, given.source) # {}
    <3>1. CASE source = given.source
      BY <1>1, <1>2, <3>1
    <3>2. CASE source # given.source
      BY <3>2 DEF IInv, CameFrom, Applying
    <3> QED
      BY <3>1, <3>2
  <2>2. PICK q \in ToSet(Rulesets) :
           /\ Applies(q, given.source)
           /\ ~On("ignore_redirections") /\ Redirecting(q, given.source) # {}
    BY <2>1
  <2>3. /\ Applies(q, given.source)' /\ ~On("ignore_redirections")'
        /\ (Redirecting(q, given.source) # {})'
    BY <1>1, <2>2, SameSayOnUrls
  <2> QED
    BY <2>3 DEF CameFrom, Applying
<1> QED
  BY <1>1, <1>4, <1>5 DEF IInv, Unredirected, RedirectionsFollowed, Returned,
                        StrippedSoFar, PathAsPromised, UntrackedKept

LEMMA StripRulesetKeeps == IInv /\ StripRuleset => IInv'
<1> SUFFICES ASSUME IInv, StripRuleset PROVE IInv'
  OBVIOUS
<1> DEFINE r == Rulesets[index]
           path == IF On("ignore_raw_rules") THEN uri.path ELSE StripAllRaw(r.raw_rules, uri.path)
<1>1. Unredirected'
  BY PastRuleset DEF IInv, StripRuleset
<1>2. CameFrom'
  BY SameUrlCameFrom DEF IInv, StripRuleset
<1>3. index' \in 0 .. (Len(Rulesets) + 1) /\ pc' = "scan"
  BY AtOne DEF IInv, StripRuleset, AtRuleset
<1>4. r \in RulesetType /\ uri \in UrlType
  BY AtOne DEF IInv, StripRuleset
<1>5. uri' = [uri EXCEPT !.query = StripFields(r, uri.query),
                         !.fragment = StripFields(r, uri.fragment), !.path = path]
  BY <1>4 DEF StripRuleset, UrlType
<1> HIDE DEF r
<1>6. StripFields(r, uri.query) \in PartType /\ StripFields(r, uri.fragment) \in PartType
  BY <1>4, StripFieldsType DEF UrlType
<1>7. path \in PartType
  BY <1>4, StripAllType DEF UrlType, RulesetType
<1> HIDE DEF path
<1>8. uri' \in UrlType
  BY <1>4, <1>5, <1>6, <1>7 DEF UrlType
<1>9. TypeOK'
  BY <1>3, <1>8 DEF IInv, TypeOK, StripRuleset
<1>10. StrippedSoFar'
  <2> DEFINE read == parse_uri(source)
             was == RawWords(Passed)
             gone == RawWords({r})
  <2>1. pc = "scan" /\ UNCHANGED <<pc, given, source>>
    BY DEF StripRuleset, AtRuleset
  <2>2. Passed' = Passed \cup {r}
    <3>1. index \in Nat /\ index >= 1 /\ Applies(r, source) /\ index' = index + 1
      BY AtOne DEF IInv, StripRuleset, r
    <3> QED
      BY <2>1, <3>1, PassedMore DEF r
  <2>3. /\ RawWords(Passed)' = was \cup gone
        /\ Names(Passed)' = Names(Passed) \cup Names({r})
    BY <2>1, <2>2, SameNames, NamesAdd
  <2>4. read \in UrlType
    BY <1>4, AtOne, ParsedType DEF IInv, StripRuleset
  <2>5. /\ uri.path = OrNull(Dropping(was, Text(read.path)))
        /\ uri.scheme = source.scheme /\ uri.site = source.site
        /\ Names(Passed) \cap ToSet(Text(read.query)) = {} => uri.query = read.query
        /\ Names(Passed) \cap ToSet(Text(read.fragment)) = {} => uri.fragment = read.fragment
    BY <2>1 DEF IInv, StrippedSoFar
  <2>6. /\ path = OrNull(Dropping(gone, Text(uri.path)))
        /\ Names({r}) \cap ToSet(Text(uri.query)) = {} => StripFields(r, uri.query) = uri.query
        /\ Names({r}) \cap ToSet(Text(uri.fragment)) = {} =>
             StripFields(r, uri.fragment) = uri.fragment
    BY <1>4, RulesetStrips DEF path, r
  <2> HIDE DEF was, gone
  <2>7. path = OrNull(Dropping(was \cup gone, Text(read.path)))
    <3>1. Text(read.path) \in Texts
      BY <2>4, PartText DEF UrlType
    <3> DEFINE text == Text(read.path)
    <3> HIDE DEF text
    <3>2. Dropping(was, text) \in Texts
      BY <3>1, DroppingType DEF Texts, text
    <3>3. Text(uri.path) = Dropping(was, text)
      BY <2>5, <3>2, TextOfOrNull DEF text
    <3>4. Dropping(gone, Dropping(was, text)) = Dropping(was \cup gone, text)
      BY <3>1, DroppingTwice DEF Texts, text
    <3> QED
      BY <2>6, <3>3, <3>4 DEF text
  <2>8. /\ uri'.path = path /\ uri'.query = StripFields(r, uri.query)
        /\ uri'.fragment = StripFields(r, uri.fragment)
        /\ uri'.scheme = uri.scheme /\ uri'.site = uri.site
    BY <1>4, <1>5 DEF UrlType
  <2>9. /\ Names(Passed)' \cap ToSet(Text(read.query)) = {} => uri'.query = read.query
        /\ Names(Passed)' \cap ToSet(Text(read.fragment)) = {} => uri'.fragment = read.fragment
    BY <2>3, <2>5, <2>6, <2>8
  <2> QED
    BY <2>1, <2>3, <2>5, <2>7, <2>8, <2>9 DEF StrippedSoFar
<1> QED
  BY <1>1, <1>2, <1>3, <1>9, <1>10
     DEF IInv, RedirectionsFollowed, Returned, PathAsPromised, UntrackedKept

LEMMA RebuildKeeps == IInv /\ Rebuild => IInv'
<1> SUFFICES ASSUME IInv, Rebuild PROVE IInv'
  OBVIOUS
<1>1. uri \in UrlType
  BY DEF IInv, TypeOK, Rebuild
<1>2. target' \in UrlType
  <2>1. CASE uri.query = Null
    BY <1>1, <2>1 DEF Rebuild
  <2>2. CASE uri.query # Null
    <3>1. RebuiltText(uri.query) \in Texts
      BY <1>1, <2>2, RebuiltLength DEF UrlType, PartType
    <3>2. target' = [uri EXCEPT !.query = OrNull(RebuiltText(uri.query))]
      BY <1>1, <2>2 DEF Rebuild, UrlType
    <3> QED
      BY <1>1, <3>1, <3>2, RebuiltType
  <2> QED
    BY <2>1, <2>2
<1>3. TypeOK'
  BY <1>2 DEF IInv, TypeOK, Rebuild
<1>4. CameFrom'
  BY SameUrlCameFrom DEF IInv, Rebuild
<1>5. RedirectionsFollowed'
  <2>1. \A n \in 1 .. Len(Rulesets) : Applies(Rulesets[n], source) => ~MustRedirect(Rulesets[n])
    <3>1. \A n \in 1 .. (index - 1) : Applies(Rulesets[n], source) => ~MustRedirect(Rulesets[n])
      BY DEF IInv, Unredirected, Rebuild
    <3>2. index \in Nat /\ index > Len(Rulesets)
      BY DEF IInv, TypeOK, Rebuild
    <3> QED
      BY <3>1, <3>2
  <2>2. \A r : MustRedirect(r)' = MustRedirect(r)
    BY SameSayOnUrls DEF MustRedirect, Rebuild
  <2>3. \A r \in ToSet(Rulesets) : Applies(r, source)' => ~MustRedirect(r)'
    BY <2>1, <2>2, SameSayOnUrls DEF ToSet, Rebuild
  <2>4. (~\E r \in Applying(source) : MustRedirect(r))'
    BY <2>3 DEF Applying
  <2> QED
    BY <1>4, <2>4 DEF RedirectionsFollowed, CameFrom
<1>6. /\ pc = "scan" /\ UNCHANGED <<given, source>>
      /\ target' = IF uri.query = Null THEN uri
                   ELSE [uri EXCEPT !.query = OrNull(RebuiltText(uri.query))]
  BY <1>1 DEF Rebuild, UrlType
<1>7. /\ target'.path = uri.path /\ target'.fragment = uri.fragment
      /\ target'.scheme = uri.scheme /\ target'.site = uri.site
      /\ target'.query = IF uri.query = Null THEN Null ELSE OrNull(RebuiltText(uri.query))
  BY <1>1, <1>6 DEF UrlType
<1>8. /\ RawWords(Applying(source))' = RawWords(Passed)
      /\ Tracking(source)' = Names(Passed)
  <2>1. index = Len(Rulesets) + 1
    BY DEF IInv, TypeOK, Rebuild
  <2>2. Passed = Applying(source)
    BY <2>1, PassedAll
  <2>3. Applying(source)' = Applying(source)
    BY <1>6, SameSayOnUrls DEF Applying
  <2> QED
    BY <1>6, <2>2, <2>3, SameNames DEF Tracking
<1>9. PathAsPromised'
  BY <1>6, <1>7, <1>8 DEF IInv, StrippedSoFar, PathAsPromised
<1>10. UntrackedKept'
  BY <1>6, <1>7, <1>8, SameNames DEF IInv, StrippedSoFar, UntrackedKept
<1> QED
  BY <1>3, <1>4, <1>5, <1>9, <1>10 DEF IInv, Rebuild, Unredirected, StrippedSoFar

LEMMA StutterKeeps == IInv /\ UNCHANGED vars => IInv'
<1> SUFFICES ASSUME IInv, UNCHANGED vars PROVE IInv'
  OBVIOUS
<1>1. TypeOK'
  BY DEF IInv, TypeOK, vars
<1>2. CameFrom'
  BY SameUrlCameFrom DEF IInv, vars
<1>3. \A r : MustRedirect(r)' = MustRedirect(r)
  BY SameSayOnUrls DEF MustRedirect, vars
<1>4. \A r, u : Applies(r, u)' = Applies(r, u)
  BY SameSayOnUrls DEF vars
<1>5. Unredirected'
  BY <1>3, <1>4 DEF IInv, Unredirected, vars
<1>6. RedirectionsFollowed'
  BY <1>2, <1>3, <1>4 DEF IInv, RedirectionsFollowed, Returned, Applying, CameFrom, vars
<1>7. /\ \A rs : Names(rs)' = Names(rs) /\ RawWords(rs)' = RawWords(rs)
      /\ \A query : RebuiltText(query)' = RebuiltText(query)
  BY SameNames DEF vars
<1>8. Passed' = Passed /\ Applying(source)' = Applying(source)
  BY <1>4 DEF Passed, Applying, vars
<1>9. StrippedSoFar'
  BY <1>7, <1>8 DEF IInv, StrippedSoFar, vars
<1>10. PathAsPromised' /\ UntrackedKept'
  BY <1>7, <1>8 DEF IInv, PathAsPromised, UntrackedKept, Tracking, Returned, vars
<1> QED
  BY <1>1, <1>2, <1>5, <1>6, <1>9, <1>10 DEF IInv

LEMMA StepKeeps == IInv /\ [Next]_vars => IInv'
BY CallKeeps, CallAgainKeeps, RefuseKeeps, StartKeeps, SkipRulesetKeeps, RedirectKeeps,
   StripRulesetKeeps, RebuildKeeps, StutterKeeps DEF Next

-------------------------------------------------------------------------------
(* The theorems                                                               *)

(* Every part of a URL is absent or not empty at every point of the loops of  *)
(* unalix_clean_url and no ruleset the loop has passed redirects the URL      *)
(* (clean_url.c:66-285)                                                       *)
THEOREM CleanUrlInvariant == Spec => []IInv
<1>1. Spec => []IInv
  BY InitIInv, StepKeeps, PTL DEF Spec
<1> QED
  BY <1>1

(* From the path exactly the words go that a ruleset for the URL names, in     *)
(* whatever order rules and rulesets stand (clean_url.c:187-198)              *)
THEOREM PathIsAsPromised == Spec => []PathAsPromised
<1>1. IInv => PathAsPromised
  BY DEF IInv
<1> QED
  BY <1>1, CleanUrlInvariant, PTL

(* A query or fragment without a tracking name is left as it was, whatever    *)
(* rules there are for other names (clean_url.c:134-273, regex.c:44-74)       *)
THEOREM UntrackedIsKept == Spec => []UntrackedKept
<1>1. IInv => UntrackedKept
  BY DEF IInv
<1> QED
  BY <1>1, CleanUrlInvariant, PTL

(* The URL that was cleaned in the end is one that no ruleset redirects, and  *)
(* the caller's own unless a ruleset redirects that one, whatever the rulesets *)
(* (clean_url.c:68-132)                                                       *)
THEOREM FollowsRedirections == Spec => []RedirectionsFollowed
<1>1. IInv => RedirectionsFollowed
  BY DEF IInv
<1> QED
  BY <1>1, CleanUrlInvariant, PTL

(* The rebuilt query fits the buffer made for it, for a query of any length   *)
(* (clean_url.c:225-273)                                                      *)
THEOREM RebuiltQueryFits == Spec => []RebuiltFits
<1>1. IInv => RebuiltFits
  <2> SUFFICES ASSUME IInv, pc = "scan", uri.query # Null
               PROVE  Len(RebuiltText(uri.query)) <= Capacity(uri.query)
    BY DEF RebuiltFits
  <2> DEFINE query == uri.query
  <2>1. query \in Texts /\ query # <<>>
    BY DEF IInv, TypeOK, UrlType, PartType
  <2> HIDE DEF query
  <2>2. Len(query) \in Nat /\ Len(query) >= 1
    BY <2>1 DEF Texts
  <2>3. RebuiltText(query) \in Texts /\ Len(RebuiltText(query)) <= 2 * Len(query) + 1
    BY <2>1, RebuiltLength
  <2>4. Len(RebuiltText(query)) \in Nat
    BY <2>3 DEF Texts
  <2>5. Len(RebuiltText(query)) <= Capacity(query)
    BY <2>2, <2>3, <2>4 DEF Capacity
  <2> QED
    BY <2>5 DEF query
<1> QED
  BY <1>1, CleanUrlInvariant, PTL

===============================================================================
